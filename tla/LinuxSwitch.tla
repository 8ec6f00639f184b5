---------------------------- MODULE LinuxSwitch ----------------------------
(***************************************************************************)
(* The Linux backend of the switch (switch/linux/linux.c, util_linux.c):   *)
(* VLANs are kernel bridges, a trunk interface joins a VLAN through a      *)
(* tagged device of its own, and the records of switch.c in the shared     *)
(* area say what was configured.  Every operation changes both, one kernel *)
(* call after the other, and a kernel call may fail.                       *)
(*                                                                         *)
(* A device is a pair: <<i, 0>> the interface itself, <<i, v>> its tagged  *)
(* device for VLAN v.  An operation is one step: what two programs do to   *)
(* the records at the same time is not modelled.                           *)
(*                                                                         *)
(* The kernel deletes a bridge only while it is down, and br_add() brings  *)
(* each one up: nothing but "shutdown" in the menu of the VLAN interface,  *)
(* or "swctl disable", brings it down again.                               *)
(***************************************************************************)
EXTENDS Integers, FiniteSets

CONSTANTS
    Interfaces,     \* the network interfaces of the machine
    Vlans,          \* VLAN numbers
    DefaultVlan,    \* LINUX_DEFAULT_VLAN, where interfaces are added
    DefaultVlans,   \* sw_is_default_vlan(): VLANs no command may delete
    MaxFaults       \* bound: kernel calls that fail for a reason of their own

ASSUME LinuxSwitchAssumption ==
    /\ IsFiniteSet(Interfaces) /\ IsFiniteSet(Vlans)
    /\ Vlans \subseteq Nat \ {0} /\ DefaultVlans \subseteq Vlans
    /\ DefaultVlan \in DefaultVlans
    /\ MaxFaults \in Nat

VARIABLES
    vlans,      \* VLANs with a record (SHM->vlan_data)
    named,      \* VLANs with a description (SHM->vlan_descs)
    vlanIfs,    \* VLANs with a VLAN interface (SHM->if_data, IF_TYPE_VIF)
    port,       \* the record of each interface added (SHM->if_data)
    entry,      \* tagged devices in the vif_list of their VLAN
    bridges,    \* kernel: VLANs whose bridge exists
    up,         \* kernel: VLANs whose bridge is up
    devs,       \* kernel: tagged devices that exist
    at,         \* kernel: the VLAN whose bridge a device is in, 0 for none
    refused,    \* VLANs whose bridge the kernel kept at their last deletion,
                \* because it was up
    faults,     \* kernel calls that failed for a reason of their own
    strays,     \* interfaces whose VLAN list changed while they were routed
    damage      \* why the lists of the shared area may no longer be intact

records == <<vlans, named, vlanIfs, port, entry>>
kernel  == <<bridges, up, devs, at, refused, strays>>
vars    == <<records, kernel, faults, strays, damage>>

Device == Interfaces \X (Vlans \cup {0})

Port == [type : {"switched", "routed"}, mode : {"access", "trunk"},
         access : Vlans, allowed : SUBSET Vlans]

\* switch_init() adds the default VLANs and their descriptions.
Init ==
    /\ vlans = DefaultVlans /\ named = DefaultVlans /\ vlanIfs = {}
    /\ port = << >> /\ entry = {}
    /\ bridges = DefaultVlans /\ up = DefaultVlans /\ devs = {}
    /\ at = [d \in Device |-> 0]
    /\ refused = {} /\ faults = 0 /\ strays = {} /\ damage = {}

-----------------------------------------------------------------------------
(* The kernel calls an operation makes, given the set of those that fail.  *)

Calls(is, vs) ==
    ({"create", "remove"} \X (is \X vs))
    \cup ({"join", "leave"} \X (is \X (vs \cup {0})))

\* At most one call of an operation fails for a reason of its own.
Failing(calls) ==
    IF faults < MaxFaults THEN {{}} \cup {{c} : c \in calls} ELSE {{}}

BridgeCalls(v) == {<<"bridge", v>>, <<"enable", v>>, <<"unbridge", v>>}

Tagged(i, vs) == {i} \X vs

\* create_vif(): the 8021q module refuses a device that exists.
Created(ds, bad) == {d \in ds : d \notin devs /\ <<"create", d>> \notin bad}

\* br_add_if(): the bridge must exist and the device be in none.
Joins(d, v, brs, bad) ==
    v \in brs /\ at[d] = 0 /\ <<"join", d>> \notin bad

\* br_remove_if(): the device must be in this bridge.
Leaves(d, v, bad) == at[d] = v /\ <<"leave", d>> \notin bad

\* Mutants: tagged devices stay in their bridges; they leave, but are kept.
LeftNone(ds, bad) == {}
GoneNone(ds, bad) == {}

\* The devices that leave the bridge of their tag, and those also removed.
Left(ds, bad) == {d \in ds : Leaves(d, d[2], bad)}
Gone(ds, bad) == {d \in Left(ds, bad) : <<"remove", d>> \notin bad}

\* The function g, and f where g says nothing.
Over(g, f) ==
    [x \in DOMAIN g \cup DOMAIN f |-> IF x \in DOMAIN g THEN g[x] ELSE f[x]]

\* Devices put into the bridge of their tag.
Into(ds, brs, bad) ==
    [d \in {e \in ds : Joins(e, e[2], brs, bad)} |-> d[2]]
Nowhere == [d \in {} |-> 0]

\* The bridge of each device once those of "to" were put where it says, and
\* those of "out" were taken out of theirs.
Moved(to, out) ==
    [d \in Device |->
        IF d \in DOMAIN to THEN to[d] ELSE IF d \in out THEN 0 ELSE at[d]]

\* The loops assign "ret" in every turn: what they return is the result of
\* the last device they tried, and the order of the lists is a history of its
\* own.
Returns(tried, done) ==
    IF tried = {} THEN {TRUE} ELSE {(d \in done) : d \in tried}

Switched(i, mode) == port[i].type = "switched" /\ port[i].mode = mode

\* Mutant: the access interfaces of a VLAN are forgotten.
AccessInNone(v) == {}

\* The interfaces that the records put into a VLAN: get_vlan_interfaces().
AccessIn(v) == {i \in DOMAIN port : Switched(i, "access") /\ port[i].access = v}
TrunkIn(v) == {i \in DOMAIN port : Switched(i, "trunk") /\ v \in port[i].allowed}

\* The last thing br_add() does is to bring the bridge up, which it also does
\* when it failed to add one that was there.
Enabled(v, brs, bad) ==
    IF v \in brs /\ <<"enable", v>> \notin bad THEN up \cup {v} ELSE up

\* Mutant: the last user of a bridge is not looked for.
ClosesAlways(v, users, bad) ==
    v \in bridges \ up /\ <<"unbridge", v>> \notin bad

\* br_remove(), when nothing else uses the bridge of VLAN v: it is deleted,
Closes(v, users, bad) ==
    v \notin users /\ v \in bridges \ up /\ <<"unbridge", v>> \notin bad

\* or the kernel refuses to, since it is up (EBUSY).
Refused(v, users) == IF v \notin users /\ v \in up THEN {v} ELSE {}

\* swctl ("always") writes the description whatever vlan_add() returned; that
\* of a default VLAN cannot be written.
Names(v, ok, always) == v \notin DefaultVlans /\ (ok \/ always)

\* An operation starts while the lists are intact.
Operation(bad) ==
    /\ damage = {}
    /\ faults' = faults + Cardinality(bad)

-----------------------------------------------------------------------------
(* VLANs.  "always" tells swctl, which writes or deletes the description   *)
(* whatever the operation returned, from the command line, which does not. *)

VlanAdd(v, always, bad) ==
    LET opened  == \/ v \in vlanIfs
                   \/ v \notin bridges /\ <<"bridge", v>> \notin bad
        brs     == IF opened THEN bridges \cup {v} ELSE bridges
        adds    == opened /\ v \notin vlans
        trunks  == TrunkIn(v) \X {v}
        new     == Created(trunks, bad)
    IN /\ Operation(bad)
       /\ bridges' = brs
       /\ up' = IF v \in vlanIfs THEN up ELSE Enabled(v, brs, bad)
       /\ vlans' = IF adds THEN vlans \cup {v} ELSE vlans
       /\ devs' = IF adds THEN devs \cup new ELSE devs
       /\ entry' = IF adds THEN entry \cup new ELSE entry
       /\ at' = IF adds
                THEN Moved([d \in {e \in new \cup AccessIn(v) \X {0} :
                                     Joins(e, v, brs, bad)} |-> v], {})
                ELSE at
       /\ \E ok \in IF adds THEN Returns(trunks, new) ELSE {FALSE} :
             named' = IF Names(v, ok, always) THEN named \cup {v} ELSE named
       /\ UNCHANGED <<vlanIfs, port, refused, strays, damage>>

\* The devices leave the bridge before it is known that it can be deleted.
VlanDel(v, always, bad) ==
    LET allowed == v \in vlans \ DefaultVlans
        listed  == {d \in entry : d[2] = v}
        out     == Left(listed, bad)
                   \cup {d \in AccessIn(v) \X {0} : Leaves(d, v, bad)}
        closes  == Closes(v, vlanIfs, bad)
        ok      == allowed /\ (closes \/ v \in vlanIfs)
    IN /\ Operation(bad)
       /\ devs' = IF allowed THEN devs \ Gone(listed, bad) ELSE devs
       /\ at' = IF ~allowed THEN at
                ELSE Moved(Nowhere, IF closes THEN {d \in Device : at[d] = v} ELSE out)
       /\ bridges' = IF allowed /\ closes THEN bridges \ {v} ELSE bridges
       /\ refused' = IF allowed THEN (refused \ {v}) \cup Refused(v, vlanIfs)
                     ELSE refused
       /\ entry' = IF ok THEN entry \ listed
                   ELSE IF allowed THEN entry \ Gone(listed, bad) ELSE entry
       /\ vlans' = IF ok THEN vlans \ {v} ELSE vlans
       /\ named' = IF ok \/ always THEN named \ {v} ELSE named
       /\ UNCHANGED <<vlanIfs, port, up, strays, damage>>

\* vif_add(): the record of a VLAN interface that exists is overwritten with
\* one whose list links were never assigned.
VifAdd(v, bad) ==
    LET opens == v \notin bridges /\ <<"bridge", v>> \notin bad
        ok    == v \in vlans \/ opens
    IN /\ Operation(bad)
       /\ bridges' = IF v \notin vlans /\ ok THEN bridges \cup {v} ELSE bridges
       /\ up' = IF v \in vlans THEN up ELSE Enabled(v, bridges', bad)
       /\ vlanIfs' = IF ok /\ v \in bridges' THEN vlanIfs \cup {v} ELSE vlanIfs
       /\ damage' \in IF ok /\ v \in vlanIfs THEN {{}, {"links overwritten"}}
                      ELSE {{}}
       /\ UNCHANGED <<vlans, named, port, entry, devs, at, refused, strays>>

VifDel(v, bad) ==
    LET closes == Closes(v, vlans, bad) IN
       /\ Operation(bad)
       /\ vlanIfs' = vlanIfs \ {v}
       /\ bridges' = IF closes THEN bridges \ {v} ELSE bridges
       /\ at' = IF closes THEN Moved(Nowhere, {d \in Device : at[d] = v}) ELSE at
       /\ refused' = IF v \in vlans THEN refused
                     ELSE (refused \ {v}) \cup Refused(v, vlans)
       /\ UNCHANGED <<vlans, named, port, entry, up, devs, strays, damage>>

\* if_enable() and if_disable() of the bridge of a VLAN.
IfEnable(v) ==
    /\ Operation({}) /\ v \in bridges
    /\ up' = up \cup {v}
    /\ UNCHANGED <<records, bridges, devs, at, refused, strays, damage>>

IfDisable(v) ==
    /\ Operation({}) /\ v \in bridges
    /\ up' = up \ {v}
    /\ UNCHANGED <<records, bridges, devs, at, refused, strays, damage>>

-----------------------------------------------------------------------------
(* Interfaces.                                                             *)

\* add_vifs_to_trunk() and remove_vifs_from_trunk() for the VLANs "in" and
\* "out", and the interface itself put into or taken out of a bridge ("own").
\* del_vif_data() of a device that is not listed unlinks the list's head.
Retag(i, in, out, own, bad) ==
    LET new  == Created(Tagged(i, in \cap vlans), bad)
        left == Left(Tagged(i, out \cap vlans), bad)
        gone == Gone(Tagged(i, out \cap vlans), bad)
    IN /\ devs' = (devs \ gone) \cup new
       /\ entry' = (entry \ gone) \cup new
       /\ at' = Moved(Over(own, Into(new, bridges, bad)), left)
       /\ damage' = IF gone \subseteq entry THEN {} ELSE {"no entry"}

AddReturns(i, in, bad) ==
    LET tried == Tagged(i, in \cap vlans) IN Returns(tried, Created(tried, bad))
RemoveReturns(i, out, bad) ==
    LET left == Left(Tagged(i, out \cap vlans), bad)
    IN Returns(left, Gone(left, bad))

\* The interface itself is put into the bridge of VLAN v (or out, 0) or not.
Own(i, v, moves) == [d \in IF moves THEN {<<i, 0>>} ELSE {} |-> v]
Unmoved(i) == Own(i, 0, FALSE)

IfAdd(i, mode, bad) ==
    LET d == <<i, 0>> IN
    /\ Operation(bad)
    /\ i \notin DOMAIN port
    /\ port' = Over([j \in {i} |-> [type |-> "switched", mode |-> mode,
                                    access |-> DefaultVlan, allowed |-> Vlans]], port)
    /\ IF mode = "trunk" THEN Retag(i, Vlans, {}, Unmoved(i), bad)
       ELSE Retag(i, {}, {},
                  Own(i, DefaultVlan, Joins(d, DefaultVlan, bridges, bad)), bad)
    /\ UNCHANGED <<vlans, named, vlanIfs, bridges, up, refused, strays>>

IfRemove(i, bad) ==
    /\ Operation(bad)
    /\ i \in DOMAIN port
    /\ port' = [j \in DOMAIN port \ {i} |-> port[j]]
    /\ IF Switched(i, "trunk") THEN Retag(i, {}, port[i].allowed, Unmoved(i), bad)
       ELSE Retag(i, {}, {},
                  Own(i, 0, Switched(i, "access")
                            /\ Leaves(<<i, 0>>, port[i].access, bad)), bad)
    /\ UNCHANGED <<vlans, named, vlanIfs, bridges, up, refused, strays>>

\* A command for an interface another program removed: get_if_data() fails
\* and the operation reads a record that was never assigned.
MissingRecord(i) ==
    /\ damage = {}
    /\ i \notin DOMAIN port
    /\ damage' \in {{}, {"no record"}}
    /\ UNCHANGED <<records, kernel, faults, strays>>

IfModeAccess(i, bad) ==
    LET d     == <<i, 0>>
        joins == Joins(d, port[i].access, bridges, bad)
    IN /\ Operation(bad)
       /\ i \in DOMAIN port
       /\ ~Switched(i, "access")
       /\ Retag(i, {}, port[i].allowed, Own(i, port[i].access, joins), bad)
       /\ port' = IF joins THEN [port EXCEPT ![i].type = "switched",
                                             ![i].mode = "access"]
                  ELSE port
       /\ UNCHANGED <<vlans, named, vlanIfs, bridges, up, refused, strays>>

IfModeTrunk(i, bad) ==
    LET d == <<i, 0>> IN
    /\ Operation(bad)
    /\ i \in DOMAIN port
    /\ ~Switched(i, "trunk")
    /\ Retag(i, port[i].allowed, {},
             Own(i, 0, Leaves(d, port[i].access, bad)), bad)
    /\ \E ok \in AddReturns(i, port[i].allowed, bad) :
          port' = IF ok THEN [port EXCEPT ![i].type = "switched",
                                          ![i].mode = "trunk"]
                  ELSE port
    /\ UNCHANGED <<vlans, named, vlanIfs, bridges, up, refused, strays>>

IfNoSwitchport(i, bad) ==
    LET leaves == Leaves(<<i, 0>>, port[i].access, bad)
        out    == IF port[i].mode = "trunk" THEN port[i].allowed ELSE {}
    IN /\ Operation(bad)
       /\ i \in DOMAIN port
       /\ port[i].type = "switched"
       /\ Retag(i, {}, out, Own(i, 0, port[i].mode = "access" /\ leaves), bad)
       /\ \E ok \in IF port[i].mode = "access" THEN {leaves}
                    ELSE RemoveReturns(i, out, bad) :
             port' = IF ok THEN [port EXCEPT ![i].type = "routed"] ELSE port
       /\ UNCHANGED <<vlans, named, vlanIfs, bridges, up, refused, strays>>

\* if_set_port_vlan() ignores whether the interface left its bridge.
IfSetPortVlan(i, v, bad) ==
    LET d      == <<i, 0>>
        leaves == Leaves(d, port[i].access, bad)
        joins  == /\ v \in vlans \cap bridges
                  /\ leaves \/ at[d] = 0
                  /\ <<"join", d>> \notin bad
    IN /\ Operation(bad)
       /\ i \in DOMAIN port
       /\ Switched(i, "access") /\ port[i].access # v
       /\ port' = [port EXCEPT ![i].access = v]
       /\ Retag(i, {}, {}, IF joins THEN Own(i, v, TRUE)
                           ELSE Own(i, 0, leaves), bad)
       /\ UNCHANGED <<vlans, named, vlanIfs, bridges, up, refused, strays>>

\* Mutant: the bitmap's bit is off by one.
AllowedOffByOne(how, old, vs) == {v - 1 : v \in vs}

\* The bitmap after "switchport trunk allowed vlan": set, add or remove.
AllowedAfter(how, old, vs) ==
    CASE how = "set" -> vs [] how = "add" -> old \cup vs
      [] how = "remove" -> old \ vs

\* The tagged devices follow the bitmap when the mode is trunk, whatever the
\* type.
IfTrunkVlans(i, how, vs, bad) ==
    LET old == port[i].allowed
        new == AllowedAfter(how, old, vs)
    IN /\ Operation(bad)
       /\ i \in DOMAIN port
       /\ port' = [port EXCEPT ![i].allowed = new]
       /\ IF port[i].mode = "trunk"
          THEN Retag(i, new \ old, old \ new, Unmoved(i), bad)
          ELSE Retag(i, {}, {}, Unmoved(i), bad)
       /\ strays' = IF port[i].mode = "trunk" /\ port[i].type = "routed"
                    THEN strays \cup {i} ELSE strays
       /\ UNCHANGED <<vlans, named, vlanIfs, bridges, up, refused>>

-----------------------------------------------------------------------------
(* The programs that call the operations: swctl and the command line.      *)

\* cmd_vlan() writes the description only when the operation succeeded.
CmdVlan(v, bad) == VlanAdd(v, FALSE, bad) \/ VlanDel(v, FALSE, bad)
SwctlVlan(v, bad) == VlanAdd(v, TRUE, bad) \/ VlanDel(v, TRUE, bad)
SwctlVif(v, bad) == VifAdd(v, bad) \/ VifDel(v, bad)

\* "shutdown" and "no shutdown" in the menu of the VLAN's interface, and swctl.
CmdShutdown(v) == v \in vlanIfs /\ (IfEnable(v) \/ IfDisable(v))
SwctlEnable(v) == IfEnable(v) \/ IfDisable(v)

\* swctl adds an interface as a trunk, "interface" as an access interface.
SwctlAdd(i, bad) == IfAdd(i, "trunk", bad)
UseIfEther(i, bad) == IfAdd(i, "access", bad)
SwctlDel(i, bad) == IfRemove(i, bad)
SwctlSetMode(i, bad) == IfModeAccess(i, bad) \/ IfModeTrunk(i, bad)
CmdNoMode(i, bad) == IfNoSwitchport(i, bad)
SwctlSetPortVlan(i, bad) == \E v \in Vlans : IfSetPortVlan(i, v, bad)
SwctlTrunkVlans(i, bad) ==
    \E how \in {"set", "add", "remove"}, vs \in SUBSET Vlans :
       IfTrunkVlans(i, how, vs, bad)

VlanOperation ==
    \E v \in Vlans :
       \/ \E bad \in Failing(BridgeCalls(v) \cup Calls(Interfaces, {v})) :
             CmdVlan(v, bad) \/ SwctlVlan(v, bad)
       \/ \E bad \in Failing(BridgeCalls(v)) : SwctlVif(v, bad)
       \/ CmdShutdown(v) \/ SwctlEnable(v)

InterfaceOperation ==
    \E i \in Interfaces : \E bad \in Failing(Calls({i}, Vlans)) :
       \/ SwctlAdd(i, bad) \/ UseIfEther(i, bad) \/ SwctlDel(i, bad)
       \/ SwctlSetMode(i, bad) \/ CmdNoMode(i, bad)
       \/ SwctlSetPortVlan(i, bad) \/ SwctlTrunkVlans(i, bad)

Next ==
    \/ VlanOperation
    \/ InterfaceOperation
    \/ \E i \in Interfaces : MissingRecord(i)

Spec == Init /\ [][Next]_vars

-----------------------------------------------------------------------------
(* Properties.                                                             *)

\* No kernel call failed for a reason of its own, and no command changed the
\* VLAN list of a routed interface, which tags devices for it all the same.
Regular == faults = 0 /\ strays = {}

TypeOK ==
    /\ vlans \subseteq Vlans /\ named \subseteq Vlans /\ vlanIfs \subseteq Vlans
    /\ DOMAIN port \subseteq Interfaces
    /\ \A i \in DOMAIN port : port[i] \in Port
    /\ entry \subseteq Interfaces \X Vlans /\ devs \subseteq Interfaces \X Vlans
    /\ up \subseteq bridges /\ bridges \subseteq Vlans /\ refused \subseteq bridges
    /\ at \in [Device -> Vlans \cup {0}]
    /\ faults \in 0 .. MaxFaults /\ strays \subseteq Interfaces
    /\ damage \subseteq {"links overwritten", "no entry", "no record"}

\* A VLAN and its VLAN interface share one bridge: while either is recorded
\* the bridge exists, whichever kernel calls failed.
VlanHasBridge == vlans \cup vlanIfs \subseteq bridges

\* In a regular history, a switched interface receives the frames of a
\* VLAN only if the records put it there: none leaks into another VLAN.
Isolation ==
    Regular =>
    \A d \in Device : at[d] # 0 => d[1] \in AccessIn(at[d]) \cup TrunkIn(at[d])

\* In a regular history, an access interface whose VLAN exists is in the
\* bridge of that VLAN, whatever order its VLAN, its mode and the interface
\* were configured in; only a deletion of the VLAN that the kernel refused
\* leaves the interface in none, and then never in another's.
AccessForwards ==
    Regular =>
    \A i \in DOMAIN port : Switched(i, "access") /\ port[i].access \in vlans
       => \/ at[<<i, 0>>] = port[i].access
          \/ at[<<i, 0>>] = 0 /\ port[i].access \in refused

\* In a regular history, nothing is left behind in the kernel but bridges it
\* refused to delete: every other bridge has a record, and every tagged
\* device is in its bridge and in the list of its VLAN, so that
\* del_vif_data(), which does not test whether it found the device, always
\* finds it (switch.c:839-853).
NothingLeftBehind ==
    Regular => /\ vlans \cup vlanIfs \subseteq bridges
               /\ bridges \ (vlans \cup vlanIfs) \subseteq refused
               /\ devs = entry
               /\ \A d \in devs : at[d] = d[2]
               /\ "no entry" \notin damage

\* What the test of VLAN names relies on (test/vlan_rename.c:66,90): a VLAN
\* that was added can be deleted when no call fails for a reason of its own,
\* its bridge going with it (linux.c:222-223,371).  It cannot: see Enabled.
DeletesSucceed == Regular => refused = {}
=============================================================================

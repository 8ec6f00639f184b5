-------------------------- MODULE LinuxSwitchProofs --------------------------
(***************************************************************************)
(* Proofs about LinuxSwitch: for any interfaces and VLANs, and whichever   *)
(* kernel calls fail, a VLAN that is recorded has its bridge.  That        *)
(* property is inductive as it stands, for only the operations on VLANs    *)
(* change the variables it speaks of.                                      *)
(*                                                                         *)
(* In a history without failed calls and without the misuses that the      *)
(* model counts, the kernel is what the records say: InPlace.  From it     *)
(* follow that no frame leaks into another VLAN, that access ports         *)
(* forward, and that a removed interface or VLAN leaves nothing behind,    *)
(* but for the bridges that the kernel refused to delete.                  *)
(***************************************************************************)
EXTENDS LinuxSwitch, FiniteSetTheorems, TLAPS

\* vlan_add() records a VLAN only once its bridge is there (linux.c:235-310).
LEMMA VlanAddKeeps ==
    ASSUME VlanHasBridge, NEW v, NEW always, NEW bad, VlanAdd(v, always, bad)
    PROVE  VlanHasBridge'
<1>1. bridges \subseteq bridges' /\ vlanIfs' = vlanIfs
  BY DEF VlanAdd
<1>2. vlans' \subseteq vlans \cup {v} /\ (vlans' # vlans => v \in bridges')
  BY DEF VlanAdd
<1>3. QED
  BY <1>1, <1>2 DEF VlanHasBridge

\* vlan_del() removes the bridge only if no VLAN interface uses it, and then
\* removes the record too (linux.c:163-233).
LEMMA VlanDelKeeps ==
    ASSUME VlanHasBridge, NEW v, NEW always, NEW bad, VlanDel(v, always, bad)
    PROVE  VlanHasBridge'
<1>1. vlanIfs' = vlanIfs /\ vlans' \subseteq vlans
  BY DEF VlanDel
<1>2. CASE bridges' = bridges
  BY <1>1, <1>2 DEF VlanHasBridge
<1>3. CASE bridges' # bridges
  <2>1. /\ v \in vlans \ DefaultVlans /\ Closes(v, vlanIfs, bad)
        /\ bridges' = bridges \ {v}
    BY <1>3 DEF VlanDel
  <2>2. v \notin vlanIfs
    BY <2>1 DEF Closes
  <2>3. vlans' = vlans \ {v}
    BY <2>1 DEF VlanDel
  <2>4. QED
    BY <1>1, <2>1, <2>2, <2>3 DEF VlanHasBridge
<1>4. QED
  BY <1>2, <1>3

\* vif_add() opens the bridge of a VLAN that is not recorded (linux.c:312-352).
LEMMA VifAddKeeps ==
    ASSUME VlanHasBridge, NEW v, NEW bad, VifAdd(v, bad)
    PROVE  VlanHasBridge'
<1>1. bridges \subseteq bridges' /\ vlans' = vlans
  BY DEF VifAdd
<1>2. vlanIfs' \subseteq vlanIfs \cup {v} /\ (vlanIfs' # vlanIfs => v \in bridges')
  BY DEF VifAdd
<1>3. QED
  BY <1>1, <1>2 DEF VlanHasBridge

\* vif_del() removes the bridge only if no VLAN uses it (linux.c:354-376).
LEMMA VifDelKeeps ==
    ASSUME VlanHasBridge, NEW v, NEW bad, VifDel(v, bad)
    PROVE  VlanHasBridge'
<1>1. vlans' = vlans /\ vlanIfs' = vlanIfs \ {v}
  BY DEF VifDel
<1>2. bridges' = bridges \/ (v \notin vlans /\ bridges' = bridges \ {v})
  BY DEF VifDel, Closes
<1>3. QED
  BY <1>1, <1>2 DEF VlanHasBridge

\* No operation on an interface touches a bridge or the records of VLANs.
LEMMA InterfacesKeep ==
    ASSUME InterfaceOperation
    PROVE  UNCHANGED <<vlans, vlanIfs, bridges>>
<1>1. PICK i \in Interfaces : \E bad \in Failing(Calls({i}, Vlans)) :
         \/ SwctlAdd(i, bad) \/ UseIfEther(i, bad) \/ SwctlDel(i, bad)
         \/ SwctlSetMode(i, bad) \/ CmdNoMode(i, bad)
         \/ SwctlSetPortVlan(i, bad) \/ SwctlTrunkVlans(i, bad)
  BY DEF InterfaceOperation
<1>. PICK bad \in Failing(Calls({i}, Vlans)) :
         \/ SwctlAdd(i, bad) \/ UseIfEther(i, bad) \/ SwctlDel(i, bad)
         \/ SwctlSetMode(i, bad) \/ CmdNoMode(i, bad)
         \/ SwctlSetPortVlan(i, bad) \/ SwctlTrunkVlans(i, bad)
  BY <1>1
<1>2. CASE SwctlAdd(i, bad) \/ UseIfEther(i, bad)
  BY <1>2 DEF SwctlAdd, UseIfEther, IfAdd
<1>3. CASE SwctlDel(i, bad)
  BY <1>3 DEF SwctlDel, IfRemove
<1>4. CASE SwctlSetMode(i, bad)
  BY <1>4 DEF SwctlSetMode, IfModeAccess, IfModeTrunk
<1>5. CASE CmdNoMode(i, bad)
  BY <1>5 DEF CmdNoMode, IfNoSwitchport
<1>6. CASE SwctlSetPortVlan(i, bad)
  BY <1>6 DEF SwctlSetPortVlan, IfSetPortVlan
<1>7. CASE SwctlTrunkVlans(i, bad)
  BY <1>7 DEF SwctlTrunkVlans, IfTrunkVlans
<1>8. QED
  BY <1>2, <1>3, <1>4, <1>5, <1>6, <1>7

\* A VLAN and its VLAN interface share one bridge, which is there while either
\* is recorded, whichever kernel calls fail and in whatever order they come.
THEOREM SharedBridge == Spec => []VlanHasBridge
<1>1. Init => VlanHasBridge
  BY DEF Init, VlanHasBridge
<1>2. VlanHasBridge /\ [Next]_vars => VlanHasBridge'
  <2> SUFFICES ASSUME VlanHasBridge, [Next]_vars PROVE VlanHasBridge'
    OBVIOUS
  <2>1. CASE VlanOperation
    <3>1. PICK v \in Vlans :
             \/ \E bad : CmdVlan(v, bad) \/ SwctlVlan(v, bad)
             \/ \E bad : SwctlVif(v, bad)
             \/ IfEnable(v) \/ IfDisable(v)
      BY <2>1 DEF VlanOperation, CmdShutdown, SwctlEnable
    <3>2. CASE IfEnable(v) \/ IfDisable(v)
      BY <3>2 DEF IfEnable, IfDisable, records, VlanHasBridge
    <3>3. QED
      BY <3>1, <3>2, VlanAddKeeps, VlanDelKeeps, VifAddKeeps, VifDelKeeps
      DEF CmdVlan, SwctlVlan, SwctlVif
  <2>2. CASE InterfaceOperation
    BY <2>2, InterfacesKeep DEF VlanHasBridge
  <2>3. CASE \E i \in Interfaces : MissingRecord(i)
    BY <2>3 DEF MissingRecord, records, kernel, VlanHasBridge
  <2>4. CASE UNCHANGED vars
    BY <2>4 DEF vars, records, kernel, VlanHasBridge
  <2>5. QED
    BY <2>1, <2>2, <2>3, <2>4 DEF Next
<1>3. QED
  BY <1>1, <1>2, PTL DEF Spec

-----------------------------------------------------------------------------
(* Types.                                                                  *)

\* Operations that fail a call of their own count it, and there are no more
\* than MaxFaults of them.
LEMMA OneFailsAtMost ==
    ASSUME faults \in 0 .. MaxFaults, NEW calls, NEW bad \in Failing(calls), Operation(bad)
    PROVE  /\ faults' \in 0 .. MaxFaults
           /\ faults' = 0 => faults = 0 /\ bad = {}
<1>1. CASE bad = {}
  <2>1. Cardinality(bad) = 0
    BY <1>1, FS_EmptySet
  <2>2. QED
    BY <1>1, <2>1, LinuxSwitchAssumption DEF Operation, LinuxSwitchAssumption
<1>2. CASE bad # {}
  <2>1. faults < MaxFaults /\ bad \in {{c} : c \in calls}
    BY <1>2 DEF Failing
  <2>2. PICK c \in calls : bad = {c}
    BY <2>1
  <2>3. Cardinality(bad) = 1
    BY <2>2, FS_Singleton
  <2>4. QED
    BY <2>1, <2>3, LinuxSwitchAssumption DEF Operation, LinuxSwitchAssumption
<1>3. QED
  BY <1>1, <1>2

\* Moving devices to VLANs keeps "at" a function from devices to VLANs.
LEMMA MovedType ==
    ASSUME at \in [Device -> Vlans \cup {0}], NEW to, NEW out,
           \A d \in DOMAIN to : to[d] \in Vlans \cup {0}
    PROVE  Moved(to, out) \in [Device -> Vlans \cup {0}]
BY DEF Moved

\* Taking devices out of their bridges does so too.
LEMMA TakenOutType ==
    ASSUME at \in [Device -> Vlans \cup {0}]
    PROVE  \A out : Moved(Nowhere, out) \in [Device -> Vlans \cup {0}]
BY DEF Moved, Nowhere

\* What a device is moved to, or where it stays.
LEMMA MovedAt ==
    ASSUME NEW to, NEW out, NEW d \in Device
    PROVE  Moved(to, out)[d] = IF d \in DOMAIN to THEN to[d]
                               ELSE IF d \in out THEN 0 ELSE at[d]
BY DEF Moved

\* create_vif(), br_add_if() and their opposites keep the kernel's devices and
\* the lists of the VLANs to devices of interfaces and VLANs there are.
LEMMA RetagType ==
    ASSUME TypeOK, NEW i \in Interfaces, NEW in \in SUBSET Vlans, NEW out \in SUBSET Vlans,
           NEW v \in Vlans \cup {0}, NEW moves \in BOOLEAN, NEW bad,
           Retag(i, in, out, Own(i, v, moves), bad)
    PROVE  /\ entry' \subseteq Interfaces \X Vlans /\ devs' \subseteq Interfaces \X Vlans
           /\ at' \in [Device -> Vlans \cup {0}]
           /\ damage' \subseteq {"links overwritten", "no entry", "no record"}
<1>. DEFINE new  == Created(Tagged(i, in \cap vlans), bad)
            left == Left(Tagged(i, out \cap vlans), bad)
            gone == Gone(Tagged(i, out \cap vlans), bad)
            to   == Over(Own(i, v, moves), Into(new, bridges, bad))
<1>1. /\ devs' = (devs \ gone) \cup new /\ entry' = (entry \ gone) \cup new
      /\ at' = Moved(to, left)
      /\ damage' = IF gone \subseteq entry THEN {} ELSE {"no entry"}
  BY DEF Retag
<1>2. new \subseteq Interfaces \X Vlans
  BY DEF Created, Tagged
<1>3. \A d \in DOMAIN to : to[d] \in Vlans \cup {0}
  <2>. HIDE DEF new
  <2>1. \A d \in DOMAIN to : to[d] = v \/ (d \in new /\ to[d] = d[2])
    BY DEF Over, Own, Into
  <2>2. QED
    BY <2>1, <1>2
<1>4. at' \in [Device -> Vlans \cup {0}]
  BY <1>1, <1>3, MovedType DEF TypeOK
<1>. HIDE DEF new, gone
<1>5. QED
  BY <1>1, <1>2, <1>4 DEF TypeOK

PortsTyped(r) == DOMAIN r \subseteq Interfaces /\ \A i \in DOMAIN r : r[i] \in Port

\* A record with some fields assigned again is a record.
LEMMA PortType ==
    ASSUME NEW i \in Interfaces, TypeOK, i \in DOMAIN port, NEW v \in Vlans, NEW vs \in SUBSET Vlans
    PROVE  /\ port[i] \in Port
           /\ PortsTyped([port EXCEPT ![i].type = "switched", ![i].mode = "access"])
           /\ PortsTyped([port EXCEPT ![i].type = "switched", ![i].mode = "trunk"])
           /\ PortsTyped([port EXCEPT ![i].type = "routed"])
           /\ PortsTyped([port EXCEPT ![i].access = v])
           /\ PortsTyped([port EXCEPT ![i].allowed = vs])
BY ZenonT(40) DEF TypeOK, Port, PortsTyped

\* The operations on VLANs keep the types.
LEMMA VlanAddType ==
    ASSUME TypeOK, faults' \in 0 .. MaxFaults, NEW v \in Vlans, NEW always, NEW bad,
           VlanAdd(v, always, bad)
    PROVE  TypeOK'
<1>. DEFINE new == Created(TrunkIn(v) \X {v}, bad)
            brs == bridges'
            to  == [d \in {e \in new \cup AccessIn(v) \X {0} : Joins(e, v, brs, bad)} |-> v]
<1>1. new \subseteq Interfaces \X Vlans
  <2>1. TrunkIn(v) \subseteq Interfaces
    BY DEF TrunkIn, TypeOK
  <2>2. QED
    BY <2>1 DEF Created
<1>2. bridges' \subseteq Vlans /\ vlans' \subseteq Vlans
  BY DEF VlanAdd, TypeOK
<1>3. devs' \in {devs, devs \cup new} /\ entry' \in {entry, entry \cup new}
  BY DEF VlanAdd
<1>4. named' \subseteq Vlans
  BY DEF VlanAdd, TypeOK
<1>5. at' \in {at, Moved(to, {})}
  BY DEF VlanAdd
<1>6. at' \in [Device -> Vlans \cup {0}]
  <2>1. \A d \in DOMAIN to : to[d] \in Vlans \cup {0}
    OBVIOUS
  <2>. HIDE DEF to
  <2>2. Moved(to, {}) \in [Device -> Vlans \cup {0}]
    BY <2>1, MovedType DEF TypeOK
  <2>3. QED
    BY <1>5, <2>2 DEF TypeOK
<1>7. UNCHANGED <<vlanIfs, port, refused, strays, damage>>
  BY DEF VlanAdd
<1>8. up' \subseteq bridges' /\ bridges \subseteq bridges'
  BY DEF VlanAdd, Enabled, TypeOK
<1>. HIDE DEF new
<1>9. QED
  BY <1>1, <1>2, <1>3, <1>4, <1>6, <1>7, <1>8 DEF TypeOK

\* vlan_del() only takes away.
LEMMA VlanDelType ==
    ASSUME TypeOK, faults' \in 0 .. MaxFaults, NEW v \in Vlans, NEW always, NEW bad,
           VlanDel(v, always, bad)
    PROVE  TypeOK'
<1>1. /\ devs' \subseteq devs /\ entry' \subseteq entry /\ bridges' \subseteq bridges
      /\ vlans' \subseteq vlans /\ named' \subseteq named
  BY DEF VlanDel
<1>2. \E out : at' \in {at, Moved(Nowhere, out)}
  BY DEF VlanDel
<1>3. at' \in [Device -> Vlans \cup {0}]
  BY <1>2, TakenOutType DEF TypeOK
<1>4. UNCHANGED <<vlanIfs, port, strays, damage>>
  BY DEF VlanDel
<1>5. up' \subseteq bridges' /\ refused' \subseteq bridges'
  BY DEF VlanDel, Closes, Refused, TypeOK
<1>6. QED
  BY <1>1, <1>3, <1>4, <1>5 DEF TypeOK

\* vif_add() and vif_del() change bridges and the records of VLAN interfaces.
LEMMA VifType ==
    ASSUME TypeOK, faults' \in 0 .. MaxFaults, NEW v \in Vlans, NEW bad,
           VifAdd(v, bad) \/ VifDel(v, bad)
    PROVE  TypeOK'
<1>1. bridges' \subseteq Vlans /\ vlanIfs' \subseteq Vlans
  BY DEF VifAdd, VifDel, TypeOK
<1>2. damage' \subseteq {"links overwritten", "no entry", "no record"}
  BY DEF VifAdd, VifDel, TypeOK
<1>3. \E out : at' \in {at, Moved(Nowhere, out)}
  BY DEF VifAdd, VifDel
<1>4. at' \in [Device -> Vlans \cup {0}]
  BY <1>3, TakenOutType DEF TypeOK
<1>5. UNCHANGED <<vlans, named, port, entry, devs, strays>>
  BY DEF VifAdd, VifDel
<1>6. up' \subseteq bridges' /\ refused' \subseteq bridges'
  BY DEF VifAdd, VifDel, Enabled, Closes, Refused, TypeOK
<1>7. QED
  BY <1>1, <1>2, <1>4, <1>5, <1>6 DEF TypeOK

\* A new interface gets a record, and as a trunk its tagged devices.
LEMMA IfAddType ==
    ASSUME TypeOK, faults' \in 0 .. MaxFaults, NEW i \in Interfaces,
           NEW mode \in {"access", "trunk"}, NEW bad, IfAdd(i, mode, bad)
    PROVE  TypeOK'
<1>1. DOMAIN port' \subseteq Interfaces /\ \A j \in DOMAIN port' : port'[j] \in Port
  BY LinuxSwitchAssumption DEF IfAdd, Over, Port, TypeOK, LinuxSwitchAssumption
<1>2. \E v \in Vlans \cup {0}, moves \in BOOLEAN, in \in SUBSET Vlans :
         Retag(i, in, {}, Own(i, v, moves), bad)
  BY LinuxSwitchAssumption DEF IfAdd, Unmoved, Joins, LinuxSwitchAssumption
<1>3. UNCHANGED <<vlans, named, vlanIfs, bridges, up, refused, strays>>
  BY DEF IfAdd
<1>4. QED
  BY <1>1, <1>2, <1>3, RetagType DEF TypeOK

\* The record of an interface that is removed goes.
LEMMA IfRemoveType ==
    ASSUME TypeOK, faults' \in 0 .. MaxFaults, NEW i \in Interfaces, NEW bad, IfRemove(i, bad)
    PROVE  TypeOK'
<1>1. DOMAIN port' \subseteq Interfaces /\ \A j \in DOMAIN port' : port'[j] \in Port
  BY DEF IfRemove, TypeOK
<1>2. port[i].allowed \in SUBSET Vlans
  BY DEF IfRemove, TypeOK, Port
<1>3. \E v \in Vlans \cup {0}, moves \in BOOLEAN, out \in SUBSET Vlans :
         Retag(i, {}, out, Own(i, v, moves), bad)
  BY <1>2 DEF IfRemove, Unmoved, Leaves, Switched
<1>4. UNCHANGED <<vlans, named, vlanIfs, bridges, up, refused, strays>>
  BY DEF IfRemove
<1>5. QED
  BY <1>1, <1>3, <1>4, RetagType DEF TypeOK

\* A change of mode, of type or of access VLAN writes one record.
LEMMA IfModeType ==
    ASSUME TypeOK, faults' \in 0 .. MaxFaults, NEW i \in Interfaces, NEW bad,
           \/ IfModeAccess(i, bad) \/ IfModeTrunk(i, bad) \/ IfNoSwitchport(i, bad)
           \/ \E v \in Vlans : IfSetPortVlan(i, v, bad)
    PROVE  TypeOK'
<1>1. i \in DOMAIN port
  BY DEF IfModeAccess, IfModeTrunk, IfNoSwitchport, IfSetPortVlan
<1>2. port[i].allowed \in SUBSET Vlans /\ port[i].access \in Vlans
  BY <1>1 DEF TypeOK, Port
<1>3. \/ port' = port
      \/ port' = [port EXCEPT ![i].type = "switched", ![i].mode = "access"]
      \/ port' = [port EXCEPT ![i].type = "switched", ![i].mode = "trunk"]
      \/ port' = [port EXCEPT ![i].type = "routed"]
      \/ \E v \in Vlans : port' = [port EXCEPT ![i].access = v]
  BY DEF IfModeAccess, IfModeTrunk, IfNoSwitchport, IfSetPortVlan
<1>4. DOMAIN port' \subseteq Interfaces /\ \A j \in DOMAIN port' : port'[j] \in Port
  <2>1. PortsTyped(port')
    <3>1. CASE \E v \in Vlans : port' = [port EXCEPT ![i].access = v]
      <4>1. PICK v \in Vlans : port' = [port EXCEPT ![i].access = v]
        BY <3>1
      <4>2. QED
        BY <1>1, <4>1, PortType
    <3>2. CASE port' = port
      BY <3>2 DEF TypeOK, PortsTyped
    <3>3. DefaultVlan \in Vlans
      BY LinuxSwitchAssumption DEF LinuxSwitchAssumption
    <3>4. QED
      BY <1>1, <1>3, <3>1, <3>2, <3>3, PortType
  <2>2. QED
    BY <2>1 DEF PortsTyped
<1>5. \E v \in Vlans \cup {0}, moves \in BOOLEAN, in \in SUBSET Vlans, out \in SUBSET Vlans :
         Retag(i, in, out, Own(i, v, moves), bad)
  BY <1>2 DEF IfModeAccess, IfModeTrunk, IfNoSwitchport, IfSetPortVlan, Joins, Leaves
<1>6. UNCHANGED <<vlans, named, vlanIfs, bridges, up, refused, strays>>
  BY DEF IfModeAccess, IfModeTrunk, IfNoSwitchport, IfSetPortVlan
<1>7. QED
  BY <1>4, <1>5, <1>6, RetagType DEF TypeOK

\* "switchport trunk allowed vlan" writes the bitmap.
LEMMA IfTrunkVlansType ==
    ASSUME TypeOK, faults' \in 0 .. MaxFaults, NEW i \in Interfaces,
           NEW how \in {"set", "add", "remove"}, NEW vs \in SUBSET Vlans, NEW bad,
           IfTrunkVlans(i, how, vs, bad)
    PROVE  TypeOK'
<1>. DEFINE old == port[i].allowed
            new == AllowedAfter(how, old, vs)
<1>1. i \in DOMAIN port /\ old \in SUBSET Vlans
  BY DEF IfTrunkVlans, TypeOK, Port
<1>2. new \in {vs, old \cup vs, old \ vs}
  BY Zenon DEF AllowedAfter
<1>3. new \in SUBSET Vlans
  BY <1>1, <1>2
<1>4. port' = [port EXCEPT ![i].allowed = new]
  BY DEF IfTrunkVlans
<1>5. \E v \in Vlans \cup {0}, moves \in BOOLEAN, in \in SUBSET Vlans, out \in SUBSET Vlans :
         Retag(i, in, out, Own(i, v, moves), bad)
  <2>1. \/ Retag(i, new \ old, old \ new, Own(i, 0, FALSE), bad)
        \/ Retag(i, {}, {}, Own(i, 0, FALSE), bad)
    BY DEF IfTrunkVlans, Unmoved
  <2>2. new \ old \in SUBSET Vlans /\ old \ new \in SUBSET Vlans
    BY <1>1, <1>3
  <2>. HIDE DEF new, old
  <2>3. QED
    BY <2>1, <2>2
<1>6. UNCHANGED <<vlans, named, vlanIfs, bridges, up, refused>> /\ strays' \subseteq strays \cup {i}
  BY DEF IfTrunkVlans
<1>. HIDE DEF new
<1>7. DOMAIN port' \subseteq Interfaces /\ \A j \in DOMAIN port' : port'[j] \in Port
  <2>1. DefaultVlan \in Vlans
    BY LinuxSwitchAssumption DEF LinuxSwitchAssumption
  <2>2. PortsTyped(port')
    BY <1>1, <1>3, <1>4, <2>1, PortType
  <2>3. QED
    BY <2>2 DEF PortsTyped
<1>8. QED
  BY <1>5, <1>6, <1>7, RetagType DEF TypeOK

-----------------------------------------------------------------------------
(* The steps, by what they operate on.                                     *)

VlanStep(v, bad) ==
    \/ \E always \in BOOLEAN : VlanAdd(v, always, bad) \/ VlanDel(v, always, bad)
    \/ VifAdd(v, bad) \/ VifDel(v, bad)
    \/ bad = {} /\ (IfEnable(v) \/ IfDisable(v))

IfStep(i, bad) ==
    \/ \E mode \in {"access", "trunk"} : IfAdd(i, mode, bad)
    \/ IfRemove(i, bad)
    \/ IfModeAccess(i, bad) \/ IfModeTrunk(i, bad) \/ IfNoSwitchport(i, bad)
    \/ \E v \in Vlans : IfSetPortVlan(i, v, bad)
    \/ \E how \in {"set", "add", "remove"}, vs \in SUBSET Vlans :
          IfTrunkVlans(i, how, vs, bad)

Counted(bad) == faults' \in 0 .. MaxFaults /\ (faults' = 0 => faults = 0 /\ bad = {})

\* Whichever program calls it, a step is an operation on a VLAN or on an
\* interface, whose failed calls are counted, or a command for an interface
\* without a record.
LEMMA Steps ==
    ASSUME TypeOK, Next
    PROVE  \/ \E v \in Vlans : \E bad : VlanStep(v, bad) /\ Counted(bad)
           \/ \E i \in Interfaces : \E bad : IfStep(i, bad) /\ Counted(bad)
           \/ \E i \in Interfaces : MissingRecord(i)
<1>1. CASE VlanOperation
  <2>1. PICK v \in Vlans :
           \/ \E bad \in Failing(BridgeCalls(v) \cup Calls(Interfaces, {v})) :
                 CmdVlan(v, bad) \/ SwctlVlan(v, bad)
           \/ \E bad \in Failing(BridgeCalls(v)) : SwctlVif(v, bad)
           \/ IfEnable(v) \/ IfDisable(v)
    BY <1>1 DEF VlanOperation, CmdShutdown, SwctlEnable
  <2>2. PICK bad :
           /\ \E calls : bad \in Failing(calls)
           /\ \/ CmdVlan(v, bad) \/ SwctlVlan(v, bad) \/ SwctlVif(v, bad)
              \/ bad = {} /\ (IfEnable(v) \/ IfDisable(v))
    <3>1. {} \in Failing({})
      BY DEF Failing
    <3>2. QED
      BY <2>1, <3>1
  <2>3. VlanStep(v, bad)
    BY <2>2 DEF VlanStep, CmdVlan, SwctlVlan, SwctlVif
  <2>4. Operation(bad)
    BY <2>3 DEF VlanStep, VlanAdd, VlanDel, VifAdd, VifDel, IfEnable, IfDisable
  <2>5. Counted(bad)
    BY <2>2, <2>4, OneFailsAtMost DEF Counted, TypeOK
  <2>6. QED
    BY <2>3, <2>5
<1>2. CASE InterfaceOperation
  <2>1. PICK i \in Interfaces : \E bad \in Failing(Calls({i}, Vlans)) :
           \/ SwctlAdd(i, bad) \/ UseIfEther(i, bad) \/ SwctlDel(i, bad)
           \/ SwctlSetMode(i, bad) \/ CmdNoMode(i, bad)
           \/ SwctlSetPortVlan(i, bad) \/ SwctlTrunkVlans(i, bad)
    BY <1>2 DEF InterfaceOperation
  <2>2. PICK bad \in Failing(Calls({i}, Vlans)) :
           \/ SwctlAdd(i, bad) \/ UseIfEther(i, bad) \/ SwctlDel(i, bad)
           \/ SwctlSetMode(i, bad) \/ CmdNoMode(i, bad)
           \/ SwctlSetPortVlan(i, bad) \/ SwctlTrunkVlans(i, bad)
    BY <2>1
  <2>3. IfStep(i, bad)
    BY <2>2 DEF IfStep, SwctlAdd, UseIfEther, SwctlDel, SwctlSetMode, CmdNoMode,
                SwctlSetPortVlan, SwctlTrunkVlans
  <2>4. Operation(bad)
    BY <2>3 DEF IfStep, IfAdd, IfRemove, IfModeAccess, IfModeTrunk, IfNoSwitchport,
                IfSetPortVlan, IfTrunkVlans
  <2>5. Counted(bad)
    BY <2>4, OneFailsAtMost DEF Counted, TypeOK
  <2>6. QED
    BY <2>3, <2>5
<1>3. QED
  BY <1>1, <1>2 DEF Next

\* Every step keeps the types.
LEMMA StepType == TypeOK /\ [Next]_vars => TypeOK'
<1>. SUFFICES ASSUME TypeOK, [Next]_vars PROVE TypeOK'
  OBVIOUS
<1>1. CASE \E v \in Vlans : \E bad : VlanStep(v, bad) /\ Counted(bad)
  <2>1. PICK v \in Vlans : \E bad : VlanStep(v, bad) /\ Counted(bad)
    BY <1>1
  <2>. PICK bad : VlanStep(v, bad) /\ Counted(bad)
    BY <2>1
  <2>2. CASE IfEnable(v) \/ IfDisable(v)
    BY <2>2 DEF IfEnable, IfDisable, records, TypeOK, Counted
  <2>3. QED
    BY <2>2, VlanAddType, VlanDelType, VifType DEF VlanStep, Counted
<1>2. CASE \E i \in Interfaces : \E bad : IfStep(i, bad) /\ Counted(bad)
  <2>1. PICK i \in Interfaces : \E bad : IfStep(i, bad) /\ Counted(bad)
    BY <1>2
  <2>. PICK bad : IfStep(i, bad) /\ Counted(bad)
    BY <2>1
  <2>2. QED
    BY IfAddType, IfRemoveType, IfModeType, IfTrunkVlansType DEF IfStep, Counted
<1>3. CASE \E i \in Interfaces : MissingRecord(i)
  BY <1>3 DEF MissingRecord, records, kernel, TypeOK
<1>4. CASE UNCHANGED vars
  BY <1>4 DEF vars, records, kernel, TypeOK
<1>5. QED
  BY <1>1, <1>2, <1>3, <1>4, Steps

\* The records and the kernel's bridges and devices keep their types, for any
\* interfaces and VLANs and any number of failing calls.
THEOREM Typed == Spec => []TypeOK
<1>1. Init => TypeOK
  BY LinuxSwitchAssumption DEF Init, TypeOK, Device, LinuxSwitchAssumption
<1>2. QED
  BY <1>1, StepType, PTL DEF Spec

-----------------------------------------------------------------------------
(* Regular histories.                                                      *)

\* Tagged devices exist for trunks only, for VLANs that are recorded and
\* allowed, each in its bridge and in its list; no other is in a bridge.
TrunksInPlace ==
    /\ devs = entry
    /\ \A i \in Interfaces, v \in Vlans :
          <<i, v>> \in devs => /\ i \in DOMAIN port /\ Switched(i, "trunk")
                               /\ v \in port[i].allowed \cap vlans
                               /\ at[<<i, v>>] = v
    /\ \A i \in Interfaces, v \in Vlans : at[<<i, v>>] # 0 => <<i, v>> \in devs

\* An interface itself is in a bridge only as an access interface of that
\* VLAN, and is in the bridge if the VLAN is recorded, unless the VLAN's
\* deletion was refused.
AccessOf(i) ==
    /\ at[<<i, 0>>] # 0 => /\ i \in DOMAIN port /\ Switched(i, "access")
                           /\ port[i].access = at[<<i, 0>>]
                           /\ at[<<i, 0>>] \in bridges
    /\ i \in DOMAIN port /\ Switched(i, "access") /\ port[i].access \in vlans
          => \/ at[<<i, 0>>] = port[i].access
             \/ at[<<i, 0>>] = 0 /\ port[i].access \in refused

AccessInPlace == \A i \in Interfaces : AccessOf(i)

\* Who uses a bridge has one, and a bridge that nobody uses the kernel refused
\* to delete.
Bridged ==
    /\ DefaultVlans \subseteq vlans
    /\ vlans \cup vlanIfs \subseteq bridges
    /\ bridges \ (vlans \cup vlanIfs) \subseteq refused

InPlace ==
    /\ Bridged
    /\ TrunksInPlace /\ AccessInPlace
    /\ "no entry" \notin damage

RegularInPlace == Regular => InPlace

\* When no call fails, add_vifs_to_trunk() and remove_vifs_from_trunk() leave
\* the tagged devices of "in" in place and none of "out", and change no other.
LEMMA RetagDevices ==
    ASSUME TypeOK, TrunksInPlace, NEW i \in Interfaces,
           NEW in \in SUBSET Vlans, NEW out \in SUBSET Vlans, in \cap out = {},
           NEW v \in Vlans \cup {0}, NEW moves \in BOOLEAN,
           Retag(i, in, out, Own(i, v, moves), {})
    PROVE  /\ devs' = entry' /\ damage' = {}
           /\ \A j \in Interfaces, w \in Vlans :
                 <<j, w>> \in devs' <=> \/ j = i /\ w \in in \cap vlans
                                        \/ <<j, w>> \in devs /\ ~(j = i /\ w \in out \cap vlans)
<1>. DEFINE new  == Created(Tagged(i, in \cap vlans), {})
            gone == Gone(Tagged(i, out \cap vlans), {})
<1>1. /\ devs' = (devs \ gone) \cup new /\ entry' = (entry \ gone) \cup new
      /\ damage' = IF gone \subseteq entry THEN {} ELSE {"no entry"}
  BY DEF Retag
<1>2. \A j \in Interfaces, w \in Vlans :
         <<j, w>> \in new <=> j = i /\ w \in in \cap vlans /\ <<j, w>> \notin devs
  BY DEF Created, Tagged
<1>3. \A j \in Interfaces, w \in Vlans :
         <<j, w>> \in gone <=> j = i /\ w \in out \cap vlans /\ at[<<j, w>>] = w
  BY DEF Gone, Left, Leaves, Tagged
<1>4. gone \subseteq Interfaces \X Vlans
  BY DEF Gone, Left, Tagged
<1>5. \A j \in Interfaces, w \in Vlans : at[<<j, w>>] = w <=> <<j, w>> \in devs
  BY LinuxSwitchAssumption DEF TrunksInPlace, LinuxSwitchAssumption
<1>. HIDE DEF new, gone
<1>6. gone \subseteq devs
  <2>. SUFFICES ASSUME NEW d \in gone PROVE d \in devs
    OBVIOUS
  <2>1. PICK j \in Interfaces, w \in Vlans : d = <<j, w>>
    BY <1>4
  <2>2. QED
    BY <1>3, <1>5, <2>1
<1>7. devs' = entry' /\ damage' = {}
  BY <1>1, <1>6 DEF TrunksInPlace
<1>8. ASSUME NEW j \in Interfaces, NEW w \in Vlans
      PROVE  <<j, w>> \in devs' <=> \/ j = i /\ w \in in \cap vlans
                                    \/ <<j, w>> \in devs /\ ~(j = i /\ w \in out \cap vlans)
  BY <1>1, <1>2, <1>3, <1>5
<1>9. QED
  BY <1>7, <1>8

\* Each of them is then in its bridge, and the interface itself where it was
\* moved.
LEMMA RetagBridges ==
    ASSUME TypeOK, TrunksInPlace, vlans \subseteq bridges, NEW i \in Interfaces,
           NEW in \in SUBSET Vlans, NEW out \in SUBSET Vlans, in \cap out = {},
           NEW v \in Vlans \cup {0}, NEW moves \in BOOLEAN,
           Retag(i, in, out, Own(i, v, moves), {})
    PROVE  /\ \A j \in Interfaces, w \in Vlans :
                 at'[<<j, w>>] = IF <<j, w>> \in devs' THEN w ELSE 0
           /\ \A j \in Interfaces :
                 at'[<<j, 0>>] = IF j = i /\ moves THEN v ELSE at[<<j, 0>>]
<1>. DEFINE new  == Created(Tagged(i, in \cap vlans), {})
            left == Left(Tagged(i, out \cap vlans), {})
            to   == Over(Own(i, v, moves), Into(new, bridges, {}))
<1>1. at' = Moved(to, left)
  BY DEF Retag
<1>2. 0 \notin Vlans
  BY LinuxSwitchAssumption DEF LinuxSwitchAssumption
<1>3. \A j \in Interfaces, w \in Vlans :
         at[<<j, w>>] = IF <<j, w>> \in devs THEN w ELSE 0
  BY <1>2 DEF TrunksInPlace
<1>4. \A j \in Interfaces, w \in Vlans :
         <<j, w>> \in new <=> j = i /\ w \in in \cap vlans /\ <<j, w>> \notin devs
  BY DEF Created, Tagged
<1>5. \A j \in Interfaces, w \in Vlans :
         <<j, w>> \in left <=> j = i /\ w \in out \cap vlans /\ <<j, w>> \in devs
  BY <1>2, <1>3 DEF Left, Leaves, Tagged
<1>6. \A j \in Interfaces : <<j, 0>> \notin new /\ <<j, 0>> \notin left
  BY <1>2 DEF Created, Left, Tagged
<1>7. \A d \in Device :
         /\ d \in DOMAIN to <=> \/ moves /\ d = <<i, 0>>
                                \/ d \in new /\ Joins(d, d[2], bridges, {})
         /\ d \in DOMAIN to => to[d] = IF moves /\ d = <<i, 0>> THEN v ELSE d[2]
  <2>. HIDE DEF new
  <2>1. QED
    BY DEF Over, Own, Into
<1>. HIDE DEF new, left, to
<1>8. ASSUME NEW j \in Interfaces
      PROVE  at'[<<j, 0>>] = IF j = i /\ moves THEN v ELSE at[<<j, 0>>]
  <2>1. <<j, 0>> \in Device
    BY DEF Device
  <2>2. at'[<<j, 0>>] = IF <<j, 0>> \in DOMAIN to THEN to[<<j, 0>>]
                        ELSE IF <<j, 0>> \in left THEN 0 ELSE at[<<j, 0>>]
    BY <1>1, <2>1, MovedAt
  <2>3. QED
    BY <1>6, <1>7, <2>1, <2>2
<1>9. ASSUME NEW j \in Interfaces, NEW w \in Vlans
      PROVE  at'[<<j, w>>] = IF <<j, w>> \in devs' THEN w ELSE 0
  <2>1. <<j, w>> \in Device /\ w # 0
    BY <1>2 DEF Device
  <2>2. at'[<<j, w>>] = IF <<j, w>> \in DOMAIN to THEN to[<<j, w>>]
                        ELSE IF <<j, w>> \in left THEN 0 ELSE at[<<j, w>>]
    BY <1>1, <2>1, MovedAt
  <2>3. <<j, w>> \in DOMAIN to <=> <<j, w>> \in new
    BY <1>3, <1>4, <1>7, <2>1 DEF Joins
  <2>4. <<j, w>> \in DOMAIN to => to[<<j, w>>] = w
    BY <1>7, <2>1
  <2>5. <<j, w>> \in devs' <=> \/ j = i /\ w \in in \cap vlans
                               \/ <<j, w>> \in devs /\ ~(j = i /\ w \in out \cap vlans)
    BY RetagDevices
  <2>6. QED
    BY <1>3, <1>4, <1>5, <2>2, <2>3, <2>4, <2>5
<1>10. QED
  BY <1>8, <1>9

\* The two lemmas on Retag(), as they are used: from a regular state to the
\* tags and the bridges of the next.
Retagged(i, in, out, v, moves) ==
    /\ devs' = entry' /\ damage' = {}
    /\ \A j \in Interfaces, w \in Vlans :
          <<j, w>> \in devs' <=> \/ j = i /\ w \in in \cap vlans
                                 \/ <<j, w>> \in devs /\ ~(j = i /\ w \in out \cap vlans)
    /\ \A j \in Interfaces, w \in Vlans :
          at'[<<j, w>>] = IF <<j, w>> \in devs' THEN w ELSE 0
    /\ \A j \in Interfaces :
          at'[<<j, 0>>] = IF j = i /\ moves THEN v ELSE at[<<j, 0>>]

\* Where no kernel call fails, the devices of the VLANs in "in" are there and those of
\* "out" are gone (util_linux.c:217-333).
LEMMA RetagExact ==
    ASSUME TypeOK, InPlace, NEW i \in Interfaces,
           NEW in \in SUBSET Vlans, NEW out \in SUBSET Vlans, in \cap out = {},
           NEW v \in Vlans \cup {0}, NEW moves \in BOOLEAN,
           Retag(i, in, out, Own(i, v, moves), {})
    PROVE  Retagged(i, in, out, v, moves)
<1>1. TrunksInPlace /\ vlans \subseteq bridges
  BY DEF InPlace, Bridged
<1>2. devs' = entry' /\ damage' = {}
  BY <1>1, RetagDevices
<1>3. \A j \in Interfaces, w \in Vlans :
         <<j, w>> \in devs' <=> \/ j = i /\ w \in in \cap vlans
                                \/ <<j, w>> \in devs /\ ~(j = i /\ w \in out \cap vlans)
  BY <1>1, RetagDevices
<1>4. /\ \A j \in Interfaces, w \in Vlans :
            at'[<<j, w>>] = IF <<j, w>> \in devs' THEN w ELSE 0
      /\ \A j \in Interfaces :
            at'[<<j, 0>>] = IF j = i /\ moves THEN v ELSE at[<<j, 0>>]
  BY <1>1, RetagBridges
<1>5. QED
  BY <1>2, <1>3, <1>4 DEF Retagged

\* What is left to show after Retag(): that the records agree.
LEMMA RetaggedInPlace ==
    ASSUME NEW i \in Interfaces, NEW in, NEW out, NEW v, NEW moves,
           Retagged(i, in, out, v, moves),
           Bridged',
           \A j \in Interfaces, w \in Vlans : <<j, w>> \in devs' =>
              j \in DOMAIN port' /\ Switched(j, "trunk")' /\ w \in port'[j].allowed \cap vlans',
           \A j \in Interfaces : AccessOf(j)'
    PROVE  InPlace'
<1>1. TrunksInPlace'
  BY DEF Retagged, TrunksInPlace
<1>2. QED
  BY <1>1 DEF Retagged, InPlace, AccessInPlace

\* An interface that is added is put into the default VLAN, or as a trunk into
\* every VLAN there is (linux.c:28-80).
LEMMA IfAddInPlace ==
    ASSUME TypeOK, InPlace, NEW i \in Interfaces, NEW mode \in {"access", "trunk"},
           IfAdd(i, mode, {})
    PROVE  InPlace'
<1>1. /\ i \notin DOMAIN port /\ DOMAIN port' = DOMAIN port \cup {i}
      /\ port'[i] = [type |-> "switched", mode |-> mode,
                     access |-> DefaultVlan, allowed |-> Vlans]
      /\ \A j \in DOMAIN port : port'[j] = port[j]
      /\ UNCHANGED <<vlans, named, vlanIfs, bridges, up, refused, strays>>
  BY DEF IfAdd, Over
<1>2. 0 \notin Vlans /\ DefaultVlan \in Vlans /\ DefaultVlan \in vlans /\ DefaultVlan \in bridges
  BY LinuxSwitchAssumption DEF LinuxSwitchAssumption, InPlace, Bridged
<1>3. at[<<i, 0>>] = 0 /\ \A w \in Vlans : <<i, w>> \notin devs
  BY <1>1 DEF InPlace, AccessInPlace, AccessOf, TrunksInPlace
<1>4. \/ mode = "trunk" /\ Retagged(i, Vlans, {}, 0, FALSE)
      \/ mode = "access" /\ Retagged(i, {}, {}, DefaultVlan, TRUE)
  <2>1. CASE mode = "trunk"
    <3>1. Retag(i, Vlans, {}, Own(i, 0, FALSE), {})
      BY <2>1 DEF IfAdd, Unmoved
    <3>2. QED
      BY <2>1, <3>1, RetagExact
  <2>2. CASE mode = "access"
    <3>1. Joins(<<i, 0>>, DefaultVlan, bridges, {}) = TRUE
      BY <1>2, <1>3 DEF Joins
    <3>2. Retag(i, {}, {}, Own(i, DefaultVlan, TRUE), {})
      BY <2>2, <3>1 DEF IfAdd
    <3>3. QED
      BY <1>2, <2>2, <3>2, RetagExact
  <2>3. QED
    BY <2>1, <2>2
<1>5. ASSUME NEW j \in Interfaces, NEW w \in Vlans, <<j, w>> \in devs'
      PROVE  j \in DOMAIN port' /\ Switched(j, "trunk")' /\ w \in port'[j].allowed \cap vlans'
  <2>1. \/ j = i /\ mode = "trunk" /\ w \in vlans
        \/ j # i /\ <<j, w>> \in devs
    BY <1>3, <1>4, <1>5 DEF Retagged
  <2>2. CASE j = i
    BY <1>1, <2>1, <2>2 DEF Switched
  <2>3. CASE j # i
    <3>1. j \in DOMAIN port /\ Switched(j, "trunk") /\ w \in port[j].allowed \cap vlans
      BY <2>1, <2>3 DEF InPlace, TrunksInPlace
    <3>2. QED
      BY <1>1, <3>1 DEF Switched
  <2>4. QED
    BY <2>2, <2>3
<1>6. ASSUME NEW j \in Interfaces
      PROVE  AccessOf(j)'
  <2>1. AccessOf(j)
    BY DEF InPlace, AccessInPlace
  <2>2. CASE j = i
    BY <1>1, <1>2, <1>3, <1>4, <2>2 DEF AccessOf, Switched, Retagged
  <2>3. CASE j # i
    BY <1>1, <1>4, <2>1, <2>3 DEF AccessOf, Switched, Retagged
  <2>4. QED
    BY <2>2, <2>3
<1>7. Bridged'
  BY <1>1 DEF InPlace, Bridged
<1>8. QED
  BY <1>4, <1>5, <1>6, <1>7, RetaggedInPlace

\* The other operations on an interface change one record or none: what is
\* left to show is that this record agrees with what Retag() did.
LEMMA OneRecord ==
    ASSUME TypeOK, InPlace, NEW i \in DOMAIN port, NEW in, NEW out, NEW v, NEW moves \in BOOLEAN,
           Retagged(i, in, out, v, moves), UNCHANGED <<vlans, vlanIfs, bridges, refused>>,
           DOMAIN port' \subseteq DOMAIN port,
           \A j \in DOMAIN port : j # i => j \in DOMAIN port' /\ port'[j] = port[j],
           \A w \in Vlans : <<i, w>> \in devs' =>
              i \in DOMAIN port' /\ Switched(i, "trunk")' /\ w \in port'[i].allowed \cap vlans',
           AccessOf(i)'
    PROVE  InPlace'
<1>1. i \in Interfaces
  BY DEF TypeOK
<1>2. Bridged'
  BY DEF InPlace, Bridged
<1>3. ASSUME NEW j \in Interfaces, NEW w \in Vlans, <<j, w>> \in devs'
      PROVE  j \in DOMAIN port' /\ Switched(j, "trunk")' /\ w \in port'[j].allowed \cap vlans'
  <2>1. CASE j = i
    BY <1>3, <2>1
  <2>2. CASE j # i
    <3>1. <<j, w>> \in devs
      BY <1>3, <2>2 DEF Retagged
    <3>2. j \in DOMAIN port /\ Switched(j, "trunk") /\ w \in port[j].allowed \cap vlans
      BY <3>1 DEF InPlace, TrunksInPlace
    <3>3. QED
      BY <2>2, <3>2 DEF Switched
  <2>3. QED
    BY <2>1, <2>2
<1>4. ASSUME NEW j \in Interfaces PROVE AccessOf(j)'
  <2>1. AccessOf(j)
    BY DEF InPlace, AccessInPlace
  <2>2. CASE j = i
    BY <2>2
  <2>3. CASE j # i
    BY <2>1, <2>3 DEF AccessOf, Switched, Retagged
  <2>4. QED
    BY <2>2, <2>3
<1>5. QED
  BY <1>1, <1>2, <1>3, <1>4, RetaggedInPlace

\* What holds of the devices of one interface in such a state.
LEMMA DevicesOf ==
    ASSUME TypeOK, InPlace, NEW i \in DOMAIN port
    PROVE  /\ i \in Interfaces /\ AccessOf(i)
           /\ port[i] \in Port
           /\ at[<<i, 0>>] \in Vlans \cup {0}
           /\ \A w \in Vlans : <<i, w>> \in devs =>
                 Switched(i, "trunk") /\ w \in port[i].allowed \cap vlans
           /\ \A w \in Vlans : at[<<i, w>>] = w <=> <<i, w>> \in devs
           /\ 0 \notin Vlans /\ vlans \subseteq Vlans /\ vlans \subseteq bridges
<1>1. i \in Interfaces /\ port[i] \in Port /\ 0 \notin Vlans /\ vlans \subseteq Vlans
  BY LinuxSwitchAssumption DEF LinuxSwitchAssumption, TypeOK
<1>2. at[<<i, 0>>] \in Vlans \cup {0}
  BY <1>1 DEF TypeOK, Device
<1>3. AccessOf(i) /\ vlans \subseteq bridges
  BY <1>1 DEF InPlace, Bridged, AccessInPlace
<1>4. ASSUME NEW w \in Vlans, <<i, w>> \in devs
      PROVE  Switched(i, "trunk") /\ w \in port[i].allowed \cap vlans
  BY <1>1, <1>4 DEF InPlace, TrunksInPlace
<1>5. \A w \in Vlans : at[<<i, w>>] = w <=> <<i, w>> \in devs
  BY <1>1 DEF InPlace, TrunksInPlace
<1>6. QED
  BY <1>1, <1>2, <1>3, <1>4, <1>5

\* if_remove(): the devices of an interface go with its record.
LEMMA IfRemoveInPlace ==
    ASSUME TypeOK, InPlace, NEW i \in Interfaces, IfRemove(i, {})
    PROVE  InPlace'
<1>1. /\ i \in DOMAIN port /\ DOMAIN port' = DOMAIN port \ {i}
      /\ \A j \in DOMAIN port : j # i => j \in DOMAIN port' /\ port'[j] = port[j]
      /\ UNCHANGED <<vlans, vlanIfs, bridges, refused>>
  BY DEF IfRemove
<1>. DEFINE leaves == Switched(i, "access") /\ Leaves(<<i, 0>>, port[i].access, {})
<1>2. port[i].allowed \in SUBSET Vlans
  BY <1>1, DevicesOf DEF Port
<1>3. \/ Switched(i, "trunk") /\ Retagged(i, {}, port[i].allowed, 0, FALSE)
      \/ ~Switched(i, "trunk") /\ Retagged(i, {}, {}, 0, leaves)
  <2>1. CASE Switched(i, "trunk")
    <3>1. Retag(i, {}, port[i].allowed, Own(i, 0, FALSE), {})
      BY <2>1 DEF IfRemove, Unmoved
    <3>2. QED
      BY <1>2, <2>1, <3>1, RetagExact
  <2>2. CASE ~Switched(i, "trunk")
    <3>1. Retag(i, {}, {}, Own(i, 0, leaves), {})
      BY <2>2 DEF IfRemove
    <3>2. leaves \in BOOLEAN
      BY DEF Leaves, Switched
    <3>. HIDE DEF leaves
    <3>3. QED
      BY <2>2, <3>1, <3>2, RetagExact
  <2>3. QED
    BY <2>1, <2>2
<1>4. \A w \in Vlans : <<i, w>> \notin devs'
  BY <1>1, <1>3, DevicesOf DEF Retagged
<1>5. AccessOf(i)'
  <2>1. at'[<<i, 0>>] = 0
    BY <1>1, <1>3, DevicesOf DEF Retagged, AccessOf, Leaves, Switched
  <2>2. QED
    BY <1>1, <2>1 DEF AccessOf
<1>6. \E in, out, v : \E moves \in BOOLEAN : Retagged(i, in, out, v, moves)
  BY <1>3 DEF Leaves, Switched
<1>7. QED
  BY <1>1, <1>4, <1>5, <1>6, OneRecord

\* if_mode_access(): the tagged devices go whether or not the interface could
\* join the bridge of its VLAN, and the record changes only if it could.
LEMMA IfModeAccessInPlace ==
    ASSUME TypeOK, InPlace, NEW i \in Interfaces, IfModeAccess(i, {})
    PROVE  InPlace'
<1>. DEFINE joins == Joins(<<i, 0>>, port[i].access, bridges, {})
<1>1. i \in DOMAIN port /\ ~Switched(i, "access") /\ UNCHANGED <<vlans, vlanIfs, bridges, refused>>
  BY DEF IfModeAccess
<1>2. port[i].allowed \in SUBSET Vlans /\ port[i].access \in Vlans
  BY <1>1, DevicesOf DEF Port
<1>3. joins \in BOOLEAN /\ (joins => port[i].access \in bridges)
  BY DEF Joins
<1>4. port' = IF joins THEN [port EXCEPT ![i].type = "switched", ![i].mode = "access"] ELSE port
  BY DEF IfModeAccess
<1>5. Retagged(i, {}, port[i].allowed, port[i].access, joins)
  <2>1. Retag(i, {}, port[i].allowed, Own(i, port[i].access, joins), {})
    BY DEF IfModeAccess
  <2>. HIDE DEF joins
  <2>2. QED
    BY <1>2, <1>3, <2>1, RetagExact
<1>. HIDE DEF joins
<1>6. DOMAIN port' = DOMAIN port /\ \A j \in DOMAIN port : j # i => port'[j] = port[j]
  BY <1>4
<1>7. \A w \in Vlans : <<i, w>> \notin devs'
  BY <1>1, <1>5, DevicesOf DEF Retagged
<1>8. AccessOf(i)'
  <2>1. at[<<i, 0>>] = 0
    BY <1>1, DevicesOf DEF AccessOf
  <2>2. CASE joins
    <3>1. at'[<<i, 0>>] = port[i].access
      BY <1>1, <1>5, <2>2, DevicesOf DEF Retagged
    <3>2. port'[i].access = port[i].access /\ Switched(i, "access")'
      BY <1>1, <1>2, <1>4, <2>2, DevicesOf, ZenonT(40) DEF Switched, Port
    <3>3. QED
      BY <1>1, <1>3, <1>6, <2>2, <3>1, <3>2 DEF AccessOf
  <2>3. CASE ~joins
    <3>1. at'[<<i, 0>>] = 0
      BY <1>1, <1>5, <2>1, <2>3, DevicesOf DEF Retagged
    <3>2. ~Switched(i, "access")'
      BY <1>1, <1>4, <2>3 DEF Switched
    <3>3. QED
      BY <3>1, <3>2 DEF AccessOf
  <2>4. QED
    BY <2>2, <2>3, <1>3
<1>9. QED
  BY <1>1, <1>3, <1>5, <1>6, <1>7, <1>8, OneRecord

\* if_mode_trunk(): no call fails, so add_vifs_to_trunk() cannot return an
\* error, and the interface leaves the bridge it was in.
LEMMA IfModeTrunkInPlace ==
    ASSUME TypeOK, InPlace, NEW i \in Interfaces, IfModeTrunk(i, {})
    PROVE  InPlace'
<1>. DEFINE leaves == Leaves(<<i, 0>>, port[i].access, {})
<1>1. i \in DOMAIN port /\ ~Switched(i, "trunk") /\ UNCHANGED <<vlans, vlanIfs, bridges, refused>>
  BY DEF IfModeTrunk
<1>2. port[i].allowed \in SUBSET Vlans /\ port[i].access \in Vlans
  BY <1>1, DevicesOf DEF Port
<1>3. leaves \in BOOLEAN /\ (leaves <=> at[<<i, 0>>] = port[i].access)
  BY DEF Leaves
<1>4. \A w \in Vlans : <<i, w>> \notin devs
  BY <1>1, DevicesOf
<1>5. AddReturns(i, port[i].allowed, {}) = {TRUE}
  <2>1. \A d \in Tagged(i, port[i].allowed \cap vlans) :
           d \in Created(Tagged(i, port[i].allowed \cap vlans), {})
    BY <1>2, <1>4 DEF Tagged, Created
  <2>2. QED
    BY <2>1 DEF AddReturns, Returns
<1>6. port' = [port EXCEPT ![i].type = "switched", ![i].mode = "trunk"]
  BY <1>5 DEF IfModeTrunk
<1>7. Retagged(i, port[i].allowed, {}, 0, leaves)
  <2>1. Retag(i, port[i].allowed, {}, Own(i, 0, leaves), {})
    BY DEF IfModeTrunk
  <2>. HIDE DEF leaves
  <2>2. QED
    BY <1>2, <1>3, <2>1, RetagExact
<1>. HIDE DEF leaves
<1>8. DOMAIN port' = DOMAIN port /\ \A j \in DOMAIN port : j # i => port'[j] = port[j]
  BY <1>6
<1>9. Switched(i, "trunk")' /\ ~Switched(i, "access")' /\ port'[i].allowed = port[i].allowed
  <2>1. port[i] \in Port
    BY <1>1, DevicesOf
  <2>2. port'[i] = [port[i] EXCEPT !.type = "switched", !.mode = "trunk"]
    BY <1>1, <1>6
  <2>3. QED
    BY <2>1, <2>2 DEF Switched, Port
<1>10. \A w \in Vlans : <<i, w>> \in devs' => w \in port'[i].allowed \cap vlans'
  BY <1>1, <1>4, <1>7, <1>9, DevicesOf DEF Retagged
<1>11. AccessOf(i)'
  <2>1. at'[<<i, 0>>] = 0
    BY <1>1, <1>3, <1>7, DevicesOf DEF Retagged, AccessOf
  <2>2. QED
    BY <1>9, <2>1 DEF AccessOf
<1>12. QED
  BY <1>1, <1>3, <1>7, <1>8, <1>9, <1>10, <1>11, OneRecord

\* if_no_switchport(): a routed interface is in no bridge and has no tags.
LEMMA IfNoSwitchportInPlace ==
    ASSUME TypeOK, InPlace, NEW i \in Interfaces, IfNoSwitchport(i, {})
    PROVE  InPlace'
<1>. DEFINE leaves == Leaves(<<i, 0>>, port[i].access, {})
            out    == IF port[i].mode = "trunk" THEN port[i].allowed ELSE {}
            moves  == port[i].mode = "access" /\ leaves
<1>1. i \in DOMAIN port /\ port[i].type = "switched" /\ UNCHANGED <<vlans, vlanIfs, bridges, refused>>
  BY DEF IfNoSwitchport
<1>2. /\ port[i].allowed \in SUBSET Vlans /\ port[i].access \in Vlans
      /\ port[i].mode \in {"access", "trunk"}
  BY <1>1, DevicesOf DEF Port
<1>3. leaves \in BOOLEAN /\ (leaves <=> at[<<i, 0>>] = port[i].access)
  BY DEF Leaves
<1>4. moves \in BOOLEAN /\ out \in SUBSET Vlans
  BY <1>2
<1>5. port[i].mode = "trunk" => RemoveReturns(i, out, {}) = {TRUE}
  <2>. DEFINE left == Left(Tagged(i, out \cap vlans), {})
  <2>1. \A d \in left : d \in Gone(left, {})
    BY DEF Left, Gone, Leaves
  <2>2. RemoveReturns(i, out, {}) = Returns(left, Gone(left, {}))
    BY DEF RemoveReturns
  <2>. HIDE DEF left
  <2>3. Returns(left, Gone(left, {})) = {TRUE}
    BY <2>1 DEF Returns
  <2>4. QED
    BY <2>2, <2>3
<1>6. port' = IF port[i].mode = "trunk" \/ leaves THEN [port EXCEPT ![i].type = "routed"] ELSE port
  BY <1>2, <1>3, <1>5 DEF IfNoSwitchport
<1>7. Retagged(i, {}, out, 0, moves)
  <2>1. Retag(i, {}, out, Own(i, 0, moves), {})
    BY DEF IfNoSwitchport
  <2>. HIDE DEF moves, out
  <2>2. QED
    BY <1>4, <2>1, RetagExact
<1>8. DOMAIN port' = DOMAIN port /\ \A j \in DOMAIN port : j # i => port'[j] = port[j]
  BY <1>6
<1>9. \A w \in Vlans : <<i, w>> \notin devs'
  <2>1. ASSUME NEW w \in Vlans, <<i, w>> \in devs' PROVE FALSE
    <3>1. <<i, w>> \in devs /\ ~(w \in out \cap vlans)
      BY <1>1, <1>7, <2>1, DevicesOf DEF Retagged
    <3>2. port[i].mode = "trunk" /\ w \in port[i].allowed \cap vlans
      BY <1>1, <3>1, DevicesOf DEF Switched
    <3>3. QED
      BY <3>1, <3>2
  <2>2. QED
    BY <2>1
<1>10. AccessOf(i)'
  <2>1. at'[<<i, 0>>] = 0
    <3>1. at'[<<i, 0>>] = IF moves THEN 0 ELSE at[<<i, 0>>]
      BY <1>1, <1>7, DevicesOf DEF Retagged
    <3>2. at[<<i, 0>>] # 0 => moves
      BY <1>1, <1>3, DevicesOf DEF AccessOf, Switched
    <3>3. QED
      BY <3>1, <3>2
  <2>2. port[i].mode = "trunk" \/ leaves => ~Switched(i, "access")'
    BY <1>1, <1>6 DEF Switched
  <2>3. CASE port[i].mode # "trunk" /\ ~leaves
    BY <1>1, <1>3, <1>6, <2>1, <2>3, DevicesOf DEF AccessOf, Switched
  <2>4. QED
    BY <2>1, <2>2, <2>3 DEF AccessOf
<1>11. QED
  <2>. HIDE DEF moves, out
  <2>1. QED
    BY <1>1, <1>4, <1>7, <1>8, <1>9, <1>10, OneRecord

\* if_set_port_vlan(): an access interface moves to the bridge of its new VLAN,
\* or to none when that VLAN is not recorded.
LEMMA IfSetPortVlanInPlace ==
    ASSUME TypeOK, InPlace, NEW i \in Interfaces, NEW v \in Vlans, IfSetPortVlan(i, v, {})
    PROVE  InPlace'
<1>. DEFINE leaves == Leaves(<<i, 0>>, port[i].access, {})
            joins  == /\ v \in vlans \cap bridges
                      /\ leaves \/ at[<<i, 0>>] = 0
<1>1. i \in DOMAIN port /\ Switched(i, "access") /\ UNCHANGED <<vlans, vlanIfs, bridges, refused>>
  BY DEF IfSetPortVlan
<1>2. port' = [port EXCEPT ![i].access = v]
  BY DEF IfSetPortVlan
<1>3. leaves \in BOOLEAN /\ (leaves <=> at[<<i, 0>>] = port[i].access)
  BY DEF Leaves
<1>4. joins <=> v \in vlans
  BY <1>1, <1>3, DevicesOf DEF AccessOf
<1>5. \/ v \in vlans /\ Retagged(i, {}, {}, v, TRUE)
      \/ v \notin vlans /\ Retagged(i, {}, {}, 0, leaves)
  <2>1. Retag(i, {}, {}, IF joins THEN Own(i, v, TRUE) ELSE Own(i, 0, leaves), {})
    BY DEF IfSetPortVlan
  <2>. HIDE DEF joins, leaves
  <2>2. CASE v \in vlans
    BY <1>4, <2>1, <2>2, RetagExact
  <2>3. CASE v \notin vlans
    BY <1>3, <1>4, <2>1, <2>3, RetagExact
  <2>4. QED
    BY <2>2, <2>3
<1>. HIDE DEF joins, leaves
<1>6. /\ DOMAIN port' = DOMAIN port /\ \A j \in DOMAIN port : j # i => port'[j] = port[j]
      /\ port'[i] = [port[i] EXCEPT !.access = v]
  BY <1>1, <1>2
<1>7. Switched(i, "access")' /\ port'[i].access = v
  <2>1. port[i] \in Port
    BY <1>1, DevicesOf
  <2>2. QED
    BY <1>1, <1>6, <2>1 DEF Switched, Port
<1>8. \A w \in Vlans : <<i, w>> \notin devs'
  <2>1. \A w \in Vlans : <<i, w>> \notin devs
    BY <1>1, DevicesOf DEF Switched
  <2>2. QED
    BY <1>5, <2>1 DEF Retagged
<1>9. AccessOf(i)'
  <2>1. at'[<<i, 0>>] = IF v \in vlans THEN v ELSE 0
    <3>1. CASE v \in vlans
      BY <1>5, <3>1 DEF Retagged
    <3>2. CASE v \notin vlans
      <4>1. at'[<<i, 0>>] = IF leaves THEN 0 ELSE at[<<i, 0>>]
        BY <1>5, <3>2 DEF Retagged
      <4>2. at[<<i, 0>>] # 0 => leaves
        BY <1>1, <1>3, DevicesOf DEF AccessOf
      <4>3. QED
        BY <3>2, <4>1, <4>2
    <3>3. QED
      BY <3>1, <3>2
  <2>2. v \in vlans => v \in bridges'
    BY <1>1, DevicesOf
  <2>3. QED
    BY <1>1, <1>6, <1>7, <2>1, <2>2 DEF AccessOf
<1>10. QED
  <2>1. \E w : \E moves \in BOOLEAN : Retagged(i, {}, {}, w, moves)
    BY <1>3, <1>5
  <2>2. PICK w, moves : moves \in BOOLEAN /\ Retagged(i, {}, {}, w, moves)
    BY <2>1
  <2>3. QED
    BY <1>1, <1>6, <1>8, <1>9, <2>2, OneRecord

\* if_trunk_vlans(): a trunk's tagged devices follow its list; the list of
\* another interface has none.
LEMMA IfTrunkVlansInPlace ==
    ASSUME TypeOK, InPlace, NEW i \in Interfaces, NEW how \in {"set", "add", "remove"},
           NEW vs \in SUBSET Vlans, IfTrunkVlans(i, how, vs, {}), strays' = {}
    PROVE  InPlace'
<1>. DEFINE old == port[i].allowed
            new == AllowedAfter(how, old, vs)
<1>1. /\ i \in DOMAIN port /\ UNCHANGED <<vlans, vlanIfs, bridges, refused>>
      /\ port' = [port EXCEPT ![i].allowed = new]
  BY DEF IfTrunkVlans
<1>2. port[i] \in Port /\ old \in SUBSET Vlans
  BY <1>1, DevicesOf DEF Port
<1>3. new \in SUBSET Vlans
  <2>1. new \in {vs, old \cup vs, old \ vs}
    BY Zenon DEF AllowedAfter
  <2>2. QED
    BY <1>2, <2>1
<1>4. \/ port[i].mode = "trunk" /\ Retagged(i, new \ old, old \ new, 0, FALSE)
      \/ port[i].mode # "trunk" /\ Retagged(i, {}, {}, 0, FALSE)
  <2>1. \/ port[i].mode = "trunk" /\ Retag(i, new \ old, old \ new, Own(i, 0, FALSE), {})
        \/ port[i].mode # "trunk" /\ Retag(i, {}, {}, Own(i, 0, FALSE), {})
    BY DEF IfTrunkVlans, Unmoved
  <2>2. /\ new \ old \in SUBSET Vlans /\ old \ new \in SUBSET Vlans
        /\ (new \ old) \cap (old \ new) = {}
    BY <1>2, <1>3
  <2>. HIDE DEF new, old
  <2>3. QED
    BY <2>1, <2>2, RetagExact
<1>5. port[i].mode = "trunk" => Switched(i, "trunk")
  <2>1. ~(port[i].mode = "trunk" /\ port[i].type = "routed")
    BY DEF IfTrunkVlans
  <2>2. QED
    BY <1>2, <2>1 DEF Switched, Port
<1>. HIDE DEF new
<1>6. /\ DOMAIN port' = DOMAIN port /\ \A j \in DOMAIN port : j # i => port'[j] = port[j]
      /\ port'[i] = [port[i] EXCEPT !.allowed = new]
  BY <1>1
<1>7. /\ port'[i].type = port[i].type /\ port'[i].mode = port[i].mode
      /\ port'[i].access = port[i].access /\ port'[i].allowed = new
  BY <1>2, <1>6 DEF Port
<1>8. \A w \in Vlans : <<i, w>> \in devs' =>
         Switched(i, "trunk")' /\ w \in port'[i].allowed \cap vlans'
  <2>1. ASSUME NEW w \in Vlans, <<i, w>> \in devs'
        PROVE  Switched(i, "trunk") /\ w \in new \cap vlans
    <3>1. i \in Interfaces
      OBVIOUS
    <3>2. CASE port[i].mode = "trunk"
      <4>1. \/ w \in (new \ old) \cap vlans
            \/ <<i, w>> \in devs /\ w \notin (old \ new) \cap vlans
        BY <1>4, <2>1, <3>2 DEF Retagged
      <4>2. QED
        BY <1>1, <1>5, <3>2, <4>1, DevicesOf
    <3>3. CASE port[i].mode # "trunk"
      <4>1. <<i, w>> \in devs
        BY <1>4, <2>1, <3>3 DEF Retagged
      <4>2. QED
        BY <1>1, <3>3, <4>1, DevicesOf DEF Switched
    <3>4. QED
      BY <3>2, <3>3
  <2>2. QED
    BY <1>1, <1>7, <2>1 DEF Switched
<1>9. AccessOf(i)'
  <2>1. at'[<<i, 0>>] = at[<<i, 0>>]
    BY <1>4 DEF Retagged
  <2>2. AccessOf(i)
    BY <1>1, DevicesOf
  <2>3. QED
    BY <1>1, <1>6, <1>7, <2>1, <2>2 DEF AccessOf, Switched
<1>10. QED
  <2>1. PICK in, out : Retagged(i, in, out, 0, FALSE)
    BY <1>4
  <2>2. QED
    BY <1>1, <1>6, <1>8, <1>9, <2>1, OneRecord

\* Where an access interface of VLAN w is.
AccessAt(j, w) == at[<<j, 0>>] = w \/ (at[<<j, 0>>] = 0 /\ w \in refused)

\* What holds of the devices of a VLAN in a regular state.
LEMMA DevicesIn ==
    ASSUME TypeOK, InPlace
    PROVE  /\ 0 \notin Vlans /\ devs \subseteq Interfaces \X Vlans /\ DOMAIN port \subseteq Interfaces
           /\ \A j \in Interfaces, w \in Vlans :
                 /\ at[<<j, w>>] = IF <<j, w>> \in devs THEN w ELSE 0
                 /\ <<j, w>> \in devs => w \in vlans /\ j \in TrunkIn(w)
           /\ \A j \in Interfaces :
                 /\ at[<<j, 0>>] # 0 => j \in AccessIn(at[<<j, 0>>]) /\ at[<<j, 0>>] \in bridges
                 /\ \A w \in vlans : j \in AccessIn(w) => AccessAt(j, w)
           /\ vlans \subseteq Vlans
<1>1. /\ 0 \notin Vlans /\ devs \subseteq Interfaces \X Vlans /\ vlans \subseteq Vlans
      /\ DOMAIN port \subseteq Interfaces
  BY LinuxSwitchAssumption DEF LinuxSwitchAssumption, TypeOK
<1>2. ASSUME NEW j \in Interfaces, NEW w \in Vlans
      PROVE  /\ at[<<j, w>>] = IF <<j, w>> \in devs THEN w ELSE 0
             /\ <<j, w>> \in devs => w \in vlans /\ j \in TrunkIn(w)
  BY DEF InPlace, TrunksInPlace, TrunkIn
<1>3. ASSUME NEW j \in Interfaces
      PROVE  /\ at[<<j, 0>>] # 0 => j \in AccessIn(at[<<j, 0>>]) /\ at[<<j, 0>>] \in bridges
             /\ \A w \in vlans : j \in AccessIn(w) => AccessAt(j, w)
  BY DEF InPlace, AccessInPlace, AccessOf, AccessIn, AccessAt
<1>4. QED
  BY <1>1, <1>2, <1>3 DEF InPlace

\* And what has to hold of them in the next, when the records of the
\* interfaces do not change.
LEMMA VlanInPlace ==
    ASSUME Bridged', devs' = entry', port' = port, DOMAIN port \subseteq Interfaces, "no entry" \notin damage',
           \A j \in Interfaces, w \in Vlans :
              /\ at'[<<j, w>>] = IF <<j, w>> \in devs' THEN w ELSE 0
              /\ <<j, w>> \in devs' => w \in vlans' /\ j \in TrunkIn(w),
           \A j \in Interfaces :
              /\ at'[<<j, 0>>] # 0 => j \in AccessIn(at'[<<j, 0>>]) /\ at'[<<j, 0>>] \in bridges'
              /\ \A w \in vlans' : j \in AccessIn(w) => AccessAt(j, w)'
    PROVE  InPlace'
<1>1. TrunksInPlace'
  BY DEF TrunksInPlace, TrunkIn, Switched
<1>2. AccessInPlace'
  BY DEF AccessInPlace, AccessOf, AccessIn, AccessAt, Switched
<1>3. QED
  BY <1>1, <1>2 DEF InPlace

\* Devices that stay where they are, under records that stay the same.
LEMMA SameInPlace ==
    ASSUME InPlace, UNCHANGED <<vlans, vlanIfs, port, entry, bridges, devs, at, refused>>,
           "no entry" \notin damage'
    PROVE  InPlace'
<1>1. TrunksInPlace'
  BY DEF InPlace, TrunksInPlace, Switched
<1>2. AccessInPlace'
  BY DEF InPlace, AccessInPlace, AccessOf, Switched
<1>3. QED
  BY <1>1, <1>2 DEF InPlace, Bridged

\* vlan_add(): the access interfaces and the trunks that the records put into
\* the VLAN before it existed join its bridge (linux.c:235-310).
LEMMA VlanAddInPlace ==
    ASSUME TypeOK, InPlace, NEW v \in Vlans, NEW always, VlanAdd(v, always, {})
    PROVE  InPlace'
<1>. DEFINE new == Created(TrunkIn(v) \X {v}, {})
            brs == bridges \cup {v}
            to  == [d \in {e \in new \cup AccessIn(v) \X {0} : Joins(e, v, brs, {})} |-> v]
<1>1. UNCHANGED <<vlanIfs, port, refused, strays, damage>>
  BY DEF VlanAdd
<1>2. Bridged /\ devs = entry /\ "no entry" \notin damage
  BY DEF InPlace, TrunksInPlace
<1>3. CASE v \in vlans \/ (v \notin vlanIfs /\ v \in bridges)
  <2>1. UNCHANGED <<vlans, devs, entry, at>>
    BY <1>3 DEF VlanAdd
  <2>2. bridges' = bridges
    BY <1>2, <1>3 DEF VlanAdd, Bridged
  <2>3. QED
    BY <1>1, <1>2, <2>1, <2>2, SameInPlace
<1>4. CASE v \notin vlans /\ (v \in vlanIfs \/ v \notin bridges)
  <2>1. v \in vlanIfs \/ v \notin bridges
    BY <1>4
  <2>2. /\ bridges' = brs /\ vlans' = vlans \cup {v}
        /\ devs' = devs \cup new /\ entry' = entry \cup new
        /\ at' = Moved(to, {})
    BY <1>4, <2>1 DEF VlanAdd
  <2>3. \A j \in Interfaces, w \in Vlans :
           <<j, w>> \in new <=> w = v /\ j \in TrunkIn(v)
    <3>1. \A j \in Interfaces : <<j, v>> \notin devs
      BY <1>4, DevicesIn
    <3>2. QED
      BY <3>1 DEF Created
  <2>4. \A j \in Interfaces : <<j, 0>> \notin new
    BY DevicesIn DEF Created
  <2>5. \A d \in Device :
           /\ d \in DOMAIN to <=> /\ d \in new \/ (d \in AccessIn(v) \X {0})
                                  /\ at[d] = 0
           /\ d \in DOMAIN to => to[d] = v
    BY DEF Joins
  <2>. HIDE DEF new, to
  <2>6. \A d \in Device : at'[d] = IF (d \in new \/ d \in AccessIn(v) \X {0}) /\ at[d] = 0
                                   THEN v ELSE at[d]
    BY <2>2, <2>5, MovedAt
  <2>7. ASSUME NEW j \in Interfaces, NEW w \in Vlans
        PROVE  /\ at'[<<j, w>>] = IF <<j, w>> \in devs' THEN w ELSE 0
               /\ <<j, w>> \in devs' => w \in vlans' /\ j \in TrunkIn(w)
    <3>1. <<j, w>> \in Device /\ w # 0
      BY DevicesIn DEF Device
    <3>2. at'[<<j, w>>] = IF <<j, w>> \in new /\ at[<<j, w>>] = 0 THEN v ELSE at[<<j, w>>]
      BY <2>6, <3>1
    <3>3. /\ at[<<j, w>>] = IF <<j, w>> \in devs THEN w ELSE 0
          /\ <<j, w>> \in devs => w \in vlans /\ j \in TrunkIn(w)
      BY DevicesIn
    <3>4. QED
      BY <1>4, <2>2, <2>3, <3>1, <3>2, <3>3
  <2>8. ASSUME NEW j \in Interfaces
        PROVE  /\ at'[<<j, 0>>] # 0 => j \in AccessIn(at'[<<j, 0>>]) /\ at'[<<j, 0>>] \in bridges'
               /\ \A w \in vlans' : j \in AccessIn(w) => AccessAt(j, w)'
    <3>1. <<j, 0>> \in Device
      BY DEF Device
    <3>2. at'[<<j, 0>>] = IF j \in AccessIn(v) /\ at[<<j, 0>>] = 0 THEN v ELSE at[<<j, 0>>]
      BY <2>4, <2>6, <3>1
    <3>3. /\ at[<<j, 0>>] # 0 => j \in AccessIn(at[<<j, 0>>]) /\ at[<<j, 0>>] \in bridges
          /\ \A w \in vlans : j \in AccessIn(w) => AccessAt(j, w)
      BY DevicesIn
    <3>4. \A w, x : j \in AccessIn(w) /\ j \in AccessIn(x) => w = x
      BY DEF AccessIn
    <3>5. QED
      BY <1>1, <2>2, <3>2, <3>3, <3>4 DEF AccessAt
  <2>9. Bridged' /\ devs' = entry'
    BY <1>1, <1>2, <2>2 DEF Bridged
  <2>10. QED
    BY <1>1, <1>2, <2>7, <2>8, <2>9, DevicesIn, VlanInPlace
<1>5. QED
  BY <1>3, <1>4

\* The devices of a VLAN leave its bridge and the others stay, and the tagged
\* ones of the VLAN go: what is left then, the VLAN among it if the kernel
\* refused to delete its bridge.
LEMMA EmptiedInPlace ==
    ASSUME TypeOK, InPlace, NEW v \in Vlans,
           port' = port, devs' = entry', "no entry" \notin damage',
           Bridged', vlans' \subseteq vlans, bridges \ {v} \subseteq bridges',
           vlans \ {v} \subseteq vlans', refused \ {v} \subseteq refused',
           v \notin vlans' \/ v \in refused',
           \A j \in Interfaces, w \in Vlans : <<j, w>> \in devs' <=> <<j, w>> \in devs /\ w # v,
           \A d \in Device : at'[d] = IF at[d] = v THEN 0 ELSE at[d]
    PROVE  InPlace'
<1>1. ASSUME NEW j \in Interfaces, NEW w \in Vlans
      PROVE  /\ at'[<<j, w>>] = IF <<j, w>> \in devs' THEN w ELSE 0
             /\ <<j, w>> \in devs' => w \in vlans' /\ j \in TrunkIn(w)
  <2>1. <<j, w>> \in Device /\ v # 0
    BY DevicesIn DEF Device
  <2>2. /\ at[<<j, w>>] = IF <<j, w>> \in devs THEN w ELSE 0
        /\ <<j, w>> \in devs => w \in vlans /\ j \in TrunkIn(w)
    BY DevicesIn
  <2>3. QED
    BY <2>1, <2>2
<1>2. ASSUME NEW j \in Interfaces
      PROVE  /\ at'[<<j, 0>>] # 0 => j \in AccessIn(at'[<<j, 0>>]) /\ at'[<<j, 0>>] \in bridges'
             /\ \A w \in vlans' : j \in AccessIn(w) => AccessAt(j, w)'
  <2>1. <<j, 0>> \in Device /\ v # 0
    BY DevicesIn DEF Device
  <2>2. /\ at[<<j, 0>>] # 0 => j \in AccessIn(at[<<j, 0>>]) /\ at[<<j, 0>>] \in bridges
        /\ \A w \in vlans : j \in AccessIn(w) => AccessAt(j, w)
    BY DevicesIn
  <2>3. at'[<<j, 0>>] = IF at[<<j, 0>>] = v THEN 0 ELSE at[<<j, 0>>]
    BY <2>1
  <2>4. QED
    BY <2>1, <2>2, <2>3 DEF AccessAt
<1>3. QED
  BY <1>1, <1>2, DevicesIn, VlanInPlace

\* vlan_del(): with the bridge or without it, the devices leave, the tagged
\* ones go, and so does the record, unless the kernel refuses to delete the
\* bridge (linux.c:163-233).
LEMMA VlanDelInPlace ==
    ASSUME TypeOK, InPlace, NEW v \in Vlans, NEW always, VlanDel(v, always, {})
    PROVE  InPlace'
<1>. DEFINE listed == {d \in entry : d[2] = v}
            out    == Left(listed, {}) \cup {d \in AccessIn(v) \X {0} : Leaves(d, v, {})}
            closes == Closes(v, vlanIfs, {})
            all    == {d \in Device : at[d] = v}
<1>1. UNCHANGED <<vlanIfs, port, strays, damage>>
  BY DEF VlanDel
<1>2. Bridged /\ devs = entry /\ "no entry" \notin damage
  BY DEF InPlace, TrunksInPlace
<1>3. CASE v \notin vlans \ DefaultVlans
  <2>1. UNCHANGED <<vlans, bridges, devs, entry, at, refused>>
    BY <1>3 DEF VlanDel
  <2>2. QED
    BY <1>1, <1>2, <2>1, SameInPlace
<1>4. CASE v \in vlans \ DefaultVlans
  <2>1. closes <=> v \notin vlanIfs /\ v \notin up
    BY <1>2, <1>4 DEF Closes, Bridged
  <2>2. /\ vlans' = IF closes \/ v \in vlanIfs THEN vlans \ {v} ELSE vlans
        /\ devs' = devs \ Gone(listed, {})
        /\ entry' = entry \ IF closes \/ v \in vlanIfs THEN listed ELSE Gone(listed, {})
        /\ bridges' = IF closes THEN bridges \ {v} ELSE bridges
        /\ at' = Moved(Nowhere, IF closes THEN all ELSE out)
        /\ refused' = (refused \ {v}) \cup Refused(v, vlanIfs)
    <3>. HIDE DEF listed, out, closes, all
    <3>1. QED
      BY <1>4 DEF VlanDel, listed, out, closes, all
  <2>3. \A j \in Interfaces, w \in Vlans :
           /\ <<j, w>> \in listed <=> <<j, w>> \in devs /\ w = v
           /\ <<j, w>> \in listed => at[<<j, w>>] = w
    BY <1>2, DevicesIn
  <2>4. listed \subseteq Interfaces \X Vlans
    BY DEF TypeOK
  <2>. HIDE DEF listed
  <2>5. Gone(listed, {}) = listed /\ Left(listed, {}) = listed
    <3>1. ASSUME NEW d \in listed PROVE d \in Gone(listed, {}) /\ d \in Left(listed, {})
      <4>1. PICK j \in Interfaces, w \in Vlans : d = <<j, w>>
        BY <2>4
      <4>2. at[d] = d[2]
        BY <2>3, <4>1
      <4>3. QED
        BY <4>2 DEF Gone, Left, Leaves
    <3>2. QED
      BY <3>1 DEF Gone, Left
  <2>6. devs' = entry'
    BY <1>2, <2>2, <2>5
  <2>7. \A j \in Interfaces, w \in Vlans : <<j, w>> \in devs' <=> <<j, w>> \in devs /\ w # v
    BY <2>2, <2>3, <2>5
  <2>8. \A d \in Device : at[d] = v <=> d \in out
    <3>1. ASSUME NEW d \in Device, at[d] = v PROVE d \in out
      <4>1. PICK j \in Interfaces, w \in Vlans \cup {0} : d = <<j, w>>
        BY DEF Device
      <4>2. CASE w \in Vlans
        BY <2>3, <2>5, <3>1, <4>1, <4>2, DevicesIn
      <4>3. CASE w = 0
        <5>1. j \in AccessIn(v)
          BY <3>1, <4>1, <4>3, DevicesIn
        <5>2. QED
          BY <3>1, <4>1, <4>3, <5>1 DEF Leaves
      <4>4. QED
        BY <4>1, <4>2, <4>3
    <3>2. ASSUME NEW d \in out PROVE at[d] = v
      <4>1. CASE d \in listed
        <5>1. PICK j \in Interfaces, w \in Vlans : d = <<j, w>>
          BY <2>4, <4>1
        <5>2. QED
          BY <2>3, <4>1, <5>1
      <4>2. CASE d \notin listed
        BY <2>5, <3>2, <4>2 DEF Leaves
      <4>3. QED
        BY <4>1, <4>2
    <3>3. QED
      BY <3>1, <3>2
  <2>. HIDE DEF out
  <2>9. \A d \in Device : at'[d] = IF at[d] = v THEN 0 ELSE at[d]
    BY <2>2, <2>8 DEF Moved, Nowhere
  <2>. HIDE DEF closes
  <2>10. Bridged'
    BY <1>1, <1>2, <1>4, <2>1, <2>2 DEF Bridged, Refused
  <2>11. /\ vlans' \subseteq vlans /\ vlans \ {v} \subseteq vlans' /\ bridges \ {v} \subseteq bridges'
         /\ refused \ {v} \subseteq refused' /\ (v \notin vlans' \/ v \in refused')
    BY <2>1, <2>2 DEF Refused
  <2>12. QED
    BY <1>1, <1>2, <2>6, <2>7, <2>9, <2>10, <2>11, EmptiedInPlace
<1>5. QED
  BY <1>3, <1>4

\* vif_add(): of a VLAN that is recorded, no bridge is opened; of another, the
\* bridge is new and no device is in it.
LEMMA VifAddInPlace ==
    ASSUME TypeOK, InPlace, NEW v \in Vlans, VifAdd(v, {})
    PROVE  InPlace'
<1>1. UNCHANGED <<vlans, port, entry, devs, at, refused>> /\ "no entry" \notin damage'
  <2>1. damage' \in {{}, {"links overwritten"}}
    BY DEF VifAdd
  <2>2. UNCHANGED <<vlans, port, entry, devs, at, refused>>
    BY DEF VifAdd
  <2>3. QED
    BY <2>1, <2>2
<1>2. Bridged /\ devs = entry
  BY DEF InPlace, TrunksInPlace
<1>3. Bridged' /\ bridges \subseteq bridges'
  BY <1>1, <1>2 DEF VifAdd, Bridged
<1>4. TrunksInPlace'
  BY <1>1 DEF InPlace, TrunksInPlace, Switched
<1>5. AccessInPlace'
  BY <1>1, <1>3 DEF InPlace, AccessInPlace, AccessOf, Switched
<1>6. QED
  BY <1>1, <1>2, <1>3, <1>4, <1>5 DEF InPlace

\* vif_del(): the bridge goes if it is down and no VLAN is recorded that uses
\* it, and the interfaces that joined it leave.
LEMMA VifDelInPlace ==
    ASSUME TypeOK, InPlace, NEW v \in Vlans, VifDel(v, {})
    PROVE  InPlace'
<1>1. UNCHANGED <<vlans, port, entry, devs, damage>> /\ vlanIfs' = vlanIfs \ {v}
  BY DEF VifDel
<1>2. Bridged /\ devs = entry /\ "no entry" \notin damage
  BY DEF InPlace, TrunksInPlace
<1>3. CASE Closes(v, vlans, {})
  <2>1. v \notin vlans /\ bridges' = bridges \ {v}
    BY <1>3 DEF VifDel, Closes
  <2>2. at' = Moved(Nowhere, {d \in Device : at[d] = v})
    BY <1>3 DEF VifDel
  <2>3. \A d \in Device : at'[d] = IF at[d] = v THEN 0 ELSE at[d]
    BY <2>2 DEF Moved, Nowhere
  <2>4. \A j \in Interfaces, w \in Vlans : <<j, w>> \in devs' <=> <<j, w>> \in devs /\ w # v
    BY <1>1, <2>1, DevicesIn
  <2>5. Bridged' /\ refused \ {v} \subseteq refused'
    BY <1>1, <1>2, <2>1 DEF VifDel, Bridged
  <2>6. QED
    BY <1>1, <1>2, <2>1, <2>3, <2>4, <2>5, EmptiedInPlace
<1>4. CASE ~Closes(v, vlans, {})
  <2>1. UNCHANGED <<bridges, at>>
    BY <1>4 DEF VifDel
  <2>2. Bridged' /\ refused \cap vlans \subseteq refused'
    BY <1>1, <1>2, <1>4, <2>1 DEF VifDel, Bridged, Closes, Refused
  <2>3. TrunksInPlace'
    BY <1>1, <2>1 DEF InPlace, TrunksInPlace, Switched
  <2>4. AccessInPlace'
    BY <1>1, <2>1, <2>2 DEF InPlace, AccessInPlace, AccessOf, Switched
  <2>5. QED
    BY <1>1, <1>2, <2>1, <2>2, <2>3, <2>4 DEF InPlace
<1>5. QED
  BY <1>3, <1>4

\* Every step of a regular history keeps the devices in place.
LEMMA StepInPlace == TypeOK /\ RegularInPlace /\ [Next]_vars => RegularInPlace'
<1>. SUFFICES ASSUME TypeOK, RegularInPlace, [Next]_vars, Regular' PROVE InPlace'
  BY DEF RegularInPlace
<1>1. CASE \E v \in Vlans : \E bad : VlanStep(v, bad) /\ Counted(bad)
  <2>1. PICK v \in Vlans : \E bad : VlanStep(v, bad) /\ Counted(bad)
    BY <1>1
  <2>. PICK bad : VlanStep(v, bad) /\ Counted(bad)
    BY <2>1
  <2>2. bad = {} /\ faults = 0
    BY DEF Counted, Regular
  <2>3. strays = {}
    BY DEF Regular, VlanStep, VlanAdd, VlanDel, VifAdd, VifDel, IfEnable, IfDisable
  <2>4. InPlace
    BY <2>2, <2>3 DEF RegularInPlace, Regular
  <2>5. VlanStep(v, {})
    BY <2>2
  <2>6. CASE IfEnable(v) \/ IfDisable(v)
    BY <2>4, <2>6, SameInPlace DEF IfEnable, IfDisable, records, InPlace
  <2>7. QED
    BY <2>4, <2>5, <2>6, VlanAddInPlace, VlanDelInPlace, VifAddInPlace, VifDelInPlace DEF VlanStep
<1>2. CASE \E i \in Interfaces : \E bad : IfStep(i, bad) /\ Counted(bad)
  <2>1. PICK i \in Interfaces : \E bad : IfStep(i, bad) /\ Counted(bad)
    BY <1>2
  <2>. PICK bad : IfStep(i, bad) /\ Counted(bad)
    BY <2>1
  <2>2. bad = {} /\ faults = 0
    BY DEF Counted, Regular
  <2>3. strays \subseteq strays'
    BY DEF IfStep, IfAdd, IfRemove, IfModeAccess, IfModeTrunk, IfNoSwitchport,
           IfSetPortVlan, IfTrunkVlans
  <2>4. InPlace /\ strays' = {}
    BY <2>2, <2>3 DEF RegularInPlace, Regular
  <2>5. IfStep(i, {})
    BY <2>2
  <2>6. QED
    BY <2>4, <2>5, IfAddInPlace, IfRemoveInPlace, IfModeAccessInPlace, IfModeTrunkInPlace,
       IfNoSwitchportInPlace, IfSetPortVlanInPlace, IfTrunkVlansInPlace DEF IfStep
<1>3. CASE \E i \in Interfaces : MissingRecord(i)
  <2>1. UNCHANGED <<records, kernel, faults>>
    BY <1>3 DEF MissingRecord
  <2>2. damage' \in {{}, {"no record"}}
    BY <1>3 DEF MissingRecord
  <2>3. "no entry" \notin damage'
    <3>1. CASE damage' = {}
      BY <3>1
    <3>2. CASE damage' = {"no record"}
      BY <3>2
    <3>3. QED
      BY <2>2, <3>1, <3>2
  <2>4. InPlace
    BY <2>1 DEF RegularInPlace, Regular, kernel
  <2>5. QED
    BY <2>1, <2>3, <2>4, SameInPlace DEF records, kernel
<1>4. CASE UNCHANGED vars
  <2>1. InPlace
    BY <1>4 DEF RegularInPlace, Regular, vars, kernel
  <2>2. QED
    BY <1>4, <2>1, SameInPlace DEF InPlace, vars, records, kernel
<1>5. QED
  BY <1>1, <1>2, <1>3, <1>4, Steps

\* Regularity is all that the places of the devices depend on: the
\* inductive invariant of the theorems that follow.
LEMMA RegularHistories == Spec => [](TypeOK /\ RegularInPlace)
<1>1. Init => RegularInPlace
  <2>. SUFFICES ASSUME Init PROVE InPlace
    BY DEF RegularInPlace
  <2>1. \A d \in Device : at[d] = 0
    BY DEF Init
  <2>2. \A i \in Interfaces : <<i, 0>> \in Device /\ \A v \in Vlans : <<i, v>> \in Device
    BY DEF Device
  <2>3. TrunksInPlace
    BY <2>1, <2>2 DEF Init, TrunksInPlace
  <2>4. DOMAIN port = {}
    BY DEF Init
  <2>5. AccessInPlace
    BY <2>1, <2>2, <2>4 DEF AccessInPlace, AccessOf
  <2>6. QED
    BY <2>3, <2>5 DEF Init, InPlace, Bridged
<1>2. QED
  BY <1>1, StepInPlace, Typed, PTL DEF Spec

\* When no kernel call failed and no list of a routed interface was changed, a
\* device is in the bridge of a VLAN only if the records put its interface
\* there, for any interfaces, VLANs and commands.
THEOREM NoLeak == Spec => []Isolation
<1>1. TypeOK /\ RegularInPlace => Isolation
  <2>. SUFFICES ASSUME TypeOK, InPlace, NEW d \in Device, at[d] # 0
                PROVE  d[1] \in AccessIn(at[d]) \cup TrunkIn(at[d])
    BY DEF Isolation, RegularInPlace
  <2>1. PICK j \in Interfaces, w \in Vlans \cup {0} : d = <<j, w>>
    BY DEF Device
  <2>2. CASE w = 0
    BY <2>1, <2>2, DevicesIn
  <2>3. CASE w \in Vlans
    <3>1. at[<<j, w>>] = w /\ j \in TrunkIn(w)
      BY <2>1, <2>3, DevicesIn
    <3>2. QED
      BY <2>1, <3>1
  <2>4. QED
    BY <2>1, <2>2, <2>3
<1>2. QED
  BY <1>1, RegularHistories, PTL

\* Then an access interface is in the bridge of its VLAN as soon as both are
\* recorded, in whatever order they were, or else in none, because the kernel
\* refused to delete the bridge of that VLAN, which was up.
THEOREM AccessJoined == Spec => []AccessForwards
<1>1. TypeOK /\ RegularInPlace => AccessForwards
  BY DevicesOf DEF AccessForwards, RegularInPlace, AccessOf
<1>2. QED
  BY <1>1, RegularHistories, PTL

\* And nothing is left behind in the kernel but bridges that it refused to
\* delete: every other bridge and every tagged device has its record, which
\* del_vif_data() therefore finds.
THEOREM NothingLeft == Spec => []NothingLeftBehind
<1>1. TypeOK /\ RegularInPlace => NothingLeftBehind
  <2>. SUFFICES ASSUME TypeOK, InPlace
                PROVE  /\ Bridged /\ devs = entry
                       /\ \A d \in devs : at[d] = d[2]
                       /\ "no entry" \notin damage
    BY DEF NothingLeftBehind, RegularInPlace, Bridged
  <2>1. ASSUME NEW d \in devs PROVE at[d] = d[2]
    <3>1. PICK j \in Interfaces, w \in Vlans : d = <<j, w>>
      BY DevicesIn
    <3>2. QED
      BY <3>1, DevicesIn
  <2>2. QED
    BY <2>1 DEF InPlace, TrunksInPlace
<1>2. QED
  BY <1>1, RegularHistories, PTL
=============================================================================

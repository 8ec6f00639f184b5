---------------------------- MODULE SavedConfig ----------------------------
(***************************************************************************)
(* The saved configuration: what "write memory" (cli/cfgbuild) writes, and *)
(* what swcfgload makes of it at the next start by giving the lines, one   *)
(* by one, to the same commands an operator uses (cli/command/config*.c).  *)
(*                                                                         *)
(* A line is a record of its command and its argument.  The running        *)
(* configuration is what the records of the shared area and cdpd hold; the *)
(* kernel calls succeed here (LinuxSwitch has them fail).                  *)
(***************************************************************************)
EXTENDS Integers, Sequences, FiniteSets, SequencesExt, FiniteSetsExt

CONSTANTS
    Interfaces,     \* the network interfaces of the machine
    MaxVlan,        \* SW_MAX_VLAN
    DefaultVlans,   \* sw_is_default_vlan(): VLANs 1 and 1002 to 1005
    Lists,          \* bound: the VLAN lists an operator types
    LineTokens,     \* bound: tokens in a line of a trunk's VLAN list
    MaxCommands     \* bound: commands of operators

ASSUME SavedConfigAssumption ==
    /\ IsFiniteSet(Interfaces) /\ MaxVlan \in Nat \ {0}
    /\ 1 \in DefaultVlans /\ DefaultVlans \subseteq 1 .. MaxVlan - 1
    /\ Lists \subseteq SUBSET (1 .. MaxVlan)
    /\ LineTokens \in Nat \ {0} /\ MaxCommands \in Nat

VARIABLES
    live,       \* the running configuration, and the menu commands go to
    present,    \* the interfaces the machine has since it started
    file,       \* the saved configuration
    saved,      \* the configuration "file" was written from
    rest,       \* the lines swcfgload has not read yet
    phase,      \* "running", "loading" or "loaded"
    commands    \* commands given by operators

vars == <<live, present, file, saved, rest, phase, commands>>

Vlans == 1 .. MaxVlan
DefaultVlan == 1

Port == [type : {"switched", "routed"}, mode : {"access", "trunk"},
         access : Vlans, allowed : SUBSET Vlans, cdp : BOOLEAN]

\* The switch after switch_init(), which adds the default VLANs with their
\* names at every start; no command removes or renames one, and none is saved:
\* "named" holds the VLANs whose description
\* is not the default one, "snooped" those with IGMP snooping (each VLAN starts
\* with it, the global flag without), "static" and "learned" the addresses in
\* the bridges as <<interface, VLAN>>, "at" the menu that commands go to.
Boot == [vlans |-> DefaultVlans, named |-> {}, snooped |-> DefaultVlans,
         snooping |-> FALSE, secret |-> FALSE, age |-> "unset",
         cdp |-> [run |-> TRUE, timer |-> "default"],
         ports |-> << >>, described |-> {}, down |-> {},
         static |-> {}, learned |-> {}, at |-> <<"config">>]

-----------------------------------------------------------------------------
(* The commands: each gives the configuration after it.  One refused, or   *)
(* not in the menu that is current, leaves it as it is.                    *)

CmdVlan(c, v) ==
    IF v \in c.vlans THEN [c EXCEPT !.at = <<"vlan", v>>]
    ELSE [c EXCEPT !.at = <<"vlan", v>>, !.vlans = @ \cup {v},
                   !.snooped = @ \cup {v}]

\* After "shutdown" of the VLAN's interface and its removal: the kernel deletes
\* no bridge that is up (LinuxSwitch has it refuse).
CmdNoVlan(c, v) ==
    IF v \in DefaultVlans THEN c
    ELSE [c EXCEPT !.vlans = @ \ {v}, !.named = @ \ {v}, !.snooped = @ \ {v}]

CmdNameVlan(c, given) ==
    IF c.at[1] # "vlan" \/ c.at[2] \in DefaultVlans THEN c
    ELSE [c EXCEPT !.named = IF given THEN @ \cup {c.at[2]} ELSE @ \ {c.at[2]}]

\* set_global_igmp(): its loop ends before SW_MAX_VLAN.
SetGlobalIgmp(c, on) ==
    LET every == c.vlans \ {MaxVlan} IN
    [c EXCEPT !.snooping = on,
              !.snooped = IF on THEN @ \cup every ELSE @ \ every]

\* igmp_set(): the bridge of the VLAN must exist, and then its record.
CmdIpIgmpSnooping(c, v, on) ==
    IF v \notin c.vlans THEN c
    ELSE [c EXCEPT !.snooped = IF on THEN @ \cup {v} ELSE @ \ {v}]

CmdCdpRun(c, on) == [c EXCEPT !.cdp.run = on]

\* The timer stands for the version and the holdtime, too.
CmdCdpTimer(c, t) == IF c.cdp.run THEN [c EXCEPT !.cdp.timer = t] ELSE c

\* The menu takes 10 seconds at least.
CmdSetAging(c, t) == IF t = "unset" THEN c ELSE [c EXCEPT !.age = t]

CmdSetEnPw(c) == [c EXCEPT !.secret = TRUE]
CmdNoEnSecret(c) == [c EXCEPT !.secret = FALSE]

\* The pattern of a secret is matched against the word "enable".
CmdSetEnPwEncrypted(c) == c

\* What if_add() and cdpd give an interface: cdpd takes none that is down.
NewPort(c, i) == [type |-> "switched", mode |-> "access", access |-> DefaultVlan,
                  allowed |-> Vlans, cdp |-> i \notin c.down]

UseIfEther(c, i) ==
    IF i \notin present THEN c
    ELSE [c EXCEPT !.at = <<"port", i>>,
                   !.ports = [j \in DOMAIN @ \cup {i} |->
                                IF j \in DOMAIN @ THEN @[j] ELSE NewPort(c, i)]]

RemoveIfEther(c, i) ==
    [c EXCEPT !.ports = [j \in DOMAIN @ \ {i} |-> @[j]]]

\* The commands of an interface, given its record and the configuration.

CmdAccVlan(p, v) ==
    IF p.type = "switched" /\ p.mode = "access" THEN [p EXCEPT !.access = v]
    ELSE p

\* if_mode_access() fails when the bridge of the access VLAN is missing.
CmdSetMode(p, mode, c) ==
    IF mode = "access" /\ p.access \notin c.vlans THEN p
    ELSE [p EXCEPT !.type = "switched", !.mode = mode]

\* if_no_switchport() fails when the interface is in no bridge.
CmdNoMode(p, c) ==
    IF p.mode = "access" /\ p.access \notin c.vlans THEN p
    ELSE [p EXCEPT !.type = "routed"]

CmdTrunkVlan(p, how, vs) ==
    [p EXCEPT !.allowed = CASE how = "set" -> vs [] how = "add" -> @ \cup vs
                            [] how = "remove" -> @ \ vs
                            [] how = "except" -> Vlans \ vs]

CmdIfDesc(c, i) == [c EXCEPT !.described = @ \cup {i}]
CmdShutdown(c, i, down) ==
    [c EXCEPT !.down = IF down THEN @ \cup {i} ELSE @ \ {i}]

\* cmd_cdp_if_set(): nothing while CDP does not run.
CmdCdpIfSet(p, on, c, i) ==
    IF c.cdp.run /\ (~on \/ i \notin c.down) THEN [p EXCEPT !.cdp = on] ELSE p

\* How an interface reaches the bridge of VLAN v.
Device(c, i, v) ==
    IF i \notin DOMAIN c.ports \/ v \notin c.vlans THEN "none"
    ELSE LET p == c.ports[i] IN
         IF p.type = "routed" THEN "none"
         ELSE IF p.mode = "trunk" THEN IF v \in p.allowed THEN "tagged" ELSE "none"
         ELSE IF v = p.access THEN "itself" ELSE "none"

\* vlan_set_mac_static(): the VLAN counts for a trunk interface only.
CmdMacStatic(c, i, v) ==
    IF i \notin DOMAIN c.ports THEN c
    ELSE LET p == c.ports[i]
             w == IF p.mode = "trunk" THEN v ELSE p.access
         IN IF Device(c, i, w) = "none" THEN c
            ELSE [c EXCEPT !.static = @ \cup {<<i, w>>},
                           !.learned = @ \ {<<i, w>>}]

-----------------------------------------------------------------------------
(* Saving: build_config_global() and build_config_interface().             *)

Line(cmd, arg) == [cmd |-> cmd, arg |-> arg]
LineIf(condition, cmd, arg) == IF condition THEN <<Line(cmd, arg)>> ELSE << >>
Ascending(S) ==
    [k \in 1 .. Cardinality(S) |-> CHOOSE v \in S : Cardinality({u \in S : u <= v}) = k]

\* list_vlans_token(): a run of three VLANs or more is one range.
RunEnd(S, v) == Min({w \in v .. MaxVlan : w + 1 \notin S})
InRange(S, v) == \E u \in S : u <= v /\ v <= RunEnd(S, u) /\ RunEnd(S, u) - u > 1
Tokens(S) ==
    LET starts == {v \in S : ~InRange(S, v) \/ v - 1 \notin S} IN
    [k \in 1 .. Cardinality(starts) |->
        LET v == Ascending(starts)[k] IN
        <<v, IF InRange(S, v) THEN RunEnd(S, v) ELSE v>>]

\* list_vlans(): lines after the first one add to the list.
ListVlans(S) ==
    LET ts == Tokens(S)
        n  == 1 + (Len(ts) - 1) \div LineTokens
    IN IF ts = << >> THEN <<Line("allowed", [how |-> "set", list |-> << >>])>>
       ELSE [k \in 1 .. n |->
               Line("allowed",
                    [how  |-> IF k = 1 THEN "set" ELSE "add",
                     list |-> SubSeq(ts, 1 + (k - 1) * LineTokens,
                                     Min({k * LineTokens, Len(ts)}))])]

\* Mutant: the mode is written before the VLANs it is about.
ModeBeforeVlans(c, i) ==
    LET p == c.ports[i] IN
    <<Line("interface", i)>>
    \o (IF p.type = "routed" THEN << >>
        ELSE <<Line("mode", p.mode)>> \o ListVlans(p.allowed)
             \o LineIf(p.access # DefaultVlan, "access", p.access))

BuildConfigInterface(c, i) ==
    LET p == c.ports[i] IN
    <<Line("interface", i)>>
    \o LineIf(i \in c.described, "description", TRUE)
    \o (IF p.type = "routed" THEN << >>
        ELSE LineIf(p.access # DefaultVlan, "access", p.access)
             \o ListVlans(p.allowed) \o <<Line("mode", p.mode)>>)
    \o LineIf(~p.cdp, "no cdp enable", TRUE)

\* Mutant: the first VLAN after VLAN 1 is left out.
VlansFromThree(c) == Ascending(c.vlans \ (DefaultVlans \cup {2, MaxVlan}))

\* VLANs 1 .. MaxVlan - 1, but for the default ones.
SavedVlans(c) == Ascending(c.vlans \ (DefaultVlans \cup {MaxVlan}))

\* The lines for each member of a sequence.
ForEach(members, Lines(_)) == FlattenSeq([k \in DOMAIN members |-> Lines(members[k])])

VlanSection(c, v) ==
    <<Line("vlan", v)>> \o LineIf(v \in c.named, "name", TRUE)

IgmpLines(c) ==
    IF ~c.snooping THEN <<Line("no igmp", 0)>>
    ELSE ForEach(Ascending(c.vlans \ c.snooped), LAMBDA v : <<Line("no igmp", v)>>)

\* get_mac() returns what the bridge has learned, too.
MacLines(c) ==
    ForEach(SetToSeq(c.static \cup c.learned), LAMBDA m : <<Line("mac static", m)>>)

CdpLines(c) ==
    LineIf(~c.cdp.run, "no cdp run", TRUE)
    \o LineIf(c.cdp.timer # "default", "cdp timer", c.cdp.timer)

\* Mutant: CDP is switched off before the lines of its interfaces.
CdpFirst(c) ==
    IgmpLines(c) \o CdpLines(c)
    \o ForEach(SavedVlans(c), LAMBDA v : VlanSection(c, v))
    \o ForEach(SetToSeq(DOMAIN c.ports), LAMBDA i : BuildConfigInterface(c, i))

\* VLAN interfaces, and interfaces with a tag, whose lines go to a file of
\* their own, are left out.
BuildConfigGlobal(c) ==
    LineIf(c.secret, "enable secret 5", TRUE)
    \o IgmpLines(c)
    \o ForEach(SavedVlans(c), LAMBDA v : VlanSection(c, v))
    \o ForEach(SetToSeq(DOMAIN c.ports), LAMBDA i : BuildConfigInterface(c, i))
    \o MacLines(c)
    \o LineIf(c.age # "default", "aging-time", c.age)
    \o CdpLines(c)

-----------------------------------------------------------------------------
(* Loading.                                                                *)

\* parse_vlan_list(): a range that ends in a comma sets its VLANs and is then
\* an error.
Parsed(ts) == {k \in DOMAIN ts : \A j \in 1 .. k - 1 : ts[j][1] = ts[j][2]}
ParseVlanList(ts) == UNION {ts[k][1] .. ts[k][2] : k \in Parsed(ts)}

\* The lines that begin with a space.
SubCommands == {"name", "description", "access", "allowed", "mode", "no cdp enable"}

PortCommand(p, cmd, arg, c, i) ==
    CASE cmd = "access" -> CmdAccVlan(p, arg)
      [] cmd = "allowed" /\ arg.list # << >> ->
            CmdTrunkVlan(p, arg.how, ParseVlanList(arg.list))
      [] cmd = "mode" -> CmdSetMode(p, arg, c)
      [] cmd = "no cdp enable" -> CmdCdpIfSet(p, FALSE, c, i)
      [] OTHER -> p

SubCommand(c, cmd, arg) ==
    CASE c.at[1] = "port" /\ cmd = "description" -> CmdIfDesc(c, c.at[2])
      [] c.at[1] = "port" /\ cmd # "description" ->
            [c EXCEPT !.ports[c.at[2]] = PortCommand(@, cmd, arg, c, c.at[2])]
      [] c.at[1] = "vlan" /\ cmd = "name" -> CmdNameVlan(c, TRUE)
      [] OTHER -> c

MainCommand(c, cmd, arg) ==
    CASE cmd = "vlan" -> CmdVlan(c, arg)
      [] cmd = "interface" -> UseIfEther(c, arg)
      [] cmd = "no igmp" /\ arg = 0 -> SetGlobalIgmp(c, FALSE)
      [] cmd = "no igmp" /\ arg # 0 -> CmdIpIgmpSnooping(c, arg, FALSE)
      [] cmd = "mac static" -> CmdMacStatic(c, arg[1], arg[2])
      [] cmd = "aging-time" -> CmdSetAging(c, arg)
      [] cmd = "no cdp run" -> CmdCdpRun(c, FALSE)
      [] cmd = "cdp timer" -> CmdCdpTimer(c, arg)
      [] cmd = "enable secret 5" -> CmdSetEnPwEncrypted(c)

\* Mutant: the menu is not set back for a line of the main menu.
MenuKept(c, line) ==
    IF line.cmd \in SubCommands THEN SubCommand(c, line.cmd, line.arg)
    ELSE MainCommand(c, line.cmd, line.arg)

\* A line of swcfgload: one that begins with no space starts in the main menu.
LoadedLine(c, line) ==
    IF line.cmd \in SubCommands THEN SubCommand(c, line.cmd, line.arg)
    ELSE MainCommand([c EXCEPT !.at = <<"config">>], line.cmd, line.arg)

-----------------------------------------------------------------------------
Init ==
    /\ live = Boot /\ present = Interfaces
    /\ file = << >> /\ saved = Boot /\ rest = << >>
    /\ phase = "running" /\ commands = 0

\* Mutant: a learned address outlives its device.
FlushedStatic(old, new) ==
    LET stay(ms) == {m \in ms : Device(old, m[1], m[2]) = Device(new, m[1], m[2])}
    IN [new EXCEPT !.static = @ \ (old.static \ stay(old.static))]

\* The kernel forgets an address when its device leaves the bridge.
Flushed(old, new) ==
    LET stay(ms) == {m \in ms : Device(old, m[1], m[2]) = Device(new, m[1], m[2])}
    IN [new EXCEPT !.static = @ \ (old.static \ stay(old.static)),
                   !.learned = stay(@)]

\* An operator gives a command; what it needs of "interface" and "vlan" goes
\* before it, and "end" after it.
Gives(c) ==
    /\ phase # "loading" /\ commands < MaxCommands
    /\ live' = Flushed(live, [c EXCEPT !.at = <<"config">>])
    /\ commands' = commands + 1
    /\ phase' = "running"
    /\ UNCHANGED <<present, file, saved, rest>>

VlanCommand ==
    \E v \in Vlans :
       \/ \E given \in BOOLEAN : Gives(CmdNameVlan(CmdVlan(live, v), given))
       \/ Gives(CmdNoVlan(live, v))
       \/ \E on \in BOOLEAN : Gives(CmdIpIgmpSnooping(live, v, on))

GlobalCommand ==
    \/ \E on \in BOOLEAN : Gives(SetGlobalIgmp(live, on)) \/ Gives(CmdCdpRun(live, on))
    \/ \E t \in {"default", "other"} :
          Gives(CmdCdpTimer(live, t)) \/ Gives(CmdSetAging(live, t))
    \/ Gives(CmdSetEnPw(live)) \/ Gives(CmdNoEnSecret(live))

\* A command of the interface menu gives the interface's record p.
Sets(i, P(_)) ==
    LET c == UseIfEther(live, i) IN Gives([c EXCEPT !.ports[i] = P(@)])

InterfaceCommand ==
    \E i \in present : LET c == UseIfEther(live, i) IN
       \/ \E v \in Vlans : Sets(i, LAMBDA p : CmdAccVlan(p, v))
       \/ \E mode \in {"access", "trunk"} : Sets(i, LAMBDA p : CmdSetMode(p, mode, c))
       \/ Sets(i, LAMBDA p : CmdNoMode(p, c))
       \/ \E how \in {"set", "add", "remove", "except"}, vs \in Lists :
             Sets(i, LAMBDA p : CmdTrunkVlan(p, how, vs))
       \/ \E on \in BOOLEAN : Sets(i, LAMBDA p : CmdCdpIfSet(p, on, c, i))
       \/ Gives(CmdIfDesc(c, i))
       \/ \E down \in BOOLEAN : Gives(CmdShutdown(c, i, down))
       \/ Gives(RemoveIfEther(live, i))
       \/ \E v \in Vlans : Gives(CmdMacStatic(live, i, v))

\* A frame arrives: the bridge learns its source.
Learn ==
    \E i \in present, v \in Vlans :
       /\ Device(live, i, v) # "none" /\ <<i, v>> \notin live.static
       /\ Gives([live EXCEPT !.learned = @ \cup {<<i, v>>}])

WriteMemory ==
    /\ phase = "running"
    /\ file' = BuildConfigGlobal(live) /\ saved' = live
    /\ UNCHANGED <<live, present, rest, phase, commands>>

\* The machine starts, perhaps without one of its interfaces, and swcfgload -m
\* begins.
Restart ==
    /\ phase # "loading" /\ file # << >>
    /\ \E i \in Interfaces : present' \in {Interfaces, Interfaces \ {i}}
    /\ live' = Boot /\ rest' = file /\ phase' = "loading"
    /\ UNCHANGED <<file, saved, commands>>

LoadLine ==
    /\ phase = "loading" /\ rest # << >>
    /\ LET c == Flushed(live, LoadedLine(live, Head(rest))) IN
          live' = IF Len(rest) = 1 THEN [c EXCEPT !.at = <<"config">>] ELSE c
    /\ rest' = Tail(rest)
    /\ phase' = IF Len(rest) = 1 THEN "loaded" ELSE "loading"
    /\ UNCHANGED <<present, file, saved, commands>>

\* The file ends here: the power failed while "write memory" wrote it.  Such a
\* file is read once (bound).
FileEnds ==
    /\ phase = "loading" /\ rest # << >>
    /\ rest' = << >> /\ file' = << >> /\ saved' = Boot
    /\ phase' = "running"
    /\ live' = [live EXCEPT !.at = <<"config">>]
    /\ UNCHANGED <<present, commands>>

Next ==
    \/ VlanCommand \/ GlobalCommand \/ InterfaceCommand \/ Learn
    \/ WriteMemory \/ Restart \/ LoadLine \/ FileEnds

Spec == Init /\ [][Next]_vars

-----------------------------------------------------------------------------
(* Properties.                                                             *)

TypeOK ==
    /\ \A c \in {live, saved} :
          /\ DOMAIN c.ports \subseteq Interfaces
          /\ \A i \in DOMAIN c.ports : c.ports[i] \in Port
          /\ c.named \cup c.snooped \subseteq c.vlans /\ c.vlans \subseteq Vlans
          /\ c.static \cap c.learned = {}
          /\ \A m \in c.static \cup c.learned : Device(c, m[1], m[2]) # "none"
    /\ present \subseteq Interfaces
    /\ phase = "loading" <=> rest # << >>
    /\ commands \in 0 .. MaxCommands

\* At every line of the load, and so also after a load of a file cut short, a
\* trunk carries no VLAN that it did not carry when its configuration was
\* saved: the list is read before the mode.  (A list without VLANs is saved as
\* a line that the menu refuses.)
TrunksNeverWiden ==
    phase # "running" =>
    \A i \in DOMAIN live.ports, v \in Vlans :
       Device(live, i, v) = "tagged" =>
          /\ i \in DOMAIN saved.ports
          /\ Device(saved, i, v) = "tagged" \/ saved.ports[i].allowed = {}

\* After a load, every switched interface that the machine still has is back
\* with its mode, its access VLAN and its CDP setting, and nothing else was
\* made of the lines of an interface that is missing.
PortsSurvive ==
    phase = "loaded" =>
    /\ DOMAIN live.ports = DOMAIN saved.ports \cap present
    /\ \A i \in DOMAIN live.ports :
          LET p == saved.ports[i]  q == live.ports[i] IN
          /\ q.cdp = p.cdp
          /\ p.type = "switched" =>
                q.type = "switched" /\ q.mode = p.mode /\ q.access = p.access

\* After a load, the VLANs and their names are back, those that were saved and
\* the default ones, which are not (cfgbuild.c:312) but are added at every
\* start (switch.c:322-340); only VLAN MaxVlan is lost.
VlansSurvive ==
    phase = "loaded" =>
    /\ live.vlans = saved.vlans \ {MaxVlan}
    /\ live.named = saved.named \ {MaxVlan}

\* What the file can express: see the findings for each of the conditions.
Reloadable(c) ==
    /\ MaxVlan \notin c.vlans
    /\ ~c.snooping /\ c.snooped = c.vlans \ DefaultVlans
    /\ ~c.secret /\ c.learned = {} /\ c.down = {} /\ c.age # "default"
    /\ c.described \subseteq DOMAIN c.ports
    /\ c.cdp.run \/ c.cdp.timer = "default"
    /\ \A i \in DOMAIN c.ports :
          LET p == c.ports[i]  lines == ListVlans(p.allowed) IN
          /\ p.type = "switched" /\ p.allowed # {}
          /\ \A k \in DOMAIN lines :
                Parsed(lines[k].arg.list) = DOMAIN lines[k].arg.list

\* A configuration that the file can express is back after a load, unless an
\* interface is missing.
ReloadRestores ==
    phase = "loaded" /\ Reloadable(saved) /\ present = Interfaces =>
    live = saved
=============================================================================

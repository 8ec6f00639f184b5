-------------------------- MODULE CommandLineProofs --------------------------
(***************************************************************************)
(* Proofs about CommandLine, for any number of sessions, whatever menus    *)
(* they go through.  A session of privilege 1 changes the configuration by *)
(* a reload only: the masks of the menus keep it in the first one, and it  *)
(* never holds a copy of the CDP configuration to write back.  The copy that a session   *)
(* does hold is the configuration as it is, unless two of them overlap.    *)
(* What a menu offers fits its target, and swclid lists who runs.          *)
(***************************************************************************)
EXTENDS CommandLine, TLAPS

Fields == {"root", "types", "target", "ctrlZ", "removed", "busy"}

\* Contexts are functions of the fields of struct cli_context that count.
Shaped ==
    /\ session = [s \in Sessions |-> session[s]]
    /\ \A s \in Sessions : /\ session[s] = [f \in Fields |-> session[s][f]]
                           /\ session[s].types \subseteq Types

Low == {s \in Sessions : Level(s) = 1}

LowStays ==
    /\ changed \subseteq {"reload"}
    /\ \A s \in Low : /\ session[s].root \in {"none", "login", "exec"}
                      /\ session[s].busy = NoCommand

Inv == Shaped /\ LowStays

\* What privilege 1 runs in the first menu: it shows, moves nowhere, ends the
\* session, or starts the machine again.
Reading ==
    {"cmd_enable", "cmd_quit", "cmd_help", "cmd_ping", "cmd_reload", "cmd_trace",
     "cmd_sh_cdp", "cmd_sh_cdp_entry", "cmd_sh_clock", "cmd_sh_cdp_holdtime",
     "cmd_sh_cdp_run", "cmd_sh_cdp_timer", "cmd_sh_cdp_traffic", "cmd_sh_cdp_int",
     "cmd_sh_cdp_ne", "cmd_history", "cmd_sh_int", "cmd_sh_ip", "cmd_sh_ip_igmps",
     "cmd_sh_ip_igmps_mrouter", "cmd_sh_ip_igmps_groups", "cmd_sh_mac_addr_t",
     "cmd_sh_mac_age", "cmd_show_start", "cmd_show_ver", "cmd_show_vlan",
     "swcli_output_modifiers_run"}

-----------------------------------------------------------------------------
(* The masks of the first menu.                                            *)

\* An entry that privilege 1 may run is one of those.
Reads(e) == e.priv <= 1 => e.run \in Reading

\* The subtrees that several menus share have no others.
LEMMA SubtreesRead ==
    \A e \in NeighborDetail \cup IgmpGroups \cup OutputModifiers \cup ClearMacAddrT
             \cup ShowMacAddrT : Reads(e)
<1>1. \A e \in NeighborDetail \cup IgmpGroups \cup OutputModifiers : Reads(e)
  BY DEF NeighborDetail, IgmpGroups, OutputModifiers, Runs, RunsFor, Reads, Reading
<1>2. \A e \in ClearMacAddrT : Reads(e)
  BY DEF ClearMacAddrT, Address, IfEther, IfNetdev, Vlan, Runs, RunsFor, With, Reads
<1>3. \A e \in ShowMacAddrT : Reads(e)
  BY <1>1 DEF ShowMacAddrT, Address, IfEther, IfNetdev, Vlan, Runs, RunsFor, With, Reads,
              Reading
<1>4. QED
  BY <1>1, <1>2, <1>3

\* The first menu offers privilege 1 no command on the configuration
\* (menu/exec.c:135-1021).
LEMMA MainReads == \A e \in MenuMain : Reads(e)
<1>1. \A e \in ExecClear \cup ExecShell : Reads(e)
  BY SubtreesRead DEF ExecClear, ExecShell, Runs, RunsFor, Reads, Reading
<1>2. \A e \in ShowCdpEntry \cup ShowVlan \cup ExecWrite : Reads(e)
  BY SubtreesRead DEF ShowCdpEntry, ShowVlan, ExecWrite, Runs, RunsFor, Reads, Reading
<1>3. \A e \in ShowCdp : Reads(e)
  BY SubtreesRead DEF ShowCdp, IfEther, IfNetdev, Runs, RunsFor, With, Reads, Reading
<1>4. \A e \in ShowIp : Reads(e)
  BY SubtreesRead DEF ShowIp, IfEther, IfNetdev, IfVlan, Runs, RunsFor, With, Reads, Reading
<1>5. \A e \in ShowRunning : Reads(e)
  BY SubtreesRead
  DEF ShowRunning, IfEther, IfNetdev, IfVlan, Runs, RunsFor, With, Reads, Reading
<1>6. QED
  BY <1>1, <1>2, <1>3, <1>4, <1>5 DEF MenuMain

\* What is offered to a session of privilege 1 is one of them, and in the first menu.
LEMMA OfferedReads ==
    ASSUME Inv, NEW s \in Low, NEW h, NEW args, Offers(s, h, args)
    PROVE  h \in Reading /\ session[s].root = "exec"
<1>1. session[s].root = "exec"
  BY DEF Inv, LowStays, Offers, MenuOf
<1>2. session[s].types \in SUBSET Types /\ Level(s) = 1
  BY DEF Inv, Shaped, Low
<1>3. PICK a \in args : <<h, a>> \in Offered["exec"][1][session[s].types]
  BY <1>1, <1>2 DEF Offers
<1>4. Offered["exec"][1][session[s].types] =
        {<<e.run, e.arg>> : e \in {f \in MenuMain : Permitted(f, 1, session[s].types)}}
  <2>1. DOMAIN MenuOf = {"exec", "config", "config-if", "config-vlan", "config-line"}
    BY DEF MenuOf
  <2>2. MenuOf["exec"] = MenuMain
    BY Zenon DEF MenuOf
  <2> DEFINE Runnable(level, types) ==
               {<<e.run, e.arg>> : e \in {f \in MenuOf["exec"] : Permitted(f, level, types)}}
  <2>3. Offered["exec"] = [level \in 1 .. 15 |-> [types \in SUBSET Types |->
                             Runnable(level, types)]]
    BY <2>1 DEF Offered
  <2>4. Offered["exec"][1] = [types \in SUBSET Types |-> Runnable(1, types)]
    BY <2>3
  <2>5. Offered["exec"][1][session[s].types] = Runnable(1, session[s].types)
    BY <1>2, <2>4
  <2>6. QED
    BY <2>2, <2>5
<1>5. PICK e \in MenuMain : Permitted(e, 1, session[s].types) /\ <<h, a>> = <<e.run, e.arg>>
  BY <1>3, <1>4
<1>6. QED
  BY <1>1, <1>5, MainReads DEF Permitted, Reads

-----------------------------------------------------------------------------
(* Every action keeps the invariant.                                       *)

\* A step of s alone.
Alone(s) == Shaped' /\ \A t \in Sessions \ {s} : session'[t] = session[t]

\* A new connection touches its own session only.
LEMMA NewContext ==
    ASSUME Shaped, NEW s \in Sessions, NEW c,
           session' = [session EXCEPT ![s] = c],
           c = [f \in Fields |-> c[f]], c.types \subseteq Types
    PROVE  Alone(s) /\ session'[s] = c
BY DEF Shaped, Alone

\* A move to another menu touches the root of its own session only.
LEMMA ToMenu ==
    ASSUME Shaped, NEW s \in Sessions, NEW root, NEW ctrlZ,
           \/ session' = [session EXCEPT ![s].root = root]
           \/ session' = [session EXCEPT ![s].root = root, ![s].ctrlZ = ctrlZ]
    PROVE  /\ Alone(s) /\ session'[s].root = root
           /\ session'[s].busy = session[s].busy
<1> DEFINE c1 == [session[s] EXCEPT !.root = root]
           c2 == [c1 EXCEPT !.ctrlZ = ctrlZ]
<1>1. /\ c1 = [f \in Fields |-> c1[f]] /\ c1.types \subseteq Types
      /\ c1.root = root /\ c1.busy = session[s].busy
  BY DEF Shaped, Fields
<1>2. /\ c2 = [f \in Fields |-> c2[f]] /\ c2.types \subseteq Types
      /\ c2.root = root /\ c2.busy = session[s].busy
  BY <1>1 DEF Shaped, Fields
<1>3. session' = [session EXCEPT ![s] = c1] \/ session' = [session EXCEPT ![s] = c2]
  BY DEF Shaped
<1> HIDE DEF c1, c2
<1>4. QED
  BY <1>1, <1>2, <1>3, NewContext

\* Entering the menu of an interface or a VLAN touches its own session only.
LEMMA BecomesKeeps ==
    ASSUME Shaped, NEW s \in Sessions, NEW root, NEW types \in SUBSET Types, NEW target,
           Becomes(s, root, types, target)
    PROVE  /\ Alone(s) /\ session'[s].root = root
           /\ session'[s].busy = session[s].busy
<1> DEFINE c == [session[s] EXCEPT !.root = root, !.types = types, !.target = target,
                                   !.removed = FALSE]
<1>1. /\ c = [f \in Fields |-> c[f]] /\ c.types \subseteq Types
      /\ c.root = root /\ c.busy = session[s].busy
  BY DEF Shaped, Fields
<1>2. session' = [session EXCEPT ![s] = c]
  BY DEF Becomes, Shaped
<1> HIDE DEF c
<1>3. QED
  BY <1>1, <1>2, NewContext

\* What a command remembers between its steps is its own session's.
LEMMA BusyKeeps ==
    ASSUME Shaped, NEW s \in Sessions, NEW busy,
           session' = [session EXCEPT ![s].busy = busy]
    PROVE  Alone(s)
<1> DEFINE c == [session[s] EXCEPT !.busy = busy]
<1>1. c = [f \in Fields |-> c[f]] /\ c.types \subseteq Types
  BY DEF Shaped, Fields
<1>2. session' = [session EXCEPT ![s] = c]
  BY DEF Shaped
<1> HIDE DEF c
<1>3. QED
  BY <1>1, <1>2, NewContext

\* The end of a session touches that session only.
LEMMA OffKeeps ==
    ASSUME Shaped, NEW s \in Sessions, session' = [session EXCEPT ![s] = Off]
    PROVE  Alone(s) /\ session'[s] = Off
<1>1. Off = [f \in Fields |-> Off[f]] /\ Off.types \subseteq Types
  BY DEF Off, Fields
<1>2. QED
  BY <1>1, NewContext

\* A session that is not of privilege 1 may do what it likes with its own
\* context and the configuration.
LEMMA HighMoves ==
    ASSUME Inv, NEW s \in Sessions \ Low, Alone(s), UNCHANGED changed \/ Marks(s, "command")
    PROVE  Inv'
BY DEF Inv, LowStays, Low, Level, Alone, Marks

\* One of privilege 1 stays where it may be.
LEMMA LowMoves ==
    ASSUME Inv, NEW s \in Sessions, Alone(s), UNCHANGED changed,
           session'[s].root \in {"none", "login", "exec"},
           session'[s].busy \in {session[s].busy, NoCommand}
    PROVE  Inv'
BY DEF Inv, LowStays, Low, Level, Alone

\* A handler that does more than read is not run at privilege 1.
LEMMA NotOffered ==
    ASSUME Inv, NEW s \in Sessions, NEW h, NEW args, Offers(s, h, args), h \notin Reading
    PROVE  s \notin Low
BY OfferedReads

\* Moves between menus keep privilege 1 in the first menu.
LEMMA MovesKeep ==
    ASSUME Inv, NEW s \in Sessions, Moves(s)
    PROVE  Inv'
<1> USE DEF Inv
<1>1. CASE Start(s)
  <2>1. /\ Alone(s) /\ session'[s].root = "exec"
        /\ session'[s].busy = session[s].busy /\ UNCHANGED changed
    BY <1>1, ToMenu DEF Start
  <2>2. QED
    BY <2>1, LowMoves
<1>2. CASE CmdConfT(s)
  <2>1. s \notin Low
    BY <1>2, NotOffered DEF CmdConfT, Reading
  <2>2. Alone(s) /\ UNCHANGED changed
    BY <1>2, ToMenu DEF CmdConfT
  <2>3. QED
    BY <2>1, <2>2, HighMoves
<1>3. CASE CmdEnd(s) \/ CmdExit(s)
  <2>1. s \notin Low
    BY <1>3, NotOffered DEF CmdEnd, CmdExit, Reading
  <2>2. Alone(s) /\ UNCHANGED changed
    BY <1>3, BecomesKeeps DEF CmdEnd, CmdExit
  <2>3. QED
    BY <2>1, <2>2, HighMoves
<1>4. CASE CtrlZ(s)
  <2>1. session[s].types \in SUBSET Types
    BY DEF Shaped
  <2>2. /\ Alone(s) /\ session'[s].root = "exec"
        /\ session'[s].busy = session[s].busy /\ UNCHANGED changed
    BY <1>4, <2>1, BecomesKeeps DEF CtrlZ
  <2>3. QED
    BY <2>2, LowMoves
<1>5. CASE CmdLineVty(s)
  <2>1. s \notin Low
    BY <1>5, NotOffered DEF CmdLineVty, Reading
  <2>2. Alone(s) /\ UNCHANGED changed
    BY <1>5, ToMenu DEF CmdLineVty
  <2>3. QED
    BY <2>1, <2>2, HighMoves
<1>6. ASSUME NEW v \in Vlans, CmdVlan(s, v)
      PROVE  Inv'
  <2>1. s \notin Low
    BY <1>6, NotOffered DEF CmdVlan, Reading
  <2>2. session[s].types \in SUBSET Types
    BY DEF Shaped
  <2>3. Alone(s) /\ (UNCHANGED changed \/ Marks(s, "command"))
    BY <1>6, <2>2, BecomesKeeps DEF CmdVlan
  <2>4. QED
    BY <2>1, <2>3, HighMoves
<1>7. ASSUME NEW v \in Vlans, UseIfVlan(s, v)
      PROVE  Inv'
  <2>1. s \notin Low
    BY <1>7, NotOffered DEF UseIfVlan, Reading
  <2>2. Alone(s) /\ (UNCHANGED changed \/ Marks(s, "command"))
    BY <1>7, BecomesKeeps DEF UseIfVlan, Types
  <2>3. QED
    BY <2>1, <2>2, HighMoves
<1>8. ASSUME NEW i \in Interfaces, UseIfEther(s, i)
      PROVE  Inv'
  <2>1. s \notin Low
    BY <1>8, NotOffered DEF UseIfEther, Reading
  <2>2. Alone(s) /\ (UNCHANGED changed \/ Marks(s, "command"))
    BY <1>8, BecomesKeeps DEF UseIfEther, Types
  <2>3. QED
    BY <2>1, <2>2, HighMoves
<1>9. ASSUME NEW i \in Interfaces, RemoveIfEther(s, i)
      PROVE  Inv'
  <2>1. s \notin Low /\ (UNCHANGED changed \/ Marks(s, "command"))
    BY <1>9, NotOffered DEF RemoveIfEther, Reading
  <2>2. \A t \in Sessions : session'[t] \in {session[t], [session[t] EXCEPT !.removed = TRUE]}
    BY <1>9 DEF RemoveIfEther
  <2>3. Shaped'
    <3>1. session' = [t \in Sessions |-> session'[t]]
      BY <1>9 DEF RemoveIfEther
    <3>2. QED
      BY <2>2, <3>1 DEF Shaped, Fields
  <2>4. \A t \in Sessions : session'[t].root = session[t].root /\ session'[t].busy = session[t].busy
    BY <2>2 DEF Shaped, Fields
  <2>5. QED
    BY <2>1, <2>3, <2>4 DEF LowStays, Low, Level, Marks
<1>10. CASE RemoveIfVlan(s)
  <2>1. s \notin Low
    BY <1>10, NotOffered DEF RemoveIfVlan, Reading
  <2>2. Alone(s) /\ (UNCHANGED changed \/ Marks(s, "command"))
    BY <1>10 DEF RemoveIfVlan, Alone, Shaped
  <2>3. QED
    BY <2>1, <2>2, HighMoves
<1>11. QED
  BY <1>1, <1>2, <1>3, <1>4, <1>5, <1>6, <1>7, <1>8, <1>9, <1>10 DEF Moves

\* Commands that change something are not run at privilege 1.
LEMMA ChangesKeep ==
    ASSUME Inv, NEW s \in Sessions, Changes(s)
    PROVE  Inv'
<1> USE DEF Inv
<1>1. ASSUME s \notin Low, UNCHANGED session, (UNCHANGED changed \/ Marks(s, "command"))
      PROVE  Inv'
  BY <1>1, HighMoves DEF Alone, Shaped
<1>2. CASE CmdGlobal(s)
  <2>1. s \notin Low
    BY <1>2, NotOffered DEF CmdGlobal, GlobalHandlers, Reading
  <2>2. QED
    BY <1>1, <1>2, <2>1 DEF CmdGlobal
<1>3. CASE CmdPort(s)
  <2>1. s \notin Low
    BY <1>3, NotOffered DEF CmdPort, PortHandlers, Reading
  <2>2. QED
    BY <1>1, <1>3, <2>1 DEF CmdPort
<1>4. CASE CmdNameVlan(s)
  <2>1. s \notin Low
    BY <1>4, NotOffered DEF CmdNameVlan, Reading
  <2>2. QED
    BY <1>1, <1>4, <2>1 DEF CmdNameVlan
<1>5. CASE CmdWriteMem(s)
  <2>1. s \notin Low
    BY <1>5, NotOffered DEF CmdWriteMem, Reading
  <2>2. QED
    BY <1>1, <1>5, <2>1 DEF CmdWriteMem
<1>6. CASE CmdReload(s)
  <2>1. Off = [f \in Fields |-> Off[f]] /\ Off.types \subseteq Types
    BY DEF Off, Fields
  <2>2. QED
    BY <1>6, <2>1 DEF CmdReload, Marks, Shaped, LowStays, Low, Level, Off
<1>7. ASSUME NEW c \in CdpChange, ReadsCdp(s, c)
      PROVE  Inv'
  <2>1. c[1] \in {"cmd_cdp_run", "cmd_cdp_v2", "cmd_cdp_holdtime", "cmd_cdp_timer"}
    BY DEF CdpChange
  <2>2. s \notin Low
    BY <1>7, <2>1, NotOffered DEF ReadsCdp, Reading
  <2>3. Alone(s) /\ UNCHANGED changed
    BY <1>7, BusyKeeps DEF ReadsCdp
  <2>4. QED
    BY <2>2, <2>3, HighMoves
<1>8. CASE WritesCdp(s)
  <2>1. s \notin Low
    BY <1>8 DEF WritesCdp, LowStays
  <2>2. Alone(s) /\ (UNCHANGED changed \/ Marks(s, "command"))
    BY <1>8, BusyKeeps DEF WritesCdp
  <2>3. QED
    BY <2>1, <2>2, HighMoves
<1>9. QED
  BY <1>2, <1>3, <1>4, <1>5, <1>6, <1>7, <1>8 DEF Changes

\* What ends is Off.
LEMMA EndsKeep ==
    ASSUME Inv, NEW s \in Sessions, Ends(s)
    PROVE  Inv'
<1>1. session' = [session EXCEPT ![s] = Off] /\ UNCHANGED changed
  BY DEF Ends
<1>2. Alone(s) /\ session'[s] = Off
  BY <1>1, OffKeeps DEF Inv
<1>3. session'[s].root = "none" /\ session'[s].busy = NoCommand
  BY <1>2 DEF Off
<1>4. QED
  BY <1>1, <1>2, <1>3, LowMoves

\* swclid changes no session but by starting one at privilege 1.
LEMMA TelnetKeeps ==
    ASSUME Inv, NEW t \in Telnets, Telnet(t)
    PROVE  Inv'
<1>1. t \in Sessions
  BY DEF Sessions
<1>2. CASE CreateTelnetConn(t) \/ Login(t)
  <2>1. /\ Alone(t) /\ session'[t].root \in {"login", "exec"}
        /\ session'[t].busy = session[t].busy /\ UNCHANGED changed
    BY <1>1, <1>2, ToMenu DEF CreateTelnetConn, Login, Inv
  <2>2. QED
    BY <1>1, <2>1, LowMoves
<1>3. CASE LoginFails(t)
  BY <1>1, <1>3, EndsKeep DEF LoginFails
<1>4. QED
  BY <1>2, <1>3 DEF Telnet

-----------------------------------------------------------------------------
(* One command on the CDP configuration at a time.                         *)

CdpConfig == [run : BOOLEAN, version : {1, 2}, holdtime : 0 .. 255, timer : 0 .. 255]

Busy(s) == session[s].busy # NoCommand

\* While no two commands overlapped, the one under way, if there is one, has
\* read the configuration that is there.
OneAtATime ==
    overlapped \/
       /\ cdp = meant /\ cdp \in CdpConfig
       /\ \A s \in Sessions : Busy(s) =>
             /\ \E c \in CdpChange : session[s].busy = <<c, cdp>>
             /\ \A t \in Sessions : Busy(t) => t = s

\* No command is begun, and the configuration stays.
Idle == /\ UNCHANGED cdpVars
        /\ \A t \in Sessions : session'[t].busy \in {session[t].busy, NoCommand}

\* Where no session is in the middle of a change, the copies are as they were.
LEMMA IdleKeeps == ASSUME OneAtATime, Idle PROVE OneAtATime'
BY DEF OneAtATime, Idle, Busy, cdpVars

\* Moving between menus begins no command.
LEMMA MovesIdle ==
    ASSUME Inv, NEW s \in Sessions, Moves(s)
    PROVE  Idle
<1> USE DEF Inv
<1>1. session[s].types \in SUBSET Types
  BY DEF Shaped
<1>2. CASE Start(s) \/ CmdConfT(s) \/ CmdLineVty(s)
  BY <1>2, ToMenu DEF Start, CmdConfT, CmdLineVty, Alone, Idle
<1>3. CASE CmdEnd(s) \/ CmdExit(s) \/ CtrlZ(s)
  BY <1>1, <1>3, BecomesKeeps DEF CmdEnd, CmdExit, CtrlZ, Alone, Idle
<1>4. CASE \E v \in Vlans : CmdVlan(s, v) \/ UseIfVlan(s, v)
  BY <1>1, <1>4, BecomesKeeps DEF CmdVlan, UseIfVlan, Alone, Idle, Types
<1>5. ASSUME NEW i \in Interfaces, UseIfEther(s, i)
      PROVE  Idle
  BY <1>5, BecomesKeeps DEF UseIfEther, Alone, Idle, Types
<1>6. ASSUME NEW i \in Interfaces, RemoveIfEther(s, i)
      PROVE  Idle
  <2>1. \A t \in Sessions : session'[t] \in {session[t], [session[t] EXCEPT !.removed = TRUE]}
    BY <1>6 DEF RemoveIfEther
  <2>2. QED
    BY <1>6, <2>1 DEF RemoveIfEther, Idle, Shaped, Fields
<1>7. CASE RemoveIfVlan(s)
  BY <1>7 DEF RemoveIfVlan, Idle
<1>8. QED
  BY <1>2, <1>3, <1>4, <1>5, <1>6, <1>7 DEF Moves

\* A command that begins while another is under way has overlapped it.
LEMMA ReadsKeeps ==
    ASSUME Inv, OneAtATime, NEW s \in Sessions, NEW c \in CdpChange, ReadsCdp(s, c)
    PROVE  OneAtATime'
<1>1. CASE overlapped'
  BY <1>1 DEF OneAtATime
<1>2. CASE ~overlapped'
  <2>1. ~overlapped /\ \A t \in Sessions : ~Busy(t)
    BY <1>2 DEF ReadsCdp, Busy
  <2>2. \A t \in Sessions \ {s} : session'[t] = session[t]
    BY BusyKeeps DEF ReadsCdp, Inv, Alone
  <2>3. session'[s].busy = <<c, cdp>>
    BY DEF ReadsCdp, Inv, Shaped, Fields
  <2>4. UNCHANGED <<cdp, meant>>
    BY DEF ReadsCdp
  <2>5. QED
    BY <2>1, <2>2, <2>3, <2>4 DEF OneAtATime, Busy
<1>3. QED
  BY <1>1, <1>2

\* Written back as a byte, a number within the limits of its command is what
\* was typed.
LEMMA BytesSuffice ==
    ASSUME NEW old \in CdpConfig, NEW c \in CdpChange
    PROVE  LET new == [old EXCEPT ![c[2]] = c[3]] IN
           /\ new \in CdpConfig
           /\ [new EXCEPT !.holdtime = @ % 256, !.timer = @ % 256] = new
<1> DEFINE new == [old EXCEPT ![c[2]] = c[3]]
<1>1. /\ c[2] \in {"run", "version", "holdtime", "timer"}
      /\ c[2] = "run" => c[3] \in BOOLEAN
      /\ c[2] = "version" => c[3] \in {1, 2}
      /\ c[2] \in {"holdtime", "timer"} => c[3] \in 0 .. 255
  BY DEF CdpChange, HoldtimeLimits, TimerLimits
<1>2. new \in CdpConfig
  BY <1>1 DEF CdpConfig
<1> HIDE DEF new
<1>3. \A n \in 0 .. 255 : n % 256 = n
  OBVIOUS
<1>4. [new EXCEPT !.holdtime = @ % 256, !.timer = @ % 256] = new
  <2>1. /\ new = [f \in {"run", "version", "holdtime", "timer"} |-> new[f]]
        /\ new.holdtime \in 0 .. 255 /\ new.timer \in 0 .. 255
    BY <1>2 DEF CdpConfig
  <2>2. new.holdtime % 256 = new.holdtime /\ new.timer % 256 = new.timer
    BY <2>1, <1>3
  <2>3. QED
    BY <2>1, <2>2
<1>5. QED
  BY <1>2, <1>4 DEF new

\* A command writes back the copy it read, which nobody changed since.
LEMMA WritesKeeps ==
    ASSUME Inv, OneAtATime, NEW s \in Sessions, WritesCdp(s)
    PROVE  OneAtATime'
<1>1. CASE overlapped
  BY <1>1 DEF WritesCdp, OneAtATime
<1>2. CASE ~overlapped
  <2>1. PICK c \in CdpChange : session[s].busy = <<c, cdp>>
    BY <1>2 DEF OneAtATime, WritesCdp, Busy
  <2>2. cdp = meant /\ cdp \in CdpConfig
    BY <1>2 DEF OneAtATime
  <2>3. cdp' = meant' /\ cdp' \in CdpConfig
    <3>1. CASE cdp.run \/ c[2] = "run"
      <4> DEFINE new == [cdp EXCEPT ![c[2]] = c[3]]
      <4>1. new \in CdpConfig /\ [new EXCEPT !.holdtime = @ % 256, !.timer = @ % 256] = new
        BY <2>2, BytesSuffice
      <4>2. Stored(cdp, c) = new
        BY <3>1 DEF Stored
      <4>3. /\ cdp' = [Stored(cdp, c) EXCEPT !.holdtime = @ % 256, !.timer = @ % 256]
            /\ meant' = [meant EXCEPT ![c[2]] = c[3]]
        BY <2>1, <3>1 DEF WritesCdp
      <4> HIDE DEF new
      <4>4. cdp' = new
        BY <4>1, <4>2, <4>3
      <4>5. meant' = new
        BY <2>2, <4>3 DEF new
      <4>6. QED
        BY <4>1, <4>4, <4>5
    <3>2. CASE ~(cdp.run \/ c[2] = "run")
      BY <2>1, <2>2, <3>2 DEF WritesCdp
    <3>3. QED
      BY <3>1, <3>2
  <2>4. \A t \in Sessions : ~Busy(t)'
    <3>1. \A t \in Sessions \ {s} : session'[t] = session[t] /\ ~Busy(t)
      BY <1>2, BusyKeeps DEF WritesCdp, Inv, Alone, OneAtATime, Busy
    <3>2. session'[s].busy = NoCommand
      BY DEF WritesCdp, Inv, Shaped, Fields
    <3>3. QED
      BY <3>1, <3>2 DEF Busy
  <2>5. QED
    BY <2>3, <2>4 DEF OneAtATime
<1>3. QED
  BY <1>1, <1>2

\* One change at a time keeps the copy current.
LEMMA ChangesInTurn ==
    ASSUME Inv, OneAtATime, NEW s \in Sessions, Changes(s)
    PROVE  OneAtATime'
<1>1. CASE CmdGlobal(s) \/ CmdPort(s) \/ CmdNameVlan(s) \/ CmdWriteMem(s)
  BY <1>1, IdleKeeps DEF CmdGlobal, CmdPort, CmdNameVlan, CmdWriteMem, Idle
<1>2. CASE CmdReload(s)
  <2>1. DefaultCdp \in CdpConfig
    BY DEF DefaultCdp, CdpConfig
  <2>2. \A t \in Sessions : ~Busy(t)'
    BY <1>2 DEF CmdReload, Off, Busy
  <2>3. QED
    BY <1>2, <2>1, <2>2 DEF CmdReload, OneAtATime
<1>3. CASE \E c \in CdpChange : ReadsCdp(s, c)
  BY <1>3, ReadsKeeps
<1>4. CASE WritesCdp(s)
  BY <1>4, WritesKeeps
<1>5. QED
  BY <1>1, <1>2, <1>3, <1>4 DEF Changes

\* Ending a session changes nothing of the CDP configuration.
LEMMA EndsIdle == ASSUME Inv, NEW s \in Sessions, Ends(s) PROVE Idle
<1>1. Alone(s) /\ session'[s] = Off /\ UNCHANGED cdpVars
  BY OffKeeps DEF Ends, Inv
<1>2. QED
  BY <1>1 DEF Idle, Alone, Off

\* Telnet connections change nothing of the CDP configuration.
LEMMA TelnetIdle == ASSUME Inv, NEW t \in Telnets, Telnet(t) PROVE Idle
<1>1. t \in Sessions
  BY DEF Sessions
<1>2. CASE CreateTelnetConn(t) \/ Login(t)
  BY <1>1, <1>2, ToMenu DEF CreateTelnetConn, Login, Inv, Idle, Alone
<1>3. CASE LoginFails(t)
  BY <1>1, <1>3, EndsIdle DEF LoginFails
<1>4. QED
  BY <1>2, <1>3 DEF Telnet

-----------------------------------------------------------------------------
(* What a session configures.                                              *)

\* A context in the menu of an interface or a VLAN fits its target.
Fits(c, records) ==
    /\ c.root = "config-if" =>
          \/ c.types = {"vif"} /\ c.target[1] = "vif"
          \/ /\ c.types = {"switched"}
             /\ \E i : c.target = <<"if", i>> /\ (c.removed \/ i \in records)
    /\ c.root = "config-vlan" => c.target[1] = "vlan"

AllFit == \A s \in Sessions : Fits(session[s], ports)

\* A session that moves alone, to a context that fits, disturbs no other.
LEMMA FitsAlone ==
    ASSUME AllFit, NEW s \in Sessions, Alone(s), ports \subseteq ports',
           Fits(session'[s], ports')
    PROVE  AllFit'
BY DEF AllFit, Alone, Fits

\* Neither do the fields that have no part in it.
LEMMA FitsSame ==
    ASSUME AllFit, UNCHANGED ports,
           \A t \in Sessions : /\ session'[t].root = session[t].root
                               /\ session'[t].types = session[t].types
                               /\ session'[t].target = session[t].target
                               /\ session'[t].removed = session[t].removed
    PROVE  AllFit'
BY DEF AllFit, Fits

\* Entering a menu sets its target, and the record is there.
LEMMA EntersFit ==
    ASSUME Inv, AllFit, NEW s \in Sessions, NEW root, NEW types \in SUBSET Types, NEW target,
           Becomes(s, root, types, target), ports \subseteq ports',
           \/ root \notin {"config-if", "config-vlan"}
           \/ root = "config-vlan" /\ target[1] = "vlan"
           \/ root = "config-if" /\ types = {"vif"} /\ target[1] = "vif"
           \/ root = "config-if" /\ types = {"switched"} /\ \E i \in ports' : target = <<"if", i>>
    PROVE  AllFit'
<1>1. Alone(s)
  BY BecomesKeeps DEF Inv
<1>2. /\ session'[s].root = root /\ session'[s].types = types
      /\ session'[s].target = target
  BY DEF Becomes, Inv, Shaped, Fields
<1>3. Fits(session'[s], ports')
  BY <1>2 DEF Fits
<1>4. QED
  BY <1>1, <1>3, FitsAlone

\* Every move between menus sets the filter that its menu goes with.
LEMMA MovesFit ==
    ASSUME Inv, AllFit, NEW s \in Sessions, Moves(s)
    PROVE  AllFit'
<1>1. session[s].types \in SUBSET Types
  BY DEF Inv, Shaped
<1>2. CASE Start(s) \/ CmdConfT(s) \/ CmdLineVty(s)
  <2>1. Alone(s) /\ session'[s].root \in {"exec", "config", "config-line"} /\ UNCHANGED ports
    BY <1>2, ToMenu DEF Start, CmdConfT, CmdLineVty, Inv
  <2>2. Fits(session'[s], ports')
    BY <2>1 DEF Fits
  <2>3. QED
    BY <2>1, <2>2, FitsAlone
<1>3. CASE CmdEnd(s) \/ CmdExit(s) \/ CtrlZ(s)
  <2>1. \E root \in {"exec", "config"} : \E types \in SUBSET Types :
           Becomes(s, root, types, NoTarget) /\ UNCHANGED ports
    BY <1>1, <1>3 DEF CmdEnd, CmdExit, CtrlZ
  <2>2. QED
    BY <2>1, EntersFit
<1>4. ASSUME NEW v \in Vlans, CmdVlan(s, v)
      PROVE  AllFit'
  <2>1. Becomes(s, "config-vlan", session[s].types, <<"vlan", v>>) /\ UNCHANGED ports
    BY <1>4 DEF CmdVlan
  <2>2. QED
    BY <1>1, <2>1, EntersFit
<1>5. ASSUME NEW v \in Vlans, UseIfVlan(s, v)
      PROVE  AllFit'
  <2>1. Becomes(s, "config-if", {"vif"}, <<"vif", v>>) /\ UNCHANGED ports
    BY <1>5 DEF UseIfVlan
  <2>2. {"vif"} \in SUBSET Types
    BY DEF Types
  <2>3. QED
    BY <2>1, <2>2, EntersFit
<1>6. ASSUME NEW i \in Interfaces, UseIfEther(s, i)
      PROVE  AllFit'
  <2>1. /\ Becomes(s, "config-if", {"switched"}, <<"if", i>>)
        /\ ports \subseteq ports' /\ i \in ports'
    BY <1>6 DEF UseIfEther
  <2>2. {"switched"} \in SUBSET Types
    BY DEF Types
  <2>3. QED
    BY <2>1, <2>2, EntersFit
<1>7. ASSUME NEW i \in Interfaces, RemoveIfEther(s, i)
      PROVE  AllFit'
  <2>1. ports' = ports \ {i}
    BY <1>7 DEF RemoveIfEther
  <2> SUFFICES ASSUME NEW t \in Sessions PROVE Fits(session'[t], ports')
    BY DEF AllFit
  <2>2. CASE session[t].target = <<"if", i>>
    <3>1. session'[t] = [session[t] EXCEPT !.removed = TRUE]
      BY <1>7, <2>2 DEF RemoveIfEther
    <3>2. /\ session'[t].root = session[t].root /\ session'[t].types = session[t].types
          /\ session'[t].target = session[t].target /\ session'[t].removed
      BY <3>1 DEF Inv, Shaped, Fields
    <3>3. QED
      BY <3>2 DEF AllFit, Fits
  <2>3. CASE session[t].target # <<"if", i>>
    <3>1. session'[t] = session[t]
      BY <1>7, <2>3 DEF RemoveIfEther
    <3>2. QED
      BY <2>1, <2>3, <3>1 DEF AllFit, Fits
  <2>4. QED
    BY <2>2, <2>3
<1>8. CASE RemoveIfVlan(s)
  BY <1>8 DEF RemoveIfVlan, AllFit
<1>9. QED
  BY <1>2, <1>3, <1>4, <1>5, <1>6, <1>7, <1>8 DEF Moves

\* Changes leave the menus alone; the removal of an interface is noted.
LEMMA ChangesFit ==
    ASSUME Inv, AllFit, NEW s \in Sessions, Changes(s)
    PROVE  AllFit'
<1>1. CASE CmdGlobal(s) \/ CmdPort(s) \/ CmdNameVlan(s) \/ CmdWriteMem(s)
  BY <1>1, FitsSame DEF CmdGlobal, CmdPort, CmdNameVlan, CmdWriteMem
<1>2. CASE CmdReload(s)
  BY <1>2 DEF CmdReload, Off, AllFit, Fits
<1>3. CASE (\E c \in CdpChange : ReadsCdp(s, c)) \/ WritesCdp(s)
  <2>1. PICK busy : session' = [session EXCEPT ![s].busy = busy] /\ UNCHANGED ports
    BY <1>3 DEF ReadsCdp, WritesCdp
  <2>2. QED
    BY <2>1, FitsSame DEF Inv, Shaped, Fields
<1>4. QED
  BY <1>1, <1>2, <1>3 DEF Changes

\* A session that ended configures nothing.
LEMMA EndsFit == ASSUME Inv, AllFit, NEW s \in Sessions, Ends(s) PROVE AllFit'
<1>1. Alone(s) /\ session'[s] = Off /\ UNCHANGED ports
  BY OffKeeps DEF Ends, Inv
<1>2. Fits(session'[s], ports')
  BY <1>1 DEF Off, Fits
<1>3. QED
  BY <1>1, <1>2, FitsAlone

\* A new session starts in the first menu.
LEMMA TelnetFits == ASSUME Inv, AllFit, NEW t \in Telnets, Telnet(t) PROVE AllFit'
<1>1. t \in Sessions
  BY DEF Sessions
<1>2. CASE CreateTelnetConn(t) \/ Login(t)
  <2>1. Alone(t) /\ session'[t].root \in {"login", "exec"} /\ UNCHANGED ports
    BY <1>1, <1>2, ToMenu DEF CreateTelnetConn, Login, Inv
  <2>2. Fits(session'[t], ports')
    BY <2>1 DEF Fits
  <2>3. QED
    BY <1>1, <2>1, <2>2, FitsAlone
<1>3. CASE LoginFails(t)
  BY <1>1, <1>3, EndsFit DEF LoginFails
<1>4. QED
  BY <1>2, <1>3 DEF Telnet

-----------------------------------------------------------------------------
(* The list of swclid.                                                     *)

Up(s) == session[s].root # "none"

\* A process without a menu has ended, or was not started.
OffOrUp == \A s \in Sessions : ~Up(s) => session[s] = Off

\* A process that runs is listed, or about to be, and is no zombie.  While no
\* signal was lost nothing else is listed but the one zombie there may be,
\* whose signal is coming.
Listing ==
    /\ zombies \subseteq Telnets
    /\ \A t \in Telnets : Up(t) => t \in (conns \cup forked) \ zombies
    /\ ~missed =>
          /\ \A t \in conns \cup forked : (t \in Telnets /\ Up(t)) \/ t \in zombies
          /\ zombies = {} \/ sigchld
          /\ \A a, b \in zombies : a = b

ListInv == OffOrUp /\ Listing

\* Nobody starts or ends.
Stay == OffOrUp' /\ UNCHANGED swclidVars /\ \A t \in Telnets : Up(t)' <=> Up(t)

\* Where swclid and its children do nothing, its list stays right.
LEMMA StayKeeps == ASSUME ListInv, Stay PROVE ListInv'
BY DEF ListInv, Listing, Stay, swclidVars

\* A session of a menu that goes to a menu, or stays in its own.
LEMMA GoesOn ==
    ASSUME ListInv, NEW s \in Sessions, Up(s), Alone(s), session'[s].root # "none",
           UNCHANGED swclidVars
    PROVE  Stay
BY DEF ListInv, Stay, OffOrUp, Alone, Up, Sessions

\* What is offered is offered in a menu.
LEMMA OfferedUp ==
    ASSUME NEW s, NEW h, NEW args, Offers(s, h, args)
    PROVE  Up(s)
BY DEF Offers, MenuOf, Up

\* Moving between menus is nothing to swclid.
LEMMA MovesStay ==
    ASSUME Inv, ListInv, NEW s \in Sessions, Moves(s)
    PROVE  Stay
<1>1. session[s].types \in SUBSET Types
  BY DEF Inv, Shaped
<1>2. CASE Start(s)
  <2>1. s \notin Telnets
    BY <1>2, CommandLineAssumption DEF Start
  <2>2. Alone(s) /\ session'[s].root = "exec" /\ UNCHANGED swclidVars
    BY <1>2, ToMenu DEF Start, Inv
  <2>3. QED
    BY <2>1, <2>2 DEF ListInv, Stay, OffOrUp, Alone, Up, Sessions
<1>3. CASE CmdConfT(s) \/ CmdLineVty(s)
  <2>1. Alone(s) /\ session'[s].root \in {"config", "config-line"} /\ UNCHANGED swclidVars
    BY <1>3, ToMenu DEF CmdConfT, CmdLineVty, Inv
  <2>2. Up(s)
    BY <1>3, OfferedUp DEF CmdConfT, CmdLineVty
  <2>3. QED
    BY <2>1, <2>2, GoesOn
<1>4. CASE CmdEnd(s) \/ CmdExit(s) \/ CtrlZ(s)
  <2>1. Alone(s) /\ session'[s].root \in {"exec", "config"} /\ UNCHANGED swclidVars
    BY <1>1, <1>4, BecomesKeeps DEF CmdEnd, CmdExit, CtrlZ, Inv
  <2>2. Up(s)
    BY <1>4, OfferedUp DEF CmdEnd, CmdExit, CtrlZ, MenuOf, Up
  <2>3. QED
    BY <2>1, <2>2, GoesOn
<1>5. CASE \/ \E v \in Vlans : CmdVlan(s, v) \/ UseIfVlan(s, v)
           \/ \E i \in Interfaces : UseIfEther(s, i)
  <2>1. /\ Alone(s) /\ session'[s].root \in {"config-vlan", "config-if"}
        /\ UNCHANGED swclidVars
    BY <1>1, <1>5, BecomesKeeps DEF CmdVlan, UseIfVlan, UseIfEther, Inv, Types
  <2>2. Up(s)
    BY <1>5, OfferedUp DEF CmdVlan, UseIfVlan, UseIfEther
  <2>3. QED
    BY <2>1, <2>2, GoesOn
<1>6. ASSUME NEW i \in Interfaces, RemoveIfEther(s, i)
      PROVE  Stay
  <2>1. \A t \in Sessions :
           session'[t] = IF session[t].target = <<"if", i>>
                         THEN [session[t] EXCEPT !.removed = TRUE] ELSE session[t]
    BY <1>6 DEF RemoveIfEther
  <2>2. \A t \in Sessions : session'[t].root = session[t].root
    BY <2>1 DEF Inv, Shaped, Fields
  <2>3. Off.target # <<"if", i>>
    BY DEF Off, NoTarget
  <2>4. OffOrUp'
    BY <2>1, <2>2, <2>3 DEF ListInv, OffOrUp, Up
  <2>5. QED
    BY <1>6, <2>2, <2>4 DEF RemoveIfEther, Stay, Up, Sessions
<1>7. CASE RemoveIfVlan(s)
  BY <1>7 DEF RemoveIfVlan, ListInv, Stay, OffOrUp, Up
<1>8. QED
  BY <1>2, <1>3, <1>4, <1>5, <1>6, <1>7 DEF Moves

\* Changing the configuration is nothing to swclid.
LEMMA ChangesListed ==
    ASSUME Inv, ListInv, NEW s \in Sessions, Changes(s)
    PROVE  ListInv'
<1>1. CASE CmdGlobal(s) \/ CmdPort(s) \/ CmdNameVlan(s) \/ CmdWriteMem(s)
  <2>1. Stay
    BY <1>1 DEF CmdGlobal, CmdPort, CmdNameVlan, CmdWriteMem, ListInv, Stay, OffOrUp, Up
  <2>2. QED
    BY <2>1, StayKeeps
<1>2. CASE CmdReload(s)
  BY <1>2 DEF CmdReload, ListInv, Listing, OffOrUp, Up, Off, Sessions
<1>3. CASE (\E c \in CdpChange : ReadsCdp(s, c)) \/ WritesCdp(s)
  <2>1. PICK busy : session' = [session EXCEPT ![s].busy = busy] /\ UNCHANGED swclidVars
    BY <1>3 DEF ReadsCdp, WritesCdp
  <2>2. Alone(s) /\ session'[s].root = session[s].root
    BY <2>1, BusyKeeps DEF Inv, Shaped, Fields
  <2>3. Up(s)
    <3>1. CASE \E c \in CdpChange : ReadsCdp(s, c)
      BY <3>1, OfferedUp DEF ReadsCdp
    <3>2. CASE WritesCdp(s)
      BY <3>2 DEF WritesCdp, ListInv, OffOrUp, Off
    <3>3. QED
      BY <1>3, <3>1, <3>2
  <2>4. QED
    BY <2>1, <2>2, <2>3, GoesOn, StayKeeps DEF Up
<1>4. QED
  BY <1>1, <1>2, <1>3 DEF Changes

\* The child that ends becomes the one zombie, or a signal is lost.
LEMMA EndsListed ==
    ASSUME Inv, ListInv, NEW s \in Sessions, Ends(s), Up(s)
    PROVE  ListInv'
<1>1. Alone(s) /\ session'[s] = Off /\ ~Up(s)'
  <2>1. Alone(s) /\ session'[s] = Off
    BY OffKeeps DEF Ends, Inv
  <2>2. QED
    BY <2>1 DEF Off, Up
<1>2. OffOrUp'
  BY <1>1 DEF ListInv, OffOrUp, Alone, Up
<1>3. \A t \in Telnets \ {s} : Up(t)' <=> Up(t)
  BY <1>1 DEF Alone, Up, Sessions
<1>4. CASE s \in Telnets
  <2>1. /\ zombies' = zombies \cup {s} /\ sigchld' /\ missed' = (missed \/ sigchld)
        /\ UNCHANGED <<conns, forked>>
    BY <1>4 DEF Ends
  <2>2. ~missed' => zombies = {}
    BY <2>1 DEF ListInv, Listing
  <2>3. QED
    BY <1>1, <1>2, <1>3, <1>4, <2>1, <2>2 DEF ListInv, Listing
<1>5. CASE s \notin Telnets
  <2>1. UNCHANGED swclidVars
    BY <1>5 DEF Ends, swclidVars
  <2>2. QED
    BY <1>2, <1>3, <1>5, <2>1, StayKeeps DEF Stay
<1>6. QED
  BY <1>4, <1>5

\* Forking, listing and waiting keep the list right.
LEMMA TelnetListed ==
    ASSUME Inv, ListInv, NEW t \in Telnets, Telnet(t)
    PROVE  ListInv'
<1>1. t \in Sessions
  BY DEF Sessions
<1>2. CASE CreateTelnetConn(t)
  <2>1. Alone(t) /\ session'[t].root = "login"
    BY <1>1, <1>2, ToMenu DEF CreateTelnetConn, Inv
  <2>2. OffOrUp' /\ Up(t)' /\ \A u \in Telnets \ {t} : Up(u)' <=> Up(u)
    BY <1>1, <2>1 DEF ListInv, OffOrUp, Alone, Up, Sessions
  <2>3. /\ forked = {} /\ forked' = {t} /\ t \notin zombies
        /\ UNCHANGED <<conns, zombies, sigchld, missed>>
    BY <1>2 DEF CreateTelnetConn
  <2>4. ~Up(t)
    BY <1>2 DEF CreateTelnetConn, Off, Up
  <2>5. QED
    BY <2>2, <2>3, <2>4 DEF ListInv, Listing
<1>3. CASE Login(t)
  <2>1. Alone(t) /\ session'[t].root = "exec" /\ UNCHANGED swclidVars
    BY <1>1, <1>3, ToMenu DEF Login, Inv
  <2>2. Up(t)
    BY <1>3 DEF Login, Up
  <2>3. QED
    BY <1>1, <2>1, <2>2, GoesOn, StayKeeps
<1>4. CASE LoginFails(t)
  BY <1>1, <1>4, EndsListed DEF LoginFails, Up
<1>5. QED
  BY <1>2, <1>3, <1>4 DEF Telnet

\* The handler takes off the list what it waited for.
LEMMA HandlerListed ==
    ASSUME ListInv, ListsConn \/ SghChild
    PROVE  ListInv'
<1>1. OffOrUp' /\ \A t \in Telnets : Up(t)' <=> Up(t)
  BY DEF ListsConn, SghChild, ListInv, OffOrUp, Up
<1>2. CASE ListsConn
  BY <1>1, <1>2 DEF ListsConn, ListInv, Listing
<1>3. CASE SghChild
  <2>1. CASE \E t \in zombies : /\ zombies' = zombies \ {t}
                                /\ conns' = conns \ TakenOff(t)
                                /\ missed' = (missed \/ t \in forked)
    BY <1>1, <1>3, <2>1 DEF SghChild, TakenOff, ListInv, Listing
  <2>2. CASE zombies = {} /\ UNCHANGED <<zombies, conns, missed>>
    BY <1>1, <1>3, <2>2 DEF SghChild, ListInv, Listing
  <2>3. QED
    BY <1>3, <2>1, <2>2 DEF SghChild
<1>4. QED
  BY <1>2, <1>3

-----------------------------------------------------------------------------
(* Theorems.                                                               *)

\* The invariant holds before any session.
LEMMA InitInv == Init => Inv
<1>1. Off = [f \in Fields |-> Off[f]] /\ Off.types \subseteq Types
  BY DEF Off, Fields
<1>2. QED
  BY <1>1 DEF Init, Inv, Shaped, LowStays, Low, Off

\* Every step keeps the invariant.
LEMMA StepInv == Inv /\ [Next]_vars => Inv'
<1> SUFFICES ASSUME Inv, [Next]_vars PROVE Inv'
  OBVIOUS
<1>1. CASE \E s \in Sessions : Moves(s) \/ Changes(s)
  BY <1>1, MovesKeep, ChangesKeep
<1>2. CASE \E s \in Sessions : CmdQuit(s)
  BY <1>2, EndsKeep DEF CmdQuit
<1>3. CASE \E t \in Telnets : Telnet(t)
  BY <1>3, TelnetKeeps
<1>4. CASE ListsConn \/ SghChild \/ UNCHANGED vars
  BY <1>4 DEF ListsConn, SghChild, vars, Inv, Shaped, LowStays, Low
<1>5. QED
  BY <1>1, <1>2, <1>3, <1>4 DEF Next

\* Whatever menus they go through and whatever other sessions do, sessions of
\* privilege 1 change the running and the saved configuration in no way but by
\* starting the machine again, and never leave the first menu
\* (menu/exec.c:135-1021, cli.c:128-182).
THEOREM PrivilegeOneReads == Spec => []ReadOnlyAtPrivilegeOne
<1>1. Inv => ReadOnlyAtPrivilegeOne
  BY DEF Inv, LowStays, Low, ReadOnlyAtPrivilegeOne
<1>2. QED
  BY <1>1, InitInv, StepInv, PTL DEF Spec

\* However many sessions there are and whatever they type, each field of the
\* CDP configuration is what the last command for it set, unless two commands
\* overlapped; storing the numbers as bytes loses nothing (config.c:14-83).
THEOREM LastOneWins == Spec => []LastWins
<1>1. Init => OneAtATime
  BY DEF Init, OneAtATime, Busy, Off, DefaultCdp, CdpConfig
<1>2. Inv /\ OneAtATime /\ [Next]_vars => OneAtATime'
  <2> SUFFICES ASSUME Inv, OneAtATime, [Next]_vars PROVE OneAtATime'
    OBVIOUS
  <2>1. CASE \E s \in Sessions : Moves(s) \/ CmdQuit(s)
    BY <2>1, MovesIdle, EndsIdle, IdleKeeps DEF CmdQuit
  <2>2. CASE \E s \in Sessions : Changes(s)
    BY <2>2, ChangesInTurn
  <2>3. CASE \E t \in Telnets : Telnet(t)
    BY <2>3, TelnetIdle, IdleKeeps
  <2>4. CASE ListsConn \/ SghChild \/ UNCHANGED vars
    BY <2>4, IdleKeeps DEF ListsConn, SghChild, vars, Idle
  <2>5. QED
    BY <2>1, <2>2, <2>3, <2>4 DEF Next
<1>3. OneAtATime => LastWins
  BY DEF OneAtATime, LastWins
<1>4. QED
  BY <1>1, <1>2, <1>3, InitInv, StepInv, PTL DEF Spec

\* In the menu of an interface a session is offered what fits the interface it
\* entered last, which has a record unless another session removed it since,
\* however many sessions and interfaces there are (config.c:229-247).
THEOREM TargetFits == Spec => []MenuFitsTarget
<1>1. Init => AllFit
  BY DEF Init, AllFit, Fits, Off
<1>2. Inv /\ AllFit /\ [Next]_vars => AllFit'
  <2> SUFFICES ASSUME Inv, AllFit, [Next]_vars PROVE AllFit'
    OBVIOUS
  <2>1. CASE \E s \in Sessions : Moves(s) \/ Changes(s) \/ CmdQuit(s)
    BY <2>1, MovesFit, ChangesFit, EndsFit DEF CmdQuit
  <2>2. CASE \E t \in Telnets : Telnet(t)
    BY <2>2, TelnetFits
  <2>3. CASE ListsConn \/ SghChild \/ UNCHANGED vars
    BY <2>3, FitsSame DEF ListsConn, SghChild, vars
  <2>4. QED
    BY <2>1, <2>2, <2>3 DEF Next
<1>3. AllFit => MenuFitsTarget
  BY DEF AllFit, Fits, MenuFitsTarget
<1>4. QED
  BY <1>1, <1>2, <1>3, InitInv, StepInv, PTL DEF Spec

\* A telnet session that runs is on the list of swclid, or about to be, for
\* any number of connections; and unless a signal was lost or came too early
\* nothing else is but what it is about to wait for (swclid.c:136-182).
THEOREM ConnectionsListed == Spec => []SessionsListed
<1>1. Init => ListInv
  BY DEF Init, ListInv, Listing, OffOrUp, Up, Off, Sessions
<1>2. Inv /\ ListInv /\ [Next]_vars => ListInv'
  <2> SUFFICES ASSUME Inv, ListInv, [Next]_vars PROVE ListInv'
    OBVIOUS
  <2>1. CASE \E s \in Sessions : Moves(s) \/ Changes(s)
    BY <2>1, MovesStay, StayKeeps, ChangesListed
  <2>2. CASE \E s \in Sessions : CmdQuit(s)
    BY <2>2, OfferedUp, EndsListed DEF CmdQuit
  <2>3. CASE \E t \in Telnets : Telnet(t)
    BY <2>3, TelnetListed
  <2>4. CASE ListsConn \/ SghChild
    BY <2>4, HandlerListed
  <2>5. CASE UNCHANGED vars
    BY <2>5 DEF vars, swclidVars, ListInv, Listing, OffOrUp, Up
  <2>6. QED
    BY <2>1, <2>2, <2>3, <2>4, <2>5 DEF Next
<1>3. ListInv => SessionsListed
  <2> SUFFICES ASSUME ListInv PROVE SessionsListed
    OBVIOUS
  <2>1. \A t \in Telnets : session[t] # Off <=> Up(t)
    <3>1. Off.root = "none"
      BY DEF Off
    <3>2. \A t \in Telnets : ~Up(t) => session[t] = Off
      BY DEF ListInv, OffOrUp, Sessions
    <3>3. QED
      BY <3>1, <3>2 DEF Up
  <2>2. {t \in Telnets : session[t] # Off} = {t \in Telnets : Up(t)}
    BY <2>1
  <2>3. {t \in Telnets : Up(t)} \subseteq conns \cup forked
    BY DEF ListInv, Listing
  <2>4. ~missed => /\ conns \cup forked \subseteq {t \in Telnets : Up(t)} \cup zombies
                   /\ zombies = {} \/ sigchld
    BY DEF ListInv, Listing
  <2>5. QED
    BY <2>2, <2>3, <2>4 DEF SessionsListed
<1>4. QED
  BY <1>1, <1>2, <1>3, InitInv, StepInv, PTL DEF Spec
=============================================================================

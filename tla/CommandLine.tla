----------------------------- MODULE CommandLine -----------------------------
(***************************************************************************)
(* Command line sessions (cli/): what a session may run depends on the     *)
(* menu it is in, on its privilege and on the type of the interface it     *)
(* configures, all kept in the session's context; several sessions change  *)
(* one configuration.  Telnet sessions are processes that swclid           *)
(* (tools/swclid.c) starts and, told by SIGCHLD, takes off its list.       *)
(*                                                                         *)
(* A command is one step, but for those that read the CDP configuration,   *)
(* change a field and write it back, which are two.                        *)
(***************************************************************************)
EXTENDS Menus, FiniteSets

CONSTANTS
    Shells,         \* programs started as swcli, with privilege 15
    Consoles,       \* programs started as swcon
    Telnets,        \* process numbers of the children of swclid
    Interfaces,     \* Ethernet interfaces
    Vlans,          \* VLANs that get an interface
    Times,          \* bound: the numbers an operator types
    MaxSets         \* bound: changes of the CDP configuration

ASSUME CommandLineAssumption ==
    /\ Shells \cap Consoles = {} /\ Shells \cap Telnets = {} /\ Consoles \cap Telnets = {}
    /\ IsFiniteSet(Telnets)
    /\ Times \subseteq Nat /\ MaxSets \in Nat

Sessions == Shells \cup Consoles \cup Telnets

VARIABLES
    session,    \* the context of each session
    cdp,        \* SHM->cdp
    meant,      \* the CDP configuration as the commands that finished want it
    sets,       \* commands that changed it
    overlapped, \* two of them ran at the same time
    ports,      \* interfaces with a record
    changed,    \* how unprivileged sessions changed the configuration, running or saved
    conns,      \* swclid: telnet_conns
    forked,     \* swclid: the child forked and not yet on the list
    zombies,    \* children that ended and were not waited for
    sigchld,    \* SIGCHLD is pending for swclid
    missed      \* a signal met a pending one, or a child that was not listed

cdpVars    == <<cdp, meant, sets, overlapped>>
swclidVars == <<conns, forked, zombies, sigchld, missed>>
vars == <<session, cdpVars, ports, changed, swclidVars>>

DefaultCdp == [run |-> TRUE, version |-> 2, holdtime |-> 180, timer |-> 60]

NoCommand == << >>
NoTarget  == <<"none">>
Off == [root |-> "none", types |-> {}, target |-> NoTarget, ctrlZ |-> FALSE,
        removed |-> FALSE, busy |-> NoCommand]

Init ==
    /\ session = [s \in Sessions |-> Off]
    /\ cdp = DefaultCdp /\ meant = DefaultCdp /\ sets = 0 /\ overlapped = FALSE
    /\ ports = {} /\ changed = {}
    /\ conns = {} /\ forked = {} /\ zombies = {} /\ sigchld = FALSE /\ missed = FALSE

\* The privilege of the session's node_filter.
Level(s) == IF s \in Shells THEN 15 ELSE 1

\* s has changed the configuration in some way; of the privileged it is not kept.
Marks(s, way) == changed' = changed \cup (IF s \in Shells THEN {} ELSE {way})

\* cli_exec(): the command is in the session's menu, permitted to it, and the
\* session is not busy with another one.
Offers(s, handler, args) ==
    /\ session[s].root \in DOMAIN MenuOf
    /\ session[s].busy = NoCommand
    /\ \E a \in args :
          <<handler, a>> \in Offered[session[s].root][Level(s)][session[s].types]

Becomes(s, root, types, target) ==
    session' = [session EXCEPT ![s].root = root, ![s].types = types,
                               ![s].target = target, ![s].removed = FALSE]

-----------------------------------------------------------------------------
(* Moving between menus.                                                   *)

Start(s) ==
    /\ s \in Shells \cup Consoles /\ session[s] = Off
    /\ session' = [session EXCEPT ![s].root = "exec"]
    /\ UNCHANGED <<cdpVars, ports, changed, swclidVars>>

CmdConfT(s) ==
    /\ Offers(s, "cmd_conf_t", {"none"})
    /\ session' = [session EXCEPT ![s].root = "config", ![s].ctrlZ = TRUE]
    /\ UNCHANGED <<cdpVars, ports, changed, swclidVars>>

\* cmd_end() and cmd_exit() keep nothing of the filter but the privilege.  What
\* was configured is used in its menu only.
CmdEnd(s) ==
    /\ Offers(s, "cmd_end", {"none"})
    /\ Becomes(s, "exec", {}, NoTarget)
    /\ UNCHANGED <<cdpVars, ports, changed, swclidVars>>

CmdExit(s) ==
    /\ Offers(s, "cmd_exit", {"none"})
    /\ Becomes(s, "config", {}, NoTarget)
    /\ UNCHANGED <<cdpVars, ports, changed, swclidVars>>

\* Control-Z: back to the first menu, with the filter as it is.
CtrlZ(s) ==
    /\ session[s].root \in DOMAIN MenuOf /\ session[s].busy = NoCommand
    /\ session[s].ctrlZ
    /\ Becomes(s, "exec", session[s].types, NoTarget)
    /\ UNCHANGED <<cdpVars, ports, changed, swclidVars>>

CmdLineVty(s) ==
    /\ Offers(s, "cmd_linevty", {"none"})
    /\ session' = [session EXCEPT ![s].root = "config-line", ![s].ctrlZ = TRUE]
    /\ UNCHANGED <<cdpVars, ports, changed, swclidVars>>

\* The VLAN is added if need be; the filter stays.
CmdVlan(s, v) ==
    /\ Offers(s, "cmd_vlan", {"none"})
    /\ Becomes(s, "config-vlan", session[s].types, <<"vlan", v>>)
    /\ Marks(s, "command")
    /\ UNCHANGED <<cdpVars, ports, swclidVars>>

\* cmd_int_any() for an Ethernet interface, however it is named.
UseIfEther(s, i) ==
    /\ Offers(s, "cmd_int_any", {"ethernet", "netdev"})
    /\ Becomes(s, "config-if", {"switched"}, <<"if", i>>)
    /\ ports' = ports \cup {i}
    /\ IF i \in ports THEN UNCHANGED changed ELSE Marks(s, "command")
    /\ UNCHANGED <<cdpVars, swclidVars>>

\* Mutant: the type of the interface before is kept.
UseIfVlanToo(s, v) ==
    /\ Offers(s, "cmd_int_any", {"vlan", "netdev"})
    /\ Becomes(s, "config-if", session[s].types \cup {"vif"}, <<"vif", v>>)
    /\ Marks(s, "command")
    /\ UNCHANGED <<cdpVars, ports, swclidVars>>

\* ... and for a VLAN interface.
UseIfVlan(s, v) ==
    /\ Offers(s, "cmd_int_any", {"vlan", "netdev"})
    /\ Becomes(s, "config-if", {"vif"}, <<"vif", v>>)
    /\ Marks(s, "command")
    /\ UNCHANGED <<cdpVars, ports, swclidVars>>

\* Another session may be in the menu of the interface.
RemoveIfEther(s, i) ==
    /\ Offers(s, "cmd_no_int_any", {"ethernet", "netdev"})
    /\ ports' = ports \ {i}
    /\ Marks(s, "command")
    /\ session' = [t \in Sessions |->
                     IF session[t].target = <<"if", i>>
                     THEN [session[t] EXCEPT !.removed = TRUE] ELSE session[t]]
    /\ UNCHANGED <<cdpVars, swclidVars>>

RemoveIfVlan(s) ==
    /\ Offers(s, "cmd_no_int_any", {"vlan", "netdev"})
    /\ Marks(s, "command")
    /\ UNCHANGED <<session, cdpVars, ports, swclidVars>>

-----------------------------------------------------------------------------
(* Commands that change something else, and the rest.                      *)

GlobalHandlers ==
    {"cmd_rstp_run", "cmd_setenpw", "cmd_noensecret", "cmd_hostname",
     "cmd_set_aging", "cmd_add_mrouter", "cmd_ip_igmp_snooping", "cmd_macstatic"}
PortHandlers ==
    {"cmd_rstp_if_set", "cmd_cdp_if_set", "cmd_if_desc", "cmd_speed_duplex",
     "cmd_trunk_vlan", "cmd_nomode", "cmd_setmode", "cmd_shutdown", "cmd_acc_vlan", "cmd_ip"}

CmdGlobal(s) ==
    /\ \E h \in GlobalHandlers : Offers(s, h, {"none", "ethernet", "netdev"})
    /\ Marks(s, "command")
    /\ UNCHANGED <<session, cdpVars, ports, swclidVars>>

\* A command for the interface of the session, whose record must be there.
CmdPort(s) ==
    /\ \E h \in PortHandlers : Offers(s, h, {"none"})
    /\ IF session[s].removed THEN UNCHANGED changed ELSE Marks(s, "command")
    /\ UNCHANGED <<session, cdpVars, ports, swclidVars>>

CmdNameVlan(s) ==
    /\ Offers(s, "cmd_namevlan", {"none"})
    /\ Marks(s, "command")
    /\ UNCHANGED <<session, cdpVars, ports, swclidVars>>

CmdWriteMem(s) ==
    /\ Offers(s, "cmd_write_mem", {"none"})
    /\ Marks(s, "command")
    /\ UNCHANGED <<session, cdpVars, ports, swclidVars>>

\* cmd_reload(), confirmed: the machine starts again, and with it swclid and the
\* start configuration.  What was not saved is lost.
CmdReload(s) ==
    /\ Offers(s, "cmd_reload", {"none"})
    /\ session' = [t \in Sessions |-> Off]
    /\ cdp' = DefaultCdp /\ meant' = DefaultCdp /\ overlapped' = FALSE
    /\ ports' = {} /\ UNCHANGED sets
    /\ Marks(s, "reload")
    /\ conns' = {} /\ forked' = {} /\ zombies' = {} /\ sigchld' = FALSE
    /\ missed' = FALSE

-----------------------------------------------------------------------------
(* The CDP configuration: read, change one field, write it back.           *)

CdpChange ==
    {<<"cmd_cdp_run", "run", on>> : on \in BOOLEAN}
    \cup {<<"cmd_cdp_v2", "version", n>> : n \in {1, 2}}
    \cup {<<"cmd_cdp_holdtime", "holdtime", n>> : n \in Times \cap HoldtimeLimits}
    \cup {<<"cmd_cdp_timer", "timer", n>> : n \in Times \cap TimerLimits}

ReadsCdp(s, change) ==
    /\ Offers(s, change[1], {"none"})
    /\ sets < MaxSets
    /\ session' = [session EXCEPT ![s].busy = <<change, cdp>>]
    /\ overlapped' = (overlapped \/ \E t \in Sessions : session[t].busy # NoCommand)
    /\ sets' = sets + 1
    /\ UNCHANGED <<cdp, meant, ports, changed, swclidVars>>

\* Mutant: the fields not named are those of a new configuration.
StoredAlone(copy, change) == [DefaultCdp EXCEPT ![change[2]] = change[3]]

\* What a command writes back, numbers as unsigned chars: while CDP does not run, only "run" does.
Stored(copy, change) ==
    IF copy.run \/ change[2] = "run" THEN [copy EXCEPT ![change[2]] = change[3]]
    ELSE copy

WritesCdp(s) ==
    /\ session[s].busy # NoCommand
    /\ LET change == session[s].busy[1]  copy == session[s].busy[2]  new == Stored(copy, change)
       IN /\ cdp' = IF copy.run \/ change[2] = "run"
                    THEN [new EXCEPT !.holdtime = @ % 256, !.timer = @ % 256] ELSE cdp
          /\ meant' = IF copy.run \/ change[2] = "run"
                      THEN [meant EXCEPT ![change[2]] = change[3]] ELSE meant
    /\ session' = [session EXCEPT ![s].busy = NoCommand]
    /\ Marks(s, "command")
    /\ UNCHANGED <<sets, overlapped, ports, swclidVars>>

-----------------------------------------------------------------------------
(* swclid and the ends of sessions.                                        *)

\* accept() and fork(): the child becomes telnetd and runs swlogin.
CreateTelnetConn(t) ==
    /\ forked = {} /\ session[t] = Off /\ t \notin zombies \cup conns
    /\ forked' = {t}
    /\ session' = [session EXCEPT ![t].root = "login"]
    /\ UNCHANGED <<cdpVars, ports, changed, conns, zombies, sigchld, missed>>

ListsConn ==
    /\ forked # {}
    /\ conns' = conns \cup forked /\ forked' = {}
    /\ UNCHANGED <<session, cdpVars, ports, changed, zombies, sigchld, missed>>

\* The password is right.
Login(t) ==
    /\ session[t].root = "login"
    /\ session' = [session EXCEPT ![t].root = "exec"]
    /\ UNCHANGED <<cdpVars, ports, changed, swclidVars>>

\* A process ends; a signal that is pending already is not queued.
Ends(s) ==
    /\ session' = [session EXCEPT ![s] = Off]
    /\ IF s \in Telnets
       THEN /\ zombies' = zombies \cup {s} /\ sigchld' = TRUE
            /\ missed' = (missed \/ sigchld)
       ELSE UNCHANGED <<zombies, sigchld, missed>>
    /\ UNCHANGED <<cdpVars, ports, changed, conns, forked>>

\* The child fails before the login, or three passwords were wrong.
LoginFails(t) == session[t].root = "login" /\ Ends(t)
CmdQuit(s) == Offers(s, "cmd_quit", {"none"}) /\ Ends(s)

\* Mutant: the connection is not compared with the process that ended.
TakenOffAny(t) == IF conns = {} THEN {} ELSE {CHOOSE c \in conns : TRUE}

\* The connection of the process that ended, if it is on the list.
TakenOff(t) == conns \cap {t}

\* sgh_child(): one process is waited for.
SghChild ==
    /\ sigchld /\ sigchld' = FALSE
    /\ \/ \E t \in zombies :
            /\ zombies' = zombies \ {t}
            /\ conns' = conns \ TakenOff(t)
            /\ missed' = (missed \/ t \in forked)
       \/ zombies = {} /\ UNCHANGED <<zombies, conns, missed>>
    /\ UNCHANGED <<session, cdpVars, ports, changed, forked>>

Moves(s) ==
    \/ Start(s) \/ CmdConfT(s) \/ CmdEnd(s) \/ CmdExit(s) \/ CtrlZ(s) \/ CmdLineVty(s)
    \/ \E v \in Vlans : CmdVlan(s, v) \/ UseIfVlan(s, v)
    \/ \E i \in Interfaces : UseIfEther(s, i) \/ RemoveIfEther(s, i)
    \/ RemoveIfVlan(s)
Changes(s) ==
    \/ CmdGlobal(s) \/ CmdPort(s) \/ CmdNameVlan(s) \/ CmdWriteMem(s) \/ CmdReload(s)
    \/ \E c \in CdpChange : ReadsCdp(s, c)
    \/ WritesCdp(s)
Telnet(t) == CreateTelnetConn(t) \/ Login(t) \/ LoginFails(t)

Next ==
    \/ \E s \in Sessions : Moves(s) \/ Changes(s) \/ CmdQuit(s)
    \/ \E t \in Telnets : Telnet(t)
    \/ ListsConn \/ SghChild

Spec == Init /\ [][Next]_vars

-----------------------------------------------------------------------------
(* Properties.                                                             *)

\* In the menu of an interface the filter has the type of just the interface
\* that was entered last, so that the commands offered fit it, and an
\* Ethernet interface has a record unless another session removed it since
\* (config.c:229-231, 245-247); in the menu of a VLAN the target is one.
MenuFitsTarget ==
    \A s \in Sessions : LET c == session[s] IN
       /\ c.root = "config-if" =>
             \/ c.types = {"vif"} /\ c.target[1] = "vif"
             \/ c.types = {"switched"} /\ c.target[1] = "if"
                /\ (c.removed \/ c.target[2] \in ports)
       /\ c.root = "config-vlan" => c.target[1] = "vlan"

\* Whatever menus it goes through, no session of privilege 1 changes the running
\* or the saved configuration by a command on it or leaves the first menu.  What
\* it can do is "reload", which that menu offers to privilege 1
\* (menu/exec.c:316-323): the machine starts again and what was not saved is
\* lost.
ReadOnlyAtPrivilegeOne ==
    /\ changed \subseteq {"reload"}
    /\ \A s \in Sessions : Level(s) = 1 => session[s].root \in {"none", "login", "exec"}

\* Each field of the CDP configuration is what the last command for it set,
\* unless two commands ran at the same time: then one may have written back
\* the value that the other had replaced (config.c:14-83).
LastWins == overlapped \/ cdp = meant

\* A telnet session that runs is on swclid's list, or about to be.  Unless a
\* SIGCHLD was lost or came before the child was listed, the list holds
\* nothing else and every zombie has its signal coming (swclid.c:136-156,
\* 172-182).
SessionsListed ==
    LET running == {t \in Telnets : session[t] # Off} IN
    /\ running \subseteq conns \cup forked
    /\ ~missed => /\ conns \cup forked \subseteq running \cup zombies
                  /\ zombies = {} \/ sigchld
=============================================================================

------------------------------ MODULE RstpPort ------------------------------
(***************************************************************************)
(* How a port of rstpd goes to forwarding: the role transition machine     *)
(* (rstp/fsm/prt.c) and the port state machine (pst.c), with the flags the *)
(* information machine (pim.c) keeps for them, and the signal handler that *)
(* counts their timers down.  fsm_run() runs the machines in turn, one     *)
(* state each.  PortInfo has the rest of pim.c and role selection: what a  *)
(* BPDU says and which role is selected is any that the code allows here,  *)
(* and the other ports of the bridge are what they do to this one.         *)
(*                                                                         *)
(* Whether rrWhile has run out is any at each test of it.  Never true,     *)
(* whatever happens: operEdge, and a role ALTERNATE_BACKUP, which          *)
(* prt_alternate_port() asks for.                                          *)
(***************************************************************************)
EXTENDS Naturals

CONSTANTS
    ForwardDelay,   \* bound: the 15 seconds of fdWhile
    TimerModulus,   \* 2^32: timers are unsigned int
    MaxEvents       \* bound: BPDUs, and turns in which other ports do something

ASSUME RstpPortAssumption ==
    /\ ForwardDelay \in Nat \ {0} /\ TimerModulus \in Nat /\ TimerModulus > ForwardDelay + 1
    /\ MaxEvents \in Nat

VARIABLES
    port,       \* struct rstp_interface
    turn,       \* the machine the main thread runs next
    prsExec,    \* has role selection done its entry actions, or not begun?
    events,     \* BPDUs, and turns in which other ports did something
    tick,       \* the signal handler: what it did to fdWhile, and a value
    due,        \* history: seconds counted since the port last learned
    approved,   \* history: the neighbour agreed when forwarding was decided
    initiated,  \* history: prt_init_port() has run
    torn        \* history: the handler undid an assignment of the main thread

vars == <<port, turn, prsExec, events, tick, due, approved, initiated, torn>>

Quiet == [pc |-> "idle", value |-> 0]

\* What malloc() left in the fields that nothing assigns before their use:
\* when the two roles differ, the first turn jumps over prt_init_port(), to
\* where the second of them says; equal ones go through it.
GarbageRoles == ({"disabled"} \X {"disabled", "root", "designated", "alternate"})
                \cup {<<"root", "disabled">>, <<"root", "root">>,
                      <<"designated", "designated">>, <<"alternate", "alternate">>}
Garbage(role, flag, time) ==
    [role |-> role[1], selectedRole |-> role[2], selected |-> FALSE,
     updtInfo |-> flag, infoIs |-> "disabled", reselect |-> FALSE,
     pim |-> "disabled", pimExec |-> FALSE, prt |-> "init", prtExec |-> FALSE,
     pst |-> "discarding", pstExec |-> FALSE,
     learn |-> flag, forward |-> flag, learning |-> FALSE, forwarding |-> FALSE,
     sync |-> flag, synced |-> flag, reRoot |-> flag, agree |-> FALSE, agreed |-> FALSE,
     proposing |-> FALSE, proposed |-> FALSE, disputed |-> flag,
     allSynced |-> flag, reRooted |-> flag, fdWhile |-> time]

Init ==
    /\ \E role \in GarbageRoles, flag \in BOOLEAN, time \in {0, 1} :
          port = Garbage(role, flag, time)
    /\ turn = "pim" /\ prsExec \in {"init", "no", "yes"}
    /\ events = 0 /\ tick = Quiet /\ due = 0 /\ approved = FALSE /\ initiated = FALSE /\ torn = FALSE

-----------------------------------------------------------------------------
(* The main thread.                                                        *)

After(machine) ==
    CASE machine = "pim" -> "prt" [] machine = "prt" -> "pst"
      [] machine = "pst" -> "others" [] machine = "others" -> "prs"
      [] machine = "prs" -> "pim"

\* A value the handler holds is stale once the main thread assigns the timer.
Runs(machine, next) ==
    /\ turn = machine /\ turn' = After(machine)
    /\ port' = next
    /\ tick' = IF tick.pc = "loaded" /\ port.fdWhile # next.fdWhile
               THEN [tick EXCEPT !.pc = "torn"] ELSE tick
    /\ due' = IF next.learn /\ ~port.learn THEN 0 ELSE due
    /\ approved' = IF next.prt = "designated_forward" THEN port.agreed ELSE approved
    /\ UNCHANGED torn

\* The roles of the port are selected and what it says is up to date.
Settled(i) == i.selected /\ ~i.updtInfo

\* Something that comes from outside.
Event == events < MaxEvents /\ events' = events + 1

ToPim(i, state) == [i EXCEPT !.pim = state, !.pimExec = FALSE]

PimDisabled ==
    /\ port.pim = "disabled"
    /\ Runs("pim", [ToPim(port, "aged") EXCEPT
            !.proposing = FALSE, !.proposed = FALSE, !.agree = FALSE, !.agreed = FALSE,
            !.infoIs = "disabled", !.reselect = TRUE, !.selected = FALSE])
    /\ UNCHANGED <<prsExec, events, initiated>>

PimAged ==
    LET i == IF port.pimExec THEN port
             ELSE [port EXCEPT !.infoIs = "aged", !.reselect = TRUE, !.selected = FALSE]
    IN  /\ port.pim = "aged"
        /\ Runs("pim", IF i.selected /\ i.updtInfo THEN ToPim(i, "update")
                       ELSE [i EXCEPT !.pimExec = TRUE])
        /\ UNCHANGED <<prsExec, events, initiated>>

\* An agreement lasts if what the port says now is no worse (betterorsame).
PimUpdate ==
    \E better \in BOOLEAN :
       LET agreed == port.agreed /\ better IN
       /\ port.pim = "update"
       /\ Runs("pim", [ToPim(port, "current") EXCEPT
               !.proposing = FALSE, !.proposed = FALSE, !.agreed = agreed,
               !.synced = @ /\ agreed, !.updtInfo = FALSE, !.infoIs = "mine"])
       /\ UNCHANGED <<prsExec, events, initiated>>

PimCurrent ==
    /\ port.pim = "current"
    /\ \/ port.selected /\ port.updtInfo /\ Runs("pim", ToPim(port, "update"))
       \/ port.infoIs = "received" /\ ~port.updtInfo /\ Runs("pim", ToPim(port, "aged"))
       \/ ~(port.selected /\ port.updtInfo) /\ Runs("pim", port)
    /\ UNCHANGED <<prsExec, events, initiated>>

\* A BPDU was received.
PimTakes ==
    /\ port.pim = "current" /\ ~port.updtInfo
    /\ Runs("pim", ToPim(port, "receive"))
    /\ Event /\ UNCHANGED <<prsExec, initiated>>

\* What a BPDU does, by the kind rcvInfo() finds it to be.
SuperiorDesignated ==
    {[port EXCEPT !.agreed = FALSE, !.proposing = FALSE, !.proposed = @ \/ bpdu[1],
                  !.agree = @ /\ bpdu[2], !.infoIs = "received",
                  !.reselect = TRUE, !.selected = FALSE] : bpdu \in BOOLEAN \X BOOLEAN}
RepeatedDesignated == {[port EXCEPT !.proposed = @ \/ p] : p \in BOOLEAN}
InferiorDesignated == {port, [port EXCEPT !.disputed = TRUE, !.agreed = FALSE]}
NotDesignated ==
    {[port EXCEPT !.agreed = TRUE, !.proposing = FALSE], [port EXCEPT !.agreed = FALSE]}

\* pim_receive() compares, with what the port knows; the turn after it acts, in
\* the state of the kind it found.
PimReceive ==
    /\ port.pim = "receive"
    /\ Runs("pim", ToPim(port, "handle"))
    /\ UNCHANGED <<prsExec, events, initiated>>

PimHandle ==
    /\ port.pim = "handle"
    /\ \E i \in SuperiorDesignated \cup RepeatedDesignated \cup InferiorDesignated
                \cup NotDesignated \cup {port} :
          Runs("pim", ToPim(i, "current"))
    /\ UNCHANGED <<prsExec, events, initiated>>

-----------------------------------------------------------------------------
(* Role transitions.                                                       *)

ToPrt(i, state) == [i EXCEPT !.prt = state, !.prtExec = FALSE]

\* checkGlobalConditions(): another role was selected.
Jumped ==
    IF port.role = port.selectedRole THEN port
    ELSE ToPrt(port, CASE port.selectedRole = "disabled"   -> "disable"
                       [] port.selectedRole = "root"       -> "root"
                       [] port.selectedRole = "designated" -> "designated"
                       [] port.selectedRole \in {"alternate", "backup"} -> "block")

\* The state's entry actions, when it was not executed yet.
Entered(i, entry) == IF i.prtExec THEN i ELSE entry
Stays(i) == [i EXCEPT !.prtExec = TRUE]

Prt(from, next) ==
    /\ Jumped.prt = from
    /\ Runs("prt", next)
    /\ initiated' = (initiated \/ from = "init")
    /\ UNCHANGED <<prsExec, events>>

PrtInitPort ==
    Prt("init", [ToPrt(Jumped, "disable") EXCEPT
        !.role = "disabled", !.learn = FALSE, !.forward = FALSE, !.synced = FALSE,
        !.sync = TRUE, !.reRoot = TRUE,
        !.fdWhile = ForwardDelay + 1])

Stopped(i) == [i EXCEPT !.role = i.selectedRole, !.learn = FALSE, !.forward = FALSE]

\* Selection gives a port the role "disabled" in its first turn only, and the
\* information machine, aged by then, takes that back before this state runs
\* again.  So "disabled" is never reached, and prt_disabled_port() never runs.
PrtDisablePort ==
    LET i == Entered(Jumped, Stopped(Jumped)) IN
    Prt("disable", IF ~i.learning /\ ~i.forwarding /\ Settled(i) THEN ToPrt(i, "disabled")
                   ELSE Stays(i))

\* prt_root_port() and prt_alternate_port(): is there a proposal to answer?
Proposal(i, propose, agree) ==
    CASE i.proposed /\ ~i.agree -> propose
      [] ~i.proposed /\ ~i.agree /\ i.allSynced -> agree
      [] i.proposed /\ i.agree -> agree
      [] OTHER -> "none"

PrtRootPort ==
    LET i == Entered(Jumped, [Jumped EXCEPT !.role = "root"])
        soon == i.fdWhile = 0 \/ i.reRooted
        next == CASE Proposal(i, "root_proposed", "root_agreed") # "none" ->
                        Proposal(i, "root_proposed", "root_agreed")
                  [] ~i.forward /\ ~i.reRoot         -> "reroot"
                  [] soon /\ i.learn /\ ~i.forward   -> "root_forward"
                  [] soon /\ ~i.learn                -> "root_learn"
                  [] i.reRoot /\ i.forward           -> "rerooted"
                  [] OTHER                           -> "root"
    IN  \E again \in BOOLEAN :
           Prt("root", IF Settled(i) /\ (next # "root" \/ again) THEN ToPrt(i, next)
                       ELSE Stays(i))

\* The states that the root and the alternate port pass through.
PrtRootProposed == Prt("root_proposed", [ToPrt(Jumped, "root") EXCEPT !.proposed = FALSE, !.sync = TRUE])
PrtRootAgreed ==
    Prt("root_agreed", [ToPrt(Jumped, "root") EXCEPT
        !.proposed = FALSE, !.sync = FALSE, !.agree = TRUE])
PrtReRoot   == Prt("reroot", [ToPrt(Jumped, "root") EXCEPT !.reRoot = TRUE])
PrtReRooted == Prt("rerooted", [ToPrt(Jumped, "root") EXCEPT !.reRoot = FALSE])

Forwards(i) == [i EXCEPT !.forward = TRUE, !.fdWhile = 0]

\* Mutant: the forward delay is not started again.
LearnsOnly(i) == [i EXCEPT !.learn = TRUE]

\* A port that learns waits for another forward delay.
Learns(i) == [i EXCEPT !.learn = TRUE, !.fdWhile = ForwardDelay]

PrtRootForward == Prt("root_forward", Forwards(ToPrt(Jumped, "root")))
PrtRootLearn   == Prt("root_learn", Learns(ToPrt(Jumped, "root")))

PrtDesignatedPort ==
    \E retired \in BOOLEAN :   \* rrWhile has run out
    LET i == Entered(Jumped, [Jumped EXCEPT !.role = "designated"])
        discards == /\ i.learn \/ i.forward
                    /\ \/ i.sync /\ ~i.synced
                       \/ i.reRoot /\ ~retired
                       \/ i.disputed
        mayGo == (i.fdWhile = 0 \/ i.agreed) /\ (retired \/ ~i.reRoot) /\ ~i.sync
        next == CASE ~i.forward /\ ~i.agreed /\ ~i.proposing    -> "designated_propose"
                  [] \/ ~i.learning /\ ~i.forwarding /\ ~i.synced
                     \/ i.agreed /\ ~i.synced
                     \/ i.sync /\ i.synced                      -> "designated_synced"
                  [] retired /\ i.reRoot                        -> "designated_retired"
                  [] mayGo /\ i.learn /\ ~i.forward             -> "designated_forward"
                  [] mayGo /\ ~i.learn                          -> "designated_learn"
                  [] discards                                   -> "designated_discard"
                  [] OTHER                                      -> "none"
    IN  Prt("designated", IF Settled(i) /\ next # "none" THEN ToPrt(i, next) ELSE Stays(i))

PrtDesignatedPropose ==
    Prt("designated_propose", [ToPrt(Jumped, "designated") EXCEPT !.proposing = TRUE])
PrtDesignatedSynced ==
    Prt("designated_synced", [ToPrt(Jumped, "designated") EXCEPT
        !.synced = TRUE, !.sync = FALSE])
PrtDesignatedRetired ==
    Prt("designated_retired", [ToPrt(Jumped, "designated") EXCEPT !.reRoot = FALSE])

\* agreed = sendRSTP, which depends on the BPDUs received.
PrtDesignatedForward ==
    \E sendRSTP \in BOOLEAN :
       Prt("designated_forward", [Forwards(ToPrt(Jumped, "designated")) EXCEPT !.agreed = sendRSTP])
PrtDesignatedLearn == Prt("designated_learn", Learns(ToPrt(Jumped, "designated")))
PrtDesignatedDiscard ==
    Prt("designated_discard", [ToPrt(Jumped, "designated") EXCEPT
        !.learn = FALSE, !.forward = FALSE, !.disputed = FALSE, !.fdWhile = ForwardDelay])

PrtAlternatePort ==
    LET i == Entered(Jumped, [Jumped EXCEPT !.fdWhile = ForwardDelay, !.synced = TRUE,
                                            !.sync = FALSE, !.reRoot = FALSE])
        next == Proposal(i, "alternate_proposed", "alternate_agreed")
    IN  Prt("alternate", IF Settled(i) /\ next # "none" THEN ToPrt(i, next) ELSE Stays(i))

PrtAlternateProposed ==
    Prt("alternate_proposed", [ToPrt(Jumped, "alternate") EXCEPT !.proposed = FALSE, !.sync = TRUE])
PrtAlternateAgreed ==
    Prt("alternate_agreed", [ToPrt(Jumped, "alternate") EXCEPT !.proposed = FALSE, !.agree = TRUE])

\* Mutant: the port is blocked without waiting for its state machine.
BlockedAtOnce(i) == Settled(i)

\* Both have stopped, and the role is settled.
Blocked(i) == ~i.learning /\ ~i.forwarding /\ Settled(i)

PrtBlockPort ==
    LET i == Entered(Jumped, Stopped(Jumped)) IN
    Prt("block", IF Blocked(i) THEN ToPrt(i, "alternate") ELSE Stays(i))

-----------------------------------------------------------------------------
(* Port state, the other ports, and role selection.                        *)

ToPst(i, state) == [i EXCEPT !.pst = state, !.pstExec = FALSE]

Pst(from, next) ==
    /\ port.pst = from /\ Runs("pst", next)
    /\ UNCHANGED <<prsExec, events, initiated>>

PstDiscarding ==
    LET i == IF port.pstExec THEN port ELSE [port EXCEPT !.learning = FALSE, !.forwarding = FALSE] IN
    Pst("discarding", IF i.learn THEN ToPst(i, "learning") ELSE [i EXCEPT !.pstExec = TRUE])
PstLearning ==
    LET i == IF port.pstExec THEN port ELSE [port EXCEPT !.learning = TRUE] IN
    Pst("learning", CASE i.forward -> ToPst(i, "forwarding")
                      [] ~i.forward /\ ~i.learn -> ToPst(i, "discarding")
                      [] OTHER -> [i EXCEPT !.pstExec = TRUE])
PstForwarding ==
    LET i == IF port.pstExec THEN port ELSE [port EXCEPT !.forwarding = TRUE] IN
    Pst("forwarding", IF ~i.forward THEN ToPst(i, "discarding") ELSE [i EXCEPT !.pstExec = TRUE])

\* setSyncTree() and setReRootTree() of another port.
OtherPorts ==
    /\ \/ /\ Event
          /\ \E s, r \in BOOLEAN :
                /\ s \/ r
                /\ Runs("others", [port EXCEPT !.sync = @ \/ s, !.reRoot = @ \/ r])
       \/ UNCHANGED events /\ Runs("others", port)
    /\ UNCHANGED <<prsExec, initiated>>

\* prs_init_bridge(), when rstpd has just started.
PrsInitBridge ==
    /\ prsExec = "init" /\ prsExec' = "no"
    /\ Runs("prs", [port EXCEPT !.selectedRole = "disabled"])
    /\ UNCHANGED <<events, initiated>>

\* updtRolesTree(): the roles that what the port knows allows, with updtInfo.
Selectable ==
    CASE port.infoIs = "disabled" -> {<<"disabled", port.updtInfo>>}
      [] port.infoIs = "aged"     -> {<<"designated", TRUE>>}
      [] port.infoIs = "mine"     -> {<<"designated", port.updtInfo>>, <<"designated", TRUE>>}
      [] port.infoIs = "received" -> ({"root", "alternate", "backup"} \X {FALSE})
                                     \cup {<<"designated", TRUE>>}

PrsSelect ==
    /\ prsExec = "no" /\ prsExec' = "yes"
    /\ \E r \in Selectable :
          Runs("prs", [port EXCEPT !.reselect = FALSE, !.selected = TRUE,
                                   !.selectedRole = r[1], !.updtInfo = r[2]])
    /\ UNCHANGED <<events, initiated>>

\* This port or another asks for another selection.
PrsWatch ==
    /\ prsExec = "yes"
    /\ \/ prsExec' = (IF port.reselect THEN "no" ELSE "yes") /\ UNCHANGED events
       \/ prsExec' = "no" /\ ~port.reselect /\ Event
    /\ Runs("prs", port)
    /\ UNCHANGED initiated

-----------------------------------------------------------------------------
(* The signal handler: if (x) x = x - 1 reads x twice and then writes it.  *)

Untouched == UNCHANGED <<turn, prsExec, events, approved, initiated>>

TickTest ==
    /\ tick = Quiet /\ port.fdWhile > 0
    /\ tick' = [pc |-> "tested", value |-> 0]
    /\ UNCHANGED <<port, due, torn>> /\ Untouched

TickLoad ==
    /\ tick.pc = "tested"
    /\ tick' = [pc |-> "loaded", value |-> port.fdWhile]
    /\ UNCHANGED <<port, due, torn>> /\ Untouched

TickStore ==
    /\ tick.pc \in {"loaded", "torn"} /\ tick' = Quiet
    /\ port' = [port EXCEPT !.fdWhile = (tick.value + TimerModulus - 1) % TimerModulus]
    /\ due' = IF due < ForwardDelay THEN due + 1 ELSE due
    /\ torn' = (torn \/ tick.pc = "torn")
    /\ Untouched

Pim == PimDisabled \/ PimAged \/ PimUpdate \/ PimCurrent \/ PimTakes
       \/ PimReceive \/ PimHandle
PrtRoot ==
    \/ PrtRootPort \/ PrtRootProposed \/ PrtRootAgreed \/ PrtReRoot \/ PrtReRooted
    \/ PrtRootForward \/ PrtRootLearn
PrtDesignated ==
    \/ PrtDesignatedPort \/ PrtDesignatedPropose \/ PrtDesignatedSynced \/ PrtDesignatedRetired
    \/ PrtDesignatedForward \/ PrtDesignatedLearn \/ PrtDesignatedDiscard
PrtOther ==
    \/ PrtInitPort \/ PrtDisablePort \/ PrtBlockPort
    \/ PrtAlternatePort \/ PrtAlternateProposed \/ PrtAlternateAgreed
PstState == PstDiscarding \/ PstLearning \/ PstForwarding
Prs == PrsInitBridge \/ PrsSelect \/ PrsWatch

Next ==
    \/ Pim \/ PrtRoot \/ PrtDesignated \/ PrtOther \/ PstState \/ OtherPorts \/ Prs
    \/ TickTest \/ TickLoad \/ TickStore

Spec == Init /\ [][Next]_vars

-----------------------------------------------------------------------------
(* Properties.                                                             *)

\* A port that the transition machine holds blocked does not forward, and
\* learns at most until the next turn of its port state machine, which may
\* have been about to when the port was stopped (prt.c:479-496, pst.c:37-98).
BlockedIsStill ==
    port.prt \in {"alternate", "alternate_proposed", "alternate_agreed"} =>
       /\ ~port.forwarding
       /\ port.learning => (port.pst = "discarding" /\ ~port.pstExec)

\* A port begins to forward only a whole forward delay after it began to
\* learn, through whatever roles it went, or as a designated port whose
\* neighbour agreed.  The timers must not have been torn by the handler, and
\* the fields that nothing initialises must not say otherwise (prt.c:192,
\* 309, rstpd.c:58).
ForwardsAfterDelay ==
    [][port'.forward /\ ~port.forward =>
         \/ due >= ForwardDelay
         \/ port.role = "designated" /\ approved
         \/ port.reRooted \/ torn \/ ~initiated]_vars
=============================================================================

--------------------------- MODULE RstpPortProofs ---------------------------
(***************************************************************************)
(* Proofs about RstpPort, for any forward delay, any BPDUs and however the *)
(* timer signal interferes.                                                *)
(*                                                                         *)
(* A port that was stopped is still.  That the transition machine waits    *)
(* until the port neither learns nor forwards is not enough: the port      *)
(* state machine may have decided to learn before.  The strengthening      *)
(* relates the two machines and the flags between them.                    *)
(*                                                                         *)
(* A port waits for the whole forward delay.  The strengthening is what is *)
(* left of it, in the timer or in the hands of the signal handler, from    *)
(* the turn that begins to learn to the one that decides to forward.       *)
(***************************************************************************)
EXTENDS RstpPort, TLAPS

Roles == {"disabled", "root", "designated", "alternate", "backup"}

\* The fields that the invariant speaks of.
Fields == {"selectedRole", "infoIs", "prt", "prtExec", "pst", "pstExec",
           "learn", "forward", "learning", "forwarding"}

Shape(i) ==
    /\ Fields \subseteq DOMAIN i
    /\ i.selectedRole \in Roles /\ i.infoIs \in {"disabled", "aged", "mine", "received"}
    /\ i.pst \in {"discarding", "learning", "forwarding"}
    /\ i.prtExec \in BOOLEAN /\ i.pstExec \in BOOLEAN
    /\ i.learn \in BOOLEAN /\ i.forward \in BOOLEAN
    /\ i.learning \in BOOLEAN /\ i.forwarding \in BOOLEAN

\* What the state of the port state machine says of learning and forwarding.
StateOf(i) ==
    /\ i.pst = "discarding" /\ i.pstExec => ~i.learning /\ ~i.forwarding
    /\ i.pst = "learning" => ~i.forwarding /\ (i.pstExec => i.learning)
    /\ i.pst = "forwarding" => i.learning
    /\ i.forwarding => i.learning

Stopping == {"block", "disable"}
Still    == {"alternate", "alternate_proposed", "alternate_agreed"}

\* A port that is being stopped is told to once its entry actions are done, and
\* one that is still learns at most for the rest of the turn.
Stops(i) ==
    /\ i.prt \in Stopping /\ i.prtExec => ~i.learn /\ ~i.forward
    /\ i.prt \in Still =>
          /\ ~i.learn /\ ~i.forward /\ ~i.forwarding /\ i.pst # "forwarding"
          /\ i.learning => i.pst = "discarding" /\ ~i.pstExec

PortInv(i) == Shape(i) /\ StateOf(i) /\ Stops(i)

\* The two records agree on what PortInv relates.
Alike(i, j) ==
    /\ j.prt = i.prt /\ j.prtExec = i.prtExec /\ j.pst = i.pst /\ j.pstExec = i.pstExec
    /\ j.learn = i.learn /\ j.forward = i.forward
    /\ j.learning = i.learning /\ j.forwarding = i.forwarding

\* PortInv depends on these fields and the type only.
LEMMA AlikeKeeps ==
    ASSUME NEW i, NEW j, PortInv(i), Shape(j), Alike(i, j)
    PROVE  PortInv(j)
BY DEF PortInv, StateOf, Stops, Alike

-----------------------------------------------------------------------------
(* The information machine leaves the two machines alone.                  *)

\* The information machine sets flags of the others and moves no state of theirs.
LEMMA PimKeeps ==
    ASSUME PortInv(port), Pim
    PROVE  PortInv(port')
<1> USE DEF Runs, ToPim
<1>1. Shape(port)
  BY DEF PortInv
<1>2. Shape(port') /\ Alike(port, port')
  <2>1. CASE PimDisabled
    BY <1>1, <2>1 DEF PimDisabled, Shape, Alike, Fields
  <2>2. CASE PimAged
    BY <1>1, <2>2 DEF PimAged, Shape, Alike, Fields
  <2>3. CASE PimUpdate
    BY <1>1, <2>3 DEF PimUpdate, Shape, Alike, Fields
  <2>4. CASE PimCurrent \/ PimTakes \/ PimReceive
    BY <1>1, <2>4 DEF PimCurrent, PimTakes, PimReceive, Shape, Alike, Fields
  <2>5. CASE PimHandle
    <3> DEFINE Seen == SuperiorDesignated \cup RepeatedDesignated \cup InferiorDesignated
                       \cup NotDesignated \cup {port}
    <3>1. \A i \in Seen : Shape(i) /\ Alike(port, i)
      <4>1. \A i \in SuperiorDesignated : Shape(i) /\ Alike(port, i)
        <5> TAKE i \in SuperiorDesignated
        <5>1. PICK bpdu \in BOOLEAN \X BOOLEAN :
                 i = [port EXCEPT !.agreed = FALSE, !.proposing = FALSE,
                                  !.proposed = @ \/ bpdu[1], !.agree = @ /\ bpdu[2],
                                  !.infoIs = "received", !.reselect = TRUE, !.selected = FALSE]
          BY Zenon DEF SuperiorDesignated
        <5>2. QED
          BY <1>1, <5>1 DEF Shape, Alike, Fields
      <4>2. \A i \in RepeatedDesignated : Shape(i) /\ Alike(port, i)
        BY <1>1 DEF RepeatedDesignated, Shape, Alike, Fields
      <4>3. \A i \in InferiorDesignated \cup NotDesignated \cup {port} :
               Shape(i) /\ Alike(port, i)
        BY <1>1 DEF InferiorDesignated, NotDesignated, Shape, Alike, Fields
      <4>4. QED
        BY <4>1, <4>2, <4>3
    <3>2. PICK i \in Seen : port' = [i EXCEPT !.pim = "current", !.pimExec = FALSE]
      BY <2>5 DEF PimHandle
    <3>3. QED
      BY <3>1, <3>2 DEF Shape, Alike, Fields
  <2>6. QED
    BY <2>1, <2>2, <2>3, <2>4, <2>5 DEF Pim
<1>3. QED
  BY <1>2, AlikeKeeps
-----------------------------------------------------------------------------
(* Role transitions.                                                       *)

\* The jump to another role leaves a port that stops, or stops none.
LEMMA JumpedKeeps ==
    ASSUME PortInv(port)
    PROVE  /\ PortInv(Jumped)
           /\ Jumped.prt # port.prt => Jumped.prt \notin Still
<1>1. CASE port.role = port.selectedRole
  BY <1>1 DEF Jumped
<1>2. CASE port.role # port.selectedRole
  <2> DEFINE to == CASE port.selectedRole = "disabled"   -> "disable"
                     [] port.selectedRole = "root"       -> "root"
                     [] port.selectedRole = "designated" -> "designated"
                     [] port.selectedRole \in {"alternate", "backup"} -> "block"
  <2>1. port.selectedRole \in Roles
    BY DEF PortInv, Shape
  <2>2. to \in {"disable", "root", "designated", "block"}
    BY <2>1, Zenon DEF Roles
  <2>3. Jumped = [port EXCEPT !.prt = to, !.prtExec = FALSE]
    BY <1>2 DEF Jumped, ToPrt
  <2> HIDE DEF to
  <2>4. QED
    BY <2>2, <2>3 DEF PortInv, Shape, StateOf, Stops, Still, Stopping, Fields
<1>3. QED
  BY <1>1, <1>2

\* Entry actions and transitions of the states in which a port is not stopped
\* change its flags at will.
LEMMA MovingKeeps ==
    ASSUME NEW i, NEW j, PortInv(i), Shape(j), j.prt \notin Still,
           j.prt \in Stopping => ~j.prtExec \/ (~j.learn /\ ~j.forward),
           j.pst = i.pst, j.pstExec = i.pstExec,
           j.learning = i.learning, j.forwarding = i.forwarding
    PROVE  PortInv(j)
BY DEF PortInv, StateOf, Stops

\* The initial state leads to the one that stops the port.
LEMMA InitPortKeeps == ASSUME PortInv(port), PrtInitPort PROVE PortInv(port')
<1>1. PortInv(Jumped) /\ Shape(Jumped)
  BY JumpedKeeps DEF PortInv
<1>2. /\ Shape(port') /\ port'.prt = "disable" /\ ~port'.prtExec
      /\ port'.pst = Jumped.pst /\ port'.pstExec = Jumped.pstExec
      /\ port'.learning = Jumped.learning /\ port'.forwarding = Jumped.forwarding
  BY <1>1 DEF PrtInitPort, Prt, Runs, ToPrt, Shape, Fields
<1>3. QED
  BY <1>1, <1>2, MovingKeeps DEF Still, Stopping

\* The states of a root port (prt.c).
LEMMA RootKeeps ==
    ASSUME PortInv(port), PrtRoot
    PROVE  PortInv(port')
<1> USE DEF Prt, Runs, ToPrt
<1>1. PortInv(Jumped) /\ Shape(Jumped)
  BY JumpedKeeps DEF PortInv
<1>2. /\ Shape(port') /\ port'.prt \notin Still \cup Stopping
      /\ port'.pst = Jumped.pst /\ port'.pstExec = Jumped.pstExec
      /\ port'.learning = Jumped.learning /\ port'.forwarding = Jumped.forwarding
  <2>1. CASE PrtRootProposed \/ PrtRootAgreed \/ PrtReRoot \/ PrtReRooted
    BY <1>1, <2>1 DEF PrtRootProposed, PrtRootAgreed, PrtReRoot, PrtReRooted,
                      Shape, Fields, Still, Stopping
  <2>2. CASE PrtRootForward \/ PrtRootLearn
    BY <1>1, <2>2 DEF PrtRootForward, PrtRootLearn, Forwards, Learns,
                      Shape, Fields, Still, Stopping
  <2>3. CASE PrtRootPort
    <3> DEFINE i == Entered(Jumped, [Jumped EXCEPT !.role = "root"])
               soon == i.fdWhile = 0 \/ i.reRooted
               next == CASE Proposal(i, "root_proposed", "root_agreed") # "none" ->
                               Proposal(i, "root_proposed", "root_agreed")
                         [] ~i.forward /\ ~i.reRoot         -> "reroot"
                         [] soon /\ i.learn /\ ~i.forward   -> "root_forward"
                         [] soon /\ ~i.learn                -> "root_learn"
                         [] i.reRoot /\ i.forward           -> "rerooted"
                         [] OTHER                           -> "root"
    <3>1. Shape(i) /\ Alike(Jumped, i)
      BY <1>1 DEF Entered, Shape, Alike, Fields
    <3>2. Proposal(i, "root_proposed", "root_agreed")
             \in {"root_proposed", "root_agreed", "none"}
      BY Zenon DEF Proposal
    <3>3. next \in {"root_proposed", "root_agreed", "reroot", "root_forward",
                    "root_learn", "rerooted", "root"}
      BY <3>2, Zenon
    <3>4. /\ Jumped.prt = "root"
          /\ \/ port' = [i EXCEPT !.prt = next, !.prtExec = FALSE]
             \/ port' = [i EXCEPT !.prtExec = TRUE]
      BY <2>3 DEF PrtRootPort, Stays
    <3> HIDE DEF i, next
    <3>5. QED
      BY <3>1, <3>3, <3>4 DEF Shape, Alike, Fields, Still, Stopping
  <2>4. QED
    BY <2>1, <2>2, <2>3 DEF PrtRoot
<1>3. QED
  BY <1>1, <1>2, MovingKeeps

\* The states of a designated port (prt.c).
LEMMA DesignatedKeeps ==
    ASSUME PortInv(port), PrtDesignated
    PROVE  PortInv(port')
<1> USE DEF Prt, Runs, ToPrt
<1>1. PortInv(Jumped) /\ Shape(Jumped)
  BY JumpedKeeps DEF PortInv
<1>2. /\ Shape(port') /\ port'.prt \notin Still \cup Stopping
      /\ port'.pst = Jumped.pst /\ port'.pstExec = Jumped.pstExec
      /\ port'.learning = Jumped.learning /\ port'.forwarding = Jumped.forwarding
  <2>1. CASE PrtDesignatedPropose \/ PrtDesignatedSynced \/ PrtDesignatedRetired
    BY <1>1, <2>1 DEF PrtDesignatedPropose, PrtDesignatedSynced, PrtDesignatedRetired,
                      Shape, Fields, Still, Stopping
  <2>2. CASE PrtDesignatedForward \/ PrtDesignatedLearn \/ PrtDesignatedDiscard
    BY <1>1, <2>2, ZenonT(40) DEF PrtDesignatedForward, PrtDesignatedLearn, PrtDesignatedDiscard,
                      Forwards, Learns, Shape, Fields, Still, Stopping
  <2>3. CASE PrtDesignatedPort
    <3> DEFINE i == Entered(Jumped, [Jumped EXCEPT !.role = "designated"])
               States == {"designated_propose", "designated_synced", "designated_retired",
                          "designated_forward", "designated_learn", "designated_discard"}
    <3>1. Shape(i) /\ Alike(Jumped, i)
      BY <1>1 DEF Entered, Shape, Alike, Fields
    <3>2. /\ Jumped.prt = "designated"
          /\ \/ \E next \in States : port' = [i EXCEPT !.prt = next, !.prtExec = FALSE]
             \/ port' = [i EXCEPT !.prtExec = TRUE]
      BY <2>3, ZenonT(30) DEF PrtDesignatedPort, Stays
    <3> HIDE DEF i
    <3>3. QED
      BY <3>1, <3>2 DEF Shape, Alike, Fields, Still, Stopping
  <2>4. QED
    BY <2>1, <2>2, <2>3 DEF PrtDesignated
<1>3. QED
  BY <1>1, <1>2, MovingKeeps

\* What waits for the port to be still, disabled or blocked.
LEMMA StoppingKeeps ==
    ASSUME PortInv(port), PrtDisablePort \/ PrtBlockPort
    PROVE  PortInv(port')
<1> USE DEF Prt, Runs, ToPrt
<1> DEFINE i == Entered(Jumped, Stopped(Jumped))
<1>1. PortInv(Jumped) /\ Shape(Jumped) /\ Jumped.prt \in Stopping
  BY JumpedKeeps DEF PortInv, PrtDisablePort, PrtBlockPort, Stopping
<1>2. /\ Shape(i) /\ ~i.learn /\ ~i.forward
      /\ i.prt = Jumped.prt /\ i.prtExec = Jumped.prtExec
      /\ i.pst = Jumped.pst /\ i.pstExec = Jumped.pstExec
      /\ i.learning = Jumped.learning /\ i.forwarding = Jumped.forwarding
  BY <1>1 DEF Entered, Stopped, PortInv, Stops, Shape, Fields
<1>3. \/ port' = [i EXCEPT !.prtExec = TRUE]
      \/ /\ ~i.learning /\ ~i.forwarding
         /\ \/ port' = [i EXCEPT !.prt = "alternate", !.prtExec = FALSE]
            \/ port' = [i EXCEPT !.prt = "disabled", !.prtExec = FALSE]
  BY DEF PrtDisablePort, PrtBlockPort, Blocked, Stays
<1> HIDE DEF i
<1>4. StateOf(i)
  BY <1>1, <1>2 DEF PortInv, StateOf
<1>5. CASE port' = [i EXCEPT !.prtExec = TRUE]
  BY <1>1, <1>2, <1>4, <1>5
  DEF PortInv, Shape, StateOf, Stops, Stopping, Still, Fields
<1>6. CASE /\ ~i.learning /\ ~i.forwarding
           /\ \/ port' = [i EXCEPT !.prt = "alternate", !.prtExec = FALSE]
              \/ port' = [i EXCEPT !.prt = "disabled", !.prtExec = FALSE]
  BY <1>1, <1>2, <1>4, <1>6
  DEF PortInv, Shape, StateOf, Stops, Stopping, Still, Fields
<1>7. QED
  BY <1>3, <1>5, <1>6

\* A port that is stopped stays so, as long as no other role is selected.
LEMMA StillKeeps ==
    ASSUME PortInv(port),
           PrtAlternatePort \/ PrtAlternateProposed \/ PrtAlternateAgreed
    PROVE  PortInv(port')
<1> USE DEF Prt, Runs, ToPrt, Stays
<1>1. PortInv(Jumped) /\ Shape(Jumped) /\ Jumped.prt \in Still
  BY JumpedKeeps
  DEF PortInv, PrtAlternatePort, PrtAlternateProposed, PrtAlternateAgreed, Still
<1>2. /\ Shape(port') /\ port'.prt \in Still
      /\ port'.pst = Jumped.pst /\ port'.pstExec = Jumped.pstExec
      /\ port'.learning = Jumped.learning /\ port'.forwarding = Jumped.forwarding
      /\ port'.learn = Jumped.learn /\ port'.forward = Jumped.forward
  <2>1. CASE PrtAlternateProposed \/ PrtAlternateAgreed
    BY <1>1, <2>1 DEF PrtAlternateProposed, PrtAlternateAgreed, Shape, Still, Fields
  <2>2. CASE PrtAlternatePort
    <3> DEFINE i == Entered(Jumped, [Jumped EXCEPT !.fdWhile = ForwardDelay,
                                       !.synced = TRUE, !.sync = FALSE, !.reRoot = FALSE])
               next == Proposal(i, "alternate_proposed", "alternate_agreed")
    <3>1. Shape(i) /\ Alike(Jumped, i)
      BY <1>1 DEF Entered, Shape, Alike, Fields
    <3>2. next \in {"alternate_proposed", "alternate_agreed", "none"}
      BY Zenon DEF Proposal
    <3>3. \/ next # "none" /\ port' = [i EXCEPT !.prt = next, !.prtExec = FALSE]
          \/ port' = [i EXCEPT !.prtExec = TRUE]
      BY <2>2 DEF PrtAlternatePort
    <3> HIDE DEF i, next
    <3>4. Shape(port') /\ port'.prt \in Still
      BY <1>1, <3>1, <3>2, <3>3 DEF Shape, Alike, Still, Fields
    <3>5. QED
      BY <3>1, <3>3, <3>4 DEF Shape, Alike, Fields
  <2>3. QED
    BY <2>1, <2>2
<1>3. QED
  BY <1>1, <1>2 DEF PortInv, StateOf, Stops, Still, Stopping

-----------------------------------------------------------------------------
(* The port state machine, and what else changes the port.                 *)

\* A port that is stopped is at most on its way out of learning, which its
\* state machine then goes.
LEMMA PstKeeps == ASSUME PortInv(port), PstState PROVE PortInv(port')
<1> USE DEF Pst, Runs, ToPst, PortInv, Shape, StateOf, Stops, Stopping, Still, Fields
<1>1. CASE PstDiscarding
  <2> DEFINE i == IF port.pstExec THEN port
                  ELSE [port EXCEPT !.learning = FALSE, !.forwarding = FALSE]
  <2>1. PortInv(i) /\ i.pst = "discarding" /\ ~i.learning /\ ~i.forwarding
    BY <1>1 DEF PstDiscarding
  <2>2. \/ i.learn /\ port' = [i EXCEPT !.pst = "learning", !.pstExec = FALSE]
        \/ port' = [i EXCEPT !.pstExec = TRUE]
    BY <1>1 DEF PstDiscarding
  <2> HIDE DEF i
  <2>3. QED
    BY <2>1, <2>2
<1>2. CASE PstLearning
  <2> DEFINE i == IF port.pstExec THEN port ELSE [port EXCEPT !.learning = TRUE]
  <2>1. Shape(i) /\ i.pst = "learning" /\ ~i.forwarding /\ i.learning
    BY <1>2 DEF PstLearning
  <2>2. /\ i.prt = port.prt /\ i.prtExec = port.prtExec
        /\ i.learn = port.learn /\ i.forward = port.forward
    OBVIOUS
  <2>3. port.pst = "learning"
    BY <1>2 DEF PstLearning
  <2>4. \/ i.forward /\ port' = [i EXCEPT !.pst = "forwarding", !.pstExec = FALSE]
        \/ ~i.forward /\ ~i.learn /\ port' = [i EXCEPT !.pst = "discarding", !.pstExec = FALSE]
        \/ (i.forward \/ i.learn) /\ port' = [i EXCEPT !.pstExec = TRUE]
    <3>1. port' = CASE i.forward -> [i EXCEPT !.pst = "forwarding", !.pstExec = FALSE]
                    [] ~i.forward /\ ~i.learn -> [i EXCEPT !.pst = "discarding", !.pstExec = FALSE]
                    [] OTHER -> [i EXCEPT !.pstExec = TRUE]
      BY <1>2 DEF PstLearning
    <3> HIDE DEF i
    <3>2. QED
      BY <3>1
  <2> HIDE DEF i
  <2>5. QED
    BY <2>1, <2>2, <2>3, <2>4, ZenonT(40)
<1>3. CASE PstForwarding
  <2> DEFINE i == IF port.pstExec THEN port ELSE [port EXCEPT !.forwarding = TRUE]
  <2>1. Shape(i) /\ i.pst = "forwarding" /\ i.learning /\ i.prt \notin Still
    BY <1>3 DEF PstForwarding
  <2>2. /\ i.prt = port.prt /\ i.prtExec = port.prtExec
        /\ i.learn = port.learn /\ i.forward = port.forward
    OBVIOUS
  <2>3. \/ port' = [i EXCEPT !.pst = "discarding", !.pstExec = FALSE]
        \/ port' = [i EXCEPT !.pstExec = TRUE]
    BY <1>3 DEF PstForwarding
  <2> HIDE DEF i
  <2>4. QED
    BY <2>1, <2>2, <2>3, ZenonT(40)
<1>4. QED
  BY <1>1, <1>2, <1>3 DEF PstState

\* Role selection selects a role.
LEMMA SelectableRoles ==
    ASSUME port.infoIs \in {"disabled", "aged", "mine", "received"}, NEW r \in Selectable
    PROVE  r[1] \in Roles
<1>1. Selectable = IF port.infoIs = "disabled" THEN {<<"disabled", port.updtInfo>>}
                   ELSE IF port.infoIs = "aged" THEN {<<"designated", TRUE>>}
                   ELSE IF port.infoIs = "mine"
                        THEN {<<"designated", port.updtInfo>>, <<"designated", TRUE>>}
                   ELSE ({"root", "alternate", "backup"} \X {FALSE})
                           \cup {<<"designated", TRUE>>}
  BY Zenon DEF Selectable
<1>2. \/ r \in {<<"disabled", port.updtInfo>>, <<"designated", TRUE>>,
               <<"designated", port.updtInfo>>}
      \/ r \in {"root", "alternate", "backup"} \X {FALSE}
  BY <1>1, Zenon
<1>3. CASE r \in {"root", "alternate", "backup"} \X {FALSE}
  <2>1. r[1] \in {"root", "alternate", "backup"}
    BY <1>3, Zenon
  <2>2. QED
    BY <2>1 DEF Roles
<1>4. CASE r \in {<<"disabled", port.updtInfo>>, <<"designated", TRUE>>,
                  <<"designated", port.updtInfo>>}
  <2>1. \E info : r = <<"disabled", info>> \/ r = <<"designated", info>>
    BY <1>4, Zenon
  <2>2. QED
    BY <2>1 DEF Roles
<1>5. QED
  BY <1>2, <1>3, <1>4

\* The other ports, role selection and the timer leave the two machines alone.
LEMMA RestKeeps ==
    ASSUME PortInv(port), OtherPorts \/ Prs \/ TickTest \/ TickLoad \/ TickStore
    PROVE  PortInv(port')
<1>1. Shape(port)
  BY DEF PortInv
<1>2. Shape(port') /\ Alike(port, port')
  <2> USE DEF Runs
  <2>1. CASE OtherPorts
    BY <1>1, <2>1 DEF OtherPorts, Shape, Alike, Fields
  <2>2. CASE PrsInitBridge \/ PrsWatch
    BY <1>1, <2>2 DEF PrsInitBridge, PrsWatch, Shape, Alike, Fields, Roles
  <2>3. CASE PrsSelect
    <3>1. PICK r \in Selectable :
             port' = [port EXCEPT !.reselect = FALSE, !.selected = TRUE,
                                  !.selectedRole = r[1], !.updtInfo = r[2]]
      BY <2>3 DEF PrsSelect
    <3>2. r[1] \in Roles
      BY <1>1, SelectableRoles DEF Shape
    <3>3. QED
      BY <1>1, <3>1, <3>2 DEF Shape, Alike, Fields
  <2>4. CASE TickTest \/ TickLoad \/ TickStore
    BY <1>1, <2>4 DEF TickTest, TickLoad, TickStore, Shape, Alike, Fields
  <2>5. QED
    BY <2>1, <2>2, <2>3, <2>4 DEF Prs
<1>3. QED
  BY <1>2, AlikeKeeps

-----------------------------------------------------------------------------
(* The theorem.                                                            *)

\* A port starts stopped, whatever memory it was given.
LEMMA InitStops == Init => PortInv(port)
<1> SUFFICES ASSUME Init PROVE PortInv(port)
  OBVIOUS
<1>1. PICK role \in GarbageRoles, flag \in BOOLEAN, time \in {0, 1} :
         port = Garbage(role, flag, time)
  BY DEF Init
<1>2. role[2] \in Roles
  BY DEF GarbageRoles, Roles
<1>3. QED
  BY <1>1, <1>2 DEF Garbage, PortInv, Shape, StateOf, Stops, Stopping, Still, Fields

\* Every step of the machines, the other ports and the signal keeps PortInv.
LEMMA StepStops == PortInv(port) /\ [Next]_vars => PortInv(port')
<1> SUFFICES ASSUME PortInv(port), [Next]_vars PROVE PortInv(port')
  OBVIOUS
<1>1. CASE Pim
  BY <1>1, PimKeeps
<1>2. CASE PrtRoot
  BY <1>2, RootKeeps
<1>3. CASE PrtDesignated
  BY <1>3, DesignatedKeeps
<1>4. CASE PrtOther
  BY <1>4, InitPortKeeps, StoppingKeeps, StillKeeps DEF PrtOther
<1>5. CASE PstState
  BY <1>5, PstKeeps
<1>6. CASE OtherPorts \/ Prs \/ TickTest \/ TickLoad \/ TickStore
  BY <1>6, RestKeeps
<1>7. CASE UNCHANGED vars
  BY <1>7 DEF vars
<1>8. QED
  BY <1>1, <1>2, <1>3, <1>4, <1>5, <1>6, <1>7 DEF Next

\* A port that the transition machine holds blocked does not forward, and
\* learns at most until the next turn of its port state machine: for every
\* forward delay, every BPDU, every selection of roles, and whatever the timer
\* signal tears (prt.c:479-496, pst.c:37-98).
THEOREM StoppedIsStill == Spec => []BlockedIsStill
<1> DEFINE Inv == PortInv(port)
<1>1. Init => Inv
  BY InitStops
<1>2. Inv /\ [Next]_vars => Inv'
  BY StepStops
<1>3. Inv => BlockedIsStill
  BY DEF PortInv, Stops, Still, BlockedIsStill
<1> HIDE DEF Inv
<1>4. QED
  BY <1>1, <1>2, <1>3, PTL DEF Spec

-----------------------------------------------------------------------------
(* The forward delay.  What counts is how much of it is left: the seconds  *)
(* counted since the port began to learn and those of the timer make up a  *)
(* whole delay, until a state that forwards was decided on.                *)

TimedFields == {"role", "selectedRole", "infoIs", "prt", "prtExec", "learn", "forward",
                "agreed", "reRooted", "fdWhile"}

Timed(i) ==
    /\ TimedFields \subseteq DOMAIN i
    /\ i.selectedRole \in Roles /\ i.infoIs \in {"disabled", "aged", "mine", "received"}
    /\ i.prtExec \in BOOLEAN /\ i.learn \in BOOLEAN /\ i.forward \in BOOLEAN
    /\ i.agreed \in BOOLEAN /\ i.reRooted \in BOOLEAN
    /\ i.fdWhile \in 0 .. TimerModulus - 1

\* No timer was torn, and the fields say what the code assigned to them.
Trusted == initiated /\ ~torn /\ ~port.reRooted

\* What the handler has read is what it will write, unless it was torn.
Ticking ==
    /\ tick \in [pc : {"idle", "tested", "loaded", "torn"}, value : 0 .. TimerModulus - 1]
    /\ tick.pc = "loaded" => tick.value = port.fdWhile
    /\ due \in 0 .. ForwardDelay /\ torn \in BOOLEAN /\ initiated \in BOOLEAN
    /\ approved \in BOOLEAN

\* A port that learns and does not forward has the rest of the delay before it.
Waiting == port.learn /\ ~port.forward => due + port.fdWhile >= ForwardDelay

\* A state that forwards was decided on after the delay, or with the agreement
\* of the neighbour: the history variable has it by the next turn of prt.c.
Decided ==
    /\ port.prt = "root_forward" => due = ForwardDelay
    /\ port.prt = "designated_forward" =>
          \/ due = ForwardDelay
          \/ turn = "prt" /\ approved
          \/ turn # "prt" /\ port.agreed

Designated(i) ==
    /\ i.prt = "designated" /\ i.prtExec => i.role = "designated"
    /\ i.prt = "designated_forward" => i.role = "designated"

DelayInv == /\ Timed(port) /\ Ticking /\ Designated(port)
            /\ Trusted => Waiting /\ Decided

\* What a turn of a machine may make of the port: learning is begun with a
\* whole delay, a state that forwards is decided on when none is left.
Careful(machine, i, j) ==
    /\ Timed(j) /\ Designated(j) /\ j.reRooted = i.reRooted
    /\ j.learn /\ ~j.forward =>
          \/ j.fdWhile >= ForwardDelay
          \/ i.learn /\ ~i.forward /\ j.fdWhile = i.fdWhile
    /\ j.prt = "root_forward" =>
          /\ j.learn = i.learn
          /\ i.prt = "root_forward" \/ (i.learn /\ ~i.forward /\ (i.fdWhile = 0 \/ i.reRooted))
    /\ j.prt = "designated_forward" =>
          /\ j.learn = i.learn
          /\ \/ i.prt = "designated_forward" /\ machine # "prt"
                /\ (machine = "pim" \/ j.agreed = i.agreed)
             \/ machine = "prt" /\ i.learn /\ ~i.forward /\ j.agreed = i.agreed
                /\ (i.fdWhile = 0 \/ i.agreed)

Machines == {"pim", "prt", "pst", "others", "prs"}

\* A turn that is careful keeps the invariant.
LEMMA CarefulKeeps ==
    ASSUME DelayInv, NEW machine \in Machines, NEW next, Runs(machine, next),
           Careful(machine, port, next),
           initiated' = initiated \/ (initiated' = TRUE /\ ~next.learn /\ next.prt = "disable")
    PROVE  DelayInv'
<1>1. /\ port' = next /\ turn = machine /\ turn' = After(machine) /\ torn' = torn
      /\ tick' = IF tick.pc = "loaded" /\ port.fdWhile # next.fdWhile
                 THEN [tick EXCEPT !.pc = "torn"] ELSE tick
      /\ due' = IF next.learn /\ ~port.learn THEN 0 ELSE due
      /\ approved' = IF next.prt = "designated_forward" THEN port.agreed ELSE approved
  BY DEF Runs
<1>2. Timed(port) /\ Timed(next) /\ Designated(next) /\ next.reRooted = port.reRooted /\ Ticking
  BY DEF DelayInv, Careful
<1>3. turn' = "prt" <=> machine = "pim"
  BY <1>1, Zenon DEF After, Machines
<1>4. ForwardDelay \in Nat \ {0}
  BY RstpPortAssumption DEF RstpPortAssumption
<1>5. Ticking'
  <2>1. /\ tick \in [pc : {"idle", "tested", "loaded", "torn"}, value : 0 .. TimerModulus - 1]
        /\ tick.pc = "loaded" => tick.value = port.fdWhile
    BY <1>2 DEF Ticking
  <2>2. /\ tick' \in [pc : {"idle", "tested", "loaded", "torn"}, value : 0 .. TimerModulus - 1]
        /\ tick'.pc = "loaded" => tick'.value = port'.fdWhile
    <3>1. CASE tick.pc = "loaded" /\ port.fdWhile # next.fdWhile
      BY <1>1, <2>1, <3>1
    <3>2. CASE ~(tick.pc = "loaded" /\ port.fdWhile # next.fdWhile)
      <4>1. tick' = tick
        BY <1>1, <3>2
      <4>2. QED
        BY <1>1, <2>1, <3>2, <4>1
    <3>3. QED
      BY <3>1, <3>2
  <2>3. due' \in 0 .. ForwardDelay
    BY <1>1, <1>2, <1>4 DEF Ticking
  <2>4. torn' \in BOOLEAN /\ initiated' \in BOOLEAN
    BY <1>1, <1>2 DEF Ticking
  <2>5. approved' \in BOOLEAN
    BY <1>1, <1>2 DEF Ticking, Timed
  <2>6. QED
    BY <2>2, <2>3, <2>4, <2>5 DEF Ticking
<1>6. ASSUME Trusted' PROVE Waiting' /\ Decided'
  <2>1. CASE ~next.learn /\ next.prt = "disable"
    BY <1>1, <2>1 DEF Waiting, Decided
  <2>2. CASE initiated' = initiated
    <3>1. Waiting /\ Decided /\ ~port.reRooted
      BY <1>1, <1>2, <1>6, <2>2 DEF Trusted, DelayInv
    <3>2. Waiting'
      BY <1>1, <1>2, <1>4, <3>1 DEF Waiting, Careful, Timed, Ticking
    <3>3. next.prt = "root_forward" => due' = ForwardDelay
      BY <1>1, <1>2, <1>4, <3>1 DEF Waiting, Decided, Careful, Timed, Ticking
    <3>4. ASSUME next.prt = "designated_forward"
          PROVE  due' = ForwardDelay \/ (turn' = "prt" /\ approved') \/ (turn' # "prt" /\ next.agreed)
      BY <1>1, <1>2, <1>3, <1>4, <3>1, <3>4 DEF Waiting, Decided, Careful, Timed, Ticking
    <3>5. QED
      BY <1>1, <3>2, <3>3, <3>4 DEF Decided
  <2>3. QED
    BY <2>1, <2>2
<1>7. QED
  BY <1>1, <1>2, <1>5, <1>6 DEF DelayInv

\* Two records that agree on the fields of the delay.
SameTimes(i, j) ==
    /\ j.role = i.role /\ j.prt = i.prt /\ j.prtExec = i.prtExec
    /\ j.learn = i.learn /\ j.forward = i.forward
    /\ j.reRooted = i.reRooted /\ j.fdWhile = i.fdWhile

\* A step that touches neither the timer nor the agreement is careful.
LEMMA SameIsCareful ==
    ASSUME NEW i, Designated(i), NEW j, Timed(j), SameTimes(i, j),
           NEW machine \in Machines \ {"prt"}, machine = "pim" \/ j.agreed = i.agreed
    PROVE  Careful(machine, i, j)
BY DEF Careful, SameTimes, Designated, Machines

\* The information machine alone changes "agreed" between two turns of prt.c.
LEMMA PimDelay ==
    ASSUME DelayInv, Pim
    PROVE  DelayInv' /\ port'.forward = port.forward
<1> USE DEF Runs, ToPim
<1>1. Timed(port) /\ Designated(port)
  BY DEF DelayInv
<1>2. Timed(port') /\ SameTimes(port, port')
  <2>1. CASE PimDisabled
    BY <1>1, <2>1 DEF PimDisabled, Timed, SameTimes, TimedFields
  <2>2. CASE PimAged
    BY <1>1, <2>2 DEF PimAged, Timed, SameTimes, TimedFields
  <2>3. CASE PimUpdate
    BY <1>1, <2>3 DEF PimUpdate, Timed, SameTimes, TimedFields
  <2>4. CASE PimCurrent \/ PimTakes \/ PimReceive
    BY <1>1, <2>4 DEF PimCurrent, PimTakes, PimReceive, Timed, SameTimes, TimedFields
  <2>5. CASE PimHandle
    <3> DEFINE Seen == SuperiorDesignated \cup RepeatedDesignated \cup InferiorDesignated
                       \cup NotDesignated \cup {port}
    <3>1. \A i \in Seen : Timed(i) /\ SameTimes(port, i)
      <4>1. \A i \in SuperiorDesignated : Timed(i) /\ SameTimes(port, i)
        <5> TAKE i \in SuperiorDesignated
        <5>1. PICK bpdu \in BOOLEAN \X BOOLEAN :
                 i = [port EXCEPT !.agreed = FALSE, !.proposing = FALSE,
                                  !.proposed = @ \/ bpdu[1], !.agree = @ /\ bpdu[2],
                                  !.infoIs = "received", !.reselect = TRUE, !.selected = FALSE]
          BY Zenon DEF SuperiorDesignated
        <5>2. QED
          BY <1>1, <5>1 DEF Timed, SameTimes, TimedFields
      <4>2. \A i \in RepeatedDesignated : Timed(i) /\ SameTimes(port, i)
        BY <1>1 DEF RepeatedDesignated, Timed, SameTimes, TimedFields
      <4>3. \A i \in InferiorDesignated \cup NotDesignated \cup {port} :
               Timed(i) /\ SameTimes(port, i)
        BY <1>1 DEF InferiorDesignated, NotDesignated, Timed, SameTimes, TimedFields
      <4>4. QED
        BY <4>1, <4>2, <4>3
    <3>2. PICK i \in Seen : port' = [i EXCEPT !.pim = "current", !.pimExec = FALSE]
      BY <2>5 DEF PimHandle
    <3>3. QED
      BY <3>1, <3>2 DEF Timed, SameTimes, TimedFields
  <2>6. QED
    BY <2>1, <2>2, <2>3, <2>4, <2>5 DEF Pim
<1>3. Runs("pim", port')
  BY DEF Pim, PimDisabled, PimAged, PimUpdate, PimCurrent, PimTakes, PimReceive, PimHandle
<1>4. Careful("pim", port, port')
  BY <1>1, <1>2, SameIsCareful DEF Machines
<1>5. initiated' = initiated
  BY DEF Pim, PimDisabled, PimAged, PimUpdate, PimCurrent, PimTakes, PimReceive, PimHandle
<1>6. "pim" \in Machines
  BY DEF Machines
<1> QED
  BY <1>2, <1>3, <1>4, <1>5, <1>6, CarefulKeeps DEF SameTimes

\* The port state machine, the other ports and role selection leave the delay
\* and the decision alone.
LEMMA RestDelay ==
    ASSUME DelayInv, PstState \/ OtherPorts \/ Prs
    PROVE  DelayInv' /\ port'.forward = port.forward
<1> USE DEF Runs
<1>1. Timed(port) /\ Designated(port)
  BY DEF DelayInv
<1>2. Timed(port') /\ SameTimes(port, port') /\ port'.agreed = port.agreed
  <2>1. CASE PstDiscarding
    BY <1>1, <2>1 DEF PstDiscarding, Pst, ToPst, Timed, SameTimes, TimedFields
  <2>2. CASE PstForwarding
    BY <1>1, <2>2 DEF PstForwarding, Pst, ToPst, Timed, SameTimes, TimedFields
  <2>3. CASE PstLearning
    <3> DEFINE i == IF port.pstExec THEN port ELSE [port EXCEPT !.learning = TRUE]
    <3>1. Timed(i) /\ SameTimes(port, i) /\ i.agreed = port.agreed
      BY <1>1 DEF Timed, SameTimes, TimedFields
    <3>2. port' = CASE i.forward -> [i EXCEPT !.pst = "forwarding", !.pstExec = FALSE]
                    [] ~i.forward /\ ~i.learn -> [i EXCEPT !.pst = "discarding", !.pstExec = FALSE]
                    [] OTHER -> [i EXCEPT !.pstExec = TRUE]
      BY <2>3 DEF PstLearning, Pst, ToPst
    <3> HIDE DEF i
    <3>3. \/ port' = [i EXCEPT !.pst = "forwarding", !.pstExec = FALSE]
          \/ port' = [i EXCEPT !.pst = "discarding", !.pstExec = FALSE]
          \/ port' = [i EXCEPT !.pstExec = TRUE]
      BY <3>2
    <3>4. QED
      BY <3>1, <3>3 DEF Timed, SameTimes, TimedFields
  <2>4. CASE OtherPorts
    BY <1>1, <2>4 DEF OtherPorts, Timed, SameTimes, TimedFields
  <2>5. CASE PrsInitBridge \/ PrsWatch
    BY <1>1, <2>5 DEF PrsInitBridge, PrsWatch, Timed, SameTimes, TimedFields, Roles
  <2>6. CASE PrsSelect
    <3>1. PICK r \in Selectable :
             port' = [port EXCEPT !.reselect = FALSE, !.selected = TRUE,
                                  !.selectedRole = r[1], !.updtInfo = r[2]]
      BY <2>6 DEF PrsSelect
    <3>2. r[1] \in Roles
      BY <1>1, SelectableRoles DEF Timed
    <3>3. QED
      BY <1>1, <3>1, <3>2 DEF Timed, SameTimes, TimedFields
  <2>7. QED
    BY <2>1, <2>2, <2>3, <2>4, <2>5, <2>6 DEF PstState, Prs
<1>3. PICK machine \in {"pst", "others", "prs"} : Runs(machine, port')
  BY DEF PstState, Pst, PstDiscarding, PstLearning, PstForwarding, OtherPorts, Prs,
         PrsInitBridge, PrsSelect, PrsWatch
<1>4. machine \in Machines /\ machine # "prt"
  BY DEF Machines
<1>5. Careful(machine, port, port')
  BY <1>1, <1>2, <1>4, SameIsCareful
<1>6. initiated' = initiated
  BY DEF PstState, Pst, PstDiscarding, PstLearning, PstForwarding, OtherPorts, Prs,
         PrsInitBridge, PrsSelect, PrsWatch
<1> QED
  BY <1>2, <1>3, <1>4, <1>5, <1>6, CarefulKeeps DEF SameTimes

\* The states that the transition machine jumps to.
Jumps == {"disable", "root", "designated", "block"}

\* The jump to another role leaves the delay alone and decides nothing.
LEMMA JumpedDelay ==
    ASSUME Timed(port), Designated(port)
    PROVE  /\ Timed(Jumped) /\ Designated(Jumped)
           /\ Jumped.learn = port.learn /\ Jumped.forward = port.forward
           /\ Jumped.agreed = port.agreed /\ Jumped.reRooted = port.reRooted
           /\ Jumped.fdWhile = port.fdWhile
           /\ Jumped = port \/ (Jumped.prt \in Jumps /\ ~Jumped.prtExec)
<1>1. CASE port.role = port.selectedRole
  BY <1>1 DEF Jumped
<1>2. CASE port.role # port.selectedRole
  <2> DEFINE to == CASE port.selectedRole = "disabled"   -> "disable"
                     [] port.selectedRole = "root"       -> "root"
                     [] port.selectedRole = "designated" -> "designated"
                     [] port.selectedRole \in {"alternate", "backup"} -> "block"
  <2>1. port.selectedRole \in Roles
    BY DEF Timed
  <2>2. to \in Jumps
    BY <2>1, Zenon DEF Roles, Jumps
  <2>3. Jumped = [port EXCEPT !.prt = to, !.prtExec = FALSE]
    BY <1>2 DEF Jumped, ToPrt
  <2> HIDE DEF to
  <2>4. QED
    BY <2>2, <2>3 DEF Timed, TimedFields, Designated, Jumps
<1>3. QED
  BY <1>1, <1>2

\* The port that a turn leaves is the one it was run with.
LEMMA SomeTurn == (\E next : Runs("prt", next)) => Runs("prt", port')
BY DEF Runs

\* A turn of the transition machine that decides nothing about forwarding.
LEMMA UndecidedIsCareful ==
    ASSUME NEW i, NEW j, Timed(j), Designated(j), j.reRooted = i.reRooted,
           j.prt # "root_forward", j.prt # "designated_forward",
           \/ ~j.learn \/ j.forward \/ j.fdWhile = ForwardDelay
           \/ j.learn = i.learn /\ j.forward = i.forward /\ j.fdWhile = i.fdWhile
    PROVE  Careful("prt", i, j)
BY RstpPortAssumption DEF RstpPortAssumption, Careful, Timed

\* The states of the root port forward only when the delay is over.
LEMMA RootDelay ==
    ASSUME DelayInv, PrtRoot
    PROVE  /\ Runs("prt", port') /\ Careful("prt", port, port') /\ initiated' = initiated
           /\ port'.forward /\ ~port.forward => port.prt = "root_forward"
<1>1. Timed(port) /\ Designated(port) /\ initiated \in BOOLEAN
  BY DEF DelayInv, Ticking
<1>2. Runs("prt", port') /\ initiated' = initiated
  <2> USE DEF PrtRoot, PrtRootPort, PrtRootProposed, PrtRootAgreed, PrtReRoot, PrtReRooted,
              PrtRootForward, PrtRootLearn, Prt
  <2>1. \E next : Runs("prt", next)
    BY Zenon
  <2>2. initiated' = initiated
    BY <1>1
  <2>3. QED
    BY <2>1, <2>2, SomeTurn
<1>3. /\ Timed(Jumped) /\ Designated(Jumped)
      /\ Jumped.learn = port.learn /\ Jumped.forward = port.forward
      /\ Jumped.agreed = port.agreed /\ Jumped.reRooted = port.reRooted
      /\ Jumped.fdWhile = port.fdWhile
      /\ Jumped = port \/ Jumped.prt \in Jumps
  BY <1>1, JumpedDelay
<1>4. ForwardDelay \in Nat \ {0} /\ TimerModulus \in Nat /\ TimerModulus > ForwardDelay + 1
  BY RstpPortAssumption DEF RstpPortAssumption
<1>5. CASE PrtRootProposed \/ PrtRootAgreed \/ PrtReRoot \/ PrtReRooted
  <2>1. /\ Timed(port') /\ Designated(port') /\ port'.prt = "root"
        /\ port'.learn = port.learn /\ port'.forward = port.forward
        /\ port'.reRooted = port.reRooted /\ port'.fdWhile = port.fdWhile
    BY <1>3, <1>5, ZenonT(40) DEF PrtRootProposed, PrtRootAgreed, PrtReRoot, PrtReRooted, Prt, Runs,
                      ToPrt, Timed, TimedFields, Designated
  <2>2. QED
    BY <1>2, <2>1, UndecidedIsCareful
<1>6. CASE PrtRootForward \/ PrtRootLearn
  <2>1. /\ Timed(port') /\ Designated(port') /\ port'.prt = "root"
        /\ port'.reRooted = port.reRooted
        /\ port'.forward \/ port'.fdWhile = ForwardDelay
        /\ port'.forward /\ ~port.forward => port.prt = "root_forward"
    <3> USE <1>3, <1>4 DEF Prt, Runs, ToPrt, Timed, TimedFields, Designated, Jumps
    <3>1. CASE PrtRootForward
      BY <3>1 DEF PrtRootForward, Forwards
    <3>2. CASE PrtRootLearn
      BY <3>2 DEF PrtRootLearn, Learns
    <3>3. QED
      BY <1>6, <3>1, <3>2
  <2>2. QED
    BY <1>2, <2>1, UndecidedIsCareful
<1>7. CASE PrtRootPort
  <2> DEFINE i == Entered(Jumped, [Jumped EXCEPT !.role = "root"])
             soon == i.fdWhile = 0 \/ i.reRooted
             proposal == Proposal(i, "root_proposed", "root_agreed")
             next == CASE proposal # "none"                -> proposal
                       [] ~i.forward /\ ~i.reRoot         -> "reroot"
                       [] soon /\ i.learn /\ ~i.forward   -> "root_forward"
                       [] soon /\ ~i.learn                -> "root_learn"
                       [] i.reRoot /\ i.forward           -> "rerooted"
                       [] OTHER                           -> "root"
  <2>1. /\ Timed(i) /\ i.prt = "root" /\ Jumped.prt = "root"
        /\ i.learn = port.learn /\ i.forward = port.forward
        /\ i.agreed = port.agreed /\ i.reRooted = port.reRooted
        /\ i.fdWhile = port.fdWhile
    BY <1>3, <1>7 DEF PrtRootPort, Prt, Entered, Timed, TimedFields
  <2>2. proposal \in {"root_proposed", "root_agreed", "none"}
    BY Zenon DEF Proposal
  <2>3. /\ next \in {"root_proposed", "root_agreed", "reroot", "root_forward",
                     "root_learn", "rerooted", "root"}
    BY <2>2, Zenon
  <2>4. next = "root_forward" => soon /\ i.learn /\ ~i.forward
    <3> HIDE DEF proposal, i
    <3>1. QED
      BY <2>2
  <2>5. \/ port' = [i EXCEPT !.prt = next, !.prtExec = FALSE]
        \/ port' = [i EXCEPT !.prtExec = TRUE]
    BY <1>7 DEF PrtRootPort, Prt, Runs, ToPrt, Stays
  <2> HIDE DEF i, next, proposal
  <2>6. /\ Timed(port') /\ Designated(port')
        /\ port'.learn = port.learn /\ port'.forward = port.forward
        /\ port'.reRooted = port.reRooted /\ port'.fdWhile = port.fdWhile
    BY <2>1, <2>3, <2>5 DEF Timed, TimedFields, Designated
  <2>7. /\ port'.prt # "designated_forward"
        /\ port'.prt = "root_forward" => soon /\ i.learn /\ ~i.forward
    BY <2>1, <2>3, <2>4, <2>5 DEF Timed, TimedFields
  <2>8. QED
    BY <1>2, <2>1, <2>6, <2>7 DEF Careful
<1>8. QED
  BY <1>5, <1>6, <1>7 DEF PrtRoot

\* Those of the designated port do so as well when the neighbour has agreed.
LEMMA DesignatedDelay ==
    ASSUME DelayInv, PrtDesignated
    PROVE  /\ Runs("prt", port') /\ Careful("prt", port, port') /\ initiated' = initiated
           /\ port'.forward /\ ~port.forward => port.prt = "designated_forward"
<1>1. Timed(port) /\ Designated(port) /\ initiated \in BOOLEAN
  BY DEF DelayInv, Ticking
<1>2. Runs("prt", port') /\ initiated' = initiated
  <2> USE DEF PrtDesignated, PrtDesignatedPort, PrtDesignatedPropose, PrtDesignatedSynced,
              PrtDesignatedRetired, PrtDesignatedForward, PrtDesignatedLearn,
              PrtDesignatedDiscard, Prt
  <2>1. \E next : Runs("prt", next)
    BY Zenon
  <2>2. initiated' = initiated
    BY <1>1
  <2>3. QED
    BY <2>1, <2>2, SomeTurn
<1>3. /\ Timed(Jumped) /\ Designated(Jumped)
      /\ Jumped.learn = port.learn /\ Jumped.forward = port.forward
      /\ Jumped.agreed = port.agreed /\ Jumped.reRooted = port.reRooted
      /\ Jumped.fdWhile = port.fdWhile
      /\ Jumped = port \/ Jumped.prt \in Jumps
  BY <1>1, JumpedDelay
<1>4. ForwardDelay \in Nat \ {0} /\ TimerModulus \in Nat /\ TimerModulus > ForwardDelay + 1
  BY RstpPortAssumption DEF RstpPortAssumption
<1>5. CASE PrtDesignatedPropose \/ PrtDesignatedSynced \/ PrtDesignatedRetired
  <2>1. /\ Timed(port') /\ Designated(port') /\ port'.prt = "designated"
        /\ port'.learn = port.learn /\ port'.forward = port.forward
        /\ port'.reRooted = port.reRooted /\ port'.fdWhile = port.fdWhile
    BY <1>3, <1>5 DEF PrtDesignatedPropose, PrtDesignatedSynced, PrtDesignatedRetired,
                      Prt, Runs, ToPrt, Timed, TimedFields, Designated
  <2>2. QED
    BY <1>2, <2>1, UndecidedIsCareful
<1>6. CASE PrtDesignatedForward \/ PrtDesignatedLearn \/ PrtDesignatedDiscard
  <2>1. /\ Timed(port') /\ Designated(port') /\ port'.prt = "designated"
        /\ port'.reRooted = port.reRooted
        /\ port'.forward \/ port'.fdWhile = ForwardDelay
        /\ port'.forward /\ ~port.forward => port.prt = "designated_forward"
    <3> USE <1>3, <1>4 DEF Prt, Runs, ToPrt, Timed, TimedFields, Designated, Jumps
    <3>1. CASE PrtDesignatedForward
      BY <3>1 DEF PrtDesignatedForward, Forwards
    <3>2. CASE PrtDesignatedLearn
      BY <3>2 DEF PrtDesignatedLearn, Learns
    <3>3. CASE PrtDesignatedDiscard
      BY <3>3 DEF PrtDesignatedDiscard
    <3>4. QED
      BY <1>6, <3>1, <3>2, <3>3
  <2>2. QED
    BY <1>2, <2>1, UndecidedIsCareful
<1>7. CASE PrtDesignatedPort
  <2> DEFINE i == Entered(Jumped, [Jumped EXCEPT !.role = "designated"])
             may == (i.fdWhile = 0 \/ i.agreed) /\ i.learn /\ ~i.forward
             Others == {"designated_propose", "designated_synced", "designated_retired",
                        "designated_learn", "designated_discard"}
  <2>1. /\ Timed(i) /\ i.prt = "designated" /\ i.role = "designated"
        /\ i.learn = port.learn /\ i.forward = port.forward
        /\ i.agreed = port.agreed /\ i.reRooted = port.reRooted
        /\ i.fdWhile = port.fdWhile
    BY <1>3, <1>7 DEF PrtDesignatedPort, Prt, Entered, Timed, TimedFields, Designated
  <2>2. \/ \E next \in Others : port' = [i EXCEPT !.prt = next, !.prtExec = FALSE]
        \/ may /\ port' = [i EXCEPT !.prt = "designated_forward", !.prtExec = FALSE]
        \/ port' = [i EXCEPT !.prtExec = TRUE]
    BY <1>7, ZenonT(30) DEF PrtDesignatedPort, Prt, Runs, ToPrt, Stays
  <2> HIDE DEF i
  <2>3. /\ Timed(port') /\ Designated(port')
        /\ port'.learn = port.learn /\ port'.forward = port.forward
        /\ port'.agreed = port.agreed
        /\ port'.reRooted = port.reRooted /\ port'.fdWhile = port.fdWhile
    BY <2>1, <2>2 DEF Timed, TimedFields, Designated
  <2>4. /\ port'.prt # "root_forward"
        /\ port'.prt = "designated_forward" => may
    BY <2>1, <2>2 DEF Timed, TimedFields
  <2>5. QED
    BY <1>2, <2>1, <2>3, <2>4 DEF Careful
<1>8. QED
  BY <1>5, <1>6, <1>7 DEF PrtDesignated

\* The states that stop the port, and those in which it is stopped, decide
\* nothing and let it learn no more than before.
LEMMA OtherDelay ==
    ASSUME DelayInv, PrtOther
    PROVE  /\ Runs("prt", port') /\ Careful("prt", port, port')
           /\ initiated' = initiated \/ (initiated' = TRUE /\ ~port'.learn /\ port'.prt = "disable")
           /\ port'.forward => port.forward
<1>1. Timed(port) /\ Designated(port) /\ initiated \in BOOLEAN
  BY DEF DelayInv, Ticking
<1>2. Runs("prt", port') /\ (initiated' = initiated \/ (initiated' = TRUE /\ PrtInitPort))
  <2> USE DEF PrtOther, PrtInitPort, PrtDisablePort, PrtBlockPort, PrtAlternatePort,
              PrtAlternateProposed, PrtAlternateAgreed, Prt
  <2>1. \E next : Runs("prt", next)
    BY Zenon
  <2>2. CASE PrtInitPort
    BY <1>1, <2>1, <2>2, SomeTurn
  <2>3. CASE ~PrtInitPort
    <3>1. initiated' = initiated
      BY <1>1, <2>3
    <3>2. QED
      BY <2>1, <3>1, SomeTurn
  <2>4. QED
    BY <2>2, <2>3
<1>3. /\ Timed(Jumped) /\ Designated(Jumped)
      /\ Jumped.learn = port.learn /\ Jumped.forward = port.forward
      /\ Jumped.agreed = port.agreed /\ Jumped.reRooted = port.reRooted
      /\ Jumped.fdWhile = port.fdWhile
      /\ Jumped = port \/ Jumped.prt \in Jumps
  BY <1>1, JumpedDelay
<1>4. ForwardDelay \in Nat \ {0} /\ TimerModulus \in Nat /\ TimerModulus > ForwardDelay + 1
  BY RstpPortAssumption DEF RstpPortAssumption
<1>5. /\ Timed(port') /\ Designated(port')
      /\ port'.reRooted = port.reRooted
      /\ port'.prt \in {"disable", "disabled", "block", "alternate", "alternate_proposed",
                        "alternate_agreed"}
      /\ \/ ~port'.learn \/ port'.fdWhile = ForwardDelay
         \/ port'.learn = port.learn /\ port'.forward = port.forward
            /\ port'.fdWhile = port.fdWhile
      /\ PrtInitPort => ~port'.learn /\ port'.prt = "disable"
      /\ port'.forward => port.forward
  <2> USE <1>3, <1>4 DEF Runs, Prt, ToPrt, Timed, TimedFields, Designated
  <2>1. CASE PrtInitPort
    BY <2>1 DEF PrtInitPort
  <2>2. CASE PrtDisablePort \/ PrtBlockPort
    <3> DEFINE i == Entered(Jumped, Stopped(Jumped))
    <3>1. /\ Timed(i) /\ i.reRooted = port.reRooted /\ (i.forward => port.forward)
          /\ i.prt = Jumped.prt /\ Jumped.prt \in {"disable", "block"}
          /\ ~i.learn \/ (i.learn = port.learn /\ i.forward = port.forward
                          /\ i.fdWhile = port.fdWhile)
      BY <2>2 DEF PrtDisablePort, PrtBlockPort, Entered, Stopped
    <3>2. \/ port' = [i EXCEPT !.prtExec = TRUE]
          \/ port' = [i EXCEPT !.prt = "alternate", !.prtExec = FALSE]
          \/ port' = [i EXCEPT !.prt = "disabled", !.prtExec = FALSE]
      BY <2>2 DEF PrtDisablePort, PrtBlockPort, Stays
    <3>3. ~PrtInitPort
      BY <3>1 DEF PrtInitPort
    <3> HIDE DEF i
    <3>4. QED
      BY <3>1, <3>2, <3>3
  <2>3. CASE PrtAlternateProposed \/ PrtAlternateAgreed
    BY <2>3, ZenonT(40) DEF PrtInitPort, PrtAlternateProposed, PrtAlternateAgreed
  <2>4. CASE PrtAlternatePort
    <3> DEFINE i == Entered(Jumped, [Jumped EXCEPT !.fdWhile = ForwardDelay, !.synced = TRUE,
                                                   !.sync = FALSE, !.reRoot = FALSE])
               next == Proposal(i, "alternate_proposed", "alternate_agreed")
    <3>1. /\ Timed(i) /\ i.reRooted = port.reRooted /\ (i.forward => port.forward)
          /\ i.prt = "alternate" /\ Jumped.prt = "alternate"
          /\ \/ i.fdWhile = ForwardDelay
             \/ i.learn = port.learn /\ i.forward = port.forward /\ i.fdWhile = port.fdWhile
      BY <2>4 DEF PrtAlternatePort, Entered
    <3>2. next \in {"alternate_proposed", "alternate_agreed", "none"}
      BY Zenon DEF Proposal
    <3>3. \/ port' = [i EXCEPT !.prtExec = TRUE]
          \/ next # "none" /\ port' = [i EXCEPT !.prt = next, !.prtExec = FALSE]
      BY <2>4 DEF PrtAlternatePort, Stays
    <3>4. ~PrtInitPort
      BY <3>1 DEF PrtInitPort
    <3> HIDE DEF i, next
    <3>5. QED
      BY <3>1, <3>2, <3>3, <3>4
  <2>5. QED
    BY <2>1, <2>2, <2>3, <2>4 DEF PrtOther
<1>6. Careful("prt", port, port')
  BY <1>5, UndecidedIsCareful
<1>7. QED
  BY <1>2, <1>5, <1>6

\* A timer that runs out stops there, and one that is at zero wraps around.
LEMMA OneLess ==
    ASSUME NEW value \in 0 .. TimerModulus - 1
    PROVE  (value + TimerModulus - 1) % TimerModulus
              = IF value = 0 THEN TimerModulus - 1 ELSE value - 1
<1>1. TimerModulus \in Nat /\ TimerModulus > 1
  BY RstpPortAssumption DEF RstpPortAssumption
<1>2. QED
  BY <1>1, SMTT(30)

\* A second that the handler takes off the timer is counted.
LEMMA TickDelay ==
    ASSUME DelayInv, TickTest \/ TickLoad \/ TickStore
    PROVE  DelayInv' /\ port'.forward = port.forward
<1>1. Timed(port) /\ Designated(port) /\ Ticking
  BY DEF DelayInv
<1>2. ForwardDelay \in Nat \ {0} /\ TimerModulus \in Nat /\ TimerModulus > ForwardDelay + 1
  BY RstpPortAssumption DEF RstpPortAssumption
<1>3. UNCHANGED <<turn, approved, initiated>>
  BY DEF TickTest, TickLoad, TickStore, Untouched
<1>4. CASE TickTest \/ TickLoad
  <2>1. UNCHANGED <<port, due, torn>>
    BY <1>4 DEF TickTest, TickLoad
  <2>2. Ticking'
    BY <1>1, <1>2, <1>3, <1>4, <2>1 DEF Ticking, Timed, TickTest, TickLoad
  <2>3. QED
    BY <1>3, <2>1, <2>2 DEF DelayInv, Trusted, Waiting, Decided
<1>5. CASE TickStore
  <2> DEFINE left == IF tick.value = 0 THEN TimerModulus - 1 ELSE tick.value - 1
  <2>1. tick.value \in 0 .. TimerModulus - 1
    BY <1>1 DEF Ticking
  <2>2. /\ port' = [port EXCEPT !.fdWhile = left]
        /\ due' = IF due < ForwardDelay THEN due + 1 ELSE due
        /\ torn' = (torn \/ tick.pc = "torn") /\ tick' = Quiet
        /\ tick.pc \in {"loaded", "torn"}
    BY <1>5, <2>1, OneLess DEF TickStore
  <2>3. left \in 0 .. TimerModulus - 1
    BY <1>2, <2>1
  <2>4. due \in 0 .. ForwardDelay /\ torn \in BOOLEAN
    BY <1>1 DEF Ticking
  <2>5. Timed(port') /\ Designated(port') /\ port'.fdWhile = left
        /\ port'.learn = port.learn /\ port'.forward = port.forward /\ port'.prt = port.prt
        /\ port'.agreed = port.agreed /\ port'.reRooted = port.reRooted
    <3> HIDE DEF left
    <3>1. QED
      BY <1>1, <2>2, <2>3 DEF Timed, TimedFields, Designated
  <2>6. Ticking'
    BY <1>1, <1>2, <1>3, <2>2, <2>4 DEF Ticking, Quiet
  <2>7. ASSUME Trusted' PROVE Waiting' /\ Decided'
    <3>1. Waiting /\ Decided /\ tick.pc = "loaded"
      BY <1>3, <2>2, <2>4, <2>5, <2>7 DEF DelayInv, Trusted
    <3>2. tick.value = port.fdWhile
      BY <1>1, <3>1 DEF Ticking
    <3>3. Waiting'
      BY <1>2, <2>1, <2>2, <2>4, <2>5, <3>1, <3>2 DEF Waiting
    <3>4. due = ForwardDelay => due' = ForwardDelay
      BY <1>2, <2>2
    <3>5. Decided'
      BY <1>3, <2>5, <3>1, <3>4 DEF Decided
    <3>6. QED
      BY <3>3, <3>5
  <2>8. QED
    BY <2>5, <2>6, <2>7 DEF DelayInv
<1>6. QED
  BY <1>4, <1>5

\* Nothing is trusted before the port was initiated.
LEMMA InitDelay == Init => DelayInv
<1> SUFFICES ASSUME Init PROVE DelayInv
  OBVIOUS
<1>1. PICK role \in GarbageRoles, flag \in BOOLEAN, time \in {0, 1} :
         port = Garbage(role, flag, time)
  BY DEF Init
<1>2. role[2] \in Roles
  BY DEF GarbageRoles, Roles
<1>3. ForwardDelay \in Nat \ {0} /\ TimerModulus \in Nat /\ TimerModulus > ForwardDelay + 1
  BY RstpPortAssumption DEF RstpPortAssumption
<1>4. Timed(port) /\ Designated(port)
  BY <1>1, <1>2, <1>3 DEF Garbage, Timed, TimedFields, Designated
<1>5. Ticking /\ ~Trusted
  <2>1. tick = Quiet /\ due = 0 /\ approved = FALSE /\ initiated = FALSE /\ torn = FALSE
    BY DEF Init
  <2>2. 0 \in 0 .. TimerModulus - 1 /\ 0 \in 0 .. ForwardDelay
    BY <1>3
  <2>3. /\ tick \in [pc : {"idle", "tested", "loaded", "torn"}, value : 0 .. TimerModulus - 1]
        /\ tick.pc # "loaded"
    BY <2>1, <2>2 DEF Quiet
  <2>4. Ticking
    BY <2>1, <2>2, <2>3, Zenon DEF Ticking
  <2>5. QED
    BY <2>1, <2>4 DEF Trusted
<1>6. QED
  BY <1>4, <1>5 DEF DelayInv

\* Every step keeps the invariant of the delay, and one that begins to forward
\* is a turn of a state that was decided on in time.
LEMMA StepDelay ==
    ASSUME DelayInv, [Next]_vars
    PROVE  /\ DelayInv'
           /\ port'.forward /\ ~port.forward =>
                 \/ due >= ForwardDelay
                 \/ port.role = "designated" /\ approved
                 \/ port.reRooted \/ torn \/ ~initiated
<1>1. "prt" \in Machines /\ ForwardDelay \in Nat
  BY RstpPortAssumption DEF RstpPortAssumption, Machines
<1>2. CASE Pim
  BY <1>2, PimDelay
<1>3. CASE PrtRoot
  <2>1. DelayInv'
    BY <1>1, <1>3, RootDelay, CarefulKeeps
  <2>2. port'.forward /\ ~port.forward => port.prt = "root_forward"
    BY <1>3, RootDelay
  <2>3. QED
    BY <1>1, <2>1, <2>2 DEF DelayInv, Trusted, Decided
<1>4. CASE PrtDesignated
  <2>1. DelayInv' /\ Runs("prt", port')
    BY <1>1, <1>4, DesignatedDelay, CarefulKeeps
  <2>2. port'.forward /\ ~port.forward => port.prt = "designated_forward"
    BY <1>4, DesignatedDelay
  <2>3. turn = "prt"
    BY <2>1 DEF Runs
  <2>4. QED
    BY <1>1, <2>1, <2>2, <2>3 DEF DelayInv, Designated, Trusted, Decided
<1>5. CASE PrtOther
  BY <1>1, <1>5, OtherDelay, CarefulKeeps
<1>6. CASE PstState \/ OtherPorts \/ Prs
  BY <1>6, RestDelay
<1>7. CASE TickTest \/ TickLoad \/ TickStore
  BY <1>7, TickDelay
<1>8. CASE UNCHANGED vars
  BY <1>8 DEF vars, DelayInv, Timed, Designated, Ticking, Trusted, Waiting, Decided
<1>9. QED
  BY <1>2, <1>3, <1>4, <1>5, <1>6, <1>7, <1>8 DEF Next

\* However the timer signal falls between the machines, a port begins to
\* forward a whole delay after it began to learn, or with the neighbour's
\* agreement (prt_root_port() and prt_designated_port() of prt.c decide it).
THEOREM DelayIsWhole == Spec => ForwardsAfterDelay
<1>1. Init => DelayInv
  BY InitDelay
<1>2. DelayInv /\ [Next]_vars => DelayInv'
  BY StepDelay
<1>3. DelayInv /\ [Next]_vars =>
         [port'.forward /\ ~port.forward =>
            \/ due >= ForwardDelay
            \/ port.role = "designated" /\ approved
            \/ port.reRooted \/ torn \/ ~initiated]_vars
  BY StepDelay
<1>4. QED
  BY <1>1, <1>2, <1>3, PTL DEF Spec, ForwardsAfterDelay
=============================================================================

--------------------------- MODULE PortInfoProofs ---------------------------
(***************************************************************************)
(* Proofs about the hand-over of BPDUs to the state machines of rstpd, for *)
(* any number of ports, any BPDUs and any width of the timers: no port     *)
(* goes deaf (the tokens), better information is kept (InfoInv), and the   *)
(* roles and the priority vectors form one tree with a single root port    *)
(* (TreeInv).                                                              *)
(***************************************************************************)
EXTENDS PortInfo, TLAPS

\* The priority vector that the bridge announces itself is one.
LEMMA OwnTyped ==
  ASSUME NEW p \in Port \cup {0}
  PROVE  OwnPriority(p) \in Vector
<1>1. p \in Byte
  BY ConstAssumption DEF Port, Byte
<1>2. \A i \in 1 .. 7 : OwnPriority(p)[i] \in Byte
  <2> SUFFICES ASSUME NEW i \in 1 .. 7 PROVE OwnPriority(p)[i] \in Byte
    OBVIOUS
  <2>1. OwnPriority(p)[i] = CASE i \in {1, 6} -> Own [] i \in 2 .. 5 -> 0 [] i = 7 -> p
    BY DEF OwnPriority
  <2>2. Own \in Byte /\ 0 \in Byte
    BY ConstAssumption DEF Byte
  <2>3. i \in {1, 6} \/ i \in 2 .. 5 \/ i = 7
    OBVIOUS
  <2> HIDE DEF Byte
  <2>4. QED
    BY <1>1, <2>1, <2>2, <2>3, Zenon
<1>3. OwnPriority(p) = [i \in 1 .. 7 |-> OwnPriority(p)[i]]
  BY DEF OwnPriority
<1>4. QED
  BY <1>2, <1>3 DEF Vector

\* A sum of bytes is a byte and a carry.
LEMMA ByteCarry ==
  ASSUME NEW n \in Nat
  PROVE  n % 256 \in Byte /\ n \div 256 \in Nat
BY DEF Byte

\* Adding the path cost leaves a vector of bytes (prs.c:53).
LEMMA PathTyped ==
  ASSUME NEW v \in Vector
  PROVE  AddPathCost(v) \in Vector
<1> DEFINE b1 == v[2] + 64
           b2 == v[3] + 13 + b1 \div 256
           b3 == v[4] + 3 + b2 \div 256
           b4 == v[5] + b3 \div 256
           sum(i) == CASE i = 2 -> b1 % 256
                       [] i = 3 -> b2 % 256
                       [] i = 4 -> b3 % 256
                       [] i = 5 -> b4 % 256
                       [] i \in {1, 6, 7} -> v[i]
<1>1. \A i \in 1 .. 7 : v[i] \in Byte /\ v[i] \in Nat
  BY SMTT(30) DEF Vector, Byte
<1>2. b1 \in Nat
  BY <1>1
<1>3. b2 \in Nat
  <2>1. b1 \div 256 \in Nat
    BY <1>2, ByteCarry
  <2> HIDE DEF b1
  <2>2. QED
    BY <1>1, <2>1
<1>4. b3 \in Nat
  <2>1. b2 \div 256 \in Nat
    BY <1>3, ByteCarry
  <2> HIDE DEF b2
  <2>2. QED
    BY <1>1, <2>1
<1>5. b4 \in Nat
  <2>1. b3 \div 256 \in Nat
    BY <1>4, ByteCarry
  <2> HIDE DEF b3
  <2>2. QED
    BY <1>1, <2>1
<1>6. b1 % 256 \in Byte /\ b2 % 256 \in Byte /\ b3 % 256 \in Byte /\ b4 % 256 \in Byte
  BY <1>2, <1>3, <1>4, <1>5, ByteCarry
<1>7. \A i \in 1 .. 7 : sum(i) \in Byte
  <2> HIDE DEF b1, b2, b3, b4
  <2>1. QED
    BY <1>1, <1>6
<1>8. AddPathCost(v) = [i \in 1 .. 7 |-> sum(i)]
  BY Zenon DEF AddPathCost
<1> HIDE DEF sum
<1>9. QED
  BY <1>7, <1>8 DEF Vector

\* What a role selection computes for a port is a vector again.
LEMMA OfferTyped ==
  ASSUME TypeOK, NEW p \in Port
  PROVE  DesignatedPriority(p) \in Vector
<1>1. OwnPriority(p) \in Vector
  BY OwnTyped
<1>2. \A r \in Port : RootPath(r) \in Vector
  BY PathTyped DEF RootPath, TypeOK, Interface
<1>3. RootPort # {} => (CHOOSE r \in RootPort : TRUE) \in Port
  BY DEF RootPort, Candidate
<1>4. \A i \in 1 .. 7 : DesignatedPriority(p)[i] \in Byte
  BY <1>1, <1>2, <1>3 DEF DesignatedPriority, Vector
<1>5. QED
  BY <1>4 DEF DesignatedPriority, Vector

\* Selecting roles leaves a port a port.
LEMMA ReselectedTyped ==
  ASSUME TypeOK, NEW p \in Port
  PROVE  Reselected(p) \in Interface
<1>1. port[p] \in Interface
  BY DEF TypeOK
<1>2. DesignatedPriority(p) \in Vector
  BY OfferTyped
<1>3. BridgeTimes \in Times
  BY ConstAssumption
<1> DEFINE i == port[p]
           worse == ~Less(DesignatedPriority(p), i.portPriority)
           role == CASE i.infoIs = "disabled" -> "disabled"
              [] i.infoIs \in {"aged", "mine"} -> "designated"
              [] i.infoIs = "received" /\ p \in RootPort -> "root"
              [] i.infoIs = "received" /\ p \notin RootPort /\ worse ->
                   IF i.portPriority[6] # Own THEN "alternate" ELSE "backup"
              [] i.infoIs = "received" /\ p \notin RootPort /\ ~worse -> "designated"
           update == CASE i.infoIs = "disabled" -> i.updtInfo
              [] i.infoIs = "aged" -> TRUE
              [] i.infoIs = "mine" -> i.updtInfo \/ DesignatedPriority(p) # i.portPriority
                                      \/ BridgeTimes # i.portTimes
              [] i.infoIs = "received" -> p \notin RootPort /\ ~worse
<1>4. role \in Role
  BY <1>1 DEF Role, Interface
<1>5. update \in BOOLEAN
  BY <1>1, Zenon DEF Interface
<1>6. QED
  BY <1>1, <1>2, <1>3, <1>4, <1>5 DEF Reselected, Interface

\* What recordTimes() and updtRcvdInfoWhile() leave is a number of seconds.
LEMMA LifeTyped ==
  ASSUME NEW times \in Times
  PROVE  LifeOf(times) \in Nat
BY DEF LifeOf, Times

\* The machines of one port write that port and its buffer only.
LEMMA TurnTyped ==
  ASSUME TypeOK, NextTurn
  PROVE  turn' \in ({"prx", "pim"} \X Port) \cup {<<"prs", 0>>}
<1>1. CASE turn = <<"prs", 0>>
  BY <1>1, ConstAssumption DEF NextTurn, Port
<1>2. ASSUME NEW p \in Port, turn = <<"prx", p>>
      PROVE  turn' \in ({"prx", "pim"} \X Port) \cup {<<"prs", 0>>}
  BY <1>2 DEF NextTurn
<1>3. ASSUME NEW p \in Port, turn = <<"pim", p>>
      PROVE  turn' \in ({"prx", "pim"} \X Port) \cup {<<"prs", 0>>}
  <2>1. CASE p < N
    <3>1. p + 1 \in Port
      BY <2>1, ConstAssumption DEF Port
    <3>2. turn[1] = "pim" /\ turn[2] = p /\ turn[2] < N /\ ~(turn[2] = N)
      BY <1>3, <2>1, ConstAssumption DEF Port
    <3>3. turn' = <<"prx", turn[2] + 1>>
      BY <3>2 DEF NextTurn
    <3>4. QED
      BY <3>1, <3>2, <3>3
  <2>2. CASE p = N
    BY <1>3, <2>2, ConstAssumption DEF NextTurn
  <2>3. QED
    BY <2>1, <2>2, ConstAssumption DEF Port
<1>4. QED
  BY <1>1, <1>2, <1>3 DEF TypeOK

\* The state after registration is typed.
LEMMA InitTyped == Init => TypeOK
<1> SUFFICES ASSUME Init PROVE TypeOK
  OBVIOUS
<1>1. \A p \in Port : OwnPriority(p) \in Vector
  BY OwnTyped
<1>2. buf \in [Port -> Bpdu]
  BY <1>1, ConstAssumption DEF Init, Bpdu, BpduType, BpduRole
<1>3. \A p \in Port, garbage \in BOOLEAN : Registered(p, garbage) \in Interface
  BY <1>1, ConstAssumption DEF Registered, Interface, PimState, Role
<1>4. port \in [Port -> Interface]
  BY <1>3 DEF Init
<1>5. sock \in [Port -> Seq(Bpdu)]
  BY DEF Init
<1>6. turn \in ({"prx", "pim"} \X Port) \cup {<<"prs", 0>>}
  BY ConstAssumption DEF Init, Port
<1>7. QED
  BY <1>2, <1>4, <1>5, <1>6, ConstAssumption DEF Init, TypeOK

\* A BPDU whose flags were overwritten is one.
LEMMA FrameMarked ==
  ASSUME NEW frame \in Bpdu
  PROVE  Marked(frame) \in Bpdu
BY DEF Marked, Bpdu, BpduRole

\* The receiver and the neighbours keep the types.
LEMMA ReceiverTyped ==
  ASSUME TypeOK, NEW p \in Port,
         ReceiverStep(p) \/ \E f \in Frame[p] : Send(p, f)
  PROVE  TypeOK'
<1>1. ASSUME NEW f \in Frame[p], Send(p, f) PROVE TypeOK'
  <2>1. f \in Bpdu
    BY ConstAssumption
  <2>2. sock' \in [Port -> Seq(Bpdu)]
    BY <1>1, <2>1 DEF Send, TypeOK
  <2>3. QED
    BY <1>1, <2>2, ConstAssumption, SMTT(30) DEF Send, TypeOK
<1>2. CASE TakeToken(p)
  BY <1>2, SMTT(30) DEF TakeToken, TypeOK
<1>3. CASE Receive(p)
  <2>1. sock[p] \in Seq(Bpdu)
    BY DEF TypeOK
  <2>2. Head(sock[p]) \in Bpdu /\ Tail(sock[p]) \in Seq(Bpdu)
    BY <1>3, <2>1 DEF Receive
  <2>3. QED
    BY <1>3, <2>2 DEF Receive, TypeOK
<1>4. CASE ReceiveFails(p)
  BY <1>4 DEF ReceiveFails, TypeOK
<1>5. CASE PostReceived(p)
  BY <1>5, SMTT(30) DEF PostReceived, TypeOK
<1>6. QED
  BY <1>1, <1>2, <1>3, <1>4, <1>5 DEF ReceiverStep

\* An assignment to one port's field keeps the type of the function.
LEMMA WriteTyped ==
  ASSUME NEW S, NEW f \in [Port -> S], NEW p \in Port, NEW x \in S
  PROVE  [f EXCEPT ![p] = x] \in [Port -> S]
OBVIOUS

\* The port receive machine keeps the types.
LEMMA PrxTyped ==
  ASSUME TypeOK, NEW p \in Port, Prx(p)
  PROVE  TypeOK'
<1>1. port[p] \in Interface /\ NextTurn
  BY DEF TypeOK, Prx, PrxDiscard, PrxReceive
<1>2. turn' \in ({"prx", "pim"} \X Port) \cup {<<"prs", 0>>}
  BY <1>1, TurnTyped
<1>3. CASE PrxDiscard(p)
  <2> DEFINE entered == [port[p] EXCEPT !.rcvdMsg = @ /\ port[p].prxExec]
  <2>1. (port[p].rcvdMsg /\ port[p].prxExec) \in BOOLEAN
    BY Zenon
  <2>2. entered \in Interface
    BY <1>1, <2>1 DEF Interface
  <2>3. [entered EXCEPT !.prx = "receive", !.prxExec = FALSE] \in Interface
    BY <2>2 DEF Interface
  <2>4. [entered EXCEPT !.prxExec = TRUE] \in Interface
    BY <2>2 DEF Interface
  <2> HIDE DEF entered
  <2>5. rcvd' \in [Port -> Nat] /\ port' \in [Port -> Interface]
    <3>1. CASE /\ rcvd[p] > 0
               /\ rcvd' = [rcvd EXCEPT ![p] = @ - 1]
               /\ port' = [port EXCEPT ![p] =
                             [entered EXCEPT !.prx = "receive", !.prxExec = FALSE]]
      BY <2>3, <3>1, WriteTyped DEF TypeOK
    <3>2. CASE /\ rcvd[p] = 0
               /\ port' = [port EXCEPT ![p] = [entered EXCEPT !.prxExec = TRUE]]
               /\ UNCHANGED rcvd
      BY <2>4, <3>2, WriteTyped DEF TypeOK
    <3>3. QED
      BY <1>3, <3>1, <3>2, Zenon DEF PrxDiscard, entered
  <2>6. QED
    BY <1>2, <1>3, <2>5 DEF PrxDiscard, TypeOK
<1>4. CASE PrxReceive(p)
  <2> DEFINE msg == port[p].rcvdMsg \/ ~port[p].prxExec
  <2>1. msg \in BOOLEAN
    BY Zenon
  <2>2. [port[p] EXCEPT !.prxExec = FALSE] \in Interface
    BY <1>1 DEF Interface
  <2>3. [port[p] EXCEPT !.prxExec = TRUE, !.rcvdMsg = msg] \in Interface
    BY <1>1, <2>1 DEF Interface
  <2> HIDE DEF msg
  <2>4. /\ rcvd' \in [Port -> Nat]
        /\ processed' \in [Port -> Nat]
        /\ port' \in [Port -> Interface]
    <3>1. CASE /\ ~msg
               /\ rcvd[p] > 0
               /\ rcvd' = [rcvd EXCEPT ![p] = @ - 1]
               /\ processed' = [processed EXCEPT ![p] = @ + 1]
               /\ port' = [port EXCEPT ![p].prxExec = FALSE]
      <4>1. port' = [port EXCEPT ![p] = [port[p] EXCEPT !.prxExec = FALSE]]
        BY <3>1 DEF TypeOK
      <4>2. port' \in [Port -> Interface]
        BY <2>2, <4>1, WriteTyped DEF TypeOK
      <4>3. QED
        BY <3>1, <4>2, SMTT(30) DEF TypeOK
    <3>2. CASE /\ msg \/ rcvd[p] = 0
               /\ port' = [port EXCEPT ![p].prxExec = TRUE, ![p].rcvdMsg = msg]
               /\ UNCHANGED <<rcvd, processed>>
      <4>1. port' = [port EXCEPT ![p] = [port[p] EXCEPT !.prxExec = TRUE, !.rcvdMsg = msg]]
        BY <1>1, <2>1, <3>2 DEF TypeOK, Interface
      <4>2. port' \in [Port -> Interface]
        BY <2>3, <4>1, WriteTyped DEF TypeOK
      <4>3. QED
        BY <3>2, <4>2 DEF TypeOK
    <3>3. QED
      BY <1>4, <3>1, <3>2, Zenon DEF PrxReceive, msg
  <2>5. QED
    BY <1>2, <1>4, <2>4 DEF PrxReceive, TypeOK
<1>5. QED
  BY <1>3, <1>4 DEF Prx

\* What every step of the port information machine leaves typed
LEMMA PimStepTyped ==
  ASSUME TypeOK, NEW p \in Port, NEW from, NEW next \in Interface, PimStep(p, from, next)
  PROVE  /\ port' \in [Port -> Interface]
         /\ turn' \in ({"prx", "pim"} \X Port) \cup {<<"prs", 0>>}
<1>1. NextTurn /\ port' = [port EXCEPT ![p] = next]
  BY DEF PimStep
<1>2. port' \in [Port -> Interface]
  BY <1>1, WriteTyped DEF TypeOK
<1>3. QED
  BY <1>1, <1>2, TurnTyped

\* A move to another state leaves a port a port.
LEMMA GotoTyped ==
  ASSUME NEW i \in Interface, NEW state \in PimState
  PROVE  Goto(i, state) \in Interface
BY DEF Goto, Interface

\* Every step of the port information machine is a PimStep that may also mark
\* the BPDU in the buffer or post processedBPDU.
PimShape(p, from, next) ==
  /\ next \in Interface
  /\ PimStep(p, from, next)
  /\ buf' \in [Port -> Bpdu]
  /\ \/ processed' = processed
     \/ processed' = [processed EXCEPT ![p] = @ + 1]

\* A call of a state function of the information machine keeps the types.
LEMMA ShapeTyped ==
  ASSUME TypeOK, NEW p \in Port, NEW from, NEW next, PimShape(p, from, next)
  PROVE  TypeOK'
<1>1. /\ port' \in [Port -> Interface]
      /\ turn' \in ({"prx", "pim"} \X Port) \cup {<<"prs", 0>>}
  BY PimStepTyped DEF PimShape
<1>2. processed' = processed \/ processed' = [processed EXCEPT ![p] = @ + 1]
  BY Zenon DEF PimShape
<1>3. processed' \in [Port -> Nat]
  <2>1. processed \in [Port -> Nat] /\ processed[p] + 1 \in Nat
    BY DEF TypeOK
  <2>2. QED
    BY <1>2, <2>1, WriteTyped
<1>4. QED
  BY <1>1, <1>3 DEF PimShape, PimStep, TypeOK

\* The states that end the treatment of a message are such calls.
LEMMA DoneShape ==
  ASSUME TypeOK, NEW p \in Port, NEW from, NEW next \in Interface, PimDone(p, from, next)
  PROVE  PimShape(p, from, [Goto(next, "current") EXCEPT !.rcvdMsg = FALSE])
<1>1. Goto(next, "current") \in Interface
  BY GotoTyped DEF PimState
<1>2. [Goto(next, "current") EXCEPT !.rcvdMsg = FALSE] \in Interface
  BY <1>1 DEF Interface
<1>3. QED
  BY <1>2 DEF PimDone, PimShape, TypeOK

\* The port information machine keeps the types.
LEMMA PimTyped ==
  ASSUME TypeOK, NEW p \in Port, Pim(p)
  PROVE  TypeOK'
<1> DEFINE i == port[p]
<1>1. i \in Interface
  BY DEF TypeOK
<1>2. ASSUME NEW s \in PimState PROVE Goto(i, s) \in Interface
  BY <1>1, GotoTyped
<1>3. ASSUME NEW from, NEW next \in Interface, PimStep(p, from, next),
             UNCHANGED <<buf, processed>>
      PROVE  TypeOK'
  <2>1. PimShape(p, from, next)
    BY <1>3 DEF PimShape, TypeOK
  <2>2. QED
    BY <2>1, ShapeTyped
<1>4. ASSUME NEW from, NEW next \in Interface, PimDone(p, from, next)
      PROVE  TypeOK'
  BY <1>4, DoneShape, ShapeTyped
<1>5. CASE PimDisabled(p)
  <2>1. Goto(i, "aged") \in Interface
    BY <1>2 DEF PimState
  <2>2. [Goto(i, "aged") EXCEPT
          !.rcvdMsg = FALSE, !.rcvdInfoWhile = 0, !.infoIs = "disabled",
          !.reselect = TRUE, !.selected = FALSE] \in Interface
    BY <2>1 DEF Interface
  <2>3. QED
    BY <1>3, <1>5, <2>2 DEF PimDisabled
<1>6. CASE PimAged(p)
  <2> DEFINE entered == IF i.pimExec THEN i
                        ELSE [i EXCEPT !.infoIs = "aged", !.reselect = TRUE, !.selected = FALSE]
  <2>1. entered \in Interface
    BY <1>1 DEF Interface
  <2>2. Goto(entered, "update") \in Interface
    BY <2>1, GotoTyped DEF PimState
  <2>3. [entered EXCEPT !.pimExec = TRUE] \in Interface
    BY <2>1, ZenonT(40) DEF Interface
  <2>4. PimStep(p, "aged", IF entered.selected /\ entered.updtInfo
                           THEN Goto(entered, "update")
                           ELSE [entered EXCEPT !.pimExec = TRUE])
        /\ UNCHANGED <<buf, processed>>
    BY <1>6, Zenon DEF PimAged
  <2> HIDE DEF entered
  <2>5. QED
    BY <1>3, <2>2, <2>3, <2>4
<1>7. CASE PimUpdate(p)
  <2>1. Goto(i, "current") \in Interface
    BY <1>2 DEF PimState
  <2>2. [Goto(i, "current") EXCEPT
          !.portPriority = i.designatedPriority, !.portTimes = i.designatedTimes,
          !.updtInfo = FALSE, !.infoIs = "mine"] \in Interface
    BY <1>1, <2>1 DEF Interface
  <2>3. QED
    BY <1>3, <1>7, <2>2 DEF PimUpdate
<1>8. CASE PimCurrent(p)
  <2> DEFINE update == i.selected /\ i.updtInfo
             age    == i.infoIs = "received" /\ i.rcvdInfoWhile = 0 /\ ~i.updtInfo /\ ~i.rcvdMsg
             take   == i.rcvdMsg /\ ~i.updtInfo
             next   == CASE update -> Goto(i, "update")
                         [] age    -> Goto(i, "aged")
                         [] take   -> Goto(i, "receive")
                         [] OTHER  -> i
  <2>1. PimStep(p, "current", next) /\ UNCHANGED <<buf, processed>>
    BY <1>8, Zenon DEF PimCurrent
  <2>2. Goto(i, "update") \in Interface /\ Goto(i, "aged") \in Interface
        /\ Goto(i, "receive") \in Interface
    BY <1>2 DEF PimState
  <2>3. next \in Interface
    <3> HIDE DEF update, age, take
    <3>1. QED
      BY <1>1, <2>2
  <2> HIDE DEF next
  <2>4. QED
    BY <1>3, <2>1, <2>3
<1>9. CASE PimReceive(p)
  <2> DEFINE frame == Marked(buf[p])
             heard == IF frame.type = "tcn" THEN i
                      ELSE [i EXCEPT !.msgPriority = frame.prio, !.msgTimes = frame.times]
             kind  == Kind(frame.type, frame.role, frame.prio, frame.times,
                           i.portPriority, i.portTimes)
  <2>1. frame \in Bpdu
    BY FrameMarked DEF TypeOK
  <2>2. heard \in Interface
    <3> HIDE DEF frame
    <3>1. QED
      BY <1>1, <2>1 DEF Interface, Bpdu
  <2>3. kind \in PimState
    BY DEF Kind, PimState
  <2>4. Goto(heard, kind) \in Interface
    <3> HIDE DEF heard, kind
    <3>1. QED
      BY <2>2, <2>3, GotoTyped
  <2>5. /\ PimStep(p, "receive", Goto(heard, kind))
        /\ buf' = [buf EXCEPT ![p] = frame]
        /\ UNCHANGED processed
    BY <1>9, Zenon DEF PimReceive
  <2> HIDE DEF frame, heard, kind
  <2>6. buf' \in [Port -> Bpdu]
    BY <2>1, <2>5, WriteTyped DEF TypeOK
  <2>7. PimShape(p, "receive", Goto(heard, kind))
    BY <2>4, <2>5, <2>6 DEF PimShape
  <2>8. QED
    BY <2>7, ShapeTyped
<1>10. CASE PimSuperior(p)
  <2>1. LifeOf(i.msgTimes) \in Nat
    BY <1>1, LifeTyped DEF Interface
  <2>2. [i EXCEPT !.portPriority = i.msgPriority, !.portTimes = i.msgTimes,
                  !.rcvdInfoWhile = LifeOf(i.msgTimes), !.infoIs = "received",
                  !.reselect = TRUE, !.selected = FALSE] \in Interface
    BY <1>1, <2>1 DEF Interface
  <2>3. QED
    BY <1>4, <1>10, <2>2 DEF PimSuperior
<1>11. CASE PimRepeated(p)
  <2>1. LifeOf(i.portTimes) \in Nat
    BY <1>1, LifeTyped DEF Interface
  <2>2. [i EXCEPT !.rcvdInfoWhile = LifeOf(i.portTimes)] \in Interface
    BY <1>1, <2>1 DEF Interface
  <2>3. QED
    BY <1>4, <1>11, <2>2 DEF PimRepeated
<1>12. CASE PimInferior(p) \/ PimNotDesignated(p) \/ PimOther(p)
  BY <1>1, <1>4, <1>12 DEF PimInferior, PimNotDesignated, PimOther
<1>13. QED
  BY <1>5, <1>6, <1>7, <1>8, <1>9, <1>10, <1>11, <1>12 DEF Pim

\* The port role selection machine keeps the types.
LEMMA PrsTyped ==
  ASSUME TypeOK, Prs
  PROVE  TypeOK'
<1>1. turn' \in ({"prx", "pim"} \X Port) \cup {<<"prs", 0>>}
  BY TurnTyped DEF Prs, PrsSelect, PrsWatch
<1>2. CASE PrsSelect
  <2>1. port' \in [Port -> Interface]
    BY <1>2, ReselectedTyped DEF PrsSelect
  <2>2. QED
    BY <1>1, <1>2, <2>1 DEF PrsSelect, TypeOK
<1>3. CASE PrsWatch
  <2>1. prsExec' \in BOOLEAN
    BY <1>3, Zenon DEF PrsWatch
  <2>2. QED
    BY <1>1, <1>3, <2>1 DEF PrsWatch, TypeOK
<1>4. QED
  BY <1>2, <1>3 DEF Prs

\* The timer signal keeps the types.
LEMMA TickTyped ==
  ASSUME TypeOK, NEW p \in Port, Tick(p)
  PROVE  TypeOK'
<1>1. port[p] \in Interface /\ port[p].rcvdInfoWhile \in Nat
  BY DEF TypeOK, Interface
<1>2. CASE TickTest(p)
  BY <1>2 DEF TickTest, TypeOK
<1>3. CASE TickLoad(p)
  BY <1>1, <1>3 DEF TickLoad, TypeOK
<1>4. CASE TickStore(p)
  <2> DEFINE left == (tick[p][2] - 1) % TimerModulus
  <2>1. tick[p][2] \in Nat
    BY DEF TypeOK
  <2>2. left \in Nat
    BY <2>1, ConstAssumption
  <2> HIDE DEF left
  <2>3. [port[p] EXCEPT !.rcvdInfoWhile = left] \in Interface
    BY <1>1, <2>2 DEF Interface
  <2>4. port' = [port EXCEPT ![p] = [port[p] EXCEPT !.rcvdInfoWhile = left]]
    BY <1>4 DEF TickStore, TypeOK, left
  <2>5. port' \in [Port -> Interface]
    BY <2>3, <2>4, WriteTyped DEF TypeOK
  <2>6. QED
    BY <1>4, <2>5 DEF TickStore, TypeOK
<1>5. QED
  BY <1>2, <1>3, <1>4 DEF Tick

\* Every step keeps the types.
LEMMA StepTyped == TypeOK /\ [Next]_vars => TypeOK'
<1>1. ASSUME TypeOK, Next PROVE TypeOK'
  BY <1>1, PrsTyped, PrxTyped, PimTyped, ReceiverTyped, TickTyped DEF Next, FsmStep
<1>2. ASSUME TypeOK, UNCHANGED vars PROVE TypeOK'
  BY <1>2 DEF vars, TypeOK
<1>3. QED
  BY <1>1, <1>2

\* The state of rstpd keeps its types: the semaphores never go below zero and
\* every priority vector stays one of seven bytes.
THEOREM Typed == Spec => []TypeOK
BY InitTyped, StepTyped, PTL DEF Spec
-----------------------------------------------------------------------------
(* A port is deaf only after an error: its token is somewhere *)

Entering(i) == i.prx = "receive" /\ ~i.prxExec

\* A message the port information machine will still take: it forgets the flag
\* when it leaves its first state.
Pending(i) == i.prx = "receive" /\ i.rcvdMsg /\ i.pim # "disabled"

Alive(p) ==
  \/ processed[p] > 0
  \/ rcvd[p] > 0
  \/ recv \in {<<"recv", p>>, <<"post", p>>}
  \/ Entering(port[p])
  \/ Pending(port[p])

\* The receive machine sets rcvdMsg only after the other has left that state
FirstPass(p) ==
  port[p].pim = "disabled" /\ port[p].prx = "receive"
    => turn = <<"pim", p>> /\ ~port[p].prxExec

TokenInv == \A p \in Port : (p \in failed \/ Alive(p)) /\ FirstPass(p)

\* At first each port's token is in its semaphore "processed".
LEMMA TokenInit == Init => TokenInv
BY DEF Init, TokenInv, Alive, FirstPass, Registered

\* The receiver moves a port's token from one semaphore to the other.
LEMMA TokenReceiver ==
  ASSUME TypeOK, TokenInv, NEW p \in Port,
         ReceiverStep(p) \/ \E f \in Frame[p] : Send(p, f)
  PROVE  TokenInv'
<1>1. port' = port /\ turn' = turn
  BY DEF ReceiverStep, Send, TakeToken, Receive, ReceiveFails, PostReceived
<1>2. ASSUME NEW q \in Port, q \in failed \/ Alive(q)
      PROVE  q \in failed' \/ Alive(q)'
  <2>1. CASE \E f \in Frame[p] : Send(p, f)
    BY <1>1, <1>2, <2>1 DEF Send, Alive
  <2>2. CASE TakeToken(p)
    BY <1>1, <1>2, <2>2 DEF TakeToken, Alive, Idle, TypeOK
  <2>3. CASE Receive(p)
    BY <1>1, <1>2, <2>3 DEF Receive, Alive
  <2>4. CASE ReceiveFails(p)
    BY <1>1, <1>2, <2>4 DEF ReceiveFails, Alive
  <2>5. CASE PostReceived(p)
    BY <1>1, <1>2, <2>5 DEF PostReceived, Alive, TypeOK
  <2>6. QED
    BY <2>1, <2>2, <2>3, <2>4, <2>5 DEF ReceiverStep
<1>3. QED
  BY <1>1, <1>2 DEF TokenInv, FirstPass

\* A step of a machine of port p moves the turn, so no other port is in the
\* pass that FirstPass speaks of, and it leaves their tokens alone.
LEMMA TokenElsewhere ==
  ASSUME TypeOK, TokenInv, NEW p \in Port, NEW q \in Port, q # p,
         turn = <<"prx", p>> \/ turn = <<"pim", p>>,
         port'[q] = port[q], processed'[q] = processed[q], rcvd'[q] = rcvd[q],
         recv' = recv, failed' = failed
  PROVE  (q \in failed' \/ Alive(q)') /\ FirstPass(q)'
<1>1. turn # <<"pim", q>>
  OBVIOUS
<1>2. ~(port[q].pim = "disabled" /\ port[q].prx = "receive")
  BY <1>1 DEF TokenInv, FirstPass
<1>3. q \in failed' \/ Alive(q)'
  BY DEF TokenInv, Alive
<1>4. QED
  BY <1>2, <1>3 DEF FirstPass

\* The receive machine takes the token and gives it back or leaves it to the message.
LEMMA TokenPrx ==
  ASSUME TypeOK, TokenInv, NEW p \in Port, Prx(p)
  PROVE  TokenInv'
<1>1. /\ turn = <<"prx", p>> /\ turn' = <<"pim", p>>
      /\ recv' = recv /\ failed' = failed
  BY DEF Prx, PrxDiscard, PrxReceive, Runs, NextTurn
<1>2. /\ port[p] \in Interface
      /\ \A q \in Port : q # p => /\ port'[q] = port[q]
                                  /\ processed'[q] = processed[q]
                                  /\ rcvd'[q] = rcvd[q]
  BY DEF Prx, PrxDiscard, PrxReceive, TypeOK
<1>3. ~(port[p].pim = "disabled" /\ port[p].prx = "receive")
  BY <1>1 DEF TokenInv, FirstPass
<1>4. p \in failed \/ Alive(p)
  BY DEF TokenInv
<1>5. CASE PrxDiscard(p)
  <2>1. /\ port'[p].pim = port[p].pim
        /\ processed' = processed
        /\ \/ Entering(port'[p])
           \/ port'[p].prx = "discard" /\ rcvd' = rcvd
    <3> DEFINE entered == [port[p] EXCEPT !.rcvdMsg = @ /\ port[p].prxExec]
    <3>1. DOMAIN entered = DOMAIN port[p] /\ entered.pim = port[p].pim
          /\ entered.prx = port[p].prx /\ entered.prxExec = port[p].prxExec
      BY <1>2 DEF Interface
    <3>2. processed' = processed /\ port[p].prx = "discard"
      BY <1>5 DEF PrxDiscard
    <3> DEFINE receive == [entered EXCEPT !.prx = "receive", !.prxExec = FALSE]
               discard == [entered EXCEPT !.prxExec = TRUE]
    <3>3. \/ port' = [port EXCEPT ![p] = receive]
          \/ port' = [port EXCEPT ![p] = discard] /\ rcvd' = rcvd
      BY <1>5, Zenon DEF PrxDiscard
    <3>4. receive.pim = entered.pim /\ receive.prx = "receive" /\ ~receive.prxExec
      BY <1>2, <3>1 DEF Interface
    <3>5. discard.pim = entered.pim /\ discard.prx = entered.prx
      BY <1>2, <3>1 DEF Interface
    <3> HIDE DEF entered, receive, discard
    <3>6. \/ port'[p] = receive
          \/ port'[p] = discard /\ rcvd' = rcvd
      BY <3>3 DEF TypeOK
    <3>7. QED
      BY <3>1, <3>2, <3>4, <3>5, <3>6 DEF Entering
  <2>2. port[p].prx = "discard"
    BY <1>5 DEF PrxDiscard
  <2>3. (p \in failed' \/ Alive(p)') /\ FirstPass(p)'
    BY <1>1, <1>4, <2>1, <2>2 DEF Alive, FirstPass, Entering, Pending
  <2>4. QED
    BY <1>1, <1>2, <2>3, TokenElsewhere DEF TokenInv
<1>6. CASE PrxReceive(p)
  <2>1. port[p].pim # "disabled"
    BY <1>3, <1>6 DEF PrxReceive
  <2>2. /\ port'[p].pim = port[p].pim
        /\ port'[p].prx = "receive"
        /\ \/ Entering(port'[p])
           \/ /\ processed' = processed
              /\ rcvd' = rcvd
              /\ port'[p].rcvdMsg <=> port[p].rcvdMsg \/ ~port[p].prxExec
    <3> DEFINE msg   == port[p].rcvdMsg \/ ~port[p].prxExec
               again == [port[p] EXCEPT !.prxExec = FALSE]
               kept  == [port[p] EXCEPT !.prxExec = TRUE, !.rcvdMsg = msg]
    <3>1. \/ port' = [port EXCEPT ![p] = again]
          \/ port' = [port EXCEPT ![p] = kept] /\ processed' = processed /\ rcvd' = rcvd
      <4> HIDE DEF msg
      <4>1. \/ port' = [port EXCEPT ![p].prxExec = FALSE]
            \/ /\ port' = [port EXCEPT ![p].prxExec = TRUE, ![p].rcvdMsg = msg]
               /\ processed' = processed /\ rcvd' = rcvd
        BY <1>6, Zenon DEF PrxReceive, msg
      <4>2. msg \in BOOLEAN
        BY Zenon DEF msg
      <4>3. QED
        BY <1>2, <4>1, <4>2 DEF TypeOK, Interface
    <3>2. again.pim = port[p].pim /\ again.prx = port[p].prx /\ ~again.prxExec
      BY <1>2 DEF Interface
    <3>3. kept.pim = port[p].pim /\ kept.prx = port[p].prx /\ kept.rcvdMsg = msg
      <4> HIDE DEF msg
      <4>1. QED
        BY <1>2 DEF Interface
    <3>4. port[p].prx = "receive"
      BY <1>6 DEF PrxReceive
    <3> HIDE DEF again, kept
    <3>5. \/ port'[p] = again
          \/ port'[p] = kept /\ processed' = processed /\ rcvd' = rcvd
      BY <3>1 DEF TypeOK
    <3>6. QED
      BY <3>2, <3>3, <3>4, <3>5, Zenon DEF Entering
  <2>3. (p \in failed' \/ Alive(p)') /\ FirstPass(p)'
    BY <1>1, <1>4, <2>1, <2>2 DEF Alive, FirstPass, Entering, Pending
  <2>4. QED
    BY <1>1, <1>2, <2>3, TokenElsewhere DEF TokenInv
<1>7. QED
  BY <1>5, <1>6 DEF Prx

\* A step of the port information machine that keeps the BPDU it was given, or
\* that leaves its first state, or that posts processedBPDU, keeps the token.
LEMMA TokenPimStep ==
  ASSUME TypeOK, TokenInv, NEW p \in Port, NEW from, NEW next \in Interface,
         PimStep(p, from, next), next.pim # "disabled",
         next.prx = port[p].prx, next.prxExec = port[p].prxExec,
         \/ next.rcvdMsg = port[p].rcvdMsg /\ processed' = processed
         \/ from = "disabled" /\ processed' = processed
         \/ processed' = [processed EXCEPT ![p] = @ + 1]
  PROVE  TokenInv'
<1>1. /\ turn = <<"pim", p>> /\ port[p].pim = from
      /\ port'[p] = next
      /\ recv' = recv /\ failed' = failed /\ rcvd' = rcvd
      /\ \A q \in Port : q # p => port'[q] = port[q] /\ processed'[q] = processed[q]
  BY DEF PimStep, Runs, TypeOK
<1>2. p \in failed \/ Alive(p)
  BY DEF TokenInv
<1>3. p \in failed' \/ Alive(p)'
  <2>1. CASE processed' = [processed EXCEPT ![p] = @ + 1]
    BY <2>1 DEF Alive, TypeOK
  <2>2. CASE processed' = processed
    BY <1>1, <1>2, <2>2 DEF Alive, Entering, Pending, TypeOK
  <2>3. QED
    BY <2>1, <2>2
<1>4. FirstPass(p)'
  BY <1>1 DEF FirstPass
<1>5. QED
  BY <1>1, <1>3, <1>4, TokenElsewhere DEF TokenInv

\* The information machine gives back the token of the message it has treated.
LEMMA TokenPim ==
  ASSUME TypeOK, TokenInv, NEW p \in Port, Pim(p)
  PROVE  TokenInv'
<1> DEFINE i == port[p]
<1>1. i \in Interface
  BY DEF TypeOK
<1>2. ASSUME NEW from, NEW next \in Interface, PimDone(p, from, next),
             next.prx = i.prx, next.prxExec = i.prxExec
      PROVE  TokenInv'
  <2> DEFINE done == [Goto(next, "current") EXCEPT !.rcvdMsg = FALSE]
  <2>1. /\ done \in Interface /\ done.pim = "current"
        /\ done.prx = next.prx /\ done.prxExec = next.prxExec
    BY DEF Interface, Goto, PimState
  <2>2. PimStep(p, from, done) /\ processed' = [processed EXCEPT ![p] = @ + 1]
    BY <1>2 DEF PimDone
  <2> HIDE DEF done
  <2>3. QED
    BY <1>2, <2>1, <2>2, TokenPimStep
<1>3. ASSUME NEW j \in Interface, NEW s \in PimState
      PROVE  /\ Goto(j, s) \in Interface
             /\ Goto(j, s).pim = s
             /\ Goto(j, s).prx = j.prx
             /\ Goto(j, s).prxExec = j.prxExec
             /\ Goto(j, s).rcvdMsg = j.rcvdMsg
  BY DEF Interface, Goto
<1>4. CASE PimDisabled(p)
  <2> DEFINE next == [Goto(i, "aged") EXCEPT
                        !.rcvdMsg = FALSE, !.rcvdInfoWhile = 0, !.infoIs = "disabled",
                        !.reselect = TRUE, !.selected = FALSE]
  <2>1. /\ next \in Interface /\ next.pim = "aged"
        /\ next.prx = i.prx /\ next.prxExec = i.prxExec
    BY <1>1 DEF Interface, Goto, PimState
  <2>2. PimStep(p, "disabled", next) /\ processed' = processed
    BY <1>4 DEF PimDisabled
  <2> HIDE DEF next
  <2>3. QED
    BY <2>1, <2>2, TokenPimStep
<1>5. CASE PimAged(p)
  <2> DEFINE entered == IF i.pimExec THEN i
                        ELSE [i EXCEPT !.infoIs = "aged", !.reselect = TRUE, !.selected = FALSE]
             wait == [entered EXCEPT !.pimExec = TRUE]
             next == IF entered.selected /\ entered.updtInfo
                     THEN Goto(entered, "update") ELSE wait
  <2>1. /\ entered \in Interface /\ entered.pim = i.pim /\ entered.rcvdMsg = i.rcvdMsg
        /\ entered.prx = i.prx /\ entered.prxExec = i.prxExec
    BY <1>1 DEF Interface
  <2>2. PimStep(p, "aged", next) /\ processed' = processed
    BY <1>5, Zenon DEF PimAged
  <2>3. i.pim = "aged"
    BY <2>2 DEF PimStep
  <2> HIDE DEF entered
  <2>4. /\ wait \in Interface /\ wait.pim = entered.pim /\ wait.rcvdMsg = entered.rcvdMsg
        /\ wait.prx = entered.prx /\ wait.prxExec = entered.prxExec
    BY <2>1 DEF Interface
  <2>5. LET n == Goto(entered, "update")
        IN  /\ n \in Interface /\ n.pim = "update" /\ n.rcvdMsg = entered.rcvdMsg
            /\ n.prx = entered.prx /\ n.prxExec = entered.prxExec
    BY <1>3, <2>1 DEF PimState
  <2> HIDE DEF wait
  <2>6. /\ next \in Interface /\ next.pim # "disabled" /\ next.rcvdMsg = i.rcvdMsg
        /\ next.prx = i.prx /\ next.prxExec = i.prxExec
    BY <2>1, <2>3, <2>4, <2>5
  <2> HIDE DEF next
  <2>7. QED
    BY <2>2, <2>6, TokenPimStep
<1>6. CASE PimUpdate(p)
  <2> DEFINE next == [Goto(i, "current") EXCEPT
                        !.portPriority = i.designatedPriority,
                        !.portTimes = i.designatedTimes,
                        !.updtInfo = FALSE, !.infoIs = "mine"]
  <2>1. /\ next \in Interface /\ next.pim = "current" /\ next.rcvdMsg = i.rcvdMsg
        /\ next.prx = i.prx /\ next.prxExec = i.prxExec
    BY <1>1 DEF Interface, Goto, PimState
  <2>2. PimStep(p, "update", next) /\ processed' = processed
    BY <1>6 DEF PimUpdate
  <2> HIDE DEF next
  <2>3. QED
    BY <2>1, <2>2, TokenPimStep
<1>7. CASE PimCurrent(p)
  <2>1. PICK next \in {Goto(i, "update"), Goto(i, "aged"), Goto(i, "receive"), i} :
          PimStep(p, "current", next) /\ processed' = processed
    BY <1>7, Zenon DEF PimCurrent
  <2>2. i.pim = "current"
    BY <2>1 DEF PimStep
  <2>3. /\ next \in Interface /\ next.pim # "disabled" /\ next.rcvdMsg = i.rcvdMsg
        /\ next.prx = i.prx /\ next.prxExec = i.prxExec
    BY <1>1, <1>3, <2>1, <2>2 DEF PimState
  <2>4. QED
    BY <2>1, <2>3, TokenPimStep
<1>8. CASE PimReceive(p)
  <2> DEFINE frame == Marked(buf[p])
             heard == IF frame.type = "tcn" THEN i
                      ELSE [i EXCEPT !.msgPriority = frame.prio, !.msgTimes = frame.times]
             kind  == Kind(frame.type, frame.role, frame.prio, frame.times,
                           i.portPriority, i.portTimes)
  <2>1. frame \in Bpdu
    BY FrameMarked DEF TypeOK
  <2>2. kind \in PimState /\ kind # "disabled"
    BY DEF Kind, PimState
  <2>3. PimStep(p, "receive", Goto(heard, kind)) /\ processed' = processed
    BY <1>8, Zenon DEF PimReceive
  <2> HIDE DEF frame, kind
  <2>4. /\ heard \in Interface /\ heard.rcvdMsg = i.rcvdMsg
        /\ heard.prx = i.prx /\ heard.prxExec = i.prxExec
    BY <1>1, <2>1, ZenonT(40) DEF Interface, Bpdu
  <2> HIDE DEF heard
  <2>5. QED
    BY <1>3, <2>2, <2>3, <2>4, TokenPimStep
<1>9. CASE PimSuperior(p)
  <2>1. LifeOf(i.msgTimes) \in Nat
    BY <1>1, LifeTyped DEF Interface
  <2> DEFINE next == [i EXCEPT !.portPriority = i.msgPriority, !.portTimes = i.msgTimes,
                        !.rcvdInfoWhile = LifeOf(i.msgTimes), !.infoIs = "received",
                        !.reselect = TRUE, !.selected = FALSE]
  <2>2. next \in Interface /\ next.prx = i.prx /\ next.prxExec = i.prxExec
    BY <1>1, <2>1 DEF Interface
  <2>3. QED
    BY <1>2, <1>9, <2>2 DEF PimSuperior
<1>10. CASE PimRepeated(p)
  <2>1. LifeOf(i.portTimes) \in Nat
    BY <1>1, LifeTyped DEF Interface
  <2> DEFINE next == [i EXCEPT !.rcvdInfoWhile = LifeOf(i.portTimes)]
  <2>2. next \in Interface /\ next.prx = i.prx /\ next.prxExec = i.prxExec
    BY <1>1, <2>1 DEF Interface
  <2>3. QED
    BY <1>2, <1>10, <2>2 DEF PimRepeated
<1>11. CASE PimInferior(p) \/ PimNotDesignated(p) \/ PimOther(p)
  BY <1>1, <1>2, <1>11 DEF PimInferior, PimNotDesignated, PimOther
<1>12. QED
  BY <1>4, <1>5, <1>6, <1>7, <1>8, <1>9, <1>10, <1>11 DEF Pim

\* Role selection and the timer signal hold no tokens.
LEMMA TokenRest ==
  ASSUME TypeOK, TokenInv, Prs \/ \E p \in Port : Tick(p)
  PROVE  TokenInv'
<1>1. ASSUME Prs PROVE TokenInv'
  <2>1. /\ turn = <<"prs", 0>> /\ processed' = processed /\ rcvd' = rcvd
        /\ recv' = recv /\ failed' = failed
    BY <1>1 DEF Prs, PrsSelect, PrsWatch, Runs
  <2>2. ASSUME NEW p \in Port
        PROVE  /\ port'[p].prx = port[p].prx /\ port'[p].prxExec = port[p].prxExec
               /\ port'[p].pim = port[p].pim /\ port'[p].rcvdMsg = port[p].rcvdMsg
    <3>1. CASE PrsWatch
      BY <3>1 DEF PrsWatch
    <3>2. CASE PrsSelect
      <4>1. port'[p] = Reselected(p)
        BY <3>2 DEF PrsSelect
      <4>2. port[p] \in Interface
        BY DEF TypeOK
      <4>3. QED
        BY <4>1, <4>2 DEF Reselected, Interface
    <3>3. QED
      BY <1>1, <3>1, <3>2 DEF Prs
  <2>3. \A p \in Port : ~(port[p].pim = "disabled" /\ port[p].prx = "receive")
    BY <2>1 DEF TokenInv, FirstPass
  <2>4. QED
    BY <2>1, <2>2, <2>3 DEF TokenInv, Alive, FirstPass, Entering, Pending
<1>2. ASSUME NEW p \in Port, Tick(p) PROVE TokenInv'
  <2>1. /\ turn' = turn /\ processed' = processed /\ rcvd' = rcvd
        /\ recv' = recv /\ failed' = failed
    BY <1>2 DEF Tick, TickTest, TickLoad, TickStore
  <2>2. ASSUME NEW q \in Port
        PROVE  /\ port'[q].prx = port[q].prx /\ port'[q].prxExec = port[q].prxExec
               /\ port'[q].pim = port[q].pim /\ port'[q].rcvdMsg = port[q].rcvdMsg
    <3>1. port[q] \in Interface
      BY DEF TypeOK
    <3>2. CASE TickTest(p) \/ TickLoad(p)
      BY <3>2 DEF TickTest, TickLoad
    <3>3. CASE TickStore(p)
      <4> DEFINE left == (tick[p][2] - 1) % TimerModulus
      <4>1. port' = [port EXCEPT ![p].rcvdInfoWhile = left]
        BY <3>3 DEF TickStore
      <4> HIDE DEF left
      <4>2. port'[q] = port[q] \/ port'[q] = [port[q] EXCEPT !.rcvdInfoWhile = left]
        BY <4>1 DEF TypeOK
      <4>3. QED
        BY <3>1, <4>2 DEF Interface
    <3>4. QED
      BY <1>2, <3>2, <3>3 DEF Tick
  <2>3. QED
    BY <2>1, <2>2 DEF TokenInv, Alive, FirstPass, Entering, Pending
<1>3. QED
  BY <1>1, <1>2

\* Every step keeps the tokens.
LEMMA TokenStep == TypeOK /\ TokenInv /\ [Next]_vars => TokenInv'
<1>1. ASSUME TypeOK, TokenInv, Next PROVE TokenInv'
  BY <1>1, TokenRest, TokenPrx, TokenPim, TokenReceiver DEF Next, FsmStep
<1>2. ASSUME TokenInv, UNCHANGED vars PROVE TokenInv'
  BY <1>2 DEF vars, TokenInv, Alive, FirstPass, Entering, Pending
<1>3. QED
  BY <1>1, <1>2

\* Whatever BPDUs arrive and however the threads interleave, a port stops
\* receiving only after recv() has failed on it: the permission to fill its
\* buffer is never lost between the receiver, the semaphores and the machines.
THEOREM NeverDeaf == Spec => []DeafOnlyAfterError
<1>1. TypeOK /\ TokenInv => DeafOnlyAfterError
  <2> SUFFICES ASSUME TypeOK, TokenInv, NEW p \in Port, p \notin failed
               PROVE  Tokens(p) > 0
    BY DEF DeafOnlyAfterError
  <2>1. Alive(p)
    BY DEF TokenInv
  <2>2. processed[p] \in Nat /\ rcvd[p] \in Nat
    BY DEF TypeOK
  <2>3. QED
    BY <2>1, <2>2 DEF Alive, Tokens, Entering, Pending
<1>2. QED
  BY <1>1, InitTyped, StepTyped, TokenInit, TokenStep, PTL DEF Spec
-----------------------------------------------------------------------------
(* What a port has recorded is given up for something better only, and a *)
(* designated port announces this bridge                                 *)

Announces(i) ==
  i.selected /\ i.selectedRole = "designated" /\ ~i.updtInfo => i.infoIs = "mine"

\* What PimReceive found when it called a BPDU superior
NoWorse(i) ==
  i.pim = "superior" => \/ Less(i.msgPriority, i.portPriority)
                        \/ i.msgPriority = i.portPriority

InfoInv == \A p \in Port : Announces(port[p]) /\ NoWorse(port[p])

Improves(i, j) ==
  i.infoIs = "received" /\ j.infoIs = "received" => ~Less(i.portPriority, j.portPriority)

\* Of two priority vectors only one is better.
LEMMA LessAsymmetric ==
  ASSUME NEW v \in Vector, NEW w \in Vector, Less(v, w) \/ v = w
  PROVE  ~Less(w, v)
<1>1. \A i \in 1 .. 7 : v[i] \in Nat /\ w[i] \in Nat
  <2>1. \A i \in 1 .. 7 : v[i] \in Byte /\ w[i] \in Byte
    BY DEF Vector
  <2>2. \A n \in Byte : n \in Nat
    BY DEF Byte
  <2>3. QED
    BY <2>1, <2>2, Zenon
<1>2. CASE v = w
  BY <1>1, <1>2 DEF Less
<1>3. CASE Less(v, w)
  <2> SUFFICES ASSUME Less(w, v) PROVE FALSE
    OBVIOUS
  <2>1. PICK i \in 1 .. 7 : v[i] < w[i] /\ \A j \in 1 .. i - 1 : v[j] = w[j]
    BY <1>3 DEF Less
  <2>2. PICK k \in 1 .. 7 : w[k] < v[k] /\ \A j \in 1 .. k - 1 : w[j] = v[j]
    BY DEF Less
  <2>3. i < k \/ i = k \/ k < i
    OBVIOUS
  <2>4. QED
    BY <1>1, <2>1, <2>2, <2>3
<1>4. QED
  BY <1>2, <1>3

\* Writing one port keeps the invariant if the new record does.
LEMMA InfoWrite ==
  ASSUME TypeOK, InfoInv, NEW p \in Port, NEW next \in Interface,
         port' = [port EXCEPT ![p] = next],
         Announces(next), NoWorse(next), Improves(port[p], next)
  PROVE  InfoInv' /\ \A q \in Port : Improves(port[q], port'[q])
<1>1. \A q \in Port : port'[q] = IF q = p THEN next ELSE port[q]
  BY DEF TypeOK
<1>2. \A q \in Port : Improves(port[q], port[q])
  BY LessAsymmetric DEF TypeOK, Interface, Improves
<1>3. QED
  BY <1>1, <1>2 DEF InfoInv

\* A step that does not touch the fields the properties speak of
SameInfo(i, j) ==
  /\ j.selected = i.selected /\ j.selectedRole = i.selectedRole
  /\ j.updtInfo = i.updtInfo /\ j.infoIs = i.infoIs
  /\ j.portPriority = i.portPriority
  /\ j.designatedPriority = i.designatedPriority

\* A port whose information did not change announces and improves as before.
LEMMA InfoSame ==
  ASSUME NEW i \in Interface, NEW j \in Interface, SameInfo(i, j), Announces(i)
  PROVE  Announces(j) /\ Improves(i, j)
BY LessAsymmetric DEF SameInfo, Announces, Improves, Interface

\* The same, and NoWorse too: neither the state of the port information
\* machine nor the message it has recorded changes.
LEMMA InfoKept ==
  ASSUME TypeOK, InfoInv, NEW p \in Port, NEW next \in Interface,
         port' = [port EXCEPT ![p] = next], SameInfo(port[p], next),
         next.pim = port[p].pim, next.msgPriority = port[p].msgPriority
  PROVE  InfoInv' /\ \A q \in Port : Improves(port[q], port'[q])
<1>1. port[p] \in Interface /\ Announces(port[p]) /\ NoWorse(port[p])
  BY DEF TypeOK, InfoInv
<1>2. Announces(next) /\ Improves(port[p], next)
  BY <1>1, InfoSame
<1>3. NoWorse(next)
  BY <1>1 DEF NoWorse, SameInfo
<1>4. QED
  BY <1>2, <1>3, InfoWrite

\* The receive machine leaves what the port has recorded.
LEMMA PrxWrites ==
  ASSUME TypeOK, NEW p \in Port, Prx(p)
  PROVE  \E next \in Interface :
           /\ port' = [port EXCEPT ![p] = next] /\ SameInfo(port[p], next)
           /\ next.pim = port[p].pim /\ next.msgPriority = port[p].msgPriority
<1>1. port[p] \in Interface
  BY DEF TypeOK
<1>2. PICK msg \in BOOLEAN, exec \in BOOLEAN, state \in {"discard", "receive"} :
        port' = [port EXCEPT ![p] =
                   [port[p] EXCEPT !.prx = state, !.prxExec = exec, !.rcvdMsg = msg]]
  <2>1. CASE PrxDiscard(p)
    <3> DEFINE m == port[p].rcvdMsg /\ port[p].prxExec
               entered == [port[p] EXCEPT !.rcvdMsg = m]
               receive == [entered EXCEPT !.prx = "receive", !.prxExec = FALSE]
               discard == [entered EXCEPT !.prxExec = TRUE]
    <3>1. port' = [port EXCEPT ![p] = receive] \/ port' = [port EXCEPT ![p] = discard]
      BY <2>1, Zenon DEF PrxDiscard
    <3>2. m \in BOOLEAN
      BY Zenon
    <3> HIDE DEF m
    <3>3. receive = [port[p] EXCEPT !.prx = "receive", !.prxExec = FALSE, !.rcvdMsg = m]
      BY <1>1, <3>2 DEF Interface
    <3>4. discard = [port[p] EXCEPT !.prx = "discard", !.prxExec = TRUE, !.rcvdMsg = m]
      <4>1. port[p].prx = "discard"
        BY <2>1 DEF PrxDiscard
      <4>2. QED
        BY <1>1, <3>2, <4>1 DEF Interface
    <3> HIDE DEF receive, discard
    <3>5. QED
      BY <3>1, <3>2, <3>3, <3>4
  <2>2. CASE PrxReceive(p)
    <3> DEFINE m == port[p].rcvdMsg \/ ~port[p].prxExec
    <3>1. \/ port' = [port EXCEPT ![p].prxExec = FALSE]
          \/ port' = [port EXCEPT ![p].prxExec = TRUE, ![p].rcvdMsg = m]
      BY <2>2, Zenon DEF PrxReceive
    <3>2. m \in BOOLEAN /\ port[p].rcvdMsg \in BOOLEAN
      BY <1>1, Zenon DEF Interface
    <3> HIDE DEF m
    <3>3. port[p].prx = "receive"
      BY <2>2 DEF PrxReceive
    <3>4. CASE port' = [port EXCEPT ![p].prxExec = FALSE]
      <4>1. port' = [port EXCEPT ![p] = [port[p] EXCEPT
                      !.prx = "receive", !.prxExec = FALSE, !.rcvdMsg = port[p].rcvdMsg]]
        BY <1>1, <3>3, <3>4 DEF TypeOK, Interface
      <4>2. QED
        BY <3>2, <4>1
    <3>5. CASE port' = [port EXCEPT ![p].prxExec = TRUE, ![p].rcvdMsg = m]
      <4>1. port' = [port EXCEPT ![p] = [port[p] EXCEPT
                      !.prx = "receive", !.prxExec = TRUE, !.rcvdMsg = m]]
        BY <1>1, <3>2, <3>3, <3>5, ZenonT(40) DEF TypeOK, Interface
      <4>2. QED
        BY <3>2, <4>1
    <3>6. QED
      BY <3>1, <3>4, <3>5
  <2>3. QED
    BY <2>1, <2>2 DEF Prx
<1> DEFINE next == [port[p] EXCEPT !.prx = state, !.prxExec = exec, !.rcvdMsg = msg]
<1>3. /\ next \in Interface /\ SameInfo(port[p], next)
      /\ next.pim = port[p].pim /\ next.msgPriority = port[p].msgPriority
  BY <1>1 DEF Interface, SameInfo
<1> HIDE DEF next
<1>4. port' = [port EXCEPT ![p] = next]
  BY <1>2 DEF next
<1>5. QED
  BY <1>3, <1>4

\* The receive machine does not touch the information.
LEMMA InfoPrx ==
  ASSUME TypeOK, InfoInv, NEW p \in Port, Prx(p)
  PROVE  InfoInv' /\ \A q \in Port : Improves(port[q], port'[q])
BY PrxWrites, InfoKept

\* Nor does the timer signal touch it.
LEMMA TickWrites ==
  ASSUME TypeOK, NEW p \in Port, TickStore(p)
  PROVE  \E next \in Interface :
           /\ port' = [port EXCEPT ![p] = next] /\ SameInfo(port[p], next)
           /\ next.pim = port[p].pim /\ next.msgPriority = port[p].msgPriority
<1> DEFINE left == (tick[p][2] - 1) % TimerModulus
           next == [port[p] EXCEPT !.rcvdInfoWhile = left]
<1>1. port[p] \in Interface
  BY DEF TypeOK
<1>2. left \in Nat
  <2>1. tick[p][2] \in Nat
    BY DEF TypeOK
  <2>2. QED
    BY <2>1, ConstAssumption
<1>3. port' = [port EXCEPT ![p] = next]
  <2> HIDE DEF left
  <2>1. port' = [port EXCEPT ![p].rcvdInfoWhile = left]
    BY DEF TickStore, left
  <2>2. QED
    BY <2>1 DEF TypeOK
<1> HIDE DEF left
<1>4. /\ next \in Interface /\ SameInfo(port[p], next)
      /\ next.pim = port[p].pim /\ next.msgPriority = port[p].msgPriority
  BY <1>1, <1>2 DEF Interface, SameInfo
<1> HIDE DEF next
<1>5. QED
  BY <1>3, <1>4

\* The timer signal ages the information and does not change it.
LEMMA InfoTick ==
  ASSUME TypeOK, InfoInv, NEW p \in Port, Tick(p)
  PROVE  InfoInv' /\ \A q \in Port : Improves(port[q], port'[q])
<1>1. CASE port' = port
  <2>1. \A q \in Port : Improves(port[q], port[q])
    BY <1>1, LessAsymmetric DEF TypeOK, Interface, Improves
  <2>2. QED
    BY <1>1, <2>1 DEF InfoInv
<1>2. CASE TickStore(p)
  BY <1>2, TickWrites, InfoKept
<1>3. QED
  BY <1>1, <1>2 DEF Tick, TickTest, TickLoad

\* Role selection gives designated ports the bridge's own information.
LEMMA InfoPrs ==
  ASSUME TypeOK, InfoInv, Prs
  PROVE  InfoInv' /\ \A q \in Port : Improves(port[q], port'[q])
<1>1. ASSUME NEW q \in Port, NEW i \in Interface,
             i.portPriority = port[q].portPriority
      PROVE  Improves(port[q], i)
  BY <1>1, LessAsymmetric DEF TypeOK, Interface, Improves
<1>2. CASE PrsWatch
  BY <1>1, <1>2 DEF PrsWatch, InfoInv, TypeOK
<1>3. CASE PrsSelect
  <2>1. ASSUME NEW q \in Port
        PROVE  /\ port'[q] = Reselected(q) /\ Reselected(q) \in Interface
               /\ Announces(Reselected(q)) /\ NoWorse(Reselected(q))
               /\ Improves(port[q], Reselected(q))
    <3> DEFINE i == port[q]
               worse == ~Less(DesignatedPriority(q), i.portPriority)
    <3>1. i \in Interface /\ NoWorse(i)
      BY DEF TypeOK, InfoInv
    <3>2. port'[q] = Reselected(q) /\ Reselected(q) \in Interface
      BY <1>3, ReselectedTyped DEF PrsSelect
    <3>3. /\ Reselected(q).pim = i.pim /\ Reselected(q).infoIs = i.infoIs
          /\ Reselected(q).portPriority = i.portPriority
          /\ Reselected(q).msgPriority = i.msgPriority
      BY <3>1 DEF Reselected, Interface
    <3>4. Reselected(q).selectedRole =
            CASE i.infoIs = "disabled" -> "disabled"
              [] i.infoIs \in {"aged", "mine"} -> "designated"
              [] i.infoIs = "received" /\ q \in RootPort -> "root"
              [] i.infoIs = "received" /\ q \notin RootPort /\ worse ->
                   IF i.portPriority[6] # Own THEN "alternate" ELSE "backup"
              [] i.infoIs = "received" /\ q \notin RootPort /\ ~worse -> "designated"
      BY <3>1 DEF Reselected, Interface
    <3>5. i.infoIs = "aged" => Reselected(q).updtInfo
      BY <3>1 DEF Reselected, Interface
    <3>6. i.infoIs = "received" => (Reselected(q).updtInfo <=> q \notin RootPort /\ ~worse)
      BY <3>1 DEF Reselected, Interface
    <3> HIDE DEF worse
    <3>7. Announces(Reselected(q))
      BY <3>1, <3>3, <3>4, <3>5, <3>6 DEF Announces, Interface
    <3>8. NoWorse(Reselected(q))
      BY <3>1, <3>3 DEF NoWorse
    <3>9. QED
      BY <1>1, <3>2, <3>3, <3>7, <3>8
  <2>2. QED
    BY <2>1 DEF InfoInv
<1>4. QED
  BY <1>2, <1>3 DEF Prs

\* The information machine replaces information by better, by newer of the same
\* neighbour, or by its own (pim.c).
LEMMA InfoPim ==
  ASSUME TypeOK, InfoInv, NEW p \in Port, Pim(p)
  PROVE  InfoInv' /\ \A q \in Port : Improves(port[q], port'[q])
<1> DEFINE i == port[p]
<1>1. i \in Interface /\ Announces(i) /\ NoWorse(i)
  BY DEF TypeOK, InfoInv
<1>2. ASSUME NEW from, NEW next \in Interface, PimStep(p, from, next),
             Announces(next), NoWorse(next), Improves(i, next)
      PROVE  InfoInv' /\ \A q \in Port : Improves(port[q], port'[q])
  BY <1>2, InfoWrite DEF PimStep
<1>3. ASSUME NEW from, NEW next \in Interface, PimDone(p, from, next),
             Announces(next), Improves(i, next)
      PROVE  InfoInv' /\ \A q \in Port : Improves(port[q], port'[q])
  <2> DEFINE done == [Goto(next, "current") EXCEPT !.rcvdMsg = FALSE]
  <2>1. done \in Interface /\ SameInfo(next, done) /\ done.pim = "current"
    BY DEF Interface, Goto, PimState, SameInfo
  <2>2. PimStep(p, from, done)
    BY <1>3 DEF PimDone
  <2> HIDE DEF done
  <2>3. Announces(done) /\ NoWorse(done) /\ Improves(i, done)
    BY <1>3, <2>1, InfoSame DEF NoWorse, Improves, SameInfo
  <2>4. QED
    BY <1>2, <2>1, <2>2, <2>3
\* Moving to a state that is not "superior" leaves the information as it is
<1>4. ASSUME NEW j \in Interface, NEW s \in PimState, s # "superior",
             Announces(j), Improves(i, j)
      PROVE  Goto(j, s) \in Interface /\ Announces(Goto(j, s)) /\ NoWorse(Goto(j, s))
             /\ Improves(i, Goto(j, s))
  <2>1. Goto(j, s) \in Interface /\ SameInfo(j, Goto(j, s)) /\ Goto(j, s).pim = s
    BY DEF Interface, Goto, SameInfo
  <2>2. QED
    BY <1>4, <2>1, InfoSame DEF NoWorse, Improves, SameInfo
<1>5. Improves(i, i)
  BY <1>1, LessAsymmetric DEF Improves, Interface
<1>6. CASE PimDisabled(p)
  <2> DEFINE next == [Goto(i, "aged") EXCEPT
                        !.rcvdMsg = FALSE, !.rcvdInfoWhile = 0, !.infoIs = "disabled",
                        !.reselect = TRUE, !.selected = FALSE]
  <2>1. /\ next \in Interface /\ next.pim = "aged" /\ ~next.selected
        /\ next.infoIs = "disabled"
    BY <1>1 DEF Interface, Goto, PimState
  <2>2. PimStep(p, "disabled", next)
    BY <1>6 DEF PimDisabled
  <2> HIDE DEF next
  <2>3. QED
    BY <1>2, <2>1, <2>2 DEF Announces, NoWorse, Improves
<1>7. CASE PimAged(p)
  <2> DEFINE fresh == [i EXCEPT !.infoIs = "aged", !.reselect = TRUE, !.selected = FALSE]
             entered == IF i.pimExec THEN i ELSE fresh
             wait == [entered EXCEPT !.pimExec = TRUE]
             next == IF entered.selected /\ entered.updtInfo
                     THEN Goto(entered, "update") ELSE wait
  <2>1. PimStep(p, "aged", next)
    BY <1>7, Zenon DEF PimAged
  <2>2. i.pim = "aged"
    BY <2>1 DEF PimStep
  <2>3. /\ fresh \in Interface /\ ~fresh.selected /\ fresh.infoIs = "aged"
        /\ fresh.pim = i.pim
    BY <1>1 DEF Interface
  <2> HIDE DEF fresh
  <2>4. entered \in Interface /\ Announces(entered) /\ Improves(i, entered)
        /\ entered.pim = "aged"
    BY <1>1, <1>5, <2>2, <2>3 DEF Announces, Improves
  <2> HIDE DEF entered
  <2>5. wait \in Interface /\ SameInfo(entered, wait) /\ wait.pim = entered.pim
    BY <2>4 DEF Interface, SameInfo
  <2> HIDE DEF wait
  <2>6. Announces(wait) /\ NoWorse(wait) /\ Improves(i, wait)
    BY <2>4, <2>5, InfoSame DEF NoWorse, Improves, SameInfo
  <2>7. LET n == Goto(entered, "update")
        IN  n \in Interface /\ Announces(n) /\ NoWorse(n) /\ Improves(i, n)
    BY <1>4, <2>4 DEF PimState
  <2>8. next \in Interface /\ Announces(next) /\ NoWorse(next) /\ Improves(i, next)
    BY <2>5, <2>6, <2>7
  <2> HIDE DEF next
  <2>9. QED
    BY <1>2, <2>1, <2>8
<1>8. CASE PimUpdate(p)
  <2> DEFINE next == [Goto(i, "current") EXCEPT
                        !.portPriority = i.designatedPriority,
                        !.portTimes = i.designatedTimes,
                        !.updtInfo = FALSE, !.infoIs = "mine"]
  <2>1. next \in Interface /\ next.pim = "current" /\ next.infoIs = "mine"
    BY <1>1 DEF Interface, Goto, PimState
  <2>2. PimStep(p, "update", next)
    BY <1>8 DEF PimUpdate
  <2> HIDE DEF next
  <2>3. QED
    BY <1>2, <2>1, <2>2 DEF Announces, NoWorse, Improves
<1>9. CASE PimCurrent(p)
  <2>1. PICK next \in {Goto(i, "update"), Goto(i, "aged"), Goto(i, "receive"), i} :
          PimStep(p, "current", next)
    BY <1>9, Zenon DEF PimCurrent
  <2>2. next \in Interface /\ Announces(next) /\ NoWorse(next) /\ Improves(i, next)
    BY <1>1, <1>4, <1>5, <2>1 DEF PimState
  <2>3. QED
    BY <1>2, <2>1, <2>2
<1>10. CASE PimReceive(p)
  <2> DEFINE frame == Marked(buf[p])
             told  == [i EXCEPT !.msgPriority = frame.prio, !.msgTimes = frame.times]
             heard == IF frame.type = "tcn" THEN i ELSE told
             kind  == Kind(frame.type, frame.role, frame.prio, frame.times,
                           i.portPriority, i.portTimes)
             next  == Goto(heard, kind)
  <2>1. frame \in Bpdu
    BY FrameMarked DEF TypeOK
  <2>2. kind \in PimState
    BY DEF Kind, PimState
  <2>3. kind = "superior" =>
          frame.type # "tcn" /\ (Less(frame.prio, i.portPriority) \/ frame.prio = i.portPriority)
    BY DEF Kind
  <2>4. PimStep(p, "receive", next)
    BY <1>10, Zenon DEF PimReceive
  <2> HIDE DEF frame, kind
  <2>5. told \in Interface /\ SameInfo(i, told) /\ told.msgPriority = frame.prio
    BY <1>1, <2>1 DEF Interface, Bpdu, SameInfo
  <2> HIDE DEF told
  <2>6. /\ heard \in Interface /\ SameInfo(i, heard)
        /\ frame.type # "tcn" => heard.msgPriority = frame.prio
    BY <1>1, <2>5 DEF SameInfo
  <2> HIDE DEF heard
  <2>7. /\ next \in Interface /\ SameInfo(heard, next) /\ next.pim = kind
        /\ next.msgPriority = heard.msgPriority
    BY <2>2, <2>6 DEF Interface, Goto, SameInfo
  <2> HIDE DEF next
  <2>8. Announces(next) /\ Improves(i, next)
    <3>1. SameInfo(i, next)
      BY <2>6, <2>7 DEF SameInfo
    <3>2. QED
      BY <1>1, <2>7, <3>1, InfoSame
  <2>9. NoWorse(next)
    BY <2>3, <2>6, <2>7 DEF NoWorse, SameInfo
  <2>10. QED
    BY <1>2, <2>4, <2>7, <2>8, <2>9
<1>11. CASE PimSuperior(p)
  <2> DEFINE next == [i EXCEPT !.portPriority = i.msgPriority, !.portTimes = i.msgTimes,
                        !.rcvdInfoWhile = LifeOf(i.msgTimes), !.infoIs = "received",
                        !.reselect = TRUE, !.selected = FALSE]
  <2>1. LifeOf(i.msgTimes) \in Nat
    BY <1>1, LifeTyped DEF Interface
  <2>2. next \in Interface /\ ~next.selected /\ next.portPriority = i.msgPriority
    BY <1>1, <2>1 DEF Interface
  <2>3. PimDone(p, "superior", next)
    BY <1>11 DEF PimSuperior
  <2>4. i.pim = "superior"
    BY <2>3 DEF PimDone, PimStep
  <2> HIDE DEF next
  <2>5. i.msgPriority \in Vector /\ i.portPriority \in Vector
    BY <1>1 DEF Interface
  <2>6. ~Less(i.portPriority, i.msgPriority)
    BY <1>1, <2>4, <2>5, LessAsymmetric DEF NoWorse
  <2>7. QED
    BY <1>3, <2>2, <2>3, <2>6 DEF Announces, Improves
<1>12. CASE PimRepeated(p)
  <2> DEFINE next == [i EXCEPT !.rcvdInfoWhile = LifeOf(i.portTimes)]
  <2>1. LifeOf(i.portTimes) \in Nat
    BY <1>1, LifeTyped DEF Interface
  <2>2. next \in Interface /\ SameInfo(i, next)
    BY <1>1, <2>1 DEF Interface, SameInfo
  <2>3. PimDone(p, "repeated", next)
    BY <1>12 DEF PimRepeated
  <2> HIDE DEF next
  <2>4. QED
    BY <1>1, <1>3, <2>2, <2>3, InfoSame
<1>13. CASE PimInferior(p) \/ PimNotDesignated(p) \/ PimOther(p)
  BY <1>1, <1>3, <1>5, <1>13 DEF PimInferior, PimNotDesignated, PimOther
<1>14. QED
  BY <1>6, <1>7, <1>8, <1>9, <1>10, <1>11, <1>12, <1>13 DEF Pim

\* At first every port is disabled.
LEMMA InfoInit == Init => InfoInv
BY DEF Init, InfoInv, Announces, NoWorse, Registered

\* Every step keeps the invariant and makes no port's information worse.
LEMMA InfoStep ==
  TypeOK /\ InfoInv /\ [Next]_vars
    => InfoInv' /\ \A q \in Port : Improves(port[q], port'[q])
<1>1. ASSUME TypeOK, InfoInv, port' = port
      PROVE  InfoInv' /\ \A q \in Port : Improves(port[q], port'[q])
  <2>1. \A q \in Port : Improves(port[q], port[q])
    BY <1>1, LessAsymmetric DEF TypeOK, Interface, Improves
  <2>2. QED
    BY <1>1, <2>1 DEF InfoInv
<1>2. ASSUME NEW p \in Port, ReceiverStep(p) \/ \E f \in Frame[p] : Send(p, f)
      PROVE  port' = port
  BY <1>2 DEF ReceiverStep, Send, TakeToken, Receive, ReceiveFails, PostReceived
<1>3. QED
  BY <1>1, <1>2, InfoPrs, InfoPrx, InfoPim, InfoTick DEF Next, FsmStep, vars

\* A port selected as designated with nothing left to announce announces this
\* bridge: no BPDU is recorded, and none ages, without a new selection.
THEOREM DesignatedIsOwn == Spec => []DesignatedAnnounces
<1>1. InfoInv => DesignatedAnnounces
  BY DEF InfoInv, Announces, DesignatedAnnounces
<1>2. QED
  BY <1>1, InitTyped, StepTyped, InfoInit, InfoStep, PTL DEF Spec

\* Received information only ever gives way to received information that is
\* at least as good, although it is compared in one step and stored in a later
\* one, and whatever happens to the buffer in between.
THEOREM OnlyImproves == Spec => ReceivedOnlyImproves
<1>1. TypeOK /\ InfoInv /\ [Next]_vars =>
        [\A p \in Port : port[p].infoIs = "received" /\ port'[p].infoIs = "received" =>
           ~Less(port[p].portPriority, port'[p].portPriority)]_vars
  BY InfoStep DEF Improves
<1>2. QED
  BY <1>1, InitTyped, StepTyped, InfoInit, InfoStep, PTL DEF Spec, ReceivedOnlyImproves
-----------------------------------------------------------------------------
(* The tree is coherent when everything is done *)

\* What any machine but role selection makes of a port: it loses its selection,
\* or takes over what was designated for it, or keeps what it had recorded.
Stays(i, j) ==
  /\ j.selectedRole = i.selectedRole /\ j.designatedPriority = i.designatedPriority
  /\ \/ ~j.selected
     \/ j.infoIs = "mine" /\ j.portPriority = i.designatedPriority
     \/ SameInfo(i, j)

\* One role selection gave all the ports their roles and what to announce.
AtMostOneRoot ==
  \A p, q \in Port : port[p].selectedRole = "root" /\ port[q].selectedRole = "root" => p = q

OwnWithoutRoot ==
  (\A p \in Port : port[p].selectedRole # "root") =>
    \A d \in Port : port[d].designatedPriority = OwnPriority(d)

OffersRootPath ==
  \A r, d \in Port :
    port[r].selectedRole = "root" /\ port[r].selected /\ port[r].infoIs = "received" =>
      \A k \in 1 .. 5 : port[d].designatedPriority[k] = RootPath(r)[k]

AnnouncesOffer ==
  \A d \in Port :
    port[d].selected /\ port[d].selectedRole = "designated" /\ ~port[d].updtInfo =>
      port[d].portPriority = port[d].designatedPriority

TreeInv == AtMostOneRoot /\ OwnWithoutRoot /\ OffersRootPath /\ AnnouncesOffer

\* The other machines keep what a selection has established.
LEMMA TreeStays ==
  ASSUME TypeOK, TreeInv, \A q \in Port : Stays(port[q], port'[q])
  PROVE  TreeInv'
<1>1. \A q \in Port : /\ port'[q].selectedRole = port[q].selectedRole
                      /\ port'[q].designatedPriority = port[q].designatedPriority
  BY DEF Stays
<1>2. AtMostOneRoot'
  BY <1>1 DEF TreeInv, AtMostOneRoot
<1>3. OwnWithoutRoot'
  BY <1>1 DEF TreeInv, OwnWithoutRoot
<1>4. OffersRootPath'
  <2> SUFFICES ASSUME NEW r \in Port, NEW d \in Port, port'[r].selectedRole = "root",
                      port'[r].selected, port'[r].infoIs = "received"
               PROVE  \A k \in 1 .. 5 :
                        port'[d].designatedPriority[k] = AddPathCost(port'[r].portPriority)[k]
    BY DEF OffersRootPath, RootPath
  <2>1. SameInfo(port[r], port'[r])
    BY DEF Stays
  <2>2. \A k \in 1 .. 5 :
          port[d].designatedPriority[k] = AddPathCost(port[r].portPriority)[k]
    BY <1>1, <2>1 DEF TreeInv, OffersRootPath, RootPath, SameInfo
  <2>3. QED
    BY <1>1, <2>1, <2>2 DEF SameInfo
<1>5. AnnouncesOffer'
  <2> SUFFICES ASSUME NEW d \in Port, port'[d].selected,
                      port'[d].selectedRole = "designated", ~port'[d].updtInfo
               PROVE  port'[d].portPriority = port'[d].designatedPriority
    BY DEF AnnouncesOffer
  <2>1. CASE SameInfo(port[d], port'[d])
    BY <1>1, <2>1 DEF TreeInv, AnnouncesOffer, SameInfo
  <2>2. QED
    BY <1>1, <2>1 DEF Stays
<1>6. QED
  BY <1>2, <1>3, <1>4, <1>5 DEF TreeInv

\* Writing one port leaves the others as they are.
LEMMA StaysWrite ==
  ASSUME TypeOK, NEW p \in Port, NEW next, port' = [port EXCEPT ![p] = next],
         Stays(port[p], next)
  PROVE  \A q \in Port : Stays(port[q], port'[q])
<1> TAKE q \in Port
<1>1. port'[q] = IF q = p THEN next ELSE port[q]
  BY DEF TypeOK
<1>2. CASE q = p
  BY <1>1, <1>2
<1>3. CASE q # p
  <2>1. port'[q] = port[q]
    BY <1>1, <1>3
  <2>2. QED
    BY <2>1 DEF Stays, SameInfo
<1>4. QED
  BY <1>2, <1>3

\* The receive machine and the timer touch nothing of it.
LEMMA PrxStays ==
  ASSUME TypeOK, NEW p \in Port, Prx(p) \/ Tick(p)
  PROVE  \A q \in Port : Stays(port[q], port'[q])
<1>1. CASE port' = port
  BY <1>1 DEF Stays, SameInfo
<1>2. CASE Prx(p) \/ TickStore(p)
  <2>1. PICK next \in Interface : port' = [port EXCEPT ![p] = next] /\ SameInfo(port[p], next)
    BY <1>2, PrxWrites, TickWrites
  <2>2. Stays(port[p], next)
    BY <2>1 DEF Stays, SameInfo
  <2>3. QED
    BY <2>1, <2>2, StaysWrite
<1>3. QED
  BY <1>1, <1>2 DEF Tick, TickTest, TickLoad

\* Of the port information machine, the states that record something new take
\* the selection away, and the update takes over what was designated.
LEMMA PimStays ==
  ASSUME TypeOK, NEW p \in Port, Pim(p)
  PROVE  \A q \in Port : Stays(port[q], port'[q])
<1> DEFINE i == port[p]
<1>1. i \in Interface
  BY DEF TypeOK
<1>2. ASSUME NEW from, NEW next, PimStep(p, from, next), Stays(i, next)
      PROVE  \A q \in Port : Stays(port[q], port'[q])
  BY <1>2, StaysWrite DEF PimStep
<1>3. ASSUME NEW from, NEW next \in Interface, PimDone(p, from, next), Stays(i, next)
      PROVE  \A q \in Port : Stays(port[q], port'[q])
  <2> DEFINE done == [Goto(next, "current") EXCEPT !.rcvdMsg = FALSE]
  <2>1. SameInfo(next, done)
    BY <1>3 DEF Interface, Goto, SameInfo
  <2>2. PimStep(p, from, done)
    BY <1>3 DEF PimDone
  <2> HIDE DEF done
  <2>3. Stays(i, done)
    BY <1>3, <2>1 DEF Stays, SameInfo
  <2>4. QED
    BY <1>2, <2>2, <2>3
<1>4. \A s : SameInfo(i, Goto(i, s))
  BY <1>1 DEF Interface, Goto, SameInfo
<1>5. \A j : SameInfo(i, j) => Stays(i, j)
  BY DEF Stays, SameInfo
<1>6. CASE PimDisabled(p)
  <2> DEFINE next == [Goto(i, "aged") EXCEPT
                        !.rcvdMsg = FALSE, !.rcvdInfoWhile = 0, !.infoIs = "disabled",
                        !.reselect = TRUE, !.selected = FALSE]
  <2>1. /\ ~next.selected /\ next.selectedRole = i.selectedRole
        /\ next.designatedPriority = i.designatedPriority
    BY <1>1 DEF Interface, Goto
  <2>2. PimStep(p, "disabled", next)
    BY <1>6 DEF PimDisabled
  <2> HIDE DEF next
  <2>3. QED
    BY <1>2, <2>1, <2>2 DEF Stays
<1>7. CASE PimAged(p)
  <2> DEFINE fresh == [i EXCEPT !.infoIs = "aged", !.reselect = TRUE, !.selected = FALSE]
             entered == IF i.pimExec THEN i ELSE fresh
             update == Goto(entered, "update")
             wait == [entered EXCEPT !.pimExec = TRUE]
  <2>1. PICK next \in {update, wait} : PimStep(p, "aged", next)
    BY <1>7, Zenon DEF PimAged
  <2>2. /\ ~fresh.selected /\ fresh.selectedRole = i.selectedRole
        /\ fresh.designatedPriority = i.designatedPriority /\ fresh \in Interface
    BY <1>1 DEF Interface
  <2> HIDE DEF fresh
  <2>3. entered \in Interface /\ Stays(i, entered)
    BY <1>1, <2>2 DEF Stays, SameInfo
  <2> HIDE DEF entered
  <2>4. SameInfo(entered, wait) /\ SameInfo(entered, update)
    BY <2>3 DEF Interface, Goto, SameInfo
  <2> HIDE DEF wait, update
  <2>5. SameInfo(entered, next)
    BY <2>1, <2>4
  <2>6. Stays(i, next)
    BY <2>3, <2>5 DEF Stays, SameInfo
  <2>7. QED
    BY <1>2, <2>1, <2>6
<1>8. CASE PimUpdate(p)
  <2> DEFINE next == [Goto(i, "current") EXCEPT
                        !.portPriority = i.designatedPriority,
                        !.portTimes = i.designatedTimes,
                        !.updtInfo = FALSE, !.infoIs = "mine"]
  <2>1. /\ next.infoIs = "mine" /\ next.portPriority = i.designatedPriority
        /\ next.selectedRole = i.selectedRole
        /\ next.designatedPriority = i.designatedPriority
    BY <1>1 DEF Interface, Goto
  <2>2. PimStep(p, "update", next)
    BY <1>8 DEF PimUpdate
  <2> HIDE DEF next
  <2>3. QED
    BY <1>2, <2>1, <2>2 DEF Stays
<1>9. CASE PimCurrent(p)
  <2>1. PICK next \in {Goto(i, "update"), Goto(i, "aged"), Goto(i, "receive"), i} :
          PimStep(p, "current", next)
    BY <1>9, Zenon DEF PimCurrent
  <2>2. SameInfo(i, next)
    BY <1>4, <2>1 DEF SameInfo
  <2>3. QED
    BY <1>2, <1>5, <2>1, <2>2
<1>10. CASE PimReceive(p)
  <2>1. PICK prio, times, kind, j :
          /\ j = i \/ j = [i EXCEPT !.msgPriority = prio, !.msgTimes = times]
          /\ PimStep(p, "receive", Goto(j, kind))
    BY <1>10, Zenon DEF PimReceive
  <2>2. SameInfo(i, Goto(j, kind))
    BY <1>1, <2>1 DEF Interface, Goto, SameInfo
  <2>3. QED
    BY <1>2, <1>5, <2>1, <2>2
<1>11. CASE PimSuperior(p)
  <2> DEFINE next == [i EXCEPT !.portPriority = i.msgPriority, !.portTimes = i.msgTimes,
                        !.rcvdInfoWhile = LifeOf(i.msgTimes), !.infoIs = "received",
                        !.reselect = TRUE, !.selected = FALSE]
  <2>1. LifeOf(i.msgTimes) \in Nat
    BY <1>1, LifeTyped DEF Interface
  <2>2. /\ next \in Interface /\ ~next.selected /\ next.selectedRole = i.selectedRole
        /\ next.designatedPriority = i.designatedPriority
    BY <1>1, <2>1 DEF Interface
  <2>3. PimDone(p, "superior", next)
    BY <1>11 DEF PimSuperior
  <2> HIDE DEF next
  <2>4. QED
    BY <1>3, <2>2, <2>3 DEF Stays
<1>12. CASE PimRepeated(p)
  <2> DEFINE next == [i EXCEPT !.rcvdInfoWhile = LifeOf(i.portTimes)]
  <2>1. LifeOf(i.portTimes) \in Nat
    BY <1>1, LifeTyped DEF Interface
  <2>2. next \in Interface /\ SameInfo(i, next)
    BY <1>1, <2>1 DEF Interface, SameInfo
  <2>3. PimDone(p, "repeated", next)
    BY <1>12 DEF PimRepeated
  <2> HIDE DEF next
  <2>4. QED
    BY <1>3, <1>5, <2>2, <2>3
<1>13. CASE PimInferior(p) \/ PimNotDesignated(p) \/ PimOther(p)
  <2>1. Stays(i, i)
    BY DEF Stays, SameInfo
  <2>2. QED
    BY <1>1, <1>3, <1>13, <2>1 DEF PimInferior, PimNotDesignated, PimOther
<1>14. QED
  BY <1>6, <1>7, <1>8, <1>9, <1>10, <1>11, <1>12, <1>13 DEF Pim

\* Role selection names at most one root port, and designates the same for all.
LEMMA SelectTree ==
  ASSUME TypeOK, PrsSelect
  PROVE  TreeInv'
<1>1. ASSUME NEW q \in Port
      PROVE  /\ port'[q].designatedPriority = DesignatedPriority(q)
             /\ port'[q].portPriority = port[q].portPriority
             /\ port'[q].selectedRole = "root" <=> q \in RootPort
             /\ port'[q].selectedRole = "designated" /\ ~port'[q].updtInfo
                  => port[q].portPriority = DesignatedPriority(q)
  <2> DEFINE i == port[q]
             worse == ~Less(DesignatedPriority(q), i.portPriority)
  <2>1. i \in Interface
    BY DEF TypeOK
  <2>2. port'[q] = Reselected(q)
    BY DEF PrsSelect
  <2>3. /\ Reselected(q).designatedPriority = DesignatedPriority(q)
        /\ Reselected(q).portPriority = i.portPriority
    BY <2>1 DEF Reselected, Interface
  <2>4. Reselected(q).selectedRole =
          CASE i.infoIs = "disabled" -> "disabled"
            [] i.infoIs \in {"aged", "mine"} -> "designated"
            [] i.infoIs = "received" /\ q \in RootPort -> "root"
            [] i.infoIs = "received" /\ q \notin RootPort /\ worse ->
                 IF i.portPriority[6] # Own THEN "alternate" ELSE "backup"
            [] i.infoIs = "received" /\ q \notin RootPort /\ ~worse -> "designated"
    BY <2>1 DEF Reselected, Interface
  <2>5. i.infoIs = "aged" => Reselected(q).updtInfo
    BY <2>1 DEF Reselected, Interface
  <2>6. i.infoIs = "received" => (Reselected(q).updtInfo <=> q \notin RootPort /\ ~worse)
    BY <2>1 DEF Reselected, Interface
  <2>7. i.infoIs = "mine" /\ DesignatedPriority(q) # i.portPriority => Reselected(q).updtInfo
    BY <2>1 DEF Reselected, Interface
  <2>8. q \in RootPort => i.infoIs = "received"
    BY DEF RootPort, Candidate
  <2> HIDE DEF worse
  <2>9. Reselected(q).selectedRole = "root" <=> q \in RootPort
    BY <2>1, <2>4, <2>8 DEF Interface
  <2>10. Reselected(q).selectedRole = "designated" /\ ~Reselected(q).updtInfo
           => i.portPriority = DesignatedPriority(q)
    BY <2>1, <2>4, <2>5, <2>6, <2>7 DEF Interface
  <2>11. QED
    BY <2>2, <2>3, <2>9, <2>10
<1>2. \A p, q \in RootPort : p = q
  <2> TAKE p, q \in RootPort
  <2>1. /\ p \in Port /\ q \in Port
        /\ Less(RootPath(p), RootPath(q)) \/ (RootPath(p) = RootPath(q) /\ p <= q)
        /\ Less(RootPath(q), RootPath(p)) \/ (RootPath(q) = RootPath(p) /\ q <= p)
    BY DEF RootPort, Candidate
  <2>2. RootPath(p) \in Vector /\ RootPath(q) \in Vector
    BY <2>1, PathTyped DEF RootPath, TypeOK, Interface
  <2>3. p <= q /\ q <= p
    BY <2>1, <2>2, LessAsymmetric
  <2>4. QED
    BY <2>1, <2>3, ConstAssumption DEF Port
<1>3. ASSUME NEW r \in RootPort PROVE (CHOOSE x \in RootPort : TRUE) = r
  BY <1>2
<1>4. RootPort \subseteq Port
  BY DEF RootPort, Candidate
<1>5. AtMostOneRoot'
  BY <1>1, <1>2 DEF AtMostOneRoot
<1>6. OwnWithoutRoot'
  <2> SUFFICES ASSUME \A p \in Port : port'[p].selectedRole # "root", NEW d \in Port
               PROVE  port'[d].designatedPriority = OwnPriority(d)
    BY DEF OwnWithoutRoot
  <2>1. RootPort = {}
    BY <1>1, <1>4
  <2>2. DesignatedPriority(d) = OwnPriority(d)
    <3>1. DesignatedPriority(d) = [k \in 1 .. 7 |-> OwnPriority(d)[k]]
      BY <2>1 DEF DesignatedPriority
    <3>2. QED
      BY <3>1 DEF OwnPriority
  <2>3. QED
    BY <1>1, <2>2
<1>7. OffersRootPath'
  <2> SUFFICES ASSUME NEW r \in Port, NEW d \in Port, port'[r].selectedRole = "root",
                      NEW k \in 1 .. 5
               PROVE  port'[d].designatedPriority[k] = AddPathCost(port'[r].portPriority)[k]
    BY DEF OffersRootPath, RootPath
  <2>1. r \in RootPort
    BY <1>1
  <2>2. DesignatedPriority(d)[k] = RootPath(CHOOSE x \in RootPort : TRUE)[k]
    BY <2>1 DEF DesignatedPriority
  <2>3. DesignatedPriority(d)[k] = AddPathCost(port[r].portPriority)[k]
    BY <1>3, <2>1, <2>2 DEF RootPath
  <2>4. QED
    BY <1>1, <2>3
<1>8. AnnouncesOffer'
  BY <1>1 DEF AnnouncesOffer
<1>9. QED
  BY <1>5, <1>6, <1>7, <1>8 DEF TreeInv

\* No port is a root port before the first selection.
LEMMA TreeInit == Init => TreeInv
<1> SUFFICES ASSUME Init PROVE TreeInv
  OBVIOUS
<1>1. \A q \in Port : /\ port[q].selectedRole = "disabled" /\ ~port[q].selected
                      /\ port[q].designatedPriority = OwnPriority(q)
  BY DEF Init, Registered
<1>2. QED
  BY <1>1 DEF TreeInv, AtMostOneRoot, OwnWithoutRoot, OffersRootPath, AnnouncesOffer

\* Every step keeps the tree.
LEMMA TreeStep == TypeOK /\ TreeInv /\ [Next]_vars => TreeInv'
<1> SUFFICES ASSUME TypeOK, TreeInv, [Next]_vars PROVE TreeInv'
  OBVIOUS
<1>1. CASE port' = port
  <2>1. \A q \in Port : Stays(port[q], port'[q])
    BY <1>1 DEF Stays, SameInfo
  <2>2. QED
    BY <2>1, TreeStays
<1>2. CASE PrsSelect
  BY <1>2, SelectTree
<1>3. CASE \E p \in Port : Prx(p) \/ Tick(p) \/ Pim(p)
  BY <1>3, PrxStays, PimStays, TreeStays
<1>4. ASSUME NEW p \in Port, ReceiverStep(p) \/ \E f \in Frame[p] : Send(p, f)
      PROVE  port' = port
  BY <1>4 DEF ReceiverStep, Send, TakeToken, Receive, ReceiveFails, PostReceived
<1>5. QED
  BY <1>1, <1>2, <1>3, <1>4 DEF Next, FsmStep, Prs, PrsWatch, vars

\* The cost of a hop, added in whatever byte order, leaves the root as it is
\* and makes the path worse, unless it wraps.
LEMMA FartherIsWorse ==
  ASSUME NEW v \in Vector, NEW w \in Vector, v[2] < 192,
         \A k \in 1 .. 5 : w[k] = AddPathCost(v)[k]
  PROVE  Less(v, w)
<1>1. v[1] \in Nat /\ v[2] \in Nat
  BY DEF Vector, Byte
<1>2. AddPathCost(v)[1] = v[1] /\ AddPathCost(v)[2] = (v[2] + 64) % 256
  BY DEF AddPathCost
<1>3. (v[2] + 64) % 256 = v[2] + 64
  BY <1>1
<1>4. w[1] = v[1] /\ v[2] < w[2]
  BY <1>1, <1>2, <1>3
<1>5. \A j \in 1 .. 2 - 1 : v[j] = w[j]
  BY <1>4
<1>6. QED
  BY <1>4, <1>5 DEF Less

\* However the BPDUs come in and whatever is recorded, ages and is announced
\* in between, when nothing is left to do the roles and what the ports have
\* recorded are those of one tree: both come from the same role selection.
THEOREM OneTree == Spec => []SettledTree
<1>1. TypeOK /\ TreeInv => SettledTree
  <2> SUFFICES ASSUME TypeOK, TreeInv, Quiet, FollowersHear PROVE SettledTree
    BY DEF SettledTree
  <2> DEFINE roots == {p \in Port : port[p].selectedRole = "root"}
  <2>1. \A p, q \in roots : p = q
    BY DEF TreeInv, AtMostOneRoot
  <2>2. ASSUME NEW d \in Port, port[d].selectedRole = "designated"
        PROVE  port[d].portPriority = port[d].designatedPriority
    BY <2>2 DEF TreeInv, AnnouncesOffer, Quiet
  <2>3. ASSUME NEW d \in Port, port[d].selectedRole = "designated", roots = {}
        PROVE  port[d].portPriority = OwnPriority(d)
    BY <2>2, <2>3 DEF TreeInv, OwnWithoutRoot
  <2>4. ASSUME NEW d \in Port, port[d].selectedRole = "designated", NEW r \in roots
        PROVE  /\ port[d].portPriority[1] = port[r].portPriority[1]
               /\ \/ Less(port[r].portPriority, port[d].portPriority)
                  \/ port[r].portPriority[2] >= 192
    <3> DEFINE v == port[r].portPriority
               w == port[d].portPriority
    <3>1. v \in Vector /\ w \in Vector
      BY DEF TypeOK, Interface
    <3>2. port[r].selected /\ port[r].infoIs = "received"
      BY DEF Quiet, FollowersHear, Follower
    <3>3. \A k \in 1 .. 5 : w[k] = AddPathCost(v)[k]
      BY <2>2, <2>4, <3>2 DEF TreeInv, OffersRootPath, RootPath
    <3> HIDE DEF v, w
    <3>4. w[1] = v[1]
      BY <3>3 DEF AddPathCost
    <3>5. Less(v, w) \/ v[2] >= 192
      <4>1. v[2] \in Nat
        BY <3>1 DEF Vector, Byte
      <4>2. QED
        BY <3>1, <3>3, <4>1, FartherIsWorse
    <3>6. QED
      BY <3>4, <3>5 DEF v, w
  <2> HIDE DEF roots
  <2>5. QED
    BY <2>1, <2>3, <2>4 DEF SettledTree, roots
<1>2. QED
  BY <1>1, InitTyped, StepTyped, TreeInit, TreeStep, PTL DEF Spec
=============================================================================

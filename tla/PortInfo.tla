------------------------------ MODULE PortInfo ------------------------------
(***************************************************************************)
(* How rstpd turns received BPDUs into port roles: the receiver thread     *)
(* (rstp_receiver.c), the Port Receive, Port Information and Port Role     *)
(* Selection machines (fsm/prx.c, fsm/pim.c, fsm/prs.c) and the timer      *)
(* signal (pti_loop() of rstpd.c).                                         *)
(*                                                                         *)
(* The receiver and the state machines share, for each port, one buffer    *)
(* and two semaphores: processedBPDU, 1 at first, says that the buffer may *)
(* be filled, rcvdBPDU that it has been.  The main thread runs one step of *)
(* every machine of every port in turn and then one of role selection,     *)
(* without end.  The signal handler tests, loads and stores each timer, in *)
(* whatever thread it interrupts.                                          *)
(*                                                                         *)
(* Ports are registered before the model starts, in the order of their     *)
(* identifiers.  The flags the machines only hand on to the role           *)
(* transition, migration and topology change machines (proposed, agreed,   *)
(* disputed, synced, rcvdTc, rcvdSTP, newInfo, ...) are left out: nothing  *)
(* here reads them.                                                        *)
(***************************************************************************)
EXTENDS Integers, Sequences

CONSTANTS
  N,             \* number of ports; port p has the identifier p
  Own,           \* the identifier of this bridge
  Frame,         \* the BPDUs the neighbours on each port may send
  BridgeTimes,   \* MessageAge, MaxAge and HelloTime of this bridge
  TimerModulus,  \* 2^32 on an i386: timers are unsigned int
  MaxFrames      \* bound on the BPDUs sent in a run

Port == 1 .. N
Byte == 0 .. 255

\* struct priority_vector4: root, root path cost (4 bytes), designated bridge
\* and port.  An identifier fits in a byte here, its order is what counts.
Vector == [1 .. 7 -> Byte]
Times  == [age: Nat, max: Nat, hello: Nat]

BpduType == {"tcn", "config", "rstp"}
BpduRole == {"unknown", "alternate_backup", "root", "designated"}

Bpdu == [type: BpduType, role: BpduRole, prio: Vector, times: Times]

ASSUME ConstAssumption ==
  /\ N \in Nat \ {0}
  /\ N \in Byte
  /\ Own \in Byte
  /\ Frame \in [Port -> SUBSET Bpdu]
  /\ BridgeTimes \in Times
  /\ TimerModulus \in Nat \ {0}
  /\ MaxFrames \in Nat

VARIABLES
  sock,       \* BPDUs waiting in the socket of each port
  buf,        \* the BPDU buffer of each port
  processed,  \* value of the semaphore processedBPDU
  rcvd,       \* value of the semaphore rcvdBPDU
  recv,       \* what the receiver thread does: <<where, port>>
  turn,       \* the machine the main thread runs next
  port,       \* struct rstp_interface of each port
  prsExec,    \* has role selection done its entry actions?
  tick,       \* what the signal handler does to the timer of each port
  sent,       \* number of BPDUs sent so far
  failed      \* history: ports on which recv() has returned an error

vars == <<sock, buf, processed, rcvd, recv, turn, port, prsExec, tick, sent, failed>>

PimState == {"disabled", "aged", "update", "current", "receive", "superior",
             "repeated", "inferior", "not_designated", "other"}

Role == {"disabled", "designated", "root", "alternate", "backup"}

Interface ==
  [prx: {"discard", "receive"}, prxExec: BOOLEAN,
   pim: PimState, pimExec: BOOLEAN,
   rcvdMsg: BOOLEAN,
   infoIs: {"disabled", "received", "mine", "aged"},
   reselect: BOOLEAN, selected: BOOLEAN, updtInfo: BOOLEAN,
   selectedRole: Role,
   portPriority: Vector, msgPriority: Vector, designatedPriority: Vector,
   portTimes: Times, msgTimes: Times, designatedTimes: Times,
   rcvdInfoWhile: Nat]

Idle == <<"idle", 0>>

TypeOK ==
  /\ sock \in [Port -> Seq(Bpdu)]
  /\ buf \in [Port -> Bpdu]
  /\ processed \in [Port -> Nat]
  /\ rcvd \in [Port -> Nat]
  /\ recv \in {Idle} \cup ({"recv", "post"} \X Port)
  /\ turn \in ({"prx", "pim"} \X Port) \cup {<<"prs", 0>>}
  /\ port \in [Port -> Interface]
  /\ prsExec \in BOOLEAN
  /\ tick \in [Port -> {"idle", "tested", "loaded"} \X Nat]
  /\ sent \in 0 .. MaxFrames
  /\ failed \in SUBSET Port
-----------------------------------------------------------------------------
\* vec_compare4(v, w) < 0: memcmp() over the bytes of the two vectors
Less(v, w) ==
  \E i \in 1 .. 7 : /\ v[i] < w[i]
                    /\ \A j \in 1 .. i - 1 : v[j] = w[j]

\* What the bridge says of itself on port p before it knows of a better root
OwnPriority(p) ==
  [i \in 1 .. 7 |-> CASE i \in {1, 6} -> Own [] i \in 2 .. 5 -> 0 [] i = 7 -> p]

\* The cost 200000 is <<64, 13, 3, 0>> in the byte order of an i386, and the
\* four bytes are added as one unsigned long of that machine: each byte
\* carries into the next, the first being the most significant on the wire.
AddPathCost(v) ==
  LET b1 == v[2] + 64
      b2 == v[3] + 13 + b1 \div 256
      b3 == v[4] + 3 + b2 \div 256
      b4 == v[5] + b3 \div 256
  IN  [i \in 1 .. 7 |-> CASE i = 2 -> b1 % 256
                          [] i = 3 -> b2 % 256
                          [] i = 4 -> b3 % 256
                          [] i = 5 -> b4 % 256
                          [] i \in {1, 6, 7} -> v[i]]

\* updtRcvdInfoWhile: three hello times, unless the message is too old
LifeOf(times) == IF times.age + 1 <= times.max THEN 3 * times.hello ELSE 0

\* A port as malloc() and rstpd_register_interface() leave it.  Of the fields
\* that are not initialised only updtInfo can be read before it is written.
Registered(p, garbage) ==
  [prx |-> "discard", prxExec |-> FALSE, pim |-> "disabled", pimExec |-> FALSE,
   rcvdMsg |-> FALSE, infoIs |-> "disabled", reselect |-> FALSE,
   selected |-> FALSE, updtInfo |-> garbage, selectedRole |-> "disabled",
   portPriority |-> OwnPriority(p), msgPriority |-> OwnPriority(p),
   designatedPriority |-> OwnPriority(p),
   portTimes |-> BridgeTimes, msgTimes |-> BridgeTimes,
   designatedTimes |-> BridgeTimes, rcvdInfoWhile |-> 0]

Init ==
  /\ sock = [p \in Port |-> <<>>]
  /\ buf = [p \in Port |-> [type |-> "tcn", role |-> "unknown",
                            prio |-> OwnPriority(p), times |-> BridgeTimes]]
  /\ processed = [p \in Port |-> 1]
  /\ rcvd = [p \in Port |-> 0]
  /\ recv = Idle
  /\ turn = <<"prx", 1>>
  /\ \E garbage \in [Port -> BOOLEAN] :
       port = [p \in Port |-> Registered(p, garbage[p])]
  /\ prsExec \in BOOLEAN
  /\ tick = [p \in Port |-> <<"idle", 0>>]
  /\ sent = 0
  /\ failed = {}
-----------------------------------------------------------------------------
(* The neighbours and the receiver thread *)

Send(p, f) ==
  /\ sent < MaxFrames
  /\ sent' = sent + 1
  /\ sock' = [sock EXCEPT ![p] = Append(@, f)]
  /\ UNCHANGED <<buf, processed, rcvd, recv, turn, port, prsExec, tick, failed>>

\* select() has found the socket readable and sem_trywait(processedBPDU)
\* succeeds; a port where it fails is tried again at the next select()
TakeToken(p) ==
  /\ recv = Idle
  /\ sock[p] # <<>>
  /\ processed[p] > 0
  /\ processed' = [processed EXCEPT ![p] = @ - 1]
  /\ recv' = <<"recv", p>>
  /\ UNCHANGED <<sock, buf, rcvd, turn, port, prsExec, tick, sent, failed>>

Receive(p) ==
  /\ recv = <<"recv", p>>
  /\ sock[p] # <<>>
  /\ buf' = [buf EXCEPT ![p] = Head(sock[p])]
  /\ sock' = [sock EXCEPT ![p] = Tail(@)]
  /\ recv' = <<"post", p>>
  /\ UNCHANGED <<processed, rcvd, turn, port, prsExec, tick, sent, failed>>

\* recv() fails, and the loop goes on without giving the token back
ReceiveFails(p) ==
  /\ recv = <<"recv", p>>
  /\ p \notin failed
  /\ failed' = failed \cup {p}
  /\ recv' = Idle
  /\ UNCHANGED <<sock, buf, processed, rcvd, turn, port, prsExec, tick, sent>>

PostReceived(p) ==
  /\ recv = <<"post", p>>
  /\ rcvd' = [rcvd EXCEPT ![p] = @ + 1]
  /\ recv' = Idle
  /\ UNCHANGED <<sock, buf, processed, turn, port, prsExec, tick, sent, failed>>
-----------------------------------------------------------------------------
(* The main thread.  fsm_run() gives the order of the machines. *)

Runs(machine, p) == turn = <<machine, p>>

NextTurn ==
  turn' = CASE turn[1] = "prx" -> <<"pim", turn[2]>>
            [] turn[1] = "pim" /\ turn[2] < N -> <<"prx", turn[2] + 1>>
            [] turn[1] = "pim" /\ turn[2] = N -> <<"prs", 0>>
            [] turn[1] = "prs" -> <<"prx", 1>>

PrxDiscard(p) ==
  /\ Runs("prx", p)
  /\ port[p].prx = "discard"
  /\ LET entered == [port[p] EXCEPT !.rcvdMsg = @ /\ port[p].prxExec]
     IN  \/ /\ rcvd[p] > 0
            /\ rcvd' = [rcvd EXCEPT ![p] = @ - 1]
            /\ port' = [port EXCEPT ![p] =
                          [entered EXCEPT !.prx = "receive", !.prxExec = FALSE]]
         \/ /\ rcvd[p] = 0
            /\ port' = [port EXCEPT ![p] = [entered EXCEPT !.prxExec = TRUE]]
            /\ UNCHANGED rcvd
  /\ NextTurn
  /\ UNCHANGED <<sock, buf, processed, recv, prsExec, tick, sent, failed>>

\* prx_receive: its entry actions set rcvdMsg; when the message is gone and
\* another BPDU is there it enters itself again and posts processedBPDU
PrxReceive(p) ==
  /\ Runs("prx", p)
  /\ port[p].prx = "receive"
  /\ LET msg == port[p].rcvdMsg \/ ~port[p].prxExec
     IN  \/ /\ ~msg
            /\ rcvd[p] > 0
            /\ rcvd' = [rcvd EXCEPT ![p] = @ - 1]
            /\ processed' = [processed EXCEPT ![p] = @ + 1]
            /\ port' = [port EXCEPT ![p].prxExec = FALSE]
         \/ /\ msg \/ rcvd[p] = 0
            /\ port' = [port EXCEPT ![p].prxExec = TRUE, ![p].rcvdMsg = msg]
            /\ UNCHANGED <<rcvd, processed>>
  /\ NextTurn
  /\ UNCHANGED <<sock, buf, recv, prsExec, tick, sent, failed>>

\* A step of the port information machine that touches port p alone
PimStep(p, from, next) ==
  /\ Runs("pim", p)
  /\ port[p].pim = from
  /\ port' = [port EXCEPT ![p] = next]
  /\ NextTurn
  /\ UNCHANGED <<sock, rcvd, recv, prsExec, tick, sent, failed>>

Goto(interface, state) == [interface EXCEPT !.pim = state, !.pimExec = FALSE]

PimDisabled(p) ==
  /\ PimStep(p, "disabled",
       [Goto(port[p], "aged") EXCEPT
          !.rcvdMsg = FALSE, !.rcvdInfoWhile = 0, !.infoIs = "disabled",
          !.reselect = TRUE, !.selected = FALSE])
  /\ UNCHANGED <<buf, processed>>

PimAged(p) ==
  LET entered == IF port[p].pimExec THEN port[p]
                 ELSE [port[p] EXCEPT !.infoIs = "aged", !.reselect = TRUE,
                                      !.selected = FALSE]
  IN  /\ PimStep(p, "aged", IF entered.selected /\ entered.updtInfo
                            THEN Goto(entered, "update")
                            ELSE [entered EXCEPT !.pimExec = TRUE])
      /\ UNCHANGED <<buf, processed>>

PimUpdate(p) ==
  /\ PimStep(p, "update",
       [Goto(port[p], "current") EXCEPT
          !.portPriority = port[p].designatedPriority,
          !.portTimes = port[p].designatedTimes,
          !.updtInfo = FALSE, !.infoIs = "mine"])
  /\ UNCHANGED <<buf, processed>>

\* Mutant of PimCurrent: the timer is not looked at
PimCurrentNeverAges(p) ==
  LET i == port[p]
  IN  /\ PimStep(p, "current", CASE i.selected /\ i.updtInfo -> Goto(i, "update")
                                 [] i.rcvdMsg /\ ~i.updtInfo -> Goto(i, "receive")
                                 [] OTHER -> i)
      /\ UNCHANGED <<buf, processed>>

PimCurrent(p) ==
  LET i == port[p]
      update == i.selected /\ i.updtInfo
      age    == i.infoIs = "received" /\ i.rcvdInfoWhile = 0 /\ ~i.updtInfo /\ ~i.rcvdMsg
      take   == i.rcvdMsg /\ ~i.updtInfo
  IN  /\ PimStep(p, "current", CASE update -> Goto(i, "update")
                                 [] age    -> Goto(i, "aged")
                                 [] take   -> Goto(i, "receive")
                                 [] OTHER  -> i)
      /\ UNCHANGED <<buf, processed>>

\* Mutant of Kind: any news from a designated port is recorded
KindAnyNews(type, role, v, t, w, u) ==
  CASE type = "tcn" -> "other"
    [] type # "tcn" /\ role = "designated" ->
         IF v # w \/ t # u THEN "superior" ELSE "repeated"
    [] type # "tcn" /\ role # "designated" -> "not_designated"

\* rcvInfo: the kind of a BPDU of a designated, root or other role with the
\* vector v and the times t, on a port that holds the vector w and times u
Kind(type, role, v, t, w, u) ==
  CASE type = "tcn" -> "other"
    [] type # "tcn" /\ role = "designated" ->
         IF Less(v, w) \/ (v = w /\ t # u) THEN "superior"
         ELSE IF v = w THEN "repeated" ELSE "inferior"
    [] type # "tcn" /\ role # "designated" ->
         IF role \in {"root", "alternate_backup"} /\ ~Less(v, w)
         THEN "not_designated" ELSE "other"

\* A configuration BPDU is marked, in the buffer, as a designated port's
Marked(frame) ==
  IF frame.type = "config" THEN [frame EXCEPT !.role = "designated"] ELSE frame

PimReceive(p) ==
  LET frame == Marked(buf[p])
      heard == IF frame.type = "tcn" THEN port[p]
               ELSE [port[p] EXCEPT !.msgPriority = frame.prio, !.msgTimes = frame.times]
  IN  /\ PimStep(p, "receive",
           Goto(heard, Kind(frame.type, frame.role, frame.prio, frame.times,
                            port[p].portPriority, port[p].portTimes)))
      /\ buf' = [buf EXCEPT ![p] = frame]
      /\ UNCHANGED processed

\* Mutant of PimDone: the semaphore is not posted
PimDoneKeepsToken(p, from, next) ==
  /\ PimStep(p, from, [Goto(next, "current") EXCEPT !.rcvdMsg = FALSE])
  /\ UNCHANGED <<buf, processed>>

\* The machine is done with the BPDU: rcvdMsg is cleared and processedBPDU posted
PimDone(p, from, next) ==
  /\ PimStep(p, from, [Goto(next, "current") EXCEPT !.rcvdMsg = FALSE])
  /\ processed' = [processed EXCEPT ![p] = @ + 1]
  /\ UNCHANGED buf

\* Mutant of PimSuperior: the role stays selected
PimSuperiorStaysSelected(p) ==
  PimDone(p, "superior",
    [port[p] EXCEPT !.portPriority = port[p].msgPriority,
                    !.portTimes = port[p].msgTimes,
                    !.rcvdInfoWhile = LifeOf(port[p].msgTimes),
                    !.infoIs = "received",
                    !.reselect = TRUE])

PimSuperior(p) ==
  PimDone(p, "superior",
    [port[p] EXCEPT !.portPriority = port[p].msgPriority,
                    !.portTimes = port[p].msgTimes,
                    !.rcvdInfoWhile = LifeOf(port[p].msgTimes),
                    !.infoIs = "received",
                    !.reselect = TRUE, !.selected = FALSE])

PimRepeated(p) ==
  PimDone(p, "repeated", [port[p] EXCEPT !.rcvdInfoWhile = LifeOf(port[p].portTimes)])

PimInferior(p) == PimDone(p, "inferior", port[p])

PimNotDesignated(p) == PimDone(p, "not_designated", port[p])

PimOther(p) == PimDone(p, "other", port[p])
-----------------------------------------------------------------------------
(* Port role selection *)

RootPath(p) == AddPathCost(port[p].portPriority)

\* Ports through which another bridge's root is better than being the root
Candidate == {p \in Port : /\ port[p].infoIs = "received"
                           /\ port[p].portPriority[6] # Own
                           /\ Less(RootPath(p), OwnPriority(0))}

\* Mutant of RootPort: identifiers do not break ties
RootPortTies == {p \in Candidate : \A q \in Candidate : ~Less(RootPath(q), RootPath(p))}

\* The best of them, the lowest identifier among equals; none is the empty set
RootPort == {p \in Candidate : \A q \in Candidate :
               \/ Less(RootPath(p), RootPath(q))
               \/ RootPath(p) = RootPath(q) /\ p <= q}

DesignatedPriority(p) ==
  [i \in 1 .. 7 |->
     IF i \in 1 .. 5 /\ RootPort # {} THEN RootPath(CHOOSE r \in RootPort : TRUE)[i]
     ELSE OwnPriority(p)[i]]

\* updtRolesTree for one port: its role, and whether it must announce anew
Reselected(p) ==
  LET i == port[p]
      offer == DesignatedPriority(p)
      changed == offer # i.portPriority \/ BridgeTimes # i.portTimes
      worse == ~Less(offer, i.portPriority)
  IN  [i EXCEPT
         !.reselect = FALSE,
         !.selected = TRUE,
         !.designatedPriority = offer,
         !.designatedTimes = BridgeTimes,
         !.selectedRole =
            CASE i.infoIs = "disabled" -> "disabled"
              [] i.infoIs \in {"aged", "mine"} -> "designated"
              [] i.infoIs = "received" /\ p \in RootPort -> "root"
              [] i.infoIs = "received" /\ p \notin RootPort /\ worse ->
                   IF i.portPriority[6] # Own THEN "alternate" ELSE "backup"
              [] i.infoIs = "received" /\ p \notin RootPort /\ ~worse -> "designated",
         !.updtInfo =
            CASE i.infoIs = "disabled" -> i.updtInfo
              [] i.infoIs = "aged" -> TRUE
              [] i.infoIs = "mine" -> i.updtInfo \/ changed
              [] i.infoIs = "received" -> p \notin RootPort /\ ~worse]

PrsSelect ==
  /\ Runs("prs", 0)
  /\ ~prsExec
  /\ port' = [p \in Port |-> Reselected(p)]
  /\ prsExec' = TRUE
  /\ NextTurn
  /\ UNCHANGED <<sock, buf, processed, rcvd, recv, tick, sent, failed>>

\* The entry actions are done: run them again next time if a port asks for it
PrsWatch ==
  /\ Runs("prs", 0)
  /\ prsExec
  /\ prsExec' = ~ \E p \in Port : port[p].reselect
  /\ NextTurn
  /\ UNCHANGED <<sock, buf, processed, rcvd, recv, port, tick, sent, failed>>
-----------------------------------------------------------------------------
(* The timer signal, handled by any thread while the others run on: *)
(* if (x) x = x - 1 reads the volatile x twice and then writes it   *)

TickTest(p) ==
  /\ tick[p][1] = "idle"
  /\ port[p].rcvdInfoWhile > 0
  /\ tick' = [tick EXCEPT ![p] = <<"tested", 0>>]
  /\ UNCHANGED <<sock, buf, processed, rcvd, recv, turn, port, prsExec, sent, failed>>

TickLoad(p) ==
  /\ tick[p][1] = "tested"
  /\ tick' = [tick EXCEPT ![p] = <<"loaded", port[p].rcvdInfoWhile>>]
  /\ UNCHANGED <<sock, buf, processed, rcvd, recv, turn, port, prsExec, sent, failed>>

\* Mutant of TickStore: the timer is a signed number
TickStoreSigned(p) ==
  /\ tick[p][1] = "loaded"
  /\ port' = [port EXCEPT ![p].rcvdInfoWhile = tick[p][2] - 1]
  /\ tick' = [tick EXCEPT ![p] = <<"idle", 0>>]
  /\ UNCHANGED <<sock, buf, processed, rcvd, recv, turn, prsExec, sent, failed>>

TickStore(p) ==
  /\ tick[p][1] = "loaded"
  /\ port' = [port EXCEPT ![p].rcvdInfoWhile = (tick[p][2] - 1) % TimerModulus]
  /\ tick' = [tick EXCEPT ![p] = <<"idle", 0>>]
  /\ UNCHANGED <<sock, buf, processed, rcvd, recv, turn, prsExec, sent, failed>>
-----------------------------------------------------------------------------
Prx(p) == PrxDiscard(p) \/ PrxReceive(p)

Pim(p) == \/ PimDisabled(p) \/ PimAged(p) \/ PimUpdate(p) \/ PimCurrent(p)
          \/ PimReceive(p) \/ PimSuperior(p) \/ PimRepeated(p)
          \/ PimInferior(p) \/ PimNotDesignated(p) \/ PimOther(p)

Prs == PrsSelect \/ PrsWatch

FsmStep == Prs \/ \E p \in Port : Prx(p) \/ Pim(p)

ReceiverStep(p) == TakeToken(p) \/ Receive(p) \/ ReceiveFails(p) \/ PostReceived(p)

Tick(p) == TickTest(p) \/ TickLoad(p) \/ TickStore(p)

Next ==
  \/ FsmStep
  \/ \E p \in Port : ReceiverStep(p) \/ Tick(p) \/ \E f \in Frame[p] : Send(p, f)

Spec == Init /\ [][Next]_vars

\* The main thread never blocks, the receiver serves every readable port that
\* has its token, and the timer goes off every second
FairSpec ==
  /\ Spec
  /\ WF_vars(FsmStep)
  /\ \A p \in Port : WF_vars(ReceiverStep(p)) /\ WF_vars(Tick(p))
-----------------------------------------------------------------------------
(* Properties *)

\* BPDUs and permissions to receive one that exist for port p
Tokens(p) ==
  processed[p] + rcvd[p]
    + (IF recv \in {<<"recv", p>>, <<"post", p>>} THEN 1 ELSE 0)
    + (IF port[p].prx = "receive" /\ ~port[p].prxExec THEN 1 ELSE 0)
    + (IF port[p].rcvdMsg THEN 1 ELSE 0)

\* A port goes deaf (its buffer is never offered to the receiver again) only
\* after recv() failed on it: until then its token is with the receiver, in a
\* semaphore or in the machines.
DeafOnlyAfterError == \A p \in Port : p \in failed \/ Tokens(p) > 0

\* A port that is told to be designated and has nothing left to announce
\* announces this bridge's information: it never keeps, or loses to age, what
\* a neighbour said without being selected anew.
DesignatedAnnounces ==
  \A p \in Port : port[p].selected /\ port[p].selectedRole = "designated" /\ ~port[p].updtInfo
               => port[p].infoIs = "mine"

\* No port waits for role selection or for an update
Quiet == prsExec /\ \A p \in Port : port[p].selected /\ ~port[p].reselect /\ ~port[p].updtInfo

Follower == {p \in Port : port[p].selectedRole \in {"root", "alternate", "backup"}}

\* The roles that follow a neighbour are given to ports with received
\* information only (prs.c:121-135).  A port may lose it later: an update that
\* was decided before role selection is still done after.
FollowersHear == \A p \in Follower : port[p].infoIs = "received"

\* When everything is done and every follower still has what it heard, the
\* bridge is coherent: it has at most one root port, and every designated port
\* announces the root that the root port reports, or else the bridge itself.
\* What it announces is worse than what the root port heard, or the root would
\* seem to come nearer with every bridge; the cost added in the wrong byte order wraps
\* on the fourth bridge, and the announcement looks better from there on.
SettledTree ==
  Quiet /\ FollowersHear =>
    LET roots == {p \in Port : port[p].selectedRole = "root"}
    IN  /\ \A p, q \in roots : p = q
        /\ \A d \in Port : port[d].selectedRole = "designated" =>
             IF roots = {} THEN port[d].portPriority = OwnPriority(d)
             ELSE \A r \in roots :
                    /\ port[d].portPriority[1] = port[r].portPriority[1]
                    /\ \/ Less(port[r].portPriority, port[d].portPriority)
                       \/ port[r].portPriority[2] >= 192

\* What a neighbour said is never given up for something worse: received
\* information is replaced by received information only if that is at least
\* as good, however late the machine comes to record it.
ReceivedOnlyImproves ==
  [][\A p \in Port : port[p].infoIs = "received" /\ port'[p].infoIs = "received" =>
       ~Less(port[p].portPriority, port'[p].portPriority)]_vars

\* A neighbour that falls silent, as all do after MaxFrames BPDUs, is forgotten:
\* received information does not stay for ever, and does not stay aged, whatever
\* the timer signal does to the machines' timers.
ForgetsDeadNeighbour ==
  \A p \in Port : []<>(port[p].infoIs = "mine")

\* Every BPDU that arrives is read, unless recv() has failed on the port.
ReadsEveryBpdu ==
  \A p \in Port : []<>(sock[p] = <<>> \/ p \in failed)

\* A BPDU is acted on whole: while a superior or a repeated BPDU waits to be
\* recorded, the buffer its flags are taken from still holds that BPDU.
ActsOnOneBpdu ==
  \A p \in Port : port[p].pim \in {"superior", "repeated"} =>
    buf[p].type # "tcn" /\ buf[p].prio = port[p].msgPriority
=============================================================================

-------------------------------- MODULE Cdpd --------------------------------
(***************************************************************************)
(* cdpd: the receiver lists the neighbours it hears of under their         *)
(* interface and keeps them in a heap ordered by the time they expire, the *)
(* cleaner removes the expired ones, the listener answers the requests     *)
(* that programs send over message queues (lib/cdp_client.c).              *)
(*                                                                         *)
(* Two kinds of semaphores guard the data: n_sem of each interface its     *)
(* list of neighbours, nheap_sem the heap.  What a thread does from one    *)
(* wait to the next is one step.  The array of the heap counts from 1      *)
(* here, and from 0 in the code.                                           *)
(***************************************************************************)
EXTENDS Integers, Sequences, FiniteSets

CONSTANTS
    Interfaces,     \* the interfaces of the switch
    Stations,       \* its neighbours, each an interface and a device
    Ttls,           \* the times to live they announce
    MaxTime,        \* bound: seconds that pass
    MaxRequests     \* bound: requests of the client

ASSUME CdpdAssumption ==
    /\ IsFiniteSet(Stations)
    /\ \A s \in Stations : s \in Interfaces \X {s[2]}
    /\ Ttls \subseteq Nat /\ MaxTime \in Nat /\ MaxRequests \in Nat

VARIABLES
    registered,     \* registered_interfaces
    node,           \* the allocated neighbours, by address
    listed,         \* the addresses in each interface's list
    heap,           \* nheap[0 .. hend]
    nheapSem,       \* the thread that has nheap_sem, or "none"
    nSem,           \* the thread that has n_sem of each interface
    receiver,       \* [pc, n]: where it is and the neighbour it handles
    cleaner,        \* [pc, n]: where it is and the neighbour it removes
    now,            \* time(NULL)
    requests,       \* the queue of cdpd
    listener,       \* [todo, found]: interfaces to visit for a request
    client,         \* [pc, id]: where a client is, its latest request
    answers,        \* the client's own queue
    late            \* the client once gave up a request

listVars   == <<node, listed, heap>>
clientVars == <<client, answers, late>>
vars == <<registered, listVars, nheapSem, nSem, receiver, cleaner, now,
          requests, listener, clientVars>>

\* Addresses that malloc() gives: one for the neighbour listed, one for the
\* neighbour the receiver allocates when a frame of it comes again.
Address == Stations \X {1, 2}
NoAddress == << >>

Neighbour == [interface : Interfaces, device : {s[2] : s \in Stations}, ttl : Ttls,
              hnode : 0 .. Cardinality(Stations)]
\* "show cdp entry" asks for the neighbours of every interface: if_index is 0.
Every == "every"
Request == [id : 1 .. MaxRequests, if_index : Interfaces,
            type : {"enable", "disable", "status", "neighbors"}]
           \cup [id : 1 .. MaxRequests, if_index : {Every}, type : {"neighbors"}]

\* The start configuration is loaded (swcfgload): CDP is enabled on each
\* interface.
Init ==
    /\ registered = Interfaces /\ node = << >> /\ heap = << >>
    /\ listed = [i \in Interfaces |-> {}]
    /\ nheapSem = "none" /\ nSem = [i \in Interfaces |-> "none"]
    /\ receiver = [pc |-> "select", n |-> NoAddress]
    /\ cleaner = [pc |-> "asleep", n |-> NoAddress]
    /\ now = 0
    /\ requests = << >> /\ listener = [todo |-> {}, found |-> {}]
    /\ client = [pc |-> "idle", id |-> 0] /\ answers = << >> /\ late = FALSE

-----------------------------------------------------------------------------
(* The heap.                                                               *)

\* sift_up(): the entries above position p that make way for the entry at p.
GivesWay(h, p) ==
    LET gives[k \in 1 .. p] ==
          IF k = p THEN TRUE
          ELSE /\ \E c \in {2 * k, 2 * k + 1} : c <= p /\ gives[c]
               /\ h[p].tstamp < h[k].tstamp
    IN  {k \in 1 .. p : gives[k]}

\* The left child, unless the right one is less.
Least(h, k) ==
    IF 2 * k + 1 <= Len(h) /\ h[2 * k + 1].tstamp < h[2 * k].tstamp
    THEN 2 * k + 1 ELSE 2 * k

\* sift_down() from the root: the positions the root's entry passes.
Passes(h) ==
    LET passes[k \in 1 .. Len(h)] ==
          k = 1 \/ /\ passes[k \div 2] /\ k = Least(h, k \div 2)
                   /\ h[k].tstamp < h[1].tstamp
    IN  {k \in 1 .. Len(h) : passes[k]}

Deepest(S)  == CHOOSE k \in S : \A j \in S : j <= k
Highest(S)  == CHOOSE k \in S : \A j \in S : k <= j
Parent(S, k) == CHOOSE j \in S : k \div 2 = j
Child(S, k)  == CHOOSE j \in S : j \div 2 = k

SiftUp(h, S) ==
    [k \in DOMAIN h |-> CASE k \notin S -> h[k]
                          [] k = Highest(S) -> h[Deepest(S)]
                          [] OTHER -> h[Parent(S, k)]]

SiftDown(h, S) ==
    [k \in DOMAIN h |-> CASE k \notin S -> h[k]
                          [] k = Deepest(S) -> h[1]
                          [] OTHER -> h[Child(S, k)]]

\* Mutant: the pointer is to the next position.
ToldNext(nodes, h, S) ==
    IF Cardinality(S) <= 1 THEN nodes
    ELSE [a \in DOMAIN nodes |->
            IF \E k \in S : h[k].n = a
            THEN [nodes[a] EXCEPT !.hnode = 1 + CHOOSE k \in S : h[k].n = a]
            ELSE nodes[a]]

\* _XCHG() tells the nodes of the positions S where they now are; when
\* nothing was exchanged none is told.
Told(nodes, h, S) ==
    IF Cardinality(S) <= 1 THEN nodes
    ELSE [a \in DOMAIN nodes |->
            IF \E k \in S : h[k].n = a
            THEN [nodes[a] EXCEPT !.hnode = CHOOSE k \in S : h[k].n = a]
            ELSE nodes[a]]

\* decode_field(): the entry of a new neighbour.
Pushed(h, a, tstamp) == Append(h, [tstamp |-> tstamp, n |-> a])

\* decode_field(): the entry of a known neighbour.  The time to live is the
\* one it was listed with, and an hnode past the end reaches no entry.
Updated(h, a) ==
    IF node[a].hnode <= Len(h)
    THEN [h EXCEPT ![node[a].hnode].tstamp = node[a].ttl + now] ELSE h

\* Mutant: the root stays, the last entry is lost.
PoppedLast(h) == SubSeq(h, 1, Len(h) - 1)

\* cdp_clean_loop(): the last entry replaces the root.
Popped(h) ==
    IF Len(h) = 1 THEN << >>
    ELSE [SubSeq(h, 1, Len(h) - 1) EXCEPT ![1] = h[Len(h)]]

-----------------------------------------------------------------------------
(* The receiver.                                                           *)

\* A frame arrives on a registered interface and CDP is enabled: a new
\* neighbour is allocated, then the receiver waits for the list.
Receive ==
    /\ receiver.pc = "select"
    /\ \E s \in Stations, t \in Ttls :
         LET a == IF <<s, 1>> \in DOMAIN node THEN <<s, 2>> ELSE <<s, 1>> IN
         /\ s[1] \in registered
         /\ node' = [b \in DOMAIN node \cup {a} |->
                       IF b = a THEN [interface |-> s[1], device |-> s[2], ttl |-> t, hnode |-> 0]
                       ELSE node[b]]
         /\ receiver' = [pc |-> "list", n |-> a]
    /\ UNCHANGED <<registered, listed, heap, nheapSem, nSem, cleaner, now,
                   requests, listener, clientVars>>

FindByDeviceId(i, d) == {a \in listed[i] : node[a].device = d}

\* It has the list: of a known neighbour the new allocation is freed.
TakesList ==
    LET a == receiver.n
        i == node[a].interface
        known == FindByDeviceId(i, node[a].device)
    IN  /\ receiver.pc = "list" /\ nSem[i] = "none"
        /\ nSem' = [nSem EXCEPT ![i] = "receiver"]
        /\ \/ /\ known = {}
              /\ receiver' = [receiver EXCEPT !.pc = "push"] /\ UNCHANGED node
           \/ \E b \in known :
                /\ receiver' = [pc |-> "refresh", n |-> b]
                /\ node' = [c \in DOMAIN node \ {a} |-> node[c]]
        /\ UNCHANGED <<registered, listed, heap, nheapSem, cleaner, now,
                       requests, listener, clientVars>>

\* Back to select(): the receiver releases the list of interface i.
Selects(i) ==
    /\ nSem' = [nSem EXCEPT ![i] = "none"]
    /\ receiver' = [pc |-> "select", n |-> NoAddress]

\* The entry is updated and the heap sifted from its root: the index of the
\* entry is divided by the size of an entry twice, which leaves 0.
Refresh ==
    LET a == receiver.n
        h == Updated(heap, a)
        S == IF h = << >> THEN {} ELSE Passes(h)
    IN  /\ receiver.pc = "refresh" /\ nheapSem = "none"
        /\ heap' = IF S = {} THEN h ELSE SiftDown(h, S)
        /\ node' = Told(node, heap', S)
        /\ Selects(node[a].interface)
        /\ UNCHANGED <<registered, listed, nheapSem, cleaner, now, requests,
                       listener, clientVars>>

\* A new neighbour: its entry, then its place in the list.
Push ==
    LET a == receiver.n
        h == Pushed(heap, a, node[a].ttl + now)
        S == GivesWay(h, Len(h))
    IN  /\ receiver.pc = "push" /\ nheapSem = "none"
        /\ heap' = SiftUp(h, S)
        /\ node' = Told([node EXCEPT ![a].hnode = Len(h)], heap', S)
        /\ listed' = [listed EXCEPT ![node[a].interface] = @ \cup {a}]
        /\ Selects(node[a].interface)
        /\ UNCHANGED <<registered, nheapSem, cleaner, now, requests, listener,
                       clientVars>>

-----------------------------------------------------------------------------
(* The cleaner.                                                            *)

\* The test of the root, without the semaphore.
RootExpired(h) == h # << >> /\ h[1].tstamp <= now

\* Mutant: no second test.
NotRechecked(h) == TRUE

\* The same test with the semaphore: a refresh may have come first.
Rechecked(h) == RootExpired(h)

WakesUp ==
    /\ cleaner.pc = "asleep" /\ RootExpired(heap)
    /\ cleaner' = [cleaner EXCEPT !.pc = "heap"]
    /\ UNCHANGED <<registered, listVars, nheapSem, nSem, receiver, now,
                   requests, listener, clientVars>>

TakesHeap ==
    /\ cleaner.pc = "heap" /\ nheapSem = "none"
    /\ IF Rechecked(heap)
       THEN /\ nheapSem' = "cleaner"
            /\ cleaner' = [pc |-> "list", n |-> heap[1].n]
       ELSE /\ cleaner' = [pc |-> "asleep", n |-> NoAddress] /\ UNCHANGED nheapSem
    /\ UNCHANGED <<registered, listVars, nSem, receiver, now, requests,
                   listener, clientVars>>

\* Mutant: the path on which the heap is empty keeps the semaphore.
KeptWhenEmpty(left) == IF left = << >> THEN "cleaner" ELSE "none"

\* nheap_sem after the root was removed, whatever is left of the heap.
Posted(left) == "none"

\* It has the list of the root's interface: the neighbour is taken off and
\* freed, the heap sifted, and the root tested for another round.
Removes ==
    LET a == cleaner.n
        h == Popped(heap)
        S == IF h = << >> THEN {} ELSE Passes(h)
    IN  /\ cleaner.pc = "list" /\ nSem[node[a].interface] = "none"
        /\ listed' = [listed EXCEPT ![node[a].interface] = @ \ {a}]
        /\ heap' = IF S = {} THEN h ELSE SiftDown(h, S)
        /\ node' = Told([b \in DOMAIN node \ {a} |-> node[b]], heap', S)
        /\ nheapSem' = Posted(h)
        /\ cleaner' = [pc |-> IF RootExpired(heap') THEN "heap" ELSE "asleep",
                       n |-> NoAddress]
        /\ UNCHANGED <<registered, nSem, receiver, now, requests, listener,
                       clientVars>>

-----------------------------------------------------------------------------
(* The listener.                                                           *)

\* An answer goes to the queue named after the client's process, when there
\* is one: it is that of the session the client has open now.
Answers(r, found) ==
    answers' = IF client.pc = "idle" THEN answers
               ELSE Append(answers, [id |-> r.id, found |-> found])

\* cdpd_register_interface() has no effect when the interface is down, is
\* not switched or its socket cannot be set up.
Registers(r) ==
    /\ r.type = "enable"
    /\ registered' \in {registered, registered \cup {r.if_index}}
    /\ Answers(r, {})

Unregisters(r) ==
    /\ r.type = "disable"
    /\ registered' = registered \ {r.if_index}
    /\ Answers(r, {})

Status(r) ==
    /\ r.type = "status"
    /\ Answers(r, registered \cap {r.if_index}) /\ UNCHANGED registered

\* A request that is answered at once.
Handle ==
    /\ requests # << >> /\ listener.todo = {}
    /\ Registers(Head(requests)) \/ Unregisters(Head(requests))
       \/ Status(Head(requests))
    /\ requests' = Tail(requests)
    /\ UNCHANGED <<listVars, nheapSem, nSem, receiver, cleaner, now, listener,
                   client, late>>

\* The registered interfaces that a request for neighbours asks for.
Asked(r) == IF r.if_index = Every THEN registered ELSE registered \cap {r.if_index}

\* cdp_ipc_get_neighbors() visits them.
Visits ==
    /\ requests # << >> /\ listener.todo = {}
    /\ Head(requests).type = "neighbors"
    /\ Asked(Head(requests)) # {}
    /\ listener' = [todo |-> Asked(Head(requests)), found |-> {}]
    /\ UNCHANGED <<registered, listVars, nheapSem, nSem, receiver, cleaner,
                   now, requests, clientVars>>

NoneToVisit ==
    /\ requests # << >> /\ listener.todo = {}
    /\ Head(requests).type = "neighbors"
    /\ Asked(Head(requests)) = {}
    /\ requests' = Tail(requests) /\ Answers(Head(requests), {})
    /\ UNCHANGED <<registered, listVars, nheapSem, nSem, receiver, cleaner,
                   now, listener, client, late>>

\* A list is free: its neighbours are copied, and after the last one the answer
\* is sent.
Copies ==
    \E i \in listener.todo :
      LET found == listener.found \cup {<<i, node[a].device>> : a \in listed[i]}
      IN  /\ nSem[i] = "none"
          /\ \/ /\ listener.todo = {i}
                /\ listener' = [todo |-> {}, found |-> {}]
                /\ requests' = Tail(requests)
                /\ Answers(Head(requests), found)
             \/ /\ listener.todo # {i}
                /\ listener' = [todo |-> listener.todo \ {i}, found |-> found]
                /\ UNCHANGED <<requests, answers>>
          /\ UNCHANGED <<registered, listVars, nheapSem, nSem, receiver, cleaner,
                         now, client, late>>

-----------------------------------------------------------------------------
(* The client: one program that gives one command after the other.         *)

\* cdp_session_start() and the request of the command.
Ask ==
    /\ client.pc = "idle" /\ client.id < MaxRequests
    /\ client' = [pc |-> "waiting", id |-> client.id + 1]
    /\ \E r \in Request : r.id = client'.id /\ requests' = Append(requests, r)
    /\ UNCHANGED <<registered, listVars, nheapSem, nSem, receiver, cleaner,
                   now, listener, answers, late>>

\* Mutant: an answer is not waited for.
NotAwaited(queue) == TRUE

\* An answer is in the queue.
Received(queue) == queue # << >>

\* cdp_session_recv() takes the first answer, cdp_session_end() closes the
\* queue and unlinks it.
GetAnswer ==
    /\ client.pc = "waiting" /\ Received(answers)
    /\ client' = [client EXCEPT !.pc = "idle"] /\ answers' = << >>
    /\ UNCHANGED <<registered, listVars, nheapSem, nSem, receiver, cleaner,
                   now, requests, listener, late>>

\* No answer within CDP_CLIENT_TIMEOUT seconds.
TimesOut ==
    /\ client.pc = "waiting" /\ answers = << >>
    /\ client' = [client EXCEPT !.pc = "idle"] /\ late' = TRUE
    /\ UNCHANGED <<registered, listVars, nheapSem, nSem, receiver, cleaner,
                   now, requests, listener, answers>>

Tick ==
    /\ now < MaxTime /\ now' = now + 1
    /\ UNCHANGED <<registered, listVars, nheapSem, nSem, receiver, cleaner,
                   requests, listener, clientVars>>

Receiver == Receive \/ TakesList \/ Refresh \/ Push
Cleaner  == WakesUp \/ TakesHeap \/ Removes
Listener == Handle \/ Visits \/ NoneToVisit \/ Copies
Client   == Ask \/ GetAnswer \/ TimesOut

Next == Receiver \/ Cleaner \/ Listener \/ Client \/ Tick

\* A thread that can go on does: the receiver from its wait for a list to
\* its next select(), the cleaner at each of its rounds.  The arrival of
\* frames, the clock and the client owe nothing.
Spec == /\ Init /\ [][Next]_vars
        /\ WF_vars(TakesList \/ Refresh \/ Push)
        /\ WF_vars(Cleaner) /\ WF_vars(Listener)

-----------------------------------------------------------------------------
(* Properties.                                                             *)

TypeOK ==
    /\ registered \subseteq Interfaces
    /\ DOMAIN node \subseteq Address /\ \A a \in DOMAIN node : node[a] \in Neighbour
    /\ listed \in [Interfaces -> SUBSET Address]
    /\ heap \in Seq([tstamp : Nat, n : Address])
    /\ nheapSem \in {"none", "cleaner"}
    /\ nSem \in [Interfaces -> {"none", "receiver"}]
    /\ receiver \in [pc : {"select", "list", "refresh", "push"},
                     n : Address \cup {NoAddress}]
    /\ cleaner \in [pc : {"asleep", "heap", "list"}, n : Address \cup {NoAddress}]
    /\ now \in 0 .. MaxTime
    /\ requests \in Seq(Request)
    /\ listener.todo \subseteq registered
    /\ client \in [pc : {"idle", "waiting"}, id : 0 .. MaxRequests]
    /\ late \in BOOLEAN

\* The heap and the lists hold the same neighbours, each once, and none that
\* was freed: what the cleaner unlinks and frees is an allocated neighbour
\* of a list, whatever the receiver does at the same time; and a list holds
\* one neighbour of a name (cdpd.c:341-377, cdp_aging.c:104-126).
ListedOnce ==
    /\ \A a \in DOMAIN node :
         \A i \in Interfaces : a \in listed[i] => node[a].interface = i
    /\ UNION {listed[i] : i \in Interfaces} = {heap[k].n : k \in DOMAIN heap}
    /\ \A j, k \in DOMAIN heap : heap[j].n = heap[k].n => j = k
    /\ {heap[k].n : k \in DOMAIN heap} \subseteq DOMAIN node
    /\ \A i \in Interfaces : \A a, b \in listed[i] : node[a].device = node[b].device => a = b

\* The cleaner removes a neighbour only when the time of its entry has come,
\* even when a refresh was waiting for the heap at the same time: that is
\* what the second test is for (cdp_aging.c:103-108).
RemovedWhenExpired ==
    [][\A i \in Interfaces : \A a \in listed[i] \ listed'[i] :
         \E k \in DOMAIN heap : heap[k].n = a /\ heap[k].tstamp <= now]_vars

\* The receiver waits for the heap while it has a list, and the cleaner
\* waits for that list while it has the heap (cdpd.c:353, cdp_aging.c:116).
Inverted ==
    /\ receiver.pc \in {"refresh", "push"} /\ cleaner.pc = "list"
    /\ node[receiver.n].interface = node[cleaner.n].interface

\* The receiver comes back to select() and the cleaner to its pause again
\* and again, unless the two wait for each other for ever, which nothing in
\* the code prevents: no path of the receiver, the cleaner or the listener
\* keeps a semaphore that another waits for.
KeepsRunning ==
    \/ <>[]Inverted
    \/ []<>(receiver.pc = "select") /\ []<>(cleaner.pc = "asleep")

\* A client that never gave up a request reads the answer to its own one,
\* although every session of a program has the same queue name
\* (lib/cdp_client.c:25-30, 55-67).
AnswerMatches ==
    late \/ \A k \in DOMAIN answers : client.pc = "waiting" => answers[k].id = client.id
=============================================================================

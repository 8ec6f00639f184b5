----------------------------- MODULE CdpdProofs -----------------------------
(***************************************************************************)
(* Proofs about Cdpd, for any neighbours, times to live and number of      *)
(* requests and however the threads interleave.                            *)
(*                                                                         *)
(* A client that never gave up a request reads the answer to its own.  The *)
(* messages of the code carry nothing that tells one request from another  *)
(* (the model's identifiers are for the property): what makes it so is     *)
(* that at most one message is on its way, a request or the answer to it.  *)
(*                                                                         *)
(* The heap and the lists hold the same neighbours, each once, whatever    *)
(* the receiver and the cleaner do at the same time.  Sifting permutes     *)
(* the heap, in order or not: the positions an entry passes are a path of  *)
(* the tree.  What the receiver found in a list stays true because it has  *)
(* the list's semaphore; the root the cleaner tested stays the root        *)
(* because it has the heap's.                                              *)
(***************************************************************************)
EXTENDS Cdpd, FiniteSetTheorems, WellFoundedInduction, TLAPS

\* A message, either way, that carries the identifier of the last request.
Own(queue) == \E m : queue = <<m>> /\ m.id = client.id

OneOnItsWay ==
    \/ client.pc = "idle" /\ requests = << >> /\ answers = << >>
    \/ client.pc = "waiting" /\ Own(requests) /\ answers = << >>
    \/ client.pc = "waiting" /\ requests = << >> /\ Own(answers)

\* The listener visits interfaces for a request that it has not taken off yet.
Visiting == listener.todo # {} => requests # << >>

Inv == /\ client = [f \in {"pc", "id"} |-> client[f]]
       /\ late \/ (OneOnItsWay /\ Visiting)

-----------------------------------------------------------------------------

\* Answering takes the request off its queue and puts one answer on the other.
LEMMA AnswerKeeps ==
    ASSUME Inv, requests # << >>, requests' = Tail(requests), UNCHANGED <<client, late>>,
           NEW found, Answers(Head(requests), found),
           listener'.todo = {}
    PROVE  Inv'
<1>1. CASE late
  BY <1>1 DEF Inv
<1>2. CASE ~late
  <2>1. client.pc = "waiting" /\ Own(requests) /\ answers = << >>
    BY <1>2 DEF Inv, OneOnItsWay
  <2>2. PICK r : requests = <<r>> /\ r.id = client.id
    BY <2>1 DEF Own
  <2>3. requests' = << >> /\ Head(requests) = r
    BY <2>2
  <2>4. answers' = <<[id |-> r.id, found |-> found]>>
    BY <2>1, <2>3 DEF Answers
  <2>5. Own(answers)'
    BY <2>2, <2>4 DEF Own
  <2>6. QED
    BY <1>2, <2>1, <2>3, <2>5 DEF Inv, OneOnItsWay, Visiting
<1>3. QED
  BY <1>1, <1>2

\* The listener sends the answer it was asked for and no other.
LEMMA ListenerKeeps == ASSUME Inv, Listener PROVE Inv'
<1>1. CASE Handle
  <2>1. \E found : Answers(Head(requests), found)
    BY <1>1 DEF Handle, Registers, Unregisters, Status
  <2>2. QED
    BY <1>1, <2>1, AnswerKeeps DEF Handle
<1>2. CASE Visits
  BY <1>2 DEF Visits, clientVars, Inv, OneOnItsWay, Visiting, Own
<1>3. CASE NoneToVisit
  BY <1>3, AnswerKeeps DEF NoneToVisit
<1>4. CASE Copies
  <2>1. PICK found :
           \/ /\ listener' = [todo |-> {}, found |-> {}]
              /\ requests' = Tail(requests)
              /\ Answers(Head(requests), found)
              /\ UNCHANGED <<client, late>>
           \/ UNCHANGED <<requests, answers, client, late>>
    BY <1>4 DEF Copies
  <2>2. CASE late
    BY <2>1, <2>2 DEF Inv
  <2>3. CASE ~late
    <3>1. listener.todo # {} /\ requests # << >>
      BY <1>4, <2>3 DEF Copies, Inv, Visiting
    <3>2. CASE UNCHANGED <<requests, answers, client, late>>
      BY <3>1, <3>2 DEF Inv, OneOnItsWay, Visiting, Own
    <3>3. QED
      BY <2>1, <3>1, <3>2, AnswerKeeps
  <2>4. QED
    BY <2>2, <2>3
<1>5. QED
  BY <1>1, <1>2, <1>3, <1>4 DEF Listener

\* A client that never gave up reads the one message there is before it asks again.
LEMMA ClientKeeps == ASSUME Inv, Client PROVE Inv'
<1>1. CASE Ask
  <2>1. PICK r \in Request : r.id = client'.id /\ requests' = Append(requests, r)
    BY <1>1 DEF Ask
  <2>2. /\ client.pc = "idle" /\ UNCHANGED <<answers, late, listener>>
        /\ client' = [pc |-> "waiting", id |-> client.id + 1]
    BY <1>1 DEF Ask
  <2>3. CASE late
    BY <2>2, <2>3 DEF Inv
  <2>4. CASE ~late
    <3>1. requests = << >> /\ answers = << >> /\ listener.todo = {}
      BY <2>2, <2>4 DEF Inv, OneOnItsWay, Visiting
    <3>2. requests' = <<r>>
      BY <2>1, <3>1
    <3>3. Own(requests)'
      BY <2>1, <3>2 DEF Own
    <3>4. QED
      BY <2>2, <2>4, <3>1, <3>2, <3>3 DEF Inv, OneOnItsWay, Visiting
  <2>5. QED
    BY <2>3, <2>4
<1>2. CASE GetAnswer
  <2>1. /\ client.pc = "waiting" /\ answers # << >> /\ answers' = << >>
        /\ client' = [client EXCEPT !.pc = "idle"] /\ UNCHANGED <<requests, late, listener>>
    BY <1>2 DEF GetAnswer, Received
  <2>2. client'.pc = "idle" /\ client' = [f \in {"pc", "id"} |-> client'[f]]
    BY <2>1 DEF Inv
  <2>3. late \/ requests = << >>
    BY <2>1 DEF Inv, OneOnItsWay
  <2>4. QED
    BY <2>1, <2>2, <2>3 DEF Inv, OneOnItsWay, Visiting
<1>3. CASE TimesOut
  <2>1. late' /\ client' = [client EXCEPT !.pc = "idle"]
    BY <1>3 DEF TimesOut
  <2>2. QED
    BY <2>1 DEF Inv
<1>4. QED
  BY <1>1, <1>2, <1>3 DEF Client

\* The other threads have nothing to do with the queues.
LEMMA OthersKeep ==
    ASSUME Inv, Receiver \/ Cleaner \/ Tick \/ UNCHANGED vars
    PROVE  Inv'
<1>1. UNCHANGED <<requests, listener, client, answers, late>>
  BY DEF Receiver, Receive, TakesList, Refresh, Push, Cleaner, WakesUp, TakesHeap,
         Removes, Tick, vars, clientVars
<1>2. QED
  BY <1>1 DEF Inv, OneOnItsWay, Visiting, Own

-----------------------------------------------------------------------------

\* A client that never gave up a request reads the answer to its own one,
\* whatever cdpd's threads do in between (lib/cdp_client.c:25-90).
THEOREM OwnAnswer == Spec => []AnswerMatches
<1>1. Init => Inv
  BY DEF Init, Inv, OneOnItsWay, Visiting
<1>2. Inv /\ [Next]_vars => Inv'
  BY ListenerKeeps, ClientKeeps, OthersKeep DEF Next
<1>3. Inv => AnswerMatches
  BY DEF Inv, OneOnItsWay, Own, AnswerMatches
<1>4. QED
  BY <1>1, <1>2, <1>3, PTL DEF Spec

-----------------------------------------------------------------------------
(* The heap.  Sifting an entry moves those on a path of the tree by one    *)
(* place each, so it puts the same entries in another order, whether the   *)
(* heap is in order or not: what decides how far an entry goes does not    *)
(* matter, only that the positions it passes are a path.                   *)

Below == {ss \in Nat \X Nat : ss[1] < ss[2]}

\* There is no endless descent in the natural numbers.
LEMMA BelowWellFounded == IsWellFoundedOn(Below, Nat)
<1>1. IsWellFoundedOn(OpToRel(<, Nat), Nat)
  BY NatLessThanWellFounded
<1>2. OpToRel(<, Nat) = Below
  BY DEF OpToRel, Below
<1>3. QED
  BY <1>1, <1>2

\* A set of natural numbers that is not empty has a least element.
LEMMA LeastNumber ==
    ASSUME NEW T, T \subseteq Nat, T # {}
    PROVE  \E m \in T : \A k \in T : m <= k
<1>1. PICK m \in T : \A k \in T : <<k, m>> \notin Below
  BY BelowWellFounded, WFMin, Zenon
<1>2. ASSUME NEW k \in T, k < m PROVE <<k, m>> \in Below
  BY <1>2 DEF Below
<1>3. \A k \in T : m <= k
  <2> TAKE k \in T
  <2>1. ~(k < m)
    BY <1>1, <1>2
  <2>2. k \in Nat /\ m \in Nat
    OBVIOUS
  <2>3. QED
    BY <2>1, <2>2
<1>4. QED
  BY <1>3

\* ... and one of positions has a greatest.
LEMMA GreatestPosition ==
    ASSUME NEW n \in Nat, NEW T, T \subseteq 1 .. n, T # {}
    PROVE  \E m \in T : \A k \in T : k <= m
<1> DEFINE R == {n - k : k \in T}
<1>1. R \subseteq Nat /\ R # {}
  <2>1. \A k \in T : k \in 1 .. n
    OBVIOUS
  <2>2. \A k \in T : n - k \in Nat
    BY <2>1
  <2>3. QED
    BY <2>2
<1>2. PICK r \in R : \A q \in R : r <= q
  <2> HIDE DEF R
  <2>1. QED
    BY <1>1, LeastNumber
<1>3. PICK m \in T : r = n - m
  OBVIOUS
<1>4. \A k \in T : n - m <= n - k
  BY <1>2, <1>3
<1>5. \A k \in T : k \in 1 .. n
  OBVIOUS
<1>6. \A k \in T : k <= m
  BY <1>4, <1>5
<1>7. QED
  BY <1>6

\* The parent of a position.
LEMMA Halves ==
    ASSUME NEW k \in Nat
    PROVE  k \div 2 \in Nat /\ 2 * (k \div 2) <= k /\ k < 2 * (k \div 2) + 2
  OBVIOUS

\* A path of the tree: of two positions of it the lower one has its parent in
\* it, and that is not above the higher one.
Path(S, n) ==
    /\ S \subseteq 1 .. n /\ S # {}
    /\ \A j, k \in S : j < k => k \div 2 \in S /\ j <= k \div 2

\* The positions that an entry passes on its way down from the root.
LEMMA PathDown ==
    ASSUME NEW n \in Nat, NEW S, S \subseteq 1 .. n, 1 \in S,
           \A k \in S \ {1} : k \div 2 \in S,
           \A j, k \in S \ {1} : j \div 2 = k \div 2 => j = k
    PROVE  Path(S, n)
<1> DEFINE Far(j, k) == j < k /\ k \div 2 < j
           T == {k \in S : \E j \in S : Far(j, k)}
<1>1. \A k \in S : k \in Nat /\ k >= 1
  OBVIOUS
<1>2. T = {}
  <2> SUFFICES ASSUME T # {} PROVE FALSE
    OBVIOUS
  <2>1. T \subseteq Nat
    BY <1>1
  <2>2. PICK k \in T : \A m \in T : k <= m
    <3> HIDE DEF T
    <3>1. QED
      BY <2>1, LeastNumber
  <2>3. k \in S /\ \A m \in S : m < k => ~(\E j \in S : Far(j, m))
    <3>1. k \in S
      OBVIOUS
    <3>2. ASSUME NEW m \in S, m < k PROVE m \notin T
      BY <1>1, <2>2, <3>1, <3>2
    <3>3. QED
      BY <3>1, <3>2
  <2>4. PICK j \in S : j < k /\ k \div 2 < j
    OBVIOUS
  <2>5. j # 1 /\ k # 1
    BY <1>1, <2>3, <2>4, Halves
  <2>6. /\ k \div 2 \in S /\ j \div 2 \in S
        /\ j \div 2 # k \div 2
    BY <2>3, <2>4, <2>5, <1>1
  <2>7. j \div 2 < k \div 2
    BY <1>1, <2>3, <2>4, <2>6, Halves
  <2>8. Far(k \div 2, j)
    BY <2>4, <2>7
  <2>9. QED
    BY <2>3, <2>4, <2>6, <2>8
<1>3. ASSUME NEW j \in S, NEW k \in S, j < k PROVE k \div 2 \in S /\ j <= k \div 2
  <2>1. k # 1
    BY <1>1, <1>3
  <2>2. k \div 2 \in S
    BY <2>1
  <2>3. ~Far(j, k)
    BY <1>2
  <2>4. QED
    BY <1>1, <1>3, <2>2, <2>3
<1>4. QED
  BY <1>3 DEF Path

\* Those that make way for an entry on its way up from the end.
LEMMA PathUp ==
    ASSUME NEW n \in Nat, NEW S, S \subseteq 1 .. n, n \in S,
           \A k \in S \ {n} : \E c \in S : c \div 2 = k
    PROVE  Path(S, n)
<1> DEFINE Far(j, k) == j < k /\ k \div 2 < j
           T == {j \in S : \E k \in S : Far(j, k)}
<1>1. \A k \in S : k \in Nat /\ k >= 1 /\ k <= n
  OBVIOUS
<1>2. T = {}
  <2> SUFFICES ASSUME T # {} PROVE FALSE
    OBVIOUS
  <2>1. T \subseteq 1 .. n
    BY <1>1
  <2>2. PICK j \in T : \A m \in T : m <= j
    <3> HIDE DEF T
    <3>1. QED
      BY <2>1, GreatestPosition
  <2>3. j \in S /\ \A m \in S : j < m => ~(\E k \in S : Far(m, k))
    <3>1. j \in S
      OBVIOUS
    <3>2. ASSUME NEW m \in S, j < m PROVE m \notin T
      BY <1>1, <2>2, <3>1, <3>2
    <3>3. QED
      BY <3>1, <3>2
  <2>4. PICK k \in S : j < k /\ k \div 2 < j
    OBVIOUS
  <2>5. j # n
    BY <1>1, <2>3, <2>4
  <2>6. PICK c \in S : c \div 2 = j
    BY <2>3, <2>5
  <2>7. k < c
    BY <1>1, <2>4, <2>6, Halves
  <2>8. Far(k, c)
    BY <1>1, <2>3, <2>4, <2>6, <2>7
  <2>9. QED
    BY <2>3, <2>4, <2>6, <2>8
<1>3. ASSUME NEW j \in S, NEW k \in S, j < k PROVE k \div 2 \in S /\ j <= k \div 2
  <2>1. \A i \in S : i < k => i <= k \div 2
    <3> TAKE i \in S
    <3>1. ~Far(i, k)
      BY <1>2
    <3>2. k \div 2 \in Nat
      BY <1>1, Halves
    <3>3. QED
      BY <1>1, <3>1, <3>2
  <2> DEFINE A == {i \in S : i < k}
  <2>2. A \subseteq 1 .. n /\ A # {}
    BY <1>3
  <2>3. PICK i \in A : \A m \in A : m <= i
    <3> HIDE DEF A
    <3>1. QED
      BY <2>2, GreatestPosition
  <2>4. i \in S /\ i < k /\ i # n
    BY <1>1
  <2>5. PICK c \in S : c \div 2 = i
    BY <2>4
  <2>6. k <= c
    <3>1. i < c
      BY <1>1, <2>5, Halves
    <3>2. c \notin A
      BY <1>1, <2>3, <2>4, <3>1
    <3>3. QED
      BY <1>1, <3>2
  <2>7. k \div 2 = i
    BY <1>1, <2>1, <2>4, <2>5, <2>6, Halves
  <2>8. QED
    BY <1>3, <2>1, <2>4, <2>7
<1>4. QED
  BY <1>3 DEF Path

\* The highest and the deepest position of a path, and the one below another.
LEMMA PathPositions ==
    ASSUME NEW n \in Nat, NEW S, Path(S, n)
    PROVE  /\ Deepest(S) \in S /\ \A j \in S : j <= Deepest(S)
           /\ Highest(S) \in S /\ \A j \in S : Highest(S) <= j
           /\ \A k \in S : k # Deepest(S) => Child(S, k) \in S /\ Child(S, k) \div 2 = k
           /\ \A k \in S : k # Highest(S) => Parent(S, k) \in S /\ k \div 2 = Parent(S, k)
<1>1. /\ S \subseteq 1 .. n /\ S \subseteq Nat /\ S # {}
      /\ \A j, k \in S : j < k => k \div 2 \in S /\ j <= k \div 2
  BY DEF Path
<1>0. \A j \in S : j \in Nat
  BY <1>1
<1>2. Deepest(S) \in S /\ \A j \in S : j <= Deepest(S)
  BY <1>1, GreatestPosition DEF Deepest
<1>3. Highest(S) \in S /\ \A j \in S : Highest(S) <= j
  BY <1>1, LeastNumber DEF Highest
<1>4. ASSUME NEW k \in S, k # Deepest(S) PROVE Child(S, k) \in S /\ Child(S, k) \div 2 = k
  <2> DEFINE A == {m \in S : k < m}
  <2>1. A \subseteq Nat /\ A # {}
    <3>1. k \in Nat /\ Deepest(S) \in Nat /\ k < Deepest(S)
      BY <1>0, <1>2, <1>4
    <3>2. Deepest(S) \in A
      BY <1>2, <3>1
    <3>3. QED
      BY <1>0, <3>2
  <2>2. PICK m \in A : \A i \in A : m <= i
    <3> HIDE DEF A
    <3>1. QED
      BY <2>1, LeastNumber
  <2>3. m \in S /\ k < m
    OBVIOUS
  <2>4. m \div 2 \in S /\ k <= m \div 2
    BY <1>1, <2>3
  <2>5. m \in Nat /\ m \div 2 \in Nat /\ m \div 2 < m /\ k \in Nat
    BY <1>1, <2>3, Halves
  <2>6. m \div 2 \notin A
    BY <2>2, <2>5
  <2>7. m \div 2 = k
    BY <2>4, <2>5, <2>6
  <2>8. QED
    BY <2>3, <2>7 DEF Child
<1>5. ASSUME NEW k \in S, k # Highest(S) PROVE Parent(S, k) \in S /\ k \div 2 = Parent(S, k)
  <2>1. Highest(S) < k
    BY <1>0, <1>3, <1>5
  <2>2. k \div 2 \in S
    BY <1>1, <1>3, <2>1
  <2>3. QED
    BY <2>2 DEF Parent
<1>6. QED
  BY <1>2, <1>3, <1>4, <1>5

\* The entries of g are those of h in another order.
OneToOne(f, D) ==
    /\ f \in [D -> D]
    /\ \A j, k \in D : f[j] = f[k] => j = k
    /\ \A j \in D : \E k \in D : f[k] = j

Permuted(h, g) == \E f : OneToOne(f, DOMAIN h) /\ g = [k \in DOMAIN h |-> h[f[k]]]

\* Moving each entry of a path down by one, and the last to the first place, is
\* one-to-one, and so is moving each up.
LEMMA MovedDown ==
    ASSUME NEW n \in Nat, NEW S, Path(S, n), Highest(S) = 1
    PROVE  OneToOne([k \in 1 .. n |-> IF k \notin S THEN k
                                       ELSE IF k = Deepest(S) THEN 1 ELSE Child(S, k)], 1 .. n)
<1> DEFINE f == [k \in 1 .. n |-> IF k \notin S THEN k
                                  ELSE IF k = Deepest(S) THEN 1 ELSE Child(S, k)]
<1>1. /\ S \subseteq 1 .. n
      /\ \A j, k \in S : j < k => k \div 2 \in S /\ j <= k \div 2
  BY DEF Path
<1>2. /\ Deepest(S) \in S /\ \A j \in S : j <= Deepest(S)
      /\ 1 \in S
      /\ \A k \in S : k # Deepest(S) => Child(S, k) \in S /\ Child(S, k) \div 2 = k
  BY PathPositions
<1>3. /\ f \in [1 .. n -> 1 .. n]
      /\ \A k \in 1 .. n : k \notin S => f[k] = k
      /\ \A k \in S : f[k] \in S
      /\ f[Deepest(S)] = 1
      /\ \A k \in S : k # Deepest(S) => f[k] \div 2 = k
  BY <1>1, <1>2
<1>4. /\ \A k \in 1 .. n : k \in Nat /\ k > 0
      /\ \A k \in S : k \in Nat /\ k > 0 /\ k \div 2 < k
  BY <1>1
<1> HIDE DEF f
<1>5. ASSUME NEW j \in 1 .. n, NEW k \in 1 .. n, f[j] = f[k] PROVE j = k
  <2>1. CASE j \notin S \/ k \notin S
    BY <1>3, <1>5, <2>1
  <2>2. CASE j \in S /\ k \in S /\ j # Deepest(S) /\ k # Deepest(S)
    BY <1>3, <1>5, <2>2
  <2>3. ASSUME NEW m \in S, m # Deepest(S) PROVE f[m] # 1
    <3>1. f[m] \div 2 = m /\ m > 0
      BY <1>1, <1>3, <1>4, <2>3
    <3>2. QED
      BY <3>1
  <2>4. QED
    BY <1>3, <1>5, <2>1, <2>2, <2>3
<1>6. ASSUME NEW j \in 1 .. n PROVE \E k \in 1 .. n : f[k] = j
  <2>1. CASE j \notin S
    BY <1>3, <2>1
  <2>2. CASE j = 1
    BY <1>1, <1>2, <1>3, <2>2
  <2>3. CASE j \in S /\ j # 1
    <3> DEFINE k == j \div 2
    <3>1. k \in S /\ k < j
      BY <1>1, <1>2, <1>4, <2>3, Halves
    <3>2. k # Deepest(S) /\ k \in 1 .. n
      BY <1>1, <1>2, <1>4, <2>3, <3>1
    <3>3. f[k] \in S /\ f[k] \div 2 = j \div 2
      BY <1>3, <3>1, <3>2
    <3>4. f[k] = j
      <4>1. f[k] < j => f[k] <= j \div 2
        BY <1>1, <2>3, <3>3
      <4>2. j < f[k] => j <= f[k] \div 2
        BY <1>1, <2>3, <3>3
      <4>3. /\ f[k] \in Nat /\ f[k] \div 2 < f[k] /\ j \in Nat /\ j \div 2 < j
            /\ j \div 2 \in Nat
        BY <1>4, <2>3, <3>3, Halves
      <4>4. QED
        BY <3>3, <4>1, <4>2, <4>3
    <3>5. QED
      BY <3>2, <3>4
  <2>4. QED
    BY <2>1, <2>2, <2>3
<1>7. QED
  BY <1>3, <1>5, <1>6 DEF OneToOne, f

\* Taking the deepest entry of a path to its top, and the others down by one,
\* permutes the places.
LEMMA MovedUp ==
    ASSUME NEW n \in Nat, NEW S, Path(S, n)
    PROVE  OneToOne([k \in 1 .. n |-> IF k \notin S THEN k
                                       ELSE IF k = Highest(S) THEN Deepest(S) ELSE Parent(S, k)],
                     1 .. n)
<1> DEFINE f == [k \in 1 .. n |-> IF k \notin S THEN k
                                  ELSE IF k = Highest(S) THEN Deepest(S) ELSE Parent(S, k)]
<1>1. /\ S \subseteq 1 .. n
      /\ \A j, k \in S : j < k => k \div 2 \in S /\ j <= k \div 2
  BY DEF Path
<1>2. /\ Deepest(S) \in S /\ \A j \in S : j <= Deepest(S)
      /\ Highest(S) \in S /\ \A j \in S : Highest(S) <= j
      /\ \A k \in S : k # Deepest(S) => Child(S, k) \in S /\ Child(S, k) \div 2 = k
      /\ \A k \in S : k # Highest(S) => Parent(S, k) \in S /\ k \div 2 = Parent(S, k)
  BY PathPositions
<1>3. /\ f \in [1 .. n -> 1 .. n]
      /\ \A k \in 1 .. n : k \notin S => f[k] = k
      /\ \A k \in S : f[k] \in S
      /\ f[Highest(S)] = Deepest(S)
      /\ \A k \in S : k # Highest(S) => f[k] = k \div 2
  BY <1>1, <1>2
<1>4. /\ \A k \in 1 .. n : k \in Nat /\ k > 0
      /\ \A k \in S : k \in Nat /\ k > 0 /\ k \div 2 < k
  BY <1>1
<1> HIDE DEF f
<1>5. ASSUME NEW j \in 1 .. n, NEW k \in 1 .. n, f[j] = f[k] PROVE j = k
  <2>1. CASE j \notin S \/ k \notin S
    BY <1>3, <1>5, <2>1
  <2>2. CASE j \in S /\ k \in S /\ j # Highest(S) /\ k # Highest(S)
    <3>1. j \div 2 = k \div 2
      BY <1>3, <1>5, <2>2
    <3>2. ~(j < k) /\ ~(k < j)
      BY <1>1, <1>4, <2>2, <3>1, Halves
    <3>3. QED
      BY <1>4, <3>2
  <2>3. ASSUME NEW m \in S, m # Highest(S) PROVE f[m] # Deepest(S)
    <3>1. f[m] = m \div 2 /\ m \in Nat /\ m > 0 /\ m <= Deepest(S)
      BY <1>1, <1>2, <1>3, <1>4, <2>3
    <3>2. QED
      BY <3>1
  <2>4. QED
    BY <1>3, <1>5, <2>1, <2>2, <2>3
<1>6. ASSUME NEW j \in 1 .. n PROVE \E k \in 1 .. n : f[k] = j
  <2>1. CASE j \notin S
    BY <1>3, <2>1
  <2>2. CASE j = Deepest(S)
    BY <1>1, <1>2, <1>3, <2>2
  <2>3. CASE j \in S /\ j # Deepest(S)
    <3>1. Child(S, j) \in S /\ Child(S, j) \div 2 = j
      BY <1>2, <2>3
    <3>2. Child(S, j) # Highest(S)
      <4>1. j < Child(S, j) /\ j \in Nat /\ Child(S, j) \in Nat /\ Highest(S) <= j
        BY <1>2, <1>4, <2>3, <3>1
      <4>2. QED
        BY <1>2, <1>4, <4>1
    <3>3. QED
      BY <1>1, <1>3, <3>1, <3>2
  <2>4. QED
    BY <2>1, <2>2, <2>3
<1>7. QED
  BY <1>3, <1>5, <1>6 DEF OneToOne, f

\* sift_down() (cdp_aging.c:61) only changes the order of the heap.
LEMMA SiftDownPermutes ==
    ASSUME NEW n \in Nat, NEW h, DOMAIN h = 1 .. n, NEW S, Path(S, n), Highest(S) = 1
    PROVE  Permuted(h, SiftDown(h, S))
<1> DEFINE f == [k \in 1 .. n |-> IF k \notin S THEN k
                                  ELSE IF k = Deepest(S) THEN 1 ELSE Child(S, k)]
<1>1. OneToOne(f, 1 .. n)
  BY MovedDown
<1>2. \A k \in 1 .. n :
         (CASE k \notin S -> h[k]
            [] k = Deepest(S) -> h[1]
            [] OTHER -> h[Child(S, k)]) = h[f[k]]
  <2>1. Deepest(S) \in S
    BY PathPositions
  <2>2. QED
    BY <2>1
<1>3. SiftDown(h, S) = [k \in 1 .. n |-> h[f[k]]]
  BY <1>2, Zenon DEF SiftDown
<1> HIDE DEF f
<1>4. QED
  BY <1>1, <1>3 DEF Permuted

\* sift_up() (cdp_aging.c:47) only changes the order of the heap.
LEMMA SiftUpPermutes ==
    ASSUME NEW n \in Nat, NEW h, DOMAIN h = 1 .. n, NEW S, Path(S, n)
    PROVE  Permuted(h, SiftUp(h, S))
<1> DEFINE f == [k \in 1 .. n |-> IF k \notin S THEN k
                                  ELSE IF k = Highest(S) THEN Deepest(S) ELSE Parent(S, k)]
<1>1. OneToOne(f, 1 .. n)
  BY MovedUp
<1>2. \A k \in 1 .. n :
         (CASE k \notin S -> h[k]
            [] k = Highest(S) -> h[Deepest(S)]
            [] OTHER -> h[Parent(S, k)]) = h[f[k]]
  <2>1. Highest(S) \in S
    BY PathPositions
  <2>2. QED
    BY <2>1
<1>3. SiftUp(h, S) = [k \in 1 .. n |-> h[f[k]]]
  BY <1>2, Zenon DEF SiftUp
<1> HIDE DEF f
<1>4. QED
  BY <1>1, <1>3 DEF Permuted

\* sift_up(), one position: does its entry make way, if those in g do?
Way(h, p, g, k) ==
    IF k = p THEN TRUE
    ELSE /\ \E c \in {2 * k, 2 * k + 1} : c <= p /\ g[c]
         /\ h[p].tstamp < h[k].tstamp

\* sift_down(), one position: does the root's entry pass it?
Pass(h, g, k) ==
    k = 1 \/ /\ g[k \div 2] /\ k = Least(h, k \div 2)
             /\ h[k].tstamp < h[1].tstamp

\* The two functions that sift_up() and sift_down() define exist: they are
\* given from the last position up, and from the first one down.
LEMMA GivesWayDefined ==
    ASSUME NEW p \in Nat, NEW h
    PROVE  \E g : g = [k \in 1 .. p |-> Way(h, p, g, k)]
<1> DEFINE Part(g, m) == /\ g \in [1 .. p -> BOOLEAN]
                         /\ \A k \in 1 .. p : p - m < k => g[k] = Way(h, p, g, k)
           T == {m \in 0 .. p : ~ \E g : Part(g, m)}
<1>1. \A g, k : Way(h, p, g, k) \in BOOLEAN
  BY DEF Way
<1>2. ASSUME NEW f \in [1 .. p -> BOOLEAN], NEW g \in [1 .. p -> BOOLEAN], NEW k \in 1 .. p,
             \A c \in 1 .. p : k < c => f[c] = g[c]
      PROVE  Way(h, p, f, k) = Way(h, p, g, k)
  <2>1. \A c \in {2 * k, 2 * k + 1} : c <= p => f[c] = g[c]
    BY <1>2
  <2>2. QED
    BY <2>1 DEF Way
<1>3. T = {}
  <2> SUFFICES ASSUME T # {} PROVE FALSE
    OBVIOUS
  <2>1. T \subseteq Nat
    OBVIOUS
  <2>2. PICK m \in T : \A i \in T : m <= i
    <3> HIDE DEF T
    <3>1. QED
      BY <2>1, LeastNumber
  <2>3. m \in 0 .. p /\ ~ \E g : Part(g, m)
    OBVIOUS
  <2>4. m # 0
    <3> DEFINE always == [k \in 1 .. p |-> TRUE]
    <3>a. always \in [1 .. p -> BOOLEAN]
      OBVIOUS
    <3>b. \A k \in 1 .. p : ~(p - 0 < k)
      OBVIOUS
    <3> HIDE DEF always
    <3>1. Part(always, 0)
      BY <3>a, <3>b
    <3>2. QED
      BY <2>3, <3>1
  <2>5. m - 1 \in 0 .. p /\ m - 1 \notin T
    <3>1. m \in Nat /\ m # 0 /\ m <= p
      BY <2>3, <2>4
    <3>2. m - 1 \in 0 .. p /\ ~(m <= m - 1)
      BY <3>1
    <3> HIDE DEF T
    <3>3. QED
      BY <2>2, <3>2
  <2>6. PICK g : Part(g, m - 1)
    BY <2>5
  <2> DEFINE k0 == p - m + 1
             f == [g EXCEPT ![k0] = Way(h, p, g, k0)]
  <2>7. k0 \in 1 .. p /\ g \in [1 .. p -> BOOLEAN]
        /\ \A k \in 1 .. p : k0 < k => g[k] = Way(h, p, g, k)
    BY <2>3, <2>4, <2>6
  <2> HIDE DEF k0
  <2>8. /\ f \in [1 .. p -> BOOLEAN] /\ f[k0] = Way(h, p, g, k0)
        /\ \A c \in 1 .. p : c # k0 => f[c] = g[c]
    BY <1>1, <2>7
  <2> HIDE DEF f
  <2>9. \A k \in 1 .. p : k0 <= k => f[k] = Way(h, p, f, k)
    <3> TAKE k \in 1 .. p
    <3> HAVE k0 <= k
    <3>1. \A c \in 1 .. p : k < c => f[c] = g[c]
      BY <2>7, <2>8
    <3>2. Way(h, p, f, k) = Way(h, p, g, k)
      BY <1>2, <2>7, <2>8, <3>1
    <3>3. f[k] = Way(h, p, g, k)
      BY <2>7, <2>8
    <3>4. QED
      BY <3>2, <3>3
  <2>10. \A k \in 1 .. p : p - m < k => k0 <= k
    BY <2>3 DEF k0
  <2>11. Part(f, m)
    BY <2>8, <2>9, <2>10
  <2>12. QED
    BY <2>3, <2>11
<1>4. PICK g : Part(g, p)
  <2>1. p \in 0 .. p
    OBVIOUS
  <2>2. QED
    BY <1>3, <2>1
<1>5. g \in [1 .. p -> BOOLEAN] /\ \A k \in 1 .. p : g[k] = Way(h, p, g, k)
  BY <1>4
<1>6. g = [k \in 1 .. p |-> Way(h, p, g, k)]
  BY <1>5
<1>7. QED
  BY <1>6

\* The function that Passes chooses exists: smaller positions determine each.
LEMMA PassesDefined ==
    ASSUME NEW n \in Nat, NEW h
    PROVE  \E g : g = [k \in 1 .. n |-> Pass(h, g, k)]
<1> DEFINE Part(g, m) == /\ g \in [1 .. n -> BOOLEAN]
                         /\ \A k \in 1 .. m : g[k] = Pass(h, g, k)
           T == {m \in 0 .. n : ~ \E g : Part(g, m)}
<1>1. \A g, k : Pass(h, g, k) \in BOOLEAN
  BY DEF Pass
<1>2. ASSUME NEW f \in [1 .. n -> BOOLEAN], NEW g \in [1 .. n -> BOOLEAN], NEW k \in 1 .. n,
             \A c \in 1 .. n : c < k => f[c] = g[c]
      PROVE  Pass(h, f, k) = Pass(h, g, k)
  <2>1. k = 1 \/ (k \div 2 \in 1 .. n /\ k \div 2 < k)
    BY Halves
  <2>2. k = 1 \/ f[k \div 2] = g[k \div 2]
    BY <1>2, <2>1
  <2>3. QED
    BY <2>2 DEF Pass
<1>3. T = {}
  <2> SUFFICES ASSUME T # {} PROVE FALSE
    OBVIOUS
  <2>1. T \subseteq Nat
    OBVIOUS
  <2>2. PICK m \in T : \A i \in T : m <= i
    <3> HIDE DEF T
    <3>1. QED
      BY <2>1, LeastNumber
  <2>3. m \in 0 .. n /\ ~ \E g : Part(g, m)
    OBVIOUS
  <2>4. m # 0
    <3>1. Part([k \in 1 .. n |-> TRUE], 0)
      OBVIOUS
    <3>2. QED
      BY <2>3, <3>1
  <2>5. m - 1 \in 0 .. n /\ m - 1 \notin T
    <3>1. m \in Nat /\ m # 0 /\ m <= n
      BY <2>3, <2>4
    <3>2. m - 1 \in 0 .. n /\ ~(m <= m - 1)
      BY <3>1
    <3> HIDE DEF T
    <3>3. QED
      BY <2>2, <3>2
  <2>6. PICK g : Part(g, m - 1)
    BY <2>5
  <2> DEFINE f == [g EXCEPT ![m] = Pass(h, g, m)]
  <2>7. m \in 1 .. n /\ g \in [1 .. n -> BOOLEAN]
        /\ \A k \in 1 .. n : k < m => g[k] = Pass(h, g, k)
    BY <2>3, <2>4, <2>6
  <2>8. /\ f \in [1 .. n -> BOOLEAN] /\ f[m] = Pass(h, g, m)
        /\ \A c \in 1 .. n : c # m => f[c] = g[c]
    BY <1>1, <2>7
  <2> HIDE DEF f
  <2>9. \A k \in 1 .. n : k <= m => f[k] = Pass(h, f, k)
    <3> TAKE k \in 1 .. n
    <3> HAVE k <= m
    <3>1. \A c \in 1 .. n : c < k => f[c] = g[c]
      BY <2>7, <2>8
    <3>2. Pass(h, f, k) = Pass(h, g, k)
      BY <1>2, <2>7, <2>8, <3>1
    <3>3. f[k] = Pass(h, g, k)
      BY <2>7, <2>8
    <3>4. QED
      BY <3>2, <3>3
  <2>10. Part(f, m)
    BY <2>7, <2>8, <2>9
  <2>11. QED
    BY <2>3, <2>10
<1>4. PICK g : Part(g, n)
  <2>1. n \in 0 .. n
    OBVIOUS
  <2>2. QED
    BY <1>3, <2>1
<1>5. g \in [1 .. n -> BOOLEAN] /\ \A k \in 1 .. n : g[k] = Pass(h, g, k)
  BY <1>4
<1>6. g = [k \in 1 .. n |-> Pass(h, g, k)]
  BY <1>5
<1>7. QED
  BY <1>6

\* What makes way for the last entry is a path that ends there.
LEMMA GivesWayPath ==
    ASSUME NEW p \in Nat \ {0}, NEW h
    PROVE  Path(GivesWay(h, p), p)
<1> DEFINE g == CHOOSE f : f = [k \in 1 .. p |-> Way(h, p, f, k)]
           S == {k \in 1 .. p : g[k]}
<1>1. g = [k \in 1 .. p |-> Way(h, p, g, k)]
  BY GivesWayDefined
<1>2. GivesWay(h, p) = S
  BY DEF GivesWay, Way
<1> HIDE DEF g
<1>3. \A k \in 1 .. p : g[k] <=> Way(h, p, g, k)
  BY <1>1
<1>4. S \subseteq 1 .. p /\ p \in S
  BY <1>3 DEF Way
<1>5. ASSUME NEW k \in S \ {p} PROVE \E c \in S : c \div 2 = k
  <2>1. k \in 1 .. p /\ Way(h, p, g, k) /\ k # p
    BY <1>3
  <2>2. PICK c \in {2 * k, 2 * k + 1} : c <= p /\ g[c]
    BY <2>1 DEF Way
  <2>3. c \in 1 .. p /\ c \div 2 = k
    BY <2>1, <2>2
  <2>4. QED
    BY <2>2, <2>3
<1> HIDE DEF S
<1>6. Path(S, p)
  BY <1>4, <1>5, PathUp
<1>7. QED
  BY <1>2, <1>6

\* What an entry passes from the root down is a path that begins there.
LEMMA PassesPath ==
    ASSUME NEW h, Len(h) \in Nat \ {0}
    PROVE  Path(Passes(h), Len(h)) /\ Highest(Passes(h)) = 1
<1> DEFINE n == Len(h)
           g == CHOOSE f : f = [k \in 1 .. n |-> Pass(h, f, k)]
           S == {k \in 1 .. n : g[k]}
<1>1. g = [k \in 1 .. n |-> Pass(h, g, k)]
  BY PassesDefined
<1>2. Passes(h) = S
  BY DEF Passes, Pass
<1> HIDE DEF g
<1>3. \A k \in 1 .. n : g[k] <=> Pass(h, g, k)
  BY <1>1
<1>4. S \subseteq 1 .. n /\ 1 \in S
  BY <1>3 DEF Pass
<1>5. ASSUME NEW k \in S \ {1} PROVE k \div 2 \in S /\ k = Least(h, k \div 2)
  <2>1. k \in 1 .. n /\ Pass(h, g, k) /\ k # 1
    BY <1>3
  <2>2. g[k \div 2] /\ k = Least(h, k \div 2)
    BY <2>1 DEF Pass
  <2>3. k \div 2 \in 1 .. n
    BY <2>1, Halves
  <2>4. QED
    BY <2>2, <2>3
<1> HIDE DEF S
<1>6. Path(S, n)
  <2>1. \A j, k \in S \ {1} : j \div 2 = k \div 2 => j = k
    BY <1>5
  <2>2. \A k \in S \ {1} : k \div 2 \in S
    BY <1>5
  <2>3. QED
    BY <1>4, <2>1, <2>2, PathDown
<1>7. Highest(S) = 1
  <2>1. Highest(S) \in S /\ \A j \in S : Highest(S) <= j
    BY <1>6, PathPositions
  <2>2. Highest(S) \in 1 .. n /\ Highest(S) <= 1
    BY <1>4, <2>1
  <2>3. QED
    <3> HIDE DEF n
    <3>1. \A q \in 1 .. n : q <= 1 => q = 1
      OBVIOUS
    <3>2. QED
      BY <2>2, <3>1
<1>8. QED
  BY <1>2, <1>6, <1>7

-----------------------------------------------------------------------------
(* The neighbours: what the heap holds through each operation on it.       *)

Entry == [tstamp : Nat, n : Address]

\* The entries of heap h are those of the neighbours A, one each.
Holds(h, A) ==
    /\ h \in Seq(Entry)
    /\ \A k \in DOMAIN h : h[k].n \in A
    /\ \A a \in A : \E k \in DOMAIN h : h[k].n = a
    /\ \A j, k \in DOMAIN h : h[j].n = h[k].n => j = k

\* Another order of the entries holds the same neighbours.
LEMMA PermutedHolds ==
    ASSUME NEW A, NEW h, NEW g, Holds(h, A), Permuted(h, g)
    PROVE  Holds(g, A) /\ Len(g) = Len(h)
<1> DEFINE n == Len(h)
           D == 1 .. n
<1>1. n \in Nat /\ DOMAIN h = D /\ \A k \in D : h[k] \in Entry
  BY DEF Holds
<1>2. PICK f : OneToOne(f, D) /\ g = [k \in D |-> h[f[k]]]
  BY <1>1 DEF Permuted
<1>3. /\ \A k \in D : f[k] \in D /\ g[k] = h[f[k]]
      /\ \A j, k \in D : f[j] = f[k] => j = k
      /\ \A j \in D : \E k \in D : f[k] = j
      /\ DOMAIN g = D
  BY <1>2 DEF OneToOne
<1>4. g \in [D -> Entry]
  BY <1>1, <1>2, <1>3
<1>5. g \in Seq(Entry) /\ Len(g) = n
  BY <1>1, <1>4
<1> HIDE DEF n, D
<1>6. \A k \in D : g[k].n \in A
  BY <1>1, <1>3 DEF Holds
<1>7. \A a \in A : \E k \in D : g[k].n = a
  <2> TAKE a \in A
  <2>1. PICK j \in D : h[j].n = a
    BY <1>1 DEF Holds
  <2>2. PICK k \in D : f[k] = j
    BY <1>3
  <2>3. g[k].n = a
    BY <1>3, <2>1, <2>2
  <2>4. QED
    BY <2>3
<1>8. \A j, k \in D : g[j].n = g[k].n => j = k
  <2> TAKE j, k \in D
  <2> HAVE g[j].n = g[k].n
  <2>1. h[f[j]].n = h[f[k]].n
    BY <1>3, g[j].n = g[k].n
  <2>2. f[j] = f[k]
    <3>1. f[j] \in DOMAIN h /\ f[k] \in DOMAIN h
      BY <1>1, <1>3
    <3>2. QED
      BY <2>1, <3>1 DEF Holds
  <2>3. QED
    BY <1>3, <2>2
<1>9. QED
  BY <1>3, <1>5, <1>6, <1>7, <1>8 DEF Holds, n

\* Sifting down from the root, when there is one.
Sifted(h, S) == IF S = {} THEN h ELSE SiftDown(h, S)
Passed(h) == IF h = << >> THEN {} ELSE Passes(h)

\* A sift from the root leaves the neighbours on the heap as they were.
LEMMA SiftedHolds ==
    ASSUME NEW A, NEW h, Holds(h, A)
    PROVE  /\ Holds(Sifted(h, Passed(h)), A) /\ Len(Sifted(h, Passed(h))) = Len(h)
           /\ Passed(h) \subseteq 1 .. Len(h)
<1>1. CASE h = << >>
  BY <1>1 DEF Sifted, Passed
<1>2. CASE h # << >>
  <2>1. Len(h) \in Nat \ {0} /\ DOMAIN h = 1 .. Len(h)
    BY <1>2 DEF Holds
  <2>2. Path(Passes(h), Len(h)) /\ Highest(Passes(h)) = 1
    BY <2>1, PassesPath
  <2>3. Permuted(h, SiftDown(h, Passes(h)))
    BY <2>1, <2>2, SiftDownPermutes
  <2>4. Passes(h) # {} /\ Passes(h) \subseteq 1 .. Len(h)
    BY <2>2 DEF Path
  <2>5. Sifted(h, Passed(h)) = SiftDown(h, Passes(h)) /\ Passed(h) = Passes(h)
    BY <1>2, <2>4 DEF Sifted, Passed
  <2>6. Holds(SiftDown(h, Passes(h)), A) /\ Len(SiftDown(h, Passes(h))) = Len(h)
    BY <2>3, PermutedHolds
  <2>7. QED
    BY <2>4, <2>5, <2>6
<1>3. QED
  BY <1>1, <1>2

\* The entry of a new neighbour, put at its place: heap h and one more entry
\* is g, and what is sifted along S holds the neighbours A.
Placed(h, g, S, A) ==
    /\ Holds(SiftUp(g, S), A)
    /\ Len(g) = Len(h) + 1 /\ Len(SiftUp(g, S)) = Len(g) /\ S \subseteq 1 .. Len(g)

\* A new neighbour is added to those on the heap, and sifted up among them.
LEMMA PushedHolds ==
    ASSUME NEW A, NEW h, Holds(h, A), NEW a \in Address, a \notin A, NEW t \in Nat,
           NEW g, g = Pushed(h, a, t), NEW S, S = GivesWay(g, Len(g))
    PROVE  Placed(h, g, S, A \cup {a})
<1> DEFINE n == Len(h)
<1>1. n \in Nat /\ DOMAIN h = 1 .. n /\ [tstamp |-> t, n |-> a] \in Entry /\ h \in Seq(Entry)
  BY DEF Holds, Entry
<1>2. /\ g \in Seq(Entry) /\ Len(g) = n + 1 /\ DOMAIN g = 1 .. (n + 1)
      /\ \A k \in 1 .. n : g[k] = h[k]
      /\ g[n + 1].n = a
  BY <1>1 DEF Pushed
<1> HIDE DEF n
<1>3. \A k \in 1 .. (n + 1) : k \in 1 .. n \/ k = n + 1
  BY <1>1
<1>4. 1 .. n \subseteq 1 .. (n + 1) /\ n + 1 \in 1 .. (n + 1)
  BY <1>1
<1>5. \A k \in 1 .. n : h[k].n # a
  BY <1>1 DEF Holds
<1>6. \A k \in 1 .. (n + 1) : g[k].n \in A \cup {a}
  BY <1>1, <1>2, <1>3 DEF Holds
<1>7. \A b \in A \cup {a} : \E k \in 1 .. (n + 1) : g[k].n = b
  <2> TAKE b \in A \cup {a}
  <2>1. CASE b = a
    BY <2>1, <1>2, <1>4
  <2>2. CASE b \in A
    <3>1. PICK k \in 1 .. n : h[k].n = b
      BY <1>1, <2>2 DEF Holds
    <3>2. QED
      BY <3>1, <1>2, <1>4
  <2>3. QED
    BY <2>1, <2>2
<1>8. \A j, k \in 1 .. (n + 1) : g[j].n = g[k].n => j = k
  <2> TAKE j, k \in 1 .. (n + 1)
  <2>1. \A i \in 1 .. n : g[i].n = h[i].n /\ g[i].n # a
    BY <1>2, <1>5
  <2>2. \A i, l \in 1 .. n : h[i].n = h[l].n => i = l
    BY <1>1 DEF Holds
  <2>3. QED
    BY <1>2, <1>3, <2>1, <2>2
<1>9. Holds(g, A \cup {a})
  BY <1>2, <1>6, <1>7, <1>8 DEF Holds
<1>10. Path(S, Len(g))
  BY <1>1, <1>2, GivesWayPath
<1>11. Permuted(g, SiftUp(g, S))
  BY <1>1, <1>2, <1>10, SiftUpPermutes
<1>12. Holds(SiftUp(g, S), A \cup {a}) /\ Len(SiftUp(g, S)) = Len(g)
  BY <1>9, <1>11, PermutedHolds
<1>13. S \subseteq 1 .. Len(g)
  BY <1>10 DEF Path
<1>14. QED
  BY <1>2, <1>12, <1>13 DEF n, Placed

\* A new time changes no entry's neighbour, whichever entry it is for.
Retimed(h, p, t) == [h EXCEPT ![p].tstamp = t]

\* A refreshed neighbour stays on the heap with another time.
LEMMA RetimedHolds ==
    ASSUME NEW A, NEW h, Holds(h, A), NEW p, NEW t \in Nat
    PROVE  Holds(Retimed(h, p, t), A) /\ Len(Retimed(h, p, t)) = Len(h)
<1> DEFINE g == [h EXCEPT ![p].tstamp = t]
           D == 1 .. Len(h)
<1>1. h \in [D -> Entry] /\ DOMAIN h = D /\ Len(h) \in Nat
  BY DEF Holds
<1>2. \A k \in D : g[k] = IF k = p THEN [h[k] EXCEPT !.tstamp = t] ELSE h[k]
  BY <1>1
<1>3. \A k \in D : h[k] \in Entry
  BY <1>1
<1>4. DOMAIN g = D /\ g = [k \in D |-> g[k]]
  BY <1>1
<1> HIDE DEF g
<1>5. ASSUME NEW k \in D PROVE g[k] \in Entry /\ g[k].n = h[k].n
  <2>1. h[k] \in Entry
    BY <1>3
  <2>2. /\ [h[k] EXCEPT !.tstamp = t] \in Entry
        /\ [h[k] EXCEPT !.tstamp = t].n = h[k].n
    BY <2>1 DEF Entry
  <2>3. QED
    BY <1>2, <2>1, <2>2
<1>6. g \in [D -> Entry]
  BY <1>4, <1>5
<1>7. g \in Seq(Entry) /\ Len(g) = Len(h)
  BY <1>1, <1>4, <1>6
<1>8. Holds(g, A)
  BY <1>1, <1>4, <1>5, <1>7 DEF Holds
<1>9. QED
  BY <1>7, <1>8 DEF g, Retimed

\* Without the root's entry, all neighbours but its own.
LEMMA PoppedHolds ==
    ASSUME NEW A, NEW h, Holds(h, A), h # << >>
    PROVE  Holds(Popped(h), A \ {h[1].n}) /\ Len(Popped(h)) = Len(h) - 1
<1> DEFINE n == Len(h)
           D == 1 .. n
           E == 1 .. (n - 1)
           p == Popped(h)
<1>1. /\ n \in Nat \ {0} /\ DOMAIN h = D /\ h \in Seq(Entry)
      /\ \A k \in D : h[k] \in Entry /\ h[k].n \in A
      /\ \A a \in A : \E k \in D : h[k].n = a
      /\ \A j, k \in D : h[j].n = h[k].n => j = k
  BY DEF Holds
<1>2. CASE n = 1
  <2>1. p = << >> /\ D = {1}
    BY <1>2 DEF Popped
  <2>2. A \ {h[1].n} = {}
    BY <1>1, <2>1
  <2>3. Holds(<< >>, {}) /\ Len(<< >>) = 0
    BY DEF Holds
  <2>4. p = Popped(h) /\ n - 1 = 0
    BY <1>2
  <2> HIDE DEF p
  <2>5. QED
    BY <2>1, <2>2, <2>3, <2>4
<1>3. CASE n # 1
  <2> DEFINE s == SubSeq(h, 1, n - 1)
  <2>1. n - 1 \in Nat \ {0} /\ n \in D /\ 1 \in D /\ 1 \in E /\ E \subseteq D
    BY <1>1, <1>3
  <2>2. /\ s \in Seq(Entry) /\ Len(s) = n - 1 /\ DOMAIN s = E
        /\ \A k \in E : s[k] = h[k]
    BY <1>1, <2>1
  <2>3. p = [s EXCEPT ![1] = h[n]]
    BY <1>3 DEF Popped
  <2> HIDE DEF p, s
  <2>4. /\ p \in Seq(Entry) /\ Len(p) = n - 1 /\ DOMAIN p = E
        /\ \A k \in E : p[k] = IF k = 1 THEN h[n] ELSE h[k]
    <3>1. h[n] \in Entry /\ s \in [E -> Entry]
      BY <1>1, <2>1, <2>2
    <3>2. DOMAIN p = E /\ \A k \in E : p[k] = IF k = 1 THEN h[n] ELSE s[k]
      BY <2>2, <2>3
    <3>3. p \in [E -> Entry]
      BY <2>1, <2>3, <3>1
    <3>4. p \in Seq(Entry) /\ Len(p) = n - 1
      BY <2>1, <3>3
    <3>5. QED
      BY <2>2, <3>2, <3>4
  <2>5. \A k \in D : k # 1 /\ k # n => k \in E
    <3>1. n \in Nat
      BY <1>1
    <3> HIDE DEF n
    <3>2. QED
      BY <3>1
  <2>6. \A k \in E : k # n
    <3>1. n \in Nat
      BY <1>1
    <3> HIDE DEF n
    <3>2. QED
      BY <3>1
  <2> HIDE DEF n, D, E
  <2>7. \A k \in E : p[k].n \in A \ {h[1].n}
    BY <1>1, <1>3, <2>1, <2>4
  <2>8. \A a \in A \ {h[1].n} : \E k \in E : p[k].n = a
    <3> TAKE a \in A \ {h[1].n}
    <3>1. PICK k \in D : h[k].n = a
      BY <1>1
    <3>2. CASE k = n
      BY <3>1, <3>2, <2>1, <2>4
    <3>3. CASE k \in E /\ k # 1
      BY <3>1, <3>3, <2>4
    <3>4. k # 1
      BY <3>1
    <3>5. QED
      BY <3>1, <3>2, <3>3, <3>4, <2>5
  <2>9. \A j, k \in E : p[j].n = p[k].n => j = k
    <3> TAKE j, k \in E
    <3>1. \A i \in E : p[i].n = IF i = 1 THEN h[n].n ELSE h[i].n
      BY <2>4
    <3>2. QED
      BY <1>1, <2>1, <2>6, <3>1
  <2>10. Holds(p, A \ {h[1].n})
    BY <2>4, <2>7, <2>8, <2>9 DEF Holds
  <2>11. QED
    BY <2>4, <2>10 DEF n, p
<1>4. QED
  BY <1>2, <1>3

\* There are no more entries than stations, when no two are of one station.
LEMMA HeapFits ==
    ASSUME NEW A \in SUBSET Address, NEW h, Holds(h, A), \A a, b \in A : a[1] = b[1] => a = b
    PROVE  Len(h) \in Nat /\ Cardinality(Stations) \in Nat /\ Len(h) <= Cardinality(Stations)
<1> DEFINE n == Len(h)
           f == [k \in 1 .. n |-> h[k].n[1]]
<1>1. n \in Nat /\ DOMAIN h = 1 .. n
  BY DEF Holds
<1>2. \A k \in 1 .. n : h[k].n \in A /\ h[k].n[1] \in Stations
  <2> TAKE k \in 1 .. n
  <2>1. h[k].n \in A
    BY <1>1 DEF Holds
  <2>2. h[k].n \in Stations \X {1, 2}
    BY <2>1 DEF Address
  <2>3. QED
    BY <2>1, <2>2
<1>3. \A j, k \in 1 .. n : f[j] = f[k] => j = k
  <2> TAKE j, k \in 1 .. n
  <2> HAVE f[j] = f[k]
  <2>1. h[j].n[1] = h[k].n[1]
    OBVIOUS
  <2>2. h[j].n = h[k].n
    BY <1>2, <2>1
  <2>3. QED
    BY <1>1, <2>2 DEF Holds
<1>4. f \in [1 .. n -> Stations] /\ DOMAIN f = 1 .. n
  BY <1>2
<1> HIDE DEF f
<1>5. f \in Injection(1 .. n, Stations)
  BY <1>3, <1>4 DEF Injection, IsInjective
<1>6. IsFiniteSet(Stations)
  BY CdpdAssumption
<1>7. Cardinality(1 .. n) <= Cardinality(Stations) /\ Cardinality(Stations) \in Nat
  BY <1>5, <1>6, FS_Injection, FS_CardinalityType
<1>8. Cardinality(1 .. n) = n
  <2>1. Cardinality(1 .. n) = IF 1 > n THEN 0 ELSE n - 1 + 1
    BY <1>1, FS_Interval
  <2>2. QED
    BY <1>1, <2>1
<1>9. QED
  BY <1>1, <1>7, <1>8

\* What is stored at an address.
NodeOf(a, m) == [interface : {a[1][1]}, device : {a[1][2]}, ttl : Ttls, hnode : 0 .. m]

\* Telling nodes their positions changes nothing else of them.
LEMMA ToldKeeps ==
    ASSUME NEW nodes, NEW h, NEW m \in Nat, NEW S, S \subseteq 0 .. m,
           \A a \in DOMAIN nodes : nodes[a] \in NodeOf(a, m)
    PROVE  /\ DOMAIN Told(nodes, h, S) = DOMAIN nodes
           /\ \A a \in DOMAIN nodes : Told(nodes, h, S)[a] \in NodeOf(a, m)
<1> DEFINE At(a) == CHOOSE k \in S : h[k].n = a
           t == [a \in DOMAIN nodes |->
                   IF \E k \in S : h[k].n = a
                   THEN [nodes[a] EXCEPT !.hnode = At(a)] ELSE nodes[a]]
<1>1. Told(nodes, h, S) = nodes \/ Told(nodes, h, S) = t
  BY DEF Told
<1>2. ASSUME NEW a \in DOMAIN nodes PROVE t[a] \in NodeOf(a, m)
  <2>1. CASE \E k \in S : h[k].n = a
    <3>1. At(a) \in S
      BY <2>1
    <3>2. t[a] = [nodes[a] EXCEPT !.hnode = At(a)]
      BY <2>1
    <3> HIDE DEF At, t
    <3>3. At(a) \in 0 .. m /\ nodes[a] \in NodeOf(a, m)
      BY <3>1
    <3>4. QED
      BY <3>2, <3>3 DEF NodeOf
  <2>2. CASE ~ \E k \in S : h[k].n = a
    BY <2>2
  <2>3. QED
    BY <2>1, <2>2
<1>3. DOMAIN t = DOMAIN nodes
  OBVIOUS
<1> HIDE DEF t
<1>4. QED
  BY <1>1, <1>2, <1>3

-----------------------------------------------------------------------------
(* The invariant of the three threads.                                     *)

AllListed == UNION {listed[i] : i \in Interfaces}

Listed(a) == a \in listed[a[1][1]]

\* What the neighbours have no part in.
Plain ==
    /\ registered \subseteq Interfaces
    /\ now \in 0 .. MaxTime
    /\ requests \in Seq(Request)
    /\ listener.todo \subseteq registered /\ Visiting
    /\ client \in [pc : {"idle", "waiting"}, id : 0 .. MaxRequests]
    /\ late \in BOOLEAN

Nodes ==
    /\ DOMAIN node \subseteq Address
    /\ \A a \in DOMAIN node : node[a] \in NodeOf(a, Cardinality(Stations))

Lists ==
    /\ listed \in [Interfaces -> SUBSET DOMAIN node]
    /\ \A i \in Interfaces : \A a \in listed[i] : a[1][1] = i
    /\ \A i \in Interfaces : \A a, b \in listed[i] : a[1] = b[1] => a = b

\* Every neighbour is in its list but one that the receiver has not put there
\* yet, and the receiver has the list when it relies on what it found there.
Receives ==
    /\ nSem \in [Interfaces -> {"none", "receiver"}]
    /\ receiver \in [pc : {"select", "list", "refresh", "push"},
                     n : Address \cup {NoAddress}]
    /\ \A a \in DOMAIN node : Listed(a) \/ (receiver.pc \in {"list", "push"} /\ a = receiver.n)
    /\ receiver.pc \in {"list", "push"} => receiver.n \in DOMAIN node /\ ~Listed(receiver.n)
    /\ receiver.pc = "refresh" => receiver.n \in DOMAIN node /\ Listed(receiver.n)
    /\ receiver.pc \in {"refresh", "push"} => nSem[receiver.n[1][1]] = "receiver"
    /\ receiver.pc = "push" => \A b \in listed[receiver.n[1][1]] : b[1] # receiver.n[1]

\* While the cleaner waits for a list, the root is the neighbour to remove.
Cleans ==
    /\ nheapSem \in {"none", "cleaner"}
    /\ cleaner \in [pc : {"asleep", "heap", "list"}, n : Address \cup {NoAddress}]
    /\ cleaner.pc = "list" => /\ nheapSem = "cleaner" /\ RootExpired(heap)
                              /\ heap[1].n = cleaner.n

NeighboursInv ==
    Plain /\ Nodes /\ Lists /\ Holds(heap, AllListed) /\ Receives /\ Cleans

\* An address is that of a station, which is on an interface.
LEMMA Addresses ==
    \A a \in Address : /\ a[1] \in Stations /\ a[2] \in {1, 2} /\ a = <<a[1], a[2]>>
                       /\ a[1][1] \in Interfaces /\ a[1] = <<a[1][1], a[1][2]>>
<1> TAKE a \in Address
<1>1. a \in Stations \X {1, 2}
  BY DEF Address
<1>2. a[1] \in Stations /\ a[2] \in {1, 2} /\ a = <<a[1], a[2]>>
  BY <1>1
<1>3. a[1] \in Interfaces \X {a[1][2]}
  BY <1>2, CdpdAssumption
<1>4. QED
  BY <1>2, <1>3

\* The heap's entries are those of the nodes that are listed.
LEMMA ListedNodes ==
    ASSUME NeighboursInv
    PROVE  /\ \A a : a \in AllListed <=> a \in DOMAIN node /\ Listed(a)
           /\ AllListed \in SUBSET Address
           /\ \A a, b \in AllListed : a[1] = b[1] => a = b
<1>1. /\ DOMAIN node \subseteq Address
      /\ listed \in [Interfaces -> SUBSET DOMAIN node]
      /\ \A i \in Interfaces : \A a \in listed[i] : a[1][1] = i
      /\ \A i \in Interfaces : \A a, b \in listed[i] : a[1] = b[1] => a = b
  BY DEF NeighboursInv, Nodes, Lists
<1>2. \A a : a \in AllListed <=> a \in DOMAIN node /\ Listed(a)
  <2>1. ASSUME NEW a \in AllListed PROVE a \in DOMAIN node /\ Listed(a)
    <3>1. PICK i \in Interfaces : a \in listed[i]
      BY <2>1 DEF AllListed
    <3>2. QED
      BY <3>1, <1>1 DEF Listed
  <2>2. ASSUME NEW a \in DOMAIN node, Listed(a) PROVE a \in AllListed
    <3>1. a[1][1] \in Interfaces
      BY <1>1, Addresses
    <3>2. QED
      BY <2>2, <3>1 DEF Listed, AllListed
  <2>3. QED
    BY <2>1, <2>2
<1>3. ASSUME NEW a \in AllListed, NEW b \in AllListed, a[1] = b[1] PROVE a = b
  <2>1. a \in listed[a[1][1]] /\ b \in listed[a[1][1]] /\ a[1][1] \in Interfaces
    BY <1>1, <1>2, <1>3, Addresses DEF Listed
  <2>2. QED
    BY <1>1, <1>3, <2>1
<1>4. QED
  BY <1>1, <1>2, <1>3

\* ... so the heap's positions and their count fit the type of hnode.
LEMMA Fits ==
    ASSUME NeighboursInv
    PROVE  /\ Len(heap) \in Nat /\ Cardinality(Stations) \in Nat
           /\ Len(heap) <= Cardinality(Stations)
           /\ DOMAIN heap = 1 .. Len(heap)
<1>1. Holds(heap, AllListed)
  BY DEF NeighboursInv
<1>2. DOMAIN heap = 1 .. Len(heap)
  BY <1>1 DEF Holds
<1>3. QED
  BY <1>1, <1>2, ListedNodes, HeapFits

\* A packet that arrives waits for the list of its interface.
LEMMA ReceiveInv == ASSUME NeighboursInv, Receive PROVE NeighboursInv'
<1>1. PICK s \in Stations, t \in Ttls :
         LET a == IF <<s, 1>> \in DOMAIN node THEN <<s, 2>> ELSE <<s, 1>> IN
         /\ s[1] \in registered
         /\ node' = [b \in DOMAIN node \cup {a} |->
                       IF b = a THEN [interface |-> s[1], device |-> s[2], ttl |-> t, hnode |-> 0]
                       ELSE node[b]]
         /\ receiver' = [pc |-> "list", n |-> a]
  BY DEF Receive
<1> DEFINE a == IF <<s, 1>> \in DOMAIN node THEN <<s, 2>> ELSE <<s, 1>>
<1>2. /\ receiver.pc = "select" /\ receiver' = [pc |-> "list", n |-> a]
      /\ UNCHANGED <<registered, listed, heap, nheapSem, nSem, cleaner, now,
                     requests, listener, client, late>>
  BY <1>1 DEF Receive, clientVars
<1>3. a \in Address /\ a[1] = s
  BY DEF Address
<1>4. /\ DOMAIN node \subseteq Address
      /\ listed \in [Interfaces -> SUBSET DOMAIN node]
      /\ \A i \in Interfaces : \A b, c \in listed[i] : b[1] = c[1] => b = c
      /\ \A b \in DOMAIN node : Listed(b)
  BY <1>2 DEF NeighboursInv, Nodes, Lists, Receives
<1>5. a \notin DOMAIN node
  <2>1. CASE <<s, 1>> \in DOMAIN node
    <3> SUFFICES ASSUME <<s, 2>> \in DOMAIN node PROVE FALSE
      BY <2>1
    <3>1. <<s, 1>> \in listed[s[1]] /\ <<s, 2>> \in listed[s[1]]
      BY <1>4, <2>1 DEF Listed
    <3>2. s[1] \in Interfaces
      BY CdpdAssumption
    <3>3. QED
      BY <1>4, <3>1, <3>2
  <2>2. QED
    BY <2>1
<1> HIDE DEF a
<1>6. /\ DOMAIN node' = DOMAIN node \cup {a}
      /\ node'[a] = [interface |-> s[1], device |-> s[2], ttl |-> t, hnode |-> 0]
      /\ \A b \in DOMAIN node : node'[b] = node[b]
  <2>1. node' = [b \in DOMAIN node \cup {a} |->
                   IF b = a THEN [interface |-> s[1], device |-> s[2], ttl |-> t, hnode |-> 0]
                   ELSE node[b]]
    BY <1>1 DEF a
  <2>2. QED
    BY <1>5, <2>1
<1>7. Plain'
  BY <1>2 DEF NeighboursInv, Plain, Visiting
<1>8. Nodes'
  <2>1. node'[a] \in NodeOf(a, Cardinality(Stations))
    BY <1>3, <1>6, Fits DEF NodeOf
  <2>2. \A b \in DOMAIN node : node'[b] \in NodeOf(b, Cardinality(Stations))
    BY <1>6 DEF NeighboursInv, Nodes
  <2>3. QED
    BY <1>3, <1>4, <1>6, <2>1, <2>2 DEF Nodes
<1>9. Lists'
  BY <1>2, <1>4, <1>6 DEF NeighboursInv, Lists
<1>10. Holds(heap, AllListed)'
  BY <1>2 DEF NeighboursInv, AllListed, Holds
<1>11. ~Listed(a)
  <2>1. a[1][1] \in Interfaces
    BY <1>3, Addresses
  <2>2. QED
    BY <1>4, <1>5, <2>1 DEF Listed
<1>12. Receives'
  <2>1. \A b : Listed(b)' <=> Listed(b)
    BY <1>2 DEF Listed
  <2>2. receiver'.pc = "list" /\ receiver'.n = a
    BY <1>2
  <2>3. \A b \in DOMAIN node' : Listed(b) \/ b = a
    BY <1>4, <1>6
  <2>4. receiver' \in [pc : {"select", "list", "refresh", "push"}, n : Address \cup {NoAddress}]
    BY <1>2, <1>3
  <2>5. nSem' \in [Interfaces -> {"none", "receiver"}]
    BY <1>2 DEF NeighboursInv, Receives
  <2>6. QED
    BY <1>6, <1>11, <2>1, <2>2, <2>3, <2>4, <2>5 DEF Receives
<1>13. Cleans'
  BY <1>2 DEF NeighboursInv, Cleans, RootExpired
<1>14. QED
  BY <1>7, <1>8, <1>9, <1>10, <1>12, <1>13 DEF NeighboursInv

\* The receiver takes the list and finds the neighbour there or not.
LEMMA TakesListInv == ASSUME NeighboursInv, TakesList PROVE NeighboursInv'
<1>0. PICK a : a = receiver.n
  OBVIOUS
<1> DEFINE i == node[a].interface
           known == FindByDeviceId(i, node[a].device)
<1>1. /\ receiver.pc = "list"
      /\ nSem' = [nSem EXCEPT ![i] = "receiver"]
      /\ \/ /\ known = {}
            /\ receiver' = [receiver EXCEPT !.pc = "push"] /\ UNCHANGED node
         \/ \E b \in known :
              /\ receiver' = [pc |-> "refresh", n |-> b]
              /\ node' = [c \in DOMAIN node \ {a} |-> node[c]]
      /\ UNCHANGED <<registered, listed, heap, nheapSem, cleaner, now,
                     requests, listener, client, late>>
  BY <1>0 DEF TakesList, clientVars
<1>2. /\ DOMAIN node \subseteq Address
      /\ listed \in [Interfaces -> SUBSET DOMAIN node]
      /\ \A j \in Interfaces : \A b \in listed[j] : b[1][1] = j
      /\ \A j \in Interfaces : \A b, c \in listed[j] : b[1] = c[1] => b = c
      /\ \A b \in DOMAIN node : Listed(b) \/ b = a
      /\ a \in DOMAIN node /\ ~Listed(a)
      /\ nSem \in [Interfaces -> {"none", "receiver"}]
  BY <1>0, <1>1 DEF NeighboursInv, Nodes, Lists, Receives
<1>3. \A b \in DOMAIN node : /\ node[b].interface = b[1][1] /\ node[b].device = b[1][2]
                             /\ b[1][1] \in Interfaces /\ b[1] = <<b[1][1], b[1][2]>>
  <2> TAKE b \in DOMAIN node
  <2>1. node[b] \in NodeOf(b, Cardinality(Stations))
    BY DEF NeighboursInv, Nodes
  <2>2. QED
    BY <1>2, <2>1, Addresses DEF NodeOf
<1>4. i = a[1][1] /\ i \in Interfaces /\ node[a].device = a[1][2]
  BY <1>2, <1>3
<1>5. known \subseteq listed[i] /\ listed[i] \subseteq DOMAIN node
  BY <1>2, <1>4 DEF FindByDeviceId
<1>6. /\ Plain' /\ Cleans' /\ Holds(heap, AllListed)'
      /\ \A b : Listed(b)' <=> Listed(b)
  BY <1>1 DEF NeighboursInv, Plain, Visiting, Cleans, RootExpired, AllListed, Holds, Listed
<1>7. nSem' \in [Interfaces -> {"none", "receiver"}] /\ nSem'[a[1][1]] = "receiver"
  BY <1>1, <1>2, <1>4
<1>8. receiver \in [pc : {"select", "list", "refresh", "push"}, n : Address \cup {NoAddress}]
  BY DEF NeighboursInv, Receives
<1>9. CASE known = {} /\ receiver' = [receiver EXCEPT !.pc = "push"] /\ UNCHANGED node
  <2>1. Nodes' /\ Lists'
    BY <1>1, <1>9 DEF NeighboursInv, Nodes, Lists
  <2>2. /\ receiver' \in [pc : {"select", "list", "refresh", "push"}, n : Address \cup {NoAddress}]
        /\ receiver'.pc = "push" /\ receiver'.n = a
    BY <1>0, <1>8, <1>9
  <2>3. \A b \in listed[a[1][1]] : b[1] # a[1]
    <3> TAKE b \in listed[a[1][1]]
    <3>1. b \in listed[i] /\ b \notin known /\ b \in DOMAIN node
      BY <1>4, <1>5, <1>9
    <3>2. node[b].device # node[a].device
      BY <3>1 DEF FindByDeviceId
    <3>3. QED
      BY <1>3, <1>4, <3>1, <3>2
  <2>4. \A b \in DOMAIN node' : Listed(b)' \/ b = a
    BY <1>2, <1>6, <1>9
  <2>5. a \in DOMAIN node' /\ ~Listed(a)'
    BY <1>2, <1>6, <1>9
  <2>6. listed' = listed
    BY <1>1
  <2>7. Receives'
    <3> HIDE DEF i, known
    <3>1. QED
      BY <1>7, <2>2, <2>3, <2>4, <2>5, <2>6 DEF Receives
  <2>8. QED
    BY <1>6, <2>1, <2>7 DEF NeighboursInv
<1>10. ASSUME NEW b \in known, receiver' = [pc |-> "refresh", n |-> b],
              node' = [c \in DOMAIN node \ {a} |-> node[c]]
       PROVE  NeighboursInv'
  <2>1. b \in listed[i] /\ b \in DOMAIN node /\ node[b].device = node[a].device
    BY <1>5 DEF FindByDeviceId
  <2>2. b[1] = a[1] /\ b[1][1] = i
    BY <1>2, <1>3, <1>4, <2>1
  <2>3. b # a /\ Listed(b)
    BY <1>2, <1>4, <2>1, <2>2 DEF Listed
  <2>4. DOMAIN node' = DOMAIN node \ {a} /\ \A c \in DOMAIN node' : node'[c] = node[c]
    BY <1>10
  <2>5. listed' = listed
    BY <1>1
  <2> HIDE DEF i, known
  <2>6. Nodes'
    BY <2>4 DEF NeighboursInv, Nodes
  <2>7. \A j \in Interfaces : listed[j] \in SUBSET DOMAIN node'
    <3> TAKE j \in Interfaces
    <3>1. listed[j] \subseteq DOMAIN node
      BY <1>2
    <3>2. a \notin listed[j]
      BY <1>2 DEF Listed
    <3>3. QED
      BY <2>4, <3>1, <3>2
  <2>8. Lists'
    <3>1. listed \in [Interfaces -> SUBSET DOMAIN node']
      BY <1>2, <2>7
    <3>2. QED
      BY <1>2, <2>5, <3>1 DEF Lists
  <2>9. receiver' \in [pc : {"select", "list", "refresh", "push"}, n : Address \cup {NoAddress}]
        /\ receiver'.pc = "refresh" /\ receiver'.n = b
    BY <1>2, <1>10, <2>1
  <2>10. \A c \in DOMAIN node' : Listed(c)'
    BY <1>2, <1>6, <2>4
  <2>11. b \in DOMAIN node' /\ Listed(b)'
    BY <1>6, <2>1, <2>3, <2>4
  <2>12. nSem'[b[1][1]] = "receiver"
    BY <1>7, <2>2
  <2>13. Receives'
    BY <1>7, <2>9, <2>10, <2>11, <2>12 DEF Receives
  <2>14. QED
    BY <1>6, <2>6, <2>8, <2>13 DEF NeighboursInv
<1>11. QED
  BY <1>1, <1>9, <1>10

\* Back at select(), the receiver relies on no list.
LEMMA SelectsReceives ==
    ASSUME nSem \in [Interfaces -> {"none", "receiver"}], NEW i, Selects(i),
           \A a \in DOMAIN node' : Listed(a)'
    PROVE  Receives'
<1>1. receiver' = [pc |-> "select", n |-> NoAddress] /\ nSem' = [nSem EXCEPT ![i] = "none"]
  BY DEF Selects
<1>2. nSem' \in [Interfaces -> {"none", "receiver"}]
  BY <1>1
<1>3. /\ receiver'.pc = "select"
      /\ receiver' \in [pc : {"select", "list", "refresh", "push"}, n : Address \cup {NoAddress}]
  BY <1>1
<1>4. QED
  BY <1>2, <1>3 DEF Receives

\* A neighbour that is there gets another time and is sifted.
LEMMA RefreshInv == ASSUME NeighboursInv, Refresh PROVE NeighboursInv'
<1> DEFINE a == receiver.n
           h == Updated(heap, a)
           S == Passed(h)
           m == Cardinality(Stations)
<1>1. /\ receiver.pc = "refresh" /\ nheapSem = "none"
      /\ heap' = Sifted(h, S)
      /\ node' = Told(node, heap', S)
      /\ Selects(node[a].interface)
      /\ UNCHANGED <<registered, listed, nheapSem, cleaner, now, requests,
                     listener, client, late>>
  BY DEF Refresh, clientVars, Sifted, Passed
<1>2. Len(heap) \in Nat /\ m \in Nat /\ Len(heap) <= m
  BY Fits
<1>3. /\ a \in DOMAIN node /\ \A b \in DOMAIN node : Listed(b) /\ node[b] \in NodeOf(b, m)
      /\ nSem \in [Interfaces -> {"none", "receiver"}]
  BY <1>1 DEF NeighboursInv, Receives, Nodes
<1>4. Holds(h, AllListed) /\ Len(h) = Len(heap)
  <2>1. Holds(heap, AllListed)
    BY DEF NeighboursInv
  <2>2. node[a].ttl + now \in Nat
    <3>1. node[a].ttl \in Nat
      BY <1>3, CdpdAssumption DEF NodeOf
    <3>2. now \in Nat
      BY CdpdAssumption DEF NeighboursInv, Plain
    <3>3. QED
      BY <3>1, <3>2
  <2>3. PICK p, t : p = node[a].hnode /\ t = node[a].ttl + now
    OBVIOUS
  <2>4. h = heap \/ h = Retimed(heap, p, t)
    BY <2>3 DEF Updated, Retimed
  <2>5. t \in Nat
    BY <2>2, <2>3
  <2> HIDE DEF h
  <2>6. /\ Holds(Retimed(heap, p, t), AllListed)
        /\ Len(Retimed(heap, p, t)) = Len(heap)
    BY <2>1, <2>5, RetimedHolds
  <2>7. QED
    BY <2>1, <2>4, <2>6
<1> HIDE DEF h, a
<1>5. /\ Holds(heap', AllListed) /\ S \subseteq 1 .. Len(h)
  BY <1>1, <1>4, SiftedHolds
<1>6. S \subseteq 0 .. m
  <2>1. 1 .. Len(h) \subseteq 0 .. m
    BY <1>2, <1>4
  <2>2. QED
    BY <1>5, <2>1
<1> HIDE DEF S
<1>7. DOMAIN node' = DOMAIN node /\ \A b \in DOMAIN node' : node'[b] \in NodeOf(b, m)
  <2> HIDE DEF m
  <2>1. /\ DOMAIN Told(node, heap', S) = DOMAIN node
        /\ \A b \in DOMAIN node : Told(node, heap', S)[b] \in NodeOf(b, m)
    BY <1>2, <1>3, <1>6, ToldKeeps
  <2>2. QED
    BY <1>1, <2>1
<1>8. Plain' /\ Cleans'
  BY <1>1 DEF NeighboursInv, Plain, Visiting, Cleans
<1>9. Nodes' /\ Lists'
  BY <1>1, <1>7 DEF NeighboursInv, Nodes, Lists
<1>10. Holds(heap, AllListed)'
  BY <1>1, <1>5 DEF AllListed
<1>11. Receives'
  <2>1. \A b \in DOMAIN node' : Listed(b)'
    BY <1>1, <1>3, <1>7 DEF Listed
  <2>2. QED
    BY <1>1, <1>3, <2>1, SelectsReceives
<1>12. QED
  BY <1>8, <1>9, <1>10, <1>11 DEF NeighboursInv

\* A neighbour that is new goes on the list and on the heap together.
LEMMA PushInv == ASSUME NeighboursInv, Push PROVE NeighboursInv'
<1> DEFINE m == Cardinality(Stations)
<1>0. PICK a, t : a = receiver.n /\ t = node[a].ttl + now
  OBVIOUS
<1> DEFINE g == Pushed(heap, a, t)
           S == GivesWay(g, Len(g))
           nodes == [node EXCEPT ![a].hnode = Len(g)]
           i == node[a].interface
<1>1. /\ receiver.pc = "push" /\ nheapSem = "none"
      /\ heap' = SiftUp(g, S)
      /\ node' = Told(nodes, heap', S)
      /\ listed' = [listed EXCEPT ![i] = @ \cup {a}]
      /\ Selects(i)
      /\ UNCHANGED <<registered, nheapSem, cleaner, now, requests, listener, client, late>>
  BY <1>0 DEF Push, clientVars
<1>2. /\ DOMAIN node \subseteq Address
      /\ listed \in [Interfaces -> SUBSET DOMAIN node]
      /\ \A j \in Interfaces : \A b \in listed[j] : b[1][1] = j
      /\ \A j \in Interfaces : \A b, c \in listed[j] : b[1] = c[1] => b = c
      /\ \A b \in DOMAIN node : Listed(b) \/ b = a
      /\ \A b \in DOMAIN node : node[b] \in NodeOf(b, m)
      /\ a \in DOMAIN node /\ ~Listed(a)
      /\ \A b \in listed[a[1][1]] : b[1] # a[1]
      /\ nSem \in [Interfaces -> {"none", "receiver"}]
  BY <1>0, <1>1 DEF NeighboursInv, Nodes, Lists, Receives
<1>3. a \in Address /\ i = a[1][1] /\ i \in Interfaces
  <2>1. a \in Address /\ a[1][1] \in Interfaces
    BY <1>2, Addresses
  <2>2. node[a] \in NodeOf(a, m)
    BY <1>2
  <2>3. QED
    BY <2>1, <2>2 DEF NodeOf
<1>4. t \in Nat
  <2>1. node[a].ttl \in Nat
    BY <1>2, CdpdAssumption DEF NodeOf
  <2>2. now \in Nat
    BY CdpdAssumption DEF NeighboursInv, Plain
  <2>3. QED
    BY <1>0, <2>1, <2>2
<1>5. a \notin AllListed
  BY <1>2, ListedNodes
<1>6. /\ Holds(heap', AllListed \cup {a}) /\ Len(heap') = Len(g)
      /\ S \subseteq 1 .. Len(g) /\ Len(g) = Len(heap) + 1
  <2>1. Holds(heap, AllListed)
    BY DEF NeighboursInv
  <2>2. PICK q, T : q = Pushed(heap, a, t) /\ T = GivesWay(q, Len(q))
    OBVIOUS
  <2>3. q = g /\ T = S
    BY <2>2
  <2> HIDE DEF g, S
  <2>4. Placed(heap, q, T, AllListed \cup {a})
    BY <1>3, <1>4, <1>5, <2>1, <2>2, PushedHolds
  <2>5. QED
    BY <1>1, <2>3, <2>4 DEF Placed
<1> HIDE DEF i, g
<1>7. /\ listed' \in [Interfaces -> SUBSET DOMAIN node]
      /\ listed'[i] = listed[i] \cup {a}
      /\ \A j \in Interfaces : j # i => listed'[j] = listed[j]
  BY <1>1, <1>2, <1>3
<1>8. AllListed' = AllListed \cup {a}
  <2>1. \A b : b \in AllListed' <=> \E j \in Interfaces : b \in listed'[j]
    BY DEF AllListed
  <2>2. \A b : b \in AllListed <=> \E j \in Interfaces : b \in listed[j]
    BY DEF AllListed
  <2>3. \A j \in Interfaces : \A b : b \in listed'[j] <=> b \in listed[j] \/ (j = i /\ b = a)
    BY <1>7
  <2>4. \A b : b \in AllListed' <=> b \in AllListed \/ b = a
    BY <1>3, <2>1, <2>2, <2>3
  <2>5. QED
    BY <2>4
<1>9. /\ \A j \in Interfaces : \A b \in listed'[j] : b[1][1] = j
      /\ \A j \in Interfaces : \A b, c \in listed'[j] : b[1] = c[1] => b = c
  <2>1. ASSUME NEW j \in Interfaces
        PROVE  /\ \A b \in listed'[j] : b[1][1] = j
               /\ \A b, c \in listed'[j] : b[1] = c[1] => b = c
    <3>1. CASE j # i
      BY <1>2, <1>7, <3>1
    <3>2. CASE j = i
      BY <1>2, <1>3, <1>7, <3>2
    <3>3. QED
      BY <3>1, <3>2
  <2>2. QED
    BY <2>1
<1>10. Len(g) \in Nat /\ m \in Nat /\ Len(g) <= m
  <2>1. AllListed \cup {a} \in SUBSET Address
    BY <1>3, ListedNodes
  <2>2. \A b, c \in AllListed \cup {a} : b[1] = c[1] => b = c
    <3>1. \A b \in AllListed : b[1] # a[1]
      <4> TAKE b \in AllListed
      <4>1. b \in listed[b[1][1]]
        BY ListedNodes DEF Listed
      <4>2. QED
        BY <1>2, <4>1
    <3>2. QED
      BY <3>1, ListedNodes
  <2>3. QED
    BY <1>6, <2>1, <2>2, HeapFits
<1> HIDE DEF m, S
<1>11. /\ DOMAIN nodes = DOMAIN node
       /\ \A b \in DOMAIN nodes : nodes[b] \in NodeOf(b, m)
  <2>1. DOMAIN nodes = DOMAIN node
    BY <1>2
  <2>2. ASSUME NEW b \in DOMAIN node PROVE nodes[b] \in NodeOf(b, m)
    <3>1. node[b] \in NodeOf(b, m)
      BY <1>2
    <3>2. nodes[b] = IF b = a THEN [node[b] EXCEPT !.hnode = Len(g)] ELSE node[b]
      BY <1>2
    <3> HIDE DEF nodes
    <3>3. Len(g) \in 0 .. m
      BY <1>10
    <3>4. [node[b] EXCEPT !.hnode = Len(g)] \in NodeOf(b, m)
      BY <3>1, <3>3 DEF NodeOf
    <3>5. QED
      BY <3>1, <3>2, <3>4
  <2>3. QED
    BY <2>1, <2>2
<1> HIDE DEF nodes
<1>12. DOMAIN node' = DOMAIN node /\ \A b \in DOMAIN node' : node'[b] \in NodeOf(b, m)
  <2>1. 1 .. Len(g) \subseteq 0 .. m
    BY <1>10
  <2>2. S \subseteq 0 .. m
    BY <1>6, <2>1
  <2>3. /\ DOMAIN Told(nodes, heap', S) = DOMAIN nodes
        /\ \A b \in DOMAIN nodes : Told(nodes, heap', S)[b] \in NodeOf(b, m)
    BY <1>10, <1>11, <2>2, ToldKeeps
  <2>4. QED
    BY <1>1, <1>11, <2>3
<1>13. Plain' /\ Cleans'
  BY <1>1 DEF NeighboursInv, Plain, Visiting, Cleans
<1>14. Nodes' /\ Lists'
  BY <1>2, <1>7, <1>9, <1>12 DEF Nodes, Lists, m
<1>15. Holds(heap, AllListed)'
  BY <1>6, <1>8
<1>16. Receives'
  <2>1. ASSUME NEW b \in DOMAIN node' PROVE b \in listed'[b[1][1]]
    <3>1. b \in DOMAIN node /\ b[1][1] \in Interfaces
      BY <1>2, <1>12, Addresses
    <3>2. CASE b = a
      BY <1>3, <1>7, <3>2
    <3>3. CASE b # a
      <4>1. b \in listed[b[1][1]]
        BY <1>2, <3>1, <3>3 DEF Listed
      <4>2. QED
        BY <1>7, <3>1, <4>1
    <3>4. QED
      BY <3>2, <3>3
  <2>2. \A b \in DOMAIN node' : Listed(b)'
    BY <2>1 DEF Listed
  <2>3. QED
    BY <1>1, <1>2, <2>2, SelectsReceives
<1>17. QED
  BY <1>13, <1>14, <1>15, <1>16 DEF NeighboursInv

\* The cleaner takes the expired root off the heap and off its list together.
LEMMA RemovesInv == ASSUME NeighboursInv, Removes PROVE NeighboursInv'
<1> DEFINE m == Cardinality(Stations)
<1>0. PICK a : a = cleaner.n
  OBVIOUS
<1> DEFINE h == Popped(heap)
           S == Passed(h)
           nodes == [b \in DOMAIN node \ {a} |-> node[b]]
           i == node[a].interface
<1>1. /\ cleaner.pc = "list" /\ nSem[i] = "none"
      /\ listed' = [listed EXCEPT ![i] = @ \ {a}]
      /\ heap' = Sifted(h, S)
      /\ node' = Told(nodes, heap', S)
      /\ nheapSem' = "none"
      /\ cleaner' = [pc |-> IF RootExpired(heap') THEN "heap" ELSE "asleep", n |-> NoAddress]
      /\ UNCHANGED <<registered, nSem, receiver, now, requests, listener, client, late>>
  BY <1>0 DEF Removes, clientVars, Sifted, Passed, Posted
<1>2. /\ DOMAIN node \subseteq Address
      /\ listed \in [Interfaces -> SUBSET DOMAIN node]
      /\ \A j \in Interfaces : \A b \in listed[j] : b[1][1] = j
      /\ \A j \in Interfaces : \A b, c \in listed[j] : b[1] = c[1] => b = c
      /\ \A b \in DOMAIN node : node[b] \in NodeOf(b, m)
      /\ heap # << >> /\ heap[1].n = a
      /\ Holds(heap, AllListed) /\ Receives
  BY <1>0, <1>1 DEF NeighboursInv, Nodes, Lists, Cleans, RootExpired
<1>3. Len(heap) \in Nat /\ m \in Nat /\ Len(heap) <= m /\ Len(heap) # 0
  <2>1. heap \in Seq(Entry)
    BY <1>2 DEF Holds
  <2>2. Len(heap) # 0
    BY <1>2, <2>1
  <2>3. QED
    BY <2>2, Fits
<1>4. a \in AllListed /\ a \in DOMAIN node /\ Listed(a)
  <2>1. 1 \in DOMAIN heap
    BY <1>3, Fits
  <2>2. heap[1].n \in AllListed
    BY <1>2, <2>1 DEF Holds
  <2>3. QED
    BY <1>2, <2>2, ListedNodes
<1>5. i = a[1][1] /\ i \in Interfaces
  <2>1. node[a] \in NodeOf(a, m) /\ a[1][1] \in Interfaces
    BY <1>2, <1>4, Addresses
  <2>2. QED
    BY <2>1 DEF NodeOf
<1>6. Holds(h, AllListed \ {a}) /\ Len(h) = Len(heap) - 1
  BY <1>2, PoppedHolds
<1> HIDE DEF h, i
<1>7. Holds(heap', AllListed \ {a}) /\ S \subseteq 1 .. Len(h)
  BY <1>1, <1>6, SiftedHolds
<1>8. S \subseteq 0 .. m
  <2>1. 1 .. Len(h) \subseteq 0 .. m
    BY <1>3, <1>6
  <2>2. QED
    BY <1>7, <2>1
<1> HIDE DEF m, S
<1>9. /\ listed' \in [Interfaces -> SUBSET DOMAIN node]
      /\ \A j \in Interfaces : \A b : b \in listed'[j] <=> b \in listed[j] /\ b # a
  <2>1. \A j \in Interfaces : j # i => a \notin listed[j]
    BY <1>2, <1>5
  <2>2. /\ listed' \in [Interfaces -> SUBSET DOMAIN node]
        /\ listed'[i] = listed[i] \ {a}
        /\ \A j \in Interfaces : j # i => listed'[j] = listed[j]
    BY <1>1, <1>2, <1>5
  <2>3. QED
    BY <2>1, <2>2
<1>10. AllListed' = AllListed \ {a}
  <2>1. \A b : b \in AllListed' <=> \E j \in Interfaces : b \in listed'[j]
    BY DEF AllListed
  <2>2. \A b : b \in AllListed <=> \E j \in Interfaces : b \in listed[j]
    BY DEF AllListed
  <2>3. \A b : b \in AllListed' <=> b \in AllListed /\ b # a
    BY <1>9, <2>1, <2>2
  <2>4. QED
    BY <2>3
<1>11. /\ DOMAIN nodes = DOMAIN node \ {a}
       /\ \A b \in DOMAIN nodes : nodes[b] \in NodeOf(b, m)
  BY <1>2
<1> HIDE DEF nodes
<1>12. DOMAIN node' = DOMAIN node \ {a} /\ \A b \in DOMAIN node' : node'[b] \in NodeOf(b, m)
  <2>1. /\ DOMAIN Told(nodes, heap', S) = DOMAIN nodes
        /\ \A b \in DOMAIN nodes : Told(nodes, heap', S)[b] \in NodeOf(b, m)
    BY <1>3, <1>8, <1>11, ToldKeeps
  <2>2. QED
    BY <1>1, <1>11, <2>1
<1>13. Plain'
  BY <1>1 DEF NeighboursInv, Plain, Visiting
<1>14. Nodes'
  BY <1>2, <1>12 DEF Nodes, m
<1>15. Lists'
  <2>1. \A j \in Interfaces : listed'[j] \in SUBSET DOMAIN node'
    BY <1>9, <1>12
  <2>2. listed' \in [Interfaces -> SUBSET DOMAIN node']
    BY <1>9, <2>1
  <2>3. QED
    BY <1>2, <1>9, <2>2 DEF Lists
<1>16. Holds(heap, AllListed)'
  BY <1>7, <1>10
<1>17. Cleans'
  <2>1. cleaner'.pc \in {"asleep", "heap"} /\ cleaner'.n = NoAddress
        /\ cleaner' \in [pc : {"asleep", "heap", "list"}, n : Address \cup {NoAddress}]
    BY <1>1
  <2>2. QED
    BY <1>1, <2>1 DEF Cleans
<1>18. Receives'
  <2>1. \A b \in DOMAIN node : Listed(b)' <=> Listed(b) /\ b # a
    <3> TAKE b \in DOMAIN node
    <3>1. b[1][1] \in Interfaces
      BY <1>2, Addresses
    <3>2. QED
      BY <1>9, <3>1 DEF Listed
  <2>2. receiver.pc \in {"list", "push"} => receiver.n # a
    BY <1>2, <1>4 DEF Receives
  <2>3. receiver.pc = "refresh" => receiver.n # a
    <3> SUFFICES ASSUME receiver.pc = "refresh", receiver.n = a PROVE FALSE
      OBVIOUS
    <3>1. nSem[a[1][1]] = "receiver"
      BY <1>2 DEF Receives
    <3>2. QED
      BY <1>1, <1>5, <3>1
  <2>4. receiver.pc = "push" => \A b \in listed'[receiver.n[1][1]] : b[1] # receiver.n[1]
    <3> SUFFICES ASSUME receiver.pc = "push" PROVE \A b \in listed'[receiver.n[1][1]] : b[1] # receiver.n[1]
      OBVIOUS
    <3>1. receiver.n \in Address /\ \A b \in listed[receiver.n[1][1]] : b[1] # receiver.n[1]
      BY <1>2 DEF Receives
    <3>2. receiver.n[1][1] \in Interfaces
      BY <3>1, Addresses
    <3>3. QED
      BY <1>9, <3>1, <3>2
  <2>5. \A b \in DOMAIN node' : Listed(b)' \/ (receiver.pc \in {"list", "push"} /\ b = receiver.n)
    BY <1>2, <1>12, <2>1 DEF Receives
  <2>6. receiver.pc \in {"list", "push"} => receiver.n \in DOMAIN node' /\ ~ Listed(receiver.n)'
    <3> SUFFICES ASSUME receiver.pc \in {"list", "push"}
                 PROVE  receiver.n \in DOMAIN node' /\ ~ Listed(receiver.n)'
      OBVIOUS
    <3>1. receiver.n \in DOMAIN node /\ ~Listed(receiver.n) /\ receiver' = receiver
      BY <1>1, <1>2 DEF Receives
    <3>2. QED
      BY <1>12, <2>1, <2>2, <3>1 DEF Listed
  <2>7. receiver.pc = "refresh" => receiver.n \in DOMAIN node' /\ Listed(receiver.n)'
    <3> SUFFICES ASSUME receiver.pc = "refresh"
                 PROVE  receiver.n \in DOMAIN node' /\ Listed(receiver.n)'
      OBVIOUS
    <3>1. receiver.n \in DOMAIN node /\ Listed(receiver.n) /\ receiver' = receiver
      BY <1>1, <1>2 DEF Receives
    <3>2. QED
      BY <1>12, <2>1, <2>3, <3>1 DEF Listed
  <2>8. receiver' = receiver /\ nSem' = nSem
    BY <1>1
  <2>9. QED
    BY <1>2, <2>4, <2>5, <2>6, <2>7, <2>8 DEF Receives
<1>19. QED
  BY <1>13, <1>14, <1>15, <1>16, <1>17, <1>18 DEF NeighboursInv

\* Waking up and taking the heap change only where the cleaner is.
LEMMA CleanerWaitsInv ==
    ASSUME NeighboursInv, WakesUp \/ TakesHeap
    PROVE  NeighboursInv'
<1>1. UNCHANGED <<registered, node, listed, heap, nSem, receiver, now, requests, listener,
                  client, late>>
  BY DEF WakesUp, TakesHeap, listVars, clientVars
<1>2. Plain' /\ Nodes' /\ Lists' /\ Holds(heap, AllListed)' /\ Receives'
  BY <1>1 DEF NeighboursInv, Plain, Visiting, Nodes, Lists, AllListed, Holds, Receives, Listed
<1>3. Cleans'
  <2>1. Cleans /\ Holds(heap, AllListed) /\ AllListed \in SUBSET Address
    BY ListedNodes DEF NeighboursInv
  <2>2. CASE WakesUp
    <3>1. /\ cleaner' = [cleaner EXCEPT !.pc = "heap"] /\ nheapSem' = nheapSem
      BY <2>2 DEF WakesUp
    <3>2. /\ cleaner'.pc = "heap"
          /\ cleaner' \in [pc : {"asleep", "heap", "list"}, n : Address \cup {NoAddress}]
      BY <2>1, <3>1 DEF Cleans
    <3>3. QED
      BY <2>1, <3>1, <3>2 DEF Cleans
  <2>3. CASE TakesHeap /\ Rechecked(heap)
    <3>1. nheapSem' = "cleaner" /\ cleaner' = [pc |-> "list", n |-> heap[1].n]
      BY <2>3 DEF TakesHeap
    <3>2. RootExpired(heap)
      BY <2>3 DEF Rechecked
    <3>3. 1 \in DOMAIN heap
      BY <2>1, <3>2 DEF Holds, RootExpired
    <3>4. heap[1].n \in Address
      BY <2>1, <3>3 DEF Holds
    <3>5. /\ cleaner' \in [pc : {"asleep", "heap", "list"}, n : Address \cup {NoAddress}]
          /\ cleaner'.n = heap[1].n
      BY <3>1, <3>4
    <3>6. heap' = heap /\ now' = now
      BY <1>1
    <3>7. QED
      BY <3>1, <3>2, <3>5, <3>6 DEF Cleans, RootExpired
  <2>4. CASE TakesHeap /\ ~Rechecked(heap)
    <3>1. nheapSem' = nheapSem /\ cleaner' = [pc |-> "asleep", n |-> NoAddress]
      BY <2>4 DEF TakesHeap
    <3>2. QED
      BY <2>1, <3>1 DEF Cleans
  <2>5. QED
    BY <2>2, <2>3, <2>4
<1>4. QED
  BY <1>2, <1>3 DEF NeighboursInv

\* A request that is taken off leaves requests.
LEMMA Requests ==
    ASSUME requests \in Seq(Request), requests # << >>
    PROVE  Head(requests) \in Request /\ Tail(requests) \in Seq(Request)
OBVIOUS

\* The listener, the client and the clock do not touch the neighbours, and the
\* time of an entry that has come stays so.
LEMMA OthersInv ==
    ASSUME NeighboursInv, Listener \/ Client \/ Tick \/ UNCHANGED vars
    PROVE  NeighboursInv'
<1>1. UNCHANGED <<node, listed, heap, nheapSem, nSem, receiver, cleaner>>
  BY DEF Listener, Handle, Visits, NoneToVisit, Copies, Client, Ask, GetAnswer, TimesOut,
         Tick, vars, listVars
<1>2. Nodes' /\ Lists' /\ Holds(heap, AllListed)' /\ Receives'
  BY <1>1 DEF NeighboursInv, Nodes, Lists, AllListed, Holds, Receives, Listed
<1>3. Plain /\ Cleans
  BY DEF NeighboursInv
<1>4. now' = now \/ (Tick /\ now' = now + 1)
  BY DEF Listener, Handle, Visits, NoneToVisit, Copies, Client, Ask, GetAnswer, TimesOut,
         Tick, vars
<1>5. Plain'
  <2>1. CASE Handle
    <3>1. requests \in Seq(Request) /\ requests # << >> /\ registered \subseteq Interfaces
      BY <1>3, <2>1 DEF Plain, Handle
    <3>2. Head(requests) \in Request /\ Tail(requests) \in Seq(Request)
      BY <3>1, Requests
    <3>7. Head(requests).type = "enable" => Head(requests).if_index \in Interfaces
      BY <3>2 DEF Request
    <3>3. /\ listener.todo = {} /\ requests' = Tail(requests)
          /\ UNCHANGED <<now, listener, client, late>>
      BY <2>1 DEF Handle
    <3>4. \/ /\ registered' \in {registered, registered \cup {Head(requests).if_index}}
             /\ Head(requests).type = "enable"
          \/ registered' = registered \ {Head(requests).if_index}
          \/ UNCHANGED registered
      BY <2>1 DEF Handle, Registers, Unregisters, Status
    <3>5. registered' \subseteq Interfaces
      BY <3>1, <3>4, <3>7
    <3>6. QED
      BY <1>3, <3>2, <3>3, <3>5 DEF Plain, Visiting
  <2>2. CASE Visits
    <3>1. /\ listener' = [todo |-> Asked(Head(requests)), found |-> {}]
          /\ UNCHANGED <<registered, now, requests, client, late>>
      BY <2>2 DEF Visits, clientVars
    <3>2. listener'.todo \subseteq registered' /\ requests' # << >>
      BY <2>2, <3>1 DEF Visits, Asked
    <3>3. QED
      BY <1>3, <3>1, <3>2 DEF Plain, Visiting
  <2>3. CASE NoneToVisit
    <3>1. /\ requests # << >> /\ requests' = Tail(requests)
          /\ listener.todo = {} /\ UNCHANGED <<registered, now, listener, client, late>>
      BY <2>3 DEF NoneToVisit
    <3>2. Tail(requests) \in Seq(Request)
      BY <1>3, <3>1, Requests DEF Plain
    <3>3. QED
      BY <1>3, <3>1, <3>2 DEF Plain, Visiting
  <2>4. CASE Copies
    <3>1. listener.todo # {} /\ UNCHANGED <<registered, now, client, late>>
      BY <2>4 DEF Copies
    <3>2. requests # << >> /\ Tail(requests) \in Seq(Request)
      BY <1>3, <3>1, Requests DEF Plain, Visiting
    <3>3. CASE listener'.todo = {} /\ requests' = Tail(requests)
      BY <1>3, <3>1, <3>2, <3>3 DEF Plain, Visiting
    <3>4. CASE listener'.todo \subseteq listener.todo /\ requests' = requests
      BY <1>3, <3>1, <3>2, <3>4 DEF Plain, Visiting
    <3>5. \/ listener'.todo = {} /\ requests' = Tail(requests)
          \/ listener'.todo \subseteq listener.todo /\ requests' = requests
      BY <2>4 DEF Copies
    <3>6. QED
      BY <3>3, <3>4, <3>5
  <2>5. CASE Ask
    <3>1. PICK r \in Request : requests' = Append(requests, r)
      BY <2>5 DEF Ask
    <3>2. /\ client.id < MaxRequests /\ client' = [pc |-> "waiting", id |-> client.id + 1]
          /\ UNCHANGED <<registered, now, listener, late>>
      BY <2>5 DEF Ask
    <3>3. requests' \in Seq(Request) /\ requests' # << >>
      BY <1>3, <3>1 DEF Plain
    <3>4. client.id \in 0 .. MaxRequests
      BY <1>3 DEF Plain
    <3>5. client.id + 1 \in 0 .. MaxRequests
      BY <3>2, <3>4, CdpdAssumption
    <3>6. client' \in [pc : {"idle", "waiting"}, id : 0 .. MaxRequests]
      BY <3>2, <3>5
    <3>7. QED
      BY <1>3, <3>2, <3>3, <3>6 DEF Plain, Visiting
  <2>6. CASE GetAnswer \/ TimesOut
    <3>1. client' = [client EXCEPT !.pc = "idle"] /\ late' \in {late, TRUE}
      BY <2>6 DEF GetAnswer, TimesOut
    <3>5. UNCHANGED <<registered, now, requests, listener>>
      BY <2>6 DEF GetAnswer, TimesOut
    <3>2. client' \in [pc : {"idle", "waiting"}, id : 0 .. MaxRequests]
      BY <1>3, <3>1 DEF Plain
    <3>3. late' \in BOOLEAN
      BY <1>3, <3>1 DEF Plain
    <3>4. /\ registered' \subseteq Interfaces /\ now' \in 0 .. MaxTime
          /\ requests' \in Seq(Request) /\ listener'.todo \subseteq registered' /\ Visiting'
      BY <1>3, <3>5 DEF Plain, Visiting
    <3>6. QED
      BY <3>2, <3>3, <3>4, Zenon DEF Plain
  <2>7. CASE Tick
    <3>1. /\ now < MaxTime /\ now' = now + 1
          /\ UNCHANGED <<registered, requests, listener, client, late>>
      BY <2>7 DEF Tick, clientVars
    <3>2. now' \in 0 .. MaxTime
      BY <1>3, <3>1, CdpdAssumption DEF Plain
    <3>3. QED
      BY <1>3, <3>1, <3>2 DEF Plain, Visiting
  <2>8. CASE UNCHANGED vars
    BY <1>3, <2>8 DEF Plain, Visiting, vars, clientVars
  <2>9. QED
    BY <2>1, <2>2, <2>3, <2>4, <2>5, <2>6, <2>7, <2>8 DEF Listener, Client
<1>6. Cleans'
  <2>1. RootExpired(heap) => RootExpired(heap)'
    <3> SUFFICES ASSUME RootExpired(heap) PROVE RootExpired(heap)'
      OBVIOUS
    <3>1. heap # << >> /\ heap[1].tstamp <= now
      BY DEF RootExpired
    <3>2. heap[1].tstamp \in Int
      <4>1. heap \in Seq(Entry) /\ DOMAIN heap = 1 .. Len(heap)
        BY Fits DEF NeighboursInv, Holds
      <4>2. heap[1] \in Entry
        BY <3>1, <4>1
      <4>3. QED
        BY <4>2 DEF Entry
    <3>3. now \in Int
      BY <1>3, CdpdAssumption DEF Plain
    <3>4. heap' = heap /\ heap[1].tstamp <= now'
      BY <1>1, <1>4, <3>1, <3>2, <3>3
    <3>5. QED
      BY <3>1, <3>4 DEF RootExpired
  <2>2. QED
    BY <1>1, <1>3, <2>1 DEF Cleans
<1>7. QED
  BY <1>2, <1>5, <1>6 DEF NeighboursInv

\* cdpd starts with empty lists and an empty heap.
LEMMA NeighboursInit == Init => NeighboursInv
<1> SUFFICES ASSUME Init PROVE NeighboursInv
  OBVIOUS
<1>1. /\ registered = Interfaces /\ node = << >> /\ heap = << >>
      /\ listed = [i \in Interfaces |-> {}]
      /\ nheapSem = "none" /\ nSem = [i \in Interfaces |-> "none"]
      /\ receiver = [pc |-> "select", n |-> NoAddress]
      /\ cleaner = [pc |-> "asleep", n |-> NoAddress]
      /\ now = 0 /\ requests = << >> /\ listener = [todo |-> {}, found |-> {}]
      /\ client = [pc |-> "idle", id |-> 0] /\ late = FALSE
  BY DEF Init
<1>2. Plain
  <2>1. 0 \in 0 .. MaxTime /\ 0 \in 0 .. MaxRequests
    BY CdpdAssumption
  <2>2. client \in [pc : {"idle", "waiting"}, id : 0 .. MaxRequests]
    BY <1>1, <2>1
  <2>3. registered \subseteq Interfaces /\ requests \in Seq(Request)
    BY <1>1
  <2>6. late \in BOOLEAN
    BY <1>1, Zenon
  <2>4. listener.todo = {} /\ now \in 0 .. MaxTime
    BY <1>1, <2>1
  <2>7. listener.todo \subseteq registered /\ Visiting
    BY <2>4 DEF Visiting
  <2>5. QED
    BY <2>2, <2>3, <2>4, <2>6, <2>7, Zenon DEF Plain
<1>3. DOMAIN node = {}
  BY <1>1
<1>4. Nodes /\ Lists
  BY <1>1, <1>3 DEF Nodes, Lists
<1>5. AllListed = {}
  BY <1>1 DEF AllListed
<1>6. Holds(heap, AllListed)
  BY <1>1, <1>5 DEF Holds
<1>7. Receives
  <2>1. /\ receiver.pc = "select"
        /\ receiver \in [pc : {"select", "list", "refresh", "push"}, n : Address \cup {NoAddress}]
    BY <1>1
  <2>2. nSem \in [Interfaces -> {"none", "receiver"}]
    BY <1>1
  <2>3. QED
    BY <1>3, <2>1, <2>2 DEF Receives
<1>8. Cleans
  <2>1. /\ cleaner.pc = "asleep"
        /\ cleaner \in [pc : {"asleep", "heap", "list"}, n : Address \cup {NoAddress}]
    BY <1>1
  <2>2. QED
    BY <1>1, <2>1 DEF Cleans
<1>9. QED
  BY <1>2, <1>4, <1>6, <1>7, <1>8 DEF NeighboursInv

\* Every step of the threads, the clock and the client keeps the invariant.
LEMMA NeighboursStep == NeighboursInv /\ [Next]_vars => NeighboursInv'
<1> SUFFICES ASSUME NeighboursInv, [Next]_vars PROVE NeighboursInv'
  OBVIOUS
<1>1. CASE Receiver
  BY <1>1, ReceiveInv, TakesListInv, RefreshInv, PushInv DEF Receiver
<1>2. CASE Cleaner
  BY <1>2, CleanerWaitsInv, RemovesInv DEF Cleaner
<1>3. CASE Listener \/ Client \/ Tick \/ UNCHANGED vars
  BY <1>3, OthersInv
<1>4. QED
  BY <1>1, <1>2, <1>3 DEF Next

\* Of what is at an address, the address tells the station.
LEMMA NodesTyped ==
    ASSUME NeighboursInv
    PROVE  \A a \in DOMAIN node : /\ node[a] \in Neighbour
                                  /\ node[a].interface = a[1][1] /\ node[a].device = a[1][2]
<1> TAKE a \in DOMAIN node
<1>1. node[a] \in NodeOf(a, Cardinality(Stations)) /\ a \in Address
  BY DEF NeighboursInv, Nodes
<1>2. a[1] \in Stations /\ a[1][1] \in Interfaces
  BY <1>1, Addresses
<1>3. a[1][2] \in {s[2] : s \in Stations}
  BY <1>2
<1>4. QED
  BY <1>1, <1>2, <1>3 DEF NodeOf, Neighbour

-----------------------------------------------------------------------------

\* Each variable has its type; in particular a neighbour's position in the
\* heap never exceeds the number of stations (cdpd.c:341-377).
THEOREM Typed == Spec => []TypeOK
<1>1. NeighboursInv => TypeOK
  <2> SUFFICES ASSUME NeighboursInv PROVE TypeOK
    OBVIOUS
  <2>1. DOMAIN node \subseteq Address /\ \A a \in DOMAIN node : node[a] \in Neighbour
    BY NodesTyped DEF NeighboursInv, Nodes
  <2>2. listed \in [Interfaces -> SUBSET Address]
    BY <2>1 DEF NeighboursInv, Lists
  <2>3. heap \in Seq([tstamp : Nat, n : Address])
    BY DEF NeighboursInv, Holds, Entry
  <2>4. QED
    BY <2>1, <2>2, <2>3 DEF NeighboursInv, Plain, Receives, Cleans, TypeOK
<1>2. QED
  BY <1>1, NeighboursInit, NeighboursStep, PTL DEF Spec

\* The heap and the lists hold the same allocated neighbours, each once, and
\* a list holds one of a name, however the receiver and the cleaner interleave
\* (cdpd.c:341-377, cdp_aging.c:104-126).
THEOREM OneEntryEach == Spec => []ListedOnce
<1>1. NeighboursInv => ListedOnce
  <2> SUFFICES ASSUME NeighboursInv PROVE ListedOnce
    OBVIOUS
  <2>1. /\ listed \in [Interfaces -> SUBSET DOMAIN node]
        /\ \A i \in Interfaces : \A a \in listed[i] : a[1][1] = i
        /\ \A i \in Interfaces : \A a, b \in listed[i] : a[1] = b[1] => a = b
        /\ DOMAIN node \subseteq Address
        /\ Holds(heap, AllListed)
    BY DEF NeighboursInv, Lists, Nodes
  <2>2. \A a \in DOMAIN node : \A i \in Interfaces : a \in listed[i] => node[a].interface = i
    BY <2>1, NodesTyped
  <2>3. AllListed = {heap[k].n : k \in DOMAIN heap}
    BY <2>1 DEF Holds
  <2>4. \A j, k \in DOMAIN heap : heap[j].n = heap[k].n => j = k
    BY <2>1 DEF Holds
  <2>5. AllListed \subseteq DOMAIN node
    BY ListedNodes
  <2>6. ASSUME NEW i \in Interfaces, NEW a \in listed[i], NEW b \in listed[i],
               node[a].device = node[b].device
        PROVE  a = b
    <3>1. a \in DOMAIN node /\ b \in DOMAIN node
      BY <2>1
    <3>2. a[1][1] = b[1][1] /\ a[1][2] = b[1][2]
      BY <2>1, <2>6, <3>1, NodesTyped
    <3>3. a[1] = <<a[1][1], a[1][2]>> /\ b[1] = <<b[1][1], b[1][2]>>
      BY <2>1, <3>1, Addresses
    <3>4. a[1] = b[1]
      BY <3>2, <3>3
    <3>5. QED
      BY <2>1, <3>4
  <2>7. QED
    BY <2>2, <2>3, <2>4, <2>5, <2>6 DEF ListedOnce, AllListed
<1>2. QED
  BY <1>1, NeighboursInit, NeighboursStep, PTL DEF Spec

\* A neighbour leaves its list only when the time of its entry has come: the
\* cleaner waits for the list with the heap in hand, so that the entry it
\* tested is still the root when it goes on (cdp_aging.c:103-126).
THEOREM ExpiredFirst == Spec => RemovedWhenExpired
<1> DEFINE Timely == \A i \in Interfaces : \A a \in listed[i] \ listed'[i] :
                       \E k \in DOMAIN heap : heap[k].n = a /\ heap[k].tstamp <= now
<1>1. NeighboursInv /\ [Next]_vars => Timely
  <2> SUFFICES ASSUME NeighboursInv, [Next]_vars PROVE Timely
    OBVIOUS
  <2>1. CASE Removes
    <3>1. /\ cleaner.pc = "list"
          /\ listed' = [listed EXCEPT ![node[cleaner.n].interface] = @ \ {cleaner.n}]
      BY <2>1 DEF Removes
    <3>2. RootExpired(heap) /\ heap[1].n = cleaner.n
      BY <3>1 DEF NeighboursInv, Cleans
    <3>3. 1 \in DOMAIN heap /\ heap[1].tstamp <= now
      <4>1. heap \in Seq(Entry)
        BY DEF NeighboursInv, Holds
      <4>2. QED
        BY <3>2, <4>1 DEF RootExpired
    <3>4. listed \in [Interfaces -> SUBSET DOMAIN node]
      BY DEF NeighboursInv, Lists
    <3>5. \A i \in Interfaces : \A a \in listed[i] \ listed'[i] : a = cleaner.n
      BY <3>1, <3>4
    <3>6. QED
      BY <3>2, <3>3, <3>5
  <2>2. CASE Push
    <3>1. listed' = [listed EXCEPT ![node[receiver.n].interface] = @ \cup {receiver.n}]
      BY <2>2 DEF Push
    <3>2. listed \in [Interfaces -> SUBSET DOMAIN node]
      BY DEF NeighboursInv, Lists
    <3>3. \A i \in Interfaces : listed[i] \subseteq listed'[i]
      BY <3>1, <3>2
    <3>4. QED
      BY <3>3
  <2>3. CASE UNCHANGED listed
    BY <2>3
  <2>4. Removes \/ Push \/ UNCHANGED listed
    BY DEF Next, Receiver, Receive, TakesList, Refresh, Cleaner, WakesUp, TakesHeap, Listener,
           Handle, Visits, NoneToVisit, Copies, Client, Ask, GetAnswer, TimesOut, Tick, vars,
           listVars
  <2>5. QED
    BY <2>1, <2>2, <2>3, <2>4
<1>2. NeighboursInv /\ [Next]_vars => [Timely]_vars
  BY <1>1
<1>3. QED
  BY <1>2, NeighboursInit, NeighboursStep, PTL DEF Spec, RemovedWhenExpired
=============================================================================

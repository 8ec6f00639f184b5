------------------------- MODULE SavedConfigProofs -------------------------
(***************************************************************************)
(* Proofs about SavedConfig: for any interfaces and VLANs, any lists and   *)
(* any number of commands, what a load makes of the lines that a           *)
(* configuration was saved as.                                             *)
(*                                                                         *)
(* Every command, an operator's or a line's, leaves a sound configuration  *)
(* (Sound, Reached): the invariant ConfigInv.  A file is what its lines    *)
(* say of VLANs and interfaces, and where: FileOf, which BuildConfigGlobal *)
(* is shown to write.  In the middle of a load, the VLANs and interfaces   *)
(* are those of the lines that were read: VlansLoaded and PortsLoaded.     *)
(* RestLoaded says the same of the other settings, for a configuration     *)
(* that the file can express.  At the end of the file every line was read, *)
(* and so what was saved is back.                                          *)
(***************************************************************************)
EXTENDS SavedConfig, FiniteSetTheorems, SequenceTheorems, WellFoundedInduction, TLAPS

-----------------------------------------------------------------------------
(* Sequences.                                                              *)

\* The order of the natural numbers.
Below == {ss \in Nat \X Nat : ss[1] < ss[2]}

\* There is no endless descent in the natural numbers.
LEMMA BelowWellFounded == IsWellFoundedOn(Below, Nat)
<1>1. IsWellFoundedOn(OpToRel(<, Nat), Nat)
  BY NatLessThanWellFounded
<1>2. OpToRel(<, Nat) = Below
  BY DEF OpToRel, Below
<1>3. QED
  BY <1>1, <1>2

\* A set of natural numbers that is not empty has a least element.
LEMMA LeastNumber ==
    ASSUME NEW T, T \subseteq Nat, T # {}
    PROVE  \E m \in T : \A k \in T : m <= k
<1>1. PICK m \in T : \A k \in T : <<k, m>> \notin Below
  BY BelowWellFounded, WFMin, Zenon
<1>2. ASSUME NEW k \in T, k < m PROVE <<k, m>> \in Below
  BY <1>2 DEF Below
<1>3. \A k \in T : m <= k
  <2> TAKE k \in T
  <2>1. ~(k < m)
    BY <1>1, <1>2
  <2>2. k \in Nat /\ m \in Nat
    OBVIOUS
  <2>3. QED
    BY <2>1, <2>2
<1>4. QED
  BY <1>3

\* A set of numbers that has 0, and n + 1 with every n below N, has all to N.
LEMMA UpTo ==
    ASSUME NEW N \in Nat, NEW T, 0 \in T, \A n \in 0 .. N : n # N /\ n \in T => n + 1 \in T
    PROVE  \A n \in 0 .. N : n \in T
<1> DEFINE R == {n \in 0 .. N : n \notin T}
<1> SUFFICES ASSUME R # {} PROVE FALSE
  OBVIOUS
<1>1. R \subseteq Nat
  OBVIOUS
<1>2. PICK m \in R : \A k \in R : m <= k
  <2> HIDE DEF R
  <2>1. QED
    BY <1>1, LeastNumber
<1>3. m \in 0 .. N /\ m \notin T /\ m # 0
  OBVIOUS
<1>4. m - 1 \in 0 .. N /\ m - 1 # N /\ (m - 1) + 1 = m /\ ~(m <= m - 1)
  BY <1>3
<1>5. m - 1 \notin R
  <2> HIDE DEF R
  <2>1. QED
    BY <1>2, <1>4
<1>6. m - 1 \in T
  BY <1>4, <1>5
<1>7. QED
  BY <1>3, <1>4, <1>6

\* f[i] is the concatenation of the first i sequences of ss.
Joined(f, ss, n, L) ==
    /\ f \in [1 .. n -> Seq(L)]
    /\ \A i \in 1 .. n : f[i] = IF i = 1 THEN ss[i] ELSE f[i - 1] \o ss[i]

\* The function that FlattenSeq defines exists.
LEMMA JoinedExists ==
    ASSUME NEW L, NEW N \in Nat, NEW ss \in [1 .. N -> Seq(L)]
    PROVE  \E f : Joined(f, ss, N, L)
<1> DEFINE T == {n \in 0 .. N : \E f : Joined(f, ss, n, L)}
<1>1. 0 \in T
  <2>1. Joined(<< >>, ss, 0, L)
    BY DEF Joined
  <2>2. QED
    BY <2>1
<1>2. ASSUME NEW n \in 0 .. N, n # N, n \in T PROVE n + 1 \in T
  <2>1. PICK g : Joined(g, ss, n, L)
    BY <1>2
  <2> DEFINE new == IF n + 1 = 1 THEN ss[n + 1] ELSE g[n] \o ss[n + 1]
             f == [i \in 1 .. n + 1 |-> IF i = n + 1 THEN new ELSE g[i]]
  <2>2. n + 1 \in 1 .. N /\ ss[n + 1] \in Seq(L)
    BY <1>2
  <2>3. g \in [1 .. n -> Seq(L)] /\ \A i \in 1 .. n : i \in Nat /\ i # n + 1
    BY <2>1 DEF Joined
  <2>4. new \in Seq(L)
    <3>1. CASE n = 0
      BY <2>2, <3>1
    <3>2. CASE n # 0
      <4>1. n \in 1 .. n
        BY <3>2
      <4>2. g[n] \in Seq(L)
        BY <2>3, <4>1
      <4>3. QED
        BY <2>2, <3>2, <4>2, ConcatProperties
    <3>3. QED
      BY <3>1, <3>2
  <2> HIDE DEF new
  <2>5. f \in [1 .. n + 1 -> Seq(L)] /\ f[n + 1] = new /\ \A i \in 1 .. n : f[i] = g[i]
    <3>1. \A i \in 1 .. n + 1 : i = n + 1 \/ i \in 1 .. n
      OBVIOUS
    <3>2. QED
      BY <2>3, <2>4, <3>1
  <2> HIDE DEF f
  <2>6. ASSUME NEW i \in 1 .. n + 1
        PROVE  f[i] = IF i = 1 THEN ss[i] ELSE f[i - 1] \o ss[i]
    <3>1. CASE i = n + 1
      <4>1. n # 0 => n \in 1 .. n /\ i - 1 = n /\ f[n] = g[n]
        BY <2>5, <3>1
      <4>2. QED
        BY <2>5, <3>1, <4>1 DEF new
    <3>2. CASE i # n + 1
      <4>1. i \in 1 .. n /\ (i # 1 => i - 1 \in 1 .. n)
        BY <3>2
      <4>2. g[i] = IF i = 1 THEN ss[i] ELSE g[i - 1] \o ss[i]
        BY <2>1, <4>1 DEF Joined
      <4>3. QED
        BY <2>5, <4>1, <4>2
    <3>3. QED
      BY <3>1, <3>2
  <2>7. Joined(f, ss, n + 1, L)
    BY <2>5, <2>6 DEF Joined
  <2>8. n + 1 \in 0 .. N
    BY <2>2
  <2>9. QED
    BY <2>7, <2>8
<1>3. N \in T
  <2>1. \A n \in 0 .. N : n # N /\ n \in T => n + 1 \in T
    BY <1>2
  <2> HIDE DEF T
  <2>2. N \in 0 .. N
    OBVIOUS
  <2>3. QED
    BY <1>1, <2>1, <2>2, UpTo
<1>4. QED
  BY <1>3

\* Where the lines of the k-th sequence are in f[n].
Start(f, k) == IF k = 1 THEN 0 ELSE Len(f[k - 1])

\* The first n sequences of ss, one after the other, are F.
Laid(F, ss, n, b) ==
    /\ \A k \in 1 .. n : /\ b[k] \in Nat /\ b[k] + Len(ss[k]) <= Len(F)
                         /\ \A m \in 1 .. Len(ss[k]) : F[b[k] + m] = ss[k][m]
    /\ \A j \in 1 .. Len(F) : \E k \in 1 .. n : \E m \in 1 .. Len(ss[k]) : j = b[k] + m
    /\ \A k, l \in 1 .. n : k < l => b[k] + Len(ss[k]) <= b[l]

\* One more sequence.
LEMMA LaidOneMore ==
    ASSUME NEW L, NEW N \in Nat, NEW ss \in [1 .. N -> Seq(L)], NEW n \in 1 .. N - 1,
           NEW F \in Seq(L), NEW b, Laid(F, ss, n, b), b[n + 1] = Len(F)
    PROVE  Laid(F \o ss[n + 1], ss, n + 1, b)
<1> DEFINE s == ss[n + 1]
           G == F \o s
<1>1. n + 1 \in 1 .. N /\ n \in Nat /\ \A k \in 1 .. n : k \in 1 .. N
  OBVIOUS
<1>2. s \in Seq(L) /\ Len(s) \in Nat /\ Len(F) \in Nat
  BY <1>1
<1>3. /\ Len(G) = Len(F) + Len(s)
      /\ \A j \in 1 .. Len(F) : G[j] = F[j]
      /\ \A j \in 1 .. Len(s) : G[Len(F) + j] = s[j]
  BY <1>2
<1> HIDE DEF G, s
<1>4. ASSUME NEW k \in 1 .. n + 1
      PROVE  /\ b[k] \in Nat /\ b[k] + Len(ss[k]) <= Len(G)
             /\ \A m \in 1 .. Len(ss[k]) : G[b[k] + m] = ss[k][m]
  <2>1. CASE k = n + 1
    <3>1. ss[k] = s /\ b[k] = Len(F)
      BY <2>1 DEF s
    <3>2. QED
      BY <1>2, <1>3, <3>1
  <2>2. CASE k # n + 1
    <3>1. k \in 1 .. n /\ Len(ss[k]) \in Nat
      BY <1>1, <2>2
    <3>2. /\ b[k] \in Nat /\ b[k] + Len(ss[k]) <= Len(F)
          /\ \A m \in 1 .. Len(ss[k]) : F[b[k] + m] = ss[k][m]
      BY <3>1 DEF Laid
    <3>3. \A m \in 1 .. Len(ss[k]) : b[k] + m \in 1 .. Len(F)
      <4> DEFINE p == b[k]
                 l == Len(ss[k])
                 q == Len(F)
      <4>1. p \in Nat /\ l \in Nat /\ q \in Nat /\ p + l <= q
        BY <1>2, <3>1, <3>2
      <4> HIDE DEF p, l, q
      <4>2. \A m \in 1 .. l : p + m \in 1 .. q
        BY <4>1
      <4>3. QED
        BY <4>2 DEF p, l, q
    <3>4. b[k] + Len(ss[k]) <= Len(G)
      BY <1>2, <1>3, <3>1, <3>2
    <3>5. QED
      BY <1>3, <3>2, <3>3, <3>4
  <2>3. QED
    BY <2>1, <2>2
<1>5. ASSUME NEW j \in 1 .. Len(G)
      PROVE  \E k \in 1 .. n + 1 : \E m \in 1 .. Len(ss[k]) : j = b[k] + m
  <2>1. CASE j <= Len(F)
    <3>1. j \in 1 .. Len(F)
      BY <1>2, <1>3, <2>1
    <3>2. PICK k \in 1 .. n : \E m \in 1 .. Len(ss[k]) : j = b[k] + m
      BY <3>1 DEF Laid
    <3>3. k \in 1 .. n + 1
      BY <1>1
    <3>4. QED
      BY <3>2, <3>3
  <2>2. CASE ~(j <= Len(F))
    <3>1. j - Len(F) \in 1 .. Len(s) /\ j = Len(F) + (j - Len(F))
      BY <1>2, <1>3, <2>2
    <3>2. j - Len(F) \in 1 .. Len(ss[n + 1]) /\ j = b[n + 1] + (j - Len(F))
      BY <3>1 DEF s
    <3>3. n + 1 \in 1 .. n + 1
      BY <1>1
    <3>4. QED
      BY <3>2, <3>3
  <2>3. QED
    BY <2>1, <2>2
<1>6. ASSUME NEW k \in 1 .. n + 1, NEW l \in 1 .. n + 1, k < l
      PROVE  b[k] + Len(ss[k]) <= b[l]
  <2>1. k \in 1 .. n
    BY <1>1, <1>6
  <2>2. CASE l = n + 1
    BY <2>1, <2>2 DEF Laid
  <2>3. CASE l # n + 1
    <3>1. l \in 1 .. n
      BY <1>1, <2>3
    <3>2. QED
      BY <1>6, <2>1, <3>1 DEF Laid
  <2>4. QED
    BY <2>2, <2>3
<1>7. QED
  BY <1>4, <1>5, <1>6 DEF Laid, G, s

\* The concatenation of sequences.
LEMMA JoinedLaid ==
    ASSUME NEW L, NEW N \in Nat, NEW ss \in [1 .. N -> Seq(L)], NEW f, Joined(f, ss, N, L)
    PROVE  \A n \in 1 .. N : Laid(f[n], ss, n, [k \in 1 .. N |-> Start(f, k)])
<1> DEFINE b == [k \in 1 .. N |-> Start(f, k)]
           T == {0} \cup {n \in 1 .. N : Laid(f[n], ss, n, b)}
<1>1. 0 \in T
  OBVIOUS
<1>2. ASSUME NEW n \in 0 .. N, n # N, n \in T PROVE n + 1 \in T
  <2>1. n + 1 \in 1 .. N
    BY <1>2
  <2>2. CASE n = 0
    <3>1. 1 \in 1 .. N /\ f[1] = ss[1] /\ b[1] = 0 /\ ss[1] \in Seq(L)
      BY <2>1, <2>2 DEF Joined, Start
    <3> HIDE DEF b
    <3>2. Laid(f[1], ss, 1, b)
      BY <3>1 DEF Laid
    <3>3. QED
      BY <2>2, <3>1, <3>2
  <2>3. CASE n # 0
    <3>1. n \in 1 .. N - 1 /\ n \in 1 .. N
      BY <1>2, <2>3
    <3>2. Laid(f[n], ss, n, b)
      BY <1>2, <3>1
    <3>a. n + 1 # 1 /\ (n + 1) - 1 = n
      BY <3>1
    <3>b. f[n + 1] = f[n] \o ss[n + 1]
      BY <2>1, <3>a DEF Joined
    <3>3. f[n] \in Seq(L) /\ f[n + 1] = f[n] \o ss[n + 1] /\ b[n + 1] = Len(f[n])
      BY <2>1, <3>1, <3>a, <3>b DEF Joined, Start
    <3> HIDE DEF b
    <3>4. Laid(f[n + 1], ss, n + 1, b)
      BY <3>1, <3>2, <3>3, LaidOneMore
    <3>5. QED
      BY <2>1, <3>4
  <2>4. QED
    BY <2>2, <2>3
<1>3. \A n \in 0 .. N : n \in T
  <2>1. \A n \in 0 .. N : n # N /\ n \in T => n + 1 \in T
    BY <1>2
  <2> HIDE DEF T
  <2>2. QED
    BY <1>1, <2>1, UpTo
<1>4. ASSUME NEW n \in 1 .. N PROVE Laid(f[n], ss, n, b)
  <2>1. n \in 0 .. N /\ n # 0
    OBVIOUS
  <2>2. QED
    BY <1>3, <2>1
<1>5. QED
  BY <1>4

\* FlattenSeq() is the concatenation.
LEMMA Flattened ==
    ASSUME NEW L, NEW N \in Nat, NEW ss \in [1 .. N -> Seq(L)]
    PROVE  FlattenSeq(ss) \in Seq(L) /\ \E b : Laid(FlattenSeq(ss), ss, N, b)
<1>1. Len(ss) = N
  <2>1. ss \in Seq(Seq(L))
    OBVIOUS
  <2>2. QED
    BY <2>1
<1>2. CASE N = 0
  <2>1. FlattenSeq(ss) = ss /\ ss = << >>
    BY <1>1, <1>2 DEF FlattenSeq
  <2>2. Laid(<< >>, ss, 0, << >>)
    BY DEF Laid
  <2>3. QED
    BY <1>2, <2>1, <2>2
<1>3. CASE N # 0
  <2> DEFINE IsJoined(f) ==
               f = [i \in 1 .. Len(ss) |-> IF i = 1 THEN ss[i] ELSE f[i - 1] \o ss[i]]
             chosen == CHOOSE f : IsJoined(f)
  <2>1. PICK f : Joined(f, ss, N, L)
    BY JoinedExists
  <2>2. IsJoined(f)
    BY <1>1, <2>1 DEF Joined
  <2>3. IsJoined(chosen)
    <3> HIDE DEF IsJoined
    <3>1. QED
      BY <2>2
  <2>4. FlattenSeq(ss) = chosen[N]
    BY <1>1, <1>3 DEF FlattenSeq
  <2>5. /\ chosen = [i \in 1 .. N |-> chosen[i]]
        /\ \A i \in 1 .. N : chosen[i] = IF i = 1 THEN ss[i] ELSE chosen[i - 1] \o ss[i]
    BY <1>1, <2>3
  <2> HIDE DEF chosen, IsJoined
  <2> DEFINE T == {0} \cup {n \in 1 .. N : chosen[n] \in Seq(L)}
  <2>6. ASSUME NEW n \in 0 .. N, n # N, n \in T PROVE n + 1 \in T
    <3>1. n + 1 \in 1 .. N /\ ss[n + 1] \in Seq(L) /\ (n + 1) - 1 = n /\ n \in Nat
      BY <2>6
    <3>2. CASE n = 0
      <4>1. n + 1 = 1 /\ 1 \in 1 .. N
        BY <3>1, <3>2
      <4>2. chosen[1] = ss[1]
        BY <2>5, <4>1
      <4>3. QED
        BY <3>1, <4>1, <4>2
    <3>3. CASE n # 0
      <4>1. chosen[n] \in Seq(L)
        BY <2>6, <3>3
      <4>a. n + 1 # 1
        BY <3>1, <3>3
      <4>b. chosen[n + 1] = chosen[(n + 1) - 1] \o ss[n + 1]
        BY <2>5, <3>1, <4>a
      <4>2. chosen[n + 1] = chosen[n] \o ss[n + 1]
        BY <3>1, <4>b
      <4>3. chosen[n + 1] \in Seq(L)
        BY <3>1, <4>1, <4>2, ConcatProperties
      <4>4. QED
        BY <3>1, <4>3
    <3>4. QED
      BY <3>2, <3>3
  <2>7. \A n \in 0 .. N : n \in T
    <3>1. 0 \in T /\ \A n \in 0 .. N : n # N /\ n \in T => n + 1 \in T
      BY <2>6
    <3> HIDE DEF T
    <3>2. QED
      BY <3>1, UpTo
  <2>8. ASSUME NEW n \in 1 .. N PROVE chosen[n] \in Seq(L)
    <3>1. n \in 0 .. N /\ n # 0
      OBVIOUS
    <3>2. QED
      BY <2>7, <3>1
  <2>9. Joined(chosen, ss, N, L)
    BY <2>5, <2>8 DEF Joined
  <2>10. N \in 1 .. N
    BY <1>3
  <2>11. Laid(chosen[N], ss, N, [k \in 1 .. N |-> Start(chosen, k)])
    BY <2>9, <2>10, JoinedLaid
  <2>12. chosen[N] \in Seq(L)
    BY <2>8, <2>10
  <2>13. QED
    BY <2>4, <2>11, <2>12
<1>4. QED
  BY <1>2, <1>3

-----------------------------------------------------------------------------
(* The members of a set, one after the other.                              *)

\* Sequence s has the members of S and nothing else.
Enumerates(s, S) ==
    /\ Cardinality(S) \in Nat /\ s \in [1 .. Cardinality(S) -> S]
    /\ \A x \in S : \E k \in 1 .. Cardinality(S) : s[k] = x

\* SetToSeq() enumerates a finite set, and has each member once.
LEMMA SetEnumerated ==
    ASSUME NEW S, IsFiniteSet(S)
    PROVE  /\ Enumerates(SetToSeq(S), S)
           /\ \A k, l \in 1 .. Cardinality(S) : SetToSeq(S)[k] = SetToSeq(S)[l] => k = l
<1> DEFINE n == Cardinality(S)
<1>1. n \in Nat /\ ExistsBijection(1 .. n, S)
  BY FS_CardinalityType
<1>2. PICK f : f \in Bijection(1 .. n, S)
  BY <1>1 DEF ExistsBijection
<1>3. f \in [1 .. n -> S] /\ IsInjective(f)
  BY <1>2 DEF Bijection, Injection, IsInjective
<1>4. SetToSeq(S) \in [1 .. n -> S] /\ IsInjective(SetToSeq(S))
  BY <1>3 DEF SetToSeq
<1> DEFINE s == SetToSeq(S)
<1> HIDE DEF s, n
<1>5. s \in Injection(1 .. n, S)
  BY <1>4 DEF Injection, IsInjective, s
<1>6. Cardinality(1 .. n) = n
  BY <1>1, FS_Interval
<1>7. s \in Surjection(1 .. n, S)
  BY <1>5, <1>6, FS_Injection DEF n
<1>8. QED
  BY <1>1, <1>5, <1>7 DEF Enumerates, Injection, Surjection, s, n, IsInjective

\* Ascending() enumerates a finite set of numbers: the number of members up to
\* one of them is between 1 and the number of all, and differs for each.
LEMMA AscendingEnumerates ==
    ASSUME NEW S, IsFiniteSet(S), S \subseteq Nat
    PROVE  Enumerates(Ascending(S), S)
<1> DEFINE n == Cardinality(S)
           upto(v) == {u \in S : u <= v}
           rank == [v \in S |-> Cardinality(upto(v))]
<1>1. n \in Nat
  BY FS_CardinalityType
<1>2. ASSUME NEW v \in S PROVE IsFiniteSet(upto(v)) /\ Cardinality(upto(v)) \in 1 .. n
  <2>1. upto(v) \in SUBSET S /\ v \in upto(v)
    OBVIOUS
  <2>2. IsFiniteSet(upto(v)) /\ Cardinality(upto(v)) <= n
    BY <2>1, FS_Subset
  <2>3. Cardinality(upto(v)) \in Nat
    BY <2>2, FS_CardinalityType
  <2>4. Cardinality(upto(v)) # 0
    BY <2>1, <2>2, FS_EmptySet
  <2>5. QED
    BY <1>1, <2>2, <2>3, <2>4
<1>3. ASSUME NEW v \in S, NEW w \in S, v < w PROVE Cardinality(upto(v)) # Cardinality(upto(w))
  <2>a. v \in Nat /\ w \in Nat /\ \A u \in S : u \in Nat
    OBVIOUS
  <2>b. \A u \in S : u <= v => u <= w
    BY <1>3, <2>a
  <2>c. w <= w /\ ~(w <= v)
    BY <1>3, <2>a
  <2>1. upto(v) \in SUBSET upto(w) /\ w \in upto(w) /\ w \notin upto(v)
    BY <2>b, <2>c
  <2> HIDE DEF upto
  <2>2. QED
    BY <1>2, <2>1, FS_Subset
<1>4. rank \in [S -> 1 .. n] /\ \A v, w \in S : rank[v] = rank[w] => v = w
  <2>1. \A v \in S : rank[v] = Cardinality(upto(v))
    OBVIOUS
  <2>2. rank \in [S -> 1 .. n]
    BY <1>2
  <2> HIDE DEF rank, upto
  <2>3. \A v, w \in S : v < w \/ w < v \/ v = w
    OBVIOUS
  <2>4. QED
    BY <1>3, <2>1, <2>2, <2>3
<1>5. \A k \in 1 .. n : \E v \in S : rank[v] = k
  <2> HIDE DEF rank, n
  <2>1. rank \in Injection(S, 1 .. n)
    BY <1>4 DEF Injection, IsInjective
  <2>2. IsFiniteSet(1 .. n) /\ Cardinality(1 .. n) = n
    BY <1>1, FS_Interval
  <2>3. rank \in Surjection(S, 1 .. n)
    BY <2>1, <2>2, FS_Injection DEF n
  <2>4. QED
    BY <2>3 DEF Surjection
<1>6. \A k \in 1 .. n : Ascending(S)[k] \in S /\ rank[Ascending(S)[k]] = k
  <2> TAKE k \in 1 .. n
  <2>1. PICK v \in S : Cardinality(upto(v)) = k
    BY <1>5
  <2>2. Ascending(S)[k] = CHOOSE u \in S : Cardinality(upto(u)) = k
    BY DEF Ascending
  <2> HIDE DEF upto
  <2>3. Ascending(S)[k] \in S /\ Cardinality(upto(Ascending(S)[k])) = k
    BY <2>1, <2>2
  <2>4. QED
    BY <2>3
<1>7. Ascending(S) \in [1 .. n -> S]
  BY <1>6 DEF Ascending
<1>8. \A v \in S : Ascending(S)[rank[v]] = v
  <2> HIDE DEF rank, n
  <2>1. QED
    BY <1>4, <1>6
<1>9. QED
  <2> HIDE DEF rank
  <2>1. QED
    BY <1>1, <1>4, <1>7, <1>8 DEF Enumerates

-----------------------------------------------------------------------------
(* A trunk's list of VLANs.                                                *)

\* The run of VLANs that begins with v.
LEMMA RunOf ==
    ASSUME NEW S \in SUBSET Vlans, NEW v \in S
    PROVE  /\ RunEnd(S, v) \in v .. MaxVlan /\ RunEnd(S, v) + 1 \notin S
           /\ v .. RunEnd(S, v) \subseteq S
<1> DEFINE T == {w \in v .. MaxVlan : w + 1 \notin S}
<1>1. MaxVlan \in Nat /\ v \in Nat /\ v <= MaxVlan /\ \A u \in S : u \in Nat /\ u <= MaxVlan
  BY SavedConfigAssumption DEF SavedConfigAssumption, Vlans
<1>2. MaxVlan \in T
  BY <1>1
<1>3. PICK m \in T : \A k \in T : m <= k
  <2>1. T \subseteq Nat
    BY <1>1
  <2> HIDE DEF T
  <2>2. QED
    BY <1>2, <2>1, LeastNumber
<1>4. RunEnd(S, v) \in T /\ \A k \in T : RunEnd(S, v) <= k
  <2> HIDE DEF T
  <2>1. RunEnd(S, v) = CHOOSE x \in T : \A y \in T : x <= y
    BY DEF RunEnd, Min, T
  <2>2. QED
    BY <1>3, <2>1
<1> DEFINE e == RunEnd(S, v)
<1>5. e \in v .. MaxVlan /\ e + 1 \notin S
  BY <1>4
<1>6. ASSUME NEW w \in v .. e PROVE w \in S
  <2>1. CASE w = v
    BY <2>1
  <2>2. CASE w # v
    <3>1. w - 1 \in v .. MaxVlan /\ ~(e <= w - 1) /\ (w - 1) + 1 = w
      BY <1>1, <1>5, <2>2
    <3>2. w - 1 \notin T
      <4> HIDE DEF T
      <4>1. QED
        BY <1>4, <3>1
    <3>3. QED
      BY <3>1, <3>2
  <2>3. QED
    BY <2>1, <2>2
<1>7. QED
  BY <1>5, <1>6

\* A token of the list of S names VLANs of S only.
TokenOf(S) == {t \in Vlans \X Vlans : t[1] .. t[2] \subseteq S}

\* The VLANs that begin a token.
Starts(S) == {v \in S : ~InRange(S, v) \/ v - 1 \notin S}

\* The token that VLAN v begins.
TokenAt(S, v) == <<v, IF InRange(S, v) THEN RunEnd(S, v) ELSE v>>

\* list_vlans_token(): each VLAN that begins a token has one.
LEMMA TokensAre ==
    ASSUME NEW S \in SUBSET Vlans
    PROVE  /\ Tokens(S) \in Seq(TokenOf(S))
           /\ \A v \in Starts(S) : \E k \in 1 .. Len(Tokens(S)) : Tokens(S)[k] = TokenAt(S, v)
           /\ \A k \in 1 .. Len(Tokens(S)) : \E v \in Starts(S) : Tokens(S)[k] = TokenAt(S, v)
<1> DEFINE n == Cardinality(Starts(S))
<1>1. IsFiniteSet(Vlans) /\ Vlans \subseteq Nat
  BY SavedConfigAssumption, FS_Interval DEF SavedConfigAssumption, Vlans
<1>2. IsFiniteSet(Starts(S)) /\ Starts(S) \subseteq S /\ Starts(S) \subseteq Nat
  BY <1>1, FS_Subset DEF Starts
<1>3. Enumerates(Ascending(Starts(S)), Starts(S))
  BY <1>2, AscendingEnumerates
<1>4. /\ n \in Nat
      /\ \A k \in 1 .. n : Ascending(Starts(S))[k] \in Starts(S)
      /\ \A v \in Starts(S) : \E k \in 1 .. n : Ascending(Starts(S))[k] = v
  BY <1>3 DEF Enumerates
<1>5. Tokens(S) = [k \in 1 .. n |-> TokenAt(S, Ascending(Starts(S))[k])]
  BY DEF Tokens, Starts, TokenAt
<1>6. ASSUME NEW v \in Starts(S) PROVE TokenAt(S, v) \in TokenOf(S)
  <2>1. v \in S /\ v \in Vlans
    BY <1>2
  <2>2. RunEnd(S, v) \in Vlans /\ v .. RunEnd(S, v) \subseteq S
    BY <2>1, RunOf, SavedConfigAssumption DEF SavedConfigAssumption, Vlans
  <2>3. v .. v \subseteq S
    BY <1>1, <2>1
  <2>4. QED
    BY <2>1, <2>2, <2>3 DEF TokenAt, TokenOf
<1> HIDE DEF n
<1>7. Tokens(S) \in Seq(TokenOf(S)) /\ Len(Tokens(S)) = n
  BY <1>4, <1>5, <1>6
<1>8. \A k \in 1 .. n : Tokens(S)[k] = TokenAt(S, Ascending(Starts(S))[k])
  BY <1>5
<1>9. QED
  BY <1>4, <1>7, <1>8

\* The lines of the list of S.
AllowedLine(S) ==
    {Line("allowed", arg) : arg \in [how : {"set", "add"}, list : Seq(TokenOf(S))]}

\* list_vlans(): the first line sets the list, the others add to it.
LEMMA ListVlansLines ==
    ASSUME NEW S \in SUBSET Vlans
    PROVE  /\ ListVlans(S) \in Seq(AllowedLine(S)) /\ Len(ListVlans(S)) \in Nat \ {0}
           /\ \A k \in 1 .. Len(ListVlans(S)) :
                 ListVlans(S)[k].arg.how = IF k = 1 THEN "set" ELSE "add"
<1> DEFINE ts == Tokens(S)
           n == 1 + (Len(ts) - 1) \div LineTokens
           l(k) == [how  |-> IF k = 1 THEN "set" ELSE "add",
                    list |-> SubSeq(ts, 1 + (k - 1) * LineTokens,
                                    Min({k * LineTokens, Len(ts)}))]
<1>1. ts \in Seq(TokenOf(S)) /\ Len(ts) \in Nat /\ LineTokens \in Nat \ {0}
  BY TokensAre, SavedConfigAssumption DEF SavedConfigAssumption
<1>2. CASE ts = << >>
  <2>1. ListVlans(S) = <<Line("allowed", [how |-> "set", list |-> << >>])>>
    BY <1>2 DEF ListVlans
  <2>2. << >> \in Seq(TokenOf(S))
    OBVIOUS
  <2>3. Line("allowed", [how |-> "set", list |-> << >>]) \in AllowedLine(S)
    BY <2>2 DEF AllowedLine
  <2>4. QED
    BY <2>1, <2>3 DEF Line
<1>3. CASE ts # << >>
  <2>1. ListVlans(S) = [k \in 1 .. n |-> Line("allowed", l(k))]
    BY <1>3 DEF ListVlans
  <2>2. n \in Nat \ {0}
    <3>1. Len(ts) - 1 \in Nat
      BY <1>1, <1>3
    <3>2. (Len(ts) - 1) \div LineTokens \in Nat
      BY <1>1, <3>1
    <3>3. QED
      BY <3>2
  <2>3. ASSUME NEW k \in 1 .. n PROVE l(k) \in [how : {"set", "add"}, list : Seq(TokenOf(S))]
    <3>1. k \in Nat /\ k * LineTokens \in Nat /\ (k - 1) * LineTokens \in Nat
      BY <1>1
    <3>2. Min({k * LineTokens, Len(ts)}) \in {k * LineTokens, Len(ts)}
          /\ Min({k * LineTokens, Len(ts)}) <= Len(ts)
      <4> DEFINE a == k * LineTokens
                 b == Len(ts)
      <4>1. a \in Nat /\ b \in Nat
        BY <1>1, <3>1
      <4> HIDE DEF a, b
      <4>2. Min({a, b}) = CHOOSE x \in {a, b} : \A y \in {a, b} : x <= y
        BY DEF Min
      <4>3. \E x \in {a, b} : \A y \in {a, b} : x <= y
        BY <4>1
      <4>4. Min({a, b}) \in {a, b} /\ \A y \in {a, b} : Min({a, b}) <= y
        BY <4>2, <4>3
      <4>5. QED
        BY <4>4 DEF a, b
    <3> DEFINE from == 1 + (k - 1) * LineTokens
               to == Min({k * LineTokens, Len(ts)})
    <3>3. from \in Nat \ {0} /\ to \in Nat /\ to <= Len(ts)
      BY <1>1, <3>1, <3>2
    <3> HIDE DEF ts, from, to
    <3>4. SubSeq(ts, from, to) \in Seq(TokenOf(S))
      BY <1>1, <3>3, SubSeqProperties
    <3>5. QED
      BY <3>4 DEF from, to
  <2> HIDE DEF n, l
  <2>4. \A k \in 1 .. n : Line("allowed", l(k)) \in AllowedLine(S)
    BY <2>3 DEF AllowedLine
  <2>5. ListVlans(S) \in Seq(AllowedLine(S)) /\ Len(ListVlans(S)) = n
    BY <2>1, <2>2, <2>4
  <2>6. \A k \in 1 .. n : ListVlans(S)[k].arg.how = l(k).how
    BY <2>1 DEF Line
  <2>7. QED
    BY <2>2, <2>5, <2>6 DEF l
<1>4. QED
  BY <1>2, <1>3

-----------------------------------------------------------------------------
(* Configurations and what a command makes of one.                         *)

\* The parts of a configuration.
Address == Interfaces \X Vlans
Ports == UNION {[D -> Port] : D \in SUBSET Interfaces}
Menu == {<<"config">>} \cup {<<"vlan", v>> : v \in Vlans} \cup {<<"port", i>> : i \in Interfaces}

\* The configurations.
Config ==
    [vlans : SUBSET Vlans, named : SUBSET Vlans, snooped : SUBSET Vlans,
     snooping : BOOLEAN, secret : BOOLEAN, age : {"unset", "default", "other"},
     cdp : [run : BOOLEAN, timer : {"default", "other"}],
     ports : Ports, described : SUBSET Interfaces, down : SUBSET Interfaces,
     static : SUBSET Address, learned : SUBSET Address, at : Menu]

\* The menu is that of a VLAN or an interface that is recorded.
AtRecord(c) ==
    /\ \A v \in Vlans : c.at = <<"vlan", v>> => v \in c.vlans
    /\ \A i \in Interfaces : c.at = <<"port", i>> => i \in DOMAIN c.ports

\* What every configuration has, in the middle of a command, too.
Sound(c) ==
    /\ c \in Config /\ AtRecord(c)
    /\ c.named \cup c.snooped \subseteq c.vlans
    /\ DefaultVlans \subseteq c.vlans \ c.named
    /\ c.static \cap c.learned = {}

\* The addresses in the bridges are those of devices in the bridges.
Reached(c) == \A m \in c.static \cup c.learned : Device(c, m[1], m[2]) # "none"

\* A command that leaves the addresses alone.
SameAddresses(old, c) == c.static = old.static /\ c.learned = old.learned

\* The interfaces of a configuration.
LEMMA PortsOf ==
    ASSUME NEW ports
    PROVE  ports \in Ports <=> /\ DOMAIN ports \subseteq Interfaces
                               /\ ports = [i \in DOMAIN ports |-> ports[i]]
                               /\ \A i \in DOMAIN ports : ports[i] \in Port
BY DEF Ports

\* The default VLANs are VLANs, but not the last, and 0, which stands for no
\* VLAN, is none.
LEMMA DefaultIn ==
    /\ DefaultVlan \in DefaultVlans /\ DefaultVlans \subseteq Vlans
    /\ MaxVlan \notin DefaultVlans /\ 0 \notin Vlans /\ DefaultVlan # 0
BY SavedConfigAssumption DEF SavedConfigAssumption, Vlans, DefaultVlan

\* The switch starts sound.
LEMMA BootSound == Sound(Boot) /\ Reached(Boot)
<1>1. << >> \in Ports
  <2>1. << >> \in [{} -> Port]
    OBVIOUS
  <2>2. QED
    BY <2>1 DEF Ports
<1>2. Boot \in Config
  BY <1>1, DefaultIn DEF Boot, Config, Menu
<1>3. QED
  BY <1>2, DefaultIn DEF Boot, Sound, Reached, AtRecord

\* The commands of VLANs.
LEMMA VlanSound ==
    ASSUME NEW c, Sound(c), NEW v \in Vlans
    PROVE  /\ Sound(CmdVlan(c, v)) /\ SameAddresses(c, CmdVlan(c, v))
           /\ CmdVlan(c, v).at = <<"vlan", v>>
<1>1. <<"vlan", v>> \in Menu
  BY DEF Menu
<1>2. CmdVlan(c, v) \in Config /\ SameAddresses(c, CmdVlan(c, v)) /\ CmdVlan(c, v).at = <<"vlan", v>>
  BY <1>1 DEF CmdVlan, Config, Sound, SameAddresses
<1>3. QED
  BY <1>2, DefaultIn DEF CmdVlan, Config, Sound, SameAddresses, AtRecord

\* The name of the menu's VLAN is set or taken back.
LEMMA NameVlanSound ==
    ASSUME NEW c, Sound(c), NEW given \in BOOLEAN
    PROVE  Sound(CmdNameVlan(c, given)) /\ SameAddresses(c, CmdNameVlan(c, given))
<1>1. CASE c.at[1] # "vlan" \/ c.at[2] \in DefaultVlans
  BY <1>1 DEF CmdNameVlan, SameAddresses
<1>2. CASE ~(c.at[1] # "vlan" \/ c.at[2] \in DefaultVlans)
  <2>1. c.at \in Menu
    BY DEF Sound, Config
  <2>2. PICK v \in Vlans : c.at = <<"vlan", v>>
    BY <1>2, <2>1 DEF Menu
  <2>3. v \in c.vlans /\ v \notin DefaultVlans
    BY <1>2, <2>2 DEF Sound, AtRecord
  <2>4. CmdNameVlan(c, given) =
          [c EXCEPT !.named = IF given THEN c.named \cup {v} ELSE c.named \ {v}]
    BY <1>2, <2>2 DEF CmdNameVlan
  <2>5. QED
    BY <2>3, <2>4 DEF Sound, Config, SameAddresses, AtRecord
<1>3. QED
  BY <1>1, <1>2

\* A VLAN is removed from the main menu, or the menu was one of its own.
LEMMA NoVlanSound ==
    ASSUME NEW c, Sound(c), c.at = <<"config">>, NEW v \in Vlans
    PROVE  Sound(CmdNoVlan(c, v)) /\ SameAddresses(c, CmdNoVlan(c, v))
<1>1. CASE v \in DefaultVlans
  BY <1>1 DEF CmdNoVlan, SameAddresses
<1>2. CASE v \notin DefaultVlans
  <2>1. CmdNoVlan(c, v) = [c EXCEPT !.vlans = c.vlans \ {v}, !.named = c.named \ {v},
                                    !.snooped = c.snooped \ {v}]
    BY <1>2 DEF CmdNoVlan
  <2>2. (\A w \in Vlans : <<"config">> # <<"vlan", w>>)
        /\ (\A i \in Interfaces : <<"config">> # <<"port", i>>)
    OBVIOUS
  <2>3. AtRecord(CmdNoVlan(c, v))
    BY <2>1, <2>2 DEF AtRecord, Sound, Config
  <2>4. CmdNoVlan(c, v) \in Config /\ SameAddresses(c, CmdNoVlan(c, v))
    <3>1. /\ c \in Config /\ c.vlans \ {v} \in SUBSET Vlans /\ c.named \ {v} \in SUBSET Vlans
          /\ c.snooped \ {v} \in SUBSET Vlans
      BY DEF Sound, Config
    <3> HIDE DEF CmdNoVlan
    <3>2. CmdNoVlan(c, v) \in Config
      BY <2>1, <3>1 DEF Config
    <3>3. SameAddresses(c, CmdNoVlan(c, v))
      BY <2>1, <3>1 DEF Config, SameAddresses
    <3>4. QED
      BY <3>2, <3>3
  <2>5. /\ CmdNoVlan(c, v).vlans = c.vlans \ {v} /\ CmdNoVlan(c, v).named = c.named \ {v}
        /\ CmdNoVlan(c, v).snooped = c.snooped \ {v}
    BY <2>1 DEF Sound, Config
  <2>6. /\ CmdNoVlan(c, v).named \cup CmdNoVlan(c, v).snooped \subseteq CmdNoVlan(c, v).vlans
        /\ DefaultVlans \subseteq CmdNoVlan(c, v).vlans \ CmdNoVlan(c, v).named
    BY <1>2, <2>5 DEF Sound
  <2>7. QED
    BY <2>3, <2>4, <2>6 DEF Sound, SameAddresses
<1>3. QED
  BY <1>1, <1>2

\* IGMP snooping of all VLANs, and of one.
LEMMA IgmpSound ==
    ASSUME NEW c, Sound(c), NEW on \in BOOLEAN
    PROVE  /\ Sound(SetGlobalIgmp(c, on)) /\ SameAddresses(c, SetGlobalIgmp(c, on))
           /\ \A v \in Vlans : /\ Sound(CmdIpIgmpSnooping(c, v, on))
                               /\ SameAddresses(c, CmdIpIgmpSnooping(c, v, on))
<1>1. Sound(SetGlobalIgmp(c, on)) /\ SameAddresses(c, SetGlobalIgmp(c, on))
  BY DEF SetGlobalIgmp, Sound, Config, SameAddresses, AtRecord
<1>2. ASSUME NEW v \in Vlans
      PROVE  /\ Sound(CmdIpIgmpSnooping(c, v, on))
             /\ SameAddresses(c, CmdIpIgmpSnooping(c, v, on))
  BY DEF CmdIpIgmpSnooping, Sound, Config, SameAddresses, AtRecord
<1>3. QED
  BY <1>1, <1>2

\* The other global commands.
LEMMA GlobalSound ==
    ASSUME NEW c, Sound(c)
    PROVE  /\ \A on \in BOOLEAN : Sound(CmdCdpRun(c, on)) /\ SameAddresses(c, CmdCdpRun(c, on))
           /\ \A t \in {"default", "other"} :
                 Sound(CmdCdpTimer(c, t)) /\ SameAddresses(c, CmdCdpTimer(c, t))
           /\ Sound(CmdSetEnPw(c)) /\ SameAddresses(c, CmdSetEnPw(c))
           /\ Sound(CmdNoEnSecret(c)) /\ SameAddresses(c, CmdNoEnSecret(c))
<1>1. ASSUME NEW on \in BOOLEAN PROVE Sound(CmdCdpRun(c, on)) /\ SameAddresses(c, CmdCdpRun(c, on))
  BY DEF CmdCdpRun, Sound, Config, SameAddresses, AtRecord
<1>2. ASSUME NEW t \in {"default", "other"}
      PROVE  Sound(CmdCdpTimer(c, t)) /\ SameAddresses(c, CmdCdpTimer(c, t))
  BY DEF CmdCdpTimer, Sound, Config, SameAddresses, AtRecord
<1>3. Sound(CmdSetEnPw(c)) /\ SameAddresses(c, CmdSetEnPw(c))
  BY DEF CmdSetEnPw, Sound, Config, SameAddresses, AtRecord
<1>4. Sound(CmdNoEnSecret(c)) /\ SameAddresses(c, CmdNoEnSecret(c))
  BY DEF CmdNoEnSecret, Sound, Config, SameAddresses, AtRecord
<1>5. QED
  BY <1>1, <1>2, <1>3, <1>4

\* The time that a learned address stays.
LEMMA AgingSound ==
    ASSUME NEW c, Sound(c), NEW t \in {"unset", "default", "other"}
    PROVE  Sound(CmdSetAging(c, t)) /\ SameAddresses(c, CmdSetAging(c, t))
BY DEF CmdSetAging, Sound, Config, SameAddresses, AtRecord

-----------------------------------------------------------------------------
(* The commands of interfaces.                                             *)

\* What an interface gets is the record of one.
LEMMA NewPortIn == ASSUME NEW c, NEW i PROVE NewPort(c, i) \in Port
BY DefaultIn DEF NewPort, Port

\* The commands of an interface's menu give the record of one.
LEMMA PortCommandsIn ==
    ASSUME NEW p \in Port
    PROVE  /\ \A v \in Vlans : CmdAccVlan(p, v) \in Port
           /\ \A mode \in {"access", "trunk"} : \A c : CmdSetMode(p, mode, c) \in Port
           /\ \A c : CmdNoMode(p, c) \in Port
           /\ \A how \in {"set", "add", "remove", "except"}, vs \in SUBSET Vlans :
                 CmdTrunkVlan(p, how, vs) \in Port
           /\ \A on \in BOOLEAN : \A c, i : CmdCdpIfSet(p, on, c, i) \in Port
<1>1. /\ \A v \in Vlans : CmdAccVlan(p, v) \in Port
      /\ \A mode \in {"access", "trunk"} : \A c : CmdSetMode(p, mode, c) \in Port
  BY DEF CmdAccVlan, CmdSetMode, Port
<1>2. /\ \A c : CmdNoMode(p, c) \in Port
      /\ \A on \in BOOLEAN : \A c, i : CmdCdpIfSet(p, on, c, i) \in Port
  BY DEF CmdNoMode, CmdCdpIfSet, Port
<1>3. ASSUME NEW how \in {"set", "add", "remove", "except"}, NEW vs \in SUBSET Vlans
      PROVE  CmdTrunkVlan(p, how, vs) \in Port
  <2> DEFINE list == CASE how = "set" -> vs [] how = "add" -> p.allowed \cup vs
                       [] how = "remove" -> p.allowed \ vs
                       [] how = "except" -> Vlans \ vs
  <2>1. CmdTrunkVlan(p, how, vs) = [p EXCEPT !.allowed = list]
    BY DEF CmdTrunkVlan
  <2>2. list \in {vs, p.allowed \cup vs, p.allowed \ vs, Vlans \ vs}
    OBVIOUS
  <2>3. list \in SUBSET Vlans
    <3> HIDE DEF list
    <3>1. QED
      BY <2>2 DEF Port
  <2> HIDE DEF list
  <2>4. QED
    BY <2>1, <2>3 DEF Port
<1>4. QED
  BY <1>1, <1>2, <1>3

\* An interface gets another record.
LEMMA PortSound ==
    ASSUME NEW c, Sound(c), NEW i \in DOMAIN c.ports, NEW p \in Port
    PROVE  /\ Sound([c EXCEPT !.ports[i] = p])
           /\ SameAddresses(c, [c EXCEPT !.ports[i] = p])
<1> DEFINE d == [c EXCEPT !.ports[i] = p]
<1>1. c \in Config /\ c.ports \in Ports
  BY DEF Sound, Config
<1>2. d = [c EXCEPT !.ports = [c.ports EXCEPT ![i] = p]]
  BY <1>1 DEF Config
<1>3. [c.ports EXCEPT ![i] = p] \in Ports /\ DOMAIN [c.ports EXCEPT ![i] = p] = DOMAIN c.ports
  <2>1. PICK D \in SUBSET Interfaces : c.ports \in [D -> Port]
    BY <1>1 DEF Ports
  <2>2. [c.ports EXCEPT ![i] = p] \in [D -> Port]
    BY <2>1
  <2>3. QED
    BY <2>2 DEF Ports
<1>4. d \in Config /\ SameAddresses(c, d)
  BY <1>1, <1>2, <1>3 DEF Config, SameAddresses
<1>5. d.at = c.at /\ d.vlans = c.vlans /\ DOMAIN d.ports = DOMAIN c.ports
      /\ d.named = c.named /\ d.snooped = c.snooped
  BY <1>1, <1>2, <1>3 DEF Config
<1> HIDE DEF d
<1>6. Sound(d)
  BY <1>4, <1>5 DEF Sound, SameAddresses, AtRecord
<1>7. QED
  BY <1>4, <1>6 DEF d

\* "interface" records the interface, when the machine has it.
LEMMA UseSound ==
    ASSUME NEW c, Sound(c), NEW i \in Interfaces
    PROVE  /\ Sound(UseIfEther(c, i)) /\ SameAddresses(c, UseIfEther(c, i))
           /\ i \in present => i \in DOMAIN UseIfEther(c, i).ports
<1>1. CASE i \notin present
  BY <1>1 DEF UseIfEther, SameAddresses
<1>2. CASE i \in present
  <2> DEFINE D == DOMAIN c.ports \cup {i}
             f(j) == IF j \in DOMAIN c.ports THEN c.ports[j] ELSE NewPort(c, i)
             d == [c EXCEPT !.at = <<"port", i>>, !.ports = [j \in D |-> f(j)]]
  <2>1. UseIfEther(c, i) = d
    BY <1>2 DEF UseIfEther
  <2>2. c \in Config /\ c.ports \in Ports
    BY DEF Sound, Config
  <2>3. D \in SUBSET Interfaces /\ \A j \in D : f(j) \in Port
    BY <2>2, PortsOf, NewPortIn
  <2> HIDE DEF D, f
  <2>a. [j \in D |-> f(j)] \in [D -> Port]
    BY <2>3
  <2>4. [j \in D |-> f(j)] \in Ports /\ <<"port", i>> \in Menu
    BY <2>3, <2>a DEF Ports, Menu
  <2>5. d \in Config /\ SameAddresses(c, d)
    BY <2>2, <2>4 DEF Config, SameAddresses
  <2>6. d.at = <<"port", i>> /\ d.vlans = c.vlans /\ DOMAIN d.ports = D
        /\ d.named = c.named /\ d.snooped = c.snooped
    BY <2>2 DEF Config
  <2> HIDE DEF d
  <2>7. AtRecord(d)
    <3>1. i \in D /\ (\A v \in Vlans : <<"port", i>> # <<"vlan", v>>)
          /\ (\A j \in Interfaces : <<"port", i>> = <<"port", j>> => i = j)
      BY DEF D
    <3>2. QED
      BY <2>6, <3>1 DEF AtRecord
  <2>8. Sound(d)
    BY <2>5, <2>6, <2>7 DEF Sound, SameAddresses
  <2>9. i \in D
    BY DEF D
  <2>10. QED
    BY <2>1, <2>5, <2>6, <2>8, <2>9
<1>3. QED
  BY <1>1, <1>2

\* An interface is removed from the main menu.
LEMMA RemoveSound ==
    ASSUME NEW c, Sound(c), c.at = <<"config">>, NEW i \in Interfaces
    PROVE  Sound(RemoveIfEther(c, i)) /\ SameAddresses(c, RemoveIfEther(c, i))
<1> DEFINE D == DOMAIN c.ports \ {i}
           d == [c EXCEPT !.ports = [j \in D |-> c.ports[j]]]
<1>1. RemoveIfEther(c, i) = d
  BY DEF RemoveIfEther
<1>2. c \in Config /\ c.ports \in Ports
  BY DEF Sound, Config
<1>3. [j \in D |-> c.ports[j]] \in Ports
  <2>1. D \in SUBSET Interfaces /\ \A j \in D : c.ports[j] \in Port
    BY <1>2, PortsOf
  <2>2. [j \in D |-> c.ports[j]] \in [D -> Port]
    BY <2>1
  <2> HIDE DEF D
  <2>3. QED
    BY <2>1, <2>2 DEF Ports
<1>4. d \in Config /\ SameAddresses(c, d)
  BY <1>2, <1>3 DEF Config, SameAddresses
<1>5. d.at = <<"config">> /\ d.vlans = c.vlans /\ d.named = c.named /\ d.snooped = c.snooped
  BY <1>2 DEF Config
<1> HIDE DEF d
<1>6. (\A w \in Vlans : <<"config">> # <<"vlan", w>>)
      /\ (\A j \in Interfaces : <<"config">> # <<"port", j>>)
  OBVIOUS
<1>7. Sound(d)
  BY <1>4, <1>5, <1>6 DEF Sound, SameAddresses, AtRecord
<1>8. QED
  BY <1>1, <1>4, <1>7

\* A description, and an interface up or down.
LEMMA LinkSound ==
    ASSUME NEW c, Sound(c), NEW i \in Interfaces, NEW down \in BOOLEAN
    PROVE  /\ Sound(CmdIfDesc(c, i)) /\ SameAddresses(c, CmdIfDesc(c, i))
           /\ Sound(CmdShutdown(c, i, down)) /\ SameAddresses(c, CmdShutdown(c, i, down))
<1>1. Sound(CmdIfDesc(c, i)) /\ SameAddresses(c, CmdIfDesc(c, i))
  BY DEF CmdIfDesc, Sound, Config, SameAddresses, AtRecord
<1>2. Sound(CmdShutdown(c, i, down)) /\ SameAddresses(c, CmdShutdown(c, i, down))
  BY DEF CmdShutdown, Sound, Config, SameAddresses, AtRecord
<1>3. QED
  BY <1>1, <1>2

\* A device that reaches a bridge is that of a recorded interface and VLAN.
LEMMA DeviceOf ==
    ASSUME NEW c \in Config, NEW i, NEW v, Device(c, i, v) # "none"
    PROVE  i \in DOMAIN c.ports /\ v \in c.vlans /\ <<i, v>> \in Address
<1>1. i \in DOMAIN c.ports /\ v \in c.vlans
  BY DEF Device
<1>2. DOMAIN c.ports \subseteq Interfaces /\ c.vlans \subseteq Vlans
  BY PortsOf DEF Config
<1>3. QED
  BY <1>1, <1>2 DEF Address

\* How an interface reaches a bridge follows from interfaces and VLANs only.
LEMMA SameDevice ==
    ASSUME NEW c, NEW d, c.ports = d.ports, c.vlans = d.vlans
    PROVE  \A i, v : Device(c, i, v) = Device(d, i, v)
BY DEF Device

\* A static address is entered for a device that reaches the bridge.
LEMMA MacSound ==
    ASSUME NEW c, Sound(c), Reached(c), NEW i \in Interfaces, NEW v \in Vlans
    PROVE  Sound(CmdMacStatic(c, i, v)) /\ Reached(CmdMacStatic(c, i, v))
<1> DEFINE w == IF c.ports[i].mode = "trunk" THEN v ELSE c.ports[i].access
           d == [c EXCEPT !.static = c.static \cup {<<i, w>>},
                          !.learned = c.learned \ {<<i, w>>}]
<1>1. CASE CmdMacStatic(c, i, v) = c
  BY <1>1
<1>2. CASE CmdMacStatic(c, i, v) # c
  <2>1. Device(c, i, w) # "none" /\ CmdMacStatic(c, i, v) = d
    BY <1>2 DEF CmdMacStatic
  <2>2. c \in Config
    BY DEF Sound
  <2>3. <<i, w>> \in Address
    <3> HIDE DEF w
    <3>1. QED
      BY <2>1, <2>2, DeviceOf
  <2> HIDE DEF w
  <2>4. d \in Config
    BY <2>2, <2>3 DEF Config
  <2>5. /\ d.static = c.static \cup {<<i, w>>} /\ d.learned = c.learned \ {<<i, w>>}
        /\ d.ports = c.ports /\ d.vlans = c.vlans /\ d.at = c.at
        /\ d.named = c.named /\ d.snooped = c.snooped
    BY <2>2 DEF Config
  <2> HIDE DEF d
  <2>6. d.static \cap d.learned = {}
    BY <2>5 DEF Sound
  <2>7. Sound(d)
    BY <2>4, <2>5, <2>6 DEF Sound, AtRecord
  <2>8. \A m \in d.static \cup d.learned : Device(c, m[1], m[2]) # "none"
    BY <2>1, <2>5 DEF Reached
  <2>9. Reached(d)
    BY <2>5, <2>8, SameDevice DEF Reached
  <2>10. QED
    BY <2>1, <2>7, <2>9
<1>3. QED
  BY <1>1, <1>2

-----------------------------------------------------------------------------
(* What is left of the addresses after a command.                          *)

\* A command of an operator or a line leaves a configuration whose addresses
\* are those of before or those of devices in the bridges.
Kept(old, c) == Sound(c) /\ (SameAddresses(old, c) \/ Reached(c))

\* The main menu is current again.
LEMMA MainMenu ==
    ASSUME NEW c, Sound(c)
    PROVE  /\ Sound([c EXCEPT !.at = <<"config">>]) /\ SameAddresses(c, [c EXCEPT !.at = <<"config">>])
           /\ Reached(c) => Reached([c EXCEPT !.at = <<"config">>])
           /\ [c EXCEPT !.at = <<"config">>].at = <<"config">>
<1> DEFINE d == [c EXCEPT !.at = <<"config">>]
<1>1. c \in Config /\ <<"config">> \in Menu
  BY DEF Sound, Menu
<1>2. d \in Config /\ SameAddresses(c, d)
  BY <1>1 DEF Config, SameAddresses
<1>3. d.at = <<"config">> /\ d.vlans = c.vlans /\ d.named = c.named /\ d.snooped = c.snooped
      /\ d.ports = c.ports
  BY <1>1 DEF Config
<1> HIDE DEF d
<1>4. (\A w \in Vlans : <<"config">> # <<"vlan", w>>)
      /\ (\A j \in Interfaces : <<"config">> # <<"port", j>>)
  OBVIOUS
<1>5. Sound(d)
  BY <1>2, <1>3, <1>4 DEF Sound, SameAddresses, AtRecord
<1>6. Reached(c) => Reached(d)
  BY <1>2, <1>3, SameDevice DEF Reached, SameAddresses
<1>7. QED
  BY <1>2, <1>3, <1>5, <1>6 DEF d

\* The addresses that the kernel keeps are those of devices that stay.
LEMMA FlushedSound ==
    ASSUME NEW old, Reached(old), NEW c, Kept(old, c)
    PROVE  Sound(Flushed(old, c)) /\ Reached(Flushed(old, c))
<1> DEFINE stay(ms) == {m \in ms : Device(old, m[1], m[2]) = Device(c, m[1], m[2])}
           d == [c EXCEPT !.static = c.static \ (old.static \ stay(old.static)),
                          !.learned = stay(c.learned)]
<1>1. Flushed(old, c) = d
  BY DEF Flushed
<1>2. c \in Config
  BY DEF Kept, Sound
<1>3. stay(c.learned) \subseteq c.learned
  OBVIOUS
<1>4. d \in Config
  BY <1>2, <1>3 DEF Config
<1>5. /\ d.static = c.static \ (old.static \ stay(old.static)) /\ d.learned = stay(c.learned)
      /\ d.ports = c.ports /\ d.vlans = c.vlans /\ d.at = c.at
      /\ d.named = c.named /\ d.snooped = c.snooped
  BY <1>2 DEF Config
<1> HIDE DEF d
<1>6. d.static \cap d.learned = {}
  BY <1>3, <1>5 DEF Kept, Sound
<1>7. Sound(d)
  BY <1>4, <1>5, <1>6 DEF Kept, Sound, AtRecord
<1>8. \A m \in d.static \cup d.learned : Device(c, m[1], m[2]) # "none"
  <2> SUFFICES ASSUME NEW m \in d.static \cup d.learned PROVE Device(c, m[1], m[2]) # "none"
    OBVIOUS
  <2>1. CASE Reached(c)
    BY <1>3, <1>5, <2>1 DEF Reached
  <2>2. CASE SameAddresses(old, c)
    BY <1>5, <2>2 DEF Reached, SameAddresses
  <2>3. QED
    BY <2>1, <2>2 DEF Kept
<1>9. Reached(d)
  BY <1>5, <1>8, SameDevice DEF Reached
<1>10. QED
  BY <1>1, <1>7, <1>9

-----------------------------------------------------------------------------
(* The lines of a saved configuration.                                     *)

\* The lines of a command with its arguments.
Lines(cmd, args) == {Line(cmd, arg) : arg \in args}

\* The lines of each part of a file.
VlanLine == Lines("vlan", Vlans) \cup Lines("name", {TRUE})
PortSubLine ==
    Lines("description", {TRUE}) \cup Lines("access", Vlans)
    \cup Lines("allowed", [how : {"set", "add"}, list : Seq(Vlans \X Vlans)])
    \cup Lines("mode", {"access", "trunk"}) \cup Lines("no cdp enable", {TRUE})
PortLine == Lines("interface", Interfaces) \cup PortSubLine
IgmpLine == Lines("no igmp", Vlans \cup {0})
MacLine == Lines("mac static", Address)
GlobalLine ==
    Lines("enable secret 5", {TRUE}) \cup Lines("no cdp run", {TRUE})
    \cup Lines("cdp timer", {"other"}) \cup Lines("aging-time", {"unset", "other"})

AnyLine == VlanLine \cup PortLine \cup IgmpLine \cup MacLine \cup GlobalLine

\* A line has its command and its argument.
LEMMA LineFields == \A cmd, arg : Line(cmd, arg).cmd = cmd /\ Line(cmd, arg).arg = arg
BY DEF Line

\* A line of a command.
LEMMA LineIn ==
    ASSUME NEW cmd, NEW args, NEW line \in Lines(cmd, args)
    PROVE  line.cmd = cmd /\ line.arg \in args /\ line = Line(cmd, line.arg)
<1>1. PICK arg \in args : line = Line(cmd, arg)
  BY DEF Lines
<1>2. QED
  BY <1>1, LineFields, Zenon

\* Its command.
LEMMA LineCmd == \A cmd, args : \A line \in Lines(cmd, args) : line.cmd = cmd
BY LineFields, Zenon DEF Lines

\* The commands of the menus ...
LEMMA SubLineCmd ==
    /\ \A line \in PortSubLine :
          line.cmd \in {"description", "access", "allowed", "mode", "no cdp enable"}
    /\ \A line \in Lines("name", {TRUE}) : line.cmd = "name"
BY LineCmd DEF PortSubLine

\* ... and those of the main menu.
LEMMA MainLineCmd ==
    \A line \in Lines("vlan", Vlans) \cup Lines("interface", Interfaces) \cup IgmpLine
                \cup MacLine \cup GlobalLine :
       line.cmd \in {"vlan", "interface", "no igmp", "mac static", "enable secret 5",
                     "no cdp run", "cdp timer", "aging-time"}
BY LineCmd DEF IgmpLine, MacLine, GlobalLine

\* Each kind of line does what its command does.
LEMMA LoadedAs ==
    ASSUME NEW c, NEW v
    PROVE  /\ LoadedLine(c, Line("vlan", v)) = CmdVlan([c EXCEPT !.at = <<"config">>], v)
           /\ LoadedLine(c, Line("interface", v)) = UseIfEther([c EXCEPT !.at = <<"config">>], v)
           /\ LoadedLine(c, Line("no igmp", 0)) = SetGlobalIgmp([c EXCEPT !.at = <<"config">>], FALSE)
           /\ v # 0 => LoadedLine(c, Line("no igmp", v))
                          = CmdIpIgmpSnooping([c EXCEPT !.at = <<"config">>], v, FALSE)
           /\ LoadedLine(c, Line("mac static", v))
                = CmdMacStatic([c EXCEPT !.at = <<"config">>], v[1], v[2])
           /\ LoadedLine(c, Line("aging-time", v)) = CmdSetAging([c EXCEPT !.at = <<"config">>], v)
           /\ LoadedLine(c, Line("no cdp run", v)) = CmdCdpRun([c EXCEPT !.at = <<"config">>], FALSE)
           /\ LoadedLine(c, Line("cdp timer", v)) = CmdCdpTimer([c EXCEPT !.at = <<"config">>], v)
           /\ LoadedLine(c, Line("enable secret 5", v)) = [c EXCEPT !.at = <<"config">>]
           /\ \A cmd \in SubCommands : LoadedLine(c, Line(cmd, v)) = SubCommand(c, cmd, v)
<1> DEFINE d == [c EXCEPT !.at = <<"config">>]
<1>1. \A cmd : Line(cmd, v).cmd = cmd /\ Line(cmd, v).arg = v
  BY DEF Line
<1>2. Line("no igmp", 0).cmd = "no igmp" /\ Line("no igmp", 0).arg = 0
  BY DEF Line
<1>3. {"vlan", "interface", "no igmp", "mac static", "aging-time", "no cdp run", "cdp timer",
       "enable secret 5"} \cap SubCommands = {}
  BY DEF SubCommands
<1> HIDE DEF d
<1>4. /\ MainCommand(d, "vlan", v) = CmdVlan(d, v)
      /\ MainCommand(d, "interface", v) = UseIfEther(d, v)
      /\ MainCommand(d, "no igmp", 0) = SetGlobalIgmp(d, FALSE)
      /\ v # 0 => MainCommand(d, "no igmp", v) = CmdIpIgmpSnooping(d, v, FALSE)
  BY Zenon DEF MainCommand
<1>5. /\ MainCommand(d, "mac static", v) = CmdMacStatic(d, v[1], v[2])
      /\ MainCommand(d, "aging-time", v) = CmdSetAging(d, v)
      /\ MainCommand(d, "no cdp run", v) = CmdCdpRun(d, FALSE)
  BY Zenon DEF MainCommand
<1>6. /\ MainCommand(d, "cdp timer", v) = CmdCdpTimer(d, v)
      /\ MainCommand(d, "enable secret 5", v) = d
  BY Zenon DEF MainCommand, CmdSetEnPwEncrypted
<1>7. \A cmd \in SubCommands : LoadedLine(c, Line(cmd, v)) = SubCommand(c, cmd, v)
  BY <1>1 DEF LoadedLine
<1>8. \A cmd : cmd \notin SubCommands => LoadedLine(c, Line(cmd, v)) = MainCommand(d, cmd, v)
  BY <1>1 DEF LoadedLine, d
<1>9. LoadedLine(c, Line("no igmp", 0)) = MainCommand(d, "no igmp", 0)
  BY <1>2, <1>3 DEF LoadedLine, d
<1>10. QED
  BY <1>3, <1>4, <1>5, <1>6, <1>7, <1>8, <1>9 DEF d

\* A line of a menu is nothing to the main menu.
LEMMA SubOfMain ==
    ASSUME NEW c, c.at = <<"config">>, NEW cmd, NEW arg
    PROVE  SubCommand(c, cmd, arg) = c
<1>1. c.at[1] = "config"
  OBVIOUS
<1>2. c.at[1] # "port" /\ c.at[1] # "vlan"
  BY <1>1
<1>3. QED
  BY <1>2, Zenon DEF SubCommand

\* The menu of a VLAN has one line.
LEMMA SubOfVlan ==
    ASSUME NEW c, NEW v \in Vlans, c.at = <<"vlan", v>>, NEW cmd, NEW arg
    PROVE  SubCommand(c, cmd, arg) = IF cmd = "name" THEN CmdNameVlan(c, TRUE) ELSE c
<1>1. c.at[1] = "vlan"
  OBVIOUS
<1>2. c.at[1] # "port"
  BY <1>1
<1>3. QED
  BY <1>1, <1>2, Zenon DEF SubCommand

\* The menu of an interface has a description ...
LEMMA SubDescription ==
    ASSUME NEW c, NEW i \in Interfaces, c.at = <<"port", i>>, NEW arg
    PROVE  SubCommand(c, "description", arg) = CmdIfDesc(c, i)
<1>1. c.at[1] = "port" /\ c.at[2] = i
  OBVIOUS
<1>2. SubCommand(c, "description", arg) = CmdIfDesc(c, c.at[2])
  BY <1>1, Zenon DEF SubCommand
<1>3. QED
  BY <1>1, <1>2

\* ... and what changes the record of the interface.
LEMMA SubOfPort ==
    ASSUME NEW c, NEW i \in Interfaces, c.at = <<"port", i>>,
           NEW cmd, cmd # "description", NEW arg
    PROVE  SubCommand(c, cmd, arg) =
              [c EXCEPT !.ports[i] = PortCommand(c.ports[i], cmd, arg, c, i)]
<1>1. c.at[1] = "port" /\ c.at[2] = i
  OBVIOUS
<1>2. SubCommand(c, cmd, arg) = [c EXCEPT !.ports[c.at[2]] = PortCommand(@, cmd, arg, c, c.at[2])]
  BY <1>1, Zenon DEF SubCommand
<1>3. QED
  BY <1>1, <1>2, Zenon

\* What each line of an interface does to its record.
LEMMA PortAccess ==
    \A p, arg, c, i : PortCommand(p, "access", arg, c, i) = CmdAccVlan(p, arg)
BY Zenon DEF PortCommand

\* The mode ...
LEMMA PortMode ==
    \A p, arg, c, i : PortCommand(p, "mode", arg, c, i) = CmdSetMode(p, arg, c)
BY Zenon DEF PortCommand

\* ... CDP ...
LEMMA PortCdp ==
    \A p, arg, c, i : PortCommand(p, "no cdp enable", arg, c, i) = CmdCdpIfSet(p, FALSE, c, i)
BY Zenon DEF PortCommand

\* ... what is not for an interface ...
LEMMA PortName ==
    \A p, arg, c, i : PortCommand(p, "name", arg, c, i) = p
BY Zenon DEF PortCommand

\* ... and the VLANs, unless there are none.
LEMMA PortAllowed ==
    ASSUME NEW p, NEW arg, NEW c, NEW i
    PROVE  PortCommand(p, "allowed", arg, c, i) =
              IF arg.list = << >> THEN p
              ELSE CmdTrunkVlan(p, arg.how, ParseVlanList(arg.list))
<1>1. CASE arg.list = << >>
  <2>1. PortCommand(p, "allowed", arg, c, i) = p
    BY <1>1, Zenon DEF PortCommand
  <2>2. QED
    BY <1>1, <2>1, Zenon
<1>2. CASE arg.list # << >>
  <2>1. PortCommand(p, "allowed", arg, c, i) = CmdTrunkVlan(p, arg.how, ParseVlanList(arg.list))
    BY <1>2, Zenon DEF PortCommand
  <2>2. QED
    BY <1>2, <2>1, Zenon
<1>3. QED
  BY <1>1, <1>2, Zenon

\* A list of VLANs is read as VLANs.
LEMMA ParsedVlans ==
    ASSUME NEW S \in SUBSET Vlans, NEW ts \in Seq(TokenOf(S))
    PROVE  ParseVlanList(ts) \subseteq S
<1>1. \A k \in Parsed(ts) : ts[k] \in TokenOf(S)
  BY DEF Parsed
<1>2. \A k \in Parsed(ts) : ts[k][1] .. ts[k][2] \subseteq S
  BY <1>1 DEF TokenOf
<1>3. QED
  BY <1>2 DEF ParseVlanList

\* A range of VLANs has VLANs only.
LEMMA RangesAreVlans ==
    ASSUME NEW ts \in Seq(Vlans \X Vlans)
    PROVE  ts \in Seq(TokenOf(Vlans))
<1>1. ASSUME NEW t \in Vlans \X Vlans PROVE t \in TokenOf(Vlans)
  <2>1. t[1] .. t[2] \subseteq Vlans
    BY SavedConfigAssumption DEF SavedConfigAssumption, Vlans
  <2>2. QED
    BY <2>1 DEF TokenOf
<1>2. QED
  BY <1>1

\* A line of the main menu leaves a sound configuration.
LEMMA MainKept ==
    ASSUME NEW c, Sound(c), Reached(c)
    PROVE  \A line \in AnyLine : line.cmd \notin SubCommands => Kept(c, LoadedLine(c, line))
<1> DEFINE d == [c EXCEPT !.at = <<"config">>]
<1>1. Sound(d) /\ Reached(d) /\ SameAddresses(c, d) /\ d.at = <<"config">>
  BY MainMenu
<1>2. \A v : /\ LoadedLine(c, Line("vlan", v)) = CmdVlan(d, v)
             /\ LoadedLine(c, Line("interface", v)) = UseIfEther(d, v)
             /\ LoadedLine(c, Line("no igmp", 0)) = SetGlobalIgmp(d, FALSE)
             /\ v # 0 => LoadedLine(c, Line("no igmp", v)) = CmdIpIgmpSnooping(d, v, FALSE)
             /\ LoadedLine(c, Line("mac static", v)) = CmdMacStatic(d, v[1], v[2])
             /\ LoadedLine(c, Line("aging-time", v)) = CmdSetAging(d, v)
             /\ LoadedLine(c, Line("no cdp run", v)) = CmdCdpRun(d, FALSE)
             /\ LoadedLine(c, Line("cdp timer", v)) = CmdCdpTimer(d, v)
             /\ LoadedLine(c, Line("enable secret 5", v)) = d
  BY LoadedAs
<1> HIDE DEF d
<1>a. \A x : Sound(x) /\ SameAddresses(d, x) => Kept(c, x)
  BY <1>1 DEF Kept, SameAddresses
<1>3. ASSUME NEW v \in Vlans PROVE Kept(c, LoadedLine(c, Line("vlan", v)))
  BY <1>1, <1>2, <1>a, VlanSound
<1>4. ASSUME NEW i \in Interfaces PROVE Kept(c, LoadedLine(c, Line("interface", i)))
  BY <1>1, <1>2, <1>a, UseSound
<1>5. ASSUME NEW v \in Vlans \cup {0} PROVE Kept(c, LoadedLine(c, Line("no igmp", v)))
  <2>1. CASE v = 0
    <3>1. Sound(SetGlobalIgmp(d, FALSE)) /\ SameAddresses(d, SetGlobalIgmp(d, FALSE))
      BY <1>1, IgmpSound
    <3>2. QED
      BY <1>2, <1>a, <2>1, <3>1
  <2>2. CASE v # 0
    <3>1. /\ Sound(CmdIpIgmpSnooping(d, v, FALSE))
          /\ SameAddresses(d, CmdIpIgmpSnooping(d, v, FALSE))
      BY <1>1, <2>2, IgmpSound
    <3>2. QED
      BY <1>2, <1>a, <2>2, <3>1
  <2>3. QED
    BY <2>1, <2>2
<1>6. ASSUME NEW m \in Address PROVE Kept(c, LoadedLine(c, Line("mac static", m)))
  <2>1. m[1] \in Interfaces /\ m[2] \in Vlans
    BY DEF Address
  <2>2. Sound(CmdMacStatic(d, m[1], m[2])) /\ Reached(CmdMacStatic(d, m[1], m[2]))
    BY <1>1, <2>1, MacSound
  <2>3. QED
    BY <1>2, <2>2 DEF Kept
<1>7. ASSUME NEW t \in {"unset", "other"} PROVE Kept(c, LoadedLine(c, Line("aging-time", t)))
  BY <1>1, <1>2, <1>a, AgingSound
<1>8. /\ Kept(c, LoadedLine(c, Line("no cdp run", TRUE)))
      /\ Kept(c, LoadedLine(c, Line("cdp timer", "other")))
  <2>1. /\ Sound(CmdCdpRun(d, FALSE)) /\ SameAddresses(d, CmdCdpRun(d, FALSE))
        /\ Sound(CmdCdpTimer(d, "other")) /\ SameAddresses(d, CmdCdpTimer(d, "other"))
    BY <1>1, GlobalSound
  <2>2. QED
    BY <1>2, <1>a, <2>1
<1>9. Kept(c, LoadedLine(c, Line("enable secret 5", TRUE)))
  BY <1>1, <1>2 DEF Kept
<1>10. \A line \in AnyLine : line.cmd \notin SubCommands =>
         line \in Lines("vlan", Vlans) \cup Lines("interface", Interfaces) \cup IgmpLine
                 \cup MacLine \cup GlobalLine
  BY SubLineCmd DEF AnyLine, VlanLine, PortLine, SubCommands
<1>11. ASSUME NEW line \in AnyLine, line.cmd \notin SubCommands
       PROVE  Kept(c, LoadedLine(c, line))
  <2>1. CASE line \in Lines("vlan", Vlans)
    BY <1>3, <2>1, LineIn
  <2>2. CASE line \in Lines("interface", Interfaces)
    BY <1>4, <2>2, LineIn
  <2>3. CASE line \in IgmpLine
    BY <1>5, <2>3, LineIn DEF IgmpLine
  <2>4. CASE line \in MacLine
    BY <1>6, <2>4, Zenon DEF MacLine, Lines
  <2>5. CASE line \in GlobalLine
    <3>1. \/ line = Line("enable secret 5", TRUE) \/ line = Line("no cdp run", TRUE)
          \/ line = Line("cdp timer", "other")
          \/ \E t \in {"unset", "other"} : line = Line("aging-time", t)
      BY <2>5 DEF GlobalLine, Lines
    <3>2. QED
      BY <1>7, <1>8, <1>9, <3>1
  <2>6. QED
    BY <1>10, <1>11, <2>1, <2>2, <2>3, <2>4, <2>5
<1>12. QED
  BY <1>11

\* A line of a menu leaves one, if its command gives the record of an interface.
LEMMA SubKept ==
    ASSUME NEW c, Sound(c), NEW cmd \in SubCommands, NEW arg,
           \A p \in Port, i \in Interfaces :
              cmd # "description" => PortCommand(p, cmd, arg, c, i) \in Port
    PROVE  Kept(c, LoadedLine(c, Line(cmd, arg)))
<1> DEFINE new(i) == [c EXCEPT !.ports[i] = PortCommand(c.ports[i], cmd, arg, c, i)]
<1>1. LoadedLine(c, Line(cmd, arg)) = SubCommand(c, cmd, arg) /\ c \in Config /\ c.at \in Menu
  BY LoadedAs DEF Sound, Config
<1>2. \A x : Sound(x) /\ SameAddresses(c, x) => Kept(c, x)
  BY DEF Kept
<1>3. Kept(c, c)
  BY DEF Kept, SameAddresses
<1>5. CASE c.at = <<"config">>
  BY <1>1, <1>3, <1>5, SubOfMain, Zenon
<1>6. ASSUME NEW v \in Vlans, c.at = <<"vlan", v>> PROVE Kept(c, SubCommand(c, cmd, arg))
  <2>1. Sound(CmdNameVlan(c, TRUE)) /\ SameAddresses(c, CmdNameVlan(c, TRUE))
    BY NameVlanSound
  <2>2. SubCommand(c, cmd, arg) = IF cmd = "name" THEN CmdNameVlan(c, TRUE) ELSE c
    BY <1>6, SubOfVlan, Zenon
  <2>3. QED
    BY <1>2, <1>3, <2>1, <2>2
<1>7. ASSUME NEW i \in Interfaces, c.at = <<"port", i>> PROVE Kept(c, SubCommand(c, cmd, arg))
  <2>1. i \in DOMAIN c.ports /\ c.ports[i] \in Port
    BY <1>1, <1>7, PortsOf DEF Sound, AtRecord, Config
  <2>2. CASE cmd = "description"
    <3>1. Sound(CmdIfDesc(c, i)) /\ SameAddresses(c, CmdIfDesc(c, i))
      BY LinkSound
    <3>2. SubCommand(c, cmd, arg) = CmdIfDesc(c, i)
      BY <1>7, <2>2, SubDescription, Zenon
    <3>3. QED
      BY <1>2, <3>1, <3>2
  <2>3. CASE cmd # "description"
    <3>1. PortCommand(c.ports[i], cmd, arg, c, i) \in Port
      BY <2>1, <2>3
    <3>2. Sound(new(i)) /\ SameAddresses(c, new(i))
      BY <2>1, <3>1, PortSound
    <3>3. SubCommand(c, cmd, arg) = new(i)
      BY <1>7, <2>3, SubOfPort, Zenon
    <3> HIDE DEF new
    <3>4. QED
      BY <1>2, <3>2, <3>3
  <2>4. QED
    BY <2>2, <2>3
<1>8. QED
  BY <1>1, <1>5, <1>6, <1>7 DEF Menu

\* A line leaves a sound configuration.
LEMMA LoadedKept ==
    ASSUME NEW c, Sound(c), Reached(c), NEW line \in AnyLine
    PROVE  Kept(c, LoadedLine(c, line))
<1>1. Kept(c, LoadedLine(c, Line("name", TRUE)))
  <2>1. \A p \in Port, i \in Interfaces : PortCommand(p, "name", TRUE, c, i) \in Port
    BY PortName
  <2>2. QED
    BY <2>1, SubKept, Zenon DEF SubCommands
<1>2. Kept(c, LoadedLine(c, Line("description", TRUE)))
  <2>1. "description" \in SubCommands
    BY DEF SubCommands
  <2>2. QED
    BY <2>1, SubKept, Zenon
<1>3. ASSUME NEW v \in Vlans PROVE Kept(c, LoadedLine(c, Line("access", v)))
  <2>1. \A p \in Port, i \in Interfaces : PortCommand(p, "access", v, c, i) \in Port
    <3>1. SUFFICES ASSUME NEW p \in Port, NEW i \in Interfaces
                   PROVE  PortCommand(p, "access", v, c, i) \in Port
      OBVIOUS
    <3>2. PortCommand(p, "access", v, c, i) = CmdAccVlan(p, v)
      BY PortAccess, Zenon
    <3>3. QED
      BY <3>2, PortCommandsIn
  <2>2. QED
    BY <2>1, SubKept, Zenon DEF SubCommands
<1>4. ASSUME NEW a \in [how : {"set", "add"}, list : Seq(Vlans \X Vlans)]
      PROVE  Kept(c, LoadedLine(c, Line("allowed", a)))
  <2>1. ParseVlanList(a.list) \subseteq Vlans /\ a.how \in {"set", "add", "remove", "except"}
    BY RangesAreVlans, ParsedVlans
  <2>2. \A p \in Port, i \in Interfaces : PortCommand(p, "allowed", a, c, i) \in Port
    <3>1. SUFFICES ASSUME NEW p \in Port, NEW i \in Interfaces
                   PROVE  PortCommand(p, "allowed", a, c, i) \in Port
      OBVIOUS
    <3>2. PortCommand(p, "allowed", a, c, i)
            = IF a.list = << >> THEN p ELSE CmdTrunkVlan(p, a.how, ParseVlanList(a.list))
      BY PortAllowed, Zenon
    <3>3. CmdTrunkVlan(p, a.how, ParseVlanList(a.list)) \in Port
      BY <2>1, PortCommandsIn
    <3>4. QED
      BY <3>2, <3>3
  <2>3. QED
    BY <2>2, SubKept, Zenon DEF SubCommands
<1>5. ASSUME NEW mode \in {"access", "trunk"} PROVE Kept(c, LoadedLine(c, Line("mode", mode)))
  <2>1. \A p \in Port, i \in Interfaces : PortCommand(p, "mode", mode, c, i) \in Port
    <3>1. SUFFICES ASSUME NEW p \in Port, NEW i \in Interfaces
                   PROVE  PortCommand(p, "mode", mode, c, i) \in Port
      OBVIOUS
    <3>2. PortCommand(p, "mode", mode, c, i) = CmdSetMode(p, mode, c)
      BY PortMode, Zenon
    <3>3. QED
      BY <3>2, PortCommandsIn
  <2>2. QED
    BY <2>1, SubKept, Zenon DEF SubCommands
<1>6. Kept(c, LoadedLine(c, Line("no cdp enable", TRUE)))
  <2>1. \A p \in Port, i \in Interfaces : PortCommand(p, "no cdp enable", TRUE, c, i) \in Port
    <3>1. SUFFICES ASSUME NEW p \in Port, NEW i \in Interfaces
                   PROVE  PortCommand(p, "no cdp enable", TRUE, c, i) \in Port
      OBVIOUS
    <3>2. PortCommand(p, "no cdp enable", TRUE, c, i) = CmdCdpIfSet(p, FALSE, c, i)
      BY PortCdp, Zenon
    <3>3. QED
      BY <3>2, PortCommandsIn
  <2>2. QED
    BY <2>1, SubKept, Zenon DEF SubCommands
<1>7. CASE line.cmd \notin SubCommands
  BY <1>7, MainKept
<1>8. CASE line.cmd \in SubCommands
  <2>1. line \in PortSubLine \/ line = Line("name", TRUE)
    <3>1. line \notin Lines("vlan", Vlans) \cup Lines("interface", Interfaces) \cup IgmpLine
                     \cup MacLine \cup GlobalLine
      BY <1>8, MainLineCmd DEF SubCommands
    <3>2. line \in PortSubLine \cup Lines("name", {TRUE})
      BY <3>1 DEF AnyLine, VlanLine, PortLine
    <3>3. QED
      BY <3>2 DEF Lines
  <2>2. CASE line \in Lines("description", {TRUE})
    BY <1>2, <2>2 DEF Lines
  <2>3. CASE line \in Lines("access", Vlans)
    BY <1>3, <2>3 DEF Lines
  <2>4. CASE line \in Lines("allowed", [how : {"set", "add"}, list : Seq(Vlans \X Vlans)])
    BY <1>4, <2>4, Zenon DEF Lines
  <2>5. CASE line \in Lines("mode", {"access", "trunk"})
    BY <1>5, <2>5 DEF Lines
  <2>6. CASE line \in Lines("no cdp enable", {TRUE})
    BY <1>6, <2>6 DEF Lines
  <2>7. QED
    BY <1>1, <2>1, <2>2, <2>3, <2>4, <2>5, <2>6 DEF PortSubLine
<1>9. QED
  BY <1>7, <1>8

-----------------------------------------------------------------------------
(* What "write memory" writes.                                             *)

\* A line that is written under a condition.
LEMMA LineIfIn ==
    ASSUME NEW condition, NEW cmd, NEW arg
    PROVE  LineIf(condition, cmd, arg) \in Seq(Lines(cmd, {arg}))
<1>1. Line(cmd, arg) \in Lines(cmd, {arg})
  BY DEF Lines
<1>2. <<Line(cmd, arg)>> \in Seq(Lines(cmd, {arg})) /\ << >> \in Seq(Lines(cmd, {arg}))
  BY <1>1
<1>3. LineIf(condition, cmd, arg) \in {<<Line(cmd, arg)>>, << >>}
  BY DEF LineIf
<1>4. QED
  BY <1>2, <1>3

\* One line.
LEMMA OneLine == ASSUME NEW L, NEW x \in L PROVE <<x>> \in Seq(L)
OBVIOUS

\* Where the lines of two sequences are in the two together.
LEMMA Together ==
    ASSUME NEW L, NEW s \in Seq(L), NEW t \in Seq(L)
    PROVE  /\ s \o t \in Seq(L) /\ Len(s \o t) = Len(s) + Len(t)
           /\ \A j \in 1 .. Len(s) : (s \o t)[j] = s[j]
           /\ \A j \in 1 .. Len(t) : (s \o t)[Len(s) + j] = t[j]
OBVIOUS

\* A sequence of lines of one kind is one of lines of more kinds.
LEMMA SeqWiden == ASSUME NEW L, NEW M, L \subseteq M, NEW s \in Seq(L) PROVE s \in Seq(M)
OBVIOUS

\* The sets of a configuration are finite.
LEMMA ConfigFinite ==
    ASSUME NEW c \in Config
    PROVE  /\ IsFiniteSet(c.vlans) /\ c.vlans \subseteq Vlans /\ Vlans \subseteq Nat
           /\ IsFiniteSet(DOMAIN c.ports) /\ DOMAIN c.ports \subseteq Interfaces
           /\ IsFiniteSet(c.static \cup c.learned) /\ c.static \cup c.learned \subseteq Address
           /\ \A S : S \subseteq c.vlans => IsFiniteSet(S) /\ S \subseteq Nat
<1>1. IsFiniteSet(Vlans) /\ Vlans \subseteq Nat /\ IsFiniteSet(Interfaces)
  BY SavedConfigAssumption, FS_Interval DEF SavedConfigAssumption, Vlans
<1>2. IsFiniteSet(Address)
  BY <1>1, FS_Product DEF Address
<1>3. c.vlans \subseteq Vlans /\ DOMAIN c.ports \subseteq Interfaces
      /\ c.static \cup c.learned \subseteq Address
  BY PortsOf DEF Config
<1>4. /\ IsFiniteSet(c.vlans) /\ IsFiniteSet(DOMAIN c.ports)
      /\ IsFiniteSet(c.static \cup c.learned)
  BY <1>1, <1>2, <1>3, FS_Subset
<1>5. ASSUME NEW S, S \subseteq c.vlans PROVE IsFiniteSet(S) /\ S \subseteq Nat
  BY <1>1, <1>3, <1>4, <1>5, FS_Subset
<1>6. QED
  BY <1>1, <1>3, <1>4, <1>5

\* The lines of the static addresses.
LEMMA MacLinesIn == ASSUME NEW c \in Config PROVE MacLines(c) \in Seq(MacLine)
<1> DEFINE S == c.static \cup c.learned
           members == SetToSeq(S)
           N == Cardinality(S)
           ss == [k \in 1 .. N |-> <<Line("mac static", members[k])>>]
<1>1. Enumerates(members, S) /\ S \subseteq Address
  BY ConfigFinite, SetEnumerated
<1>2. N \in Nat /\ members \in [1 .. N -> S] /\ DOMAIN members = 1 .. N
  BY <1>1 DEF Enumerates
<1>3. MacLines(c) = FlattenSeq(ss)
  BY <1>2 DEF MacLines, ForEach
<1>4. \A k \in 1 .. N : <<Line("mac static", members[k])>> \in Seq(MacLine)
  <2> SUFFICES ASSUME NEW k \in 1 .. N PROVE <<Line("mac static", members[k])>> \in Seq(MacLine)
    OBVIOUS
  <2>1. members[k] \in Address
    BY <1>1, <1>2
  <2> HIDE DEF members, N
  <2>2. Line("mac static", members[k]) \in MacLine
    BY <2>1, Zenon DEF MacLine, Lines
  <2>3. QED
    BY <2>2, OneLine, Zenon
<1>5. ss \in [1 .. N -> Seq(MacLine)]
  BY <1>4, Zenon
<1> HIDE DEF ss, N
<1>6. QED
  BY <1>2, <1>3, <1>5, Flattened

\* The lines of IGMP snooping.
LEMMA IgmpLinesIn == ASSUME NEW c \in Config PROVE IgmpLines(c) \in Seq(IgmpLine)
<1> DEFINE S == c.vlans \ c.snooped
           members == Ascending(S)
           N == Cardinality(S)
           ss == [k \in 1 .. N |-> <<Line("no igmp", members[k])>>]
<1>1. CASE ~c.snooping
  <2>1. IgmpLines(c) = <<Line("no igmp", 0)>>
    BY <1>1 DEF IgmpLines
  <2>2. 0 \in Vlans \cup {0}
    OBVIOUS
  <2>3. Line("no igmp", 0) \in IgmpLine
    BY <2>2, Zenon DEF IgmpLine, Lines
  <2>4. QED
    BY <2>1, <2>3, OneLine, Zenon
<1>2. CASE c.snooping
  <2>1. Enumerates(members, S) /\ S \subseteq Vlans
    BY ConfigFinite, AscendingEnumerates
  <2>2. N \in Nat /\ members \in [1 .. N -> S] /\ DOMAIN members = 1 .. N
    BY <2>1 DEF Enumerates
  <2>3. IgmpLines(c) = FlattenSeq(ss)
    BY <1>2, <2>2 DEF IgmpLines, ForEach
  <2>4. \A k \in 1 .. N : <<Line("no igmp", members[k])>> \in Seq(IgmpLine)
    <3> SUFFICES ASSUME NEW k \in 1 .. N
                 PROVE  <<Line("no igmp", members[k])>> \in Seq(IgmpLine)
      OBVIOUS
    <3>1. members[k] \in Vlans \cup {0}
      BY <2>1, <2>2
    <3> HIDE DEF members, N
    <3>2. Line("no igmp", members[k]) \in IgmpLine
      BY <3>1, Zenon DEF IgmpLine, Lines
    <3>3. QED
      BY <3>2, OneLine, Zenon
  <2>5. ss \in [1 .. N -> Seq(IgmpLine)]
    BY <2>4, Zenon
  <2> HIDE DEF ss, N
  <2>6. QED
    BY <2>2, <2>3, <2>5, Flattened
<1>3. QED
  BY <1>1, <1>2

-----------------------------------------------------------------------------
(* The sections of VLANs.                                                  *)

\* The VLANs that are saved, and their lines.
SavedSet(c) == c.vlans \ (DefaultVlans \cup {MaxVlan})
VlanPart(c) == ForEach(SavedVlans(c), LAMBDA v : VlanSection(c, v))

\* The line of a name.
NameLine == Line("name", TRUE)

\* Lines s are those of VLAN v.
VlanLinesOf(c, v, s) ==
    /\ s \in Seq(VlanLine) /\ s[1] = Line("vlan", v)
    /\ v \in c.named => Len(s) = 2 /\ s[2] = NameLine
    /\ v \notin c.named => Len(s) = 1

\* The section of a VLAN is its line, and one for its name.
LEMMA VlanSectionIs ==
    ASSUME NEW c, NEW v \in Vlans
    PROVE  VlanLinesOf(c, v, VlanSection(c, v))
<1> DEFINE s == <<Line("vlan", v)>>
           t == LineIf(v \in c.named, "name", TRUE)
<1>1. Line("vlan", v) \in VlanLine /\ NameLine \in VlanLine
  <2>1. Line("vlan", v) \in Lines("vlan", Vlans) /\ NameLine \in Lines("name", {TRUE})
    BY Zenon DEF Lines, NameLine
  <2>2. QED
    BY <2>1 DEF VlanLine
<1>2. s \in Seq(VlanLine) /\ Len(s) = 1 /\ s[1] = Line("vlan", v)
  <2>1. s \in Seq(VlanLine)
    BY <1>1, OneLine, Zenon
  <2>2. Len(s) = 1 /\ s[1] = Line("vlan", v)
    OBVIOUS
  <2>3. QED
    BY <2>1, <2>2
<1>3. CASE v \in c.named
  <2>1. t = <<NameLine>>
    BY <1>3 DEF LineIf, NameLine
  <2> HIDE DEF t
  <2>2. t \in Seq(VlanLine) /\ Len(t) = 1 /\ t[1] = NameLine
    <3>1. t \in Seq(VlanLine)
      BY <1>1, <2>1, OneLine, Zenon
    <3>2. Len(t) = 1 /\ t[1] = NameLine
      BY <2>1
    <3>3. QED
      BY <3>1, <3>2
  <2>3. VlanSection(c, v) = s \o t
    BY DEF VlanSection, t
  <2> HIDE DEF s, t
  <2>4. s \o t \in Seq(VlanLine) /\ Len(s \o t) = 2
        /\ (s \o t)[1] = s[1] /\ (s \o t)[2] = t[1]
    <3>1. /\ s \o t \in Seq(VlanLine) /\ Len(s \o t) = Len(s) + Len(t)
          /\ \A j \in 1 .. Len(s) : (s \o t)[j] = s[j]
          /\ \A j \in 1 .. Len(t) : (s \o t)[Len(s) + j] = t[j]
      <4>1. s \in Seq(VlanLine) /\ t \in Seq(VlanLine)
        BY <1>2, <2>2
      <4>2. \A p, q \in Seq(VlanLine) :
               /\ p \o q \in Seq(VlanLine) /\ Len(p \o q) = Len(p) + Len(q)
               /\ \A j \in 1 .. Len(p) : (p \o q)[j] = p[j]
               /\ \A j \in 1 .. Len(q) : (p \o q)[Len(p) + j] = q[j]
        BY Together
      <4>3. QED
        BY <4>1, <4>2, Zenon
    <3> DEFINE u == s \o t
    <3> HIDE DEF u
    <3>2. u \in Seq(VlanLine) /\ Len(u) = 2 /\ u[1] = s[1] /\ u[2] = t[1]
      BY <1>2, <2>2, <3>1 DEF u
    <3>3. QED
      BY <3>2 DEF u
  <2>5. QED
    BY <1>2, <1>3, <2>2, <2>3, <2>4 DEF VlanLinesOf
<1>4. CASE v \notin c.named
  <2>1. t = << >>
    BY <1>4 DEF LineIf
  <2>2. VlanSection(c, v) = s \o t
    BY DEF VlanSection
  <2> HIDE DEF s, t
  <2>3. VlanSection(c, v) = s
    BY <1>2, <2>1, <2>2, ConcatEmptySeq
  <2>4. QED
    BY <1>2, <1>4, <2>3 DEF VlanLinesOf
<1>5. QED
  BY <1>3, <1>4

\* What lines F say of VLANs: each VLAN that is saved has its line, a name
\* follows that of its VLAN, and there is no other line of VLANs.
VlansAt(c, F) ==
    /\ \A v \in SavedSet(c) : \E k \in 1 .. Len(F) :
          /\ F[k] = Line("vlan", v)
          /\ v \in c.named => k + 1 \in 1 .. Len(F) /\ F[k + 1] = NameLine
    /\ \A k \in 1 .. Len(F) : F[k].cmd \in {"vlan", "name"} =>
          \E v \in SavedSet(c) :
             \/ F[k] = Line("vlan", v)
             \/ /\ F[k] = NameLine /\ v \in c.named
                /\ k - 1 \in 1 .. Len(F) /\ F[k - 1] = Line("vlan", v)

\* The sections of the VLANs say so.
LEMMA VlanPartIs ==
    ASSUME NEW c \in Config
    PROVE  VlanPart(c) \in Seq(VlanLine) /\ VlansAt(c, VlanPart(c))
<1> DEFINE S == SavedSet(c)
           members == SavedVlans(c)
           N == Cardinality(S)
           ss == [k \in 1 .. N |-> VlanSection(c, members[k])]
           F == VlanPart(c)
<1>1. Enumerates(members, S) /\ S \subseteq Vlans
  BY ConfigFinite, AscendingEnumerates DEF SavedVlans, SavedSet
<1>2. N \in Nat /\ members \in [1 .. N -> S] /\ DOMAIN members = 1 .. N
      /\ \A v \in S : \E k \in 1 .. N : members[k] = v
  BY <1>1 DEF Enumerates
<1>3. F = FlattenSeq(ss)
  BY <1>2 DEF VlanPart, ForEach
<1>4. \A k \in 1 .. N : VlanSection(c, members[k]) \in Seq(VlanLine)
  <2> SUFFICES ASSUME NEW k \in 1 .. N PROVE VlanSection(c, members[k]) \in Seq(VlanLine)
    OBVIOUS
  <2>1. members[k] \in Vlans
    BY <1>1, <1>2
  <2>2. QED
    BY <2>1, VlanSectionIs DEF VlanLinesOf
<1>5. ss \in [1 .. N -> Seq(VlanLine)] /\ \A k \in 1 .. N : ss[k] = VlanSection(c, members[k])
  BY <1>4, Zenon
<1> HIDE DEF ss, N, F
<1>6. F \in Seq(VlanLine) /\ \E b : Laid(F, ss, N, b)
  BY <1>2, <1>3, <1>5, Flattened
<1>7. PICK b : Laid(F, ss, N, b)
  BY <1>6
<1>8. /\ Len(F) \in Nat
      /\ \A k \in 1 .. N : /\ b[k] \in Nat /\ b[k] + Len(ss[k]) <= Len(F)
                           /\ \A m \in 1 .. Len(ss[k]) : F[b[k] + m] = ss[k][m]
      /\ \A j \in 1 .. Len(F) : \E k \in 1 .. N : \E m \in 1 .. Len(ss[k]) : j = b[k] + m
  BY <1>6, <1>7 DEF Laid
<1> HIDE DEF S, members
<1>9. ASSUME NEW k \in 1 .. N
      PROVE  /\ members[k] \in S /\ ss[k][1] = Line("vlan", members[k])
             /\ Len(ss[k]) \in {1, 2} /\ 1 \in 1 .. Len(ss[k])
             /\ members[k] \in c.named => Len(ss[k]) = 2 /\ ss[k][2] = NameLine
             /\ members[k] \notin c.named => Len(ss[k]) = 1
  <2>1. members[k] \in S /\ members[k] \in Vlans
    BY <1>1, <1>2
  <2>2. VlanLinesOf(c, members[k], ss[k])
    BY <1>5, <2>1, VlanSectionIs
  <2>3. QED
    BY <2>1, <2>2 DEF VlanLinesOf
<1>10. ASSUME NEW v \in S
       PROVE  \E k \in 1 .. Len(F) :
                 /\ F[k] = Line("vlan", v)
                 /\ v \in c.named => k + 1 \in 1 .. Len(F) /\ F[k + 1] = NameLine
  <2>1. PICK k \in 1 .. N : members[k] = v
    BY <1>2
  <2>2. b[k] \in Nat /\ b[k] + Len(ss[k]) <= Len(F) /\ Len(ss[k]) \in {1, 2}
    BY <1>8, <1>9
  <2>3. b[k] + 1 \in 1 .. Len(F) /\ F[b[k] + 1] = Line("vlan", v)
    <3>1. 1 \in 1 .. Len(ss[k])
      BY <1>9
    <3>2. F[b[k] + 1] = ss[k][1]
      BY <1>8, <3>1
    <3>3. b[k] + 1 \in 1 .. Len(F)
      <4> DEFINE p == b[k]
                 l == Len(ss[k])
                 q == Len(F)
      <4>1. p \in Nat /\ q \in Nat /\ p + l <= q /\ l \in {1, 2}
        BY <1>8, <2>2
      <4> HIDE DEF p, l, q
      <4>2. p + 1 \in 1 .. q
        BY <4>1
      <4>3. QED
        BY <4>2 DEF p, q
    <3>4. ss[k][1] = Line("vlan", v)
      BY <1>9, <2>1
    <3>5. QED
      BY <3>2, <3>3, <3>4
  <2>4. ASSUME v \in c.named
        PROVE  (b[k] + 1) + 1 \in 1 .. Len(F) /\ F[(b[k] + 1) + 1] = NameLine
    <3>1. Len(ss[k]) = 2 /\ 2 \in 1 .. Len(ss[k])
      BY <1>9, <2>1, <2>4
    <3>a. F[b[k] + 2] = ss[k][2]
      BY <1>8, <3>1
    <3>b. b[k] + 2 \in 1 .. Len(F) /\ b[k] + 2 = (b[k] + 1) + 1
      BY <1>8, <2>2, <3>1
    <3>2. F[b[k] + 2] = ss[k][2] /\ b[k] + 2 \in 1 .. Len(F) /\ b[k] + 2 = (b[k] + 1) + 1
      BY <3>a, <3>b
    <3>3. QED
      BY <1>9, <2>1, <2>4, <3>2
  <2>5. QED
    BY <2>3, <2>4
<1>11. ASSUME NEW j \in 1 .. Len(F)
       PROVE  \E v \in S : \/ F[j] = Line("vlan", v)
                           \/ /\ F[j] = NameLine /\ v \in c.named
                              /\ j - 1 \in 1 .. Len(F) /\ F[j - 1] = Line("vlan", v)
  <2>a. PICK k \in 1 .. N : \E m \in 1 .. Len(ss[k]) : j = b[k] + m
    BY <1>8
  <2>1. PICK m \in 1 .. Len(ss[k]) : j = b[k] + m
    BY <2>a
  <2>2. F[j] = ss[k][m] /\ b[k] \in Nat
    BY <1>8, <2>1
  <2>3. CASE m = 1
    BY <1>9, <2>2, <2>3
  <2>4. CASE m # 1
    <3>a. Len(ss[k]) = 2 /\ members[k] \in c.named
      <4>1. Len(ss[k]) = 1 \/ Len(ss[k]) = 2
        BY <1>9
      <4>2. ASSUME Len(ss[k]) = 1 PROVE FALSE
        <5>1. m \in 1 .. Len(ss[k])
          OBVIOUS
        <5>2. m \in 1 .. 1
          BY <4>2, <5>1
        <5>3. m = 1
          BY <5>2
        <5>4. QED
          BY <2>4, <5>3
      <4>3. QED
        BY <1>9, <4>1, <4>2
    <3>1. members[k] \in c.named /\ m = 2
      BY <2>4, <3>a
    <3>2. j - 1 = b[k] + 1 /\ 1 \in 1 .. Len(ss[k]) /\ j - 1 \in 1 .. Len(F)
      <4>1. j = b[k] + 2 /\ j \in Int /\ j <= Len(F) /\ b[k] \in Nat
        BY <1>8, <2>1, <2>2, <3>1
      <4>2. QED
        BY <1>8, <3>a, <4>1
    <3>3. F[j - 1] = ss[k][1]
      BY <1>8, <3>2
    <3>4. QED
      BY <1>9, <2>2, <3>1, <3>2, <3>3
  <2>5. QED
    BY <2>3, <2>4
<1>12. QED
  BY <1>6, <1>10, <1>11 DEF VlansAt, S, F

-----------------------------------------------------------------------------
(* The section of an interface.                                            *)

\* Two lines that are always the same.
DescriptionLine == Line("description", TRUE)
NoCdpLine == Line("no cdp enable", TRUE)

\* The lines of a section come in an order: the interface, its description, the
\* VLAN of an access port, the first line of its list, the others, its mode, CDP.
Rank(x) ==
    IF x.cmd = "interface" THEN 0
    ELSE IF x.cmd = "description" THEN 1
    ELSE IF x.cmd = "access" THEN 2
    ELSE IF x.cmd = "allowed" THEN IF x.arg.how = "set" THEN 3 ELSE 4
    ELSE IF x.cmd = "mode" THEN 5 ELSE 6

\* The order of the lines of an interface ...
LEMMA RankOfInterface == \A i : Rank(Line("interface", i)) = 0
BY LineFields, Zenon DEF Rank

\* ... of its description ...
LEMMA RankOfDescription == Rank(DescriptionLine) = 1
<1>1. DescriptionLine.cmd = "description"
  BY LineFields, Zenon DEF DescriptionLine
<1>2. QED
  BY <1>1, Zenon DEF Rank

\* ... of its VLAN ...
LEMMA RankOfAccess == \A v : Rank(Line("access", v)) = 2
<1> SUFFICES ASSUME NEW v PROVE Rank(Line("access", v)) = 2
  OBVIOUS
<1>1. Line("access", v).cmd = "access"
  BY LineFields, Zenon
<1>2. QED
  BY <1>1, Zenon DEF Rank

\* ... of its list ...
LEMMA RankOfAllowed ==
    \A a : Rank(Line("allowed", a)) = IF a.how = "set" THEN 3 ELSE 4
<1> SUFFICES ASSUME NEW a PROVE Rank(Line("allowed", a)) = IF a.how = "set" THEN 3 ELSE 4
  OBVIOUS
<1>1. Line("allowed", a).cmd = "allowed" /\ Line("allowed", a).arg = a
  BY LineFields, Zenon
<1>2. CASE a.how = "set"
  BY <1>1, <1>2, Zenon DEF Rank
<1>3. CASE a.how # "set"
  BY <1>1, <1>3, Zenon DEF Rank
<1>4. QED
  BY <1>2, <1>3, Zenon

\* ... of its mode ...
LEMMA RankOfMode == \A mode : Rank(Line("mode", mode)) = 5
<1> SUFFICES ASSUME NEW mode PROVE Rank(Line("mode", mode)) = 5
  OBVIOUS
<1>1. Line("mode", mode).cmd = "mode"
  BY LineFields, Zenon
<1>2. QED
  BY <1>1, Zenon DEF Rank

\* ... and of CDP.
LEMMA RankOfCdp == Rank(NoCdpLine) = 6
<1>1. NoCdpLine.cmd = "no cdp enable"
  BY LineFields, Zenon DEF NoCdpLine
<1>2. QED
  BY <1>1, Zenon DEF Rank

\* Sequence s has the line x.
Has(s, x) == \E k \in 1 .. Len(s) : s[k] = x

\* Lines between two ranks, in their order.
Piece(s, lo, hi) ==
    /\ s \in Seq(PortLine)
    /\ \A k \in 1 .. Len(s) : Rank(s[k]) \in lo .. hi
    /\ \A k, l \in 1 .. Len(s) : k < l =>
          \/ Rank(s[k]) < Rank(s[l])
          \/ Rank(s[k]) = 4 /\ Rank(s[l]) = 4

\* Two pieces, one after the other.
LEMMA PiecesTogether ==
    ASSUME NEW a \in Nat, NEW b \in Nat, NEW d \in Nat, NEW e \in Nat, a <= b, b < d, d <= e,
           NEW s, Piece(s, a, b), NEW t, Piece(t, d, e)
    PROVE  /\ Piece(s \o t, a, e) /\ Len(s \o t) = Len(s) + Len(t)
           /\ \A k \in 1 .. Len(s) : (s \o t)[k] = s[k]
           /\ \A x : Has(s \o t, x) <=> Has(s, x) \/ Has(t, x)
<1> DEFINE u == s \o t
<1>1. s \in Seq(PortLine) /\ t \in Seq(PortLine) /\ Len(s) \in Nat /\ Len(t) \in Nat
  BY DEF Piece
<1>2. /\ u \in Seq(PortLine) /\ Len(u) = Len(s) + Len(t)
      /\ \A j \in 1 .. Len(s) : u[j] = s[j]
      /\ \A j \in 1 .. Len(t) : u[Len(s) + j] = t[j]
  BY <1>1, Together
<1> HIDE DEF u
<1>3. ASSUME NEW k \in 1 .. Len(u)
      PROVE  \/ k \in 1 .. Len(s) /\ u[k] = s[k]
             \/ k - Len(s) \in 1 .. Len(t) /\ u[k] = t[k - Len(s)]
  <2>1. CASE k <= Len(s)
    <3>1. k \in 1 .. Len(s)
      BY <1>1, <2>1
    <3>2. QED
      BY <1>2, <3>1
  <2>2. CASE ~(k <= Len(s))
    <3>1. k - Len(s) \in 1 .. Len(t) /\ Len(s) + (k - Len(s)) = k
      BY <1>1, <1>2, <2>2
    <3>2. u[Len(s) + (k - Len(s))] = t[k - Len(s)]
      BY <1>2, <3>1
    <3>3. QED
      BY <3>1, <3>2
  <2>3. QED
    BY <2>1, <2>2
<1>4. /\ \A k \in 1 .. Len(s) : Rank(s[k]) \in a .. b
      /\ \A k \in 1 .. Len(t) : Rank(t[k]) \in d .. e
  BY DEF Piece
<1>5. \A k \in 1 .. Len(u) : Rank(u[k]) \in a .. e
  <2> SUFFICES ASSUME NEW k \in 1 .. Len(u) PROVE Rank(u[k]) \in a .. e
    OBVIOUS
  <2>1. Rank(u[k]) \in a .. b \/ Rank(u[k]) \in d .. e
    BY <1>3, <1>4
  <2>2. QED
    BY <2>1
<1>6. ASSUME NEW k \in 1 .. Len(u), NEW l \in 1 .. Len(u), k < l
      PROVE  Rank(u[k]) < Rank(u[l]) \/ (Rank(u[k]) = 4 /\ Rank(u[l]) = 4)
  <2>1. CASE l \in 1 .. Len(s)
    <3>1. k \in 1 .. Len(s)
      BY <1>1, <1>6, <2>1
    <3>2. u[k] = s[k] /\ u[l] = s[l]
      BY <1>2, <2>1, <3>1
    <3>3. QED
      BY <1>6, <2>1, <3>1, <3>2 DEF Piece
  <2>2. CASE l \notin 1 .. Len(s) /\ k \in 1 .. Len(s)
    <3>1. u[k] = s[k] /\ l - Len(s) \in 1 .. Len(t) /\ u[l] = t[l - Len(s)]
      BY <1>2, <1>3, <2>2
    <3>2. Rank(u[k]) \in a .. b /\ Rank(u[l]) \in d .. e
      BY <1>4, <2>2, <3>1
    <3>3. QED
      BY <3>2
  <2>3. CASE l \notin 1 .. Len(s) /\ k \notin 1 .. Len(s)
    <3>1. /\ k - Len(s) \in 1 .. Len(t) /\ u[k] = t[k - Len(s)]
          /\ l - Len(s) \in 1 .. Len(t) /\ u[l] = t[l - Len(s)]
      BY <1>3, <2>3
    <3>2. k - Len(s) < l - Len(s)
      BY <1>1, <1>6
    <3>3. QED
      BY <3>1, <3>2 DEF Piece
  <2>4. QED
    BY <2>1, <2>2, <2>3
<1>7. ASSUME NEW x PROVE Has(u, x) <=> Has(s, x) \/ Has(t, x)
  <2>1. ASSUME NEW k \in 1 .. Len(s) PROVE k \in 1 .. Len(u) /\ u[k] = s[k]
    BY <1>1, <1>2
  <2>2. ASSUME NEW k \in 1 .. Len(t) PROVE Len(s) + k \in 1 .. Len(u) /\ u[Len(s) + k] = t[k]
    BY <1>1, <1>2
  <2>3. ASSUME Has(u, x) PROVE Has(s, x) \/ Has(t, x)
    BY <1>3, <2>3 DEF Has
  <2>4. ASSUME Has(s, x) \/ Has(t, x) PROVE Has(u, x)
    BY <2>1, <2>2, <2>4 DEF Has
  <2>5. QED
    BY <2>3, <2>4
<1>8. Piece(u, a, e)
  BY <1>2, <1>5, <1>6 DEF Piece
<1>9. QED
  BY <1>2, <1>7, <1>8 DEF u

\* One line is a piece.
LEMMA PieceOfOne ==
    ASSUME NEW x \in PortLine, NEW n \in Nat, Rank(x) = n
    PROVE  Piece(<<x>>, n, n) /\ Len(<<x>>) = 1 /\ \A y : Has(<<x>>, y) <=> y = x
<1> DEFINE s == <<x>>
<1>1. s \in Seq(PortLine) /\ Len(s) = 1 /\ s[1] = x
  OBVIOUS
<1> HIDE DEF s
<1>2. Piece(s, n, n)
  BY <1>1 DEF Piece
<1>3. \A y : Has(s, y) <=> y = x
  BY <1>1 DEF Has
<1>4. QED
  BY <1>1, <1>2, <1>3 DEF s

\* No line is a piece.
LEMMA PieceOfNone ==
    ASSUME NEW n \in Nat, NEW m \in Nat
    PROVE  Piece(<< >>, n, m) /\ Len(<< >>) = 0 /\ \A y : ~Has(<< >>, y)
<1> DEFINE s == << >>
<1>1. s \in Seq(PortLine) /\ Len(s) = 0
  OBVIOUS
<1> HIDE DEF s
<1>2. Piece(s, n, m) /\ \A y : ~Has(s, y)
  BY <1>1 DEF Piece, Has
<1>3. QED
  BY <1>1, <1>2 DEF s

\* A line under a condition is a piece.
LEMMA PieceIf ==
    ASSUME NEW condition \in BOOLEAN, NEW cmd, NEW arg, NEW n \in Nat, Line(cmd, arg) \in PortLine,
           Rank(Line(cmd, arg)) = n
    PROVE  /\ Piece(LineIf(condition, cmd, arg), n, n)
           /\ \A y : Has(LineIf(condition, cmd, arg), y) <=> condition /\ y = Line(cmd, arg)
<1>1. CASE condition
  <2>1. LineIf(condition, cmd, arg) = <<Line(cmd, arg)>>
    BY <1>1, Zenon DEF LineIf
  <2>2. Piece(<<Line(cmd, arg)>>, n, n) /\ \A y : Has(<<Line(cmd, arg)>>, y) <=> y = Line(cmd, arg)
    BY PieceOfOne, Zenon
  <2>3. QED
    BY <1>1, <2>1, <2>2, Zenon
<1>2. CASE ~condition
  <2>1. LineIf(condition, cmd, arg) = << >>
    BY <1>2, Zenon DEF LineIf
  <2>2. Piece(<< >>, n, n) /\ \A y : ~Has(<< >>, y)
    BY PieceOfNone, Zenon
  <2>3. QED
    BY <1>2, <2>1, <2>2, Zenon
<1>3. QED
  BY <1>1, <1>2

\* A list that is not empty has a token.
LEMMA HasToken ==
    ASSUME NEW S \in SUBSET Vlans, S # {}
    PROVE  Len(Tokens(S)) \in Nat \ {0} /\ Tokens(S) \in Seq(TokenOf(S))
<1>1. S \subseteq Nat
  BY SavedConfigAssumption DEF SavedConfigAssumption, Vlans
<1>2. PICK v \in S : \A u \in S : v <= u
  BY <1>1, LeastNumber
<1>3. v - 1 \notin S
  BY <1>1, <1>2
<1>4. v \in Starts(S)
  BY <1>3 DEF Starts
<1>5. /\ Tokens(S) \in Seq(TokenOf(S))
      /\ \A w \in Starts(S) : \E k \in 1 .. Len(Tokens(S)) : Tokens(S)[k] = TokenAt(S, w)
  BY TokensAre
<1>6. Len(Tokens(S)) \in Nat /\ \E k \in 1 .. Len(Tokens(S)) : TRUE
  BY <1>4, <1>5
<1>7. QED
  BY <1>5, <1>6

\* The first line of a list that is not empty has a token, too.
LEMMA FirstHasToken ==
    ASSUME NEW S \in SUBSET Vlans, S # {}
    PROVE  ListVlans(S)[1].arg.list # << >>
<1> DEFINE ts == Tokens(S)
           n == 1 + (Len(ts) - 1) \div LineTokens
           to == Min({1 * LineTokens, Len(ts)})
<1>1. ts \in Seq(TokenOf(S)) /\ Len(ts) \in Nat \ {0} /\ LineTokens \in Nat \ {0}
  BY HasToken, SavedConfigAssumption DEF SavedConfigAssumption
<1>2. n \in Nat \ {0} /\ 1 \in 1 .. n
  <2>1. Len(ts) - 1 \in Nat
    BY <1>1
  <2>2. (Len(ts) - 1) \div LineTokens \in Nat
    BY <1>1, <2>1
  <2>3. QED
    BY <2>2
<1>3. ts # << >>
  BY <1>1
<1>4. ListVlans(S)[1].arg.list = SubSeq(ts, 1 + (1 - 1) * LineTokens, to)
  BY <1>2, <1>3 DEF ListVlans, Line
<1>5. to \in 1 .. Len(ts)
  <2> DEFINE a == 1 * LineTokens
             b == Len(ts)
  <2>1. a \in Nat \ {0} /\ b \in Nat \ {0}
    BY <1>1
  <2> HIDE DEF a, b
  <2>2. Min({a, b}) = CHOOSE x \in {a, b} : \A y \in {a, b} : x <= y
    BY DEF Min
  <2>3. \E x \in {a, b} : \A y \in {a, b} : x <= y
    BY <2>1
  <2>4. Min({a, b}) \in {a, b} /\ \A y \in {a, b} : Min({a, b}) <= y
    BY <2>2, <2>3
  <2>5. Min({a, b}) \in 1 .. b
    BY <2>1, <2>4
  <2>6. QED
    BY <2>5 DEF a, b
<1>6. 1 + (1 - 1) * LineTokens = 1
  BY <1>1
<1> HIDE DEF ts, to
<1>7. Len(SubSeq(ts, 1, to)) = to
  <2>1. \A j \in 1 .. to : ts[j] \in TokenOf(S)
    BY <1>1, <1>5
  <2>2. Len(SubSeq(ts, 1, to)) = IF 1 <= to THEN to - 1 + 1 ELSE 0
    BY <1>1, <1>5, <2>1, SubSeqProperties
  <2>3. QED
    BY <1>1, <1>5, <2>2
<1>8. SubSeq(ts, 1, to) # << >>
  BY <1>5, <1>7
<1>9. QED
  BY <1>4, <1>6, <1>8

\* Every VLAN of a list is in the range of a token.
LEMMA TokenCovers ==
    ASSUME NEW S \in SUBSET Vlans, NEW w \in S
    PROVE  \E v \in Starts(S) : v <= w /\ w <= TokenAt(S, v)[2]
<1>1. \A u \in S : u \in Nat
  BY SavedConfigAssumption DEF SavedConfigAssumption, Vlans
<1>2. CASE ~InRange(S, w) \/ w - 1 \notin S
  <2>1. w \in Starts(S) /\ TokenAt(S, w)[2] \in {RunEnd(S, w), w} /\ w <= RunEnd(S, w)
    BY <1>2, RunOf DEF Starts, TokenAt
  <2>2. QED
    BY <1>1, <2>1
<1>3. CASE InRange(S, w) /\ w - 1 \in S
  <2>1. PICK x \in S : x <= w /\ w <= RunEnd(S, x) /\ RunEnd(S, x) - x > 1
    BY <1>3 DEF InRange
  <2> DEFINE T == {u \in S : u .. w \subseteq S}
             e(u) == RunEnd(S, u)
  <2>2. x \in T
    <3>1. x .. RunEnd(S, x) \subseteq S /\ RunEnd(S, x) \in x .. MaxVlan /\ MaxVlan \in Nat
      BY RunOf, SavedConfigAssumption DEF SavedConfigAssumption
    <3>2. QED
      BY <1>1, <2>1, <3>1
  <2>3. PICK u \in T : \A k \in T : u <= k
    <3>1. T \subseteq Nat
      BY <1>1
    <3> HIDE DEF T
    <3>2. QED
      BY <2>2, <3>1, LeastNumber
  <2>4. u \in S /\ u \in Nat /\ u <= x /\ u .. w \subseteq S /\ x \in Nat /\ w \in Nat
    BY <1>1, <2>2, <2>3
  <2>5. u - 1 \notin S
    <3>1. SUFFICES ASSUME u - 1 \in S PROVE FALSE
      OBVIOUS
    <3>2. u - 1 \in T
      BY <2>4, <3>1
    <3>3. QED
      BY <2>3, <2>4, <3>2
  <2>6. /\ e(u) \in Nat /\ u <= e(u) /\ e(u) + 1 \notin S
        /\ e(x) \in Nat /\ x .. e(x) \subseteq S
    BY <2>4, RunOf, SavedConfigAssumption DEF SavedConfigAssumption
  <2> HIDE DEF e, T
  <2>7. e(u) >= e(x)
    <3>1. SUFFICES ASSUME e(u) < e(x) PROVE FALSE
      BY <2>6
    <3>2. e(u) + 1 \in u .. w \/ e(u) + 1 \in x .. e(x)
      BY <2>1, <2>4, <2>6, <3>1
    <3>3. QED
      BY <2>4, <2>6, <3>2
  <2>8. w <= e(u) /\ u <= e(u) /\ e(u) - u > 1
    BY <2>1, <2>4, <2>6, <2>7 DEF e
  <2>9. InRange(S, u)
    BY <2>4, <2>8 DEF InRange, e
  <2>10. u \in Starts(S) /\ TokenAt(S, u)[2] = e(u) /\ u <= w
    BY <2>1, <2>4, <2>5, <2>9 DEF Starts, TokenAt, e
  <2>11. QED
    BY <2>8, <2>10
<1>4. QED
  BY <1>2, <1>3

\* The page of a number: pages of L numbers each, from 1 on.
LEMMA PageOf ==
    ASSUME NEW L \in Nat \ {0}, NEW n \in Nat \ {0}, NEW j \in 1 .. n
    PROVE  \E k \in 1 .. 1 + (n - 1) \div L :
              1 + (k - 1) * L <= j /\ j <= k * L /\ (k - 1) * L \in Nat /\ k * L \in Nat
<1> DEFINE q == (j - 1) \div L
           r == (n - 1) \div L
<1>1. /\ q \in Nat /\ q * L <= j - 1 /\ j - 1 < q * L + L
      /\ r \in Nat /\ r * L <= n - 1 /\ n - 1 < r * L + L
  OBVIOUS
<1> HIDE DEF q, r
<1>2. q <= r
  <2>1. SUFFICES ASSUME r + 1 <= q PROVE FALSE
    BY <1>1
  <2>2. (r + 1) * L <= q * L
    <3>1. PICK d \in Nat : q = (r + 1) + d
      BY <1>1, <2>1
    <3>2. q * L = (r + 1) * L + d * L /\ d * L \in Nat
      BY <1>1, <3>1
    <3>3. (r + 1) * L \in Nat /\ q * L \in Nat
      BY <1>1
    <3>4. QED
      BY <3>2, <3>3
  <2>3. (r + 1) * L = r * L + L /\ r * L \in Nat /\ q * L \in Nat
    BY <1>1
  <2>4. QED
    BY <1>1, <2>2, <2>3
<1>3. ((q + 1) - 1) * L = q * L /\ (q + 1) * L = q * L + L /\ q * L \in Nat
  BY <1>1
<1>4. /\ q + 1 \in 1 .. 1 + r /\ 1 + ((q + 1) - 1) * L <= j /\ j <= (q + 1) * L
      /\ ((q + 1) - 1) * L \in Nat /\ (q + 1) * L \in Nat
  BY <1>1, <1>2, <1>3
<1>5. \E k \in 1 .. 1 + r :
         1 + (k - 1) * L <= j /\ j <= k * L /\ (k - 1) * L \in Nat /\ k * L \in Nat
  BY <1>4
<1>6. QED
  BY <1>5 DEF r

\* Every token of a list is in a line of it.
LEMMA TokenInLine ==
    ASSUME NEW S \in SUBSET Vlans, S # {}, NEW j \in 1 .. Len(Tokens(S))
    PROVE  \E k \in 1 .. Len(ListVlans(S)) :
              \E m \in DOMAIN ListVlans(S)[k].arg.list : ListVlans(S)[k].arg.list[m] = Tokens(S)[j]
<1> DEFINE ts == Tokens(S)
           n == 1 + (Len(ts) - 1) \div LineTokens
           from(k) == 1 + (k - 1) * LineTokens
           to(k) == Min({k * LineTokens, Len(ts)})
           l(k) == [how |-> IF k = 1 THEN "set" ELSE "add", list |-> SubSeq(ts, from(k), to(k))]
<1>1. ts \in Seq(TokenOf(S)) /\ Len(ts) \in Nat \ {0} /\ LineTokens \in Nat \ {0}
  BY HasToken, SavedConfigAssumption DEF SavedConfigAssumption
<1>2. PICK k \in 1 .. n : /\ from(k) <= j /\ j <= k * LineTokens
                          /\ (k - 1) * LineTokens \in Nat /\ k * LineTokens \in Nat
  BY <1>1, PageOf
<1>3. ListVlans(S) = [i \in 1 .. n |-> Line("allowed", l(i))]
  BY <1>1 DEF ListVlans
<1>4. from(k) \in Nat \ {0} /\ to(k) \in Nat /\ j <= to(k) /\ to(k) <= Len(ts)
  <2> DEFINE a == k * LineTokens
             b == Len(ts)
  <2>1. a \in Nat /\ b \in Nat /\ j \in 1 .. b /\ j <= a
    BY <1>1, <1>2
  <2>2. from(k) \in Nat \ {0}
    BY <1>2
  <2> HIDE DEF a, b
  <2>3. Min({a, b}) = CHOOSE x \in {a, b} : \A y \in {a, b} : x <= y
    BY DEF Min
  <2>4. \E x \in {a, b} : \A y \in {a, b} : x <= y
    BY <2>1
  <2>5. Min({a, b}) \in {a, b} /\ \A y \in {a, b} : Min({a, b}) <= y
    BY <2>3, <2>4
  <2>6. Min({a, b}) \in Nat /\ j <= Min({a, b}) /\ Min({a, b}) <= b
    BY <2>1, <2>5
  <2>7. QED
    BY <2>2, <2>6 DEF a, b
<1>5. n \in Nat /\ Len(ListVlans(S)) = n
  <2>1. Len(ts) - 1 \in Nat
    BY <1>1
  <2>2. (Len(ts) - 1) \div LineTokens \in Nat
    BY <1>1, <2>1
  <2>3. n \in Nat
    BY <2>2
  <2> HIDE DEF n, l
  <2>4. QED
    BY <1>3, <2>3
<1> HIDE DEF ts, n, from, to
<1>6. ListVlans(S)[k].arg.list = SubSeq(ts, from(k), to(k))
  <2>1. ListVlans(S)[k] = Line("allowed", l(k))
    <3> HIDE DEF l
    <3>1. QED
      BY <1>3
  <2>2. \A arg : Line("allowed", arg).arg = arg
    BY LineFields, Zenon
  <2>3. ListVlans(S)[k].arg = l(k)
    BY <2>1, <2>2, Zenon
  <2>4. l(k).list = SubSeq(ts, from(k), to(k))
    BY Zenon
  <2>5. QED
    BY <2>3, <2>4, Zenon
<1> DEFINE m == j - from(k) + 1
<1>7. from(k) <= j
  BY <1>2
<1>8. m \in 1 .. (to(k) - from(k) + 1) /\ from(k) + m - 1 = j
  BY <1>1, <1>4, <1>7
<1>9. m \in DOMAIN SubSeq(ts, from(k), to(k)) /\ SubSeq(ts, from(k), to(k))[m] = ts[j]
  <2> DEFINE a == from(k)
             b == to(k)
  <2>1. /\ a \in Nat \ {0} /\ b \in Nat /\ b <= Len(ts) /\ a <= b
        /\ m \in 1 .. (b - a + 1) /\ a + m - 1 = j
    BY <1>1, <1>4, <1>7, <1>8
  <2> HIDE DEF a, b, m
  <2>2. \A i \in a .. b : ts[i] \in TokenOf(S)
    BY <1>1, <2>1
  <2>3. /\ SubSeq(ts, a, b) \in Seq(TokenOf(S)) /\ Len(SubSeq(ts, a, b)) = b - a + 1
        /\ \A i \in 1 .. b - a + 1 : SubSeq(ts, a, b)[i] = ts[a + i - 1]
    BY <1>1, <2>1, <2>2, SubSeqProperties
  <2>4. QED
    BY <2>1, <2>3 DEF a, b
<1>10. QED
  BY <1>5, <1>6, <1>9 DEF ts

\* A list of which every token is understood is whole.
LEMMA ListsWhole ==
    ASSUME NEW S \in SUBSET Vlans, NEW w \in S,
           \A k \in DOMAIN ListVlans(S) :
              Parsed(ListVlans(S)[k].arg.list) = DOMAIN ListVlans(S)[k].arg.list
    PROVE  \E x : Has(ListVlans(S), x) /\ w \in ParseVlanList(x.arg.list)
<1>1. PICK v \in Starts(S) : v <= w /\ w <= TokenAt(S, v)[2]
  BY TokenCovers
<1>2. PICK j \in 1 .. Len(Tokens(S)) : Tokens(S)[j] = TokenAt(S, v)
  BY TokensAre
<1>3. PICK k \in 1 .. Len(ListVlans(S)) :
         \E m \in DOMAIN ListVlans(S)[k].arg.list : ListVlans(S)[k].arg.list[m] = Tokens(S)[j]
  BY TokenInLine
<1>4. PICK m \in DOMAIN ListVlans(S)[k].arg.list : ListVlans(S)[k].arg.list[m] = Tokens(S)[j]
  BY <1>3
<1> DEFINE list == ListVlans(S)[k].arg.list
<1>5. k \in DOMAIN ListVlans(S)
  <2>1. ListVlans(S) \in Seq(AllowedLine(S))
    BY ListVlansLines
  <2>2. QED
    BY <2>1
<1>6. m \in Parsed(list) /\ list[m] = TokenAt(S, v)
  BY <1>2, <1>4, <1>5
<1>7. w \in list[m][1] .. list[m][2]
  <2>1. TokenAt(S, v)[1] = v
    BY DEF TokenAt
  <2>2. v \in Int /\ w \in Int /\ TokenAt(S, v)[2] \in Int
    <3>1. TokenAt(S, v) \in TokenOf(S)
      BY <1>2, TokensAre
    <3>2. QED
      BY <3>1, SavedConfigAssumption DEF TokenOf, Starts, SavedConfigAssumption, Vlans
  <2>3. QED
    BY <1>1, <1>6, <2>1, <2>2
<1> HIDE DEF list
<1>8. w \in ParseVlanList(list)
  BY <1>6, <1>7 DEF ParseVlanList
<1>9. QED
  BY <1>3, <1>8 DEF Has, list

\* A line of a VLAN list, and one that sets it.
ListLine(S, x) == x \in AllowedLine(S) /\ (Rank(x) = 3 /\ S # {} => x.arg.list # << >>)

\* Lines of a VLAN list are lines of an interface.
LEMMA AllowedInPort == ASSUME NEW S \in SUBSET Vlans PROVE AllowedLine(S) \subseteq PortLine
<1>1. TokenOf(S) \subseteq Vlans \X Vlans
  BY DEF TokenOf
<1>2. Seq(TokenOf(S)) \subseteq Seq(Vlans \X Vlans)
  BY <1>1
<1>3. [how : {"set", "add"}, list : Seq(TokenOf(S))]
        \subseteq [how : {"set", "add"}, list : Seq(Vlans \X Vlans)]
  <2> DEFINE X == Seq(TokenOf(S))
             Y == Seq(Vlans \X Vlans)
  <2> HIDE DEF X, Y
  <2>1. X \subseteq Y
    BY <1>2 DEF X, Y
  <2>2. [how : {"set", "add"}, list : X] \subseteq [how : {"set", "add"}, list : Y]
    BY <2>1
  <2>3. QED
    BY <2>2 DEF X, Y
<1>4. AllowedLine(S) \subseteq Lines("allowed", [how : {"set", "add"}, list : Seq(Vlans \X Vlans)])
  BY <1>3, Zenon DEF AllowedLine, Lines
<1>5. QED
  BY <1>4 DEF PortLine, PortSubLine

\* The lines of a VLAN list are a piece.
LEMMA ListPiece ==
    ASSUME NEW S \in SUBSET Vlans
    PROVE  /\ Piece(ListVlans(S), 3, 4) /\ \A x : Has(ListVlans(S), x) => ListLine(S, x)
           /\ \E x : Has(ListVlans(S), x) /\ ListLine(S, x) /\ Rank(x) = 3
<1> DEFINE s == ListVlans(S)
<1>1. /\ s \in Seq(AllowedLine(S)) /\ Len(s) \in Nat \ {0}
      /\ \A k \in 1 .. Len(s) : s[k].arg.how = IF k = 1 THEN "set" ELSE "add"
  BY ListVlansLines
<1>2. S # {} => s[1].arg.list # << >>
  BY FirstHasToken
<1>3. AllowedLine(S) \subseteq PortLine
  BY AllowedInPort
<1>4. ASSUME NEW x \in AllowedLine(S) PROVE Rank(x) = IF x.arg.how = "set" THEN 3 ELSE 4
  <2>1. PICK a \in [how : {"set", "add"}, list : Seq(TokenOf(S))] : x = Line("allowed", a)
    BY Zenon DEF AllowedLine
  <2>2. x.arg = a
    BY <2>1, LineFields, Zenon
  <2>3. QED
    BY <2>1, <2>2, RankOfAllowed, Zenon
<1> HIDE DEF s
<1>5. \A k \in 1 .. Len(s) : Rank(s[k]) = IF k = 1 THEN 3 ELSE 4
  <2> SUFFICES ASSUME NEW k \in 1 .. Len(s) PROVE Rank(s[k]) = IF k = 1 THEN 3 ELSE 4
    OBVIOUS
  <2>1. s[k] \in AllowedLine(S)
    BY <1>1
  <2>2. Rank(s[k]) = IF s[k].arg.how = "set" THEN 3 ELSE 4
    BY <1>4, <2>1
  <2>3. s[k].arg.how = IF k = 1 THEN "set" ELSE "add"
    BY <1>1
  <2>4. QED
    BY <2>2, <2>3
<1>6. s \in Seq(PortLine)
  BY <1>1, <1>3
<1>7. Piece(s, 3, 4)
  <2>1. \A k \in 1 .. Len(s) : Rank(s[k]) \in 3 .. 4
    BY <1>5
  <2>2. ASSUME NEW k \in 1 .. Len(s), NEW l \in 1 .. Len(s), k < l
        PROVE  Rank(s[k]) < Rank(s[l]) \/ (Rank(s[k]) = 4 /\ Rank(s[l]) = 4)
    <3>1. l # 1
      BY <2>2
    <3>2. Rank(s[l]) = 4 /\ (Rank(s[k]) = 3 \/ Rank(s[k]) = 4)
      BY <1>5, <3>1
    <3>3. QED
      BY <3>2
  <2>3. QED
    BY <1>6, <2>1, <2>2 DEF Piece
<1>8. ASSUME NEW k \in 1 .. Len(s) PROVE ListLine(S, s[k])
  <2>1. s[k] \in AllowedLine(S)
    BY <1>1
  <2>2. Rank(s[k]) = 3 => k = 1
    BY <1>5
  <2>3. QED
    BY <1>2, <2>1, <2>2 DEF ListLine
<1>9. 1 \in 1 .. Len(s) /\ Rank(s[1]) = 3
  BY <1>1, <1>5
<1>10. QED
  BY <1>7, <1>8, <1>9 DEF Has, s

\* What a line x after that of an interface with record p says of it.
Told(p, x) ==
    \/ x = DescriptionLine
    \/ x = NoCdpLine /\ ~p.cdp
    \/ p.type = "switched" /\ (x = Line("access", p.access) \/ x = Line("mode", p.mode)
                               \/ ListLine(p.allowed, x))

\* Lines s are the section of interface i with record p.
Section(i, p, s) ==
    /\ Piece(s, 0, 6) /\ 1 <= Len(s) /\ s[1] = Line("interface", i)
    /\ \A x : Has(s, x) => x = Line("interface", i) \/ Told(p, x)
    /\ p.cdp \/ Has(s, NoCdpLine)
    /\ p.type = "switched" =>
          /\ Has(s, Line("mode", p.mode))
          /\ p.access = DefaultVlan \/ Has(s, Line("access", p.access))
          /\ \E x : Has(s, x) /\ ListLine(p.allowed, x) /\ Rank(x) = 3
          /\ \A x : Has(ListVlans(p.allowed), x) => Has(s, x)

\* The lines of an interface are some.
LEMMA LinesOfPort ==
    ASSUME NEW i \in Interfaces, NEW p \in Port
    PROVE  /\ Line("interface", i) \in PortLine /\ DescriptionLine \in PortLine
           /\ NoCdpLine \in PortLine /\ Line("access", p.access) \in PortLine
           /\ Line("mode", p.mode) \in PortLine
<1>1. Line("interface", i) \in Lines("interface", Interfaces)
  BY Zenon DEF Lines
<1>2. DescriptionLine \in Lines("description", {TRUE})
  BY Zenon DEF Lines, DescriptionLine
<1>3. NoCdpLine \in Lines("no cdp enable", {TRUE})
  BY Zenon DEF Lines, NoCdpLine
<1>4. p.access \in Vlans /\ p.mode \in {"access", "trunk"}
  BY DEF Port
<1>5. Line("access", p.access) \in Lines("access", Vlans)
  BY <1>4, Zenon DEF Lines
<1>6. Line("mode", p.mode) \in Lines("mode", {"access", "trunk"})
  BY <1>4, Zenon DEF Lines
<1>7. QED
  BY <1>1, <1>2, <1>3, <1>5, <1>6 DEF PortLine, PortSubLine

\* build_config_interface() writes the section of an interface.
LEMMA SectionIs ==
    ASSUME NEW c, NEW i \in Interfaces, c.ports[i] \in Port
    PROVE  /\ Section(i, c.ports[i], BuildConfigInterface(c, i))
           /\ Has(BuildConfigInterface(c, i), DescriptionLine) <=> i \in c.described
<1> DEFINE p == c.ports[i]
           H == <<Line("interface", i)>>
           D == LineIf(i \in c.described, "description", TRUE)
           A == LineIf(p.access # DefaultVlan, "access", p.access)
           L == ListVlans(p.allowed)
           M == <<Line("mode", p.mode)>>
           T == IF p.type = "routed" THEN << >> ELSE A \o L \o M
           C == LineIf(~p.cdp, "no cdp enable", TRUE)
<1>1. BuildConfigInterface(c, i) = H \o D \o T \o C
  BY DEF BuildConfigInterface
<1>2. p.allowed \in SUBSET Vlans /\ p.type \in {"switched", "routed"} /\ p.cdp \in BOOLEAN
  BY DEF Port
<1>3. Piece(H, 0, 0) /\ Len(H) = 1 /\ H[1] = Line("interface", i)
      /\ \A x : Has(H, x) <=> x = Line("interface", i)
  <2>1. Piece(H, 0, 0) /\ Len(H) = 1 /\ \A x : Has(H, x) <=> x = Line("interface", i)
    BY LinesOfPort, RankOfInterface, PieceOfOne
  <2>2. H[1] = Line("interface", i)
    OBVIOUS
  <2>3. QED
    BY <2>1, <2>2
<1>4. Piece(D, 1, 1) /\ \A x : Has(D, x) <=> i \in c.described /\ x = DescriptionLine
  <2>1. DescriptionLine \in PortLine /\ Rank(DescriptionLine) = 1
    BY LinesOfPort, RankOfDescription
  <2> DEFINE told == i \in c.described
  <2>2. 1 \in Nat /\ told \in BOOLEAN
    OBVIOUS
  <2> HIDE DEF told
  <2>3. /\ Piece(LineIf(told, "description", TRUE), 1, 1)
        /\ \A x : Has(LineIf(told, "description", TRUE), x) <=> told /\ x = DescriptionLine
    BY <2>1, <2>2, PieceIf, Zenon DEF DescriptionLine
  <2>4. QED
    BY <2>3, Zenon DEF told
<1>5. Piece(A, 2, 2) /\ \A x : Has(A, x) <=> p.access # DefaultVlan /\ x = Line("access", p.access)
  <2>1. Line("access", p.access) \in PortLine /\ Rank(Line("access", p.access)) = 2
    BY LinesOfPort, RankOfAccess
  <2> DEFINE other == p.access # DefaultVlan
  <2>2. 2 \in Nat /\ other \in BOOLEAN
    OBVIOUS
  <2> HIDE DEF other
  <2>3. /\ Piece(LineIf(other, "access", p.access), 2, 2)
        /\ \A x : Has(LineIf(other, "access", p.access), x) <=> other /\ x = Line("access", p.access)
    BY <2>1, <2>2, PieceIf, Zenon
  <2>4. QED
    BY <2>3 DEF other
<1>6. /\ L = ListVlans(p.allowed)
      /\ Piece(L, 3, 4) /\ \A x : Has(L, x) => ListLine(p.allowed, x)
      /\ \E x : Has(L, x) /\ ListLine(p.allowed, x) /\ Rank(x) = 3
  BY <1>2, ListPiece
<1>7. Piece(M, 5, 5) /\ \A x : Has(M, x) <=> x = Line("mode", p.mode)
  BY LinesOfPort, RankOfMode, PieceOfOne
<1>8. Piece(C, 6, 6) /\ \A x : Has(C, x) <=> ~p.cdp /\ x = NoCdpLine
  <2>1. NoCdpLine \in PortLine /\ Rank(NoCdpLine) = 6
    BY LinesOfPort, RankOfCdp
  <2>2. 6 \in Nat /\ (~p.cdp) \in BOOLEAN
    OBVIOUS
  <2>3. QED
    BY <2>1, <2>2, PieceIf, Zenon DEF NoCdpLine
<1> HIDE DEF H, D, A, L, M, C
<1>9. /\ Piece(T, 2, 5)
      /\ \A x : Has(T, x) <=> p.type = "switched" /\ (Has(A, x) \/ Has(L, x) \/ Has(M, x))
  <2>1. CASE p.type = "routed"
    <3>1. T = << >>
      BY <2>1
    <3>2. Piece(<< >>, 2, 5) /\ \A x : ~Has(<< >>, x)
      BY PieceOfNone
    <3>3. QED
      BY <2>1, <3>1, <3>2
  <2>2. CASE p.type # "routed"
    <3>1. T = A \o L \o M
      BY <2>2
    <3>2. Piece(A \o L, 2, 4) /\ \A x : Has(A \o L, x) <=> Has(A, x) \/ Has(L, x)
      BY <1>5, <1>6, PiecesTogether
    <3>3. /\ Piece(A \o L \o M, 2, 5)
          /\ \A x : Has(A \o L \o M, x) <=> Has(A \o L, x) \/ Has(M, x)
      BY <1>7, <3>2, PiecesTogether
    <3>4. QED
      BY <1>2, <2>2, <3>1, <3>2, <3>3
  <2>3. QED
    BY <2>1, <2>2
<1> HIDE DEF T
<1>10. Piece(H \o D, 0, 1) /\ Len(H \o D) = Len(H) + Len(D) /\ (H \o D)[1] = H[1]
       /\ \A x : Has(H \o D, x) <=> Has(H, x) \/ Has(D, x)
  <2>1. /\ Piece(H \o D, 0, 1) /\ Len(H \o D) = Len(H) + Len(D)
        /\ \A k \in 1 .. Len(H) : (H \o D)[k] = H[k]
        /\ \A x : Has(H \o D, x) <=> Has(H, x) \/ Has(D, x)
    <3>1. Piece(H, 0, 0) /\ Piece(D, 1, 1)
      BY <1>3, <1>4
    <3>2. QED
      BY <3>1, PiecesTogether, SMTT(30)
  <2>2. 1 \in 1 .. Len(H)
    BY <1>3
  <2>3. QED
    BY <2>1, <2>2
<1>11. Len(D) \in Nat /\ Len(T) \in Nat /\ Len(C) \in Nat
  BY <1>4, <1>8, <1>9 DEF Piece
<1>12. Piece(H \o D \o T, 0, 5) /\ Len(H \o D \o T) = Len(H \o D) + Len(T)
       /\ (H \o D \o T)[1] = (H \o D)[1]
       /\ \A x : Has(H \o D \o T, x) <=> Has(H \o D, x) \/ Has(T, x)
  BY <1>3, <1>9, <1>10, <1>11, PiecesTogether
<1>13. Piece(H \o D \o T \o C, 0, 6) /\ Len(H \o D \o T \o C) = Len(H \o D \o T) + Len(C)
       /\ (H \o D \o T \o C)[1] = (H \o D \o T)[1]
       /\ \A x : Has(H \o D \o T \o C, x) <=> Has(H \o D \o T, x) \/ Has(C, x)
  BY <1>3, <1>8, <1>10, <1>11, <1>12, PiecesTogether
<1> DEFINE s == H \o D \o T \o C
<1>14. Piece(s, 0, 6) /\ 1 <= Len(s) /\ s[1] = Line("interface", i)
  BY <1>3, <1>10, <1>11, <1>12, <1>13
<1>15. \A x : Has(s, x) <=> Has(H, x) \/ Has(D, x) \/ Has(T, x) \/ Has(C, x)
  BY <1>10, <1>12, <1>13
<1> HIDE DEF s, p
<1>16. \A x : Has(s, x) => x = Line("interface", i) \/ Told(p, x)
  BY <1>3, <1>4, <1>5, <1>6, <1>7, <1>8, <1>9, <1>15 DEF Told
<1>17. p.cdp \/ Has(s, NoCdpLine)
  BY <1>2, <1>8, <1>15
<1>18. ASSUME p.type = "switched"
       PROVE  /\ Has(s, Line("mode", p.mode))
              /\ p.access = DefaultVlan \/ Has(s, Line("access", p.access))
              /\ \E x : Has(s, x) /\ ListLine(p.allowed, x) /\ Rank(x) = 3
              /\ \A x : Has(ListVlans(p.allowed), x) => Has(s, x)
  BY <1>5, <1>6, <1>7, <1>9, <1>15, <1>18
<1>19. Section(i, p, s)
  BY <1>14, <1>16, <1>17, <1>18 DEF Section
<1>20. Has(s, DescriptionLine) <=> i \in c.described
  <2>1. Piece(H, 0, 0) /\ Piece(T, 2, 5) /\ Piece(C, 6, 6) /\ Rank(DescriptionLine) = 1
    BY <1>3, <1>8, <1>9, RankOfDescription
  <2>2. ~Has(H, DescriptionLine) /\ ~Has(T, DescriptionLine) /\ ~Has(C, DescriptionLine)
    BY <2>1 DEF Piece, Has
  <2>3. QED
    BY <1>4, <1>15, <2>2
<1>21. QED
  BY <1>1, <1>19, <1>20 DEF s, p

-----------------------------------------------------------------------------
(* The sections of the interfaces.                                         *)

\* What is written of the interfaces.
PortPart(c) == ForEach(SetToSeq(DOMAIN c.ports), LAMBDA i : BuildConfigInterface(c, i))

\* Where line k of F is in the section of interface i that follows b[i].
Inside(c, b, i, k) == k - b[i] \in 1 .. Len(BuildConfigInterface(c, i))

\* The sections of the interfaces of c follow the lines b[i] of F: each is
\* there, they share no line, and no other line is one of an interface.
PortsAt(c, F, b) ==
    /\ \A i \in DOMAIN c.ports :
          /\ b[i] \in Nat /\ b[i] + Len(BuildConfigInterface(c, i)) <= Len(F)
          /\ \A m \in 1 .. Len(BuildConfigInterface(c, i)) :
                F[b[i] + m] = BuildConfigInterface(c, i)[m]
    /\ \A k \in 1 .. Len(F) : F[k] \in PortLine =>
          \E i \in DOMAIN c.ports : Inside(c, b, i, k)
    /\ \A i, j \in DOMAIN c.ports, k \in 1 .. Len(F) :
          Inside(c, b, i, k) /\ Inside(c, b, j, k) => i = j

\* They follow one another.
LEMMA PortPartIs ==
    ASSUME NEW c \in Config
    PROVE  PortPart(c) \in Seq(PortLine) /\ \E b : PortsAt(c, PortPart(c), b)
<1> DEFINE S == DOMAIN c.ports
           members == SetToSeq(S)
           N == Cardinality(S)
           ss == [k \in 1 .. N |-> BuildConfigInterface(c, members[k])]
           F == PortPart(c)
<1>1. /\ Enumerates(members, S) /\ S \subseteq Interfaces
      /\ \A k, l \in 1 .. N : members[k] = members[l] => k = l
  BY ConfigFinite, SetEnumerated
<1>2. N \in Nat /\ members \in [1 .. N -> S] /\ DOMAIN members = 1 .. N
      /\ \A v \in S : \E k \in 1 .. N : members[k] = v
  BY <1>1 DEF Enumerates
<1>3. F = FlattenSeq(ss)
  BY <1>2 DEF PortPart, ForEach
<1>4. \A i \in S : BuildConfigInterface(c, i) \in Seq(PortLine)
  <2> SUFFICES ASSUME NEW i \in S PROVE BuildConfigInterface(c, i) \in Seq(PortLine)
    OBVIOUS
  <2>1. i \in Interfaces /\ c.ports[i] \in Port
    BY <1>1, PortsOf DEF Config
  <2>2. QED
    BY <2>1, SectionIs DEF Section, Piece
<1> HIDE DEF S, members, N, F
<1>5. \A k \in 1 .. N : members[k] \in S
  BY <1>2
<1>6. ss \in [1 .. N -> Seq(PortLine)] /\ \A k \in 1 .. N : ss[k] = BuildConfigInterface(c, members[k])
  BY <1>4, <1>5, Zenon
<1> HIDE DEF ss
<1>7. F \in Seq(PortLine) /\ \E b : Laid(F, ss, N, b)
  BY <1>2, <1>3, <1>6, Flattened
<1>8. PICK b : Laid(F, ss, N, b)
  BY <1>7
<1>9. /\ Len(F) \in Nat
      /\ \A k \in 1 .. N : /\ b[k] \in Nat /\ b[k] + Len(ss[k]) <= Len(F)
                           /\ \A m \in 1 .. Len(ss[k]) : F[b[k] + m] = ss[k][m]
      /\ \A j \in 1 .. Len(F) : \E k \in 1 .. N : \E m \in 1 .. Len(ss[k]) : j = b[k] + m
      /\ \A k, l \in 1 .. N : k < l => b[k] + Len(ss[k]) <= b[l]
  BY <1>7, <1>8 DEF Laid
<1> DEFINE at == [i \in S |-> CHOOSE k \in 1 .. N : members[k] = i]
           d == [i \in S |-> b[at[i]]]
<1>10. ASSUME NEW i \in S
       PROVE  at[i] \in 1 .. N /\ members[at[i]] = i /\ d[i] = b[at[i]]
              /\ ss[at[i]] = BuildConfigInterface(c, i)
  <2>1. at[i] = CHOOSE k \in 1 .. N : members[k] = i
    OBVIOUS
  <2>2. at[i] \in 1 .. N /\ members[at[i]] = i
    BY <1>2, <2>1
  <2>3. d[i] = b[at[i]]
    OBVIOUS
  <2> HIDE DEF at
  <2>4. QED
    BY <1>6, <2>2, <2>3
<1> HIDE DEF at, d
<1>11. ASSUME NEW i \in S
       PROVE  /\ d[i] \in Nat /\ d[i] + Len(BuildConfigInterface(c, i)) <= Len(F)
              /\ \A m \in 1 .. Len(BuildConfigInterface(c, i)) :
                    F[d[i] + m] = BuildConfigInterface(c, i)[m]
  <2>1. at[i] \in 1 .. N /\ d[i] = b[at[i]] /\ ss[at[i]] = BuildConfigInterface(c, i)
    BY <1>10
  <2>2. /\ b[at[i]] \in Nat /\ b[at[i]] + Len(ss[at[i]]) <= Len(F)
        /\ \A m \in 1 .. Len(ss[at[i]]) : F[b[at[i]] + m] = ss[at[i]][m]
    BY <1>9, <2>1
  <2>3. QED
    BY <2>1, <2>2
<1>12. ASSUME NEW j \in 1 .. Len(F) PROVE \E i \in S : Inside(c, d, i, j)
  <2>1. PICK k \in 1 .. N : \E m \in 1 .. Len(ss[k]) : j = b[k] + m
    BY <1>9
  <2>2. PICK m \in 1 .. Len(ss[k]) : j = b[k] + m
    BY <2>1
  <2>3. members[k] \in S /\ at[members[k]] = k
    BY <1>1, <1>5, <1>10, <2>1 DEF N, members
  <2>4. j - d[members[k]] = m /\ m \in 1 .. Len(BuildConfigInterface(c, members[k]))
    <3>1. d[members[k]] = b[k] /\ ss[k] = BuildConfigInterface(c, members[k])
      BY <1>10, <2>3
    <3>2. b[k] \in Nat /\ m \in Int
      BY <1>9
    <3>3. QED
      BY <2>2, <3>1, <3>2
  <2>5. QED
    BY <2>3, <2>4 DEF Inside
<1>13. ASSUME NEW i \in S, NEW j \in S, NEW k \in 1 .. Len(F), Inside(c, d, i, k), Inside(c, d, j, k)
       PROVE  i = j
  <2>1. /\ at[i] \in 1 .. N /\ at[j] \in 1 .. N /\ members[at[i]] = i /\ members[at[j]] = j
        /\ k - b[at[i]] \in 1 .. Len(ss[at[i]]) /\ k - b[at[j]] \in 1 .. Len(ss[at[j]])
    BY <1>10, <1>13 DEF Inside
  <2>2. /\ b[at[i]] \in Nat /\ b[at[j]] \in Nat
        /\ Len(ss[at[i]]) \in Nat /\ Len(ss[at[j]]) \in Nat
    <3>1. \A n \in 1 .. N : b[n] \in Nat
      BY <1>9
    <3>2. \A n \in 1 .. N : Len(ss[n]) \in Nat
      BY <1>6
    <3>3. QED
      BY <2>1, <3>1, <3>2
  <2>3. /\ at[i] < at[j] => b[at[i]] + Len(ss[at[i]]) <= b[at[j]]
        /\ at[j] < at[i] => b[at[j]] + Len(ss[at[j]]) <= b[at[i]]
    BY <1>9, <2>1
  <2>4. ~(at[i] < at[j]) /\ ~(at[j] < at[i])
    <3> DEFINE bi == b[at[i]]
               bj == b[at[j]]
               li == Len(ss[at[i]])
               lj == Len(ss[at[j]])
    <3>1. bi \in Nat /\ bj \in Nat /\ li \in Nat /\ lj \in Nat /\ k \in Int
          /\ k - bi \in 1 .. li /\ k - bj \in 1 .. lj
      BY <2>1, <2>2
    <3>2. (at[i] < at[j] => bi + li <= bj) /\ (at[j] < at[i] => bj + lj <= bi)
      BY <2>3
    <3> HIDE DEF bi, bj, li, lj
    <3>3. ~(bi + li <= bj) /\ ~(bj + lj <= bi)
      BY <3>1
    <3>4. QED
      BY <3>2, <3>3
  <2>5. at[i] = at[j]
    BY <1>2, <2>1, <2>4
  <2>6. QED
    BY <2>1, <2>5
<1>14. PortsAt(c, F, d)
  BY <1>11, <1>12, <1>13 DEF PortsAt, S
<1>15. QED
  BY <1>7, <1>14 DEF F

-----------------------------------------------------------------------------
(* The whole file.                                                         *)

\* The other lines, and the one that stops CDP.
OtherLine == IgmpLine \cup MacLine \cup GlobalLine
NoCdpRunLine == Line("no cdp run", TRUE)

\* The lines of VLANs, of interfaces and the others differ.
LEMMA LinesDiffer ==
    /\ \A x \in OtherLine : x.cmd \notin {"vlan", "name"} /\ x \notin PortLine
    /\ \A x \in PortLine : x.cmd \notin {"vlan", "name"}
    /\ \A x \in VlanLine : x \notin PortLine
<1>1. \A x \in Lines("vlan", Vlans) : x.cmd = "vlan"
  BY LineCmd
<1>2. \A x \in Lines("name", {TRUE}) : x.cmd = "name"
  BY LineCmd
<1>3. \A x \in Lines("interface", Interfaces) : x.cmd = "interface"
  BY LineCmd
<1>4. \A x \in OtherLine :
         x.cmd \in {"no igmp", "mac static", "enable secret 5", "no cdp run", "cdp timer",
                    "aging-time"}
  BY LineCmd DEF OtherLine, IgmpLine, MacLine, GlobalLine
<1>5. \A x \in PortLine :
         x.cmd \in {"interface", "description", "access", "allowed", "mode", "no cdp enable"}
  BY <1>3, SubLineCmd DEF PortLine
<1>6. \A x \in VlanLine : x.cmd \in {"vlan", "name"}
  BY <1>1, <1>2 DEF VlanLine
<1>7. QED
  BY <1>4, <1>5, <1>6

\* Where a line of two sequences together comes from.
LEMMA LineOf ==
    ASSUME NEW L, NEW s \in Seq(L), NEW t \in Seq(L), NEW k \in 1 .. Len(s \o t)
    PROVE  \/ k \in 1 .. Len(s) /\ (s \o t)[k] = s[k]
           \/ k \notin 1 .. Len(s) /\ k - Len(s) \in 1 .. Len(t) /\ (s \o t)[k] = t[k - Len(s)]
<1> DEFINE u == s \o t
<1>1. Len(s) \in Nat /\ Len(t) \in Nat
  OBVIOUS
<1>2. /\ Len(u) = Len(s) + Len(t)
      /\ \A j \in 1 .. Len(s) : u[j] = s[j]
      /\ \A j \in 1 .. Len(t) : u[Len(s) + j] = t[j]
  BY Together
<1> HIDE DEF u
<1>3. k \in 1 .. Len(u)
  BY DEF u
<1>4. CASE k <= Len(s)
  <2>1. k \in 1 .. Len(s)
    BY <1>1, <1>3, <1>4
  <2>2. QED
    BY <1>2, <2>1 DEF u
<1>5. CASE ~(k <= Len(s))
  <2>1. k \notin 1 .. Len(s) /\ k - Len(s) \in 1 .. Len(t) /\ Len(s) + (k - Len(s)) = k
    BY <1>1, <1>2, <1>3, <1>5
  <2>2. u[Len(s) + (k - Len(s))] = t[k - Len(s)]
    BY <1>2, <2>1
  <2>3. QED
    BY <2>1, <2>2 DEF u
<1>6. QED
  BY <1>4, <1>5

\* Lines before those of VLANs.
LEMMA VlansAfter ==
    ASSUME NEW c, NEW L, NEW s \in Seq(L), NEW t \in Seq(L), VlansAt(c, t),
           \A x \in L : x \notin VlanLine => x.cmd \notin {"vlan", "name"},
           \A k \in 1 .. Len(s) : s[k] \notin VlanLine
    PROVE  VlansAt(c, s \o t)
<1> DEFINE u == s \o t
<1>1. Len(s) \in Nat /\ Len(t) \in Nat
  OBVIOUS
<1>2. /\ Len(u) = Len(s) + Len(t)
      /\ \A j \in 1 .. Len(t) : u[Len(s) + j] = t[j]
  BY Together
<1>3. \A k \in 1 .. Len(u) :
         \/ k \in 1 .. Len(s) /\ u[k] = s[k]
         \/ k \notin 1 .. Len(s) /\ k - Len(s) \in 1 .. Len(t) /\ u[k] = t[k - Len(s)]
  BY LineOf
<1> HIDE DEF u
<1>4. ASSUME NEW v \in SavedSet(c)
      PROVE  \E k \in 1 .. Len(u) :
                /\ u[k] = Line("vlan", v)
                /\ v \in c.named => k + 1 \in 1 .. Len(u) /\ u[k + 1] = NameLine
  <2>1. PICK k \in 1 .. Len(t) :
           /\ t[k] = Line("vlan", v)
           /\ v \in c.named => k + 1 \in 1 .. Len(t) /\ t[k + 1] = NameLine
    BY DEF VlansAt
  <2>2. Len(s) + k \in 1 .. Len(u) /\ u[Len(s) + k] = Line("vlan", v)
    BY <1>1, <1>2, <2>1
  <2>3. ASSUME v \in c.named
        PROVE  (Len(s) + k) + 1 \in 1 .. Len(u) /\ u[(Len(s) + k) + 1] = NameLine
    <3>1. k + 1 \in 1 .. Len(t) /\ t[k + 1] = NameLine
      BY <2>1, <2>3
    <3>2. u[Len(s) + (k + 1)] = NameLine
      BY <1>2, <3>1
    <3>3. Len(s) + (k + 1) = (Len(s) + k) + 1 /\ (Len(s) + k) + 1 \in 1 .. Len(u)
      BY <1>1, <1>2, <3>1
    <3>4. QED
      BY <3>2, <3>3
  <2>4. QED
    BY <2>2, <2>3
<1>5. ASSUME NEW k \in 1 .. Len(u), u[k].cmd \in {"vlan", "name"}
      PROVE  \E v \in SavedSet(c) :
                \/ u[k] = Line("vlan", v)
                \/ /\ u[k] = NameLine /\ v \in c.named
                   /\ k - 1 \in 1 .. Len(u) /\ u[k - 1] = Line("vlan", v)
  <2>1. k - Len(s) \in 1 .. Len(t) /\ u[k] = t[k - Len(s)]
    <3>1. ASSUME k \in 1 .. Len(s), u[k] = s[k] PROVE FALSE
      <4>1. s[k] \in L /\ s[k] \notin VlanLine
        BY <3>1
      <4>2. QED
        BY <1>5, <3>1, <4>1
    <3>2. QED
      BY <1>3, <3>1
  <2>2. PICK v \in SavedSet(c) :
           \/ t[k - Len(s)] = Line("vlan", v)
           \/ /\ t[k - Len(s)] = NameLine /\ v \in c.named
              /\ (k - Len(s)) - 1 \in 1 .. Len(t) /\ t[(k - Len(s)) - 1] = Line("vlan", v)
    BY <1>5, <2>1 DEF VlansAt
  <2>3. ASSUME (k - Len(s)) - 1 \in 1 .. Len(t)
        PROVE  k - 1 \in 1 .. Len(u) /\ u[k - 1] = t[(k - Len(s)) - 1]
    <3>1. k - 1 \in 1 .. Len(u) /\ Len(s) + ((k - Len(s)) - 1) = k - 1
      BY <1>1, <1>2, <2>3
    <3>2. u[Len(s) + ((k - Len(s)) - 1)] = t[(k - Len(s)) - 1]
      BY <1>2, <2>3
    <3>3. QED
      BY <3>1, <3>2
  <2>4. QED
    BY <2>1, <2>2, <2>3
<1>6. QED
  BY <1>4, <1>5 DEF VlansAt, u

\* Lines after those of VLANs.
LEMMA VlansBefore ==
    ASSUME NEW c, NEW L, NEW s \in Seq(L), NEW t \in Seq(L), VlansAt(c, s),
           \A k \in 1 .. Len(t) : t[k].cmd \notin {"vlan", "name"}
    PROVE  VlansAt(c, s \o t)
<1> DEFINE u == s \o t
<1>1. Len(s) \in Nat /\ Len(t) \in Nat
  OBVIOUS
<1>2. /\ Len(u) = Len(s) + Len(t)
      /\ \A j \in 1 .. Len(s) : u[j] = s[j]
  BY Together
<1>3. \A k \in 1 .. Len(u) :
         \/ k \in 1 .. Len(s) /\ u[k] = s[k]
         \/ k \notin 1 .. Len(s) /\ k - Len(s) \in 1 .. Len(t) /\ u[k] = t[k - Len(s)]
  BY LineOf
<1>4. \A k \in 1 .. Len(s) : k \in 1 .. Len(u)
  BY <1>1, <1>2
<1> HIDE DEF u
<1>5. ASSUME NEW v \in SavedSet(c)
      PROVE  \E k \in 1 .. Len(u) :
                /\ u[k] = Line("vlan", v)
                /\ v \in c.named => k + 1 \in 1 .. Len(u) /\ u[k + 1] = NameLine
  <2>1. PICK k \in 1 .. Len(s) :
           /\ s[k] = Line("vlan", v)
           /\ v \in c.named => k + 1 \in 1 .. Len(s) /\ s[k + 1] = NameLine
    BY DEF VlansAt
  <2>2. QED
    BY <1>2, <1>4, <2>1
<1>6. ASSUME NEW k \in 1 .. Len(u), u[k].cmd \in {"vlan", "name"}
      PROVE  \E v \in SavedSet(c) :
                \/ u[k] = Line("vlan", v)
                \/ /\ u[k] = NameLine /\ v \in c.named
                   /\ k - 1 \in 1 .. Len(u) /\ u[k - 1] = Line("vlan", v)
  <2>1. k \in 1 .. Len(s) /\ u[k] = s[k]
    BY <1>3, <1>6
  <2>2. PICK v \in SavedSet(c) :
           \/ s[k] = Line("vlan", v)
           \/ /\ s[k] = NameLine /\ v \in c.named
              /\ k - 1 \in 1 .. Len(s) /\ s[k - 1] = Line("vlan", v)
    BY <1>6, <2>1 DEF VlansAt
  <2>3. QED
    BY <1>2, <1>4, <2>1, <2>2
<1>7. QED
  BY <1>5, <1>6 DEF VlansAt, u

\* The section of an interface, as a sequence.
LEMMA BuildIn ==
    ASSUME NEW c \in Config, NEW i \in DOMAIN c.ports
    PROVE  /\ i \in Interfaces /\ c.ports[i] \in Port
           /\ Section(i, c.ports[i], BuildConfigInterface(c, i))
           /\ Has(BuildConfigInterface(c, i), DescriptionLine) <=> i \in c.described
           /\ BuildConfigInterface(c, i) \in Seq(PortLine)
           /\ Len(BuildConfigInterface(c, i)) \in Nat
<1>1. i \in Interfaces /\ c.ports[i] \in Port
  BY PortsOf DEF Config
<1>2. /\ Section(i, c.ports[i], BuildConfigInterface(c, i))
      /\ Has(BuildConfigInterface(c, i), DescriptionLine) <=> i \in c.described
  BY <1>1, SectionIs
<1>3. BuildConfigInterface(c, i) \in Seq(PortLine)
  BY <1>2 DEF Section, Piece
<1>4. QED
  BY <1>1, <1>2, <1>3

\* Lines before those of interfaces.
LEMMA PortsAfter ==
    ASSUME NEW c \in Config, NEW L, NEW s \in Seq(L), NEW t \in Seq(L), NEW b,
           PortsAt(c, t, b), \A k \in 1 .. Len(s) : s[k] \notin PortLine
    PROVE  PortsAt(c, s \o t, [i \in DOMAIN c.ports |-> Len(s) + b[i]])
<1> DEFINE u == s \o t
           S == DOMAIN c.ports
           d == [i \in S |-> Len(s) + b[i]]
<1>1. Len(s) \in Nat /\ Len(t) \in Nat
  OBVIOUS
<1>2. /\ Len(u) = Len(s) + Len(t)
      /\ \A j \in 1 .. Len(t) : u[Len(s) + j] = t[j]
  BY Together
<1>3. \A k \in 1 .. Len(u) :
         \/ k \in 1 .. Len(s) /\ u[k] = s[k]
         \/ k \notin 1 .. Len(s) /\ k - Len(s) \in 1 .. Len(t) /\ u[k] = t[k - Len(s)]
  BY LineOf
<1>4. \A i \in S : d[i] = Len(s) + b[i]
  OBVIOUS
<1> HIDE DEF u, d
<1>5. \A i \in S : /\ b[i] \in Nat /\ b[i] + Len(BuildConfigInterface(c, i)) <= Len(t)
                   /\ \A m \in 1 .. Len(BuildConfigInterface(c, i)) :
                         t[b[i] + m] = BuildConfigInterface(c, i)[m]
  BY DEF PortsAt
<1>6. ASSUME NEW i \in S, NEW k \in 1 .. Len(u)
      PROVE  Inside(c, d, i, k) <=> Inside(c, b, i, k - Len(s))
  <2>1. b[i] \in Nat /\ k \in Int
    BY <1>5
  <2>2. k - d[i] = (k - Len(s)) - b[i]
    BY <1>1, <1>4, <2>1
  <2>3. QED
    BY <2>2 DEF Inside
<1>7. ASSUME NEW i \in S
      PROVE  /\ d[i] \in Nat /\ d[i] + Len(BuildConfigInterface(c, i)) <= Len(u)
             /\ \A m \in 1 .. Len(BuildConfigInterface(c, i)) :
                   u[d[i] + m] = BuildConfigInterface(c, i)[m]
  <2> DEFINE n == Len(BuildConfigInterface(c, i))
  <2>1. b[i] \in Nat /\ b[i] + n <= Len(t) /\ d[i] = Len(s) + b[i] /\ n \in Nat
    BY <1>4, <1>5, BuildIn
  <2>2. ASSUME NEW m \in 1 .. n PROVE u[d[i] + m] = BuildConfigInterface(c, i)[m]
    <3>1. b[i] + m \in 1 .. Len(t) /\ Len(s) + (b[i] + m) = d[i] + m
      <4> DEFINE bi == b[i]
                 di == d[i]
                 ls == Len(s)
                 lt == Len(t)
      <4>1. /\ bi \in Nat /\ bi + n <= lt /\ di = ls + bi /\ n \in Nat
            /\ ls \in Nat /\ lt \in Nat /\ m \in 1 .. n
        BY <1>1, <2>1, <2>2
      <4> HIDE DEF bi, di, ls, lt, n
      <4>2. bi + m \in 1 .. lt /\ ls + (bi + m) = di + m
        BY <4>1
      <4>3. QED
        BY <4>2 DEF bi, di, ls, lt
    <3>2. u[Len(s) + (b[i] + m)] = t[b[i] + m]
      BY <1>2, <3>1
    <3>3. t[b[i] + m] = BuildConfigInterface(c, i)[m]
      BY <1>5, <2>2
    <3>4. QED
      BY <3>1, <3>2, <3>3
  <2>3. d[i] \in Nat /\ d[i] + n <= Len(u)
    BY <1>1, <1>2, <2>1
  <2>4. QED
    BY <2>2, <2>3
<1>8. ASSUME NEW k \in 1 .. Len(u), u[k] \in PortLine
      PROVE  \E i \in S : Inside(c, d, i, k)
  <2>1. k - Len(s) \in 1 .. Len(t) /\ u[k] = t[k - Len(s)]
    BY <1>3, <1>8
  <2>2. \E i \in S : Inside(c, b, i, k - Len(s))
    BY <1>8, <2>1 DEF PortsAt
  <2>3. QED
    BY <1>6, <2>2
<1>9. ASSUME NEW i \in S, NEW j \in S, NEW k \in 1 .. Len(u),
             Inside(c, d, i, k), Inside(c, d, j, k)
      PROVE  i = j
  <2>1. Inside(c, b, i, k - Len(s)) /\ Inside(c, b, j, k - Len(s))
    BY <1>6, <1>9
  <2>2. k - Len(s) \in 1 .. Len(t)
    <3>1. b[i] \in Nat /\ b[i] + Len(BuildConfigInterface(c, i)) <= Len(t)
          /\ Len(BuildConfigInterface(c, i)) \in Nat
      BY <1>5, BuildIn
    <3>2. (k - Len(s)) - b[i] \in 1 .. Len(BuildConfigInterface(c, i)) /\ k - Len(s) \in Int
      BY <1>1, <2>1 DEF Inside
    <3> DEFINE bi == b[i]
               lb == Len(BuildConfigInterface(c, i))
               lt == Len(t)
               j1 == k - Len(s)
    <3>3. /\ bi \in Nat /\ bi + lb <= lt /\ lb \in Nat /\ lt \in Nat
          /\ j1 - bi \in 1 .. lb /\ j1 \in Int
      BY <1>1, <3>1, <3>2
    <3> HIDE DEF bi, lb, lt, j1
    <3>4. j1 \in 1 .. lt
      BY <3>3
    <3>5. QED
      BY <3>4 DEF j1, lt
  <2>3. QED
    BY <2>1, <2>2 DEF PortsAt
<1>10. PortsAt(c, u, d)
  BY <1>7, <1>8, <1>9 DEF PortsAt
<1>11. QED
  BY <1>10 DEF u, d

\* Lines after those of interfaces.
LEMMA PortsBefore ==
    ASSUME NEW c \in Config, NEW L, NEW s \in Seq(L), NEW t \in Seq(L), NEW b,
           PortsAt(c, s, b), \A k \in 1 .. Len(t) : t[k] \notin PortLine
    PROVE  PortsAt(c, s \o t, b)
<1> DEFINE u == s \o t
           S == DOMAIN c.ports
<1>1. Len(s) \in Nat /\ Len(t) \in Nat
  OBVIOUS
<1>2. /\ Len(u) = Len(s) + Len(t)
      /\ \A j \in 1 .. Len(s) : u[j] = s[j]
  BY Together
<1>3. \A k \in 1 .. Len(u) :
         \/ k \in 1 .. Len(s) /\ u[k] = s[k]
         \/ k \notin 1 .. Len(s) /\ k - Len(s) \in 1 .. Len(t) /\ u[k] = t[k - Len(s)]
  BY LineOf
<1> HIDE DEF u
<1>5. \A i \in S : /\ b[i] \in Nat /\ b[i] + Len(BuildConfigInterface(c, i)) <= Len(s)
                   /\ \A m \in 1 .. Len(BuildConfigInterface(c, i)) :
                         s[b[i] + m] = BuildConfigInterface(c, i)[m]
  BY DEF PortsAt
<1>7. ASSUME NEW i \in S
      PROVE  /\ b[i] \in Nat /\ b[i] + Len(BuildConfigInterface(c, i)) <= Len(u)
             /\ \A m \in 1 .. Len(BuildConfigInterface(c, i)) :
                   u[b[i] + m] = BuildConfigInterface(c, i)[m]
  <2> DEFINE n == Len(BuildConfigInterface(c, i))
  <2>1. b[i] \in Nat /\ b[i] + n <= Len(s) /\ n \in Nat
    BY <1>5, BuildIn
  <2>2. ASSUME NEW m \in 1 .. n PROVE u[b[i] + m] = BuildConfigInterface(c, i)[m]
    <3>1. b[i] + m \in 1 .. Len(s)
      BY <1>1, <2>1, <2>2
    <3>2. u[b[i] + m] = s[b[i] + m]
      BY <1>2, <3>1
    <3>3. s[b[i] + m] = BuildConfigInterface(c, i)[m]
      BY <1>5, <2>2
    <3>4. QED
      BY <3>2, <3>3
  <2>3. b[i] + n <= Len(u)
    BY <1>1, <1>2, <2>1
  <2>4. QED
    BY <2>1, <2>2, <2>3
<1>8. ASSUME NEW k \in 1 .. Len(u), u[k] \in PortLine
      PROVE  \E i \in S : Inside(c, b, i, k)
  <2>1. k \in 1 .. Len(s) /\ u[k] = s[k]
    BY <1>3, <1>8
  <2>2. QED
    BY <1>8, <2>1 DEF PortsAt
<1>9. ASSUME NEW i \in S, NEW j \in S, NEW k \in 1 .. Len(u),
             Inside(c, b, i, k), Inside(c, b, j, k)
      PROVE  i = j
  <2>2. k \in 1 .. Len(s)
    <3>1. b[i] \in Nat /\ b[i] + Len(BuildConfigInterface(c, i)) <= Len(s)
          /\ Len(BuildConfigInterface(c, i)) \in Nat
      BY <1>5, BuildIn
    <3>2. k - b[i] \in 1 .. Len(BuildConfigInterface(c, i)) /\ k \in Int
      BY <1>9 DEF Inside
    <3> DEFINE bi == b[i]
               lb == Len(BuildConfigInterface(c, i))
               ls == Len(s)
    <3>3. /\ bi \in Nat /\ bi + lb <= ls /\ lb \in Nat /\ ls \in Nat
          /\ k - bi \in 1 .. lb /\ k \in Int
      BY <1>1, <3>1, <3>2
    <3> HIDE DEF bi, lb, ls
    <3>4. k \in 1 .. ls
      BY <3>3
    <3>5. QED
      BY <3>4 DEF ls
  <2>3. QED
    BY <1>9, <2>2 DEF PortsAt
<1>10. PortsAt(c, u, b)
  BY <1>7, <1>8, <1>9 DEF PortsAt
<1>11. QED
  BY <1>10 DEF u

\* Three sequences together.
LEMMA Regrouped ==
    ASSUME NEW L, NEW s \in Seq(L), NEW t \in Seq(L), NEW u \in Seq(L)
    PROVE  (s \o t) \o u = s \o (t \o u)
OBVIOUS

\* The lines that are neither of VLANs nor of interfaces, by what writes them.
LEMMA OtherLinesIn ==
    ASSUME NEW c \in Config
    PROVE  /\ LineIf(c.secret, "enable secret 5", TRUE) \in Seq(Lines("enable secret 5", {TRUE}))
           /\ LineIf(c.age # "default", "aging-time", c.age) \in Seq(GlobalLine)
           /\ LineIf(~c.cdp.run, "no cdp run", TRUE) \in Seq(GlobalLine)
           /\ LineIf(c.cdp.timer # "default", "cdp timer", c.cdp.timer) \in Seq(GlobalLine)
           /\ CdpLines(c) \in Seq(GlobalLine)
<1>1. LineIf(c.secret, "enable secret 5", TRUE) \in Seq(Lines("enable secret 5", {TRUE}))
  BY LineIfIn
<1>2. LineIf(c.age # "default", "aging-time", c.age) \in Seq(GlobalLine)
  <2>1. CASE c.age = "default"
    <3>1. LineIf(c.age # "default", "aging-time", c.age) = << >>
      BY <2>1 DEF LineIf
    <3>2. << >> \in Seq(GlobalLine)
      OBVIOUS
    <3>3. QED
      BY <3>1, <3>2, Zenon
  <2>2. CASE c.age # "default"
    <3>1. c.age \in {"unset", "other"}
      BY <2>2 DEF Config
    <3>2. Line("aging-time", c.age) \in GlobalLine
      BY <3>1, Zenon DEF GlobalLine, Lines
    <3>3. LineIf(c.age # "default", "aging-time", c.age) = <<Line("aging-time", c.age)>>
      BY <2>2, Zenon DEF LineIf
    <3>4. QED
      BY <3>2, <3>3, OneLine, Zenon
  <2>3. QED
    BY <2>1, <2>2
<1>3. /\ LineIf(~c.cdp.run, "no cdp run", TRUE) \in Seq(GlobalLine)
      /\ LineIf(c.cdp.timer # "default", "cdp timer", c.cdp.timer) \in Seq(GlobalLine)
      /\ CdpLines(c) \in Seq(GlobalLine)
  <2>1. LineIf(~c.cdp.run, "no cdp run", TRUE) \in Seq(GlobalLine)
    <3>1. LineIf(~c.cdp.run, "no cdp run", TRUE) \in Seq(Lines("no cdp run", {TRUE}))
      BY LineIfIn
    <3>2. Lines("no cdp run", {TRUE}) \subseteq GlobalLine
      BY DEF GlobalLine
    <3>3. QED
      BY <3>1, <3>2, SeqWiden
  <2>2. LineIf(c.cdp.timer # "default", "cdp timer", c.cdp.timer) \in Seq(GlobalLine)
    <3>1. CASE c.cdp.timer = "default"
      <4>1. LineIf(c.cdp.timer # "default", "cdp timer", c.cdp.timer) = << >>
        BY <3>1 DEF LineIf
      <4>2. << >> \in Seq(GlobalLine)
        OBVIOUS
      <4>3. QED
        BY <4>1, <4>2, Zenon
    <3>2. CASE c.cdp.timer # "default"
      <4>1. c.cdp.timer \in {"other"}
        BY <3>2 DEF Config
      <4>2. Line("cdp timer", c.cdp.timer) \in GlobalLine
        BY <4>1, Zenon DEF GlobalLine, Lines
      <4>3. LineIf(c.cdp.timer # "default", "cdp timer", c.cdp.timer)
              = <<Line("cdp timer", c.cdp.timer)>>
        BY <3>2, Zenon DEF LineIf
      <4>4. QED
        BY <4>2, <4>3, OneLine, Zenon
    <3>3. QED
      BY <3>1, <3>2
  <2> DEFINE s == LineIf(~c.cdp.run, "no cdp run", TRUE)
             t == LineIf(c.cdp.timer # "default", "cdp timer", c.cdp.timer)
  <2>3. CdpLines(c) = s \o t
    BY Zenon DEF CdpLines
  <2>4. s \in Seq(GlobalLine) /\ t \in Seq(GlobalLine)
    BY <2>1, <2>2, Zenon
  <2>5. CdpLines(c) \in Seq(GlobalLine)
    <3> HIDE DEF s, t
    <3>1. QED
      BY <2>3, <2>4, Together
  <2>6. QED
    BY <2>4, <2>5, Zenon
<1>4. QED
  BY <1>1, <1>2, <1>3

\* What a saved configuration is: its lines say of VLANs and of interfaces what
\* the configuration holds, and CDP is switched off after those of interfaces.
FileOf(c, f) ==
    /\ f \in Seq(AnyLine) /\ VlansAt(c, f) /\ \E b : PortsAt(c, f, b)
    /\ \A k, l \in 1 .. Len(f) : f[k] = NoCdpRunLine /\ f[l] \in PortLine => l < k

\* build_config_global() writes such a file.
LEMMA FileIs == ASSUME NEW c \in Config PROVE FileOf(c, BuildConfigGlobal(c))
<1> DEFINE s1 == LineIf(c.secret, "enable secret 5", TRUE)
           s2 == IgmpLines(c)
           s3 == VlanPart(c)
           s4 == PortPart(c)
           s5 == MacLines(c)
           s6 == LineIf(c.age # "default", "aging-time", c.age)
           s7 == CdpLines(c)
           f2 == s1 \o s2
           f3 == f2 \o s3
           f4 == f3 \o s4
           f5 == f4 \o s5
           f6 == f5 \o s6
           f == f6 \o s7
           Early == Lines("enable secret 5", {TRUE}) \cup IgmpLine
           Late == MacLine \cup GlobalLine
<1>1. /\ Early \subseteq AnyLine /\ Late \subseteq AnyLine
      /\ VlanLine \subseteq AnyLine /\ PortLine \subseteq AnyLine
      /\ Early \subseteq OtherLine /\ Late \subseteq OtherLine
  BY DEF AnyLine, OtherLine, GlobalLine
<1>2. /\ Lines("enable secret 5", {TRUE}) \subseteq Early /\ IgmpLine \subseteq Early
      /\ MacLine \subseteq Late /\ GlobalLine \subseteq Late
  OBVIOUS
<1>3. BuildConfigGlobal(c) = f
  BY DEF BuildConfigGlobal, VlanPart, PortPart
<1>4. /\ s1 \in Seq(Early) /\ s2 \in Seq(Early)
      /\ s5 \in Seq(Late) /\ s6 \in Seq(Late) /\ s7 \in Seq(Late)
  <2> HIDE DEF Early, Late
  <2>1. s1 \in Seq(Early) /\ s6 \in Seq(Late) /\ s7 \in Seq(Late)
    <3>1. /\ s1 \in Seq(Lines("enable secret 5", {TRUE})) /\ s6 \in Seq(GlobalLine)
          /\ s7 \in Seq(GlobalLine)
      BY OtherLinesIn
    <3> HIDE DEF s1, s6, s7
    <3>2. QED
      BY <1>2, <3>1, SeqWiden
  <2>2. s2 \in Seq(Early) /\ s5 \in Seq(Late)
    BY <1>2, IgmpLinesIn, MacLinesIn, SeqWiden
  <2>3. QED
    BY <2>1, <2>2
<1>5. s3 \in Seq(VlanLine) /\ VlansAt(c, s3)
  BY VlanPartIs
<1>6. s4 \in Seq(PortLine) /\ \E b : PortsAt(c, s4, b)
  BY PortPartIs
<1>7. /\ s1 \in Seq(AnyLine) /\ s2 \in Seq(AnyLine) /\ s3 \in Seq(AnyLine) /\ s4 \in Seq(AnyLine)
      /\ s5 \in Seq(AnyLine) /\ s6 \in Seq(AnyLine) /\ s7 \in Seq(AnyLine)
  <2> HIDE DEF Early, Late, s1, s2, s3, s4, s5, s6, s7
  <2>1. QED
    BY <1>1, <1>4, <1>5, <1>6, SeqWiden
<1>8. \A x \in Early \cup Late : x.cmd \notin {"vlan", "name"} /\ x \notin PortLine /\ x \notin VlanLine
  <2>1. \A x \in VlanLine : x.cmd \in {"vlan", "name"}
    BY LineCmd DEF VlanLine
  <2> HIDE DEF Early, Late
  <2>2. QED
    BY <1>1, <2>1, LinesDiffer
<1>9. \A x \in Early \cup VlanLine \cup PortLine : x # NoCdpRunLine
  <2>1. NoCdpRunLine.cmd = "no cdp run"
    BY LineFields, Zenon DEF NoCdpRunLine
  <2>2. \A x \in Early : x.cmd \in {"enable secret 5", "no igmp"}
    BY LineCmd DEF IgmpLine
  <2>3. \A x \in VlanLine : x.cmd \in {"vlan", "name"}
    BY LineCmd DEF VlanLine
  <2>4. \A x \in PortLine :
           x.cmd \in {"interface", "description", "access", "allowed", "mode", "no cdp enable"}
    <3>1. \A x \in Lines("interface", Interfaces) : x.cmd = "interface"
      BY LineCmd
    <3>2. QED
      BY <3>1, SubLineCmd DEF PortLine
  <2> HIDE DEF Early
  <2>5. QED
    BY <2>1, <2>2, <2>3, <2>4
<1> HIDE DEF Early, Late, s1, s2, s3, s4, s5, s6, s7
<1>10. f2 \in Seq(Early)
  BY <1>4
<1> HIDE DEF f2
<1>11. f2 \in Seq(AnyLine) /\ f3 \in Seq(AnyLine) /\ Len(f3) = Len(f2) + Len(s3)
  BY <1>1, <1>7, <1>10, SeqWiden, Together
<1>12. \A k \in 1 .. Len(f2) : f2[k] \in Early
  BY <1>10
<1>13. VlansAt(c, f3)
  <2>1. \A k \in 1 .. Len(f2) : f2[k] \notin VlanLine
    BY <1>8, <1>12
  <2>2. f2 \in Seq(Early \cup VlanLine) /\ s3 \in Seq(Early \cup VlanLine)
    <3>1. Early \subseteq Early \cup VlanLine /\ VlanLine \subseteq Early \cup VlanLine
      OBVIOUS
    <3>2. QED
      BY <1>5, <1>10, <3>1, SeqWiden
  <2>3. \A x \in Early \cup VlanLine : x \notin VlanLine => x.cmd \notin {"vlan", "name"}
    BY <1>8
  <2>4. QED
    BY <1>5, <2>1, <2>2, <2>3, VlansAfter
<1>14. \A k \in 1 .. Len(f3) : f3[k] \in Early \cup VlanLine
  <2>1. f2 \in Seq(Early \cup VlanLine) /\ s3 \in Seq(Early \cup VlanLine)
    <3>1. Early \subseteq Early \cup VlanLine /\ VlanLine \subseteq Early \cup VlanLine
      OBVIOUS
    <3>2. QED
      BY <1>5, <1>10, <3>1, SeqWiden
  <2>2. f3 \in Seq(Early \cup VlanLine)
    BY <2>1, Together
  <2>3. QED
    BY <2>2
<1> HIDE DEF f3
<1>15. f4 \in Seq(AnyLine) /\ Len(f4) = Len(f3) + Len(s4)
  BY <1>7, <1>11, Together
<1>16. VlansAt(c, f4)
  <2>1. \A k \in 1 .. Len(s4) : s4[k].cmd \notin {"vlan", "name"}
    BY <1>6, LinesDiffer
  <2>2. QED
    BY <1>7, <1>11, <1>13, <2>1, VlansBefore
<1>17. \E b : PortsAt(c, f4, b)
  <2>1. \A k \in 1 .. Len(f3) : f3[k] \notin PortLine
    BY <1>8, <1>14, LinesDiffer
  <2>2. QED
    BY <1>6, <1>7, <1>11, <2>1, PortsAfter
<1>18. \A k \in 1 .. Len(f4) : f4[k] # NoCdpRunLine
  <2>1. \A k \in 1 .. Len(f4) :
           \/ k \in 1 .. Len(f3) /\ f4[k] = f3[k]
           \/ k - Len(f3) \in 1 .. Len(s4) /\ f4[k] = s4[k - Len(f3)]
    <3>1. f3 \in Seq(AnyLine) /\ s4 \in Seq(AnyLine)
      BY <1>7, <1>11
    <3>2. \A p, q \in Seq(AnyLine) : \A k \in 1 .. Len(p \o q) :
             \/ k \in 1 .. Len(p) /\ (p \o q)[k] = p[k]
             \/ k - Len(p) \in 1 .. Len(q) /\ (p \o q)[k] = q[k - Len(p)]
      BY LineOf
    <3>3. QED
      BY <3>1, <3>2, Zenon
  <2> HIDE DEF f4
  <2>2. \A k \in 1 .. Len(s4) : s4[k] \in PortLine
    BY <1>6
  <2>3. QED
    BY <1>9, <1>14, <2>1, <2>2
<1> HIDE DEF f4
<1>19. f5 \in Seq(AnyLine) /\ f6 \in Seq(AnyLine) /\ f \in Seq(AnyLine)
  BY <1>7, <1>15, Together
<1> DEFINE tail == s5 \o (s6 \o s7)
<1>20. f = f4 \o tail /\ tail \in Seq(Late)
  <2>1. s6 \o s7 \in Seq(Late)
    BY <1>4
  <2>2. tail \in Seq(Late)
    BY <1>4, <2>1, Together
  <2>3. f = f4 \o tail
    <3>1. f4 \in Seq(AnyLine) /\ s5 \in Seq(AnyLine) /\ s6 \in Seq(AnyLine) /\ s7 \in Seq(AnyLine)
      BY <1>7, <1>15
    <3> DEFINE u == s6 \o s7
               g == f4 \o s5
    <3>2. u \in Seq(AnyLine)
      BY <3>1
    <3>3. g \in Seq(AnyLine)
      BY <3>1
    <3> HIDE DEF u
    <3>4. (f4 \o s5) \o u = f4 \o (s5 \o u)
      BY <3>1, <3>2
    <3> HIDE DEF g
    <3>5. (g \o s6) \o s7 = g \o (s6 \o s7)
      BY <3>1, <3>3
    <3>6. QED
      BY <3>4, <3>5, Zenon DEF u, g
  <2>4. QED
    BY <2>2, <2>3
<1> HIDE DEF f, tail
<1>21. tail \in Seq(AnyLine)
  BY <1>1, <1>20, SeqWiden
<1>22. \A k \in 1 .. Len(tail) : tail[k] \in Late
  BY <1>20
<1>23. (\A k \in 1 .. Len(tail) : tail[k].cmd \notin {"vlan", "name"})
       /\ (\A k \in 1 .. Len(tail) : tail[k] \notin PortLine)
  BY <1>8, <1>22
<1>24. VlansAt(c, f)
  BY <1>15, <1>16, <1>20, <1>21, <1>23, VlansBefore
<1>25. \E b : PortsAt(c, f, b)
  BY <1>15, <1>17, <1>20, <1>21, <1>23, PortsBefore
<1>26. ASSUME NEW k \in 1 .. Len(f), NEW l \in 1 .. Len(f), f[k] = NoCdpRunLine, f[l] \in PortLine
       PROVE  l < k
  <2>1. \A j \in 1 .. Len(f) :
           \/ j \in 1 .. Len(f4) /\ f[j] = f4[j]
           \/ j \notin 1 .. Len(f4) /\ j - Len(f4) \in 1 .. Len(tail) /\ f[j] = tail[j - Len(f4)]
    BY <1>15, <1>20, <1>21, LineOf
  <2>2. k \notin 1 .. Len(f4)
    BY <1>18, <1>26, <2>1
  <2>3. l \in 1 .. Len(f4)
    BY <1>23, <1>26, <2>1
  <2>4. Len(f4) \in Nat /\ k \in Nat \ {0}
    BY <1>15, <1>19
  <2>5. QED
    BY <2>2, <2>3, <2>4
<1>27. QED
  BY <1>3, <1>19, <1>24, <1>25, <1>26 DEF FileOf

-----------------------------------------------------------------------------
(* The order of the file, and its lines of the whole switch.               *)

\* The part of the file that a line is in.
MainRank(x) ==
    IF x.cmd = "enable secret 5" THEN 0
    ELSE IF x.cmd = "no igmp" THEN 1
    ELSE IF x.cmd \in {"vlan", "name"} THEN 2
    ELSE IF x.cmd = "mac static" THEN 4
    ELSE IF x.cmd = "aging-time" THEN 5
    ELSE IF x.cmd \in {"no cdp run", "cdp timer"} THEN 6
    ELSE 3

\* The lines of the whole switch.
TimerLine(t) == Line("cdp timer", t)
AgingLine(t) == Line("aging-time", t)
StaticLine(m) == Line("mac static", m)
NoIgmpLine(v) == Line("no igmp", v)

\* Lines of the parts from lo to hi, in their order.
Ordered(s, lo, hi) ==
    /\ s \in Seq(AnyLine)
    /\ \A k \in 1 .. Len(s) : MainRank(s[k]) \in lo .. hi
    /\ \A k, l \in 1 .. Len(s) : k < l => MainRank(s[k]) <= MainRank(s[l])

\* The parts of the lines, by what writes them.
LEMMA MainRanks ==
    /\ \A x \in Lines("enable secret 5", {TRUE}) : MainRank(x) = 0
    /\ \A x \in IgmpLine : MainRank(x) = 1
    /\ \A x \in VlanLine : MainRank(x) = 2
    /\ \A x \in PortLine : MainRank(x) = 3
    /\ \A x \in MacLine : MainRank(x) = 4
    /\ \A t : MainRank(AgingLine(t)) = 5 /\ MainRank(TimerLine(t)) = 6
    /\ \A t : MainRank(StaticLine(t)) = 4 /\ MainRank(NoIgmpLine(t)) = 1
    /\ MainRank(NoCdpRunLine) = 6
<1>1. \A cmd, args : \A x \in Lines(cmd, args) : x.cmd = cmd
  BY LineCmd
<1>2. \A x \in PortLine :
         x.cmd \in {"interface", "description", "access", "allowed", "mode", "no cdp enable"}
  BY <1>1, SubLineCmd DEF PortLine
<1>3. \A x \in PortLine : MainRank(x) = 3
  BY <1>2 DEF MainRank
<1>4. \A cmd, arg : Line(cmd, arg).cmd = cmd
  BY LineFields, Zenon
<1>5. \A t : MainRank(AgingLine(t)) = 5 /\ MainRank(TimerLine(t)) = 6
  <2> SUFFICES ASSUME NEW t PROVE MainRank(AgingLine(t)) = 5 /\ MainRank(TimerLine(t)) = 6
    OBVIOUS
  <2>1. AgingLine(t).cmd = "aging-time" /\ TimerLine(t).cmd = "cdp timer"
    BY <1>4, Zenon DEF AgingLine, TimerLine
  <2>2. QED
    BY <2>1, Zenon DEF MainRank
<1>6. \A t : MainRank(StaticLine(t)) = 4 /\ MainRank(NoIgmpLine(t)) = 1
  <2> SUFFICES ASSUME NEW t PROVE MainRank(StaticLine(t)) = 4 /\ MainRank(NoIgmpLine(t)) = 1
    OBVIOUS
  <2>1. StaticLine(t).cmd = "mac static" /\ NoIgmpLine(t).cmd = "no igmp"
    BY <1>4, Zenon DEF StaticLine, NoIgmpLine
  <2>2. QED
    BY <2>1, Zenon DEF MainRank
<1>7. MainRank(NoCdpRunLine) = 6
  <2>1. NoCdpRunLine.cmd = "no cdp run"
    BY <1>4, Zenon DEF NoCdpRunLine
  <2>2. QED
    BY <2>1, Zenon DEF MainRank
<1>8. \A x \in VlanLine : MainRank(x) = 2
  BY <1>1 DEF VlanLine, MainRank
<1>9. \A x \in IgmpLine : MainRank(x) = 1
  BY <1>1 DEF IgmpLine, MainRank
<1>10. \A x \in MacLine : MainRank(x) = 4
  BY <1>1 DEF MacLine, MainRank
<1>11. \A x \in Lines("enable secret 5", {TRUE}) : MainRank(x) = 0
  <2> SUFFICES ASSUME NEW x \in Lines("enable secret 5", {TRUE}) PROVE MainRank(x) = 0
    OBVIOUS
  <2>1. x.cmd = "enable secret 5"
    BY <1>1, Zenon
  <2>2. QED
    BY <2>1 DEF MainRank
<1>12. QED
  BY <1>3, <1>5, <1>6, <1>7, <1>8, <1>9, <1>10, <1>11, Zenon

\* Lines of one part.
LEMMA OrderedOne ==
    ASSUME NEW s \in Seq(AnyLine), NEW n \in Nat, \A x : Has(s, x) => MainRank(x) = n
    PROVE  Ordered(s, n, n)
<1>1. \A k \in 1 .. Len(s) : MainRank(s[k]) = n
  BY DEF Has
<1>2. QED
  BY <1>1 DEF Ordered

\* Lines of one kind.
LEMMA OrderedOf ==
    ASSUME NEW L, L \subseteq AnyLine, NEW s \in Seq(L), NEW n \in Nat, \A x \in L : MainRank(x) = n
    PROVE  Ordered(s, n, n) /\ \A x : Has(s, x) => MainRank(x) = n
<1>1. s \in Seq(AnyLine)
  BY SeqWiden
<1>2. \A x : Has(s, x) => MainRank(x) = n
  BY DEF Has
<1>3. QED
  BY <1>1, <1>2, OrderedOne

\* Lines of two parts, one after the other.
LEMMA OrderedTogether ==
    ASSUME NEW a \in Nat, NEW b \in Nat, NEW d \in Nat, NEW e \in Nat, a <= b, b <= d, d <= e,
           NEW s, Ordered(s, a, b), NEW t, Ordered(t, d, e)
    PROVE  /\ Ordered(s \o t, a, e)
           /\ \A x : Has(s \o t, x) <=> Has(s, x) \/ Has(t, x)
<1> DEFINE u == s \o t
<1>1. s \in Seq(AnyLine) /\ t \in Seq(AnyLine) /\ Len(s) \in Nat /\ Len(t) \in Nat
  BY DEF Ordered
<1>2. /\ u \in Seq(AnyLine) /\ Len(u) = Len(s) + Len(t)
      /\ \A j \in 1 .. Len(s) : u[j] = s[j]
      /\ \A j \in 1 .. Len(t) : u[Len(s) + j] = t[j]
  BY <1>1, Together
<1>3. \A k \in 1 .. Len(u) :
         \/ k \in 1 .. Len(s) /\ u[k] = s[k]
         \/ k \notin 1 .. Len(s) /\ k - Len(s) \in 1 .. Len(t) /\ u[k] = t[k - Len(s)]
  BY <1>1, LineOf
<1> HIDE DEF u
<1>4. /\ \A k \in 1 .. Len(s) : MainRank(s[k]) \in a .. b
      /\ \A k \in 1 .. Len(t) : MainRank(t[k]) \in d .. e
  BY DEF Ordered
<1>5. \A k \in 1 .. Len(u) : MainRank(u[k]) \in a .. e
  <2> SUFFICES ASSUME NEW k \in 1 .. Len(u) PROVE MainRank(u[k]) \in a .. e
    OBVIOUS
  <2>1. MainRank(u[k]) \in a .. b \/ MainRank(u[k]) \in d .. e
    BY <1>3, <1>4
  <2>2. QED
    BY <2>1
<1>6. ASSUME NEW k \in 1 .. Len(u), NEW l \in 1 .. Len(u), k < l
      PROVE  MainRank(u[k]) <= MainRank(u[l])
  <2>1. CASE l \in 1 .. Len(s)
    <3>1. k \in 1 .. Len(s)
      BY <1>1, <1>6, <2>1
    <3>2. u[k] = s[k] /\ u[l] = s[l]
      BY <1>2, <2>1, <3>1
    <3>3. QED
      BY <1>6, <2>1, <3>1, <3>2 DEF Ordered
  <2>2. CASE l \notin 1 .. Len(s) /\ k \in 1 .. Len(s)
    <3>1. u[k] = s[k] /\ l - Len(s) \in 1 .. Len(t) /\ u[l] = t[l - Len(s)]
      BY <1>2, <1>3, <2>2
    <3>2. MainRank(u[k]) \in a .. b /\ MainRank(u[l]) \in d .. e
      BY <1>4, <2>2, <3>1
    <3>3. QED
      BY <3>2
  <2>3. CASE l \notin 1 .. Len(s) /\ k \notin 1 .. Len(s)
    <3>1. /\ k - Len(s) \in 1 .. Len(t) /\ u[k] = t[k - Len(s)]
          /\ l - Len(s) \in 1 .. Len(t) /\ u[l] = t[l - Len(s)]
      BY <1>3, <2>3
    <3>2. k - Len(s) < l - Len(s)
      BY <1>1, <1>6
    <3>3. QED
      BY <3>1, <3>2 DEF Ordered
  <2>4. QED
    BY <2>1, <2>2, <2>3
<1>7. ASSUME NEW x PROVE Has(u, x) <=> Has(s, x) \/ Has(t, x)
  <2>1. ASSUME NEW k \in 1 .. Len(s) PROVE k \in 1 .. Len(u) /\ u[k] = s[k]
    BY <1>1, <1>2
  <2>2. ASSUME NEW k \in 1 .. Len(t) PROVE Len(s) + k \in 1 .. Len(u) /\ u[Len(s) + k] = t[k]
    BY <1>1, <1>2
  <2>3. QED
    BY <1>3, <2>1, <2>2 DEF Has
<1>8. QED
  BY <1>2, <1>5, <1>6, <1>7 DEF Ordered, u

\* The lines of a sequence of one.
LEMMA HasOne == \A x, y : Has(<<x>>, y) <=> y = x
<1> SUFFICES ASSUME NEW x, NEW y PROVE Has(<<x>>, y) <=> y = x
  OBVIOUS
<1> DEFINE s == <<x>>
<1>1. Len(s) = 1 /\ s[1] = x
  OBVIOUS
<1> HIDE DEF s
<1>2. Has(s, y) <=> y = x
  BY <1>1 DEF Has
<1>3. QED
  BY <1>2 DEF s

\* The lines of a sequence of none or one.
LEMMA HasIf ==
    ASSUME NEW condition \in BOOLEAN, NEW cmd, NEW arg
    PROVE  \A x : Has(LineIf(condition, cmd, arg), x) <=> condition /\ x = Line(cmd, arg)
<1>1. CASE condition
  <2>1. LineIf(condition, cmd, arg) = <<Line(cmd, arg)>>
    BY <1>1, Zenon DEF LineIf
  <2>2. QED
    BY <1>1, <2>1, HasOne, Zenon
<1>2. CASE ~condition
  <2>1. LineIf(condition, cmd, arg) = << >>
    BY <1>2, Zenon DEF LineIf
  <2>2. \A x : ~Has(<< >>, x)
    BY DEF Has
  <2>3. QED
    BY <1>2, <2>1, <2>2, Zenon
<1>3. QED
  BY <1>1, <1>2

\* get_mac(): the static lines are those of the static and learned addresses.
LEMMA MacLinesAre ==
    ASSUME NEW c \in Config
    PROVE  \A x : Has(MacLines(c), x) <=>
                     \E m \in c.static \cup c.learned : x = StaticLine(m)
<1> DEFINE S == c.static \cup c.learned
           members == SetToSeq(S)
           N == Cardinality(S)
           ss == [k \in 1 .. N |-> <<Line("mac static", members[k])>>]
           F == MacLines(c)
<1>1. Enumerates(members, S) /\ S \subseteq Address
  BY ConfigFinite, SetEnumerated
<1>2. /\ N \in Nat /\ members \in [1 .. N -> S] /\ DOMAIN members = 1 .. N
      /\ \A m \in S : \E k \in 1 .. N : members[k] = m
  BY <1>1 DEF Enumerates
<1>3. F = FlattenSeq(ss)
  BY <1>2 DEF MacLines, ForEach
<1>4. \A k \in 1 .. N : <<Line("mac static", members[k])>> \in Seq(MacLine)
  <2> SUFFICES ASSUME NEW k \in 1 .. N PROVE <<Line("mac static", members[k])>> \in Seq(MacLine)
    OBVIOUS
  <2>1. members[k] \in Address
    BY <1>1, <1>2
  <2> HIDE DEF members, N
  <2>2. Line("mac static", members[k]) \in MacLine
    BY <2>1, Zenon DEF MacLine, Lines
  <2>3. QED
    BY <2>2, OneLine, Zenon
<1>5. ss \in [1 .. N -> Seq(MacLine)]
  BY <1>4, Zenon
<1>6. \A k \in 1 .. N : ss[k] = <<Line("mac static", members[k])>>
  BY Zenon
<1> HIDE DEF ss, N, members, S, F
<1>7. F \in Seq(MacLine) /\ \E b : Laid(F, ss, N, b)
  BY <1>2, <1>3, <1>5, Flattened
<1>8. PICK b : Laid(F, ss, N, b)
  BY <1>7
<1>9. \A k \in 1 .. N : Len(ss[k]) = 1 /\ ss[k][1] = Line("mac static", members[k])
  <2> SUFFICES ASSUME NEW k \in 1 .. N
               PROVE  Len(ss[k]) = 1 /\ ss[k][1] = Line("mac static", members[k])
    OBVIOUS
  <2> DEFINE x == Line("mac static", members[k])
  <2>1. ss[k] = <<x>>
    BY <1>6
  <2> HIDE DEF x
  <2>2. Len(ss[k]) = 1 /\ ss[k][1] = x
    BY <2>1
  <2>3. QED
    BY <2>2 DEF x
<1>10. ASSUME NEW j \in 1 .. Len(F) PROVE \E m \in S : F[j] = Line("mac static", m)
  <2>1. PICK k \in 1 .. N : \E i \in 1 .. Len(ss[k]) : j = b[k] + i
    BY <1>8, Zenon DEF Laid
  <2>2. PICK i \in 1 .. Len(ss[k]) : j = b[k] + i
    BY <2>1
  <2>3. i = 1
    <3>1. Len(ss[k]) = 1
      BY <1>9, Zenon
    <3>2. QED
      BY <2>2, <3>1
  <2>4. F[b[k] + i] = ss[k][i]
    BY <1>8, <2>2, Zenon DEF Laid
  <2>5. members[k] \in S
    BY <1>2
  <2>6. F[j] = Line("mac static", members[k])
    BY <1>9, <2>2, <2>3, <2>4, Zenon
  <2>7. QED
    BY <2>5, <2>6
<1>11. ASSUME NEW m \in S PROVE \E j \in 1 .. Len(F) : F[j] = Line("mac static", m)
  <2>1. PICK k \in 1 .. N : members[k] = m
    BY <1>2
  <2>2. /\ b[k] \in Nat /\ b[k] + Len(ss[k]) <= Len(F)
        /\ \A i \in 1 .. Len(ss[k]) : F[b[k] + i] = ss[k][i]
    BY <1>8, Zenon DEF Laid
  <2>3. Len(ss[k]) = 1 /\ ss[k][1] = Line("mac static", m)
    BY <1>9, <2>1, Zenon
  <2> DEFINE j == b[k] + 1
  <2>4. j \in 1 .. Len(F) /\ F[j] = ss[k][1]
    <3>1. Len(ss[k]) = 1
      BY <2>3, Zenon
    <3>2. QED
      BY <1>7, <2>2, <3>1
  <2>5. F[j] = Line("mac static", m)
    BY <2>3, <2>4, Zenon
  <2>6. QED
    BY <2>4, <2>5
<1>12. QED
  BY <1>10, <1>11 DEF Has, F, S, StaticLine

\* What the file says of the whole switch, and that its parts are in order.
OthersAt(c, f) ==
    /\ Ordered(f, 0, 6)
    /\ Has(f, NoCdpRunLine) <=> ~c.cdp.run
    /\ \A t : Has(f, TimerLine(t)) <=> t = c.cdp.timer /\ t # "default"
    /\ \A t : Has(f, AgingLine(t)) <=> t = c.age /\ t # "default"
    /\ \A m : Has(f, StaticLine(m)) <=> m \in c.static \cup c.learned
    /\ ~c.snooping => \A v : Has(f, NoIgmpLine(v)) <=> v = 0

\* Lines of the whole switch differ in what they give.
LEMMA OthersDiffer ==
    /\ \A t, u : TimerLine(t) = TimerLine(u) <=> t = u
    /\ \A t, u : AgingLine(t) = AgingLine(u) <=> t = u
    /\ \A t, u : StaticLine(t) = StaticLine(u) <=> t = u
    /\ \A t, u : NoIgmpLine(t) = NoIgmpLine(u) <=> t = u
    /\ \A t : TimerLine(t) # NoCdpRunLine
<1> DEFINE arg(x) == x.arg
<1>1. \A t : /\ arg(TimerLine(t)) = t /\ arg(AgingLine(t)) = t
             /\ arg(StaticLine(t)) = t /\ arg(NoIgmpLine(t)) = t
  BY LineFields, Zenon DEF TimerLine, AgingLine, StaticLine, NoIgmpLine
<1>2. \A t : TimerLine(t).cmd = "cdp timer"
  BY LineFields, Zenon DEF TimerLine
<1>3. NoCdpRunLine.cmd = "no cdp run"
  BY LineFields, Zenon DEF NoCdpRunLine
<1>4. \A t : TimerLine(t) # NoCdpRunLine
  BY <1>2, <1>3
<1> HIDE DEF arg
<1>5. QED
  BY <1>1, <1>4

\* build_config_global() writes the file in that order.
LEMMA OthersAre == ASSUME NEW c \in Config PROVE OthersAt(c, BuildConfigGlobal(c))
<1> DEFINE s1 == LineIf(c.secret, "enable secret 5", TRUE)
           s2 == IgmpLines(c)
           s3 == VlanPart(c)
           s4 == PortPart(c)
           s5 == MacLines(c)
           s6 == LineIf(c.age # "default", "aging-time", c.age)
           s7 == CdpLines(c)
           Secret == Lines("enable secret 5", {TRUE})
           f == s1 \o s2 \o s3 \o s4 \o s5 \o s6 \o s7
<1>1. BuildConfigGlobal(c) = f
  BY DEF BuildConfigGlobal, VlanPart, PortPart
<1>2. /\ Secret \subseteq AnyLine /\ IgmpLine \subseteq AnyLine
      /\ VlanLine \subseteq AnyLine /\ PortLine \subseteq AnyLine /\ MacLine \subseteq AnyLine
  BY DEF AnyLine, GlobalLine
<1>3. Ordered(s1, 0, 0) /\ Ordered(s2, 1, 1) /\ Ordered(s3, 2, 2) /\ Ordered(s4, 3, 3)
      /\ Ordered(s5, 4, 4)
      /\ (\A x : Has(s1, x) => MainRank(x) = 0) /\ (\A x : Has(s2, x) => MainRank(x) = 1)
      /\ (\A x : Has(s3, x) => MainRank(x) = 2) /\ (\A x : Has(s4, x) => MainRank(x) = 3)
      /\ (\A x : Has(s5, x) => MainRank(x) = 4)
  <2>1. /\ s1 \in Seq(Secret) /\ s2 \in Seq(IgmpLine)
        /\ s3 \in Seq(VlanLine) /\ s4 \in Seq(PortLine) /\ s5 \in Seq(MacLine)
    BY OtherLinesIn, IgmpLinesIn, VlanPartIs, PortPartIs, MacLinesIn
  <2>2. /\ \A x \in Secret : MainRank(x) = 0
        /\ \A x \in IgmpLine : MainRank(x) = 1
        /\ \A x \in VlanLine : MainRank(x) = 2
        /\ \A x \in PortLine : MainRank(x) = 3
        /\ \A x \in MacLine : MainRank(x) = 4
    BY MainRanks, Zenon
  <2> HIDE DEF s1, s2, s3, s4, s5, Secret
  <2>3. Ordered(s1, 0, 0) /\ \A x : Has(s1, x) => MainRank(x) = 0
    BY <1>2, <2>1, <2>2, OrderedOf
  <2>4. Ordered(s2, 1, 1) /\ \A x : Has(s2, x) => MainRank(x) = 1
    BY <1>2, <2>1, <2>2, OrderedOf
  <2>5. Ordered(s3, 2, 2) /\ \A x : Has(s3, x) => MainRank(x) = 2
    BY <1>2, <2>1, <2>2, OrderedOf
  <2>6. Ordered(s4, 3, 3) /\ \A x : Has(s4, x) => MainRank(x) = 3
    BY <1>2, <2>1, <2>2, OrderedOf
  <2>7. Ordered(s5, 4, 4) /\ \A x : Has(s5, x) => MainRank(x) = 4
    BY <1>2, <2>1, <2>2, OrderedOf
  <2>8. QED
    BY <2>3, <2>4, <2>5, <2>6, <2>7
<1>4. \A x : Has(s6, x) <=> c.age # "default" /\ x = AgingLine(c.age)
  <2> DEFINE given == c.age # "default"
  <2>1. given \in BOOLEAN
    OBVIOUS
  <2> HIDE DEF given
  <2>2. \A x : Has(LineIf(given, "aging-time", c.age), x) <=> given /\ x = AgingLine(c.age)
    BY <2>1, HasIf, Zenon DEF AgingLine
  <2>3. QED
    BY <2>2, Zenon DEF given
<1> DEFINE s8 == LineIf(~c.cdp.run, "no cdp run", TRUE)
           s9 == LineIf(c.cdp.timer # "default", "cdp timer", c.cdp.timer)
<1>5. s7 = s8 \o s9
  BY Zenon DEF CdpLines
<1>6. \A x : Has(s8, x) <=> ~c.cdp.run /\ x = NoCdpRunLine
  <2> DEFINE off == ~c.cdp.run
  <2>1. off \in BOOLEAN
    OBVIOUS
  <2> HIDE DEF off
  <2>2. \A x : Has(LineIf(off, "no cdp run", TRUE), x) <=> off /\ x = NoCdpRunLine
    BY <2>1, HasIf, Zenon DEF NoCdpRunLine
  <2>3. QED
    BY <2>2, Zenon DEF off
<1>7. \A x : Has(s9, x) <=> c.cdp.timer # "default" /\ x = TimerLine(c.cdp.timer)
  <2> DEFINE given == c.cdp.timer # "default"
  <2>1. given \in BOOLEAN
    OBVIOUS
  <2> HIDE DEF given
  <2>2. \A x : Has(LineIf(given, "cdp timer", c.cdp.timer), x) <=>
                  given /\ x = TimerLine(c.cdp.timer)
    BY <2>1, HasIf, Zenon DEF TimerLine
  <2>3. QED
    BY <2>2, Zenon DEF given
<1>8. \A x : Has(s5, x) <=> \E m \in c.static \cup c.learned : x = StaticLine(m)
  BY MacLinesAre
<1>9. ~c.snooping => \A x : Has(s2, x) <=> x = NoIgmpLine(0)
  <2>1. ~c.snooping => s2 = <<NoIgmpLine(0)>>
    BY Zenon DEF IgmpLines, NoIgmpLine
  <2>2. QED
    BY <2>1, HasOne, Zenon
<1>10. /\ \A u : MainRank(AgingLine(u)) = 5 /\ MainRank(TimerLine(u)) = 6
       /\ \A u : MainRank(StaticLine(u)) = 4 /\ MainRank(NoIgmpLine(u)) = 1
       /\ MainRank(NoCdpRunLine) = 6
  BY MainRanks, Zenon
<1>11. /\ Ordered(s6, 5, 5) /\ \A x : Has(s6, x) => MainRank(x) = 5
       /\ Ordered(s8, 6, 6) /\ \A x : Has(s8, x) => MainRank(x) = 6
       /\ Ordered(s9, 6, 6) /\ \A x : Has(s9, x) => MainRank(x) = 6
  <2>1. GlobalLine \subseteq AnyLine
    BY DEF AnyLine
  <2>2. s6 \in Seq(AnyLine) /\ s8 \in Seq(AnyLine) /\ s9 \in Seq(AnyLine)
    BY <2>1, OtherLinesIn, SeqWiden
  <2> HIDE DEF s6, s8, s9
  <2>3. \A x : Has(s6, x) => MainRank(x) = 5
    BY <1>4, <1>10
  <2>4. \A x : Has(s8, x) => MainRank(x) = 6
    BY <1>6, <1>10
  <2>5. \A x : Has(s9, x) => MainRank(x) = 6
    BY <1>7, <1>10
  <2>6. QED
    BY <2>2, <2>3, <2>4, <2>5, OrderedOne
<1> HIDE DEF s1, s2, s3, s4, s5, s6, s8, s9
<1>12. Ordered(s7, 6, 6) /\ \A x : Has(s7, x) <=> Has(s8, x) \/ Has(s9, x)
  BY <1>5, <1>11, OrderedTogether
<1> HIDE DEF s7
<1>13. /\ Ordered(s1 \o s2, 0, 1)
       /\ \A x : Has(s1 \o s2, x) <=> Has(s1, x) \/ Has(s2, x)
  BY <1>3, OrderedTogether
<1>14. /\ Ordered(s1 \o s2 \o s3, 0, 2)
       /\ \A x : Has(s1 \o s2 \o s3, x) <=> Has(s1 \o s2, x) \/ Has(s3, x)
  BY <1>3, <1>13, OrderedTogether
<1>15. /\ Ordered(s1 \o s2 \o s3 \o s4, 0, 3)
       /\ \A x : Has(s1 \o s2 \o s3 \o s4, x) <=> Has(s1 \o s2 \o s3, x) \/ Has(s4, x)
  BY <1>3, <1>14, OrderedTogether
<1>16. /\ Ordered(s1 \o s2 \o s3 \o s4 \o s5, 0, 4)
       /\ \A x : Has(s1 \o s2 \o s3 \o s4 \o s5, x) <=> Has(s1 \o s2 \o s3 \o s4, x) \/ Has(s5, x)
  BY <1>3, <1>15, OrderedTogether
<1>17. /\ Ordered(s1 \o s2 \o s3 \o s4 \o s5 \o s6, 0, 5)
       /\ \A x : Has(s1 \o s2 \o s3 \o s4 \o s5 \o s6, x) <=>
                    Has(s1 \o s2 \o s3 \o s4 \o s5, x) \/ Has(s6, x)
  BY <1>11, <1>16, OrderedTogether
<1>18. /\ Ordered(f, 0, 6)
       /\ \A x : Has(f, x) <=> Has(s1 \o s2 \o s3 \o s4 \o s5 \o s6, x) \/ Has(s7, x)
  BY <1>12, <1>17, OrderedTogether
<1> HIDE DEF f
<1>19. \A x : Has(f, x) <=> \/ Has(s1, x) \/ Has(s2, x) \/ Has(s3, x) \/ Has(s4, x)
                            \/ Has(s5, x) \/ Has(s6, x) \/ Has(s8, x) \/ Has(s9, x)
  BY <1>12, <1>13, <1>14, <1>15, <1>16, <1>17, <1>18
<1>20. Has(f, NoCdpRunLine) <=> ~c.cdp.run
  <2>1. Has(f, NoCdpRunLine) <=> Has(s8, NoCdpRunLine) \/ Has(s9, NoCdpRunLine)
    BY <1>3, <1>10, <1>11, <1>19
  <2>2. ~Has(s9, NoCdpRunLine)
    BY <1>7, OthersDiffer
  <2>3. QED
    BY <1>6, <2>1, <2>2
<1>21. ASSUME NEW t PROVE Has(f, TimerLine(t)) <=> t = c.cdp.timer /\ t # "default"
  <2>1. Has(f, TimerLine(t)) <=> Has(s8, TimerLine(t)) \/ Has(s9, TimerLine(t))
    BY <1>3, <1>10, <1>11, <1>19
  <2>2. ~Has(s8, TimerLine(t))
    BY <1>6, OthersDiffer
  <2>3. Has(s9, TimerLine(t)) <=> t = c.cdp.timer /\ t # "default"
    BY <1>7, OthersDiffer
  <2>4. QED
    BY <2>1, <2>2, <2>3
<1>22. ASSUME NEW t PROVE Has(f, AgingLine(t)) <=> t = c.age /\ t # "default"
  <2>1. Has(f, AgingLine(t)) <=> Has(s6, AgingLine(t))
    BY <1>3, <1>10, <1>11, <1>19
  <2>2. QED
    BY <1>4, <2>1, OthersDiffer
<1>23. ASSUME NEW m PROVE Has(f, StaticLine(m)) <=> m \in c.static \cup c.learned
  <2>1. Has(f, StaticLine(m)) <=> Has(s5, StaticLine(m))
    BY <1>3, <1>10, <1>11, <1>19
  <2>2. QED
    BY <1>8, <2>1, OthersDiffer
<1>24. ASSUME ~c.snooping, NEW v PROVE Has(f, NoIgmpLine(v)) <=> v = 0
  <2>1. Has(f, NoIgmpLine(v)) <=> Has(s2, NoIgmpLine(v))
    BY <1>3, <1>10, <1>11, <1>19
  <2>2. QED
    BY <1>9, <1>24, <2>1, OthersDiffer
<1>25. QED
  BY <1>1, <1>18, <1>20, <1>21, <1>22, <1>23, <1>24 DEF OthersAt

-----------------------------------------------------------------------------
(* The invariant.                                                          *)

\* The lines that are left are the last ones of the file.
TailOf(r, f) ==
    /\ Len(r) <= Len(f)
    /\ \A k \in 1 .. Len(r) : r[k] = f[Len(f) - Len(r) + k]

\* What holds in every state of the running and of the saved configuration.
ConfigInv ==
    /\ Sound(live) /\ Reached(live) /\ Sound(saved) /\ Reached(saved)
    /\ saved.at = <<"config">> /\ (phase # "loading" => live.at = <<"config">>)
    /\ present \subseteq Interfaces /\ commands \in 0 .. MaxCommands
    /\ file \in Seq(AnyLine) /\ (file # << >> => file = BuildConfigGlobal(saved))
    /\ rest \in Seq(AnyLine) /\ TailOf(rest, file)
    /\ phase \in {"running", "loading", "loaded"} /\ (phase = "loading" <=> rest # << >>)

\* An operator's command keeps the invariant.
LEMMA GivesKeeps ==
    ASSUME ConfigInv, NEW c, Kept(live, c), Gives(c)
    PROVE  ConfigInv'
<1> DEFINE d == [c EXCEPT !.at = <<"config">>]
<1>1. /\ phase # "loading" /\ commands < MaxCommands /\ live' = Flushed(live, d)
      /\ commands' = commands + 1 /\ phase' = "running" /\ present' = present
      /\ file' = file /\ saved' = saved /\ rest' = rest
  BY DEF Gives
<1>2. Kept(live, d) /\ d.at = <<"config">> /\ d \in Config
  BY MainMenu DEF Kept, SameAddresses, Sound
<1> HIDE DEF d
<1>3. Sound(Flushed(live, d)) /\ Reached(Flushed(live, d))
  BY <1>2, FlushedSound DEF ConfigInv
<1>4. Flushed(live, d).at = <<"config">>
  BY <1>2 DEF Flushed, Config
<1>5. commands' \in 0 .. MaxCommands
  BY <1>1, SavedConfigAssumption DEF ConfigInv, SavedConfigAssumption
<1>6. QED
  BY <1>1, <1>3, <1>4, <1>5 DEF ConfigInv, TailOf

\* The commands of the main menu.
LEMMA MainCommandsKept ==
    ASSUME ConfigInv, phase # "loading"
    PROVE  /\ \A v \in Vlans, given \in BOOLEAN : Kept(live, CmdNameVlan(CmdVlan(live, v), given))
           /\ \A v \in Vlans : Kept(live, CmdNoVlan(live, v))
           /\ \A v \in Vlans, on \in BOOLEAN : Kept(live, CmdIpIgmpSnooping(live, v, on))
           /\ \A on \in BOOLEAN : Kept(live, SetGlobalIgmp(live, on)) /\ Kept(live, CmdCdpRun(live, on))
           /\ \A t \in {"default", "other"} :
                 Kept(live, CmdCdpTimer(live, t)) /\ Kept(live, CmdSetAging(live, t))
           /\ Kept(live, CmdSetEnPw(live)) /\ Kept(live, CmdNoEnSecret(live))
<1>1. Sound(live) /\ live.at = <<"config">>
  BY DEF ConfigInv
<1>2. ASSUME NEW v \in Vlans, NEW given \in BOOLEAN
      PROVE  Kept(live, CmdNameVlan(CmdVlan(live, v), given))
  <2>1. Sound(CmdVlan(live, v)) /\ SameAddresses(live, CmdVlan(live, v))
    BY <1>1, VlanSound
  <2>2. /\ Sound(CmdNameVlan(CmdVlan(live, v), given))
        /\ SameAddresses(CmdVlan(live, v), CmdNameVlan(CmdVlan(live, v), given))
    BY <2>1, NameVlanSound
  <2>3. QED
    BY <2>1, <2>2 DEF Kept, SameAddresses
<1>3. \A v \in Vlans : Kept(live, CmdNoVlan(live, v))
  BY <1>1, NoVlanSound DEF Kept
<1>4. \A on \in BOOLEAN : /\ Kept(live, SetGlobalIgmp(live, on))
                          /\ \A v \in Vlans : Kept(live, CmdIpIgmpSnooping(live, v, on))
  BY <1>1, IgmpSound DEF Kept
<1>5. /\ \A on \in BOOLEAN : Kept(live, CmdCdpRun(live, on))
      /\ \A t \in {"default", "other"} : Kept(live, CmdCdpTimer(live, t))
      /\ Kept(live, CmdSetEnPw(live)) /\ Kept(live, CmdNoEnSecret(live))
  BY <1>1, GlobalSound DEF Kept
<1>6. \A t \in {"default", "other"} : Kept(live, CmdSetAging(live, t))
  BY <1>1, AgingSound DEF Kept
<1>7. QED
  BY <1>2, <1>3, <1>4, <1>5, <1>6

\* A command that changes the record of an interface.
LEMMA SetsKept ==
    ASSUME ConfigInv, NEW i \in present, NEW p \in Port
    PROVE  LET c == UseIfEther(live, i) IN
           /\ c.ports[i] \in Port /\ Kept(live, c)
           /\ Kept(live, [c EXCEPT !.ports[i] = p])
<1> DEFINE c == UseIfEther(live, i)
<1>1. i \in Interfaces /\ Sound(live)
  BY DEF ConfigInv
<1>2. Sound(c) /\ SameAddresses(live, c) /\ i \in DOMAIN c.ports
  BY <1>1, UseSound
<1> HIDE DEF c
<1>3. c.ports[i] \in Port
  BY <1>2, PortsOf DEF Sound, Config
<1>4. Sound([c EXCEPT !.ports[i] = p]) /\ SameAddresses(c, [c EXCEPT !.ports[i] = p])
  BY <1>2, PortSound
<1>5. Kept(live, c) /\ Kept(live, [c EXCEPT !.ports[i] = p])
  BY <1>2, <1>4 DEF Kept, SameAddresses
<1>6. QED
  BY <1>3, <1>5 DEF c

\* The first line of the rest is loaded.
LEMMA LoadLineKeeps == ASSUME ConfigInv, LoadLine PROVE ConfigInv'
<1> DEFINE c == Flushed(live, LoadedLine(live, Head(rest)))
<1>1. /\ phase = "loading" /\ rest # << >> /\ rest' = Tail(rest)
      /\ phase' = IF Len(rest) = 1 THEN "loaded" ELSE "loading"
      /\ live' = IF Len(rest) = 1 THEN [c EXCEPT !.at = <<"config">>] ELSE c
      /\ present' = present /\ file' = file /\ saved' = saved /\ commands' = commands
  BY DEF LoadLine
<1>2. Head(rest) \in AnyLine /\ Len(rest) \in Nat \ {0}
  BY <1>1 DEF ConfigInv
<1>3. Kept(live, LoadedLine(live, Head(rest)))
  BY <1>2, LoadedKept DEF ConfigInv
<1>4. Sound(c) /\ Reached(c)
  BY <1>3, FlushedSound DEF ConfigInv
<1> HIDE DEF c
<1>5. Sound(live') /\ Reached(live') /\ (phase' # "loading" => live'.at = <<"config">>)
  BY <1>1, <1>4, MainMenu
<1>6. /\ rest' \in Seq(AnyLine) /\ Len(rest') = Len(rest) - 1
      /\ \A k \in 1 .. Len(rest') : rest'[k] = rest[k + 1]
  BY <1>1 DEF ConfigInv
<1>7. TailOf(rest', file')
  <2>1. Len(file) \in Nat /\ Len(rest) <= Len(file)
    BY DEF ConfigInv, TailOf
  <2>2. ASSUME NEW k \in 1 .. Len(rest') PROVE rest'[k] = file[Len(file) - Len(rest') + k]
    <3>1. k + 1 \in 1 .. Len(rest) /\ Len(file) - Len(rest') + k = Len(file) - Len(rest) + (k + 1)
      <4> DEFINE lr == Len(rest)
                 lf == Len(file)
                 lt == Len(rest')
      <4>1. lr \in Nat \ {0} /\ lf \in Nat /\ lt = lr - 1 /\ k \in 1 .. lt
        BY <1>2, <1>6, <2>1, <2>2
      <4> HIDE DEF lr, lf, lt
      <4>2. k + 1 \in 1 .. lr /\ lf - lt + k = lf - lr + (k + 1)
        BY <4>1
      <4>3. QED
        BY <4>2 DEF lr, lf, lt
    <3>2. rest[k + 1] = file[Len(file) - Len(rest) + (k + 1)]
      BY <3>1 DEF ConfigInv, TailOf
    <3>3. QED
      BY <1>6, <2>2, <3>1, <3>2
  <2>3. Len(rest') <= Len(file)
    BY <1>2, <1>6, <2>1
  <2>4. QED
    BY <1>1, <2>2, <2>3 DEF TailOf
<1>8. phase' \in {"running", "loading", "loaded"} /\ (phase' = "loading" <=> rest' # << >>)
  <2>1. Len(rest') = 0 <=> Len(rest) = 1
    BY <1>2, <1>6
  <2>2. rest' # << >> <=> Len(rest') # 0
    BY <1>6
  <2>3. QED
    BY <1>1, <2>1, <2>2
<1>9. QED
  BY <1>1, <1>5, <1>6, <1>7, <1>8 DEF ConfigInv

\* Every step keeps the invariant.
LEMMA ConfigKept == ASSUME ConfigInv, [Next]_vars PROVE ConfigInv'
<1>1. CASE VlanCommand
  <2>1. phase # "loading"
    BY <1>1 DEF VlanCommand, Gives
  <2>2. PICK v \in Vlans :
           \/ \E given \in BOOLEAN : Gives(CmdNameVlan(CmdVlan(live, v), given))
           \/ Gives(CmdNoVlan(live, v))
           \/ \E on \in BOOLEAN : Gives(CmdIpIgmpSnooping(live, v, on))
    BY <1>1, Zenon DEF VlanCommand
  <2>3. QED
    BY <2>1, <2>2, MainCommandsKept, GivesKeeps, Zenon
<1>2. CASE GlobalCommand
  <2>1. phase # "loading"
    BY <1>2 DEF GlobalCommand, Gives
  <2>2. \/ \E on \in BOOLEAN : Gives(SetGlobalIgmp(live, on)) \/ Gives(CmdCdpRun(live, on))
        \/ \E t \in {"default", "other"} :
              Gives(CmdCdpTimer(live, t)) \/ Gives(CmdSetAging(live, t))
        \/ Gives(CmdSetEnPw(live)) \/ Gives(CmdNoEnSecret(live))
    BY <1>2, Zenon DEF GlobalCommand
  <2>3. QED
    BY <2>1, <2>2, MainCommandsKept, GivesKeeps, Zenon
<1>3. CASE InterfaceCommand
  <2>1. PICK i \in present : LET c == UseIfEther(live, i) IN
           \/ \E v \in Vlans : Gives([c EXCEPT !.ports[i] = CmdAccVlan(@, v)])
           \/ \E mode \in {"access", "trunk"} :
                 Gives([c EXCEPT !.ports[i] = CmdSetMode(@, mode, c)])
           \/ Gives([c EXCEPT !.ports[i] = CmdNoMode(@, c)])
           \/ \E how \in {"set", "add", "remove", "except"}, vs \in Lists :
                 Gives([c EXCEPT !.ports[i] = CmdTrunkVlan(@, how, vs)])
           \/ \E on \in BOOLEAN : Gives([c EXCEPT !.ports[i] = CmdCdpIfSet(@, on, c, i)])
           \/ Gives(CmdIfDesc(c, i))
           \/ \E down \in BOOLEAN : Gives(CmdShutdown(c, i, down))
           \/ Gives(RemoveIfEther(live, i))
           \/ \E v \in Vlans : Gives(CmdMacStatic(live, i, v))
    BY <1>3, Zenon DEF InterfaceCommand, Sets
  <2> DEFINE c == UseIfEther(live, i)
             p == c.ports[i]
  <2>2. /\ i \in Interfaces /\ Sound(live) /\ Reached(live)
    BY DEF ConfigInv
  <2>3. /\ p \in Port /\ Kept(live, c)
        /\ \A r \in Port : Kept(live, [c EXCEPT !.ports[i] = r])
    <3>1. \A r \in Port : p \in Port /\ Kept(live, c) /\ Kept(live, [c EXCEPT !.ports[i] = r])
      BY SetsKept
    <3>2. NewPort(live, i) \in Port
      BY NewPortIn
    <3>3. QED
      BY <3>1, <3>2
  <2>4. /\ \A v \in Vlans : CmdAccVlan(p, v) \in Port
        /\ \A mode \in {"access", "trunk"} : CmdSetMode(p, mode, c) \in Port
        /\ CmdNoMode(p, c) \in Port
        /\ \A how \in {"set", "add", "remove", "except"}, vs \in Lists :
              CmdTrunkVlan(p, how, vs) \in Port
        /\ \A on \in BOOLEAN : CmdCdpIfSet(p, on, c, i) \in Port
    <3>1. Lists \subseteq SUBSET Vlans
      BY SavedConfigAssumption DEF SavedConfigAssumption, Vlans
    <3> HIDE DEF p, c
    <3>2. QED
      BY <2>3, <3>1, PortCommandsIn
  <2>5. ASSUME NEW r \in Port, Gives([c EXCEPT !.ports[i] = r]) PROVE ConfigInv'
    BY <2>3, <2>5, GivesKeeps, Zenon
  <2>6. CASE \E v \in Vlans : Gives([c EXCEPT !.ports[i] = CmdAccVlan(p, v)])
    BY <2>4, <2>5, <2>6, Zenon
  <2>7. CASE \E mode \in {"access", "trunk"} :
                Gives([c EXCEPT !.ports[i] = CmdSetMode(p, mode, c)])
    BY <2>4, <2>5, <2>7, Zenon
  <2>8. CASE Gives([c EXCEPT !.ports[i] = CmdNoMode(p, c)])
    BY <2>4, <2>5, <2>8, Zenon
  <2>9. CASE \E how \in {"set", "add", "remove", "except"}, vs \in Lists :
                Gives([c EXCEPT !.ports[i] = CmdTrunkVlan(p, how, vs)])
    BY <2>4, <2>5, <2>9, Zenon
  <2>10. CASE \E on \in BOOLEAN : Gives([c EXCEPT !.ports[i] = CmdCdpIfSet(p, on, c, i)])
    BY <2>4, <2>5, <2>10, Zenon
  <2>11. CASE Gives(CmdIfDesc(c, i)) \/ \E down \in BOOLEAN : Gives(CmdShutdown(c, i, down))
    <3>1. Sound(c) /\ SameAddresses(live, c)
      BY <2>2, UseSound
    <3> HIDE DEF c
    <3>2. Kept(live, CmdIfDesc(c, i)) /\ \A down \in BOOLEAN : Kept(live, CmdShutdown(c, i, down))
      BY <2>2, <3>1, LinkSound DEF Kept, SameAddresses
    <3>3. QED
      BY <2>11, <3>2, GivesKeeps, Zenon
  <2>12. CASE Gives(RemoveIfEther(live, i))
    <3>1. live.at = <<"config">>
      BY <2>12 DEF Gives, ConfigInv
    <3>2. Kept(live, RemoveIfEther(live, i))
      BY <2>2, <3>1, RemoveSound DEF Kept
    <3>3. QED
      BY <2>12, <3>2, GivesKeeps
  <2>13. CASE \E v \in Vlans : Gives(CmdMacStatic(live, i, v))
    <3>1. \A v \in Vlans : Kept(live, CmdMacStatic(live, i, v))
      BY <2>2, MacSound DEF Kept
    <3>2. QED
      BY <2>13, <3>1, GivesKeeps, Zenon
  <2>14. QED
    BY <2>1, <2>6, <2>7, <2>8, <2>9, <2>10, <2>11, <2>12, <2>13, Zenon
<1>4. CASE Learn
  <2>1. PICK i \in present, v \in Vlans :
           /\ Device(live, i, v) # "none" /\ <<i, v>> \notin live.static
           /\ Gives([live EXCEPT !.learned = @ \cup {<<i, v>>}])
    BY <1>4, Zenon DEF Learn
  <2> DEFINE c == [live EXCEPT !.learned = @ \cup {<<i, v>>}]
  <2>2. /\ Sound(live) /\ Reached(live) /\ live \in Config
    BY DEF ConfigInv, Sound
  <2>3. <<i, v>> \in Address
    BY <2>1, <2>2, DeviceOf
  <2>4. c \in Config
    BY <2>2, <2>3 DEF Config
  <2>5. /\ c.vlans = live.vlans /\ c.named = live.named /\ c.snooped = live.snooped
        /\ c.ports = live.ports /\ c.at = live.at /\ c.static = live.static
        /\ c.learned = live.learned \cup {<<i, v>>}
    BY <2>2 DEF Config
  <2> HIDE DEF c
  <2>6. Sound(c)
    BY <2>1, <2>2, <2>4, <2>5 DEF Sound, AtRecord
  <2>7. Reached(c)
    <3>1. \A j, w : Device(c, j, w) = Device(live, j, w)
      BY <2>5, SameDevice
    <3>2. \A m \in c.static \cup c.learned : Device(live, m[1], m[2]) # "none"
      BY <2>1, <2>2, <2>5 DEF Reached
    <3>3. QED
      BY <3>1, <3>2 DEF Reached
  <2>8. Kept(live, c) /\ Gives(c)
    BY <2>1, <2>6, <2>7 DEF Kept, c
  <2>9. QED
    BY <2>8, GivesKeeps
<1>5. CASE WriteMemory
  <2>1. /\ phase = "running" /\ file' = BuildConfigGlobal(live) /\ saved' = live
        /\ live' = live /\ present' = present /\ rest' = rest /\ phase' = phase
        /\ commands' = commands
    BY <1>5 DEF WriteMemory
  <2>2. file' \in Seq(AnyLine)
    BY <2>1, FileIs DEF ConfigInv, Sound, FileOf
  <2>3. rest = << >>
    BY <2>1 DEF ConfigInv
  <2>4. TailOf(rest', file')
    BY <2>1, <2>2, <2>3 DEF TailOf
  <2>5. QED
    BY <2>1, <2>2, <2>4 DEF ConfigInv
<1>6. CASE Restart
  <2>1. /\ phase # "loading" /\ file # << >> /\ present' \subseteq Interfaces
        /\ live' = Boot /\ rest' = file /\ phase' = "loading"
        /\ file' = file /\ saved' = saved /\ commands' = commands
    BY <1>6 DEF Restart
  <2>2. TailOf(rest', file')
    BY <2>1 DEF TailOf, ConfigInv
  <2>3. QED
    BY <2>1, <2>2, BootSound DEF ConfigInv
<1>7. CASE LoadLine
  BY <1>7, LoadLineKeeps
<1>8. CASE FileEnds
  <2>1. /\ phase = "loading" /\ rest' = << >> /\ file' = << >> /\ saved' = Boot
        /\ phase' = "running" /\ live' = [live EXCEPT !.at = <<"config">>]
        /\ present' = present /\ commands' = commands
    BY <1>8 DEF FileEnds
  <2>2. Sound(live') /\ Reached(live') /\ live'.at = <<"config">>
    BY <2>1, MainMenu DEF ConfigInv
  <2>3. Boot.at = <<"config">>
    BY DEF Boot
  <2>4. << >> \in Seq(AnyLine) /\ TailOf(<< >>, << >>)
    BY DEF TailOf
  <2>5. QED
    BY <2>1, <2>2, <2>3, <2>4, BootSound DEF ConfigInv
<1>9. CASE UNCHANGED vars
  BY <1>9 DEF vars, ConfigInv, TailOf
<1>10. QED
  BY <1>1, <1>2, <1>3, <1>4, <1>5, <1>6, <1>7, <1>8, <1>9 DEF Next

\* The switch starts with it.
LEMMA ConfigInit == Init => ConfigInv
<1>1. Boot.at = <<"config">>
  BY DEF Boot
<1>2. << >> \in Seq(AnyLine) /\ TailOf(<< >>, << >>)
  BY DEF TailOf
<1>3. 0 \in 0 .. MaxCommands
  BY SavedConfigAssumption DEF SavedConfigAssumption
<1>4. QED
  BY <1>1, <1>2, <1>3, BootSound DEF Init, ConfigInv

\* Type correctness: the records of VLANs and interfaces belong together, and
\* the addresses in the bridges are those of devices that are in them.
THEOREM Typed == Spec => []TypeOK
<1>1. ConfigInv => TypeOK
  <2> SUFFICES ASSUME ConfigInv PROVE TypeOK
    OBVIOUS
  <2>1. \A c : Sound(c) /\ Reached(c) =>
           /\ DOMAIN c.ports \subseteq Interfaces
           /\ \A i \in DOMAIN c.ports : c.ports[i] \in Port
           /\ c.named \cup c.snooped \subseteq c.vlans /\ c.vlans \subseteq Vlans
           /\ c.static \cap c.learned = {}
           /\ \A m \in c.static \cup c.learned : Device(c, m[1], m[2]) # "none"
    BY PortsOf DEF Sound, Config, Reached
  <2>2. QED
    BY <2>1 DEF ConfigInv, TypeOK
<1>2. Spec => []ConfigInv
  BY ConfigInit, ConfigKept, PTL DEF Spec
<1>3. QED
  BY <1>1, <1>2, PTL

-----------------------------------------------------------------------------
(* What a line leaves alone.                                               *)

\* What a line with command cmd does not change when it makes d of c.
Untouched(c, d, cmd) ==
    /\ cmd \notin {"vlan", "name"} => d.vlans = c.vlans /\ d.named = c.named
    /\ cmd \notin {"interface", "access", "allowed", "mode", "no cdp enable"} => d.ports = c.ports
    /\ cmd # "no cdp run" => d.cdp.run = c.cdp.run
    /\ cmd # "cdp timer" => d.cdp.timer = c.cdp.timer
    /\ cmd \notin {"vlan", "no igmp"} => d.snooped = c.snooped
    /\ cmd # "no igmp" => d.snooping = c.snooping
    /\ cmd # "description" => d.described = c.described
    /\ cmd # "aging-time" => d.age = c.age
    /\ cmd # "mac static" => d.static = c.static /\ d.learned = c.learned
    /\ d.down = c.down /\ d.secret = c.secret

\* The lines of the main menu.
LEMMA MainLeaves ==
    ASSUME NEW c, Sound(c)
    PROVE  \A line \in AnyLine :
              line.cmd \notin SubCommands => Untouched(c, LoadedLine(c, line), line.cmd)
<1> DEFINE d == [c EXCEPT !.at = <<"config">>]
<1>1. /\ d \in Config /\ d.vlans = c.vlans /\ d.named = c.named /\ d.ports = c.ports
      /\ d.cdp = c.cdp /\ d.down = c.down /\ d.snooped = c.snooped /\ d.snooping = c.snooping
      /\ d.described = c.described /\ d.age = c.age /\ d.secret = c.secret
      /\ d.static = c.static /\ d.learned = c.learned
  BY MainMenu DEF Sound, Config
<1>2. \A v : /\ LoadedLine(c, Line("vlan", v)) = CmdVlan(d, v)
             /\ LoadedLine(c, Line("interface", v)) = UseIfEther(d, v)
             /\ LoadedLine(c, Line("no igmp", 0)) = SetGlobalIgmp(d, FALSE)
             /\ v # 0 => LoadedLine(c, Line("no igmp", v)) = CmdIpIgmpSnooping(d, v, FALSE)
             /\ LoadedLine(c, Line("mac static", v)) = CmdMacStatic(d, v[1], v[2])
             /\ LoadedLine(c, Line("aging-time", v)) = CmdSetAging(d, v)
             /\ LoadedLine(c, Line("no cdp run", v)) = CmdCdpRun(d, FALSE)
             /\ LoadedLine(c, Line("cdp timer", v)) = CmdCdpTimer(d, v)
             /\ LoadedLine(c, Line("enable secret 5", v)) = d
  BY LoadedAs
<1> HIDE DEF d
<1>3. \A v : Untouched(c, CmdVlan(d, v), "vlan")
  BY <1>1 DEF CmdVlan, Config, Untouched
<1>4. \A i : Untouched(c, UseIfEther(d, i), "interface")
  BY <1>1 DEF UseIfEther, Config, Untouched
<1>5. /\ Untouched(c, SetGlobalIgmp(d, FALSE), "no igmp")
      /\ \A v : Untouched(c, CmdIpIgmpSnooping(d, v, FALSE), "no igmp")
  BY <1>1 DEF SetGlobalIgmp, CmdIpIgmpSnooping, Config, Untouched
<1>6. \A i, v : Untouched(c, CmdMacStatic(d, i, v), "mac static")
  BY <1>1 DEF CmdMacStatic, Config, Untouched
<1>7. \A t : Untouched(c, CmdSetAging(d, t), "aging-time")
  BY <1>1 DEF CmdSetAging, Config, Untouched
<1>8. Untouched(c, CmdCdpRun(d, FALSE), "no cdp run")
  BY <1>1 DEF CmdCdpRun, Config, Untouched
<1>9. \A t : Untouched(c, CmdCdpTimer(d, t), "cdp timer")
  BY <1>1 DEF CmdCdpTimer, Config, Untouched
<1>10. Untouched(c, d, "enable secret 5")
  BY <1>1 DEF Config, Untouched
<1> SUFFICES ASSUME NEW line \in AnyLine, line.cmd \notin SubCommands
             PROVE  Untouched(c, LoadedLine(c, line), line.cmd)
  OBVIOUS
<1>11. line \in Lines("vlan", Vlans) \cup Lines("interface", Interfaces) \cup IgmpLine
               \cup MacLine \cup GlobalLine
  <2>1. \A x \in PortSubLine \cup Lines("name", {TRUE}) : x.cmd \in SubCommands
    BY SubLineCmd DEF SubCommands
  <2>2. QED
    BY <2>1 DEF AnyLine, VlanLine, PortLine
<1>12. CASE line \in Lines("vlan", Vlans)
  <2>1. line.cmd = "vlan" /\ line = Line("vlan", line.arg)
    BY <1>12, LineIn, Zenon
  <2>2. QED
    BY <1>2, <1>3, <2>1, Zenon
<1>13. CASE line \in Lines("interface", Interfaces)
  <2>1. line.cmd = "interface" /\ line = Line("interface", line.arg)
    BY <1>13, LineIn, Zenon
  <2>2. QED
    BY <1>2, <1>4, <2>1, Zenon
<1>14. CASE line \in IgmpLine
  <2>1. line.cmd = "no igmp" /\ line = Line("no igmp", line.arg)
    BY <1>14, LineIn, Zenon DEF IgmpLine
  <2>2. CASE line.arg = 0
    BY <1>2, <1>5, <2>1, <2>2, Zenon
  <2>3. CASE line.arg # 0
    BY <1>2, <1>5, <2>1, <2>3, Zenon
  <2>4. QED
    BY <2>2, <2>3, Zenon
<1>15. CASE line \in MacLine
  <2>1. line.cmd = "mac static" /\ line = Line("mac static", line.arg)
    BY <1>15, LineIn, Zenon DEF MacLine
  <2>2. QED
    BY <1>2, <1>6, <2>1, ZenonT(30)
<1>a. \A cmd, args : \A x \in Lines(cmd, args) : x.cmd = cmd /\ x = Line(cmd, x.arg)
  BY LineFields, Zenon DEF Lines
<1>16. CASE line \in GlobalLine
  <2>1. CASE line \in Lines("enable secret 5", {TRUE})
    <3>1. line.cmd = "enable secret 5" /\ line = Line("enable secret 5", line.arg)
      BY <1>a, <2>1, Zenon
    <3>2. QED
      BY <1>2, <1>10, <3>1, Zenon
  <2>2. CASE line \in Lines("no cdp run", {TRUE})
    <3>1. line.cmd = "no cdp run" /\ line = Line("no cdp run", line.arg)
      BY <1>a, <2>2, Zenon
    <3>2. QED
      BY <1>2, <1>8, <3>1, Zenon
  <2>3. CASE line \in Lines("cdp timer", {"other"})
    <3>1. line.cmd = "cdp timer" /\ line = Line("cdp timer", line.arg)
      BY <2>3, LineIn, Zenon
    <3>2. QED
      BY <1>2, <1>9, <3>1, Zenon
  <2>4. CASE line \in Lines("aging-time", {"unset", "other"})
    <3>1. line.cmd = "aging-time" /\ line = Line("aging-time", line.arg)
      BY <2>4, LineIn, Zenon
    <3>2. QED
      BY <1>2, <1>7, <3>1, Zenon
  <2>5. QED
    BY <1>16, <2>1, <2>2, <2>3, <2>4, Zenon DEF GlobalLine
<1>17. QED
  BY <1>11, <1>12, <1>13, <1>14, <1>15, <1>16, Zenon

\* The lines of the other menus.
LEMMA SubLeaves ==
    ASSUME NEW c, Sound(c), NEW line \in AnyLine, line.cmd \in SubCommands
    PROVE  Untouched(c, LoadedLine(c, line), line.cmd)
<1> DEFINE cmd == line.cmd
           arg == line.arg
           new(i) == [c EXCEPT !.ports[i] = PortCommand(c.ports[i], cmd, arg, c, i)]
<1>1. LoadedLine(c, line) = SubCommand(c, cmd, arg)
  BY Zenon DEF LoadedLine
<1>2. c \in Config /\ c.at \in Menu
  BY DEF Sound, Config
<1>3. Untouched(c, c, cmd)
  BY DEF Untouched
<1> HIDE DEF cmd, arg
<1>4. ASSUME c.at = <<"config">> PROVE Untouched(c, SubCommand(c, cmd, arg), cmd)
  BY <1>3, <1>4, SubOfMain, Zenon
<1>5. ASSUME NEW v \in Vlans, c.at = <<"vlan", v>> PROVE Untouched(c, SubCommand(c, cmd, arg), cmd)
  <2>1. SubCommand(c, cmd, arg) = IF cmd = "name" THEN CmdNameVlan(c, TRUE) ELSE c
    BY <1>5, SubOfVlan, Zenon
  <2>2. Untouched(c, CmdNameVlan(c, TRUE), "name")
    BY <1>2 DEF CmdNameVlan, Config, Untouched
  <2>3. QED
    BY <1>3, <2>1, <2>2
<1>6. ASSUME NEW i \in Interfaces, c.at = <<"port", i>>
      PROVE  Untouched(c, SubCommand(c, cmd, arg), cmd)
  <2>1. i \in DOMAIN c.ports /\ c.ports \in Ports
    BY <1>2, <1>6 DEF Sound, AtRecord, Config
  <2>2. CASE cmd = "description"
    <3>1. SubCommand(c, cmd, arg) = CmdIfDesc(c, i)
      BY <1>6, <2>2, SubDescription, Zenon
    <3>2. Untouched(c, CmdIfDesc(c, i), "description")
      BY <1>2 DEF CmdIfDesc, Config, Untouched
    <3>3. QED
      BY <2>2, <3>1, <3>2
  <2>3. CASE cmd # "description"
    <3>1. SubCommand(c, cmd, arg) = new(i)
      BY <1>6, <2>3, SubOfPort, Zenon
    <3> DEFINE p == PortCommand(c.ports[i], cmd, arg, c, i)
    <3>2. cmd = "name" => p = c.ports[i]
      BY PortName, Zenon
    <3> HIDE DEF p
    <3>3. /\ new(i).vlans = c.vlans /\ new(i).named = c.named /\ new(i).cdp = c.cdp
          /\ new(i).down = c.down /\ new(i).ports = [c.ports EXCEPT ![i] = p]
          /\ new(i).snooped = c.snooped /\ new(i).snooping = c.snooping
          /\ new(i).described = c.described /\ new(i).age = c.age /\ new(i).secret = c.secret
          /\ new(i).static = c.static /\ new(i).learned = c.learned
      BY <1>2 DEF Config, p
    <3>4. cmd \in {"name", "access", "allowed", "mode", "no cdp enable"}
      BY <2>3 DEF SubCommands, cmd
    <3>5. cmd = "name" => [c.ports EXCEPT ![i] = p] = c.ports
      BY <2>1, <3>2, PortsOf
    <3> HIDE DEF new
    <3>6. QED
      BY <3>1, <3>3, <3>4, <3>5 DEF Untouched
  <2>4. QED
    BY <2>2, <2>3
<1>7. Untouched(c, SubCommand(c, cmd, arg), cmd)
  BY <1>2, <1>4, <1>5, <1>6 DEF Menu
<1>8. QED
  BY <1>1, <1>7 DEF cmd

\* Any line.
LEMMA LineLeaves ==
    ASSUME NEW c, Sound(c), NEW line \in AnyLine
    PROVE  Untouched(c, LoadedLine(c, line), line.cmd)
BY MainLeaves, SubLeaves

-----------------------------------------------------------------------------
(* Loading: what the lines that were read have made of the switch.         *)

\* The lines that were read.
Place == Len(file) - Len(rest)

\* What a load gets of configuration c, but for the addresses and the menu.
SameSettings(c, d) ==
    /\ d.vlans = c.vlans /\ d.named = c.named /\ d.ports = c.ports
    /\ d.cdp = c.cdp /\ d.down = c.down /\ d.snooped = c.snooped /\ d.snooping = c.snooping
    /\ d.described = c.described /\ d.age = c.age /\ d.secret = c.secret

\* The addresses of old whose device is another one in c, or is gone.
Gone(old, c) == {m \in old.static : Device(old, m[1], m[2]) # Device(c, m[1], m[2])}

\* The kernel's addresses are all that Flushed() changes.
LEMMA FlushedRest ==
    ASSUME NEW old, NEW c \in Config
    PROVE  /\ SameSettings(c, Flushed(old, c)) /\ Flushed(old, c).at = c.at
           /\ Flushed(old, c).static = c.static \ Gone(old, c)
           /\ Flushed(old, c).learned \subseteq c.learned
<1>1. SameSettings(c, Flushed(old, c)) /\ Flushed(old, c).at = c.at
  BY DEF Flushed, Config, SameSettings
<1> DEFINE stay(ms) == {m \in ms : Device(old, m[1], m[2]) = Device(c, m[1], m[2])}
<1>2. /\ Flushed(old, c).static = c.static \ (old.static \ stay(old.static))
      /\ Flushed(old, c).learned = stay(c.learned)
  BY DEF Flushed, Config
<1>3. old.static \ stay(old.static) = Gone(old, c)
  BY DEF Gone
<1>4. stay(c.learned) \subseteq c.learned
  OBVIOUS
<1>5. QED
  BY <1>1, <1>2, <1>3, <1>4

\* The next line makes c of the running configuration.
Loads(c) ==
    /\ Place \in Nat /\ Place + 1 \in 1 .. Len(file) /\ Place' = Place + 1
    /\ FileOf(saved, file) /\ file[Place + 1] \in AnyLine
    /\ c = LoadedLine(live, file[Place + 1]) /\ c \in Config
    /\ Untouched(live, c, file[Place + 1].cmd)
    /\ SameSettings(c, live') /\ (phase' = "loading" => live'.at = c.at)
    /\ live'.static = c.static \ Gone(live, c) /\ live'.learned \subseteq c.learned
    /\ phase = "loading" /\ phase' # "running"
    /\ file' = file /\ saved' = saved /\ present' = present

\* It does so when it is loaded.
LEMMA LineLoads == ASSUME ConfigInv, LoadLine PROVE \E c : Loads(c)
<1> DEFINE c == LoadedLine(live, Head(rest))
           d == Flushed(live, c)
<1>1. /\ phase = "loading" /\ rest # << >> /\ rest' = Tail(rest)
      /\ phase' = IF Len(rest) = 1 THEN "loaded" ELSE "loading"
      /\ live' = IF Len(rest) = 1 THEN [d EXCEPT !.at = <<"config">>] ELSE d
      /\ present' = present /\ file' = file /\ saved' = saved
  BY DEF LoadLine
<1>2. /\ Head(rest) \in AnyLine /\ Len(rest) \in Nat \ {0} /\ Head(rest) = rest[1]
      /\ Len(rest') = Len(rest) - 1
  BY <1>1 DEF ConfigInv
<1>3. Len(file) \in Nat /\ Len(rest) <= Len(file)
  BY DEF ConfigInv, TailOf
<1>4. Place \in Nat /\ Place + 1 \in 1 .. Len(file) /\ Place' = Place + 1
  BY <1>1, <1>2, <1>3 DEF Place
<1>5. Head(rest) = file[Place + 1]
  <2>1. 1 \in 1 .. Len(rest)
    BY <1>2
  <2>2. rest[1] = file[Len(file) - Len(rest) + 1]
    BY <2>1 DEF ConfigInv, TailOf
  <2>3. QED
    BY <1>2, <2>2 DEF Place
<1>6. Sound(live) /\ Kept(live, c)
  BY <1>2, LoadedKept DEF ConfigInv
<1>7. Untouched(live, c, Head(rest).cmd)
  BY <1>2, <1>6, LineLeaves
<1> HIDE DEF c
<1>8. c \in Config
  BY <1>6 DEF Kept, Sound
<1>9. /\ SameSettings(c, d) /\ d.at = c.at
      /\ d.static = c.static \ Gone(live, c) /\ d.learned \subseteq c.learned
  BY <1>8, FlushedRest
<1>10. d \in Config
  <2>1. Sound(d)
    BY <1>6, FlushedSound DEF ConfigInv
  <2>2. QED
    BY <2>1 DEF Sound
<1> HIDE DEF d
<1>11. /\ SameSettings(c, live') /\ (phase' = "loading" => live'.at = c.at)
       /\ live'.static = c.static \ Gone(live, c) /\ live'.learned \subseteq c.learned
  BY <1>1, <1>9, <1>10 DEF SameSettings, Config
<1>12. FileOf(saved, file)
  <2>1. file # << >>
    BY <1>4
  <2>2. QED
    BY <2>1, FileIs DEF ConfigInv, Sound
<1>13. c = LoadedLine(live, file[Place + 1])
  BY <1>5 DEF c
<1>14. Loads(c)
  BY <1>1, <1>2, <1>4, <1>5, <1>7, <1>8, <1>11, <1>12, <1>13 DEF Loads
<1>15. QED
  BY <1>14

\* The other steps end a load, or begin one.
LEMMA NoLoad ==
    ASSUME ConfigInv, [Next]_vars
    PROVE  \/ phase' = "running"
           \/ \E c : Loads(c)
           \/ /\ phase' = "loading" /\ live' = Boot /\ Place' = 0 /\ file' = file /\ file # << >>
              /\ saved' = saved
           \/ UNCHANGED vars
<1>1. CASE VlanCommand
  BY <1>1 DEF VlanCommand, Gives
<1>2. CASE GlobalCommand
  BY <1>2 DEF GlobalCommand, Gives
<1>3. CASE InterfaceCommand
  BY <1>3 DEF InterfaceCommand, Sets, Gives
<1>4. CASE Learn
  BY <1>4 DEF Learn, Gives
<1>5. CASE WriteMemory
  BY <1>5 DEF WriteMemory
<1>6. CASE Restart
  <2>1. /\ phase' = "loading" /\ live' = Boot /\ rest' = file /\ file' = file /\ saved' = saved
        /\ file # << >> /\ Len(file) \in Nat
    BY <1>6 DEF Restart, ConfigInv
  <2>2. Place' = 0
    BY <2>1 DEF Place
  <2>3. QED
    BY <2>1, <2>2
<1>7. CASE LoadLine
  BY <1>7, LineLoads
<1>8. CASE FileEnds
  BY <1>8 DEF FileEnds
<1>9. QED
  BY <1>1, <1>2, <1>3, <1>4, <1>5, <1>6, <1>7, <1>8 DEF Next

-----------------------------------------------------------------------------
(* The VLANs and their names.                                              *)

\* The VLANs, and those with a name, of the first n lines of file f.
KnownIn(f, n) == {v \in Vlans : \E k \in 1 .. n : f[k] = Line("vlan", v)}
NamedIn(f, n) ==
    {v \in Vlans : \E k \in 1 .. n :
        k - 1 \in 1 .. n /\ f[k] = NameLine /\ f[k - 1] = Line("vlan", v)}

\* The lines that were read have made these VLANs, and a name is read in the
\* menu of its VLAN.
VlansLoaded ==
    phase # "running" =>
    /\ file # << >>
    /\ live.vlans = DefaultVlans \cup KnownIn(file, Place)
    /\ live.named = NamedIn(file, Place)
    /\ phase = "loading" =>
          \A v \in Vlans : Place \in 1 .. Len(file) /\ file[Place] = Line("vlan", v) =>
             live.at = <<"vlan", v>>

\* One line more.
LEMMA OneMore ==
    ASSUME NEW f, NEW n \in Nat
    PROVE  /\ KnownIn(f, n + 1) = KnownIn(f, n) \cup {v \in Vlans : f[n + 1] = Line("vlan", v)}
           /\ NamedIn(f, n + 1) = NamedIn(f, n) \cup
                {v \in Vlans : n \in 1 .. n /\ f[n + 1] = NameLine /\ f[n] = Line("vlan", v)}
<1>1. 1 .. n + 1 = 1 .. n \cup {n + 1} /\ (n + 1) - 1 = n
  OBVIOUS
<1>2. \A k \in 1 .. n : k - 1 \in 1 .. n + 1 <=> k - 1 \in 1 .. n
  OBVIOUS
<1>3. n \in 1 .. n + 1 <=> n \in 1 .. n
  OBVIOUS
<1>4. KnownIn(f, n + 1) = KnownIn(f, n) \cup {v \in Vlans : f[n + 1] = Line("vlan", v)}
  BY <1>1, Zenon DEF KnownIn
<1>5. NamedIn(f, n + 1) = NamedIn(f, n) \cup
         {v \in Vlans : n \in 1 .. n /\ f[n + 1] = NameLine /\ f[n] = Line("vlan", v)}
  BY <1>1, <1>2, <1>3, Zenon DEF NamedIn
<1>6. QED
  BY <1>4, <1>5

\* A line of a VLAN is that of one VLAN, and no name.
LEMMA VlanLinesDiffer ==
    /\ \A v, w : Line("vlan", v) = Line("vlan", w) => v = w
    /\ \A v : Line("vlan", v) # NameLine
    /\ \A v : Line("vlan", v).cmd = "vlan"
    /\ NameLine.cmd = "name"
<1>1. ASSUME NEW v, NEW w, Line("vlan", v) = Line("vlan", w) PROVE v = w
  <2>1. Line("vlan", v).arg = v /\ Line("vlan", w).arg = w
    BY LineFields, Zenon
  <2>2. QED
    BY <1>1, <2>1, Zenon
<1>2. /\ \A v : Line("vlan", v).cmd = "vlan"
      /\ NameLine.cmd = "name"
  BY LineFields, Zenon DEF NameLine
<1>3. "vlan" # "name"
  OBVIOUS
<1>4. QED
  BY <1>1, <1>2, <1>3, Zenon

\* What the lines of VLANs do: the next one adds its VLAN, or its name.
LEMMA VlansLoadedKept == ASSUME ConfigInv, VlansLoaded, [Next]_vars PROVE VlansLoaded'
<1>1. CASE phase' = "running"
  BY <1>1 DEF VlansLoaded
<1>2. CASE UNCHANGED vars
  BY <1>2 DEF vars, VlansLoaded, Place
<1>3. CASE /\ phase' = "loading" /\ live' = Boot /\ Place' = 0 /\ file' = file /\ file # << >>
           /\ saved' = saved
  <2>1. KnownIn(file, 0) = {} /\ NamedIn(file, 0) = {}
    BY DEF KnownIn, NamedIn
  <2>2. Boot.vlans = DefaultVlans /\ Boot.named = {}
    BY DEF Boot
  <2>3. 0 \notin 1 .. Len(file)
    BY DEF ConfigInv
  <2>4. QED
    BY <1>3, <2>1, <2>2, <2>3 DEF VlansLoaded
<1>4. ASSUME NEW c, Loads(c) PROVE VlansLoaded'
  <2> DEFINE n == Place
             line == file[n + 1]
             m == [live EXCEPT !.at = <<"config">>]
  <2>1. /\ n \in Nat /\ n + 1 \in 1 .. Len(file) /\ Place' = n + 1 /\ FileOf(saved, file)
        /\ line \in AnyLine /\ c = LoadedLine(live, line)
        /\ live'.vlans = c.vlans /\ live'.named = c.named
        /\ phase' = "loading" => live'.at = c.at
        /\ phase = "loading" /\ file' = file /\ Len(file) \in Nat
    BY <1>4 DEF Loads, SameSettings, ConfigInv
  <2>2. /\ live.vlans = DefaultVlans \cup KnownIn(file, n) /\ live.named = NamedIn(file, n)
        /\ \A v \in Vlans : n \in 1 .. Len(file) /\ file[n] = Line("vlan", v) => live.at = <<"vlan", v>>
        /\ file # << >>
    BY <2>1 DEF VlansLoaded
  <2>3. /\ KnownIn(file, n + 1) = KnownIn(file, n) \cup {v \in Vlans : line = Line("vlan", v)}
        /\ NamedIn(file, n + 1) = NamedIn(file, n) \cup
             {v \in Vlans : n \in 1 .. n /\ line = NameLine /\ file[n] = Line("vlan", v)}
    BY <2>1, OneMore
  <2>4. Untouched(live, c, line.cmd)
    BY <1>4 DEF Loads
  <2>5. live \in Config /\ Sound(live)
    BY DEF ConfigInv, Sound
  <2>6. SavedSet(saved) \subseteq Vlans /\ DefaultVlans \cap SavedSet(saved) = {}
    BY DEF ConfigInv, Sound, Config, SavedSet
  <2> HIDE DEF n, line
  <2>7. ASSUME /\ c.vlans = live.vlans \cup {v \in Vlans : line = Line("vlan", v)}
               /\ c.named = live.named \cup
                    {v \in Vlans : n \in 1 .. n /\ line = NameLine /\ file[n] = Line("vlan", v)}
               /\ \A v \in Vlans : line = Line("vlan", v) => c.at = <<"vlan", v>>
        PROVE  VlansLoaded'
    <3>1. live'.vlans = DefaultVlans \cup KnownIn(file', Place')
      BY <2>1, <2>2, <2>3, <2>7
    <3>2. live'.named = NamedIn(file', Place')
      BY <2>1, <2>2, <2>3, <2>7
    <3>3. phase' = "loading" => \A v \in Vlans : file'[Place'] = Line("vlan", v) => live'.at = <<"vlan", v>>
      BY <2>1, <2>7 DEF line
    <3>4. QED
      BY <2>1, <2>2, <3>1, <3>2, <3>3 DEF VlansLoaded
  <2>8. CASE line.cmd \notin {"vlan", "name"}
    <3>1. line # NameLine /\ \A v \in Vlans : line # Line("vlan", v)
      BY <2>8, VlanLinesDiffer
    <3>2. c.vlans = live.vlans /\ c.named = live.named
      BY <2>4, <2>8 DEF Untouched
    <3>3. QED
      BY <2>7, <3>1, <3>2
  <2>9. CASE line.cmd \in {"vlan", "name"}
    <3>1. PICK v \in SavedSet(saved) :
             \/ line = Line("vlan", v)
             \/ /\ line = NameLine /\ v \in saved.named
                /\ (n + 1) - 1 \in 1 .. Len(file) /\ file[(n + 1) - 1] = Line("vlan", v)
      BY <2>1, <2>9 DEF FileOf, VlansAt, line
    <3>2. v \in Vlans /\ v \notin DefaultVlans
      BY <2>6
    <3>3. CASE line = Line("vlan", v)
      <4>1. c = CmdVlan(m, v)
        BY <2>1, <3>3, LoadedAs
      <4>2. /\ c.vlans = live.vlans \cup {v} /\ c.named = live.named /\ c.at = <<"vlan", v>>
        BY <2>5, <4>1 DEF CmdVlan, Config
      <4>3. {w \in Vlans : line = Line("vlan", w)} = {v} /\ line # NameLine
        BY <3>2, <3>3, VlanLinesDiffer
      <4>4. QED
        BY <2>7, <4>2, <4>3
    <3>4. CASE line = NameLine /\ (n + 1) - 1 \in 1 .. Len(file) /\ file[(n + 1) - 1] = Line("vlan", v)
      <4>1. n \in 1 .. Len(file) /\ file[n] = Line("vlan", v) /\ n \in 1 .. n
        <5>1. (n + 1) - 1 = n
          BY <2>1
        <5>2. QED
          BY <2>1, <3>4, <5>1
      <4>2. live.at = <<"vlan", v>>
        BY <2>2, <3>2, <4>1
      <4>3. c = CmdNameVlan(live, TRUE)
        <5>1. LoadedLine(live, Line("name", TRUE)) = SubCommand(live, "name", TRUE)
          BY LoadedAs, Zenon DEF SubCommands
        <5>a. SubCommand(live, "name", TRUE)
                = IF "name" = "name" THEN CmdNameVlan(live, TRUE) ELSE live
          <6>1. \A w \in Vlans : \A cmd, arg : live.at = <<"vlan", w>> =>
                   SubCommand(live, cmd, arg) = IF cmd = "name" THEN CmdNameVlan(live, TRUE) ELSE live
            BY SubOfVlan
          <6>2. QED
            BY <3>2, <4>2, <6>1, Zenon
        <5>2. SubCommand(live, "name", TRUE) = CmdNameVlan(live, TRUE)
          BY <5>a, Zenon
        <5>3. QED
          BY <2>1, <3>4, <5>1, <5>2, Zenon DEF NameLine
      <4>4. c.vlans = live.vlans /\ c.named = live.named \cup {v}
        BY <2>5, <3>2, <4>2, <4>3 DEF CmdNameVlan, Config
      <4>5. /\ \A w \in Vlans : line # Line("vlan", w)
            /\ {w \in Vlans : n \in 1 .. n /\ line = NameLine /\ file[n] = Line("vlan", w)} = {v}
        BY <3>2, <3>4, <4>1, VlanLinesDiffer
      <4>6. QED
        BY <2>7, <4>4, <4>5
    <3>5. QED
      BY <3>1, <3>3, <3>4
  <2>10. QED
    BY <2>8, <2>9
<1>5. QED
  BY <1>1, <1>2, <1>3, <1>4, NoLoad

\* After a load, the VLANs and their names are back, the default ones, which no
\* line names, among them, but for VLAN MaxVlan.
THEOREM VlansBack == Spec => []VlansSurvive
<1>1. ASSUME ConfigInv, VlansLoaded PROVE VlansSurvive
  <2> SUFFICES ASSUME phase = "loaded"
               PROVE  /\ live.vlans = saved.vlans \ {MaxVlan}
                      /\ live.named = saved.named \ {MaxVlan}
    BY DEF VlansSurvive
  <2>1. rest = << >> /\ Len(file) \in Nat
    BY <1>1 DEF ConfigInv
  <2>2. Place = Len(file)
    BY <2>1 DEF Place
  <2>3. /\ live.vlans = DefaultVlans \cup KnownIn(file, Len(file))
        /\ live.named = NamedIn(file, Len(file)) /\ file # << >>
    BY <1>1, <2>2 DEF VlansLoaded
  <2>4. FileOf(saved, file)
    BY <1>1, <2>3, FileIs DEF ConfigInv, Sound
  <2>5. /\ saved.vlans \subseteq Vlans /\ saved.named \subseteq saved.vlans
        /\ DefaultVlans \subseteq saved.vlans \ saved.named
    BY <1>1 DEF ConfigInv, Sound, Config
  <2>6. /\ \A v \in SavedSet(saved) : \E k \in 1 .. Len(file) :
              /\ file[k] = Line("vlan", v)
              /\ v \in saved.named => k + 1 \in 1 .. Len(file) /\ file[k + 1] = NameLine
        /\ \A k \in 1 .. Len(file) : file[k].cmd \in {"vlan", "name"} =>
              \E v \in SavedSet(saved) :
                 \/ file[k] = Line("vlan", v)
                 \/ /\ file[k] = NameLine /\ v \in saved.named
                    /\ k - 1 \in 1 .. Len(file) /\ file[k - 1] = Line("vlan", v)
    BY <2>4 DEF FileOf, VlansAt
  <2>7. KnownIn(file, Len(file)) = SavedSet(saved)
    <3>1. ASSUME NEW v \in KnownIn(file, Len(file)) PROVE v \in SavedSet(saved)
      <4>1. PICK k \in 1 .. Len(file) : file[k] = Line("vlan", v)
        BY DEF KnownIn
      <4>2. file[k].cmd = "vlan"
        BY <4>1, VlanLinesDiffer
      <4>3. QED
        BY <2>6, <4>1, <4>2, VlanLinesDiffer
    <3>2. ASSUME NEW v \in SavedSet(saved) PROVE v \in KnownIn(file, Len(file))
      BY <2>5, <2>6 DEF KnownIn, SavedSet
    <3>3. QED
      BY <3>1, <3>2
  <2>8. NamedIn(file, Len(file)) = SavedSet(saved) \cap saved.named
    <3>1. ASSUME NEW v \in NamedIn(file, Len(file)) PROVE v \in SavedSet(saved) /\ v \in saved.named
      <4>1. PICK k \in 1 .. Len(file) :
               k - 1 \in 1 .. Len(file) /\ file[k] = NameLine /\ file[k - 1] = Line("vlan", v)
        BY DEF NamedIn
      <4>2. file[k].cmd = "name" /\ \A w : file[k] # Line("vlan", w)
        BY <4>1, VlanLinesDiffer
      <4>3. PICK w \in SavedSet(saved) : w \in saved.named /\ file[k - 1] = Line("vlan", w)
        BY <2>6, <4>2
      <4>4. QED
        BY <4>1, <4>3, VlanLinesDiffer
    <3>2. ASSUME NEW v \in SavedSet(saved), v \in saved.named PROVE v \in NamedIn(file, Len(file))
      <4>1. PICK k \in 1 .. Len(file) : /\ file[k] = Line("vlan", v)
                                        /\ k + 1 \in 1 .. Len(file) /\ file[k + 1] = NameLine
        BY <2>6, <3>2
      <4>2. (k + 1) - 1 = k
        OBVIOUS
      <4>3. v \in Vlans
        BY <2>5 DEF SavedSet
      <4>4. QED
        BY <4>1, <4>2, <4>3 DEF NamedIn
    <3>3. QED
      BY <3>1, <3>2
  <2>9. QED
    BY <2>3, <2>5, <2>7, <2>8 DEF SavedSet
<1>2. Init => VlansLoaded
  BY DEF Init, VlansLoaded
<1>3. Spec => [](ConfigInv /\ VlansLoaded)
  <2>1. (ConfigInv /\ VlansLoaded) /\ [Next]_vars => (ConfigInv /\ VlansLoaded)'
    BY ConfigKept, VlansLoadedKept
  <2>2. QED
    BY <1>2, <2>1, ConfigInit, PTL DEF Spec
<1>4. QED
  BY <1>1, <1>3, PTL

-----------------------------------------------------------------------------
(* The interfaces.                                                         *)

\* Line x is among the first n of s.
ReadIn(s, n, x) == \E k \in 1 .. Len(s) : k <= n /\ s[k] = x

\* What the first n lines of section s, of an interface with record p, have
\* made of its record.
PortIs(p, s, n, r) ==
    /\ r \in Port /\ r.type = "switched"
    /\ r.cdp <=> ~ReadIn(s, n, NoCdpLine)
    /\ ReadIn(s, n, Line("mode", p.mode)) => r.mode = p.mode
    /\ ~ReadIn(s, n, Line("mode", p.mode)) => r.mode = "access"
    /\ ReadIn(s, n, Line("access", p.access)) => r.access = p.access
    /\ ~ReadIn(s, n, Line("access", p.access)) => r.access = DefaultVlan
    /\ \A x : ListLine(p.allowed, x) /\ Rank(x) = 3 /\ ReadIn(s, n, x) /\ p.allowed # {} =>
          r.allowed \subseteq p.allowed
    /\ \A x : ListLine(p.allowed, x) /\ ReadIn(s, n, x) =>
          ParseVlanList(x.arg.list) \subseteq r.allowed

\* A line more that says nothing of the record.
LEMMA PortStays ==
    ASSUME NEW p, NEW s, NEW n, NEW m, NEW r, PortIs(p, s, n, r),
           ReadIn(s, m, NoCdpLine) <=> ReadIn(s, n, NoCdpLine),
           ReadIn(s, m, Line("mode", p.mode)) <=> ReadIn(s, n, Line("mode", p.mode)),
           ReadIn(s, m, Line("access", p.access)) <=> ReadIn(s, n, Line("access", p.access)),
           \A x : ListLine(p.allowed, x) /\ ReadIn(s, m, x) => ReadIn(s, n, x)
    PROVE  PortIs(p, s, m, r)
BY Zenon DEF PortIs

\* What a list line has: VLANs of the list, which it sets or adds.
LEMMA ListLineIs ==
    ASSUME NEW S, NEW x, ListLine(S, x)
    PROVE  /\ x.cmd = "allowed" /\ x.arg.list \in Seq(TokenOf(S))
           /\ \/ Rank(x) = 3 /\ x.arg.how = "set"
              \/ Rank(x) = 4 /\ x.arg.how = "add"
           /\ Rank(x) = 3 /\ S # {} => x.arg.list # << >>
<1>1. PICK a \in [how : {"set", "add"}, list : Seq(TokenOf(S))] : x = Line("allowed", a)
  BY Zenon DEF AllowedLine, ListLine
<1>2. x.cmd = "allowed" /\ x.arg = a
  BY <1>1, LineFields, Zenon
<1>3. Rank(x) = IF a.how = "set" THEN 3 ELSE 4
  BY <1>1, RankOfAllowed, Zenon
<1>4. Rank(x) = 3 /\ S # {} => x.arg.list # << >>
  BY DEF ListLine
<1>5. a.list \in Seq(TokenOf(S)) /\ a.how \in {"set", "add"}
  OBVIOUS
<1>6. (Rank(x) = 3 /\ a.how = "set") \/ (Rank(x) = 4 /\ a.how = "add")
  BY <1>3, <1>5
<1>7. QED
  BY <1>2, <1>4, <1>5, <1>6, Zenon

\* The next line of a section, which is not its first one.
LEMMA NextOfSection ==
    ASSUME NEW i, NEW p, NEW s, Section(i, p, s), NEW m \in 2 .. Len(s)
    PROVE  /\ \A x : ReadIn(s, m, x) <=> ReadIn(s, m - 1, x) \/ s[m] = x
           /\ \A x : ReadIn(s, m - 1, x) =>
                 Rank(x) < Rank(s[m]) \/ (Rank(x) = 4 /\ Rank(s[m]) = 4)
           /\ Told(p, s[m]) /\ Rank(s[m]) \in 1 .. 6
<1>1. /\ Len(s) \in Nat /\ s[1] = Line("interface", i)
      /\ \A k \in 1 .. Len(s) : Rank(s[k]) \in 0 .. 6
      /\ \A k, l \in 1 .. Len(s) : k < l =>
            Rank(s[k]) < Rank(s[l]) \/ (Rank(s[k]) = 4 /\ Rank(s[l]) = 4)
      /\ \A x : Has(s, x) => x = Line("interface", i) \/ Told(p, x)
  BY DEF Section, Piece
<1>2. 1 \in 1 .. Len(s) /\ m \in 1 .. Len(s) /\ 1 < m
  BY <1>1
<1>3. \A k \in 1 .. Len(s) : k <= m <=> k <= m - 1 \/ k = m
  BY <1>1, <1>2
<1>4. \A x : ReadIn(s, m, x) <=> ReadIn(s, m - 1, x) \/ s[m] = x
  BY <1>2, <1>3, Zenon DEF ReadIn
<1>5. ASSUME NEW x, ReadIn(s, m - 1, x)
      PROVE  Rank(x) < Rank(s[m]) \/ (Rank(x) = 4 /\ Rank(s[m]) = 4)
  <2>1. PICK k \in 1 .. Len(s) : k <= m - 1 /\ s[k] = x
    BY <1>5 DEF ReadIn
  <2>2. k < m
    BY <1>2, <2>1
  <2>3. QED
    BY <1>1, <1>2, <2>1, <2>2
<1>6. Rank(s[1]) = 0
  BY <1>1, RankOfInterface
<1>7. Rank(s[m]) \in 1 .. 6
  BY <1>1, <1>2, <1>6
<1>8. s[m] # Line("interface", i)
  BY <1>7, RankOfInterface
<1>9. Told(p, s[m])
  BY <1>1, <1>2, <1>8 DEF Has
<1>10. QED
  BY <1>4, <1>5, <1>7, <1>9

\* What a line makes of the record of its interface.
Changed(r, x, c, i) == IF x.cmd = "description" THEN r ELSE PortCommand(r, x.cmd, x.arg, c, i)

\* It makes what the line says.
LEMMA PortLineRead ==
    ASSUME NEW i, NEW p \in Port, NEW s, Section(i, p, s), NEW m \in 2 .. Len(s),
           NEW r, PortIs(p, s, m - 1, r), NEW c, c.cdp.run
    PROVE  PortIs(p, s, m, Changed(r, s[m], c, i))
<1> DEFINE x == s[m]
           mode == Line("mode", p.mode)
           access == Line("access", p.access)
           q == Changed(r, x, c, i)
           Setting(y) == ListLine(p.allowed, y) /\ Rank(y) = 3
           Listing(y) == ListLine(p.allowed, y)
           list(y) == ParseVlanList(y.arg.list)
<1>1. /\ \A y : ReadIn(s, m, y) <=> ReadIn(s, m - 1, y) \/ x = y
      /\ \A y : ReadIn(s, m - 1, y) => Rank(y) < Rank(x) \/ (Rank(y) = 4 /\ Rank(x) = 4)
      /\ Told(p, x) /\ Rank(x) \in 1 .. 6
  BY NextOfSection
<1>2. /\ Rank(NoCdpLine) = 6 /\ Rank(mode) = 5 /\ Rank(access) = 2 /\ Rank(DescriptionLine) = 1
  BY RankOfCdp, RankOfMode, RankOfAccess, RankOfDescription
<1>3. /\ NoCdpLine.cmd = "no cdp enable" /\ mode.cmd = "mode" /\ mode.arg = p.mode
      /\ access.cmd = "access" /\ access.arg = p.access /\ DescriptionLine.cmd = "description"
  BY LineFields, Zenon DEF NoCdpLine, DescriptionLine
<1>4. /\ r \in Port /\ r.type = "switched"
      /\ r.cdp <=> ~ReadIn(s, m - 1, NoCdpLine)
      /\ ReadIn(s, m - 1, mode) => r.mode = p.mode
      /\ ~ReadIn(s, m - 1, mode) => r.mode = "access"
      /\ ReadIn(s, m - 1, access) => r.access = p.access
      /\ ~ReadIn(s, m - 1, access) => r.access = DefaultVlan
      /\ \A y : Setting(y) /\ ReadIn(s, m - 1, y) /\ p.allowed # {} => r.allowed \subseteq p.allowed
      /\ \A y : Listing(y) /\ ReadIn(s, m - 1, y) => list(y) \subseteq r.allowed
  BY Zenon DEF PortIs
<1>5. p.access \in Vlans /\ p.mode \in {"access", "trunk"} /\ p.allowed \in SUBSET Vlans
  BY DEF Port
<1>6. ASSUME /\ q \in Port /\ q.type = "switched"
             /\ q.cdp <=> ~ReadIn(s, m, NoCdpLine)
             /\ ReadIn(s, m, mode) => q.mode = p.mode
             /\ ~ReadIn(s, m, mode) => q.mode = "access"
             /\ ReadIn(s, m, access) => q.access = p.access
             /\ ~ReadIn(s, m, access) => q.access = DefaultVlan
             /\ \A y : Setting(y) /\ ReadIn(s, m, y) /\ p.allowed # {} => q.allowed \subseteq p.allowed
             /\ \A y : Listing(y) /\ ReadIn(s, m, y) => list(y) \subseteq q.allowed
      PROVE  PortIs(p, s, m, q)
  BY <1>6, Zenon DEF PortIs
<1>a. \A y : Listing(y) => Rank(y) = 3 \/ Rank(y) = 4
  BY ListLineIs
<1> HIDE DEF x, mode, access, q, list
<1>7. q = Changed(r, x, c, i)
  BY DEF q
<1>8. CASE x = DescriptionLine
  <2>1. q = r
    BY <1>3, <1>7, <1>8, Zenon DEF Changed
  <2>2. x # NoCdpLine /\ x # mode /\ x # access /\ \A y : Listing(y) => x # y
    BY <1>2, <1>a, <1>8
  <2>3. QED
    BY <1>1, <1>4, <1>6, <2>1, <2>2 DEF x, q
<1>9. CASE x = NoCdpLine
  <2>1. q = CmdCdpIfSet(r, FALSE, c, i)
    <3>1. x.cmd = "no cdp enable" /\ "no cdp enable" # "description"
      BY <1>3, <1>9
    <3>2. q = PortCommand(r, "no cdp enable", x.arg, c, i)
      BY <1>7, <3>1, Zenon DEF Changed
    <3>3. QED
      BY <3>2, PortCdp, Zenon
  <2>2. q = [r EXCEPT !.cdp = FALSE]
    BY <2>1 DEF CmdCdpIfSet
  <2>3. /\ q \in Port /\ q.type = r.type /\ q.cdp = FALSE /\ q.mode = r.mode
        /\ q.access = r.access /\ q.allowed = r.allowed
    BY <1>4, <2>2 DEF Port
  <2>4. x # mode /\ x # access /\ \A y : Listing(y) => x # y
    BY <1>2, <1>a, <1>9
  <2>5. QED
    BY <1>1, <1>4, <1>6, <1>9, <2>3, <2>4 DEF x, q
<1>10. CASE x = access
  <2>1. q = CmdAccVlan(r, p.access)
    <3>1. x.cmd = "access" /\ x.arg = p.access /\ "access" # "description"
      BY <1>3, <1>10
    <3>2. q = PortCommand(r, "access", p.access, c, i)
      BY <1>7, <3>1, Zenon DEF Changed
    <3>3. QED
      BY <3>2, PortAccess, Zenon
  <2>2. ~ReadIn(s, m - 1, mode)
    BY <1>1, <1>2, <1>10
  <2>3. q = [r EXCEPT !.access = p.access]
    BY <1>4, <2>1, <2>2 DEF CmdAccVlan
  <2>4. /\ q \in Port /\ q.type = r.type /\ q.cdp = r.cdp /\ q.mode = r.mode
        /\ q.access = p.access /\ q.allowed = r.allowed
    BY <1>4, <1>5, <2>3 DEF Port
  <2>5. x # mode /\ x # NoCdpLine /\ \A y : Listing(y) => x # y
    BY <1>2, <1>a, <1>10
  <2>6. QED
    BY <1>1, <1>4, <1>6, <1>10, <2>4, <2>5 DEF x, q
<1>11. CASE x = mode
  <2>1. q = CmdSetMode(r, p.mode, c)
    BY <1>3, <1>7, <1>11, PortMode, Zenon DEF Changed
  <2>2. ~ReadIn(s, m - 1, mode)
    BY <1>1, <1>2, <1>11
  <2>3. (q = r /\ p.mode = "access") \/ q = [r EXCEPT !.type = "switched", !.mode = p.mode]
    BY <2>1 DEF CmdSetMode
  <2>4. /\ q \in Port /\ q.type = "switched" /\ q.cdp = r.cdp /\ q.mode = p.mode
        /\ q.access = r.access /\ q.allowed = r.allowed
    <3>1. CASE q = r /\ p.mode = "access"
      BY <1>4, <2>2, <3>1
    <3>2. CASE q = [r EXCEPT !.type = "switched", !.mode = p.mode]
      BY <1>4, <1>5, <3>2 DEF Port
    <3>3. QED
      BY <2>3, <3>1, <3>2
  <2>5. x # access /\ x # NoCdpLine /\ \A y : Listing(y) => x # y
    BY <1>2, <1>a, <1>11
  <2>6. QED
    BY <1>1, <1>4, <1>6, <1>11, <2>4, <2>5 DEF x, q
<1>12. CASE ListLine(p.allowed, x)
  <2> DEFINE vs == ParseVlanList(x.arg.list)
  <2>1. /\ x.cmd = "allowed" /\ x.arg.list \in Seq(TokenOf(p.allowed))
        /\ \/ Rank(x) = 3 /\ x.arg.how = "set"
           \/ Rank(x) = 4 /\ x.arg.how = "add"
        /\ Rank(x) = 3 /\ p.allowed # {} => x.arg.list # << >>
    BY <1>12, ListLineIs
  <2>2. vs \subseteq p.allowed
    BY <1>5, <2>1, ParsedVlans
  <2>3. "allowed" # "description"
    OBVIOUS
  <2>4. q = IF x.arg.list = << >> THEN r ELSE CmdTrunkVlan(r, x.arg.how, vs)
    <3>1. q = PortCommand(r, "allowed", x.arg, c, i)
      BY <1>7, <2>1, <2>3, Zenon DEF Changed
    <3>2. PortCommand(r, "allowed", x.arg, c, i)
            = IF x.arg.list = << >> THEN r ELSE CmdTrunkVlan(r, x.arg.how, vs)
      BY PortAllowed, Zenon
    <3>3. QED
      BY <3>1, <3>2, Zenon
  <2> HIDE DEF vs
  <2>5. \/ q = r /\ x.arg.list = << >>
        \/ q = [r EXCEPT !.allowed = vs] /\ Rank(x) = 3
        \/ q = [r EXCEPT !.allowed = r.allowed \cup vs] /\ Rank(x) = 4
    <3>1. CASE x.arg.list = << >>
      BY <2>4, <3>1, Zenon
    <3>2. CASE x.arg.list # << >> /\ Rank(x) = 3 /\ x.arg.how = "set"
      <4>1. CmdTrunkVlan(r, "set", vs) = [r EXCEPT !.allowed = vs]
        BY Zenon DEF CmdTrunkVlan
      <4>2. QED
        BY <2>4, <3>2, <4>1, Zenon
    <3>3. CASE x.arg.list # << >> /\ Rank(x) = 4 /\ x.arg.how = "add"
      <4>1. CmdTrunkVlan(r, "add", vs) = [r EXCEPT !.allowed = r.allowed \cup vs]
        BY Zenon DEF CmdTrunkVlan
      <4>2. QED
        BY <2>4, <3>3, <4>1, Zenon
    <3>4. QED
      BY <2>1, <3>1, <3>2, <3>3, Zenon
  <2>6. vs \in SUBSET Vlans /\ r.allowed \in SUBSET Vlans
    BY <1>4, <1>5, <2>2 DEF Port
  <2>7. /\ q \in Port /\ q.type = r.type /\ q.cdp = r.cdp /\ q.mode = r.mode
        /\ q.access = r.access
        /\ \/ q.allowed = r.allowed /\ x.arg.list = << >>
           \/ q.allowed = vs /\ Rank(x) = 3
           \/ q.allowed = r.allowed \cup vs /\ Rank(x) = 4
    <3>1. CASE q = r /\ x.arg.list = << >>
      BY <1>4, <3>1
    <3>2. CASE q = [r EXCEPT !.allowed = vs] /\ Rank(x) = 3
      BY <1>4, <2>6, <3>2 DEF Port
    <3>3. CASE q = [r EXCEPT !.allowed = r.allowed \cup vs] /\ Rank(x) = 4
      BY <1>4, <2>6, <3>3 DEF Port
    <3>4. QED
      BY <2>5, <3>1, <3>2, <3>3
  <2>8. x # access /\ x # NoCdpLine /\ x # mode
    BY <1>2, <2>1
  <2>9. ASSUME NEW y, Setting(y), ReadIn(s, m, y), p.allowed # {} PROVE q.allowed \subseteq p.allowed
    <3>1. CASE Rank(x) = 3
      BY <2>1, <2>2, <2>7, <2>9, <3>1
    <3>2. CASE Rank(x) = 4
      <4>1. x # y
        BY <2>9, <3>2
      <4>2. r.allowed \subseteq p.allowed
        BY <1>1, <1>4, <2>9, <4>1
      <4>3. QED
        BY <2>2, <2>7, <3>2, <4>2
    <3>3. QED
      BY <2>1, <3>1, <3>2
  <2>10. ASSUME NEW y, Listing(y), ReadIn(s, m, y) PROVE list(y) \subseteq q.allowed
    <3>1. CASE Rank(x) = 3
      <4>1. x = y
        BY <1>1, <1>a, <2>10, <3>1
      <4>2. q.allowed = vs \/ x.arg.list = << >>
        BY <2>7, <3>1
      <4>3. list(x) = vs
        BY DEF list, vs
      <4>4. x.arg.list = << >> => list(x) = {}
        BY DEF list, ParseVlanList, Parsed
      <4>5. QED
        BY <4>1, <4>2, <4>3, <4>4
    <3>2. CASE Rank(x) = 4
      <4>1. x = y \/ list(y) \subseteq r.allowed
        BY <1>1, <1>4, <2>10
      <4>2. list(x) = vs
        BY DEF list, vs
      <4>3. x.arg.list = << >> => list(x) = {}
        BY DEF list, ParseVlanList, Parsed
      <4>4. QED
        BY <2>7, <3>2, <4>1, <4>2, <4>3
    <3>3. QED
      BY <2>1, <3>1, <3>2
  <2>11. QED
    BY <1>1, <1>4, <1>6, <2>7, <2>8, <2>9, <2>10 DEF x, q
<1>13. QED
  BY <1>1, <1>8, <1>9, <1>10, <1>11, <1>12 DEF Told, mode, access

\* The record q is the record p that was saved, its list of VLANs included when
\* the command reads each of its lines whole.
Back(p, q) ==
    /\ q \in Port /\ q.cdp = p.cdp
    /\ p.type = "switched" =>
          q.type = "switched" /\ q.mode = p.mode /\ q.access = p.access
    /\ /\ p.type = "switched" /\ p.allowed # {}
       /\ \A k \in DOMAIN ListVlans(p.allowed) :
             Parsed(ListVlans(p.allowed)[k].arg.list)
                = DOMAIN ListVlans(p.allowed)[k].arg.list
       => q.allowed = p.allowed

\* A section that was read to its end has made the record it was written for.
LEMMA SectionRead ==
    ASSUME NEW i, NEW p \in Port, NEW s, Section(i, p, s), Len(s) \in Nat \ {0},
           NEW n \in Int, Len(s) <= n, NEW q, PortIs(p, s, n, q)
    PROVE  Back(p, q)
<1> DEFINE mode == Line("mode", p.mode)
           access == Line("access", p.access)
<1>1. \A x : ReadIn(s, n, x) <=> Has(s, x)
  <2>1. \A k \in 1 .. Len(s) : k <= n
    OBVIOUS
  <2>2. QED
    BY <2>1, Zenon DEF ReadIn, Has
<1>2. /\ \A x : Has(s, x) => x = Line("interface", i) \/ Told(p, x)
      /\ p.cdp \/ Has(s, NoCdpLine)
      /\ p.type = "switched" =>
            /\ Has(s, mode)
            /\ p.access = DefaultVlan \/ Has(s, access)
            /\ \E x : Has(s, x) /\ ListLine(p.allowed, x) /\ Rank(x) = 3
            /\ \A x : Has(ListVlans(p.allowed), x) => Has(s, x)
  BY Zenon DEF Section
<1>3. /\ q \in Port /\ q.type = "switched"
      /\ q.cdp <=> ~ReadIn(s, n, NoCdpLine)
      /\ ReadIn(s, n, mode) => q.mode = p.mode
      /\ ReadIn(s, n, access) => q.access = p.access
      /\ ~ReadIn(s, n, access) => q.access = DefaultVlan
      /\ \A x : ListLine(p.allowed, x) /\ Rank(x) = 3 /\ ReadIn(s, n, x) /\ p.allowed # {} =>
            q.allowed \subseteq p.allowed
      /\ \A x : ListLine(p.allowed, x) /\ ReadIn(s, n, x) =>
            ParseVlanList(x.arg.list) \subseteq q.allowed
  BY Zenon DEF PortIs
<1>4. Has(s, NoCdpLine) => ~p.cdp
  <2>1. /\ Rank(NoCdpLine) = 6 /\ Rank(DescriptionLine) = 1
        /\ \A v : /\ Rank(Line("mode", v)) = 5 /\ Rank(Line("access", v)) = 2
                  /\ Rank(Line("interface", v)) = 0
    BY RankOfCdp, RankOfMode, RankOfAccess, RankOfDescription, RankOfInterface
  <2>2. ~ListLine(p.allowed, NoCdpLine)
    BY <2>1, ListLineIs
  <2>3. Has(s, NoCdpLine) => Told(p, NoCdpLine)
    BY <1>2, <2>1
  <2>4. QED
    BY <2>1, <2>2, <2>3 DEF Told
<1>5. q.cdp = p.cdp
  <2>1. q.cdp \in BOOLEAN /\ p.cdp \in BOOLEAN
    BY <1>3 DEF Port
  <2>2. QED
    BY <1>1, <1>2, <1>3, <1>4, <2>1
<1>6. p.type = "switched" => q.type = "switched" /\ q.mode = p.mode /\ q.access = p.access
  BY <1>1, <1>2, <1>3
<1>7. ASSUME p.type = "switched", p.allowed # {},
             \A k \in DOMAIN ListVlans(p.allowed) :
                Parsed(ListVlans(p.allowed)[k].arg.list)
                   = DOMAIN ListVlans(p.allowed)[k].arg.list
      PROVE  q.allowed = p.allowed
  <2>1. p.allowed \in SUBSET Vlans
    BY DEF Port
  <2>2. q.allowed \subseteq p.allowed
    BY <1>1, <1>2, <1>3, <1>7
  <2>3. ASSUME NEW v \in p.allowed PROVE v \in q.allowed
    <3>1. PICK x : Has(ListVlans(p.allowed), x) /\ v \in ParseVlanList(x.arg.list)
      BY <1>7, <2>1, ListsWhole
    <3>2. ListLine(p.allowed, x) /\ ReadIn(s, n, x)
      BY <1>1, <1>2, <1>7, <2>1, <3>1, ListPiece
    <3>3. QED
      BY <1>3, <3>1, <3>2
  <2>4. QED
    BY <2>2, <2>3
<1>8. QED
  BY <1>3, <1>5, <1>6, <1>7 DEF Back

\* Where the sections of the interfaces are, and how many lines of one are read.
AtOf(c, f) == CHOOSE b : PortsAt(c, f, b)
Sec(i) == BuildConfigInterface(saved, i)
SoFar(i) == Place - AtOf(saved, file)[i]

\* The menu in the middle of a section: its interface may be missing.
MenuOf(i) == IF i \in present THEN <<"port", i>> ELSE <<"config">>

\* The lines that were read have made these records, of interfaces that are
\* there, and CDP runs until the line that stops it.
PortsLoaded ==
    phase # "running" =>
    /\ file # << >>
    /\ DOMAIN live.ports = {i \in DOMAIN saved.ports \cap present : SoFar(i) >= 1}
    /\ \A i \in DOMAIN live.ports : PortIs(saved.ports[i], Sec(i), SoFar(i), live.ports[i])
    /\ live.down = {}
    /\ (\A k \in 1 .. Place : file[k] # NoCdpRunLine) => live.cdp.run
    /\ phase = "loading" =>
          \A i \in DOMAIN saved.ports :
             SoFar(i) \in 1 .. Len(Sec(i)) - 1 => live.at = MenuOf(i)

\* The commands of the lines that are not of interfaces.
LEMMA NoPortLine ==
    /\ \A x \in AnyLine : x \notin PortLine =>
          x.cmd \notin {"interface", "access", "allowed", "mode", "no cdp enable"}
    /\ \A x \in AnyLine : x.cmd = "no cdp run" => x = NoCdpRunLine
    /\ \A x \in PortLine : x.cmd # "no cdp run"
<1>1. \A x \in VlanLine : x.cmd \in {"vlan", "name"}
  BY LineCmd DEF VlanLine
<1>2. \A x \in IgmpLine \cup MacLine : x.cmd \in {"no igmp", "mac static"}
  BY LineCmd DEF IgmpLine, MacLine
<1>3. \A x \in GlobalLine :
         \/ x.cmd \in {"enable secret 5", "cdp timer", "aging-time"}
         \/ x.cmd = "no cdp run" /\ x \in Lines("no cdp run", {TRUE})
  BY LineCmd DEF GlobalLine
<1>4. \A x \in Lines("no cdp run", {TRUE}) : x = NoCdpRunLine
  BY Zenon DEF Lines, NoCdpRunLine
<1>5. \A x \in PortLine :
         x.cmd \in {"interface", "description", "access", "allowed", "mode", "no cdp enable"}
  <2>1. \A x \in Lines("interface", Interfaces) : x.cmd = "interface"
    BY LineCmd
  <2>2. QED
    BY <2>1, SubLineCmd DEF PortLine
<1>6. \A x \in AnyLine : x \in VlanLine \/ x \in IgmpLine \cup MacLine \/ x \in GlobalLine \/ x \in PortLine
  BY DEF AnyLine
<1>7. QED
  BY <1>1, <1>2, <1>3, <1>4, <1>5, <1>6

\* What the file says of a section.
LEMMA SectionsAt ==
    ASSUME ConfigInv, file # << >>
    PROVE  /\ PortsAt(saved, file, AtOf(saved, file))
           /\ \A i \in DOMAIN saved.ports :
                 /\ AtOf(saved, file)[i] \in Nat /\ Len(Sec(i)) \in Nat \ {0}
                 /\ AtOf(saved, file)[i] + Len(Sec(i)) <= Len(file)
                 /\ i \in Interfaces /\ saved.ports[i] \in Port
                 /\ Section(i, saved.ports[i], Sec(i)) /\ Sec(i) \in Seq(PortLine)
<1> DEFINE b == AtOf(saved, file)
<1>1. saved \in Config
  BY DEF ConfigInv, Sound
<1>2. \E d : PortsAt(saved, file, d)
  BY <1>1, FileIs DEF ConfigInv, FileOf
<1>3. PortsAt(saved, file, b)
  BY <1>2, Zenon DEF AtOf
<1> HIDE DEF b
<1>4. ASSUME NEW i \in DOMAIN saved.ports
      PROVE  /\ b[i] \in Nat /\ Len(Sec(i)) \in Nat \ {0} /\ b[i] + Len(Sec(i)) <= Len(file)
             /\ i \in Interfaces /\ saved.ports[i] \in Port
             /\ Section(i, saved.ports[i], Sec(i)) /\ Sec(i) \in Seq(PortLine)
  <2>1. b[i] \in Nat /\ b[i] + Len(Sec(i)) <= Len(file)
    BY <1>3 DEF PortsAt, Sec
  <2>2. /\ i \in Interfaces /\ saved.ports[i] \in Port
        /\ Section(i, saved.ports[i], Sec(i)) /\ Sec(i) \in Seq(PortLine) /\ Len(Sec(i)) \in Nat
    BY <1>1, BuildIn DEF Sec
  <2>3. 1 <= Len(Sec(i))
    BY <2>2 DEF Section
  <2>4. QED
    BY <2>1, <2>2, <2>3
<1>5. QED
  BY <1>3, <1>4 DEF b

\* The next line is in the section of one interface at most, and it is a line
\* of an interface when it is in one.
Here(i) == Inside(saved, AtOf(saved, file), i, Place + 1)

\* What follows from where the sections are.
LEMMA HereIs ==
    ASSUME ConfigInv, NEW c, Loads(c)
    PROVE  /\ \A i \in DOMAIN saved.ports : Here(i) <=> SoFar(i) + 1 \in 1 .. Len(Sec(i))
           /\ \A i \in DOMAIN saved.ports :
                 Here(i) => file[Place + 1] = Sec(i)[SoFar(i) + 1] /\ file[Place + 1] \in PortLine
           /\ file[Place + 1] \in PortLine => \E i \in DOMAIN saved.ports : Here(i)
           /\ \A i, j \in DOMAIN saved.ports : Here(i) /\ Here(j) => i = j
           /\ \A i \in DOMAIN saved.ports : SoFar(i) \in Int
<1> DEFINE b == AtOf(saved, file)
           n == Place
           x == file[n + 1]
<1>1. n \in Nat /\ n + 1 \in 1 .. Len(file) /\ file # << >>
  BY DEF Loads, ConfigInv
<1>2. PortsAt(saved, file, b)
  BY <1>1, SectionsAt
<1>3. ASSUME NEW i \in DOMAIN saved.ports
      PROVE  /\ SoFar(i) \in Int /\ b[i] \in Nat /\ b[i] + (SoFar(i) + 1) = n + 1
             /\ (n + 1) - b[i] = SoFar(i) + 1
  <2>1. b[i] \in Nat
    BY <1>1, SectionsAt
  <2>2. SoFar(i) = n - b[i]
    BY DEF SoFar
  <2> HIDE DEF b, n
  <2>3. QED
    BY <1>1, <2>1, <2>2
<1> HIDE DEF b
<1>4. ASSUME NEW i \in DOMAIN saved.ports PROVE Here(i) <=> SoFar(i) + 1 \in 1 .. Len(Sec(i))
  BY <1>3 DEF Here, Inside, Sec, b
<1>5. ASSUME NEW i \in DOMAIN saved.ports, Here(i) PROVE x = Sec(i)[SoFar(i) + 1] /\ x \in PortLine
  <2>1. SoFar(i) + 1 \in 1 .. Len(Sec(i))
    BY <1>4, <1>5
  <2>2. file[b[i] + (SoFar(i) + 1)] = Sec(i)[SoFar(i) + 1]
    BY <1>2, <2>1 DEF PortsAt, Sec
  <2>3. Sec(i) \in Seq(PortLine)
    BY <1>1, SectionsAt
  <2>4. Sec(i)[SoFar(i) + 1] \in PortLine
    BY <2>1, <2>3
  <2>5. QED
    BY <1>3, <2>2, <2>4
<1>6. x \in PortLine => \E i \in DOMAIN saved.ports : Here(i)
  BY <1>1, <1>2 DEF PortsAt, Here, b
<1>7. ASSUME NEW i \in DOMAIN saved.ports, NEW j \in DOMAIN saved.ports, Here(i), Here(j) PROVE i = j
  BY <1>1, <1>2, <1>7 DEF PortsAt, Here, b
<1>8. QED
  BY <1>3, <1>4, <1>5, <1>6, <1>7

\* A line that is not in the section of interface i leaves what was read of it.
LEMMA Elsewhere ==
    ASSUME ConfigInv, NEW c, Loads(c), NEW i \in DOMAIN saved.ports, ~Here(i)
    PROVE  /\ SoFar(i) + 1 >= 1 <=> SoFar(i) >= 1
           /\ SoFar(i) + 1 \notin 1 .. Len(Sec(i)) - 1
           /\ \A r : PortIs(saved.ports[i], Sec(i), SoFar(i), r) =>
                     PortIs(saved.ports[i], Sec(i), SoFar(i) + 1, r)
<1>1. SoFar(i) \in Int /\ SoFar(i) + 1 \notin 1 .. Len(Sec(i))
  BY HereIs
<1>2. Len(Sec(i)) \in Nat \ {0}
  BY SectionsAt DEF Loads, ConfigInv
<1>3. \A k \in 1 .. Len(Sec(i)) : k <= SoFar(i) + 1 <=> k <= SoFar(i)
  BY <1>1, <1>2
<1>4. \A x : ReadIn(Sec(i), SoFar(i) + 1, x) <=> ReadIn(Sec(i), SoFar(i), x)
  BY <1>3, Zenon DEF ReadIn
<1>5. \A r : PortIs(saved.ports[i], Sec(i), SoFar(i), r) =>
             PortIs(saved.ports[i], Sec(i), SoFar(i) + 1, r)
  BY <1>4, PortStays, Zenon
<1>6. (SoFar(i) + 1 >= 1 <=> SoFar(i) >= 1) /\ SoFar(i) + 1 \notin 1 .. Len(Sec(i)) - 1
  BY <1>1, <1>2
<1>7. QED
  BY <1>5, <1>6

\* What c must hold after the next line.
NextPorts(c) ==
    /\ DOMAIN c.ports = {i \in DOMAIN saved.ports \cap present : SoFar(i) + 1 >= 1}
    /\ \A i \in DOMAIN c.ports : PortIs(saved.ports[i], Sec(i), SoFar(i) + 1, c.ports[i])
    /\ \A i \in DOMAIN saved.ports : SoFar(i) + 1 \in 1 .. Len(Sec(i)) - 1 => c.at = MenuOf(i)

\* What holds before it.
LEMMA PortsBeforeLine ==
    ASSUME PortsLoaded, NEW c, Loads(c)
    PROVE  /\ DOMAIN live.ports = {i \in DOMAIN saved.ports \cap present : SoFar(i) >= 1}
           /\ \A i \in DOMAIN live.ports : PortIs(saved.ports[i], Sec(i), SoFar(i), live.ports[i])
           /\ live.down = {} /\ file # << >>
           /\ (\A k \in 1 .. Place : file[k] # NoCdpRunLine) => live.cdp.run
           /\ \A i \in DOMAIN saved.ports :
                 SoFar(i) \in 1 .. Len(Sec(i)) - 1 => live.at = MenuOf(i)
BY DEF PortsLoaded, Loads

\* A line that is not of an interface.
LEMMA OtherLineRead ==
    ASSUME ConfigInv, PortsLoaded, NEW c, Loads(c), file[Place + 1] \notin PortLine
    PROVE  NextPorts(c)
<1>1. \A i \in DOMAIN saved.ports : ~Here(i)
  BY HereIs
<1>2. c.ports = live.ports
  BY NoPortLine DEF Loads, Untouched
<1>3. \A i \in DOMAIN saved.ports :
         /\ SoFar(i) + 1 >= 1 <=> SoFar(i) >= 1
         /\ SoFar(i) + 1 \notin 1 .. Len(Sec(i)) - 1
         /\ \A r : PortIs(saved.ports[i], Sec(i), SoFar(i), r) =>
                   PortIs(saved.ports[i], Sec(i), SoFar(i) + 1, r)
  BY <1>1, Elsewhere
<1>4. /\ DOMAIN live.ports = {i \in DOMAIN saved.ports \cap present : SoFar(i) >= 1}
      /\ \A i \in DOMAIN live.ports : PortIs(saved.ports[i], Sec(i), SoFar(i), live.ports[i])
  BY PortsBeforeLine
<1>5. QED
  BY <1>2, <1>3, <1>4 DEF NextPorts

\* What "interface" makes.
LEMMA UseIs ==
    ASSUME NEW c \in Config, NEW i
    PROVE  LET m == [c EXCEPT !.at = <<"config">>]
               d == UseIfEther(m, i) IN
           /\ i \notin present => d.ports = c.ports /\ d.at = <<"config">>
           /\ i \in present =>
                 /\ DOMAIN d.ports = DOMAIN c.ports \cup {i} /\ d.at = <<"port", i>>
                 /\ \A j \in DOMAIN c.ports : d.ports[j] = c.ports[j]
                 /\ i \notin DOMAIN c.ports => d.ports[i] = NewPort(m, i)
                 /\ m.down = c.down
BY DEF UseIfEther, Config

\* A new record is what the first line of a section makes.
LEMMA NewPortIs ==
    ASSUME NEW i, NEW p \in Port, NEW s, Section(i, p, s), NEW m, i \notin m.down
    PROVE  PortIs(p, s, 1, NewPort(m, i))
<1> DEFINE r == NewPort(m, i)
<1>1. /\ r \in Port /\ r.type = "switched" /\ r.mode = "access" /\ r.access = DefaultVlan /\ r.cdp
      /\ r.allowed = Vlans
  BY DefaultIn DEF NewPort, Port
<1>2. Rank(s[1]) = 0 /\ Len(s) \in Nat
  BY RankOfInterface DEF Section, Piece
<1>3. \A x : ReadIn(s, 1, x) => Rank(x) = 0
  <2>1. \A k \in 1 .. Len(s) : k <= 1 => k = 1
    BY <1>2
  <2>2. QED
    BY <1>2, <2>1, Zenon DEF ReadIn
<1>4. /\ Rank(NoCdpLine) = 6 /\ \A v : Rank(Line("mode", v)) = 5 /\ Rank(Line("access", v)) = 2
  BY RankOfCdp, RankOfMode, RankOfAccess
<1>5. /\ ~ReadIn(s, 1, NoCdpLine) /\ ~ReadIn(s, 1, Line("mode", p.mode))
      /\ ~ReadIn(s, 1, Line("access", p.access))
      /\ \A x : ListLine(p.allowed, x) => ~ReadIn(s, 1, x)
  BY <1>3, <1>4, ListLineIs
<1> HIDE DEF r
<1>6. PortIs(p, s, 1, r)
  BY <1>1, <1>5, Zenon DEF PortIs
<1>7. QED
  BY <1>6 DEF r

\* The first line of a section.
LEMMA FirstLineRead ==
    ASSUME ConfigInv, PortsLoaded, NEW c, Loads(c),
           NEW i \in DOMAIN saved.ports, Here(i), SoFar(i) = 0
    PROVE  NextPorts(c)
<1> DEFINE S == DOMAIN saved.ports
           m == [live EXCEPT !.at = <<"config">>]
<1>1. /\ \A j \in S : j # i => ~Here(j)
      /\ file[Place + 1] = Sec(i)[SoFar(i) + 1]
  BY HereIs
<1>2. Section(i, saved.ports[i], Sec(i)) /\ saved.ports[i] \in Port
  BY SectionsAt, PortsBeforeLine
<1>3. file[Place + 1] = Line("interface", i)
  <2>1. SoFar(i) + 1 = 1
    OBVIOUS
  <2>2. Sec(i)[1] = Line("interface", i)
    BY <1>2, Zenon DEF Section
  <2>3. QED
    BY <1>1, <2>1, <2>2, Zenon
<1>4. c = UseIfEther(m, i)
  <2>1. c = LoadedLine(live, file[Place + 1])
    BY Zenon DEF Loads
  <2>2. LoadedLine(live, Line("interface", i)) = UseIfEther(m, i)
    BY LoadedAs, Zenon
  <2>3. QED
    BY <1>3, <2>1, <2>2, Zenon
<1>5. \A j \in S : j # i =>
         /\ SoFar(j) + 1 >= 1 <=> SoFar(j) >= 1
         /\ SoFar(j) + 1 \notin 1 .. Len(Sec(j)) - 1
         /\ \A r : PortIs(saved.ports[j], Sec(j), SoFar(j), r) =>
                   PortIs(saved.ports[j], Sec(j), SoFar(j) + 1, r)
  BY <1>1, Elsewhere
<1>6. /\ DOMAIN live.ports = {j \in S \cap present : SoFar(j) >= 1}
      /\ \A j \in DOMAIN live.ports : PortIs(saved.ports[j], Sec(j), SoFar(j), live.ports[j])
      /\ live.down = {}
  BY PortsBeforeLine
<1>7. i \notin DOMAIN live.ports /\ SoFar(i) + 1 = 1
  BY <1>6
<1>8. live \in Config
  BY DEF ConfigInv, Sound
<1>9. /\ i \notin present => c.ports = live.ports /\ c.at = <<"config">>
      /\ i \in present =>
            /\ DOMAIN c.ports = DOMAIN live.ports \cup {i} /\ c.at = <<"port", i>>
            /\ \A j \in DOMAIN live.ports : c.ports[j] = live.ports[j]
            /\ c.ports[i] = NewPort(m, i) /\ m.down = {}
  BY <1>4, <1>6, <1>7, <1>8, UseIs
<1> HIDE DEF m
<1>10. i \in present => PortIs(saved.ports[i], Sec(i), 1, NewPort(m, i))
  BY <1>2, <1>9, NewPortIs
<1>11. DOMAIN c.ports = {j \in S \cap present : SoFar(j) + 1 >= 1}
  <2>1. \A j \in S : SoFar(j) + 1 >= 1 <=> SoFar(j) >= 1 \/ j = i
    BY <1>5, <1>7
  <2>2. QED
    BY <1>6, <1>9, <2>1
<1>12. ASSUME NEW j \in DOMAIN c.ports
       PROVE  PortIs(saved.ports[j], Sec(j), SoFar(j) + 1, c.ports[j])
  <2>1. CASE j = i
    BY <1>7, <1>9, <1>10, <1>12, <2>1
  <2>2. CASE j # i
    <3>1. j \in DOMAIN live.ports /\ c.ports[j] = live.ports[j] /\ j \in S
      BY <1>6, <1>9, <1>12, <2>2
    <3>2. QED
      BY <1>5, <1>6, <2>2, <3>1
  <2>3. QED
    BY <2>1, <2>2
<1>13. ASSUME NEW j \in S, SoFar(j) + 1 \in 1 .. Len(Sec(j)) - 1 PROVE c.at = MenuOf(j)
  BY <1>5, <1>9, <1>13 DEF MenuOf
<1>14. QED
  BY <1>11, <1>12, <1>13 DEF NextPorts

\* What a line of a section does in the menu that is current.
LEMMA SubLineDoes ==
    ASSUME NEW c, Sound(c), NEW x \in PortSubLine
    PROVE  /\ c.at = <<"config">> => LoadedLine(c, x) = c
           /\ \A i \in Interfaces : c.at = <<"port", i>> =>
                 /\ LoadedLine(c, x).at = c.at
                 /\ LoadedLine(c, x).ports = [c.ports EXCEPT ![i] = Changed(c.ports[i], x, c, i)]
<1> DEFINE cmd == x.cmd
           arg == x.arg
           new(i) == [c EXCEPT !.ports[i] = PortCommand(c.ports[i], cmd, arg, c, i)]
<1>1. LoadedLine(c, x) = SubCommand(c, cmd, arg)
  <2>1. x.cmd \in SubCommands
    BY SubLineCmd DEF SubCommands
  <2>2. QED
    BY <2>1, Zenon DEF LoadedLine
<1>2. c \in Config
  BY DEF Sound
<1> HIDE DEF cmd, arg
<1>3. c.at = <<"config">> => LoadedLine(c, x) = c
  BY <1>1, SubOfMain, Zenon
<1>4. ASSUME NEW i \in Interfaces, c.at = <<"port", i>>
      PROVE  /\ LoadedLine(c, x).at = c.at
             /\ LoadedLine(c, x).ports = [c.ports EXCEPT ![i] = Changed(c.ports[i], x, c, i)]
  <2>1. i \in DOMAIN c.ports /\ c.ports \in Ports
    BY <1>2, <1>4 DEF Sound, AtRecord, Config
  <2>2. CASE cmd = "description"
    <3>1. LoadedLine(c, x) = CmdIfDesc(c, i)
      BY <1>1, <1>4, <2>2, SubDescription, Zenon
    <3>2. CmdIfDesc(c, i).at = c.at /\ CmdIfDesc(c, i).ports = c.ports
      BY <1>2 DEF CmdIfDesc, Config
    <3>3. Changed(c.ports[i], x, c, i) = c.ports[i]
      BY <2>2, Zenon DEF Changed, cmd
    <3>4. [c.ports EXCEPT ![i] = c.ports[i]] = c.ports
      BY <2>1, PortsOf
    <3>5. QED
      BY <3>1, <3>2, <3>3, <3>4
  <2>3. CASE cmd # "description"
    <3>1. LoadedLine(c, x) = new(i)
      <4>1. SubCommand(c, cmd, arg) = new(i)
        BY <1>4, <2>3, SubOfPort
      <4>2. QED
        BY <1>1, <4>1, Zenon
    <3> DEFINE p == PortCommand(c.ports[i], cmd, arg, c, i)
    <3>2. Changed(c.ports[i], x, c, i) = p
      BY <2>3, Zenon DEF Changed, cmd, arg
    <3> HIDE DEF p
    <3>3. new(i).at = c.at /\ new(i).ports = [c.ports EXCEPT ![i] = p]
      BY <1>2 DEF Config, p
    <3>4. QED
      BY <3>1, <3>2, <3>3
  <2>4. QED
    BY <2>2, <2>3
<1>5. QED
  BY <1>3, <1>4

\* The other lines of a section.
LEMMA NextLineRead ==
    ASSUME ConfigInv, PortsLoaded, NEW c, Loads(c),
           NEW i \in DOMAIN saved.ports, Here(i), SoFar(i) # 0
    PROVE  NextPorts(c)
<1> DEFINE S == DOMAIN saved.ports
           x == file[Place + 1]
           q == SoFar(i)
           s == Sec(i)
           p == saved.ports[i]
<1>1. /\ \A j \in S : j # i => ~Here(j)
      /\ x = s[q + 1] /\ x \in PortLine /\ q \in Int /\ q + 1 \in 1 .. Len(s)
  BY HereIs
<1>2. Section(i, p, s) /\ p \in Port /\ i \in Interfaces /\ Len(s) \in Nat
  BY SectionsAt, PortsBeforeLine
<1>3. q + 1 \in 2 .. Len(s) /\ q \in 1 .. Len(s) - 1 /\ q >= 1 /\ q + 1 >= 1 /\ (q + 1) - 1 = q
  BY <1>1, <1>2
<1>4. x \in PortSubLine
  <2>1. Rank(x) \in 1 .. 6
    BY <1>1, <1>2, <1>3, NextOfSection
  <2>2. \A y \in Lines("interface", Interfaces) : Rank(y) = 0
    BY RankOfInterface, Zenon DEF Lines
  <2>3. QED
    BY <1>1, <2>1, <2>2 DEF PortLine
<1>5. \A j \in S : j # i =>
         /\ SoFar(j) + 1 >= 1 <=> SoFar(j) >= 1
         /\ SoFar(j) + 1 \notin 1 .. Len(Sec(j)) - 1
         /\ \A r : PortIs(saved.ports[j], Sec(j), SoFar(j), r) =>
                   PortIs(saved.ports[j], Sec(j), SoFar(j) + 1, r)
  BY <1>1, Elsewhere
<1>6. /\ DOMAIN live.ports = {j \in S \cap present : SoFar(j) >= 1}
      /\ \A j \in DOMAIN live.ports : PortIs(saved.ports[j], Sec(j), SoFar(j), live.ports[j])
      /\ (\A k \in 1 .. Place : file[k] # NoCdpRunLine) => live.cdp.run
      /\ live.at = MenuOf(i)
  BY <1>3, PortsBeforeLine
<1>7. Sound(live) /\ c = LoadedLine(live, x)
  BY DEF ConfigInv, Loads
<1>8. live.cdp.run
  <2>1. ASSUME NEW k \in 1 .. Place, file[k] = NoCdpRunLine PROVE FALSE
    <3>1. Place \in Nat /\ Place + 1 \in 1 .. Len(file) /\ k \in 1 .. Len(file)
      BY DEF Loads
    <3>2. Place + 1 < k
      BY <1>1, <2>1, <3>1 DEF Loads, FileOf
    <3>3. QED
      BY <3>1, <3>2
  <2>2. QED
    BY <1>6, <2>1
<1> HIDE DEF x, q, s, p
<1>9. CASE i \notin present
  <2>1. c = live
    BY <1>4, <1>6, <1>7, <1>9, SubLineDoes DEF MenuOf
  <2>2. DOMAIN c.ports = {j \in S \cap present : SoFar(j) + 1 >= 1}
    BY <1>5, <1>6, <1>9, <2>1
  <2>3. ASSUME NEW j \in DOMAIN c.ports
        PROVE  PortIs(saved.ports[j], Sec(j), SoFar(j) + 1, c.ports[j])
    BY <1>5, <1>6, <1>9, <2>1, <2>3
  <2>4. \A j \in S : SoFar(j) + 1 \in 1 .. Len(Sec(j)) - 1 => c.at = MenuOf(j)
    BY <1>5, <1>6, <2>1
  <2>5. QED
    BY <2>2, <2>3, <2>4 DEF NextPorts
<1>10. CASE i \in present
  <2> DEFINE r == live.ports[i]
             r2 == Changed(r, x, live, i)
  <2>1. /\ live.at = <<"port", i>> /\ i \in DOMAIN live.ports
        /\ PortIs(p, s, q, r)
    BY <1>3, <1>6, <1>10 DEF MenuOf, q, p, s
  <2>2. c.at = live.at /\ c.ports = [live.ports EXCEPT ![i] = r2]
    BY <1>2, <1>4, <1>7, <2>1, SubLineDoes
  <2> HIDE DEF r
  <2>3. PortIs(p, s, q + 1, r2)
    <3>1. PortIs(p, s, (q + 1) - 1, r)
      BY <1>3, <2>1
    <3>2. PortIs(p, s, q + 1, Changed(r, s[q + 1], live, i))
      BY <1>2, <1>3, <1>8, <3>1, PortLineRead
    <3>3. QED
      BY <1>1, <3>2
  <2> HIDE DEF r2
  <2>4. DOMAIN c.ports = DOMAIN live.ports /\ c.ports[i] = r2
        /\ \A j \in DOMAIN live.ports : j # i => c.ports[j] = live.ports[j]
    BY <2>1, <2>2
  <2>5. DOMAIN c.ports = {j \in S \cap present : SoFar(j) + 1 >= 1}
    <3>1. \A j \in S : SoFar(j) + 1 >= 1 <=> SoFar(j) >= 1
      BY <1>3, <1>5 DEF q
    <3>2. QED
      BY <1>6, <2>4, <3>1
  <2>6. ASSUME NEW j \in DOMAIN c.ports
        PROVE  PortIs(saved.ports[j], Sec(j), SoFar(j) + 1, c.ports[j])
    <3>1. CASE j = i
      BY <2>3, <2>4, <3>1 DEF p, s, q
    <3>2. CASE j # i
      <4>1. j \in S /\ j \in DOMAIN live.ports /\ c.ports[j] = live.ports[j]
        BY <1>6, <2>4, <2>6, <3>2
      <4>2. QED
        BY <1>5, <1>6, <3>2, <4>1
    <3>3. QED
      BY <3>1, <3>2
  <2>7. \A j \in S : SoFar(j) + 1 \in 1 .. Len(Sec(j)) - 1 => c.at = MenuOf(j)
    BY <1>5, <1>6, <2>2
  <2>8. QED
    BY <2>5, <2>6, <2>7 DEF NextPorts
<1>11. QED
  BY <1>9, <1>10

\* The next line keeps what is known of the interfaces.
LEMMA PortsLoadedNext ==
    ASSUME ConfigInv, PortsLoaded, NEW c, Loads(c)
    PROVE  PortsLoaded'
<1> DEFINE n == Place
           x == file[n + 1]
<1>1. NextPorts(c)
  <2>1. CASE x \notin PortLine
    BY <2>1, OtherLineRead
  <2>2. CASE x \in PortLine
    <3>1. PICK i \in DOMAIN saved.ports : Here(i)
      BY <2>2, HereIs
    <3>2. QED
      BY <3>1, FirstLineRead, NextLineRead
  <2>3. QED
    BY <2>1, <2>2
<1>2. /\ n \in Nat /\ n + 1 \in 1 .. Len(file) /\ Place' = n + 1 /\ x \in AnyLine
      /\ Untouched(live, c, x.cmd) /\ SameSettings(c, live')
      /\ phase' = "loading" => live'.at = c.at
      /\ file' = file /\ saved' = saved /\ present' = present
  BY DEF Loads
<1>3. /\ live.down = {} /\ file # << >>
      /\ (\A k \in 1 .. n : file[k] # NoCdpRunLine) => live.cdp.run
  BY PortsBeforeLine
<1>4. \A i \in DOMAIN saved.ports :
         AtOf(saved, file)[i] \in Nat /\ SoFar(i) \in Int
  BY <1>3, HereIs, SectionsAt
<1> HIDE DEF n, x
<1>5. \A i : Sec(i)' = Sec(i) /\ MenuOf(i)' = MenuOf(i)
  BY <1>2 DEF Sec, MenuOf
<1>6. ASSUME NEW i \in DOMAIN saved.ports PROVE SoFar(i)' = SoFar(i) + 1
  <2>1. SoFar(i)' = (n + 1) - AtOf(saved, file)[i] /\ SoFar(i) = n - AtOf(saved, file)[i]
    BY <1>2 DEF SoFar, n
  <2>2. AtOf(saved, file)[i] \in Nat
    BY <1>4
  <2>3. QED
    BY <1>2, <2>1, <2>2
<1>7. live'.ports = c.ports /\ live'.down = {} /\ live'.cdp = c.cdp
  BY <1>2, <1>3 DEF SameSettings, Untouched
<1>8. DOMAIN live'.ports = {i \in DOMAIN saved'.ports \cap present' : SoFar(i)' >= 1}
  BY <1>1, <1>2, <1>6, <1>7 DEF NextPorts
<1>9. ASSUME NEW i \in DOMAIN live'.ports
      PROVE  PortIs(saved'.ports[i], Sec(i)', SoFar(i)', live'.ports[i])
  <2>1. i \in DOMAIN c.ports /\ i \in DOMAIN saved.ports
    BY <1>1, <1>7, <1>9 DEF NextPorts
  <2>2. PortIs(saved.ports[i], Sec(i), SoFar(i) + 1, c.ports[i])
    BY <1>1, <2>1 DEF NextPorts
  <2>3. QED
    BY <1>2, <1>5, <1>6, <1>7, <2>1, <2>2
<1>10. ASSUME \A k \in 1 .. n + 1 : file[k] # NoCdpRunLine PROVE live'.cdp.run
  <2>1. (\A k \in 1 .. n : file[k] # NoCdpRunLine) /\ x # NoCdpRunLine
    <3>1. n + 1 \in 1 .. n + 1 /\ \A k \in 1 .. n : k \in 1 .. n + 1
      BY <1>2
    <3>2. QED
      BY <1>10, <3>1 DEF x
  <2>2. x.cmd # "no cdp run"
    BY <1>2, <2>1, NoPortLine
  <2>3. QED
    BY <1>2, <1>3, <1>7, <2>1, <2>2 DEF Untouched
<1>11. ASSUME phase' = "loading", NEW i \in DOMAIN saved'.ports, SoFar(i)' \in 1 .. Len(Sec(i)') - 1
       PROVE  live'.at = MenuOf(i)'
  BY <1>1, <1>2, <1>5, <1>6, <1>11 DEF NextPorts
<1>12. QED
  BY <1>2, <1>3, <1>7, <1>8, <1>9, <1>10, <1>11 DEF PortsLoaded

\* Every step keeps it.
LEMMA PortsLoadedKept == ASSUME ConfigInv, ConfigInv', PortsLoaded, [Next]_vars PROVE PortsLoaded'
<1>1. CASE phase' = "running"
  BY <1>1 DEF PortsLoaded
<1>2. CASE UNCHANGED vars
  <2>1. /\ \A i : Sec(i)' = Sec(i) /\ MenuOf(i)' = MenuOf(i) /\ SoFar(i)' = SoFar(i)
        /\ Place' = Place
    BY <1>2 DEF vars, Sec, MenuOf, SoFar, Place
  <2>2. QED
    BY <1>2, <2>1 DEF vars, PortsLoaded
<1>3. CASE /\ phase' = "loading" /\ live' = Boot /\ Place' = 0 /\ file' = file /\ file # << >>
           /\ saved' = saved
  <2>1. Boot.ports = << >> /\ Boot.down = {} /\ Boot.cdp.run /\ DOMAIN << >> = {}
    BY DEF Boot
  <2>2. ASSUME NEW i \in DOMAIN saved.ports PROVE ~(SoFar(i)' >= 1) /\ SoFar(i)' \in Int
    <3>1. SoFar(i)' = 0 - AtOf(saved, file)[i] /\ AtOf(saved, file)[i] \in Nat
      BY <1>3, SectionsAt DEF SoFar
    <3>2. QED
      BY <3>1
  <2>3. {i \in DOMAIN saved'.ports \cap present' : SoFar(i)' >= 1} = {}
    BY <1>3, <2>2
  <2>4. ASSUME NEW i \in DOMAIN saved'.ports PROVE SoFar(i)' \notin 1 .. Len(Sec(i)') - 1
    <3>1. Len(Sec(i)) \in Nat /\ Sec(i)' = Sec(i)
      BY <1>3, SectionsAt DEF Sec
    <3>2. QED
      BY <1>3, <2>2, <3>1
  <2>5. QED
    BY <1>3, <2>1, <2>3, <2>4 DEF PortsLoaded
<1>4. QED
  BY <1>1, <1>2, <1>3, PortsLoadedNext, NoLoad

\* What is known of a load.
LoadInv == ConfigInv /\ VlansLoaded /\ PortsLoaded

\* It holds of every load.
LEMMA Loaded == Spec => []LoadInv
<1>1. Init => VlansLoaded /\ PortsLoaded
  BY DEF Init, VlansLoaded, PortsLoaded
<1>2. LoadInv /\ [Next]_vars => LoadInv'
  BY ConfigKept, VlansLoadedKept, PortsLoadedKept DEF LoadInv
<1>3. Init => LoadInv
  BY <1>1, ConfigInit DEF LoadInv
<1>4. QED
  BY <1>2, <1>3, PTL DEF Spec

\* After a load, every switched interface that the machine still has is back
\* with its mode, its access VLAN and its CDP setting.
THEOREM PortsBack == Spec => []PortsSurvive
<1>1. ASSUME LoadInv PROVE PortsSurvive
  <2> SUFFICES ASSUME phase = "loaded"
               PROVE  /\ DOMAIN live.ports = DOMAIN saved.ports \cap present
                      /\ \A i \in DOMAIN live.ports :
                            LET p == saved.ports[i]  q == live.ports[i] IN
                            /\ q.cdp = p.cdp
                            /\ p.type = "switched" =>
                                  q.type = "switched" /\ q.mode = p.mode /\ q.access = p.access
    BY DEF PortsSurvive
  <2>1. rest = << >> /\ Len(file) \in Nat
    BY <1>1 DEF LoadInv, ConfigInv
  <2>2. Place = Len(file)
    BY <2>1 DEF Place
  <2>3. /\ DOMAIN live.ports = {i \in DOMAIN saved.ports \cap present : SoFar(i) >= 1}
        /\ \A i \in DOMAIN live.ports : PortIs(saved.ports[i], Sec(i), SoFar(i), live.ports[i])
        /\ file # << >> /\ ConfigInv
    BY <1>1 DEF LoadInv, PortsLoaded
  <2>4. ASSUME NEW i \in DOMAIN saved.ports
        PROVE  /\ SoFar(i) \in Int /\ Len(Sec(i)) \in Nat \ {0} /\ Len(Sec(i)) <= SoFar(i)
               /\ saved.ports[i] \in Port /\ Section(i, saved.ports[i], Sec(i))
    <3>1. /\ AtOf(saved, file)[i] \in Nat /\ Len(Sec(i)) \in Nat \ {0}
          /\ AtOf(saved, file)[i] + Len(Sec(i)) <= Len(file)
          /\ saved.ports[i] \in Port /\ Section(i, saved.ports[i], Sec(i))
      BY <2>3, SectionsAt
    <3>2. SoFar(i) = Len(file) - AtOf(saved, file)[i]
      BY <2>2 DEF SoFar
    <3>3. QED
      BY <2>1, <3>1, <3>2
  <2>5. DOMAIN live.ports = DOMAIN saved.ports \cap present
    BY <2>3, <2>4
  <2>6. ASSUME NEW i \in DOMAIN live.ports
        PROVE  LET p == saved.ports[i]  q == live.ports[i] IN
               /\ q.cdp = p.cdp
               /\ p.type = "switched" =>
                     q.type = "switched" /\ q.mode = p.mode /\ q.access = p.access
    <3>1. i \in DOMAIN saved.ports /\ PortIs(saved.ports[i], Sec(i), SoFar(i), live.ports[i])
      BY <2>3, <2>5
    <3>2. /\ SoFar(i) \in Int /\ Len(Sec(i)) \in Nat \ {0} /\ Len(Sec(i)) <= SoFar(i)
          /\ saved.ports[i] \in Port /\ Section(i, saved.ports[i], Sec(i))
      BY <2>4, <3>1
    <3>3. Back(saved.ports[i], live.ports[i])
      BY <3>1, <3>2, SectionRead
    <3>4. QED
      BY <3>3 DEF Back
  <2>7. QED
    BY <2>5, <2>6
<1>2. QED
  BY <1>1, Loaded, PTL

\* At every line of a load, a trunk carries no VLAN that it did not carry when
\* its configuration was saved: its list is read before its mode.
THEOREM NeverWider == Spec => []TrunksNeverWiden
<1>1. ASSUME LoadInv PROVE TrunksNeverWiden
  <2> SUFFICES ASSUME phase # "running", NEW i \in DOMAIN live.ports, NEW v \in Vlans,
                      Device(live, i, v) = "tagged"
               PROVE  /\ i \in DOMAIN saved.ports
                      /\ Device(saved, i, v) = "tagged" \/ saved.ports[i].allowed = {}
    BY DEF TrunksNeverWiden
  <2> DEFINE p == saved.ports[i]
             q == live.ports[i]
             s == Sec(i)
             n == SoFar(i)
             mode == Line("mode", p.mode)
  <2>1. ConfigInv /\ file # << >> /\ PortIs(p, s, n, q) /\ i \in DOMAIN saved.ports
    BY <1>1 DEF LoadInv, PortsLoaded
  <2>2. Section(i, p, s) /\ p \in Port
    BY <2>1, SectionsAt
  <2>3. q.mode = "trunk" /\ v \in q.allowed /\ v \in live.vlans
    BY DEF Device
  <2>4. v \in saved.vlans
    <3>1. live.vlans = DefaultVlans \cup KnownIn(file, Place)
      BY <1>1 DEF LoadInv, VlansLoaded
    <3>2. DefaultVlans \subseteq saved.vlans /\ saved \in Config
      BY <2>1 DEF ConfigInv, Sound
    <3>3. ASSUME NEW k \in 1 .. Place, file[k] = Line("vlan", v) PROVE v \in saved.vlans
      <4>1. FileOf(saved, file)
        BY <2>1, <3>2, FileIs DEF ConfigInv
      <4>2. k \in 1 .. Len(file)
        <5>1. Len(file) \in Nat /\ Len(rest) \in Nat /\ Place = Len(file) - Len(rest)
          BY <2>1 DEF ConfigInv, Place
        <5>2. QED
          BY <5>1
      <4>3. file[k].cmd = "vlan"
        BY <3>3, VlanLinesDiffer
      <4>4. PICK w \in SavedSet(saved) : file[k] = Line("vlan", w) \/ file[k] = NameLine
        BY <4>1, <4>2, <4>3 DEF FileOf, VlansAt
      <4>5. QED
        BY <3>3, <4>4, VlanLinesDiffer DEF SavedSet
    <3>4. QED
      BY <2>3, <3>1, <3>2, <3>3 DEF KnownIn
  <2> HIDE DEF p, q, s, n, mode
  <2>5. ReadIn(s, n, mode) /\ q.mode = p.mode
    <3>1. /\ ReadIn(s, n, mode) => q.mode = p.mode
          /\ ~ReadIn(s, n, mode) => q.mode = "access"
      BY <2>1, Zenon DEF PortIs, mode
    <3>2. "access" # "trunk"
      OBVIOUS
    <3>3. QED
      BY <2>3, <3>1, <3>2
  <2>6. PICK k \in 1 .. Len(s) : k <= n /\ s[k] = mode
    BY <2>5 DEF ReadIn
  <2>7. /\ Rank(mode) = 5 /\ Rank(NoCdpLine) = 6 /\ Rank(DescriptionLine) = 1
        /\ \A w : Rank(Line("interface", w)) = 0
    BY RankOfMode, RankOfCdp, RankOfDescription, RankOfInterface DEF mode
  <2>8. p.type = "switched"
    <3>1. mode = Line("interface", i) \/ Told(p, mode)
      BY <2>2, <2>6, Zenon DEF Section, Has
    <3>2. mode # Line("interface", i) /\ mode # DescriptionLine /\ mode # NoCdpLine
      BY <2>7
    <3>3. QED
      BY <3>1, <3>2, Zenon DEF Told
  <2>9. PICK x : Has(s, x) /\ ListLine(p.allowed, x) /\ Rank(x) = 3
    BY <2>2, <2>8, Zenon DEF Section
  <2>10. ReadIn(s, n, x)
    <3>1. PICK l \in 1 .. Len(s) : s[l] = x
      BY <2>9 DEF Has
    <3>2. Len(s) \in Nat /\ \A a, b \in 1 .. Len(s) : a < b =>
             Rank(s[a]) < Rank(s[b]) \/ (Rank(s[a]) = 4 /\ Rank(s[b]) = 4)
      BY <2>2 DEF Section, Piece
    <3>3. ~(k < l) /\ k # l
      BY <2>6, <2>7, <2>9, <3>1, <3>2
    <3>4. l < k
      BY <3>2, <3>3
    <3>5. n \in Int
      <4>1. Len(file) \in Nat /\ Len(rest) \in Nat /\ AtOf(saved, file)[i] \in Nat
        BY <2>1, SectionsAt DEF ConfigInv
      <4>2. QED
        BY <4>1 DEF n, SoFar, Place
    <3>6. l <= n
      BY <2>6, <3>2, <3>4, <3>5
    <3>7. QED
      BY <3>1, <3>6 DEF ReadIn
  <2>11. p.allowed # {} => q.allowed \subseteq p.allowed
    BY <2>1, <2>9, <2>10, Zenon DEF PortIs
  <2>12. CASE p.allowed = {}
    BY <2>1, <2>12 DEF p
  <2>13. CASE p.allowed # {}
    <3>1. v \in p.allowed /\ p.mode = "trunk" /\ p.type = "switched"
      BY <2>3, <2>5, <2>8, <2>11, <2>13
    <3>2. Device(saved, i, v) = "tagged"
      BY <2>1, <2>4, <3>1 DEF Device, p
    <3>3. QED
      BY <2>1, <3>2
  <2>14. QED
    BY <2>12, <2>13
<1>2. QED
  BY <1>1, Loaded, PTL

-----------------------------------------------------------------------------
(* What the file can express is back.                                      *)

\* One line more of a sequence.
LEMMA ReadNext ==
    ASSUME NEW s, Len(s) \in Nat, NEW n \in Int
    PROVE  /\ n + 1 \in 1 .. Len(s) =>
                 \A y : ReadIn(s, n + 1, y) <=> ReadIn(s, n, y) \/ y = s[n + 1]
           /\ n + 1 \notin 1 .. Len(s) => \A y : ReadIn(s, n + 1, y) <=> ReadIn(s, n, y)
<1>1. \A k \in 1 .. Len(s) : k <= n + 1 <=> k <= n \/ k = n + 1
  OBVIOUS
<1>2. QED
  BY <1>1, Zenon DEF ReadIn

\* What the file says at the next line: the lines before it are not of a later
\* part, and those of an earlier part were read.
LEMMA NextOfFile ==
    ASSUME ConfigInv, NEW c, Loads(c)
    PROVE  LET n == Place  x == file[n + 1] IN
           /\ OthersAt(saved, file) /\ Has(file, x) /\ saved \in Config
           /\ \A y : ReadIn(file, n + 1, y) <=> ReadIn(file, n, y) \/ y = x
           /\ \A y : ReadIn(file, n, y) => Has(file, y) /\ MainRank(y) <= MainRank(x)
           /\ \A k \in 1 .. Len(file) : MainRank(file[k]) < MainRank(x) => k <= n
           /\ Len(file) \in Nat /\ n \in Nat /\ n + 1 \in 1 .. Len(file)
<1> DEFINE n == Place
           x == file[n + 1]
<1>1. /\ n \in Nat /\ n + 1 \in 1 .. Len(file) /\ Len(file) \in Nat
      /\ saved \in Config /\ file = BuildConfigGlobal(saved)
  BY DEF Loads, ConfigInv, Sound
<1>2. OthersAt(saved, file)
  BY <1>1, OthersAre
<1>3. \A k, l \in 1 .. Len(file) : k < l => MainRank(file[k]) <= MainRank(file[l])
  BY <1>2 DEF OthersAt, Ordered
<1>4. \A k \in 1 .. Len(file) : MainRank(file[k]) \in 0 .. 6
  BY <1>2 DEF OthersAt, Ordered
<1> HIDE DEF n
<1>5. ASSUME NEW y, ReadIn(file, n, y) PROVE Has(file, y) /\ MainRank(y) <= MainRank(x)
  BY <1>1, <1>3, <1>5 DEF ReadIn, Has
<1>6. ASSUME NEW k \in 1 .. Len(file), MainRank(file[k]) < MainRank(x) PROVE k <= n
  BY <1>1, <1>3, <1>4, <1>6
<1>7. \A y : ReadIn(file, n + 1, y) <=> ReadIn(file, n, y) \/ y = x
  BY <1>1, ReadNext
<1>8. Has(file, x)
  BY <1>1 DEF Has
<1>9. QED
  BY <1>1, <1>2, <1>5, <1>6, <1>7, <1>8 DEF n

\* The commands of the main menu say which line there is.
LEMMA WholeLineIs ==
    ASSUME NEW x \in AnyLine
    PROVE  /\ x.cmd = "vlan" <=> \E v \in Vlans : x = Line("vlan", v)
           /\ x.cmd = "no igmp" => \E v : x = NoIgmpLine(v)
           /\ x.cmd = "mac static" => \E m \in Address : x = StaticLine(m)
           /\ x.cmd = "aging-time" => \E t : x = AgingLine(t)
           /\ x.cmd = "cdp timer" => \E t : x = TimerLine(t)
           /\ x.cmd = "no cdp run" <=> x = NoCdpRunLine
           /\ x.cmd = "description" <=> x = DescriptionLine
<1> DEFINE Igmp(y) == \E v : y = NoIgmpLine(v)
           Static(y) == \E m \in Address : y = StaticLine(m)
           Aging(y) == \E t : y = AgingLine(t)
           Timer(y) == \E t : y = TimerLine(t)
           Vlan(y) == \E v \in Vlans : y = Line("vlan", v)
           Cmds == {"enable secret 5", "interface", "access", "allowed", "mode", "no cdp enable", "name"}
<1>1. \A y \in Lines("vlan", Vlans) : y.cmd = "vlan" /\ Vlan(y)
  BY LineCmd, Zenon DEF Lines
<1>2. \A y \in IgmpLine : y.cmd = "no igmp" /\ Igmp(y)
  BY LineCmd, Zenon DEF IgmpLine, Lines, NoIgmpLine
<1>3. \A y \in MacLine : y.cmd = "mac static" /\ Static(y)
  BY LineCmd, Zenon DEF MacLine, Lines, StaticLine
<1>4. \A y \in Lines("aging-time", {"unset", "other"}) : y.cmd = "aging-time" /\ Aging(y)
  BY LineCmd, Zenon DEF Lines, AgingLine
<1>5. \A y \in Lines("cdp timer", {"other"}) : y.cmd = "cdp timer" /\ Timer(y)
  BY LineCmd, Zenon DEF Lines, TimerLine
<1>6. \A y \in Lines("no cdp run", {TRUE}) : y.cmd = "no cdp run" /\ y = NoCdpRunLine
  BY LineCmd, Zenon DEF Lines, NoCdpRunLine
<1>7. \A y \in Lines("description", {TRUE}) : y.cmd = "description" /\ y = DescriptionLine
  BY LineCmd, Zenon DEF Lines, DescriptionLine
<1>8. /\ \A y \in Lines("enable secret 5", {TRUE}) : y.cmd = "enable secret 5"
      /\ \A y \in Lines("interface", Interfaces) : y.cmd = "interface"
      /\ \A y \in Lines("name", {TRUE}) : y.cmd = "name"
      /\ \A y \in Lines("access", Vlans) : y.cmd = "access"
      /\ \A y \in Lines("allowed", [how : {"set", "add"}, list : Seq(Vlans \X Vlans)]) :
            y.cmd = "allowed"
      /\ \A y \in Lines("mode", {"access", "trunk"}) : y.cmd = "mode"
      /\ \A y \in Lines("no cdp enable", {TRUE}) : y.cmd = "no cdp enable"
  BY LineCmd, Zenon
<1>9. /\ \A v : Line("vlan", v).cmd = "vlan"
      /\ NoCdpRunLine.cmd = "no cdp run" /\ DescriptionLine.cmd = "description"
  BY LineFields, Zenon DEF NoCdpRunLine, DescriptionLine
<1>10. /\ \A y \in VlanLine : (y.cmd = "vlan" /\ Vlan(y)) \/ y.cmd \in Cmds
       /\ \A y \in PortLine : (y.cmd = "description" /\ y = DescriptionLine) \/ y.cmd \in Cmds
       /\ \A y \in GlobalLine :
             \/ y.cmd \in Cmds \/ (y.cmd = "no cdp run" /\ y = NoCdpRunLine)
             \/ (y.cmd = "cdp timer" /\ Timer(y)) \/ (y.cmd = "aging-time" /\ Aging(y))
  <2> HIDE DEF Igmp, Static, Aging, Timer, Vlan
  <2>1. \A y \in VlanLine : (y.cmd = "vlan" /\ Vlan(y)) \/ y.cmd \in Cmds
    BY <1>1, <1>8 DEF VlanLine
  <2>2. \A y \in PortLine : (y.cmd = "description" /\ y = DescriptionLine) \/ y.cmd \in Cmds
    BY <1>7, <1>8 DEF PortLine, PortSubLine
  <2>3. \A y \in GlobalLine :
           \/ y.cmd \in Cmds \/ (y.cmd = "no cdp run" /\ y = NoCdpRunLine)
           \/ (y.cmd = "cdp timer" /\ Timer(y)) \/ (y.cmd = "aging-time" /\ Aging(y))
    BY <1>4, <1>5, <1>6, <1>8 DEF GlobalLine
  <2>4. QED
    BY <2>1, <2>2, <2>3
<1>11. \/ (x.cmd = "vlan" /\ Vlan(x)) \/ (x.cmd = "no igmp" /\ Igmp(x))
       \/ (x.cmd = "mac static" /\ Static(x)) \/ (x.cmd = "aging-time" /\ Aging(x))
       \/ (x.cmd = "cdp timer" /\ Timer(x)) \/ (x.cmd = "no cdp run" /\ x = NoCdpRunLine)
       \/ (x.cmd = "description" /\ x = DescriptionLine) \/ x.cmd \in Cmds
  BY <1>2, <1>3, <1>10, Zenon DEF AnyLine
<1>12. (\E v \in Vlans : x = Line("vlan", v)) => x.cmd = "vlan"
  BY <1>9, Zenon
<1> HIDE DEF Igmp, Static, Aging, Timer, Vlan
<1>13. /\ x.cmd = "vlan" => Vlan(x)
       /\ x.cmd = "no igmp" => Igmp(x)
       /\ x.cmd = "mac static" => Static(x)
       /\ x.cmd = "aging-time" => Aging(x)
       /\ x.cmd = "cdp timer" => Timer(x)
       /\ x.cmd = "no cdp run" <=> x = NoCdpRunLine
       /\ x.cmd = "description" <=> x = DescriptionLine
  BY <1>9, <1>11
<1>14. QED
  BY <1>12, <1>13, Zenon DEF Igmp, Static, Aging, Timer, Vlan

\* The commands of these lines.
LEMMA WholeLineCmd ==
    /\ \A t : /\ NoIgmpLine(t).cmd = "no igmp" /\ StaticLine(t).cmd = "mac static"
              /\ AgingLine(t).cmd = "aging-time" /\ TimerLine(t).cmd = "cdp timer"
              /\ Line("vlan", t).cmd = "vlan"
    /\ NoCdpRunLine.cmd = "no cdp run" /\ DescriptionLine.cmd = "description"
BY LineFields, Zenon
   DEF NoIgmpLine, StaticLine, AgingLine, TimerLine, NoCdpRunLine, DescriptionLine

\* What these lines do.
LEMMA WholeLineDoes ==
    ASSUME NEW c, NEW t
    PROVE  LET d == [c EXCEPT !.at = <<"config">>] IN
           /\ LoadedLine(c, NoIgmpLine(0)) = SetGlobalIgmp(d, FALSE)
           /\ LoadedLine(c, StaticLine(t)) = CmdMacStatic(d, t[1], t[2])
           /\ LoadedLine(c, AgingLine(t)) = CmdSetAging(d, t)
           /\ LoadedLine(c, TimerLine(t)) = CmdCdpTimer(d, t)
           /\ LoadedLine(c, NoCdpRunLine) = CmdCdpRun(d, FALSE)
           /\ LoadedLine(c, Line("vlan", t)) = CmdVlan(d, t)
BY LoadedAs, Zenon DEF NoIgmpLine, StaticLine, AgingLine, TimerLine, NoCdpRunLine

\* What the file can express is being loaded, and the machine has every
\* interface.
Restoring == phase # "running" /\ Reloadable(saved) /\ present = Interfaces

\* Once the lines of the VLANs and of the interfaces were read, they are back.
LEMMA PortsWhole ==
    ASSUME LoadInv, Restoring, \A k \in 1 .. Len(file) : MainRank(file[k]) <= 3 => k <= Place
    PROVE  live.ports = saved.ports /\ live.vlans = saved.vlans
<1>1. /\ ConfigInv /\ file # << >> /\ Place \in Nat /\ Len(file) \in Nat
      /\ live \in Config /\ saved \in Config /\ FileOf(saved, file)
      /\ DefaultVlans \subseteq saved.vlans
  <2>1. /\ ConfigInv /\ file # << >> /\ live \in Config /\ saved \in Config
        /\ DefaultVlans \subseteq saved.vlans
    BY DEF LoadInv, ConfigInv, Sound, VlansLoaded, Restoring
  <2>2. file = BuildConfigGlobal(saved) /\ rest \in Seq(AnyLine) /\ file \in Seq(AnyLine)
        /\ Len(rest) <= Len(file)
    BY <2>1 DEF ConfigInv, TailOf
  <2>3. QED
    BY <2>1, <2>2, FileIs DEF Place
<1>2. MaxVlan \notin saved.vlans
  BY DEF Restoring, Reloadable
<1>3. live.vlans = DefaultVlans \cup KnownIn(file, Place)
  BY DEF LoadInv, VlansLoaded, Restoring
<1>4. ASSUME NEW v \in saved.vlans, v \notin DefaultVlans PROVE v \in KnownIn(file, Place)
  <2>1. v \in SavedSet(saved) /\ v \in Vlans
    BY <1>1, <1>2, <1>4 DEF SavedSet, Config
  <2>2. PICK k \in 1 .. Len(file) : file[k] = Line("vlan", v)
    BY <1>1, <2>1 DEF FileOf, VlansAt
  <2>3. MainRank(file[k]) <= 3
    <3>1. MainRank(Line("vlan", v)) = 2
      <4>1. Line("vlan", v) \in VlanLine
        BY <2>1, Zenon DEF VlanLine, Lines
      <4>2. QED
        BY <4>1, MainRanks
    <3>2. QED
      BY <2>2, <3>1
  <2>4. k \in 1 .. Place
    BY <1>1, <2>3
  <2>5. QED
    BY <2>1, <2>2, <2>4 DEF KnownIn
<1>5. ASSUME NEW v \in KnownIn(file, Place) PROVE v \in saved.vlans
  <2>1. PICK k \in 1 .. Place : file[k] = Line("vlan", v)
    BY <1>5 DEF KnownIn
  <2>2. k \in 1 .. Len(file)
    BY <1>1 DEF Place, LoadInv, ConfigInv, TailOf
  <2>3. QED
    BY <1>1, <2>1, <2>2, VlanLinesDiffer DEF FileOf, VlansAt, SavedSet
<1>6. live.vlans = saved.vlans
  BY <1>1, <1>3, <1>4, <1>5
<1>7. ASSUME NEW i \in DOMAIN saved.ports
      PROVE  /\ SoFar(i) \in Int /\ Len(Sec(i)) \in Nat \ {0} /\ Len(Sec(i)) <= SoFar(i)
             /\ saved.ports[i] \in Port /\ Section(i, saved.ports[i], Sec(i))
             /\ i \in Interfaces
  <2> DEFINE b == AtOf(saved, file)[i]
             l == Len(Sec(i))
  <2>1. /\ PortsAt(saved, file, AtOf(saved, file)) /\ b \in Nat /\ l \in Nat \ {0}
        /\ b + l <= Len(file) /\ Sec(i) \in Seq(PortLine)
        /\ saved.ports[i] \in Port /\ Section(i, saved.ports[i], Sec(i)) /\ i \in Interfaces
    BY <1>1, <1>7, SectionsAt
  <2>2. file[b + l] = Sec(i)[l] /\ Sec(i)[l] \in PortLine
    BY <1>7, <2>1 DEF PortsAt, Sec
  <2>3. MainRank(file[b + l]) = 3
    BY <2>2, MainRanks
  <2> HIDE DEF b, l
  <2>4. b + l <= Place
    BY <2>1, <2>3
  <2>5. SoFar(i) = Place - b
    BY DEF SoFar, b
  <2>6. QED
    BY <1>1, <2>1, <2>4, <2>5 DEF l
<1>8. /\ DOMAIN live.ports = {i \in DOMAIN saved.ports \cap present : SoFar(i) >= 1}
      /\ \A i \in DOMAIN live.ports : PortIs(saved.ports[i], Sec(i), SoFar(i), live.ports[i])
  BY DEF LoadInv, PortsLoaded, Restoring
<1>9. DOMAIN live.ports = DOMAIN saved.ports
  BY <1>7, <1>8 DEF Restoring
<1>10. ASSUME NEW i \in DOMAIN live.ports PROVE live.ports[i] = saved.ports[i]
  <2> DEFINE p == saved.ports[i]
             q == live.ports[i]
  <2>1. /\ p.type = "switched" /\ p.allowed # {}
        /\ \A k \in DOMAIN ListVlans(p.allowed) :
              Parsed(ListVlans(p.allowed)[k].arg.list)
                 = DOMAIN ListVlans(p.allowed)[k].arg.list
    BY <1>9, <1>10 DEF Restoring, Reloadable
  <2>2. /\ SoFar(i) \in Int /\ Len(Sec(i)) \in Nat \ {0} /\ Len(Sec(i)) <= SoFar(i)
        /\ p \in Port /\ Section(i, p, Sec(i)) /\ PortIs(p, Sec(i), SoFar(i), q)
    BY <1>7, <1>8, <1>9, <1>10
  <2> HIDE DEF p, q
  <2>3. /\ q \in Port /\ q.cdp = p.cdp /\ q.type = p.type /\ q.mode = p.mode
        /\ q.access = p.access /\ q.allowed = p.allowed
    <3>1. Back(p, q)
      BY <2>2, SectionRead
    <3>2. QED
      BY <2>1, <3>1 DEF Back
  <2>4. q = p
    BY <2>2, <2>3 DEF Port
  <2>5. QED
    BY <2>4 DEF p, q
<1>11. /\ live.ports = [i \in DOMAIN live.ports |-> live.ports[i]]
       /\ saved.ports = [i \in DOMAIN saved.ports |-> saved.ports[i]]
  BY <1>1, PortsOf DEF Config
<1>12. QED
  BY <1>6, <1>9, <1>10, <1>11

\* What was read of the settings of IGMP snooping, of the ageing time and of CDP.
IgmpRead(c, n) ==
    /\ ~c.snooping
    /\ c.snooped = KnownIn(file, n)
                   \cup (IF ReadIn(file, n, NoIgmpLine(0)) THEN {} ELSE DefaultVlans)
AgeRead(c, n) ==
    /\ ~c.secret
    /\ c.age = IF ReadIn(file, n, AgingLine(saved.age)) THEN saved.age ELSE "unset"
CdpRead(c, n) ==
    /\ c.cdp.run <=> ~ReadIn(file, n, NoCdpRunLine)
    /\ c.cdp.timer = IF ReadIn(file, n, TimerLine(saved.cdp.timer))
                     THEN saved.cdp.timer ELSE "default"

\* What a line that loads has to do with the file.
LEMMA LineOfLoad ==
    ASSUME LoadInv, NEW c, Loads(c)
    PROVE  /\ ConfigInv /\ Sound(live) /\ live \in Config /\ file[Place + 1] \in AnyLine
           /\ c = LoadedLine(live, file[Place + 1]) /\ Untouched(live, c, file[Place + 1].cmd)
           /\ phase = "loading" /\ file # << >> /\ Place \in Nat
           /\ live.vlans = DefaultVlans \cup KnownIn(file, Place)
           /\ DefaultVlans \subseteq saved.vlans /\ Reached(saved)
BY DEF LoadInv, ConfigInv, Loads, Sound, VlansLoaded

\* The lines of IGMP snooping are read before those of the VLANs: a VLAN that
\* comes after the line that switches snooping off starts with it on.
LEMMA IgmpNext ==
    ASSUME LoadInv, Restoring, NEW c, Loads(c), IgmpRead(live, Place)
    PROVE  IgmpRead(c, Place + 1)
<1> DEFINE n == Place
           x == file[n + 1]
           d == [live EXCEPT !.at = <<"config">>]
           known == KnownIn(file, n)
<1>1. /\ ConfigInv /\ live \in Config /\ x \in AnyLine /\ n \in Nat
      /\ c = LoadedLine(live, x) /\ Untouched(live, c, x.cmd)
      /\ live.vlans = DefaultVlans \cup known /\ DefaultVlans \subseteq saved.vlans
  BY LineOfLoad
<1>2. /\ OthersAt(saved, file) /\ Has(file, x) /\ saved \in Config
      /\ \A y : ReadIn(file, n + 1, y) <=> ReadIn(file, n, y) \/ y = x
      /\ \A y : ReadIn(file, n, y) => Has(file, y) /\ MainRank(y) <= MainRank(x)
      /\ Len(file) \in Nat /\ n + 1 \in 1 .. Len(file)
  BY <1>1, NextOfFile
<1>3. KnownIn(file, n + 1) = known \cup {v \in Vlans : x = Line("vlan", v)}
  BY <1>1, OneMore
<1>4. /\ ~saved.snooping /\ MaxVlan \notin saved.vlans
  BY DEF Restoring, Reloadable
<1>5. d.vlans = live.vlans /\ d.snooped = live.snooped /\ d.snooping = live.snooping
  BY <1>1 DEF Config
<1>6. /\ ~live.snooping
      /\ live.snooped = known \cup (IF ReadIn(file, n, NoIgmpLine(0)) THEN {} ELSE DefaultVlans)
  BY DEF IgmpRead
<1> HIDE DEF n, x, d, known
<1>7. CASE x.cmd = "vlan"
  <2>1. PICK v \in Vlans : x = Line("vlan", v)
    BY <1>1, <1>7, WholeLineIs
  <2>2. v \notin DefaultVlans
    <3>1. FileOf(saved, file)
      BY DEF Loads
    <3>2. QED
      BY <1>2, <1>7, <2>1, <3>1, VlanLinesDiffer DEF FileOf, VlansAt, SavedSet, x
  <2>3. {w \in Vlans : x = Line("vlan", w)} = {v}
    BY <2>1, VlanLinesDiffer
  <2>4. x # NoIgmpLine(0)
    BY <1>7, WholeLineCmd
  <2>5. ReadIn(file, n + 1, NoIgmpLine(0)) <=> ReadIn(file, n, NoIgmpLine(0))
    BY <1>2, <2>4
  <2>6. c = CmdVlan(d, v)
    BY <1>1, <2>1, WholeLineDoes DEF d
  <2>7. c.snooped = live.snooped \cup (IF v \in live.vlans THEN {} ELSE {v})
    BY <1>1, <1>5, <2>6 DEF CmdVlan, Config, d
  <2>8. c.snooped = live.snooped \cup {v}
    BY <1>1, <1>6, <2>2, <2>7
  <2>9. ~c.snooping
    BY <1>1, <1>6, <1>7 DEF Untouched
  <2>10. QED
    BY <1>3, <1>6, <2>3, <2>5, <2>8, <2>9 DEF IgmpRead, n
<1>8. CASE x.cmd = "no igmp"
  <2>1. PICK v : x = NoIgmpLine(v)
    BY <1>1, <1>8, WholeLineIs
  <2>2. v = 0
    BY <1>2, <1>4, <2>1 DEF OthersAt
  <2>3. c = SetGlobalIgmp(d, FALSE)
    BY <1>1, <2>1, <2>2, WholeLineDoes DEF d
  <2>4. known = {}
    <3>1. SUFFICES ASSUME NEW w \in known PROVE FALSE
      OBVIOUS
    <3>2. PICK k \in 1 .. n : file[k] = Line("vlan", w)
      BY <3>1 DEF known, KnownIn
    <3>3. ReadIn(file, n, Line("vlan", w))
      BY <1>1, <1>2, <3>2 DEF ReadIn
    <3>4. w \in Vlans
      BY <3>1 DEF known, KnownIn
    <3>5. MainRank(Line("vlan", w)) = 2
      <4>1. Line("vlan", w) \in VlanLine
        BY <3>4, Zenon DEF VlanLine, Lines
      <4>2. QED
        BY <4>1, MainRanks
    <3>6. MainRank(x) = 1
      BY <2>1, MainRanks
    <3>7. QED
      BY <1>2, <3>3, <3>5, <3>6
  <2>5. {w \in Vlans : x = Line("vlan", w)} = {}
    <3>1. \A w \in Vlans : Line("vlan", w).cmd = "vlan"
      BY WholeLineCmd
    <3>2. QED
      BY <1>8, <3>1
  <2>6. c.snooping = FALSE /\ c.snooped = live.snooped \ (live.vlans \ {MaxVlan})
    BY <1>1, <1>5, <2>3 DEF SetGlobalIgmp, Config, d
  <2>7. live.snooped \subseteq DefaultVlans /\ live.vlans = DefaultVlans /\ MaxVlan \notin DefaultVlans
    BY <1>1, <1>4, <1>6, <2>4
  <2>8. c.snooped = {}
    BY <2>6, <2>7
  <2>9. ReadIn(file, n + 1, NoIgmpLine(0))
    BY <1>2, <2>1, <2>2
  <2>10. QED
    BY <1>3, <2>4, <2>5, <2>6, <2>8, <2>9 DEF IgmpRead, n
<1>9. CASE x.cmd \notin {"vlan", "no igmp"}
  <2>1. c.snooped = live.snooped /\ c.snooping = live.snooping
    BY <1>1, <1>9 DEF Untouched
  <2>2. {w \in Vlans : x = Line("vlan", w)} = {} /\ x # NoIgmpLine(0)
    <3>1. (\A w \in Vlans : Line("vlan", w).cmd = "vlan") /\ NoIgmpLine(0).cmd = "no igmp"
      BY WholeLineCmd
    <3>2. QED
      BY <1>9, <3>1
  <2>3. ReadIn(file, n + 1, NoIgmpLine(0)) <=> ReadIn(file, n, NoIgmpLine(0))
    BY <1>2, <2>2
  <2>4. QED
    BY <1>3, <1>6, <2>1, <2>2, <2>3 DEF IgmpRead, n
<1>10. QED
  BY <1>7, <1>8, <1>9

\* The ageing time has one line at most.
LEMMA AgeNext ==
    ASSUME LoadInv, Restoring, NEW c, Loads(c), AgeRead(live, Place)
    PROVE  AgeRead(c, Place + 1)
<1> DEFINE n == Place
           x == file[n + 1]
           d == [live EXCEPT !.at = <<"config">>]
<1>1. /\ ConfigInv /\ live \in Config /\ x \in AnyLine
      /\ c = LoadedLine(live, x) /\ Untouched(live, c, x.cmd)
  BY LineOfLoad
<1>2. /\ OthersAt(saved, file) /\ Has(file, x)
      /\ \A y : ReadIn(file, n + 1, y) <=> ReadIn(file, n, y) \/ y = x
  BY <1>1, NextOfFile
<1>3. ~live.secret /\ live.age = IF ReadIn(file, n, AgingLine(saved.age)) THEN saved.age ELSE "unset"
  BY DEF AgeRead
<1>4. d.age = live.age /\ d.secret = live.secret /\ d \in Config
  BY <1>1 DEF Config, Menu
<1> HIDE DEF n, x, d
<1>5. CASE x.cmd = "aging-time"
  <2>1. PICK t : x = AgingLine(t)
    BY <1>1, <1>5, WholeLineIs
  <2>2. t = saved.age
    BY <1>2, <2>1 DEF OthersAt
  <2>3. c = CmdSetAging(d, t)
    BY <1>1, <2>1, WholeLineDoes DEF d
  <2>4. c.age = (IF t = "unset" THEN live.age ELSE t) /\ c.secret = live.secret
    BY <1>4, <2>3 DEF CmdSetAging, Config
  <2>5. ReadIn(file, n + 1, AgingLine(saved.age))
    BY <1>2, <2>1, <2>2
  <2>6. QED
    BY <1>3, <2>2, <2>4, <2>5 DEF AgeRead, n
<1>6. CASE x.cmd # "aging-time"
  <2>1. c.age = live.age /\ c.secret = live.secret
    BY <1>1, <1>6 DEF Untouched
  <2>2. x # AgingLine(saved.age)
    BY <1>6, WholeLineCmd
  <2>3. QED
    BY <1>2, <1>3, <2>1, <2>2 DEF AgeRead, n
<1>7. QED
  BY <1>5, <1>6

\* A timer is only in a file that leaves CDP running.
LEMMA CdpNext ==
    ASSUME LoadInv, Restoring, NEW c, Loads(c), CdpRead(live, Place)
    PROVE  CdpRead(c, Place + 1)
<1> DEFINE n == Place
           x == file[n + 1]
           d == [live EXCEPT !.at = <<"config">>]
<1>1. /\ ConfigInv /\ live \in Config /\ x \in AnyLine
      /\ c = LoadedLine(live, x) /\ Untouched(live, c, x.cmd)
  BY LineOfLoad
<1>2. /\ OthersAt(saved, file) /\ Has(file, x)
      /\ \A y : ReadIn(file, n + 1, y) <=> ReadIn(file, n, y) \/ y = x
      /\ \A y : ReadIn(file, n, y) => Has(file, y)
  BY <1>1, NextOfFile
<1>3. /\ live.cdp.run <=> ~ReadIn(file, n, NoCdpRunLine)
      /\ live.cdp.timer = IF ReadIn(file, n, TimerLine(saved.cdp.timer))
                          THEN saved.cdp.timer ELSE "default"
  BY DEF CdpRead
<1>4. d.cdp = live.cdp /\ d \in Config
  BY <1>1 DEF Config, Menu
<1>5. saved.cdp.run \/ saved.cdp.timer = "default"
  BY DEF Restoring, Reloadable
<1> HIDE DEF n, x, d
<1>6. CASE x.cmd = "no cdp run"
  <2>1. x = NoCdpRunLine
    BY <1>1, <1>6, WholeLineIs
  <2>2. c = CmdCdpRun(d, FALSE)
    BY <1>1, <2>1, WholeLineDoes DEF d
  <2>3. ~c.cdp.run
    BY <1>4, <2>2 DEF CmdCdpRun, Config
  <2>4. c.cdp.timer = live.cdp.timer
    BY <1>1, <1>6 DEF Untouched
  <2>5. /\ ReadIn(file, n + 1, NoCdpRunLine)
        /\ ReadIn(file, n + 1, TimerLine(saved.cdp.timer))
             <=> ReadIn(file, n, TimerLine(saved.cdp.timer))
    BY <1>2, <2>1, OthersDiffer
  <2>6. QED
    BY <1>3, <2>3, <2>4, <2>5 DEF CdpRead, n
<1>7. CASE x.cmd = "cdp timer"
  <2>1. PICK t : x = TimerLine(t)
    BY <1>1, <1>7, WholeLineIs
  <2>2. t = saved.cdp.timer /\ t # "default"
    BY <1>2, <2>1 DEF OthersAt
  <2>3. ~Has(file, NoCdpRunLine)
    BY <1>2, <1>5, <2>2 DEF OthersAt
  <2>4. live.cdp.run
    BY <1>2, <1>3, <2>3
  <2>5. c = CmdCdpTimer(d, t)
    BY <1>1, <2>1, WholeLineDoes DEF d
  <2>6. c.cdp.timer = t
    BY <1>4, <2>4, <2>5 DEF CmdCdpTimer, Config
  <2>7. c.cdp.run = live.cdp.run
    BY <1>1, <1>7 DEF Untouched
  <2>8. /\ ReadIn(file, n + 1, TimerLine(saved.cdp.timer))
        /\ ReadIn(file, n + 1, NoCdpRunLine) <=> ReadIn(file, n, NoCdpRunLine)
    BY <1>2, <2>1, <2>2, OthersDiffer
  <2>9. QED
    BY <1>3, <2>2, <2>6, <2>7, <2>8 DEF CdpRead, n
<1>8. CASE x.cmd \notin {"no cdp run", "cdp timer"}
  <2>1. c.cdp.run = live.cdp.run /\ c.cdp.timer = live.cdp.timer
    BY <1>1, <1>8 DEF Untouched
  <2>2. x # NoCdpRunLine /\ x # TimerLine(saved.cdp.timer)
    BY <1>8, WholeLineCmd
  <2>3. QED
    BY <1>2, <1>3, <2>1, <2>2 DEF CdpRead, n
<1>9. QED
  BY <1>6, <1>7, <1>8

\* The interfaces whose description was read, and the addresses.
DescribedRead ==
    live.described = {i \in DOMAIN saved.ports : ReadIn(Sec(i), SoFar(i), DescriptionLine)}
StaticRead(c, n) ==
    c.learned = {} /\ c.static = {m \in Address : ReadIn(file, n, StaticLine(m))}

\* A description is read in the menu of its interface.
LEMMA DescribedNext ==
    ASSUME LoadInv, Restoring, NEW c, Loads(c), DescribedRead
    PROVE  c.described =
              {i \in DOMAIN saved.ports : ReadIn(Sec(i), SoFar(i) + 1, DescriptionLine)}
<1> DEFINE n == Place
           x == file[n + 1]
<1>1. /\ ConfigInv /\ live \in Config /\ x \in AnyLine /\ PortsLoaded /\ file # << >>
      /\ c = LoadedLine(live, x) /\ Untouched(live, c, x.cmd) /\ phase = "loading"
  BY LineOfLoad DEF LoadInv
<1>2. ASSUME NEW i \in DOMAIN saved.ports
      PROVE  /\ Len(Sec(i)) \in Nat /\ SoFar(i) \in Int /\ i \in Interfaces
             /\ Here(i) <=> SoFar(i) + 1 \in 1 .. Len(Sec(i))
             /\ Here(i) => x = Sec(i)[SoFar(i) + 1]
             /\ Section(i, saved.ports[i], Sec(i))
  BY <1>1, HereIs, SectionsAt
<1>3. \A i, j \in DOMAIN saved.ports : Here(i) /\ Here(j) => i = j
  BY <1>1, HereIs
<1> HIDE DEF n, x
<1>4. ASSUME NEW i \in DOMAIN saved.ports
      PROVE  ReadIn(Sec(i), SoFar(i) + 1, DescriptionLine) <=>
                \/ ReadIn(Sec(i), SoFar(i), DescriptionLine)
                \/ Here(i) /\ x = DescriptionLine
  <2>1. CASE Here(i)
    BY <1>2, <2>1, ReadNext
  <2>2. CASE ~Here(i)
    BY <1>2, <2>2, ReadNext
  <2>3. QED
    BY <2>1, <2>2
<1>5. CASE x = DescriptionLine
  <2>1. x \in PortLine
    BY <1>5, Zenon DEF PortLine, PortSubLine, Lines, DescriptionLine
  <2>2. PICK i \in DOMAIN saved.ports : Here(i)
    BY <1>1, <2>1, HereIs DEF x, n
  <2>3. SoFar(i) \in 1 .. Len(Sec(i)) - 1
    <3>1. SoFar(i) # 0
      <4>1. Sec(i)[1] = Line("interface", i)
        BY <1>2 DEF Section
      <4>2. Sec(i)[1] # DescriptionLine
        BY <4>1, RankOfInterface, RankOfDescription
      <4>3. QED
        BY <1>2, <1>5, <2>2, <4>2
    <3>2. QED
      BY <1>2, <2>2, <3>1
  <2>4. live.at = <<"port", i>>
    BY <1>1, <1>2, <2>2, <2>3 DEF PortsLoaded, MenuOf, Restoring
  <2>5. c = CmdIfDesc(live, i)
    <3>1. c = SubCommand(live, "description", TRUE)
      <4>1. LoadedLine(live, Line("description", TRUE)) = SubCommand(live, "description", TRUE)
        <5>1. "description" \in SubCommands
          BY DEF SubCommands
        <5>2. \A cmd \in SubCommands : LoadedLine(live, Line(cmd, TRUE)) = SubCommand(live, cmd, TRUE)
          BY LoadedAs, Zenon
        <5>3. QED
          BY <5>1, <5>2, Zenon
      <4>2. QED
        BY <1>1, <1>5, <4>1, Zenon DEF DescriptionLine
    <3>2. QED
      BY <1>2, <2>2, <2>4, <3>1, SubDescription
  <2>6. c.described = live.described \cup {i}
    BY <1>1, <2>5 DEF CmdIfDesc, Config
  <2>7. \A j \in DOMAIN saved.ports : Here(j) <=> j = i
    BY <1>3, <2>2
  <2>8. QED
    BY <1>4, <1>5, <2>6, <2>7 DEF DescribedRead
<1>6. CASE x # DescriptionLine
  <2>1. x.cmd # "description"
    BY <1>1, <1>6, WholeLineIs
  <2>2. c.described = live.described
    BY <1>1, <2>1 DEF Untouched
  <2>3. QED
    BY <1>4, <1>6, <2>2 DEF DescribedRead
<1>7. QED
  BY <1>5, <1>6

\* The addresses are read when the VLANs and the interfaces are back, and no
\* line after them takes an address out of its bridge.
LEMMA StaticNext ==
    ASSUME LoadInv, Restoring, NEW c, Loads(c), StaticRead(live, Place)
    PROVE  StaticRead(live', Place + 1)
<1> DEFINE n == Place
           x == file[n + 1]
           d == [live EXCEPT !.at = <<"config">>]
<1>1. /\ ConfigInv /\ live \in Config /\ x \in AnyLine /\ n \in Nat /\ Reached(saved)
      /\ c = LoadedLine(live, x) /\ Untouched(live, c, x.cmd)
  BY LineOfLoad
<1>2. /\ OthersAt(saved, file) /\ Has(file, x)
      /\ \A y : ReadIn(file, n + 1, y) <=> ReadIn(file, n, y) \/ y = x
      /\ \A y : ReadIn(file, n, y) => Has(file, y) /\ MainRank(y) <= MainRank(x)
      /\ \A k \in 1 .. Len(file) : MainRank(file[k]) < MainRank(x) => k <= n
  BY <1>1, NextOfFile
<1>3. live.learned = {} /\ live.static = {m \in Address : ReadIn(file, n, StaticLine(m))}
  BY DEF StaticRead
<1>4. live'.static = c.static \ Gone(live, c) /\ live'.learned \subseteq c.learned
  BY DEF Loads
<1>5. d.ports = live.ports /\ d.vlans = live.vlans /\ d.static = live.static
      /\ d.learned = live.learned /\ d \in Config
  BY <1>1 DEF Config, Menu
<1>6. \A k \in 1 .. Len(file) : MainRank(file[k]) \in 0 .. 6
  BY <1>2 DEF OthersAt, Ordered
<1> HIDE DEF n, x, d
<1>7. CASE x.cmd = "mac static"
  <2>1. PICK m \in Address : x = StaticLine(m)
    BY <1>1, <1>7, WholeLineIs
  <2>2. m \in saved.static
    <3>1. saved.learned = {}
      BY DEF Restoring, Reloadable
    <3>2. QED
      BY <1>2, <2>1, <3>1 DEF OthersAt
  <2>3. live.ports = saved.ports /\ live.vlans = saved.vlans
    <3>1. MainRank(x) = 4
      BY <2>1, MainRanks
    <3>2. \A k \in 1 .. Len(file) : MainRank(file[k]) <= 3 => k <= Place
      BY <1>2, <1>6, <3>1 DEF n
    <3>3. QED
      BY <3>2, PortsWhole
  <2>4. Device(d, m[1], m[2]) # "none"
    <3>1. Device(saved, m[1], m[2]) # "none"
      BY <1>1, <2>2 DEF Reached
    <3>2. Device(d, m[1], m[2]) = Device(saved, m[1], m[2])
      BY <1>5, <2>3, SameDevice
    <3>3. QED
      BY <3>1, <3>2
  <2>5. c = CmdMacStatic(d, m[1], m[2])
    BY <1>1, <2>1, WholeLineDoes DEF d
  <2>6. m = <<m[1], m[2]>>
    BY <2>1 DEF Address
  <2>7. /\ m[1] \in DOMAIN d.ports
        /\ d.ports[m[1]].mode # "trunk" => d.ports[m[1]].access = m[2]
    BY <2>4 DEF Device
  <2>8. c = [d EXCEPT !.static = @ \cup {<<m[1], m[2]>>}, !.learned = @ \ {<<m[1], m[2]>>}]
    <3> DEFINE w == IF d.ports[m[1]].mode = "trunk" THEN m[2] ELSE d.ports[m[1]].access
    <3>1. w = m[2]
      BY <2>7
    <3>2. c = IF Device(d, m[1], w) = "none" THEN d
              ELSE [d EXCEPT !.static = @ \cup {<<m[1], w>>}, !.learned = @ \ {<<m[1], w>>}]
      BY <2>5, <2>7 DEF CmdMacStatic
    <3> HIDE DEF w
    <3>3. QED
      BY <2>4, <3>1, <3>2
  <2>9. c.static = live.static \cup {m} /\ c.learned = {} /\ c.ports = live.ports /\ c.vlans = live.vlans
    BY <1>3, <1>5, <2>6, <2>8 DEF Config
  <2>10. Gone(live, c) = {}
    BY <2>9, SameDevice DEF Gone
  <2>11. \A w : StaticLine(w) = x <=> w = m
    BY <2>1, OthersDiffer
  <2>12. live'.static = {w \in Address : ReadIn(file, n + 1, StaticLine(w))}
    BY <1>2, <1>3, <1>4, <2>1, <2>9, <2>10, <2>11
  <2>13. QED
    BY <1>4, <2>9, <2>12 DEF StaticRead, n
<1>8. CASE x.cmd # "mac static"
  <2>1. c.static = live.static /\ c.learned = live.learned
    BY <1>1, <1>8 DEF Untouched
  <2>2. \A m : StaticLine(m) # x
    BY <1>8, WholeLineCmd
  <2>3. live.static = {m \in Address : ReadIn(file, n + 1, StaticLine(m))}
    BY <1>2, <1>3, <2>2
  <2>4. Gone(live, c) = {} \/ live.static = {}
    <3>1. CASE x.cmd \in {"aging-time", "no cdp run", "cdp timer"}
      <4>1. c.ports = live.ports /\ c.vlans = live.vlans
        BY <1>1, <3>1 DEF Untouched
      <4>2. QED
        BY <4>1, SameDevice DEF Gone
    <3>2. CASE x.cmd \notin {"aging-time", "no cdp run", "cdp timer"}
      <4>1. MainRank(x) \in {0, 1, 2, 3}
        BY <1>8, <3>2 DEF MainRank
      <4>2. \A m : MainRank(StaticLine(m)) = 4
        BY MainRanks
      <4>3. \A m : ~ReadIn(file, n, StaticLine(m))
        <5>1. SUFFICES ASSUME NEW m, ReadIn(file, n, StaticLine(m)) PROVE FALSE
          OBVIOUS
        <5>2. MainRank(StaticLine(m)) <= MainRank(x)
          BY <1>2, <5>1
        <5>3. QED
          BY <4>1, <4>2, <5>2
      <4>4. QED
        BY <1>3, <4>3
    <3>3. QED
      BY <3>1, <3>2
  <2>5. live'.static = live.static /\ live'.learned = {}
    BY <1>3, <1>4, <2>1, <2>4 DEF Gone
  <2>6. QED
    BY <2>3, <2>5 DEF StaticRead, n
<1>9. QED
  BY <1>7, <1>8

\* The lines that were read have made the settings of the file.
RestLoaded ==
    Restoring => /\ IgmpRead(live, Place) /\ AgeRead(live, Place) /\ CdpRead(live, Place)
                 /\ DescribedRead /\ StaticRead(live, Place)

\* A line keeps it.
LEMMA RestLoadedNext ==
    ASSUME LoadInv, RestLoaded, NEW c, Loads(c)
    PROVE  RestLoaded'
<1> SUFFICES ASSUME Restoring'
             PROVE  /\ IgmpRead(live, Place)' /\ AgeRead(live, Place)' /\ CdpRead(live, Place)'
                    /\ DescribedRead' /\ StaticRead(live, Place)'
  BY DEF RestLoaded
<1>1. /\ file' = file /\ saved' = saved /\ present' = present /\ Place' = Place + 1
      /\ phase = "loading" /\ SameSettings(c, live') /\ ConfigInv /\ file # << >>
  BY LineOfLoad DEF Loads
<1>2. Restoring
  BY <1>1 DEF Restoring
<1>3. /\ IgmpRead(live, Place) /\ AgeRead(live, Place) /\ CdpRead(live, Place)
      /\ DescribedRead /\ StaticRead(live, Place)
  BY <1>2 DEF RestLoaded
<1>4. /\ IgmpRead(c, Place + 1) /\ AgeRead(c, Place + 1) /\ CdpRead(c, Place + 1)
      /\ StaticRead(live', Place + 1)
      /\ c.described = {i \in DOMAIN saved.ports : ReadIn(Sec(i), SoFar(i) + 1, DescriptionLine)}
  BY <1>2, <1>3, IgmpNext, AgeNext, CdpNext, StaticNext, DescribedNext
<1>5. IgmpRead(live, Place)'
  BY <1>1, <1>4 DEF IgmpRead, SameSettings
<1>6. AgeRead(live, Place)'
  BY <1>1, <1>4 DEF AgeRead, SameSettings
<1>7. CdpRead(live, Place)'
  BY <1>1, <1>4 DEF CdpRead, SameSettings
<1>8. StaticRead(live, Place)'
  BY <1>1, <1>4 DEF StaticRead
<1>9. DescribedRead'
  <2>1. ASSUME NEW i \in DOMAIN saved.ports PROVE SoFar(i)' = SoFar(i) + 1
    <3>1. AtOf(saved, file)[i] \in Nat /\ Place \in Nat
      BY <1>1, SectionsAt DEF Loads
    <3>2. QED
      BY <1>1, <3>1 DEF SoFar
  <2>2. \A i : Sec(i)' = Sec(i)
    BY <1>1 DEF Sec
  <2>3. QED
    BY <1>1, <1>4, <2>1, <2>2 DEF DescribedRead, SameSettings
<1>10. QED
  BY <1>5, <1>6, <1>7, <1>8, <1>9

\* Every step keeps it.
LEMMA RestLoadedKept == ASSUME LoadInv, RestLoaded, [Next]_vars PROVE RestLoaded'
<1> ConfigInv
  BY DEF LoadInv
<1>1. CASE phase' = "running"
  BY <1>1 DEF RestLoaded, Restoring
<1>2. CASE UNCHANGED vars
  <2>1. /\ \A i : Sec(i)' = Sec(i) /\ SoFar(i)' = SoFar(i)
        /\ Place' = Place /\ (Restoring' <=> Restoring)
    BY <1>2 DEF vars, Sec, SoFar, Place, Restoring
  <2>2. (DescribedRead)' <=> DescribedRead
    BY <1>2, <2>1 DEF vars, DescribedRead
  <2>3. QED
    BY <1>2, <2>1, <2>2 DEF vars, RestLoaded, IgmpRead, AgeRead, CdpRead, StaticRead
<1>3. CASE /\ phase' = "loading" /\ live' = Boot /\ Place' = 0 /\ file' = file /\ file # << >>
           /\ saved' = saved
  <2>1. \A x : ~ReadIn(file, 0, x)
    <3>1. \A k \in 1 .. Len(file) : ~(k <= 0)
      BY DEF ConfigInv
    <3>2. QED
      BY <3>1 DEF ReadIn
  <2>2. KnownIn(file, 0) = {}
    BY DEF KnownIn
  <2>3. ASSUME NEW i \in DOMAIN saved.ports PROVE ~ReadIn(Sec(i)', SoFar(i)', DescriptionLine)
    <3>1. SoFar(i)' = 0 - AtOf(saved, file)[i] /\ AtOf(saved, file)[i] \in Nat
      BY <1>3, SectionsAt DEF SoFar
    <3>2. Len(Sec(i)) \in Nat /\ Sec(i)' = Sec(i)
      BY <1>3, SectionsAt DEF Sec
    <3>3. \A k \in 1 .. Len(Sec(i)) : ~(k <= SoFar(i)')
      BY <3>1, <3>2
    <3>4. QED
      BY <3>2, <3>3 DEF ReadIn
  <2>4. (DescribedRead)'
    BY <1>3, <2>3 DEF DescribedRead, Boot
  <2>5. IgmpRead(live, Place)'
    BY <1>3, <2>1, <2>2 DEF IgmpRead, Boot
  <2>6. AgeRead(live, Place)' /\ CdpRead(live, Place)' /\ StaticRead(live, Place)'
    BY <1>3, <2>1 DEF AgeRead, CdpRead, StaticRead, Boot
  <2>7. QED
    BY <2>4, <2>5, <2>6 DEF RestLoaded
<1>4. QED
  BY <1>1, <1>2, <1>3, RestLoadedNext, NoLoad

\* What is known of a load of what the file can express.
LEMMA AllLoaded == Spec => [](LoadInv /\ RestLoaded)
<1>1. Init => RestLoaded
  BY DEF Init, RestLoaded, Restoring
<1>2. LoadInv /\ RestLoaded /\ [Next]_vars => RestLoaded'
  BY RestLoadedKept
<1>3. QED
  BY <1>1, <1>2, Loaded, PTL DEF Spec

\* At the end of a load, each VLAN has snooping on or off as it was saved.
LEMMA SnoopedBack ==
    ASSUME LoadInv, Restoring, Place = Len(file), live.vlans = saved.vlans, IgmpRead(live, Place)
    PROVE  live.snooping = saved.snooping /\ live.snooped = saved.snooped
<1>1. /\ saved \in Config /\ live \in Config /\ file = BuildConfigGlobal(saved)
      /\ live.vlans = DefaultVlans \cup KnownIn(file, Place) /\ file \in Seq(AnyLine)
  BY DEF LoadInv, ConfigInv, Sound, VlansLoaded, Restoring
<1>2. ~saved.snooping /\ saved.snooped = saved.vlans \ DefaultVlans
  BY DEF Restoring, Reloadable
<1>3. ReadIn(file, Place, NoIgmpLine(0))
  <2>1. Has(file, NoIgmpLine(0))
    BY <1>1, <1>2, OthersAre DEF OthersAt
  <2>2. \A k \in 1 .. Len(file) : k <= Place
    BY <1>1
  <2>3. QED
    BY <2>1, <2>2 DEF Has, ReadIn
<1>4. KnownIn(file, Place) \cap DefaultVlans = {}
  <2>1. SUFFICES ASSUME NEW v \in DefaultVlans,
                        NEW k \in 1 .. Len(file), file[k] = Line("vlan", v) PROVE FALSE
    BY DEF KnownIn
  <2>2. FileOf(saved, file)
    BY <1>1, FileIs
  <2>3. file[k].cmd = "vlan" /\ file[k] # NameLine
    BY <2>1, VlanLinesDiffer
  <2>4. QED
    BY <2>1, <2>2, <2>3, VlanLinesDiffer DEF FileOf, VlansAt, SavedSet
<1>5. live.snooping \in BOOLEAN /\ saved.snooping \in BOOLEAN
  BY <1>1 DEF Config
<1>6. live.snooping = saved.snooping
  BY <1>2, <1>5 DEF IgmpRead
<1>7. live.snooped = KnownIn(file, Place)
  BY <1>3 DEF IgmpRead
<1>8. KnownIn(file, Place) = saved.vlans \ DefaultVlans
  BY <1>1, <1>4
<1>9. QED
  BY <1>2, <1>6, <1>7, <1>8

\* At the end of a load, the interfaces have their descriptions.
LEMMA DescribedBack ==
    ASSUME LoadInv, Restoring, Place = Len(file), DescribedRead
    PROVE  live.described = saved.described
<1>1. ConfigInv /\ file # << >> /\ saved \in Config /\ Len(file) \in Nat
  BY DEF LoadInv, ConfigInv, Sound, VlansLoaded, Restoring
<1>2. saved.described \subseteq DOMAIN saved.ports
  BY DEF Restoring, Reloadable
<1>3. ASSUME NEW i \in DOMAIN saved.ports
      PROVE  ReadIn(Sec(i), SoFar(i), DescriptionLine) <=> i \in saved.described
  <2>1. /\ AtOf(saved, file)[i] \in Nat /\ Len(Sec(i)) \in Nat \ {0}
        /\ AtOf(saved, file)[i] + Len(Sec(i)) <= Len(file)
    BY <1>1, SectionsAt
  <2>2. SoFar(i) = Len(file) - AtOf(saved, file)[i]
    BY DEF SoFar
  <2>3. \A k \in 1 .. Len(Sec(i)) : k <= SoFar(i)
    BY <1>1, <2>1, <2>2
  <2>4. Has(Sec(i), DescriptionLine) <=> i \in saved.described
    BY <1>1, BuildIn DEF Sec
  <2>5. QED
    BY <2>3, <2>4, Zenon DEF ReadIn, Has
<1>4. QED
  BY <1>2, <1>3 DEF DescribedRead

\* A load of a configuration that the file can express, by a machine that has
\* every interface, gives that configuration back: "write memory" and swcfgload
\* are inverse to each other there.
THEOREM Restored == Spec => []ReloadRestores
<1>1. ASSUME LoadInv, RestLoaded, VlansSurvive PROVE ReloadRestores
  <2> SUFFICES ASSUME phase = "loaded", Reloadable(saved), present = Interfaces
               PROVE  live = saved
    BY DEF ReloadRestores
  <2>1. /\ live \in Config /\ saved \in Config /\ file \in Seq(AnyLine) /\ rest = << >>
        /\ saved.at = <<"config">> /\ live.at = <<"config">> /\ file = BuildConfigGlobal(saved)
        /\ saved.named \subseteq saved.vlans /\ live.down = {}
    BY <1>1 DEF LoadInv, ConfigInv, Sound, VlansLoaded, PortsLoaded
  <2>2. Restoring /\ Place = Len(file)
    BY <2>1 DEF Restoring, Place
  <2>3. /\ IgmpRead(live, Place) /\ AgeRead(live, Place) /\ CdpRead(live, Place)
        /\ DescribedRead /\ StaticRead(live, Place)
    BY <1>1, <2>2 DEF RestLoaded
  <2>4. live.ports = saved.ports /\ live.vlans = saved.vlans
    <3>1. \A k \in 1 .. Len(file) : k <= Place
      BY <2>1, <2>2
    <3>2. QED
      BY <1>1, <2>2, <3>1, PortsWhole
  <2>5. \A x : ReadIn(file, Place, x) <=> Has(file, x)
    <3>1. \A k \in 1 .. Len(file) : k <= Place
      BY <2>1, <2>2
    <3>2. QED
      BY <3>1, Zenon DEF ReadIn, Has
  <2>6. OthersAt(saved, file)
    BY <2>1, OthersAre
  <2>7. /\ ~saved.secret /\ saved.learned = {} /\ saved.down = {} /\ saved.age # "default"
        /\ MaxVlan \notin saved.vlans
    BY DEF Reloadable
  <2>8. live.named = saved.named
    BY <1>1, <2>1, <2>7 DEF VlansSurvive
  <2>9. live.snooping = saved.snooping /\ live.snooped = saved.snooped
    BY <1>1, <2>2, <2>3, <2>4, SnoopedBack
  <2>10. live.described = saved.described
    BY <1>1, <2>2, <2>3, DescribedBack
  <2>11. live.static = saved.static /\ live.learned = saved.learned
    <3>1. saved.static \subseteq Address
      BY <2>1 DEF Config
    <3>2. QED
      BY <2>3, <2>5, <2>6, <2>7, <3>1 DEF StaticRead, OthersAt
  <2>12. live.secret = saved.secret /\ live.age = saved.age
    <3>1. live.secret \in BOOLEAN /\ saved.secret \in BOOLEAN
      BY <2>1 DEF Config
    <3>2. QED
      BY <2>3, <2>5, <2>6, <2>7, <3>1 DEF AgeRead, OthersAt
  <2>13. live.cdp = saved.cdp
    <3>1. /\ live.cdp \in [run : BOOLEAN, timer : {"default", "other"}]
          /\ saved.cdp \in [run : BOOLEAN, timer : {"default", "other"}]
      BY <2>1 DEF Config
    <3>2. live.cdp.run <=> saved.cdp.run
      BY <2>3, <2>5, <2>6 DEF CdpRead, OthersAt
    <3>3. live.cdp.timer = saved.cdp.timer
      BY <2>3, <2>5, <2>6 DEF CdpRead, OthersAt
    <3>4. QED
      BY <3>1, <3>2, <3>3
  <2>14. live.down = saved.down /\ live.at = saved.at
    BY <2>1, <2>7
  <2>15. QED
    BY <2>1, <2>4, <2>8, <2>9, <2>10, <2>11, <2>12, <2>13, <2>14 DEF Config
<1>2. QED
  BY <1>1, AllLoaded, VlansBack, PTL
=============================================================================

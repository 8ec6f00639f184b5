---------------------------- MODULE MmAllocProofs ----------------------------
(***************************************************************************)
(* Proofs about the allocator, for every size of header, request and area. *)
(* The inductive invariant is the order of the list; the lemmas say what   *)
(* putting a chunk in, taking one out and resizing one do to it.           *)
(***************************************************************************)
EXTENDS MmAlloc, SequenceTheorems, WellFoundedInduction, TLAPS

\* The list g of n + 1 (n - 1, n) elements is f with c put in at position i
\* (without its k-th element, with c for its k-th element).
Inserted(f, n, i, c, g) ==
  \A j \in 1 .. n + 1 : g[j] = IF j < i THEN f[j] ELSE IF j = i THEN c ELSE f[j - 1]

Removed(f, n, k, g) ==
  \A j \in 1 .. n - 1 : g[j] = IF j < k THEN f[j] ELSE f[j + 1]

Replaced(f, n, k, c, g) ==
  \A j \in 1 .. n : g[j] = IF j = k THEN c ELSE f[j]

Chunks == {c \in [off : Nat, size : Nat] : c.size > Header}

\* The elements of a list after mm_list_add() in front of position i.
LEMMA InsertElements ==
  ASSUME NEW s \in Seq(Chunks), NEW i \in 1 .. Len(s) + 1, NEW e \in Chunks
  PROVE  /\ InsertAt(s, i, e) \in Seq(Chunks)
         /\ Len(InsertAt(s, i, e)) = Len(s) + 1
         /\ Inserted(s, Len(s), i, e, InsertAt(s, i, e))
<1> DEFINE front == SubSeq(s, 1, i - 1)
           back == SubSeq(s, i, Len(s))
           head == front \o <<e>>
<1>1. front \in Seq(Chunks) /\ Len(front) = i - 1 /\ \A j \in 1 .. i - 1 : front[j] = s[j]
  OBVIOUS
<1>2. /\ back \in Seq(Chunks) /\ Len(back) = Len(s) - i + 1
      /\ \A j \in 1 .. Len(s) - i + 1 : back[j] = s[i + j - 1]
  OBVIOUS
<1> HIDE DEF front, back
<1>3. InsertAt(s, i, e) = head \o back
  BY DEF InsertAt, front, back
<1>4. /\ head \in Seq(Chunks) /\ Len(head) = i
      /\ \A j \in 1 .. i : head[j] = IF j < i THEN s[j] ELSE e
  BY <1>1
<1> HIDE DEF head
<1>5. InsertAt(s, i, e) \in Seq(Chunks) /\ Len(InsertAt(s, i, e)) = Len(s) + 1
  BY <1>2, <1>3, <1>4
<1>6. ASSUME NEW j \in 1 .. Len(s) + 1
      PROVE  InsertAt(s, i, e)[j] = IF j < i THEN s[j] ELSE IF j = i THEN e ELSE s[j - 1]
  <2>1. CASE j <= i
    BY <2>1, <1>2, <1>3, <1>4
  <2>2. CASE j > i
    <3>1. InsertAt(s, i, e)[j] = back[j - i]
      BY <2>2, <1>2, <1>3, <1>4
    <3>2. back[j - i] = s[i + (j - i) - 1]
      BY <2>2, <1>2
    <3>3. i + (j - i) - 1 = j - 1
      OBVIOUS
    <3>4. QED
      BY <2>2, <3>1, <3>2, <3>3
  <2>3. QED
    BY <2>1, <2>2
<1>7. QED
  BY <1>5, <1>6 DEF Inserted

\* The elements of a list after mm_list_del() at position i.
LEMMA RemoveElements ==
  ASSUME NEW s \in Seq(Chunks), NEW i \in 1 .. Len(s)
  PROVE  /\ RemoveAt(s, i) \in Seq(Chunks)
         /\ Len(RemoveAt(s, i)) = Len(s) - 1
         /\ Removed(s, Len(s), i, RemoveAt(s, i))
<1> DEFINE front == SubSeq(s, 1, i - 1)
           back == SubSeq(s, i + 1, Len(s))
<1>1. front \in Seq(Chunks) /\ Len(front) = i - 1 /\ \A j \in 1 .. i - 1 : front[j] = s[j]
  OBVIOUS
<1>2. /\ back \in Seq(Chunks) /\ Len(back) = Len(s) - i
      /\ \A j \in 1 .. Len(s) - i : back[j] = s[i + j]
  OBVIOUS
<1> HIDE DEF front, back
<1>3. RemoveAt(s, i) = front \o back
  BY DEF RemoveAt, front, back
<1>4. RemoveAt(s, i) \in Seq(Chunks) /\ Len(RemoveAt(s, i)) = Len(s) - 1
  BY <1>1, <1>2, <1>3
<1>5. ASSUME NEW j \in 1 .. Len(s) - 1
      PROVE  RemoveAt(s, i)[j] = IF j < i THEN s[j] ELSE s[j + 1]
  <2>1. CASE j < i
    BY <2>1, <1>1, <1>2, <1>3
  <2>2. CASE j >= i
    <3>1. RemoveAt(s, i)[j] = back[j - (i - 1)]
      BY <2>2, <1>1, <1>2, <1>3, SMTT(30)
    <3>2. back[j - (i - 1)] = s[i + (j - (i - 1))]
      BY <2>2, <1>2
    <3>3. i + (j - (i - 1)) = j + 1
      OBVIOUS
    <3>4. QED
      BY <2>2, <3>1, <3>2, <3>3
  <2>3. QED
    BY <2>1, <2>2
<1>6. QED
  BY <1>4, <1>5 DEF Removed

-----------------------------------------------------------------------------
(* What the operations do to the order of the chunks.  A list is here just *)
(* a function f and its length n.                                          *)

Shape(f, n) ==
  \A i \in 1 .. n : f[i].off \in Nat /\ f[i].size \in Nat /\ f[i].size > Header

Ordered(f, n, end) ==
  /\ \A i \in 1 .. n : f[i].off + f[i].size <= end
  /\ \A i, j \in 1 .. n : i < j => f[i].off + f[i].size <= f[j].off

Blocks(f, n) == {Block(f[i]) : i \in 1 .. n}

\* A chunk that fits between its neighbours and ends inside the area can be put
\* between them.
LEMMA InsertOrdered ==
  ASSUME NEW f, NEW n \in Nat, NEW end \in Nat, Shape(f, n), Ordered(f, n, end),
         NEW c, c.off \in Nat, c.size \in Nat, NEW i \in 1 .. n + 1,
         i > 1 => c.off = f[i - 1].off + f[i - 1].size,
         i <= n => c.off + c.size <= f[i].off,
         NEW end2 \in Nat, end <= end2, c.off + c.size <= end2,
         NEW g, Inserted(f, n, i, c, g)
  PROVE  Ordered(g, n + 1, end2)
<1> USE DEF Inserted
<1>1. \A j \in 1 .. n : j < i => f[j].off + f[j].size <= c.off
  <2> SUFFICES ASSUME NEW j \in 1 .. n, j < i PROVE f[j].off + f[j].size <= c.off
    OBVIOUS
  <2>1. CASE j = i - 1
    BY <2>1 DEF Shape
  <2>2. CASE j < i - 1
    BY <2>2 DEF Shape, Ordered
  <2>3. QED
    BY <2>1, <2>2
<1>2. \A j \in 1 .. n : i <= j => c.off + c.size <= f[j].off
  BY DEF Shape, Ordered
<1>3. \A j \in 1 .. n + 1 : g[j].off + g[j].size <= end2
  BY DEF Shape, Ordered
<1>4. ASSUME NEW j \in 1 .. n + 1, NEW k \in 1 .. n + 1, j < k
      PROVE  g[j].off + g[j].size <= g[k].off
  <2>1. CASE k < i
    BY <2>1, <1>4 DEF Ordered
  <2>2. CASE k = i
    BY <2>2, <1>4, <1>1
  <2>3. CASE k > i /\ j < i
    BY <2>3, <1>4 DEF Ordered
  <2>4. CASE k > i /\ j = i
    BY <2>4, <1>4, <1>2
  <2>5. CASE k > i /\ j > i
    BY <2>5, <1>4 DEF Ordered
  <2>6. QED
    BY <2>1, <2>2, <2>3, <2>4, <2>5
<1>5. QED
  BY <1>3, <1>4 DEF Ordered

\* A list without one of its chunks is in address order.
LEMMA RemoveOrdered ==
  ASSUME NEW f, NEW n \in Nat, NEW end \in Nat, Ordered(f, n, end), NEW k \in 1 .. n,
         NEW g, Removed(f, n, k, g)
  PROVE  Ordered(g, n - 1, end)
<1> USE DEF Removed
<1>1. \A j \in 1 .. n - 1 : g[j].off + g[j].size <= end
  BY DEF Ordered
<1>2. ASSUME NEW i \in 1 .. n - 1, NEW j \in 1 .. n - 1, i < j
      PROVE  g[i].off + g[i].size <= g[j].off
  BY <1>2 DEF Ordered
<1>3. QED
  BY <1>1, <1>2 DEF Ordered

\* So is a list with a chunk cut short.
LEMMA ShrinkOrdered ==
  ASSUME NEW f, NEW n \in Nat, NEW end \in Nat, Shape(f, n), Ordered(f, n, end),
         NEW k \in 1 .. n, NEW c, c.off = f[k].off, c.size \in Nat, c.size <= f[k].size,
         NEW g, Replaced(f, n, k, c, g)
  PROVE  Ordered(g, n, end)
<1> USE DEF Replaced
<1>1. \A j \in 1 .. n : /\ g[j].off = f[j].off /\ g[j].size <= f[j].size
                        /\ f[j].off \in Nat /\ f[j].size \in Nat /\ g[j].size \in Nat
  BY DEF Shape
<1>2. \A j \in 1 .. n : g[j].off + g[j].size <= end
  BY <1>1 DEF Ordered
<1>3. ASSUME NEW i \in 1 .. n, NEW j \in 1 .. n, i < j
      PROVE  g[i].off + g[i].size <= g[j].off
  BY <1>1, <1>3 DEF Ordered
<1>4. QED
  BY <1>2, <1>3 DEF Ordered

\* Chunks at different positions are at different places, and their blocks do
\* not overlap.
LEMMA OrderedApart ==
  ASSUME NEW f, NEW n \in Nat, NEW end \in Nat, Shape(f, n), Ordered(f, n, end),
         NEW i \in 1 .. n, NEW j \in 1 .. n, i # j
  PROVE  /\ f[i].off # f[j].off
         /\ Block(f[i]) # Block(f[j])
         /\ Abstract!Apart(Block(f[i]), Block(f[j]))
<1>1. /\ f[i].off \in Nat /\ f[i].size \in Nat /\ f[i].size > Header
      /\ f[j].off \in Nat /\ f[j].size \in Nat /\ f[j].size > Header
      /\ Header \in Nat /\ Header > 0
  BY SizeAssumption DEF Shape
<1>2. f[i].off + f[i].size <= f[j].off \/ f[j].off + f[j].size <= f[i].off
  BY DEF Ordered
<1>3. f[i].off # f[j].off
  BY <1>1, <1>2
<1>4. \/ (f[i].off + Header) + (f[i].size - Header) <= f[j].off + Header
      \/ (f[j].off + Header) + (f[j].size - Header) <= f[i].off + Header
  BY <1>1, <1>2
<1>5. f[i].off + Header # f[j].off + Header
  BY <1>1, <1>3
<1>6. Block(f[i]) # Block(f[j])
  BY <1>5 DEF Block
<1>7. Abstract!Apart(Block(f[i]), Block(f[j]))
  BY <1>4 DEF Abstract!Apart, Block
<1>8. QED
  BY <1>3, <1>6, <1>7

\* The blocks of a list after a chunk was put in, and ...
LEMMA InsertBlocks ==
  ASSUME NEW f, NEW n \in Nat, NEW c, NEW i \in 1 .. n + 1,
         NEW g, Inserted(f, n, i, c, g)
  PROVE  \A b : b \in Blocks(g, n + 1) <=> b \in Blocks(f, n) \/ b = Block(c)
<1> USE DEF Inserted
<1>1. ASSUME NEW j \in 1 .. n + 1 PROVE g[j] = c \/ \E k \in 1 .. n : g[j] = f[k]
  <2>1. CASE j < i
    BY <2>1
  <2>2. CASE j = i
    BY <2>2
  <2>3. CASE j > i
    <3>1. j - 1 \in 1 .. n /\ g[j] = f[j - 1]
      BY <2>3
    <3>2. QED
      BY <3>1
  <2>4. QED
    BY <2>1, <2>2, <2>3
<1>2. ASSUME NEW k \in 1 .. n PROVE \E j \in 1 .. n + 1 : g[j] = f[k]
  <2>1. CASE k < i
    BY <2>1
  <2>2. CASE k >= i
    <3>1. k + 1 \in 1 .. n + 1 /\ g[k + 1] = f[k]
      BY <2>2
    <3>2. QED
      BY <3>1
  <2>3. QED
    BY <2>1, <2>2
<1>3. g[i] = c
  OBVIOUS
<1>4. ASSUME NEW b \in Blocks(g, n + 1) PROVE b \in Blocks(f, n) \/ b = Block(c)
  <2>1. PICK j \in 1 .. n + 1 : b = Block(g[j])
    BY <1>4 DEF Blocks
  <2>2. CASE g[j] = c
    BY <2>1, <2>2
  <2>3. CASE \E k \in 1 .. n : g[j] = f[k]
    BY <2>1, <2>3, Zenon DEF Blocks
  <2>4. QED
    BY <1>1, <2>2, <2>3
<1>5. ASSUME NEW b \in Blocks(f, n) PROVE b \in Blocks(g, n + 1)
  BY <1>2, <1>5, Zenon DEF Blocks
<1>6. Block(c) \in Blocks(g, n + 1)
  BY <1>3, Zenon DEF Blocks
<1>7. QED
  BY <1>4, <1>5, <1>6

\* ... after one was taken out.
LEMMA RemoveBlocks ==
  ASSUME NEW f, NEW n \in Nat, NEW end \in Nat, Shape(f, n), Ordered(f, n, end),
         NEW k \in 1 .. n,
         NEW g, Removed(f, n, k, g)
  PROVE  Blocks(g, n - 1) = Blocks(f, n) \ {Block(f[k])}
<1> USE DEF Removed
<1>1. ASSUME NEW j \in 1 .. n - 1 PROVE \E i \in 1 .. n : i # k /\ g[j] = f[i]
  <2>1. CASE j < k
    BY <2>1
  <2>2. CASE j >= k
    <3>1. j + 1 \in 1 .. n /\ j + 1 # k /\ g[j] = f[j + 1]
      BY <2>2
    <3>2. QED
      BY <3>1
  <2>3. QED
    BY <2>1, <2>2
<1>2. ASSUME NEW i \in 1 .. n, i # k PROVE \E j \in 1 .. n - 1 : g[j] = f[i]
  <2>1. CASE i < k
    BY <2>1
  <2>2. CASE i > k
    <3>1. i - 1 \in 1 .. n - 1 /\ g[i - 1] = f[i]
      BY <2>2
    <3>2. QED
      BY <3>1
  <2>3. QED
    BY <1>2, <2>1, <2>2
<1>3. ASSUME NEW i \in 1 .. n, i # k PROVE Block(f[i]) # Block(f[k])
  BY <1>3, OrderedApart
<1>4. ASSUME NEW b \in Blocks(g, n - 1) PROVE b \in Blocks(f, n) /\ b # Block(f[k])
  <2>1. PICK j \in 1 .. n - 1 : b = Block(g[j])
    BY <1>4 DEF Blocks
  <2>2. PICK i \in 1 .. n : i # k /\ g[j] = f[i]
    BY <1>1
  <2>3. b = Block(f[i])
    BY <2>1, <2>2
  <2>4. QED
    BY <2>2, <2>3, <1>3, Zenon DEF Blocks
<1>5. ASSUME NEW b \in Blocks(f, n), b # Block(f[k]) PROVE b \in Blocks(g, n - 1)
  BY <1>2, <1>5, Zenon DEF Blocks
<1>6. QED
  BY <1>4, <1>5

\* ... and after a chunk was replaced.
LEMMA ReplaceBlocks ==
  ASSUME NEW f, NEW n \in Nat, NEW end \in Nat, Shape(f, n), Ordered(f, n, end),
         NEW k \in 1 .. n, NEW c,
         NEW g, Replaced(f, n, k, c, g)
  PROVE  Blocks(g, n) = (Blocks(f, n) \ {Block(f[k])}) \cup {Block(c)}
<1> USE DEF Replaced
<1>1. ASSUME NEW i \in 1 .. n, i # k PROVE Block(f[i]) # Block(f[k])
  BY <1>1, OrderedApart
<1>2. \A j \in 1 .. n : j # k => g[j] = f[j]
  OBVIOUS
<1>3. g[k] = c
  OBVIOUS
<1>4. ASSUME NEW b \in Blocks(g, n)
      PROVE  b = Block(c) \/ (b \in Blocks(f, n) /\ b # Block(f[k]))
  BY <1>1, <1>2, <1>3, <1>4, Zenon DEF Blocks
<1>5. ASSUME NEW b \in Blocks(f, n), b # Block(f[k]) PROVE b \in Blocks(g, n)
  BY <1>2, <1>5, Zenon DEF Blocks
<1>6. Block(c) \in Blocks(g, n)
  BY <1>3, Zenon DEF Blocks
<1>7. QED
  BY <1>4, <1>5, <1>6

-----------------------------------------------------------------------------
(* The same for the lists of the model, and the steps.                     *)

\* The list of chunks as the induction needs it.
LEMMA ChunksShape == ASSUME NEW s \in Seq(Chunks) PROVE Shape(s, Len(s))
<1> SUFFICES ASSUME NEW i \in 1 .. Len(s)
             PROVE  s[i].off \in Nat /\ s[i].size \in Nat /\ s[i].size > Header
  BY DEF Shape
<1>1. s[i] \in Chunks
  OBVIOUS
<1>2. QED
  BY <1>1 DEF Chunks

\* mm_alloc() puts its chunk into a gap, and enlarges the area if there is none.
LEMMA InsertKeeps ==
  ASSUME NEW s \in Seq(Chunks), NEW end \in Nat, Ordered(s, Len(s), end),
         NEW size \in Sizes, NEW i \in 1 .. Len(s) + 1, StopsAt(s, i, size),
         NEW c, c = Chunk(EndBefore(s, i), size),
         NEW new, new = InsertAt(s, i, c),
         NEW end2, end2 = TopAfter(s, i, size, end)
  PROVE  /\ new \in Seq(Chunks) /\ Len(new) = Len(s) + 1
         /\ Inserted(s, Len(s), i, c, new)
         /\ end2 \in Nat /\ end2 >= end
         /\ Ordered(new, Len(new), end2)
         /\ Blocks(new, Len(new)) = Blocks(s, Len(s)) \cup {Block(c)}
<1>1. Shape(s, Len(s)) /\ Len(s) \in Nat
  BY ChunksShape
<1>2. EndBefore(s, i) \in Nat
  BY <1>1 DEF EndBefore, Shape
<1>3. /\ c \in Chunks /\ c.off = EndBefore(s, i) /\ c.size = Header + size
      /\ c.off \in Nat /\ c.size \in Nat
  BY <1>2, SizeAssumption DEF Chunk, Chunks
<1>4. /\ new \in Seq(Chunks) /\ Len(new) = Len(s) + 1
      /\ Inserted(s, Len(s), i, c, new)
  BY <1>3, InsertElements
<1>5. i > 1 => c.off = s[i - 1].off + s[i - 1].size
  BY <1>3 DEF EndBefore
<1>6. i <= Len(s) => c.off + c.size <= s[i].off
  <2>1. i <= Len(s) => s[i].off - EndBefore(s, i) >= Header + size /\ s[i].off \in Nat
    BY <1>1 DEF StopsAt, Accommodates, Shape
  <2>2. QED
    BY <2>1, <1>2, <1>3, SizeAssumption
<1>7. /\ end2 \in Nat /\ end2 >= end
      /\ i > Len(s) => c.off + c.size <= end2
  BY <1>2, <1>3, SizeAssumption DEF TopAfter
<1>8. c.off + c.size <= end2
  <2>1. CASE i > Len(s)
    BY <2>1, <1>7
  <2>2. CASE i <= Len(s)
    <3>1. /\ s[i].off \in Nat /\ s[i].size \in Nat
          /\ s[i].off + s[i].size <= end
      BY <2>2, <1>1 DEF Shape, Ordered
    <3>2. QED
      BY <2>2, <3>1, <1>3, <1>6, <1>7
  <2>3. QED
    BY <2>1, <2>2
<1>9. Ordered(new, Len(new), end2)
  BY <1>1, <1>3, <1>4, <1>5, <1>6, <1>7, <1>8, InsertOrdered, SMTT(30)
<1>10. Blocks(new, Len(new)) = Blocks(s, Len(s)) \cup {Block(c)}
  <2>1. Len(s) \in Nat /\ Inserted(s, Len(s), i, c, new)
    BY <1>1, <1>4
  <2>2. \A b : b \in Blocks(new, Len(s) + 1) <=> b \in Blocks(s, Len(s)) \/ b = Block(c)
    BY <2>1, InsertBlocks
  <2>3. QED
    BY <2>2, <1>4
<1>11. QED
  BY <1>4, <1>7, <1>9, <1>10

\* mm_free() takes a chunk out of the list.
LEMMA RemoveKeeps ==
  ASSUME NEW s \in Seq(Chunks), NEW end \in Nat, Ordered(s, Len(s), end),
         NEW k \in 1 .. Len(s), NEW new, new = RemoveAt(s, k)
  PROVE  /\ new \in Seq(Chunks)
         /\ Ordered(new, Len(new), end)
         /\ Blocks(new, Len(new)) = Blocks(s, Len(s)) \ {Block(s[k])}
<1>1. Shape(s, Len(s)) /\ Len(s) \in Nat
  BY ChunksShape
<1>2. /\ new \in Seq(Chunks) /\ Len(new) = Len(s) - 1
      /\ Removed(s, Len(s), k, new)
  BY RemoveElements
<1>3. Ordered(new, Len(new), end)
  BY <1>1, <1>2, RemoveOrdered
<1>4. Blocks(new, Len(new)) = Blocks(s, Len(s)) \ {Block(s[k])}
  BY <1>1, <1>2, RemoveBlocks
<1>5. QED
  BY <1>2, <1>3, <1>4

-----------------------------------------------------------------------------
(* The invariant: the list is in address order, inside the area, and holds *)
(* the chunks of the callers' blocks.                                      *)

AllocInv ==
  /\ chunks \in Seq(Chunks)
  /\ top \in Nat
  /\ status \in {"ok", "overrun", "faulted"}
  /\ Ordered(chunks, Len(chunks), top)
  /\ held = Blocks(chunks, Len(chunks))
  /\ \A b \in held : b.size \in Sizes

\* The area starts with no chunks.
LEMMA AllocInit == Init => AllocInv
<1> SUFFICES ASSUME Init PROVE AllocInv
  OBVIOUS
<1>1. chunks \in Seq(Chunks) /\ Len(chunks) = 0
  BY DEF Init
<1>2. Ordered(chunks, Len(chunks), top) /\ Blocks(chunks, Len(chunks)) = {}
  BY <1>1 DEF Ordered, Blocks
<1>3. QED
  BY <1>1, <1>2, SizeAssumption DEF Init, AllocInv

\* The address a caller passes leads to the chunk of its block.
LEMMA FindsChunk ==
  ASSUME AllocInv, NEW b \in held, NEW k \in 1 .. Len(chunks), chunks[k].off = b.at - Header
  PROVE  b = Block(chunks[k])
<1>1. Shape(chunks, Len(chunks)) /\ Len(chunks) \in Nat
  BY ChunksShape DEF AllocInv
<1>2. PICK m \in 1 .. Len(chunks) : b = Block(chunks[m])
  BY DEF AllocInv, Blocks
<1>3. b.at = chunks[m].off + Header /\ chunks[m].off \in Nat /\ Header \in Nat
  BY <1>1, <1>2, SizeAssumption DEF Block, Shape
<1>4. chunks[k].off = chunks[m].off
  BY <1>3
<1>5. m = k
  BY <1>1, <1>4, OrderedApart DEF AllocInv
<1>6. QED
  BY <1>2, <1>5

\* The block of a new chunk begins after its header.
LEMMA NewBlock ==
  ASSUME NEW off \in Nat, NEW size \in Sizes
  PROVE  Block(Chunk(off, size)) = [at |-> off + Header, size |-> size]
<1>1. (Header + size) - Header = size
  BY SizeAssumption
<1>2. QED
  BY <1>1 DEF Block, Chunk

\* mm_alloc() inserts into a gap that is large enough, or at the end.
LEMMA AllocKeeps ==
  ASSUME AllocInv, NEW size \in Sizes, Alloc(size)
  PROVE  AllocInv'
<1>1. PICK i \in 1 .. Len(chunks) + 1 :
        LET c == Chunk(EndBefore(chunks, i), size) IN
        /\ StopsAt(chunks, i, size)
        /\ top' = TopAfter(chunks, i, size, top)
        /\ chunks' = InsertAt(chunks, i, c)
        /\ held' = held \cup {Block(c)}
        /\ UNCHANGED status
  BY DEF Alloc
<1> DEFINE c == Chunk(EndBefore(chunks, i), size)
<1>2. EndBefore(chunks, i) \in Nat
  BY ChunksShape DEF AllocInv, EndBefore, Shape
<1>3. Block(c).size \in Sizes
  BY <1>2, NewBlock
<1> HIDE DEF c
<1>4. /\ chunks' \in Seq(Chunks) /\ top' \in Nat
      /\ Ordered(chunks', Len(chunks'), top')
      /\ Blocks(chunks', Len(chunks')) = Blocks(chunks, Len(chunks)) \cup {Block(c)}
  BY <1>1, InsertKeeps DEF AllocInv, c
<1>5. held' = held \cup {Block(c)} /\ status' = status
  BY <1>1 DEF c
<1>6. QED
  BY <1>3, <1>4, <1>5 DEF AllocInv

\* mm_free() removes the chunk of the block.
LEMMA FreeKeeps ==
  ASSUME AllocInv, NEW b \in held, Free(b)
  PROVE  AllocInv'
<1>1. PICK k \in 1 .. Len(chunks) :
        /\ chunks[k].off = b.at - Header
        /\ chunks' = RemoveAt(chunks, k)
        /\ held' = held \ {b}
        /\ UNCHANGED <<top, status>>
  BY DEF Free
<1>2. b = Block(chunks[k])
  BY <1>1, FindsChunk
<1>3. /\ chunks' \in Seq(Chunks)
      /\ Ordered(chunks', Len(chunks'), top)
      /\ Blocks(chunks', Len(chunks')) = Blocks(chunks, Len(chunks)) \ {Block(chunks[k])}
  BY <1>1, RemoveKeeps DEF AllocInv
<1>4. QED
  BY <1>1, <1>2, <1>3 DEF AllocInv

\* mm_realloc() in place changes the size of one chunk.
LEMMA ReallocInPlaceKeeps ==
  ASSUME AllocInv, NEW b \in held, NEW size \in Sizes, ReallocInPlace(b, size)
  PROVE  AllocInv'
<1>1. PICK k \in 1 .. Len(chunks) :
        /\ chunks[k].off = b.at - Header
        /\ chunks[k].size >= Header + size
        /\ chunks' = [chunks EXCEPT ![k].size = Header + size]
        /\ held' = (held \ {b}) \cup {[b EXCEPT !.size = size]}
        /\ UNCHANGED <<top, status>>
  BY DEF ReallocInPlace
<1> DEFINE c == [chunks[k] EXCEPT !.size = Header + size]
<1>2. b = Block(chunks[k])
  BY <1>1, FindsChunk
<1>3. Shape(chunks, Len(chunks)) /\ Len(chunks) \in Nat
  BY ChunksShape DEF AllocInv
<1>4. chunks[k] \in Chunks
  BY DEF AllocInv
<1>5. c \in Chunks /\ c.off = chunks[k].off /\ c.size = Header + size /\ c.size \in Nat
  <2>1. Header + size \in Nat /\ Header + size > Header
    BY SizeAssumption
  <2>2. chunks[k] \in [off : Nat, size : Nat]
    BY <1>4 DEF Chunks
  <2>3. c \in [off : Nat, size : Nat] /\ c.off = chunks[k].off /\ c.size = Header + size
    BY <2>1, <2>2
  <2>4. QED
    BY <2>1, <2>3 DEF Chunks
<1>6. Block(c) = [b EXCEPT !.size = size] /\ Block(c).size = size
  <2>1. (Header + size) - Header = size
    BY SizeAssumption
  <2>2. Block(c) = [at |-> chunks[k].off + Header, size |-> size]
    BY <1>5, <2>1, Zenon DEF Block
  <2>3. [b EXCEPT !.size = size] = [at |-> chunks[k].off + Header, size |-> size]
    BY <1>2 DEF Block
  <2>4. QED
    BY <2>2, <2>3
<1>7. chunks' = [chunks EXCEPT ![k] = c]
  BY <1>1
<1> HIDE DEF c
<1>8. /\ chunks' \in Seq(Chunks) /\ Len(chunks') = Len(chunks)
      /\ Replaced(chunks, Len(chunks), k, c, chunks')
  BY <1>5, <1>7 DEF Replaced, AllocInv
<1>9. c.size <= chunks[k].size
  BY <1>1, <1>3, <1>5 DEF Shape
<1>10. Ordered(chunks', Len(chunks'), top)
  BY <1>3, <1>5, <1>8, <1>9, ShrinkOrdered DEF AllocInv
<1>11. Blocks(chunks', Len(chunks')) = (held \ {b}) \cup {Block(c)}
  BY <1>2, <1>3, <1>8, ReplaceBlocks DEF AllocInv
<1>12. QED
  BY <1>1, <1>6, <1>8, <1>10, <1>11 DEF AllocInv

\* A block that was just put in was not there before.
LEMMA NewNotHeld ==
  ASSUME NEW s \in Seq(Chunks), NEW new \in Seq(Chunks), NEW i \in 1 .. Len(s) + 1, NEW c,
         Inserted(s, Len(s), i, c, new), Len(new) = Len(s) + 1,
         NEW end \in Nat, Ordered(new, Len(new), end)
  PROVE  Block(c) \notin Blocks(s, Len(s))
<1> SUFFICES ASSUME Block(c) \in Blocks(s, Len(s)) PROVE FALSE
  OBVIOUS
<1>1. PICK k \in 1 .. Len(s) : Block(c) = Block(s[k])
  BY DEF Blocks
<1> DEFINE old == IF k < i THEN k ELSE k + 1
<1>2. /\ old \in 1 .. Len(new) /\ i \in 1 .. Len(new) /\ old # i
      /\ new[old] = s[k] /\ new[i] = c
  BY DEF Inserted
<1> HIDE DEF old
<1>3. Shape(new, Len(new)) /\ Len(new) \in Nat
  BY ChunksShape
<1>4. Block(new[old]) # Block(new[i])
  BY <1>2, <1>3, OrderedApart
<1>5. QED
  BY <1>1, <1>2, <1>4

\* mm_realloc() of a block that must grow: what its list looks like between
\* the mm_alloc() and the mm_free().
LEMMA ReallocMovesMiddle ==
  ASSUME AllocInv, NEW b \in held, NEW size \in Sizes,
         NEW i \in 1 .. Len(chunks) + 1, NEW k \in 1 .. Len(chunks),
         chunks[k].off = b.at - Header,
         StopsAt(chunks, i, size),
         NEW c, c = Chunk(EndBefore(chunks, i), size),
         NEW new, new = InsertAt(chunks, i, c),
         NEW old, old = IF k < i THEN k ELSE k + 1,
         NEW end2, end2 = TopAfter(chunks, i, size, top)
  PROVE  /\ new \in Seq(Chunks) /\ Len(new) \in Nat
         /\ Shape(new, Len(new)) /\ Ordered(new, Len(new), end2)
         /\ end2 \in Nat /\ end2 >= top
         /\ i \in 1 .. Len(new) /\ new[i] = c
         /\ old \in 1 .. Len(new) /\ new[old] = chunks[k] /\ old # i
         /\ b = Block(new[old]) /\ b # Block(c) /\ Block(c) \notin held
         /\ Abstract!Apart(b, Block(c))
         /\ Blocks(new, Len(new)) = held \cup {Block(c)}
<1>1. /\ new \in Seq(Chunks) /\ Len(new) = Len(chunks) + 1
      /\ Inserted(chunks, Len(chunks), i, c, new)
      /\ end2 \in Nat /\ end2 >= top
      /\ Ordered(new, Len(new), end2)
      /\ Blocks(new, Len(new)) = held \cup {Block(c)}
  BY InsertKeeps DEF AllocInv
<1>2. Shape(new, Len(new)) /\ Len(new) \in Nat
  BY <1>1, ChunksShape
<1>3. Len(chunks) \in Nat
  BY ChunksShape DEF AllocInv
<1>4. i \in 1 .. Len(new) /\ new[i] = c
  BY <1>1, <1>3 DEF Inserted
<1>5. old \in 1 .. Len(new) /\ new[old] = chunks[k] /\ old # i
  BY <1>1, <1>3 DEF Inserted
<1>6. b = Block(new[old])
  BY <1>5, FindsChunk
<1>7. /\ Block(new[old]) # Block(new[i])
      /\ Abstract!Apart(Block(new[old]), Block(new[i]))
  BY <1>1, <1>2, <1>4, <1>5, OrderedApart
<1>8. Block(c) \notin held
  BY <1>1, NewNotHeld DEF AllocInv
<1>9. QED
  BY <1>1, <1>2, <1>4, <1>5, <1>6, <1>7, <1>8

\* mm_realloc() that moves allocates, then frees.
LEMMA ReallocMovesKeeps ==
  ASSUME AllocInv, NEW b \in held, NEW size \in Sizes, ReallocMoves(b, size)
  PROVE  AllocInv'
<1>1. PICK i \in 1 .. Len(chunks) + 1, k \in 1 .. Len(chunks) :
        LET c   == Chunk(EndBefore(chunks, i), size)
            new == InsertAt(chunks, i, c)
            old == IF k < i THEN k ELSE k + 1
        IN
        /\ chunks[k].off = b.at - Header
        /\ StopsAt(chunks, i, size)
        /\ top' = TopAfter(chunks, i, size, top)
        /\ chunks' = RemoveAt(new, old)
        /\ held' = (held \ {b}) \cup {Block(c)}
        /\ status' \in {"ok", "overrun", "faulted"}
  BY DEF ReallocMoves, AllocInv
<1> DEFINE c == Chunk(EndBefore(chunks, i), size)
           new == InsertAt(chunks, i, c)
           old == IF k < i THEN k ELSE k + 1
<1>2. Block(c).size \in Sizes
  <2>1. EndBefore(chunks, i) \in Nat
    BY ChunksShape DEF AllocInv, EndBefore, Shape
  <2>2. QED
    BY <2>1, NewBlock
<1>3. /\ chunks' = RemoveAt(new, old) /\ held' = (held \ {b}) \cup {Block(c)}
      /\ status' \in {"ok", "overrun", "faulted"}
  BY <1>1
<1>4. /\ new \in Seq(Chunks) /\ Ordered(new, Len(new), top') /\ top' \in Nat
      /\ old \in 1 .. Len(new) /\ b = Block(new[old]) /\ b # Block(c)
      /\ Blocks(new, Len(new)) = held \cup {Block(c)}
  BY <1>1, ReallocMovesMiddle
<1> HIDE DEF c, new, old
<1>5. /\ chunks' \in Seq(Chunks)
      /\ Ordered(chunks', Len(chunks'), top')
      /\ Blocks(chunks', Len(chunks')) = Blocks(new, Len(new)) \ {Block(new[old])}
  BY <1>3, <1>4, RemoveKeeps
<1>6. held' = Blocks(chunks', Len(chunks'))
  BY <1>3, <1>4, <1>5
<1>7. \A d \in held' : d.size \in Sizes
  BY <1>2, <1>3 DEF AllocInv
<1>8. QED
  BY <1>3, <1>4, <1>5, <1>6, <1>7 DEF AllocInv

\* Order and backing hold in every state.
LEMMA AllocInvariant == Spec => []AllocInv
<1>1. AllocInv /\ [Next]_vars => AllocInv'
  <2> SUFFICES ASSUME AllocInv, [Next]_vars PROVE AllocInv'
    OBVIOUS
  <2>1. ASSUME NEW size \in Sizes, Alloc(size) PROVE AllocInv'
    BY <2>1, AllocKeeps
  <2>2. ASSUME NEW b \in held, Free(b) PROVE AllocInv'
    BY <2>2, FreeKeeps
  <2>3. ASSUME NEW b \in held, NEW size \in Sizes, ReallocInPlace(b, size) PROVE AllocInv'
    BY <2>3, ReallocInPlaceKeeps
  <2>4. ASSUME NEW b \in held, NEW size \in Sizes, ReallocMoves(b, size) PROVE AllocInv'
    BY <2>4, ReallocMovesKeeps
  <2>5. ASSUME UNCHANGED vars PROVE AllocInv'
    BY <2>5 DEF AllocInv, vars, Ordered, Blocks
  <2>6. QED
    BY <2>1, <2>2, <2>3, <2>4, <2>5 DEF Next
<1>2. QED
  BY <1>1, AllocInit, PTL DEF Spec

\* The list of chunks is in address order after any sequence of calls, so the
\* gaps mm_alloc() measures are free: chunks never overlap, nor leave the area.
THEOREM AddressOrder == Spec => []InAddressOrder
<1>1. AllocInv => InAddressOrder
  BY Zenon DEF AllocInv, Ordered, InAddressOrder
<1>2. QED
  BY <1>1, AllocInvariant, PTL

\* The chunks are those of the blocks callers hold: none is lost or shared.
THEOREM Backed == Spec => []HeldBacked
<1>1. AllocInv => HeldBacked
  <2> SUFFICES ASSUME AllocInv PROVE HeldBacked
    OBVIOUS
  <2>1. Shape(chunks, Len(chunks)) /\ Len(chunks) \in Nat
    BY ChunksShape DEF AllocInv
  <2>2. ASSUME NEW i \in 1 .. Len(chunks), NEW j \in 1 .. Len(chunks), i # j
        PROVE  chunks[i].off # chunks[j].off
    BY <2>1, <2>2, OrderedApart DEF AllocInv
  <2>3. held = {Block(chunks[i]) : i \in 1 .. Len(chunks)}
    BY DEF AllocInv, Blocks
  <2>4. QED
    BY <2>2, <2>3, Zenon DEF HeldBacked
<1>2. QED
  BY <1>1, AllocInvariant, PTL

-----------------------------------------------------------------------------
\* Blocks are only ever enlarged by a header's size or more.
GrowsByHeader == \A a, b \in Sizes : a < b => a + Header <= b

\* A copy of m bytes to the block of the i-th chunk stays in that block.
LEMMA CopyOutside ==
  ASSUME NEW f, NEW n \in Nat, NEW end \in Nat, Shape(f, n), Ordered(f, n, end),
         NEW i \in 1 .. n, NEW m \in Nat, Header + m <= f[i].size,
         NEW at, at = f[i].off + Header
  PROVE  /\ ~(at + m > end)
         /\ \A j \in 1 .. n : j # i => ~(at < f[j].off + f[j].size /\ f[j].off < at + m)
<1>1. /\ f[i].off \in Nat /\ f[i].size \in Nat /\ f[i].off + f[i].size <= end
      /\ Header \in Nat
  BY SizeAssumption DEF Shape, Ordered
<1>2. ~(at + m > end)
  BY <1>1
<1>3. ASSUME NEW j \in 1 .. n, j # i
      PROVE  ~(at < f[j].off + f[j].size /\ f[j].off < at + m)
  <2>1. /\ f[j].off \in Nat /\ f[j].size \in Nat
        /\ f[i].off + f[i].size <= f[j].off \/ f[j].off + f[j].size <= f[i].off
    BY <1>3 DEF Shape, Ordered
  <2>2. QED
    BY <1>1, <2>1
<1>4. QED
  BY <1>2, <1>3

\* The copy of mm_realloc() fits where sizes grow by a header at least.
LEMMA CopyFits ==
  ASSUME GrowsByHeader, AllocInv, status # "overrun",
         NEW b \in held, NEW size \in Sizes, ReallocMoves(b, size)
  PROVE  status' # "overrun"
<1>1. PICK i \in 1 .. Len(chunks) + 1, k \in 1 .. Len(chunks), moved \in BOOLEAN :
        LET c   == Chunk(EndBefore(chunks, i), size)
            new == InsertAt(chunks, i, c)
        IN
        /\ chunks[k].off = b.at - Header
        /\ chunks[k].size < Header + size
        /\ StopsAt(chunks, i, size)
        /\ top' = TopAfter(chunks, i, size, top)
        /\ status' = IF moved THEN "faulted"
                     ELSE IF Overruns(new, i, Block(c).at, chunks[k].size, top')
                     THEN "overrun"
                     ELSE status
  BY DEF ReallocMoves
<1> DEFINE c == Chunk(EndBefore(chunks, i), size)
           new == InsertAt(chunks, i, c)
<1>2. /\ Len(new) \in Nat /\ Shape(new, Len(new)) /\ Ordered(new, Len(new), top')
      /\ i \in 1 .. Len(new) /\ new[i] = c /\ top' \in Nat
      /\ b = Block(chunks[k])
  BY <1>1, ReallocMovesMiddle
<1>3. /\ c.size = Header + size
      /\ Block(c).at = c.off + Header
      /\ Header \in Nat /\ size \in Nat
  BY SizeAssumption DEF Chunk, Block
<1>4. chunks[k].size <= size /\ chunks[k].size \in Nat
  <2>1. b.size = chunks[k].size - Header /\ b.size \in Sizes /\ chunks[k].size \in Nat
    BY <1>2, ChunksShape DEF Block, AllocInv, Shape
  <2>2. b.size < size /\ b.size \in Nat
    BY <1>1, <1>3, <2>1, SizeAssumption
  <2>3. b.size + Header <= size
    BY <2>1, <2>2 DEF GrowsByHeader
  <2>4. QED
    BY <1>3, <2>1, <2>2, <2>3
<1> HIDE DEF c, new
<1>5. Header + chunks[k].size <= new[i].size
  BY <1>2, <1>3, <1>4
<1>6. ~Overruns(new, i, Block(c).at, chunks[k].size, top')
  <2>1. Block(c).at = new[i].off + Header
    BY <1>2, <1>3
  <2>2. /\ ~(Block(c).at + chunks[k].size > top')
        /\ \A j \in 1 .. Len(new) : j # i =>
             ~(Block(c).at < new[j].off + new[j].size /\ new[j].off < Block(c).at + chunks[k].size)
    BY <1>2, <1>4, <1>5, <2>1, CopyOutside
  <2>3. QED
    BY <2>2, Zenon DEF Overruns
<1>7. QED
  BY <1>1, <1>6 DEF c, new

\* mm_realloc() copies a header's size too many bytes.  That does no harm as
\* long as every block that is enlarged is enlarged by at least as much.
THEOREM CopyInside == GrowsByHeader /\ Spec => []CopiesInside
<1>1. Init => CopiesInside
  BY DEF Init, CopiesInside
<1>2. GrowsByHeader /\ AllocInv /\ CopiesInside /\ [Next]_vars => CopiesInside'
  <2> SUFFICES ASSUME GrowsByHeader, AllocInv, CopiesInside, [Next]_vars
               PROVE  status' # "overrun"
    BY DEF CopiesInside
  <2>1. ASSUME NEW b \in held, NEW size \in Sizes, ReallocMoves(b, size)
        PROVE  status' # "overrun"
    BY <2>1, CopyFits DEF CopiesInside
  <2>2. QED
    BY <2>1 DEF Next, Alloc, Free, ReallocInPlace, CopiesInside, vars
<1>3. GrowsByHeader => []GrowsByHeader
  <2>1. GrowsByHeader => GrowsByHeader'
    BY DEF GrowsByHeader
  <2>2. QED
    BY <2>1, PTL
<1>4. QED
  BY <1>1, <1>2, <1>3, AllocInvariant, PTL DEF Spec

-----------------------------------------------------------------------------
(* The allocator implements the heap.                                      *)

\* Where the block of a chunk lies.
LEMMA BlockInside ==
  ASSUME NEW f, NEW n \in Nat, NEW end \in Nat, Shape(f, n), Ordered(f, n, end), NEW i \in 1 .. n
  PROVE  Block(f[i]).size > 0 /\ Block(f[i]).at + Block(f[i]).size <= end
<1>1. /\ f[i].off \in Nat /\ f[i].size \in Nat /\ f[i].size > Header
      /\ f[i].off + f[i].size <= end
      /\ Header \in Nat
  BY SizeAssumption DEF Shape, Ordered
<1>2. f[i].size - Header > 0 /\ (f[i].off + Header) + (f[i].size - Header) <= end
  BY <1>1
<1>3. QED
  BY <1>2 DEF Block

\* A block held lies in the area, apart from the others.
LEMMA HeldFits ==
  ASSUME NEW s \in Seq(Chunks), NEW end \in Nat, Ordered(s, Len(s), end),
         NEW S, S = Blocks(s, Len(s)), NEW b \in S
  PROVE  Abstract!Fits(b, S \ {b}, end)
<1>1. Shape(s, Len(s)) /\ Len(s) \in Nat
  BY ChunksShape
<1>2. PICK i \in 1 .. Len(s) : b = Block(s[i])
  BY DEF Blocks
<1>3. b.size > 0 /\ b.at + b.size <= end
  BY <1>1, <1>2, BlockInside
<1>4. ASSUME NEW d \in S \ {b} PROVE Abstract!Apart(b, d)
  <2>1. PICK j \in 1 .. Len(s) : d = Block(s[j])
    BY DEF Blocks
  <2>2. i # j
    BY <1>2, <1>4, <2>1
  <2>3. QED
    BY <1>1, <1>2, <2>1, <2>2, OrderedApart
<1>5. QED
  BY <1>3, <1>4, Zenon DEF Abstract!Fits

\* mm_alloc() hands out a block apart from the others.
LEMMA AllocIsHeap ==
  ASSUME AllocInv, AllocInv', NEW size \in Sizes, Alloc(size)
  PROVE  Abstract!Next
<1>1. PICK i \in 1 .. Len(chunks) + 1 :
        LET c == Chunk(EndBefore(chunks, i), size) IN
        /\ StopsAt(chunks, i, size)
        /\ top' = TopAfter(chunks, i, size, top)
        /\ chunks' = InsertAt(chunks, i, c)
        /\ held' = held \cup {Block(c)}
  BY DEF Alloc
<1> DEFINE c == Chunk(EndBefore(chunks, i), size)
           b == Block(c)
<1>2. /\ Inserted(chunks, Len(chunks), i, c, chunks')
      /\ Len(chunks') = Len(chunks) + 1 /\ Len(chunks) \in Nat
      /\ top' \in Nat /\ top' >= top
  BY <1>1, InsertKeeps, ChunksShape DEF AllocInv
<1>3. held' = held \cup {b}
  BY <1>1
<1> HIDE DEF c
<1>4. b \notin held
  BY <1>2, NewNotHeld DEF AllocInv
<1> HIDE DEF b
<1>5. Abstract!Fits(b, held' \ {b}, top')
  BY <1>2, <1>3, HeldFits DEF AllocInv
<1>6. held' \ {b} = held
  BY <1>3, <1>4
<1>7. Abstract!Alloc(b)
  BY <1>2, <1>3, <1>5, <1>6 DEF Abstract!Alloc, Abstract!Grow
<1>8. QED
  BY <1>3, <1>7 DEF Abstract!Next

\* mm_free() takes a block back.
LEMMA FreeIsHeap ==
  ASSUME NEW b \in held, Free(b)
  PROVE  Abstract!Next
  BY DEF Free, Abstract!Next, Abstract!Free

\* mm_realloc() in place exchanges a block for one at the same address.
LEMMA ReallocInPlaceIsHeap ==
  ASSUME AllocInv, AllocInv', NEW b \in held, NEW size \in Sizes, ReallocInPlace(b, size)
  PROVE  Abstract!Next
<1> DEFINE d == [b EXCEPT !.size = size]
<1>1. held' = (held \ {b}) \cup {d} /\ top' = top
  BY DEF ReallocInPlace
<1>2. PICK k \in 1 .. Len(chunks) : b = Block(chunks[k])
  BY DEF AllocInv, Blocks
<1>3. d.at = b.at /\ d.size = size
  BY <1>2 DEF Block
<1> HIDE DEF d
<1>4. Abstract!Fits(d, held' \ {d}, top')
  BY <1>1, HeldFits DEF AllocInv
<1>5. ASSUME NEW e \in held \ {b} PROVE e # d
  <2>1. PICK m \in 1 .. Len(chunks) : e = Block(chunks[m])
    BY DEF AllocInv, Blocks
  <2>2. m # k
    BY <1>2, <1>5, <2>1
  <2>3. Shape(chunks, Len(chunks)) /\ Len(chunks) \in Nat
    BY ChunksShape DEF AllocInv
  <2>4. chunks[m].off # chunks[k].off /\ chunks[m].off \in Nat /\ chunks[k].off \in Nat
    BY <2>2, <2>3, OrderedApart DEF AllocInv, Shape
  <2>5. chunks[m].off + Header # chunks[k].off + Header
    BY <2>4, SizeAssumption
  <2>6. QED
    BY <1>2, <1>3, <2>1, <2>5 DEF Block
<1>6. held' \ {d} = held \ {b}
  BY <1>1, <1>5
<1>7. Abstract!Resize(b, d)
  <2>1. Abstract!Grow
    BY <1>1 DEF Abstract!Grow, AllocInv
  <2>2. Abstract!Fits(d, held \ {b}, top')
    BY <1>4, <1>6
  <2>3. QED
    BY <1>1, <1>3, <2>1, <2>2, Zenon DEF Abstract!Resize
<1>8. QED
  BY <1>1, <1>7 DEF Abstract!Next

\* mm_realloc() that moves exchanges a block for one elsewhere, or fails.
LEMMA ReallocMovesIsHeap ==
  ASSUME AllocInv, NEW b \in held, NEW size \in Sizes, ReallocMoves(b, size)
  PROVE  Abstract!Next
<1>1. PICK i \in 1 .. Len(chunks) + 1, k \in 1 .. Len(chunks) :
        LET c   == Chunk(EndBefore(chunks, i), size)
            new == InsertAt(chunks, i, c)
        IN
        /\ chunks[k].off = b.at - Header
        /\ StopsAt(chunks, i, size)
        /\ top' = TopAfter(chunks, i, size, top)
        /\ held' = (held \ {b}) \cup {Block(c)}
  BY DEF ReallocMoves
<1> DEFINE c == Chunk(EndBefore(chunks, i), size)
           new == InsertAt(chunks, i, c)
           d == Block(c)
<1>2. /\ new \in Seq(Chunks) /\ Ordered(new, Len(new), top')
      /\ top' \in Nat /\ top' >= top
      /\ Blocks(new, Len(new)) = held \cup {d}
      /\ b # d /\ d \notin held /\ Abstract!Apart(b, d)
  BY <1>1, ReallocMovesMiddle
<1>3. held' = (held \ {b}) \cup {d}
  BY <1>1
<1> HIDE DEF c, new, d
<1>4. Abstract!Fits(d, (held \cup {d}) \ {d}, top')
  BY <1>2, HeldFits
<1>5. Abstract!Fits(d, held \ {b}, top')
  <2>1. (held \cup {d}) \ {d} = held
    BY <1>2
  <2>2. QED
    BY <1>4, <2>1 DEF Abstract!Fits
<1>6. Abstract!Grow
  BY <1>2 DEF Abstract!Grow
<1>7. Abstract!Resize(b, d)
  BY <1>2, <1>3, <1>5, <1>6, Zenon DEF Abstract!Resize
<1>8. QED
  BY <1>3, <1>7 DEF Abstract!Next

\* mm_alloc(), mm_free() and mm_realloc() keep the promise of a heap: blocks
\* that are held lie in the area and do not overlap.
THEOREM ImplementsTheHeap == Spec => ImplementsHeap
<1>1. Init => Abstract!Init
  BY SizeAssumption DEF Init, Abstract!Init
<1>2. AllocInv /\ AllocInv' /\ [Next]_vars => [Abstract!Next]_<<held, top>>
  <2> SUFFICES ASSUME AllocInv, AllocInv', [Next]_vars
               PROVE  [Abstract!Next]_<<held, top>>
    OBVIOUS
  <2>1. ASSUME NEW size \in Sizes, Alloc(size) PROVE Abstract!Next
    BY <2>1, AllocIsHeap
  <2>2. ASSUME NEW b \in held, Free(b) PROVE Abstract!Next
    BY <2>2, FreeIsHeap
  <2>3. ASSUME NEW b \in held, NEW size \in Sizes, ReallocInPlace(b, size) PROVE Abstract!Next
    BY <2>3, ReallocInPlaceIsHeap
  <2>4. ASSUME NEW b \in held, NEW size \in Sizes, ReallocMoves(b, size) PROVE Abstract!Next
    BY <2>4, ReallocMovesIsHeap
  <2>5. ASSUME UNCHANGED vars PROVE UNCHANGED <<held, top>>
    BY <2>5 DEF vars
  <2>6. QED
    BY <2>1, <2>2, <2>3, <2>4, <2>5 DEF Next
<1>3. QED
  BY <1>1, <1>2, AllocInvariant, PTL DEF Spec, ImplementsHeap, Abstract!Spec

-----------------------------------------------------------------------------
(* The area is enlarged only when it is full.  mm_alloc() looks at the gap *)
(* before each chunk and behind the last one; that no range between them   *)
(* was missed takes the first chunk that ends behind the range.            *)

Below == {ss \in Nat \X Nat : ss[1] < ss[2]}

\* There is no endless descent in the natural numbers.
LEMMA BelowWellFounded == IsWellFoundedOn(Below, Nat)
<1>1. IsWellFoundedOn(OpToRel(<, Nat), Nat)
  BY NatLessThanWellFounded
<1>2. OpToRel(<, Nat) = Below
  BY DEF OpToRel, Below
<1>3. QED
  BY <1>1, <1>2

\* A set of natural numbers that is not empty has a least element.
LEMMA Least ==
  ASSUME NEW T, T \subseteq Nat, T # {}
  PROVE  \E m \in T : \A k \in T : m <= k
<1>1. PICK m \in T : \A k \in T : <<k, m>> \notin Below
  BY BelowWellFounded, WFMin, Zenon
<1>2. ASSUME NEW k \in T, k < m PROVE <<k, m>> \in Below
  BY <1>2 DEF Below
<1>3. \A k \in T : m <= k
  <2> TAKE k \in T
  <2>1. ~(k < m)
    BY <1>1, <1>2
  <2>2. k \in Nat /\ m \in Nat
    OBVIOUS
  <2>3. QED
    BY <2>1, <2>2
<1>4. QED
  BY <1>3

\* The place behind a chunk, or the start of the area.
LEMMA EndInArea ==
  ASSUME NEW s, Shape(s, Len(s)), Len(s) \in Nat, NEW i \in 1 .. Len(s) + 1
  PROVE  EndBefore(s, i) \in Nat
BY DEF EndBefore, Shape

\* When the walk of mm_alloc() ends behind the list and behind the area, every
\* range of the chunk's size meets a chunk.
LEMMA NoRoom ==
  ASSUME NEW s \in Seq(Chunks), NEW end \in Nat, Ordered(s, Len(s), end),
         NEW size \in Sizes, NEW i \in 1 .. Len(s) + 1, StopsAt(s, i, size),
         TopAfter(s, i, size, end) # end,
         NEW a \in 0 .. end - (Header + size)
  PROVE  \E j \in 1 .. Len(s) : a < s[j].off + s[j].size /\ s[j].off < a + Header + size
<1> DEFINE T == {j \in 1 .. Len(s) : a < s[j].off + s[j].size}
<1>1. /\ Shape(s, Len(s)) /\ Len(s) \in Nat
      /\ Header \in Nat /\ size \in Nat /\ a \in Nat
  BY ChunksShape, SizeAssumption
<1>2. /\ i = Len(s) + 1
      /\ EndBefore(s, i) + Header + size > end
  <2>1. EndBefore(s, i) \in Nat
    BY <1>1, EndInArea
  <2>2. QED
    BY <1>1, <2>1 DEF TopAfter
<1>3. T # {}
  <2> SUFFICES ASSUME T = {} PROVE FALSE
    OBVIOUS
  <2>1. EndBefore(s, i) <= a
    <3>1. CASE Len(s) = 0
      BY <1>1, <1>2, <3>1 DEF EndBefore
    <3>2. CASE Len(s) > 0
      <4>1. Len(s) \in 1 .. Len(s)
        BY <1>1, <3>2
      <4>2. Len(s) \notin T
        OBVIOUS
      <4>3. ~(a < s[Len(s)].off + s[Len(s)].size)
        BY <4>1, <4>2
      <4>4. s[Len(s)].off \in Nat /\ s[Len(s)].size \in Nat
        BY <1>1, <4>1 DEF Shape
      <4>5. EndBefore(s, i) = s[Len(s)].off + s[Len(s)].size
        BY <1>1, <1>2, <3>2 DEF EndBefore
      <4>6. QED
        BY <1>1, <4>3, <4>4, <4>5
    <3>3. QED
      BY <1>1, <3>1, <3>2
  <2>2. EndBefore(s, i) \in Nat
    BY <1>1, EndInArea
  <2>3. QED
    BY <1>1, <1>2, <2>1, <2>2
<1>4. T \subseteq Nat
  OBVIOUS
<1>5. PICK j \in T : \A k \in T : j <= k
  <2> HIDE DEF T
  <2>1. QED
    BY <1>3, <1>4, Least
<1>6. /\ j \in 1 .. Len(s) /\ a < s[j].off + s[j].size
      /\ s[j].off \in Nat
  BY <1>1 DEF Shape
<1>7. EndBefore(s, j) <= a /\ EndBefore(s, j) \in Nat
  <2>1. CASE j = 1
    BY <1>1, <2>1 DEF EndBefore
  <2>2. CASE j > 1
    <3>1. j - 1 \in 1 .. Len(s) /\ ~(j <= j - 1)
      BY <1>1, <1>6, <2>2
    <3>2. ~(a < s[j - 1].off + s[j - 1].size)
      BY <1>5, <3>1
    <3>3. s[j - 1].off \in Nat /\ s[j - 1].size \in Nat
      BY <1>1, <3>1 DEF Shape
    <3>4. QED
      BY <1>1, <2>2, <3>2, <3>3, SMTT(30) DEF EndBefore
  <2>3. QED
    BY <1>6, <2>1, <2>2
<1>8. ~(s[j].off - EndBefore(s, j) >= Header + size)
  BY <1>1, <1>2, <1>6 DEF StopsAt, Accommodates
<1>9. s[j].off < a + Header + size
  BY <1>1, <1>6, <1>7, <1>8, SMTT(30)
<1>10. QED
  BY <1>6, <1>9

\* What mm_alloc() does to an area it enlarges, alone and in mm_realloc().
LEMMA EnlargedWhenFull ==
  ASSUME AllocInv, NEW size \in Sizes, NEW i \in 1 .. Len(chunks) + 1,
         StopsAt(chunks, i, size), top' = TopAfter(chunks, i, size, top), top' # top,
         NEW b, b = Block(Chunk(EndBefore(chunks, i), size)), b \in held' \ held
  PROVE  \E d \in held' \ held :
           /\ d.at + d.size = top'
           /\ \A a \in 0 .. top - (Header + d.size) :
                \E j \in 1 .. Len(chunks) :
                  a < chunks[j].off + chunks[j].size /\ chunks[j].off < a + Header + d.size
<1>1. EndBefore(chunks, i) \in Nat
  BY ChunksShape DEF AllocInv, EndBefore, Shape
<1>2. b.at = EndBefore(chunks, i) + Header /\ b.size = size
  BY <1>1, NewBlock
<1>3. b.at + b.size = top'
  BY <1>1, <1>2, SizeAssumption DEF TopAfter
<1>4. \A a \in 0 .. top - (Header + size) :
         \E j \in 1 .. Len(chunks) :
           a < chunks[j].off + chunks[j].size /\ chunks[j].off < a + Header + size
  BY NoRoom DEF AllocInv
<1>5. QED
  BY <1>2, <1>3, <1>4

\* The variables keep their types.
THEOREM Typed == Spec => []TypeOK
<1>1. AllocInv => TypeOK
  <2> SUFFICES ASSUME AllocInv PROVE TypeOK
    OBVIOUS
  <2>1. chunks \in Seq([off : Nat, size : Nat])
    <3>1. chunks \in Seq(Chunks) /\ Chunks \subseteq [off : Nat, size : Nat]
      BY DEF AllocInv, Chunks
    <3> HIDE DEF Chunks
    <3>2. QED
      BY <3>1, SeqMonotonic
  <2>2. ASSUME NEW b \in held PROVE b \in [at : Nat, size : Nat]
    <3>1. PICK k \in 1 .. Len(chunks) : b = Block(chunks[k])
      BY DEF AllocInv, Blocks
    <3>2. chunks[k].off \in Nat /\ chunks[k].size \in Nat /\ chunks[k].size > Header
      BY ChunksShape DEF AllocInv, Shape
    <3>3. QED
      BY <3>1, <3>2, SizeAssumption DEF Block
  <2>3. QED
    BY <2>1, <2>2 DEF AllocInv, TypeOK
<1>2. QED
  BY <1>1, AllocInvariant, PTL

\* mm_extend() is called only when no free range of the area could take the
\* chunk, and the area then ends with it.
THEOREM FullBeforeExtending == Spec => ExtendsOnlyWhenFull
<1> DEFINE Full ==
      top' # top =>
        \E b \in held' \ held :
          /\ b.at + b.size = top'
          /\ \A a \in 0 .. top - (Header + b.size) :
               \E i \in 1 .. Len(chunks) :
                 a < chunks[i].off + chunks[i].size /\ chunks[i].off < a + Header + b.size
<1>1. AllocInv /\ [Next]_vars => [Full]_vars
  <2> SUFFICES ASSUME AllocInv, Next, top' # top PROVE Full
    OBVIOUS
  <2>1. ASSUME NEW size \in Sizes, Alloc(size) PROVE Full
    <3>1. PICK i \in 1 .. Len(chunks) + 1 :
            LET c == Chunk(EndBefore(chunks, i), size) IN
            /\ StopsAt(chunks, i, size)
            /\ top' = TopAfter(chunks, i, size, top)
            /\ chunks' = InsertAt(chunks, i, c)
            /\ held' = held \cup {Block(c)}
      BY <2>1 DEF Alloc
    <3> DEFINE c == Chunk(EndBefore(chunks, i), size)
    <3>2. /\ Inserted(chunks, Len(chunks), i, c, chunks')
          /\ chunks' \in Seq(Chunks) /\ Len(chunks') = Len(chunks) + 1
          /\ top' \in Nat /\ Ordered(chunks', Len(chunks'), top')
      BY <3>1, InsertKeeps DEF AllocInv
    <3>3. Block(c) \notin held
      <4> HIDE DEF c
      <4>1. QED
        BY <3>2, NewNotHeld DEF AllocInv
    <3>4. QED
      BY <3>1, <3>3, EnlargedWhenFull
  <2>2. ASSUME NEW b \in held, NEW size \in Sizes, ReallocMoves(b, size) PROVE Full
    <3>1. PICK i \in 1 .. Len(chunks) + 1, k \in 1 .. Len(chunks) :
            LET c == Chunk(EndBefore(chunks, i), size) IN
            /\ chunks[k].off = b.at - Header
            /\ StopsAt(chunks, i, size)
            /\ top' = TopAfter(chunks, i, size, top)
            /\ held' = (held \ {b}) \cup {Block(c)}
      BY <2>2 DEF ReallocMoves
    <3>2. Block(Chunk(EndBefore(chunks, i), size)) \notin held
      BY <3>1, ReallocMovesMiddle
    <3>3. QED
      BY <3>1, <3>2, EnlargedWhenFull
  <2>3. ASSUME NEW b \in held, Free(b) \/ \E size \in Sizes : ReallocInPlace(b, size)
        PROVE  FALSE
    BY <2>3 DEF Free, ReallocInPlace
  <2>4. QED
    BY <2>1, <2>2, <2>3 DEF Next
<1>2. QED
  BY <1>1, AllocInvariant, PTL DEF Spec, ExtendsOnlyWhenFull
=============================================================================

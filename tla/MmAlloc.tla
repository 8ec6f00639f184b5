------------------------------ MODULE MmAlloc ------------------------------
(***************************************************************************)
(* The allocator of the shared memory area (lib/mm.c): mm_alloc(),         *)
(* mm_free(), mm_realloc() and mm_extend().  Each runs between mm_lock()   *)
(* and mm_unlock(), so one call is one step here (ShmLock shows why).      *)
(*                                                                         *)
(* The dynamic part of the area is an address range from 0 to top, with    *)
(* a list of chunks in it.  A chunk is a struct mm_chunk followed by the   *)
(* caller's block, and its size counts both.  The allocator does not keep  *)
(* the free ranges: it walks the list and measures the gap before each     *)
(* chunk, which is right as long as the list is in address order.          *)
(***************************************************************************)
EXTENDS Integers, SequencesExt

CONSTANTS
  Header,     \* sizeof(struct mm_chunk)
  Sizes,      \* the sizes callers ask for
  InitialTop, \* dynamic_size of a fresh area
  MaxTop      \* bound on the size of the area: ftruncate() fails beyond it

ASSUME SizeAssumption ==
  /\ Header \in Nat \ {0}
  /\ Sizes \subseteq Nat \ {0}
  /\ InitialTop \in Nat
  /\ MaxTop \in Nat

VARIABLES
  chunks,   \* the list of chunks, in list order
  top,      \* dynamic_size
  held,     \* the blocks callers have got and not freed: [at, size]
  status    \* "ok", until mm_realloc() has touched memory that is not its own

vars == <<chunks, top, held, status>>

Chunk(off, size) == [off |-> off, size |-> Header + size]

Block(c) == [at |-> c.off + Header, size |-> c.size - Header]

TypeOK ==
  /\ chunks \in Seq([off : Nat, size : Nat])
  /\ top \in Nat
  /\ \A b \in held : b \in [at : Nat, size : Nat]
  /\ status \in {"ok", "overrun", "faulted"}

Init ==
  /\ chunks = <<>>
  /\ top = InitialTop
  /\ held = {}
  /\ status = "ok"

\* Mutant: the walk starts in front of the dynamic area.
EndBeforeShared(s, i) == IF i = 1 THEN -Header ELSE s[i - 1].off + s[i - 1].size

\* Where the chunk before position i ends: "last" in mm_alloc().
EndBefore(s, i) == IF i = 1 THEN 0 ELSE s[i - 1].off + s[i - 1].size

\* Mutants: the gap is measured without the header, or must be larger than the
\* chunk.
AccommodatesBlock(s, i, size) == s[i].off - EndBefore(s, i) >= size

AccommodatesStrictly(s, i, size) == s[i].off - EndBefore(s, i) > Header + size

\* Is the gap before the i-th chunk large enough?
Accommodates(s, i, size) == s[i].off - EndBefore(s, i) >= Header + size

\* The position where mm_alloc() stops: the first gap that accommodates the
\* chunk, or behind the last one.
StopsAt(s, i, size) ==
  /\ \A j \in 1 .. i - 1 : ~Accommodates(s, j, size)
  /\ i \in 1 .. Len(s) => Accommodates(s, i, size)

\* Mutant: the area is enlarged by the block's size.
TopAfterBlock(s, i, size, end) ==
  IF i <= Len(s) \/ EndBefore(s, i) + Header + size <= end
    THEN end
    ELSE IF EndBefore(s, i) + size > end THEN EndBefore(s, i) + size ELSE end

\* The area after a chunk was put at position i.
TopAfter(s, i, size, end) ==
  IF i <= Len(s) \/ EndBefore(s, i) + Header + size <= end
    THEN end
    ELSE EndBefore(s, i) + Header + size

-----------------------------------------------------------------------------
Alloc(size) ==
  \E i \in 1 .. Len(chunks) + 1 :
    LET c == Chunk(EndBefore(chunks, i), size) IN
    /\ StopsAt(chunks, i, size)
    /\ top' = TopAfter(chunks, i, size, top)
    /\ top' <= MaxTop
    /\ chunks' = InsertAt(chunks, i, c)
    /\ held' = held \cup {Block(c)}
    /\ UNCHANGED status

Free(b) ==
  \E i \in 1 .. Len(chunks) :
    /\ chunks[i].off = b.at - Header
    /\ chunks' = RemoveAt(chunks, i)
    /\ held' = held \ {b}
    /\ UNCHANGED <<top, status>>

\* Mutant: the size stored is "w/o sizeof(struct mm_chunk)".
ReallocInPlaceUsable(b, size) ==
  \E i \in 1 .. Len(chunks) :
    /\ chunks[i].off = b.at - Header
    /\ chunks[i].size >= Header + size
    /\ chunks' = [chunks EXCEPT ![i].size = size]
    /\ held' = (held \ {b}) \cup {[b EXCEPT !.size = size]}
    /\ UNCHANGED <<top, status>>

\* mm_realloc() of a block whose chunk is large enough: only the size changes.
ReallocInPlace(b, size) ==
  \E i \in 1 .. Len(chunks) :
    /\ chunks[i].off = b.at - Header
    /\ chunks[i].size >= Header + size
    /\ chunks' = [chunks EXCEPT ![i].size = Header + size]
    /\ held' = (held \ {b}) \cup {[b EXCEPT !.size = size]}
    /\ UNCHANGED <<top, status>>

\* Copying n bytes to address at leaves the area, or hits a chunk of s other
\* than the one at position i.
Overruns(s, i, at, n, end) ==
  \/ at + n > end
  \/ \E j \in 1 .. Len(s) :
       j # i /\ at < s[j].off + s[j].size /\ s[j].off < at + n

\* mm_realloc() of a block that must grow: mm_alloc(), memcpy() of as many
\* bytes as the old chunk has, header included, and mm_free().  When mm_alloc()
\* had to enlarge the area, the new mapping may be elsewhere, and the pointer
\* to the old chunk that memcpy()'s size is read through points nowhere.
ReallocMoves(b, size) ==
  \E i \in 1 .. Len(chunks) + 1, k \in 1 .. Len(chunks), moved \in BOOLEAN :
    LET c   == Chunk(EndBefore(chunks, i), size)
        new == InsertAt(chunks, i, c)
        old == IF k < i THEN k ELSE k + 1
    IN
    /\ chunks[k].off = b.at - Header
    /\ chunks[k].size < Header + size
    /\ StopsAt(chunks, i, size)
    /\ top' = TopAfter(chunks, i, size, top)
    /\ top' <= MaxTop
    /\ moved => top' # top
    /\ chunks' = RemoveAt(new, old)
    /\ held' = (held \ {b}) \cup {Block(c)}
    /\ status' = IF moved THEN "faulted"
                 ELSE IF Overruns(new, i, Block(c).at, chunks[k].size, top')
                 THEN "overrun"
                 ELSE status

\* After a write outside the block anything may happen: the model stops there.
\* mm_alloc() or mm_realloc() that returns MM_NULL changes nothing.
Next ==
  /\ status = "ok"
  /\ \/ \E size \in Sizes : Alloc(size)
     \/ \E b \in held : Free(b)
     \/ \E b \in held, size \in Sizes : ReallocInPlace(b, size)
     \/ \E b \in held, size \in Sizes : ReallocMoves(b, size)

Spec == Init /\ [][Next]_vars

-----------------------------------------------------------------------------
\* The chunks lie in the area one behind the other, in list order: what the
\* walk of mm_alloc() relies on (lib/mm.c:195-207).
InAddressOrder ==
  /\ \A i \in 1 .. Len(chunks) : chunks[i].off + chunks[i].size <= top
  /\ \A i, j \in 1 .. Len(chunks) : i < j => chunks[i].off + chunks[i].size <= chunks[j].off

\* Every block a caller holds has exactly one chunk, of that block's size, and
\* every chunk is held: mm_free() will find it, and nothing has leaked.
HeldBacked ==
  /\ held = {Block(chunks[i]) : i \in 1 .. Len(chunks)}
  /\ \A i, j \in 1 .. Len(chunks) : chunks[i].off = chunks[j].off => i = j

\* The area is enlarged only when no free range of it could take the chunk,
\* and then exactly to the end of that chunk: it never shrinks, so a page
\* added in vain is lost to every program until the next boot.
ExtendsOnlyWhenFull ==
  [][ top' # top =>
        \E b \in held' \ held :
          /\ b.at + b.size = top'
          /\ \A a \in 0 .. top - (Header + b.size) :
               \E i \in 1 .. Len(chunks) :
                 a < chunks[i].off + chunks[i].size /\ chunks[i].off < a + Header + b.size ]_vars

\* mm_realloc() copies inside the block it has allocated.  It would if the
\* size of a chunk were "w/o sizeof(struct mm_chunk)", as include/mm.h says.
CopiesInside == status # "overrun"

\* The allocator keeps the promise of Heap.
Abstract == INSTANCE Heap WITH blocks <- held

ImplementsHeap == Abstract!Spec
=============================================================================

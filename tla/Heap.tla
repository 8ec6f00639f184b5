-------------------------------- MODULE Heap --------------------------------
(***************************************************************************)
(* What mm_alloc(), mm_free() and mm_realloc() promise to their callers:   *)
(* the blocks they have handed out lie inside the area and do not overlap, *)
(* whatever is allocated, resized and freed around them.                   *)
(***************************************************************************)
EXTENDS Naturals

VARIABLES blocks,   \* the blocks callers hold: records [at, size]
          top       \* end of the area

Apart(a, b) == a.at + a.size <= b.at \/ b.at + b.size <= a.at

Fits(b, others, end) ==
  /\ b.size > 0
  /\ b.at + b.size <= end
  /\ \A c \in others : Apart(b, c)

Init == blocks = {} /\ top \in Nat

\* The area grows and never shrinks.
Grow == top' \in Nat /\ top' >= top

Alloc(b) ==
  /\ Grow
  /\ Fits(b, blocks, top')
  /\ blocks' = blocks \cup {b}

Free(b) ==
  /\ blocks' = blocks \ {b}
  /\ UNCHANGED top

\* The old block is given back once the new one is in place: only a block
\* resized where it is may overlap its predecessor.
Resize(b, c) ==
  /\ Grow
  /\ c.at = b.at \/ Apart(b, c)
  /\ Fits(c, blocks \ {b}, top')
  /\ blocks' = (blocks \ {b}) \cup {c}

Next ==
  \/ \E b \in blocks' : Alloc(b)
  \/ \E b \in blocks : Free(b)
  \/ \E b \in blocks, c \in blocks' : Resize(b, c)

Spec == Init /\ [][Next]_<<blocks, top>>
=============================================================================

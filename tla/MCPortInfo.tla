----------------------------- MODULE MCPortInfo -----------------------------
(* A bridge with the identifier 5.  Bridge 1 is the best root it can hear of, *)
(* on both ports, from itself or (FarRoot) over three other bridges; bridge 7 *)
(* believes itself to be the root.                                            *)
EXTENDS PortInfo

Fresh == [age |-> 0, max |-> 2, hello |-> 1]
TooOld  == [age |-> 2, max |-> 2, hello |-> 1]

BpduOf(type, role, root, bridge, times) ==
  [type |-> type, role |-> role, prio |-> <<root, 0, 0, 0, 0, bridge, 1>>, times |-> times]

FromRoot  == BpduOf("config", "unknown", 1, 1, Fresh)
OldRoot   == BpduOf("rstp", "designated", 1, 1, TooOld)
FarRoot   == [FromRoot EXCEPT !.prio = <<1, 192, 39, 9, 0, 3, 1>>]
FromThree == BpduOf("rstp", "designated", 3, 3, Fresh)
Worse     == BpduOf("rstp", "designated", 7, 7, Fresh)
Answer    == BpduOf("rstp", "root", 7, 7, Fresh)
FromSelf  == BpduOf("rstp", "designated", 1, 5, Fresh)
Change    == BpduOf("tcn", "unknown", 7, 7, Fresh)

TwoPorts == <<{FromRoot, OldRoot, Change}, {FromRoot, FarRoot, FromSelf, Worse, Answer}>>

TwoRoots == <<{FromRoot}, {FromThree, Change}>>

OnePort == <<{FromRoot, OldRoot, Change}>>
=============================================================================

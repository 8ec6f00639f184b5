SPECIFICATION Spec
CONSTANTS
  Header = 2
  Sizes = {1, 2, 4}
  InitialTop = 6
  MaxTop = 18
INVARIANTS
  TypeOK
  InAddressOrder
  HeldBacked
PROPERTIES
  ExtendsOnlyWhenFull
  ImplementsHeap
CHECK_DEADLOCK FALSE

SPECIFICATION Spec
CONSTANTS
  Calls = {p1, p2, p3}
  MaxChildren = 3
  Null = Null
SYMMETRY Symmetry
INVARIANTS EveryWaiterHasAWaker LinkInv
CHECK_DEADLOCK FALSE

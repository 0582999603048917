SPECIFICATION Spec
CONSTANTS
  NoOp = NoOp
  Ops = {1, 2, 3, 4}
  Roots = {r1}
  Callers = {c1, c2}
  KindOf <- MCKindOf
  RootOf <- MCRootOf
  MaxPending = 2
  MaxRollbacks = 1
INVARIANT
  PendingSorted
SYMMETRY MCSymmetry

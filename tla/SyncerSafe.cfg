SPECIFICATION Spec
CONSTANTS
  Tenants = {t1, t2}
  Writers = {w1, w2}
  Calls = {g1, g2}
  Lookers = {l1}
  SubCap = 1
  MergedCap = 1
  MaxWrites = 2
  MaxLate = 1
  MaxFails = 1
  MaxLookups = 1
  None = None
INVARIANTS TypeOK NothingForgotten
SYMMETRY Symmetry
CHECK_DEADLOCK FALSE

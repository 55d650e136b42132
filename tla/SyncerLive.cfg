SPECIFICATION FairSpec
CONSTANTS
  Tenants = {t1}
  Writers = {w1}
  Calls = {g1, g2}
  Lookers = {l1}
  SubCap = 1
  MergedCap = 1
  MaxWrites = 2
  MaxLate = 1
  MaxFails = 0
  MaxLookups = 0
  None = None

CHECK_DEADLOCK FALSE
PROPERTIES SyncerProgresses ShutdownCompletes

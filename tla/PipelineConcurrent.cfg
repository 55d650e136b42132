SPECIFICATION Spec
CONSTANTS
  Hashes = {h1}
  Sevs = {warning, critical}
  Uids = {u1, u2, u3}
  Absent = Absent
  Workers = {w1, w2}
  Users = {p1}
  Throttle <- Unthrottled
  Watch = TRUE
  Flapping = 2
  RecordTTL = 1
  InitialFilter <- OneSevFilter
  CommentTypes = {"comment", "close"}
  Cleaning = TRUE
  MaxAlerts = 3
  MaxComments = 1
  MaxEdits = 0
  MaxFaults = 1
  MaxTime = 1
INVARIANTS TypeOK CommentCountCovered
PROPERTY WriteStores
SYMMETRY Symmetry
CHECK_DEADLOCK FALSE

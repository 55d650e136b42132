SPECIFICATION Spec
CONSTANTS
  Hashes = {h1}
  Sevs = {warning, critical}
  Uids = {u1, u2}
  Absent = Absent
  Workers = {w1}
  Users = {}
  Throttle <- TwoSeconds
  Watch = TRUE
  Flapping = 2
  RecordTTL = 2
  InitialFilter = Absent
  CommentTypes = {"comment", "close"}
  Cleaning = FALSE
  MaxAlerts = 4
  MaxComments = 0
  MaxEdits = 1
  MaxFaults = 0
  MaxTime = 3
SYMMETRY Symmetry
CHECK_DEADLOCK FALSE
INVARIANTS OneRowPerHash SnoozedIsCurrent FlappingCap
PROPERTIES ThrottleHonoured

SPECIFICATION FairSpec
CONSTANTS
  Producers = {p1, p2}
  Colls = {record}
  Tenants = {t1, t2}
  Searches = {s1}
  Idle = Idle
  Cap = 1
  Period = 1
  Tries = 1
  MaxCalls = 3
  MaxFaults = 2
CHECK_DEADLOCK FALSE
INVARIANTS Conservation GracefulShutdownDelivers
PROPERTIES WriterProgresses ImplementsLedger

SPECIFICATION Spec
CONSTANTS
  Backends = {"sqlite", "postgres", "mongo"}
  Clients = {c1, c2}
  Tenants = {"a", "b"}
  Ops <- MCOps
  Stored <- MCStored
  MaxOps = 3
SYMMETRY Symm
CHECK_DEADLOCK FALSE
INVARIANTS WritesSerialise DriversAgree
PROPERTIES StepsStayInScope

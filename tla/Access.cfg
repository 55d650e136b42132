SPECIFICATION Spec
CONSTANTS
  Uids = {1, 2, 3}
  Requests = {q1, q2}
  Tokens = {1, 2, 3}
  Keys = {key1}
  Clients = {c1, c2}
  Providers = {"local", "ldap", "anonymous", "oidc"}
  Directory <- MCDirectory
  GroupDN = {"it"}
  AnonymousAdmin = FALSE
  RefreshLease = 2
  TokenLease = 1
  MaxTTL = 1
  MaxClock = 3
  Scoped <- MCScoped
  Unscoped = {"apikey"}
  IngestTokens = {"k1", "k2"}
  Nodes = {n1, n2}
  NoSecret = NoSecret
  MaxRequests = 3
  Topics = {"accounts", "session", "keys", "signin", "tenant", "boot"}
SYMMETRY Symmetry
CHECK_DEADLOCK FALSE
INVARIANTS  SessionsHold TenantsWhole
PROPERTIES StepsStayHome

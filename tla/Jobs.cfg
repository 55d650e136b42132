SPECIFICATION Spec
CONSTANTS
    Topics = {"clean", "beat", "cache", "section", "rows", "stats"}
    MaxSteps = 2
    Tenants = {"x", "y"}
    Uids = {"a", "b", "c"}
    Backends = {"sqlite", "postgres", "mongo"}
    Jobs = {"timeout", "comments", "orphans", "expired", "audit", "stats", "aggregate"}
    Interval = 1
    Retention = 1
    Batch = 1
    MaxNow = 2
    MaxEdits = 1
    MaxFailures = 1
    Orgs = {"x", "y"}
    Default = "x"
    Beats = {"b1", "b2"}
    Names = {"n"}
    Pings = {p1}
    MaxTime = 4
    MaxPings = 1
    MaxUpsets = 1
    Servers = {"s1", "s2"}
    Customers = {"x"}
    Readers <- MCReaders
    TTL = 1
    Horizon = 2
    MaxSaves = 2
    Writers = {w1, w2}
    Keys = {"k", "l"}
    Watchers = {v1}
    ChannelSize = 1
    Hour = 2
    TopHosts = 1
    FetchCap = 2
    CounterCap = 4
CHECK_DEADLOCK FALSE
INVARIANTS HeartbeatsHold SettingsHold DashboardHolds
PROPERTIES StepsSpareOthers JobsProgress

SPECIFICATION Spec
CHECK_DEADLOCK FALSE
CONSTANTS
    Topics = {"jira", "frames", "relp", "smtp", "collect", "kube", "feed", "client", "teams", "graph"}
    Hashes = {"h1", "h2"}
    Handlers = {r1}
    Batches <- MCBatches
    MessageLimit = 2
    RetryAttempts = 2
    PollMaxResults = 2
    Queries = {"default", "override"}
    Workflow <- MCWorkflow
    InitialStatus = "doing"
    ReopenClosed = TRUE
    ReopenStatusName = "todo"
    PriorityAsString = TRUE
    MaxTickets = 2
    MaxJiraFaults = 2
    MaxEdits = 1
    Payloads <- MCPayloads
    Malformed <- MCMalformed
    MaxFrameLen = 12
    MaxDigits = 2
    MaxToken = 2
    ReadTimeouts = {TRUE, FALSE}
    MaxTxns = 4
    MaxPostFaults = 1
    Senders = {"s1", "s2"}
    AllowedSenders = {"s1"}
    Rcpts = {"r1"}
    Bodies <- MCBodies
    MaxMessageBytes = 11
    AuthRequired = TRUE
    HasTLS = TRUE
    MaxCommands = 8
    MaxMailFaults = 1
    Peers = {"p1", "p2"}
    QueueSize = 1
    MaxArrivals = 3
    MaxCollectFaults = 1
    EventKeys = {"k1", "k2"}
    DedupWindow = 2
    BackoffMax = 2
    IncludeNormal = FALSE
    MaxVersion = 3
    MaxKubeTime = 2
    MaxKubeFaults = 1
    FeedCap = 1
    FeedTenants = {"x", "xy"}
    SlugPrefix <- MCSlugPrefix
    MaxCommits = 2
    MaxBreaks = 1
    Calls = {1, 2}
    MaxRetries = 1
    HasCredentials = TRUE
    MaxLogins = 3
    MaxNetFaults = 2
    Records = {"r1", "r2"}
    Chans = {"home", "other"}
    Home = "home"
    AlertRequests <- MCAlertRequests
    Verbs = {"comment", "snooze", "badsnooze", "help"}
    PageSize = 3
    Listings = {"top", "all"}
    SeenMax = 4
    ThreadMax = 2
    Lookback = 2
    FirstShown = {"r1"}
    MaxAlerts = 1
    MaxChat = 1
    MaxChatFaults = 1
    Callers = {"poller", "listener"}
    DeviceExpiry = 3
    DeviceInterval = 1
    SlowDown = 1
    DevicePollMaxInterval = 2
    MaxTokens = 3
    MaxGraphFaults = 1
INVARIANTS FramesRoundTrip AnsweredWasForwarded SourcesFollowed
PROPERTIES BridgesProgress

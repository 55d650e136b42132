SPECIFICATION DeliverySpec
CONSTANTS
    Consumers = {c1, c2}
    MaxMessages = 2
    BatchSize = 2
    QueueBuffer = 1
    Visibility = 1
    MaxFaults = 1
    Senders = {s1, s2}
    MaxRecords = 4
    Sizes = {1, 2}
    Targets = {"t1"}
    Alerts <- MCAlerts
    InFlight = 2
    MaxFiring = 2
    MaxNotices = 4
    MaxIncidentFaults = 1
INVARIANTS QueueKeepsPromise BatchesHold IncidentsFollow
PROPERTIES DeliveryProgresses

----------------------------- MODULE MCDelivery -----------------------------
(* The ways a notification leaves the pipeline, the queue, the batching      *)
(* notifiers and the ones that keep incidents, in one process that uses one  *)
(* of them: the others are closed or stopped from the start.                 *)
EXTENDS MessageQueue, BatchBuckets, Incidents

\* One record with a hash and two without, of which the latter has the name of
\* the former.
MCAlerts == {[hash |-> "h", uid |-> "u1", names |-> {"n"}],
             [hash |-> "", uid |-> "u2", names |-> {"n"}],
             [hash |-> "", uid |-> "u3", names |-> {"m"}]}

NoQueue ==
    /\ kind = "inproc"
    /\ rows = <<>> /\ chan = <<>> /\ done = {} /\ faults = 0
    /\ batch = [c \in Consumers |-> <<>>]
    /\ held = [c \in Consumers |-> 0]
    /\ pc = [c \in Consumers |-> "exited"]
    /\ left = [c \in Consumers |-> 0]
    /\ ctx = [c \in Consumers |-> "cancelled"]
    /\ closed = TRUE

NoBatches ==
    /\ plugin = "mail" /\ maxsize = CHOOSE n \in Sizes : TRUE
    /\ bucket = <<>> /\ timer = "off" /\ fired = 0
    /\ stage = [s \in Senders |-> "idle"]
    /\ request = [s \in Senders |-> Nothing]
    /\ flights = {} /\ next = 1 /\ outcome = {} /\ running = FALSE

NoIncidents ==
    /\ service = "none" /\ configured = FALSE /\ incidents = <<>> /\ sends = <<>>
    /\ overlapped = {} /\ ifaults = 0

DeliveryInit ==
    \/ Init /\ NoBatches /\ NoIncidents
    \/ NoQueue /\ BatchInit /\ NoIncidents
    \/ NoQueue /\ NoBatches /\ IncidentsInit

DeliveryNext ==
    \/ Next /\ UNCHANGED <<batchVars, incidentVars>>
    \/ BatchNext /\ UNCHANGED <<vars, incidentVars>>
    \/ service # "none" /\ IncidentsNext /\ UNCHANGED <<vars, batchVars>>

DeliverySpec ==
    /\ DeliveryInit /\ [][DeliveryNext]_<<vars, batchVars, incidentVars>>
    /\ Fairness /\ BatchFairness

\* A published message is handled in the end, a batched record is attempted in
\* the end, and Close returns (mq, batch.go).
DeliveryProgresses == EventuallyDelivered /\ CloseReturns /\ EventuallyAttempted
=============================================================================

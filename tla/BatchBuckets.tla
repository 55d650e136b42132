---------------------------- MODULE BatchBuckets ----------------------------
(***************************************************************************)
(* The batching notifiers: webhook, mail and script (plugin.go, batch.go). *)
(* An action with batch: true collects the rendered records of one action  *)
(* in a bucket, which is flushed when it is full or when its timer fires.  *)
(* Sends come from the detached goroutines of the notification plugin, so  *)
(* several run at once; the bucket is guarded by a mutex, the delivery     *)
(* happens outside it.                                                     *)
(*                                                                         *)
(* One action, hence one bucket.  A record is [id, target]: its target is  *)
(* the URL (webhook) or argv (script) rendered for it.                     *)
(***************************************************************************)
EXTENDS Integers, Sequences, FiniteSets

CONSTANTS Senders,      \* goroutines that call Send
          MaxRecords,   \* bound: records sent
          Sizes,        \* values of batch_maxsize
          Targets       \* rendered URLs or command lines

VARIABLES
    plugin,    \* "webhook", "mail" or "script"
    maxsize,   \* batch_maxsize of the action; 1 or less turns batching off
    bucket,    \* records of the bucket; empty: there is no bucket
    timer,     \* "off" or "armed": the timer of the bucket
    fired,     \* timer goroutines that have not taken the mutex yet
    stage,     \* sender -> "idle", "flush" or "deliver"
    request,   \* sender -> what it is delivering
    flights,   \* deliveries of timer goroutines
    next,      \* number of the next record
    outcome,   \* set of [id, target, to, ok]: the finished deliveries
    running    \* the server has not exited

batchVars == <<plugin, maxsize, bucket, timer, fired, stage, request, flights, next,
               outcome, running>>

ASSUME BatchAssumption ==
    MaxRecords \in Nat /\ Sizes \subseteq Int /\ Targets # {} /\ IsFiniteSet(Senders)

Record == [id : 1..MaxRecords, target : Targets]
Request == [records : Seq(Record), to : Targets \cup {"none"}]
Nothing == [records |-> <<>>, to |-> "none"]

BatchTypeOK ==
    /\ plugin \in {"webhook", "mail", "script"}
    /\ maxsize \in Sizes
    /\ bucket \in Seq(Record)
    /\ timer \in {"off", "armed"}
    /\ fired \in Nat
    /\ stage \in [Senders -> {"idle", "flush", "deliver"}]
    /\ request \in [Senders -> Request]
    /\ \A f \in flights : f \in Request
    /\ next \in 1..(MaxRecords + 1)
    /\ outcome \subseteq [id : 1..MaxRecords, target : Targets,
                          to : Targets, ok : BOOLEAN]
    /\ running \in BOOLEAN

BatchInit ==
    /\ plugin \in {"webhook", "mail", "script"}
    /\ maxsize \in Sizes
    /\ bucket = <<>> /\ timer = "off" /\ fired = 0
    /\ stage = [s \in Senders |-> "idle"]
    /\ request = [s \in Senders |-> Nothing]
    /\ flights = {} /\ next = 1 /\ outcome = {} /\ running = TRUE

-----------------------------------------------------------------------------
\* A degenerate configuration falls back to immediate dispatch.
Batching == maxsize > 1

\* The recipients of a mail action, the same for every record.
Recipients == CHOOSE t \in Targets : TRUE

\* webhook: the bodies joined to one JSON array.  The bucket key is the action
\* with the URL template, before it is rendered: records of every target share
\* the bucket, and the array is posted to the URL of the first one.
WebhookBatch(q) == [records |-> q, to |-> q[1].target]

\* mail: one message, the bodies joined, to the recipients of the action.
MailBatch(q) == [records |-> q, to |-> Recipients]

\* script: one run with the argv, cwd and env of the first record, the stdins
\* joined.
ScriptBatch(q) == [records |-> q, to |-> q[1].target]

Batched(q) ==
    CASE plugin = "webhook" -> WebhookBatch(q)
      [] plugin = "mail"    -> MailBatch(q)
      [] plugin = "script"  -> ScriptBatch(q)

\* Mutant of QueueForBatch: the size is compared before the append.
QueueForBatchLate(s, r) ==
    /\ bucket' = Append(bucket, r)
    /\ timer' = IF bucket = <<>> THEN "armed" ELSE timer
    /\ stage' = [stage EXCEPT ![s] = IF Len(bucket) > maxsize THEN "flush" ELSE "idle"]
    /\ UNCHANGED request

\* Under the mutex: append, and arm the timer of a new bucket.  The sender
\* that sees the bucket full flushes it after it released the mutex.
QueueForBatch(s, r) ==
    /\ bucket' = Append(bucket, r)
    /\ timer' = IF bucket = <<>> THEN "armed" ELSE timer
    /\ stage' = [stage EXCEPT ![s] = IF Len(bucket) + 1 >= maxsize THEN "flush"
                                                              ELSE "idle"]
    /\ UNCHANGED request

Immediate(s, r) ==
    /\ request' = [request EXCEPT ![s] = [records |-> <<r>>, to |-> r.target]]
    /\ stage' = [stage EXCEPT ![s] = "deliver"]
    /\ UNCHANGED <<bucket, timer>>

Arrives(s) ==
    /\ stage[s] = "idle" /\ running /\ next <= MaxRecords
    /\ next' = next + 1
    /\ UNCHANGED <<plugin, maxsize, fired, flights, outcome, running>>

\* webhook: a body that is not JSON and inject_response take the direct path.
WebhookSend(s, target, direct) ==
    /\ plugin = "webhook" /\ Arrives(s)
    /\ LET r == [id |-> next, target |-> target]
       IN  IF Batching /\ ~direct THEN QueueForBatch(s, r) ELSE Immediate(s, r)

\* mail: the recipients come from the action and are never rendered.
MailSend(s) ==
    /\ plugin = "mail" /\ Arrives(s)
    /\ LET r == [id |-> next, target |-> Recipients]
       IN  IF Batching THEN QueueForBatch(s, r) ELSE Immediate(s, r)

ScriptSend(s, target) ==
    /\ plugin = "script" /\ Arrives(s)
    /\ LET r == [id |-> next, target |-> target]
       IN  IF Batching THEN QueueForBatch(s, r) ELSE Immediate(s, r)

\* flushBucket of the sender that filled the bucket.  Somebody else may have
\* flushed it before, or a new bucket may have been opened since.
FlushSize(s) ==
    /\ stage[s] = "flush" /\ running
    /\ IF bucket = <<>>
       THEN stage' = [stage EXCEPT ![s] = "idle"] /\ UNCHANGED request
       ELSE /\ request' = [request EXCEPT ![s] = Batched(bucket)]
            /\ stage' = [stage EXCEPT ![s] = "deliver"]
    /\ bucket' = <<>> /\ timer' = "off"
    /\ UNCHANGED <<plugin, maxsize, fired, flights, next, outcome, running>>

\* Mutant of TimerFires: the timer of a bucket is set once in the process.
TimerFiresOnce ==
    /\ timer = "armed" /\ running /\ outcome = {}
    /\ timer' = "off" /\ fired' = fired + 1
    /\ UNCHANGED <<plugin, maxsize, bucket, stage, request, flights, next, outcome,
                   running>>

\* The timer expires: its goroutine exists, and Stop comes too late for it.
TimerFires ==
    /\ timer = "armed" /\ running
    /\ timer' = "off" /\ fired' = fired + 1
    /\ UNCHANGED <<plugin, maxsize, bucket, stage, request, flights, next, outcome,
                   running>>

\* Mutant of FlushTimer: the bucket is sent and stays in the map.
FlushTimerKeeping ==
    /\ fired > 0 /\ running
    /\ fired' = fired - 1
    /\ flights' = IF bucket = <<>> THEN flights ELSE flights \cup {Batched(bucket)}
    /\ timer' = "off"
    /\ UNCHANGED <<plugin, maxsize, bucket, stage, request, next, outcome, running>>

\* flushBucket of a timer goroutine.
FlushTimer ==
    /\ fired > 0 /\ running
    /\ fired' = fired - 1
    /\ flights' = IF bucket = <<>> THEN flights ELSE flights \cup {Batched(bucket)}
    /\ bucket' = <<>> /\ timer' = "off"
    /\ UNCHANGED <<plugin, maxsize, stage, request, next, outcome, running>>

-----------------------------------------------------------------------------
(* Delivery.  Its errors are logged and never retried. *)

\* Mutant of Reported: the request is cleared before it is reported.
ReportedTooLate(q, ok) ==
    outcome \cup {[id |-> q.records[i].id, target |-> q.records[i].target,
                   to |-> Nothing.to, ok |-> ok] : i \in DOMAIN q.records}

Reported(q, ok) ==
    outcome \cup {[id |-> q.records[i].id, target |-> q.records[i].target,
                   to |-> q.to, ok |-> ok] : i \in DOMAIN q.records}

\* The request q ends, whoever runs it.
Finished(q, ok) ==
    /\ running
    /\ \/ \E s \in Senders :
            /\ stage[s] = "deliver" /\ request[s] = q
            /\ stage' = [stage EXCEPT ![s] = "idle"]
            /\ request' = [request EXCEPT ![s] = Nothing]
            /\ UNCHANGED flights
       \/ q \in flights /\ flights' = flights \ {q} /\ UNCHANGED <<stage, request>>
    /\ outcome' = Reported(q, ok)
    /\ UNCHANGED <<plugin, maxsize, bucket, timer, fired, next, running>>

Requests == flights \cup {request[s] : s \in {t \in Senders : stage[t] = "deliver"}}

\* One HTTP request under the action's timeout: 2xx, or an error.
WebhookDeliver(ok) == plugin = "webhook" /\ \E q \in Requests : Finished(q, ok)

\* One SMTP session under the action's timeout; one refused recipient fails
\* the message for all of them.
MailDeliver(ok) == plugin = "mail" /\ \E q \in Requests : Finished(q, ok)

\* One child process, killed at the action's timeout.
RunCommand(ok) == plugin = "script" /\ \E q \in Requests : Finished(q, ok)

\* The server exits: Stop of the plugins, which would flush the buckets, is
\* not called by anything that shuts the server down.
Exit ==
    /\ running
    /\ running' = FALSE
    /\ UNCHANGED <<plugin, maxsize, bucket, timer, fired, stage, request, flights,
                   next, outcome>>

Exited == ~running /\ UNCHANGED batchVars

-----------------------------------------------------------------------------
Deliver == \E ok \in BOOLEAN : WebhookDeliver(ok) \/ MailDeliver(ok) \/ RunCommand(ok)

Send(s) ==
    \/ \E target \in Targets, direct \in BOOLEAN : WebhookSend(s, target, direct)
    \/ MailSend(s)
    \/ \E target \in Targets : ScriptSend(s, target)

BatchNext ==
    \/ \E s \in Senders : Send(s) \/ FlushSize(s)
    \/ TimerFires \/ FlushTimer \/ Deliver
    \/ Exit \/ Exited

\* Timers fire, goroutines run and every request ends at its timeout.
BatchFairness ==
    /\ \A s \in Senders : WF_batchVars(FlushSize(s))
    /\ WF_batchVars(TimerFires) /\ WF_batchVars(FlushTimer)
    /\ \A n \in 1..MaxRecords :
        WF_batchVars(\E q \in Requests, ok \in BOOLEAN :
                    (\E i \in DOMAIN q.records : q.records[i].id = n) /\ Finished(q, ok))

BatchSpec == BatchInit /\ [][BatchNext]_batchVars /\ BatchFairness

-----------------------------------------------------------------------------
(* Properties. *)

Ids(q) == {q[i].id : i \in DOMAIN q}

\* Places where record n is: bucket, deliveries under way, deliveries done.
Places(n) ==
    {<<"bucket", i>> : i \in {k \in DOMAIN bucket : bucket[k].id = n}}
    \cup {<<"sender", s>> : s \in {t \in Senders : n \in Ids(request[t].records)}}
    \cup {<<"timer", f>> : f \in {g \in flights : n \in Ids(g.records)}}
    \cup {<<"done", o>> : o \in {p \in outcome : p.id = n}}

\* Size trigger, timer and a stale timer race for the same bucket, and still
\* every record that was sent is in exactly one place: none is delivered
\* twice, none is dropped between two flushes (queueForBatch, flushBucket).
OnePlace == \A n \in 1..(next - 1) : Cardinality(Places(n)) = 1

\* A bucket grows past batch_maxsize only by the senders that append between
\* the append that filled it and its flush, and without batching none is used.
BucketBound ==
    IF Batching THEN Len(bucket) <= maxsize + Cardinality(Senders) - 1 ELSE bucket = <<>>

\* A record given to a batching notifier is in one place, in a bucket that
\* outgrows its size only while it is being taken (webhook, mail batch.go).
BatchesHold == BatchTypeOK /\ OnePlace /\ BucketBound

\* No record waits for ever: it is delivered, or its delivery fails, unless
\* the server exits.
EventuallyAttempted ==
    \A n \in 1..MaxRecords :
        (next > n) ~> (~running \/ \E o \in outcome : o.id = n)

\* "Stop flushes every pending bucket before returning. Called by the runtime
\* on graceful shutdown" (batch.go of the three plugins).
ShutdownFlushes == ~running => bucket = <<>>

\* "accumulate rendered bodies in per-(URL, action) buckets" (webhook Plugin):
\* a body is posted to the URL rendered for its own record.
OwnTarget == plugin = "webhook" => \A o \in outcome : o.to = o.target
=============================================================================

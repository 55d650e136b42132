---------------------------- MODULE MessageQueue ----------------------------
(***************************************************************************)
(* The notification queue of internal/mq and its three backends: a channel *)
(* inside the process (inproc.go), a PostgreSQL table with LISTEN/NOTIFY   *)
(* (pg.go) and a MongoDB collection with a change stream (mongo.go).       *)
(*                                                                         *)
(* One queue, one Subscribe with Concurrency = Cardinality(Consumers).     *)
(* kind, the backend, is chosen in Init.  Messages are numbered in the     *)
(* order of created_at.  Time is kept as the age of each lock, capped at   *)
(* Expired, so that the state space is finite and time never stops.        *)
(***************************************************************************)
EXTENDS Naturals, Sequences, FiniteSets

CONSTANTS Consumers,    \* worker goroutines of every process on the queue
          MaxMessages,  \* bound: messages published
          BatchSize,    \* SubscribeOpts.BatchSize
          QueueBuffer,  \* capacity of the inproc channel
          Visibility,   \* VisibilityTimeout, in ticks
          MaxFaults     \* bound: errors of a handler or the database, crashes

ASSUME QueueAssumption ==
    /\ BatchSize \in Nat \ {0}
    /\ QueueBuffer \in Nat \ {0}
    /\ {MaxMessages, Visibility, MaxFaults} \subseteq Nat

VARIABLES
    kind,      \* "inproc", "pg" or "mongo"
    rows,      \* the messages, in the order of created_at
    chan,      \* the inproc channel
    batch,     \* consumer -> the messages it claimed and has not finished
    held,      \* consumer -> the age of its claim
    pc,        \* consumer -> "claim", "drain", "handle", "ack" or "exited"
    left,      \* consumer -> claims left in this drain (mongo)
    ctx,       \* consumer -> "parent", "live" or "cancelled"
    closed,    \* Close was called
    faults,    \* faults so far
    done       \* messages a handler accepted (inproc: was given), observed

vars == <<kind, rows, chan, batch, held, pc, left, ctx, closed, faults,
          done>>
local == <<batch, held, pc, left, ctx>>

Kinds == {"inproc", "pg", "mongo"}
Messages == 1..MaxMessages
Free == 0                       \* locked_at IS NULL
Expired == Visibility + 2       \* locked_at < now() - VisibilityTimeout
Row == [lock : 0..Expired, state : {"sending", "queued", "refused", "acked"}]

TypeOK ==
    /\ kind \in Kinds
    /\ rows \in Seq(Row) /\ Len(rows) <= MaxMessages
    /\ chan \in Seq(Messages)
    /\ batch \in [Consumers -> Seq(Messages)]
    /\ held \in [Consumers -> 0..Expired]
    /\ pc \in [Consumers -> {"claim", "drain", "handle", "ack", "exited"}]
    /\ left \in [Consumers -> 0..BatchSize]
    /\ ctx \in [Consumers -> {"parent", "live", "cancelled"}]
    /\ closed \in BOOLEAN
    /\ faults \in 0..MaxFaults
    /\ done \subseteq Messages

-----------------------------------------------------------------------------
\* Mutant of Visible: locks are not looked at.
VisibleThoughLocked == {m \in DOMAIN rows : rows[m].state = "queued"}

\* Mutant of Visible: an expired lock is never given up.
VisibleWhenFree == {m \in DOMAIN rows : rows[m].state = "queued" /\ rows[m].lock = Free}

\* A message is claimable while it is not acknowledged and its lock is either
\* not taken or older than the visibility timeout.
Visible == {m \in DOMAIN rows : /\ rows[m].state = "queued"
                                /\ rows[m].lock \in {Free, Expired}}

\* The first n members of S, in the order of created_at: there is one such
\* sequence.
Oldest(S, n) ==
    LET front == {m \in S : Cardinality({k \in S : k < m}) < n}
    IN  {q \in [1..Cardinality(front) -> front] :
            \A i, j \in DOMAIN q : i < j => q[i] < q[j]}

\* The initial drain of a mongo consumer runs under the caller's context,
\* which Close does not cancel.
FirstCtx == IF kind = "mongo" THEN "parent" ELSE "live"

Init ==
    /\ kind \in Kinds
    /\ rows = <<>> /\ chan = <<>>
    /\ batch = [c \in Consumers |-> <<>>]
    /\ held = [c \in Consumers |-> 0]
    /\ pc = [c \in Consumers |-> "claim"]
    /\ left = [c \in Consumers |-> BatchSize]
    /\ ctx = [c \in Consumers |-> FirstCtx]
    /\ closed = FALSE /\ faults = 0
    /\ done = {}

Store(state) ==
    /\ Len(rows) < MaxMessages /\ ~closed
    /\ rows' = Append(rows, [lock |-> Free, state |-> state])
    /\ UNCHANGED <<kind, chan, local, closed, faults, done>>

Fault == faults < MaxFaults /\ faults' = faults + 1

-----------------------------------------------------------------------------
(* Publish. *)

\* inproc: closed is tested and the channel taken under the mutex, the send
\* comes after the mutex was released.
InprocPublish == kind = "inproc" /\ Store("sending")

\* inproc: the send never blocks; a full channel refuses the message.  Close
\* leaves the channel open, so a late send succeeds and nobody receives it.
InprocSend(m) ==
    /\ m \in DOMAIN rows /\ rows[m].state = "sending"
    /\ IF Len(chan) < QueueBuffer
       THEN /\ chan' = Append(chan, m)
            /\ rows' = [rows EXCEPT ![m].state = "queued"]
       ELSE /\ rows' = [rows EXCEPT ![m].state = "refused"]
            /\ UNCHANGED chan
    /\ UNCHANGED <<kind, local, closed, faults, done>>

\* pg: the insert and the notification commit together.
PgPublish == kind = "pg" /\ Store("queued")

\* mongo: one insert, which the change stream reports.
MongoPublish == kind = "mongo" /\ Store("queued")

-----------------------------------------------------------------------------
(* Claims. *)

\* inproc: a worker receives one message and then drains what is there.
InprocReceive(c) ==
    /\ kind = "inproc" /\ pc[c] \in {"claim", "drain"}
    /\ chan # <<>> /\ Len(batch[c]) < BatchSize
    /\ chan' = Tail(chan)
    /\ batch' = [batch EXCEPT ![c] = Append(@, Head(chan))]
    /\ pc' = [pc EXCEPT ![c] = "drain"]
    /\ UNCHANGED <<kind, rows, held, left, ctx, closed, faults, done>>

\* inproc: the drain ends at BatchSize or at an empty channel.
InprocDispatch(c) ==
    /\ pc[c] = "drain"
    /\ chan = <<>> \/ Len(batch[c]) = BatchSize
    /\ pc' = [pc EXCEPT ![c] = "handle"]
    /\ UNCHANGED <<kind, rows, chan, batch, held, left, ctx, closed, faults,
                   done>>

\* Lock the messages q for c: locked_at = now, in the step that selects them.
Claim(c, q) ==
    /\ pc[c] = "claim" /\ ctx[c] # "cancelled" /\ q # <<>>
    /\ rows' = [m \in DOMAIN rows |->
                  IF \E i \in DOMAIN q : q[i] = m
                  THEN [rows[m] EXCEPT !.lock = 1] ELSE rows[m]]
    /\ batch' = [batch EXCEPT ![c] = q]
    /\ held' = [held EXCEPT ![c] = 1]
    /\ pc' = [pc EXCEPT ![c] = "handle"]
    /\ UNCHANGED <<kind, chan, ctx, closed, faults, done>>

\* pg: one transaction, SELECT ... FOR UPDATE SKIP LOCKED LIMIT BatchSize and
\* the update of the rows it returned.
PgClaim(c) ==
    /\ kind = "pg"
    /\ \E q \in Oldest(Visible, BatchSize) : Claim(c, q)
    /\ UNCHANGED left

\* mongo: drain claims one message at a time with findOneAndUpdate.
MongoClaim(c) ==
    /\ kind = "mongo" /\ left[c] > 0
    /\ \E q \in Oldest(Visible, 1) : Claim(c, q)
    /\ left' = [left EXCEPT ![c] = @ - 1]

\* Mutant of MongoDrained: a drain does not end at an empty queue.
MongoDrainedWhenFull(c) ==
    /\ kind = "mongo" /\ pc[c] = "claim" /\ left[c] = 0
    /\ left' = [left EXCEPT ![c] = 2 * BatchSize]
    /\ UNCHANGED <<kind, rows, chan, batch, held, pc, ctx, closed, faults, done>>

\* mongo: a drain ends when nothing is visible or after BatchSize claims; the
\* consumer goes on under a context that Close cancels.
MongoDrained(c) ==
    /\ kind = "mongo" /\ pc[c] = "claim"
    /\ left[c] = 0 \/ Visible = {}
    /\ ctx[c] = "parent" \/ left[c] < BatchSize
    /\ left' = [left EXCEPT ![c] = BatchSize]
    /\ ctx' = [ctx EXCEPT ![c] = IF @ = "parent" THEN "live" ELSE @]
    /\ UNCHANGED <<kind, rows, chan, batch, held, pc, closed, faults, done>>

-----------------------------------------------------------------------------
(* The handler and the acknowledgement. *)

\* The next message of the batch, or the next claim after the last one.
Advance(c) ==
    /\ batch' = [batch EXCEPT ![c] = Tail(@)]
    /\ pc' = [pc EXCEPT ![c] = IF Len(batch[c]) = 1 THEN "claim" ELSE "handle"]
    /\ held' = [held EXCEPT ![c] = IF Len(batch[c]) = 1 THEN 0 ELSE @]

\* The handler returns nil: a table row is then acknowledged, a message from
\* the channel is just finished with.
HandlerOk(c) ==
    /\ pc[c] = "handle"
    /\ done' = done \cup {Head(batch[c])}
    /\ IF kind = "inproc"
       THEN Advance(c)
       ELSE pc' = [pc EXCEPT ![c] = "ack"] /\ UNCHANGED <<batch, held>>
    /\ UNCHANGED <<kind, rows, chan, left, ctx, closed, faults>>

\* Mutant of HandlerFails: the error is dropped and the row acknowledged.
HandlerFailsUnseen(c) ==
    /\ pc[c] = "handle" /\ kind # "inproc"
    /\ pc' = [pc EXCEPT ![c] = "ack"]
    /\ UNCHANGED <<kind, rows, chan, batch, held, left, ctx, closed, faults, done>>

\* The handler returns an error: the row stays locked until the visibility
\* timeout, a message from the channel is dropped.
HandlerFails(c) ==
    /\ pc[c] = "handle"
    /\ done' = IF kind = "inproc" THEN done \cup {Head(batch[c])} ELSE done
    /\ Advance(c)
    /\ Fault \/ (ctx[c] = "cancelled" /\ UNCHANGED faults)
    /\ UNCHANGED <<kind, rows, chan, left, ctx, closed>>

\* ack_at is set by id alone: whoever holds the lock by now.
Ack(c) ==
    /\ pc[c] = "ack" /\ ctx[c] # "cancelled"
    /\ rows' = [rows EXCEPT ![Head(batch[c])].state = "acked"]
    /\ Advance(c)
    /\ UNCHANGED <<kind, chan, left, ctx, closed, faults, done>>

\* A failed acknowledgement is ignored; it always fails once ctx is cancelled.
AckFails(c) ==
    /\ pc[c] = "ack"
    /\ Fault \/ (ctx[c] = "cancelled" /\ UNCHANGED faults)
    /\ Advance(c)
    /\ UNCHANGED <<kind, rows, chan, left, ctx, closed, done>>

-----------------------------------------------------------------------------
(* Failures, time and Close. *)

\* A lost connection ends the claim; the consumer loop backs off and starts
\* again.  A crash between claim and acknowledgement does the same, and what
\* the consumer held stays locked.
Restart(c) ==
    /\ kind # "inproc" /\ pc[c] # "exited" /\ ~closed
    /\ Fault
    /\ batch' = [batch EXCEPT ![c] = <<>>]
    /\ held' = [held EXCEPT ![c] = 0]
    /\ pc' = [pc EXCEPT ![c] = "claim"]
    /\ left' = [left EXCEPT ![c] = BatchSize]
    /\ ctx' = [ctx EXCEPT ![c] = FirstCtx]
    /\ UNCHANGED <<kind, rows, chan, closed, done>>

Older(age) == IF age \in 1..(Expired - 1) THEN age + 1 ELSE age

\* Time passes, also while a handler runs.
Tick ==
    /\ \E m \in DOMAIN rows : rows[m].lock \in 1..(Expired - 1)
    /\ rows' = [m \in DOMAIN rows |-> [rows[m] EXCEPT !.lock = Older(@)]]
    /\ held' = [c \in Consumers |-> Older(held[c])]
    /\ UNCHANGED <<kind, chan, batch, pc, left, ctx, closed, faults, done>>

\* Close closes closeCh (inproc: cancels the root context) and waits.
Close ==
    /\ ~closed
    /\ closed' = TRUE
    /\ UNCHANGED <<kind, rows, chan, local, faults, done>>

\* Mutant of CancelCtx: a consumer's context does not follow Close.
CancelCtxOfPgOnly(c) ==
    /\ closed /\ ctx[c] = "live" /\ kind = "pg"
    /\ ctx' = [ctx EXCEPT ![c] = "cancelled"]
    /\ UNCHANGED <<kind, rows, chan, batch, held, pc, left, closed, faults, done>>

\* The goroutine beside each consumer carries Close over to its context.
CancelCtx(c) ==
    /\ closed /\ ctx[c] = "live"
    /\ ctx' = [ctx EXCEPT ![c] = "cancelled"]
    /\ UNCHANGED <<kind, rows, chan, batch, held, pc, left, closed, faults,
                   done>>

\* A consumer returns where it would wait or claim, never inside a batch.
ConsumerExits(c) ==
    /\ pc[c] = "claim" /\ ctx[c] = "cancelled"
    /\ pc' = [pc EXCEPT ![c] = "exited"]
    /\ UNCHANGED <<kind, rows, chan, batch, held, left, ctx, closed, faults,
                   done>>

-----------------------------------------------------------------------------
Work(c) ==
    \/ InprocReceive(c) \/ InprocDispatch(c)
    \/ PgClaim(c) \/ MongoClaim(c) \/ MongoDrained(c)
    \/ HandlerOk(c) \/ HandlerFails(c) \/ Ack(c) \/ AckFails(c)
    \/ CancelCtx(c) \/ ConsumerExits(c)

\* Close has returned; nothing is left that could move.
Stopped ==
    /\ \A c \in Consumers : pc[c] = "exited"
    /\ UNCHANGED vars

Next ==
    \/ Stopped
    \/ InprocPublish \/ PgPublish \/ MongoPublish
    \/ \E m \in Messages : InprocSend(m)
    \/ \E c \in Consumers : Work(c) \/ Restart(c)
    \/ Tick \/ Close

\* Goroutines run, and time passes.
Fairness ==
    /\ WF_vars(Tick)
    /\ \A m \in Messages : WF_vars(InprocSend(m))
    /\ \A c \in Consumers : WF_vars(Work(c))

Spec == Init /\ [][Next]_vars /\ Fairness

-----------------------------------------------------------------------------
(* Properties. *)

StateOf(m) == IF m \in DOMAIN rows THEN rows[m].state ELSE "none"
Holds(c, m) == \E i \in DOMAIN batch[c] : batch[c][i] = m

\* A row is acknowledged only after some handler returned nil for it, whatever
\* the timeouts, crashes and redeliveries before (claimAndProcess, drain).
AckedWasHandled ==
    \A m \in DOMAIN rows : rows[m].state = "acked" => m \in done

\* Of all the consumers that work on one message at most one has a claim
\* younger than the visibility timeout: a message is given out twice only
\* when the earlier holder overran it (claim queries of pg.go and mongo.go).
OneLiveHolder ==
    \A c, d \in Consumers : \A m \in DOMAIN rows :
        c # d /\ Holds(c, m) /\ Holds(d, m) =>
            kind # "inproc" /\ Expired \in {held[c], held[d]}

\* The channel delivers at most once: no message reaches a handler twice, and
\* one that a worker holds is not in the channel any more (runWorker).
InprocAtMostOnce ==
    kind = "inproc" =>
        \A m \in done \cup UNION {{batch[c][i] : i \in DOMAIN batch[c]} : c \in Consumers} :
            /\ \A i \in DOMAIN chan : chan[i] # m
            /\ m \in done => \A c \in Consumers : ~Holds(c, m)

\* What the queue promises: an acknowledged message was handled, a message has
\* one live holder, and the in-process queue delivers at most once (mq).
QueueKeepsPromise == TypeOK /\ AckedWasHandled /\ OneLiveHolder /\ InprocAtMostOnce

\* At least once: a stored message is acknowledged in the end, or the bus is
\* closed; the channel gives every accepted message to a handler.
EventuallyDelivered ==
    \A m \in Messages :
        StateOf(m) = "queued" ~>
            \/ closed
            \/ IF kind = "inproc" THEN m \in done ELSE StateOf(m) = "acked"

\* Close comes back: every consumer leaves its loop (Close waits for them).
CloseReturns == closed ~> \A c \in Consumers : pc[c] = "exited"
=============================================================================

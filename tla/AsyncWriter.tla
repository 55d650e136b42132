---------------------------- MODULE AsyncWriter ----------------------------
(***************************************************************************)
(* internal/db/asyncwriter: the process-wide batcher of counter increments *)
(* together with the supervisor job (internal/core/supervisor.go) that     *)
(* runs it and the shutdown that ends it.                                  *)
(*                                                                         *)
(* Producers (pipeline goroutines) call Increment, which sends on the      *)
(* bounded channel `requests'.  The Run loop merges requests into          *)
(* `buckets' and, when its timer fires, swaps the buckets out and sends    *)
(* one BulkIncrement per (collection, tenant).  A failing BulkIncrement    *)
(* makes Run return, and the supervisor restarts it after a back-off.      *)
(*                                                                         *)
(* Every caller in the repository passes a delta of 1 (queueIncrement and  *)
(* RecordStat), so a counter is the number of unit requests for it.        *)
(* accept() only adds, so the order of the channel is immaterial and the   *)
(* channel is the number of requests it holds for every counter.           *)
(***************************************************************************)
EXTENDS Integers, FiniteSets, Functions

CONSTANTS
  Producers,    \* goroutines that call Increment
  Colls,        \* collections ("record", "stats")
  Tenants,      \* tenant slugs baked into the search documents
  Searches,     \* search documents within a collection
  Cap,          \* capacity of the requests channel (1024 in New)
  Period,       \* flush period, in clock ticks
  Tries,        \* BackoffPolicy.Tries of the supervisor
  MaxCalls,     \* bound: calls of Increment in a behaviour
  MaxFaults,    \* bound: BulkIncrement calls that fail
  Idle          \* a producer that is not inside Increment

Counters == Colls \X Tenants \X Searches

ASSUME CapAssumption     == Cap \in Nat \ {0}
ASSUME PeriodAssumption  == Period \in Nat \ {0}
ASSUME BoundsAssumption  == Tries \in Nat /\ MaxCalls \in Nat /\ MaxFaults \in Nat
ASSUME IdleAssumption    == Idle \notin Counters

VARIABLES
  calling,    \* producer -> the counter it is incrementing, or Idle
  requests,   \* the channel: queued requests per counter
  buckets,    \* merged deltas waiting for the next flush
  batch,      \* `pending' of flush: the deltas being sent
  loop,       \* where the Run goroutine is
  closing,    \* the closing channel is closed
  ctxDone,    \* the root context is cancelled
  failures,   \* failures of the job inside the supervisor's window
  faults,     \* BulkIncrement calls that failed so far
  timer,      \* ticks since the current select was entered
  db,         \* the stored counters
  sent,       \* history: requests the channel has taken
  early,      \* history: those it took before closing was closed
  lost,       \* history: deltas of a batch whose flush failed
  calls       \* history: calls of Increment

chanVars == <<calling, requests, sent, early, calls>>
jobVars  == <<loop, closing, ctxDone, failures, faults>>
vars     == <<chanVars, buckets, batch, jobVars, timer, db, lost>>

Zero     == [c \in Counters |-> 0]
Plus(f, g) == [c \in Counters |-> f[c] + g[c]]
Unit(c)  == [d \in Counters |-> IF d = c THEN 1 ELSE 0]

\* len(w.requests)
ChanLen  == SumFunction(requests)

Loops == {"select", "flush", "drain", "final", "backoff", "stopped"}

TypeOK ==
  /\ calling \in [Producers -> Counters \cup {Idle}]
  /\ requests \in [Counters -> Nat]
  /\ buckets \in [Counters -> Nat]
  /\ batch \in [Counters -> Nat]
  /\ loop \in Loops
  /\ closing \in BOOLEAN
  /\ ctxDone \in BOOLEAN
  /\ failures \in Nat
  /\ faults \in Nat
  /\ timer \in 0 .. Period
  /\ db \in [Counters -> Nat]
  /\ sent \in [Counters -> Nat]
  /\ early \in [Counters -> Nat]
  /\ lost \in [Counters -> Nat]
  /\ calls \in Nat

Init ==
  /\ calling = [p \in Producers |-> Idle]
  /\ requests = Zero /\ buckets = Zero /\ batch = Zero
  /\ loop = "select" /\ closing = FALSE /\ ctxDone = FALSE
  /\ failures = 0 /\ faults = 0
  /\ timer = 0
  /\ db = Zero /\ sent = Zero /\ early = Zero /\ lost = Zero
  /\ calls = 0

-----------------------------------------------------------------------------
(* Increment: a select between the closed closing channel and the send.    *)

CallIncrement(p, c) ==
  /\ calling[p] = Idle
  /\ calls < MaxCalls
  /\ calling' = [calling EXCEPT ![p] = c]
  /\ calls' = calls + 1
  /\ UNCHANGED <<requests, sent, early, buckets, batch, jobVars, timer, db, lost>>

\* The send case.  When closing is closed as well Go picks either case.
SendRequest(p) ==
  /\ calling[p] # Idle
  /\ ChanLen < Cap
  /\ LET one == Unit(calling[p]) IN
     /\ requests' = Plus(requests, one)
     /\ sent' = Plus(sent, one)
     /\ early' = IF closing THEN early ELSE Plus(early, one)
  /\ calling' = [calling EXCEPT ![p] = Idle]
  /\ UNCHANGED <<calls, buckets, batch, jobVars, timer, db, lost>>

\* The <-w.closing case: the increment is dropped.
ReturnClosing(p) ==
  /\ calling[p] # Idle
  /\ closing
  /\ calling' = [calling EXCEPT ![p] = Idle]
  /\ UNCHANGED <<requests, sent, early, calls, buckets, batch, jobVars, timer, db, lost>>

-----------------------------------------------------------------------------
(* The Run loop.                                                           *)

\* accept: merge one request into its bucket.  In the select each pass makes
\* a new timer (w.clock.After is evaluated again), so accepting resets it.
Accept(c) ==
  /\ loop \in {"select", "drain"}
  /\ requests[c] > 0
  /\ requests' = [requests EXCEPT ![c] = @ - 1]
  /\ buckets' = [buckets EXCEPT ![c] = @ + 1]
  /\ timer' = 0
  /\ UNCHANGED <<calling, sent, early, calls, batch, jobVars, db, lost>>

\* Mutant: the timer runs on after it has fired.
TickPastPeriod ==
  /\ loop = "select"
  /\ timer' = timer + 1
  /\ UNCHANGED <<chanVars, buckets, batch, jobVars, db, lost>>

\* Time passes while the loop waits in its select.
Tick ==
  /\ loop = "select"
  /\ timer < Period
  /\ timer' = timer + 1
  /\ UNCHANGED <<chanVars, buckets, batch, jobVars, db, lost>>

\* Mutant: the buckets are copied, not swapped out.
SwapBucketsKeepingThem ==
  /\ batch' = buckets
  /\ UNCHANGED buckets

\* flush swaps the buckets out under the mutex before it sends anything.
SwapBuckets ==
  /\ batch' = buckets
  /\ buckets' = Zero

TimerFlush ==
  /\ loop = "select"
  /\ timer = Period
  /\ SwapBuckets
  /\ loop' = "flush"
  /\ timer' = 0
  /\ UNCHANGED <<chanVars, closing, ctxDone, failures, faults, db, lost>>

\* Mutant: closing is never closed.
BeginShutdownWithoutClose ==
  /\ loop = "select"
  /\ ctxDone
  /\ loop' = "drain"
  /\ timer' = 0
  /\ UNCHANGED <<chanVars, buckets, batch, closing, ctxDone, failures, faults, db, lost>>

\* ctx.Done: close(w.closing), then drain until the channel is empty ...
BeginShutdown ==
  /\ loop = "select"
  /\ ctxDone
  /\ closing' = TRUE
  /\ loop' = "drain"
  /\ timer' = 0
  /\ UNCHANGED <<chanVars, buckets, batch, ctxDone, failures, faults, db, lost>>

\* Mutant: the final flush does not wait for the channel to be empty.
FinalFlushWithoutDrain ==
  /\ loop = "drain"
  /\ SwapBuckets
  /\ loop' = "final"
  /\ UNCHANGED <<chanVars, closing, ctxDone, failures, faults, timer, db, lost>>

\* ... then the final flush.
FinalFlush ==
  /\ loop = "drain"
  /\ requests = Zero
  /\ SwapBuckets
  /\ loop' = "final"
  /\ UNCHANGED <<chanVars, closing, ctxDone, failures, faults, timer, db, lost>>

\* The operations of one BulkIncrement: a collection's entries of one tenant.
OpsOf(coll, tenant) == {c \in Counters : c[1] = coll /\ c[2] = tenant}

\* BulkIncrement folds the tenant of its context onto every operation, so
\* only the operations of that tenant find their row.
BulkIncrement(tenant, ops) ==
  db' = [c \in Counters |->
           IF c \in ops /\ c[2] = tenant THEN db[c] + batch[c] ELSE db[c]]

\* Mutant: the operations stay in the batch after they were sent.
FlushPartitionResending(coll, tenant) ==
  /\ loop \in {"flush", "final"}
  /\ \E c \in OpsOf(coll, tenant) : batch[c] # 0
  /\ BulkIncrement(tenant, OpsOf(coll, tenant))
  /\ UNCHANGED <<batch, chanVars, buckets, jobVars, timer, lost>>

FlushPartition(coll, tenant) ==
  /\ loop \in {"flush", "final"}
  /\ \E c \in OpsOf(coll, tenant) : batch[c] # 0
  /\ BulkIncrement(tenant, OpsOf(coll, tenant))
  /\ batch' = [c \in Counters |-> IF c \in OpsOf(coll, tenant) THEN 0 ELSE batch[c]]
  /\ UNCHANGED <<chanVars, buckets, jobVars, timer, lost>>

\* The batch is sent: back to the select, or Run returns nil after the final
\* flush and the supervisor ends the job.
FlushDone ==
  /\ batch = Zero
  /\ \/ loop = "flush" /\ loop' = "select"
     \/ loop = "final" /\ loop' = "stopped"
  /\ UNCHANGED <<chanVars, buckets, batch, closing, ctxDone, failures, faults, timer, db, lost>>

\* supervisor.run after an error: nothing more once the context is done; the
\* failure of a critical job that has used up its tries cancels the root
\* context of the server; otherwise sleep and run again.
SuperviseFailure ==
  IF ctxDone
  THEN loop' = "stopped" /\ UNCHANGED <<failures, ctxDone>>
  ELSE /\ failures' = failures + 1
       /\ IF failures + 1 > Tries
          THEN loop' = "stopped" /\ ctxDone' = TRUE
          ELSE loop' = "backoff" /\ UNCHANGED ctxDone

\* BulkIncrement fails: flush returns at once, the partitions it has not sent
\* yet are gone with it, and Run returns the error.
FlushFails(coll, tenant) ==
  /\ loop \in {"flush", "final"}
  /\ \E c \in OpsOf(coll, tenant) : batch[c] # 0
  /\ faults < MaxFaults
  /\ faults' = faults + 1
  /\ lost' = Plus(lost, batch)
  /\ batch' = Zero
  /\ SuperviseFailure
  /\ UNCHANGED <<chanVars, buckets, closing, timer, db>>

\* Mutant: the supervisor does not run a failed job again.
EndBackoffWithoutRestart ==
  /\ loop = "backoff"
  /\ ctxDone
  /\ loop' = "stopped"
  /\ timer' = 0
  /\ UNCHANGED <<chanVars, buckets, batch, closing, ctxDone, failures, faults, db, lost>>

\* The back-off ends: run again, or return when the context was cancelled.
EndBackoff ==
  /\ loop = "backoff"
  /\ loop' = IF ctxDone THEN "stopped" ELSE "select"
  /\ timer' = 0
  /\ UNCHANGED <<chanVars, buckets, batch, closing, ctxDone, failures, faults, db, lost>>

\* A failure falls out of the supervisor's window.
WindowExpires ==
  /\ failures > 0
  /\ failures' = failures - 1
  /\ UNCHANGED <<chanVars, buckets, batch, loop, closing, ctxDone, faults, timer, db, lost>>

\* SIGTERM cancels the root context.
Shutdown ==
  /\ ~ctxDone
  /\ ctxDone' = TRUE
  /\ UNCHANGED <<chanVars, buckets, batch, loop, closing, failures, faults, timer, db, lost>>

Next ==
  \/ \E p \in Producers : \/ \E c \in Counters : CallIncrement(p, c)
                          \/ SendRequest(p)
                          \/ ReturnClosing(p)
  \/ \E c \in Counters : Accept(c)
  \/ \E coll \in Colls, tenant \in Tenants : \/ FlushPartition(coll, tenant)
                                             \/ FlushFails(coll, tenant)
  \/ Tick \/ TimerFlush \/ BeginShutdown \/ FinalFlush \/ FlushDone
  \/ EndBackoff \/ WindowExpires \/ Shutdown

Spec == Init /\ [][Next]_vars

(* Go's scheduler runs every goroutine that can run, a timer fires, a      *)
(* driver call returns.  A blocked sender waits in the channel's FIFO and  *)
(* a select picks uniformly among its ready cases, so a send, an accept or *)
(* the ctx.Done case that is ready again and again is taken: strong        *)
(* fairness.  Nothing makes a producer call, the driver fail or the        *)
(* operator stop the server.                                               *)
Fairness ==
  /\ \A p \in Producers : SF_vars(SendRequest(p)) /\ WF_vars(ReturnClosing(p))
  /\ \A c \in Counters : SF_vars(Accept(c))
  /\ \A coll \in Colls, tenant \in Tenants : WF_vars(FlushPartition(coll, tenant))
  /\ WF_vars(Tick) /\ WF_vars(TimerFlush) /\ SF_vars(BeginShutdown)
  /\ WF_vars(FinalFlush) /\ WF_vars(FlushDone) /\ WF_vars(EndBackoff)

FairSpec == Spec /\ Fairness

-----------------------------------------------------------------------------
(* Properties.                                                             *)

(* Every request the channel has taken is in exactly one place: queued,    *)
(* merged, in the batch being sent, in the database, or in a batch whose   *)
(* flush failed.  None is applied twice by a restart of Run and none       *)
(* vanishes between the swap in flush and its BulkIncrements.              *)
Conservation ==
  \A c \in Counters :
     sent[c] = requests[c] + buckets[c] + batch[c] + db[c] + lost[c]

(* The writer implements the ledger: an increment is owed from the moment  *)
(* the channel takes it, and every step of the loop, of a failing flush or *)
(* of a restart settles each unit at most once.                            *)
Ledger == INSTANCE CounterLedger WITH
            owed <- Plus(Plus(requests, buckets), batch),
            applied <- db, writtenOff <- lost

ImplementsLedger == Ledger!LedgerSpec

(* Graceful shutdown: when Run has ended and no flush ever failed, every   *)
(* increment the channel took before closing was closed is stored (Run     *)
(* closes the channel, drains it and flushes once more).                   *)
GracefulShutdownDelivers ==
  loop = "stopped" /\ faults = 0 => \A c \in Counters : db[c] >= early[c]

\* What makes the two properties above inductive: outside a flush there is
\* no batch ...
BatchEmpty == loop \notin {"flush", "final"} => batch = Zero

\* ... and where the deltas are while the loop stops.
ShutdownInv ==
  /\ loop \in {"drain", "final"} => closing
  /\ loop = "backoff" => faults > 0
  /\ loop = "stopped" /\ faults = 0 => closing
  /\ \A c \in Counters : early[c] <= sent[c]
  /\ faults = 0 => lost = Zero
  /\ loop \in {"final", "stopped"} /\ faults = 0 =>
       \A c \in Counters : early[c] <= batch[c] + db[c]

(* Once traffic pauses, a queued or merged increment is flushed, unless    *)
(* the server stops.                                                       *)
EventuallyFlushed ==
  \A c \in Counters :
     requests[c] + buckets[c] > 0 ~> requests[c] + buckets[c] = 0 \/ loop = "stopped"

(* Increment "returns immediately; merges happen inside the flusher": a    *)
(* producer that entered it comes out again.                               *)
IncrementReturns ==
  \A p \in Producers : calling[p] # Idle ~> calling[p] = Idle

(* As long as no flush has failed Increment does return: through a full    *)
(* channel, while the loop flushes, and through a shutdown, where closing  *)
(* is closed before the loop stops receiving.                              *)
ReturnsUnlessFlushFailed ==
  \A p \in Producers : calling[p] # Idle ~> calling[p] = Idle \/ faults > 0

(* The writer makes progress: what was taken is flushed, and a producer    *)
(* comes out of Increment unless a flush failed (Run, Increment).          *)
WriterProgresses == EventuallyFlushed /\ ReturnsUnlessFlushFailed
=============================================================================

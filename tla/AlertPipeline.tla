--------------------------- MODULE AlertPipeline ---------------------------
(***************************************************************************)
(* The alert pipeline (internal/core/pipeline.go) with the aggregaterule,  *)
(* snooze and notification plugins, against the record collection, the     *)
(* async writer, users who comment on or shelve alerts, and the            *)
(* housekeeper.                                                            *)
(*                                                                         *)
(* Every POSTed alert is processed by its own goroutine, a worker here.    *)
(* Between two database calls of one worker any other actor may run: the   *)
(* program counter stands at the next database call.                       *)
(*                                                                         *)
(* The rule plugin and the choice of the aggregate rule are in the input:  *)
(* an alert arrives with the hash and the severity they give it, and the   *)
(* severity is the field the rule watches, if it watches one.              *)
(***************************************************************************)
EXTENDS RecordStore

CONSTANTS
  Workers,      \* goroutines that process alerts
  Users,        \* people who post comments
  Throttle,     \* severity -> seconds, negative for "infinite"
  Watch,        \* whether the aggregate rule watches the severity
  Flapping,     \* flapping countdown of the aggregate rule
  RecordTTL,    \* housekeeping.record_ttl
  InitialFilter,\* the snooze filter loaded at boot, or Absent
  CommentTypes, \* types of the comments users post
  Cleaning,     \* whether the housekeeper runs
  MaxAlerts,    \* bound: alerts received
  MaxComments,  \* bound: comments posted by users
  MaxEdits,     \* bound: changes of the snooze filter and of shelving
  MaxFaults,    \* bound: database calls that fail
  MaxTime       \* bound: the clock

ASSUME ThrottleAssumption == Throttle \in [Sevs -> Int]
ASSUME RuleAssumption     == Watch \in BOOLEAN /\ Flapping \in Int /\ RecordTTL \in Nat \ {0}
ASSUME FilterAssumption   == InitialFilter \in Opt([sev : Sevs, discard : BOOLEAN])
ASSUME TypesAssumption    == CommentTypes \subseteq {"comment", "ack", "close", "open", "esc"}
ASSUME LimitAssumption    == /\ MaxAlerts \in Nat /\ MaxComments \in Nat
                             /\ MaxEdits \in Nat /\ MaxFaults \in Nat
                             /\ MaxTime \in Nat /\ Cleaning \in BOOLEAN

VARIABLES
  now,          \* the clock, in seconds
  pc,           \* worker -> its next database call
  doc,          \* worker -> the record it carries
  uid,          \* worker -> the uid of the aggregate it found, or Absent
  action,       \* worker -> the verdict so far
  cause,        \* worker -> which branch of matchAggregate decided
  hadSnoozed,   \* worker -> the row it found carried `snoozed'
  queued,       \* hash -> increments of duplicates in the async writer
  sends,        \* hashes whose notifier is about to inject its response
  comments,     \* uid -> comment documents with that record_uid
  filter,       \* the snooze filter: Absent, or its severity and discard
  upc,          \* user -> its next database call in AfterCreate
  posted,       \* user -> the record and type of the comment it posted
  seenCount,    \* user -> the comment_count it read
  alerts, edits, posts, faults,   \* history: bounded counters
  hits,         \* history: hash -> alerts that reached their write
  missing,      \* history: uid -> auto comments whose write failed
  cleaned,      \* history: uid -> comment documents cleaned up
  lastSent,     \* history: hash -> when it was last notified, or Absent
  flaps,        \* history: uid -> notifications sent for a flap
  matched,      \* history: uid -> its last full write was snoozed
  shelved       \* history: uids an operator has shelved

workerVars == <<pc, doc, uid, action, cause, hadSnoozed>>
userVars   == <<upc, posted, seenCount, posts>>
bounded    == <<alerts, edits, faults>>
history    == <<hits, missing, cleaned, lastSent, flaps, matched, shelved>>
vars       == <<storeVars, now, workerVars, queued, sends, comments, filter,
                userVars, bounded, history>>

Points  == {"idle", "lookup", "comment", "unset", "snooze", "notify", "write"}
Actions == {"Continue", "AbortWrite", "AbortUpdate"}
Causes  == {"none", "first", "close", "closed", "watch", "reopen", "throttle", "escalate"}

TypeOK ==
  /\ StoreTypeOK
  /\ now \in Nat
  /\ pc \in [Workers -> Points]
  /\ doc \in [Workers -> Documents]
  /\ uid \in [Workers -> Opt(Uids)]
  /\ action \in [Workers -> Actions]
  /\ cause \in [Workers -> Causes]
  /\ hadSnoozed \in [Workers -> BOOLEAN]
  /\ queued \in [Hashes -> Nat]
  /\ sends \in SUBSET Hashes
  /\ comments \in [Uids -> Nat]
  /\ filter \in Opt([sev : Sevs, discard : BOOLEAN])
  /\ upc \in [Users -> {"idle", "read", "patch"}]
  /\ posted \in [Users -> [record : Opt(Uids), type : CommentTypes \cup {"comment"}]]
  /\ seenCount \in [Users -> Nat]
  /\ alerts \in Nat /\ edits \in Nat /\ posts \in Nat /\ faults \in Nat
  /\ hits \in [Hashes -> Nat]
  /\ missing \in [Uids -> Nat]
  /\ cleaned \in [Uids -> Nat]
  /\ lastSent \in [Hashes -> Opt(Nat)]
  /\ flaps \in [Uids -> Nat]
  /\ matched \in [Uids -> BOOLEAN]
  /\ shelved \in SUBSET Uids

Init ==
  /\ StoreInit
  /\ now = 0
  /\ pc = [w \in Workers |-> "idle"]
  /\ doc = [w \in Workers |-> Empty]
  /\ uid = [w \in Workers |-> Absent]
  /\ action = [w \in Workers |-> "Continue"]
  /\ cause = [w \in Workers |-> "none"]
  /\ hadSnoozed = [w \in Workers |-> FALSE]
  /\ queued = [h \in Hashes |-> 0]
  /\ sends = {}
  /\ comments = [u \in Uids |-> 0]
  /\ filter = InitialFilter
  /\ upc = [p \in Users |-> "idle"]
  /\ posted = [p \in Users |-> [record |-> Absent, type |-> "comment"]]
  /\ seenCount = [p \in Users |-> 0]
  /\ alerts = 0 /\ edits = 0 /\ posts = 0 /\ faults = 0
  /\ hits = [h \in Hashes |-> 0]
  /\ missing = [u \in Uids |-> 0]
  /\ cleaned = [u \in Uids |-> 0]
  /\ lastSent = [h \in Hashes |-> Absent]
  /\ flaps = [u \in Uids |-> 0]
  /\ matched = [u \in Uids |-> FALSE]
  /\ shelved = {}

\* ProcessRecord returns: the worker and its locals are gone.
Return(w) ==
  /\ pc' = [pc EXCEPT ![w] = "idle"]
  /\ doc' = [doc EXCEPT ![w] = Empty]
  /\ uid' = [uid EXCEPT ![w] = Absent]
  /\ action' = [action EXCEPT ![w] = "Continue"]
  /\ cause' = [cause EXCEPT ![w] = "none"]
  /\ hadSnoozed' = [hadSnoozed EXCEPT ![w] = FALSE]

-----------------------------------------------------------------------------
(* Receiving: the tenant check, stampDefaultTTL and the rule plugin.       *)

Receive(w, h, s, st) ==
  /\ pc[w] = "idle"
  /\ alerts < MaxAlerts
  /\ alerts' = alerts + 1
  /\ pc' = [pc EXCEPT ![w] = "lookup"]
  /\ doc' = [doc EXCEPT ![w] = [Empty EXCEPT !.hash = h, !.sev = s, !.state = st,
                                             !.ttl = RecordTTL]]
  /\ UNCHANGED <<storeVars, now, uid, action, cause, hadSnoozed, queued, sends, comments,
                 filter, userVars, edits, faults, history>>

-----------------------------------------------------------------------------
(* aggregaterule.matchAggregate: GetOne by hash, then one of its branches. *)

\* Mutant of Identified: the common path counts a comment of its own.
IdentifiedCounting(rec, old) ==
  [rec EXCEPT !.dup = Num(old.dup, 0) + 1,
              !.date = Num(old.date, now),
              !.count = Num(old.count, 0) + 1,
              !.response = IF @ = Absent THEN old.response ELSE @]

\* The fields every branch takes over from the row it found.
Identified(rec, old) ==
  [rec EXCEPT !.dup = Num(old.dup, 0) + 1,
              !.date = Num(old.date, now),
              !.count = Num(old.count, 0),
              !.response = IF @ = Absent THEN old.response ELSE @]

Commented(rec) == [rec EXCEPT !.count = @ + 1]

\* throttleSpec.resolve: the override of the watched severity, or the default.
ThrottleOf(rec) == Throttle[rec.sev]

\* Mutant of Throttling: the window ends one second early.
ThrottlingOneShort(rec, old) ==
  ThrottleOf(rec) < 0 \/ now - Num(old.date, now) + 1 < ThrottleOf(rec)

Throttling(rec, old) ==
  ThrottleOf(rec) < 0 \/ now - Num(old.date, now) < ThrottleOf(rec)

\* Mutant of Countdown: a flap costs nothing.
CountdownUnchanged(old) == Num(old.flap, Flapping)

\* The countdown after one more flap of this row.
Countdown(old) == Num(old.flap, Flapping) - 1

\* The branch `why' decides on row u: the record it returns and its verdict.
\* A branch that comments goes on to writeAutoComment.
Decide(w, u, why, rec, verdict, commenting) ==
  /\ doc' = [doc EXCEPT ![w] = rec]
  /\ uid' = [uid EXCEPT ![w] = u]
  /\ action' = [action EXCEPT ![w] = verdict]
  /\ cause' = [cause EXCEPT ![w] = why]
  /\ hadSnoozed' = [hadSnoozed EXCEPT ![w] = rows[u].snoozed # Absent]
  /\ pc' = [pc EXCEPT ![w] = IF commenting THEN "comment" ELSE "write"]

WatchDiffers(rec, old) == Watch /\ rec.sev # old.sev

\* Everything a lookup leaves alone, the async writer apart.
LookupFrame == UNCHANGED <<storeVars, now, sends, comments, filter, userVars, bounded, history>>

FirstOccurrence(w) ==
  /\ pc[w] = "lookup"
  /\ WithHash(doc[w].hash) = {}
  /\ doc' = [doc EXCEPT ![w].dup = 1]
  /\ cause' = [cause EXCEPT ![w] = "first"]
  /\ pc' = [pc EXCEPT ![w] = "snooze"]
  /\ UNCHANGED <<uid, action, hadSnoozed, queued>>
  /\ LookupFrame

\* An incoming close on an aggregate that is not closed.
AutoClose(w, u) ==
  /\ pc[w] = "lookup"
  /\ u \in GetOne(doc[w].hash)
  /\ doc[w].state = "close"
  /\ rows[u].state # "close"
  /\ Decide(w, u, "close", Commented(Identified(doc[w], rows[u])), "Continue", TRUE)
  /\ UNCHANGED queued
  /\ LookupFrame

\* An incoming close on a closed aggregate: a duplicate.
AlreadyClosed(w, u) ==
  /\ pc[w] = "lookup"
  /\ u \in GetOne(doc[w].hash)
  /\ doc[w].state = "close"
  /\ rows[u].state = "close"
  /\ Decide(w, u, "closed", Identified(doc[w], rows[u]), "AbortUpdate", FALSE)
  /\ queued' = [queued EXCEPT ![doc[w].hash] = @ + 1]
  /\ LookupFrame

\* A watched field differs from the stored one.
WatchChanged(w, u) ==
  /\ pc[w] = "lookup"
  /\ u \in GetOne(doc[w].hash)
  /\ doc[w].state # "close"
  /\ WatchDiffers(doc[w], rows[u])
  /\ LET fc  == Countdown(rows[u])
         st  == [close |-> "open", ack |-> "esc"]
         rec == [Commented(Identified(doc[w], rows[u])) EXCEPT
                   !.flap = fc,
                   !.state = IF rows[u].state \in DOMAIN st THEN st[rows[u].state]
                             ELSE rows[u].state]
     IN  Decide(w, u, "watch", rec, IF fc <= 0 THEN "AbortUpdate" ELSE "Continue", TRUE)
  /\ UNCHANGED queued
  /\ LookupFrame

\* A hit on a closed aggregate, no watched field changed.
Reopen(w, u) ==
  /\ pc[w] = "lookup"
  /\ u \in GetOne(doc[w].hash)
  /\ doc[w].state # "close"
  /\ ~WatchDiffers(doc[w], rows[u])
  /\ rows[u].state = "close"
  /\ LET fc  == Countdown(rows[u])
         rec == [Commented(Identified(doc[w], rows[u])) EXCEPT !.flap = fc, !.state = "open"]
     IN  Decide(w, u, "reopen", rec, IF fc <= 0 THEN "AbortUpdate" ELSE "Continue", TRUE)
  /\ UNCHANGED queued
  /\ LookupFrame

\* A duplicate inside the throttle window.
Throttled(w, u) ==
  /\ pc[w] = "lookup"
  /\ u \in GetOne(doc[w].hash)
  /\ doc[w].state # "close"
  /\ ~WatchDiffers(doc[w], rows[u])
  /\ rows[u].state # "close"
  /\ Throttling(doc[w], rows[u])
  /\ Decide(w, u, "throttle",
            [Identified(doc[w], rows[u]) EXCEPT !.state = rows[u].state], "AbortUpdate", FALSE)
  /\ queued' = [queued EXCEPT ![doc[w].hash] = @ + 1]
  /\ LookupFrame

\* Outside the window: a new escalation.
Escalate(w, u) ==
  /\ pc[w] = "lookup"
  /\ u \in GetOne(doc[w].hash)
  /\ doc[w].state # "close"
  /\ ~WatchDiffers(doc[w], rows[u])
  /\ rows[u].state # "close"
  /\ ~Throttling(doc[w], rows[u])
  /\ Decide(w, u, "escalate",
            [Commented(Identified(doc[w], rows[u])) EXCEPT
               !.state = IF rows[u].state = "ack" THEN "esc" ELSE rows[u].state],
            "Continue", TRUE)
  /\ UNCHANGED queued
  /\ LookupFrame

\* The lookup fails: processRecordInner writes the record as it came in, with
\* an exception field; the hash is not on it yet.
LookupFails(w) ==
  /\ pc[w] = "lookup"
  /\ faults < MaxFaults
  /\ faults' = faults + 1
  /\ doc' = [doc EXCEPT ![w].hash = Absent]
  /\ pc' = [pc EXCEPT ![w] = "write"]
  /\ UNCHANGED <<storeVars, now, uid, action, cause, hadSnoozed, queued, sends, comments,
                 filter, userVars, alerts, edits, history>>

\* Mutant of AfterAggregate: the deferred UnsetFields is lost.
AfterAggregateWithoutUnset(w) == IF action[w] # "Continue" THEN "write" ELSE "snooze"

\* Where a worker goes from the aggregaterule plugin: the deferred
\* UnsetFields runs before the record moves on to the snooze plugin.
AfterAggregate(w) ==
  IF action[w] # "Continue" THEN "write" ELSE IF hadSnoozed[w] THEN "unset" ELSE "snooze"

\* writeAutoComment, best effort: a failing write is logged and forgotten.
WriteAutoComment(w) ==
  /\ pc[w] = "comment"
  /\ \/ /\ comments' = [comments EXCEPT ![uid[w]] = @ + 1]
        /\ UNCHANGED <<faults, missing>>
     \/ /\ faults < MaxFaults
        /\ faults' = faults + 1
        /\ missing' = [missing EXCEPT ![uid[w]] = @ + 1]
        /\ UNCHANGED comments
  /\ pc' = [pc EXCEPT ![w] = AfterAggregate(w)]
  /\ UNCHANGED <<storeVars, now, doc, uid, action, cause, hadSnoozed, queued, sends, filter,
                 userVars, alerts, edits, hits, cleaned, lastSent, flaps, matched, shelved>>

\* The deferred UnsetFields, best effort too.
ClearStaleSnoozed(w) ==
  /\ pc[w] = "unset"
  /\ \/ UnsetSnoozed(uid[w]) /\ UNCHANGED faults
     \/ faults < MaxFaults /\ faults' = faults + 1 /\ UNCHANGED storeVars
  /\ pc' = [pc EXCEPT ![w] = "snooze"]
  /\ UNCHANGED <<now, doc, uid, action, cause, hadSnoozed, queued, sends, comments, filter,
                 userVars, alerts, edits, history>>

-----------------------------------------------------------------------------
(* snooze.Process and notification.Process.                                *)

FilterMatches(w) == filter # Absent /\ filter.sev = doc[w].sev

SnoozeMisses(w) ==
  /\ pc[w] = "snooze"
  /\ ~FilterMatches(w)
  /\ pc' = [pc EXCEPT ![w] = "notify"]
  /\ UNCHANGED <<storeVars, now, doc, uid, action, cause, hadSnoozed, queued, sends, comments,
                 filter, userVars, bounded, history>>

SnoozeMatches(w) ==
  /\ pc[w] = "snooze"
  /\ FilterMatches(w)
  /\ ~filter.discard
  /\ doc' = [doc EXCEPT ![w].snoozed = TRUE]
  /\ action' = [action EXCEPT ![w] = "AbortWrite"]
  /\ pc' = [pc EXCEPT ![w] = "write"]
  /\ UNCHANGED <<storeVars, now, uid, cause, hadSnoozed, queued, sends, comments, filter,
                 userVars, bounded, history>>

\* A discarding filter: ActionAbort, nothing is written.
SnoozeDiscards(w) ==
  /\ pc[w] = "snooze"
  /\ FilterMatches(w)
  /\ filter.discard
  /\ Return(w)
  /\ UNCHANGED <<storeVars, now, queued, sends, comments,
                 filter, userVars, bounded, history>>

\* Every entry matches.  Acknowledged and closed records are skipped; the
\* notifier runs on a detached goroutine and may inject its response later.
Notify(w) ==
  /\ pc[w] = "notify"
  /\ pc' = [pc EXCEPT ![w] = "write"]
  /\ \/ /\ doc[w].state \in {"ack", "close"}
        /\ UNCHANGED <<sends, lastSent, flaps>>
     \/ /\ doc[w].state \notin {"ack", "close"}
        /\ sends' = sends \cup {doc[w].hash}
        /\ lastSent' = [lastSent EXCEPT ![doc[w].hash] = now]
        /\ flaps' = IF cause[w] \in {"watch", "reopen"}
                    THEN [flaps EXCEPT ![uid[w]] = @ + 1] ELSE flaps
  /\ UNCHANGED <<storeVars, now, doc, uid, action, cause, hadSnoozed, queued, comments, filter,
                 userVars, bounded, hits, missing, cleaned, matched, shelved>>

\* injectFunc: SetFields on the rows with the record's hash.
InjectResponse(h) ==
  /\ h \in sends
  /\ sends' = sends \ {h}
  /\ SetResponse(h)
  /\ UNCHANGED <<now, workerVars, queued, comments, filter, userVars, bounded, history>>

-----------------------------------------------------------------------------
(* writeRecord, the last database call of every verdict but Abort.         *)

WriteRecord(w) ==
  /\ pc[w] = "write"
  /\ Write(uid[w], doc[w], action[w] # "AbortUpdate", now)
  /\ Return(w)
  /\ hits' = IF doc[w].hash = Absent THEN hits
             ELSE [hits EXCEPT ![doc[w].hash] = @ + 1]
  /\ matched' = [u \in Uids |->
                   IF action[w] # "AbortUpdate" /\ (u = uid[w] \/ u \in used' \ used)
                   THEN doc[w].snoozed # Absent ELSE matched[u]]
  /\ UNCHANGED <<now, queued, sends, comments, filter,
                 userVars, bounded, missing, cleaned, lastSent, flaps, shelved>>

\* The write fails: the error goes back to the sender of the alert.
WriteFails(w) ==
  /\ pc[w] = "write"
  /\ faults < MaxFaults
  /\ faults' = faults + 1
  /\ Return(w)
  /\ UNCHANGED <<storeVars, now, queued, sends, comments,
                 filter, userVars, alerts, edits, history>>

\* The async writer flushes an increment of `duplicates' (see AsyncWriter).
FlushIncrement(h) ==
  /\ queued[h] > 0
  /\ queued' = [queued EXCEPT ![h] = @ - 1]
  /\ IncrementDuplicates(h)
  /\ UNCHANGED <<now, workerVars, sends, comments, filter, userVars, bounded, history>>

-----------------------------------------------------------------------------
(* Users.  POST /comment writes the comment, then AfterCreate reads the    *)
(* record and patches its state and comment_count.                         *)

PostComment(p, u, t) ==
  /\ upc[p] = "idle"
  /\ posts < MaxComments
  /\ u \in Rows
  /\ posts' = posts + 1
  /\ comments' = [comments EXCEPT ![u] = @ + 1]
  /\ posted' = [posted EXCEPT ![p] = [record |-> u, type |-> t]]
  /\ upc' = [upc EXCEPT ![p] = "read"]
  /\ UNCHANGED <<storeVars, now, workerVars, queued, sends, filter, seenCount, bounded, history>>

\* GetOne by uid; a missing record ends the hook with an error.
ReadRecord(p) ==
  /\ upc[p] = "read"
  /\ LET u == posted[p].record IN
     \/ /\ u \in Rows
        /\ seenCount' = [seenCount EXCEPT ![p] = Num(rows[u].count, 0)]
        /\ upc' = [upc EXCEPT ![p] = "patch"]
     \/ /\ u \notin Rows
        /\ upc' = [upc EXCEPT ![p] = "idle"]
        /\ UNCHANGED seenCount
  /\ UNCHANGED <<storeVars, now, workerVars, queued, sends, comments, filter, posted, posts,
                 bounded, history>>

PatchRecord(p) ==
  /\ upc[p] = "patch"
  /\ UpdateOne(posted[p].record,
               [Empty EXCEPT !.count = seenCount[p] + 1,
                             !.state = IF posted[p].type = "comment" THEN Absent
                                       ELSE posted[p].type],
               TRUE, now)
  /\ upc' = [upc EXCEPT ![p] = "idle"]
  /\ UNCHANGED <<now, workerVars, queued, sends, comments, filter, posted, seenCount, posts,
                 bounded, history>>

\* GetOne or UpdateOne fails: AfterCreate gives up, the comment stays.
AfterCreateFails(p) ==
  /\ upc[p] # "idle"
  /\ faults < MaxFaults
  /\ faults' = faults + 1
  /\ upc' = [upc EXCEPT ![p] = "idle"]
  /\ UNCHANGED <<storeVars, now, workerVars, queued, sends, comments, filter, posted, seenCount,
                 posts, alerts, edits, history>>

\* PATCH /record/<uid> {ttl: -ttl}, the Shelve button.
Shelve(u) ==
  /\ edits < MaxEdits
  /\ edits' = edits + 1
  /\ u \in Rows
  /\ rows[u].ttl # Absent /\ rows[u].ttl > 0
  /\ UpdateOne(u, [Empty EXCEPT !.ttl = 0 - rows[u].ttl], TRUE, now)
  /\ shelved' = shelved \cup {u}
  /\ UNCHANGED <<now, workerVars, queued, sends, comments, filter, userVars, alerts, faults,
                 hits, missing, cleaned, lastSent, flaps, matched>>

\* The snooze filter is created, edited or deleted (and reloaded).
EditFilter(f) ==
  /\ edits < MaxEdits
  /\ edits' = edits + 1
  /\ f # filter
  /\ filter' = f
  /\ UNCHANGED <<storeVars, now, workerVars, queued, sends, comments, userVars, alerts, faults,
                 history>>

-----------------------------------------------------------------------------
(* The housekeeper's cleanup_timeout and cleanup_comments jobs.            *)

CleanupAlerts ==
  /\ Cleaning
  /\ \E u \in Rows : Expired(rows[u], now)
  /\ CleanupTimeout(now)
  /\ UNCHANGED <<now, workerVars, queued, sends, comments, filter, userVars, bounded, history>>

CleanupComments ==
  /\ Cleaning
  /\ \E u \in Uids \ Rows : comments[u] > 0
  /\ comments' = [u \in Uids |-> IF u \in Rows THEN comments[u] ELSE 0]
  /\ cleaned' = [u \in Uids |-> IF u \in Rows THEN cleaned[u] ELSE cleaned[u] + comments[u]]
  /\ UNCHANGED <<storeVars, now, workerVars, queued, sends, filter, userVars, bounded,
                 hits, missing, lastSent, flaps, matched, shelved>>

Tick ==
  /\ now < MaxTime
  /\ now' = now + 1
  /\ UNCHANGED <<storeVars, workerVars, queued, sends, comments, filter, userVars, bounded,
                 history>>

-----------------------------------------------------------------------------
Lookup(w) ==
  \/ FirstOccurrence(w)
  \/ \E u \in Uids : \/ AutoClose(w, u) \/ AlreadyClosed(w, u) \/ WatchChanged(w, u)
                     \/ Reopen(w, u) \/ Throttled(w, u) \/ Escalate(w, u)

Step(w) ==
  \/ Lookup(w)
  \/ WriteAutoComment(w) \/ ClearStaleSnoozed(w)
  \/ SnoozeMisses(w) \/ SnoozeMatches(w) \/ SnoozeDiscards(w)
  \/ Notify(w) \/ WriteRecord(w)

Next ==
  \/ \E w \in Workers :
       \/ \E h \in Hashes, s \in Sevs, st \in {Absent, "close"} : Receive(w, h, s, st)
       \/ Step(w) \/ LookupFails(w) \/ WriteFails(w)
  \/ \E h \in Hashes : InjectResponse(h) \/ FlushIncrement(h)
  \/ \E p \in Users : \/ \E u \in Uids, t \in CommentTypes : PostComment(p, u, t)
                      \/ ReadRecord(p) \/ PatchRecord(p) \/ AfterCreateFails(p)
  \/ \E u \in Uids : Shelve(u)
  \/ \E f \in Opt([sev : Sevs, discard : BOOLEAN]) : EditFilter(f)
  \/ CleanupAlerts \/ CleanupComments \/ Tick

Spec == Init /\ [][Next]_vars

-----------------------------------------------------------------------------
(* Properties.                                                             *)

\* Nobody is in the middle of anything.
Quiet ==
  /\ \A w \in Workers : pc[w] = "idle"
  /\ \A p \in Users : upc[p] = "idle"
  /\ \A h \in Hashes : queued[h] = 0

(* A record never counts more comments than were made for it: whatever     *)
(* the interleaving of workers and users, `comment_count' is covered by    *)
(* the documents of the timeline, those whose best-effort write failed and *)
(* those the housekeeper removed with a record.                            *)
CommentCountCovered ==
  \A u \in Rows : Num(rows[u].count, 0) <= comments[u] + missing[u] + cleaned[u]

(* An alert that the pipeline wrote is there: after the write of a worker  *)
(* a row with the alert's hash exists ("writeRecord upserts rec into the   *)
(* record collection").  The one exception is a row the housekeeper        *)
(* deletes between the lookup and the write: the write by uid is rejected  *)
(* without an error and the alert is gone.                                 *)
WriteStores ==
  [][\A h \in Hashes :
       hits'[h] # hits[h] =>
         \/ WithHash(h)' # {}
         \/ \E w \in Workers : /\ pc[w] = "write" /\ doc[w].hash = h
                               /\ uid[w] # Absent /\ uid[w] \notin Rows]_vars

(* "Duplicates collapse onto a single aggregate row."                      *)
OneRowPerHash == \A h \in Hashes : Cardinality(WithHash(h)) <= 1

(* The snooze attribution of a row is the verdict on the last record that  *)
(* went through the snooze plugin: a record that no longer matches a       *)
(* filter does not stay hidden.                                            *)
SnoozedIsCurrent ==
  Quiet /\ faults = 0 => \A u \in Rows : rows[u].snoozed # Absent => matched[u]

(* A new escalation is notified only when the throttle period has passed   *)
(* since the last notification of its aggregate.                           *)
ThrottleHonoured ==
  [][\A w \in Workers :
       pc[w] = "notify" /\ cause[w] = "escalate" /\ lastSent' # lastSent /\ faults = 0
         => LET last == lastSent[doc[w].hash] IN
            last = Absent \/ (ThrottleOf(doc[w]) >= 0 /\ now - last >= ThrottleOf(doc[w]))]_vars

(* The flapping countdown caps the notifications of one record for         *)
(* re-opens and watched changes ("Maximum number of times to be alerted"). *)
FlappingCap == faults = 0 => \A u \in Uids : flaps[u] <= Flapping

(* Flapping "stopped notifications until throttle expires": a re-open or a *)
(* watched change is suppressed only inside the throttle period.           *)
FlappingEndsWithThrottle ==
  [][\A w \in Workers, u \in Uids :
       /\ pc[w] = "lookup" /\ pc'[w] = "comment"
       /\ uid'[w] = u /\ action'[w] = "AbortUpdate"
       => Throttling(doc[w], rows[u])]_vars

(* `duplicates' is the number of hits of the aggregate.                    *)
DuplicatesCountHits ==
  Quiet => \A u \in Rows : rows[u].hash # Absent => rows[u].dup = hits[rows[u].hash]

(* "Existing values win for identity (uid, date_epoch, state,              *)
(* duplicates)": a throttled duplicate leaves the stored state alone.      *)
ThrottledKeepsState ==
  [][\A w \in Workers :
       pc[w] = "write" /\ pc'[w] = "idle" /\ cause[w] = "throttle" /\ uid[w] \in Rows
         => rows'[uid[w]].state = rows[uid[w]].state]_vars

(* Shelving is "a mean to keep some alerts from being deleted".            *)
ShelvedStays == \A u \in shelved : u \in Rows
=============================================================================

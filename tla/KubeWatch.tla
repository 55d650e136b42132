----------------------------- MODULE KubeWatch ------------------------------
(* snooze-k8sevents: one watch of the cluster's events that is reopened      *)
(* where it stopped, with the recurrences of an event left out for a while.  *)
EXTENDS Integers, Sequences, FiniteSets

CONSTANTS
    EventKeys,       \* dedupKey: namespace, object and reason of an event
    DedupWindow,     \* dedup_window; 0 turns suppression off
    BackoffMax,      \* backoffMax, in units of backoffInitial
    IncludeNormal,   \* include_normal
    MaxVersion, MaxKubeTime, MaxKubeFaults

VARIABLES
    log,       \* what the cluster recorded; the index is its resourceVersion
    floor,     \* versions up to it the cluster has compacted away
    rv,        \* resourceVersion; 0 is ""
    stream,    \* the version the open watch sends next, Closed without one
    delay,     \* backoff.cur
    dedup,     \* key -> when it was last let through
    ktime, kfaults,
    fate,      \* version -> what became of it, and when
    attempts   \* <<key, time>> of every emit

kubeVars == <<log, floor, rv, stream, delay, dedup, ktime, kfaults, fate, attempts>>

Closed == 0
Versions == 1..Len(log)

\* wantsType; with Warning events only, the cluster filters them itself.
wantsType(ev) == IncludeNormal \/ ev.class = "Warning"

KubeEvent(verb, class, key) == [verb |-> verb, class |-> class, key |-> key]

Fate(how) == [how |-> how, at |-> ktime]

KubeInit ==
    /\ log = <<>> /\ floor = 0 /\ rv = 0 /\ stream = Closed /\ delay = 0
    /\ dedup = <<>> /\ ktime = 0 /\ kfaults = 0 /\ fate = <<>> /\ attempts = {}

(******************************** the cluster ********************************)

Recorded ==
    /\ Len(log) < MaxVersion
    /\ \E verb \in {"ADDED", "DELETED"}, class \in {"Warning", "Normal"}, key \in EventKeys :
          /\ verb = "DELETED" => class = "Warning"
          \* what is filtered has no key to tell apart
          /\ (verb = "DELETED" \/ class = "Normal") => key = CHOOSE k \in EventKeys : TRUE
          /\ log' = Append(log, KubeEvent(verb, class, key))
    /\ UNCHANGED <<floor, rv, stream, delay, dedup, ktime, kfaults, fate, attempts>>

Compact ==
    /\ kfaults < MaxKubeFaults /\ kfaults' = kfaults + 1
    /\ floor' \in (floor + 1)..Len(log)
    /\ UNCHANGED <<log, rv, stream, delay, dedup, ktime, fate, attempts>>

KubeTick ==
    /\ ktime < MaxKubeTime /\ ktime' = ktime + 1
    /\ UNCHANGED <<log, floor, rv, stream, delay, dedup, kfaults, fate, attempts>>

(********************************** watchOnce ********************************)

\* backoff.next, and its reset.
NextDelay == IF delay = 0 THEN 1 ELSE IF 2 * delay > BackoffMax THEN BackoffMax ELSE 2 * delay

\* Mutant: a new watch starts at the present.
ResumeNow == Len(log) + 1

\* newWatchRequest resumes after rv; without one the cluster sends everything
\* it still has.
Resume == IF rv = 0 THEN floor + 1 ELSE rv + 1

Open ==
    /\ stream = Closed /\ (rv = 0 \/ rv >= floor)
    /\ stream' = Resume
    /\ fate' = [v \in DOMAIN fate \cup (IF rv = 0 THEN 1..floor ELSE {}) |->
                   IF v \in DOMAIN fate THEN fate[v] ELSE Fate("compacted")]
    /\ UNCHANGED <<log, floor, rv, delay, dedup, ktime, kfaults, attempts>>

\* Mutant: the version that is gone is asked for again.
GoneKeepsVersion ==
    /\ IF stream = Closed THEN rv # 0 /\ rv < floor ELSE stream <= floor
    /\ stream' = Closed /\ delay' = 0
    /\ UNCHANGED <<log, floor, rv, dedup, ktime, kfaults, fate, attempts>>

\* 410, as the status of the answer or in an ERROR: start over from the
\* current state.
Gone ==
    /\ IF stream = Closed THEN rv # 0 /\ rv < floor ELSE stream <= floor
    /\ rv' = 0 /\ stream' = Closed /\ delay' = 0
    /\ UNCHANGED <<log, floor, dedup, ktime, kfaults, fate, attempts>>

\* The stream ends cleanly or at the resync deadline: resumed at once.
StreamEnds ==
    /\ stream # Closed /\ kfaults < MaxKubeFaults /\ kfaults' = kfaults + 1
    /\ stream' = Closed /\ delay' = 0
    /\ UNCHANGED <<log, floor, rv, dedup, ktime, fate, attempts>>

\* A refused request, a broken stream or another ERROR: after a delay.
WatchFails ==
    /\ kfaults < MaxKubeFaults /\ kfaults' = kfaults + 1
    /\ stream' = Closed /\ delay' = NextDelay
    /\ UNCHANGED <<log, floor, rv, dedup, ktime, fate, attempts>>

(*********************************** consume *********************************)

suppressed(key) ==
    DedupWindow > 0 /\ key \in DOMAIN dedup /\ ktime - dedup[key] < DedupWindow

Mark(key) ==
    IF DedupWindow = 0 THEN dedup
    ELSE [k \in DOMAIN dedup \cup {key} |-> IF k = key THEN ktime ELSE dedup[k]]

\* Mutant: a recurrence extends the window.
RememberAll(key) == Mark(key)

\* What suppressed leaves in dedup: only an event let through is recorded.
Remember(key) == IF suppressed(key) THEN dedup ELSE Mark(key)

Fated(v, how) == [u \in DOMAIN fate \cup {v} |-> IF u = v THEN Fate(how) ELSE fate[u]]

\* BOOKMARK: everything before the stream's place has been sent.
Bookmark ==
    /\ stream > 1 /\ rv # stream - 1
    /\ rv' = stream - 1
    /\ fate' = [v \in DOMAIN fate \cup 1..(stream - 1) |->
                   IF v \in DOMAIN fate THEN fate[v] ELSE Fate("compacted")]
    /\ UNCHANGED <<log, floor, stream, delay, dedup, ktime, kfaults, attempts>>

\* forward: the alert is posted; a failure is logged by the watcher.
Emit(v) ==
    /\ attempts' = attempts \cup {<<log[v].key, ktime>>}
    /\ \/ fate' = Fated(v, "emitted") /\ UNCHANGED kfaults
       \/ /\ kfaults < MaxKubeFaults /\ kfaults' = kfaults + 1
          /\ fate' = Fated(v, "failed")

\* An event off the stream: the place is kept before anything else.
Consume ==
    /\ stream # Closed /\ stream <= Len(log) /\ stream > floor
    /\ LET ev == log[stream]
           wanted == ev.verb # "DELETED" /\ wantsType(ev)
       IN  /\ rv' = stream /\ stream' = stream + 1
           /\ dedup' = IF wanted THEN Remember(ev.key) ELSE dedup
           /\ \/ /\ ~wanted /\ fate' = Fated(stream, "filtered")
                 /\ UNCHANGED <<kfaults, attempts>>
              \/ /\ wanted /\ suppressed(ev.key) /\ fate' = Fated(stream, "suppressed")
                 /\ UNCHANGED <<kfaults, attempts>>
              \/ wanted /\ ~suppressed(ev.key) /\ Emit(stream)
    /\ UNCHANGED <<log, floor, delay, ktime>>

\* An object that cannot be decoded is passed over; the place stays.
Undecodable ==
    /\ stream # Closed /\ stream <= Len(log) /\ stream > floor
    /\ kfaults < MaxKubeFaults /\ kfaults' = kfaults + 1
    /\ stream' = stream + 1 /\ fate' = Fated(stream, "undecodable")
    /\ UNCHANGED <<log, floor, rv, delay, dedup, ktime, attempts>>

KubeNext ==
    \/ Recorded \/ Compact \/ KubeTick \/ Open \/ Gone \/ StreamEnds \/ WatchFails
    \/ Bookmark \/ Consume \/ Undecodable

(********************************* properties ********************************)

\* The watch never moves past an event without dealing with it: each version
\* up to the tracked one was forwarded, tried, filtered, suppressed, or was
\* compacted before it could be read (Run, consume).
NothingSkipped == \A v \in 1..rv : v \in DOMAIN fate

\* An event is left out as a recurrence only while one of the same key was
\* let through less than DedupWindow ago (suppressed).
SuppressedInWindow ==
    \A v \in DOMAIN fate : fate[v].how = "suppressed" =>
        \E a \in attempts : a[1] = log[v].key /\ fate[v].at - a[2] \in 0..(DedupWindow - 1)

\* Every event of the cluster is dealt with in the end, also after the watch
\* lost its place (Run).
Happened(v) == v \in Versions
Followed(v) == v \in DOMAIN fate
=============================================================================

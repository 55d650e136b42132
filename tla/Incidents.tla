----------------------------- MODULE Incidents -----------------------------
(* The notifiers that open an incident when a record fires and resolve it    *)
(* when it is closed: PagerDuty and Opsgenie by an idempotent event with a   *)
(* key, ServiceNow and Statuspage by a search and a change of what it found. *)
(* Every notification is a goroutine of its own.                             *)
EXTENDS Naturals, Sequences, FiniteSets, FiniteSetsExt

CONSTANTS
    Alerts,      \* records [hash, uid, names]: names its template may render
    InFlight,    \* notifications under way at once
    MaxFiring,   \* records that fire
    MaxNotices, MaxIncidentFaults

VARIABLES
    service, configured,
    incidents,   \* the service's incidents, the oldest first
    sends,       \* the notifications, in the order they were fired
    overlapped,  \* records two of whose notifications overlapped
    ifaults

incidentVars == <<service, configured, incidents, sends, overlapped, ifaults>>

NoHash == ""

\* A record is known by its uid, and by its hash if it has one.
ASSUME AlertsAssumption ==
    \A a, b \in Alerts : a # b =>
        a.uid # b.uid /\ a.uid # b.hash /\ (a.hash # NoHash => a.hash # b.hash)

NoAlert == [hash |-> NoHash, uid |-> "", names |-> {}]
Services == {"keyed", "servicenow", "statuspage"}   \* keyed: PagerDuty, Opsgenie
Keyed == service = "keyed"

IncidentsInit ==
    /\ service \in Services /\ configured \in BOOLEAN
    /\ incidents = <<>> /\ sends = <<>> /\ overlapped = {} /\ ifaults = 0

\* Mutant: records without a hash are not told apart.
correlationHash(a) == a.hash

\* dedup_key, alias, correlation_id.
correlation(a) == IF a.hash # NoHash THEN a.hash ELSE a.uid

Done(i, result) == [sends EXCEPT ![i].step = "done", ![i].result = result]
Unfinished == {i \in DOMAIN sends : sends[i].step # "done"}
IFault == ifaults < MaxIncidentFaults /\ ifaults' = ifaults + 1

\* fireSend: a goroutine with a copy of the record.
fireSend(a, state, name) ==
    /\ Len(sends) < MaxNotices /\ Cardinality(Unfinished) < InFlight
    /\ Cardinality({a} \cup {sends[i].rec : i \in DOMAIN sends}) <= MaxFiring
    /\ sends' = Append(sends, [rec |-> a, state |-> state, name |-> name, step |-> "send",
                               target |-> 0, result |-> "none"])
    /\ UNCHANGED <<service, configured, incidents, overlapped, ifaults>>

\* configFromMeta refuses: no request is made.
Misconfigured(i) ==
    /\ sends[i].step = "send" /\ ~configured /\ sends' = Done(i, "error")
    /\ UNCHANGED <<service, configured, incidents, overlapped, ifaults>>

\* The first request of a notification, beside another one of the record.
Overlap(i) ==
    overlapped' = overlapped \cup
        (IF \E k \in DOMAIN sends \ {i} :
               /\ sends[k].rec = sends[i].rec
               /\ IF k < i THEN sends[k].step # "done" ELSE sends[k].step # "send"
         THEN {sends[i].rec} ELSE {})

Open(key) == {j \in DOMAIN incidents : incidents[j].open /\ incidents[j].key = key}
CloseAll(targets, a) ==
    [j \in DOMAIN incidents |->
        IF j \in targets THEN [incidents[j] EXCEPT !.open = FALSE, !.closedBy = @ \cup {a}] ELSE incidents[j]]

\* Mutant: every event is a trigger.
actionTriggers(state) == "trigger"

\* buildEvent, Send: the state of the record decides.
action(state) == IF state = "close" THEN "resolve" ELSE "trigger"

\* createIncident, create, sendCreate: the name is rendered from the record as
\* it is now.
incident(s) == [key |-> correlation(s.rec), name |-> s.name, rec |-> s.rec, open |-> TRUE, closedBy |-> {}]

\* What the service makes of the one request of a notification: an open key is
\* not opened twice, a close ends it; the others open one more.
Posted(i) ==
    LET s == sends[i]
        key == correlation(s.rec)
    IN  IF Keyed /\ action(s.state) = "resolve" THEN CloseAll(Open(key), s.rec)
        ELSE IF Keyed /\ Open(key) # {} THEN incidents
        ELSE Append(incidents, incident(s))

Searches(i) == ~Keyed /\ action(sends[i].state) = "resolve"

\* Send, sendCreate, sendClose, create, createIncident: one request, answered
\* or not.
Post(i) ==
    /\ sends[i].step = "send" /\ configured /\ ~Searches(i) /\ Overlap(i)
    /\ incidents' = Posted(i)
    /\ \/ sends' = Done(i, "ok") /\ UNCHANGED ifaults
       \/ IFault /\ sends' = Done(i, "error")
    /\ UNCHANGED <<service, configured>>

\* Mutant: the first unresolved incident, whatever its name.
matchAny(s) == LET unresolved == {j \in DOMAIN incidents : incidents[j].open}
               IN  IF unresolved = {} THEN {} ELSE {Min(unresolved)}

\* resolveIncident: the list is the newest first and is read from its end.
matchID(s) ==
    LET named == {j \in DOMAIN incidents : incidents[j].open /\ incidents[j].name = s.name}
    IN  IF named = {} THEN {} ELSE {Min(named)}

\* resolve: any one of the incidents with the correlation id, open or not.
lookup(s) ==
    IF service = "statuspage" THEN matchID(s)
    ELSE {j \in DOMAIN incidents : incidents[j].key = correlation(s.rec)}

\* The search of a close; without a match there is nothing to do.
Search(i) ==
    /\ sends[i].step = "send" /\ configured /\ Searches(i) /\ Overlap(i)
    /\ IF lookup(sends[i]) = {} THEN sends' = Done(i, "ok")
       ELSE \E j \in lookup(sends[i]) : sends' = [sends EXCEPT ![i].step = "patch", ![i].target = j]
    /\ UNCHANGED <<service, configured, incidents, ifaults>>

\* The change, answered or not.
Patch(i) ==
    /\ sends[i].step = "patch"
    /\ incidents' = CloseAll({sends[i].target}, sends[i].rec)
    /\ \/ sends' = Done(i, "ok") /\ UNCHANGED ifaults
       \/ IFault /\ sends' = Done(i, "error")
    /\ UNCHANGED <<service, configured, overlapped>>

\* A request that does not arrive, or is refused.
RequestLost(i) ==
    /\ sends[i].step # "done" /\ configured /\ IFault /\ sends' = Done(i, "error")
    /\ UNCHANGED <<service, configured, incidents, overlapped>>

IncidentsNext ==
    \/ \E a \in Alerts : \E state \in {"open", "close"}, name \in a.names : fireSend(a, state, name)
    \/ \E i \in DOMAIN sends :
          Misconfigured(i) \/ Post(i) \/ Search(i) \/ Patch(i) \/ RequestLost(i)

(********************************* properties ********************************)

Of(a) == {i \in DOMAIN sends : sends[i].rec = a}
Still(a) == Cardinality({j \in DOMAIN incidents : incidents[j].rec = a /\ incidents[j].open})

\* A close resolves incidents of its own record, or for Statuspage, which has no
\* key, of a record whose name was the same (correlation, matchID).
ResolvesItsOwn ==
    \A j \in DOMAIN incidents : \A a \in incidents[j].closedBy :
        a = incidents[j].rec \/ (service = "statuspage" /\ incidents[j].name \in a.names)

\* A notification that counts as sent has done what it is for: an incident was
\* opened for the record, or the one it found was resolved (Send).
SentWasDone ==
    \A i \in DOMAIN sends : sends[i].result = "ok" =>
        IF action(sends[i].state) = "trigger" THEN \E j \in DOMAIN incidents : incidents[j].rec = sends[i].rec
        ELSE sends[i].target = 0 \/ sends[i].rec \in incidents[sends[i].target].closedBy

\* Once the notifications of a record are through, none failed and none
\* overlapped another, an incident is open if the last one was a firing, and if
\* it was a close none is: on PagerDuty and Opsgenie however often it fired, on
\* Statuspage if each firing was closed under its name before the next, on
\* ServiceNow if it fired once (Send, resolve, resolveIncident).
IncidentFollowsRecord ==
    \A a \in Alerts \ overlapped :
        LET mine == Of(a)
            last == sends[Max(mine)].state
            fired == {i \in mine : sends[i].state = "open"}
            inTurn == \A i \in fired : \A k \in fired :
                         i < k => \E c \in mine : i < c /\ c < k /\ sends[c].state = "close"
            ownName == \A i \in DOMAIN sends, k \in mine : (i \in mine) <=> (sends[i].name = sends[k].name)
        IN  mine # {} /\ (\A i \in mine : sends[i].result = "ok") =>
              /\ last = "open" => service = "statuspage" \/ Still(a) > 0
              /\ last = "close" => \/ Still(a) = 0
                                   \/ service = "statuspage" /\ ~(inTurn /\ ownName)
                                   \/ service = "servicenow" /\ Cardinality(fired) # 1

\* An incident follows its record and no other (servicenow, statuspage,
\* pagerduty, opsgenie).
IncidentsFollow == ResolvesItsOwn /\ SentWasDone /\ IncidentFollowsRecord
=============================================================================

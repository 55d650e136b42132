----------------------------- MODULE JiraBridge -----------------------------
(* snooze-jira: a webhook that files a ticket for an alert, or comments on   *)
(* the one it has, through a client that repeats a request, and a poller     *)
(* that closes the record of every ticket it no longer finds open.           *)
EXTENDS Naturals, Sequences, FiniteSets, FiniteSetsExt

CONSTANTS
    Hashes,          \* alert hashes
    Handlers,        \* webhook requests served at the same time
    Batches,         \* the batches of envelopes the webhook is given
    MessageLimit,    \* message_limit; 0 takes the whole batch
    RetryAttempts,   \* retryAttempts
    PollMaxResults,  \* poll_max_results
    Queries,         \* "default": poll_jql is empty; "override": it is set
    Workflow,        \* status -> the statuses a transition leads to
    InitialStatus,   \* "" for none
    ReopenClosed, ReopenStatusName,
    PriorityAsString, \* this JIRA wants priority as a string
    MaxTickets, MaxJiraFaults, MaxEdits

VARIABLES issues, recs, req, users, tracked, poll, resolved, skipped, jfaults,
          edits, jql

jvars == <<issues, recs, req, users, tracked, poll, resolved, skipped, jfaults,
           edits, jql>>

NoIssue == 0
Idle == [step |-> "idle"]
Waiting == [step |-> "waiting"]

NoHash == ""

\* createNew writes the record's link in the custom field, extractHash reads
\* the hash back out of it; an alert without a hash leaves the field empty.
Link(h) == IF h = NoHash THEN <<>> ELSE <<"link", h>>
extractHash(value) == value[2]

Keys == 1..Len(issues)
IsDone(k) == k \in Keys /\ issues[k].status = "done"
Linked(k) == <<k, extractHash(issues[k].field)>>
\* Mutant: the query leaves the status out.
LinkedIssues == {k \in Keys : issues[k].listed /\ (jql = "default" => issues[k].field # <<>>)}

\* The default query: the field is not empty and the status is not Done.  An
\* override asks what it likes.  Neither finds a ticket that is not listed: one
\* deleted, moved out of sight or cleared of its field.
OpenIssues ==
    {k \in Keys : issues[k].listed
        /\ (jql = "default" => issues[k].field # <<>> /\ issues[k].status # "done")}

(*************************** one envelope of a batch **************************)

Env(r) == r.batch[r.i]
limit(r) == IF MessageLimit = 0 THEN Len(r.batch)
            ELSE Min({MessageLimit, Len(r.batch)})

\* resolveUserField: an account id passes through, an address is looked up
\* once; a lookup that failed is remembered as well.
NeedsLookup(e) == e.assignee # "" /\ e.assignee \notin users

\* The first call of an envelope: findExistingIssue, then updateExisting or
\* createNew.
Begin(r) ==
    IF r.i > limit(r) THEN [r EXCEPT !.step = "answer"]
    ELSE LET first == CASE Env(r).prior # NoIssue -> "comment"
                        [] Env(r).prior = NoIssue /\ NeedsLookup(Env(r)) -> "user"
                        [] OTHER -> "create"
         IN  [r EXCEPT !.step = first, !.try = 1, !.key = Env(r).prior,
                       !.tried = @ \cup {r.i}, !.asString = FALSE, !.made = 0]

\* The envelope is done with; a key, created or found, goes in the answer.
After(r) ==
    LET out == IF r.key = NoIssue \/ Env(r).hash = NoHash THEN r.out ELSE r.out \cup {<<Env(r).hash, r.key>>}
    IN  Begin([r EXCEPT !.i = @ + 1, !.out = out])

Step(r, s) == [r EXCEPT !.step = s, !.try = 1]

\* transitionToStatus: the transition to the target, else any that is not to
\* a done status.
Picks(k, target) ==
    LET to == Workflow[issues[k].status]
    IN  IF target \in to THEN {target} ELSE to \ {"done"}

Target(r) == IF Env(r).prior = NoIssue THEN InitialStatus ELSE ReopenStatusName

\* What the request of a step does to the tickets; a comment's text is left out.
Effect(r) ==
    CASE r.step = "create" ->
           Append(issues, [field |-> Link(Env(r).hash), status |-> "todo", listed |-> TRUE])
      [] r.step = "transition" -> [issues EXCEPT ![r.key].status = r.to]
      [] OTHER -> issues

\* The forwarder's next step when a request succeeded (a set: the transition
\* picked is any of those that qualify) ...
Succeeded(r) ==
    CASE r.step = "user" -> {Step(r, "create")}
      [] r.step = "create" ->
           LET n == [r EXCEPT !.key = Len(issues) + 1]
           IN  {IF InitialStatus # "" THEN Step(n, "transitions") ELSE After(n)}
      [] r.step = "comment" ->
           {IF ReopenClosed THEN Step(r, "get") ELSE After(r)}
      [] r.step = "get" ->
           {IF issues[r.key].status = "done" THEN Step(r, "transitions") ELSE After(r)}
      [] r.step = "transitions" ->
           LET picked == Picks(r.key, Target(r))
           IN  IF picked = {} THEN {After(r)}
               ELSE {[Step(r, "transition") EXCEPT !.to = s] : s \in picked}
      [] OTHER -> {After(r)}

\* Mutant: a failed request ends the batch.
FailedAborts(r) == [r EXCEPT !.step = "answer"]

\* ... and when it failed: createNew goes on without the user, every other
\* failure is logged and the next envelope is taken.
Failed(r) == IF r.step = "user" THEN Step(r, "create") ELSE After(r)

\* Mutant: the first attempt is not counted.
AgainOneMore(r) == IF r.try <= RetryAttempts THEN [r EXCEPT !.try = @ + 1] ELSE Failed(r)

\* do: a request without an answer, or answered 5xx or 429, is repeated.
Again(r) == IF r.try < RetryAttempts THEN [r EXCEPT !.try = @ + 1] ELSE Failed(r)

Busy(h) == req[h].step \notin {"idle", "answer"}

\* The priority is refused as an object where JIRA wants a string.
WantsString(r) == r.step = "create" /\ PriorityAsString /\ ~r.asString

\* made: the requests of an envelope that JIRA may file a ticket for.
Made(r) == IF r.step = "create" /\ ~WantsString(r) THEN [r EXCEPT !.made = @ + 1] ELSE r

\* users: the addresses in the cache after a request, whatever the lookup found.
Cached(h) == IF req[h].step = "user" THEN users \cup {Env(req[h]).assignee} ELSE users

\* Client.do, one attempt: answered 2xx ...
JiraOk(h) ==
    /\ Busy(h) /\ ~WantsString(req[h])
    /\ req[h].step = "create" => Len(issues) < MaxTickets
    /\ issues' = Effect(req[h])
    /\ \E r \in Succeeded(Made(req[h])) : req' = [req EXCEPT ![h] = r]
    /\ resolved' = IF req[h].step = "transition" /\ req[h].to = "done"
                   THEN resolved \cup {req[h].key} ELSE resolved
    /\ users' = Cached(h)
    /\ UNCHANGED <<recs, tracked, poll, skipped, jfaults, edits, jql>>

\* ... carried out but the answer lost, or not carried out (5xx, 429) ...
JiraRetried(h) ==
    /\ Busy(h) /\ jfaults < MaxJiraFaults
    /\ \/ /\ ~WantsString(req[h]) /\ (req[h].step = "create" => Len(issues) < MaxTickets)
          /\ issues' = Effect(req[h])
          /\ req' = [req EXCEPT ![h] = Again(Made(req[h]))]
       \/ UNCHANGED issues /\ req' = [req EXCEPT ![h] = Again(Made(req[h]))]
    /\ users' = IF req[h].try < RetryAttempts THEN users ELSE Cached(h)
    /\ jfaults' = jfaults + 1
    /\ resolved' = IF req[h].step = "transition" /\ req[h].to = "done"
                   THEN resolved \cup {req[h].key} ELSE resolved
    /\ UNCHANGED <<recs, tracked, poll, skipped, edits, jql>>

\* ... or answered 4xx: not repeated, except priorityNeedsString, which has
\* CreateIssue do the request again, with as many attempts again.
JiraRefused(h) ==
    /\ Busy(h)
    /\ IF WantsString(req[h])
       THEN /\ req' = [req EXCEPT ![h].asString = TRUE, ![h].try = 1]
            /\ UNCHANGED <<users, jfaults>>
       ELSE /\ jfaults < MaxJiraFaults /\ jfaults' = jfaults + 1
            /\ req' = [req EXCEPT ![h] = Failed(req[h])]
            /\ users' = Cached(h)
    /\ UNCHANGED <<issues, recs, tracked, poll, resolved, skipped, edits, jql>>

\* handleAlert: decodeEnvelopes takes one envelope or a list of them.
handleAlert(h) ==
    /\ req[h].step = "idle"
    /\ \E b \in Batches :
          /\ \A i \in DOMAIN b : b[i].prior \in Keys \cup {NoIssue}
          /\ req' = [req EXCEPT ![h] =
               Begin([step |-> "start", batch |-> b, i |-> 1, try |-> 1, key |-> NoIssue,
                      to |-> "", asString |-> FALSE, made |-> 0, tried |-> {}, out |-> {}])]
    /\ UNCHANGED <<issues, recs, users, tracked, poll, resolved, skipped, jfaults, edits, jql>>

Answer(h) ==
    /\ req[h].step = "answer"
    /\ req' = [req EXCEPT ![h] = Idle]
    /\ UNCHANGED <<issues, recs, users, tracked, poll, resolved, skipped, jfaults, edits, jql>>

(********************************* the poller ********************************)

\* cycle, its search: at most PollMaxResults of the tickets the query finds.
Found ==
    {s \in SUBSET OpenIssues :
        Cardinality(s) = Min({PollMaxResults, Cardinality(OpenIssues)})}

cycle ==
    /\ poll.step = "waiting"
    /\ \E s \in Found :
         LET current == {Linked(k) : k \in {i \in s : issues[i].field # <<>>}}
         IN  poll' = [step |-> "closing", current |-> current,
                      todo |-> {t \in tracked : \A c \in current : c[1] # t[1]},
                      full |-> s = OpenIssues]
    /\ UNCHANGED <<issues, recs, req, users, tracked, resolved, skipped, jfaults, edits, jql>>

\* Mutant: a failed search counts as one that found nothing.
SearchFailsEmpty ==
    /\ poll.step = "waiting" /\ jfaults < MaxJiraFaults
    /\ jfaults' = jfaults + 1
    /\ poll' = [step |-> "closing", current |-> {}, todo |-> tracked, full |-> TRUE]
    /\ UNCHANGED <<issues, recs, req, users, tracked, resolved, skipped, edits, jql>>

\* A failed search leaves the cycle: nothing is compared.
SearchFails ==
    /\ poll.step = "waiting" /\ jfaults < MaxJiraFaults
    /\ jfaults' = jfaults + 1
    /\ UNCHANGED <<issues, recs, req, users, tracked, poll, resolved, skipped, edits, jql>>

\* closeSnoozeRecord: a record that is gone is left alone; a failure is logged
\* and the ticket is forgotten with the others at the end of the cycle.
closeSnoozeRecord ==
    /\ poll.step = "closing"
    /\ \E t \in poll.todo :
          /\ poll' = [poll EXCEPT !.todo = @ \ {t}]
          /\ \/ /\ recs' = IF recs[t[2]] = "gone" THEN recs
                           ELSE [recs EXCEPT ![t[2]] = "close"]
                /\ skipped' = IF poll.full THEN skipped ELSE skipped \cup {<<"cut", t[2]>>}
                /\ UNCHANGED jfaults
             \/ /\ jfaults < MaxJiraFaults /\ jfaults' = jfaults + 1
                /\ skipped' = skipped \cup {<<"lost", t[2]>>}
                /\ UNCHANGED recs
    /\ UNCHANGED <<issues, req, users, tracked, resolved, edits, jql>>

CycleEnds ==
    /\ poll.step = "closing" /\ poll.todo = {}
    /\ tracked' = poll.current
    /\ poll' = Waiting
    /\ UNCHANGED <<issues, recs, req, users, resolved, skipped, jfaults, edits, jql>>

\* The daemon restarts: the tickets seen open and the user cache are in memory.
Restart ==
    /\ jfaults < MaxJiraFaults /\ jfaults' = jfaults + 1
    /\ req' = [h \in Handlers |-> Idle]
    /\ users' = {} /\ tracked' = {} /\ poll' = Waiting
    /\ skipped' = skipped \cup {<<"lost", t[2]>> : t \in tracked}
    /\ UNCHANGED <<issues, recs, resolved, edits, jql>>

(************************* people, and the housekeeper ************************)

Resolve(k) ==
    /\ edits < MaxEdits /\ edits' = edits + 1
    /\ k \in Keys
    /\ \E s \in Workflow[issues[k].status] :
          /\ issues' = [issues EXCEPT ![k].status = s]
          /\ resolved' = IF s = "done" THEN resolved \cup {k} ELSE resolved
    /\ UNCHANGED <<recs, req, users, tracked, poll, skipped, jfaults, jql>>

\* A ticket is deleted, moved, cleared of its field or edited out of the
\* override, or comes back into sight; the poller presumes the first closed.
Relist(k) ==
    /\ edits < MaxEdits /\ edits' = edits + 1
    /\ k \in Keys
    /\ issues' = [issues EXCEPT ![k].listed = ~@]
    /\ skipped' = skipped \cup {<<"unlisted", h>> : h \in {x \in Hashes : issues[k].field = Link(x)}}
    /\ UNCHANGED <<recs, req, users, tracked, poll, resolved, jfaults, jql>>

RecordGone ==
    /\ edits < MaxEdits /\ edits' = edits + 1
    /\ \E h \in Hashes : recs[h] # "gone" /\ recs' = [recs EXCEPT ![h] = "gone"]
    /\ UNCHANGED <<issues, req, users, tracked, poll, resolved, skipped, jfaults, jql>>

JiraInit ==
    /\ issues = <<>> /\ recs = [h \in Hashes |-> "open"]
    /\ req = [h \in Handlers |-> Idle]
    /\ users = {} /\ tracked = {} /\ poll = Waiting
    /\ resolved = {} /\ skipped = {} /\ jfaults = 0 /\ edits = 0 /\ jql \in Queries

JiraNext ==
    \/ \E h \in Handlers : handleAlert(h) \/ JiraOk(h) \/ JiraRetried(h)
                             \/ JiraRefused(h) \/ Answer(h)
    \/ cycle \/ SearchFails \/ closeSnoozeRecord \/ CycleEnds \/ Restart
    \/ \E k \in 1..MaxTickets : Resolve(k) \/ Relist(k)
    \/ RecordGone

(********************************* properties ********************************)

\* A record is closed by the bridge only if a ticket of its own was resolved or
\* went out of the query's sight, or a search that was cut off at
\* PollMaxResults did not show it (cycle).
ClosedWithTicket ==
    \A h \in Hashes : recs[h] = "close" =>
        \/ <<"cut", h>> \in skipped \/ <<"unlisted", h>> \in skipped
        \/ \E k \in resolved : issues[k].field = Link(h)

\* One envelope files at most RetryAttempts tickets, however its requests end:
\* those with the priority as a string may come on top of as many with an
\* object, but JIRA refuses these (Client.do, CreateIssue).
TicketsBounded == \A h \in Handlers : req[h] # Idle => req[h].made <= RetryAttempts

\* An answered batch has tried each of its envelopes up to the limit, and
\* answers an existing ticket of its own for each it names (handleEnvelopes).
EveryEnvelopeTried ==
    \A h \in Handlers : req[h].step = "answer" =>
        /\ req[h].tried = 1..limit(req[h])
        /\ \A o \in req[h].out : o[2] \in Keys

\* A ticket seen open and then resolved, and what ends the wait for its
\* record: it is closed, or somebody reopens the ticket first, or the close
\* failed or was forgotten in a restart (cycle).  An override may go on showing
\* a ticket that is done.
StillShown(k) == jql = "override" /\ k \in Keys /\ issues[k].listed
CloseDue(k) == IsDone(k) /\ ~StillShown(k) /\ \E t \in tracked : t[1] = k
CloseDone(k) ==
    ~IsDone(k) \/ StillShown(k) \/ issues[k].field = <<>>
        \/ (LET h == extractHash(issues[k].field)
            IN  recs[h] # "open" \/ <<"lost", h>> \in skipped)
=============================================================================

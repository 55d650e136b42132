----------------------------- MODULE Housekeeper -----------------------------
(***************************************************************************)
(* The housekeeper (internal/housekeeper) and the cleanups it runs on each *)
(* of the three backends (db/sqlite, db/postgres and db/mongo cleanup.go). *)
(*                                                                         *)
(* One job is followed: a poll decides whether its interval has elapsed, a *)
(* pass lists the active tenants and cleans one after the other, and users *)
(* and alerts write the rows meanwhile.  A cleanup is one statement where  *)
(* the backend makes it one, and otherwise a scan, for orphans a probe of  *)
(* each parent, and a delete of what the scan chose.                       *)
(*                                                                         *)
(* A row carries its tenant and the fields its job reads; a field that is  *)
(* not there is Null, an instant is an integer.                            *)
(***************************************************************************)
EXTENDS Integers, Sequences, FiniteSets, FiniteSetsExt, SequencesExt

CONSTANTS Tenants, Uids, Backends, Jobs,
          Interval,      \* polls between two passes of the job
          Retention,     \* of audit and stats rows
          Batch,         \* uids in one DELETE of the SQLite driver
          MaxNow, MaxEdits, MaxFailures

ASSUME HousekeeperAssumption ==
    /\ Interval \in Nat \ {0} /\ Batch \in Nat \ {0} /\ Retention \in Nat
    /\ Backends \subseteq {"sqlite", "postgres", "mongo"}
    /\ Jobs \subseteq {"timeout", "comments", "orphans", "expired", "audit", "stats", "aggregate"}

Null == -9
NoUid == ""

VARIABLES backend, job,
          rows,       \* the collections the job reads, uid -> row
          suspended,  \* tenants an administrator has suspended
          now,
          elapsed,    \* polls since the last pass ended
          pass,       \* the pass in progress
          touched,    \* uids written since the scan of the cleanup in progress
          edits, failures
housekeeperVars == <<backend, job, rows, suspended, now, elapsed, pass, touched, edits, failures>>

Idle == [phase |-> "idle", todo |-> {}, skipped |-> {}, tenant |-> NoUid, refs |-> <<>>, probing |-> {}, keys |-> {}]

--------------------------------------------------------------------------
(* Which rows a cleanup selects                                            *)

tenantPredicate(rs, t) == {u \in DOMAIN rs : rs[u].tenant = t}

noTenantFilter(rs, t) == {u \in DOMAIN rs : t # NoUid}

tenantFilter(rs, t) == {u \in DOMAIN rs : rs[u].tenant = t}

\* A NULL makes an SQL comparison neither true nor false, and a sum NULL.
SqliteCleanupTimeout(rs, t) ==
    {u \in tenantPredicate(rs, t) :
        rs[u].ttl # Null /\ rs[u].ttl >= 0 /\ rs[u].epoch # Null /\ rs[u].epoch + rs[u].ttl <= now}

PostgresCleanupTimeout(rs, t) ==
    {u \in tenantPredicate(rs, t) :
        rs[u].ttl # Null /\ rs[u].ttl >= 0 /\ rs[u].epoch # Null /\ rs[u].epoch + rs[u].ttl <= now}

MongoCleanupUndated(rs, t) ==
    {u \in tenantFilter(rs, t) : rs[u].ttl # Null /\ rs[u].ttl >= 0 /\ rs[u].epoch + rs[u].ttl <= now}

\* $match drops a ttl and a sum that is no number.
MongoCleanupTimeout(rs, t) ==
    LET withTTL == {u \in tenantFilter(rs, t) : rs[u].ttl # Null /\ rs[u].ttl >= 0}
        timeout(u) == IF rs[u].epoch = Null THEN Null ELSE rs[u].epoch + rs[u].ttl
    IN  {u \in withTTL : timeout(u) # Null /\ timeout(u) <= now}

IsComment(r) == r.coll = "comment"
RecordUids(rs, us) == {u \in us : rs[u].coll = "record"}

\* NOT IN is neither true nor false for a NULL, but true when there is nothing
\* to compare it with.
NotIn(ref, uids) == IF ref = NoUid THEN uids = {} ELSE ref \notin uids

SqliteCleanupComments(rs, t) ==
    LET mine == tenantPredicate(rs, t)
    IN  {u \in mine : IsComment(rs[u]) /\ NotIn(rs[u].ref, RecordUids(rs, mine))}

PostgresCleanupComments(rs, t) ==
    LET mine == tenantPredicate(rs, t)
    IN  {u \in mine : IsComment(rs[u]) /\ NotIn(rs[u].ref, RecordUids(rs, mine))}

\* The record uids of the tenant's comments that $lookup finds no record for.
MongoCleanupComments(rs, t) ==
    LET mine == tenantFilter(rs, t)
    IN  {rs[u].ref : u \in {c \in mine : IsComment(rs[c])}} \ (RecordUids(rs, mine) \cup {NoUid})

Parents(r) == ToSet(r.parents)

PostgresCleanupOrphans(rs, t) ==
    LET mine == tenantPredicate(rs, t)
        parents == {Last(rs[u].parents) : u \in {v \in mine : rs[v].parents # <<>>}}
        missing == parents \ mine
    IN  {u \in mine : Parents(rs[u]) \cap missing # {}}

\* The parents the two other drivers look up one by one: every parent of a
\* row on SQLite, the last one of each row on MongoDB.
SqliteParents(rs, t) == UNION {Parents(rs[u]) : u \in tenantPredicate(rs, t)}
MongoParents(rs, t) == {Last(rs[u].parents) : u \in {v \in tenantFilter(rs, t) : rs[v].parents # <<>>}}

\* A window of time_constraints.datetime; until is Null when it is missing or
\* cannot be read.
datetimeAllExpired(windows) ==
    windows # <<>> /\ \A w \in ToSet(windows) : w.until # Null /\ w.until < now

SqliteCleanupExpired(rs, t) == {u \in tenantPredicate(rs, t) : datetimeAllExpired(rs[u].datetime)}
PostgresCleanupExpired(rs, t) == {u \in tenantPredicate(rs, t) : datetimeAllExpired(rs[u].datetime)}
MongoCleanupExpired(rs, t) == {u \in tenantFilter(rs, t) : datetimeAllExpired(rs[u].datetime)}

\* Objects whose latest event is a delete older than the threshold; an event
\* without a date counts as the oldest on SQL and as no maximum on MongoDB.
Coalesce(e) == IF e = Null THEN 0 ELSE e

SqlAuditObjects(rs, mine) ==
    LET newest(o) == Max({Coalesce(rs[u].epoch) : u \in {v \in mine : rs[v].object = o}})
    IN  {rs[u].object : u \in {v \in mine :
            /\ rs[v].action = "delete"
            /\ Coalesce(rs[v].epoch) < now - Retention
            /\ Coalesce(rs[v].epoch) = newest(rs[v].object)}}

SqliteCleanupAuditLogs(rs, t) ==
    LET mine == tenantPredicate(rs, t) IN {u \in mine : rs[u].object \in SqlAuditObjects(rs, mine)}
PostgresCleanupAuditLogs(rs, t) ==
    LET mine == tenantPredicate(rs, t) IN {u \in mine : rs[u].object \in SqlAuditObjects(rs, mine)}

MongoCleanupAuditLogs(rs, t) ==
    LET mine == tenantFilter(rs, t)
        events(o) == {u \in mine : rs[u].object = o}
        dates(o) == {rs[u].epoch : u \in events(o)} \ {Null}
    IN  {o \in {rs[u].object : u \in mine} :
            /\ dates(o) # {} /\ Max(dates(o)) < now - Retention
            /\ \E u \in events(o) : rs[u].action = "delete" /\ rs[u].epoch = Max(dates(o))}

\* CleanupStatsAsIntervalJob: a plain delete below the cutoff.
CleanupStats(rs, t) == {u \in tenantPredicate(rs, t) : rs[u].epoch < now - Retention}

\* Drop removes the collection, whoever the rows belong to.
CleanupAggregate(rs) == DOMAIN rs

--------------------------------------------------------------------------
(* One pass over the tenants                                               *)

\* Cleanups that are one statement of the backend.
OneStatement ==
    \/ backend = "sqlite" /\ job \in {"timeout", "comments", "audit"}
    \/ backend = "postgres" /\ job \in {"timeout", "comments", "orphans", "audit"}
    \/ job \in {"stats", "aggregate"}

Statement(t) ==
    CASE job = "timeout" -> IF backend = "sqlite" THEN SqliteCleanupTimeout(rows, t) ELSE PostgresCleanupTimeout(rows, t)
      [] job = "comments" -> IF backend = "sqlite" THEN SqliteCleanupComments(rows, t) ELSE PostgresCleanupComments(rows, t)
      [] job = "orphans" -> PostgresCleanupOrphans(rows, t)
      [] job = "audit" -> IF backend = "sqlite" THEN SqliteCleanupAuditLogs(rows, t) ELSE PostgresCleanupAuditLogs(rows, t)
      [] job = "stats" -> CleanupStats(rows, t)
      [] job = "aggregate" -> CleanupAggregate(rows)

\* What the scan of a cleanup in several steps remembers.
Scanned(t) ==
    CASE job = "expired" ->
            (CASE backend = "sqlite" -> SqliteCleanupExpired(rows, t)
               [] backend = "postgres" -> PostgresCleanupExpired(rows, t)
               [] OTHER -> MongoCleanupExpired(rows, t))
      [] job = "timeout" -> MongoCleanupTimeout(rows, t)
      [] job = "comments" -> MongoCleanupComments(rows, t)
      [] job = "audit" -> MongoCleanupAuditLogs(rows, t)

\* The rows a delete by the remembered keys meets when it runs.
Victims(t, keys) ==
    LET mine == tenantFilter(rows, t)
    IN  CASE backend = "mongo" /\ job = "comments" -> {u \in mine : IsComment(rows[u]) /\ rows[u].ref \in keys}
          [] backend = "mongo" /\ job = "orphans" -> {u \in mine : Parents(rows[u]) \cap keys # {}}
          [] backend = "mongo" /\ job = "audit" -> {u \in mine : rows[u].object \in keys}
          [] OTHER -> keys \cap DOMAIN rows

RemoveRows(us) == rows' = [u \in DOMAIN rows \ us |-> rows[u]]

InitHousekeeper ==
    /\ suspended \in SUBSET Tenants
    /\ now = 0 /\ elapsed = Interval
    /\ pass \in {Idle, [Idle EXCEPT !.phase = "list"]}      \* WithTriggerOnStartup
    /\ touched = {} /\ edits = 0 /\ failures = 0

PollUncapped ==
    /\ pass.phase = "idle"
    /\ elapsed' = elapsed + 1
    /\ pass' = IF elapsed' >= Interval THEN [pass EXCEPT !.phase = "list"] ELSE pass
    /\ UNCHANGED <<backend, job, rows, suspended, now, touched, edits, failures>>

\* runLive, one tick of the poll: the first one fires, later ones once the
\* interval has elapsed.
Poll ==
    /\ pass.phase = "idle"
    /\ elapsed' = Min({elapsed + 1, Interval})
    /\ pass' = IF elapsed' = Interval THEN [pass EXCEPT !.phase = "list"] ELSE pass
    /\ UNCHANGED <<backend, job, rows, suspended, now, touched, edits, failures>>

ForFirstTenant ==
    /\ pass.phase = "list"
    /\ pass' = [Idle EXCEPT !.phase = "tenant", !.todo = {"x"} \ suspended, !.skipped = suspended]
    /\ UNCHANGED <<backend, job, rows, suspended, now, elapsed, touched, edits, failures>>

ForEachTenant ==
    /\ pass.phase = "list"
    /\ pass' = [Idle EXCEPT !.phase = "tenant", !.todo = Tenants \ suspended, !.skipped = suspended]
    /\ UNCHANGED <<backend, job, rows, suspended, now, elapsed, touched, edits, failures>>

EndPass == pass' = Idle /\ elapsed' = 0 /\ touched' = {}

Done ==
    /\ pass.phase = "tenant" /\ pass.todo = {} /\ EndPass
    /\ UNCHANGED <<backend, job, rows, suspended, now, edits, failures>>

CleanAtOnce(t) ==
    /\ pass.phase = "tenant" /\ t \in pass.todo /\ OneStatement
    /\ RemoveRows(Statement(t))
    /\ pass' = [pass EXCEPT !.todo = @ \ {t}, !.tenant = t]
    /\ UNCHANGED <<backend, job, suspended, now, elapsed, touched, edits, failures>>

Scan(t) ==
    /\ pass.phase = "tenant" /\ t \in pass.todo /\ ~ OneStatement /\ job # "orphans"
    /\ pass' = [pass EXCEPT !.phase = "delete", !.todo = @ \ {t}, !.tenant = t, !.keys = Scanned(t)]
    /\ touched' = {}
    /\ UNCHANGED <<backend, job, rows, suspended, now, elapsed, edits, failures>>

ScanParents(t) ==
    /\ pass.phase = "tenant" /\ t \in pass.todo /\ ~ OneStatement /\ job = "orphans"
    /\ pass' = [pass EXCEPT !.phase = "probe", !.todo = @ \ {t}, !.tenant = t, !.keys = {},
                            !.refs = [u \in tenantPredicate(rows, t) |-> Parents(rows[u])],
                            !.probing = IF backend = "sqlite" THEN SqliteParents(rows, t) ELSE MongoParents(rows, t)]
    /\ touched' = {}
    /\ UNCHANGED <<backend, job, rows, suspended, now, elapsed, edits, failures>>

Missing(p) == p \notin tenantFilter(rows, pass.tenant)

ProbeParent(p) ==
    /\ pass.phase = "probe" /\ p \in pass.probing
    /\ pass' = [pass EXCEPT !.probing = @ \ {p}, !.keys = IF Missing(p) THEN @ \cup {p} ELSE @]
    /\ UNCHANGED <<backend, job, rows, suspended, now, elapsed, touched, edits, failures>>

\* Every parent is known: SQLite turns the missing ones into the uids of the
\* rows that named them, MongoDB deletes by the parents themselves.
Probed ==
    /\ pass.phase = "probe" /\ pass.probing = {}
    /\ pass' = [pass EXCEPT !.phase = "delete", !.refs = <<>>,
                            !.keys = IF backend = "mongo" THEN @
                                     ELSE {u \in DOMAIN pass.refs : pass.refs[u] \cap pass.keys # {}}]
    /\ UNCHANGED <<backend, job, rows, suspended, now, elapsed, touched, edits, failures>>

\* DELETE ... IN: in batches on SQLite, the keys of a batch forgotten.
DeletePicked ==
    /\ pass.phase = "delete"
    /\ \E chunk \in IF backend = "sqlite" THEN kSubset(Min({Batch, Cardinality(pass.keys)}), pass.keys) ELSE {pass.keys} :
           /\ RemoveRows(Victims(pass.tenant, chunk))
           /\ pass' = IF chunk = pass.keys THEN [pass EXCEPT !.phase = "tenant", !.keys = {}]
                      ELSE [pass EXCEPT !.keys = @ \ chunk]
    /\ UNCHANGED <<backend, job, suspended, now, elapsed, touched, edits, failures>>

\* A query fails, or the job panics: invoke logs it and the pass ends, the
\* tenants still to do left for the next one.
Fail ==
    /\ pass.phase # "idle" /\ failures < MaxFailures /\ failures' = failures + 1
    /\ EndPass
    /\ UNCHANGED <<backend, job, rows, suspended, now, edits>>

--------------------------------------------------------------------------
(* Everybody else                                                          *)

\* A user or an alert creates the row, replaces it or deletes it.
Edit(u, docs) ==
    /\ edits < MaxEdits /\ edits' = edits + 1
    /\ \/ \E d \in docs : rows' = [x \in DOMAIN rows \cup {u} |-> IF x = u THEN d ELSE rows[x]]
       \/ u \in DOMAIN rows /\ RemoveRows({u})
    /\ touched' = IF pass.phase \in {"probe", "delete"} THEN touched \cup {u} ELSE {}
    /\ UNCHANGED <<backend, job, suspended, now, elapsed, pass, failures>>

SetStatus(t) ==
    /\ edits < MaxEdits /\ edits' = edits + 1
    /\ suspended' = (suspended \ {t}) \cup ({t} \ suspended)
    /\ UNCHANGED <<backend, job, rows, now, elapsed, pass, touched, failures>>

Tick ==
    /\ now < MaxNow /\ now' = now + 1
    /\ UNCHANGED <<backend, job, rows, suspended, elapsed, pass, touched, edits, failures>>

JobStep ==
    \/ ForEachTenant \/ Done \/ DeletePicked \/ Probed
    \/ (\E t \in Tenants : CleanAtOnce(t) \/ Scan(t) \/ ScanParents(t))
    \/ (\E p \in Uids \cup {NoUid} : ProbeParent(p))

HousekeeperNext(docs(_)) ==
    \/ JobStep \/ Poll \/ Fail \/ Tick
    \/ (\E u \in Uids : Edit(u, docs(u)))
    \/ (\E t \in Tenants : SetStatus(t))

\* The ticker keeps ticking and the goroutine of the job keeps running.
HousekeeperFairness == WF_housekeeperVars(JobStep) /\ WF_housekeeperVars(Poll) /\ WF_housekeeperVars(Tick)

--------------------------------------------------------------------------
(* Properties                                                              *)

HousekeeperTypeOK ==
    /\ DOMAIN rows \subseteq Uids /\ \A u \in DOMAIN rows : rows[u].tenant \in Tenants
    /\ suspended \subseteq Tenants /\ now \in 0..MaxNow /\ elapsed \in 0..Interval
    /\ pass.phase \in {"idle", "list", "tenant", "probe", "delete"}
    /\ pass.todo \subseteq Tenants /\ touched \subseteq Uids

mineOf(u) == {v \in DOMAIN rows : rows[v].tenant = rows[u].tenant}

\* A snooze or a notification window that can match at some instant from now.
CanMatch(windows) ==
    \/ windows = <<>>
    \/ \E w \in ToSet(windows) : w.until = Null \/ \E t \in now..MaxNow + 1 : t <= w.until

\* What makes a row worth nothing.  A comment that names no record is kept,
\* but for the SQL backends once its tenant has no record at all.
Useless(u) ==
    LET r == rows[u] IN
    CASE job = "timeout" -> r.ttl # Null /\ r.ttl >= 0 /\ r.epoch # Null /\ r.epoch + r.ttl <= now
      [] job = "comments" ->
            /\ IsComment(r) /\ NotIn(r.ref, RecordUids(rows, mineOf(u)))
            /\ backend = "mongo" => r.ref # NoUid
      [] job = "orphans" -> \E p \in Parents(r) : p \notin mineOf(u)
      [] job = "expired" -> ~ CanMatch(r.datetime)
      [] job = "audit" ->
            LET events == {v \in mineOf(u) : rows[v].object = r.object}
            IN  \A v \in events : \E d \in events :
                    rows[d].action = "delete" /\ rows[d].epoch < now - Retention /\ rows[d].epoch >= rows[v].epoch
      [] job = "stats" -> r.epoch < now - Retention
      [] OTHER -> TRUE

JobDeletes == DOMAIN rows \ DOMAIN rows'
ByJob == pass' # pass /\ pass.phase \in {"tenant", "delete"}

\* A cleanup deletes a row only when it is worth nothing by then, unless
\* someone wrote the row, or one it depends on, after the scan chose it; a
\* cleanup in one statement has no such excuse (cleanup.go of the drivers).
OnlyUselessDeleted ==
    [][ByJob => \A u \in JobDeletes :
            \/ Useless(u)
            \/ /\ pass.phase = "delete" /\ touched # {}
               /\ job \in {"timeout", "expired"} => u \in touched]_housekeeperVars

\* A job deletes rows of tenants that were active when the pass began, one
\* tenant at a time, and never those of another (tenant.go ForEachTenant,
\* "Suspended tenants are skipped"); only the aggregate collection is dropped
\* whole.
OtherTenantsKept ==
    [][(ByJob /\ job # "aggregate") =>
            \A u \in JobDeletes : rows[u].tenant = pass'.tenant /\ rows[u].tenant \notin pass.skipped]_housekeeperVars

\* A row a backend is sure to select.
Overdue(u) ==
    /\ u \in DOMAIN rows /\ rows[u].tenant \notin suspended /\ Useless(u)
    /\ job = "orphans" => Last(rows[u].parents) \notin mineOf(u)

\* However passes fail and tenants come and go, a row that stays worthless in
\* an active tenant is deleted: an error aborts the pass before the tenants
\* behind the failing one, and the next pass must still reach them.
EventuallyCleaned == \A u \in Uids : []<> ~ Overdue(u)
=============================================================================

------------------------------- MODULE Drivers -------------------------------
(***************************************************************************)
(* The storage drivers of internal/db: sqlite, postgres and mongo, on one  *)
(* tenant-scoped collection.  Clients are request handlers and flushers of *)
(* one or more server processes; backend is chosen in Init.                *)
(*                                                                         *)
(* An operation has two steps: Begin, where its look-ups read the table,   *)
(* and Commit, where its writes take effect.  What the look-ups returned   *)
(* (seen) may be out of date by then: sqlite refuses such a transaction    *)
(* (SQLITE_BUSY), postgres runs at READ COMMITTED and goes on, mongo has   *)
(* no transaction at all.  Operations that are a single statement read and *)
(* write in Commit.                                                        *)
(*                                                                         *)
(* A stored document has the fields uid, tenant_id, key (the primary       *)
(* field), c (a constant field), n (a counter), tags (a list) and m (a     *)
(* nested object); an absent field has its default value.  Which rows a    *)
(* condition selects is the subject of the module Conditions: here every   *)
(* condition is a match dictionary.                                        *)
(***************************************************************************)
EXTENDS Integers, Sequences, FiniteSets, SequencesExt

CONSTANTS Backends,     \* the drivers that are checked
          Clients,
          Tenants,
          Ops,          \* the operations, each with the scope of its caller
          Stored,       \* rows a run starts with: sequences of documents
          MaxOps        \* bound: calls

ASSUME DriversAssumption == MaxOps \in Nat

VARIABLES
    backend,   \* "sqlite", "postgres" or "mongo"
    table,     \* rows in insertion order: [id, doc, due]; id is the key column
               \* uid of the SQL tables, due counts the increments that were
               \* acknowledged since the row was written
    op,        \* client -> the operation it is in, or Idle
    seen,      \* client -> the table its look-ups read
    stale,     \* client -> the table was written since
    calls,     \* operations begun
    event,     \* uids of the last change notification
    reply,     \* client -> the documents its last read returned
    loose      \* some caller asked for a second row with a primary key

vars == <<backend, table, op, seen, stale, calls, event, reply, loose>>

Platform == "platform"      \* WithPlatformScope
Naked == "naked"            \* a context without tenant
Scopes == Tenants \cup {Platform, Naked}

Null == "null"
Fields == {"uid", "tenant_id", "key", "c", "n", "tags", "m"}
Blank == [uid |-> 0, tenant_id |-> "none", key |-> "none", c |-> "none",
          n |-> 0, tags |-> <<>>, m |-> [k \in {} |-> Null]]

Idle == [op |-> "idle", scope |-> Naked]

Get(d, f) == IF f \in DOMAIN d THEN d[f] ELSE Blank[f]
Filled(d) == [f \in Fields |-> Get(d, f)]
Over(patch, d) == [f \in Fields |-> IF f \in DOMAIN patch THEN patch[f] ELSE d[f]]

With(d, f, v) == [g \in DOMAIN d \cup {f} |-> IF g = f THEN v ELSE d[g]]
Joined(d, e) == [g \in DOMAIN d \cup DOMAIN e |->
                   IF g \in DOMAIN d THEN d[g] ELSE e[g]]
RemoveRows(t, rows) ==
    LET keep == SetToSortSeq(DOMAIN t \ rows, <) IN
    [i \in DOMAIN keep |-> t[keep[i]]]

-----------------------------------------------------------------------------
(* Tenant scope. *)

\* Platform scope adds no predicate and stamps nothing; a naked context is an
\* error before anything is read or written.
TenantScope(scope) ==
    CASE scope = Platform -> [inject |-> FALSE, fail |-> FALSE]
      [] scope = Naked    -> [inject |-> FALSE, fail |-> TRUE]
      [] OTHER            -> [inject |-> TRUE,  fail |-> FALSE]

Stamp(scope, d) ==
    IF TenantScope(scope).inject THEN With(d, "tenant_id", scope) ELSE d

\* The condition match AND tenant_id = scope (WithTenantCond).
Selects(scope, match, d) ==
    /\ TenantScope(scope).inject => d.tenant_id = scope
    /\ \A f \in DOMAIN match : d[f] = match[f]

Hits(t, scope, match) == {i \in DOMAIN t : Selects(scope, match, t[i].doc)}

AnyMatch == [f \in {} |-> 0]       \* the empty condition
AtUid(u) == [uid |-> u]
NoRow == 0
NoId == 0           \* mongo rows have no key column

\* LIMIT 1 without an order: any of the rows.
AnyHit(t, scope, match) ==
    IF Hits(t, scope, match) = {} THEN {NoRow} ELSE Hits(t, scope, match)

-----------------------------------------------------------------------------
(* What one statement does to the table. *)

AtRow(t, u) == {i \in DOMAIN t : t[i].id = u}
Owned(t, u) == AtRow(t, u) # {}

Row(u, d) == [id |-> u, doc |-> Filled(d), due |-> Get(d, "n")]
Patched(row, patch) ==
    [id |-> row.id, doc |-> Over(patch, row.doc),
     due |-> IF "n" \in DOMAIN patch THEN patch.n ELSE row.due]

OnRows(t, rows, F(_)) == [i \in DOMAIN t |-> IF i \in rows THEN F(t[i]) ELSE t[i]]

\* INSERT with a fresh seq; the key column is global.
insertRow(t, u, d) == Append(t, Row(u, d))

\* json_patch merges objects at every depth and takes a null for a deletion
\* (RFC 7396); m is the one field of the model it makes a difference to.
json_patch(old, new) ==
    LET both == Joined(new, old) IN
    [k \in {x \in DOMAIN both : both[x] # Null} |-> both[k]]

\* sqlite: UPDATE ... SET data = json_patch(data, patch) WHERE uid = ?
SqliteUpdateRow(t, u, patch) ==
    LET Merged(d) == IF "m" \in DOMAIN patch THEN [patch EXCEPT !.m = json_patch(d.m, @)] ELSE patch
    IN  OnRows(t, AtRow(t, u), LAMBDA r : Patched(r, With(Merged(r.doc), "uid", u)))

\* Mutant of SqliteReplaceRow: without the ON CONFLICT clause.
SqliteReplaceRowInserting(t, u, d) == insertRow(t, u, With(d, "uid", u))

\* sqlite: INSERT ... ON CONFLICT(uid) DO UPDATE SET data = excluded.data.
SqliteReplaceRow(t, u, d) ==
    IF Owned(t, u) THEN OnRows(t, AtRow(t, u), LAMBDA r : Row(u, With(d, "uid", u)))
    ELSE insertRow(t, u, With(d, "uid", u))

\* Mutant of Fenced: the conflict clause has no tenant predicate.
FencedByUidOnly(t, scope, u) == AtRow(t, u)

Fenced(t, scope, u) == AtRow(t, u) \cap Hits(t, scope, AnyMatch)

\* postgres: upsert on uid, data || patch, fenced by the tenant of the row.
PgMergeRow(t, u, patch, scope) ==
    IF Owned(t, u)
    THEN OnRows(t, Fenced(t, scope, u), LAMBDA r : Patched(r, patch))
    ELSE insertRow(t, u, patch)

\* postgres: upsert on uid, data = doc, fenced by the tenant of the row.
PgReplaceRow(t, u, d, scope) ==
    IF Owned(t, u)
    THEN OnRows(t, Fenced(t, scope, u), LAMBDA r : Row(u, d))
    ELSE insertRow(t, u, d)

\* The read-modify-write of the SQL drivers: the document d, computed from
\* what the look-up returned, replaces the stored one (writeRowData).
writeRowData(t, u, d, by) ==
    OnRows(t, AtRow(t, u), LAMBDA r : [id |-> u, doc |-> d, due |-> r.due + by])

-----------------------------------------------------------------------------
(* Write: what becomes of one document. *)

\* An empty primary value counts as present in postgres only.
SqlitePrimaryPresent(d) == Get(d, "key") \notin {"none", ""}
PgPrimaryPresent(d) == Get(d, "key") # "none"
allPrimariesPresent(d) == Get(d, "key") \notin {"none", ""}     \* mongo

PrimaryPresent(b, d) == CASE b = "sqlite"   -> SqlitePrimaryPresent(d)
                          [] b = "postgres" -> PgPrimaryPresent(d)
                          [] b = "mongo"    -> allPrimariesPresent(d)

\* sqlite takes an absent constant field for an empty one.
violatesConstant(old, d) ==
    /\ Get(old, "c") # Get(d, "c")
    /\ {Get(old, "c"), Get(d, "c")} # {"none", ""}

constantViolation(old, d) == Get(old, "c") # Get(d, "c")         \* postgres

\* Mutant of anyConstantDiffers: constants are not looked at.
noConstantDiffers(old, d) == FALSE

anyConstantDiffers(old, d) == Get(old, "c") # Get(d, "c")        \* mongo

ConstantChanged(b, old, d) == CASE b = "sqlite"   -> violatesConstant(old, d)
                                [] b = "postgres" -> constantViolation(old, d)
                                [] b = "mongo"    -> anyConstantDiffers(old, d)

PrimaryRow(b, s, scope, d) ==
    IF PrimaryPresent(b, d) THEN AnyHit(s, scope, [key |-> d.key]) ELSE {NoRow}

Verdict(act, row) == [act |-> act, row |-> row]

\* The branches of the three Write methods on a document that is already
\* stamped, read from the table s the look-ups see.
Decide(b, s, scope, policy, d) ==
    {LET mine == Hits(s, scope, AtUid(d.uid)) IN
     IF "uid" \in DOMAIN d
     THEN IF mine = {} \/ p \notin mine \cup {NoRow} THEN Verdict("reject", p)
          ELSE LET e == CHOOSE i \in mine : TRUE IN
               IF ConstantChanged(b, s[e].doc, d) THEN Verdict("reject", e)
               ELSE Verdict(IF policy = "replace" THEN "replace" ELSE "merge", e)
     ELSE IF p = NoRow THEN Verdict("insert", p)
     ELSE IF ConstantChanged(b, s[p].doc, d) THEN Verdict("reject", p)
     ELSE Verdict(IF policy = "update" THEN "merge" ELSE policy, p)
     : p \in PrimaryRow(b, s, scope, d)}

\* One document of a SQL batch, in a transaction that sees s and writes t:
\* the transaction sees its own writes.
SqlApply(b, t, scope, v, u, d) ==
    CASE v.act = "reject" -> t
      [] v.act = "insert" -> insertRow(t, u, With(d, "uid", u))
      [] v.act = "merge" /\ b = "sqlite" -> SqliteUpdateRow(t, u, d)
      [] v.act = "replace" /\ b = "sqlite" -> SqliteReplaceRow(t, u, d)
      [] v.act = "merge" -> PgMergeRow(t, u, d, scope)
      [] v.act = "replace" -> PgReplaceRow(t, u, With(d, "uid", u), scope)

SqlWriteOne(b, o, st, j) ==
    LET d == Stamp(o.scope, o.docs[j]) IN
    {LET u == IF v.act = "insert" THEN o.fresh + j
              ELSE IF v.row = NoRow THEN NoId ELSE st.s[v.row].id
     IN [s |-> SqlApply(b, st.s, o.scope, v, u, d),
         t |-> SqlApply(b, st.t, o.scope, v, u, d),
         ev |-> st.ev \cup IF v.act = "reject" THEN {} ELSE {u}]
     : v \in Decide(b, st.s, o.scope, o.policy, d)}

SqlWrite(b, o, s, t) ==
    FoldLeft(LAMBDA acc, j : UNION {SqlWriteOne(b, o, st, j) : st \in acc},
             {[s |-> s, t |-> t, ev |-> {}]},
             [j \in 1 .. Len(o.docs) |-> j])

\* mongo addresses the row by the query it was found with, and keeps all
\* inserts for one InsertMany after the loop.
MongoWriteOne(o, st, j) ==
    LET d == Stamp(o.scope, o.docs[j])
        query == IF "uid" \in DOMAIN d THEN AtUid(d.uid) ELSE [key |-> d.key]
        Put(row, v) == IF v.act = "merge" THEN Patched(row, d)
                       ELSE Row(row.id, With(d, "uid", st.s[v.row].doc.uid))
    IN UNION {
        CASE v.act = "reject" -> {st}
          [] v.act = "insert" ->
               {[st EXCEPT !.ins = Append(@, With(d, "uid", o.fresh + j))]}
          [] OTHER ->
               {[st EXCEPT !.t = OnRows(@, {i}, LAMBDA r : Put(r, v)),
                           !.s = OnRows(@, {v.row}, LAMBDA r : Put(r, v))]
                : i \in AnyHit(st.t, o.scope, query)}
        : v \in Decide("mongo", st.s, o.scope, o.policy, d)}

MongoWrite(o, s, t) ==
    {[st EXCEPT !.t = FoldLeft(LAMBDA t2, d : insertRow(t2, NoId, d), @, st.ins)]
     : st \in FoldLeft(LAMBDA acc, j : UNION {MongoWriteOne(o, st, j) : st \in acc},
                       {[s |-> s, t |-> t, ev |-> {}, ins |-> <<>>]},
                       [j \in 1 .. Len(o.docs) |-> j])}

-----------------------------------------------------------------------------
(* The other operations.  Each is the set of its outcomes: the table and   *)
(* the uids of the change notification.                                    *)

Outcome(t, ev) == [t |-> t, ev |-> ev]

\* A row whose uid is another tenant's: the insert fails on the primary key
\* and the transaction is rolled back.
ReplaceOrInsert(o, s, t, Put(_, _)) ==
    LET d == Stamp(o.scope, Joined(o.match, o.doc)) IN
    {IF i # NoRow THEN Outcome(Put(s[i].id, d), {s[i].id})
     ELSE LET u == IF "uid" \in DOMAIN d THEN d.uid ELSE o.fresh + 1 IN
          IF Owned(t, u) THEN Outcome(t, {})
          ELSE Outcome(insertRow(t, u, With(d, "uid", u)), {u})
     : i \in AnyHit(s, o.scope, o.match)}

SqliteReplaceOne(o, s, t) ==
    ReplaceOrInsert(o, s, t, LAMBDA u, d : SqliteReplaceRow(t, u, d))
PgReplaceOne(o, s, t) ==
    ReplaceOrInsert(o, s, t, LAMBDA u, d :
        PgReplaceRow(t, u, Joined(d, AtUid(u)), o.scope))

SqliteUpdateOne(o, s, t) ==
    LET d == With(Stamp(o.scope, o.doc), "uid", o.uid) IN
    {Outcome(IF Hits(s, o.scope, AtUid(o.uid)) # {} THEN SqliteUpdateRow(t, o.uid, d)
             ELSE IF Owned(t, o.uid) THEN t
             ELSE insertRow(t, o.uid, d), {o.uid})}

PgUpdateOne(o, t) ==
    LET d == With(Stamp(o.scope, o.doc), "uid", o.uid) IN
    {Outcome(PgMergeRow(t, o.uid, d, o.scope), {o.uid})}

\* A mongo upsert finds and inserts in two steps: with no unique index on the
\* collection, an upsert that saw no row inserts one although there is one by
\* now.
MongoUpsert(o, s, t, match, d, F(_)) ==
    {Outcome(OnRows(t, {i}, F), {}) : i \in Hits(t, o.scope, match)}
    \cup IF Hits(s, o.scope, match) = {} THEN {Outcome(insertRow(t, NoId, d), {})} ELSE {}

\* The replacement is stored as it is: without a uid when the match and the
\* document have none.
MongoReplaceOne(o, s, t) ==
    LET d == Stamp(o.scope, Joined(o.match, o.doc)) IN
    MongoUpsert(o, s, t, o.match, d, LAMBDA r : Row(NoId, d))

\* uid and tenant_id stay out of $set.
MongoUpdateOne(o, s, t) ==
    MongoUpsert(o, s, t, AtUid(o.uid), With(Stamp(o.scope, o.doc), "uid", o.uid),
                LAMBDA r : Patched(r, o.doc))

\* An empty condition deletes only when forced.
Doomed(o, t) == IF o.match = AnyMatch /\ ~ o.force THEN {}
                ELSE Hits(t, o.scope, o.match)

\* Mutant of SqliteDelete: the uids are collected after the rows are gone.
SqliteDeleteSilently(o, s, t) == {Outcome(RemoveRows(t, Doomed(o, t)), {})}

\* The uids are read first, for the notification.
SqliteDelete(o, s, t) ==
    {Outcome(RemoveRows(t, Doomed(o, t)), {s[i].id : i \in Doomed(o, s)})}

PgDelete(o, t) ==
    {Outcome(RemoveRows(t, Doomed(o, t)), {t[i].id : i \in Doomed(o, t)})}

MongoDelete(o, t) == {Outcome(RemoveRows(t, Doomed(o, t)), {})}

Raise(r, by) == [r EXCEPT !.doc.n = @ + by, !.due = @ + by]

\* One UPDATE statement in every backend.  The SQL drivers publish nothing.
SqliteIncMany(o, t) ==
    {Outcome(OnRows(t, Hits(t, o.scope, o.match), LAMBDA r : Raise(r, 1)), {})}
PgIncMany(o, t) ==
    {Outcome(OnRows(t, Hits(t, o.scope, o.match), LAMBDA r : Raise(r, 1)), {})}
MongoIncMany(o, t) ==
    {Outcome(OnRows(t, Hits(t, o.scope, o.match), LAMBDA r : Raise(r, 1)), {})}

RaiseOrUpsert(o, s, t) ==
    {IF i # NoRow
     THEN Outcome(writeRowData(t, s[i].id, Raise(s[i], 1).doc, 1), {s[i].id})
     ELSE IF ~ o.upsert THEN Outcome(t, {})
     ELSE LET u == IF "uid" \in DOMAIN o.match THEN o.match.uid ELSE o.fresh + 1 IN
          IF Owned(t, u) THEN Outcome(t, {})
          ELSE Outcome(insertRow(t, u, With(Stamp(o.scope, With(o.match, "n", 1)),
                                            "uid", u)), {u})
     : i \in AnyHit(s, o.scope, o.match)}

SqliteBulkIncrement(o, s, t) == RaiseOrUpsert(o, s, t)
PgBulkIncrement(o, s, t) == RaiseOrUpsert(o, s, t)

\* Mutant of MongoBulkIncrement: $set of a sum computed by the client.
MongoBulkIncrementByClient(o, s, t) ==
    {Outcome(OnRows(t, {i} \cap DOMAIN t,
                    LAMBDA r : [Raise(r, 1) EXCEPT !.doc.n = s[i].doc.n + 1]), {})
     : i \in AnyHit(s, o.scope, o.match)}

\* $inc is atomic; the upserted row has no uid.
MongoBulkIncrement(o, s, t) ==
    IF o.upsert
    THEN MongoUpsert(o, s, t, o.match, Stamp(o.scope, With(o.match, "n", 1)),
                     LAMBDA r : Raise(r, 1))
    ELSE IF Hits(t, o.scope, o.match) = {} THEN {Outcome(t, {})}
    ELSE {Outcome(OnRows(t, {i}, LAMBDA r : Raise(r, 1)), {})
          : i \in Hits(t, o.scope, o.match)}

\* SetFields, UnsetFields, AppendList, PrependList and RemoveList on a document.
Mutated(o, d) ==
    CASE o.op = "set"     -> Over(o.doc, d)
      [] o.op = "unset"   -> [d EXCEPT ![o.field] = Blank[o.field]]
      [] o.op = "append"  -> [d EXCEPT !.tags = @ \o o.values]
      [] o.op = "prepend" -> [d EXCEPT !.tags = o.values \o @]
      [] o.op = "remove"  -> [d EXCEPT !.tags =
                                SelectSeq(@, LAMBDA x : x \notin Range(o.values))]

\* Does the callback ask for the row to be written back?
Touches(o, d) == o.op \in {"unset", "remove"} => Mutated(o, d) # d

Rewrite(o, s, t) ==
    LET rows == {i \in Hits(s, o.scope, o.match) : Touches(o, s[i].doc)}
        ids == {s[i].id : i \in rows}
        DocOf(u) == Mutated(o, s[CHOOSE i \in rows : s[i].id = u].doc)
    IN {Outcome([i \in DOMAIN t |->
                   IF t[i].id \in ids THEN [t[i] EXCEPT !.doc = DocOf(t[i].id)]
                   ELSE t[i]], ids)}

updateViaPython(o, s, t) == Rewrite(o, s, t)            \* sqlite
updateRowsViaCallback(o, s, t) == Rewrite(o, s, t)      \* postgres

\* UpdateMany with $set, $unset, $push or $pull.
MongoMutate(o, t) ==
    {Outcome(OnRows(t, Hits(t, o.scope, o.match),
                    LAMBDA r : [r EXCEPT !.doc = Mutated(o, @)]), {})}

ListOps == {"set", "unset", "append", "prepend", "remove"}
Reads == {"get", "search"}

PageOf(o, t, Before(_, _)) ==
    LET rows == SetToSortSeq(Hits(t, o.scope, o.match), Before)
        page == SubSeq(rows, (o.page - 1) * o.per + 1, Min({o.page * o.per, Len(rows)}))
    IN [i \in DOMAIN page |-> t[page[i]].doc]

\* ORDER BY seq, LIMIT and OFFSET.  Without a sort field postgres ignores the
\* direction; sqlite and mongo sort the newest first unless asked otherwise.
SqliteSearch(o, t) == PageOf(o, t, LAMBDA i, j : IF o.asc THEN i < j ELSE i > j)
PgSearch(o, t) == PageOf(o, t, LAMBDA i, j : i < j)
MongoSearch(o, t) == PageOf(o, t, LAMBDA i, j : IF o.asc THEN i < j ELSE i > j)

One(o) == [o EXCEPT !.asc = FALSE, !.page = 1, !.per = 1]

\* The newest row in sqlite, the oldest in postgres, any in mongo.
SqliteGetOne(o, t) == {SqliteSearch(One(o), t)}
PgGetOne(o, t) == {PgSearch(One(o), t)}
MongoGetOne(o, t) ==
    IF Hits(t, o.scope, o.match) = {} THEN {<<>>}
    ELSE {<<t[i].doc>> : i \in Hits(t, o.scope, o.match)}

-----------------------------------------------------------------------------
(* A call of a driver method. *)

\* What the operation o of the driver b does when its look-ups see s and its
\* statements write t.
Effects(b, o, s, t) ==
    CASE TenantScope(o.scope).fail \/ o.op \in Reads -> {Outcome(t, {})}
      [] o.op = "write"   -> IF b = "mongo" THEN MongoWrite(o, s, t)
                             ELSE SqlWrite(b, o, s, t)
      [] o.op = "replace" -> IF b = "mongo" THEN MongoReplaceOne(o, s, t)
                             ELSE IF b = "postgres" THEN PgReplaceOne(o, s, t)
                             ELSE SqliteReplaceOne(o, s, t)
      [] o.op = "update"  -> IF b = "mongo" THEN MongoUpdateOne(o, s, t)
                             ELSE IF b = "postgres" THEN PgUpdateOne(o, t)
                             ELSE SqliteUpdateOne(o, s, t)
      [] o.op = "delete"  -> IF b = "mongo" THEN MongoDelete(o, t)
                             ELSE IF b = "postgres" THEN PgDelete(o, t)
                             ELSE SqliteDelete(o, s, t)
      [] o.op = "inc"     -> IF b = "mongo" THEN MongoIncMany(o, t)
                             ELSE IF b = "postgres" THEN PgIncMany(o, t)
                             ELSE SqliteIncMany(o, t)
      [] o.op = "bulk"    -> IF b = "mongo" THEN MongoBulkIncrement(o, s, t)
                             ELSE IF b = "postgres" THEN PgBulkIncrement(o, s, t)
                             ELSE SqliteBulkIncrement(o, s, t)
      [] o.op \in ListOps -> IF b = "mongo" THEN MongoMutate(o, t)
                             ELSE IF b = "postgres" THEN updateRowsViaCallback(o, s, t)
                             ELSE updateViaPython(o, s, t)

Replies(b, o, t) ==
    CASE TenantScope(o.scope).fail -> {<<>>}
      [] o.op = "search" -> {IF b = "mongo" THEN MongoSearch(o, t)
                             ELSE IF b = "postgres" THEN PgSearch(o, t)
                             ELSE SqliteSearch(o, t)}
      [] o.op = "get"    -> IF b = "mongo" THEN MongoGetOne(o, t)
                            ELSE IF b = "postgres" THEN PgGetOne(o, t)
                            ELSE SqliteGetOne(o, t)
      [] OTHER           -> {<<>>}

\* Mutant of SqliteBusy: the transactions do not notice each other.
SqliteNeverBusy(c) == FALSE

\* A deferred sqlite transaction that has read cannot write once another
\* connection has committed: it fails with SQLITE_BUSY and is rolled back.
SqliteBusy(c) ==
    /\ backend = "sqlite"
    /\ stale[c]
    /\ op[c].op \notin Reads \cup {"inc"}

\* Does the caller itself ask for a second row with the same primary value?
Loosens(o) ==
    \/ o.op = "write" /\ o.policy = "insert"
    \/ o.op \in {"update", "set"} /\ "key" \in DOMAIN o.doc

Init ==
    /\ backend \in Backends
    /\ table \in {[i \in DOMAIN rows |-> Row(rows[i].uid, rows[i])] : rows \in Stored}
    /\ op = [c \in Clients |-> Idle]
    /\ seen = [c \in Clients |-> <<>>]
    /\ stale = [c \in Clients |-> FALSE]
    /\ calls = 0
    /\ event = {}
    /\ reply = <<>>
    /\ loose = FALSE

\* The call starts and its look-ups read the table.
Begin(c) ==
    /\ op[c] = Idle
    /\ calls < MaxOps
    /\ \E o \in Ops : op' = [op EXCEPT ![c] = With(o, "fresh", 2 * calls + 1)]
    /\ seen' = [seen EXCEPT ![c] = table]
    /\ stale' = [stale EXCEPT ![c] = FALSE]
    /\ calls' = calls + 1
    /\ UNCHANGED <<backend, table, event, reply, loose>>

\* Its writes take effect together and the call returns.
Commit(c) ==
    /\ op[c] # Idle
    /\ \E e \in IF SqliteBusy(c) THEN {Outcome(table, {})}
                ELSE Effects(backend, op[c], seen[c], table) :
         /\ table' = e.t
         /\ event' = e.ev
         /\ stale' = [k \in Clients |->
                        k # c /\ op[k] # Idle /\ (stale[k] \/ e.t # table)]
    /\ reply' \in Replies(backend, op[c], table)
    /\ op' = [op EXCEPT ![c] = Idle]
    /\ seen' = [seen EXCEPT ![c] = <<>>]
    /\ loose' = (loose \/ Loosens(op[c]))
    /\ UNCHANGED <<backend, calls>>

Next == \E c \in Clients : Begin(c) \/ Commit(c)

Spec == Init /\ [][Next]_vars

-----------------------------------------------------------------------------
(* Properties. *)

\* Rows, calls and notifications are well formed.
TypeOK ==
    /\ backend \in {"sqlite", "postgres", "mongo"}
    /\ \A i \in DOMAIN table :
         /\ DOMAIN table[i].doc = Fields
         /\ table[i].doc.n \in Nat /\ table[i].due \in Nat
         /\ table[i].id \in 0 .. 2 * MaxOps + 1
         /\ table[i].doc.tenant_id \in Tenants
    /\ \A i, j \in DOMAIN table :
         (i # j /\ table[i].id # NoId) => table[i].id # table[j].id
    /\ calls \in 0 .. MaxOps
    /\ \A c \in Clients : op[c].scope \in Scopes
    /\ event \subseteq 0 .. 2 * MaxOps + 1

Returns(c) == op[c] # Idle /\ op'[c] = Idle
OfOthers(t, scope) == SelectSeq(t, LAMBDA r : r.doc.tenant_id # scope)

\* A call made for one tenant neither changes nor returns a row of another
\* one, even when it addresses the row by its global uid or commits after
\* another client's write; a call without tenant changes and returns nothing.
\* In postgres the rewriting statement is addressed by uid alone, so there
\* it holds of calls whose look-ups are not out of date.
TenantIsolation ==
    [][\A c \in Clients : (Returns(c) /\ (backend = "postgres" => ~ stale[c])) =>
         /\ op[c].scope \in Tenants =>
              /\ OfOthers(table', op[c].scope) = OfOthers(table, op[c].scope)
              /\ \A i \in DOMAIN reply' : reply'[i].tenant_id = op[c].scope
         /\ op[c].scope = Naked => table' = table /\ reply' = <<>>]_vars

NoDuplicates(t) ==
    \A i, j \in DOMAIN t :
       (/\ i # j
        /\ t[i].doc.tenant_id = t[j].doc.tenant_id
        /\ t[i].doc.key = t[j].doc.key)
       => t[i].doc.key \in {"none", ""}

\* In sqlite the primary fields identify a row within its tenant, whatever
\* clients interleave, unless a caller asked for a duplicate.
SqlitePrimaryUnique == (backend = "sqlite" /\ ~ loose) => NoDuplicates(table)

\* WriteOptions: the primary fields "uniquely identify a record for upsert
\* purposes", whatever the backend.  Fails for postgres and mongo, where two
\* writers both miss the row and both insert it.
PrimaryIdentifies == ~ loose => NoDuplicates(table)

\* No acknowledged increment is lost or counted twice.  Fails for postgres,
\* whose BulkIncrement reads the row at READ COMMITTED without a lock and writes
\* the sum back: of two at once one is lost.
IncrementsKept == \A i \in DOMAIN table : table[i].doc.n = table[i].due

\* In sqlite and mongo no acknowledged increment is lost or counted twice,
\* whatever the other clients write to the row in between.
CountersExact ==
    backend \in {"sqlite", "mongo"} => IncrementsKept

\* The rows of t without what the backends name differently.
Contents(t) == [i \in DOMAIN t |-> [t[i].doc EXCEPT !.uid = 0]]

\* The documents a merge writes over stored ones.
Patches(o) == IF o.op = "write" THEN Range(o.docs) ELSE IF o.op = "update" THEN {o.doc} ELSE {}

\* The inputs on which the three drivers agree: no nested object in a patch,
\* which sqlite alone merges with the stored one, no empty strings, no two
\* documents of a batch or rows of a tenant with one primary value, no uid of
\* another tenant, and an ascending sort.
Conforming(o, t) ==
    /\ \A d \in Patches(o) : "m" \notin DOMAIN d
    /\ NoDuplicates(t)
    /\ \A i \in DOMAIN t : "" \notin {t[i].doc.key, t[i].doc.c}
    /\ o.op = "write" =>
         /\ \A j \in DOMAIN o.docs : "" \notin {Get(o.docs[j], "key"), Get(o.docs[j], "c")}
         /\ \A j, k \in DOMAIN o.docs :
              Get(o.docs[j], "key") = Get(o.docs[k], "key") => j = k
    /\ o.op = "update" => (Owned(t, o.uid) => Hits(t, o.scope, AtUid(o.uid)) # {})
    /\ o.op \in {"replace", "bulk"} /\ "uid" \in DOMAIN o.match =>
         (Owned(t, o.match.uid) => Hits(t, o.scope, AtUid(o.match.uid)) # {})
    /\ o.op \in Reads => o.asc

\* Called on the same rows, the three drivers leave the same rows, up to uids
\* they generate, and return the same documents.
DriversAgree ==
    backend = "sqlite" =>
    \A c \in Clients : (op[c] # Idle /\ Conforming(op[c], table)) =>
        \A b \in {"postgres", "mongo"} :
            /\ {Contents(e.t) : e \in Effects(b, op[c], table, table)}
               = {Contents(e.t) : e \in Effects("sqlite", op[c], table, table)}
            /\ op[c].op = "search" =>
               Replies(b, op[c], table) = Replies("sqlite", op[c], table)

IdsOf(t) == {t[i].id : i \in DOMAIN t}

\* The methods above of the SQL drivers name every row they created, changed or
\* removed in the change notification, on which the caches rely.  IncMany, whose
\* counters nothing caches, is an exception, and so are the cleanups, which are
\* no operation of this module (see CommitSilently of Syncer and ChangeFeeds).
ChangesAnnounced ==
    [][\A c \in Clients : (Returns(c) /\ backend # "mongo" /\ op[c].op # "inc") =>
         /\ (IdsOf(table) \ IdsOf(table')) \cup (IdsOf(table') \ IdsOf(table))
               \subseteq event'
         /\ \A i \in DOMAIN table : \A j \in DOMAIN table' :
              (table[i].id = table'[j].id /\ table[i].doc # table'[j].doc)
              => table[i].id \in event']_vars
=============================================================================

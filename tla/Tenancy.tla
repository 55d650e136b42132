------------------------------ MODULE Tenancy ------------------------------
(***************************************************************************)
(* Tenants (internal/api/routes_tenant.go and ingest_reload.go, the ingest *)
(* middleware, internal/migrate, internal/auth/bootstrap.go and            *)
(* tenant_admin.go, internal/core/bootstrap_db.go and secrets.go).         *)
(*                                                                         *)
(* A tenant is made by several writes (its document, its roles, its marker, *)
(* its administrator) and removed by several (suspension, one purge per    *)
(* collection, its document); a request may stop between any two.  What a  *)
(* tenant has in a collection is one row, live or late: late when it was   *)
(* written after the deletion had swept that collection.                   *)
(***************************************************************************)
EXTENDS Sessions, Sequences

CONSTANTS Scoped,        \* TenantScopedCollections, in order
          Unscoped,      \* tenant collections that are not among them
          IngestTokens,
          Nodes,         \* servers that boot on the same database
          NoSecret

\* The collections written by name below are on the list.
ASSUME TenancyAssumption ==
    /\ Scoped \in Seq(STRING)
    /\ \A col \in {"record", "user", "role", "refresh_token", "general"} : \E i \in DOMAIN Scoped : Scoped[i] = col
    /\ \A i \in DOMAIN Scoped : Scoped[i] # "migration sentinel"
    /\ NoSecret \notin Nodes

VARIABLES rows,          \* [collection -> [slug -> "none", "live" or "late"]]
          admin,         \* [slug -> the administrator's password, "" for none]
          jobs,          \* [Requests -> the tenant request's progress]
          strays,        \* registry documents without an id
          table,         \* the token -> tenant table in memory
          dirty,         \* the announcement of the registry's last changes: "none"
                         \* left, "due", or "lost" on its way or by a failed reload
          legacy,        \* collections with rows that have no tenant
          migration,     \* the migration's next stage, 0 before it starts
          secret,        \* the signing key in the database
          boots          \* [Nodes -> its progress and the key it signs with]

tenancyVars == <<rows, admin, jobs, strays, table, dirty, legacy, migration, secret, boots>>

ScopedSet == {Scoped[i] : i \in DOMAIN Scoped}
Collections == ScopedSet \cup Unscoped
Existing == {t \in Slugs : registry[t] # NoDoc}

\* A row written by a request of tenant t, after the deletion in progress has
\* swept the collection or before.
Swept(t, col) ==
    \E r \in Requests : /\ jobs[r].pc \in {"purge", "remove"} /\ jobs[r].id = t
                        /\ \A i \in jobs[r].at .. Len(Scoped) : Scoped[i] # col
Written(t, col) == IF registry[t] = NoDoc \/ Swept(t, col) THEN "late" ELSE "live"
WriteRow(R, t, col) == [R EXCEPT ![col][t] = IF @ = "live" THEN "live" ELSE Written(t, col)]

\* The change feed may drop the event; one that is due already is for both.
Announce == dirty' = "due" \/ (dirty # "due" /\ dirty' = "lost")

--------------------------------------------------------------------------
(* Create                                                                  *)

\* handleTenantCreate's first write; a second document with the id is refused.
handleTenantCreate(r, c, t, listed, token, key) ==
    /\ jobs[r].pc = "idle" /\ RequirePlatformPerm(c, {PermWriteTenant})
    /\ registry[t] = NoDoc
    /\ registry' = [registry EXCEPT ![t] = [status |-> "active", listed |-> listed, token |-> token, login_key |-> key]]
    /\ Announce
    /\ jobs' = [jobs EXCEPT ![r] = [pc |-> "seed", id |-> t]]
    /\ UNCHANGED <<rows, admin, strays, table, legacy, migration, secret, boots>>

\* seedTenant writes the roles, then the marker.
seedTenant(r) ==
    /\ jobs[r].pc \in {"seed", "marker"}
    /\ LET col == IF jobs[r].pc = "seed" THEN "role" ELSE "general"
       IN  rows' = WriteRow(rows, jobs[r].id, col)
    /\ jobs' = [jobs EXCEPT ![r].pc = IF @ = "seed" THEN "marker" ELSE "admin"]
    /\ UNCHANGED <<registry, admin, strays, table, dirty, legacy, migration, secret, boots>>

\* EnsureTenantAdmin: an existing account keeps its password unless it is reset.
EnsureTenantAdmin(r, password, reset) ==
    LET t == jobs[r].id
    IN  /\ admin' = [admin EXCEPT ![t] = IF @ # "" /\ ~ reset THEN @ ELSE password]
        /\ rows' = WriteRow(rows, t, "user")
        /\ jobs' = [jobs EXCEPT ![r] = Idle]
        /\ UNCHANGED <<registry, strays, table, dirty, legacy, migration, secret, boots>>

CreateAdmin(r, password) == jobs[r].pc = "admin" /\ EnsureTenantAdmin(r, password, FALSE)

handleTenantAdminReset(r, c, t) ==
    /\ jobs[r].pc = "idle" /\ RequirePlatformPerm(c, {PermWriteTenant})
    /\ registry[t] # NoDoc
    /\ jobs' = [jobs EXCEPT ![r] = [pc |-> "reset", id |-> t]]
    /\ UNCHANGED <<registry, rows, admin, strays, table, dirty, legacy, migration, secret, boots>>

ResetAdmin(r, password) == jobs[r].pc = "reset" /\ EnsureTenantAdmin(r, password, TRUE)

--------------------------------------------------------------------------
(* Update: the document is found, then updated by its uid.  A document that *)
(* was deleted in between comes back without an id.                        *)

handleTenantUpdate(r, c, t, patch) ==
    /\ jobs[r].pc = "idle" /\ RequirePlatformPerm(c, {PermWriteTenant})
    /\ registry[t] # NoDoc
    /\ jobs' = [jobs EXCEPT ![r] = [pc |-> "update", id |-> t, patch |-> patch]]
    /\ UNCHANGED <<registry, rows, admin, strays, table, dirty, legacy, migration, secret, boots>>

\* A request in flight is no longer shut out when the tenant is opened.
Reopened(t, doc) ==
    login' = [c \in Clients |->
        IF login[c].pc # "idle" /\ login[c].id.tenant = t /\ doc.status = "active"
        THEN [login[c] EXCEPT !.shut = FALSE] ELSE login[c]]

\* handleTenantRotateLoginKey has the same two steps, with a new login key.
UpdateTenant(r) ==
    LET t == jobs[r].id
    IN  /\ jobs[r].pc = "update"
        /\ IF registry[t] = NoDoc
           THEN strays' = strays \cup {t} /\ UNCHANGED <<registry, login>>
           ELSE /\ registry' = [registry EXCEPT ![t] = Merged(jobs[r].patch, @)]
                /\ Reopened(t, registry'[t]) /\ UNCHANGED strays
        /\ Announce
        /\ jobs' = [jobs EXCEPT ![r] = Idle]
        /\ UNCHANGED <<rows, admin, table, legacy, migration, secret, boots>>

--------------------------------------------------------------------------
(* Delete                                                                  *)

handleTenantDelete(r, c, t) ==
    /\ jobs[r].pc = "idle" /\ RequirePlatformPerm(c, {PermWriteTenant})
    /\ t # DefaultTenant /\ registry[t] # NoDoc
    /\ jobs' = [jobs EXCEPT ![r] = [pc |-> IF registry[t].status = "suspended" THEN "purge" ELSE "suspend", id |-> t, at |-> 1]]
    /\ UNCHANGED <<registry, rows, admin, strays, table, dirty, legacy, migration, secret, boots>>

DeleteSuspend(r) ==
    LET t == jobs[r].id
    IN  /\ jobs[r].pc = "suspend"
        /\ IF registry[t] = NoDoc
           THEN strays' = strays \cup {t} /\ UNCHANGED registry
           ELSE registry' = [registry EXCEPT ![t].status = "suspended"] /\ UNCHANGED strays
        /\ Announce
        /\ jobs' = [jobs EXCEPT ![r].pc = "purge"]
        /\ UNCHANGED <<rows, admin, table, legacy, migration, secret, boots>>

\* Mutant of DeletePurge: the last collection of the list is skipped.
DeletePurgeShort(r) ==
    LET j == jobs[r]
    IN  /\ j.pc = "purge"
        /\ rows' = [rows EXCEPT ![Scoped[j.at]][j.id] = "none"]
        /\ admin' = IF Scoped[j.at] = "user" THEN [admin EXCEPT ![j.id] = ""] ELSE admin
        /\ jobs' = [jobs EXCEPT ![r].at = @ + 1, ![r].pc = IF j.at + 1 >= Len(Scoped) THEN "remove" ELSE "purge"]
        /\ UNCHANGED <<registry, strays, table, dirty, legacy, migration, secret, boots>>

\* Mutant of DeletePurge: the collection is emptied.
DeletePurgeAll(r) ==
    LET j == jobs[r]
    IN  /\ j.pc = "purge"
        /\ rows' = [rows EXCEPT ![Scoped[j.at]] = [t \in Slugs |-> "none"]]
        /\ jobs' = [jobs EXCEPT ![r].at = @ + 1, ![r].pc = IF j.at = Len(Scoped) THEN "remove" ELSE "purge"]
        /\ UNCHANGED <<registry, admin, strays, table, dirty, legacy, migration, secret, boots>>

DeletePurge(r) ==
    LET j == jobs[r]
    IN  /\ j.pc = "purge"
        /\ rows' = [rows EXCEPT ![Scoped[j.at]][j.id] = "none"]
        /\ admin' = IF Scoped[j.at] = "user" THEN [admin EXCEPT ![j.id] = ""] ELSE admin
        /\ jobs' = [jobs EXCEPT ![r].at = @ + 1, ![r].pc = IF j.at = Len(Scoped) THEN "remove" ELSE "purge"]
        /\ UNCHANGED <<registry, strays, table, dirty, legacy, migration, secret, boots>>

DeleteRegistry(r) ==
    /\ jobs[r].pc = "remove"
    /\ registry' = [registry EXCEPT ![jobs[r].id] = NoDoc]
    /\ Announce
    /\ jobs' = [jobs EXCEPT ![r] = Idle]
    /\ UNCHANGED <<rows, admin, strays, table, legacy, migration, secret, boots>>

\* A database error, or the process stopping, between two writes of a request.
AbandonJob(r) ==
    /\ jobs[r].pc \notin {"idle"}
    /\ jobs' = [jobs EXCEPT ![r] = Idle]
    /\ UNCHANGED <<registry, rows, admin, strays, table, dirty, legacy, migration, secret, boots>>

--------------------------------------------------------------------------
(* What tenants' clients write meanwhile                                   *)

\* A session of tenant t: its token is good until it expires, whatever became
\* of the tenant.
SessionWrites(t, col) ==
    /\ rows' = WriteRow(rows, t, col)
    /\ UNCHANGED <<registry, admin, jobs, strays, table, dirty, legacy, migration, secret, boots>>

\* The ingest route: the tenant of the token, the default one for any other,
\* unless that tenant is suspended.
Lookup(token) == IF token \in DOMAIN table THEN table[token] ELSE DefaultTenant
TenantStatus(t) == IF t \in Slugs /\ registry[t] # NoDoc THEN registry[t].status ELSE "active"

IngestTenant(token) ==
    /\ TenantStatus(Lookup(token)) # "suspended"
    /\ rows' = WriteRow(rows, Lookup(token), "record")
    /\ UNCHANGED <<registry, admin, jobs, strays, table, dirty, legacy, migration, secret, boots>>

\* Mutant of Tables: a tenant without a token is entered under the empty one.
TablesWithEmpty(docs) ==
    LET with == {t \in Slugs : docs[t] # NoDoc}
        used == {docs[t].token : t \in with}
    IN  {m \in [used -> with] : \A k \in used : docs[m[k]].token = k}

\* buildIngestTokenMap: with two tenants on one token, the later document wins.
Tables(docs) ==
    LET with == {t \in Slugs : docs[t] # NoDoc /\ docs[t].token # ""}
        used == {docs[t].token : t \in with}
    IN  {m \in [used -> with] : \A k \in used : docs[m[k]].token = k}

\* Mutant of ReloadIngestTokens: suspended tenants are left out.
ReloadActiveTokens ==
    /\ dirty = "due" /\ dirty' = "none"
    /\ table' \in Tables([t \in Slugs |-> IF registry[t] # NoDoc /\ registry[t].status = "suspended" THEN NoDoc ELSE registry[t]])
    /\ UNCHANGED <<registry, rows, admin, jobs, strays, legacy, migration, secret, boots>>

\* StartIngestTokenReloader: a pending announcement is taken, then the registry
\* is read and the table swapped.  A reload that fails is logged, and leaves the
\* table as it is until the next announcement.
ReloadIngestTokens ==
    /\ dirty = "due"
    /\ \/ dirty' = "none" /\ table' \in Tables(registry)
       \/ dirty' = "lost" /\ UNCHANGED table
    /\ UNCHANGED <<registry, rows, admin, jobs, strays, legacy, migration, secret, boots>>

--------------------------------------------------------------------------
(* The public part of the registry                                         *)

\* Mutant of handleLoginIndex: every listed tenant is shown.
handleLoginIndexListed == {t \in Existing : registry[t].listed}

\* handleLoginIndex: the tenants a visitor is shown.
handleLoginIndex == {t \in Existing : registry[t].status = "active" /\ registry[t].listed}

\* handleLoginResolveTenant: the tenants a login key opens.
handleLoginResolveTenant(key) ==
    {t \in Existing : key # "" /\ registry[t].login_key = key /\ registry[t].status # "suspended"}

--------------------------------------------------------------------------
(* The default tenant's document: ensureDefaultTenant and BootstrapDB       *)
(* upsert it as active.                                                     *)

SeedDefault ==
    [registry EXCEPT ![DefaultTenant] =
        Merged([status |-> "active"], IF @ = NoDoc THEN [listed |-> TRUE, token |-> "", login_key |-> ""] ELSE @)]

--------------------------------------------------------------------------
(* The multitenancy migration: default tenant, platform role, one backfill *)
(* per collection, platform role for root, sentinel.  Stage i + 2 stamps   *)
(* collection i; it may stop anywhere and is run again from the start.     *)
(* The sentinel is itself a row without a tenant, in the collection        *)
(* "general": it is told apart from the rows that the backfill is for.     *)

Sentinel == Len(Scoped) + 4
SentinelRow == "migration sentinel"

\* Mutant of MigrationStep: the sentinel is written before the backfill.
MigrationSentinelFirst ==
    /\ migration \in 0..(Sentinel - 1)
    /\ migration' = IF migration = 1 THEN Sentinel ELSE migration + 1
    /\ legacy' = legacy
    /\ UNCHANGED <<registry, rows, admin, jobs, strays, table, dirty, secret, boots>>

MigrationStep ==
    /\ migration \in 0..(Sentinel - 1)
    /\ migration' = migration + 1
    /\ legacy' = IF migration - 1 \in DOMAIN Scoped THEN legacy \ {Scoped[migration - 1]}
                 ELSE legacy \cup (IF migration = 1 THEN {"role"} ELSE IF migration = Sentinel - 1 THEN {SentinelRow} ELSE {})
    /\ registry' = IF migration = 0 THEN SeedDefault ELSE registry
    /\ UNCHANGED <<rows, admin, jobs, strays, table, dirty, secret, boots>>

MigrationRestart ==
    /\ migration \in 1..(Sentinel - 1)
    /\ migration' = 0
    /\ UNCHANGED <<registry, rows, admin, jobs, strays, table, dirty, legacy, secret, boots>>

--------------------------------------------------------------------------
(* Boot: EnsureSecrets reads the signing key, draws one when there is none *)
(* and writes it over whatever is there by then; the node signs with the   *)
(* key it read or drew.  Then the registry is seeded, the default roles    *)
(* when the marker is missing, the marker, and root when it is missing.    *)

BootRead(n) ==
    /\ boots[n].pc = "down"
    /\ boots' = [boots EXCEPT ![n].pc = IF secret = NoSecret THEN "draw" ELSE "seed",
                              ![n].key = IF secret = NoSecret THEN n ELSE secret]
    /\ UNCHANGED <<registry, rows, admin, jobs, strays, table, dirty, legacy, migration, secret>>

\* Mutant of BootWriteSecret: the node signs with a key it never stored.
BootWriteSecretUnsaved(n) ==
    /\ boots[n].pc = "draw"
    /\ boots' = [boots EXCEPT ![n].pc = "seed"]
    /\ UNCHANGED <<registry, rows, admin, jobs, strays, table, dirty, legacy, migration, secret>>

BootWriteSecret(n) ==
    /\ boots[n].pc = "draw"
    /\ boots' = [boots EXCEPT ![n].pc = "seed", ![n].late = @ \/ secret # NoSecret]
    /\ secret' = boots[n].key
    /\ UNCHANGED <<registry, rows, admin, jobs, strays, table, dirty, legacy, migration>>

\* auth.BootstrapDB, then core.BootstrapDB up to its marker.
BootstrapDB(n) ==
    /\ boots[n].pc = "seed"
    /\ registry' = SeedDefault
    /\ rows' = WriteRow(rows, DefaultTenant, "role")
    /\ boots' = [boots EXCEPT ![n].pc = IF rows["general"][DefaultTenant] = "none" THEN "mark" ELSE "root"]
    /\ UNCHANGED <<admin, jobs, strays, table, dirty, legacy, migration, secret>>

BootMarker(n) ==
    /\ boots[n].pc = "mark"
    /\ rows' = WriteRow(rows, DefaultTenant, "general")
    /\ boots' = [boots EXCEPT ![n].pc = "root"]
    /\ UNCHANGED <<registry, admin, jobs, strays, table, dirty, legacy, migration, secret>>

EnsureRoot(n) ==
    /\ boots[n].pc = "root"
    /\ admin' = [admin EXCEPT ![DefaultTenant] = IF @ = "" THEN "drawn" ELSE @]
    /\ rows' = WriteRow(rows, DefaultTenant, "user")
    /\ boots' = [boots EXCEPT ![n].pc = "up"]
    /\ UNCHANGED <<registry, jobs, strays, table, dirty, legacy, migration, secret>>

\* The node stops, at any point of its boot or after it.
Shutdown(n) ==
    /\ boots[n].pc # "down"
    /\ boots' = [boots EXCEPT ![n].pc = "down", ![n].key = NoSecret]
    /\ UNCHANGED <<registry, rows, admin, jobs, strays, table, dirty, legacy, migration, secret>>

=============================================================================

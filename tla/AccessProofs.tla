---------------------------- MODULE AccessProofs ----------------------------
(***************************************************************************)
(* What accounts, sessions and tenants promise, proved for any number of   *)
(* request handlers, clients, tokens, keys and servers, any list of        *)
(* tenant-scoped collections and any bound on time.                        *)
(***************************************************************************)
EXTENDS MCAccess, SequenceTheorems, FiniteSetTheorems, WellFoundedInduction, TLAPS

--------------------------------------------------------------------------
(* Invariants of the tenants                                               *)

Three == {DefaultTenant, "acme", "beta"}

\* Outside the topic of tenants nobody removes one.
RegistryTyped ==
  /\ registry \in [Three -> TenantDoc \cup {NoDoc}]
  /\ topic # "tenant" => registry["acme"] \in TenantDoc

RowsTyped == rows \in [Collections -> [Three -> {"none", "live", "late"}]]

Patch == [status : {"active", "suspended"}] \cup [token : IngestTokens] \cup [login_key : LoginKeys]

Making == [pc : {"seed", "marker", "admin", "reset"}, id : Three]
Updating == [pc : {"update"}, id : Three, patch : Patch]
Deleting == [pc : {"suspend", "purge", "remove"}, id : Three, at : 1..(Len(Scoped) + 1)]

\* A deletion is at a collection of the list, or past its end.
DeletionAt(j) ==
  /\ j \in Deleting
  /\ j.pc = "suspend" => j.at = 1
  /\ j.pc = "purge" => j.at <= Len(Scoped)
  /\ j.pc = "remove" => j.at = Len(Scoped) + 1

JobsTyped ==
  /\ jobs = [r \in Requests |-> jobs[r]]
  /\ \A r \in Requests : jobs[r] = Idle \/ jobs[r] \in Making \/ jobs[r] \in Updating \/ DeletionAt(jobs[r])

\* What a deletion has swept holds no row of the tenant but late ones.
SweptIsClean ==
  \A r \in Requests : jobs[r].pc \in {"purge", "remove"} =>
      \A col \in ScopedSet :
          (\A i \in jobs[r].at .. Len(Scoped) : Scoped[i] # col) => rows[col][jobs[r].id] # "live"

TableTyped == \A k \in DOMAIN table : table[k] \in Three

PurgeInv ==
  RegistryTyped /\ RowsTyped /\ JobsTyped /\ TableTyped /\ SweptIsClean /\ PurgeComplete /\ IngestTableFollows

\* The migration has stamped the collections before the one it is at; its
\* sentinel is there once it is done.
MigrationInv ==
  /\ migration \in 0..Sentinel
  /\ migration # Sentinel => legacy \subseteq ScopedSet
  /\ migration = Sentinel => legacy \subseteq ScopedSet \cup {SentinelRow} /\ SentinelRow \in legacy
  /\ \A i \in DOMAIN Scoped : i < migration - 1 => Scoped[i] \notin legacy

\* A server that has read or stored a key has the key of the database, and
\* there is one, unless a key was written over another.
BootShape ==
  /\ boots = [n \in Nodes |-> boots[n]]
  /\ \A n \in Nodes : \E p, k, l : boots[n] = [pc |-> p, key |-> k, late |-> l]

BootInv ==
  /\ BootShape
  /\ \A n \in Nodes : boots[n].pc = "draw" => boots[n].key = n
  /\ (\A n \in Nodes : ~ boots[n].late) =>
        \A n \in Nodes : boots[n].pc \notin {"down", "draw"} => boots[n].key = secret /\ secret # NoSecret

--------------------------------------------------------------------------
(* Who changes what                                                        *)

(* The document that is not there has no fields.                           *)
LEMMA NoDocEmpty == DOMAIN NoDoc = {}
BY DEF NoDoc

(* A tenant's document has fields.                                         *)
LEMMA NoDocApart == NoDoc \notin TenantDoc
<1>1. \A d \in TenantDoc : "status" \in DOMAIN d
  BY DEF TenantDoc
<1>. QED
  BY <1>1, NoDocEmpty

(* The list of collections.                                                *)
LEMMA ScopedList ==
  /\ Len(Scoped) \in Nat \ {0} /\ DOMAIN Scoped = 1..Len(Scoped)
  /\ {"record", "user", "role", "refresh_token", "general"} \subseteq ScopedSet
  /\ ScopedSet \subseteq Collections
<1>1. Len(Scoped) \in Nat /\ DOMAIN Scoped = 1..Len(Scoped)
  BY TenancyAssumption, LenProperties
<1>2. {"record", "user", "role", "refresh_token", "general"} \subseteq ScopedSet
  BY TenancyAssumption DEF ScopedSet
<1>3. DOMAIN Scoped # {}
  BY TenancyAssumption
<1>. QED
  BY <1>1, <1>2, <1>3 DEF Collections

(* The other topics leave the tenants alone.                               *)
LEMMA TenancyFrame ==
  ASSUME AccountsNext \/ SessionNext \/ KeysNext \/ SignInNext
  PROVE  UNCHANGED <<topic, tenancyVars>> /\ topic \in {"accounts", "session", "keys", "signin"}
BY DEF AccountsNext, SessionNext, KeysNext, SignInNext

(* Outside the topics of tenants and boots only the switch of a tenant's   *)
(* status changes the registry.                                            *)
LEMMA RegistryFrame ==
  ASSUME AccountsNext \/ SessionNext \/ KeysNext \/ SignInNext
  PROVE  \/ registry' = registry
         \/ \E s \in {"active", "suspended"} : ReopenTenant(s)
<1>1. CASE AccountsNext
  BY <1>1 DEF AccountsNext, sessionVars
<1>2. CASE SessionNext
  <2>1. ASSUME NEW c \in Clients, LoginStart(c) PROVE registry' = registry
    BY <2>1 DEF LoginStart, handleLogin, handleLoginAnonymous, handleRefresh, handleLogout
  <2>2. ASSUME NEW c \in Clients, LoginNext(c) PROVE registry' = registry
    BY <2>2 DEF LoginNext, LoginTenant, PassTenant, signSession, Respond, Crash, RefreshRevoke, RefreshIssue, RefreshCheck,
       RefreshSign, Revoke
  <2>3. CleanupRefresh \/ Tick => registry' = registry
    BY DEF CleanupRefresh, Tick
  <2>4. ASSUME NEW u, NEW b, PatchUser(u, [enabled |-> b]) PROVE registry' = registry
    BY <2>4 DEF PatchUser
  <2>5. ASSUME NEW a, SelfPasswordChange(a, 1, "p1", "p2") PROVE registry' = registry
    BY <2>5 DEF SelfPasswordChange, sessionVars
  <2>. QED
    BY <1>2, <2>1, <2>2, <2>3, <2>4, <2>5 DEF SessionNext
<1>3. CASE KeysNext
  <2>1. ASSUME NEW a, NEW k, NEW n, NEW ttl, NEW ps, handleCreateMyAPIKey(a, k, n, ps, ttl) PROVE registry' = registry
    BY <2>1 DEF handleCreateMyAPIKey, IssueKey
  <2>2. ASSUME NEW a, NEW k, handleDeleteMyAPIKey(a, k) PROVE registry' = registry
    BY <2>2 DEF handleDeleteMyAPIKey
  <2>3. ASSUME NEW k, NEW b, NEW e, PatchKey(k, b, e) PROVE registry' = registry
    BY <2>3 DEF PatchKey
  <2>4. CleanupKeys \/ Tick => registry' = registry
    BY DEF CleanupKeys, Tick
  <2>5. ASSUME NEW d, PatchUser(1, d) PROVE registry' = registry
    BY <2>5 DEF PatchUser
  <2>. QED
    BY <1>3, <2>1, <2>2, <2>3, <2>4, <2>5 DEF KeysNext
<1>4. CASE SignInNext
  <2>1. ASSUME NEW s, NEW org, handleOIDCStart(s, org) PROVE registry' = registry
    BY <2>1 DEF handleOIDCStart
  <2>2. ASSUME NEW c, NEW g, handleOIDCCallback(c, "ann", g) PROVE registry' = registry
    BY <2>2 DEF handleOIDCCallback
  <2>3. ASSUME NEW c, OIDCTenant(c) \/ signSession(c) \/ Respond(c) \/ provisionOIDCUser(c) PROVE registry' = registry
    BY <2>3 DEF OIDCTenant, PassTenant, signSession, Respond, provisionOIDCUser
  <2>4. Tick => registry' = registry
    BY DEF Tick
  <2>5. ASSUME NEW b, PatchUser(1, [enabled |-> b]) PROVE registry' = registry
    BY <2>5 DEF PatchUser
  <2>. QED
    BY <1>4, <2>1, <2>2, <2>3, <2>4, <2>5 DEF SignInNext
<1>. QED
  BY <1>1, <1>2, <1>3, <1>4

--------------------------------------------------------------------------
(* Rows and tables                                                         *)

(* A write leaves a row, and a live one only where there was one or where  *)
(* the tenant exists and no deletion has swept the collection.             *)
LEMMA WriteRowEffect ==
  ASSUME RowsTyped, NEW t \in Three, NEW col \in Collections, rows' = WriteRow(rows, t, col)
  PROVE  /\ RowsTyped'
         /\ \A c \in Collections, s \in Three :
               /\ rows[c][s] # "none" => rows'[c][s] # "none"
               /\ rows'[c][s] = "live" => \/ rows[c][s] = "live"
                                          \/ c = col /\ s = t /\ registry[t] # NoDoc /\ ~ Swept(t, col)
<1>1. PICK w : w = (IF rows[col][t] = "live" THEN "live" ELSE Written(t, col))
  OBVIOUS
<1>2. w \in {"live", "late"} /\ (w = "live" => rows[col][t] = "live" \/ (registry[t] # NoDoc /\ ~ Swept(t, col)))
  BY <1>1 DEF Written
<1>3. rows' = [rows EXCEPT ![col][t] = w]
  BY <1>1 DEF WriteRow
<1>4. rows \in [Collections -> [Three -> {"none", "live", "late"}]]
  BY DEF RowsTyped
<1>5. rows' \in [Collections -> [Three -> {"none", "live", "late"}]]
  BY <1>2, <1>3, <1>4
<1>6. ASSUME NEW c \in Collections, NEW s \in Three
      PROVE  rows'[c][s] = IF c = col /\ s = t THEN w ELSE rows[c][s]
  BY <1>3, <1>4
<1>. QED
  BY <1>2, <1>5, <1>6 DEF RowsTyped

(* The table asked for depends on the tokens only.                         *)
HasToken(t) == registry[t] # NoDoc /\ registry[t].token # ""

LEMMA SameTables ==
  ASSUME DOMAIN registry = Three, DOMAIN registry' = Three,
         \A t \in Three : HasToken(t)' <=> HasToken(t),
         \A t \in Three : HasToken(t) => registry'[t].token = registry[t].token
  PROVE  Tables(registry)' = Tables(registry)
<1>0. PICK W : W = {t \in Three : HasToken(t)}
  OBVIOUS
<1>1. {t \in Slugs : registry[t] # NoDoc /\ registry[t].token # ""} = W
  BY <1>0 DEF Slugs, HasToken
<1>2. {t \in Slugs : registry[t] # NoDoc /\ registry[t].token # ""}' = W
  BY <1>0 DEF Slugs, HasToken
<1>3. PICK U : U = {registry[t].token : t \in W}
  OBVIOUS
<1>4. {registry'[t].token : t \in W} = U
  BY <1>0, <1>3
<1>5. Tables(registry) = {m \in [U -> W] : \A k \in U : registry[m[k]].token = k}
  BY <1>1, <1>3 DEF Tables
<1>6. Tables(registry)' = {m \in [U -> W] : \A k \in U : registry'[m[k]].token = k}
  BY <1>2, <1>4 DEF Tables
<1>7. ASSUME NEW m \in [U -> W], NEW k \in U PROVE registry'[m[k]].token = registry[m[k]].token
  BY <1>0
<1>. QED
  BY <1>5, <1>6, <1>7

(* Nor does a registry that stays the same ask for another table.          *)
LEMMA FollowsStill ==
  ASSUME DOMAIN registry = Three, UNCHANGED <<registry, table, dirty>>, IngestTableFollows
  PROVE  IngestTableFollows'
<1>1. Tables(registry)' = Tables(registry)
  BY SameTables DEF HasToken
<1>. QED
  BY <1>1 DEF IngestTableFollows

(* What a table sends a token to is a tenant.                              *)
LEMMA TablesTyped ==
  ASSUME DOMAIN registry = Three, NEW m \in Tables(registry)
  PROVE  \A k \in DOMAIN m : m[k] \in Three
<1>1. PICK U, W : W \subseteq Three /\ m \in [U -> W]
  BY DEF Tables, Slugs
<1>. QED
  BY <1>1

(* A patch of a tenant document gives one.                                 *)
LEMMA PatchedDoc ==
  ASSUME NEW d \in TenantDoc, NEW p \in Patch
  PROVE  Merged(p, d) \in TenantDoc
<1>1. DOMAIN d = {"status", "listed", "token", "login_key"}
  BY DEF TenantDoc
<1>2. CASE p \in [status : {"active", "suspended"}]
  <2>1. DOMAIN p = {"status"} /\ p.status \in {"active", "suspended"}
    BY <1>2
  <2>2. Merged(p, d) = [f \in {"status", "listed", "token", "login_key"} |-> IF f = "status" THEN p.status ELSE d[f]]
    BY <1>1, <2>1 DEF Merged
  <2>. QED
    BY <2>1, <2>2 DEF TenantDoc
<1>3. CASE p \in [token : IngestTokens]
  <2>1. DOMAIN p = {"token"} /\ p.token \in IngestTokens
    BY <1>3
  <2>2. Merged(p, d) = [f \in {"status", "listed", "token", "login_key"} |-> IF f = "token" THEN p.token ELSE d[f]]
    BY <1>1, <2>1 DEF Merged
  <2>. QED
    BY <2>1, <2>2 DEF TenantDoc
<1>4. CASE p \in [login_key : LoginKeys]
  <2>1. DOMAIN p = {"login_key"} /\ p.login_key \in LoginKeys
    BY <1>4
  <2>2. Merged(p, d) = [f \in {"status", "listed", "token", "login_key"} |-> IF f = "login_key" THEN p.login_key ELSE d[f]]
    BY <1>1, <2>1 DEF Merged
  <2>. QED
    BY <2>1, <2>2 DEF TenantDoc
<1>. QED
  BY <1>2, <1>3, <1>4 DEF Patch

(* The default tenant's document is seeded as active, with the token and   *)
(* the login key it has.                                                   *)
LEMMA SeedEffect ==
  ASSUME RegistryTyped, registry' = SeedDefault, topic' = topic
  PROVE  RegistryTyped' /\ Tables(registry)' = Tables(registry)
<1>1. PICK old : old = (IF registry[DefaultTenant] = NoDoc THEN [listed |-> TRUE, token |-> "", login_key |-> ""]
                        ELSE registry[DefaultTenant])
  OBVIOUS
<1>2. registry' = [registry EXCEPT ![DefaultTenant] = Merged([status |-> "active"], old)]
  BY <1>1 DEF SeedDefault
<1>3. /\ old.token \in IngestTokens \cup {""} /\ old.login_key \in LoginKeys \cup {""}
      /\ {"status"} \cup DOMAIN old = {"status", "listed", "token", "login_key"}
      /\ old.token = IF registry[DefaultTenant] = NoDoc THEN "" ELSE registry[DefaultTenant].token
  <2>1. CASE registry[DefaultTenant] = NoDoc
    <3>1. old = [listed |-> TRUE, token |-> "", login_key |-> ""]
      BY <1>1, <2>1
    <3>2. DOMAIN old = {"listed", "token", "login_key"} /\ old.token = "" /\ old.login_key = ""
      BY <3>1
    <3>. QED
      BY <2>1, <3>2
  <2>2. CASE registry[DefaultTenant] # NoDoc
    <3>1. old \in TenantDoc /\ old = registry[DefaultTenant]
      BY <1>1, <2>2 DEF RegistryTyped, Three
    <3>. QED
      BY <2>2, <3>1 DEF TenantDoc
  <2>. QED
    BY <2>1, <2>2
<1>0. old.listed \in BOOLEAN
  <2>1. CASE registry[DefaultTenant] = NoDoc
    <3>1. old = [listed |-> TRUE, token |-> "", login_key |-> ""]
      BY <1>1, <2>1
    <3>. QED
      BY <3>1
  <2>2. CASE registry[DefaultTenant] # NoDoc
    <3>1. old \in TenantDoc
      BY <1>1, <2>2 DEF RegistryTyped, Three
    <3>. QED
      BY <3>1 DEF TenantDoc
  <2>. QED
    BY <2>1, <2>2
<1>4. PICK new : new = Merged([status |-> "active"], old)
  OBVIOUS
<1>5. new = [f \in {"status", "listed", "token", "login_key"} |-> IF f = "status" THEN "active" ELSE old[f]]
  <2>1. PICK p : p = [status |-> "active"]
    OBVIOUS
  <2>2. DOMAIN p = {"status"} /\ p.status = "active"
    BY <2>1
  <2>. QED
    BY <1>3, <1>4, <2>1, <2>2 DEF Merged
<1>6. new \in TenantDoc /\ new.token = old.token /\ new # NoDoc
  <2>1. /\ new.status = "active" /\ new.listed = old.listed /\ new.token = old.token
        /\ new.login_key = old.login_key
    BY <1>5
  <2>2. new.status = "active" /\ new.token \in IngestTokens \cup {""} /\ new.login_key \in LoginKeys \cup {""}
    BY <1>3, <2>1
  <2>5. new.listed \in BOOLEAN
    BY <1>0, <2>1, Zenon
  <2>3. new = [status |-> new.status, listed |-> new.listed, token |-> new.token, login_key |-> new.login_key]
    BY <1>5
  <2>4. new \in TenantDoc
    BY <2>2, <2>3, <2>5 DEF TenantDoc
  <2>. QED
    BY <2>1, <2>4, NoDocApart
<1>7. registry' \in [Three -> TenantDoc \cup {NoDoc}] /\ registry'[DefaultTenant] = new
      /\ \A t \in Three \ {DefaultTenant} : registry'[t] = registry[t]
  BY <1>2, <1>4, <1>6 DEF RegistryTyped, Three
<1>8. RegistryTyped'
  BY <1>7 DEF RegistryTyped, Three, DefaultTenant
<1>9. \A t \in Three : (HasToken(t)' <=> HasToken(t)) /\ (HasToken(t) => registry'[t].token = registry[t].token)
  BY <1>3, <1>6, <1>7 DEF HasToken
<1>. QED
  BY <1>7, <1>8, <1>9, SameTables DEF RegistryTyped

--------------------------------------------------------------------------
(* The life of a tenant                                                    *)

(* A job has one of its kinds, and the fields of that kind.                *)
LEMMA JobKinds ==
  ASSUME JobsTyped, NEW r \in Requests
  PROVE  /\ jobs[r].pc \in {"seed", "marker", "admin", "reset"} => jobs[r] \in Making
         /\ jobs[r].pc = "update" => jobs[r] \in Updating
         /\ jobs[r].pc \in {"suspend", "purge", "remove"} => DeletionAt(jobs[r])
         /\ jobs[r] = Idle => jobs[r].pc = "idle"
         /\ jobs[r].pc # "idle" => jobs[r].id \in Three
<1>1. CASE jobs[r] = Idle
  BY <1>1 DEF Idle
<1>2. CASE jobs[r] \in Making
  BY <1>2 DEF Making, Idle
<1>3. CASE jobs[r] \in Updating
  BY <1>3 DEF Updating, Idle
<1>4. CASE DeletionAt(jobs[r])
  BY <1>4 DEF DeletionAt, Deleting, Idle
<1>. QED
  BY <1>1, <1>2, <1>3, <1>4 DEF JobsTyped

(* A job that is given up, or begins without having swept anything, leaves *)
(* what the others have swept as it was.                                   *)
LEMMA JobSet ==
  ASSUME JobsTyped, NEW r \in Requests, NEW j, jobs' = [jobs EXCEPT ![r] = j],
         j = Idle \/ j \in Making \/ j \in Updating \/ DeletionAt(j)
  PROVE  /\ JobsTyped' /\ jobs'[r] = j
         /\ \A q \in Requests \ {r} : jobs'[q] = jobs[q]
<1>1. jobs' = [q \in Requests |-> IF q = r THEN j ELSE jobs[q]]
  BY DEF JobsTyped
<1>2. jobs' = [q \in Requests |-> jobs'[q]]
  BY <1>1
<1>3. \A q \in Requests : jobs'[q] = IF q = r THEN j ELSE jobs[q]
  BY <1>1
<1>4. \A q \in Requests : jobs'[q] = Idle \/ jobs'[q] \in Making \/ jobs'[q] \in Updating \/ DeletionAt(jobs'[q])
  BY <1>3 DEF JobsTyped
<1>5. JobsTyped'
  BY <1>2, <1>4 DEF JobsTyped, DeletionAt, Deleting, Making, Updating, Idle, Patch
<1>. QED
  BY <1>3, <1>5

(* A row is written while the job list stays the same or the writer's own  *)
(* job, which is not a deletion, goes on.                                  *)
LEMMA WritePurges ==
  ASSUME PurgeInv, NEW t \in Three, NEW col \in Collections, rows' = WriteRow(rows, t, col),
         UNCHANGED <<topic, registry, table, dirty>>, JobsTyped',
         \A q \in Requests : jobs'[q] = jobs[q] \/ jobs'[q].pc \notin {"purge", "remove"}
  PROVE  PurgeInv'
<1>1. /\ RowsTyped'
      /\ \A c \in Collections, s \in Three :
            rows'[c][s] = "live" => \/ rows[c][s] = "live"
                                    \/ c = col /\ s = t /\ registry[t] # NoDoc /\ ~ Swept(t, col)
  BY WriteRowEffect DEF PurgeInv
<1>2. SweptIsClean'
  <2> SUFFICES ASSUME NEW r \in Requests, jobs'[r].pc \in {"purge", "remove"}, NEW c \in ScopedSet,
                      \A i \in jobs'[r].at .. Len(Scoped) : Scoped[i] # c
               PROVE  rows'[c][jobs'[r].id] # "live"
    BY DEF SweptIsClean, ScopedSet
  <2>1. jobs'[r] = jobs[r] /\ jobs[r].id \in Three
    BY JobKinds DEF PurgeInv
  <2>2. rows[c][jobs[r].id] # "live"
    BY <2>1 DEF PurgeInv, SweptIsClean
  <2>3. jobs[r].id = t /\ c = col => Swept(t, col)
    BY <2>1 DEF Swept
  <2>. QED
    BY <1>1, <2>1, <2>2, <2>3, ScopedList
<1>3. PurgeComplete'
  <2> SUFFICES ASSUME topic = "tenant", NEW s \in Three, registry[s] = NoDoc, NEW c \in ScopedSet
               PROVE  rows'[c][s] # "live"
    BY DEF PurgeComplete, Existing, Slugs, PurgeInv, RegistryTyped, ScopedSet
  <2>1. rows[c][s] # "live"
    BY DEF PurgeInv, PurgeComplete, Existing, Slugs, RegistryTyped
  <2>. QED
    BY <1>1, <2>1, ScopedList
<1>4. IngestTableFollows'
  BY FollowsStill DEF PurgeInv, RegistryTyped
<1>. QED
  BY <1>1, <1>2, <1>3, <1>4 DEF PurgeInv, RegistryTyped, TableTyped

(* The registry changes, is announced, and keeps the tenants that exist,   *)
(* or loses one that was swept; a job that is not past its beginning is    *)
(* set.                                                                    *)
LEMMA RegistryPurges ==
  ASSUME PurgeInv, UNCHANGED <<topic, rows, table>>, dirty' # "none", topic = "tenant",
         registry' \in [Three -> TenantDoc \cup {NoDoc}], JobsTyped',
         \A s \in Three : registry'[s] = NoDoc => registry[s] = NoDoc \/ \A c \in ScopedSet : rows[c][s] # "live",
         \A q \in Requests : \/ jobs'[q] = jobs[q]
                             \/ jobs'[q].pc \notin {"purge", "remove"}
                             \/ jobs'[q].pc = "purge" /\ jobs'[q].at = 1
  PROVE  PurgeInv'
<1>1. SweptIsClean'
  <2> SUFFICES ASSUME NEW r \in Requests, jobs'[r].pc \in {"purge", "remove"}, NEW c \in ScopedSet,
                      \A i \in jobs'[r].at .. Len(Scoped) : Scoped[i] # c
               PROVE  rows'[c][jobs'[r].id] # "live"
    BY DEF SweptIsClean, ScopedSet
  <2>1. CASE jobs'[r] = jobs[r]
    BY <2>1 DEF PurgeInv, SweptIsClean
  <2>2. CASE jobs'[r].at = 1
    BY <2>2, ScopedList DEF ScopedSet
  <2>. QED
    BY <2>1, <2>2
<1>2. PurgeComplete'
  <2> SUFFICES ASSUME NEW s \in Three, registry'[s] = NoDoc, NEW c \in ScopedSet
               PROVE  rows[c][s] # "live"
    BY DEF PurgeComplete, Existing, Slugs, ScopedSet
  <2>. QED
    BY DEF PurgeInv, PurgeComplete, Existing, Slugs, RegistryTyped
<1>. QED
  BY <1>1, <1>2 DEF PurgeInv, RegistryTyped, RowsTyped, TableTyped, IngestTableFollows

(* Only jobs change.                                                       *)
LEMMA JobPurges ==
  ASSUME PurgeInv, UNCHANGED <<topic, rows, table, dirty, registry>>, JobsTyped',
         \A q \in Requests : \/ jobs'[q] = jobs[q]
                             \/ jobs'[q].pc \notin {"purge", "remove"}
                             \/ jobs'[q].pc = "purge" /\ jobs'[q].at = 1
  PROVE  PurgeInv'
<1>1. SweptIsClean'
  <2> SUFFICES ASSUME NEW r \in Requests, jobs'[r].pc \in {"purge", "remove"}, NEW c \in ScopedSet,
                      \A i \in jobs'[r].at .. Len(Scoped) : Scoped[i] # c
               PROVE  rows'[c][jobs'[r].id] # "live"
    BY DEF SweptIsClean, ScopedSet
  <2>1. CASE jobs'[r] = jobs[r]
    BY <2>1 DEF PurgeInv, SweptIsClean
  <2>2. CASE jobs'[r].at = 1
    BY <2>2, ScopedList DEF ScopedSet
  <2>. QED
    BY <2>1, <2>2
<1>2. PurgeComplete'
  BY DEF PurgeInv, PurgeComplete, Existing, Slugs, ScopedSet
<1>3. IngestTableFollows'
  BY FollowsStill DEF PurgeInv, RegistryTyped
<1>. QED
  BY <1>1, <1>2, <1>3 DEF PurgeInv, RegistryTyped, RowsTyped, TableTyped

(* The requests about tenants keep the invariant.                          *)
LEMMA TenantRequests ==
  ASSUME PurgeInv, topic = "tenant", topic' = topic, NEW r \in Requests, NEW t \in {"acme", "beta"},
         \/ handleTenantCreate(r, Root, t, FALSE, "k1", "k2")
         \/ handleTenantAdminReset(r, Root, t)
         \/ \E p \in {[status |-> "suspended"], [status |-> "active"], [token |-> "k2"], [login_key |-> "k3"]} :
              handleTenantUpdate(r, Root, t, p)
         \/ handleTenantDelete(r, Root, t)
  PROVE  PurgeInv'
<1>1. t \in Three /\ JobsTyped /\ registry \in [Three -> TenantDoc \cup {NoDoc}]
  BY DEF Three, PurgeInv, RegistryTyped
<1>2. CASE handleTenantCreate(r, Root, t, FALSE, "k1", "k2")
  <2>1. PICK d : d = [status |-> "active", listed |-> FALSE, token |-> "k1", login_key |-> "k2"]
    OBVIOUS
  <2>2. d \in TenantDoc
    BY <2>1, AccessAssumption DEF TenantDoc, LoginKeys
  <2>3. registry' = [registry EXCEPT ![t] = d] /\ UNCHANGED <<rows, table>> /\ dirty' # "none"
        /\ jobs' = [jobs EXCEPT ![r] = [pc |-> "seed", id |-> t]]
    BY <1>2, <2>1 DEF handleTenantCreate, Announce
  <2>4. [pc |-> "seed", id |-> t] \in Making /\ [pc |-> "seed", id |-> t].pc = "seed"
    BY <1>1 DEF Making
  <2>5. JobsTyped' /\ \A q \in Requests : jobs'[q] = jobs[q] \/ jobs'[q].pc \notin {"purge", "remove"}
    BY <1>1, <2>3, <2>4, JobSet
  <2>6. registry' \in [Three -> TenantDoc \cup {NoDoc}] /\ \A s \in Three : registry'[s] = NoDoc => registry[s] = NoDoc
    BY <1>1, <2>2, <2>3, NoDocApart
  <2>. QED
    BY <2>3, <2>5, <2>6, RegistryPurges
<1>3. CASE handleTenantAdminReset(r, Root, t)
  <2>1. [pc |-> "reset", id |-> t] \in Making /\ [pc |-> "reset", id |-> t].pc = "reset"
    BY <1>1 DEF Making
  <2>2. jobs' = [jobs EXCEPT ![r] = [pc |-> "reset", id |-> t]] /\ UNCHANGED <<registry, rows, table, dirty>>
    BY <1>3 DEF handleTenantAdminReset
  <2>3. JobsTyped' /\ \A q \in Requests : jobs'[q] = jobs[q] \/ jobs'[q].pc \notin {"purge", "remove"}
    BY <1>1, <2>1, <2>2, JobSet
  <2>. QED
    BY <2>2, <2>3, JobPurges
<1>4. CASE \E p \in {[status |-> "suspended"], [status |-> "active"], [token |-> "k2"], [login_key |-> "k3"]} :
             handleTenantUpdate(r, Root, t, p)
  <2>1. PICK p \in {[status |-> "suspended"], [status |-> "active"], [token |-> "k2"], [login_key |-> "k3"]} :
             handleTenantUpdate(r, Root, t, p)
    BY <1>4
  <2>2. p \in Patch
    BY AccessAssumption DEF Patch, LoginKeys
  <2>3. [pc |-> "update", id |-> t, patch |-> p] \in Updating /\ [pc |-> "update", id |-> t, patch |-> p].pc = "update"
    BY <1>1, <2>2 DEF Updating
  <2>4. jobs' = [jobs EXCEPT ![r] = [pc |-> "update", id |-> t, patch |-> p]] /\ UNCHANGED <<registry, rows, table, dirty>>
    BY <2>1 DEF handleTenantUpdate
  <2>5. JobsTyped' /\ \A q \in Requests : jobs'[q] = jobs[q] \/ jobs'[q].pc \notin {"purge", "remove"}
    BY <1>1, <2>3, <2>4, JobSet
  <2>. QED
    BY <2>4, <2>5, JobPurges
<1>5. CASE handleTenantDelete(r, Root, t)
  <2>1. PICK pc \in {"purge", "suspend"} : jobs' = [jobs EXCEPT ![r] = [pc |-> pc, id |-> t, at |-> 1]]
    BY <1>5 DEF handleTenantDelete
  <2>2. UNCHANGED <<registry, rows, table, dirty>>
    BY <1>5 DEF handleTenantDelete
  <2>3. PICK j : j = [pc |-> pc, id |-> t, at |-> 1]
    OBVIOUS
  <2>4. DeletionAt(j) /\ j.pc = pc /\ j.at = 1
    BY <1>1, <2>3, ScopedList DEF DeletionAt, Deleting
  <2>5. /\ JobsTyped' /\ jobs'[r] = j
        /\ \A q \in Requests \ {r} : jobs'[q] = jobs[q]
    BY <1>1, <2>1, <2>3, <2>4, JobSet
  <2>. QED
    BY <2>2, <2>4, <2>5, JobPurges
<1>. QED
  BY <1>2, <1>3, <1>4, <1>5

(* The steps of a request about a tenant keep the invariant.               *)
LEMMA TenantJobs ==
  ASSUME PurgeInv, topic = "tenant", topic' = topic, NEW r \in Requests,
         \/ UpdateTenant(r) \/ seedTenant(r) \/ CreateAdmin(r, "p2") \/ ResetAdmin(r, "p3")
         \/ DeleteSuspend(r) \/ DeletePurge(r) \/ DeleteRegistry(r) \/ AbandonJob(r)
  PROVE  PurgeInv'
<1>1. JobsTyped /\ registry \in [Three -> TenantDoc \cup {NoDoc}]
  BY DEF PurgeInv, RegistryTyped
<1>2. Idle.pc = "idle"
  BY DEF Idle
<1>3. ASSUME jobs' = [jobs EXCEPT ![r] = Idle]
      PROVE  JobsTyped' /\ \A q \in Requests : jobs'[q] = jobs[q] \/ jobs'[q].pc \notin {"purge", "remove"}
  BY <1>1, <1>2, <1>3, JobSet
<1>4. CASE UpdateTenant(r)
  <2>1. PICK t : t = jobs[r].id
    OBVIOUS
  <2>2. jobs[r] \in Updating
    BY <1>1, <1>4, JobKinds DEF UpdateTenant
  <2>3. t \in Three /\ jobs[r].patch \in Patch
    BY <2>1, <2>2 DEF Updating
  <2>4. jobs' = [jobs EXCEPT ![r] = Idle] /\ UNCHANGED <<rows, table>> /\ dirty' # "none"
    BY <1>4 DEF UpdateTenant, Announce
  <2>5. registry' \in [Three -> TenantDoc \cup {NoDoc}] /\ \A s \in Three : registry'[s] = NoDoc => registry[s] = NoDoc
    <3>1. CASE registry[t] = NoDoc
      BY <1>1, <1>4, <2>1, <3>1 DEF UpdateTenant
    <3>2. CASE registry[t] # NoDoc
      <4>1. registry[t] \in TenantDoc
        BY <1>1, <2>3, <3>2
      <4>2. Merged(jobs[r].patch, registry[t]) \in TenantDoc
        BY <2>3, <4>1, PatchedDoc
      <4>3. registry' = [registry EXCEPT ![t] = Merged(jobs[r].patch, registry[t])]
        BY <1>4, <2>1, <3>2 DEF UpdateTenant
      <4>. QED
        BY <1>1, <2>3, <4>2, <4>3, NoDocApart
    <3>. QED
      BY <3>1, <3>2
  <2>. QED
    BY <1>3, <2>4, <2>5, RegistryPurges
<1>5. CASE seedTenant(r)
  <2>1. jobs[r] \in Making
    BY <1>1, <1>5, JobKinds DEF seedTenant
  <2>2. PICK col \in {"role", "general"} : rows' = WriteRow(rows, jobs[r].id, col)
    BY <1>5 DEF seedTenant
  <2>3. col \in Collections /\ jobs[r].id \in Three
    BY <2>1, <2>2, ScopedList DEF Making
  <2>4. PICK n \in {"marker", "admin"} : jobs' = [jobs EXCEPT ![r] = [jobs[r] EXCEPT !.pc = n]]
    <3>1. jobs' = [jobs EXCEPT ![r] = [jobs[r] EXCEPT !.pc = IF jobs[r].pc = "seed" THEN "marker" ELSE "admin"]]
      BY <1>5 DEF seedTenant
    <3>. QED
      BY <3>1
  <2>5. [jobs[r] EXCEPT !.pc = n] \in Making /\ [jobs[r] EXCEPT !.pc = n].pc = n
    BY <2>1 DEF Making
  <2>6. JobsTyped' /\ \A q \in Requests : jobs'[q] = jobs[q] \/ jobs'[q].pc \notin {"purge", "remove"}
    BY <1>1, <2>4, <2>5, JobSet
  <2>7. UNCHANGED <<registry, table, dirty>>
    BY <1>5 DEF seedTenant
  <2>. QED
    BY <2>2, <2>3, <2>6, <2>7, WritePurges
<1>6. CASE CreateAdmin(r, "p2") \/ ResetAdmin(r, "p3")
  <2>1. /\ rows' = WriteRow(rows, jobs[r].id, "user") /\ jobs' = [jobs EXCEPT ![r] = Idle]
        /\ UNCHANGED <<registry, table, dirty>>
    BY <1>6 DEF CreateAdmin, ResetAdmin, EnsureTenantAdmin
  <2>2. jobs[r].id \in Three /\ "user" \in Collections
    BY <1>1, <1>6, JobKinds, ScopedList DEF CreateAdmin, ResetAdmin
  <2>. QED
    BY <1>3, <2>1, <2>2, WritePurges
<1>7. CASE DeleteSuspend(r)
  <2>1. DeletionAt(jobs[r]) /\ jobs[r].pc = "suspend"
    BY <1>1, <1>7, JobKinds DEF DeleteSuspend
  <2>2. PICK t : t = jobs[r].id
    OBVIOUS
  <2>3. t \in Three /\ jobs[r].at = 1
    BY <2>1, <2>2 DEF DeletionAt, Deleting
  <2>4. PICK j : j = [jobs[r] EXCEPT !.pc = "purge"]
    OBVIOUS
  <2>5. DeletionAt(j) /\ j.pc = "purge" /\ j.at = 1
    BY <2>1, <2>4, ScopedList DEF DeletionAt, Deleting
  <2>6. jobs' = [jobs EXCEPT ![r] = j] /\ UNCHANGED <<rows, table>> /\ dirty' # "none"
    BY <1>7, <2>4 DEF DeleteSuspend, Announce
  <2>7. JobsTyped' /\ jobs'[r] = j /\ \A q \in Requests \ {r} : jobs'[q] = jobs[q]
    BY <1>1, <2>5, <2>6, JobSet
  <2>8. registry' \in [Three -> TenantDoc \cup {NoDoc}] /\ \A s \in Three : registry'[s] = NoDoc => registry[s] = NoDoc
    <3>1. CASE registry[t] = NoDoc
      BY <1>1, <1>7, <2>2, <3>1 DEF DeleteSuspend
    <3>2. CASE registry[t] # NoDoc
      <4>1. registry[t] \in TenantDoc
        BY <1>1, <2>3, <3>2
      <4>2. [registry[t] EXCEPT !.status = "suspended"] \in TenantDoc
        BY <4>1 DEF TenantDoc
      <4>3. registry' = [registry EXCEPT ![t] = [registry[t] EXCEPT !.status = "suspended"]]
        BY <1>7, <2>2, <3>2 DEF DeleteSuspend
      <4>. QED
        BY <1>1, <2>3, <4>2, <4>3, NoDocApart
    <3>. QED
      BY <3>1, <3>2
  <2>. QED
    BY <2>5, <2>6, <2>7, <2>8, RegistryPurges
<1>8. CASE DeleteRegistry(r)
  <2>1. DeletionAt(jobs[r]) /\ jobs[r].pc = "remove"
    BY <1>1, <1>8, JobKinds DEF DeleteRegistry
  <2>2. jobs[r].at = Len(Scoped) + 1 /\ jobs[r].id \in Three
    BY <2>1 DEF DeletionAt, Deleting
  <2>3. \A c \in ScopedSet : rows[c][jobs[r].id] # "live"
    BY <2>1, <2>2, ScopedList DEF PurgeInv, SweptIsClean
  <2>4. /\ registry' = [registry EXCEPT ![jobs[r].id] = NoDoc] /\ jobs' = [jobs EXCEPT ![r] = Idle]
        /\ UNCHANGED <<rows, table>> /\ dirty' # "none"
    BY <1>8 DEF DeleteRegistry, Announce
  <2>5. /\ registry' \in [Three -> TenantDoc \cup {NoDoc}]
        /\ \A s \in Three : registry'[s] = NoDoc => registry[s] = NoDoc \/ \A c \in ScopedSet : rows[c][s] # "live"
    BY <1>1, <2>2, <2>3, <2>4
  <2>. QED
    BY <1>3, <2>4, <2>5, RegistryPurges
<1>9. CASE AbandonJob(r)
  <2>1. jobs' = [jobs EXCEPT ![r] = Idle] /\ UNCHANGED <<registry, rows, table, dirty>>
    BY <1>9 DEF AbandonJob
  <2>. QED
    BY <1>3, <2>1, JobPurges
<1>10. CASE DeletePurge(r)
  <2>1. DeletionAt(jobs[r]) /\ jobs[r].pc = "purge"
    BY <1>1, <1>10, JobKinds DEF DeletePurge
  <2>2. PICK t, n : t = jobs[r].id /\ n = jobs[r].at
    OBVIOUS
  <2>3. t \in Three /\ n \in 1..Len(Scoped) /\ Scoped[n] \in ScopedSet /\ Scoped[n] \in Collections
    BY <2>1, <2>2, ScopedList DEF DeletionAt, Deleting, ScopedSet
  <2>4. /\ rows' = [rows EXCEPT ![Scoped[n]][t] = "none"]
        /\ UNCHANGED <<registry, table, dirty>>
    BY <1>10, <2>2 DEF DeletePurge
  <2>5. /\ RowsTyped'
        /\ \A c \in Collections, s \in Three : rows'[c][s] = IF c = Scoped[n] /\ s = t THEN "none" ELSE rows[c][s]
    BY <2>3, <2>4 DEF PurgeInv, RowsTyped
  <2>6. PICK pc \in {"purge", "remove"} : pc = IF n = Len(Scoped) THEN "remove" ELSE "purge"
    OBVIOUS
  <2>7. PICK j : j = [jobs[r] EXCEPT !.at = n + 1, !.pc = pc]
    OBVIOUS
  <2>8. DeletionAt(j) /\ j.pc = pc /\ j.at = n + 1 /\ j.id = t
    <3>1. jobs[r] \in Deleting /\ Len(Scoped) \in Nat
      BY <2>1, ScopedList DEF DeletionAt
    <3>2. j.pc = pc /\ j.at = n + 1 /\ j.id = t /\ j \in Deleting
      <4>1. jobs[r] = [pc |-> jobs[r].pc, id |-> t, at |-> n]
        BY <2>2, <3>1 DEF Deleting
      <4>2. j = [pc |-> pc, id |-> t, at |-> n + 1]
        <5>1. PICK p : jobs[r] = [pc |-> p, id |-> t, at |-> n]
          BY <4>1
        <5>2. j = [[pc |-> p, id |-> t, at |-> n] EXCEPT !.at = n + 1, !.pc = pc]
          BY <2>7, <5>1
        <5>. QED
          BY <5>2
      <4>3. n + 1 \in 1..(Len(Scoped) + 1)
        BY <2>3, <3>1
      <4>. QED
        BY <2>3, <2>6, <4>2, <4>3 DEF Deleting
    <3>3. (n = Len(Scoped) /\ pc = "remove") \/ (n + 1 <= Len(Scoped) /\ pc = "purge")
      BY <2>3, <2>6, <3>1
    <3>. QED
      BY <3>2, <3>3 DEF DeletionAt
  <2>9. jobs' = [jobs EXCEPT ![r] = j]
    <3>1. jobs' = [jobs EXCEPT ![r].at = n + 1, ![r].pc = pc]
      BY <1>10, <2>2, <2>6 DEF DeletePurge
    <3>2. jobs = [q \in Requests |-> jobs[q]]
      BY <1>1 DEF JobsTyped
    <3>. QED
      BY <2>7, <3>1, <3>2
  <2>10. JobsTyped' /\ jobs'[r] = j /\ \A q \in Requests \ {r} : jobs'[q] = jobs[q]
    BY <1>1, <2>8, <2>9, JobSet
  <2>11. SweptIsClean'
    <3> SUFFICES ASSUME NEW q \in Requests, jobs'[q].pc \in {"purge", "remove"}, NEW c \in ScopedSet,
                        \A i \in jobs'[q].at .. Len(Scoped) : Scoped[i] # c
                 PROVE  rows'[c][jobs'[q].id] # "live"
      BY DEF SweptIsClean, ScopedSet
    <3>0. c \in Collections
      BY ScopedList
    <3>1. CASE q # r
      <4>1. jobs'[q] = jobs[q] /\ jobs[q].id \in Three
        BY <1>1, <2>10, <3>1, JobKinds
      <4>2. rows[c][jobs[q].id] # "live"
        BY <4>1 DEF PurgeInv, SweptIsClean
      <4>. QED
        BY <2>5, <3>0, <4>1, <4>2
    <3>2. CASE q = r
      <4>1. jobs'[q].id = t /\ jobs'[q].at = n + 1
        BY <2>8, <2>10, <3>2
      <4>2. CASE c = Scoped[n]
        BY <2>3, <2>5, <3>0, <4>1, <4>2
      <4>3. CASE c # Scoped[n]
        <5>1. \A i \in n .. Len(Scoped) : i = n \/ i \in (n + 1) .. Len(Scoped)
          BY <2>3, ScopedList
        <5>2. \A i \in n .. Len(Scoped) : Scoped[i] # c
          BY <4>1, <4>3, <5>1
        <5>3. rows[c][t] # "live"
          BY <2>1, <2>2, <5>2 DEF PurgeInv, SweptIsClean
        <5>. QED
          BY <2>3, <2>5, <3>0, <4>1, <5>3
      <4>. QED
        BY <4>2, <4>3
    <3>. QED
      BY <3>1, <3>2
  <2>12. PurgeComplete'
    <3> SUFFICES ASSUME NEW s \in Three, registry[s] = NoDoc, NEW c \in ScopedSet
                 PROVE  rows'[c][s] # "live"
      BY <1>1, <2>4 DEF PurgeComplete, Existing, Slugs, ScopedSet
    <3>1. rows[c][s] # "live" /\ c \in Collections
      BY <1>1, ScopedList DEF PurgeInv, PurgeComplete, Existing, Slugs
    <3>. QED
      BY <2>5, <3>1
  <2>13. IngestTableFollows'
    BY <1>1, <2>4, FollowsStill DEF PurgeInv
  <2>. QED
    BY <2>4, <2>5, <2>10, <2>11, <2>12, <2>13 DEF PurgeInv, RegistryTyped, TableTyped
<1>. QED
  BY <1>4, <1>5, <1>6, <1>7, <1>8, <1>9, <1>10

(* A behaviour about tenants keeps the invariant at every step.            *)
LEMMA TenantPurges ==
  ASSUME PurgeInv, TenantNext
  PROVE  PurgeInv'
<1>1. topic = "tenant" /\ topic' = topic
  BY DEF TenantNext
<1>2. JobsTyped /\ registry \in [Three -> TenantDoc \cup {NoDoc}] /\ TableTyped
  BY DEF PurgeInv, RegistryTyped
<1>3. UNCHANGED jobs => JobsTyped' /\ \A q \in Requests : jobs'[q] = jobs[q]
  BY <1>2 DEF JobsTyped, DeletionAt, Deleting, Making, Updating, Idle, Patch
<1>4. CASE \E r \in Requests, t \in {"acme", "beta"} :
             \/ handleTenantCreate(r, Root, t, FALSE, "k1", "k2")
             \/ handleTenantAdminReset(r, Root, t)
             \/ \E p \in {[status |-> "suspended"], [status |-> "active"], [token |-> "k2"], [login_key |-> "k3"]} :
                  handleTenantUpdate(r, Root, t, p)
             \/ handleTenantDelete(r, Root, t)
  BY <1>1, <1>4, TenantRequests
<1>5. CASE \E r \in Requests :
             \/ UpdateTenant(r) \/ seedTenant(r) \/ CreateAdmin(r, "p2") \/ ResetAdmin(r, "p3")
             \/ DeleteSuspend(r) \/ DeletePurge(r) \/ DeleteRegistry(r) \/ AbandonJob(r)
  BY <1>1, <1>5, TenantJobs
<1>6. ASSUME NEW col \in {"record", "refresh_token"}, SessionWrites("acme", col) PROVE PurgeInv'
  <2>1. rows' = WriteRow(rows, "acme", col) /\ UNCHANGED <<registry, jobs, table, dirty>>
    BY <1>6 DEF SessionWrites
  <2>2. col \in Collections /\ "acme" \in Three
    BY ScopedList DEF Three
  <2>. QED
    BY <1>1, <1>3, <2>1, <2>2, WritePurges
<1>7. ASSUME NEW k \in IngestTokens, IngestTenant(k) PROVE PurgeInv'
  <2>1. rows' = WriteRow(rows, Lookup(k), "record") /\ UNCHANGED <<registry, jobs, table, dirty>>
    BY <1>7 DEF IngestTenant
  <2>2. "record" \in Collections /\ Lookup(k) \in Three
    BY <1>2, ScopedList DEF Three, Lookup, TableTyped
  <2>. QED
    BY <1>1, <1>3, <2>1, <2>2, WritePurges
<1>8. CASE ReloadIngestTokens
  <2>1. /\ UNCHANGED <<registry, rows, jobs>>
        /\ table' \in Tables(registry) \/ (table' = table /\ dirty' # "none")
    BY <1>8 DEF ReloadIngestTokens
  <2>2. TableTyped'
    BY <1>2, <2>1, TablesTyped DEF TableTyped, Three
  <2>3. Tables(registry)' = Tables(registry)
    BY <1>2, <2>1, SameTables DEF HasToken
  <2>4. RegistryTyped' /\ RowsTyped' /\ IngestTableFollows'
    BY <1>1, <2>1, <2>3 DEF PurgeInv, RegistryTyped, RowsTyped, IngestTableFollows
  <2>5. SweptIsClean' /\ PurgeComplete'
    BY <1>1, <2>1 DEF PurgeInv, SweptIsClean, PurgeComplete, ScopedSet, Existing, Slugs
  <2>. QED
    BY <1>3, <2>1, <2>2, <2>4, <2>5 DEF PurgeInv
<1>. QED
  BY <1>4, <1>5, <1>6, <1>7, <1>8 DEF TenantNext

(* Outside the topic of tenants no request about one is under way, and     *)
(* nothing else is asked but that the table follows the tokens.            *)
QuietInv == PurgeInv /\ (topic # "tenant" => \A r \in Requests : jobs[r] = Idle)

LEMMA QuietPurges ==
  ASSUME QuietInv, topic # "tenant", UNCHANGED <<topic, jobs, table, dirty>>, RegistryTyped', RowsTyped',
         Tables(registry)' = Tables(registry)
  PROVE  QuietInv'
<1>1. \A r \in Requests : jobs[r] = Idle /\ Idle.pc = "idle"
  BY DEF QuietInv, Idle
<1>2. JobsTyped'
  BY <1>1 DEF QuietInv, PurgeInv, JobsTyped
<1>3. SweptIsClean'
  BY <1>1 DEF SweptIsClean
<1>4. PurgeComplete'
  BY DEF PurgeComplete
<1>5. TableTyped' /\ IngestTableFollows'
  BY DEF QuietInv, PurgeInv, TableTyped, IngestTableFollows
<1>. QED
  BY <1>1, <1>2, <1>3, <1>4, <1>5 DEF QuietInv, PurgeInv, Idle

(* The boot writes rows and the document of the default tenant only.       *)
LEMMA BootPurges ==
  ASSUME QuietInv, BootNext
  PROVE  QuietInv'
<1>0. topic = "boot" /\ UNCHANGED topic /\ RowsTyped /\ RegistryTyped
  BY DEF BootNext, QuietInv, PurgeInv
<1>1. UNCHANGED <<jobs, table, dirty>>
  BY DEF BootNext, BootRead, BootWriteSecret, BootstrapDB, BootMarker, EnsureRoot, Shutdown, MigrationStep, MigrationRestart
<1>2. registry' = registry \/ registry' = SeedDefault
  BY DEF BootNext, BootRead, BootWriteSecret, BootstrapDB, BootMarker, EnsureRoot, Shutdown, MigrationStep, MigrationRestart
<1>3. rows' = rows \/ \E col \in {"role", "general", "user"} : rows' = WriteRow(rows, DefaultTenant, col)
  BY DEF BootNext, BootRead, BootWriteSecret, BootstrapDB, BootMarker, EnsureRoot, Shutdown, MigrationStep, MigrationRestart
<1>4. RegistryTyped' /\ Tables(registry)' = Tables(registry)
  <2>1. CASE registry' = registry
    <3>1. Tables(registry)' = Tables(registry)
      BY <1>0, <2>1, SameTables DEF HasToken, RegistryTyped
    <3>. QED
      BY <1>0, <2>1, <3>1 DEF RegistryTyped
  <2>2. CASE registry' = SeedDefault
    BY <1>0, <2>2, SeedEffect
  <2>. QED
    BY <1>2, <2>1, <2>2
<1>5. RowsTyped'
  <2>1. CASE rows' = rows
    BY <1>0, <2>1 DEF RowsTyped
  <2>2. ASSUME NEW col \in {"role", "general", "user"}, rows' = WriteRow(rows, DefaultTenant, col) PROVE RowsTyped'
    <3>1. col \in Collections /\ DefaultTenant \in Three
      BY ScopedList DEF Three
    <3>. QED
      BY <1>0, <2>2, <3>1, WriteRowEffect
  <2>. QED
    BY <1>3, <2>1, <2>2
<1>. QED
  BY <1>0, <1>1, <1>4, <1>5, QuietPurges

(* The other topics at most switch the status of a tenant.                 *)
LEMMA OtherPurges ==
  ASSUME QuietInv, AccountsNext \/ SessionNext \/ KeysNext \/ SignInNext
  PROVE  QuietInv'
<1>0. UNCHANGED <<topic, rows, jobs, table, dirty>> /\ topic # "tenant" /\ RegistryTyped /\ RowsTyped
  BY TenancyFrame DEF tenancyVars, QuietInv, PurgeInv
<1>1. RegistryTyped' /\ Tables(registry)' = Tables(registry)
  <2>1. CASE registry' = registry
    <3>1. Tables(registry)' = Tables(registry)
      BY <1>0, <2>1, SameTables DEF HasToken, RegistryTyped
    <3>. QED
      BY <1>0, <2>1, <3>1 DEF RegistryTyped
  <2>2. ASSUME NEW s \in {"active", "suspended"}, ReopenTenant(s) PROVE RegistryTyped' /\ Tables(registry)' = Tables(registry)
    <3>1. PICK d : d = registry["acme"]
      OBVIOUS
    <3>2. d \in TenantDoc
      BY <1>0, <3>1 DEF RegistryTyped
    <3>3. PICK e : e = [d EXCEPT !.status = s]
      OBVIOUS
    <3>4. e \in TenantDoc /\ e.token = d.token
      BY <3>2, <3>3 DEF TenantDoc
    <3>5. registry' = [registry EXCEPT !["acme"] = e]
      BY <2>2, <3>1, <3>3 DEF ReopenTenant
    <3>6. /\ registry' \in [Three -> TenantDoc \cup {NoDoc}] /\ registry'["acme"] = e
          /\ \A t \in Three \ {"acme"} : registry'[t] = registry[t]
      BY <1>0, <3>4, <3>5 DEF RegistryTyped, Three
    <3>7. \A t \in Three : (HasToken(t)' <=> HasToken(t)) /\ (HasToken(t) => registry'[t].token = registry[t].token)
      BY <3>1, <3>2, <3>4, <3>6, NoDocApart DEF HasToken
    <3>8. Tables(registry)' = Tables(registry)
      BY <1>0, <3>6, <3>7, SameTables DEF RegistryTyped
    <3>. QED
      BY <3>4, <3>6, <3>8 DEF RegistryTyped
  <2>. QED
    BY <2>1, <2>2, RegistryFrame
<1>2. RowsTyped'
  BY <1>0 DEF RowsTyped
<1>. QED
  BY <1>0, <1>1, <1>2, QuietPurges

--------------------------------------------------------------------------
(* The migration and the boot                                              *)

(* Whatever the migration does not touch is left alone by the other topics. *)
LEMMA BootFrame ==
  ASSUME [Next]_vars
  PROVE  BootNext \/ UNCHANGED <<legacy, migration, secret, boots>>
<1>1. CASE TenantNext
  <2>1. ASSUME NEW r, NEW t, NEW p, \/ handleTenantCreate(r, Root, t, FALSE, "k1", "k2") \/ handleTenantAdminReset(r, Root, t)
                                    \/ handleTenantUpdate(r, Root, t, p) \/ handleTenantDelete(r, Root, t)
        PROVE  UNCHANGED <<legacy, migration, secret, boots>>
    BY <2>1 DEF handleTenantCreate, handleTenantAdminReset, handleTenantUpdate, handleTenantDelete
  <2>2. ASSUME NEW r, \/ UpdateTenant(r) \/ seedTenant(r) \/ CreateAdmin(r, "p2") \/ ResetAdmin(r, "p3")
                      \/ DeleteSuspend(r) \/ DeletePurge(r) \/ DeleteRegistry(r) \/ AbandonJob(r)
        PROVE  UNCHANGED <<legacy, migration, secret, boots>>
    BY <2>2 DEF UpdateTenant, seedTenant, CreateAdmin, ResetAdmin, EnsureTenantAdmin, DeleteSuspend, DeletePurge,
       DeleteRegistry, AbandonJob
  <2>3. ASSUME NEW k, SessionWrites("acme", k) \/ IngestTenant(k) \/ ReloadIngestTokens
        PROVE  UNCHANGED <<legacy, migration, secret, boots>>
    BY <2>3 DEF SessionWrites, IngestTenant, ReloadIngestTokens
  <2>. QED
    BY <1>1, <2>1, <2>2, <2>3 DEF TenantNext
<1>2. CASE AccountsNext \/ SessionNext \/ KeysNext \/ SignInNext
  BY <1>2, TenancyFrame DEF tenancyVars
<1>3. CASE UNCHANGED vars
  BY <1>3 DEF vars, tenancyVars
<1>. QED
  BY <1>1, <1>2, <1>3 DEF Next

(* A step of the migration stamps the collection it is at, and nothing     *)
(* that was stamped is left unstamped but by a start from the beginning.   *)
LEMMA MigrationGoesOn ==
  ASSUME MigrationInv, BootNext
  PROVE  MigrationInv'
<1>0. Sentinel = Len(Scoped) + 4 /\ Len(Scoped) \in Nat /\ DOMAIN Scoped = 1..Len(Scoped)
  BY ScopedList DEF Sentinel
<1>1. CASE MigrationStep
  <2>1. migration \in 0..(Sentinel - 1) /\ migration' = migration + 1
    BY <1>1 DEF MigrationStep
  <2>2. migration' \in 0..Sentinel
    BY <1>0, <2>1
  <2>3. CASE migration - 1 \in DOMAIN Scoped
    <3>1. legacy' = legacy \ {Scoped[migration - 1]} /\ migration' # Sentinel /\ migration # Sentinel
      BY <1>0, <1>1, <2>1, <2>3 DEF MigrationStep
    <3>2. ASSUME NEW i \in DOMAIN Scoped, i < migration' - 1 PROVE i < migration - 1 \/ i = migration - 1
      BY <1>0, <2>1, <3>2
    <3>. QED
      BY <2>2, <3>1, <3>2 DEF MigrationInv, Sentinel, ScopedSet
  <2>4. CASE migration - 1 \notin DOMAIN Scoped /\ migration = 1
    <3>1. legacy' = legacy \cup {"role"} /\ migration' # Sentinel /\ migration # Sentinel
      BY <1>0, <1>1, <2>1, <2>4 DEF MigrationStep
    <3>2. \A i \in DOMAIN Scoped : ~ (i < migration' - 1)
      BY <1>0, <2>1, <2>4
    <3>3. legacy' \subseteq ScopedSet
      BY <3>1, ScopedList DEF MigrationInv
    <3>. QED
      BY <2>2, <3>1, <3>2, <3>3 DEF MigrationInv, Sentinel, ScopedSet
  <2>5. CASE migration - 1 \notin DOMAIN Scoped /\ migration # 1
    <3>1. /\ legacy' = IF migration = Sentinel - 1 THEN legacy \cup {SentinelRow} ELSE legacy
          /\ migration # Sentinel /\ (migration' = Sentinel <=> migration = Sentinel - 1)
      <4>1. migration \in Int /\ Sentinel \in Int
        BY <1>0, <2>1
      <4>2. migration # Sentinel /\ (migration' = Sentinel <=> migration = Sentinel - 1)
        BY <1>0, <2>1, <4>1
      <4>3. legacy' = legacy \cup (IF migration = Sentinel - 1 THEN {SentinelRow} ELSE {})
        BY <1>1, <2>5 DEF MigrationStep
      <4>. QED
        BY <4>2, <4>3
    <3>2. ASSUME NEW i \in DOMAIN Scoped, i < migration' - 1 PROVE i < migration - 1
      BY <1>0, <2>1, <2>5, <3>2
    <3>3. \A i \in DOMAIN Scoped : Scoped[i] # SentinelRow
      BY TenancyAssumption DEF SentinelRow
    <3>4. \A i \in DOMAIN Scoped : i < migration' - 1 => Scoped[i] \notin legacy'
      BY <3>1, <3>2, <3>3 DEF MigrationInv
    <3>5. /\ migration' # Sentinel => legacy' \subseteq ScopedSet
          /\ migration' = Sentinel => legacy' \subseteq ScopedSet \cup {SentinelRow} /\ SentinelRow \in legacy'
      BY <3>1 DEF MigrationInv
    <3>. QED
      BY <2>2, <3>4, <3>5 DEF MigrationInv, Sentinel, ScopedSet, SentinelRow
  <2>. QED
    BY <2>3, <2>4, <2>5
<1>2. CASE MigrationRestart
  <2>1. migration' = 0 /\ legacy' = legacy /\ migration # Sentinel /\ migration' # Sentinel
    BY <1>0, <1>2 DEF MigrationRestart
  <2>2. \A i \in DOMAIN Scoped : ~ (i < migration' - 1)
    BY <1>0, <2>1
  <2>. QED
    BY <1>0, <2>1, <2>2 DEF MigrationInv, Sentinel, ScopedSet
<1>3. ASSUME NEW n, BootRead(n) \/ BootWriteSecret(n) \/ BootstrapDB(n) \/ BootMarker(n) \/ EnsureRoot(n) \/ Shutdown(n)
      PROVE  MigrationInv'
  <2>1. UNCHANGED <<legacy, migration>>
    BY <1>3 DEF BootRead, BootWriteSecret, BootstrapDB, BootMarker, EnsureRoot, Shutdown
  <2>. QED
    BY <2>1 DEF MigrationInv, Sentinel, ScopedSet, SentinelRow
<1>. QED
  BY <1>1, <1>2, <1>3 DEF BootNext

(* One server's record is replaced.                                        *)
LEMMA BootSet ==
  ASSUME BootShape, NEW n \in Nodes, NEW b, boots' = [boots EXCEPT ![n] = b],
         \E p, k, l : b = [pc |-> p, key |-> k, late |-> l]
  PROVE  /\ BootShape' /\ boots'[n] = b
         /\ \A m \in Nodes \ {n} : boots'[m] = boots[m]
<1>1. boots' = [m \in Nodes |-> IF m = n THEN b ELSE boots[m]]
  BY DEF BootShape
<1>2. boots'[n] = b /\ \A m \in Nodes \ {n} : boots'[m] = boots[m]
  BY <1>1
<1>3. boots' = [m \in Nodes |-> boots'[m]]
  BY <1>1
<1>4. ASSUME NEW m \in Nodes PROVE \E p, k, l : boots'[m] = [pc |-> p, key |-> k, late |-> l]
  <2>1. CASE m = n
    <3>1. PICK p, k, l : b = [pc |-> p, key |-> k, late |-> l]
      OBVIOUS
    <3>2. boots'[m] = [pc |-> p, key |-> k, late |-> l]
      BY <1>2, <2>1, <3>1
    <3>. QED
      BY <3>2, Zenon
  <2>2. CASE m # n
    <3>1. PICK p, k, l : boots[m] = [pc |-> p, key |-> k, late |-> l]
      BY DEF BootShape
    <3>2. boots'[m] = [pc |-> p, key |-> k, late |-> l]
      BY <1>2, <2>2, <3>1
    <3>. QED
      BY <3>2, Zenon
  <2>. QED
    BY <2>1, <2>2
<1>. QED
  BY <1>2, <1>3, <1>4 DEF BootShape

(* A server that is past its secret has the key of the database, as long   *)
(* as no key was written over another.                                     *)
LEMMA KeysAgree ==
  ASSUME BootInv, BootNext
  PROVE  BootInv'
<1>0. BootShape /\ boots = [m \in Nodes |-> boots[m]]
  BY DEF BootInv, BootShape
<1>1. CASE MigrationStep \/ MigrationRestart
  <2>1. UNCHANGED <<boots, secret>>
    BY <1>1 DEF MigrationStep, MigrationRestart
  <2>. QED
    BY <2>1 DEF BootInv, BootShape
<1>2. ASSUME NEW n \in Nodes, BootRead(n) PROVE BootInv'
  <2>1. secret' = secret
    BY <1>2 DEF BootRead
  <2>2. PICK p, k, l : boots[n] = [pc |-> p, key |-> k, late |-> l]
    BY <1>0 DEF BootShape
  <2>3. PICK pc, key : pc = (IF secret = NoSecret THEN "draw" ELSE "seed") /\ key = (IF secret = NoSecret THEN n ELSE secret)
    OBVIOUS
  <2>4. PICK b : b = [boots[n] EXCEPT !.pc = pc, !.key = key]
    OBVIOUS
  <2>5. b = [pc |-> pc, key |-> key, late |-> l]
    <3>1. PICK r : r = boots[n]
      OBVIOUS
    <3>2. r = [pc |-> p, key |-> k, late |-> l] /\ b = [r EXCEPT !.pc = pc, !.key = key]
      BY <2>2, <2>4, <3>1
    <3>. QED
      BY <3>2
  <2>6. boots' = [boots EXCEPT ![n] = b]
    BY <1>0, <1>2, <2>3, <2>4 DEF BootRead
  <2>7. BootShape' /\ boots'[n] = b /\ \A m \in Nodes \ {n} : boots'[m] = boots[m]
    BY <1>0, <2>5, <2>6, BootSet
  <2>8. boots'[n].pc = pc /\ boots'[n].key = key /\ boots'[n].late = boots[n].late
    BY <2>2, <2>5, <2>7
  <2>. QED
    BY <2>1, <2>3, <2>7, <2>8 DEF BootInv
<1>3. ASSUME NEW n \in Nodes, BootWriteSecret(n) PROVE BootInv'
  <2>1. boots[n].pc = "draw" /\ secret' = boots[n].key
    BY <1>3 DEF BootWriteSecret
  <2>2. PICK p, k, l : boots[n] = [pc |-> p, key |-> k, late |-> l]
    BY <1>0 DEF BootShape
  <2>3. PICK late : late = (boots[n].late \/ secret # NoSecret)
    OBVIOUS
  <2>4. PICK b : b = [boots[n] EXCEPT !.pc = "seed", !.late = late]
    OBVIOUS
  <2>5. b = [pc |-> "seed", key |-> k, late |-> late]
    <3>1. PICK r : r = boots[n]
      OBVIOUS
    <3>2. r = [pc |-> p, key |-> k, late |-> l] /\ b = [r EXCEPT !.pc = "seed", !.late = late]
      BY <2>2, <2>4, <3>1
    <3>. QED
      BY <3>2
  <2>6. boots' = [boots EXCEPT ![n] = b]
    BY <1>0, <1>3, <2>3, <2>4 DEF BootWriteSecret
  <2>7. BootShape' /\ boots'[n] = b /\ \A m \in Nodes \ {n} : boots'[m] = boots[m]
    BY <1>0, <2>5, <2>6, BootSet
  <2>8. boots'[n].pc = "seed" /\ boots'[n].key = boots[n].key /\ boots'[n].late = late
    BY <2>2, <2>5, <2>7
  <2>9. boots[n].key = n /\ n # NoSecret
    BY <2>1, TenancyAssumption DEF BootInv
  <2>10. ASSUME \A m \in Nodes : ~ boots'[m].late PROVE secret = NoSecret /\ \A m \in Nodes : ~ boots[m].late
    BY <2>3, <2>7, <2>8, <2>10
  <2>11. ASSUME \A m \in Nodes : ~ boots'[m].late, NEW m \in Nodes, boots'[m].pc \notin {"down", "draw"}
        PROVE  boots'[m].key = secret' /\ secret' # NoSecret
    <3>1. m = n
      BY <2>7, <2>10, <2>11 DEF BootInv
    <3>. QED
      BY <2>1, <2>8, <2>9, <3>1
  <2>12. \A m \in Nodes : boots'[m].pc = "draw" => boots'[m].key = m
    BY <2>7, <2>8 DEF BootInv
  <2>. QED
    BY <2>7, <2>11, <2>12 DEF BootInv
<1>4. ASSUME NEW n \in Nodes, BootstrapDB(n) \/ BootMarker(n) \/ EnsureRoot(n) PROVE BootInv'
  <2>1. PICK pc \in {"mark", "root", "up"} : boots' = [boots EXCEPT ![n].pc = pc]
    BY <1>4 DEF BootstrapDB, BootMarker, EnsureRoot
  <2>2. boots[n].pc \in {"seed", "mark", "root"} /\ secret' = secret
    BY <1>4 DEF BootstrapDB, BootMarker, EnsureRoot
  <2>3. PICK p, k, l : boots[n] = [pc |-> p, key |-> k, late |-> l]
    BY <1>0 DEF BootShape
  <2>4. PICK b : b = [boots[n] EXCEPT !.pc = pc]
    OBVIOUS
  <2>5. b = [pc |-> pc, key |-> k, late |-> l]
    BY <2>3, <2>4
  <2>6. boots' = [boots EXCEPT ![n] = b]
    BY <1>0, <2>1, <2>4
  <2>7. BootShape' /\ boots'[n] = b /\ \A m \in Nodes \ {n} : boots'[m] = boots[m]
    BY <1>0, <2>5, <2>6, BootSet
  <2>8. boots'[n].pc = pc /\ boots'[n].key = boots[n].key /\ boots'[n].late = boots[n].late
    BY <2>3, <2>5, <2>7
  <2>. QED
    BY <2>1, <2>2, <2>7, <2>8 DEF BootInv
<1>5. ASSUME NEW n \in Nodes, Shutdown(n) PROVE BootInv'
  <2>1. boots' = [boots EXCEPT ![n].pc = "down", ![n].key = NoSecret] /\ secret' = secret
    BY <1>5 DEF Shutdown
  <2>2. PICK p, k, l : boots[n] = [pc |-> p, key |-> k, late |-> l]
    BY <1>0 DEF BootShape
  <2>3. PICK b : b = [boots[n] EXCEPT !.pc = "down", !.key = NoSecret]
    OBVIOUS
  <2>4. b = [pc |-> "down", key |-> NoSecret, late |-> l]
    <3>1. PICK r : r = boots[n]
      OBVIOUS
    <3>2. r = [pc |-> p, key |-> k, late |-> l] /\ b = [r EXCEPT !.pc = "down", !.key = NoSecret]
      BY <2>2, <2>3, <3>1
    <3>. QED
      BY <3>2
  <2>5. boots' = [boots EXCEPT ![n] = b]
    BY <1>0, <2>1, <2>3
  <2>6. BootShape' /\ boots'[n] = b /\ \A m \in Nodes \ {n} : boots'[m] = boots[m]
    BY <1>0, <2>4, <2>5, BootSet
  <2>7. boots'[n].pc = "down" /\ boots'[n].late = boots[n].late
    BY <2>2, <2>4, <2>6
  <2>. QED
    BY <2>1, <2>6, <2>7 DEF BootInv
<1>. QED
  BY <1>1, <1>2, <1>3, <1>4, <1>5 DEF BootNext

--------------------------------------------------------------------------
(* Tenants are whole                                                       *)

TenantsInv == QuietInv /\ MigrationInv /\ BootInv

(* Every behaviour starts with the invariants of the tenants.              *)
LEMMA TenantsStart ==
  ASSUME Init
  PROVE  TenantsInv
<1>1. PICK d0, d1 : d0 = Tenant("active", "") /\ d1 = Tenant("active", "k1")
  OBVIOUS
<1>2. d0 = [status |-> "active", listed |-> TRUE, token |-> "", login_key |-> ""]
  BY <1>1 DEF Tenant
<1>3. d1 = [status |-> "active", listed |-> TRUE, token |-> "k1", login_key |-> "k1"]
  BY <1>1 DEF Tenant
<1>4. d0 \in TenantDoc /\ d1 \in TenantDoc
  BY <1>2, <1>3, AccessAssumption DEF TenantDoc, LoginKeys
<1>5. d0.token = "" /\ d1.token = "k1" /\ d0 # NoDoc /\ d1 # NoDoc
  BY <1>2, <1>3, <1>4, NoDocApart
<1>6. registry = [t \in Three |-> IF t = DefaultTenant THEN d0 ELSE IF t = "acme" THEN d1 ELSE NoDoc]
  BY <1>1 DEF Init, Three
<1>7. registry[DefaultTenant] = d0 /\ registry["acme"] = d1 /\ registry["beta"] = NoDoc /\ DOMAIN registry = Three
  BY <1>6 DEF Three, DefaultTenant
<1>8. RegistryTyped
  BY <1>4, <1>6, <1>7 DEF RegistryTyped
<1>9. rows = [col \in Collections |-> [t \in Three |->
                IF (t = "acme" /\ topic = "tenant") \/ (t = DefaultTenant /\ topic # "boot") THEN "live" ELSE "none"]]
  BY <1>7 DEF Init, Slugs
<1>10. RowsTyped
  BY <1>9 DEF RowsTyped
<1>11. (\A r \in Requests : jobs[r] = Idle /\ jobs[r].pc = "idle") /\ JobsTyped
  BY DEF Init, JobsTyped, Idle
<1>12. SweptIsClean
  BY <1>11 DEF SweptIsClean
<1>13. PurgeComplete
  <2> SUFFICES ASSUME NEW t \in Three, registry[t] = NoDoc, NEW col \in ScopedSet, topic = "tenant" PROVE rows[col][t] # "live"
    BY <1>7 DEF PurgeComplete, Existing, Slugs
  <2>1. t = "beta"
    BY <1>5, <1>7 DEF Three
  <2>. QED
    BY <1>9, <2>1, ScopedList DEF DefaultTenant
<1>14. table = [k \in {"k1"} |-> "acme"] \/ (DOMAIN table = {} /\ dirty # "none")
  BY NoDocEmpty DEF Init, NoDoc
<1>15. TableTyped
  BY <1>14 DEF TableTyped, Three
<1>16. ASSUME table = [k \in {"k1"} |-> "acme"] PROVE table \in Tables(registry)
  <2>1. {t \in Slugs : registry[t] # NoDoc /\ registry[t].token # ""} = {"acme"}
    BY <1>5, <1>7 DEF Slugs, Three, DefaultTenant
  <2>2. {registry[t].token : t \in {"acme"}} = {"k1"}
    BY <1>5, <1>7
  <2>3. Tables(registry) = {m \in [{"k1"} -> {"acme"}] : \A k \in {"k1"} : registry[m[k]].token = k}
    BY <2>1, <2>2 DEF Tables
  <2>. QED
    BY <1>5, <1>7, <1>16, <2>3
<1>17. QuietInv
  BY <1>8, <1>10, <1>11, <1>12, <1>13, <1>14, <1>15, <1>16 DEF QuietInv, PurgeInv, IngestTableFollows
<1>18. MigrationInv
  <2>1. migration = 0 /\ legacy \subseteq ScopedSet
    BY DEF Init
  <2>. QED
    BY <2>1, ScopedList DEF MigrationInv, Sentinel
<1>19. BootInv
  <2>1. boots = [n \in Nodes |-> [pc |-> "down", key |-> NoSecret, late |-> FALSE]]
    BY DEF Init
  <2>2. boots = [n \in Nodes |-> boots[n]]
    BY <2>1
  <2>3. \A n \in Nodes : boots[n] = [pc |-> "down", key |-> NoSecret, late |-> FALSE] /\ boots[n].pc = "down"
    BY <2>1
  <2>4. ASSUME NEW n \in Nodes PROVE \E p, k, l : boots[n] = [pc |-> p, key |-> k, late |-> l]
    BY <2>3, Zenon
  <2>. QED
    BY <2>2, <2>3, <2>4 DEF BootInv, BootShape
<1>. QED
  BY <1>17, <1>18, <1>19 DEF TenantsInv

(* A step in which nothing happens keeps them.                             *)
LEMMA TenantsStutter ==
  ASSUME QuietInv, UNCHANGED vars
  PROVE  QuietInv'
<1>1. UNCHANGED <<topic, registry, rows, jobs, table, dirty>>
  BY DEF vars, sessionVars, tenancyVars
<1>2. IngestTableFollows'
  BY <1>1, FollowsStill DEF QuietInv, PurgeInv, RegistryTyped
<1>3. PurgeComplete' /\ SweptIsClean'
  BY <1>1 DEF QuietInv, PurgeInv, PurgeComplete, SweptIsClean, ScopedSet, Existing, Slugs
<1>4. JobsTyped'
  BY <1>1 DEF QuietInv, PurgeInv, JobsTyped, DeletionAt, Deleting, Making, Updating, Idle, Patch
<1>. QED
  BY <1>1, <1>2, <1>3, <1>4 DEF QuietInv, PurgeInv, RegistryTyped, RowsTyped, TableTyped, Idle

(* The invariants of the tenants hold throughout.                          *)
LEMMA TenantsKept == Spec => []TenantsInv
<1>1. Init => TenantsInv
  BY TenantsStart
<1>2. TenantsInv /\ [Next]_vars => TenantsInv'
  <2> SUFFICES ASSUME TenantsInv, [Next]_vars PROVE TenantsInv'
    OBVIOUS
  <2>0. QuietInv /\ MigrationInv /\ BootInv
    BY DEF TenantsInv
  <2>1. QuietInv'
    <3>1. CASE TenantNext
      <4>1. topic' = "tenant" /\ PurgeInv
        BY <2>0, <3>1 DEF TenantNext, QuietInv
      <4>. QED
        BY <3>1, <4>1, TenantPurges DEF QuietInv
    <3>. QED
      BY <2>0, <3>1, BootPurges, OtherPurges, TenantsStutter DEF Next
  <2>2. MigrationInv' /\ BootInv'
    <3>1. CASE BootNext
      BY <2>0, <3>1, MigrationGoesOn, KeysAgree
    <3>2. CASE UNCHANGED <<legacy, migration, secret, boots>>
      <4>1. MigrationInv'
        BY <2>0, <3>2 DEF MigrationInv, Sentinel, ScopedSet, SentinelRow
      <4>2. BootInv'
        BY <2>0, <3>2 DEF BootInv, BootShape
      <4>. QED
        BY <4>1, <4>2
    <3>. QED
      BY <3>1, <3>2, BootFrame
  <2>. QED
    BY <2>1, <2>2 DEF TenantsInv
<1>. QED
  BY <1>1, <1>2, PTL DEF Spec

(* Once a tenant's document is gone its collections hold nothing that was  *)
(* not written after their sweep; the ingest table follows the registry    *)
(* unless an announcement or its reload was lost; only tenants that a      *)
(* login is let into are offered; when the sentinel is there it is the     *)
(* only row without a tenant; and servers share the signing                *)
(* key unless one was overwritten (routes_tenant.go, ingest_reload.go,     *)
(* migrate.go, secrets.go): for any list of tenant-scoped collections, any *)
(* number of concurrent requests and of servers.                           *)
THEOREM TenantsStayWhole == Spec => []TenantsWhole
<1>1. TenantsInv => TenantsWhole
  <2> SUFFICES ASSUME TenantsInv PROVE TenantsWhole
    OBVIOUS
  <2>1. PurgeComplete /\ IngestTableFollows
    BY DEF TenantsInv, QuietInv, PurgeInv
  <2>2. OfferedCanLogin
    BY DEF OfferedCanLogin, handleLoginIndex, handleLoginResolveTenant, checkTenantStatus
  <2>3. MigrationStamps
    <3> SUFFICES ASSUME migration = Sentinel PROVE legacy = {SentinelRow}
      BY DEF MigrationStamps
    <3>1. \A i \in DOMAIN Scoped : i < migration - 1
      BY ScopedList DEF Sentinel
    <3>. QED
      BY <3>1 DEF TenantsInv, MigrationInv, ScopedSet
  <2>4. ServersShareKey
    BY DEF TenantsInv, BootInv, ServersShareKey
  <2>. QED
    BY <2>1, <2>2, <2>3, <2>4 DEF TenantsWhole
<1>. QED
  BY <1>1, TenantsKept, PTL

--------------------------------------------------------------------------
(* Steps that stay home                                                    *)

(* The order of the natural numbers is well-founded.                       *)
LEMMA OrderWellFounded == IsWellFoundedOn({ss \in Nat \X Nat : ss[1] < ss[2]}, Nat)
  BY NatLessThanWellFounded, Zenon DEF OpToRel

(* A set of natural numbers that is not empty has a least element.         *)
LEMMA LeastOf ==
  ASSUME NEW S, S \subseteq Nat, S # {}
  PROVE  \E m \in S : \A y \in S : m <= y
<1> DEFINE R == {ss \in Nat \X Nat : ss[1] < ss[2]}
<1>1. PICK m \in S : \A y \in S : ~ (<<y, m>> \in R)
  <2> HIDE DEF R
  <2>. QED
    BY OrderWellFounded, WFMin DEF R
<1>2. ASSUME NEW y \in S PROVE m <= y
  <2>1. <<y, m>> \in Nat \X Nat /\ <<y, m>>[1] = y /\ <<y, m>>[2] = m
    OBVIOUS
  <2>2. ~ (y < m)
    BY <1>1, <2>1
  <2>. QED
    BY <2>2
<1> HIDE DEF R
<1>. QED
  BY <1>2

(* The next token is one that is not in use.                               *)
LEMMA NextIsUnused ==
  ASSUME Unused # {}
  PROVE  NextToken \in Unused
<1>1. Unused \subseteq Nat
  BY TokensAssumption DEF Unused
<1>. QED
  BY <1>1, LeastOf DEF NextToken

\* A refresh row says whether it is revoked.
RefreshShape ==
  /\ refresh = [t \in Tokens |-> refresh[t]]
  /\ \A t \in Tokens : refresh[t] = NoDoc \/ "revoked" \in DOMAIN refresh[t]

\* A step may leave the rows alone, drop the expired ones, store a row for a
\* token not in use, or revoke one.
Cleans ==
  refresh' = [t \in Tokens |->
      IF refresh[t] # NoDoc /\ refresh[t].expires # 0 /\ refresh[t].expires < clock THEN NoDoc ELSE refresh[t]]
Issues == \E t \in Unused : \E id, s : refresh' = [refresh EXCEPT ![t] = RefreshRow(id, s)]
Revokes == \E t : markRevoked(t)

(* Nothing else is done to them.                                           *)
LEMMA RefreshSteps ==
  ASSUME [Next]_vars
  PROVE  UNCHANGED refresh \/ Cleans \/ Issues \/ Revokes
<1>1. ASSUME NEW c, signSession(c) PROVE Issues
  <2>1. NextToken \in Unused /\ refresh' = [refresh EXCEPT ![NextToken] = RefreshRow(login[c].id, NextToken)]
    BY <1>1, NextIsUnused DEF signSession
  <2>. QED
    BY <2>1 DEF Issues
<1>2. ASSUME NEW c, RefreshIssue(c) PROVE Issues
  <2>1. NextToken \in Unused /\ refresh' = [refresh EXCEPT ![NextToken] = RefreshRow(login[c].id, login[c].session)]
    BY <1>2, NextIsUnused DEF RefreshIssue
  <2>. QED
    BY <2>1 DEF Issues
<1>3. ASSUME NEW c, RefreshRevoke(c) \/ RefreshCheck(c) \/ Revoke(c) PROVE UNCHANGED refresh \/ Revokes
  BY <1>3 DEF RefreshRevoke, RefreshCheck, Revoke, Revokes
<1>4. ASSUME NEW c, LoginTenant(c) \/ Respond(c) \/ Crash(c) \/ RefreshSign(c) \/ OIDCTenant(c) \/ provisionOIDCUser(c)
      PROVE  UNCHANGED refresh
  BY <1>4 DEF LoginTenant, Respond, Crash, RefreshSign, OIDCTenant, PassTenant, provisionOIDCUser
<1>5. CASE AccountsNext
  BY <1>5 DEF AccountsNext, sessionVars
<1>6. CASE SessionNext
  <2>1. ASSUME NEW c \in Clients, LoginStart(c) PROVE UNCHANGED refresh
    BY <2>1 DEF LoginStart, handleLogin, handleLoginAnonymous, handleRefresh, handleLogout
  <2>2. ASSUME NEW c \in Clients, LoginNext(c) PROVE UNCHANGED refresh \/ Issues \/ Revokes
    BY <1>1, <1>2, <1>3, <1>4, <2>2 DEF LoginNext
  <2>3. CleanupRefresh => Cleans
    BY DEF CleanupRefresh, Cleans
  <2>4. Tick => UNCHANGED refresh
    BY DEF Tick
  <2>5. ASSUME NEW u, NEW b, PatchUser(u, [enabled |-> b]) PROVE UNCHANGED refresh
    BY <2>5 DEF PatchUser
  <2>6. ASSUME NEW st, ReopenTenant(st) PROVE UNCHANGED refresh
    BY <2>6 DEF ReopenTenant
  <2>7. ASSUME NEW a, SelfPasswordChange(a, 1, "p1", "p2") PROVE UNCHANGED refresh
    BY <2>7 DEF SelfPasswordChange, sessionVars
  <2>. QED
    BY <1>6, <2>1, <2>2, <2>3, <2>4, <2>5, <2>6, <2>7 DEF SessionNext
<1>7. CASE KeysNext
  <2>1. ASSUME NEW a, NEW k, NEW n, NEW ttl, NEW ps, handleCreateMyAPIKey(a, k, n, ps, ttl) PROVE UNCHANGED refresh
    BY <2>1 DEF handleCreateMyAPIKey, IssueKey
  <2>2. ASSUME NEW a, NEW k, handleDeleteMyAPIKey(a, k) PROVE UNCHANGED refresh
    BY <2>2 DEF handleDeleteMyAPIKey
  <2>3. ASSUME NEW k, NEW b, NEW e, PatchKey(k, b, e) PROVE UNCHANGED refresh
    BY <2>3 DEF PatchKey
  <2>4. CleanupKeys \/ Tick => UNCHANGED refresh
    BY DEF CleanupKeys, Tick
  <2>5. ASSUME NEW d, PatchUser(1, d) PROVE UNCHANGED refresh
    BY <2>5 DEF PatchUser
  <2>. QED
    BY <1>7, <2>1, <2>2, <2>3, <2>4, <2>5 DEF KeysNext
<1>8. CASE SignInNext
  <2>1. ASSUME NEW s, NEW org, handleOIDCStart(s, org) PROVE UNCHANGED refresh
    BY <2>1 DEF handleOIDCStart
  <2>2. ASSUME NEW c, NEW g, handleOIDCCallback(c, "ann", g) PROVE UNCHANGED refresh
    BY <2>2 DEF handleOIDCCallback
  <2>3. Tick => UNCHANGED refresh
    BY DEF Tick
  <2>4. ASSUME NEW b, PatchUser(1, [enabled |-> b]) PROVE UNCHANGED refresh
    BY <2>4 DEF PatchUser
  <2>5. ASSUME NEW st, ReopenTenant(st) PROVE UNCHANGED refresh
    BY <2>5 DEF ReopenTenant
  <2>. QED
    BY <1>1, <1>4, <1>8, <2>1, <2>2, <2>3, <2>4, <2>5 DEF SignInNext
<1>9. CASE TenantNext \/ BootNext \/ UNCHANGED vars
  BY <1>9 DEF TenantNext, BootNext, vars, sessionVars
<1>. QED
  BY <1>5, <1>6, <1>7, <1>8, <1>9 DEF Next

(* A row keeps its shape, and a revoked one is revoked or gone afterwards. *)
LEMMA RevokedKept ==
  ASSUME RefreshShape, UNCHANGED refresh \/ Cleans \/ Issues \/ Revokes
  PROVE  /\ RefreshShape'
         /\ \A t \in Tokens : refresh[t] # NoDoc /\ refresh[t].revoked => refresh'[t] = NoDoc \/ refresh'[t].revoked
<1>1. CASE UNCHANGED refresh
  BY <1>1 DEF RefreshShape
<1>2. CASE Cleans
  <2>1. \A t \in Tokens : refresh'[t] = NoDoc \/ refresh'[t] = refresh[t]
    BY <1>2 DEF Cleans
  <2>2. refresh' = [t \in Tokens |-> refresh'[t]]
    BY <1>2 DEF Cleans
  <2>. QED
    BY <2>1, <2>2 DEF RefreshShape
<1>3. CASE Issues
  <2>0. PICK t \in Unused : \E id, s : refresh' = [refresh EXCEPT ![t] = RefreshRow(id, s)]
    BY <1>3 DEF Issues
  <2>1. PICK id, s : refresh' = [refresh EXCEPT ![t] = RefreshRow(id, s)]
    BY <2>0
  <2>2. t \in Tokens /\ refresh[t] = NoDoc
    BY DEF Unused
  <2>3. "revoked" \in DOMAIN RefreshRow(id, s)
    BY DEF RefreshRow
  <2>4. PICK row : row = RefreshRow(id, s)
    OBVIOUS
  <2>5. refresh' = [u \in Tokens |-> IF u = t THEN row ELSE refresh[u]]
    BY <2>1, <2>4 DEF RefreshShape
  <2>. QED
    BY <2>2, <2>3, <2>4, <2>5 DEF RefreshShape
<1>4. CASE Revokes
  <2>1. PICK t : markRevoked(t)
    BY <1>4 DEF Revokes
  <2>2. PICK row : row = IF refresh[t] = NoDoc
                         THEN [tenant |-> "", id |-> Identity("", "", "", {}), expires |-> 0, revoked |-> TRUE, session |-> 0]
                         ELSE [refresh[t] EXCEPT !.revoked = TRUE]
    OBVIOUS
  <2>3. refresh' = [u \in Tokens |-> IF u = t THEN row ELSE refresh[u]]
    BY <2>1, <2>2 DEF markRevoked, RefreshShape
  <2>4. t \in Tokens => "revoked" \in DOMAIN row /\ row.revoked
    <3>1. CASE refresh[t] = NoDoc
      <4>1. row = [tenant |-> "", id |-> Identity("", "", "", {}), expires |-> 0, revoked |-> TRUE, session |-> 0]
        BY <2>2, <3>1
      <4>. QED
        BY <4>1
    <3>2. CASE refresh[t] # NoDoc
      <4>1. row = [refresh[t] EXCEPT !.revoked = TRUE]
        BY <2>2, <3>2
      <4>. QED
        BY <3>2, <4>1 DEF RefreshShape
    <3>. QED
      BY <3>1, <3>2
  <2>5. \A u \in Tokens : refresh'[u] = IF u = t THEN row ELSE refresh[u]
    BY <2>3
  <2>. QED
    BY <2>3, <2>4, <2>5 DEF RefreshShape
<1>. QED
  BY <1>1, <1>2, <1>3, <1>4

(* Only a step of a deletion removes a row, and one of its own tenant.     *)
LEMMA RowsKept ==
  ASSUME QuietInv, [Next]_vars, NEW col \in Collections, NEW t \in Three, rows[col][t] # "none", rows'[col][t] = "none"
  PROVE  \E r \in Requests : jobs[r].pc = "purge" /\ jobs[r].id = t
<1>0. RowsTyped /\ JobsTyped /\ TableTyped
  BY DEF QuietInv, PurgeInv
<1>1. ASSUME NEW s \in Three, NEW c \in Collections, rows' = WriteRow(rows, s, c) PROVE FALSE
  BY <1>0, <1>1, WriteRowEffect
<1>2. rows' # rows
  OBVIOUS
<1>3. {"record", "user", "role", "refresh_token", "general"} \subseteq Collections /\ DefaultTenant \in Three /\ "acme" \in Three
  BY ScopedList DEF Three
<1>4. CASE BootNext
  <2>1. rows' = rows \/ \E c \in {"role", "general", "user"} : rows' = WriteRow(rows, DefaultTenant, c)
    BY <1>4 DEF BootNext, BootRead, BootWriteSecret, BootstrapDB, BootMarker, EnsureRoot, Shutdown, MigrationStep, MigrationRestart
  <2>. QED
    BY <1>1, <1>2, <1>3, <2>1
<1>5. CASE TenantNext
  <2>1. ASSUME NEW r, NEW s, NEW p, \/ handleTenantCreate(r, Root, s, FALSE, "k1", "k2") \/ handleTenantAdminReset(r, Root, s)
                                    \/ handleTenantUpdate(r, Root, s, p) \/ handleTenantDelete(r, Root, s)
        PROVE  FALSE
    BY <1>2, <2>1 DEF handleTenantCreate, handleTenantAdminReset, handleTenantUpdate, handleTenantDelete
  <2>2. ASSUME NEW r, UpdateTenant(r) \/ DeleteSuspend(r) \/ DeleteRegistry(r) \/ AbandonJob(r)
        PROVE  FALSE
    BY <1>2, <2>2 DEF UpdateTenant, DeleteSuspend, DeleteRegistry, AbandonJob
  <2>3. ASSUME NEW r \in Requests, seedTenant(r) \/ CreateAdmin(r, "p2") \/ ResetAdmin(r, "p3") PROVE FALSE
    <3>1. jobs[r].pc \in {"seed", "marker", "admin", "reset"}
      BY <2>3 DEF seedTenant, CreateAdmin, ResetAdmin
    <3>2. jobs[r].id \in Three
      BY <1>0, <3>1, JobKinds
    <3>3. \E c \in {"role", "general", "user"} : rows' = WriteRow(rows, jobs[r].id, c)
      BY <2>3 DEF seedTenant, CreateAdmin, ResetAdmin, EnsureTenantAdmin
    <3>. QED
      BY <1>1, <1>3, <3>2, <3>3
  <2>4. ASSUME NEW c \in {"record", "refresh_token"}, SessionWrites("acme", c) PROVE FALSE
    BY <1>1, <1>3, <2>4 DEF SessionWrites
  <2>5. ASSUME NEW k, IngestTenant(k) PROVE FALSE
    <3>1. Lookup(k) \in Three
      BY <1>0, <1>3 DEF Lookup, TableTyped
    <3>. QED
      BY <1>1, <1>3, <2>5, <3>1 DEF IngestTenant
  <2>6. ~ ReloadIngestTokens
    BY <1>2 DEF ReloadIngestTokens
  <2>7. ASSUME NEW r \in Requests, DeletePurge(r) PROVE jobs[r].pc = "purge" /\ jobs[r].id = t
    <3>1. jobs[r].pc = "purge" /\ rows' = [rows EXCEPT ![Scoped[jobs[r].at]][jobs[r].id] = "none"]
      BY <2>7 DEF DeletePurge
    <3>2. jobs[r].id # t => rows'[col][t] = rows[col][t]
      BY <1>0, <3>1 DEF RowsTyped
    <3>. QED
      BY <3>1, <3>2
  <2>. QED
    BY <1>5, <2>1, <2>2, <2>3, <2>4, <2>5, <2>6, <2>7 DEF TenantNext
<1>6. CASE AccountsNext \/ SessionNext \/ KeysNext \/ SignInNext
  BY <1>2, <1>6, TenancyFrame DEF tenancyVars
<1>7. CASE UNCHANGED vars
  BY <1>2, <1>7 DEF vars, tenancyVars
<1>. QED
  BY <1>4, <1>5, <1>6, <1>7 DEF Next

(* A revoked refresh row is never active again, whichever requests hold    *)
(* its token, and a tenant's rows are removed by a deletion of that tenant *)
(* only (refresh.go markRevoked, routes_tenant.go handleTenantDelete): for *)
(* any number of tokens, clients and requests.                             *)
THEOREM StepsStay == Spec => StepsStayHome
<1> DEFINE A == \A t \in Tokens : refresh[t] # NoDoc /\ refresh[t].revoked => refresh'[t] = NoDoc \/ refresh'[t].revoked
           B == \A col \in Collections, t \in Slugs :
                   rows[col][t] # "none" /\ rows'[col][t] = "none" => \E r \in Requests : jobs[r].pc = "purge" /\ jobs[r].id = t
<1>1. Init => RefreshShape
  <2> SUFFICES ASSUME Init PROVE RefreshShape
    OBVIOUS
  <2>1. refresh = [t \in Tokens |-> NoDoc]
    BY DEF Init
  <2>2. refresh = [t \in Tokens |-> refresh[t]] /\ \A t \in Tokens : refresh[t] = NoDoc
    BY <2>1
  <2>. QED
    BY <2>2 DEF RefreshShape
<1>2. RefreshShape /\ [Next]_vars => RefreshShape' /\ A
  BY RefreshSteps, RevokedKept
<1>3. TenantsInv /\ [Next]_vars => B
  <2> SUFFICES ASSUME TenantsInv, [Next]_vars, NEW col \in Collections, NEW t \in Slugs,
                      rows[col][t] # "none", rows'[col][t] = "none"
               PROVE  \E r \in Requests : jobs[r].pc = "purge" /\ jobs[r].id = t
    OBVIOUS
  <2>1. t \in Three /\ QuietInv
    BY DEF TenantsInv, QuietInv, PurgeInv, RegistryTyped, Slugs
  <2>. QED
    BY <2>1, RowsKept
<1>4. RefreshShape /\ TenantsInv /\ [Next]_vars => [A]_vars /\ [B]_vars
  BY <1>2, <1>3
<1>5. StepsStayHome <=> [][A]_vars /\ [][B]_vars
  BY DEF StepsStayHome, RevokedStaysRevoked, OthersKept
<1> HIDE DEF A, B
<1>6. RefreshShape /\ [Next]_vars => RefreshShape'
  BY <1>2
<1>. QED
  BY <1>1, <1>4, <1>5, <1>6, TenantsKept, PTL DEF Spec

--------------------------------------------------------------------------
(* Invariants of the accounts                                              *)

\* A user document has a tenant, and the platform role in the default one only.
Doc(d) ==
  /\ "tenant_id" \in DOMAIN d /\ d.tenant_id \in Three /\ "uid" \notin DOMAIN d
  /\ docHasPlatformAdmin(d) => d.tenant_id = DefaultTenant

UsersTyped ==
  /\ users = [u \in Uids |-> users[u]]
  /\ \A u \in Uids : users[u] = NoDoc \/ Doc(users[u])

RolesTyped ==
  \A r \in roles :
      /\ "name" \in DOMAIN r
      /\ IF IsReservedPlatformRole(r.name) THEN r.tenant_id = DefaultTenant
         ELSE "upsert" \notin lapses => \A p \in Field(r, "permissions", {}) : ~ IsReservedPlatformPerm(p)

\* A request between its first read and its write.
Pending(q) ==
  /\ DOMAIN q = {"pc", "kind", "claims", "uids", "doc", "names", "prior"}
  /\ q.pc \in {"guard", "write"} /\ q.kind \in {"POST", "PUT", "PATCH", "DELETE", "BULK"}
  /\ q.claims.tenant \in Three /\ "uid" \notin DOMAIN q.doc
  /\ docHasPlatformAdmin(q.doc) => q.claims.tenant = DefaultTenant

CrudTyped ==
  /\ crud = [r \in Requests |-> crud[r]]
  /\ \A r \in Requests : crud[r] = Idle \/ Pending(crud[r])
  /\ topic # "accounts" => \A r \in Requests : crud[r] = Idle

\* What the guard looks at, and what it found, for a request nobody overlaps.
Target(q) == CHOOSE u \in q.uids : TRUE
Named(q) == {u \in InTenant(q.claims.tenant) : Field(users[u], "name", "") \in q.names}
Passes(q) ==
  IF q.kind \in {"DELETE", "BULK"} THEN GuardDelete(q.claims, q.uids)
  ELSE GuardWrite(q.claims, Target(q), q.doc, q.prior, q.kind = "PUT")
Current(q) ==
  /\ q.kind \in {"PUT", "PATCH"} => q.prior = IF Target(q) \in InTenant(q.claims.tenant) THEN users[Target(q)] ELSE <<>>
  /\ q.kind = "BULK" => q.uids = Named(q)
  /\ q.pc = "write" => Passes(q)

\* The lapses add up; a step that is not the first of a request begins no overlap.
Lapsing == lapses \subseteq lapses'
NoOverlap == Lapsing /\ ("overlap" \in lapses' => "overlap" \in lapses)

\* As long as guarded writes come one after the other, a request's reads are
\* still true when it writes.
Serial ==
  "overlap" \notin lapses => \A r \in Requests : crud[r].pc # "idle" =>
      (\A q \in {crud[r]} : Current(q)) /\ \A o \in Requests \ {r} : crud[o].pc = "idle"

AccountsInv == UsersTyped /\ RolesTyped /\ CrudTyped /\ Serial /\ LastAdminKept /\ DeletionsAudited

--------------------------------------------------------------------------
(* Documents                                                               *)

(* A field of a patched document, or what stands for it when it is absent. *)
LEMMA MergedField ==
  ASSUME NEW p, NEW d, NEW m, m = Merged(p, d), NEW f, NEW x
  PROVE  Field(m, f, x) = IF f \in DOMAIN p THEN p[f] ELSE Field(d, f, x)
BY DEF Merged, Field

(* The platform role is in the two lists of roles.                         *)
LEMMA PlatformIn ==
  ASSUME NEW d, NEW e, Field(d, "roles", {}) = Field(e, "roles", {}),
         Field(d, "static_roles", {}) = Field(e, "static_roles", {})
  PROVE  docHasPlatformAdmin(d) <=> docHasPlatformAdmin(e)
BY DEF docHasPlatformAdmin

(* A patch gives a document the platform role, or the document had it.     *)
LEMMA PatchPlatform ==
  ASSUME NEW p, NEW d, NEW m, m = Merged(p, d), docHasPlatformAdmin(m)
  PROVE  docHasPlatformAdmin(p) \/ docHasPlatformAdmin(d)
<1>1. ASSUME NEW f, NEW x PROVE Field(m, f, x) = Field(p, f, x) \/ Field(m, f, x) = Field(d, f, x)
  <2>1. Field(m, f, x) = IF f \in DOMAIN p THEN p[f] ELSE Field(d, f, x)
    BY MergedField
  <2>. QED
    BY <2>1 DEF Field
<1>. QED
  BY <1>1 DEF docHasPlatformAdmin

(* A document that has a tenant is there.                                  *)
LEMMA DocIsThere ==
  ASSUME NEW d, "tenant_id" \in DOMAIN d
  PROVE  d # NoDoc
BY NoDocEmpty

(* What a guarded write makes of a document: the roles the guard foresaw,  *)
(* and an account that is enabled unless the write disables it.            *)
LEMMA GuardForesees ==
  ASSUME NEW doc, NEW prior, NEW t, NEW replace \in BOOLEAN, NEW p, p = Merged([tenant_id |-> t], doc),
         NEW n, n = IF replace THEN p ELSE Merged(p, prior)
  PROVE  /\ docHasPlatformAdmin(n) <=> newHasPlatformAdmin(doc, prior, replace)
         /\ Field(prior, "enabled", TRUE) /\ ~ disablesUser(doc, prior) => Field(n, "enabled", TRUE)
<1>1. PICK k : k = [tenant_id |-> t]
  OBVIOUS
<1>2. DOMAIN k = {"tenant_id"} /\ p = Merged(k, doc)
  BY <1>1
<1>3. DOMAIN p = DOMAIN k \cup DOMAIN doc /\ \A f \in DOMAIN doc \ DOMAIN k : p[f] = doc[f]
  BY <1>2 DEF Merged
<1>4. \A f : f # "tenant_id" => (f \in DOMAIN p <=> f \in DOMAIN doc) /\ (f \in DOMAIN doc => p[f] = doc[f])
  BY <1>2, <1>3
<1>5. ASSUME NEW f, NEW x, f # "tenant_id"
      PROVE  Field(n, f, x) = IF f \in DOMAIN doc THEN doc[f] ELSE IF replace THEN x ELSE Field(prior, f, x)
  <2>1. CASE replace
    BY <1>4, <1>5, <2>1 DEF Field
  <2>2. CASE ~ replace
    <3>1. n = Merged(p, prior)
      BY <2>2
    <3>2. Field(n, f, x) = IF f \in DOMAIN p THEN p[f] ELSE Field(prior, f, x)
      BY <3>1, MergedField
    <3>. QED
      BY <1>4, <1>5, <2>2, <3>2
  <2>. QED
    BY <2>1, <2>2
<1>6. PICK e : e = [f \in {"roles", "static_roles"} |->
                     IF f \in DOMAIN doc THEN doc[f] ELSE IF replace THEN {} ELSE Field(prior, f, {})]
  OBVIOUS
<1>7. Field(e, "roles", {}) = Field(n, "roles", {}) /\ Field(e, "static_roles", {}) = Field(n, "static_roles", {})
  <2>1. DOMAIN e = {"roles", "static_roles"}
    BY <1>6
  <2>2. \A f \in {"roles", "static_roles"} : e[f] = IF f \in DOMAIN doc THEN doc[f] ELSE IF replace THEN {} ELSE Field(prior, f, {})
    BY <1>6
  <2>3. Field(e, "roles", {}) = e["roles"] /\ Field(e, "static_roles", {}) = e["static_roles"]
    BY <2>1 DEF Field
  <2>. QED
    BY <1>5, <2>2, <2>3
<1>8. docHasPlatformAdmin(n) <=> docHasPlatformAdmin(e)
  BY <1>7, PlatformIn
<1>9. newHasPlatformAdmin(doc, prior, replace) <=> docHasPlatformAdmin(e)
  BY <1>6 DEF newHasPlatformAdmin
<1>10. Field(prior, "enabled", TRUE) /\ ~ disablesUser(doc, prior) => Field(n, "enabled", TRUE)
  <2>1. Field(n, "enabled", TRUE) = IF "enabled" \in DOMAIN doc THEN doc["enabled"]
                                    ELSE IF replace THEN TRUE ELSE Field(prior, "enabled", TRUE)
    BY <1>5
  <2>2. Field(doc, "enabled", TRUE) = IF "enabled" \in DOMAIN doc THEN doc["enabled"] ELSE TRUE
    BY DEF Field
  <2>. QED
    BY <2>1, <2>2 DEF disablesUser
<1>. QED
  BY <1>8, <1>9, <1>10

--------------------------------------------------------------------------
(* Guarded writes                                                          *)

(* What a request found stays true while the users are the same.           *)
LEMMA CurrentStill ==
  ASSUME UNCHANGED users, NEW q
  PROVE  Current(q)' <=> Current(q)
<1>1. \A t : InTenant(t)' = InTenant(t)
  BY DEF InTenant, Stored
<1>2. Named(q)' = Named(q)
  BY <1>1 DEF Named
<1>3. \A t, x : enabledPlatformAdminExists(t, x)' <=> enabledPlatformAdminExists(t, x)
  BY <1>1 DEF enabledPlatformAdminExists
<1>4. \A c, x : GuardDelete(c, x)' <=> GuardDelete(c, x)
  BY <1>1, <1>3 DEF GuardDelete
<1>5. \A c, x, d, p, b : GuardWrite(c, x, d, p, b)' <=> GuardWrite(c, x, d, p, b)
  BY <1>3 DEF GuardWrite
<1>6. Passes(q)' <=> Passes(q)
  BY <1>4, <1>5 DEF Passes, Target
<1>. QED
  BY <1>1, <1>2, <1>6 DEF Current, Target

(* The users and roles are the same, and so is what they promise.          *)
LEMMA SameUsers ==
  ASSUME AccountsInv, UNCHANGED <<topic, users, spent, audit>>, Lapsing
  PROVE  UsersTyped' /\ LastAdminKept' /\ DeletionsAudited'
<1>1. UsersTyped'
  BY DEF AccountsInv, UsersTyped, Doc
<1>2. LastAdminKept'
  <2>1. enabledPlatformAdminExists(DefaultTenant, {})' <=> enabledPlatformAdminExists(DefaultTenant, {})
    BY DEF enabledPlatformAdminExists, InTenant, Stored
  <2>. QED
    BY <2>1 DEF AccountsInv, LastAdminKept, Lapsing
<1>3. DeletionsAudited'
  BY DEF AccountsInv, DeletionsAudited, Lapsing
<1>. QED
  BY <1>1, <1>2, <1>3

(* One request's progress changes.                                         *)
LEMMA CrudSet ==
  ASSUME CrudTyped, topic = "accounts", topic' = topic, NEW r \in Requests, NEW q, crud' = [crud EXCEPT ![r] = q],
         q = Idle \/ Pending(q)
  PROVE  CrudTyped' /\ crud'[r] = q /\ \A o \in Requests \ {r} : crud'[o] = crud[o]
<1>1. crud' = [o \in Requests |-> IF o = r THEN q ELSE crud[o]]
  BY DEF CrudTyped
<1>2. crud'[r] = q /\ \A o \in Requests \ {r} : crud'[o] = crud[o]
  BY <1>1
<1>3. crud' = [o \in Requests |-> crud'[o]]
  BY <1>1
<1>4. \A o \in Requests : crud'[o] = Idle \/ Pending(crud'[o])
  BY <1>2 DEF CrudTyped
<1>5. CrudTyped'
  BY <1>3, <1>4 DEF CrudTyped, Pending, Idle
<1>. QED
  BY <1>2, <1>5

(* A request begins.                                                       *)
LEMMA SubmitKeeps ==
  ASSUME AccountsInv, topic = "accounts", UNCHANGED <<topic, users, spent, roles, audit>>,
         NEW r \in Requests, NEW q, crud' = [crud EXCEPT ![r] = q], Pending(q), q.pc = "guard", Current(q), Overlap(r)
  PROVE  AccountsInv'
<1>1. CrudTyped' /\ crud'[r] = q /\ \A o \in Requests \ {r} : crud'[o] = crud[o]
  BY CrudSet DEF AccountsInv
<1>2. Lapsing /\ ("overlap" \notin lapses' => \A o \in Requests \ {r} : crud[o].pc = "idle")
  BY DEF Overlap, Lapsing
<1>3. Serial'
  <2> SUFFICES ASSUME "overlap" \notin lapses', NEW o \in Requests, crud'[o].pc # "idle"
               PROVE  (\A p \in {crud'[o]} : Current(p)') /\ \A p \in Requests \ {o} : crud'[p].pc = "idle"
    BY DEF Serial
  <2>1. o = r
    BY <1>1, <1>2
  <2>2. Current(q)'
    BY CurrentStill
  <2>3. \A p \in {crud'[o]} : Current(p)'
    BY <1>1, <2>1, <2>2
  <2>. QED
    BY <1>1, <1>2, <2>1, <2>3
<1>4. UsersTyped' /\ LastAdminKept' /\ DeletionsAudited'
  BY <1>2, SameUsers
<1>5. RolesTyped'
  BY <1>2 DEF AccountsInv, RolesTyped, Lapsing
<1>. QED
  BY <1>1, <1>3, <1>4, <1>5 DEF AccountsInv

(* The requests that are made are well-formed.                             *)
LEMMA SubmitSteps ==
  ASSUME AccountsInv, topic = "accounts", topic' = topic, NEW r \in Requests,
         NEW c, c.tenant \in Three, NEW uid, NEW doc, "uid" \notin DOMAIN doc, NEW uids, NEW names,
         \/ \E kind \in {"POST", "PUT", "PATCH"} : SubmitWrite(r, c, kind, uid, doc)
         \/ SubmitDelete(r, c, uids, names)
  PROVE  AccountsInv'
<1>1. ASSUME NEW kind \in {"POST", "PUT", "PATCH"}, SubmitWrite(r, c, kind, uid, doc) PROVE AccountsInv'
  <2>1. PICK prior : prior = IF kind # "POST" /\ uid \in InTenant(c.tenant) THEN users[uid] ELSE <<>>
    OBVIOUS
  <2>2. PICK q : q = [pc |-> "guard", kind |-> kind, claims |-> c, uids |-> {uid}, doc |-> doc, names |-> {}, prior |-> prior]
    OBVIOUS
  <2>3. /\ DOMAIN q = {"pc", "kind", "claims", "uids", "doc", "names", "prior"}
        /\ q.pc = "guard" /\ q.kind = kind /\ q.claims = c /\ q.uids = {uid} /\ q.doc = doc /\ q.prior = prior
    BY <2>2
  <2>4. crud' = [crud EXCEPT ![r] = q] /\ Overlap(r) /\ UNCHANGED <<users, spent, roles, audit>>
    BY <1>1, <2>1, <2>2 DEF SubmitWrite
  <2>5. docHasPlatformAdmin(doc) => c.tenant = DefaultTenant
    BY <1>1 DEF SubmitWrite, TransformWrite, checkReservedUserRoles
  <2>6. Pending(q)
    BY <2>3, <2>5 DEF Pending
  <2>7. Target(q) = uid
    BY <2>3 DEF Target
  <2>8. Current(q)
    BY <2>1, <2>3, <2>7 DEF Current
  <2>. QED
    BY <2>3, <2>4, <2>6, <2>8, SubmitKeeps
<1>2. CASE SubmitDelete(r, c, uids, names)
  <2>1. PICK ids : ids = IF names = {} THEN uids ELSE {u \in InTenant(c.tenant) : Field(users[u], "name", "") \in names}
    OBVIOUS
  <2>2. PICK kind \in {"DELETE", "BULK"} : kind = IF names = {} THEN "DELETE" ELSE "BULK"
    OBVIOUS
  <2>3. PICK q : q = [pc |-> "guard", kind |-> kind, claims |-> c, uids |-> ids, doc |-> <<>>, names |-> names, prior |-> <<>>]
    OBVIOUS
  <2>4. /\ DOMAIN q = {"pc", "kind", "claims", "uids", "doc", "names", "prior"}
        /\ q.pc = "guard" /\ q.kind = kind /\ q.claims = c /\ q.uids = ids /\ q.doc = <<>> /\ q.names = names
    BY <2>3
  <2>5. crud' = [crud EXCEPT ![r] = q] /\ Overlap(r) /\ UNCHANGED <<users, spent, roles, audit>>
    BY <1>2, <2>1, <2>2, <2>3 DEF SubmitDelete
  <2>6. DOMAIN q.doc = {} /\ ~ docHasPlatformAdmin(q.doc)
    BY <2>4 DEF docHasPlatformAdmin, Field
  <2>7. Pending(q)
    BY <2>2, <2>4, <2>6 DEF Pending
  <2>8. kind = "BULK" => ids = Named(q)
    BY <2>1, <2>2, <2>4 DEF Named
  <2>9. Current(q)
    BY <2>2, <2>4, <2>8 DEF Current
  <2>. QED
    BY <2>4, <2>5, <2>7, <2>9, SubmitKeeps
<1>. QED
  BY <1>1, <1>2

(* The guard decides.                                                      *)
LEMMA GuardKeeps ==
  ASSUME AccountsInv, topic = "accounts", topic' = topic, NEW r \in Requests, Guard(r)
  PROVE  AccountsInv'
<1>1. PICK q : q = crud[r]
  OBVIOUS
<1>2. q.pc = "guard" /\ Pending(q)
  BY <1>1 DEF Guard, AccountsInv, CrudTyped, Idle
<1>3. PICK n : n = IF Passes(q) THEN [q EXCEPT !.pc = "write"] ELSE Idle
  OBVIOUS
<1>4. crud' = [crud EXCEPT ![r] = n] /\ UNCHANGED <<users, spent, roles, audit, lapses>>
  BY <1>1, <1>3 DEF Guard, Passes, Target
<1>5. PICK w : w = [q EXCEPT !.pc = "write"]
  OBVIOUS
<1>6. /\ DOMAIN w = {"pc", "kind", "claims", "uids", "doc", "names", "prior"} /\ w.pc = "write" /\ w.kind = q.kind
      /\ w.claims = q.claims /\ w.uids = q.uids /\ w.doc = q.doc /\ w.names = q.names /\ w.prior = q.prior
  BY <1>2, <1>5 DEF Pending
<1>7. Pending(w)
  BY <1>2, <1>6 DEF Pending
<1>8. CrudTyped' /\ crud'[r] = n /\ \A o \in Requests \ {r} : crud'[o] = crud[o]
  BY <1>3, <1>4, <1>5, <1>7, CrudSet DEF AccountsInv
<1>9. Serial'
  <2> SUFFICES ASSUME "overlap" \notin lapses', NEW o \in Requests, crud'[o].pc # "idle"
               PROVE  (\A p \in {crud'[o]} : Current(p)') /\ \A p \in Requests \ {o} : crud'[p].pc = "idle"
    BY DEF Serial
  <2>1. Current(q) /\ \A p \in Requests \ {r} : crud[p].pc = "idle"
    BY <1>1, <1>2, <1>4 DEF AccountsInv, Serial
  <2>2. o = r /\ n.pc # "idle"
    BY <1>8, <2>1
  <2>3. n = w /\ Passes(q)
    BY <1>3, <1>5, <2>2 DEF Idle
  <2>4. Target(w) = Target(q) /\ Named(w) = Named(q) /\ (Passes(w) <=> Passes(q))
    BY <1>6 DEF Target, Named, Passes
  <2>5. Current(w)
    BY <1>6, <2>1, <2>3, <2>4 DEF Current
  <2>6. Current(w)'
    BY <1>4, <2>5, CurrentStill
  <2>. QED
    BY <1>8, <2>1, <2>2, <2>3, <2>6
<1>10. UsersTyped' /\ LastAdminKept' /\ DeletionsAudited'
  BY <1>4, SameUsers DEF Lapsing
<1>11. RolesTyped'
  BY <1>4 DEF AccountsInv, RolesTyped
<1>. QED
  BY <1>8, <1>9, <1>10, <1>11 DEF AccountsInv

(* A write ends its request; one that nobody overlapped was the only one.  *)
LEMMA CommitEnds ==
  ASSUME AccountsInv, topic = "accounts", topic' = topic, NEW r \in Requests, crud[r].pc # "idle",
         crud' = [crud EXCEPT ![r] = Idle], UNCHANGED roles, NoOverlap
  PROVE  CrudTyped' /\ Serial' /\ RolesTyped' /\ Pending(crud[r])
<1>1. CrudTyped' /\ crud'[r] = Idle /\ \A o \in Requests \ {r} : crud'[o] = crud[o]
  BY CrudSet DEF AccountsInv
<1>2. "overlap" \notin lapses' => \A o \in Requests : crud'[o].pc = "idle"
  BY <1>1 DEF AccountsInv, Serial, Idle, NoOverlap, Lapsing
<1>3. Serial'
  BY <1>2 DEF Serial
<1>4. Pending(crud[r])
  BY DEF AccountsInv, CrudTyped, Idle
<1>. QED
  BY <1>1, <1>3, <1>4 DEF AccountsInv, RolesTyped, NoOverlap, Lapsing

(* A document is stored under a uid, or the uid is nobody's.               *)
LEMMA UserSet ==
  ASSUME UsersTyped, NEW u, NEW d, users' = [users EXCEPT ![u] = d], Doc(d)
  PROVE  UsersTyped' /\ (u \in Uids => users'[u] = d) /\ \A v \in Uids \ {u} : users'[v] = users[v]
<1>1. users' = [v \in Uids |-> IF v = u THEN d ELSE users[v]]
  BY DEF UsersTyped
<1>2. (u \in Uids => users'[u] = d) /\ \A v \in Uids \ {u} : users'[v] = users[v]
  BY <1>1
<1>3. \A v \in Uids : users'[v] = NoDoc \/ Doc(users'[v])
  BY <1>2 DEF UsersTyped
<1>4. users' = [v \in Uids |-> users'[v]]
  BY <1>1
<1>. QED
  BY <1>2, <1>3, <1>4 DEF UsersTyped, Doc

(* A holder of the platform role whose document is the same is one still.  *)
LEMMA HolderKept ==
  ASSUME NEW x, NEW u \in InTenant(DefaultTenant) \ x, Field(users[u], "enabled", TRUE), docHasPlatformAdmin(users[u]),
         users'[u] = users[u]
  PROVE  enabledPlatformAdminExists(DefaultTenant, {})'
<1>1. u \in Uids /\ users[u] # NoDoc /\ users[u].tenant_id = DefaultTenant
  BY DEF InTenant, Stored
<1>2. u \in InTenant(DefaultTenant)' \ {}
  BY <1>1 DEF InTenant, Stored
<1>3. Field(users'[u], "enabled", TRUE) /\ docHasPlatformAdmin(users'[u])
  OBVIOUS
<1>. QED
  BY <1>2, <1>3 DEF enabledPlatformAdminExists

(* A document made by a request is one of its tenant.                      *)
LEMMA WrittenDoc ==
  ASSUME NEW q, Pending(q), NEW d, d = Merged([tenant_id |-> q.claims.tenant], q.doc)
  PROVE  Doc(d) /\ d.tenant_id = q.claims.tenant
<1>1. PICK k : k = [tenant_id |-> q.claims.tenant]
  OBVIOUS
<1>2. DOMAIN k = {"tenant_id"} /\ k.tenant_id = q.claims.tenant /\ d = Merged(k, q.doc)
  BY <1>1
<1>3. DOMAIN d = {"tenant_id"} \cup DOMAIN q.doc /\ d.tenant_id = q.claims.tenant
  BY <1>2 DEF Merged
<1>4. ~ docHasPlatformAdmin(k)
  BY <1>2 DEF docHasPlatformAdmin, Field
<1>5. docHasPlatformAdmin(d) => docHasPlatformAdmin(q.doc)
  BY <1>2, <1>4, PatchPlatform
<1>. QED
  BY <1>3, <1>5 DEF Doc, Pending

(* A document of a tenant laid over another of the same.                   *)
LEMMA LaidOver ==
  ASSUME NEW t, NEW d, Doc(d), d.tenant_id = t, NEW e, Doc(e), e.tenant_id = t, NEW n, n = Merged(d, e)
  PROVE  Doc(n) /\ n.tenant_id = t
<1>1. DOMAIN n = DOMAIN d \cup DOMAIN e /\ \A f \in DOMAIN d : n[f] = d[f]
  BY DEF Merged
<1>2. n.tenant_id = t
  BY <1>1 DEF Doc
<1>3. docHasPlatformAdmin(n) => docHasPlatformAdmin(d) \/ docHasPlatformAdmin(e)
  BY PatchPlatform
<1>. QED
  BY <1>1, <1>2, <1>3 DEF Doc

(* A create stores a document where there was none, or lays it over the    *)
(* one its uid names, which leaves the other holders as they are.          *)
LEMMA CreateKeeps ==
  ASSUME AccountsInv, topic = "accounts", topic' = topic, NEW r \in Requests, CommitCreate(r)
  PROVE  AccountsInv'
<1>1. PICK q : q = crud[r]
  OBVIOUS
<1>2. crud[r].pc # "idle" /\ crud' = [crud EXCEPT ![r] = Idle] /\ UNCHANGED <<spent, roles>> /\ NoOverlap
  BY DEF CommitCreate, emitAudit, NoOverlap, Lapsing
<1>3. CrudTyped' /\ Serial' /\ RolesTyped' /\ Pending(q)
  BY <1>1, <1>2, CommitEnds
<1>4. CASE UNCHANGED <<users, audit>>
  <2>1. UsersTyped' /\ LastAdminKept' /\ DeletionsAudited'
    BY <1>2, <1>4, SameUsers DEF NoOverlap
  <2>. QED
    BY <1>3, <2>1 DEF AccountsInv
<1>6. PICK t, uid, d : t = q.claims.tenant /\ uid = Target(q) /\ d = Merged([tenant_id |-> t], q.doc)
  OBVIOUS
<1>7. CASE uid \in InTenant(t) /\ users' = [users EXCEPT ![uid] = Merged(d, users[uid])] /\ audit' = audit
           /\ lapses' = IF docHasPlatformAdmin(users[uid]) THEN lapses \cup {"upsert"} ELSE lapses
  <2>1. Doc(d) /\ d.tenant_id = t
    BY <1>3, <1>6, WrittenDoc
  <2>2. UsersTyped
    BY DEF AccountsInv
  <2>3. uid \in Uids /\ users[uid].tenant_id = t /\ Doc(users[uid])
    BY <1>7, <2>2 DEF InTenant, Stored, UsersTyped
  <2>4. PICK n : n = Merged(d, users[uid])
    OBVIOUS
  <2>5. Doc(n)
    BY <2>1, <2>3, <2>4, LaidOver
  <2>6. UsersTyped' /\ \A v \in Uids \ {uid} : users'[v] = users[v]
    BY <1>7, <2>2, <2>4, <2>5, UserSet
  <2>7. LastAdminKept'
    <3> SUFFICES ASSUME lapses' \cap {"overlap", "upsert"} = {} PROVE enabledPlatformAdminExists(DefaultTenant, {})'
      BY DEF LastAdminKept
    <3>1. lapses \cap {"overlap", "upsert"} = {} /\ ~ docHasPlatformAdmin(users[uid])
      BY <1>7
    <3>2. PICK v \in InTenant(DefaultTenant) \ {} : Field(users[v], "enabled", TRUE) /\ docHasPlatformAdmin(users[v])
      BY <3>1 DEF AccountsInv, LastAdminKept, enabledPlatformAdminExists
    <3>3. v # uid /\ v \in Uids
      BY <3>1, <3>2 DEF InTenant, Stored
    <3>. QED
      BY <2>6, <3>2, <3>3, HolderKept
  <2>8. DeletionsAudited'
    BY <1>2, <1>7 DEF AccountsInv, DeletionsAudited
  <2>. QED
    BY <1>3, <2>6, <2>7, <2>8 DEF AccountsInv
<1>5. CASE /\ Fresh # {} /\ emitAudit("create", {CHOOSE v \in Fresh : \A w \in Fresh : v <= w})
           /\ users' = [users EXCEPT ![CHOOSE v \in Fresh : \A w \in Fresh : v <= w] = d]
  <2>1. d = Merged([tenant_id |-> q.claims.tenant], q.doc)
    BY <1>6
  <2>2. PICK u : u = CHOOSE v \in Fresh : \A w \in Fresh : v <= w
    OBVIOUS
  <2>3. Fresh # {} /\ users' = [users EXCEPT ![u] = d] /\ audit \subseteq audit'
    BY <1>5, <2>2 DEF emitAudit
  <2>4. u \in Fresh
    <3>1. Fresh \subseteq Nat
      BY UidsAssumption DEF Fresh
    <3>. QED
      BY <2>2, <2>3, <3>1, LeastOf
  <2>5. u \in Uids /\ users[u] = NoDoc
    BY <2>4 DEF Fresh, Stored
  <2>6. UsersTyped' /\ \A v \in Uids \ {u} : users'[v] = users[v]
    BY <1>3, <2>1, <2>3, WrittenDoc, UserSet DEF AccountsInv
  <2>7. LastAdminKept'
    <3> SUFFICES ASSUME lapses \cap {"overlap", "upsert"} = {} PROVE enabledPlatformAdminExists(DefaultTenant, {})'
      BY <1>2 DEF LastAdminKept, NoOverlap, Lapsing
    <3>1. PICK v \in InTenant(DefaultTenant) \ {} : Field(users[v], "enabled", TRUE) /\ docHasPlatformAdmin(users[v])
      BY DEF AccountsInv, LastAdminKept, enabledPlatformAdminExists
    <3>2. v # u /\ v \in Uids
      BY <2>5, <3>1 DEF InTenant, Stored
    <3>. QED
      BY <2>6, <3>1, <3>2, HolderKept
  <2>8. DeletionsAudited'
    BY <1>2, <2>3 DEF AccountsInv, DeletionsAudited, NoOverlap, Lapsing
  <2>. QED
    BY <1>3, <2>6, <2>7, <2>8 DEF AccountsInv
<1>. QED
  BY <1>1, <1>4, <1>5, <1>6, <1>7 DEF CommitCreate, Target

(* A patch or a replacement leaves an enabled holder of the platform role: *)
(* another one, or the one it changes.                                     *)
LEMMA UpdateKeeps ==
  ASSUME AccountsInv, topic = "accounts", topic' = topic, NEW r \in Requests, CommitUpdate(r)
  PROVE  AccountsInv'
<1>1. PICK q : q = crud[r]
  OBVIOUS
<1>2. /\ q.pc = "write" /\ q.kind \in {"PUT", "PATCH"} /\ crud[r].pc # "idle"
      /\ crud' = [crud EXCEPT ![r] = Idle] /\ UNCHANGED <<spent, roles>> /\ NoOverlap
  BY <1>1 DEF CommitUpdate, emitAudit, NoOverlap, Lapsing
<1>3. CrudTyped' /\ Serial' /\ RolesTyped' /\ Pending(q)
  BY <1>1, <1>2, CommitEnds
<1>4. PICK t : t = q.claims.tenant
  OBVIOUS
<1>5. PICK uid : uid = Target(q)
  OBVIOUS
<1>6. PICK d : d = Merged([tenant_id |-> t], q.doc)
  OBVIOUS
<1>7. PICK n : n = IF uid \in InTenant(t) THEN IF q.kind = "PUT" THEN d ELSE Merged(d, users[uid])
                   ELSE IF users[uid] = NoDoc THEN d ELSE users[uid]
  OBVIOUS
<1>8. users' = [users EXCEPT ![uid] = n]
  BY <1>1, <1>4, <1>5, <1>6, <1>7 DEF CommitUpdate, Target
<1>9. DeletionsAudited'
  <2>1. audit \subseteq audit'
    BY DEF CommitUpdate, emitAudit
  <2>. QED
    BY <1>2, <2>1 DEF AccountsInv, DeletionsAudited, NoOverlap, Lapsing
<1>10. Doc(d) /\ d.tenant_id = t
  BY <1>3, <1>4, <1>6, WrittenDoc
<1>11. UsersTyped
  BY DEF AccountsInv
<1>12. uid \in InTenant(t) => uid \in Uids /\ users[uid].tenant_id = t /\ Doc(users[uid])
  BY <1>11 DEF InTenant, Stored, UsersTyped
<1>13. uid \in InTenant(t) => Doc(n) /\ n.tenant_id = t
  <2>1. CASE uid \in InTenant(t) /\ q.kind = "PUT"
    BY <1>7, <1>10, <2>1
  <2>2. CASE uid \in InTenant(t) /\ q.kind # "PUT"
    <3>1. n = Merged(d, users[uid])
      BY <1>7, <2>2
    <3>. QED
      BY <1>10, <1>12, <2>2, <3>1, LaidOver
  <2>. QED
    BY <2>1, <2>2
<1>14. CASE uid \notin Uids
  <2>1. \A v \in Uids : users'[v] = users[v]
    BY <1>8, <1>11, <1>14 DEF UsersTyped
  <2>2. users' = users
    BY <1>8, <1>11, <1>14 DEF UsersTyped
  <2>3. UsersTyped'
    BY <1>11, <2>2 DEF UsersTyped, Doc
  <2>4. LastAdminKept'
    <3>1. enabledPlatformAdminExists(DefaultTenant, {})' <=> enabledPlatformAdminExists(DefaultTenant, {})
      BY <2>2 DEF enabledPlatformAdminExists, InTenant, Stored
    <3>. QED
      BY <1>2, <3>1 DEF AccountsInv, LastAdminKept, NoOverlap, Lapsing
  <2>. QED
    BY <1>3, <1>9, <2>3, <2>4 DEF AccountsInv
<1>15. CASE uid \in Uids
  <2>1. Doc(n)
    <3>1. CASE uid \in InTenant(t)
      BY <1>13, <3>1
    <3>2. CASE uid \notin InTenant(t)
      BY <1>7, <1>10, <1>11, <1>15, <3>2 DEF UsersTyped
    <3>. QED
      BY <3>1, <3>2
  <2>2. UsersTyped' /\ users'[uid] = n /\ \A v \in Uids \ {uid} : users'[v] = users[v]
    BY <1>8, <1>11, <1>15, <2>1, UserSet
  <2>3. LastAdminKept'
    <3> SUFFICES ASSUME lapses \cap {"overlap", "upsert"} = {} PROVE enabledPlatformAdminExists(DefaultTenant, {})'
      BY <1>2 DEF LastAdminKept, NoOverlap, Lapsing
    <3>1. PICK w \in InTenant(DefaultTenant) \ {} : Field(users[w], "enabled", TRUE) /\ docHasPlatformAdmin(users[w])
      BY DEF AccountsInv, LastAdminKept, enabledPlatformAdminExists
    <3>2. w \in Uids /\ users[w] # NoDoc /\ users[w].tenant_id = DefaultTenant
      BY <3>1 DEF InTenant, Stored
    <3>3. CASE users'[w] = users[w]
      BY <3>1, <3>3, HolderKept
    <3>4. CASE users'[w] # users[w]
      <4>1. w = uid /\ uid \in InTenant(t) /\ t = DefaultTenant
        BY <1>7, <1>12, <2>2, <3>2, <3>4
      <4>2. Current(q)
        BY <1>1, <1>2 DEF AccountsInv, Serial
      <4>3. q.prior = users[uid]
        BY <1>2, <1>4, <1>5, <4>1, <4>2 DEF Current
      <4>4. GuardWrite(q.claims, uid, q.doc, q.prior, q.kind = "PUT")
        BY <1>2, <1>5, <4>2 DEF Current, Passes
      <4>5. PICK replace \in BOOLEAN : replace <=> q.kind = "PUT"
        OBVIOUS
      <4>6. GuardWrite(q.claims, uid, q.doc, q.prior, replace)
        BY <4>4, <4>5
      <4>7. n = IF replace THEN d ELSE Merged(d, q.prior)
        BY <1>7, <4>1, <4>3, <4>5
      <4>8. /\ docHasPlatformAdmin(n) <=> newHasPlatformAdmin(q.doc, q.prior, replace)
            /\ Field(q.prior, "enabled", TRUE) /\ ~ disablesUser(q.doc, q.prior) => Field(n, "enabled", TRUE)
        <5>1. PICK doc, prior : doc = q.doc /\ prior = q.prior
          OBVIOUS
        <5>2. d = Merged([tenant_id |-> t], doc) /\ n = IF replace THEN d ELSE Merged(d, prior)
          BY <1>6, <4>7, <5>1
        <5>3. /\ docHasPlatformAdmin(n) <=> newHasPlatformAdmin(doc, prior, replace)
              /\ Field(prior, "enabled", TRUE) /\ ~ disablesUser(doc, prior) => Field(n, "enabled", TRUE)
          BY <5>2, GuardForesees, Zenon
        <5>. QED
          BY <5>1, <5>3
      <4>9. docHasPlatformAdmin(q.prior) /\ Field(q.prior, "enabled", TRUE)
        BY <3>1, <4>1, <4>3
      <4>10. CASE docHasPlatformAdmin(n) /\ Field(n, "enabled", TRUE)
        <5>1. n # NoDoc /\ n.tenant_id = DefaultTenant
          BY <1>13, <4>1, DocIsThere DEF Doc
        <5>2. uid \in InTenant(DefaultTenant)' \ {}
          BY <1>15, <2>2, <5>1 DEF InTenant, Stored
        <5>. QED
          BY <2>2, <4>10, <5>2 DEF enabledPlatformAdminExists
      <4>11. CASE ~ (docHasPlatformAdmin(n) /\ Field(n, "enabled", TRUE))
        <5>1. enabledPlatformAdminExists(DefaultTenant, {uid})
          BY <1>4, <4>1, <4>6, <4>8, <4>9, <4>11 DEF GuardWrite
        <5>2. PICK v \in InTenant(DefaultTenant) \ {uid} : Field(users[v], "enabled", TRUE) /\ docHasPlatformAdmin(users[v])
          BY <5>1 DEF enabledPlatformAdminExists
        <5>3. users'[v] = users[v]
          BY <2>2, <5>2 DEF InTenant, Stored
        <5>. QED
          BY <5>2, <5>3, HolderKept
      <4>. QED
        BY <4>10, <4>11
    <3>. QED
      BY <3>3, <3>4
  <2>. QED
    BY <1>3, <1>9, <2>2, <2>3 DEF AccountsInv
<1>. QED
  BY <1>14, <1>15

(* A deletion leaves an enabled holder of the platform role, and its rows  *)
(* in the audit.                                                           *)
LEMMA DeleteKeeps ==
  ASSUME AccountsInv, topic = "accounts", topic' = topic, NEW r \in Requests, CommitDelete(r)
  PROVE  AccountsInv'
<1>1. PICK q : q = crud[r]
  OBVIOUS
<1>2. /\ q.pc = "write" /\ q.kind \in {"DELETE", "BULK"} /\ crud[r].pc # "idle"
      /\ crud' = [crud EXCEPT ![r] = Idle] /\ UNCHANGED roles /\ NoOverlap
  <2>1. /\ q.pc = "write" /\ q.kind \in {"DELETE", "BULK"} /\ crud[r].pc # "idle"
        /\ crud' = [crud EXCEPT ![r] = Idle] /\ UNCHANGED roles
    BY <1>1 DEF CommitDelete
  <2>2. lapses' = lapses \/ lapses' = lapses \cup {"audit"}
    BY DEF CommitDelete, emitAudit
  <2>3. NoOverlap
    BY <2>2 DEF NoOverlap, Lapsing
  <2>. QED
    BY <2>1, <2>3
<1>3. CrudTyped' /\ Serial' /\ RolesTyped' /\ Pending(q)
  BY <1>1, <1>2, CommitEnds
<1>4. PICK t : t = q.claims.tenant
  OBVIOUS
<1>5. PICK gone : gone = IF q.kind = "DELETE" THEN q.uids \cap InTenant(t) ELSE Named(q)
  OBVIOUS
<1>6. /\ users' = [u \in Uids |-> IF u \in gone THEN NoDoc ELSE users[u]] /\ spent' = spent \cup gone
      /\ IF q.kind = "DELETE" /\ gone = {} THEN UNCHANGED <<audit, lapses>> ELSE emitAudit("delete", q.uids)
  BY <1>1, <1>2, <1>4, <1>5 DEF CommitDelete, Named
<1>7. \A u \in Uids : users'[u] = IF u \in gone THEN NoDoc ELSE users[u]
  BY <1>6
<1>8. UsersTyped'
  <2>1. users' = [u \in Uids |-> users'[u]]
    BY <1>6
  <2>2. \A u \in Uids : users'[u] = NoDoc \/ Doc(users'[u])
    BY <1>7 DEF AccountsInv, UsersTyped
  <2>. QED
    BY <2>1, <2>2 DEF UsersTyped, Doc
<1>9. gone \subseteq InTenant(t)
  BY <1>4, <1>5 DEF Named
<1>10. "overlap" \notin lapses => Current(q)
  BY <1>1, <1>2 DEF AccountsInv, Serial
<1>11. "overlap" \notin lapses => gone \subseteq q.uids
  BY <1>2, <1>5, <1>10 DEF Current
<1>12. DeletionsAudited'
  <2>1. audit \subseteq audit'
    BY <1>6 DEF emitAudit
  <2>2. lapses' \cap {"overlap", "audit"} = {} => \A u \in gone : <<"delete", u>> \in audit'
    BY <1>2, <1>6, <1>11 DEF emitAudit, NoOverlap, Lapsing
  <2>. QED
    BY <1>2, <1>6, <2>1, <2>2 DEF AccountsInv, DeletionsAudited, NoOverlap, Lapsing
<1>13. LastAdminKept'
  <2> SUFFICES ASSUME lapses \cap {"overlap", "upsert"} = {} PROVE enabledPlatformAdminExists(DefaultTenant, {})'
    BY <1>2 DEF LastAdminKept, NoOverlap, Lapsing
  <2>1. PICK w \in InTenant(DefaultTenant) \ {} : Field(users[w], "enabled", TRUE) /\ docHasPlatformAdmin(users[w])
    BY DEF AccountsInv, LastAdminKept, enabledPlatformAdminExists
  <2>2. w \in Uids /\ users[w].tenant_id = DefaultTenant
    BY <2>1 DEF InTenant, Stored
  <2>3. CASE w \notin gone
    <3>1. users'[w] = users[w]
      BY <1>7, <2>2, <2>3
    <3>. QED
      BY <2>1, <3>1, HolderKept
  <2>4. CASE w \in gone
    <3>1. t = DefaultTenant /\ w \in q.uids
      BY <1>9, <1>11, <2>2, <2>4 DEF InTenant
    <3>2. GuardDelete(q.claims, q.uids)
      BY <1>2, <1>10 DEF Current, Passes
    <3>3. w \in q.uids \cap InTenant(q.claims.tenant)
      BY <1>4, <2>1, <3>1
    <3>4. enabledPlatformAdminExists(DefaultTenant, q.uids)
      BY <1>4, <2>1, <3>1, <3>2, <3>3 DEF GuardDelete
    <3>5. PICK v \in InTenant(DefaultTenant) \ q.uids : Field(users[v], "enabled", TRUE) /\ docHasPlatformAdmin(users[v])
      BY <3>4 DEF enabledPlatformAdminExists
    <3>6. users'[v] = users[v]
      BY <1>7, <1>11, <3>5 DEF InTenant, Stored
    <3>. QED
      BY <3>5, <3>6, HolderKept
  <2>. QED
    BY <2>3, <2>4
<1>. QED
  BY <1>3, <1>8, <1>12, <1>13 DEF AccountsInv

(* Nothing changes but the roles.                                          *)
LEMMA RolesOnly ==
  ASSUME AccountsInv, UNCHANGED <<topic, users, spent, crud, audit>>, NoOverlap, RolesTyped'
  PROVE  AccountsInv'
<1>1. CrudTyped'
  BY DEF AccountsInv, CrudTyped, Pending, Idle
<1>2. Serial'
  <2> SUFFICES ASSUME "overlap" \notin lapses', NEW o \in Requests, crud'[o].pc # "idle"
               PROVE  (\A p \in {crud'[o]} : Current(p)') /\ \A p \in Requests \ {o} : crud'[p].pc = "idle"
    BY DEF Serial
  <2>1. PICK q : q = crud[o]
    OBVIOUS
  <2>2. Current(q) /\ \A p \in Requests \ {o} : crud[p].pc = "idle"
    BY <2>1 DEF AccountsInv, Serial, NoOverlap, Lapsing
  <2>3. Current(q)'
    BY <2>2, CurrentStill
  <2>. QED
    BY <2>1, <2>2, <2>3
<1>3. UsersTyped' /\ LastAdminKept' /\ DeletionsAudited'
  BY SameUsers DEF NoOverlap
<1>. QED
  BY <1>1, <1>2, <1>3 DEF AccountsInv

(* A role that is written is not a reserved one, or it was and stays so,   *)
(* or a create was laid over the reserved one.                             *)
LEMMA RoleKeeps ==
  ASSUME AccountsInv, topic' = topic, NEW c, NEW kind, NEW at, NEW doc, "name" \in DOMAIN doc \/ (at # {} /\ kind # "PUT"),
         NEW role, WriteRole(c, kind, at, doc) \/ DeleteRole(c, role)
  PROVE  AccountsInv'
<1>1. UNCHANGED <<users, spent, crud, audit>> /\ NoOverlap
  BY DEF WriteRole, DeleteRole, NoOverlap, Lapsing
<1>2. RolesTyped
  BY DEF AccountsInv
<1>3. CASE WriteRole(c, kind, at, doc)
  <2>1. PICK k : k = [tenant_id |-> c.tenant]
    OBVIOUS
  <2>2. DOMAIN k = {"tenant_id"} /\ k.tenant_id = c.tenant
    BY <2>1
  <2>3. PICK w : w = IF kind = "PUT" \/ at = {} THEN doc ELSE Merged(doc, CHOOSE r \in at : TRUE)
    OBVIOUS
  <2>4. PICK m : m = Merged(k, w)
    OBVIOUS
  <2>5. /\ roles' = (roles \ at) \cup {m} /\ checkReservedRole(doc)
        /\ at \subseteq {r \in roles : r.tenant_id = c.tenant}
        /\ lapses' = IF \E r \in at : IsReservedPlatformRole(r.name) THEN lapses \cup {"upsert"} ELSE lapses
    BY <1>3, <2>1, <2>3, <2>4 DEF WriteRole
  <2>6. "name" \in DOMAIN doc => ~ IsReservedPlatformRole(doc.name)
    BY <2>5 DEF checkReservedRole, Field
  <2>7. \A p \in Field(doc, "permissions", {}) : ~ IsReservedPlatformPerm(p)
    BY <2>5 DEF checkReservedRole
  <2>8. /\ "name" \in DOMAIN w => "name" \in DOMAIN m /\ m.name = w.name
        /\ Field(m, "permissions", {}) = Field(w, "permissions", {}) /\ m.tenant_id = c.tenant
    <3>1. DOMAIN m = DOMAIN k \cup DOMAIN w /\ (\A f \in DOMAIN k : m[f] = k[f]) /\ \A f \in DOMAIN w \ DOMAIN k : m[f] = w[f]
      BY <2>4 DEF Merged
    <3>2. Field(m, "permissions", {}) = Field(w, "permissions", {})
      BY <2>2, <3>1 DEF Field
    <3>. QED
      BY <2>2, <3>1, <3>2
  <2>9. /\ "name" \in DOMAIN m
        /\ IF IsReservedPlatformRole(m.name) THEN m.tenant_id = DefaultTenant
           ELSE "upsert" \notin lapses' => \A p \in Field(m, "permissions", {}) : ~ IsReservedPlatformPerm(p)
    <3>1. CASE kind = "PUT" \/ at = {}
      <4>1. w = doc /\ "name" \in DOMAIN doc
        BY <2>3, <3>1
      <4>. QED
        BY <2>6, <2>7, <2>8, <4>1
    <3>2. CASE ~ (kind = "PUT" \/ at = {})
      <4>1. PICK r : r = CHOOSE o \in at : TRUE
        OBVIOUS
      <4>2. r \in at /\ r \in roles /\ r.tenant_id = c.tenant /\ w = Merged(doc, r)
        BY <2>3, <2>5, <3>2, <4>1
      <4>3. /\ "name" \in DOMAIN r
            /\ IF IsReservedPlatformRole(r.name) THEN r.tenant_id = DefaultTenant
               ELSE "upsert" \notin lapses => \A p \in Field(r, "permissions", {}) : ~ IsReservedPlatformPerm(p)
        BY <1>2, <4>2 DEF RolesTyped
      <4>4. /\ "name" \in DOMAIN w /\ w.name = (IF "name" \in DOMAIN doc THEN doc.name ELSE r.name)
        <5>1. DOMAIN w = DOMAIN doc \cup DOMAIN r /\ \A f \in DOMAIN w : w[f] = IF f \in DOMAIN doc THEN doc[f] ELSE r[f]
          BY <4>2 DEF Merged
        <5>. QED
          BY <4>3, <5>1
      <4>5. Field(w, "permissions", {}) = IF "permissions" \in DOMAIN doc THEN doc["permissions"] ELSE Field(r, "permissions", {})
        BY <4>2, MergedField
      <4>6. \A p \in Field(w, "permissions", {}) : ~ IsReservedPlatformPerm(p) \/ p \in Field(r, "permissions", {})
        BY <2>7, <4>5 DEF Field
      <4>7. IsReservedPlatformRole(r.name) => "upsert" \in lapses'
        BY <2>5, <4>2
      <4>8. "upsert" \notin lapses' => "upsert" \notin lapses
        BY <2>5
      <4>. QED
        BY <2>6, <2>8, <4>2, <4>3, <4>4, <4>6, <4>7, <4>8
    <3>. QED
      BY <3>1, <3>2
  <2>10. RolesTyped'
    BY <1>1, <1>2, <2>5, <2>9 DEF RolesTyped, NoOverlap, Lapsing
  <2>. QED
    BY <1>1, <2>10, RolesOnly
<1>4. CASE DeleteRole(c, role)
  <2>1. RolesTyped'
    BY <1>2, <1>4 DEF DeleteRole, RolesTyped
  <2>. QED
    BY <1>1, <2>1, RolesOnly
<1>. QED
  BY <1>3, <1>4

(* The topic of accounts keeps their invariant.                            *)
LEMMA AccountsKeep ==
  ASSUME AccountsInv, AccountsNext
  PROVE  AccountsInv'
<1>1. topic = "accounts" /\ topic' = topic
  BY DEF AccountsNext
<1>2. \A c \in {RootClaims, Root, Admin, AcmeAdmin} : c.tenant \in Three
  BY DEF RootClaims, Root, Admin, AcmeAdmin, Claims, Three
<1>3. \A d \in Patches : "uid" \notin DOMAIN d
  BY DEF Patches
<1>4. \A d \in Bodies \cup {[enabled |-> FALSE], [roles |-> {}]} : "uid" \notin DOMAIN d
  BY DEF Bodies
<1>5. ASSUME NEW r \in Requests, NEW c \in {RootClaims, Root, Admin, AcmeAdmin},
             \/ \E u \in {1, 2}, d \in Patches : SubmitWrite(r, c, "PATCH", u, d)
             \/ \E u \in {1, 3}, d \in Bodies : SubmitWrite(r, c, "PUT", u, d)
             \/ \E d \in Bodies : SubmitWrite(r, c, "POST", 0, d)
             \/ \E u \in {2, 3}, d \in {[enabled |-> FALSE], [roles |-> {}]} : SubmitWrite(r, c, "POST", u, d)
             \/ \E u \in {1, 2} : SubmitDelete(r, c, {u}, {})
             \/ SubmitDelete(r, c, {}, {"eve", "new"})
      PROVE  AccountsInv'
  <2>1. ASSUME NEW kind \in {"POST", "PUT", "PATCH"}, NEW u, NEW d, "uid" \notin DOMAIN d, SubmitWrite(r, c, kind, u, d)
        PROVE  AccountsInv'
    BY <1>1, <1>2, <2>1, SubmitSteps
  <2>2. ASSUME NEW uids, NEW names, SubmitDelete(r, c, uids, names) PROVE AccountsInv'
    <3>1. PICK d : d = [name |-> "x"]
      OBVIOUS
    <3>2. "uid" \notin DOMAIN d
      BY <3>1
    <3>. QED
      BY <1>1, <1>2, <2>2, <3>2, SubmitSteps
  <2>. QED
    BY <1>3, <1>4, <1>5, <2>1, <2>2
<1>6. ASSUME NEW c, NEW kind, NEW at, NEW n, NEW ps, WriteRole(c, kind, at, [name |-> n, permissions |-> ps])
      PROVE  AccountsInv'
  <2>1. PICK d : d = [name |-> n, permissions |-> ps]
    OBVIOUS
  <2>2. "name" \in DOMAIN d /\ WriteRole(c, kind, at, d)
    BY <1>6, <2>1
  <2>. QED
    BY <1>1, <2>2, RoleKeeps
<1>9. ASSUME NEW c, NEW kind, kind = "PATCH", NEW role, NEW ps, WriteRole(c, kind, {role}, [permissions |-> ps])
      PROVE  AccountsInv'
  <2>1. PICK d, at : d = [permissions |-> ps] /\ at = {role}
    OBVIOUS
  <2>2. WriteRole(c, kind, at, d) /\ at # {} /\ kind # "PUT"
    BY <1>9, <2>1
  <2>. QED
    BY <1>1, <2>2, RoleKeeps
<1>7. ASSUME NEW c, NEW role, DeleteRole(c, role) PROVE AccountsInv'
  <2>1. PICK d : d = [name |-> "x"]
    OBVIOUS
  <2>2. "name" \in DOMAIN d
    BY <2>1
  <2>. QED
    BY <1>1, <1>7, <2>2, RoleKeeps
<1>8. ASSUME NEW r \in Requests, Guard(r) \/ CommitCreate(r) \/ CommitUpdate(r) \/ CommitDelete(r) PROVE AccountsInv'
  BY <1>1, <1>8, GuardKeeps, CreateKeeps, UpdateKeeps, DeleteKeeps
<1>10. ASSUME \E c \in {Admin, AcmeAdmin}, kind \in {"POST", "PUT", "PATCH"}, ps \in {{RO("all")}, {PermReadTenant}} :
                \/ \E n \in {"viewer", PlatformAdminRole}, at \in {{}} \cup {{r} : r \in {q \in roles : q.name # "admin"}} :
                      kind # "PATCH" /\ WriteRole(c, kind, at, [name |-> n, permissions |-> ps])
                \/ kind = "PATCH" /\ \E r \in roles : WriteRole(c, kind, {r}, [permissions |-> ps])
       PROVE  AccountsInv'
  BY <1>6, <1>9, <1>10
<1>11. ASSUME NEW r \in Requests, NEW d \in Patches, SubmitWrite(r, RootClaims, "PATCH", 1, d) PROVE AccountsInv'
  BY <1>5, <1>11
<1>. QED
  BY <1>5, <1>7, <1>8, <1>10, <1>11 DEF AccountsNext

--------------------------------------------------------------------------
(* Requests of the login routes                                            *)

LoginSteps == {"idle", "tenant", "sign", "done", "revoke", "issue", "check", "resign", "logout", "oidctenant", "provision"}

\* A single sign-on names a tenant of the registry until the account is stored.
LoginShape(l) ==
  /\ "pc" \in DOMAIN l /\ l.pc \in LoginSteps
  /\ l.pc \in {"oidctenant", "provision"} => "id" \in DOMAIN l /\ l.id.tenant \in Three

LoginTyped ==
  /\ login = [c \in Clients |-> login[c]]
  /\ \A c \in Clients : LoginShape(login[c])

CookieTyped == cookie = NoDoc \/ cookie.org \in {"acme", "", "beta"}

(* One client's request is replaced.                                       *)
LEMMA LoginSet ==
  ASSUME LoginTyped, NEW c \in Clients, NEW l, login' = [login EXCEPT ![c] = l], LoginShape(l)
  PROVE  LoginTyped'
<1>1. login' = [d \in Clients |-> IF d = c THEN l ELSE login[d]]
  BY DEF LoginTyped
<1>2. \A d \in Clients : LoginShape(login'[d])
  BY <1>1 DEF LoginTyped
<1>3. login' = [d \in Clients |-> login'[d]]
  BY <1>1
<1>. QED
  BY <1>2, <1>3 DEF LoginTyped, LoginShape

(* A request that is over.                                                 *)
LEMMA LoginOver ==
  ASSUME LoginTyped, NEW c \in Clients, login' = [login EXCEPT ![c] = NoRequest]
  PROVE  LoginTyped'
<1>1. LoginShape(NoRequest)
  BY DEF NoRequest, LoginShape, LoginSteps
<1>. QED
  BY <1>1, LoginSet

(* A request goes to its next step, keeping its other fields but one.      *)
LEMMA LoginMoves ==
  ASSUME LoginTyped, NEW c \in Clients, NEW p \in LoginSteps \ {"oidctenant", "provision"},
         NEW t, \/ login' = [login EXCEPT ![c].pc = p]
                \/ login' = [login EXCEPT ![c] = [@ EXCEPT !.pc = p]]
                \/ login' = [login EXCEPT ![c].pc = p, ![c].token = t]
                \/ login' = [login EXCEPT ![c] = [@ EXCEPT !.pc = p, !.shut = FALSE]]
                \/ login' = [login EXCEPT ![c] = [@ EXCEPT !.pc = p, !.off = FALSE]]
  PROVE  LoginTyped'
<1>1. PICK l : l = login[c]
  OBVIOUS
<1>2. "pc" \in DOMAIN l /\ login = [d \in Clients |-> login[d]]
  BY <1>1 DEF LoginTyped, LoginShape
<1>3. PICK m : m = [l EXCEPT !.pc = p]
  OBVIOUS
<1>4. PICK n : n = [l EXCEPT !.pc = p, !.token = t]
  OBVIOUS
<1>8. PICK o : o = [l EXCEPT !.pc = p, !.shut = FALSE]
  OBVIOUS
<1>9. PICK q : q = [l EXCEPT !.pc = p, !.off = FALSE]
  OBVIOUS
<1>5. "pc" \in DOMAIN m /\ m.pc = p /\ "pc" \in DOMAIN n /\ n.pc = p
  BY <1>2, <1>3, <1>4
<1>10. "pc" \in DOMAIN o /\ o.pc = p /\ "pc" \in DOMAIN q /\ q.pc = p
  BY <1>2, <1>8, <1>9
<1>6. \E k \in {m, n, o, q} : login' = [login EXCEPT ![c] = k]
  BY <1>1, <1>2, <1>3, <1>4, <1>8, <1>9
<1>7. \A k \in {m, n, o, q} : LoginShape(k)
  BY <1>5, <1>10 DEF LoginShape
<1>. QED
  BY <1>6, <1>7, LoginSet

(* A request begins.                                                       *)
LEMMA LoginBegins ==
  ASSUME LoginTyped, NEW c \in Clients, NEW k, NEW id, login' = [login EXCEPT ![c] = Merged(k, Begun(id))], LoginShape(k)
  PROVE  LoginTyped'
<1>1. PICK m : m = Merged(k, Begun(id))
  OBVIOUS
<1>2. DOMAIN k \subseteq DOMAIN m /\ \A f \in DOMAIN k : m[f] = k[f]
  BY <1>1 DEF Merged
<1>3. LoginShape(m)
  BY <1>2 DEF LoginShape
<1>. QED
  BY <1>1, <1>3, LoginSet

(* What is kept of requests for the properties changes.                    *)
LEMMA LoginFlags ==
  ASSUME LoginTyped, NEW S, \/ login' = [c \in Clients |-> IF c \in S THEN [login[c] EXCEPT !.off = FALSE] ELSE login[c]]
                            \/ login' = [c \in Clients |-> IF c \in S THEN [login[c] EXCEPT !.shut = FALSE] ELSE login[c]]
  PROVE  LoginTyped'
<1>1. login' = [c \in Clients |-> login'[c]]
  OBVIOUS
<1>2. ASSUME NEW c \in Clients PROVE LoginShape(login'[c])
  <2>1. PICK l : l = login[c]
    OBVIOUS
  <2>2. LoginShape(l)
    BY <2>1 DEF LoginTyped
  <2>3. PICK m : m = [l EXCEPT !.off = FALSE]
    OBVIOUS
  <2>4. PICK n : n = [l EXCEPT !.shut = FALSE]
    OBVIOUS
  <2>5. DOMAIN m = DOMAIN l /\ DOMAIN n = DOMAIN l /\ \A f \in DOMAIN l \ {"off", "shut"} : m[f] = l[f] /\ n[f] = l[f]
    BY <2>3, <2>4
  <2>6. LoginShape(m) /\ LoginShape(n)
    BY <2>2, <2>5 DEF LoginShape
  <2>7. login'[c] \in {l, m, n}
    BY <2>1, <2>3, <2>4
  <2>. QED
    BY <2>2, <2>6, <2>7
<1>. QED
  BY <1>1, <1>2 DEF LoginTyped, LoginShape

(* The steps of password logins, refreshes and logouts.                    *)
LEMMA LoginKeeps ==
  ASSUME LoginTyped, NEW c \in Clients, LoginStart(c) \/ LoginNext(c)
  PROVE  LoginTyped'
<1>1. ASSUME NEW m, NEW n, NEW t, NEW p, handleLogin(c, m, n, t, p) PROVE LoginTyped'
  <2>1. PICK id : login' = [login EXCEPT ![c] = Merged([pc |-> "tenant", id |-> id], Begun(id))]
    BY <1>1 DEF handleLogin
  <2>2. PICK k : k = [pc |-> "tenant", id |-> id]
    OBVIOUS
  <2>3. LoginShape(k)
    BY <2>2 DEF LoginShape, LoginSteps
  <2>. QED
    BY <2>1, <2>2, <2>3, LoginBegins
<1>2. ASSUME NEW t, handleRefresh(c, t) PROVE LoginTyped'
  <2>1. PICK k : k = [pc |-> "revoke", id |-> refresh[t].id, token |-> t, session |-> refresh[t].session]
    OBVIOUS
  <2>2. login' = [login EXCEPT ![c] = Merged(k, Begun(refresh[t].id))]
    BY <1>2, <2>1 DEF handleRefresh
  <2>3. LoginShape(k)
    BY <2>1 DEF LoginShape, LoginSteps
  <2>. QED
    BY <2>2, <2>3, LoginBegins
<1>3. ASSUME NEW t, handleLogout(c, t) PROVE LoginTyped'
  <2>1. PICK l : l = [pc |-> "logout", token |-> t, id |-> refresh[t].id, off |-> FALSE, shut |-> FALSE]
    OBVIOUS
  <2>2. login' = [login EXCEPT ![c] = l]
    BY <1>3, <2>1 DEF handleLogout
  <2>3. LoginShape(l)
    BY <2>1 DEF LoginShape, LoginSteps
  <2>. QED
    BY <2>2, <2>3, LoginSet
<1>4. LoginStart(c) => LoginTyped'
  BY <1>1, <1>2, <1>3 DEF LoginStart, handleLoginAnonymous
<1>5. CASE Respond(c) \/ Crash(c) \/ Revoke(c)
  BY <1>5, LoginOver DEF Respond, Crash, Revoke
<1>6. CASE LoginTenant(c)
  <2>1. \/ login' = [login EXCEPT ![c] = [@ EXCEPT !.pc = "sign"]]
        \/ login' = [login EXCEPT ![c] = [@ EXCEPT !.pc = "sign", !.shut = FALSE]]
        \/ login' = [login EXCEPT ![c] = NoRequest]
    BY <1>6 DEF LoginTenant, PassTenant
  <2>. QED
    BY <2>1, LoginOver, LoginMoves DEF LoginSteps
<1>7. CASE signSession(c)
  <2>1. login' = [login EXCEPT ![c] = [@ EXCEPT !.pc = "done"]]
    BY <1>7 DEF signSession
  <2>. QED
    BY <2>1, LoginMoves DEF LoginSteps
<1>8. CASE RefreshRevoke(c) \/ RefreshSign(c)
  <2>1. \E p \in {"issue", "done"} : login' = [login EXCEPT ![c].pc = p]
    BY <1>8 DEF RefreshRevoke, RefreshSign
  <2>. QED
    BY <2>1, LoginMoves DEF LoginSteps
<1>9. CASE RefreshIssue(c)
  <2>1. login' = [login EXCEPT ![c].pc = "check", ![c].token = NextToken]
    BY <1>9 DEF RefreshIssue
  <2>. QED
    BY <2>1, LoginMoves DEF LoginSteps
<1>10. CASE RefreshCheck(c)
  <2>1. \/ login' = [login EXCEPT ![c].pc = "resign"]
        \/ login' = [login EXCEPT ![c] = [@ EXCEPT !.pc = "resign", !.off = FALSE]]
        \/ login' = [login EXCEPT ![c] = NoRequest]
    BY <1>10 DEF RefreshCheck
  <2>. QED
    BY <2>1, LoginOver, LoginMoves DEF LoginSteps
<1>. QED
  BY <1>4, <1>5, <1>6, <1>7, <1>8, <1>9, <1>10 DEF LoginNext

\* The ways of a sign-in's account: refused; found enabled, or unknown; or not
\* looked up.  The write may have failed.
Known(id) == {u \in InTenant(id.tenant) : Field(users[u], "name", "") = id.sub /\ Field(users[u], "method", "") = "oidc"}
Lays(id, patch) == users' = [u \in Uids |-> IF u \in Known(id) THEN Merged(patch, users[u]) ELSE users[u]]
Stores(id) == Known(id) = {} /\ \E u \in Fresh : users' = [users EXCEPT ![u] = OIDCUser(id)]
ProvisionRefused(c) == login' = [login EXCEPT ![c] = NoRequest] /\ UNCHANGED users
ProvisionKnown(c, id) ==
  /\ \A u \in Known(id) : Field(users[u], "enabled", TRUE)
  /\ login' = [login EXCEPT ![c].pc = "sign"]
  /\ UNCHANGED users \/ Stores(id) \/ Lays(id, [groups |-> id.groups])
ProvisionBlind(c, id) ==
  /\ login' = [d \in Clients |-> IF d = c THEN [login[c] EXCEPT !.pc = "sign", !.off = FALSE] ELSE Reenabled(login[d], id)]
  /\ UNCHANGED users \/ Stores(id) \/ Lays(id, OIDCUser(id))

(* provisionOIDCUser has no others.                                        *)
LEMMA ProvisionCases ==
  ASSUME NEW c, provisionOIDCUser(c)
  PROVE  /\ login[c].pc = "provision"
         /\ UNCHANGED <<spent, roles, crud, audit, lapses, clock, refresh, access, keys, registry, cookie, codes, raced>>
         /\ ProvisionRefused(c) \/ ProvisionKnown(c, login[c].id) \/ ProvisionBlind(c, login[c].id)
<1>1. login[c].pc = "provision"
  BY DEF provisionOIDCUser
<1>2. UNCHANGED <<spent, roles, crud, audit, lapses, clock, refresh, access, keys, registry, cookie, codes, raced>>
  BY DEF provisionOIDCUser
<1>3. ProvisionRefused(c) \/ ProvisionKnown(c, login[c].id) \/ ProvisionBlind(c, login[c].id)
  BY DEF provisionOIDCUser, ProvisionRefused, ProvisionKnown, ProvisionBlind, Known, Lays, Stores
<1>. QED
  BY <1>1, <1>2, <1>3

(* The steps of single sign-on.                                            *)
LEMMA SignInKeeps ==
  ASSUME LoginTyped, CookieTyped, NEW c \in Clients, NEW g,
         handleOIDCCallback(c, "ann", g) \/ OIDCTenant(c) \/ signSession(c) \/ Respond(c) \/ provisionOIDCUser(c)
  PROVE  LoginTyped'
<1>1. CASE handleOIDCCallback(c, "ann", g)
  <2>1. PICK org : org = IF cookie.org = "" THEN DefaultTenant ELSE cookie.org
    OBVIOUS
  <2>2. PICK d \in {e \in codes : ~ e.answered} :
           LET o == IF cookie.org = "" THEN DefaultTenant ELSE cookie.org
               ids == IF decodes(cookie) /\ cookie.state = d.state
                      THEN ExchangeAndVerify(d, cookie.state, "ann", g, o) ELSE {}
           IN  login' = [login EXCEPT ![c] =
                   IF ids = {} THEN @
                   ELSE LET id == CHOOSE i \in ids : TRUE
                        IN  Merged([pc |-> "oidctenant", id |-> id, start |-> d], Begun(id))]
    BY <1>1, Zenon DEF handleOIDCCallback
  <2>0. PICK ids : ids = IF decodes(cookie) /\ cookie.state = d.state
                         THEN ExchangeAndVerify(d, cookie.state, "ann", g, org) ELSE {}
    OBVIOUS
  <2>5. login' = [login EXCEPT ![c] =
                    IF ids = {} THEN @
                    ELSE LET id == CHOOSE i \in ids : TRUE
                         IN  Merged([pc |-> "oidctenant", id |-> id, start |-> d], Begun(id))]
    BY <2>0, <2>1, <2>2
  <2>3. CASE ids = {}
    <3>1. login' = [login EXCEPT ![c] = login[c]] /\ LoginShape(login[c])
      BY <2>3, <2>5 DEF LoginTyped
    <3>. QED
      BY <3>1, LoginSet
  <2>4. CASE ids # {}
    <3>1. PICK id : id = CHOOSE i \in ids : TRUE
      OBVIOUS
    <3>2. id \in ids
      BY <2>4, <3>1
    <3>3. decodes(cookie) /\ id \in ExchangeAndVerify(d, cookie.state, "ann", g, org)
      BY <2>0, <3>2
    <3>4. id = Identity("ann", "oidc", org, g) /\ cookie # NoDoc
      BY <3>3 DEF ExchangeAndVerify, decodes
    <3>5. id.tenant \in Three
      BY <2>1, <3>4 DEF Identity, CookieTyped, Three
    <3>6. PICK k : k = [pc |-> "oidctenant", id |-> id, start |-> d]
      OBVIOUS
    <3>7. LoginShape(k)
      BY <3>5, <3>6 DEF LoginShape, LoginSteps
    <3>8. login' = [login EXCEPT ![c] = Merged(k, Begun(id))]
      BY <2>4, <2>5, <3>1, <3>6
    <3>. QED
      BY <3>7, <3>8, LoginBegins
  <2>. QED
    BY <2>3, <2>4
<1>2. CASE OIDCTenant(c)
  <2>1. PICK l : l = login[c]
    OBVIOUS
  <2>2. l.pc = "oidctenant" /\ LoginShape(l)
    BY <1>2, <2>1 DEF OIDCTenant, PassTenant, LoginTyped
  <2>3. PICK m : m = [l EXCEPT !.pc = "provision"]
    OBVIOUS
  <2>6. PICK n : n = [l EXCEPT !.pc = "provision", !.shut = FALSE]
    OBVIOUS
  <2>4. LoginShape(m) /\ LoginShape(n)
    BY <2>2, <2>3, <2>6 DEF LoginShape, LoginSteps
  <2>5. login' = [login EXCEPT ![c] = m] \/ login' = [login EXCEPT ![c] = n] \/ login' = [login EXCEPT ![c] = NoRequest]
    BY <1>2, <2>1, <2>3, <2>6 DEF OIDCTenant, PassTenant
  <2>. QED
    BY <2>4, <2>5, LoginSet, LoginOver
<1>3. CASE signSession(c) \/ Respond(c)
  BY <1>3, LoginKeeps DEF LoginNext
<1>4. CASE provisionOIDCUser(c)
  <2>1. \/ login' = [login EXCEPT ![c].pc = "sign"]
        \/ login' = [login EXCEPT ![c] = NoRequest]
        \/ ProvisionBlind(c, login[c].id)
    BY <1>4, ProvisionCases DEF ProvisionRefused, ProvisionKnown
  <2>2. CASE ProvisionBlind(c, login[c].id)
    <3>1. PICK id : id = login[c].id
      OBVIOUS
    <3>2. login' = [d \in Clients |-> IF d = c THEN [login[c] EXCEPT !.pc = "sign", !.off = FALSE] ELSE Reenabled(login[d], id)]
      BY <2>2, <3>1 DEF ProvisionBlind
    <3>3. ASSUME NEW d \in Clients PROVE LoginShape(login'[d])
      <4>1. PICK l : l = login[d]
        OBVIOUS
      <4>2. LoginShape(l)
        BY <4>1 DEF LoginTyped
      <4>3. PICK m : m = [l EXCEPT !.pc = "sign", !.off = FALSE]
        OBVIOUS
      <4>4. PICK n : n = [l EXCEPT !.off = FALSE]
        OBVIOUS
      <4>5. /\ "pc" \in DOMAIN m /\ m.pc = "sign"
            /\ DOMAIN n = DOMAIN l /\ \A f \in DOMAIN l \ {"off"} : n[f] = l[f]
        BY <4>2, <4>3, <4>4 DEF LoginShape
      <4>6. LoginShape(m) /\ LoginShape(n)
        BY <4>2, <4>5 DEF LoginShape, LoginSteps
      <4>7. Reenabled(l, id) \in {l, n}
        BY <4>4 DEF Reenabled
      <4>8. login'[d] \in {l, m, n}
        BY <3>2, <4>1, <4>3, <4>7
      <4>. QED
        BY <4>2, <4>6, <4>8
    <3>4. login' = [d \in Clients |-> login'[d]]
      BY <3>2
    <3>. QED
      BY <3>3, <3>4 DEF LoginTyped, LoginShape
  <2>. QED
    BY <2>1, <2>2, LoginOver, LoginMoves DEF LoginSteps
<1>. QED
  BY <1>1, <1>2, <1>3, <1>4

(* Every step keeps the shape of the requests and of the cookie.           *)
LEMMA LoginsKept ==
  ASSUME LoginTyped, CookieTyped, [Next]_vars
  PROVE  LoginTyped' /\ CookieTyped'
<1>1. ASSUME UNCHANGED login PROVE LoginTyped'
  BY <1>1 DEF LoginTyped, LoginShape
<1>2. ASSUME NEW u, NEW d, PatchUser(u, d) PROVE LoginTyped'
  <2>1. PICK S : S = {c \in Clients : login[c].pc # "idle" /\ SameAccount(u, login[c].id) /\ Field(d, "enabled", FALSE)}
    OBVIOUS
  <2>2. login' = [c \in Clients |-> IF c \in S THEN [login[c] EXCEPT !.off = FALSE] ELSE login[c]]
    BY <1>2, <2>1 DEF PatchUser
  <2>. QED
    BY <2>2, LoginFlags
<1>3. ASSUME NEW t, NEW d, Reopened(t, d) PROVE LoginTyped'
  <2>1. PICK S : S = {c \in Clients : login[c].pc # "idle" /\ login[c].id.tenant = t /\ d.status = "active"}
    OBVIOUS
  <2>2. login' = [c \in Clients |-> IF c \in S THEN [login[c] EXCEPT !.shut = FALSE] ELSE login[c]]
    BY <1>3, <2>1 DEF Reopened
  <2>. QED
    BY <2>2, LoginFlags
<1>4. CASE AccountsNext \/ BootNext \/ UNCHANGED vars
  <2>1. UNCHANGED <<login, cookie>>
    BY <1>4 DEF AccountsNext, BootNext, vars, sessionVars
  <2>. QED
    BY <1>1, <2>1 DEF CookieTyped
<1>5. CASE SessionNext
  <2>1. ASSUME NEW c \in Clients, LoginStart(c) PROVE LoginTyped' /\ UNCHANGED cookie
    BY <2>1, LoginKeeps DEF LoginStart, handleLogin, handleLoginAnonymous, handleRefresh, handleLogout
  <2>2. ASSUME NEW c \in Clients, LoginNext(c) PROVE LoginTyped' /\ UNCHANGED cookie
    BY <2>2, LoginKeeps DEF LoginNext, LoginTenant, PassTenant, signSession, Respond, Crash, RefreshRevoke, RefreshIssue, RefreshCheck,
       RefreshSign, Revoke
  <2>3. CleanupRefresh \/ Tick => UNCHANGED <<login, cookie>>
    BY DEF CleanupRefresh, Tick
  <2>4. ASSUME NEW u, NEW d, PatchUser(u, d) PROVE LoginTyped' /\ UNCHANGED cookie
    BY <1>2, <2>4 DEF PatchUser
  <2>5. ASSUME NEW st, ReopenTenant(st) PROVE LoginTyped' /\ UNCHANGED cookie
    BY <1>3, <2>5 DEF ReopenTenant
  <2>6. ASSUME NEW a, SelfPasswordChange(a, 1, "p1", "p2") PROVE UNCHANGED <<login, cookie>>
    BY <2>6 DEF SelfPasswordChange, sessionVars
  <2>7. LoginTyped' /\ UNCHANGED cookie
    BY <1>1, <1>5, <2>1, <2>2, <2>3, <2>4, <2>5, <2>6 DEF SessionNext
  <2>. QED
    BY <2>7 DEF CookieTyped
<1>6. CASE KeysNext
  <2>1. ASSUME NEW a, NEW k, NEW n, NEW ttl, NEW ps, handleCreateMyAPIKey(a, k, n, ps, ttl) PROVE UNCHANGED <<login, cookie>>
    BY <2>1 DEF handleCreateMyAPIKey, IssueKey
  <2>2. ASSUME NEW a, NEW k, handleDeleteMyAPIKey(a, k) PROVE UNCHANGED <<login, cookie>>
    BY <2>2 DEF handleDeleteMyAPIKey
  <2>3. ASSUME NEW k, NEW b, NEW e, PatchKey(k, b, e) PROVE UNCHANGED <<login, cookie>>
    BY <2>3 DEF PatchKey
  <2>4. CleanupKeys \/ Tick => UNCHANGED <<login, cookie>>
    BY DEF CleanupKeys, Tick
  <2>5. ASSUME NEW d, PatchUser(1, d) PROVE LoginTyped' /\ UNCHANGED cookie
    BY <1>2, <2>5 DEF PatchUser
  <2>6. LoginTyped' /\ UNCHANGED cookie
    BY <1>1, <1>6, <2>1, <2>2, <2>3, <2>4, <2>5 DEF KeysNext
  <2>. QED
    BY <2>6 DEF CookieTyped
<1>7. CASE SignInNext
  <2>1. ASSUME NEW s, NEW org \in {"acme", "", "beta"}, handleOIDCStart(s, org) PROVE LoginTyped' /\ CookieTyped'
    <3>1. UNCHANGED login /\ cookie' = encodeOIDCState(s, org)
      BY <2>1 DEF handleOIDCStart
    <3>2. cookie'.org = org
      BY <3>1 DEF encodeOIDCState
    <3>. QED
      BY <1>1, <3>1, <3>2 DEF CookieTyped
  <2>2. ASSUME NEW c \in Clients, NEW g, handleOIDCCallback(c, "ann", g) PROVE LoginTyped' /\ CookieTyped'
    <3>1. cookie' = NoDoc
      BY <2>2 DEF handleOIDCCallback
    <3>. QED
      BY <2>2, <3>1, SignInKeeps DEF CookieTyped, NoDoc
  <2>3. ASSUME NEW c \in Clients, OIDCTenant(c) \/ signSession(c) \/ Respond(c) \/ provisionOIDCUser(c)
        PROVE  LoginTyped' /\ UNCHANGED cookie
    BY <2>3, SignInKeeps DEF OIDCTenant, PassTenant, signSession, Respond, provisionOIDCUser
  <2>4. Tick => UNCHANGED <<login, cookie>>
    BY DEF Tick
  <2>5. ASSUME NEW d, PatchUser(1, d) PROVE LoginTyped' /\ UNCHANGED cookie
    BY <1>2, <2>5 DEF PatchUser
  <2>6. ASSUME NEW st, ReopenTenant(st) PROVE LoginTyped' /\ UNCHANGED cookie
    BY <1>3, <2>6 DEF ReopenTenant
  <2>7. LoginTyped' /\ (CookieTyped' \/ UNCHANGED cookie)
    BY <1>1, <1>7, <2>1, <2>2, <2>3, <2>4, <2>5, <2>6 DEF SignInNext
  <2>. QED
    BY <2>7 DEF CookieTyped
<1>8. CASE TenantNext
  <2>1. UNCHANGED cookie
    BY <1>8 DEF TenantNext
  <2>2. ASSUME NEW r, UpdateTenant(r) PROVE LoginTyped'
    <3>1. UNCHANGED login \/ Reopened(jobs[r].id, registry'[jobs[r].id])
      BY <2>2 DEF UpdateTenant
    <3>2. PICK t, d : UNCHANGED login \/ Reopened(t, d)
      BY <3>1
    <3>. QED
      BY <1>1, <1>3, <3>2
  <2>3. LoginTyped'
    BY <1>1, <1>8, <2>2 DEF TenantNext
  <2>. QED
    BY <2>1, <2>3 DEF CookieTyped
<1>. QED
  BY <1>4, <1>5, <1>6, <1>7, <1>8 DEF Next

--------------------------------------------------------------------------
(* Accounts outside their own routes                                       *)

(* A patch that leaves the tenant alone and gives no platform role.        *)
LEMMA PatchedUser ==
  ASSUME UsersTyped, NEW u \in Stored, NEW p, "uid" \notin DOMAIN p, ~ docHasPlatformAdmin(p),
         "tenant_id" \in DOMAIN p => p.tenant_id = users[u].tenant_id, NEW m, m = Merged(p, users[u])
  PROVE  Doc(m)
<1>1. Doc(users[u])
  BY DEF UsersTyped, Stored
<1>2. /\ DOMAIN m = DOMAIN p \cup DOMAIN users[u]
      /\ \A f \in DOMAIN users[u] \ DOMAIN p : m[f] = users[u][f]
      /\ \A f \in DOMAIN p : m[f] = p[f]
  BY DEF Merged
<1>3. "tenant_id" \in DOMAIN users[u]
  BY <1>1 DEF Doc
<1>4. m.tenant_id = users[u].tenant_id
  BY <1>2, <1>3
<1>5. docHasPlatformAdmin(m) => docHasPlatformAdmin(users[u])
  BY PatchPlatform
<1>. QED
  BY <1>1, <1>2, <1>4, <1>5 DEF Doc

(* Only users change, outside the topic of accounts.                       *)
LEMMA UsersOnly ==
  ASSUME AccountsInv, topic # "accounts", UNCHANGED <<topic, spent, roles, crud, audit, lapses>>, UsersTyped'
  PROVE  AccountsInv'
<1>1. CrudTyped' /\ \A r \in Requests : crud[r] = Idle
  BY DEF AccountsInv, CrudTyped, Pending, Idle
<1>2. Serial'
  BY <1>1 DEF Serial, Idle
<1>. QED
  BY <1>1, <1>2 DEF AccountsInv, RolesTyped, LastAdminKept, DeletionsAudited

(* An administrator changes an account.                                    *)
LEMMA PatchKeeps ==
  ASSUME AccountsInv, topic # "accounts", topic' = topic, NEW v, NEW d, DOMAIN d \cap {"tenant_id", "uid"} = {},
         ~ docHasPlatformAdmin(d), PatchUser(v, d)
  PROVE  AccountsInv'
<1>1. UsersTyped /\ v \in Stored
  BY DEF AccountsInv, PatchUser
<1>2. PICK m : m = Merged(d, users[v])
  OBVIOUS
<1>3. users' = [users EXCEPT ![v] = m] /\ UNCHANGED <<spent, roles, crud, audit, lapses>>
  BY <1>2 DEF PatchUser
<1>4. Doc(m)
  BY <1>1, <1>2, PatchedUser
<1>. QED
  BY <1>1, <1>3, <1>4, UserSet, UsersOnly

(* A bearer changes the password.                                          *)
LEMMA PasswordKeeps ==
  ASSUME AccountsInv, topic # "accounts", topic' = topic, NEW a, SelfPasswordChange(a, 1, "p1", "p2")
  PROVE  AccountsInv'
<1>1. UsersTyped /\ 1 \in Stored
  BY DEF AccountsInv, SelfPasswordChange
<1>2. PICK d : d = [password |-> "p2"]
  OBVIOUS
<1>3. DOMAIN d \cap {"tenant_id", "uid"} = {} /\ ~ docHasPlatformAdmin(d)
  BY <1>2 DEF docHasPlatformAdmin, Field
<1>4. PICK m : m = Merged(d, users[1])
  OBVIOUS
<1>5. users' = [users EXCEPT ![1] = m] /\ UNCHANGED <<spent, roles, crud, audit, lapses>>
  BY <1>2, <1>4 DEF SelfPasswordChange
<1>6. Doc(m)
  BY <1>1, <1>3, <1>4, PatchedUser
<1>. QED
  BY <1>1, <1>5, <1>6, UserSet, UsersOnly

(* Single sign-on stores or updates an account.                            *)
LEMMA ProvisionKeeps ==
  ASSUME AccountsInv, LoginTyped, topic # "accounts", topic' = topic, NEW c \in Clients, provisionOIDCUser(c)
  PROVE  AccountsInv'
<1>1. PICK id : id = login[c].id
  OBVIOUS
<1>2. id.tenant \in Three
  BY <1>1 DEF provisionOIDCUser, LoginTyped, LoginShape
<1>3. UsersTyped /\ UNCHANGED <<spent, roles, crud, audit, lapses>>
  BY DEF AccountsInv, provisionOIDCUser
<1>4. PICK d : d = OIDCUser(id)
  OBVIOUS
<1>5. PICK g : g = [groups |-> id.groups]
  OBVIOUS
<1>6. PICK known : known = Known(id)
  OBVIOUS
<1>7. \/ UNCHANGED users
      \/ \E u \in Fresh : users' = [users EXCEPT ![u] = d]
      \/ \E p \in {d, g} : users' = [u \in Uids |-> IF u \in known THEN Merged(p, users[u]) ELSE users[u]]
  <2>1. ProvisionRefused(c) \/ ProvisionKnown(c, id) \/ ProvisionBlind(c, id)
    BY <1>1, ProvisionCases
  <2>2. UNCHANGED users \/ Stores(id) \/ Lays(id, g) \/ Lays(id, d)
    BY <1>4, <1>5, <2>1, Zenon DEF ProvisionRefused, ProvisionKnown, ProvisionBlind
  <2>. QED
    BY <1>4, <1>6, <2>2 DEF Lays, Stores
<1>8. CASE UNCHANGED users
  <2>1. UsersTyped'
    BY <1>3, <1>8 DEF UsersTyped, Doc
  <2>. QED
    BY <1>3, <2>1, UsersOnly
<1>9. CASE \E u \in Fresh : users' = [users EXCEPT ![u] = d]
  <2>1. Doc(d)
    BY <1>2, <1>4 DEF Doc, docHasPlatformAdmin, Field, OIDCUser
  <2>2. UsersTyped'
    BY <1>3, <1>9, <2>1, UserSet
  <2>. QED
    BY <1>3, <2>2, UsersOnly
<1>10. ASSUME NEW p \in {d, g}, users' = [u \in Uids |-> IF u \in known THEN Merged(p, users[u]) ELSE users[u]]
       PROVE  AccountsInv'
  <2>1. "uid" \notin DOMAIN p /\ ~ docHasPlatformAdmin(p) /\ ("tenant_id" \in DOMAIN p => p.tenant_id = id.tenant)
    BY <1>4, <1>5 DEF docHasPlatformAdmin, Field, OIDCUser
  <2>2. ASSUME NEW u \in Uids PROVE users'[u] = NoDoc \/ Doc(users'[u])
    <3>1. CASE u \in known
      <4>1. u \in Stored /\ users[u].tenant_id = id.tenant /\ users'[u] = Merged(p, users[u])
        BY <1>6, <1>10, <3>1 DEF Known, InTenant, Stored
      <4>. QED
        BY <1>3, <2>1, <4>1, PatchedUser
    <3>2. CASE u \notin known
      BY <1>3, <1>10, <3>2 DEF UsersTyped
    <3>. QED
      BY <3>1, <3>2
  <2>3. users' = [u \in Uids |-> users'[u]]
    BY <1>10
  <2>4. UsersTyped'
    BY <2>2, <2>3 DEF UsersTyped, Doc
  <2>. QED
    BY <1>3, <2>4, UsersOnly
<1>. QED
  BY <1>7, <1>8, <1>9, <1>10

(* Every step keeps the invariant of the accounts.                         *)
LEMMA AccountsKept ==
  ASSUME AccountsInv, LoginTyped, [Next]_vars
  PROVE  AccountsInv'
<1>1. ASSUME UNCHANGED <<topic, accountVars>> PROVE AccountsInv'
  <2>1. UNCHANGED <<topic, users, spent, roles, crud, audit, lapses>>
    BY <1>1 DEF accountVars
  <2>2. RolesTyped'
    BY <2>1 DEF AccountsInv, RolesTyped
  <2>3. NoOverlap
    BY <2>1 DEF NoOverlap, Lapsing
  <2>. QED
    BY <2>1, <2>2, <2>3, RolesOnly
<1>2. ASSUME topic # "accounts", topic' = topic, NEW v, NEW b, PatchUser(v, [enabled |-> b]) PROVE AccountsInv'
  <2>1. PICK d : d = [enabled |-> b]
    OBVIOUS
  <2>2. DOMAIN d \cap {"tenant_id", "uid"} = {} /\ ~ docHasPlatformAdmin(d)
    BY <2>1 DEF docHasPlatformAdmin, Field
  <2>. QED
    BY <1>2, <2>1, <2>2, PatchKeeps
<1>3. CASE AccountsNext
  BY <1>3, AccountsKeep
<1>4. CASE TenantNext \/ BootNext \/ UNCHANGED vars
  BY <1>1, <1>4 DEF TenantNext, BootNext, vars
<1>5. CASE SessionNext
  <2>0. topic # "accounts" /\ topic' = topic
    BY <1>5 DEF SessionNext
  <2>1. ASSUME NEW s, ReopenTenant(s) PROVE UNCHANGED accountVars
    BY <2>1 DEF ReopenTenant
  <2>2. ASSUME NEW a, SelfPasswordChange(a, 1, "p1", "p2") PROVE AccountsInv'
    BY <2>0, <2>2, PasswordKeeps
  <2>. QED
    BY <1>1, <1>2, <1>5, <2>0, <2>1, <2>2 DEF SessionNext
<1>6. CASE KeysNext
  <2>0. topic # "accounts" /\ topic' = topic
    BY <1>6 DEF KeysNext
  <2>1. ASSUME NEW rs \in {{}, {"viewer"}, {"admin"}}, PatchUser(1, [roles |-> rs]) PROVE AccountsInv'
    <3>1. PICK d : d = [roles |-> rs]
      OBVIOUS
    <3>2. DOMAIN d = {"roles"} /\ d.roles = rs
      BY <3>1
    <3>3. DOMAIN d \cap {"tenant_id", "uid"} = {} /\ ~ docHasPlatformAdmin(d)
      BY <3>2 DEF docHasPlatformAdmin, Field, IsReservedPlatformRole, PlatformAdminRole
    <3>. QED
      BY <2>0, <2>1, <3>1, <3>3, PatchKeeps
  <2>. QED
    BY <1>1, <1>2, <1>6, <2>0, <2>1 DEF KeysNext
<1>7. CASE SignInNext
  <2>0. topic # "accounts" /\ topic' = topic
    BY <1>7 DEF SignInNext
  <2>1. ASSUME NEW s, ReopenTenant(s) PROVE UNCHANGED accountVars
    BY <2>1 DEF ReopenTenant
  <2>2. ASSUME NEW c \in Clients, provisionOIDCUser(c) PROVE AccountsInv'
    BY <2>0, <2>2, ProvisionKeeps
  <2>. QED
    BY <1>1, <1>2, <1>7, <2>0, <2>1, <2>2 DEF SignInNext
<1>. QED
  BY <1>3, <1>4, <1>5, <1>6, <1>7 DEF Next

--------------------------------------------------------------------------
(* The kinds of the other values                                           *)

ExpiresTyped ==
  /\ clock \in 0..MaxClock
  /\ \A t \in Tokens : refresh[t] = NoDoc \/ ("expires" \in DOMAIN refresh[t] /\ refresh[t].expires \in 0..(MaxClock + RefreshLease))

BootsTyped == \A n \in Nodes : boots[n].pc \in {"down", "draw", "seed", "mark", "root", "up"}

TokensTyped == DOMAIN table \subseteq IngestTokens /\ strays \subseteq Three

(* Time only passes.                                                       *)
LEMMA ClockSteps ==
  ASSUME [Next]_vars
  PROVE  UNCHANGED clock \/ Tick
<1>1. CASE AccountsNext \/ TenantNext \/ BootNext \/ UNCHANGED vars
  BY <1>1 DEF AccountsNext, TenantNext, BootNext, vars, sessionVars
<1>2. ASSUME NEW u, NEW d, PatchUser(u, d) PROVE UNCHANGED clock
  BY <1>2 DEF PatchUser
<1>3. ASSUME NEW s, ReopenTenant(s) PROVE UNCHANGED clock
  BY <1>3 DEF ReopenTenant
<1>4. CASE SessionNext
  <2>1. ASSUME NEW c \in Clients, LoginStart(c) PROVE UNCHANGED clock
    BY <2>1 DEF LoginStart, handleLogin, handleLoginAnonymous, handleRefresh, handleLogout
  <2>2. ASSUME NEW c \in Clients, LoginNext(c) PROVE UNCHANGED clock
    BY <2>2 DEF LoginNext, LoginTenant, PassTenant, signSession, Respond, Crash, RefreshRevoke, RefreshIssue, RefreshCheck,
       RefreshSign, Revoke
  <2>3. CleanupRefresh => UNCHANGED clock
    BY DEF CleanupRefresh
  <2>4. ASSUME NEW a, SelfPasswordChange(a, 1, "p1", "p2") PROVE UNCHANGED clock
    BY <2>4 DEF SelfPasswordChange, sessionVars
  <2>. QED
    BY <1>2, <1>3, <1>4, <2>1, <2>2, <2>3, <2>4 DEF SessionNext
<1>5. CASE KeysNext
  <2>1. ASSUME NEW a, NEW k, NEW n, NEW ttl, NEW ps, handleCreateMyAPIKey(a, k, n, ps, ttl) PROVE UNCHANGED clock
    BY <2>1 DEF handleCreateMyAPIKey, IssueKey
  <2>2. ASSUME NEW a, NEW k, handleDeleteMyAPIKey(a, k) PROVE UNCHANGED clock
    BY <2>2 DEF handleDeleteMyAPIKey
  <2>3. ASSUME NEW k, NEW b, NEW e, PatchKey(k, b, e) PROVE UNCHANGED clock
    BY <2>3 DEF PatchKey
  <2>4. CleanupKeys => UNCHANGED clock
    BY DEF CleanupKeys
  <2>. QED
    BY <1>2, <1>5, <2>1, <2>2, <2>3, <2>4 DEF KeysNext
<1>6. CASE SignInNext
  <2>1. ASSUME NEW s, NEW org, handleOIDCStart(s, org) PROVE UNCHANGED clock
    BY <2>1 DEF handleOIDCStart
  <2>2. ASSUME NEW c, NEW g, handleOIDCCallback(c, "ann", g) PROVE UNCHANGED clock
    BY <2>2 DEF handleOIDCCallback
  <2>3. ASSUME NEW c, OIDCTenant(c) \/ signSession(c) \/ Respond(c) \/ provisionOIDCUser(c) PROVE UNCHANGED clock
    BY <2>3 DEF OIDCTenant, PassTenant, signSession, Respond, provisionOIDCUser
  <2>. QED
    BY <1>2, <1>3, <1>6, <2>1, <2>2, <2>3 DEF SignInNext
<1>. QED
  BY <1>1, <1>4, <1>5, <1>6 DEF Next

(* A refresh row expires within its lease.                                 *)
LEMMA ExpiresKept ==
  ASSUME ExpiresTyped, RefreshShape, [Next]_vars
  PROVE  ExpiresTyped'
<1>1. clock' \in 0..MaxClock
  BY ClockSteps, LeaseAssumption DEF Tick, ExpiresTyped
<1>2. ASSUME NEW t \in Tokens
      PROVE  refresh'[t] = NoDoc \/ ("expires" \in DOMAIN refresh'[t] /\ refresh'[t].expires \in 0..(MaxClock + RefreshLease))
  <2>1. CASE UNCHANGED refresh
    BY <2>1 DEF ExpiresTyped
  <2>2. CASE Cleans
    <3>1. refresh'[t] = NoDoc \/ refresh'[t] = refresh[t]
      BY <2>2 DEF Cleans
    <3>. QED
      BY <3>1 DEF ExpiresTyped
  <2>3. CASE Issues
    <3>1. PICK u \in Unused : \E id, s : refresh' = [refresh EXCEPT ![u] = RefreshRow(id, s)]
      BY <2>3 DEF Issues
    <3>2. PICK id, s : refresh' = [refresh EXCEPT ![u] = RefreshRow(id, s)]
      BY <3>1
    <3>3. PICK row : row = RefreshRow(id, s)
      OBVIOUS
    <3>4. "expires" \in DOMAIN row /\ row.expires = clock + RefreshLease
      BY <3>3 DEF RefreshRow
    <3>5. row.expires \in 0..(MaxClock + RefreshLease)
      BY <3>4, LeaseAssumption DEF ExpiresTyped
    <3>6. refresh'[t] = IF t = u THEN row ELSE refresh[t]
      BY <3>2, <3>3 DEF RefreshShape
    <3>. QED
      BY <3>4, <3>5, <3>6 DEF ExpiresTyped
  <2>4. CASE Revokes
    <3>1. PICK u : markRevoked(u)
      BY <2>4 DEF Revokes
    <3>2. PICK z : z = [tenant |-> "", id |-> Identity("", "", "", {}), expires |-> 0, revoked |-> TRUE, session |-> 0]
      OBVIOUS
    <3>3. PICK old : old = refresh[t]
      OBVIOUS
    <3>4. PICK m : m = [old EXCEPT !.revoked = TRUE]
      OBVIOUS
    <3>5. refresh'[t] = IF t = u THEN IF old = NoDoc THEN z ELSE m ELSE old
      BY <3>1, <3>2, <3>3, <3>4 DEF markRevoked, RefreshShape
    <3>6. "expires" \in DOMAIN z /\ z.expires = 0
      BY <3>2
    <3>7. "expires" \in DOMAIN old => "expires" \in DOMAIN m /\ m.expires = old.expires
      BY <3>4
    <3>8. old = NoDoc \/ ("expires" \in DOMAIN old /\ old.expires \in 0..(MaxClock + RefreshLease))
      BY <3>3 DEF ExpiresTyped
    <3>9. 0 \in 0..(MaxClock + RefreshLease)
      BY LeaseAssumption
    <3>. QED
      BY <3>5, <3>6, <3>7, <3>8, <3>9
  <2>. QED
    BY <2>1, <2>2, <2>3, <2>4, RefreshSteps
<1>. QED
  BY <1>1, <1>2 DEF ExpiresTyped

(* A server is at a step of its boot.                                      *)
LEMMA BootsKept ==
  ASSUME BootsTyped, BootShape, [Next]_vars
  PROVE  BootsTyped'
<1>1. CASE UNCHANGED boots
  BY <1>1 DEF BootsTyped
<1>2. ASSUME NEW n \in Nodes, BootRead(n) \/ BootWriteSecret(n) \/ BootstrapDB(n) \/ BootMarker(n) \/ EnsureRoot(n) \/ Shutdown(n)
      PROVE  BootsTyped'
  <2>1. PICK r : r = boots[n]
    OBVIOUS
  <2>2. PICK p0, k0, l0 : r = [pc |-> p0, key |-> k0, late |-> l0]
    BY <2>1 DEF BootShape
  <2>3. PICK p \in {"down", "draw", "seed", "mark", "root", "up"}, k \in {n, secret, NoSecret}, l \in BOOLEAN :
           boots'[n] = [r EXCEPT !.pc = p] \/ boots'[n] = [r EXCEPT !.pc = p, !.key = k] \/ boots'[n] = [r EXCEPT !.pc = p, !.late = l]
    <3>1. boots = [m \in Nodes |-> boots[m]]
      BY DEF BootShape
    <3>2. CASE BootRead(n)
      BY <1>2, <2>1, <3>1, <3>2 DEF BootRead
    <3>3. CASE BootWriteSecret(n)
      BY <1>2, <2>1, <3>1, <3>3 DEF BootWriteSecret
    <3>4. CASE BootstrapDB(n) \/ BootMarker(n) \/ EnsureRoot(n)
      BY <1>2, <2>1, <3>1, <3>4 DEF BootstrapDB, BootMarker, EnsureRoot
    <3>5. CASE Shutdown(n)
      BY <1>2, <2>1, <3>1, <3>5 DEF Shutdown
    <3>. QED
      BY <1>2, <3>2, <3>3, <3>4, <3>5
  <2>4. boots'[n].pc = p
    BY <2>2, <2>3
  <2>5. \A m \in Nodes \ {n} : boots'[m] = boots[m]
    BY <1>2 DEF BootShape, BootRead, BootWriteSecret, BootstrapDB, BootMarker, EnsureRoot, Shutdown
  <2>. QED
    BY <2>4, <2>5 DEF BootsTyped
<1>3. MigrationStep \/ MigrationRestart => UNCHANGED boots
  BY DEF MigrationStep, MigrationRestart
<1>. QED
  BY <1>1, <1>2, <1>3, BootFrame DEF BootNext

(* The table holds tokens of tenants.                                      *)
LEMMA TokensKept ==
  ASSUME TokensTyped, PurgeInv, [Next]_vars
  PROVE  TokensTyped'
<1>1. CASE UNCHANGED <<table, strays>>
  BY <1>1 DEF TokensTyped
<1>2. CASE AccountsNext \/ SessionNext \/ KeysNext \/ SignInNext \/ UNCHANGED vars
  BY <1>1, <1>2, TenancyFrame DEF vars, tenancyVars
<1>3. CASE BootNext
  <2>1. UNCHANGED <<table, strays>>
    BY <1>3 DEF BootNext, BootRead, BootWriteSecret, BootstrapDB, BootMarker, EnsureRoot, Shutdown, MigrationStep, MigrationRestart
  <2>. QED
    BY <1>1, <2>1
<1>4. CASE TenantNext
  <2>1. ASSUME NEW r, NEW t, NEW p, \/ handleTenantCreate(r, Root, t, FALSE, "k1", "k2") \/ handleTenantAdminReset(r, Root, t)
                                    \/ handleTenantUpdate(r, Root, t, p) \/ handleTenantDelete(r, Root, t)
        PROVE  UNCHANGED <<table, strays>>
    BY <2>1 DEF handleTenantCreate, handleTenantAdminReset, handleTenantUpdate, handleTenantDelete
  <2>2. ASSUME NEW r, seedTenant(r) \/ CreateAdmin(r, "p2") \/ ResetAdmin(r, "p3") \/ DeletePurge(r) \/ DeleteRegistry(r) \/ AbandonJob(r)
        PROVE  UNCHANGED <<table, strays>>
    BY <2>2 DEF seedTenant, CreateAdmin, ResetAdmin, EnsureTenantAdmin, DeletePurge, DeleteRegistry, AbandonJob
  <2>3. ASSUME NEW k, SessionWrites("acme", k) \/ IngestTenant(k) PROVE UNCHANGED <<table, strays>>
    BY <2>3 DEF SessionWrites, IngestTenant
  <2>4. ASSUME NEW r \in Requests, UpdateTenant(r) \/ DeleteSuspend(r) PROVE TokensTyped'
    <3>1. jobs[r].pc # "idle" /\ UNCHANGED table /\ strays' \subseteq strays \cup {jobs[r].id}
      BY <2>4 DEF UpdateTenant, DeleteSuspend
    <3>2. jobs[r].id \in Three
      BY <3>1, JobKinds DEF PurgeInv
    <3>. QED
      BY <3>1, <3>2 DEF TokensTyped
  <2>5. CASE ReloadIngestTokens
    <3>1. PICK W : W = {t \in Three : registry[t] # NoDoc /\ registry[t].token # ""}
      OBVIOUS
    <3>2. PICK U : U = {registry[t].token : t \in W}
      OBVIOUS
    <3>3. Tables(registry) \subseteq [U -> W]
      BY <3>1, <3>2 DEF Tables, Slugs, PurgeInv, RegistryTyped
    <3>4. \A t \in W : registry[t] \in TenantDoc /\ registry[t].token # ""
      BY <3>1 DEF PurgeInv, RegistryTyped
    <3>5. \A t \in W : registry[t].token \in IngestTokens
      BY <3>4 DEF TenantDoc
    <3>6. (table' = table \/ table' \in [U -> W]) /\ UNCHANGED strays
      BY <2>5, <3>3 DEF ReloadIngestTokens
    <3>. QED
      BY <3>2, <3>5, <3>6 DEF TokensTyped
  <2>. QED
    BY <1>1, <1>4, <2>1, <2>2, <2>3, <2>4, <2>5 DEF TenantNext
<1>. QED
  BY <1>2, <1>3, <1>4 DEF Next

--------------------------------------------------------------------------
(* Accounts are guarded                                                    *)

GuardedInv == TenantsInv /\ RefreshShape /\ AccountsInv /\ LoginTyped /\ CookieTyped /\ ExpiresTyped /\ BootsTyped /\ TokensTyped

(* The accounts there are at first.                                        *)
LEMMA SeededUser ==
  ASSUME NEW t \in Three, NEW n, NEW m, NEW rs, PlatformAdminRole \in rs => t = DefaultTenant, NEW d, d = User(t, n, m, rs)
  PROVE  Doc(d) /\ d.tenant_id = t /\ Field(d, "enabled", TRUE) /\ (docHasPlatformAdmin(d) <=> PlatformAdminRole \in rs)
<1>1. d = [tenant_id |-> t, name |-> n, method |-> m, roles |-> rs, enabled |-> TRUE, password |-> "p1"]
  BY DEF User
<1>2. /\ DOMAIN d = {"tenant_id", "name", "method", "roles", "enabled", "password"}
      /\ d.tenant_id = t /\ d.roles = rs /\ d.enabled = TRUE
  BY <1>1
<1>3. Field(d, "roles", {}) = rs /\ Field(d, "static_roles", {}) = {} /\ Field(d, "enabled", TRUE)
  BY <1>2 DEF Field
<1>4. docHasPlatformAdmin(d) <=> PlatformAdminRole \in rs
  BY <1>3 DEF docHasPlatformAdmin, IsReservedPlatformRole
<1>. QED
  BY <1>2, <1>3, <1>4 DEF Doc

(* Root holds the platform role at first, and is enabled.                  *)
LEMMA UsersStart ==
  ASSUME Init
  PROVE  UsersTyped /\ LastAdminKept
<1>1. PICK d1 : d1 = User(DefaultTenant, "root", "local", {"admin", PlatformAdminRole})
  OBVIOUS
<1>2. PICK d2 : d2 = User(DefaultTenant, "eve", "local", {PlatformAdminRole})
  OBVIOUS
<1>3. PICK d3 : d3 = User("acme", "ann", "local", {"viewer"})
  OBVIOUS
<1>4. PICK d4 : d4 = User("acme", "ann", "oidc", {"viewer"})
  OBVIOUS
<1>12. PICK d5 : d5 = User("acme", "ann", "ldap", {"viewer"})
  OBVIOUS
<1>5. /\ Doc(d1) /\ d1.tenant_id = DefaultTenant /\ Field(d1, "enabled", TRUE) /\ docHasPlatformAdmin(d1)
      /\ Doc(d2)
  BY <1>1, <1>2, SeededUser DEF Three
<1>6. Doc(d3) /\ Doc(d4) /\ Doc(d5)
  BY <1>3, <1>4, <1>12, SeededUser DEF Three, PlatformAdminRole
<1>7. users = InitUsers
  BY DEF Init
<1>8. users = [u \in Uids |-> users[u]]
  BY <1>7 DEF InitUsers
<1>9. ASSUME NEW u \in Uids PROVE users[u] \in {d1, d2, d3, d4, d5, NoDoc}
  BY <1>1, <1>2, <1>3, <1>4, <1>7, <1>12 DEF InitUsers
<1>10. UsersTyped
  BY <1>5, <1>6, <1>8, <1>9 DEF UsersTyped
<1>11. LastAdminKept
  <2> SUFFICES ASSUME topic = "accounts" PROVE enabledPlatformAdminExists(DefaultTenant, {})
    BY DEF LastAdminKept
  <2>1. 1 \in Uids
    BY AccessAssumption
  <2>2. users[1] = d1
    BY <1>1, <1>7, <2>1 DEF InitUsers
  <2>3. d1 # NoDoc
    BY <1>5, DocIsThere DEF Doc
  <2>4. 1 \in InTenant(DefaultTenant) \ {}
    BY <1>5, <2>1, <2>2, <2>3 DEF InTenant, Stored
  <2>. QED
    BY <1>5, <2>2, <2>4 DEF enabledPlatformAdminExists
<1>. QED
  BY <1>10, <1>11

(* The roles that are seeded are confined.                                 *)
LEMMA RolesStart ==
  ASSUME Init
  PROVE  RolesTyped
<1>1. roles = SeedRoles
  BY DEF Init
<1>2. ASSUME NEW t, NEW n, NEW ps, NEW gs, NEW r, r = Role(t, n, ps, gs)
      PROVE  r.tenant_id = t /\ r.name = n /\ Field(r, "permissions", {}) = ps /\ "name" \in DOMAIN r
  BY <1>2 DEF Role, Field
<1>3. ~ IsReservedPlatformPerm(AllPermission) /\ ~ IsReservedPlatformPerm(RO("all"))
  BY DEF IsReservedPlatformPerm, PermReadTenant, PermWriteTenant, AllPermission, RO, RW
<1>4. ASSUME NEW r \in SeedRoles
      PROVE  /\ "name" \in DOMAIN r
             /\ IF IsReservedPlatformRole(r.name) THEN r.tenant_id = DefaultTenant
                ELSE \A p \in Field(r, "permissions", {}) : ~ IsReservedPlatformPerm(p)
  <2>1. CASE r = Role(DefaultTenant, PlatformAdminRole, {PermReadTenant, PermWriteTenant}, {})
    BY <1>2, <2>1 DEF IsReservedPlatformRole
  <2>2. CASE \E t, gs : r = Role(t, "admin", {AllPermission}, gs)
    <3>1. "name" \in DOMAIN r /\ r.name = "admin" /\ Field(r, "permissions", {}) = {AllPermission}
      BY <1>2, <2>2
    <3>. QED
      BY <1>3, <3>1 DEF IsReservedPlatformRole, PlatformAdminRole
  <2>3. CASE r = Role("acme", "viewer", {RO("all")}, {})
    <3>1. "name" \in DOMAIN r /\ r.name = "viewer" /\ Field(r, "permissions", {}) = {RO("all")}
      BY <1>2, <2>3
    <3>. QED
      BY <1>3, <3>1 DEF IsReservedPlatformRole, PlatformAdminRole
  <2>. QED
    BY <2>1, <2>2, <2>3 DEF SeedRoles
<1>. QED
  BY <1>1, <1>4 DEF RolesTyped

(* Every behaviour starts with the invariants.                             *)
LEMMA GuardedStart ==
  ASSUME Init
  PROVE  GuardedInv
<1>1. RefreshShape /\ ExpiresTyped
  <2>1. refresh = [t \in Tokens |-> NoDoc] /\ clock = 0
    BY DEF Init
  <2>2. refresh = [t \in Tokens |-> refresh[t]] /\ \A t \in Tokens : refresh[t] = NoDoc
    BY <2>1
  <2>. QED
    BY <2>1, <2>2, LeaseAssumption DEF RefreshShape, ExpiresTyped
<1>2. CrudTyped /\ Serial
  <2>1. crud = [r \in Requests |-> Idle]
    BY DEF Init
  <2>2. crud = [r \in Requests |-> crud[r]] /\ \A r \in Requests : crud[r] = Idle /\ crud[r].pc = "idle"
    BY <2>1 DEF Idle
  <2>. QED
    BY <2>2 DEF CrudTyped, Serial
<1>3. DeletionsAudited
  BY DEF Init, DeletionsAudited
<1>4. LoginTyped /\ CookieTyped
  <2>1. login = [c \in Clients |-> NoRequest] /\ cookie = NoDoc
    BY DEF Init
  <2>2. login = [c \in Clients |-> login[c]] /\ \A c \in Clients : login[c] = NoRequest
    BY <2>1
  <2>3. LoginShape(NoRequest)
    BY DEF NoRequest, LoginShape, LoginSteps
  <2>. QED
    BY <2>1, <2>2, <2>3 DEF LoginTyped, CookieTyped
<1>5. BootsTyped
  <2>1. boots = [n \in Nodes |-> [pc |-> "down", key |-> NoSecret, late |-> FALSE]]
    BY DEF Init
  <2>. QED
    BY <2>1 DEF BootsTyped
<1>6. TokensTyped
  <2>1. (table = [k \in {"k1"} |-> "acme"] \/ table = <<>>) /\ strays = {}
    BY DEF Init
  <2>2. DOMAIN table \subseteq {"k1"}
    BY <2>1
  <2>. QED
    BY <2>1, <2>2, AccessAssumption DEF TokensTyped
<1>7. AccountsInv
  BY <1>2, <1>3, UsersStart, RolesStart DEF AccountsInv
<1>. QED
  BY <1>1, <1>4, <1>5, <1>6, <1>7, TenantsStart DEF GuardedInv

(* Every behaviour keeps the invariants.                                   *)
LEMMA GuardedKept == Spec => []GuardedInv
<1>1. Init => GuardedInv
  BY GuardedStart
<1>2. GuardedInv /\ TenantsInv' /\ [Next]_vars => GuardedInv'
  <2> SUFFICES ASSUME GuardedInv, TenantsInv', [Next]_vars PROVE GuardedInv'
    OBVIOUS
  <2>1. RefreshShape'
    BY RefreshSteps, RevokedKept DEF GuardedInv
  <2>2. AccountsInv'
    BY AccountsKept DEF GuardedInv
  <2>3. LoginTyped' /\ CookieTyped'
    BY LoginsKept DEF GuardedInv
  <2>4. ExpiresTyped'
    BY ExpiresKept DEF GuardedInv
  <2>5. BootsTyped'
    BY BootsKept DEF GuardedInv, TenantsInv, BootInv
  <2>6. TokensTyped'
    BY TokensKept DEF GuardedInv, TenantsInv, QuietInv
  <2>. QED
    BY <2>1, <2>2, <2>3, <2>4, <2>5, <2>6 DEF GuardedInv
<1>. QED
  BY <1>1, <1>2, TenantsKept, PTL DEF Spec

(* As long as guarded writes of users come one after the other and no      *)
(* create carries the uid of a holder, whoever demotes, disables, replaces *)
(* or deletes whom, the default tenant keeps an enabled holder of the      *)
(* platform role; a deleted user has its audit row unless writes           *)
(* overlapped or the row could not be written; the platform role never     *)
(* leaves the default tenant, overlapping writes and creates with a uid    *)
(* included, and no other role gets its permissions unless a create        *)
(* renamed it; and every variable holds a value of its kind                *)
(* (user/plugin.go GuardWrite and GuardDelete, role/plugin.go, crud.go):   *)
(* for any number of requests in flight, uids, clients, tokens, servers.   *)
THEOREM AccountsStayGuarded == Spec => []AccountsGuarded
<1>1. GuardedInv => AccountsGuarded
  <2> SUFFICES ASSUME GuardedInv PROVE AccountsGuarded
    OBVIOUS
  <2>1. LastAdminKept /\ DeletionsAudited /\ UsersTyped /\ RolesTyped
    BY DEF GuardedInv, AccountsInv
  <2>2. Slugs = Three
    BY DEF GuardedInv, TenantsInv, QuietInv, PurgeInv, RegistryTyped, Slugs
  <2>3. \A u \in Stored : Doc(users[u])
    BY <2>1 DEF UsersTyped, Stored
  <2>4. ReservedConfined
    <3>1. \A u \in Stored : docHasPlatformAdmin(users[u]) => users[u].tenant_id = DefaultTenant
      BY <2>3 DEF Doc
    <3>2. /\ "upsert" \notin lapses => RogueReservedRoles(roles) = {}
          /\ \A r \in roles : IsReservedPlatformRole(r.name) => r.tenant_id = DefaultTenant
      BY <2>1 DEF RolesTyped, RogueReservedRoles
    <3>. QED
      BY <3>1, <3>2 DEF ReservedConfined
  <2>5. TypeOK
    <3>1. \A u \in Stored : users[u].tenant_id \in Slugs /\ "uid" \notin DOMAIN users[u]
      BY <2>2, <2>3 DEF Doc
    <3>2. \A t \in Tokens : refresh[t] # NoDoc => refresh[t].expires \in 0..(MaxClock + RefreshLease)
      BY DEF GuardedInv, ExpiresTyped
    <3>3. \A c \in Clients : login[c].pc \in LoginSteps
      BY DEF GuardedInv, LoginTyped, LoginShape
    <3>4. ASSUME NEW r \in Requests
          PROVE  jobs[r].pc \in {"idle", "seed", "marker", "admin", "reset", "update", "suspend", "purge", "remove"}
      <4>1. jobs[r] = Idle \/ jobs[r] \in Making \/ jobs[r] \in Updating \/ DeletionAt(jobs[r])
        BY DEF GuardedInv, TenantsInv, QuietInv, PurgeInv, JobsTyped
      <4>. QED
        BY <4>1 DEF Idle, Making, Updating, DeletionAt, Deleting
    <3>5. \A col \in Collections, t \in Slugs : rows[col][t] \in {"none", "live", "late"}
      BY <2>2 DEF GuardedInv, TenantsInv, QuietInv, PurgeInv, RowsTyped
    <3>6. \A n \in Nodes : boots[n].pc \in {"down", "draw", "seed", "mark", "root", "up"}
      BY DEF GuardedInv, BootsTyped
    <3>7. DOMAIN table \subseteq IngestTokens /\ strays \subseteq Slugs
      BY <2>2 DEF GuardedInv, TokensTyped
    <3>. QED
      BY <3>1, <3>2, <3>3, <3>4, <3>5, <3>6, <3>7 DEF TypeOK, LoginSteps
  <2>. QED
    BY <2>1, <2>4, <2>5 DEF AccountsGuarded
<1>. QED
  BY <1>1, GuardedKept, PTL

--------------------------------------------------------------------------
(* Invariants of the sessions                                              *)

\* The fields of a request: of a login, a refresh, a single sign-on, a logout.
Fields(l) ==
  \/ l = NoRequest
  \/ l.pc \in {"tenant", "sign", "done"} /\ DOMAIN l = {"pc", "id", "off", "shut"}
  \/ l.pc \in {"revoke", "issue", "check", "resign", "done"} /\ DOMAIN l = {"pc", "id", "token", "session", "off", "shut"}
  \/ l.pc \in {"oidctenant", "provision", "sign", "done"} /\ DOMAIN l = {"pc", "id", "start", "off", "shut"}
  \/ l.pc = "logout" /\ DOMAIN l = {"pc", "token", "id", "off", "shut"}

\* Before the check of the account or of the tenant, what is remembered of it
\* is true now; after the check, the account was enabled and the tenant open, or
\* there was no answer.  An LDAP login has no check of the account.
Sound(l) ==
  /\ Fields(l)
  /\ l.pc \in {"revoke", "issue", "check", "oidctenant", "provision"} /\ l.off => Disabled(l.id)
  /\ l.pc \in {"tenant", "sign", "resign", "done"} /\ l.off => l.id.method = "ldap" /\ "session" \notin DOMAIN l
  /\ l.pc \in {"tenant", "oidctenant"} /\ l.shut => ~ checkTenantStatus(l.id.tenant)
  /\ l.pc \in {"provision", "sign", "done"} /\ "session" \notin DOMAIN l => ~ l.shut
  /\ "start" \in DOMAIN l => /\ l.id.method = "oidc"
                              /\ l.id.tenant = IF l.start.org = "" THEN DefaultTenant ELSE l.start.org

LoginsSound ==
  /\ \A c \in Clients : \A l \in {login[c]} : Sound(l)
  /\ topic \notin {"session", "signin"} => \A c \in Clients : login[c] = NoRequest

\* The browser's cookie belongs to a start of its own.
CookieSound ==
  /\ \A d \in codes : {"state", "org", "answered"} \subseteq DOMAIN d
  /\ cookie # NoDoc => \A d \in codes : d.state = cookie.state => d.org = cookie.org

\* In the topic of sessions there is one local account and one of LDAP.
Seeded(u, d) == (u = 1 /\ Field(d, "method", "") = "local") \/ (u = 2 /\ Field(d, "method", "") = "ldap")
OneAccount == topic = "session" => \A u \in Stored : Seeded(u, users[u])

Live(t) == refresh[t] # NoDoc /\ ~ refresh[t].revoked
Claiming(c) == login[c].pc \in {"revoke", "issue"}
Signed(s) == \E a \in access : a.refresh = s

\* A session nobody raced for has one live row, or one request that is about
\* to revoke that row or to issue the next.
OneLive ==
  \A t, u \in Tokens :
      Live(t) /\ Live(u) /\ refresh[t].session = refresh[u].session /\ refresh[t].session \notin raced => t = u

ClaimsAlone ==
  \A c \in Clients : Claiming(c) /\ login[c].session \notin raced =>
      /\ \A t \in Tokens : Live(t) /\ refresh[t].session = login[c].session => login[c].pc = "revoke" /\ t = login[c].token
      /\ \A d \in Clients \ {c} : Claiming(d) => login[d].session # login[c].session

\* A session's number was drawn for a token that was signed.
SessionsSigned ==
  /\ \A t \in Tokens : Live(t) => Signed(refresh[t].session)
  /\ \A c \in Clients : Claiming(c) => Signed(login[c].session)

TokenInv == OneLive /\ ClaimsAlone /\ SessionsSigned

SessionsInv == LoginsSound /\ CookieSound /\ OneAccount /\ TokenInv

--------------------------------------------------------------------------
(* API keys                                                                *)

(* A permission that a grant keeps opens nothing that its owner's          *)
(* permissions do not open: the wildcard and the writing form of a reading *)
(* permission are in every list that has it.                               *)
LEMMA GrantWithin ==
  ASSUME NEW meta \in UserMetas, NEW path, NEW verb, NEW b, b.method = "apikey", NEW o, NEW owner,
         AllPermission \in o.perms \/ owner \subseteq o.perms,
         \A g \in b.perms : permits(owner, g),
         IsAuthorized(meta, path, verb, b)
  PROVE  IsAuthorized(meta, path, verb, o)
<1>1. PICK rt : rt = ResolveRoute(meta, path)
  OBVIOUS
<1>2. PICK policy : policy = IF "policy" \in DOMAIN rt THEN rt.policy ELSE [read |-> {}, write |-> {}]
  OBVIOUS
<1>3. policy.read \subseteq {Anyone} /\ policy.write \subseteq {<<"can_comment", "">>}
  <2>0. PICK p0, p1, p2 : /\ p0 = [read |-> {}, write |-> {}] /\ p1 = [read |-> {Anyone}, write |-> {}]
                          /\ p2 = [read |-> {Anyone}, write |-> {<<"can_comment", "">>}]
    OBVIOUS
  <2>1. /\ p0.read = {} /\ p0.write = {} /\ p1.read = {Anyone} /\ p1.write = {}
        /\ p2.read = {Anyone} /\ p2.write = {<<"can_comment", "">>}
    BY <2>0
  <2>2. PICK over : over = [policy |-> p1]
    OBVIOUS
  <2>3. PICK routes : routes = [p \in {"/self"} |-> over]
    OBVIOUS
  <2>4. PICK d2 : d2 = [policy |-> p2]
    OBVIOUS
  <2>5. PICK n \in {"rule", "user", "comment"}, d \in {<<>>, d2} : meta = [name |-> n, defaults |-> d, routes |-> routes]
    <3>1. meta \in [name : {"rule", "user", "comment"}, defaults : {<<>>, d2}, routes : {routes}]
      BY <2>0, <2>2, <2>3, <2>4 DEF UserMetas
    <3>. QED
      BY <3>1
  <2>6. meta.defaults = d /\ meta.routes = routes
    BY <2>5
  <2>7. DOMAIN over = {"policy"} /\ over.policy = p1 /\ (d = <<>> => "policy" \notin DOMAIN d) /\ (d = d2 => d.policy = p2)
    BY <2>2, <2>4
  <2>8. CASE path = "/self"
    <3>1. path \in DOMAIN routes /\ routes[path] = over
      BY <2>3, <2>8
    <3>2. rt = [f \in DOMAIN d \cup DOMAIN over |-> IF f \in DOMAIN over THEN over[f] ELSE d[f]]
      BY <1>1, <2>6, <3>1 DEF ResolveRoute
    <3>3. "policy" \in DOMAIN rt /\ rt.policy = p1
      BY <2>7, <3>2
    <3>. QED
      BY <1>2, <2>1, <3>3
  <2>9. CASE path # "/self"
    <3>1. rt = d
      BY <1>1, <2>3, <2>6, <2>9 DEF ResolveRoute
    <3>2. policy \in {p0, p2}
      BY <1>2, <2>0, <2>7, <3>1
    <3>. QED
      BY <2>1, <3>2
  <2>. QED
    BY <2>8, <2>9
<1>4. PICK write : write = {RW("all"), RW(meta.name)} \cup policy.write
  OBVIOUS
<1>5. PICK read : read = {RO("all"), RO(meta.name)} \cup policy.read \cup write
  OBVIOUS
<1>6. PICK S : S = IF IsRead(verb) THEN read ELSE write
  OBVIOUS
<1>7. ASSUME NEW x PROVE IsAuthorized(meta, path, verb, x) <=> x.method = "root" \/ ({Anyone} \cup x.perms) \cap S # {}
  BY <1>1, <1>2, <1>4, <1>5, <1>6 DEF IsAuthorized
<1>8. PICK g : g \in {Anyone} \cup b.perms /\ g \in S
  BY <1>7
<1>9. RW("all") \in S
  BY <1>4, <1>5, <1>6
<1>10. CASE g = Anyone
  BY <1>7, <1>8, <1>10
<1>11. CASE AllPermission \in o.perms
  BY <1>7, <1>9, <1>11 DEF AllPermission
<1>12. CASE g # Anyone /\ AllPermission \notin o.perms
  <2>1. permits(owner, g) /\ owner \subseteq o.perms
    BY <1>8, <1>12
  <2>2. CASE g \in owner
    BY <1>7, <1>8, <2>1, <2>2
  <2>3. CASE g[1] = "ro" /\ RW(g[2]) \in owner
    <3>1. g \in {RO("all"), RO(meta.name), RW("all"), RW(meta.name), <<"can_comment", "">>}
      BY <1>3, <1>4, <1>5, <1>6, <1>8, <1>12
    <3>2. g = RO("all") \/ g = RO(meta.name)
      <4>1. RW("all")[1] = "rw" /\ RW(meta.name)[1] = "rw"
        BY DEF RW
      <4>2. <<"can_comment", "">>[1] = "can_comment"
        OBVIOUS
      <4>. QED
        BY <2>3, <3>1, <4>1, <4>2
    <3>3. RW(g[2]) = RW("all") \/ RW(g[2]) = RW(meta.name)
      BY <3>2 DEF RO, RW
    <3>4. RW(g[2]) \in S
      BY <1>4, <1>5, <1>6, <3>3
    <3>. QED
      BY <1>7, <2>1, <2>3, <3>4
  <2>. QED
    BY <1>12, <2>1, <2>2, <2>3 DEF permits
<1>. QED
  BY <1>10, <1>11, <1>12

(* A key's bearer may do only what the owner may do now.                   *)
LEMMA KeysWithinOwners == KeyWithinOwner
<1> SUFFICES ASSUME NEW k \in Keys, keys[k] # NoDoc, NEW bearer \in ResolveKey(k)
             PROVE  /\ ~ RequirePlatformPerm(bearer, {PermReadTenant, PermWriteTenant})
                    /\ \A meta \in UserMetas, path \in {"", "/self"}, verb \in {"GET", "POST"} :
                          AuthorizeRoute(meta, path, verb, bearer, NoDoc) => IsAuthorized(meta, path, verb, resolveRoles(KeyOwner(k)))
  BY DEF KeyWithinOwner
<1>1. PICK id : id = KeyOwner(k)
  OBVIOUS
<1>2. PICK live : live = RoleResolver(Accounts(id.tenant), RolesOf(id.tenant), id.sub, id.method, id.groups)
  OBVIOUS
<1>3. bearer = Claims(id.sub, "apikey", id.tenant, live.roles, IntersectGrant(live.perms, keys[k].perms), id.groups)
  BY <1>1, <1>2 DEF ResolveKey
<1>4. bearer.method = "apikey" /\ bearer.perms = IntersectGrant(live.perms, keys[k].perms) /\ DOMAIN bearer # {}
  BY <1>3 DEF Claims
<1>5. PICK o : o = resolveRoles(id)
  OBVIOUS
<1>6. AllPermission \in o.perms \/ live.perms \subseteq o.perms
  BY <1>2, <1>5 DEF resolveRoles, Claims
<1>7. \A g \in bearer.perms : ~ IsReservedPlatformPerm(g) /\ permits(live.perms, g)
  BY <1>4 DEF IntersectGrant
<1>8. ~ RequirePlatformPerm(bearer, {PermReadTenant, PermWriteTenant})
  BY <1>7 DEF RequirePlatformPerm, HasLiteralPermission, IsReservedPlatformPerm
<1>9. ASSUME NEW meta \in UserMetas, NEW path \in {"", "/self"}, NEW verb \in {"GET", "POST"},
             AuthorizeRoute(meta, path, verb, bearer, NoDoc)
      PROVE  IsAuthorized(meta, path, verb, resolveRoles(KeyOwner(k)))
  <2>1. bearer # NoDoc
    BY <1>4, NoDocEmpty
  <2>2. IsAuthorized(meta, path, verb, bearer)
    BY <1>9, <2>1 DEF AuthorizeRoute
  <2>3. \A g \in bearer.perms : permits(live.perms, g)
    BY <1>7
  <2>4. IsAuthorized(meta, path, verb, o)
    BY <1>4, <1>6, <2>2, <2>3, GrantWithin
  <2>. QED
    BY <1>1, <1>5, <2>4
<1>. QED
  BY <1>8, <1>9

--------------------------------------------------------------------------
(* Refresh tokens                                                          *)

\* Rows may die; what is remembered of races and of signed tokens stays.
RowsShrink ==
  /\ \A t \in Tokens : Live(t)' => Live(t) /\ refresh'[t].session = refresh[t].session
  /\ raced \subseteq raced' /\ access \subseteq access'

\* Requests may let go of their claims.
ClaimsShrink ==
  \A c \in Clients : Claiming(c)' => /\ Claiming(c) /\ login'[c].pc = login[c].pc
                                     /\ login'[c].session = login[c].session /\ login'[c].token = login[c].token

(* A number that was drawn stays drawn.                                    *)
LEMMA SignedStays ==
  ASSUME access \subseteq access', NEW s, Signed(s)
  PROVE  Signed(s)'
BY DEF Signed

(* With fewer rows and fewer claims the sessions stay apart.               *)
LEMMA TokensShrink ==
  ASSUME TokenInv, RowsShrink, ClaimsShrink
  PROVE  TokenInv'
<1>1. ASSUME NEW s, Signed(s) PROVE Signed(s)'
  BY <1>1, SignedStays DEF RowsShrink
<1>2. OneLive'
  BY DEF TokenInv, OneLive, RowsShrink
<1>3. ClaimsAlone'
  <2> SUFFICES ASSUME NEW c \in Clients, Claiming(c)', login'[c].session \notin raced'
               PROVE  /\ \A t \in Tokens : Live(t)' /\ refresh'[t].session = login'[c].session => login'[c].pc = "revoke" /\ t = login'[c].token
                      /\ \A d \in Clients \ {c} : Claiming(d)' => login'[d].session # login'[c].session
    BY DEF ClaimsAlone
  <2>1. /\ Claiming(c) /\ login[c].session \notin raced /\ login'[c].pc = login[c].pc
        /\ login'[c].session = login[c].session /\ login'[c].token = login[c].token
    BY DEF ClaimsShrink, RowsShrink
  <2>2. /\ \A t \in Tokens : Live(t) /\ refresh[t].session = login[c].session => login[c].pc = "revoke" /\ t = login[c].token
        /\ \A d \in Clients \ {c} : Claiming(d) => login[d].session # login[c].session
    BY <2>1 DEF TokenInv, ClaimsAlone
  <2>3. \A t \in Tokens : Live(t)' /\ refresh'[t].session = login'[c].session => login'[c].pc = "revoke" /\ t = login'[c].token
    BY <2>1, <2>2 DEF RowsShrink
  <2>4. \A d \in Clients \ {c} : Claiming(d)' => login'[d].session # login'[c].session
    BY <2>1, <2>2 DEF ClaimsShrink
  <2>. QED
    BY <2>3, <2>4
<1>4. SessionsSigned'
  BY <1>1 DEF TokenInv, SessionsSigned, RowsShrink, ClaimsShrink
<1>. QED
  BY <1>2, <1>3, <1>4 DEF TokenInv

(* One client's request is replaced.                                       *)
LEMMA RequestSet ==
  ASSUME LoginTyped, NEW c \in Clients, NEW m, login' = [login EXCEPT ![c] = m]
  PROVE  \A d \in Clients : login'[d] = IF d = c THEN m ELSE login[d]
<1>1. login' = [d \in Clients |-> IF d = c THEN m ELSE login[d]]
  BY DEF LoginTyped
<1>. QED
  BY <1>1

(* A request that claims nothing takes the place of another.               *)
LEMMA ClaimEnds ==
  ASSUME LoginTyped, NEW c \in Clients, NEW m, login' = [login EXCEPT ![c] = m], m.pc \notin {"revoke", "issue"}
  PROVE  ClaimsShrink
BY RequestSet DEF ClaimsShrink, Claiming

(* A session is opened: its number was never drawn.                        *)
LEMMA TokenOpens ==
  ASSUME TokenInv, LoginTyped, RefreshShape, NEW c \in Clients, signSession(c)
  PROVE  TokenInv'
<1>1. PICK n : n = NextToken
  OBVIOUS
<1>2. n \in Unused
  BY <1>1, NextIsUnused DEF signSession
<1>3. n \in Tokens /\ refresh[n] = NoDoc /\ ~ Signed(n)
  BY <1>2 DEF Unused, Signed
<1>4. PICK row : row = RefreshRow(login[c].id, n)
  OBVIOUS
<1>5. row.session = n /\ ~ row.revoked
  BY <1>4 DEF RefreshRow
<1>6. refresh' = [refresh EXCEPT ![n] = row] /\ raced' = raced
  BY <1>1, <1>4 DEF signSession
<1>7. \A t \in Tokens : refresh'[t] = IF t = n THEN row ELSE refresh[t]
  <2>1. refresh' = [t \in Tokens |-> IF t = n THEN row ELSE refresh[t]]
    BY <1>6 DEF RefreshShape
  <2>. QED
    BY <2>1
<1>8. access \subseteq access' /\ Signed(n)'
  <2>1. PICK a : a = [claims |-> resolveRoles(login[c].id), expires |-> clock + TokenLease, refresh |-> n, session |-> n]
    OBVIOUS
  <2>2. access' = access \cup {a}
    BY <1>1, <2>1 DEF signSession, Sign
  <2>3. a.refresh = n
    BY <2>1
  <2>. QED
    BY <2>2, <2>3 DEF Signed
<1>9. ClaimsShrink
  <2>1. PICK l : l = login[c]
    OBVIOUS
  <2>2. l.pc = "sign" /\ "pc" \in DOMAIN l
    BY <2>1 DEF signSession, LoginTyped, LoginShape
  <2>3. PICK m : m = [l EXCEPT !.pc = "done"]
    OBVIOUS
  <2>4. m.pc = "done"
    BY <2>2, <2>3
  <2>5. login' = [login EXCEPT ![c] = m]
    BY <2>1, <2>3 DEF signSession
  <2>. QED
    BY <2>4, <2>5, ClaimEnds
<1>10. \A t \in Tokens : t # n => (Live(t)' <=> Live(t)) /\ refresh'[t] = refresh[t]
  BY <1>7 DEF Live
<1>11. \A t \in Tokens : t # n /\ Live(t)' => Live(t) /\ refresh'[t].session = refresh[t].session /\ refresh[t].session # n
  BY <1>3, <1>10 DEF TokenInv, SessionsSigned
<1>12. refresh'[n].session = n
  BY <1>3, <1>5, <1>7
<1>13. \A d \in Clients : Claiming(d)' => login'[d].session = login[d].session /\ login[d].session # n /\ Signed(login[d].session)
  BY <1>3, <1>9 DEF ClaimsShrink, TokenInv, SessionsSigned
<1>14. OneLive'
  BY <1>6, <1>11, <1>12 DEF TokenInv, OneLive
<1>15. ClaimsAlone'
  <2> SUFFICES ASSUME NEW d \in Clients, Claiming(d)', login'[d].session \notin raced'
               PROVE  /\ \A t \in Tokens : Live(t)' /\ refresh'[t].session = login'[d].session => login'[d].pc = "revoke" /\ t = login'[d].token
                      /\ \A e \in Clients \ {d} : Claiming(e)' => login'[e].session # login'[d].session
    BY DEF ClaimsAlone
  <2>1. /\ Claiming(d) /\ login[d].session \notin raced /\ login'[d].pc = login[d].pc
        /\ login'[d].session = login[d].session /\ login'[d].token = login[d].token
    BY <1>6, <1>9 DEF ClaimsShrink
  <2>2. /\ \A t \in Tokens : Live(t) /\ refresh[t].session = login[d].session => login[d].pc = "revoke" /\ t = login[d].token
        /\ \A e \in Clients \ {d} : Claiming(e) => login[e].session # login[d].session
    BY <2>1 DEF TokenInv, ClaimsAlone
  <2>3. \A t \in Tokens : Live(t)' /\ refresh'[t].session = login'[d].session => login'[d].pc = "revoke" /\ t = login'[d].token
    BY <1>11, <1>12, <1>13, <2>1, <2>2
  <2>4. \A e \in Clients \ {d} : Claiming(e)' => login'[e].session # login'[d].session
    BY <1>9, <2>1, <2>2 DEF ClaimsShrink
  <2>. QED
    BY <2>3, <2>4
<1>16. SessionsSigned'
  <2>1. ASSUME NEW s, Signed(s) PROVE Signed(s)'
    BY <1>8, <2>1, SignedStays
  <2>2. ASSUME NEW t \in Tokens, Live(t)', NEW s, s = refresh'[t].session PROVE Signed(s)'
    BY <1>8, <1>11, <1>12, <2>1, <2>2 DEF TokenInv, SessionsSigned
  <2>3. ASSUME NEW d \in Clients, Claiming(d)', NEW s, s = login'[d].session PROVE Signed(s)'
    BY <1>13, <2>1, <2>3
  <2>. QED
    BY <2>2, <2>3 DEF SessionsSigned, Signed
<1>. QED
  BY <1>14, <1>15, <1>16 DEF TokenInv

(* A refresh begins: a token that another request holds makes the session  *)
(* a raced one.                                                            *)
LEMMA TokenClaimed ==
  ASSUME TokenInv, LoginTyped, NEW c \in Clients, NEW t \in Tokens, handleRefresh(c, t)
  PROVE  TokenInv'
<1>1. PICK s : s = refresh[t].session
  OBVIOUS
<1>2. Live(t)
  BY DEF handleRefresh, Active, Live
<1>3. PICK k : k = [pc |-> "revoke", id |-> refresh[t].id, token |-> t, session |-> s]
  OBVIOUS
<1>4. PICK m : m = Merged(k, Begun(refresh[t].id))
  OBVIOUS
<1>5. m.pc = "revoke" /\ m.token = t /\ m.session = s
  BY <1>3, <1>4 DEF Merged
<1>6. login' = [login EXCEPT ![c] = m]
  BY <1>1, <1>3, <1>4 DEF handleRefresh
<1>7. \A d \in Clients : login'[d] = IF d = c THEN m ELSE login[d]
  BY <1>6, RequestSet
<1>8. UNCHANGED <<refresh, access>> /\ raced \subseteq raced' /\ (Holders(t) # {} => s \in raced')
  BY <1>1 DEF handleRefresh
<1>9. login[c].pc = "idle"
  BY DEF handleRefresh
<1>10. \A u \in Tokens : Live(u)' <=> Live(u)
  BY <1>8 DEF Live
<1>11. \A d \in Clients : d # c => (Claiming(d)' <=> Claiming(d))
  BY <1>7 DEF Claiming
<1>12. ASSUME s \notin raced', NEW d \in Clients, d # c, Claiming(d) PROVE login[d].session # s
  <2> SUFFICES ASSUME login[d].session = s PROVE FALSE
    OBVIOUS
  <2>1. login[d].pc = "revoke" /\ t = login[d].token
    BY <1>1, <1>2, <1>8, <1>12 DEF TokenInv, ClaimsAlone
  <2>2. d \in Holders(t)
    BY <2>1 DEF Holders
  <2>. QED
    BY <1>8, <1>12, <2>2
<1>13. OneLive'
  BY <1>8, <1>10 DEF TokenInv, OneLive
<1>14. ClaimsAlone'
  <2> SUFFICES ASSUME NEW d \in Clients, Claiming(d)', login'[d].session \notin raced'
               PROVE  /\ \A u \in Tokens : Live(u)' /\ refresh'[u].session = login'[d].session => login'[d].pc = "revoke" /\ u = login'[d].token
                      /\ \A e \in Clients \ {d} : Claiming(e)' => login'[e].session # login'[d].session
    BY DEF ClaimsAlone
  <2>1. CASE d = c
    <3>1. login'[d] = m /\ s \notin raced'
      BY <1>5, <1>7, <2>1
    <3>2. \A u \in Tokens : Live(u) /\ refresh[u].session = s => u = t
      BY <1>1, <1>2, <1>8, <3>1 DEF TokenInv, OneLive
    <3>3. \A e \in Clients \ {d} : Claiming(e)' => login'[e] = login[e] /\ login[e].session # s
      BY <1>7, <1>11, <1>12, <2>1, <3>1
    <3>. QED
      BY <1>5, <1>8, <1>10, <3>1, <3>2, <3>3
  <2>2. CASE d # c
    <3>1. login'[d] = login[d] /\ Claiming(d) /\ login[d].session \notin raced
      BY <1>7, <1>8, <1>11, <2>2
    <3>2. /\ \A u \in Tokens : Live(u) /\ refresh[u].session = login[d].session => login[d].pc = "revoke" /\ u = login[d].token
          /\ \A e \in Clients \ {d} : Claiming(e) => login[e].session # login[d].session
      BY <3>1 DEF TokenInv, ClaimsAlone
    <3>3. login[d].session # s
      <4> SUFFICES ASSUME login[d].session = s PROVE FALSE
        OBVIOUS
      <4>1. s \notin raced'
        BY <3>1
      <4>. QED
        BY <1>12, <2>2, <3>1, <4>1
    <3>4. \A e \in Clients \ {d} : Claiming(e)' => login'[e].session # login'[d].session
      BY <1>5, <1>7, <1>11, <3>1, <3>2, <3>3
    <3>. QED
      BY <1>8, <1>10, <3>1, <3>2, <3>4
  <2>. QED
    BY <2>1, <2>2
<1>15. SessionsSigned'
  <2>1. ASSUME NEW x, Signed(x) PROVE Signed(x)'
    BY <1>8, <2>1, SignedStays
  <2>2. ASSUME NEW u \in Tokens, Live(u)', NEW x, x = refresh'[u].session PROVE Signed(x)'
    BY <1>8, <1>10, <2>1, <2>2 DEF TokenInv, SessionsSigned
  <2>3. Signed(s)
    BY <1>1, <1>2 DEF TokenInv, SessionsSigned
  <2>4. ASSUME NEW d \in Clients, Claiming(d)', NEW x, x = login'[d].session PROVE Signed(x)'
    BY <1>5, <1>7, <1>11, <2>1, <2>3, <2>4 DEF TokenInv, SessionsSigned
  <2>. QED
    BY <2>2, <2>4 DEF SessionsSigned, Signed
<1>. QED
  BY <1>13, <1>14, <1>15 DEF TokenInv

(* A row that is revoked, or made in the place of one that is gone, is     *)
(* dead.                                                                   *)
LEMMA RevokedIsDead ==
  ASSUME RefreshShape, NEW t, markRevoked(t)
  PROVE  /\ \A u \in Tokens : Live(u)' => Live(u) /\ refresh'[u] = refresh[u]
         /\ t \in Tokens => ~ Live(t)'
<1>1. PICK row : row = IF refresh[t] = NoDoc
                       THEN [tenant |-> "", id |-> Identity("", "", "", {}), expires |-> 0, revoked |-> TRUE, session |-> 0]
                       ELSE [refresh[t] EXCEPT !.revoked = TRUE]
  OBVIOUS
<1>2. refresh' = [refresh EXCEPT ![t] = row]
  BY <1>1 DEF markRevoked
<1>3. \A u \in Tokens : refresh'[u] = IF u = t THEN row ELSE refresh[u]
  <2>1. refresh' = [u \in Tokens |-> IF u = t THEN row ELSE refresh[u]]
    BY <1>2 DEF RefreshShape
  <2>. QED
    BY <2>1
<1>4. t \in Tokens => row.revoked
  <2>1. CASE refresh[t] = NoDoc
    BY <1>1, <2>1
  <2>2. CASE refresh[t] # NoDoc
    BY <1>1, <2>2 DEF RefreshShape
  <2>. QED
    BY <2>1, <2>2
<1>. QED
  BY <1>3, <1>4 DEF Live

(* The row that was presented is revoked.                                  *)
LEMMA TokenSpent ==
  ASSUME TokenInv, LoginTyped, RefreshShape, NEW c \in Clients, RefreshRevoke(c)
  PROVE  TokenInv'
<1>1. PICK l : l = login[c]
  OBVIOUS
<1>2. l.pc = "revoke" /\ "pc" \in DOMAIN l
  BY <1>1 DEF RefreshRevoke, LoginTyped, LoginShape
<1>3. PICK m : m = [l EXCEPT !.pc = "issue"]
  OBVIOUS
<1>4. m.pc = "issue" /\ m.session = l.session
  BY <1>2, <1>3
<1>5. login' = [login EXCEPT ![c] = m]
  BY <1>1, <1>3 DEF RefreshRevoke, LoginTyped
<1>6. \A d \in Clients : login'[d] = IF d = c THEN m ELSE login[d]
  BY <1>5, RequestSet
<1>7. PICK t : t = login[c].token
  OBVIOUS
<1>8. markRevoked(t) /\ UNCHANGED <<access, raced>>
  BY <1>7 DEF RefreshRevoke
<1>9. /\ \A u \in Tokens : Live(u)' => Live(u) /\ refresh'[u] = refresh[u]
      /\ t \in Tokens => ~ Live(t)'
  BY <1>8, RevokedIsDead
<1>10. \A d \in Clients : (Claiming(d)' <=> Claiming(d)) /\ (Claiming(d) => login'[d].session = login[d].session)
  BY <1>1, <1>2, <1>4, <1>6 DEF Claiming
<1>11. OneLive'
  BY <1>8, <1>9 DEF TokenInv, OneLive
<1>12. ClaimsAlone'
  <2> SUFFICES ASSUME NEW d \in Clients, Claiming(d)', login'[d].session \notin raced'
               PROVE  /\ \A u \in Tokens : Live(u)' /\ refresh'[u].session = login'[d].session => login'[d].pc = "revoke" /\ u = login'[d].token
                      /\ \A e \in Clients \ {d} : Claiming(e)' => login'[e].session # login'[d].session
    BY DEF ClaimsAlone
  <2>1. Claiming(d) /\ login'[d].session = login[d].session /\ login[d].session \notin raced
    BY <1>8, <1>10
  <2>2. /\ \A u \in Tokens : Live(u) /\ refresh[u].session = login[d].session => login[d].pc = "revoke" /\ u = login[d].token
        /\ \A e \in Clients \ {d} : Claiming(e) => login[e].session # login[d].session
    BY <2>1 DEF TokenInv, ClaimsAlone
  <2>3. \A e \in Clients \ {d} : Claiming(e)' => login'[e].session # login'[d].session
    BY <1>10, <2>1, <2>2
  <2>4. ASSUME NEW u \in Tokens, Live(u)', refresh'[u].session = login'[d].session
        PROVE  login'[d].pc = "revoke" /\ u = login'[d].token
    <3>1. login[d].pc = "revoke" /\ u = login[d].token
      BY <1>9, <2>1, <2>2, <2>4
    <3>2. d # c
      BY <1>7, <1>9, <2>4, <3>1
    <3>. QED
      BY <1>6, <3>1, <3>2
  <2>. QED
    BY <2>3, <2>4
<1>13. SessionsSigned'
  <2>1. ASSUME NEW u \in Tokens, Live(u)', NEW x, x = refresh'[u].session PROVE Signed(x)'
    BY <1>8, <1>9, <2>1 DEF TokenInv, SessionsSigned, Signed
  <2>2. ASSUME NEW d \in Clients, Claiming(d)', NEW x, x = login'[d].session PROVE Signed(x)'
    BY <1>8, <1>10, <2>2 DEF TokenInv, SessionsSigned, Signed
  <2>. QED
    BY <2>1, <2>2 DEF SessionsSigned, Signed
<1>. QED
  BY <1>11, <1>12, <1>13 DEF TokenInv

(* The successor is stored: the session had no live row.                   *)
LEMMA TokenSucceeds ==
  ASSUME TokenInv, LoginTyped, RefreshShape, NEW c \in Clients, RefreshIssue(c)
  PROVE  TokenInv'
<1>1. PICK n : n = NextToken
  OBVIOUS
<1>2. n \in Tokens /\ refresh[n] = NoDoc
  BY <1>1, NextIsUnused DEF RefreshIssue, Unused
<1>3. PICK l : l = login[c]
  OBVIOUS
<1>4. l.pc = "issue" /\ "pc" \in DOMAIN l /\ Claiming(c)
  BY <1>3 DEF RefreshIssue, LoginTyped, LoginShape, Claiming
<1>5. PICK s : s = l.session
  OBVIOUS
<1>6. PICK row : row = RefreshRow(l.id, s)
  OBVIOUS
<1>7. row.session = s /\ ~ row.revoked
  BY <1>6 DEF RefreshRow
<1>8. refresh' = [refresh EXCEPT ![n] = row] /\ UNCHANGED <<access, raced>>
  BY <1>1, <1>3, <1>5, <1>6 DEF RefreshIssue
<1>9. \A t \in Tokens : refresh'[t] = IF t = n THEN row ELSE refresh[t]
  <2>1. refresh' = [t \in Tokens |-> IF t = n THEN row ELSE refresh[t]]
    BY <1>8 DEF RefreshShape
  <2>. QED
    BY <2>1
<1>10. ClaimsShrink /\ ~ Claiming(c)'
  <2>1. PICK m : m = [l EXCEPT !.pc = "check", !.token = n]
    OBVIOUS
  <2>2. m.pc = "check"
    BY <1>4, <2>1
  <2>3. login' = [login EXCEPT ![c] = m]
    BY <1>1, <1>3, <2>1 DEF RefreshIssue, LoginTyped
  <2>4. \A d \in Clients : login'[d] = IF d = c THEN m ELSE login[d]
    BY <2>3, RequestSet
  <2>. QED
    BY <2>2, <2>3, <2>4, ClaimEnds DEF Claiming
<1>11. \A t \in Tokens : t # n /\ Live(t)' => Live(t) /\ refresh'[t] = refresh[t]
  BY <1>9 DEF Live
<1>12. refresh'[n].session = s
  BY <1>2, <1>7, <1>9
<1>13. ASSUME s \notin raced
       PROVE  /\ \A t \in Tokens : Live(t) => refresh[t].session # s
              /\ \A d \in Clients \ {c} : Claiming(d) => login[d].session # s
  BY <1>3, <1>4, <1>5, <1>13 DEF TokenInv, ClaimsAlone
<1>14. OneLive'
  <2> SUFFICES ASSUME NEW t \in Tokens, NEW u \in Tokens, Live(t)', Live(u)', refresh'[t].session = refresh'[u].session,
                      refresh'[t].session \notin raced
               PROVE  t = u
    BY <1>8 DEF OneLive
  <2>. QED
    BY <1>11, <1>12, <1>13 DEF TokenInv, OneLive
<1>15. ClaimsAlone'
  <2> SUFFICES ASSUME NEW d \in Clients, Claiming(d)', login'[d].session \notin raced'
               PROVE  /\ \A t \in Tokens : Live(t)' /\ refresh'[t].session = login'[d].session => login'[d].pc = "revoke" /\ t = login'[d].token
                      /\ \A e \in Clients \ {d} : Claiming(e)' => login'[e].session # login'[d].session
    BY DEF ClaimsAlone
  <2>1. /\ Claiming(d) /\ d # c /\ login[d].session \notin raced /\ login'[d].pc = login[d].pc
        /\ login'[d].session = login[d].session /\ login'[d].token = login[d].token
    BY <1>8, <1>10 DEF ClaimsShrink
  <2>2. /\ \A t \in Tokens : Live(t) /\ refresh[t].session = login[d].session => login[d].pc = "revoke" /\ t = login[d].token
        /\ \A e \in Clients \ {d} : Claiming(e) => login[e].session # login[d].session
    BY <2>1 DEF TokenInv, ClaimsAlone
  <2>3. login[d].session # s
    BY <1>13, <2>1
  <2>4. \A t \in Tokens : Live(t)' /\ refresh'[t].session = login'[d].session => login'[d].pc = "revoke" /\ t = login'[d].token
    BY <1>11, <1>12, <2>1, <2>2, <2>3
  <2>5. \A e \in Clients \ {d} : Claiming(e)' => login'[e].session # login'[d].session
    BY <1>10, <2>1, <2>2 DEF ClaimsShrink
  <2>. QED
    BY <2>4, <2>5
<1>16. SessionsSigned'
  <2>1. Signed(s)
    BY <1>3, <1>4, <1>5 DEF TokenInv, SessionsSigned
  <2>2. ASSUME NEW t \in Tokens, Live(t)', NEW x, x = refresh'[t].session PROVE Signed(x)'
    <3>1. Signed(x)
      BY <1>11, <1>12, <2>1, <2>2 DEF TokenInv, SessionsSigned
    <3>. QED
      BY <1>8, <3>1 DEF Signed
  <2>3. ASSUME NEW d \in Clients, Claiming(d)', NEW x, x = login'[d].session PROVE Signed(x)'
    <3>1. Signed(x)
      BY <1>10, <2>3 DEF ClaimsShrink, TokenInv, SessionsSigned
    <3>. QED
      BY <1>8, <3>1 DEF Signed
  <2>. QED
    BY <2>2, <2>3 DEF SessionsSigned, Signed
<1>. QED
  BY <1>14, <1>15, <1>16 DEF TokenInv

--------------------------------------------------------------------------
(* What a request remembers                                                *)

\* Accounts that are disabled stay so, and so do tenants that are shut.
AccountsStill == \A id : Disabled(id) => Disabled(id)'
TenantsStill == \A t : ~ checkTenantStatus(t) => ~ checkTenantStatus(t)'

(* A request that stands still stays sound.                                *)
LEMMA SoundStill ==
  ASSUME NEW l, Sound(l), Disabled(l.id) => Disabled(l.id)',
         ~ checkTenantStatus(l.id.tenant) => ~ checkTenantStatus(l.id.tenant)'
  PROVE  Sound(l)'
BY DEF Sound, Fields

(* There is nothing to say of a request that is over.                      *)
LEMMA NoRequestSound == Sound(NoRequest) /\ Sound(NoRequest)' /\ NoRequest.pc = "idle"
<1>1. NoRequest.pc = "idle" /\ DOMAIN NoRequest = {"pc"}
  BY DEF NoRequest
<1>. QED
  BY <1>1 DEF Sound, Fields

(* The fields of a request that goes to its next step.                     *)
LEMMA Moved ==
  ASSUME NEW l, Fields(l), l.pc # "idle", NEW p, NEW m, m = [l EXCEPT !.pc = p]
  PROVE  /\ DOMAIN m = DOMAIN l /\ m.pc = p /\ m.id = l.id /\ m.off = l.off /\ m.shut = l.shut
         /\ "token" \in DOMAIN l => m.token = l.token
         /\ "session" \in DOMAIN l => m.session = l.session
         /\ "start" \in DOMAIN l => m.start = l.start
<1>1. l # NoRequest
  BY NoRequestSound
<1>2. {"pc", "id", "off", "shut"} \subseteq DOMAIN l
  BY <1>1 DEF Fields
<1>. QED
  BY <1>2

(* The fields of a request that begins.                                    *)
LEMMA BegunFields ==
  ASSUME NEW k, "off" \notin DOMAIN k, "shut" \notin DOMAIN k, NEW id, NEW m, m = Merged(k, Begun(id))
  PROVE  /\ DOMAIN m = DOMAIN k \cup {"off", "shut"} /\ \A f \in DOMAIN k : m[f] = k[f]
         /\ m.off => Disabled(id)
         /\ m.shut => ~ checkTenantStatus(id.tenant)
<1>1. PICK b : b = Begun(id)
  OBVIOUS
<1>2. DOMAIN b = {"off", "shut"} /\ b.off = Disabled(id) /\ b.shut = ~ checkTenantStatus(id.tenant)
  BY <1>1 DEF Begun
<1>3. DOMAIN m = DOMAIN k \cup {"off", "shut"} /\ (\A f \in DOMAIN k : m[f] = k[f]) /\ m.off = b.off /\ m.shut = b.shut
  BY <1>1, <1>2 DEF Merged
<1>. QED
  BY <1>2, <1>3

\* What a step that moves one request finds.
Busy == topic \in {"session", "signin"} /\ topic' = topic /\ AccountsStill /\ TenantsStill

(* A request takes the place of another.                                   *)
LEMMA SoundSet ==
  ASSUME LoginTyped, LoginsSound, Busy, NEW c \in Clients, NEW m, login' = [login EXCEPT ![c] = m], Sound(m)'
  PROVE  LoginsSound'
<1>1. \A d \in Clients : login'[d] = IF d = c THEN m ELSE login[d]
  BY RequestSet
<1>2. ASSUME NEW d \in Clients, NEW l, l = login'[d] PROVE Sound(l)'
  <2>1. CASE d = c
    BY <1>1, <1>2, <2>1
  <2>2. CASE d # c
    <3>1. Sound(l)
      BY <1>1, <1>2, <2>2 DEF LoginsSound
    <3>2. Disabled(l.id) => Disabled(l.id)'
      BY DEF Busy, AccountsStill
    <3>3. ~ checkTenantStatus(l.id.tenant) => ~ checkTenantStatus(l.id.tenant)'
      BY DEF Busy, TenantsStill
    <3>. QED
      BY <3>1, <3>2, <3>3, SoundStill
  <2>. QED
    BY <2>1, <2>2
<1>. QED
  BY <1>2 DEF LoginsSound, Busy

(* Accounts and tenants that do not change stay as they are.               *)
LEMMA Unchanging ==
  ASSUME UNCHANGED <<users, registry>>
  PROVE  AccountsStill /\ TenantsStill
BY DEF AccountsStill, TenantsStill, Disabled, Accounts, InTenant, Stored, UserDocs, Field, checkTenantStatus, Slugs

(* The two together, for a request that claims no token.                   *)
LEMMA RequestMoves ==
  ASSUME LoginTyped, LoginsSound, TokenInv, Busy, RowsShrink, NEW c \in Clients, NEW m,
         login' = [login EXCEPT ![c] = m], Sound(m)', m.pc \notin {"revoke", "issue"}
  PROVE  LoginsSound' /\ TokenInv'
BY SoundSet, ClaimEnds, TokensShrink

(* Accounts and tenants that do not change, for a request as it is.        *)
LEMMA SoundNow ==
  ASSUME UNCHANGED <<users, registry>>, NEW m, Sound(m)
  PROVE  Sound(m)'
<1>1. Disabled(m.id) => Disabled(m.id)'
  BY Unchanging DEF AccountsStill
<1>2. ~ checkTenantStatus(m.id.tenant) => ~ checkTenantStatus(m.id.tenant)'
  BY Unchanging DEF TenantsStill
<1>. QED
  BY <1>1, <1>2, SoundStill

(* Rows that do not change do not come alive.                              *)
LEMMA RowsStill ==
  ASSUME UNCHANGED refresh, raced \subseteq raced', access \subseteq access'
  PROVE  RowsShrink
BY DEF RowsShrink, Live

(* A request's step, with the accounts and the tenants as they are.        *)
LEMMA RequestStep ==
  ASSUME LoginTyped, LoginsSound, TokenInv, topic \in {"session", "signin"}, topic' = topic, UNCHANGED <<users, registry>>,
         RowsShrink, NEW c \in Clients, NEW m, login' = [login EXCEPT ![c] = m], Sound(m), m.pc \notin {"revoke", "issue"}
  PROVE  LoginsSound' /\ TokenInv'
<1>1. Busy
  BY Unchanging DEF Busy
<1>2. Sound(m)'
  BY SoundNow
<1>. QED
  BY <1>1, <1>2, RequestMoves

(* A local password logs in to an account that is enabled.                 *)
LEMMA EnabledOnly ==
  ASSUME OneAccount, topic = "session", NEW method \in {"local", "ldap", "anonymous"}, NEW name, NEW tenant, NEW password,
         NEW id \in Authenticate(method, name, tenant, password)
  PROVE  Disabled(id) => id.method = "ldap"
<1>1. ASSUME NEW d \in UserDocs(Accounts(id.tenant), id.sub, id.method)
      PROVE  id.method = "ldap" \/ (d = users[1] /\ id.method = "local")
  <2>1. PICK v \in Stored : d = users[v]
    BY <1>1 DEF UserDocs, Accounts, InTenant
  <2>2. Seeded(v, users[v])
    BY <2>1 DEF OneAccount
  <2>3. Field(d, "method", "") = id.method
    BY <1>1 DEF UserDocs
  <2>. QED
    BY <2>1, <2>2, <2>3 DEF Seeded
<1>2. CASE method = "anonymous"
  <2>1. id.method = "anonymous"
    BY <1>2 DEF Authenticate, AuthenticateAnonymous, Identity
  <2>. QED
    BY <1>1, <2>1 DEF Disabled
<1>3. CASE method = "ldap"
  <2>1. id \in AuthenticateLDAP(name, tenant, password)
    BY <1>3 DEF Authenticate
  <2>2. PICK n : id = Identity(name, "ldap", tenant, filterGroups(Directory[n].member))
    BY <2>1, Zenon DEF AuthenticateLDAP
  <2>. QED
    BY <2>2 DEF Identity
<1>4. CASE method = "local"
  <2>1. id \in AuthenticateLocal(name, tenant, password)
    BY <1>4 DEF Authenticate
  <2>2. PICK d \in UserDocs(Accounts(tenant), name, "local") : Field(d, "enabled", TRUE) /\ id = Identity(name, "local", tenant, Field(d, "groups", {}))
    BY <2>1 DEF AuthenticateLocal
  <2>3. id.tenant = tenant /\ id.sub = name /\ id.method = "local"
    BY <2>2 DEF Identity
  <2>4. d = users[1]
    BY <1>1, <2>2, <2>3
  <2>. QED
    BY <1>1, <2>2, <2>3, <2>4 DEF Disabled
<1>. QED
  BY <1>2, <1>3, <1>4

(* A password login begins.                                                *)
LEMMA LoginSound ==
  ASSUME LoginTyped, LoginsSound, TokenInv, OneAccount, topic = "session", topic' = topic, UNCHANGED users,
         NEW c \in Clients, NEW method \in {"local", "ldap", "anonymous"}, NEW name, NEW tenant, NEW password,
         handleLogin(c, method, name, tenant, password)
  PROVE  LoginsSound' /\ TokenInv'
<1>1. PICK id \in Authenticate(method, name, tenant, password) :
         login' = [login EXCEPT ![c] = Merged([pc |-> "tenant", id |-> id], Begun(id))]
  BY DEF handleLogin
<1>2. PICK k : k = [pc |-> "tenant", id |-> id]
  OBVIOUS
<1>3. PICK m : m = Merged(k, Begun(id))
  OBVIOUS
<1>4. DOMAIN k = {"pc", "id"} /\ k.pc = "tenant" /\ k.id = id
  BY <1>2
<1>5. /\ DOMAIN m = DOMAIN k \cup {"off", "shut"} /\ \A f \in DOMAIN k : m[f] = k[f]
      /\ m.off => Disabled(id)
      /\ m.shut => ~ checkTenantStatus(id.tenant)
  <2>1. "off" \notin DOMAIN k /\ "shut" \notin DOMAIN k
    BY <1>4
  <2>. QED
    BY <1>3, <2>1, BegunFields, Zenon
<1>6. DOMAIN m = {"pc", "id", "off", "shut"} /\ m.pc = "tenant" /\ m.id = id
  BY <1>4, <1>5
<1>7. m.off => m.id.method = "ldap"
  BY <1>5, <1>6, EnabledOnly
<1>8. Sound(m)
  BY <1>5, <1>6, <1>7 DEF Sound, Fields
<1>9. login' = [login EXCEPT ![c] = m] /\ UNCHANGED <<refresh, access, registry, raced>>
  BY <1>1, <1>2, <1>3 DEF handleLogin
<1>. QED
  BY <1>6, <1>8, <1>9, RowsStill, RequestStep

(* A refresh begins.                                                       *)
LEMMA RefreshSound ==
  ASSUME LoginTyped, LoginsSound, TokenInv, topic = "session", topic' = topic, UNCHANGED users,
         NEW c \in Clients, NEW t \in Tokens, handleRefresh(c, t)
  PROVE  LoginsSound' /\ TokenInv'
<1>1. PICK id : id = refresh[t].id
  OBVIOUS
<1>2. PICK k : k = [pc |-> "revoke", id |-> id, token |-> t, session |-> refresh[t].session]
  OBVIOUS
<1>3. PICK m : m = Merged(k, Begun(id))
  OBVIOUS
<1>4. DOMAIN k = {"pc", "id", "token", "session"} /\ k.pc = "revoke" /\ k.id = id
  BY <1>2
<1>5. /\ DOMAIN m = DOMAIN k \cup {"off", "shut"} /\ \A f \in DOMAIN k : m[f] = k[f]
      /\ m.off => Disabled(id)
  <2>1. "off" \notin DOMAIN k /\ "shut" \notin DOMAIN k
    BY <1>4
  <2>. QED
    BY <1>3, <2>1, BegunFields, Zenon
<1>6. DOMAIN m = {"pc", "id", "token", "session", "off", "shut"} /\ m.pc = "revoke" /\ m.id = id
  BY <1>4, <1>5
<1>7. Sound(m)
  BY <1>5, <1>6 DEF Sound, Fields
<1>8. login' = [login EXCEPT ![c] = m] /\ UNCHANGED registry
  BY <1>1, <1>2, <1>3 DEF handleRefresh
<1>9. Busy
  BY <1>8, Unchanging DEF Busy
<1>10. Sound(m)'
  BY <1>7, <1>8, SoundNow
<1>. QED
  BY <1>8, <1>9, <1>10, SoundSet, TokenClaimed

(* A logout begins.                                                        *)
LEMMA LogoutSound ==
  ASSUME LoginTyped, LoginsSound, TokenInv, topic = "session", topic' = topic, UNCHANGED users,
         NEW c \in Clients, NEW t, handleLogout(c, t)
  PROVE  LoginsSound' /\ TokenInv'
<1>1. PICK m : m = [pc |-> "logout", token |-> t, id |-> refresh[t].id, off |-> FALSE, shut |-> FALSE]
  OBVIOUS
<1>2. DOMAIN m = {"pc", "token", "id", "off", "shut"} /\ m.pc = "logout"
  BY <1>1
<1>3. Sound(m)
  BY <1>2 DEF Sound, Fields
<1>4. login' = [login EXCEPT ![c] = m] /\ UNCHANGED <<refresh, access, registry>> /\ raced \subseteq raced'
  BY <1>1 DEF handleLogout
<1>. QED
  BY <1>2, <1>3, <1>4, RowsStill, RequestStep

(* A revocation brings no row to life.                                     *)
LEMMA RevokeShrinks ==
  ASSUME RefreshShape, NEW t, markRevoked(t), UNCHANGED <<access, raced>>
  PROVE  RowsShrink
BY RevokedIsDead DEF RowsShrink

(* A request is over.                                                      *)
LEMMA OverSound ==
  ASSUME LoginTyped, LoginsSound, TokenInv, topic \in {"session", "signin"}, topic' = topic, UNCHANGED <<users, registry>>,
         RowsShrink, NEW c \in Clients, login' = [login EXCEPT ![c] = NoRequest]
  PROVE  LoginsSound' /\ TokenInv'
BY NoRequestSound, RequestStep

(* A request goes on.                                                      *)
LEMMA OnSound ==
  ASSUME LoginTyped, LoginsSound, NEW c \in Clients, login[c].pc # "idle",
         NEW p, NEW l, l = login[c], NEW m, m = [l EXCEPT !.pc = p]
  PROVE  /\ Sound(l) /\ DOMAIN m = DOMAIN l /\ m.pc = p /\ m.id = l.id /\ m.off = l.off /\ m.shut = l.shut
         /\ "start" \in DOMAIN l => m.start = l.start
<1>1. Sound(l)
  BY DEF LoginsSound
<1>2. Fields(l) /\ l.pc # "idle"
  BY <1>1 DEF Sound
<1>. QED
  BY <1>1, <1>2, Moved

(* A request goes on whose check was not answered.                         *)
LEMMA OnCleared ==
  ASSUME NEW l, Sound(l), l.pc # "idle", NEW p, NEW n, n = [l EXCEPT !.pc = p],
         NEW m, m = [n EXCEPT !.shut = FALSE] \/ m = [n EXCEPT !.off = FALSE]
  PROVE  /\ DOMAIN m = DOMAIN l /\ m.pc = p /\ m.id = l.id /\ ("start" \in DOMAIN l => m.start = l.start)
         /\ m = [n EXCEPT !.shut = FALSE] => m.off = l.off /\ m.shut = FALSE
         /\ m = [n EXCEPT !.off = FALSE] => m.shut = l.shut /\ m.off = FALSE
<1>1. l # NoRequest
  BY NoRequestSound DEF LoginsSound
<1>2. {"pc", "id", "off", "shut"} \subseteq DOMAIN l
  BY <1>1 DEF Sound, Fields
<1>. QED
  BY <1>1, <1>2

(* The later steps of logins, refreshes and logouts.                       *)
LEMMA SessionSound ==
  ASSUME LoginTyped, RefreshShape, LoginsSound, TokenInv, topic \in {"session", "signin"}, topic' = topic, UNCHANGED users,
         NEW c \in Clients, LoginNext(c)
  PROVE  LoginsSound' /\ TokenInv'
<1>0. UNCHANGED registry
  BY DEF LoginNext, LoginTenant, PassTenant, signSession, Respond, Crash, RefreshRevoke, RefreshIssue, RefreshCheck, RefreshSign, Revoke
<1>1. Busy
  BY <1>0, Unchanging DEF Busy
<1>2. PICK l : l = login[c]
  OBVIOUS
<1>3. ASSUME NEW p, NEW m, m = [l EXCEPT !.pc = p], l.pc # "idle"
      PROVE  /\ Sound(l) /\ DOMAIN m = DOMAIN l /\ m.pc = p /\ m.id = l.id /\ m.off = l.off /\ m.shut = l.shut
             /\ "start" \in DOMAIN l => m.start = l.start
  BY <1>2, <1>3, OnSound
<1>4. CASE Respond(c) \/ Crash(c)
  <2>1. RowsShrink /\ login' = [login EXCEPT ![c] = NoRequest]
    BY <1>4, RowsStill DEF Respond, Crash
  <2>. QED
    BY <1>0, <2>1, OverSound
<1>5. CASE Revoke(c)
  <2>1. RowsShrink /\ login' = [login EXCEPT ![c] = NoRequest]
    BY <1>5, RevokeShrinks DEF Revoke
  <2>. QED
    BY <1>0, <2>1, OverSound
<1>6. CASE LoginTenant(c)
  <2>1. l.pc = "tenant" /\ RowsShrink
    BY <1>2, <1>6, RowsStill DEF LoginTenant, PassTenant
  <2>2. PICK m : m = [l EXCEPT !.pc = "sign"]
    OBVIOUS
  <2>6. PICK n : n = [l EXCEPT !.pc = "sign", !.shut = FALSE]
    OBVIOUS
  <2>3. \/ login' = [login EXCEPT ![c] = IF checkTenantStatus(l.id.tenant) THEN m ELSE NoRequest]
        \/ login' = [login EXCEPT ![c] = n]
    BY <1>2, <1>6, <2>2, <2>6 DEF LoginTenant, PassTenant
  <2>7. CASE login' = [login EXCEPT ![c] = n]
    <3>1. /\ Sound(l) /\ DOMAIN n = DOMAIN l /\ n.pc = "sign" /\ n.id = l.id /\ n.off = l.off /\ n.shut = FALSE
          /\ "start" \in DOMAIN l => n.start = l.start
      <4>1. Sound(l) /\ l.pc # "idle" /\ n = [m EXCEPT !.shut = FALSE]
        BY <1>2, <2>1, <2>2, <2>6 DEF LoginsSound
      <4>. QED
        BY <2>2, <4>1, OnCleared
    <3>2. l # NoRequest
      BY <2>1, NoRequestSound
    <3>3. Sound(n)
      BY <2>1, <3>1, <3>2 DEF Sound, Fields
    <3>. QED
      BY <1>0, <2>1, <2>7, <3>1, <3>3, RequestStep
  <2>4. CASE checkTenantStatus(l.id.tenant) /\ ~ login' = [login EXCEPT ![c] = n]
    <3>1. /\ Sound(l) /\ DOMAIN m = DOMAIN l /\ m.pc = "sign" /\ m.id = l.id /\ m.off = l.off /\ m.shut = l.shut
          /\ "start" \in DOMAIN l => m.start = l.start
      BY <1>3, <2>1, <2>2
    <3>2. l # NoRequest
      BY <2>1, NoRequestSound
    <3>3. Sound(m)
      BY <2>1, <2>4, <3>1, <3>2 DEF Sound, Fields
    <3>4. login' = [login EXCEPT ![c] = m]
      BY <2>3, <2>4
    <3>. QED
      BY <1>0, <2>1, <3>1, <3>3, <3>4, RequestStep
  <2>5. CASE ~ checkTenantStatus(l.id.tenant) /\ ~ login' = [login EXCEPT ![c] = n]
    BY <1>0, <2>1, <2>3, <2>5, OverSound
  <2>. QED
    BY <2>4, <2>5, <2>7
<1>7. CASE signSession(c)
  <2>1. l.pc = "sign"
    BY <1>2, <1>7 DEF signSession
  <2>2. PICK m : m = [l EXCEPT !.pc = "done"]
    OBVIOUS
  <2>3. login' = [login EXCEPT ![c] = m]
    BY <1>2, <1>7, <2>2 DEF signSession
  <2>4. /\ Sound(l) /\ DOMAIN m = DOMAIN l /\ m.pc = "done" /\ m.id = l.id /\ m.off = l.off /\ m.shut = l.shut
        /\ "start" \in DOMAIN l => m.start = l.start
    BY <1>3, <2>1, <2>2
  <2>5. l # NoRequest
    BY <2>1, NoRequestSound
  <2>6. Sound(m)
    BY <2>1, <2>4, <2>5 DEF Sound, Fields
  <2>7. Sound(m)'
    BY <1>0, <2>6, SoundNow
  <2>. QED
    BY <1>1, <1>7, <2>3, <2>7, SoundSet, TokenOpens
<1>8. CASE RefreshRevoke(c)
  <2>1. l.pc = "revoke"
    BY <1>2, <1>8 DEF RefreshRevoke
  <2>2. PICK m : m = [l EXCEPT !.pc = "issue"]
    OBVIOUS
  <2>3. login' = [login EXCEPT ![c] = m]
    BY <1>2, <1>8, <2>2 DEF RefreshRevoke, LoginTyped
  <2>4. Sound(l) /\ DOMAIN m = DOMAIN l /\ m.pc = "issue" /\ m.id = l.id /\ m.off = l.off /\ m.shut = l.shut
    BY <1>3, <2>1, <2>2
  <2>5. l # NoRequest
    BY <2>1, NoRequestSound
  <2>6. Sound(m)
    BY <2>1, <2>4, <2>5 DEF Sound, Fields
  <2>7. Sound(m)'
    BY <1>0, <2>6, SoundNow
  <2>. QED
    BY <1>1, <1>8, <2>3, <2>7, SoundSet, TokenSpent
<1>9. CASE RefreshIssue(c)
  <2>1. l.pc = "issue"
    BY <1>2, <1>9 DEF RefreshIssue
  <2>2. PICK n : n = NextToken
    OBVIOUS
  <2>3. PICK m : m = [l EXCEPT !.pc = "check", !.token = n]
    OBVIOUS
  <2>4. login' = [login EXCEPT ![c] = m]
    BY <1>2, <1>9, <2>2, <2>3 DEF RefreshIssue, LoginTyped
  <2>5. Sound(l) /\ l # NoRequest
    BY <1>2, <2>1, NoRequestSound DEF LoginsSound
  <2>6. DOMAIN l = {"pc", "id", "token", "session", "off", "shut"}
    BY <2>1, <2>5 DEF Sound, Fields
  <2>7. DOMAIN m = DOMAIN l /\ m.pc = "check" /\ m.id = l.id /\ m.off = l.off /\ m.shut = l.shut
    BY <2>3, <2>6
  <2>8. Sound(m)
    BY <2>1, <2>5, <2>6, <2>7 DEF Sound, Fields
  <2>9. Sound(m)'
    BY <1>0, <2>8, SoundNow
  <2>. QED
    BY <1>1, <1>9, <2>4, <2>9, SoundSet, TokenSucceeds
<1>10. CASE RefreshCheck(c)
  <2>1. l.pc = "check"
    BY <1>2, <1>10 DEF RefreshCheck
  <2>4. PICK m : m = [l EXCEPT !.pc = "resign"]
    OBVIOUS
  <2>5. PICK n : n = [l EXCEPT !.pc = "resign", !.off = FALSE]
    OBVIOUS
  <2>6. l # NoRequest
    BY <2>1, NoRequestSound
  <2>7. \/ markRevoked(l.token) /\ login' = [login EXCEPT ![c] = NoRequest] /\ UNCHANGED <<access, raced>>
        \/ ~ Disabled(l.id) /\ login' = [login EXCEPT ![c] = m] /\ UNCHANGED <<refresh, access, raced>>
        \/ login' = [login EXCEPT ![c] = n] /\ UNCHANGED <<refresh, access, raced>>
    BY <1>2, <1>10, <2>4, <2>5 DEF RefreshCheck, LoginTyped
  <2>8. CASE markRevoked(l.token) /\ login' = [login EXCEPT ![c] = NoRequest] /\ UNCHANGED <<access, raced>>
    <3>1. RowsShrink
      BY <2>8, RevokeShrinks
    <3>. QED
      BY <1>0, <2>8, <3>1, OverSound
  <2>9. CASE ~ Disabled(l.id) /\ login' = [login EXCEPT ![c] = m] /\ UNCHANGED <<refresh, access, raced>>
    <3>1. Sound(l) /\ DOMAIN m = DOMAIN l /\ m.pc = "resign" /\ m.id = l.id /\ m.off = l.off /\ m.shut = l.shut
      BY <1>3, <2>1, <2>4
    <3>2. Sound(m)
      BY <2>1, <2>6, <2>9, <3>1 DEF Sound, Fields
    <3>. QED
      BY <1>0, <2>9, <3>1, <3>2, RowsStill, RequestStep
  <2>10. CASE login' = [login EXCEPT ![c] = n] /\ UNCHANGED <<refresh, access, raced>>
    <3>1. Sound(l) /\ DOMAIN n = DOMAIN l /\ n.pc = "resign" /\ n.id = l.id /\ n.off = FALSE /\ n.shut = l.shut
      <4>1. Sound(l) /\ l.pc # "idle" /\ n = [m EXCEPT !.off = FALSE]
        BY <1>2, <2>1, <2>4, <2>5 DEF LoginsSound
      <4>. QED
        BY <2>4, <4>1, OnCleared
    <3>2. Sound(n)
      BY <2>1, <2>6, <3>1 DEF Sound, Fields
    <3>. QED
      BY <1>0, <2>10, <3>1, <3>2, RowsStill, RequestStep
  <2>. QED
    BY <2>7, <2>8, <2>9, <2>10
<1>11. CASE RefreshSign(c)
  <2>1. l.pc = "resign"
    BY <1>2, <1>11 DEF RefreshSign
  <2>2. PICK m : m = [l EXCEPT !.pc = "done"]
    OBVIOUS
  <2>3. login' = [login EXCEPT ![c] = m] /\ UNCHANGED <<refresh, raced>>
    BY <1>2, <1>11, <2>2 DEF RefreshSign, LoginTyped
  <2>4. access \subseteq access'
    BY <1>11 DEF RefreshSign, Sign
  <2>5. Sound(l) /\ DOMAIN m = DOMAIN l /\ m.pc = "done" /\ m.id = l.id /\ m.off = l.off /\ m.shut = l.shut
    BY <1>3, <2>1, <2>2
  <2>6. l # NoRequest
    BY <2>1, NoRequestSound
  <2>7. Sound(m)
    BY <2>1, <2>5, <2>6 DEF Sound, Fields
  <2>. QED
    BY <1>0, <2>3, <2>4, <2>5, <2>7, RowsStill, RequestStep
<1>. QED
  BY <1>4, <1>5, <1>6, <1>7, <1>8, <1>9, <1>10, <1>11 DEF LoginNext

(* A browser comes back: its cookie is that of the start that is answered. *)
LEMMA CallbackSound ==
  ASSUME LoginTyped, LoginsSound, TokenInv, CookieSound, topic = "signin", topic' = topic, UNCHANGED users,
         NEW c \in Clients, NEW g, handleOIDCCallback(c, "ann", g)
  PROVE  LoginsSound' /\ TokenInv'
<1>1. PICK org : org = IF cookie.org = "" THEN DefaultTenant ELSE cookie.org
  OBVIOUS
<1>2. PICK d \in {e \in codes : ~ e.answered} :
         LET o == IF cookie.org = "" THEN DefaultTenant ELSE cookie.org
             ids == IF decodes(cookie) /\ cookie.state = d.state
                    THEN ExchangeAndVerify(d, cookie.state, "ann", g, o) ELSE {}
         IN  login' = [login EXCEPT ![c] =
                 IF ids = {} THEN @
                 ELSE LET id == CHOOSE i \in ids : TRUE
                      IN  Merged([pc |-> "oidctenant", id |-> id, start |-> d], Begun(id))]
  BY Zenon DEF handleOIDCCallback
<1>3. PICK ids : ids = IF decodes(cookie) /\ cookie.state = d.state
                       THEN ExchangeAndVerify(d, cookie.state, "ann", g, org) ELSE {}
  OBVIOUS
<1>4. login' = [login EXCEPT ![c] =
                  IF ids = {} THEN @
                  ELSE LET id == CHOOSE i \in ids : TRUE
                       IN  Merged([pc |-> "oidctenant", id |-> id, start |-> d], Begun(id))]
  BY <1>1, <1>2, <1>3
<1>5. RowsShrink /\ UNCHANGED registry /\ login[c].pc = "idle"
  BY RowsStill DEF handleOIDCCallback
<1>6. CASE ids = {}
  <2>1. PICK l : l = login[c]
    OBVIOUS
  <2>2. login' = [login EXCEPT ![c] = l]
    BY <1>4, <1>6, <2>1
  <2>3. Sound(l) /\ l.pc = "idle"
    BY <1>5, <2>1 DEF LoginsSound
  <2>. QED
    BY <1>5, <2>2, <2>3, RequestStep
<1>7. CASE ids # {}
  <2>1. PICK id : id = CHOOSE i \in ids : TRUE
    OBVIOUS
  <2>2. id \in ids
    BY <1>7, <2>1
  <2>3. decodes(cookie) /\ cookie.state = d.state /\ id \in ExchangeAndVerify(d, cookie.state, "ann", g, org)
    BY <1>3, <2>2
  <2>4. id = Identity("ann", "oidc", org, g) /\ cookie # NoDoc
    BY <2>3 DEF ExchangeAndVerify, decodes
  <2>5. id.tenant = org /\ id.method = "oidc"
    BY <2>4 DEF Identity
  <2>6. d.org = cookie.org
    BY <1>2, <2>3, <2>4 DEF CookieSound
  <2>7. PICK k : k = [pc |-> "oidctenant", id |-> id, start |-> d]
    OBVIOUS
  <2>8. DOMAIN k = {"pc", "id", "start"} /\ k.pc = "oidctenant" /\ k.id = id /\ k.start = d
    BY <2>7
  <2>9. PICK m : m = Merged(k, Begun(id))
    OBVIOUS
  <2>10. /\ DOMAIN m = DOMAIN k \cup {"off", "shut"} /\ \A f \in DOMAIN k : m[f] = k[f]
         /\ m.off => Disabled(id)
         /\ m.shut => ~ checkTenantStatus(id.tenant)
    <3>1. "off" \notin DOMAIN k /\ "shut" \notin DOMAIN k
      BY <2>8
    <3>. QED
      BY <2>9, <3>1, BegunFields, Zenon
  <2>11. DOMAIN m = {"pc", "id", "start", "off", "shut"} /\ m.pc = "oidctenant" /\ m.id = id /\ m.start = d
    BY <2>8, <2>10
  <2>12. Sound(m)
    BY <1>1, <2>5, <2>6, <2>10, <2>11 DEF Sound, Fields
  <2>13. login' = [login EXCEPT ![c] = m]
    BY <1>4, <1>7, <2>1, <2>7, <2>9
  <2>. QED
    BY <1>5, <2>11, <2>12, <2>13, RequestStep
<1>. QED
  BY <1>6, <1>7

(* The tenant of a sign-in is looked at.                                   *)
LEMMA SignInTenantSound ==
  ASSUME LoginTyped, LoginsSound, TokenInv, topic = "signin", topic' = topic, UNCHANGED users,
         NEW c \in Clients, OIDCTenant(c)
  PROVE  LoginsSound' /\ TokenInv'
<1>1. PICK l : l = login[c]
  OBVIOUS
<1>2. l.pc = "oidctenant" /\ RowsShrink /\ UNCHANGED registry
  BY <1>1, RowsStill DEF OIDCTenant, PassTenant
<1>3. PICK m : m = [l EXCEPT !.pc = "provision"]
  OBVIOUS
<1>7. PICK n : n = [l EXCEPT !.pc = "provision", !.shut = FALSE]
  OBVIOUS
<1>4. \/ login' = [login EXCEPT ![c] = IF checkTenantStatus(l.id.tenant) THEN m ELSE NoRequest]
      \/ login' = [login EXCEPT ![c] = n]
  BY <1>1, <1>3, <1>7 DEF OIDCTenant, PassTenant
<1>8. CASE login' = [login EXCEPT ![c] = n]
  <2>1. /\ Sound(l) /\ DOMAIN n = DOMAIN l /\ n.pc = "provision" /\ n.id = l.id /\ n.off = l.off /\ n.shut = FALSE
        /\ "start" \in DOMAIN l => n.start = l.start
    <3>1. Sound(l) /\ l.pc # "idle" /\ n = [m EXCEPT !.shut = FALSE]
      BY <1>1, <1>2, <1>3, <1>7 DEF LoginsSound
    <3>. QED
      BY <1>3, <3>1, OnCleared
  <2>2. l # NoRequest
    BY <1>2, NoRequestSound
  <2>3. Sound(n)
    BY <1>2, <2>1, <2>2 DEF Sound, Fields
  <2>. QED
    BY <1>2, <1>8, <2>1, <2>3, RequestStep
<1>5. CASE checkTenantStatus(l.id.tenant) /\ ~ login' = [login EXCEPT ![c] = n]
  <2>1. /\ Sound(l) /\ DOMAIN m = DOMAIN l /\ m.pc = "provision" /\ m.id = l.id /\ m.off = l.off /\ m.shut = l.shut
        /\ "start" \in DOMAIN l => m.start = l.start
    BY <1>1, <1>2, <1>3, OnSound
  <2>2. l # NoRequest
    BY <1>2, NoRequestSound
  <2>3. Sound(m)
    BY <1>2, <1>5, <2>1, <2>2 DEF Sound, Fields
  <2>4. login' = [login EXCEPT ![c] = m]
    BY <1>4, <1>5
  <2>. QED
    BY <1>2, <2>1, <2>3, <2>4, RequestStep
<1>6. CASE ~ checkTenantStatus(l.id.tenant) /\ ~ login' = [login EXCEPT ![c] = n]
  BY <1>2, <1>4, <1>6, OverSound
<1>. QED
  BY <1>5, <1>6, <1>8

(* Which account an identity is that of.                                   *)
Is(d, id) == d.tenant_id = id.tenant /\ Field(d, "name", "") = id.sub /\ Field(d, "method", "") = id.method

LEMMA DisabledAccount ==
  ASSUME NEW id
  PROVE  Disabled(id) <=> \E v \in Stored : Is(users[v], id) /\ ~ Field(users[v], "enabled", TRUE)
BY DEF Disabled, UserDocs, Accounts, InTenant, Is

(* Accounts keep their names, and those that are disabled stay so.         *)
LEMMA AccountsStillBy ==
  ASSUME \A v \in Stored : /\ v \in Stored' /\ users'[v].tenant_id = users[v].tenant_id
                           /\ Field(users'[v], "name", "") = Field(users[v], "name", "")
                           /\ Field(users'[v], "method", "") = Field(users[v], "method", "")
                           /\ ~ Field(users[v], "enabled", TRUE) => ~ Field(users'[v], "enabled", TRUE)
  PROVE  AccountsStill
<1> SUFFICES ASSUME NEW id, Disabled(id) PROVE Disabled(id)'
  BY DEF AccountsStill
<1>1. PICK v \in Stored : Is(users[v], id) /\ ~ Field(users[v], "enabled", TRUE)
  BY DisabledAccount
<1>2. v \in Stored' /\ Is(users'[v], id) /\ ~ Field(users'[v], "enabled", TRUE)
  BY <1>1 DEF Is
<1>. QED
  BY <1>2 DEF Disabled, UserDocs, Accounts, InTenant, Is

(* A document under a patch that leaves its name alone.                    *)
LEMMA NameKept ==
  ASSUME NEW d, "tenant_id" \in DOMAIN d, NEW p, DOMAIN p # {}, DOMAIN p \cap {"tenant_id", "name", "method"} = {},
         NEW m, m = Merged(p, d)
  PROVE  /\ m # NoDoc /\ m.tenant_id = d.tenant_id
         /\ Field(m, "name", "") = Field(d, "name", "") /\ Field(m, "method", "") = Field(d, "method", "")
         /\ "enabled" \notin DOMAIN p => Field(m, "enabled", TRUE) = Field(d, "enabled", TRUE)
<1>1. DOMAIN m = DOMAIN p \cup DOMAIN d /\ m.tenant_id = d.tenant_id
  BY DEF Merged
<1>2. m # NoDoc
  BY <1>1, NoDocEmpty
<1>3. Field(m, "name", "") = Field(d, "name", "")
  BY DEF Merged, Field
<1>4. Field(m, "method", "") = Field(d, "method", "")
  BY DEF Merged, Field
<1>5. "enabled" \notin DOMAIN p => Field(m, "enabled", TRUE) = Field(d, "enabled", TRUE)
  BY DEF Merged, Field
<1>. QED
  BY <1>1, <1>2, <1>3, <1>4, <1>5

(* What is remembered of a request is cleared.                             *)
LEMMA Cleared ==
  ASSUME NEW l, Sound(l), l.pc # "idle", NEW m, m = [l EXCEPT !.off = FALSE] \/ m = [l EXCEPT !.shut = FALSE]
  PROVE  /\ DOMAIN m = DOMAIN l /\ m.pc = l.pc /\ m.id = l.id
         /\ "start" \in DOMAIN l => m.start = l.start
         /\ m.off => l.off
         /\ m.shut => l.shut
         /\ m = [l EXCEPT !.off = FALSE] => ~ m.off
         /\ m = [l EXCEPT !.shut = FALSE] => ~ m.shut
         /\ l.pc \in {"revoke", "issue"} => m.session = l.session /\ m.token = l.token
<1>1. l # NoRequest
  BY NoRequestSound
<1>2. {"pc", "id", "off", "shut"} \subseteq DOMAIN l /\ (l.pc \in {"revoke", "issue"} => {"session", "token"} \subseteq DOMAIN l)
  BY <1>1 DEF Sound, Fields
<1>. QED
  BY <1>2

(* A request of which less is remembered is sound.                         *)
LEMMA ClearedSound ==
  ASSUME NEW l, Sound(l), l.pc # "idle", NEW m, m = [l EXCEPT !.off = FALSE] \/ m = [l EXCEPT !.shut = FALSE],
         m.off => (Disabled(l.id) => Disabled(l.id)'),
         m.shut => (~ checkTenantStatus(l.id.tenant) => ~ checkTenantStatus(l.id.tenant)')
  PROVE  Sound(m)'
<1>1. /\ DOMAIN m = DOMAIN l /\ m.pc = l.pc /\ m.id = l.id
      /\ "start" \in DOMAIN l => m.start = l.start
      /\ m.off => l.off
      /\ m.shut => l.shut
  BY Cleared
<1>2. l # NoRequest
  BY NoRequestSound
<1>. QED
  BY <1>1, <1>2 DEF Sound, Fields

(* Clearing flags changes no claim.                                        *)
LEMMA FlagsShrink ==
  ASSUME LoginTyped, LoginsSound, NEW S, \A c \in S : login[c].pc # "idle",
         \/ login' = [c \in Clients |-> IF c \in S THEN [login[c] EXCEPT !.off = FALSE] ELSE login[c]]
         \/ login' = [c \in Clients |-> IF c \in S THEN [login[c] EXCEPT !.shut = FALSE] ELSE login[c]]
  PROVE  ClaimsShrink
<1> SUFFICES ASSUME NEW c \in Clients, Claiming(c)'
             PROVE  /\ Claiming(c) /\ login'[c].pc = login[c].pc
                    /\ login'[c].session = login[c].session /\ login'[c].token = login[c].token
  BY DEF ClaimsShrink
<1>1. PICK l : l = login[c]
  OBVIOUS
<1>2. PICK m : m = login'[c]
  OBVIOUS
<1>3. CASE m = l
  BY <1>1, <1>2, <1>3 DEF Claiming
<1>4. CASE m # l
  <2>1. c \in S /\ (m = [l EXCEPT !.off = FALSE] \/ m = [l EXCEPT !.shut = FALSE])
    BY <1>1, <1>2, <1>4
  <2>2. Sound(l) /\ l.pc # "idle"
    BY <1>1, <2>1 DEF LoginsSound
  <2>3. m.pc = l.pc /\ (l.pc \in {"revoke", "issue"} => m.session = l.session /\ m.token = l.token)
    BY <2>1, <2>2, Cleared
  <2>. QED
    BY <1>1, <1>2, <2>3 DEF Claiming
<1>. QED
  BY <1>3, <1>4

(* A new account, or new groups of known ones, re-enable nobody.           *)
LEMMA ProvisionStill ==
  ASSUME UsersTyped, NEW id, UNCHANGED users \/ Stores(id) \/ Lays(id, [groups |-> id.groups])
  PROVE  AccountsStill
<1>1. CASE UNCHANGED users
  BY <1>1, AccountsStillBy DEF Stored
<1>2. CASE Stores(id)
  <2>1. PICK u \in Fresh : users' = [users EXCEPT ![u] = OIDCUser(id)]
    BY <1>2 DEF Stores
  <2>2. \A v \in Stored : users'[v] = users[v] /\ v \in Stored'
    BY <2>1 DEF Fresh, Stored, UsersTyped
  <2>. QED
    BY <2>2, AccountsStillBy
<1>3. CASE Lays(id, [groups |-> id.groups])
  <2>1. PICK g : g = [groups |-> id.groups]
    OBVIOUS
  <2>2. DOMAIN g = {"groups"} /\ users' = [u \in Uids |-> IF u \in Known(id) THEN Merged(g, users[u]) ELSE users[u]]
    BY <1>3, <2>1 DEF Lays
  <2>3. ASSUME NEW v \in Stored
        PROVE  /\ v \in Stored' /\ users'[v].tenant_id = users[v].tenant_id
               /\ Field(users'[v], "name", "") = Field(users[v], "name", "")
               /\ Field(users'[v], "method", "") = Field(users[v], "method", "")
               /\ Field(users'[v], "enabled", TRUE) = Field(users[v], "enabled", TRUE)
    <3>1. PICK o : o = users[v]
      OBVIOUS
    <3>2. v \in Uids /\ o # NoDoc /\ "tenant_id" \in DOMAIN o
      BY <3>1 DEF Stored, UsersTyped, Doc
    <3>3. PICK n : n = Merged(g, o)
      OBVIOUS
    <3>4. /\ n # NoDoc /\ n.tenant_id = o.tenant_id
          /\ Field(n, "name", "") = Field(o, "name", "") /\ Field(n, "method", "") = Field(o, "method", "")
          /\ Field(n, "enabled", TRUE) = Field(o, "enabled", TRUE)
      <4>1. DOMAIN g # {} /\ DOMAIN g \cap {"tenant_id", "name", "method"} = {} /\ "enabled" \notin DOMAIN g
        BY <2>2
      <4>. QED
        BY <3>2, <3>3, <4>1, NameKept
    <3>5. users'[v] = n \/ users'[v] = o
      BY <2>2, <3>1, <3>2, <3>3
    <3>6. users'[v] # NoDoc
      BY <3>2, <3>4, <3>5
    <3>. QED
      BY <3>1, <3>2, <3>4, <3>5, <3>6 DEF Stored
  <2>. QED
    BY <2>3, AccountsStillBy
<1>. QED
  BY <1>1, <1>2, <1>3

\* Two identities of one account.
SameIdentity(i, j) == i.sub = j.sub /\ i.method = j.method /\ i.tenant = j.tenant

(* An account that is stored over re-enables no other.                     *)
LEMMA ProvisionOthers ==
  ASSUME UsersTyped, NEW id, id.method = "oidc", UNCHANGED users \/ Stores(id) \/ Lays(id, OIDCUser(id)),
         NEW other, ~ SameIdentity(other, id), Disabled(other)
  PROVE  Disabled(other)'
<1>1. PICK v \in Stored : Is(users[v], other) /\ ~ Field(users[v], "enabled", TRUE)
  BY DisabledAccount
<1>2. v \in Uids /\ users[v] # NoDoc
  BY DEF Stored
<1>3. v \notin Known(id)
  BY <1>1 DEF Known, InTenant, Is, SameIdentity
<1>4. users'[v] = users[v]
  <2>1. CASE UNCHANGED users
    BY <2>1
  <2>2. CASE Stores(id)
    <3>1. PICK u \in Fresh : users' = [users EXCEPT ![u] = OIDCUser(id)]
      BY <2>2 DEF Stores
    <3>. QED
      BY <1>2, <3>1 DEF Fresh, UsersTyped
  <2>3. CASE Lays(id, OIDCUser(id))
    BY <1>2, <1>3, <2>3 DEF Lays
  <2>. QED
    BY <2>1, <2>2, <2>3
<1>5. v \in Stored' /\ Is(users'[v], other) /\ ~ Field(users'[v], "enabled", TRUE)
  BY <1>1, <1>2, <1>4 DEF Stored
<1>. QED
  BY <1>5 DEF Disabled, UserDocs, Accounts, InTenant, Is

(* Single sign-on finds the account enabled, or makes it, or cannot look.  *)
LEMMA ProvisionSound ==
  ASSUME LoginTyped, UsersTyped, LoginsSound, TokenInv, topic = "signin", topic' = topic,
         NEW c \in Clients, provisionOIDCUser(c)
  PROVE  LoginsSound' /\ TokenInv'
<1>1. PICK l : l = login[c]
  OBVIOUS
<1>2. /\ l.pc = "provision" /\ UNCHANGED <<refresh, access, raced, registry>>
      /\ ProvisionRefused(c) \/ ProvisionKnown(c, l.id) \/ ProvisionBlind(c, l.id)
  BY <1>1, ProvisionCases
<1>3. RowsShrink /\ Sound(l) /\ l # NoRequest
  BY <1>1, <1>2, RowsStill, NoRequestSound DEF LoginsSound
<1>4. DOMAIN l = {"pc", "id", "start", "off", "shut"}
  BY <1>2, <1>3 DEF Sound, Fields
<1>5. PICK id : id = l.id
  OBVIOUS
<1>6. id.method = "oidc"
  BY <1>3, <1>4, <1>5 DEF Sound
<1>7. TenantsStill
  BY <1>2 DEF TenantsStill, checkTenantStatus, Slugs
<1>8. CASE ProvisionRefused(c)
  BY <1>2, <1>3, <1>8, OverSound DEF ProvisionRefused
<1>9. CASE ProvisionKnown(c, id)
  <2>1. PICK m : m = [l EXCEPT !.pc = "sign"]
    OBVIOUS
  <2>2. login' = [login EXCEPT ![c] = m]
    BY <1>1, <1>9, <2>1 DEF ProvisionKnown, LoginTyped
  <2>3. ~ Disabled(id)
    <3> SUFFICES ASSUME Disabled(id) PROVE FALSE
      OBVIOUS
    <3>1. PICK v \in Stored : Is(users[v], id) /\ ~ Field(users[v], "enabled", TRUE)
      BY DisabledAccount
    <3>2. v \in Known(id)
      BY <1>6, <3>1 DEF Is, InTenant, Known
    <3>. QED
      BY <1>9, <3>1, <3>2 DEF ProvisionKnown
  <2>4. AccountsStill
    BY <1>9, ProvisionStill DEF ProvisionKnown
  <2>5. Busy
    BY <1>7, <2>4 DEF Busy
  <2>6. DOMAIN m = DOMAIN l /\ m.pc = "sign" /\ m.id = l.id /\ m.off = l.off /\ m.shut = l.shut /\ m.start = l.start
    BY <1>4, <2>1
  <2>7. ~ l.off
    BY <1>2, <1>3, <1>5, <2>3 DEF Sound
  <2>8. Sound(m)'
    BY <1>2, <1>3, <1>4, <2>6, <2>7 DEF Sound, Fields
  <2>. QED
    BY <1>3, <2>2, <2>5, <2>6, <2>8, RequestMoves
<1>10. CASE ProvisionBlind(c, id)
  <2>1. login' = [d \in Clients |-> IF d = c THEN [login[c] EXCEPT !.pc = "sign", !.off = FALSE] ELSE Reenabled(login[d], id)]
    BY <1>10 DEF ProvisionBlind
  <2>2. ASSUME NEW d \in Clients, NEW n, n = login'[d]
        PROVE  /\ Sound(n)'
               /\ n.pc \in {"revoke", "issue"} => n.pc = login[d].pc /\ n.session = login[d].session /\ n.token = login[d].token
    <3>1. CASE d = c
      <4>1. n = [l EXCEPT !.pc = "sign", !.off = FALSE]
        BY <1>1, <2>1, <2>2, <3>1
      <4>2. DOMAIN n = DOMAIN l /\ n.pc = "sign" /\ n.id = l.id /\ n.off = FALSE /\ n.shut = l.shut /\ n.start = l.start
        BY <1>4, <4>1
      <4>3. Sound(n)'
        BY <1>2, <1>3, <1>4, <4>2 DEF Sound, Fields
      <4>. QED
        BY <4>2, <4>3
    <3>2. CASE d # c
      <4>1. PICK k : k = login[d]
        OBVIOUS
      <4>2. Sound(k) /\ n = Reenabled(k, id)
        BY <2>1, <2>2, <3>2, <4>1 DEF LoginsSound
      <4>3. ~ checkTenantStatus(k.id.tenant) => ~ checkTenantStatus(k.id.tenant)'
        BY <1>7 DEF TenantsStill
      <4>4. CASE k.pc # "idle" /\ SameIdentity(k.id, id)
        <5>1. n = [k EXCEPT !.off = FALSE]
          BY <4>2, <4>4 DEF Reenabled, SameIdentity
        <5>2. ~ n.off /\ n.pc = k.pc /\ (k.pc \in {"revoke", "issue"} => n.session = k.session /\ n.token = k.token)
          BY <4>2, <4>4, <5>1, Cleared
        <5>3. Sound(n)'
          BY <4>2, <4>3, <4>4, <5>1, <5>2, ClearedSound
        <5>. QED
          BY <4>1, <5>2, <5>3
      <4>5. CASE k.pc # "idle" /\ ~ SameIdentity(k.id, id)
        <5>1. n = k
          BY <4>2, <4>5 DEF Reenabled, SameIdentity
        <5>2. Disabled(k.id) => Disabled(k.id)'
          BY <1>6, <1>10, <4>5, ProvisionOthers DEF ProvisionBlind
        <5>. QED
          BY <4>1, <4>2, <4>3, <5>1, <5>2, SoundStill
      <4>6. CASE k.pc = "idle"
        <5>1. k = NoRequest /\ n = k
          BY <4>2, <4>6 DEF Sound, Fields, Reenabled
        <5>. QED
          BY <4>1, <5>1, NoRequestSound
      <4>. QED
        BY <4>4, <4>5, <4>6
    <3>. QED
      BY <3>1, <3>2
  <2>3. LoginsSound'
    BY <2>2 DEF LoginsSound
  <2>4. ClaimsShrink
    BY <2>2 DEF ClaimsShrink, Claiming
  <2>. QED
    BY <1>3, <2>3, <2>4, TokensShrink
<1>. QED
  BY <1>2, <1>5, <1>8, <1>9, <1>10

(* A bearer changes the password.                                          *)
LEMMA PasswordSound ==
  ASSUME LoginTyped, UsersTyped, LoginsSound, TokenInv, topic = "session", topic' = topic,
         NEW a, SelfPasswordChange(a, 1, "p1", "p2")
  PROVE  LoginsSound' /\ TokenInv'
<1>1. UNCHANGED <<refresh, access, raced, registry, login>> /\ 1 \in Stored
  BY DEF SelfPasswordChange, sessionVars
<1>2. PICK d : d = [password |-> "p2"]
  OBVIOUS
<1>3. PICK m : m = Merged(d, users[1])
  OBVIOUS
<1>4. users' = [users EXCEPT ![1] = m]
  BY <1>2, <1>3 DEF SelfPasswordChange
<1>5. AccountsStill
  <2>1. DOMAIN d # {} /\ DOMAIN d \cap {"tenant_id", "name", "method"} = {} /\ "enabled" \notin DOMAIN d
    BY <1>2
  <2>2. 1 \in Uids /\ "tenant_id" \in DOMAIN users[1]
    BY <1>1 DEF Stored, UsersTyped, Doc
  <2>3. /\ m # NoDoc /\ m.tenant_id = users[1].tenant_id
        /\ Field(m, "name", "") = Field(users[1], "name", "") /\ Field(m, "method", "") = Field(users[1], "method", "")
        /\ Field(m, "enabled", TRUE) = Field(users[1], "enabled", TRUE)
    BY <1>3, <2>1, <2>2, NameKept
  <2>4. \A v \in Uids : users'[v] = IF v = 1 THEN m ELSE users[v]
    <3>1. users' = [v \in Uids |-> IF v = 1 THEN m ELSE users[v]]
      BY <1>4 DEF UsersTyped
    <3>. QED
      BY <3>1
  <2>. QED
    BY <2>3, <2>4, AccountsStillBy DEF Stored
<1>6. TenantsStill
  BY <1>1 DEF TenantsStill, checkTenantStatus, Slugs
<1>7. ASSUME NEW c \in Clients, NEW l, l = login[c] PROVE Sound(l)'
  <2>1. Sound(l)
    BY <1>7 DEF LoginsSound
  <2>2. Disabled(l.id) => Disabled(l.id)'
    BY <1>5 DEF AccountsStill
  <2>3. ~ checkTenantStatus(l.id.tenant) => ~ checkTenantStatus(l.id.tenant)'
    BY <1>6 DEF TenantsStill
  <2>. QED
    BY <2>1, <2>2, <2>3, SoundStill
<1>8. LoginsSound'
  BY <1>1, <1>7 DEF LoginsSound
<1>9. ClaimsShrink /\ RowsShrink
  BY <1>1, RowsStill DEF ClaimsShrink, Claiming
<1>. QED
  BY <1>8, <1>9, TokensShrink

(* An administrator enables or disables an account.                        *)
LEMMA EnableSound ==
  ASSUME LoginTyped, UsersTyped, LoginsSound, TokenInv, topic \in {"session", "signin"}, topic' = topic,
         NEW w, NEW b \in BOOLEAN, PatchUser(w, [enabled |-> b])
  PROVE  LoginsSound' /\ TokenInv'
<1>1. UNCHANGED <<refresh, access, raced, registry>> /\ w \in Stored
  BY DEF PatchUser
<1>2. PICK d : d = [enabled |-> b]
  OBVIOUS
<1>3. DOMAIN d = {"enabled"} /\ d.enabled = b
  BY <1>2
<1>4. PICK o : o = users[w]
  OBVIOUS
<1>5. PICK m : m = Merged(d, o)
  OBVIOUS
<1>6. w \in Uids /\ "tenant_id" \in DOMAIN o
  BY <1>1, <1>4 DEF Stored, UsersTyped, Doc
<1>7. /\ m # NoDoc /\ m.tenant_id = o.tenant_id
      /\ Field(m, "name", "") = Field(o, "name", "") /\ Field(m, "method", "") = Field(o, "method", "")
      /\ Field(m, "enabled", TRUE) = b
  <2>1. DOMAIN d # {} /\ DOMAIN d \cap {"tenant_id", "name", "method"} = {} /\ "enabled" \in DOMAIN d
    BY <1>3
  <2>2. /\ m # NoDoc /\ m.tenant_id = o.tenant_id
        /\ Field(m, "name", "") = Field(o, "name", "") /\ Field(m, "method", "") = Field(o, "method", "")
    BY <1>5, <1>6, <2>1, NameKept
  <2>3. Field(m, "enabled", TRUE) = b
    BY <1>3, <1>5 DEF Merged, Field
  <2>. QED
    BY <2>2, <2>3
<1>8. \A v \in Uids : users'[v] = IF v = w THEN m ELSE users[v]
  <2>1. users' = [users EXCEPT ![w] = m]
    BY <1>2, <1>4, <1>5 DEF PatchUser
  <2>2. users' = [v \in Uids |-> IF v = w THEN m ELSE users[v]]
    BY <2>1 DEF UsersTyped
  <2>. QED
    BY <2>2
<1>9. PICK S : S = {c \in Clients : login[c].pc # "idle" /\ SameAccount(w, login[c].id) /\ Field(d, "enabled", FALSE)}
  OBVIOUS
<1>10. login' = [c \in Clients |-> IF c \in S THEN [login[c] EXCEPT !.off = FALSE] ELSE login[c]]
  BY <1>2, <1>9 DEF PatchUser
<1>11. ASSUME NEW id, ~ (SameAccount(w, id) /\ b), Disabled(id) PROVE Disabled(id)'
  <2>1. PICK v \in Stored : Is(users[v], id) /\ ~ Field(users[v], "enabled", TRUE)
    BY <1>11, DisabledAccount
  <2>2. v \in Stored' /\ Is(users'[v], id) /\ ~ Field(users'[v], "enabled", TRUE)
    <3>1. CASE v # w
      BY <1>8, <2>1, <3>1 DEF Stored
    <3>2. CASE v = w
      <4>1. ~ b
        BY <1>11, <2>1, <3>2 DEF SameAccount, Is
      <4>2. users'[v] = m
        BY <1>6, <1>8, <3>2
      <4>3. v \in Stored'
        BY <1>6, <1>7, <3>2, <4>2 DEF Stored
      <4>4. Is(m, id)
        BY <1>4, <1>7, <2>1, <3>2 DEF Is
      <4>5. ~ Field(m, "enabled", TRUE)
        BY <1>7, <4>1
      <4>. QED
        BY <4>2, <4>3, <4>4, <4>5
    <3>. QED
      BY <3>1, <3>2
  <2>. QED
    BY <2>2 DEF Disabled, UserDocs, Accounts, InTenant, Is
<1>12. TenantsStill
  BY <1>1 DEF TenantsStill, checkTenantStatus, Slugs
<1>13. ASSUME NEW c \in Clients, NEW n, n = login'[c] PROVE Sound(n)'
  <2>1. PICK l : l = login[c]
    OBVIOUS
  <2>2. Sound(l)
    BY <2>1 DEF LoginsSound
  <2>3. ~ checkTenantStatus(l.id.tenant) => ~ checkTenantStatus(l.id.tenant)'
    BY <1>12 DEF TenantsStill
  <2>4. CASE c \in S
    <3>1. n = [l EXCEPT !.off = FALSE] /\ l.pc # "idle"
      BY <1>9, <1>10, <1>13, <2>1, <2>4
    <3>2. ~ n.off
      BY <2>2, <3>1, Cleared
    <3>. QED
      BY <2>2, <2>3, <3>1, <3>2, ClearedSound
  <2>5. CASE c \notin S
    <3>1. n = l
      BY <1>10, <1>13, <2>1, <2>5
    <3>2. CASE l.pc = "idle"
      <4>1. l = NoRequest
        BY <2>2, <3>2 DEF Sound, Fields
      <4>. QED
        BY <3>1, <4>1, NoRequestSound
    <3>3. CASE l.pc # "idle"
      <4>1. Field(d, "enabled", FALSE) = b
        BY <1>3 DEF Field
      <4>2. ~ (SameAccount(w, l.id) /\ b)
        BY <1>9, <2>1, <2>5, <3>3, <4>1
      <4>3. Disabled(l.id) => Disabled(l.id)'
        BY <1>11, <4>2
      <4>. QED
        BY <2>2, <2>3, <3>1, <4>3, SoundStill
    <3>. QED
      BY <3>2, <3>3
  <2>. QED
    BY <2>4, <2>5
<1>14. LoginsSound'
  BY <1>13 DEF LoginsSound
<1>15. ClaimsShrink /\ RowsShrink
  <2>1. \A c \in S : login[c].pc # "idle"
    BY <1>9
  <2>. QED
    BY <1>1, <1>10, <2>1, FlagsShrink, RowsStill
<1>. QED
  BY <1>14, <1>15, TokensShrink

(* A tenant is suspended or reopened.                                      *)
LEMMA ReopenSound ==
  ASSUME LoginTyped, RegistryTyped, LoginsSound, TokenInv, topic \in {"session", "signin"}, topic' = topic,
         NEW s \in {"active", "suspended"}, ReopenTenant(s)
  PROVE  LoginsSound' /\ TokenInv'
<1>1. UNCHANGED <<refresh, access, raced, users>>
  BY DEF ReopenTenant, accountVars
<1>2. PICK d : d = [status |-> s]
  OBVIOUS
<1>3. d.status = s
  BY <1>2
<1>4. PICK S : S = {c \in Clients : login[c].pc # "idle" /\ login[c].id.tenant = "acme" /\ d.status = "active"}
  OBVIOUS
<1>5. login' = [c \in Clients |-> IF c \in S THEN [login[c] EXCEPT !.shut = FALSE] ELSE login[c]]
  BY <1>2, <1>4 DEF ReopenTenant, Reopened
<1>6. AccountsStill
  BY <1>1 DEF AccountsStill, Disabled, Accounts, InTenant, Stored, UserDocs, Field
<1>7. ASSUME NEW t, t # "acme" \/ s = "suspended", ~ checkTenantStatus(t) PROVE ~ checkTenantStatus(t)'
  <2>1. registry["acme"] \in TenantDoc /\ registry \in [Three -> TenantDoc \cup {NoDoc}] /\ "acme" \in Three
    BY DEF RegistryTyped, Three
  <2>2. PICK o : o = registry["acme"]
    OBVIOUS
  <2>3. PICK m : m = [o EXCEPT !.status = s]
    OBVIOUS
  <2>4. registry' = [registry EXCEPT !["acme"] = m]
    BY <2>1, <2>2, <2>3 DEF ReopenTenant
  <2>5. "status" \in DOMAIN o
    BY <2>1, <2>2 DEF TenantDoc
  <2>6. m.status = s /\ m # NoDoc
    BY <2>3, <2>5, NoDocEmpty
  <2>7. DOMAIN registry' = DOMAIN registry /\ registry'["acme"] = m /\ \A x \in DOMAIN registry : x # "acme" => registry'[x] = registry[x]
    BY <2>1, <2>4
  <2>8. "acme" \in DOMAIN registry
    BY <2>1
  <2>. QED
    BY <1>7, <2>6, <2>7, <2>8 DEF checkTenantStatus, Slugs
<1>8. ASSUME NEW c \in Clients, NEW n, n = login'[c] PROVE Sound(n)'
  <2>1. PICK l : l = login[c]
    OBVIOUS
  <2>2. Sound(l)
    BY <2>1 DEF LoginsSound
  <2>3. Disabled(l.id) => Disabled(l.id)'
    BY <1>6 DEF AccountsStill
  <2>4. CASE c \in S
    <3>1. n = [l EXCEPT !.shut = FALSE] /\ l.pc # "idle"
      BY <1>4, <1>5, <1>8, <2>1, <2>4
    <3>2. ~ n.shut
      BY <2>2, <3>1, Cleared
    <3>. QED
      BY <2>2, <2>3, <3>1, <3>2, ClearedSound
  <2>5. CASE c \notin S
    <3>1. n = l
      BY <1>5, <1>8, <2>1, <2>5
    <3>2. CASE l.pc = "idle"
      <4>1. l = NoRequest
        BY <2>2, <3>2 DEF Sound, Fields
      <4>. QED
        BY <3>1, <4>1, NoRequestSound
    <3>3. CASE l.pc # "idle"
      <4>1. l.id.tenant # "acme" \/ s = "suspended"
        BY <1>3, <1>4, <2>1, <2>5, <3>3
      <4>2. ~ checkTenantStatus(l.id.tenant) => ~ checkTenantStatus(l.id.tenant)'
        BY <1>7, <4>1
      <4>. QED
        BY <2>2, <2>3, <3>1, <4>2, SoundStill
    <3>. QED
      BY <3>2, <3>3
  <2>. QED
    BY <2>4, <2>5
<1>9. LoginsSound'
  BY <1>8 DEF LoginsSound
<1>10. ClaimsShrink /\ RowsShrink
  <2>1. \A c \in S : login[c].pc # "idle"
    BY <1>4
  <2>. QED
    BY <1>1, <1>5, <2>1, FlagsShrink, RowsStill
<1>. QED
  BY <1>9, <1>10, TokensShrink

(* Requests that stand still, with accounts and tenants as they are.       *)
LEMMA StillSound ==
  ASSUME LoginsSound, TokenInv, UNCHANGED <<topic, users, registry, login>>, RowsShrink
  PROVE  LoginsSound' /\ TokenInv'
<1>1. ASSUME NEW c \in Clients, NEW l, l = login[c] PROVE Sound(l)'
  <2>1. Sound(l)
    BY <1>1 DEF LoginsSound
  <2>. QED
    BY <2>1, SoundNow
<1>2. LoginsSound'
  BY <1>1 DEF LoginsSound
<1>3. ClaimsShrink
  BY DEF ClaimsShrink, Claiming
<1>. QED
  BY <1>2, <1>3, TokensShrink

(* A topic without requests of the login routes.                           *)
LEMMA QuietSound ==
  ASSUME LoginsSound, TokenInv, topic \notin {"session", "signin"}, UNCHANGED <<topic, login>>, RowsShrink
  PROVE  LoginsSound' /\ TokenInv'
<1>1. \A c \in Clients : login'[c] = NoRequest
  BY DEF LoginsSound
<1>2. LoginsSound'
  BY <1>1, NoRequestSound DEF LoginsSound
<1>3. ClaimsShrink
  BY DEF ClaimsShrink, Claiming
<1>. QED
  BY <1>2, <1>3, TokensShrink

(* There, no request is there to be cleared.                               *)
LEMMA QuietFlags ==
  ASSUME LoginTyped, LoginsSound, topic \notin {"session", "signin"}, NEW u, NEW d, PatchUser(u, d) \/ Reopened(u, d)
  PROVE  UNCHANGED login
<1>1. (\A c \in Clients : login[c].pc = "idle") /\ login = [c \in Clients |-> login[c]]
  BY NoRequestSound DEF LoginsSound, LoginTyped
<1>2. login' = [c \in Clients |-> login[c]]
  BY <1>1 DEF PatchUser, Reopened
<1>. QED
  BY <1>1, <1>2

(* Every step keeps what requests remember, and the sessions apart.        *)
LEMMA RequestsKept ==
  ASSUME LoginTyped, RefreshShape, UsersTyped, RegistryTyped, SessionsInv, [Next]_vars
  PROVE  LoginsSound' /\ TokenInv'
<1>0. LoginsSound /\ CookieSound /\ OneAccount /\ TokenInv
  BY DEF SessionsInv
<1>1. CASE AccountsNext \/ BootNext
  <2>1. UNCHANGED <<topic, login, refresh, access, raced>> /\ topic \notin {"session", "signin"}
    BY <1>1 DEF AccountsNext, BootNext, sessionVars
  <2>. QED
    BY <1>0, <2>1, RowsStill, QuietSound
<1>2. CASE UNCHANGED vars
  <2>1. UNCHANGED <<topic, login, refresh, access, raced, users, registry>>
    BY <1>2 DEF vars, sessionVars, accountVars
  <2>. QED
    BY <1>0, <2>1, RowsStill, StillSound
<1>3. CASE TenantNext
  <2>1. UNCHANGED <<topic, refresh, access, raced>> /\ topic \notin {"session", "signin"}
    BY <1>3 DEF TenantNext
  <2>2. ASSUME NEW r, UpdateTenant(r) PROVE UNCHANGED login
    <3>1. PICK t, d : UNCHANGED login \/ Reopened(t, d)
      BY <2>2 DEF UpdateTenant
    <3>. QED
      BY <1>0, <2>1, <3>1, QuietFlags
  <2>3. UNCHANGED login
    BY <1>3, <2>2 DEF TenantNext
  <2>. QED
    BY <1>0, <2>1, <2>3, RowsStill, QuietSound
<1>4. CASE KeysNext
  <2>0. topic' = topic /\ topic \notin {"session", "signin"}
    BY <1>4 DEF KeysNext
  <2>1. ASSUME NEW a, NEW k, NEW n, NEW ttl, NEW ps, handleCreateMyAPIKey(a, k, n, ps, ttl) PROVE UNCHANGED <<login, refresh, access, raced>>
    BY <2>1 DEF handleCreateMyAPIKey, IssueKey
  <2>2. ASSUME NEW a, NEW k, handleDeleteMyAPIKey(a, k) PROVE UNCHANGED <<login, refresh, access, raced>>
    BY <2>2 DEF handleDeleteMyAPIKey
  <2>3. ASSUME NEW k, NEW b, NEW e, PatchKey(k, b, e) PROVE UNCHANGED <<login, refresh, access, raced>>
    BY <2>3 DEF PatchKey
  <2>4. CleanupKeys \/ Tick => UNCHANGED <<login, refresh, access, raced>>
    BY DEF CleanupKeys, Tick
  <2>5. ASSUME NEW d, PatchUser(1, d) PROVE UNCHANGED <<login, refresh, access, raced>>
    BY <1>0, <2>0, <2>5, QuietFlags DEF PatchUser
  <2>6. UNCHANGED <<login, refresh, access, raced>>
    BY <1>4, <2>1, <2>2, <2>3, <2>4, <2>5 DEF KeysNext
  <2>. QED
    BY <1>0, <2>0, <2>6, RowsStill, QuietSound
<1>5. CASE SessionNext
  <2>0. topic = "session" /\ topic' = topic
    BY <1>5 DEF SessionNext
  <2>1. ASSUME NEW c \in Clients, LoginStart(c), UNCHANGED accountVars PROVE LoginsSound' /\ TokenInv'
    <3>1. UNCHANGED users
      BY <2>1 DEF accountVars
    <3>2. ASSUME NEW m \in {"local", "ldap"}, NEW p, handleLogin(c, m, "ann", "acme", p) PROVE LoginsSound' /\ TokenInv'
      BY <1>0, <2>0, <3>1, <3>2, LoginSound
    <3>3. ASSUME handleLoginAnonymous(c, "acme") PROVE LoginsSound' /\ TokenInv'
      BY <1>0, <2>0, <3>1, <3>3, LoginSound DEF handleLoginAnonymous
    <3>4. ASSUME NEW t \in Tokens, handleRefresh(c, t) PROVE LoginsSound' /\ TokenInv'
      BY <1>0, <2>0, <3>1, <3>4, RefreshSound
    <3>5. ASSUME NEW t \in Tokens, handleLogout(c, t) PROVE LoginsSound' /\ TokenInv'
      BY <1>0, <2>0, <3>1, <3>5, LogoutSound
    <3>. QED
      BY <2>1, <3>2, <3>3, <3>4, <3>5 DEF LoginStart
  <2>2. ASSUME NEW c \in Clients, LoginNext(c), UNCHANGED accountVars PROVE LoginsSound' /\ TokenInv'
    BY <1>0, <2>0, <2>2, SessionSound DEF accountVars
  <2>3. ASSUME CleanupRefresh, UNCHANGED accountVars PROVE LoginsSound' /\ TokenInv'
    <3>1. UNCHANGED <<users, registry, login, access, raced>>
      BY <2>3 DEF accountVars, CleanupRefresh
    <3>2. RowsShrink
      BY <2>3, <3>1 DEF CleanupRefresh, RowsShrink, Live
    <3>. QED
      BY <1>0, <2>0, <3>1, <3>2, StillSound
  <2>4. ASSUME Tick, UNCHANGED accountVars PROVE LoginsSound' /\ TokenInv'
    BY <1>0, <2>0, <2>4, RowsStill, StillSound DEF Tick, accountVars
  <2>5. ASSUME NEW w, NEW b \in BOOLEAN, PatchUser(w, [enabled |-> b]) PROVE LoginsSound' /\ TokenInv'
    BY <1>0, <2>0, <2>5, EnableSound
  <2>6. ASSUME NEW s \in {"active", "suspended"}, ReopenTenant(s) PROVE LoginsSound' /\ TokenInv'
    BY <1>0, <2>0, <2>6, ReopenSound
  <2>7. ASSUME NEW a, SelfPasswordChange(a, 1, "p1", "p2") PROVE LoginsSound' /\ TokenInv'
    BY <1>0, <2>0, <2>7, PasswordSound
  <2>. QED
    BY <1>5, <2>1, <2>2, <2>3, <2>4, <2>5, <2>6, <2>7 DEF SessionNext
<1>6. CASE SignInNext
  <2>0. topic = "signin" /\ topic' = topic
    BY <1>6 DEF SignInNext
  <2>1. ASSUME NEW s, NEW org, handleOIDCStart(s, org), UNCHANGED accountVars PROVE LoginsSound' /\ TokenInv'
    BY <1>0, <2>0, <2>1, RowsStill, StillSound DEF handleOIDCStart, accountVars
  <2>2. ASSUME NEW c \in Clients, NEW g, handleOIDCCallback(c, "ann", g), UNCHANGED accountVars PROVE LoginsSound' /\ TokenInv'
    BY <1>0, <2>0, <2>2, CallbackSound DEF accountVars
  <2>3. ASSUME NEW c \in Clients, OIDCTenant(c) \/ signSession(c) \/ Respond(c), UNCHANGED accountVars PROVE LoginsSound' /\ TokenInv'
    BY <1>0, <2>0, <2>3, SignInTenantSound, SessionSound DEF LoginNext, accountVars
  <2>4. ASSUME Tick, UNCHANGED accountVars PROVE LoginsSound' /\ TokenInv'
    BY <1>0, <2>0, <2>4, RowsStill, StillSound DEF Tick, accountVars
  <2>5. ASSUME NEW c \in Clients, provisionOIDCUser(c) PROVE LoginsSound' /\ TokenInv'
    BY <1>0, <2>0, <2>5, ProvisionSound
  <2>6. ASSUME NEW b \in BOOLEAN, PatchUser(1, [enabled |-> b]) PROVE LoginsSound' /\ TokenInv'
    BY <1>0, <2>0, <2>6, EnableSound
  <2>7. ASSUME NEW s \in {"active", "suspended"}, ReopenTenant(s) PROVE LoginsSound' /\ TokenInv'
    BY <1>0, <2>0, <2>7, ReopenSound
  <2>. QED
    BY <1>6, <2>1, <2>2, <2>3, <2>4, <2>5, <2>6, <2>7 DEF SignInNext
<1>. QED
  BY <1>1, <1>2, <1>3, <1>4, <1>5, <1>6 DEF Next

--------------------------------------------------------------------------
(* The cookie and the account                                              *)

(* Every step keeps the cookie with its own start.                         *)
LEMMA CookieKept ==
  ASSUME CookieSound, [Next]_vars
  PROVE  CookieSound'
<1>1. ASSUME UNCHANGED <<cookie, codes>> PROVE CookieSound'
  BY <1>1 DEF CookieSound
<1>2. CASE AccountsNext \/ BootNext \/ TenantNext \/ UNCHANGED vars
  BY <1>1, <1>2 DEF AccountsNext, BootNext, TenantNext, vars, sessionVars
<1>3. ASSUME NEW w, NEW d, PatchUser(w, d) PROVE UNCHANGED <<cookie, codes>>
  BY <1>3 DEF PatchUser
<1>4. ASSUME NEW st, ReopenTenant(st) PROVE UNCHANGED <<cookie, codes>>
  BY <1>4 DEF ReopenTenant
<1>5. CASE SessionNext
  <2>1. ASSUME NEW c \in Clients, LoginStart(c) PROVE UNCHANGED <<cookie, codes>>
    BY <2>1 DEF LoginStart, handleLogin, handleLoginAnonymous, handleRefresh, handleLogout
  <2>2. ASSUME NEW c \in Clients, LoginNext(c) PROVE UNCHANGED <<cookie, codes>>
    BY <2>2 DEF LoginNext, LoginTenant, PassTenant, signSession, Respond, Crash, RefreshRevoke, RefreshIssue, RefreshCheck, RefreshSign, Revoke
  <2>3. CleanupRefresh \/ Tick => UNCHANGED <<cookie, codes>>
    BY DEF CleanupRefresh, Tick
  <2>4. ASSUME NEW a, SelfPasswordChange(a, 1, "p1", "p2") PROVE UNCHANGED <<cookie, codes>>
    BY <2>4 DEF SelfPasswordChange, sessionVars
  <2>. QED
    BY <1>1, <1>3, <1>4, <1>5, <2>1, <2>2, <2>3, <2>4 DEF SessionNext
<1>6. CASE KeysNext
  <2>1. ASSUME NEW a, NEW k, NEW n, NEW ttl, NEW ps, handleCreateMyAPIKey(a, k, n, ps, ttl) PROVE UNCHANGED <<cookie, codes>>
    BY <2>1 DEF handleCreateMyAPIKey, IssueKey
  <2>2. ASSUME NEW a, NEW k, handleDeleteMyAPIKey(a, k) PROVE UNCHANGED <<cookie, codes>>
    BY <2>2 DEF handleDeleteMyAPIKey
  <2>3. ASSUME NEW k, NEW b, NEW e, PatchKey(k, b, e) PROVE UNCHANGED <<cookie, codes>>
    BY <2>3 DEF PatchKey
  <2>4. CleanupKeys \/ Tick => UNCHANGED <<cookie, codes>>
    BY DEF CleanupKeys, Tick
  <2>. QED
    BY <1>1, <1>3, <1>6, <2>1, <2>2, <2>3, <2>4 DEF KeysNext
<1>7. ASSUME NEW s, NEW org, handleOIDCStart(s, org) PROVE CookieSound'
  <2>1. PICK d : d = AuthCodeURL(s, org)
    OBVIOUS
  <2>2. DOMAIN d = {"state", "org", "answered"} /\ d.state = s /\ d.org = org
    BY <2>1 DEF AuthCodeURL
  <2>3. codes' = codes \cup {d} /\ cookie' = encodeOIDCState(s, org) /\ \A e \in codes : e.state # s
    BY <1>7, <2>1 DEF handleOIDCStart
  <2>4. cookie'.state = s /\ cookie'.org = org
    BY <2>3 DEF encodeOIDCState
  <2>. QED
    BY <2>2, <2>3, <2>4 DEF CookieSound
<1>8. ASSUME NEW c, NEW g, handleOIDCCallback(c, "ann", g) PROVE CookieSound'
  <2>1. PICK d \in codes : cookie' = NoDoc /\ codes' = (codes \ {d}) \cup {[d EXCEPT !.answered = TRUE]}
    BY <1>8, Zenon DEF handleOIDCCallback
  <2>2. PICK e : e = [d EXCEPT !.answered = TRUE]
    OBVIOUS
  <2>3. DOMAIN e = DOMAIN d
    BY <2>2
  <2>4. \A x \in codes' : {"state", "org", "answered"} \subseteq DOMAIN x
    BY <2>1, <2>2, <2>3 DEF CookieSound
  <2>. QED
    BY <2>1, <2>4 DEF CookieSound, NoDoc
<1>9. CASE SignInNext
  <2>1. ASSUME NEW c, OIDCTenant(c) \/ signSession(c) \/ Respond(c) \/ provisionOIDCUser(c) PROVE UNCHANGED <<cookie, codes>>
    BY <2>1 DEF OIDCTenant, PassTenant, signSession, Respond, provisionOIDCUser
  <2>2. Tick => UNCHANGED <<cookie, codes>>
    BY DEF Tick
  <2>. QED
    BY <1>1, <1>3, <1>4, <1>7, <1>8, <1>9, <2>1, <2>2 DEF SignInNext
<1>. QED
  BY <1>2, <1>5, <1>6, <1>9 DEF Next

(* In the topic of sessions the account keeps its name.                    *)
LEMMA AccountKept ==
  ASSUME OneAccount, UsersTyped, [Next]_vars
  PROVE  OneAccount'
<1>1. ASSUME UNCHANGED <<topic, users>> PROVE OneAccount'
  BY <1>1 DEF OneAccount, Seeded, Stored, Field
<1>2. CASE AccountsNext \/ BootNext \/ TenantNext \/ KeysNext \/ SignInNext
  BY <1>2 DEF AccountsNext, BootNext, TenantNext, KeysNext, SignInNext, OneAccount
<1>3. CASE UNCHANGED vars
  BY <1>1, <1>3 DEF vars, accountVars
<1>4. ASSUME topic = "session", topic' = topic, NEW w \in Stored, NEW d, DOMAIN d # {}, DOMAIN d \cap {"tenant_id", "name", "method"} = {},
             users' = [users EXCEPT ![w] = Merged(d, users[w])]
      PROVE  OneAccount'
  <2>1. PICK m : m = Merged(d, users[w])
    OBVIOUS
  <2>2. w \in Uids /\ "tenant_id" \in DOMAIN users[w]
    BY <1>4 DEF Stored, UsersTyped, Doc
  <2>3. Field(m, "method", "") = Field(users[w], "method", "")
    BY <1>4, <2>1, <2>2, NameKept
  <2>4. \A v \in Uids : users'[v] = IF v = w THEN m ELSE users[v]
    <3>1. users' = [v \in Uids |-> IF v = w THEN m ELSE users[v]]
      BY <1>4, <2>1 DEF UsersTyped
    <3>. QED
      BY <3>1
  <2>5. \A v \in Stored : Seeded(v, users[v])
    BY <1>4 DEF OneAccount
  <2>6. ASSUME NEW v \in Stored' PROVE Seeded(v, users'[v])
    <3>1. v \in Stored
      BY <1>4, <2>4, <2>6 DEF Stored
    <3>2. Field(users'[v], "method", "") = Field(users[v], "method", "")
      BY <2>3, <2>4, <3>1 DEF Stored
    <3>. QED
      BY <2>5, <3>1, <3>2 DEF Seeded
  <2>. QED
    BY <2>6 DEF OneAccount, Seeded
<1>5. CASE SessionNext
  <2>0. topic = "session" /\ topic' = topic
    BY <1>5 DEF SessionNext
  <2>1. ASSUME NEW w, NEW b, PatchUser(w, [enabled |-> b]) PROVE OneAccount'
    <3>1. PICK d : d = [enabled |-> b]
      OBVIOUS
    <3>2. DOMAIN d # {} /\ DOMAIN d \cap {"tenant_id", "name", "method"} = {}
      BY <3>1
    <3>3. w \in Stored /\ users' = [users EXCEPT ![w] = Merged(d, users[w])]
      BY <2>1, <3>1 DEF PatchUser
    <3>. QED
      BY <1>4, <2>0, <3>2, <3>3
  <2>2. ASSUME NEW a, SelfPasswordChange(a, 1, "p1", "p2") PROVE OneAccount'
    <3>1. PICK d : d = [password |-> "p2"]
      OBVIOUS
    <3>2. DOMAIN d # {} /\ DOMAIN d \cap {"tenant_id", "name", "method"} = {}
      BY <3>1
    <3>3. 1 \in Stored /\ users' = [users EXCEPT ![1] = Merged(d, users[1])]
      BY <2>2, <3>1 DEF SelfPasswordChange
    <3>. QED
      BY <1>4, <2>0, <3>2, <3>3
  <2>3. UNCHANGED accountVars => UNCHANGED users
    BY DEF accountVars
  <2>4. ASSUME NEW s, ReopenTenant(s) PROVE UNCHANGED accountVars
    BY <2>4 DEF ReopenTenant
  <2>. QED
    BY <1>1, <1>5, <2>0, <2>1, <2>2, <2>3, <2>4 DEF SessionNext
<1>. QED
  BY <1>2, <1>3, <1>5 DEF Next

--------------------------------------------------------------------------
(* Sessions are held                                                       *)

(* Every behaviour starts with the invariant.                              *)
LEMMA SessionsStart ==
  ASSUME Init
  PROVE  SessionsInv
<1>1. \A c \in Clients : login[c] = NoRequest
  BY DEF Init
<1>2. \A t \in Tokens : refresh[t] = NoDoc
  BY DEF Init
<1>3. LoginsSound
  BY <1>1, NoRequestSound DEF LoginsSound
<1>4. CookieSound
  BY DEF Init, CookieSound
<1>5. TokenInv
  BY <1>1, <1>2, NoRequestSound DEF TokenInv, OneLive, ClaimsAlone, SessionsSigned, Live, Claiming
<1>6. OneAccount
  <2> SUFFICES ASSUME topic = "session", NEW u \in Stored
               PROVE  Seeded(u, users[u])
    BY DEF OneAccount
  <2>1. PICK d : d = User("acme", "ann", "local", {"viewer"})
    OBVIOUS
  <2>2. PICK e : e = User("acme", "ann", "ldap", {"viewer"})
    OBVIOUS
  <2>3. Field(d, "method", "") = "local" /\ Field(e, "method", "") = "ldap"
    BY <2>1, <2>2 DEF User, Field
  <2>4. u \in Uids /\ users[u] # NoDoc /\ users = InitUsers
    BY DEF Init, Stored
  <2>5. (u = 1 /\ users[u] = d) \/ (u = 2 /\ users[u] = e)
    BY <2>1, <2>2, <2>4 DEF InitUsers
  <2>6. CASE u = 1 /\ users[u] = d
    BY <2>3, <2>6 DEF Seeded
  <2>7. CASE u = 2 /\ users[u] = e
    BY <2>3, <2>7 DEF Seeded
  <2>. QED
    BY <2>5, <2>6, <2>7
<1>. QED
  BY <1>3, <1>4, <1>5, <1>6 DEF SessionsInv

(* Two rows of a session that are live are one.                            *)
LEMMA LiveIsOne ==
  ASSUME OneLive
  PROVE  OneLiveToken
<1> SUFFICES ASSUME NEW s \in Tokens \ raced
             PROVE  Cardinality({t \in Tokens : Active(t) /\ refresh[t].session = s}) <= 1
  BY DEF OneLiveToken
<1>1. PICK S : S = {t \in Tokens : Active(t) /\ refresh[t].session = s}
  OBVIOUS
<1>2. \A t, u \in S : t = u
  BY <1>1 DEF OneLive, Live, Active
<1>3. CASE S = {}
  <2>1. Cardinality(S) = 0
    BY <1>3, FS_EmptySet
  <2>. QED
    BY <1>1, <2>1
<1>4. CASE S # {}
  <2>1. PICK t \in S : TRUE
    BY <1>4
  <2>2. S = {t}
    BY <1>2, <2>1
  <2>3. Cardinality(S) = 1
    BY <2>2, FS_Singleton
  <2>. QED
    BY <1>1, <2>3
<1>. QED
  BY <1>3, <1>4

(* A session that no two requests raced for has at most one refresh token  *)
(* that works; an account that was disabled, or a tenant that was          *)
(* suspended, from the beginning of a request to its end opens no session, *)
(* unless the account is one of LDAP or the lookup was not answered;       *)
(* a sign-in opens the tenant its own start named; and an API key's bearer *)
(* may do only what the owner may do now (refresh.go VerifyAndRotate,      *)
(* routes_login.go, oidc_state.go, apikey.go Resolve): for any number of   *)
(* clients, tokens and keys, any directory and any lease.                  *)
THEOREM SessionsStayHeld == Spec => []SessionsHold
<1>1. Init => GuardedInv /\ SessionsInv
  BY GuardedStart, SessionsStart
<1>2. GuardedInv /\ SessionsInv /\ [Next]_vars => SessionsInv'
  <2> SUFFICES ASSUME GuardedInv, SessionsInv, [Next]_vars PROVE SessionsInv'
    OBVIOUS
  <2>1. LoginTyped /\ RefreshShape /\ UsersTyped /\ RegistryTyped
    BY DEF GuardedInv, AccountsInv, TenantsInv, QuietInv, PurgeInv
  <2>2. LoginsSound' /\ TokenInv'
    BY <2>1, RequestsKept
  <2>3. CookieSound' /\ OneAccount'
    BY <2>1, CookieKept, AccountKept DEF SessionsInv
  <2>. QED
    BY <2>2, <2>3 DEF SessionsInv
<1>3. SessionsInv => SessionsHold
  <2> SUFFICES ASSUME SessionsInv PROVE SessionsHold
    OBVIOUS
  <2>1. \A c \in Clients : \A l \in {login[c]} : Sound(l)
    BY DEF SessionsInv, LoginsSound
  <2>2. OneLiveToken
    BY LiveIsOne DEF SessionsInv, TokenInv
  <2>3. DisabledGetNothing
    BY <2>1 DEF DisabledGetNothing, Sound
  <2>4. SuspendedOpensNothing
    BY <2>1 DEF SuspendedOpensNothing, Sound
  <2>5. SignInKeepsOrg
    BY <2>1 DEF SignInKeepsOrg, Sound
  <2>. QED
    BY <2>2, <2>3, <2>4, <2>5, KeysWithinOwners DEF SessionsHold
<1>. QED
  BY <1>1, <1>2, <1>3, GuardedKept, PTL DEF Spec

=============================================================================

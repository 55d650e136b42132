------------------------------ MODULE MCAccess ------------------------------
(***************************************************************************)
(* Accounts, sessions and tenants on small instances.  A behaviour is      *)
(* about one topic: "accounts" (guarded writes of users and roles),        *)
(* "session" (login, refresh and logout), "keys" (API keys), "signin"      *)
(* (single sign-on), "tenant" (the life of a tenant and its ingest token)  *)
(* or "boot" (servers booting on one database, and the migration).         *)
(***************************************************************************)
EXTENDS Tenancy

CONSTANTS Topics, MaxRequests

\* The tenant documents the requests below make.
LoginKeys == {"k1", "k2", "k3"}
TenantDoc == [status : {"active", "suspended"}, listed : BOOLEAN, token : IngestTokens \cup {""}, login_key : LoginKeys \cup {""}]

\* The tokens and the accounts that the requests below name.
ASSUME AccessAssumption == {"k1", "k2"} \subseteq IngestTokens /\ {1, 2, 3} \subseteq Uids

VARIABLES topic,
          budget      \* requests and administrators' changes left, at most MaxRequests
vars == <<topic, budget, accountVars, sessionVars, tenancyVars>>

Symmetry == Permutations(Requests) \cup Permutations(Clients) \cup Permutations(Nodes)

Spend == budget > 0 /\ budget' = budget - 1

--------------------------------------------------------------------------
(* Documents and callers                                                   *)

Role(t, n, ps, gs) == [tenant_id |-> t, name |-> n, permissions |-> ps, groups |-> gs]
SeedRoles ==
    {Role(DefaultTenant, PlatformAdminRole, {PermReadTenant, PermWriteTenant}, {}),
     Role(DefaultTenant, "admin", {AllPermission}, {}),
     Role("acme", "admin", {AllPermission}, {"ops"}),
     Role("acme", "viewer", {RO("all")}, {})}

User(t, n, method, rs) ==
    [tenant_id |-> t, name |-> n, method |-> method, roles |-> rs, enabled |-> TRUE, password |-> "p1"]
NoUsers == [u \in Uids |-> NoDoc]

Root == Claims("root", "local", DefaultTenant, {"admin", PlatformAdminRole}, {AllPermission, PermReadTenant, PermWriteTenant}, {})
Admin == Claims("bob", "local", DefaultTenant, {"admin"}, {AllPermission}, {})
AcmeAdmin == Claims("ann", "local", "acme", {"admin"}, {AllPermission}, {})

Patches == {[enabled |-> FALSE], [roles |-> {}], [roles |-> {PlatformAdminRole}], [static_roles |-> {PlatformAdminRole}, roles |-> {"admin"}]}
Bodies == {[name |-> "new", method |-> "local", roles |-> {PlatformAdminRole}],
           [name |-> "root", method |-> "local", roles |-> {"admin"}, enabled |-> TRUE],
           [name |-> "new", method |-> "local", tenant_id |-> DefaultTenant, roles |-> {PlatformAdminRole}]}

UserMetas ==
    [name : {"rule", "user", "comment"},
     defaults : {<<>>, [policy |-> [read |-> {Anyone}, write |-> {<<"can_comment", "">>}]]},
     routes : {[p \in {"/self"} |-> [policy |-> [read |-> {Anyone}, write |-> {}]]]}]

--------------------------------------------------------------------------
(* Initial states                                                          *)

Tenant(status, token) == [status |-> status, listed |-> TRUE, token |-> token, login_key |-> token]

InitUsers ==
    [u \in Uids |->
        CASE topic = "accounts" /\ u = 1 -> User(DefaultTenant, "root", "local", {"admin", PlatformAdminRole})
          [] topic = "accounts" /\ u = 2 -> User(DefaultTenant, "eve", "local", {PlatformAdminRole})
          [] topic \in {"session", "keys", "signin"} /\ u = 1 ->
                User("acme", "ann", IF topic = "signin" THEN "oidc" ELSE "local", {"viewer"})
          [] topic = "session" /\ u = 2 -> User("acme", "ann", "ldap", {"viewer"})
          [] OTHER -> NoDoc]

Init ==
    /\ topic \in Topics /\ budget = MaxRequests
    /\ users = InitUsers /\ spent = {} /\ roles = SeedRoles
    /\ crud = [r \in Requests |-> Idle] /\ audit = {} /\ lapses = {}
    /\ clock = 0 /\ refresh = [t \in Tokens |-> NoDoc] /\ keys = [k \in Keys |-> NoDoc]
    /\ access = IF topic # "keys" THEN {}
                ELSE {[claims |-> Claims("ann", "local", "acme", {"admin"}, {AllPermission}, {}), expires |-> 2, refresh |-> 0, session |-> 0],
                      [claims |-> Claims("ann", "local", "acme", {"viewer"}, {RO("all")}, {"ops"}), expires |-> 2, refresh |-> 0, session |-> 0]}
    /\ login = [c \in Clients |-> NoRequest]
    /\ registry = [t \in {DefaultTenant, "acme", "beta"} |->
            IF t = DefaultTenant THEN Tenant("active", "")
            ELSE IF t = "acme" THEN Tenant("active", "k1") ELSE NoDoc]
    /\ cookie = NoDoc /\ codes = {} /\ raced = {}
    /\ rows = [col \in Collections |-> [t \in Slugs |->
            IF (t = "acme" /\ topic = "tenant") \/ (t = DefaultTenant /\ topic # "boot") THEN "live" ELSE "none"]]
    /\ admin = [t \in Slugs |-> IF topic = "tenant" /\ t = "acme" THEN "p1" ELSE ""]
    /\ jobs = [r \in Requests |-> Idle] /\ strays = {}
    /\ \/ table = [k \in {"k1"} |-> "acme"] /\ dirty = "none"
       \/ table = <<>> /\ dirty = "lost" /\ topic = "tenant"
    /\ legacy = IF topic = "boot" THEN ScopedSet ELSE {}
    /\ migration = 0 /\ secret = NoSecret
    /\ boots = [n \in Nodes |-> [pc |-> "down", key |-> NoSecret, late |-> FALSE]]

--------------------------------------------------------------------------
(* One topic at a time                                                     *)

AccountsNext ==
    /\ topic = "accounts"
    /\ \/ /\ Spend
          /\ \/ \E r \in Requests, d \in Patches : SubmitWrite(r, RootClaims, "PATCH", 1, d)
             \/ \E r \in Requests, c \in {Root, Admin, AcmeAdmin} :
                  \/ \E u \in {1, 2}, d \in Patches : SubmitWrite(r, c, "PATCH", u, d)
                  \/ \E u \in {1, 3}, d \in Bodies : SubmitWrite(r, c, "PUT", u, d)
                  \/ \E d \in Bodies : SubmitWrite(r, c, "POST", 0, d)
                  \/ c # Root /\ \E u \in {2, 3}, d \in {[enabled |-> FALSE], [roles |-> {}]} : SubmitWrite(r, c, "POST", u, d)
                  \/ \E u \in {1, 2} : SubmitDelete(r, c, {u}, {})
                  \/ SubmitDelete(r, c, {}, {"eve", "new"})
             \/ \E c \in {Admin, AcmeAdmin}, kind \in {"POST", "PUT", "PATCH"}, ps \in {{RO("all")}, {PermReadTenant}} :
                  \/ \E n \in {"viewer", PlatformAdminRole}, at \in {{}} \cup {{r} : r \in {q \in roles : q.name # "admin"}} :
                        kind # "PATCH" /\ WriteRole(c, kind, at, [name |-> n, permissions |-> ps])
                  \/ kind = "PATCH" /\ \E r \in roles : WriteRole(c, kind, {r}, [permissions |-> ps])
             \/ \E c \in {Admin, AcmeAdmin}, role \in roles : DeleteRole(c, role)
       \/ (\E r \in Requests : Guard(r) \/ CommitCreate(r) \/ CommitUpdate(r) \/ CommitDelete(r)) /\ UNCHANGED budget
    /\ UNCHANGED <<topic, sessionVars, tenancyVars>>

LoginStart(c) ==
    \/ \E m \in {"local", "ldap"}, p \in {"p1", "p2"} : handleLogin(c, m, "ann", "acme", p)
    \/ handleLoginAnonymous(c, "acme")
    \/ \E t \in Tokens : handleRefresh(c, t) \/ handleLogout(c, t)

LoginNext(c) ==
    \/ LoginTenant(c) \/ signSession(c) \/ Respond(c) \/ Crash(c)
    \/ RefreshRevoke(c) \/ RefreshIssue(c) \/ RefreshCheck(c) \/ RefreshSign(c) \/ Revoke(c)

ReopenTenant(status) ==
    /\ registry' = [registry EXCEPT !["acme"].status = status]
    /\ Reopened("acme", [status |-> status])
    /\ UNCHANGED <<accountVars, clock, refresh, access, keys, cookie, codes, raced>>

SessionNext ==
    /\ topic = "session"
    /\ \/ (\E c \in Clients : LoginStart(c)) /\ Spend /\ UNCHANGED accountVars
       \/ ((\E c \in Clients : LoginNext(c)) \/ CleanupRefresh \/ Tick) /\ UNCHANGED <<budget, accountVars>>
       \/ (\E u \in {1, 2}, b \in BOOLEAN : PatchUser(u, [enabled |-> b])) /\ Spend
       \/ (\E s \in {"active", "suspended"} : ReopenTenant(s)) /\ Spend
       \/ (\E a \in access : SelfPasswordChange(a, 1, "p1", "p2")) /\ Spend
    /\ UNCHANGED <<topic, tenancyVars>>

KeysNext ==
    /\ topic = "keys"
    /\ \/ /\ \/ \E a \in access, k \in Keys, n \in {"x", "y"}, ttl \in {1, MaxTTL + 1},
                   ps \in SUBSET {AllPermission, RO("rule"), RW("rule"), PermReadTenant, RO("all")} : handleCreateMyAPIKey(a, k, n, ps, ttl)
             \/ \E a \in access, k \in Keys : handleDeleteMyAPIKey(a, k)
             \/ \E k \in Keys, b \in BOOLEAN, e \in {0, clock + MaxTTL + 1} : PatchKey(k, b, e)
             \/ CleanupKeys \/ Tick
          /\ UNCHANGED accountVars
       \/ \E d \in {[enabled |-> FALSE], [enabled |-> TRUE], [roles |-> {}], [roles |-> {"viewer"}], [roles |-> {"admin"}]} : PatchUser(1, d)
    /\ UNCHANGED <<topic, budget, tenancyVars>>

SignInNext ==
    /\ topic = "signin"
    /\ \/ /\ \/ \E s \in {1, 2}, org \in {"acme", "", "beta"} : handleOIDCStart(s, org)
             \/ \E c \in Clients, g \in {{}, {"ops"}} : handleOIDCCallback(c, "ann", g)
             \/ \E c \in Clients : OIDCTenant(c) \/ signSession(c) \/ Respond(c)
             \/ Tick
          /\ UNCHANGED accountVars
       \/ \E c \in Clients : provisionOIDCUser(c)
       \/ \E b \in BOOLEAN : PatchUser(1, [enabled |-> b])
       \/ \E s \in {"active", "suspended"} : ReopenTenant(s)
    /\ UNCHANGED <<topic, budget, tenancyVars>>

TenantNext ==
    /\ topic = "tenant"
    /\ \/ /\ Spend /\ UNCHANGED login
          /\ \E r \in Requests, t \in {"acme", "beta"} :
                \/ handleTenantCreate(r, Root, t, FALSE, "k1", "k2")
                \/ handleTenantAdminReset(r, Root, t)
                \/ \E p \in {[status |-> "suspended"], [status |-> "active"], [token |-> "k2"], [login_key |-> "k3"]} :
                     handleTenantUpdate(r, Root, t, p)
                \/ handleTenantDelete(r, Root, t)
       \/ /\ \E r \in Requests : UpdateTenant(r)
          /\ UNCHANGED budget
       \/ /\ \/ \E r \in Requests : \/ seedTenant(r) \/ CreateAdmin(r, "p2") \/ ResetAdmin(r, "p3")
                                     \/ DeleteSuspend(r) \/ DeletePurge(r) \/ DeleteRegistry(r) \/ AbandonJob(r)
             \/ \E col \in {"record", "refresh_token"} : SessionWrites("acme", col)
             \/ \E k \in IngestTokens : IngestTenant(k)
             \/ ReloadIngestTokens
          /\ UNCHANGED <<budget, login>>
    /\ UNCHANGED <<topic, accountVars, clock, refresh, access, keys, cookie, codes, raced>>

BootNext ==
    /\ topic = "boot"
    /\ \/ \E n \in Nodes : BootRead(n) \/ BootWriteSecret(n) \/ BootstrapDB(n) \/ BootMarker(n) \/ EnsureRoot(n) \/ Shutdown(n)
       \/ MigrationStep \/ MigrationRestart
    /\ UNCHANGED <<topic, budget, accountVars, clock, refresh, access, keys, login, cookie, codes, raced>>

Next == AccountsNext \/ SessionNext \/ KeysNext \/ SignInNext \/ TenantNext \/ BootNext

Spec == Init /\ [][Next]_vars

--------------------------------------------------------------------------
(* Properties                                                              *)

\* Every variable holds a value of its kind.
TypeOK ==
    /\ \A u \in Stored : users[u].tenant_id \in Slugs /\ "uid" \notin DOMAIN users[u]
    /\ \A t \in Tokens : refresh[t] # NoDoc => refresh[t].expires \in 0..(MaxClock + RefreshLease)
    /\ \A c \in Clients : login[c].pc \in {"idle", "tenant", "sign", "done", "revoke", "issue", "check", "resign", "logout",
                                           "oidctenant", "provision"}
    /\ \A r \in Requests : jobs[r].pc \in {"idle", "seed", "marker", "admin", "reset", "update", "suspend", "purge", "remove"}
    /\ \A col \in Collections, t \in Slugs : rows[col][t] \in {"none", "live", "late"}
    /\ \A n \in Nodes : boots[n].pc \in {"down", "draw", "seed", "mark", "root", "up"}
    /\ DOMAIN table \subseteq IngestTokens /\ strays \subseteq Slugs

\* GuardWrite and GuardDelete: as long as guarded writes come one after the
\* other, and no create carries the uid of a holder, the default tenant keeps an
\* enabled holder of the platform role, whoever demotes, disables, replaces or
\* deletes whom.
LastAdminKept ==
    topic = "accounts" /\ lapses \cap {"overlap", "upsert"} = {} => enabledPlatformAdminExists(DefaultTenant, {})

\* The platform role and its permissions stay in the default tenant, and no
\* role but the platform one carries them, whatever a tenant's administrator
\* writes; only a create that carries the platform role's own uid can rename it.
ReservedConfined ==
    /\ \A u \in Stored : docHasPlatformAdmin(users[u]) => users[u].tenant_id = DefaultTenant
    /\ "upsert" \notin lapses => RogueReservedRoles(roles) = {}
    /\ \A r \in roles : IsReservedPlatformRole(r.name) => r.tenant_id = DefaultTenant

\* emitAudit: a user document that is gone has its audit row, unless a bulk
\* delete removed one that was not there when it searched, or a row of the audit
\* could not be written.
DeletionsAudited == lapses \cap {"overlap", "audit"} = {} => \A u \in spent : <<"delete", u>> \in audit

\* VerifyAndRotate: a session has at most one refresh token that still works,
\* unless two requests held the same token at once.
OneLiveToken ==
    \A s \in Tokens \ raced : Cardinality({t \in Tokens : Active(t) /\ refresh[t].session = s}) <= 1

\* A revoked refresh row is never active again.
RevokedStaysRevoked ==
    [][\A t \in Tokens : refresh[t] # NoDoc /\ refresh[t].revoked => refresh'[t] = NoDoc \/ refresh'[t].revoked]_vars

\* A local login, a refresh and a single sign-on whose lookup of the account is
\* answered give no token to an account that was disabled from the beginning of
\* the request to its end.  An LDAP login does not look at the account.
DisabledGetNothing ==
    \A c \in Clients : login[c].pc = "done" /\ login[c].off => login[c].id.method = "ldap" /\ "session" \notin DOMAIN login[c]

\* No session is opened in a tenant that was suspended from the beginning of
\* the login to its end, if its lookup is answered.  (A refresh does not look at
\* the tenant.)
SuspendedOpensNothing ==
    \A c \in Clients : login[c].pc = "done" /\ "session" \notin DOMAIN login[c] => ~ login[c].shut

\* APIKeyStore.Resolve: on every route, a key's bearer may do only what its
\* owner may do now, whatever the owner could do when the key was made; and it
\* never passes the platform gate.
KeyWithinOwner ==
    \A k \in Keys : keys[k] # NoDoc => \A bearer \in ResolveKey(k) :
        /\ ~ RequirePlatformPerm(bearer, {PermReadTenant, PermWriteTenant})
        /\ \A meta \in UserMetas, path \in {"", "/self"}, verb \in {"GET", "POST"} :
              AuthorizeRoute(meta, path, verb, bearer, NoDoc) => IsAuthorized(meta, path, verb, resolveRoles(KeyOwner(k)))

\* handleOIDCCallback: the tenant a sign-in opens is the one its own start
\* named, whatever other sign-ins the browser has begun since.
SignInKeepsOrg ==
    \A c \in Clients : "start" \in DOMAIN login[c] =>
        login[c].id.tenant = IF login[c].start.org = "" THEN DefaultTenant ELSE login[c].start.org

\* handleTenantDelete: once a tenant's document is gone, no row is left in a
\* tenant-scoped collection but those written after the deletion had swept it,
\* whatever was retried, created or abandoned meanwhile.
PurgeComplete == \A t \in Slugs \ Existing, col \in ScopedSet : topic = "tenant" => rows[col][t] # "live"

\* A tenant loses rows only to a deletion of that tenant.
OthersKept ==
    [][\A col \in Collections, t \in Slugs :
         rows[col][t] # "none" /\ rows'[col][t] = "none" => \E r \in Requests : jobs[r].pc = "purge" /\ jobs[r].id = t]_vars

\* StartIngestTokenReloader: with no announcement left, and neither the last one
\* nor its reload lost, the table in memory is the one the registry asks for.
IngestTableFollows == dirty = "none" => table \in Tables(registry)

\* The login page and a tenant's login link offer only tenants that a login is
\* then let into.
OfferedCanLogin ==
    \A t \in handleLoginIndex \cup UNION {handleLoginResolveTenant(k) : k \in LoginKeys} : checkTenantStatus(t)

\* RunMultitenancyMigration: when the sentinel says that it is done, no row is
\* left without a tenant but the sentinel's own, wherever earlier attempts
\* stopped.
MigrationStamps == migration = Sentinel => legacy = {SentinelRow}

\* EnsureSecrets: servers sign with the key of the database, unless one of them
\* has written its key over another's.
ServersShareKey ==
    (\A n \in Nodes : ~ boots[n].late) =>
        \A n \in Nodes : boots[n].pc \notin {"down", "draw"} => boots[n].key = secret

\* handleTenantDelete: "its data is cascade-purged across every tenant-scoped
\* collection": nothing a deleted tenant had is left.
NothingLeftBehind == \A t \in Slugs \ Existing, col \in Collections : topic = "tenant" => rows[col][t] # "live"

MCScoped == <<"record", "user", "role", "refresh_token", "general">>
MCDirectory == "ann" :> [password |-> "p2", member |-> {<<"ops", "it">>, <<"fun", "misc">>}]

\* Guarded user and role writes keep an administrator, confine the platform
\* role and leave their audit rows (user/plugin.go, role/plugin.go, crud.go).
AccountsGuarded == TypeOK /\ LastAdminKept /\ ReservedConfined /\ DeletionsAudited

\* No session, sign-in or API key gives more than its account and its tenant
\* may have now (routes_login.go, refresh.go, apikey.go).
SessionsHold == OneLiveToken /\ DisabledGetNothing /\ SuspendedOpensNothing /\ SignInKeepsOrg /\ KeyWithinOwner

\* A tenant is created, deleted, migrated, offered and served as a whole
\* (routes_tenant.go, ingest_reload.go, migrate.go, secrets.go).
TenantsWhole == PurgeComplete /\ IngestTableFollows /\ OfferedCanLogin /\ MigrationStamps /\ ServersShareKey

\* A revoked token stays revoked and a tenant's rows go with the tenant only
\* (refresh.go markRevoked, routes_tenant.go handleTenantDelete).
StepsStayHome == RevokedStaysRevoked /\ OthersKept
=============================================================================

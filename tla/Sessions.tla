------------------------------ MODULE Sessions ------------------------------
(***************************************************************************)
(* Sessions (internal/auth, internal/api/routes_login.go, routes_user.go   *)
(* and oidc_state.go, the authentication middleware).  A login checks the  *)
(* credentials, then the tenant, then resolves the roles, signs an access  *)
(* token and stores a refresh row; a refresh looks its row up, revokes it, *)
(* stores a successor, then checks the account and signs.  Every database  *)
(* call is a step of its own.                                              *)
(*                                                                         *)
(* A token is its number; the hash that stands for it in the database is   *)
(* the same number.  Signatures are not modelled: a token verifies when it *)
(* was signed and has not expired.  The clock is counted in leases.        *)
(***************************************************************************)
EXTENDS Accounts

CONSTANTS Tokens,        \* refresh tokens, in the order they are drawn
          Keys,          \* API keys
          Clients,       \* request handlers of the login routes
          Providers,     \* the enabled providers, a set of methods
          Directory,     \* the LDAP tree: [name -> password and member, a set of <<group, branch>>]
          GroupDN,       \* the branches whose groups count; {} for all
          AnonymousAdmin,
          RefreshLease, TokenLease, MaxTTL, MaxClock

ASSUME TokensAssumption == Tokens \subseteq Nat
ASSUME LeaseAssumption == RefreshLease \in Nat /\ MaxClock \in Nat

VARIABLES clock,
          refresh,       \* [Tokens -> row or NoDoc]
          access,        \* the access tokens signed
          keys,          \* [Keys -> row or NoDoc]
          login,         \* [Clients -> the request's progress]
          registry,      \* the tenant documents: [slug -> document or NoDoc]
          cookie,        \* the browser's sign-in cookie, NoDoc when it has none
          codes,         \* sign-ins the identity provider has answered
          raced          \* sessions in which two requests held one token

sessionVars == <<clock, refresh, access, keys, login, registry, cookie, codes, raced>>

Slugs == DOMAIN registry
Unused ==
    {t \in Tokens : /\ refresh[t] = NoDoc
                    /\ \A a \in access : a.refresh # t
                    /\ \A c \in Clients : login[c].pc \in {"revoke", "check", "resign", "logout"} => login[c].token # t}
NextToken == CHOOSE t \in Unused : \A u \in Unused : t <= u

Accounts(t) == {users[u] : u \in InTenant(t)}
RolesOf(t) == {r \in roles : r.tenant_id = t}

--------------------------------------------------------------------------
(* Identities                                                              *)

Identity(name, method, tenant, groups) == [sub |-> name, method |-> method, tenant |-> tenant, groups |-> groups]

\* LDAP: the groups of the entry that lie under a configured branch.
filterGroups(member) == {g[1] : g \in {m \in member : GroupDN = {} \/ m[2] \in GroupDN}}

\* The identities a correct password yields, a set of at most one.
AuthenticateLocal(name, tenant, password) ==
    {Identity(name, "local", tenant, Field(u, "groups", {})) :
        u \in {v \in UserDocs(Accounts(tenant), name, "local") :
                  /\ name # "" /\ password # "" /\ Field(v, "password", "") = password
                  /\ Field(v, "enabled", TRUE)}}

\* The entry is searched for, then bound to with the password.
AuthenticateLDAP(name, tenant, password) ==
    {Identity(name, "ldap", tenant, filterGroups(Directory[n].member)) :
        n \in {m \in DOMAIN Directory : m = name /\ password # "" /\ Directory[m].password = password}}

AuthenticateAnonymous(tenant) == {Identity("anonymous", "anonymous", tenant, {})}

Authenticate(method, name, tenant, password) ==
    CASE method \notin Providers -> {}
      [] method = "anonymous" -> AuthenticateAnonymous(tenant)
      [] method = "ldap" -> AuthenticateLDAP(name, tenant, password)
      [] method = "local" -> AuthenticateLocal(name, tenant, password)

\* A tenant without a document passes.
checkTenantStatus(t) == t \notin Slugs \/ registry[t] = NoDoc \/ registry[t].status # "suspended"

\* resolveRoles, with the anonymous backend's optional admin role.
resolveRoles(id) ==
    LET got == RoleResolver(Accounts(id.tenant), RolesOf(id.tenant), id.sub, id.method, id.groups)
    IN  IF id.method = "anonymous" /\ AnonymousAdmin
        THEN Claims(id.sub, id.method, id.tenant, {"admin"}, {AllPermission}, id.groups)
        ELSE Claims(id.sub, id.method, id.tenant, got.roles, got.perms, id.groups)

Disabled(id) ==
    \E u \in UserDocs(Accounts(id.tenant), id.sub, id.method) : ~ Field(u, "enabled", TRUE)

--------------------------------------------------------------------------
(* The refresh store.  session, the number of the login the row descends   *)
(* from, is carried for the properties only.                               *)

RefreshRow(id, session) ==
    [tenant |-> id.tenant, id |-> id, expires |-> clock + RefreshLease, revoked |-> FALSE, session |-> session]

Active(t) == refresh[t] # NoDoc /\ ~ refresh[t].revoked /\ (refresh[t].expires = 0 \/ clock < refresh[t].expires)

\* Sign; the refresh token that comes with it is kept for the properties.
Sign(claims, t, session) ==
    access' = access \cup {[claims |-> claims, expires |-> clock + TokenLease, refresh |-> t, session |-> session]}

Verify(a) == clock < a.expires

\* markRevoked: the row is found again, and upserted.  When it is gone, the
\* upsert leaves a revoked row that belongs to no tenant and never expires.
markRevoked(t) ==
    refresh' = [refresh EXCEPT ![t] =
        IF @ = NoDoc
        THEN [tenant |-> "", id |-> Identity("", "", "", {}), expires |-> 0, revoked |-> TRUE, session |-> 0]
        ELSE [@ EXCEPT !.revoked = TRUE]]

CleanupRefresh ==
    /\ refresh' = [t \in Tokens |->
            IF refresh[t] # NoDoc /\ refresh[t].expires # 0 /\ refresh[t].expires < clock THEN NoDoc ELSE refresh[t]]
    /\ refresh' # refresh
    /\ UNCHANGED <<clock, access, keys, login, registry, cookie, codes, raced>>

--------------------------------------------------------------------------
(* Login.  off and shut follow, for the properties, whether the account    *)
(* was disabled and the tenant suspended ever since the request began, as  *)
(* far as the database answered: a check whose lookup fails is passed.     *)

Begun(id) == [off |-> Disabled(id), shut |-> ~ checkTenantStatus(id.tenant)]
NoRequest == [pc |-> "idle"]

handleLogin(c, method, name, tenant, password) ==
    /\ login[c].pc = "idle"
    /\ \E id \in Authenticate(method, name, tenant, password) :
          login' = [login EXCEPT ![c] = Merged([pc |-> "tenant", id |-> id], Begun(id))]
    /\ UNCHANGED <<clock, refresh, access, keys, registry, cookie, codes, raced>>

\* handleLoginAnonymous has the same steps, without credentials.
handleLoginAnonymous(c, tenant) == handleLogin(c, "anonymous", "", tenant, "")

\* Mutant of LoginTenant: the tenant is not looked at.
LoginTenantAnyway(c) ==
    /\ login[c].pc = "tenant"
    /\ login' = [login EXCEPT ![c].pc = "sign"]
    /\ UNCHANGED <<clock, refresh, access, keys, registry, cookie, codes, raced>>

\* The check of the tenant's status, and the step after it.
PassTenant(c, next) ==
    /\ \/ login' = [login EXCEPT ![c] = IF checkTenantStatus(@.id.tenant) THEN [@ EXCEPT !.pc = next] ELSE NoRequest]
       \/ login' = [login EXCEPT ![c] = [@ EXCEPT !.pc = next, !.shut = FALSE]]
    /\ UNCHANGED <<clock, refresh, access, keys, registry, cookie, codes, raced>>

LoginTenant(c) == login[c].pc = "tenant" /\ PassTenant(c, "sign")

\* signSession: the refresh row's number is the session's.
signSession(c) ==
    /\ login[c].pc = "sign" /\ Unused # {}
    /\ LET id == login[c].id
       IN  /\ refresh' = [refresh EXCEPT ![NextToken] = RefreshRow(id, NextToken)]
           /\ Sign(resolveRoles(id), NextToken, NextToken)
    /\ login' = [login EXCEPT ![c] = [@ EXCEPT !.pc = "done"]]
    /\ UNCHANGED <<clock, keys, registry, cookie, codes, raced>>

\* The answer is written (and last_login updated).
Respond(c) ==
    /\ login[c].pc = "done"
    /\ login' = [login EXCEPT ![c] = NoRequest]
    /\ UNCHANGED <<clock, refresh, access, keys, registry, cookie, codes, raced>>

--------------------------------------------------------------------------
(* Refresh and logout                                                      *)

Holders(t) == {c \in Clients : login[c].pc \in {"revoke", "logout"} /\ login[c].token = t}

handleRefresh(c, t) ==
    /\ login[c].pc = "idle" /\ Active(t)
    /\ login' = [login EXCEPT ![c] =
            Merged([pc |-> "revoke", id |-> refresh[t].id, token |-> t, session |-> refresh[t].session],
                   Begun(refresh[t].id))]
    /\ raced' = IF Holders(t) = {} THEN raced ELSE raced \cup {refresh[t].session}
    /\ UNCHANGED <<clock, refresh, access, keys, registry, cookie, codes>>

\* Mutant of RefreshRevoke: the row is left to expire.
RefreshRevokeLater(c) ==
    /\ login[c].pc = "revoke"
    /\ login' = [login EXCEPT ![c].pc = "issue"]
    /\ UNCHANGED <<clock, refresh, access, keys, registry, cookie, codes, raced>>

RefreshRevoke(c) ==
    /\ login[c].pc = "revoke"
    /\ markRevoked(login[c].token)
    /\ login' = [login EXCEPT ![c].pc = "issue"]
    /\ UNCHANGED <<clock, access, keys, registry, cookie, codes, raced>>

\* Mutant of RefreshIssue: the token that was presented is issued again.
RefreshIssueSame(c) ==
    /\ login[c].pc = "issue"
    /\ refresh' = [refresh EXCEPT ![login[c].token] = RefreshRow(login[c].id, login[c].session)]
    /\ login' = [login EXCEPT ![c].pc = "check"]
    /\ UNCHANGED <<clock, access, keys, registry, cookie, codes, raced>>

RefreshIssue(c) ==
    /\ login[c].pc = "issue" /\ Unused # {}
    /\ refresh' = [refresh EXCEPT ![NextToken] = RefreshRow(login[c].id, login[c].session)]
    /\ login' = [login EXCEPT ![c].pc = "check", ![c].token = NextToken]
    /\ UNCHANGED <<clock, access, keys, registry, cookie, codes, raced>>

\* Mutant of RefreshCheck: the account is not looked at again.
RefreshCheckNothing(c) ==
    /\ login[c].pc = "check"
    /\ login' = [login EXCEPT ![c].pc = "resign"]
    /\ UNCHANGED <<clock, refresh, access, keys, registry, cookie, codes, raced>>

\* userDisabled: the successor of a disabled account's token is revoked again.
RefreshCheck(c) ==
    /\ login[c].pc = "check"
    /\ \/ /\ Disabled(login[c].id)
          /\ markRevoked(login[c].token) /\ login' = [login EXCEPT ![c] = NoRequest]
       \/ /\ ~ Disabled(login[c].id)
          /\ login' = [login EXCEPT ![c].pc = "resign"] /\ UNCHANGED refresh
       \/ login' = [login EXCEPT ![c] = [@ EXCEPT !.pc = "resign", !.off = FALSE]] /\ UNCHANGED refresh
    /\ UNCHANGED <<clock, access, keys, registry, cookie, codes, raced>>

RefreshSign(c) ==
    /\ login[c].pc = "resign"
    /\ Sign(resolveRoles(login[c].id), login[c].token, login[c].session)
    /\ login' = [login EXCEPT ![c].pc = "done"]
    /\ UNCHANGED <<clock, refresh, keys, registry, cookie, codes, raced>>

\* handleLogout: an unknown token is ignored.
handleLogout(c, t) ==
    /\ login[c].pc = "idle" /\ refresh[t] # NoDoc
    /\ login' = [login EXCEPT ![c] = [pc |-> "logout", token |-> t, id |-> refresh[t].id, off |-> FALSE, shut |-> FALSE]]
    /\ raced' = IF Holders(t) = {} THEN raced ELSE raced \cup {refresh[t].session}
    /\ UNCHANGED <<clock, refresh, access, keys, registry, cookie, codes>>

Revoke(c) ==
    /\ login[c].pc = "logout"
    /\ markRevoked(login[c].token)
    /\ login' = [login EXCEPT ![c] = NoRequest]
    /\ UNCHANGED <<clock, access, keys, registry, cookie, codes, raced>>

\* The process stops with the request half done.
Crash(c) ==
    /\ login[c].pc # "idle"
    /\ login' = [login EXCEPT ![c] = NoRequest]
    /\ UNCHANGED <<clock, refresh, access, keys, registry, cookie, codes, raced>>

--------------------------------------------------------------------------
(* Single sign-on.  A sign-in is the number of the token it draws for its  *)
(* state, nonce and PKCE verifier; the browser keeps one cookie.           *)

encodeOIDCState(s, org) == [state |-> s, org |-> org, expires |-> clock + 1]
decodes(v) == v # NoDoc /\ clock < v.expires

\* AuthCodeURL: the provider is given the state, the nonce and the challenge.
AuthCodeURL(s, org) == [state |-> s, org |-> org, answered |-> FALSE]

\* Mutant of handleOIDCStart: a sign-in begun while another is under way goes on
\* with its state.
handleOIDCStartReusing(s, org) ==
    LET n == IF decodes(cookie) THEN cookie.state ELSE s
    IN  /\ "oidc" \in Providers
        /\ \A d \in codes : d.state # s
        /\ cookie' = encodeOIDCState(n, org)
        /\ codes' = codes \cup {AuthCodeURL(n, org)}
        /\ UNCHANGED <<clock, refresh, access, keys, login, registry, raced>>

handleOIDCStart(s, org) ==
    /\ "oidc" \in Providers
    /\ \A d \in codes : d.state # s
    /\ cookie' = encodeOIDCState(s, org)
    /\ codes' = codes \cup {AuthCodeURL(s, org)}
    /\ UNCHANGED <<clock, refresh, access, keys, login, registry, raced>>

\* The code is worth an identity to whoever has the nonce and verifier of its
\* own start.
ExchangeAndVerify(d, nonce, name, groups, org) ==
    {Identity(name, "oidc", org, groups) : n \in {nonce} \cap {d.state}}

\* The identity provider answers a start; the browser brings the code back with
\* the cookie it holds by then, and drops that.  start is kept for the properties.
handleOIDCCallback(c, name, groups) ==
    /\ login[c].pc = "idle"
    /\ \E d \in {e \in codes : ~ e.answered} :
          /\ cookie' = NoDoc
          /\ codes' = (codes \ {d}) \cup {[d EXCEPT !.answered = TRUE]}
          /\ LET org == IF cookie.org = "" THEN DefaultTenant ELSE cookie.org
                 ids == IF decodes(cookie) /\ cookie.state = d.state
                        THEN ExchangeAndVerify(d, cookie.state, name, groups, org) ELSE {}
             IN  login' = [login EXCEPT ![c] =
                     IF ids = {} THEN @
                     ELSE LET id == CHOOSE i \in ids : TRUE
                          IN  Merged([pc |-> "oidctenant", id |-> id, start |-> d], Begun(id))]
    /\ UNCHANGED <<clock, refresh, access, keys, registry, raced>>

OIDCTenant(c) == login[c].pc = "oidctenant" /\ PassTenant(c, "provision")

\* A request in flight is no longer that of a disabled account.
Reenabled(l, id) ==
    IF l.pc # "idle" /\ l.id.sub = id.sub /\ l.id.method = id.method /\ l.id.tenant = id.tenant
    THEN [l EXCEPT !.off = FALSE] ELSE l

\* The account a first sign-in is given, enabled; a stored one with its key is
\* laid over.
OIDCUser(id) ==
    [tenant_id |-> id.tenant, name |-> id.sub, method |-> "oidc", groups |-> id.groups, enabled |-> TRUE]

\* provisionOIDCUser: a disabled account is refused, a known one gets the
\* groups of this sign-in, an unknown one is stored, enabled.  When the account
\* cannot be looked up it is taken for unknown, and stored over what is there.
\* The writes are best effort.
provisionOIDCUser(c) ==
    LET id == login[c].id
        known == {u \in InTenant(id.tenant) : Field(users[u], "name", "") = id.sub /\ Field(users[u], "method", "") = "oidc"}
        Lay(patch) == users' = [u \in Uids |-> IF u \in known THEN Merged(patch, users[u]) ELSE users[u]]
        Store == IF known = {} THEN \E u \in Fresh : users' = [users EXCEPT ![u] = OIDCUser(id)] ELSE Lay(OIDCUser(id))
    IN  /\ login[c].pc = "provision"
        /\ \/ /\ \E u \in known : ~ Field(users[u], "enabled", TRUE)
              /\ login' = [login EXCEPT ![c] = NoRequest] /\ UNCHANGED users
           \/ /\ \A u \in known : Field(users[u], "enabled", TRUE)
              /\ login' = [login EXCEPT ![c].pc = "sign"]
              /\ UNCHANGED users \/ IF known = {} THEN Store ELSE Lay([groups |-> id.groups])
           \/ /\ login' = [d \in Clients |-> IF d = c THEN [login[c] EXCEPT !.pc = "sign", !.off = FALSE]
                                             ELSE Reenabled(login[d], id)]
              /\ UNCHANGED users \/ Store
        /\ UNCHANGED <<spent, roles, crud, audit, lapses>>
        /\ UNCHANGED <<clock, refresh, access, keys, registry, cookie, codes, raced>>

--------------------------------------------------------------------------
(* API keys                                                                *)

IssueKey(k, claims, name, perms, ttl) ==
    /\ keys[k] = NoDoc
    /\ ValidateGrant(claims.perms, perms) = {}
    /\ ttl \in 1..MaxTTL
    /\ \A q \in Keys : keys[q] # NoDoc => <<keys[q].tenant, keys[q].owner, keys[q].name>> # <<claims.tenant, claims.sub, name>>
    /\ keys' = [keys EXCEPT ![k] = [tenant |-> claims.tenant, owner |-> claims.sub, method |-> claims.method, name |-> name,
                                    perms |-> perms, groups |-> claims.groups, expires |-> clock + ttl, revoked |-> FALSE]]
    /\ UNCHANGED <<clock, refresh, access, login, registry, cookie, codes, raced>>

requireSelf(a) == a \in access /\ Verify(a) /\ a.claims.sub # ""

\* By the bearer of an access token; ttl is the largest when none is asked for.
handleCreateMyAPIKey(a, k, name, perms, ttl) ==
    /\ requireSelf(a) /\ a.claims.method # "apikey"
    /\ IssueKey(k, a.claims, name, perms, ttl)

KeyOwner(k) == Identity(keys[k].owner, keys[k].method, keys[k].tenant, keys[k].groups)

\* Resolve: the claims of a key's bearer now, as a set of at most one.
ResolveKey(k) ==
    LET row == keys[k]
        id == KeyOwner(k)
        live == RoleResolver(Accounts(id.tenant), RolesOf(id.tenant), id.sub, id.method, id.groups)
    IN  IF row = NoDoc \/ row.revoked \/ (row.expires # 0 /\ clock >= row.expires) \/ Disabled(id)
           \/ UserDocs(Accounts(id.tenant), id.sub, id.method) = {}
        THEN {}
        ELSE {Claims(id.sub, "apikey", id.tenant, live.roles, IntersectGrant(live.perms, row.perms), id.groups)}

\* The claims' own keys.
ListByOwner(claims) ==
    {k \in Keys : keys[k] # NoDoc /\ <<keys[k].tenant, keys[k].owner, keys[k].method>> = <<claims.tenant, claims.sub, claims.method>>}

handleDeleteMyAPIKey(a, k) ==
    /\ requireSelf(a) /\ k \in ListByOwner(a.claims)
    /\ keys' = [keys EXCEPT ![k] = NoDoc]
    /\ UNCHANGED <<clock, refresh, access, login, registry, cookie, codes, raced>>

\* The apikey plugin's GuardWrite leaves an administrator the name, the expiry,
\* the revocation and the groups.
PatchKey(k, revoked, expires) ==
    /\ keys[k] # NoDoc
    /\ keys' = [keys EXCEPT ![k].revoked = revoked, ![k].expires = expires]
    /\ UNCHANGED <<clock, refresh, access, login, registry, cookie, codes, raced>>

CleanupKeys ==
    /\ keys' = [k \in Keys |-> IF keys[k] # NoDoc /\ keys[k].expires # 0 /\ keys[k].expires < clock THEN NoDoc ELSE keys[k]]
    /\ keys' # keys
    /\ UNCHANGED <<clock, refresh, access, login, registry, cookie, codes, raced>>

--------------------------------------------------------------------------
(* Around a session: time passes, an administrator disables or enables an  *)
(* account or changes its roles, the bearer changes the password.          *)

Tick ==
    /\ clock < MaxClock /\ clock' = clock + 1
    /\ UNCHANGED <<refresh, access, keys, login, registry, cookie, codes, raced>>

SameAccount(u, id) ==
    users[u].tenant_id = id.tenant /\ Field(users[u], "name", "") = id.sub /\ Field(users[u], "method", "") = id.method

PatchUser(u, doc) ==
    /\ u \in Stored
    /\ users' = [users EXCEPT ![u] = Merged(doc, @)]
    /\ login' = [c \in Clients |->
            IF login[c].pc # "idle" /\ SameAccount(u, login[c].id) /\ Field(doc, "enabled", FALSE)
            THEN [login[c] EXCEPT !.off = FALSE] ELSE login[c]]
    /\ UNCHANGED <<spent, roles, crud, audit, lapses>>
    /\ UNCHANGED <<clock, refresh, access, keys, registry, cookie, codes, raced>>

\* handleSelfPasswordChange: the current password is proved again.
SelfPasswordChange(a, u, old, new) ==
    /\ a \in access /\ Verify(a) /\ a.claims.method = "local"
    /\ u \in Stored /\ SameAccount(u, a.claims) /\ new # "" /\ old # ""
    /\ Authenticate("local", a.claims.sub, a.claims.tenant, old) # {}
    /\ users' = [users EXCEPT ![u] = Merged([password |-> new], @)]
    /\ UNCHANGED <<spent, roles, crud, audit, lapses, sessionVars>>

=============================================================================

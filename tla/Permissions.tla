---------------------------- MODULE Permissions ----------------------------
(***************************************************************************)
(* Permissions, roles and routes (internal/auth/rbac.go, apikey_perms.go,  *)
(* internal/plugins/authz.go and authz_middleware.go, metadata.go, and     *)
(* internal/api/middleware/permission.go).  The permission "rw_rule" is    *)
(* the pair <<"rw", "rule">>; the policy word "any" and the single words   *)
(* such as "can_comment" are pairs with an empty scope.  Claims are what a *)
(* token or an API key says of its bearer.                                 *)
(***************************************************************************)
EXTENDS Naturals, FiniteSets

DefaultTenant == "default"

RO(scope) == <<"ro", scope>>
RW(scope) == <<"rw", scope>>
AllPermission == RW("all")
PermReadTenant == RO("tenant")
PermWriteTenant == RW("tenant")
Anyone == <<"any", "">>

PlatformAdminRole == "platform_admin"
IsReservedPlatformPerm(p) == p \in {PermReadTenant, PermWriteTenant}
IsReservedPlatformRole(name) == name = PlatformAdminRole

Claims(sub, method, tenant, roles, perms, groups) ==
    [sub |-> sub, method |-> method, tenant |-> tenant, roles |-> roles, perms |-> perms, groups |-> groups]

\* RootClaims: the bearer of the admin socket.
RootClaims ==
    Claims("root", "root", DefaultTenant, {"admin", PlatformAdminRole},
           {AllPermission, PermReadTenant, PermWriteTenant}, {})

--------------------------------------------------------------------------
(* What a grant of API-key permissions may hold                            *)

permits(have, want) ==
    \/ AllPermission \in have
    \/ want \in have
    \/ want[1] = "ro" /\ RW(want[2]) \in have

ValidateGrant(caller, requested) ==
    {w \in requested : IsReservedPlatformPerm(w) \/ ~ permits(caller, w)}

\* Mutant of IntersectGrant: a key keeps what it was granted.
IntersectGrantStored(owner, granted) == {g \in granted : ~ IsReservedPlatformPerm(g)}

IntersectGrant(owner, granted) ==
    {g \in granted : ~ IsReservedPlatformPerm(g) /\ permits(owner, g)}

HasLiteralPermission(claims, perm) == perm \in claims.perms

\* The tenant registry's routes: the wildcard does not open them.
RequirePlatformPerm(claims, perms) ==
    /\ claims.tenant = DefaultTenant
    /\ \E p \in perms : HasLiteralPermission(claims, p)

--------------------------------------------------------------------------
(* Routes of a plugin.  A route has the fields its metadata sets.          *)

ResolveRoute(meta, path) ==
    IF path \notin DOMAIN meta.routes THEN meta.defaults
    ELSE LET over == meta.routes[path]
         IN  [f \in DOMAIN meta.defaults \cup DOMAIN over |->
                 IF f \in DOMAIN over THEN over[f] ELSE meta.defaults[f]]

AuthenticationRequired(meta, path) ==
    LET rt == ResolveRoute(meta, path)
    IN  "authentication" \notin DOMAIN rt \/ rt.authentication

IsRead(verb) == verb \in {"GET", "HEAD"}

IsAuthorized(meta, path, verb, claims) ==
    LET rt == ResolveRoute(meta, path)
        policy == IF "policy" \in DOMAIN rt THEN rt.policy ELSE [read |-> {}, write |-> {}]
        write == {RW("all"), RW(meta.name)} \cup policy.write
        read == {RO("all"), RO(meta.name)} \cup policy.read \cup write
    IN  \/ claims.method = "root"
        \/ ({Anyone} \cup claims.perms) \cap (IF IsRead(verb) THEN read ELSE write) # {}

\* claims are NoClaims on a path the authentication middleware skips.
AuthorizeRoute(meta, path, verb, claims, NoClaims) ==
    IF claims = NoClaims THEN ~ AuthenticationRequired(meta, path)
    ELSE IsAuthorized(meta, path, verb, claims)

--------------------------------------------------------------------------
(* From an identity to roles and permissions.  users and roles are sets of *)
(* the tenant's documents; a document has the fields that were written.    *)

Field(doc, f, default) == IF f \in DOMAIN doc THEN doc[f] ELSE default

\* A patch laid over a document: the patch's fields win.
Merged(patch, doc) ==
    [f \in DOMAIN patch \cup DOMAIN doc |-> IF f \in DOMAIN patch THEN patch[f] ELSE doc[f]]

UserDocs(users, name, method) ==
    {u \in users : Field(u, "name", "") = name /\ Field(u, "method", "") = method}

RoleResolver(users, roles, name, method, groups) ==
    LET own == UNION {Field(u, "roles", {}) \cup Field(u, "static_roles", {}) : u \in UserDocs(users, name, method)}
        held == own \cup {r.name : r \in {q \in roles : Field(q, "groups", {}) \cap groups # {}}}
    IN  [roles |-> held,
         perms |-> UNION {Field(r, "permissions", {}) : r \in {q \in roles : q.name \in held}}]

\* RogueReservedRoles, the audit at boot.
RogueReservedRoles(roles) ==
    {r \in roles : ~ IsReservedPlatformRole(r.name) /\ \E p \in Field(r, "permissions", {}) : IsReservedPlatformPerm(p)}

\* Mutant of checkReservedRole: only the name is looked at.
checkReservedRoleName(doc) == ~ IsReservedPlatformRole(Field(doc, "name", ""))

\* The reserved checks of the role and user plugins.
checkReservedRole(doc) ==
    /\ ~ IsReservedPlatformRole(Field(doc, "name", ""))
    /\ \A p \in Field(doc, "permissions", {}) : ~ IsReservedPlatformPerm(p)

docHasPlatformAdmin(doc) ==
    \E r \in Field(doc, "roles", {}) \cup Field(doc, "static_roles", {}) : IsReservedPlatformRole(r)

=============================================================================

------------------------------ MODULE Accounts ------------------------------
(***************************************************************************)
(* The user and role collections behind the generated CRUD routes          *)
(* (internal/plugins/crud.go, internal/pluginimpl/user and role).  A write *)
(* is validated, transformed, guarded by what the database holds, and only *)
(* then written; nothing holds the database between the guard's reads and  *)
(* the write, so two requests may each find that the other one's user is   *)
(* still there.  A create whose body carries a uid is guarded as a new     *)
(* document and written over the stored one.                               *)
(***************************************************************************)
EXTENDS Permissions, TLC

CONSTANTS Uids,        \* uids of user documents, in the order they are given
          Requests     \* request handlers

ASSUME UidsAssumption == Uids \subseteq Nat \ {0}

VARIABLES users,       \* [Uids -> document or NoDoc]
          spent,       \* uids of documents that were deleted
          roles,       \* the set of role documents
          crud,        \* [Requests -> the request's progress]
          audit,       \* audit rows: <<action, uid>>
          lapses       \* what the guards and the audit have missed so far:
                       \*   "overlap" two guarded writes were under way at once
                       \*   "upsert"  a create was written over a guarded row
                       \*   "audit"   an audit row could not be written

accountVars == <<users, spent, roles, crud, audit, lapses>>

Idle == [pc |-> "idle"]

\* The document that is not there: it has no field.
NoDoc == <<>>

\* The user route: no authentication or policy of its own.
userMeta == [name |-> "user", defaults |-> [primary_key |-> <<"tenant_id", "name", "method">>], routes |-> <<>>]

Stored == {u \in Uids : users[u] # NoDoc}
InTenant(t) == {u \in Stored : users[u].tenant_id = t}

\* A uid that no document has had.
Fresh == Uids \ (Stored \cup spent)

--------------------------------------------------------------------------
(* The user plugin's checks                                                *)

checkReservedUserRoles(doc) == ~ docHasPlatformAdmin(doc)

\* Validate and TransformWrite, for a request in the caller's tenant.
Validate(doc) ==
    /\ Field(doc, "name", "x") # "" /\ Field(doc, "method", "x") # ""
    /\ Field(doc, "tenant_id", "") = DefaultTenant \/ checkReservedUserRoles(doc)

TransformWrite(tenant, doc) ==
    /\ tenant = DefaultTenant \/ checkReservedUserRoles(doc)
    /\ Field(doc, "password", "") # "" => Field(doc, "method", "local") = "local"

newHasPlatformAdmin(doc, prior, replace) ==
    docHasPlatformAdmin([f \in {"roles", "static_roles"} |->
        IF f \in DOMAIN doc THEN doc[f] ELSE IF replace THEN {} ELSE Field(prior, f, {})])

disablesUser(doc, prior) == ~ Field(doc, "enabled", TRUE) /\ Field(prior, "enabled", TRUE)

\* A caller is the same account as a document.
isSelf(claims, prior) ==
    /\ DOMAIN prior # {}
    /\ claims.sub = Field(prior, "name", "") /\ claims.method = Field(prior, "method", "")
    /\ claims.tenant = prior.tenant_id

enabledPlatformAdminExists(tenant, exclude) ==
    \E u \in InTenant(tenant) \ exclude :
        Field(users[u], "enabled", TRUE) /\ docHasPlatformAdmin(users[u])

\* Mutant of GuardWrite: taking the role away is not checked against the others.
GuardWriteDisablingOnly(c, uid, doc, prior, replace) ==
    /\ newHasPlatformAdmin(doc, prior, replace) # docHasPlatformAdmin(prior) => HasLiteralPermission(c, PermWriteTenant)
    /\ docHasPlatformAdmin(prior) /\ disablesUser(doc, prior) => enabledPlatformAdminExists(c.tenant, {uid})

\* prior is the document read before, <<>> when there was none.
GuardWrite(c, uid, doc, prior, replace) ==
    LET was == docHasPlatformAdmin(prior)
        is == newHasPlatformAdmin(doc, prior, replace)
    IN  /\ was # is => HasLiteralPermission(c, PermWriteTenant)
        /\ was /\ ~ is => ~ isSelf(c, prior) /\ enabledPlatformAdminExists(c.tenant, {uid})
        /\ was /\ disablesUser(doc, prior) => enabledPlatformAdminExists(c.tenant, {uid})

GuardDelete(c, uids) ==
    \/ enabledPlatformAdminExists(c.tenant, uids)
    \/ \A u \in uids \cap InTenant(c.tenant) :
          ~ Field(users[u], "enabled", TRUE) \/ ~ docHasPlatformAdmin(users[u])

--------------------------------------------------------------------------
(* The handlers: submitted, guarded, committed                             *)

Overlap(r) ==
    lapses' = IF \E q \in Requests \ {r} : crud[q].pc # "idle" THEN lapses \cup {"overlap"} ELSE lapses

\* createHandler, replaceHandler and patchHandler up to the guard's first
\* read.  A create's uid is the one in its body, 0 when it has none; its guard
\* is called without one and reads nothing.
SubmitWrite(r, c, kind, uid, doc) ==
    /\ crud[r].pc = "idle"
    /\ IsAuthorized(userMeta, "", kind, c)
    /\ Validate(doc) /\ TransformWrite(c.tenant, doc)
    /\ crud' = [crud EXCEPT ![r] =
            [pc |-> "guard", kind |-> kind, claims |-> c, uids |-> {uid}, doc |-> doc, names |-> {},
             prior |-> IF kind # "POST" /\ uid \in InTenant(c.tenant) THEN users[uid] ELSE <<>>]]
    /\ Overlap(r)
    /\ UNCHANGED <<users, spent, roles, audit>>

\* deleteOneHandler, and bulkDeleteHandler's search by name.
SubmitDelete(r, c, uids, names) ==
    /\ crud[r].pc = "idle"
    /\ IsAuthorized(userMeta, "", "DELETE", c)
    /\ crud' = [crud EXCEPT ![r] =
            [pc |-> "guard", kind |-> IF names = {} THEN "DELETE" ELSE "BULK", claims |-> c,
             uids |-> IF names = {} THEN uids
                      ELSE {u \in InTenant(c.tenant) : Field(users[u], "name", "") \in names},
             doc |-> <<>>, names |-> names, prior |-> <<>>]]
    /\ Overlap(r)
    /\ UNCHANGED <<users, spent, roles, audit>>

Guard(r) ==
    LET q == crud[r]
        uid == CHOOSE u \in q.uids : TRUE
        pass == IF q.kind \in {"DELETE", "BULK"} THEN GuardDelete(q.claims, q.uids)
                ELSE GuardWrite(q.claims, uid, q.doc, q.prior, q.kind = "PUT")
    IN  /\ q.pc = "guard"
        /\ crud' = [crud EXCEPT ![r] = IF pass THEN [q EXCEPT !.pc = "write"] ELSE Idle]
        /\ UNCHANGED <<users, spent, roles, audit, lapses>>

\* The database's part: a create is rejected when the tenant has the name and
\* method, or when it names a uid the tenant does not have; with a uid the
\* tenant has, its fields are laid over that row and nothing is audited; a
\* patch or replacement of a uid nobody has inserts what it was given, and does
\* nothing to a uid of another tenant; a replacement that matched nothing is
\* answered 404 and not audited.
SameKey(t, doc) ==
    {u \in InTenant(t) : /\ {"name", "method"} \subseteq DOMAIN doc
                         /\ Field(users[u], "name", "") = doc.name
                         /\ Field(users[u], "method", "") = doc.method}

\* Mutant of emitAudit: bulk deletes, which name no single document, are left out.
emitAuditSingle(action, uids) ==
    /\ audit' = IF Cardinality(uids) = 1 /\ action # "delete" THEN audit \cup {<<action, u>> : u \in uids} ELSE audit
    /\ UNCHANGED lapses

\* Best effort: an audit row that cannot be written is only logged.
emitAudit(action, uids) ==
    \/ audit' = audit \cup {<<action, u>> : u \in uids} /\ UNCHANGED lapses
    \/ lapses' = lapses \cup {"audit"} /\ UNCHANGED audit

CommitCreate(r) ==
    LET q == crud[r]
        t == q.claims.tenant
        uid == CHOOSE u \in q.uids : TRUE
        doc == Merged([tenant_id |-> t], q.doc)
        named == q.uids \ {0}
        ok == named \subseteq InTenant(t) /\ SameKey(t, doc) \subseteq named
    IN  /\ q.pc = "write" /\ q.kind = "POST"
        /\ \/ ~ ok /\ UNCHANGED <<users, audit, lapses>>
           \/ /\ ok /\ named = {} /\ Fresh # {}
              /\ LET u == CHOOSE v \in Fresh : \A w \in Fresh : v <= w
                 IN  users' = [users EXCEPT ![u] = doc] /\ emitAudit("create", {u})
           \/ /\ ok /\ uid \in named
              /\ users' = [users EXCEPT ![uid] = Merged(doc, @)]
              /\ lapses' = IF docHasPlatformAdmin(users[uid]) THEN lapses \cup {"upsert"} ELSE lapses
              /\ UNCHANGED audit
        /\ crud' = [crud EXCEPT ![r] = Idle] /\ UNCHANGED <<spent, roles>>

CommitUpdate(r) ==
    LET q == crud[r]
        t == q.claims.tenant
        uid == CHOOSE u \in q.uids : TRUE
        doc == Merged([tenant_id |-> t], q.doc)
        mine == uid \in InTenant(t)
    IN  /\ q.pc = "write" /\ q.kind \in {"PUT", "PATCH"}
        /\ users' = [users EXCEPT ![uid] =
                       IF mine THEN IF q.kind = "PUT" THEN doc ELSE Merged(doc, @)
                       ELSE IF @ = NoDoc THEN doc ELSE @]
        /\ IF q.kind = "PUT" /\ ~ mine THEN UNCHANGED <<audit, lapses>> ELSE emitAudit(q.kind, {uid})
        /\ crud' = [crud EXCEPT ![r] = Idle] /\ UNCHANGED <<spent, roles>>

CommitDelete(r) ==
    LET q == crud[r]
        t == q.claims.tenant
        gone == IF q.kind = "DELETE" THEN q.uids \cap InTenant(t)
                ELSE {u \in InTenant(t) : Field(users[u], "name", "") \in q.names}
    IN  /\ q.pc = "write" /\ q.kind \in {"DELETE", "BULK"}
        /\ users' = [u \in Uids |-> IF u \in gone THEN NoDoc ELSE users[u]]
        /\ spent' = spent \cup gone
        /\ IF q.kind = "DELETE" /\ gone = {} THEN UNCHANGED <<audit, lapses>> ELSE emitAudit("delete", q.uids)
        /\ crud' = [crud EXCEPT ![r] = Idle] /\ UNCHANGED roles

--------------------------------------------------------------------------
(* Roles.  The role plugin's guards read only the document's name, which   *)
(* no guarded write changes, so a role request is one step.                *)

\* A role created, replaced or patched; at is the stored role with the uid of
\* the request, a set of at most one.  Validate refuses the reserved names in
\* every tenant.  The guard keeps the reserved role as it is from a replacement
\* and a patch, but is not told of the uid in the body of a create.
WriteRole(c, kind, at, doc) ==
    /\ permits(c.perms, RW("role"))
    /\ checkReservedRole(doc)
    /\ at \subseteq {r \in roles : r.tenant_id = c.tenant} /\ Cardinality(at) <= 1
    /\ IF kind = "POST"
       THEN "name" \in DOMAIN doc => \A r \in roles \ at : r.tenant_id = c.tenant => r.name # doc.name
       ELSE \A r \in at : ~ IsReservedPlatformRole(r.name)
    /\ LET written == IF kind = "PUT" \/ at = {} THEN doc ELSE Merged(doc, CHOOSE r \in at : TRUE)
       IN  roles' = (roles \ at) \cup {Merged([tenant_id |-> c.tenant], written)}
    /\ lapses' = IF \E r \in at : IsReservedPlatformRole(r.name) THEN lapses \cup {"upsert"} ELSE lapses
    /\ UNCHANGED <<users, spent, crud, audit>>

DeleteRole(c, role) ==
    /\ permits(c.perms, RW("role"))
    /\ role \in roles /\ role.tenant_id = c.tenant
    /\ ~ IsReservedPlatformRole(role.name)
    /\ roles' = roles \ {role}
    /\ UNCHANGED <<users, spent, crud, audit, lapses>>

=============================================================================

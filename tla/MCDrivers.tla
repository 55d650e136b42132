----------------------------- MODULE MCDrivers -----------------------------
(* Drivers on two tenants: every method, once as each kind of caller that   *)
(* matters, on documents with one or two keys.                              *)
EXTENDS Drivers, TLC

Symm == Permutations(Clients)

As(scope, o) == With(o, "scope", scope)
New(k, c) == [key |-> k, c |-> c, tags |-> <<"x">>]

write(docs, policy) == [op |-> "write", docs |-> docs, policy |-> policy]
bulk(match) == [op |-> "bulk", match |-> match, upsert |-> TRUE]
search(asc) == [op |-> "search", match |-> AnyMatch, asc |-> asc, page |-> 1, per |-> 2]

MCStored == {<<>>, <<[uid |-> 1, tenant_id |-> "a", key |-> "k", c |-> "c1", m |-> [x |-> "v"]]>>}

MCOps ==
    {As("a", o) : o \in
       {write(<<New("k", "c1")>>, "update"),
        write(<<New("k", "c2")>>, "update"),
        write(<<New("k", "c1"), New("k", "c1")>>, "update"),
        write(<<New("k", "c1"), New("l", "")>>, "replace"),
        write(<<New("k", "c1")>>, "insert"),
        write(<<New("", "c1")>>, "reject"),
        write(<<[uid |-> 1, key |-> "k", c |-> "c1"]>>, "update"),
        write(<<[uid |-> 1, key |-> "k", c |-> "c1"]>>, "replace"),
        [op |-> "replace", match |-> [key |-> "k"], doc |-> New("k", "c2")],
        [op |-> "update", uid |-> 1, doc |-> [c |-> "c2"]],
        [op |-> "update", uid |-> 1, doc |-> [m |-> [x |-> Null, y |-> "v"]]],
        [op |-> "delete", match |-> [key |-> "k"], force |-> FALSE],
        [op |-> "delete", match |-> AnyMatch, force |-> FALSE],
        [op |-> "inc", match |-> [key |-> "k"]],
        bulk([key |-> "k"]),
        [op |-> "set", match |-> [key |-> "k"], doc |-> [c |-> "c2"]],
        [op |-> "unset", match |-> AnyMatch, field |-> "c"],
        [op |-> "append", match |-> AnyMatch, values |-> <<"y">>],
        [op |-> "prepend", match |-> AnyMatch, values |-> <<"y">>],
        [op |-> "remove", match |-> AnyMatch, values |-> <<"x">>],
        search(TRUE), search(FALSE),
        [search(FALSE) EXCEPT !.op = "get", !.per = 1]}}
    \cup {As("b", o) : o \in
       {write(<<New("k", "c1")>>, "update"),
        write(<<[uid |-> 1, key |-> "l"]>>, "replace"),
        [op |-> "replace", match |-> [uid |-> 1], doc |-> New("l", "c1")],
        [op |-> "update", uid |-> 1, doc |-> [c |-> "c2"]],
        [op |-> "delete", match |-> [uid |-> 1], force |-> FALSE],
        search(TRUE)}}
    \cup {As(Platform, o) : o \in
       {[op |-> "delete", match |-> AnyMatch, force |-> TRUE],
        [op |-> "inc", match |-> AnyMatch]}}
    \cup {As(Naked, [op |-> "delete", match |-> AnyMatch, force |-> TRUE])}

\* Transactions of sqlite behave as if they came one after the other, so a
\* primary key identifies one row; sqlite and mongo lose no increment, which
\* postgres may.
WritesSerialise == TypeOK /\ SqlitePrimaryUnique /\ CountersExact

\* A call changes rows of its own tenant only, and a call of a SQL driver
\* announces every change it made but that of a counter (TenantScope of the
\* drivers, notifyTx, publishMutation).
StepsStayInScope == TenantIsolation /\ ChangesAnnounced
============================================================================

------------------------------- MODULE Rules -------------------------------
(***************************************************************************)
(* The rule plugin (internal/pluginimpl/rule): rules are stored flat, each *)
(* naming its parents; Reload queries the roots, then the children of each *)
(* rule it found, and caches the tree; Process walks the cached tree over  *)
(* an incoming record.  Each query is a step of its own, so an edit may    *)
(* fall between two of them; every edit makes the node reload again (the   *)
(* syncer module).  A query that fails, or a malformed condition or        *)
(* modification, fails the whole reload and leaves the cache as it was;    *)
(* nothing retries it before the next edit.                                *)
(***************************************************************************)
EXTENDS Modifications
LOCAL INSTANCE SequencesExt

CONSTANTS Uids,
          KV,          \* the kv plugin's cache: [<<dict, key>> -> value]
          NoDoc

VARIABLES stored,      \* [Uids -> document or NoDoc]
          cache,       \* the tree in memory
          stale,       \* an edit has not been reloaded
          load,        \* the reload in progress: queries left, what was found
          walked       \* the last record processed: input, output, tree

ruleVars == <<stored, cache, stale, load, walked>>

\* kvSets are split off the modification list; KV_SET is <<"KV_SET", dict, key, out>>.
isKvSet(l) == l # <<>> /\ l[1] = Str("KV_SET")
parseModifications(ls) ==
    [mods |-> [i \in DOMAIN SelectSeq(ls, LAMBDA l : ~ isKvSet(l)) |->
                 ParseModification(SelectSeq(ls, LAMBDA l : ~ isKvSet(l))[i])],
     kvs  |-> SelectSeq(ls, isKvSet)]

WellFormed(d) ==
    FromList(d.condition) # Invalid /\ BadModification \notin Elems(parseModifications(d.modifications).mods)

--------------------------------------------------------------------------
(* Reload                                                                  *)

\* Search(..., Page{OrderBy: "tree_order", Asc: true})
Ordered(docs, S) == SetToSortSeq(S, LAMBDA u, v : docs[u].tree_order < docs[v].tree_order)

\* loadChildren's query: the rules without a parents key for the roots, the
\* rules whose parents hold the uid for the children.
Roots(docs) == Ordered(docs, {u \in Uids : docs[u] # NoDoc /\ docs[u].parents = Absent})
ChildrenOf(docs, uid) ==
    Ordered(docs, {u \in Uids : docs[u] # NoDoc /\ docs[u].parents # Absent /\ Str(uid) \in Elems(docs[u].parents[2])})

\* buildEntry, over the documents each query returned.
RECURSIVE buildEntry(_, _)
buildEntry(found, d) ==
    LET split == parseModifications(d.modifications)
        kids == found[d.uid]
    IN  [uid |-> d.uid, name |-> d.name, enabled |-> d.enabled, cond |-> FromList(d.condition),
         mods |-> split.mods, kvs |-> split.kvs,
         children |-> [i \in DOMAIN kids |-> buildEntry(found, kids[i])]]

Forest(found, ds) == [i \in DOMAIN ds |-> buildEntry(found, ds[i])]

\* The tree of a set of documents, as one snapshot.
Docs(docs, us) == [i \in DOMAIN us |-> docs[us[i]]]
TreeOf(docs) ==
    Forest([u \in Uids |-> Docs(docs, ChildrenOf(docs, u))], Docs(docs, Roots(docs)))

Idle == [on |-> FALSE, failed |-> FALSE, todo |-> {}, found |-> [u \in Uids |-> <<>>], roots |-> <<>>]

BeginReload ==
    /\ ~ load.on /\ stale
    /\ LET roots == Docs(stored, Roots(stored))
       IN  load' = [Idle EXCEPT !.on = TRUE, !.roots = roots, !.todo = {d.uid : d \in Elems(roots)}]
    /\ stale' = FALSE
    /\ UNCHANGED <<stored, cache, walked>>

QueryChildren(uid) ==
    /\ load.on /\ uid \in load.todo
    /\ LET kids == Docs(stored, ChildrenOf(stored, uid))
       IN  load' = [load EXCEPT !.found[uid] = kids,
                                !.todo = (@ \ {uid}) \cup {d.uid : d \in Elems(kids)}]
    /\ UNCHANGED <<stored, cache, stale, walked>>

\* The Search of loadChildren fails, for the roots or for the children of a
\* rule: what the reload has read is dropped.
SearchFails ==
    /\ IF load.on THEN load.todo # {} ELSE stale
    /\ load' = [Idle EXCEPT !.failed = TRUE]
    /\ stale' = (load.on /\ stale)
    /\ UNCHANGED <<stored, cache, walked>>

FinishReloadAnyway ==
    /\ load.on /\ load.todo = {}
    /\ cache' = Forest(load.found, load.roots)
    /\ load' = Idle
    /\ UNCHANGED <<stored, stale, walked>>

FinishReload ==
    /\ load.on /\ load.todo = {}
    /\ LET all == Elems(load.roots) \cup UNION {Elems(load.found[u]) : u \in Uids}
       IN  cache' = IF \A d \in all : WellFormed(d) THEN Forest(load.found, load.roots) ELSE cache
    /\ load' = Idle
    /\ UNCHANGED <<stored, stale, walked>>

--------------------------------------------------------------------------
(* Process                                                                 *)

appendRuleTagAlways(view, name) ==
    LET cur == IF Type(view["rules"]) = "list" THEN view["rules"][2] ELSE <<>>
    IN  [view EXCEPT !["rules"] = List(Append(cur, Str(name)))]

appendRuleTag(view, name) ==
    LET cur == IF Type(view["rules"]) = "list" THEN view["rules"][2] ELSE <<>>
    IN  IF Str(name) \in Elems(cur) THEN view ELSE [view EXCEPT !["rules"] = List(Append(cur, Str(name)))]

applyModifications(view, mods) == FoldLeft(LAMBDA v, m : Apply(v, m).rec, view, mods)

applyKVSet(view, l) ==
    LET raw == view[l[3][2]]
        at == <<l[2][2], formatValue(raw)>>
    IN  IF Missing(raw) \/ at[2] = "" \/ at \notin DOMAIN KV THEN view
        ELSE [view EXCEPT ![l[4][2]] = KV[at]]

applyKVSets(view, kvs) == FoldLeft(applyKVSet, view, kvs)

RECURSIVE processRules(_, _)
processRule(view, r) ==
    IF ~ r.enabled \/ ~ Match(view, r.cond) THEN view
    ELSE processRules(applyKVSets(applyModifications(appendRuleTag(view, r.name), r.mods), r.kvs), r.children)
processRules(view, rules) == FoldLeft(processRule, view, rules)

Process(rec) ==
    /\ walked' = [in |-> rec, out |-> processRules(rec, cache), tree |-> cache]
    /\ UNCHANGED <<stored, cache, stale, load>>

--------------------------------------------------------------------------
Save(uid, d) ==
    /\ d # stored[uid]
    /\ stored' = [stored EXCEPT ![uid] = d]
    /\ stale' = TRUE
    /\ UNCHANGED <<cache, load, walked>>
=============================================================================

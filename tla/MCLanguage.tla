----------------------------- MODULE MCLanguage -----------------------------
(***************************************************************************)
(* The languages an operator writes in, on small inputs.  A behaviour is   *)
(* about one topic:                                                        *)
(*   "tree"   every condition of at most MaxNodes connectives over a set   *)
(*            of leaves, read by the evaluator and by the three backends   *)
(*            on every small record;                                       *)
(*   "query"  every query of at most MaxPhrases phrases, read by the       *)
(*            parser and by the grammar;                                   *)
(*   "rules"  at most MaxEdits edits of a rule tree that is reloaded and   *)
(*            walked over records;                                         *)
(*   "mods"   at most MaxMods modifications of one record;                 *)
(*   "window" a daily window, at every instant of two days.                *)
(***************************************************************************)
EXTENDS Dialects, Rules, TimeConstraints

CONSTANTS MaxNodes, MaxPhrases, MaxEdits, MaxMods

MCInside == {<<"b", "ab">>, <<"B", "ab">>, <<"B", "b">>, <<"b", "B">>}
MCWithin == {<<"b", "ab">>}
MCBelow == {<<"ab", "b">>}
MCCaptures == {<<"re", "ab", "b", "b">>}
MCReplaced == {<<"re", "ab", "b">>}
MCKV == (<<"d", "b">> :> Str("kv"))

VARIABLES topic, cond, query, view, window, now, steps
inputs == <<cond, query, view, window, now>>
vars == <<topic, inputs, steps, ruleVars>>

Topic(t, bound) == topic = t /\ steps < bound /\ steps' = steps + 1 /\ UNCHANGED topic

--------------------------------------------------------------------------
(* Conditions                                                              *)

Values == {Absent, Null, Num(2), Str("ab"), Str("b"), Bool(TRUE)}
AllRecords == {[a |-> v, t |-> w] : v \in Values, w \in {Absent, Str("b"), List(<<Str("ab")>>)}}

Leaves ==
    {Leaf(op, "a", v) : op \in {"=", "!="}, v \in {Null, Num(2), Str("b"), Bool(TRUE)}}
    \cup {Leaf("<", "a", Num(2)), Leaf(">=", "a", Num(2)), Leaf("<=", "a", Str("ab")), Leaf(">", "a", Str("ab"))}
    \cup {Leaf("MATCHES", "a", Str("B")), Leaf("EXISTS", "a", Null), Leaf("EXISTS", "t", Null)}
    \cup {Leaf("CONTAINS", "t", Str("B")), Leaf("CONTAINS", "t", List(<<Str("ab"), Str("b")>>))}
    \cup {Leaf("IN", "t", List(<<Str("ab")>>)), Leaf("IN", "t", Str("b")), Leaf("SEARCH", "", Str("b")), Leaf("SEARCH", "", Str("B"))}
    \cup {Cond("AND", "", Null, <<>>), Cond("OR", "", Null, <<>>), AlwaysTrue}

Negate ==
    /\ Topic("tree", MaxNodes)
    /\ cond' = Not(cond) /\ UNCHANGED <<query, view, window, now, ruleVars>>

Join(leaf) ==
    /\ Topic("tree", MaxNodes)
    /\ cond' \in {And(<<cond, leaf>>), Or(<<cond, leaf>>)}
    /\ UNCHANGED <<query, view, window, now, ruleVars>>

--------------------------------------------------------------------------
(* Queries: put together from phrases; some are no term of the language    *)

Phrases ==
    LET a == <<"ident", "a">>
        n == <<"num", 1>>
    IN  {<<a>>, <<<<"str", "b">>, <<"=">>, n>>, <<n, <<"IN">>, a>>, <<a, <<"EXISTS">>>>,
         <<<<"AND">>>>, <<<<"OR">>>>, <<<<"NOT">>>>, <<<<"(">>>>, <<<<")">>>>,
         <<<<"[">>, n, <<",">>, a, <<"]">>>>, <<<<"MATCHES">>>>, <<<<"bool", TRUE>>>>,
         <<<<"{">>, a, <<":">>, n, <<",">>, a>>, <<<<":">>, <<"{">>, <<"}">>, <<"}">>>>}

Extend(p) ==
    /\ Topic("query", MaxPhrases)
    /\ query' = query \o p /\ UNCHANGED <<cond, view, window, now, ruleVars>>

--------------------------------------------------------------------------
(* Rules: "p" is a root, "c" its child, a root, or out of the tree         *)

Doc(uid, enabled, condition, modifications, parents) ==
    [uid |-> uid, name |-> uid, enabled |-> enabled, condition |-> condition,
     modifications |-> modifications, parents |-> parents, tree_order |-> IF uid = "p" THEN 0 ELSE 1]

SetA == <<Str("SET"), Str("a"), Str("b")>>
ParentDocs == {Doc("p", e, ToList(c), <<SetA>>, Absent) : e \in BOOLEAN, c \in {AlwaysTrue, Leaf("EXISTS", "a", Null)}}
ChildDocs ==
    {Doc("c", TRUE, l, <<<<Str("KV_SET"), Str("d"), Str("a"), Str("t")>>>>, ps) :
        l \in {ToList(Leaf("=", "a", Str("b"))), List(<<Str("=")>>)},
        ps \in {Absent, List(<<Str("p")>>), List(<<>>)}}

RuleRecords == {[a |-> v, t |-> Absent, rules |-> r] : v \in {Absent, Str("ab"), Str("b")}, r \in {Absent}}

EditRule ==
    /\ topic = "rules" /\ steps < MaxEdits /\ steps' = steps + 1
    /\ \/ \E d \in ParentDocs : Save("p", d)
       \/ \E d \in ChildDocs \cup {NoDoc} : Save("c", d)
    /\ UNCHANGED <<topic, inputs>>

RuleStep ==
    /\ topic = "rules"
    /\ \/ BeginReload \/ SearchFails \/ FinishReload
       \/ \E u \in Uids : QueryChildren(u)
       \/ \E r \in RuleRecords \cup {walked.out} : Process(r)
    /\ UNCHANGED <<topic, inputs, steps>>

--------------------------------------------------------------------------
(* Modifications                                                           *)

ModLists ==
    LET tpl == Template(<<Term(Str("a"), <<"int">>), Term(Num(1), <<>>)>>)
    IN  {<<Str("SET"), Str("a"), v>> : v \in {Str(""), Str("1"), Num(1), Str("ab"), tpl, Template(<<Term(Str("none"), <<>>)>>)}}
        \cup {<<Str("SET"), Template(<<Term(Str("a"), <<"string">>)>>), Str("ab")>>, <<Str("SET"), Num(1)>>}
        \cup {<<Str(op), Str("t"), v>> : op \in {"ARRAY_APPEND", "ARRAY_DELETE"}, v \in {Str("b"), List(<<Str("b"), Num(1)>>)}}
        \cup {<<Str("DELETE"), Str("a")>>, <<Str("DELETE")>>, <<Str("SET"), Str("t"), List(<<>>)>>, <<Str("NOPE")>>}
        \cup {<<Str("REGEX_PARSE"), Str("a"), Str("re")>>, <<Str("REGEX_SUB"), Str("a"), Str("b"), Str("re"), Str("")>>}

ModFields == {"a", "b", "t", "", "1", "ab", "2", "3", "4", "5"}

Modify(l) ==
    /\ Topic("mods", MaxMods)
    /\ view' = Apply(view, ParseModification(l)).rec
    /\ UNCHANGED <<cond, query, window, now, ruleVars>>

--------------------------------------------------------------------------
(* Windows                                                                 *)

Bounds == {parseDaytime(k, z) : k \in 0..(Day \div Minute) - 1, z \in {0, 1}} \cup {Open}

Tick ==
    /\ topic = "window" /\ now < 4 * Day /\ now' = now + 1
    /\ UNCHANGED <<topic, cond, query, view, window, steps, ruleVars>>

--------------------------------------------------------------------------
Rest(t) ==
    /\ topic = t /\ steps = 0
    /\ query = <<>>
    /\ view = [f \in ModFields |-> IF f = "a" THEN Str("ab") ELSE Absent]
    /\ stored = [u \in Uids |-> IF u = "p" THEN Doc("p", TRUE, ToList(AlwaysTrue), <<SetA>>, Absent) ELSE NoDoc]
    /\ cache = <<>> /\ stale = TRUE /\ load = Idle
    /\ LET r == [a |-> Absent, t |-> Absent, rules |-> Absent] IN walked = [in |-> r, out |-> r, tree |-> <<>>]

NoWindow == [from |-> Open, until |-> Open]

Init ==
    \/ Rest("tree") /\ cond \in Leaves /\ window = NoWindow /\ now = 0
    \/ \E t \in {"query", "rules", "mods"} : Rest(t) /\ cond = AlwaysTrue /\ window = NoWindow /\ now = 0
    \/ Rest("window") /\ cond = AlwaysTrue /\ window \in [from : Bounds, until : Bounds] /\ now = 2 * Day

Next ==
    \/ Negate \/ (\E l \in Leaves : Join(l))
    \/ (\E p \in Phrases : Extend(p))
    \/ EditRule \/ RuleStep
    \/ (\E l \in ModLists : Modify(l))
    \/ Tick

Spec == Init /\ [][Next]_vars

--------------------------------------------------------------------------
RECURSIVE LeavesOf(_)
LeavesOf(c) == IF c.kids = <<>> THEN {c} ELSE UNION {LeavesOf(c.kids[i]) : i \in DOMAIN c.kids}

\* A leaf compares like with like: what it reads is missing or has the type
\* of the constant.  Two leaves mean different things in memory and in a
\* database and are left out where they do: EXISTS of an explicit null, which
\* only the databases find, and SEARCH, which ignores case only in them.
Comparable(rec, c) ==
    LET got == rec[c.field] IN
    CASE c.op \in {"=", "!="} -> Missing(c.value) \/ Missing(got) \/ Type(got) = Type(c.value)
      [] c.op \in Comparisons -> Missing(got) \/ Type(got) = Type(c.value)
      [] c.op = "MATCHES" -> Missing(got) \/ Type(got) = "str"
      [] c.op = "EXISTS" -> got # Null
      [] c.op = "SEARCH" -> stringifiedHas(rec, c.value) <=> DocumentFinds(rec, c.value)
      [] OTHER -> TRUE

Answers(x, matches) == x = E \/ (x = T) = matches

\* The shape of the state.
TypeOK ==
    /\ steps \in Nat
    /\ \A c \in LeavesOf(cond) : c.op \in Ops \cup {""}
    /\ load.todo \subseteq Uids
    /\ \A f \in DOMAIN view : Type(view[f]) \in {"absent", "null", "num", "str", "bool", "list"}

\* A condition selects the same records everywhere: when the leaves compare
\* like with like, a statement that answers at all answers as the evaluator
\* (condition.Match) does, for every nesting of AND, OR and NOT over missing
\* fields, on SQLite, PostgreSQL and MongoDB (sql/builder.go walk, "giving the
\* evaluator's two-valued result for every nested AND/OR/NOT combination").
\* The two leaves Comparable excepts are where the backends agree with each
\* other only.
BackendsAgree ==
    topic = "tree" => \A rec \in AllRecords :
        (\A c \in LeavesOf(cond) : Comparable(rec, c)) =>
            LET m == Match(rec, cond)
            IN  Answers(Sqlite(rec, cond), m) /\ Answers(Postgres(rec, cond), m) /\ Answers(Mongo(rec, cond), m)

\* A tree survives every form it is stored or sent in: the object form, the
\* web client's, and the legacy list (an empty group has no list form).
FormsRoundTrip ==
    topic = "tree" =>
    /\ UnmarshalJSON(MarshalJSON(cond)) = cond
    /\ UnmarshalJSON(WebForm(cond)) = cond
    /\ FromList(ToList(cond)) \in {cond, Invalid}
    /\ Invalid = FromList(ToList(cond)) => \E c \in LeavesOf(cond) : c.op \in {"AND", "OR"}

\* A condition whose operator is lost on the way never decodes to one that
\* matches every record (json.go validate, "DELETE ... WHERE TRUE").
LostOperatorRefused ==
    LET carries == cond.field # "" \/ cond.value # Null \/ cond.kids # <<>>
    IN  carries => UnmarshalJSON([WebForm(cond) EXCEPT ![2].type = ""]) = Invalid

\* The parser reads exactly the queries the grammar of its comment derives,
\* and reads each as the one tree the grammar gives it: NOT binds tighter than
\* OR, OR tighter than AND, and two terms side by side are a conjunction.  The
\* web client's parser is another one: it binds AND tighter than OR and reads
\* "field IN list" (web/src/lib/condition/text.ts parseOr), where this one
\* reads "list IN field".
ParserFollowsGrammar ==
    query # <<>> =>
        AndExprs(query) = (IF Parse(query) = Invalid THEN {} ELSE {Flat(Parse(query))})

\* CONTAINS and IN answer whether the field holds a scalar or a list
\* (sqlite/dialect.go Contains: "we handle both").
ScalarsHandled == \A rec \in AllRecords : Sqlite(rec, cond) # E

--------------------------------------------------------------------------
\* Once every edit has been reloaded, and the last reload did not fail, the
\* tree in memory is the stored one, whole, however edits and queries
\* interleaved; a failing query or a rule that cannot be read keeps the old
\* tree in force rather than a part of the new one
\* (rule/plugin.go Reload, loadChildren, buildEntry).
RECURSIVE AllRead(_)
AllRead(es) == \A i \in DOMAIN es : es[i].cond # Invalid /\ AllRead(es[i].children)

SettledTreeIsStored ==
    /\ AllRead(cache)
    /\ (~ stale /\ ~ load.on /\ ~ load.failed /\ \A u \in Uids : stored[u] = NoDoc \/ WellFormed(stored[u]))
            => cache = TreeOf(stored)

\* A rule tags a record only below a parent that tagged it, after it and
\* once, even when the record has been through the rules before
\* (rule/plugin.go processRules, appendRuleTag).  A rule that was moved while
\* the tree was read may stand in it twice, as a root too.
TagsFollowTheTree ==
    LET tags(r) == IF Type(r["rules"]) = "list" THEN r["rules"][2] ELSE <<>>
        out == tags(walked.out)
        new == Elems(out) \ Elems(tags(walked.in))
    IN  /\ Len(out) = Cardinality(Elems(out))
        /\ \A i \in DOMAIN walked.tree : \A j \in DOMAIN walked.tree[i].children :
               (/\ Str(walked.tree[i].children[j].name) \in new
                /\ \A r \in DOMAIN walked.tree : walked.tree[r].name # walked.tree[i].children[j].name) =>
                   \E k, l \in DOMAIN out : k < l /\ out[k] = Str(walked.tree[i].name)
                                                 /\ out[l] = Str(walked.tree[i].children[j].name)

\* A rule with an empty list of parents is a root
\* (api/routes_condition.go:133, "Parent uids (empty = root)").
EmptyParentsAreRoots ==
    (~ stale /\ ~ load.on /\ ~ load.failed /\ AllRead(TreeOf(stored))) =>
        \A u \in Uids : (stored[u] # NoDoc /\ stored[u].parents \in {Absent, List(<<>>)}) =>
            \E i \in DOMAIN cache : cache[i].uid = u

\* A modification changes the fields it names and no other, and one that
\* reports no change made none, but for a SET to an empty value and for one to
\* a value that prints as the old one does, 1 for "1" (modification.go Apply,
\* applySet, pyEqual).
ModificationsReported ==
    topic = "mods" => \A l \in ModLists :
        LET m == ParseModification(l)
            o == Apply(view, m)
            a == resolveArgs(view, m.args)
            named == {a[i][2] : i \in {j \in DOMAIN a : Type(a[j]) = "str"}} \cup {c[3] : c \in Captures}
        IN  /\ \A f \in ModFields : o.rec[f] # view[f] => f \in named
            /\ (~ o.changed /\ o.rec # view) =>
                   m.op = "SET" /\ (~ isTruthy(a[2]) \/ Sprint(view[a[1][2]]) = Sprint(a[2]))

\* Appending a list and deleting its elements again gives back the list.
AppendedIsDeleted ==
    Type(view["t"]) = "list" =>
        LET v == Str("new")
            r == Apply(view, Modification("ARRAY_APPEND", <<Str("t"), v>>)).rec
        IN  Apply(r, Modification("ARRAY_DELETE", <<Str("t"), v>>)).rec = view

\* A daily window whose bounds are in one zone holds from each occurrence of
\* its start to the next occurrence of its end, over midnight or not, and the
\* end is the first instant of the minute it names
\* (timeconstraints.go TimeConstraint.Match, intervals, parseDaytime; the
\* documentation has it last to the 59th second of that minute).
WindowIsDaily ==
    LET times(d) == {k * Day + d.tick - d.zone : k \in 0..7}
    IN  (topic = "window" /\ Given(window.from) /\ Given(window.until) /\ window.from.zone = window.until.zone)
            => (TimeMatch(window, now) <=>
                  \E s \in times(window.from) : s <= now /\ \A e \in times(window.until) : s <= e => now <= e)

\* A condition survives every form it is stored or sent in, and one whose
\* operator is lost is refused (condition/json.go).
ConditionsSurvive == TypeOK /\ FormsRoundTrip /\ LostOperatorRefused

\* The rules in memory are the stored ones, tag along the tree, and their
\* modifications change what they name (rule/plugin.go, modification.go).
RulesHold == SettledTreeIsStored /\ TagsFollowTheTree /\ ModificationsReported /\ AppendedIsDeleted
=============================================================================

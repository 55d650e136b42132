----------------------------- MODULE Conditions -----------------------------
(***************************************************************************)
(* The condition language of internal/condition: the tree, the in-memory   *)
(* evaluator, the legacy list form and the JSON object form a tree is      *)
(* decoded from, and the query parser.  A string is an opaque member of    *)
(* Strings; what regular expressions and comparisons tell apart is given   *)
(* by three relations:                                                     *)
(*   Inside  <<p, s>>: p is found in s, ignoring case, as a substring and  *)
(*           as a regular expression (p holds no metacharacter);           *)
(*   Within  <<p, s>>: p is found in s as it is written;                   *)
(*   Below   <<s, t>>: s sorts before t.                                   *)
(* A value is a tuple headed by its type; a record is a function from      *)
(* field names to values, Absent where the record has no such key.         *)
(***************************************************************************)
EXTENDS Integers, Sequences, FiniteSets
LOCAL INSTANCE SequencesExt

CONSTANTS Strings, Inside, Within, Below

Absent == <<"absent">>
Null == <<"null">>
Num(n) == <<"num", n>>
Str(s) == <<"str", s>>
Bool(b) == <<"bool", b>>
List(s) == <<"list", s>>
Map(m) == <<"map", m>>
Sub(l) == <<"sub", l>>          \* a list value that reads as a condition

Type(v) == v[1]
Missing(v) == v \in {Absent, Null}

Elems(s) == {s[i] : i \in 1..Len(s)}

--------------------------------------------------------------------------
(* The tree (ast.go)                                                       *)

Cond(op, field, value, kids) == [op |-> op, field |-> field, value |-> value, kids |-> kids]
AlwaysTrue == Cond("", "", Null, <<>>)
IsZero(c) == c = AlwaysTrue
And(kids) == IF Len(kids) = 1 THEN kids[1] ELSE Cond("AND", "", Null, kids)
Or(kids) == IF Len(kids) = 1 THEN kids[1] ELSE Cond("OR", "", Null, kids)
Not(c) == Cond("NOT", "", Null, <<c>>)
Leaf(op, field, value) == Cond(op, field, value, <<>>)

Comparisons == {">", ">=", "<", "<="}
Binary == {"=", "!=", "MATCHES", "CONTAINS"} \cup Comparisons
Ops == {"AND", "OR", "NOT", "EXISTS", "IN", "SEARCH"} \cup Binary

--------------------------------------------------------------------------
(* The evaluator (evaluator.go)                                            *)

\* A path that does not resolve reads as nil, like an explicit null.
dotDig(rec, field) == rec[field]

\* One level of nesting is what the values of this model have.
Flatten(v) == IF Type(v) = "list" THEN v[2] ELSE <<v>>

\* toString: the text of a value.  nil prints as "<nil>"; any other value
\* that is no string stands for its own text, which no string here spells.
toString(v) == IF Missing(v) THEN Str("<nil>") ELSE v

\* The text of a list holds the texts of its elements.
Finds(p, t) ==
    \E e \in Elems(Flatten(t)) :
        p = e \/ (Type(p) = "str" /\ Type(e) = "str" /\ <<p[2], e[2]>> \in Inside)

lazySearch(value, record) == Finds(toString(value), toString(record))

equalsValue(a, b) == (Missing(a) /\ Missing(b)) \/ a = b

Sorts(s, op, t, less(_, _)) ==
    \/ op \in {"<", "<="} /\ less(s, t)
    \/ op \in {">", ">="} /\ less(t, s)
    \/ op \in {"<=", ">="} /\ s = t

NumLess(m, n) == m < n
StrLess(s, t) == <<s, t>> \in Below

compareValues(a, op, b) ==
    \/ Type(a) = "str" /\ Type(b) = "str" /\ Sorts(a[2], op, b[2], StrLess)
    \/ Type(a) = "num" /\ Type(b) = "num" /\ Sorts(a[2], op, b[2], NumLess)

RECURSIVE FromList(_), ToList(_), Match(_, _)

\* strings.Contains over stringifyRecord: the text of the record holds the
\* needle, as it is written, when one of its values does (no needle spells a
\* field name, the punctuation or the word None).
stringifiedHas(rec, s) ==
    \E f \in DOMAIN rec : ~ Missing(rec[f]) /\ \E v \in Elems(Flatten(rec[f])) :
        s = v \/ (Type(s) = "str" /\ Type(v) = "str" /\ <<s[2], v[2]>> \in Within)

\* What decoding a malformed condition returns: an error, no tree.
Invalid == Cond("error", "", Null, <<>>)

\* Compiled.Match, with the sub-condition mode of IN decided as Compile does.
Match(rec, c) ==
    LET got == dotDig(rec, c.field) IN
    CASE c.op = ""    -> TRUE
      [] c.op = "AND" -> \A i \in DOMAIN c.kids : Match(rec, c.kids[i])
      [] c.op = "OR"  -> \E i \in DOMAIN c.kids : Match(rec, c.kids[i])
      [] c.op = "NOT" -> Len(c.kids) = 1 /\ ~ Match(rec, c.kids[1])
      [] c.op = "="   -> equalsValue(got, c.value)
      [] c.op = "!="  -> ~ equalsValue(got, c.value)
      [] c.op \in Comparisons -> compareValues(got, c.op, c.value)
      [] c.op = "MATCHES"  -> ~ Missing(got) /\ Finds(toString(c.value), toString(got))
      [] c.op = "EXISTS"   -> ~ Missing(got)
      [] c.op = "CONTAINS" -> \E v \in Elems(Flatten(c.value)), r \in Elems(Flatten(got)) :
                                  lazySearch(v, r)
      [] c.op = "IN" /\ Type(c.value) = "sub" ->
             /\ Type(got) = "list"
             /\ \E item \in Elems(got[2]) :
                    Type(item) = "map" /\ Match(item[2], FromList(c.value))
      [] c.op = "IN" -> \E r \in Elems(Flatten(got)), v \in Elems(Flatten(c.value)) : equalsValue(r, v)
      [] c.op = "SEARCH" -> stringifiedHas(rec, toString(c.value))

--------------------------------------------------------------------------
(* The legacy list form (json.go): a list whose head names the operator    *)

ToList(c) ==
    CASE c.op = ""  -> List(<<>>)
      [] c.op \in {"AND", "OR"} -> List(<<Str(c.op)>> \o [i \in DOMAIN c.kids |-> ToList(c.kids[i])])
      [] c.op = "NOT" -> List(<<Str("NOT")>> \o
                              IF c.kids = <<>> THEN <<>> ELSE <<ToList(c.kids[1])>>)
      [] c.op = "EXISTS" -> List(<<Str("EXISTS"), Str(c.field)>>)
      [] c.op = "SEARCH" -> List(<<Str("SEARCH"), c.value>>)
      [] c.op = "IN" -> List(<<Str("IN"), c.value, Str(c.field)>>)
      [] OTHER -> List(<<Str(c.op), Str(c.field), c.value>>)

Group(op, kids) == IF Invalid \in Elems(kids) THEN Invalid ELSE Cond(op, "", Null, kids)

FromList(v) ==
    LET l == v[2]
        head == IF Type(l[1]) = "str" THEN l[1][2] ELSE ""
    IN
    IF Missing(v) THEN AlwaysTrue
    ELSE IF Type(v) \notin {"list", "sub"} THEN Invalid
    ELSE IF l = <<>> THEN AlwaysTrue
    ELSE IF Type(l[1]) # "str" THEN IF l[1] = Null THEN AlwaysTrue ELSE Invalid
    ELSE CASE head = "" -> AlwaysTrue
           [] head \in {"AND", "OR"} /\ Len(l) >= 2 ->
                  Group(head, [i \in 1..Len(l) - 1 |-> FromList(l[i + 1])])
           [] head = "NOT" /\ Len(l) >= 2 -> Group("NOT", <<FromList(l[2])>>)
           [] head = "EXISTS" /\ Len(l) >= 2 /\ Type(l[2]) = "str" -> Leaf("EXISTS", l[2][2], Null)
           [] head = "SEARCH" /\ Len(l) >= 2 -> Leaf("SEARCH", "", l[2])
           [] head = "IN" /\ Len(l) >= 3 /\ Type(l[3]) = "str" -> Leaf("IN", l[3][2], l[2])
           [] head \in Binary /\ Len(l) >= 3 /\ Type(l[2]) = "str" /\ l[2][2] # "" ->
                  Leaf(head, l[2][2], l[3])
           [] OTHER -> Invalid

--------------------------------------------------------------------------
(* The JSON object form (json.go): Wire is what the decoder reads, with    *)
(* the canonical keys (op, children) and the web client's (type, args,     *)
(* arg); an operator the client spells out is mapped to the short one.     *)

Wire(op, type, field, value, children, args, arg) ==
    <<"object", [op |-> op, type |-> type, field |-> field, value |-> value,
                 children |-> children, args |-> args, arg |-> arg]>>

Spelled == [ALWAYS_TRUE |-> "", EQUALS |-> "=", NOT_EQUALS |-> "!=",
            LT |-> "<", LE |-> "<=", GT |-> ">", GE |-> ">="]
ShortOpStrict(op) == op

ShortOp(op) == IF op \in DOMAIN Spelled THEN Spelled[op] ELSE op

validateKnown(c) == c.op \in Ops \cup {""}

validate(c) ==
    CASE c.op = ""     -> c.field = "" /\ c.value = Null /\ c.kids = <<>>
      [] c.op = "NOT"  -> Len(c.kids) = 1
      [] OTHER         -> c.op \in Ops

RECURSIVE UnmarshalJSON(_)
UnmarshalJSON(json) ==
    LET w == json[2]
        decoded(s) == [i \in DOMAIN s |-> UnmarshalJSON(s[i])]
        kids == IF w.children # <<>> THEN decoded(w.children)
                ELSE IF w.args # <<>> THEN decoded(w.args)
                ELSE decoded(w.arg)
        out == Cond(ShortOp(IF w.op # "" THEN w.op ELSE w.type), w.field, w.value, kids)
    IN
    CASE json = Null -> AlwaysTrue
      [] Type(json) = "list" -> FromList(json)
      [] Type(json) = "object" -> IF Invalid \in Elems(kids) \/ ~ validate(out) THEN Invalid ELSE out
      [] OTHER -> Invalid

\* What a client sends for a tree: the object form Go marshals (MarshalJSON),
\* and the web client's.
RECURSIVE MarshalJSON(_), WebForm(_)
MarshalJSON(c) ==
    Wire(c.op, "", c.field, c.value, [i \in DOMAIN c.kids |-> MarshalJSON(c.kids[i])], <<>>, <<>>)

LongOp(op) == IF \E l \in DOMAIN Spelled : Spelled[l] = op
              THEN CHOOSE l \in DOMAIN Spelled : Spelled[l] = op ELSE op

WebForm(c) ==
    LET kids == [i \in DOMAIN c.kids |-> WebForm(c.kids[i])]
    IN  Wire("", LongOp(c.op), c.field, c.value, <<>>,
             IF c.op = "NOT" THEN <<>> ELSE kids, IF c.op = "NOT" THEN kids ELSE <<>>)

--------------------------------------------------------------------------
(* The query parser (parser.go), over the tokens the lexer hands it, and   *)
(* the grammar its comment documents as a reference.  A token is a tuple   *)
(* headed by its kind; "ident", "str" and "num" tokens carry a text or a   *)
(* number.  A parse step returns what it read and the tokens that are      *)
(* left, or Failed.                                                        *)


EOF == <<"eof">>
Failed == [ok |-> FALSE]
Parsed(x, rest) == [ok |-> TRUE, got |-> x, rest |-> rest]

Kind(ts) == ts[1][1]

--------------------------------------------------------------------------
(* Literals                                                                *)

RECURSIVE parseLiteral(_), parseItems(_, _), parsePairs(_, _)

parseArray(ts) ==
    IF Kind(Tail(ts)) = "]" THEN Parsed(List(<<>>), Tail(Tail(ts)))
    ELSE parseItems(<<>>, Tail(ts))

AfterItem(out, v) ==
    IF ~ v.ok THEN Failed
    ELSE CASE Kind(v.rest) = "," -> parseItems(Append(out, v.got), Tail(v.rest))
           [] Kind(v.rest) = "]" -> Parsed(List(Append(out, v.got)), Tail(v.rest))
           [] OTHER -> Failed

parseItems(out, ts) == AfterItem(out, parseLiteral(ts))

\* A key given twice keeps its last value.
Entry(out, key, v) == [k \in DOMAIN out \cup {key} |-> IF k = key THEN v ELSE out[k]]
NoEntries == [k \in {} |-> Null]

parseObject(ts) ==
    IF Kind(Tail(ts)) = "}" THEN Parsed(Map(NoEntries), Tail(Tail(ts)))
    ELSE parsePairs(NoEntries, Tail(ts))

AfterPair(out, key, v) ==
    LET all == Entry(out, key, v.got) IN
    IF ~ v.ok THEN Failed
    ELSE CASE Kind(v.rest) = "," -> parsePairs(all, Tail(v.rest))
           [] Kind(v.rest) = "}" -> Parsed(Map(all), Tail(v.rest))
           [] OTHER -> Failed

parsePairs(out, ts) ==
    IF Kind(ts) \notin {"ident", "str"} \/ Kind(Tail(ts)) # ":" THEN Failed
    ELSE AfterPair(out, ts[1][2], parseLiteral(Tail(Tail(ts))))

parseLiteral(ts) ==
    CASE Kind(ts) \in {"ident", "str"} -> Parsed(Str(ts[1][2]), Tail(ts))
      [] Kind(ts) = "num" -> Parsed(Num(ts[1][2]), Tail(ts))
      [] Kind(ts) = "bool" -> Parsed(Bool(ts[1][2]), Tail(ts))
      [] Kind(ts) = "[" -> parseArray(ts)
      [] Kind(ts) = "{" -> parseObject(ts)
      [] OTHER -> Failed

--------------------------------------------------------------------------
(* Terms and the precedence levels                                         *)

RECURSIVE parseAnd(_), andLoop(_, _), orLoop(_, _), parseNot(_), parseTerm(_)
RECURSIVE mergeAnd(_, _), mergeOr(_, _)

TermStarts == {"ident", "str", "num", "bool", "(", "[", "{", "NOT"}
isTermStartButNot(ts) == Kind(ts) \in TermStarts \ {"NOT"}

isTermStart(ts) == Kind(ts) \in TermStarts

Pair(op, l, r) == Cond(op, "", Null, <<l, r>>)

\* A conjunction is kept nested to the right.
mergeAnd(l, r) ==
    IF l.op = "AND" /\ Len(l.kids) = 2 THEN Pair("AND", l.kids[1], mergeAnd(l.kids[2], r))
    ELSE Pair("AND", l, r)

mergeOr(l, r) ==
    IF l.op = "OR" /\ Len(l.kids) = 2 THEN Pair("OR", l.kids[1], mergeOr(l.kids[2], r))
    ELSE Pair("OR", l, r)

parseOr(ts) == LET l == parseNot(ts) IN IF l.ok THEN orLoop(l.got, l.rest) ELSE Failed

orLoop(left, ts) ==
    IF Kind(ts) # "OR" THEN Parsed(left, ts)
    ELSE LET r == parseNot(Tail(ts))
         IN  IF r.ok THEN orLoop(mergeOr(left, r.got), r.rest) ELSE Failed

\* Two terms side by side are a conjunction, with or without the word.
parseAnd(ts) == LET l == parseOr(ts) IN IF l.ok THEN andLoop(l.got, l.rest) ELSE Failed

andLoop(left, ts) ==
    IF Kind(ts) = "AND" \/ isTermStart(ts)
    THEN LET r == parseOr(IF Kind(ts) = "AND" THEN Tail(ts) ELSE ts)
         IN  IF r.ok THEN andLoop(mergeAnd(left, r.got), r.rest) ELSE Failed
    ELSE Parsed(left, ts)

parseNot(ts) ==
    IF Kind(ts) # "NOT" THEN parseTerm(ts)
    ELSE LET c == parseNot(Tail(ts)) IN IF c.ok THEN Parsed(Not(c.got), c.rest) ELSE Failed

Parenthesised(ts) ==
    LET c == parseAnd(Tail(ts))
    IN  IF c.ok /\ Kind(c.rest) = ")" THEN Parsed(c.got, Tail(c.rest)) ELSE Failed

Compared(op, first, v) ==
    IF v.ok /\ Type(first.got) = "str" THEN Parsed(Leaf(op, first.got[2], v.got), v.rest) ELSE Failed

\* What follows the first literal of a term says which term it is.
AfterLiteral(first) ==
    LET op == Kind(first.rest)
        named == Type(first.got) = "str"
    IN
    IF ~ first.ok THEN Failed
    ELSE CASE op \in Binary -> Compared(op, first, parseLiteral(Tail(first.rest)))
           [] op = "EXISTS" ->
                  IF named THEN Parsed(Leaf("EXISTS", first.got[2], Null), Tail(first.rest)) ELSE Failed
           [] op = "IN" ->
                  IF Kind(Tail(first.rest)) \in {"ident", "str"}
                  THEN Parsed(Leaf("IN", first.rest[2][2], first.got), Tail(Tail(first.rest)))
                  ELSE Failed
           [] OTHER -> Parsed(Leaf("SEARCH", "", first.got), first.rest)

parseTerm(ts) == IF Kind(ts) = "(" THEN Parenthesised(ts) ELSE AfterLiteral(parseLiteral(ts))

Parse(tokens) ==
    LET c == parseAnd(Append(tokens, EOF))
    IN  IF c.ok /\ c.rest = <<EOF>> THEN c.got ELSE Invalid

--------------------------------------------------------------------------
(* The documented grammar, as the set of trees each category derives from  *)
(* a whole token sequence; the trees are flattened, so that how a chain of *)
(* ANDs or ORs is nested does not matter.                                  *)

RECURSIVE Flat(_)
Flat(c) ==
    LET kids == [i \in DOMAIN c.kids |-> Flat(c.kids[i])]
        parts == [i \in DOMAIN kids |-> IF kids[i].op = c.op THEN kids[i].kids ELSE <<kids[i]>>]
    IN  [c EXCEPT !.kids = IF c.op \in {"AND", "OR"} THEN FlattenSeq(parts) ELSE kids]

Before(ts, k) == SubSeq(ts, 1, k - 1)
After(ts, k) == SubSeq(ts, k + 1, Len(ts))

RECURSIVE Literals(_), Terms(_), NotExprs(_), OrExprs(_), AndExprs(_), ItemLists(_), PairLists(_)

ItemLists(ts) ==
    {<<v>> : v \in Literals(ts)}
    \cup UNION {{<<v>> \o l : v \in Literals(Before(ts, k)), l \in ItemLists(After(ts, k))} :
                k \in {i \in DOMAIN ts : ts[i] = <<",">>}}

\* The maps a list of pairs derives: its last pair overrides the others.
PairLists(ts) ==
    LET one(us) == IF Len(us) > 2 /\ Kind(us) \in {"ident", "str"} /\ us[2] = <<":">>
                   THEN {<<us[1][2], v>> : v \in Literals(Tail(Tail(us)))} ELSE {}
    IN  {Entry(NoEntries, p[1], p[2]) : p \in one(ts)}
        \cup UNION {{Entry(m, p[1], p[2]) : m \in PairLists(Before(ts, k)), p \in one(After(ts, k))} :
                    k \in {i \in DOMAIN ts : ts[i] = <<",">>}}

Literals(ts) ==
    CASE Len(ts) = 1 /\ Kind(ts) \in {"ident", "str"} -> {Str(ts[1][2])}
      [] Len(ts) = 1 /\ Kind(ts) = "num" -> {Num(ts[1][2])}
      [] Len(ts) = 1 /\ Kind(ts) = "bool" -> {Bool(ts[1][2])}
      [] ts = <<<<"{">>, <<"}">>>> -> {Map(NoEntries)}
      [] Len(ts) > 2 /\ Kind(ts) = "{" /\ ts[Len(ts)] = <<"}">> ->
             {Map(m) : m \in PairLists(SubSeq(ts, 2, Len(ts) - 1))}
      [] ts = <<<<"[">>, <<"]">>>> -> {List(<<>>)}
      [] Len(ts) > 2 /\ Kind(ts) = "[" /\ ts[Len(ts)] = <<"]">> ->
             {List(l) : l \in ItemLists(SubSeq(ts, 2, Len(ts) - 1))}
      [] OTHER -> {}

Names(ts) == IF Len(ts) = 1 /\ Kind(ts) \in {"ident", "str"} THEN {ts[1][2]} ELSE {}

Terms(ts) ==
    {Leaf("SEARCH", "", v) : v \in Literals(ts)}
    \cup UNION {{Leaf(ts[k][1], f, v) : f \in Names(Before(ts, k)), v \in Literals(After(ts, k))} :
                k \in {i \in DOMAIN ts : ts[i][1] \in Binary}}
    \cup UNION {{Leaf("IN", f, v) : f \in Names(After(ts, k)), v \in Literals(Before(ts, k))} :
                k \in {i \in DOMAIN ts : ts[i] = <<"IN">>}}
    \cup (IF Len(ts) = 2 /\ ts[2] = <<"EXISTS">> THEN {Leaf("EXISTS", f, Null) : f \in Names(<<ts[1]>>)} ELSE {})
    \cup (IF Len(ts) > 2 /\ Kind(ts) = "(" /\ ts[Len(ts)] = <<")">>
          THEN AndExprs(SubSeq(ts, 2, Len(ts) - 1)) ELSE {})

NotExprs(ts) ==
    IF ts = <<>> THEN {}
    ELSE IF Kind(ts) = "NOT" THEN {Not(c) : c \in NotExprs(Tail(ts))} ELSE Terms(ts)

OrExprs(ts) ==
    NotExprs(ts)
    \cup UNION {UNION {{Flat(Pair("OR", l, r)) : r \in OrExprs(After(ts, k))} : l \in NotExprs(Before(ts, k))} :
                k \in {i \in DOMAIN ts : ts[i] = <<"OR">>}}

AndExprs(ts) ==
    OrExprs(ts)
    \cup UNION {UNION {{Flat(Pair("AND", l, r)) :
                          r \in AndExprs(IF ts[k + 1] = <<"AND">> THEN After(ts, k + 1) ELSE After(ts, k))} :
                       l \in OrExprs(SubSeq(ts, 1, k))} :
                k \in 1..Len(ts) - 1}
=============================================================================

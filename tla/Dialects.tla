------------------------------ MODULE Dialects ------------------------------
(***************************************************************************)
(* What a stored record answers when a condition is lowered to the query   *)
(* language of a backend: the shared SQL walker (internal/db/sql), the     *)
(* SQLite and PostgreSQL dialects, and the MongoDB filter.  A SQL fragment *)
(* is true, false, unknown (NULL) or raises; a WHERE clause keeps the row  *)
(* when it is true, and one that raises fails the whole statement.         *)
(***************************************************************************)
EXTENDS Conditions

CONSTANT SearchFields        \* the fields a SEARCH is expanded across

T == "true"
F == "false"
U == "unknown"
E == "raises"

Truth(b) == IF b THEN T ELSE F

--------------------------------------------------------------------------
(* SQL's connectives.  A statement that may evaluate a raising operand     *)
(* counts as raising: the planner is free to evaluate it first.            *)

SqlAnd(S) == IF E \in S THEN E ELSE IF F \in S THEN F ELSE IF U \in S THEN U ELSE T
SqlOr(S) == IF E \in S THEN E ELSE IF T \in S THEN T ELSE IF U \in S THEN U ELSE F
SqlNot(x) == CASE x = T -> F [] x = F -> T [] OTHER -> x
IsNotTrue(x) == IF x = E THEN E ELSE Truth(x # T)

\* left AND right, left OR right where SQLite is known to skip the right.
AndThen(x, y) == IF x = F THEN F ELSE SqlAnd({x, y})
OrElse(x, y) == IF x = T THEN T ELSE SqlOr({x, y})

NegationPlain(x) == SqlNot(x)

\* The negation the walker renders: (inner) IS NOT TRUE.
Negation(x) == IsNotTrue(x)

--------------------------------------------------------------------------
(* The SQLite dialect (sqlite/dialect.go).  json_extract gives NULL for a  *)
(* missing key and for null, and an integer for a boolean; numbers sort    *)
(* before text.                                                            *)

Extract(v) == CASE Missing(v) -> Null
                [] Type(v) = "bool" -> Num(IF v[2] THEN 1 ELSE 0)
                [] OTHER -> v

SqliteCompare(x, op, y) ==
    Truth(IF Type(x) = Type(y) THEN compareValues(x, op, y)
          ELSE IF Type(x) = "num" THEN op \in {"<", "<="} ELSE op \in {">", ">="})

emitEq(got, value, negate) ==
    LET x == Extract(got)
        y == Extract(value)
    IN  IF value = Null THEN Truth((x = Null) # negate)
        ELSE IF negate THEN Truth(x # y)
        ELSE IF x = Null THEN U ELSE Truth(x = y)

regexpUDF(p, x) == Truth(x # Null /\ Finds(p, toString(x)))

\* json_type on what json_extract returned: NULL for NULL, and an error for
\* a string, whose text is not JSON.
ArrayBranch(x, found(_)) ==
    CASE x = Null -> U
      [] Type(x) = "str" -> E
      [] Type(x) = "list" -> Truth(\E e \in Elems(x[2]) : found(e))
      [] OTHER -> F

SqliteContains(got, value) ==
    LET x == Extract(got)
        one(v) == LET found(e) == regexpUDF(toString(v), e) = T
                  IN OrElse(regexpUDF(toString(v), x), ArrayBranch(x, found))
    IN  IF Missing(value) \/ Flatten(value) = <<>> THEN F
        ELSE SqlOr({one(v) : v \in Elems(Flatten(value))})

\* Every literal is bound as text, which no number equals.  A nested condition
\* degrades to the list of its words, none of which a record holds.
emitInLiteralList(got, value) ==
    LET x == Extract(got)
        lits == IF Type(value) = "sub" THEN {} ELSE Elems(Flatten(value))
        found(e) == Type(e) = "str" /\ e \in lits
    IN  IF Type(value) = "list" /\ value[2] = <<>> THEN F
        ELSE OrElse(IF x = Null THEN U ELSE Truth(found(x)), ArrayBranch(x, found))

\* The whole document, as the backend prints it, searched ignoring case.
DocumentFinds(rec, needle) == \E f \in DOMAIN rec : ~ Missing(rec[f]) /\ Finds(needle, rec[f])

SqliteSearch(rec, needle) ==
    IF SearchFields = {} THEN Truth(DocumentFinds(rec, needle))
    ELSE SqlOr({regexpUDF(needle, Extract(rec[f])) : f \in SearchFields})

SqliteLeaf(rec, c) ==
    LET got == rec[c.field] IN
    CASE c.op = "="  -> emitEq(got, c.value, FALSE)
      [] c.op = "!=" -> emitEq(got, c.value, TRUE)
      [] c.op \in Comparisons -> IF Missing(got) THEN U
                                 ELSE SqliteCompare(Extract(got), c.op, Extract(c.value))
      [] c.op = "MATCHES" -> regexpUDF(toString(c.value), Extract(got))
      [] c.op = "EXISTS" -> Truth(got # Absent)
      [] c.op = "CONTAINS" -> SqliteContains(got, c.value)
      [] c.op = "IN" -> emitInLiteralList(got, c.value)
      [] c.op = "SEARCH" -> SqliteSearch(rec, toString(c.value))

--------------------------------------------------------------------------
(* The PostgreSQL dialect (postgres/dialect.go).  ->> gives the text of a  *)
(* value; a number is compared after a cast that raises on other text.     *)

typedCompare(got, op, value) ==
    CASE Missing(got) -> U
      [] Type(value) = "num" /\ Type(got) # "num" -> E
      [] op = "=" -> Truth(got = value)
      [] OTHER -> Truth(compareValues(got, op, value))

PgEq(got, value) == IF value = Null THEN Truth(Missing(got)) ELSE typedCompare(got, "=", value)

PgNeq(got, value) ==
    IF value = Null THEN Truth(~ Missing(got))
    ELSE IF Type(value) = "num" /\ ~ Missing(got) /\ Type(got) # "num" THEN E
    ELSE Truth(got # value)

PgMatches(got, p) == IF Missing(got) THEN U ELSE Truth(Finds(p, toString(got)))

PgContains(got, value) ==
    Truth(/\ ~ Missing(value) /\ ~ Missing(got)
          /\ \E v \in Elems(Flatten(value)), r \in Elems(Flatten(got)) : lazySearch(v, r))

PgIn(got, value) ==
    IF Type(value) = "sub" THEN E
    ELSE Truth(~ Missing(got) /\ \E r \in Elems(Flatten(got)) : r \in Elems(Flatten(value)))

PgSearch(rec, needle) ==
    IF SearchFields = {} THEN Truth(DocumentFinds(rec, needle))
    ELSE SqlOr({PgMatches(rec[f], needle) : f \in SearchFields})

PgLeaf(rec, c) ==
    LET got == rec[c.field] IN
    CASE c.op = "="  -> PgEq(got, c.value)
      [] c.op = "!=" -> PgNeq(got, c.value)
      [] c.op \in Comparisons -> typedCompare(got, c.op, c.value)
      [] c.op = "MATCHES" -> PgMatches(got, toString(c.value))
      [] c.op = "EXISTS" -> Truth(got # Absent)
      [] c.op = "CONTAINS" -> PgContains(got, c.value)
      [] c.op = "IN" -> PgIn(got, c.value)
      [] c.op = "SEARCH" -> PgSearch(rec, toString(c.value))

--------------------------------------------------------------------------
(* The walker both SQL backends share (sql/builder.go)                     *)

combine(kids, glue(_), empty) == IF kids = {} THEN empty ELSE glue(kids)

RECURSIVE walk(_, _, _)
walk(dialect, rec, c) ==
    LET kids == {walk(dialect, rec, c.kids[i]) : i \in DOMAIN c.kids} IN
    CASE IsZero(c) -> T
      [] c.op = "" -> E
      [] c.op = "AND" -> combine(kids, SqlAnd, T)
      [] c.op = "OR"  -> combine(kids, SqlOr, F)
      [] c.op = "NOT" -> IF Len(c.kids) = 1 THEN Negation(walk(dialect, rec, c.kids[1])) ELSE E
      [] OTHER -> IF dialect = "sqlite" THEN SqliteLeaf(rec, c) ELSE PgLeaf(rec, c)

\* Convert folds the caller's tenant into the condition before it is walked.
WithTenantCond(c, tenant) ==
    LET pred == Leaf("=", "tenant_id", Str(tenant))
    IN  IF IsZero(c) THEN pred ELSE And(<<c, pred>>)

Sqlite(rec, c) == walk("sqlite", rec, c)
Postgres(rec, c) == walk("postgres", rec, c)

--------------------------------------------------------------------------
(* The MongoDB filter (mongo/convert.go).  A predicate on an array field   *)
(* holds when it holds of the array or of one of its elements, and a       *)
(* regular expression matches strings only.                                *)

Reads(got) == {got} \cup (IF Type(got) = "list" THEN Elems(got[2]) ELSE {})

MongoIn(got, items) ==
    \E r \in Reads(got) : r \in items \/ (Missing(r) /\ Null \in items)

MongoContains(got, value) ==
    LET vals == IF Missing(value) THEN {} ELSE Elems(Flatten(value))
        strs == {v \in vals : Type(v) = "str"}
    IN  \/ \E v \in strs, r \in Reads(got) : Type(r) = "str" /\ Finds(v, r)
        \/ MongoIn(got, vals \ strs)

MongoRegex(got, p) == \E r \in Reads(got) : Type(r) = "str" /\ Finds(p, r)

RECURSIVE convertCond(_, _)
convertCond(rec, c) ==
    LET got == rec[c.field]
        kids == {convertCond(rec, c.kids[i]) : i \in DOMAIN c.kids}
    IN
    CASE c.op = "" -> T
      [] c.op \in {"AND", "OR"} -> IF kids = {} THEN E         \* the server refuses an empty $and
                                   ELSE IF c.op = "AND" THEN SqlAnd(kids) ELSE SqlOr(kids)
      [] c.op = "NOT" -> IF kids = {} THEN E ELSE SqlNot(convertCond(rec, c.kids[1]))
      [] c.op = "="  -> Truth(MongoIn(got, {c.value}))
      [] c.op = "!=" -> Truth(~ MongoIn(got, {c.value}))
      [] c.op \in Comparisons -> Truth(\E r \in Reads(got) : compareValues(r, c.op, c.value))
      [] c.op = "MATCHES" -> Truth(MongoRegex(got, toString(c.value)))
      [] c.op = "EXISTS" -> Truth(got # Absent)
      [] c.op = "CONTAINS" -> Truth(MongoContains(got, c.value))
      [] c.op = "IN" -> Truth(IF Type(c.value) = "sub" THEN FALSE
                              ELSE MongoIn(got, Elems(Flatten(c.value))))
      [] c.op = "SEARCH" -> Truth(\E f \in SearchFields : MongoRegex(rec[f], toString(c.value)))

Mongo(rec, c) == convertCond(rec, c)
=============================================================================

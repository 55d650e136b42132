--------------------------- MODULE Modifications ---------------------------
(***************************************************************************)
(* Record modifications (internal/modification).  A modification is an     *)
(* operation and its positional arguments; an argument is a value, or a    *)
(* template <<"tpl", terms>> standing for "{{ a | int + b }}": a sum of    *)
(* terms, each a name or a number and the filters it goes through.  What a *)
(* pattern does to a text is given by two relations:                       *)
(*   Captures  <<pattern, text, group, captured>>                          *)
(*   Replaced  <<pattern, text, result>>, for ReplaceAllString             *)
(***************************************************************************)
EXTENDS Conditions, TLC
LOCAL INSTANCE SequencesExt

CONSTANTS Captures, Replaced

Template(terms) == <<"tpl", terms>>
Term(name, filters) == [name |-> name, filters |-> filters]

Modification(op, args) == [op |-> op, args |-> args]

Arity == [SET |-> 2, DELETE |-> 1, ARRAY_APPEND |-> 2, ARRAY_DELETE |-> 2,
          REGEX_PARSE |-> 2, REGEX_SUB |-> 4]
nbargs(op) == IF op \in DOMAIN Arity THEN Arity[op] ELSE 0

\* Parse: the stored list <<op, arg...>>, short lists padded with "".
BadModification == Modification("error", <<>>)

ParseModification(l) ==
    IF l = <<>> \/ Type(l[1]) # "str" \/ nbargs(l[1][2]) = 0 THEN BadModification
    ELSE LET n == nbargs(l[1][2])
             given == Len(l) - 1
         IN  Modification(l[1][2],
                 [i \in 1..(IF given > n THEN given ELSE n) |-> IF i <= given THEN l[i + 1] ELSE Str("")])

--------------------------------------------------------------------------
(* Templates                                                               *)

Digits == 0..9

\* The "| int" filter: a text that is no number counts as 0.
toInt(v) ==
    CASE Type(v) = "num" -> v[2]
      [] Type(v) = "str" /\ (\E n \in Digits : ToString(n) = v[2]) -> CHOOSE n \in Digits : ToString(n) = v[2]
      [] Type(v) = "bool" -> IF v[2] THEN 1 ELSE 0
      [] OTHER -> 0

formatValue(v) ==
    CASE Missing(v) -> ""
      [] Type(v) = "str" -> v[2]
      [] Type(v) = "bool" -> IF v[2] THEN "True" ELSE "False"
      [] OTHER -> ToString(v[2])

applyFilter(filter, v) ==
    CASE filter = "int" -> Num(toInt(v))
      [] filter = "string" -> Str(formatValue(v))
      [] OTHER -> v

\* Adding a number to a text gives nil.
pyAdd(a, b) ==
    CASE Type(a) = "num" /\ Type(b) = "num" -> Num(a[2] + b[2])
      [] Type(a) = "str" /\ Type(b) = "str" -> Str(a[2] \o b[2])
      [] OTHER -> Null

lookup(rec, name) == IF name \in DOMAIN rec THEN rec[name] ELSE Absent

\* A name the record does not have is a number if it spells one.
evalTerm(rec, t) ==
    LET named == IF Type(t.name) = "num" THEN t.name ELSE lookup(rec, t.name[2])
    IN  IF named = Absent THEN Absent
        ELSE FoldLeft(LAMBDA v, f : applyFilter(f, v), named, t.filters)

evalAdd(rec, terms) ==
    LET vals == [i \in DOMAIN terms |-> evalTerm(rec, terms[i])]
    IN  IF Absent \in Elems(vals) THEN Absent
        ELSE FoldLeft(pyAdd, Head(vals), Tail(vals))

\* A template is rendered to a text, "" when a name in it does not resolve.
resolveNothing(rec, arg) == arg

resolve(rec, arg) == IF Type(arg) = "tpl" THEN Str(formatValue(evalAdd(rec, arg[2]))) ELSE arg
resolveArgs(rec, args) == [i \in DOMAIN args |-> resolve(rec, args[i])]

--------------------------------------------------------------------------
(* The operations: the record afterwards, and the return code              *)

Outcome(rec, changed) == [rec |-> rec, changed |-> changed]
Untouched(rec) == Outcome(rec, FALSE)

isTruthy(v) ==
    CASE Missing(v) -> FALSE
      [] Type(v) = "str" -> v[2] # ""
      [] Type(v) = "num" -> v[2] # 0
      [] Type(v) = "bool" -> v[2]
      [] OTHER -> v[2] # <<>>

\* fmt.Sprint of a value: a number and the text that spells it print alike.
RECURSIVE Sprint(_)
Sprint(v) ==
    CASE Type(v) = "list" -> <<"texts", [i \in DOMAIN v[2] |-> Sprint(v[2][i])]>>
      [] Type(v) = "bool" -> <<"text", IF v[2] THEN "true" ELSE "false">>
      [] Type(v) = "str" -> <<"text", v[2]>>
      [] OTHER -> <<"text", ToString(v[2])>>

pyEqual(a, b) ==
    IF Missing(a) \/ Missing(b) THEN Missing(a) /\ Missing(b)
    ELSE IF Type(a) = Type(b) /\ Type(a) \in {"num", "str"} THEN a = b
    ELSE Sprint(a) = Sprint(b)

applySet(rec, key, value) ==
    Outcome([rec EXCEPT ![key] = value], isTruthy(value) /\ ~ pyEqual(rec[key], value))

applyDeleteSilently(rec, key) == Untouched([rec EXCEPT ![key] = Absent])

applyDelete(rec, key) ==
    IF rec[key] = Absent THEN Untouched(rec) ELSE Outcome([rec EXCEPT ![key] = Absent], TRUE)

applyArrayAppend(rec, key, value) ==
    IF Type(rec[key]) # "list" THEN Untouched(rec)
    ELSE Outcome([rec EXCEPT ![key] = List(rec[key][2] \o Flatten(value))], TRUE)

\* Only the first element that equals the value is removed.
applyArrayDeleteLast(rec, key, value) ==
    LET l == rec[key][2]
        hits == {i \in DOMAIN l : pyEqual(l[i], value)}
    IN  IF Type(rec[key]) # "list" \/ hits = {} THEN Untouched(rec)
        ELSE Outcome([rec EXCEPT ![key] = List(SubSeq(l, 1, Len(l) - 2))], TRUE)

applyArrayDelete(rec, key, value) ==
    LET l == rec[key][2]
        hits == {i \in DOMAIN l : pyEqual(l[i], value)}
        first == CHOOSE i \in hits : \A j \in hits : i <= j
    IN  IF Type(rec[key]) # "list" \/ hits = {} THEN Untouched(rec)
        ELSE Outcome([rec EXCEPT ![key] = List(SubSeq(l, 1, first - 1) \o SubSeq(l, first + 1, Len(l)))], TRUE)

applyRegexParse(rec, key, pattern) ==
    LET hits == {c \in Captures : Str(c[1]) = pattern /\ Str(c[2]) = rec[key]}
        group(f) == CHOOSE c \in hits : c[3] = f
    IN  IF Type(rec[key]) # "str" \/ hits = {} THEN Untouched(rec)
        ELSE Outcome([f \in DOMAIN rec |-> IF \E c \in hits : c[3] = f THEN Str(group(f)[4]) ELSE rec[f]], TRUE)

applyRegexSub(rec, key, out, pattern) ==
    LET hits == {r \in Replaced : Str(r[1]) = pattern /\ Str(r[2]) = rec[key]}
    IN  IF Type(rec[key]) # "str" \/ Type(pattern) # "str" THEN Untouched(rec)
        ELSE Outcome([rec EXCEPT ![out] = IF hits = {} THEN rec[key] ELSE Str((CHOOSE r \in hits : TRUE)[3])], TRUE)

\* Apply: an argument that must be a field name and is not makes it a no-op.
Apply(rec, m) ==
    LET a == resolveArgs(rec, m.args)
        key == a[1][2]
    IN
    IF nbargs(m.op) = 0 \/ Len(m.args) < nbargs(m.op) \/ Type(a[1]) # "str" THEN Untouched(rec)
    ELSE CASE m.op = "SET" -> applySet(rec, key, a[2])
           [] m.op = "DELETE" -> applyDelete(rec, key)
           [] m.op = "ARRAY_APPEND" -> applyArrayAppend(rec, key, a[2])
           [] m.op = "ARRAY_DELETE" -> applyArrayDelete(rec, key, a[2])
           [] m.op = "REGEX_PARSE" -> applyRegexParse(rec, key, a[2])
           [] m.op = "REGEX_SUB" -> IF Type(a[2]) # "str" THEN Untouched(rec)
                                    ELSE applyRegexSub(rec, key, a[2][2], a[3])
=============================================================================

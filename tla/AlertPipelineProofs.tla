------------------------ MODULE AlertPipelineProofs ------------------------
(***************************************************************************)
(* Proofs about AlertPipeline, for any number of workers and users, any    *)
(* hashes, severities and uids, any aggregate rule and any bound on        *)
(* alerts, comments, edits, faults and time.                               *)
(***************************************************************************)
EXTENDS AlertPipeline, FiniteSetTheorems, TLAPS

-----------------------------------------------------------------------------
(* Documents and the operations of the record collection.                  *)

(* Absent is none of the values a field, a row or a worker's uid can hold. *)
LEMMA AbsentIsNothing ==
  /\ Absent \notin Hashes /\ Absent \notin Sevs /\ Absent \notin Uids
  /\ Absent \notin Int /\ Absent \notin Nat /\ Absent \notin Documents
BY AbsentAssumption

(* The fields of a document.                                               *)
LEMMA DocFields ==
  ASSUME NEW a \in Documents
  PROVE  /\ a.hash \in Opt(Hashes) /\ a.sev \in Opt(Sevs) /\ a.state \in Opt(States)
         /\ a.dup \in Opt(Nat) /\ a.date \in Opt(Int) /\ a.count \in Opt(Nat)
         /\ a.flap \in Opt(Int) /\ a.ttl \in Opt(Int)
         /\ a.snoozed \in Opt({TRUE}) /\ a.response \in Opt({TRUE})
BY DEF Documents

(* toInt64 gives a number.                                                 *)
LEMMA NumType ==
  /\ \A v \in Opt(Nat), d \in Nat : Num(v, d) \in Nat
  /\ \A v \in Opt(Int), d \in Int : Num(v, d) \in Int
BY DEF Opt, Num

(* updateRow merges two documents into a document, and a field of the      *)
(* result is the patch's where the patch has it.                           *)
LEMMA MergeDoc ==
  ASSUME NEW a \in Documents, NEW b \in Documents
  PROVE  /\ Merge(a, b) \in Documents
         /\ Merge(a, b).hash = IF b.hash = Absent THEN a.hash ELSE b.hash
         /\ Merge(a, b).date = IF b.date = Absent THEN a.date ELSE b.date
         /\ Merge(a, b).count = IF b.count = Absent THEN a.count ELSE b.count
         /\ Merge(a, b).flap = IF b.flap = Absent THEN a.flap ELSE b.flap
         /\ Merge(a, b).snoozed = IF b.snoozed = Absent THEN a.snoozed ELSE b.snoozed
<1>1. \A f \in Fields : Merge(a, b)[f] \in {a[f], b[f]}
  BY DEF Merge, Documents, Fields
<1>2. Merge(a, b) \in Documents
  BY <1>1 DEF Merge, Documents, Fields
<1>. QED
  BY <1>2 DEF Merge, Fields

(* The document without any key.                                           *)
LEMMA EmptyDoc ==
  /\ Empty \in Documents
  /\ Empty.hash = Absent /\ Empty.date = Absent /\ Empty.count = Absent
  /\ Empty.flap = Absent /\ Empty.snoozed = Absent
BY DEF Empty, Documents, Fields, Opt

(* The date stamp touches nothing but the date.                            *)
LEMMA StampedDoc ==
  ASSUME NEW d \in Documents, NEW b \in BOOLEAN, NEW t \in Nat
  PROVE  /\ Stamped(d, b, t) \in Documents
         /\ Stamped(d, b, t).hash = d.hash
         /\ Stamped(d, b, t).date = IF b THEN t ELSE d.date
         /\ Stamped(d, b, t).count = d.count
         /\ Stamped(d, b, t).flap = d.flap
         /\ Stamped(d, b, t).snoozed = d.snoozed
<1>1. t \in Opt(Int)
  BY DEF Opt
<1>2. [d EXCEPT !.date = t] \in Documents
  BY <1>1 DEF Documents
<1>3. /\ [d EXCEPT !.date = t].hash = d.hash
      /\ [d EXCEPT !.date = t].date = t
      /\ [d EXCEPT !.date = t].count = d.count
      /\ [d EXCEPT !.date = t].flap = d.flap
      /\ [d EXCEPT !.date = t].snoozed = d.snoozed
  BY DEF Documents
<1>. QED
  BY <1>2, <1>3 DEF Stamped

(* What an incoming alert takes over from the row it was matched with.     *)
LEMMA IdentifiedDoc ==
  ASSUME NEW a \in Documents, NEW old \in Documents, now \in Nat
  PROVE  /\ Identified(a, old) \in Documents
         /\ Identified(a, old).hash = a.hash
         /\ Identified(a, old).sev = a.sev
         /\ Identified(a, old).date = Num(old.date, now)
         /\ Identified(a, old).count = Num(old.count, 0)
         /\ Identified(a, old).flap = a.flap
         /\ Identified(a, old).snoozed = a.snoozed
<1>1. /\ Num(old.dup, 0) \in Nat /\ Num(old.date, now) \in Int /\ Num(old.count, 0) \in Nat
  BY DocFields, NumType
<1>2. /\ Num(old.dup, 0) + 1 \in Opt(Nat) /\ Num(old.date, now) \in Opt(Int)
      /\ Num(old.count, 0) \in Opt(Nat)
  BY <1>1 DEF Opt
<1>. a.response \in Opt({TRUE}) /\ old.response \in Opt({TRUE})
  BY DocFields
<1>3. \A dup \in Opt(Nat), date \in Opt(Int), count \in Opt(Nat), response \in Opt({TRUE}) :
        [a EXCEPT !.dup = dup, !.date = date, !.count = count, !.response = response]
          \in Documents
  BY DEF Documents
<1>4. Identified(a, old) \in Documents
  BY <1>2, <1>3 DEF Identified
<1>. QED
  BY <1>4 DEF Identified, Documents

(* The comment the branch is about to write is counted ahead.              *)
LEMMA CommentedDoc ==
  ASSUME NEW a \in Documents, a.count \in Nat
  PROVE  /\ Commented(a) \in Documents
         /\ Commented(a).hash = a.hash
         /\ Commented(a).sev = a.sev
         /\ Commented(a).date = a.date
         /\ Commented(a).count = a.count + 1
         /\ Commented(a).flap = a.flap
         /\ Commented(a).snoozed = a.snoozed
<1>1. a.count + 1 \in Opt(Nat)
  BY DEF Opt
<1>2. Commented(a) \in Documents
  BY <1>1 DEF Commented, Documents
<1>. QED
  BY <1>2 DEF Commented, Documents

(* Setting the state and the countdown of a record.                        *)
LEMMA SetDoc ==
  ASSUME NEW a \in Documents, NEW fc \in Int, NEW st \in Opt(States)
  PROVE  LET b == [a EXCEPT !.flap = fc, !.state = st]
             c == [a EXCEPT !.state = st]
         IN  /\ b \in Documents /\ c \in Documents
             /\ b.hash = a.hash /\ b.sev = a.sev /\ b.date = a.date /\ b.count = a.count
             /\ b.flap = fc /\ b.snoozed = a.snoozed
             /\ c.hash = a.hash /\ c.sev = a.sev /\ c.date = a.date /\ c.count = a.count
             /\ c.flap = a.flap /\ c.snoozed = a.snoozed
<1>1. fc \in Opt(Int)
  BY DEF Opt
<1>2. [a EXCEPT !.flap = fc, !.state = st] \in Documents
  BY <1>1 DEF Documents
<1>3. [a EXCEPT !.state = st] \in Documents
  BY DEF Documents
<1>. QED
  BY <1>2, <1>3 DEF Documents

(* A row that is stored is a document under a uid that was drawn.          *)
LEMMA RowDoc ==
  ASSUME StoreTypeOK, NEW u \in Rows
  PROVE  u \in Uids /\ u \in used /\ rows[u] \in Documents
BY DEF StoreTypeOK, Rows, Opt

(* MAX(seq) is a number.                                                   *)
LEMMA MaxSeqNat == StoreTypeOK => MaxSeq \subseteq Nat
BY DEF StoreTypeOK, MaxSeq, Rows

(* insertRow adds one row, under a uid never drawn before.                 *)
LEMMA InsertEffect ==
  ASSUME StoreTypeOK, NEW d \in Documents, Insert(d)
  PROVE  /\ StoreTypeOK'
         /\ \E u \in Uids \ used :
              /\ rows[u] = Absent
              /\ rows' = [rows EXCEPT ![u] = Merge(Empty, d)]
              /\ rows'[u] = Merge(Empty, d)
              /\ \A v \in Uids : v # u => rows'[v] = rows[v]
              /\ used' = used \cup {u}
<1>1. PICK u \in Uids \ used, n \in MaxSeq :
             /\ rows' = [rows EXCEPT ![u] = Merge(Empty, d)]
             /\ seq' = [seq EXCEPT ![u] = n + 1]
  BY DEF Insert
<1>2. n \in Nat
  BY MaxSeqNat
<1>3. seq' \in [Uids -> Nat] /\ used' = used \cup {u}
  BY <1>1, <1>2 DEF used, StoreTypeOK
<1>4. Merge(Empty, d) \in Documents
  BY MergeDoc, EmptyDoc
<1>5. rows' \in [Uids -> Opt(Documents)]
  BY <1>1, <1>4 DEF StoreTypeOK, Opt
<1>6. rows[u] = Absent
  BY <1>1 DEF StoreTypeOK
<1>7. rows'[u] = Merge(Empty, d) /\ \A v \in Uids : v # u => rows'[v] = rows[v]
  BY <1>1 DEF StoreTypeOK
<1>8. \A v \in Uids : rows'[v] # Absent => v \in used'
  BY <1>3, <1>7 DEF StoreTypeOK
<1>. QED
  BY <1>1, <1>3, <1>5, <1>6, <1>7, <1>8 DEF StoreTypeOK

(* Write by uid merges onto the row, is rejected when the row is gone, and *)
(* inserts when the document has no uid.                                   *)
LEMMA WriteEffect ==
  ASSUME StoreTypeOK, NEW u \in Opt(Uids), NEW d \in Documents, NEW b \in BOOLEAN,
         NEW t \in Nat, Write(u, d, b, t)
  PROVE  /\ StoreTypeOK'
         /\ used \subseteq used'
         /\ \/ /\ u \in Rows
               /\ used' = used
               /\ rows'[u] = Merge(rows[u], Stamped(d, b, t))
               /\ \A v \in Uids : v # u => rows'[v] = rows[v]
            \/ /\ u # Absent /\ u \notin Rows /\ UNCHANGED storeVars
            \/ /\ u = Absent
               /\ Insert(Stamped(d, b, t))
<1>1. Stamped(d, b, t) \in Documents
  BY StampedDoc
<1>2. CASE u \in Rows
  <2>1. /\ rows' = [rows EXCEPT ![u] = Merge(rows[u], Stamped(d, b, t))]
        /\ seq' = seq
    BY <1>2, AbsentIsNothing DEF Write, Rows
  <2>2. Merge(rows[u], Stamped(d, b, t)) \in Documents
    BY <1>1, <1>2, RowDoc, MergeDoc
  <2>. QED
    BY <1>2, <2>1, <2>2 DEF StoreTypeOK, used, Rows, Opt
<1>3. CASE u # Absent /\ u \notin Rows
  BY <1>3 DEF Write, StoreTypeOK, used, storeVars
<1>4. CASE u = Absent
  <2>1. Insert(Stamped(d, b, t))
    BY <1>4, AbsentIsNothing DEF Write, Rows
  <2>. QED
    BY <1>1, <1>4, <2>1, InsertEffect
<1>. QED
  BY <1>2, <1>3, <1>4

(* UpdateOne merges onto the row, or onto an empty document when the row   *)
(* is gone.                                                                *)
LEMMA UpdateEffect ==
  ASSUME StoreTypeOK, NEW u \in Uids, NEW d \in Documents, NEW t \in Nat,
         UpdateOne(u, d, TRUE, t)
  PROVE  /\ StoreTypeOK'
         /\ used' = used \cup {u}
         /\ rows'[u] = Merge(IF u \in Rows THEN rows[u] ELSE Empty, Stamped(d, TRUE, t))
         /\ rows'[u] \in Documents
         /\ \A v \in Uids : v # u => rows'[v] = rows[v]
<1>1. PICK n \in MaxSeq : seq' = IF u \in Rows THEN seq ELSE [seq EXCEPT ![u] = n + 1]
  BY DEF UpdateOne
<1>2. n \in Nat
  BY MaxSeqNat
<1>3. seq' \in [Uids -> Nat] /\ used' = used \cup {u}
  BY <1>1, <1>2, RowDoc DEF used, StoreTypeOK
<1>4. /\ rows' = [rows EXCEPT ![u] = Merge(IF u \in Rows THEN rows[u] ELSE Empty,
                                           Stamped(d, TRUE, t))]
  BY DEF UpdateOne, Rows, StoreTypeOK
<1>5. Merge(IF u \in Rows THEN rows[u] ELSE Empty, Stamped(d, TRUE, t)) \in Documents
  <2>1. Stamped(d, TRUE, t) \in Documents
    BY StampedDoc
  <2>2. (IF u \in Rows THEN rows[u] ELSE Empty) \in Documents
    BY RowDoc, EmptyDoc
  <2>. QED
    BY <2>1, <2>2, MergeDoc
<1>6. /\ rows' \in [Uids -> Opt(Documents)]
      /\ rows'[u] = Merge(IF u \in Rows THEN rows[u] ELSE Empty, Stamped(d, TRUE, t))
      /\ \A v \in Uids : v # u => rows'[v] = rows[v]
  BY <1>4, <1>5 DEF StoreTypeOK, Opt
<1>. QED
  BY <1>3, <1>5, <1>6 DEF StoreTypeOK

(* UnsetFields and SetFields change one field of the rows they reach and   *)
(* leave every other field and every other row alone.                      *)
LEMMA UnsetEffect ==
  ASSUME StoreTypeOK, NEW u \in Uids, UnsetSnoozed(u)
  PROVE  /\ StoreTypeOK'
         /\ used' = used
         /\ Rows' = Rows
         /\ \A v \in Rows : /\ rows'[v].hash = rows[v].hash
                            /\ rows'[v].date = rows[v].date
                            /\ rows'[v].count = rows[v].count
                            /\ rows'[v].flap = rows[v].flap
                            /\ rows'[v].snoozed = IF v = u THEN Absent ELSE rows[v].snoozed
<1>1. used' = used
  BY DEF UnsetSnoozed, used
<1>2. \A v \in Rows : [rows[v] EXCEPT !.snoozed = Absent] \in Documents
  BY RowDoc DEF Documents, Opt
<1>3. CASE u \in Rows
  <2>1. rows' = [rows EXCEPT ![u] = [rows[u] EXCEPT !.snoozed = Absent]]
    BY <1>3 DEF UnsetSnoozed, StoreTypeOK, Rows
  <2>2. StoreTypeOK' /\ Rows' = Rows
    BY <1>1, <1>2, <1>3, <2>1, AbsentIsNothing DEF UnsetSnoozed, StoreTypeOK, Rows, Opt
  <2>3. \A v \in Rows : rows'[v] = IF v = u THEN [rows[u] EXCEPT !.snoozed = Absent] ELSE rows[v]
    BY <2>1 DEF StoreTypeOK, Rows
  <2>4. rows[u] \in Documents
    BY <1>3, RowDoc
  <2>. QED
    BY <1>1, <2>2, <2>3, <2>4 DEF Documents
<1>4. CASE u \notin Rows
  <2>1. rows' = rows /\ seq' = seq
    BY <1>4 DEF UnsetSnoozed, StoreTypeOK, Rows
  <2>. QED
    BY <1>4, <2>1 DEF StoreTypeOK, Rows, used
<1>. QED
  BY <1>3, <1>4

(* SetFields of a notifier's response.                                     *)
LEMMA ResponseEffect ==
  ASSUME StoreTypeOK, NEW h, SetResponse(h)
  PROVE  /\ StoreTypeOK'
         /\ used' = used
         /\ Rows' = Rows
         /\ \A v \in Rows : /\ rows'[v].hash = rows[v].hash
                            /\ rows'[v].date = rows[v].date
                            /\ rows'[v].count = rows[v].count
                            /\ rows'[v].flap = rows[v].flap
                            /\ rows'[v].snoozed = rows[v].snoozed
<1>1. used' = used
  BY DEF SetResponse, used
<1>2. \A v \in Rows : [rows[v] EXCEPT !.response = TRUE] \in Documents
  BY RowDoc DEF Documents, Opt
<1>3. \A v \in Uids : rows'[v] = IF v \in WithHash(h) THEN [rows[v] EXCEPT !.response = TRUE]
                                 ELSE rows[v]
  BY DEF SetResponse
<1>4. StoreTypeOK'
  BY <1>1, <1>2 DEF SetResponse, StoreTypeOK, Opt, WithHash, Rows
<1>5. Rows' = Rows
  BY <1>2, <1>3, AbsentIsNothing DEF Rows, WithHash
<1>6. \A v \in Rows : rows[v] \in Documents /\ v \in Uids
  BY RowDoc
<1>. QED
  BY <1>1, <1>3, <1>4, <1>5, <1>6 DEF Documents

(* BulkIncrement bumps `duplicates' of one row, or inserts a row that      *)
(* holds the hash and the delta alone.                                     *)
LEMMA IncrementEffect ==
  ASSUME StoreTypeOK, NEW h \in Hashes, IncrementDuplicates(h)
  PROVE  /\ StoreTypeOK'
         /\ used \subseteq used'
         /\ \/ /\ used' = used
               /\ Rows' = Rows
               /\ \A v \in Rows : /\ rows'[v].hash = rows[v].hash
                                  /\ rows'[v].date = rows[v].date
                                  /\ rows'[v].count = rows[v].count
                                  /\ rows'[v].flap = rows[v].flap
                                  /\ rows'[v].snoozed = rows[v].snoozed
            \/ /\ WithHash(h) = {}
               /\ Insert([Empty EXCEPT !.hash = h, !.dup = 1])
<1>1. CASE \E u \in WithHash(h) :
             rows' = [rows EXCEPT ![u].dup = Num(@, 0) + 1] /\ UNCHANGED seq
  <2>1. PICK u \in WithHash(h) :
               rows' = [rows EXCEPT ![u].dup = Num(@, 0) + 1] /\ UNCHANGED seq
    BY <1>1
  <2>2. u \in Rows
    BY DEF WithHash
  <2>3. u \in Uids /\ rows[u] \in Documents
    BY <2>2, RowDoc
  <2>4. Num(rows[u].dup, 0) \in Nat
    BY <2>3, DocFields, NumType
  <2>5. Num(rows[u].dup, 0) + 1 \in Opt(Nat)
    BY <2>4 DEF Opt
  <2>6. [rows[u] EXCEPT !.dup = Num(rows[u].dup, 0) + 1] \in Documents
    BY <2>3, <2>5 DEF Documents
  <2>7. rows' = [rows EXCEPT ![u] = [rows[u] EXCEPT !.dup = Num(rows[u].dup, 0) + 1]]
    BY <2>1
  <2>8. used' = used
    BY <2>1 DEF used
  <2>9. StoreTypeOK' /\ Rows' = Rows
    BY <2>1, <2>2, <2>6, <2>7, <2>8, AbsentIsNothing DEF StoreTypeOK, Rows, Opt
  <2>10. \A v \in Rows : rows'[v] = IF v = u THEN [rows[u] EXCEPT !.dup = Num(rows[u].dup, 0) + 1]
                                    ELSE rows[v]
    BY <2>7 DEF StoreTypeOK, Rows
  <2>11. rows'[u].hash = rows[u].hash /\ rows'[u].date = rows[u].date
         /\ rows'[u].count = rows[u].count /\ rows'[u].flap = rows[u].flap
         /\ rows'[u].snoozed = rows[u].snoozed
    BY <2>2, <2>3, <2>10 DEF Documents
  <2>. QED
    BY <2>8, <2>9, <2>10, <2>11
<1>2. CASE WithHash(h) = {} /\ Insert([Empty EXCEPT !.hash = h, !.dup = 1])
  <2>1. h \in Opt(Hashes) /\ 1 \in Opt(Nat)
    BY DEF Opt
  <2>2. [Empty EXCEPT !.hash = h, !.dup = 1] \in Documents
    BY <2>1, EmptyDoc DEF Documents
  <2>. QED
    BY <1>2, <2>2, InsertEffect
<1>. QED
  BY <1>1, <1>2 DEF IncrementDuplicates

(* CleanupTimeout deletes rows and leaves the others as they are.          *)
LEMMA CleanupEffect ==
  ASSUME StoreTypeOK, NEW t, CleanupTimeout(t)
  PROVE  /\ StoreTypeOK'
         /\ used' = used
         /\ Rows' \subseteq Rows
         /\ \A v \in Rows' : rows'[v] = rows[v]
<1>1. used' = used
  BY DEF CleanupTimeout, used
<1>2. \A v \in Uids : rows'[v] \in {Absent, rows[v]}
  BY DEF CleanupTimeout
<1>. QED
  BY <1>1, <1>2 DEF CleanupTimeout, StoreTypeOK, Rows, Opt

-----------------------------------------------------------------------------
(* Type correctness.                                                       *)

\* What a worker holds at each of its database calls.
WorkerShape ==
  \A w \in Workers :
    /\ pc[w] \in {"idle", "lookup"} =>
         /\ uid[w] = Absent /\ action[w] = "Continue" /\ cause[w] = "none"
         /\ doc[w].date = Absent /\ doc[w].count = Absent
         /\ doc[w].flap = Absent /\ doc[w].snoozed = Absent
    /\ pc[w] \in {"lookup", "comment", "unset", "snooze", "notify"} =>
         doc[w].hash \in Hashes /\ doc[w].sev \in Sevs
    /\ uid[w] # Absent => uid[w] \in used
    /\ pc[w] \in {"comment", "unset"} => uid[w] # Absent
    /\ cause[w] \in {"watch", "reopen"} => uid[w] # Absent

\* A user in AfterCreate holds the uid of a record that was there.
UserShape == \A p \in Users : upc[p] # "idle" => posted[p].record \in used

Typed == TypeOK /\ WorkerShape /\ UserShape

(* Receiving an alert keeps the shape.                                     *)
LEMMA TypedReceive ==
  ASSUME Typed, NEW w \in Workers, NEW h \in Hashes, NEW s \in Sevs,
         NEW st \in {Absent, "close"}, Receive(w, h, s, st)
  PROVE  Typed'
<1> DEFINE d == [Empty EXCEPT !.hash = h, !.sev = s, !.state = st, !.ttl = RecordTTL]
<1>1. /\ d \in Documents /\ d.hash = h /\ d.sev = s
      /\ d.date = Absent /\ d.count = Absent /\ d.flap = Absent /\ d.snoozed = Absent
  <2>1. h \in Opt(Hashes) /\ s \in Opt(Sevs) /\ st \in Opt(States) /\ RecordTTL \in Opt(Int)
    BY RuleAssumption DEF Opt, States
  <2>2. d \in Documents
    BY <2>1, EmptyDoc DEF Documents
  <2>. QED
    BY <2>2, EmptyDoc DEF Documents
<1>2. doc' = [doc EXCEPT ![w] = d]
  BY DEF Receive
<1> HIDE DEF d
<1>3. TypeOK'
  BY <1>1, <1>2 DEF Typed, TypeOK, StoreTypeOK, used, Receive, storeVars, userVars, history, Points
<1>4. WorkerShape'
  <2>1. /\ pc'[w] = "lookup" /\ doc'[w] = d
        /\ \A v \in Workers : v # w => pc'[v] = pc[v] /\ doc'[v] = doc[v]
        /\ UNCHANGED <<uid, action, cause, used>>
    BY <1>2 DEF Typed, TypeOK, used, Receive, storeVars
  <2>2. pc[w] = "idle"
    BY DEF Receive
  <2>. QED
    BY <1>1, <2>1, <2>2 DEF Typed, WorkerShape
<1>5. UserShape'
  BY DEF Typed, UserShape, used, Receive, storeVars, userVars
<1>. QED
  BY <1>3, <1>4, <1>5 DEF Typed

(* What the branches of matchAggregate decide: a document that carries the *)
(* alert's hash and severity and the row's date and comment count.         *)
LEMMA DecidedDoc ==
  ASSUME Typed, NEW w \in Workers, NEW u \in Uids, pc[w] = "lookup", u \in GetOne(doc[w].hash)
  PROVE  LET plain == Identified(doc[w], rows[u])
             told  == Commented(plain)
         IN  /\ rows[u] \in Documents /\ doc[w] \in Documents
             /\ plain \in Documents /\ told \in Documents
             /\ plain.hash = doc[w].hash /\ told.hash = doc[w].hash
             /\ plain.sev = doc[w].sev /\ told.sev = doc[w].sev
             /\ plain.date = Num(rows[u].date, now) /\ told.date = Num(rows[u].date, now)
             /\ plain.count = Num(rows[u].count, 0) /\ told.count = Num(rows[u].count, 0) + 1
             /\ plain.flap = Absent /\ told.flap = Absent
             /\ plain.snoozed = Absent /\ told.snoozed = Absent
             /\ Num(rows[u].count, 0) \in Nat
             /\ Countdown(rows[u]) \in Int
<1>1. rows[u] \in Documents /\ doc[w] \in Documents
  BY RowDoc DEF GetOne, WithHash, Typed, TypeOK
<1>2. Num(rows[u].count, 0) \in Nat
  BY <1>1, DocFields, NumType
<1>3. Countdown(rows[u]) \in Int
  BY <1>1, DocFields, NumType, RuleAssumption DEF Countdown
<1>. DEFINE plain == Identified(doc[w], rows[u])
<1>4. /\ plain \in Documents /\ plain.hash = doc[w].hash /\ plain.sev = doc[w].sev
      /\ plain.date = Num(rows[u].date, now) /\ plain.count = Num(rows[u].count, 0)
      /\ plain.flap = doc[w].flap /\ plain.snoozed = doc[w].snoozed
  BY <1>1, IdentifiedDoc DEF Typed, TypeOK
<1>5. doc[w].flap = Absent /\ doc[w].snoozed = Absent
  BY DEF Typed, WorkerShape
<1> HIDE DEF plain
<1>6. LET told == Commented(plain)
      IN  /\ told \in Documents /\ told.hash = plain.hash /\ told.sev = plain.sev
          /\ told.date = plain.date /\ told.count = plain.count + 1
          /\ told.flap = plain.flap /\ told.snoozed = plain.snoozed
  BY <1>2, <1>4, CommentedDoc
<1>. QED
  BY <1>1, <1>2, <1>3, <1>4, <1>5, <1>6 DEF plain

(* A worker that returns holds nothing.                                    *)
LEMMA TypedReturn ==
  ASSUME Typed, NEW w \in Workers, Return(w)
  PROVE  /\ pc' \in [Workers -> Points] /\ doc' \in [Workers -> Documents]
         /\ uid' \in [Workers -> Opt(Uids)] /\ action' \in [Workers -> Actions]
         /\ cause' \in [Workers -> Causes] /\ hadSnoozed' \in [Workers -> BOOLEAN]
         /\ used \subseteq used' => WorkerShape'
<1>1. Empty \in Documents
  BY EmptyDoc
<1>2. /\ pc' \in [Workers -> Points] /\ doc' \in [Workers -> Documents]
      /\ uid' \in [Workers -> Opt(Uids)] /\ action' \in [Workers -> Actions]
      /\ cause' \in [Workers -> Causes] /\ hadSnoozed' \in [Workers -> BOOLEAN]
  BY <1>1 DEF Typed, TypeOK, Return, Points, Actions, Causes, Opt
<1>3. /\ pc'[w] = "idle" /\ doc'[w] = Empty /\ uid'[w] = Absent
      /\ action'[w] = "Continue" /\ cause'[w] = "none"
      /\ \A v \in Workers : v # w => /\ pc'[v] = pc[v] /\ doc'[v] = doc[v] /\ uid'[v] = uid[v]
                                     /\ action'[v] = action[v] /\ cause'[v] = cause[v]
  BY DEF Typed, TypeOK, Return
<1>4. ASSUME used \subseteq used' PROVE WorkerShape'
  BY <1>3, <1>4, EmptyDoc DEF Typed, WorkerShape
<1>. QED
  BY <1>2, <1>4

\* A branch of matchAggregate decides on row u: it keeps the alert's hash and
\* severity, takes over the row's date and its comment count, and a verdict
\* other than Continue goes to the write without a notification.
Decided(w, u, why, rec, verdict, commenting) ==
  /\ Decide(w, u, why, rec, verdict, commenting)
  /\ LookupFrame
  /\ queued' \in {queued, [queued EXCEPT ![doc[w].hash] = @ + 1]}
  /\ rec.hash = doc[w].hash /\ rec.sev = doc[w].sev
  /\ rec.date = Num(rows[u].date, now)
  /\ rec.count = IF commenting THEN Num(rows[u].count, 0) + 1 ELSE Num(rows[u].count, 0)
  /\ rec.snoozed = Absent
  /\ rec.flap = IF why \in {"watch", "reopen"} THEN Countdown(rows[u]) ELSE Absent
  /\ why \in {"watch", "reopen"} /\ verdict = "Continue" => rec.flap > 0
  /\ verdict \in {"Continue", "AbortUpdate"}
  /\ verdict = "Continue" => commenting
  /\ why = "escalate" => ~Throttling(doc[w], rows[u])

\* One of the branches that found row u.
Branch(w, u) ==
  \/ AutoClose(w, u) \/ AlreadyClosed(w, u) \/ WatchChanged(w, u)
  \/ Reopen(w, u) \/ Throttled(w, u) \/ Escalate(w, u)

(* Every branch of matchAggregate is such a decision.                      *)
LEMMA BranchDecides ==
  ASSUME Typed, NEW w \in Workers, NEW u \in Uids, Branch(w, u)
  PROVE  /\ pc[w] = "lookup" /\ u \in GetOne(doc[w].hash)
         /\ \E why \in Causes \ {"none", "first"}, rec \in Documents, verdict \in Actions,
               commenting \in BOOLEAN : Decided(w, u, why, rec, verdict, commenting)
<1>1. pc[w] = "lookup" /\ u \in GetOne(doc[w].hash) /\ LookupFrame
  BY DEF Branch, AutoClose, AlreadyClosed, WatchChanged, Reopen, Throttled, Escalate
<1> DEFINE plain == Identified(doc[w], rows[u])
           told  == Commented(plain)
           fc    == Countdown(rows[u])
<1>2. /\ rows[u] \in Documents
      /\ plain \in Documents /\ told \in Documents
      /\ plain.hash = doc[w].hash /\ told.hash = doc[w].hash
      /\ plain.sev = doc[w].sev /\ told.sev = doc[w].sev
      /\ plain.date = Num(rows[u].date, now) /\ told.date = Num(rows[u].date, now)
      /\ plain.count = Num(rows[u].count, 0) /\ told.count = Num(rows[u].count, 0) + 1
      /\ plain.flap = Absent /\ told.flap = Absent
      /\ plain.snoozed = Absent /\ told.snoozed = Absent
      /\ Num(rows[u].count, 0) \in Nat
      /\ fc \in Int
  BY <1>1, DecidedDoc
<1>3. rows[u].state \in Opt(States) /\ fc \in Opt(Int)
  BY <1>2, DocFields DEF Opt
<1> HIDE DEF plain, told, fc
<1>4. CASE AutoClose(w, u)
  <2>1. Decided(w, u, "close", told, "Continue", TRUE)
    BY <1>1, <1>2, <1>4 DEF AutoClose, plain, told, Decided
  <2>. QED
    BY <1>1, <1>2, <2>1 DEF Causes, Actions
<1>5. CASE AlreadyClosed(w, u)
  <2>1. Decided(w, u, "closed", plain, "AbortUpdate", FALSE)
    BY <1>1, <1>2, <1>5 DEF AlreadyClosed, plain, Decided
  <2>. QED
    BY <1>1, <1>2, <2>1 DEF Causes, Actions
<1>6. CASE WatchChanged(w, u)
  <2> DEFINE back == [close |-> "open", ack |-> "esc"]
             st   == IF rows[u].state \in DOMAIN back THEN back[rows[u].state]
                     ELSE rows[u].state
             rec  == [told EXCEPT !.flap = fc, !.state = st]
             verdict == IF fc <= 0 THEN "AbortUpdate" ELSE "Continue"
  <2>1. st \in Opt(States)
    BY <1>3 DEF States, Opt
  <2>2. Decide(w, u, "watch", rec, verdict, TRUE) /\ queued' = queued
    BY <1>6 DEF WatchChanged, plain, told, fc
  <2> HIDE DEF st
  <2>3. rec \in Documents
    BY <1>2, <1>3, <2>1 DEF Documents
  <2>4. /\ rec.hash = told.hash /\ rec.sev = told.sev /\ rec.date = told.date
        /\ rec.count = told.count /\ rec.flap = fc /\ rec.snoozed = told.snoozed
    BY <1>2, <2>3 DEF Documents
  <2> HIDE DEF rec
  <2>5. Decided(w, u, "watch", rec, verdict, TRUE)
    <3>1. verdict = "Continue" => rec.flap > 0
      BY <1>2, <2>4
    <3>2. verdict \in {"Continue", "AbortUpdate"}
      OBVIOUS
    <3>3. rec.flap = Countdown(rows[u])
      BY <2>4 DEF fc
    <3> HIDE DEF verdict
    <3>. QED
      BY <1>1, <1>2, <2>2, <2>4, <3>1, <3>2, <3>3 DEF Decided
  <2>. QED
    BY <1>1, <2>3, <2>5 DEF Causes, Actions
<1>7. CASE Reopen(w, u)
  <2> DEFINE rec  == [told EXCEPT !.flap = fc, !.state = "open"]
             verdict == IF fc <= 0 THEN "AbortUpdate" ELSE "Continue"
  <2>1. "open" \in Opt(States)
    BY DEF States, Opt
  <2>2. Decide(w, u, "reopen", rec, verdict, TRUE) /\ queued' = queued
    BY <1>7 DEF Reopen, plain, told, fc
  <2>3. rec \in Documents
    BY <1>2, <1>3, <2>1 DEF Documents
  <2>4. /\ rec.hash = told.hash /\ rec.sev = told.sev /\ rec.date = told.date
        /\ rec.count = told.count /\ rec.flap = fc /\ rec.snoozed = told.snoozed
    BY <1>2, <2>3 DEF Documents
  <2> HIDE DEF rec
  <2>5. Decided(w, u, "reopen", rec, verdict, TRUE)
    <3>1. verdict = "Continue" => rec.flap > 0
      BY <1>2, <2>4
    <3>2. verdict \in {"Continue", "AbortUpdate"}
      OBVIOUS
    <3>3. rec.flap = Countdown(rows[u])
      BY <2>4 DEF fc
    <3> HIDE DEF verdict
    <3>. QED
      BY <1>1, <1>2, <2>2, <2>4, <3>1, <3>2, <3>3 DEF Decided
  <2>. QED
    BY <1>1, <2>3, <2>5 DEF Causes, Actions
<1>8. CASE Throttled(w, u)
  <2> DEFINE rec == [plain EXCEPT !.state = rows[u].state]
  <2>1. rec \in Documents
    BY <1>2, <1>3 DEF Documents
  <2>2. /\ rec.hash = plain.hash /\ rec.sev = plain.sev /\ rec.date = plain.date
        /\ rec.count = plain.count /\ rec.flap = plain.flap /\ rec.snoozed = plain.snoozed
    BY <1>2, <2>1 DEF Documents
  <2>3. /\ Decide(w, u, "throttle", rec, "AbortUpdate", FALSE)
        /\ queued' = [queued EXCEPT ![doc[w].hash] = @ + 1]
    BY <1>8 DEF Throttled, plain
  <2> HIDE DEF rec
  <2>4. Decided(w, u, "throttle", rec, "AbortUpdate", FALSE)
    BY <1>1, <1>2, <2>2, <2>3 DEF Decided
  <2>. QED
    BY <1>1, <2>1, <2>4 DEF Causes, Actions
<1>9. CASE Escalate(w, u)
  <2> DEFINE st  == IF rows[u].state = "ack" THEN "esc" ELSE rows[u].state
             rec == [told EXCEPT !.state = st]
  <2>1. st \in Opt(States)
    BY <1>3 DEF States, Opt
  <2>2. /\ Decide(w, u, "escalate", rec, "Continue", TRUE) /\ queued' = queued
        /\ ~Throttling(doc[w], rows[u])
    BY <1>9 DEF Escalate, plain, told
  <2> HIDE DEF st
  <2>3. rec \in Documents
    BY <1>2, <2>1 DEF Documents
  <2>4. /\ rec.hash = told.hash /\ rec.sev = told.sev /\ rec.date = told.date
        /\ rec.count = told.count /\ rec.flap = told.flap /\ rec.snoozed = told.snoozed
    BY <1>2, <2>3 DEF Documents
  <2> HIDE DEF rec
  <2>5. Decided(w, u, "escalate", rec, "Continue", TRUE)
    BY <1>1, <1>2, <2>2, <2>4 DEF Decided
  <2>. QED
    BY <1>1, <2>3, <2>5 DEF Causes, Actions
<1>. QED
  BY <1>4, <1>5, <1>6, <1>7, <1>8, <1>9 DEF Branch

(* Every lookup keeps the shape.                                           *)
LEMMA TypedLookup ==
  ASSUME Typed, NEW w \in Workers, Lookup(w)
  PROVE  Typed'
<1>1. CASE FirstOccurrence(w)
  <2> DEFINE d == [doc[w] EXCEPT !.dup = 1]
  <2>1. doc[w] \in Documents /\ 1 \in Opt(Nat)
    BY DEF Typed, TypeOK, Opt
  <2>2. d \in Documents /\ d.hash = doc[w].hash /\ d.sev = doc[w].sev
    BY <2>1 DEF Documents
  <2>3. doc' = [doc EXCEPT ![w] = d]
    BY <1>1 DEF FirstOccurrence
  <2> HIDE DEF d
  <2>4. TypeOK'
    BY <1>1, <2>2, <2>3 DEF Typed, TypeOK, StoreTypeOK, used, FirstOccurrence, LookupFrame,
       storeVars, userVars, bounded, history, Points, Causes
  <2>5. /\ pc[w] = "lookup" /\ pc'[w] = "snooze" /\ cause'[w] = "first"
        /\ doc'[w] = d
        /\ \A v \in Workers : v # w => /\ pc'[v] = pc[v] /\ doc'[v] = doc[v]
                                       /\ cause'[v] = cause[v]
        /\ UNCHANGED <<uid, action, used, upc, posted>>
    BY <1>1, <2>3 DEF Typed, TypeOK, used, FirstOccurrence, LookupFrame, storeVars, userVars
  <2>6. WorkerShape'
    BY <2>2, <2>5 DEF Typed, WorkerShape
  <2>7. UserShape'
    BY <2>5 DEF Typed, UserShape
  <2>. QED
    BY <2>4, <2>6, <2>7 DEF Typed
<1>2. ASSUME NEW u \in Uids, Branch(w, u)
      PROVE  Typed'
  <2>1. pc[w] = "lookup" /\ u \in GetOne(doc[w].hash)
    BY <1>2, BranchDecides
  <2>2. PICK why \in Causes \ {"none", "first"}, rec \in Documents, verdict \in Actions,
             commenting \in BOOLEAN : Decided(w, u, why, rec, verdict, commenting)
    BY <1>2, BranchDecides
  <2>3. doc[w].hash \in Hashes /\ queued \in [Hashes -> Nat]
    BY <2>1 DEF Typed, TypeOK, WorkerShape
  <2>4. queued' \in [Hashes -> Nat]
    BY <2>2, <2>3 DEF Decided
  <2>5. u \in used
    BY <2>1, RowDoc DEF GetOne, WithHash, Typed, TypeOK
  <2>6. /\ Decide(w, u, why, rec, verdict, commenting)
        /\ LookupFrame
        /\ rec.hash \in Hashes /\ rec.sev \in Sevs
    BY <2>1, <2>2 DEF Decided, Typed, WorkerShape
  <2>7. TypeOK'
    BY <2>4, <2>6 DEF Typed, TypeOK, StoreTypeOK, used, Decide, LookupFrame, storeVars, userVars,
       bounded, history, Points, Opt
  <2>8. WorkerShape'
    BY <2>5, <2>6, AbsentIsNothing
    DEF Typed, TypeOK, WorkerShape, used, Decide, LookupFrame, storeVars
  <2>9. UserShape'
    BY <2>6 DEF Typed, UserShape, used, LookupFrame, storeVars, userVars
  <2>. QED
    BY <2>7, <2>8, <2>9 DEF Typed
<1>. QED
  BY <1>1, <1>2 DEF Lookup, Branch

(* A step that leaves the workers, or the users, alone keeps their shape:  *)
(* uids are only ever added to the drawn ones.                             *)
LEMMA ShapesKept ==
  ASSUME Typed, used \subseteq used'
  PROVE  /\ UNCHANGED workerVars => WorkerShape'
         /\ UNCHANGED <<upc, posted>> => UserShape'
BY DEF Typed, WorkerShape, UserShape, workerVars

(* A worker that moves on with its document, uid and cause untouched keeps *)
(* the shape.                                                              *)
LEMMA WorkerMoves ==
  ASSUME Typed, NEW w \in Workers, used \subseteq used', UNCHANGED <<doc, uid, action, cause>>,
         NEW next \in Points \ {"idle", "lookup"}, pc' = [pc EXCEPT ![w] = next],
         pc[w] \notin {"idle", "lookup", "write"}, next = "unset" => uid[w] # Absent,
         next # "comment"
  PROVE  WorkerShape'
<1>1. pc'[w] = next /\ \A v \in Workers : v # w => pc'[v] = pc[v]
  BY DEF Typed, TypeOK
<1>. QED
  BY <1>1 DEF Typed, TypeOK, WorkerShape, Points

(* The pipeline's steps after the lookup keep the shape.                   *)
LEMMA TypedStep ==
  ASSUME Typed, NEW w \in Workers,
         \/ LookupFails(w) \/ WriteAutoComment(w) \/ ClearStaleSnoozed(w)
         \/ SnoozeMisses(w) \/ SnoozeMatches(w) \/ SnoozeDiscards(w) \/ Notify(w)
         \/ WriteRecord(w) \/ WriteFails(w)
  PROVE  Typed'
<1> USE DEF storeVars, userVars, bounded, history, workerVars
<1>1. CASE LookupFails(w)
  <2> DEFINE d == [doc[w] EXCEPT !.hash = Absent]
  <2>1. doc[w] \in Documents /\ Absent \in Opt(Hashes)
    BY DEF Typed, TypeOK, Opt
  <2>2. d \in Documents
    BY <2>1 DEF Documents
  <2>3. doc' = [doc EXCEPT ![w] = d]
    BY <1>1 DEF LookupFails
  <2> HIDE DEF d
  <2>4. TypeOK'
    <3>1. doc' \in [Workers -> Documents]
      BY <2>2, <2>3 DEF Typed, TypeOK
    <3>2. pc' \in [Workers -> Points] /\ action' \in [Workers -> Actions] /\ faults' \in Nat
      BY <1>1 DEF Typed, TypeOK, LookupFails, Points, Actions
    <3>. QED
      BY <1>1, <3>1, <3>2 DEF Typed, TypeOK, StoreTypeOK, used, LookupFails
  <2>5. /\ pc[w] = "lookup" /\ pc'[w] = "write"
        /\ \A v \in Workers : v # w => pc'[v] = pc[v] /\ doc'[v] = doc[v]
        /\ UNCHANGED <<uid, action, cause, used, upc, posted>>
    BY <1>1, <2>3 DEF Typed, TypeOK, used, LookupFails
  <2>. QED
    BY <2>4, <2>5 DEF Typed, WorkerShape, UserShape
<1>2. CASE WriteAutoComment(w)
  <2>1. uid[w] \in Uids
    BY <1>2 DEF WriteAutoComment, Typed, TypeOK, WorkerShape, Opt
  <2>2. AfterAggregate(w) \in {"write", "unset", "snooze"}
    BY DEF AfterAggregate
  <2>3. TypeOK'
    <3>1. comments' \in [Uids -> Nat] /\ missing' \in [Uids -> Nat] /\ faults' \in Nat
      <4>1. comments \in [Uids -> Nat] /\ missing \in [Uids -> Nat] /\ faults \in Nat
        BY DEF Typed, TypeOK
      <4>2. \/ /\ comments' = [comments EXCEPT ![uid[w]] = @ + 1]
               /\ UNCHANGED <<faults, missing>>
            \/ /\ faults' = faults + 1
               /\ missing' = [missing EXCEPT ![uid[w]] = @ + 1]
               /\ UNCHANGED comments
        BY <1>2 DEF WriteAutoComment
      <4>. QED
        BY <2>1, <4>1, <4>2
    <3>2. pc' \in [Workers -> Points]
      BY <1>2, <2>2 DEF WriteAutoComment, Typed, TypeOK, Points
    <3>. QED
      BY <1>2, <3>1, <3>2 DEF Typed, TypeOK, StoreTypeOK, used, WriteAutoComment
  <2>4. used' = used
    BY <1>2 DEF used, WriteAutoComment
  <2>5. WorkerShape'
    BY <1>2, <2>1, <2>2, <2>4, WorkerMoves, AbsentIsNothing DEF WriteAutoComment, Points
  <2>. QED
    BY <1>2, <2>3, <2>4, <2>5, ShapesKept DEF Typed, WriteAutoComment
<1>3. CASE ClearStaleSnoozed(w)
  <2>1. uid[w] \in Uids
    BY <1>3 DEF ClearStaleSnoozed, Typed, TypeOK, WorkerShape, Opt
  <2>2. StoreTypeOK' /\ used' = used
    <3>1. CASE UnsetSnoozed(uid[w])
      BY <2>1, <3>1, UnsetEffect DEF Typed, TypeOK
    <3>2. CASE UNCHANGED storeVars
      BY <3>2 DEF Typed, TypeOK, StoreTypeOK, used
    <3>. QED
      BY <1>3, <3>1, <3>2 DEF ClearStaleSnoozed
  <2>3. TypeOK'
    BY <1>3, <2>2 DEF Typed, TypeOK, ClearStaleSnoozed, Points
  <2>4. WorkerShape'
    BY <1>3, <2>2, WorkerMoves DEF ClearStaleSnoozed, Points
  <2>. QED
    BY <1>3, <2>2, <2>3, <2>4, ShapesKept DEF Typed, ClearStaleSnoozed
<1>4. CASE SnoozeMisses(w)
  <2>1. used' = used
    BY <1>4 DEF used, SnoozeMisses
  <2>2. TypeOK'
    BY <1>4 DEF Typed, TypeOK, StoreTypeOK, used, SnoozeMisses, Points
  <2>3. WorkerShape'
    BY <1>4, <2>1, WorkerMoves DEF SnoozeMisses, Points
  <2>. QED
    BY <1>4, <2>1, <2>2, <2>3, ShapesKept DEF Typed, SnoozeMisses
<1>5. CASE SnoozeMatches(w)
  <2> DEFINE d == [doc[w] EXCEPT !.snoozed = TRUE]
  <2>1. doc[w] \in Documents /\ TRUE \in Opt({TRUE})
    BY DEF Typed, TypeOK, Opt
  <2>2. d \in Documents
    BY <2>1 DEF Documents
  <2>3. doc' = [doc EXCEPT ![w] = d]
    BY <1>5 DEF SnoozeMatches
  <2> HIDE DEF d
  <2>4. TypeOK'
    <3>1. doc' \in [Workers -> Documents]
      BY <2>2, <2>3 DEF Typed, TypeOK
    <3>2. pc' \in [Workers -> Points] /\ action' \in [Workers -> Actions] /\ faults' \in Nat
      BY <1>5 DEF Typed, TypeOK, SnoozeMatches, Points, Actions
    <3>. QED
      BY <1>5, <3>1, <3>2 DEF Typed, TypeOK, StoreTypeOK, used, SnoozeMatches
  <2>5. /\ pc[w] = "snooze" /\ pc'[w] = "write"
        /\ \A v \in Workers : v # w => /\ pc'[v] = pc[v] /\ doc'[v] = doc[v]
                                       /\ action'[v] = action[v]
        /\ UNCHANGED <<uid, cause, used, upc, posted>>
    BY <1>5, <2>3 DEF Typed, TypeOK, used, SnoozeMatches
  <2>. QED
    BY <2>4, <2>5 DEF Typed, WorkerShape, UserShape
<1>6. CASE SnoozeDiscards(w)
  <2>1. used' = used /\ Return(w)
    BY <1>6 DEF used, SnoozeDiscards
  <2>2. TypeOK'
    BY <1>6, <2>1, TypedReturn DEF Typed, TypeOK, StoreTypeOK, SnoozeDiscards
  <2>. QED
    BY <1>6, <2>1, <2>2, TypedReturn, ShapesKept DEF Typed, SnoozeDiscards
<1>7. CASE Notify(w)
  <2>1. used' = used
    BY <1>7 DEF used, Notify
  <2>2. doc[w].hash \in Hashes /\ (cause[w] \in {"watch", "reopen"} => uid[w] \in Uids)
    BY <1>7 DEF Notify, Typed, TypeOK, WorkerShape, Opt
  <2>3. sends' \in SUBSET Hashes
    BY <1>7, <2>2 DEF Notify, Typed, TypeOK
  <2>4. lastSent' \in [Hashes -> Opt(Nat)]
    BY <1>7, <2>2 DEF Notify, Typed, TypeOK, Opt
  <2>5. flaps' \in [Uids -> Nat]
    BY <1>7, <2>2 DEF Notify, Typed, TypeOK
  <2>6. TypeOK'
    BY <1>7, <2>3, <2>4, <2>5 DEF Typed, TypeOK, StoreTypeOK, used, Notify, Points
  <2>7. WorkerShape'
    BY <1>7, <2>1, WorkerMoves DEF Notify, Points
  <2>. QED
    BY <1>7, <2>1, <2>6, <2>7, ShapesKept DEF Typed, Notify
<1>8. CASE WriteRecord(w)
  <2>1. /\ uid[w] \in Opt(Uids) /\ doc[w] \in Documents /\ doc[w].hash \in Opt(Hashes)
        /\ now \in Nat /\ StoreTypeOK
    BY DocFields DEF Typed, TypeOK
  <2>2. StoreTypeOK' /\ used \subseteq used'
    <3>1. (action[w] # "AbortUpdate") \in BOOLEAN
      OBVIOUS
    <3>2. Write(uid[w], doc[w], action[w] # "AbortUpdate", now)
      BY <1>8 DEF WriteRecord
    <3>. QED
      BY <2>1, <3>1, <3>2, WriteEffect
  <2>3. hits' \in [Hashes -> Nat]
    BY <1>8, <2>1 DEF WriteRecord, Typed, TypeOK, Opt
  <2>4. matched' \in [Uids -> BOOLEAN]
    BY <1>8 DEF WriteRecord, Typed, TypeOK
  <2>5. Return(w)
    BY <1>8 DEF WriteRecord
  <2>6. TypeOK'
    BY <1>8, <2>2, <2>3, <2>4, <2>5, TypedReturn DEF Typed, TypeOK, WriteRecord
  <2>. QED
    BY <1>8, <2>2, <2>5, <2>6, TypedReturn, ShapesKept DEF Typed, WriteRecord
<1>9. CASE WriteFails(w)
  <2>1. used' = used /\ Return(w)
    BY <1>9 DEF used, WriteFails
  <2>2. TypeOK'
    BY <1>9, <2>1, TypedReturn DEF Typed, TypeOK, StoreTypeOK, WriteFails
  <2>. QED
    BY <1>9, <2>1, <2>2, TypedReturn, ShapesKept DEF Typed, WriteFails
<1>. QED
  BY <1>1, <1>2, <1>3, <1>4, <1>5, <1>6, <1>7, <1>8, <1>9

(* The notifiers, the async writer, the users, the operators, the          *)
(* housekeeper and the clock keep the shape.                               *)
LEMMA TypedOthers ==
  ASSUME Typed,
         \/ \E h \in Hashes : InjectResponse(h) \/ FlushIncrement(h)
         \/ \E p \in Users : \/ \E u \in Uids, t \in CommentTypes : PostComment(p, u, t)
                             \/ ReadRecord(p) \/ PatchRecord(p) \/ AfterCreateFails(p)
         \/ \E u \in Uids : Shelve(u)
         \/ \E f \in Opt([sev : Sevs, discard : BOOLEAN]) : EditFilter(f)
         \/ CleanupAlerts \/ CleanupComments \/ Tick
  PROVE  Typed'
<1> USE DEF storeVars, userVars, bounded, history, workerVars
<1>1. ASSUME NEW h \in Hashes, InjectResponse(h) PROVE Typed'
  <2>1. StoreTypeOK' /\ used' = used
    BY <1>1, ResponseEffect DEF InjectResponse, Typed, TypeOK
  <2>2. TypeOK'
    BY <1>1, <2>1 DEF Typed, TypeOK, InjectResponse
  <2>. QED
    BY <1>1, <2>1, <2>2, ShapesKept DEF Typed, InjectResponse
<1>2. ASSUME NEW h \in Hashes, FlushIncrement(h) PROVE Typed'
  <2>1. StoreTypeOK' /\ used \subseteq used'
    BY <1>2, IncrementEffect DEF FlushIncrement, Typed, TypeOK
  <2>2. queued' \in [Hashes -> Nat]
    BY <1>2 DEF FlushIncrement, Typed, TypeOK
  <2>3. TypeOK'
    BY <1>2, <2>1, <2>2 DEF Typed, TypeOK, FlushIncrement
  <2>. QED
    BY <1>2, <2>1, <2>3, ShapesKept DEF Typed, FlushIncrement
<1>3. ASSUME NEW p \in Users, NEW u \in Uids, NEW t \in CommentTypes, PostComment(p, u, t)
      PROVE  Typed'
  <2>1. used' = used /\ u \in used
    BY <1>3, RowDoc DEF used, PostComment, Typed, TypeOK
  <2>2. comments' \in [Uids -> Nat] /\ posts' \in Nat
    BY <1>3 DEF PostComment, Typed, TypeOK
  <2>3. upc' \in [Users -> {"idle", "read", "patch"}]
    BY <1>3 DEF PostComment, Typed, TypeOK
  <2>4. posted' \in [Users -> [record : Opt(Uids), type : CommentTypes \cup {"comment"}]]
    BY <1>3 DEF PostComment, Typed, TypeOK, Opt
  <2>5. TypeOK'
    BY <1>3, <2>2, <2>3, <2>4 DEF Typed, TypeOK, StoreTypeOK, used, PostComment
  <2>6. UserShape'
    BY <1>3, <2>1 DEF Typed, TypeOK, UserShape, PostComment
  <2>. QED
    BY <1>3, <2>1, <2>5, <2>6, ShapesKept DEF Typed, PostComment
<1>4. ASSUME NEW p \in Users, ReadRecord(p) PROVE Typed'
  <2>1. used' = used
    BY <1>4 DEF used, ReadRecord
  <2>2. seenCount' \in [Users -> Nat]
    <3>1. ASSUME posted[p].record \in Rows PROVE Num(rows[posted[p].record].count, 0) \in Nat
      BY <3>1, RowDoc, DocFields, NumType DEF Typed, TypeOK
    <3>2. CASE /\ posted[p].record \in Rows
               /\ seenCount' = [seenCount EXCEPT ![p] = Num(rows[posted[p].record].count, 0)]
      BY <3>1, <3>2 DEF Typed, TypeOK
    <3>3. CASE UNCHANGED seenCount
      BY <3>3 DEF Typed, TypeOK
    <3>. QED
      BY <1>4, <3>2, <3>3 DEF ReadRecord
  <2>3. upc' \in [Users -> {"idle", "read", "patch"}]
    BY <1>4 DEF ReadRecord, Typed, TypeOK
  <2>4. TypeOK'
    BY <1>4, <2>2, <2>3 DEF Typed, TypeOK, StoreTypeOK, used, ReadRecord
  <2>5. UserShape'
    BY <1>4, <2>1 DEF Typed, TypeOK, UserShape, ReadRecord
  <2>. QED
    BY <1>4, <2>1, <2>4, <2>5, ShapesKept DEF Typed, ReadRecord
<1>5. ASSUME NEW p \in Users, PatchRecord(p) PROVE Typed'
  <2> DEFINE u == posted[p].record
             c == seenCount[p] + 1
             st == IF posted[p].type = "comment" THEN Absent ELSE posted[p].type
             d == [Empty EXCEPT !.count = c, !.state = st]
  <2>1. u \in Uids
    BY <1>5 DEF PatchRecord, Typed, UserShape, used
  <2>2. c \in Opt(Nat)
    BY DEF Typed, TypeOK, Opt
  <2>3. st \in Opt(States)
    BY TypesAssumption DEF Typed, TypeOK, Opt, States
  <2>4. UpdateOne(u, d, TRUE, now)
    BY <1>5 DEF PatchRecord
  <2> HIDE DEF c, st
  <2>5. d \in Documents
    BY <2>2, <2>3, EmptyDoc DEF Documents
  <2> HIDE DEF d, u
  <2>6. StoreTypeOK' /\ used \subseteq used'
    BY <2>1, <2>4, <2>5, UpdateEffect DEF Typed, TypeOK
  <2>7. TypeOK'
    BY <1>5, <2>6 DEF Typed, TypeOK, PatchRecord
  <2>8. UserShape'
    BY <1>5, <2>6 DEF Typed, TypeOK, UserShape, PatchRecord
  <2>. QED
    BY <1>5, <2>6, <2>7, <2>8, ShapesKept DEF Typed, PatchRecord
<1>6. ASSUME NEW p \in Users, AfterCreateFails(p) PROVE Typed'
  <2>1. used' = used
    BY <1>6 DEF used, AfterCreateFails
  <2>2. TypeOK'
    BY <1>6 DEF Typed, TypeOK, StoreTypeOK, used, AfterCreateFails
  <2>3. UserShape'
    BY <1>6, <2>1 DEF Typed, TypeOK, UserShape, AfterCreateFails
  <2>. QED
    BY <1>6, <2>1, <2>2, <2>3, ShapesKept DEF Typed, AfterCreateFails
<1>7. ASSUME NEW u \in Uids, Shelve(u) PROVE Typed'
  <2> DEFINE c == 0 - rows[u].ttl
             d == [Empty EXCEPT !.ttl = c]
  <2>1. rows[u].ttl \in Int
    BY <1>7, RowDoc, DocFields DEF Shelve, Typed, TypeOK, Opt
  <2>2. c \in Opt(Int)
    BY <2>1 DEF Opt
  <2>3. UpdateOne(u, d, TRUE, now)
    BY <1>7 DEF Shelve
  <2> HIDE DEF c
  <2>4. d \in Documents
    BY <2>2, EmptyDoc DEF Documents
  <2> HIDE DEF d
  <2>5. StoreTypeOK' /\ used \subseteq used'
    BY <2>3, <2>4, UpdateEffect DEF Typed, TypeOK
  <2>6. TypeOK'
    BY <1>7, <2>5 DEF Typed, TypeOK, Shelve
  <2>. QED
    BY <1>7, <2>5, <2>6, ShapesKept DEF Typed, Shelve
<1>8. ASSUME NEW f \in Opt([sev : Sevs, discard : BOOLEAN]), EditFilter(f) PROVE Typed'
  <2>1. used' = used
    BY <1>8 DEF used, EditFilter
  <2>2. TypeOK'
    BY <1>8 DEF Typed, TypeOK, StoreTypeOK, used, EditFilter
  <2>. QED
    BY <1>8, <2>1, <2>2, ShapesKept DEF Typed, EditFilter
<1>9. CASE CleanupAlerts
  <2>1. StoreTypeOK' /\ used' = used
    BY <1>9, CleanupEffect DEF CleanupAlerts, Typed, TypeOK
  <2>2. TypeOK'
    BY <1>9, <2>1 DEF Typed, TypeOK, CleanupAlerts
  <2>. QED
    BY <1>9, <2>1, <2>2, ShapesKept DEF Typed, CleanupAlerts
<1>10. CASE CleanupComments
  <2>1. used' = used
    BY <1>10 DEF used, CleanupComments
  <2>2. comments' \in [Uids -> Nat] /\ cleaned' \in [Uids -> Nat]
    BY <1>10 DEF CleanupComments, Typed, TypeOK
  <2>3. TypeOK'
    BY <1>10, <2>2 DEF Typed, TypeOK, StoreTypeOK, used, CleanupComments
  <2>. QED
    BY <1>10, <2>1, <2>3, ShapesKept DEF Typed, CleanupComments
<1>11. CASE Tick
  <2>1. used' = used
    BY <1>11 DEF used, Tick
  <2>2. TypeOK'
    BY <1>11 DEF Typed, TypeOK, StoreTypeOK, used, Tick
  <2>. QED
    BY <1>11, <2>1, <2>2, ShapesKept DEF Typed, Tick
<1>. QED
  BY <1>1, <1>2, <1>3, <1>4, <1>5, <1>6, <1>7, <1>8, <1>9, <1>10, <1>11

(* Every step keeps the shape.                                             *)
LEMMA TypedNext == Typed /\ [Next]_vars => Typed'
<1> SUFFICES ASSUME Typed, [Next]_vars PROVE Typed'
  OBVIOUS
<1>1. ASSUME NEW w \in Workers,
             \/ \E h \in Hashes, s \in Sevs, st \in {Absent, "close"} : Receive(w, h, s, st)
             \/ Step(w) \/ LookupFails(w) \/ WriteFails(w)
      PROVE  Typed'
  BY <1>1, TypedReceive, TypedLookup, TypedStep DEF Step
<1>2. CASE UNCHANGED vars
  <2>1. UNCHANGED <<used, upc, posted, workerVars>>
    BY <1>2 DEF vars, used, storeVars, userVars
  <2>2. TypeOK'
    BY <1>2 DEF Typed, TypeOK, StoreTypeOK, used, vars, storeVars, userVars, bounded, history,
       workerVars
  <2>. QED
    BY <2>1, <2>2, ShapesKept DEF Typed
<1>. QED
  BY <1>1, <1>2, TypedOthers DEF Next

(* The state the server boots with is well typed.                          *)
LEMMA TypedInit == Init => Typed
<1> SUFFICES ASSUME Init PROVE Typed
  OBVIOUS
<1>1. StoreTypeOK
  BY DEF Init, StoreInit, StoreTypeOK, used, Opt
<1>2. doc \in [Workers -> Documents]
  BY EmptyDoc DEF Init
<1>3. posted \in [Users -> [record : Opt(Uids), type : CommentTypes \cup {"comment"}]]
  BY DEF Init, Opt
<1>4. TypeOK
  BY <1>1, <1>2, <1>3, FilterAssumption DEF Init, TypeOK, Points, Actions, Causes, Opt
<1>5. WorkerShape /\ UserShape
  BY EmptyDoc DEF Init, WorkerShape, UserShape
<1>. QED
  BY <1>4, <1>5 DEF Typed

(* A worker never carries a document its columns cannot hold, never        *)
(* comments on or clears a record it has not found, and no uid is drawn    *)
(* twice, whatever the number of goroutines and users and the choices of   *)
(* the rule.                                                               *)
THEOREM TypeCorrect == Spec => []TypeOK
<1>1. Spec => []Typed
  BY TypedInit, TypedNext, PTL DEF Spec
<1>. QED
  BY <1>1, PTL DEF Typed

-----------------------------------------------------------------------------
(* The comment count.  A user's comment is on the timeline before the      *)
(* record's count is read, a worker's after its count was computed, so the *)
(* argument is a balance: the comments made for a record, less the users   *)
(* who have posted and not read yet, never decrease, and cover every count *)
(* that is stored or about to be stored.                                   *)

Made(u) == comments[u] + missing[u] + cleaned[u]

\* Users between their POST and the read of AfterCreate.
Waiting(u) == {p \in Users : upc[p] = "read" /\ posted[p].record = u}

Due(u) == Made(u) - Cardinality(Waiting(u))

WaitingFinite == \A u \in Uids : IsFiniteSet(Waiting(u))

StoredCount(u) == IF rows[u] = Absent THEN 0 ELSE Num(rows[u].count, 0)

StoredCovered == \A u \in Uids : StoredCount(u) <= Due(u)

\* The count worker w carries; its comment, once counted, is still to come.
Carried(w) ==
  IF uid[w] = Absent THEN doc[w].count = Absent
  ELSE /\ doc[w].count \in Nat
       /\ doc[w].count <= Due(uid[w]) + (IF pc[w] = "comment" THEN 1 ELSE 0)

CarriedCovered == \A w \in Workers : Carried(w)

ReadCovered ==
  \A p \in Users : upc[p] = "patch" => seenCount[p] + 1 <= Due(posted[p].record)

CountInv == Typed /\ WaitingFinite /\ StoredCovered /\ CarriedCovered /\ ReadCovered

(* Balances and stored counts are numbers.                                 *)
LEMMA DueType ==
  ASSUME Typed, WaitingFinite
  PROVE  /\ \A u \in Uids : Cardinality(Waiting(u)) \in Nat /\ Made(u) \in Nat /\ Due(u) \in Int
         /\ \A u \in Uids : StoredCount(u) \in Nat
<1>1. \A u \in Uids : Cardinality(Waiting(u)) \in Nat
  BY FS_CardinalityType DEF WaitingFinite
<1>2. \A u \in Uids : Made(u) \in Nat
  BY DEF Made, Typed, TypeOK
<1>3. ASSUME NEW u \in Uids PROVE StoredCount(u) \in Nat
  <2>1. ASSUME rows[u] # Absent PROVE Num(rows[u].count, 0) \in Nat
    BY <2>1, RowDoc, DocFields, NumType DEF Rows, Typed, TypeOK
  <2>. QED
    BY <2>1 DEF StoredCount
<1>. QED
  BY <1>1, <1>2, <1>3 DEF Due

(* Nothing that leaves the timeline and the users alone moves a balance.   *)
LEMMA DueKept ==
  ASSUME Typed, WaitingFinite, UNCHANGED <<comments, missing, cleaned, upc, posted>>
  PROVE  WaitingFinite' /\ \A u \in Uids : Due(u)' = Due(u)
<1>1. \A u \in Uids : Waiting(u)' = Waiting(u) /\ Made(u)' = Made(u)
  BY DEF Waiting, Made
<1>. QED
  BY <1>1 DEF WaitingFinite, Due

(* A user who leaves the wait, having read or failed, frees the comment it *)
(* posted: the balance of its record goes up by one.                       *)
LEMMA DueFreed ==
  ASSUME Typed, WaitingFinite, NEW p \in Users, upc[p] = "read", NEW to \in {"idle", "patch"},
         upc' = [upc EXCEPT ![p] = to], UNCHANGED <<comments, missing, cleaned, posted>>
  PROVE  /\ WaitingFinite'
         /\ \A u \in Uids : Due(u)' = IF u = posted[p].record THEN Due(u) + 1 ELSE Due(u)
<1>1. \A u \in Uids : Made(u)' = Made(u)
  BY DEF Made
<1>2. \A u \in Uids : Waiting(u)' = Waiting(u) \ {p}
  BY DEF Waiting, Typed, TypeOK
<1>3. \A u \in Uids : p \in Waiting(u) <=> u = posted[p].record
  BY DEF Waiting
<1>4. ASSUME NEW u \in Uids
      PROVE  /\ IsFiniteSet(Waiting(u)')
             /\ Cardinality(Waiting(u)') = IF u = posted[p].record THEN Cardinality(Waiting(u)) - 1
                                           ELSE Cardinality(Waiting(u))
  <2>1. IsFiniteSet(Waiting(u))
    BY DEF WaitingFinite
  <2>2. /\ IsFiniteSet(Waiting(u) \ {p})
        /\ Cardinality(Waiting(u) \ {p}) = IF p \in Waiting(u) THEN Cardinality(Waiting(u)) - 1
                                           ELSE Cardinality(Waiting(u))
    BY <2>1, FS_RemoveElement
  <2>. QED
    BY <1>2, <1>3, <2>2
<1>. QED
  BY <1>1, <1>4, DueType DEF WaitingFinite, Due

(* No step takes from a balance: a comment is posted together with its     *)
(* wait, and the housekeeper moves documents to the cleaned ones.          *)
LEMMA DueGrows ==
  ASSUME Typed, WaitingFinite, [Next]_vars
  PROVE  WaitingFinite' /\ \A u \in Uids : Due(u) \in Int /\ Due(u)' \in Int /\ Due(u)' >= Due(u)
<1>0. Typed'
  BY TypedNext
<1>1. SUFFICES WaitingFinite' /\ \A u \in Uids : Due(u)' >= Due(u)
  <2>1. ASSUME WaitingFinite' PROVE \A u \in Uids : Due(u)' \in Int
    <3>1. ASSUME NEW u \in Uids PROVE Cardinality(Waiting(u)') \in Nat
      BY <2>1, FS_CardinalityType DEF WaitingFinite
    <3>2. \A u \in Uids : Made(u)' \in Nat
      BY <1>0 DEF Made, Typed, TypeOK
    <3>. QED
      BY <3>1, <3>2 DEF Due
  <2>. QED
    BY <2>1, DueType
<1>2. CASE UNCHANGED <<comments, missing, cleaned, upc, posted>>
  BY <1>2, DueKept, DueType
<1>3. ASSUME NEW w \in Workers, WriteAutoComment(w)
      PROVE  WaitingFinite' /\ \A u \in Uids : Due(u)' >= Due(u)
  <2>1. uid[w] \in Uids
    BY <1>3 DEF WriteAutoComment, Typed, TypeOK, WorkerShape, Opt
  <2>2. \A u \in Uids : Waiting(u)' = Waiting(u)
    BY <1>3 DEF Waiting, WriteAutoComment, userVars
  <2>3. \/ comments' = [comments EXCEPT ![uid[w]] = @ + 1] /\ UNCHANGED <<missing, cleaned>>
        \/ missing' = [missing EXCEPT ![uid[w]] = @ + 1] /\ UNCHANGED <<comments, cleaned>>
    BY <1>3 DEF WriteAutoComment
  <2>4. \A u \in Uids : comments[u] \in Nat /\ missing[u] \in Nat /\ cleaned[u] \in Nat
    BY DEF Typed, TypeOK
  <2>5. ASSUME NEW u \in Uids
        PROVE  /\ comments'[u] \in {comments[u], comments[u] + 1}
               /\ missing'[u] \in {missing[u], missing[u] + 1}
               /\ cleaned'[u] = cleaned[u]
    BY <2>3 DEF Typed, TypeOK
  <2>6. \A u \in Uids : Made(u)' >= Made(u)
    BY <2>4, <2>5 DEF Made
  <2>7. \A u \in Uids : Made(u)' \in Nat
    BY <1>0 DEF Made, Typed, TypeOK
  <2>. QED
    BY <2>2, <2>6, <2>7, DueType DEF WaitingFinite, Due
<1>4. ASSUME NEW p \in Users, NEW u \in Uids, NEW t \in CommentTypes, PostComment(p, u, t)
      PROVE  WaitingFinite' /\ \A v \in Uids : Due(v)' >= Due(v)
  <2>1. /\ upc[p] = "idle" /\ upc' = [upc EXCEPT ![p] = "read"]
        /\ posted' = [posted EXCEPT ![p] = [record |-> u, type |-> t]]
        /\ comments' = [comments EXCEPT ![u] = @ + 1]
        /\ UNCHANGED <<missing, cleaned>>
    BY <1>4 DEF PostComment, history
  <2>2. \A v \in Uids : Waiting(v)' = IF v = u THEN Waiting(v) \cup {p} ELSE Waiting(v)
    BY <2>1 DEF Waiting, Typed, TypeOK
  <2>3. p \notin Waiting(u)
    BY <2>1 DEF Waiting
  <2>4. IsFiniteSet(Waiting(u))
    BY DEF WaitingFinite
  <2>5. IsFiniteSet(Waiting(u) \cup {p})
        /\ Cardinality(Waiting(u) \cup {p}) = Cardinality(Waiting(u)) + 1
    BY <2>3, <2>4, FS_AddElement
  <2>6. \A v \in Uids : Made(v)' = IF v = u THEN Made(v) + 1 ELSE Made(v)
    BY <2>1 DEF Made, Typed, TypeOK
  <2>7. ASSUME NEW v \in Uids PROVE Due(v)' = Due(v)
    <3>1. Cardinality(Waiting(v)') = IF v = u THEN Cardinality(Waiting(v)) + 1
                                     ELSE Cardinality(Waiting(v))
      BY <2>2, <2>5
    <3>2. Cardinality(Waiting(v)) \in Nat /\ Made(v) \in Nat
      BY DueType
    <3>. QED
      BY <2>6, <3>1, <3>2 DEF Due
  <2>. QED
    BY <2>2, <2>5, <2>7, DueType DEF WaitingFinite
<1>5. ASSUME NEW p \in Users, ReadRecord(p)
      PROVE  WaitingFinite' /\ \A u \in Uids : Due(u)' >= Due(u)
  <2>1. /\ upc[p] = "read"
        /\ UNCHANGED <<comments, missing, cleaned, posted>>
    BY <1>5 DEF ReadRecord, history
  <2>2. PICK to \in {"idle", "patch"} : upc' = [upc EXCEPT ![p] = to]
    BY <1>5 DEF ReadRecord
  <2>3. /\ WaitingFinite'
        /\ \A u \in Uids : Due(u)' = IF u = posted[p].record THEN Due(u) + 1 ELSE Due(u)
    BY <2>1, <2>2, DueFreed
  <2>. QED
    BY <2>3, DueType
<1>6. ASSUME NEW p \in Users, PatchRecord(p)
      PROVE  WaitingFinite' /\ \A u \in Uids : Due(u)' >= Due(u)
  <2>1. \A u \in Uids : Waiting(u)' = Waiting(u)
    BY <1>6 DEF PatchRecord, Waiting, Typed, TypeOK
  <2>2. \A u \in Uids : Made(u)' = Made(u)
    BY <1>6 DEF PatchRecord, Made, history
  <2>. QED
    BY <2>1, <2>2, DueType DEF Due, WaitingFinite
<1>7. ASSUME NEW p \in Users, AfterCreateFails(p)
      PROVE  WaitingFinite' /\ \A u \in Uids : Due(u)' >= Due(u)
  <2>1. /\ upc' = [upc EXCEPT ![p] = "idle"]
        /\ UNCHANGED <<comments, missing, cleaned, posted>>
    BY <1>7 DEF AfterCreateFails, history
  <2>2. CASE upc[p] = "read"
    <3>1. /\ WaitingFinite'
          /\ \A u \in Uids : Due(u)' = IF u = posted[p].record THEN Due(u) + 1 ELSE Due(u)
      BY <2>1, <2>2, DueFreed
    <3>. QED
      BY <3>1, DueType
  <2>3. CASE upc[p] # "read"
    <3>1. \A u \in Uids : Waiting(u)' = Waiting(u) /\ Made(u)' = Made(u)
      BY <2>1, <2>3 DEF Waiting, Made, Typed, TypeOK
    <3>. QED
      BY <3>1, DueType DEF Due, WaitingFinite
  <2>. QED
    BY <2>2, <2>3
<1>8. CASE CleanupComments
  <2>1. \A u \in Uids : Waiting(u)' = Waiting(u)
    BY <1>8 DEF CleanupComments, Waiting, userVars
  <2>2. \A u \in Uids : Made(u)' = Made(u)
    BY <1>8 DEF CleanupComments, Made, Typed, TypeOK
  <2>. QED
    BY <2>1, <2>2, DueType DEF Due, WaitingFinite
<1>9. CASE UNCHANGED vars
  BY <1>2, <1>9 DEF vars, userVars, history
<1>10. ASSUME NEW w \in Workers,
              \/ \E h \in Hashes, s \in Sevs, st \in {Absent, "close"} : Receive(w, h, s, st)
              \/ Lookup(w) \/ ClearStaleSnoozed(w)
              \/ SnoozeMisses(w) \/ SnoozeMatches(w) \/ SnoozeDiscards(w)
              \/ Notify(w) \/ WriteRecord(w) \/ LookupFails(w) \/ WriteFails(w)
       PROVE  UNCHANGED <<comments, missing, cleaned, upc, posted>>
  BY <1>10 DEF Receive, Lookup, FirstOccurrence, AutoClose, AlreadyClosed, WatchChanged, Reopen,
     Throttled, Escalate, LookupFrame, ClearStaleSnoozed, SnoozeMisses, SnoozeMatches,
     SnoozeDiscards, Notify, WriteRecord, LookupFails, WriteFails, userVars, history
<1>11. ASSUME \/ \E h \in Hashes : InjectResponse(h) \/ FlushIncrement(h)
              \/ \E u \in Uids : Shelve(u)
              \/ \E f \in Opt([sev : Sevs, discard : BOOLEAN]) : EditFilter(f)
              \/ CleanupAlerts \/ Tick
       PROVE  UNCHANGED <<comments, missing, cleaned, upc, posted>>
  BY <1>11 DEF InjectResponse, FlushIncrement, Shelve, EditFilter, CleanupAlerts, Tick, userVars,
     history
<1>. QED
  BY <1>2, <1>3, <1>4, <1>5, <1>6, <1>7, <1>8, <1>9, <1>10, <1>11 DEF Next, Step

(* A row inserted from a document without a count counts nothing.          *)
LEMMA InsertCounts ==
  ASSUME StoreTypeOK, NEW d \in Documents, d.count = Absent, Insert(d)
  PROVE  \A v \in Uids : StoredCount(v)' = StoredCount(v)
<1>1. PICK u \in Uids \ used :
             /\ rows[u] = Absent
             /\ rows'[u] = Merge(Empty, d)
             /\ \A v \in Uids : v # u => rows'[v] = rows[v]
  BY InsertEffect
<1>2. Merge(Empty, d).count = Absent
  BY MergeDoc, EmptyDoc
<1>. QED
  BY <1>1, <1>2 DEF StoredCount, Num

(* Operations that keep the rows and their counts.                         *)
LEMMA SameCounts ==
  ASSUME Rows' = Rows, \A v \in Rows : rows'[v].count = rows[v].count
  PROVE  \A v \in Uids : StoredCount(v)' = StoredCount(v)
BY DEF Rows, StoredCount

(* A count stored by a merge is the patch's, if the patch has one.         *)
LEMMA MergedCount ==
  ASSUME NEW a \in Documents, NEW b \in Documents
  PROVE  Num(Merge(a, b).count, 0) = IF b.count = Absent THEN Num(a.count, 0) ELSE b.count
BY MergeDoc DEF Num

(* Every stored count stays covered.                                       *)
LEMMA StoredStep == CountInv /\ [Next]_vars => StoredCovered'
<1> SUFFICES ASSUME CountInv, [Next]_vars PROVE StoredCovered'
  OBVIOUS
<1>1. /\ Typed /\ WaitingFinite /\ StoreTypeOK /\ now \in Nat
      /\ \A u \in Uids : Due(u) \in Int /\ Due(u)' \in Int /\ Due(u)' >= Due(u)
      /\ \A u \in Uids : StoredCount(u) \in Nat /\ StoredCount(u) <= Due(u)
  BY DueGrows, DueType DEF CountInv, Typed, TypeOK, StoredCovered
<1>2. ASSUME \A u \in Uids : StoredCount(u)' = StoredCount(u) PROVE StoredCovered'
  BY <1>1, <1>2 DEF StoredCovered
<1>3. ASSUME UNCHANGED rows PROVE StoredCovered'
  BY <1>2, <1>3 DEF StoredCount
<1>4. ASSUME NEW w \in Workers, ClearStaleSnoozed(w) PROVE StoredCovered'
  <2>1. uid[w] \in Uids
    BY <1>1, <1>4 DEF ClearStaleSnoozed, Typed, TypeOK, WorkerShape, Opt
  <2>2. CASE UnsetSnoozed(uid[w])
    BY <1>1, <1>2, <2>1, <2>2, UnsetEffect, SameCounts
  <2>. QED
    BY <1>3, <1>4, <2>2 DEF ClearStaleSnoozed, storeVars
<1>5. ASSUME NEW h \in Hashes, InjectResponse(h) PROVE StoredCovered'
  BY <1>1, <1>2, <1>5, ResponseEffect, SameCounts DEF InjectResponse
<1>6. ASSUME NEW h \in Hashes, FlushIncrement(h) PROVE StoredCovered'
  <2>1. IncrementDuplicates(h)
    BY <1>6 DEF FlushIncrement
  <2>2. CASE Rows' = Rows /\ \A v \in Rows : rows'[v].count = rows[v].count
    BY <1>2, <2>2, SameCounts
  <2>3. CASE Insert([Empty EXCEPT !.hash = h, !.dup = 1])
    <3> DEFINE d == [Empty EXCEPT !.hash = h, !.dup = 1]
    <3>1. h \in Opt(Hashes) /\ 1 \in Opt(Nat)
      BY DEF Opt
    <3>2. d \in Documents
      BY <3>1, EmptyDoc DEF Documents
    <3>3. d.count = Absent
      BY EmptyDoc DEF Documents
    <3>4. Insert(d)
      BY <2>3
    <3> HIDE DEF d
    <3>. QED
      BY <1>1, <1>2, <3>2, <3>3, <3>4, InsertCounts
  <2>. QED
    BY <1>1, <2>1, <2>2, <2>3, IncrementEffect
<1>7. ASSUME NEW w \in Workers, WriteRecord(w) PROVE StoredCovered'
  <2> DEFINE b == action[w] # "AbortUpdate"
             d == Stamped(doc[w], b, now)
  <2>1. pc[w] = "write" /\ Write(uid[w], doc[w], b, now)
    BY <1>7 DEF WriteRecord
  <2>2. uid[w] \in Opt(Uids) /\ doc[w] \in Documents
    BY <1>1 DEF Typed, TypeOK
  <2>3. b \in BOOLEAN
    OBVIOUS
  <2> HIDE DEF b
  <2>4. d \in Documents /\ d.count = doc[w].count
    BY <1>1, <2>2, <2>3, StampedDoc
  <2>5. CASE /\ uid[w] \in Rows
             /\ rows'[uid[w]] = Merge(rows[uid[w]], d)
             /\ \A v \in Uids : v # uid[w] => rows'[v] = rows[v]
    <3>1. PICK u \in Rows : u = uid[w]
      BY <2>5
    <3>2. u \in Uids /\ u # Absent /\ rows[u] \in Documents
      BY <1>1, RowDoc, AbsentIsNothing
    <3>3. doc[w].count \in Nat /\ doc[w].count <= Due(u)
      BY <1>1, <2>1, <3>1, <3>2 DEF CountInv, CarriedCovered, Carried
    <3>4. Num(rows'[u].count, 0) = doc[w].count
      BY <2>4, <2>5, <3>1, <3>2, <3>3, MergedCount, AbsentIsNothing
    <3>5. rows'[u] # Absent
      BY <2>4, <2>5, <3>1, <3>2, MergeDoc, AbsentIsNothing
    <3>6. StoredCount(u)' = doc[w].count
      BY <3>4, <3>5 DEF StoredCount
    <3>7. \A v \in Uids : v # u => StoredCount(v)' = StoredCount(v)
      BY <2>5, <3>1 DEF StoredCount
    <3>. QED
      BY <1>1, <3>2, <3>3, <3>6, <3>7 DEF StoredCovered
  <2>6. CASE UNCHANGED storeVars
    BY <1>3, <2>6 DEF storeVars
  <2>7. CASE uid[w] = Absent /\ Insert(d)
    <3>1. d.count = Absent
      BY <2>4, <2>7 DEF CountInv, CarriedCovered, Carried
    <3> HIDE DEF d
    <3>. QED
      BY <1>1, <1>2, <2>4, <2>7, <3>1, InsertCounts
  <2>8. \/ /\ uid[w] \in Rows
           /\ rows'[uid[w]] = Merge(rows[uid[w]], d)
           /\ \A v \in Uids : v # uid[w] => rows'[v] = rows[v]
        \/ UNCHANGED storeVars
        \/ uid[w] = Absent /\ Insert(d)
    BY <1>1, <2>1, <2>2, <2>3, WriteEffect
  <2>. QED
    BY <2>5, <2>6, <2>7, <2>8
<1>8. ASSUME NEW u \in Uids, NEW d \in Documents, UpdateOne(u, d, TRUE, now),
             d.count = Absent \/ (d.count \in Nat /\ d.count <= Due(u))
      PROVE  StoredCovered'
  <2> DEFINE a == IF u \in Rows THEN rows[u] ELSE Empty
             b == Stamped(d, TRUE, now)
  <2>1. a \in Documents /\ b \in Documents /\ b.count = d.count
    BY <1>1, RowDoc, EmptyDoc, StampedDoc
  <2>2. /\ rows'[u] = Merge(a, b) /\ rows'[u] \in Documents
        /\ \A v \in Uids : v # u => rows'[v] = rows[v]
    BY <1>1, <1>8, UpdateEffect
  <2>3. Num(a.count, 0) = StoredCount(u)
    BY EmptyDoc DEF StoredCount, Rows, Num
  <2>4. StoredCount(u)' = IF d.count = Absent THEN StoredCount(u) ELSE d.count
    <3> HIDE DEF a, b
    <3>. QED
      BY <2>1, <2>2, <2>3, MergedCount, AbsentIsNothing DEF StoredCount
  <2>5. \A v \in Uids : v # u => StoredCount(v)' = StoredCount(v)
    BY <2>2 DEF StoredCount
  <2>. QED
    BY <1>1, <1>8, <2>4, <2>5 DEF StoredCovered
<1>9. ASSUME NEW p \in Users, PatchRecord(p) PROVE StoredCovered'
  <2> DEFINE u == posted[p].record
             c == seenCount[p] + 1
             st == IF posted[p].type = "comment" THEN Absent ELSE posted[p].type
             d == [Empty EXCEPT !.count = c, !.state = st]
  <2>1. u \in Uids
    BY <1>1, <1>9 DEF PatchRecord, Typed, UserShape, used
  <2>2. c \in Nat
    BY <1>1 DEF Typed, TypeOK
  <2>3. st \in Opt(States)
    BY <1>1, TypesAssumption DEF Typed, TypeOK, Opt, States
  <2>4. UpdateOne(u, d, TRUE, now)
    BY <1>9 DEF PatchRecord
  <2>5. c <= Due(u)
    BY <1>9 DEF PatchRecord, CountInv, ReadCovered
  <2> HIDE DEF c, st
  <2>6. d \in Documents
    <3>1. c \in Opt(Nat)
      BY <2>2 DEF Opt
    <3>. QED
      BY <2>3, <3>1, EmptyDoc DEF Documents
  <2>7. d.count = c
    BY EmptyDoc DEF Documents
  <2> HIDE DEF d, u
  <2>. QED
    BY <1>8, <2>1, <2>2, <2>4, <2>5, <2>6, <2>7
<1>10. ASSUME NEW u \in Uids, Shelve(u) PROVE StoredCovered'
  <2> DEFINE c == 0 - rows[u].ttl
             d == [Empty EXCEPT !.ttl = c]
  <2>1. rows[u].ttl \in Int
    BY <1>1, <1>10, RowDoc, DocFields DEF Shelve, Opt
  <2>2. c \in Opt(Int)
    BY <2>1 DEF Opt
  <2>3. UpdateOne(u, d, TRUE, now)
    BY <1>10 DEF Shelve
  <2> HIDE DEF c
  <2>4. d \in Documents
    BY <2>2, EmptyDoc DEF Documents
  <2>5. d.count = Absent
    BY EmptyDoc DEF Documents
  <2> HIDE DEF d
  <2>. QED
    BY <1>8, <2>3, <2>4, <2>5
<1>11. CASE CleanupAlerts
  <2>1. CleanupTimeout(now)
    BY <1>11 DEF CleanupAlerts
  <2>2. Rows' \subseteq Rows /\ \A v \in Rows' : rows'[v] = rows[v]
    BY <1>1, <2>1, CleanupEffect
  <2>3. \A v \in Uids : StoredCount(v)' \in {0, StoredCount(v)}
    BY <2>2 DEF StoredCount, Rows
  <2>. QED
    BY <1>1, <2>3 DEF StoredCovered
<1>12. ASSUME NEW w \in Workers,
              \/ \E h \in Hashes, s \in Sevs, st \in {Absent, "close"} : Receive(w, h, s, st)
              \/ Lookup(w) \/ WriteAutoComment(w)
              \/ SnoozeMisses(w) \/ SnoozeMatches(w) \/ SnoozeDiscards(w)
              \/ Notify(w) \/ LookupFails(w) \/ WriteFails(w)
       PROVE  StoredCovered'
  BY <1>3, <1>12 DEF Receive, Lookup, FirstOccurrence, AutoClose, AlreadyClosed, WatchChanged,
     Reopen, Throttled, Escalate, LookupFrame, WriteAutoComment, SnoozeMisses, SnoozeMatches,
     SnoozeDiscards, Notify, LookupFails, WriteFails, storeVars
<1>13. ASSUME \/ \E p \in Users : \/ \E u \in Uids, t \in CommentTypes : PostComment(p, u, t)
                                  \/ ReadRecord(p) \/ AfterCreateFails(p)
              \/ \E f \in Opt([sev : Sevs, discard : BOOLEAN]) : EditFilter(f)
              \/ CleanupComments \/ Tick \/ UNCHANGED vars
       PROVE  StoredCovered'
  BY <1>3, <1>13 DEF PostComment, ReadRecord, AfterCreateFails, EditFilter, CleanupComments, Tick,
     storeVars, vars
<1>. QED
  BY <1>4, <1>5, <1>6, <1>7, <1>9, <1>10, <1>11, <1>12, <1>13 DEF Next, Step

(* A worker whose uid and count stay, and that is not past its comment by  *)
(* this step, stays covered.                                               *)
LEMMA CarriedKept ==
  ASSUME CountInv, [Next]_vars, NEW v \in Workers, uid'[v] = uid[v],
         doc'[v].count = doc[v].count, pc[v] = "comment" => pc'[v] = "comment"
  PROVE  Carried(v)'
<1>1. /\ Carried(v)
      /\ uid[v] \in Opt(Uids)
      /\ \A u \in Uids : Due(u) \in Int /\ Due(u)' \in Int /\ Due(u)' >= Due(u)
  BY DueGrows DEF CountInv, CarriedCovered, Carried, Typed, TypeOK
<1>2. CASE uid[v] = Absent
  BY <1>1, <1>2 DEF Carried
<1>3. CASE uid[v] # Absent
  <2>1. PICK u \in Uids : u = uid[v]
    BY <1>1, <1>3 DEF Opt
  <2>2. uid'[v] = u /\ u # Absent
    BY <1>3, <2>1
  <2>3. doc[v].count \in Nat /\ doc[v].count <= Due(u) + (IF pc[v] = "comment" THEN 1 ELSE 0)
    BY <1>1, <2>1, <2>2 DEF Carried
  <2>4. doc[v].count <= Due(u)' + (IF pc'[v] = "comment" THEN 1 ELSE 0)
    BY <1>1, <2>3
  <2>5. Due(u)' = Due(uid[v])'
    BY <2>2
  <2>. QED
    BY <2>2, <2>3, <2>4, <2>5 DEF Carried
<1>. QED
  BY <1>2, <1>3

(* Every count a worker carries stays covered.                             *)
LEMMA CarriedStep == CountInv /\ [Next]_vars => CarriedCovered'
<1> SUFFICES ASSUME CountInv, [Next]_vars PROVE \A v \in Workers : Carried(v)'
  BY DEF CarriedCovered
<1>1. /\ Typed /\ WaitingFinite /\ StoreTypeOK /\ now \in Nat
      /\ \A u \in Uids : Due(u) \in Int /\ Due(u)' \in Int /\ Due(u)' >= Due(u)
      /\ \A u \in Uids : StoredCount(u) \in Nat /\ StoredCount(u) <= Due(u)
      /\ \A v \in Workers : Carried(v)
  BY DueGrows, DueType DEF CountInv, CarriedCovered, Carried, Typed, TypeOK, StoredCovered
<1>2. ASSUME NEW w \in Workers, NEW h \in Hashes, NEW s \in Sevs, NEW st \in {Absent, "close"},
             Receive(w, h, s, st)
      PROVE  \A v \in Workers : Carried(v)'
  <2> DEFINE d == [Empty EXCEPT !.hash = h, !.sev = s, !.state = st, !.ttl = RecordTTL]
  <2>1. d.count = Absent
    BY EmptyDoc DEF Documents
  <2>2. /\ uid' = uid /\ uid[w] = Absent
        /\ pc' = [pc EXCEPT ![w] = "lookup"] /\ doc' = [doc EXCEPT ![w] = d]
    BY <1>1, <1>2 DEF Receive, Typed, WorkerShape
  <2> HIDE DEF d
  <2>3. Carried(w)'
    BY <1>1, <2>1, <2>2 DEF Carried, Typed, TypeOK
  <2>4. ASSUME NEW v \in Workers, v # w PROVE Carried(v)'
    BY <1>1, <2>2, <2>4, CarriedKept DEF Typed, TypeOK
  <2>. QED
    BY <2>3, <2>4
<1>3. ASSUME NEW w \in Workers, FirstOccurrence(w) \/ LookupFails(w)
      PROVE  \A v \in Workers : Carried(v)'
  <2>1. /\ pc[w] = "lookup" /\ UNCHANGED uid
        /\ \A v \in Workers : v # w => pc'[v] = pc[v] /\ doc'[v] = doc[v]
    BY <1>1, <1>3 DEF FirstOccurrence, LookupFails, Typed, TypeOK
  <2>2. doc[w] \in Documents
    BY <1>1 DEF Typed, TypeOK
  <2>3. doc'[w] = [doc[w] EXCEPT !.dup = 1] \/ doc'[w] = [doc[w] EXCEPT !.hash = Absent]
    BY <1>1, <1>3 DEF FirstOccurrence, LookupFails, Typed, TypeOK
  <2>4. doc'[w].count = doc[w].count
    BY <2>2, <2>3 DEF Documents
  <2>. QED
    BY <2>1, <2>4, CarriedKept
<1>4. ASSUME NEW w \in Workers, NEW u \in Uids, Branch(w, u)
      PROVE  \A v \in Workers : Carried(v)'
  <2>1. PICK why \in Causes \ {"none", "first"}, rec \in Documents, verdict \in Actions,
             commenting \in BOOLEAN : Decided(w, u, why, rec, verdict, commenting)
    BY <1>1, <1>4, BranchDecides
  <2>2. u \in Rows
    BY <1>1, <1>4, BranchDecides DEF GetOne, WithHash
  <2>3. /\ doc' = [doc EXCEPT ![w] = rec] /\ uid' = [uid EXCEPT ![w] = u]
        /\ pc' = [pc EXCEPT ![w] = IF commenting THEN "comment" ELSE "write"]
        /\ rec.count = IF commenting THEN Num(rows[u].count, 0) + 1 ELSE Num(rows[u].count, 0)
    BY <2>1 DEF Decided, Decide
  <2>4. Num(rows[u].count, 0) = StoredCount(u)
    BY <2>2 DEF Rows, StoredCount
  <2>5. /\ doc'[w] = rec /\ uid'[w] = u
        /\ pc'[w] = IF commenting THEN "comment" ELSE "write"
    BY <1>1, <2>3 DEF Typed, TypeOK
  <2>6. rec.count \in Nat /\ rec.count <= Due(u)' + (IF commenting THEN 1 ELSE 0)
    BY <1>1, <2>3, <2>4
  <2>7. Carried(w)'
    BY <2>5, <2>6, AbsentIsNothing DEF Carried
  <2>8. ASSUME NEW v \in Workers, v # w PROVE Carried(v)'
    BY <1>1, <2>3, <2>8, CarriedKept DEF Typed, TypeOK
  <2>. QED
    BY <2>7, <2>8
<1>5. ASSUME NEW w \in Workers, WriteAutoComment(w)
      PROVE  \A v \in Workers : Carried(v)'
  <2>1. PICK u \in Uids : u = uid[w]
    BY <1>1, <1>5 DEF WriteAutoComment, Typed, TypeOK, WorkerShape, Opt
  <2>2. /\ pc[w] = "comment" /\ pc' = [pc EXCEPT ![w] = AfterAggregate(w)]
        /\ UNCHANGED <<doc, uid, upc, posted, cleaned>>
    BY <1>5 DEF WriteAutoComment, userVars
  <2>3. Waiting(u)' = Waiting(u)
    BY <2>2 DEF Waiting
  <2>4. \/ comments' = [comments EXCEPT ![u] = @ + 1] /\ UNCHANGED missing
        \/ missing' = [missing EXCEPT ![u] = @ + 1] /\ UNCHANGED comments
    BY <1>5, <2>1 DEF WriteAutoComment
  <2>5. Made(u)' = Made(u) + 1
    BY <1>1, <2>2, <2>4 DEF Made, Typed, TypeOK
  <2>6. Due(u)' = Due(u) + 1
    BY <1>1, <2>3, <2>5, DueType DEF Due
  <2>7. u # Absent
    BY AbsentIsNothing
  <2>8. doc[w].count \in Nat /\ doc[w].count <= Due(u) + 1
    BY <1>1, <2>1, <2>2, <2>7 DEF Carried
  <2>9. Carried(w)'
    <3>1. uid'[w] = u /\ doc'[w] = doc[w] /\ pc'[w] # "comment"
      BY <1>1, <2>1, <2>2 DEF Typed, TypeOK, AfterAggregate
    <3>2. doc[w].count <= Due(u)'
      BY <2>6, <2>8
    <3>. QED
      BY <1>1, <2>7, <2>8, <3>1, <3>2 DEF Carried
  <2>10. ASSUME NEW v \in Workers, v # w PROVE Carried(v)'
    BY <1>1, <2>2, <2>10, CarriedKept DEF Typed, TypeOK
  <2>. QED
    BY <2>9, <2>10
<1>6. ASSUME NEW w \in Workers,
             ClearStaleSnoozed(w) \/ SnoozeMisses(w) \/ SnoozeMatches(w) \/ Notify(w)
      PROVE  \A v \in Workers : Carried(v)'
  <2>1. /\ pc[w] # "comment" /\ UNCHANGED uid
        /\ \A v \in Workers : v # w => pc'[v] = pc[v] /\ doc'[v] = doc[v]
    BY <1>1, <1>6 DEF ClearStaleSnoozed, SnoozeMisses, SnoozeMatches, Notify, Typed, TypeOK
  <2>2. doc[w] \in Documents
    BY <1>1 DEF Typed, TypeOK
  <2>3. doc'[w] = doc[w] \/ doc'[w] = [doc[w] EXCEPT !.snoozed = TRUE]
    BY <1>1, <1>6 DEF ClearStaleSnoozed, SnoozeMisses, SnoozeMatches, Notify, Typed, TypeOK
  <2>4. doc'[w].count = doc[w].count
    BY <2>2, <2>3 DEF Documents
  <2>. QED
    BY <2>1, <2>4, CarriedKept
<1>7. ASSUME NEW w \in Workers, Return(w)
      PROVE  \A v \in Workers : Carried(v)'
  <2>1. Carried(w)'
    BY <1>1, <1>7, EmptyDoc DEF Return, Carried, Typed, TypeOK
  <2>2. ASSUME NEW v \in Workers, v # w PROVE Carried(v)'
    BY <1>1, <1>7, <2>2, CarriedKept DEF Return, Typed, TypeOK
  <2>. QED
    BY <2>1, <2>2
<1>8. ASSUME UNCHANGED workerVars PROVE \A v \in Workers : Carried(v)'
  BY <1>8, CarriedKept DEF workerVars
<1>9. ASSUME NEW w \in Workers, SnoozeDiscards(w) \/ WriteRecord(w) \/ WriteFails(w)
      PROVE  \A v \in Workers : Carried(v)'
  BY <1>7, <1>9 DEF SnoozeDiscards, WriteRecord, WriteFails
<1>10. ASSUME \/ \E h \in Hashes : InjectResponse(h) \/ FlushIncrement(h)
              \/ \E p \in Users : \/ \E u \in Uids, t \in CommentTypes : PostComment(p, u, t)
                                  \/ ReadRecord(p) \/ PatchRecord(p) \/ AfterCreateFails(p)
              \/ \E u \in Uids : Shelve(u)
              \/ \E f \in Opt([sev : Sevs, discard : BOOLEAN]) : EditFilter(f)
              \/ CleanupAlerts \/ CleanupComments \/ Tick \/ UNCHANGED vars
       PROVE  \A v \in Workers : Carried(v)'
  BY <1>8, <1>10 DEF InjectResponse, FlushIncrement, PostComment, ReadRecord, PatchRecord,
     AfterCreateFails, Shelve, EditFilter, CleanupAlerts, CleanupComments, Tick, vars
<1>. QED
  BY <1>2, <1>3, <1>4, <1>5, <1>6, <1>9, <1>10 DEF Next, Step, Lookup, Branch

(* The count a user read, with its own comment added, stays covered.       *)
LEMMA ReadStep == CountInv /\ [Next]_vars => ReadCovered'
<1> SUFFICES ASSUME CountInv, [Next]_vars PROVE ReadCovered'
  OBVIOUS
<1>1. /\ Typed /\ WaitingFinite
      /\ \A u \in Uids : Due(u) \in Int /\ Due(u)' \in Int /\ Due(u)' >= Due(u)
      /\ \A u \in Uids : StoredCount(u) \in Nat /\ StoredCount(u) <= Due(u)
      /\ \A p \in Users : seenCount[p] \in Nat
      /\ \A p \in Users : upc[p] # "idle" => posted[p].record \in Uids
  BY DueGrows, DueType DEF CountInv, Typed, TypeOK, StoredCovered, UserShape, used
<1>2. ASSUME NEW p \in Users, upc[p] = "patch", upc'[p] = "patch",
             posted'[p] = posted[p], seenCount'[p] = seenCount[p]
      PROVE  seenCount'[p] + 1 <= Due(posted[p].record)'
  <2>1. PICK u \in Uids : u = posted[p].record
    BY <1>1, <1>2
  <2>2. seenCount[p] + 1 <= Due(u)'
    BY <1>1, <1>2, <2>1 DEF CountInv, ReadCovered
  <2>3. Due(u)' = Due(posted[p].record)'
    BY <1>2, <2>1
  <2>. QED
    BY <1>2, <2>2, <2>3
<1>3. ASSUME \A p \in Users : upc'[p] = "patch" =>
                /\ upc[p] = "patch" /\ posted'[p] = posted[p] /\ seenCount'[p] = seenCount[p]
      PROVE  ReadCovered'
  BY <1>2, <1>3 DEF ReadCovered
<1>4. ASSUME NEW p \in Users, ReadRecord(p) PROVE ReadCovered'
  <2>1. PICK u \in Uids : u = posted[p].record
    BY <1>1, <1>4 DEF ReadRecord
  <2>2. UNCHANGED <<posted, comments, missing, cleaned>> /\ upc[p] = "read"
    BY <1>4 DEF ReadRecord, history
  <2>3. CASE /\ u \in Rows
             /\ seenCount' = [seenCount EXCEPT ![p] = Num(rows[u].count, 0)]
             /\ upc' = [upc EXCEPT ![p] = "patch"]
    <3>1. Due(u)' = Due(u) + 1
      BY <1>1, <2>1, <2>2, <2>3, DueFreed
    <3>2. seenCount'[p] = StoredCount(u)
      BY <2>3 DEF StoredCount, Rows, CountInv, Typed, TypeOK
    <3>3. seenCount'[p] + 1 <= Due(u)'
      BY <1>1, <3>1, <3>2
    <3>4. Due(u)' = Due(posted[p].record)'
      BY <2>1, <2>2
    <3>5. ASSUME NEW q \in Users, q # p, upc'[q] = "patch"
          PROVE  upc[q] = "patch" /\ posted'[q] = posted[q] /\ seenCount'[q] = seenCount[q]
      BY <2>2, <2>3, <3>5 DEF CountInv, Typed, TypeOK
    <3>. QED
      BY <1>2, <3>3, <3>4, <3>5 DEF ReadCovered
  <2>4. CASE upc' = [upc EXCEPT ![p] = "idle"] /\ UNCHANGED seenCount
    BY <1>3, <2>2, <2>4 DEF CountInv, Typed, TypeOK
  <2>. QED
    BY <1>4, <2>1, <2>3, <2>4 DEF ReadRecord
<1>5. ASSUME NEW p \in Users,
             \/ \E u \in Uids, t \in CommentTypes : PostComment(p, u, t)
             \/ PatchRecord(p) \/ AfterCreateFails(p)
      PROVE  ReadCovered'
  BY <1>3, <1>5 DEF PostComment, PatchRecord, AfterCreateFails, CountInv, Typed, TypeOK
<1>6. ASSUME UNCHANGED userVars PROVE ReadCovered'
  BY <1>3, <1>6 DEF userVars
<1>7. ASSUME NEW w \in Workers,
             \/ \E h \in Hashes, s \in Sevs, st \in {Absent, "close"} : Receive(w, h, s, st)
             \/ Step(w) \/ LookupFails(w) \/ WriteFails(w)
      PROVE  ReadCovered'
  BY <1>6, <1>7 DEF Receive, Step, Lookup, FirstOccurrence, AutoClose, AlreadyClosed,
     WatchChanged, Reopen, Throttled, Escalate, LookupFrame, WriteAutoComment, ClearStaleSnoozed,
     SnoozeMisses, SnoozeMatches, SnoozeDiscards, Notify, WriteRecord, LookupFails, WriteFails
<1>8. ASSUME \/ \E h \in Hashes : InjectResponse(h) \/ FlushIncrement(h)
             \/ \E u \in Uids : Shelve(u)
             \/ \E f \in Opt([sev : Sevs, discard : BOOLEAN]) : EditFilter(f)
             \/ CleanupAlerts \/ CleanupComments \/ Tick \/ UNCHANGED vars
      PROVE  ReadCovered'
  BY <1>6, <1>8 DEF InjectResponse, FlushIncrement, Shelve, EditFilter, CleanupAlerts,
     CleanupComments, Tick, vars
<1>. QED
  BY <1>4, <1>5, <1>7, <1>8 DEF Next

(* At boot no comment is made and none is counted.                         *)
LEMMA CountInit == Init => CountInv
<1> SUFFICES ASSUME Init PROVE CountInv
  OBVIOUS
<1>1. Typed
  BY TypedInit
<1>2. \A u \in Uids : Waiting(u) = {}
  BY DEF Init, Waiting
<1>3. WaitingFinite /\ \A u \in Uids : Cardinality(Waiting(u)) = 0
  BY <1>2, FS_EmptySet DEF WaitingFinite
<1>4. \A u \in Uids : Due(u) = 0
  BY <1>3 DEF Init, Due, Made
<1>5. StoredCovered
  BY <1>4 DEF Init, StoreInit, StoredCovered, StoredCount
<1>6. CarriedCovered
  BY EmptyDoc DEF Init, CarriedCovered, Carried
<1>7. ReadCovered
  BY DEF Init, ReadCovered
<1>. QED
  BY <1>1, <1>3, <1>5, <1>6, <1>7 DEF CountInv

(* A record never counts a comment nobody made: comment_count is covered   *)
(* by the timeline, the comments whose write failed and the cleaned ones,  *)
(* for any number of workers and users racing on the same record, with     *)
(* records and comments deleted under them and any call failing.           *)
THEOREM CountCovered == Spec => []CommentCountCovered
<1>1. CountInv /\ [Next]_vars => CountInv'
  <2> SUFFICES ASSUME CountInv, [Next]_vars PROVE CountInv'
    OBVIOUS
  <2>1. Typed' /\ WaitingFinite'
    BY TypedNext, DueGrows DEF CountInv
  <2>. QED
    BY <2>1, StoredStep, CarriedStep, ReadStep DEF CountInv
<1>2. CountInv => CommentCountCovered
  <2> SUFFICES ASSUME CountInv, NEW u \in Rows
               PROVE  Num(rows[u].count, 0) <= comments[u] + missing[u] + cleaned[u]
    BY DEF CommentCountCovered
  <2>1. u \in Uids
    BY DEF Rows
  <2>2. StoredCount(u) = Num(rows[u].count, 0)
    BY DEF Rows, StoredCount
  <2>. QED
    BY <2>1, <2>2, DueType DEF CountInv, StoredCovered, Due, Made
<1>. QED
  BY <1>1, <1>2, CountInit, PTL DEF Spec

-----------------------------------------------------------------------------
(* The write.                                                              *)

(* The write of a worker leaves a row with the alert's hash, unless it was *)
(* a write by uid to a row that is gone.                                   *)
LEMMA WriteLeavesRow ==
  ASSUME Typed, NEW w \in Workers, NEW h \in Hashes, WriteRecord(w), doc[w].hash = h,
         uid[w] = Absent \/ uid[w] \in Rows
  PROVE  WithHash(h)' # {}
<1> DEFINE b == action[w] # "AbortUpdate"
           d == Stamped(doc[w], b, now)
<1>1. Write(uid[w], doc[w], b, now)
  BY DEF WriteRecord
<1>2. uid[w] \in Opt(Uids) /\ doc[w] \in Documents /\ now \in Nat /\ StoreTypeOK
  BY DEF Typed, TypeOK
<1>3. b \in BOOLEAN
  OBVIOUS
<1> HIDE DEF b
<1>4. d \in Documents /\ d.hash = doc[w].hash
  BY <1>2, <1>3, StampedDoc
<1>5. ASSUME NEW u \in Uids, NEW a \in Documents, rows'[u] = Merge(a, d)
      PROVE  u \in WithHash(h)'
  <2>1. rows'[u] \in Documents /\ rows'[u].hash = h
    BY <1>4, <1>5, MergeDoc, AbsentIsNothing
  <2>. QED
    BY <2>1, AbsentIsNothing DEF WithHash, Rows
<1>6. \E u \in Uids : u \in WithHash(h)'
  <2>1. \/ uid[w] \in Rows /\ rows'[uid[w]] = Merge(rows[uid[w]], d)
        \/ Insert(d)
    BY <1>1, <1>2, <1>3, WriteEffect
  <2>2. CASE uid[w] \in Rows /\ rows'[uid[w]] = Merge(rows[uid[w]], d)
    BY <1>2, <1>5, <2>2, RowDoc
  <2>3. CASE Insert(d)
    BY <1>2, <1>4, <1>5, <2>3, InsertEffect, EmptyDoc
  <2>. QED
    BY <2>1, <2>2, <2>3
<1>. QED
  BY <1>6

(* Only writeRecord counts a hit, and it leaves a row with the hash.       *)
LEMMA HitLeavesRow ==
  ASSUME Typed, [Next]_vars, NEW h \in Hashes, hits'[h] # hits[h]
  PROVE  \/ WithHash(h)' # {}
         \/ \E w \in Workers : /\ pc[w] = "write" /\ doc[w].hash = h
                               /\ uid[w] # Absent /\ uid[w] \notin Rows
<1>1. PICK w \in Workers : WriteRecord(w)
  <2>1. hits' # hits
    OBVIOUS
  <2>2. ASSUME NEW w \in Workers,
               \/ \E g \in Hashes, s \in Sevs, st \in {Absent, "close"} : Receive(w, g, s, st)
               \/ Step(w) \/ LookupFails(w) \/ WriteFails(w)
        PROVE  WriteRecord(w)
    BY <2>1, <2>2 DEF Receive, Step, Lookup, FirstOccurrence, AutoClose, AlreadyClosed,
       WatchChanged, Reopen, Throttled, Escalate, LookupFrame, WriteAutoComment,
       ClearStaleSnoozed, SnoozeMisses, SnoozeMatches, SnoozeDiscards, Notify, LookupFails,
       WriteFails, history
  <2>3. ASSUME \/ \E g \in Hashes : InjectResponse(g) \/ FlushIncrement(g)
               \/ \E p \in Users : \/ \E u \in Uids, t \in CommentTypes : PostComment(p, u, t)
                                   \/ ReadRecord(p) \/ PatchRecord(p) \/ AfterCreateFails(p)
               \/ \E u \in Uids : Shelve(u)
               \/ \E f \in Opt([sev : Sevs, discard : BOOLEAN]) : EditFilter(f)
               \/ CleanupAlerts \/ CleanupComments \/ Tick \/ UNCHANGED vars
        PROVE  FALSE
    BY <2>1, <2>3 DEF InjectResponse, FlushIncrement, PostComment, ReadRecord, PatchRecord,
       AfterCreateFails, Shelve, EditFilter, CleanupAlerts, CleanupComments, Tick, vars, history
  <2>. QED
    BY <2>2, <2>3 DEF Next
<1>2. pc[w] = "write" /\ doc[w].hash = h
  BY <1>1 DEF WriteRecord, Typed, TypeOK
<1>. QED
  BY <1>1, <1>2, WriteLeavesRow

(* An alert that reached its write is in the collection, for any number of *)
(* workers, unless the row it was to update was deleted after the lookup.  *)
THEOREM WrittenIsStored == Spec => WriteStores
<1> DEFINE Stores ==
      \A h \in Hashes :
        hits'[h] # hits[h] =>
          \/ WithHash(h)' # {}
          \/ \E w \in Workers : /\ pc[w] = "write" /\ doc[w].hash = h
                                /\ uid[w] # Absent /\ uid[w] \notin Rows
<1>1. Typed /\ [Next]_vars => [Stores]_vars
  BY HitLeavesRow
<1> HIDE DEF Stores
<1>2. Spec => [][Stores]_vars
  BY <1>1, TypedInit, TypedNext, PTL DEF Spec
<1>. QED
  BY <1>2 DEF WriteStores, Stores

-----------------------------------------------------------------------------
(***************************************************************************)
(* What the alert pipeline promises when alerts are processed one at a     *)
(* time: one aggregate row per hash, a current snooze attribution, the     *)
(* throttle period and the flapping cap.  With two workers the lookup and  *)
(* the write of one may straddle those of the other and none of the four   *)
(* holds, so the theorems have the hypothesis OneWorker, and the three     *)
(* that need a row to outlive the worker that found it, ~Cleaning.         *)
(***************************************************************************)

OneWorker == \A v, w \in Workers : v = w

-----------------------------------------------------------------------------
(* Invariants.                                                             *)

\* Past the lookup, before the notifier or the write.
Inside == {"comment", "unset", "snooze", "notify"}

\* A verdict other than Continue goes straight to the write.
VerdictShape ==
  \A w \in Workers :
    /\ pc[w] \in {"unset", "snooze", "notify"} => action[w] = "Continue"
    /\ pc[w] = "comment" => action[w] \in {"Continue", "AbortUpdate"}
    /\ action[w] = "AbortUpdate" => uid[w] # Absent
    /\ pc[w] \in {"comment", "unset"} => uid[w] # Absent

\* Rows: one per hash, and a worker's view of them is current.
UniqueRows ==
  \A u, v \in Rows : rows[u].hash # Absent /\ rows[u].hash = rows[v].hash => u = v

QueuedHasRow == \A h \in Hashes : queued[h] > 0 => WithHash(h) # {}

FoundIsThere ==
  \A w \in Workers :
    uid[w] # Absent => uid[w] \in Rows /\ rows[uid[w]].hash = doc[w].hash

MissedIsMissing ==
  \A w \in Workers :
    /\ uid[w] = Absent /\ pc[w] \in {"snooze", "notify", "write"} /\ doc[w].hash # Absent
    => WithHash(doc[w].hash) = {}

PostedIsThere == \A p \in Users : upc[p] # "idle" => posted[p].record \in Rows

RowInv ==
  Typed /\ VerdictShape /\ UniqueRows /\ QueuedHasRow /\ FoundIsThere /\ MissedIsMissing
        /\ PostedIsThere

\* The snooze attribution: of the rows, and of the row a worker is to write.
AttributionCurrent == \A u \in Rows : rows[u].snoozed # Absent => matched[u]

Unattributed(w) ==
  /\ doc[w].snoozed # Absent => pc[w] = "write" /\ action[w] = "AbortWrite"
  /\ uid[w] \in Rows =>
       /\ pc[w] \in {"snooze", "notify"} \/ (pc[w] = "write" /\ action[w] # "AbortUpdate")
            => rows[uid[w]].snoozed = Absent
       /\ pc[w] = "comment" /\ rows[uid[w]].snoozed # Absent => hadSnoozed[w]

SnoozeInv == faults = 0 => AttributionCurrent /\ \A w \in Workers : Unattributed(w)

\* The flapping countdown: what is left of it covers the notifications sent,
\* on the row or, from the notification to the write, on the worker.
RowCountdown ==
  \A u \in Rows :
    \/ flaps[u] + Num(rows[u].flap, Flapping) <= Flapping
    \/ \E w \in Workers : uid[w] = u /\ pc[w] = "write" /\ doc[w].flap # Absent

WorkerCountdown(w) ==
  /\ cause[w] \in {"watch", "reopen"} <=> doc[w].flap # Absent
  /\ doc[w].flap # Absent /\ pc[w] \in Inside =>
       /\ flaps[uid[w]] + doc[w].flap + 1 <= Flapping
       /\ action[w] = "Continue" => doc[w].flap > 0
  /\ doc[w].flap # Absent /\ pc[w] = "write" => flaps[uid[w]] + doc[w].flap <= Flapping

FlapInv ==
  faults = 0 =>
    /\ \A u \in Uids : flaps[u] <= Flapping
    /\ \A u \in Uids \ used : flaps[u] = 0
    /\ RowCountdown
    /\ \A w \in Workers : WorkerCountdown(w)

\* The throttle period: the row's date is not older than the last
\* notification of its hash, except from the notification to the write.
SentBy(h, t) == lastSent[h] = Absent \/ lastSent[h] <= t

RowDated ==
  \A h \in Hashes : \A u \in WithHash(h) :
    \/ rows[u].date = Absent
    \/ SentBy(h, rows[u].date)
    \/ \E w \in Workers : pc[w] = "write" /\ action[w] = "Continue" /\ doc[w].hash = h

WorkerDated(w) ==
  /\ action[w] = "AbortUpdate" => doc[w].date \in Int /\ SentBy(doc[w].hash, doc[w].date)
  /\ cause[w] = "escalate" /\ pc[w] \in Inside =>
       \/ lastSent[doc[w].hash] = Absent
       \/ /\ ThrottleOf(doc[w]) >= 0
          /\ now - lastSent[doc[w].hash] >= ThrottleOf(doc[w])

ThrottleInv ==
  faults = 0 =>
    /\ \A h \in Hashes : SentBy(h, now)
    /\ RowDated
    /\ \A w \in Workers : WorkerDated(w)

-----------------------------------------------------------------------------
(* What a step does to the rows.                                           *)

\* The steps of the workers, and of everybody else.
WorkerSteps(w) ==
  \/ \E h \in Hashes, s \in Sevs, st \in {Absent, "close"} : Receive(w, h, s, st)
  \/ FirstOccurrence(w) \/ (\E u \in Uids : Branch(w, u)) \/ LookupFails(w)
  \/ WriteAutoComment(w) \/ ClearStaleSnoozed(w)
  \/ SnoozeMisses(w) \/ SnoozeMatches(w) \/ SnoozeDiscards(w)
  \/ Notify(w) \/ WriteFails(w) \/ WriteRecord(w)

OtherSteps ==
  \/ \E h \in Hashes : InjectResponse(h) \/ FlushIncrement(h)
  \/ \E p \in Users : \/ \E u \in Uids, t \in CommentTypes : PostComment(p, u, t)
                      \/ ReadRecord(p) \/ PatchRecord(p) \/ AfterCreateFails(p)
  \/ \E u \in Uids : Shelve(u)
  \/ \E f \in Opt([sev : Sevs, discard : BOOLEAN]) : EditFilter(f)
  \/ CleanupAlerts \/ CleanupComments \/ Tick \/ UNCHANGED vars

(* Every step is one of the two.                                           *)
LEMMA StepKinds == [Next]_vars => OtherSteps \/ \E w \in Workers : WorkerSteps(w)
<1> SUFFICES ASSUME [Next]_vars PROVE OtherSteps \/ \E w \in Workers : WorkerSteps(w)
  OBVIOUS
<1>1. ASSUME NEW w \in Workers,
             \/ \E h \in Hashes, s \in Sevs, st \in {Absent, "close"} : Receive(w, h, s, st)
             \/ Step(w) \/ LookupFails(w) \/ WriteFails(w)
      PROVE  WorkerSteps(w)
  BY <1>1 DEF Step, Lookup, Branch, WorkerSteps
<1>. QED
  BY <1>1 DEF Next, OtherSteps

(* Everybody but the workers leaves the workers alone, and no step undoes  *)
(* a fault or turns the clock back.                                        *)
LEMMA OthersSpareWorkers == OtherSteps => UNCHANGED workerVars
BY DEF OtherSteps, InjectResponse, FlushIncrement, PostComment, ReadRecord, PatchRecord,
   AfterCreateFails, Shelve, EditFilter, CleanupAlerts, CleanupComments, Tick, vars

(* The four fields of a document the pipeline's promises are about.        *)
Kept(v) ==
  /\ rows'[v].hash = rows[v].hash /\ rows'[v].flap = rows[v].flap
  /\ rows'[v].snoozed \in {rows[v].snoozed, Absent}
  /\ rows'[v].date \in {rows[v].date, now}

(* A patch that has neither hash nor countdown nor snooze attribution      *)
(* keeps those of the row.                                                 *)
LEMMA PatchKeeps ==
  ASSUME Typed, NEW u \in Uids, NEW d \in Documents, UpdateOne(u, d, TRUE, now),
         d.hash = Absent, d.flap = Absent, d.snoozed = Absent
  PROVE  /\ Rows' = Rows \cup {u}
         /\ \A v \in Rows : Kept(v)
         /\ u \notin Rows => rows'[u].hash = Absent /\ rows'[u].snoozed = Absent
<1> DEFINE a == IF u \in Rows THEN rows[u] ELSE Empty
           b == Stamped(d, TRUE, now)
<1>1. now \in Nat /\ StoreTypeOK
  BY DEF Typed, TypeOK
<1>2. a \in Documents
  BY <1>1, RowDoc, EmptyDoc
<1>3. /\ b \in Documents /\ b.hash = Absent /\ b.flap = Absent /\ b.snoozed = Absent
      /\ b.date = now
  BY <1>1, StampedDoc
<1>4. /\ rows'[u] = Merge(a, b) /\ rows'[u] \in Documents
      /\ \A v \in Uids : v # u => rows'[v] = rows[v]
  BY <1>1, UpdateEffect
<1>5. /\ Merge(a, b).hash = a.hash /\ Merge(a, b).flap = a.flap
      /\ Merge(a, b).snoozed = a.snoozed /\ Merge(a, b).date = now
  <2> HIDE DEF a, b
  <2>. QED
    BY <1>1, <1>2, <1>3, MergeDoc, AbsentIsNothing
<1>6. Rows' = Rows \cup {u}
  BY <1>4, AbsentIsNothing DEF Rows
<1>7. ASSUME NEW v \in Rows PROVE Kept(v)
  <2>1. v \in Uids
    BY DEF Rows
  <2>. QED
    BY <1>4, <1>5, <2>1 DEF Kept
<1>. QED
  BY <1>4, <1>5, <1>6, <1>7, EmptyDoc

(* A comment or a shelving patches the record with such a document.        *)
LEMMA UserPatch ==
  ASSUME Typed
  PROVE  /\ \A p \in Users : PatchRecord(p) =>
              \E d \in Documents : /\ UpdateOne(posted[p].record, d, TRUE, now)
                                   /\ posted[p].record \in Uids
                                   /\ d.hash = Absent /\ d.flap = Absent /\ d.snoozed = Absent
         /\ \A u \in Uids : Shelve(u) =>
              \E d \in Documents : /\ UpdateOne(u, d, TRUE, now) /\ u \in Rows
                                   /\ d.hash = Absent /\ d.flap = Absent /\ d.snoozed = Absent
<1>1. ASSUME NEW p \in Users, PatchRecord(p)
      PROVE  \E d \in Documents : /\ UpdateOne(posted[p].record, d, TRUE, now)
                                  /\ posted[p].record \in Uids
                                  /\ d.hash = Absent /\ d.flap = Absent /\ d.snoozed = Absent
  <2> DEFINE u == posted[p].record
             c == seenCount[p] + 1
             st == IF posted[p].type = "comment" THEN Absent ELSE posted[p].type
             d == [Empty EXCEPT !.count = c, !.state = st]
  <2>1. u \in Uids
    BY <1>1 DEF PatchRecord, Typed, UserShape, used
  <2>2. c \in Opt(Nat)
    BY DEF Typed, TypeOK, Opt
  <2>3. st \in Opt(States)
    BY TypesAssumption DEF Typed, TypeOK, Opt, States
  <2>4. UpdateOne(u, d, TRUE, now)
    BY <1>1 DEF PatchRecord
  <2> HIDE DEF c, st
  <2>5. d \in Documents
    BY <2>2, <2>3, EmptyDoc DEF Documents
  <2>6. d.hash = Absent /\ d.flap = Absent /\ d.snoozed = Absent
    BY EmptyDoc DEF Documents
  <2> HIDE DEF d
  <2>. QED
    BY <2>1, <2>4, <2>5, <2>6
<1>2. ASSUME NEW u \in Uids, Shelve(u)
      PROVE  \E d \in Documents : /\ UpdateOne(u, d, TRUE, now) /\ u \in Rows
                                  /\ d.hash = Absent /\ d.flap = Absent /\ d.snoozed = Absent
  <2> DEFINE c == 0 - rows[u].ttl
             d == [Empty EXCEPT !.ttl = c]
  <2>1. rows[u].ttl \in Int
    BY <1>2, RowDoc, DocFields DEF Shelve, Typed, TypeOK, Opt
  <2>2. c \in Opt(Int)
    BY <2>1 DEF Opt
  <2>3. UpdateOne(u, d, TRUE, now) /\ u \in Rows
    BY <1>2 DEF Shelve
  <2> HIDE DEF c
  <2>4. d \in Documents
    BY <2>2, EmptyDoc DEF Documents
  <2>5. d.hash = Absent /\ d.flap = Absent /\ d.snoozed = Absent
    BY EmptyDoc DEF Documents
  <2> HIDE DEF d
  <2>. QED
    BY <2>3, <2>4, <2>5
<1>. QED
  BY <1>1, <1>2

(* writeRecord on the row the worker found, or on a new row.               *)
LEMMA WriteRows ==
  ASSUME Typed, NEW w \in Workers, WriteRecord(w)
  PROVE  \/ /\ uid[w] \in Rows /\ Rows' = Rows /\ used' = used
            /\ \A v \in Rows : v # uid[w] => rows'[v] = rows[v]
            /\ \A u \in Rows : u = uid[w] =>
                 /\ rows'[u].hash = IF doc[w].hash = Absent THEN rows[u].hash ELSE doc[w].hash
                 /\ rows'[u].flap = IF doc[w].flap = Absent THEN rows[u].flap ELSE doc[w].flap
                 /\ rows'[u].snoozed = IF doc[w].snoozed = Absent THEN rows[u].snoozed
                                       ELSE doc[w].snoozed
                 /\ rows'[u].date = IF action[w] # "AbortUpdate" THEN now
                                    ELSE IF doc[w].date = Absent THEN rows[u].date
                                    ELSE doc[w].date
         \/ /\ uid[w] # Absent /\ uid[w] \notin Rows /\ UNCHANGED storeVars
         \/ /\ uid[w] = Absent
            /\ \E u \in Uids \ used :
                 /\ u \notin Rows /\ Rows' = Rows \cup {u} /\ used' = used \cup {u}
                 /\ \A v \in Rows : rows'[v] = rows[v]
                 /\ rows'[u].hash = doc[w].hash
                 /\ rows'[u].flap = doc[w].flap
                 /\ rows'[u].snoozed = doc[w].snoozed
                 /\ rows'[u].date = IF action[w] # "AbortUpdate" THEN now ELSE doc[w].date
<1> DEFINE b == action[w] # "AbortUpdate"
           d == Stamped(doc[w], b, now)
<1>1. Write(uid[w], doc[w], b, now)
  BY DEF WriteRecord
<1>2. uid[w] \in Opt(Uids) /\ doc[w] \in Documents /\ now \in Nat /\ StoreTypeOK
  BY DEF Typed, TypeOK
<1>3. b \in BOOLEAN /\ (b <=> action[w] # "AbortUpdate")
  OBVIOUS
<1> HIDE DEF b
<1>4. /\ d \in Documents /\ d.hash = doc[w].hash /\ d.flap = doc[w].flap
      /\ d.snoozed = doc[w].snoozed
      /\ d.date = IF action[w] # "AbortUpdate" THEN now ELSE doc[w].date
  BY <1>2, <1>3, StampedDoc
<1> HIDE DEF d
<1>5. \/ /\ uid[w] \in Rows /\ used' = used
         /\ rows'[uid[w]] = Merge(rows[uid[w]], d)
         /\ \A v \in Uids : v # uid[w] => rows'[v] = rows[v]
      \/ /\ uid[w] # Absent /\ uid[w] \notin Rows /\ UNCHANGED storeVars
      \/ /\ uid[w] = Absent /\ Insert(d)
  BY <1>1, <1>2, <1>3, WriteEffect DEF d
<1>6. CASE /\ uid[w] \in Rows /\ used' = used
           /\ rows'[uid[w]] = Merge(rows[uid[w]], d)
           /\ \A v \in Uids : v # uid[w] => rows'[v] = rows[v]
  <2>1. PICK u \in Rows : u = uid[w]
    BY <1>6
  <2>2. u \in Uids /\ rows[u] \in Documents
    BY <1>2, RowDoc
  <2> DEFINE m == Merge(rows[u], d)
  <2>3. /\ m \in Documents
        /\ m.hash = IF doc[w].hash = Absent THEN rows[u].hash ELSE doc[w].hash
        /\ m.flap = IF doc[w].flap = Absent THEN rows[u].flap ELSE doc[w].flap
        /\ m.snoozed = IF doc[w].snoozed = Absent THEN rows[u].snoozed ELSE doc[w].snoozed
        /\ m.date = IF action[w] # "AbortUpdate" THEN now
                    ELSE IF doc[w].date = Absent THEN rows[u].date ELSE doc[w].date
    BY <1>2, <1>4, <2>2, MergeDoc, AbsentIsNothing
  <2>4. rows'[u] = m
    BY <1>6, <2>1
  <2> HIDE DEF m
  <2>5. Rows' = Rows
    BY <1>6, <2>1, <2>2, <2>3, <2>4, AbsentIsNothing DEF Rows
  <2>6. \A v \in Rows : v # uid[w] => rows'[v] = rows[v]
    BY <1>6 DEF Rows
  <2>. QED
    BY <1>6, <2>1, <2>3, <2>4, <2>5, <2>6
<1>7. CASE uid[w] = Absent /\ Insert(d)
  <2>1. PICK u \in Uids \ used :
               /\ rows[u] = Absent
               /\ rows'[u] = Merge(Empty, d)
               /\ \A v \in Uids : v # u => rows'[v] = rows[v]
               /\ used' = used \cup {u}
    BY <1>2, <1>4, <1>7, InsertEffect
  <2> DEFINE m == Merge(Empty, d)
  <2>2. /\ m \in Documents /\ m.hash = d.hash /\ m.flap = d.flap /\ m.snoozed = d.snoozed
        /\ m.date = d.date
    BY <1>4, EmptyDoc, MergeDoc
  <2>3. rows'[u] = m
    BY <2>1
  <2> HIDE DEF m
  <2>4. u \notin Rows /\ Rows' = Rows \cup {u} /\ \A v \in Rows : rows'[v] = rows[v]
    BY <2>1, <2>2, <2>3, AbsentIsNothing DEF Rows
  <2>. QED
    BY <1>4, <1>7, <2>1, <2>2, <2>3, <2>4
<1>. QED
  BY <1>5, <1>6, <1>7

(* Which steps touch the rows at all.                                      *)
LEMMA RowSteps ==
  ASSUME [Next]_vars
  PROVE  \/ UNCHANGED storeVars
         \/ \E w \in Workers : WriteRecord(w) \/ (ClearStaleSnoozed(w) /\ UnsetSnoozed(uid[w]))
         \/ \E h \in Hashes : InjectResponse(h) \/ FlushIncrement(h)
         \/ \E p \in Users : PatchRecord(p)
         \/ \E u \in Uids : Shelve(u)
         \/ CleanupAlerts
<1>1. ASSUME NEW w \in Workers, WorkerSteps(w)
      PROVE  \/ UNCHANGED storeVars \/ WriteRecord(w)
             \/ ClearStaleSnoozed(w) /\ UnsetSnoozed(uid[w])
  BY <1>1 DEF WorkerSteps, Receive, FirstOccurrence, Branch, AutoClose, AlreadyClosed,
     WatchChanged, Reopen, Throttled, Escalate, LookupFrame, LookupFails, WriteAutoComment,
     ClearStaleSnoozed, SnoozeMisses, SnoozeMatches, SnoozeDiscards, Notify, WriteFails
<1>2. ASSUME OtherSteps
      PROVE  \/ UNCHANGED storeVars
             \/ \E h \in Hashes : InjectResponse(h) \/ FlushIncrement(h)
             \/ \E p \in Users : PatchRecord(p)
             \/ \E u \in Uids : Shelve(u)
             \/ CleanupAlerts
  BY <1>2 DEF OtherSteps, PostComment, ReadRecord, AfterCreateFails, EditFilter, CleanupComments,
     Tick, vars
<1>. QED
  BY <1>1, <1>2, StepKinds

(* Without the housekeeper and apart from writeRecord, every step keeps    *)
(* the rows with their hash and countdown.                                 *)
LEMMA RowsKept ==
  ASSUME RowInv, ~Cleaning, [Next]_vars, \A w \in Workers : ~WriteRecord(w)
  PROVE  Rows' = Rows /\ used' = used /\ \A v \in Rows : Kept(v)
<1>1. Typed /\ StoreTypeOK
  BY DEF RowInv, Typed, TypeOK
<1>2. CASE UNCHANGED storeVars
  BY <1>2 DEF storeVars, Rows, used, Kept
<1>3. ASSUME NEW w \in Workers, ClearStaleSnoozed(w), UnsetSnoozed(uid[w])
      PROVE  Rows' = Rows /\ used' = used /\ \A v \in Rows : Kept(v)
  <2>1. uid[w] \in Uids
    BY <1>1, <1>3 DEF ClearStaleSnoozed, Typed, TypeOK, WorkerShape, Opt
  <2>. QED
    BY <1>1, <1>3, <2>1, UnsetEffect DEF Kept
<1>4. ASSUME NEW h \in Hashes, InjectResponse(h)
      PROVE  Rows' = Rows /\ used' = used /\ \A v \in Rows : Kept(v)
  BY <1>1, <1>4, ResponseEffect DEF InjectResponse, Kept
<1>5. ASSUME NEW h \in Hashes, FlushIncrement(h)
      PROVE  Rows' = Rows /\ used' = used /\ \A v \in Rows : Kept(v)
  <2>1. IncrementDuplicates(h) /\ WithHash(h) # {}
    BY <1>5 DEF FlushIncrement, RowInv, QueuedHasRow
  <2>. QED
    BY <1>1, <2>1, IncrementEffect DEF Kept
<1>6. ASSUME NEW u \in Rows, NEW d \in Documents, UpdateOne(u, d, TRUE, now),
             d.hash = Absent, d.flap = Absent, d.snoozed = Absent
      PROVE  Rows' = Rows /\ used' = used /\ \A v \in Rows : Kept(v)
  <2>1. u \in Uids /\ u \in used /\ now \in Nat
    BY <1>1, RowDoc DEF Typed, TypeOK
  <2>2. used' = used \cup {u}
    BY <1>1, <1>6, <2>1, UpdateEffect
  <2>3. Rows' = Rows \cup {u} /\ \A v \in Rows : Kept(v)
    BY <1>1, <1>6, <2>1, PatchKeeps
  <2>. QED
    BY <2>1, <2>2, <2>3
<1>7. ASSUME NEW p \in Users, PatchRecord(p)
      PROVE  Rows' = Rows /\ used' = used /\ \A v \in Rows : Kept(v)
  <2>1. posted[p].record \in Rows
    BY <1>7 DEF PatchRecord, RowInv, PostedIsThere
  <2>. QED
    BY <1>1, <1>6, <1>7, <2>1, UserPatch
<1>8. ASSUME NEW u \in Uids, Shelve(u)
      PROVE  Rows' = Rows /\ used' = used /\ \A v \in Rows : Kept(v)
  BY <1>1, <1>6, <1>8, UserPatch
<1>. QED
  BY <1>2, <1>3, <1>4, <1>5, <1>7, <1>8, RowSteps DEF CleanupAlerts

(* No step but writeRecord attributes a row to a snooze filter, whatever   *)
(* rows the housekeeper deletes and late comments bring back.              *)
LEMMA SnoozedKept ==
  ASSUME Typed, [Next]_vars, \A w \in Workers : ~WriteRecord(w)
  PROVE  \A v \in Rows' : \/ rows'[v].snoozed = Absent
                          \/ v \in Rows /\ rows'[v].snoozed = rows[v].snoozed
<1>1. StoreTypeOK
  BY DEF Typed, TypeOK
<1> DEFINE Goal == \A v \in Rows' : \/ rows'[v].snoozed = Absent
                                    \/ v \in Rows /\ rows'[v].snoozed = rows[v].snoozed
<1>2. CASE UNCHANGED storeVars
  BY <1>2 DEF storeVars, Rows
<1>3. ASSUME NEW w \in Workers, ClearStaleSnoozed(w), UnsetSnoozed(uid[w]) PROVE Goal
  <2>1. uid[w] \in Uids
    BY <1>1, <1>3 DEF ClearStaleSnoozed, Typed, TypeOK, WorkerShape, Opt
  <2>. QED
    BY <1>1, <1>3, <2>1, UnsetEffect
<1>4. ASSUME NEW h \in Hashes, InjectResponse(h) PROVE Goal
  BY <1>1, <1>4, ResponseEffect DEF InjectResponse
<1>5. ASSUME NEW h \in Hashes, FlushIncrement(h) PROVE Goal
  <2>1. IncrementDuplicates(h)
    BY <1>5 DEF FlushIncrement
  <2>2. CASE Insert([Empty EXCEPT !.hash = h, !.dup = 1])
    <3> DEFINE d == [Empty EXCEPT !.hash = h, !.dup = 1]
    <3>1. h \in Opt(Hashes) /\ 1 \in Opt(Nat)
      BY DEF Opt
    <3>2. d \in Documents
      BY <3>1, EmptyDoc DEF Documents
    <3>3. d.snoozed = Absent
      BY EmptyDoc DEF Documents
    <3>4. Insert(d)
      BY <2>2
    <3> HIDE DEF d
    <3>5. PICK u \in Uids \ used :
                 /\ rows'[u] = Merge(Empty, d)
                 /\ \A v \in Uids : v # u => rows'[v] = rows[v]
      BY <1>1, <3>2, <3>4, InsertEffect
    <3>6. rows'[u].snoozed = Absent
      BY <3>2, <3>3, <3>5, EmptyDoc, MergeDoc
    <3>. QED
      BY <3>5, <3>6 DEF Rows
  <2>. QED
    BY <1>1, <2>1, <2>2, IncrementEffect
<1>6. ASSUME NEW u \in Uids, NEW d \in Documents, UpdateOne(u, d, TRUE, now),
             d.hash = Absent, d.flap = Absent, d.snoozed = Absent
      PROVE  Goal
  <2>1. /\ Rows' = Rows \cup {u}
        /\ \A v \in Rows : Kept(v)
        /\ u \notin Rows => rows'[u].snoozed = Absent
    BY <1>6, PatchKeeps
  <2>. QED
    BY <2>1 DEF Kept
<1>7. ASSUME NEW p \in Users, PatchRecord(p) PROVE Goal
  <2> HIDE DEF Goal
  <2>. QED
    BY <1>6, <1>7, UserPatch
<1>8. ASSUME NEW u \in Uids, Shelve(u) PROVE Goal
  <2> HIDE DEF Goal
  <2>. QED
    BY <1>6, <1>8, UserPatch
<1>9. CASE CleanupAlerts
  BY <1>1, <1>9, CleanupEffect DEF CleanupAlerts
<1>. QED
  BY <1>2, <1>3, <1>4, <1>5, <1>7, <1>8, <1>9, RowSteps

-----------------------------------------------------------------------------
(* One row per hash.                                                       *)

(* A worker past its comment has not aborted.                              *)
LEMMA VerdictStep == Typed /\ VerdictShape /\ [Next]_vars => VerdictShape'
<1> SUFFICES ASSUME Typed, VerdictShape, [Next]_vars PROVE VerdictShape'
  OBVIOUS
<1>1. ASSUME OtherSteps PROVE VerdictShape'
  BY <1>1, OthersSpareWorkers DEF VerdictShape, workerVars
<1>2. ASSUME NEW w \in Workers, NEW u \in Uids, Branch(w, u) PROVE VerdictShape'
  <2>1. PICK why \in Causes \ {"none", "first"}, rec \in Documents, verdict \in Actions,
             commenting \in BOOLEAN : Decided(w, u, why, rec, verdict, commenting)
    BY <1>2, BranchDecides
  <2>2. /\ uid' = [uid EXCEPT ![w] = u] /\ action' = [action EXCEPT ![w] = verdict]
        /\ pc' = [pc EXCEPT ![w] = IF commenting THEN "comment" ELSE "write"]
        /\ verdict \in {"Continue", "AbortUpdate"}
    BY <2>1 DEF Decided, Decide
  <2>. QED
    BY <2>2, AbsentIsNothing DEF VerdictShape, Typed, TypeOK
<1>3. ASSUME NEW w \in Workers, Return(w) PROVE VerdictShape'
  BY <1>3 DEF VerdictShape, Return, Typed, TypeOK
<1>4. ASSUME NEW w \in Workers,
             \/ \E h \in Hashes, s \in Sevs, st \in {Absent, "close"} : Receive(w, h, s, st)
             \/ FirstOccurrence(w) \/ LookupFails(w)
             \/ ClearStaleSnoozed(w) \/ SnoozeMisses(w) \/ SnoozeMatches(w) \/ Notify(w)
      PROVE  VerdictShape'
  <2>1. pc[w] = "lookup" => action[w] = "Continue"
    BY DEF Typed, WorkerShape
  <2>2. CASE \E h \in Hashes, s \in Sevs, st \in {Absent, "close"} : Receive(w, h, s, st)
    BY <2>2 DEF VerdictShape, Typed, TypeOK, Receive
  <2>3. CASE FirstOccurrence(w) \/ LookupFails(w)
    BY <2>1, <2>3 DEF VerdictShape, Typed, TypeOK, FirstOccurrence, LookupFails
  <2>4. CASE ClearStaleSnoozed(w) \/ SnoozeMisses(w) \/ Notify(w)
    BY <2>4 DEF VerdictShape, Typed, TypeOK, ClearStaleSnoozed, SnoozeMisses, Notify
  <2>5. CASE SnoozeMatches(w)
    BY <2>5 DEF VerdictShape, Typed, TypeOK, SnoozeMatches
  <2>. QED
    BY <1>4, <2>2, <2>3, <2>4, <2>5
<1>5. ASSUME NEW w \in Workers, WriteAutoComment(w) PROVE VerdictShape'
  BY <1>5 DEF VerdictShape, Typed, TypeOK, WriteAutoComment, AfterAggregate
<1>6. ASSUME NEW w \in Workers, SnoozeDiscards(w) \/ WriteFails(w) \/ WriteRecord(w)
      PROVE  VerdictShape'
  BY <1>3, <1>6 DEF SnoozeDiscards, WriteFails, WriteRecord
<1>. QED
  BY <1>1, <1>2, <1>4, <1>5, <1>6, StepKinds DEF WorkerSteps

(* A worker that found no row holds no uid until it returns.               *)
LEMMA SameWithHash ==
  ASSUME Rows' = Rows, \A v \in Rows : rows'[v].hash = rows[v].hash
  PROVE  \A h : WithHash(h)' = WithHash(h)
BY DEF WithHash

(* Without the housekeeper, every step of the one worker, the users and    *)
(* the async writer keeps one row per hash, a row for every queued         *)
(* increment and the worker's view of its row.                             *)
LEMMA RowStep ==
  ASSUME OneWorker, ~Cleaning, RowInv, [Next]_vars
  PROVE  RowInv'
<1>1. Typed /\ Typed' /\ VerdictShape /\ VerdictShape' /\ StoreTypeOK /\ StoreTypeOK'
  BY TypedNext, VerdictStep DEF RowInv, Typed, TypeOK
<1>2. ASSUME Rows' = Rows, \A v \in Rows : rows'[v].hash = rows[v].hash
      PROVE  UniqueRows'
  BY <1>2 DEF RowInv, UniqueRows
<1>3. ASSUME Rows \subseteq Rows' PROVE PostedIsThere'
  <2>1. ASSUME NEW p \in Users, NEW u \in Uids, NEW t \in CommentTypes, PostComment(p, u, t)
        PROVE  PostedIsThere'
    BY <1>1, <1>3, <2>1 DEF PostComment, PostedIsThere, RowInv, Typed, TypeOK
  <2>2. ASSUME NEW p \in Users, ReadRecord(p) \/ PatchRecord(p) \/ AfterCreateFails(p)
        PROVE  PostedIsThere'
    BY <1>1, <1>3, <2>2 DEF ReadRecord, PatchRecord, AfterCreateFails, PostedIsThere, RowInv,
       Typed, TypeOK
  <2>3. ASSUME UNCHANGED userVars PROVE PostedIsThere'
    BY <1>3, <2>3 DEF PostedIsThere, RowInv, userVars
  <2>4. ASSUME NEW w \in Workers, WorkerSteps(w) PROVE UNCHANGED userVars
    BY <2>4 DEF WorkerSteps, Receive, FirstOccurrence, Branch, AutoClose, AlreadyClosed,
       WatchChanged, Reopen, Throttled, Escalate, LookupFrame, LookupFails, WriteAutoComment,
       ClearStaleSnoozed, SnoozeMisses, SnoozeMatches, SnoozeDiscards, Notify, WriteFails,
       WriteRecord
  <2>5. ASSUME OtherSteps PROVE PostedIsThere'
    BY <2>1, <2>2, <2>3, <2>5 DEF OtherSteps, InjectResponse, FlushIncrement, Shelve, EditFilter,
       CleanupAlerts, CleanupComments, Tick, vars
  <2>. QED
    BY <2>3, <2>4, <2>5, StepKinds
<1>4. ASSUME NEW w \in Workers, WriteRecord(w) PROVE RowInv'
  <2>1. /\ pc[w] = "write" /\ UNCHANGED queued
        /\ uid'[w] = Absent /\ pc'[w] = "idle"
    BY <1>1, <1>4 DEF WriteRecord, Return, Typed, TypeOK
  <2>2. \A v \in Workers : v = w
    BY DEF OneWorker
  <2>3. FoundIsThere' /\ MissedIsMissing'
    BY <2>1, <2>2 DEF FoundIsThere, MissedIsMissing
  <2>4. CASE uid[w] # Absent
    <3>1. uid[w] \in Rows /\ rows[uid[w]].hash = doc[w].hash
      BY <2>4 DEF RowInv, FoundIsThere
    <3>2. /\ Rows' = Rows
          /\ \A v \in Rows : rows'[v].hash = rows[v].hash
      BY <1>1, <1>4, <2>4, <3>1, WriteRows
    <3>3. QueuedHasRow'
      BY <2>1, <3>2, SameWithHash DEF QueuedHasRow, RowInv
    <3>. QED
      BY <1>1, <1>2, <1>3, <2>3, <3>2, <3>3 DEF RowInv
  <2>5. CASE uid[w] = Absent
    <3>1. PICK u \in Uids \ used :
                 /\ u \notin Rows /\ Rows' = Rows \cup {u}
                 /\ \A v \in Rows : rows'[v] = rows[v]
                 /\ rows'[u].hash = doc[w].hash
      BY <1>1, <1>4, <2>5, AbsentIsNothing, WriteRows DEF Rows
    <3>2. \A v \in Rows : doc[w].hash # Absent => rows[v].hash # doc[w].hash
      BY <2>1, <2>5 DEF RowInv, MissedIsMissing, WithHash
    <3>3. UniqueRows'
      BY <3>1, <3>2 DEF UniqueRows, RowInv
    <3>4. \A h \in Hashes : WithHash(h) \subseteq WithHash(h)'
      BY <3>1 DEF WithHash
    <3>5. QueuedHasRow'
      BY <2>1, <3>4 DEF QueuedHasRow, RowInv
    <3>. QED
      BY <1>1, <1>3, <2>3, <3>1, <3>3, <3>5 DEF RowInv
  <2>. QED
    BY <2>4, <2>5
<1>5. ASSUME \A w \in Workers : ~WriteRecord(w) PROVE RowInv'
  <2>1. Rows' = Rows /\ \A v \in Rows : rows'[v].hash = rows[v].hash
    BY <1>5, RowsKept DEF Kept
  <2>2. UniqueRows' /\ PostedIsThere'
    BY <1>2, <1>3, <2>1
  <2>3. \A h : WithHash(h)' = WithHash(h)
    BY <2>1, SameWithHash
  <2>4. ASSUME \/ UNCHANGED queued
               \/ \E h \in Hashes : queued' = [queued EXCEPT ![h] = @ - 1] /\ queued[h] > 0
        PROVE  QueuedHasRow'
    BY <1>1, <2>3, <2>4 DEF QueuedHasRow, RowInv, Typed, TypeOK
  <2>5. ASSUME \A w \in Workers : /\ uid'[w] = uid[w] /\ doc'[w].hash = doc[w].hash
                                  /\ pc'[w] \in {"snooze", "notify", "write"} =>
                                       uid[w] # Absent \/ pc[w] \in {"snooze", "notify", "write"}
        PROVE  FoundIsThere' /\ MissedIsMissing'
    BY <2>1, <2>3, <2>5 DEF FoundIsThere, MissedIsMissing, RowInv
  <2>6. CASE OtherSteps
    <3>1. UNCHANGED workerVars
      BY <2>6, OthersSpareWorkers
    <3>2. \/ UNCHANGED queued
          \/ \E h \in Hashes : queued' = [queued EXCEPT ![h] = @ - 1] /\ queued[h] > 0
      BY <2>6 DEF OtherSteps, InjectResponse, FlushIncrement, PostComment, ReadRecord,
         PatchRecord, AfterCreateFails, Shelve, EditFilter, CleanupAlerts, CleanupComments, Tick,
         vars
    <3>. QED
      BY <1>1, <2>2, <2>4, <2>5, <3>1, <3>2 DEF RowInv, workerVars
  <2>7. ASSUME NEW w \in Workers, NEW u \in Uids, Branch(w, u) PROVE RowInv'
    <3>1. PICK why \in Causes \ {"none", "first"}, rec \in Documents, verdict \in Actions,
               commenting \in BOOLEAN : Decided(w, u, why, rec, verdict, commenting)
      BY <1>1, <2>7, BranchDecides
    <3>2. u \in WithHash(doc[w].hash) /\ doc[w].hash \in Hashes
      BY <1>1, <2>7, BranchDecides DEF GetOne, Typed, WorkerShape
    <3>3. /\ queued' \in {queued, [queued EXCEPT ![doc[w].hash] = @ + 1]}
          /\ uid' = [uid EXCEPT ![w] = u] /\ doc' = [doc EXCEPT ![w] = rec]
          /\ rec.hash = doc[w].hash
      BY <3>1 DEF Decided, Decide
    <3>4. \A v \in Workers : v = w
      BY DEF OneWorker
    <3>5. uid'[w] = u /\ doc'[w] = rec /\ u # Absent
      BY <1>1, <3>3, AbsentIsNothing DEF Typed, TypeOK
    <3>6. FoundIsThere' /\ MissedIsMissing'
      BY <2>1, <3>2, <3>3, <3>4, <3>5 DEF FoundIsThere, MissedIsMissing, WithHash
    <3>7. QueuedHasRow'
      BY <1>1, <2>3, <3>2, <3>3 DEF QueuedHasRow, RowInv, Typed, TypeOK
    <3>. QED
      BY <1>1, <2>2, <3>6, <3>7 DEF RowInv
  <2>8. ASSUME NEW w \in Workers, FirstOccurrence(w) PROVE RowInv'
    <3>1. /\ pc[w] = "lookup" /\ WithHash(doc[w].hash) = {} /\ UNCHANGED <<uid, queued>>
          /\ uid[w] = Absent
      BY <1>1, <2>8 DEF FirstOccurrence, Typed, WorkerShape
    <3>2. doc'[w].hash = doc[w].hash
      <4>1. doc[w] \in Documents /\ doc'[w] = [doc[w] EXCEPT !.dup = 1]
        BY <1>1, <2>8 DEF FirstOccurrence, Typed, TypeOK
      <4>. QED
        BY <4>1 DEF Documents
    <3>3. \A v \in Workers : v = w
      BY DEF OneWorker
    <3>4. FoundIsThere' /\ MissedIsMissing'
      BY <2>3, <3>1, <3>2, <3>3 DEF FoundIsThere, MissedIsMissing
    <3>. QED
      BY <1>1, <2>2, <2>4, <3>1, <3>4 DEF RowInv
  <2>9. ASSUME NEW w \in Workers,
               \/ \E h \in Hashes, s \in Sevs, st \in {Absent, "close"} : Receive(w, h, s, st)
               \/ SnoozeDiscards(w) \/ WriteFails(w)
        PROVE  RowInv'
    <3>1. UNCHANGED queued /\ uid'[w] = Absent /\ pc'[w] \in {"idle", "lookup"}
      BY <1>1, <2>9 DEF Receive, SnoozeDiscards, WriteFails, Return, Typed, TypeOK, WorkerShape
    <3>2. \A v \in Workers : v = w
      BY DEF OneWorker
    <3>3. FoundIsThere' /\ MissedIsMissing'
      BY <3>1, <3>2 DEF FoundIsThere, MissedIsMissing
    <3>. QED
      BY <1>1, <2>2, <2>4, <3>1, <3>3 DEF RowInv
  <2>10. ASSUME NEW w \in Workers, LookupFails(w) PROVE RowInv'
    <3>1. UNCHANGED <<queued, uid>> /\ uid[w] = Absent
      BY <1>1, <2>10 DEF LookupFails, Typed, WorkerShape
    <3>2. doc'[w].hash = Absent
      <4>1. doc[w] \in Documents /\ doc'[w] = [doc[w] EXCEPT !.hash = Absent]
        BY <1>1, <2>10 DEF LookupFails, Typed, TypeOK
      <4>. QED
        BY <4>1 DEF Documents
    <3>3. \A v \in Workers : v = w
      BY DEF OneWorker
    <3>4. FoundIsThere' /\ MissedIsMissing'
      BY <3>1, <3>2, <3>3 DEF FoundIsThere, MissedIsMissing
    <3>. QED
      BY <1>1, <2>2, <2>4, <3>1, <3>4 DEF RowInv
  <2>11. ASSUME NEW w \in Workers,
                \/ WriteAutoComment(w) \/ ClearStaleSnoozed(w) \/ SnoozeMisses(w)
                \/ SnoozeMatches(w) \/ Notify(w)
         PROVE  RowInv'
    <3>1. UNCHANGED <<queued, uid>> /\ pc[w] \in Inside
      BY <2>11 DEF WriteAutoComment, ClearStaleSnoozed, SnoozeMisses, SnoozeMatches, Notify, Inside
    <3>2. doc'[w].hash = doc[w].hash
      <4>1. doc[w] \in Documents
            /\ doc'[w] \in {doc[w], [doc[w] EXCEPT !.snoozed = TRUE]}
        BY <1>1, <2>11 DEF WriteAutoComment, ClearStaleSnoozed, SnoozeMisses, SnoozeMatches,
           Notify, Typed, TypeOK
      <4>. QED
        BY <4>1 DEF Documents
    <3>3. pc[w] \in {"comment", "unset"} => uid[w] # Absent
      BY <1>1 DEF VerdictShape
    <3>4. \A v \in Workers : v = w
      BY DEF OneWorker
    <3>5. FoundIsThere' /\ MissedIsMissing'
      BY <2>5, <3>1, <3>2, <3>3, <3>4 DEF Inside
    <3>. QED
      BY <1>1, <2>2, <2>4, <3>1, <3>5 DEF RowInv
  <2>. QED
    BY <1>5, <2>6, <2>7, <2>8, <2>9, <2>10, <2>11, StepKinds DEF WorkerSteps
<1>. QED
  BY <1>4, <1>5

(* At boot the collection is empty.                                        *)
LEMMA RowInit == Init => RowInv
<1> SUFFICES ASSUME Init PROVE RowInv
  OBVIOUS
<1>1. Typed
  BY TypedInit
<1>2. Rows = {}
  BY DEF Init, StoreInit, Rows
<1>3. VerdictShape
  BY DEF Init, VerdictShape
<1>4. UniqueRows
  BY <1>2 DEF UniqueRows
<1>5. QueuedHasRow
  BY DEF Init, QueuedHasRow
<1>6. FoundIsThere /\ MissedIsMissing /\ PostedIsThere
  BY DEF Init, FoundIsThere, MissedIsMissing, PostedIsThere
<1>. QED
  BY <1>1, <1>3, <1>4, <1>5, <1>6 DEF RowInv

(* Duplicates collapse onto a single aggregate row when alerts are         *)
(* processed one at a time and no record expires, whatever the users, the  *)
(* async writer and failing calls do.                                      *)
THEOREM SerialOneRowPerHash ==
  ASSUME OneWorker, ~Cleaning
  PROVE  Spec => []OneRowPerHash
<1>1. Init => RowInv
  BY RowInit
<1>2. RowInv /\ [Next]_vars => RowInv'
  BY RowStep
<1>3. RowInv => OneRowPerHash
  <2> SUFFICES ASSUME RowInv, NEW h \in Hashes PROVE Cardinality(WithHash(h)) <= 1
    BY DEF OneRowPerHash
  <2>1. \A u, v \in WithHash(h) : u = v
    BY AbsentIsNothing DEF RowInv, UniqueRows, WithHash
  <2>2. CASE WithHash(h) = {}
    BY <2>2, FS_EmptySet
  <2>3. CASE WithHash(h) # {}
    <3>1. PICK u : WithHash(h) = {u}
      BY <2>1, <2>3
    <3>2. Cardinality({u}) = 1
      BY FS_Singleton
    <3>. QED
      BY <3>1, <3>2
  <2>. QED
    BY <2>2, <2>3
<1>. QED
  BY <1>1, <1>2, <1>3, PTL DEF Spec

-----------------------------------------------------------------------------
(* The snooze attribution.                                                 *)

(* Faults are only ever added.                                             *)
LEMMA FaultsGrow ==
  ASSUME Typed, [Next]_vars, faults' = 0
  PROVE  faults = 0
<1>1. faults \in Nat
  BY DEF Typed, TypeOK
<1>2. faults' \in {faults, faults + 1}
  <2>1. ASSUME NEW w \in Workers, WorkerSteps(w) PROVE faults' \in {faults, faults + 1}
    BY <2>1 DEF WorkerSteps, Receive, FirstOccurrence, Branch, AutoClose, AlreadyClosed,
       WatchChanged, Reopen, Throttled, Escalate, LookupFrame, LookupFails, WriteAutoComment,
       ClearStaleSnoozed, SnoozeMisses, SnoozeMatches, SnoozeDiscards, Notify, WriteFails,
       WriteRecord, bounded
  <2>2. ASSUME OtherSteps PROVE faults' \in {faults, faults + 1}
    BY <2>2 DEF OtherSteps, InjectResponse, FlushIncrement, PostComment, ReadRecord, PatchRecord,
       AfterCreateFails, Shelve, EditFilter, CleanupAlerts, CleanupComments, Tick, vars, bounded
  <2>. QED
    BY <2>1, <2>2, StepKinds
<1>. QED
  BY <1>1, <1>2

(* The history of a row's attribution is written by writeRecord alone.     *)
LEMMA MatchedKept ==
  ASSUME [Next]_vars, \A w \in Workers : ~WriteRecord(w)
  PROVE  UNCHANGED matched
<1>1. ASSUME NEW w \in Workers, WorkerSteps(w) PROVE UNCHANGED matched
  BY <1>1 DEF WorkerSteps, Receive, FirstOccurrence, Branch, AutoClose, AlreadyClosed,
     WatchChanged, Reopen, Throttled, Escalate, LookupFrame, LookupFails, WriteAutoComment,
     ClearStaleSnoozed, SnoozeMisses, SnoozeMatches, SnoozeDiscards, Notify, WriteFails,
     history
<1>2. ASSUME OtherSteps PROVE UNCHANGED matched
  BY <1>2 DEF OtherSteps, InjectResponse, FlushIncrement, PostComment, ReadRecord, PatchRecord,
     AfterCreateFails, Shelve, EditFilter, CleanupAlerts, CleanupComments, Tick, vars, history
<1>. QED
  BY <1>1, <1>2, StepKinds

(* One worker keeps the attribution current: it clears the stale one       *)
(* before its record meets the filters, and writes the new one.            *)
LEMMA SnoozeStep ==
  ASSUME OneWorker, Typed, VerdictShape, SnoozeInv, [Next]_vars
  PROVE  SnoozeInv'
<1> SUFFICES ASSUME faults' = 0
             PROVE  AttributionCurrent' /\ \A w \in Workers : Unattributed(w)'
  BY DEF SnoozeInv
<1>1. /\ faults = 0 /\ AttributionCurrent /\ \A w \in Workers : Unattributed(w)
      /\ Absent \notin Uids /\ faults # faults + 1
      /\ Rows \subseteq Uids /\ Rows' \subseteq Uids
  BY FaultsGrow, AbsentIsNothing DEF SnoozeInv, Rows
<1>2. ASSUME \A w \in Workers : ~WriteRecord(w)
      PROVE  /\ AttributionCurrent'
             /\ \A v \in Rows' : rows'[v].snoozed # Absent =>
                                   v \in Rows /\ rows[v].snoozed # Absent
  <2>1. \A v \in Rows' : \/ rows'[v].snoozed = Absent
                         \/ v \in Rows /\ rows'[v].snoozed = rows[v].snoozed
    BY <1>2, SnoozedKept
  <2>2. UNCHANGED matched
    BY <1>2, MatchedKept
  <2>. QED
    BY <1>1, <2>1, <2>2 DEF AttributionCurrent
<1>3. ASSUME \A w \in Workers : ~WriteRecord(w), NEW w \in Workers, UNCHANGED uid,
             doc'[w].snoozed = doc[w].snoozed,
             UNCHANGED <<action, hadSnoozed>>, pc'[w] = pc[w]
      PROVE  Unattributed(w)'
  BY <1>1, <1>2, <1>3 DEF Unattributed
<1>4. CASE OtherSteps
  <2>1. UNCHANGED workerVars
    BY <1>4, OthersSpareWorkers
  <2>2. ASSUME NEW w \in Workers, WriteRecord(w) PROVE FALSE
    BY <2>1, <2>2 DEF workerVars, WriteRecord, Return, Typed, TypeOK
  <2>. QED
    BY <1>2, <1>3, <2>1, <2>2 DEF workerVars
<1>5. ASSUME NEW w \in Workers, WorkerSteps(w), ~WriteRecord(w)
      PROVE  AttributionCurrent' /\ \A v \in Workers : Unattributed(v)'
  <2>1. \A v \in Workers : v = w
    BY DEF OneWorker
  <2>2. AttributionCurrent' /\ \A v \in Rows' : rows'[v].snoozed # Absent =>
                                   v \in Rows /\ rows[v].snoozed # Absent
    BY <1>2, <1>5, <2>1
  <2>3. SUFFICES Unattributed(w)'
    BY <2>1, <2>2
  <2>4. doc[w] \in Documents
    BY DEF Typed, TypeOK
  <2>5. CASE \E h \in Hashes, s \in Sevs, st \in {Absent, "close"} : Receive(w, h, s, st)
    <3>1. PICK h \in Hashes, s \in Sevs, st \in {Absent, "close"} : Receive(w, h, s, st)
      BY <2>5
    <3>2. uid'[w] = Absent /\ pc'[w] = "lookup"
      BY <3>1 DEF Receive, Typed, TypeOK, WorkerShape
    <3>3. doc'[w].snoozed = Absent
      BY <3>2, TypedNext DEF Typed, WorkerShape
    <3>. QED
      BY <1>1, <3>2, <3>3 DEF Unattributed
  <2>6. CASE FirstOccurrence(w)
    <3>1. uid'[w] = Absent /\ doc'[w] = [doc[w] EXCEPT !.dup = 1] /\ doc[w].snoozed = Absent
      BY <2>6 DEF FirstOccurrence, Typed, TypeOK, WorkerShape
    <3>2. doc'[w].snoozed = Absent
      BY <2>4, <3>1 DEF Documents
    <3>. QED
      BY <1>1, <3>1, <3>2 DEF Unattributed
  <2>7. CASE \E u \in Uids : Branch(w, u)
    <3>1. PICK u \in Uids : Branch(w, u)
      BY <2>7
    <3>2. PICK why \in Causes \ {"none", "first"}, rec \in Documents, verdict \in Actions,
               commenting \in BOOLEAN : Decided(w, u, why, rec, verdict, commenting)
      BY <3>1, BranchDecides
    <3>3. /\ uid'[w] = u /\ doc'[w] = rec /\ action'[w] = verdict
          /\ pc'[w] = IF commenting THEN "comment" ELSE "write"
          /\ (hadSnoozed'[w] <=> rows[u].snoozed # Absent)
          /\ UNCHANGED storeVars
      BY <3>2 DEF Decided, Decide, LookupFrame, Typed, TypeOK
    <3>4. rec.snoozed = Absent /\ verdict \in {"Continue", "AbortUpdate"}
          /\ (verdict = "Continue" => commenting)
      BY <3>2 DEF Decided
    <3>. QED
      BY <3>3, <3>4 DEF Unattributed, storeVars
  <2>8. CASE LookupFails(w) \/ WriteFails(w)
    BY <1>1, <2>8 DEF LookupFails, WriteFails
  <2>9. CASE WriteAutoComment(w)
    <3>1. /\ pc[w] = "comment" /\ pc'[w] = AfterAggregate(w)
          /\ UNCHANGED <<storeVars, doc, uid, action, hadSnoozed>>
      BY <2>9 DEF WriteAutoComment, Typed, TypeOK
    <3>2. action[w] \in {"Continue", "AbortUpdate"}
      BY <3>1 DEF VerdictShape
    <3>3. Unattributed(w)
      BY <1>1
    <3>. QED
      BY <2>2, <3>1, <3>2, <3>3 DEF Unattributed, AfterAggregate
  <2>10. CASE ClearStaleSnoozed(w)
    <3>1. UnsetSnoozed(uid[w]) /\ uid[w] \in Uids /\ StoreTypeOK
      BY <1>1, <2>10 DEF ClearStaleSnoozed, Typed, TypeOK, WorkerShape, Opt
    <3>2. /\ pc[w] = "unset" /\ pc'[w] = "snooze" /\ UNCHANGED <<doc, uid, action>>
      BY <2>10 DEF ClearStaleSnoozed, Typed, TypeOK
    <3>3. \A v \in Rows' : v = uid[w] => rows'[v].snoozed = Absent
      BY <3>1, UnsetEffect
    <3>4. Unattributed(w)
      BY <1>1
    <3>. QED
      BY <3>2, <3>3, <3>4 DEF Unattributed
  <2>11. CASE SnoozeMisses(w) \/ Notify(w)
    <3>1. /\ pc[w] \in {"snooze", "notify"} /\ pc'[w] \in {"notify", "write"}
          /\ UNCHANGED <<doc, uid, action, storeVars>>
      BY <2>11 DEF SnoozeMisses, Notify, Typed, TypeOK
    <3>2. Unattributed(w)
      BY <1>1
    <3>. QED
      BY <2>2, <3>1, <3>2 DEF Unattributed
  <2>12. CASE SnoozeMatches(w)
    <3>1. /\ pc[w] = "snooze" /\ pc'[w] = "write" /\ action'[w] = "AbortWrite"
          /\ UNCHANGED <<uid, storeVars>>
      BY <2>12 DEF SnoozeMatches, Typed, TypeOK
    <3>2. Unattributed(w)
      BY <1>1
    <3>. QED
      BY <2>2, <3>1, <3>2 DEF Unattributed
  <2>13. CASE SnoozeDiscards(w)
    <3>1. uid'[w] = Absent /\ doc'[w] = Empty
      BY <2>13 DEF SnoozeDiscards, Return, Typed, TypeOK
    <3>. QED
      BY <1>1, <3>1, EmptyDoc DEF Unattributed
  <2>. QED
    BY <1>5, <2>5, <2>6, <2>7, <2>8, <2>9, <2>10, <2>11, <2>12, <2>13 DEF WorkerSteps
<1>6. ASSUME NEW w \in Workers, WriteRecord(w)
      PROVE  AttributionCurrent' /\ \A v \in Workers : Unattributed(v)'
  <2>1. \A v \in Workers : v = w
    BY DEF OneWorker
  <2>2. uid'[w] = Absent /\ doc'[w] = Empty /\ pc[w] = "write"
    BY <1>6 DEF WriteRecord, Return, Typed, TypeOK
  <2>3. Unattributed(w)'
    BY <1>1, <2>2, EmptyDoc DEF Unattributed
  <2>4. \A u \in Uids : matched'[u] = IF action[w] # "AbortUpdate"
                                         /\ (u = uid[w] \/ u \in used' \ used)
                                      THEN doc[w].snoozed # Absent ELSE matched[u]
    BY <1>6 DEF WriteRecord
  <2>5. Unattributed(w)
    BY <1>1
  <2>6. action[w] = "AbortUpdate" => uid[w] # Absent /\ doc[w].snoozed = Absent
    BY <2>5 DEF Unattributed, VerdictShape
  <2>7. CASE /\ uid[w] \in Rows /\ Rows' = Rows /\ used' = used
             /\ \A v \in Rows : v # uid[w] => rows'[v] = rows[v]
             /\ \A u \in Rows : u = uid[w] =>
                  rows'[u].snoozed = IF doc[w].snoozed = Absent THEN rows[u].snoozed
                                     ELSE doc[w].snoozed
    <3>1. ASSUME NEW u \in Rows, rows'[u].snoozed # Absent PROVE matched'[u]
      <4>1. CASE u # uid[w]
        BY <1>1, <2>4, <2>7, <3>1, <4>1 DEF AttributionCurrent
      <4>2. CASE u = uid[w] /\ action[w] = "AbortUpdate"
        BY <1>1, <2>4, <2>6, <2>7, <3>1, <4>2 DEF AttributionCurrent
      <4>3. CASE u = uid[w] /\ action[w] # "AbortUpdate"
        <5>1. rows[u].snoozed = Absent
          BY <2>2, <2>5, <4>3 DEF Unattributed
        <5>. QED
          BY <1>1, <2>4, <2>7, <3>1, <4>3, <5>1
      <4>. QED
        BY <4>1, <4>2, <4>3
    <3>. QED
      BY <2>1, <2>3, <2>7, <3>1 DEF AttributionCurrent
  <2>8. CASE uid[w] # Absent /\ uid[w] \notin Rows /\ UNCHANGED storeVars
    <3>1. used' = used /\ Rows' = Rows /\ rows' = rows
      BY <2>8 DEF storeVars, used, Rows
    <3>. QED
      BY <1>1, <2>1, <2>3, <2>4, <2>8, <3>1 DEF AttributionCurrent
  <2>9. CASE /\ uid[w] = Absent
             /\ \E u \in Uids \ used :
                  /\ u \notin Rows /\ Rows' = Rows \cup {u} /\ used' = used \cup {u}
                  /\ \A v \in Rows : rows'[v] = rows[v]
                  /\ rows'[u].snoozed = doc[w].snoozed
    <3>1. PICK u \in Uids \ used :
                  /\ u \notin Rows /\ Rows' = Rows \cup {u} /\ used' = used \cup {u}
                  /\ \A v \in Rows : rows'[v] = rows[v]
                  /\ rows'[u].snoozed = doc[w].snoozed
      BY <2>9
    <3>2. matched'[u] <=> rows'[u].snoozed # Absent
      BY <2>4, <2>6, <2>9, <3>1
    <3>3. ASSUME NEW v \in Rows PROVE matched'[v] = matched[v]
      <4>1. v \in used /\ v # Absent
        BY <1>1, RowDoc DEF Typed, TypeOK
      <4>. QED
        BY <1>1, <2>4, <2>9, <3>1, <4>1
    <3>. QED
      BY <1>1, <2>1, <2>3, <3>1, <3>2, <3>3 DEF AttributionCurrent
  <2>10. \/ /\ uid[w] \in Rows /\ Rows' = Rows /\ used' = used
            /\ \A v \in Rows : v # uid[w] => rows'[v] = rows[v]
            /\ \A u \in Rows : u = uid[w] =>
                 rows'[u].snoozed = IF doc[w].snoozed = Absent THEN rows[u].snoozed
                                    ELSE doc[w].snoozed
         \/ /\ uid[w] # Absent /\ uid[w] \notin Rows /\ UNCHANGED storeVars
         \/ /\ uid[w] = Absent
            /\ \E u \in Uids \ used :
                 /\ u \notin Rows /\ Rows' = Rows \cup {u} /\ used' = used \cup {u}
                 /\ \A v \in Rows : rows'[v] = rows[v]
                 /\ rows'[u].snoozed = doc[w].snoozed
    BY <1>6, WriteRows
  <2>. QED
    BY <2>7, <2>8, <2>9, <2>10
<1>. QED
  BY <1>4, <1>5, <1>6, StepKinds

(* A record that no longer matches a filter does not stay hidden, when     *)
(* alerts are processed one at a time and no call failed: the housekeeper, *)
(* the users, edits of the filter and late responses do not disturb it.    *)
THEOREM SerialSnoozedIsCurrent ==
  ASSUME OneWorker
  PROVE  Spec => []SnoozedIsCurrent
<1> DEFINE Inv == Typed /\ VerdictShape /\ SnoozeInv
<1>1. Init => Inv
  <2> SUFFICES ASSUME Init PROVE Inv
    OBVIOUS
  <2>1. Typed
    BY TypedInit
  <2>2. VerdictShape
    BY DEF Init, VerdictShape
  <2>3. Rows = {}
    BY DEF Init, StoreInit, Rows
  <2>4. SnoozeInv
    BY <2>3, EmptyDoc DEF Init, SnoozeInv, AttributionCurrent, Unattributed
  <2>. QED
    BY <2>1, <2>2, <2>4
<1>2. Inv /\ [Next]_vars => Inv'
  BY TypedNext, VerdictStep, SnoozeStep
<1>3. Inv => SnoozedIsCurrent
  BY DEF SnoozeInv, AttributionCurrent, SnoozedIsCurrent
<1>. QED
  BY <1>1, <1>2, <1>3, PTL DEF Spec

-----------------------------------------------------------------------------
(* The flapping cap.                                                       *)

(* Only notification.Process sends.                                        *)
LEMMA SentKept ==
  ASSUME [Next]_vars, \A w \in Workers : ~Notify(w)
  PROVE  UNCHANGED <<flaps, lastSent>>
<1>1. ASSUME NEW w \in Workers, WorkerSteps(w) PROVE UNCHANGED <<flaps, lastSent>>
  BY <1>1 DEF WorkerSteps, Receive, FirstOccurrence, Branch, AutoClose, AlreadyClosed,
     WatchChanged, Reopen, Throttled, Escalate, LookupFrame, LookupFails, WriteAutoComment,
     ClearStaleSnoozed, SnoozeMisses, SnoozeMatches, SnoozeDiscards, WriteFails, WriteRecord,
     history
<1>2. ASSUME OtherSteps PROVE UNCHANGED <<flaps, lastSent>>
  BY <1>2 DEF OtherSteps, InjectResponse, FlushIncrement, PostComment, ReadRecord, PatchRecord,
     AfterCreateFails, Shelve, EditFilter, CleanupAlerts, CleanupComments, Tick, vars, history
<1>. QED
  BY <1>1, <1>2, StepKinds

(* A step is not of two kinds: writeRecord and notification.Process are    *)
(* taken at their own program counter and leave it.                        *)
LEMMA StepsApart ==
  ASSUME Typed, OneWorker, NEW w \in Workers
  PROVE  /\ OtherSteps => \A v \in Workers : ~WriteRecord(v) /\ ~Notify(v)
         /\ pc[w] # "write" => \A v \in Workers : ~WriteRecord(v)
         /\ pc[w] # "notify" => \A v \in Workers : ~Notify(v)
<1>1. OtherSteps => pc' = pc
  BY OthersSpareWorkers DEF workerVars
<1>2. ASSUME NEW v \in Workers, WriteRecord(v) PROVE pc[v] = "write" /\ pc'[v] = "idle"
  BY <1>2 DEF WriteRecord, Return, Typed, TypeOK
<1>3. ASSUME NEW v \in Workers, Notify(v) PROVE pc[v] = "notify" /\ pc'[v] = "write"
  BY <1>3 DEF Notify, Typed, TypeOK
<1>. QED
  BY <1>1, <1>2, <1>3 DEF OneWorker

(* The countdown of a row found by a lookup covers what was sent for it.   *)
LEMMA FlapStep ==
  ASSUME OneWorker, ~Cleaning, Flapping >= 0, RowInv, FlapInv, [Next]_vars
  PROVE  FlapInv'
<1> SUFFICES ASSUME faults' = 0
             PROVE  /\ \A u \in Uids : flaps'[u] <= Flapping
                    /\ \A u \in Uids \ used' : flaps'[u] = 0
                    /\ RowCountdown'
                    /\ \A w \in Workers : WorkerCountdown(w)'
  BY DEF FlapInv
<1>1. /\ faults = 0 /\ faults # faults + 1
      /\ \A u \in Uids : flaps[u] <= Flapping
      /\ \A u \in Uids \ used : flaps[u] = 0
      /\ RowCountdown
      /\ \A w \in Workers : WorkerCountdown(w)
  BY FaultsGrow DEF FlapInv, RowInv
<1>2. /\ Typed /\ Typed' /\ RowInv' /\ VerdictShape /\ StoreTypeOK
      /\ flaps \in [Uids -> Nat] /\ Flapping \in Int /\ Rows \subseteq Uids
      /\ \A w \in Workers : doc[w] \in Documents /\ doc[w].flap \in Opt(Int)
      /\ \A w \in Workers : uid[w] \in Opt(Uids)
  BY RowStep, TypedNext, DocFields, RuleAssumption DEF RowInv, Typed, TypeOK, Rows
<1>3. ASSUME \A w \in Workers : ~Notify(w) /\ ~WriteRecord(w)
      PROVE  /\ UNCHANGED flaps
             /\ \A u \in Uids : flaps'[u] <= Flapping
             /\ \A u \in Uids \ used' : flaps'[u] = 0
             /\ Rows' = Rows /\ \A u \in Rows : rows'[u].flap = rows[u].flap
  BY <1>1, <1>3, SentKept, RowsKept DEF Kept
<1>4. ASSUME \A w \in Workers : ~Notify(w) /\ ~WriteRecord(w),
             \A w \in Workers : pc[w] = "write" => /\ pc'[w] = "write" /\ uid'[w] = uid[w]
                                                   /\ doc'[w].flap = doc[w].flap
      PROVE  RowCountdown'
  BY <1>1, <1>3, <1>4 DEF RowCountdown
<1>5. ASSUME NEW w \in Workers, UNCHANGED <<flaps, uid, action, cause>>,
             doc'[w].flap = doc[w].flap, pc'[w] = pc[w]
      PROVE  WorkerCountdown(w)'
  BY <1>1, <1>5 DEF WorkerCountdown
<1>6. CASE OtherSteps
  <2>1. UNCHANGED workerVars /\ \A w \in Workers : ~Notify(w) /\ ~WriteRecord(w)
    BY <1>2, <1>6, OthersSpareWorkers, StepsApart
  <2>2. RowCountdown'
    BY <1>4, <2>1 DEF workerVars
  <2>3. \A w \in Workers : WorkerCountdown(w)'
    BY <1>3, <1>5, <2>1 DEF workerVars
  <2>. QED
    BY <1>3, <2>1, <2>2, <2>3
<1>7. ASSUME NEW w \in Workers, WorkerSteps(w)
      PROVE  /\ \A u \in Uids : flaps'[u] <= Flapping
             /\ \A u \in Uids \ used' : flaps'[u] = 0
             /\ RowCountdown'
             /\ \A v \in Workers : WorkerCountdown(v)'
  <2>1. \A v \in Workers : v = w
    BY DEF OneWorker
  <2>2. ASSUME pc[w] \notin {"write", "notify"}, WorkerCountdown(w)'
        PROVE  /\ \A u \in Uids : flaps'[u] <= Flapping
               /\ \A u \in Uids \ used' : flaps'[u] = 0
               /\ RowCountdown'
               /\ \A v \in Workers : WorkerCountdown(v)'
    <3>1. \A v \in Workers : ~Notify(v) /\ ~WriteRecord(v)
      BY <1>2, <2>2, StepsApart
    <3>. QED
      BY <1>3, <1>4, <2>1, <2>2, <3>1
  <2>3. ASSUME pc[w] \notin {"write", "notify"} PROVE UNCHANGED flaps
    BY <1>2, <1>3, <2>3, StepsApart
  <2>4. ASSUME \E h \in Hashes, s \in Sevs, st \in {Absent, "close"} : Receive(w, h, s, st)
        PROVE  pc[w] \notin {"write", "notify"} /\ WorkerCountdown(w)'
    <3>1. pc[w] = "idle" /\ pc'[w] = "lookup"
      BY <1>2, <2>4 DEF Receive, Typed, TypeOK
    <3>2. doc'[w].flap = Absent /\ cause'[w] = "none"
      BY <1>2, <3>1 DEF Typed, WorkerShape
    <3>. QED
      BY <3>1, <3>2 DEF WorkerCountdown
  <2>5. ASSUME FirstOccurrence(w)
        PROVE  pc[w] \notin {"write", "notify"} /\ WorkerCountdown(w)'
    <3>1. /\ pc[w] = "lookup" /\ cause'[w] = "first" /\ doc'[w] = [doc[w] EXCEPT !.dup = 1]
          /\ doc[w].flap = Absent
      BY <1>2, <2>5 DEF FirstOccurrence, Typed, TypeOK, WorkerShape
    <3>2. doc'[w].flap = Absent
      BY <1>2, <3>1 DEF Documents
    <3>. QED
      BY <3>1, <3>2 DEF WorkerCountdown
  <2>6. ASSUME NEW u \in Uids, Branch(w, u)
        PROVE  pc[w] \notin {"write", "notify"} /\ WorkerCountdown(w)'
    <3>1. pc[w] = "lookup" /\ u \in Rows
      BY <1>2, <2>6, BranchDecides DEF GetOne, WithHash
    <3>2. PICK why \in Causes \ {"none", "first"}, rec \in Documents, verdict \in Actions,
               commenting \in BOOLEAN : Decided(w, u, why, rec, verdict, commenting)
      BY <1>2, <2>6, BranchDecides
    <3>3. /\ uid'[w] = u /\ doc'[w] = rec /\ action'[w] = verdict /\ cause'[w] = why
          /\ pc'[w] = IF commenting THEN "comment" ELSE "write"
      BY <1>2, <3>2 DEF Decided, Decide, Typed, TypeOK
    <3>4. /\ rec.flap = IF why \in {"watch", "reopen"} THEN Countdown(rows[u]) ELSE Absent
          /\ (why \in {"watch", "reopen"} /\ verdict = "Continue" => rec.flap > 0)
      BY <3>2 DEF Decided
    <3>5. Num(rows[u].flap, Flapping) \in Int
      BY <1>2, <3>1, RowDoc, DocFields, NumType
    <3>6. flaps[u] + Num(rows[u].flap, Flapping) <= Flapping
      BY <1>1, <2>1, <3>1 DEF RowCountdown
    <3>7. Countdown(rows[u]) \in Int /\ flaps[u] + Countdown(rows[u]) + 1 <= Flapping
      BY <1>2, <3>5, <3>6 DEF Countdown
    <3>8. flaps' = flaps
      BY <2>3, <3>1
    <3>9. rec.flap # Absent <=> why \in {"watch", "reopen"}
      BY <3>4, <3>7, AbsentIsNothing
    <3>10. rec.flap # Absent => rec.flap \in Int /\ flaps[u] + rec.flap + 1 <= Flapping
      BY <3>4, <3>7, <3>9
    <3>11. rec.flap # Absent => flaps[u] + rec.flap <= Flapping
      BY <1>2, <3>10
    <3>. QED
      BY <3>1, <3>3, <3>4, <3>8, <3>9, <3>10, <3>11 DEF WorkerCountdown
  <2>7. ASSUME WriteAutoComment(w)
        PROVE  pc[w] \notin {"write", "notify"} /\ WorkerCountdown(w)'
    <3>1. /\ pc[w] = "comment" /\ pc'[w] = AfterAggregate(w)
          /\ UNCHANGED <<doc, uid, action, cause>>
      BY <1>2, <2>7 DEF WriteAutoComment, Typed, TypeOK
    <3>2. flaps' = flaps /\ uid[w] \in Uids
      BY <1>2, <2>3, <3>1 DEF Typed, WorkerShape, Opt
    <3>3. WorkerCountdown(w) /\ pc[w] \in Inside
      BY <1>1, <3>1 DEF Inside
    <3>4. doc[w].flap # Absent => flaps[uid[w]] + doc[w].flap <= Flapping
      BY <1>2, <3>2, <3>3 DEF WorkerCountdown, Opt
    <3>. QED
      BY <3>1, <3>2, <3>3, <3>4 DEF WorkerCountdown
  <2>8. ASSUME ClearStaleSnoozed(w) \/ SnoozeMisses(w)
        PROVE  pc[w] \notin {"write", "notify"} /\ WorkerCountdown(w)'
    <3>1. /\ pc[w] \in {"unset", "snooze"} /\ pc'[w] \in {"snooze", "notify"}
          /\ UNCHANGED <<doc, uid, action, cause>>
      BY <1>2, <2>8 DEF ClearStaleSnoozed, SnoozeMisses, Typed, TypeOK
    <3>2. flaps' = flaps
      BY <2>3, <3>1
    <3>. QED
      BY <1>1, <3>1, <3>2 DEF WorkerCountdown, Inside
  <2>9. ASSUME SnoozeMatches(w)
        PROVE  pc[w] \notin {"write", "notify"} /\ WorkerCountdown(w)'
    <3>1. /\ pc[w] = "snooze" /\ pc'[w] = "write" /\ UNCHANGED <<uid, cause>>
          /\ doc'[w] = [doc[w] EXCEPT !.snoozed = TRUE]
      BY <1>2, <2>9 DEF SnoozeMatches, Typed, TypeOK
    <3>2. flaps' = flaps
      BY <2>3, <3>1
    <3>3. doc'[w].flap = doc[w].flap
      BY <1>2, <3>1 DEF Documents
    <3>4. WorkerCountdown(w) /\ pc[w] \in Inside
      BY <1>1, <3>1 DEF Inside
    <3>5. doc[w].flap # Absent => uid[w] \in Uids
      BY <1>2, <3>4 DEF WorkerCountdown, Typed, WorkerShape, Opt
    <3>6. doc[w].flap # Absent => flaps[uid[w]] + doc[w].flap <= Flapping
      BY <1>2, <3>4, <3>5 DEF WorkerCountdown, Opt
    <3>. QED
      BY <3>1, <3>2, <3>3, <3>4, <3>6 DEF WorkerCountdown, Inside
  <2>10. ASSUME SnoozeDiscards(w)
         PROVE  pc[w] \notin {"write", "notify"} /\ WorkerCountdown(w)'
    <3>1. pc[w] = "snooze" /\ doc'[w] = Empty /\ cause'[w] = "none" /\ pc'[w] = "idle"
      BY <1>2, <2>10 DEF SnoozeDiscards, Return, Typed, TypeOK
    <3>. QED
      BY <3>1, EmptyDoc DEF WorkerCountdown
  <2>11. CASE LookupFails(w) \/ WriteFails(w)
    BY <1>1, <2>11 DEF LookupFails, WriteFails
  <2>12. CASE Notify(w)
    <3>1. /\ pc[w] = "notify" /\ pc'[w] = "write" /\ action[w] = "Continue"
          /\ UNCHANGED <<doc, uid, action, cause, storeVars>>
          /\ \/ UNCHANGED flaps
             \/ /\ cause[w] \in {"watch", "reopen"}
                /\ flaps' = [flaps EXCEPT ![uid[w]] = @ + 1]
      BY <1>2, <2>12 DEF Notify, VerdictShape, Typed, TypeOK
    <3>2. Rows' = Rows /\ used' = used /\ rows' = rows
      BY <3>1 DEF storeVars, Rows, used
    <3>3. WorkerCountdown(w) /\ pc[w] \in Inside
      BY <1>1, <3>1 DEF Inside
    <3>4. CASE UNCHANGED flaps
      <4>1. doc[w].flap # Absent => uid[w] \in Uids
        BY <1>2, <3>3 DEF WorkerCountdown, Typed, WorkerShape, Opt
      <4>2. doc[w].flap # Absent => flaps[uid[w]] + doc[w].flap <= Flapping
        BY <1>2, <3>3, <4>1 DEF WorkerCountdown, Opt
      <4>3. WorkerCountdown(w)'
        BY <3>1, <3>3, <3>4, <4>2 DEF WorkerCountdown, Inside
      <4>4. RowCountdown'
        BY <1>1, <2>1, <3>1, <3>2, <3>4 DEF RowCountdown
      <4>. QED
        BY <1>1, <2>1, <3>2, <3>4, <4>3, <4>4
    <3>5. CASE /\ cause[w] \in {"watch", "reopen"}
               /\ flaps' = [flaps EXCEPT ![uid[w]] = @ + 1]
      <4>1. PICK u \in used : u = uid[w]
        BY <1>2, <3>5 DEF Typed, WorkerShape
      <4>2. u \in Uids
        BY DEF used
      <4>3. /\ doc[w].flap # Absent /\ doc[w].flap > 0 /\ doc[w].flap \in Int
            /\ flaps[u] + doc[w].flap + 1 <= Flapping
        BY <1>2, <3>1, <3>3, <3>5, <4>1 DEF WorkerCountdown, Opt
      <4>4. /\ flaps'[u] = flaps[u] + 1
            /\ \A v \in Uids : v # u => flaps'[v] = flaps[v]
        BY <1>2, <3>5, <4>1, <4>2
      <4>5. flaps'[u] + doc[w].flap <= Flapping /\ flaps'[u] <= Flapping
        BY <1>2, <4>2, <4>3, <4>4
      <4>6. WorkerCountdown(w)'
        BY <3>1, <3>3, <4>1, <4>5 DEF WorkerCountdown, Inside
      <4>7. RowCountdown'
        BY <1>1, <1>2, <2>1, <3>1, <3>2, <4>1, <4>3, <4>4 DEF RowCountdown
      <4>8. \A v \in Uids : flaps'[v] <= Flapping
        BY <1>1, <4>4, <4>5
      <4>9. \A v \in Uids \ used' : flaps'[v] = 0
        BY <1>1, <3>2, <4>1, <4>4
      <4>. QED
        BY <2>1, <4>6, <4>7, <4>8, <4>9
    <3>. QED
      BY <3>1, <3>4, <3>5
  <2>13. CASE WriteRecord(w)
    <3>1. pc[w] = "write" /\ doc'[w] = Empty /\ cause'[w] = "none" /\ pc'[w] = "idle"
      BY <1>2, <2>13 DEF WriteRecord, Return, Typed, TypeOK
    <3>2. WorkerCountdown(w)'
      BY <3>1, EmptyDoc DEF WorkerCountdown
    <3>3. flaps' = flaps
      BY <1>2, <3>1, StepsApart, SentKept
    <3>4. WorkerCountdown(w)
      BY <1>1
    <3>5. CASE uid[w] # Absent
      <4>1. uid[w] \in Rows
        BY <3>5 DEF RowInv, FoundIsThere
      <4>2. /\ Rows' = Rows /\ used' = used
            /\ \A v \in Rows : v # uid[w] => rows'[v] = rows[v]
            /\ \A u \in Rows : u = uid[w] =>
                 rows'[u].flap = IF doc[w].flap = Absent THEN rows[u].flap ELSE doc[w].flap
        BY <1>2, <2>13, <3>5, <4>1, WriteRows
      <4>3. ASSUME NEW u \in Rows PROVE flaps[u] + Num(rows'[u].flap, Flapping) <= Flapping
        <5>1. CASE u = uid[w] /\ doc[w].flap # Absent
          BY <3>1, <3>4, <4>2, <5>1 DEF WorkerCountdown, Num
        <5>2. CASE u # uid[w] \/ doc[w].flap = Absent
          BY <1>1, <2>1, <4>2, <5>2 DEF RowCountdown
        <5>. QED
          BY <5>1, <5>2
      <4>4. RowCountdown'
        BY <3>3, <4>2, <4>3 DEF RowCountdown
      <4>. QED
        BY <1>1, <2>1, <3>2, <3>3, <4>2, <4>4
    <3>6. CASE uid[w] = Absent
      <4>1. PICK u \in Uids \ used :
                 /\ Rows' = Rows \cup {u} /\ used' = used \cup {u}
                 /\ \A v \in Rows : rows'[v] = rows[v]
                 /\ rows'[u].flap = doc[w].flap
        BY <1>2, <2>13, <3>6, AbsentIsNothing, WriteRows
      <4>2. doc[w].flap = Absent
        BY <1>2, <3>4, <3>6 DEF WorkerCountdown, Typed, WorkerShape
      <4>3. flaps[u] + Num(rows'[u].flap, Flapping) <= Flapping
        BY <1>1, <1>2, <4>1, <4>2 DEF Num
      <4>4. \A v \in Rows : flaps[v] + Num(rows[v].flap, Flapping) <= Flapping
        BY <1>2, <2>1, <3>6, AbsentIsNothing, <1>1 DEF RowCountdown
      <4>5. RowCountdown'
        BY <3>3, <4>1, <4>3, <4>4 DEF RowCountdown
      <4>. QED
        BY <1>1, <2>1, <3>2, <3>3, <4>1, <4>5
    <3>. QED
      BY <3>5, <3>6
  <2>. QED
    BY <1>7, <2>2, <2>4, <2>5, <2>6, <2>7, <2>8, <2>9, <2>10, <2>11, <2>12, <2>13 DEF WorkerSteps
<1>. QED
  BY <1>6, <1>7, StepKinds

(* The flapping countdown caps the notifications a record gets for         *)
(* re-opens and watched changes, when alerts are processed one at a time,  *)
(* no record expires and no call failed.                                   *)
THEOREM SerialFlappingCap ==
  ASSUME OneWorker, ~Cleaning, Flapping >= 0
  PROVE  Spec => []FlappingCap
<1> DEFINE Inv == RowInv /\ FlapInv
<1>1. Init => Inv
  <2> SUFFICES ASSUME Init PROVE Inv
    OBVIOUS
  <2>1. RowInv /\ Rows = {}
    BY RowInit DEF Init, StoreInit, Rows
  <2>2. FlapInv
    BY <2>1, EmptyDoc DEF Init, FlapInv, RowCountdown, WorkerCountdown
  <2>. QED
    BY <2>1, <2>2
<1>2. Inv /\ [Next]_vars => Inv'
  BY RowStep, FlapStep
<1>3. Inv => FlappingCap
  BY DEF FlapInv, FlappingCap
<1>. QED
  BY <1>1, <1>2, <1>3, PTL DEF Spec

-----------------------------------------------------------------------------
(* The throttle period.                                                    *)

(* The clock never goes back.                                              *)
LEMMA ClockGrows ==
  ASSUME Typed, [Next]_vars
  PROVE  now \in Nat /\ now' \in Nat /\ now <= now' /\ (~OtherSteps => now' = now)
<1>1. now \in Nat
  BY DEF Typed, TypeOK
<1>2. ASSUME NEW w \in Workers, WorkerSteps(w) PROVE now' = now
  BY <1>2 DEF WorkerSteps, Receive, FirstOccurrence, Branch, AutoClose, AlreadyClosed,
     WatchChanged, Reopen, Throttled, Escalate, LookupFrame, LookupFails, WriteAutoComment,
     ClearStaleSnoozed, SnoozeMisses, SnoozeMatches, SnoozeDiscards, Notify, WriteFails,
     WriteRecord
<1>3. ASSUME OtherSteps PROVE now' \in {now, now + 1}
  BY <1>3 DEF OtherSteps, InjectResponse, FlushIncrement, PostComment, ReadRecord, PatchRecord,
     AfterCreateFails, Shelve, EditFilter, CleanupAlerts, CleanupComments, Tick, vars
<1>. QED
  BY <1>1, <1>2, <1>3, StepKinds

(* The date of a row found by a lookup is not older than the last          *)
(* notification of its hash, so the window the lookup measures is not      *)
(* longer than the time since that notification.                           *)
LEMMA ThrottleStep ==
  ASSUME OneWorker, ~Cleaning, RowInv, ThrottleInv, [Next]_vars
  PROVE  ThrottleInv'
<1> SUFFICES ASSUME faults' = 0
             PROVE  /\ \A h \in Hashes : SentBy(h, now)'
                    /\ RowDated'
                    /\ \A w \in Workers : WorkerDated(w)'
  BY DEF ThrottleInv
<1>1. /\ faults = 0 /\ faults # faults + 1
      /\ \A h \in Hashes : SentBy(h, now)
      /\ RowDated
      /\ \A w \in Workers : WorkerDated(w)
  BY FaultsGrow DEF ThrottleInv, RowInv
<1>2. /\ Typed /\ Typed' /\ RowInv' /\ VerdictShape /\ StoreTypeOK
      /\ lastSent \in [Hashes -> Opt(Nat)] /\ Rows \subseteq Uids
      /\ now \in Nat /\ now' \in Nat /\ now <= now'
      /\ \A w \in Workers : doc[w] \in Documents /\ uid[w] \in Opt(Uids)
  BY RowStep, TypedNext, ClockGrows DEF RowInv, Typed, TypeOK, Rows
<1>3. \A h \in Hashes : lastSent[h] \in Opt(Nat)
  BY <1>2
<1>4. ASSUME \A w \in Workers : ~Notify(w)
      PROVE  lastSent' = lastSent /\ \A h \in Hashes : SentBy(h, now)'
  <2>1. lastSent' = lastSent
    BY <1>4, SentKept
  <2>2. ASSUME NEW h \in Hashes PROVE SentBy(h, now)'
    BY <1>1, <1>2, <1>3, <2>1, <2>2 DEF SentBy, Opt
  <2>. QED
    BY <2>1, <2>2
<1>5. ASSUME \A w \in Workers : ~Notify(w) /\ ~WriteRecord(w),
             \A w \in Workers : pc[w] = "write" /\ action[w] = "Continue" =>
               pc'[w] = "write" /\ action'[w] = "Continue" /\ doc'[w].hash = doc[w].hash
      PROVE  RowDated'
  <2>1. lastSent' = lastSent
    BY <1>4, <1>5
  <2>2. Rows' = Rows /\ \A v \in Rows : Kept(v)
    BY <1>5, RowsKept
  <2>3. \A h : WithHash(h)' = WithHash(h)
    BY <2>2, SameWithHash DEF Kept
  <2>4. ASSUME NEW h \in Hashes, NEW u \in WithHash(h)
        PROVE  \/ rows'[u].date = Absent
               \/ SentBy(h, rows[u].date) /\ rows'[u].date = rows[u].date
               \/ SentBy(h, now) /\ rows'[u].date = now
               \/ \E w \in Workers : pc'[w] = "write" /\ action'[w] = "Continue" /\ doc'[w].hash = h
    <3>1. u \in Rows /\ rows'[u].date \in {rows[u].date, now}
      BY <2>2 DEF Kept, WithHash
    <3>2. \/ rows[u].date = Absent
          \/ SentBy(h, rows[u].date)
          \/ \E w \in Workers : pc[w] = "write" /\ action[w] = "Continue" /\ doc[w].hash = h
      BY <1>1 DEF RowDated
    <3>. QED
      BY <1>1, <1>5, <3>1, <3>2
  <2>. QED
    BY <2>1, <2>3, <2>4 DEF RowDated, SentBy
<1>6. ASSUME NEW w \in Workers, doc[w].hash \in Hashes, doc[w].sev \in Sevs,
             lastSent' = lastSent, action'[w] = action[w], cause'[w] = cause[w],
             doc'[w] = doc[w], pc'[w] \in Inside => pc[w] \in Inside
      PROVE  WorkerDated(w)'
  <2>1. ThrottleOf(doc[w]) \in Int
    BY <1>6, ThrottleAssumption DEF ThrottleOf
  <2>2. ThrottleOf(doc[w])' = ThrottleOf(doc[w])
    BY <1>6 DEF ThrottleOf
  <2>3. lastSent[doc[w].hash] \in Opt(Nat)
    BY <1>3, <1>6
  <2>4. WorkerDated(w)
    BY <1>1
  <2>5. cause[w] = "escalate" /\ pc[w] \in Inside =>
          \/ lastSent[doc[w].hash] = Absent
          \/ /\ ThrottleOf(doc[w]) >= 0
             /\ now' - lastSent[doc[w].hash] >= ThrottleOf(doc[w])
    BY <1>2, <2>1, <2>3, <2>4 DEF WorkerDated, Opt
  <2>. QED
    BY <1>6, <2>2, <2>4, <2>5 DEF WorkerDated, SentBy
<1>7. ASSUME NEW w \in Workers,
             lastSent' = lastSent, action'[w] = action[w], cause'[w] = cause[w],
             doc'[w] = doc[w], pc'[w] \notin Inside
      PROVE  WorkerDated(w)'
  BY <1>1, <1>7 DEF WorkerDated, SentBy
<1>8. ASSUME NEW w \in Workers, pc[w] \in Inside
      PROVE  doc[w].hash \in Hashes /\ doc[w].sev \in Sevs
  BY <1>2, <1>8 DEF Inside, Typed, WorkerShape
<1>9. CASE OtherSteps
  <2>1. UNCHANGED workerVars /\ \A w \in Workers : ~Notify(w) /\ ~WriteRecord(w)
    BY <1>2, <1>9, OthersSpareWorkers, StepsApart
  <2>2. RowDated'
    BY <1>5, <2>1 DEF workerVars
  <2>3. lastSent' = lastSent /\ \A h \in Hashes : SentBy(h, now)'
    BY <1>4, <2>1
  <2>4. \A w \in Workers : WorkerDated(w)'
    BY <1>6, <1>7, <1>8, <2>1, <2>3 DEF workerVars
  <2>. QED
    BY <2>2, <2>3, <2>4
<1>10. ASSUME NEW w \in Workers, WorkerSteps(w), ~OtherSteps
       PROVE  /\ \A h \in Hashes : SentBy(h, now)'
              /\ RowDated'
              /\ \A v \in Workers : WorkerDated(v)'
  <2>1. (\A v \in Workers : v = w) /\ now' = now
    BY <1>2, <1>10, ClockGrows DEF OneWorker
  <2>2. ASSUME pc[w] \notin {"write", "notify"}, WorkerDated(w)'
        PROVE  /\ \A h \in Hashes : SentBy(h, now)'
               /\ RowDated'
               /\ \A v \in Workers : WorkerDated(v)'
    <3>1. \A v \in Workers : ~Notify(v) /\ ~WriteRecord(v)
      BY <1>2, <2>2, StepsApart
    <3>. QED
      BY <1>4, <1>5, <2>1, <2>2, <3>1
  <2>3. ASSUME pc[w] \notin {"write", "notify"} PROVE lastSent' = lastSent
    BY <1>2, <1>4, <2>3, StepsApart
  <2>4. ASSUME \E h \in Hashes, s \in Sevs, st \in {Absent, "close"} : Receive(w, h, s, st)
        PROVE  pc[w] \notin {"write", "notify"} /\ WorkerDated(w)'
    <3>1. pc[w] = "idle" /\ pc'[w] = "lookup" /\ action'[w] = "Continue"
      BY <1>2, <2>4 DEF Receive, Typed, TypeOK, WorkerShape
    <3>. QED
      BY <3>1 DEF WorkerDated, Inside
  <2>5. ASSUME FirstOccurrence(w)
        PROVE  pc[w] \notin {"write", "notify"} /\ WorkerDated(w)'
    <3>1. pc[w] = "lookup" /\ cause'[w] = "first" /\ action'[w] = "Continue"
      BY <1>2, <2>5 DEF FirstOccurrence, Typed, TypeOK, WorkerShape
    <3>. QED
      BY <3>1 DEF WorkerDated
  <2>6. ASSUME NEW u \in Uids, Branch(w, u)
        PROVE  pc[w] \notin {"write", "notify"} /\ WorkerDated(w)'
    <3>1. PICK h \in Hashes : h = doc[w].hash
      BY <1>2, <2>6, BranchDecides DEF Typed, WorkerShape
    <3>2. pc[w] = "lookup" /\ u \in Rows /\ u \in WithHash(h) /\ doc[w].sev \in Sevs
      BY <1>2, <2>6, <3>1, BranchDecides DEF GetOne, WithHash, Typed, WorkerShape
    <3>3. PICK why \in Causes \ {"none", "first"}, rec \in Documents, verdict \in Actions,
               commenting \in BOOLEAN : Decided(w, u, why, rec, verdict, commenting)
      BY <1>2, <2>6, BranchDecides
    <3>4. /\ doc'[w] = rec /\ action'[w] = verdict /\ cause'[w] = why
          /\ rec.hash = h /\ rec.sev = doc[w].sev /\ rec.date = Num(rows[u].date, now)
          /\ why = "escalate" => ~Throttling(doc[w], rows[u])
      BY <1>2, <3>1, <3>3 DEF Decided, Decide, Typed, TypeOK
    <3>5. rows[u].date \in Opt(Int) /\ Num(rows[u].date, now) \in Int
      BY <1>2, <3>2, RowDoc, DocFields, NumType
    <3>6. SentBy(h, Num(rows[u].date, now))
      <4>1. rows[u].date = Absent \/ SentBy(h, rows[u].date)
        BY <1>1, <2>1, <3>2 DEF RowDated
      <4>. QED
        BY <1>1, <3>5, <4>1 DEF Num
    <3>7. lastSent' = lastSent
      BY <2>3, <3>2
    <3>8. ThrottleOf(doc[w]) \in Int /\ ThrottleOf(rec) = ThrottleOf(doc[w])
      BY <3>2, <3>4, ThrottleAssumption DEF ThrottleOf
    <3>9. why = "escalate" => \/ lastSent[h] = Absent
                              \/ /\ ThrottleOf(rec) >= 0
                                 /\ now - lastSent[h] >= ThrottleOf(rec)
      <4>1. CASE why = "escalate" /\ lastSent[h] # Absent
        <5>1. lastSent[h] \in Nat /\ lastSent[h] <= Num(rows[u].date, now)
          BY <1>3, <3>6, <4>1 DEF Opt, SentBy
        <5>2. ThrottleOf(rec) >= 0 /\ now - Num(rows[u].date, now) >= ThrottleOf(rec)
          BY <1>2, <3>4, <3>5, <3>8, <4>1 DEF Throttling
        <5>. QED
          BY <1>2, <3>5, <3>8, <5>1, <5>2
      <4>. QED
        BY <4>1
    <3>10. ThrottleOf(doc[w])' = ThrottleOf(rec)
      BY <3>4 DEF ThrottleOf
    <3>. QED
      BY <2>1, <3>2, <3>4, <3>5, <3>6, <3>7, <3>9, <3>10 DEF WorkerDated, SentBy
  <2>7. ASSUME WriteAutoComment(w)
        PROVE  pc[w] \notin {"write", "notify"} /\ WorkerDated(w)'
    <3>1. pc[w] = "comment" /\ UNCHANGED <<doc, uid, action, cause>>
      BY <1>2, <2>7 DEF WriteAutoComment
    <3>2. lastSent' = lastSent /\ pc[w] \in Inside
      BY <2>3, <3>1 DEF Inside
    <3>. QED
      BY <1>6, <1>8, <3>1, <3>2
  <2>8. ASSUME ClearStaleSnoozed(w) \/ SnoozeMisses(w)
        PROVE  pc[w] \notin {"write", "notify"} /\ WorkerDated(w)'
    <3>1. pc[w] \in {"unset", "snooze"} /\ UNCHANGED <<doc, uid, action, cause>>
      BY <1>2, <2>8 DEF ClearStaleSnoozed, SnoozeMisses
    <3>2. lastSent' = lastSent /\ pc[w] \in Inside
      BY <2>3, <3>1 DEF Inside
    <3>. QED
      BY <1>6, <1>8, <3>1, <3>2
  <2>9. ASSUME SnoozeMatches(w)
        PROVE  pc[w] \notin {"write", "notify"} /\ WorkerDated(w)'
    <3>1. pc[w] = "snooze" /\ pc'[w] = "write" /\ action'[w] # "AbortUpdate"
      BY <1>2, <2>9 DEF SnoozeMatches, Typed, TypeOK, VerdictShape
    <3>. QED
      BY <3>1 DEF WorkerDated, Inside
  <2>10. ASSUME SnoozeDiscards(w)
         PROVE  pc[w] \notin {"write", "notify"} /\ WorkerDated(w)'
    <3>1. pc[w] = "snooze" /\ action'[w] = "Continue" /\ pc'[w] = "idle"
      BY <1>2, <2>10 DEF SnoozeDiscards, Return, Typed, TypeOK
    <3>. QED
      BY <3>1 DEF WorkerDated, Inside
  <2>11. CASE LookupFails(w) \/ WriteFails(w)
    BY <1>1, <2>11 DEF LookupFails, WriteFails
  <2>12. CASE Notify(w)
    <3>1. PICK h \in Hashes : h = doc[w].hash
      BY <1>2, <2>12 DEF Notify, Typed, WorkerShape
    <3>2. /\ pc[w] = "notify" /\ pc'[w] = "write" /\ action[w] = "Continue"
          /\ UNCHANGED <<doc, uid, action, cause, storeVars>>
          /\ lastSent' \in {lastSent, [lastSent EXCEPT ![h] = now]}
      BY <1>2, <2>12, <3>1 DEF Notify, VerdictShape, Typed, TypeOK
    <3>3. Rows' = Rows /\ rows' = rows /\ \A g : WithHash(g)' = WithHash(g)
      BY <3>2 DEF storeVars, Rows, WithHash
    <3>4. \A g \in Hashes : lastSent'[g] = lastSent[g] \/ (g = h /\ lastSent'[g] = now)
      BY <1>2, <3>2
    <3>5. \A g \in Hashes : SentBy(g, now)'
      BY <1>1, <1>2, <2>1, <3>4 DEF SentBy
    <3>6. WorkerDated(w)'
      BY <3>2 DEF WorkerDated, Inside
    <3>7. ASSUME NEW g \in Hashes, NEW u \in WithHash(g)
          PROVE  \/ rows[u].date = Absent
                 \/ lastSent'[g] = Absent \/ lastSent'[g] <= rows[u].date
                 \/ pc'[w] = "write" /\ action'[w] = "Continue" /\ doc'[w].hash = g
      BY <1>1, <2>1, <3>1, <3>2, <3>4 DEF RowDated, SentBy
    <3>8. RowDated'
      BY <3>3, <3>7 DEF RowDated, SentBy
    <3>. QED
      BY <2>1, <3>5, <3>6, <3>8
  <2>13. CASE WriteRecord(w)
    <3>1. pc[w] = "write" /\ action'[w] = "Continue" /\ pc'[w] = "idle"
      BY <1>2, <2>13 DEF WriteRecord, Return, Typed, TypeOK
    <3>2. WorkerDated(w)'
      BY <3>1 DEF WorkerDated, Inside
    <3>3. lastSent' = lastSent /\ \A h \in Hashes : SentBy(h, now)'
      BY <1>2, <1>4, <3>1, StepsApart
    <3>4. WorkerDated(w)
      BY <1>1
    <3>5. ASSUME NEW h \in Hashes, NEW u \in Rows', rows'[u].hash = h
          PROVE  rows'[u].date = Absent \/ SentBy(h, rows'[u].date)
      <4>1. CASE uid[w] # Absent
        <5>1. uid[w] \in Rows /\ rows[uid[w]].hash = doc[w].hash
          BY <4>1 DEF RowInv, FoundIsThere
        <5>2. PICK x \in Rows : x = uid[w]
          BY <5>1
        <5>3. /\ Rows' = Rows
              /\ \A v \in Rows : v # x => rows'[v] = rows[v]
              /\ rows'[x].hash = IF doc[w].hash = Absent THEN rows[x].hash ELSE doc[w].hash
              /\ rows'[x].date = IF action[w] # "AbortUpdate" THEN now
                                 ELSE IF doc[w].date = Absent THEN rows[x].date
                                 ELSE doc[w].date
          BY <1>2, <2>13, <4>1, <5>2, WriteRows
        <5>4. CASE u = x /\ action[w] = "AbortUpdate"
          <6>1. doc[w].hash = h
            BY <3>5, <5>1, <5>2, <5>3, <5>4
          <6>2. doc[w].date # Absent /\ SentBy(h, doc[w].date)
            BY <3>4, <5>4, <6>1, AbsentIsNothing DEF WorkerDated
          <6>. QED
            BY <5>3, <5>4, <6>2
        <5>5. CASE u = x /\ action[w] # "AbortUpdate"
          BY <1>1, <5>3, <5>5
        <5>6. CASE u # x
          <6>1. u \in Rows /\ rows'[u] = rows[u] /\ u \in WithHash(h)
            BY <3>5, <5>3, <5>6 DEF WithHash
          <6>2. doc[w].hash # h
            BY <3>5, <5>1, <5>2, <5>6, <6>1, AbsentAssumption DEF RowInv, UniqueRows, WithHash
          <6>. QED
            BY <1>1, <2>1, <6>1, <6>2 DEF RowDated
        <5>. QED
          BY <5>4, <5>5, <5>6
      <4>2. CASE uid[w] = Absent
        <5>1. PICK x \in Uids \ used :
                   /\ Rows' = Rows \cup {x} /\ x \notin Rows
                   /\ \A v \in Rows : rows'[v] = rows[v]
                   /\ rows'[x].hash = doc[w].hash
                   /\ rows'[x].date = IF action[w] # "AbortUpdate" THEN now ELSE doc[w].date
          BY <1>2, <2>13, <4>2, AbsentIsNothing, WriteRows
        <5>2. action[w] # "AbortUpdate"
          BY <1>2, <4>2 DEF VerdictShape
        <5>3. CASE u = x
          BY <1>1, <5>1, <5>2, <5>3
        <5>4. CASE u # x
          <6>1. u \in Rows /\ rows'[u] = rows[u] /\ u \in WithHash(h)
            BY <3>5, <5>1, <5>4 DEF WithHash
          <6>2. doc[w].hash # h
            BY <3>1, <4>2, <6>1, AbsentAssumption DEF RowInv, MissedIsMissing
          <6>. QED
            BY <1>1, <2>1, <6>1, <6>2 DEF RowDated
        <5>. QED
          BY <5>3, <5>4
      <4>. QED
        BY <4>1, <4>2
    <3>6. RowDated'
      BY <3>3, <3>5 DEF RowDated, SentBy, WithHash
    <3>. QED
      BY <2>1, <3>2, <3>3, <3>6
  <2>. QED
    BY <1>10, <2>2, <2>4, <2>5, <2>6, <2>7, <2>8, <2>9, <2>10, <2>11, <2>12, <2>13
    DEF WorkerSteps
<1>. QED
  BY <1>9, <1>10, StepKinds

(* An escalation is notified only after the throttle period since the last *)
(* notification of its hash, and never under a negative period, when       *)
(* alerts are processed one at a time, no record expires and no call       *)
(* failed.                                                                 *)
THEOREM SerialThrottleHonoured ==
  ASSUME OneWorker, ~Cleaning
  PROVE  Spec => ThrottleHonoured
<1> DEFINE Inv == RowInv /\ ThrottleInv
           A == \A w \in Workers :
                  pc[w] = "notify" /\ cause[w] = "escalate" /\ lastSent' # lastSent /\ faults = 0
                    => LET last == lastSent[doc[w].hash] IN
                       last = Absent \/ (ThrottleOf(doc[w]) >= 0 /\ now - last >= ThrottleOf(doc[w]))
<1>1. Init => Inv
  <2> SUFFICES ASSUME Init PROVE Inv
    OBVIOUS
  <2>1. RowInv /\ Rows = {}
    BY RowInit DEF Init, StoreInit, Rows
  <2>2. ThrottleInv
    BY <2>1 DEF Init, ThrottleInv, RowDated, WithHash, WorkerDated, SentBy
  <2>. QED
    BY <2>1, <2>2
<1>2. Inv /\ [Next]_vars => Inv'
  BY RowStep, ThrottleStep
<1>3. Inv /\ [Next]_vars => [A]_vars
  BY DEF ThrottleInv, WorkerDated, Inside
<1> HIDE DEF Inv, A
<1>4. Spec => [][A]_vars
  BY <1>1, <1>2, <1>3, PTL DEF Spec
<1>. QED
  BY <1>4 DEF A, ThrottleHonoured
=============================================================================

---------------------------- MODULE RecordStore ----------------------------
(***************************************************************************)
(* The `record' collection behind the db.Driver interface, as the SQLite   *)
(* driver (internal/db/sqlite) implements it.  Every operation is one      *)
(* transaction, so each is one state change of `rows'.                     *)
(*                                                                         *)
(* A document is a record whose fields hold Absent when the JSON object    *)
(* has no such key.  recordToDoc elides an empty state and a zero TTL, so  *)
(* "no state yet" and "no ttl" are Absent too.                             *)
(***************************************************************************)
EXTENDS Integers, FiniteSets

CONSTANTS
  Hashes,     \* aggregate identities
  Sevs,       \* severities
  Uids,       \* row identifiers the driver can draw
  Absent      \* no such key, no such row


VARIABLES
  rows,       \* uid -> document, or Absent
  seq         \* uid -> the column seq of its last row, 0 for a uid not drawn

storeVars == <<rows, seq>>

\* uuid.NewString never repeats.
used == {u \in Uids : seq[u] > 0}

States == {"open", "ack", "esc", "close"}

Opt(S) == S \cup {Absent}

Documents ==
  [hash : Opt(Hashes), sev : Opt(Sevs), state : Opt(States), dup : Opt(Nat),
   date : Opt(Int), count : Opt(Nat), flap : Opt(Int), ttl : Opt(Int),
   snoozed : Opt({TRUE}), response : Opt({TRUE})]

Fields == {"hash", "sev", "state", "dup", "date", "count", "flap", "ttl",
           "snoozed", "response"}

ASSUME AbsentAssumption == Absent \notin Hashes \cup Sevs \cup Uids \cup Int \cup Documents

Empty == [f \in Fields |-> Absent]

StoreTypeOK ==
  /\ rows \in [Uids -> Opt(Documents)]
  /\ seq \in [Uids -> Nat]
  /\ \A u \in Uids : rows[u] # Absent => u \in used

StoreInit == rows = [u \in Uids |-> Absent] /\ seq = [u \in Uids |-> 0]

Rows == {u \in Uids : rows[u] # Absent}

\* toInt64(v, default)
Num(v, default) == IF v = Absent THEN default ELSE v

-----------------------------------------------------------------------------
(* Reading.                                                                *)

WithHash(h) == {u \in Rows : rows[u].hash = h}

\* GetOne({hash}) returns the row inserted last: Search orders by seq,
\* descending unless asked otherwise, and takes one.
GetOne(h) == {u \in WithHash(h) : \A v \in WithHash(h) : seq[v] <= seq[u]}

-----------------------------------------------------------------------------
(* Writing.                                                                *)

\* updateRow: a shallow merge, which can replace a key and never remove one.
Merge(old, patch) ==
  [f \in Fields |-> IF patch[f] = Absent THEN old[f] ELSE patch[f]]

\* The date_epoch stamp of WriteOptions.UpdateTime.
Stamped(doc, updateTime, t) == IF updateTime THEN [doc EXCEPT !.date = t] ELSE doc

\* Mutant of Insert: the uid of the new row may be drawn again.
InsertReusingUid(doc) ==
  \E u \in Uids \ used :
     /\ rows' = [rows EXCEPT ![u] = Merge(Empty, doc)]
     /\ UNCHANGED seq

\* COALESCE(MAX(seq), 0), the one member of this set.
MaxSeq == {n \in {seq[u] : u \in Rows} \cup {0} : \A u \in Rows : seq[u] <= n}

\* insertRow under a fresh uid.
Insert(doc) ==
  \E u \in Uids \ used, n \in MaxSeq :
     /\ rows' = [rows EXCEPT ![u] = Merge(Empty, doc)]
     /\ seq' = [seq EXCEPT ![u] = n + 1]

\* Mutant of Write: the uid in the document is ignored.
WriteIgnoringUid(u, doc, updateTime, t) == Insert(Stamped(doc, updateTime, t))

\* Mutant of Write: a document that matches no row is dropped.
WriteWithoutInsert(u, doc, updateTime, t) ==
  /\ rows' = [v \in Uids |-> IF v = u /\ v \in Rows
                            THEN Merge(rows[v], Stamped(doc, updateTime, t)) ELSE rows[v]]
  /\ UNCHANGED seq

\* Write of one document with Primary = {uid}: a document that carries a uid
\* is merged onto that row, and rejected, without an error, when the row is
\* gone; a document without one is inserted.
Write(u, doc, updateTime, t) ==
  \/ /\ u # Absent
     /\ u \in Rows
     /\ rows' = [rows EXCEPT ![u] = Merge(@, Stamped(doc, updateTime, t))]
     /\ UNCHANGED seq
  \/ /\ u # Absent
     /\ u \notin Rows
     /\ UNCHANGED storeVars
  \/ /\ u = Absent
     /\ Insert(Stamped(doc, updateTime, t))

\* UpdateOne: merge onto the row with this uid, or insert it (upsert).
UpdateOne(u, patch, updateTime, t) ==
  /\ rows' = [rows EXCEPT ![u] =
                Merge(IF @ = Absent THEN Empty ELSE @, Stamped(patch, updateTime, t))]
  /\ \E n \in MaxSeq : seq' = IF u \in Rows THEN seq ELSE [seq EXCEPT ![u] = n + 1]

\* UnsetFields(["snoozed"], uid = u).
UnsetSnoozed(u) ==
  /\ rows' = [rows EXCEPT ![u] = IF @ = Absent THEN @ ELSE [@ EXCEPT !.snoozed = Absent]]
  /\ UNCHANGED seq

\* SetFields({response_<action>}, hash = h): every row with that hash.
SetResponse(h) ==
  /\ rows' = [u \in Uids |-> IF u \in WithHash(h)
                             THEN [rows[u] EXCEPT !.response = TRUE]
                             ELSE rows[u]]
  /\ UNCHANGED seq

\* BulkIncrement of `duplicates' by one, with upsert: a row with the hash
\* (LIMIT 1 without an order), or a new row made of the search document and the delta.
IncrementDuplicates(h) ==
  \/ /\ \E u \in WithHash(h) :
           rows' = [rows EXCEPT ![u].dup = Num(@, 0) + 1]
     /\ UNCHANGED seq
  \/ /\ WithHash(h) = {}
     /\ Insert([Empty EXCEPT !.hash = h, !.dup = 1])

\* CleanupTimeout: one DELETE of the rows whose date_epoch + ttl has passed;
\* rows without a ttl, without a date or with a negative ttl stay.
Expired(doc, t) ==
  /\ doc.ttl # Absent /\ doc.date # Absent
  /\ doc.ttl >= 0
  /\ doc.date + doc.ttl <= t

CleanupTimeout(t) ==
  /\ rows' = [u \in Uids |-> IF u \in Rows /\ Expired(rows[u], t) THEN Absent ELSE rows[u]]
  /\ UNCHANGED seq
=============================================================================

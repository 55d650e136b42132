------------------------- MODULE AsyncWriterProofs -------------------------
(***************************************************************************)
(* Proofs about AsyncWriter, for every set of producers, collections,      *)
(* tenants and search documents, every channel capacity, period and number *)
(* of tries, and every bound.                                              *)
(***************************************************************************)
EXTENDS AsyncWriter, TLAPS

-----------------------------------------------------------------------------
(* The deltas are functions from counters to numbers.                      *)

(* Zero, Unit and Plus stay within [Counters -> Nat].                      *)
LEMMA DeltaTypes ==
  /\ Zero \in [Counters -> Nat]
  /\ \A c \in Counters : Unit(c) \in [Counters -> Nat]
  /\ \A f, g \in [Counters -> Nat] : Plus(f, g) \in [Counters -> Nat]
BY DEF Zero, Unit, Plus

(* Reading a sum, a unit and the zero delta at a counter.                  *)
LEMMA DeltaValues ==
  /\ \A c \in Counters : Zero[c] = 0
  /\ \A c, d \in Counters : Unit(c)[d] = IF d = c THEN 1 ELSE 0
  /\ \A f, g \in [Counters -> Nat], c \in Counters : Plus(f, g)[c] = f[c] + g[c]
BY DEF Zero, Unit, Plus

(* Two deltas that agree on every counter are equal.                       *)
LEMMA DeltaExt ==
  ASSUME NEW f \in [Counters -> Nat], NEW g \in [Counters -> Nat],
         \A c \in Counters : f[c] = g[c]
  PROVE  f = g
OBVIOUS

-----------------------------------------------------------------------------
(* Type correctness.                                                       *)

(* Every operation of the writer, of its supervisor and of the producers   *)
(* keeps the state well typed: no counter of the channel goes below zero   *)
(* and the timer of the select never runs past its period.                 *)
LEMMA TypeStep == TypeOK /\ [Next]_vars => TypeOK'
<1> SUFFICES ASSUME TypeOK, [Next]_vars PROVE TypeOK'
  OBVIOUS
<1> USE DEF TypeOK, Loops, chanVars, jobVars
<1>1. ASSUME NEW p \in Producers, NEW c \in Counters, CallIncrement(p, c)
      PROVE  TypeOK'
  BY <1>1 DEF CallIncrement
<1>2. ASSUME NEW p \in Producers, SendRequest(p) PROVE TypeOK'
  <2>1. calling[p] \in Counters
    BY <1>2 DEF SendRequest
  <2>2. /\ requests' \in [Counters -> Nat]
        /\ sent' \in [Counters -> Nat]
        /\ early' \in [Counters -> Nat]
    BY <1>2, <2>1, DeltaTypes DEF SendRequest
  <2>. QED
    BY <1>2, <2>2 DEF SendRequest
<1>3. ASSUME NEW p \in Producers, ReturnClosing(p) PROVE TypeOK'
  BY <1>3 DEF ReturnClosing
<1>4. ASSUME NEW c \in Counters, Accept(c) PROVE TypeOK'
  BY <1>4, PeriodAssumption DEF Accept
<1>5. ASSUME NEW coll \in Colls, NEW tenant \in Tenants, FlushPartition(coll, tenant)
      PROVE  TypeOK'
  BY <1>5 DEF FlushPartition, BulkIncrement
<1>6. ASSUME NEW coll \in Colls, NEW tenant \in Tenants, FlushFails(coll, tenant)
      PROVE  TypeOK'
  <2>1. lost' \in [Counters -> Nat] /\ batch' \in [Counters -> Nat]
    BY <1>6, DeltaTypes DEF FlushFails
  <2>2. SuperviseFailure
    BY <1>6 DEF FlushFails
  <2>3. failures' \in Nat /\ loop' \in Loops
    BY <2>2 DEF SuperviseFailure
  <2>4. ctxDone' \in BOOLEAN
    <3>1. ctxDone \in BOOLEAN
      OBVIOUS
    <3>. HIDE DEF TypeOK
    <3>. QED
      BY <2>2, <3>1, Zenon DEF SuperviseFailure
  <2>. QED
    BY <1>6, <2>1, <2>3, <2>4 DEF FlushFails
<1>7. CASE Tick
  BY <1>7, PeriodAssumption, BoundsAssumption DEF Tick
<1>8. CASE TimerFlush
  BY <1>8, DeltaTypes, PeriodAssumption DEF TimerFlush, SwapBuckets
<1>9. CASE BeginShutdown
  BY <1>9, PeriodAssumption DEF BeginShutdown
<1>10. CASE FinalFlush
  BY <1>10, DeltaTypes DEF FinalFlush, SwapBuckets
<1>11. CASE FlushDone
  BY <1>11 DEF FlushDone
<1>12. CASE EndBackoff
  BY <1>12, PeriodAssumption DEF EndBackoff
<1>13. CASE WindowExpires
  BY <1>13 DEF WindowExpires
<1>14. CASE Shutdown
  BY <1>14 DEF Shutdown
<1>15. CASE UNCHANGED vars
  BY <1>15 DEF vars
<1>. QED
  BY <1>1, <1>2, <1>3, <1>4, <1>5, <1>6, <1>7, <1>8, <1>9, <1>10, <1>11, <1>12,
     <1>13, <1>14, <1>15 DEF Next

(* Type correctness of the writer, in every reachable state.               *)
THEOREM TypeCorrect == Spec => []TypeOK
<1>1. ASSUME Init PROVE TypeOK
  <2>1. closing \in BOOLEAN /\ ctxDone \in BOOLEAN
    BY <1>1, Zenon DEF Init
  <2>2. Zero \in [Counters -> Nat] /\ 0 \in 0 .. Period
    BY DeltaTypes, PeriodAssumption
  <2>3. calling \in [Producers -> Counters \cup {Idle}]
    BY <1>1 DEF Init
  <2>. QED
    BY <1>1, <2>1, <2>2, <2>3 DEF Init, TypeOK, Loops
<1>. QED
  BY <1>1, TypeStep, PTL DEF Spec

-----------------------------------------------------------------------------
(* Conservation: no increment is lost silently or applied twice.           *)

(* Only a flush swaps the buckets into the batch, and it leaves the flush  *)
(* with an empty batch or fails.                                           *)
LEMMA BatchStep == BatchEmpty /\ [Next]_vars => BatchEmpty'
<1> SUFFICES ASSUME BatchEmpty, [Next]_vars, loop' \notin {"flush", "final"}
             PROVE  batch' = Zero
  BY DEF BatchEmpty
<1> USE DEF chanVars, jobVars
<1>1. ASSUME NEW p \in Producers,
             \/ \E c \in Counters : CallIncrement(p, c)
             \/ SendRequest(p)
             \/ ReturnClosing(p)
      PROVE  batch' = Zero
  BY <1>1 DEF CallIncrement, SendRequest, ReturnClosing, BatchEmpty
<1>2. ASSUME NEW c \in Counters, Accept(c) PROVE batch' = Zero
  BY <1>2 DEF Accept, BatchEmpty
<1>3. ASSUME NEW coll \in Colls, NEW tenant \in Tenants,
             FlushPartition(coll, tenant) \/ FlushFails(coll, tenant)
      PROVE  batch' = Zero
  BY <1>3 DEF FlushPartition, FlushFails
<1>4. CASE Tick \/ BeginShutdown \/ FlushDone \/ EndBackoff
  BY <1>4 DEF Tick, BeginShutdown, FlushDone, EndBackoff, BatchEmpty
<1>5. CASE WindowExpires \/ Shutdown \/ UNCHANGED vars
  BY <1>5 DEF WindowExpires, Shutdown, vars, BatchEmpty
<1>6. CASE TimerFlush \/ FinalFlush
  BY <1>6 DEF TimerFlush, FinalFlush
<1>. QED
  BY <1>1, <1>2, <1>3, <1>4, <1>5, <1>6 DEF Next

(* One step moves each unit from one place to the next: a send puts it in  *)
(* the channel, accept moves it to a bucket, the swap to the batch, a      *)
(* BulkIncrement to the store, a failing one to lost.                      *)
LEMMA ConservationStep ==
  TypeOK /\ BatchEmpty /\ Conservation /\ [Next]_vars => Conservation'
<1> SUFFICES ASSUME TypeOK, BatchEmpty, Conservation, [Next]_vars, NEW k \in Counters
             PROVE  sent'[k] = requests'[k] + buckets'[k] + batch'[k] + db'[k] + lost'[k]
  BY DEF Conservation
<1>0. /\ sent[k] = requests[k] + buckets[k] + batch[k] + db[k] + lost[k]
      /\ requests \in [Counters -> Nat] /\ buckets \in [Counters -> Nat]
      /\ batch \in [Counters -> Nat] /\ db \in [Counters -> Nat]
      /\ lost \in [Counters -> Nat] /\ sent \in [Counters -> Nat]
  BY DEF TypeOK, Conservation
<1> USE DEF chanVars, jobVars
<1>1. ASSUME NEW p \in Producers, SendRequest(p)
      PROVE  sent'[k] = requests'[k] + buckets'[k] + batch'[k] + db'[k] + lost'[k]
  <2>1. calling[p] \in Counters
    BY <1>1 DEF SendRequest, TypeOK
  <2>2. PICK one \in [Counters -> Nat] :
          sent' = Plus(sent, one) /\ requests' = Plus(requests, one)
    BY <1>1, <2>1, DeltaTypes DEF SendRequest
  <2>3. /\ sent'[k] = sent[k] + one[k]
        /\ requests'[k] = requests[k] + one[k]
    BY <1>0, <2>2, DeltaValues
  <2>4. UNCHANGED <<buckets, batch, db, lost>>
    BY <1>1 DEF SendRequest
  <2>. QED
    BY <1>0, <2>3, <2>4
<1>2. ASSUME NEW c \in Counters, Accept(c)
      PROVE  sent'[k] = requests'[k] + buckets'[k] + batch'[k] + db'[k] + lost'[k]
  BY <1>0, <1>2 DEF Accept
<1>3. ASSUME NEW coll \in Colls, NEW tenant \in Tenants, FlushPartition(coll, tenant)
      PROVE  sent'[k] = requests'[k] + buckets'[k] + batch'[k] + db'[k] + lost'[k]
  <2>1. /\ db'[k] = IF k \in OpsOf(coll, tenant) /\ k[2] = tenant
                    THEN db[k] + batch[k] ELSE db[k]
        /\ batch'[k] = IF k \in OpsOf(coll, tenant) THEN 0 ELSE batch[k]
        /\ UNCHANGED <<requests, buckets, lost, sent>>
    BY <1>3 DEF FlushPartition, BulkIncrement
  <2>2. k \in OpsOf(coll, tenant) => k[2] = tenant
    BY DEF OpsOf
  <2>. QED
    BY <1>0, <2>1, <2>2
<1>4. ASSUME NEW coll \in Colls, NEW tenant \in Tenants, FlushFails(coll, tenant)
      PROVE  sent'[k] = requests'[k] + buckets'[k] + batch'[k] + db'[k] + lost'[k]
  <2>1. /\ lost'[k] = lost[k] + batch[k]
        /\ batch'[k] = 0
        /\ UNCHANGED <<requests, buckets, db, sent>>
    BY <1>0, <1>4, DeltaValues DEF FlushFails
  <2>. QED
    BY <1>0, <2>1
<1>5. CASE TimerFlush \/ FinalFlush
  <2>1. /\ batch' = buckets
        /\ buckets' = Zero
        /\ UNCHANGED <<requests, db, lost, sent>>
    BY <1>5 DEF TimerFlush, FinalFlush, SwapBuckets
  <2>2. batch[k] = 0
    BY <1>5, DeltaValues DEF TimerFlush, FinalFlush, BatchEmpty
  <2>. QED
    BY <1>0, <2>1, <2>2, DeltaValues
<1>6. ASSUME NEW p \in Producers,
             ReturnClosing(p) \/ \E c \in Counters : CallIncrement(p, c)
      PROVE  sent'[k] = requests'[k] + buckets'[k] + batch'[k] + db'[k] + lost'[k]
  BY <1>0, <1>6 DEF ReturnClosing, CallIncrement
<1>7. CASE Tick \/ BeginShutdown \/ FlushDone \/ EndBackoff
  BY <1>0, <1>7 DEF Tick, BeginShutdown, FlushDone, EndBackoff
<1>8. CASE WindowExpires \/ Shutdown \/ UNCHANGED vars
  BY <1>0, <1>8 DEF WindowExpires, Shutdown, vars
<1>. QED
  BY <1>1, <1>2, <1>3, <1>4, <1>5, <1>6, <1>7, <1>8 DEF Next

(* Every increment the channel took is queued, merged, being sent, stored  *)
(* or accounted lost with a failed flush: none is applied twice and none   *)
(* disappears, for any number of producers, faults and restarts.           *)
THEOREM ConservationHolds == Spec => []Conservation
<1>1. Init => BatchEmpty
  BY DEF Init, BatchEmpty
<1>2. ASSUME Init PROVE Conservation
  BY <1>2, DeltaValues DEF Init, Conservation
<1>. QED
  BY <1>1, <1>2, BatchStep, ConservationStep, TypeStep, TypeCorrect, PTL DEF Spec

-----------------------------------------------------------------------------
(* Graceful shutdown.                                                      *)

(* The shutdown invariant is kept by every step: closing is closed before  *)
(* the drain, what is counted early is in the channel by then, and the     *)
(* final flush starts with an empty channel.                               *)
LEMMA ShutdownStep ==
  TypeOK /\ BatchEmpty /\ Conservation /\ ShutdownInv /\ [Next]_vars => ShutdownInv'
<1> SUFFICES ASSUME TypeOK, BatchEmpty, Conservation, ShutdownInv, [Next]_vars
             PROVE  ShutdownInv'
  OBVIOUS
<1>0. /\ requests \in [Counters -> Nat] /\ buckets \in [Counters -> Nat]
      /\ batch \in [Counters -> Nat] /\ db \in [Counters -> Nat]
      /\ lost \in [Counters -> Nat] /\ sent \in [Counters -> Nat]
      /\ early \in [Counters -> Nat] /\ faults \in Nat
  BY DEF TypeOK
<1> USE DEF chanVars, jobVars
<1>1. ASSUME NEW p \in Producers, SendRequest(p) PROVE ShutdownInv'
  <2>1. calling[p] \in Counters
    BY <1>1 DEF SendRequest, TypeOK
  <2>2. PICK one \in [Counters -> Nat] :
          /\ sent' = Plus(sent, one)
          /\ early' = IF closing THEN early ELSE Plus(early, one)
    BY <1>1, <2>1, DeltaTypes DEF SendRequest
  <2>3. UNCHANGED <<loop, closing, faults, lost, batch, db>>
    BY <1>1 DEF SendRequest
  <2>4. ASSUME NEW c \in Counters PROVE early'[c] <= sent'[c]
    <3>1. /\ Plus(sent, one)[c] = sent[c] + one[c]
          /\ Plus(early, one)[c] = early[c] + one[c]
      BY <1>0, <2>2, DeltaValues
    <3>. QED
      BY <1>0, <2>2, <3>1 DEF ShutdownInv
  <2>5. loop \in {"final", "stopped"} /\ faults = 0 => early' = early
    BY <2>2 DEF ShutdownInv
  <2>. QED
    BY <2>3, <2>4, <2>5 DEF ShutdownInv
<1>2. ASSUME NEW p \in Producers,
             ReturnClosing(p) \/ \E c \in Counters : CallIncrement(p, c)
      PROVE  ShutdownInv'
  BY <1>2 DEF ReturnClosing, CallIncrement, ShutdownInv
<1>3. ASSUME NEW c \in Counters, Accept(c) PROVE ShutdownInv'
  BY <1>3 DEF Accept, ShutdownInv
<1>4. ASSUME NEW coll \in Colls, NEW tenant \in Tenants, FlushPartition(coll, tenant)
      PROVE  ShutdownInv'
  <2>1. UNCHANGED <<loop, closing, faults, early, sent, lost>>
    BY <1>4 DEF FlushPartition
  <2>2. ASSUME NEW k \in Counters PROVE batch'[k] + db'[k] = batch[k] + db[k]
    <3>1. /\ db'[k] = IF k \in OpsOf(coll, tenant) /\ k[2] = tenant
                      THEN db[k] + batch[k] ELSE db[k]
          /\ batch'[k] = IF k \in OpsOf(coll, tenant) THEN 0 ELSE batch[k]
      BY <1>4 DEF FlushPartition, BulkIncrement
    <3>2. k \in OpsOf(coll, tenant) => k[2] = tenant
      BY DEF OpsOf
    <3>. QED
      BY <1>0, <3>1, <3>2
  <2>. QED
    BY <2>1, <2>2 DEF ShutdownInv
<1>5. ASSUME NEW coll \in Colls, NEW tenant \in Tenants, FlushFails(coll, tenant)
      PROVE  ShutdownInv'
  <2>1. faults' # 0 /\ faults' > 0 /\ UNCHANGED <<early, sent>>
    BY <1>0, <1>5 DEF FlushFails
  <2>2. loop' \notin {"drain", "final"}
    BY <1>5 DEF FlushFails, SuperviseFailure
  <2>. QED
    BY <2>1, <2>2 DEF ShutdownInv
<1>6. CASE Tick \/ BeginShutdown \/ WindowExpires \/ Shutdown \/ UNCHANGED vars
  BY <1>6 DEF Tick, BeginShutdown, WindowExpires, Shutdown, vars, ShutdownInv
<1>7. CASE TimerFlush
  BY <1>7 DEF TimerFlush, SwapBuckets, ShutdownInv
<1>8. CASE FinalFlush
  <2>1. /\ loop = "drain" /\ loop' = "final" /\ requests = Zero /\ batch = Zero
        /\ batch' = buckets
        /\ UNCHANGED <<closing, faults, early, sent, lost, db>>
    BY <1>8 DEF FinalFlush, SwapBuckets, BatchEmpty
  <2>2. ASSUME faults = 0, NEW c \in Counters PROVE early[c] <= buckets[c] + db[c]
    <3>1. /\ sent[c] = requests[c] + buckets[c] + batch[c] + db[c] + lost[c]
          /\ early[c] <= sent[c]
          /\ lost = Zero
      BY <2>2 DEF Conservation, ShutdownInv
    <3>2. requests[c] = 0 /\ batch[c] = 0 /\ lost[c] = 0
      BY <2>1, <3>1, DeltaValues
    <3>. QED
      BY <1>0, <3>1, <3>2
  <2>. QED
    BY <2>1, <2>2 DEF ShutdownInv
<1>9. CASE FlushDone
  BY <1>9 DEF FlushDone, ShutdownInv
<1>10. CASE EndBackoff
  BY <1>0, <1>10 DEF EndBackoff, ShutdownInv
<1>. QED
  BY <1>1, <1>2, <1>3, <1>4, <1>5, <1>6, <1>7, <1>8, <1>9, <1>10 DEF Next

(* When Run has returned and no flush ever failed, every increment that    *)
(* was in the channel before the shutdown closed `closing' is stored.      *)
THEOREM GracefulShutdown == Spec => []GracefulShutdownDelivers
<1>1. ASSUME Init PROVE BatchEmpty /\ Conservation /\ ShutdownInv
  BY <1>1, DeltaValues DEF Init, BatchEmpty, Conservation, ShutdownInv
<1>2. ASSUME TypeOK, BatchEmpty, ShutdownInv PROVE GracefulShutdownDelivers
  <2>1. batch \in [Counters -> Nat] /\ db \in [Counters -> Nat] /\ early \in [Counters -> Nat]
    BY <1>2 DEF TypeOK
  <2>2. SUFFICES ASSUME loop = "stopped", faults = 0, NEW c \in Counters
                 PROVE  db[c] >= early[c]
    BY DEF GracefulShutdownDelivers
  <2>3. batch[c] = 0 /\ early[c] <= batch[c] + db[c]
    BY <1>2, <2>2, DeltaValues DEF BatchEmpty, ShutdownInv
  <2>. QED
    BY <2>1, <2>3
<1>. QED
  BY <1>1, <1>2, BatchStep, ConservationStep, ShutdownStep, TypeCorrect, PTL DEF Spec

-----------------------------------------------------------------------------
(* Refinement of the ledger.                                               *)

(* Every step of the writer is a step of the ledger or leaves it alone.    *)
LEMMA LedgerStep ==
  TypeOK /\ TypeOK' /\ BatchEmpty /\ [Next]_vars => [Ledger!LedgerNext]_(Ledger!ledger)
<1> DEFINE Owed == Plus(Plus(requests, buckets), batch)
<1> SUFFICES ASSUME TypeOK, TypeOK', BatchEmpty, [Next]_vars
             PROVE  \/ \E c \in Counters : Ledger!Owe(c)
                    \/ Ledger!Apply
                    \/ Ledger!WriteOff
                    \/ Owed' = Owed /\ db' = db /\ lost' = lost
  BY DEF Ledger!LedgerNext, Ledger!ledger
<1>0. /\ requests \in [Counters -> Nat] /\ buckets \in [Counters -> Nat]
      /\ batch \in [Counters -> Nat] /\ db \in [Counters -> Nat]
      /\ lost \in [Counters -> Nat]
      /\ requests' \in [Counters -> Nat] /\ buckets' \in [Counters -> Nat]
      /\ batch' \in [Counters -> Nat] /\ db' \in [Counters -> Nat]
      /\ lost' \in [Counters -> Nat]
  BY DEF TypeOK
<1>a. /\ Owed \in [Counters -> Nat] /\ Owed' \in [Counters -> Nat]
      /\ \A k \in Counters : Owed[k] = requests[k] + buckets[k] + batch[k]
      /\ \A k \in Counters : Owed'[k] = requests'[k] + buckets'[k] + batch'[k]
  BY <1>0 DEF Plus
<1> HIDE DEF Owed
<1> USE DEF chanVars, jobVars
<1>1. ASSUME NEW p \in Producers, SendRequest(p)
      PROVE  \E c \in Counters : Ledger!Owe(c)
  <2>1. calling[p] \in Counters /\ UNCHANGED <<buckets, batch, db, lost>>
    BY <1>1 DEF SendRequest, TypeOK
  <2>2. ASSUME NEW k \in Counters
        PROVE  Owed'[k] = IF k = calling[p] THEN Owed[k] + 1 ELSE Owed[k]
    <3>0. requests' = Plus(requests, Unit(calling[p]))
      BY <1>1 DEF SendRequest
    <3>1. requests'[k] = requests[k] + Unit(calling[p])[k]
      BY <1>0, <2>1, <3>0, DeltaTypes, DeltaValues
    <3>2. Unit(calling[p])[k] = IF k = calling[p] THEN 1 ELSE 0
      BY <2>1, DeltaValues
    <3>. QED
      BY <1>0, <1>a, <2>1, <3>1, <3>2
  <2>3. Owed' = [Owed EXCEPT ![calling[p]] = @ + 1]
    BY <1>a, <2>1, <2>2
  <2>. QED
    BY <2>1, <2>3 DEF Ledger!Owe, Owed
<1>2. ASSUME NEW c \in Counters, Accept(c)
      PROVE  Owed' = Owed /\ db' = db /\ lost' = lost
  <2>1. ASSUME NEW k \in Counters PROVE Owed'[k] = Owed[k]
    BY <1>0, <1>2, <1>a DEF Accept
  <2>. QED
    BY <1>2, <1>a, <2>1, DeltaExt DEF Accept
<1>3. ASSUME NEW coll \in Colls, NEW tenant \in Tenants, FlushPartition(coll, tenant)
      PROVE  Ledger!Apply
  <2>1. ASSUME NEW k \in Counters
        PROVE  /\ db[k] <= db'[k]
               /\ Owed'[k] \in Nat
               /\ db'[k] + Owed'[k] = db[k] + Owed[k]
    <3>1. /\ db'[k] = IF k \in OpsOf(coll, tenant) /\ k[2] = tenant
                      THEN db[k] + batch[k] ELSE db[k]
          /\ batch'[k] = IF k \in OpsOf(coll, tenant) THEN 0 ELSE batch[k]
          /\ UNCHANGED <<requests, buckets>>
      BY <1>3 DEF FlushPartition, BulkIncrement
    <3>2. k \in OpsOf(coll, tenant) => k[2] = tenant
      BY DEF OpsOf
    <3>. QED
      BY <1>0, <1>a, <3>1, <3>2
  <2>2. lost' = lost
    BY <1>3 DEF FlushPartition
  <2>. QED
    BY <2>1, <2>2 DEF Ledger!Apply, Owed
<1>4. ASSUME NEW coll \in Colls, NEW tenant \in Tenants, FlushFails(coll, tenant)
      PROVE  Ledger!WriteOff
  <2>1. ASSUME NEW k \in Counters
        PROVE  /\ lost[k] <= lost'[k]
               /\ Owed'[k] \in Nat
               /\ lost'[k] + Owed'[k] = lost[k] + Owed[k]
    <3>1. /\ lost'[k] = lost[k] + batch[k]
          /\ batch'[k] = 0
          /\ UNCHANGED <<requests, buckets>>
      BY <1>0, <1>4, DeltaValues DEF FlushFails
    <3>. QED
      BY <1>0, <1>a, <3>1
  <2>2. db' = db
    BY <1>4 DEF FlushFails
  <2>. QED
    BY <2>1, <2>2 DEF Ledger!WriteOff, Owed
<1>5. CASE TimerFlush \/ FinalFlush
  <2>1. /\ batch = Zero /\ batch' = buckets /\ buckets' = Zero
        /\ UNCHANGED <<requests, db, lost>>
    BY <1>5 DEF TimerFlush, FinalFlush, SwapBuckets, BatchEmpty
  <2>2. ASSUME NEW k \in Counters PROVE Owed'[k] = Owed[k]
    BY <1>0, <1>a, <2>1, DeltaValues
  <2>3. Owed' = Owed
    BY <1>a, <2>2, DeltaExt
  <2>. QED
    BY <2>1, <2>3
<1>6. ASSUME UNCHANGED <<requests, buckets, batch, db, lost>>
      PROVE  Owed' = Owed /\ db' = db /\ lost' = lost
  BY <1>6 DEF Owed
<1>7. ASSUME NEW p \in Producers,
             ReturnClosing(p) \/ \E c \in Counters : CallIncrement(p, c)
      PROVE  UNCHANGED <<requests, buckets, batch, db, lost>>
  BY <1>7 DEF ReturnClosing, CallIncrement
<1>8. CASE Tick \/ BeginShutdown \/ FlushDone \/ EndBackoff \/ WindowExpires
           \/ Shutdown \/ UNCHANGED vars
  BY <1>6, <1>8 DEF Tick, BeginShutdown, FlushDone, EndBackoff, WindowExpires,
                    Shutdown, vars
<1>. QED
  BY <1>1, <1>2, <1>3, <1>4, <1>5, <1>6, <1>7, <1>8 DEF Next

(* The writer implements the ledger: each increment the channel takes is   *)
(* owed until it is stored or given up, and settled at most once.          *)
THEOREM Implementation == Spec => ImplementsLedger
<1>1. ASSUME Init PROVE Ledger!LedgerInit /\ BatchEmpty
  <2>1. Plus(Plus(requests, buckets), batch) = [c \in Counters |-> 0]
    BY <1>1 DEF Init, Zero, Plus
  <2>. QED
    BY <1>1, <2>1 DEF Init, Zero, BatchEmpty, Ledger!LedgerInit
<1>. QED
  BY <1>1, BatchStep, LedgerStep, TypeCorrect, PTL DEF Spec, ImplementsLedger, Ledger!LedgerSpec
=============================================================================

--------------------------- MODULE DeliveryProofs ---------------------------
(***************************************************************************)
(* What the ways out of the pipeline promise.  The notification queue      *)
(* keeps its promise for any number of consumers and messages, any batch   *)
(* size and any visibility timeout.  The batching notifiers lose no record *)
(* and deliver none twice, and their buckets stay bounded, for any number  *)
(* of senders, any batch size and any set of targets.  An incident follows *)
(* its record and no other, for any set of records and any interleaving of *)
(* their notifications.                                                    *)
(***************************************************************************)
EXTENDS MCDelivery, SequenceTheorems, FiniteSetTheorems, NaturalsInduction,
        WellFoundedInduction, TLAPS

-----------------------------------------------------------------------------
(* THE QUEUE                                                               *)

InChan(m) == \E i \in DOMAIN chan : chan[i] = m

\* A consumer has a batch exactly while it works on one, and acknowledges what
\* its handler accepted.
BatchShape ==
    \A c \in Consumers :
        /\ batch[c] = <<>> <=> pc[c] \in {"claim", "exited"}
        /\ pc[c] = "ack" => kind # "inproc" /\ Head(batch[c]) \in done

HeldExists == \A c \in Consumers : \A m \in Messages : Holds(c, m) => m \in DOMAIN rows

\* A claim that has not outlived the timeout is as old as the lock it took.
LockHeld ==
    kind # "inproc" =>
        \A c \in Consumers : \A m \in DOMAIN rows :
            Holds(c, m) /\ held[c] # Expired => rows[m].lock = held[c] /\ held[c] # Free

\* The channel: a message is in at most one place, and has been sent.
Sent(m) == m \in DOMAIN rows /\ rows[m].state = "queued"

Placed ==
    kind = "inproc" =>
        /\ \A i, j \in DOMAIN chan : chan[i] = chan[j] => i = j
        /\ \A c \in Consumers : \A i, j \in DOMAIN batch[c] : batch[c][i] = batch[c][j] => i = j
        /\ \A c, d \in Consumers : \A m \in Messages : Holds(c, m) /\ Holds(d, m) => c = d
        /\ \A m \in Messages :
              /\ InChan(m) => Sent(m) /\ m \notin done /\ \A c \in Consumers : ~Holds(c, m)
              /\ \A c \in Consumers : Holds(c, m) => Sent(m) /\ m \notin done
              /\ m \in done => Sent(m)

QueueInv == /\ TypeOK /\ BatchShape /\ HeldExists /\ LockHeld /\ Placed
            /\ AckedWasHandled /\ OneLiveHolder

-----------------------------------------------------------------------------
(* Batches.                                                                *)

(* The bounds are natural numbers.                                         *)
LEMMA Bounds ==
  /\ BatchSize \in Nat /\ BatchSize > 0 /\ QueueBuffer \in Nat
  /\ MaxMessages \in Nat /\ Visibility \in Nat /\ MaxFaults \in Nat
  /\ Expired \in Nat /\ Expired > 1 /\ Free \in 0..Expired /\ 1 \in 0..Expired
BY QueueAssumption DEF Expired, Free

(* What a consumer holds is a message.                                     *)
LEMMA HoldsMessage ==
  ASSUME TypeOK
  PROVE  /\ \A c \in Consumers : \A m : Holds(c, m) => m \in Messages
         /\ DOMAIN rows = 1..Len(rows) /\ DOMAIN rows \subseteq Messages
         /\ \A m \in DOMAIN rows : rows[m] \in Row
         /\ Len(rows) \in Nat
BY Bounds DEF TypeOK, Holds, Messages

(* A sequence without its head.                                            *)
LEMMA TailHolds ==
  ASSUME NEW S, NEW q \in Seq(S), q # <<>>
  PROVE  /\ Tail(q) \in Seq(S) /\ Head(q) \in S
         /\ Head(q) = q[1] /\ 1 \in DOMAIN q
         /\ Tail(q) = <<>> <=> Len(q) = 1
         /\ \A i \in DOMAIN Tail(q) : i + 1 \in DOMAIN q /\ Tail(q)[i] = q[i + 1]
<1>1. /\ Len(q) \in Nat \ {0} /\ DOMAIN q = 1..Len(q)
      /\ Tail(q) \in Seq(S) /\ Len(Tail(q)) = Len(q) - 1
  BY EmptySeq, LenProperties, HeadTailProperties
<1>2. Tail(q) = <<>> <=> Len(Tail(q)) = 0
  BY <1>1, EmptySeq
<1>3. DOMAIN Tail(q) = 1..(Len(q) - 1)
  BY <1>1, LenProperties
<1>4. \A i \in 1..(Len(q) - 1) : Tail(q)[i] = q[i + 1]
  BY <1>1, HeadTailProperties
<1>. QED
  BY <1>1, <1>2, <1>3, <1>4, HeadTailProperties

(* The consumer goes on to the rest of its batch.                          *)
LEMMA AdvanceEffect ==
  ASSUME TypeOK, NEW c \in Consumers, batch[c] # <<>>, Advance(c)
  PROVE  /\ batch' \in [Consumers -> Seq(Messages)]
         /\ held' \in [Consumers -> 0..Expired]
         /\ pc' \in [Consumers -> {"claim", "drain", "handle", "ack", "exited"}]
         /\ batch'[c] = Tail(batch[c]) /\ pc'[c] \in {"claim", "handle"}
         /\ batch'[c] = <<>> <=> pc'[c] = "claim"
         /\ \A d \in Consumers \ {c} :
               batch'[d] = batch[d] /\ held'[d] = held[d] /\ pc'[d] = pc[d]
         /\ \A d \in Consumers : \A m : Holds(d, m)' => Holds(d, m) /\ held'[d] = held[d]
<1>1. /\ batch \in [Consumers -> Seq(Messages)] /\ batch[c] \in Seq(Messages)
      /\ held \in [Consumers -> 0..Expired] /\ 0 \in 0..Expired
      /\ pc \in [Consumers -> {"claim", "drain", "handle", "ack", "exited"}]
  BY Bounds DEF TypeOK
<1> DEFINE last == Len(batch[c]) = 1
<1>2. /\ Tail(batch[c]) \in Seq(Messages)
      /\ Tail(batch[c]) = <<>> <=> last
      /\ \A i \in DOMAIN Tail(batch[c]) :
            i + 1 \in DOMAIN batch[c] /\ Tail(batch[c])[i] = batch[c][i + 1]
  BY <1>1, TailHolds
<1>3. /\ batch' = [batch EXCEPT ![c] = Tail(batch[c])]
      /\ pc' = [pc EXCEPT ![c] = IF last THEN "claim" ELSE "handle"]
      /\ held' = [held EXCEPT ![c] = IF last THEN 0 ELSE held[c]]
  BY <1>1 DEF Advance
<1>4. batch'[c] = Tail(batch[c]) /\ \A d \in Consumers \ {c} : batch'[d] = batch[d]
  BY <1>1, <1>3
<1>5. ASSUME NEW d \in Consumers, NEW m, Holds(d, m)' PROVE Holds(d, m) /\ held'[d] = held[d]
  <2>1. CASE d = c
    <3>1. PICK i \in DOMAIN Tail(batch[c]) : Tail(batch[c])[i] = m
      BY <1>4, <1>5, <2>1 DEF Holds
    <3>2. ~last
      BY <1>2, <3>1
    <3>. QED
      BY <1>1, <1>2, <1>3, <2>1, <3>1, <3>2 DEF Holds
  <2>2. CASE d # c
    BY <1>1, <1>3, <1>4, <1>5, <2>2 DEF Holds
  <2>. QED
    BY <2>1, <2>2
<1> HIDE DEF last
<1>. QED
  BY <1>1, <1>2, <1>3, <1>4, <1>5

-----------------------------------------------------------------------------
(* Steps that take no claim.                                               *)

(* Where the claims held are kept or given up and no lock is touched, a    *)
(* message still has one live holder.                                      *)
LEMMA ClaimsKept ==
  ASSUME QueueInv, TypeOK', kind' = kind,
         \A c \in Consumers : \A m : Holds(c, m)' => Holds(c, m) /\ held'[c] = held[c],
         DOMAIN rows \subseteq DOMAIN rows',
         \A m \in DOMAIN rows : rows'[m].lock = rows[m].lock
  PROVE  HeldExists' /\ LockHeld' /\ OneLiveHolder'
<1>1. \A c \in Consumers : \A m : Holds(c, m)' => Holds(c, m) /\ held'[c] = held[c] /\ m \in DOMAIN rows
  BY HoldsMessage DEF QueueInv, HeldExists
<1>2. HeldExists'
  BY <1>1 DEF HeldExists
<1>3. LockHeld'
  BY <1>1 DEF LockHeld, QueueInv
<1>4. OneLiveHolder'
  BY <1>1 DEF OneLiveHolder, QueueInv
<1>. QED
  BY <1>2, <1>3, <1>4

(* Where channel, batches and handlers' messages stay, so does every       *)
(* message.                                                                *)
LEMMA PlacesKept ==
  ASSUME QueueInv, kind' = kind, UNCHANGED <<chan, batch, done>>,
         kind = "inproc" => \A m \in Messages : Sent(m) => Sent(m)'
  PROVE  Placed'
<1>1. (\A m : InChan(m)' <=> InChan(m)) /\ (\A c \in Consumers : \A m : Holds(c, m)' <=> Holds(c, m))
  BY DEF InChan, Holds
<1>. QED
  BY <1>1 DEF Placed, QueueInv

(* Setting the state of a message.                                         *)
LEMMA StateSet ==
  ASSUME rows \in Seq(Row), NEW m \in DOMAIN rows,
         NEW st \in {"sending", "queued", "refused", "acked"},
         rows' = [rows EXCEPT ![m].state = st]
  PROVE  /\ rows' \in Seq(Row) /\ Len(rows') = Len(rows) /\ DOMAIN rows' = DOMAIN rows
         /\ rows'[m].state = st
         /\ \A k \in DOMAIN rows : rows'[k].lock = rows[k].lock /\ (k # m => rows'[k] = rows[k])
<1> DEFINE r == [rows[m] EXCEPT !.state = st]
<1>1. DOMAIN rows = 1..Len(rows) /\ rows[m] \in Row
  BY LenProperties
<1>2. r \in Row /\ r.state = st /\ r.lock = rows[m].lock
  BY <1>1 DEF Row
<1>3. rows' = [rows EXCEPT ![m] = r]
  OBVIOUS
<1> HIDE DEF r
<1>4. /\ rows' \in Seq(Row) /\ Len(rows') = Len(rows)
      /\ \A j \in 1..Len(rows) : rows'[j] = IF j = m THEN r ELSE rows[j]
  BY <1>1, <1>2, <1>3, ExceptSeq
<1>5. DOMAIN rows' = DOMAIN rows
  BY <1>3
<1>. QED
  BY <1>1, <1>2, <1>4, <1>5

(* A published message is a new one.                                       *)
LEMMA StoreStep ==
  ASSUME QueueInv, NEW state \in {"sending", "queued"}, Store(state)
  PROVE  QueueInv'
<1>1. /\ rows \in Seq(Row) /\ Len(rows) < MaxMessages /\ Len(rows) \in Nat
      /\ rows' = Append(rows, [lock |-> Free, state |-> state])
      /\ UNCHANGED <<kind, chan, batch, held, pc, left, ctx, closed, faults, done>>
  BY DEF Store, local, QueueInv, TypeOK
<1>2. [lock |-> Free, state |-> state] \in Row
  BY Bounds DEF Row
<1>3. /\ rows' \in Seq(Row) /\ Len(rows') = Len(rows) + 1
      /\ DOMAIN rows' = 1..(Len(rows) + 1)
      /\ \A m \in DOMAIN rows : rows'[m] = rows[m]
      /\ rows'[Len(rows) + 1].state = state
  BY <1>1, <1>2
<1>4. TypeOK'
  BY <1>1, <1>3, Bounds DEF TypeOK, QueueInv
<1>5. DOMAIN rows \subseteq DOMAIN rows' /\ \A m \in DOMAIN rows' : m \in DOMAIN rows \/ m = Len(rows) + 1
  BY <1>1, <1>3
<1>6. HeldExists' /\ LockHeld' /\ OneLiveHolder'
  <2>1. \A c \in Consumers : \A m : Holds(c, m)' => Holds(c, m) /\ held'[c] = held[c]
    BY <1>1 DEF Holds
  <2>. QED
    BY <1>1, <1>3, <1>4, <1>5, <2>1, ClaimsKept
<1>7. Placed'
  BY <1>1, <1>3, <1>5, PlacesKept DEF Sent
<1>8. BatchShape'
  BY <1>1 DEF BatchShape, QueueInv
<1>9. AckedWasHandled'
  BY <1>1, <1>3, <1>5 DEF AckedWasHandled, QueueInv
<1>. QED
  BY <1>4, <1>6, <1>7, <1>8, <1>9 DEF QueueInv

(* The send puts a message that nobody has into the channel.               *)
LEMMA SendStep ==
  ASSUME QueueInv, NEW m \in Messages, InprocSend(m)
  PROVE  QueueInv'
<1>1. /\ rows \in Seq(Row) /\ Len(rows) <= MaxMessages /\ Len(rows) \in Nat
      /\ chan \in Seq(Messages) /\ m \in DOMAIN rows /\ rows[m].state = "sending"
      /\ UNCHANGED <<kind, batch, held, pc, left, ctx, closed, faults, done>>
  BY DEF InprocSend, local, QueueInv, TypeOK
<1>2. PICK st \in {"queued", "refused"} :
           /\ rows' = [rows EXCEPT ![m].state = st]
           /\ chan' = IF st = "queued" THEN Append(chan, m) ELSE chan
  BY DEF InprocSend
<1>3. /\ rows' \in Seq(Row) /\ Len(rows') = Len(rows) /\ DOMAIN rows' = DOMAIN rows
      /\ rows'[m].state = st
      /\ \A k \in DOMAIN rows : rows'[k].lock = rows[k].lock /\ (k # m => rows'[k] = rows[k])
  BY <1>1, <1>2, StateSet
<1>4. TypeOK'
  BY <1>1, <1>2, <1>3 DEF TypeOK, QueueInv
<1>5. \A c \in Consumers : \A k : Holds(c, k)' <=> Holds(c, k)
  BY <1>1 DEF Holds
<1>6. HeldExists' /\ LockHeld' /\ OneLiveHolder'
  BY <1>1, <1>3, <1>4, <1>5, ClaimsKept
<1>7. BatchShape'
  BY <1>1 DEF BatchShape, QueueInv
<1>8. AckedWasHandled'
  BY <1>1, <1>3 DEF AckedWasHandled, QueueInv
<1>9. ASSUME kind = "inproc" PROVE Placed'
  <2>1. ~Sent(m) /\ \A k \in Messages : Sent(k) => Sent(k)'
    BY <1>1, <1>3 DEF Sent
  <2>2. ~InChan(m) /\ m \notin done /\ \A c \in Consumers : ~Holds(c, m)
    BY <1>9, <2>1 DEF Placed, QueueInv
  <2>3. CASE st = "refused"
    BY <1>1, <1>2, <2>1, <2>3, PlacesKept
  <2>4. CASE st = "queued"
    <3>1. /\ DOMAIN chan' = 1..(Len(chan) + 1) /\ Len(chan) \in Nat /\ DOMAIN chan = 1..Len(chan)
          /\ \A i \in DOMAIN chan : chan'[i] = chan[i]
          /\ chan'[Len(chan) + 1] = m
      BY <1>1, <1>2, <2>4
    <3>2. \A i, j \in DOMAIN chan' : chan'[i] = chan'[j] => i = j
      BY <1>9, <2>2, <3>1 DEF Placed, QueueInv, InChan
    <3>3. \A k : InChan(k)' => InChan(k) \/ k = m
      BY <3>1 DEF InChan
    <3>4. Sent(m)'
      BY <1>1, <1>3, <2>4 DEF Sent
    <3>. QED
      BY <1>1, <1>5, <1>9, <2>1, <2>2, <3>2, <3>3, <3>4 DEF Placed, QueueInv
  <2>. QED
    BY <2>3, <2>4
<1>. QED
  BY <1>1, <1>4, <1>6, <1>7, <1>8, <1>9 DEF QueueInv, Placed

(* A worker takes the head of the channel.                                 *)
LEMMA ReceiveStep ==
  ASSUME QueueInv, NEW c \in Consumers, InprocReceive(c)
  PROVE  QueueInv'
<1> DEFINE m == Head(chan)
           q == Append(batch[c], m)
<1>1. /\ kind = "inproc" /\ pc[c] \in {"claim", "drain"} /\ chan # <<>>
      /\ chan \in Seq(Messages) /\ batch \in [Consumers -> Seq(Messages)]
      /\ batch[c] \in Seq(Messages)
      /\ chan' = Tail(chan)
      /\ batch' = [batch EXCEPT ![c] = q]
      /\ pc' = [pc EXCEPT ![c] = "drain"]
      /\ UNCHANGED <<kind, rows, held, left, ctx, closed, faults, done>>
  BY DEF InprocReceive, QueueInv, TypeOK
<1>2. /\ Tail(chan) \in Seq(Messages) /\ m \in Messages /\ m = chan[1] /\ 1 \in DOMAIN chan
      /\ \A i \in DOMAIN Tail(chan) : i + 1 \in DOMAIN chan /\ Tail(chan)[i] = chan[i + 1]
  BY <1>1, TailHolds
<1> HIDE DEF m
<1>3. /\ q \in Seq(Messages) /\ q # <<>> /\ Len(batch[c]) \in Nat
      /\ DOMAIN q = 1..(Len(batch[c]) + 1) /\ DOMAIN batch[c] = 1..Len(batch[c])
      /\ \A i \in DOMAIN batch[c] : q[i] = batch[c][i]
      /\ q[Len(batch[c]) + 1] = m
  <2>1. /\ Len(batch[c]) \in Nat /\ DOMAIN batch[c] = 1..Len(batch[c])
        /\ q \in Seq(Messages) /\ Len(q) = Len(batch[c]) + 1
        /\ \A i \in 1..Len(batch[c]) : q[i] = batch[c][i]
        /\ q[Len(batch[c]) + 1] = m
    BY <1>1, <1>2, LenProperties, AppendProperties
  <2> HIDE DEF q
  <2>2. DOMAIN q = 1..Len(q) /\ q # <<>>
    BY <2>1, LenProperties, EmptySeq
  <2>. QED
    BY <2>1, <2>2
<1> HIDE DEF q
<1>4. batch'[c] = q /\ \A d \in Consumers \ {c} : batch'[d] = batch[d]
  BY <1>1
<1>5. TypeOK'
  BY <1>1, <1>2, <1>3 DEF TypeOK, QueueInv
<1>6. InChan(m) /\ \A k : InChan(k)' => InChan(k) /\ k # m
  <2>1. \A i, j \in DOMAIN chan : chan[i] = chan[j] => i = j
    BY <1>1 DEF QueueInv, Placed
  <2>2. InChan(m)
    BY <1>2 DEF InChan
  <2>3. ASSUME NEW k, InChan(k)' PROVE InChan(k) /\ k # m
    <3>1. PICK i \in DOMAIN Tail(chan) : Tail(chan)[i] = k
      BY <1>1, <2>3 DEF InChan
    <3>2. i \in Nat /\ i >= 1 /\ i + 1 \in DOMAIN chan /\ chan[i + 1] = k
      BY <1>2, <3>1
    <3>. QED
      BY <1>2, <2>1, <3>2 DEF InChan
  <2>. QED
    BY <2>2, <2>3
<1>7. \A d \in Consumers : \A k : Holds(d, k)' => Holds(d, k) \/ (d = c /\ k = m)
  BY <1>3, <1>4 DEF Holds
<1>8. /\ Sent(m) /\ m \notin done /\ \A d \in Consumers : ~Holds(d, m)
      /\ \A k : Sent(k)' <=> Sent(k)
  BY <1>1, <1>2, <1>6 DEF QueueInv, Placed, Sent
<1>9. \A d \in Consumers : \A i, j \in DOMAIN batch'[d] : batch'[d][i] = batch'[d][j] => i = j
  <2>1. \A d \in Consumers : \A i, j \in DOMAIN batch[d] : batch[d][i] = batch[d][j] => i = j
    BY <1>1 DEF QueueInv, Placed
  <2>2. \A i \in DOMAIN batch[c] : batch[c][i] # m
    BY <1>8 DEF Holds
  <2>3. \A i, j \in DOMAIN q : q[i] = q[j] => i = j
    BY <1>3, <2>1, <2>2
  <2>. QED
    BY <1>4, <2>1, <2>3
<1>10. \A i, j \in DOMAIN chan' : chan'[i] = chan'[j] => i = j
  <2>1. \A i, j \in DOMAIN chan : chan[i] = chan[j] => i = j
    BY <1>1 DEF QueueInv, Placed
  <2>2. DOMAIN Tail(chan) \subseteq Nat
    BY <1>2
  <2>3. \A i, j \in Nat : i + 1 = j + 1 => i = j
    OBVIOUS
  <2>. QED
    BY <1>1, <1>2, <2>1, <2>2, <2>3
<1>11. Placed'
  BY <1>1, <1>2, <1>6, <1>7, <1>8, <1>9, <1>10 DEF QueueInv, Placed
<1>12. HeldExists'
  BY <1>1, <1>7, <1>8 DEF QueueInv, HeldExists, Sent
<1>13. LockHeld' /\ AckedWasHandled'
  BY <1>1 DEF QueueInv, LockHeld, AckedWasHandled
<1>14. OneLiveHolder'
  <2>1. \A a, d \in Consumers : \A k \in Messages : Holds(a, k)' /\ Holds(d, k)' => a = d
    BY <1>1, <1>11 DEF Placed
  <2>. QED
    BY <1>1, <2>1, HoldsMessage DEF OneLiveHolder, QueueInv
<1>15. BatchShape'
  BY <1>1, <1>3, <1>4 DEF QueueInv, BatchShape, TypeOK
<1>. QED
  BY <1>5, <1>11, <1>12, <1>13, <1>14, <1>15 DEF QueueInv

(* The oldest of a set of messages are a sequence of its members.          *)
LEMMA OldestIsBatch ==
  ASSUME TypeOK, NEW n \in Nat, NEW q \in Oldest(Visible, n)
  PROVE  q \in Seq(Messages) /\ \A i \in DOMAIN q : q[i] \in Visible
<1> DEFINE front == {m \in Visible : Cardinality({k \in Visible : k < m}) < n}
<1>1. /\ front \subseteq Visible /\ Visible \subseteq Messages /\ Messages \subseteq Nat
      /\ \A m \in Messages : m <= MaxMessages
  BY HoldsMessage, Bounds DEF Visible, Messages
<1>2. q \in [1..Cardinality(front) -> front]
  BY DEF Oldest
<1>3. Cardinality(front) \in Nat
  BY <1>1, Bounds, FS_BoundedSetOfNaturals, FS_CardinalityType
<1> HIDE DEF front
<1>4. q \in [1..Cardinality(front) -> Messages] /\ DOMAIN q = 1..Cardinality(front)
  BY <1>1, <1>2
<1>5. q \in Seq(Messages)
  BY <1>3, <1>4, SeqDef
<1>. QED
  BY <1>1, <1>2, <1>5

(* A claim takes messages that no live claim holds.                        *)
LEMMA ClaimStep ==
  ASSUME QueueInv, NEW c \in Consumers, NEW n \in Nat, NEW q \in Oldest(Visible, n),
         Claim(c, q), kind # "inproc", left' \in [Consumers -> 0..BatchSize]
  PROVE  QueueInv'
<1> DEFINE lockedRow(m) == IF \E i \in DOMAIN q : q[i] = m
                           THEN [rows[m] EXCEPT !.lock = 1] ELSE rows[m]
<1>1. /\ pc[c] = "claim" /\ q # <<>>
      /\ rows' = [m \in DOMAIN rows |-> lockedRow(m)]
      /\ batch' = [batch EXCEPT ![c] = q]
      /\ held' = [held EXCEPT ![c] = 1]
      /\ pc' = [pc EXCEPT ![c] = "handle"]
      /\ UNCHANGED <<kind, chan, ctx, closed, faults, done>>
  BY DEF Claim
<1>2. TypeOK /\ q \in Seq(Messages) /\ \A i \in DOMAIN q : q[i] \in Visible
  BY OldestIsBatch DEF QueueInv
<1>3. /\ rows \in Seq(Row) /\ DOMAIN rows = 1..Len(rows) /\ Len(rows) \in Nat
      /\ batch \in [Consumers -> Seq(Messages)] /\ held \in [Consumers -> 0..Expired]
      /\ pc \in [Consumers -> {"claim", "drain", "handle", "ack", "exited"}]
      /\ \A m \in DOMAIN rows : rows[m] \in Row
  BY <1>2, HoldsMessage DEF TypeOK
<1>4. ASSUME NEW m \in DOMAIN rows
      PROVE  /\ lockedRow(m) \in Row /\ lockedRow(m).state = rows[m].state
             /\ (\E i \in DOMAIN q : q[i] = m) => lockedRow(m).lock = 1
             /\ ~(\E i \in DOMAIN q : q[i] = m) => lockedRow(m).lock = rows[m].lock
  BY <1>3, Bounds DEF Row
<1>5. /\ DOMAIN rows' = DOMAIN rows /\ rows' \in Seq(Row) /\ Len(rows') = Len(rows)
      /\ \A m \in DOMAIN rows : rows'[m] = lockedRow(m)
  <2> HIDE DEF lockedRow
  <2>1. rows' \in [1..Len(rows) -> Row]
    BY <1>1, <1>3, <1>4
  <2>. QED
    BY <1>1, <1>3, <2>1
<1> HIDE DEF lockedRow
<1>6. /\ batch'[c] = q /\ held'[c] = 1 /\ pc'[c] = "handle"
      /\ \A d \in Consumers \ {c} : batch'[d] = batch[d] /\ held'[d] = held[d] /\ pc'[d] = pc[d]
  BY <1>1, <1>3
<1>7. TypeOK'
  <2>1. batch' \in [Consumers -> Seq(Messages)] /\ held' \in [Consumers -> 0..Expired]
    BY <1>1, <1>2, <1>3, Bounds
  <2>. QED
    BY <1>1, <1>2, <1>3, <1>5, <2>1 DEF TypeOK
<1>8. \A m : Holds(c, m)' => m \in Visible /\ m \in DOMAIN rows /\ rows'[m].lock = 1
  BY <1>2, <1>4, <1>5, <1>6 DEF Holds, Visible
<1>9. \A d \in Consumers \ {c} : \A m : Holds(d, m)' => Holds(d, m) /\ m \in DOMAIN rows
  BY <1>2, <1>6, HoldsMessage DEF Holds, QueueInv, HeldExists
<1>10. ASSUME NEW d \in Consumers \ {c}, NEW m, Holds(d, m)', held[d] # Expired
       PROVE  /\ m \notin Visible /\ m \in DOMAIN rows
              /\ rows'[m].lock = held[d] /\ held[d] # Free
  <2>1. m \in DOMAIN rows /\ rows[m].lock = held[d] /\ held[d] # Free
    BY <1>9, <1>10 DEF QueueInv, LockHeld
  <2>2. m \notin Visible
    BY <1>10, <2>1 DEF Visible
  <2>. QED
    BY <1>2, <1>4, <1>5, <2>1, <2>2
<1>11. HeldExists'
  BY <1>5, <1>8, <1>9 DEF HeldExists
<1>12. LockHeld'
  BY <1>5, <1>6, <1>8, <1>10 DEF LockHeld, Free
<1>13. OneLiveHolder'
  <2>1. ASSUME NEW a \in Consumers, NEW d \in Consumers, NEW m \in DOMAIN rows',
               a # d, Holds(a, m)', Holds(d, m)'
        PROVE  Expired \in {held'[a], held'[d]}
    <3>1. CASE a = c
      BY <1>6, <1>8, <1>10, <2>1, <3>1
    <3>2. CASE d = c
      BY <1>6, <1>8, <1>10, <2>1, <3>2
    <3>3. CASE a # c /\ d # c
      BY <1>5, <1>6, <1>9, <2>1, <3>3 DEF QueueInv, OneLiveHolder
    <3>. QED
      BY <3>1, <3>2, <3>3
  <2>. QED
    BY <1>1, <2>1 DEF OneLiveHolder
<1>14. BatchShape'
  BY <1>1, <1>6 DEF QueueInv, BatchShape
<1>15. Placed'
  BY <1>1 DEF Placed
<1>16. AckedWasHandled'
  BY <1>1, <1>4, <1>5 DEF QueueInv, AckedWasHandled
<1>. QED
  BY <1>7, <1>11, <1>12, <1>13, <1>14, <1>15, <1>16 DEF QueueInv

(* The handler answers, and with an error the consumer goes on.            *)
LEMMA HandlerStep ==
  ASSUME QueueInv, NEW c \in Consumers, HandlerOk(c) \/ HandlerFails(c)
  PROVE  QueueInv'
<1>0. PICK m : m = Head(batch[c])
  OBVIOUS
<1>1. /\ TypeOK /\ pc[c] = "handle" /\ batch[c] # <<>> /\ batch[c] \in Seq(Messages)
      /\ pc \in [Consumers -> {"claim", "drain", "handle", "ack", "exited"}]
      /\ UNCHANGED <<kind, rows, chan, left, ctx, closed>>
      /\ \/ /\ Advance(c)
            /\ done' = IF kind = "inproc" THEN done \cup {m} ELSE done
         \/ /\ kind # "inproc" /\ done' = done \cup {m}
            /\ pc' = [pc EXCEPT ![c] = "ack"] /\ UNCHANGED <<batch, held>>
      /\ faults' \in 0..MaxFaults
  <2>1. TypeOK /\ pc[c] = "handle" /\ UNCHANGED <<kind, rows, chan, left, ctx, closed>>
    BY DEF HandlerOk, HandlerFails, QueueInv
  <2>2. /\ batch[c] # <<>> /\ batch[c] \in Seq(Messages)
        /\ pc \in [Consumers -> {"claim", "drain", "handle", "ack", "exited"}]
    BY <2>1 DEF QueueInv, BatchShape, TypeOK
  <2>3. faults' = faults \/ (faults < MaxFaults /\ faults' = faults + 1)
    BY DEF HandlerOk, HandlerFails, Fault
  <2>4. faults' \in 0..MaxFaults
    BY <2>1, <2>3, Bounds DEF TypeOK
  <2>. QED
    BY <1>0, <2>1, <2>2, <2>4 DEF HandlerOk, HandlerFails
<1>2. /\ m \in Messages /\ m = batch[c][1] /\ 1 \in DOMAIN batch[c]
      /\ \A i \in DOMAIN Tail(batch[c]) :
            i + 1 \in DOMAIN batch[c] /\ Tail(batch[c])[i] = batch[c][i + 1]
      /\ Tail(batch[c]) \in Seq(Messages)
  BY <1>0, <1>1, TailHolds
<1>4. done \subseteq done' /\ done' \subseteq done \cup {m} /\ done' \subseteq Messages
  BY <1>1, <1>2 DEF TypeOK
<1>5. AckedWasHandled'
  BY <1>1, <1>4 DEF QueueInv, AckedWasHandled
<1>6. CASE /\ kind # "inproc" /\ done' = done \cup {m}
           /\ pc' = [pc EXCEPT ![c] = "ack"] /\ UNCHANGED <<batch, held>>
  <2>1. TypeOK'
    BY <1>1, <1>4, <1>6 DEF TypeOK
  <2>2. \A d \in Consumers : \A k : Holds(d, k)' => Holds(d, k) /\ held'[d] = held[d]
    BY <1>6 DEF Holds
  <2>3. HeldExists' /\ LockHeld' /\ OneLiveHolder'
    BY <1>1, <2>1, <2>2, ClaimsKept
  <2>4. BatchShape'
    BY <1>0, <1>1, <1>6 DEF QueueInv, BatchShape
  <2>. QED
    BY <1>1, <1>5, <1>6, <2>1, <2>3, <2>4 DEF QueueInv, Placed
<1>7. CASE Advance(c) /\ done' = IF kind = "inproc" THEN done \cup {m} ELSE done
  <2>1. /\ batch' \in [Consumers -> Seq(Messages)]
        /\ held' \in [Consumers -> 0..Expired]
        /\ pc' \in [Consumers -> {"claim", "drain", "handle", "ack", "exited"}]
        /\ batch'[c] = Tail(batch[c]) /\ pc'[c] \in {"claim", "handle"}
        /\ batch'[c] = <<>> <=> pc'[c] = "claim"
        /\ \A d \in Consumers \ {c} : batch'[d] = batch[d] /\ held'[d] = held[d] /\ pc'[d] = pc[d]
        /\ \A d \in Consumers : \A k : Holds(d, k)' => Holds(d, k) /\ held'[d] = held[d]
    BY <1>1, <1>7, AdvanceEffect
  <2>2. TypeOK'
    BY <1>1, <1>4, <2>1 DEF TypeOK
  <2>3. HeldExists' /\ LockHeld' /\ OneLiveHolder'
    BY <1>1, <2>1, <2>2, ClaimsKept
  <2>4. BatchShape'
    BY <1>1, <1>4, <2>1 DEF QueueInv, BatchShape
  <2>5. ASSUME kind = "inproc" PROVE Placed'
    <3>1. \A d \in Consumers : \A i, j \in DOMAIN batch[d] : batch[d][i] = batch[d][j] => i = j
      BY <2>5 DEF QueueInv, Placed
    <3>2. Holds(c, m) /\ ~Holds(c, m)'
      <4>1. ASSUME NEW i \in DOMAIN Tail(batch[c]), Tail(batch[c])[i] = m PROVE FALSE
        <5>1. i \in Nat /\ i >= 1 /\ i + 1 \in DOMAIN batch[c] /\ batch[c][i + 1] = m
          BY <1>2, <4>1
        <5>. QED
          BY <1>2, <3>1, <5>1
      <4>. QED
        BY <1>2, <2>1, <4>1 DEF Holds
    <3>3. /\ Sent(m) /\ ~InChan(m) /\ \A d \in Consumers : Holds(d, m)' => FALSE
      BY <1>2, <2>1, <2>5, <3>2 DEF QueueInv, Placed
    <3>4. \A d \in Consumers : \A i, j \in DOMAIN batch'[d] : batch'[d][i] = batch'[d][j] => i = j
      <4>1. DOMAIN Tail(batch[c]) \subseteq Nat
        BY <1>2
      <4>2. \A i, j \in Nat : i + 1 = j + 1 => i = j
        OBVIOUS
      <4>3. \A i, j \in DOMAIN Tail(batch[c]) : Tail(batch[c])[i] = Tail(batch[c])[j] => i = j
        BY <1>2, <3>1, <4>1, <4>2
      <4>. QED
        BY <2>1, <3>1, <4>3
    <3>5. \A k : (InChan(k)' <=> InChan(k)) /\ (Sent(k)' <=> Sent(k))
      BY <1>1 DEF InChan, Sent
    <3>6. \A i, j \in DOMAIN chan' : chan'[i] = chan'[j] => i = j
      BY <1>1, <2>5 DEF QueueInv, Placed
    <3>. QED
      BY <1>1, <1>4, <2>1, <2>5, <3>3, <3>4, <3>5, <3>6 DEF QueueInv, Placed
  <2>. QED
    BY <1>1, <1>5, <2>2, <2>3, <2>4, <2>5 DEF QueueInv, Placed
<1>. QED
  BY <1>1, <1>6, <1>7

(* The acknowledgement, or its failure.                                    *)
LEMMA AckStep ==
  ASSUME QueueInv, NEW c \in Consumers, Ack(c) \/ AckFails(c)
  PROVE  QueueInv'
<1>0. PICK m : m = Head(batch[c])
  OBVIOUS
<1>1. /\ TypeOK /\ pc[c] = "ack" /\ batch[c] # <<>> /\ batch[c] \in Seq(Messages)
      /\ kind # "inproc" /\ m \in done
      /\ UNCHANGED <<kind, chan, left, ctx, closed, done>>
      /\ rows' = rows \/ rows' = [rows EXCEPT ![m].state = "acked"]
      /\ Advance(c)
      /\ faults' \in 0..MaxFaults
  <2>1. TypeOK /\ pc[c] = "ack" /\ UNCHANGED <<kind, chan, left, ctx, closed, done>>
    BY DEF Ack, AckFails, QueueInv
  <2>2. batch[c] # <<>> /\ batch[c] \in Seq(Messages) /\ kind # "inproc" /\ m \in done
    BY <1>0, <2>1 DEF QueueInv, BatchShape, TypeOK
  <2>3. faults' = faults \/ (faults < MaxFaults /\ faults' = faults + 1)
    BY DEF Ack, AckFails, Fault
  <2>4. faults' \in 0..MaxFaults
    BY <2>1, <2>3, Bounds DEF TypeOK
  <2>. QED
    BY <1>0, <2>1, <2>2, <2>4 DEF Ack, AckFails
<1>2. m \in DOMAIN rows /\ rows \in Seq(Row)
  <2>1. Holds(c, m)
    BY <1>0, <1>1, TailHolds DEF Holds
  <2>. QED
    BY <1>1, <2>1, HoldsMessage DEF QueueInv, HeldExists, TypeOK
<1>3. /\ rows' \in Seq(Row) /\ Len(rows') = Len(rows) /\ DOMAIN rows' = DOMAIN rows
      /\ \A k \in DOMAIN rows : rows'[k].lock = rows[k].lock /\ (k # m => rows'[k] = rows[k])
  BY <1>1, <1>2, StateSet
<1>4. /\ batch' \in [Consumers -> Seq(Messages)]
      /\ held' \in [Consumers -> 0..Expired]
      /\ pc' \in [Consumers -> {"claim", "drain", "handle", "ack", "exited"}]
      /\ pc'[c] \in {"claim", "handle"} /\ (batch'[c] = <<>> <=> pc'[c] = "claim")
      /\ \A d \in Consumers \ {c} : batch'[d] = batch[d] /\ held'[d] = held[d] /\ pc'[d] = pc[d]
      /\ \A d \in Consumers : \A k : Holds(d, k)' => Holds(d, k) /\ held'[d] = held[d]
  BY <1>1, AdvanceEffect
<1>5. TypeOK'
  BY <1>1, <1>3, <1>4 DEF TypeOK
<1>6. HeldExists' /\ LockHeld' /\ OneLiveHolder'
  BY <1>1, <1>3, <1>4, <1>5, ClaimsKept
<1>7. BatchShape'
  BY <1>1, <1>4 DEF QueueInv, BatchShape
<1>8. AckedWasHandled'
  BY <1>1, <1>3 DEF QueueInv, AckedWasHandled
<1>. QED
  BY <1>1, <1>5, <1>6, <1>7, <1>8 DEF QueueInv, Placed

(* Time ages a lock and the claim that took it alike.                      *)
LEMMA TickStep ==
  ASSUME QueueInv, Tick
  PROVE  QueueInv'
<1> DEFINE aged(m) == [rows[m] EXCEPT !.lock = Older(@)]
<1>1. /\ rows' = [m \in DOMAIN rows |-> aged(m)]
      /\ held' = [c \in Consumers |-> Older(held[c])]
      /\ UNCHANGED <<kind, chan, batch, pc, left, ctx, closed, faults, done>>
  BY DEF Tick
<1>2. /\ TypeOK /\ rows \in Seq(Row) /\ DOMAIN rows = 1..Len(rows) /\ Len(rows) \in Nat
      /\ \A m \in DOMAIN rows : rows[m] \in Row /\ rows[m].lock \in 0..Expired
      /\ held \in [Consumers -> 0..Expired]
  BY HoldsMessage DEF QueueInv, TypeOK, Row
<1>3. /\ \A a \in 0..Expired : Older(a) \in 0..Expired
      /\ \A a \in 0..Expired : a # Free => Older(a) # Free
      /\ Older(Expired) = Expired
  BY Bounds DEF Older, Free
<1>4. ASSUME NEW m \in DOMAIN rows
      PROVE  aged(m) \in Row /\ aged(m).lock = Older(rows[m].lock) /\ aged(m).state = rows[m].state
  BY <1>2, <1>3 DEF Row
<1> HIDE DEF aged
<1>5. /\ rows' \in Seq(Row) /\ Len(rows') = Len(rows) /\ DOMAIN rows' = DOMAIN rows
      /\ \A m \in DOMAIN rows : rows'[m] = aged(m)
  <2>1. rows' \in [1..Len(rows) -> Row]
    BY <1>1, <1>2, <1>4
  <2>. QED
    BY <1>1, <1>2, <2>1
<1>6. \A c \in Consumers : held'[c] = Older(held[c]) /\ held'[c] \in 0..Expired
  BY <1>1, <1>2, <1>3
<1>7. TypeOK'
  BY <1>1, <1>2, <1>3, <1>5 DEF TypeOK
<1>8. \A c \in Consumers : \A m : Holds(c, m)' <=> Holds(c, m)
  BY <1>1 DEF Holds
<1>9. HeldExists' /\ BatchShape' /\ AckedWasHandled'
  BY <1>1, <1>4, <1>5, <1>8 DEF QueueInv, HeldExists, BatchShape, AckedWasHandled
<1>10. LockHeld'
  <2>1. ASSUME NEW c \in Consumers, NEW m \in DOMAIN rows, kind # "inproc",
               Holds(c, m), held'[c] # Expired
        PROVE  rows'[m].lock = held'[c] /\ held'[c] # Free
    <3>1. held[c] # Expired
      BY <1>3, <1>6, <2>1
    <3>2. rows[m].lock = held[c] /\ held[c] # Free
      BY <2>1, <3>1 DEF QueueInv, LockHeld
    <3>. QED
      BY <1>2, <1>3, <1>4, <1>5, <1>6, <3>2
  <2>. QED
    BY <1>1, <1>5, <1>8, <2>1 DEF LockHeld
<1>11. OneLiveHolder'
  <2>1. ASSUME NEW c \in Consumers, NEW d \in Consumers, NEW m \in DOMAIN rows,
               c # d, Holds(c, m), Holds(d, m)
        PROVE  kind # "inproc" /\ Expired \in {held'[c], held'[d]}
    <3>1. kind # "inproc" /\ Expired \in {held[c], held[d]}
      BY <2>1 DEF QueueInv, OneLiveHolder
    <3>. QED
      BY <1>3, <1>6, <3>1
  <2>. QED
    BY <1>1, <1>5, <1>8, <2>1 DEF OneLiveHolder
<1>12. Placed'
  <2>1. \A m \in Messages : Sent(m) => Sent(m)'
    BY <1>4, <1>5 DEF Sent
  <2>. QED
    BY <1>1, <2>1, PlacesKept
<1>. QED
  BY <1>7, <1>9, <1>10, <1>11, <1>12 DEF QueueInv

(* A consumer or a Close that touches no message, and a restart, which     *)
(* gives its claims up.                                                    *)
LEMMA ControlStep ==
  ASSUME QueueInv, UNCHANGED <<kind, rows, chan, done>>, TypeOK', BatchShape',
         \A c \in Consumers : \A m : Holds(c, m)' => Holds(c, m) /\ held'[c] = held[c],
         kind = "inproc" => UNCHANGED batch
  PROVE  QueueInv'
<1>1. HeldExists' /\ LockHeld' /\ OneLiveHolder'
  BY ClaimsKept
<1>2. Placed'
  BY PlacesKept DEF Sent, Placed
<1>3. AckedWasHandled'
  BY DEF QueueInv, AckedWasHandled
<1>. QED
  BY <1>1, <1>2, <1>3 DEF QueueInv

-----------------------------------------------------------------------------
(* Every step keeps the invariant.                                         *)
LEMMA QueueStep == QueueInv /\ [Next]_vars => QueueInv'
<1> SUFFICES ASSUME QueueInv, [Next]_vars PROVE QueueInv'
  OBVIOUS
<1>1. TypeOK /\ BatchShape
  BY DEF QueueInv
<1>2. ASSUME UNCHANGED <<kind, rows, chan, done, batch, held>>, TypeOK', BatchShape'
      PROVE  QueueInv'
  BY <1>2, ControlStep DEF Holds
<1>3. CASE InprocPublish \/ PgPublish \/ MongoPublish
  BY <1>3, StoreStep DEF InprocPublish, PgPublish, MongoPublish
<1>4. ASSUME NEW m \in Messages, InprocSend(m) PROVE QueueInv'
  BY <1>4, SendStep
<1>5. CASE Tick
  BY <1>5, TickStep
<1>6. CASE Close
  BY <1>1, <1>2, <1>6 DEF Close, local, TypeOK, BatchShape
<1>7. CASE UNCHANGED vars
  BY <1>1, <1>2, <1>7 DEF vars, TypeOK, BatchShape
<1>8. ASSUME NEW c \in Consumers, Work(c) \/ Restart(c) PROVE QueueInv'
  <2>1. CASE InprocReceive(c)
    BY <2>1, ReceiveStep
  <2>2. CASE PgClaim(c)
    <3>1. /\ kind # "inproc" /\ left' \in [Consumers -> 0..BatchSize] /\ BatchSize \in Nat
          /\ \E q \in Oldest(Visible, BatchSize) : Claim(c, q)
      BY <1>1, <2>2, Bounds DEF PgClaim, TypeOK
    <3>. QED
      BY <3>1, ClaimStep
  <2>3. CASE MongoClaim(c)
    <3>1. /\ kind # "inproc" /\ left' \in [Consumers -> 0..BatchSize]
          /\ \E q \in Oldest(Visible, 1) : Claim(c, q)
      BY <1>1, <2>3, Bounds DEF MongoClaim, TypeOK
    <3>. QED
      BY <3>1, ClaimStep
  <2>4. CASE HandlerOk(c) \/ HandlerFails(c)
    BY <2>4, HandlerStep
  <2>5. CASE Ack(c) \/ AckFails(c)
    BY <2>5, AckStep
  <2>6. CASE InprocDispatch(c)
    BY <1>1, <1>2, <2>6 DEF InprocDispatch, TypeOK, BatchShape
  <2>7. CASE MongoDrained(c)
    BY <1>1, <1>2, <2>7, Bounds DEF MongoDrained, TypeOK, BatchShape
  <2>8. CASE CancelCtx(c)
    BY <1>1, <1>2, <2>8 DEF CancelCtx, TypeOK, BatchShape
  <2>9. CASE ConsumerExits(c)
    BY <1>1, <1>2, <2>9 DEF ConsumerExits, TypeOK, BatchShape
  <2>10. CASE Restart(c)
    <3>1. /\ kind # "inproc" /\ UNCHANGED <<kind, rows, chan, done, closed>>
          /\ faults' = faults + 1 /\ faults < MaxFaults
          /\ batch' = [batch EXCEPT ![c] = <<>>]
          /\ held' = [held EXCEPT ![c] = 0]
          /\ pc' = [pc EXCEPT ![c] = "claim"]
          /\ left' = [left EXCEPT ![c] = BatchSize]
          /\ ctx' = [ctx EXCEPT ![c] = FirstCtx]
      BY <2>10 DEF Restart, Fault
    <3>2. /\ <<>> \in Seq(Messages) /\ FirstCtx \in {"parent", "live"}
          /\ BatchSize \in 0..BatchSize /\ 0 \in 0..Expired /\ faults' \in 0..MaxFaults
      BY <1>1, <3>1, Bounds DEF FirstCtx, TypeOK
    <3>3. TypeOK'
      BY <1>1, <3>1, <3>2 DEF TypeOK
    <3>4. /\ batch'[c] = <<>> /\ pc'[c] = "claim"
          /\ \A d \in Consumers \ {c} : batch'[d] = batch[d] /\ held'[d] = held[d] /\ pc'[d] = pc[d]
      BY <1>1, <3>1 DEF TypeOK
    <3>5. BatchShape'
      BY <1>1, <3>1, <3>4 DEF BatchShape
    <3>6. \A d \in Consumers : \A m : Holds(d, m)' => Holds(d, m) /\ held'[d] = held[d]
      BY <3>4 DEF Holds
    <3>. QED
      BY <3>1, <3>3, <3>5, <3>6, ControlStep
  <2>. QED
    BY <1>8, <2>1, <2>2, <2>3, <2>4, <2>5, <2>6, <2>7, <2>8, <2>9, <2>10 DEF Work
<1>. QED
  BY <1>3, <1>4, <1>5, <1>6, <1>7, <1>8 DEF Next, Stopped

(* The queue keeps its promise: a message is acknowledged only after a     *)
(* handler accepted it, it has one live holder, and the channel delivers   *)
(* it at most once (pg.go, mongo.go, inproc.go).                           *)
THEOREM PromiseKept == Spec => []QueueKeepsPromise
<1>1. Init => QueueInv
  <2> SUFFICES ASSUME Init PROVE QueueInv
    OBVIOUS
  <2>1. /\ rows = <<>> /\ chan = <<>> /\ done = {}
        /\ \A c \in Consumers : batch[c] = <<>> /\ pc[c] = "claim"
    BY DEF Init
  <2>2. TypeOK
    <3>1. FirstCtx \in {"parent", "live", "cancelled"} /\ BatchSize \in 0..BatchSize
          /\ 0 \in 0..Expired /\ 0 \in 0..MaxFaults /\ 0 <= MaxMessages
      BY Bounds DEF FirstCtx
    <3>2. /\ batch \in [Consumers -> Seq(Messages)] /\ held \in [Consumers -> 0..Expired]
          /\ left \in [Consumers -> 0..BatchSize]
          /\ ctx \in [Consumers -> {"parent", "live", "cancelled"}]
          /\ pc \in [Consumers -> {"claim", "drain", "handle", "ack", "exited"}]
      BY <3>1 DEF Init
    <3>3. rows \in Seq(Row) /\ Len(rows) <= MaxMessages /\ chan \in Seq(Messages)
      BY <2>1, <3>1
    <3>. QED
      BY <3>1, <3>2, <3>3 DEF Init, TypeOK
  <2>3. \A c \in Consumers : \A m : ~Holds(c, m)
    BY <2>1 DEF Holds
  <2>. QED
    BY <2>1, <2>2, <2>3 DEF QueueInv, BatchShape, HeldExists, LockHeld, Placed, InChan,
       AckedWasHandled, OneLiveHolder
<1>2. QueueInv => QueueKeepsPromise
  <2> SUFFICES ASSUME QueueInv PROVE InprocAtMostOnce
    BY DEF QueueInv, QueueKeepsPromise
  <2>1. ASSUME kind = "inproc", NEW c \in Consumers, NEW i \in DOMAIN batch[c]
        PROVE  Holds(c, batch[c][i]) /\ batch[c][i] \in Messages
    BY HoldsMessage DEF Holds, QueueInv
  <2>2. done \subseteq Messages
    BY DEF QueueInv, TypeOK
  <2>. QED
    BY <2>1, <2>2 DEF InprocAtMostOnce, QueueInv, Placed, InChan
<1>. QED
  BY <1>1, <1>2, QueueStep, PTL DEF Spec

-----------------------------------------------------------------------------
(* THE BATCHING NOTIFIERS                                                  *)

-----------------------------------------------------------------------------
(* Invariants.                                                             *)

\* The four kinds of places of record n.
InBucket(n)  == {k \in DOMAIN bucket : bucket[k].id = n}
AtSenders(n) == {t \in Senders : n \in Ids(request[t].records)}
InFlights(n) == {g \in flights : n \in Ids(g.records)}
Ended(n)     == {p \in outcome : p.id = n}

One(S) == \E x : S = {x}

\* Record n is in exactly one place, or in none.
Lone(n) ==
  \/ One(InBucket(n)) /\ AtSenders(n) = {} /\ InFlights(n) = {} /\ Ended(n) = {}
  \/ InBucket(n) = {} /\ One(AtSenders(n)) /\ InFlights(n) = {} /\ Ended(n) = {}
  \/ InBucket(n) = {} /\ AtSenders(n) = {} /\ One(InFlights(n)) /\ Ended(n) = {}
  \/ InBucket(n) = {} /\ AtSenders(n) = {} /\ InFlights(n) = {} /\ One(Ended(n))

Unseen(n) == InBucket(n) = {} /\ AtSenders(n) = {} /\ InFlights(n) = {} /\ Ended(n) = {}

\* A request under way has a target and carries every record once.
DistinctIds(q) == \A i, j \in DOMAIN q : q[i].id = q[j].id => i = j
Carried(q) == q \in Request /\ q.to \in Targets /\ DistinctIds(q.records)

RequestsCarried ==
  /\ \A s \in Senders : IF stage[s] = "deliver" THEN Carried(request[s]) ELSE request[s] = Nothing
  /\ \A f \in flights : Carried(f)
  /\ DistinctIds(bucket)

RecordsPlaced ==
  \A n \in 1..MaxRecords : IF n < next THEN Lone(n) ELSE Unseen(n)

\* A bucket is past its size by no more than the senders about to flush it.
Flushing == {s \in Senders : stage[s] = "flush"}

BucketFits ==
  IF Batching THEN Len(bucket) <= maxsize - 1 + Cardinality(Flushing) ELSE bucket = <<>>

BatchInv == BatchTypeOK /\ RequestsCarried /\ RecordsPlaced /\ BucketFits

-----------------------------------------------------------------------------
(* Records and requests.                                                   *)

(* An empty sequence carries nobody.                                       *)
LEMMA NothingCarried == Ids(<<>>) = {} /\ Ids(Nothing.records) = {} /\ DistinctIds(<<>>)
BY DEF Ids, Nothing, DistinctIds

(* Exactly one of the four kinds of places is one place.                   *)
LEMMA LoneIsOnePlace ==
  ASSUME NEW n, Lone(n)
  PROVE  Cardinality(Places(n)) = 1
<1>0. Places(n) = {<<"bucket", i>> : i \in InBucket(n)} \cup {<<"sender", s>> : s \in AtSenders(n)}
                  \cup {<<"timer", f>> : f \in InFlights(n)} \cup {<<"done", o>> : o \in Ended(n)}
  BY DEF Places, InBucket, AtSenders, InFlights, Ended
<1>1. \E x : Places(n) = {x}
  <2>1. CASE One(InBucket(n)) /\ AtSenders(n) = {} /\ InFlights(n) = {} /\ Ended(n) = {}
    <3>1. PICK x : InBucket(n) = {x}
      BY <2>1 DEF One
    <3>2. Places(n) = {<<"bucket", x>>}
      BY <1>0, <2>1, <3>1
    <3>. QED
      BY <3>2
  <2>2. CASE InBucket(n) = {} /\ One(AtSenders(n)) /\ InFlights(n) = {} /\ Ended(n) = {}
    <3>1. PICK x : AtSenders(n) = {x}
      BY <2>2 DEF One
    <3>2. Places(n) = {<<"sender", x>>}
      BY <1>0, <2>2, <3>1
    <3>. QED
      BY <3>2
  <2>3. CASE InBucket(n) = {} /\ AtSenders(n) = {} /\ One(InFlights(n)) /\ Ended(n) = {}
    <3>1. PICK x : InFlights(n) = {x}
      BY <2>3 DEF One
    <3>2. Places(n) = {<<"timer", x>>}
      BY <1>0, <2>3, <3>1
    <3>. QED
      BY <3>2
  <2>4. CASE InBucket(n) = {} /\ AtSenders(n) = {} /\ InFlights(n) = {} /\ One(Ended(n))
    <3>1. PICK x : Ended(n) = {x}
      BY <2>4 DEF One
    <3>2. Places(n) = {<<"done", x>>}
      BY <1>0, <2>4, <3>1
    <3>. QED
      BY <3>2
  <2>. QED
    BY <2>1, <2>2, <2>3, <2>4 DEF Lone
<1>. QED
  BY <1>1, FS_Singleton

(* The request made of a bucket carries the records of the bucket.         *)
LEMMA BatchedCarries ==
  ASSUME BatchTypeOK, bucket # <<>>, DistinctIds(bucket)
  PROVE  Carried(Batched(bucket)) /\ Batched(bucket).records = bucket
<1>1. bucket \in Seq(Record) /\ bucket[1] \in Record
  BY EmptySeq, ElementOfSeq DEF BatchTypeOK
<1>2. bucket[1].target \in Targets /\ Recipients \in Targets
  BY <1>1, BatchAssumption DEF Record, Recipients
<1>3. \E t \in Targets : Batched(bucket) = [records |-> bucket, to |-> t]
  BY <1>2 DEF Batched, WebhookBatch, MailBatch, ScriptBatch, BatchTypeOK
<1>. QED
  BY <1>1, <1>3 DEF Carried, Request

(* Where nothing but control changes, records stay where they are.         *)
LEMMA BatchPlacesKept ==
  ASSUME BatchInv, BatchTypeOK', UNCHANGED <<bucket, request, flights, next, outcome>>,
         \A s \in Senders : stage'[s] = "deliver" <=> stage[s] = "deliver"
  PROVE  RequestsCarried' /\ RecordsPlaced'
<1>1. RequestsCarried'
  BY DEF BatchInv, RequestsCarried
<1>2. \A n : (Lone(n)' <=> Lone(n)) /\ (Unseen(n)' <=> Unseen(n))
  BY DEF Lone, Unseen, InBucket, AtSenders, InFlights, Ended
<1>. QED
  BY <1>1, <1>2 DEF BatchInv, RecordsPlaced

(* The senders about to flush are finitely many.                           *)
LEMMA FlushingFinite ==
  /\ IsFiniteSet(Flushing) /\ Cardinality(Flushing) \in Nat
  /\ Cardinality(Flushing) <= Cardinality(Senders) /\ Cardinality(Senders) \in Nat
<1>1. Flushing \in SUBSET Senders
  BY DEF Flushing
<1>. QED
  BY <1>1, FS_Subset, FS_CardinalityType, BatchAssumption

(* An empty bucket fits.                                                   *)
LEMMA EmptyFits ==
  ASSUME BatchTypeOK, bucket = <<>>
  PROVE  BucketFits
<1>1. Cardinality(Flushing) \in Nat
  BY FlushingFinite
<1>. QED
  BY <1>1, BatchAssumption DEF BucketFits, Batching, BatchTypeOK

-----------------------------------------------------------------------------
(* Steps.                                                                  *)

(* A new record is queued in the bucket.                                   *)
LEMMA BatchQueueStep ==
  ASSUME BatchInv, NEW s \in Senders, NEW t \in Targets, Arrives(s), Batching,
         QueueForBatch(s, [id |-> next, target |-> t])
  PROVE  BatchInv'
<1>1. PICK r : r = [id |-> next, target |-> t]
  OBVIOUS
<1>2. next \in 1..MaxRecords /\ next \in Nat /\ MaxRecords \in Nat
  BY BatchAssumption DEF BatchInv, BatchTypeOK, Arrives
<1>3. r \in Record /\ r.id = next
  BY <1>1, <1>2 DEF Record
<1>4. /\ BatchTypeOK /\ stage[s] = "idle" /\ next' = next + 1
      /\ bucket' = Append(bucket, r) /\ timer' \in {"armed", timer}
      /\ stage' = [stage EXCEPT ![s] = IF Len(bucket) + 1 >= maxsize THEN "flush" ELSE "idle"]
      /\ UNCHANGED <<plugin, maxsize, fired, flights, outcome, running, request>>
  BY <1>1 DEF Arrives, QueueForBatch, BatchInv
<1>5. /\ bucket \in Seq(Record) /\ Len(bucket) \in Nat /\ DOMAIN bucket = 1..Len(bucket)
      /\ bucket' \in Seq(Record) /\ Len(bucket') = Len(bucket) + 1
      /\ DOMAIN bucket' = 1..(Len(bucket) + 1)
      /\ \A i \in DOMAIN bucket : bucket'[i] = bucket[i]
      /\ bucket'[Len(bucket) + 1] = r
  <2>1. bucket \in Seq(Record)
    BY <1>4 DEF BatchTypeOK
  <2>. QED
    BY <1>3, <1>4, <2>1, LenProperties, AppendProperties
<1>6. BatchTypeOK'
  BY <1>2, <1>4, <1>5 DEF BatchTypeOK
<1>7. Unseen(next)
  BY <1>2 DEF BatchInv, RecordsPlaced
<1>8. DistinctIds(bucket')
  <2>1. \A i \in DOMAIN bucket : bucket[i].id # next
    BY <1>7 DEF Unseen, InBucket
  <2>2. DistinctIds(bucket)
    BY DEF BatchInv, RequestsCarried
  <2>. QED
    BY <1>3, <1>5, <2>1, <2>2 DEF DistinctIds
<1>9. RequestsCarried'
  BY <1>4, <1>8 DEF BatchInv, RequestsCarried, BatchTypeOK
<1>10. ASSUME NEW n \in 1..MaxRecords
       PROVE  /\ InBucket(n)' = IF n = next THEN {Len(bucket) + 1} ELSE InBucket(n)
              /\ AtSenders(n)' = AtSenders(n)
              /\ InFlights(n)' = InFlights(n) /\ Ended(n)' = Ended(n)
  <2>1. InBucket(next) = {}
    BY <1>7 DEF Unseen
  <2>2. InBucket(n)' = IF n = next THEN {Len(bucket) + 1} ELSE InBucket(n)
    BY <1>3, <1>5, <2>1 DEF InBucket
  <2>. QED
    BY <1>4, <2>2 DEF AtSenders, InFlights, Ended
<1>11. RecordsPlaced'
  <2>1. ASSUME NEW n \in 1..MaxRecords PROVE IF n < next' THEN Lone(n)' ELSE Unseen(n)'
    <3>1. CASE n = next
      <4>1. /\ InBucket(n)' = {Len(bucket) + 1} /\ AtSenders(n)' = {}
            /\ InFlights(n)' = {} /\ Ended(n)' = {}
        BY <1>7, <1>10, <3>1 DEF Unseen
      <4>2. One(InBucket(n))'
        BY <4>1 DEF One
      <4>. QED
        BY <1>2, <1>4, <3>1, <4>1, <4>2 DEF Lone
    <3>2. CASE n # next
      <4>1. (n < next' <=> n < next) /\ IF n < next THEN Lone(n) ELSE Unseen(n)
        BY <1>2, <1>4, <3>2 DEF BatchInv, RecordsPlaced
      <4>. QED
        BY <1>10, <3>2, <4>1 DEF Unseen, Lone
    <3>. QED
      BY <3>1, <3>2
  <2>. QED
    BY <2>1 DEF RecordsPlaced
<1>12. BucketFits'
  <2>1. maxsize \in Int /\ Batching' /\ Cardinality(Flushing) \in Nat /\ IsFiniteSet(Flushing)
    BY <1>4, FlushingFinite, BatchAssumption DEF BatchTypeOK, Batching
  <2>2. Len(bucket) <= maxsize - 1 + Cardinality(Flushing)
    BY DEF BatchInv, BucketFits
  <2>3. CASE Len(bucket) + 1 >= maxsize
    <3>1. Flushing' = Flushing \cup {s} /\ s \notin Flushing
      BY <1>4, <2>3 DEF Flushing, BatchTypeOK
    <3>2. Cardinality(Flushing') = Cardinality(Flushing) + 1
      BY <2>1, <3>1, FS_AddElement
    <3>. QED
      BY <1>4, <1>5, <2>1, <2>2, <3>2 DEF BucketFits
  <2>4. CASE Len(bucket) + 1 < maxsize
    <3>1. Flushing' = Flushing
      BY <1>4, <1>5, <2>1, <2>4 DEF Flushing, BatchTypeOK
    <3>. QED
      BY <1>4, <1>5, <2>1, <2>4, <3>1 DEF BucketFits
  <2>. QED
    BY <1>5, <2>1, <2>3, <2>4
<1>. QED
  BY <1>6, <1>9, <1>11, <1>12 DEF BatchInv

(* A new record goes out at once.                                          *)
LEMMA ImmediateStep ==
  ASSUME BatchInv, NEW s \in Senders, NEW t \in Targets, Arrives(s),
         Immediate(s, [id |-> next, target |-> t])
  PROVE  BatchInv'
<1>1. PICK r : r = [id |-> next, target |-> t]
  OBVIOUS
<1>2. next \in 1..MaxRecords /\ next \in Nat /\ MaxRecords \in Nat
  BY BatchAssumption DEF BatchInv, BatchTypeOK, Arrives
<1>3. r \in Record /\ r.id = next /\ r.target = t
  BY <1>1, <1>2 DEF Record
<1>4. PICK q : q = [records |-> <<r>>, to |-> t]
  OBVIOUS
<1>5. /\ BatchTypeOK /\ stage[s] = "idle" /\ next' = next + 1
      /\ request' = [request EXCEPT ![s] = q]
      /\ stage' = [stage EXCEPT ![s] = "deliver"]
      /\ UNCHANGED <<plugin, maxsize, bucket, timer, fired, flights, outcome, running>>
  BY <1>1, <1>3, <1>4 DEF Arrives, Immediate, BatchInv
<1>6. Carried(q) /\ Ids(q.records) = {next}
  BY <1>3, <1>4 DEF Carried, Request, DistinctIds, Ids
<1>7. BatchTypeOK'
  BY <1>2, <1>5, <1>6 DEF BatchTypeOK, Carried
<1>8. Unseen(next) /\ request[s] = Nothing
  BY <1>2, <1>5 DEF BatchInv, RecordsPlaced, RequestsCarried
<1>9. RequestsCarried'
  BY <1>5, <1>6 DEF BatchInv, RequestsCarried, BatchTypeOK
<1>10. ASSUME NEW n \in 1..MaxRecords
       PROVE  /\ AtSenders(n)' = IF n = next THEN {s} ELSE AtSenders(n)
              /\ InBucket(n)' = InBucket(n)
              /\ InFlights(n)' = InFlights(n) /\ Ended(n)' = Ended(n)
  <2>1. AtSenders(next) = {} /\ s \notin AtSenders(n)
    BY <1>8, NothingCarried DEF Unseen, AtSenders
  <2>2. request'[s] = q /\ \A d \in Senders \ {s} : request'[d] = request[d]
    BY <1>5 DEF BatchTypeOK
  <2>3. AtSenders(n)' = IF n = next THEN {s} ELSE AtSenders(n)
    BY <1>6, <2>1, <2>2 DEF AtSenders
  <2>. QED
    BY <1>5, <2>3 DEF InBucket, InFlights, Ended
<1>11. RecordsPlaced'
  <2>1. ASSUME NEW n \in 1..MaxRecords PROVE IF n < next' THEN Lone(n)' ELSE Unseen(n)'
    <3>1. CASE n = next
      <4>1. AtSenders(n)' = {s} /\ InBucket(n)' = {} /\ InFlights(n)' = {} /\ Ended(n)' = {}
        BY <1>8, <1>10, <3>1 DEF Unseen
      <4>2. Lone(n)'
        BY <4>1 DEF Lone, One
      <4>. QED
        BY <1>2, <1>5, <3>1, <4>2
    <3>2. CASE n # next
      <4>1. (n < next' <=> n < next) /\ IF n < next THEN Lone(n) ELSE Unseen(n)
        BY <1>2, <1>5, <3>2 DEF BatchInv, RecordsPlaced
      <4>. QED
        BY <1>10, <3>2, <4>1 DEF Unseen, Lone
    <3>. QED
      BY <3>1, <3>2
  <2>. QED
    BY <2>1 DEF RecordsPlaced
<1>12. BucketFits'
  <2>1. Flushing' = Flushing
    BY <1>5 DEF Flushing, BatchTypeOK
  <2>. QED
    BY <1>5, <2>1 DEF BatchInv, BucketFits, Batching
<1>. QED
  BY <1>7, <1>9, <1>11, <1>12 DEF BatchInv

(* The bucket becomes the request of the sender that filled it.            *)
LEMMA FlushSizeStep ==
  ASSUME BatchInv, NEW s \in Senders, FlushSize(s)
  PROVE  BatchInv'
<1>1. /\ BatchTypeOK /\ stage[s] = "flush" /\ bucket' = <<>> /\ timer' = "off" /\ request[s] = Nothing
      /\ DistinctIds(bucket)
      /\ UNCHANGED <<plugin, maxsize, fired, flights, next, outcome, running>>
  BY DEF FlushSize, BatchInv, RequestsCarried
<1>2. CASE bucket = <<>>
  <2>1. stage' = [stage EXCEPT ![s] = "idle"] /\ UNCHANGED <<request, bucket>>
    BY <1>1, <1>2 DEF FlushSize
  <2>2. BatchTypeOK'
    BY <1>1, <2>1 DEF BatchTypeOK
  <2>3. RequestsCarried' /\ RecordsPlaced'
    BY <1>1, <2>1, <2>2, BatchPlacesKept DEF BatchTypeOK
  <2>4. BucketFits'
    <3>1. Cardinality(Flushing') \in Nat
      <4>1. Flushing' \in SUBSET Senders
        BY DEF Flushing
      <4>. QED
        BY <4>1, FS_Subset, FS_CardinalityType, BatchAssumption
    <3>. QED
      BY <1>1, <3>1, BatchAssumption DEF BucketFits, Batching, BatchTypeOK
  <2>. QED
    BY <2>2, <2>3, <2>4 DEF BatchInv
<1>3. CASE bucket # <<>>
  <2>1. PICK q : q = Batched(bucket)
    OBVIOUS
  <2>2. Carried(q) /\ q.records = bucket
    BY <1>1, <1>3, <2>1, BatchedCarries
  <2>3. request' = [request EXCEPT ![s] = q] /\ stage' = [stage EXCEPT ![s] = "deliver"]
    BY <1>3, <2>1 DEF FlushSize
  <2>4. BatchTypeOK'
    BY <1>1, <2>2, <2>3 DEF BatchTypeOK, Carried
  <2>5. RequestsCarried'
    BY <1>1, <2>2, <2>3, NothingCarried DEF BatchInv, RequestsCarried, BatchTypeOK
  <2>6. ASSUME NEW n \in 1..MaxRecords
        PROVE  /\ InBucket(n)' = {}
               /\ AtSenders(n)' = IF InBucket(n) # {} THEN AtSenders(n) \cup {s} ELSE AtSenders(n)
               /\ InFlights(n)' = InFlights(n) /\ Ended(n)' = Ended(n)
    <3>1. request'[s] = q /\ \A d \in Senders \ {s} : request'[d] = request[d]
      BY <1>1, <2>3 DEF BatchTypeOK
    <3>2. s \notin AtSenders(n) /\ (n \in Ids(q.records) <=> InBucket(n) # {})
      BY <1>1, <2>2, NothingCarried DEF AtSenders, InBucket, Ids
    <3>3. InBucket(n)' = {}
      BY <1>1 DEF InBucket
    <3>. QED
      BY <1>1, <3>1, <3>2, <3>3 DEF AtSenders, InFlights, Ended
  <2>7. RecordsPlaced'
    <3>1. ASSUME NEW n \in 1..MaxRecords PROVE IF n < next' THEN Lone(n)' ELSE Unseen(n)'
      <4>1. IF n < next THEN Lone(n) ELSE Unseen(n)
        BY DEF BatchInv, RecordsPlaced
      <4>. QED
        BY <1>1, <2>6, <4>1 DEF Unseen, Lone, One
    <3>. QED
      BY <3>1 DEF RecordsPlaced
  <2>8. BucketFits'
    <3>1. Cardinality(Flushing') \in Nat
      <4>1. Flushing' \in SUBSET Senders
        BY DEF Flushing
      <4>. QED
        BY <4>1, FS_Subset, FS_CardinalityType, BatchAssumption
    <3>. QED
      BY <1>1, <3>1, BatchAssumption DEF BucketFits, Batching, BatchTypeOK
  <2>. QED
    BY <2>4, <2>5, <2>7, <2>8 DEF BatchInv
<1>. QED
  BY <1>2, <1>3

(* The bucket becomes a delivery of a timer goroutine.                     *)
LEMMA FlushTimerStep ==
  ASSUME BatchInv, FlushTimer
  PROVE  BatchInv'
<1>1. /\ BatchTypeOK /\ bucket' = <<>> /\ timer' = "off" /\ fired > 0 /\ fired' = fired - 1
      /\ DistinctIds(bucket)
      /\ UNCHANGED <<plugin, maxsize, stage, request, next, outcome, running>>
  BY DEF FlushTimer, BatchInv, RequestsCarried
<1>2. fired' \in Nat
  BY <1>1 DEF BatchTypeOK
<1>3. BucketFits'
  <2>1. Flushing' = Flushing /\ Cardinality(Flushing) \in Nat
    BY <1>1, FlushingFinite DEF Flushing
  <2>. QED
    BY <1>1, <2>1, BatchAssumption DEF BucketFits, Batching, BatchTypeOK
<1>4. CASE bucket = <<>>
  <2>1. UNCHANGED <<flights, bucket>>
    BY <1>1, <1>4 DEF FlushTimer
  <2>2. BatchTypeOK'
    BY <1>1, <1>2, <2>1 DEF BatchTypeOK
  <2>3. RequestsCarried' /\ RecordsPlaced'
    BY <1>1, <2>1, <2>2, BatchPlacesKept
  <2>. QED
    BY <1>3, <2>2, <2>3 DEF BatchInv
<1>5. CASE bucket # <<>>
  <2>1. PICK q : q = Batched(bucket)
    OBVIOUS
  <2>2. Carried(q) /\ q.records = bucket
    BY <1>1, <1>5, <2>1, BatchedCarries
  <2>3. flights' = flights \cup {q}
    BY <1>5, <2>1 DEF FlushTimer
  <2>4. BatchTypeOK'
    BY <1>1, <1>2, <2>2, <2>3 DEF BatchTypeOK, Carried
  <2>5. RequestsCarried'
    BY <1>1, <2>2, <2>3, NothingCarried DEF BatchInv, RequestsCarried
  <2>6. ASSUME NEW n \in 1..MaxRecords
        PROVE  /\ InBucket(n)' = {}
               /\ InFlights(n)' = IF InBucket(n) # {} THEN InFlights(n) \cup {q} ELSE InFlights(n)
               /\ AtSenders(n)' = AtSenders(n) /\ Ended(n)' = Ended(n)
    <3>1. n \in Ids(q.records) <=> InBucket(n) # {}
      BY <2>2 DEF InBucket, Ids
    <3>2. InBucket(n)' = {}
      BY <1>1 DEF InBucket
    <3>. QED
      BY <1>1, <2>3, <3>1, <3>2 DEF AtSenders, InFlights, Ended
  <2>7. RecordsPlaced'
    <3>1. ASSUME NEW n \in 1..MaxRecords PROVE IF n < next' THEN Lone(n)' ELSE Unseen(n)'
      <4>1. IF n < next THEN Lone(n) ELSE Unseen(n)
        BY DEF BatchInv, RecordsPlaced
      <4>. QED
        BY <1>1, <2>6, <4>1 DEF Unseen, Lone, One
    <3>. QED
      BY <3>1 DEF RecordsPlaced
  <2>. QED
    BY <1>3, <2>4, <2>5, <2>7 DEF BatchInv
<1>. QED
  BY <1>4, <1>5

(* A finished request reports each of its records once.                    *)
LEMMA ReportedOnce ==
  ASSUME BatchInv, NEW q, Carried(q), NEW ok \in BOOLEAN, outcome' = Reported(q, ok)
  PROVE  /\ outcome' \subseteq [id : 1..MaxRecords, target : Targets, to : Targets, ok : BOOLEAN]
         /\ \A n : n \notin Ids(q.records) => Ended(n)' = Ended(n)
         /\ \A n : n \in Ids(q.records) /\ Ended(n) = {} => One(Ended(n)')
<1> DEFINE report(i) == [id |-> q.records[i].id, target |-> q.records[i].target,
                         to |-> q.to, ok |-> ok]
<1>1. q.records \in Seq(Record) /\ q.to \in Targets
  BY DEF Carried, Request
<1>2. \A i \in DOMAIN q.records : q.records[i] \in Record
  BY <1>1, ElementOfSeq, LenProperties
<1>3. outcome' = outcome \cup {report(i) : i \in DOMAIN q.records}
  BY DEF Reported
<1>4. \A i : report(i).id = q.records[i].id
  OBVIOUS
<1>5. \A i \in DOMAIN q.records :
         report(i) \in [id : 1..MaxRecords, target : Targets, to : Targets, ok : BOOLEAN]
  BY <1>1, <1>2 DEF Record
<1> HIDE DEF report
<1>6. ASSUME NEW n, n \in Ids(q.records), Ended(n) = {} PROVE One(Ended(n)')
  <2>1. PICK i \in DOMAIN q.records : q.records[i].id = n
    BY <1>6 DEF Ids
  <2>2. Ended(n)' = {report(i)}
    BY <1>3, <1>4, <1>6, <2>1 DEF Ended, Carried, DistinctIds
  <2>. QED
    BY <2>2 DEF One
<1>7. \A n : n \notin Ids(q.records) => Ended(n)' = Ended(n)
  BY <1>3, <1>4 DEF Ended, Ids
<1>. QED
  BY <1>3, <1>5, <1>6, <1>7 DEF BatchInv, BatchTypeOK

(* A delivery ends, of a sender or of a timer goroutine.                   *)
LEMMA FinishedStep ==
  ASSUME BatchInv, NEW q \in Requests, NEW ok \in BOOLEAN, Finished(q, ok)
  PROVE  BatchInv'
<1>1. /\ BatchTypeOK /\ outcome' = Reported(q, ok)
      /\ UNCHANGED <<plugin, maxsize, bucket, timer, fired, next, running>>
  BY DEF Finished, BatchInv
<1>2. Carried(q)
  BY DEF Requests, BatchInv, RequestsCarried
<1>3. /\ outcome' \subseteq [id : 1..MaxRecords, target : Targets, to : Targets, ok : BOOLEAN]
      /\ \A n : n \notin Ids(q.records) => Ended(n)' = Ended(n)
      /\ \A n : n \in Ids(q.records) /\ Ended(n) = {} => One(Ended(n)')
  BY <1>1, <1>2, ReportedOnce
<1>4. ASSUME NEW s \in Senders, stage[s] = "deliver", request[s] = q,
             stage' = [stage EXCEPT ![s] = "idle"],
             request' = [request EXCEPT ![s] = Nothing], UNCHANGED flights
      PROVE  BatchInv'
  <2>1. Nothing \in Request
    BY DEF Nothing, Request
  <2>2. BatchTypeOK'
    BY <1>1, <1>3, <1>4, <2>1 DEF BatchTypeOK
  <2>3. RequestsCarried'
    BY <1>1, <1>4 DEF BatchInv, RequestsCarried, BatchTypeOK
  <2>4. ASSUME NEW n \in 1..MaxRecords
        PROVE  /\ AtSenders(n)' = AtSenders(n) \ {s}
               /\ s \in AtSenders(n) <=> n \in Ids(q.records)
               /\ InBucket(n)' = InBucket(n) /\ InFlights(n)' = InFlights(n)
    <3>1. request'[s] = Nothing /\ \A d \in Senders \ {s} : request'[d] = request[d]
      BY <1>1, <1>4 DEF BatchTypeOK
    <3>. QED
      BY <1>1, <1>4, <3>1, NothingCarried DEF AtSenders, InBucket, InFlights
  <2>5. RecordsPlaced'
    <3>1. ASSUME NEW n \in 1..MaxRecords PROVE IF n < next' THEN Lone(n)' ELSE Unseen(n)'
      <4>1. IF n < next THEN Lone(n) ELSE Unseen(n)
        BY DEF BatchInv, RecordsPlaced
      <4>. QED
        BY <1>1, <1>3, <2>4, <4>1 DEF Unseen, Lone, One
    <3>. QED
      BY <3>1 DEF RecordsPlaced
  <2>6. BucketFits'
    <3>1. Flushing' = Flushing
      BY <1>1, <1>4 DEF Flushing, BatchTypeOK
    <3>. QED
      BY <1>1, <3>1 DEF BatchInv, BucketFits, Batching
  <2>. QED
    BY <2>2, <2>3, <2>5, <2>6 DEF BatchInv
<1>5. ASSUME q \in flights, flights' = flights \ {q}, UNCHANGED <<stage, request>>
      PROVE  BatchInv'
  <2>1. BatchTypeOK'
    BY <1>1, <1>3, <1>5 DEF BatchTypeOK
  <2>2. RequestsCarried'
    BY <1>1, <1>5 DEF BatchInv, RequestsCarried
  <2>3. ASSUME NEW n \in 1..MaxRecords
        PROVE  /\ InFlights(n)' = InFlights(n) \ {q}
               /\ q \in InFlights(n) <=> n \in Ids(q.records)
               /\ InBucket(n)' = InBucket(n) /\ AtSenders(n)' = AtSenders(n)
    BY <1>1, <1>5 DEF AtSenders, InBucket, InFlights
  <2>4. RecordsPlaced'
    <3>1. ASSUME NEW n \in 1..MaxRecords PROVE IF n < next' THEN Lone(n)' ELSE Unseen(n)'
      <4>1. IF n < next THEN Lone(n) ELSE Unseen(n)
        BY DEF BatchInv, RecordsPlaced
      <4>. QED
        BY <1>1, <1>3, <2>3, <4>1 DEF Unseen, Lone, One
    <3>. QED
      BY <3>1 DEF RecordsPlaced
  <2>5. BucketFits'
    <3>1. Flushing' = Flushing
      BY <1>5 DEF Flushing
    <3>. QED
      BY <1>1, <3>1 DEF BatchInv, BucketFits, Batching
  <2>. QED
    BY <2>1, <2>2, <2>4, <2>5 DEF BatchInv
<1>. QED
  BY <1>4, <1>5 DEF Finished

(* Every step keeps the invariant.                                         *)
LEMMA BatchStep ==
  ASSUME BatchInv, [BatchNext]_batchVars
  PROVE  BatchInv'
<1>1. ASSUME UNCHANGED <<plugin, maxsize, bucket, stage, request, flights, next, outcome>>,
             timer' \in {"off", "armed"}, fired' \in Nat, running' \in BOOLEAN
      PROVE  BatchInv'
  <2>1. BatchTypeOK'
    BY <1>1 DEF BatchInv, BatchTypeOK
  <2>2. RequestsCarried' /\ RecordsPlaced'
    BY <1>1, <2>1, BatchPlacesKept
  <2>3. BucketFits'
    BY <1>1 DEF BatchInv, BucketFits, Batching, Flushing
  <2>. QED
    BY <2>1, <2>2, <2>3 DEF BatchInv
<1>2. Recipients \in Targets
  BY BatchAssumption DEF Recipients
<1>3. ASSUME NEW s \in Senders, Send(s) PROVE BatchInv'
  <2>1. /\ Arrives(s)
        /\ \E t \in Targets : \/ Batching /\ QueueForBatch(s, [id |-> next, target |-> t])
                              \/ Immediate(s, [id |-> next, target |-> t])
    BY <1>2, <1>3 DEF Send, WebhookSend, MailSend, ScriptSend
  <2>. QED
    BY <2>1, BatchQueueStep, ImmediateStep
<1>4. ASSUME NEW s \in Senders, FlushSize(s) PROVE BatchInv'
  BY <1>4, FlushSizeStep
<1>5. CASE TimerFires
  BY <1>1, <1>5 DEF TimerFires, BatchInv, BatchTypeOK
<1>6. CASE FlushTimer
  BY <1>6, FlushTimerStep
<1>7. CASE Deliver
  BY <1>7, FinishedStep DEF Deliver, WebhookDeliver, MailDeliver, RunCommand
<1>8. CASE Exit
  BY <1>1, <1>8 DEF Exit, BatchInv, BatchTypeOK
<1>9. CASE Exited \/ UNCHANGED batchVars
  BY <1>1, <1>9 DEF Exited, batchVars, BatchInv, BatchTypeOK
<1>. QED
  BY <1>3, <1>4, <1>5, <1>6, <1>7, <1>8, <1>9 DEF BatchNext

(* Size trigger, timer and stale timers race for the bucket, and every     *)
(* record that was sent is still in exactly one place: none is dropped     *)
(* between two flushes, none goes out twice, and the bucket outgrows its   *)
(* size only by the senders about to flush it (queueForBatch, flushBucket).*)
THEOREM RecordsInOnePlace == BatchSpec => []BatchesHold
<1>1. BatchInit => BatchInv
  <2> SUFFICES ASSUME BatchInit PROVE BatchInv
    OBVIOUS
  <2>1. Nothing \in Request
    BY DEF Nothing, Request
  <2>2. BatchTypeOK
    BY <2>1, BatchAssumption DEF BatchInit, BatchTypeOK
  <2>3. RequestsCarried
    BY NothingCarried DEF BatchInit, RequestsCarried
  <2>4. RecordsPlaced
    BY NothingCarried DEF BatchInit, RecordsPlaced, Unseen, InBucket, AtSenders, InFlights, Ended
  <2>5. BucketFits
    BY <2>2, EmptyFits DEF BatchInit
  <2>. QED
    BY <2>2, <2>3, <2>4, <2>5 DEF BatchInv
<1>2. BatchInv /\ [BatchNext]_batchVars => BatchInv'
  BY BatchStep
<1>3. BatchInv => BatchesHold
  <2> SUFFICES ASSUME BatchInv PROVE BatchTypeOK /\ OnePlace /\ BucketBound
    BY DEF BatchesHold
  <2>1. BatchTypeOK /\ BucketFits
    BY DEF BatchInv
  <2>2. OnePlace
    <3>1. ASSUME NEW n \in 1..(next - 1) PROVE n \in 1..MaxRecords /\ n < next
      BY <2>1, BatchAssumption DEF BatchTypeOK
    <3>. QED
      BY <3>1, LoneIsOnePlace DEF OnePlace, BatchInv, RecordsPlaced
  <2>3. BucketBound
    <3>1. /\ Cardinality(Flushing) \in Nat /\ Cardinality(Senders) \in Nat
          /\ Cardinality(Flushing) <= Cardinality(Senders)
      BY FlushingFinite
    <3>2. Len(bucket) \in Nat /\ maxsize \in Int
      BY <2>1, LenProperties, BatchAssumption DEF BatchTypeOK
    <3>. QED
      BY <2>1, <3>1, <3>2 DEF BucketFits, BucketBound
  <2>. QED
    BY <2>1, <2>2, <2>3
<1>. QED
  BY <1>1, <1>2, <1>3, PTL DEF BatchSpec

-----------------------------------------------------------------------------
(* THE INCIDENTS                                                           *)

RenderedNames == UNION {a.names : a \in Alerts}
NoticeType == [rec : Alerts, state : {"open", "close"}, name : RenderedNames,
               step : {"send", "patch", "done"}, target : Nat, result : {"none", "ok", "error"}]
IncidentType == [key : {correlation(a) : a \in Alerts}, name : RenderedNames, rec : Alerts,
                 open : BOOLEAN, closedBy : SUBSET Alerts]

IncidentTypeOK ==
    /\ service \in Services \cup {"none"}
    /\ sends \in Seq(NoticeType) /\ incidents \in Seq(IncidentType)

\* What a notification holds while it is under way: the target of a change is
\* an incident of its record, or one with its name.
NoticeShape ==
    \A i \in DOMAIN sends :
        /\ sends[i].name \in sends[i].rec.names
        /\ sends[i].step = "done" <=> sends[i].result # "none"
        /\ sends[i].target = 0 \/ sends[i].target \in DOMAIN incidents
        /\ sends[i].step = "send" => sends[i].target = 0
        /\ sends[i].step = "patch" =>
              /\ ~Keyed /\ sends[i].state = "close" /\ sends[i].target \in DOMAIN incidents
              /\ \/ incidents[sends[i].target].rec = sends[i].rec
                 \/ service = "statuspage" /\ incidents[sends[i].target].name = sends[i].name

\* An incident has the key and the name of a firing of its record.
IncidentShape ==
    \A j \in DOMAIN incidents :
        /\ incidents[j].key = correlation(incidents[j].rec)
        /\ \E i \in Of(incidents[j].rec) :
              sends[i].state = "open" /\ sends[i].step = "done" /\ sends[i].name = incidents[j].name

Belongs(j, a) == j \in DOMAIN incidents /\ incidents[j].rec = a
IsLive(j, a) == Belongs(j, a) /\ incidents[j].open

\* None of the record's notifications has failed or overlapped another.
Smooth(a) == a \notin overlapped /\ \A i \in Of(a) : sends[i].result # "error"

OnlyFiring(f, a) ==
    f \in Of(a) /\ sends[f].state = "open" /\ \A g \in Of(a) : sends[g].state = "open" => g = f

FiredInTurn(a) ==
    \A i \in Of(a) : \A k \in Of(a) : sends[i].state = "open" /\ sends[k].state = "open" /\ i < k =>
        \E c \in Of(a) : i < c /\ c < k /\ sends[c].state = "close"

NamedAlone(a) ==
    \A i \in DOMAIN sends : \A k \in Of(a) : (i \in Of(a)) <=> (sends[i].name = sends[k].name)

OneName(a) == service = "statuspage" /\ FiredInTurn(a) /\ NamedAlone(a)

\* The notifications of a record go one after the other.
OneByOne(a) ==
    Smooth(a) => \A i \in Of(a) : \A k \in Of(a) :
        k < i /\ sends[i].step # "send" => sends[k].step = "done"

\* A record that fired once has one incident at most.
OneIncident(a) ==
    \A f \in Of(a) : OnlyFiring(f, a) => \A j, l \in Nat : Belongs(j, a) /\ Belongs(l, a) => j = l

\* An incident that is open has a firing no close has come after.
LiveWasFired(a) ==
    Smooth(a) /\ (Keyed \/ (service = "servicenow" /\ \E f \in Of(a) : OnlyFiring(f, a)) \/ OneName(a)) =>
        \A j \in Nat : IsLive(j, a) =>
            \E f \in Of(a) : /\ sends[f].state = "open" /\ sends[f].step = "done"
                             /\ \A c \in Of(a) : f < c /\ sends[c].state = "close" => sends[c].step # "done"

\* A firing no close has come after has an incident that is open.
FiredIsLive(a) ==
    Smooth(a) /\ service # "statuspage" =>
        \A f \in Of(a) :
            /\ sends[f].state = "open" /\ sends[f].step = "done"
            /\ \A c \in Of(a) : f < c /\ sends[c].state = "close" => sends[c].step = "send"
            => \E j \in Nat : IsLive(j, a)

\* A name of its own has one open incident at most, and a close that found one
\* is about to resolve it.
OneOpen(a) ==
    Smooth(a) /\ OneName(a) =>
        /\ \A j, l \in Nat : IsLive(j, a) /\ IsLive(l, a) => j = l
        /\ \A i \in Of(a) : sends[i].step = "patch" => \A j \in Nat : IsLive(j, a) => j = sends[i].target

Follows(a) == OneByOne(a) /\ OneIncident(a) /\ LiveWasFired(a) /\ FiredIsLive(a) /\ OneOpen(a)

IncidentInv ==
    /\ IncidentTypeOK /\ NoticeShape /\ IncidentShape /\ ResolvesItsOwn /\ SentWasDone
    /\ \A a \in Alerts : Follows(a)

\* Notification i moves on; its record, state and name, and the other
\* notifications, stay.
Moved(i, step, target, result) ==
    /\ sends' \in Seq(NoticeType) /\ DOMAIN sends' = DOMAIN sends
    /\ \A k \in DOMAIN sends : k # i => sends'[k] = sends[k]
    /\ sends'[i].rec = sends[i].rec /\ sends'[i].state = sends[i].state /\ sends'[i].name = sends[i].name
    /\ sends'[i].step = step /\ sends'[i].target = target /\ sends'[i].result = result

(* dedup_key, alias and correlation_id tell records apart.                 *)
LEMMA CorrelationIdentifies ==
  ASSUME NEW a \in Alerts, NEW b \in Alerts, correlation(a) = correlation(b)
  PROVE  a = b
  BY AlertsAssumption DEF correlation, NoHash

(* A notification ends.                                                    *)
LEMMA DoneMoves ==
  ASSUME IncidentTypeOK, NEW i \in DOMAIN sends, NEW r \in {"ok", "error"}, sends' = Done(i, r)
  PROVE  Moved(i, "done", sends[i].target, r)
<1>1. sends[i] \in NoticeType /\ DOMAIN sends = 1..Len(sends) /\ Len(sends) \in Nat
  BY DEF IncidentTypeOK
<1>2. PICK s : s = [sends[i] EXCEPT !.step = "done", !.result = r]
  OBVIOUS
<1>3. /\ s \in NoticeType /\ s.rec = sends[i].rec /\ s.state = sends[i].state /\ s.name = sends[i].name
      /\ s.step = "done" /\ s.target = sends[i].target /\ s.result = r
  BY <1>1, <1>2 DEF NoticeType
<1>4. sends' = [sends EXCEPT ![i] = s]
  BY <1>2 DEF Done, IncidentTypeOK
<1>. QED
  BY <1>1, <1>3, <1>4 DEF Moved, IncidentTypeOK

(* A search has found what it will change.                                 *)
LEMMA FoundMoves ==
  ASSUME IncidentTypeOK, NEW i \in DOMAIN sends, NEW j \in Nat,
         sends' = [sends EXCEPT ![i].step = "patch", ![i].target = j]
  PROVE  Moved(i, "patch", j, sends[i].result)
<1>1. sends[i] \in NoticeType /\ DOMAIN sends = 1..Len(sends) /\ Len(sends) \in Nat
  BY DEF IncidentTypeOK
<1>2. PICK s : s = [sends[i] EXCEPT !.step = "patch", !.target = j]
  OBVIOUS
<1>3. /\ s \in NoticeType /\ s.rec = sends[i].rec /\ s.state = sends[i].state /\ s.name = sends[i].name
      /\ s.step = "patch" /\ s.target = j /\ s.result = sends[i].result
  BY <1>1, <1>2 DEF NoticeType
<1>4. sends' = [sends EXCEPT ![i] = s]
  BY <1>2 DEF IncidentTypeOK
<1>5. sends' \in Seq(NoticeType) /\ DOMAIN sends' = DOMAIN sends
  <2>1. sends \in Seq(NoticeType) /\ i \in 1..Len(sends) /\ s \in NoticeType
    BY <1>1, <1>3 DEF IncidentTypeOK
  <2>2. [sends EXCEPT ![i] = s] \in Seq(NoticeType)
    BY <2>1, ExceptSeq
  <2>. QED
    BY <1>4, <2>1, <2>2
<1>6. sends'[i] = s /\ \A k \in DOMAIN sends : k # i => sends'[k] = sends[k]
  BY <1>4 DEF IncidentTypeOK
<1>. QED
  BY <1>3, <1>5, <1>6 DEF Moved

(* What a record's notifications say of it does not depend on how far they *)
(* have come.                                                              *)
LEMMA MovedKeeps ==
  ASSUME IncidentTypeOK, NEW i \in DOMAIN sends, NEW step, NEW target, NEW result,
         Moved(i, step, target, result), NEW a, service' = service
  PROVE  /\ Of(a)' = Of(a)
         /\ \A k \in DOMAIN sends : /\ sends'[k].rec = sends[k].rec /\ sends'[k].state = sends[k].state
                                    /\ sends'[k].name = sends[k].name
         /\ \A f \in Of(a) : OnlyFiring(f, a)' <=> OnlyFiring(f, a)
         /\ OneName(a)' <=> OneName(a)
<1>1. \A k \in DOMAIN sends : /\ sends'[k].rec = sends[k].rec /\ sends'[k].state = sends[k].state
                              /\ sends'[k].name = sends[k].name
  BY DEF Moved
<1>2. Of(a)' = Of(a) /\ DOMAIN sends' = DOMAIN sends
  BY <1>1 DEF Moved, Of
<1>3. Of(a) \subseteq DOMAIN sends
  BY DEF Of
<1>4. \A f \in Of(a) : OnlyFiring(f, a)' <=> OnlyFiring(f, a)
  BY <1>1, <1>2, <1>3 DEF OnlyFiring
<1>5. FiredInTurn(a)' <=> FiredInTurn(a)
  <2>1. \A k \in Of(a) : sends'[k].state = sends[k].state
    BY <1>1, <1>3
  <2> DEFINE o == Of(a)
  <2>2. \A k \in o : sends'[k].state = sends[k].state
    BY <2>1
  <2>3. FiredInTurn(a) <=>
          \A m \in o : \A k \in o : sends[m].state = "open" /\ sends[k].state = "open" /\ m < k =>
             \E c \in o : m < c /\ c < k /\ sends[c].state = "close"
    BY DEF FiredInTurn
  <2>4. FiredInTurn(a)' <=>
          \A m \in o : \A k \in o : sends'[m].state = "open" /\ sends'[k].state = "open" /\ m < k =>
             \E c \in o : m < c /\ c < k /\ sends'[c].state = "close"
    BY <1>2 DEF FiredInTurn
  <2> HIDE DEF o
  <2>. QED
    BY <2>2, <2>3, <2>4
<1>6. NamedAlone(a)' <=> NamedAlone(a)
  <2>1. \A k \in DOMAIN sends : sends'[k].name = sends[k].name
    BY <1>1
  <2>2. \A k \in Of(a) : sends'[k].name = sends[k].name
    BY <1>3, <2>1
  <2>. QED
    BY <1>2, <2>1, <2>2, Zenon DEF NamedAlone
<1>. QED
  BY <1>1, <1>2, <1>4, <1>5, <1>6 DEF OneName

(* Smooth only ever turns false.                                           *)
LEMMA SmoothBefore ==
  ASSUME IncidentTypeOK, NEW i \in DOMAIN sends, NEW step, NEW target, NEW result,
         Moved(i, step, target, result), sends[i].result = "none",
         NEW a, overlapped \subseteq overlapped', Smooth(a)'
  PROVE  Smooth(a)
<1>1. Of(a)' = Of(a) /\ Of(a) \subseteq DOMAIN sends
  BY DEF Moved, Of
<1>2. ASSUME NEW k \in Of(a) PROVE sends[k].result # "error"
  BY <1>1 DEF Moved, Smooth
<1>. QED
  BY <1>2 DEF Smooth

(* The incidents a close resolves.                                         *)
LEMMA ClosedEffect ==
  ASSUME IncidentTypeOK, NEW T, NEW b \in Alerts, incidents' = CloseAll(T, b)
  PROVE  /\ incidents' \in Seq(IncidentType) /\ DOMAIN incidents' = DOMAIN incidents
         /\ \A j \in DOMAIN incidents :
               /\ incidents'[j].key = incidents[j].key /\ incidents'[j].name = incidents[j].name
               /\ incidents'[j].rec = incidents[j].rec
               /\ j \notin T => incidents'[j] = incidents[j]
               /\ j \in T => incidents'[j].closedBy = incidents[j].closedBy \cup {b}
         /\ \A a : \A j \in Nat : Belongs(j, a)' <=> Belongs(j, a)
         /\ \A a : \A j \in Nat : IsLive(j, a)' <=> IsLive(j, a) /\ j \notin T
<1>1. incidents' = [j \in DOMAIN incidents |->
        IF j \in T THEN [incidents[j] EXCEPT !.open = FALSE, !.closedBy = @ \cup {b}] ELSE incidents[j]]
  BY DEF CloseAll
<1>2. DOMAIN incidents = 1..Len(incidents) /\ Len(incidents) \in Nat
  BY DEF IncidentTypeOK
<1>3. ASSUME NEW j \in DOMAIN incidents
      PROVE  /\ incidents'[j] \in IncidentType
             /\ incidents'[j].key = incidents[j].key /\ incidents'[j].name = incidents[j].name
             /\ incidents'[j].rec = incidents[j].rec
             /\ j \notin T => incidents'[j] = incidents[j]
             /\ j \in T => incidents'[j].closedBy = incidents[j].closedBy \cup {b}
             /\ j \in T => ~incidents'[j].open
  <2>1. incidents[j] \in IncidentType
    BY DEF IncidentTypeOK
  <2>2. CASE j \in T
    <3>1. PICK e : e = [incidents[j] EXCEPT !.open = FALSE, !.closedBy = @ \cup {b}]
      OBVIOUS
    <3>2. /\ e \in IncidentType /\ e.key = incidents[j].key /\ e.name = incidents[j].name
          /\ e.rec = incidents[j].rec /\ e.closedBy = incidents[j].closedBy \cup {b} /\ e.open = FALSE
      BY <2>1, <3>1 DEF IncidentType
    <3>3. incidents'[j] = e
      BY <1>1, <2>2, <3>1
    <3>. QED
      BY <2>2, <3>2, <3>3
  <2>3. CASE j \notin T
    BY <1>1, <2>1, <2>3
  <2>. QED
    BY <2>2, <2>3
<1>4. DOMAIN incidents' = DOMAIN incidents
  BY <1>1
<1>5. incidents' \in Seq(IncidentType)
  <2>1. incidents' = [j \in 1..Len(incidents) |-> incidents'[j]]
    BY <1>1, <1>2
  <2>2. \A j \in 1..Len(incidents) : incidents'[j] \in IncidentType
    BY <1>2, <1>3
  <2>. QED
    BY <1>2, <2>1, <2>2, IsASeq
<1>6. ASSUME NEW a, NEW j \in Nat PROVE Belongs(j, a)' <=> Belongs(j, a)
  BY <1>3, <1>4 DEF Belongs
<1>7. ASSUME NEW a, NEW j \in Nat PROVE IsLive(j, a)' <=> IsLive(j, a) /\ j \notin T
  <2>1. CASE j \in DOMAIN incidents
    BY <1>3, <1>6, <2>1, Zenon DEF IsLive
  <2>2. CASE j \notin DOMAIN incidents
    BY <1>6, <2>2 DEF IsLive, Belongs
  <2>. QED
    BY <2>1, <2>2
<1>. QED
  BY <1>3, <1>4, <1>5, <1>6, <1>7

\* Notification i has opened incident n.
Opened(n, i) ==
    /\ incidents' \in Seq(IncidentType) /\ DOMAIN incidents' = DOMAIN incidents \cup {n}
    /\ n \in Nat /\ n # 0 /\ n \notin DOMAIN incidents
    /\ \A j \in DOMAIN incidents : incidents'[j] = incidents[j]
    /\ incidents'[n] = incident(sends[i])

(* The incident a firing opens.                                            *)
LEMMA AppendOpens ==
  ASSUME IncidentTypeOK, NEW i \in DOMAIN sends, incidents' = Append(incidents, incident(sends[i]))
  PROVE  \E n \in Nat : Opened(n, i)
<1>1. DOMAIN incidents = 1..Len(incidents) /\ Len(incidents) \in Nat /\ sends[i] \in NoticeType
  BY DEF IncidentTypeOK
<1>2. PICK e : e = incident(sends[i])
  OBVIOUS
<1>3. e \in IncidentType
  BY <1>1, <1>2 DEF incident, IncidentType, NoticeType
<1>4. PICK n \in Nat : n = Len(incidents) + 1
  BY <1>1
<1>5. /\ incidents' \in Seq(IncidentType) /\ DOMAIN incidents' = DOMAIN incidents \cup {n}
      /\ n # 0 /\ n \notin DOMAIN incidents
      /\ \A j \in DOMAIN incidents : incidents'[j] = incidents[j]
      /\ incidents'[n] = e
  BY <1>1, <1>2, <1>3, <1>4, AppendProperties DEF IncidentTypeOK
<1>. QED
  BY <1>2, <1>5 DEF Opened

(* It belongs to the record that fired, and no other one changes.          *)
LEMMA OpenedLive ==
  ASSUME IncidentTypeOK, NEW i \in DOMAIN sends, NEW n \in Nat, Opened(n, i), NEW a
  PROVE  /\ \A j \in Nat : Belongs(j, a)' <=> Belongs(j, a) \/ (j = n /\ sends[i].rec = a)
         /\ \A j \in Nat : IsLive(j, a)' <=> IsLive(j, a) \/ (j = n /\ sends[i].rec = a)
<1>1. PICK e : e = incident(sends[i])
  OBVIOUS
<1>2. e.rec = sends[i].rec /\ e.open = TRUE
  BY <1>1 DEF incident
<1>3. /\ incidents'[n] = e /\ DOMAIN incidents' = DOMAIN incidents \cup {n} /\ n \notin DOMAIN incidents
      /\ \A j \in DOMAIN incidents : incidents'[j] = incidents[j]
  BY <1>1 DEF Opened
<1>4. ASSUME NEW j \in Nat PROVE Belongs(j, a)' <=> Belongs(j, a) \/ (j = n /\ sends[i].rec = a)
  BY <1>2, <1>3 DEF Belongs
<1>5. ASSUME NEW j \in Nat PROVE IsLive(j, a)' <=> IsLive(j, a) \/ (j = n /\ sends[i].rec = a)
  <2>1. CASE j \in DOMAIN incidents
    BY <1>3, <1>4, <2>1, Zenon DEF IsLive, Belongs
  <2>2. CASE j = n
    BY <1>2, <1>3, <1>4, <2>2, Zenon DEF IsLive, Belongs
  <2>3. CASE j \notin DOMAIN incidents /\ j # n
    BY <1>3, <1>4, <2>3, Zenon DEF IsLive, Belongs
  <2>. QED
    BY <2>1, <2>2, <2>3
<1>. QED
  BY <1>4, <1>5

(* The notifications of a record go on as before when another one moves.   *)
LEMMA FollowsOther ==
  ASSUME IncidentTypeOK, NEW i \in DOMAIN sends, NEW step, NEW target, NEW result,
         Moved(i, step, target, result), sends[i].result = "none",
         NEW a, sends[i].rec # a, service' = service, overlapped \subseteq overlapped',
         \A j \in Nat : Belongs(j, a)' <=> Belongs(j, a),
         \A j \in Nat : IsLive(j, a)' => IsLive(j, a),
         service # "statuspage" => \A j \in Nat : IsLive(j, a) => IsLive(j, a)',
         Follows(a)
  PROVE  Follows(a)'
<1>1. /\ Of(a)' = Of(a)
      /\ \A f \in Of(a) : OnlyFiring(f, a)' <=> OnlyFiring(f, a)
      /\ OneName(a)' <=> OneName(a)
  BY MovedKeeps
<1>2. \A k \in Of(a) : sends'[k] = sends[k]
  BY DEF Moved, Of
<1>3. Smooth(a)' => Smooth(a)
  BY SmoothBefore
<1>4. OneByOne(a)'
  BY <1>1, <1>2, <1>3 DEF Follows, OneByOne
<1>5. OneIncident(a)'
  BY <1>1 DEF Follows, OneIncident
<1>6. LiveWasFired(a)'
  <2> SUFFICES ASSUME Smooth(a)',
                      (Keyed \/ (service = "servicenow" /\ \E f \in Of(a) : OnlyFiring(f, a)) \/ OneName(a))',
                      NEW j \in Nat, IsLive(j, a)'
               PROVE  \E f \in Of(a) : /\ sends'[f].state = "open" /\ sends'[f].step = "done"
                                       /\ \A c \in Of(a) : f < c /\ sends'[c].state = "close" => sends'[c].step # "done"
    BY <1>1 DEF LiveWasFired
  <2>1. Keyed \/ (service = "servicenow" /\ \E f \in Of(a) : OnlyFiring(f, a)) \/ OneName(a)
    BY <1>1 DEF Keyed
  <2>2. \E f \in Of(a) : /\ sends[f].state = "open" /\ sends[f].step = "done"
                         /\ \A c \in Of(a) : f < c /\ sends[c].state = "close" => sends[c].step # "done"
    BY <1>3, <2>1 DEF Follows, LiveWasFired
  <2>. QED
    BY <1>2, <2>2
<1>7. FiredIsLive(a)'
  <2> SUFFICES ASSUME Smooth(a)', service # "statuspage", NEW f \in Of(a),
                      sends'[f].state = "open", sends'[f].step = "done",
                      \A c \in Of(a) : f < c /\ sends'[c].state = "close" => sends'[c].step = "send"
               PROVE  \E j \in Nat : IsLive(j, a)'
    BY <1>1 DEF FiredIsLive
  <2>1. \E j \in Nat : IsLive(j, a)
    BY <1>2, <1>3 DEF Follows, FiredIsLive
  <2>. QED
    BY <2>1
<1>8. OneOpen(a)'
  BY <1>1, <1>2, <1>3 DEF Follows, OneOpen
<1>. QED
  BY <1>4, <1>5, <1>6, <1>7, <1>8 DEF Follows

(* A notification that fails ends what can be said of its record, but for  *)
(* the number of its incidents.                                            *)
LEMMA FollowsFailed ==
  ASSUME IncidentTypeOK, NEW i \in DOMAIN sends, NEW target,
         Moved(i, "done", target, "error"), service' = service,
         NEW a, sends[i].rec = a,
         OneIncident(a)'
  PROVE  Follows(a)'
<1>1. Of(a)' = Of(a) /\ i \in Of(a)
  BY MovedKeeps DEF Of
<1>2. ~Smooth(a)'
  BY <1>1 DEF Smooth, Moved
<1>. QED
  BY <1>2 DEF Follows, OneByOne, LiveWasFired, FiredIsLive, OneOpen

(* A first request that does not overlap comes after the earlier ones of   *)
(* its record and before the later ones.                                   *)
LEMMA FirstRequest ==
  ASSUME IncidentTypeOK, NEW i \in DOMAIN sends, Overlap(i), NEW a, sends[i].rec = a, a \notin overlapped'
  PROVE  /\ \A k \in Of(a) : k < i => sends[k].step = "done"
         /\ \A k \in Of(a) : i < k => sends[k].step = "send"
<1>1. ~ \E k \in DOMAIN sends \ {i} :
            /\ sends[k].rec = sends[i].rec
            /\ IF k < i THEN sends[k].step # "done" ELSE sends[k].step # "send"
  BY DEF Overlap
<1>2. DOMAIN sends \subseteq Nat
  BY DEF IncidentTypeOK
<1>. QED
  BY <1>1, <1>2 DEF Of

(* After the step the notifications of the record still go one by one.     *)
LEMMA StaysOneByOne ==
  ASSUME IncidentTypeOK, NEW i \in DOMAIN sends, NEW step, NEW target, NEW result,
         Moved(i, step, target, result), service' = service, NEW a, sends[i].rec = a,
         Smooth(a)' => /\ \A k \in Of(a) : k < i => sends[k].step = "done"
                       /\ \A k \in Of(a) : i < k => sends[k].step = "send",
         Smooth(a)' => Smooth(a), OneByOne(a)
  PROVE  OneByOne(a)'
<1>1. Of(a)' = Of(a) /\ Of(a) \subseteq DOMAIN sends /\ DOMAIN sends \subseteq Nat
  <2>1. Of(a)' = Of(a)
    BY MovedKeeps
  <2>. QED
    BY <2>1 DEF Of, IncidentTypeOK
<1>2. SUFFICES ASSUME Smooth(a)', NEW m \in Of(a), NEW k \in Of(a), k < m, sends'[m].step # "send"
               PROVE  sends'[k].step = "done"
  BY <1>1 DEF OneByOne
<1>3. CASE m = i
  BY <1>1, <1>2, <1>3 DEF Moved
<1>4. CASE k = i
  BY <1>1, <1>2, <1>4 DEF Moved
<1>5. CASE m # i /\ k # i
  BY <1>1, <1>2, <1>5 DEF Moved, OneByOne
<1>. QED
  BY <1>3, <1>4, <1>5

(* A close that has begun leaves no firing that no close has come after.   *)
LEMMA ClosingEndsFiring ==
  ASSUME IncidentTypeOK, NEW i \in DOMAIN sends, NEW step \in {"patch", "done"}, NEW target, NEW result,
         Moved(i, step, target, result), service' = service, NEW a, sends[i].rec = a,
         sends[i].state = "close",
         Smooth(a)' => \A k \in Of(a) : i < k => sends[k].step = "send"
  PROVE  FiredIsLive(a)'
<1>1. Of(a)' = Of(a)
  BY MovedKeeps
<1>2. i \in Of(a) /\ Of(a) \subseteq DOMAIN sends /\ DOMAIN sends \subseteq Nat
  BY DEF Of, IncidentTypeOK
<1>3. SUFFICES ASSUME Smooth(a)', NEW f \in Of(a), sends'[f].state = "open", sends'[f].step = "done",
                      \A c \in Of(a) : f < c /\ sends'[c].state = "close" => sends'[c].step = "send"
               PROVE  FALSE
  BY <1>1 DEF FiredIsLive
<1>4. f # i /\ sends'[f] = sends[f] /\ sends'[i].step # "send" /\ sends'[i].state = "close"
  BY <1>2, <1>3 DEF Moved
<1>5. ~(f < i)
  BY <1>2, <1>3, <1>4
<1>6. i < f
  BY <1>2, <1>4, <1>5
<1>. QED
  BY <1>2, <1>3, <1>4, <1>6

(* A firing of the record that arrives at the service.                     *)
LEMMA TriggerFollows ==
  ASSUME IncidentTypeOK, IncidentShape, NEW i \in DOMAIN sends, NEW result, sends[i].step = "send",
         Moved(i, "done", sends[i].target, result), sends[i].result = "none",
         NEW a \in Alerts, sends[i].rec = a, sends[i].state = "open",
         service' = service, Overlap(i), overlapped \subseteq overlapped', Follows(a),
         \/ Keyed /\ Open(correlation(a)) # {} /\ incidents' = incidents
         \/ \E n \in Nat : Opened(n, i)
  PROVE  Follows(a)'
<1>1. /\ Of(a)' = Of(a)
      /\ \A f \in Of(a) : OnlyFiring(f, a)' <=> OnlyFiring(f, a)
      /\ OneName(a)' <=> OneName(a)
  BY MovedKeeps
<1>2. i \in Of(a) /\ Of(a) \subseteq DOMAIN sends /\ DOMAIN sends \subseteq Nat
  BY DEF Of, IncidentTypeOK
<1>3. Smooth(a)' => Smooth(a)
  BY SmoothBefore
<1>4. Smooth(a)' => /\ \A k \in Of(a) : k < i => sends[k].step = "done"
                    /\ \A k \in Of(a) : i < k => sends[k].step = "send"
  BY FirstRequest DEF Smooth
<1>5. \A k \in Of(a) : k # i => sends'[k] = sends[k]
  BY <1>2 DEF Moved
<1>6. sends'[i].step = "done" /\ sends'[i].state = "open"
  BY DEF Moved
<1>7. OneByOne(a)'
  BY <1>3, <1>4, StaysOneByOne DEF Follows
<1>8. ASSUME NEW n \in Nat, Opened(n, i)
      PROVE  /\ \A j \in Nat : Belongs(j, a)' <=> Belongs(j, a) \/ j = n
             /\ \A j \in Nat : IsLive(j, a)' <=> IsLive(j, a) \/ j = n
  BY <1>8, OpenedLive
<1>9. ASSUME incidents' = incidents
      PROVE  \A j \in Nat : (Belongs(j, a)' <=> Belongs(j, a)) /\ (IsLive(j, a)' <=> IsLive(j, a))
  BY <1>9 DEF Belongs, IsLive
<1>10. ASSUME \A j \in Nat : ~IsLive(j, a)
       PROVE  \A j, l \in Nat : IsLive(j, a)' /\ IsLive(l, a)' => j = l
  BY <1>8, <1>9, <1>10
<1>11. ASSUME \A j \in Nat : ~Belongs(j, a)
       PROVE  \A j, l \in Nat : Belongs(j, a)' /\ Belongs(l, a)' => j = l
  BY <1>8, <1>9, <1>11
<1>12. OneIncident(a)'
  <2> SUFFICES ASSUME NEW f \in Of(a), OnlyFiring(f, a), NEW j \in Nat, NEW l \in Nat,
                      Belongs(j, a)', Belongs(l, a)'
               PROVE  j = l
    BY <1>1 DEF OneIncident
  <2>1. f = i
    BY <1>2 DEF OnlyFiring
  <2>2. ASSUME NEW m \in Nat, Belongs(m, a) PROVE FALSE
    BY <2>1, <2>2 DEF IncidentShape, Belongs, OnlyFiring
  <2>. QED
    BY <1>11, <2>2
<1>13. LiveWasFired(a)'
  <2> SUFFICES ASSUME Smooth(a)'
               PROVE  \E f \in Of(a) : /\ sends'[f].state = "open" /\ sends'[f].step = "done"
                                       /\ \A c \in Of(a) : f < c /\ sends'[c].state = "close" => sends'[c].step # "done"
    BY <1>1 DEF LiveWasFired
  <2>1. \A c \in Of(a) : i < c => sends'[c].step # "done"
    BY <1>2, <1>4, <1>5
  <2>. QED
    BY <1>2, <1>6, <2>1
<1>14. FiredIsLive(a)'
  <2> SUFFICES \E j \in Nat : IsLive(j, a)'
    BY DEF FiredIsLive
  <2>1. CASE \E n \in Nat : Opened(n, i)
    BY <1>8, <2>1
  <2>2. CASE Keyed /\ Open(correlation(a)) # {} /\ incidents' = incidents
    <3>2. PICK j \in DOMAIN incidents : incidents[j].open /\ incidents[j].key = correlation(a)
      BY <2>2, Zenon DEF Open
    <3>3. j \in Nat /\ incidents[j].rec = a
      <4>1. incidents[j] \in IncidentType /\ j \in Nat
        BY DEF IncidentTypeOK
      <4>2. incidents[j].rec \in Alerts /\ correlation(incidents[j].rec) = correlation(a)
        BY <3>2, <4>1 DEF IncidentShape, IncidentType
      <4>. QED
        BY <4>1, <4>2, CorrelationIdentifies
    <3>4. IsLive(j, a)
      BY <3>2, <3>3, Zenon DEF IsLive, Belongs
    <3>. QED
      BY <1>9, <2>2, <3>3, <3>4
  <2>. QED
    BY <2>1, <2>2
<1>15. OneOpen(a)'
  <2> SUFFICES ASSUME Smooth(a)', OneName(a)
               PROVE  /\ \A j, l \in Nat : IsLive(j, a)' /\ IsLive(l, a)' => j = l
                      /\ \A k \in Of(a) : sends'[k].step # "patch"
    BY <1>1 DEF OneOpen
  <2>1. \A k \in Of(a) : sends'[k].step # "patch"
    BY <1>2, <1>4, <1>5, <1>6
  <2>2. ASSUME NEW j \in Nat, IsLive(j, a) PROVE FALSE
    <3>1. PICK f \in Of(a) : /\ sends[f].state = "open" /\ sends[f].step = "done"
                             /\ \A c \in Of(a) : f < c /\ sends[c].state = "close" => sends[c].step # "done"
      BY <1>3, <2>2 DEF Follows, LiveWasFired
    <3>2. f < i
      BY <1>2, <1>4, <3>1
    <3>3. PICK c \in Of(a) : f < c /\ c < i /\ sends[c].state = "close"
      BY <1>2, <3>1, <3>2 DEF OneName, FiredInTurn
    <3>. QED
      BY <1>4, <3>1, <3>3
  <2>. QED
    BY <1>10, <2>1, <2>2
<1>. QED
  BY <1>7, <1>12, <1>13, <1>14, <1>15 DEF Follows

(* A close of the record that resolves what has its key.                   *)
LEMMA ResolveFollows ==
  ASSUME IncidentTypeOK, IncidentShape, NEW i \in DOMAIN sends, NEW result, sends[i].step = "send",
         Moved(i, "done", sends[i].target, result), sends[i].result = "none",
         NEW a \in Alerts, sends[i].rec = a, sends[i].state = "close",
         service' = service, Overlap(i), overlapped \subseteq overlapped', Follows(a),
         Keyed, incidents' = CloseAll(Open(correlation(a)), a)
  PROVE  Follows(a)'
<1>1. /\ Of(a)' = Of(a)
      /\ \A f \in Of(a) : OnlyFiring(f, a)' <=> OnlyFiring(f, a)
      /\ OneName(a)' <=> OneName(a)
  BY MovedKeeps
<1>2. Smooth(a)' => Smooth(a)
  BY SmoothBefore
<1>3. Smooth(a)' => /\ \A k \in Of(a) : k < i => sends[k].step = "done"
                    /\ \A k \in Of(a) : i < k => sends[k].step = "send"
  BY FirstRequest DEF Smooth
<1>4. OneByOne(a)'
  BY <1>2, <1>3, StaysOneByOne DEF Follows
<1>5. /\ \A x : \A j \in Nat : Belongs(j, x)' <=> Belongs(j, x)
      /\ \A x : \A j \in Nat : IsLive(j, x)' <=> IsLive(j, x) /\ j \notin Open(correlation(a))
  BY ClosedEffect, Zenon
<1>6. ASSUME NEW j \in Nat, IsLive(j, a)' PROVE FALSE
  <2>1. IsLive(j, a) /\ j \notin Open(correlation(a))
    BY <1>5, <1>6, Zenon
  <2>2. incidents[j].key = correlation(a) /\ j \in DOMAIN incidents
    BY <2>1 DEF IsLive, Belongs, IncidentShape
  <2>3. incidents[j].open
    BY <2>1, Zenon DEF IsLive
  <2>. QED
    BY <2>1, <2>2, <2>3, Zenon DEF Open
<1>7. OneIncident(a)'
  BY <1>1, <1>5 DEF Follows, OneIncident
<1>8. LiveWasFired(a)'
  BY <1>6 DEF LiveWasFired
<1>9. FiredIsLive(a)'
  BY <1>3, ClosingEndsFiring
<1>10. OneOpen(a)'
  BY <1>1 DEF OneOpen, OneName, Keyed
<1>. QED
  BY <1>4, <1>7, <1>8, <1>9, <1>10 DEF Follows

(* Statuspage: the incidents of a name of its own are those of its record. *)
LEMMA NameIdentifies ==
  ASSUME IncidentTypeOK, IncidentShape, NEW i \in DOMAIN sends, NEW a, sends[i].rec = a, OneName(a),
         NEW j \in DOMAIN incidents
  PROVE  incidents[j].rec = a <=> incidents[j].name = sends[i].name
<1>1. PICK m \in Of(incidents[j].rec) : sends[m].name = incidents[j].name
  BY DEF IncidentShape
<1>2. m \in DOMAIN sends /\ sends[m].rec = incidents[j].rec /\ i \in Of(a)
  BY <1>1 DEF Of
<1>3. m \in Of(a) <=> sends[m].name = sends[i].name
  BY <1>2 DEF OneName, NamedAlone
<1>. QED
  BY <1>1, <1>2, <1>3 DEF Of

(* The order of the natural numbers is well-founded.                       *)
LEMMA LessIsWellFounded == IsWellFoundedOn({ss \in Nat \X Nat : ss[1] < ss[2]}, Nat)
  BY NatLessThanWellFounded, Zenon DEF OpToRel

(* A set of natural numbers that is not empty has a least element.         *)
LEMMA HasLeast ==
  ASSUME NEW T, T \subseteq Nat, T # {}
  PROVE  \E m \in T : \A y \in T : m <= y
<1> DEFINE R == {ss \in Nat \X Nat : ss[1] < ss[2]}
<1>1. PICK m \in T : \A y \in T : ~ (<<y, m>> \in R)
  <2> HIDE DEF R
  <2>. QED
    BY LessIsWellFounded, WFMin DEF R
<1>2. ASSUME NEW y \in T PROVE m <= y
  <2>1. <<y, m>> \in Nat \X Nat /\ <<y, m>>[1] = y /\ <<y, m>>[2] = m
    OBVIOUS
  <2>2. ~ (y < m)
    BY <1>1, <2>1
  <2>. QED
    BY <2>2
<1>. QED
  BY <1>2

(* matchID's choice is an open incident with the name.                     *)
LEMMA MatchIsNamed ==
  ASSUME IncidentTypeOK, NEW s
  PROVE  \/ matchID(s) = {} /\ \A j \in DOMAIN incidents : ~(incidents[j].open /\ incidents[j].name = s.name)
         \/ \E j \in DOMAIN incidents : matchID(s) = {j} /\ incidents[j].open /\ incidents[j].name = s.name
<1> DEFINE named == {j \in DOMAIN incidents : incidents[j].open /\ incidents[j].name = s.name}
<1>1. matchID(s) = IF named = {} THEN {} ELSE {Min(named)}
  BY DEF matchID
<1>2. DOMAIN incidents \subseteq Nat
  BY DEF IncidentTypeOK
<1>3. CASE named = {}
  BY <1>1, <1>3, Zenon
<1>4. CASE named # {}
  <2>1. named \subseteq Nat
    BY <1>2, Zenon
  <2>2. Min(named) \in named
    <3> HIDE DEF named
    <3>1. \E m \in named : \A y \in named : m <= y
      BY <1>4, <2>1, HasLeast
    <3>. QED
      BY <3>1, Zenon DEF Min
  <2>3. PICK j \in named : matchID(s) = {j}
    BY <1>1, <1>4, <2>2
  <2>. QED
    BY <2>3, Zenon
<1>. QED
  BY <1>3, <1>4

(* The search of a close that found nothing.                               *)
LEMMA SearchedFollows ==
  ASSUME IncidentTypeOK, IncidentShape, NEW i \in DOMAIN sends, NEW result, sends[i].step = "send",
         Moved(i, "done", sends[i].target, result), sends[i].result = "none",
         NEW a \in Alerts, sends[i].rec = a, sends[i].state = "close",
         service' = service, Overlap(i), overlapped \subseteq overlapped', Follows(a),
         ~Keyed, lookup(sends[i]) = {}, incidents' = incidents
  PROVE  Follows(a)'
<1>1. /\ Of(a)' = Of(a)
      /\ \A f \in Of(a) : OnlyFiring(f, a)' <=> OnlyFiring(f, a)
      /\ OneName(a)' <=> OneName(a)
  BY MovedKeeps
<1>2. Smooth(a)' => Smooth(a)
  BY SmoothBefore
<1>3. Smooth(a)' => /\ \A k \in Of(a) : k < i => sends[k].step = "done"
                    /\ \A k \in Of(a) : i < k => sends[k].step = "send"
  BY FirstRequest DEF Smooth
<1>4. OneByOne(a)'
  BY <1>2, <1>3, StaysOneByOne DEF Follows
<1>5. \A j \in Nat : (Belongs(j, a)' <=> Belongs(j, a)) /\ (IsLive(j, a)' <=> IsLive(j, a))
  BY DEF Belongs, IsLive
<1>6. ASSUME service = "servicenow" \/ OneName(a), NEW j \in Nat, IsLive(j, a)' PROVE FALSE
  <2>1. IsLive(j, a)
    BY <1>5, <1>6
  <2>2. j \in DOMAIN incidents /\ incidents[j].rec = a
    BY <2>1 DEF IsLive, Belongs
  <2>3. incidents[j].open
    BY <2>1, Zenon DEF IsLive
  <2>4. CASE service = "servicenow"
    BY <2>2, <2>4 DEF lookup, IncidentShape
  <2>5. CASE OneName(a)
    <3>1. incidents[j].name = sends[i].name
      BY <2>2, <2>5, NameIdentifies
    <3>2. matchID(sends[i]) = {}
      BY <2>5 DEF lookup, OneName
    <3>. QED
      BY <2>2, <2>3, <3>1, <3>2, MatchIsNamed, Zenon
  <2>. QED
    BY <1>6, <2>4, <2>5
<1>7. OneIncident(a)'
  BY <1>1, <1>5 DEF Follows, OneIncident
<1>8. LiveWasFired(a)'
  BY <1>1, <1>6 DEF LiveWasFired, Keyed
<1>9. FiredIsLive(a)'
  BY <1>3, ClosingEndsFiring
<1>10. OneOpen(a)'
  BY <1>1, <1>6 DEF OneOpen
<1>. QED
  BY <1>4, <1>7, <1>8, <1>9, <1>10 DEF Follows

(* The search of a close that found an incident.                           *)
LEMMA FoundFollows ==
  ASSUME IncidentTypeOK, IncidentShape, NEW i \in DOMAIN sends, NEW t \in Nat, sends[i].step = "send",
         Moved(i, "patch", t, sends[i].result), sends[i].result = "none",
         NEW a \in Alerts, sends[i].rec = a, sends[i].state = "close",
         service' = service, Overlap(i), overlapped \subseteq overlapped', Follows(a),
         t \in lookup(sends[i]), incidents' = incidents
  PROVE  Follows(a)'
<1>1. /\ Of(a)' = Of(a)
      /\ \A f \in Of(a) : OnlyFiring(f, a)' <=> OnlyFiring(f, a)
      /\ OneName(a)' <=> OneName(a)
  BY MovedKeeps
<1>2. Smooth(a)' => Smooth(a)
  BY SmoothBefore
<1>3. Smooth(a)' => /\ \A k \in Of(a) : k < i => sends[k].step = "done"
                    /\ \A k \in Of(a) : i < k => sends[k].step = "send"
  BY FirstRequest DEF Smooth
<1>4. OneByOne(a)'
  BY <1>2, <1>3, StaysOneByOne DEF Follows
<1>5. \A j \in Nat : (Belongs(j, a)' <=> Belongs(j, a)) /\ (IsLive(j, a)' <=> IsLive(j, a))
  BY DEF Belongs, IsLive
<1>6. i \in Of(a) /\ Of(a) \subseteq DOMAIN sends /\ DOMAIN sends \subseteq Nat
  BY DEF Of, IncidentTypeOK
<1>7. /\ \A k \in Of(a) : k # i => sends'[k] = sends[k]
      /\ sends'[i].step = "patch" /\ sends'[i].state = "close" /\ sends'[i].target = t
  BY <1>6 DEF Moved
<1>8. OneIncident(a)'
  BY <1>1, <1>5 DEF Follows, OneIncident
<1>9. LiveWasFired(a)'
  <2> SUFFICES ASSUME Smooth(a)',
                      (Keyed \/ (service = "servicenow" /\ \E f \in Of(a) : OnlyFiring(f, a)) \/ OneName(a))',
                      NEW j \in Nat, IsLive(j, a)'
               PROVE  \E f \in Of(a) : /\ sends'[f].state = "open" /\ sends'[f].step = "done"
                                       /\ \A c \in Of(a) : f < c /\ sends'[c].state = "close" => sends'[c].step # "done"
    BY <1>1 DEF LiveWasFired
  <2>1. Keyed \/ (service = "servicenow" /\ \E f \in Of(a) : OnlyFiring(f, a)) \/ OneName(a)
    BY <1>1 DEF Keyed
  <2>2. PICK f \in Of(a) : /\ sends[f].state = "open" /\ sends[f].step = "done"
                           /\ \A c \in Of(a) : f < c /\ sends[c].state = "close" => sends[c].step # "done"
    BY <1>2, <1>5, <2>1 DEF Follows, LiveWasFired
  <2>3. f # i /\ \A c \in Of(a) : f < c /\ sends'[c].state = "close" => sends'[c].step # "done"
    BY <1>7, <2>2
  <2>. QED
    BY <1>7, <2>2, <2>3
<1>10. FiredIsLive(a)'
  BY <1>3, ClosingEndsFiring
<1>11. OneOpen(a)'
  <2> SUFFICES ASSUME Smooth(a)', OneName(a)
               PROVE  /\ \A j, l \in Nat : IsLive(j, a)' /\ IsLive(l, a)' => j = l
                      /\ \A k \in Of(a) : sends'[k].step = "patch" =>
                            \A j \in Nat : IsLive(j, a)' => j = sends'[k].target
    BY <1>1 DEF OneOpen
  <2>1. \A j, l \in Nat : IsLive(j, a) /\ IsLive(l, a) => j = l
    BY <1>2 DEF Follows, OneOpen
  <2>2. IsLive(t, a)
    <3>1. t \in matchID(sends[i])
      BY DEF lookup, OneName
    <3>2. PICK m \in DOMAIN incidents : matchID(sends[i]) = {m} /\ incidents[m].open /\ incidents[m].name = sends[i].name
      BY <3>1, MatchIsNamed, Zenon
    <3>3. m = t
      BY <3>1, <3>2, Zenon
    <3>4. incidents[m].rec = a
      <4>1. incidents[m].name = sends[i].name
        BY <3>2, Zenon
      <4>. QED
        BY <4>1, NameIdentifies
    <3>. QED
      BY <3>2, <3>3, <3>4, Zenon DEF IsLive, Belongs
  <2>3. \A k \in Of(a) : sends'[k].step = "patch" => k = i
    BY <1>3, <1>6, <1>7
  <2>. QED
    BY <1>5, <1>7, <2>1, <2>2, <2>3
<1>. QED
  BY <1>4, <1>8, <1>9, <1>10, <1>11 DEF Follows

(* The change of the incident a close had found.                           *)
LEMMA PatchFollows ==
  ASSUME IncidentTypeOK, NoticeShape, NEW i \in DOMAIN sends, NEW result, sends[i].step = "patch",
         Moved(i, "done", sends[i].target, result), sends[i].result = "none",
         NEW a \in Alerts, sends[i].rec = a,
         service' = service, overlapped \subseteq overlapped', Follows(a),
         incidents' = CloseAll({sends[i].target}, a)
  PROVE  Follows(a)'
<1>1. /\ Of(a)' = Of(a)
      /\ \A f \in Of(a) : OnlyFiring(f, a)' <=> OnlyFiring(f, a)
      /\ OneName(a)' <=> OneName(a)
  BY MovedKeeps
<1>2. Smooth(a)' => Smooth(a)
  BY SmoothBefore
<1>3. i \in Of(a) /\ Of(a) \subseteq DOMAIN sends /\ DOMAIN sends \subseteq Nat
  BY DEF Of, IncidentTypeOK
<1>4. sends[i].state = "close" /\ ~Keyed /\ sends[i].target \in DOMAIN incidents
  BY DEF NoticeShape
<1>5. Smooth(a)' => /\ \A k \in Of(a) : k < i => sends[k].step = "done"
                    /\ \A k \in Of(a) : i < k => sends[k].step = "send"
  BY <1>2, <1>3 DEF Follows, OneByOne
<1>6. OneByOne(a)'
  BY <1>2, <1>5, StaysOneByOne DEF Follows
<1>7. /\ \A x : \A j \in Nat : Belongs(j, x)' <=> Belongs(j, x)
      /\ \A x : \A j \in Nat : IsLive(j, x)' <=> IsLive(j, x) /\ j \notin {sends[i].target}
  BY ClosedEffect, Zenon
<1>8. OneIncident(a)'
  BY <1>1, <1>7 DEF Follows, OneIncident
<1>9. ASSUME Smooth(a)', (service = "servicenow" /\ \E f \in Of(a) : OnlyFiring(f, a)) \/ OneName(a),
             NEW j \in Nat, IsLive(j, a)'
      PROVE  FALSE
  <2>1. IsLive(j, a) /\ j # sends[i].target
    BY <1>7, <1>9
  <2>2. CASE OneName(a)
    BY <1>2, <1>3, <1>9, <2>1, <2>2 DEF Follows, OneOpen
  <2>3. CASE service = "servicenow" /\ \E f \in Of(a) : OnlyFiring(f, a)
    <3>1. sends[i].target \in Nat /\ Belongs(sends[i].target, a)
      BY <1>4, <2>3 DEF NoticeShape, Belongs, IncidentTypeOK
    <3>2. Belongs(j, a)
      BY <2>1 DEF IsLive
    <3>. QED
      BY <2>1, <2>3, <3>1, <3>2 DEF Follows, OneIncident
  <2>. QED
    BY <1>9, <2>2, <2>3
<1>10. LiveWasFired(a)'
  BY <1>1, <1>4, <1>9 DEF LiveWasFired, Keyed
<1>11. FiredIsLive(a)'
  BY <1>4, <1>5, ClosingEndsFiring
<1>12. OneOpen(a)'
  BY <1>1, <1>9 DEF OneOpen
<1>. QED
  BY <1>6, <1>8, <1>10, <1>11, <1>12 DEF Follows

(* A notification is fired.                                                *)
LEMMA FireFollows ==
  ASSUME IncidentTypeOK, IncidentShape, NEW b \in Alerts, NEW state \in {"open", "close"},
         NEW name \in b.names, fireSend(b, state, name), NEW a \in Alerts, Follows(a)
  PROVE  sends' \in Seq(NoticeType) /\ Follows(a)'
<1>1. PICK s : s = [rec |-> b, state |-> state, name |-> name, step |-> "send", target |-> 0, result |-> "none"]
  OBVIOUS
<1>2. /\ s \in NoticeType /\ s.rec = b /\ s.state = state /\ s.name = name /\ s.step = "send"
      /\ s.target = 0 /\ s.result = "none"
  <2>1. name \in RenderedNames
    BY DEF RenderedNames
  <2>. QED
    BY <1>1, <2>1 DEF NoticeType
<1>3. DOMAIN sends = 1..Len(sends) /\ Len(sends) \in Nat
  BY DEF IncidentTypeOK
<1>4. PICK n \in Nat : n = Len(sends) + 1
  BY <1>3
<1>5. /\ sends' \in Seq(NoticeType) /\ DOMAIN sends' = DOMAIN sends \cup {n} /\ sends'[n] = s
      /\ \A k \in DOMAIN sends : k < n /\ sends'[k] = sends[k]
  BY <1>1, <1>2, <1>3, <1>4, AppendProperties DEF fireSend, IncidentTypeOK
<1>6. UNCHANGED <<service, incidents, overlapped>>
  BY DEF fireSend
<1>7. /\ Of(a) \subseteq DOMAIN sends /\ Of(a) \subseteq Of(a)' /\ Of(a)' \subseteq Of(a) \cup {n}
      /\ \A k \in Of(a) : k < n /\ sends'[k] = sends[k]
      /\ n \notin Of(a) /\ Of(a) \subseteq Nat
  BY <1>3, <1>4, <1>5 DEF Of
<1>8. \A j \in Nat : (Belongs(j, a)' <=> Belongs(j, a)) /\ (IsLive(j, a)' <=> IsLive(j, a))
  BY <1>6 DEF Belongs, IsLive
<1>9. Smooth(a)' => Smooth(a)
  BY <1>6, <1>7 DEF Smooth
<1>10. \A f \in Of(a) : OnlyFiring(f, a)' => OnlyFiring(f, a)
  BY <1>7 DEF OnlyFiring
<1>11. ASSUME n \in Of(a)', OnlyFiring(n, a)', NEW j \in Nat, Belongs(j, a) PROVE FALSE
  <2>1. PICK f \in Of(a) : sends[f].state = "open"
    BY <1>11 DEF Belongs, IncidentShape
  <2>. QED
    BY <1>7, <1>11, <2>1 DEF OnlyFiring
<1>12. FiredInTurn(a)' => FiredInTurn(a)
  <2> SUFFICES ASSUME FiredInTurn(a)', NEW m \in Of(a), NEW k \in Of(a),
                      sends[m].state = "open", sends[k].state = "open", m < k
               PROVE  \E c \in Of(a) : m < c /\ c < k /\ sends[c].state = "close"
    BY DEF FiredInTurn
  <2>1. PICK c \in Of(a)' : m < c /\ c < k /\ sends'[c].state = "close"
    BY <1>7 DEF FiredInTurn
  <2>2. c # n
    BY <1>7, <2>1
  <2>. QED
    BY <1>7, <2>1, <2>2
<1>13. NamedAlone(a)' => NamedAlone(a)
  <2> SUFFICES ASSUME NamedAlone(a)', NEW m \in DOMAIN sends, NEW k \in Of(a)
               PROVE  (m \in Of(a)) <=> (sends[m].name = sends[k].name)
    BY DEF NamedAlone
  <2>1. m \in DOMAIN sends' /\ k \in Of(a)' /\ sends'[m] = sends[m] /\ sends'[k] = sends[k]
    BY <1>5, <1>7
  <2>2. (m \in Of(a)') <=> (sends'[m].name = sends'[k].name)
    BY <2>1, Zenon DEF NamedAlone
  <2>3. m # n
    BY <1>3, <1>4
  <2>. QED
    BY <1>7, <2>1, <2>2, <2>3
<1>14. OneName(a)' => OneName(a)
  BY <1>6, <1>12, <1>13 DEF OneName
<1>15. OneByOne(a)'
  <2> SUFFICES ASSUME Smooth(a)', NEW m \in Of(a)', NEW k \in Of(a)', k < m, sends'[m].step # "send"
               PROVE  sends'[k].step = "done"
    BY DEF OneByOne
  <2>1. m \in Of(a) /\ k \in Of(a)
    BY <1>2, <1>5, <1>7
  <2>. QED
    BY <1>7, <1>9, <2>1 DEF Follows, OneByOne
<1>16. OneIncident(a)'
  <2> SUFFICES ASSUME NEW f \in Of(a)', OnlyFiring(f, a)', NEW j \in Nat, NEW l \in Nat,
                      Belongs(j, a)', Belongs(l, a)'
               PROVE  j = l
    BY DEF OneIncident
  <2>. QED
    BY <1>7, <1>8, <1>10, <1>11 DEF Follows, OneIncident
<1>17. LiveWasFired(a)'
  <2> SUFFICES ASSUME Smooth(a)',
                      (Keyed \/ (service = "servicenow" /\ \E f \in Of(a) : OnlyFiring(f, a)) \/ OneName(a))',
                      NEW j \in Nat, IsLive(j, a)'
               PROVE  \E f \in Of(a)' : /\ sends'[f].state = "open" /\ sends'[f].step = "done"
                                        /\ \A c \in Of(a)' : f < c /\ sends'[c].state = "close" => sends'[c].step # "done"
    BY DEF LiveWasFired
  <2>1. Belongs(j, a)
    BY <1>8 DEF IsLive
  <2>2. Keyed \/ (service = "servicenow" /\ \E f \in Of(a) : OnlyFiring(f, a)) \/ OneName(a)
    BY <1>6, <1>7, <1>10, <1>11, <1>14, <2>1 DEF Keyed
  <2>3. PICK f \in Of(a) : /\ sends[f].state = "open" /\ sends[f].step = "done"
                           /\ \A c \in Of(a) : f < c /\ sends[c].state = "close" => sends[c].step # "done"
    BY <1>8, <1>9, <2>2 DEF Follows, LiveWasFired
  <2>4. \A c \in Of(a)' : f < c /\ sends'[c].state = "close" => sends'[c].step # "done"
    BY <1>2, <1>5, <1>7, <2>3
  <2>. QED
    BY <1>7, <2>3, <2>4
<1>18. FiredIsLive(a)'
  <2> SUFFICES ASSUME Smooth(a)', service # "statuspage", NEW f \in Of(a)',
                      sends'[f].state = "open", sends'[f].step = "done",
                      \A c \in Of(a)' : f < c /\ sends'[c].state = "close" => sends'[c].step = "send"
               PROVE  \E j \in Nat : IsLive(j, a)'
    BY <1>6 DEF FiredIsLive
  <2>1. f \in Of(a)
    BY <1>2, <1>5, <1>7
  <2>2. \A c \in Of(a) : f < c /\ sends[c].state = "close" => sends[c].step = "send"
    BY <1>7
  <2>. QED
    BY <1>7, <1>8, <1>9, <2>1, <2>2 DEF Follows, FiredIsLive
<1>19. OneOpen(a)'
  <2> SUFFICES ASSUME Smooth(a)', OneName(a)'
               PROVE  /\ \A j, l \in Nat : IsLive(j, a)' /\ IsLive(l, a)' => j = l
                      /\ \A k \in Of(a)' : sends'[k].step = "patch" =>
                            \A j \in Nat : IsLive(j, a)' => j = sends'[k].target
    BY DEF OneOpen
  <2>1. /\ \A j, l \in Nat : IsLive(j, a) /\ IsLive(l, a) => j = l
        /\ \A k \in Of(a) : sends[k].step = "patch" => \A j \in Nat : IsLive(j, a) => j = sends[k].target
    BY <1>9, <1>14 DEF Follows, OneOpen
  <2>2. \A k \in Of(a)' : sends'[k].step = "patch" => k \in Of(a)
    BY <1>2, <1>5, <1>7
  <2>. QED
    BY <1>7, <1>8, <2>1, <2>2
<1>. QED
  BY <1>5, <1>15, <1>16, <1>17, <1>18, <1>19 DEF Follows

\* Incidents are only added, and only more closes come to them.
Grown ==
    /\ DOMAIN incidents \subseteq DOMAIN incidents'
    /\ \A j \in DOMAIN incidents :
          /\ incidents'[j].key = incidents[j].key /\ incidents'[j].name = incidents[j].name
          /\ incidents'[j].rec = incidents[j].rec /\ incidents[j].closedBy \subseteq incidents'[j].closedBy

(* A notification that ends leaves the others as they are.                 *)
LEMMA NoticesKept ==
  ASSUME IncidentTypeOK, NoticeShape, NEW i \in DOMAIN sends, NEW result \in {"ok", "error"},
         Moved(i, "done", sends[i].target, result), service' = service, Grown
  PROVE  NoticeShape'
<1>1. SUFFICES ASSUME NEW k \in DOMAIN sends
               PROVE  /\ sends'[k].name \in sends'[k].rec.names
                      /\ sends'[k].step = "done" <=> sends'[k].result # "none"
                      /\ sends'[k].target = 0 \/ sends'[k].target \in DOMAIN incidents'
                      /\ sends'[k].step = "send" => sends'[k].target = 0
                      /\ sends'[k].step = "patch" =>
                            /\ service # "keyed" /\ sends'[k].state = "close" /\ sends'[k].target \in DOMAIN incidents'
                            /\ \/ incidents'[sends'[k].target].rec = sends'[k].rec
                               \/ service = "statuspage" /\ incidents'[sends'[k].target].name = sends'[k].name
  BY DEF NoticeShape, Keyed, Moved
<1>2. CASE k = i
  BY <1>2 DEF NoticeShape, Moved, Grown
<1>3. CASE k # i
  <2>1. sends'[k] = sends[k]
    BY <1>3 DEF Moved
  <2>. QED
    BY <2>1 DEF NoticeShape, Grown, Keyed
<1>. QED
  BY <1>2, <1>3

(* An incident keeps the firing it comes from.                             *)
LEMMA IncidentsKept ==
  ASSUME IncidentTypeOK, IncidentShape, NEW i \in DOMAIN sends, NEW step, NEW target, NEW result,
         Moved(i, step, target, result), sends[i].step # "done", service' = service, Grown,
         \A j \in DOMAIN incidents' \ DOMAIN incidents :
            incidents'[j] = incident(sends[i]) /\ sends[i].state = "open" /\ step = "done"
  PROVE  IncidentShape'
<1>1. SUFFICES ASSUME NEW j \in DOMAIN incidents'
               PROVE  /\ incidents'[j].key = correlation(incidents'[j].rec)
                      /\ \E k \in DOMAIN sends' :
                            /\ sends'[k].rec = incidents'[j].rec /\ sends'[k].state = "open"
                            /\ sends'[k].step = "done" /\ sends'[k].name = incidents'[j].name
  BY DEF IncidentShape, Of
<1>2. CASE j \in DOMAIN incidents
  <2>1. incidents'[j].key = correlation(incidents'[j].rec)
    BY <1>2 DEF IncidentShape, Grown
  <2>2. PICK m \in Of(incidents[j].rec) :
            sends[m].state = "open" /\ sends[m].step = "done" /\ sends[m].name = incidents[j].name
    BY <1>2 DEF IncidentShape
  <2>3. m \in DOMAIN sends /\ sends[m].rec = incidents[j].rec /\ sends'[m] = sends[m] /\ DOMAIN sends' = DOMAIN sends
    BY <2>2 DEF Of, Moved
  <2>4. incidents'[j].rec = incidents[j].rec /\ incidents'[j].name = incidents[j].name
    BY <1>2 DEF Grown
  <2>. QED
    BY <2>1, <2>2, <2>3, <2>4
<1>3. CASE j \notin DOMAIN incidents
  <2>1. incidents'[j] = incident(sends[i]) /\ sends[i].state = "open" /\ step = "done"
    BY <1>1, <1>3
  <2>2. /\ incidents'[j].key = correlation(sends[i].rec) /\ incidents'[j].name = sends[i].name
        /\ incidents'[j].rec = sends[i].rec
    BY <2>1 DEF incident
  <2>3. /\ sends'[i].state = "open" /\ sends'[i].step = "done" /\ sends'[i].name = sends[i].name
        /\ sends'[i].rec = sends[i].rec /\ i \in DOMAIN sends'
    BY <2>1 DEF Moved
  <2>. QED
    BY <2>2, <2>3
<1>. QED
  BY <1>2, <1>3

(* What was done for the other notifications stays done.                   *)
LEMMA SentKept ==
  ASSUME IncidentTypeOK, NoticeShape, SentWasDone, NEW i \in DOMAIN sends, NEW step, NEW target, NEW result,
         Moved(i, step, target, result), Grown,
         result = "ok" /\ sends[i].state = "open" => \E j \in DOMAIN incidents' : incidents'[j].rec = sends[i].rec,
         result = "ok" /\ sends[i].state = "close" =>
            target = 0 \/ sends[i].rec \in incidents'[target].closedBy
  PROVE  SentWasDone'
<1>1. \A state \in {"open", "close"} : action(state) = "trigger" <=> state = "open"
  BY DEF action
<1>2. \A k \in DOMAIN sends : sends[k].state \in {"open", "close"} /\ sends'[k].state = sends[k].state
  <2>1. ASSUME NEW k \in DOMAIN sends PROVE sends[k].state \in {"open", "close"}
    <3>1. sends[k] \in NoticeType
      BY DEF IncidentTypeOK
    <3>. QED
      BY <3>1 DEF NoticeType
  <2>. QED
    BY <2>1 DEF Moved
<1>3. SUFFICES ASSUME NEW k \in DOMAIN sends, sends'[k].result = "ok"
               PROVE  /\ sends'[k].state = "open" => \E j \in DOMAIN incidents' : incidents'[j].rec = sends'[k].rec
                      /\ sends'[k].state = "close" =>
                            sends'[k].target = 0 \/ sends'[k].rec \in incidents'[sends'[k].target].closedBy
  BY <1>1, <1>2 DEF SentWasDone, Moved
<1>4. CASE k = i
  BY <1>3, <1>4 DEF Moved
<1>5. CASE k # i
  <2>1. sends'[k] = sends[k]
    BY <1>5 DEF Moved
  <2>2. /\ sends[k].state = "open" => \E j \in DOMAIN incidents : incidents[j].rec = sends[k].rec
        /\ sends[k].state = "close" => sends[k].target = 0 \/ sends[k].rec \in incidents[sends[k].target].closedBy
    BY <1>1, <1>2, <1>3, <2>1 DEF SentWasDone
  <2>3. sends[k].target = 0 \/ sends[k].target \in DOMAIN incidents
    BY DEF NoticeShape
  <2>. QED
    BY <2>1, <2>2, <2>3 DEF Grown
<1>. QED
  BY <1>4, <1>5

(* Who has closed an incident was its record, or shares its name.          *)
LEMMA ResolvedKept ==
  ASSUME IncidentTypeOK, ResolvesItsOwn, NEW T, NEW b \in Alerts, incidents' = CloseAll(T, b), service' = service,
         \A j \in DOMAIN incidents : j \in T =>
            b = incidents[j].rec \/ (service = "statuspage" /\ incidents[j].name \in b.names)
  PROVE  /\ ResolvesItsOwn' /\ Grown /\ DOMAIN incidents' = DOMAIN incidents /\ incidents' \in Seq(IncidentType)
         /\ \A j \in DOMAIN incidents : j \in T => b \in incidents'[j].closedBy
<1>1. /\ incidents' \in Seq(IncidentType) /\ DOMAIN incidents' = DOMAIN incidents
      /\ \A j \in DOMAIN incidents :
            /\ incidents'[j].key = incidents[j].key /\ incidents'[j].name = incidents[j].name
            /\ incidents'[j].rec = incidents[j].rec
            /\ j \notin T => incidents'[j] = incidents[j]
            /\ j \in T => incidents'[j].closedBy = incidents[j].closedBy \cup {b}
  BY ClosedEffect
<1>2. Grown
  BY <1>1 DEF Grown
<1>3. ResolvesItsOwn'
  <2> SUFFICES ASSUME NEW j \in DOMAIN incidents, NEW a \in incidents'[j].closedBy
               PROVE  a = incidents'[j].rec \/ (service = "statuspage" /\ incidents'[j].name \in a.names)
    BY <1>1 DEF ResolvesItsOwn
  <2>1. a \in incidents[j].closedBy \/ (a = b /\ j \in T)
    BY <1>1
  <2>2. incidents'[j].name = incidents[j].name /\ incidents'[j].rec = incidents[j].rec
    BY <1>1
  <2>. QED
    BY <2>1, <2>2 DEF ResolvesItsOwn
<1>. QED
  BY <1>1, <1>2, <1>3

(* A notification that fails before it reaches the service.                *)
LEMMA FailedStep ==
  ASSUME IncidentInv, NEW i \in DOMAIN sends, sends[i].step # "done", sends' = Done(i, "error"),
         UNCHANGED <<service, incidents, overlapped>>
  PROVE  IncidentInv'
<1>1. IncidentTypeOK /\ NoticeShape /\ IncidentShape /\ ResolvesItsOwn /\ SentWasDone
  BY DEF IncidentInv
<1>2. Moved(i, "done", sends[i].target, "error")
  BY <1>1, DoneMoves
<1>3. sends[i].result = "none"
  BY <1>1 DEF NoticeShape
<1>4. Grown
  BY DEF Grown
<1>5. NoticeShape'
  BY <1>1, <1>2, <1>4, NoticesKept
<1>6. IncidentShape'
  BY <1>1, <1>2, <1>4, IncidentsKept
<1>7. SentWasDone'
  BY <1>1, <1>2, <1>4, SentKept
<1>8. ResolvesItsOwn'
  BY <1>1 DEF ResolvesItsOwn
<1>9. IncidentTypeOK'
  BY <1>1, <1>2 DEF IncidentTypeOK, Moved
<1>10. ASSUME NEW a \in Alerts PROVE Follows(a)'
  <2>1. Follows(a)
    BY DEF IncidentInv
  <2>2. \A j \in Nat : (Belongs(j, a)' <=> Belongs(j, a)) /\ (IsLive(j, a)' <=> IsLive(j, a))
    BY DEF Belongs, IsLive
  <2>3. CASE sends[i].rec = a
    <3>1. Of(a)' = Of(a) /\ \A f \in Of(a) : OnlyFiring(f, a)' <=> OnlyFiring(f, a)
      BY <1>1, <1>2, MovedKeeps
    <3>2. OneIncident(a)'
      BY <2>1, <2>2, <3>1 DEF Follows, OneIncident
    <3>. QED
      BY <1>1, <1>2, <2>3, <3>2, FollowsFailed
  <2>4. CASE sends[i].rec # a
    BY <1>1, <1>2, <1>3, <2>1, <2>2, <2>4, FollowsOther
  <2>. QED
    BY <2>3, <2>4
<1>. QED
  BY <1>5, <1>6, <1>7, <1>8, <1>9, <1>10 DEF IncidentInv

(* A firing that arrives at the service.                                   *)
LEMMA TriggerStep ==
  ASSUME IncidentInv, NEW i \in DOMAIN sends, NEW result \in {"ok", "error"},
         sends[i].step = "send", sends' = Done(i, result), sends[i].state = "open",
         Overlap(i), service' = service,
         \/ Keyed /\ Open(correlation(sends[i].rec)) # {} /\ incidents' = incidents
         \/ incidents' = Append(incidents, incident(sends[i]))
  PROVE  IncidentInv'
<1>1. IncidentTypeOK /\ NoticeShape /\ IncidentShape /\ ResolvesItsOwn /\ SentWasDone
  BY DEF IncidentInv
<1>2. Moved(i, "done", sends[i].target, result)
  BY <1>1, DoneMoves
<1>3. sends[i].result = "none" /\ sends[i] \in NoticeType /\ sends[i].rec \in Alerts
  <2>1. sends[i] \in NoticeType
    BY <1>1 DEF IncidentTypeOK
  <2>2. sends[i].result = "none"
    BY <1>1 DEF NoticeShape
  <2>. QED
    BY <2>1, <2>2 DEF NoticeType
<1>4. overlapped \subseteq overlapped'
  BY DEF Overlap
<1>5. (Keyed /\ Open(correlation(sends[i].rec)) # {} /\ incidents' = incidents) \/ \E n \in Nat : Opened(n, i)
  BY <1>1, AppendOpens
<1>6. /\ Grown /\ incidents' \in Seq(IncidentType) /\ ResolvesItsOwn'
      /\ \A j \in DOMAIN incidents' \ DOMAIN incidents : incidents'[j] = incident(sends[i])
      /\ \E j \in DOMAIN incidents' : incidents'[j].rec = sends[i].rec
  <2>1. CASE Keyed /\ Open(correlation(sends[i].rec)) # {} /\ incidents' = incidents
    <3>1. Grown /\ incidents' \in Seq(IncidentType) /\ ResolvesItsOwn'
      BY <1>1, <2>1 DEF Grown, IncidentTypeOK, ResolvesItsOwn
    <3>2. PICK j \in DOMAIN incidents : incidents[j].key = correlation(sends[i].rec)
      BY <2>1, Zenon DEF Open
    <3>3. incidents[j] \in IncidentType
      BY <1>1 DEF IncidentTypeOK
    <3>4. incidents[j].rec \in Alerts /\ correlation(incidents[j].rec) = correlation(sends[i].rec)
      BY <1>1, <3>2, <3>3 DEF IncidentShape, IncidentType
    <3>5. incidents[j].rec = sends[i].rec
      BY <1>3, <3>4, CorrelationIdentifies
    <3>. QED
      BY <2>1, <3>1, <3>5
  <2>2. ASSUME NEW n \in Nat, Opened(n, i)
        PROVE  /\ Grown /\ incidents' \in Seq(IncidentType) /\ ResolvesItsOwn'
               /\ \A j \in DOMAIN incidents' \ DOMAIN incidents : incidents'[j] = incident(sends[i])
               /\ \E j \in DOMAIN incidents' : incidents'[j].rec = sends[i].rec
    <3>1. Grown /\ incidents' \in Seq(IncidentType)
      BY <2>2 DEF Grown, Opened
    <3>2. PICK e : e = incident(sends[i])
      OBVIOUS
    <3>3. e.rec = sends[i].rec /\ e.closedBy = {}
      BY <3>2 DEF incident
    <3>4. /\ incidents'[n] = e /\ DOMAIN incidents' = DOMAIN incidents \cup {n}
          /\ \A j \in DOMAIN incidents : incidents'[j] = incidents[j]
      BY <2>2, <3>2 DEF Opened
    <3>5. ResolvesItsOwn'
      BY <1>1, <3>3, <3>4 DEF ResolvesItsOwn
    <3>. QED
      BY <3>1, <3>2, <3>3, <3>4, <3>5
  <2>. QED
    BY <1>5, <2>1, <2>2
<1>7. NoticeShape'
  BY <1>1, <1>2, <1>6, NoticesKept
<1>8. IncidentShape'
  BY <1>1, <1>2, <1>6, IncidentsKept
<1>9. SentWasDone'
  BY <1>1, <1>2, <1>6, SentKept
<1>10. IncidentTypeOK'
  BY <1>1, <1>2, <1>6 DEF IncidentTypeOK, Moved
<1>11. ASSUME NEW a \in Alerts PROVE Follows(a)'
  <2>1. Follows(a)
    BY DEF IncidentInv
  <2>2. CASE sends[i].rec = a
    BY <1>1, <1>2, <1>3, <1>4, <1>5, <2>1, <2>2, TriggerFollows
  <2>3. CASE sends[i].rec # a
    <3>1. \A j \in Nat : (Belongs(j, a)' <=> Belongs(j, a)) /\ (IsLive(j, a)' <=> IsLive(j, a))
      <4>1. CASE incidents' = incidents
        BY <4>1 DEF Belongs, IsLive
      <4>2. ASSUME NEW n \in Nat, Opened(n, i)
            PROVE  \A j \in Nat : (Belongs(j, a)' <=> Belongs(j, a)) /\ (IsLive(j, a)' <=> IsLive(j, a))
        BY <1>1, <2>3, <4>2, OpenedLive
      <4>. QED
        BY <1>5, <4>1, <4>2
    <3>. QED
      BY <1>1, <1>2, <1>3, <1>4, <2>1, <2>3, <3>1, FollowsOther
  <2>. QED
    BY <2>2, <2>3
<1>. QED
  BY <1>6, <1>7, <1>8, <1>9, <1>10, <1>11 DEF IncidentInv

(* A notification has a record and a state, and no result while it is under*)
(* way.                                                                    *)
LEMMA UnderWay ==
  ASSUME IncidentInv, NEW i \in DOMAIN sends, sends[i].step # "done"
  PROVE  /\ IncidentTypeOK /\ NoticeShape /\ IncidentShape /\ ResolvesItsOwn /\ SentWasDone
         /\ sends[i].result = "none" /\ sends[i].rec \in Alerts /\ sends[i].state \in {"open", "close"}
         /\ sends[i].name \in sends[i].rec.names /\ (sends[i].step = "send" => sends[i].target = 0)
<1>1. IncidentTypeOK /\ NoticeShape /\ IncidentShape /\ ResolvesItsOwn /\ SentWasDone
  BY DEF IncidentInv
<1>2. sends[i] \in NoticeType
  BY <1>1 DEF IncidentTypeOK
<1>3. sends[i].rec \in Alerts /\ sends[i].state \in {"open", "close"}
  BY <1>2 DEF NoticeType
<1>4. /\ sends[i].result = "none" /\ sends[i].name \in sends[i].rec.names
      /\ sends[i].step = "send" => sends[i].target = 0
  BY <1>1 DEF NoticeShape
<1>. QED
  BY <1>1, <1>3, <1>4

(* A close that resolves what has its key.                                 *)
LEMMA ResolveStep ==
  ASSUME IncidentInv, NEW i \in DOMAIN sends, NEW result \in {"ok", "error"}, NEW b, b = sends[i].rec,
         sends[i].step = "send", sends' = Done(i, result), sends[i].state = "close",
         Overlap(i), service' = service, Keyed, incidents' = CloseAll(Open(correlation(b)), b)
  PROVE  IncidentInv'
<1>1. /\ IncidentTypeOK /\ NoticeShape /\ IncidentShape /\ ResolvesItsOwn /\ SentWasDone
      /\ sends[i].result = "none" /\ b \in Alerts /\ sends[i].target = 0
  BY UnderWay
<1>2. Moved(i, "done", sends[i].target, result)
  BY <1>1, DoneMoves
<1>3. overlapped \subseteq overlapped'
  BY DEF Overlap
<1>4. ASSUME NEW j \in DOMAIN incidents, j \in Open(correlation(b)) PROVE b = incidents[j].rec
  <2>1. incidents[j] \in IncidentType
    BY <1>1 DEF IncidentTypeOK
  <2>2. incidents[j].key = correlation(b)
    BY <1>4, Zenon DEF Open
  <2>3. incidents[j].rec \in Alerts /\ correlation(incidents[j].rec) = correlation(b)
    BY <1>1, <2>1, <2>2 DEF IncidentShape, IncidentType
  <2>. QED
    BY <1>1, <2>3, CorrelationIdentifies
<1>5. ResolvesItsOwn' /\ Grown /\ DOMAIN incidents' = DOMAIN incidents /\ incidents' \in Seq(IncidentType)
  BY <1>1, <1>4, ResolvedKept
<1>6. NoticeShape'
  BY <1>1, <1>2, <1>5, NoticesKept
<1>7. IncidentShape'
  BY <1>1, <1>2, <1>5, IncidentsKept
<1>8. SentWasDone'
  BY <1>1, <1>2, <1>5, SentKept
<1>9. IncidentTypeOK'
  BY <1>1, <1>2, <1>5 DEF IncidentTypeOK, Moved
<1>10. ASSUME NEW a \in Alerts PROVE Follows(a)'
  <2>1. Follows(a)
    BY DEF IncidentInv
  <2>2. CASE b = a
    BY <1>1, <1>2, <1>3, <2>1, <2>2, ResolveFollows
  <2>3. CASE b # a
    <3>1. /\ \A x : \A j \in Nat : Belongs(j, x)' <=> Belongs(j, x)
          /\ \A x : \A j \in Nat : IsLive(j, x)' <=> IsLive(j, x) /\ j \notin Open(correlation(b))
      BY <1>1, ClosedEffect, Zenon
    <3>2. \A j \in Nat : IsLive(j, a) => j \notin Open(correlation(b))
      BY <1>4, <2>3 DEF IsLive, Belongs
    <3>3. \A j \in Nat : (Belongs(j, a)' <=> Belongs(j, a)) /\ (IsLive(j, a)' <=> IsLive(j, a))
      BY <3>1, <3>2
    <3>. QED
      BY <1>1, <1>2, <1>3, <2>1, <2>3, <3>3, FollowsOther
  <2>. QED
    BY <2>2, <2>3
<1>. QED
  BY <1>5, <1>6, <1>7, <1>8, <1>9, <1>10 DEF IncidentInv

(* The search of a close that found nothing.                               *)
LEMMA SearchedStep ==
  ASSUME IncidentInv, NEW i \in DOMAIN sends, sends[i].step = "send", sends' = Done(i, "ok"),
         sends[i].state = "close", Overlap(i), ~Keyed, lookup(sends[i]) = {},
         UNCHANGED <<service, incidents>>
  PROVE  IncidentInv'
<1>1. /\ IncidentTypeOK /\ NoticeShape /\ IncidentShape /\ ResolvesItsOwn /\ SentWasDone
      /\ sends[i].result = "none" /\ sends[i].rec \in Alerts /\ sends[i].target = 0
  BY UnderWay
<1>2. Moved(i, "done", sends[i].target, "ok")
  BY <1>1, DoneMoves
<1>3. overlapped \subseteq overlapped'
  BY DEF Overlap
<1>4. Grown /\ ResolvesItsOwn'
  BY <1>1 DEF Grown, ResolvesItsOwn
<1>5. NoticeShape'
  BY <1>1, <1>2, <1>4, NoticesKept
<1>6. IncidentShape'
  BY <1>1, <1>2, <1>4, IncidentsKept
<1>7. SentWasDone'
  BY <1>1, <1>2, <1>4, SentKept
<1>8. IncidentTypeOK'
  BY <1>1, <1>2 DEF IncidentTypeOK, Moved
<1>9. ASSUME NEW a \in Alerts PROVE Follows(a)'
  <2>1. Follows(a)
    BY DEF IncidentInv
  <2>2. CASE sends[i].rec = a
    BY <1>1, <1>2, <1>3, <2>1, <2>2, SearchedFollows
  <2>3. CASE sends[i].rec # a
    <3>1. \A j \in Nat : (Belongs(j, a)' <=> Belongs(j, a)) /\ (IsLive(j, a)' <=> IsLive(j, a))
      BY DEF Belongs, IsLive
    <3>. QED
      BY <1>1, <1>2, <1>3, <2>1, <2>3, <3>1, FollowsOther
  <2>. QED
    BY <2>2, <2>3
<1>. QED
  BY <1>4, <1>5, <1>6, <1>7, <1>8, <1>9 DEF IncidentInv

(* The search of a close that found an incident.                           *)
LEMMA FoundStep ==
  ASSUME IncidentInv, NEW i \in DOMAIN sends, sends[i].step = "send", sends[i].state = "close",
         Overlap(i), ~Keyed, service # "none", NEW t \in lookup(sends[i]),
         sends' = [sends EXCEPT ![i].step = "patch", ![i].target = t],
         UNCHANGED <<service, incidents>>
  PROVE  IncidentInv'
<1>1. /\ IncidentTypeOK /\ NoticeShape /\ IncidentShape /\ ResolvesItsOwn /\ SentWasDone
      /\ sends[i].result = "none" /\ sends[i].rec \in Alerts
      /\ sends[i].name \in sends[i].rec.names
  BY UnderWay
<1>2. /\ t \in DOMAIN incidents /\ t \in Nat
      /\ incidents[t].rec = sends[i].rec \/ (service = "statuspage" /\ incidents[t].name = sends[i].name)
  <2>1. DOMAIN incidents \subseteq Nat
    BY <1>1 DEF IncidentTypeOK
  <2>2. CASE service = "statuspage"
    <3>1. t \in matchID(sends[i])
      BY <2>2 DEF lookup
    <3>2. \E j \in DOMAIN incidents : matchID(sends[i]) = {j} /\ incidents[j].name = sends[i].name
      BY <1>1, <3>1, MatchIsNamed, Zenon
    <3>. QED
      BY <2>1, <2>2, <3>1, <3>2
  <2>3. CASE service # "statuspage"
    <3>1. t \in DOMAIN incidents /\ incidents[t].key = correlation(sends[i].rec)
      BY <2>3 DEF lookup
    <3>2. incidents[t] \in IncidentType
      BY <1>1, <3>1 DEF IncidentTypeOK
    <3>3. incidents[t].rec \in Alerts /\ correlation(incidents[t].rec) = correlation(sends[i].rec)
      BY <1>1, <3>1, <3>2 DEF IncidentShape, IncidentType
    <3>. QED
      BY <1>1, <2>1, <3>1, <3>3, CorrelationIdentifies
  <2>. QED
    BY <2>2, <2>3
<1>3. Moved(i, "patch", t, sends[i].result)
  BY <1>1, <1>2, FoundMoves
<1>4. overlapped \subseteq overlapped'
  BY DEF Overlap
<1>5. Grown /\ ResolvesItsOwn'
  BY <1>1 DEF Grown, ResolvesItsOwn
<1>6. NoticeShape'
  <2> SUFFICES ASSUME NEW k \in DOMAIN sends
               PROVE  /\ sends'[k].name \in sends'[k].rec.names
                      /\ sends'[k].step = "done" <=> sends'[k].result # "none"
                      /\ sends'[k].target = 0 \/ sends'[k].target \in DOMAIN incidents
                      /\ sends'[k].step = "send" => sends'[k].target = 0
                      /\ sends'[k].step = "patch" =>
                            /\ service # "keyed" /\ sends'[k].state = "close" /\ sends'[k].target \in DOMAIN incidents
                            /\ \/ incidents[sends'[k].target].rec = sends'[k].rec
                               \/ service = "statuspage" /\ incidents[sends'[k].target].name = sends'[k].name
    BY <1>3 DEF NoticeShape, Keyed, Moved
  <2>1. CASE k = i
    BY <1>1, <1>2, <1>3, <2>1 DEF Moved, Keyed
  <2>2. CASE k # i
    BY <1>1, <1>3, <2>2 DEF Moved, NoticeShape, Keyed
  <2>. QED
    BY <2>1, <2>2
<1>7. IncidentShape'
  BY <1>1, <1>3, <1>5, IncidentsKept
<1>8. SentWasDone'
  BY <1>1, <1>3, <1>5, SentKept
<1>9. IncidentTypeOK'
  BY <1>1, <1>3 DEF IncidentTypeOK, Moved
<1>10. ASSUME NEW a \in Alerts PROVE Follows(a)'
  <2>1. Follows(a)
    BY DEF IncidentInv
  <2>2. CASE sends[i].rec = a
    BY <1>1, <1>2, <1>3, <1>4, <2>1, <2>2, FoundFollows
  <2>3. CASE sends[i].rec # a
    <3>1. \A j \in Nat : (Belongs(j, a)' <=> Belongs(j, a)) /\ (IsLive(j, a)' <=> IsLive(j, a))
      BY DEF Belongs, IsLive
    <3>. QED
      BY <1>1, <1>3, <1>4, <2>1, <2>3, <3>1, FollowsOther
  <2>. QED
    BY <2>2, <2>3
<1>. QED
  BY <1>5, <1>6, <1>7, <1>8, <1>9, <1>10 DEF IncidentInv

(* The change of the incident a close had found.                           *)
LEMMA PatchStep ==
  ASSUME IncidentInv, NEW i \in DOMAIN sends, NEW result \in {"ok", "error"}, NEW b, b = sends[i].rec,
         sends[i].step = "patch", sends' = Done(i, result),
         UNCHANGED <<service, overlapped>>, incidents' = CloseAll({sends[i].target}, b)
  PROVE  IncidentInv'
<1>1. /\ IncidentTypeOK /\ NoticeShape /\ IncidentShape /\ ResolvesItsOwn /\ SentWasDone
      /\ sends[i].result = "none" /\ b \in Alerts /\ sends[i].name \in b.names
  BY UnderWay
<1>2. Moved(i, "done", sends[i].target, result)
  BY <1>1, DoneMoves
<1>3. /\ sends[i].target \in DOMAIN incidents /\ sends[i].state = "close"
      /\ \/ incidents[sends[i].target].rec = b
         \/ service = "statuspage" /\ incidents[sends[i].target].name = sends[i].name
  BY <1>1 DEF NoticeShape
<1>4. PICK T : T = {sends[i].target}
  OBVIOUS
<1>5. /\ ResolvesItsOwn' /\ Grown /\ DOMAIN incidents' = DOMAIN incidents /\ incidents' \in Seq(IncidentType)
      /\ b \in incidents'[sends[i].target].closedBy
  <2>1. /\ incidents' = CloseAll(T, b)
        /\ \A j \in DOMAIN incidents : j \in T =>
              b = incidents[j].rec \/ (service = "statuspage" /\ incidents[j].name \in b.names)
    BY <1>1, <1>3, <1>4
  <2>2. /\ ResolvesItsOwn' /\ Grown /\ DOMAIN incidents' = DOMAIN incidents /\ incidents' \in Seq(IncidentType)
        /\ \A j \in DOMAIN incidents : j \in T => b \in incidents'[j].closedBy
    BY <1>1, <2>1, ResolvedKept
  <2>. QED
    BY <1>3, <1>4, <2>2
<1>6. NoticeShape'
  BY <1>1, <1>2, <1>5, NoticesKept
<1>7. IncidentShape'
  BY <1>1, <1>2, <1>5, IncidentsKept
<1>8. SentWasDone'
  BY <1>1, <1>2, <1>3, <1>5, SentKept
<1>9. IncidentTypeOK'
  BY <1>1, <1>2, <1>5 DEF IncidentTypeOK, Moved
<1>10. ASSUME NEW a \in Alerts PROVE Follows(a)'
  <2>1. Follows(a)
    BY DEF IncidentInv
  <2>2. CASE b = a
    BY <1>1, <1>2, <2>1, <2>2, PatchFollows
  <2>3. CASE b # a
    <3>1. /\ \A x : \A j \in Nat : Belongs(j, x)' <=> Belongs(j, x)
          /\ \A x : \A j \in Nat : IsLive(j, x)' <=> IsLive(j, x) /\ j \notin {sends[i].target}
      BY <1>1, ClosedEffect, Zenon
    <3>2. service # "statuspage" => \A j \in Nat : IsLive(j, a) => j # sends[i].target
      BY <1>3, <2>3 DEF IsLive, Belongs
    <3>3. /\ \A j \in Nat : Belongs(j, a)' <=> Belongs(j, a)
          /\ \A j \in Nat : IsLive(j, a)' => IsLive(j, a)
          /\ service # "statuspage" => \A j \in Nat : IsLive(j, a) => IsLive(j, a)'
      BY <3>1, <3>2
    <3>. QED
      BY <1>1, <1>2, <2>1, <2>3, <3>3, FollowsOther
  <2>. QED
    BY <2>2, <2>3
<1>. QED
  BY <1>5, <1>6, <1>7, <1>8, <1>9, <1>10 DEF IncidentInv

(* A notification is fired.                                                *)
LEMMA FireStep ==
  ASSUME IncidentInv, NEW b \in Alerts, NEW state \in {"open", "close"}, NEW name \in b.names,
         fireSend(b, state, name)
  PROVE  IncidentInv'
<1>1. IncidentTypeOK /\ NoticeShape /\ IncidentShape /\ ResolvesItsOwn /\ SentWasDone
  BY DEF IncidentInv
<1>2. \A a \in Alerts : sends' \in Seq(NoticeType) /\ Follows(a)'
  BY <1>1, FireFollows DEF IncidentInv
<1>3. UNCHANGED <<service, incidents, overlapped>>
  BY DEF fireSend
<1>4. PICK s : s = [rec |-> b, state |-> state, name |-> name, step |-> "send", target |-> 0, result |-> "none"]
  OBVIOUS
<1>5. s.rec = b /\ s.name = name /\ s.step = "send" /\ s.target = 0 /\ s.result = "none"
  BY <1>4
<1>6. PICK n : n = Len(sends) + 1
  OBVIOUS
<1>7. /\ DOMAIN sends' = DOMAIN sends \cup {n} /\ sends'[n] = s
      /\ \A k \in DOMAIN sends : sends'[k] = sends[k]
  <2>1. sends \in Seq(NoticeType) /\ sends' = Append(sends, s)
    BY <1>1, <1>4 DEF fireSend, IncidentTypeOK
  <2>2. DOMAIN sends = 1..Len(sends) /\ Len(sends) \in Nat /\ Len(sends') = Len(sends) + 1 /\ DOMAIN sends' = 1..Len(sends')
    BY <1>2, <2>1
  <2>. QED
    BY <1>6, <2>1, <2>2
<1>8. IncidentTypeOK'
  BY <1>1, <1>2, <1>3 DEF IncidentTypeOK
<1>9. NoticeShape'
  <2> SUFFICES ASSUME NEW k \in DOMAIN sends'
               PROVE  /\ sends'[k].name \in sends'[k].rec.names
                      /\ sends'[k].step = "done" <=> sends'[k].result # "none"
                      /\ sends'[k].target = 0 \/ sends'[k].target \in DOMAIN incidents
                      /\ sends'[k].step = "send" => sends'[k].target = 0
                      /\ sends'[k].step = "patch" =>
                            /\ service # "keyed" /\ sends'[k].state = "close" /\ sends'[k].target \in DOMAIN incidents
                            /\ \/ incidents[sends'[k].target].rec = sends'[k].rec
                               \/ service = "statuspage" /\ incidents[sends'[k].target].name = sends'[k].name
    BY <1>3 DEF NoticeShape, Keyed
  <2>1. CASE sends'[k] = s
    BY <1>5, <2>1
  <2>2. CASE k \in DOMAIN sends /\ sends'[k] = sends[k]
    BY <1>1, <2>2 DEF NoticeShape, Keyed
  <2>. QED
    BY <1>7, <2>1, <2>2
<1>10. IncidentShape'
  <2> SUFFICES ASSUME NEW j \in DOMAIN incidents
               PROVE  /\ incidents[j].key = correlation(incidents[j].rec)
                      /\ \E k \in DOMAIN sends' :
                            /\ sends'[k].rec = incidents[j].rec /\ sends'[k].state = "open"
                            /\ sends'[k].step = "done" /\ sends'[k].name = incidents[j].name
    BY <1>3 DEF IncidentShape, Of
  <2>1. /\ incidents[j].key = correlation(incidents[j].rec)
        /\ \E k \in DOMAIN sends :
              /\ sends[k].rec = incidents[j].rec /\ sends[k].state = "open"
              /\ sends[k].step = "done" /\ sends[k].name = incidents[j].name
    BY <1>1 DEF IncidentShape, Of
  <2>. QED
    BY <1>7, <2>1
<1>11. ResolvesItsOwn'
  BY <1>1, <1>3 DEF ResolvesItsOwn
<1>12. SentWasDone'
  <2> SUFFICES ASSUME NEW k \in DOMAIN sends', sends'[k].result = "ok"
               PROVE  IF action(sends'[k].state) = "trigger" THEN \E j \in DOMAIN incidents : incidents[j].rec = sends'[k].rec
                      ELSE sends'[k].target = 0 \/ sends'[k].rec \in incidents[sends'[k].target].closedBy
    BY <1>3 DEF SentWasDone
  <2>1. k \in DOMAIN sends /\ sends'[k] = sends[k]
    BY <1>5, <1>7
  <2>. QED
    BY <1>1, <2>1 DEF SentWasDone
<1>. QED
  BY <1>2, <1>8, <1>9, <1>10, <1>11, <1>12 DEF IncidentInv

(* Every step of the notifications keeps the invariant.                    *)
LEMMA IncidentStep ==
  ASSUME IncidentInv, service # "none", IncidentsNext
  PROVE  IncidentInv'
<1>1. ASSUME NEW a \in Alerts, NEW state \in {"open", "close"}, NEW name \in a.names, fireSend(a, state, name)
      PROVE  IncidentInv'
  BY <1>1, FireStep
<1>2. ASSUME NEW i \in DOMAIN sends, Misconfigured(i) \/ RequestLost(i) PROVE IncidentInv'
  BY <1>2, FailedStep DEF Misconfigured, RequestLost
<1>3. ASSUME NEW i \in DOMAIN sends, Post(i) PROVE IncidentInv'
  <2>1. /\ sends[i].step = "send" /\ Overlap(i) /\ service' = service /\ ~Searches(i)
        /\ \E result \in {"ok", "error"} : sends' = Done(i, result)
        /\ incidents' = Posted(i)
    BY <1>3 DEF Post
  <2>2. sends[i].state \in {"open", "close"}
    BY <2>1, UnderWay
  <2>3. CASE sends[i].state = "close"
    <3>1. action(sends[i].state) = "resolve"
      BY <2>3 DEF action
    <3>2. Keyed
      BY <2>1, <3>1 DEF Searches
    <3>3. incidents' = CloseAll(Open(correlation(sends[i].rec)), sends[i].rec)
      BY <2>1, <3>1, <3>2 DEF Posted
    <3>4. PICK b : b = sends[i].rec
      OBVIOUS
    <3>5. incidents' = CloseAll(Open(correlation(b)), b)
      BY <3>3, <3>4
    <3>. QED
      BY <2>1, <2>3, <3>2, <3>4, <3>5, ResolveStep
  <2>4. CASE sends[i].state = "open"
    <3>1. action(sends[i].state) # "resolve"
      BY <2>4 DEF action
    <3>2. \/ Keyed /\ Open(correlation(sends[i].rec)) # {} /\ incidents' = incidents
          \/ incidents' = Append(incidents, incident(sends[i]))
      BY <2>1, <3>1 DEF Posted
    <3>. QED
      BY <2>1, <2>4, <3>2, TriggerStep
  <2>. QED
    BY <2>2, <2>3, <2>4
<1>4. ASSUME NEW i \in DOMAIN sends, Search(i) PROVE IncidentInv'
  <2>1. sends[i].step = "send" /\ Overlap(i) /\ Searches(i) /\ UNCHANGED <<service, incidents>>
    BY <1>4 DEF Search
  <2>2. sends[i].state = "close" /\ ~Keyed
    BY <2>1 DEF Searches, action
  <2>3. CASE lookup(sends[i]) = {}
    <3>1. sends' = Done(i, "ok")
      BY <1>4, <2>3 DEF Search
    <3>. QED
      BY <2>1, <2>2, <2>3, <3>1, SearchedStep
  <2>4. CASE lookup(sends[i]) # {}
    <3>1. PICK t \in lookup(sends[i]) : sends' = [sends EXCEPT ![i].step = "patch", ![i].target = t]
      BY <1>4, <2>4 DEF Search
    <3>. QED
      BY <2>1, <2>2, <3>1, FoundStep
  <2>. QED
    BY <2>3, <2>4
<1>5. ASSUME NEW i \in DOMAIN sends, Patch(i) PROVE IncidentInv'
  <2>1. PICK b : b = sends[i].rec
    OBVIOUS
  <2>2. PICK result \in {"ok", "error"} : sends' = Done(i, result)
    BY <1>5 DEF Patch
  <2>3. sends[i].step = "patch" /\ UNCHANGED <<service, overlapped>> /\ incidents' = CloseAll({sends[i].target}, b)
    BY <1>5, <2>1 DEF Patch
  <2>. QED
    BY <2>1, <2>2, <2>3, PatchStep
<1>. QED
  BY <1>1, <1>2, <1>3, <1>4, <1>5 DEF IncidentsNext

(* A set of numbers up to n that is not empty has a greatest element.      *)
LEMMA GreatestOf ==
  ASSUME NEW S, NEW n \in Nat, S \subseteq 0..n, S # {}
  PROVE  Max(S) \in S /\ \A x \in S : Max(S) >= x
<1> DEFINE T == {n - x : x \in S}
<1>1. \A y \in S : n - y \in Nat /\ n - y \in T
  OBVIOUS
<1>2. T \subseteq Nat /\ T # {}
  BY <1>1
<1>3. PICK m \in T : \A y \in T : m <= y
  <2> HIDE DEF T
  <2>. QED
    BY <1>2, HasLeast
<1>4. PICK x \in S : m = n - x
  OBVIOUS
<1> HIDE DEF T
<1>5. \A y \in S : x >= y
  BY <1>1, <1>3, <1>4
<1>. QED
  BY <1>4, <1>5 DEF Max

(* The incidents of a record that are open, counted.                       *)
LEMMA StillCounts ==
  ASSUME IncidentTypeOK, NEW a
  PROVE  /\ (\E j \in Nat : IsLive(j, a)) => Still(a) > 0
         /\ (\A j \in Nat : ~IsLive(j, a)) => Still(a) = 0
<1> DEFINE live == {j \in DOMAIN incidents : incidents[j].rec = a /\ incidents[j].open}
<1>1. DOMAIN incidents = 1..Len(incidents) /\ Len(incidents) \in Nat
  BY DEF IncidentTypeOK
<1>2. IsFiniteSet(live)
  <2>1. IsFiniteSet(1..Len(incidents)) /\ live \subseteq 1..Len(incidents)
    BY <1>1, FS_Interval
  <2> HIDE DEF live
  <2>. QED
    BY <2>1, FS_Subset
<1>3. \A j \in Nat : j \in live <=> IsLive(j, a)
  BY Zenon DEF IsLive, Belongs
<1>4. live \subseteq Nat
  BY <1>1
<1>5. Still(a) = Cardinality(live)
  BY DEF Still
<1> HIDE DEF live
<1>6. Cardinality(live) \in Nat /\ (Cardinality(live) = 0 <=> live = {})
  BY <1>2, FS_CardinalityType, FS_EmptySet
<1>. QED
  BY <1>3, <1>4, <1>5, <1>6

(* What the invariant says of a record whose notifications are through.    *)
LEMMA RecordFollowed ==
  ASSUME IncidentInv, service = "none" => sends = <<>>
  PROVE  IncidentFollowsRecord
<1>1. IncidentTypeOK /\ NoticeShape
  BY DEF IncidentInv
<1>2. DOMAIN sends = 1..Len(sends) /\ Len(sends) \in Nat
  BY <1>1 DEF IncidentTypeOK
<1>3. SUFFICES ASSUME NEW a \in Alerts, a \notin overlapped, Of(a) # {}, \A i \in Of(a) : sends[i].result = "ok"
               PROVE  /\ sends[Max(Of(a))].state = "open" => service = "statuspage" \/ Still(a) > 0
                      /\ sends[Max(Of(a))].state = "close" =>
                            \/ Still(a) = 0
                            \/ service = "statuspage" /\ ~(FiredInTurn(a) /\ NamedAlone(a))
                            \/ service = "servicenow" /\ Cardinality({i \in Of(a) : sends[i].state = "open"}) # 1
  <2>1. ASSUME NEW a
        PROVE  /\ FiredInTurn(a) <=>
                     \A i \in {l \in Of(a) : sends[l].state = "open"} : \A k \in {l \in Of(a) : sends[l].state = "open"} :
                         i < k => \E c \in Of(a) : i < c /\ c < k /\ sends[c].state = "close"
               /\ NamedAlone(a) <=>
                     \A i \in DOMAIN sends, k \in Of(a) : (i \in Of(a)) <=> (sends[i].name = sends[k].name)
    <3>1. NamedAlone(a) <=>
                     \A i \in DOMAIN sends, k \in Of(a) : (i \in Of(a)) <=> (sends[i].name = sends[k].name)
      BY Zenon DEF NamedAlone
    <3>. QED
      BY <3>1 DEF FiredInTurn
  <2>. QED
    BY <2>1, Zenon DEF IncidentFollowsRecord
<1>4. Follows(a) /\ Smooth(a)
  BY <1>3 DEF IncidentInv, Smooth
<1>5. Of(a) \subseteq DOMAIN sends
  BY DEF Of
<1>6. Max(Of(a)) \in Of(a) /\ \A x \in Of(a) : Max(Of(a)) >= x
  <2>1. Of(a) \subseteq 0..Len(sends)
    BY <1>2, <1>5
  <2>. QED
    BY <1>2, <1>3, <2>1, GreatestOf
<1>7. PICK m \in Of(a) : m = Max(Of(a)) /\ \A x \in Of(a) : m >= x
  BY <1>6
<1>8. \A i \in Of(a) : sends[i].step = "done"
  BY <1>1, <1>3, <1>5 DEF NoticeShape
<1>9. ASSUME sends[m].state = "open", service # "statuspage" PROVE Still(a) > 0
  <2>1. \A c \in Of(a) : ~(m < c)
    BY <1>2, <1>5, <1>7
  <2>2. \E j \in Nat : IsLive(j, a)
    BY <1>4, <1>8, <1>9, <2>1 DEF Follows, FiredIsLive
  <2>. QED
    BY <1>1, <2>2, StillCounts
<1>10. ASSUME sends[m].state = "close",
              Keyed \/ (service = "servicenow" /\ \E f \in Of(a) : OnlyFiring(f, a)) \/ OneName(a)
       PROVE  Still(a) = 0
  <2>1. ASSUME NEW j \in Nat, IsLive(j, a) PROVE FALSE
    <3>1. PICK f \in Of(a) : /\ sends[f].state = "open"
                             /\ \A c \in Of(a) : f < c /\ sends[c].state = "close" => sends[c].step # "done"
      BY <1>4, <1>10, <2>1 DEF Follows, LiveWasFired
    <3>2. f < m
      BY <1>2, <1>5, <1>7, <1>10, <3>1
    <3>. QED
      BY <1>8, <1>10, <3>1, <3>2
  <2>. QED
    BY <1>1, <2>1, StillCounts
<1>11. ASSUME Cardinality({i \in Of(a) : sends[i].state = "open"}) = 1 PROVE \E f \in Of(a) : OnlyFiring(f, a)
  <2> DEFINE S == {i \in Of(a) : sends[i].state = "open"}
  <2>1. IsFiniteSet(1..Len(sends)) /\ S \subseteq 1..Len(sends)
    BY <1>2, <1>5, FS_Interval
  <2>2. Cardinality(S) = 1
    BY <1>11
  <2>3. PICK f : S = {f}
    <3> HIDE DEF S
    <3>. QED
      BY <2>1, <2>2, FS_Subset, FS_Singleton
  <2>. QED
    BY <2>3 DEF OnlyFiring
<1>12. service # "none"
  BY <1>3, <1>5
<1>. QED
  BY <1>1, <1>7, <1>9, <1>10, <1>11, <1>12 DEF IncidentTypeOK, Services, Keyed, OneName

\* With no notifier of this kind there are no notifications.
NoNotices == service = "none" => sends = <<>>

(* Firing, closing, searching and changing interleave as they like, and an *)
(* incident follows its record and no other: a close resolves incidents of *)
(* its own record, on Statuspage of its name; what counts as sent was done;*)
(* and once the notifications of a record went through one by one, an      *)
(* incident is open if the last was a firing and none if it was a close,   *)
(* as far as each service tells its incidents apart (Send, resolve,        *)
(* resolveIncident).                                                       *)
THEOREM IncidentsFollowRecords == DeliverySpec => []IncidentsFollow
<1>1. DeliveryInit => IncidentInv /\ NoNotices
  <2> SUFFICES ASSUME DeliveryInit PROVE IncidentInv /\ NoNotices
    OBVIOUS
  <2>1. service \in Services \cup {"none"} /\ sends = <<>> /\ incidents = <<>>
    BY DEF DeliveryInit, NoIncidents, IncidentsInit
  <2>2. IncidentTypeOK /\ NoticeShape /\ IncidentShape /\ ResolvesItsOwn /\ SentWasDone /\ NoNotices
    BY <2>1 DEF IncidentTypeOK, NoticeShape, IncidentShape, ResolvesItsOwn, SentWasDone, NoNotices
  <2>3. ASSUME NEW a \in Alerts PROVE Follows(a)
    <3>1. Of(a) = {} /\ \A j \in Nat : ~Belongs(j, a) /\ ~IsLive(j, a)
      BY <2>1 DEF Of, Belongs, IsLive
    <3>. QED
      BY <3>1 DEF Follows, OneByOne, OneIncident, LiveWasFired, FiredIsLive, OneOpen
  <2>. QED
    BY <2>2, <2>3 DEF IncidentInv
<1>2. IncidentInv /\ NoNotices /\ [DeliveryNext]_<<vars, batchVars, incidentVars>> => IncidentInv' /\ NoNotices'
  <2> SUFFICES ASSUME IncidentInv, NoNotices, [DeliveryNext]_<<vars, batchVars, incidentVars>>
               PROVE  IncidentInv' /\ NoNotices'
    OBVIOUS
  <2>1. CASE service # "none" /\ IncidentsNext
    <3>1. service' = service
      BY <2>1 DEF IncidentsNext, fireSend, Misconfigured, Post, Search, Patch, RequestLost
    <3>. QED
      BY <2>1, <3>1, IncidentStep DEF NoNotices
  <2>2. CASE UNCHANGED incidentVars
    <3>1. UNCHANGED <<service, incidents, sends, overlapped>>
      BY <2>2 DEF incidentVars
    <3>2. /\ IncidentTypeOK' <=> IncidentTypeOK
          /\ NoticeShape' <=> NoticeShape
          /\ IncidentShape' <=> IncidentShape
          /\ ResolvesItsOwn' <=> ResolvesItsOwn
          /\ SentWasDone' <=> SentWasDone
      BY <3>1 DEF IncidentTypeOK, NoticeShape, IncidentShape, ResolvesItsOwn, SentWasDone, Keyed, Of
    <3>3. ASSUME NEW a \in Alerts PROVE Follows(a)' <=> Follows(a)
      BY <3>1 DEF Follows, OneByOne, OneIncident, LiveWasFired, FiredIsLive, OneOpen, Smooth, OnlyFiring,
                  OneName, FiredInTurn, NamedAlone, Keyed, Of, IsLive, Belongs
    <3>. QED
      BY <3>1, <3>2, <3>3 DEF IncidentInv, NoNotices
  <2>. QED
    BY <2>1, <2>2 DEF DeliveryNext
<1>3. IncidentInv /\ NoNotices => IncidentsFollow
  BY RecordFollowed DEF IncidentInv, NoNotices, IncidentsFollow
<1>. QED
  BY <1>1, <1>2, <1>3, PTL DEF DeliverySpec
=============================================================================

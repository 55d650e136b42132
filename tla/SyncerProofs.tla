---------------------------- MODULE SyncerProofs ----------------------------
(***************************************************************************)
(* Proofs about Syncer, for every set of tenants, writers, reload and      *)
(* pipeline goroutines, any buffer size and any number of writes, late and *)
(* failing reloads.                                                        *)
(***************************************************************************)
EXTENDS Syncer, TLAPS

-----------------------------------------------------------------------------
(* Type correctness.                                                       *)

(* The value a reload goroutine holds after starting, reading a collection *)
(* or running late is a reload.                                            *)
LEMMA ReloadTypes ==
  /\ \A t \in Tenants : [tenant |-> t, late |-> FALSE, seen |-> [c \in Colls |-> None]] \in Reloads
  /\ \A r \in Reloads, c \in Colls, n \in Nat : [r EXCEPT !.seen[c] = n] \in Reloads
  /\ \A r \in Reloads : [r EXCEPT !.late = TRUE] \in Reloads
BY DEF Reloads, Opt

(* Adding a reason to what a tenant missed keeps the type.                 *)
LEMMA MissingType ==
  ASSUME missed \in [Tenants -> SUBSET Causes], NEW t, NEW cause \in Causes,
         Missing(t, cause)
  PROVE  missed' \in [Tenants -> SUBSET Causes]
BY DEF Missing

(* Every step of the writers, the bus, the forwarders, the dispatch loop   *)
(* and the reloads keeps the state well typed: no buffer goes below zero.  *)
LEMMA TypeStep == TypeOK /\ [Next]_vars => TypeOK'
<1> SUFFICES ASSUME TypeOK, [Next]_vars PROVE TypeOK'
  OBVIOUS
<1> USE DEF TypeOK, Versions, storeVars, busVars, fwdVars, loopVars, counters
<1>1. ASSUME NEW w \in Writers, NEW c \in Colls, NEW t \in Tenants, Commit(w, c, t)
      PROVE  TypeOK'
  BY <1>1 DEF Commit, Opt
<1>2. ASSUME NEW w \in Writers, NEW c \in Colls, NEW t \in Tenants, Deliver(w, c, t)
      PROVE  TypeOK'
  BY <1>2 DEF Deliver, Opt
<1>3. ASSUME NEW w \in Writers, NEW c \in Colls, NEW t \in Tenants, Drop(w, c, t)
      PROVE  TypeOK'
  <2>1. missed' \in [Tenants -> SUBSET Causes]
    BY <1>3, MissingType DEF Drop, Causes
  <2>. QED
    BY <1>3, <2>1 DEF Drop, Opt
<1>4. ASSUME NEW w \in Writers, NEW c \in Colls, NEW t \in Tenants, PublishUnheard(w, c, t)
      PROVE  TypeOK'
  <2>1. missed' \in [Tenants -> SUBSET Causes]
    BY <1>4, MissingType DEF PublishUnheard, Causes
  <2>. QED
    BY <1>4, <2>1 DEF PublishUnheard, Opt
<1>5. ASSUME NEW c \in Colls, Subscribe(c) PROVE TypeOK'
  BY <1>5 DEF Subscribe
<1>6. ASSUME NEW c \in Colls, NEW t \in Tenants, Forward(c, t) PROVE TypeOK'
  BY <1>6 DEF Forward, Opt
<1>7. ASSUME NEW c \in Colls, SendMerged(c) PROVE TypeOK'
  BY <1>7 DEF SendMerged, Opt
<1>8. ASSUME NEW c \in Colls, ForwarderEnds(c) PROVE TypeOK'
  BY <1>8 DEF ForwarderEnds, Opt
<1>9. ASSUME NEW c \in Colls, Unsubscribe(c) PROVE TypeOK'
  BY <1>9 DEF Unsubscribe
<1>10. ASSUME NEW t \in Tenants, Receive(t) PROVE TypeOK'
  <2>1. merged' \in [Tenants -> Nat]
    <3>1. merged[t] \in Nat /\ merged[t] > 0 /\ merged' = [merged EXCEPT ![t] = merged[t] - 1]
      BY <1>10 DEF Receive
    <3>. QED
      BY <3>1
  <2>2. pending' \in SUBSET Tenants
    BY <1>10 DEF Receive
  <2>. QED
    BY <1>10, <2>1, <2>2 DEF Receive
<1>11. CASE WindowCloses \/ ReloadsDone \/ DispatchEnds
  <2>1. loop' \in {"subscribe", "select", "reload", "stopped"}
    BY <1>11 DEF WindowCloses, ReloadsDone, DispatchEnds
  <2>2. pending' \in SUBSET Tenants /\ todo' \in SUBSET Tenants
    BY <1>11 DEF WindowCloses, ReloadsDone, DispatchEnds
  <2>3. UNCHANGED <<storeVars, busVars, fwdVars, current, call, looking, ctxDone, counters, missed>>
    BY <1>11 DEF WindowCloses, ReloadsDone, DispatchEnds
  <2>. QED
    BY <2>1, <2>2, <2>3
<1>12. ASSUME NEW t \in Tenants, NEW g \in Calls, StartReload(t, g) PROVE TypeOK'
  <2>1. call' \in [Calls -> Opt(Reloads)]
    BY <1>12, ReloadTypes DEF StartReload, Opt
  <2>. QED
    BY <1>12, <2>1 DEF StartReload, Opt
<1>13. ASSUME NEW t \in Tenants, SkipReload(t) PROVE TypeOK'
  BY <1>13 DEF SkipReload
<1>14. CASE Abandon
  <2>1. missed' \in [Tenants -> SUBSET Causes]
    BY <1>14, MissingType DEF Abandon, Causes
  <2>. QED
    BY <1>14, <2>1 DEF Abandon, Opt
<1>15. ASSUME NEW g \in Calls, NEW c \in Colls, ReadCollection(g, c) PROVE TypeOK'
  <2>1. call[g] \in Reloads
    BY <1>15 DEF ReadCollection, Opt
  <2>2. stored[c][call[g].tenant] \in Nat
    BY <2>1 DEF Reloads
  <2>3. call' \in [Calls -> Opt(Reloads)]
    BY <1>15, <2>1, <2>2, ReloadTypes DEF ReadCollection, Opt
  <2>. QED
    BY <1>15, <2>3 DEF ReadCollection
<1>16. ASSUME NEW g \in Calls, StoreReload(g) PROVE TypeOK'
  <2>1. call[g] \in Reloads
    BY <1>16 DEF StoreReload, Opt
  <2>2. call[g].tenant \in Tenants /\ \A c \in Colls : call[g].seen[c] \in Nat
    BY <1>16, <2>1 DEF StoreReload, Reloads, Opt
  <2>3. cache' \in [Colls -> [Tenants -> Nat]]
    BY <1>16, <2>2 DEF StoreReload
  <2>4. missed' \in [Tenants -> SUBSET Causes]
    BY <1>16, <2>2 DEF StoreReload, Causes
  <2>5. call' \in [Calls -> Opt(Reloads)] /\ current' \in Opt(Calls)
    BY <1>16 DEF StoreReload, Finish, Opt
  <2>. QED
    BY <1>16, <2>3, <2>4, <2>5 DEF StoreReload
<1>17. ASSUME NEW g \in Calls, ReloadFails(g) PROVE TypeOK'
  <2>1. missed' \in [Tenants -> SUBSET Causes]
    BY <1>17, MissingType DEF ReloadFails, Causes
  <2>. QED
    BY <1>17, <2>1 DEF ReloadFails, Finish, Opt
<1>18. ASSUME NEW g \in Calls, Unwind(g) PROVE TypeOK'
  BY <1>18 DEF Unwind, Finish, Opt
<1>19. ASSUME NEW g \in Calls, RunLate(g) PROVE TypeOK'
  <2>1. call[g] \in Reloads
    BY <1>19 DEF RunLate, Opt
  <2>2. call' \in [Calls -> Opt(Reloads)]
    BY <1>19, <2>1, ReloadTypes DEF RunLate, Opt
  <2>3. /\ lates' \in Nat
        /\ UNCHANGED <<storeVars, busVars, fwdVars, loopVars, looking, ctxDone, writes, fails,
                       lookups, missed>>
    BY <1>19 DEF RunLate
  <2>. QED
    BY <2>2, <2>3
<1>20. ASSUME NEW l \in Lookers, NEW t \in Tenants, LookupMiss(l, t) PROVE TypeOK'
  BY <1>20 DEF LookupMiss, Opt, Colls
<1>21. ASSUME NEW l \in Lookers, LookupStore(l) PROVE TypeOK'
  <2>1. looking[l] \in [tenant : Tenants, seen : Nat]
    BY <1>21 DEF LookupStore, Opt
  <2>2. missed' \in [Tenants -> SUBSET Causes]
    BY <1>21, MissingType DEF LookupStore, Causes
  <2>3. cache' \in [Colls -> [Tenants -> Nat]]
    BY <1>21, <2>1 DEF LookupStore
  <2>4. looking' \in [Lookers -> Opt([tenant : Tenants, seen : Nat])]
    BY <1>21 DEF LookupStore, Opt
  <2>. QED
    BY <1>21, <2>2, <2>3, <2>4 DEF LookupStore
<1>22. CASE Shutdown
  BY <1>22 DEF Shutdown
<1>23. CASE UNCHANGED vars
  BY <1>23 DEF vars
<1>24. ASSUME NEW c \in Colls, NEW t \in Tenants, CommitSilently(c, t) PROVE TypeOK'
  <2>1. missed' \in [Tenants -> SUBSET Causes]
    BY <1>24, MissingType DEF CommitSilently, Causes
  <2>2. stored' \in [Colls -> [Tenants -> Nat]] /\ writes' \in Nat
    BY <1>24 DEF CommitSilently
  <2>3. UNCHANGED <<cache, busVars, fwdVars, loopVars, call, looking, ctxDone, lates, fails, lookups>>
    BY <1>24 DEF CommitSilently
  <2>. QED
    BY <2>1, <2>2, <2>3
<1>. QED
  BY <1>24, <1>1, <1>2, <1>3, <1>4, <1>5, <1>6, <1>7, <1>8, <1>9, <1>10, <1>11, <1>12, <1>13, <1>14,
     <1>15, <1>16, <1>17, <1>18, <1>19, <1>20, <1>21, <1>22, <1>23
     DEF Next, Publish, Reload, Dispatch

(* Type correctness of the syncer, in every reachable state.               *)
THEOREM TypeCorrect == Spec => []TypeOK
<1>1. ASSUME Init PROVE TypeOK
  BY <1>1 DEF Init, TypeOK, Versions, Opt, Causes
<1>. QED
  BY <1>1, TypeStep, PTL DEF Spec

-----------------------------------------------------------------------------
(* No change is forgotten.  NothingForgotten is not inductive: when the    *)
(* reload the loop waits for stores an old snapshot, the change it has not *)
(* seen must still be on its way.                                          *)

\* Something will still reload tenant t for a change of c, or it was missed.
Covered(c, t) == InFlight(c, t) \/ missed[t] # {}

\* Subscriptions and forwarders end with the context of Run only.
OpenUntilShutdown == ~ctxDone => \A c \in Colls : sub[c] # "closed" /\ ~ended[c]

\* Outside the reload loop of a closed window nothing is left of it.
WindowDone == loop # "reload" => todo = {} /\ current = None

\* The reload the loop waits for is running.
WaitsForRunning == current # None => current \in Calls /\ call[current] # None

\* What the awaited reload has read is the newest commit, or a later one is
\* covered.
SnapshotCovered ==
  ~ctxDone /\ current # None =>
    \A c \in Colls : \/ call[current].seen[c] \in {None, stored[c][call[current].tenant]}
                     \/ Covered(c, call[current].tenant)

SyncerInv == OpenUntilShutdown /\ WindowDone /\ WaitsForRunning /\ SnapshotCovered /\ NothingForgotten

(* Bookkeeping of the dispatch loop: the first three parts are inductive   *)
(* on their own.                                                           *)
LEMMA LoopStep ==
  ASSUME TypeOK, OpenUntilShutdown, WindowDone, WaitsForRunning, [Next]_vars
  PROVE  OpenUntilShutdown' /\ WindowDone' /\ WaitsForRunning'
<1> USE DEF OpenUntilShutdown, WindowDone, WaitsForRunning, storeVars, busVars, fwdVars, loopVars
<1>1. ASSUME NEW w \in Writers, NEW c \in Colls, NEW t \in Tenants,
             Commit(w, c, t) \/ Deliver(w, c, t) \/ Drop(w, c, t) \/ PublishUnheard(w, c, t)
      PROVE  OpenUntilShutdown' /\ WindowDone' /\ WaitsForRunning'
  BY <1>1 DEF Commit, Deliver, Drop, PublishUnheard
<1>0. ASSUME NEW c \in Colls, NEW t \in Tenants, CommitSilently(c, t)
      PROVE  OpenUntilShutdown' /\ WindowDone' /\ WaitsForRunning'
  BY <1>0 DEF CommitSilently
<1>2. ASSUME NEW c \in Colls, Subscribe(c)
      PROVE  OpenUntilShutdown' /\ WindowDone' /\ WaitsForRunning'
  BY <1>2 DEF Subscribe, TypeOK
<1>3. ASSUME NEW c \in Colls, (\E t \in Tenants : Forward(c, t)) \/ SendMerged(c)
      PROVE  OpenUntilShutdown' /\ WindowDone' /\ WaitsForRunning'
  BY <1>3 DEF Forward, SendMerged
<1>4. ASSUME NEW c \in Colls, ForwarderEnds(c) \/ Unsubscribe(c)
      PROVE  OpenUntilShutdown' /\ WindowDone' /\ WaitsForRunning'
  BY <1>4 DEF ForwarderEnds, Unsubscribe, TypeOK
<1>5. CASE WindowCloses \/ ReloadsDone \/ DispatchEnds \/ Abandon \/ Shutdown
  BY <1>5 DEF WindowCloses, ReloadsDone, DispatchEnds, Abandon, Shutdown
<1>6. ASSUME NEW t \in Tenants, NEW g \in Calls, StartReload(t, g)
      PROVE  OpenUntilShutdown' /\ WindowDone' /\ WaitsForRunning'
  <2>1. call'[g] # None
    BY <1>6, ReloadTypes, NoneAssumption DEF StartReload, TypeOK
  <2>. QED
    BY <1>6, <2>1 DEF StartReload
<1>7. ASSUME NEW t \in Tenants, Receive(t) \/ SkipReload(t)
      PROVE  OpenUntilShutdown' /\ WindowDone' /\ WaitsForRunning'
  BY <1>7 DEF Receive, SkipReload
<1>8. ASSUME NEW g \in Calls, (\E c \in Colls : ReadCollection(g, c)) \/ RunLate(g)
      PROVE  OpenUntilShutdown' /\ WindowDone' /\ WaitsForRunning'
  <2>1. g \in DOMAIN call /\ call[g] # None
    BY <1>8 DEF ReadCollection, RunLate, TypeOK
  <2>2. PICK r \in Reloads : call' = [call EXCEPT ![g] = r]
    <3>1. call[g] \in Reloads
      BY <2>1 DEF TypeOK, Opt
    <3>2. stored["notification"][call[g].tenant] \in Nat /\ stored["action"][call[g].tenant] \in Nat
      BY <3>1 DEF TypeOK, Versions, Reloads, Colls
    <3>. QED
      <4>1. ASSUME NEW c \in Colls, ReadCollection(g, c)
            PROVE  \E r \in Reloads : call' = [call EXCEPT ![g] = r]
        <5>1. stored[c][call[g].tenant] \in Nat
          BY <3>2 DEF Colls
        <5>. QED
          BY <4>1, <3>1, <5>1, ReloadTypes DEF ReadCollection
      <4>2. ASSUME RunLate(g)
            PROVE  \E r \in Reloads : call' = [call EXCEPT ![g] = r]
        BY <4>2, <3>1, ReloadTypes DEF RunLate
      <4>. QED
        BY <1>8, <4>1, <4>2
  <2>3. None \notin Reloads
    BY NoneAssumption
  <2>4. UNCHANGED <<sub, ended, ctxDone, loop, todo, current>>
    BY <1>8 DEF ReadCollection, RunLate
  <2>. QED
    BY <2>1, <2>2, <2>3, <2>4
<1>9. ASSUME NEW g \in Calls, StoreReload(g) \/ ReloadFails(g) \/ Unwind(g)
      PROVE  OpenUntilShutdown' /\ WindowDone' /\ WaitsForRunning'
  BY <1>9 DEF StoreReload, ReloadFails, Unwind, Finish, TypeOK
<1>10. ASSUME NEW l \in Lookers, (\E t \in Tenants : LookupMiss(l, t)) \/ LookupStore(l)
       PROVE  OpenUntilShutdown' /\ WindowDone' /\ WaitsForRunning'
  BY <1>10 DEF LookupMiss, LookupStore
<1>11. CASE UNCHANGED vars
  BY <1>11 DEF vars
<1>. QED
  BY <1>0, <1>1, <1>2, <1>3, <1>4, <1>5, <1>6, <1>7, <1>8, <1>9, <1>10, <1>11
     DEF Next, Publish, Reload, Dispatch

(* A step that keeps collections, caches and reloads and loses no cover    *)
(* forgets nothing.                                                        *)
LEMMA Carry ==
  ASSUME NothingForgotten, SnapshotCovered, UNCHANGED <<stored, cache, call, current, ctxDone>>,
         \A c \in Colls, t \in Tenants : Covered(c, t) => Covered(c, t)',
         ~ctxDone /\ current # None => call[current].tenant \in Tenants
  PROVE  NothingForgotten' /\ SnapshotCovered'
BY DEF NothingForgotten, SnapshotCovered, Covered, BeingLoaded

(* The writers and the bus: a committed change is on its way, and leaves   *)
(* its writer for the buffer, as a duplicate of one there, or as missed.   *)
LEMMA BusCovers ==
  ASSUME TypeOK, NothingForgotten, SnapshotCovered, WaitsForRunning,
         NEW w \in Writers, NEW d \in Colls, NEW u \in Tenants,
         Deliver(w, d, u) \/ Drop(w, d, u) \/ PublishUnheard(w, d, u)
  PROVE  NothingForgotten' /\ SnapshotCovered'
<1> USE DEF storeVars, busVars, fwdVars, loopVars
<1>1. UNCHANGED <<stored, cache, call, current, ctxDone, held, merged, pending, todo>>
  BY DEF Deliver, Drop, PublishUnheard
<1>2. publishing' = [publishing EXCEPT ![w] = None] /\ publishing[w] = <<d, u>>
  BY DEF Deliver, Drop, PublishUnheard
<1>3. /\ publishing \in [Writers -> Opt(Colls \X Tenants)]
      /\ queue \in [Colls -> [Tenants -> Nat]]
      /\ missed \in [Tenants -> SUBSET Causes]
  BY DEF TypeOK, Versions
<1>4. \/ queue' = [queue EXCEPT ![d][u] = queue[d][u] + 1] /\ missed' = missed
      \/ queue' = queue /\ queue[d][u] # 0 /\ missed' = missed
      \/ queue' = queue /\ \E cause : Missing(u, cause)
  BY DEF Deliver, Drop, PublishUnheard
<1>5. \A t \in Tenants : missed[t] \subseteq missed'[t]
  BY <1>3, <1>4 DEF Missing
<1>6. \A c \in Colls, t \in Tenants : queue[c][t] > 0 => queue'[c][t] > 0
  BY <1>3, <1>4
<1>7. queue'[d][u] > 0 \/ missed'[u] # {}
  <2>1. CASE queue' = [queue EXCEPT ![d][u] = queue[d][u] + 1]
    BY <1>3, <2>1
  <2>2. CASE queue' = queue /\ queue[d][u] # 0
    <3>1. queue[d][u] \in Nat
      BY <1>3
    <3>. QED
      BY <2>2, <3>1
  <2>3. CASE \E cause : Missing(u, cause)
    BY <1>3, <2>3 DEF Missing
  <2>. QED
    BY <1>4, <2>1, <2>2, <2>3
<1>8. ASSUME NEW c \in Colls, NEW t \in Tenants, Covered(c, t) PROVE Covered(c, t)'
  <2>1. CASE c = d /\ t = u
    BY <1>7, <2>1 DEF Covered, InFlight
  <2>2. CASE ~(c = d /\ t = u)
    <3>1. \A x \in Writers : publishing[x] = <<c, t>> => publishing'[x] = <<c, t>>
      BY <1>2, <1>3, <2>2
    <3>. QED
      BY <1>1, <1>5, <1>6, <1>8, <3>1 DEF Covered, InFlight
  <2>. QED
    BY <2>1, <2>2
<1>9. current # None => call[current].tenant \in Tenants
  BY DEF WaitsForRunning, TypeOK, Opt, Reloads
<1>. QED
  BY <1>1, <1>8, <1>9, Carry

(* The forwarders and the window: an event moves from a buffer to its      *)
(* forwarder, to the merged channel, to the window and to its reloads, and *)
(* is in one of these places all the time.                                 *)
LEMMA ChannelsCover ==
  ASSUME TypeOK, NothingForgotten, SnapshotCovered, WaitsForRunning, WindowDone,
         \/ \E d \in Colls : SendMerged(d) \/ \E u \in Tenants : Forward(d, u)
         \/ \E u \in Tenants : Receive(u)
         \/ WindowCloses
  PROVE  NothingForgotten' /\ SnapshotCovered'
<1> USE DEF storeVars, busVars, fwdVars, loopVars
<1>1. UNCHANGED <<stored, cache, call, current, ctxDone, publishing, missed>>
  BY DEF SendMerged, Forward, Receive, WindowCloses
<1>2. current # None => call[current].tenant \in Tenants
  BY DEF WaitsForRunning, TypeOK, Opt, Reloads
<1>3. /\ queue \in [Colls -> [Tenants -> Nat]]
      /\ held \in [Colls -> Opt(Tenants)]
      /\ merged \in [Tenants -> Nat]
  BY DEF TypeOK, Versions
<1>4. SUFFICES ASSUME NEW c \in Colls, NEW t \in Tenants, Covered(c, t) PROVE Covered(c, t)'
  BY <1>1, <1>2, Carry
<1>5. ASSUME NEW d \in Colls, NEW u \in Tenants, Forward(d, u) PROVE Covered(c, t)'
  <2>1. /\ queue' = [queue EXCEPT ![d][u] = queue[d][u] - 1]
        /\ held[d] = None /\ held' = [held EXCEPT ![d] = u]
        /\ UNCHANGED <<merged, pending, todo>>
    BY <1>5 DEF Forward
  <2>2. queue[c][t] > 0 => queue'[c][t] > 0 \/ held'[c] = t
    BY <1>3, <2>1
  <2>3. held[c] = t => held'[c] = t
    BY <1>3, <2>1, NoneAssumption
  <2>. QED
    BY <1>1, <1>4, <2>1, <2>2, <2>3 DEF Covered, InFlight
<1>6. ASSUME NEW d \in Colls, SendMerged(d) PROVE Covered(c, t)'
  <2>1. /\ merged' = [merged EXCEPT ![held[d]] = merged[held[d]] + 1]
        /\ held[d] # None /\ held' = [held EXCEPT ![d] = None]
        /\ UNCHANGED <<queue, pending, todo>>
    BY <1>6 DEF SendMerged
  <2>2. merged[t] > 0 => merged'[t] > 0
    BY <1>3, <2>1 DEF Opt
  <2>3. held[c] = t => merged'[t] > 0 \/ held'[c] = t
    BY <1>3, <2>1 DEF Opt
  <2>. QED
    BY <1>1, <1>4, <2>1, <2>2, <2>3 DEF Covered, InFlight
<1>7. ASSUME NEW u \in Tenants, Receive(u) PROVE Covered(c, t)'
  <2>1. /\ merged' = [merged EXCEPT ![u] = merged[u] - 1]
        /\ pending' = pending \cup {u}
        /\ UNCHANGED <<queue, held, todo>>
    BY <1>7 DEF Receive
  <2>2. merged[t] > 0 => merged'[t] > 0 \/ t \in pending'
    BY <1>3, <2>1
  <2>. QED
    BY <1>1, <1>4, <2>1, <2>2 DEF Covered, InFlight
<1>8. CASE WindowCloses
  <2>1. todo = {} /\ todo' = pending /\ UNCHANGED <<queue, held, merged>>
    BY <1>8 DEF WindowCloses, WindowDone
  <2>. QED
    BY <1>1, <1>4, <2>1 DEF Covered, InFlight
<1>. QED
  BY <1>5, <1>6, <1>7, <1>8

(* The dispatch loop and the reloads: a tenant taken from the window is    *)
(* being loaded, what the awaited reload has not seen is covered when it   *)
(* stores, and a reload that is given up leaves a trace in missed.         *)
LEMMA ReloadsCover ==
  ASSUME TypeOK, NothingForgotten, SnapshotCovered, WaitsForRunning, ~ctxDone,
         NEW g \in Calls,
         \/ \E u \in Tenants : StartReload(u, g)
         \/ \E d \in Colls : ReadCollection(g, d)
         \/ StoreReload(g) \/ ReloadFails(g) \/ Unwind(g) \/ RunLate(g)
  PROVE  NothingForgotten' /\ SnapshotCovered'
<1> USE DEF storeVars, busVars, fwdVars, loopVars
<1>1. UNCHANGED <<stored, ctxDone, publishing, queue, held, merged, pending>>
  BY DEF StartReload, ReadCollection, StoreReload, ReloadFails, Unwind, RunLate
<1>2. /\ call \in [Calls -> Opt(Reloads)]
      /\ stored \in [Colls -> [Tenants -> Nat]]
      /\ cache \in [Colls -> [Tenants -> Nat]]
      /\ missed \in [Tenants -> SUBSET Causes]
  BY DEF TypeOK, Versions
<1>3. ASSUME NEW u \in Tenants, StartReload(u, g) PROVE NothingForgotten' /\ SnapshotCovered'
  <2>1. /\ current = None /\ current' = g /\ g # None
        /\ call'[g] = [tenant |-> u, late |-> FALSE, seen |-> [c \in Colls |-> None]]
        /\ todo' = todo \ {u}
        /\ UNCHANGED <<cache, missed>>
    BY <1>2, <1>3, NoneAssumption DEF StartReload
  <2>2. /\ call'[g].tenant = u
        /\ \A c \in Colls : call'[g].seen[c] = None
    BY <2>1
  <2>3. SnapshotCovered'
    BY <2>1, <2>2 DEF SnapshotCovered
  <2>4. ASSUME NEW c \in Colls, NEW t \in Tenants
        PROVE  (cache[c][t] = stored[c][t] \/ InFlight(c, t) \/ BeingLoaded(c, t)
                  \/ missed[t] # {})'
    <3>1. CASE t = u
      BY <2>1, <2>2, <3>1 DEF BeingLoaded
    <3>2. CASE t # u
      <4>1. cache[c][t] = stored[c][t] \/ InFlight(c, t) \/ missed[t] # {}
        BY <2>1 DEF NothingForgotten, BeingLoaded
      <4>2. InFlight(c, t) => InFlight(c, t)'
        BY <1>1, <2>1, <3>2 DEF InFlight
      <4>. QED
        BY <1>1, <2>1, <4>1, <4>2
    <3>. QED
      BY <3>1, <3>2
  <2>. QED
    BY <2>3, <2>4 DEF NothingForgotten
<1>4. ASSUME UNCHANGED todo, NEW c \in Colls, NEW t \in Tenants
      PROVE  InFlight(c, t)' <=> InFlight(c, t)
  BY <1>1, <1>4 DEF InFlight
<1>5. ASSUME UNCHANGED <<cache, missed, current, todo>>,
             current # None =>
               /\ call'[current].tenant = call[current].tenant
               /\ call[current].tenant \in Tenants
               /\ \A c \in Colls :
                    \/ call'[current].seen[c] = call[current].seen[c]
                    \/ call'[current].seen[c] = stored[c][call[current].tenant]
      PROVE  NothingForgotten' /\ SnapshotCovered'
  <2>1. SnapshotCovered'
    BY <1>1, <1>4, <1>5 DEF SnapshotCovered, Covered
  <2>2. NothingForgotten'
    BY <1>1, <1>4, <1>5 DEF NothingForgotten, BeingLoaded
  <2>. QED
    BY <2>1, <2>2
<1>6. current # None => current \in Calls /\ call[current] \in Reloads
  BY <1>2 DEF WaitsForRunning, Opt
<1>7. ASSUME NEW d \in Colls, ReadCollection(g, d) PROVE NothingForgotten' /\ SnapshotCovered'
  <2>1. /\ UNCHANGED <<cache, missed, current, todo>>
        /\ call' = [call EXCEPT ![g] =
                      [call[g] EXCEPT !.seen = [call[g].seen EXCEPT ![d] = stored[d][call[g].tenant]]]]
        /\ call[g] \in Reloads
    BY <1>2, <1>7 DEF ReadCollection, Opt
  <2>2. /\ call'[g].tenant = call[g].tenant
        /\ call'[g].seen = [call[g].seen EXCEPT ![d] = stored[d][call[g].tenant]]
    BY <1>2, <2>1 DEF Reloads
  <2>3. ASSUME current # None
        PROVE  /\ call'[current].tenant = call[current].tenant
               /\ call[current].tenant \in Tenants
               /\ \A c \in Colls :
                    \/ call'[current].seen[c] = call[current].seen[c]
                    \/ call'[current].seen[c] = stored[c][call[current].tenant]
    <3>1. CASE current = g
      BY <2>1, <2>2, <3>1 DEF Reloads
    <3>2. CASE current # g
      BY <1>2, <1>6, <2>1, <2>3, <3>2 DEF Reloads
    <3>. QED
      BY <3>1, <3>2
  <2>. QED
    BY <1>5, <2>1, <2>3
<1>8. ASSUME RunLate(g) PROVE NothingForgotten' /\ SnapshotCovered'
  <2>1. /\ UNCHANGED <<cache, missed, current, todo>>
        /\ call' = [call EXCEPT ![g] = [call[g] EXCEPT !.late = TRUE]]
        /\ call[g] \in Reloads /\ current = g
    BY <1>2, <1>8 DEF RunLate, Opt
  <2>2. /\ call'[current].tenant = call[current].tenant
        /\ call'[current].seen = call[current].seen
        /\ call[current].tenant \in Tenants
    BY <1>2, <2>1 DEF Reloads
  <2>. QED
    BY <1>5, <2>1, <2>2
<1>9. ASSUME StoreReload(g) PROVE NothingForgotten' /\ SnapshotCovered'
  <2>0. PICK u \in Tenants : call[g].tenant = u
    BY <1>2, <1>9 DEF StoreReload, Reloads, Opt
  <2> DEFINE Goal(c, t) == cache[c][t] = stored[c][t] \/ InFlight(c, t) \/ BeingLoaded(c, t)
                           \/ missed[t] # {}
  <2>1. /\ call[g] \in Reloads /\ UNCHANGED todo
        /\ \A c \in Colls : call[g].seen[c] # None
        /\ cache' = [c \in Colls |-> [cache[c] EXCEPT ![u] = call[g].seen[c]]]
        /\ call' = [call EXCEPT ![g] = None]
        /\ current' = IF current = g THEN None ELSE current
    BY <1>2, <1>9, <2>0 DEF StoreReload, Finish, Opt
  <2>2. missed' = [missed EXCEPT ![u] =
                     IF Current(g) THEN (IF g = current THEN {} ELSE missed[u])
                     ELSE (IF g = current THEN missed[u] ELSE missed[u] \cup {"late"})]
    BY <1>9, <2>0 DEF StoreReload
  <2>4. /\ \A c \in Colls : cache'[c][u] = call[g].seen[c]
        /\ \A c \in Colls, t \in Tenants : t # u => cache'[c][t] = cache[c][t]
        /\ \A t \in Tenants : t # u => missed'[t] = missed[t]
    BY <1>2, <2>1, <2>2
  <2>5. current' # None => /\ current' = current /\ current # g
                           /\ call'[current] = call[current]
                           /\ call[current].tenant \in Tenants
    BY <1>2, <1>6, <2>1 DEF Reloads
  <2>6. ASSUME NEW c \in Colls, NEW t \in Tenants, t # u PROVE Goal(c, t)'
    <3>1. Goal(c, t)
      BY DEF NothingForgotten
    <3>2. BeingLoaded(c, t) => BeingLoaded(c, t)'
      <4>1. CASE current = g
        BY <2>0, <2>6, <4>1 DEF BeingLoaded
      <4>2. CASE current # g
        <5>1. current # None => current' = current /\ call'[current] = call[current]
          BY <1>2, <1>6, <2>1, <4>2
        <5>. QED
          BY <1>1, <5>1 DEF BeingLoaded
      <4>. QED
        BY <4>1, <4>2
    <3>. QED
      BY <1>1, <1>4, <2>1, <2>4, <2>6, <3>1, <3>2
  <2>7. CASE Current(g)
    <3>1. \A c \in Colls : Goal(c, u)'
      BY <1>1, <2>0, <2>4, <2>7 DEF Current
    <3>2. current' # None => missed' = missed
      BY <1>2, <2>2, <2>5, <2>7
    <3>3. SnapshotCovered'
      BY <1>1, <1>4, <2>1, <2>5, <3>2 DEF SnapshotCovered, Covered
    <3>. QED
      BY <2>6, <3>1, <3>3 DEF NothingForgotten
  <2>8. CASE ~Current(g) /\ g = current
    <3>1. missed' = missed /\ current' = None
      BY <1>2, <2>1, <2>2, <2>8
    <3>2. ASSUME NEW c \in Colls PROVE Goal(c, u)'
      <4>1. call[g].seen[c] = stored[c][u] \/ Covered(c, u)
        BY <2>0, <2>1, <2>8, NoneAssumption DEF SnapshotCovered
      <4>. QED
        BY <1>1, <1>4, <2>1, <2>4, <3>1, <4>1 DEF Covered
    <3>. QED
      BY <2>6, <3>1, <3>2 DEF NothingForgotten, SnapshotCovered
  <2>9. CASE ~Current(g) /\ g # current
    <3>1. missed'[u] # {}
      BY <1>2, <2>2, <2>9
    <3>2. \A t \in Tenants : missed[t] # {} => missed'[t] # {}
      BY <2>4, <3>1
    <3>3. SnapshotCovered'
      BY <1>1, <1>4, <2>1, <2>5, <3>2 DEF SnapshotCovered, Covered
    <3>. QED
      BY <2>6, <3>1, <3>3 DEF NothingForgotten
  <2>. QED
    BY <2>7, <2>8, <2>9
<1>10. ASSUME ReloadFails(g) PROVE NothingForgotten' /\ SnapshotCovered'
  <2>1. /\ g = current /\ current' = None /\ UNCHANGED <<cache, todo>>
        /\ missed' = [missed EXCEPT ![call[g].tenant] = missed[call[g].tenant] \cup {"failed"}]
        /\ call[g] \in Reloads
    BY <1>2, <1>10 DEF ReloadFails, Finish, Missing, Opt
  <2>2. \A t \in Tenants : missed'[t] = {} => missed[t] = {} /\ t # call[g].tenant
    BY <1>2, <2>1 DEF Reloads
  <2>3. NothingForgotten'
    BY <1>1, <1>4, <2>1, <2>2 DEF NothingForgotten, BeingLoaded
  <2>. QED
    BY <2>1, <2>3 DEF SnapshotCovered
<1>11. ASSUME Unwind(g) PROVE NothingForgotten' /\ SnapshotCovered'
  <2>1. /\ UNCHANGED <<cache, missed, current, todo>> /\ g # current
        /\ call' = [call EXCEPT ![g] = None]
    BY <1>11 DEF Unwind, Finish
  <2>2. current # None => call'[current] = call[current] /\ call[current].tenant \in Tenants
    BY <1>2, <1>6, <2>1 DEF Reloads
  <2>. QED
    BY <1>5, <2>1, <2>2
<1>. QED
  BY <1>3, <1>7, <1>8, <1>9, <1>10, <1>11

(* The remaining steps: a commit puts its writer on the way, a silent one, *)
(* an abandoned reload and a refresh on a miss that stores old actions are missed.      *)
LEMMA OthersCover ==
  ASSUME TypeOK, NothingForgotten, SnapshotCovered, WaitsForRunning,
         \/ \E w \in Writers, c \in Colls, t \in Tenants : Commit(w, c, t)
         \/ \E c \in Colls, t \in Tenants : CommitSilently(c, t)
         \/ Abandon
         \/ \E l \in Lookers : LookupStore(l)
  PROVE  NothingForgotten' /\ SnapshotCovered'
<1> USE DEF storeVars, busVars, fwdVars, loopVars
<1>1. UNCHANGED <<ctxDone, call, queue, held, merged, pending, todo>>
  BY DEF Commit, CommitSilently, Abandon, LookupStore
<1>2. /\ publishing \in [Writers -> Opt(Colls \X Tenants)]
      /\ stored \in [Colls -> [Tenants -> Nat]]
      /\ cache \in [Colls -> [Tenants -> Nat]]
      /\ missed \in [Tenants -> SUBSET Causes]
  BY DEF TypeOK, Versions
<1>3. current # None => call[current].tenant \in Tenants
  BY DEF WaitsForRunning, TypeOK, Opt, Reloads
<1>4. ASSUME NEW w \in Writers, NEW d \in Colls, NEW u \in Tenants, Commit(w, d, u)
      PROVE  NothingForgotten' /\ SnapshotCovered'
  <2>1. /\ publishing[w] = None /\ publishing' = [publishing EXCEPT ![w] = <<d, u>>]
        /\ stored' = [stored EXCEPT ![d][u] = stored[d][u] + 1]
        /\ UNCHANGED <<cache, current, missed>>
    BY <1>4 DEF Commit
  <2>2. InFlight(d, u)'
    BY <1>2, <2>1 DEF InFlight
  <2>3. ASSUME NEW c \in Colls, NEW t \in Tenants, ~(c = d /\ t = u)
        PROVE  stored'[c][t] = stored[c][t]
    BY <1>2, <2>1, <2>3
  <2>4. ASSUME NEW c \in Colls, NEW t \in Tenants, InFlight(c, t) PROVE InFlight(c, t)'
    <3>1. \A x \in Writers : publishing[x] = <<c, t>> => publishing'[x] = <<c, t>>
      BY <1>2, <2>1, NoneAssumption
    <3>. QED
      BY <1>1, <2>1, <2>4, <3>1 DEF InFlight
  <2>5. NothingForgotten'
    BY <1>1, <2>1, <2>2, <2>3, <2>4 DEF NothingForgotten, BeingLoaded
  <2>6. SnapshotCovered'
    BY <1>1, <1>3, <2>1, <2>2, <2>3, <2>4 DEF SnapshotCovered, Covered
  <2>. QED
    BY <2>5, <2>6
<1>5. CASE Abandon
  <2>1. /\ current' = None /\ current # None /\ UNCHANGED <<stored, cache, publishing>>
        /\ missed' = [missed EXCEPT ![call[current].tenant] =
                                  missed[call[current].tenant] \cup {"late"}]
    BY <1>5 DEF Abandon, Missing
  <2>2. \A t \in Tenants : missed'[t] = {} => missed[t] = {} /\ t # call[current].tenant
    BY <1>2, <1>3, <2>1
  <2>3. \A c \in Colls, t \in Tenants : InFlight(c, t)' <=> InFlight(c, t)
    BY <1>1, <2>1 DEF InFlight
  <2>4. NothingForgotten'
    BY <1>1, <2>1, <2>2, <2>3 DEF NothingForgotten, BeingLoaded
  <2>. QED
    BY <2>1, <2>4 DEF SnapshotCovered
<1>6. ASSUME NEW l \in Lookers, LookupStore(l) PROVE NothingForgotten' /\ SnapshotCovered'
  <2> DEFINE u == looking[l].tenant
  <2>1. /\ u \in Tenants /\ UNCHANGED <<stored, current, publishing>>
        /\ cache' = [cache EXCEPT !["action"][u] = looking[l].seen]
        /\ \/ looking[l].seen = stored["action"][u] /\ missed' = missed
           \/ Missing(u, "lookup")
    BY <1>6 DEF LookupStore, TypeOK, Opt
  <2>2. \A t \in Tenants : missed[t] # {} => missed'[t] # {}
    BY <1>2, <2>1 DEF Missing
  <2>3. \A c \in Colls, t \in Tenants :
          cache'[c][t] = cache[c][t] \/ cache'[c][t] = stored[c][t] \/ missed'[t] # {}
    BY <1>2, <2>1 DEF Missing
  <2>4. NothingForgotten'
    BY <1>1, <2>1, <2>2, <2>3 DEF NothingForgotten, BeingLoaded, InFlight
  <2>5. SnapshotCovered'
    BY <1>1, <1>3, <2>1, <2>2 DEF SnapshotCovered, Covered, InFlight
  <2>. QED
    BY <2>4, <2>5
<1>7. ASSUME NEW d \in Colls, NEW u \in Tenants, CommitSilently(d, u)
      PROVE  NothingForgotten' /\ SnapshotCovered'
  <2>1. /\ stored' = [stored EXCEPT ![d][u] = stored[d][u] + 1]
        /\ missed' = [missed EXCEPT ![u] = missed[u] \cup {"silent"}]
        /\ UNCHANGED <<cache, current, publishing>>
    BY <1>7 DEF CommitSilently, Missing
  <2>2. \A t \in Tenants : missed[t] # {} \/ t = u => missed'[t] # {}
    BY <1>2, <2>1
  <2>3. \A c \in Colls, t \in Tenants : t # u => stored'[c][t] = stored[c][t]
    BY <1>2, <2>1
  <2>4. \A c \in Colls, t \in Tenants : InFlight(c, t)' <=> InFlight(c, t)
    BY <1>1, <2>1 DEF InFlight
  <2>5. NothingForgotten'
    BY <1>1, <2>1, <2>2, <2>3, <2>4 DEF NothingForgotten, BeingLoaded
  <2>6. SnapshotCovered'
    BY <1>1, <1>3, <2>1, <2>2, <2>3, <2>4 DEF SnapshotCovered, Covered
  <2>. QED
    BY <2>5, <2>6
<1>. QED
  BY <1>4, <1>5, <1>6, <1>7

(* The context of Run is cancelled once and for all.                       *)
LEMMA ContextStep == ctxDone /\ [Next]_vars => ctxDone'
<1> SUFFICES ASSUME [Next]_vars PROVE UNCHANGED ctxDone \/ Shutdown
  BY DEF Shutdown
<1>1. ASSUME NEW w \in Writers,
             Publish(w) \/ \E c \in Colls, t \in Tenants : Commit(w, c, t)
      PROVE  UNCHANGED ctxDone
  BY <1>1 DEF Publish, Commit, Deliver, Drop, PublishUnheard
<1>2. ASSUME NEW c \in Colls,
             \/ Subscribe(c) \/ SendMerged(c) \/ ForwarderEnds(c) \/ Unsubscribe(c)
             \/ \E t \in Tenants : Forward(c, t)
      PROVE  UNCHANGED ctxDone
  BY <1>2 DEF Subscribe, SendMerged, ForwarderEnds, Unsubscribe, Forward
<1>3. CASE (\E t \in Tenants : Receive(t)) \/ WindowCloses \/ Dispatch \/ Abandon \/ DispatchEnds
  BY <1>3 DEF Receive, WindowCloses, Dispatch, StartReload, SkipReload, ReloadsDone, Abandon,
     DispatchEnds
<1>4. ASSUME NEW g \in Calls, Reload(g) \/ ReloadFails(g) \/ Unwind(g) \/ RunLate(g)
      PROVE  UNCHANGED ctxDone
  BY <1>4 DEF Reload, ReadCollection, StoreReload, ReloadFails, Unwind, RunLate
<1>5. ASSUME NEW l \in Lookers, LookupStore(l) \/ \E t \in Tenants : LookupMiss(l, t)
      PROVE  UNCHANGED ctxDone
  BY <1>5 DEF LookupStore, LookupMiss
<1>6. CASE UNCHANGED vars
  BY <1>6 DEF vars
<1>7. ASSUME NEW c \in Colls, NEW t \in Tenants, CommitSilently(c, t)
      PROVE  UNCHANGED ctxDone
  BY <1>7 DEF CommitSilently
<1>. QED
  BY <1>1, <1>2, <1>3, <1>4, <1>5, <1>6, <1>7 DEF Next

(* One step of any goroutine forgets nothing.                              *)
LEMMA ForgetStep ==
  ASSUME TypeOK, SyncerInv, [Next]_vars
  PROVE  NothingForgotten' /\ SnapshotCovered'
<1> USE DEF SyncerInv, storeVars, busVars, fwdVars, loopVars, counters
<1>1. CASE ctxDone'
  BY <1>1 DEF NothingForgotten, SnapshotCovered
<1>2. CASE ~ctxDone'
  <2>1. ~ctxDone /\ ~Shutdown
    BY <1>2, ContextStep DEF Shutdown
  <2>2. \A c \in Colls : ~ForwarderEnds(c) /\ ~Unsubscribe(c)
    BY <2>1 DEF ForwarderEnds, Unsubscribe, OpenUntilShutdown
  <2>3. \A t \in Tenants : ~SkipReload(t)
    BY <2>1 DEF SkipReload
  <2>4. ASSUME UNCHANGED <<stored, cache, publishing, queue, held, merged, pending, todo, current,
                           call, ctxDone, missed>>
        PROVE  NothingForgotten' /\ SnapshotCovered'
    BY <2>4 DEF NothingForgotten, SnapshotCovered, Covered, BeingLoaded, InFlight
  <2>5. CASE \/ \E c \in Colls : Subscribe(c)
             \/ ReloadsDone \/ DispatchEnds
             \/ \E l \in Lookers, t \in Tenants : LookupMiss(l, t)
             \/ UNCHANGED vars
    BY <2>4, <2>5 DEF Subscribe, ReloadsDone, DispatchEnds, LookupMiss, vars
  <2>. QED
    BY <2>1, <2>2, <2>3, <2>5, BusCovers, ChannelsCover, ReloadsCover, OthersCover
       DEF Next, Publish, Reload, Dispatch
<1>. QED
  BY <1>1, <1>2

(* No change is forgotten, whatever the interleaving of writers, bus,      *)
(* forwarders, window and reloads.                                         *)
THEOREM NothingIsForgotten == Spec => []NothingForgotten
<1>1. ASSUME Init PROVE SyncerInv
  BY <1>1 DEF Init, SyncerInv, OpenUntilShutdown, WindowDone, WaitsForRunning, SnapshotCovered,
     NothingForgotten
<1>2. ASSUME TypeOK, SyncerInv, [Next]_vars PROVE SyncerInv'
  BY <1>2, LoopStep, ForgetStep DEF SyncerInv
<1>3. SyncerInv => NothingForgotten
  BY DEF SyncerInv
<1>. QED
  BY <1>1, <1>2, <1>3, TypeCorrect, PTL DEF Spec
=============================================================================

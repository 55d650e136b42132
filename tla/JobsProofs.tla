----------------------------- MODULE JobsProofs -----------------------------
(***************************************************************************)
(* What the background jobs and caches of a server promise, proved for any *)
(* number of servers, readers, writers, watchers, tenants and heartbeats.  *)
(***************************************************************************)
EXTENDS MCJobs, SequenceTheorems, WellFoundedInduction, TLAPS

--------------------------------------------------------------------------
(* The cache of the runtime settings                                       *)

ReaderState ==
  [phase : {"rest", "fast", "slow", "read", "store", "done", "baseline"}, tenant : Customers \cup {NoTenant},
   floor : Nat, since : Nat, got : Nat]
SaverState ==
  [phase : {"rest", "hook"}, server : Servers \cup {NoTenant}, tenant : Customers \cup {NoTenant},
   done : [Servers -> [Customers -> Nat]]]

CacheTyped ==
  /\ stored \in [Customers -> Nat] /\ left \in [Customers -> Seq(Nat)] /\ clock \in Nat
  /\ lock \in [Servers -> Readers \cup {Free}]
  /\ readers \in [Readers -> ReaderState] /\ saver \in SaverState
  /\ partitions = [s \in Servers |-> partitions[s]]
  /\ \A s \in Servers : DOMAIN partitions[s] \subseteq Customers
  /\ \A c \in Customers : Len(left[c]) = stored[c]
  /\ \A r \in Readers : readers[r].phase \notin {"rest", "baseline"} => readers[r].tenant \in Customers
  /\ saver.phase = "hook" => saver.server \in Servers /\ saver.tenant \in Customers

\* The versions of a tenant's rows above v were written at t or later.
Since(c, v, t) == \A w \in 1..stored[c] : w > v => left[c][w] >= t

\* A partition was read from the database at expiresAt - TTL and is as new as
\* the last edit that returned on its server.
PartitionFresh(s, c) ==
  LET e == partitions[s][c] IN
  /\ e.version \in Nat /\ e.expiresAt \in Nat /\ e.version >= saver.done[s][c]
  /\ e.expiresAt - TTL <= clock /\ Since(c, e.version, e.expiresAt - TTL)

\* What a load has seen and what it may still miss; one that queries the
\* database holds its server's lock.
LoadFresh(r) ==
  LET p == readers[r] IN
  /\ p.phase \notin {"rest", "baseline"} => p.floor <= saver.done[r[2]][p.tenant] /\ p.since <= clock
  /\ p.phase \in {"read", "store"} => lock[r[2]] = r
  /\ p.phase = "store" => p.got >= saver.done[r[2]][p.tenant] /\ Since(p.tenant, p.got, clock)
  /\ p.phase = "done" => p.got >= p.floor /\ Since(p.tenant, p.got, p.since - TTL + 1)

CacheInv ==
  /\ CacheTyped
  /\ \A s \in Servers, c \in Customers : saver.done[s][c] <= stored[c]
  /\ \A s \in Servers : \A c \in DOMAIN partitions[s] : PartitionFresh(s, c)
  /\ \A r \in Readers : LoadFresh(r)

(* A reader runs on a server, and is not the mark of a free lock.          *)
LEMMA ReaderServer == \A r \in Readers : r[2] \in Servers /\ r # Free
<1> SUFFICES ASSUME NEW r \in Readers PROVE r[2] \in Servers /\ r # Free
  OBVIOUS
<1>1. r \in Nat \X Servers
  BY SettingsAssumption
<1>2. PICK n \in Nat, s \in Servers : r = <<n, s>>
  BY <1>1
<1>. QED
  BY <1>2 DEF Free

(* The cache starts empty.                                                 *)
LEMMA CacheStarts == InitCache => CacheInv
<1> SUFFICES ASSUME InitCache PROVE CacheInv
  OBVIOUS
<1>1. Resting \in ReaderState /\ NoSave \in SaverState
  BY DEF Resting, ReaderState, NoSave, SaverState
<1>2. <<>> \in Seq(Nat) /\ Len(<<>>) = 0 /\ DOMAIN <<>> = {}
  OBVIOUS
<1>3. CacheTyped
  BY <1>1, <1>2 DEF InitCache, CacheTyped, Free, Resting, NoSave
<1>4. \A s \in Servers, c \in Customers : saver.done[s][c] <= stored[c]
  BY DEF InitCache, NoSave
<1>5. \A r \in Readers : LoadFresh(r)
  BY DEF InitCache, LoadFresh, Resting
<1>. QED
  BY <1>2, <1>3, <1>4, <1>5 DEF InitCache, CacheInv

(* A step of one load that leaves the database, the partitions and the     *)
(* saver alone.                                                            *)
LEMMA LoadMoves ==
  ASSUME CacheInv, NEW r \in Readers, NEW q \in ReaderState,
         readers' = [readers EXCEPT ![r] = q], q.phase \notin {"rest", "baseline"} => q.tenant \in Customers,
         UNCHANGED <<stored, left, partitions, saver, clock>>,
         lock' \in [Servers -> Readers \cup {Free}],
         \A x \in Readers \ {r} : lock[x[2]] = x => lock'[x[2]] = x,
         LoadFresh(r)'
  PROVE  CacheInv'
<1>1. CacheTyped'
  BY DEF CacheInv, CacheTyped
<1>2. \A s \in Servers, c \in Customers : (saver.done[s][c] <= stored[c])'
  BY DEF CacheInv
<1>3. \A s \in Servers : \A c \in DOMAIN partitions'[s] : PartitionFresh(s, c)'
  BY DEF CacheInv, PartitionFresh, Since
<1>4. ASSUME NEW x \in Readers \ {r} PROVE LoadFresh(x)'
  <2>1. LoadFresh(x) /\ readers'[x] = readers[x]
    BY DEF CacheInv, CacheTyped
  <2>. QED
    BY <2>1 DEF LoadFresh, Since
<1>. QED
  BY <1>1, <1>2, <1>3, <1>4 DEF CacheInv

(* A load begins, finds its partition or not, takes the lock, queries.     *)
LEMMA BeginStep ==
  ASSUME CacheInv, NEW r \in Readers, NEW c \in Customers, BeginLoad(r, c)
  PROVE  CacheInv'
<1>1. r[2] \in Servers /\ CacheTyped
  BY ReaderServer DEF CacheInv
<1>2. PICK n : n = saver.done[r[2]][c]
  OBVIOUS
<1>3. n \in Nat /\ clock \in Nat
  BY <1>1, <1>2 DEF CacheTyped, SaverState
<1>4. PICK q : q = [phase |-> "fast", tenant |-> c, floor |-> n, since |-> clock, got |-> 0]
  OBVIOUS
<1>5. q \in ReaderState /\ readers' = [readers EXCEPT ![r] = q]
  BY <1>2, <1>3, <1>4 DEF ReaderState, BeginLoad
<1>6. readers'[r] = q /\ UNCHANGED <<stored, left, partitions, lock, saver, clock>>
  BY <1>1, <1>5 DEF CacheTyped, BeginLoad
<1>7. LoadFresh(r)'
  BY <1>2, <1>3, <1>4, <1>6 DEF LoadFresh
<1>8. lock' \in [Servers -> Readers \cup {Free}] /\ q.tenant \in Customers
  BY <1>1, <1>4, <1>6 DEF CacheTyped
<1>. QED
  BY <1>5, <1>6, <1>7, <1>8, LoadMoves

(* A read without a tenant returns the baseline.                           *)
LEMMA BaselineStep ==
  ASSUME CacheInv, NEW r \in Readers, LoadNoTenant(r)
  PROVE  CacheInv'
<1>1. CacheTyped
  BY DEF CacheInv
<1>2. PICK q : q = [Resting EXCEPT !.phase = "baseline"]
  OBVIOUS
<1>3. q \in ReaderState /\ q.phase = "baseline"
  BY <1>2 DEF ReaderState, Resting
<1>4. readers' = [readers EXCEPT ![r] = q] /\ UNCHANGED <<stored, left, partitions, lock, saver, clock>>
  BY <1>2 DEF LoadNoTenant
<1>5. readers'[r] = q /\ lock' \in [Servers -> Readers \cup {Free}]
  BY <1>1, <1>4 DEF CacheTyped
<1>6. LoadFresh(r)'
  BY <1>3, <1>5 DEF LoadFresh
<1>. QED
  BY <1>3, <1>4, <1>5, <1>6, LoadMoves

(* A partition that has not expired is as fresh as the load asks for.      *)
LEMMA HitIsFresh ==
  ASSUME CacheInv, NEW r \in Readers, readers[r].phase \notin {"rest", "baseline"}, Hit(r[2], readers[r].tenant)
  PROVE  LET e == partitions[r[2]][readers[r].tenant] IN
         /\ e.version \in Nat /\ e.version >= readers[r].floor
         /\ Since(readers[r].tenant, e.version, readers[r].since - TTL + 1)
<1>1. r[2] \in Servers /\ CacheTyped /\ LoadFresh(r)
  BY ReaderServer DEF CacheInv
<1>2. PICK s, c : s = r[2] /\ c = readers[r].tenant
  OBVIOUS
<1>3. c \in DOMAIN partitions[s] /\ clock < partitions[s][c].expiresAt /\ c \in Customers /\ s \in Servers
  BY <1>1, <1>2 DEF Hit, CacheTyped
<1>4. PartitionFresh(s, c)
  BY <1>3 DEF CacheInv
<1>5. PICK e : e = partitions[s][c]
  OBVIOUS
<1>6. /\ e.version \in Nat /\ e.expiresAt \in Nat /\ e.version >= saver.done[s][c]
      /\ Since(c, e.version, e.expiresAt - TTL) /\ clock < e.expiresAt
  BY <1>3, <1>4, <1>5 DEF PartitionFresh
<1>7. readers[r].floor \in Nat /\ readers[r].since \in Nat /\ saver.done[s][c] \in Nat /\ clock \in Nat
  BY <1>1, <1>3 DEF CacheTyped, ReaderState, SaverState
<1>8. readers[r].floor <= saver.done[s][c] /\ readers[r].since <= clock
  BY <1>1, <1>2 DEF LoadFresh
<1>9. ASSUME NEW w \in 1..stored[c], w > e.version PROVE left[c][w] >= readers[r].since - TTL + 1
  <2>1. left[c][w] \in Nat
    BY <1>1, <1>3, LenProperties DEF CacheTyped
  <2>. QED
    BY <1>6, <1>7, <1>8, <1>9, <2>1, SettingsAssumption DEF Since
<1>. QED
  BY <1>2, <1>5, <1>6, <1>7, <1>8, <1>9 DEF Since

(* A load returns what it found in the cache.                              *)
LEMMA ReturnStep ==
  ASSUME CacheInv, NEW r \in Readers, readers[r].phase \in {"fast", "slow"},
         Hit(r[2], readers[r].tenant),
         readers' = Return(r, partitions[r[2]][readers[r].tenant].version),
         UNCHANGED <<stored, left, partitions, lock, saver, clock>>
  PROVE  CacheInv'
<1>1. CacheTyped /\ LoadFresh(r)
  BY DEF CacheInv
<1>2. PICK v : v = partitions[r[2]][readers[r].tenant].version
  OBVIOUS
<1>3. /\ v \in Nat /\ v >= readers[r].floor
      /\ Since(readers[r].tenant, v, readers[r].since - TTL + 1)
  BY <1>2, HitIsFresh
<1>4. PICK q : q = [readers[r] EXCEPT !.phase = "done", !.got = v]
  OBVIOUS
<1>5. readers[r] \in ReaderState /\ readers[r].tenant \in Customers
  BY <1>1 DEF CacheTyped
<1>6. /\ q \in ReaderState /\ readers' = [readers EXCEPT ![r] = q] /\ q.phase = "done" /\ q.got = v
      /\ q.tenant = readers[r].tenant /\ q.floor = readers[r].floor /\ q.since = readers[r].since
  BY <1>1, <1>2, <1>3, <1>4, <1>5 DEF ReaderState, Return, CacheTyped
<1>7. readers'[r] = q
  BY <1>1, <1>6 DEF CacheTyped
<1>8. LoadFresh(r)'
  BY <1>1, <1>3, <1>6, <1>7 DEF LoadFresh, Since
<1>9. lock' \in [Servers -> Readers \cup {Free}] /\ q.tenant \in Customers
  BY <1>1, <1>5, <1>6 DEF CacheTyped
<1>. QED
  BY <1>6, <1>8, <1>9, LoadMoves

(* A load goes on to its next phase without having read anything.          *)
LEMMA PhaseStep ==
  ASSUME CacheInv, NEW r \in Readers, NEW ph \in {"slow", "read"}, readers[r].phase \in {"fast", "slow"},
         readers' = [readers EXCEPT ![r].phase = ph],
         UNCHANGED <<stored, left, partitions, saver, clock>>,
         lock[r[2]] = Free,
         lock' = IF ph = "read" THEN [lock EXCEPT ![r[2]] = r] ELSE lock
  PROVE  CacheInv'
<1>1. CacheTyped /\ LoadFresh(r) /\ r[2] \in Servers
  BY ReaderServer DEF CacheInv
<1>2. readers[r] \in ReaderState /\ readers[r].tenant \in Customers
  BY <1>1 DEF CacheTyped
<1>3. PICK q : q = [readers[r] EXCEPT !.phase = ph]
  OBVIOUS
<1>4. /\ q \in ReaderState /\ readers' = [readers EXCEPT ![r] = q] /\ q.phase = ph
      /\ q.tenant = readers[r].tenant /\ q.floor = readers[r].floor /\ q.since = readers[r].since
  BY <1>1, <1>2, <1>3 DEF ReaderState, CacheTyped
<1>5. readers'[r] = q
  BY <1>1, <1>4 DEF CacheTyped
<1>6. lock' \in [Servers -> Readers \cup {Free}] /\ (ph = "read" => lock'[r[2]] = r)
  BY <1>1 DEF CacheTyped
<1>7. \A x \in Readers \ {r} : lock[x[2]] = x => lock'[x[2]] = x
  BY <1>1, ReaderServer DEF CacheTyped
<1>8. LoadFresh(r)'
  BY <1>1, <1>4, <1>5, <1>6 DEF LoadFresh
<1>. QED
  BY <1>2, <1>4, <1>6, <1>7, <1>8, LoadMoves

(* A load ends, with an answer or because its query failed.                *)
LEMMA RestStep ==
  ASSUME CacheInv, NEW r \in Readers, readers' = [readers EXCEPT ![r] = Resting],
         UNCHANGED <<stored, left, partitions, saver, clock>>,
         lock' = lock \/ (lock' = [lock EXCEPT ![r[2]] = Free] /\ readers[r].phase = "read")
  PROVE  CacheInv'
<1>1. CacheTyped /\ LoadFresh(r) /\ r[2] \in Servers
  BY ReaderServer DEF CacheInv
<1>2. Resting \in ReaderState /\ Resting.phase = "rest"
  BY DEF Resting, ReaderState
<1>3. readers'[r] = Resting
  BY <1>1 DEF CacheTyped
<1>4. lock' \in [Servers -> Readers \cup {Free}]
  BY <1>1 DEF CacheTyped
<1>5. \A x \in Readers \ {r} : lock[x[2]] = x => lock'[x[2]] = x
  BY <1>1, ReaderServer DEF CacheTyped, LoadFresh
<1>6. LoadFresh(r)'
  BY <1>2, <1>3 DEF LoadFresh
<1>. QED
  BY <1>2, <1>4, <1>5, <1>6, LoadMoves

(* The query of a load: what it reads is what the database holds now.      *)
LEMMA QueryStep ==
  ASSUME CacheInv, NEW r \in Readers, readers[r].phase = "read",
         readers' = [readers EXCEPT ![r].phase = "store", ![r].got = stored[readers[r].tenant]],
         UNCHANGED <<stored, left, partitions, saver, clock, lock>>
  PROVE  CacheInv'
<1>1. CacheTyped /\ LoadFresh(r) /\ r[2] \in Servers
  BY ReaderServer DEF CacheInv
<1>2. PICK c : c = readers[r].tenant
  OBVIOUS
<1>3. readers[r] \in ReaderState /\ c \in Customers /\ stored[c] \in Nat
  BY <1>1, <1>2 DEF CacheTyped
<1>4. PICK q : q = [readers[r] EXCEPT !.phase = "store", !.got = stored[c]]
  OBVIOUS
<1>5. /\ q \in ReaderState /\ readers' = [readers EXCEPT ![r] = q] /\ q.phase = "store" /\ q.got = stored[c]
      /\ q.tenant = c /\ q.floor = readers[r].floor /\ q.since = readers[r].since
  BY <1>1, <1>2, <1>3, <1>4 DEF ReaderState, CacheTyped
<1>6. readers'[r] = q
  BY <1>1, <1>5 DEF CacheTyped
<1>7. q.got >= saver.done[r[2]][c]
  BY <1>1, <1>3, <1>5 DEF CacheInv, CacheTyped, SaverState
<1>8. Since(c, stored[c], clock)
  BY <1>3 DEF Since
<1>9. LoadFresh(r)'
  BY <1>1, <1>2, <1>5, <1>6, <1>7, <1>8 DEF LoadFresh, Since
<1>10. lock' \in [Servers -> Readers \cup {Free}]
  BY <1>1 DEF CacheTyped
<1>. QED
  BY <1>3, <1>5, <1>9, <1>10, LoadMoves

(* The answer of the query becomes the partition.  The lock has kept every *)
(* invalidation of this server out since the query.                        *)
LEMMA StoreStep ==
  ASSUME CacheInv, NEW r \in Readers, LoadStore(r)
  PROVE  CacheInv'
<1>1. CacheTyped /\ LoadFresh(r) /\ r[2] \in Servers /\ readers[r].phase = "store"
  BY ReaderServer DEF CacheInv, LoadStore
<1>2. PICK s, c, v : s = r[2] /\ c = readers[r].tenant /\ v = readers[r].got
  OBVIOUS
<1>3. PICK e : e = [version |-> v, expiresAt |-> clock + TTL]
  OBVIOUS
<1>4. readers[r] \in ReaderState /\ c \in Customers /\ s \in Servers /\ v \in Nat /\ clock \in Nat
  BY <1>1, <1>2 DEF CacheTyped, ReaderState
<1>5. /\ partitions' = [partitions EXCEPT ![s] = [d \in DOMAIN partitions[s] \cup {c} |-> IF d = c THEN e ELSE partitions[s][d]]]
      /\ lock' = [lock EXCEPT ![s] = Free]
      /\ readers' = [readers EXCEPT ![r] = [readers[r] EXCEPT !.phase = "done", !.got = v]]
      /\ UNCHANGED <<stored, left, saver, clock>>
  BY <1>1, <1>2, <1>3 DEF LoadStore, Return
<1>6. /\ lock[s] = r /\ v >= saver.done[s][c] /\ Since(c, v, clock)
      /\ readers[r].floor <= saver.done[s][c] /\ readers[r].since <= clock
  BY <1>1, <1>2 DEF LoadFresh
<1>7. /\ partitions'[s] = [d \in DOMAIN partitions[s] \cup {c} |-> IF d = c THEN e ELSE partitions[s][d]]
      /\ \A x \in Servers \ {s} : partitions'[x] = partitions[x]
      /\ partitions' = [x \in Servers |-> partitions'[x]]
  BY <1>1, <1>4, <1>5 DEF CacheTyped
<1>8. /\ DOMAIN partitions'[s] = DOMAIN partitions[s] \cup {c} /\ partitions'[s][c] = e
      /\ \A d \in DOMAIN partitions[s] \ {c} : partitions'[s][d] = partitions[s][d]
  BY <1>7
<1>9. PICK q : q = [readers[r] EXCEPT !.phase = "done", !.got = v]
  OBVIOUS
<1>10. /\ q \in ReaderState /\ readers' = [readers EXCEPT ![r] = q] /\ q.phase = "done" /\ q.got = v
       /\ q.tenant = c /\ q.floor = readers[r].floor /\ q.since = readers[r].since
  BY <1>2, <1>4, <1>5, <1>9 DEF ReaderState
<1>11. readers'[r] = q /\ \A x \in Readers \ {r} : readers'[x] = readers[x]
  BY <1>1, <1>10 DEF CacheTyped
<1>12. CacheTyped'
  <2>1. lock' \in [Servers -> Readers \cup {Free}] /\ readers' \in [Readers -> ReaderState]
    BY <1>1, <1>5, <1>10 DEF CacheTyped
  <2>2. \A x \in Servers : DOMAIN partitions'[x] \subseteq Customers
    BY <1>1, <1>4, <1>7, <1>8 DEF CacheTyped
  <2>3. \A x \in Readers : readers'[x].phase \notin {"rest", "baseline"} => readers'[x].tenant \in Customers
    BY <1>1, <1>4, <1>10, <1>11 DEF CacheTyped
  <2>. QED
    BY <1>1, <1>5, <1>7, <2>1, <2>2, <2>3 DEF CacheTyped
<1>13. \A x \in Servers, d \in Customers : (saver.done[x][d] <= stored[d])'
  BY <1>5 DEF CacheInv
<1>14. ASSUME NEW x \in Servers, NEW d \in DOMAIN partitions'[x] PROVE PartitionFresh(x, d)'
  <2>1. CASE x = s /\ d = c
    <3>1. e.version = v /\ e.expiresAt = clock + TTL /\ e.expiresAt \in Nat /\ e.expiresAt - TTL = clock
      BY <1>3, <1>4, SettingsAssumption
    <3>2. Since(c, v, clock)'
      BY <1>5, <1>6 DEF Since
    <3>. QED
      BY <1>4, <1>5, <1>6, <1>8, <2>1, <3>1, <3>2 DEF PartitionFresh, Since
  <2>2. CASE ~(x = s /\ d = c)
    <3>1. d \in DOMAIN partitions[x] /\ partitions'[x][d] = partitions[x][d]
      BY <1>7, <1>8, <2>2
    <3>2. PartitionFresh(x, d)
      BY <3>1 DEF CacheInv
    <3>. QED
      BY <1>5, <3>1, <3>2 DEF PartitionFresh, Since
  <2>. QED
    BY <2>1, <2>2
<1>15. ASSUME NEW x \in Readers PROVE LoadFresh(x)'
  <2>1. CASE x = r
    <3>1. q.got >= q.floor
      BY <1>4, <1>6, <1>10, <1>1 DEF ReaderState, CacheTyped, SaverState
    <3>2. Since(c, v, q.since - TTL + 1)
      <4>1. q.since \in Nat /\ q.since <= clock
        BY <1>6, <1>10 DEF ReaderState
      <4>2. \A w \in 1..stored[c] : left[c][w] \in Nat
        BY <1>1, <1>4, LenProperties DEF CacheTyped
      <4>. QED
        BY <1>4, <1>6, <4>1, <4>2, SettingsAssumption DEF Since
    <3>. QED
      BY <1>5, <1>6, <1>10, <1>11, <1>2, <2>1, <3>1, <3>2 DEF LoadFresh, Since
  <2>2. CASE x # r
    <3>1. LoadFresh(x) /\ readers'[x] = readers[x]
      BY <1>11, <2>2 DEF CacheInv
    <3>2. x[2] \in Servers /\ (lock[x[2]] = x => lock'[x[2]] = x)
      BY <1>1, <1>5, <1>6, <2>2, ReaderServer DEF CacheTyped
    <3>. QED
      BY <1>5, <3>1, <3>2 DEF LoadFresh, Since
  <2>. QED
    BY <2>1, <2>2
<1>. QED
  BY <1>12, <1>13, <1>14, <1>15 DEF CacheInv

(* An edit: a new version, written now.                                    *)
LEMMA SaveStep ==
  ASSUME CacheInv, NEW t \in Servers, NEW c \in Customers, SaveRow(t, c)
  PROVE  CacheInv'
<1>1. CacheTyped
  BY DEF CacheInv
<1>2. /\ stored' = [stored EXCEPT ![c] = stored[c] + 1] /\ left' = [left EXCEPT ![c] = Append(left[c], clock)]
      /\ saver' = [saver EXCEPT !.phase = "hook", !.server = t, !.tenant = c]
      /\ UNCHANGED <<partitions, lock, readers, clock>>
  BY <1>1 DEF SaveRow, CacheTyped
<1>3. stored[c] \in Nat /\ left[c] \in Seq(Nat) /\ Len(left[c]) = stored[c] /\ clock \in Nat
  BY <1>1 DEF CacheTyped
<1>4. /\ Append(left[c], clock) \in Seq(Nat) /\ Len(Append(left[c], clock)) = stored[c] + 1
      /\ Append(left[c], clock)[stored[c] + 1] = clock
      /\ \A w \in 1..stored[c] : Append(left[c], clock)[w] = left[c][w]
  BY <1>3, AppendProperties
<1>5. saver' \in SaverState /\ saver'.done = saver.done /\ saver'.server = t /\ saver'.tenant = c
  BY <1>1, <1>2 DEF CacheTyped, SaverState
<1>6. CacheTyped'
  <2>1. stored' \in [Customers -> Nat] /\ left' \in [Customers -> Seq(Nat)]
    BY <1>1, <1>2, <1>3, <1>4 DEF CacheTyped
  <2>2. \A d \in Customers : Len(left'[d]) = stored'[d]
    BY <1>1, <1>2, <1>4 DEF CacheTyped
  <2>. QED
    BY <1>1, <1>2, <1>5, <2>1, <2>2 DEF CacheTyped
<1>7. ASSUME NEW d \in Customers, NEW v \in Nat, NEW i \in Int, i <= clock, Since(d, v, i)
      PROVE  Since(d, v, i)'
  <2>1. CASE d = c
    <3>1. stored'[c] = stored[c] + 1 /\ left'[c] = Append(left[c], clock)
      BY <1>1, <1>2 DEF CacheTyped
    <3>2. ASSUME NEW w \in 1..(stored[c] + 1), w > v PROVE Append(left[c], clock)[w] >= i
      <4>1. CASE w = stored[c] + 1
        BY <1>3, <1>4, <1>7, <4>1
      <4>2. CASE w # stored[c] + 1
        <5>1. w \in 1..stored[c]
          BY <1>3, <4>2
        <5>. QED
          BY <1>4, <1>7, <2>1, <3>2, <5>1 DEF Since
      <4>. QED
        BY <4>1, <4>2
    <3>. QED
      BY <2>1, <3>1, <3>2 DEF Since
  <2>2. CASE d # c
    BY <1>1, <1>2, <1>7, <2>2 DEF Since, CacheTyped
  <2>. QED
    BY <2>1, <2>2
<1>8. ASSUME NEW x \in Servers, NEW d \in Customers PROVE (saver.done[x][d] <= stored[d])'
  <2>1. saver.done[x][d] \in Nat /\ stored[d] \in Nat /\ saver.done[x][d] <= stored[d]
    BY <1>1 DEF CacheInv, CacheTyped, SaverState
  <2>2. stored'[d] \in {stored[d], stored[d] + 1}
    BY <1>1, <1>2 DEF CacheTyped
  <2>. QED
    BY <1>5, <2>1, <2>2
<1>9. ASSUME NEW x \in Servers, NEW d \in DOMAIN partitions'[x] PROVE PartitionFresh(x, d)'
  <2>1. d \in DOMAIN partitions[x] /\ d \in Customers /\ PartitionFresh(x, d)
    BY <1>1, <1>2 DEF CacheInv, CacheTyped
  <2>2. PICK e : e = partitions[x][d]
    OBVIOUS
  <2>3. e.version \in Nat /\ e.expiresAt - TTL \in Int /\ e.expiresAt - TTL <= clock /\ Since(d, e.version, e.expiresAt - TTL)
    BY <2>1, <2>2, SettingsAssumption DEF PartitionFresh
  <2>4. \A w \in 1..stored'[d] : w > e.version => left'[d][w] >= e.expiresAt - TTL
    BY <1>7, <2>1, <2>3 DEF Since
  <2>. QED
    BY <1>2, <1>5, <2>1, <2>2, <2>4 DEF PartitionFresh, Since
<1>10. ASSUME NEW x \in Readers PROVE LoadFresh(x)'
  <2>1. PICK p : p = readers[x]
    OBVIOUS
  <2>2. /\ p \in ReaderState /\ readers'[x] = p /\ LoadFresh(x)
        /\ p.phase \notin {"rest", "baseline"} => p.tenant \in Customers
    BY <1>1, <1>2, <2>1 DEF CacheInv, CacheTyped
  <2>3. p.phase = "store" => Since(p.tenant, p.got, clock)'
    <3>1. CASE p.phase = "store"
      <4>1. p.got \in Nat /\ clock \in Int /\ clock <= clock /\ Since(p.tenant, p.got, clock)
        BY <1>3, <2>1, <2>2, <3>1 DEF LoadFresh, ReaderState
      <4>2. \A w \in 1..stored'[p.tenant] : w > p.got => left'[p.tenant][w] >= clock
        BY <1>7, <2>2, <3>1, <4>1 DEF Since
      <4>. QED
        BY <1>2, <4>2, <2>1, <2>2 DEF Since
    <3>. QED
      BY <3>1
  <2>4. p.phase = "done" => Since(p.tenant, p.got, p.since - TTL + 1)'
    <3>1. CASE p.phase = "done"
      <4>1. p.since \in Nat /\ p.got \in Nat /\ p.since <= clock /\ Since(p.tenant, p.got, p.since - TTL + 1)
        BY <2>1, <2>2, <3>1 DEF LoadFresh, ReaderState
      <4>2. p.since - TTL + 1 \in Int /\ p.since - TTL + 1 <= clock
        BY <1>3, <4>1, SettingsAssumption
      <4>3. \A w \in 1..stored'[p.tenant] : w > p.got => left'[p.tenant][w] >= p.since - TTL + 1
        BY <1>7, <2>2, <3>1, <4>1, <4>2 DEF Since
      <4>. QED
        BY <4>3, <2>1, <2>2 DEF Since
    <3>. QED
      BY <3>1
  <2>. QED
    BY <1>2, <1>5, <2>1, <2>2, <2>3, <2>4 DEF LoadFresh, Since
<1>. QED
  BY <1>6, <1>8, <1>9, <1>10 DEF CacheInv

(* The hook of an edit drops the partitions of its server; no load of that *)
(* server is between its query and its store.                              *)
LEMMA InvalidateStep ==
  ASSUME CacheInv, invalidateRuntime
  PROVE  CacheInv'
<1>1. CacheTyped
  BY DEF CacheInv
<1>2. PICK s, c : s = saver.server /\ c = saver.tenant
  OBVIOUS
<1>3. s \in Servers /\ c \in Customers /\ lock[s] = Free
  BY <1>1, <1>2 DEF invalidateRuntime, CacheTyped
<1>4. /\ partitions' = [partitions EXCEPT ![s] = <<>>]
      /\ saver' = [saver EXCEPT !.phase = "rest", !.done[s][c] = stored[c]]
      /\ UNCHANGED <<stored, left, lock, readers, clock>>
  BY <1>2 DEF invalidateRuntime
<1>5. /\ saver' \in SaverState /\ saver'.phase = "rest"
      /\ \A x \in Servers, d \in Customers :
            saver'.done[x][d] = IF x = s /\ d = c THEN stored[c] ELSE saver.done[x][d]
  <2>1. saver \in SaverState /\ stored[c] \in Nat
    BY <1>1, <1>3 DEF CacheTyped
  <2>2. PICK f : f = [saver.done EXCEPT ![s] = [saver.done[s] EXCEPT ![c] = stored[c]]]
    OBVIOUS
  <2>3. saver' = [saver EXCEPT !.phase = "rest", !.done = f]
    BY <1>3, <1>4, <2>1, <2>2 DEF SaverState
  <2>4. f \in [Servers -> [Customers -> Nat]]
    BY <1>3, <2>1, <2>2 DEF SaverState
  <2>5. \A x \in Servers, d \in Customers : f[x][d] = IF x = s /\ d = c THEN stored[c] ELSE saver.done[x][d]
    BY <1>3, <2>1, <2>2 DEF SaverState
  <2>. QED
    BY <2>1, <2>3, <2>4, <2>5 DEF SaverState
<1>6. \A x \in Servers, d \in Customers :
         /\ saver.done[x][d] \in Nat /\ stored[d] \in Nat /\ saver.done[x][d] <= stored[d]
         /\ saver'.done[x][d] \in Nat /\ saver.done[x][d] <= saver'.done[x][d]
  <2>1. \A x \in Servers, d \in Customers :
           saver.done[x][d] \in Nat /\ stored[d] \in Nat /\ saver.done[x][d] <= stored[d]
    BY <1>1 DEF CacheInv, CacheTyped, SaverState
  <2>. QED
    BY <1>3, <1>5, <2>1
<1>7. /\ partitions' = [x \in Servers |-> partitions'[x]] /\ DOMAIN partitions'[s] = {}
      /\ \A x \in Servers \ {s} : partitions'[x] = partitions[x]
  <2>1. DOMAIN <<>> = {}
    OBVIOUS
  <2>. QED
    BY <1>1, <1>3, <1>4, <2>1 DEF CacheTyped
<1>8. CacheTyped'
  BY <1>1, <1>4, <1>5, <1>7 DEF CacheTyped
<1>9. \A x \in Servers, d \in Customers : (saver.done[x][d] <= stored[d])'
  BY <1>4, <1>5, <1>6
<1>10. ASSUME NEW x \in Servers, NEW d \in DOMAIN partitions'[x] PROVE PartitionFresh(x, d)'
  <2>1. x # s /\ d \in DOMAIN partitions[x] /\ partitions'[x] = partitions[x] /\ d \in Customers
    BY <1>1, <1>7 DEF CacheTyped
  <2>2. PartitionFresh(x, d) /\ saver'.done[x][d] = saver.done[x][d]
    BY <1>5, <2>1 DEF CacheInv
  <2>. QED
    BY <1>4, <2>1, <2>2 DEF PartitionFresh, Since
<1>11. ASSUME NEW x \in Readers PROVE LoadFresh(x)'
  <2>1. LoadFresh(x) /\ readers'[x] = readers[x] /\ x[2] \in Servers /\ x # Free
    BY <1>4, ReaderServer DEF CacheInv
  <2>2. readers[x].phase \notin {"rest", "baseline"} => readers[x].tenant \in Customers /\ readers[x].floor \in Nat
    BY <1>1 DEF CacheTyped, ReaderState
  <2>3. readers[x].phase \notin {"rest", "baseline"} => readers[x].floor <= saver'.done[x[2]][readers[x].tenant]
    BY <1>6, <2>1, <2>2 DEF LoadFresh
  <2>4. readers[x].phase = "store" => x[2] # s
    BY <1>3, <2>1 DEF LoadFresh
  <2>5. readers[x].phase = "store" => saver'.done[x[2]][readers[x].tenant] = saver.done[x[2]][readers[x].tenant]
    BY <1>5, <2>1, <2>2, <2>4
  <2>. QED
    BY <1>4, <2>1, <2>3, <2>5 DEF LoadFresh, Since
<1>. QED
  BY <1>8, <1>9, <1>10, <1>11 DEF CacheInv

(* Time passes while nobody is between a query and its store.              *)
LEMMA TickStep ==
  ASSUME CacheInv, CacheTick
  PROVE  CacheInv'
<1>1. CacheTyped /\ clock \in Nat /\ clock' = clock + 1
      /\ UNCHANGED <<stored, left, partitions, lock, readers, saver>>
  BY DEF CacheInv, CacheTyped, CacheTick
<1>2. CacheTyped'
  BY <1>1 DEF CacheTyped
<1>3. \A x \in Servers, d \in Customers : (saver.done[x][d] <= stored[d])'
  BY <1>1 DEF CacheInv
<1>4. ASSUME NEW x \in Servers, NEW d \in DOMAIN partitions'[x] PROVE PartitionFresh(x, d)'
  <2>1. PartitionFresh(x, d)
    BY <1>1 DEF CacheInv
  <2>2. PICK e : e = partitions[x][d]
    OBVIOUS
  <2>3. e.expiresAt \in Nat /\ e.expiresAt - TTL <= clock'
    BY <1>1, <2>1, <2>2, SettingsAssumption DEF PartitionFresh
  <2>. QED
    BY <1>1, <2>1, <2>2, <2>3 DEF PartitionFresh, Since
<1>5. ASSUME NEW x \in Readers PROVE LoadFresh(x)'
  <2>1. LoadFresh(x) /\ readers'[x] = readers[x] /\ readers[x].phase # "store" /\ readers[x].since \in Nat
    BY <1>1 DEF CacheInv, CacheTick, CacheTyped, ReaderState
  <2>. QED
    BY <1>1, <2>1 DEF LoadFresh, Since
<1>. QED
  BY <1>2, <1>3, <1>4, <1>5 DEF CacheInv

(* Every step of readers, editors and the clock keeps the cache fresh.     *)
LEMMA CacheStep ==
  ASSUME CacheInv, [CacheNext]_cacheVars
  PROVE  CacheInv'
<1>1. ASSUME NEW r \in Readers, LoadFast(r) \/ LoadLock(r) PROVE CacheInv'
  <2>1. PICK s, c : s = r[2] /\ c = readers[r].tenant
    OBVIOUS
  <2>2. CASE Hit(s, c)
    BY <1>1, <2>1, <2>2, ReturnStep DEF LoadFast, LoadLock
  <2>3. CASE ~Hit(s, c)
    BY <1>1, <2>1, <2>3, PhaseStep DEF LoadFast, LoadLock
  <2>. QED
    BY <2>2, <2>3
<1>2. ASSUME NEW r \in Readers, LoadRead(r) PROVE CacheInv'
  BY <1>2, QueryStep, RestStep DEF LoadRead
<1>3. ASSUME NEW r \in Readers, EndLoad(r) PROVE CacheInv'
  BY <1>3, RestStep DEF EndLoad
<1>4. CASE UNCHANGED cacheVars
  BY <1>4 DEF cacheVars, CacheInv, CacheTyped, PartitionFresh, LoadFresh, Since
<1>. QED
  BY <1>1, <1>2, <1>3, <1>4, BeginStep, BaselineStep, StoreStep, SaveStep, InvalidateStep, TickStep DEF CacheNext

(* The invariant is more than what a reader is promised.                   *)
LEMMA CacheFresh == CacheInv => ReadsAreFresh
<1> SUFFICES ASSUME CacheInv, NEW r \in Readers, readers[r].phase = "done"
             PROVE  /\ readers[r].got >= readers[r].floor
                    /\ \A v \in 1..stored[readers[r].tenant] :
                          v > readers[r].got => left[readers[r].tenant][v] > readers[r].since - TTL
  BY DEF ReadsAreFresh
<1>1. LoadFresh(r) /\ CacheTyped
  BY DEF CacheInv
<1>2. PICK c : c = readers[r].tenant
  OBVIOUS
<1>3. c \in Customers /\ readers[r].since \in Nat
  BY <1>1, <1>2 DEF CacheTyped, ReaderState
<1>4. \A w \in 1..stored[c] : left[c][w] \in Nat
  BY <1>1, <1>3, LenProperties DEF CacheTyped
<1>. QED
  BY <1>1, <1>2, <1>3, <1>4, SettingsAssumption DEF LoadFresh, Since

--------------------------------------------------------------------------
(* Sections of the settings plugin and their subscribers                   *)

SetState ==
  [phase : {"rest", "write", "fanout"}, key : Keys \cup {NoTenant}, values : [Keys -> Int] \cup {<<>>},
   todo : SUBSET Watchers, alone : BOOLEAN]

SectionTyped ==
  /\ section \in [Keys -> Int] /\ sets \in [Writers -> SetState]
  /\ \A w \in Writers : sets[w].phase = "write" => sets[w].key \in Keys /\ sets[w].values \in [Keys -> Int]
  /\ subs \subseteq Watchers /\ channels \in [Watchers -> [open : BOOLEAN, queued : Int]]

\* A Set that nobody overlaps writes back what is still there.
AloneIsCurrent ==
  \A w \in Writers : sets[w].phase = "write" /\ sets[w].alone =>
      /\ sets[w].values = section
      /\ \A x \in Writers \ {w} : sets[x].phase # "write"

\* Subscribers have an open channel; who is still announced to and has left
\* since is known to have been overtaken.
LeftIsKnown ==
  /\ \A x \in subs : channels[x].open
  /\ \A w \in Writers : \A x \in sets[w].todo : x \in subs \cup overtaken

SectionInv == SectionTyped /\ AloneIsCurrent /\ LeftIsKnown /\ SetsKeepOthers /\ ClosedOnlyWhenLeft

(* Nobody sets or watches at first.                                        *)
LEMMA SectionStarts == InitSection => SectionInv
<1> SUFFICES ASSUME InitSection PROVE SectionInv
  OBVIOUS
<1>1. NotSetting \in SetState /\ NotSetting.phase = "rest" /\ NotSetting.todo = {}
  BY DEF NotSetting, SetState
<1>2. SectionTyped
  BY <1>1 DEF InitSection, SectionTyped
<1>3. AloneIsCurrent /\ LeftIsKnown
  BY <1>1 DEF InitSection, AloneIsCurrent, LeftIsKnown
<1>4. SetsKeepOthers /\ ClosedOnlyWhenLeft
  BY DEF InitSection, SetsKeepOthers, ClosedOnlyWhenLeft
<1>. QED
  BY <1>2, <1>3, <1>4 DEF SectionInv

(* The read of a Set: it is alone, or nobody is.                           *)
LEMMA SetReadStep ==
  ASSUME SectionInv, NEW w \in Writers, NEW k \in Keys, SetRead(w, k)
  PROVE  SectionInv'
<1>1. UNCHANGED <<section, subs, channels, panicked, lastSet, overtaken>>
  BY DEF SetRead
<1>2. PICK b \in BOOLEAN : b <=> (\A y \in Writers : sets[y].phase # "write")
  OBVIOUS
<1>3. PICK q : q = [phase |-> "write", key |-> k, values |-> section, todo |-> {}, alone |-> b]
  OBVIOUS
<1>4. q \in SetState /\ q.phase = "write" /\ q.key = k /\ q.values = section /\ q.todo = {} /\ q.alone = b
  BY <1>3 DEF SectionInv, SectionTyped, SetState
<1>5. sets' = [x \in Writers |->
                 IF x = w THEN q
                 ELSE IF sets[x].phase = "write" THEN [sets[x] EXCEPT !.alone = FALSE] ELSE sets[x]]
  <2>1. q = [phase |-> "write", key |-> k, values |-> section, todo |-> {},
             alone |-> \A y \in Writers : sets[y].phase # "write"]
    BY <1>2, <1>3
  <2>. QED
    BY <2>1 DEF SetRead
<1>6. sets'[w] = q
  BY <1>5
<1>7. ASSUME NEW x \in Writers \ {w}
      PROVE  /\ sets'[x] \in SetState /\ sets'[x].phase = sets[x].phase /\ sets'[x].key = sets[x].key
             /\ sets'[x].values = sets[x].values /\ sets'[x].todo = sets[x].todo
             /\ sets[x].phase = "write" => ~sets'[x].alone
  BY <1>5 DEF SectionInv, SectionTyped, SetState
<1>8. SectionTyped'
  <2>1. sets' \in [Writers -> SetState]
    BY <1>4, <1>5, <1>6, <1>7
  <2>. QED
    BY <1>1, <1>4, <1>6, <1>7, <2>1 DEF SectionInv, SectionTyped
<1>9. AloneIsCurrent'
  BY <1>1, <1>2, <1>4, <1>6, <1>7 DEF AloneIsCurrent
<1>10. LeftIsKnown'
  BY <1>1, <1>4, <1>6, <1>7 DEF SectionInv, LeftIsKnown
<1>. QED
  BY <1>1, <1>8, <1>9, <1>10 DEF SectionInv, SetsKeepOthers, ClosedOnlyWhenLeft

(* The upsert of a Set.                                                    *)
LEMMA SetUpsertStep ==
  ASSUME SectionInv, NEW w \in Writers, SetUpsert(w, 1)
  PROVE  SectionInv'
<1>1. /\ UNCHANGED <<subs, channels, panicked, overtaken>> /\ sets[w].phase = "write"
      /\ section' = [sets[w].values EXCEPT ![sets[w].key] = 1]
      /\ sets' = [sets EXCEPT ![w].phase = "fanout", ![w].todo = subs]
      /\ SectionTyped
  BY DEF SetUpsert, SectionInv
<1>2. /\ sets' \in [Writers -> SetState] /\ sets'[w].phase = "fanout" /\ sets'[w].todo = subs
      /\ \A x \in Writers \ {w} : sets'[x] = sets[x]
  <2>1. PICK q : q = [sets[w] EXCEPT !.phase = "fanout", !.todo = subs]
    OBVIOUS
  <2>2. sets[w] \in SetState /\ subs \in SUBSET Watchers
    BY <1>1 DEF SectionTyped
  <2>3. q \in SetState /\ q.phase = "fanout" /\ q.todo = subs
    BY <2>1, <2>2 DEF SetState
  <2>4. sets' = [sets EXCEPT ![w] = q]
    BY <1>1, <2>1 DEF SectionTyped
  <2>. QED
    BY <1>1, <2>3, <2>4 DEF SectionTyped
<1>3. section' \in [Keys -> Int]
  BY <1>1 DEF SectionTyped
<1>4. section' = lastSet'
  <2>1. CASE sets[w].alone
    BY <1>1, <2>1 DEF SetUpsert, SectionInv, AloneIsCurrent, SetsKeepOthers
  <2>2. CASE ~sets[w].alone
    BY <2>2 DEF SetUpsert
  <2>. QED
    BY <2>1, <2>2
<1>5. SectionTyped'
  BY <1>1, <1>2, <1>3 DEF SectionTyped
<1>6. AloneIsCurrent'
  BY <1>1, <1>2 DEF SectionInv, AloneIsCurrent
<1>7. LeftIsKnown'
  BY <1>1, <1>2 DEF SectionInv, LeftIsKnown
<1>. QED
  BY <1>1, <1>4, <1>5, <1>6, <1>7 DEF SectionInv, SetsKeepOthers, ClosedOnlyWhenLeft

(* An announcement: a closed channel belongs to a watcher that has left.   *)
LEMMA FanoutStep ==
  ASSUME SectionInv, NEW w \in Writers, fanout(w)
  PROVE  SectionInv'
<1>1. /\ UNCHANGED <<section, subs, lastSet, overtaken>> /\ SectionTyped /\ sets[w].phase = "fanout"
      /\ LeftIsKnown /\ AloneIsCurrent
  BY DEF fanout, SectionInv
<1>2. ASSUME sets' \in [Writers -> SetState], sets'[w].phase # "write", sets'[w].todo \subseteq sets[w].todo,
             \A y \in Writers \ {w} : sets'[y] = sets[y],
             channels' \in [Watchers -> [open : BOOLEAN, queued : Int]],
             \A x \in Watchers : channels'[x].open = channels[x].open,
             panicked' \subseteq overtaken
      PROVE  SectionInv'
  <2>1. SectionTyped'
    BY <1>1, <1>2 DEF SectionTyped
  <2>2. AloneIsCurrent'
    BY <1>1, <1>2 DEF AloneIsCurrent
  <2>3. LeftIsKnown'
    BY <1>1, <1>2 DEF LeftIsKnown, SectionTyped
  <2>. QED
    BY <1>1, <1>2, <2>1, <2>2, <2>3 DEF SectionInv, SetsKeepOthers, ClosedOnlyWhenLeft
<1>3. CASE sets[w].todo = {}
  <2>1. sets' = [sets EXCEPT ![w] = NotSetting] /\ UNCHANGED <<channels, panicked>>
    BY <1>3 DEF fanout
  <2>2. NotSetting \in SetState /\ NotSetting.phase = "rest" /\ NotSetting.todo = {}
    BY DEF NotSetting, SetState
  <2>. QED
    BY <1>1, <1>2, <2>1, <2>2 DEF SectionTyped, SectionInv, ClosedOnlyWhenLeft
<1>4. CASE sets[w].todo # {}
  <2>1. PICK x \in sets[w].todo :
          /\ sets' = [sets EXCEPT ![w].todo = @ \ {x}]
          /\ panicked' = IF channels[x].open THEN panicked ELSE panicked \cup {x}
          /\ channels' = IF channels[x].open /\ channels[x].queued < ChannelSize
                         THEN [channels EXCEPT ![x].queued = @ + 1] ELSE channels
    BY <1>4 DEF fanout
  <2>2. x \in Watchers
    BY <1>1 DEF SectionTyped, SetState
  <2>3. panicked' \subseteq overtaken
    BY <1>1, <2>1 DEF LeftIsKnown, SectionInv, ClosedOnlyWhenLeft
  <2>4. /\ sets' \in [Writers -> SetState] /\ sets'[w].phase = "fanout" /\ sets'[w].todo \subseteq sets[w].todo
        /\ \A y \in Writers \ {w} : sets'[y] = sets[y]
    BY <1>1, <2>1 DEF SectionTyped, SetState
  <2>5. /\ channels' \in [Watchers -> [open : BOOLEAN, queued : Int]]
        /\ \A y \in Watchers : channels'[y].open = channels[y].open
    BY <1>1, <2>1, <2>2 DEF SectionTyped
  <2>. QED
    BY <1>2, <2>3, <2>4, <2>5
<1>. QED
  BY <1>3, <1>4

(* Watchers come and go.                                                   *)
LEMMA WatcherStep ==
  ASSUME SectionInv, NEW x \in Watchers, Watch(x) \/ Unwatch(x) \/ CloseChannel(x) \/ Receive(x)
  PROVE  SectionInv'
<1>1. /\ UNCHANGED <<section, sets, panicked, lastSet>> /\ SectionTyped
      /\ LeftIsKnown /\ AloneIsCurrent /\ SetsKeepOthers /\ ClosedOnlyWhenLeft
  BY DEF SectionInv, Watch, Unwatch, CloseChannel, Receive
<1>2. SectionTyped' /\ LeftIsKnown' /\ overtaken \subseteq overtaken'
  <2>1. CASE Watch(x)
    BY <1>1, <2>1 DEF Watch, SectionTyped, LeftIsKnown
  <2>2. CASE Unwatch(x)
    BY <1>1, <2>2 DEF Unwatch, SectionTyped, LeftIsKnown
  <2>3. CASE CloseChannel(x)
    BY <1>1, <2>3 DEF CloseChannel, SectionTyped, LeftIsKnown
  <2>4. CASE Receive(x)
    BY <1>1, <2>4 DEF Receive, SectionTyped, LeftIsKnown
  <2>. QED
    BY <2>1, <2>2, <2>3, <2>4
<1>. QED
  BY <1>1, <1>2 DEF SectionInv, AloneIsCurrent, SetsKeepOthers, ClosedOnlyWhenLeft

(* Every step of writers and watchers.                                     *)
LEMMA SectionStep ==
  ASSUME SectionInv, [SectionNext]_sectionVars
  PROVE  SectionInv'
<1>1. CASE UNCHANGED sectionVars
  BY <1>1 DEF sectionVars, SectionInv, SectionTyped, AloneIsCurrent, LeftIsKnown, SetsKeepOthers, ClosedOnlyWhenLeft
<1>. QED
  BY <1>1, SetReadStep, SetUpsertStep, FanoutStep, WatcherStep DEF SectionNext

--------------------------------------------------------------------------
(* Overrides                                                               *)

(* Whatever the settings rows hold, a conversion yields a value of its own *)
(* type, or leaves the baseline.                                           *)
LEMMA Conversions ==
  ASSUME NEW v, NEW base
  PROVE  /\ base[1] = "bool" => Over(base, asBool(v))[1] = "bool"
         /\ base[1] = "str" => Over(base, asString(v))[1] = "str"
         /\ base[1] = "num" => Over(base, asInt(v))[1] = "num" /\ Over(base, overlayDuration(v))[1] = "num"
         /\ base[1] = "list" => Over(base, asStringSlice(v))[1] = "list"
<1>1. asBool(v) = Unset \/ asBool(v)[1] = "bool"
  BY DEF asBool
<1>2. asString(v) = Unset \/ asString(v)[1] = "str"
  BY DEF asString
<1>3. asInt(v) = Unset \/ asInt(v)[1] = "num"
  BY DEF asInt
<1>4. overlayDuration(v) = Unset \/ overlayDuration(v)[1] = "num"
  BY DEF overlayDuration
<1>5. asStringSlice(v) = Unset \/ asStringSlice(v)[1] = "list"
  BY DEF asStringSlice
<1>. QED
  BY <1>1, <1>2, <1>3, <1>4, <1>5 DEF Over

(* No row breaks what it is laid over.                                     *)
LEMMA RowsKeepShape ==
  ASSUME NEW vals, NEW interval
  PROVE  KeepsShape(vals, interval)
<1> DEFINE HKB == HKBase(interval)
           ldap == applyLDAPOverrides(LDAPBase, vals)
           oidc == applyOIDCOverrides(OIDCBase, vals)
           hk == applyHousekeeperOverrides(HKB, vals)
<1>1. \A k \in DOMAIN LDAPBase : ldap[k][1] = LDAPBase[k][1]
  <2>1. /\ DOMAIN LDAPBase = {"enabled", "port", "host"} /\ LDAPBase["enabled"][1] = "bool"
        /\ LDAPBase["port"][1] = "num" /\ LDAPBase["host"][1] = "str"
    BY DEF LDAPBase
  <2>2. /\ ldap["enabled"] = Over(LDAPBase["enabled"], asBool(Row(vals, <<"ldap", "enabled">>)))
        /\ ldap["port"] = Over(LDAPBase["port"], asInt(Row(vals, <<"ldap", "port">>)))
        /\ ldap["host"] = Over(LDAPBase["host"], asString(Row(vals, <<"ldap", "host">>)))
    BY <2>1 DEF applyLDAPOverrides
  <2>. QED
    BY <2>1, <2>2, Conversions
<1>2. /\ \A k \in DOMAIN OIDCBase : oidc[k][1] = OIDCBase[k][1]
      /\ oidc.client_secret = OIDCBase.client_secret /\ oidc.method = OIDCBase.method
  <2>1. /\ DOMAIN OIDCBase = {"enabled", "scopes", "client_secret", "method"} /\ OIDCBase["enabled"][1] = "bool"
        /\ OIDCBase["scopes"][1] = "list"
    BY DEF OIDCBase
  <2>2. /\ oidc["enabled"] = Over(OIDCBase["enabled"], asBool(Row(vals, <<"oidc", "enabled">>)))
        /\ oidc["scopes"] = Over(OIDCBase["scopes"], asStringSlice(Row(vals, <<"oidc", "scopes">>)))
        /\ oidc["client_secret"] = OIDCBase["client_secret"] /\ oidc["method"] = OIDCBase["method"]
    BY <2>1 DEF applyOIDCOverrides
  <2>. QED
    BY <2>1, <2>2, Conversions
<1>3. \A k \in DOMAIN HKB : hk[k][1] = HKB[k][1]
  <2>1. /\ DOMAIN HKB = {"trigger_on_startup", "cleanup_alert"} /\ HKB["trigger_on_startup"][1] = "bool"
        /\ HKB["cleanup_alert"][1] = "num"
    BY DEF HKBase
  <2>2. /\ hk["trigger_on_startup"] = Over(HKB["trigger_on_startup"], asBool(Row(vals, <<"housekeeping", "trigger_on_startup">>)))
        /\ hk["cleanup_alert"] = Over(HKB["cleanup_alert"], overlayDuration(Row(vals, <<"housekeeping", "cleanup_alert">>)))
    BY <2>1 DEF applyHousekeeperOverrides
  <2>. QED
    BY <2>1, <2>2, Conversions
<1>4. liveInterval(hk, "cleanup_alert", 300) > 0
  BY DEF liveInterval
<1>. QED
  BY <1>1, <1>2, <1>3, <1>4 DEF KeepsShape

(* ... whichever tenant they are read for.                                 *)
LEMMA ShapeKept == OverridesKeepShape
  BY RowsKeepShape DEF OverridesKeepShape

--------------------------------------------------------------------------
(* The housekeeper                                                         *)

PassShape ==
  pass = [phase |-> pass.phase, todo |-> pass.todo, skipped |-> pass.skipped, tenant |-> pass.tenant,
          refs |-> pass.refs, probing |-> pass.probing, keys |-> pass.keys]
HousekeeperInv == HousekeeperTypeOK /\ PassShape

KnownJob ==
  /\ backend \in {"sqlite", "postgres", "mongo"}
  /\ job \in {"timeout", "comments", "orphans", "expired", "audit", "stats", "aggregate"}

\* What the fields a job computes with hold; a uid stays with its tenant.
RowOK(u, r) ==
  /\ r.tenant = Home(u)
  /\ job = "timeout" => r.epoch \in Int /\ r.ttl \in Int
  /\ job = "expired" => \A w \in ToSet(r.datetime) : w.until \in Int
  /\ job = "audit" => r.epoch \in 0..MaxNow
  /\ job \in {"stats", "aggregate"} => r.epoch \in Int
RowsOK == \A u \in DOMAIN rows : RowOK(u, rows[u])

\* On MongoDB three cleanups delete by a field and not by uid.
KeysAreUids == ~ (backend = "mongo" /\ job \in {"comments", "orphans", "audit"})

\* A cleanup in several steps is at work in a tenant that was active when the
\* pass began, and what it chose by uid belongs to that tenant.
PassHome ==
  /\ pass.todo \cap pass.skipped = {}
  /\ pass.phase \in {"probe", "delete"} =>
        /\ pass.tenant \notin pass.skipped /\ ~ OneStatement
        /\ pass.phase = "probe" => \A u \in DOMAIN pass.refs : Home(u) = pass.tenant
        /\ KeysAreUids /\ pass.phase = "delete" => \A u \in pass.keys : Home(u) = pass.tenant

\* Parents found missing still are, and the parents of a row are those read.
ProbeHolds ==
  pass.phase = "probe" =>
     /\ job = "orphans"
     /\ touched = {} => /\ \A k \in pass.keys : k \notin tenantFilter(rows, pass.tenant)
                        /\ \A u \in DOMAIN pass.refs \cap DOMAIN rows : pass.refs[u] = Parents(rows[u])

\* What was chosen is worth nothing as long as nobody writes; a row with an
\* expiry of its own, as long as nobody writes that row.
ChosenUseless ==
  (pass.phase = "delete" /\ (touched = {} \/ job \in {"timeout", "expired"})) =>
     \A u \in Victims(pass.tenant, pass.keys) : Useless(u) \/ (job \in {"timeout", "expired"} /\ u \in touched)

CleanInv == HousekeeperInv /\ KnownJob /\ RowsOK /\ PassHome /\ ProbeHolds /\ ChosenUseless

(* Whatever a user writes under a uid belongs to the uid's tenant.         *)
LEMMA DocsHome == \A u, t : \A d \in DocsAt(u, t) : d.tenant \in Tenants
<1> SUFFICES ASSUME NEW u, NEW t, NEW d \in DocsAt(u, t) PROVE d.tenant \in Tenants
  OBVIOUS
<1>1. PICK o : o = Home(u) /\ o \in Tenants
  BY JobsAssumption DEF Home
<1>2. CASE job = "timeout"
  BY <1>1, <1>2 DEF DocsAt
<1>3. CASE job = "comments"
  BY <1>1, <1>3 DEF DocsAt
<1>4. CASE job = "orphans"
  BY <1>1, <1>4 DEF DocsAt
<1>5. CASE job = "expired"
  BY <1>1, <1>5 DEF DocsAt
<1>6. CASE job = "audit"
  BY <1>1, <1>6 DEF DocsAt
<1>7. CASE job \notin {"timeout", "comments", "orphans", "expired", "audit"}
  BY <1>1, <1>7 DEF DocsAt
<1>. QED
  BY <1>2, <1>3, <1>4, <1>5, <1>6, <1>7

(* The smaller of two numbers.                                             *)
LEMMA MinOfTwo ==
  ASSUME NEW a \in Nat, NEW b \in Nat
  PROVE  Min({a, b}) \in {a, b} /\ Min({a, b}) <= a /\ Min({a, b}) <= b
<1>1. \E x \in {a, b} : \A y \in {a, b} : x <= y
  <2>1. CASE a <= b
    BY <2>1
  <2>2. CASE b <= a
    BY <2>2
  <2>. QED
    BY <2>1, <2>2
<1>. QED
  BY <1>1 DEF Min

(* The job, its poll and the edits of others keep the shape of the pass.   *)
LEMMA HousekeeperStep ==
  ASSUME HousekeeperInv, [HousekeeperNext(Docs)]_housekeeperVars
  PROVE  HousekeeperInv'
<1>1. HousekeeperTypeOK /\ PassShape /\ Interval \in Nat /\ MaxNow \in Nat
  BY HousekeeperAssumption, JobsAssumption DEF HousekeeperInv
<1>2. CASE UNCHANGED housekeeperVars
  BY <1>1, <1>2 DEF housekeeperVars, HousekeeperInv, HousekeeperTypeOK, PassShape
<1>3. CASE Poll
  <2>1. elapsed' \in 0..Interval
    BY <1>1, <1>3, MinOfTwo DEF Poll, HousekeeperTypeOK
  <2>. QED
    BY <1>1, <1>3, <2>1 DEF Poll, HousekeeperInv, HousekeeperTypeOK, PassShape
<1>4. CASE Fail \/ Done
  BY <1>1, <1>4 DEF Fail, Done, EndPass, Idle, HousekeeperInv, HousekeeperTypeOK, PassShape
<1>5. CASE Tick
  BY <1>1, <1>5 DEF Tick, HousekeeperInv, HousekeeperTypeOK, PassShape
<1>6. CASE ForEachTenant
  BY <1>1, <1>6 DEF ForEachTenant, Idle, HousekeeperInv, HousekeeperTypeOK, PassShape
<1>7. CASE \E t \in Tenants : CleanAtOnce(t)
  <2>1. PICK t \in Tenants : CleanAtOnce(t)
    BY <1>7
  <2>2. PICK gone : gone = Statement(t)
    OBVIOUS
  <2>3. /\ rows' = [u \in DOMAIN rows \ gone |-> rows[u]]
        /\ pass' = [pass EXCEPT !.todo = pass.todo \ {t}, !.tenant = t]
        /\ UNCHANGED <<backend, job, suspended, now, elapsed, touched, edits, failures>>
    BY <2>1, <2>2 DEF CleanAtOnce, RemoveRows
  <2>. QED
    BY <1>1, <2>3 DEF HousekeeperInv, HousekeeperTypeOK, PassShape
<1>8. CASE \E t \in Tenants : Scan(t)
  <2>1. PICK t \in Tenants : Scan(t)
    BY <1>8
  <2>2. PICK ks : ks = Scanned(t)
    OBVIOUS
  <2>3. /\ pass' = [pass EXCEPT !.phase = "delete", !.todo = pass.todo \ {t}, !.tenant = t, !.keys = ks]
        /\ touched' = {} /\ UNCHANGED <<backend, job, rows, suspended, now, elapsed, edits, failures>>
    BY <2>1, <2>2 DEF Scan
  <2>. QED
    BY <1>1, <2>3 DEF HousekeeperInv, HousekeeperTypeOK, PassShape
<1>9. CASE \E t \in Tenants : ScanParents(t)
  <2>1. PICK t \in Tenants : ScanParents(t)
    BY <1>9
  <2>2. PICK rs, ps : /\ rs = [u \in tenantPredicate(rows, t) |-> Parents(rows[u])]
                      /\ ps = (IF backend = "sqlite" THEN SqliteParents(rows, t) ELSE MongoParents(rows, t))
    OBVIOUS
  <2>3. /\ pass' = [pass EXCEPT !.phase = "probe", !.todo = pass.todo \ {t}, !.tenant = t, !.keys = {}, !.refs = rs, !.probing = ps]
        /\ touched' = {} /\ UNCHANGED <<backend, job, rows, suspended, now, elapsed, edits, failures>>
    BY <2>1, <2>2 DEF ScanParents
  <2>. QED
    BY <1>1, <2>3 DEF HousekeeperInv, HousekeeperTypeOK, PassShape
<1>10. CASE \E p \in Uids \cup {NoUid} : ProbeParent(p)
  <2>1. PICK p : ProbeParent(p)
    BY <1>10
  <2>2. PICK ks : ks = (IF Missing(p) THEN pass.keys \cup {p} ELSE pass.keys)
    OBVIOUS
  <2>3. /\ pass' = [pass EXCEPT !.probing = pass.probing \ {p}, !.keys = ks]
        /\ UNCHANGED <<backend, job, rows, suspended, now, elapsed, touched, edits, failures>>
    BY <2>1, <2>2 DEF ProbeParent
  <2>. QED
    BY <1>1, <2>3 DEF HousekeeperInv, HousekeeperTypeOK, PassShape
<1>11. CASE Probed
  <2>1. PICK ks : ks = (IF backend = "mongo" THEN pass.keys ELSE {u \in DOMAIN pass.refs : pass.refs[u] \cap pass.keys # {}})
    OBVIOUS
  <2>2. /\ pass' = [pass EXCEPT !.phase = "delete", !.refs = <<>>, !.keys = ks]
        /\ UNCHANGED <<backend, job, rows, suspended, now, elapsed, touched, edits, failures>>
    BY <1>11, <2>1 DEF Probed
  <2>. QED
    BY <1>1, <2>2 DEF HousekeeperInv, HousekeeperTypeOK, PassShape
<1>12. CASE DeletePicked
  <2>1. PICK chunk : /\ RemoveRows(Victims(pass.tenant, chunk))
                     /\ pass' = IF chunk = pass.keys THEN [pass EXCEPT !.phase = "tenant", !.keys = {}]
                                ELSE [pass EXCEPT !.keys = pass.keys \ chunk]
    BY <1>12 DEF DeletePicked
  <2>2. PICK gone : gone = Victims(pass.tenant, chunk)
    OBVIOUS
  <2>3. rows' = [u \in DOMAIN rows \ gone |-> rows[u]]
    BY <2>1, <2>2 DEF RemoveRows
  <2>4. UNCHANGED <<backend, job, suspended, now, elapsed, touched, edits, failures>>
    BY <1>12 DEF DeletePicked
  <2>. QED
    BY <1>1, <2>1, <2>3, <2>4 DEF HousekeeperInv, HousekeeperTypeOK, PassShape
<1>13. CASE \E u \in Uids : Edit(u, Docs(u))
  <2>1. PICK u \in Uids : Edit(u, Docs(u))
    BY <1>13
  <2>2. /\ touched' \subseteq touched \cup {u}
        /\ UNCHANGED <<backend, job, suspended, now, elapsed, pass, failures>>
    BY <2>1 DEF Edit
  <2>3. DOMAIN rows' \subseteq Uids /\ \A v \in DOMAIN rows' : rows'[v].tenant \in Tenants
    <3>1. CASE \E d \in Docs(u) : rows' = [x \in DOMAIN rows \cup {u} |-> IF x = u THEN d ELSE rows[x]]
      BY <1>1, <3>1, DocsHome DEF HousekeeperTypeOK, Docs
    <3>2. CASE RemoveRows({u})
      BY <1>1, <3>2 DEF HousekeeperTypeOK, RemoveRows
    <3>. QED
      BY <2>1, <3>1, <3>2 DEF Edit
  <2>. QED
    BY <1>1, <2>2, <2>3 DEF HousekeeperInv, HousekeeperTypeOK, PassShape
<1>14. CASE \E t \in Tenants : SetStatus(t)
  BY <1>1, <1>14 DEF SetStatus, HousekeeperInv, HousekeeperTypeOK, PassShape
<1>. QED
  BY <1>2, <1>3, <1>4, <1>5, <1>6, <1>7, <1>8, <1>9, <1>10, <1>12, <1>13, <1>14, <1>11 DEF HousekeeperNext, JobStep

(* What a user writes under a uid has the fields the job computes with.    *)
LEMMA DocsOK == \A u : \A t \in 0..MaxNow : \A d \in DocsAt(u, t) : KnownJob => RowOK(u, d)
<1> SUFFICES ASSUME NEW u, NEW t \in 0..MaxNow, NEW d \in DocsAt(u, t), KnownJob PROVE RowOK(u, d)
  OBVIOUS
<1>1. PICK o : o = Home(u)
  OBVIOUS
<1>2. CASE job = "timeout"
  BY <1>1, <1>2 DEF DocsAt, RowOK, Null
<1>3. CASE job = "comments"
  BY <1>1, <1>3 DEF DocsAt, RowOK
<1>4. CASE job = "orphans"
  BY <1>1, <1>4 DEF DocsAt, RowOK
<1>5. CASE job = "expired"
  <2>1. PICK ws \in {<<>>, <<Until(Null)>>, <<Until(0)>>, <<Until(0), Until(1)>>} : d = [tenant |-> o, datetime |-> ws]
    BY <1>1, <1>5 DEF DocsAt
  <2>2. \A w \in ToSet(ws) : w.until \in Int
    BY <2>1 DEF ToSet, Until, Null
  <2>. QED
    BY <1>1, <1>5, <2>1, <2>2 DEF RowOK
<1>6. CASE job = "audit"
  BY <1>1, <1>6 DEF DocsAt, RowOK
<1>7. CASE job \in {"stats", "aggregate"}
  BY <1>1, <1>7 DEF DocsAt, RowOK
<1>. QED
  BY <1>2, <1>3, <1>4, <1>5, <1>6, <1>7 DEF KnownJob

(* The order of the natural numbers is well-founded.                       *)
LEMMA SmallerWellFounded == IsWellFoundedOn({ss \in Nat \X Nat : ss[1] < ss[2]}, Nat)
  BY NatLessThanWellFounded, Zenon DEF OpToRel

(* A set of natural numbers that is not empty has a least element.         *)
LEMMA LeastOf ==
  ASSUME NEW T, T \subseteq Nat, T # {}
  PROVE  \E m \in T : \A y \in T : m <= y
<1> DEFINE R == {ss \in Nat \X Nat : ss[1] < ss[2]}
<1>1. PICK m \in T : \A y \in T : ~ (<<y, m>> \in R)
  <2> HIDE DEF R
  <2>. QED
    BY SmallerWellFounded, WFMin DEF R
<1>2. ASSUME NEW y \in T PROVE m <= y
  <2>1. <<y, m>> \in Nat \X Nat /\ <<y, m>>[1] = y /\ <<y, m>>[2] = m
    OBVIOUS
  <2>2. ~ (y < m)
    BY <1>1, <2>1
  <2>. QED
    BY <2>2
<1>. QED
  BY <1>2

(* A bounded set of numbers that is not empty has a greatest element.      *)
LEMMA MaxOfBounded ==
  ASSUME NEW S, NEW n \in Nat, S \subseteq 0..n, S # {}
  PROVE  Max(S) \in S /\ \A x \in S : Max(S) >= x
<1> DEFINE T == {n - x : x \in S}
<1>1. \A y \in S : n - y \in Nat /\ n - y \in T
  OBVIOUS
<1>2. T \subseteq Nat /\ T # {}
  BY <1>1
<1>3. PICK m \in T : \A y \in T : m <= y
  <2> HIDE DEF T
  <2>. QED
    BY <1>2, LeastOf
<1>4. PICK x \in S : m = n - x
  OBVIOUS
<1> HIDE DEF T
<1>5. \A y \in S : x >= y
  BY <1>1, <1>3, <1>4
<1>. QED
  BY <1>4, <1>5 DEF Max

(* A statement deletes rows that are worth nothing, of its own tenant.     *)
LEMMA StatementUseless ==
  ASSUME KnownJob, RowsOK, OneStatement, NEW t, NEW u \in Statement(t)
  PROVE  u \in DOMAIN rows /\ Useless(u) /\ (job # "aggregate" => rows[u].tenant = t)
<1>1. CASE job = "timeout"
  BY <1>1 DEF Statement, SqliteCleanupTimeout, PostgresCleanupTimeout, tenantPredicate, Useless
<1>2. CASE job = "comments"
  <2>1. /\ u \in tenantPredicate(rows, t) /\ IsComment(rows[u]) /\ backend # "mongo"
        /\ NotIn(rows[u].ref, RecordUids(rows, tenantPredicate(rows, t)))
    BY <1>2 DEF Statement, OneStatement, SqliteCleanupComments, PostgresCleanupComments
  <2>2. mineOf(u) = tenantPredicate(rows, t)
    BY <2>1 DEF mineOf, tenantPredicate
  <2>. QED
    BY <1>2, <2>1, <2>2 DEF Useless, tenantPredicate
<1>3. CASE job = "orphans"
  <2>1. u \in tenantPredicate(rows, t) /\ \E p \in Parents(rows[u]) : p \notin tenantPredicate(rows, t)
    BY <1>3 DEF Statement, PostgresCleanupOrphans
  <2>2. mineOf(u) = tenantPredicate(rows, t)
    BY <2>1 DEF mineOf, tenantPredicate
  <2>. QED
    BY <1>3, <2>1, <2>2 DEF Useless, tenantPredicate
<1>4. CASE job = "audit"
  <2> DEFINE mine == tenantPredicate(rows, t)
  <2>1. u \in mine /\ rows[u].object \in SqlAuditObjects(rows, mine)
    BY <1>4 DEF Statement, SqliteCleanupAuditLogs, PostgresCleanupAuditLogs
  <2>2. PICK d \in mine : /\ rows[d].object = rows[u].object /\ rows[d].action = "delete"
                          /\ Coalesce(rows[d].epoch) < now - Retention
                          /\ Coalesce(rows[d].epoch) = Max({Coalesce(rows[w].epoch) : w \in {v \in mine : rows[v].object = rows[d].object}})
    BY <2>1 DEF SqlAuditObjects
  <2>3. mineOf(u) = mine
    BY <2>1 DEF mineOf, tenantPredicate
  <2>4. \A w \in mine : Coalesce(rows[w].epoch) = rows[w].epoch /\ rows[w].epoch \in 0..MaxNow
    BY <1>4 DEF tenantPredicate, RowsOK, RowOK, Coalesce, Null
  <2> DEFINE S == {Coalesce(rows[w].epoch) : w \in {v \in mine : rows[v].object = rows[d].object}}
  <2>5. S \subseteq 0..MaxNow /\ S # {}
    BY <2>4
  <2>6. \A x \in S : Max(S) >= x
    BY <2>5, MaxOfBounded, JobsAssumption
  <2>7. \A v \in mine : rows[v].object = rows[u].object => rows[d].epoch >= rows[v].epoch
    BY <2>2, <2>4, <2>6
  <2>. QED
    BY <1>4, <2>1, <2>2, <2>3, <2>4, <2>7 DEF Useless, tenantPredicate
<1>5. CASE job = "stats"
  BY <1>5 DEF Statement, CleanupStats, tenantPredicate, Useless
<1>6. CASE job = "aggregate"
  BY <1>6 DEF Statement, CleanupAggregate, Useless
<1>. QED
  BY <1>1, <1>2, <1>3, <1>4, <1>5, <1>6 DEF OneStatement

(* The rows a delete by keys meets belong to the tenant at work.           *)
LEMMA VictimsHome ==
  ASSUME KnownJob, RowsOK, NEW t, NEW ks, KeysAreUids => \A u \in ks : Home(u) = t
  PROVE  /\ \A u \in Victims(t, ks) : u \in DOMAIN rows /\ rows[u].tenant = t /\ mineOf(u) = tenantFilter(rows, t)
         /\ \A js : js \subseteq ks => Victims(t, js) \subseteq Victims(t, ks)
<1>1. \A u \in Victims(t, ks) : u \in DOMAIN rows /\ rows[u].tenant = t
  <2>1. CASE KeysAreUids
    <3>1. Victims(t, ks) = ks \cap DOMAIN rows
      BY <2>1 DEF Victims, KeysAreUids
    <3>. QED
      BY <2>1, <3>1 DEF RowsOK, RowOK
  <2>2. CASE ~ KeysAreUids
    BY <2>2 DEF Victims, KeysAreUids, tenantFilter
  <2>. QED
    BY <2>1, <2>2
<1>2. \A u \in Victims(t, ks) : mineOf(u) = tenantFilter(rows, t)
  BY <1>1 DEF mineOf, tenantFilter
<1>3. ASSUME NEW js, js \subseteq ks PROVE Victims(t, js) \subseteq Victims(t, ks)
  BY <1>3 DEF Victims
<1>. QED
  BY <1>1, <1>2, <1>3

(* What a scan of several steps chooses is worth nothing when it is chosen. *)
LEMMA ScannedUseless ==
  ASSUME KnownJob, RowsOK, ~ OneStatement, job # "orphans", NEW t, now \in Nat
  PROVE  /\ KeysAreUids => \A u \in Scanned(t) : Home(u) = t
         /\ \A u \in Victims(t, Scanned(t)) : Useless(u)
<1>1. CASE job = "expired"
  <2>1. \A u \in Scanned(t) : u \in DOMAIN rows /\ rows[u].tenant = t /\ datetimeAllExpired(rows[u].datetime)
    BY <1>1 DEF Scanned, SqliteCleanupExpired, PostgresCleanupExpired, MongoCleanupExpired, tenantPredicate, tenantFilter
  <2>2. Victims(t, Scanned(t)) = Scanned(t) \cap DOMAIN rows
    BY <1>1 DEF Victims
  <2>3. ASSUME NEW u \in Scanned(t) PROVE Useless(u)
    <3>1. rows[u].datetime # <<>> /\ \A w \in ToSet(rows[u].datetime) : w.until # Null /\ w.until < now /\ w.until \in Int
      BY <1>1, <2>1, <2>3 DEF datetimeAllExpired, RowsOK, RowOK
    <3>2. ~ CanMatch(rows[u].datetime)
      BY <3>1, JobsAssumption DEF CanMatch
    <3>. QED
      BY <1>1, <3>2 DEF Useless
  <2>. QED
    BY <2>1, <2>2, <2>3 DEF RowsOK, RowOK
<1>2. CASE job = "timeout"
  <2>1. Victims(t, Scanned(t)) = Scanned(t) \cap DOMAIN rows /\ Scanned(t) = MongoCleanupTimeout(rows, t)
    BY <1>2 DEF Victims, Scanned
  <2>2. ASSUME NEW u \in MongoCleanupTimeout(rows, t) PROVE u \in DOMAIN rows /\ rows[u].tenant = t /\ Useless(u)
    <3>1. u \in DOMAIN rows /\ rows[u].tenant = t /\ rows[u].ttl # Null /\ rows[u].ttl >= 0
      BY <2>2 DEF MongoCleanupTimeout, tenantFilter
    <3>2. rows[u].epoch # Null /\ rows[u].epoch + rows[u].ttl <= now
      BY <2>2 DEF MongoCleanupTimeout
    <3>. QED
      BY <1>2, <3>1, <3>2 DEF Useless
  <2>. QED
    BY <2>1, <2>2 DEF RowsOK, RowOK
<1>3. CASE job = "comments"
  <2>1. backend = "mongo" /\ ~ KeysAreUids
    BY <1>3 DEF OneStatement, KnownJob, KeysAreUids
  <2>2. Scanned(t) = MongoCleanupComments(rows, t)
    BY <1>3 DEF Scanned
  <2>3. ASSUME NEW u \in Victims(t, Scanned(t)) PROVE Useless(u)
    <3>1. u \in tenantFilter(rows, t) /\ IsComment(rows[u]) /\ rows[u].ref \in MongoCleanupComments(rows, t)
      BY <1>3, <2>1, <2>2, <2>3 DEF Victims
    <3>2. rows[u].ref # NoUid /\ rows[u].ref \notin RecordUids(rows, tenantFilter(rows, t))
      BY <3>1 DEF MongoCleanupComments
    <3>3. mineOf(u) = tenantFilter(rows, t)
      BY <3>1 DEF mineOf, tenantFilter
    <3>. QED
      BY <1>3, <3>1, <3>2, <3>3 DEF Useless, NotIn
  <2>. QED
    BY <2>1, <2>3
<1>4. CASE job = "audit"
  <2>1. backend = "mongo" /\ ~ KeysAreUids
    BY <1>4 DEF OneStatement, KnownJob, KeysAreUids
  <2>2. Scanned(t) = MongoCleanupAuditLogs(rows, t)
    BY <1>4 DEF Scanned
  <2>3. ASSUME NEW u \in Victims(t, Scanned(t)) PROVE Useless(u)
    <3> DEFINE o == rows[u].object
               events == {v \in tenantFilter(rows, t) : rows[v].object = o}
               dates == {rows[v].epoch : v \in events} \ {Null}
    <3>1. u \in tenantFilter(rows, t) /\ o \in MongoCleanupAuditLogs(rows, t)
      BY <1>4, <2>1, <2>2, <2>3 DEF Victims
    <3>2. dates # {} /\ Max(dates) < now - Retention /\ \E v \in events : rows[v].action = "delete" /\ rows[v].epoch = Max(dates)
      BY <3>1 DEF MongoCleanupAuditLogs
    <3>3. \A v \in events : rows[v].epoch \in 0..MaxNow /\ rows[v].epoch \in dates
      BY <1>4 DEF tenantFilter, RowsOK, RowOK, Null
    <3>4. dates \subseteq 0..MaxNow
      BY <3>3
    <3> HIDE DEF dates
    <3>5. \A x \in dates : Max(dates) >= x
      BY <3>2, <3>4, MaxOfBounded, JobsAssumption
    <3>6. \A v \in events : Max(dates) >= rows[v].epoch
      BY <3>3, <3>5
    <3>7. mineOf(u) = tenantFilter(rows, t)
      BY <3>1 DEF mineOf, tenantFilter
    <3>. QED
      BY <1>4, <3>2, <3>6, <3>7 DEF Useless
  <2>. QED
    BY <2>1, <2>3
<1>. QED
  BY <1>1, <1>2, <1>3, <1>4 DEF OneStatement, KnownJob

(* What is worth nothing stays so as time goes by, ...                     *)
LEMMA UselessLater ==
  ASSUME KnownJob, RowsOK, UNCHANGED <<rows, job, backend>>, now \in Nat, now' = now + 1, MaxNow \in Nat,
         NEW u \in DOMAIN rows, Useless(u)
  PROVE  Useless(u)'
<1>1. mineOf(u)' = mineOf(u) /\ RowOK(u, rows[u]) /\ \A v \in mineOf(u) : RowOK(v, rows[v])
  BY DEF mineOf, RowsOK
<1>2. CASE job = "timeout"
  BY <1>1, <1>2 DEF Useless, RowOK
<1>3. CASE job = "comments"
  BY <1>1, <1>3 DEF Useless
<1>4. CASE job = "orphans"
  BY <1>1, <1>4 DEF Useless
<1>5. CASE job = "expired"
  <2>1. ~ CanMatch(rows[u].datetime)
    BY <1>5 DEF Useless
  <2>2. ~ CanMatch(rows[u].datetime)'
    BY <1>1, <1>5, <2>1 DEF CanMatch, RowOK
  <2>. QED
    BY <1>5, <2>2 DEF Useless
<1>6. CASE job = "audit"
  <2>1. \A d \in mineOf(u) : rows[d].epoch < now - Retention => rows[d].epoch < now' - Retention
    BY <1>1, <1>6, HousekeeperAssumption DEF RowOK
  <2>. QED
    BY <1>1, <1>6, <2>1 DEF Useless
<1>7. CASE job = "stats"
  BY <1>1, <1>7, HousekeeperAssumption DEF Useless, RowOK
<1>8. CASE job = "aggregate"
  BY <1>8 DEF Useless
<1>. QED
  BY <1>2, <1>3, <1>4, <1>5, <1>6, <1>7, <1>8 DEF KnownJob

(* ... and for three of the jobs when rows disappear: a row keeps its own  *)
(* expiry, and its missing parents stay missing.                           *)
LEMMA UselessFewer ==
  ASSUME job \in {"orphans", "timeout", "expired"}, UNCHANGED <<now, job>>,
         NEW u \in DOMAIN rows \cap DOMAIN rows', Useless(u), rows'[u] = rows[u],
         job = "orphans" => \A v \in DOMAIN rows' : v \in DOMAIN rows /\ rows'[v] = rows[v]
  PROVE  Useless(u)'
<1>1. CASE job = "timeout"
  BY <1>1 DEF Useless
<1>2. CASE job = "expired"
  BY <1>2 DEF Useless, CanMatch
<1>3. CASE job = "orphans"
  <2>1. mineOf(u)' \subseteq mineOf(u)
    BY <1>3 DEF mineOf
  <2>. QED
    BY <1>3, <2>1 DEF Useless
<1>. QED
  BY <1>1, <1>2, <1>3

(* What is said of the rows depends on the rows, the clock and the job.    *)
LEMMA SameRows ==
  ASSUME UNCHANGED <<rows, job, backend, now>>
  PROVE  /\ KnownJob => KnownJob'
         /\ RowsOK => RowsOK'
         /\ OneStatement' <=> OneStatement
         /\ \A u : Useless(u) => Useless(u)'
         /\ \A t, ks : Victims(t, ks)' = Victims(t, ks)
<1>1. KnownJob => KnownJob'
  BY DEF KnownJob
<1>2. RowsOK => RowsOK'
  BY DEF RowsOK, RowOK
<1>3. OneStatement' <=> OneStatement
  BY DEF OneStatement
<1>4. \A u : Useless(u) => Useless(u)'
  <2>1. \A ws : CanMatch(ws)' <=> CanMatch(ws)
    BY DEF CanMatch
  <2>2. \A u : mineOf(u)' = mineOf(u)
    BY DEF mineOf
  <2>. QED
    BY <2>1, <2>2 DEF Useless
<1>5. \A t, ks : Victims(t, ks)' = Victims(t, ks)
  BY DEF Victims
<1>. QED
  BY <1>1, <1>2, <1>3, <1>4, <1>5

(* Steps between the cleanups, and polls, failures and status changes.     *)
LEMMA CleanIdles ==
  ASSUME CleanInv, Poll \/ Fail \/ Done \/ ForEachTenant \/ (\E t \in Tenants : SetStatus(t))
  PROVE  (KnownJob /\ RowsOK /\ PassHome /\ ProbeHolds /\ ChosenUseless)'
<1>1. UNCHANGED <<rows, job, backend, now>> /\ PassShape
  BY DEF Poll, Fail, Done, ForEachTenant, SetStatus, CleanInv, HousekeeperInv
<1>2. CASE \E t \in Tenants : SetStatus(t)
  <2>1. UNCHANGED <<pass, touched>>
    BY <1>2 DEF SetStatus
  <2>. QED
    BY <1>1, <2>1, SameRows DEF CleanInv, PassHome, ProbeHolds, ChosenUseless, KeysAreUids
<1>3. CASE Poll \/ Fail \/ Done \/ ForEachTenant
  <2>1. pass'.phase \notin {"probe", "delete"} /\ pass'.todo \cap pass'.skipped = {}
    <3>1. CASE Poll
      BY <1>1, <3>1 DEF Poll, CleanInv, PassHome, PassShape
    <3>2. CASE Fail \/ Done
      BY <3>2 DEF Fail, Done, EndPass, Idle
    <3>3. CASE ForEachTenant
      BY <3>3 DEF ForEachTenant, Idle
    <3>. QED
      BY <1>3, <3>1, <3>2, <3>3
  <2>. QED
    BY <1>1, <2>1, SameRows DEF CleanInv, PassHome, ProbeHolds, ChosenUseless
<1>. QED
  BY <1>2, <1>3

(* Time goes by.                                                           *)
LEMMA CleanTick ==
  ASSUME CleanInv, Tick
  PROVE  (KnownJob /\ RowsOK /\ PassHome /\ ProbeHolds /\ ChosenUseless)'
<1>1. /\ UNCHANGED <<rows, job, backend, pass, touched>> /\ now' = now + 1 /\ now \in Nat /\ MaxNow \in Nat
      /\ KnownJob /\ RowsOK /\ PassHome
  BY JobsAssumption DEF Tick, CleanInv, HousekeeperInv, HousekeeperTypeOK
<1>2. (KnownJob /\ RowsOK)' /\ (OneStatement' <=> OneStatement) /\ \A t, ks : Victims(t, ks)' = Victims(t, ks)
  BY <1>1 DEF KnownJob, RowsOK, RowOK, OneStatement, Victims
<1>3. (PassHome /\ ProbeHolds)'
  BY <1>1, <1>2 DEF CleanInv, PassHome, ProbeHolds, KeysAreUids
<1>4. ChosenUseless'
  <2>1. ASSUME pass.phase = "delete", touched = {} \/ job \in {"timeout", "expired"}, NEW u \in Victims(pass.tenant, pass.keys)
        PROVE  Useless(u)' \/ (job \in {"timeout", "expired"} /\ u \in touched)
    <3>1. u \in DOMAIN rows
      BY <1>1, <2>1, VictimsHome DEF PassHome
    <3>2. Useless(u) \/ (job \in {"timeout", "expired"} /\ u \in touched)
      BY <2>1 DEF CleanInv, ChosenUseless
    <3>. QED
      BY <1>1, <3>1, <3>2, UselessLater
  <2>. QED
    BY <1>1, <1>2, <2>1 DEF ChosenUseless
<1>. QED
  BY <1>2, <1>3, <1>4

(* A statement that deletes at once.                                       *)
LEMMA CleanStatement ==
  ASSUME CleanInv, NEW t \in Tenants, CleanAtOnce(t)
  PROVE  (KnownJob /\ RowsOK /\ PassHome /\ ProbeHolds /\ ChosenUseless)'
<1>1. PICK gone : /\ rows' = [u \in DOMAIN rows \ gone |-> rows[u]]
                  /\ pass' = [pass EXCEPT !.todo = pass.todo \ {t}, !.tenant = t]
                  /\ pass.phase = "tenant" /\ UNCHANGED <<job, backend, now>>
  BY DEF CleanAtOnce, RemoveRows
<1>2. pass'.phase = "tenant" /\ pass'.todo = pass.todo \ {t} /\ pass'.skipped = pass.skipped
  BY <1>1 DEF CleanInv, HousekeeperInv, PassShape
<1>. QED
  BY <1>1, <1>2 DEF CleanInv, KnownJob, RowsOK, RowOK, PassHome, ProbeHolds, ChosenUseless

(* A scan, and the scan of the parents.                                    *)
LEMMA CleanScan ==
  ASSUME CleanInv, NEW t \in Tenants, Scan(t) \/ ScanParents(t)
  PROVE  (KnownJob /\ RowsOK /\ PassHome /\ ProbeHolds /\ ChosenUseless)'
<1>1. /\ UNCHANGED <<rows, job, backend, now>> /\ touched' = {} /\ PassShape /\ ~ OneStatement
      /\ pass.phase = "tenant" /\ t \in pass.todo /\ t \notin pass.skipped /\ PassHome /\ KnownJob /\ RowsOK /\ now \in Nat
  BY DEF Scan, ScanParents, CleanInv, HousekeeperInv, HousekeeperTypeOK, PassHome
<1>2. (KnownJob /\ RowsOK)' /\ ~ OneStatement'
  BY <1>1, SameRows
<1>3. CASE Scan(t)
  <2>1. PICK ks : ks = Scanned(t)
    OBVIOUS
  <2>2. /\ pass' = [pass EXCEPT !.phase = "delete", !.todo = pass.todo \ {t}, !.tenant = t, !.keys = ks]
        /\ job # "orphans"
    BY <1>3, <2>1 DEF Scan
  <2>3. pass'.phase = "delete" /\ pass'.todo = pass.todo \ {t} /\ pass'.tenant = t /\ pass'.keys = ks
        /\ pass'.skipped = pass.skipped /\ pass'.refs = pass.refs
    BY <1>1, <2>2 DEF PassShape
  <2>4. (KeysAreUids => \A u \in ks : Home(u) = t) /\ \A u \in Victims(t, ks) : Useless(u)
    BY <1>1, <2>1, <2>2, ScannedUseless
  <2>. QED
    BY <1>1, <1>2, <2>3, <2>4, SameRows DEF PassHome, ProbeHolds, ChosenUseless, KeysAreUids
<1>4. CASE ScanParents(t)
  <2>1. PICK rs, ps : /\ rs = [u \in tenantPredicate(rows, t) |-> Parents(rows[u])]
                      /\ ps = (IF backend = "sqlite" THEN SqliteParents(rows, t) ELSE MongoParents(rows, t))
    OBVIOUS
  <2>2. /\ pass' = [pass EXCEPT !.phase = "probe", !.todo = pass.todo \ {t}, !.tenant = t, !.keys = {}, !.refs = rs, !.probing = ps]
        /\ job = "orphans"
    BY <1>4, <2>1 DEF ScanParents
  <2>3. pass'.phase = "probe" /\ pass'.todo = pass.todo \ {t} /\ pass'.tenant = t /\ pass'.keys = {}
        /\ pass'.skipped = pass.skipped /\ pass'.refs = rs
    BY <1>1, <2>2 DEF PassShape
  <2>4. \A u \in DOMAIN rs : Home(u) = t /\ rs[u] = Parents(rows[u])
    BY <1>1, <2>1 DEF tenantPredicate, RowsOK, RowOK
  <2>. QED
    BY <1>1, <1>2, <2>2, <2>3, <2>4 DEF PassHome, ProbeHolds, ChosenUseless
<1>. QED
  BY <1>3, <1>4

(* A parent is looked up, and all of them have been.                       *)
LEMMA CleanProbe ==
  ASSUME CleanInv, (\E p : ProbeParent(p)) \/ Probed
  PROVE  (KnownJob /\ RowsOK /\ PassHome /\ ProbeHolds /\ ChosenUseless)'
<1>1. /\ UNCHANGED <<rows, job, backend, now, touched>> /\ PassShape /\ ~ OneStatement /\ job = "orphans"
      /\ pass.phase = "probe" /\ PassHome /\ KnownJob /\ RowsOK /\ ProbeHolds
  BY DEF ProbeParent, Probed, CleanInv, HousekeeperInv, PassHome, ProbeHolds
<1>2. (KnownJob /\ RowsOK)' /\ ~ OneStatement'
  BY <1>1, SameRows
<1>3. CASE \E p : ProbeParent(p)
  <2>1. PICK p : ProbeParent(p)
    BY <1>3
  <2>2. PICK ks : ks = (IF Missing(p) THEN pass.keys \cup {p} ELSE pass.keys)
    OBVIOUS
  <2>3. pass' = [pass EXCEPT !.probing = pass.probing \ {p}, !.keys = ks]
    BY <2>1, <2>2 DEF ProbeParent
  <2>4. pass'.phase = "probe" /\ pass'.todo = pass.todo /\ pass'.tenant = pass.tenant /\ pass'.keys = ks
        /\ pass'.skipped = pass.skipped /\ pass'.refs = pass.refs
    BY <1>1, <2>3 DEF PassShape
  <2>5. touched = {} => \A k \in ks : k \notin tenantFilter(rows, pass.tenant)
    BY <1>1, <2>2 DEF ProbeHolds, Missing
  <2>. QED
    BY <1>1, <1>2, <2>4, <2>5 DEF PassHome, ProbeHolds, ChosenUseless
<1>4. CASE Probed
  <2>1. PICK ks : ks = (IF backend = "mongo" THEN pass.keys ELSE {u \in DOMAIN pass.refs : pass.refs[u] \cap pass.keys # {}})
    OBVIOUS
  <2>2. pass' = [pass EXCEPT !.phase = "delete", !.refs = <<>>, !.keys = ks]
    BY <1>4, <2>1 DEF Probed
  <2>3. pass'.phase = "delete" /\ pass'.todo = pass.todo /\ pass'.tenant = pass.tenant /\ pass'.keys = ks
        /\ pass'.skipped = pass.skipped
    BY <1>1, <2>2 DEF PassShape
  <2>4. KeysAreUids => \A u \in ks : Home(u) = pass.tenant
    BY <1>1, <2>1 DEF KeysAreUids, PassHome
  <2>5. ASSUME touched = {}, NEW u \in Victims(pass.tenant, ks) PROVE Useless(u)
    <3>1. u \in DOMAIN rows /\ mineOf(u) = tenantFilter(rows, pass.tenant)
      BY <1>1, <2>4, <2>5, VictimsHome
    <3>2. \E p \in Parents(rows[u]) : p \in pass.keys
      <4>1. CASE backend = "mongo"
        BY <1>1, <2>1, <2>5, <4>1 DEF Victims
      <4>2. CASE backend # "mongo"
        <5>1. u \in ks
          BY <2>5, <4>2 DEF Victims
        <5>. QED
          BY <1>1, <2>1, <2>5, <3>1, <4>2, <5>1 DEF ProbeHolds
      <4>. QED
        BY <4>1, <4>2
    <3>. QED
      BY <1>1, <2>5, <3>1, <3>2 DEF ProbeHolds, Useless
  <2>. QED
    BY <1>1, <1>2, <2>3, <2>4, <2>5, SameRows DEF PassHome, ProbeHolds, ChosenUseless, KeysAreUids
<1>. QED
  BY <1>3, <1>4

(* The delete of a batch, or of everything that was chosen.                *)
LEMMA CleanDelete ==
  ASSUME CleanInv, DeletePicked
  PROVE  (KnownJob /\ RowsOK /\ PassHome /\ ProbeHolds /\ ChosenUseless)'
<1>1. PICK chunk \in IF backend = "sqlite" THEN kSubset(Min({Batch, Cardinality(pass.keys)}), pass.keys) ELSE {pass.keys} :
         /\ RemoveRows(Victims(pass.tenant, chunk))
         /\ pass' = IF chunk = pass.keys THEN [pass EXCEPT !.phase = "tenant", !.keys = {}]
                    ELSE [pass EXCEPT !.keys = pass.keys \ chunk]
  BY DEF DeletePicked
<1>2. /\ UNCHANGED <<job, backend, now, touched>> /\ PassShape /\ ~ OneStatement /\ pass.phase = "delete"
      /\ PassHome /\ KnownJob /\ RowsOK /\ ChosenUseless
  BY DEF DeletePicked, CleanInv, HousekeeperInv, PassHome
<1>3. PICK gone : gone = Victims(pass.tenant, chunk) /\ rows' = [u \in DOMAIN rows \ gone |-> rows[u]]
  BY <1>1 DEF RemoveRows
<1>4. (KnownJob /\ RowsOK)' /\ ~ OneStatement'
  BY <1>2, <1>3 DEF KnownJob, RowsOK, RowOK, OneStatement
<1>5. CASE chunk = pass.keys
  <2>1. pass'.phase = "tenant" /\ pass'.todo = pass.todo /\ pass'.skipped = pass.skipped
    BY <1>1, <1>2, <1>5 DEF PassShape
  <2>. QED
    BY <1>2, <1>4, <2>1 DEF PassHome, ProbeHolds, ChosenUseless
<1>6. CASE chunk # pass.keys
  <2>1. backend = "sqlite" /\ job \in {"orphans", "expired"}
    BY <1>1, <1>2, <1>6 DEF OneStatement, KnownJob
  <2>2. pass'.phase = "delete" /\ pass'.todo = pass.todo /\ pass'.tenant = pass.tenant /\ pass'.keys = pass.keys \ chunk
        /\ pass'.skipped = pass.skipped
    BY <1>1, <1>2, <1>6 DEF PassShape
  <2>3. Victims(pass.tenant, pass.keys) = pass.keys \cap DOMAIN rows
    BY <2>1 DEF Victims
  <2>4. Victims(pass.tenant, pass.keys)' = pass'.keys \cap DOMAIN rows'
    BY <1>2, <2>1 DEF Victims
  <2>5. PassHome'
    BY <1>2, <1>4, <2>2 DEF PassHome, KeysAreUids
  <2>6. ASSUME touched = {} \/ job = "expired", NEW u \in pass'.keys \cap DOMAIN rows'
        PROVE  Useless(u)' \/ (job = "expired" /\ u \in touched)
    <3>1. u \in DOMAIN rows /\ rows'[u] = rows[u] /\ \A v \in DOMAIN rows' : v \in DOMAIN rows /\ rows'[v] = rows[v]
      BY <1>3, <2>6
    <3>2. Useless(u) \/ (job = "expired" /\ u \in touched)
      BY <1>2, <2>1, <2>2, <2>3, <2>6, <3>1 DEF ChosenUseless
    <3>. QED
      BY <1>2, <2>1, <2>6, <3>1, <3>2, UselessFewer
  <2>. QED
    BY <1>2, <1>4, <2>1, <2>2, <2>4, <2>5, <2>6 DEF ProbeHolds, ChosenUseless
<1>. QED
  BY <1>5, <1>6

(* Somebody writes or deletes a row meanwhile.                             *)
LEMMA CleanEdit ==
  ASSUME CleanInv, NEW u \in Uids, Edit(u, Docs(u))
  PROVE  (KnownJob /\ RowsOK /\ PassHome /\ ProbeHolds /\ ChosenUseless)'
<1>1. /\ UNCHANGED <<job, backend, now, pass>> /\ KnownJob /\ RowsOK /\ PassHome /\ now \in 0..MaxNow
      /\ touched' = IF pass.phase \in {"probe", "delete"} THEN touched \cup {u} ELSE {}
  BY DEF Edit, CleanInv, HousekeeperInv, HousekeeperTypeOK
<1>2. /\ \A v \in DOMAIN rows' : v # u => v \in DOMAIN rows /\ rows'[v] = rows[v]
      /\ \A v \in DOMAIN rows' : RowOK(v, rows'[v])
  <2>1. CASE \E d \in Docs(u) : rows' = [x \in DOMAIN rows \cup {u} |-> IF x = u THEN d ELSE rows[x]]
    <3>1. PICK d \in Docs(u) : rows' = [x \in DOMAIN rows \cup {u} |-> IF x = u THEN d ELSE rows[x]]
      BY <2>1
    <3>2. RowOK(u, d)
      BY <1>1, <3>1, DocsOK DEF Docs
    <3>. QED
      BY <1>1, <3>1, <3>2 DEF RowsOK
  <2>2. CASE RemoveRows({u})
    BY <1>1, <2>2 DEF RemoveRows, RowsOK
  <2>. QED
    BY <2>1, <2>2 DEF Edit
<1>3. (KnownJob /\ RowsOK)' /\ (OneStatement' <=> OneStatement)
  BY <1>1, <1>2 DEF KnownJob, RowsOK, RowOK, OneStatement
<1>4. PassHome' /\ ProbeHolds'
  BY <1>1, <1>3 DEF CleanInv, PassHome, ProbeHolds, KeysAreUids
<1>5. ChosenUseless'
  <2>1. CASE pass.phase = "delete" /\ job \in {"timeout", "expired"}
    <3>1. Victims(pass.tenant, pass.keys) = pass.keys \cap DOMAIN rows
      BY <2>1 DEF Victims
    <3>2. Victims(pass.tenant, pass.keys)' = pass.keys \cap DOMAIN rows'
      BY <1>1, <2>1 DEF Victims
    <3>3. ASSUME NEW v \in pass.keys \cap DOMAIN rows', v # u
          PROVE  Useless(v)' \/ v \in touched
      <4>1. v \in DOMAIN rows /\ rows'[v] = rows[v]
        BY <1>2, <3>3
      <4>2. Useless(v) \/ v \in touched
        BY <2>1, <3>1, <3>3, <4>1 DEF CleanInv, ChosenUseless
      <4>. QED
        BY <1>1, <2>1, <3>3, <4>1, <4>2, UselessFewer
    <3>. QED
      BY <1>1, <2>1, <3>2, <3>3 DEF ChosenUseless
  <2>2. CASE ~ (pass.phase = "delete" /\ job \in {"timeout", "expired"})
    BY <1>1, <2>2 DEF ChosenUseless
  <2>. QED
    BY <2>1, <2>2
<1>. QED
  BY <1>3, <1>4, <1>5

(* At the start no pass has chosen anything.                               *)
LEMMA CleanStarts == Init => CleanInv
<1> SUFFICES ASSUME Init PROVE CleanInv
  OBVIOUS
<1>1. /\ suspended \subseteq Tenants /\ now = 0 /\ elapsed = Interval /\ touched = {}
      /\ pass \in {Idle, [Idle EXCEPT !.phase = "list"]} /\ MaxNow \in Nat /\ Interval \in Nat
  BY JobsAssumption, HousekeeperAssumption DEF Init, InitHousekeeper
<1>2. pass.phase \in {"idle", "list"} /\ pass.todo = {} /\ PassShape
  BY <1>1 DEF Idle, PassShape
<1>3. KnownJob
  BY HousekeeperAssumption DEF Init, KnownJob
<1>4. DOMAIN rows \subseteq Uids /\ \A u \in DOMAIN rows : RowOK(u, rows[u]) /\ rows[u].tenant \in Tenants
  <2>1. CASE rows = <<>>
    BY <2>1
  <2>2. CASE rows \in SomeRows
    <3>1. DOMAIN rows = Uids /\ \A u \in Uids : rows[u] \in DocsAt(u, 0)
      BY <2>2 DEF SomeRows
    <3>2. 0 \in 0..MaxNow
      BY <1>1
    <3>. QED
      BY <1>3, <3>1, <3>2, DocsOK, DocsHome
  <2>. QED
    BY <2>1, <2>2 DEF Init
<1>. QED
  BY <1>1, <1>2, <1>3, <1>4 DEF CleanInv, HousekeeperInv, HousekeeperTypeOK, RowsOK, PassHome, ProbeHolds, ChosenUseless

(* Every step of the job and of the others.                                *)
LEMMA CleanStep ==
  ASSUME CleanInv, [HousekeeperNext(Docs)]_housekeeperVars
  PROVE  CleanInv'
<1>1. HousekeeperInv'
  BY HousekeeperStep DEF CleanInv
<1>2. CASE UNCHANGED housekeeperVars
  <2>1. UNCHANGED <<rows, job, backend, now, pass, touched>>
    BY <1>2 DEF housekeeperVars
  <2>. QED
    BY <1>1, <2>1, SameRows DEF CleanInv, PassHome, ProbeHolds, ChosenUseless, KeysAreUids
<1>3. CASE HousekeeperNext(Docs)
  BY <1>1, <1>3, CleanIdles, CleanTick, CleanStatement, CleanScan, CleanProbe, CleanDelete, CleanEdit
     DEF CleanInv, HousekeeperNext, JobStep
<1>. QED
  BY <1>2, <1>3

(* What a step of the job deletes.                                         *)
LEMMA CleanDeletes ==
  ASSUME CleanInv, [HousekeeperNext(Docs)]_housekeeperVars, ByJob, NEW u \in JobDeletes
  PROVE  /\ \/ Useless(u)
            \/ pass.phase = "delete" /\ touched # {} /\ (job \in {"timeout", "expired"} => u \in touched)
         /\ job # "aggregate" => rows[u].tenant = pass'.tenant /\ rows[u].tenant \notin pass.skipped
<1>1. /\ KnownJob /\ RowsOK /\ PassHome /\ PassShape /\ ChosenUseless
      /\ u \in DOMAIN rows /\ u \notin DOMAIN rows' /\ pass' # pass
  BY DEF CleanInv, HousekeeperInv, JobDeletes, ByJob
<1>2. CASE \E t \in Tenants : CleanAtOnce(t)
  <2>1. PICK t \in Tenants : CleanAtOnce(t)
    BY <1>2
  <2>2. /\ t \in pass.todo /\ OneStatement /\ RemoveRows(Statement(t))
        /\ pass' = [pass EXCEPT !.todo = pass.todo \ {t}, !.tenant = t]
    BY <2>1 DEF CleanAtOnce
  <2>3. u \in Statement(t)
    BY <1>1, <2>2 DEF RemoveRows
  <2>4. Useless(u) /\ (job # "aggregate" => rows[u].tenant = t)
    BY <1>1, <2>2, <2>3, StatementUseless
  <2>5. pass'.tenant = t
    BY <1>1, <2>2 DEF PassShape
  <2>. QED
    BY <1>1, <2>2, <2>4, <2>5 DEF PassHome
<1>3. CASE DeletePicked
  <2>1. pass.phase = "delete"
    BY <1>3 DEF DeletePicked
  <2>2. PICK chunk \in IF backend = "sqlite" THEN kSubset(Min({Batch, Cardinality(pass.keys)}), pass.keys) ELSE {pass.keys} :
           /\ RemoveRows(Victims(pass.tenant, chunk))
           /\ pass' = IF chunk = pass.keys THEN [pass EXCEPT !.phase = "tenant", !.keys = {}]
                      ELSE [pass EXCEPT !.keys = pass.keys \ chunk]
    BY <1>3 DEF DeletePicked
  <2>3. chunk \subseteq pass.keys
    BY <2>2 DEF kSubset
  <2>4. pass'.tenant = pass.tenant
    BY <1>1, <2>2 DEF PassShape
  <2>5. u \in Victims(pass.tenant, chunk)
    BY <1>1, <2>2 DEF RemoveRows
  <2>6. KeysAreUids => \A v \in pass.keys : Home(v) = pass.tenant
    BY <1>1, <2>1 DEF PassHome
  <2>7. u \in Victims(pass.tenant, pass.keys) /\ rows[u].tenant = pass.tenant
    BY <1>1, <2>3, <2>5, <2>6, VictimsHome
  <2>8. pass.tenant \notin pass.skipped
    BY <1>1, <2>1 DEF PassHome
  <2>. QED
    BY <1>1, <2>1, <2>4, <2>7, <2>8 DEF ChosenUseless
<1>4. CASE ~ DeletePicked /\ ~ \E t \in Tenants : CleanAtOnce(t)
  BY <1>1, <1>4 DEF HousekeeperNext, JobStep, Poll, Fail, Tick, Edit, SetStatus, ForEachTenant, Done, Probed,
                    Scan, ScanParents, ProbeParent, housekeeperVars
<1>. QED
  BY <1>2, <1>3, <1>4

--------------------------------------------------------------------------
(* Heartbeats                                                              *)

BeatDoc(d) ==
  /\ d = [tenant |-> d.tenant, seen |-> d.seen, name |-> d.name, interval |-> d.interval,
          grace |-> d.grace, enabled |-> d.enabled, token |-> d.token]
  /\ d.tenant \in Orgs /\ d.seen \in {Never} \cup 0..MaxTime
  /\ d.interval \in Int /\ d.grace \in Int

\* The shape of documents, of the pass and of the instants; what is stored or
\* read by the pass bears a name it is known to have borne.
BeatTyped ==
  /\ time \in 0..MaxTime
  /\ DOMAIN beats \subseteq Beats
  /\ \A u \in DOMAIN beats : BeatDoc(beats[u]) /\ beats[u].seen <= time
  /\ \A u \in DOMAIN beats : <<firedKey(beats[u].tenant, beats[u].name), u>> \in held
  /\ StoredIsScanned /\ dormant \subseteq Orgs
  /\ scan = [on |-> scan.on, todo |-> scan.todo, tenant |-> scan.tenant, docs |-> scan.docs, at |-> scan.at]
  /\ scan.todo \subseteq Orgs /\ DOMAIN scan.docs \subseteq Beats /\ scan.at \in 0..MaxTime /\ scan.at <= time
  /\ \A u \in DOMAIN scan.docs :
        /\ BeatDoc(scan.docs[u]) /\ <<firedKey(scan.tenant, scan.docs[u].name), u>> \in held
  /\ pings = [p \in Pings |-> pings[p]]
  /\ \A p \in Pings : pings[p].phase \in {"idle", "touch", "clear"}

\* The silence s of the name k is over for the heartbeat u: neither the
\* document nor the copy the pass holds has that last_seen.
Ended(u, s) ==
  /\ u \in DOMAIN beats => beats[u].seen # s
  /\ u \in DOMAIN scan.docs => scan.docs[u].seen # s

\* A silence that was raised lies in the past, and while its name belongs to
\* one heartbeat and was not forgotten the mark stands for it until it is
\* over; the pass never holds a copy older than the raised silence.
RaisedMarked(m) ==
  LET k == firedKey(m[1], m[2]) IN
  m[3] = Never \/ (/\ m[3] \in Nat /\ m[3] < time /\ \E u \in Beats : <<k, u>> \in held
                   /\ \/ k \in forgotten \/ Shared(k)
                      \/ \A u \in Beats : <<k, u>> \in held =>
                            /\ k \in DOMAIN fired
                            /\ fired[k] = m[3] \/ Ended(u, m[3])
                            /\ (u \in DOMAIN beats \cap DOMAIN scan.docs /\ beats[u].seen = m[3]) => scan.docs[u].seen = m[3])

BeatInv ==
  /\ BeatTyped
  /\ \A m \in raised : RaisedMarked(m)
  /\ RaisedOnce

\* What a request may carry.
BodyTyped(b) ==
  /\ b = [name |-> b.name, interval |-> b.interval, grace |-> b.grace, enabled |-> b.enabled, token |-> b.token]
  /\ b.interval \in Int /\ b.grace \in Int

(* At the start nothing has been raised.                                   *)
LEMMA BeatStarts ==
  ASSUME NEW docs \in SomeBeats \cup {<<>>}, InitHeartbeat(docs)
  PROVE  BeatInv
<1>1. beats = docs /\ DOMAIN docs \subseteq Beats
  <2>1. CASE docs = <<>>
    BY <2>1 DEF InitHeartbeat
  <2>2. CASE docs \in SomeBeats
    BY <2>2 DEF InitHeartbeat, SomeBeats
  <2>. QED
    BY <2>1, <2>2
<1>2. \A u \in DOMAIN docs : BeatDoc(docs[u]) /\ docs[u].seen <= 0 /\ parses(docs[u])
  <2>1. CASE docs = <<>>
    BY <2>1
  <2>2. CASE docs \in SomeBeats
    <3> DEFINE Pinged == [BeatOf("x", 1) EXCEPT !.seen = 0]
    <3>1. \A u \in DOMAIN docs : docs[u] \in {Pinged, BeatOf("y", 2), BeatOf("x", NoToken), BeatOf("x", 2)}
      BY <2>2, Zenon DEF SomeBeats
    <3>2. "y" \in Orgs /\ "x" \in Orgs /\ MaxTime \in Nat
      BY JobsAssumption
    <3>3. \A t \in Orgs : \A k : BeatDoc(BeatOf(t, k)) /\ BeatOf(t, k).seen <= 0 /\ parses(BeatOf(t, k))
      BY <3>2 DEF BeatDoc, BeatOf, parses, NoName, Never, Absent
    <3>4. BeatDoc(Pinged) /\ Pinged.seen <= 0 /\ parses(Pinged)
      BY <3>2 DEF BeatDoc, BeatOf, parses, NoName, Never, Absent
    <3> HIDE DEF Pinged
    <3>. QED
      BY <3>1, <3>2, <3>3, <3>4
  <2>. QED
    BY <2>1, <2>2
<1>3. \A u \in DOMAIN beats : <<firedKey(beats[u].tenant, beats[u].name), u>> \in held
  BY <1>1 DEF InitHeartbeat
<1>4. BeatTyped
  BY <1>1, <1>2, <1>3, JobsAssumption DEF InitHeartbeat, BeatTyped, StoredIsScanned, NoScan, NoPing
<1>. QED
  BY <1>4 DEF InitHeartbeat, BeatInv, RaisedOnce

(* A step that raises nothing keeps the marks' meaning when it drops no    *)
(* mark without forgetting it, and brings no old last_seen back.           *)
LEMMA MarksKept ==
  ASSUME BeatInv, BeatTyped', time' >= time, held \subseteq held',
         raised' = raised, repeated' = repeated, forgotten \subseteq forgotten',
         \A k \in DOMAIN fired : k \in forgotten' \/ (k \in DOMAIN fired' /\ fired'[k] = fired[k]),
         \A u \in DOMAIN beats' : beats'[u].seen \in {Never, time} \/ (u \in DOMAIN beats /\ beats'[u].seen = beats[u].seen),
         \A u \in DOMAIN scan'.docs :
            \/ u \in DOMAIN scan.docs /\ scan'.docs[u].seen = scan.docs[u].seen
            \/ u \in DOMAIN beats /\ u \in DOMAIN beats' /\ beats'[u].seen = beats[u].seen /\ scan'.docs[u].seen = beats[u].seen
  PROVE  BeatInv'
<1>1. \A k : Shared(k) => Shared(k)'
  BY DEF Shared
<1>2. RaisedOnce'
  BY <1>1 DEF BeatInv, RaisedOnce
<1>3. ASSUME NEW m \in raised PROVE RaisedMarked(m)'
  <2> DEFINE k == firedKey(m[1], m[2])
             s == m[3]
  <2>1. RaisedMarked(m)
    BY DEF BeatInv
  <2>2. CASE s = Never
    BY <2>2 DEF RaisedMarked
  <2>3. CASE s # Never
    <3>1. s \in Nat /\ s < time /\ s < time' /\ time \in Nat /\ s # Never
      BY <2>1, <2>3 DEF RaisedMarked, BeatTyped, BeatInv
    <3>2. PICK v \in Beats : <<k, v>> \in held
      BY <2>1, <2>3 DEF RaisedMarked
    <3>3. CASE k \in forgotten' \/ Shared(k)'
      BY <3>1, <3>2, <3>3 DEF RaisedMarked
    <3>4. CASE ~ (k \in forgotten' \/ Shared(k)')
      <4>1. ~ (k \in forgotten \/ Shared(k))
        BY <3>4, <1>1
      <4>2. \A u \in Beats : <<k, u>> \in held' => u = v
        BY <3>2, <3>4 DEF Shared
      <4>3. /\ k \in DOMAIN fired /\ (fired[k] = s \/ Ended(v, s))
            /\ (v \in DOMAIN beats \cap DOMAIN scan.docs /\ beats[v].seen = s) => scan.docs[v].seen = s
        BY <2>1, <2>3, <3>2, <4>1 DEF RaisedMarked
      <4>4. k \in DOMAIN fired' /\ fired'[k] = fired[k]
        BY <3>4, <4>3
      <4>5. v \in DOMAIN beats' /\ beats'[v].seen = s => v \in DOMAIN beats /\ beats[v].seen = s
        BY <3>1 DEF Never
      <4>6. Ended(v, s) => Ended(v, s)'
        BY <4>5 DEF Ended
      <4>7. (v \in DOMAIN beats' \cap DOMAIN scan'.docs /\ beats'[v].seen = s) => scan'.docs[v].seen = s
        BY <4>3, <4>5
      <4>. QED
        BY <3>1, <3>2, <4>2, <4>3, <4>4, <4>6, <4>7 DEF RaisedMarked
    <3>. QED
      BY <3>3, <3>4
  <2>. QED
    BY <2>2, <2>3
<1>. QED
  BY <1>2, <1>3 DEF BeatInv

(* Validate and TransformWrite let through whole documents the scanner can *)
(* read and patches that keep one readable, and a write keeps last_seen or *)
(* resets it.                                                              *)
LEMMA WrittenIsRead ==
  ASSUME NEW b, BodyTyped(b), Validate(b), NEW old, NEW t \in Orgs, NEW n
  PROVE  LET full == IF b.token \notin {Absent, NoToken} \/ ~ isFullDocument(b) THEN b ELSE [b EXCEPT !.token = n]
         IN  /\ BeatDoc(old) => BeatDoc(Merge(old, full)) /\ Merge(old, full).seen = old.seen
             /\ BeatDoc(Merge(Fresh(t), full)) /\ Merge(Fresh(t), full).seen = Never
             /\ isFullDocument(b) => parses(Merge(old, full)) /\ parses(Merge(Fresh(t), full))
             /\ parses(old) => parses(Merge(old, full))
<1> DEFINE full == IF b.token \notin {Absent, NoToken} \/ ~ isFullDocument(b) THEN b ELSE [b EXCEPT !.token = n]
<1>1. full.name = b.name /\ full.interval = b.interval /\ full.grace = b.grace
  BY DEF BodyTyped
<1>2. b.interval \in Int /\ b.grace \in Int
  BY DEF BodyTyped
<1> HIDE DEF full
<1>3. BeatDoc(old) => BeatDoc(Merge(old, full)) /\ Merge(old, full).seen = old.seen
  BY <1>1, <1>2 DEF Merge, BeatDoc, Validate, Absent, Bad, Unnamed, NoName
<1>4. BeatDoc(Merge(Fresh(t), full)) /\ Merge(Fresh(t), full).seen = Never
  BY <1>1, <1>2 DEF Merge, BeatDoc, Validate, Fresh, Absent, Bad, Unnamed, NoName, Never
<1>5. ASSUME NEW d, isFullDocument(b) PROVE parses(Merge(d, full))
  BY <1>1, <1>2, <1>5 DEF Merge, Validate, isFullDocument, parses, Absent, Bad
<1>6. parses(old) => parses(Merge(old, full))
  BY <1>1, <1>2 DEF Merge, Validate, parses, Absent, Bad, Unnamed, NoName
<1>. QED
  BY <1>3, <1>4, <1>5, <1>6 DEF full

(* A write through the API.                                                *)
LEMMA WriteBeatStep ==
  ASSUME BeatInv, NEW u \in Beats, NEW t \in Orgs, NEW b, BodyTyped(b),
         NEW verb \in {"post", "put", "patch"}, WriteBeat(u, t, b, verb)
  PROVE  BeatInv'
<1> DEFINE merges == verb # "put" /\ u \in DOMAIN beats
<1>1. PICK doc : /\ doc = Merge(IF merges THEN beats[u] ELSE Fresh(t), TransformWrite(b))
                 /\ beats' = [v \in DOMAIN beats \cup {u} |-> IF v = u THEN doc ELSE beats[v]]
                 /\ held' = held \cup {<<firedKey(doc.tenant, doc.name), u>>}
                 /\ partial' = IF isFullDocument(b) THEN partial \ {u} ELSE IF merges THEN partial ELSE partial \cup {u}
  BY DEF WriteBeat
<1>2. UNCHANGED <<fired, scan, pings, time, raised, repeated, forgotten, dormant>> /\ Validate(b)
  BY DEF WriteBeat
<1>3. BeatTyped
  BY DEF BeatInv
<1>4. /\ BeatDoc(doc) /\ (doc.seen = Never \/ (u \in DOMAIN beats /\ doc.seen = beats[u].seen))
      /\ parses(doc) \/ u \in partial'
  <2>1. CASE merges
    <3>1. BeatDoc(beats[u]) /\ (parses(beats[u]) \/ u \in partial)
      BY <1>3, <2>1 DEF BeatTyped, StoredIsScanned
    <3>. QED
      BY <1>1, <1>2, <2>1, <3>1, WrittenIsRead DEF TransformWrite
  <2>2. CASE ~ merges
    BY <1>1, <1>2, <2>2, WrittenIsRead DEF TransformWrite
  <2>. QED
    BY <2>1, <2>2
<1>5. \A v \in DOMAIN beats' : (v = u /\ beats'[v] = doc) \/ (v \in DOMAIN beats /\ beats'[v] = beats[v])
  BY <1>1
<1>6. BeatTyped'
  <2>1. \A v \in DOMAIN beats' : BeatDoc(beats'[v]) /\ beats'[v].seen <= time
    BY <1>3, <1>4, <1>5 DEF BeatTyped, Never
  <2>2. \A v \in DOMAIN beats' : BeatDoc(beats[v])'
    BY <2>1 DEF BeatDoc
  <2>6. StoredIsScanned'
    <3>1. \A v \in DOMAIN beats' : parses(beats'[v]) \/ v \in partial'
      BY <1>1, <1>3, <1>4, <1>5 DEF BeatTyped, StoredIsScanned
    <3>. QED
      BY <3>1 DEF StoredIsScanned, parses
  <2>3. \A v \in DOMAIN scan.docs : BeatDoc(scan.docs[v])'
    BY <1>2, <1>3 DEF BeatTyped, BeatDoc, parses
  <2>4. \A v \in DOMAIN beats' : <<firedKey(beats'[v].tenant, beats'[v].name), v>> \in held'
    BY <1>1, <1>3, <1>5 DEF BeatTyped
  <2>5. DOMAIN beats' \subseteq Beats
    BY <1>1, <1>3 DEF BeatTyped
  <2>. QED
    BY <1>1, <1>2, <1>3, <2>1, <2>2, <2>3, <2>4, <2>5, <2>6 DEF BeatTyped, firedKey
<1>7. time \in Nat
  BY <1>3 DEF BeatTyped
<1>. QED
  BY <1>1, <1>2, <1>4, <1>5, <1>6, <1>7, MarksKept

(* A delete, a boot that hands out tokens and forgets the marks, a tenant  *)
(* suspended, and a query of the scan that fails.                          *)
LEMMA BeatUpset ==
  ASSUME BeatInv, (\E u \in Beats : DeleteBeat(u)) \/ PostInit \/ (\E t \in Orgs : SetDormant(t) \/ ScanFails(t))
  PROVE  BeatInv'
<1>1. BeatTyped /\ time \in Nat
  BY DEF BeatInv, BeatTyped
<1>2. CASE \E u \in Beats : DeleteBeat(u)
  <2>1. PICK u \in Beats : DeleteBeat(u)
    BY <1>2
  <2>2. /\ UNCHANGED <<fired, scan, pings, time, raised, repeated, forgotten, held, dormant, partial>>
        /\ DOMAIN beats' \subseteq DOMAIN beats /\ \A v \in DOMAIN beats' : beats'[v] = beats[v]
    BY <2>1 DEF DeleteBeat
  <2>3. BeatTyped'
    BY <1>1, <2>2 DEF BeatTyped, BeatDoc, StoredIsScanned, parses, firedKey
  <2>. QED
    BY <1>1, <2>2, <2>3, MarksKept
<1>3. CASE PostInit
  <2>1. /\ UNCHANGED <<time, raised, repeated, held, dormant, partial>> /\ forgotten' = forgotten \cup DOMAIN fired
        /\ fired' = <<>> /\ scan' = NoScan /\ pings' = [p \in Pings |-> NoPing]
    BY <1>3 DEF PostInit
  <2>2. PICK done \in SUBSET LegacyNames : \E order \in [done -> 1..Cardinality(done)] :
           beats' = [u \in DOMAIN beats |-> IF beats[u].tenant = Default /\ beats[u].name \in done
                                       THEN [beats[u] EXCEPT !.token = minted + order[beats[u].name]] ELSE beats[u]]
    BY <1>3, Zenon DEF PostInit
  <2>3. ASSUME NEW u \in DOMAIN beats
        PROVE  /\ BeatDoc(beats'[u]) /\ beats'[u].seen = beats[u].seen
               /\ parses(beats[u]) => parses(beats'[u])
               /\ beats'[u].tenant = beats[u].tenant /\ beats'[u].name = beats[u].name
    <3>1. PICK k : beats'[u] = [beats[u] EXCEPT !.token = k] \/ beats'[u] = beats[u]
      <4>1. PICK order : beats' = [v \in DOMAIN beats |-> IF beats[v].tenant = Default /\ beats[v].name \in done
                                       THEN [beats[v] EXCEPT !.token = minted + order[beats[v].name]] ELSE beats[v]]
        BY <2>2
      <4>. QED
        BY <4>1
    <3>2. BeatDoc(beats[u])
      BY <1>1 DEF BeatTyped
    <3>. QED
      BY <3>1, <3>2 DEF BeatDoc, parses
  <2>4. DOMAIN beats' = DOMAIN beats
    BY <2>2
  <2>5. BeatTyped'
    <3>1. scan'.todo \subseteq Orgs /\ scan'.docs = <<>> /\ scan'.at = 0 /\ MaxTime \in Nat
      BY <2>1, JobsAssumption DEF NoScan
    <3>2. \A u \in DOMAIN beats' : BeatDoc(beats'[u]) /\ beats'[u].seen <= time'
      BY <1>1, <2>1, <2>3, <2>4 DEF BeatTyped
    <3>3. \A u \in DOMAIN beats' : <<firedKey(beats'[u].tenant, beats'[u].name), u>> \in held'
      BY <1>1, <2>1, <2>3, <2>4 DEF BeatTyped
    <3>4. \A u \in DOMAIN beats' : parses(beats'[u]) \/ u \in partial'
      BY <1>1, <2>1, <2>3, <2>4 DEF BeatTyped, StoredIsScanned
    <3>. QED
      BY <1>1, <2>1, <2>4, <3>1, <3>2, <3>3, <3>4 DEF BeatTyped, BeatDoc, StoredIsScanned, parses, firedKey, NoScan, NoPing
  <2>. QED
    BY <1>1, <2>1, <2>3, <2>4, <2>5, MarksKept DEF NoScan
<1>4. CASE \E t \in Orgs : SetDormant(t) \/ ScanFails(t)
  <2>1. PICK t \in Orgs : SetDormant(t) \/ ScanFails(t)
    BY <1>4
  <2>2. /\ UNCHANGED <<beats, fired, pings, time, raised, repeated, forgotten, held, partial>>
        /\ dormant' \subseteq Orgs /\ scan'.docs = scan.docs /\ scan'.tenant = scan.tenant /\ scan'.at = scan.at
        /\ scan'.todo \subseteq scan.todo /\ (scan' = scan \/ scan' = [scan EXCEPT !.todo = @ \ {t}])
    <3>1. CASE SetDormant(t)
      BY <1>1, <3>1 DEF SetDormant, BeatTyped
    <3>2. CASE ScanFails(t)
      BY <1>1, <3>2 DEF ScanFails, BeatTyped
    <3>. QED
      BY <2>1, <3>1, <3>2
  <2>3. BeatTyped'
    BY <1>1, <2>2 DEF BeatTyped, BeatDoc, StoredIsScanned, parses, firedKey
  <2>. QED
    BY <1>1, <2>2, <2>3, MarksKept
<1>. QED
  BY <1>2, <1>3, <1>4

(* The handler of a ping.                                                  *)
LEMMA PingSteps ==
  ASSUME BeatInv, NEW p \in Pings, (\E n, k : HandleWebhook(p, n, k)) \/ touch(p) \/ clearFired(p)
  PROVE  BeatInv'
<1>1. BeatTyped /\ time \in Nat
  BY DEF BeatInv, BeatTyped
<1>2. CASE \E n, k : HandleWebhook(p, n, k)
  <2>1. PICK n, k : HandleWebhook(p, n, k)
    BY <1>2
  <2>2. /\ UNCHANGED <<beats, fired, scan, time, raised, repeated, forgotten, held, dormant, partial>>
        /\ \E t : pings' = [pings EXCEPT ![p] = [phase |-> "touch", tenant |-> t, name |-> n]]
    BY <2>1 DEF HandleWebhook
  <2>3. BeatTyped'
    BY <1>1, <2>2 DEF BeatTyped, BeatDoc, StoredIsScanned, parses, firedKey
  <2>. QED
    BY <1>1, <2>2, <2>3, MarksKept
<1>3. CASE touch(p)
  <2>1. UNCHANGED <<fired, scan, time, raised, repeated, forgotten, held, dormant, partial>>
    BY <1>3 DEF touch
  <2>2. PICK mine : /\ beats' = [u \in DOMAIN beats |-> IF u \in mine THEN [beats[u] EXCEPT !.seen = time] ELSE beats[u]]
                    /\ pings' = [pings EXCEPT ![p] = IF mine = {} THEN NoPing ELSE [pings[p] EXCEPT !.phase = "clear"]]
    BY <1>3 DEF touch
  <2>3. ASSUME NEW u \in DOMAIN beats
        PROVE  /\ BeatDoc(beats'[u]) /\ (beats'[u].seen = beats[u].seen \/ beats'[u].seen = time)
               /\ parses(beats[u]) => parses(beats'[u])
               /\ beats'[u].tenant = beats[u].tenant /\ beats'[u].name = beats[u].name
    <3>1. beats'[u] = [beats[u] EXCEPT !.seen = time] \/ beats'[u] = beats[u]
      BY <2>2
    <3>2. BeatDoc(beats[u]) /\ time \in 0..MaxTime
      BY <1>1 DEF BeatTyped
    <3>. QED
      BY <3>1, <3>2 DEF BeatDoc, parses
  <2>4. DOMAIN beats' = DOMAIN beats
    BY <2>2
  <2>5. pings' = [q \in Pings |-> pings'[q]] /\ \A q \in Pings : pings'[q].phase \in {"idle", "touch", "clear"}
    BY <1>1, <1>3, <2>2 DEF BeatTyped, NoPing, touch
  <2>6. BeatTyped'
    <3>2. \A u \in DOMAIN beats' : BeatDoc(beats'[u]) /\ beats'[u].seen <= time'
      BY <1>1, <2>1, <2>3, <2>4 DEF BeatTyped
    <3>3. \A u \in DOMAIN beats' : <<firedKey(beats'[u].tenant, beats'[u].name), u>> \in held'
      BY <1>1, <2>1, <2>3, <2>4 DEF BeatTyped
    <3>4. \A u \in DOMAIN beats' : parses(beats'[u]) \/ u \in partial'
      BY <1>1, <2>1, <2>3, <2>4 DEF BeatTyped, StoredIsScanned
    <3>. QED
      BY <1>1, <2>1, <2>4, <2>5, <3>2, <3>3, <3>4 DEF BeatTyped, BeatDoc, StoredIsScanned, parses, firedKey
  <2>. QED
    BY <1>1, <2>1, <2>3, <2>4, <2>6, MarksKept
<1>4. CASE clearFired(p)
  <2>1. /\ UNCHANGED <<beats, scan, time, raised, repeated, held, dormant, partial>>
        /\ pings' = [pings EXCEPT ![p] = NoPing]
    BY <1>4 DEF clearFired
  <2>2. PICK k : /\ fired' = [x \in DOMAIN fired \ {k} |-> fired[x]]
                 /\ forgotten' = forgotten \cup ({k} \cap DOMAIN fired)
    BY <1>4 DEF clearFired
  <2>3. BeatTyped'
    BY <1>1, <2>1 DEF BeatTyped, BeatDoc, StoredIsScanned, parses, firedKey, NoPing
  <2>. QED
    BY <1>1, <2>1, <2>2, <2>3, MarksKept
<1>. QED
  BY <1>2, <1>3, <1>4

(* A pass begins, reads a tenant's heartbeats, passes one over or ends, or *)
(* time goes by.                                                           *)
LEMMA QuietScan ==
  ASSUME BeatInv,
         \/ scanAllTenants \/ EndScan \/ Clock
         \/ (\E t \in Orgs : ScanTenant(t)) \/ (\E u \in Beats : Pass(u))
  PROVE  BeatInv'
<1>1. BeatTyped /\ time \in Nat
  BY DEF BeatInv, BeatTyped
<1>2. CASE scanAllTenants \/ EndScan \/ (\E u \in Beats : Pass(u))
  <2>1. UNCHANGED <<beats, fired, pings, time, raised, repeated, forgotten, held, dormant, partial>>
    BY <1>2 DEF scanAllTenants, EndScan, Pass
  <2>2. /\ scan' = [on |-> scan'.on, todo |-> scan'.todo, tenant |-> scan'.tenant, docs |-> scan'.docs, at |-> scan'.at]
        /\ scan'.todo \subseteq Orgs /\ (scan'.at = 0 \/ scan'.at = scan.at)
        /\ DOMAIN scan'.docs \subseteq DOMAIN scan.docs
        /\ \A u \in DOMAIN scan'.docs : scan'.docs[u] = scan.docs[u] /\ scan'.tenant = scan.tenant
    <3>1. CASE scanAllTenants
      <4>1. scan' = [on |-> TRUE, todo |-> Orgs \ dormant, tenant |-> NoName, docs |-> <<>>, at |-> 0]
        BY <3>1 DEF scanAllTenants, NoScan
      <4>2. scan'.docs = <<>> /\ DOMAIN scan'.docs = {}
        BY <4>1
      <4>. QED
        BY <4>1, <4>2
    <3>2. CASE EndScan
      BY <3>2 DEF EndScan, NoScan
    <3>3. CASE \E u \in Beats : Pass(u)
      BY <1>1, <3>3 DEF Pass, Judged, BeatTyped
    <3>. QED
      BY <1>2, <3>1, <3>2, <3>3
  <2>3. BeatTyped'
    BY <1>1, <2>1, <2>2, JobsAssumption DEF BeatTyped, BeatDoc, StoredIsScanned, parses, firedKey
  <2>. QED
    BY <1>1, <2>1, <2>2, <2>3, MarksKept
<1>3. CASE \E t \in Orgs : ScanTenant(t)
  <2>1. PICK t \in Orgs : ScanTenant(t)
    BY <1>3
  <2>2. UNCHANGED <<beats, fired, pings, time, raised, repeated, forgotten, held, dormant, partial>>
    BY <2>1 DEF ScanTenant
  <2>3. scan' = [on |-> scan.on, todo |-> scan.todo \ {t}, tenant |-> t, at |-> time,
                 docs |-> [u \in {v \in DOMAIN beats : beats[v].tenant = t} |-> beats[u]]]
    BY <1>1, <2>1 DEF ScanTenant, BeatTyped
  <2>4. /\ DOMAIN scan'.docs \subseteq DOMAIN beats
        /\ \A u \in DOMAIN scan'.docs : scan'.docs[u] = beats[u] /\ beats[u].tenant = t
    BY <2>3
  <2>5. BeatTyped'
    BY <1>1, <2>2, <2>3, <2>4 DEF BeatTyped, BeatDoc, StoredIsScanned, parses, firedKey
  <2>. QED
    BY <1>1, <2>2, <2>4, <2>5, MarksKept
<1>4. CASE Clock
  <2>1. /\ UNCHANGED <<beats, fired, scan, pings, raised, repeated, forgotten, held, dormant, partial>>
        /\ time' = time + 1 /\ time < MaxTime /\ MaxTime \in Nat
    BY <1>4, JobsAssumption DEF Clock
  <2>2. /\ time' \in 0..MaxTime /\ scan.at <= time'
        /\ \A u \in DOMAIN beats : beats[u].seen <= time'
    <3>1. \A u \in DOMAIN beats : beats[u].seen \in Int /\ beats[u].seen <= time
      BY <1>1, <2>1 DEF BeatTyped, BeatDoc, Never
    <3>. QED
      BY <1>1, <2>1, <3>1 DEF BeatTyped
  <2>3. BeatTyped'
    BY <1>1, <2>1, <2>2 DEF BeatTyped, BeatDoc, StoredIsScanned, parses, firedKey
  <2>. QED
    BY <1>1, <2>1, <2>3, MarksKept
<1>. QED
  BY <1>2, <1>3, <1>4

(* An alert is raised or rejected: the mark stands for it from then on, and *)
(* a silence it replaces is over.                                           *)
LEMMA FireStep ==
  ASSUME BeatInv, NEW u \in Beats, Fire(u)
  PROVE  BeatInv'
<1>1. BeatTyped /\ time \in Nat
  BY DEF BeatInv, BeatTyped
<1>2. PICK d, k, miss : d = scan.docs[u] /\ k = firedKey(scan.tenant, d.name) /\ miss = <<scan.tenant, d.name, d.seen>>
  OBVIOUS
<1>3. /\ u \in DOMAIN scan.docs /\ parses(d) /\ isOverdue(d, scan.at) /\ markFired(k, d.seen)
      /\ scan' = Judged(u) /\ fired' = [x \in DOMAIN fired \cup {k} |-> IF x = k THEN d.seen ELSE fired[x]]
      /\ \/ raised' = raised \cup {miss} /\ repeated' = repeated \cup ({miss} \cap raised)
         \/ raised' = raised /\ repeated' = repeated
      /\ UNCHANGED <<beats, pings, time, forgotten, held, dormant, partial>>
  BY <1>2 DEF Fire
<1>4. BeatDoc(d) /\ <<k, u>> \in held
  BY <1>1, <1>2, <1>3 DEF BeatTyped
<1>5. /\ scan' = [on |-> scan.on, todo |-> scan.todo, tenant |-> scan.tenant, at |-> scan.at,
                  docs |-> [v \in DOMAIN scan.docs \ {u} |-> scan.docs[v]]]
  BY <1>1, <1>3 DEF Judged, BeatTyped
<1>6. /\ DOMAIN scan'.docs = DOMAIN scan.docs \ {u} /\ scan'.tenant = scan.tenant
      /\ \A v \in DOMAIN scan'.docs : scan'.docs[v] = scan.docs[v]
  BY <1>5
<1>7. BeatTyped'
  BY <1>1, <1>3, <1>5, <1>6 DEF BeatTyped, BeatDoc, StoredIsScanned, parses, firedKey
<1>8. d.seen = Never \/ (d.seen \in Nat /\ d.seen < time)
  <2>1. d.seen \in {Never} \cup 0..MaxTime /\ d.interval \in Int /\ d.grace \in Int /\ scan.at \in Nat /\ scan.at <= time
    BY <1>1, <1>4, JobsAssumption DEF BeatDoc, BeatTyped
  <2>. QED
    BY <1>1, <1>3, <2>1, JobsAssumption DEF isOverdue, window, parses
<1>9. \A q : Shared(q) <=> Shared(q)'
  BY <1>3 DEF Shared
<1>10. ASSUME NEW m \in raised PROVE RaisedMarked(m)'
  <2> DEFINE q == firedKey(m[1], m[2])
             s == m[3]
  <2>1. RaisedMarked(m)
    BY DEF BeatInv
  <2>2. CASE s = Never
    BY <2>2 DEF RaisedMarked
  <2>3. CASE s # Never /\ (q \in forgotten \/ Shared(q))
    BY <1>3, <1>9, <2>1, <2>3 DEF RaisedMarked
  <2>4. CASE s # Never /\ ~ (q \in forgotten \/ Shared(q))
    <3>1. s \in Nat /\ s < time /\ \E v \in Beats : <<q, v>> \in held
      BY <2>1, <2>4 DEF RaisedMarked
    <3>2. ASSUME NEW v \in Beats, <<q, v>> \in held
          PROVE  /\ q \in DOMAIN fired' /\ (fired'[q] = s \/ Ended(v, s)')
                 /\ (v \in DOMAIN beats \cap DOMAIN scan'.docs /\ beats[v].seen = s) => scan'.docs[v].seen = s
      <4>1. /\ q \in DOMAIN fired /\ (fired[q] = s \/ Ended(v, s))
            /\ (v \in DOMAIN beats \cap DOMAIN scan.docs /\ beats[v].seen = s) => scan.docs[v].seen = s
        BY <2>1, <2>4, <3>2 DEF RaisedMarked
      <4>2. Ended(v, s) => Ended(v, s)'
        BY <1>3, <1>6 DEF Ended
      <4>3. CASE q # k
        BY <1>3, <1>6, <4>1, <4>2, <4>3
      <4>4. CASE q = k
        <5>1. v = u
          BY <1>4, <2>4, <3>2, <4>4 DEF Shared
        <5>2. fired'[q] = d.seen /\ q \in DOMAIN fired'
          BY <1>3, <4>4
        <5>3. d.seen # s => Ended(u, s)'
          BY <1>2, <1>3, <1>6, <4>1, <5>1 DEF Ended
        <5>. QED
          BY <1>6, <5>1, <5>2, <5>3
      <4>. QED
        BY <4>3, <4>4
    <3>. QED
      BY <1>3, <3>1, <3>2 DEF RaisedMarked
  <2>. QED
    BY <2>2, <2>3, <2>4
<1>11. RaisedMarked(miss)'
  <2>1. firedKey(miss[1], miss[2]) = k /\ miss[3] = d.seen
    BY <1>2 DEF firedKey
  <2>2. CASE d.seen = Never
    BY <2>1, <2>2 DEF RaisedMarked
  <2>3. CASE d.seen # Never
    <3>1. k \in DOMAIN fired' /\ fired'[k] = d.seen
      BY <1>3
    <3>2. ~ Shared(k) => \A v \in Beats : <<k, v>> \in held => v = u
      BY <1>4 DEF Shared
    <3>. QED
      BY <1>3, <1>4, <1>6, <1>8, <1>9, <2>1, <2>3, <3>1, <3>2 DEF RaisedMarked
  <2>. QED
    BY <2>2, <2>3
<1>12. miss \in raised => d.seen = Never \/ k \in forgotten \/ Shared(k)
  <2> SUFFICES ASSUME miss \in raised, d.seen # Never, k \notin forgotten, ~ Shared(k) PROVE FALSE
    OBVIOUS
  <2>1. RaisedMarked(miss) /\ firedKey(miss[1], miss[2]) = k /\ miss[3] = d.seen
    BY <1>2 DEF BeatInv, firedKey
  <2>2. k \in DOMAIN fired /\ (fired[k] = d.seen \/ Ended(u, d.seen))
    BY <1>4, <2>1 DEF RaisedMarked
  <2>3. fired[k] # d.seen
    BY <1>3, <2>2 DEF markFired
  <2>. QED
    BY <1>2, <1>3, <2>2, <2>3 DEF Ended
<1>13. RaisedOnce'
  <2>1. \A m \in repeated' : m \in repeated \/ (m = miss /\ miss \in raised)
    BY <1>3
  <2>2. firedKey(miss[1], miss[2]) = k /\ miss[3] = d.seen
    BY <1>2 DEF firedKey
  <2>. QED
    BY <1>3, <1>9, <1>12, <2>1, <2>2 DEF BeatInv, RaisedOnce
<1>. QED
  BY <1>3, <1>7, <1>10, <1>11, <1>13 DEF BeatInv

(* Every step, whatever the bodies of the requests.                        *)
LEMMA BeatStep ==
  ASSUME BeatInv, NEW B, \A b \in B : BodyTyped(b), [HeartbeatNext(B)]_heartbeatVars
  PROVE  BeatInv'
<1>1. CASE UNCHANGED heartbeatVars
  <2>1. BeatTyped'
    BY <1>1 DEF heartbeatVars, BeatInv, BeatTyped, BeatDoc, StoredIsScanned, parses, firedKey
  <2>2. time \in Nat
    BY DEF BeatInv, BeatTyped
  <2>. QED
    BY <1>1, <2>1, <2>2, MarksKept DEF heartbeatVars
<1>. QED
  BY <1>1, WriteBeatStep, BeatUpset, PingSteps, QuietScan, FireStep DEF HeartbeatNext, ScanStep, PingStep

(* A ping moves last_seen in its own tenant.                               *)
LEMMA PingHome ==
  ASSUME BeatInv, NEW B, \A b \in B : BodyTyped(b), [HeartbeatNext(B)]_heartbeatVars,
         NEW u \in DOMAIN beats \cap DOMAIN beats', beats'[u].seen # beats[u].seen, beats'[u].seen # Never
  PROVE  \E p \in Pings : pings[p].phase = "touch" /\ pings[p].tenant = beats[u].tenant
<1>1. BeatTyped /\ BeatDoc(beats[u])
  BY DEF BeatInv, BeatTyped
<1>2. CASE \E v \in Beats, t \in Orgs, b \in B, verb \in {"post", "put", "patch"} : WriteBeat(v, t, b, verb)
  <2>1. PICK v \in Beats, t \in Orgs, b \in B, verb \in {"post", "put", "patch"} : WriteBeat(v, t, b, verb)
    BY <1>2
  <2>2. PICK doc : /\ doc = Merge(IF verb # "put" /\ v \in DOMAIN beats THEN beats[v] ELSE Fresh(t), TransformWrite(b))
                   /\ beats' = [w \in DOMAIN beats \cup {v} |-> IF w = v THEN doc ELSE beats[w]]
    BY <2>1 DEF WriteBeat
  <2>3. u = v => doc.seen = Never \/ doc.seen = beats[u].seen
    BY <2>2 DEF Merge, Fresh
  <2>. QED
    BY <2>2, <2>3
<1>3. CASE PostInit
  <2>1. PICK done, order : beats' = [v \in DOMAIN beats |-> IF beats[v].tenant = Default /\ beats[v].name \in done
                                       THEN [beats[v] EXCEPT !.token = minted + order[beats[v].name]] ELSE beats[v]]
    BY <1>3 DEF PostInit
  <2>2. \E k : beats'[u] = [beats[u] EXCEPT !.token = k] \/ beats'[u] = beats[u]
    BY <2>1
  <2>. QED
    BY <1>1, <2>2 DEF BeatDoc
<1>4. CASE \E p \in Pings : touch(p)
  BY <1>4 DEF touch, Named
<1>5. CASE \E v \in Beats : DeleteBeat(v)
  BY <1>5 DEF DeleteBeat
<1>. QED
  BY <1>2, <1>3, <1>4, <1>5 DEF HeartbeatNext, ScanStep, PingStep, Clock, HandleWebhook, clearFired, scanAllTenants,
                                ScanTenant, Pass, Fire, EndScan, SetDormant, ScanFails, heartbeatVars

(* The bodies the instance writes.                                         *)
LEMMA BodiesTyped == \A b \in Bodies : BodyTyped(b)
<1>1. ASSUME NEW n, NEW i \in Int, NEW g \in Int, NEW e, NEW k PROVE BodyTyped(Body(n, i, g, e, k))
  BY DEF Body, BodyTyped
<1>2. Absent \in Int /\ 0 \in Int /\ 1 \in Int
  BY DEF Absent
<1>3. /\ BodyTyped(Body("n", 1, Absent, Absent, Absent)) /\ BodyTyped(Body("n", 1, 1, 1, 1))
      /\ BodyTyped(Body("", 1, Absent, Absent, Absent)) /\ BodyTyped(Body("n", Absent, 1, 1, Absent))
      /\ BodyTyped(Body(Unnamed, Absent, Absent, 0, Absent)) /\ BodyTyped(Body(Unnamed, 0, Absent, Absent, Absent))
  BY <1>1, <1>2, Zenon
<1>. QED
  BY <1>3, Zenon DEF Bodies

--------------------------------------------------------------------------
(* The parts together                                                      *)

(* The steps of each part.                                                 *)
LEMMA PartSteps ==
  ASSUME [Next]_vars
  PROVE  /\ [HousekeeperNext(Docs)]_housekeeperVars /\ [HeartbeatNext(Bodies)]_heartbeatVars
         /\ [CacheNext]_cacheVars /\ [SectionNext]_sectionVars
<1>1. [HousekeeperNext(Docs)]_housekeeperVars
  BY DEF Next, vars, Clean, Beat, Cache, Section, Rows, Count
<1>2. [HeartbeatNext(Bodies)]_heartbeatVars
  BY DEF Next, vars, Clean, Beat, Cache, Section, Rows, Count
<1>3. [CacheNext]_cacheVars
  BY DEF Next, vars, Clean, Beat, Cache, Section, Rows, Count
<1>4. [SectionNext]_sectionVars
  BY DEF Next, vars, Clean, Beat, Cache, Section, Rows, Count
<1>. QED
  BY <1>1, <1>2, <1>3, <1>4

(* A read for a tenant that begins after an edit returned on its server    *)
(* sees it, and on the others once the cache's lifetime has passed,        *)
(* whatever loads, hooks and failing queries overlap; a Set nobody         *)
(* overlaps loses no other key; a send meets a closed channel only when    *)
(* its watcher left in between; and no row breaks the configuration        *)
(* (runtime.go load and Invalidate, settings/plugin.go Set, fanout and     *)
(* Watch).                                                                 *)
THEOREM SettingsKept == Spec => []SettingsHold
<1>1. Init => CacheInv /\ SectionInv
  BY CacheStarts, SectionStarts DEF Init
<1>2. CacheInv /\ SectionInv /\ [Next]_vars => (CacheInv /\ SectionInv)'
  <2> SUFFICES ASSUME CacheInv, SectionInv, [Next]_vars PROVE CacheInv' /\ SectionInv'
    OBVIOUS
  <2>. QED
    BY PartSteps, CacheStep, SectionStep
<1>3. CacheInv /\ SectionInv => SettingsHold
  BY CacheFresh, ShapeKept DEF SectionInv, SettingsHold
<1>. QED
  BY <1>1, <1>2, <1>3, PTL DEF Spec

(* The cleanups and the heartbeats keep their invariants.                  *)
LEMMA JobsInvariant == Spec => [](CleanInv /\ BeatInv)
<1>1. Init => CleanInv /\ BeatInv
  <2> SUFFICES ASSUME Init PROVE BeatInv
    BY CleanStarts
  <2>1. PICK docs \in SomeBeats \cup {<<>>} : InitHeartbeat(docs)
    BY DEF Init
  <2>. QED
    BY <2>1, BeatStarts
<1>2. CleanInv /\ BeatInv /\ [Next]_vars => (CleanInv /\ BeatInv)'
  BY PartSteps, CleanStep, BeatStep, BodiesTyped
<1>. QED
  BY <1>1, <1>2, PTL DEF Spec

(* Every stored heartbeat can be scanned, whatever sequence of writes led  *)
(* to it, unless it was created or replaced by a body without a name; and  *)
(* while its name is its own the scanner raises a silence at most once     *)
(* unless a ping or a restart made it forget (heartbeat/schema.go          *)
(* Validate, scan.go ScanTenant and markFired).                            *)
THEOREM HeartbeatsKept == Spec => []HeartbeatsHold
<1>1. CleanInv /\ BeatInv => HeartbeatsHold
  BY DEF CleanInv, HousekeeperInv, BeatInv, BeatTyped, BeatDoc, HeartbeatsHold, TypeOK, HeartbeatTypeOK, StoredIsScanned
<1>. QED
  BY <1>1, JobsInvariant, PTL

(* Every row a cleanup deletes, on any of the three backends, is worth     *)
(* nothing (a comment of no record included, on SQL, once its tenant has   *)
(* none) and of the tenant the pass is at, unless someone wrote between    *)
(* the scan and the delete; and a ping touches heartbeats of its own       *)
(* tenant only (cleanup.go of the drivers, housekeeper/tenant.go           *)
(* ForEachTenant, heartbeat/plugin.go HandleWebhook and touch).            *)
THEOREM StepsSpare == Spec => StepsSpareOthers
<1> DEFINE A == ByJob => \A u \in JobDeletes :
                   \/ Useless(u)
                   \/ /\ pass.phase = "delete" /\ touched # {}
                      /\ job \in {"timeout", "expired"} => u \in touched
           B == (ByJob /\ job # "aggregate") =>
                   \A u \in JobDeletes : rows[u].tenant = pass'.tenant /\ rows[u].tenant \notin pass.skipped
           C == \A u \in DOMAIN beats \cap DOMAIN beats' :
                   (beats'[u].seen # beats[u].seen /\ beats'[u].seen # Never) =>
                       \E p \in Pings : pings[p].phase = "touch" /\ pings[p].tenant = beats[u].tenant
<1>1. CleanInv /\ BeatInv /\ [Next]_vars => A /\ B /\ C
  <2> SUFFICES ASSUME CleanInv, BeatInv, [Next]_vars PROVE A /\ B /\ C
    OBVIOUS
  <2>1. A /\ B
    BY PartSteps, CleanDeletes
  <2>2. C
    BY PartSteps, BodiesTyped, PingHome
  <2>. QED
    BY <2>1, <2>2
<1>2. CleanInv /\ BeatInv /\ [Next]_vars => [A]_housekeeperVars /\ [B]_housekeeperVars /\ [C]_heartbeatVars
  BY <1>1
<1>3. StepsSpareOthers <=> [][A]_housekeeperVars /\ [][B]_housekeeperVars /\ [][C]_heartbeatVars
  BY DEF StepsSpareOthers, OnlyUselessDeleted, OtherTenantsKept, PingStaysHome
<1> HIDE DEF A, B, C
<1>. QED
  BY <1>2, <1>3, JobsInvariant, PTL DEF Spec

=============================================================================

------------------------------- MODULE Syncer -------------------------------
(***************************************************************************)
(* internal/syncer over the in-process bus of the SQLite driver: how a     *)
(* change of a configuration collection reaches the cache of a plugin.     *)
(*                                                                         *)
(* The plugin is `notification', the one with a reload dependency: it      *)
(* caches the `notification' and the `action' collection of every tenant.  *)
(* A writer commits and then publishes on the bus; one forwarder per       *)
(* subscription moves events to the merged channel; the dispatch loop      *)
(* debounces them and reloads every tenant it saw, each reload in a        *)
(* goroutine of its own that is abandoned when it runs late.               *)
(*                                                                         *)
(* A collection of one tenant is the number of commits to it.  An event is *)
(* its tenant: the dispatch loop uses nothing else, and collects tenants   *)
(* in a set, so a channel is the number of events it holds per tenant.     *)
(* Nobody publishes on the third topic, plugin.notification.               *)
(***************************************************************************)
EXTENDS Integers, FiniteSets, Functions, TLC

CONSTANTS
  Tenants,
  Writers,      \* goroutines that commit to a collection and publish
  Calls,        \* goroutines that run plug.Reload
  Lookers,      \* pipeline goroutines inside lookupAction
  SubCap,       \* buffer of a subscription (subscriberBuffer, 64)
  MergedCap,    \* buffer of the merged channel (64)
  MaxWrites,    \* bound: commits
  MaxLate,      \* bound: reloads that run past ReloadTimeout
  MaxFails,     \* bound: reloads whose query fails
  MaxLookups,   \* bound: cache misses in lookupAction
  None

Colls  == {"notification", "action"}
Opt(S) == S \cup {None}

\* A reload: its tenant, whether it has run past its timeout, what it has read.
Reloads == [tenant : Tenants, late : BOOLEAN, seen : [Colls -> Opt(Nat)]]

ASSUME CapAssumption   == SubCap \in Nat \ {0} /\ MergedCap \in Nat \ {0}
ASSUME BoundAssumption == /\ MaxWrites \in Nat /\ MaxLate \in Nat
                          /\ MaxFails \in Nat /\ MaxLookups \in Nat
ASSUME NoneAssumption  ==
  None \notin Tenants \cup Calls \cup Nat \cup (Colls \X Tenants) \cup Reloads

VARIABLES
  stored,       \* collection -> tenant -> commits
  cache,        \* collection -> tenant -> the commit the plugin has loaded
  publishing,   \* writer -> the change it committed and has not published
  sub,          \* collection -> its subscription on the bus
  queue,        \* collection -> tenant -> events in the subscription
  held,         \* collection -> the event its forwarder is sending on
  ended,        \* collection -> its forwarder has returned
  merged,       \* tenant -> events in the merged channel
  loop,         \* where runPlugin / dispatchLoop is
  pending,      \* tenants seen in the open debounce window
  todo,         \* tenants of the closed window still to be reloaded
  current,      \* the reload the loop waits for
  call,         \* reload goroutine -> its tenant and what it has read
  looking,      \* pipeline goroutine -> the actions it has loaded
  ctxDone,      \* the context of Run is cancelled
  writes, lates, fails, lookups,   \* history: bounded counters
  missed        \* history: tenant -> why its cache may stay behind

storeVars == <<stored, cache>>
busVars   == <<publishing, sub, queue>>
fwdVars   == <<held, ended, merged>>
loopVars  == <<loop, pending, todo, current>>
counters  == <<writes, lates, fails, lookups>>
vars      == <<storeVars, busVars, fwdVars, loopVars, call, looking, ctxDone, counters, missed>>

Versions == [Colls -> [Tenants -> Nat]]
Causes   == {"early", "dropped", "failed", "late", "lookup", "silent"}

TypeOK ==
  /\ stored \in Versions /\ cache \in Versions
  /\ publishing \in [Writers -> Opt(Colls \X Tenants)]
  /\ sub \in [Colls -> {"none", "open", "closed"}]
  /\ queue \in Versions
  /\ held \in [Colls -> Opt(Tenants)]
  /\ ended \in [Colls -> BOOLEAN]
  /\ merged \in [Tenants -> Nat]
  /\ loop \in {"subscribe", "select", "reload", "stopped"}
  /\ pending \in SUBSET Tenants /\ todo \in SUBSET Tenants
  /\ current \in Opt(Calls)
  /\ call \in [Calls -> Opt(Reloads)]
  /\ looking \in [Lookers -> Opt([tenant : Tenants, seen : Nat])]
  /\ ctxDone \in BOOLEAN
  /\ writes \in Nat /\ lates \in Nat /\ fails \in Nat /\ lookups \in Nat
  /\ missed \in [Tenants -> SUBSET Causes]

\* bootPlugins has loaded every tenant; Run has not subscribed yet.
Init ==
  /\ stored = [c \in Colls |-> [t \in Tenants |-> 0]]
  /\ cache = stored
  /\ publishing = [w \in Writers |-> None]
  /\ sub = [c \in Colls |-> "none"]
  /\ queue = [c \in Colls |-> [t \in Tenants |-> 0]]
  /\ held = [c \in Colls |-> None]
  /\ ended = [c \in Colls |-> FALSE]
  /\ merged = [t \in Tenants |-> 0]
  /\ loop = "subscribe" /\ pending = {} /\ todo = {} /\ current = None
  /\ call = [g \in Calls |-> None]
  /\ looking = [l \in Lookers |-> None]
  /\ ctxDone = FALSE
  /\ writes = 0 /\ lates = 0 /\ fails = 0 /\ lookups = 0
  /\ missed = [t \in Tenants |-> {}]

Missing(t, cause) == missed' = [missed EXCEPT ![t] = @ \cup {cause}]

-----------------------------------------------------------------------------
(* The driver: a committed transaction, then publishMutation.              *)

Commit(w, c, t) ==
  /\ publishing[w] = None
  /\ writes < MaxWrites
  /\ writes' = writes + 1
  /\ stored' = [stored EXCEPT ![c][t] = @ + 1]
  /\ publishing' = [publishing EXCEPT ![w] = <<c, t>>]
  /\ UNCHANGED <<cache, sub, queue, fwdVars, loopVars, call, looking, ctxDone,
                 lates, fails, lookups, missed>>

\* A change no event tells the tenant's caches of: the SQL cleanups of expired
\* notifications delete without publishing, and a write in platform scope is
\* published with an empty tenant, for which Reload returns at once.
CommitSilently(c, t) ==
  /\ writes < MaxWrites
  /\ writes' = writes + 1
  /\ stored' = [stored EXCEPT ![c][t] = @ + 1]
  /\ Missing(t, "silent")
  /\ UNCHANGED <<cache, busVars, fwdVars, loopVars, call, looking, ctxDone, lates, fails, lookups>>

\* The subscription takes the event ...
Deliver(w, c, t) ==
  /\ publishing[w] = <<c, t>>
  /\ sub[c] = "open"
  /\ SumFunction(queue[c]) < SubCap
  /\ queue' = [queue EXCEPT ![c][t] = @ + 1]
  /\ publishing' = [publishing EXCEPT ![w] = None]
  /\ UNCHANGED <<storeVars, sub, fwdVars, loopVars, call, looking, ctxDone, counters, missed>>

\* ... drops it when its buffer is full, which loses something only if no
\* other event of the tenant is in the buffer ...
Drop(w, c, t) ==
  /\ publishing[w] = <<c, t>>
  /\ sub[c] = "open"
  /\ SumFunction(queue[c]) >= SubCap
  /\ IF queue[c][t] = 0 THEN Missing(t, "dropped") ELSE UNCHANGED missed
  /\ publishing' = [publishing EXCEPT ![w] = None]
  /\ UNCHANGED <<storeVars, sub, queue, fwdVars, loopVars, call, looking, ctxDone, counters>>

\* ... or is not on the bus: not yet, or not any more.
PublishUnheard(w, c, t) ==
  /\ publishing[w] = <<c, t>>
  /\ sub[c] # "open"
  /\ Missing(t, "early")
  /\ publishing' = [publishing EXCEPT ![w] = None]
  /\ UNCHANGED <<storeVars, sub, queue, fwdVars, loopVars, call, looking, ctxDone, counters>>

-----------------------------------------------------------------------------
(* runPlugin: the subscriptions and their forwarders.                      *)

\* The plugin's own topic first, then its dependency's.
Subscribe(c) ==
  /\ loop = "subscribe"
  /\ sub[c] = "none"
  /\ c = "action" => sub["notification"] # "none"
  /\ sub' = [sub EXCEPT ![c] = "open"]
  /\ loop' = IF c = "action" THEN "select" ELSE loop
  /\ UNCHANGED <<storeVars, publishing, queue, fwdVars, pending, todo, current, call, looking,
                 ctxDone, counters, missed>>

\* Mutant: the forwarder takes an event and sends nothing.
ForwardNothing(c, t) ==
  /\ ~ended[c] /\ held[c] = None
  /\ queue[c][t] > 0
  /\ queue' = [queue EXCEPT ![c][t] = @ - 1]
  /\ UNCHANGED <<storeVars, publishing, sub, held, ended, merged, loopVars, call, looking, ctxDone,
                 counters, missed>>

\* Mutant: the forwarder does not ask whether the channel is closed, and sends
\* the empty event it reads from it.
ForwardEmptyEvent(c, t) ==
  /\ ~ended[c] /\ held[c] = None
  /\ \/ queue[c][t] > 0 /\ queue' = [queue EXCEPT ![c][t] = @ - 1] /\ held' = [held EXCEPT ![c] = t]
     \/ sub[c] = "closed" /\ queue[c][t] = 0 /\ held' = [held EXCEPT ![c] = ""] /\ UNCHANGED queue
  /\ UNCHANGED <<storeVars, publishing, sub, ended, merged, loopVars, call, looking, ctxDone,
                 counters, missed>>

Forward(c, t) ==
  /\ ~ended[c] /\ held[c] = None
  /\ queue[c][t] > 0
  /\ queue' = [queue EXCEPT ![c][t] = @ - 1]
  /\ held' = [held EXCEPT ![c] = t]
  /\ UNCHANGED <<storeVars, publishing, sub, ended, merged, loopVars, call, looking, ctxDone,
                 counters, missed>>

SendMerged(c) ==
  /\ ~ended[c] /\ held[c] # None
  /\ SumFunction(merged) < MergedCap
  /\ merged' = [merged EXCEPT ![held[c]] = @ + 1]
  /\ held' = [held EXCEPT ![c] = None]
  /\ UNCHANGED <<storeVars, busVars, ended, loopVars, call, looking, ctxDone, counters, missed>>

\* Mutant: the send to the merged channel does not watch ctx.Done.
ForwarderEndsIdle(c) ==
  /\ sub[c] # "none" /\ ~ended[c] /\ held[c] = None
  /\ ctxDone
  /\ ended' = [ended EXCEPT ![c] = TRUE]
  /\ UNCHANGED <<storeVars, busVars, held, merged, loopVars, call, looking, ctxDone, counters, missed>>

\* ctx.Done in either select, or the closed subscription is drained.
ForwarderEnds(c) ==
  /\ sub[c] # "none" /\ ~ended[c]
  /\ \/ ctxDone
     \/ sub[c] = "closed" /\ held[c] = None /\ \A t \in Tenants : queue[c][t] = 0
  /\ ended' = [ended EXCEPT ![c] = TRUE]
  /\ held' = [held EXCEPT ![c] = None]
  /\ UNCHANGED <<storeVars, busVars, merged, loopVars, call, looking, ctxDone, counters, missed>>

\* The bus closes a subscription whose context is done.
Unsubscribe(c) ==
  /\ sub[c] = "open" /\ ctxDone
  /\ sub' = [sub EXCEPT ![c] = "closed"]
  /\ UNCHANGED <<storeVars, publishing, queue, fwdVars, loopVars, call, looking, ctxDone,
                 counters, missed>>

-----------------------------------------------------------------------------
(* dispatchLoop.  The debounce timer runs exactly while `pending' is not   *)
(* empty, and every event starts it again.                                 *)

\* Mutant: the window remembers only the last tenant.
ReceiveLastTenant(t) ==
  /\ loop = "select"
  /\ merged[t] > 0
  /\ merged' = [merged EXCEPT ![t] = @ - 1]
  /\ pending' = {t}
  /\ UNCHANGED <<storeVars, busVars, held, ended, loop, todo, current, call, looking, ctxDone,
                 counters, missed>>

Receive(t) ==
  /\ loop = "select"
  /\ merged[t] > 0
  /\ merged' = [merged EXCEPT ![t] = @ - 1]
  /\ pending' = pending \cup {t}
  /\ UNCHANGED <<storeVars, busVars, held, ended, loop, todo, current, call, looking, ctxDone,
                 counters, missed>>

\* The debounce timer fires.
WindowCloses ==
  /\ loop = "select"
  /\ pending # {}
  /\ todo' = pending
  /\ pending' = {}
  /\ loop' = "reload"
  /\ UNCHANGED <<storeVars, busVars, fwdVars, current, call, looking, ctxDone, counters, missed>>

\* reloadBounded: the next tenant of the window, in no particular order.
StartReload(t, g) ==
  /\ loop = "reload" /\ current = None
  /\ t \in todo
  /\ call[g] = None
  /\ ~ctxDone
  /\ todo' = todo \ {t}
  /\ current' = g
  /\ call' = [call EXCEPT ![g] = [tenant |-> t, late |-> FALSE, seen |-> [c \in Colls |-> None]]]
  /\ UNCHANGED <<storeVars, busVars, fwdVars, loop, pending, looking, ctxDone, counters, missed>>

\* Under a cancelled context the queries of a reload fail at once.
SkipReload(t) ==
  /\ loop = "reload" /\ current = None
  /\ t \in todo
  /\ ctxDone
  /\ todo' = todo \ {t}
  /\ UNCHANGED <<storeVars, busVars, fwdVars, loop, pending, current, call, looking, ctxDone,
                 counters, missed>>

\* Mutant: reloadBounded waits for its reload without a timeout.
AbandonAtShutdown ==
  /\ current # None
  /\ ctxDone
  /\ Missing(call[current].tenant, "late")
  /\ current' = None
  /\ UNCHANGED <<storeVars, busVars, fwdVars, loop, pending, todo, call, looking, ctxDone, counters>>

\* rctx is done, by its timeout or with the parent: the loop goes on, the
\* goroutine stays.
Abandon ==
  /\ current # None
  /\ call[current].late \/ ctxDone
  /\ Missing(call[current].tenant, "late")
  /\ current' = None
  /\ UNCHANGED <<storeVars, busVars, fwdVars, loop, pending, todo, call, looking, ctxDone, counters>>

ReloadsDone ==
  /\ loop = "reload" /\ current = None
  /\ todo = {}
  /\ loop' = "select"
  /\ UNCHANGED <<storeVars, busVars, fwdVars, pending, todo, current, call, looking, ctxDone,
                 counters, missed>>

\* ctx.Done, or the merged channel is closed and empty.
DispatchEnds ==
  /\ loop = "select"
  /\ \/ ctxDone
     \/ (\A c \in Colls : ended[c]) /\ (\A t \in Tenants : merged[t] = 0)
  /\ loop' = "stopped"
  /\ UNCHANGED <<storeVars, busVars, fwdVars, pending, todo, current, call, looking, ctxDone,
                 counters, missed>>

-----------------------------------------------------------------------------
(* notification.Reload, in its goroutine: loadEntries, loadActions, then   *)
(* both caches under the lock.                                             *)

\* Once its context is done a reload starts no query; the second one may
\* already be running then, and return its rows.
ReadCollection(g, c) ==
  /\ call[g] # None
  /\ call[g].seen[c] = None
  /\ c = "notification" => g = current /\ ~call[g].late /\ ~ctxDone
  /\ c = "action" => call[g].seen["notification"] # None
  /\ call' = [call EXCEPT ![g].seen[c] = stored[c][call[g].tenant]]
  /\ UNCHANGED <<storeVars, busVars, fwdVars, loopVars, looking, ctxDone, counters, missed>>

\* Returning from the goroutine: the loop goes on if it was waiting for it.
Finish(g) ==
  /\ call' = [call EXCEPT ![g] = None]
  /\ current' = IF current = g THEN None ELSE current

Current(g) == \A c \in Colls : call[g].seen[c] = stored[c][call[g].tenant]

\* A reload the loop waited for and that read the newest commits makes up
\* for what was missed; an abandoned one may bring old commits back.
StoreReload(g) ==
  /\ call[g] # None
  /\ \A c \in Colls : call[g].seen[c] # None
  /\ LET t == call[g].tenant IN
     /\ cache' = [c \in Colls |-> [cache[c] EXCEPT ![t] = call[g].seen[c]]]
     /\ missed' = [missed EXCEPT ![t] =
                     IF Current(g) THEN (IF g = current THEN {} ELSE @)
                     ELSE (IF g = current THEN @ ELSE @ \cup {"late"})]
  /\ Finish(g)
  /\ UNCHANGED <<stored, busVars, fwdVars, loop, pending, todo, looking, ctxDone, counters>>

\* A query fails: the caches are kept, the error is logged, nobody retries.
ReloadFails(g) ==
  /\ call[g] # None /\ g = current
  /\ \E c \in Colls : call[g].seen[c] = None
  /\ fails < MaxFails
  /\ fails' = fails + 1
  /\ Missing(call[g].tenant, "failed")
  /\ Finish(g)
  /\ UNCHANGED <<storeVars, busVars, fwdVars, loop, pending, todo, looking, ctxDone,
                 writes, lates, lookups>>

\* An abandoned reload notices that its context is cancelled.
Unwind(g) ==
  /\ call[g] # None /\ g # current
  /\ \E c \in Colls : call[g].seen[c] = None
  /\ Finish(g)
  /\ UNCHANGED <<storeVars, busVars, fwdVars, loop, pending, todo, looking, ctxDone, counters, missed>>

\* ReloadTimeout passes.
RunLate(g) ==
  /\ call[g] # None /\ g = current
  /\ ~call[g].late
  /\ lates < MaxLate
  /\ lates' = lates + 1
  /\ call' = [call EXCEPT ![g].late = TRUE]
  /\ UNCHANGED <<storeVars, busVars, fwdVars, loopVars, looking, ctxDone, writes, fails, lookups,
                 missed>>

-----------------------------------------------------------------------------
(* notification.lookupAction: on a miss the pipeline goroutine loads the   *)
(* actions itself and puts them in the cache.                              *)

LookupMiss(l, t) ==
  /\ looking[l] = None
  /\ lookups < MaxLookups
  /\ lookups' = lookups + 1
  /\ looking' = [looking EXCEPT ![l] = [tenant |-> t, seen |-> stored["action"][t]]]
  /\ UNCHANGED <<storeVars, busVars, fwdVars, loopVars, call, ctxDone, writes, lates, fails, missed>>

LookupStore(l) ==
  /\ looking[l] # None
  /\ LET t == looking[l].tenant IN
     /\ cache' = [cache EXCEPT !["action"][t] = looking[l].seen]
     /\ IF looking[l].seen = stored["action"][t] THEN UNCHANGED missed ELSE Missing(t, "lookup")
  /\ looking' = [looking EXCEPT ![l] = None]
  /\ UNCHANGED <<stored, busVars, fwdVars, loopVars, call, ctxDone, counters>>

\* SIGTERM.
Shutdown ==
  /\ ~ctxDone
  /\ ctxDone' = TRUE
  /\ UNCHANGED <<storeVars, busVars, fwdVars, loopVars, call, looking, counters, missed>>

-----------------------------------------------------------------------------
Publish(w) ==
  \E c \in Colls, t \in Tenants : Deliver(w, c, t) \/ Drop(w, c, t) \/ PublishUnheard(w, c, t)

Reload(g) == (\E c \in Colls : ReadCollection(g, c)) \/ StoreReload(g)

Dispatch ==
  \/ \E t \in Tenants : SkipReload(t) \/ \E g \in Calls : StartReload(t, g)
  \/ ReloadsDone

Next ==
  \/ \E w \in Writers : Publish(w) \/ \E c \in Colls, t \in Tenants : Commit(w, c, t)
  \/ \E c \in Colls : \/ Subscribe(c) \/ SendMerged(c) \/ ForwarderEnds(c) \/ Unsubscribe(c)
                      \/ \E t \in Tenants : Forward(c, t)
  \/ \E c \in Colls, t \in Tenants : CommitSilently(c, t)
  \/ \E t \in Tenants : Receive(t)
  \/ WindowCloses \/ Dispatch \/ Abandon \/ DispatchEnds
  \/ \E g \in Calls : Reload(g) \/ ReloadFails(g) \/ Unwind(g) \/ RunLate(g)
  \/ \E l \in Lookers : LookupStore(l) \/ \E t \in Tenants : LookupMiss(l, t)
  \/ Shutdown

Spec == Init /\ [][Next]_vars

(* Goroutines that can run do run, and timers fire.  A reload that has run *)
(* late is owed nothing: its query may hang for good.                      *)
Fairness ==
  /\ \A w \in Writers : WF_vars(Publish(w))
  /\ \A c \in Colls : /\ WF_vars(Subscribe(c)) /\ WF_vars(SendMerged(c))
                      /\ WF_vars(ForwarderEnds(c)) /\ WF_vars(Unsubscribe(c))
                      /\ \A t \in Tenants : WF_vars(Forward(c, t))
  /\ \A t \in Tenants : WF_vars(Receive(t))
  /\ WF_vars(WindowCloses) /\ WF_vars(Dispatch) /\ WF_vars(Abandon) /\ SF_vars(DispatchEnds)
  /\ \A g \in Calls : WF_vars(Reload(g) /\ ~call[g].late)

FairSpec == Spec /\ Fairness

-----------------------------------------------------------------------------
(* Properties.                                                             *)

\* A change of collection c for tenant t is on its way to the plugin.
InFlight(c, t) ==
  \/ \E w \in Writers : publishing[w] = <<c, t>>
  \/ queue[c][t] > 0 \/ held[c] = t \/ merged[t] > 0
  \/ t \in pending \/ t \in todo

\* The reload the loop waits for will load it.
BeingLoaded(c, t) ==
  /\ current # None
  /\ call[current].tenant = t
  /\ call[current].seen[c] \in {None, stored[c][t]}

(* No change is forgotten: while the server runs, a cache that is behind   *)
(* its collection has an event, a debounced window or a reload on the way, *)
(* for that tenant, whatever was coalesced, dropped as a duplicate or      *)
(* committed in the middle of a reload; or the change was missed in one of *)
(* the ways the syncer does not make up for.                               *)
NothingForgotten ==
  ~ctxDone => \A c \in Colls, t \in Tenants :
                cache[c][t] = stored[c][t] \/ InFlight(c, t) \/ BeingLoaded(c, t)
                \/ missed[t] # {}

(* A cache that is behind catches up, or the change was missed.            *)
EventuallyFresh ==
  \A c \in Colls, t \in Tenants :
     cache[c][t] # stored[c][t] ~> cache[c][t] = stored[c][t] \/ missed[t] # {} \/ ctxDone

(* A reload that hangs "can stall the loop for at most ReloadTimeout       *)
(* instead of forever".                                                    *)
LoopComesBack == loop = "reload" ~> loop # "reload"

(* Shutdown: the dispatch loop and every forwarder return, also with the   *)
(* merged channel full and a reload hanging.                               *)
ShutdownCompletes == ctxDone ~> loop = "stopped" /\ \A c \in Colls : ended[c]

(* A change reaches the cache, and a reload that hangs does not keep the   *)
(* loop from the next one (runPlugin, reload).                             *)
SyncerProgresses == EventuallyFresh /\ LoopComesBack

\* For TLC: tenants, writers and reload goroutines are interchangeable.
Symmetry == Permutations(Tenants) \cup Permutations(Writers) \cup Permutations(Calls)
=============================================================================

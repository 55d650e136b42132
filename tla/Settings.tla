------------------------------ MODULE Settings ------------------------------
(***************************************************************************)
(* Settings that can be edited while the servers run.                      *)
(*                                                                         *)
(* config/runtime.go reads the settings collection through a cache, one    *)
(* partition for each tenant, that the CRUD hooks of the settings plugin   *)
(* drop on the server that made an edit; another server sees it when its   *)
(* partition expires.  The rows of a tenant are abstracted to a version.   *)
(* pluginimpl/settings also keeps sections of values, written by a read    *)
(* and an upsert and announced to subscribers.                             *)
(***************************************************************************)
EXTENDS Integers, Sequences, FiniteSets, TLC

CONSTANTS Servers, Customers,
          Readers,       \* goroutines <<n, the server it runs on>>
          TTL, Horizon, MaxSaves,
          Writers, Keys, Watchers, ChannelSize

\* NewRuntimeSettings replaces a lifetime that is not positive by its default.
ASSUME SettingsAssumption ==
    /\ Readers \subseteq Nat \X Servers
    /\ TTL \in Nat \ {0} /\ Horizon \in Nat /\ MaxSaves \in Nat

NoTenant == ""

--------------------------------------------------------------------------
(* Overrides: a stored value <<type, v>> laid over the baseline            *)

Unset == <<"unset", 0>>

asBool(v) ==
    CASE v[1] = "bool" -> v
      [] v[1] = "str" /\ v[2] \in {"true", "1", "yes", "on"} -> <<"bool", TRUE>>
      [] v[1] = "str" /\ v[2] \in {"false", "0", "no", "off"} -> <<"bool", FALSE>>
      [] OTHER -> Unset

asString(v) == IF v[1] = "str" THEN v ELSE Unset

Digits == [s \in {"0", "1", "7"} |-> IF s = "0" THEN 0 ELSE IF s = "1" THEN 1 ELSE 7]

asInt(v) ==
    CASE v[1] = "num" -> v
      [] v[1] = "str" /\ v[2] \in DOMAIN Digits -> <<"num", Digits[v[2]]>>
      [] OTHER -> Unset

\* A string of several words is the list of them.
Words(s) == IF s = "" THEN <<>> ELSE IF s = "a b" THEN <<"a", "b">> ELSE <<s>>

asStringSlice(v) ==
    CASE v[1] = "list" -> <<"list", SelectSeq(v[2], LAMBDA e : e # "")>>
      [] v[1] = "str" /\ Words(v[2]) # <<>> -> <<"list", Words(v[2])>>
      [] OTHER -> Unset

\* A duration is a number of seconds, or a string with its unit; one that
\* cannot be read leaves what is there.
Durations == [s \in {"5m", "-1s"} |-> IF s = "5m" THEN 300 ELSE -1]

overlayDuration(v) ==
    CASE v[1] = "num" -> v
      [] v[1] = "str" /\ v[2] \in DOMAIN Durations -> <<"num", Durations[v[2]]>>
      [] OTHER -> Unset

Over(base, v) == IF v = Unset THEN base ELSE v
Row(values, key) == IF key \in DOMAIN values THEN values[key] ELSE Unset

applyLDAPOverrides(out, values) ==
    [k \in DOMAIN out |->
        LET v == Row(values, <<"ldap", k>>)
        IN  CASE k = "enabled" -> Over(out[k], asBool(v))
              [] k = "port" -> Over(out[k], asInt(v))
              [] OTHER -> Over(out[k], asString(v))]

\* The secret and the method stay those of the file.
applyOIDCOverrides(out, values) ==
    [k \in DOMAIN out |->
        LET v == Row(values, <<"oidc", k>>)
        IN  CASE k = "enabled" -> Over(out[k], asBool(v))
              [] k = "scopes" -> Over(out[k], asStringSlice(v))
              [] k \in {"issuer", "client_id", "redirect_url", "roles_claim", "groups_claim"} -> Over(out[k], asString(v))
              [] OTHER -> out[k]]

applyHousekeeperOverrides(out, values) ==
    [k \in DOMAIN out |->
        LET v == Row(values, <<"housekeeping", k>>)
        IN  IF k = "trigger_on_startup" THEN Over(out[k], asBool(v)) ELSE Over(out[k], overlayDuration(v))]

anyInterval(snap, k, fallback) == IF snap[k][2] # 0 THEN snap[k][2] ELSE fallback

\* The rows a load folds: those of the tenant its context carries, and none
\* when it carries no tenant, as the jobs' contexts do.
loaded(tenant, values) == IF tenant = NoTenant THEN <<>> ELSE values

\* bootHousekeeper: the interval of a job, its default when the setting is
\* not positive.
liveInterval(snap, k, fallback) == IF snap[k][2] > 0 THEN snap[k][2] ELSE fallback

--------------------------------------------------------------------------
(* The cache                                                               *)

VARIABLES stored,     \* version of the tenant's rows in the database
          left,       \* instant at which a version was superseded
          partitions, \* of each server: tenant -> [version, expiresAt]
          lock,       \* holder of each server's RuntimeSettings.mu
          readers, saver, clock
cacheVars == <<stored, left, partitions, lock, readers, saver, clock>>

Free == <<>>
Resting == [phase |-> "rest", tenant |-> NoTenant, floor |-> 0, since |-> 0, got |-> 0]
NoSave == [phase |-> "rest", server |-> NoTenant, tenant |-> NoTenant, done |-> [s \in Servers |-> [c \in Customers |-> 0]]]

Hit(s, c) == c \in DOMAIN partitions[s] /\ clock < partitions[s][c].expiresAt

InitCache ==
    /\ stored = [c \in Customers |-> 0] /\ left = [c \in Customers |-> <<>>]
    /\ partitions = [s \in Servers |-> <<>>] /\ lock = [s \in Servers |-> Free]
    /\ readers = [r \in Readers |-> Resting] /\ saver = NoSave /\ clock = 0

\* A read begins: an edit that returned on this server, or any edit older
\* than the cache's lifetime, may no longer be missed.
BeginLoad(r, c) ==
    /\ readers[r].phase = "rest"
    /\ readers' = [readers EXCEPT ![r] = [phase |-> "fast", tenant |-> c, floor |-> saver.done[r[2]][c], since |-> clock, got |-> 0]]
    /\ UNCHANGED <<stored, left, partitions, lock, saver, clock>>

\* Without a tenant the baseline is returned at once, no lock taken.
LoadNoTenant(r) ==
    /\ readers[r].phase = "rest"
    /\ readers' = [readers EXCEPT ![r] = [Resting EXCEPT !.phase = "baseline"]]
    /\ UNCHANGED <<stored, left, partitions, lock, saver, clock>>

Return(r, version) == [readers EXCEPT ![r] = [@ EXCEPT !.phase = "done", !.got = version]]

\* The fast path, under the read lock: no writer holds it.
LoadFast(r) ==
    LET s == r[2] c == readers[r].tenant IN
    /\ readers[r].phase = "fast" /\ lock[s] = Free
    /\ readers' = IF Hit(s, c) THEN Return(r, partitions[s][c].version) ELSE [readers EXCEPT ![r].phase = "slow"]
    /\ UNCHANGED <<stored, left, partitions, lock, saver, clock>>

LoadLock(r) ==
    LET s == r[2] c == readers[r].tenant IN
    /\ readers[r].phase = "slow" /\ lock[s] = Free
    /\ IF Hit(s, c) THEN readers' = Return(r, partitions[s][c].version) /\ UNCHANGED lock
       ELSE readers' = [readers EXCEPT ![r].phase = "read"] /\ lock' = [lock EXCEPT ![s] = r]
    /\ UNCHANGED <<stored, left, partitions, saver, clock>>

\* readAll, the lock held; or it fails and nothing is cached.
LoadRead(r) ==
    LET s == r[2] c == readers[r].tenant IN
    /\ readers[r].phase = "read"
    /\ \/ readers' = [readers EXCEPT ![r].phase = "store", ![r].got = stored[c]] /\ UNCHANGED lock
       \/ readers' = [readers EXCEPT ![r] = Resting] /\ lock' = [lock EXCEPT ![s] = Free]
    /\ UNCHANGED <<stored, left, partitions, saver, clock>>

LoadStore(r) ==
    LET s == r[2]
        c == readers[r].tenant
        entry == [version |-> readers[r].got, expiresAt |-> clock + TTL]
    IN
    /\ readers[r].phase = "store"
    /\ partitions' = [partitions EXCEPT ![s] = [d \in DOMAIN @ \cup {c} |-> IF d = c THEN entry ELSE @[d]]]
    /\ readers' = Return(r, readers[r].got) /\ lock' = [lock EXCEPT ![s] = Free]
    /\ UNCHANGED <<stored, left, saver, clock>>

EndLoad(r) ==
    /\ readers[r].phase \in {"done", "baseline"} /\ readers' = [readers EXCEPT ![r] = Resting]
    /\ UNCHANGED <<stored, left, partitions, lock, saver, clock>>

\* An edit through the settings routes of a server: the row is written, then
\* the hook drops every partition of that server.
SaveRow(s, c) ==
    /\ saver.phase = "rest" /\ stored[c] < MaxSaves
    /\ stored' = [stored EXCEPT ![c] = @ + 1] /\ left' = [left EXCEPT ![c] = Append(@, clock)]
    /\ saver' = [saver EXCEPT !.phase = "hook", !.server = s, !.tenant = c]
    /\ UNCHANGED <<partitions, lock, readers, clock>>

invalidateNothing ==
    /\ saver.phase = "hook" /\ lock[saver.server] = Free
    /\ saver' = [saver EXCEPT !.phase = "rest", !.done[saver.server][saver.tenant] = stored[saver.tenant]]
    /\ UNCHANGED <<stored, left, partitions, lock, readers, clock>>

invalidateRuntime ==
    /\ saver.phase = "hook" /\ lock[saver.server] = Free
    /\ partitions' = [partitions EXCEPT ![saver.server] = <<>>]
    /\ saver' = [saver EXCEPT !.phase = "rest", !.done[saver.server][saver.tenant] = stored[saver.tenant]]
    /\ UNCHANGED <<stored, left, lock, readers, clock>>

\* A tick is longer than the way from the query's snapshot to the store.
CacheTick ==
    /\ clock < Horizon /\ clock' = clock + 1
    /\ \A r \in Readers : readers[r].phase # "store"
    /\ UNCHANGED <<stored, left, partitions, lock, readers, saver>>

CacheNext ==
    \/ (\E r \in Readers : \/ (\E c \in Customers : BeginLoad(r, c)) \/ LoadNoTenant(r)
                                      \/ LoadFast(r) \/ LoadLock(r) \/ LoadRead(r) \/ LoadStore(r) \/ EndLoad(r))
    \/ (\E s \in Servers, c \in Customers : SaveRow(s, c))
    \/ invalidateRuntime \/ CacheTick

\* A read for a tenant that begins after an edit returned on the same server
\* sees it, whatever loads were under way; on another server it sees it at the
\* latest when the cache's lifetime has passed (runtime.go load, Invalidate,
\* "an edit in the UI takes effect on the next read").  A read without a
\* tenant ends as "baseline" and sees no edit at all.
ReadsAreFresh ==
    \A r \in Readers :
        readers[r].phase = "done" =>
            /\ readers[r].got >= readers[r].floor
            /\ \A v \in 1..stored[readers[r].tenant] :
                   v > readers[r].got => left[readers[r].tenant][v] > readers[r].since - TTL

--------------------------------------------------------------------------
(* Sections and their subscribers                                          *)

VARIABLES section,    \* key -> value
          sets,       \* each writer: its phase, its key, what it read, whom it still announces to
          subs, channels, panicked, lastSet,
          overtaken   \* watchers that left with an announcement on its way
sectionVars == <<section, sets, subs, channels, panicked, lastSet, overtaken>>

NotSetting == [phase |-> "rest", key |-> NoTenant, values |-> <<>>, todo |-> {}, alone |-> TRUE]

InitSection ==
    /\ section = [k \in Keys |-> 0] /\ lastSet = [k \in Keys |-> 0]
    /\ sets = [w \in Writers |-> NotSetting]
    /\ subs = {} /\ channels = [x \in Watchers |-> [open |-> FALSE, queued |-> 0]] /\ panicked = {} /\ overtaken = {}

\* Set reads the section first ...
SetRead(w, k) ==
    /\ sets[w].phase = "rest"
    /\ sets' = [x \in Writers |->
                   IF x = w THEN [phase |-> "write", key |-> k, values |-> section, todo |-> {},
                                  alone |-> \A y \in Writers : sets[y].phase # "write"]
                   ELSE IF sets[x].phase = "write" THEN [sets[x] EXCEPT !.alone = FALSE] ELSE sets[x]]
    /\ UNCHANGED <<section, subs, channels, panicked, lastSet, overtaken>>

SetUpsertOne(w, v) ==
    /\ sets[w].phase = "write"
    /\ section' = [k \in Keys |-> IF k = sets[w].key THEN v ELSE 0]
    /\ lastSet' = IF sets[w].alone THEN [lastSet EXCEPT ![sets[w].key] = v] ELSE section'
    /\ sets' = [sets EXCEPT ![w].phase = "fanout", ![w].todo = subs]
    /\ UNCHANGED <<subs, channels, panicked, overtaken>>

\* ... and writes it back whole with the one key changed.
SetUpsert(w, v) ==
    /\ sets[w].phase = "write"
    /\ section' = [sets[w].values EXCEPT ![sets[w].key] = v]
    /\ lastSet' = IF sets[w].alone THEN [lastSet EXCEPT ![sets[w].key] = v] ELSE section'
    /\ sets' = [sets EXCEPT ![w].phase = "fanout", ![w].todo = subs]
    /\ UNCHANGED <<subs, channels, panicked, overtaken>>

\* The list of subscribers was copied under the lock; a full channel is
\* passed over, a closed one panics.
fanout(w) ==
    /\ sets[w].phase = "fanout"
    /\ IF sets[w].todo = {} THEN sets' = [sets EXCEPT ![w] = NotSetting] /\ UNCHANGED <<channels, panicked>>
       ELSE \E x \in sets[w].todo :
                /\ sets' = [sets EXCEPT ![w].todo = @ \ {x}]
                /\ panicked' = IF channels[x].open THEN panicked ELSE panicked \cup {x}
                /\ channels' = IF channels[x].open /\ channels[x].queued < ChannelSize
                               THEN [channels EXCEPT ![x].queued = @ + 1] ELSE channels
    /\ UNCHANGED <<section, subs, lastSet, overtaken>>

Watch(x) ==
    /\ x \notin subs /\ ~ channels[x].open
    /\ subs' = subs \cup {x} /\ channels' = [channels EXCEPT ![x] = [open |-> TRUE, queued |-> 0]]
    /\ UNCHANGED <<section, sets, panicked, lastSet, overtaken>>

\* The watcher's context ends: unsubscribed under the lock, then closed.
Unwatch(x) ==
    /\ x \in subs /\ subs' = subs \ {x}
    /\ overtaken' = IF \E w \in Writers : x \in sets[w].todo THEN overtaken \cup {x} ELSE overtaken
    /\ UNCHANGED <<section, sets, channels, panicked, lastSet>>

CloseFirst(x) ==
    /\ channels[x].open
    /\ channels' = [channels EXCEPT ![x].open = FALSE]
    /\ UNCHANGED <<section, sets, subs, panicked, lastSet, overtaken>>

CloseChannel(x) ==
    /\ x \notin subs /\ channels[x].open
    /\ channels' = [channels EXCEPT ![x].open = FALSE]
    /\ UNCHANGED <<section, sets, subs, panicked, lastSet, overtaken>>

Receive(x) ==
    /\ channels[x].queued > 0 /\ channels' = [channels EXCEPT ![x].queued = @ - 1]
    /\ UNCHANGED <<section, sets, subs, panicked, lastSet, overtaken>>

SectionNext ==
    \/ (\E w \in Writers : (\E k \in Keys : SetRead(w, k)) \/ SetUpsert(w, 1) \/ fanout(w))
    \/ (\E x \in Watchers : Watch(x) \/ Unwatch(x) \/ CloseChannel(x) \/ Receive(x))

\* A Set that no other Set of the section overlapped keeps what was there
\* under the other keys and is kept by later ones (settings/plugin.go Set:
\* a read and an upsert of the whole section).
SetsKeepOthers == section = lastSet

\* Set panics on a closed channel only when its watcher left between the copy
\* of the subscribers and the send (settings/plugin.go fanout and Watch: the
\* list is copied under the lock, the channel closed after it).
ClosedOnlyWhenLeft == panicked \subseteq overtaken
=============================================================================

------------------------------ MODULE Heartbeat ------------------------------
(***************************************************************************)
(* The heartbeat plugin (internal/pluginimpl/heartbeat) and the scan job   *)
(* of core.go: heartbeats are created and edited, jobs ping them, and a    *)
(* scanner raises an alert for each one silent for longer than interval +  *)
(* grace.  The memory of what was raised, fired, is the process's own.     *)
(*                                                                         *)
(* An instant is an integer on a clock that stops at MaxTime; Never is the *)
(* last_seen of a heartbeat that was not pinged yet, Absent a field that a *)
(* body does not carry and Bad one of the wrong type.                      *)
(***************************************************************************)
EXTENDS Integers, FiniteSets, TLC

CONSTANTS Orgs, Default, Beats, Names, Pings,
          MaxTime, MaxPings,
          MaxUpsets      \* writes, failures, suspensions and restarts, together

Never == -1
Absent == -2
Bad == -3
NoName == ""
Unnamed == "absent"      \* a body without a name
NoToken == 0

VARIABLES beats,      \* the collection: uid -> document
          fired,      \* <<tenant, name>> -> last_seen an alert was raised for
          scan,       \* the pass in progress: tenants to do, documents read, its instant
          pings,      \* the requests: phase, tenant and name resolved
          time, minted, pinged, upsets,
          raised,     \* <<tenant, name, last_seen>> whose alert reached the pipeline
          repeated,   \* those raised more than once
          lost,       \* those the pipeline rejected
          forgotten,  \* <<tenant, name>> whose mark was dropped, by a ping or a restart
          held,       \* <<<<tenant, name>>, uid>>: the heartbeats that have borne a name
          dormant,    \* tenants an administrator has suspended
          partial     \* uids whose document was made from a body without a name
heartbeatVars == <<beats, fired, scan, pings, time, minted, pinged, upsets, raised, repeated, lost, forgotten, held, dormant, partial>>

NoScan == [on |-> FALSE, todo |-> {}, tenant |-> NoName, docs |-> <<>>, at |-> 0]
NoPing == [phase |-> "idle", tenant |-> NoName, name |-> NoName]
firedKey(t, n) == <<t, n>>

--------------------------------------------------------------------------
(* Documents                                                               *)

isFullDocument(b) == b.name # Unnamed

ValidateLoosely(b) ==
    /\ b.name # Unnamed => b.name # NoName
    /\ b.interval # Bad /\ (b.interval = Absent \/ b.interval > 0)
    /\ b.grace = Absent \/ b.grace >= 0
    /\ b.enabled # Bad

Validate(b) ==
    /\ b.name # Unnamed => b.name # NoName
    /\ IF b.interval = Absent THEN ~ isFullDocument(b) ELSE b.interval # Bad /\ b.interval > 0
    /\ b.grace = Absent \/ b.grace >= 0
    /\ b.enabled # Bad

\* A full document without a token is given a fresh one.
TransformWrite(b) ==
    IF b.token \notin {Absent, NoToken} \/ ~ isFullDocument(b) THEN b ELSE [b EXCEPT !.token = minted + 1]

parses(d) == d.name # NoName /\ d.interval > 0
window(d) == d.interval + (IF d.grace > 0 THEN d.grace ELSE 0)
enabled(d) == d.enabled # 0      \* absent is enabled

\* last_seen is the zero time for a heartbeat never pinged.
isOverdue(d, t) == d.seen = Never \/ t > d.seen + window(d)

Merge(d, b) ==
    [tenant |-> d.tenant, seen |-> d.seen,
     name |-> IF b.name = Unnamed THEN d.name ELSE b.name,
     interval |-> IF b.interval = Absent THEN d.interval ELSE b.interval,
     grace |-> IF b.grace = Absent THEN d.grace ELSE b.grace,
     enabled |-> IF b.enabled = Absent THEN d.enabled ELSE b.enabled,
     token |-> IF b.token = Absent THEN d.token ELSE b.token]
Fresh(t) == [tenant |-> t, seen |-> Never, name |-> NoName, interval |-> Absent, grace |-> Absent, enabled |-> Absent, token |-> NoToken]

Upset == upsets < MaxUpsets /\ upsets' = upsets + 1

\* POST creates, or merges into the row whose uid its body carries; PUT
\* replaces and PATCH merges, and each inserts under a uid nobody has.  The
\* body is validated and transformed first; whether it is a whole document is
\* told by its name alone, whatever the verb.
WriteBeat(u, t, b, verb) ==
    LET full == TransformWrite(b)
        merges == verb # "put" /\ u \in DOMAIN beats
        doc == Merge(IF merges THEN beats[u] ELSE Fresh(t), full)
    IN
    /\ Upset /\ Validate(b)
    /\ u \in DOMAIN beats => beats[u].tenant = t
    /\ beats' = [v \in DOMAIN beats \cup {u} |-> IF v = u THEN doc ELSE beats[v]]
    /\ held' = held \cup {<<firedKey(doc.tenant, doc.name), u>>}
    /\ minted' = IF full = b THEN minted ELSE minted + 1
    /\ partial' = IF isFullDocument(b) THEN partial \ {u} ELSE IF merges THEN partial ELSE partial \cup {u}
    /\ UNCHANGED <<fired, scan, pings, time, pinged, raised, repeated, lost, forgotten, dormant>>

DeleteBeat(u) ==
    /\ Upset /\ u \in DOMAIN beats
    /\ beats' = [v \in DOMAIN beats \ {u} |-> beats[v]]
    /\ UNCHANGED <<fired, scan, pings, time, minted, pinged, raised, repeated, lost, forgotten, held, dormant, partial>>

\* PostInit on a boot: for each heartbeat of the tenant it runs under that has
\* no token a fresh one is set by name, so on every heartbeat of that name; a
\* write that fails is only logged.  The boot forgets what had been raised.
Legacy == {u \in DOMAIN beats : beats[u].tenant = Default /\ beats[u].name # NoName /\ beats[u].token = NoToken}
LegacyNames == {beats[u].name : u \in Legacy}

PostInit ==
    /\ Upset
    /\ \E done \in SUBSET LegacyNames : \E order \in [done -> 1..Cardinality(done)] :
           /\ \A m, n \in done : order[m] = order[n] => m = n
           /\ beats' = [u \in DOMAIN beats |->
                           IF beats[u].tenant = Default /\ beats[u].name \in done
                           THEN [beats[u] EXCEPT !.token = minted + order[beats[u].name]] ELSE beats[u]]
           /\ minted' = minted + Cardinality(done)
    /\ forgotten' = forgotten \cup DOMAIN fired
    /\ fired' = <<>> /\ scan' = NoScan /\ pings' = [p \in Pings |-> NoPing]
    /\ UNCHANGED <<time, pinged, raised, repeated, lost, held, dormant, partial>>

\* A tenant is suspended, or taken up again.
SetDormant(t) ==
    /\ Upset /\ dormant' = (dormant \ {t}) \cup ({t} \ dormant)
    /\ UNCHANGED <<beats, fired, scan, pings, time, minted, pinged, raised, repeated, lost, forgotten, held, partial>>

--------------------------------------------------------------------------
(* Pings                                                                   *)

\* The token names the heartbeat in whatever tenant: none or several, or a
\* name that is not its own, and the ping is refused.
HandleWebhook(p, name, token) ==
    LET found == {u \in DOMAIN beats : beats[u].token = token} IN
    /\ pings[p].phase = "idle" /\ name # NoName /\ token # NoToken
    /\ \E u \in found :
           /\ found = {u} /\ beats[u].name = name
           /\ pings' = [pings EXCEPT ![p] = [phase |-> "touch", tenant |-> beats[u].tenant, name |-> name]]
    /\ pinged < MaxPings /\ pinged' = pinged + 1
    /\ UNCHANGED <<beats, fired, scan, time, minted, upsets, raised, repeated, lost, forgotten, held, dormant, partial>>

Named(t, n) == {u \in DOMAIN beats : beats[u].tenant = t /\ beats[u].name = n}

touchByName(p) ==
    LET mine == {u \in DOMAIN beats : beats[u].name = pings[p].name} IN
    /\ pings[p].phase = "touch"
    /\ beats' = [u \in DOMAIN beats |-> IF u \in mine THEN [beats[u] EXCEPT !.seen = time] ELSE beats[u]]
    /\ pings' = [pings EXCEPT ![p] = IF mine = {} THEN NoPing ELSE [@ EXCEPT !.phase = "clear"]]
    /\ UNCHANGED <<fired, scan, time, minted, pinged, upsets, raised, repeated, lost, forgotten, held, dormant, partial>>

\* SetFields by name, in the tenant that was resolved.
touch(p) ==
    LET mine == Named(pings[p].tenant, pings[p].name) IN
    /\ pings[p].phase = "touch"
    /\ beats' = [u \in DOMAIN beats |-> IF u \in mine THEN [beats[u] EXCEPT !.seen = time] ELSE beats[u]]
    /\ pings' = [pings EXCEPT ![p] = IF mine = {} THEN NoPing ELSE [@ EXCEPT !.phase = "clear"]]
    /\ UNCHANGED <<fired, scan, time, minted, pinged, upsets, raised, repeated, lost, forgotten, held, dormant, partial>>

clearFired(p) ==
    LET k == firedKey(pings[p].tenant, pings[p].name) IN
    /\ pings[p].phase = "clear"
    /\ fired' = [x \in DOMAIN fired \ {k} |-> fired[x]]
    /\ forgotten' = forgotten \cup ({k} \cap DOMAIN fired)
    /\ pings' = [pings EXCEPT ![p] = NoPing]
    /\ UNCHANGED <<beats, scan, time, minted, pinged, upsets, raised, repeated, lost, held, dormant, partial>>

--------------------------------------------------------------------------
(* The scan                                                                *)

\* scanAllTenants on a tick of the job, over the tenants ForEachTenant lists:
\* those that are not suspended.
scanAllTenants ==
    /\ ~ scan.on
    /\ scan' = [NoScan EXCEPT !.on = TRUE, !.todo = Orgs \ dormant]
    /\ UNCHANGED <<beats, fired, pings, time, minted, pinged, upsets, raised, repeated, lost, forgotten, held, dormant, partial>>

ScanTenant(t) ==
    /\ scan.on /\ scan.docs = <<>> /\ t \in scan.todo
    /\ scan' = [scan EXCEPT !.todo = @ \ {t}, !.tenant = t, !.at = time,
                            !.docs = [u \in {v \in DOMAIN beats : beats[v].tenant = t} |-> beats[u]]]
    /\ UNCHANGED <<beats, fired, pings, time, minted, pinged, upsets, raised, repeated, lost, forgotten, held, dormant, partial>>

\* The query of a tenant fails and the tenant is passed over, or the listing
\* of the tenants and the pass with it.
ScanFails(t) ==
    /\ Upset
    /\ \/ scan.on /\ scan.docs = <<>> /\ t \in scan.todo /\ scan' = [scan EXCEPT !.todo = @ \ {t}]
       \/ ~ scan.on /\ UNCHANGED scan
    /\ UNCHANGED <<beats, fired, pings, time, minted, pinged, raised, repeated, lost, forgotten, held, dormant, partial>>

markAlways(k, seen) == seen # Never

markOnce(k, seen) == seen # Never /\ k \notin DOMAIN fired

\* The entry of a key that is not in the map reads as the empty string, which
\* is also the last_seen of a heartbeat never pinged.
markFired(k, seen) == seen # (IF k \in DOMAIN fired THEN fired[k] ELSE Never)

Judged(u) == [scan EXCEPT !.docs = [v \in DOMAIN scan.docs \ {u} |-> scan.docs[v]]]

Pass(u) ==
    LET d == scan.docs[u] IN
    /\ scan.on /\ u \in DOMAIN scan.docs
    /\ \/ ~ parses(d) \/ ~ enabled(d) \/ ~ isOverdue(d, scan.at)
       \/ ~ markFired(firedKey(scan.tenant, d.name), d.seen)
    /\ scan' = Judged(u)
    /\ UNCHANGED <<beats, fired, pings, time, minted, pinged, upsets, raised, repeated, lost, forgotten, held, dormant, partial>>

\* The mark comes first and stays when the pipeline rejects the alert.
Fire(u) ==
    LET d == scan.docs[u]
        k == firedKey(scan.tenant, d.name)
        miss == <<scan.tenant, d.name, d.seen>>
    IN
    /\ scan.on /\ u \in DOMAIN scan.docs
    /\ parses(d) /\ enabled(d) /\ isOverdue(d, scan.at)
    /\ markFired(k, d.seen)
    /\ scan' = Judged(u) /\ fired' = [x \in DOMAIN fired \cup {k} |-> IF x = k THEN d.seen ELSE fired[x]]
    /\ \/ /\ raised' = raised \cup {miss} /\ repeated' = repeated \cup ({miss} \cap raised)
          /\ UNCHANGED <<upsets, lost>>
       \/ /\ Upset /\ lost' = lost \cup {miss}
          /\ UNCHANGED <<raised, repeated>>
    /\ UNCHANGED <<beats, pings, time, minted, pinged, forgotten, held, dormant, partial>>

EndScan ==
    /\ scan.on /\ scan.todo = {} /\ scan.docs = <<>>
    /\ scan' = NoScan
    /\ UNCHANGED <<beats, fired, pings, time, minted, pinged, upsets, raised, repeated, lost, forgotten, held, dormant, partial>>

Clock ==
    /\ time < MaxTime /\ time' = time + 1
    /\ UNCHANGED <<beats, fired, scan, pings, minted, pinged, upsets, raised, repeated, lost, forgotten, held, dormant, partial>>

ScanStep ==
    \/ scanAllTenants \/ EndScan
    \/ (\E t \in Orgs : ScanTenant(t))
    \/ (\E u \in Beats : Pass(u) \/ Fire(u))

PingStep(p) == touch(p) \/ clearFired(p)

InitHeartbeat(docs) ==
    /\ beats = docs /\ fired = <<>> /\ scan = NoScan /\ pings = [p \in Pings |-> NoPing]
    /\ time = 0 /\ minted = Cardinality(DOMAIN docs) /\ pinged = 0 /\ upsets = 0
    /\ raised = {} /\ repeated = {} /\ lost = {} /\ forgotten = {}
    /\ held = {<<firedKey(docs[u].tenant, docs[u].name), u>> : u \in DOMAIN docs}
    /\ dormant = {} /\ partial = {}

HeartbeatNext(bodies) ==
    \/ ScanStep \/ Clock \/ PostInit
    \/ (\E p \in Pings : PingStep(p))
    \/ (\E p \in Pings, n \in Names, k \in 1..minted : HandleWebhook(p, n, k))
    \/ (\E u \in Beats, t \in Orgs, b \in bodies, verb \in {"post", "put", "patch"} : WriteBeat(u, t, b, verb))
    \/ (\E u \in Beats : DeleteBeat(u))
    \/ (\E t \in Orgs : SetDormant(t) \/ ScanFails(t))

\* The job's ticker and the handlers keep running.
HeartbeatFairness ==
    /\ WF_heartbeatVars(ScanStep) /\ WF_heartbeatVars(Clock)
    /\ \A p \in Pings : WF_heartbeatVars(PingStep(p))

--------------------------------------------------------------------------
(* Properties                                                              *)

HeartbeatTypeOK ==
    /\ DOMAIN beats \subseteq Beats
    /\ \A u \in DOMAIN beats : beats[u].tenant \in Orgs /\ beats[u].seen \in {Never} \cup 0..MaxTime
    /\ scan.todo \subseteq Orgs /\ DOMAIN scan.docs \subseteq Beats /\ dormant \subseteq Orgs
    /\ \A p \in Pings : pings[p].phase \in {"idle", "touch", "clear"}

\* Over any sequence of writes a stored heartbeat is skipped for want of a
\* name or an interval only when it was created or replaced by a body without
\* a name, which Validate takes for a patch, and no body with one came since:
\* no patch breaks a heartbeat that was scanned (schema.go Validate and
\* isFullDocument, parseHeartbeat).
StoredIsScanned == \A u \in DOMAIN beats : parses(beats[u]) \/ u \in partial

\* Nothing keeps two heartbeats of a tenant from bearing one name, and they
\* then share one mark.
Shared(k) == \E u, v \in Beats : u # v /\ <<k, u>> \in held /\ <<k, v>> \in held

\* A silence since a ping is raised once per process: again only when a ping,
\* late with clearing the mark, or a restart made the scanner forget it, or
\* when another heartbeat of the same name took the mark over (scan.go
\* markFired, "exactly one miss alert (deduped per (tenant,name))").
RaisedOnce ==
    \A m \in repeated :
        LET k == firedKey(m[1], m[2]) IN m[3] = Never \/ k \in forgotten \/ Shared(k)

\* A ping moves last_seen in the tenant its token belongs to and nowhere
\* else, though names are the tenants' own and the tenant of a request is
\* known from the token alone (plugin.go HandleWebhook).
PingStaysHome ==
    [][\A u \in DOMAIN beats \cap DOMAIN beats' :
            (beats'[u].seen # beats[u].seen /\ beats'[u].seen # Never) =>
                \E p \in Pings : pings[p].phase = "touch" /\ pings[p].tenant = beats[u].tenant]_heartbeatVars

Silent(u, never) ==
    /\ u \in DOMAIN beats /\ parses(beats[u]) /\ enabled(beats[u]) /\ isOverdue(beats[u], time)
    /\ beats[u].tenant \notin dormant
    /\ (beats[u].seen = Never) = never
Answered(u) == LET m == <<beats[u].tenant, beats[u].name, beats[u].seen>> IN m \in raised \cup lost

\* A heartbeat that was pinged and then falls silent is raised, or rejected
\* by the pipeline, unless it is pinged or edited or its tenant is suspended
\* first: no race of pings, scans, restarts, failing queries and edits leaves
\* a mark that hides a later silence.
SilenceRaised ==
    \A u \in Beats : []<>(~ Silent(u, FALSE) \/ Answered(u))

\* "a freshly created heartbeat that is never pinged eventually fires"
\* (scan.go, isOverdue).
NeverPingedRaised ==
    \A u \in Beats : []<>(~ Silent(u, TRUE) \/ Answered(u))
=============================================================================

------------------------------- MODULE MCJobs -------------------------------
(***************************************************************************)
(* The jobs of a server on small instances.  A behaviour is about one      *)
(* topic: "clean" (one cleanup job on one backend), "beat" (heartbeats),   *)
(* "cache" (runtime settings of a tenant on two servers), "section" (the   *)
(* settings plugin's sections), "rows" (settings rows laid over the file), *)
(* or "stats" (counters and the dashboard).                                *)
(***************************************************************************)
EXTENDS Housekeeper, Heartbeat, Settings, Stats

CONSTANTS Topics, MaxSteps

ASSUME JobsAssumption == {"x", "y"} \subseteq Tenants \cap Orgs /\ MaxNow \in Nat /\ MaxTime \in Nat

VARIABLES topic, values, steps
restVars == <<values, steps>>
vars == <<topic, restVars, housekeeperVars, heartbeatVars, cacheVars, sectionVars, statsVars>>

--------------------------------------------------------------------------
(* Rows                                                                    *)

Until(t) == [until |-> t]

\* A uid is drawn once and for all by one tenant.
Home(u) == IF u = "c" THEN "y" ELSE "x"

\* The rows the job's collections may hold under a uid, written at t.
DocsAt(u, t) ==
    LET o == Home(u)
        Some(all, few) == IF u = "b" THEN all ELSE few
    IN  CASE job = "timeout" ->
                {[tenant |-> o, epoch |-> d[1], ttl |-> d[2]] : d \in Some({<<t, 1>>, <<t, -1>>, <<Null, 1>>}, {<<t, 1>>})}
          [] job = "comments" ->
                IF u = "a" THEN {[tenant |-> o, coll |-> "record", ref |-> NoUid]}
                ELSE {[tenant |-> o, coll |-> "comment", ref |-> r] : r \in Some({NoUid, "a"}, {"a"})}
          [] job = "orphans" ->
                {[tenant |-> o, parents |-> ps] : ps \in Some({<<NoUid>>, <<"a">>, <<"c", "a">>}, {<<>>})}
          [] job = "expired" ->
                {[tenant |-> o, datetime |-> ws] : ws \in Some({<<>>, <<Until(Null)>>, <<Until(0)>>, <<Until(0), Until(1)>>}, {<<Until(0)>>})}
          [] job = "audit" -> {[tenant |-> o, object |-> "o", action |-> a, epoch |-> t] : a \in Some({"create", "delete"}, {"delete"})}
          [] OTHER -> {[tenant |-> o, epoch |-> t]}

Docs(u) == DocsAt(u, now)

SomeRows == {r \in [Uids -> UNION {DocsAt(u, 0) : u \in Uids}] : \A u \in Uids : r[u] \in DocsAt(u, 0)}

--------------------------------------------------------------------------
(* Heartbeats: two of one name in two tenants, one beside which another    *)
(* may be created, or two of one name in a tenant, one without a token     *)

Body(n, i, g, e, k) == [name |-> n, interval |-> i, grace |-> g, enabled |-> e, token |-> k]
Bodies ==
    {Body("n", 1, Absent, Absent, Absent), Body("n", 1, 1, 1, 1), Body("", 1, Absent, Absent, Absent), Body("n", Absent, 1, 1, Absent),
     Body(Unnamed, Absent, Absent, 0, Absent), Body(Unnamed, 0, Absent, Absent, Absent)}
BeatOf(t, k) == [tenant |-> t, seen |-> Never, name |-> "n", interval |-> 1, grace |-> Absent, enabled |-> Absent, token |-> k]
SomeBeats == {[u \in B |-> IF u = "b1" THEN [BeatOf("x", 1) EXCEPT !.seen = 0] ELSE BeatOf("y", 2)] :
                 B \in {Beats, Beats \cap {"b1"}}}
             \cup {[u \in Beats |-> IF u = "b1" THEN BeatOf("x", NoToken) ELSE BeatOf("x", 2)]}

--------------------------------------------------------------------------
(* Settings                                                                *)

MCReaders == {<<1, "s1">>, <<2, "s1">>}

SettingKeys == {<<"ldap", "enabled">>, <<"ldap", "port">>, <<"ldap", "host">>, <<"oidc", "scopes">>, <<"oidc", "client_secret">>,
                <<"housekeeping", "cleanup_alert">>}
SettingValues == {<<"bool", TRUE>>, <<"num", 0>>, <<"num", -3>>, <<"num", 9>>, <<"str", "">>, <<"str", "on">>, <<"str", "7">>,
                  <<"str", "5m">>, <<"str", "-1s">>, <<"str", "a b">>, <<"list", <<"a", "">>>>}

LDAPBase == [enabled |-> <<"bool", FALSE>>, port |-> <<"num", 389>>, host |-> <<"str", "h">>]
OIDCBase == [enabled |-> <<"bool", FALSE>>, scopes |-> <<"list", <<"openid">>>>, client_secret |-> <<"str", "s">>, method |-> <<"str", "oidc">>]
HKBase(interval) == [trigger_on_startup |-> <<"bool", FALSE>>, cleanup_alert |-> <<"num", interval>>]

PutRow(k, v) ==
    /\ steps < MaxSteps /\ steps' = steps + 1
    /\ values' = (k :> v) @@ values

--------------------------------------------------------------------------
(* Counters                                                                *)

Span == 3 * Hour - 1

recordStatHit(t, host) ==
    /\ steps < MaxSteps + 1 /\ steps' = steps + 1 /\ hits' = Append(hits, t)
    /\ RecordStat(t, "alert_hit", {<<"source", 0>>, <<"host", host>>, <<"environment", NoLabel>>})
    /\ UNCHANGED <<recs, values>>

OtherStat(t, metric) ==
    /\ steps < MaxSteps + 1 /\ steps' = steps + 1
    /\ RecordStat(t, metric, {<<"name", 1>>})
    /\ UNCHANGED <<hits, recs, values>>

StoreRecord(s, t) ==
    /\ steps < MaxSteps + 1 /\ steps' = steps + 1
    /\ recs' = Append(recs, [state |-> s, epoch |-> t])
    /\ UNCHANGED <<hits, counters, values>>

StatsNext ==
    \/ (\E t \in {0, Hour - 1, Hour, Span}, h \in {1, 2} : recordStatHit(t, h))
    \/ (\E m \in {"alert_throttled", "action_success"} : OtherStat(Hour, m))
    \/ (\E s \in {"", "open", "ack"}, t \in {None, Hour} : StoreRecord(s, t))

--------------------------------------------------------------------------
Init ==
    /\ topic \in Topics /\ values = <<>> /\ steps = 0
    /\ InitHousekeeper
    /\ IF topic = "clean"
       THEN /\ backend \in Backends /\ job \in Jobs /\ suspended \in {{}, {"y"}}
            /\ suspended # {} => pass = Idle
            /\ rows \in SomeRows
       ELSE backend = "sqlite" /\ job = "stats" /\ suspended = {} /\ pass = Idle /\ rows = <<>>
    /\ \E docs \in IF topic = "beat" THEN SomeBeats ELSE {<<>>} : InitHeartbeat(docs)
    /\ InitCache /\ InitSection
    /\ counters = <<>> /\ hits = <<>> /\ recs = <<>>

Clean(A) ==
    /\ topic = "clean" /\ A
    /\ UNCHANGED <<topic, restVars, heartbeatVars, cacheVars, sectionVars, statsVars>>
Beat(A) ==
    /\ topic = "beat" /\ A
    /\ UNCHANGED <<topic, restVars, housekeeperVars, cacheVars, sectionVars, statsVars>>
Cache ==
    /\ topic = "cache" /\ CacheNext
    /\ UNCHANGED <<topic, restVars, housekeeperVars, heartbeatVars, sectionVars, statsVars>>
Section ==
    /\ topic = "section" /\ SectionNext
    /\ UNCHANGED <<topic, restVars, housekeeperVars, heartbeatVars, cacheVars, statsVars>>
Rows ==
    /\ topic = "rows" /\ \E k \in SettingKeys, v \in SettingValues : PutRow(k, v)
    /\ UNCHANGED <<topic, housekeeperVars, heartbeatVars, cacheVars, sectionVars, statsVars>>
Count ==
    /\ topic = "stats" /\ StatsNext
    /\ UNCHANGED <<topic, housekeeperVars, heartbeatVars, cacheVars, sectionVars>>

Next == Clean(HousekeeperNext(Docs)) \/ Beat(HeartbeatNext(Bodies)) \/ Cache \/ Section \/ Rows \/ Count

\* The fairness of Housekeeper and Heartbeat, each in its own topic.
Fairness ==
    /\ WF_vars(Clean(JobStep)) /\ WF_vars(Clean(Poll)) /\ WF_vars(Clean(Tick))
    /\ WF_vars(Beat(ScanStep)) /\ WF_vars(Beat(Clock))
    /\ \A p \in Pings : WF_vars(Beat(PingStep(p)))

Spec == Init /\ [][Next]_vars /\ Fairness

--------------------------------------------------------------------------
\* The shape of the state of every part.
TypeOK == HousekeeperTypeOK /\ HeartbeatTypeOK

KeepsShape(vals, interval) ==
    LET ldap == applyLDAPOverrides(LDAPBase, vals)
        oidc == applyOIDCOverrides(OIDCBase, vals)
        hk == applyHousekeeperOverrides(HKBase(interval), vals)
        Same(a, b) == \A k \in DOMAIN b : a[k][1] = b[k][1]
    IN  /\ Same(ldap, LDAPBase) /\ Same(oidc, OIDCBase) /\ Same(hk, HKBase(interval))
        /\ oidc.client_secret = OIDCBase.client_secret /\ oidc.method = OIDCBase.method
        /\ liveInterval(hk, "cleanup_alert", 300) > 0

\* No settings row can break the configuration it is laid over, whichever
\* tenant it is read for: every field keeps its type, the secret and the
\* method stay those of the file, and no interval, zero or negative in the
\* file or in a row, stops a job or makes it spin (runtime.go load and
\* apply*Overrides, boot.go liveInterval, which reads without a tenant).
OverridesKeepShape ==
    \A t \in {NoTenant, "x"}, interval \in {300, 0, -3} : KeepsShape(loaded(t, values), interval)

\* See Stats.
DashboardAddsUp == topic = "stats" => SeriesAddsUp({0, 1, Hour + 1, Span - 1, Span}, {1, 3, 2 * Hour})
StatesAgree == topic = "stats" => AggregatorsAgree({0, 1, Hour, Span})

\* Every stored heartbeat can be scanned, and a silence is raised once
\* (heartbeat/schema.go Validate, scan.go markFired).
HeartbeatsHold == TypeOK /\ StoredIsScanned /\ RaisedOnce

\* Settings are read fresh, kept by edits of others, sent to subscribers that
\* are there, and never break what they are laid over (runtime.go, settings).
SettingsHold == ReadsAreFresh /\ SetsKeepOthers /\ ClosedOnlyWhenLeft /\ OverridesKeepShape

\* The dashboard neither loses nor doubles a counter, on every backend (stats).
DashboardHolds == DashboardAddsUp /\ StatesAgree

\* A cleanup deletes useless rows of the tenants it was run for, and a ping
\* touches the heartbeat of its own tenant (housekeeper, heartbeat touch).
StepsSpareOthers == OnlyUselessDeleted /\ OtherTenantsKept /\ PingStaysHome

\* What can be cleaned is cleaned, and a silence is raised, in the end.
JobsProgress == EventuallyCleaned /\ SilenceRaised
=============================================================================

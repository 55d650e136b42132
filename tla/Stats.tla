-------------------------------- MODULE Stats --------------------------------
(***************************************************************************)
(* The counters behind the dashboard: plugins/stats.go writes them by the  *)
(* hour, pluginimpl/stats reduces them to a series, totals and a weekday   *)
(* profile, and the records' states are counted by the SQLite driver or in *)
(* the plugin.  An instant is an integer, an hour is Hour instants.        *)
(***************************************************************************)
EXTENDS Integers, Sequences, FiniteSets, FiniteSetsExt, TLC

CONSTANTS Hour, TopHosts,
          FetchCap,       \* records reduceInGo fetches
          CounterCap      \* counters handleStats fetches

VARIABLES counters,   \* <<metric, dim, key, bucket>> -> value
          hits,       \* instants of the alerts counted, one entry each
          recs        \* the records: [state, epoch] with epoch None when missing
statsVars == <<counters, hits, recs>>

None == -1
NoLabel == -1

--------------------------------------------------------------------------
(* Counting                                                                *)

Counted(key) == IF key \in DOMAIN counters THEN counters[key] ELSE 0

\* One increment for each label that is not empty; labels is a set of
\* <<dim, key>>.
RecordStat(epoch, metric, labels) ==
    LET bucket == (epoch \div Hour) * Hour
        ks == {<<metric, l[1], l[2], bucket>> : l \in {x \in labels : x[2] # NoLabel}}
    IN  counters' = [k \in ks |-> Counted(k) + 1] @@ counters

--------------------------------------------------------------------------
(* The dashboard                                                           *)

Value(ds) == MapThenSumSet(LAMBDA k : counters[k], ds)

\* The counters of the window, its start moved back to the hour; when there
\* are more than CounterCap the earliest, some of the last hour perhaps left.
FromB(from) == (from \div Hour) * Hour
InWindow(from, to) == {k \in DOMAIN counters : FromB(from) <= k[4] /\ k[4] <= to}
Windows(from, to) ==
    LET all == InWindow(from, to)
    IN  {ds \in kSubset(Min({CounterCap, Cardinality(all)}), all) : \A k \in ds, l \in all \ ds : k[4] <= l[4]}

\* An alert is counted once in each dimension; its source stands for it.
seriesKey(k) ==
    CASE k[1] = "alert_hit" /\ k[2] = "source" -> "Alerts"
      [] k[1] = "alert_throttled" -> "Throttled"
      [] k[1] = "alert_snoozed" -> "Snoozed"
      [] k[1] = "notification_sent" -> "Notification sent"
      [] k[1] = "action_error" -> "Action error"
      [] OTHER -> ""

slot(t, stride) == (t \div stride) * stride

SlotsInside(from, to, stride) ==
    {t \in slot(from, stride)..to : (t - slot(from, stride)) % stride = 0}

\* The slots emitted, without gaps: a loop from the first to the last.
Slots(from, to, stride) ==
    {t \in slot(FromB(from), stride)..to : (t - slot(FromB(from), stride)) % stride = 0}

\* docs are the counters that were fetched.
series(docs, from, to, stride, name) ==
    [t \in Slots(from, to, stride) |->
        Value({k \in docs : seriesKey(k) = name /\ slot(k[4], stride) = t})]

totals(docs, metric, dim) ==
    LET ks == {k \in docs : k[1] = metric /\ k[2] = dim}
    IN  [x \in {k[3] : k \in ks} |-> Value({k \in ks : k[3] = x})]

totalHits(docs) == Value({k \in docs : k[1] = "alert_hit" /\ k[2] = "source"})

weekday(docs) ==
    [d \in 0..6 |-> Value({k \in docs : k[1] = "alert_hit" /\ k[2] = "source" /\ (k[4] \div (24 * Hour) + 4) % 7 = d})]

\* The hosts with most alerts, ties by name (here the names are numbers).
topN(m, n) ==
    LET ahead(x) == {y \in DOMAIN m : m[y] > m[x] \/ (m[y] = m[x] /\ y < x)}
    IN  [x \in {y \in DOMAIN m : Cardinality(ahead(y)) < n} |-> m[x]]

--------------------------------------------------------------------------
(* The states of the records in the window                                 *)

stateOf(r) == IF r.state = "" THEN "open" ELSE r.state

\* A record without a date counts as of the epoch.
RecordStats(from, to) ==
    LET date(r) == IF r.epoch = None THEN 0 ELSE r.epoch
        inside == {i \in DOMAIN recs : from <= date(recs[i]) /\ date(recs[i]) <= to}
    IN  [s \in {stateOf(recs[i]) : i \in inside} |-> Cardinality({i \in inside : stateOf(recs[i]) = s})]

reduceOpenEnd(from, to) ==
    LET inside == {i \in DOMAIN recs : recs[i].epoch # None /\ from <= recs[i].epoch /\ recs[i].epoch < to}
    IN  [s \in {stateOf(recs[i]) : i \in inside} |-> Cardinality({i \in inside : stateOf(recs[i]) = s})]

\* The other backends: the oldest FetchCap records, those without a date
\* passed over.
reduceInGo(from, to) ==
    LET before(i) == {j \in DOMAIN recs : recs[j].epoch < recs[i].epoch \/ (recs[j].epoch = recs[i].epoch /\ j < i)}
        inside == {i \in DOMAIN recs : Cardinality(before(i)) < FetchCap /\ recs[i].epoch # None
                                       /\ from <= recs[i].epoch /\ recs[i].epoch <= to}
    IN  [s \in {stateOf(recs[i]) : i \in inside} |-> Cardinality({i \in inside : stateOf(recs[i]) = s})]

--------------------------------------------------------------------------
(* Properties, for windows between given instants                          *)

SumOf(f) == MapThenSumSet(LAMBDA x : f[x], DOMAIN f)

\* Whatever window and stride are asked for, the series adds up to the total,
\* the total to the weekdays, and both to the alerts of the hours the window
\* touches (stats/plugin.go, "keeping the series consistent with the totals
\* for any stride"); when the counters do not fit in the fetch, to no more.
SeriesAddsUp(instants, strides) ==
    \A from \in instants, to \in instants, stride \in strides : \A docs \in Windows(from, to) :
        LET n == totalHits(docs)
            alerts == Cardinality({i \in DOMAIN hits : FromB(from) <= FromB(hits[i]) /\ FromB(hits[i]) <= to})
        IN
        /\ SumOf(series(docs, from, to, stride, "Alerts")) = n
        /\ SumOf(weekday(docs)) = n
        /\ n <= alerts /\ (docs = InWindow(from, to) => n = alerts)
        /\ LET m == totals(docs, "alert_hit", "host") IN
           \A x \in DOMAIN m : x \notin DOMAIN topN(m, TopHosts) =>
               \A y \in DOMAIN topN(m, TopHosts) : m[y] >= m[x]

\* The driver's aggregate and the plugin's reduction count the same states,
\* as long as the records fit in one fetch and each has a date.
AggregatorsAgree(instants) ==
    (Len(recs) <= FetchCap /\ \A i \in DOMAIN recs : recs[i].epoch # None) =>
        \A from \in instants, to \in instants : RecordStats(from, to) = reduceInGo(from, to)
=============================================================================

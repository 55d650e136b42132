---------------------------- MODULE ChangeFeeds -----------------------------
(* How a server hears of the writes of every server: LISTEN/NOTIFY on        *)
(* PostgreSQL (pgBus), change streams on MongoDB (mongoBus).  One server,    *)
(* one subscription; commits come from anywhere.                             *)
EXTENDS Naturals, Sequences, FiniteSets

CONSTANTS
    FeedCap,       \* the buffer of a subscriber's channel (32)
    FeedTenants,
    SlugPrefix,    \* the pairs <<s, t>> of tenants where the slug s begins the slug t
    MaxCommits, MaxBreaks

VARIABLES
    feed,      \* "pg" or "mongo"
    link,      \* the LISTEN connection or the change stream is up
    wireq,     \* notifications on their way over it
    sub,       \* the subscription: "none", its prefix, or "left"
    chanq,     \* its channel
    chanOpen, busClosed, panicked,
    commits,   \* every commit: its kind, its row's tenant, and bare: told without one
    heard,     \* what the subscriber received, in order
    unheard,   \* what never reached the channel: <<commit, why>>
    skips,     \* commits the feed itself left out
    breaks

feedVars == <<feed, link, wireq, sub, chanq, chanOpen, busClosed, panicked, commits,
              heard, unheard, skips, breaks>>

\* PostgreSQL tells all writes alike and the housekeeper's deletions not at all.
\* A change stream tells them apart; hits: only the counter changed; both: the
\* counter and the rule; delete: the housekeeper's as well.
Kinds == IF feed = "pg" THEN {"write", "cleanup"} ELSE {"insert", "hits", "both", "delete"}
Bare == ""

\* What may be told without its tenant: on PostgreSQL a write in platform scope
\* (resolveNotifyTenant), on MongoDB an update whose document is gone when the
\* stream looks it up (UpdateLookup).
MayBeBare(kind) == kind \in {"write", "both"}

FeedInit ==
    /\ feed \in {"pg", "mongo"} /\ link = FALSE /\ wireq = <<>>
    /\ sub = "none" /\ chanq = <<>> /\ chanOpen = FALSE /\ busClosed = FALSE
    /\ panicked = FALSE /\ commits = <<>> /\ heard = <<>> /\ unheard = {}
    /\ skips = {} /\ breaks = 0

Listening == sub \notin {"none", "left"}

\* The event a notification becomes: NOTIFY carries the writer's tenant
\* (resolveNotifyTenant), a change stream the stored document's, and a
\* deletion there has no document (changeEventToSyncerEvent).
TenantOf(id) ==
    IF commits[id].bare \/ commits[id].kind = "delete" THEN Bare ELSE commits[id].tenant

\* CollectionTopic ends in the tenant and subscriptions are prefixes of topics
\* (strings.HasPrefix): the topic without a tenant matches all, and a tenant's
\* also those of the tenants whose slug its own begins.
Fits(t) == sub = "all" \/ sub = t \/ <<sub, t>> \in SlugPrefix

\* Mutant: an event without a tenant is for everyone.
MatchesBare(id) == Fits(TenantOf(id)) \/ TenantOf(id) = Bare

Matches(id) == Fits(TenantOf(id))

\* Mutant: an update that touches the hit counter.
anyHitsUpdate(c) == c.kind \in {"hits", "both"}

\* hitsOnlyUpdate: an update of the hit counter and nothing else.
hitsOnlyUpdate(c) == c.kind = "hits"

Event(id) == [id |-> id, tenant |-> TenantOf(id)]

\* A send to the subscriber: dropped when the channel is full, a panic when it
\* is closed.
SendTo(id) ==
    IF ~Listening THEN UNCHANGED <<chanq, panicked>> /\ unheard' = unheard \cup {<<id, "nobody">>}
    ELSE IF ~Matches(id)
    THEN UNCHANGED <<chanq, panicked>> /\ unheard' = unheard \cup {<<id, "unmatched">>}
    ELSE IF ~chanOpen THEN panicked' = TRUE /\ UNCHANGED <<chanq, unheard>>
    ELSE IF Len(chanq) < FeedCap
    THEN chanq' = Append(chanq, Event(id)) /\ UNCHANGED <<panicked, unheard>>
    ELSE UNCHANGED <<chanq, panicked>> /\ unheard' = unheard \cup {<<id, "full">>}

\* A committed write: the notification leaves with the commit (notifyTx), to
\* the connections that are up.  The cleanups of PostgreSQL send none.
Commit(kind, t, bare) ==
    /\ Len(commits) < MaxCommits /\ (bare => MayBeBare(kind))
    /\ commits' = Append(commits, [kind |-> kind, tenant |-> t, bare |-> bare])
    /\ LET id == Len(commits) + 1
       IN  IF kind = "cleanup"
           THEN unheard' = unheard \cup {<<id, "silent">>} /\ UNCHANGED wireq
           ELSE IF link THEN wireq' = Append(wireq, id) /\ UNCHANGED unheard
           ELSE unheard' = unheard \cup {<<id, "link">>} /\ UNCHANGED wireq
    /\ UNCHANGED <<feed, link, sub, chanq, chanOpen, busClosed, panicked, heard, skips, breaks>>

\* Mutant: the stream is left after an event that is not forwarded.
DeliverStops ==
    /\ link /\ wireq # <<>> /\ ~panicked
    /\ ~(feed = "mongo" /\ hitsOnlyUpdate(commits[Head(wireq)]))
    /\ SendTo(Head(wireq)) /\ wireq' = Tail(wireq)
    /\ UNCHANGED <<feed, link, sub, chanOpen, busClosed, commits, heard, skips, breaks>>

\* runListen, consumeStream: the next notification reaches the subscriber.
Deliver ==
    /\ link /\ wireq # <<>> /\ ~panicked
    /\ LET id == Head(wireq)
       IN  IF feed = "mongo" /\ hitsOnlyUpdate(commits[id])
           THEN skips' = skips \cup {id} /\ UNCHANGED <<chanq, panicked, unheard>>
           ELSE SendTo(id) /\ UNCHANGED skips
    /\ wireq' = Tail(wireq)
    /\ UNCHANGED <<feed, link, sub, chanOpen, busClosed, commits, heard, breaks>>

\* pgBus.Publish also fans the event out in its own process; mongoBus.Publish
\* does nothing.
Publish(t) ==
    /\ feed = "pg" /\ ~busClosed /\ ~panicked /\ Len(commits) < MaxCommits
    /\ commits' = Append(commits, [kind |-> "write", tenant |-> t, bare |-> FALSE])
    /\ LET id == Len(commits) + 1
       IN  /\ wireq' = IF link THEN Append(wireq, id) ELSE wireq
           /\ IF Listening /\ chanOpen /\ Fits(t) /\ Len(chanq) < FeedCap
              THEN chanq' = Append(chanq, [id |-> id, tenant |-> t]) /\ UNCHANGED unheard
              ELSE UNCHANGED chanq /\ unheard' = IF link THEN unheard ELSE unheard \cup {<<id, "link">>}
    /\ UNCHANGED <<feed, link, sub, chanOpen, busClosed, panicked, heard, skips, breaks>>

\* The connection or the stream breaks; what was on its way is lost, and the
\* next one starts at the present.
Break ==
    /\ link /\ breaks < MaxBreaks /\ breaks' = breaks + 1
    /\ link' = FALSE /\ wireq' = <<>>
    /\ unheard' = unheard \cup {<<wireq[i], "link">> : i \in DOMAIN wireq}
    /\ UNCHANGED <<feed, sub, chanq, chanOpen, busClosed, panicked, commits, heard, skips>>

\* listenLoop, runStream: (re)connected after a delay.  The stream is opened
\* for the first subscriber, and stays for the next.
Connect ==
    /\ ~link /\ ~busClosed /\ link' = TRUE
    /\ feed = "mongo" => sub # "none"
    /\ UNCHANGED <<feed, wireq, sub, chanq, chanOpen, busClosed, panicked, commits,
                   heard, unheard, skips, breaks>>

Subscribe(prefix) ==
    /\ sub = "none" /\ ~busClosed
    /\ sub' = prefix /\ chanOpen' = TRUE
    /\ UNCHANGED <<feed, link, wireq, chanq, busClosed, panicked, commits, heard,
                   unheard, skips, breaks>>

Receive ==
    /\ Listening /\ chanq # <<>>
    /\ heard' = Append(heard, Head(chanq)) /\ chanq' = Tail(chanq)
    /\ UNCHANGED <<feed, link, wireq, sub, chanOpen, busClosed, panicked, commits,
                   unheard, skips, breaks>>

\* Mutant: the channel is closed before the subscription goes.
UnsubscribeTwoSteps ==
    /\ Listening
    /\ chanOpen' = FALSE
    /\ sub' = IF chanOpen THEN sub ELSE "left"
    /\ UNCHANGED <<feed, link, wireq, chanq, busClosed, panicked, commits, heard,
                   unheard, skips, breaks>>

\* The subscriber's context ends: the subscription goes and its channel is
\* closed under one lock.
Unsubscribe ==
    /\ Listening
    /\ sub' = "left" /\ chanOpen' = FALSE
    /\ UNCHANGED <<feed, link, wireq, chanq, busClosed, panicked, commits, heard,
                   unheard, skips, breaks>>

\* Close: pgBus stops listening, mongoBus also closes the channels.
CloseBus ==
    /\ ~busClosed /\ busClosed' = TRUE /\ link' = FALSE /\ wireq' = <<>>
    /\ unheard' = unheard \cup {<<wireq[i], "link">> : i \in DOMAIN wireq}
    /\ IF feed = "mongo" /\ Listening THEN chanOpen' = FALSE /\ sub' = "left"
       ELSE UNCHANGED <<chanOpen, sub>>
    /\ UNCHANGED <<feed, chanq, panicked, commits, heard, skips, breaks>>

FeedNext ==
    \/ \E k \in Kinds, t \in FeedTenants, bare \in BOOLEAN : Commit(k, t, bare)
    \/ \E t \in FeedTenants : Publish(t)
    \/ \E p \in FeedTenants \cup {"all"} : Subscribe(p)
    \/ Deliver \/ Break \/ Connect \/ Receive \/ Unsubscribe \/ CloseBus

(********************************* properties ********************************)

Ids(s) == {s[i].id : i \in DOMAIN s}

\* Why commit id went unheard, and when it may: without a link, on a full
\* channel, before anyone subscribed or after they left; silently only a
\* cleanup on PostgreSQL, unmatched only what the subscription does not ask for.
Excuse(id, why) ==
    /\ <<id, why>> \in unheard
    /\ \/ why \in {"link", "full", "nobody"}
       \/ why = "silent" /\ commits[id].kind = "cleanup"
       \/ why = "unmatched" /\ sub # "all" /\ (sub = "left" \/ ~Matches(id))

\* A commit the subscriber does not hear of has an excuse, or changed nothing
\* but a hit counter; a notification never reaches a channel that is closed
\* (dispatch, deliverLocal).
FeedAccounts ==
    /\ ~panicked
    /\ \A id \in DOMAIN commits :
          \/ \E i \in DOMAIN wireq : wireq[i] = id
          \/ id \in Ids(chanq) \cup Ids(heard)
          \/ \E why \in {"link", "full", "nobody", "silent", "unmatched"} : Excuse(id, why)
          \/ id \in skips /\ commits[id].kind = "hits"

\* An event carries the tenant of its write, or none, which only a deletion on
\* MongoDB or a write told without one does, and it reached a subscription its
\* topic begins with.
FeedRoutes ==
    \A i \in DOMAIN heard :
        LET e == heard[i]
            c == commits[e.id]
        IN  /\ \/ e.tenant = c.tenant
               \/ e.tenant = Bare /\ (c.bare \/ c.kind = "delete")
            /\ sub # "left" => Fits(e.tenant)

\* A notification on its way to a subscriber arrives, or is dropped, or the
\* link breaks (runListen, consumeStream).
OnItsWay(id) == \E i \in DOMAIN wireq : wireq[i] = id
Arrives(id) ==
    id \in Ids(heard) \cup {u[1] : u \in unheard} \cup skips \/ ~Listening \/ busClosed
=============================================================================

---------------------------- MODULE TeamsBridge -----------------------------
(* snooze-teams: a webhook that posts alerts to channels, new or under the   *)
(* message that first showed them, and a poller that carries out what people *)
(* answer there.  A message's id and its creation time are its place in the  *)
(* channel.                                                                  *)
EXTENDS Naturals, Sequences, FiniteSets, FiniteSetsExt, SequencesExt

CONSTANTS
    Records,
    Chans,           \* the channels whose reference parseChannelRef accepts
    Home,            \* the channel the daemon polls
    AlertRequests,   \* bodies of /alert: sequences of [alert, channels]
    Verbs,           \* what people type: "comment" (and ack, close, open,
                     \* esc), "snooze", "badsnooze" (no duration), "help"
    PageSize,        \* messages Graph lists
    Listings,        \* what it lists: "top", the messages of the channel, as
                     \* fetchMessages says, or "all", the answers in threads
                     \* too, as parseCommand and its tests have it
    SeenMax, ThreadMax,
    Lookback,        \* poll_lookback, in messages
    FirstShown,      \* records whose alert may have been posted before
    MaxAlerts, MaxChat, MaxChatFaults

VARIABLES
    chat,      \* channel -> its messages
    threads,   \* threadCache, the most recently used first
    seen, since,
    polling,   \* the poll loop: step, page, the command in hand
    alertReq,  \* the /alert request being served
    stamped,   \* record -> channel -> the root a former answer named
    acts,      \* what the server did for a message, in order
    forgot,    \* messages evicted from seen
    looked,    \* messages the poller has looked at
    said, alerted, chatFaults, listing

teamsVars == <<chat, threads, seen, since, polling, alertReq, stamped, acts, forgot,
               looked, said, alerted, chatFaults, listing>>

NoId == 0
NoUid == ""
Resting == [step |-> "rest"]
NoRequest == [step |-> "none"]

Message(by, root, verb, about, re) ==
    [by |-> by, root |-> root, verb |-> verb, about |-> about, re |-> re]
IsRoot(ch, id) == id \in DOMAIN chat[ch] /\ chat[ch][id].root = NoId
Fault == chatFaults < MaxChatFaults /\ chatFaults' = chatFaults + 1

(******************************** threadCache ********************************)

\* Mutant: the channel is not part of the key.
threadKeyBare(ch, id) == <<"", id>>

threadKey(ch, id) == <<ch, id>>

Has(th, key) == \E i \in DOMAIN th : th[i].key = key
Place(th, key) == CHOOSE i \in DOMAIN th : th[i].key = key
Without(th, key) == IF Has(th, key) THEN RemoveAt(th, Place(th, key)) ELSE th

\* Put: replaced in place, or at the front with the last one evicted.
Put(th, key, uid) ==
    <<[key |-> key, uid |-> uid]>> \o
        (IF Has(th, key) \/ Len(th) < ThreadMax THEN Without(th, key) ELSE Front(th))

\* Get: the record, and the entry moved to the front.
Get(key) == IF Has(threads, key) THEN threads[Place(threads, key)].uid ELSE NoUid
Touched(key) ==
    IF Has(threads, key) THEN <<threads[Place(threads, key)]>> \o Without(threads, key) ELSE threads

\* The daemon has just started, or it has posted a first alert already, whose
\* root the record carries.
TeamsInit ==
    /\ \E shown \in {{}} \cup {{r} : r \in FirstShown} :
         /\ chat = [ch \in Chans |-> IF ch = Home /\ shown # {}
                        THEN <<Message("bot", NoId, "card", shown, NoId)>> ELSE <<>>]
         /\ threads = [i \in 1..Cardinality(shown) |->
                        [key |-> threadKey(Home, 1), uid |-> CHOOSE r \in shown : TRUE]]
         /\ stamped = [r \in Records |-> [ch \in Chans |->
                        IF ch = Home /\ r \in shown THEN 1 ELSE NoId]]
    /\ seen = {} /\ since = 0 /\ polling = Resting /\ alertReq = NoRequest
    /\ acts = <<>> /\ forgot = {} /\ looked = {} /\ said = 0 /\ alerted = 0 /\ chatFaults = 0
    /\ listing \in Listings

(******************************* the /alert side ******************************)

Refs(body) == UNION {ToSet(body[i].channels) : i \in DOMAIN body}

\* Mutant: every alert of the request goes to every channel.
GroupAll(body, ch) == DOMAIN body

\* The places in a request of the alerts that name the channel, and the alerts.
Group(body, ch) == {i \in DOMAIN body : ch \in ToSet(body[i].channels)}
Alerts(body, ch) == {body[i].alert : i \in Group(body, ch)}

\* The last pointer wins.
ReplyTo(body, ch) ==
    LET named == {i \in Group(body, ch) : stamped[body[i].alert][ch] # NoId}
    IN  IF named = {} THEN NoId ELSE stamped[body[Max(named)].alert][ch]

\* The channels are gone through in the order the request first mentions them.
IsNext(ch) ==
    LET body == alertReq.body
    IN  \E i \in DOMAIN body : \E j \in DOMAIN body[i].channels :
          /\ body[i].channels[j] = ch
          /\ \A k \in 1..i : \A l \in DOMAIN body[k].channels :
                k < i \/ l < j => body[k].channels[l] \notin alertReq.todo

\* handleAlert: the request is decoded and grouped by channel; a reference
\* that cannot be parsed has failed already.
handleAlert ==
    /\ alertReq = NoRequest /\ alerted < MaxAlerts /\ alerted' = alerted + 1
    /\ \E body \in AlertRequests :
         alertReq' = [step |-> "post", body |-> body, todo |-> Refs(body) \cap Chans, at |-> Home,
                      replyTo |-> [ch \in Chans |-> ReplyTo(body, ch)],
                      failed |-> Refs(body) \ Chans,
                      ids |-> [ch \in Chans |-> NoId], posted |-> [ch \in Chans |-> NoId]]
    /\ UNCHANGED <<chat, threads, seen, since, polling, stamped, acts, forgot, looked, said,
                   chatFaults, listing>>

\* formatEscalationReply under a root, formatAlertsCard without one.
AlertMessage(ch) ==
    LET root == alertReq.replyTo[ch]
    IN  Message("bot", root, IF root = NoId THEN "card" ELSE "escalation",
                Alerts(alertReq.body, ch), NoId)

\* Graph takes a reply only under a root.
Accepts(ch, m) == m.root = NoId \/ IsRoot(ch, m.root)

\* sendMessage: posted and answered ...
AlertPosted ==
    /\ alertReq.step = "post"
    /\ \E ch \in alertReq.todo :
         /\ IsNext(ch) /\ Accepts(ch, AlertMessage(ch))
         /\ chat' = [chat EXCEPT ![ch] = Append(@, AlertMessage(ch))]
         /\ alertReq' = [alertReq EXCEPT !.step = "cache", !.todo = @ \ {ch}, !.at = ch,
                                         !.posted[ch] = Len(chat[ch]) + 1]
    /\ UNCHANGED <<threads, seen, since, polling, stamped, acts, forgot, looked, said, alerted,
                   chatFaults, listing>>

\* ... or not answered, posted all the same or not: the channel has failed.
AlertFails ==
    /\ alertReq.step = "post"
    /\ \E ch \in alertReq.todo :
         /\ IsNext(ch)
         /\ IF Accepts(ch, AlertMessage(ch))
            THEN Fault /\ chat' \in {chat, [chat EXCEPT ![ch] = Append(@, AlertMessage(ch))]}
            ELSE UNCHANGED <<chat, chatFaults>>
         /\ alertReq' = [alertReq EXCEPT !.todo = @ \ {ch}, !.failed = @ \cup {ch}]
    /\ UNCHANGED <<threads, seen, since, polling, stamped, acts, forgot, looked, said, alerted, listing>>

\* Mutant: the answer names the message just posted.
RootNewest(ch) == alertReq.posted[ch]

\* The root the next alert goes under: the one this was put under, or itself.
RootOf(ch) ==
    IF alertReq.replyTo[ch] # NoId THEN alertReq.replyTo[ch] ELSE alertReq.posted[ch]

\* Every alert of the message is put under the message's own id, each in the
\* place of the one before it.
Cache ==
    /\ alertReq.step = "cache"
    /\ LET ch == alertReq.at
           last == Max(Group(alertReq.body, ch))
       IN  /\ threads' = Put(threads, threadKey(ch, alertReq.posted[ch]), alertReq.body[last].alert)
           /\ alertReq' = [alertReq EXCEPT !.step = "post", !.ids[ch] = RootOf(ch)]
    /\ UNCHANGED <<chat, seen, since, polling, stamped, acts, forgot, looked, said, alerted, chatFaults, listing>>

\* The answer; the webhook stamps it on its records, unless it is lost.
AlertAnswered ==
    /\ alertReq.step = "post" /\ alertReq.todo = {}
    /\ alertReq' = NoRequest
    /\ \/ /\ stamped' = [r \in Records |-> [ch \in Chans |->
                IF r \in Alerts(alertReq.body, ch) /\ alertReq.ids[ch] # NoId
                THEN alertReq.ids[ch] ELSE stamped[r][ch]]]
          /\ UNCHANGED chatFaults
       \/ Fault /\ UNCHANGED stamped
    /\ UNCHANGED <<chat, threads, seen, since, polling, acts, forgot, looked, said, alerted, listing>>

(********************************* the poller ********************************)

\* markSeen, the memory that is left when it is full: what is more than an
\* hour old goes, or else any one of them.
Pruned == IF Cardinality(seen) < SeenMax THEN {seen} ELSE SUBSET seen \ {seen}

\* Mutant: the message is looked for and not recorded.
markSeenNot(id) == seen' = seen /\ forgot' = forgot

markSeen(id) ==
    \E left \in Pruned :
        /\ seen' = left \cup {id}
        /\ forgot' = forgot \cup (seen \ left)

\* fetchMessages: the newest of the messages Graph lists, the newest first.
Shown == {id \in DOMAIN chat[Home] : listing = "all" \/ chat[Home][id].root = NoId}
Newer(id) == {j \in Shown : j > id}
Page ==
    LET newest == {id \in Shown : Cardinality(Newer(id)) < PageSize}
    IN  {p \in [1..Cardinality(newest) -> newest] :
            \A i \in DOMAIN p : Cardinality(Newer(p[i])) = i - 1}

\* The loop at the first message of a page that is not seen; without one the
\* poll is over.
Turn(page, known) ==
    LET new == {i \in DOMAIN page : page[i] \notin known}
    IN  IF new = {} THEN Resting
        ELSE [step |-> "page", page |-> SubSeq(page, Min(new), Len(page))]

pollOnce ==
    /\ polling.step = "rest" /\ \E page \in Page : polling' = Turn(page, seen)
    /\ UNCHANGED <<chat, threads, seen, since, alertReq, stamped, acts, forgot, looked, said, alerted,
                   chatFaults, listing>>

\* Mutant: a poll that fails ends the loop.
FetchFailsEnds ==
    /\ polling.step = "rest" /\ Fault /\ polling' = [step |-> "ended"]
    /\ UNCHANGED <<chat, threads, seen, since, alertReq, stamped, acts, forgot, looked, said, alerted, listing>>

\* A poll that fails is logged.
FetchFails ==
    /\ polling.step = "rest" /\ Fault
    /\ UNCHANGED <<chat, threads, seen, since, polling, alertReq, stamped, acts, forgot, looked, said,
                   alerted, listing>>

\* isSelfMessage: the marker in what the daemon posts.
isSelfMessage(m) == m.by = "bot"

\* parseCommand: a reply's thread is its root's, another message's its own.
ThreadId(id) == IF chat[Home][id].root = NoId THEN id ELSE chat[Home][id].root

\* Handle, up to its call: help, a thread that is not known and a duration that
\* is not one are answered at once.
Handle(id) ==
    LET key == threadKey(Home, ThreadId(id))
        verb == chat[Home][id].verb
        uid == IF verb = "help" THEN NoUid ELSE Get(key)
        at(s) == [step |-> s, page |-> Tail(polling.page), id |-> id, uid |-> uid, ok |-> FALSE]
    IN  /\ threads' = IF verb = "help" THEN threads ELSE Touched(key)
        /\ polling' = IF uid = NoUid \/ verb = "badsnooze" THEN at("reply")
                      ELSE IF verb = "snooze" THEN at("snooze") ELSE at("comment")

\* The next message of the page: too old, the daemon's own, or a command.
Take ==
    /\ polling.step = "page"
    /\ LET id == Head(polling.page)
       IN  /\ markSeen(id) /\ looked' = looked \cup {id}
           /\ IF id < since \/ isSelfMessage(chat[Home][id])
              THEN polling' = Turn(Tail(polling.page), seen') /\ UNCHANGED threads
              ELSE Handle(id)
    /\ UNCHANGED <<chat, since, alertReq, stamped, acts, said, alerted, chatFaults, listing>>

Act(kind) == Append(acts, [id |-> polling.id, uid |-> polling.uid, kind |-> kind])

\* PostComment, or CreateSnooze: taken, or failed and taken all the same or not.
Comment ==
    /\ polling.step = "comment"
    /\ \/ acts' = Act("comment") /\ polling' = [polling EXCEPT !.step = "reply", !.ok = TRUE]
          /\ UNCHANGED chatFaults
       \/ Fault /\ acts' \in {acts, Act("comment")} /\ polling' = [polling EXCEPT !.step = "reply"]
    /\ UNCHANGED <<chat, threads, seen, since, alertReq, stamped, forgot, looked, said, alerted, listing>>

handleSnooze ==
    /\ polling.step = "snooze"
    /\ \/ acts' = Act("snooze") /\ polling' = [polling EXCEPT !.step = "ack", !.ok = TRUE]
          /\ UNCHANGED chatFaults
       \/ Fault /\ acts' \in {acts, Act("snooze")} /\ polling' = [polling EXCEPT !.step = "reply"]
    /\ UNCHANGED <<chat, threads, seen, since, alertReq, stamped, forgot, looked, said, alerted, listing>>

\* The acknowledgement that goes with a snooze; its failure is ignored.
BestEffortAck ==
    /\ polling.step = "ack" /\ polling' = [polling EXCEPT !.step = "reply"]
    /\ (acts' = Act("ack") /\ UNCHANGED chatFaults) \/ (Fault /\ UNCHANGED acts)
    /\ UNCHANGED <<chat, threads, seen, since, alertReq, stamped, forgot, looked, said, alerted, listing>>

\* Mutant: the error is not looked at.
replyOnceCheerful(ok) == "ok"

\* replyOnce, replyEsc: what the thread is told.
replyOnce(ok) == IF ok THEN "ok" ELSE "error"

\* reply, whose failure is logged; then the high-water mark.
Reply ==
    /\ polling.step = "reply"
    /\ LET m == Message("bot", ThreadId(polling.id), replyOnce(polling.ok), {}, polling.id)
       IN  \/ chat' = [chat EXCEPT ![Home] = Append(@, m)] /\ UNCHANGED chatFaults
           \/ Fault /\ UNCHANGED chat
    /\ since' = IF polling.id > since THEN polling.id ELSE since
    /\ polling' = Turn(polling.page, seen)
    /\ UNCHANGED <<threads, seen, alertReq, stamped, acts, forgot, looked, said, alerted, listing>>

(************************************ people **********************************)

\* A message in the channel, or an answer in one of its threads.
Say(verb, root) ==
    /\ said < MaxChat /\ said' = said + 1
    /\ root = NoId \/ IsRoot(Home, root)
    /\ chat' = [chat EXCEPT ![Home] = Append(@, Message("person", root, verb, {}, NoId))]
    /\ UNCHANGED <<threads, seen, since, polling, alertReq, stamped, acts, forgot, looked, alerted, chatFaults, listing>>

\* New: the caches are empty, the mark is poll_lookback before the present.
RestartTeams ==
    /\ Fault
    /\ threads' = <<>> /\ seen' = {} /\ polling' = Resting /\ alertReq' = NoRequest
    /\ since' = IF Len(chat[Home]) < Lookback THEN 0 ELSE Len(chat[Home]) + 1 - Lookback
    /\ UNCHANGED <<chat, stamped, acts, forgot, looked, said, alerted, listing>>

PollStep ==
    \/ pollOnce \/ Take \/ Comment \/ handleSnooze \/ BestEffortAck \/ Reply

TeamsNext ==
    \/ handleAlert \/ AlertPosted \/ AlertFails \/ Cache \/ AlertAnswered
    \/ PollStep \/ FetchFails \/ RestartTeams
    \/ \E verb \in Verbs, root \in 0..Len(chat[Home]) : Say(verb, root)

(********************************* properties ********************************)

\* What a person's answer does, it does to a record the message at the root of
\* its thread shows, and once: also after a restart, and unless the message was
\* evicted from seen while it was the newest one handled (Handle, markSeen).
ActsOnItsThread ==
    /\ \A i \in DOMAIN acts :
          LET root == ThreadId(acts[i].id)
          IN  root # acts[i].id /\ acts[i].uid \in chat[Home][root].about
    /\ \A i, j \in DOMAIN acts :
          i < j /\ acts[i].id = acts[j].id /\ acts[i].kind = acts[j].kind => acts[i].id \in forgot

\* The root kept for a record is a message replies can be put under
\* (handleAlert).
RootsAreRoots ==
    \A r \in Records, ch \in Chans : stamped[r][ch] # NoId => IsRoot(ch, stamped[r][ch])

\* A thread is told that its command was carried out only if the server has
\* carried it out; a channel is answered as delivered only if it shows the
\* alerts meant for it and no other, and every channel is answered one way
\* (replyOnce, handleAlert).
ToldWasDone ==
    /\ \A k \in DOMAIN chat[Home] : isSelfMessage(chat[Home][k]) /\ chat[Home][k].verb = "ok" =>
          \E i \in DOMAIN acts : acts[i].id = chat[Home][k].re
    /\ alertReq.step = "post" /\ alertReq.todo = {} =>
          \A ch \in Refs(alertReq.body) : IF ch \in alertReq.failed THEN TRUE
             ELSE chat[ch][alertReq.posted[ch]].about =
                    {alertReq.body[i].alert : i \in {i \in DOMAIN alertReq.body :
                                                       ch \in ToSet(alertReq.body[i].channels)}}

\* What a person says is looked at if Graph lists it, or scrolls off the page
\* first (pollOnce); an answer in a thread is not listed with the channel's
\* messages and is never looked at.
Said(id) == id \in Shown /\ chat[Home][id].by = "person"
LookedAt(id) == id \in looked \/ Cardinality(Newer(id)) >= PageSize
=============================================================================

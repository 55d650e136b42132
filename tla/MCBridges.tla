----------------------------- MODULE MCBridges ------------------------------
(***************************************************************************)
(* The programs around the server on small instances.  A behaviour is      *)
(* about one topic: "jira" (tickets), "frames" (RELP framing), "relp" (a   *)
(* session), "smtp" (mail), "collect" (syslog and traps), "kube" (cluster  *)
(* events), "feed" (the databases' change feeds), "client" (the shared     *)
(* HTTP client), "teams" (chat) and "graph" (the tokens of that).          *)
(***************************************************************************)
EXTENDS Integers, Sequences

CONSTANTS Topics

CONSTANTS Hashes, Handlers, Batches, MessageLimit, RetryAttempts, PollMaxResults, Queries, Workflow,
          InitialStatus, ReopenClosed, ReopenStatusName, PriorityAsString, MaxTickets,
          MaxJiraFaults, MaxEdits
VARIABLES issues, recs, req, users, tracked, poll, resolved, skipped, jfaults, edits, jql
Jira == INSTANCE JiraBridge
jira == <<issues, recs, req, users, tracked, poll, resolved, skipped, jfaults, edits, jql>>

CONSTANTS Payloads, Malformed, MaxFrameLen, MaxDigits, MaxToken, ReadTimeouts, MaxTxns,
          MaxPostFaults
VARIABLES conn, wire, replies, txn, acked, posted, serving, deadline, pfaults, sent
RelpD == INSTANCE Relp
relp == <<conn, wire, replies, txn, acked, posted, serving, deadline, pfaults, sent>>

CONSTANTS Senders, AllowedSenders, Rcpts, Bodies, MaxMessageBytes, AuthRequired, HasTLS,
          MaxCommands, MaxMailFaults
VARIABLES sess, peer, reply, mails, meant, taken, told, commands, mfaults
Smtp == INSTANCE SmtpServer
smtp == <<sess, peer, reply, mails, meant, taken, told, commands, mfaults>>

CONSTANTS Peers, QueueSize, MaxArrivals, MaxCollectFaults
VARIABLES intake, socket, hand, queue, listener, cancelled, running, what, end, wasPosted,
          cfaults
Coll == INSTANCE Collectors
coll == <<intake, socket, hand, queue, listener, cancelled, running, what, end, wasPosted,
          cfaults>>

CONSTANTS EventKeys, DedupWindow, BackoffMax, IncludeNormal, MaxVersion, MaxKubeTime,
          MaxKubeFaults
VARIABLES log, floor, rv, stream, delay, dedup, ktime, kfaults, fate, attempts
Kube == INSTANCE KubeWatch
kube == <<log, floor, rv, stream, delay, dedup, ktime, kfaults, fate, attempts>>

CONSTANTS FeedCap, FeedTenants, SlugPrefix, MaxCommits, MaxBreaks
VARIABLES feed, link, wireq, sub, chanq, chanOpen, busClosed, panicked, commits, heard,
          unheard, skips, breaks
Feed == INSTANCE ChangeFeeds
feeds == <<feed, link, wireq, sub, chanq, chanOpen, busClosed, panicked, commits, heard,
           unheard, skips, breaks>>

CONSTANTS Calls, MaxRetries, HasCredentials, MaxLogins, MaxNetFaults
VARIABLES token, file, valid, ingest, call, took, tries, spoiled, logins, nfaults
Cli == INSTANCE SnoozeClient
cli == <<token, file, valid, ingest, call, took, tries, spoiled, logins, nfaults>>

CONSTANTS Records, Chans, Home, AlertRequests, Verbs, PageSize, Listings, SeenMax, ThreadMax, Lookback,
          FirstShown, MaxAlerts, MaxChat, MaxChatFaults
VARIABLES chat, threads, seen, since, polling, alertReq, stamped, acts, forgot, looked, said,
          alerted, chatFaults, listing
Teams == INSTANCE TeamsBridge
teams == <<chat, threads, seen, since, polling, alertReq, stamped, acts, forgot, looked, said,
           alerted, chatFaults, listing>>

CONSTANTS Callers, DeviceExpiry, DeviceInterval, SlowDown, DevicePollMaxInterval, MaxTokens,
          MaxGraphFaults
VARIABLES gmode, gmem, fresh, accepted, aad, gfile, gtmp, loaded, gcall, gsends, device, overlap,
          glost, tokens, gfaults
Graph == INSTANCE GraphToken
graph == <<gmode, gmem, fresh, accepted, aad, gfile, gtmp, loaded, gcall, gsends, device, overlap,
           glost, tokens, gfaults>>

\* Mail is made of lines, retries are counted, and the poller has its channel.
ASSUME BridgesAssumption ==
    Bodies \subseteq Seq(Seq(STRING)) /\ MaxRetries \in Nat /\ Home \in Chans

\* Windows, limits, pages and attempts are counted, a listener has a socket,
\* and requests are lists.
ASSUME SourcesAssumption ==
    /\ DedupWindow \in Nat /\ MessageLimit \in Nat /\ PageSize \in Nat
    /\ RetryAttempts \in Nat \ {0} /\ Peers # {}
    /\ Batches \subseteq Seq([hash : STRING, prior : Nat, assignee : STRING])
    /\ AlertRequests \subseteq Seq([alert : Records, channels : Seq(STRING)])

VARIABLES topic, frames
others == <<smtp, coll, feeds, cli, teams, graph>>
vars == <<topic, frames, jira, relp, kube, others>>

--------------------------------------------------------------------------
(* Inputs                                                                  *)

Envelope(h, k, a) == [hash |-> h, prior |-> k, assignee |-> a]
MCBatches == {<<Envelope("h1", 0, "u@x"), Envelope("h2", 0, "")>>,
              <<Envelope("", 0, ""), Envelope("h1", 1, ""), Envelope("h2", 0, "")>>}
MCWorkflow == [todo |-> {"doing", "done"}, doing |-> {"done"}, done |-> {"doing"}]

MCPayloads == {<<"1">>, <<"2", "LF">>}
MCMalformed == {<<"1">>}
MCData == {<<>>, <<"1">>, <<"LF", "0">>, <<"SP", "1", "SP">>, [i \in 1..11 |-> "2"],
           [i \in 1..13 |-> "0"]}
MCFrames == {RelpD!Frame(t, c, d) : t \in {0, 9, 12}, c \in {<<"o">>, <<"s", "x">>}, d \in MCData}

MCAlertRequests ==
    {<<[alert |-> "r1", channels |-> <<"home">>]>>,
     <<[alert |-> "r1", channels |-> <<"other", "home">>],
       [alert |-> "r2", channels |-> <<"home", "bad">>]>>}

MCBodies == {<<>>, << <<".">>, <<"a">> >>, << <<"a">>, <<".", ".", "a">>, <<>> >>,
             << <<"a", "a", "a", "a">>, <<"a", "a", "a", "a">> >>}

MCSlugPrefix == {<<"x", "xy">>}

AddFrame(f) == Len(frames) < 2 /\ frames' = Append(frames, f)

--------------------------------------------------------------------------
Init ==
    /\ topic \in Topics /\ frames = <<>>
    /\ Smtp!SmtpInit /\ Kube!KubeInit
    /\ Jira!JiraInit /\ (topic # "jira" => jql = "default")
    /\ RelpD!RelpInit /\ (topic # "relp" => deadline = TRUE)
    /\ Coll!CollectInit /\ (topic # "collect" => intake = "udp")
    /\ Feed!FeedInit /\ (topic # "feed" => feed = "pg")
    /\ Cli!ClientInit /\ (topic # "client" => file = 1 /\ ingest = "none")
    /\ Teams!TeamsInit /\ (topic # "teams" => threads = <<>> /\ listing = "top")
    /\ Graph!GraphInit /\ (topic # "graph" => gmode = "app")

InJira(A) == topic = "jira" /\ A /\ UNCHANGED <<topic, frames, relp, kube, others>>
InFrames(A) == topic = "frames" /\ A /\ UNCHANGED <<topic, jira, relp, kube, others>>
InRelp(A) == topic = "relp" /\ A /\ UNCHANGED <<topic, frames, jira, kube, others>>
InKube(A) == topic = "kube" /\ A /\ UNCHANGED <<topic, frames, jira, relp, others>>
Still == UNCHANGED <<topic, frames, jira, relp, kube>>
InSmtp(A) == topic = "smtp" /\ A /\ Still /\ UNCHANGED <<coll, feeds, cli, teams, graph>>
InColl(A) == topic = "collect" /\ A /\ Still /\ UNCHANGED <<smtp, feeds, cli, teams, graph>>
InFeed(A) == topic = "feed" /\ A /\ Still /\ UNCHANGED <<smtp, coll, cli, teams, graph>>
InCli(A) == topic = "client" /\ A /\ Still /\ UNCHANGED <<smtp, coll, feeds, teams, graph>>
InTeams(A) == topic = "teams" /\ A /\ Still /\ UNCHANGED <<smtp, coll, feeds, cli, graph>>
InGraph(A) == topic = "graph" /\ A /\ Still /\ UNCHANGED <<smtp, coll, feeds, cli, teams>>

Next ==
    \/ InJira(Jira!JiraNext) \/ InRelp(RelpD!RelpNext) \/ InSmtp(Smtp!SmtpNext)
    \/ InColl(Coll!CollectNext) \/ InKube(Kube!KubeNext) \/ InFeed(Feed!FeedNext)
    \/ InCli(Cli!ClientNext) \/ InTeams(Teams!TeamsNext) \/ InGraph(Graph!GraphNext)
    \/ InFrames(\E f \in MCFrames : AddFrame(f))

\* The ticker and the loops of the daemons, the server's and the peer's ends of
\* a connection that is up, and the requests in flight, go on.
Fairness ==
    /\ WF_vars(InJira(Jira!cycle)) /\ WF_vars(InJira(Jira!closeSnoozeRecord))
    /\ WF_vars(InJira(Jira!CycleEnds))
    /\ WF_vars(InRelp(RelpD!Session)) /\ WF_vars(InRelp(RelpD!ServeEnds))
    /\ \A p \in Peers : WF_vars(InColl(Coll!CollectStep(p)))
    /\ WF_vars(InColl(Coll!Work))
    /\ WF_vars(InKube(Kube!Open)) /\ WF_vars(InKube(Kube!Gone)) /\ WF_vars(InKube(Kube!Consume))
    /\ WF_vars(InFeed(Feed!Deliver)) /\ WF_vars(InFeed(Feed!Receive))
    /\ \A c \in Calls : WF_vars(InCli(Cli!CallStep(c)))
    /\ WF_vars(InTeams(Teams!PollStep)) /\ WF_vars(InGraph(Graph!pollForToken))

Spec == Init /\ [][Next]_vars /\ Fairness

--------------------------------------------------------------------------
ClosedWithTicket == Jira!ClosedWithTicket
TicketsBounded == Jira!TicketsBounded
EveryEnvelopeTried == Jira!EveryEnvelopeTried
RelpAckedWasPosted == RelpD!RelpAckedWasPosted
MailAsMeant == Smtp!MailAsMeant
MailAccepted == Smtp!MailAccepted
MailAllowed == Smtp!MailAllowed
CollectedOnce == Coll!CollectedOnce
NothingSkipped == Kube!NothingSkipped
SuppressedInWindow == Kube!SuppressedInWindow
FeedAccounts == Feed!FeedAccounts
FeedRoutes == Feed!FeedRoutes
ClientOkWasTaken == Cli!ClientOkWasTaken
ReloginHelps == Cli!ReloginHelps
ActsOnItsThread == Teams!ActsOnItsThread
RootsAreRoots == Teams!RootsAreRoots
ToldWasDone == Teams!ToldWasDone
SentTwiceAtMost == Graph!SentTwiceAtMost
TokenFileWhole == Graph!TokenFileWhole
GrantKept == Graph!GrantKept

\* A stream of RELP frames cut anywhere yields the frames that came whole, as
\* they were written, up to one that is longer than the limit, which is refused,
\* and nothing else (ReadFrame, WriteFrame).
FramesRoundTrip == \A n \in 0..Len(RelpD!Stream(frames)) : RelpD!CutRoundTrip(frames, n)

\* What a sender was told was accepted is on the server, sent no more often
\* than the retries allow and refused no one who could log in again: RELP
\* acknowledgements, SMTP replies, calls of the client, answers in a chat.
AnsweredWasForwarded ==
    /\ RelpAckedWasPosted /\ MailAsMeant /\ MailAccepted /\ MailAllowed
    /\ ClientOkWasTaken /\ ReloginHelps /\ ToldWasDone /\ SentTwiceAtMost

\* Nothing a daemon follows is lost, doubled or made up without a reason the
\* code names: tickets, syslog lines and traps, cluster events, change feeds,
\* chat commands and their threads, the grant the chat is reached with.
SourcesFollowed ==
    /\ ClosedWithTicket /\ TicketsBounded /\ EveryEnvelopeTried /\ CollectedOnce
    /\ NothingSkipped /\ SuppressedInWindow /\ FeedAccounts /\ FeedRoutes
    /\ ActsOnItsThread /\ RootsAreRoots /\ TokenFileWhole /\ GrantKept

\* The i-th thing a topic has to get done, and its end; Stop is the shutdown.
Stop == 3
Pending(i) ==
    CASE topic = "jira" -> Jira!CloseDue(i)
      [] topic = "relp" -> i = Stop /\ RelpD!ServeStopping
      [] topic = "collect" -> IF i = Stop THEN cancelled ELSE Coll!Arrived(i)
      [] topic = "kube" -> Kube!Happened(i)
      [] topic = "feed" -> Feed!OnItsWay(i)
      [] topic = "client" -> i \in Calls /\ Cli!Sending(i)
      [] topic = "teams" -> Teams!Said(i)
      [] topic = "graph" -> i = Stop /\ Graph!Authorizing
      [] OTHER -> FALSE
Settled(i) ==
    CASE topic = "jira" -> Jira!CloseDone(i)
      [] topic = "relp" -> RelpD!ServeReturned
      [] topic = "collect" -> IF i = Stop THEN Coll!CollectorStopped ELSE Coll!DealtWith(i)
      [] topic = "kube" -> Kube!Followed(i)
      [] topic = "feed" -> Feed!Arrives(i)
      [] topic = "client" -> i \notin Calls \/ Cli!CallOver(i)
      [] topic = "teams" -> Teams!LookedAt(i)
      [] topic = "graph" -> Graph!AuthorizeOver
      [] OTHER -> TRUE

\* Each daemon gets there: a resolved ticket closes its record, listeners deal
\* with what arrives and stop when told, the watch keeps up, a feed delivers,
\* a call of the client ends, what is said in a chat is looked at, authorize
\* ends (poller.Run, Serve, Listener.Start, watcher.Run, runListen,
\* consumeStream, Do, pollOnce, pollForToken).
BridgesProgress == \A i \in 1..Stop : Pending(i) ~> Settled(i)
=============================================================================

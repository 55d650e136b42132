----------------------------- MODULE Collectors -----------------------------
(* snooze-syslog and snooze-snmptrap: a datagram listener, a line listener   *)
(* with a goroutine per connection, and a trap listener that hands its traps *)
(* to one worker over a bounded queue.                                       *)
EXTENDS Naturals, Sequences, FiniteSets

CONSTANTS
    Peers,         \* TCP connections
    QueueSize,     \* defaultQueueSize
    MaxArrivals, MaxCollectFaults

VARIABLES
    intake,     \* "udp", "tcp" or "trap"
    socket,     \* peer -> messages that have arrived and not been read
    hand,       \* peer -> the message being parsed and posted
    queue,      \* traps waiting for the worker
    listener,   \* peer -> "up", "gone" (the peer closed), "ended"
    cancelled,  \* the daemon's context is done
    running,    \* Run has not returned
    what,       \* message -> its source, and "good", "bad" (the parser, or the
                \* community) or "long" (a line over tcpLineMax)
    end,        \* message -> what became of it
    wasPosted,  \* messages posted, in order
    cfaults

collectVars == <<intake, socket, hand, queue, listener, cancelled, running, what,
                 end, wasPosted, cfaults>>

NoMessage == 0
\* Datagrams and traps have one socket.
Sources == IF intake = "tcp" THEN Peers ELSE {CHOOSE p \in Peers : TRUE}
TheSource == CHOOSE p \in Sources : TRUE

CollectInit ==
    /\ intake \in {"udp", "tcp", "trap"}
    /\ socket = [p \in Peers |-> <<>>] /\ hand = [p \in Peers |-> NoMessage]
    /\ queue = <<>> /\ listener = [p \in Peers |-> IF p \in Sources THEN "up" ELSE "ended"]
    /\ cancelled = FALSE /\ running = TRUE /\ what = <<>> /\ end = <<>>
    /\ wasPosted = <<>> /\ cfaults = 0

\* The parser finds a header it knows (Parse); the trap's community is ours.
Parsed(m) == what[m].kind = "good"
Ours(m) == what[m].kind = "good"
Overlong(m) == what[m].kind = "long"

Ends(ms, how) == [m \in DOMAIN end \cup ms |-> IF m \in ms THEN how ELSE end[m]]
Msgs(s) == {s[i] : i \in DOMAIN s}

Arrive(p) ==
    /\ p \in Sources /\ listener[p] = "up" /\ Len(what) < MaxArrivals
    /\ \E k \in {"good", "bad"} \cup (IF intake = "tcp" THEN {"long"} ELSE {}) :
           what' = Append(what, [from |-> p, kind |-> k])
    /\ socket' = [socket EXCEPT ![p] = Append(@, Len(what) + 1)]
    /\ UNCHANGED <<intake, hand, queue, listener, cancelled, running, end, wasPosted, cfaults>>

PeerCloses(p) ==
    /\ intake = "tcp" /\ listener[p] = "up" /\ listener' = [listener EXCEPT ![p] = "gone"]
    /\ UNCHANGED <<intake, socket, hand, queue, cancelled, running, what, end, wasPosted, cfaults>>

\* UDPListener.Run, TCPListener.handleConn: the next message; the context is
\* looked at between messages, and for a connection only after a line has come.
\* At a line over its limit the scanner stops: the connection ends, and with it
\* what the peer had sent after that line.
TakeNext(p) ==
    /\ intake \in {"udp", "tcp"} /\ listener[p] # "ended"
    /\ hand[p] = NoMessage /\ socket[p] # <<>>
    /\ LET m == Head(socket[p])
       IN  IF cancelled \/ Overlong(m)
           THEN /\ listener' = [listener EXCEPT ![p] = "ended"]
                /\ end' = Ends(Msgs(socket[p]), IF Overlong(m) THEN "cut" ELSE "lost")
                /\ socket' = [socket EXCEPT ![p] = <<>>]
                /\ UNCHANGED hand
           ELSE /\ socket' = [socket EXCEPT ![p] = Tail(@)]
                /\ IF ~Parsed(m) THEN end' = Ends({m}, "refused") /\ UNCHANGED hand
                   ELSE hand' = [hand EXCEPT ![p] = m] /\ UNCHANGED end
                /\ UNCHANGED listener
    /\ UNCHANGED <<intake, queue, cancelled, running, what, wasPosted, cfaults>>

\* Mutant: room is made by forgetting the oldest.
EnqueueShifts ==
    /\ intake = "trap" /\ listener[TheSource] = "up" /\ socket[TheSource] # <<>>
    /\ LET m == Head(socket[TheSource])
       IN  CASE ~Ours(m) -> end' = Ends({m}, "refused") /\ UNCHANGED queue
             [] Ours(m) /\ Len(queue) = QueueSize ->
                  queue' = Append(Tail(queue), m) /\ UNCHANGED end
             [] OTHER -> queue' = Append(queue, m) /\ UNCHANGED end
    /\ socket' = [socket EXCEPT ![TheSource] = Tail(@)]
    /\ UNCHANGED <<intake, hand, listener, cancelled, running, what, wasPosted, cfaults>>

\* Listener.handle: a trap of another community is refused, one that finds the
\* queue full is dropped.
Enqueue ==
    /\ intake = "trap" /\ listener[TheSource] = "up" /\ socket[TheSource] # <<>>
    /\ LET m == Head(socket[TheSource])
       IN  CASE ~Ours(m) -> end' = Ends({m}, "refused") /\ UNCHANGED queue
             [] Ours(m) /\ Len(queue) = QueueSize ->
                  end' = Ends({m}, "dropped") /\ UNCHANGED queue
             [] OTHER -> queue' = Append(queue, m) /\ UNCHANGED end
    /\ socket' = [socket EXCEPT ![TheSource] = Tail(@)]
    /\ UNCHANGED <<intake, hand, listener, cancelled, running, what, wasPosted, cfaults>>

\* forwardLoop: the next trap; a cancelled context may win the select.
TakeTrap ==
    /\ intake = "trap" /\ running /\ hand[TheSource] = NoMessage /\ queue # <<>>
    /\ hand' = [hand EXCEPT ![TheSource] = Head(queue)] /\ queue' = Tail(queue)
    /\ UNCHANGED <<intake, socket, listener, cancelled, running, what, end, wasPosted, cfaults>>

\* Forward: the alert is posted, or the failure logged and the next one taken;
\* a cancelled context fails the post.
Posted(p) ==
    /\ hand[p] # NoMessage /\ ~cancelled
    /\ wasPosted' = Append(wasPosted, hand[p]) /\ end' = Ends({hand[p]}, "posted")
    /\ hand' = [hand EXCEPT ![p] = NoMessage]
    /\ UNCHANGED <<intake, socket, queue, listener, cancelled, running, what, cfaults>>

\* Mutant: what could not be posted is taken up again later.
PostFailsRequeues(p) ==
    /\ hand[p] # NoMessage
    /\ cancelled \/ cfaults < MaxCollectFaults
    /\ cfaults' = IF cancelled THEN cfaults ELSE cfaults + 1
    /\ socket' = [socket EXCEPT ![p] = Append(@, hand[p])]
    /\ hand' = [hand EXCEPT ![p] = NoMessage]
    /\ UNCHANGED <<intake, queue, listener, cancelled, running, what, end, wasPosted>>

PostFails(p) ==
    /\ hand[p] # NoMessage
    /\ cancelled \/ cfaults < MaxCollectFaults
    /\ cfaults' = IF cancelled THEN cfaults ELSE cfaults + 1
    /\ end' = Ends({hand[p]}, "failed")
    /\ hand' = [hand EXCEPT ![p] = NoMessage]
    /\ UNCHANGED <<intake, socket, queue, listener, cancelled, running, what, wasPosted>>

CancelDaemon ==
    /\ ~cancelled /\ cancelled' = TRUE
    /\ UNCHANGED <<intake, socket, hand, queue, listener, running, what, end, wasPosted, cfaults>>

\* Mutant: the trap listener is not closed by the context.
ListenerEndsAlone(p) ==
    /\ listener[p] # "ended" /\ hand[p] = NoMessage /\ intake # "trap"
    /\ \/ intake # "tcp" /\ cancelled
       \/ intake = "tcp" /\ listener[p] = "gone" /\ socket[p] = <<>>
    /\ listener' = [listener EXCEPT ![p] = "ended"]
    /\ end' = Ends(Msgs(socket[p]), "lost") /\ socket' = [socket EXCEPT ![p] = <<>>]
    /\ UNCHANGED <<intake, hand, queue, cancelled, running, what, wasPosted, cfaults>>

\* The read deadline lets the datagram loop see the cancelled context, the trap
\* listener is closed by it; a connection ends when its peer has closed it.
ListenerEnds(p) ==
    /\ listener[p] # "ended" /\ (hand[p] = NoMessage \/ intake = "trap")
    /\ \/ intake # "tcp" /\ cancelled
       \/ intake = "tcp" /\ listener[p] = "gone" /\ socket[p] = <<>>
    /\ listener' = [listener EXCEPT ![p] = "ended"]
    /\ end' = Ends(Msgs(socket[p]), "lost") /\ socket' = [socket EXCEPT ![p] = <<>>]
    /\ UNCHANGED <<intake, hand, queue, cancelled, running, what, wasPosted, cfaults>>

\* Run returns when its goroutines have; the worker leaves what is queued,
\* since its context went with the daemon's.
RunReturns ==
    /\ running /\ cancelled /\ \A p \in Sources : listener[p] = "ended" /\ hand[p] = NoMessage
    /\ running' = FALSE /\ end' = Ends(Msgs(queue), "lost") /\ queue' = <<>>
    /\ UNCHANGED <<intake, socket, hand, listener, cancelled, what, wasPosted, cfaults>>

CollectStep(p) == TakeNext(p) \/ Posted(p) \/ PostFails(p) \/ ListenerEnds(p)
Work == Enqueue \/ TakeTrap \/ RunReturns

CollectNext ==
    \/ \E p \in Peers : Arrive(p) \/ PeerCloses(p) \/ CollectStep(p)
    \/ Work \/ CancelDaemon

(********************************* properties ********************************)

InHand == {hand[p] : p \in Peers} \ {NoMessage}
Unread == UNION {Msgs(socket[p]) : p \in Peers}

\* Every message that arrived is in one place: unread, queued, being posted, or
\* ended in one way; only a shutdown, a full queue or a line over the limit,
\* its own or an earlier one of its connection, loses one, and a message is
\* posted once and in the order of its source.
CollectedOnce ==
    /\ \A m \in DOMAIN what :
          Cardinality({s \in {"unread", "queued", "hand", "end"} :
              \/ s = "unread" /\ m \in Unread
              \/ s = "queued" /\ m \in Msgs(queue)
              \/ s = "hand" /\ m \in InHand
              \/ s = "end" /\ m \in DOMAIN end}) = 1
    /\ \A m \in DOMAIN end :
          /\ end[m] = "lost" => cancelled
          /\ end[m] = "cut" => \E l \in DOMAIN what : l <= m /\ what[l].from = what[m].from /\ Overlong(l)
    /\ \A i, j \in DOMAIN wasPosted :
          i < j => wasPosted[i] # wasPosted[j] /\ (intake # "tcp" => wasPosted[i] < wasPosted[j])

\* What arrives is dealt with (the three loops).
Arrived(m) == m \in DOMAIN what
DealtWith(m) == m \in DOMAIN end

\* A cancelled daemon stops; the line listener once its peers have left
\* (Listener.Start, UDPListener.Run, TCPListener.Run).
CollectorStopped == ~running \/ \E p \in Sources : intake = "tcp" /\ listener[p] = "up"
=============================================================================

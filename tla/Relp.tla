-------------------------------- MODULE Relp --------------------------------
(* snooze-relp: the framing of RELP over a byte stream, and a session that   *)
(* answers each syslog frame once its alert is posted.  The peer resends a   *)
(* message until it is acknowledged, on a new connection if it must.         *)
EXTENDS Naturals, Sequences, SequencesExt

CONSTANTS
    Payloads,      \* the syslog lines the peer has to deliver
    Malformed,     \* those of them the parser refuses
    MaxFrameLen,   \* maxLen
    MaxDigits,     \* length of the buffer of a numeric field
    MaxToken,      \* length of the buffer of a command
    ReadTimeouts,  \* configurations: TRUE when a read has a deadline, which is not the default
    MaxTxns, MaxPostFaults

VARIABLES
    conn,      \* "none", "open" or "cut": the peer's end is gone
    wire,      \* frames sent and not yet read; Garbled is not a frame
    replies,   \* frames the session wrote that the peer has not read
    txn,       \* transaction number -> payload, of this connection
    acked,     \* payloads the peer need not send again
    posted,    \* payloads the server accepted
    serving,   \* Serve: "up", "stopping" (ctx cancelled) or "returned"
    deadline,  \* read_timeout is set
    pfaults, sent

relpVars == <<conn, wire, replies, txn, acked, posted, serving, deadline, pfaults, sent>>

(********************************** framing **********************************)

SP == "SP"
LF == "LF"
Digit == <<"0", "1", "2", "3", "4", "5", "6", "7", "8", "9">>
Value(d) == (CHOOSE i \in 1..10 : Digit[i] = d) - 1

Decimal(n) ==
    IF n < 10 THEN <<Digit[n + 1]>> ELSE <<Digit[(n \div 10) + 1], Digit[(n % 10) + 1]>>
Number(ds) == FoldLeft(LAMBDA n, d : 10 * n + Value(d), 0, ds)

Frame(t, cmd, data) == [TxnR |-> t, Command |-> cmd, Data |-> data]

WriteFrame(f) ==
    Decimal(f.TxnR) \o <<SP>> \o f.Command \o <<SP>> \o Decimal(Len(f.Data))
        \o (IF f.Data = <<>> THEN <<>> ELSE <<SP>> \o f.Data) \o <<LF>>

CmdOpen == <<"o">>
CmdSyslog == <<"s">>
CmdClose == <<"c">>
CmdRsp == <<"r">>
CmdServerClose == <<"e">>

AckFrame(t) == Frame(t, CmdRsp, <<"2">>)
NackFrame(t) == Frame(t, CmdRsp, <<"5">>)
ServerCloseFrame == Frame(0, CmdServerClose, <<>>)

\* A field of s from i: the place of its terminator, 0 when it has not come
\* yet, or "bad" for an empty or overlong field and a byte it may not hold.
FieldEnd(s, i, Terms, Bad, max) ==
    LET stops == {j \in i..Len(s) : s[j] \in Terms \cup Bad}
        j == IF stops = {} THEN Len(s) + 1 ELSE CHOOSE j \in stops : \A k \in stops : j <= k
    IN  CASE stops = {} -> [at |-> 0, bad |-> j - i > max]
          [] OTHER -> [at |-> j, bad |-> s[j] \notin Terms \/ j = i \/ j - i > max]

NotADigit == {SP, LF, "o", "s", "c", "r", "e", "x", "y"}

readUintFieldAny(s, i, Terms) == FieldEnd(s, i, Terms, NotADigit, MaxDigits)
readUintField(s, i) == readUintFieldAny(s, i, {SP})
readTokenField(s, i) == FieldEnd(s, i, {SP}, {LF}, MaxToken)

More == [tag |-> "more"]
Bad == [tag |-> "bad"]
Read(f, s, i) == [tag |-> "frame", frame |-> f, rest |-> SubSeq(s, i, Len(s))]

expectByte(s, i, f) ==
    IF i > Len(s) THEN More ELSE IF s[i] = LF THEN Read(f, s, i + 1) ELSE Bad

\* Mutant: a "0" length that is followed by a space leaves the LF unread.
ReadDataLoose(s, t, cmd, n, e) ==
    IF n = 0 THEN Read(Frame(t, cmd, <<>>), s, e + 1)
    ELSE IF e + n > Len(s) THEN More
    ELSE Read(Frame(t, cmd, SubSeq(s, e + 1, e + n)), s, e + n + 1)

\* The data of a frame and its trailer, after a length that ended at e.
ReadData(s, t, cmd, n, e) ==
    CASE n > MaxFrameLen -> Bad
      [] n <= MaxFrameLen /\ n = 0 ->
           IF s[e] = LF THEN Read(Frame(t, cmd, <<>>), s, e + 1)
           ELSE expectByte(s, e + 1, Frame(t, cmd, <<>>))
      [] n <= MaxFrameLen /\ n > 0 /\ s[e] # SP -> Bad
      [] n <= MaxFrameLen /\ n > 0 /\ s[e] = SP ->
           IF e + n > Len(s) THEN More
           ELSE expectByte(s, e + n + 1, Frame(t, cmd, SubSeq(s, e + 1, e + n)))

\* The next frame of s: "more" when it has not all come, "bad" for an error.
ReadFrame(s) ==
    LET f1 == readUintField(s, 1)
        f2 == readTokenField(s, f1.at + 1)
        f3 == readUintFieldAny(s, f2.at + 1, {SP, LF})
        Part(i, j) == SubSeq(s, i + 1, j - 1)
    IN  CASE f1.bad -> Bad
          [] ~f1.bad /\ f1.at = 0 -> More
          [] ~f1.bad /\ f1.at > 0 /\ f2.bad -> Bad
          [] ~f1.bad /\ f1.at > 0 /\ ~f2.bad /\ f2.at = 0 -> More
          [] OTHER ->
               IF f3.bad THEN Bad ELSE IF f3.at = 0 THEN More
               ELSE ReadData(s, Number(Part(0, f1.at)), Part(f1.at, f2.at),
                             Number(Part(f2.at, f3.at)), f3.at)

\* What a reader makes of the frames fs when the stream is cut after n bytes:
\* those that came whole, and then it waits (used by FramesRoundTrip).
Stream(fs) == FlattenSeq([i \in DOMAIN fs |-> WriteFrame(fs[i])])

\* A cut stream yields exactly the frames that came whole, in order, with
\* their data, up to one that is too long, which is refused, and never a frame
\* that was not sent (ReadFrame, WriteFrame).
CutRoundTrip(fs, n) ==
    LET s == SubSeq(Stream(fs), 1, n)
        TooLong(i) == i \in DOMAIN fs /\ Len(fs[i].Data) > MaxFrameLen
        Came(k) == Len(Stream(SubSeq(fs, 1, k))) <= n
        whole == {k \in 0..Len(fs) : Came(k) /\ \A i \in 1..k : ~TooLong(i)}
        k == CHOOSE k \in whole : \A j \in whole : j <= k
        \* the reader's state after i frames
        after[i \in 0..k] ==
            IF i = 0 THEN Read(Frame(0, CmdOpen, <<>>), s, 1)
            ELSE IF after[i - 1].tag # "frame" THEN after[i - 1]
            ELSE ReadFrame(after[i - 1].rest)
    IN  /\ \A i \in 1..k : after[i].tag = "frame" /\ after[i].frame = fs[i]
        /\ LET next == ReadFrame(after[k].rest)
           IN  IF TooLong(k + 1) THEN next \in {More, Bad} /\ (Came(k + 1) => next = Bad)
               ELSE next = More

(********************************* the session *******************************)

\* Bytes ReadFrame refuses, and what a peer may send besides syslog.
Garbled == Frame(0, <<"?">>, <<>>)
Others == {Frame(0, CmdClose, <<>>), Frame(0, <<"x">>, <<>>), Garbled}

\* A connection starts with open; the peer sends what is not acknowledged.
Dial ==
    /\ conn = "none" /\ serving = "up" /\ sent < MaxTxns
    /\ conn' = "open" /\ replies' = <<>> /\ txn' = <<>>
    /\ wire' = <<Frame(0, CmdOpen, <<"x">>)>>
    /\ sent' = sent + 1
    /\ UNCHANGED <<acked, posted, serving, deadline, pfaults>>

Send(p) ==
    /\ conn = "open" /\ sent < MaxTxns /\ p \notin acked /\ Len(txn) < 9
    /\ txn' = Append(txn, p) /\ sent' = sent + 1
    /\ wire' = Append(wire, Frame(Len(txn) + 1, CmdSyslog, p))
    /\ UNCHANGED <<conn, replies, acked, posted, serving, deadline, pfaults>>

\* A command that is not supported, close, or bytes that are not a frame.
SendOther(f) ==
    /\ conn = "open" /\ sent < MaxTxns
    /\ sent' = sent + 1
    /\ wire' = Append(wire, f)
    /\ UNCHANGED <<conn, replies, txn, acked, posted, serving, deadline, pfaults>>

\* The peer reads a reply; the connection ends with serverclose.
PeerReads ==
    /\ conn = "open" /\ replies # <<>>
    /\ LET f == Head(replies)
       IN  acked' = IF f.Command = CmdRsp /\ f.Data = <<"2">> /\ f.TxnR \in DOMAIN txn
                    THEN acked \cup {txn[f.TxnR]} ELSE acked
    /\ replies' = Tail(replies)
    /\ UNCHANGED <<conn, wire, txn, posted, serving, deadline, pfaults, sent>>

\* The peer or the network goes away; the session still reads what has come,
\* the frames that came whole (CutRoundTrip).
Cut ==
    /\ conn = "open"
    /\ \E n \in 0..Len(wire) : wire' = SubSeq(wire, 1, n)
    /\ conn' = "cut" /\ replies' = <<>>
    /\ UNCHANGED <<txn, acked, posted, serving, deadline, pfaults, sent>>

\* A write fails once the peer is gone: the reply is lost and dispatch's error
\* ends the session.
Reply(fs, ends) ==
    IF conn = "cut" THEN conn' = "none" /\ wire' = <<>> /\ replies' = <<>>
    ELSE /\ replies' = replies \o fs
         /\ conn' = IF ends THEN "none" ELSE conn
         /\ IF ends THEN wire' = <<>> ELSE wire' = Tail(wire)

HasFrame == conn # "none" /\ wire # <<>> /\ Head(wire) # Garbled

\* Forward: the payload is parsed and the alert posted.
Forward(p) == /\ p \notin Malformed
              /\ posted' = posted \cup {p}

\* dispatch, a syslog frame: acknowledged once posted, else refused.
Accepted ==
    /\ HasFrame
    /\ LET f == Head(wire)
       IN  /\ f.Command = CmdSyslog
           /\ serving = "up" /\ Forward(f.Data)
           /\ Reply(<<AckFrame(f.TxnR)>>, FALSE)
    /\ UNCHANGED <<txn, acked, serving, deadline, pfaults, sent>>

\* Mutant: the frame is acknowledged whatever the handler answers.
RefusalAcks(t) == AckFrame(t)

\* dispatch's answer to a syslog frame its handler could not forward.
Refusal(t) == NackFrame(t)

\* A post that fails may still have reached the server; a cancelled context
\* fails it before.
Refused ==
    /\ HasFrame
    /\ LET f == Head(wire)
       IN  /\ f.Command = CmdSyslog
           /\ \/ f.Data \in Malformed /\ UNCHANGED <<posted, pfaults>>
              \/ serving # "up" /\ f.Data \notin Malformed /\ UNCHANGED <<posted, pfaults>>
              \/ /\ f.Data \notin Malformed /\ pfaults < MaxPostFaults
                 /\ pfaults' = pfaults + 1
                 /\ posted' \in {posted, posted \cup {f.Data}}
           /\ Reply(<<Refusal(f.TxnR)>>, FALSE)
    /\ UNCHANGED <<txn, acked, serving, deadline, sent>>

\* buildOpenResponse: the offers are constant, whatever the peer offers.
OpenReply(t) == Frame(t, CmdRsp, <<"2", LF>>)

\* dispatch, the other commands; close is answered and ends the session.
Dispatch ==
    /\ HasFrame
    /\ LET f == Head(wire)
       IN  /\ f.Command # CmdSyslog
           /\ CASE f.Command = CmdOpen -> Reply(<<OpenReply(f.TxnR)>>, FALSE)
                [] f.Command = CmdClose -> Reply(<<AckFrame(f.TxnR), ServerCloseFrame>>, TRUE)
                [] OTHER -> Reply(<<NackFrame(f.TxnR)>>, FALSE)
    /\ UNCHANGED <<txn, acked, posted, serving, deadline, pfaults, sent>>

\* Mutant: the end of the stream is taken for a frame that has not come yet.
SessionEndsNotAtEOF ==
    /\ \/ conn # "none" /\ wire # <<>> /\ Head(wire) = Garbled
       \/ conn = "open" /\ wire = <<>> /\ deadline
    /\ conn' = "none" /\ wire' = <<>> /\ replies' = <<>>
    /\ UNCHANGED <<txn, acked, posted, serving, deadline, pfaults, sent>>

\* The session ends at a bad frame or at the end of the stream, and where a
\* read has a deadline also when nothing comes.
SessionEnds ==
    /\ \/ conn # "none" /\ wire # <<>> /\ Head(wire) = Garbled
       \/ conn = "cut" /\ wire = <<>>
       \/ conn = "open" /\ wire = <<>> /\ deadline
    /\ conn' = "none" /\ wire' = <<>> /\ replies' = <<>>
    /\ UNCHANGED <<txn, acked, posted, serving, deadline, pfaults, sent>>

\* Serve: a cancelled context closes the listener; Serve waits for sessions.
Cancel ==
    /\ serving = "up" /\ serving' = "stopping"
    /\ UNCHANGED <<conn, wire, replies, txn, acked, posted, deadline, pfaults, sent>>

ServeEnds ==
    /\ serving = "stopping" /\ conn = "none" /\ serving' = "returned"
    /\ UNCHANGED <<conn, wire, replies, txn, acked, posted, deadline, pfaults, sent>>

RelpInit ==
    /\ conn = "none" /\ wire = <<>> /\ replies = <<>> /\ txn = <<>>
    /\ acked = {} /\ posted = {} /\ serving = "up" /\ pfaults = 0 /\ sent = 0
    /\ deadline \in ReadTimeouts

Session == Accepted \/ Refused \/ Dispatch \/ SessionEnds

RelpNext ==
    \/ Dial \/ PeerReads \/ Cut \/ Accepted \/ Refused \/ Dispatch \/ SessionEnds
    \/ (\E p \in Payloads : Send(p)) \/ (\E f \in Others : SendOther(f))
    \/ Cancel \/ ServeEnds

(********************************* properties ********************************)

\* A message the peer was told not to send again was accepted by the server,
\* across cut connections, lost replies and failed posts (dispatch).
RelpAckedWasPosted == acked \subseteq posted

\* Serve returns once its context is cancelled and no peer holds it: with a
\* deadline even if the peers stay connected and silent, without one, which is
\* the default, when they have left (Serve, handleSession).
ServeStopping == serving = "stopping" /\ (deadline \/ conn # "open")
ServeReturned == serving = "returned"
=============================================================================

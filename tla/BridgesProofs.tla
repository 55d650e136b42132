----------------------------- MODULE BridgesProofs -----------------------------
(***************************************************************************)
(* Proofs about the programs around the server: what a sender was told was *)
(* accepted is on the server.  What the event watcher, the change feeds    *)
(* and the collectors keep is shown here too, for SourcesProofs.           *)
(***************************************************************************)
EXTENDS MCBridges, SequenceTheorems, FiniteSetTheorems, TLAPS

-----------------------------------------------------------------------------
(* RELP.  A syslog frame carries the payload of its transaction, and an    *)
(* acknowledgement the peer could match to a transaction of its connection *)
(* is of a payload that was posted.                                        *)

CmdO == RelpD!CmdOpen
CmdS == RelpD!CmdSyslog
CmdC == RelpD!CmdClose
CmdR == RelpD!CmdRsp
CmdE == RelpD!CmdServerClose

FrameData == Payloads \cup {<<>>, <<"x">>, <<"2">>, <<"5">>, <<"2", "LF">>}
AnyFrame ==
    [TxnR : Nat, Command : {CmdO, CmdS, CmdC, CmdR, CmdE, <<"?">>, <<"x">>}, Data : FrameData]

\* A syslog frame is of a transaction of this connection; any other has the
\* number 0, which no transaction has.
Carries(f, t) ==
    IF f.Command = CmdS THEN f.TxnR \in DOMAIN t /\ f.Data = t[f.TxnR] ELSE f.TxnR = 0
\* What the peer would take f for: nothing, or the word that a payload is there.
Honest(f, t, ps) ==
    f.Command = CmdR /\ f.Data = <<"2">> /\ f.TxnR # 0 => f.TxnR \in DOMAIN t /\ t[f.TxnR] \in ps

RelpInv ==
    /\ conn \in {"none", "open", "cut"}
    /\ txn \in Seq(Payloads) /\ wire \in Seq(AnyFrame) /\ replies \in Seq(AnyFrame)
    /\ \A i \in DOMAIN wire : Carries(wire[i], txn)
    /\ \A i \in DOMAIN replies : Honest(replies[i], txn, posted)
    /\ acked \subseteq posted

(* The commands differ in their one byte.                                  *)
LEMMA CommandsDiffer ==
  /\ CmdS # CmdO /\ CmdS # CmdC /\ CmdS # CmdR /\ CmdS # CmdE /\ CmdS # <<"?">> /\ CmdS # <<"x">>
  /\ <<"5">> # <<"2">> /\ <<"2", "LF">> # <<"2">> /\ CmdE # CmdR
<1>1. \A a, b : <<a>> = <<b>> => a = b
  OBVIOUS
<1>2. <<"2", "LF">> # <<"2">>
  <2>1. Len(<<"2", "LF">>) = 2 /\ Len(<<"2">>) = 1
    OBVIOUS
  <2>. QED
    BY <2>1
<1>. QED
  BY <1>1, <1>2 DEF CmdO, CmdS, CmdC, CmdR, CmdE, RelpD!CmdOpen, RelpD!CmdSyslog, RelpD!CmdClose,
     RelpD!CmdRsp, RelpD!CmdServerClose

(* A session begins with nothing sent.                                     *)
LEMMA RelpStart == RelpD!RelpInit => RelpInv
BY EmptySeq DEF RelpD!RelpInit, RelpInv

(* A frame is a frame.                                                     *)
LEMMA FrameTyped ==
  ASSUME NEW t \in Nat, NEW c \in {CmdO, CmdS, CmdC, CmdR, CmdE, <<"?">>, <<"x">>}, NEW d \in FrameData
  PROVE  /\ RelpD!Frame(t, c, d) \in AnyFrame
         /\ RelpD!Frame(t, c, d).TxnR = t /\ RelpD!Frame(t, c, d).Command = c
         /\ RelpD!Frame(t, c, d).Data = d
BY DEF RelpD!Frame, AnyFrame

(* A dial begins a connection without transactions and with open alone.    *)
LEMMA RelpDial == RelpInv /\ RelpD!Dial => RelpInv'
<1> SUFFICES ASSUME RelpInv, RelpD!Dial PROVE RelpInv'
  OBVIOUS
<1>1. PICK f : f = RelpD!Frame(0, RelpD!CmdOpen, <<"x">>)
  OBVIOUS
<1>2. f \in AnyFrame /\ f.TxnR = 0 /\ f.Command = CmdO
  <2>1. 0 \in Nat /\ <<"x">> \in FrameData
    BY DEF FrameData
  <2>. QED
    BY <1>1, <2>1, FrameTyped DEF CmdO
<1>3. wire' = <<f>> /\ txn' = <<>> /\ replies' = <<>> /\ conn' = "open" /\ UNCHANGED <<acked, posted>>
  BY <1>1 DEF RelpD!Dial
<1>4. wire' \in Seq(AnyFrame) /\ \A i \in DOMAIN wire' : wire'[i] = f
  BY <1>2, <1>3
<1>5. \A i \in DOMAIN wire' : Carries(wire'[i], txn')
  BY <1>2, <1>4, CommandsDiffer DEF Carries
<1>6. txn' \in Seq(Payloads) /\ replies' \in Seq(AnyFrame) /\ DOMAIN replies' = {}
  BY <1>3, EmptySeq
<1>. QED
  BY <1>3, <1>4, <1>5, <1>6 DEF RelpInv

(* One more transaction leaves the numbers of the others.                  *)
LEMMA RelpSend == ASSUME NEW p \in Payloads, RelpInv, RelpD!Send(p) PROVE RelpInv'
<1>1. PICK f : f = RelpD!Frame(Len(txn) + 1, RelpD!CmdSyslog, p)
  OBVIOUS
<1>2. txn \in Seq(Payloads) /\ wire \in Seq(AnyFrame) /\ replies \in Seq(AnyFrame)
  BY DEF RelpInv
<1>3. Len(txn) \in Nat /\ DOMAIN txn = 1..Len(txn) /\ DOMAIN wire = 1..Len(wire) /\ Len(wire) \in Nat
  BY <1>2, LenProperties
<1>4. f \in AnyFrame /\ f.TxnR = Len(txn) + 1 /\ f.Command = CmdS /\ f.Data = p
  <2>1. Len(txn) + 1 \in Nat /\ p \in FrameData
    BY <1>3 DEF FrameData
  <2>. QED
    BY <1>1, <2>1, FrameTyped DEF CmdS
<1>5. wire' = Append(wire, f) /\ txn' = Append(txn, p) /\ UNCHANGED <<conn, replies, acked, posted>>
  BY <1>1 DEF RelpD!Send
<1>6. /\ txn' \in Seq(Payloads) /\ DOMAIN txn' = 1..(Len(txn) + 1) /\ txn'[Len(txn) + 1] = p
      /\ \A i \in DOMAIN txn : txn'[i] = txn[i]
  BY <1>2, <1>3, <1>5, AppendProperties, LenProperties
<1>7. /\ wire' \in Seq(AnyFrame) /\ DOMAIN wire' = 1..(Len(wire) + 1) /\ wire'[Len(wire) + 1] = f
      /\ \A i \in DOMAIN wire : wire'[i] = wire[i]
  BY <1>2, <1>3, <1>4, <1>5, AppendProperties, LenProperties
<1>8. \A i \in DOMAIN wire' : Carries(wire'[i], txn')
  <2> SUFFICES ASSUME NEW i \in DOMAIN wire' PROVE Carries(wire'[i], txn')
    OBVIOUS
  <2>1. CASE i \in DOMAIN wire
    <3>1. Carries(wire[i], txn)
      BY <2>1 DEF RelpInv
    <3>. QED
      BY <1>3, <1>6, <1>7, <2>1, <3>1 DEF Carries
  <2>2. CASE i = Len(wire) + 1
    BY <1>3, <1>4, <1>6, <1>7, <2>2 DEF Carries
  <2>. QED
    BY <1>3, <1>7, <2>1, <2>2
<1>9. \A i \in DOMAIN replies' : Honest(replies'[i], txn', posted')
  <2> SUFFICES ASSUME NEW i \in DOMAIN replies PROVE Honest(replies[i], txn', posted)
    BY <1>5
  <2>1. Honest(replies[i], txn, posted)
    BY DEF RelpInv
  <2>. QED
    BY <1>3, <1>6, <2>1 DEF Honest
<1>. QED
  BY <1>2, <1>5, <1>6, <1>7, <1>8, <1>9 DEF RelpInv

(* Another frame has the number 0.                                         *)
LEMMA RelpSendOther == ASSUME NEW f \in RelpD!Others, RelpInv, RelpD!SendOther(f) PROVE RelpInv'
<1>1. f \in AnyFrame /\ f.TxnR = 0 /\ f.Command # CmdS
  <2>1. 0 \in Nat /\ <<>> \in FrameData
    BY DEF FrameData
  <2>2. \E c \in {CmdC, <<"x">>, <<"?">>} : f = RelpD!Frame(0, c, <<>>)
    BY DEF RelpD!Others, RelpD!Garbled, CmdC
  <2>. QED
    BY <2>1, <2>2, FrameTyped, CommandsDiffer
<1>2. wire' = Append(wire, f) /\ UNCHANGED <<conn, replies, txn, acked, posted>>
  BY DEF RelpD!SendOther
<1>3. wire \in Seq(AnyFrame) /\ DOMAIN wire = 1..Len(wire) /\ Len(wire) \in Nat
  BY LenProperties DEF RelpInv
<1>4. /\ wire' \in Seq(AnyFrame) /\ DOMAIN wire' = 1..(Len(wire) + 1) /\ wire'[Len(wire) + 1] = f
      /\ \A i \in DOMAIN wire : wire'[i] = wire[i]
  BY <1>1, <1>2, <1>3, AppendProperties, LenProperties
<1>5. \A i \in DOMAIN wire' : Carries(wire'[i], txn)
  BY <1>1, <1>3, <1>4 DEF Carries, RelpInv
<1>. QED
  BY <1>2, <1>4, <1>5 DEF RelpInv

(* The peer is told of one reply.                                          *)
LEMMA RelpPeerReads == RelpInv /\ RelpD!PeerReads => RelpInv'
<1> SUFFICES ASSUME RelpInv, RelpD!PeerReads PROVE RelpInv'
  OBVIOUS
<1>1. replies \in Seq(AnyFrame) /\ replies # <<>> /\ txn \in Seq(Payloads)
  BY DEF RelpInv, RelpD!PeerReads
<1>2. DOMAIN replies = 1..Len(replies) /\ Len(replies) \in Nat \ {0} /\ DOMAIN txn = 1..Len(txn) /\ Len(txn) \in Nat
  BY <1>1, LenProperties, EmptySeq
<1>3. /\ replies' \in Seq(AnyFrame) /\ Len(replies') = Len(replies) - 1 /\ Head(replies) = replies[1]
      /\ \A i \in 1..Len(replies') : replies'[i] = replies[i + 1]
  BY <1>1, HeadTailProperties DEF RelpD!PeerReads
<1>4. DOMAIN replies' = 1..Len(replies')
  BY <1>3, LenProperties
<1>5. UNCHANGED <<conn, wire, txn, posted>>
  BY DEF RelpD!PeerReads
<1>6. \A i \in DOMAIN replies' : Honest(replies'[i], txn, posted)
  <2>1. \A i \in DOMAIN replies : Honest(replies[i], txn, posted)
    BY DEF RelpInv
  <2> SUFFICES ASSUME NEW i \in DOMAIN replies' PROVE Honest(replies'[i], txn, posted)
    OBVIOUS
  <2>2. replies'[i] = replies[i + 1] /\ i + 1 \in DOMAIN replies
    BY <1>2, <1>3, <1>4
  <2>. QED
    BY <2>1, <2>2
<1>7. acked' \subseteq posted
  <2>1. Honest(replies[1], txn, posted) /\ acked \subseteq posted
    BY <1>2 DEF RelpInv
  <2>2. \/ acked' = acked
        \/ /\ replies[1].Command = CmdR /\ replies[1].Data = <<"2">> /\ replies[1].TxnR \in DOMAIN txn
           /\ acked' = acked \cup {txn[replies[1].TxnR]}
    BY <1>3 DEF RelpD!PeerReads, CmdR
  <2>. QED
    BY <1>2, <2>1, <2>2 DEF Honest
<1>. QED
  BY <1>3, <1>5, <1>6, <1>7 DEF RelpInv

(* A cut leaves a prefix of what was sent.                                 *)
LEMMA RelpCut == RelpInv /\ RelpD!Cut => RelpInv'
<1> SUFFICES ASSUME RelpInv, RelpD!Cut PROVE RelpInv'
  OBVIOUS
<1>1. PICK n \in 0..Len(wire) : wire' = SubSeq(wire, 1, n)
  BY DEF RelpD!Cut
<1>2. wire \in Seq(AnyFrame) /\ DOMAIN wire = 1..Len(wire) /\ Len(wire) \in Nat
  BY LenProperties DEF RelpInv
<1>3. \A i \in 1..n : wire[i] \in AnyFrame
  BY <1>1, <1>2, ElementOfSeq
<1>4. wire' \in Seq(AnyFrame) /\ Len(wire') = n /\ \A i \in 1..n : wire'[i] = wire[i]
  BY <1>1, <1>2, <1>3, SubSeqProperties
<1>5. DOMAIN wire' = 1..n
  BY <1>4, LenProperties
<1>6. conn' = "cut" /\ replies' = <<>> /\ UNCHANGED <<txn, acked, posted>>
  BY DEF RelpD!Cut
<1>7. replies' \in Seq(AnyFrame) /\ DOMAIN replies' = {}
  BY <1>6, EmptySeq
<1>8. \A i \in DOMAIN wire' : Carries(wire'[i], txn)
  BY <1>1, <1>2, <1>4, <1>5 DEF RelpInv
<1>. QED
  BY <1>4, <1>6, <1>7, <1>8 DEF RelpInv

(* The head of the wire and what follows it.                               *)
LEMMA RelpHead ==
  ASSUME RelpInv, RelpD!HasFrame
  PROVE  /\ Head(wire) \in AnyFrame /\ Carries(Head(wire), txn) /\ Tail(wire) \in Seq(AnyFrame)
         /\ \A i \in DOMAIN Tail(wire) : Carries(Tail(wire)[i], txn)
         /\ Head(wire).TxnR \in Nat /\ (Head(wire).TxnR # 0 => Head(wire).Command = CmdS)
<1>1. wire \in Seq(AnyFrame) /\ wire # <<>>
  BY DEF RelpInv, RelpD!HasFrame
<1>2. DOMAIN wire = 1..Len(wire) /\ Len(wire) \in Nat \ {0}
  BY <1>1, LenProperties, EmptySeq
<1>3. /\ Head(wire) = wire[1] /\ Head(wire) \in AnyFrame /\ Tail(wire) \in Seq(AnyFrame)
      /\ Len(Tail(wire)) = Len(wire) - 1 /\ \A i \in 1..Len(Tail(wire)) : Tail(wire)[i] = wire[i + 1]
  BY <1>1, HeadTailProperties
<1>4. DOMAIN Tail(wire) = 1..Len(Tail(wire))
  BY <1>3, LenProperties
<1>5. \A i \in DOMAIN wire : Carries(wire[i], txn)
  BY DEF RelpInv
<1>6. \A i \in DOMAIN Tail(wire) : Carries(Tail(wire)[i], txn)
  BY <1>2, <1>3, <1>4, <1>5
<1>7. Carries(Head(wire), txn)
  BY <1>2, <1>3, <1>5
<1>8. Head(wire).TxnR \in Nat
  BY <1>3 DEF AnyFrame
<1>. QED
  BY <1>3, <1>6, <1>7, <1>8 DEF Carries

(* The session replies with honest frames and drops the one it answered.   *)
LEMMA RelpReply ==
  ASSUME NEW fs \in Seq(AnyFrame), NEW ends \in BOOLEAN, RelpInv, RelpD!HasFrame,
         \A i \in DOMAIN fs : Honest(fs[i], txn, posted'),
         posted \subseteq posted', UNCHANGED <<txn, acked>>, RelpD!Reply(fs, ends)
  PROVE  RelpInv'
<1>1. /\ wire' \in Seq(AnyFrame) /\ conn' \in {"none", "open", "cut"}
      /\ \A i \in DOMAIN wire' : Carries(wire'[i], txn)
  <2>1. wire' = <<>> \/ wire' = Tail(wire)
    BY DEF RelpD!Reply
  <2>2. <<>> \in Seq(AnyFrame) /\ DOMAIN <<>> = {}
    BY EmptySeq
  <2>3. conn' \in {"none", "open", "cut"}
    BY DEF RelpD!Reply, RelpInv
  <2>. QED
    BY <2>1, <2>2, <2>3, RelpHead
<1>2. replies' \in Seq(AnyFrame) /\ \A i \in DOMAIN replies' : Honest(replies'[i], txn, posted')
  <2>1. CASE replies' = <<>>
    BY <2>1, EmptySeq
  <2>2. CASE replies' = replies \o fs
    <3>1. /\ replies \in Seq(AnyFrame) /\ DOMAIN replies = 1..Len(replies) /\ Len(replies) \in Nat
          /\ DOMAIN fs = 1..Len(fs) /\ Len(fs) \in Nat
      BY LenProperties DEF RelpInv
    <3>2. /\ replies' \in Seq(AnyFrame) /\ Len(replies') = Len(replies) + Len(fs)
          /\ \A i \in 1..(Len(replies) + Len(fs)) :
                replies'[i] = IF i <= Len(replies) THEN replies[i] ELSE fs[i - Len(replies)]
      BY <2>2, <3>1, ConcatProperties
    <3>3. DOMAIN replies' = 1..(Len(replies) + Len(fs))
      BY <3>2, LenProperties
    <3>4. \A i \in DOMAIN replies : Honest(replies[i], txn, posted')
      BY DEF RelpInv, Honest
    <3>5. ASSUME NEW i \in DOMAIN replies' PROVE Honest(replies'[i], txn, posted')
      <4>1. CASE i <= Len(replies)
        <5>1. i \in DOMAIN replies /\ replies'[i] = replies[i]
          BY <3>1, <3>2, <3>3, <4>1
        <5>. QED
          BY <3>4, <5>1
      <4>2. CASE ~(i <= Len(replies))
        <5>1. i - Len(replies) \in DOMAIN fs /\ replies'[i] = fs[i - Len(replies)]
          BY <3>1, <3>2, <3>3, <4>2
        <5>. QED
          BY <5>1
      <4>. QED
        BY <4>1, <4>2
    <3>. QED
      BY <3>2, <3>5
  <2>. QED
    BY <2>1, <2>2 DEF RelpD!Reply
<1>. QED
  BY <1>1, <1>2 DEF RelpInv

(* dispatch: an acknowledgement follows the post, the others promise       *)
(* nothing.                                                                *)
LEMMA RelpAccepted == RelpInv /\ RelpD!Accepted => RelpInv'
<1> SUFFICES ASSUME RelpInv, RelpD!Accepted PROVE RelpInv'
  OBVIOUS
<1>1. PICK f : f = Head(wire)
  OBVIOUS
<1>2. RelpD!HasFrame /\ f.Command = CmdS /\ posted' = posted \cup {f.Data} /\ UNCHANGED <<txn, acked>>
  BY <1>1 DEF RelpD!Accepted, RelpD!Forward, CmdS
<1>3. f.TxnR \in DOMAIN txn /\ f.Data = txn[f.TxnR] /\ f.TxnR \in Nat
  BY <1>1, <1>2, RelpHead DEF Carries
<1>4. PICK a : a = RelpD!AckFrame(f.TxnR)
  OBVIOUS
<1>5. a \in AnyFrame /\ a.TxnR = f.TxnR
  <2>1. <<"2">> \in FrameData
    BY DEF FrameData
  <2>. QED
    BY <1>3, <1>4, <2>1, FrameTyped DEF RelpD!AckFrame, CmdR
<1>6. Honest(a, txn, posted')
  BY <1>2, <1>3, <1>5 DEF Honest
<1>7. RelpD!Reply(<<a>>, FALSE)
  BY <1>1, <1>4 DEF RelpD!Accepted
<1>8. <<a>> \in Seq(AnyFrame) /\ \A i \in DOMAIN <<a>> : Honest(<<a>>[i], txn, posted')
  BY <1>5, <1>6
<1>. QED
  BY <1>2, <1>7, <1>8, RelpReply

(* A frame that is refused, or that the server never answers, acknowledges *)
(* nothing.                                                                *)
LEMMA RelpRefused == RelpInv /\ RelpD!Refused => RelpInv'
<1> SUFFICES ASSUME RelpInv, RelpD!Refused PROVE RelpInv'
  OBVIOUS
<1>1. PICK f : f = Head(wire)
  OBVIOUS
<1>2. RelpD!HasFrame /\ posted \subseteq posted' /\ UNCHANGED <<txn, acked>>
  BY DEF RelpD!Refused
<1>3. PICK a : a = RelpD!NackFrame(f.TxnR)
  OBVIOUS
<1>4. a \in AnyFrame /\ a.Data = <<"5">>
  <2>1. <<"5">> \in FrameData /\ f.TxnR \in Nat
    BY <1>1, <1>2, RelpHead DEF FrameData
  <2>. QED
    BY <1>3, <2>1, FrameTyped DEF RelpD!NackFrame, CmdR
<1>5. RelpD!Reply(<<a>>, FALSE)
  BY <1>1, <1>3 DEF RelpD!Refused, RelpD!Refusal
<1>6. <<a>> \in Seq(AnyFrame) /\ \A i \in DOMAIN <<a>> : Honest(<<a>>[i], txn, posted')
  BY <1>4, CommandsDiffer DEF Honest
<1>. QED
  BY <1>2, <1>5, <1>6, RelpReply

(* A frame that is dispatched is acknowledged only for what was posted.    *)
LEMMA RelpDispatch == RelpInv /\ RelpD!Dispatch => RelpInv'
<1> SUFFICES ASSUME RelpInv, RelpD!Dispatch PROVE RelpInv'
  OBVIOUS
<1>1. PICK t : t = Head(wire).TxnR
  OBVIOUS
<1>2. RelpD!HasFrame /\ UNCHANGED <<txn, acked, posted>> /\ t = 0
  <2>1. RelpD!HasFrame /\ UNCHANGED <<txn, acked, posted>> /\ Head(wire).Command # CmdS
    BY DEF RelpD!Dispatch, CmdS
  <2>. QED
    BY <1>1, <2>1, RelpHead
<1>3. /\ 0 \in Nat /\ <<"2">> \in FrameData /\ <<"5">> \in FrameData /\ <<"2", "LF">> \in FrameData
      /\ <<>> \in FrameData
  BY DEF FrameData
<1>4. CASE RelpD!Reply(<<RelpD!OpenReply(t)>>, FALSE)
  <2>1. PICK a : a = RelpD!OpenReply(t)
    OBVIOUS
  <2>2. a \in AnyFrame /\ a.TxnR = 0
    BY <1>2, <1>3, <2>1, FrameTyped DEF RelpD!OpenReply, CmdR, RelpD!LF
  <2>3. <<a>> \in Seq(AnyFrame) /\ \A i \in DOMAIN <<a>> : Honest(<<a>>[i], txn, posted')
    BY <2>2 DEF Honest
  <2>. QED
    BY <1>2, <1>4, <2>1, <2>3, RelpReply
<1>5. CASE RelpD!Reply(<<RelpD!NackFrame(t)>>, FALSE)
  <2>1. PICK a : a = RelpD!NackFrame(t)
    OBVIOUS
  <2>2. a \in AnyFrame /\ a.TxnR = 0
    BY <1>2, <1>3, <2>1, FrameTyped DEF RelpD!NackFrame, CmdR
  <2>3. <<a>> \in Seq(AnyFrame) /\ \A i \in DOMAIN <<a>> : Honest(<<a>>[i], txn, posted')
    BY <2>2 DEF Honest
  <2>. QED
    BY <1>2, <1>5, <2>1, <2>3, RelpReply
<1>6. CASE RelpD!Reply(<<RelpD!AckFrame(t), RelpD!ServerCloseFrame>>, TRUE)
  <2>1. PICK a : a = RelpD!AckFrame(t)
    OBVIOUS
  <2>2. PICK b : b = RelpD!ServerCloseFrame
    OBVIOUS
  <2>3. a \in AnyFrame /\ a.TxnR = 0
    BY <1>2, <1>3, <2>1, FrameTyped DEF RelpD!AckFrame, CmdR
  <2>4. b \in AnyFrame /\ b.TxnR = 0
    BY <1>2, <1>3, <2>2, FrameTyped DEF RelpD!ServerCloseFrame, CmdE
  <2>5. <<a, b>> \in Seq(AnyFrame) /\ \A i \in DOMAIN <<a, b>> : Honest(<<a, b>>[i], txn, posted')
    BY <2>3, <2>4 DEF Honest
  <2>. QED
    BY <1>2, <1>6, <2>1, <2>2, <2>5, RelpReply
<1>. QED
  BY <1>1, <1>4, <1>5, <1>6 DEF RelpD!Dispatch

(* A session keeps its invariant.                                          *)
LEMMA RelpKept == RelpInv /\ RelpD!RelpNext => RelpInv'
<1> SUFFICES ASSUME RelpInv, RelpD!RelpNext PROVE RelpInv'
  OBVIOUS
<1>1. CASE RelpD!SessionEnds
  <2>1. conn' = "none" /\ wire' = <<>> /\ replies' = <<>> /\ UNCHANGED <<txn, acked, posted>>
    BY <1>1 DEF RelpD!SessionEnds
  <2>2. <<>> \in Seq(AnyFrame) /\ DOMAIN <<>> = {}
    BY EmptySeq
  <2>. QED
    BY <2>1, <2>2 DEF RelpInv
<1>2. CASE RelpD!Cancel \/ RelpD!ServeEnds
  <2>1. UNCHANGED <<conn, wire, replies, txn, acked, posted>>
    BY <1>2 DEF RelpD!Cancel, RelpD!ServeEnds
  <2>. QED
    BY <2>1 DEF RelpInv
<1>. QED
  BY <1>1, <1>2, RelpDial, RelpPeerReads, RelpCut, RelpAccepted, RelpRefused, RelpDispatch, RelpSend,
     RelpSendOther DEF RelpD!RelpNext

-----------------------------------------------------------------------------
(* SMTP.  The session and the peer agree on the envelope and on the login, *)
(* and an envelope has been begun only by one who may.                     *)

NoSender == Smtp!NoMail
Froms == Senders \cup {NoSender}
SessionType ==
    [open : {TRUE}, tls : BOOLEAN, helo : BOOLEAN, auth : BOOLEAN, from : Froms, to : Seq(Rcpts),
     astray : BOOLEAN]
PeerType == [from : Froms, to : Seq(Rcpts), auth : BOOLEAN]
MailType == [from : Froms, to : Seq(Rcpts), auth : BOOLEAN, body : Bodies]

\* What the peer was told is what the session holds.
Agree(s, q) == s.from = q.from /\ s.to = q.to /\ s.auth = q.auth
\* An envelope, of a session or of a mail, begun by one who may.
Entitled(e) == (AuthRequired => e.auth) /\ e.from \in AllowedSenders

\* The mails are what their peers meant, but for those that came of lines gone
\* astray.
MeantFor(ms, ws) == Len(ws) = Len(ms) /\ \A i \in DOMAIN ms : ws[i] = Smtp!Unmeant \/ ms[i] = ws[i]

SmtpInv ==
    /\ sess \in SessionType \cup {Smtp!NoSession} /\ peer \in PeerType
    /\ sess.open => Agree(sess, peer) /\ (sess.from # NoSender => Entitled(sess))
    /\ mails \in Seq(MailType) /\ \A i \in DOMAIN mails : Entitled(mails[i])
    /\ meant \in Seq(MailType \cup {Smtp!Unmeant}) /\ MeantFor(mails, meant)
    /\ told \subseteq taken

(* The lines on the wire: the dot that ends them is the first dot line,    *)
(* and dot-stuffing is undone line by line.                                *)
LEMMA LinesOfStuffed ==
  ASSUME NEW b \in Bodies
  PROVE  /\ Len(b) \in Nat /\ DOMAIN b = 1..Len(b)
         /\ DOMAIN Smtp!Stuffed(b) = 1..(Len(b) + 1)
         /\ Smtp!Stuffed(b)[Len(b) + 1] = Smtp!EndOfData
         /\ \A i \in 1..Len(b) : /\ ~Smtp!isDotLine(Smtp!Stuffed(b)[i])
                                 /\ Smtp!Unstuffed(Smtp!Stuffed(b)[i]) = b[i]
<1>0. PICK C : C = STRING \cup {"."}
  OBVIOUS
<1>1. b \in Seq(Seq(C)) /\ Len(b) \in Nat /\ DOMAIN b = 1..Len(b)
  <2>1. b \in Seq(Seq(STRING))
    BY BridgesAssumption
  <2>2. Seq(STRING) \subseteq Seq(C)
    BY <1>0, SeqMonotonic
  <2>3. b \in Seq(Seq(C))
    BY <2>1, <2>2, SeqMonotonic
  <2>. QED
    BY <2>3, LenProperties
<1>a. <<".">> \in Seq(C) /\ Len(<<".">>) = 1 /\ <<".">>[1] = "."
  <2>1. "." \in C
    BY <1>0, Zenon
  <2>. QED
    BY <2>1
<1>2. PICK d : d = [i \in DOMAIN b |-> IF b[i] # <<>> /\ b[i][1] = "." THEN <<".">> \o b[i] ELSE b[i]]
  OBVIOUS
<1>3. \A i \in 1..Len(b) : b[i] \in Seq(C)
  BY <1>1, ElementOfSeq
<1>4. \A i \in 1..Len(b) : d[i] \in Seq(C)
  BY <1>1, <1>a, <1>2, <1>3, ConcatProperties
<1>5. d \in Seq(Seq(C)) /\ Len(d) = Len(b)
  <2>1. d \in [1..Len(b) -> Seq(C)]
    BY <1>1, <1>2, <1>4
  <2>2. d \in Seq(Seq(C))
    <3>1. Seq(Seq(C)) = UNION {[1..n -> Seq(C)] : n \in Nat}
      BY SeqDef
    <3>. QED
      BY <1>1, <2>1, <3>1
  <2>. QED
    BY <1>1, <2>1, <2>2, LenProperties
<1>6. Smtp!Stuffed(b) = d \o <<Smtp!EndOfData>>
  BY <1>2 DEF Smtp!Stuffed
<1>7. <<Smtp!EndOfData>> \in Seq(Seq(C)) /\ Len(<<Smtp!EndOfData>>) = 1
      /\ <<Smtp!EndOfData>>[1] = Smtp!EndOfData
  BY <1>a DEF Smtp!EndOfData
<1>8. /\ Smtp!Stuffed(b) \in Seq(Seq(C)) /\ Len(Smtp!Stuffed(b)) = Len(b) + 1
      /\ \A i \in 1..(Len(b) + 1) :
            Smtp!Stuffed(b)[i] = IF i <= Len(b) THEN d[i] ELSE <<Smtp!EndOfData>>[i - Len(b)]
  BY <1>5, <1>6, <1>7, ConcatProperties
<1>9. DOMAIN Smtp!Stuffed(b) = 1..(Len(b) + 1)
  BY <1>8, LenProperties
<1>10. Smtp!Stuffed(b)[Len(b) + 1] = Smtp!EndOfData
  <2>1. Len(b) + 1 \in 1..(Len(b) + 1) /\ ~(Len(b) + 1 <= Len(b)) /\ (Len(b) + 1) - Len(b) = 1
    BY <1>1
  <2>. QED
    BY <1>7, <1>8, <2>1
<1>11. ASSUME NEW i \in 1..Len(b)
       PROVE  ~Smtp!isDotLine(Smtp!Stuffed(b)[i]) /\ Smtp!Unstuffed(Smtp!Stuffed(b)[i]) = b[i]
  <2>1. Smtp!Stuffed(b)[i] = d[i] /\ b[i] \in Seq(C) /\ i \in DOMAIN b
    BY <1>1, <1>3, <1>8
  <2>2. PICK x : x = b[i]
    OBVIOUS
  <2>3. CASE x # <<>> /\ x[1] = "."
    <3>1. d[i] = <<".">> \o x
      BY <1>2, <2>1, <2>2, <2>3
    <3>2. x \in Seq(C) /\ Len(x) \in Nat \ {0} /\ <<".">> \in Seq(C) /\ Len(<<".">>) = 1
      BY <1>a, <2>1, <2>2, <2>3, EmptySeq
    <3>3. /\ d[i] \in Seq(C) /\ Len(d[i]) = 1 + Len(x) /\ d[i] # <<>>
          /\ \A j \in 1..(1 + Len(x)) : d[i][j] = IF j <= 1 THEN <<".">>[j] ELSE x[j - 1]
      BY <3>1, <3>2, ConcatProperties
    <3>4. ~Smtp!isDotLine(d[i])
      BY <3>2, <3>3 DEF Smtp!isDotLine, Smtp!EndOfData
    <3>5. d[i][1] = "."
      BY <3>2, <3>3
    <3>6. Tail(d[i]) = x
      <4>0. d[i] \in Seq(C) /\ d[i] # <<>>
        BY <3>3
      <4>1. /\ Tail(d[i]) \in Seq(C) /\ Len(Tail(d[i])) = Len(x)
            /\ \A j \in 1..Len(Tail(d[i])) : Tail(d[i])[j] = d[i][j + 1]
        BY <3>2, <3>3, <4>0, HeadTailProperties
      <4>2. \A j \in 1..Len(x) : Tail(d[i])[j] = x[j]
        <5> SUFFICES ASSUME NEW j \in 1..Len(x) PROVE Tail(d[i])[j] = x[j]
          OBVIOUS
        <5>1. j + 1 \in 1..(1 + Len(x)) /\ ~(j + 1 <= 1) /\ (j + 1) - 1 = j
          BY <3>2
        <5>. QED
          BY <3>3, <4>1, <5>1
      <4>. QED
        BY <3>2, <4>1, <4>2, SeqEqual
    <3>. QED
      BY <2>1, <2>2, <3>3, <3>4, <3>5, <3>6 DEF Smtp!Unstuffed
  <2>4. CASE ~(x # <<>> /\ x[1] = ".")
    <3>1. d[i] = x
      BY <1>2, <2>1, <2>2, <2>4
    <3>2. ~Smtp!isDotLine(x)
      BY <2>4 DEF Smtp!isDotLine, Smtp!EndOfData
    <3>. QED
      BY <2>1, <2>2, <2>4, <3>1, <3>2 DEF Smtp!Unstuffed
  <2>. QED
    BY <2>3, <2>4
<1>. QED
  BY <1>0, <1>1, <1>9, <1>10, <1>11

(* What is read of a mail that is not too large is what the peer meant.    *)
LEMMA ReadAsMeant ==
  ASSUME NEW b \in Bodies, Smtp!readDataBlob(Smtp!Stuffed(b)).tag # "toolarge"
  PROVE  Smtp!readDataBlob(Smtp!Stuffed(b)).body = b
<1>1. PICK w : w = Smtp!Stuffed(b)
  OBVIOUS
<1>2. /\ Len(b) \in Nat /\ DOMAIN b = 1..Len(b) /\ DOMAIN w = 1..(Len(b) + 1)
      /\ Smtp!isDotLine(w[Len(b) + 1])
      /\ \A i \in 1..Len(b) : ~Smtp!isDotLine(w[i]) /\ Smtp!Unstuffed(w[i]) = b[i]
  BY <1>1, LinesOfStuffed DEF Smtp!isDotLine
<1> DEFINE Last(n) == Smtp!isDotLine(w[n]) /\ \A k \in 1..(n - 1) : ~Smtp!isDotLine(w[k])
           n == CHOOSE n \in DOMAIN w : Last(n)
           body == [k \in 1..(n - 1) |-> Smtp!Unstuffed(w[k])]
<1>3. Len(b) + 1 \in DOMAIN w /\ Last(Len(b) + 1)
  BY <1>2
<1>4. n \in DOMAIN w /\ Last(n)
  BY <1>3
<1>5. n = Len(b) + 1
  BY <1>2, <1>4
<1>6. body = b
  <2>1. body = [k \in 1..Len(b) |-> b[k]]
    <3>1. n - 1 = Len(b)
      BY <1>2, <1>5
    <3>2. \A k \in 1..Len(b) : Smtp!Unstuffed(w[k]) = b[k]
      BY <1>2
    <3>. QED
      BY <3>1, <3>2
  <2>2. b = [k \in 1..Len(b) |-> b[k]]
    BY BridgesAssumption, LenProperties
  <2>. QED
    BY <2>1, <2>2
<1>7. Smtp!readDataBlob(w) = IF Smtp!Bytes(body) > MaxMessageBytes THEN [tag |-> "toolarge"]
                             ELSE [tag |-> "ok", body |-> body]
  BY DEF Smtp!readDataBlob
<1>8. Smtp!readDataBlob(w) = [tag |-> "ok", body |-> body]
  BY <1>1, <1>7
<1>. QED
  BY <1>1, <1>6, <1>8

(* A listener starts with nothing accepted.                                *)
LEMMA SmtpStart == Smtp!SmtpInit => SmtpInv
<1> SUFFICES ASSUME Smtp!SmtpInit PROVE SmtpInv
  OBVIOUS
<1>1. sess = Smtp!NoSession /\ peer = Smtp!Nobody /\ mails = <<>> /\ meant = <<>> /\ taken = {} /\ told = {}
  BY DEF Smtp!SmtpInit
<1>2. Smtp!NoSession.open = FALSE
  BY DEF Smtp!NoSession
<1>3. Smtp!Nobody \in PeerType
  BY EmptySeq DEF Smtp!Nobody, PeerType, Froms, NoSender
<1>4. /\ mails \in Seq(MailType) /\ DOMAIN mails = {}
      /\ meant \in Seq(MailType \cup {Smtp!Unmeant}) /\ MeantFor(mails, meant)
  BY <1>1, EmptySeq DEF MeantFor
<1>. QED
  BY <1>1, <1>2, <1>3, <1>4 DEF SmtpInv

(* A session that is open has all its fields.                              *)
LEMMA SmtpOpen ==
  ASSUME SmtpInv, sess.open
  PROVE  /\ sess \in SessionType /\ peer \in PeerType /\ Agree(sess, peer)
         /\ (sess.from # NoSender => Entitled(sess))
<1>1. Smtp!NoSession.open = FALSE
  BY DEF Smtp!NoSession
<1>2. sess # Smtp!NoSession
  BY <1>1
<1>. QED
  BY <1>2 DEF SmtpInv

(* A command that hands over no mail.                                      *)
LEMMA SmtpMoves ==
  ASSUME NEW s \in SessionType, NEW q \in PeerType, SmtpInv, Smtp!Kept, sess' = s, peer' = q,
         Agree(s, q), s.from # NoSender => Entitled(s)
  PROVE  SmtpInv'
<1>1. sess' \in SessionType \cup {Smtp!NoSession} /\ peer' \in PeerType
  OBVIOUS
<1>2. Agree(sess', peer') /\ (sess'.from # NoSender => Entitled(sess'))
  OBVIOUS
<1>3. UNCHANGED <<mails, meant, taken, told>>
  BY DEF Smtp!Kept
<1>. QED
  BY <1>1, <1>2, <1>3 DEF SmtpInv

(* Nothing moves.                                                          *)
LEMMA SmtpStill == ASSUME SmtpInv, Smtp!Kept, UNCHANGED <<sess, peer>> PROVE SmtpInv'
<1>1. UNCHANGED <<sess, peer, mails, meant, taken, told>>
  BY DEF Smtp!Kept
<1>. QED
  BY <1>1 DEF SmtpInv

(* The greeting, STARTTLS and the end of a session forget the envelope and *)
(* the login on both sides.                                                *)
LEMMA SmtpFresh ==
  SmtpInv /\ (Smtp!Connect \/ Smtp!STARTTLS \/ Smtp!Leave) => SmtpInv'
<1> SUFFICES ASSUME SmtpInv, Smtp!Connect \/ Smtp!STARTTLS \/ Smtp!Leave PROVE SmtpInv'
  OBVIOUS
<1>1. <<>> \in Seq(Rcpts)
  BY EmptySeq
<1>2. PICK q : q = Smtp!Nobody
  OBVIOUS
<1>3. q \in PeerType /\ q.from = NoSender /\ q.to = <<>> /\ q.auth = FALSE
  BY <1>1, <1>2 DEF Smtp!Nobody, PeerType, Froms, NoSender
<1>4. PICK c : c = Smtp!Clear
  OBVIOUS
<1>5. c \in SessionType /\ c.from = NoSender /\ c.to = <<>> /\ c.auth = FALSE
  BY <1>1, <1>4 DEF Smtp!Clear, SessionType, Froms, NoSender
<1>8. Agree(c, q)
  BY <1>3, <1>5 DEF Agree
<1>9. CASE Smtp!Connect
  <2>1. sess' = c /\ peer' = q /\ Smtp!Kept
    BY <1>2, <1>4, <1>9 DEF Smtp!Connect
  <2>. QED
    BY <1>3, <1>5, <1>8, <2>1, SmtpMoves
<1>10. CASE Smtp!STARTTLS
  <2>0. PICK x : x = sess.astray
    OBVIOUS
  <2>1. x \in BOOLEAN
    <3>1. sess \in SessionType
      BY <1>10, SmtpOpen DEF Smtp!STARTTLS, Smtp!Command
    <3>. QED
      BY <2>0, <3>1 DEF SessionType
  <2>2. PICK e : e = [c EXCEPT !.tls = TRUE, !.astray = x]
    OBVIOUS
  <2>3. e \in SessionType /\ e.from = NoSender /\ e.to = <<>> /\ e.auth = FALSE
    <3>1. e \in SessionType
      BY <1>5, <2>1, <2>2 DEF SessionType
    <3>. QED
      BY <1>5, <2>2, <3>1 DEF SessionType
  <2>4. Agree(e, q)
    BY <1>3, <2>3 DEF Agree
  <2>5. Smtp!Kept /\ (UNCHANGED <<sess, peer>> \/ (sess' = e /\ peer' = q))
    BY <1>2, <1>4, <1>10, <2>0, <2>2 DEF Smtp!STARTTLS, Smtp!Encrypted
  <2>. QED
    BY <1>3, <2>3, <2>4, <2>5, SmtpMoves, SmtpStill
<1>11. CASE Smtp!Leave
  <2>1. sess' = Smtp!NoSession /\ peer' = q /\ UNCHANGED <<mails, meant, taken, told>>
    BY <1>2, <1>11 DEF Smtp!Leave, Smtp!Kept
  <2>2. Smtp!NoSession.open = FALSE
    BY DEF Smtp!NoSession
  <2>. QED
    BY <1>3, <2>1, <2>2 DEF SmtpInv
<1>. QED
  BY <1>9, <1>10, <1>11

(* HELO, AUTH and a message that times out touch no envelope; a login is   *)
(* known to both sides.                                                    *)
LEMMA SmtpGreets ==
  SmtpInv /\ (Smtp!HELO \/ Smtp!AUTH \/ Smtp!Other \/ Smtp!TimeOutInData) => SmtpInv'
<1> SUFFICES ASSUME SmtpInv, Smtp!HELO \/ Smtp!AUTH \/ Smtp!Other \/ Smtp!TimeOutInData PROVE SmtpInv'
  OBVIOUS
<1>1. sess.open /\ Smtp!Kept
  BY DEF Smtp!HELO, Smtp!AUTH, Smtp!Other, Smtp!TimeOutInData, Smtp!Command
<1>2. PICK s : s = sess
  OBVIOUS
<1>3. PICK q : q = peer
  OBVIOUS
<1>4. s \in SessionType /\ q \in PeerType /\ Agree(s, q) /\ (s.from # NoSender => Entitled(s))
  BY <1>1, <1>2, <1>3, SmtpOpen
<1>5. CASE Smtp!HELO
  <2>1. PICK h : h = [s EXCEPT !.helo = TRUE]
    OBVIOUS
  <2>2. h \in SessionType
    BY <1>4, <2>1 DEF SessionType
  <2>3. h.from = s.from /\ h.to = s.to /\ h.auth = s.auth
    BY <1>4, <2>1 DEF SessionType
  <2>4. Agree(h, q) /\ (h.from # NoSender => Entitled(h))
    BY <1>4, <2>3 DEF Agree, Entitled
  <2>5. sess' = h /\ peer' = q
    BY <1>2, <1>3, <1>5, <2>1 DEF Smtp!HELO
  <2>. QED
    BY <1>1, <1>4, <2>2, <2>4, <2>5, SmtpMoves
<1>6. CASE Smtp!AUTH
  <2>1. PICK a : a = [s EXCEPT !.auth = TRUE]
    OBVIOUS
  <2>2. PICK p : p = [q EXCEPT !.auth = TRUE]
    OBVIOUS
  <2>3. a \in SessionType /\ p \in PeerType
    BY <1>4, <2>1, <2>2 DEF SessionType, PeerType
  <2>4. a.from = s.from /\ a.to = s.to /\ a.auth = TRUE
    BY <1>4, <2>1 DEF SessionType
  <2>5. p.from = q.from /\ p.to = q.to /\ p.auth = TRUE
    BY <1>4, <2>2 DEF PeerType
  <2>6. Agree(a, p) /\ (a.from # NoSender => Entitled(a))
    BY <1>4, <2>4, <2>5 DEF Agree, Entitled
  <2>7. UNCHANGED <<sess, peer>> \/ (sess' = a /\ peer' = p)
    BY <1>2, <1>3, <1>6, <2>1, <2>2 DEF Smtp!AUTH
  <2>. QED
    BY <1>1, <2>3, <2>6, <2>7, SmtpMoves, SmtpStill
<1>7. CASE Smtp!Other
  BY <1>1, <1>7, SmtpStill DEF Smtp!Other
<1>8. CASE Smtp!TimeOutInData
  <2>1. PICK h : h = [s EXCEPT !.astray = TRUE]
    OBVIOUS
  <2>2. h \in SessionType
    BY <1>4, <2>1 DEF SessionType
  <2>3. h.from = s.from /\ h.to = s.to /\ h.auth = s.auth
    BY <1>4, <2>1 DEF SessionType
  <2>4. Agree(h, q) /\ (h.from # NoSender => Entitled(h))
    BY <1>4, <2>3 DEF Agree, Entitled
  <2>5. sess' = h /\ peer' = q
    BY <1>2, <1>3, <1>8, <2>1 DEF Smtp!TimeOutInData
  <2>. QED
    BY <1>1, <1>4, <2>2, <2>4, <2>5, SmtpMoves
<1>. QED
  BY <1>5, <1>6, <1>7, <1>8

(* An envelope begun, extended or dropped is so on both sides.             *)
LEMMA EnvelopeMoves ==
  ASSUME NEW fr \in Froms, NEW rs \in Seq(Rcpts), NEW s \in SessionType, NEW q \in PeerType,
         SmtpInv, Smtp!Kept, Agree(s, q),
         sess' = [s EXCEPT !.from = fr, !.to = rs], peer' = [q EXCEPT !.from = fr, !.to = rs],
         fr # NoSender => (AuthRequired => s.auth) /\ fr \in AllowedSenders
  PROVE  SmtpInv'
<1>1. PICK t : t = [s EXCEPT !.from = fr, !.to = rs]
  OBVIOUS
<1>2. PICK p : p = [q EXCEPT !.from = fr, !.to = rs]
  OBVIOUS
<1>3. t \in SessionType /\ p \in PeerType
  BY <1>1, <1>2 DEF SessionType, PeerType
<1>4. t.from = fr /\ t.to = rs /\ t.auth = s.auth
  BY <1>1 DEF SessionType
<1>5. p.from = fr /\ p.to = rs /\ p.auth = q.auth
  BY <1>2 DEF PeerType
<1>6. Agree(t, p) /\ (t.from # NoSender => Entitled(t))
  BY <1>4, <1>5 DEF Agree, Entitled
<1>. QED
  BY <1>1, <1>2, <1>3, <1>6, SmtpMoves

(* MAIL, RCPT and RSET.                                                    *)
LEMMA SmtpEnvelope ==
  ASSUME SmtpInv,
         \/ \E x \in Senders : Smtp!handleMAIL(x)
         \/ \E r \in Rcpts : Smtp!handleRCPT(r)
         \/ Smtp!RSET
  PROVE  SmtpInv'
<1>1. sess.open /\ Smtp!Kept
  BY DEF Smtp!handleMAIL, Smtp!handleRCPT, Smtp!RSET, Smtp!Command
<1>2. PICK s : s = sess
  OBVIOUS
<1>3. PICK q : q = peer
  OBVIOUS
<1>4. s \in SessionType /\ q \in PeerType /\ Agree(s, q) /\ (s.from # NoSender => Entitled(s))
  BY <1>1, <1>2, <1>3, SmtpOpen
<1>5. ASSUME NEW x \in Senders, Smtp!handleMAIL(x) PROVE SmtpInv'
  <2>1. CASE Smtp!MayMail /\ x \in AllowedSenders
    <3>1. sess' = [s EXCEPT !.from = x, !.to = <<>>] /\ peer' = [q EXCEPT !.from = x, !.to = <<>>]
      BY <1>2, <1>3, <1>5, <2>1 DEF Smtp!handleMAIL, Smtp!Started
    <3>2. x \in Froms /\ <<>> \in Seq(Rcpts) /\ (AuthRequired => s.auth)
      BY <1>2, <2>1, EmptySeq DEF Froms, Smtp!MayMail
    <3>. QED
      BY <1>1, <1>4, <2>1, <3>1, <3>2, EnvelopeMoves
  <2>2. CASE ~(Smtp!MayMail /\ x \in AllowedSenders)
    <3>1. UNCHANGED <<sess, peer>>
      BY <1>5, <2>2 DEF Smtp!handleMAIL
    <3>. QED
      BY <1>1, <3>1, SmtpStill
  <2>. QED
    BY <2>1, <2>2
<1>6. ASSUME NEW r \in Rcpts, Smtp!handleRCPT(r) PROVE SmtpInv'
  <2>1. CASE s.from = NoSender
    <3>1. UNCHANGED <<sess, peer>>
      BY <1>2, <1>6, <2>1 DEF Smtp!handleRCPT, NoSender
    <3>. QED
      BY <1>1, <3>1, SmtpStill
  <2>2. CASE s.from # NoSender
    <3>1. sess' = [s EXCEPT !.to = Append(@, r)] /\ peer' = [q EXCEPT !.to = Append(@, r)]
      BY <1>2, <1>3, <1>6, <2>2 DEF Smtp!handleRCPT, NoSender
    <3>2. s.from = q.from /\ s.to = q.to /\ s.to \in Seq(Rcpts) /\ s.from \in Froms
      BY <1>4 DEF Agree, SessionType
    <3>3. PICK rs : rs = Append(s.to, r)
      OBVIOUS
    <3>4. rs \in Seq(Rcpts)
      BY <3>2, <3>3, AppendProperties
    <3>5. sess' = [s EXCEPT !.from = s.from, !.to = rs]
      BY <1>4, <3>1, <3>3 DEF SessionType
    <3>6. peer' = [q EXCEPT !.from = s.from, !.to = rs]
      BY <1>4, <3>1, <3>2, <3>3 DEF PeerType
    <3>7. (AuthRequired => s.auth) /\ s.from \in AllowedSenders
      BY <1>4, <2>2 DEF Entitled
    <3>. QED
      BY <1>1, <1>4, <3>2, <3>4, <3>5, <3>6, <3>7, EnvelopeMoves
  <2>. QED
    BY <2>1, <2>2
<1>7. CASE Smtp!RSET
  <2>1. /\ sess' = [s EXCEPT !.from = NoSender, !.to = <<>>]
        /\ peer' = [q EXCEPT !.from = NoSender, !.to = <<>>]
    BY <1>2, <1>3, <1>7 DEF Smtp!RSET, NoSender
  <2>2. NoSender \in Froms /\ <<>> \in Seq(Rcpts)
    BY EmptySeq DEF Froms
  <2>. QED
    BY <1>1, <1>4, <2>1, <2>2, EnvelopeMoves
<1>. QED
  BY <1>5, <1>6, <1>7

(* DATA: a mail handed over is the peer's, and acknowledged only once it   *)
(* has been taken.                                                         *)
LEMMA SmtpData == ASSUME NEW b \in Bodies, SmtpInv, Smtp!handleDATA(b) PROVE SmtpInv'
<1>1. sess.open
  BY DEF Smtp!handleDATA, Smtp!Command
<1>2. PICK s : s = sess
  OBVIOUS
<1>3. PICK q : q = peer
  OBVIOUS
<1>4. s \in SessionType /\ q \in PeerType /\ Agree(s, q) /\ (s.from # NoSender => Entitled(s))
  BY <1>1, <1>2, <1>3, SmtpOpen
<1>5. PICK read : read = Smtp!readDataBlob(Smtp!Stuffed(b))
  OBVIOUS
<1>6. CASE s.from = NoSender \/ s.to = <<>> \/ read.tag = "toolarge"
  <2>1. UNCHANGED <<sess, peer>> /\ Smtp!Kept
    BY <1>2, <1>5, <1>6 DEF Smtp!handleDATA, NoSender
  <2>. QED
    BY <2>1, SmtpStill
<1>7. CASE ~(s.from = NoSender \/ s.to = <<>> \/ read.tag = "toolarge")
  <2>1. PICK m : m = [from |-> s.from, to |-> s.to, auth |-> s.auth, body |-> read.body]
    OBVIOUS
  <2>2. read.body = b
    BY <1>5, <1>7, ReadAsMeant
  <2>3. m = [from |-> q.from, to |-> q.to, auth |-> q.auth, body |-> b]
    BY <1>4, <2>1, <2>2 DEF Agree
  <2>4. m \in MailType /\ m.auth = s.auth /\ m.from = s.from
    BY <1>4, <2>1, <2>2 DEF MailType, SessionType
  <2>5. Entitled(m)
    BY <1>4, <1>7, <2>4 DEF Entitled
  <2>0. PICK w : w = IF s.astray THEN Smtp!Unmeant ELSE m
    OBVIOUS
  <2>6. /\ mails' = Append(mails, m) /\ meant' = Append(meant, w)
        /\ sess' = [s EXCEPT !.from = NoSender, !.to = <<>>]
        /\ peer' = [q EXCEPT !.from = NoSender, !.to = <<>>]
        /\ Smtp!Forward(Len(mails) + 1)
        /\ told' = IF reply' = 250 THEN told \cup {Len(mails) + 1} ELSE told
    <3>1. ~(sess.from = Smtp!NoMail \/ sess.to = <<>>) /\ read.tag # "toolarge"
      BY <1>2, <1>7 DEF NoSender
    <3>. QED
      BY <1>2, <1>3, <1>5, <2>0, <2>1, <2>3, <3>1 DEF Smtp!handleDATA, Smtp!Ended, NoSender
  <2>7. mails \in Seq(MailType) /\ Len(mails) \in Nat /\ DOMAIN mails = 1..Len(mails)
    BY <2>6, LenProperties DEF SmtpInv
  <2>8. /\ mails' \in Seq(MailType) /\ Len(mails') = Len(mails) + 1 /\ mails'[Len(mails) + 1] = m
        /\ \A i \in 1..Len(mails) : mails'[i] = mails[i]
    <3>1. mails \in Seq(MailType) /\ m \in MailType /\ mails' = Append(mails, m)
      BY <2>4, <2>6, <2>7
    <3>. QED
      BY <2>7, <3>1, AppendProperties
  <2>9. DOMAIN mails' = 1..(Len(mails) + 1)
    BY <2>8, LenProperties
  <2>18. meant' \in Seq(MailType \cup {Smtp!Unmeant}) /\ MeantFor(mails', meant')
    <3>1. /\ meant \in Seq(MailType \cup {Smtp!Unmeant}) /\ Len(meant) = Len(mails)
          /\ \A i \in DOMAIN mails : meant[i] = Smtp!Unmeant \/ mails[i] = meant[i]
      BY DEF SmtpInv, MeantFor
    <3>2. w \in MailType \cup {Smtp!Unmeant}
      BY <2>0, <2>4
    <3>3. /\ meant' \in Seq(MailType \cup {Smtp!Unmeant}) /\ Len(meant') = Len(meant) + 1
          /\ meant'[Len(meant) + 1] = w /\ \A i \in 1..Len(meant) : meant'[i] = meant[i]
      BY <2>6, <3>1, <3>2, AppendProperties
    <3>4. w = Smtp!Unmeant \/ m = w
      BY <2>0
    <3>5. ASSUME NEW i \in DOMAIN mails' PROVE meant'[i] = Smtp!Unmeant \/ mails'[i] = meant'[i]
      <4>1. CASE i \in DOMAIN mails
        BY <2>7, <2>8, <3>1, <3>3, <4>1
      <4>2. CASE i = Len(mails) + 1
        BY <2>8, <3>1, <3>3, <3>4, <4>2
      <4>. QED
        BY <2>7, <2>9, <4>1, <4>2
    <3>. QED
      BY <2>8, <3>1, <3>3, <3>5 DEF MeantFor
  <2>10. \A i \in DOMAIN mails' : Entitled(mails'[i])
    <3>1. \A i \in DOMAIN mails : Entitled(mails[i])
      BY DEF SmtpInv
    <3> SUFFICES ASSUME NEW i \in DOMAIN mails' PROVE Entitled(mails'[i])
      OBVIOUS
    <3>2. CASE i \in DOMAIN mails
      BY <2>7, <2>8, <3>1, <3>2
    <3>3. CASE i = Len(mails) + 1
      BY <2>5, <2>8, <3>3
    <3>. QED
      BY <2>7, <2>9, <3>2, <3>3
  <2>11. told' \subseteq taken'
    <3>1. told \subseteq taken
      BY DEF SmtpInv
    <3>2. \/ taken' = taken \cup {Len(mails) + 1}
          \/ taken' = taken /\ reply' = 451
      BY <2>6 DEF Smtp!Forward, Smtp!HandlerReply
    <3>. QED
      BY <2>6, <3>1, <3>2
  <2>12. PICK t : t = [s EXCEPT !.from = NoSender, !.to = <<>>]
    OBVIOUS
  <2>13. PICK p : p = [q EXCEPT !.from = NoSender, !.to = <<>>]
    OBVIOUS
  <2>14. NoSender \in Froms /\ <<>> \in Seq(Rcpts)
    BY EmptySeq DEF Froms
  <2>15. t \in SessionType /\ t.from = NoSender /\ t.to = <<>> /\ t.auth = s.auth
    <3>1. t \in SessionType
      BY <1>4, <2>12, <2>14 DEF SessionType
    <3>. QED
      BY <1>4, <2>12, <3>1 DEF SessionType
  <2>16. p \in PeerType /\ p.from = NoSender /\ p.to = <<>> /\ p.auth = q.auth
    <3>1. p \in PeerType
      BY <1>4, <2>13, <2>14 DEF PeerType
    <3>. QED
      BY <1>4, <2>13, <3>1 DEF PeerType
  <2>17. Agree(t, p)
    BY <1>4, <2>15, <2>16 DEF Agree
  <2>. QED
    BY <2>6, <2>8, <2>10, <2>11, <2>12, <2>13, <2>15, <2>16, <2>17, <2>18 DEF SmtpInv
<1>. QED
  BY <1>6, <1>7

(* Every step of the SMTP listener keeps its invariant.                    *)
LEMMA SmtpKept == SmtpInv /\ Smtp!SmtpNext => SmtpInv'
BY SmtpFresh, SmtpGreets, SmtpEnvelope, SmtpData DEF Smtp!SmtpNext

-----------------------------------------------------------------------------
(* The client.  Requests are counted by the tries, and a call that logged  *)
(* in again has a token the server accepts until one is withdrawn.         *)

CallType ==
    [step : {"idle", "send", "login", "ok", "rejected", "failed", "unauthorised"}, try : Nat,
     ltry : Nat, retriedAuth : BOOLEAN]

\* r is a call for which n requests were sent.
CountSound(r, n) ==
    /\ n <= MaxRetries + 1
    /\ r.step = "idle" => n = 0 /\ r.try = 1
    /\ r.step = "send" => n + 1 <= r.try /\ r.try <= MaxRetries + 1
    /\ r.step = "login" => n <= r.try /\ r.try <= MaxRetries + 1
\* A call that is spoiled has had a token withdrawn since it last logged in; an
\* ingest token is sent in place of one.
AuthSound(r, isSpoiled, isAuthorised, isRefused) ==
    /\ (r.step = "idle" => ~r.retriedAuth)
    /\ (r.step = "send" /\ r.retriedAuth /\ ~isSpoiled => isAuthorised)
    /\ (r.step = "unauthorised" => ~HasCredentials \/ isSpoiled \/ isRefused)

ClientTyped ==
    /\ call \in [Calls -> CallType] /\ took \in [Calls -> Nat] /\ tries \in [Calls -> Nat]
    /\ ingest \in {"none", "good", "refused"}
ClientCounts ==
    \A c \in Calls : CountSound(call[c], tries[c]) /\ (call[c].step = "ok" => took[c] > 0)
ClientAuth ==
    \A c \in Calls : AuthSound(call[c], c \in spoiled, ingest # "none" \/ token \in valid, ingest = "refused")
ClientInv == ClientTyped /\ ClientCounts /\ ClientAuth

(* A client starts with no call made.                                      *)
LEMMA ClientStart == Cli!ClientInit => ClientInv
<1> SUFFICES ASSUME Cli!ClientInit PROVE ClientInv
  OBVIOUS
<1>1. PICK f : f = Cli!Fresh
  OBVIOUS
<1>2. f \in CallType /\ f.step = "idle" /\ f.try = 1 /\ f.retriedAuth = FALSE
  BY <1>1 DEF Cli!Fresh, CallType
<1>3. /\ call = [c \in Calls |-> f] /\ took = [c \in Calls |-> 0] /\ tries = [c \in Calls |-> 0]
  BY <1>1 DEF Cli!ClientInit
<1>4. ClientTyped
  BY <1>2, <1>3 DEF ClientTyped, Cli!ClientInit
<1>5. ClientCounts
  BY <1>2, <1>3, BridgesAssumption DEF ClientCounts, CountSound
<1>6. ClientAuth
  BY <1>2, <1>3 DEF ClientAuth, AuthSound
<1>. QED
  BY <1>4, <1>5, <1>6 DEF ClientInv

(* One call moves to r; what was sent and taken for the others stays.      *)
LEMMA CallMoves ==
  ASSUME NEW c \in Calls, NEW r \in CallType, ClientInv, call' = [call EXCEPT ![c] = r],
         tries' \in [Calls -> Nat], took' \in [Calls -> Nat],
         \A d \in Calls \ {c} : tries'[d] = tries[d] /\ took'[d] = took[d],
         CountSound(r, tries'[c]), r.step = "ok" => took'[c] > 0,
         AuthSound(r, c \in spoiled', (ingest # "none" \/ token \in valid)', ingest' = "refused"),
         \A d \in Calls \ {c} : (d \in spoiled' <=> d \in spoiled),
         (ingest # "none" \/ token \in valid) => (ingest # "none" \/ token \in valid)',
         ingest' = ingest
  PROVE  ClientInv'
<1>1. call' \in [Calls -> CallType] /\ call'[c] = r /\ \A d \in Calls \ {c} : call'[d] = call[d]
  BY DEF ClientInv, ClientTyped
<1>2. ClientTyped'
  BY <1>1 DEF ClientTyped, ClientInv
<1>3. ClientCounts'
  <2> SUFFICES ASSUME NEW d \in Calls
               PROVE  CountSound(call'[d], tries'[d]) /\ (call'[d].step = "ok" => took'[d] > 0)
    BY DEF ClientCounts
  <2>1. CASE d = c
    BY <1>1, <2>1
  <2>2. CASE d # c
    BY <1>1, <2>2 DEF ClientInv, ClientCounts
  <2>. QED
    BY <2>1, <2>2
<1>4. ClientAuth'
  <2> SUFFICES ASSUME NEW d \in Calls
               PROVE  AuthSound(call'[d], d \in spoiled', (ingest # "none" \/ token \in valid)', ingest' = "refused")
    BY DEF ClientAuth
  <2>1. CASE d = c
    BY <1>1, <2>1
  <2>2. CASE d # c
    <3>1. AuthSound(call[d], d \in spoiled, ingest # "none" \/ token \in valid, ingest = "refused") /\ call'[d] = call[d]
      BY <1>1, <2>2 DEF ClientInv, ClientAuth
    <3>. QED
      BY <2>2, <3>1 DEF AuthSound
  <2>. QED
    BY <2>1, <2>2
<1>. QED
  BY <1>2, <1>3, <1>4 DEF ClientInv

(* A request was sent for c, and perhaps taken.                            *)
LEMMA OneSent ==
  ASSUME NEW c \in Calls, ClientInv, tries' = [tries EXCEPT ![c] = @ + 1],
         \/ took' = took
         \/ took' = [took EXCEPT ![c] = @ + 1]
         \/ took' = [took EXCEPT ![c] = IF Cli!Authorised THEN @ + 1 ELSE @]
  PROVE  /\ tries' \in [Calls -> Nat] /\ took' \in [Calls -> Nat]
         /\ \A d \in Calls \ {c} : tries'[d] = tries[d] /\ took'[d] = took[d]
         /\ tries'[c] = tries[c] + 1
<1>1. took \in [Calls -> Nat] /\ tries \in [Calls -> Nat]
  BY DEF ClientInv, ClientTyped
<1>2. PICK n : n = took[c] + 1
  OBVIOUS
<1>3. n \in Nat
  BY <1>1, <1>2
<1>4. took' = took \/ took' = [took EXCEPT ![c] = n]
  <2>1. [took EXCEPT ![c] = took[c]] = took
    BY <1>1
  <2>. QED
    BY <1>2, <2>1
<1>. QED
  BY <1>1, <1>3, <1>4

(* The call a step is about.                                               *)
LEMMA CallAt ==
  ASSUME NEW c \in Calls, ClientInv
  PROVE  /\ call[c] \in CallType /\ tries[c] \in Nat /\ took[c] \in Nat /\ CountSound(call[c], tries[c])
         /\ AuthSound(call[c], c \in spoiled, ingest # "none" \/ token \in valid, ingest = "refused")
         /\ call[c].try \in Nat /\ call[c].ltry \in Nat
<1>1. call[c] \in CallType /\ tries[c] \in Nat /\ took[c] \in Nat
  BY DEF ClientInv, ClientTyped
<1>2. CountSound(call[c], tries[c]) /\ AuthSound(call[c], c \in spoiled, ingest # "none" \/ token \in valid, ingest = "refused")
  BY DEF ClientInv, ClientCounts, ClientAuth
<1>. QED
  BY <1>1, <1>2 DEF CallType

(* A call whose step alone changes.                                        *)
LEMMA StepMoves ==
  ASSUME NEW c \in Calls, NEW s \in {"send", "ok", "rejected", "failed", "unauthorised"}, ClientInv,
         Cli!Set(c, s)
  PROVE  \E r \in CallType : /\ call' = [call EXCEPT ![c] = r]
                             /\ r.step = s /\ r.try = call[c].try /\ r.retriedAuth = call[c].retriedAuth
<1>1. PICK r : r = [call[c] EXCEPT !.step = s]
  OBVIOUS
<1>2. call[c] \in CallType
  BY CallAt
<1>3. r \in CallType
  BY <1>1, <1>2 DEF CallType
<1>4. r.step = s /\ r.try = call[c].try /\ r.retriedAuth = call[c].retriedAuth
  BY <1>1, <1>2 DEF CallType
<1>5. call' = [call EXCEPT ![c] = r]
  BY <1>1 DEF Cli!Set
<1>. QED
  BY <1>3, <1>4, <1>5

(* backoff.Retry: one more try, or the end.                                *)
LEMMA RetryMoves ==
  ASSUME NEW c \in Calls, ClientInv, Cli!RetryOr(c, "failed")
  PROVE  \E r \in CallType :
            /\ call' = [call EXCEPT ![c] = r] /\ r.retriedAuth = call[c].retriedAuth
            /\ \/ r.step = "failed"
               \/ r.step = "send" /\ call[c].try <= MaxRetries /\ r.try = call[c].try + 1
<1>1. call[c] \in CallType /\ call[c].try \in Nat
  BY CallAt
<1>2. CASE call[c].try <= MaxRetries
  <2>0. PICK n : n = call[c].try + 1
    OBVIOUS
  <2>1. PICK r : r = [call[c] EXCEPT !.step = "send", !.try = n]
    OBVIOUS
  <2>2. n \in Nat
    BY <1>1, <2>0
  <2>3. r \in CallType
    BY <1>1, <2>1, <2>2 DEF CallType
  <2>4. r.step = "send" /\ r.try = n /\ r.retriedAuth = call[c].retriedAuth
    BY <1>1, <2>1 DEF CallType
  <2>5. call' = [call EXCEPT ![c] = r]
    BY <1>2, <2>0, <2>1 DEF Cli!RetryOr
  <2>. QED
    BY <1>2, <2>0, <2>3, <2>4, <2>5
<1>3. CASE ~(call[c].try <= MaxRetries)
  <2>1. PICK r : r = [call[c] EXCEPT !.step = "failed"]
    OBVIOUS
  <2>3. r \in CallType
    BY <1>1, <2>1 DEF CallType
  <2>4. r.step = "failed" /\ r.retriedAuth = call[c].retriedAuth
    BY <1>1, <2>1 DEF CallType
  <2>5. call' = [call EXCEPT ![c] = r]
    BY <1>3, <2>1 DEF Cli!RetryOr
  <2>. QED
    BY <2>3, <2>4, <2>5
<1>. QED
  BY <1>2, <1>3

(* PostAlert and the server's answer to a request.                         *)
LEMMA ClientSends ==
  ASSUME NEW c \in Calls, ClientInv, Cli!PostAlert(c) \/ Cli!Answered(c)
  PROVE  ClientInv'
<1>1. /\ CountSound(call[c], tries[c]) /\ AuthSound(call[c], c \in spoiled, ingest # "none" \/ token \in valid, ingest = "refused")
      /\ tries[c] \in Nat /\ took[c] \in Nat /\ call[c].try \in Nat /\ call[c] \in CallType
  BY CallAt
<1>2. CASE Cli!PostAlert(c)
  <2>1. PICK r \in CallType : /\ call' = [call EXCEPT ![c] = r] /\ r.step = "send"
                              /\ r.try = call[c].try /\ r.retriedAuth = call[c].retriedAuth
    BY <1>2, StepMoves DEF Cli!PostAlert
  <2>2. UNCHANGED <<token, valid, ingest, took, tries, spoiled>> /\ call[c].step = "idle"
    BY <1>2 DEF Cli!PostAlert
  <2>3. CountSound(r, tries[c]) /\ AuthSound(r, c \in spoiled, ingest # "none" \/ token \in valid, ingest = "refused")
    BY <1>1, <2>1, <2>2, BridgesAssumption DEF CountSound, AuthSound
  <2>4. tries \in [Calls -> Nat] /\ took \in [Calls -> Nat]
    BY DEF ClientInv, ClientTyped
  <2>. QED
    BY <2>1, <2>2, <2>3, <2>4, CallMoves
<1>3. CASE Cli!Answered(c)
  <2>1. PICK s \in {"ok", "rejected"} : /\ Cli!Set(c, s)
                                        /\ \/ s = "ok" /\ took' = [took EXCEPT ![c] = @ + 1]
                                           \/ s = "rejected" /\ took' = took
    BY <1>3 DEF Cli!Answered
  <2>2. PICK r \in CallType : call' = [call EXCEPT ![c] = r] /\ r.step = s
    BY <2>1, StepMoves
  <2>3. UNCHANGED <<token, valid, ingest, spoiled>> /\ call[c].step = "send" /\ tries' = [tries EXCEPT ![c] = @ + 1]
    BY <1>3 DEF Cli!Answered
  <2>4. /\ tries' \in [Calls -> Nat] /\ took' \in [Calls -> Nat]
        /\ \A d \in Calls \ {c} : tries'[d] = tries[d] /\ took'[d] = took[d]
        /\ tries'[c] = tries[c] + 1
    BY <2>1, <2>3, OneSent
  <2>5. CountSound(r, tries'[c])
    BY <1>1, <2>1, <2>2, <2>3, <2>4, BridgesAssumption DEF CountSound
  <2>6. r.step = "ok" => took'[c] > 0
    <3>1. took \in [Calls -> Nat]
      BY DEF ClientInv, ClientTyped
    <3>. QED
      BY <2>1, <2>2, <3>1
  <2>7. AuthSound(r, c \in spoiled, ingest # "none" \/ token \in valid, ingest = "refused")
    BY <2>1, <2>2 DEF AuthSound
  <2>. QED
    BY <2>2, <2>3, <2>4, <2>5, <2>6, <2>7, CallMoves
<1>. QED
  BY <1>2, <1>3

(* A request that failed, or was refused.                                  *)
LEMMA ClientFails ==
  ASSUME NEW c \in Calls, ClientInv, Cli!Transient(c) \/ Cli!Permanent(c)
  PROVE  ClientInv'
<1>1. /\ CountSound(call[c], tries[c]) /\ AuthSound(call[c], c \in spoiled, ingest # "none" \/ token \in valid, ingest = "refused")
      /\ tries[c] \in Nat /\ took[c] \in Nat /\ call[c].try \in Nat /\ call[c] \in CallType
  BY CallAt
<1>2. PICK r \in CallType :
        /\ call' = [call EXCEPT ![c] = r] /\ r.retriedAuth = call[c].retriedAuth
        /\ \/ r.step = "failed"
           \/ r.step = "send" /\ call[c].try <= MaxRetries /\ r.try = call[c].try + 1
  <2>1. CASE Cli!Transient(c)
    BY <2>1, RetryMoves DEF Cli!Transient
  <2>2. CASE Cli!Permanent(c)
    BY <2>2, StepMoves DEF Cli!Permanent
  <2>. QED
    BY <2>1, <2>2
<1>3. /\ UNCHANGED <<token, valid, ingest, spoiled>> /\ call[c].step = "send"
      /\ tries' = [tries EXCEPT ![c] = @ + 1]
      /\ took' = took \/ took' = [took EXCEPT ![c] = IF Cli!Authorised THEN @ + 1 ELSE @]
  BY DEF Cli!Transient, Cli!Permanent
<1>4. /\ tries' \in [Calls -> Nat] /\ took' \in [Calls -> Nat]
      /\ \A d \in Calls \ {c} : tries'[d] = tries[d] /\ took'[d] = took[d]
      /\ tries'[c] = tries[c] + 1
  BY <1>3, OneSent
<1>5. CountSound(r, tries'[c])
  BY <1>1, <1>2, <1>3, <1>4, BridgesAssumption DEF CountSound
<1>6. AuthSound(r, c \in spoiled, ingest # "none" \/ token \in valid, ingest = "refused")
  BY <1>1, <1>2, <1>3 DEF AuthSound
<1>7. r.step # "ok"
  BY <1>2
<1>. QED
  BY <1>2, <1>3, <1>4, <1>5, <1>6, <1>7, CallMoves

(* A 401.  A call that has logged in again gets one only if a token was    *)
(* withdrawn.                                                              *)
LEMMA ClientRefused == ASSUME NEW c \in Calls, ClientInv, Cli!Unauthorised(c) PROVE ClientInv'
<1>1. /\ CountSound(call[c], tries[c]) /\ AuthSound(call[c], c \in spoiled, ingest # "none" \/ token \in valid, ingest = "refused")
      /\ tries[c] \in Nat /\ took[c] \in Nat /\ call[c].try \in Nat /\ call[c] \in CallType
  BY CallAt
<1>2. /\ UNCHANGED <<token, valid, ingest, spoiled, took>> /\ call[c].step = "send"
      /\ tries' = [tries EXCEPT ![c] = @ + 1] 
      /\ ingest = "refused" \/ ~(ingest # "none" \/ token \in valid)
  BY DEF Cli!Unauthorised, Cli!Authorised, ClientInv, ClientTyped
<1>3. /\ tries' \in [Calls -> Nat] /\ took' \in [Calls -> Nat]
      /\ \A d \in Calls \ {c} : tries'[d] = tries[d] /\ took'[d] = took[d]
      /\ tries'[c] = tries[c] + 1
  BY <1>2, OneSent
<1>4. CASE HasCredentials /\ ~call[c].retriedAuth
  <2>1. PICK r : r = [call[c] EXCEPT !.step = "login", !.retriedAuth = TRUE, !.ltry = 1]
    OBVIOUS
  <2>2. r \in CallType
    BY <1>1, <2>1 DEF CallType
  <2>3. r.step = "login" /\ r.try = call[c].try
    BY <1>1, <2>1 DEF CallType
  <2>4. call' = [call EXCEPT ![c].step = "login", ![c].retriedAuth = TRUE, ![c].ltry = 1]
    BY <1>4 DEF Cli!Unauthorised, Cli!canRelogin
  <2>5. call' = [call EXCEPT ![c] = r]
    BY <2>1, <2>4 DEF ClientInv, ClientTyped
  <2>6. CountSound(r, tries'[c]) /\ AuthSound(r, c \in spoiled, ingest # "none" \/ token \in valid, ingest = "refused")
    BY <1>1, <1>2, <1>3, <2>3, BridgesAssumption DEF CountSound, AuthSound
  <2>. QED
    BY <1>2, <1>3, <2>2, <2>3, <2>5, <2>6, CallMoves
<1>5. CASE ~(HasCredentials /\ ~call[c].retriedAuth)
  <2>1. PICK r \in CallType : call' = [call EXCEPT ![c] = r] /\ r.step = "unauthorised"
    BY <1>5, StepMoves DEF Cli!Unauthorised, Cli!canRelogin
  <2>2. ~HasCredentials \/ c \in spoiled \/ ingest = "refused"
    BY <1>1, <1>2, <1>5 DEF AuthSound
  <2>3. CountSound(r, tries'[c]) /\ AuthSound(r, c \in spoiled, ingest # "none" \/ token \in valid, ingest = "refused")
    BY <1>1, <1>2, <1>3, <2>1, <2>2, BridgesAssumption DEF CountSound, AuthSound
  <2>. QED
    BY <1>2, <1>3, <2>1, <2>3, CallMoves
<1>. QED
  BY <1>4, <1>5

(* A login gives every call a token that is accepted.                      *)
LEMMA ClientLogin == ASSUME NEW c \in Calls, ClientInv, Cli!Login(c) PROVE ClientInv'
<1>1. /\ CountSound(call[c], tries[c]) /\ tries[c] \in Nat /\ call[c].try \in Nat /\ call[c] \in CallType
  BY CallAt
<1>2. PICK r \in CallType :
        /\ call' = [call EXCEPT ![c] = r] /\ r.retriedAuth = call[c].retriedAuth
        /\ \/ r.step = "failed"
           \/ r.step = "send" /\ call[c].try <= MaxRetries /\ r.try = call[c].try + 1
  BY RetryMoves DEF Cli!Login
<1>3. /\ UNCHANGED <<ingest, took, tries>> /\ call[c].step = "login" /\ spoiled' = spoiled \ {c}
      /\ token' \in valid' 
  BY DEF Cli!Login
<1>4. CountSound(r, tries[c])
  BY <1>1, <1>2, <1>3, BridgesAssumption DEF CountSound
<1>5. (ingest # "none" \/ token \in valid)' /\ \A d \in Calls \ {c} : (d \in spoiled' <=> d \in spoiled)
  BY <1>3
<1>6. AuthSound(r, c \in spoiled', (ingest # "none" \/ token \in valid)', ingest' = "refused")
  BY <1>2, <1>5 DEF AuthSound
<1>7. tries' \in [Calls -> Nat] /\ took' \in [Calls -> Nat] /\ r.step # "ok"
  BY <1>2, <1>3 DEF ClientInv, ClientTyped
<1>. QED
  BY <1>2, <1>3, <1>4, <1>5, <1>6, <1>7, CallMoves

(* A login that fails is retried, or the call fails with it.               *)
LEMMA ClientLoginFails ==
  ASSUME NEW c \in Calls, ClientInv, Cli!LoginFails(c) \/ Cli!LoginRefused(c)
  PROVE  ClientInv'
<1>1. /\ CountSound(call[c], tries[c]) /\ tries[c] \in Nat /\ call[c].try \in Nat /\ call[c] \in CallType
      /\ call[c].ltry \in Nat
  BY CallAt
<1>2. UNCHANGED <<took, tries, token, valid, ingest, spoiled>> /\ call[c].step = "login"
  BY DEF Cli!LoginFails, Cli!LoginRefused
<1>3. PICK r \in CallType : /\ call' = [call EXCEPT ![c] = r]
                            /\ r.step = "failed" \/ (r.step = "login" /\ r.try = call[c].try)
  <2>1. CASE Cli!LoginFails(c)
    <3>1. PICK n : n = call[c].ltry + 1
      OBVIOUS
    <3>2. PICK x : x = [call[c] EXCEPT !.ltry = n]
      OBVIOUS
    <3>3. PICK y : y = [call[c] EXCEPT !.step = "failed"]
      OBVIOUS
    <3>4. n \in Nat
      BY <1>1, <3>1
    <3>5. x \in CallType /\ y \in CallType
      BY <1>1, <3>2, <3>3, <3>4 DEF CallType
    <3>6. x.step = "login" /\ x.try = call[c].try /\ y.step = "failed"
      BY <1>1, <1>2, <3>2, <3>3 DEF CallType
    <3>7. call' = [call EXCEPT ![c] = x] \/ call' = [call EXCEPT ![c] = y]
      BY <2>1, <3>1, <3>2, <3>3 DEF Cli!LoginFails
    <3>. QED
      BY <3>5, <3>6, <3>7
  <2>2. CASE Cli!LoginRefused(c)
    BY <2>2, StepMoves DEF Cli!LoginRefused
  <2>. QED
    BY <2>1, <2>2
<1>4. CountSound(r, tries[c])
  BY <1>1, <1>2, <1>3, BridgesAssumption DEF CountSound
<1>5. AuthSound(r, c \in spoiled, ingest # "none" \/ token \in valid, ingest = "refused")
  BY <1>3 DEF AuthSound
<1>6. tries' \in [Calls -> Nat] /\ took' \in [Calls -> Nat] /\ r.step # "ok"
  BY <1>2, <1>3 DEF ClientInv, ClientTyped
<1>. QED
  BY <1>2, <1>3, <1>4, <1>5, <1>6, CallMoves

(* A token withdrawn spoils every call; a restart ends them all.           *)
LEMMA ClientWorld ==
  ClientInv /\ (Cli!Logout \/ Cli!Expire \/ Cli!RevokeIngest \/ Cli!Reopen) => ClientInv'
<1> SUFFICES ASSUME ClientInv, Cli!Logout \/ Cli!Expire \/ Cli!RevokeIngest \/ Cli!Reopen PROVE ClientInv'
  OBVIOUS
<1>1. CASE Cli!Logout \/ Cli!Expire
  <2>1. UNCHANGED <<call, ingest, took, tries>> /\ spoiled' = Calls
    BY <1>1 DEF Cli!Logout, Cli!Expire
  <2>2. ClientTyped' /\ ClientCounts'
    BY <2>1 DEF ClientInv, ClientTyped, ClientCounts
  <2>3. ClientAuth'
    <3> SUFFICES ASSUME NEW c \in Calls
                 PROVE  AuthSound(call[c], c \in spoiled', (ingest # "none" \/ token \in valid)', ingest' = "refused")
      BY <2>1 DEF ClientAuth
    <3>1. AuthSound(call[c], c \in spoiled, ingest # "none" \/ token \in valid, ingest = "refused")
      BY DEF ClientInv, ClientAuth
    <3>. QED
      BY <2>1, <3>1 DEF AuthSound
  <2>. QED
    BY <2>2, <2>3 DEF ClientInv
<1>2. CASE Cli!Reopen
  <2>1. PICK f : f = [Cli!Fresh EXCEPT !.step = "failed"]
    OBVIOUS
  <2>2. f \in CallType /\ f.step = "failed"
    BY <2>1 DEF Cli!Fresh, CallType
  <2>3. call' = [c \in Calls |-> f] /\ UNCHANGED <<ingest, took, tries>>
    BY <1>2, <2>1 DEF Cli!Reopen
  <2>4. ClientTyped'
    BY <2>2, <2>3 DEF ClientInv, ClientTyped
  <2>5. ClientCounts'
    BY <2>2, <2>3 DEF ClientInv, ClientCounts, CountSound
  <2>6. ClientAuth'
    BY <2>2, <2>3 DEF ClientAuth, AuthSound
  <2>. QED
    BY <2>4, <2>5, <2>6 DEF ClientInv
<1>3. CASE Cli!RevokeIngest
  <2>1. UNCHANGED <<call, took, tries, spoiled>> /\ ingest = "good" /\ ingest' = "refused"
    BY <1>3 DEF Cli!RevokeIngest
  <2>2. ClientTyped' /\ ClientCounts'
    BY <2>1 DEF ClientInv, ClientTyped, ClientCounts
  <2>3. ClientAuth'
    BY <2>1 DEF ClientInv, ClientAuth, AuthSound
  <2>. QED
    BY <2>2, <2>3 DEF ClientInv
<1>. QED
  BY <1>1, <1>2, <1>3

(* Every step of the client keeps its invariant.                           *)
LEMMA ClientKept == ClientInv /\ Cli!ClientNext => ClientInv'
BY ClientSends, ClientFails, ClientRefused, ClientLogin, ClientLoginFails, ClientWorld
   DEF Cli!ClientNext, Cli!CallStep

-----------------------------------------------------------------------------
(* The requests to Graph.  A request that is not over was sent once less   *)
(* often than it was tried.                                                *)

\* r is a request with all its fields.
IsRequest(r) ==
    r = [step |-> r.step, try |-> r.try, tok |-> r.tok, grant |-> r.grant, fd |-> r.fd]
\* ... for which n were sent.
SendsSound(r, n) ==
    /\ IsRequest(r) /\ r.try \in {1, 2} /\ n \in 0..2
    /\ r.step \in {"ok", "failed"} \/ n + 1 <= r.try

GraphInv ==
    /\ gcall = [c \in Callers |-> gcall[c]] /\ gsends = [c \in Callers |-> gsends[c]]
    /\ \A c \in Callers : SendsSound(gcall[c], gsends[c])

(* A request as it begins, and as one that is over leaves it.              *)
LEMMA QuietRequest ==
  ASSUME NEW s
  PROVE  /\ IsRequest(Graph!Quiet) /\ Graph!Quiet.step = "idle" /\ Graph!Quiet.try = 1
         /\ IsRequest([Graph!Quiet EXCEPT !.step = s])
         /\ [Graph!Quiet EXCEPT !.step = s].step = s /\ [Graph!Quiet EXCEPT !.step = s].try = 1
BY DEF Graph!Quiet, IsRequest

(* At the start no request was sent.                                       *)
LEMMA GraphStart == Graph!GraphInit => GraphInv
<1> SUFFICES ASSUME Graph!GraphInit PROVE GraphInv
  OBVIOUS
<1>1. PICK q : q = Graph!Quiet
  OBVIOUS
<1>2. IsRequest(q) /\ q.step = "idle" /\ q.try = 1
  BY <1>1, QuietRequest
<1>3. gcall = [c \in Callers |-> q] /\ gsends = [c \in Callers |-> 0]
  BY <1>1 DEF Graph!GraphInit
<1>4. SendsSound(q, 0)
  BY <1>2 DEF SendsSound
<1>. QED
  BY <1>3, <1>4 DEF GraphInv

(* One request moves to r and n were sent for it.                          *)
LEMMA RequestMoves ==
  ASSUME NEW c \in Callers, NEW r, NEW n, GraphInv, SendsSound(r, n),
         gcall' = [gcall EXCEPT ![c] = r],
         gsends' = [gsends EXCEPT ![c] = n] \/ (gsends' = gsends /\ n = gsends[c])
  PROVE  GraphInv'
<1>1. gcall = [d \in Callers |-> gcall[d]] /\ gsends = [d \in Callers |-> gsends[d]]
  BY DEF GraphInv
<1>2. gcall' = [d \in Callers |-> IF d = c THEN r ELSE gcall[d]]
  BY <1>1
<1>3. gsends' = [d \in Callers |-> IF d = c THEN n ELSE gsends[d]]
  BY <1>1
<1>4. \A d \in Callers : SendsSound(gcall'[d], gsends'[d])
  <2> SUFFICES ASSUME NEW d \in Callers PROVE SendsSound(gcall'[d], gsends'[d])
    OBVIOUS
  <2>1. CASE d = c
    BY <1>2, <1>3, <2>1
  <2>2. CASE d # c
    <3>1. gcall'[d] = gcall[d] /\ gsends'[d] = gsends[d]
      BY <1>2, <1>3, <2>2
    <3>. QED
      BY <3>1 DEF GraphInv
  <2>. QED
    BY <2>1, <2>2
<1>. QED
  BY <1>2, <1>3, <1>4 DEF GraphInv

(* A request that goes on in the same try, without being sent.             *)
LEMMA RequestGoes ==
  ASSUME NEW c \in Callers, NEW r, GraphInv, IsRequest(r), r.try = gcall[c].try,
         gcall[c].step \notin {"ok", "failed"}, gcall' = [gcall EXCEPT ![c] = r], gsends' = gsends
  PROVE  GraphInv'
<1>1. PICK n : n = gsends[c]
  OBVIOUS
<1>2. SendsSound(gcall[c], n)
  BY <1>1 DEF GraphInv
<1>3. SendsSound(r, n)
  BY <1>2 DEF SendsSound
<1>. QED
  BY <1>1, <1>3, RequestMoves

(* A request that is over, with the last one sent or not.                  *)
LEMMA RequestEnds ==
  ASSUME NEW c \in Callers, NEW s \in {"ok", "failed"}, GraphInv, Graph!Ends(c, s),
         gcall[c].step \notin {"ok", "failed"},
         gsends' = gsends \/ gsends' = [gsends EXCEPT ![c] = @ + 1]
  PROVE  GraphInv'
<1>1. PICK r : r = [Graph!Quiet EXCEPT !.step = s]
  OBVIOUS
<1>2. IsRequest(r) /\ r.step = s /\ r.try = 1
  BY <1>1, QuietRequest
<1>3. SendsSound(gcall[c], gsends[c])
  BY DEF GraphInv
<1>4. gcall' = [gcall EXCEPT ![c] = r]
  BY <1>1 DEF Graph!Ends
<1>5. PICK n : n = gsends'[c]
  OBVIOUS
<1>6. gsends[c] \in 0..1
  BY <1>3 DEF SendsSound
<1>7. /\ n = gsends[c] \/ n = gsends[c] + 1
      /\ gsends' = [gsends EXCEPT ![c] = n] \/ (gsends' = gsends /\ n = gsends[c])
  <2>1. gsends = [d \in Callers |-> gsends[d]]
    BY DEF GraphInv
  <2>. QED
    BY <1>5, <2>1
<1>8. SendsSound(r, n)
  BY <1>2, <1>6, <1>7 DEF SendsSound
<1>. QED
  BY <1>4, <1>7, <1>8, RequestMoves

\* A step of a request changes its step and perhaps one more field.
Changed(q, r) ==
    \E s, x : \/ q = [r EXCEPT !.step = s] \/ q = [r EXCEPT !.step = s, !.tok = x]
              \/ q = [r EXCEPT !.step = s, !.grant = x] \/ q = [r EXCEPT !.step = s, !.fd = x]

(* It leaves the try the request is in.                                    *)
LEMMA FieldsChange ==
  ASSUME NEW r, IsRequest(r), NEW q, Changed(q, r)
  PROVE  IsRequest(q) /\ q.try = r.try
<1>0. PICK s, x : \/ q = [r EXCEPT !.step = s] \/ q = [r EXCEPT !.step = s, !.tok = x]
                  \/ q = [r EXCEPT !.step = s, !.grant = x] \/ q = [r EXCEPT !.step = s, !.fd = x]
  BY DEF Changed
<1>1. PICK a, t, k, g, f : r = [step |-> a, try |-> t, tok |-> k, grant |-> g, fd |-> f]
  BY DEF IsRequest
<1>2. PICK p : p = [r EXCEPT !.step = s]
  OBVIOUS
<1>3. p = [step |-> s, try |-> t, tok |-> k, grant |-> g, fd |-> f]
  BY <1>1, <1>2
<1>4. \/ q = p \/ q = [p EXCEPT !.tok = x] \/ q = [p EXCEPT !.grant = x] \/ q = [p EXCEPT !.fd = x]
  BY <1>0, <1>2
<1>5. \E l, h, e : q = [step |-> s, try |-> t, tok |-> l, grant |-> h, fd |-> e]
  <2>1. CASE q = p
    BY <1>3, <2>1
  <2>2. CASE q = [p EXCEPT !.tok = x]
    <3>1. q = [step |-> s, try |-> t, tok |-> x, grant |-> g, fd |-> f]
      BY <1>3, <2>2
    <3>. QED
      BY <3>1
  <2>3. CASE q = [p EXCEPT !.grant = x]
    <3>1. q = [step |-> s, try |-> t, tok |-> k, grant |-> x, fd |-> f]
      BY <1>3, <2>3
    <3>. QED
      BY <3>1
  <2>4. CASE q = [p EXCEPT !.fd = x]
    <3>1. q = [step |-> s, try |-> t, tok |-> k, grant |-> g, fd |-> x]
      BY <1>3, <2>4
    <3>. QED
      BY <3>1
  <2>. QED
    BY <1>4, <2>1, <2>2, <2>3, <2>4
<1>. QED
  BY <1>1, <1>5 DEF IsRequest

(* Another's rename changes the file a request writes to.                  *)
LEMMA FileChanges ==
  ASSUME NEW r, IsRequest(r), NEW x, NEW q, q = [r EXCEPT !.fd = x]
  PROVE  IsRequest(q) /\ q.try = r.try /\ q.step = r.step
<1>1. PICK a, t, k, g, f : r = [step |-> a, try |-> t, tok |-> k, grant |-> g, fd |-> f]
  BY DEF IsRequest
<1>2. q = [step |-> a, try |-> t, tok |-> k, grant |-> g, fd |-> x]
  BY <1>1
<1>. QED
  BY <1>1, <1>2 DEF IsRequest

(* Acquiring a token.                                                      *)
LEMMA GraphAcquires ==
  ASSUME NEW c \in Callers, GraphInv,
         \/ Graph!bearerToken(c) \/ Graph!fetchAppToken(c) \/ Graph!fetchDelegatedToken(c)
         \/ Graph!Refreshed(c) \/ Graph!OpenTmp(c) \/ Graph!FillTmp(c)
  PROVE  GraphInv'
<1>1. PICK o : o = gcall[c]
  OBVIOUS
<1>2. gsends' = gsends
  BY DEF Graph!bearerToken, Graph!fetchAppToken, Graph!fetchDelegatedToken, Graph!Refreshed,
         Graph!OpenTmp, Graph!FillTmp
<1>3. gcall[c].step \notin {"ok", "failed"}
  BY DEF Graph!bearerToken, Graph!fetchAppToken, Graph!fetchDelegatedToken, Graph!Refreshed,
         Graph!OpenTmp, Graph!FillTmp, Graph!At
<1>4. IsRequest(o) /\ c \in DOMAIN gcall
  BY <1>1 DEF GraphInv, SendsSound
<1>5. CASE Graph!Ends(c, "failed")
  BY <1>2, <1>3, <1>5, RequestEnds
<1>6. CASE ~Graph!Ends(c, "failed")
  <2>1. \E s, x : \/ gcall' = [gcall EXCEPT ![c].step = s]
                  \/ gcall' = [gcall EXCEPT ![c].step = s, ![c].tok = x]
                  \/ gcall' = [gcall EXCEPT ![c].step = s, ![c].grant = x]
                  \/ gcall' = [gcall EXCEPT ![c].step = s, ![c].fd = x]
    <3>1. CASE Graph!bearerToken(c)
      BY <3>1 DEF Graph!bearerToken, Graph!Goes
    <3>2. CASE Graph!fetchAppToken(c)
      BY <3>2 DEF Graph!fetchAppToken, Graph!Issued
    <3>3. CASE Graph!fetchDelegatedToken(c)
      BY <1>6, <3>3 DEF Graph!fetchDelegatedToken, Graph!Issued
    <3>4. CASE Graph!Refreshed(c)
      BY <3>4 DEF Graph!Refreshed
    <3>5. CASE Graph!OpenTmp(c) \/ Graph!FillTmp(c)
      BY <3>5 DEF Graph!OpenTmp, Graph!FillTmp, Graph!Goes
    <3>. QED
      BY <3>1, <3>2, <3>3, <3>4, <3>5
  <2>2. PICK s, x : \/ gcall' = [gcall EXCEPT ![c].step = s]
                    \/ gcall' = [gcall EXCEPT ![c].step = s, ![c].tok = x]
                    \/ gcall' = [gcall EXCEPT ![c].step = s, ![c].grant = x]
                    \/ gcall' = [gcall EXCEPT ![c].step = s, ![c].fd = x]
    BY <2>1
  <2>3. \/ gcall' = [gcall EXCEPT ![c] = [o EXCEPT !.step = s]]
        \/ gcall' = [gcall EXCEPT ![c] = [o EXCEPT !.step = s, !.tok = x]]
        \/ gcall' = [gcall EXCEPT ![c] = [o EXCEPT !.step = s, !.grant = x]]
        \/ gcall' = [gcall EXCEPT ![c] = [o EXCEPT !.step = s, !.fd = x]]
    BY <1>1, <1>4, <2>2
  <2>4. PICK r : IsRequest(r) /\ r.try = o.try /\ gcall' = [gcall EXCEPT ![c] = r]
    <3>1. PICK r : Changed(r, o) /\ gcall' = [gcall EXCEPT ![c] = r]
      BY <2>3 DEF Changed
    <3>. QED
      BY <1>4, <3>1, FieldsChange
  <2>. QED
    BY <1>1, <1>2, <1>3, <2>4, RequestGoes
<1>. QED
  BY <1>5, <1>6

(* A rename: the caller's request goes on in its try; those that were      *)
(* writing write to the file now.                                          *)
LEMMA GraphRenames == ASSUME NEW c \in Callers, GraphInv, Graph!Rename(c) PROVE GraphInv'
<1>1. gsends' = gsends /\ gcall[c].step = "rename"
  BY DEF Graph!Rename, Graph!At
<1>2. CASE Graph!Ends(c, "failed")
  BY <1>1, <1>2, RequestEnds
<1>3. CASE ~Graph!Ends(c, "failed")
  <2>1. PICK r : r = [Graph!Quiet EXCEPT !.step = "send", !.try = gcall[c].try,
                                         !.tok = gcall[c].grant.access]
    OBVIOUS
  <2>2. gcall' = [d \in Callers |->
           IF d = c THEN r
           ELSE IF gcall[d].step = "fill" THEN [gcall[d] EXCEPT !.fd = "file"] ELSE gcall[d]]
    BY <1>3, <2>1 DEF Graph!Rename
  <2>3. IsRequest(r) /\ r.try = gcall[c].try
    BY <2>1 DEF Graph!Quiet, IsRequest
  <2>4. \A d \in Callers : SendsSound(gcall'[d], gsends[d])
    <3> SUFFICES ASSUME NEW d \in Callers PROVE SendsSound(gcall'[d], gsends[d])
      OBVIOUS
    <3>1. SendsSound(gcall[d], gsends[d])
      BY DEF GraphInv
    <3>2. CASE d = c
      <4>1. gcall'[d] = r
        BY <2>2, <3>2
      <4>. QED
        BY <1>1, <2>3, <3>1, <3>2, <4>1 DEF SendsSound
    <3>3. CASE d # c
      <4>1. PICK q : q = [gcall[d] EXCEPT !.fd = "file"]
        OBVIOUS
      <4>2. IsRequest(gcall[d])
        BY <3>1 DEF SendsSound
      <4>3. IsRequest(q) /\ q.try = gcall[d].try /\ q.step = gcall[d].step
        BY <4>1, <4>2, FileChanges
      <4>4. SendsSound(q, gsends[d])
        BY <3>1, <4>3 DEF SendsSound
      <4>5. gcall'[d] = q \/ gcall'[d] = gcall[d]
        BY <2>2, <3>3, <4>1
      <4>. QED
        BY <3>1, <4>4, <4>5
    <3>. QED
      BY <3>2, <3>3
  <2>. QED
    BY <1>1, <2>2, <2>4 DEF GraphInv
<1>. QED
  BY <1>2, <1>3

(* A request is sent: it is over, or a 401 to its first try gives it one   *)
(* more.                                                                   *)
LEMMA GraphSends == ASSUME NEW c \in Callers, GraphInv, Graph!doJSON(c) PROVE GraphInv'
<1>1. gcall[c].step = "send" /\ gsends' = [gsends EXCEPT ![c] = @ + 1]
  BY DEF Graph!doJSON, Graph!At
<1>2. CASE Graph!Ends(c, "ok")
  BY <1>1, <1>2, RequestEnds
<1>3. CASE Graph!Rejected(c)
  <2>1. SendsSound(gcall[c], gsends[c])
    BY DEF GraphInv
  <2>2. CASE gcall[c].try = 1
    <3>1. PICK r : r = [Graph!Quiet EXCEPT !.step = "bearer", !.try = 2]
      OBVIOUS
    <3>2. IsRequest(r) /\ r.try = 2
      BY <3>1 DEF Graph!Quiet, IsRequest
    <3>3. gsends[c] = 0
      BY <1>1, <2>1, <2>2 DEF SendsSound
    <3>4. PICK n : n = 1
      OBVIOUS
    <3>5. gsends' = [gsends EXCEPT ![c] = n]
      BY <1>1, <3>3, <3>4
    <3>6. SendsSound(r, n)
      BY <3>2, <3>4 DEF SendsSound
    <3>7. gcall' = [gcall EXCEPT ![c] = r]
      BY <1>3, <2>2, <3>1 DEF Graph!Rejected
    <3>. QED
      BY <3>5, <3>6, <3>7, RequestMoves
  <2>3. CASE gcall[c].try # 1
    <3>1. Graph!Ends(c, "failed")
      BY <1>3, <2>3 DEF Graph!Rejected, Graph!Ends
    <3>. QED
      BY <1>1, <3>1, RequestEnds
  <2>. QED
    BY <2>2, <2>3
<1>. QED
  BY <1>2, <1>3 DEF Graph!doJSON

(* What ends a request.                                                    *)
LEMMA GraphFails ==
  ASSUME NEW c \in Callers, GraphInv,
         Graph!TokenFails(c) \/ Graph!RefreshRefused(c) \/ Graph!SaveFails(c) \/ Graph!RequestFails(c)
  PROVE  GraphInv'
<1>1. Graph!Ends(c, "failed") /\ (gsends' = gsends \/ gsends' = [gsends EXCEPT ![c] = @ + 1])
  BY DEF Graph!TokenFails, Graph!RefreshRefused, Graph!SaveFails, Graph!RequestFails
<1>2. gcall[c].step \notin {"ok", "failed"}
  BY DEF Graph!TokenFails, Graph!RefreshRefused, Graph!SaveFails, Graph!RequestFails, Graph!At
<1>. QED
  BY <1>1, <1>2, RequestEnds

(* Every step of the Graph client keeps its counts.                        *)
LEMMA GraphKept == GraphInv /\ Graph!GraphNext => GraphInv'
<1> SUFFICES ASSUME GraphInv, Graph!GraphNext PROVE GraphInv'
  OBVIOUS
<1>1. ASSUME NEW c \in Callers, Graph!CallerStep(c) PROVE GraphInv'
  BY <1>1, GraphAcquires, GraphRenames, GraphSends, GraphFails DEF Graph!CallerStep
<1>2. CASE Graph!RestartGraph
  <2>1. PICK r : r = [Graph!Quiet EXCEPT !.step = "failed"]
    OBVIOUS
  <2>2. IsRequest(r) /\ r.step = "failed" /\ r.try = 1
    BY <2>1, QuietRequest
  <2>3. gcall' = [c \in Callers |-> r] /\ gsends' = gsends
    BY <1>2, <2>1 DEF Graph!RestartGraph
  <2>4. \A c \in Callers : SendsSound(r, gsends[c])
    BY <2>2 DEF GraphInv, SendsSound
  <2>. QED
    BY <2>3, <2>4 DEF GraphInv
<1>3. CASE (\E t \in 1..MaxTokens : Graph!Expires(t)) \/ Graph!Authorize \/ Graph!pollForToken \/ Graph!Revoke
  <2>1. UNCHANGED <<gcall, gsends>>
    BY <1>3 DEF Graph!Expires, Graph!Authorize, Graph!pollForToken, Graph!Revoke
  <2>. QED
    BY <2>1 DEF GraphInv
<1>. QED
  BY <1>1, <1>2, <1>3 DEF Graph!GraphNext

-----------------------------------------------------------------------------
(* Teams.  Messages are only added to a channel, so what was posted for a  *)
(* request stays shown, and what the server did stays done.                *)

IsSeq(s) == \E S : s \in Seq(S)

\* The server did something for the message id.
Done(id) == \E i \in DOMAIN acts : acts[i].id = id

InHand == {"comment", "snooze", "ack", "reply"}
IsCommand(p) == p = [step |-> p.step, page |-> p.page, id |-> p.id, uid |-> p.uid, ok |-> p.ok]

ChatInv ==
    /\ chat = [ch \in Chans |-> chat[ch]] /\ \A ch \in Chans : IsSeq(chat[ch])
    /\ IsSeq(acts)
    /\ \A k \in DOMAIN chat[Home] :
          chat[Home][k].by = "bot" /\ chat[Home][k].verb = "ok" => Done(chat[Home][k].re)
\* A command that has succeeded has been carried out.
PollInv ==
    polling.step \in InHand => IsCommand(polling) /\ (polling.ok = TRUE => Done(polling.id))

AlertFields == {"step", "body", "todo", "at", "replyTo", "failed", "ids", "posted"}
\* The message posted for the request r is in the channel and shows its alerts.
Shows(ch, r) ==
    /\ ch \in Chans /\ r.posted[ch] \in DOMAIN chat[ch]
    /\ chat[ch][r.posted[ch]].about = Teams!Alerts(r.body, ch)
\* Each channel of a request waits, has failed or shows its message.
Underway(r) ==
    /\ r = [x \in AlertFields |-> r[x]] /\ r.step \in {"post", "cache"}
    /\ r.todo \subseteq Chans /\ r.posted = [ch \in Chans |-> r.posted[ch]]
    /\ \A ch \in Teams!Refs(r.body) : ch \in r.todo \/ ch \in r.failed \/ Shows(ch, r)
RequestInv == alertReq = Teams!NoRequest \/ Underway(alertReq)

TeamsInv == ChatInv /\ PollInv /\ RequestInv

(* One more element leaves the others where they are.                      *)
LEMMA OneMore ==
  ASSUME NEW s, NEW m, IsSeq(s)
  PROVE  /\ IsSeq(Append(s, m)) /\ Len(s) \in Nat /\ DOMAIN s = 1..Len(s)
         /\ DOMAIN Append(s, m) = 1..(Len(s) + 1) /\ Append(s, m)[Len(s) + 1] = m
         /\ \A i \in DOMAIN s : Append(s, m)[i] = s[i]
<1>1. PICK S : s \in Seq(S)
  BY DEF IsSeq
<1>2. PICK T : T = S \cup {m}
  OBVIOUS
<1>3. s \in Seq(T) /\ m \in T
  BY <1>1, <1>2, SeqMonotonic
<1>4. Len(s) \in Nat /\ DOMAIN s = 1..Len(s)
  BY <1>3, LenProperties
<1>5. /\ Append(s, m) \in Seq(T) /\ Len(Append(s, m)) = Len(s) + 1
      /\ \A i \in 1..Len(s) : Append(s, m)[i] = s[i]
      /\ Append(s, m)[Len(s) + 1] = m
  BY <1>3, AppendProperties
<1>6. DOMAIN Append(s, m) = 1..(Len(s) + 1)
  BY <1>5, LenProperties
<1>. QED
  BY <1>4, <1>5, <1>6 DEF IsSeq

(* A message m is added to the channel c.                                  *)
Says(c, m) == chat' = [chat EXCEPT ![c] = Append(@, m)]
\* Nothing is taken away.
ChatGrows ==
    /\ \A d \in Chans : DOMAIN chat[d] \subseteq DOMAIN chat'[d]
    /\ \A d \in Chans : \A i \in DOMAIN chat[d] : chat'[d][i] = chat[d][i]
ActsGrow == acts' = acts \/ \E x : acts' = Append(acts, x)

(* A message said in a channel is added at its end.                        *)
LEMMA SayingAdds ==
  ASSUME NEW c \in Chans, NEW m, ChatInv, Says(c, m)
  PROVE  /\ ChatGrows
         /\ chat' = [d \in Chans |-> chat'[d]] /\ \A d \in Chans : IsSeq(chat'[d])
         /\ Len(chat[c]) \in Nat /\ DOMAIN chat[c] = 1..Len(chat[c])
         /\ DOMAIN chat'[c] = 1..(Len(chat[c]) + 1) /\ chat'[c][Len(chat[c]) + 1] = m
         /\ \A d \in Chans \ {c} : chat'[d] = chat[d]
<1>1. PICK s : s = chat[c]
  OBVIOUS
<1>2. IsSeq(s) /\ \A d \in Chans : IsSeq(chat[d])
  BY <1>1 DEF ChatInv
<1>3. PICK t : t = Append(s, m)
  OBVIOUS
<1>4. /\ IsSeq(t) /\ Len(s) \in Nat /\ DOMAIN s = 1..Len(s) /\ DOMAIN t = 1..(Len(s) + 1)
      /\ t[Len(s) + 1] = m /\ \A i \in DOMAIN s : t[i] = s[i]
  BY <1>2, <1>3, OneMore
<1>5. chat' = [chat EXCEPT ![c] = t] /\ chat = [d \in Chans |-> chat[d]]
  BY <1>1, <1>3 DEF Says, ChatInv
<1>6. chat' = [d \in Chans |-> chat'[d]] /\ chat'[c] = t /\ \A d \in Chans \ {c} : chat'[d] = chat[d]
  BY <1>5
<1>7. \A d \in Chans : IsSeq(chat'[d])
  BY <1>2, <1>4, <1>6
<1>8. ChatGrows
  <2> SUFFICES ASSUME NEW d \in Chans
               PROVE  DOMAIN chat[d] \subseteq DOMAIN chat'[d] /\ \A i \in DOMAIN chat[d] : chat'[d][i] = chat[d][i]
    BY DEF ChatGrows
  <2>1. CASE d = c
    BY <1>1, <1>4, <1>6, <2>1
  <2>2. CASE d # c
    BY <1>6, <2>2
  <2>. QED
    BY <2>1, <2>2
<1>. QED
  BY <1>1, <1>4, <1>6, <1>7, <1>8

(* What was done stays done.                                               *)
LEMMA DoneStays ==
  ASSUME ChatInv, ActsGrow
  PROVE  IsSeq(acts') /\ \A id : Done(id) => Done(id)'
<1>1. IsSeq(acts)
  BY DEF ChatInv
<1>2. CASE acts' = acts
  BY <1>1, <1>2 DEF Done
<1>3. ASSUME NEW x, acts' = Append(acts, x) PROVE IsSeq(acts') /\ \A id : Done(id) => Done(id)'
  <2>1. IsSeq(acts') /\ DOMAIN acts \subseteq DOMAIN acts' /\ \A i \in DOMAIN acts : acts'[i] = acts[i]
    BY <1>1, <1>3, OneMore
  <2>. QED
    BY <2>1 DEF Done
<1>. QED
  BY <1>2, <1>3 DEF ActsGrow

(* The chat after a message, which claims nothing or what was done.        *)
LEMMA ChatSays ==
  ASSUME NEW c \in Chans, NEW m, ChatInv, Says(c, m), ActsGrow,
         m.by = "bot" /\ m.verb = "ok" => Done(m.re)
  PROVE  ChatInv'
<1>1. /\ ChatGrows
      /\ chat' = [d \in Chans |-> chat'[d]] /\ \A d \in Chans : IsSeq(chat'[d])
      /\ Len(chat[c]) \in Nat /\ DOMAIN chat[c] = 1..Len(chat[c])
      /\ DOMAIN chat'[c] = 1..(Len(chat[c]) + 1) /\ chat'[c][Len(chat[c]) + 1] = m
      /\ \A d \in Chans \ {c} : chat'[d] = chat[d]
  BY SayingAdds
<1>2. IsSeq(acts') /\ \A id : Done(id) => Done(id)'
  BY DoneStays
<1>3. \A k \in DOMAIN chat'[Home] :
         chat'[Home][k].by = "bot" /\ chat'[Home][k].verb = "ok" =>
            \E i \in DOMAIN acts' : acts'[i].id = chat'[Home][k].re
  <2> SUFFICES ASSUME NEW k \in DOMAIN chat'[Home], chat'[Home][k].by = "bot", chat'[Home][k].verb = "ok"
               PROVE  \E i \in DOMAIN acts' : acts'[i].id = chat'[Home][k].re
    OBVIOUS
  <2>0. PICK x : x = chat'[Home][k]
    OBVIOUS
  <2>1. CASE k \in DOMAIN chat[Home]
    <3>1. x = chat[Home][k]
      BY <1>1, <2>0, <2>1, BridgesAssumption DEF ChatGrows
    <3>2. Done(x.re)
      BY <2>0, <2>1, <3>1 DEF ChatInv
    <3>. QED
      BY <1>2, <2>0, <3>2 DEF Done
  <2>2. CASE k \notin DOMAIN chat[Home]
    <3>1. Home = c
      BY <1>1, <2>2, BridgesAssumption
    <3>2. x = m
      BY <1>1, <2>0, <2>2, <3>1
    <3>3. Done(m.re)
      BY <2>0, <3>2
    <3>. QED
      BY <1>2, <2>0, <3>2, <3>3 DEF Done
  <2>. QED
    BY <2>1, <2>2
<1>. QED
  BY <1>1, <1>2, <1>3 DEF ChatInv, Done

(* A chat in which nothing is said, while more is done.                    *)
LEMMA ChatSame == ASSUME ChatInv, chat' = chat, ActsGrow PROVE ChatInv' /\ ChatGrows
<1>1. IsSeq(acts') /\ \A id : Done(id) => Done(id)'
  BY DoneStays
<1>2. \A k \in DOMAIN chat[Home] :
         chat[Home][k].by = "bot" /\ chat[Home][k].verb = "ok" => Done(chat[Home][k].re)'
  <2> SUFFICES ASSUME NEW k \in DOMAIN chat[Home], chat[Home][k].by = "bot", chat[Home][k].verb = "ok"
               PROVE  \E i \in DOMAIN acts' : acts'[i].id = chat[Home][k].re
    BY DEF Done
  <2>1. PICK n : n = chat[Home][k].re
    OBVIOUS
  <2>2. Done(n)
    BY <2>1 DEF ChatInv
  <2>. QED
    BY <1>1, <2>1, <2>2 DEF Done
<1>. QED
  BY <1>1, <1>2 DEF ChatInv, ChatGrows

(* A request keeps what it has while others talk.                          *)
LEMMA UnderwayStays ==
  ASSUME NEW r, Underway(r), ChatGrows
  PROVE  Underway(r)'
<1>1. \A ch : Shows(ch, r) => Shows(ch, r)'
  BY DEF Shows, ChatGrows
<1>. QED
  BY <1>1 DEF Underway

(* The request being served, while others talk.                            *)
LEMMA RequestStays == ASSUME RequestInv, ChatGrows, alertReq' = alertReq PROVE RequestInv'
<1>1. PICK r : r = alertReq
  OBVIOUS
<1>2. Underway(r) => Underway(r)'
  BY UnderwayStays
<1>. QED
  BY <1>1, <1>2 DEF RequestInv

(* The /alert side.                                                        *)
LEMMA TeamsStart == Teams!TeamsInit => TeamsInv
<1> SUFFICES ASSUME Teams!TeamsInit PROVE TeamsInv
  OBVIOUS
<1>1. PICK shown : chat = [ch \in Chans |-> IF ch = Home /\ shown # {}
                             THEN <<Teams!Message("bot", Teams!NoId, "card", shown, Teams!NoId)>> ELSE <<>>]
  BY DEF Teams!TeamsInit
<1>2. PICK m : m = Teams!Message("bot", Teams!NoId, "card", shown, Teams!NoId)
  OBVIOUS
<1>3. m.verb = "card"
  BY <1>2 DEF Teams!Message
<1>4. \A ch \in Chans : chat[ch] = <<m>> \/ chat[ch] = <<>>
  BY <1>1, <1>2
<1>5. <<m>> \in Seq({m}) /\ <<>> \in Seq({m})
  BY EmptySeq
<1>6. \A ch \in Chans : IsSeq(chat[ch])
  BY <1>4, <1>5 DEF IsSeq
<1>7. \A k \in DOMAIN chat[Home] : chat[Home][k].verb = "card"
  <2>1. \A k \in DOMAIN <<m>> : <<m>>[k] = m
    OBVIOUS
  <2>2. DOMAIN <<>> = {}
    OBVIOUS
  <2>. QED
    BY <1>3, <1>4, <2>1, <2>2, BridgesAssumption
<1>8. acts = <<>> /\ IsSeq(acts)
  <2>1. acts = <<>>
    BY DEF Teams!TeamsInit
  <2>. QED
    BY <1>5, <2>1 DEF IsSeq
<1>9. polling.step = "rest" /\ alertReq = Teams!NoRequest
  BY DEF Teams!TeamsInit, Teams!Resting
<1>10. ChatInv
  BY <1>1, <1>6, <1>7, <1>8 DEF ChatInv
<1>. QED
  BY <1>9, <1>10 DEF TeamsInv, PollInv, RequestInv, InHand

(* The step of a request under way.                                        *)
LEMMA RequestAt ==
  ASSUME RequestInv, alertReq.step \in {"post", "cache"}
  PROVE  Underway(alertReq)
<1>1. Teams!NoRequest.step = "none"
  BY DEF Teams!NoRequest
<1>. QED
  BY <1>1 DEF RequestInv

(* handleAlert: every channel the request names waits, or its name is bad. *)
LEMMA AlertBegins == TeamsInv /\ Teams!handleAlert => TeamsInv'
<1> SUFFICES ASSUME TeamsInv, Teams!handleAlert PROVE TeamsInv'
  OBVIOUS
<1>1. PICK body \in AlertRequests :
         alertReq' = [step |-> "post", body |-> body, todo |-> Teams!Refs(body) \cap Chans, at |-> Home,
                      replyTo |-> [ch \in Chans |-> Teams!ReplyTo(body, ch)],
                      failed |-> Teams!Refs(body) \ Chans,
                      ids |-> [ch \in Chans |-> Teams!NoId], posted |-> [ch \in Chans |-> Teams!NoId]]
  BY DEF Teams!handleAlert
<1>2. UNCHANGED <<chat, polling, acts>>
  BY DEF Teams!handleAlert
<1>3. PICK r : r = alertReq'
  OBVIOUS
<1>4. r = [x \in AlertFields |-> r[x]]
  BY <1>1, <1>3 DEF AlertFields
<1>5. /\ r.step = "post" /\ r.body = body /\ r.todo = Teams!Refs(body) \cap Chans
      /\ r.failed = Teams!Refs(body) \ Chans /\ r.posted = [ch \in Chans |-> Teams!NoId]
  BY <1>1, <1>3
<1>6. r.posted = [ch \in Chans |-> r.posted[ch]]
  BY <1>5
<1>7. Underway(r)'
  BY <1>4, <1>5, <1>6 DEF Underway
<1>8. ChatInv'
  BY <1>2, ChatSame DEF TeamsInv, ActsGrow
<1>9. PollInv'
  BY <1>2 DEF TeamsInv, PollInv, Done
<1>. QED
  BY <1>3, <1>7, <1>8, <1>9 DEF TeamsInv, RequestInv

(* The message of an alert is the daemon's, claims no command and shows    *)
(* the alerts of its channel.                                              *)
LEMMA AlertShows ==
  ASSUME NEW ch
  PROVE  /\ Teams!AlertMessage(ch).verb # "ok"
         /\ Teams!AlertMessage(ch).about = Teams!Alerts(alertReq.body, ch)
BY DEF Teams!AlertMessage, Teams!Message

(* A message posted for a channel shows its alerts, and is remembered.     *)
LEMMA AlertPosts == TeamsInv /\ Teams!AlertPosted => TeamsInv'
<1> SUFFICES ASSUME TeamsInv, Teams!AlertPosted PROVE TeamsInv'
  OBVIOUS
<1>1. PICK ch \in alertReq.todo :
         /\ Says(ch, Teams!AlertMessage(ch))
         /\ alertReq' = [alertReq EXCEPT !.step = "cache", !.todo = @ \ {ch}, !.at = ch,
                                         !.posted[ch] = Len(chat[ch]) + 1]
  BY DEF Teams!AlertPosted, Says
<1>2. UNCHANGED <<polling, acts>> /\ alertReq.step = "post"
  BY DEF Teams!AlertPosted
<1>3. PICK r : r = alertReq
  OBVIOUS
<1>4. Underway(r)
  BY <1>2, <1>3, RequestAt DEF TeamsInv
<1>5. ch \in Chans
  BY <1>1, <1>3, <1>4 DEF Underway
<1>6. PICK m : m = Teams!AlertMessage(ch)
  OBVIOUS
<1>7. m.verb # "ok" /\ m.about = Teams!Alerts(r.body, ch)
  BY <1>3, <1>6, AlertShows
<1>8. PICK n : n = Len(chat[ch]) + 1
  OBVIOUS
<1>9. ChatGrows /\ n \in DOMAIN chat'[ch] /\ chat'[ch][n] = m
  <2>1. Says(ch, m)
    BY <1>1, <1>6
  <2>2. /\ ChatGrows /\ Len(chat[ch]) \in Nat /\ DOMAIN chat'[ch] = 1..(Len(chat[ch]) + 1)
        /\ chat'[ch][Len(chat[ch]) + 1] = m
    BY <1>5, <2>1, SayingAdds DEF TeamsInv
  <2>. QED
    BY <1>8, <2>2
<1>10. ChatInv'
  <2>1. Says(ch, m) /\ ActsGrow
    BY <1>1, <1>2, <1>6 DEF ActsGrow
  <2>. QED
    BY <1>5, <1>7, <2>1, ChatSays DEF TeamsInv
<1>11. PICK q : q = [r EXCEPT !.step = "cache", !.todo = @ \ {ch}, !.at = ch, !.posted[ch] = n]
  OBVIOUS
<1>12. alertReq' = q
  BY <1>1, <1>3, <1>8, <1>11
<1>13. r = [x \in AlertFields |-> r[x]] /\ r.todo \subseteq Chans /\ r.posted = [d \in Chans |-> r.posted[d]]
  BY <1>4 DEF Underway
<1>14. q = [x \in AlertFields |-> q[x]]
  BY <1>11, <1>13
<1>15. /\ q.step = "cache" /\ q.todo = r.todo \ {ch} /\ q.failed = r.failed /\ q.body = r.body
       /\ q.posted = [r.posted EXCEPT ![ch] = n]
  BY <1>11, <1>13 DEF AlertFields
<1>16. q.posted = [d \in Chans |-> q.posted[d]] /\ q.posted[ch] = n
       /\ \A d \in Chans \ {ch} : q.posted[d] = r.posted[d]
  BY <1>5, <1>13, <1>15
<1>17. \A d \in Teams!Refs(q.body) : d \in q.todo \/ d \in q.failed \/ Shows(d, q)'
  <2> SUFFICES ASSUME NEW d \in Teams!Refs(r.body) PROVE d \in q.todo \/ d \in q.failed \/ Shows(d, q)'
    BY <1>15
  <2>1. d \in r.todo \/ d \in r.failed \/ Shows(d, r)
    BY <1>4 DEF Underway
  <2>2. CASE d = ch
    BY <1>5, <1>7, <1>9, <1>15, <1>16, <2>2 DEF Shows
  <2>3. CASE d # ch
    BY <1>9, <1>15, <1>16, <2>1, <2>3 DEF Shows, ChatGrows
  <2>. QED
    BY <2>2, <2>3
<1>18. Underway(q)'
  BY <1>13, <1>14, <1>15, <1>16, <1>17 DEF Underway
<1>19. PollInv'
  BY <1>2 DEF TeamsInv, PollInv, Done
<1>. QED
  BY <1>10, <1>12, <1>18, <1>19 DEF TeamsInv, RequestInv

(* A channel that failed is answered as failed.                            *)
LEMMA AlertFailing == TeamsInv /\ Teams!AlertFails => TeamsInv'
<1> SUFFICES ASSUME TeamsInv, Teams!AlertFails PROVE TeamsInv'
  OBVIOUS
<1>1. PICK ch \in alertReq.todo :
         /\ chat' = chat \/ Says(ch, Teams!AlertMessage(ch))
         /\ alertReq' = [alertReq EXCEPT !.todo = @ \ {ch}, !.failed = @ \cup {ch}]
  BY DEF Teams!AlertFails, Says
<1>2. UNCHANGED <<polling, acts>> /\ alertReq.step = "post"
  BY DEF Teams!AlertFails
<1>3. PICK r : r = alertReq
  OBVIOUS
<1>4. Underway(r)
  BY <1>2, <1>3, RequestAt DEF TeamsInv
<1>5. ch \in Chans
  BY <1>1, <1>3, <1>4 DEF Underway
<1>6. ChatInv' /\ ChatGrows
  <2>1. PICK m : m = Teams!AlertMessage(ch)
    OBVIOUS
  <2>2. m.verb # "ok" /\ ActsGrow
    BY <1>2, <2>1, AlertShows DEF ActsGrow
  <2>3. CASE chat' = chat
    BY <2>2, <2>3, ChatSame DEF TeamsInv
  <2>4. CASE Says(ch, m)
    BY <1>5, <2>2, <2>4, ChatSays, SayingAdds DEF TeamsInv
  <2>. QED
    BY <1>1, <2>1, <2>3, <2>4
<1>7. PICK q : q = [r EXCEPT !.todo = @ \ {ch}, !.failed = @ \cup {ch}]
  OBVIOUS
<1>8. alertReq' = q
  BY <1>1, <1>3, <1>7
<1>9. r = [x \in AlertFields |-> r[x]] /\ r.todo \subseteq Chans /\ r.posted = [d \in Chans |-> r.posted[d]]
      /\ r.step \in {"post", "cache"}
  BY <1>4 DEF Underway
<1>10. q = [x \in AlertFields |-> q[x]]
  BY <1>7, <1>9
<1>11. /\ q.step = r.step /\ q.todo = r.todo \ {ch} /\ q.failed = r.failed \cup {ch} /\ q.body = r.body
       /\ q.posted = r.posted
  BY <1>7, <1>9 DEF AlertFields
<1>12. \A d \in Teams!Refs(q.body) : d \in q.todo \/ d \in q.failed \/ Shows(d, q)'
  <2> SUFFICES ASSUME NEW d \in Teams!Refs(r.body) PROVE d \in q.todo \/ d \in q.failed \/ Shows(d, q)'
    BY <1>11
  <2>1. d \in r.todo \/ d \in r.failed \/ Shows(d, r)
    BY <1>4 DEF Underway
  <2>. QED
    BY <1>6, <1>11, <2>1 DEF Shows, ChatGrows
<1>13. Underway(q)'
  BY <1>9, <1>10, <1>11, <1>12 DEF Underway
<1>14. PollInv'
  BY <1>2 DEF TeamsInv, PollInv, Done
<1>. QED
  BY <1>6, <1>8, <1>13, <1>14 DEF TeamsInv, RequestInv

(* Caching touches neither the chat nor what is left to do.                *)
LEMMA AlertCached == TeamsInv /\ Teams!Cache => TeamsInv'
<1> SUFFICES ASSUME TeamsInv, Teams!Cache PROVE TeamsInv'
  OBVIOUS
<1>1. PICK ch, root : alertReq' = [alertReq EXCEPT !.step = "post", !.ids[ch] = root]
  BY DEF Teams!Cache
<1>2. UNCHANGED <<chat, polling, acts>> /\ alertReq.step = "cache"
  BY DEF Teams!Cache
<1>3. PICK r : r = alertReq
  OBVIOUS
<1>4. Underway(r)
  BY <1>2, <1>3, RequestAt DEF TeamsInv
<1>5. PICK q : q = [r EXCEPT !.step = "post", !.ids[ch] = root]
  OBVIOUS
<1>6. alertReq' = q
  BY <1>1, <1>3, <1>5
<1>7. r = [x \in AlertFields |-> r[x]]
  BY <1>4 DEF Underway
<1>8. q = [x \in AlertFields |-> q[x]]
  BY <1>5, <1>7
<1>9. q.step = "post" /\ q.todo = r.todo /\ q.failed = r.failed /\ q.body = r.body /\ q.posted = r.posted
  BY <1>5, <1>7 DEF AlertFields
<1>10. Underway(q)'
  BY <1>2, <1>4, <1>8, <1>9 DEF Underway, Shows
<1>11. ChatInv'
  BY <1>2, ChatSame DEF TeamsInv, ActsGrow
<1>12. PollInv'
  BY <1>2 DEF TeamsInv, PollInv, Done
<1>. QED
  BY <1>6, <1>10, <1>11, <1>12 DEF TeamsInv, RequestInv

(* A request that is answered, or lost in a restart, is forgotten.         *)
LEMMA AlertForgotten == TeamsInv /\ (Teams!AlertAnswered \/ Teams!RestartTeams) => TeamsInv'
<1> SUFFICES ASSUME TeamsInv, Teams!AlertAnswered \/ Teams!RestartTeams PROVE TeamsInv'
  OBVIOUS
<1>1. UNCHANGED <<chat, acts>> /\ alertReq' = Teams!NoRequest
  BY DEF Teams!AlertAnswered, Teams!RestartTeams
<1>2. polling' = polling \/ polling' = Teams!Resting
  BY DEF Teams!AlertAnswered, Teams!RestartTeams
<1>3. Teams!Resting.step \notin InHand
  BY DEF Teams!Resting, InHand
<1>4. ChatInv'
  BY <1>1, ChatSame DEF TeamsInv, ActsGrow
<1>5. PollInv'
  BY <1>1, <1>2, <1>3 DEF TeamsInv, PollInv, Done
<1>. QED
  BY <1>1, <1>4, <1>5 DEF TeamsInv, RequestInv

(* The poller.  Where a page goes on, no command is in hand.               *)
LEMMA TurnEmptyHanded == \A page, known : Teams!Turn(page, known).step \notin InHand
BY DEF Teams!Turn, Teams!Resting, InHand

(* The chat and the requests, while the poller works and says nothing.     *)
LEMMA PollerQuiet ==
  ASSUME TeamsInv, chat' = chat, alertReq' = alertReq, ActsGrow
  PROVE  ChatInv' /\ RequestInv'
BY ChatSame, RequestStays DEF TeamsInv

(* Without a command in hand there is nothing to answer for.               *)
LEMMA PollNothing == ASSUME polling'.step \notin InHand PROVE PollInv'
BY DEF PollInv

(* The command in hand after a step that leaves its message, with an act   *)
(* recorded where it has succeeded.                                        *)
LEMMA PollGoesOn ==
  ASSUME NEW s \in InHand, TeamsInv, polling.step \in InHand, ActsGrow,
         \/ polling' = [polling EXCEPT !.step = s]
         \/ polling' = [polling EXCEPT !.step = s, !.ok = TRUE] /\ Done(polling.id)'
  PROVE  PollInv'
<1>1. IsCommand(polling) /\ (polling.ok = TRUE => Done(polling.id))
  BY DEF TeamsInv, PollInv
<1>2. PICK p : p = polling
  OBVIOUS
<1>3. PICK a, b, c, d, e : p = [step |-> a, page |-> b, id |-> c, uid |-> d, ok |-> e]
  BY <1>1, <1>2 DEF IsCommand
<1>4. p.id = c /\ p.ok = e
  BY <1>3
<1>5. IsSeq(acts') /\ \A n : Done(n) => Done(n)'
  BY DoneStays DEF TeamsInv
<1>6. CASE polling' = [polling EXCEPT !.step = s]
  <2>1. PICK q : q = [p EXCEPT !.step = s]
    OBVIOUS
  <2>2. q = [step |-> s, page |-> b, id |-> c, uid |-> d, ok |-> e]
    BY <1>3, <2>1
  <2>3. IsCommand(q) /\ q.ok = e /\ q.id = c
    BY <2>2 DEF IsCommand
  <2>4. polling' = q
    BY <1>2, <1>6, <2>1
  <2>5. e = TRUE => Done(c)'
    BY <1>1, <1>2, <1>4, <1>5
  <2>. QED
    BY <2>3, <2>4, <2>5 DEF PollInv
<1>7. CASE polling' = [polling EXCEPT !.step = s, !.ok = TRUE] /\ Done(polling.id)'
  <2>1. PICK q : q = [p EXCEPT !.step = s, !.ok = TRUE]
    OBVIOUS
  <2>2. PICK q1 : q1 = [p EXCEPT !.step = s]
    OBVIOUS
  <2>3. q1 = [step |-> s, page |-> b, id |-> c, uid |-> d, ok |-> e]
    BY <1>3, <2>2
  <2>4. q = [q1 EXCEPT !.ok = TRUE]
    BY <2>1, <2>2
  <2>5. q = [step |-> s, page |-> b, id |-> c, uid |-> d, ok |-> TRUE]
    BY <2>3, <2>4
  <2>6. IsCommand(q) /\ q.id = c
    BY <2>5 DEF IsCommand
  <2>7. polling' = q
    BY <1>2, <1>7, <2>1
  <2>8. polling'.id = c /\ IsCommand(polling')
    BY <2>6, <2>7
  <2>9. Done(polling.id)'
    BY <1>7
  <2>. QED
    BY <2>8, <2>9 DEF PollInv
<1>. QED
  BY <1>6, <1>7

(* What the server did for the command in hand is recorded.                *)
LEMMA ActDone ==
  ASSUME NEW kind, ChatInv, acts' = Teams!Act(kind)
  PROVE  ActsGrow /\ \E i \in DOMAIN acts' : acts'[i].id = polling.id
<1>1. PICK x : x = [id |-> polling.id, uid |-> polling.uid, kind |-> kind]
  OBVIOUS
<1>2. acts' = Append(acts, x) /\ x.id = polling.id
  BY <1>1 DEF Teams!Act
<1>3. IsSeq(acts)
  BY DEF ChatInv
<1>4. Len(acts) \in Nat /\ DOMAIN acts' = 1..(Len(acts) + 1) /\ acts'[Len(acts) + 1] = x
  BY <1>2, <1>3, OneMore
<1>. QED
  BY <1>2, <1>4 DEF ActsGrow

(* A poll begins, fails, or takes the next message: nothing has been done  *)
(* for a command just taken.                                               *)
LEMMA PollTakes == TeamsInv /\ (Teams!pollOnce \/ Teams!FetchFails \/ Teams!Take) => TeamsInv'
<1> SUFFICES ASSUME TeamsInv, Teams!pollOnce \/ Teams!FetchFails \/ Teams!Take PROVE TeamsInv'
  OBVIOUS
<1>1. UNCHANGED <<chat, acts, alertReq>>
  BY DEF Teams!pollOnce, Teams!FetchFails, Teams!Take
<1>2. ChatInv' /\ RequestInv'
  BY <1>1, PollerQuiet DEF ActsGrow
<1>3. CASE Teams!pollOnce
  BY <1>2, <1>3, TurnEmptyHanded, PollNothing DEF Teams!pollOnce, TeamsInv
<1>4. CASE Teams!FetchFails
  BY <1>1, <1>2, <1>4 DEF Teams!FetchFails, TeamsInv, PollInv, Done
<1>5. CASE Teams!Take
  <2>1. \/ \E page, known : polling' = Teams!Turn(page, known)
        \/ Teams!Handle(Head(polling.page))
    BY <1>5 DEF Teams!Take
  <2>2. CASE \E page, known : polling' = Teams!Turn(page, known)
    BY <1>2, <2>2, TurnEmptyHanded, PollNothing DEF TeamsInv
  <2>3. CASE Teams!Handle(Head(polling.page))
    <3>1. PICK s, page, id, uid : polling' = [step |-> s, page |-> page, id |-> id, uid |-> uid, ok |-> FALSE]
      BY <2>3 DEF Teams!Handle
    <3>2. PICK q : q = polling'
      OBVIOUS
    <3>3. IsCommand(q) /\ q.ok = FALSE
      BY <3>1, <3>2 DEF IsCommand
    <3>. QED
      BY <1>2, <3>2, <3>3 DEF TeamsInv, PollInv
  <2>. QED
    BY <2>1, <2>2, <2>3
<1>. QED
  BY <1>3, <1>4, <1>5

(* A command is carried out: its success is kept only with its act.        *)
LEMMA PollActs ==
  TeamsInv /\ (Teams!Comment \/ Teams!handleSnooze \/ Teams!BestEffortAck) => TeamsInv'
<1> SUFFICES ASSUME TeamsInv, Teams!Comment \/ Teams!handleSnooze \/ Teams!BestEffortAck PROVE TeamsInv'
  OBVIOUS
<1>1. UNCHANGED <<chat, alertReq>> /\ polling.step \in InHand
  BY DEF Teams!Comment, Teams!handleSnooze, Teams!BestEffortAck, InHand
<1>2. PICK kind, s :
         /\ s \in {"ack", "reply"}
         /\ \/ acts' = Teams!Act(kind) /\ polling' = [polling EXCEPT !.step = s, !.ok = TRUE]
            \/ acts' \in {acts, Teams!Act(kind)} /\ polling' = [polling EXCEPT !.step = s]
  BY DEF Teams!Comment, Teams!handleSnooze, Teams!BestEffortAck
<1>3. ActsGrow
  BY <1>2, ActDone DEF TeamsInv, ActsGrow
<1>4. s \in InHand
  BY <1>2 DEF InHand
<1>5. polling' = [polling EXCEPT !.step = s, !.ok = TRUE] /\ acts' = Teams!Act(kind) => Done(polling.id)'
  <2> SUFFICES ASSUME polling' = [polling EXCEPT !.step = s, !.ok = TRUE], acts' = Teams!Act(kind)
               PROVE  Done(polling.id)'
    OBVIOUS
  <2>1. \E i \in DOMAIN acts' : acts'[i].id = polling.id
    BY ActDone DEF TeamsInv
  <2>2. polling'.id = polling.id
    <3>1. PICK p : p = polling
      OBVIOUS
    <3>2. PICK a, b, c, d, e : p = [step |-> a, page |-> b, id |-> c, uid |-> d, ok |-> e]
      BY <1>1, <3>1 DEF TeamsInv, PollInv, IsCommand
    <3>3. PICK q : q = [p EXCEPT !.step = s, !.ok = TRUE]
      OBVIOUS
    <3>4. q.id = p.id
      BY <3>2, <3>3
    <3>. QED
      BY <3>1, <3>3, <3>4
  <2>. QED
    BY <2>1, <2>2 DEF Done
<1>6. PollInv'
  BY <1>1, <1>2, <1>3, <1>4, <1>5, PollGoesOn
<1>7. ChatInv' /\ RequestInv'
  BY <1>1, <1>3, PollerQuiet
<1>. QED
  BY <1>6, <1>7 DEF TeamsInv

(* The thread is told "ok" about a command that has succeeded.             *)
LEMMA PollReplies == TeamsInv /\ Teams!Reply => TeamsInv'
<1> SUFFICES ASSUME TeamsInv, Teams!Reply PROVE TeamsInv'
  OBVIOUS
<1>1. PICK m : m = Teams!Message("bot", Teams!ThreadId(polling.id), Teams!replyOnce(polling.ok), {}, polling.id)
  OBVIOUS
<1>2. chat' = chat \/ Says(Home, m)
  BY <1>1 DEF Teams!Reply, Says
<1>3. UNCHANGED <<alertReq, acts>> /\ polling.step = "reply" /\ ActsGrow
  BY DEF Teams!Reply, ActsGrow
<1>4. PollInv'
  BY TurnEmptyHanded, PollNothing DEF Teams!Reply
<1>5. m.re = polling.id /\ m.verb = Teams!replyOnce(polling.ok)
  BY <1>1 DEF Teams!Message
<1>6. m.verb = "ok" => polling.ok = TRUE
  BY <1>5 DEF Teams!replyOnce
<1>7. m.verb = "ok" => Done(m.re)
  BY <1>3, <1>5, <1>6 DEF TeamsInv, PollInv, InHand
<1>8. CASE chat' = chat
  BY <1>3, <1>4, <1>8, PollerQuiet DEF TeamsInv
<1>9. CASE Says(Home, m)
  <2>1. ChatInv' /\ ChatGrows
    BY <1>3, <1>7, <1>9, ChatSays, SayingAdds, BridgesAssumption DEF TeamsInv
  <2>. QED
    BY <1>3, <1>4, <2>1, RequestStays DEF TeamsInv
<1>. QED
  BY <1>2, <1>8, <1>9

(* People claim nothing in the daemon's name.                              *)
LEMMA PeopleSay == ASSUME NEW verb, NEW root, TeamsInv, Teams!Say(verb, root) PROVE TeamsInv'
<1>1. PICK m : m = Teams!Message("person", root, verb, {}, Teams!NoId)
  OBVIOUS
<1>2. Says(Home, m) /\ UNCHANGED <<alertReq, acts, polling>> /\ ActsGrow
  BY <1>1 DEF Teams!Say, Says, ActsGrow
<1>3. m.by # "bot"
  BY <1>1 DEF Teams!Message
<1>4. ChatInv' /\ ChatGrows
  BY <1>2, <1>3, ChatSays, SayingAdds, BridgesAssumption DEF TeamsInv
<1>5. PollInv'
  BY <1>2 DEF TeamsInv, PollInv, Done
<1>. QED
  BY <1>2, <1>4, <1>5, RequestStays DEF TeamsInv

(* Every step of the Teams bridge keeps its invariant.                     *)
LEMMA TeamsKept == TeamsInv /\ Teams!TeamsNext => TeamsInv'
BY AlertBegins, AlertPosts, AlertFailing, AlertCached, AlertForgotten, PollTakes, PollActs,
   PollReplies, PeopleSay DEF Teams!TeamsNext, Teams!PollStep

-----------------------------------------------------------------------------
(* The event watcher.  Everything before the tracked version and before    *)
(* the stream's place has its fate, and a key is remembered with the       *)
(* attempt that let it through.                                            *)

\* The version u is told apart as a recurrence of an attempt.
Recurred(u, f, l, tried) ==
    f[u].how = "suppressed" =>
        \E a \in tried : a[1] = l[u].key /\ f[u].at - a[2] \in 0..(DedupWindow - 1)

KubeInv ==
    /\ IsSeq(log) /\ rv \in 0..Len(log) /\ floor \in 0..Len(log) /\ stream \in 0..(Len(log) + 1)
    /\ ktime \in Nat /\ DOMAIN fate \subseteq DOMAIN log
    /\ \A v \in 1..rv : v \in DOMAIN fate
    /\ \A v \in 1..(stream - 1) : v \in DOMAIN fate
    /\ \A k \in DOMAIN dedup : <<k, dedup[k]>> \in attempts /\ dedup[k] \in 0..ktime
    /\ \A v \in DOMAIN fate : Recurred(v, fate, log, attempts)

(* What KubeInv says of the log.                                           *)
LEMMA KubeLog == KubeInv => Len(log) \in Nat /\ DOMAIN log = 1..Len(log)
BY OneMore DEF KubeInv

(* The watch begins with nothing behind it.                                *)
LEMMA KubeStart == Kube!KubeInit => KubeInv
<1> SUFFICES ASSUME Kube!KubeInit PROVE KubeInv
  OBVIOUS
<1>1. <<>> \in Seq({}) /\ Len(<<>>) = 0 /\ DOMAIN <<>> = {}
  BY EmptySeq
<1>2. log = <<>> /\ fate = <<>> /\ dedup = <<>> /\ rv = 0 /\ floor = 0 /\ stream = 0 /\ ktime = 0
  BY DEF Kube!KubeInit, Kube!Closed
<1>3. IsSeq(log)
  BY <1>1, <1>2 DEF IsSeq
<1>. QED
  BY <1>1, <1>2, <1>3 DEF KubeInv

(* A version more in the log.                                              *)
LEMMA KubeRecorded == KubeInv /\ Kube!Recorded => KubeInv'
<1> SUFFICES ASSUME KubeInv, Kube!Recorded PROVE KubeInv'
  OBVIOUS
<1>1. PICK e : log' = Append(log, e)
  BY DEF Kube!Recorded
<1>2. UNCHANGED <<floor, rv, stream, dedup, ktime, fate, attempts>>
  BY DEF Kube!Recorded
<1>3. /\ IsSeq(log') /\ Len(log) \in Nat /\ DOMAIN log = 1..Len(log) /\ DOMAIN log' = 1..(Len(log) + 1)
      /\ \A i \in DOMAIN log : log'[i] = log[i]
  BY <1>1, OneMore DEF KubeInv
<1>4. Len(log') = Len(log) + 1
  <2>1. Len(log') \in Nat /\ DOMAIN log' = 1..Len(log')
    BY <1>3, OneMore
  <2>. QED
    BY <1>3, <2>1
<1>5. \A v \in DOMAIN fate : v \in DOMAIN log /\ Recurred(v, fate, log, attempts)
  BY DEF KubeInv
<1>6. \A v \in DOMAIN fate : Recurred(v, fate, log', attempts)
  BY <1>3, <1>5 DEF Recurred
<1>. QED
  BY <1>2, <1>3, <1>4, <1>6 DEF KubeInv

(* Steps that leave the log and the fates alone.                           *)
LEMMA KubeMoves ==
  ASSUME KubeInv, Kube!Compact \/ Kube!KubeTick \/ Kube!Gone \/ Kube!StreamEnds \/ Kube!WatchFails
  PROVE  KubeInv'
<1>1. Len(log) \in Nat
  BY KubeLog
<1>2. UNCHANGED <<log, dedup, fate, attempts>>
  BY DEF Kube!Compact, Kube!KubeTick, Kube!Gone, Kube!StreamEnds, Kube!WatchFails
<1>3. /\ rv' \in {rv, 0} /\ stream' \in {stream, 0} /\ ktime' \in {ktime, ktime + 1}
      /\ floor' = floor \/ floor' \in (floor + 1)..Len(log)
  BY DEF Kube!Compact, Kube!KubeTick, Kube!Gone, Kube!StreamEnds, Kube!WatchFails, Kube!Closed
<1>4. floor \in 0..Len(log) /\ ktime \in Nat /\ rv \in 0..Len(log) /\ stream \in 0..(Len(log) + 1)
  BY DEF KubeInv
<1>5. floor' \in 0..Len(log) /\ ktime' \in Nat /\ ktime <= ktime' /\ rv' \in 0..Len(log) /\ stream' \in 0..(Len(log) + 1)
  BY <1>1, <1>3, <1>4
<1>6. \A v \in 1..rv' : v \in DOMAIN fate
  BY <1>3 DEF KubeInv
<1>7. \A v \in 1..(stream' - 1) : v \in DOMAIN fate
  <2>1. \A v \in 1..(stream - 1) : v \in DOMAIN fate
    BY DEF KubeInv
  <2>2. CASE stream' = 0
    BY <2>2
  <2>3. CASE stream' = stream
    BY <2>1, <2>3
  <2>. QED
    BY <1>3, <2>2, <2>3
<1>8. \A k \in DOMAIN dedup : <<k, dedup[k]>> \in attempts /\ dedup[k] \in 0..ktime'
  BY <1>4, <1>5 DEF KubeInv
<1>9. IsSeq(log) /\ DOMAIN fate \subseteq DOMAIN log /\ \A v \in DOMAIN fate : Recurred(v, fate, log, attempts)
  BY DEF KubeInv
<1>. QED
  BY <1>2, <1>5, <1>6, <1>7, <1>8, <1>9 DEF KubeInv

(* Versions the cluster has compacted away get their fate.                 *)
LEMMA KubeOpens == KubeInv /\ (Kube!Open \/ Kube!Bookmark) => KubeInv'
<1> SUFFICES ASSUME KubeInv, Kube!Open \/ Kube!Bookmark PROVE KubeInv'
  OBVIOUS
<1>1. Len(log) \in Nat /\ DOMAIN log = 1..Len(log)
  BY KubeLog
<1>2. floor \in 0..Len(log) /\ rv \in 0..Len(log) /\ stream \in 0..(Len(log) + 1)
  BY DEF KubeInv
<1>3. PICK f : f = Kube!Fate("compacted")
  OBVIOUS
<1>4. f.how # "suppressed"
  BY <1>3 DEF Kube!Fate
<1>5. UNCHANGED <<log, floor, dedup, ktime, attempts>>
  BY DEF Kube!Open, Kube!Bookmark
<1>6. \E T \in SUBSET (1..Len(log)) :
         /\ fate' = [v \in DOMAIN fate \cup T |-> IF v \in DOMAIN fate THEN fate[v] ELSE f]
         /\ \A v \in 1..rv' : v \in DOMAIN fate \cup T
         /\ \A v \in 1..(stream' - 1) : v \in DOMAIN fate \cup T
         /\ rv' \in 0..Len(log) /\ stream' \in 0..(Len(log) + 1)
  <2>1. CASE Kube!Open
    <3> DEFINE T == IF rv = 0 THEN 1..floor ELSE {}
    <3>1. T \in SUBSET (1..Len(log))
      BY <1>1, <1>2
    <3>2. /\ fate' = [v \in DOMAIN fate \cup T |-> IF v \in DOMAIN fate THEN fate[v] ELSE f]
          /\ rv' = rv /\ stream' = IF rv = 0 THEN floor + 1 ELSE rv + 1
      BY <1>3, <2>1 DEF Kube!Open, Kube!Resume
    <3>3. \A v \in 1..rv : v \in DOMAIN fate
      BY DEF KubeInv
    <3>4. \A v \in 1..(stream' - 1) : v \in DOMAIN fate \cup T
      <4>1. CASE rv = 0
        BY <1>2, <3>2, <4>1
      <4>2. CASE rv # 0
        BY <1>2, <3>2, <3>3, <4>2
      <4>. QED
        BY <4>1, <4>2
    <3>5. rv' \in 0..Len(log) /\ stream' \in 0..(Len(log) + 1)
      BY <1>1, <1>2, <3>2
    <3> HIDE DEF T
    <3>. QED
      BY <3>1, <3>2, <3>3, <3>4, <3>5
  <2>2. CASE Kube!Bookmark
    <3> DEFINE T == 1..(stream - 1)
    <3>1. T \in SUBSET (1..Len(log))
      BY <1>1, <1>2
    <3>2. /\ fate' = [v \in DOMAIN fate \cup T |-> IF v \in DOMAIN fate THEN fate[v] ELSE f]
          /\ rv' = stream - 1 /\ stream' = stream /\ stream > 1
      BY <1>3, <2>2 DEF Kube!Bookmark
    <3>3. \A v \in 1..rv' : v \in T
      BY <3>2
    <3>4. \A v \in 1..(stream' - 1) : v \in T
      BY <3>2
    <3>5. rv' \in 0..Len(log) /\ stream' \in 0..(Len(log) + 1)
      BY <1>1, <1>2, <3>2
    <3> HIDE DEF T
    <3>. QED
      BY <3>1, <3>2, <3>3, <3>4, <3>5
  <2>. QED
    BY <2>1, <2>2
<1>7. PICK T \in SUBSET (1..Len(log)) :
         /\ fate' = [v \in DOMAIN fate \cup T |-> IF v \in DOMAIN fate THEN fate[v] ELSE f]
         /\ \A v \in 1..rv' : v \in DOMAIN fate \cup T
         /\ \A v \in 1..(stream' - 1) : v \in DOMAIN fate \cup T
         /\ rv' \in 0..Len(log) /\ stream' \in 0..(Len(log) + 1)
  BY <1>6
<1>8. DOMAIN fate' = DOMAIN fate \cup T /\ DOMAIN fate' \subseteq DOMAIN log
  BY <1>1, <1>7 DEF KubeInv
<1>9. \A v \in DOMAIN fate' : Recurred(v, fate', log, attempts)
  <2> SUFFICES ASSUME NEW v \in DOMAIN fate' PROVE Recurred(v, fate', log, attempts)
    OBVIOUS
  <2>1. CASE v \in DOMAIN fate
    <3>1. Recurred(v, fate, log, attempts)
      BY <2>1 DEF KubeInv
    <3>2. fate'[v] = fate[v]
      BY <1>7, <2>1
    <3>. QED
      BY <3>1, <3>2 DEF Recurred
  <2>2. CASE v \notin DOMAIN fate
    <3>1. fate'[v] = f
      BY <1>7, <1>8, <2>2
    <3>. QED
      BY <1>4, <3>1 DEF Recurred
  <2>. QED
    BY <2>1, <2>2
<1>10. IsSeq(log) /\ floor \in 0..Len(log) /\ ktime \in Nat
       /\ \A k \in DOMAIN dedup : <<k, dedup[k]>> \in attempts /\ dedup[k] \in 0..ktime
  BY DEF KubeInv
<1>. QED
  BY <1>5, <1>7, <1>8, <1>9, <1>10 DEF KubeInv

(* A version gets its fate; that of a recurrence names an attempt.         *)
LEMMA KubeFated ==
  ASSUME KubeInv, NEW how, NEW n, n = stream, fate' = Kube!Fated(n, how), attempts \subseteq attempts',
         how = "suppressed" =>
            \E a \in attempts' : a[1] = log[n].key /\ ktime - a[2] \in 0..(DedupWindow - 1)
  PROVE  /\ DOMAIN fate' = DOMAIN fate \cup {n}
         /\ \A v \in DOMAIN fate' : Recurred(v, fate', log, attempts')
<1>1. PICK f : f = Kube!Fate(how)
  OBVIOUS
<1>2. f.how = how /\ f.at = ktime
  BY <1>1 DEF Kube!Fate
<1>3. fate' = [u \in DOMAIN fate \cup {n} |-> IF u = n THEN f ELSE fate[u]]
  BY <1>1 DEF Kube!Fated
<1>4. \A v \in DOMAIN fate' : Recurred(v, fate', log, attempts')
  <2> SUFFICES ASSUME NEW v \in DOMAIN fate' PROVE Recurred(v, fate', log, attempts')
    OBVIOUS
  <2>1. CASE v = n
    BY <1>2, <1>3, <2>1 DEF Recurred
  <2>2. CASE v # n
    <3>1. v \in DOMAIN fate /\ fate'[v] = fate[v]
      BY <1>3, <2>2
    <3>2. Recurred(v, fate, log, attempts)
      BY <3>1 DEF KubeInv
    <3>. QED
      BY <3>1, <3>2 DEF Recurred
  <2>. QED
    BY <2>1, <2>2
<1>. QED
  BY <1>3, <1>4

(* The stream goes on past a version that has its fate.                    *)
LEMMA KubePasses ==
  ASSUME KubeInv, stream \in 1..Len(log), UNCHANGED <<log, floor, ktime>>, stream' = stream + 1,
         rv' \in {rv, stream}, DOMAIN fate' = DOMAIN fate \cup {stream},
         \A v \in DOMAIN fate' : Recurred(v, fate', log, attempts'),
         \A k \in DOMAIN dedup' : <<k, dedup'[k]>> \in attempts' /\ dedup'[k] \in 0..ktime
  PROVE  KubeInv'
<1>1. Len(log) \in Nat /\ DOMAIN log = 1..Len(log)
  BY KubeLog
<1>2. IsSeq(log) /\ floor \in 0..Len(log) /\ ktime \in Nat /\ rv \in 0..Len(log) /\ DOMAIN fate \subseteq DOMAIN log
  BY DEF KubeInv
<1>3. \A v \in 1..rv : v \in DOMAIN fate
  BY DEF KubeInv
<1>4. \A v \in 1..(stream - 1) : v \in DOMAIN fate
  BY DEF KubeInv
<1>5. \A v \in 1..stream : v \in DOMAIN fate'
  <2> SUFFICES ASSUME NEW v \in 1..stream PROVE v \in DOMAIN fate'
    OBVIOUS
  <2>1. v = stream \/ v \in 1..(stream - 1)
    BY <1>1
  <2>. QED
    BY <1>4, <2>1
<1>6. \A v \in 1..rv' : v \in DOMAIN fate'
  BY <1>3, <1>5
<1>7. stream' - 1 = stream /\ stream' \in 0..(Len(log) + 1) /\ rv' \in 0..Len(log)
  BY <1>1, <1>2
<1>8. \A v \in 1..(stream' - 1) : v \in DOMAIN fate'
  BY <1>5, <1>7
<1>9. DOMAIN fate' \subseteq DOMAIN log
  BY <1>1, <1>2
<1>. QED
  BY <1>2, <1>6, <1>7, <1>8, <1>9 DEF KubeInv

(* An event off the stream, whatever becomes of it.                        *)
LEMMA KubeConsumes == KubeInv /\ Kube!Consume => KubeInv'
<1> SUFFICES ASSUME KubeInv, Kube!Consume PROVE KubeInv'
  OBVIOUS
<1>1. Len(log) \in Nat /\ stream \in 1..Len(log)
  <2>1. stream # 0 /\ stream <= Len(log)
    BY DEF Kube!Consume, Kube!Closed
  <2>. QED
    BY <2>1, KubeLog DEF KubeInv
<1>2. PICK n : n = stream
  OBVIOUS
<1>3. PICK key : key = log[n].key
  OBVIOUS
<1>4. /\ UNCHANGED <<log, floor, ktime>> /\ stream' = stream + 1 /\ rv' = stream
  BY DEF Kube!Consume
<1>5. \/ dedup' = dedup /\ attempts' = attempts /\ fate' = Kube!Fated(n, "filtered")
      \/ /\ dedup' = dedup /\ attempts' = attempts /\ fate' = Kube!Fated(n, "suppressed")
         /\ Kube!suppressed(key)
      \/ /\ dedup' = Kube!Mark(key) /\ attempts' = attempts \cup {<<key, ktime>>}
         /\ \E how \in {"emitted", "failed"} : fate' = Kube!Fated(n, how)
  BY <1>2, <1>3 DEF Kube!Consume, Kube!Remember, Kube!Emit
<1>6. ktime \in Nat /\ \A k \in DOMAIN dedup : <<k, dedup[k]>> \in attempts /\ dedup[k] \in 0..ktime
  BY DEF KubeInv
<1>7. \A k \in DOMAIN dedup' : <<k, dedup'[k]>> \in attempts' /\ dedup'[k] \in 0..ktime
  <2>1. CASE dedup' = dedup /\ attempts' = attempts
    BY <1>6, <2>1
  <2>2. CASE dedup' = Kube!Mark(key) /\ attempts' = attempts \cup {<<key, ktime>>}
    <3>1. CASE DedupWindow = 0
      BY <1>6, <2>2, <3>1 DEF Kube!Mark
    <3>2. CASE DedupWindow # 0
      <4>1. dedup' = [k \in DOMAIN dedup \cup {key} |-> IF k = key THEN ktime ELSE dedup[k]]
        BY <2>2, <3>2 DEF Kube!Mark
      <4>. QED
        BY <1>6, <2>2, <4>1
    <3>. QED
      BY <3>1, <3>2
  <2>. QED
    BY <1>5, <2>1, <2>2
<1>8. PICK how : /\ fate' = Kube!Fated(n, how) /\ attempts \subseteq attempts'
                 /\ how = "suppressed" => Kube!suppressed(key) /\ attempts' = attempts
  BY <1>5
<1>9. how = "suppressed" =>
         \E a \in attempts' : a[1] = log[n].key /\ ktime - a[2] \in 0..(DedupWindow - 1)
  <2> SUFFICES ASSUME how = "suppressed"
               PROVE  \E a \in attempts : a[1] = key /\ ktime - a[2] \in 0..(DedupWindow - 1)
    BY <1>3, <1>8
  <2>1. key \in DOMAIN dedup /\ ktime - dedup[key] < DedupWindow
    BY <1>8 DEF Kube!suppressed
  <2>2. PICK t : t = dedup[key]
    OBVIOUS
  <2>3. <<key, t>> \in attempts /\ t \in 0..ktime
    BY <1>6, <2>1, <2>2
  <2>4. ktime - t \in 0..(DedupWindow - 1)
    BY <1>6, <2>1, <2>2, <2>3, SourcesAssumption
  <2>. QED
    BY <2>3, <2>4
<1>10. /\ DOMAIN fate' = DOMAIN fate \cup {n}
       /\ \A v \in DOMAIN fate' : Recurred(v, fate', log, attempts')
  BY <1>2, <1>8, <1>9, KubeFated
<1>. QED
  BY <1>1, <1>2, <1>4, <1>7, <1>10, KubePasses

(* An object that cannot be decoded is passed over.                        *)
LEMMA KubeUndecoded == KubeInv /\ Kube!Undecodable => KubeInv'
<1> SUFFICES ASSUME KubeInv, Kube!Undecodable PROVE KubeInv'
  OBVIOUS
<1>1. Len(log) \in Nat /\ stream \in 1..Len(log)
  <2>1. stream # 0 /\ stream <= Len(log)
    BY DEF Kube!Undecodable, Kube!Closed
  <2>. QED
    BY <2>1, KubeLog DEF KubeInv
<1>2. PICK n : n = stream
  OBVIOUS
<1>3. /\ UNCHANGED <<log, floor, ktime, rv, dedup, attempts>> /\ stream' = stream + 1
      /\ fate' = Kube!Fated(n, "undecodable")
  BY <1>2 DEF Kube!Undecodable
<1>4. /\ DOMAIN fate' = DOMAIN fate \cup {n}
      /\ \A v \in DOMAIN fate' : Recurred(v, fate', log, attempts')
  BY <1>2, <1>3, KubeFated
<1>5. \A k \in DOMAIN dedup' : <<k, dedup'[k]>> \in attempts' /\ dedup'[k] \in 0..ktime
  BY <1>3 DEF KubeInv
<1>. QED
  BY <1>1, <1>2, <1>3, <1>4, <1>5, KubePasses

(* Every step of the watcher keeps its invariant.                          *)
LEMMA KubeKept == KubeInv /\ Kube!KubeNext => KubeInv'
BY KubeRecorded, KubeMoves, KubeOpens, KubeConsumes, KubeUndecoded DEF Kube!KubeNext

(* Nothing is skipped, and what is left out recurred.                      *)
LEMMA KubeFollows == KubeInv => NothingSkipped /\ SuppressedInWindow
BY DEF KubeInv, Recurred, NothingSkipped, SuppressedInWindow, Kube!NothingSkipped, Kube!SuppressedInWindow

-----------------------------------------------------------------------------
(* The change feeds.  A subscriber that is listening has its channel open, *)
(* a commit is on the wire, in the channel, heard, or given up for a       *)
(* reason, and what is in the channel is what its subscription asked for.  *)

\* Commit id is somewhere: on the wire w, in the channel q, heard, given up,
\* or left out as a hit.
Somewhere(id, w, q, hd, given, left, cs) ==
    \/ \E i \in DOMAIN w : w[i] = id
    \/ \E i \in DOMAIN q : q[i].id = id
    \/ \E i \in DOMAIN hd : hd[i].id = id
    \/ id \in given
    \/ id \in left /\ cs[id].kind = "hits"

\* The subscription s asks for the topic of tenant t.
Asks(s, t) == s = "all" \/ s = t \/ <<s, t>> \in SlugPrefix

\* The event e tells the tenant of its commit, and the subscription s asks for it.
Routed(e, cs, s) ==
    /\ e.id \in DOMAIN cs
    /\ e.tenant = cs[e.id].tenant \/ (e.tenant = Feed!Bare /\ (cs[e.id].bare \/ cs[e.id].kind = "delete"))
    /\ s # "left" => Asks(s, e.tenant)

\* What a commit is told with.
Told(c) == IF c.bare \/ c.kind = "delete" THEN Feed!Bare ELSE c.tenant

\* The commits given up for a sound reason under the subscription s.
Sound(c, why, s) ==
    \/ why \in {"link", "full", "nobody"}
    \/ why = "silent" /\ c.kind = "cleanup"
    \/ why = "unmatched" /\ s \notin {"none", "all"} /\ (s = "left" \/ ~Asks(s, Told(c)))
Whys == {"link", "full", "nobody", "silent", "unmatched"}
Excused(given, cs, s) ==
    {id \in DOMAIN cs : \E why \in Whys : <<id, why>> \in given /\ Sound(cs[id], why, s)}

FeedInv ==
    /\ IsSeq(wireq) /\ IsSeq(chanq) /\ IsSeq(heard) /\ IsSeq(commits)
    /\ ~panicked /\ (Feed!Listening => chanOpen)
    /\ \A i \in DOMAIN wireq : wireq[i] \in DOMAIN commits
    /\ \A id \in DOMAIN commits : Somewhere(id, wireq, chanq, heard, Excused(unheard, commits, sub), skips, commits)
    /\ \A i \in DOMAIN chanq : Routed(chanq[i], commits, sub)
    /\ \A i \in DOMAIN heard : Routed(heard[i], commits, sub)
    /\ sub = "none" => DOMAIN chanq = {} /\ DOMAIN heard = {}

(* A sequence and its tail: the elements of the one are the head and those *)
(* of the other.                                                           *)
LEMMA HeadOff ==
  ASSUME NEW s, IsSeq(s), s # <<>>
  PROVE  /\ IsSeq(Tail(s)) /\ Head(s) = s[1] /\ 1 \in DOMAIN s
         /\ \A i \in DOMAIN Tail(s) : i + 1 \in DOMAIN s /\ Tail(s)[i] = s[i + 1]
         /\ \A i \in DOMAIN s : s[i] = Head(s) \/ \E j \in DOMAIN Tail(s) : Tail(s)[j] = s[i]
         /\ DOMAIN s = 1..Len(s) /\ DOMAIN Tail(s) = 1..(Len(s) - 1) /\ Len(s) \in Nat /\ Len(s) > 0
<1>1. PICK S : s \in Seq(S)
  BY DEF IsSeq
<1>2. Len(s) \in Nat /\ DOMAIN s = 1..Len(s) /\ Len(s) # 0
  BY <1>1, LenProperties, EmptySeq
<1>3. /\ Head(s) \in S /\ Tail(s) \in Seq(S) /\ Len(Tail(s)) = Len(s) - 1
      /\ \A i \in 1..Len(Tail(s)) : Tail(s)[i] = s[i + 1]
  BY <1>1, HeadTailProperties
<1>4. DOMAIN Tail(s) = 1..(Len(s) - 1)
  BY <1>3, LenProperties
<1>5. Head(s) = s[1]
  BY <1>1
<1>6. \A i \in DOMAIN s : s[i] = Head(s) \/ \E j \in DOMAIN Tail(s) : Tail(s)[j] = s[i]
  <2> SUFFICES ASSUME NEW i \in DOMAIN s, i # 1 PROVE \E j \in DOMAIN Tail(s) : Tail(s)[j] = s[i]
    BY <1>5
  <2>1. i - 1 \in DOMAIN Tail(s) /\ Tail(s)[i - 1] = s[i]
    BY <1>2, <1>3, <1>4
  <2>. QED
    BY <2>1
<1>. QED
  BY <1>2, <1>3, <1>4, <1>5, <1>6 DEF IsSeq

(* One more element, without its number.                                   *)
LEMMA OneAdded ==
  ASSUME NEW s, NEW m, IsSeq(s)
  PROVE  /\ IsSeq(Append(s, m))
         /\ \A i \in DOMAIN s : i \in DOMAIN Append(s, m) /\ Append(s, m)[i] = s[i]
         /\ \A i \in DOMAIN Append(s, m) :
               (i \in DOMAIN s /\ Append(s, m)[i] = s[i]) \/ Append(s, m)[i] = m
         /\ \E i \in DOMAIN Append(s, m) : Append(s, m)[i] = m
<1>0. PICK t : t = Append(s, m)
  OBVIOUS
<1>1. /\ IsSeq(t) /\ Len(s) \in Nat /\ DOMAIN s = 1..Len(s)
      /\ DOMAIN t = 1..(Len(s) + 1) /\ t[Len(s) + 1] = m
      /\ \A i \in DOMAIN s : t[i] = s[i]
  BY <1>0, OneMore
<1>2. \A i \in DOMAIN s : i \in DOMAIN t
  BY <1>1
<1>3. \A i \in DOMAIN t : i \in DOMAIN s \/ i = Len(s) + 1
  BY <1>1
<1>4. Len(s) + 1 \in DOMAIN t
  BY <1>1
<1>. QED
  BY <1>0, <1>1, <1>2, <1>3, <1>4

(* A feed begins with nothing committed.                                   *)
LEMMA FeedStart == Feed!FeedInit => FeedInv
<1> SUFFICES ASSUME Feed!FeedInit PROVE FeedInv
  OBVIOUS
<1>1. <<>> \in Seq({}) /\ DOMAIN <<>> = {}
  BY EmptySeq
<1>2. wireq = <<>> /\ chanq = <<>> /\ heard = <<>> /\ commits = <<>> /\ panicked = FALSE /\ sub = "none"
  BY DEF Feed!FeedInit
<1>3. IsSeq(wireq) /\ IsSeq(chanq) /\ IsSeq(heard) /\ IsSeq(commits)
  BY <1>1, <1>2 DEF IsSeq
<1>. QED
  BY <1>1, <1>2, <1>3 DEF FeedInv, Feed!Listening

(* A sound reason stays one, with more given up and more committed, and    *)
(* when the subscription comes or goes.                                    *)
LEMMA ExcusesStay ==
  ASSUME NEW g, NEW h, NEW cs, NEW ds, NEW s, NEW r, g \subseteq h,
         \A id \in DOMAIN cs : id \in DOMAIN ds /\ ds[id] = cs[id],
         r = s \/ r = "left" \/ s = "none"
  PROVE  Excused(g, cs, s) \subseteq Excused(h, ds, r)
BY DEF Excused, Sound

(* A commit given up for a sound reason is excused.                        *)
LEMMA IsExcused ==
  ASSUME NEW g, NEW cs, NEW s, NEW id \in DOMAIN cs, NEW why \in Whys,
         <<id, why>> \in g, Sound(cs[id], why, s)
  PROVE  id \in Excused(g, cs, s)
BY DEF Excused

(* What holds of a commit and of an event still does after one more commit.*)
LEMMA OneCommitMore ==
  ASSUME FeedInv, NEW c, commits' = Append(commits, c)
  PROVE  /\ IsSeq(commits') /\ Len(commits) \in Nat /\ DOMAIN commits = 1..Len(commits)
         /\ DOMAIN commits' = 1..(Len(commits) + 1) /\ commits'[Len(commits) + 1] = c
         /\ \A i \in DOMAIN commits : commits'[i] = commits[i]
         /\ \A e, s : Routed(e, commits, s) => Routed(e, commits', s)
         /\ \A i \in DOMAIN wireq : wireq[i] \in DOMAIN commits'
         /\ \A i \in DOMAIN chanq : Routed(chanq[i], commits', sub)
         /\ \A i \in DOMAIN heard : Routed(heard[i], commits', sub)
<1>1. /\ IsSeq(commits') /\ Len(commits) \in Nat /\ DOMAIN commits = 1..Len(commits)
      /\ DOMAIN commits' = 1..(Len(commits) + 1) /\ commits'[Len(commits) + 1] = c
      /\ \A i \in DOMAIN commits : commits'[i] = commits[i]
  BY OneMore DEF FeedInv
<1>2. \A e, s : Routed(e, commits, s) => Routed(e, commits', s)
  BY <1>1 DEF Routed
<1>3. \A i \in DOMAIN wireq : wireq[i] \in DOMAIN commits
  BY DEF FeedInv
<1>4. (\A i \in DOMAIN chanq : Routed(chanq[i], commits, sub)) /\ (\A i \in DOMAIN heard : Routed(heard[i], commits, sub))
  BY DEF FeedInv
<1>. QED
  BY <1>1, <1>2, <1>3, <1>4


(* A commit, told over the link if there is one.                           *)
LEMMA FeedCommits ==
  ASSUME NEW kind, NEW t, NEW bare, FeedInv, Feed!Commit(kind, t, bare) PROVE FeedInv'
<1>1. PICK c : c = [kind |-> kind, tenant |-> t, bare |-> bare]
  OBVIOUS
<1>2. PICK n : n = Len(commits) + 1
  OBVIOUS
<1>3. /\ commits' = Append(commits, c)
      /\ (wireq' = Append(wireq, n) /\ unheard' = unheard) \/ \E why \in {"silent", "link"} :
            wireq' = wireq /\ unheard' = unheard \cup {<<n, why>>} /\ (why = "silent" => c.kind = "cleanup")
      /\ UNCHANGED <<feed, link, sub, chanq, chanOpen, panicked, heard, skips>>
  BY <1>1, <1>2 DEF Feed!Commit
<1>4. /\ IsSeq(commits') /\ DOMAIN commits = 1..Len(commits) /\ Len(commits) \in Nat
      /\ DOMAIN commits' = 1..(Len(commits) + 1)
      /\ \A i \in DOMAIN commits : commits'[i] = commits[i]
      /\ commits'[Len(commits) + 1] = c
      /\ \A i \in DOMAIN wireq : wireq[i] \in DOMAIN commits'
      /\ \A i \in DOMAIN chanq : Routed(chanq[i], commits', sub)
      /\ \A i \in DOMAIN heard : Routed(heard[i], commits', sub)
  BY <1>3, OneCommitMore
<1>5. /\ IsSeq(wireq') /\ \A i \in DOMAIN wireq : i \in DOMAIN wireq' /\ wireq'[i] = wireq[i]
      /\ \A i \in DOMAIN wireq' : wireq'[i] \in DOMAIN commits'
      /\ n \in Excused(unheard', commits', sub) \/ \E i \in DOMAIN wireq' : wireq'[i] = n
  <2>1. CASE wireq' = wireq /\ wireq' # Append(wireq, n)
    <3>1. PICK why \in {"silent", "link"} : <<n, why>> \in unheard' /\ (why = "silent" => c.kind = "cleanup")
      BY <1>3, <2>1
    <3>2. n \in DOMAIN commits' /\ commits'[n] = c /\ why \in Whys /\ Sound(c, why, sub)
      BY <1>2, <1>4, <3>1 DEF Sound, Whys
    <3>3. n \in Excused(unheard', commits', sub)
      BY <3>1, <3>2, IsExcused
    <3>. QED
      BY <1>4, <2>1, <3>3 DEF FeedInv
  <2>2. CASE wireq' = Append(wireq, n)
    <3>1. /\ IsSeq(wireq') /\ \A i \in DOMAIN wireq : i \in DOMAIN wireq' /\ wireq'[i] = wireq[i]
          /\ \A i \in DOMAIN wireq' : (i \in DOMAIN wireq /\ wireq'[i] = wireq[i]) \/ wireq'[i] = n
          /\ \E i \in DOMAIN wireq' : wireq'[i] = n
      BY <2>2, OneAdded DEF FeedInv
    <3>2. n \in DOMAIN commits'
      BY <1>2, <1>4
    <3>. QED
      BY <1>4, <3>1, <3>2
  <2>. QED
    BY <1>3, <2>1, <2>2
<1>6. \A id \in DOMAIN commits' : Somewhere(id, wireq', chanq', heard', Excused(unheard', commits', sub), skips', commits')
  <2> SUFFICES ASSUME NEW id \in DOMAIN commits' PROVE Somewhere(id, wireq', chanq, heard, Excused(unheard', commits', sub), skips, commits')
    BY <1>3
  <2>1. CASE id = n
    BY <1>5, <2>1 DEF Somewhere
  <2>2. CASE id # n
    <3>1. id \in DOMAIN commits
      BY <1>2, <1>4, <2>2
    <3>2. Somewhere(id, wireq, chanq, heard, Excused(unheard, commits, sub), skips, commits)
      BY <3>1 DEF FeedInv
    <3>3. Excused(unheard, commits, sub) \subseteq Excused(unheard', commits', sub) /\ commits'[id] = commits[id]
      <4>1. unheard \subseteq unheard' /\ \A j \in DOMAIN commits : j \in DOMAIN commits' /\ commits'[j] = commits[j]
        BY <1>3, <1>4
      <4>. QED
        BY <3>1, <4>1, ExcusesStay
    <3>. QED
      BY <1>5, <3>2, <3>3 DEF Somewhere
  <2>. QED
    BY <2>1, <2>2
<1>. QED
  BY <1>3, <1>4, <1>5, <1>6 DEF FeedInv, Feed!Listening

(* Publish tells the subscription in its own process as well.              *)
LEMMA FeedPublishes == ASSUME NEW t, FeedInv, Feed!Publish(t) PROVE FeedInv'
<1>1. PICK c : c = [kind |-> "write", tenant |-> t, bare |-> FALSE]
  OBVIOUS
<1>2. PICK n : n = Len(commits) + 1
  OBVIOUS
<1>3. PICK e : e = [id |-> n, tenant |-> t]
  OBVIOUS
<1>4. /\ commits' = Append(commits, c)
      /\ wireq' = Append(wireq, n) \/ wireq' = wireq
      /\ UNCHANGED <<sub, chanOpen, panicked, heard, skips>> /\ unheard \subseteq unheard'
  BY <1>1, <1>2 DEF Feed!Publish
<1>5. \/ Feed!Listening /\ Asks(sub, t) /\ chanq' = Append(chanq, e)
      \/ chanq' = chanq /\ (wireq' = Append(wireq, n) \/ <<n, "link">> \in unheard')
  BY <1>2, <1>3 DEF Feed!Publish, Feed!Fits, Asks
<1>6. /\ IsSeq(commits') /\ DOMAIN commits = 1..Len(commits) /\ Len(commits) \in Nat
      /\ DOMAIN commits' = 1..(Len(commits) + 1) /\ commits'[Len(commits) + 1] = c
      /\ \A i \in DOMAIN commits : commits'[i] = commits[i]
      /\ \A i \in DOMAIN wireq : wireq[i] \in DOMAIN commits'
      /\ \A i \in DOMAIN chanq : Routed(chanq[i], commits', sub)
      /\ \A i \in DOMAIN heard : Routed(heard[i], commits', sub)
  BY <1>4, OneCommitMore
<1>7. /\ IsSeq(wireq') /\ \A i \in DOMAIN wireq : i \in DOMAIN wireq' /\ wireq'[i] = wireq[i]
      /\ \A i \in DOMAIN wireq' : wireq'[i] \in DOMAIN commits'
      /\ wireq' = Append(wireq, n) => \E i \in DOMAIN wireq' : wireq'[i] = n
  <2>1. n \in DOMAIN commits' /\ IsSeq(wireq)
    BY <1>2, <1>6 DEF FeedInv
  <2>2. CASE wireq' = Append(wireq, n)
    <3>1. /\ IsSeq(wireq') /\ \A i \in DOMAIN wireq : i \in DOMAIN wireq' /\ wireq'[i] = wireq[i]
          /\ \A i \in DOMAIN wireq' : (i \in DOMAIN wireq /\ wireq'[i] = wireq[i]) \/ wireq'[i] = n
          /\ \E i \in DOMAIN wireq' : wireq'[i] = n
      BY <2>1, <2>2, OneAdded
    <3>. QED
      BY <1>6, <2>1, <3>1
  <2>3. CASE wireq' = wireq /\ wireq' # Append(wireq, n)
    BY <1>6, <2>1, <2>3
  <2>. QED
    BY <1>4, <2>2, <2>3
<1>8. (e.id = n /\ Routed(e, commits', sub)) \/ chanq' = chanq
  <2> SUFFICES ASSUME Asks(sub, t) PROVE e.id = n /\ Routed(e, commits', sub)
    BY <1>5
  <2>1. e.id = n /\ e.tenant = t /\ c.tenant = t
    BY <1>1, <1>3
  <2>. QED
    BY <1>2, <1>6, <2>1 DEF Routed
<1>9. /\ IsSeq(chanq') /\ \A i \in DOMAIN chanq : i \in DOMAIN chanq' /\ chanq'[i] = chanq[i]
      /\ \A i \in DOMAIN chanq' : Routed(chanq'[i], commits', sub)
      /\ chanq' = chanq \/ ((\E i \in DOMAIN chanq' : chanq'[i].id = n) /\ Feed!Listening)
  <2>1. CASE chanq' = chanq
    BY <1>6, <2>1 DEF FeedInv
  <2>2. CASE chanq' = Append(chanq, e) /\ chanq' # chanq /\ Feed!Listening
    <3>1. /\ IsSeq(chanq') /\ \A i \in DOMAIN chanq : i \in DOMAIN chanq' /\ chanq'[i] = chanq[i]
          /\ \A i \in DOMAIN chanq' : (i \in DOMAIN chanq /\ chanq'[i] = chanq[i]) \/ chanq'[i] = e
          /\ \E i \in DOMAIN chanq' : chanq'[i] = e
      BY <2>2, OneAdded DEF FeedInv
    <3>. QED
      BY <1>6, <1>8, <2>2, <3>1
  <2>. QED
    BY <1>5, <2>1, <2>2
<1>10. \A id \in DOMAIN commits' : Somewhere(id, wireq', chanq', heard', Excused(unheard', commits', sub), skips', commits')
  <2> SUFFICES ASSUME NEW id \in DOMAIN commits' PROVE Somewhere(id, wireq', chanq', heard, Excused(unheard', commits', sub), skips, commits')
    BY <1>4
  <2>1. CASE id = n
    <3>1. <<n, "link">> \in unheard' => n \in Excused(unheard', commits', sub)
      BY <2>1, IsExcused DEF Sound, Whys
    <3>. QED
      BY <1>5, <1>7, <1>9, <2>1, <3>1 DEF Somewhere
  <2>2. CASE id # n
    <3>1. id \in DOMAIN commits
      BY <1>2, <1>6, <2>2
    <3>2. Somewhere(id, wireq, chanq, heard, Excused(unheard, commits, sub), skips, commits)
      BY <3>1 DEF FeedInv
    <3>3. Excused(unheard, commits, sub) \subseteq Excused(unheard', commits', sub) /\ commits'[id] = commits[id]
      <4>1. unheard \subseteq unheard' /\ \A j \in DOMAIN commits : j \in DOMAIN commits' /\ commits'[j] = commits[j]
        BY <1>4, <1>6
      <4>. QED
        BY <3>1, <4>1, ExcusesStay
    <3>. QED
      BY <1>7, <1>9, <3>2, <3>3 DEF Somewhere
  <2>. QED
    BY <2>1, <2>2
<1>11. sub' = "none" => DOMAIN chanq' = {} /\ DOMAIN heard' = {}
  <2>1. Feed!Listening => sub # "none"
    BY DEF Feed!Listening
  <2>. QED
    BY <1>4, <1>9, <2>1 DEF FeedInv
<1>. QED
  BY <1>4, <1>6, <1>7, <1>9, <1>10, <1>11 DEF FeedInv, Feed!Listening

(* A notification reaches the subscription, or is given up.                *)
LEMMA FeedDelivers == FeedInv /\ Feed!Deliver => FeedInv'
<1> SUFFICES ASSUME FeedInv, Feed!Deliver PROVE FeedInv'
  OBVIOUS
<1>1. PICK n : n = Head(wireq)
  OBVIOUS
<1>2. wireq # <<>> /\ wireq' = Tail(wireq) /\ UNCHANGED <<sub, chanOpen, commits, heard>>
  BY DEF Feed!Deliver
<1>3. PICK e : e = Feed!Event(n)
  OBVIOUS
<1>4. /\ IsSeq(wireq') /\ n \in DOMAIN commits
      /\ \A i \in DOMAIN wireq' : wireq'[i] \in DOMAIN commits
      /\ \A i \in DOMAIN wireq : wireq[i] = n \/ \E j \in DOMAIN wireq' : wireq'[j] = wireq[i]
  <2>1. IsSeq(wireq) /\ \A i \in DOMAIN wireq : wireq[i] \in DOMAIN commits
    BY DEF FeedInv
  <2>2. /\ IsSeq(wireq') /\ n = wireq[1] /\ 1 \in DOMAIN wireq
        /\ \A i \in DOMAIN wireq' : i + 1 \in DOMAIN wireq /\ wireq'[i] = wireq[i + 1]
        /\ \A i \in DOMAIN wireq : wireq[i] = n \/ \E j \in DOMAIN wireq' : wireq'[j] = wireq[i]
    BY <1>1, <1>2, <2>1, HeadOff
  <2>. QED
    BY <2>1, <2>2
<1>5. Feed!Listening => chanOpen
  BY DEF FeedInv
<1>6. /\ Excused(unheard, commits, sub) \subseteq Excused(unheard', commits, sub) /\ skips \subseteq skips' /\ ~panicked'
      /\ \/ chanq' = chanq /\ (n \in Excused(unheard', commits, sub) \/ (n \in skips' /\ commits[n].kind = "hits"))
         \/ chanq' = Append(chanq, e) /\ Feed!Listening /\ Feed!Matches(n)
  <2>1. CASE feed = "mongo" /\ Feed!hitsOnlyUpdate(commits[Head(wireq)])
    BY <1>1, <2>1 DEF Feed!Deliver, Feed!hitsOnlyUpdate, FeedInv
  <2>2. CASE ~(feed = "mongo" /\ Feed!hitsOnlyUpdate(commits[Head(wireq)]))
    <3>1. Feed!SendTo(n) /\ skips' = skips
      BY <1>1, <2>2 DEF Feed!Deliver
    <3>2. \/ chanq' = Append(chanq, e) /\ unheard' = unheard /\ Feed!Listening /\ Feed!Matches(n)
          \/ /\ chanq' = chanq /\ unheard \subseteq unheard'
             /\ \E why \in Whys : <<n, why>> \in unheard' /\ Sound(commits[n], why, sub)
      BY <1>3, <1>5, <3>1 DEF Feed!SendTo, Whys, Sound, Feed!Listening, Feed!Matches, Feed!Fits,
                              Feed!TenantOf, Asks, Told
    <3>3. ~panicked'
      BY <1>5, <3>1 DEF Feed!SendTo, FeedInv
    <3>4. Excused(unheard, commits, sub) \subseteq Excused(unheard', commits, sub)
      BY <3>2, ExcusesStay
    <3>. QED
      BY <1>4, <3>1, <3>2, <3>3, <3>4, IsExcused
  <2>. QED
    BY <2>1, <2>2
<1>7. Feed!Matches(n) => e.id = n /\ Routed(e, commits, sub)
  <2>1. e.id = n /\ e.tenant = Feed!TenantOf(n)
    BY <1>3 DEF Feed!Event
  <2>2. Feed!TenantOf(n) = commits[n].tenant \/ (Feed!TenantOf(n) = Feed!Bare /\ (commits[n].bare \/ commits[n].kind = "delete"))
    BY DEF Feed!TenantOf
  <2>. QED
    BY <1>4, <2>1, <2>2 DEF Feed!Matches, Feed!Fits, Asks, Routed
<1>8. /\ IsSeq(chanq') /\ \A i \in DOMAIN chanq : i \in DOMAIN chanq' /\ chanq'[i] = chanq[i]
      /\ \A i \in DOMAIN chanq' : Routed(chanq'[i], commits, sub)
      /\ chanq' = chanq \/ ((\E i \in DOMAIN chanq' : chanq'[i].id = n) /\ Feed!Listening)
  <2>1. CASE chanq' = chanq
    BY <2>1 DEF FeedInv
  <2>2. CASE chanq' = Append(chanq, e) /\ Feed!Listening /\ Feed!Matches(n)
    <3>1. /\ IsSeq(chanq') /\ \A i \in DOMAIN chanq : i \in DOMAIN chanq' /\ chanq'[i] = chanq[i]
          /\ \A i \in DOMAIN chanq' : (i \in DOMAIN chanq /\ chanq'[i] = chanq[i]) \/ chanq'[i] = e
          /\ \E i \in DOMAIN chanq' : chanq'[i] = e
      BY <2>2, OneAdded DEF FeedInv
    <3>2. \A i \in DOMAIN chanq : Routed(chanq[i], commits, sub)
      BY DEF FeedInv
    <3>. QED
      BY <1>7, <2>2, <3>1, <3>2
  <2>. QED
    BY <1>6, <2>1, <2>2
<1>9. \A id \in DOMAIN commits : Somewhere(id, wireq', chanq', heard, Excused(unheard', commits, sub), skips', commits)
  <2> SUFFICES ASSUME NEW id \in DOMAIN commits PROVE Somewhere(id, wireq', chanq', heard, Excused(unheard', commits, sub), skips', commits)
    OBVIOUS
  <2>1. CASE id = n
    <3>1. chanq' = chanq => n \in Excused(unheard', commits, sub) \/ (n \in skips' /\ commits[n].kind = "hits") \/ \E i \in DOMAIN chanq' : chanq'[i].id = n
      <4>1. CASE chanq' = Append(chanq, e) /\ Feed!Listening /\ Feed!Matches(n)
        <5>1. \E i \in DOMAIN chanq' : chanq'[i] = e
          BY <4>1, OneAdded DEF FeedInv
        <5>. QED
          BY <1>7, <4>1, <5>1
      <4>. QED
        BY <1>6, <4>1
    <3>. QED
      BY <1>8, <2>1, <3>1 DEF Somewhere
  <2>2. CASE id # n
    <3>1. Somewhere(id, wireq, chanq, heard, Excused(unheard, commits, sub), skips, commits)
      BY DEF FeedInv
    <3>. QED
      BY <1>4, <1>6, <1>8, <2>2, <3>1 DEF Somewhere
  <2>. QED
    BY <2>1, <2>2
<1>10. sub = "none" => DOMAIN chanq' = {} /\ DOMAIN heard = {}
  <2>1. Feed!Listening => sub # "none"
    BY DEF Feed!Listening
  <2>. QED
    BY <1>8, <2>1 DEF FeedInv
<1>11. IsSeq(heard) /\ IsSeq(commits) /\ \A i \in DOMAIN heard : Routed(heard[i], commits, sub)
  BY DEF FeedInv
<1>12. (Feed!Listening => chanOpen)'
  BY <1>2, <1>5 DEF Feed!Listening
<1>. QED
  BY <1>2, <1>4, <1>6, <1>8, <1>9, <1>10, <1>11, <1>12 DEF FeedInv

(* The link goes: what was on it is given up.                              *)
LEMMA FeedBreaks == FeedInv /\ (Feed!Break \/ Feed!CloseBus) => FeedInv'
<1> SUFFICES ASSUME FeedInv, Feed!Break \/ Feed!CloseBus PROVE FeedInv'
  OBVIOUS
<1>1. /\ wireq' = <<>> /\ unheard' = unheard \cup {<<wireq[i], "link">> : i \in DOMAIN wireq}
      /\ UNCHANGED <<chanq, panicked, commits, heard, skips>>
      /\ UNCHANGED <<sub, chanOpen>> \/ sub' = "left"
  BY DEF Feed!Break, Feed!CloseBus
<1>2. IsSeq(wireq') /\ DOMAIN wireq' = {}
  BY <1>1, EmptySeq DEF IsSeq
<1>3. \A id \in DOMAIN commits : Somewhere(id, wireq', chanq, heard, Excused(unheard', commits, sub'), skips, commits)
  <2> SUFFICES ASSUME NEW id \in DOMAIN commits PROVE Somewhere(id, wireq', chanq, heard, Excused(unheard', commits, sub'), skips, commits)
    OBVIOUS
  <2>1. Somewhere(id, wireq, chanq, heard, Excused(unheard, commits, sub), skips, commits)
    BY DEF FeedInv
  <2>2. Excused(unheard, commits, sub) \subseteq Excused(unheard', commits, sub')
    BY <1>1, ExcusesStay
  <2>3. ASSUME NEW i \in DOMAIN wireq, wireq[i] = id PROVE id \in Excused(unheard', commits, sub')
    <3>1. <<id, "link">> \in unheard' /\ "link" \in Whys /\ Sound(commits[id], "link", sub')
      BY <1>1, <2>3 DEF Whys, Sound
    <3>. QED
      BY <3>1, IsExcused
  <2>. QED
    BY <2>1, <2>2, <2>3 DEF Somewhere
<1>4. /\ \A i \in DOMAIN chanq : Routed(chanq[i], commits, sub')
      /\ \A i \in DOMAIN heard : Routed(heard[i], commits, sub')
  BY <1>1 DEF FeedInv, Routed
<1>5. (Feed!Listening => chanOpen)'
  BY <1>1 DEF FeedInv, Feed!Listening
<1>. QED
  BY <1>1, <1>2, <1>3, <1>4, <1>5 DEF FeedInv

(* A subscription comes to an empty channel, and leaves with it.           *)
LEMMA FeedSubscribes ==
  ASSUME FeedInv, Feed!Connect \/ Feed!Unsubscribe \/ \E p : Feed!Subscribe(p)
  PROVE  FeedInv'
<1>1. /\ UNCHANGED <<wireq, chanq, panicked, commits, heard, unheard, skips>>
      /\ UNCHANGED <<sub, chanOpen>> \/ sub' = "left" \/ (sub = "none" /\ chanOpen' = TRUE)
  BY DEF Feed!Connect, Feed!Unsubscribe, Feed!Subscribe
<1>2. /\ \A i \in DOMAIN chanq : Routed(chanq[i], commits, sub')
      /\ \A i \in DOMAIN heard : Routed(heard[i], commits, sub')
  BY <1>1 DEF FeedInv, Routed
<1>3. (Feed!Listening => chanOpen)'
  BY <1>1 DEF FeedInv, Feed!Listening
<1>4. sub' = "none" => DOMAIN chanq = {} /\ DOMAIN heard = {}
  BY <1>1 DEF FeedInv
<1>5. \A id \in DOMAIN commits : Somewhere(id, wireq, chanq, heard, Excused(unheard, commits, sub'), skips, commits)
  <2>1. Excused(unheard, commits, sub) \subseteq Excused(unheard, commits, sub')
    BY <1>1, ExcusesStay
  <2>. QED
    BY <2>1 DEF FeedInv, Somewhere
<1>. QED
  BY <1>1, <1>2, <1>3, <1>4, <1>5 DEF FeedInv

(* The subscriber takes the next event off its channel.                    *)
LEMMA FeedReceives == FeedInv /\ Feed!Receive => FeedInv'
<1> SUFFICES ASSUME FeedInv, Feed!Receive PROVE FeedInv'
  OBVIOUS
<1>1. PICK e : e = Head(chanq)
  OBVIOUS
<1>2. /\ chanq # <<>> /\ heard' = Append(heard, e) /\ chanq' = Tail(chanq) /\ sub # "none"
      /\ UNCHANGED <<wireq, sub, chanOpen, panicked, commits, unheard, skips>>
  BY <1>1 DEF Feed!Receive, Feed!Listening
<1>3. /\ IsSeq(chanq') /\ e = chanq[1] /\ 1 \in DOMAIN chanq
      /\ \A i \in DOMAIN chanq' : i + 1 \in DOMAIN chanq /\ chanq'[i] = chanq[i + 1]
      /\ \A i \in DOMAIN chanq : chanq[i] = e \/ \E j \in DOMAIN chanq' : chanq'[j] = chanq[i]
  BY <1>1, <1>2, HeadOff DEF FeedInv
<1>4. /\ IsSeq(heard') /\ \A i \in DOMAIN heard : i \in DOMAIN heard' /\ heard'[i] = heard[i]
      /\ \A i \in DOMAIN heard' : (i \in DOMAIN heard /\ heard'[i] = heard[i]) \/ heard'[i] = e
      /\ \E i \in DOMAIN heard' : heard'[i] = e
  BY <1>2, OneAdded DEF FeedInv
<1>5. (\A i \in DOMAIN chanq : Routed(chanq[i], commits, sub)) /\ (\A i \in DOMAIN heard : Routed(heard[i], commits, sub))
  BY DEF FeedInv
<1>6. \A i \in DOMAIN chanq' : Routed(chanq'[i], commits, sub)
  BY <1>3, <1>5
<1>7. \A i \in DOMAIN heard' : Routed(heard'[i], commits, sub)
  BY <1>3, <1>4, <1>5
<1>8. \A id \in DOMAIN commits : Somewhere(id, wireq, chanq', heard', Excused(unheard, commits, sub), skips, commits)
  <2> SUFFICES ASSUME NEW id \in DOMAIN commits PROVE Somewhere(id, wireq, chanq', heard', Excused(unheard, commits, sub), skips, commits)
    OBVIOUS
  <2>1. Somewhere(id, wireq, chanq, heard, Excused(unheard, commits, sub), skips, commits)
    BY DEF FeedInv
  <2>. QED
    BY <1>3, <1>4, <2>1 DEF Somewhere
<1>. QED
  BY <1>2, <1>3, <1>4, <1>6, <1>7, <1>8 DEF FeedInv, Feed!Listening

(* Every step of a feed keeps its invariant.                               *)
LEMMA FeedKept == FeedInv /\ Feed!FeedNext => FeedInv'
BY FeedCommits, FeedPublishes, FeedDelivers, FeedBreaks, FeedSubscribes, FeedReceives DEF Feed!FeedNext

(* Every commit is accounted for and every event routed.                   *)
LEMMA FeedFollows == FeedInv => FeedAccounts /\ FeedRoutes
<1> SUFFICES ASSUME FeedInv PROVE Feed!FeedAccounts /\ Feed!FeedRoutes
  BY DEF FeedAccounts, FeedRoutes
<1>1. \A id \in DOMAIN commits : Somewhere(id, wireq, chanq, heard, Excused(unheard, commits, sub), skips, commits)
  BY DEF FeedInv
<1>2. Feed!FeedAccounts
  <2> SUFFICES ASSUME NEW id \in DOMAIN commits
               PROVE  \/ \E i \in DOMAIN wireq : wireq[i] = id
                      \/ id \in Feed!Ids(chanq) \cup Feed!Ids(heard)
                      \/ \E why \in Whys : Feed!Excuse(id, why)
                      \/ id \in skips /\ commits[id].kind = "hits"
    BY DEF Feed!FeedAccounts, FeedInv, Whys
  <2>1. id \in Excused(unheard, commits, sub) => \E why \in Whys : Feed!Excuse(id, why)
    BY DEF Excused, Sound, Feed!Excuse, Feed!Matches, Feed!Fits, Feed!TenantOf, Asks, Told
  <2>. QED
    BY <1>1, <2>1 DEF Somewhere, Feed!Ids
<1>3. Feed!FeedRoutes
  BY DEF FeedInv, Routed, Asks, Feed!Fits, Feed!FeedRoutes
<1>. QED
  BY <1>2, <1>3

-----------------------------------------------------------------------------
(* The collectors.  The messages that have arrived are in four sets apart: *)
(* unread, queued, in hand and dealt with.  Sockets and the queue rise,    *)
(* and a single source hands its messages on in the order they came in.    *)

Rising(s) ==
    /\ IsSeq(s) /\ \A i \in DOMAIN s : s[i] \in Nat
    /\ \A i, j \in DOMAIN s : i < j => s[i] < s[j]
Below(S, T) == \A x \in S : \A y \in T : x < y
\* The one socket of a listener that is not for lines.
One == CHOOSE p \in Peers : TRUE
Posts == Coll!Msgs(wasPosted)
Queued == Coll!Msgs(queue)

SocketsSound ==
    /\ socket = [p \in Peers |-> socket[p]] /\ \A p \in Peers : Rising(socket[p])
    /\ \A p, q \in Peers : p # q => Coll!Msgs(socket[p]) \cap Coll!Msgs(socket[q]) = {}
HandsSound ==
    /\ hand = [p \in Peers |-> hand[p]] /\ \A p \in Peers : hand[p] \in Nat
    /\ \A p, q \in Peers : p # q /\ hand[p] # 0 => hand[p] # hand[q]
\* The four places are apart, and nothing is elsewhere.
Apart(u, q, h, e, w) ==
    /\ u \cap q = {} /\ u \cap h = {} /\ u \cap e = {} /\ q \cap h = {} /\ q \cap e = {} /\ h \cap e = {}
    /\ u \cup q \cup h \cup e = w
PostsSound ==
    /\ IsSeq(wasPosted) /\ Posts \subseteq DOMAIN end
    /\ \A i, j \in DOMAIN wasPosted : i # j => wasPosted[i] # wasPosted[j]
Chain(p, h, q, u) ==
    Below(p, h) /\ Below(p, q) /\ Below(p, u) /\ Below(h, q) /\ Below(h, u) /\ Below(q, u)
InTurn ==
    /\ \A p \in Peers \ {One} : socket[p] = <<>> /\ hand[p] = 0
    /\ Rising(wasPosted) /\ Chain(Posts, Coll!InHand, Queued, Coll!Unread)
PlacesSound ==
    /\ IsSeq(what) /\ SocketsSound /\ HandsSound /\ Rising(queue)
    /\ Apart(Coll!Unread, Queued, Coll!InHand, DOMAIN end, DOMAIN what)
    /\ PostsSound /\ (intake # "trap" => queue = <<>>)
    /\ \A m \in DOMAIN end : end[m] = "lost" => cancelled
    /\ intake # "tcp" => InTurn

(* Nothing rises.                                                          *)
LEMMA NothingRises == Rising(<<>>) /\ Coll!Msgs(<<>>) = {}
<1>1. IsSeq(<<>>) /\ DOMAIN <<>> = {}
  BY EmptySeq DEF IsSeq
<1>. QED
  BY <1>1 DEF Rising, Coll!Msgs

(* Without its head a rising sequence rises, above the head.               *)
LEMMA TailRises ==
  ASSUME NEW s, Rising(s), s # <<>>
  PROVE  /\ Rising(Tail(s)) /\ Head(s) \in Coll!Msgs(s) /\ Head(s) \in Nat
         /\ Coll!Msgs(Tail(s)) = Coll!Msgs(s) \ {Head(s)}
         /\ \A x \in Coll!Msgs(s) : x \in Nat /\ (x = Head(s) \/ Head(s) < x)
<1>1. PICK t : t = Tail(s)
  OBVIOUS
<1>2. PICK h : h = Head(s)
  OBVIOUS
<1>3. /\ IsSeq(s) /\ IsSeq(t) /\ h = s[1] /\ 1 \in DOMAIN s
      /\ \A i \in DOMAIN t : i + 1 \in DOMAIN s /\ t[i] = s[i + 1]
      /\ \A i \in DOMAIN s : s[i] = h \/ \E j \in DOMAIN t : t[j] = s[i]
      /\ DOMAIN s = 1..Len(s) /\ DOMAIN t = 1..(Len(s) - 1) /\ Len(s) \in Nat
  BY <1>1, <1>2, HeadOff DEF Rising
<1>4. \A i \in DOMAIN t : i \in Nat /\ t[i] \in Nat /\ h < t[i]
  <2> SUFFICES ASSUME NEW i \in DOMAIN t PROVE i \in Nat /\ t[i] \in Nat /\ h < t[i]
    OBVIOUS
  <2>1. i \in Nat /\ 1 < i + 1 /\ i + 1 \in DOMAIN s /\ t[i] = s[i + 1]
    BY <1>3
  <2>. QED
    BY <1>3, <2>1 DEF Rising
<1>5. \A i, j \in DOMAIN t : i < j => t[i] < t[j]
  <2> SUFFICES ASSUME NEW i \in DOMAIN t, NEW j \in DOMAIN t, i < j PROVE t[i] < t[j]
    OBVIOUS
  <2>1. i \in Nat /\ j \in Nat /\ i + 1 < j + 1
    BY <1>4
  <2>. QED
    BY <1>3, <2>1 DEF Rising
<1>6. Rising(t) /\ h \in Nat /\ h \in Coll!Msgs(s)
  BY <1>3, <1>4, <1>5 DEF Rising, Coll!Msgs
<1>7. \A x \in Coll!Msgs(t) : x \in Coll!Msgs(s) /\ x # h
  <2> SUFFICES ASSUME NEW i \in DOMAIN t PROVE t[i] \in Coll!Msgs(s) /\ t[i] # h
    BY DEF Coll!Msgs
  <2>1. h < t[i] /\ t[i] \in Nat
    BY <1>4
  <2>2. t[i] # h
    BY <1>6, <2>1
  <2>. QED
    BY <1>3, <2>2 DEF Coll!Msgs
<1>8. \A x \in Coll!Msgs(s) : x = h \/ x \in Coll!Msgs(t)
  BY <1>3 DEF Coll!Msgs
<1>9. \A x \in Coll!Msgs(t) : x \in Nat /\ h < x
  BY <1>4 DEF Coll!Msgs
<1>. QED
  BY <1>1, <1>2, <1>6, <1>7, <1>8, <1>9

(* A sequence with one more above it rises.                                *)
LEMMA AppendRises ==
  ASSUME NEW s, NEW m \in Nat, Rising(s), \A x \in Coll!Msgs(s) : x < m
  PROVE  Rising(Append(s, m)) /\ Coll!Msgs(Append(s, m)) = Coll!Msgs(s) \cup {m}
<1>1. PICK t : t = Append(s, m)
  OBVIOUS
<1>2. /\ IsSeq(t) /\ Len(s) \in Nat /\ DOMAIN s = 1..Len(s)
      /\ DOMAIN t = 1..(Len(s) + 1) /\ t[Len(s) + 1] = m
      /\ \A i \in DOMAIN s : t[i] = s[i]
  BY <1>1, OneMore DEF Rising
<1>3. \A i \in DOMAIN t : i \in DOMAIN s \/ i = Len(s) + 1
  BY <1>2
<1>4. \A i \in DOMAIN s : i \in DOMAIN t /\ t[i] \in Nat /\ t[i] < m
  BY <1>2 DEF Rising, Coll!Msgs
<1>5. \A i, j \in DOMAIN t : i < j => t[i] < t[j]
  <2> SUFFICES ASSUME NEW i \in DOMAIN t, NEW j \in DOMAIN t, i < j PROVE t[i] < t[j]
    OBVIOUS
  <2>1. i \in DOMAIN s
    BY <1>2
  <2>2. CASE j \in DOMAIN s
    BY <1>2, <2>1, <2>2 DEF Rising
  <2>3. CASE j = Len(s) + 1
    BY <1>2, <1>4, <2>1, <2>3
  <2>. QED
    BY <1>3, <2>2, <2>3
<1>6. \A i \in DOMAIN t : t[i] \in Nat
  BY <1>2, <1>3, <1>4
<1>7. Coll!Msgs(t) = Coll!Msgs(s) \cup {m}
  <2>1. \A x \in Coll!Msgs(t) : x \in Coll!Msgs(s) \cup {m}
    BY <1>2, <1>3 DEF Coll!Msgs
  <2>2. \A x \in Coll!Msgs(s) : x \in Coll!Msgs(t)
    BY <1>2, <1>4 DEF Coll!Msgs
  <2>3. m \in Coll!Msgs(t)
    <3>1. Len(s) + 1 \in DOMAIN t
      BY <1>2
    <3>. QED
      BY <1>2, <3>1 DEF Coll!Msgs
  <2>. QED
    BY <2>1, <2>2, <2>3
<1>. QED
  BY <1>1, <1>2, <1>5, <1>6, <1>7 DEF Rising

(* A socket changes: so does what is unread.                               *)
LEMMA SocketChanges ==
  ASSUME NEW p \in Peers, NEW t, SocketsSound, socket' = [socket EXCEPT ![p] = t], Rising(t),
         \A q \in Peers \ {p} : Coll!Msgs(t) \cap Coll!Msgs(socket[q]) = {}
  PROVE  /\ SocketsSound' /\ socket'[p] = t /\ \A q \in Peers \ {p} : socket'[q] = socket[q]
         /\ Coll!Unread' = (Coll!Unread \ Coll!Msgs(socket[p])) \cup Coll!Msgs(t)
         /\ Coll!Msgs(socket[p]) \subseteq Coll!Unread
<1>1. /\ socket'[p] = t /\ \A q \in Peers \ {p} : socket'[q] = socket[q]
      /\ socket' = [q \in Peers |-> socket'[q]]
  BY DEF SocketsSound
<1>2. SocketsSound'
  BY <1>1 DEF SocketsSound
<1>3. \A x : x \in Coll!Unread <=> \E q \in Peers : x \in Coll!Msgs(socket[q])
  BY DEF Coll!Unread
<1>4. \A x : x \in Coll!Unread' <=> \E q \in Peers : x \in Coll!Msgs(socket'[q])
  BY DEF Coll!Unread, Coll!Msgs
<1>5. \A x : x \in Coll!Unread' <=> x \in (Coll!Unread \ Coll!Msgs(socket[p])) \cup Coll!Msgs(t)
  <2>1. \A q \in Peers \ {p} : \A x \in Coll!Msgs(socket[q]) : x \notin Coll!Msgs(socket[p])
    BY DEF SocketsSound
  <2>. QED
    BY <1>1, <1>3, <1>4, <2>1
<1>. QED
  BY <1>1, <1>2, <1>3, <1>5

(* A hand changes: so does what is in hand.                                *)
LEMMA HandChanges ==
  ASSUME NEW p \in Peers, NEW m \in Nat, HandsSound, hand' = [hand EXCEPT ![p] = m],
         m # 0 => m \notin Coll!InHand
  PROVE  /\ HandsSound' /\ hand'[p] = m /\ \A q \in Peers \ {p} : hand'[q] = hand[q]
         /\ Coll!InHand' = (Coll!InHand \ {hand[p]}) \cup ({m} \ {0})
         /\ hand[p] # 0 => hand[p] \in Coll!InHand
<1>1. /\ hand'[p] = m /\ \A q \in Peers \ {p} : hand'[q] = hand[q]
      /\ hand' = [q \in Peers |-> hand'[q]]
  BY DEF HandsSound
<1>2. \A x : x \in Coll!InHand <=> x # 0 /\ \E q \in Peers : x = hand[q]
  BY DEF Coll!InHand, Coll!NoMessage
<1>3. \A x : x \in Coll!InHand' <=> x # 0 /\ \E q \in Peers : x = hand'[q]
  BY DEF Coll!InHand, Coll!NoMessage
<1>4. \A q \in Peers : m # 0 => hand[q] # m
  BY <1>2
<1>5. HandsSound'
  BY <1>1, <1>4 DEF HandsSound
<1>6. \A x : x \in Coll!InHand' <=> x \in (Coll!InHand \ {hand[p]}) \cup ({m} \ {0})
  <2>1. \A q \in Peers \ {p} : hand[q] # 0 => hand[q] # hand[p]
    BY DEF HandsSound
  <2>. QED
    BY <1>1, <1>2, <1>3, <2>1
<1>. QED
  BY <1>1, <1>2, <1>5, <1>6

(* What a step leaves alone stays in its place.                            *)
LEMMA PlacesStay ==
  /\ socket' = socket => Coll!Unread' = Coll!Unread /\ (SocketsSound => SocketsSound')
  /\ hand' = hand => Coll!InHand' = Coll!InHand /\ (HandsSound => HandsSound')
  /\ queue' = queue => Queued' = Queued
  /\ wasPosted' = wasPosted => Posts' = Posts
<1>1. ASSUME socket' = socket PROVE Coll!Unread' = Coll!Unread /\ (SocketsSound => SocketsSound')
  BY <1>1 DEF Coll!Unread, SocketsSound, Coll!Msgs
<1>2. ASSUME hand' = hand PROVE Coll!InHand' = Coll!InHand /\ (HandsSound => HandsSound')
  BY <1>2 DEF Coll!InHand, HandsSound
<1>3. ASSUME queue' = queue PROVE Queued' = Queued
  BY <1>3 DEF Queued, Coll!Msgs
<1>4. ASSUME wasPosted' = wasPosted PROVE Posts' = Posts
  BY <1>4 DEF Posts, Coll!Msgs
<1>. QED
  BY <1>1, <1>2, <1>3, <1>4

(* Messages end: they are among those dealt with, lost in a shutdown only. *)
LEMMA MessagesEnd ==
  ASSUME NEW ms, NEW how, PlacesSound, end' = Coll!Ends(ms, how), cancelled' = cancelled,
         how = "lost" /\ ms # {} => cancelled
  PROVE  /\ DOMAIN end' = DOMAIN end \cup ms
         /\ \A m \in DOMAIN end' : end'[m] = "lost" => cancelled'
<1>1. end' = [m \in DOMAIN end \cup ms |-> IF m \in ms THEN how ELSE end[m]]
  BY DEF Coll!Ends
<1>2. \A m \in DOMAIN end : end[m] = "lost" => cancelled
  BY DEF PlacesSound
<1>. QED
  BY <1>1, <1>2

(* The socket, the hand and the queue of a single source are all there is. *)
LEMMA OneSource ==
  ASSUME PlacesSound, intake # "tcp"
  PROVE  /\ One \in Peers /\ InTurn /\ Coll!TheSource = One /\ Coll!Sources = {One}
         /\ Coll!Unread = Coll!Msgs(socket[One]) /\ Coll!InHand = {hand[One]} \ {0}
         /\ \A p \in Peers : (socket[p] # <<>> \/ hand[p] # 0) => p = One
<1>1. One \in Peers
  BY SourcesAssumption DEF One
<1>2. Coll!Sources = {One}
  BY DEF Coll!Sources, One
<1>3. Coll!TheSource = One
  BY <1>2 DEF Coll!TheSource
<1>4. InTurn
  BY DEF PlacesSound
<1>5. \A p \in Peers \ {One} : Coll!Msgs(socket[p]) = {}
  BY <1>4, NothingRises DEF InTurn
<1>6. Coll!Unread = Coll!Msgs(socket[One])
  BY <1>1, <1>5 DEF Coll!Unread
<1>7. Coll!InHand = {hand[One]} \ {0}
  BY <1>1, <1>4 DEF InTurn, Coll!InHand, Coll!NoMessage
<1>. QED
  BY <1>1, <1>2, <1>3, <1>4, <1>6, <1>7 DEF InTurn

(* The collectors begin with nothing.                                      *)
LEMMA PlacesStart == Coll!CollectInit => PlacesSound
<1> SUFFICES ASSUME Coll!CollectInit PROVE PlacesSound
  OBVIOUS
<1>1. /\ socket = [p \in Peers |-> <<>>] /\ hand = [p \in Peers |-> 0] /\ queue = <<>>
      /\ what = <<>> /\ end = <<>> /\ wasPosted = <<>>
  BY DEF Coll!CollectInit, Coll!NoMessage
<1>2. IsSeq(<<>>) /\ DOMAIN <<>> = {} /\ Rising(<<>>) /\ Coll!Msgs(<<>>) = {}
  BY NothingRises, EmptySeq DEF Rising
<1>3. SocketsSound
  BY <1>1, <1>2 DEF SocketsSound
<1>4. HandsSound
  BY <1>1 DEF HandsSound
<1>5. Coll!Unread = {} /\ Coll!InHand = {} /\ Queued = {} /\ Posts = {}
  BY <1>1, <1>2 DEF Coll!Unread, Coll!InHand, Coll!NoMessage, Queued, Posts
<1>6. Apart(Coll!Unread, Queued, Coll!InHand, DOMAIN end, DOMAIN what)
  BY <1>1, <1>2, <1>5 DEF Apart
<1>7. PostsSound
  BY <1>1, <1>2, <1>5 DEF PostsSound
<1>8. InTurn
  BY <1>1, <1>2, <1>5 DEF InTurn, Chain, Below
<1>. QED
  BY <1>1, <1>2, <1>3, <1>4, <1>6, <1>7, <1>8 DEF PlacesSound

(* A message arrives: it is the latest.                                    *)
LEMMA CollArrives == ASSUME NEW p \in Peers, PlacesSound, Coll!Arrive(p) PROVE PlacesSound'
<1>1. UNCHANGED <<intake, hand, queue, cancelled, end, wasPosted>>
  BY DEF Coll!Arrive
<1>2. PICK k : what' = Append(what, k)
  BY DEF Coll!Arrive
<1>3. PICK n : n = Len(what) + 1
  OBVIOUS
<1>4. IsSeq(what') /\ n \in Nat /\ DOMAIN what' = DOMAIN what \cup {n} /\ \A x \in DOMAIN what : x \in Nat /\ x < n
  <2>1. /\ IsSeq(what') /\ Len(what) \in Nat /\ DOMAIN what = 1..Len(what) /\ DOMAIN what' = 1..(Len(what) + 1)
    BY <1>2, OneMore DEF PlacesSound
  <2>. QED
    BY <1>3, <2>1
<1>5. /\ SocketsSound /\ HandsSound /\ Rising(queue) /\ PostsSound
      /\ Apart(Coll!Unread, Queued, Coll!InHand, DOMAIN end, DOMAIN what)
  BY DEF PlacesSound
<1>6. PICK t : t = Append(socket[p], n)
  OBVIOUS
<1>7. socket' = [socket EXCEPT ![p] = t]
  BY <1>3, <1>6 DEF Coll!Arrive
<1>8. \A q \in Peers : Coll!Msgs(socket[q]) \subseteq DOMAIN what
  BY <1>5 DEF Apart, Coll!Unread
<1>9. Rising(t) /\ Coll!Msgs(t) = Coll!Msgs(socket[p]) \cup {n}
  BY <1>4, <1>5, <1>6, <1>8, AppendRises DEF SocketsSound
<1>10. \A q \in Peers \ {p} : Coll!Msgs(t) \cap Coll!Msgs(socket[q]) = {}
  <2>1. \A q \in Peers \ {p} : Coll!Msgs(socket[p]) \cap Coll!Msgs(socket[q]) = {} /\ n \notin Coll!Msgs(socket[q])
    BY <1>4, <1>5, <1>8 DEF SocketsSound
  <2>. QED
    BY <1>9, <2>1
<1>11. /\ SocketsSound' /\ \A q \in Peers \ {p} : socket'[q] = socket[q]
       /\ Coll!Unread' = Coll!Unread \cup {n}
  BY <1>5, <1>7, <1>9, <1>10, SocketChanges
<1>12. Coll!InHand' = Coll!InHand /\ HandsSound' /\ Queued' = Queued /\ Posts' = Posts
  BY <1>1, <1>5, PlacesStay
<1>13. n \notin DOMAIN what
  BY <1>4
<1>14. Apart(Coll!Unread', Queued', Coll!InHand', DOMAIN end', DOMAIN what')
  BY <1>1, <1>4, <1>5, <1>11, <1>12, <1>13 DEF Apart
<1>15. PostsSound' /\ (Rising(queue))'
  BY <1>1, <1>5, <1>12 DEF PostsSound
<1>16. ASSUME intake # "tcp" PROVE InTurn'
  <2>1. InTurn /\ p = One
    BY <1>16, OneSource DEF Coll!Arrive
  <2>2. \A x \in Posts \cup Coll!InHand \cup Queued : x < n
    BY <1>4, <1>5 DEF Apart, PostsSound
  <2>3. Chain(Posts, Coll!InHand, Queued, Coll!Unread \cup {n})
    BY <2>1, <2>2 DEF InTurn, Chain, Below
  <2>. QED
    BY <1>1, <1>11, <1>12, <2>1, <2>3 DEF InTurn
<1>. QED
  BY <1>1, <1>4, <1>11, <1>12, <1>14, <1>15, <1>16 DEF PlacesSound

(* A socket is given up: what was unread is cut, or lost in the shutdown.  *)
LEMMA CollGivesUp ==
  ASSUME NEW p \in Peers, PlacesSound, socket' = [socket EXCEPT ![p] = <<>>],
         NEW how, end' = Coll!Ends(Coll!Msgs(socket[p]), how),
         how = "lost" /\ socket[p] # <<>> => cancelled,
         UNCHANGED <<intake, hand, queue, cancelled, what, wasPosted>>
  PROVE  PlacesSound'
<1>1. /\ SocketsSound /\ HandsSound /\ Rising(queue) /\ PostsSound
      /\ Apart(Coll!Unread, Queued, Coll!InHand, DOMAIN end, DOMAIN what)
  BY DEF PlacesSound
<1>2. Rising(<<>>) /\ Coll!Msgs(<<>>) = {}
  BY NothingRises
<1>3. PICK ms : ms = Coll!Msgs(socket[p])
  OBVIOUS
<1>4. /\ SocketsSound' /\ socket'[p] = <<>> /\ \A q \in Peers \ {p} : socket'[q] = socket[q]
      /\ Coll!Unread' = Coll!Unread \ ms /\ ms \subseteq Coll!Unread
  BY <1>1, <1>2, <1>3, SocketChanges
<1>5. Coll!InHand' = Coll!InHand /\ HandsSound' /\ Queued' = Queued /\ Posts' = Posts
  BY <1>1, PlacesStay
<1>6. DOMAIN end' = DOMAIN end \cup ms /\ \A m \in DOMAIN end' : end'[m] = "lost" => cancelled'
  BY <1>2, <1>3, MessagesEnd
<1>7. Apart(Coll!Unread', Queued', Coll!InHand', DOMAIN end', DOMAIN what')
  BY <1>1, <1>4, <1>5, <1>6 DEF Apart
<1>8. PostsSound' /\ (Rising(queue))'
  BY <1>1, <1>5, <1>6 DEF PostsSound
<1>9. ASSUME intake # "tcp" PROVE InTurn'
  <2>1. InTurn
    BY <1>9 DEF PlacesSound
  <2>2. Chain(Posts, Coll!InHand, Queued, Coll!Unread \ ms)
    BY <2>1 DEF InTurn, Chain, Below
  <2>3. \A q \in Peers \ {One} : socket'[q] = <<>> /\ hand'[q] = 0
    BY <1>4, <2>1 DEF InTurn
  <2>. QED
    BY <1>4, <1>5, <2>1, <2>2, <2>3 DEF InTurn
<1>. QED
  BY <1>4, <1>5, <1>6, <1>7, <1>8, <1>9 DEF PlacesSound

(* The head of a socket is read: it is the earliest of its source.         *)
LEMMA HeadRead ==
  ASSUME NEW p \in Peers, PlacesSound, socket[p] # <<>>, socket' = [socket EXCEPT ![p] = Tail(@)]
  PROVE  /\ SocketsSound' /\ \A q \in Peers \ {p} : socket'[q] = socket[q]
         /\ Head(socket[p]) \in Nat \ {0} /\ Head(socket[p]) \in Coll!Unread
         /\ Coll!Unread' = Coll!Unread \ {Head(socket[p])}
         /\ intake # "tcp" => p = One /\ Below({Head(socket[p])}, Coll!Unread \ {Head(socket[p])})
<1>1. PICK s : s = socket[p]
  OBVIOUS
<1>2. PICK t : t = Tail(s)
  OBVIOUS
<1>3. PICK m : m = Head(s)
  OBVIOUS
<1>4. SocketsSound /\ Apart(Coll!Unread, Queued, Coll!InHand, DOMAIN end, DOMAIN what) /\ IsSeq(what)
  BY DEF PlacesSound
<1>5. /\ Rising(t) /\ m \in Coll!Msgs(s) /\ m \in Nat /\ Coll!Msgs(t) = Coll!Msgs(s) \ {m}
      /\ \A x \in Coll!Msgs(s) : x \in Nat /\ (x = m \/ m < x)
  BY <1>1, <1>2, <1>3, <1>4, TailRises DEF SocketsSound
<1>6. socket' = [socket EXCEPT ![p] = t]
  BY <1>1, <1>2, <1>4 DEF SocketsSound
<1>7. \A q \in Peers \ {p} : Coll!Msgs(t) \cap Coll!Msgs(socket[q]) = {}
  BY <1>1, <1>4, <1>5 DEF SocketsSound
<1>8. /\ SocketsSound' /\ \A q \in Peers \ {p} : socket'[q] = socket[q]
      /\ Coll!Unread' = (Coll!Unread \ Coll!Msgs(s)) \cup Coll!Msgs(t)
      /\ Coll!Msgs(s) \subseteq Coll!Unread
  BY <1>1, <1>4, <1>5, <1>6, <1>7, SocketChanges
<1>9. Coll!Unread' = Coll!Unread \ {m} /\ m \in Coll!Unread
  BY <1>5, <1>8
<1>10. m # 0
  <2>1. DOMAIN what = 1..Len(what) /\ m \in DOMAIN what
    BY <1>4, <1>9, OneMore DEF Apart
  <2>. QED
    BY <2>1
<1>11. ASSUME intake # "tcp" PROVE p = One /\ Below({m}, Coll!Unread \ {m})
  <2>1. p = One /\ Coll!Unread = Coll!Msgs(s)
    BY <1>1, <1>11, OneSource
  <2>. QED
    BY <1>5, <2>1 DEF Below
<1>. QED
  BY <1>1, <1>3, <1>5, <1>8, <1>9, <1>10, <1>11

(* It is refused or dropped.                                               *)
LEMMA CollRefuses ==
  ASSUME NEW p \in Peers, NEW how, PlacesSound, socket[p] # <<>>, socket' = [socket EXCEPT ![p] = Tail(@)],
         how # "lost", end' = Coll!Ends({Head(socket[p])}, how),
         UNCHANGED <<intake, hand, queue, cancelled, what, wasPosted>>
  PROVE  PlacesSound'
<1>1. /\ SocketsSound /\ HandsSound /\ Rising(queue) /\ PostsSound
      /\ Apart(Coll!Unread, Queued, Coll!InHand, DOMAIN end, DOMAIN what)
  BY DEF PlacesSound
<1>2. PICK m : m = Head(socket[p])
  OBVIOUS
<1>3. /\ SocketsSound' /\ \A q \in Peers \ {p} : socket'[q] = socket[q]
      /\ m \in Coll!Unread /\ Coll!Unread' = Coll!Unread \ {m}
      /\ intake # "tcp" => p = One
  BY <1>2, HeadRead
<1>4. Coll!InHand' = Coll!InHand /\ HandsSound' /\ Queued' = Queued /\ Posts' = Posts
  BY <1>1, PlacesStay
<1>5. DOMAIN end' = DOMAIN end \cup {m} /\ \A x \in DOMAIN end' : end'[x] = "lost" => cancelled'
  BY <1>2, MessagesEnd
<1>6. Apart(Coll!Unread', Queued', Coll!InHand', DOMAIN end', DOMAIN what')
  BY <1>1, <1>3, <1>4, <1>5 DEF Apart
<1>7. PostsSound' /\ (Rising(queue))'
  BY <1>1, <1>4, <1>5 DEF PostsSound
<1>8. ASSUME intake # "tcp" PROVE InTurn'
  <2>1. InTurn
    BY <1>8 DEF PlacesSound
  <2>2. Chain(Posts, Coll!InHand, Queued, Coll!Unread \ {m})
    BY <2>1 DEF InTurn, Chain, Below
  <2>3. \A q \in Peers \ {One} : socket'[q] = <<>> /\ hand'[q] = 0
    BY <1>3, <1>8, <2>1 DEF InTurn
  <2>. QED
    BY <1>3, <1>4, <2>1, <2>2, <2>3 DEF InTurn
<1>. QED
  BY <1>3, <1>4, <1>5, <1>6, <1>7, <1>8 DEF PlacesSound

(* It is taken in hand, without a queue.                                   *)
LEMMA CollTakes ==
  ASSUME NEW p \in Peers, PlacesSound, socket[p] # <<>>, socket' = [socket EXCEPT ![p] = Tail(@)],
         intake # "trap", hand[p] = 0, hand' = [hand EXCEPT ![p] = Head(socket[p])],
         UNCHANGED <<intake, end, queue, cancelled, what, wasPosted>>
  PROVE  PlacesSound'
<1>1. /\ SocketsSound /\ HandsSound /\ Rising(queue) /\ PostsSound
      /\ Apart(Coll!Unread, Queued, Coll!InHand, DOMAIN end, DOMAIN what)
  BY DEF PlacesSound
<1>2. PICK m : m = Head(socket[p])
  OBVIOUS
<1>3. /\ SocketsSound' /\ \A q \in Peers \ {p} : socket'[q] = socket[q]
      /\ m \in Nat \ {0} /\ m \in Coll!Unread /\ Coll!Unread' = Coll!Unread \ {m}
      /\ intake # "tcp" => p = One /\ Below({m}, Coll!Unread \ {m})
  BY <1>2, HeadRead
<1>4. Queued' = Queued /\ Posts' = Posts
  BY PlacesStay
<1>5. m \notin Coll!InHand
  BY <1>1, <1>3 DEF Apart
<1>6. /\ HandsSound' /\ \A q \in Peers \ {p} : hand'[q] = hand[q]
      /\ Coll!InHand' = (Coll!InHand \ {hand[p]}) \cup ({m} \ {0})
  BY <1>1, <1>2, <1>3, <1>5, HandChanges
<1>7. 0 \notin Coll!InHand
  BY DEF Coll!InHand, Coll!NoMessage
<1>8. Coll!InHand' = Coll!InHand \cup {m}
  BY <1>3, <1>6, <1>7
<1>9. Apart(Coll!Unread', Queued', Coll!InHand', DOMAIN end', DOMAIN what')
  BY <1>1, <1>3, <1>4, <1>8 DEF Apart
<1>10. PostsSound' /\ (Rising(queue))'
  BY <1>1, <1>4 DEF PostsSound
<1>11. ASSUME intake # "tcp" PROVE InTurn'
  <2>1. InTurn /\ p = One /\ Coll!InHand = {}
    BY <1>3, <1>11, OneSource
  <2>2. Queued = {}
    BY NothingRises DEF PlacesSound, Queued
  <2>3. Chain(Posts, {m}, Queued, Coll!Unread \ {m})
    BY <1>3, <1>11, <2>1, <2>2 DEF InTurn, Chain, Below
  <2>4. \A q \in Peers \ {One} : socket'[q] = <<>> /\ hand'[q] = 0
    BY <1>3, <1>6, <2>1 DEF InTurn
  <2>5. Coll!InHand' = {m}
    BY <1>8, <2>1
  <2>. QED
    BY <1>3, <1>4, <2>1, <2>3, <2>4, <2>5 DEF InTurn
<1>. QED
  BY <1>3, <1>4, <1>6, <1>9, <1>10, <1>11 DEF PlacesSound

(* A trap is queued.                                                       *)
LEMMA CollQueues ==
  ASSUME PlacesSound, intake = "trap", socket[One] # <<>>, socket' = [socket EXCEPT ![One] = Tail(@)],
         queue' = Append(queue, Head(socket[One])),
         UNCHANGED <<intake, end, hand, cancelled, what, wasPosted>>
  PROVE  PlacesSound'
<1>1. /\ SocketsSound /\ HandsSound /\ Rising(queue) /\ PostsSound
      /\ Apart(Coll!Unread, Queued, Coll!InHand, DOMAIN end, DOMAIN what)
  BY DEF PlacesSound
<1>2. PICK m : m = Head(socket[One])
  OBVIOUS
<1>3. One \in Peers /\ InTurn
  BY OneSource
<1>4. /\ SocketsSound' /\ \A q \in Peers \ {One} : socket'[q] = socket[q]
      /\ m \in Nat \ {0} /\ m \in Coll!Unread /\ Coll!Unread' = Coll!Unread \ {m}
      /\ Below({m}, Coll!Unread \ {m})
  BY <1>2, <1>3, HeadRead
<1>5. Coll!InHand' = Coll!InHand /\ HandsSound' /\ Posts' = Posts
  BY <1>1, PlacesStay
<1>6. \A x \in Coll!Msgs(queue) : x < m
  BY <1>3, <1>4 DEF InTurn, Chain, Below, Queued
<1>7. Rising(queue') /\ Queued' = Queued \cup {m}
  <2>1. queue' = Append(queue, m) /\ m \in Nat
    BY <1>2, <1>4
  <2>2. Rising(Append(queue, m)) /\ Coll!Msgs(Append(queue, m)) = Coll!Msgs(queue) \cup {m}
    BY <1>1, <1>6, <2>1, AppendRises
  <2>3. Queued' = Coll!Msgs(queue')
    BY DEF Queued, Coll!Msgs
  <2>. QED
    BY <2>1, <2>2, <2>3 DEF Queued
<1>8. Apart(Coll!Unread', Queued', Coll!InHand', DOMAIN end', DOMAIN what')
  BY <1>1, <1>4, <1>5, <1>7 DEF Apart
<1>9. PostsSound'
  BY <1>1, <1>5 DEF PostsSound
<1>10. InTurn'
  <2>1. Chain(Posts, Coll!InHand, Queued \cup {m}, Coll!Unread \ {m})
    BY <1>3, <1>4 DEF InTurn, Chain, Below
  <2>2. \A q \in Peers \ {One} : socket'[q] = <<>> /\ hand'[q] = 0
    BY <1>3, <1>4 DEF InTurn
  <2>. QED
    BY <1>3, <1>4, <1>5, <1>7, <2>1, <2>2 DEF InTurn
<1>. QED
  BY <1>4, <1>5, <1>7, <1>8, <1>9, <1>10 DEF PlacesSound

(* The worker takes the earliest trap.                                     *)
LEMMA CollWorks == PlacesSound /\ Coll!TakeTrap => PlacesSound'
<1> SUFFICES ASSUME PlacesSound, Coll!TakeTrap PROVE PlacesSound'
  OBVIOUS
<1>1. /\ SocketsSound /\ HandsSound /\ Rising(queue) /\ PostsSound
      /\ Apart(Coll!Unread, Queued, Coll!InHand, DOMAIN end, DOMAIN what)
  BY DEF PlacesSound
<1>2. UNCHANGED <<intake, socket, cancelled, what, end, wasPosted>> /\ intake = "trap" /\ queue # <<>>
  BY DEF Coll!TakeTrap
<1>3. One \in Peers /\ InTurn /\ Coll!TheSource = One /\ Coll!InHand = {hand[One]} \ {0}
  BY <1>2, OneSource
<1>4. PICK m : m = Head(queue)
  OBVIOUS
<1>5. hand[One] = 0 /\ hand' = [hand EXCEPT ![One] = m] /\ queue' = Tail(queue)
  BY <1>3, <1>4 DEF Coll!TakeTrap, Coll!NoMessage
<1>6. /\ Rising(queue') /\ m \in Queued /\ m \in Nat /\ Queued' = Queued \ {m}
      /\ \A x \in Queued : x \in Nat /\ (x = m \/ m < x)
  <2>1. /\ Rising(Tail(queue)) /\ m \in Coll!Msgs(queue) /\ m \in Nat
        /\ Coll!Msgs(Tail(queue)) = Coll!Msgs(queue) \ {m}
        /\ \A x \in Coll!Msgs(queue) : x \in Nat /\ (x = m \/ m < x)
    BY <1>1, <1>2, <1>4, TailRises
  <2>2. Queued' = Coll!Msgs(queue')
    BY DEF Queued, Coll!Msgs
  <2>. QED
    BY <1>5, <2>1, <2>2 DEF Queued
<1>7. m # 0
  <2>1. DOMAIN what = 1..Len(what) /\ m \in DOMAIN what
    BY <1>1, <1>6, OneMore DEF Apart, PlacesSound
  <2>. QED
    BY <2>1
<1>8. Coll!Unread' = Coll!Unread /\ SocketsSound' /\ Posts' = Posts
  BY <1>1, <1>2, PlacesStay
<1>9. Coll!InHand = {}
  BY <1>3, <1>5
<1>10. /\ HandsSound' /\ \A q \in Peers \ {One} : hand'[q] = hand[q]
       /\ Coll!InHand' = (Coll!InHand \ {hand[One]}) \cup ({m} \ {0})
  BY <1>1, <1>3, <1>5, <1>6, <1>9, HandChanges
<1>11. Coll!InHand' = {m}
  BY <1>7, <1>9, <1>10
<1>12. Apart(Coll!Unread', Queued', Coll!InHand', DOMAIN end', DOMAIN what')
  BY <1>1, <1>2, <1>6, <1>8, <1>9, <1>11 DEF Apart
<1>13. PostsSound'
  BY <1>1, <1>2, <1>8 DEF PostsSound
<1>14. InTurn'
  <2>1. Chain(Posts, {m}, Queued \ {m}, Coll!Unread)
    BY <1>3, <1>6 DEF InTurn, Chain, Below
  <2>2. \A q \in Peers \ {One} : socket'[q] = <<>> /\ hand'[q] = 0
    BY <1>2, <1>3, <1>10 DEF InTurn
  <2>. QED
    BY <1>2, <1>3, <1>6, <1>8, <1>11, <2>1, <2>2 DEF InTurn
<1>. QED
  BY <1>2, <1>6, <1>8, <1>10, <1>12, <1>13, <1>14 DEF PlacesSound

(* The message in hand is posted, or the failure logged: it is dealt with, *)
(* after those posted before it.                                           *)
LEMMA CollPosts ==
  ASSUME NEW p \in Peers, PlacesSound, Coll!Posted(p) \/ Coll!PostFails(p)
  PROVE  PlacesSound'
<1>1. /\ SocketsSound /\ HandsSound /\ Rising(queue) /\ PostsSound
      /\ Apart(Coll!Unread, Queued, Coll!InHand, DOMAIN end, DOMAIN what)
  BY DEF PlacesSound
<1>2. UNCHANGED <<intake, socket, queue, cancelled, what>>
  BY DEF Coll!Posted, Coll!PostFails
<1>3. PICK m : m = hand[p]
  OBVIOUS
<1>4. m # 0 /\ hand' = [hand EXCEPT ![p] = 0]
  BY <1>3 DEF Coll!Posted, Coll!PostFails, Coll!NoMessage
<1>5. PICK how \in {"posted", "failed"} : end' = Coll!Ends({m}, how)
  BY <1>3 DEF Coll!Posted, Coll!PostFails
<1>6. m \in Nat /\ m \in Coll!InHand
  BY <1>1, <1>3, <1>4 DEF HandsSound, Coll!InHand, Coll!NoMessage
<1>7. /\ HandsSound' /\ \A q \in Peers \ {p} : hand'[q] = hand[q]
      /\ Coll!InHand' = (Coll!InHand \ {m}) \cup ({0} \ {0}) /\ hand'[p] = 0
  BY <1>1, <1>3, <1>4, HandChanges
<1>8. Coll!InHand' = Coll!InHand \ {m}
  BY <1>7
<1>9. Coll!Unread' = Coll!Unread /\ SocketsSound' /\ Queued' = Queued
  BY <1>1, <1>2, PlacesStay
<1>10. DOMAIN end' = DOMAIN end \cup {m} /\ \A x \in DOMAIN end' : end'[x] = "lost" => cancelled'
  BY <1>2, <1>5, MessagesEnd
<1>11. Apart(Coll!Unread', Queued', Coll!InHand', DOMAIN end', DOMAIN what')
  BY <1>1, <1>2, <1>6, <1>8, <1>9, <1>10 DEF Apart
<1>12. intake # "tcp" => InTurn /\ p = One /\ Coll!InHand = {m}
  BY <1>3, <1>4, OneSource
<1>13. CASE wasPosted' = wasPosted
  <2>1. Posts' = Posts
    BY <1>13, PlacesStay
  <2>2. PostsSound' /\ (Rising(queue))'
    BY <1>1, <1>2, <1>10, <1>13, <2>1 DEF PostsSound
  <2>3. ASSUME intake # "tcp" PROVE InTurn'
    <3>1. InTurn /\ p = One
      BY <1>12, <2>3
    <3>2. Chain(Posts, Coll!InHand \ {m}, Queued, Coll!Unread)
      BY <3>1 DEF InTurn, Chain, Below
    <3>3. \A q \in Peers \ {One} : socket'[q] = <<>> /\ hand'[q] = 0
      BY <1>2, <1>7, <3>1 DEF InTurn
    <3>. QED
      BY <1>8, <1>9, <1>13, <2>1, <3>1, <3>2, <3>3 DEF InTurn
  <2>. QED
    BY <1>2, <1>7, <1>9, <1>10, <1>11, <2>2, <2>3 DEF PlacesSound
<1>14. CASE wasPosted' = Append(wasPosted, m)
  <2>1. PICK t : t = Append(wasPosted, m)
    OBVIOUS
  <2>2. /\ IsSeq(t) /\ Len(wasPosted) \in Nat /\ DOMAIN wasPosted = 1..Len(wasPosted)
        /\ DOMAIN t = 1..(Len(wasPosted) + 1) /\ t[Len(wasPosted) + 1] = m
        /\ \A i \in DOMAIN wasPosted : t[i] = wasPosted[i]
    BY <1>1, <2>1, OneMore DEF PostsSound
  <2>3. \A i \in DOMAIN t : i \in DOMAIN wasPosted \/ i = Len(wasPosted) + 1
    BY <2>2
  <2>4. \A x \in Coll!Msgs(t) : x \in Posts \cup {m}
    BY <2>2, <2>3 DEF Coll!Msgs, Posts
  <2>5. Posts' = Coll!Msgs(t)
    BY <1>14, <2>1 DEF Posts, Coll!Msgs
  <2>6. m \notin Posts
    BY <1>1, <1>6 DEF Apart, PostsSound
  <2>7. \A i \in DOMAIN wasPosted : t[i] # m
    BY <2>2, <2>6 DEF Posts, Coll!Msgs
  <2>8. \A i, j \in DOMAIN t : i # j => t[i] # t[j]
    <3> SUFFICES ASSUME NEW i \in DOMAIN t, NEW j \in DOMAIN t, i # j PROVE t[i] # t[j]
      OBVIOUS
    <3>1. CASE i \in DOMAIN wasPosted /\ j \in DOMAIN wasPosted
      BY <1>1, <2>2, <3>1 DEF PostsSound
    <3>2. CASE i = Len(wasPosted) + 1
      <4>1. j \in DOMAIN wasPosted
        BY <2>3, <3>2
      <4>. QED
        BY <2>2, <2>7, <3>2, <4>1
    <3>3. CASE j = Len(wasPosted) + 1
      <4>1. i \in DOMAIN wasPosted
        BY <2>3, <3>3
      <4>. QED
        BY <2>2, <2>7, <3>3, <4>1
    <3>. QED
      BY <2>3, <3>1, <3>2, <3>3
  <2>9. PostsSound' /\ (Rising(queue))'
    <3>1. Posts' \subseteq DOMAIN end'
      BY <1>1, <1>10, <2>4, <2>5 DEF PostsSound
    <3>. QED
      BY <1>1, <1>2, <1>14, <2>1, <2>2, <2>8, <3>1 DEF PostsSound
  <2>10. ASSUME intake # "tcp" PROVE InTurn'
    <3>1. InTurn /\ p = One /\ Coll!InHand = {m}
      BY <1>12, <2>10
    <3>2. \A x \in Coll!Msgs(wasPosted) : x < m
      BY <3>1 DEF InTurn, Chain, Below, Posts
    <3>3. Rising(t) /\ Coll!Msgs(t) = Posts \cup {m}
      BY <1>6, <2>1, <3>1, <3>2, AppendRises DEF InTurn, Posts
    <3>4. Chain(Posts \cup {m}, {}, Queued, Coll!Unread)
      BY <3>1 DEF InTurn, Chain, Below
    <3>5. \A q \in Peers \ {One} : socket'[q] = <<>> /\ hand'[q] = 0
      BY <1>2, <1>7, <3>1 DEF InTurn
    <3>6. Coll!InHand' = {} /\ Posts' = Posts \cup {m}
      BY <1>8, <2>5, <3>1, <3>3
    <3>. QED
      BY <1>9, <1>14, <2>1, <3>3, <3>4, <3>5, <3>6 DEF InTurn
  <2>. QED
    BY <1>2, <1>7, <1>9, <1>10, <1>11, <2>9, <2>10 DEF PlacesSound
<1>. QED
  BY <1>3, <1>13, <1>14 DEF Coll!Posted, Coll!PostFails

(* Run returns: what is queued is lost in the shutdown.                    *)
LEMMA CollReturns == PlacesSound /\ Coll!RunReturns => PlacesSound'
<1> SUFFICES ASSUME PlacesSound, Coll!RunReturns PROVE PlacesSound'
  OBVIOUS
<1>1. /\ SocketsSound /\ HandsSound /\ Rising(queue) /\ PostsSound
      /\ Apart(Coll!Unread, Queued, Coll!InHand, DOMAIN end, DOMAIN what)
  BY DEF PlacesSound
<1>2. /\ UNCHANGED <<intake, socket, hand, cancelled, what, wasPosted>> /\ cancelled
      /\ queue' = <<>>
  BY DEF Coll!RunReturns
<1>3. PICK ms : ms = Queued
  OBVIOUS
<1>4. end' = Coll!Ends(ms, "lost")
  BY <1>3 DEF Coll!RunReturns, Queued
<1>5. /\ Coll!Unread' = Coll!Unread /\ SocketsSound' /\ Posts' = Posts
      /\ Coll!InHand' = Coll!InHand /\ HandsSound'
  BY <1>1, <1>2, PlacesStay
<1>6. DOMAIN end' = DOMAIN end \cup ms /\ \A x \in DOMAIN end' : end'[x] = "lost" => cancelled'
  BY <1>2, <1>4, MessagesEnd
<1>7. Rising(queue') /\ Queued' = {}
  <2>1. Queued' = Coll!Msgs(queue')
    BY DEF Queued, Coll!Msgs
  <2>. QED
    BY <1>2, <2>1, NothingRises
<1>8. Apart(Coll!Unread', Queued', Coll!InHand', DOMAIN end', DOMAIN what')
  BY <1>1, <1>2, <1>3, <1>5, <1>6, <1>7 DEF Apart
<1>9. PostsSound'
  BY <1>1, <1>2, <1>5, <1>6 DEF PostsSound
<1>10. ASSUME intake # "tcp" PROVE InTurn'
  <2>1. InTurn
    BY <1>10 DEF PlacesSound
  <2>2. Chain(Posts, Coll!InHand, {}, Coll!Unread)
    BY <2>1 DEF InTurn, Chain, Below
  <2>. QED
    BY <1>2, <1>5, <1>7, <2>1, <2>2 DEF InTurn
<1>. QED
  BY <1>2, <1>5, <1>6, <1>7, <1>8, <1>9, <1>10 DEF PlacesSound

(* Steps that move no message.                                             *)
LEMMA CollRests ==
  ASSUME PlacesSound, UNCHANGED <<intake, socket, hand, queue, what, end, wasPosted>>, cancelled => cancelled'
  PROVE  PlacesSound'
<1>1. /\ SocketsSound /\ HandsSound /\ Rising(queue) /\ PostsSound
      /\ Apart(Coll!Unread, Queued, Coll!InHand, DOMAIN end, DOMAIN what)
  BY DEF PlacesSound
<1>2. /\ Coll!Unread' = Coll!Unread /\ SocketsSound' /\ Posts' = Posts
      /\ Coll!InHand' = Coll!InHand /\ HandsSound' /\ Queued' = Queued
  BY <1>1, PlacesStay
<1>3. PostsSound' /\ Rising(queue')
  BY <1>1, <1>2 DEF PostsSound
<1>4. ASSUME intake # "tcp" PROVE InTurn'
  BY <1>2, <1>4 DEF PlacesSound, InTurn
<1>5. IsSeq(what') /\ (intake' # "trap" => queue' = <<>>)
  BY DEF PlacesSound
<1>6. \A m \in DOMAIN end' : end'[m] = "lost" => cancelled'
  BY DEF PlacesSound
<1>. QED
  BY <1>1, <1>2, <1>3, <1>4, <1>5, <1>6 DEF PlacesSound

(* Every step keeps it.                                                    *)
LEMMA PlacesKept == PlacesSound /\ Coll!CollectNext => PlacesSound'
<1> SUFFICES ASSUME PlacesSound, Coll!CollectNext PROVE PlacesSound'
  OBVIOUS
<1>1. SocketsSound /\ HandsSound
  BY DEF PlacesSound
<1>2. ASSUME NEW p \in Peers, Coll!PeerCloses(p) PROVE PlacesSound'
  BY <1>2, CollRests DEF Coll!PeerCloses
<1>3. CASE Coll!CancelDaemon
  BY <1>3, CollRests DEF Coll!CancelDaemon
<1>4. ASSUME NEW p \in Peers, Coll!TakeNext(p) PROVE PlacesSound'
  <2>1. /\ socket[p] # <<>> /\ hand[p] = 0 /\ intake # "trap"
        /\ UNCHANGED <<intake, queue, cancelled, what, wasPosted>>
    BY <1>4 DEF Coll!TakeNext, Coll!NoMessage
  <2>2. CASE cancelled \/ Coll!Overlong(Head(socket[p]))
    <3>1. PICK how : how = IF Coll!Overlong(Head(socket[p])) THEN "cut" ELSE "lost"
      OBVIOUS
    <3>2. /\ end' = Coll!Ends(Coll!Msgs(socket[p]), how) /\ socket' = [socket EXCEPT ![p] = <<>>]
          /\ UNCHANGED hand /\ (how = "lost" => cancelled)
      BY <1>4, <2>2, <3>1 DEF Coll!TakeNext
    <3>. QED
      BY <2>1, <3>2, CollGivesUp
  <2>3. CASE ~(cancelled \/ Coll!Overlong(Head(socket[p])))
    <3>1. socket' = [socket EXCEPT ![p] = Tail(@)]
      BY <1>4, <2>3 DEF Coll!TakeNext
    <3>2. CASE end' = Coll!Ends({Head(socket[p])}, "refused") /\ UNCHANGED hand
      BY <2>1, <3>1, <3>2, CollRefuses
    <3>3. CASE hand' = [hand EXCEPT ![p] = Head(socket[p])] /\ UNCHANGED end
      BY <2>1, <3>1, <3>3, CollTakes
    <3>. QED
      BY <1>4, <2>3, <3>2, <3>3 DEF Coll!TakeNext
  <2>. QED
    BY <2>2, <2>3
<1>5. ASSUME NEW p \in Peers, Coll!ListenerEnds(p) PROVE PlacesSound'
  BY <1>5, CollGivesUp DEF Coll!ListenerEnds
<1>6. CASE Coll!Enqueue
  <2>1. intake = "trap" /\ UNCHANGED <<intake, hand, cancelled, what, wasPosted>>
    BY <1>6 DEF Coll!Enqueue
  <2>2. One \in Peers /\ Coll!TheSource = One
    BY <2>1, OneSource
  <2>3. socket[One] # <<>> /\ socket' = [socket EXCEPT ![One] = Tail(@)]
    BY <1>6, <2>2 DEF Coll!Enqueue
  <2>4. \/ end' = Coll!Ends({Head(socket[One])}, "refused") /\ UNCHANGED queue
        \/ end' = Coll!Ends({Head(socket[One])}, "dropped") /\ UNCHANGED queue
        \/ queue' = Append(queue, Head(socket[One])) /\ UNCHANGED end
    BY <1>6, <2>2 DEF Coll!Enqueue
  <2>5. CASE end' = Coll!Ends({Head(socket[One])}, "refused") /\ UNCHANGED queue
    BY <2>1, <2>2, <2>3, <2>5, CollRefuses
  <2>6. CASE end' = Coll!Ends({Head(socket[One])}, "dropped") /\ UNCHANGED queue
    BY <2>1, <2>2, <2>3, <2>6, CollRefuses
  <2>7. CASE queue' = Append(queue, Head(socket[One])) /\ UNCHANGED end
    BY <2>1, <2>3, <2>7, CollQueues
  <2>. QED
    BY <2>4, <2>5, <2>6, <2>7
<1>. QED
  BY <1>2, <1>3, <1>4, <1>5, <1>6, CollArrives, CollPosts, CollWorks, CollReturns
     DEF Coll!CollectNext, Coll!CollectStep, Coll!Work

\* What is unread came from the peer of its socket, and what was cut came after
\* an overlong line of its own peer, or is one.
CutsSound ==
    /\ \A p \in Peers : \A x \in Coll!Msgs(socket[p]) : x \in DOMAIN what /\ what[x].from = p
    /\ \A m \in DOMAIN end : end[m] = "cut" =>
          m \in DOMAIN what /\ \E l \in DOMAIN what : l <= m /\ what[l].from = what[m].from /\ Coll!Overlong(l)

CollInv == PlacesSound /\ CutsSound

(* Steps that read or give up messages cut none.                           *)
LEMMA CutsStay ==
  ASSUME CutsSound, what' = what,
         \A p \in Peers : Coll!Msgs(socket'[p]) \subseteq Coll!Msgs(socket[p]),
         \A m \in DOMAIN end' : (m \in DOMAIN end /\ end'[m] = end[m]) \/ end'[m] # "cut"
  PROVE  CutsSound'
<1>1. \A p \in Peers : \A x \in Coll!Msgs(socket'[p]) : x \in DOMAIN what' /\ what'[x].from = p
  BY DEF CutsSound
<1>2. \A l : Coll!Overlong(l)' <=> Coll!Overlong(l)
  BY DEF Coll!Overlong
<1>3. ASSUME NEW m \in DOMAIN end', end'[m] = "cut"
      PROVE  m \in DOMAIN what' /\ \E l \in DOMAIN what' : l <= m /\ what'[l].from = what'[m].from /\ Coll!Overlong(l)'
  BY <1>2, <1>3 DEF CutsSound
<1>4. \A p : Coll!Msgs(socket[p])' = Coll!Msgs(socket'[p])
  BY DEF Coll!Msgs
<1>. QED
  BY <1>1, <1>3, <1>4 DEF CutsSound

(* A socket that is read or given up holds nothing new.                    *)
LEMMA SocketShrinks ==
  ASSUME PlacesSound, NEW p \in Peers,
         \/ socket' = [socket EXCEPT ![p] = <<>>]
         \/ socket[p] # <<>> /\ socket' = [socket EXCEPT ![p] = Tail(@)]
  PROVE  \A q \in Peers : Coll!Msgs(socket'[q]) \subseteq Coll!Msgs(socket[q])
<1>1. socket = [q \in Peers |-> socket[q]] /\ Rising(socket[p])
  BY DEF PlacesSound, SocketsSound
<1>2. CASE socket' = [socket EXCEPT ![p] = <<>>]
  <2>1. socket'[p] = <<>> /\ \A q \in Peers \ {p} : socket'[q] = socket[q]
    BY <1>1, <1>2
  <2>. QED
    BY <2>1, NothingRises
<1>3. CASE socket[p] # <<>> /\ socket' = [socket EXCEPT ![p] = Tail(@)]
  <2>1. socket'[p] = Tail(socket[p]) /\ \A q \in Peers \ {p} : socket'[q] = socket[q]
    BY <1>1, <1>3
  <2>2. Coll!Msgs(Tail(socket[p])) \subseteq Coll!Msgs(socket[p])
    BY <1>1, <1>3, TailRises
  <2>. QED
    BY <2>1, <2>2
<1>. QED
  BY <1>2, <1>3

(* A message arrives on the socket of its peer.                            *)
LEMMA CutsArrive ==
  ASSUME NEW p \in Peers, PlacesSound, CutsSound, Coll!Arrive(p)
  PROVE  CutsSound'
<1>1. PICK k : what' = Append(what, [from |-> p, kind |-> k])
  BY DEF Coll!Arrive
<1>2. PICK n : n = Len(what) + 1
  OBVIOUS
<1>3. /\ socket' = [socket EXCEPT ![p] = Append(@, n)] /\ end' = end
      /\ socket = [q \in Peers |-> socket[q]] /\ Rising(socket[p]) /\ IsSeq(what)
  BY <1>2 DEF Coll!Arrive, PlacesSound, SocketsSound
<1>4. /\ DOMAIN what' = DOMAIN what \cup {n} /\ n \in Nat
      /\ what'[n] = [from |-> p, kind |-> k] /\ \A x \in DOMAIN what : what'[x] = what[x]
  <2>1. /\ Len(what) \in Nat /\ DOMAIN what = 1..Len(what) /\ DOMAIN what' = 1..(Len(what) + 1)
        /\ what'[Len(what) + 1] = [from |-> p, kind |-> k] /\ \A x \in DOMAIN what : what'[x] = what[x]
    BY <1>1, <1>3, OneMore
  <2>. QED
    BY <1>2, <2>1
<1>5. /\ \A q \in Peers \ {p} : socket'[q] = socket[q]
      /\ \A x \in Coll!Msgs(socket'[p]) : x \in Coll!Msgs(socket[p]) \/ x = n
  <2>1. socket'[p] = Append(socket[p], n) /\ \A q \in Peers \ {p} : socket'[q] = socket[q]
    BY <1>3
  <2>2. \A i \in DOMAIN Append(socket[p], n) :
            (i \in DOMAIN socket[p] /\ Append(socket[p], n)[i] = socket[p][i]) \/ Append(socket[p], n)[i] = n
    BY <1>3, OneAdded DEF Rising
  <2>. QED
    BY <2>1, <2>2 DEF Coll!Msgs
<1>6. \A q \in Peers : \A x \in Coll!Msgs(socket'[q]) : x \in DOMAIN what' /\ what'[x].from = q
  <2> SUFFICES ASSUME NEW q \in Peers, NEW x \in Coll!Msgs(socket'[q])
               PROVE  x \in DOMAIN what' /\ what'[x].from = q
    OBVIOUS
  <2>1. CASE x \in Coll!Msgs(socket[q])
    BY <1>4, <2>1 DEF CutsSound
  <2>2. CASE x = n /\ q = p
    <3>1. what'[n].from = p
      BY <1>4
    <3>. QED
      BY <1>4, <2>2, <3>1
  <2>. QED
    BY <1>5, <2>1, <2>2
<1>7. \A l \in DOMAIN what : Coll!Overlong(l)' <=> Coll!Overlong(l)
  BY <1>4 DEF Coll!Overlong
<1>8. ASSUME NEW m \in DOMAIN end', end'[m] = "cut"
      PROVE  m \in DOMAIN what' /\ \E l \in DOMAIN what' : l <= m /\ what'[l].from = what'[m].from /\ Coll!Overlong(l)'
  BY <1>3, <1>4, <1>7, <1>8 DEF CutsSound
<1>9. \A q : Coll!Msgs(socket[q])' = Coll!Msgs(socket'[q])
  BY DEF Coll!Msgs
<1>. QED
  BY <1>6, <1>8, <1>9 DEF CutsSound

(* At an overlong line its socket is given up: it is the earliest there.   *)
LEMMA CutsMade ==
  ASSUME NEW p \in Peers, PlacesSound, CutsSound, Coll!TakeNext(p), Coll!Overlong(Head(socket[p]))
  PROVE  CutsSound'
<1>1. /\ socket[p] # <<>> /\ what' = what /\ socket' = [socket EXCEPT ![p] = <<>>]
      /\ end' = [m \in DOMAIN end \cup Coll!Msgs(socket[p]) |-> IF m \in Coll!Msgs(socket[p]) THEN "cut" ELSE end[m]]
  BY DEF Coll!TakeNext, Coll!Ends
<1>2. PICK h : h = Head(socket[p])
  OBVIOUS
<1>3. h \in Coll!Msgs(socket[p]) /\ \A x \in Coll!Msgs(socket[p]) : x \in Nat /\ h <= x
  <2>1. /\ Head(socket[p]) \in Coll!Msgs(socket[p]) /\ Head(socket[p]) \in Nat
        /\ \A x \in Coll!Msgs(socket[p]) : x \in Nat /\ (x = Head(socket[p]) \/ Head(socket[p]) < x)
    BY <1>1, TailRises DEF PlacesSound, SocketsSound
  <2>. QED
    BY <1>2, <2>1
<1>4. \A q \in Peers : \A x \in Coll!Msgs(socket'[q]) : x \in DOMAIN what' /\ what'[x].from = q
  <2>1. \A q \in Peers : Coll!Msgs(socket'[q]) \subseteq Coll!Msgs(socket[q])
    BY <1>1, SocketShrinks
  <2>. QED
    BY <1>1, <2>1 DEF CutsSound
<1>5. \A l : Coll!Overlong(l)' <=> Coll!Overlong(l)
  BY <1>1 DEF Coll!Overlong
<1>6. ASSUME NEW m \in DOMAIN end', end'[m] = "cut"
      PROVE  m \in DOMAIN what' /\ \E l \in DOMAIN what' : l <= m /\ what'[l].from = what'[m].from /\ Coll!Overlong(l)'
  <2>1. CASE m \in Coll!Msgs(socket[p])
    <3>1. h \in DOMAIN what /\ m \in DOMAIN what /\ what[h].from = p /\ what[m].from = p /\ h <= m
      BY <1>3, <2>1 DEF CutsSound
    <3>. QED
      BY <1>1, <1>2, <1>5, <3>1
  <2>2. CASE m \notin Coll!Msgs(socket[p])
    BY <1>1, <1>5, <1>6, <2>2 DEF CutsSound
  <2>. QED
    BY <2>1, <2>2
<1>7. \A q : Coll!Msgs(socket[q])' = Coll!Msgs(socket'[q])
  BY DEF Coll!Msgs
<1>. QED
  BY <1>4, <1>6, <1>7 DEF CutsSound

(* Every step keeps what was cut accounted for.                            *)
LEMMA CutsKept == PlacesSound /\ CutsSound /\ Coll!CollectNext => CutsSound'
<1> SUFFICES ASSUME PlacesSound, CutsSound, Coll!CollectNext PROVE CutsSound'
  OBVIOUS
<1>0. ASSUME NEW ms, NEW how, end' = Coll!Ends(ms, how), how # "cut"
      PROVE  \A m \in DOMAIN end' : (m \in DOMAIN end /\ end'[m] = end[m]) \/ end'[m] # "cut"
  BY <1>0 DEF Coll!Ends
<1>1. ASSUME socket' = socket PROVE \A q \in Peers : Coll!Msgs(socket'[q]) \subseteq Coll!Msgs(socket[q])
  BY <1>1
<1>2. ASSUME NEW p \in Peers, Coll!PeerCloses(p) \/ Coll!CancelDaemon PROVE CutsSound'
  BY <1>1, <1>2, CutsStay DEF Coll!PeerCloses, Coll!CancelDaemon
<1>3. ASSUME NEW p \in Peers, Coll!Posted(p) \/ Coll!PostFails(p) PROVE CutsSound'
  <2>1. \E how \in {"posted", "failed"} : end' = Coll!Ends({hand[p]}, how)
    BY <1>3 DEF Coll!Posted, Coll!PostFails
  <2>2. socket' = socket /\ what' = what
    BY <1>3 DEF Coll!Posted, Coll!PostFails
  <2>. QED
    BY <1>0, <1>1, <2>1, <2>2, CutsStay
<1>4. ASSUME NEW p \in Peers, Coll!ListenerEnds(p) PROVE CutsSound'
  <2>1. end' = Coll!Ends(Coll!Msgs(socket[p]), "lost") /\ what' = what /\ socket' = [socket EXCEPT ![p] = <<>>]
    BY <1>4 DEF Coll!ListenerEnds
  <2>. QED
    BY <1>0, <2>1, SocketShrinks, CutsStay
<1>5. ASSUME NEW p \in Peers, Coll!TakeNext(p) PROVE CutsSound'
  <2>1. CASE Coll!Overlong(Head(socket[p]))
    BY <1>5, <2>1, CutsMade
  <2>2. CASE ~Coll!Overlong(Head(socket[p]))
    <3>1. /\ what' = what /\ socket[p] # <<>>
          /\ socket' = [socket EXCEPT ![p] = <<>>] \/ socket' = [socket EXCEPT ![p] = Tail(@)]
      BY <1>5 DEF Coll!TakeNext
    <3>2. \/ end' = Coll!Ends(Coll!Msgs(socket[p]), "lost") \/ end' = end
          \/ end' = Coll!Ends({Head(socket[p])}, "refused")
      BY <1>5, <2>2 DEF Coll!TakeNext
    <3>3. \A m \in DOMAIN end' : (m \in DOMAIN end /\ end'[m] = end[m]) \/ end'[m] # "cut"
      BY <1>0, <3>2
    <3>. QED
      BY <3>1, <3>3, SocketShrinks, CutsStay
  <2>. QED
    BY <2>1, <2>2
<1>6. CASE Coll!Enqueue
  <2>1. intake # "tcp" /\ what' = what
    BY <1>6 DEF Coll!Enqueue
  <2>2. One \in Peers /\ Coll!TheSource = One
    BY <2>1, OneSource
  <2>3. socket[One] # <<>> /\ socket' = [socket EXCEPT ![One] = Tail(@)]
    BY <1>6, <2>2 DEF Coll!Enqueue
  <2>4. \/ \E how \in {"refused", "dropped"} : end' = Coll!Ends({Head(socket[One])}, how)
        \/ end' = end
    BY <1>6, <2>2 DEF Coll!Enqueue
  <2>5. \A m \in DOMAIN end' : (m \in DOMAIN end /\ end'[m] = end[m]) \/ end'[m] # "cut"
    BY <1>0, <2>4
  <2>. QED
    BY <2>1, <2>2, <2>3, <2>5, SocketShrinks, CutsStay
<1>7. CASE Coll!TakeTrap \/ Coll!RunReturns
  <2>1. socket' = socket /\ what' = what /\ (end' = end \/ end' = Coll!Ends(Coll!Msgs(queue), "lost"))
    BY <1>7 DEF Coll!TakeTrap, Coll!RunReturns
  <2>. QED
    BY <1>0, <1>1, <2>1, CutsStay
<1>8. CASE Coll!CancelDaemon
  BY <1>1, <1>8, CutsStay DEF Coll!CancelDaemon
<1>. QED
  BY <1>2, <1>3, <1>4, <1>5, <1>6, <1>7, <1>8, CutsArrive DEF Coll!CollectNext, Coll!CollectStep, Coll!Work

(* The collectors begin with nothing, and every step keeps both parts.     *)
LEMMA CollStart == Coll!CollectInit => CollInv
<1> SUFFICES ASSUME Coll!CollectInit PROVE CutsSound
  BY PlacesStart DEF CollInv
<1>1. socket = [p \in Peers |-> <<>>] /\ end = <<>> /\ DOMAIN <<>> = {} /\ Coll!Msgs(<<>>) = {}
  BY NothingRises, EmptySeq DEF Coll!CollectInit
<1>. QED
  BY <1>1 DEF CutsSound

LEMMA CollKept == CollInv /\ Coll!CollectNext => CollInv'
BY PlacesKept, CutsKept DEF CollInv

(* The collectors count sets as everybody does.                            *)
LEMMA SameCount == ASSUME NEW S PROVE Coll!Cardinality(S) = Cardinality(S)
BY Zenon DEF Coll!Cardinality, Cardinality

(* A message is in one place, and posted once and in its turn.             *)
LEMMA CollFollows == CollInv => CollectedOnce
<1> SUFFICES ASSUME CollInv PROVE CollectedOnce
  OBVIOUS
<1>1. Apart(Coll!Unread, Queued, Coll!InHand, DOMAIN end, DOMAIN what) /\ PostsSound
  BY DEF CollInv, PlacesSound
<1>2. ASSUME NEW m \in DOMAIN what
      PROVE  Coll!Cardinality({s \in {"unread", "queued", "hand", "end"} :
                 \/ s = "unread" /\ m \in Coll!Unread
                 \/ s = "queued" /\ m \in Coll!Msgs(queue)
                 \/ s = "hand" /\ m \in Coll!InHand
                 \/ s = "end" /\ m \in DOMAIN end}) = 1
  <2>1. PICK S : S = {s \in {"unread", "queued", "hand", "end"} :
                 \/ s = "unread" /\ m \in Coll!Unread
                 \/ s = "queued" /\ m \in Coll!Msgs(queue)
                 \/ s = "hand" /\ m \in Coll!InHand
                 \/ s = "end" /\ m \in DOMAIN end}
    OBVIOUS
  <2>2. \E x : S = {x}
    <3>1. \/ m \in Coll!Unread /\ m \notin Queued /\ m \notin Coll!InHand /\ m \notin DOMAIN end
          \/ m \notin Coll!Unread /\ m \in Queued /\ m \notin Coll!InHand /\ m \notin DOMAIN end
          \/ m \notin Coll!Unread /\ m \notin Queued /\ m \in Coll!InHand /\ m \notin DOMAIN end
          \/ m \notin Coll!Unread /\ m \notin Queued /\ m \notin Coll!InHand /\ m \in DOMAIN end
      BY <1>1, <1>2 DEF Apart
    <3>2. S = {"unread"} \/ S = {"queued"} \/ S = {"hand"} \/ S = {"end"}
      BY <2>1, <3>1 DEF Queued
    <3>. QED
      BY <3>2
  <2>3. Coll!Cardinality(S) = 1
    BY <2>2, FS_Singleton, SameCount
  <2>. QED
    BY <2>1, <2>3
<1>3. \A m \in DOMAIN end :
         /\ end[m] = "lost" => cancelled
         /\ end[m] = "cut" => \E l \in DOMAIN what : l <= m /\ what[l].from = what[m].from /\ Coll!Overlong(l)
  BY DEF CollInv, PlacesSound, CutsSound
<1>4. \A i, j \in DOMAIN wasPosted :
         i < j => wasPosted[i] # wasPosted[j] /\ (intake # "tcp" => wasPosted[i] < wasPosted[j])
  <2>1. \A i \in DOMAIN wasPosted : i \in Nat
    BY <1>1, OneMore DEF PostsSound
  <2>2. intake # "tcp" => Rising(wasPosted)
    BY DEF CollInv, PlacesSound, InTurn
  <2>. QED
    BY <1>1, <2>1, <2>2 DEF PostsSound, Rising
<1>. QED
  BY <1>2, <1>3, <1>4, Zenon DEF CollectedOnce, Coll!CollectedOnce

-----------------------------------------------------------------------------
(* The programs side by side: each moves alone.                            *)

BridgesInv == RelpInv /\ SmtpInv /\ ClientInv /\ GraphInv /\ TeamsInv

(* A program that does not move keeps what it has.                         *)
LEMMA IdleKeeps ==
  /\ RelpInv /\ UNCHANGED relp => RelpInv'
  /\ SmtpInv /\ UNCHANGED smtp => SmtpInv'
  /\ ClientInv /\ UNCHANGED cli => ClientInv'
  /\ GraphInv /\ UNCHANGED graph => GraphInv'
  /\ TeamsInv /\ UNCHANGED teams => TeamsInv'
<1>1. RelpInv /\ UNCHANGED relp => RelpInv'
  BY DEF relp, RelpInv
<1>2. SmtpInv /\ UNCHANGED smtp => SmtpInv'
  BY DEF smtp, SmtpInv
<1>3. ClientInv /\ UNCHANGED cli => ClientInv'
  BY DEF cli, ClientInv, ClientTyped, ClientCounts, ClientAuth
<1>4. GraphInv /\ UNCHANGED graph => GraphInv'
  BY DEF graph, GraphInv
<1>5. TeamsInv /\ UNCHANGED teams => TeamsInv'
  <2> SUFFICES ASSUME TeamsInv, UNCHANGED teams PROVE TeamsInv'
    OBVIOUS
  <2>1. chat' = chat /\ acts' = acts /\ alertReq' = alertReq /\ polling' = polling
    BY DEF teams
  <2>2. ChatInv' /\ RequestInv'
    BY <2>1, PollerQuiet DEF ActsGrow
  <2>3. PollInv'
    BY <2>1 DEF TeamsInv, PollInv, Done
  <2>. QED
    BY <2>2, <2>3 DEF TeamsInv
<1>. QED
  BY <1>1, <1>2, <1>3, <1>4, <1>5

(* Every start is one of these, and every step leads to another.           *)
LEMMA BridgesStart == Init => BridgesInv
BY RelpStart, SmtpStart, ClientStart, GraphStart, TeamsStart DEF Init, BridgesInv

(* Whichever program moves, its own invariant is kept and the others idle. *)
LEMMA BridgesKept == BridgesInv /\ [Next]_vars => BridgesInv'
<1> SUFFICES ASSUME BridgesInv, [Next]_vars PROVE BridgesInv'
  OBVIOUS
<1>0. RelpInv /\ SmtpInv /\ ClientInv /\ GraphInv /\ TeamsInv
  BY DEF BridgesInv
<1>1. UNCHANGED <<relp, smtp, cli, graph, teams>> => BridgesInv'
  BY <1>0, IdleKeeps DEF BridgesInv
<1>2. CASE InRelp(RelpD!RelpNext)
  <2>1. RelpD!RelpNext /\ UNCHANGED <<smtp, cli, graph, teams>>
    BY <1>2 DEF InRelp, others
  <2>. QED
    BY <1>0, <2>1, RelpKept, IdleKeeps DEF BridgesInv
<1>3. CASE InSmtp(Smtp!SmtpNext)
  <2>1. Smtp!SmtpNext /\ UNCHANGED <<relp, cli, graph, teams>>
    BY <1>3 DEF InSmtp, Still
  <2>. QED
    BY <1>0, <2>1, SmtpKept, IdleKeeps DEF BridgesInv
<1>4. CASE InCli(Cli!ClientNext)
  <2>1. Cli!ClientNext /\ UNCHANGED <<relp, smtp, graph, teams>>
    BY <1>4 DEF InCli, Still
  <2>. QED
    BY <1>0, <2>1, ClientKept, IdleKeeps DEF BridgesInv
<1>5. CASE InGraph(Graph!GraphNext)
  <2>1. Graph!GraphNext /\ UNCHANGED <<relp, smtp, cli, teams>>
    BY <1>5 DEF InGraph, Still
  <2>. QED
    BY <1>0, <2>1, GraphKept, IdleKeeps DEF BridgesInv
<1>6. CASE InTeams(Teams!TeamsNext)
  <2>1. Teams!TeamsNext /\ UNCHANGED <<relp, smtp, cli, graph>>
    BY <1>6 DEF InTeams, Still
  <2>. QED
    BY <1>0, <2>1, TeamsKept, IdleKeeps DEF BridgesInv
<1>7. CASE InJira(Jira!JiraNext)
  BY <1>1, <1>7 DEF InJira, others
<1>8. CASE InKube(Kube!KubeNext)
  BY <1>1, <1>8 DEF InKube, others
<1>9. CASE InFrames(\E f \in MCFrames : AddFrame(f))
  BY <1>1, <1>9 DEF InFrames, others
<1>10. CASE InColl(Coll!CollectNext)
  BY <1>1, <1>10 DEF InColl, Still
<1>11. CASE InFeed(Feed!FeedNext)
  BY <1>1, <1>11 DEF InFeed, Still
<1>12. CASE UNCHANGED vars
  BY <1>1, <1>12 DEF vars, others
<1>. QED
  BY <1>2, <1>3, <1>4, <1>5, <1>6, <1>7, <1>8, <1>9, <1>10, <1>11, <1>12 DEF Next

(* A request without a channel left is answered by what its channels show. *)
LEMMA TeamsTells == TeamsInv => ToldWasDone
<1> SUFFICES ASSUME TeamsInv PROVE Teams!ToldWasDone
  BY DEF ToldWasDone
<1>1. \A k \in DOMAIN chat[Home] :
         Teams!isSelfMessage(chat[Home][k]) /\ chat[Home][k].verb = "ok" =>
            \E i \in DOMAIN acts : acts[i].id = chat[Home][k].re
  BY DEF TeamsInv, ChatInv, Done, Teams!isSelfMessage
<1>2. ASSUME alertReq.step = "post", alertReq.todo = {}, NEW ch \in Teams!Refs(alertReq.body),
             ch \notin alertReq.failed
      PROVE  chat[ch][alertReq.posted[ch]].about =
                {alertReq.body[i].alert : i \in {i \in DOMAIN alertReq.body :
                                                    ch \in Teams!ToSet(alertReq.body[i].channels)}}
  <2>1. Underway(alertReq)
    BY <1>2, RequestAt DEF TeamsInv
  <2>2. Shows(ch, alertReq)
    BY <1>2, <2>1 DEF Underway
  <2>. QED
    BY <2>2 DEF Shows, Teams!Alerts, Teams!Group
<1>. QED
  BY <1>1, <1>2 DEF Teams!ToldWasDone

(* What a sender was told was accepted is on the server, for any payloads, *)
(* bodies, calls, channels and bounds. A RELP acknowledgement is of a      *)
(* payload PostAlert took, even when it answers on a later connection      *)
(* (dispatch); a mail the peer was told is accepted was forwarded, as it   *)
(* was meant after dot-stuffing unless a message of its session timed out  *)
(* before its end, and even then only from those who may send (handleDATA, *)
(* handleMAIL); a call of the client ends in success only if the server    *)
(* took it, after at most MaxRetries + 1 requests, and a client with       *)
(* credentials ends unauthorised only if a token was withdrawn or its      *)
(* ingest token refused, which no login helps (Do, Login); a chat is told  *)
(* "ok" and a channel answered as delivered only for what was done         *)
(* (replyOnce, handleAlert); and a Graph request is sent twice at most     *)
(* (doJSON).                                                               *)
THEOREM AnsweredIsForwarded == Spec => []AnsweredWasForwarded
<1>1. BridgesInv => AnsweredWasForwarded
  <2> SUFFICES ASSUME BridgesInv PROVE AnsweredWasForwarded
    OBVIOUS
  <2>1. RelpAckedWasPosted
    BY DEF BridgesInv, RelpInv, RelpAckedWasPosted, RelpD!RelpAckedWasPosted
  <2>2. MailAsMeant /\ MailAccepted /\ MailAllowed
    BY DEF BridgesInv, SmtpInv, Entitled, MeantFor, MailAsMeant, MailAccepted, MailAllowed, Smtp!MailAsMeant,
       Smtp!MailAccepted, Smtp!MailAllowed
  <2>3. ClientOkWasTaken
    BY DEF BridgesInv, ClientInv, ClientCounts, CountSound, ClientOkWasTaken, Cli!ClientOkWasTaken
  <2>4. ReloginHelps
    BY DEF BridgesInv, ClientInv, ClientAuth, AuthSound, ReloginHelps, Cli!ReloginHelps, Cli!canRelogin
  <2>5. ToldWasDone
    BY TeamsTells DEF BridgesInv
  <2>6. SentTwiceAtMost
    BY DEF BridgesInv, GraphInv, SendsSound, SentTwiceAtMost, Graph!SentTwiceAtMost
  <2>. QED
    BY <2>1, <2>2, <2>3, <2>4, <2>5, <2>6 DEF AnsweredWasForwarded
<1>. QED
  BY <1>1, BridgesStart, BridgesKept, PTL DEF Spec
=============================================================================

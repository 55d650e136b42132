----------------------------- MODULE SmtpServer -----------------------------
(* snooze-smtp: one session, from the greeting to its end, and what becomes  *)
(* of the mail it accepts.                                                   *)
EXTENDS Naturals, Sequences, SequencesExt

CONSTANTS
    Senders,           \* addresses MAIL may name
    AllowedSenders,    \* senderAllowed
    Rcpts,
    Bodies,            \* messages as the peer means them: sequences of lines
    MaxMessageBytes,
    AuthRequired,      \* auth_required, with a user configured
    HasTLS,            \* a certificate is configured
    MaxCommands, MaxMailFaults

VARIABLES
    sess,      \* "closed" or the session's fields
    peer,      \* what the replies told the peer: its envelope, its login
    reply,     \* the code of the last reply
    mails,     \* messages handed to the forwarder: [from, to, auth, body]
    meant,     \* the peer's view of each of those messages, or Unmeant
    taken,     \* indexes of mails whose alert the server has
    told,      \* indexes of mails whose peer was told they were accepted
    commands, mfaults

smtpVars == <<sess, peer, reply, mails, meant, taken, told, commands, mfaults>>

NoSession == [open |-> FALSE]
NoMail == ""
Clear == [open |-> TRUE, tls |-> FALSE, helo |-> FALSE, auth |-> FALSE,
          from |-> NoMail, to |-> <<>>,
          astray |-> FALSE]   \* lines of a message have been read as commands
Nobody == [from |-> NoMail, to |-> <<>>, auth |-> FALSE]
Unmeant == [from |-> NoMail]

(************************************ DATA ***********************************)

EndOfData == <<".">>

\* The peer doubles a leading dot and ends with a dot alone (RFC 5321).
Stuffed(body) ==
    [i \in DOMAIN body |-> IF body[i] # <<>> /\ body[i][1] = "." THEN <<".">> \o body[i] ELSE body[i]]
        \o <<EndOfData>>

isDotLine(line) == line = EndOfData

\* Mutant: the dots are kept.
UnstuffedKeeps(line) == line

\* Dot-stuffing reversed.
Unstuffed(line) == IF line # <<>> /\ line[1] = "." THEN Tail(line) ELSE line

Bytes(lines) == FoldLeft(LAMBDA n, line : n + Len(line) + 2, 0, lines)

\* readDataBlob: the lines up to the dot, or one too many bytes; a message too
\* large is read to its end all the same (drainUntilDot).
readDataBlob(wire) ==
    LET n == CHOOSE n \in DOMAIN wire : isDotLine(wire[n]) /\ \A k \in 1..(n - 1) : ~isDotLine(wire[k])
        body == [k \in 1..(n - 1) |-> Unstuffed(wire[k])]
    IN  IF Bytes(body) > MaxMessageBytes THEN [tag |-> "toolarge"] ELSE [tag |-> "ok", body |-> body]

(********************************** commands *********************************)

Command == /\ sess.open /\ commands < MaxCommands /\ commands' = commands + 1
Kept == UNCHANGED <<mails, meant, taken, told, mfaults>>

Connect ==
    /\ ~sess.open /\ commands < MaxCommands
    /\ sess' = Clear /\ peer' = Nobody /\ reply' = 220
    /\ UNCHANGED commands /\ Kept

HELO ==
    /\ Command /\ sess' = [sess EXCEPT !.helo = TRUE] /\ reply' = 250
    /\ UNCHANGED peer /\ Kept

\* Mutant: the envelope and the login of the plain connection are kept.
EncryptedKeeps == [sess EXCEPT !.tls = TRUE]

\* The session starts over on the encrypted connection.
Encrypted == [Clear EXCEPT !.tls = TRUE, !.astray = sess.astray]

STARTTLS ==
    /\ Command /\ Kept
    /\ IF HasTLS /\ ~sess.tls
       THEN reply' = 220 /\ sess' = Encrypted /\ peer' = Nobody
       ELSE reply' = (IF HasTLS THEN 503 ELSE 502) /\ UNCHANGED <<sess, peer>>

\* acceptAuth: a wrong mechanism, encoding or password is refused.
AUTH ==
    /\ Command /\ Kept
    /\ \/ /\ AuthRequired /\ reply' = 235
          /\ sess' = [sess EXCEPT !.auth = TRUE] /\ peer' = [peer EXCEPT !.auth = TRUE]
       \/ /\ reply' = IF AuthRequired THEN 535 ELSE 502
          /\ UNCHANGED <<sess, peer>>

\* Mutant: the recipients of the last envelope stay.
StartedKeeps(s) == [sess EXCEPT !.from = s]

\* An accepted MAIL starts an envelope; a refused one leaves the last.
Started(s) == [sess EXCEPT !.from = s, !.to = <<>>]

\* Mutant: an encrypted connection is good enough.
MayMailEncrypted == ~AuthRequired \/ sess.auth \/ sess.tls

MayMail == ~AuthRequired \/ sess.auth

handleMAIL(s) ==
    /\ Command /\ Kept
    /\ CASE ~MayMail -> reply' = 530 /\ UNCHANGED <<sess, peer>>
         [] MayMail /\ s \notin AllowedSenders ->
              reply' = 550 /\ UNCHANGED <<sess, peer>>
         [] OTHER ->
              /\ reply' = 250 /\ sess' = Started(s)
              /\ peer' = [peer EXCEPT !.from = s, !.to = <<>>]

handleRCPT(r) ==
    /\ Command /\ Kept
    /\ IF sess.from = NoMail THEN reply' = 503 /\ UNCHANGED <<sess, peer>>
       ELSE /\ reply' = 250 /\ sess' = [sess EXCEPT !.to = Append(@, r)]
            /\ peer' = [peer EXCEPT !.to = Append(@, r)]

RSET ==
    /\ Command /\ Kept
    /\ reply' = 250 /\ sess' = [sess EXCEPT !.from = NoMail, !.to = <<>>]
    /\ peer' = [peer EXCEPT !.from = NoMail, !.to = <<>>]

\* NOOP, and the commands that are refused.
Other ==
    /\ Command /\ Kept
    /\ reply' \in {250, 500, 501, 502} /\ UNCHANGED <<sess, peer>>

\* Mutant: the envelope outlives the message.
EndedKeeps == sess

Ended == [sess EXCEPT !.from = NoMail, !.to = <<>>]

\* Mutant: the reply does not wait for the handler.
HandlerReplyEarly(ok) == 250

\* The reply once the handler has returned.
HandlerReply(ok) == IF ok THEN 250 ELSE 451

\* Forward maps the mail, malformed or not, to an alert and posts it; a failed
\* post may still have reached the server.
Forward(i) ==
    \/ reply' = HandlerReply(TRUE) /\ taken' = taken \cup {i} /\ UNCHANGED mfaults
    \/ /\ mfaults < MaxMailFaults /\ mfaults' = mfaults + 1
       /\ reply' = HandlerReply(FALSE)
       /\ taken' \in {taken, taken \cup {i}}

handleDATA(body) ==
    /\ Command
    /\ IF sess.from = NoMail \/ sess.to = <<>>
       THEN reply' = 503 /\ UNCHANGED <<sess, peer>> /\ Kept
       ELSE LET read == readDataBlob(Stuffed(body))
            IN  IF read.tag = "toolarge"
                THEN reply' = 552 /\ UNCHANGED <<sess, peer>> /\ Kept
                ELSE /\ mails' = Append(mails, [from |-> sess.from, to |-> sess.to,
                                                auth |-> sess.auth, body |-> read.body])
                     /\ meant' = Append(meant, IF sess.astray THEN Unmeant
                                               ELSE [from |-> peer.from, to |-> peer.to,
                                                     auth |-> peer.auth, body |-> body])
                     /\ sess' = Ended
                     /\ Forward(Len(mails) + 1)
                     /\ told' = IF reply' = 250 THEN told \cup {Len(mails) + 1} ELSE told
                     /\ peer' = [peer EXCEPT !.from = NoMail, !.to = <<>>]

\* The read deadline passes within the data.  Nothing is answered, or 552 when
\* the limit was passed, the envelope stays, and the loop reads the lines that
\* come later as commands: any of them, since a message has any lines.
TimeOutInData ==
    /\ Command /\ Kept
    /\ sess.from # NoMail /\ sess.to # <<>>
    /\ reply' \in {354, 552}
    /\ sess' = [sess EXCEPT !.astray = TRUE] /\ UNCHANGED peer

\* The connection breaks, in the middle of the data or not, a command does not
\* come in time, or QUIT.
Leave ==
    /\ sess.open /\ sess' = NoSession /\ peer' = Nobody /\ reply' = 221
    /\ UNCHANGED commands /\ Kept

SmtpInit ==
    /\ sess = NoSession /\ peer = Nobody /\ reply = 0 /\ mails = <<>> /\ meant = <<>>
    /\ taken = {} /\ told = {} /\ commands = 0 /\ mfaults = 0

SmtpNext ==
    \/ Connect \/ HELO \/ STARTTLS \/ AUTH \/ RSET \/ Other \/ TimeOutInData \/ Leave
    \/ (\E s \in Senders : handleMAIL(s)) \/ (\E r \in Rcpts : handleRCPT(r))
    \/ (\E b \in Bodies : handleDATA(b))

(********************************* properties ********************************)

\* A message is forwarded with the sender, the recipients, the login and the
\* lines the peer was told were accepted, whatever came before it in the
\* session, unless a message of the session timed out before its end: what
\* follows is then read as commands (handle, handleDATA, readDataBlob).
MailAsMeant ==
    /\ Len(meant) = Len(mails)
    /\ \A i \in DOMAIN mails : meant[i] = Unmeant \/ mails[i] = meant[i]

\* A peer told that its message was accepted left an alert on the server
\* (handleDATA).
MailAccepted == told \subseteq taken

\* With authentication required, nobody's mail is forwarded without it, and
\* no sender's that is not allowed, not even of lines that were read as
\* commands (handleMAIL).
MailAllowed ==
    \A i \in DOMAIN mails : (AuthRequired => mails[i].auth) /\ mails[i].from \in AllowedSenders
=============================================================================

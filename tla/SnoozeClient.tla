---------------------------- MODULE SnoozeClient ----------------------------
(* pkg/snoozeclient: calls that share one token, repeat what failed, and log *)
(* in again once when they are refused for it.                               *)
EXTENDS Naturals, FiniteSets

CONSTANTS
    Calls,         \* concurrent callers; each posts one alert
    MaxRetries,    \* retries beyond the first attempt
    HasCredentials,
    MaxLogins, MaxNetFaults

VARIABLES
    token,     \* the token in memory; 0 is none
    file,      \* the token in the cache file
    valid,     \* tokens the server accepts
    ingest,    \* Options.IngestToken: "none", or one the server takes ("good") or "refused"
    call,      \* per caller: step, try, retriedAuth
    took,      \* per caller: how often the server took the alert
    tries,     \* per caller: requests sent
    spoiled,   \* callers for whom a token was withdrawn or logged out
    logins, nfaults

clientVars == <<token, file, valid, ingest, call, took, tries, spoiled, logins, nfaults>>

NoToken == 0
Fresh == [step |-> "idle", try |-> 1, ltry |-> 1, retriedAuth |-> FALSE]

ClientInit ==
    /\ file \in {NoToken, 1} /\ token = file /\ valid = {1}
    /\ ingest \in {"none", "good", "refused"}
    /\ call = [c \in Calls |-> Fresh]
    /\ took = [c \in Calls |-> 0] /\ tries = [c \in Calls |-> 0]
    /\ spoiled = {} /\ logins = 1 /\ nfaults = 0

canRelogin == HasCredentials

\* An ingest token is sent in place of the session's.
Authorised == IF ingest = "none" THEN token \in valid ELSE ingest = "good"

Set(c, s) == call' = [call EXCEPT ![c].step = s]

\* backoff.Retry: once more, up to MaxRetries times.
RetryOr(c, failed) ==
    call' = [call EXCEPT ![c] =
        IF @.try <= MaxRetries THEN [@ EXCEPT !.step = "send", !.try = call[c].try + 1]
        ELSE [@ EXCEPT !.step = failed]]

\* PostAlert: Do with POST /alerts.
PostAlert(c) ==
    /\ call[c].step = "idle" /\ Set(c, "send")
    /\ UNCHANGED <<token, file, valid, ingest, took, tries, spoiled, logins, nfaults>>

\* Answered 2xx: the alert was taken, or rejected in errors[0].
Answered(c) ==
    /\ call[c].step = "send" /\ Authorised
    /\ tries' = [tries EXCEPT ![c] = @ + 1]
    /\ \/ took' = [took EXCEPT ![c] = @ + 1] /\ Set(c, "ok")
       \/ UNCHANGED took /\ Set(c, "rejected")
    /\ UNCHANGED <<token, file, valid, ingest, spoiled, logins, nfaults>>

\* No answer, or 5xx, or 429: repeated, whether or not it was taken.
Transient(c) ==
    /\ call[c].step = "send" /\ nfaults < MaxNetFaults /\ nfaults' = nfaults + 1
    /\ tries' = [tries EXCEPT ![c] = @ + 1]
    /\ took' \in {took, [took EXCEPT ![c] = IF Authorised THEN @ + 1 ELSE @]}
    /\ RetryOr(c, "failed")
    /\ UNCHANGED <<token, file, valid, ingest, spoiled, logins>>

\* Another status, or a transport error that is not transient.
Permanent(c) ==
    /\ call[c].step = "send" /\ nfaults < MaxNetFaults /\ nfaults' = nfaults + 1
    /\ tries' = [tries EXCEPT ![c] = @ + 1]
    /\ took' \in {took, [took EXCEPT ![c] = IF Authorised THEN @ + 1 ELSE @]}
    /\ Set(c, "failed")
    /\ UNCHANGED <<token, file, valid, ingest, spoiled, logins>>

\* 401: one login and one more try, where there are credentials.
Unauthorised(c) ==
    /\ call[c].step = "send" /\ ~Authorised
    /\ tries' = [tries EXCEPT ![c] = @ + 1]
    /\ IF canRelogin /\ ~call[c].retriedAuth
       THEN call' = [call EXCEPT ![c].step = "login", ![c].retriedAuth = TRUE, ![c].ltry = 1]
       ELSE Set(c, "unauthorised")
    /\ UNCHANGED <<token, file, valid, ingest, took, spoiled, logins, nfaults>>

\* writeTokenFile: a failure to write it is no failure of the login.
Stored(t) == {file, t}

\* Mutant: the token is kept for the next start only.
LoginOnFile(c) ==
    /\ call[c].step = "login" /\ logins < MaxLogins
    /\ logins' = logins + 1 /\ token' = token
    /\ valid' = valid \cup {logins + 1} /\ file' = logins + 1
    /\ RetryOr(c, "failed")
    /\ spoiled' = spoiled \ {c}
    /\ UNCHANGED <<ingest, took, tries, nfaults>>

\* Mutant: the call that logged in again starts over.
LoginStartsOver(c) ==
    /\ call[c].step = "login" /\ logins < MaxLogins
    /\ logins' = logins + 1
    /\ token' = logins + 1 /\ valid' = valid \cup {logins + 1}
    /\ file' = logins + 1
    /\ call' = [call EXCEPT ![c].step = "send", ![c].try = 1]
    /\ UNCHANGED <<ingest, took, tries, nfaults, spoiled>>

\* Mutant: the login's answer is taken for the answer of the call.
LoginAnswers(c) ==
    /\ call[c].step = "login" /\ logins < MaxLogins
    /\ logins' = logins + 1
    /\ token' = logins + 1 /\ valid' = valid \cup {logins + 1}
    /\ file' = logins + 1
    /\ Set(c, "ok")
    /\ UNCHANGED <<ingest, took, tries, nfaults, spoiled>>

\* Login: the token in memory and, unless that fails, in the file.
Login(c) ==
    /\ call[c].step = "login" /\ logins < MaxLogins
    /\ logins' = logins + 1
    /\ token' = logins + 1 /\ valid' = valid \cup {logins + 1}
    /\ file' \in Stored(logins + 1)
    /\ RetryOr(c, "failed")
    /\ spoiled' = spoiled \ {c}
    /\ UNCHANGED <<ingest, took, tries, nfaults>>

\* The login has its own retries; a call whose login failed fails.
LoginFails(c) ==
    /\ call[c].step = "login" /\ nfaults < MaxNetFaults /\ nfaults' = nfaults + 1
    /\ call' = [call EXCEPT ![c] =
          IF @.ltry <= MaxRetries THEN [@ EXCEPT !.ltry = call[c].ltry + 1]
          ELSE [@ EXCEPT !.step = "failed"]]
    /\ UNCHANGED <<token, file, valid, ingest, took, tries, spoiled, logins>>

LoginRefused(c) ==
    /\ call[c].step = "login" /\ nfaults < MaxNetFaults /\ nfaults' = nfaults + 1
    /\ Set(c, "failed")
    /\ UNCHANGED <<token, file, valid, ingest, took, tries, spoiled, logins>>

Logout ==
    /\ nfaults < MaxNetFaults /\ nfaults' = nfaults + 1
    /\ token' = NoToken /\ file' = NoToken /\ spoiled' = Calls
    /\ UNCHANGED <<valid, ingest, call, took, tries, logins>>

\* The server expires every session.
Expire ==
    /\ valid # {} /\ nfaults < MaxNetFaults /\ nfaults' = nfaults + 1
    /\ valid' = {} /\ spoiled' = Calls
    /\ UNCHANGED <<token, file, ingest, call, took, tries, logins>>

\* The ingest token is revoked; every call goes on sending it.
RevokeIngest ==
    /\ ingest = "good" /\ nfaults < MaxNetFaults /\ nfaults' = nfaults + 1
    /\ ingest' = "refused"
    /\ UNCHANGED <<token, file, valid, call, took, tries, spoiled, logins>>

\* New, in another process: the token of the cache file; the calls are lost.
Reopen ==
    /\ nfaults < MaxNetFaults /\ nfaults' = nfaults + 1
    /\ token' = file /\ call' = [c \in Calls |-> [Fresh EXCEPT !.step = "failed"]]
    /\ UNCHANGED <<file, valid, ingest, took, tries, spoiled, logins>>

CallStep(c) ==
    \/ PostAlert(c) \/ Answered(c) \/ Transient(c) \/ Permanent(c) \/ Unauthorised(c)
    \/ Login(c) \/ LoginFails(c) \/ LoginRefused(c)

ClientNext == (\E c \in Calls : CallStep(c)) \/ Logout \/ Expire \/ RevokeIngest \/ Reopen

(********************************* properties ********************************)

\* A call that succeeded put its alert on the server, and no call, however it
\* failed, was refused or logged in again, sent it more than MaxRetries + 1
\* times (Do, PostAlert).
ClientOkWasTaken ==
    \A c \in Calls :
        /\ call[c].step = "ok" => took[c] > 0
        /\ tries[c] <= MaxRetries + 1

\* A call with credentials ends for want of a valid token only if one was
\* withdrawn after the call had logged in again, or if it carries an ingest
\* token, which no login replaces (Do, Login).
ReloginHelps ==
    \A c \in Calls : call[c].step = "unauthorised" => ~canRelogin \/ c \in spoiled \/ ingest = "refused"

\* Every call ends (Do).
Sending(c) == call[c].step = "send"
CallOver(c) == call[c].step \notin {"send", "login"}
=============================================================================

----------------------------- MODULE GraphToken -----------------------------
(* How snooze-teams signs its requests to Graph: the access token in memory, *)
(* the grant in the token file, two callers that refresh it without waiting  *)
(* for each other, and `snooze-teams authorize` beside them.                 *)
EXTENDS Naturals, FiniteSets, FiniteSetsExt

CONSTANTS
    Callers,         \* the poller and the /alert handler
    DeviceExpiry,    \* expires_in of the device code
    DeviceInterval, SlowDown, DevicePollMaxInterval,
    MaxTokens, MaxGraphFaults

VARIABLES
    gmode,     \* "app", "delegated", or "authorize": delegated with
               \* authorize beside it; delegated alone has both callers
    gmem,      \* the access token in memory
    fresh,     \* tokens whose expiry, less graphTokenSkew, is ahead
    accepted,  \* tokens Graph accepts
    aad,       \* refresh tokens the identity provider accepts
    gfile, gtmp,  \* the token file and its ".tmp": a grant, Half, or NoFile
    loaded,    \* tokenStore.loaded
    gcall,     \* caller -> its request
    gsends,    \* caller -> requests sent for it
    device,    \* the device-code flow of authorize
    overlap,   \* two refreshes ran at once
    glost,     \* a grant was lost, or withdrawn
    tokens, gfaults

graphVars == <<gmode, gmem, fresh, accepted, aad, gfile, gtmp, loaded, gcall, gsends,
               device, overlap, glost, tokens, gfaults>>

None == 0
NoFile == [is |-> "none"]
Half == [is |-> "half"]
Grant(access, refresh) == [is |-> "grant", access |-> access, refresh |-> refresh]
Quiet == [step |-> "idle", try |-> 1, tok |-> None, grant |-> NoFile, fd |-> "tmp"]
NoDevice == [step |-> "none"]

GraphInit ==
    /\ gmode \in {"app", "delegated", "authorize"}
    /\ gmem = None /\ fresh = {1} /\ accepted = {1} /\ aad = {1}
    /\ gfile = Grant(1, 1) /\ gtmp = NoFile /\ loaded = NoFile
    /\ gcall = [c \in Callers |-> Quiet] /\ gsends = [c \in Callers |-> 0]
    /\ device = NoDevice /\ overlap = FALSE /\ glost = FALSE /\ tokens = 1 /\ gfaults = 0

Active == IF gmode # "delegated" THEN {CHOOSE c \in Callers : TRUE} ELSE Callers
GFault == gfaults < MaxGraphFaults /\ gfaults' = gfaults + 1
At(c, s) == gcall[c].step = s
Goes(c, s) == gcall' = [gcall EXCEPT ![c].step = s]
Ends(c, s) == gcall' = [gcall EXCEPT ![c] = [Quiet EXCEPT !.step = s]]
Refreshing(c) == gcall[c].step \in {"grant", "open", "fill", "rename"}

\* bearerToken: the one in memory until it expires.
bearerToken(c) ==
    /\ At(c, "bearer") \/ (At(c, "idle") /\ c \in Active)
    /\ IF gmem # None /\ gmem \in fresh
       THEN gcall' = [gcall EXCEPT ![c].step = "send", ![c].tok = gmem]
       ELSE Goes(c, IF gmode = "app" THEN "app" ELSE "load")
    /\ UNCHANGED <<gmode, gmem, fresh, accepted, aad, gfile, gtmp, loaded, gsends, device, overlap,
                   glost, tokens, gfaults>>

(******************************** acquisition ********************************)

\* cacheAccessToken, and the request that goes on with it.
Issued(c, t) ==
    /\ gmem' = t /\ gcall' = [gcall EXCEPT ![c].step = "send", ![c].tok = t]

fetchAppToken(c) ==
    /\ At(c, "app") /\ tokens < MaxTokens /\ tokens' = tokens + 1
    /\ fresh' = fresh \cup {tokens + 1} /\ accepted' = accepted \cup {tokens + 1}
    /\ Issued(c, tokens + 1)
    /\ UNCHANGED <<gmode, aad, gfile, gtmp, loaded, gsends, device, overlap, glost, gfaults>>

\* The answer to a refresh is lost: the provider may have seen it, and ended the
\* refresh token it was asked with.
AnswerLost(c) ==
    \/ UNCHANGED <<aad, glost>>
    \/ At(c, "grant") /\ aad' = aad \ {gcall[c].grant.refresh} /\ glost' = TRUE

\* postTokenForm fails: no answer, refused, or one without a token.
TokenFails(c) ==
    /\ gcall[c].step \in {"app", "grant"} /\ GFault /\ Ends(c, "failed") /\ AnswerLost(c)
    /\ UNCHANGED <<gmode, gmem, fresh, accepted, gfile, gtmp, loaded, gsends, device, overlap, tokens>>

\* Load: the copy in memory, else the file if it is there and whole.
Load == IF loaded # NoFile THEN loaded ELSE gfile

\* fetchDelegatedToken, up to its request: the stored access token is used
\* while it has not expired.
fetchDelegatedToken(c) ==
    /\ At(c, "load")
    /\ IF Load.is # "grant" THEN Ends(c, "failed") /\ UNCHANGED <<gmem, loaded, overlap>>
       ELSE /\ loaded' = Load
            /\ IF Load.access \in fresh THEN Issued(c, Load.access) /\ UNCHANGED overlap
               ELSE /\ gcall' = [gcall EXCEPT ![c].step = "grant", ![c].grant = Load]
                    /\ overlap' = (overlap \/ \E d \in Callers \ {c} : Refreshing(d))
                    /\ UNCHANGED gmem
    /\ UNCHANGED <<gmode, fresh, accepted, aad, gfile, gtmp, gsends, device, glost, tokens, gfaults>>

\* Mutant: the refresh token of the answer is not looked at.
NewRefreshKept(old, answered) == old

\* The refresh token to store: the one of the answer, else the old one.
NewRefresh(old, answered) == IF answered # None THEN answered ELSE old

\* The refresh grant: a new access token and, as the provider likes, a new
\* refresh token, which may or may not end the old one.
Refreshed(c) ==
    /\ At(c, "grant") /\ gcall[c].grant.refresh \in aad
    /\ tokens < MaxTokens /\ tokens' = tokens + 1
    /\ LET old == gcall[c].grant.refresh
           t == tokens + 1
       IN  \E answered \in {None, t} :
             /\ aad' \in (IF answered = None THEN {aad} ELSE {aad \cup {t}, (aad \ {old}) \cup {t}})
             /\ fresh' = fresh \cup {t} /\ accepted' = accepted \cup {t}
             /\ gcall' = [gcall EXCEPT ![c].step = "open", ![c].grant = Grant(t, NewRefresh(old, answered))]
    /\ UNCHANGED <<gmode, gmem, gfile, gtmp, loaded, gsends, device, overlap, glost, gfaults>>

\* invalid_grant.
RefreshRefused(c) ==
    /\ At(c, "grant") /\ gcall[c].grant.refresh \notin aad /\ Ends(c, "failed")
    /\ UNCHANGED <<gmode, gmem, fresh, accepted, aad, gfile, gtmp, loaded, gsends, device, overlap,
                   glost, tokens, gfaults>>

(************************************ Save ***********************************)

\* Mutant: the file is written in place.
OpenTmpInPlace(c) ==
    /\ At(c, "open")
    /\ gcall' = [gcall EXCEPT ![c].step = "fill", ![c].fd = "file"]
    /\ gfile' = Half
    /\ UNCHANGED <<gmode, gmem, fresh, accepted, aad, gtmp, loaded, gsends, device, overlap, glost, tokens,
                   gfaults>>

\* WriteFile of the ".tmp", which both callers name alike: truncated ...
OpenTmp(c) ==
    /\ At(c, "open")
    /\ gcall' = [gcall EXCEPT ![c].step = "fill", ![c].fd = "tmp"]
    /\ gtmp' = Half
    /\ UNCHANGED <<gmode, gmem, fresh, accepted, aad, gfile, loaded, gsends, device, overlap, glost, tokens,
                   gfaults>>

\* ... then written, wherever another's rename has put it meanwhile.
FillTmp(c) ==
    /\ At(c, "fill") /\ Goes(c, "rename")
    /\ IF gcall[c].fd = "tmp" THEN gtmp' = gcall[c].grant /\ UNCHANGED gfile
       ELSE gfile' = gcall[c].grant /\ UNCHANGED gtmp
    /\ UNCHANGED <<gmode, gmem, fresh, accepted, aad, loaded, gsends, device, overlap, glost, tokens,
                   gfaults>>

\* Renamed, kept in memory and used; without a ".tmp" the save has failed, and
\* with it the request.
Rename(c) ==
    /\ At(c, "rename")
    /\ IF gtmp = NoFile
       THEN Ends(c, "failed") /\ UNCHANGED <<gfile, gtmp, loaded, gmem>>
       ELSE /\ gfile' = gtmp /\ gtmp' = NoFile /\ loaded' = gcall[c].grant
            /\ gmem' = gcall[c].grant.access
            /\ gcall' = [d \in Callers |->
                 IF d = c THEN [Quiet EXCEPT !.step = "send", !.try = gcall[c].try, !.tok = gcall[c].grant.access]
                 ELSE IF gcall[d].step = "fill" THEN [gcall[d] EXCEPT !.fd = "file"] ELSE gcall[d]]
    /\ UNCHANGED <<gmode, fresh, accepted, aad, gsends, device, overlap, glost, tokens, gfaults>>

\* The disk refuses: the request fails and its token is not kept.
SaveFails(c) ==
    /\ gcall[c].step \in {"open", "fill"} /\ GFault /\ Ends(c, "failed") /\ glost' = TRUE
    /\ UNCHANGED <<gmode, gmem, fresh, accepted, aad, gfile, gtmp, loaded, gsends, device, overlap,
                   tokens>>

(********************************* the request *******************************)

\* Mutant: a refused token is replaced as often as it takes.
RejectedAgain(c) == gcall' = [gcall EXCEPT ![c].step = "bearer"]

\* A 401: once more with a token that is not the one in memory.
Rejected(c) ==
    gcall' = [gcall EXCEPT ![c] =
        IF @.try = 1 THEN [Quiet EXCEPT !.step = "bearer", !.try = 2] ELSE [Quiet EXCEPT !.step = "failed"]]

\* doJSON: signed and sent; invalidateToken after a 401.
doJSON(c) ==
    /\ At(c, "send") /\ gsends' = [gsends EXCEPT ![c] = @ + 1]
    /\ IF gcall[c].tok \in accepted THEN Ends(c, "ok") /\ UNCHANGED gmem
       ELSE Rejected(c) /\ gmem' = IF gcall[c].try = 1 THEN None ELSE gmem
    /\ UNCHANGED <<gmode, fresh, accepted, aad, gfile, gtmp, loaded, device, overlap, glost, tokens,
                   gfaults>>

\* No answer, or another status.
RequestFails(c) ==
    /\ At(c, "send") /\ GFault /\ Ends(c, "failed")
    /\ gsends' = [gsends EXCEPT ![c] = @ + 1]
    /\ UNCHANGED <<gmode, gmem, fresh, accepted, aad, gfile, gtmp, loaded, device, overlap, glost,
                   tokens>>

CallerStep(c) ==
    \/ bearerToken(c) \/ fetchAppToken(c) \/ TokenFails(c) \/ fetchDelegatedToken(c) \/ Refreshed(c)
    \/ RefreshRefused(c) \/ OpenTmp(c) \/ FillTmp(c) \/ Rename(c) \/ SaveFails(c) \/ doJSON(c)
    \/ RequestFails(c)

(********************************** authorize ********************************)

\* Authorize: requestDeviceCode.
Authorize ==
    /\ device = NoDevice /\ gmode = "authorize"
    /\ device' = [step |-> "poll", interval |-> DeviceInterval, time |-> DeviceExpiry]
    /\ UNCHANGED <<gmode, gmem, fresh, accepted, aad, gfile, gtmp, loaded, gcall, gsends, overlap, glost,
                   tokens, gfaults>>

\* One interval passed.
Waited(interval) ==
    [device EXCEPT !.interval = interval,
                   !.time = IF @ > device.interval THEN @ - device.interval ELSE 0]

\* pollForToken, once per interval: pending, slow_down, refused, or the grant,
\* which replaces the file and not what the daemon has loaded.  Its save is one
\* step: beside a refresh it is an overlap like any other.
pollForToken ==
    /\ device.step = "poll"
    /\ \/ /\ device.time = 0 /\ device' = [step |-> "expired"]
          /\ UNCHANGED <<fresh, accepted, aad, gfile, overlap, tokens>>
       \/ /\ device.time > 0
          /\ \E i \in {device.interval, Min({device.interval + SlowDown, DevicePollMaxInterval})} :
                device' = Waited(i)
          /\ UNCHANGED <<fresh, accepted, aad, gfile, overlap, tokens>>
       \/ /\ device.time > 0 /\ device' = [step |-> "denied"]
          /\ UNCHANGED <<fresh, accepted, aad, gfile, overlap, tokens>>
       \/ /\ device.time > 0 /\ tokens < MaxTokens /\ tokens' = tokens + 1
          /\ fresh' = fresh \cup {tokens + 1} /\ accepted' = accepted \cup {tokens + 1}
          /\ aad' = aad \cup {tokens + 1} /\ gfile' = Grant(tokens + 1, tokens + 1)
          /\ device' = [step |-> "authorized"]
          /\ overlap' = (overlap \/ \E c \in Callers : Refreshing(c))
    /\ UNCHANGED <<gmode, gmem, gtmp, loaded, gcall, gsends, glost, gfaults>>

(********************************* the world *********************************)

\* A token somebody still has expires.
Expires(t) ==
    /\ t \in fresh /\ t \in {gmem} \cup {g.access : g \in {x \in {loaded, gfile} : x.is = "grant"}}
    /\ fresh' = fresh \ {t} /\ accepted' = accepted \ {t}
    /\ UNCHANGED <<gmode, gmem, aad, gfile, gtmp, loaded, gcall, gsends, device, overlap, glost, tokens,
                   gfaults>>

\* An administrator ends an access token, or every grant.
Revoke ==
    /\ GFault
    /\ \/ \E t \in accepted : accepted' = accepted \ {t} /\ UNCHANGED <<aad, glost>>
       \/ aad' = {} /\ glost' = TRUE /\ UNCHANGED accepted
    /\ UNCHANGED <<gmode, gmem, fresh, gfile, gtmp, loaded, gcall, gsends, device, overlap, tokens>>

\* The daemon restarts; the files stay.
RestartGraph ==
    /\ GFault
    /\ gmem' = None /\ loaded' = NoFile /\ gcall' = [c \in Callers |-> [Quiet EXCEPT !.step = "failed"]]
    /\ IF \E c \in Callers : Refreshing(c) /\ ~At(c, "grant") THEN glost' = TRUE /\ UNCHANGED aad
       ELSE \E c \in Callers : AnswerLost(c)
    /\ UNCHANGED <<gmode, fresh, accepted, gfile, gtmp, gsends, device, overlap, tokens>>

GraphNext ==
    \/ \E c \in Callers : CallerStep(c)
    \/ \E t \in 1..MaxTokens : Expires(t)
    \/ Authorize \/ pollForToken \/ Revoke \/ RestartGraph

(********************************* properties ********************************)

\* A request is sent at most twice, however its token fares (doJSON).
SentTwiceAtMost == \A c \in Callers : gsends[c] <= 2

\* A crash leaves a whole token file, old or new, unless two refreshes, and so
\* their saves, overlapped (Save).
TokenFileWhole == gfile = Half => overlap

\* The refresh token on disk and the one in use are good until the grant is
\* withdrawn, an answer was lost or not saved, or two refreshes overlapped, whatever the
\* provider rotates, and while authorize replaces the file (fetchDelegatedToken,
\* Save).
GrantKept ==
    \/ glost \/ overlap \/ \E c \in Callers : Refreshing(c)
    \/ /\ gfile.is = "grant" => gfile.refresh \in aad
       /\ loaded.is = "grant" => loaded.refresh \in aad

\* Authorize ends (pollForToken).
Authorizing == device.step = "poll"
AuthorizeOver == device.step # "poll"
=============================================================================

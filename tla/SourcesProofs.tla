---------------------------- MODULE SourcesProofs ----------------------------
(***************************************************************************)
(* Proofs about the programs around the server: nothing a daemon follows   *)
(* is lost, doubled or made up.  The Graph client and the Teams bridge     *)
(* build on what BridgesProofs shows of them.                              *)
(***************************************************************************)
EXTENDS BridgesProofs, NaturalsInduction, WellFoundedInduction

-----------------------------------------------------------------------------
(* The grant of the Teams bridge.  Unless two refreshes overlapped, one    *)
(* caller at most refreshes, its ".tmp" is its own, and the refresh token  *)
(* in the file and the one loaded are good until it has a newer one.       *)

Saving(r) == r.step \in {"open", "fill", "rename"}
Refreshes(r) == r.step = "grant" \/ Saving(r)
\* A request that saves writes its own ".tmp" ...
SaveSound(r, tmp) ==
    /\ r.step = "fill" => r.fd = "tmp"
    /\ r.step = "rename" => tmp = r.grant
    /\ Saving(r) => r.grant.is = "grant"
\* ... and a grant is good while the provider takes its refresh token.
Good(g, good) == g.is = "grant" => g.refresh \in good

OneRefresh == \A c, d \in Callers : Refreshes(gcall[c]) /\ Refreshes(gcall[d]) => c = d
SavesSound == \A c \in Callers : SaveSound(gcall[c], gtmp)
GrantsGood ==
    /\ \A c \in Callers : Saving(gcall[c]) => Good(gcall[c].grant, aad)
    /\ (\E c \in Callers : Saving(gcall[c])) \/ (Good(gfile, aad) /\ Good(loaded, aad))
GrantInv ==
    /\ overlap \in BOOLEAN /\ glost \in BOOLEAN
    /\ overlap = FALSE =>
        OneRefresh /\ gfile.is # "half" /\ SavesSound /\ (glost = FALSE => GrantsGood)

\* How a step changes a request, field by field.
Steps(q, r, s) == q = [r EXCEPT !.step = s]
StepsTok(q, r, s, x) == q = [r EXCEPT !.step = s, !.tok = x]
StepsGrant(q, r, s, x) == q = [r EXCEPT !.step = s, !.grant = x]
StepsFd(q, r, s, x) == q = [r EXCEPT !.step = s, !.fd = x]

(* The fields after such a step.                                           *)
LEMMA FieldsAfter ==
  ASSUME NEW r, IsRequest(r), NEW q, NEW s, NEW x
  PROVE  /\ Steps(q, r, s) => q.step = s /\ q.grant = r.grant /\ q.fd = r.fd
         /\ StepsTok(q, r, s, x) => q.step = s /\ q.grant = r.grant /\ q.fd = r.fd
         /\ StepsGrant(q, r, s, x) => q.step = s /\ q.grant = x /\ q.fd = r.fd
         /\ StepsFd(q, r, s, x) => q.step = s /\ q.grant = r.grant /\ q.fd = x
<1>1. PICK a, t, k, g, f : r = [step |-> a, try |-> t, tok |-> k, grant |-> g, fd |-> f]
  BY DEF IsRequest
<1>2. PICK p : p = [r EXCEPT !.step = s]
  OBVIOUS
<1>3. p = [step |-> s, try |-> t, tok |-> k, grant |-> g, fd |-> f]
  BY <1>1, <1>2
<1>4. r.grant = g /\ r.fd = f
  BY <1>1
<1>5. Steps(q, r, s) => q.step = s /\ q.grant = r.grant /\ q.fd = r.fd
  BY <1>2, <1>3, <1>4 DEF Steps
<1>6. StepsTok(q, r, s, x) => q.step = s /\ q.grant = r.grant /\ q.fd = r.fd
  <2> SUFFICES ASSUME StepsTok(q, r, s, x) PROVE q.step = s /\ q.grant = g /\ q.fd = f
    BY <1>4
  <2>1. q = [p EXCEPT !.tok = x]
    BY <1>2 DEF StepsTok
  <2>. QED
    BY <1>3, <2>1
<1>7. StepsGrant(q, r, s, x) => q.step = s /\ q.grant = x /\ q.fd = r.fd
  <2> SUFFICES ASSUME StepsGrant(q, r, s, x) PROVE q.step = s /\ q.grant = x /\ q.fd = f
    BY <1>4
  <2>1. q = [p EXCEPT !.grant = x]
    BY <1>2 DEF StepsGrant
  <2>. QED
    BY <1>3, <2>1
<1>8. StepsFd(q, r, s, x) => q.step = s /\ q.grant = r.grant /\ q.fd = x
  <2> SUFFICES ASSUME StepsFd(q, r, s, x) PROVE q.step = s /\ q.grant = g /\ q.fd = x
    BY <1>4
  <2>1. q = [p EXCEPT !.fd = x]
    BY <1>2 DEF StepsFd
  <2>. QED
    BY <1>3, <2>1
<1>. QED
  BY <1>5, <1>6, <1>7, <1>8

(* One request changes, the others stay.                                   *)
LEMMA OneRequest ==
  ASSUME NEW c \in Callers, NEW r, GraphInv, gcall' = [gcall EXCEPT ![c] = r]
  PROVE  gcall'[c] = r /\ (\A d \in Callers \ {c} : gcall'[d] = gcall[d]) /\ IsRequest(gcall[c])
<1>1. gcall = [d \in Callers |-> gcall[d]] /\ SendsSound(gcall[c], gsends[c])
  BY DEF GraphInv
<1>. QED
  BY <1>1 DEF SendsSound

(* The token file is whole at first, and its grant good.                   *)
LEMMA GrantStart == Graph!GraphInit => GrantInv
<1> SUFFICES ASSUME Graph!GraphInit PROVE GrantInv
  OBVIOUS
<1>1. PICK q : q = Graph!Quiet
  OBVIOUS
<1>2. q.step = "idle"
  BY <1>1, QuietRequest
<1>3. PICK g : g = Graph!Grant(1, 1)
  OBVIOUS
<1>4. g.is = "grant" /\ g.refresh = 1
  BY <1>3 DEF Graph!Grant
<1>5. gcall = [c \in Callers |-> q] /\ gfile = g /\ aad = {1} /\ loaded = Graph!NoFile
  BY <1>1, <1>3 DEF Graph!GraphInit
<1>6. loaded.is = "none"
  BY <1>5 DEF Graph!NoFile
<1>7. \A c \in Callers : ~Saving(gcall[c]) /\ ~Refreshes(gcall[c]) /\ gcall[c].step = "idle"
  BY <1>2, <1>5 DEF Saving, Refreshes
<1>8. OneRefresh /\ SavesSound
  BY <1>7 DEF OneRefresh, SavesSound, SaveSound
<1>9. GrantsGood
  BY <1>4, <1>5, <1>6, <1>7 DEF GrantsGood, Good
<1>10. overlap \in BOOLEAN /\ glost \in BOOLEAN
  BY DEF Graph!GraphInit
<1>. QED
  BY <1>4, <1>5, <1>8, <1>9, <1>10 DEF GrantInv

(* A request that saves nothing goes on to no refresh.                     *)
LEMMA GrantApart ==
  ASSUME NEW c \in Callers, NEW r, GraphInv, GrantInv, gcall' = [gcall EXCEPT ![c] = r],
         ~Saving(gcall[c]), ~Refreshes(r), UNCHANGED <<gfile, gtmp, overlap>>,
         UNCHANGED <<aad, glost>> \/ glost' = TRUE, loaded' \in {loaded, gfile}
  PROVE  GrantInv'
<1> SUFFICES ASSUME overlap = FALSE
             PROVE  OneRefresh' /\ SavesSound' /\ (glost = FALSE /\ UNCHANGED <<aad, glost>> => GrantsGood')
  BY DEF GrantInv
<1>1. gcall'[c] = r /\ \A d \in Callers \ {c} : gcall'[d] = gcall[d]
  BY OneRequest
<1>2. ~Saving(r) /\ r.step # "fill" /\ r.step # "rename"
  BY DEF Refreshes, Saving
<1>3. OneRefresh'
  BY <1>1 DEF GrantInv, OneRefresh
<1>4. SavesSound'
  <2> SUFFICES ASSUME NEW d \in Callers PROVE SaveSound(gcall'[d], gtmp)
    BY DEF SavesSound
  <2>1. CASE d = c
    BY <1>1, <1>2, <2>1 DEF SaveSound
  <2>2. CASE d # c
    BY <1>1, <2>2 DEF GrantInv, SavesSound
  <2>. QED
    BY <2>1, <2>2
<1>5. ASSUME glost = FALSE, UNCHANGED <<aad, glost>> PROVE GrantsGood'
  <2>1. GrantsGood
    BY <1>5 DEF GrantInv
  <2>2. \A d \in Callers : Saving(gcall'[d]) <=> Saving(gcall[d])
    BY <1>1, <1>2
  <2>3. \A d \in Callers : Saving(gcall'[d]) => Good(gcall'[d].grant, aad)
    BY <1>1, <1>2, <2>1 DEF GrantsGood
  <2>4. (\E d \in Callers : Saving(gcall'[d])) \/ (Good(gfile, aad) /\ Good(loaded', aad))
    BY <2>1, <2>2 DEF GrantsGood
  <2>. QED
    BY <1>5, <2>3, <2>4 DEF GrantsGood
<1>. QED
  BY <1>3, <1>4, <1>5

(* The one request that refreshes goes on: what it saves is good.          *)
LEMMA GrantMoves ==
  ASSUME NEW c \in Callers, NEW r, GraphInv, GrantInv, gcall' = [gcall EXCEPT ![c] = r],
         overlap' \in BOOLEAN,
         overlap' = FALSE => overlap = FALSE /\ \A d \in Callers \ {c} : ~Refreshes(gcall[d]),
         SaveSound(r, gtmp'), UNCHANGED <<gfile, glost>>,
         overlap = FALSE /\ glost = FALSE /\ Saving(r) => Good(r.grant, aad'),
         Saving(r) \/ (~Saving(gcall[c]) /\ loaded' \in {loaded, gfile} /\ aad' = aad)
  PROVE  GrantInv'
<1> SUFFICES ASSUME overlap' = FALSE PROVE OneRefresh' /\ gfile.is # "half" /\ SavesSound' /\ (glost = FALSE => GrantsGood')
  BY DEF GrantInv
<1>1. gcall'[c] = r /\ \A d \in Callers \ {c} : gcall'[d] = gcall[d]
  BY OneRequest
<1>2. overlap = FALSE /\ \A d \in Callers \ {c} : ~Refreshes(gcall'[d])
  BY <1>1
<1>3. \A d \in Callers \ {c} : ~Saving(gcall'[d]) /\ ~Saving(gcall[d])
  BY <1>1, <1>2 DEF Refreshes
<1>4. OneRefresh' /\ gfile.is # "half"
  BY <1>2 DEF GrantInv, OneRefresh
<1>5. SavesSound'
  <2> SUFFICES ASSUME NEW d \in Callers PROVE SaveSound(gcall'[d], gtmp')
    BY DEF SavesSound
  <2>1. CASE d = c
    BY <1>1, <2>1
  <2>2. CASE d # c
    BY <1>3, <2>2 DEF SaveSound, Saving
  <2>. QED
    BY <2>1, <2>2
<1>6. ASSUME glost = FALSE PROVE GrantsGood'
  <2>1. \A d \in Callers : Saving(gcall'[d]) => Good(gcall'[d].grant, aad')
    BY <1>1, <1>2, <1>3, <1>6
  <2>2. CASE Saving(r)
    BY <1>1, <2>1, <2>2 DEF GrantsGood
  <2>3. CASE ~Saving(r)
    <3>1. GrantsGood /\ ~Saving(gcall[c]) /\ loaded' \in {loaded, gfile} /\ aad' = aad
      BY <1>2, <1>6, <2>3 DEF GrantInv
    <3>2. Good(gfile, aad) /\ Good(loaded, aad)
      BY <1>3, <3>1 DEF GrantsGood
    <3>. QED
      BY <2>1, <3>1, <3>2 DEF GrantsGood
  <2>. QED
    BY <2>2, <2>3
<1>. QED
  BY <1>4, <1>5, <1>6

(* A request is over.                                                      *)
LEMMA EndedRequest ==
  ASSUME NEW c \in Callers, NEW s \in {"ok", "failed"}, Graph!Ends(c, s)
  PROVE  \E r : gcall' = [gcall EXCEPT ![c] = r] /\ ~Refreshes(r)
<1>1. PICK r : r = [Graph!Quiet EXCEPT !.step = s]
  OBVIOUS
<1>2. r.step = s
  BY <1>1, QuietRequest
<1>. QED
  BY <1>1, <1>2 DEF Graph!Ends, Refreshes, Saving

(* A token in memory, a new one or none.                                   *)
LEMMA GrantAsks ==
  ASSUME NEW c \in Callers, GraphInv, GrantInv,
         \/ Graph!bearerToken(c) \/ Graph!fetchAppToken(c) \/ Graph!TokenFails(c)
         \/ Graph!RefreshRefused(c) \/ Graph!RequestFails(c)
  PROVE  GrantInv'
<1>1. PICK o : o = gcall[c]
  OBVIOUS
<1>2. IsRequest(o) /\ c \in DOMAIN gcall
  BY <1>1 DEF GraphInv, SendsSound
<1>3. UNCHANGED <<gfile, gtmp, overlap, loaded>> /\ (UNCHANGED <<aad, glost>> \/ glost' = TRUE)
  BY DEF Graph!bearerToken, Graph!fetchAppToken, Graph!TokenFails, Graph!AnswerLost,
         Graph!RefreshRefused, Graph!RequestFails
<1>4. ~Saving(gcall[c])
  BY DEF Graph!bearerToken, Graph!fetchAppToken, Graph!TokenFails, Graph!RefreshRefused,
         Graph!RequestFails, Graph!At, Saving
<1>5. \E r : gcall' = [gcall EXCEPT ![c] = r] /\ ~Refreshes(r)
  <2>1. CASE Graph!TokenFails(c) \/ Graph!RefreshRefused(c) \/ Graph!RequestFails(c)
    BY <2>1, EndedRequest DEF Graph!TokenFails, Graph!RefreshRefused, Graph!RequestFails
  <2>2. CASE Graph!bearerToken(c) \/ Graph!fetchAppToken(c)
    <3>1. PICK s \in {"send", "app", "load"} : \E x : \/ gcall' = [gcall EXCEPT ![c].step = s]
                                                      \/ gcall' = [gcall EXCEPT ![c].step = s, ![c].tok = x]
      BY <2>2 DEF Graph!bearerToken, Graph!fetchAppToken, Graph!Goes, Graph!Issued
    <3>2. PICK x : \/ gcall' = [gcall EXCEPT ![c].step = s]
                   \/ gcall' = [gcall EXCEPT ![c].step = s, ![c].tok = x]
      BY <3>1
    <3>3. \/ gcall' = [gcall EXCEPT ![c] = [o EXCEPT !.step = s]]
          \/ gcall' = [gcall EXCEPT ![c] = [o EXCEPT !.step = s, !.tok = x]]
      BY <1>1, <1>2, <3>2
    <3>4. PICK r : (Steps(r, o, s) \/ StepsTok(r, o, s, x)) /\ gcall' = [gcall EXCEPT ![c] = r]
      BY <3>3 DEF Steps, StepsTok
    <3>5. r.step = s
      BY <1>2, <3>4, FieldsAfter
    <3>. QED
      BY <3>4, <3>5 DEF Refreshes, Saving
  <2>. QED
    BY <2>1, <2>2
<1>. QED
  BY <1>3, <1>4, <1>5, GrantApart

(* The request is sent.                                                    *)
LEMMA GrantSends == ASSUME NEW c \in Callers, GraphInv, GrantInv, Graph!doJSON(c) PROVE GrantInv'
<1>1. UNCHANGED <<gfile, gtmp, aad, glost, overlap, loaded>> /\ ~Saving(gcall[c])
  BY DEF Graph!doJSON, Graph!At, Saving
<1>2. \E r : gcall' = [gcall EXCEPT ![c] = r] /\ ~Refreshes(r)
  <2>1. CASE Graph!Ends(c, "ok")
    BY <2>1, EndedRequest
  <2>2. CASE Graph!Rejected(c)
    <3>1. PICK q : q = [Graph!Quiet EXCEPT !.step = "failed"]
      OBVIOUS
    <3>2. PICK b : b = [Graph!Quiet EXCEPT !.step = "bearer", !.try = 2]
      OBVIOUS
    <3>3. q.step = "failed" /\ b.step = "bearer"
      BY <3>1, <3>2, QuietRequest DEF Graph!Quiet
    <3>4. c \in DOMAIN gcall
      BY DEF GraphInv
    <3>5. gcall' = [gcall EXCEPT ![c] = q] \/ gcall' = [gcall EXCEPT ![c] = b]
      BY <2>2, <3>1, <3>2, <3>4 DEF Graph!Rejected
    <3>. QED
      BY <3>3, <3>5 DEF Refreshes, Saving
  <2>. QED
    BY <2>1, <2>2 DEF Graph!doJSON
<1>. QED
  BY <1>1, <1>2, GrantApart

(* The stored grant is used, or refreshed: two at once are an overlap.     *)
LEMMA GrantLoads == ASSUME NEW c \in Callers, GraphInv, GrantInv, Graph!fetchDelegatedToken(c) PROVE GrantInv'
<1>1. UNCHANGED <<gfile, gtmp, aad, glost>> /\ ~Saving(gcall[c]) /\ loaded' \in {loaded, gfile}
  BY DEF Graph!fetchDelegatedToken, Graph!At, Saving, Graph!Load
<1>2. PICK o : o = gcall[c]
  OBVIOUS
<1>3. IsRequest(o) /\ c \in DOMAIN gcall
  BY <1>2 DEF GraphInv, SendsSound
<1>4. CASE overlap' = overlap /\ Graph!Ends(c, "failed")
  BY <1>1, <1>4, EndedRequest, GrantApart
<1>5. CASE overlap' = overlap /\ \E x : gcall' = [gcall EXCEPT ![c].step = "send", ![c].tok = x]
  <2>1. PICK x : gcall' = [gcall EXCEPT ![c].step = "send", ![c].tok = x]
    BY <1>5
  <2>2. gcall' = [gcall EXCEPT ![c] = [o EXCEPT !.step = "send", !.tok = x]]
    BY <1>2, <1>3, <2>1
  <2>3. PICK r : StepsTok(r, o, "send", x) /\ gcall' = [gcall EXCEPT ![c] = r]
    BY <2>2 DEF StepsTok
  <2>4. r.step = "send"
    BY <1>3, <2>3, FieldsAfter
  <2>. QED
    BY <1>1, <1>5, <2>3, <2>4, GrantApart DEF Refreshes, Saving
<1>6. CASE /\ \E x : gcall' = [gcall EXCEPT ![c].step = "grant", ![c].grant = x]
           /\ overlap' = (overlap \/ \E d \in Callers \ {c} : Graph!Refreshing(d))
  <2>1. PICK x : gcall' = [gcall EXCEPT ![c].step = "grant", ![c].grant = x]
    BY <1>6
  <2>2. gcall' = [gcall EXCEPT ![c] = [o EXCEPT !.step = "grant", !.grant = x]]
    BY <1>2, <1>3, <2>1
  <2>3. PICK r : StepsGrant(r, o, "grant", x) /\ gcall' = [gcall EXCEPT ![c] = r]
    BY <2>2 DEF StepsGrant
  <2>4. r.step = "grant"
    BY <1>3, <2>3, FieldsAfter
  <2>5. overlap' \in BOOLEAN /\ (overlap' = FALSE => overlap = FALSE /\ \A d \in Callers \ {c} : ~Refreshes(gcall[d]))
    <3>1. \A d \in Callers : Graph!Refreshing(d) <=> Refreshes(gcall[d])
      BY DEF Graph!Refreshing, Refreshes, Saving
    <3>2. overlap \in BOOLEAN
      BY DEF GrantInv
    <3>. QED
      BY <1>6, <3>1, <3>2, Zenon
  <2>6. SaveSound(r, gtmp') /\ ~Saving(r)
    BY <2>4 DEF SaveSound, Saving
  <2>. QED
    BY <1>1, <2>3, <2>5, <2>6, GrantMoves
<1>. QED
  BY <1>4, <1>5, <1>6 DEF Graph!fetchDelegatedToken, Graph!Issued

(* The refresh token of the answer, or the old one, is good.               *)
LEMMA GrantRefreshed == ASSUME NEW c \in Callers, GraphInv, GrantInv, Graph!Refreshed(c) PROVE GrantInv'
<1>1. UNCHANGED <<gfile, gtmp, glost, overlap, loaded>> /\ gcall[c].step = "grant"
  BY DEF Graph!Refreshed, Graph!At
<1>2. PICK o : o = gcall[c]
  OBVIOUS
<1>3. IsRequest(o) /\ c \in DOMAIN gcall
  BY <1>2 DEF GraphInv, SendsSound
<1>4. PICK old : old = gcall[c].grant.refresh
  OBVIOUS
<1>5. PICK t : t = tokens + 1
  OBVIOUS
<1>6. PICK answered \in {Graph!None, t} :
        /\ aad' \in (IF answered = Graph!None THEN {aad} ELSE {aad \cup {t}, (aad \ {old}) \cup {t}})
        /\ gcall' = [gcall EXCEPT ![c].step = "open", ![c].grant = Graph!Grant(t, Graph!NewRefresh(old, answered))]
  BY <1>4, <1>5 DEF Graph!Refreshed
<1>7. old \in aad
  BY <1>4 DEF Graph!Refreshed
<1>8. PICK n : n = Graph!NewRefresh(old, answered)
  OBVIOUS
<1>9. n \in aad'
  BY <1>6, <1>7, <1>8 DEF Graph!NewRefresh
<1>10. PICK g : g = Graph!Grant(t, n)
  OBVIOUS
<1>11. g.is = "grant" /\ g.refresh = n
  BY <1>10 DEF Graph!Grant
<1>12. gcall' = [gcall EXCEPT ![c] = [o EXCEPT !.step = "open", !.grant = g]]
  BY <1>2, <1>3, <1>6, <1>8, <1>10
<1>13. PICK r : StepsGrant(r, o, "open", g) /\ gcall' = [gcall EXCEPT ![c] = r]
  BY <1>12 DEF StepsGrant
<1>14. r.step = "open" /\ r.grant = g
  BY <1>3, <1>13, FieldsAfter
<1>15. SaveSound(r, gtmp') /\ Saving(r) /\ Good(r.grant, aad')
  BY <1>9, <1>11, <1>14 DEF SaveSound, Saving, Good
<1>16. overlap' = FALSE => overlap = FALSE /\ \A d \in Callers \ {c} : ~Refreshes(gcall[d])
  BY <1>1 DEF GrantInv, OneRefresh, Refreshes
<1>17. overlap' \in BOOLEAN
  BY <1>1 DEF GrantInv
<1>. QED
  BY <1>1, <1>13, <1>15, <1>16, <1>17, GrantMoves

(* The save, up to the rename.                                             *)
LEMMA GrantWrites ==
  ASSUME NEW c \in Callers, GraphInv, GrantInv, Graph!OpenTmp(c) \/ Graph!FillTmp(c)
  PROVE  GrantInv'
<1>1. UNCHANGED <<aad, glost, overlap, loaded>> /\ Saving(gcall[c])
  BY DEF Graph!OpenTmp, Graph!FillTmp, Graph!At, Saving
<1>2. PICK o : o = gcall[c]
  OBVIOUS
<1>3. IsRequest(o) /\ c \in DOMAIN gcall
  BY <1>2 DEF GraphInv, SendsSound
<1>4. overlap' \in BOOLEAN
  BY <1>1 DEF GrantInv
<1>5. CASE overlap = TRUE
  BY <1>1, <1>4, <1>5 DEF GrantInv
<1>6. CASE overlap = FALSE
  <2>1. \A d \in Callers \ {c} : ~Refreshes(gcall[d])
    BY <1>1, <1>6 DEF GrantInv, OneRefresh, Refreshes
  <2>2. SaveSound(o, gtmp) /\ (glost = FALSE => Good(o.grant, aad))
    BY <1>1, <1>2, <1>6 DEF GrantInv, SavesSound, GrantsGood
  <2>3. o.grant.is = "grant"
    BY <1>1, <1>2, <2>2 DEF SaveSound
  <2>4. \E r : /\ gcall' = [gcall EXCEPT ![c] = r] /\ Saving(r) /\ SaveSound(r, gtmp')
               /\ r.grant = o.grant /\ gfile' = gfile
    <3>1. CASE Graph!OpenTmp(c)
      <4>1. gcall' = [gcall EXCEPT ![c] = [o EXCEPT !.step = "fill", !.fd = "tmp"]] /\ gfile' = gfile
        BY <1>2, <1>3, <3>1 DEF Graph!OpenTmp
      <4>2. PICK r : StepsFd(r, o, "fill", "tmp") /\ gcall' = [gcall EXCEPT ![c] = r]
        BY <4>1 DEF StepsFd
      <4>3. r.step = "fill" /\ r.grant = o.grant /\ r.fd = "tmp"
        BY <1>3, <4>2, FieldsAfter
      <4>. QED
        BY <2>3, <4>1, <4>2, <4>3 DEF SaveSound, Saving
    <3>2. CASE Graph!FillTmp(c)
      <4>1. gcall' = [gcall EXCEPT ![c] = [o EXCEPT !.step = "rename"]] /\ o.step = "fill"
        BY <1>2, <1>3, <3>2 DEF Graph!FillTmp, Graph!Goes, Graph!At
      <4>2. o.fd = "tmp"
        BY <2>2, <4>1 DEF SaveSound
      <4>3. gtmp' = o.grant /\ gfile' = gfile
        BY <1>2, <3>2, <4>2 DEF Graph!FillTmp
      <4>4. PICK r : Steps(r, o, "rename") /\ gcall' = [gcall EXCEPT ![c] = r]
        BY <4>1 DEF Steps
      <4>5. r.step = "rename" /\ r.grant = o.grant
        BY <1>3, <4>4, FieldsAfter
      <4>. QED
        BY <2>3, <4>3, <4>4, <4>5 DEF SaveSound, Saving
    <3>. QED
      BY <3>1, <3>2
  <2>5. PICK r : /\ gcall' = [gcall EXCEPT ![c] = r] /\ Saving(r) /\ SaveSound(r, gtmp')
                 /\ r.grant = o.grant /\ gfile' = gfile
    BY <2>4
  <2>6. overlap' = FALSE => overlap = FALSE /\ \A d \in Callers \ {c} : ~Refreshes(gcall[d])
    BY <1>6, <2>1
  <2>7. overlap = FALSE /\ glost = FALSE /\ Saving(r) => Good(r.grant, aad')
    BY <1>1, <2>2, <2>5
  <2>. QED
    BY <1>1, <1>4, <2>5, <2>6, <2>7, GrantMoves
<1>. QED
  BY <1>5, <1>6 DEF GrantInv

(* Nobody refreshes now, the file is whole and, unless one was lost, the   *)
(* grants are good.                                                        *)
LEMMA GrantRests ==
  ASSUME overlap' \in BOOLEAN, glost' \in BOOLEAN,
         overlap' = FALSE => (\A d \in Callers : ~Refreshes(gcall'[d])) /\ gfile'.is # "half",
         overlap' = FALSE /\ glost' = FALSE => Good(gfile', aad') /\ Good(loaded', aad')
  PROVE  GrantInv'
<1> SUFFICES ASSUME overlap' = FALSE PROVE OneRefresh' /\ SavesSound' /\ (glost' = FALSE => GrantsGood')
  BY DEF GrantInv
<1>1. \A d \in Callers : ~Refreshes(gcall'[d]) /\ ~Saving(gcall'[d])
  BY DEF Refreshes
<1>2. OneRefresh'
  BY <1>1 DEF OneRefresh
<1>3. SavesSound'
  BY <1>1 DEF SavesSound, SaveSound, Saving
<1>4. glost' = FALSE => GrantsGood'
  BY <1>1 DEF GrantsGood
<1>. QED
  BY <1>2, <1>3, <1>4

(* The file is replaced by the grant that was written beside it.           *)
LEMMA GrantRenames == ASSUME NEW c \in Callers, GraphInv, GrantInv, Graph!Rename(c) PROVE GrantInv'
<1>1. UNCHANGED <<aad, glost, overlap>> /\ gcall[c].step = "rename"
  BY DEF Graph!Rename, Graph!At
<1>2. overlap' \in BOOLEAN /\ glost' \in BOOLEAN
  BY <1>1 DEF GrantInv
<1>3. CASE overlap = TRUE
  BY <1>1, <1>2, <1>3 DEF GrantInv
<1>4. CASE overlap = FALSE
  <2>1. \A d \in Callers \ {c} : ~Refreshes(gcall[d])
    BY <1>1, <1>4 DEF GrantInv, OneRefresh, Refreshes, Saving
  <2>2. gtmp = gcall[c].grant /\ gcall[c].grant.is = "grant"
    BY <1>1, <1>4 DEF GrantInv, SavesSound, SaveSound, Saving
  <2>3. glost = FALSE => Good(gcall[c].grant, aad)
    BY <1>1, <1>4 DEF GrantInv, GrantsGood, Saving
  <2>4. gtmp # Graph!NoFile
    BY <2>2 DEF Graph!NoFile
  <2>5. PICK r : r = [Graph!Quiet EXCEPT !.step = "send", !.try = gcall[c].try,
                                         !.tok = gcall[c].grant.access]
    OBVIOUS
  <2>6. r.step = "send"
    BY <2>5 DEF Graph!Quiet
  <2>7. /\ gfile' = gcall[c].grant /\ loaded' = gcall[c].grant
        /\ gcall' = [d \in Callers |->
             IF d = c THEN r
             ELSE IF gcall[d].step = "fill" THEN [gcall[d] EXCEPT !.fd = "file"] ELSE gcall[d]]
    BY <2>2, <2>4, <2>5 DEF Graph!Rename
  <2>8. \A d \in Callers : ~Refreshes(gcall'[d])
    <3> SUFFICES ASSUME NEW d \in Callers PROVE ~Refreshes(gcall'[d])
      OBVIOUS
    <3>1. CASE d = c
      BY <2>6, <2>7, <3>1 DEF Refreshes, Saving
    <3>2. CASE d # c
      <4>1. ~Refreshes(gcall[d]) /\ gcall[d].step # "fill"
        BY <2>1, <3>2 DEF Refreshes, Saving
      <4>. QED
        BY <2>7, <3>2, <4>1
    <3>. QED
      BY <3>1, <3>2
  <2>. QED
    BY <1>1, <1>2, <2>2, <2>3, <2>7, <2>8, GrantRests
<1>. QED
  BY <1>3, <1>4 DEF GrantInv

(* A save fails: its grant is lost, and the old one may be no good.        *)
LEMMA GrantUnsaved == ASSUME NEW c \in Callers, GraphInv, GrantInv, Graph!SaveFails(c) PROVE GrantInv'
<1>1. UNCHANGED <<gfile, gtmp, overlap>> /\ Saving(gcall[c]) /\ glost' = TRUE
  BY DEF Graph!SaveFails, Saving
<1>2. overlap' \in BOOLEAN /\ glost' \in BOOLEAN
  BY <1>1 DEF GrantInv
<1>3. PICK r : gcall' = [gcall EXCEPT ![c] = r] /\ ~Refreshes(r)
  BY EndedRequest DEF Graph!SaveFails
<1>4. gcall'[c] = r /\ \A d \in Callers \ {c} : gcall'[d] = gcall[d]
  BY <1>3, OneRequest
<1>5. overlap' = FALSE => (\A d \in Callers : ~Refreshes(gcall'[d])) /\ gfile'.is # "half"
  BY <1>1, <1>3, <1>4 DEF GrantInv, OneRefresh, Refreshes
<1>. QED
  BY <1>1, <1>2, <1>5, GrantRests

(* A grant beside the daemon: another file, and no good one taken back.    *)
LEMMA GrantAuthorized == GrantInv /\ Graph!pollForToken => GrantInv'
<1> SUFFICES ASSUME GrantInv, Graph!pollForToken PROVE GrantInv'
  OBVIOUS
<1>1. UNCHANGED <<gtmp, loaded, gcall, glost>>
  BY DEF Graph!pollForToken
<1>2. CASE UNCHANGED <<aad, gfile, overlap>>
  BY <1>1, <1>2 DEF GrantInv, OneRefresh, SavesSound, GrantsGood
<1>3. CASE /\ aad' = aad \cup {tokens + 1} /\ gfile' = Graph!Grant(tokens + 1, tokens + 1)
           /\ overlap' = (overlap \/ \E c \in Callers : Graph!Refreshing(c))
  <2>1. \A d \in Callers : Graph!Refreshing(d) <=> Refreshes(gcall[d])
    BY DEF Graph!Refreshing, Refreshes, Saving
  <2>2. overlap \in BOOLEAN /\ glost' \in BOOLEAN
    BY <1>1 DEF GrantInv
  <2>3. overlap' \in BOOLEAN /\ (overlap' = FALSE => overlap = FALSE /\ \A d \in Callers : ~Refreshes(gcall[d]))
    BY <1>3, <2>1, <2>2, Zenon
  <2>4. gfile'.is = "grant" /\ gfile'.refresh \in aad'
    BY <1>3 DEF Graph!Grant
  <2>5. overlap' = FALSE /\ glost' = FALSE => Good(loaded', aad')
    <3> SUFFICES ASSUME overlap' = FALSE, glost' = FALSE PROVE Good(loaded', aad')
      OBVIOUS
    <3>1. GrantsGood /\ \A d \in Callers : ~Saving(gcall[d])
      BY <1>1, <2>3 DEF GrantInv, Refreshes
    <3>. QED
      BY <1>1, <1>3, <3>1 DEF GrantsGood, Good
  <2>. QED
    BY <1>1, <2>2, <2>3, <2>4, <2>5, GrantRests DEF Good
<1>. QED
  BY <1>2, <1>3 DEF Graph!pollForToken

(* The world: tokens expire or are withdrawn, and the daemon restarts.     *)
LEMMA GrantWorld ==
  GrantInv /\ ((\E t \in 1..MaxTokens : Graph!Expires(t)) \/ Graph!Authorize \/ Graph!Revoke \/ Graph!RestartGraph)
  => GrantInv'
<1> SUFFICES ASSUME GrantInv, (\E t \in 1..MaxTokens : Graph!Expires(t)) \/ Graph!Authorize \/ Graph!Revoke \/ Graph!RestartGraph
             PROVE  GrantInv'
  OBVIOUS
<1>1. CASE UNCHANGED <<aad, glost, gfile, gtmp, loaded, gcall, overlap>>
  BY <1>1 DEF GrantInv, OneRefresh, SavesSound, GrantsGood
<1>2. CASE glost' = TRUE /\ UNCHANGED <<gfile, gtmp, loaded, gcall, overlap>>
  BY <1>2 DEF GrantInv, OneRefresh, SavesSound
<1>3. CASE Graph!RestartGraph
  <2>1. PICK r : r = [Graph!Quiet EXCEPT !.step = "failed"]
    OBVIOUS
  <2>2. ~Refreshes(r)
    BY <2>1, QuietRequest DEF Refreshes, Saving
  <2>3. gcall' = [c \in Callers |-> r] /\ loaded' = Graph!NoFile /\ UNCHANGED <<gfile, gtmp, overlap>>
    BY <1>3, <2>1 DEF Graph!RestartGraph
  <2>4. overlap' \in BOOLEAN /\ (overlap' = FALSE => gfile'.is # "half")
    BY <2>3 DEF GrantInv
  <2>5. \A c \in Callers : (Graph!Refreshing(c) /\ ~Graph!At(c, "grant")) <=> Saving(gcall[c])
    BY DEF Graph!Refreshing, Graph!At, Saving
  <2>6. /\ glost \in BOOLEAN /\ glost' \in {glost, TRUE}
        /\ glost' = TRUE \/ (UNCHANGED <<aad, glost>> /\ \A c \in Callers : ~Saving(gcall[c]))
    BY <1>3, <2>5 DEF Graph!RestartGraph, Graph!AnswerLost, GrantInv
  <2>7. /\ glost' \in BOOLEAN
        /\ glost' = FALSE => aad' = aad /\ glost = FALSE /\ \A c \in Callers : ~Saving(gcall[c])
    BY <2>6
  <2>8. Good(loaded', aad')
    BY <2>3 DEF Graph!NoFile, Good
  <2>9. overlap' = FALSE /\ glost' = FALSE => Good(gfile', aad')
    BY <2>3, <2>7 DEF GrantInv, GrantsGood
  <2>. QED
    BY <2>2, <2>3, <2>4, <2>7, <2>8, <2>9, GrantRests
<1>. QED
  BY <1>1, <1>2, <1>3 DEF Graph!Expires, Graph!Authorize, Graph!Revoke

(* Every step keeps it.                                                    *)
LEMMA GrantStays == GraphInv /\ GrantInv /\ Graph!GraphNext => GrantInv'
<1> SUFFICES ASSUME GraphInv, GrantInv, Graph!GraphNext PROVE GrantInv'
  OBVIOUS
<1>1. ASSUME NEW c \in Callers, Graph!CallerStep(c) PROVE GrantInv'
  BY <1>1, GrantAsks, GrantSends, GrantLoads, GrantRefreshed, GrantWrites, GrantRenames, GrantUnsaved
     DEF Graph!CallerStep
<1>. QED
  BY <1>1, GrantAuthorized, GrantWorld DEF Graph!GraphNext

(* The token file is whole and its grant kept.                             *)
LEMMA GrantFollows == GrantInv => TokenFileWhole /\ GrantKept
<1> SUFFICES ASSUME GrantInv PROVE TokenFileWhole /\ GrantKept
  OBVIOUS
<1>1. overlap \in BOOLEAN /\ glost \in BOOLEAN
  BY DEF GrantInv
<1>2. CASE overlap = TRUE
  BY <1>2 DEF TokenFileWhole, GrantKept, Graph!TokenFileWhole, Graph!GrantKept
<1>3. CASE overlap = FALSE
  <2>1. gfile # Graph!Half
    BY <1>3 DEF GrantInv, Graph!Half
  <2>2. \A c \in Callers : Saving(gcall[c]) => Graph!Refreshing(c)
    BY DEF Saving, Graph!Refreshing
  <2>3. glost = FALSE => (\E c \in Callers : Graph!Refreshing(c)) \/ (Good(gfile, aad) /\ Good(loaded, aad))
    BY <1>3, <2>2 DEF GrantInv, GrantsGood
  <2>4. GrantKept
    BY <1>1, <2>3, Zenon DEF GrantKept, Graph!GrantKept, Good
  <2>. QED
    BY <2>1, <2>4 DEF TokenFileWhole, Graph!TokenFileWhole
<1>. QED
  BY <1>1, <1>2, <1>3

-----------------------------------------------------------------------------
(* The JIRA bridge.  A ticket keeps its field, one that is done has been   *)
(* resolved and one that is not listed was seen to go; what the poller     *)
(* tracks is a ticket with the hash it is linked to, so what a full search *)
(* did not show has been resolved or went out of sight.                    *)

IsIssue(x) == x = [field |-> x.field, status |-> x.status, listed |-> x.listed] /\ \E h : x.field = Jira!Link(h)
\* A ticket with this field is on record as out of sight.
Unseen(field, cut) == \A h \in Hashes : field = Jira!Link(h) => <<"unlisted", h>> \in cut
TicketsSound ==
    /\ IsSeq(issues) /\ \A k \in DOMAIN issues : IsIssue(issues[k])
    /\ \A k \in DOMAIN issues : issues[k].status = "done" => k \in resolved
    /\ \A k \in DOMAIN issues : issues[k].listed \/ Unseen(issues[k].field, skipped)
\* t pairs a ticket with the hash in its field.
Pairs(t, is) == t[1] \in DOMAIN is /\ t[2] # Jira!NoHash /\ is[t[1]].field = Jira!Link(t[2])
IsPoll(p) ==
    \/ p = Jira!Waiting
    \/ p = [step |-> "closing", current |-> p.current, todo |-> p.todo, full |-> p.full]
PollSound(p, is, done, cut) ==
    p.step = "closing" =>
        /\ \A t \in p.current \cup p.todo : Pairs(t, is)
        /\ p.full => \A t \in p.todo : t[1] \in done \/ Unseen(is[t[1]].field, cut)
ClosedFor(h, is, done, cut) ==
    <<"cut", h>> \in cut \/ <<"unlisted", h>> \in cut \/ \E k \in done \cap DOMAIN is : is[k].field = Jira!Link(h)
PollerInv ==
    /\ recs = [h \in Hashes |-> recs[h]]
    /\ \A t \in tracked : Pairs(t, issues)
    /\ IsPoll(poll) /\ PollSound(poll, issues, resolved, skipped)
    /\ \A h \in Hashes : recs[h] = "close" => ClosedFor(h, issues, resolved, skipped)

\* Tickets are added and keep their fields.
TicketsGrow ==
    /\ DOMAIN issues \subseteq DOMAIN issues' /\ resolved \subseteq resolved' /\ skipped \subseteq skipped'
    /\ \A k \in DOMAIN issues : issues'[k].field = issues[k].field

(* More tickets change nothing for the poller.                             *)
LEMMA PollerStays ==
  ASSUME PollerInv, TicketsGrow, UNCHANGED <<recs, tracked, poll>>
  PROVE  PollerInv'
<1>1. \A t : Pairs(t, issues) => Pairs(t, issues')
  BY DEF Pairs, TicketsGrow
<1>2. PollSound(poll, issues', resolved', skipped')
  BY <1>1 DEF PollerInv, PollSound, TicketsGrow, Unseen, Pairs
<1>3. \A h : ClosedFor(h, issues, resolved, skipped) => ClosedFor(h, issues', resolved', skipped')
  BY DEF ClosedFor, TicketsGrow
<1>. QED
  BY <1>1, <1>2, <1>3 DEF PollerInv

(* A ticket is filed.                                                      *)
LEMMA TicketFiled ==
  ASSUME NEW h, TicketsSound, UNCHANGED <<resolved, skipped>>,
         issues' = Append(issues, [field |-> Jira!Link(h), status |-> "todo", listed |-> TRUE])
  PROVE  TicketsSound' /\ TicketsGrow /\ Len(issues) \in Nat /\ Len(issues') = Len(issues) + 1
<1>1. PICK x : x = [field |-> Jira!Link(h), status |-> "todo", listed |-> TRUE]
  OBVIOUS
<1>2. x.field = Jira!Link(h) /\ x.status = "todo" /\ x.listed /\ IsIssue(x)
  BY <1>1 DEF IsIssue
<1>3. /\ IsSeq(issues') /\ Len(issues) \in Nat /\ DOMAIN issues = 1..Len(issues)
      /\ DOMAIN issues' = 1..(Len(issues) + 1) /\ issues'[Len(issues) + 1] = x
      /\ \A i \in DOMAIN issues : issues'[i] = issues[i]
  BY <1>1, OneMore DEF TicketsSound
<1>4. \A i \in DOMAIN issues' : i \in DOMAIN issues \/ i = Len(issues) + 1
  BY <1>3
<1>5. TicketsSound'
  <2>1. \A k \in DOMAIN issues' :
           /\ IsIssue(issues'[k]) /\ (issues'[k].status = "done" => k \in resolved')
           /\ issues'[k].listed \/ Unseen(issues'[k].field, skipped')
    BY <1>2, <1>3, <1>4 DEF TicketsSound
  <2>. QED
    BY <1>3, <2>1 DEF TicketsSound
<1>6. DOMAIN issues \subseteq DOMAIN issues'
  BY <1>3
<1>7. Len(issues') = Len(issues) + 1
  <2>1. Len(issues') \in Nat /\ DOMAIN issues' = 1..Len(issues')
    BY <1>3, OneMore
  <2>. QED
    BY <1>3, <2>1
<1>. QED
  BY <1>3, <1>5, <1>6, <1>7 DEF TicketsGrow

(* A list is a sequence.                                                   *)
LEMMA ListIsSeq == ASSUME NEW T, NEW n \in Nat, NEW f \in [1..n -> T] PROVE f \in Seq(T)
BY SeqDef, Zenon

(* A ticket changes, and keeps its field.                                  *)
LEMMA TicketChanged ==
  ASSUME NEW k \in DOMAIN issues, NEW y, TicketsSound, issues' = [issues EXCEPT ![k] = y],
         IsIssue(y), y.field = issues[k].field, resolved \subseteq resolved', skipped \subseteq skipped',
         y.status = "done" => k \in resolved', y.listed \/ Unseen(y.field, skipped')
  PROVE  TicketsSound' /\ TicketsGrow /\ Len(issues') = Len(issues)
<1>1. DOMAIN issues' = DOMAIN issues /\ IsSeq(issues) /\ Len(issues) \in Nat /\ DOMAIN issues = 1..Len(issues)
  BY OneMore DEF TicketsSound
<1>2. issues'[k] = y /\ \A j \in DOMAIN issues \ {k} : issues'[j] = issues[j]
  OBVIOUS
<1>3. IsSeq(issues')
  <2>1. PICK S : issues \in Seq(S)
    BY <1>1 DEF IsSeq
  <2>2. PICK T : T = S \cup {y}
    OBVIOUS
  <2>3. \A i \in 1..Len(issues) : issues'[i] \in T
    BY <1>1, <1>2, <2>1, <2>2
  <2>4. issues' = [i \in 1..Len(issues) |-> issues'[i]]
    BY <1>1, <2>1
  <2>5. issues' \in [1..Len(issues) -> T]
    BY <2>3, <2>4
  <2>6. PICK n \in Nat : n = Len(issues)
    BY <1>1
  <2>7. issues' \in Seq(T)
    BY <2>5, <2>6, ListIsSeq
  <2>. QED
    BY <2>7 DEF IsSeq
<1>4. TicketsGrow
  BY <1>1, <1>2 DEF TicketsGrow
<1>5. TicketsSound'
  <2>1. \A j \in DOMAIN issues' :
           /\ IsIssue(issues'[j]) /\ (issues'[j].status = "done" => j \in resolved')
           /\ issues'[j].listed \/ Unseen(issues'[j].field, skipped')
    BY <1>1, <1>2 DEF TicketsSound, Unseen
  <2>. QED
    BY <1>3, <2>1 DEF TicketsSound
<1>6. Len(issues') = Len(issues)
  <2>1. Len(issues') \in Nat /\ DOMAIN issues' = 1..Len(issues')
    BY <1>3, OneMore
  <2>. QED
    BY <1>1, <2>1
<1>. QED
  BY <1>4, <1>5, <1>6

(* A ticket that is not there does not change.                             *)
LEMMA NoTicket ==
  ASSUME NEW k, NEW y, TicketsSound, k \notin DOMAIN issues, issues' = [issues EXCEPT ![k] = y]
  PROVE  issues' = issues
<1>1. PICK S : issues \in Seq(S)
  BY DEF TicketsSound, IsSeq
<1>2. issues = [i \in DOMAIN issues |-> issues[i]]
  BY <1>1
<1>. QED
  BY <1>2

(* A ticket is given a status.                                             *)
LEMMA TicketMoved ==
  ASSUME NEW k, NEW s, TicketsSound, issues' = [issues EXCEPT ![k].status = s],
         resolved \subseteq resolved', skipped' = skipped, s = "done" => k \in resolved'
  PROVE  TicketsSound' /\ TicketsGrow /\ Len(issues') = Len(issues)
<1>1. PICK x : x = issues[k]
  OBVIOUS
<1>2. PICK y : y = [x EXCEPT !.status = s]
  OBVIOUS
<1>3. issues' = [issues EXCEPT ![k] = y]
  BY <1>1, <1>2
<1>4. CASE k \notin DOMAIN issues
  <2>1. issues' = issues
    BY <1>3, <1>4, NoTicket
  <2>. QED
    BY <2>1 DEF TicketsSound, TicketsGrow
<1>5. CASE k \in DOMAIN issues
  <2>1. IsIssue(x) /\ (x.listed \/ Unseen(x.field, skipped))
    BY <1>1, <1>5 DEF TicketsSound
  <2>2. PICK f, o, l : x = [field |-> f, status |-> o, listed |-> l]
    BY <2>1 DEF IsIssue
  <2>3. y = [field |-> f, status |-> s, listed |-> l] /\ x.field = f /\ x.listed = l
    BY <1>2, <2>2
  <2>4. y.field = x.field /\ y.status = s /\ y.listed = x.listed /\ IsIssue(y)
    BY <2>1, <2>3 DEF IsIssue
  <2>. QED
    BY <1>1, <1>3, <1>5, <2>1, <2>4, TicketChanged
<1>. QED
  BY <1>4, <1>5

(* A ticket goes out of the query's sight, or comes back.                  *)
LEMMA TicketRelisted ==
  ASSUME NEW k, TicketsSound, Jira!Relist(k)
  PROVE  TicketsSound' /\ TicketsGrow /\ Len(issues') = Len(issues)
<1>1. PICK x : x = issues[k]
  OBVIOUS
<1>2. PICK y : y = [x EXCEPT !.listed = ~@]
  OBVIOUS
<1>3. issues' = [issues EXCEPT ![k] = y] /\ resolved' = resolved /\ k \in DOMAIN issues
  BY <1>1, <1>2, OneMore DEF Jira!Relist, Jira!Keys, TicketsSound
<1>4. skipped' = skipped \cup {<<"unlisted", h>> : h \in {z \in Hashes : x.field = Jira!Link(z)}}
  BY <1>1 DEF Jira!Relist
<1>5. Unseen(x.field, skipped')
  BY <1>4 DEF Unseen
<1>6. IsIssue(x) /\ (x.status = "done" => k \in resolved)
  BY <1>1, <1>3 DEF TicketsSound
<1>7. PICK f, o, l : x = [field |-> f, status |-> o, listed |-> l]
  BY <1>6 DEF IsIssue
<1>8. y = [field |-> f, status |-> o, listed |-> ~l] /\ x.field = f /\ x.status = o
  BY <1>2, <1>7
<1>9. y.field = x.field /\ y.status = x.status /\ IsIssue(y)
  BY <1>6, <1>8 DEF IsIssue
<1>10. skipped \subseteq skipped'
  BY <1>4
<1>. QED
  BY <1>1, <1>3, <1>5, <1>6, <1>9, <1>10, TicketChanged

(* Nothing happens to the tickets.                                         *)
LEMMA TicketsStay ==
  ASSUME TicketsSound, issues' = issues, resolved \subseteq resolved', skipped \subseteq skipped'
  PROVE  TicketsSound' /\ TicketsGrow
BY DEF TicketsSound, TicketsGrow, Unseen

(* A link read back is the hash it was made for.                           *)
LEMMA LinkRead ==
  ASSUME NEW k \in DOMAIN issues, TicketsSound, issues[k].field # <<>>
  PROVE  Pairs(Jira!Linked(k), issues) /\ Jira!Linked(k)[1] = k
<1>1. PICK h : issues[k].field = Jira!Link(h)
  BY DEF TicketsSound, IsIssue
<1>2. h # Jira!NoHash /\ issues[k].field = <<"link", h>>
  BY <1>1 DEF Jira!Link
<1>3. Jira!extractHash(issues[k].field) = h
  BY <1>2 DEF Jira!extractHash
<1>4. PICK t : t = Jira!Linked(k)
  OBVIOUS
<1>5. t = <<k, h>>
  BY <1>3, <1>4 DEF Jira!Linked
<1>6. t[1] = k /\ t[2] = h
  BY <1>5
<1>. QED
  BY <1>1, <1>2, <1>4, <1>6 DEF Pairs

(* A search, and what it did not show.                                     *)
LEMMA PollerSearches == TicketsSound /\ PollerInv /\ Jira!cycle => PollerInv'
<1> SUFFICES ASSUME TicketsSound, PollerInv, Jira!cycle PROVE PollerInv'
  OBVIOUS
<1>1. PICK s \in Jira!Found :
        poll' = [step |-> "closing", current |-> {Jira!Linked(k) : k \in {i \in s : issues[i].field # <<>>}},
                 todo |-> {t \in tracked : \A c \in {Jira!Linked(k) : k \in {i \in s : issues[i].field # <<>>}} :
                                               c[1] # t[1]},
                 full |-> s = Jira!OpenIssues]
  BY DEF Jira!cycle
<1>2. UNCHANGED <<issues, recs, tracked, resolved, skipped>>
  BY DEF Jira!cycle
<1>3. PICK current : current = {Jira!Linked(k) : k \in {i \in s : issues[i].field # <<>>}}
  OBVIOUS
<1>4. PICK todo : todo = {t \in tracked : \A c \in current : c[1] # t[1]}
  OBVIOUS
<1>5. PICK full : full = (s = Jira!OpenIssues)
  OBVIOUS
<1>6. poll' = [step |-> "closing", current |-> current, todo |-> todo, full |-> full]
  BY <1>1, <1>3, <1>4, <1>5
<1>7. poll'.step = "closing" /\ poll'.current = current /\ poll'.todo = todo /\ poll'.full = full
  BY <1>6
<1>8. DOMAIN issues = 1..Len(issues)
  BY OneMore DEF TicketsSound
<1>9. \A k \in s : k \in DOMAIN issues
  BY <1>8 DEF Jira!Found, Jira!OpenIssues, Jira!Keys
<1>10. \A t \in current : Pairs(t, issues)
  BY <1>3, <1>9, LinkRead
<1>11. \A t \in todo : Pairs(t, issues) /\ t \in tracked /\ \A c \in current : c[1] # t[1]
  BY <1>4 DEF PollerInv
<1>12. ASSUME full PROVE \A t \in todo : t[1] \in resolved \/ Unseen(issues[t[1]].field, skipped)
  <2> SUFFICES ASSUME NEW t \in todo PROVE t[1] \in resolved \/ Unseen(issues[t[1]].field, skipped)
    OBVIOUS
  <2>1. t[1] \in DOMAIN issues /\ t[2] # Jira!NoHash /\ issues[t[1]].field = Jira!Link(t[2])
    BY <1>11 DEF Pairs
  <2>2. issues[t[1]].field # <<>>
    <3>1. issues[t[1]].field = <<"link", t[2]>>
      BY <2>1 DEF Jira!Link
    <3>. QED
      BY <3>1
  <2>3. t[1] \notin s
    <3> SUFFICES ASSUME t[1] \in s PROVE FALSE
      OBVIOUS
    <3>1. Jira!Linked(t[1]) \in current /\ Jira!Linked(t[1])[1] = t[1]
      BY <1>3, <2>1, <2>2, LinkRead
    <3>. QED
      BY <1>11, <3>1
  <2>4. s = Jira!OpenIssues
    BY <1>5, <1>12
  <2>5. issues[t[1]].status = "done" \/ ~issues[t[1]].listed
    BY <1>8, <2>1, <2>2, <2>3, <2>4 DEF Jira!OpenIssues, Jira!Keys
  <2>. QED
    BY <2>1, <2>5 DEF TicketsSound
<1>13. PollSound(poll', issues, resolved, skipped)
  BY <1>7, <1>10, <1>11, <1>12 DEF PollSound
<1>14. IsPoll(poll')
  BY <1>6, <1>7 DEF IsPoll
<1>. QED
  BY <1>2, <1>13, <1>14 DEF PollerInv

(* A record is closed, or its close fails.                                 *)
LEMMA PollerCloses == PollerInv /\ Jira!closeSnoozeRecord => PollerInv'
<1> SUFFICES ASSUME PollerInv, Jira!closeSnoozeRecord PROVE PollerInv'
  OBVIOUS
<1>1. UNCHANGED <<issues, tracked, resolved>> /\ poll.step = "closing"
  BY DEF Jira!closeSnoozeRecord
<1>2. PICK t \in poll.todo :
        /\ poll' = [poll EXCEPT !.todo = @ \ {t}]
        /\ \/ /\ recs' = IF recs[t[2]] = "gone" THEN recs ELSE [recs EXCEPT ![t[2]] = "close"]
              /\ skipped' = IF poll.full THEN skipped ELSE skipped \cup {<<"cut", t[2]>>}
           \/ skipped' = skipped \cup {<<"lost", t[2]>>} /\ UNCHANGED recs
  BY DEF Jira!closeSnoozeRecord
<1>3. PICK c, d, f : poll = [step |-> "closing", current |-> c, todo |-> d, full |-> f]
  BY <1>1 DEF PollerInv, IsPoll, Jira!Waiting
<1>4. poll' = [step |-> "closing", current |-> c, todo |-> d \ {t}, full |-> f]
  BY <1>2, <1>3
<1>5. poll.current = c /\ poll.todo = d /\ poll.full = f
  BY <1>3
<1>6. poll'.current = c /\ poll'.todo = d \ {t} /\ poll'.full = f
  BY <1>4
<1>7. (\A u \in c \cup d : Pairs(u, issues)) /\ (f => \A u \in d : u[1] \in resolved \/ Unseen(issues[u[1]].field, skipped))
  BY <1>1, <1>5 DEF PollerInv, PollSound
<1>9. skipped \subseteq skipped'
  BY <1>2
<1>8. PollSound(poll', issues, resolved, skipped') /\ IsPoll(poll')
  BY <1>4, <1>6, <1>7, <1>9 DEF PollSound, IsPoll, Unseen
<1>10. \A h : ClosedFor(h, issues, resolved, skipped) => ClosedFor(h, issues, resolved, skipped')
  BY <1>9 DEF ClosedFor
<1>11. CASE UNCHANGED recs
  BY <1>1, <1>8, <1>10, <1>11 DEF PollerInv
<1>12. CASE /\ recs' = [recs EXCEPT ![t[2]] = "close"]
            /\ skipped' = IF poll.full THEN skipped ELSE skipped \cup {<<"cut", t[2]>>}
  <2>1. Pairs(t, issues) /\ (f => t[1] \in resolved \/ Unseen(issues[t[1]].field, skipped))
    BY <1>2, <1>5, <1>7
  <2>2. t[2] \in Hashes => ClosedFor(t[2], issues, resolved, skipped')
    BY <1>5, <1>9, <1>12, <2>1 DEF ClosedFor, Pairs, Unseen
  <2>3. \A h \in Hashes : recs'[h] = "close" => h = t[2] \/ recs[h] = "close"
    BY <1>12 DEF PollerInv
  <2>4. recs' = [h \in Hashes |-> recs'[h]]
    BY <1>12 DEF PollerInv
  <2>. QED
    BY <1>1, <1>8, <1>10, <2>2, <2>3, <2>4 DEF PollerInv
<1>. QED
  BY <1>2, <1>11, <1>12

(* The rest of the poller, a restart and the housekeeper.                  *)
LEMMA PollerRests ==
  PollerInv /\ (Jira!SearchFails \/ Jira!CycleEnds \/ Jira!Restart \/ Jira!RecordGone) => PollerInv'
<1> SUFFICES ASSUME PollerInv, Jira!SearchFails \/ Jira!CycleEnds \/ Jira!Restart \/ Jira!RecordGone
             PROVE  PollerInv'
  OBVIOUS
<1>1. UNCHANGED <<issues, resolved>> /\ skipped \subseteq skipped'
  BY DEF Jira!SearchFails, Jira!CycleEnds, Jira!Restart, Jira!RecordGone
<1>2. \A h : ClosedFor(h, issues, resolved, skipped) => ClosedFor(h, issues, resolved, skipped')
  BY <1>1 DEF ClosedFor
<1>3. /\ IsPoll(Jira!Waiting) /\ PollSound(Jira!Waiting, issues, resolved, skipped')
      /\ PollSound(poll, issues, resolved, skipped')
  BY <1>1 DEF IsPoll, PollSound, Jira!Waiting, PollerInv, Unseen
<1>4. /\ recs' = [h \in Hashes |-> recs'[h]] /\ \A h \in Hashes : recs'[h] = "close" => recs[h] = "close"
  BY DEF Jira!SearchFails, Jira!CycleEnds, Jira!Restart, Jira!RecordGone, PollerInv
<1>5. (poll' = poll \/ poll' = Jira!Waiting) /\ \A t \in tracked' : Pairs(t, issues)
  BY DEF Jira!SearchFails, Jira!CycleEnds, Jira!Restart, Jira!RecordGone, PollerInv, PollSound
<1>. QED
  BY <1>1, <1>2, <1>3, <1>4, <1>5 DEF PollerInv

\* A request of the webhook: its batch is a list, it has tried the envelopes
\* up to the one it is at, asked JIRA for no more tickets than it has tries,
\* and the tickets it names are there.
JiraFields == {"step", "batch", "i", "try", "key", "to", "asString", "made", "tried", "out"}
WholeRequest(r, n) ==
    /\ r = [x \in JiraFields |-> r[x]] /\ IsSeq(r.batch)
    /\ \A i \in DOMAIN r.batch : r.batch[i].prior \in 0..n
    /\ r.i \in Nat \ {0} /\ r.made \in 0..RetryAttempts
    /\ r.key \in 0..n /\ \A o \in r.out : o[2] \in 1..n
AtEnvelope(r) == r.i <= Jira!limit(r) /\ r.tried = 1..r.i
Counted(r) ==
    /\ r.step = "create" => r.try \in 1..RetryAttempts /\ r.made < r.try /\ (Jira!WantsString(r) => r.made = 0)
    /\ r.step = "user" => r.made = 0
RequestSound(r, n) ==
    /\ WholeRequest(r, n) /\ r.step # "idle"
    /\ r.step = "answer" => r.tried = 1..Jira!limit(r)
    /\ r.step # "answer" => AtEnvelope(r) /\ Counted(r)
JiraRequests ==
    /\ req = [h \in Handlers |-> req[h]]
    /\ \A h \in Handlers : req[h] = Jira!Idle \/ RequestSound(req[h], Len(issues))

(* The least of two numbers.                                               *)
LEMMA LeastOfTwo ==
  ASSUME NEW a \in Nat, NEW b \in Nat
  PROVE  Jira!Min({a, b}) \in Nat /\ Jira!Min({a, b}) <= b
<1>1. \E x \in {a, b} : \A y \in {a, b} : x <= y
  <2>1. CASE a <= b
    BY <2>1
  <2>2. CASE b <= a
    BY <2>2
  <2>. QED
    BY <2>1, <2>2
<1>2. /\ Jira!Min({a, b}) \in {a, b} /\ \A y \in {a, b} : Jira!Min({a, b}) <= y
  BY <1>1 DEF Jira!Min
<1>. QED
  BY <1>2

(* The limit of a batch is within it.                                      *)
LEMMA LimitWithin ==
  ASSUME NEW r, IsSeq(r.batch)
  PROVE  /\ Jira!limit(r) \in Nat /\ Len(r.batch) \in Nat /\ DOMAIN r.batch = 1..Len(r.batch)
         /\ Jira!limit(r) <= Len(r.batch)
<1>1. Len(r.batch) \in Nat /\ DOMAIN r.batch = 1..Len(r.batch) /\ MessageLimit \in Nat
  BY OneMore, SourcesAssumption
<1>. QED
  BY <1>1, LeastOfTwo DEF Jira!limit

HasFields(r) == r = [x \in JiraFields |-> r[x]]
\* What Begin does to the fields.
Begun(q, r, s, k, t) ==
    q = [r EXCEPT !.step = s, !.try = 1, !.key = k, !.tried = t, !.asString = FALSE, !.made = 0]

(* What Begin does to the fields, and what Step does.                      *)
LEMMA BeginFields ==
  ASSUME NEW r, HasFields(r), NEW s, NEW k, NEW t, NEW q,
         Begun(q, r, s, k, t)
  PROVE  /\ HasFields(q) /\ q.step = s /\ q.try = 1 /\ q.key = k /\ q.tried = t
         /\ q.made = 0 /\ q.batch = r.batch /\ q.i = r.i /\ q.out = r.out
<1>1. PICK q1 : q1 = [r EXCEPT !.step = s]
  OBVIOUS
<1>2. PICK q2 : q2 = [q1 EXCEPT !.try = 1]
  OBVIOUS
<1>3. PICK q3 : q3 = [q2 EXCEPT !.key = k]
  OBVIOUS
<1>4. PICK q4 : q4 = [q3 EXCEPT !.tried = t]
  OBVIOUS
<1>5. PICK q5 : q5 = [q4 EXCEPT !.asString = FALSE]
  OBVIOUS
<1>6. q = [q5 EXCEPT !.made = 0]
  BY <1>1, <1>2, <1>3, <1>4, <1>5 DEF Begun
<1>7. q1 = [x \in JiraFields |-> q1[x]] /\ q1.step = s /\ q1.batch = r.batch /\ q1.i = r.i /\ q1.out = r.out
  BY <1>1 DEF JiraFields, HasFields
<1>8. q2 = [x \in JiraFields |-> q2[x]] /\ q2.step = s /\ q2.try = 1 /\ q2.batch = r.batch /\ q2.i = r.i /\ q2.out = r.out
  BY <1>2, <1>7 DEF JiraFields
<1>9. /\ q3 = [x \in JiraFields |-> q3[x]] /\ q3.step = s /\ q3.try = 1 /\ q3.key = k
      /\ q3.batch = r.batch /\ q3.i = r.i /\ q3.out = r.out
  BY <1>3, <1>8 DEF JiraFields
<1>10. /\ q4 = [x \in JiraFields |-> q4[x]] /\ q4.step = s /\ q4.try = 1 /\ q4.key = k /\ q4.tried = t
       /\ q4.batch = r.batch /\ q4.i = r.i /\ q4.out = r.out
  BY <1>4, <1>9 DEF JiraFields
<1>11. /\ q5 = [x \in JiraFields |-> q5[x]] /\ q5.step = s /\ q5.try = 1 /\ q5.key = k /\ q5.tried = t
       /\ q5.batch = r.batch /\ q5.i = r.i /\ q5.out = r.out
  BY <1>5, <1>10 DEF JiraFields
<1>. QED
  BY <1>6, <1>11 DEF JiraFields, HasFields

(* A request takes its next envelope, or has no more.                      *)
LEMMA RequestBegins ==
  ASSUME NEW r, NEW n \in Nat, WholeRequest(r, n), r.tried = 1..(r.i - 1), r.i - 1 <= Jira!limit(r)
  PROVE  RequestSound(Jira!Begin(r), n)
<1>1. /\ Jira!limit(r) \in Nat /\ DOMAIN r.batch = 1..Len(r.batch) /\ Jira!limit(r) <= Len(r.batch)
      /\ Len(r.batch) \in Nat /\ r.i \in Nat \ {0}
  BY LimitWithin DEF WholeRequest
<1>2. RetryAttempts \in Nat \ {0}
  BY SourcesAssumption
<1>3. CASE r.i > Jira!limit(r)
  <2>1. PICK q : q = [r EXCEPT !.step = "answer"]
    OBVIOUS
  <2>2. /\ q = [x \in JiraFields |-> q[x]] /\ q.step = "answer"
        /\ \A x \in JiraFields \ {"step"} : q[x] = r[x]
    BY <2>1 DEF WholeRequest, JiraFields
  <2>3. q.batch = r.batch /\ q.i = r.i /\ q.made = r.made /\ q.key = r.key /\ q.out = r.out /\ q.tried = r.tried
    BY <2>2 DEF JiraFields
  <2>4. Jira!Begin(r) = q
    BY <1>3, <2>1 DEF Jira!Begin
  <2>5. Jira!limit(q) = Jira!limit(r)
    BY <2>3 DEF Jira!limit
  <2>6. r.i - 1 = Jira!limit(r)
    BY <1>1, <1>3
  <2>7. WholeRequest(q, n)
    BY <2>2, <2>3 DEF WholeRequest
  <2>. QED
    BY <2>2, <2>3, <2>4, <2>5, <2>6, <2>7 DEF RequestSound
<1>4. CASE r.i <= Jira!limit(r)
  <2>1. PICK k : k = Jira!Env(r).prior
    OBVIOUS
  <2>2. PICK t : t = r.tried \cup {r.i}
    OBVIOUS
  <2>3. PICK s : s = CASE Jira!Env(r).prior # Jira!NoIssue -> "comment"
                       [] Jira!Env(r).prior = Jira!NoIssue /\ Jira!NeedsLookup(Jira!Env(r)) -> "user"
                       [] OTHER -> "create"
    OBVIOUS
  <2>4. s \in {"comment", "user", "create"}
    BY <2>3
  <2>5. PICK q : Begun(q, r, s, k, t)
    BY DEF Begun
  <2>0. HasFields(r)
    BY DEF WholeRequest, HasFields
  <2>6. /\ HasFields(q) /\ q.step = s /\ q.try = 1 /\ q.key = k /\ q.tried = t
        /\ q.made = 0 /\ q.batch = r.batch /\ q.i = r.i /\ q.out = r.out
    BY <2>0, <2>5, BeginFields
  <2>7. Jira!Begin(r) = q
    BY <1>1, <1>4, <2>1, <2>2, <2>3, <2>5 DEF Jira!Begin, Begun
  <2>8. r.i \in DOMAIN r.batch
    BY <1>1, <1>4
  <2>9. k \in 0..n
    BY <2>1, <2>8 DEF WholeRequest, Jira!Env
  <2>10. t = 1..r.i
    BY <1>1, <2>2
  <2>11. Jira!limit(q) = Jira!limit(r)
    BY <2>6 DEF Jira!limit
  <2>12. WholeRequest(q, n)
    <3>1. /\ IsSeq(r.batch) /\ \A i \in DOMAIN r.batch : r.batch[i].prior \in 0..n
          /\ \A o \in r.out : o[2] \in 1..n
      BY DEF WholeRequest
    <3>2. q.made \in 0..RetryAttempts /\ q.i \in Nat \ {0} /\ q.key \in 0..n
      BY <1>1, <1>2, <2>6, <2>9
    <3>. QED
      BY <2>6, <3>1, <3>2 DEF WholeRequest, HasFields
  <2>13. AtEnvelope(q)
    BY <1>4, <2>6, <2>10, <2>11 DEF AtEnvelope
  <2>14. Counted(q)
    BY <1>2, <2>6 DEF Counted
  <2>. QED
    BY <2>4, <2>6, <2>7, <2>12, <2>13, <2>14 DEF RequestSound
<1>. QED
  BY <1>1, <1>3, <1>4

(* It is done with an envelope.                                            *)
LEMMA RequestAfter ==
  ASSUME NEW r, NEW n \in Nat, WholeRequest(r, n), AtEnvelope(r)
  PROVE  RequestSound(Jira!After(r), n)
<1>1. PICK out : out = IF r.key = Jira!NoIssue \/ Jira!Env(r).hash = Jira!NoHash THEN r.out
                       ELSE r.out \cup {<<Jira!Env(r).hash, r.key>>}
  OBVIOUS
<1>2. PICK j : j = r.i + 1
  OBVIOUS
<1>3. PICK p : p = [r EXCEPT !.i = j]
  OBVIOUS
<1>4. PICK q : q = [p EXCEPT !.out = out]
  OBVIOUS
<1>5. r = [x \in JiraFields |-> r[x]] /\ r.i \in Nat \ {0}
  BY DEF WholeRequest
<1>6. q = [r EXCEPT !.i = @ + 1, !.out = out]
  BY <1>2, <1>3, <1>4, <1>5 DEF JiraFields
<1>7. Jira!After(r) = Jira!Begin(q)
  BY <1>1, <1>6 DEF Jira!After
<1>8. p = [x \in JiraFields |-> p[x]] /\ p.i = j /\ \A x \in JiraFields \ {"i"} : p[x] = r[x]
  BY <1>3, <1>5 DEF JiraFields
<1>9. q = [x \in JiraFields |-> q[x]] /\ q.out = out /\ q.i = j /\ \A x \in JiraFields \ {"i", "out"} : q[x] = r[x]
  BY <1>4, <1>8 DEF JiraFields
<1>10. q.batch = r.batch /\ q.made = r.made /\ q.key = r.key /\ q.tried = r.tried
  BY <1>9 DEF JiraFields
<1>11. \A o \in out : o[2] \in 1..n
  <2>1. \A o \in r.out : o[2] \in 1..n
    BY DEF WholeRequest
  <2>2. r.key # 0 => r.key \in 1..n
    BY DEF WholeRequest
  <2>3. \A a : <<a, r.key>>[2] = r.key
    OBVIOUS
  <2>. QED
    BY <1>1, <2>1, <2>2, <2>3 DEF Jira!NoIssue
<1>12. WholeRequest(q, n)
  <2>1. /\ IsSeq(r.batch) /\ \A i \in DOMAIN r.batch : r.batch[i].prior \in 0..n
        /\ r.made \in 0..RetryAttempts /\ r.key \in 0..n
    BY DEF WholeRequest
  <2>2. q.i \in Nat \ {0}
    BY <1>2, <1>5, <1>9
  <2>. QED
    BY <1>9, <1>10, <1>11, <2>1, <2>2 DEF WholeRequest
<1>13. Jira!limit(q) = Jira!limit(r)
  BY <1>10 DEF Jira!limit
<1>14. q.tried = 1..(q.i - 1) /\ q.i - 1 <= Jira!limit(q)
  BY <1>2, <1>5, <1>9, <1>10, <1>13 DEF AtEnvelope
<1>. QED
  BY <1>7, <1>12, <1>14, RequestBegins

(* More tickets are no harm to a request.                                  *)
LEMMA RequestGrows ==
  ASSUME NEW r, NEW n \in Nat, NEW m \in Nat, n <= m, RequestSound(r, n)
  PROVE  RequestSound(r, m)
<1>1. \A x \in 0..n : x \in 0..m
  OBVIOUS
<1>2. \A x \in 1..n : x \in 1..m
  OBVIOUS
<1>3. WholeRequest(r, n)
  BY DEF RequestSound
<1>4. WholeRequest(r, m)
  BY <1>1, <1>2, <1>3 DEF WholeRequest
<1>. QED
  BY <1>4 DEF RequestSound

(* One handler's request changes.                                          *)
LEMMA OneHandled ==
  ASSUME NEW h \in Handlers, NEW q, JiraRequests, TicketsSound, TicketsSound',
         Len(issues) <= Len(issues'), req' = [req EXCEPT ![h] = q],
         q = Jira!Idle \/ RequestSound(q, Len(issues'))
  PROVE  JiraRequests'
<1>1. Len(issues) \in Nat /\ Len(issues') \in Nat
  BY OneMore DEF TicketsSound
<1>2. req' = [g \in Handlers |-> req'[g]] /\ req'[h] = q /\ \A g \in Handlers \ {h} : req'[g] = req[g]
  BY DEF JiraRequests
<1>3. \A g \in Handlers : req[g] = Jira!Idle \/ RequestSound(req[g], Len(issues'))
  BY <1>1, RequestGrows DEF JiraRequests
<1>4. \A g \in Handlers : req'[g] = Jira!Idle \/ RequestSound(req'[g], Len(issues'))
  BY <1>2, <1>3
<1>. QED
  BY <1>2, <1>4 DEF JiraRequests

(* No handler's does.                                                      *)
LEMMA NoneHandled ==
  ASSUME JiraRequests, TicketsSound, TicketsSound', Len(issues) <= Len(issues'), req' = req
  PROVE  JiraRequests'
<1>1. Len(issues) \in Nat /\ Len(issues') \in Nat
  BY OneMore DEF TicketsSound
<1>2. \A g \in Handlers : req[g] = Jira!Idle \/ RequestSound(req[g], Len(issues'))
  BY <1>1, RequestGrows DEF JiraRequests
<1>. QED
  BY <1>2 DEF JiraRequests

(* A field that no count is about is set.                                  *)
LEMMA RequestSet ==
  ASSUME NEW r, NEW n \in Nat, WholeRequest(r, n), AtEnvelope(r), NEW f \in {"try", "key", "to", "step"}, NEW v,
         f = "key" => v \in 0..n
  PROVE  /\ WholeRequest([r EXCEPT ![f] = v], n) /\ AtEnvelope([r EXCEPT ![f] = v])
         /\ [r EXCEPT ![f] = v][f] = v
         /\ \A x \in JiraFields \ {f} : [r EXCEPT ![f] = v][x] = r[x]
<1>1. PICK q : q = [r EXCEPT ![f] = v]
  OBVIOUS
<1>2. q = [x \in JiraFields |-> q[x]] /\ q[f] = v /\ \A x \in JiraFields \ {f} : q[x] = r[x]
  BY <1>1 DEF WholeRequest, JiraFields
<1>3. q.batch = r.batch /\ q.i = r.i /\ q.made = r.made /\ q.out = r.out /\ q.tried = r.tried
  BY <1>2 DEF JiraFields
<1>4. q.key \in 0..n
  <2>1. CASE f = "key"
    BY <1>2, <2>1
  <2>2. CASE f # "key"
    BY <1>2, <2>2 DEF JiraFields, WholeRequest
  <2>. QED
    BY <2>1, <2>2
<1>5. WholeRequest(q, n)
  BY <1>2, <1>3, <1>4 DEF WholeRequest
<1>6. Jira!limit(q) = Jira!limit(r)
  BY <1>3 DEF Jira!limit
<1>7. AtEnvelope(q)
  BY <1>3, <1>6 DEF AtEnvelope
<1>. QED
  BY <1>1, <1>2, <1>5, <1>7

(* A request goes on to another call of its envelope.                      *)
LEMMA RequestSteps ==
  ASSUME NEW r, NEW n \in Nat, WholeRequest(r, n), AtEnvelope(r),
         NEW s \in {"get", "transitions", "transition", "create"}, s = "create" => r.made = 0
  PROVE  RequestSound(Jira!Step(r, s), n) /\ Jira!Step(r, s).step = s
<1>1. PICK p : p = [r EXCEPT !.step = s]
  OBVIOUS
<1>2. PICK q : q = [p EXCEPT !.try = 1]
  OBVIOUS
<1>3. q = Jira!Step(r, s)
  BY <1>1, <1>2 DEF Jira!Step
<1>4. WholeRequest(p, n) /\ AtEnvelope(p) /\ p.step = s /\ p.made = r.made
  BY <1>1, RequestSet DEF JiraFields
<1>5. WholeRequest(q, n) /\ AtEnvelope(q) /\ q.try = 1 /\ q.step = s /\ q.made = r.made
  BY <1>2, <1>4, RequestSet DEF JiraFields
<1>6. Counted(q)
  BY <1>5, SourcesAssumption DEF Counted
<1>. QED
  BY <1>3, <1>5, <1>6 DEF RequestSound

(* A call that failed.                                                     *)
LEMMA RequestFailing ==
  ASSUME NEW r, NEW n \in Nat, WholeRequest(r, n), AtEnvelope(r), r.step = "user" => r.made = 0
  PROVE  RequestSound(Jira!Failed(r), n)
<1>1. CASE r.step = "user"
  BY <1>1, RequestSteps DEF Jira!Failed
<1>2. CASE r.step # "user"
  BY <1>2, RequestAfter DEF Jira!Failed
<1>. QED
  BY <1>1, <1>2

(* One more request for a ticket is counted.                               *)
LEMMA RequestMade ==
  ASSUME NEW r, NEW n \in Nat, RequestSound(r, n), r.step # "answer"
  PROVE  /\ WholeRequest(Jira!Made(r), n) /\ AtEnvelope(Jira!Made(r))
         /\ Jira!Made(r).step = r.step /\ Jira!Made(r).key = r.key /\ Jira!Made(r).try = r.try
         /\ Jira!WantsString(Jira!Made(r)) => Jira!Made(r).made = 0
         /\ r.step = "create" => /\ r.try \in 1..RetryAttempts /\ Jira!Made(r).made <= r.try
                                 /\ Jira!Made(r).made \in Nat
         /\ r.step = "user" => Jira!Made(r).made = 0
<1>1. WholeRequest(r, n) /\ AtEnvelope(r) /\ Counted(r)
  BY DEF RequestSound
<1>2. CASE r.step # "create" \/ Jira!WantsString(r)
  <2>1. Jira!Made(r) = r
    BY <1>2 DEF Jira!Made
  <2>2. r.step = "create" => r.try \in 1..RetryAttempts /\ r.made <= r.try /\ r.made \in Nat
    BY <1>1, SourcesAssumption DEF Counted, WholeRequest
  <2>3. Jira!WantsString(r) => r.step = "create"
    BY DEF Jira!WantsString
  <2>. QED
    BY <1>1, <2>1, <2>2, <2>3 DEF Counted
<1>3. CASE r.step = "create" /\ ~Jira!WantsString(r)
  <2>1. r.try \in 1..RetryAttempts /\ r.made < r.try /\ r.made \in 0..RetryAttempts
    BY <1>1, <1>3 DEF Counted, WholeRequest
  <2>2. PICK m : m = r.made + 1
    OBVIOUS
  <2>3. m \in 0..RetryAttempts /\ m <= r.try
    BY <2>1, <2>2, SourcesAssumption
  <2>4. PICK q : q = [r EXCEPT !.made = m]
    OBVIOUS
  <2>5. r = [x \in JiraFields |-> r[x]]
    BY <1>1 DEF WholeRequest
  <2>6. q = Jira!Made(r)
    BY <1>3, <2>2, <2>4, <2>5 DEF Jira!Made, JiraFields
  <2>7. q = [x \in JiraFields |-> q[x]] /\ q.made = m /\ \A x \in JiraFields \ {"made"} : q[x] = r[x]
    BY <2>4, <2>5 DEF JiraFields
  <2>8. /\ q.batch = r.batch /\ q.i = r.i /\ q.key = r.key /\ q.out = r.out /\ q.tried = r.tried
        /\ q.step = r.step /\ q.try = r.try /\ q.asString = r.asString
    BY <2>7 DEF JiraFields
  <2>9. WholeRequest(q, n)
    BY <1>1, <2>3, <2>7, <2>8 DEF WholeRequest
  <2>10. AtEnvelope(q)
    <3>1. Jira!limit(q) = Jira!limit(r)
      BY <2>8 DEF Jira!limit
    <3>. QED
      BY <1>1, <2>8, <3>1 DEF AtEnvelope
  <2>11. ~Jira!WantsString(q)
    BY <1>3, <2>8 DEF Jira!WantsString
  <2>. QED
    BY <1>3, <2>1, <2>3, <2>6, <2>7, <2>8, <2>9, <2>10, <2>11
<1>. QED
  BY <1>2, <1>3

(* A request that had no answer is repeated, or has failed.                *)
LEMMA RequestAgain ==
  ASSUME NEW r, NEW n \in Nat, RequestSound(r, n), r.step # "answer"
  PROVE  RequestSound(Jira!Again(Jira!Made(r)), n)
<1>1. PICK p : p = Jira!Made(r)
  OBVIOUS
<1>2. /\ WholeRequest(p, n) /\ AtEnvelope(p) /\ p.step = r.step /\ p.try = r.try
      /\ Jira!WantsString(p) => p.made = 0
      /\ r.step = "create" => r.try \in 1..RetryAttempts /\ p.made <= r.try /\ p.made \in Nat
      /\ r.step = "user" => p.made = 0
  BY <1>1, RequestMade
<1>3. CASE ~(p.try < RetryAttempts)
  BY <1>1, <1>2, <1>3, RequestFailing DEF Jira!Again
<1>4. CASE p.try < RetryAttempts
  <2>1. PICK v : v = p.try + 1
    OBVIOUS
  <2>2. PICK q : q = [p EXCEPT !.try = v]
    OBVIOUS
  <2>3. /\ WholeRequest(q, n) /\ AtEnvelope(q) /\ q.try = v /\ q.step = p.step /\ q.made = p.made
        /\ q.asString = p.asString
    BY <1>2, <2>2, RequestSet DEF JiraFields
  <2>4. q = Jira!Again(p)
    <3>1. p = [x \in JiraFields |-> p[x]]
      BY <1>2 DEF WholeRequest
    <3>. QED
      BY <1>4, <2>1, <2>2, <3>1 DEF Jira!Again, JiraFields
  <2>5. Jira!WantsString(q) => q.made = 0
    BY <1>2, <2>3 DEF Jira!WantsString
  <2>6. r.step = "create" => v \in 1..RetryAttempts /\ p.made < v
    BY <1>2, <1>4, <2>1, SourcesAssumption
  <2>7. Counted(q)
    BY <1>2, <2>3, <2>5, <2>6 DEF Counted
  <2>8. q.step \notin {"idle", "answer"}
    BY <1>2, <2>3 DEF RequestSound
  <2>. QED
    BY <1>1, <2>3, <2>4, <2>7, <2>8 DEF RequestSound
<1>. QED
  BY <1>3, <1>4

(* A request was answered: the next call, another envelope or the end.     *)
LEMMA RequestGoesOn ==
  ASSUME NEW r, TicketsSound, RequestSound(r, Len(issues)), r.step # "answer", ~Jira!WantsString(r),
         NEW q \in Jira!Succeeded(Jira!Made(r))
  PROVE  RequestSound(q, IF r.step = "create" THEN Len(issues) + 1 ELSE Len(issues))
<1>1. PICK p : p = Jira!Made(r)
  OBVIOUS
<1>2. PICK n \in Nat : n = Len(issues)
  BY OneMore DEF TicketsSound
<1>3. /\ WholeRequest(p, n) /\ AtEnvelope(p) /\ p.step = r.step /\ (r.step = "user" => p.made = 0)
  BY <1>1, <1>2, RequestMade
<1>4. CASE r.step = "create"
  <2>1. PICK m \in Nat : m = n + 1
    BY <1>2
  <2>2. WholeRequest(p, m)
    <3>1. \A x \in 0..n : x \in 0..m
      BY <2>1
    <3>2. \A x \in 1..n : x \in 1..m
      BY <2>1
    <3>. QED
      BY <1>3, <3>1, <3>2 DEF WholeRequest
  <2>3. PICK k : k = [p EXCEPT !.key = m]
    OBVIOUS
  <2>4. WholeRequest(k, m) /\ AtEnvelope(k)
    <3>1. m \in 0..m
      BY <2>1
    <3>. QED
      BY <1>3, <2>1, <2>2, <2>3, <3>1, RequestSet DEF JiraFields
  <2>5. q = IF InitialStatus # "" THEN Jira!Step(k, "transitions") ELSE Jira!After(k)
    BY <1>1, <1>2, <1>3, <1>4, <2>1, <2>3 DEF Jira!Succeeded
  <2>6. RequestSound(q, m)
    BY <2>1, <2>4, <2>5, RequestSteps, RequestAfter
  <2>. QED
    BY <1>2, <1>4, <2>1, <2>6
<1>5. CASE r.step # "create"
  <2>1. CASE q = Jira!After(p)
    BY <1>2, <1>3, <1>5, <2>1, RequestAfter
  <2>2. CASE r.step = "user" /\ q = Jira!Step(p, "create")
    BY <1>2, <1>3, <1>5, <2>2, RequestSteps
  <2>3. CASE q = Jira!Step(p, "get") \/ q = Jira!Step(p, "transitions")
    BY <1>2, <1>3, <1>5, <2>3, RequestSteps
  <2>4. CASE \E s : q = [Jira!Step(p, "transition") EXCEPT !.to = s]
    <3>1. PICK s : q = [Jira!Step(p, "transition") EXCEPT !.to = s]
      BY <2>4
    <3>2. PICK t : t = Jira!Step(p, "transition")
      OBVIOUS
    <3>3. RequestSound(t, n) /\ t.step = "transition"
      BY <1>2, <1>3, <3>2, RequestSteps
    <3>4. WholeRequest(t, n) /\ AtEnvelope(t)
      BY <3>3 DEF RequestSound
    <3>5. WholeRequest(q, n) /\ AtEnvelope(q) /\ q.step = "transition"
      BY <3>1, <3>2, <3>3, <3>4, RequestSet DEF JiraFields
    <3>6. RequestSound(q, n)
      BY <3>5 DEF RequestSound, Counted
    <3>. QED
      BY <1>2, <1>5, <3>6
  <2>5. \/ q = Jira!After(p)
        \/ r.step = "user" /\ q = Jira!Step(p, "create")
        \/ q = Jira!Step(p, "get") \/ q = Jira!Step(p, "transitions")
        \/ \E s : q = [Jira!Step(p, "transition") EXCEPT !.to = s]
    BY <1>1, <1>3, <1>5 DEF Jira!Succeeded
  <2>. QED
    BY <2>1, <2>2, <2>3, <2>4, <2>5
<1>. QED
  BY <1>4, <1>5

JiraInv == TicketsSound /\ PollerInv /\ JiraRequests

(* The bridge begins with no ticket.                                       *)
LEMMA JiraStart == Jira!JiraInit => JiraInv
<1> SUFFICES ASSUME Jira!JiraInit PROVE JiraInv
  OBVIOUS
<1>1. /\ issues = <<>> /\ recs = [h \in Hashes |-> "open"] /\ req = [h \in Handlers |-> Jira!Idle]
      /\ tracked = {} /\ poll = Jira!Waiting /\ skipped = {}
  BY DEF Jira!JiraInit
<1>2. IsSeq(<<>>) /\ DOMAIN <<>> = {}
  BY EmptySeq DEF IsSeq
<1>3. TicketsSound
  BY <1>1, <1>2 DEF TicketsSound
<1>4. IsPoll(poll) /\ PollSound(poll, issues, resolved, skipped)
  BY <1>1 DEF IsPoll, PollSound, Jira!Waiting
<1>5. PollerInv
  BY <1>1, <1>4 DEF PollerInv
<1>6. JiraRequests
  BY <1>1 DEF JiraRequests
<1>. QED
  BY <1>3, <1>5, <1>6 DEF JiraInv

(* A call's effect on the tickets.                                         *)
LEMMA EffectSound ==
  ASSUME NEW r, TicketsSound, issues' = Jira!Effect(r), skipped' = skipped,
         resolved' = IF r.step = "transition" /\ r.to = "done" THEN resolved \cup {r.key} ELSE resolved
  PROVE  /\ TicketsSound' /\ TicketsGrow
         /\ Len(issues') = IF r.step = "create" THEN Len(issues) + 1 ELSE Len(issues)
<1>1. CASE r.step = "create"
  <2>1. PICK h : h = Jira!Env(r).hash
    OBVIOUS
  <2>2. issues' = Append(issues, [field |-> Jira!Link(h), status |-> "todo", listed |-> TRUE]) /\ resolved' = resolved
    BY <1>1, <2>1 DEF Jira!Effect
  <2>. QED
    BY <1>1, <2>2, TicketFiled
<1>2. CASE r.step = "transition"
  <2>1. issues' = [issues EXCEPT ![r.key].status = r.to]
    BY <1>2 DEF Jira!Effect
  <2>2. resolved \subseteq resolved' /\ (r.to = "done" => r.key \in resolved')
    BY <1>2
  <2>. QED
    BY <1>2, <2>1, <2>2, TicketMoved
<1>3. CASE r.step \notin {"create", "transition"}
  <2>1. issues' = issues /\ resolved' = resolved
    BY <1>3 DEF Jira!Effect
  <2>. QED
    BY <1>3, <2>1, TicketsStay
<1>. QED
  BY <1>1, <1>2, <1>3

\* A refused priority is sent as a string.
StepsString(q, r) == q = [r EXCEPT !.asString = TRUE, !.try = 1]

(* The request is a new one with a string in it.                           *)
LEMMA RequestAsString ==
  ASSUME NEW r, NEW n \in Nat, RequestSound(r, n), r.step # "answer", Jira!WantsString(r),
         NEW q, StepsString(q, r)
  PROVE  RequestSound(q, n)
<1>1. WholeRequest(r, n) /\ AtEnvelope(r) /\ Counted(r)
  BY DEF RequestSound
<1>2. r.made = 0 /\ r.step = "create"
  BY <1>1 DEF Counted, Jira!WantsString
<1>3. PICK p : p = [r EXCEPT !.asString = TRUE]
  OBVIOUS
<1>4. q = [p EXCEPT !.try = 1]
  BY <1>3 DEF StepsString
<1>5. r = [x \in JiraFields |-> r[x]]
  BY <1>1 DEF WholeRequest
<1>6. p = [x \in JiraFields |-> p[x]] /\ \A x \in JiraFields \ {"asString"} : p[x] = r[x]
  BY <1>3, <1>5 DEF JiraFields
<1>7. /\ p.batch = r.batch /\ p.i = r.i /\ p.key = r.key /\ p.out = r.out /\ p.tried = r.tried
      /\ p.step = r.step /\ p.made = r.made
  BY <1>6 DEF JiraFields
<1>8. WholeRequest(p, n)
  BY <1>1, <1>6, <1>7 DEF WholeRequest
<1>9. AtEnvelope(p)
  <2>1. Jira!limit(p) = Jira!limit(r)
    BY <1>7 DEF Jira!limit
  <2>. QED
    BY <1>1, <1>7, <2>1 DEF AtEnvelope
<1>10. WholeRequest(q, n) /\ AtEnvelope(q) /\ q.try = 1 /\ q.step = p.step /\ q.made = p.made
  BY <1>4, <1>8, <1>9, RequestSet DEF JiraFields
<1>11. Counted(q)
  BY <1>2, <1>7, <1>10, SourcesAssumption DEF Counted
<1>. QED
  BY <1>2, <1>7, <1>10, <1>11 DEF RequestSound

(* A call of a request, however it ends.                                   *)
LEMMA JiraCalls ==
  ASSUME NEW h \in Handlers, JiraInv, Jira!JiraOk(h) \/ Jira!JiraRetried(h) \/ Jira!JiraRefused(h)
  PROVE  JiraInv'
<1>1. TicketsSound /\ PollerInv /\ JiraRequests
  BY DEF JiraInv
<1>2. PICK r : r = req[h]
  OBVIOUS
<1>3. r.step \notin {"idle", "answer"} /\ UNCHANGED <<recs, tracked, poll, skipped>>
  BY <1>2 DEF Jira!JiraOk, Jira!JiraRetried, Jira!JiraRefused, Jira!Busy
<1>4. RequestSound(r, Len(issues)) /\ h \in DOMAIN req
  BY <1>1, <1>2, <1>3 DEF JiraRequests, Jira!Idle
<1>5. Len(issues) \in Nat
  BY <1>1, OneMore DEF TicketsSound
<1>6. CASE Jira!JiraOk(h)
  <2>1. ~Jira!WantsString(r)
    BY <1>2, <1>6 DEF Jira!JiraOk
  <2>2. /\ TicketsSound' /\ TicketsGrow
        /\ Len(issues') = IF r.step = "create" THEN Len(issues) + 1 ELSE Len(issues)
    BY <1>1, <1>2, <1>3, <1>6, EffectSound DEF Jira!JiraOk
  <2>3. PICK q \in Jira!Succeeded(Jira!Made(r)) : req' = [req EXCEPT ![h] = q]
    BY <1>2, <1>6 DEF Jira!JiraOk
  <2>4. RequestSound(q, Len(issues'))
    <3>1. RequestSound(q, IF r.step = "create" THEN Len(issues) + 1 ELSE Len(issues))
      BY <1>1, <1>3, <1>4, <2>1, RequestGoesOn
    <3>. QED
      BY <2>2, <3>1
  <2>5. Len(issues) <= Len(issues')
    BY <1>5, <2>2
  <2>6. JiraRequests'
    BY <1>1, <2>2, <2>3, <2>4, <2>5, OneHandled
  <2>. QED
    BY <1>1, <1>3, <2>2, <2>6, PollerStays DEF JiraInv
<1>7. CASE Jira!JiraRetried(h)
  <2>2. TicketsSound' /\ TicketsGrow /\ Len(issues) <= Len(issues')
    <3>1. CASE issues' = Jira!Effect(r)
      <4>1. /\ TicketsSound' /\ TicketsGrow
            /\ Len(issues') = IF r.step = "create" THEN Len(issues) + 1 ELSE Len(issues)
        BY <1>1, <1>2, <1>3, <1>7, <3>1, EffectSound DEF Jira!JiraRetried
      <4>. QED
        BY <1>5, <4>1
    <3>2. CASE issues' = issues
      <4>1. resolved \subseteq resolved'
        BY <1>7 DEF Jira!JiraRetried
      <4>. QED
        BY <1>1, <1>3, <1>5, <3>2, <4>1, TicketsStay
    <3>. QED
      BY <1>2, <1>7, <3>1, <3>2 DEF Jira!JiraRetried
  <2>3. PICK q : q = Jira!Again(Jira!Made(r))
    OBVIOUS
  <2>4. req' = [req EXCEPT ![h] = q]
    BY <1>2, <1>7, <2>3 DEF Jira!JiraRetried
  <2>5. RequestSound(q, Len(issues))
    BY <1>3, <1>4, <1>5, <2>3, RequestAgain
  <2>6. RequestSound(q, Len(issues'))
    <3>1. Len(issues') \in Nat
      BY <2>2, OneMore DEF TicketsSound
    <3>. QED
      BY <1>5, <2>2, <2>5, <3>1, RequestGrows
  <2>7. JiraRequests'
    BY <1>1, <2>2, <2>4, <2>6, OneHandled
  <2>. QED
    BY <1>1, <1>3, <2>2, <2>7, PollerStays DEF JiraInv
<1>8. CASE Jira!JiraRefused(h)
  <2>1. UNCHANGED <<issues, resolved>>
    BY <1>8 DEF Jira!JiraRefused
  <2>2. TicketsSound' /\ TicketsGrow /\ Len(issues) <= Len(issues')
    BY <1>1, <1>3, <1>5, <2>1, TicketsStay
  <2>3. WholeRequest(r, Len(issues)) /\ AtEnvelope(r) /\ Counted(r)
    BY <1>3, <1>4 DEF RequestSound
  <2>4. \E q : req' = [req EXCEPT ![h] = q] /\ RequestSound(q, Len(issues))
    <3>1. CASE Jira!WantsString(r)
      <4>1. req' = [req EXCEPT ![h] = [r EXCEPT !.asString = TRUE, !.try = 1]]
        BY <1>2, <1>4, <1>8, <3>1 DEF Jira!JiraRefused
      <4>2. PICK q : StepsString(q, r)
        BY DEF StepsString
      <4>3. PICK n \in Nat : n = Len(issues)
        BY <1>5
      <4>4. RequestSound(q, n)
        BY <1>3, <1>4, <3>1, <4>2, <4>3, RequestAsString
      <4>. QED
        BY <4>1, <4>2, <4>3, <4>4 DEF StepsString
    <3>2. CASE ~Jira!WantsString(r)
      <4>1. req' = [req EXCEPT ![h] = Jira!Failed(r)]
        BY <1>2, <1>8, <3>2 DEF Jira!JiraRefused
      <4>2. RequestSound(Jira!Failed(r), Len(issues))
        BY <1>5, <2>3, RequestFailing DEF Counted
      <4>. QED
        BY <4>1, <4>2
    <3>. QED
      BY <3>1, <3>2
  <2>5. JiraRequests'
    BY <1>1, <2>1, <2>2, <2>4, OneHandled
  <2>. QED
    BY <1>1, <1>3, <2>2, <2>5, PollerStays DEF JiraInv
<1>. QED
  BY <1>6, <1>7, <1>8

(* A batch comes in, and is answered.                                      *)
LEMMA JiraHandles ==
  ASSUME NEW h \in Handlers, JiraInv, Jira!handleAlert(h) \/ Jira!Answer(h)
  PROVE  JiraInv'
<1>1. TicketsSound /\ PollerInv /\ JiraRequests
  BY DEF JiraInv
<1>2. UNCHANGED <<issues, resolved, recs, tracked, poll, skipped>>
  BY DEF Jira!handleAlert, Jira!Answer
<1>3. Len(issues) \in Nat /\ DOMAIN issues = 1..Len(issues)
  BY <1>1, OneMore DEF TicketsSound
<1>4. TicketsSound' /\ TicketsGrow /\ Len(issues) <= Len(issues')
  BY <1>1, <1>2, <1>3, TicketsStay
<1>5. \E q : req' = [req EXCEPT ![h] = q] /\ (q = Jira!Idle \/ RequestSound(q, Len(issues)))
  <2>1. CASE Jira!Answer(h)
    BY <2>1 DEF Jira!Answer
  <2>2. CASE Jira!handleAlert(h)
    <3>1. PICK b \in Batches :
            /\ \A i \in DOMAIN b : b[i].prior \in Jira!Keys \cup {Jira!NoIssue}
            /\ req' = [req EXCEPT ![h] =
                 Jira!Begin([step |-> "start", batch |-> b, i |-> 1, try |-> 1, key |-> Jira!NoIssue,
                        to |-> "", asString |-> FALSE, made |-> 0, tried |-> {}, out |-> {}])]
      BY <2>2 DEF Jira!handleAlert
    <3>2. PICK r : r = [step |-> "start", batch |-> b, i |-> 1, try |-> 1, key |-> Jira!NoIssue,
                        to |-> "", asString |-> FALSE, made |-> 0, tried |-> {}, out |-> {}]
      OBVIOUS
    <3>3. r = [x \in JiraFields |-> r[x]]
      BY <3>2 DEF JiraFields
    <3>4. r.batch = b /\ r.i = 1 /\ r.key = 0 /\ r.made = 0 /\ r.tried = {} /\ r.out = {}
      BY <3>2 DEF Jira!NoIssue
    <3>5. IsSeq(b)
      BY SourcesAssumption DEF IsSeq
    <3>6. \A i \in DOMAIN b : b[i].prior \in 0..Len(issues)
      <4>1. \A k \in Jira!Keys \cup {Jira!NoIssue} : k \in 0..Len(issues)
        BY <1>3 DEF Jira!Keys, Jira!NoIssue
      <4>. QED
        BY <3>1, <4>1
    <3>7. WholeRequest(r, Len(issues))
      <4>1. 0 \in 0..RetryAttempts /\ 0 \in 0..Len(issues)
        BY <1>3, SourcesAssumption
      <4>. QED
        BY <3>3, <3>4, <3>5, <3>6, <4>1 DEF WholeRequest
    <3>8. r.tried = 1..(r.i - 1) /\ r.i - 1 <= Jira!limit(r)
      <4>1. Jira!limit(r) \in Nat
        BY <3>4, <3>5, LimitWithin
      <4>. QED
        BY <3>4, <4>1
    <3>9. RequestSound(Jira!Begin(r), Len(issues))
      BY <1>3, <3>7, <3>8, RequestBegins
    <3>. QED
      BY <3>1, <3>2, <3>9
  <2>. QED
    BY <2>1, <2>2
<1>6. JiraRequests'
  BY <1>1, <1>2, <1>4, <1>5, OneHandled
<1>. QED
  BY <1>1, <1>2, <1>4, <1>6, PollerStays DEF JiraInv

(* Every step keeps it.                                                    *)
LEMMA JiraKept == JiraInv /\ Jira!JiraNext => JiraInv'
<1> SUFFICES ASSUME JiraInv, Jira!JiraNext PROVE JiraInv'
  OBVIOUS
<1>1. TicketsSound /\ PollerInv /\ JiraRequests
  BY DEF JiraInv
<1>2. Len(issues) \in Nat
  BY <1>1, OneMore DEF TicketsSound
<1>3. CASE Jira!cycle \/ Jira!SearchFails \/ Jira!closeSnoozeRecord \/ Jira!CycleEnds \/ Jira!RecordGone
  <2>1. UNCHANGED <<issues, resolved, req>> /\ skipped \subseteq skipped'
    BY <1>3 DEF Jira!cycle, Jira!SearchFails, Jira!closeSnoozeRecord, Jira!CycleEnds, Jira!RecordGone
  <2>2. TicketsSound' /\ Len(issues) <= Len(issues')
    BY <1>1, <1>2, <2>1, TicketsStay
  <2>. QED
    BY <1>1, <1>3, <2>1, <2>2, NoneHandled, PollerSearches, PollerCloses, PollerRests DEF JiraInv
<1>4. CASE Jira!Restart
  <2>1. UNCHANGED <<issues, resolved>> /\ req' = [h \in Handlers |-> Jira!Idle] /\ skipped \subseteq skipped'
    BY <1>4 DEF Jira!Restart
  <2>2. TicketsSound'
    BY <1>1, <2>1, TicketsStay
  <2>3. JiraRequests'
    BY <2>1 DEF JiraRequests
  <2>. QED
    BY <1>1, <1>4, <2>2, <2>3, PollerRests DEF JiraInv
<1>5. ASSUME NEW k, Jira!Resolve(k) PROVE JiraInv'
  <2>1. UNCHANGED <<req, recs, tracked, poll, skipped>>
    BY <1>5 DEF Jira!Resolve
  <2>2. PICK s : /\ issues' = [issues EXCEPT ![k].status = s]
                 /\ resolved' = IF s = "done" THEN resolved \cup {k} ELSE resolved
    BY <1>5 DEF Jira!Resolve
  <2>3. resolved \subseteq resolved' /\ (s = "done" => k \in resolved')
    BY <2>2
  <2>4. TicketsSound' /\ TicketsGrow /\ Len(issues') = Len(issues)
    BY <1>1, <2>1, <2>2, <2>3, TicketMoved
  <2>5. JiraRequests'
    BY <1>1, <1>2, <2>1, <2>4, NoneHandled
  <2>. QED
    BY <1>1, <2>1, <2>4, <2>5, PollerStays DEF JiraInv
<1>6. ASSUME NEW k, Jira!Relist(k) PROVE JiraInv'
  <2>1. UNCHANGED <<req, recs, tracked, poll>>
    BY <1>6 DEF Jira!Relist
  <2>2. TicketsSound' /\ TicketsGrow /\ Len(issues') = Len(issues)
    BY <1>1, <1>6, TicketRelisted
  <2>3. JiraRequests'
    BY <1>1, <1>2, <2>1, <2>2, NoneHandled
  <2>. QED
    BY <1>1, <2>1, <2>2, <2>3, PollerStays DEF JiraInv
<1>. QED
  BY <1>3, <1>4, <1>5, <1>6, JiraCalls, JiraHandles DEF Jira!JiraNext

(* Records are closed with their tickets, and tickets bounded.             *)
LEMMA JiraFollows == JiraInv => ClosedWithTicket /\ TicketsBounded /\ EveryEnvelopeTried
<1> SUFFICES ASSUME JiraInv PROVE ClosedWithTicket /\ TicketsBounded /\ EveryEnvelopeTried
  OBVIOUS
<1>1. TicketsSound /\ PollerInv /\ JiraRequests
  BY DEF JiraInv
<1>2. ClosedWithTicket
  BY <1>1 DEF PollerInv, ClosedFor, ClosedWithTicket, Jira!ClosedWithTicket
<1>3. TicketsBounded
  <2>1. \A h \in Handlers : req[h] # Jira!Idle => req[h].made \in 0..RetryAttempts
    BY <1>1 DEF JiraRequests, RequestSound, WholeRequest
  <2>. QED
    BY <2>1, SourcesAssumption DEF TicketsBounded, Jira!TicketsBounded
<1>4. EveryEnvelopeTried
  <2>1. \A h \in Handlers : req[h].step = "answer" => RequestSound(req[h], Len(issues))
    BY <1>1 DEF JiraRequests, Jira!Idle
  <2>2. ASSUME NEW h \in Handlers, req[h].step = "answer"
        PROVE  req[h].tried = 1..Jira!limit(req[h]) /\ \A o \in req[h].out : o[2] \in Jira!Keys
    BY <2>1, <2>2 DEF RequestSound, WholeRequest, Jira!Keys
  <2>. QED
    BY <2>2 DEF EveryEnvelopeTried, Jira!EveryEnvelopeTried
<1>. QED
  BY <1>2, <1>3, <1>4

-----------------------------------------------------------------------------
(* TeamsBridge, ActsOnItsThread and RootsAreRoots.                         *)

\* The message id is a reply in a thread whose first message shows uid.
OnThread(id, uid) ==
    LET root == Teams!ThreadId(id)
    IN  /\ id \in DOMAIN chat[Home] /\ root \in DOMAIN chat[Home] /\ root # id
        /\ uid \in chat[Home][root].about

\* A thread the daemon knows starts with a message of its own that shows the
\* record.
KnownThread(e) ==
    \E c \in Chans : \E k \in DOMAIN chat[c] :
        /\ e = [key |-> Teams!threadKey(c, k), uid |-> e.uid]
        /\ chat[c][k].by = "bot" /\ e.uid \in chat[c][k].about
ThreadsInv == IsSeq(threads) /\ \A i \in DOMAIN threads : KnownThread(threads[i])

\* The thread is known, or about to be.
Reachable(root) ==
    \/ Teams!Has(threads, Teams!threadKey(Home, root))
    \/ alertReq.step = "cache" /\ alertReq.at = Home /\ alertReq.posted[Home] = root

\* What was done for a message is remembered, unless the message was evicted
\* or its thread is out of reach.
Remembered(id) == id \in seen \/ id \in forgot \/ ~Reachable(Teams!ThreadId(id))
ActsInv ==
    /\ \A i \in DOMAIN acts : OnThread(acts[i].id, acts[i].uid) /\ Remembered(acts[i].id)
    /\ \A i, j \in DOMAIN acts :
          i < j /\ acts[i].id = acts[j].id /\ acts[i].kind = acts[j].kind => acts[i].id \in forgot

\* The page being read, and the command in hand.
Listed(page) == page \in Seq(DOMAIN chat[Home])
NotDone(id) == \A i \in DOMAIN acts : acts[i].id = id => id \in forgot
NotAcked(id) == \A i \in DOMAIN acts : acts[i].id = id /\ acts[i].kind = "ack" => id \in forgot
PageInv ==
    polling.step = "page" =>
        Listed(polling.page) /\ polling.page # <<>> /\ Head(polling.page) \notin seen
HandInv ==
    polling.step \in InHand =>
        /\ Listed(polling.page) /\ polling.id \in seen /\ polling.id \in DOMAIN chat[Home]
        /\ polling.step # "reply" => OnThread(polling.id, polling.uid)
        /\ polling.step \in {"comment", "snooze"} => NotDone(polling.id)
        /\ polling.step = "ack" => NotAcked(polling.id)

\* What a request, an answer or a record calls a root is one.
Roots(f) == f = [ch \in Chans |-> f[ch]] /\ \A ch \in Chans : f[ch] # Teams!NoId => Teams!IsRoot(ch, f[ch])
StampsInv == \A r \in Records : Roots(stamped[r])

\* The message just posted.
JustPosted(r) ==
    LET m == chat[r.at][r.posted[r.at]]
    IN  /\ r.at \in Chans /\ r.at \in Teams!Refs(r.body) /\ r.posted[r.at] \in DOMAIN chat[r.at]
        /\ m.by = "bot" /\ m.about = Teams!Alerts(r.body, r.at) /\ m.root = r.replyTo[r.at]
Rooted(r) ==
    /\ r.body \in AlertRequests /\ r.todo \subseteq Teams!Refs(r.body)
    /\ Roots(r.replyTo) /\ Roots(r.ids)
    /\ r.step = "cache" => JustPosted(r)
RootedInv == alertReq = Teams!NoRequest \/ Rooted(alertReq)

ThreadInv == ThreadsInv /\ ActsInv /\ PageInv /\ HandInv /\ StampsInv /\ RootedInv

(* What is said stays said.                                                *)
LEMMA ThreadIdStays ==
  ASSUME NEW id \in DOMAIN chat[Home], ChatGrows
  PROVE  Teams!ThreadId(id)' = Teams!ThreadId(id) /\ id \in DOMAIN chat'[Home]
<1>1. chat'[Home][id] = chat[Home][id] /\ id \in DOMAIN chat'[Home]
  BY BridgesAssumption DEF ChatGrows
<1>. QED
  BY <1>1 DEF Teams!ThreadId

(* A reply stays in its thread, whose first message shows what it showed.  *)
LEMMA OnThreadStays ==
  ASSUME NEW id, NEW uid, OnThread(id, uid), ChatGrows
  PROVE  OnThread(id, uid)'
<1>1. PICK root : root = Teams!ThreadId(id)
  OBVIOUS
<1>2. /\ id \in DOMAIN chat[Home] /\ root \in DOMAIN chat[Home] /\ root # id
      /\ uid \in chat[Home][root].about
  BY <1>1 DEF OnThread
<1>3. Teams!ThreadId(id)' = root /\ id \in DOMAIN chat'[Home]
  BY <1>1, <1>2, ThreadIdStays
<1>4. root \in DOMAIN chat'[Home] /\ chat'[Home][root] = chat[Home][root]
  BY <1>2, BridgesAssumption DEF ChatGrows
<1>. QED
  BY <1>2, <1>3, <1>4 DEF OnThread

(* A known thread stays one.                                               *)
LEMMA KnownStays == ASSUME NEW e, KnownThread(e), ChatGrows PROVE KnownThread(e)'
BY DEF KnownThread, ChatGrows, Teams!threadKey

(* A root stays one.                                                       *)
LEMMA RootsStay == ASSUME NEW f, Roots(f), ChatGrows PROVE Roots(f)'
BY DEF Roots, ChatGrows, Teams!IsRoot

(* The messages of a page stay in the channel.                             *)
LEMMA ListedStays == ASSUME NEW page, Listed(page), ChatGrows PROVE Listed(page)'
<1>1. DOMAIN chat[Home] \subseteq DOMAIN chat'[Home]
  BY BridgesAssumption DEF ChatGrows
<1>2. PICK S, T : S = DOMAIN chat[Home] /\ T = DOMAIN chat'[Home]
  OBVIOUS
<1>3. page \in Seq(S) /\ S \subseteq T
  BY <1>1, <1>2 DEF Listed
<1>4. page \in Seq(T)
  BY <1>3, SeqMonotonic
<1>. QED
  BY <1>2, <1>4 DEF Listed

(* What a request calls roots stays so, and its message stays posted.      *)
LEMMA RootedStays == ASSUME NEW r, Rooted(r), ChatGrows PROVE Rooted(r)'
<1>1. Roots(r.replyTo)' /\ Roots(r.ids)'
  <2>1. PICK f, g : f = r.replyTo /\ g = r.ids
    OBVIOUS
  <2>2. Roots(f) /\ Roots(g)
    BY <2>1 DEF Rooted
  <2>. QED
    BY <2>1, <2>2, RootsStay
<1>2. JustPosted(r) => JustPosted(r)'
  <2> SUFFICES ASSUME JustPosted(r) PROVE JustPosted(r)'
    OBVIOUS
  <2>1. r.at \in Chans /\ r.posted[r.at] \in DOMAIN chat[r.at]
    BY DEF JustPosted
  <2>2. r.posted[r.at] \in DOMAIN chat'[r.at] /\ chat'[r.at][r.posted[r.at]] = chat[r.at][r.posted[r.at]]
    BY <2>1 DEF ChatGrows
  <2>. QED
    BY <2>2 DEF JustPosted
<1>. QED
  BY <1>1, <1>2 DEF Rooted

(* The threads, the pages, the roots and the requests that a step leaves.  *)
LEMMA ThreadsStay == ASSUME ThreadsInv, threads' = threads, ChatGrows PROVE ThreadsInv'
<1>1. \A i \in DOMAIN threads : KnownThread(threads[i])'
  <2> SUFFICES ASSUME NEW i \in DOMAIN threads PROVE KnownThread(threads[i])'
    OBVIOUS
  <2>1. PICK e : e = threads[i]
    OBVIOUS
  <2>2. KnownThread(e)
    BY <2>1 DEF ThreadsInv
  <2>3. KnownThread(e)'
    BY <2>2, KnownStays
  <2>4. e = threads'[i]
    BY <2>1
  <2>. QED
    BY <2>3, <2>4
<1>. QED
  BY <1>1 DEF ThreadsInv

(* The roots that records carry.                                           *)
LEMMA StampsStay == ASSUME StampsInv, stamped' = stamped, ChatGrows PROVE StampsInv'
<1> SUFFICES ASSUME NEW r \in Records PROVE Roots(stamped[r])'
  BY DEF StampsInv
<1>1. PICK f : f = stamped[r]
  OBVIOUS
<1>2. Roots(f)'
  BY <1>1, RootsStay DEF StampsInv
<1>. QED
  BY <1>1, <1>2

(* The request being served.                                               *)
LEMMA RootedInvStays == ASSUME RootedInv, alertReq' = alertReq, ChatGrows PROVE RootedInv'
<1>1. PICK r : r = alertReq
  OBVIOUS
<1>2. Rooted(r) => Rooted(r)'
  BY RootedStays
<1>. QED
  BY <1>1, <1>2 DEF RootedInv

(* The page being read and the command in hand.                            *)
LEMMA PollStays ==
  ASSUME PageInv, HandInv, ChatGrows, UNCHANGED <<polling, acts, seen, forgot>>
  PROVE  PageInv' /\ HandInv'
<1>1. PICK p : p = polling.page
  OBVIOUS
<1>2. PICK n, u : n = polling.id /\ u = polling.uid
  OBVIOUS
<1>3. Listed(p) => Listed(p)'
  BY ListedStays
<1>4. OnThread(n, u) => OnThread(n, u)'
  BY OnThreadStays
<1>5. n \in DOMAIN chat[Home] => n \in DOMAIN chat'[Home]
  BY BridgesAssumption DEF ChatGrows
<1>6. PageInv'
  BY <1>1, <1>3 DEF PageInv
<1>7. HandInv'
  <2> SUFFICES ASSUME polling.step \in InHand
               PROVE  /\ Listed(p)' /\ n \in seen /\ n \in DOMAIN chat'[Home]
                      /\ polling.step # "reply" => OnThread(n, u)'
                      /\ polling.step \in {"comment", "snooze"} => NotDone(n)'
                      /\ polling.step = "ack" => NotAcked(n)'
    BY <1>1, <1>2 DEF HandInv
  <2>1. /\ Listed(p) /\ n \in seen /\ n \in DOMAIN chat[Home]
        /\ polling.step # "reply" => OnThread(n, u)
        /\ polling.step \in {"comment", "snooze"} => NotDone(n)
        /\ polling.step = "ack" => NotAcked(n)
    BY <1>1, <1>2 DEF HandInv
  <2>2. (NotDone(n) => NotDone(n)') /\ (NotAcked(n) => NotAcked(n)')
    BY DEF NotDone, NotAcked
  <2>. QED
    BY <1>3, <1>4, <1>5, <2>1, <2>2
<1>. QED
  BY <1>6, <1>7

(* Acts that are left, while nothing is forgotten in silence and no thread *)
(* comes back within reach.                                                *)
LEMMA ActsStay ==
  ASSUME ActsInv, ChatGrows, acts' = acts, forgot \subseteq forgot', seen \subseteq seen' \cup forgot',
         \A root \in DOMAIN chat[Home] : Reachable(root)' => Reachable(root)
  PROVE  ActsInv'
<1>1. ASSUME NEW i \in DOMAIN acts PROVE OnThread(acts[i].id, acts[i].uid)' /\ Remembered(acts[i].id)'
  <2>1. PICK n, u : n = acts[i].id /\ u = acts[i].uid
    OBVIOUS
  <2>2. OnThread(n, u) /\ Remembered(n)
    BY <2>1 DEF ActsInv
  <2>3. OnThread(n, u)'
    BY <2>2, OnThreadStays
  <2>4. PICK root : root = Teams!ThreadId(n)
    OBVIOUS
  <2>5. n \in DOMAIN chat[Home] /\ root \in DOMAIN chat[Home]
    BY <2>2, <2>4 DEF OnThread
  <2>6. Teams!ThreadId(n)' = root
    BY <2>4, <2>5, ThreadIdStays
  <2>7. n \in seen \/ n \in forgot \/ ~Reachable(root)
    BY <2>2, <2>4 DEF Remembered
  <2>8. n \in seen' \/ n \in forgot' \/ ~Reachable(root)'
    BY <2>5, <2>7
  <2>9. Remembered(n)'
    BY <2>6, <2>8 DEF Remembered
  <2>10. n = acts'[i].id /\ u = acts'[i].uid
    BY <2>1
  <2>. QED
    BY <2>3, <2>9, <2>10
<1>2. \A i \in DOMAIN acts' : OnThread(acts[i].id, acts[i].uid)' /\ Remembered(acts[i].id)'
  BY <1>1
<1>3. \A i, j \in DOMAIN acts :
         i < j /\ acts[i].id = acts[j].id /\ acts[i].kind = acts[j].kind => acts[i].id \in forgot'
  BY DEF ActsInv
<1>. QED
  BY <1>2, <1>3 DEF ActsInv

(* The order of the natural numbers is well-founded.                       *)
LEMMA SmallerWellFounded == IsWellFoundedOn({ss \in Nat \X Nat : ss[1] < ss[2]}, Nat)
  BY NatLessThanWellFounded, Zenon DEF OpToRel

(* A set of natural numbers that is not empty has a least element.         *)
LEMMA LeastOf ==
  ASSUME NEW T, T \subseteq Nat, T # {}
  PROVE  Teams!Min(T) \in T /\ \A y \in T : Teams!Min(T) <= y
<1> DEFINE R == {ss \in Nat \X Nat : ss[1] < ss[2]}
<1>1. PICK m \in T : \A y \in T : ~ (<<y, m>> \in R)
  <2> HIDE DEF R
  <2>. QED
    BY SmallerWellFounded, WFMin DEF R
<1>2. ASSUME NEW y \in T PROVE m <= y
  <2>1. <<y, m>> \in Nat \X Nat /\ <<y, m>>[1] = y /\ <<y, m>>[2] = m
    OBVIOUS
  <2>2. ~ (y < m)
    BY <1>1, <2>1
  <2>. QED
    BY <2>2
<1>. QED
  BY <1>2 DEF Teams!Min

(* A bounded set of numbers that is not empty has a greatest element.      *)
LEMMA GreatestOf ==
  ASSUME NEW S, NEW n \in Nat, S \subseteq 0..n, S # {}
  PROVE  Teams!Max(S) \in S
<1> DEFINE T == {n - x : x \in S}
<1>1. \A y \in S : n - y \in Nat /\ n - y \in T
  OBVIOUS
<1>2. T \subseteq Nat /\ T # {}
  BY <1>1
<1>3. PICK m \in T : \A y \in T : m <= y
  <2> HIDE DEF T
  <2>. QED
    BY <1>2, LeastOf
<1>4. PICK x \in S : m = n - x
  OBVIOUS
<1> HIDE DEF T
<1>5. \A y \in S : x >= y
  BY <1>1, <1>3, <1>4
<1>. QED
  BY <1>4, <1>5 DEF Teams!Max

(* What the cache holds after an entry is put, dropped or moved to the     *)
(* front is what it held, or the new entry.                                *)
LEMMA WithoutKeeps ==
  ASSUME NEW S, NEW th \in Seq(S), NEW key
  PROVE  Teams!Without(th, key) \in Seq(S) /\ Teams!Front(th) \in Seq(S)
         /\ (Teams!Has(th, key) => Teams!Place(th, key) \in DOMAIN th /\ th[Teams!Place(th, key)].key = key)
<1>1. Len(th) \in Nat /\ DOMAIN th = 1..Len(th) /\ \A i \in 1..Len(th) : th[i] \in S
  BY LenProperties, ElementOfSeq
<1>2. Teams!Front(th) \in Seq(S)
  <2>1. 1 \in Int /\ Len(th) - 1 \in Int /\ \A i \in 1..(Len(th) - 1) : th[i] \in S
    BY <1>1
  <2>2. SubSeq(th, 1, Len(th) - 1) \in Seq(S)
    BY <2>1, SubSeqProperties
  <2>. QED
    BY <2>2 DEF Teams!Front
<1>3. Teams!Has(th, key) => Teams!Place(th, key) \in DOMAIN th /\ th[Teams!Place(th, key)].key = key
  BY DEF Teams!Has, Teams!Place
<1>4. ASSUME Teams!Has(th, key) PROVE Teams!Without(th, key) \in Seq(S)
  <2>1. PICK p : p = Teams!Place(th, key)
    OBVIOUS
  <2>2. p \in 1..Len(th)
    BY <1>1, <1>3, <1>4, <2>1
  <2>3. /\ p - 1 \in Int /\ \A i \in 1..(p - 1) : th[i] \in S
        /\ p + 1 \in Int /\ Len(th) \in Int /\ \A i \in (p + 1)..Len(th) : th[i] \in S
    BY <1>1, <2>2
  <2>4. SubSeq(th, 1, p - 1) \in Seq(S)
    BY <2>3, SubSeqProperties
  <2>5. SubSeq(th, p + 1, Len(th)) \in Seq(S)
    BY <2>3, SubSeqProperties
  <2>6. SubSeq(th, 1, p - 1) \o SubSeq(th, p + 1, Len(th)) \in Seq(S)
    BY <2>4, <2>5, ConcatProperties
  <2>. QED
    BY <1>4, <2>1, <2>6 DEF Teams!Without, Teams!RemoveAt
<1>5. ~Teams!Has(th, key) => Teams!Without(th, key) \in Seq(S)
  BY DEF Teams!Without
<1>. QED
  BY <1>2, <1>3, <1>4, <1>5

(* Put adds one entry.                                                     *)
LEMMA PutKeeps ==
  ASSUME NEW S, NEW th \in Seq(S), NEW key, NEW uid, [key |-> key, uid |-> uid] \in S
  PROVE  Teams!Put(th, key, uid) \in Seq(S)
<1>1. <<[key |-> key, uid |-> uid]>> \in Seq(S)
  OBVIOUS
<1>2. Teams!Without(th, key) \in Seq(S) /\ Teams!Front(th) \in Seq(S)
  BY WithoutKeeps
<1>. QED
  BY <1>1, <1>2, ConcatProperties DEF Teams!Put

(* Get moves one entry.                                                    *)
LEMMA TouchedKeeps ==
  ASSUME NEW S, NEW key, threads \in Seq(S)
  PROVE  Teams!Touched(key) \in Seq(S)
<1>1. PICK th : th = threads
  OBVIOUS
<1>2. ASSUME Teams!Has(th, key)
      PROVE  <<th[Teams!Place(th, key)]>> \o Teams!Without(th, key) \in Seq(S)
  <2>1. Teams!Without(th, key) \in Seq(S) /\ Teams!Place(th, key) \in DOMAIN th
    BY <1>1, <1>2, WithoutKeeps
  <2>2. th[Teams!Place(th, key)] \in S
    BY <1>1, <2>1, LenProperties, ElementOfSeq
  <2>3. <<th[Teams!Place(th, key)]>> \in Seq(S)
    BY <2>2
  <2>. QED
    BY <2>1, <2>3, ConcatProperties
<1>. QED
  BY <1>1, <1>2 DEF Teams!Touched

(* The entries of the cache.                                               *)
LEMMA EntriesOf ==
  ASSUME ThreadsInv, NEW S, S = {threads[i] : i \in DOMAIN threads}
  PROVE  threads \in Seq(S)
<1>1. PICK th : th = threads
  OBVIOUS
<1>2. PICK T : th \in Seq(T)
  BY <1>1 DEF ThreadsInv, IsSeq
<1>3. Len(th) \in Nat /\ DOMAIN th = 1..Len(th) /\ th = [i \in 1..Len(th) |-> th[i]]
  BY <1>2, LenProperties
<1>4. PICK n \in Nat : n = Len(th)
  BY <1>3
<1>5. th \in [1..n -> S]
  BY <1>1, <1>3, <1>4
<1>6. th \in Seq(S)
  BY <1>5, SeqDef, Zenon
<1>. QED
  BY <1>1, <1>6

(* After a step that leaves the chat, the cache holds known threads if its *)
(* entries are old ones, or one new that is known.                         *)
LEMMA ThreadsFrom ==
  ASSUME NEW S, ThreadsInv, chat' = chat, threads' \in Seq(S),
         \A e \in S : KnownThread(e) \/ \E i \in DOMAIN threads : e = threads[i]
  PROVE  ThreadsInv' /\ \A i \in DOMAIN threads' : threads'[i] \in S
<1>1. \A e \in S : KnownThread(e)
  BY DEF ThreadsInv
<1>2. \A i \in DOMAIN threads' : threads'[i] \in S
  BY LenProperties, ElementOfSeq
<1>3. \A e : KnownThread(e) => KnownThread(e)'
  BY DEF KnownThread, Teams!threadKey
<1>. QED
  BY <1>1, <1>2, <1>3 DEF ThreadsInv, IsSeq

(* The cardinality of the Teams module is the usual one.                   *)
LEMMA TeamsCount == \A S : Teams!Cardinality(S) = Cardinality(S)
BY DEF Teams!Cardinality, Cardinality

(* At the start there is no thread, or the one of the first alert.         *)
LEMMA ThreadStart == Teams!TeamsInit => ThreadInv
<1> SUFFICES ASSUME Teams!TeamsInit PROVE ThreadInv
  OBVIOUS
<1>1. PICK shown :
         /\ shown = {} \/ \E r : shown = {r}
         /\ chat = [ch \in Chans |-> IF ch = Home /\ shown # {}
                       THEN <<Teams!Message("bot", Teams!NoId, "card", shown, Teams!NoId)>> ELSE <<>>]
         /\ threads = [i \in 1..Teams!Cardinality(shown) |->
                        [key |-> Teams!threadKey(Home, 1), uid |-> CHOOSE r \in shown : TRUE]]
         /\ stamped = [r \in Records |-> [ch \in Chans |->
                        IF ch = Home /\ r \in shown THEN 1 ELSE Teams!NoId]]
  BY DEF Teams!TeamsInit
<1>2. PICK m : m = Teams!Message("bot", Teams!NoId, "card", shown, Teams!NoId)
  OBVIOUS
<1>3. m.by = "bot" /\ m.root = Teams!NoId /\ m.about = shown
  BY <1>2 DEF Teams!Message
<1>4. shown # {} => 1 \in DOMAIN chat[Home] /\ chat[Home][1] = m
  <2> SUFFICES ASSUME shown # {} PROVE 1 \in DOMAIN chat[Home] /\ chat[Home][1] = m
    OBVIOUS
  <2>1. chat[Home] = <<m>>
    BY <1>1, <1>2, BridgesAssumption
  <2>2. 1 \in DOMAIN <<m>> /\ <<m>>[1] = m
    OBVIOUS
  <2>. QED
    BY <2>1, <2>2
<1>5. ThreadsInv
  <2>1. PICK e : e = [key |-> Teams!threadKey(Home, 1), uid |-> CHOOSE r \in shown : TRUE]
    OBVIOUS
  <2>2. PICK n \in Nat : n = Teams!Cardinality(shown) /\ (n # 0 => shown # {})
    <3>1. CASE shown = {}
      BY <3>1, TeamsCount, FS_EmptySet
    <3>2. CASE \E r : shown = {r}
      BY <3>2, TeamsCount, FS_Singleton
    <3>. QED
      BY <1>1, <3>1, <3>2
  <2>3. threads \in [1..n -> {e}] /\ DOMAIN threads = 1..n /\ \A i \in 1..n : threads[i] = e
    BY <1>1, <2>1, <2>2
  <2>4. threads \in Seq({e})
    BY <2>3, SeqDef, Zenon
  <2>5. shown # {} => KnownThread(e)
    <3> SUFFICES ASSUME shown # {} PROVE KnownThread(e)
      OBVIOUS
    <3>1. PICK u : u = (CHOOSE r \in shown : TRUE)
      OBVIOUS
    <3>2. u \in shown
      BY <3>1
    <3>3. e = [key |-> Teams!threadKey(Home, 1), uid |-> u] /\ e.uid = u
      BY <2>1, <3>1
    <3>4. e = [key |-> Teams!threadKey(Home, 1), uid |-> e.uid]
      BY <3>3
    <3>. QED
      BY <1>3, <1>4, <3>2, <3>3, <3>4, BridgesAssumption DEF KnownThread
  <2>. QED
    BY <2>2, <2>3, <2>4, <2>5 DEF ThreadsInv, IsSeq
<1>6. DOMAIN acts = {} /\ polling.step = "rest" /\ alertReq = Teams!NoRequest
  BY DEF Teams!TeamsInit, Teams!Resting
<1>7. ActsInv /\ PageInv /\ HandInv /\ RootedInv
  BY <1>6 DEF ActsInv, PageInv, HandInv, RootedInv, InHand
<1>8. StampsInv
  <2> SUFFICES ASSUME NEW r \in Records PROVE Roots(stamped[r])
    BY DEF StampsInv
  <2>1. PICK f : f = stamped[r]
    OBVIOUS
  <2>2. f = [ch \in Chans |-> IF ch = Home /\ r \in shown THEN 1 ELSE Teams!NoId]
    BY <1>1, <2>1
  <2>3. \A ch \in Chans : f[ch] # Teams!NoId => ch = Home /\ shown # {} /\ f[ch] = 1
    BY <2>2
  <2>4. f = [ch \in Chans |-> f[ch]]
    BY <2>2
  <2>5. shown # {} => Teams!IsRoot(Home, 1)
    BY <1>3, <1>4 DEF Teams!IsRoot
  <2>. QED
    BY <2>1, <2>3, <2>4, <2>5 DEF Roots
<1>. QED
  BY <1>5, <1>7, <1>8 DEF ThreadInv

(* A request that is not between a post and its entry reaches no thread.   *)
LEMMA OnlyKnown ==
  ASSUME threads' = threads, alertReq'.step # "cache"
  PROVE  \A root : Reachable(root)' => Reachable(root)
BY DEF Reachable, Teams!Has, Teams!threadKey

(* A request puts its alerts under a root a former answer named.           *)
LEMMA ReplyToRoot ==
  ASSUME StampsInv, NEW body \in AlertRequests, NEW ch \in Chans, Teams!ReplyTo(body, ch) # Teams!NoId
  PROVE  Teams!IsRoot(ch, Teams!ReplyTo(body, ch))
<1>1. PICK named : named = {i \in Teams!Group(body, ch) : stamped[body[i].alert][ch] # Teams!NoId}
  OBVIOUS
<1>2. named # {} /\ Teams!ReplyTo(body, ch) = stamped[body[Teams!Max(named)].alert][ch]
  BY <1>1 DEF Teams!ReplyTo
<1>3. body \in Seq([alert : Records, channels : Seq(STRING)])
  BY SourcesAssumption
<1>4. Len(body) \in Nat /\ DOMAIN body = 1..Len(body) /\ \A i \in DOMAIN body : body[i].alert \in Records
  <2>1. \A i \in 1..Len(body) : body[i] \in [alert : Records, channels : Seq(STRING)]
    BY <1>3, ElementOfSeq
  <2>. QED
    BY <1>3, <2>1, LenProperties
<1>5. named \subseteq DOMAIN body
  BY <1>1 DEF Teams!Group
<1>6. Teams!Max(named) \in named
  <2>1. named \subseteq 0..Len(body)
    BY <1>4, <1>5
  <2>. QED
    BY <1>2, <1>4, <2>1, GreatestOf
<1>7. PICK r \in Records : r = body[Teams!Max(named)].alert
  BY <1>4, <1>5, <1>6
<1>8. stamped[r][ch] # Teams!NoId
  BY <1>2, <1>7
<1>. QED
  BY <1>2, <1>7, <1>8 DEF StampsInv, Roots

(* A request begins with roots that former answers named.                  *)
LEMMA ThreadBegins == TeamsInv /\ ThreadInv /\ Teams!handleAlert => ThreadInv'
<1> SUFFICES ASSUME TeamsInv, ThreadInv, Teams!handleAlert PROVE ThreadInv'
  OBVIOUS
<1>1. PICK body \in AlertRequests :
         alertReq' = [step |-> "post", body |-> body, todo |-> Teams!Refs(body) \cap Chans, at |-> Home,
                      replyTo |-> [ch \in Chans |-> Teams!ReplyTo(body, ch)],
                      failed |-> Teams!Refs(body) \ Chans,
                      ids |-> [ch \in Chans |-> Teams!NoId], posted |-> [ch \in Chans |-> Teams!NoId]]
  BY DEF Teams!handleAlert
<1>2. UNCHANGED <<chat, threads, polling, acts, seen, forgot, stamped>> /\ ChatGrows
  BY DEF Teams!handleAlert, ChatGrows
<1>3. PICK r : r = alertReq'
  OBVIOUS
<1>4. PICK f : f = [ch \in Chans |-> Teams!ReplyTo(body, ch)]
  OBVIOUS
<1>5. PICK g : g = [ch \in Chans |-> Teams!NoId]
  OBVIOUS
<1>6. /\ r.step = "post" /\ r.body = body /\ r.todo = Teams!Refs(body) \cap Chans
      /\ r.replyTo = f /\ r.ids = g
  BY <1>1, <1>3, <1>4, <1>5
<1>7. Roots(f) /\ Roots(g)
  <2>1. \A ch \in Chans : f[ch] # Teams!NoId => Teams!IsRoot(ch, f[ch])
    BY <1>4, ReplyToRoot DEF ThreadInv
  <2>. QED
    BY <1>4, <1>5, <2>1 DEF Roots
<1>8. Roots(f)' /\ Roots(g)'
  BY <1>2, <1>7, RootsStay
<1>9. Rooted(r)'
  BY <1>6, <1>8 DEF Rooted
<1>10. RootedInv'
  BY <1>3, <1>9 DEF RootedInv
<1>11. alertReq'.step # "cache"
  BY <1>3, <1>6
<1>12. ThreadsInv' /\ StampsInv' /\ PageInv' /\ HandInv'
  BY <1>2, ThreadsStay, StampsStay, PollStays DEF ThreadInv
<1>13. ActsInv'
  BY <1>2, <1>11, OnlyKnown, ActsStay DEF ThreadInv
<1>. QED
  BY <1>10, <1>12, <1>13 DEF ThreadInv

(* The request under way, whose root and channels are sound.               *)
LEMMA RootedAt ==
  ASSUME RootedInv, alertReq.step \in {"post", "cache"}
  PROVE  Rooted(alertReq)
<1>1. Teams!NoRequest.step = "none"
  BY DEF Teams!NoRequest
<1>. QED
  BY <1>1 DEF RootedInv

(* The message of an alert is the daemon's, and is put under the root the  *)
(* request found.                                                          *)
LEMMA AlertRoot ==
  ASSUME NEW ch
  PROVE  Teams!AlertMessage(ch).by = "bot" /\ Teams!AlertMessage(ch).root = alertReq.replyTo[ch]
BY DEF Teams!AlertMessage, Teams!Message

(* A message just posted is in no thread yet.                              *)
LEMMA ThreadPosts == TeamsInv /\ ThreadInv /\ Teams!AlertPosted => ThreadInv'
<1> SUFFICES ASSUME TeamsInv, ThreadInv, Teams!AlertPosted PROVE ThreadInv'
  OBVIOUS
<1>1. PICK ch \in alertReq.todo :
         /\ Says(ch, Teams!AlertMessage(ch))
         /\ alertReq' = [alertReq EXCEPT !.step = "cache", !.todo = @ \ {ch}, !.at = ch,
                                         !.posted[ch] = Len(chat[ch]) + 1]
  BY DEF Teams!AlertPosted, Says
<1>2. UNCHANGED <<threads, polling, acts, seen, forgot, stamped>> /\ alertReq.step = "post"
  BY DEF Teams!AlertPosted
<1>3. PICK r : r = alertReq
  OBVIOUS
<1>4. Underway(r) /\ Rooted(r)
  BY <1>2, <1>3, RequestAt, RootedAt DEF TeamsInv, ThreadInv
<1>5. ch \in Chans /\ ch \in Teams!Refs(r.body)
  BY <1>1, <1>3, <1>4 DEF Underway, Rooted
<1>6. PICK m : m = Teams!AlertMessage(ch)
  OBVIOUS
<1>7. m.by = "bot" /\ m.root = r.replyTo[ch] /\ m.about = Teams!Alerts(r.body, ch)
  BY <1>3, <1>6, AlertShows, AlertRoot
<1>8. PICK n : n = Len(chat[ch]) + 1
  OBVIOUS
<1>9. ChatGrows /\ n \in DOMAIN chat'[ch] /\ n \notin DOMAIN chat[ch] /\ chat'[ch][n] = m
  <2>1. Says(ch, m)
    BY <1>1, <1>6
  <2>2. /\ ChatGrows /\ Len(chat[ch]) \in Nat /\ DOMAIN chat[ch] = 1..Len(chat[ch])
        /\ DOMAIN chat'[ch] = 1..(Len(chat[ch]) + 1)
        /\ chat'[ch][Len(chat[ch]) + 1] = m
    BY <1>5, <2>1, SayingAdds DEF TeamsInv
  <2>. QED
    BY <1>8, <2>2
<1>11. PICK q : q = [r EXCEPT !.step = "cache", !.todo = @ \ {ch}, !.at = ch, !.posted[ch] = n]
  OBVIOUS
<1>12. alertReq' = q
  BY <1>1, <1>3, <1>8, <1>11
<1>13. r = [x \in AlertFields |-> r[x]] /\ r.posted = [d \in Chans |-> r.posted[d]]
  BY <1>4 DEF Underway
<1>15. /\ q.step = "cache" /\ q.todo = r.todo \ {ch} /\ q.body = r.body /\ q.at = ch
       /\ q.posted = [r.posted EXCEPT ![ch] = n] /\ q.replyTo = r.replyTo /\ q.ids = r.ids
  BY <1>11, <1>13 DEF AlertFields
<1>16. q.posted[ch] = n
  BY <1>5, <1>13, <1>15
<1>17. JustPosted(q)'
  BY <1>5, <1>7, <1>9, <1>15, <1>16 DEF JustPosted
<1>18. Rooted(r)'
  BY <1>4, <1>9, RootedStays
<1>19. Rooted(q)'
  BY <1>15, <1>17, <1>18 DEF Rooted
<1>20. RootedInv'
  BY <1>12, <1>19 DEF RootedInv
<1>21. \A root \in DOMAIN chat[Home] : Reachable(root)' => Reachable(root)
  <2> SUFFICES ASSUME NEW root \in DOMAIN chat[Home], Reachable(root)' PROVE Reachable(root)
    OBVIOUS
  <2>1. ~ (q.at = Home /\ q.posted[Home] = root)
    BY <1>9, <1>15, <1>16
  <2>2. Teams!Has(threads, Teams!threadKey(Home, root))'
    BY <1>12, <2>1 DEF Reachable
  <2>3. Teams!Has(threads, Teams!threadKey(Home, root))
    BY <1>2, <2>2 DEF Teams!Has, Teams!threadKey
  <2>. QED
    BY <2>3 DEF Reachable
<1>22. ThreadsInv' /\ StampsInv' /\ PageInv' /\ HandInv'
  BY <1>2, <1>9, ThreadsStay, StampsStay, PollStays DEF ThreadInv
<1>23. ActsInv'
  BY <1>2, <1>9, <1>21, ActsStay DEF ThreadInv
<1>. QED
  BY <1>20, <1>22, <1>23 DEF ThreadInv

(* A channel that failed gets no thread, even if the message was posted.   *)
LEMMA ThreadFailing == TeamsInv /\ ThreadInv /\ Teams!AlertFails => ThreadInv'
<1> SUFFICES ASSUME TeamsInv, ThreadInv, Teams!AlertFails PROVE ThreadInv'
  OBVIOUS
<1>1. PICK ch \in alertReq.todo :
         /\ chat' = chat \/ Says(ch, Teams!AlertMessage(ch))
         /\ alertReq' = [alertReq EXCEPT !.todo = @ \ {ch}, !.failed = @ \cup {ch}]
  BY DEF Teams!AlertFails, Says
<1>2. UNCHANGED <<threads, polling, acts, seen, forgot, stamped>> /\ alertReq.step = "post"
  BY DEF Teams!AlertFails
<1>3. PICK r : r = alertReq
  OBVIOUS
<1>4. Underway(r) /\ Rooted(r)
  BY <1>2, <1>3, RequestAt, RootedAt DEF TeamsInv, ThreadInv
<1>5. ch \in Chans
  BY <1>1, <1>3, <1>4 DEF Underway
<1>6. ChatGrows
  <2>1. PICK m : m = Teams!AlertMessage(ch)
    OBVIOUS
  <2>2. CASE chat' = chat
    BY <2>2 DEF ChatGrows
  <2>3. CASE Says(ch, m)
    BY <1>5, <2>3, SayingAdds DEF TeamsInv
  <2>. QED
    BY <1>1, <2>1, <2>2, <2>3
<1>7. PICK q : q = [r EXCEPT !.todo = @ \ {ch}, !.failed = @ \cup {ch}]
  OBVIOUS
<1>8. alertReq' = q
  BY <1>1, <1>3, <1>7
<1>9. r = [x \in AlertFields |-> r[x]]
  BY <1>4 DEF Underway
<1>10. /\ q.step = r.step /\ q.todo = r.todo \ {ch} /\ q.body = r.body
       /\ q.replyTo = r.replyTo /\ q.ids = r.ids
  BY <1>7, <1>9 DEF AlertFields
<1>11. Rooted(r)' /\ r.step = "post"
  BY <1>2, <1>3, <1>4, <1>6, RootedStays
<1>12. Rooted(q)' /\ q.step = "post"
  BY <1>10, <1>11 DEF Rooted
<1>13. RootedInv' /\ alertReq'.step # "cache"
  BY <1>8, <1>12 DEF RootedInv
<1>14. ThreadsInv' /\ StampsInv' /\ PageInv' /\ HandInv'
  BY <1>2, <1>6, ThreadsStay, StampsStay, PollStays DEF ThreadInv
<1>15. ActsInv'
  BY <1>2, <1>6, <1>13, OnlyKnown, ActsStay DEF ThreadInv
<1>. QED
  BY <1>13, <1>14, <1>15 DEF ThreadInv

(* The record cached for a message is the last of those the message shows. *)
LEMMA LastShown ==
  ASSUME NEW body \in AlertRequests, NEW ch \in Teams!Refs(body)
  PROVE  body[Teams!Max(Teams!Group(body, ch))].alert \in Teams!Alerts(body, ch)
<1>1. PICK G : G = Teams!Group(body, ch)
  OBVIOUS
<1>2. Len(body) \in Nat /\ DOMAIN body = 1..Len(body)
  BY SourcesAssumption, LenProperties
<1>3. G # {} /\ G \subseteq 0..Len(body)
  BY <1>1, <1>2 DEF Teams!Group, Teams!Refs
<1>4. Teams!Max(G) \in G
  BY <1>2, <1>3, GreatestOf
<1>. QED
  BY <1>1, <1>4 DEF Teams!Alerts

(* A thread is known from its first message on; its answer names a root.   *)
LEMMA ThreadCached == TeamsInv /\ ThreadInv /\ Teams!Cache => ThreadInv'
<1> SUFFICES ASSUME TeamsInv, ThreadInv, Teams!Cache PROVE ThreadInv'
  OBVIOUS
<1>1. UNCHANGED <<chat, polling, acts, seen, forgot, stamped>> /\ alertReq.step = "cache" /\ ChatGrows
  BY DEF Teams!Cache, ChatGrows
<1>2. PICK r : r = alertReq
  OBVIOUS
<1>3. Underway(r) /\ Rooted(r) /\ JustPosted(r)
  BY <1>1, <1>2, RequestAt, RootedAt DEF TeamsInv, ThreadInv, Rooted
<1>4. PICK ch, n : ch = r.at /\ n = r.posted[ch]
  OBVIOUS
<1>5. PICK u : u = r.body[Teams!Max(Teams!Group(r.body, ch))].alert
  OBVIOUS
<1>6. PICK root : root = Teams!RootOf(ch)
  OBVIOUS
<1>7. /\ threads' = Teams!Put(threads, Teams!threadKey(ch, n), u)
      /\ alertReq' = [r EXCEPT !.step = "post", !.ids[ch] = root]
  BY <1>2, <1>4, <1>5, <1>6 DEF Teams!Cache
<1>8. /\ ch \in Chans /\ ch \in Teams!Refs(r.body) /\ n \in DOMAIN chat[ch]
      /\ chat[ch][n].by = "bot" /\ chat[ch][n].about = Teams!Alerts(r.body, ch)
      /\ chat[ch][n].root = r.replyTo[ch] /\ r.body \in AlertRequests
  BY <1>3, <1>4 DEF JustPosted, Rooted
<1>9. u \in chat[ch][n].about
  BY <1>5, <1>8, LastShown
<1>10. PICK e : e = [key |-> Teams!threadKey(ch, n), uid |-> u]
  OBVIOUS
<1>11. e.uid = u /\ e.key = Teams!threadKey(ch, n)
  BY <1>10
<1>12. KnownThread(e)
  BY <1>8, <1>9, <1>10, <1>11 DEF KnownThread
<1>13. PICK S : S = {threads[i] : i \in DOMAIN threads}
  OBVIOUS
<1>14. PICK T : T = S \cup {e}
  OBVIOUS
<1>15. threads' \in Seq(T)
  <2>1. threads \in Seq(S)
    BY <1>13, EntriesOf DEF ThreadInv
  <2>2. PICK th : th = threads
    OBVIOUS
  <2>3. th \in Seq(T) /\ e \in T
    <3>1. S \subseteq T /\ e \in T
      BY <1>14
    <3>. QED
      BY <2>1, <2>2, <3>1, SeqMonotonic
  <2>4. Teams!Put(th, Teams!threadKey(ch, n), u) \in Seq(T)
    BY <1>10, <2>3, PutKeeps
  <2>. QED
    BY <1>7, <2>2, <2>4
<1>16. ThreadsInv' /\ \A i \in DOMAIN threads' : threads'[i] \in T
  <2>1. \A x \in T : KnownThread(x) \/ \E i \in DOMAIN threads : x = threads[i]
    BY <1>12, <1>13, <1>14
  <2>. QED
    BY <1>1, <1>15, <2>1, ThreadsFrom DEF ThreadInv
<1>17. PICK q : q = [r EXCEPT !.step = "post", !.ids[ch] = root]
  OBVIOUS
<1>18. alertReq' = q
  BY <1>7, <1>17
<1>19. r = [x \in AlertFields |-> r[x]]
  BY <1>3 DEF Underway
<1>20. /\ q.step = "post" /\ q.todo = r.todo /\ q.body = r.body
       /\ q.replyTo = r.replyTo /\ q.ids = [r.ids EXCEPT ![ch] = root]
  BY <1>17, <1>19 DEF AlertFields
<1>21. root # Teams!NoId => Teams!IsRoot(ch, root)
  <2>1. CASE r.replyTo[ch] # Teams!NoId
    <3>1. root = r.replyTo[ch]
      BY <1>2, <1>6, <2>1 DEF Teams!RootOf
    <3>. QED
      BY <1>3, <1>8, <3>1 DEF Rooted, Roots
  <2>2. CASE r.replyTo[ch] = Teams!NoId
    <3>1. root = n
      BY <1>2, <1>4, <1>6, <2>2 DEF Teams!RootOf
    <3>. QED
      BY <1>8, <2>2, <3>1 DEF Teams!IsRoot
  <2>. QED
    BY <2>1, <2>2
<1>22. Roots(q.ids)
  <2>1. PICK f, g : f = r.ids /\ g = q.ids
    OBVIOUS
  <2>2. Roots(f) /\ g = [f EXCEPT ![ch] = root]
    BY <1>3, <1>20, <2>1 DEF Rooted
  <2>3. g = [c \in Chans |-> g[c]] /\ g[ch] = root /\ \A c \in Chans \ {ch} : g[c] = f[c]
    BY <1>8, <2>2 DEF Roots
  <2>4. Roots(g)
    BY <1>21, <2>2, <2>3 DEF Roots
  <2>. QED
    BY <2>1, <2>4
<1>23. Rooted(q)
  BY <1>3, <1>20, <1>22 DEF Rooted
<1>24. RootedInv'
  BY <1>1, <1>18, <1>23, RootedStays DEF RootedInv
<1>25. \A root1 \in DOMAIN chat[Home] : Reachable(root1)' => Reachable(root1)
  <2> SUFFICES ASSUME NEW root1 \in DOMAIN chat[Home], Reachable(root1)' PROVE Reachable(root1)
    OBVIOUS
  <2>1. PICK key : key = <<Home, root1>>
    OBVIOUS
  <2>2. PICK i \in DOMAIN threads' : threads'[i].key = key
    BY <1>18, <1>20, <2>1 DEF Reachable, Teams!Has, Teams!threadKey
  <2>3. PICK x : x = threads'[i]
    OBVIOUS
  <2>4. x \in T /\ x.key = key
    BY <1>16, <2>2, <2>3
  <2>5. CASE x \in S
    <3>1. PICK j \in DOMAIN threads : threads[j].key = key
      BY <1>13, <2>4, <2>5
    <3>. QED
      BY <2>1, <3>1 DEF Reachable, Teams!Has, Teams!threadKey
  <2>6. CASE x = e
    <3>1. <<ch, n>> = <<Home, root1>>
      BY <1>11, <2>1, <2>4, <2>6 DEF Teams!threadKey
    <3>2. ch = Home /\ n = root1
      BY <3>1
    <3>. QED
      BY <1>1, <1>2, <1>4, <3>2 DEF Reachable
  <2>. QED
    BY <1>14, <2>4, <2>5, <2>6
<1>26. StampsInv' /\ PageInv' /\ HandInv'
  BY <1>1, StampsStay, PollStays DEF ThreadInv
<1>27. ActsInv'
  BY <1>1, <1>25, ActsStay DEF ThreadInv
<1>. QED
  BY <1>16, <1>24, <1>26, <1>27 DEF ThreadInv

(* The roots of an answer are stamped on its records.                      *)
LEMMA ThreadAnswered == TeamsInv /\ ThreadInv /\ Teams!AlertAnswered => ThreadInv'
<1> SUFFICES ASSUME TeamsInv, ThreadInv, Teams!AlertAnswered PROVE ThreadInv'
  OBVIOUS
<1>1. UNCHANGED <<chat, threads, polling, acts, seen, forgot>> /\ alertReq.step = "post" /\ ChatGrows
  BY DEF Teams!AlertAnswered, ChatGrows
<1>2. alertReq' = Teams!NoRequest /\ alertReq'.step # "cache"
  BY DEF Teams!AlertAnswered, Teams!NoRequest
<1>3. PICK r : r = alertReq
  OBVIOUS
<1>4. Rooted(r)
  BY <1>1, <1>3, RootedAt DEF ThreadInv
<1>5. StampsInv'
  <2>1. CASE stamped' = stamped
    BY <1>1, <2>1, StampsStay DEF ThreadInv
  <2>2. CASE stamped' = [s \in Records |-> [ch \in Chans |->
                IF s \in Teams!Alerts(alertReq.body, ch) /\ alertReq.ids[ch] # Teams!NoId
                THEN alertReq.ids[ch] ELSE stamped[s][ch]]]
    <3> SUFFICES ASSUME NEW s \in Records PROVE Roots(stamped[s])'
      BY DEF StampsInv
    <3>1. PICK f, g : f = stamped[s] /\ g = stamped'[s]
      OBVIOUS
    <3>2. Roots(f) /\ Roots(r.ids)
      BY <1>4, <3>1 DEF ThreadInv, StampsInv, Rooted
    <3>3. g = [ch \in Chans |->
                IF s \in Teams!Alerts(r.body, ch) /\ r.ids[ch] # Teams!NoId THEN r.ids[ch] ELSE f[ch]]
      BY <1>3, <2>2, <3>1
    <3>4. g = [ch \in Chans |-> g[ch]] /\ \A ch \in Chans : g[ch] = r.ids[ch] \/ g[ch] = f[ch]
      BY <3>3
    <3>5. Roots(g)
      BY <3>2, <3>4 DEF Roots
    <3>6. Roots(g)'
      BY <1>1, <3>5, RootsStay
    <3>. QED
      BY <3>1, <3>6
  <2>. QED
    BY <2>1, <2>2 DEF Teams!AlertAnswered
<1>6. ThreadsInv' /\ PageInv' /\ HandInv'
  BY <1>1, ThreadsStay, PollStays DEF ThreadInv
<1>7. ActsInv'
  BY <1>1, <1>2, OnlyKnown, ActsStay DEF ThreadInv
<1>. QED
  BY <1>2, <1>5, <1>6, <1>7 DEF ThreadInv, RootedInv

(* A restart forgets what was seen, and with it every thread.              *)
LEMMA ThreadRestarts == TeamsInv /\ ThreadInv /\ Teams!RestartTeams => ThreadInv'
<1> SUFFICES ASSUME TeamsInv, ThreadInv, Teams!RestartTeams PROVE ThreadInv'
  OBVIOUS
<1>1. UNCHANGED <<chat, acts, forgot, stamped>> /\ threads' = <<>> /\ ChatGrows
  BY DEF Teams!RestartTeams, ChatGrows
<1>2. polling'.step = "rest" /\ alertReq' = Teams!NoRequest /\ alertReq'.step = "none"
  BY DEF Teams!RestartTeams, Teams!Resting, Teams!NoRequest
<1>3. ThreadsInv'
  <2>1. <<>> \in Seq({}) /\ DOMAIN <<>> = {}
    BY EmptySeq
  <2>. QED
    BY <1>1, <2>1 DEF ThreadsInv, IsSeq
<1>4. \A root : ~Reachable(root)'
  <2>1. DOMAIN threads' = {}
    BY <1>1
  <2>. QED
    BY <1>2, <2>1 DEF Reachable, Teams!Has
<1>5. ActsInv'
  <2>1. ASSUME NEW i \in DOMAIN acts PROVE OnThread(acts[i].id, acts[i].uid)' /\ Remembered(acts[i].id)'
    <3>1. PICK n, u : n = acts[i].id /\ u = acts[i].uid
      OBVIOUS
    <3>2. OnThread(n, u)'
      BY <1>1, <3>1, OnThreadStays DEF ThreadInv, ActsInv
    <3>3. n = acts'[i].id /\ u = acts'[i].uid
      BY <1>1, <3>1
    <3>. QED
      BY <1>4, <3>2, <3>3 DEF Remembered
  <2>2. \A i \in DOMAIN acts' : OnThread(acts[i].id, acts[i].uid)' /\ Remembered(acts[i].id)'
    BY <1>1, <2>1
  <2>3. \A i, j \in DOMAIN acts :
           i < j /\ acts[i].id = acts[j].id /\ acts[i].kind = acts[j].kind => acts[i].id \in forgot'
    BY <1>1 DEF ThreadInv, ActsInv
  <2>. QED
    BY <1>1, <2>2, <2>3 DEF ActsInv
<1>6. StampsInv' /\ PageInv' /\ HandInv' /\ RootedInv'
  BY <1>1, <1>2, StampsStay DEF ThreadInv, PageInv, HandInv, RootedInv, InHand
<1>. QED
  BY <1>3, <1>5, <1>6 DEF ThreadInv

(* The loop goes on with messages of the page, at one that is not seen.    *)
Turned(t, D, known) ==
    \/ t.step = "rest"
    \/ t.step = "page" /\ t.page \in Seq(D) /\ t.page # <<>> /\ Head(t.page) \notin known

(* Turn stops at the first message that is not known.                      *)
LEMMA TurnGoesOn ==
  ASSUME NEW D, NEW page \in Seq(D), NEW known
  PROVE  Turned(Teams!Turn(page, known), D, known)
<1>1. PICK new : new = {i \in DOMAIN page : page[i] \notin known}
  OBVIOUS
<1>2. PICK t : t = Teams!Turn(page, known)
  OBVIOUS
<1>3. CASE new = {}
  BY <1>1, <1>2, <1>3 DEF Turned, Teams!Turn, Teams!Resting
<1>4. CASE new # {}
  <2>1. PICK m : m = Teams!Min(new)
    OBVIOUS
  <2>2. t = [step |-> "page", page |-> SubSeq(page, m, Len(page))]
    BY <1>1, <1>2, <1>4, <2>1 DEF Teams!Turn
  <2>3. Len(page) \in Nat /\ DOMAIN page = 1..Len(page) /\ \A i \in 1..Len(page) : page[i] \in D
    BY LenProperties, ElementOfSeq
  <2>4. m \in new
    <3>1. new \subseteq Nat
      BY <1>1, <2>3
    <3>. QED
      BY <1>4, <2>1, <3>1, LeastOf
  <2>5. m \in 1..Len(page) /\ page[m] \notin known
    BY <1>1, <2>3, <2>4
  <2>6. PICK s : s = SubSeq(page, m, Len(page))
    OBVIOUS
  <2>7. m \in Int /\ Len(page) \in Int /\ \A i \in m..Len(page) : page[i] \in D
    BY <2>3, <2>5
  <2>8. /\ s \in Seq(D) /\ Len(s) = Len(page) - m + 1
        /\ \A i \in 1..(Len(page) - m + 1) : s[i] = page[m + i - 1]
    BY <2>5, <2>6, <2>7, SubSeqProperties
  <2>9. s[1] = page[m] /\ Len(s) # 0
    BY <2>3, <2>5, <2>8
  <2>10. s # <<>>
    BY <2>9
  <2>11. Head(s) = page[m]
    BY <2>8, <2>9, <2>10
  <2>12. t.step = "page" /\ t.page = s
    BY <2>2, <2>6
  <2>. QED
    BY <1>2, <2>5, <2>8, <2>10, <2>11, <2>12 DEF Turned
<1>. QED
  BY <1>3, <1>4

(* Where a page goes on, what the poller is at is sound.                   *)
LEMMA PollTurns ==
  ASSUME NEW page, Listed(page)', polling' = Teams!Turn(page, seen')
  PROVE  PageInv' /\ HandInv'
<1>1. PICK D, k, t : D = DOMAIN chat'[Home] /\ k = seen' /\ t = Teams!Turn(page, k)
  OBVIOUS
<1>2. page \in Seq(D)
  BY <1>1 DEF Listed
<1>3. Turned(t, D, k)
  BY <1>1, <1>2, TurnGoesOn
<1>4. polling' = t
  BY <1>1
<1>5. t.step \notin InHand
  BY <1>3 DEF Turned, InHand
<1>6. HandInv'
  BY <1>4, <1>5 DEF HandInv
<1>7. PageInv'
  BY <1>1, <1>3, <1>4 DEF PageInv, Turned, Listed
<1>. QED
  BY <1>6, <1>7

(* fetchMessages lists messages of the channel.                            *)
LEMMA PageListed == TeamsInv => \A page \in Teams!Page : Listed(page)
<1> SUFFICES ASSUME TeamsInv, NEW page \in Teams!Page PROVE Listed(page)
  OBVIOUS
<1>1. PICK s : s = chat[Home]
  OBVIOUS
<1>2. PICK S : s \in Seq(S)
  BY <1>1, BridgesAssumption DEF TeamsInv, ChatInv, IsSeq
<1>3. PICK n \in Nat : n = Len(s) /\ DOMAIN s = 1..n
  BY <1>2, LenProperties
<1>4. PICK newest : /\ newest \subseteq Teams!Shown
                    /\ page \in [1..Teams!Cardinality(newest) -> newest]
  <2> DEFINE new == {id \in Teams!Shown : Teams!Cardinality(Teams!Newer(id)) < PageSize}
  <2>1. page \in {p \in [1..Teams!Cardinality(new) -> new] :
                     \A i \in DOMAIN p : Teams!Cardinality(Teams!Newer(p[i])) = i - 1}
    BY Zenon DEF Teams!Page
  <2>2. new \subseteq Teams!Shown
    OBVIOUS
  <2> HIDE DEF new
  <2>3. page \in [1..Teams!Cardinality(new) -> new]
    BY <2>1, Zenon
  <2>. QED
    BY <2>2, <2>3
<1>5. newest \subseteq 1..n
  BY <1>1, <1>3, <1>4 DEF Teams!Shown
<1>6. IsFiniteSet(newest)
  <2>1. IsFiniteSet(1..n)
    BY <1>3, FS_Interval
  <2>. QED
    BY <1>5, <2>1, FS_Subset, Zenon
<1>7. PICK k \in Nat : k = Teams!Cardinality(newest)
  BY <1>6, FS_CardinalityType, TeamsCount
<1>8. page \in [1..k -> 1..n]
  BY <1>4, <1>5, <1>7
<1>9. PICK D : D = 1..n
  OBVIOUS
<1>10. page \in Seq(D)
  BY <1>8, <1>9, ListIsSeq
<1>. QED
  BY <1>1, <1>3, <1>9, <1>10 DEF Listed

(* A poll that begins or fails; people who speak.                          *)
LEMMA ThreadPolls == TeamsInv /\ ThreadInv /\ (Teams!pollOnce \/ Teams!FetchFails) => ThreadInv'
<1> SUFFICES ASSUME TeamsInv, ThreadInv, Teams!pollOnce \/ Teams!FetchFails PROVE ThreadInv'
  OBVIOUS
<1>1. UNCHANGED <<chat, threads, seen, alertReq, stamped, acts, forgot>> /\ ChatGrows
  BY DEF Teams!pollOnce, Teams!FetchFails, ChatGrows
<1>2. ThreadsInv' /\ StampsInv' /\ RootedInv'
  BY <1>1, ThreadsStay, StampsStay, RootedInvStays DEF ThreadInv
<1>3. ActsInv'
  BY <1>1, ActsStay DEF ThreadInv, Reachable, Teams!Has, Teams!threadKey
<1>4. PageInv' /\ HandInv'
  <2>1. CASE Teams!pollOnce
    <3>1. PICK page \in Teams!Page : polling' = Teams!Turn(page, seen)
      BY <2>1 DEF Teams!pollOnce
    <3>2. polling' = Teams!Turn(page, seen')
      BY <1>1, <3>1
    <3>3. Listed(page)'
      BY <1>1, <3>1, PageListed DEF Listed
    <3>. QED
      BY <3>2, <3>3, PollTurns
  <2>2. CASE Teams!FetchFails
    BY <1>1, <2>2, PollStays DEF ThreadInv, Teams!FetchFails
  <2>. QED
    BY <2>1, <2>2
<1>. QED
  BY <1>2, <1>3, <1>4 DEF ThreadInv

(* What people say adds to the chat alone.                                 *)
LEMMA ThreadSays ==
  ASSUME NEW verb, NEW root, TeamsInv, ThreadInv, Teams!Say(verb, root)
  PROVE  ThreadInv'
<1>1. PICK m : m = Teams!Message("person", root, verb, {}, Teams!NoId)
  OBVIOUS
<1>2. Says(Home, m) /\ UNCHANGED <<threads, seen, polling, alertReq, stamped, acts, forgot>>
  BY <1>1 DEF Teams!Say, Says
<1>3. ChatGrows
  BY <1>2, SayingAdds, BridgesAssumption DEF TeamsInv
<1>4. ThreadsInv' /\ StampsInv' /\ RootedInv' /\ PageInv' /\ HandInv'
  BY <1>2, <1>3, ThreadsStay, StampsStay, RootedInvStays, PollStays DEF ThreadInv
<1>5. \A n : Reachable(n)' => Reachable(n)
  BY <1>2 DEF Reachable, Teams!Has, Teams!threadKey
<1>6. ActsInv'
  BY <1>2, <1>3, <1>5, ActsStay DEF ThreadInv
<1>. QED
  BY <1>4, <1>6 DEF ThreadInv

(* The daemon's own answer is one more message.                            *)
LEMMA ThreadReplies == TeamsInv /\ ThreadInv /\ Teams!Reply => ThreadInv'
<1> SUFFICES ASSUME TeamsInv, ThreadInv, Teams!Reply PROVE ThreadInv'
  OBVIOUS
<1>1. PICK m : m = Teams!Message("bot", Teams!ThreadId(polling.id), Teams!replyOnce(polling.ok), {}, polling.id)
  OBVIOUS
<1>2. /\ chat' = chat \/ Says(Home, m)
      /\ UNCHANGED <<threads, seen, alertReq, stamped, acts, forgot>> /\ polling.step = "reply"
      /\ polling' = Teams!Turn(polling.page, seen)
  BY <1>1 DEF Teams!Reply, Says
<1>3. ChatGrows
  <2>1. CASE chat' = chat
    BY <2>1 DEF ChatGrows
  <2>2. CASE Says(Home, m)
    BY <2>2, SayingAdds, BridgesAssumption DEF TeamsInv
  <2>. QED
    BY <1>2, <2>1, <2>2
<1>4. ThreadsInv' /\ StampsInv' /\ RootedInv'
  BY <1>2, <1>3, ThreadsStay, StampsStay, RootedInvStays DEF ThreadInv
<1>5. \A n : Reachable(n)' => Reachable(n)
  BY <1>2 DEF Reachable, Teams!Has, Teams!threadKey
<1>6. ActsInv'
  BY <1>2, <1>3, <1>5, ActsStay DEF ThreadInv
<1>7. PICK page : page = polling.page
  OBVIOUS
<1>8. Listed(page)
  BY <1>2, <1>7 DEF ThreadInv, HandInv, InHand
<1>9. Listed(page)'
  BY <1>3, <1>8, ListedStays
<1>10. polling' = Teams!Turn(page, seen')
  BY <1>2, <1>7
<1>11. PageInv' /\ HandInv'
  BY <1>9, <1>10, PollTurns
<1>. QED
  BY <1>4, <1>6, <1>11 DEF ThreadInv

(* What is done for the command in hand is done on its thread, and was not *)
(* done before, unless the message was forgotten.                          *)
LEMMA ActAdds ==
  ASSUME NEW kind, TeamsInv, ThreadInv, acts' = Teams!Act(kind),
         UNCHANGED <<chat, threads, seen, alertReq, forgot>>,
         polling.step \in {"comment", "snooze", "ack"},
         \A i \in DOMAIN acts :
            acts[i].id = polling.id /\ acts[i].kind = kind => polling.id \in forgot
  PROVE  /\ ActsInv'
         /\ \A i \in DOMAIN acts' :
               \/ i \in DOMAIN acts /\ acts'[i] = acts[i]
               \/ acts'[i].id = polling.id /\ acts'[i].kind = kind
<1>1. PICK n, u, x : n = polling.id /\ u = polling.uid /\ x = [id |-> n, uid |-> u, kind |-> kind]
  OBVIOUS
<1>2. acts' = Append(acts, x) /\ x.id = n /\ x.uid = u /\ x.kind = kind
  BY <1>1 DEF Teams!Act
<1>3. PICK s : s = acts
  OBVIOUS
<1>4. PICK L : L = Len(s)
  OBVIOUS
<1>5. /\ L \in Nat /\ DOMAIN s = 1..L /\ DOMAIN acts' = 1..(L + 1) /\ acts'[L + 1] = x
      /\ \A i \in DOMAIN s : acts'[i] = s[i]
  BY <1>2, <1>3, <1>4, OneMore DEF TeamsInv, ChatInv
<1>6. \A i \in DOMAIN acts' : (i \in DOMAIN s /\ acts'[i] = s[i]) \/ (i = L + 1 /\ acts'[i] = x)
  BY <1>5
<1>7. OnThread(n, u) /\ n \in seen
  BY <1>1 DEF ThreadInv, HandInv, InHand
<1>8. ChatGrows
  BY DEF ChatGrows
<1>9. \A m : Remembered(m) => Remembered(m)'
  BY DEF Remembered, Reachable, Teams!Has, Teams!threadKey, Teams!ThreadId
<1>10. \A m, v : OnThread(m, v) => OnThread(m, v)'
  BY DEF OnThread, Teams!ThreadId
<1>11. ASSUME NEW i \in DOMAIN acts' PROVE OnThread(acts[i].id, acts[i].uid)' /\ Remembered(acts[i].id)'
  <2>1. PICK y : y = acts'[i]
    OBVIOUS
  <2>2. OnThread(y.id, y.uid) /\ Remembered(y.id)
    <3>1. CASE i \in DOMAIN s /\ acts'[i] = s[i]
      BY <1>3, <2>1, <3>1 DEF ThreadInv, ActsInv
    <3>2. CASE i = L + 1 /\ acts'[i] = x
      BY <1>2, <1>7, <2>1, <3>2 DEF Remembered
    <3>. QED
      BY <1>6, <3>1, <3>2
  <2>3. PICK m, v : m = y.id /\ v = y.uid
    OBVIOUS
  <2>4. OnThread(m, v)' /\ Remembered(m)'
    BY <1>9, <1>10, <2>2, <2>3
  <2>. QED
    BY <2>1, <2>3, <2>4
<1>12. ASSUME NEW i \in DOMAIN acts', NEW j \in DOMAIN acts', i < j, acts'[i].id = acts'[j].id,
              acts'[i].kind = acts'[j].kind
       PROVE  acts'[i].id \in forgot'
  <2>1. i \in DOMAIN s /\ acts'[i] = s[i]
    BY <1>5, <1>12
  <2>2. CASE j \in DOMAIN s /\ acts'[j] = s[j]
    BY <1>3, <1>12, <2>1, <2>2 DEF ThreadInv, ActsInv
  <2>3. CASE j = L + 1 /\ acts'[j] = x
    BY <1>1, <1>2, <1>3, <1>12, <2>1, <2>3
  <2>. QED
    BY <1>6, <2>2, <2>3
<1>13. ActsInv'
  BY <1>11, <1>12 DEF ActsInv
<1>. QED
  BY <1>1, <1>2, <1>3, <1>6, <1>13

(* The command in hand after a step that leaves its message.               *)
LEMMA HandMoves ==
  ASSUME NEW s \in InHand, TeamsInv, polling.step \in InHand,
         \/ polling' = [polling EXCEPT !.step = s]
         \/ polling' = [polling EXCEPT !.step = s, !.ok = TRUE]
  PROVE  /\ polling'.step = s /\ polling'.page = polling.page /\ polling'.id = polling.id
         /\ polling'.uid = polling.uid
<1>1. PICK p : p = polling
  OBVIOUS
<1>2. PICK a, b, c, d, e : p = [step |-> a, page |-> b, id |-> c, uid |-> d, ok |-> e]
  BY <1>1 DEF TeamsInv, PollInv, IsCommand
<1>3. PICK q : q = [p EXCEPT !.step = s]
  OBVIOUS
<1>4. PICK q1 : q1 = [p EXCEPT !.step = s, !.ok = TRUE]
  OBVIOUS
<1>5. q.step = s /\ q.page = p.page /\ q.id = p.id /\ q.uid = p.uid
  BY <1>2, <1>3
<1>6. q1.step = s /\ q1.page = p.page /\ q1.id = p.id /\ q1.uid = p.uid
  BY <1>2, <1>4
<1>7. polling' = q \/ polling' = q1
  BY <1>1, <1>3, <1>4
<1>. QED
  BY <1>1, <1>5, <1>6, <1>7

(* The commands: a comment, a snooze and its acknowledgement.              *)
LEMMA ThreadActs ==
  TeamsInv /\ ThreadInv /\ (Teams!Comment \/ Teams!handleSnooze \/ Teams!BestEffortAck) => ThreadInv'
<1> SUFFICES ASSUME TeamsInv, ThreadInv, Teams!Comment \/ Teams!handleSnooze \/ Teams!BestEffortAck
             PROVE  ThreadInv'
  OBVIOUS
<1>1. UNCHANGED <<chat, threads, seen, alertReq, stamped, forgot>> /\ ChatGrows
  BY DEF Teams!Comment, Teams!handleSnooze, Teams!BestEffortAck, ChatGrows
<1>2. PICK kind, s :
         /\ s \in {"ack", "reply"}
         /\ acts' = acts \/ acts' = Teams!Act(kind)
         /\ \/ polling.step = "comment" /\ s = "reply"
            \/ polling.step = "snooze" /\ kind = "snooze"
            \/ polling.step = "ack" /\ kind = "ack" /\ s = "reply"
         /\ \/ polling' = [polling EXCEPT !.step = s]
            \/ polling' = [polling EXCEPT !.step = s, !.ok = TRUE]
  <2>1. CASE Teams!Comment
    <3>1. polling.step = "comment" /\ (acts' = acts \/ acts' = Teams!Act("comment"))
      BY <2>1 DEF Teams!Comment
    <3>2. \/ polling' = [polling EXCEPT !.step = "reply"]
          \/ polling' = [polling EXCEPT !.step = "reply", !.ok = TRUE]
      BY <2>1 DEF Teams!Comment
    <3>. QED
      BY <3>1, <3>2
  <2>2. CASE Teams!handleSnooze
    <3>1. polling.step = "snooze" /\ (acts' = acts \/ acts' = Teams!Act("snooze"))
      BY <2>2 DEF Teams!handleSnooze
    <3>2. \/ polling' = [polling EXCEPT !.step = "reply"]
          \/ polling' = [polling EXCEPT !.step = "ack", !.ok = TRUE]
      BY <2>2 DEF Teams!handleSnooze
    <3>. QED
      BY <3>1, <3>2
  <2>3. CASE Teams!BestEffortAck
    <3>1. polling.step = "ack" /\ (acts' = acts \/ acts' = Teams!Act("ack"))
      BY <2>3 DEF Teams!BestEffortAck
    <3>2. polling' = [polling EXCEPT !.step = "reply"]
      BY <2>3 DEF Teams!BestEffortAck
    <3>. QED
      BY <3>1, <3>2
  <2>. QED
    BY <2>1, <2>2, <2>3
<1>3. polling.step \in {"comment", "snooze", "ack"} /\ polling.step \in InHand /\ s \in InHand
  BY <1>2 DEF InHand
<1>4. PICK n, u, p : n = polling.id /\ u = polling.uid /\ p = polling.page
  OBVIOUS
<1>5. /\ Listed(p) /\ n \in seen /\ n \in DOMAIN chat[Home] /\ OnThread(n, u)
      /\ polling.step \in {"comment", "snooze"} => NotDone(n)
      /\ polling.step = "ack" => NotAcked(n)
  BY <1>3, <1>4 DEF ThreadInv, HandInv
<1>6. \A i \in DOMAIN acts : acts[i].id = n /\ acts[i].kind = kind => n \in forgot
  BY <1>2, <1>5 DEF NotDone, NotAcked
<1>7. /\ ActsInv'
      /\ \A i \in DOMAIN acts' :
            \/ i \in DOMAIN acts /\ acts'[i] = acts[i]
            \/ acts'[i].id = n /\ acts'[i].kind = kind
  <2>1. CASE acts' = acts
    BY <1>1, <2>1, ActsStay DEF ThreadInv, Reachable, Teams!Has, Teams!threadKey
  <2>2. CASE acts' = Teams!Act(kind)
    BY <1>1, <1>3, <1>4, <1>6, <2>2, ActAdds
  <2>. QED
    BY <1>2, <2>1, <2>2
<1>8. polling'.step = s /\ polling'.page = p /\ polling'.id = n /\ polling'.uid = u
  BY <1>2, <1>3, <1>4, HandMoves
<1>9. Listed(p)' /\ OnThread(n, u)' /\ n \in DOMAIN chat'[Home]
  BY <1>1, <1>5, ListedStays, OnThreadStays
<1>10. s = "ack" => NotAcked(n)'
  <2> SUFFICES ASSUME s = "ack", NEW i \in DOMAIN acts', acts'[i].id = n, acts'[i].kind = "ack"
               PROVE  n \in forgot'
    BY DEF NotAcked
  <2>1. polling.step = "snooze" /\ kind = "snooze"
    BY <1>2
  <2>. QED
    BY <1>1, <1>5, <1>7, <2>1 DEF NotDone
<1>11. HandInv' /\ PageInv'
  <2>1. s \notin {"comment", "snooze", "page"}
    BY <1>2
  <2>. QED
    BY <1>1, <1>5, <1>8, <1>9, <1>10, <2>1 DEF HandInv, PageInv
<1>12. ThreadsInv' /\ StampsInv' /\ RootedInv'
  BY <1>1, ThreadsStay, StampsStay, RootedInvStays DEF ThreadInv
<1>. QED
  BY <1>7, <1>11, <1>12 DEF ThreadInv

(* Get answers for a thread the daemon knows.  The message in hand is not  *)
(* the daemon's, so it is not the one that starts the thread.              *)
LEMMA GetKnows ==
  ASSUME TeamsInv, ThreadInv, NEW id \in DOMAIN chat[Home], chat[Home][id].by # "bot",
         Teams!Get(Teams!threadKey(Home, Teams!ThreadId(id))) # Teams!NoUid
  PROVE  /\ OnThread(id, Teams!Get(Teams!threadKey(Home, Teams!ThreadId(id))))
         /\ Reachable(Teams!ThreadId(id))
<1>1. PICK root, key, th : root = Teams!ThreadId(id) /\ key = Teams!threadKey(Home, root) /\ th = threads
  OBVIOUS
<1>2. Teams!Has(th, key) /\ Teams!Get(key) = th[Teams!Place(th, key)].uid
  BY <1>1 DEF Teams!Get
<1>3. PICK i \in DOMAIN th : i = Teams!Place(th, key) /\ th[i].key = key
  <2>1. PICK S : th \in Seq(S)
    BY <1>1 DEF ThreadInv, ThreadsInv, IsSeq
  <2>. QED
    BY <1>2, <2>1, WithoutKeeps
<1>4. PICK e : e = th[i]
  OBVIOUS
<1>5. KnownThread(e) /\ e.key = key /\ e.uid = Teams!Get(key)
  BY <1>1, <1>2, <1>3, <1>4 DEF ThreadInv, ThreadsInv
<1>6. PICK c, k :
         /\ c \in Chans /\ k \in DOMAIN chat[c]
         /\ e = [key |-> Teams!threadKey(c, k), uid |-> e.uid]
         /\ chat[c][k].by = "bot" /\ e.uid \in chat[c][k].about
  BY <1>5 DEF KnownThread
<1>7. e.key = <<c, k>> /\ key = <<Home, root>>
  BY <1>1, <1>6 DEF Teams!threadKey
<1>8. c = Home /\ k = root
  <2>1. <<c, k>> = <<Home, root>>
    BY <1>5, <1>7
  <2>. QED
    BY <2>1
<1>9. root # id
  BY <1>6, <1>8
<1>. QED
  BY <1>1, <1>2, <1>5, <1>6, <1>8, <1>9 DEF OnThread, Reachable

(* The cache after a message was handled holds what it held.               *)
LEMMA HandleTouches ==
  ASSUME NEW key, ThreadInv, chat' = chat, threads' = threads \/ threads' = Teams!Touched(key)
  PROVE  ThreadsInv' /\ \A i \in DOMAIN threads' : \E j \in DOMAIN threads : threads'[i] = threads[j]
<1>1. PICK S : S = {threads[i] : i \in DOMAIN threads}
  OBVIOUS
<1>2. threads \in Seq(S)
  BY <1>1, EntriesOf DEF ThreadInv
<1>3. threads' \in Seq(S)
  BY <1>2, TouchedKeeps
<1>4. ThreadsInv' /\ \A i \in DOMAIN threads' : threads'[i] \in S
  <2>1. \A e \in S : \E i \in DOMAIN threads : e = threads[i]
    BY <1>1
  <2>. QED
    BY <1>3, <2>1, ThreadsFrom DEF ThreadInv
<1>. QED
  BY <1>1, <1>4

(* A message is taken once while it is remembered.                         *)
LEMMA ThreadTakes == TeamsInv /\ ThreadInv /\ Teams!Take => ThreadInv'
<1> SUFFICES ASSUME TeamsInv, ThreadInv, Teams!Take PROVE ThreadInv'
  OBVIOUS
<1>1. UNCHANGED <<chat, alertReq, stamped, acts>> /\ polling.step = "page" /\ ChatGrows
  BY DEF Teams!Take, ChatGrows
<1>2. PICK page, id : page = polling.page /\ id = Head(page)
  OBVIOUS
<1>3. Listed(page) /\ page # <<>> /\ id \notin seen
  BY <1>1, <1>2 DEF ThreadInv, PageInv
<1>4. id \in DOMAIN chat[Home] /\ Listed(Tail(page))
  <2>1. PICK D : D = DOMAIN chat[Home]
    OBVIOUS
  <2>2. page \in Seq(D)
    BY <1>3, <2>1 DEF Listed
  <2>3. Head(page) \in D /\ Tail(page) \in Seq(D)
    BY <1>3, <2>2, HeadTailProperties
  <2>. QED
    BY <1>2, <2>1, <2>3 DEF Listed
<1>5. Teams!markSeen(id)
  BY <1>2 DEF Teams!Take
<1>6. PICK left : seen' = left \cup {id} /\ forgot' = forgot \cup (seen \ left)
  BY <1>5 DEF Teams!markSeen
<1>7. id \in seen' /\ forgot \subseteq forgot' /\ seen \subseteq seen' \cup forgot'
  BY <1>6
<1>8. PICK key : key = Teams!threadKey(Home, Teams!ThreadId(id))
  OBVIOUS
<1>9. \/ polling' = Teams!Turn(Tail(page), seen') /\ threads' = threads
      \/ ~Teams!isSelfMessage(chat[Home][id]) /\ Teams!Handle(id)
  BY <1>2 DEF Teams!Take
<1>10. threads' = threads \/ threads' = Teams!Touched(key)
  BY <1>8, <1>9 DEF Teams!Handle
<1>11. ThreadsInv' /\ \A i \in DOMAIN threads' : \E j \in DOMAIN threads : threads'[i] = threads[j]
  BY <1>1, <1>10, HandleTouches
<1>12. \A root : Reachable(root)' => Reachable(root)
  <2> SUFFICES ASSUME NEW root, Teams!Has(threads, Teams!threadKey(Home, root))'
               PROVE  Teams!Has(threads, Teams!threadKey(Home, root))
    BY <1>1 DEF Reachable
  <2>. QED
    BY <1>11 DEF Teams!Has, Teams!threadKey
<1>13. ActsInv'
  BY <1>1, <1>7, <1>12, ActsStay DEF ThreadInv
<1>14. StampsInv' /\ RootedInv'
  BY <1>1, StampsStay, RootedInvStays DEF ThreadInv
<1>15. PageInv' /\ HandInv'
  <2>1. CASE polling' = Teams!Turn(Tail(page), seen')
    <3>1. PICK p : p = Tail(page)
      OBVIOUS
    <3>2. Listed(p)'
      BY <1>1, <1>4, <3>1 DEF Listed
    <3>3. polling' = Teams!Turn(p, seen')
      BY <2>1, <3>1
    <3>. QED
      BY <3>2, <3>3, PollTurns
  <2>2. CASE ~Teams!isSelfMessage(chat[Home][id]) /\ Teams!Handle(id)
    <3>1. PICK uid : uid = (IF chat[Home][id].verb = "help" THEN Teams!NoUid ELSE Teams!Get(key))
      OBVIOUS
    <3>2. PICK s : /\ s \in {"reply", "snooze", "comment"} /\ (s # "reply" => uid # Teams!NoUid)
                   /\ polling' = [step |-> s, page |-> Tail(polling.page), id |-> id, uid |-> uid, ok |-> FALSE]
      BY <1>8, <2>2, <3>1 DEF Teams!Handle
    <3>3. PICK q : q = polling'
      OBVIOUS
    <3>4. q.step = s /\ q.page = Tail(page) /\ q.id = id /\ q.uid = uid
      BY <1>2, <3>2, <3>3
    <3>5. s # "reply" => OnThread(id, uid) /\ Reachable(Teams!ThreadId(id))
      <4> SUFFICES ASSUME s # "reply" PROVE OnThread(id, uid) /\ Reachable(Teams!ThreadId(id))
        OBVIOUS
      <4>1. uid = Teams!Get(key) /\ uid # Teams!NoUid
        BY <3>1, <3>2
      <4>2. chat[Home][id].by # "bot"
        BY <2>2 DEF Teams!isSelfMessage
      <4>. QED
        BY <1>4, <1>8, <4>1, <4>2, GetKnows
    <3>6. s # "reply" => OnThread(id, uid)'
      BY <1>1, <3>5, OnThreadStays
    <3>7. s # "reply" => NotDone(id)'
      <4> SUFFICES ASSUME s # "reply", NEW i \in DOMAIN acts', acts'[i].id = id PROVE id \in forgot'
        BY DEF NotDone
      <4>1. Remembered(id)
        BY <1>1 DEF ThreadInv, ActsInv
      <4>2. id \in forgot
        BY <1>3, <3>5, <4>1 DEF Remembered
      <4>. QED
        BY <1>7, <4>2
    <3>8. Listed(Tail(page))' /\ id \in DOMAIN chat'[Home]
      BY <1>1, <1>4 DEF Listed
    <3>9. polling'.step = s /\ polling'.page = Tail(page) /\ polling'.id = id /\ polling'.uid = uid
      BY <3>3, <3>4
    <3>10. PICK p : p = Tail(page)
      OBVIOUS
    <3>11. Listed(p)' /\ polling'.page = p
      BY <3>8, <3>9, <3>10
    <3>12. Listed(polling.page)'
      BY <3>11
    <3>13. OnThread(polling.id, polling.uid)' \/ s = "reply"
      BY <3>6, <3>9
    <3>14. NotDone(polling.id)' \/ s = "reply"
      BY <3>7, <3>9
    <3>. QED
      BY <1>7, <3>2, <3>8, <3>9, <3>12, <3>13, <3>14 DEF PageInv, HandInv
  <2>. QED
    BY <1>9, <2>1, <2>2
<1>. QED
  BY <1>11, <1>13, <1>14, <1>15 DEF ThreadInv

(* Every step of the Teams bridge keeps the threads and the roots.         *)
LEMMA ThreadKept == TeamsInv /\ ThreadInv /\ Teams!TeamsNext => ThreadInv'
BY ThreadBegins, ThreadPosts, ThreadFailing, ThreadCached, ThreadAnswered, ThreadRestarts, ThreadPolls,
   ThreadTakes, ThreadActs, ThreadReplies, ThreadSays DEF Teams!TeamsNext, Teams!PollStep

(* What the invariant says of acts and roots.                              *)
LEMMA ThreadFollows == ThreadInv => ActsOnItsThread /\ RootsAreRoots
<1> SUFFICES ASSUME ThreadInv PROVE ActsOnItsThread /\ RootsAreRoots
  OBVIOUS
<1>1. \A i \in DOMAIN acts : OnThread(acts[i].id, acts[i].uid)
  BY DEF ThreadInv, ActsInv
<1>2. ActsOnItsThread
  BY <1>1 DEF ThreadInv, ActsInv, OnThread, ActsOnItsThread, Teams!ActsOnItsThread
<1>3. RootsAreRoots
  BY DEF ThreadInv, StampsInv, Roots, RootsAreRoots, Teams!RootsAreRoots
<1>. QED
  BY <1>2, <1>3

-----------------------------------------------------------------------------
(* The programs side by side: each moves alone.                            *)

SourcesInv == KubeInv /\ FeedInv /\ GrantInv /\ CollInv /\ JiraInv /\ ThreadInv

(* A program that does not move keeps what it has.                         *)
LEMMA SourcesIdle ==
  /\ KubeInv /\ UNCHANGED kube => KubeInv'
  /\ FeedInv /\ UNCHANGED feeds => FeedInv'
  /\ GrantInv /\ UNCHANGED graph => GrantInv'
  /\ CollInv /\ UNCHANGED coll => CollInv'
  /\ JiraInv /\ UNCHANGED jira => JiraInv'
  /\ ThreadInv /\ UNCHANGED teams => ThreadInv'
<1>1. KubeInv /\ UNCHANGED kube => KubeInv'
  BY DEF kube, KubeInv
<1>2. FeedInv /\ UNCHANGED feeds => FeedInv'
  <2> SUFFICES ASSUME FeedInv, UNCHANGED feeds PROVE FeedInv'
    OBVIOUS
  <2>1. UNCHANGED <<link, wireq, sub, chanq, chanOpen, busClosed, panicked, commits, heard, unheard, skips>>
    BY DEF feeds
  <2>2. Feed!Listening' = Feed!Listening
    BY <2>1 DEF Feed!Listening
  <2>. QED
    BY <2>1, <2>2 DEF FeedInv
<1>3. GrantInv /\ UNCHANGED graph => GrantInv'
  BY DEF graph, GrantInv, OneRefresh, SavesSound, GrantsGood
<1>4. CollInv /\ UNCHANGED coll => CollInv'
  <2> SUFFICES ASSUME CollInv, UNCHANGED coll PROVE CollInv'
    OBVIOUS
  <2>1. UNCHANGED <<socket, hand, queue, wasPosted, what, end, intake, cancelled>>
    BY DEF coll
  <2>2. UNCHANGED <<Coll!Unread, Coll!InHand, Posts, Queued>>
    BY <2>1 DEF Coll!Unread, Coll!InHand, Coll!Msgs, Posts, Queued
  <2>. QED
    BY <2>1, <2>2 DEF CollInv, PlacesSound, CutsSound, Coll!Msgs, Coll!Overlong, SocketsSound, HandsSound,
                      PostsSound, InTurn
<1>5. JiraInv /\ UNCHANGED jira => JiraInv'
  BY DEF jira, JiraInv, TicketsSound, PollerInv, JiraRequests
<1>6. ThreadInv /\ UNCHANGED teams => ThreadInv'
  <2> SUFFICES ASSUME ThreadInv, UNCHANGED teams PROVE ThreadInv'
    OBVIOUS
  <2>1. UNCHANGED <<chat, threads, polling, acts, seen, forgot, stamped, alertReq>> /\ ChatGrows
    BY DEF teams, ChatGrows
  <2>2. ActsInv'
    BY <2>1, ActsStay DEF ThreadInv, Reachable, Teams!Has, Teams!threadKey
  <2>. QED
    BY <2>1, <2>2, ThreadsStay, StampsStay, RootedInvStays, PollStays DEF ThreadInv
<1>. QED
  BY <1>1, <1>2, <1>3, <1>4, <1>5, <1>6

(* Every start is one of these, and every step leads to another.           *)
LEMMA SourcesStart == Init => SourcesInv
BY KubeStart, FeedStart, GrantStart, CollStart, JiraStart, ThreadStart DEF Init, SourcesInv

(* The Graph client and the Teams bridge build on what was shown above.    *)
LEMMA SourcesKept == BridgesInv /\ SourcesInv /\ [Next]_vars => SourcesInv'
<1> SUFFICES ASSUME BridgesInv, SourcesInv, [Next]_vars PROVE SourcesInv'
  OBVIOUS
<1>0. KubeInv /\ FeedInv /\ GrantInv /\ CollInv /\ JiraInv /\ ThreadInv /\ GraphInv /\ TeamsInv
  BY DEF SourcesInv, BridgesInv
<1>1. UNCHANGED <<kube, feeds, graph, coll, jira, teams>> => SourcesInv'
  BY <1>0, SourcesIdle DEF SourcesInv
<1>2. CASE InKube(Kube!KubeNext)
  <2>1. Kube!KubeNext /\ UNCHANGED <<feeds, graph, coll, jira, teams>>
    BY <1>2 DEF InKube, others
  <2>. QED
    BY <1>0, <2>1, KubeKept, SourcesIdle DEF SourcesInv
<1>3. CASE InFeed(Feed!FeedNext)
  <2>1. Feed!FeedNext /\ UNCHANGED <<kube, graph, coll, jira, teams>>
    BY <1>3 DEF InFeed, Still
  <2>. QED
    BY <1>0, <2>1, FeedKept, SourcesIdle DEF SourcesInv
<1>4. CASE InGraph(Graph!GraphNext)
  <2>1. Graph!GraphNext /\ UNCHANGED <<kube, feeds, coll, jira, teams>>
    BY <1>4 DEF InGraph, Still
  <2>. QED
    BY <1>0, <2>1, GrantStays, SourcesIdle DEF SourcesInv
<1>5. CASE InColl(Coll!CollectNext)
  <2>1. Coll!CollectNext /\ UNCHANGED <<kube, feeds, graph, jira, teams>>
    BY <1>5 DEF InColl, Still
  <2>. QED
    BY <1>0, <2>1, CollKept, SourcesIdle DEF SourcesInv
<1>6. CASE InJira(Jira!JiraNext)
  <2>1. Jira!JiraNext /\ UNCHANGED <<kube, feeds, graph, coll, teams>>
    BY <1>6 DEF InJira, others
  <2>. QED
    BY <1>0, <2>1, JiraKept, SourcesIdle DEF SourcesInv
<1>7. CASE InTeams(Teams!TeamsNext)
  <2>1. Teams!TeamsNext /\ UNCHANGED <<kube, feeds, graph, coll, jira>>
    BY <1>7 DEF InTeams, Still
  <2>. QED
    BY <1>0, <2>1, ThreadKept, SourcesIdle DEF SourcesInv
<1>8. CASE InRelp(RelpD!RelpNext)
  BY <1>1, <1>8 DEF InRelp, others
<1>9. CASE InSmtp(Smtp!SmtpNext)
  BY <1>1, <1>9 DEF InSmtp, Still
<1>10. CASE InCli(Cli!ClientNext)
  BY <1>1, <1>10 DEF InCli, Still
<1>11. CASE InFrames(\E f \in MCFrames : AddFrame(f))
  BY <1>1, <1>11 DEF InFrames, others
<1>12. CASE UNCHANGED vars
  BY <1>1, <1>12 DEF vars, others
<1>. QED
  BY <1>2, <1>3, <1>4, <1>5, <1>6, <1>7, <1>8, <1>9, <1>10, <1>11, <1>12 DEF Next

(* Nothing a daemon follows is lost, doubled or made up, for any batches,  *)
(* peers, event keys, tenants, records, channels and bounds. A record is   *)
(* closed only if a ticket of its own was resolved, or was not in the list *)
(* of open tickets: the search was cut off, or the ticket was deleted,     *)
(* moved or left the query (cycle); an envelope asks for no more tickets   *)
(* than the attempts allow, and an answered batch has tried every envelope *)
(* up to the limit (Client.do, handleEnvelopes); a syslog line or trap is  *)
(* in one place until it ends, lost only in a shutdown or at or behind a   *)
(* line too long for its connection, posted once and in the order of its   *)
(* source; every cluster event up to the tracked version has its fate, and *)
(* one is left out as a recurrence only within the window of one let       *)
(* through (consume, suppressed); a commit is on its way, heard, or        *)
(* unheard for one of the reasons the code gives, and what is heard is of  *)
(* a tenant whose slug the subscription covers (dispatch, deliverLocal);   *)
(* what is done for a chat message is done to a record its thread shows,   *)
(* and once, unless the message was evicted (Handle, markSeen), and the    *)
(* roots kept for records are roots (handleAlert); the token file is whole *)
(* and its grant good unless two refreshes overlapped, or the grant was    *)
(* withdrawn, rotated in an answer that was lost, or not saved (Save,      *)
(* fetchDelegatedToken).                                                   *)
THEOREM SourcesAreFollowed == Spec => []SourcesFollowed
<1>1. SourcesInv => SourcesFollowed
  BY JiraFollows, CollFollows, KubeFollows, FeedFollows, ThreadFollows, GrantFollows
     DEF SourcesInv, SourcesFollowed
<1>. QED
  BY <1>1, BridgesStart, BridgesKept, SourcesStart, SourcesKept, PTL DEF Spec
=============================================================================

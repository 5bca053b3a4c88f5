------------------------ MODULE TokenRefresh_proofs -------------------------
(***************************************************************************)
(* TokenInv is an inductive invariant of TokenRefresh: one refresh at a    *)
(* time, with the refresh token of the current access token, which the     *)
(* server has not seen unless it has just accepted it or an answer was     *)
(* lost; and a token that the server drops is one that may be refreshed.   *)
(***************************************************************************)
EXTENDS TokenRefresh, TLAPS

States == {"backoff", "out", "accepted", "settled"}
Places == {"idle", "prepare", "waitPrepare", "send", "http", "rejected",
           "waitUnknown", "done", "failed", "loggedOut"}

TokenTypeOK ==
    /\ pc \in [Requests -> Places]
    /\ snapshot \in [Requests -> Nat] /\ sentToken \in [Requests -> Nat]
    /\ queryToken \in [Requests -> Nat \cup {NoToken}]
    /\ waitsFor \in [Requests -> Nat]
    /\ token \in Nat /\ issued \in Nat /\ token <= issued
    /\ canRefresh \in BOOLEAN /\ revoked \in BOOLEAN /\ answerLost \in BOOLEAN
    /\ refreshes \in Seq([state : States, refreshToken : Nat])
    /\ promise \in 0 .. Len(refreshes)
    /\ life \in [0 .. MaxTokens -> {"fresh", "soon", "due"}]
    /\ failures \in Nat /\ errors \in Nat /\ gone \subseteq Nat

\* A token that the client believes to have plenty of time left.
Early(t) == ExpiryKnown(t) /\ Left(t) = "fresh"

\* Only the refresh of tokenRefreshPromise is under way, for the current token.
OneRefresh ==
    /\ promise # 0 => ~Settled(promise)
    /\ \A i \in 1 .. Len(refreshes) : ~Settled(i) =>
          /\ i = promise
          /\ refreshes[i].refreshToken = token /\ canRefresh
          /\ ~Early(token)

\* The current refresh token was not used, except by the refresh under way.
TokenUnused ==
    /\ \A t \in consumed : t \in Nat /\ t < issued
    /\ token \in consumed => answerLost \/ (promise # 0 /\ refreshes[promise].state = "accepted")

\* Why a request waits, failed or ended the session.
RequestsFit ==
    /\ \A r \in Requests : waitsFor[r] # 0 <=> pc[r] \in {"waitPrepare", "waitUnknown"}
    /\ \A r \in Requests : pc[r] = "failed" => failures > 0

\* Without a revocation the server drops no token early.
NoneDroppedEarly == ~revoked => \A t \in gone : ~Early(t)

\* Why a request may log the user out: the server ended the session, a refresh got
\* an error or its answer was lost, or the current token is the last one.
Excused(r) == revoked \/ errors > 0 \/ answerLost \/ (~canRefresh /\ snapshot[r] = token)

\* A request is rejected for the token of its snapshot, if it is sent with it.
Rejected ==
    \A r \in Requests :
        /\ UseAuthorizationHeader /\ pc[r] \in {"http", "rejected"} => sentToken[r] = snapshot[r]
        /\ pc[r] = "rejected" => revoked \/ sentToken[r] \in gone
        /\ UseAuthorizationHeader /\ pc[r] = "loggedOut" => Excused(r)

TokenInv ==
    TokenTypeOK /\ OneRefresh /\ TokenUnused /\ RequestsFit /\ NoneDroppedEarly /\ Rejected

-----------------------------------------------------------------------------
(* What requests do.                                                       *)

\* A refresh is begun or joined for a token that is not early.
LEMMA BeginKeeps ==
    ASSUME TokenInv, NEW r \in Requests, NEW wait \in {"waitPrepare", "waitUnknown"},
           BeginRefresh(r, wait), promise = 0 => ~Early(token),
           UNCHANGED <<snapshot, queryToken, sentToken, token, canRefresh, serverVars, history>>
    PROVE  TokenInv'
<1>1. \A t : Early(t)' <=> Early(t)
  BY DEF Early, ExpiryKnown, Left, serverVars
<1>2. TokenTypeOK /\ OneRefresh /\ TokenUnused /\ RequestsFit /\ NoneDroppedEarly /\ Rejected
  BY DEF TokenInv
<1>3. /\ pc' = [pc EXCEPT ![r] = wait] /\ waitsFor' = [waitsFor EXCEPT ![r] = promise']
      /\ UNCHANGED <<issued, consumed, gone, life, revoked, failures, errors, answerLost>>
  BY DEF BeginRefresh, serverVars, history
<1>6. UNCHANGED <<token, canRefresh>> /\ canRefresh /\ \A q \in Requests : Excused(q)' <=> Excused(q)
  BY <1>3 DEF BeginRefresh, Excused
<1>4. CASE promise # 0
  <2>1. UNCHANGED <<promise, refreshes>>
    BY <1>4 DEF BeginRefresh
  <2>2. promise \in Nat
    BY <1>2 DEF TokenTypeOK
  <2>3. TokenTypeOK'
    BY <1>2, <1>3, <2>1, <2>2 DEF TokenTypeOK, Places
  <2>4. OneRefresh' /\ TokenUnused' /\ NoneDroppedEarly'
    BY <1>1, <1>2, <1>3, <1>6, <2>1 DEF OneRefresh, Settled, TokenUnused, NoneDroppedEarly
  <2>5. RequestsFit' /\ Rejected'
    BY <1>2, <1>3, <1>4, <1>6, <2>1 DEF TokenTypeOK, RequestsFit, Rejected
  <2> QED
    BY <2>3, <2>4, <2>5 DEF TokenInv
<1>5. CASE promise = 0
  <2> DEFINE n == Len(refreshes) + 1
  <2>1. PICK state \in {"backoff", "out"} :
           refreshes' = Append(refreshes, [state |-> state, refreshToken |-> token])
    BY <1>5 DEF BeginRefresh
  <2>2. promise' = n
    BY <1>5 DEF BeginRefresh
  <2>3. /\ refreshes' \in Seq([state : States, refreshToken : Nat]) /\ Len(refreshes') = n
        /\ n \in Nat /\ n # 0
        /\ refreshes'[n] = [state |-> state, refreshToken |-> token]
        /\ \A i \in 1 .. Len(refreshes) : refreshes'[i] = refreshes[i]
    BY <1>2, <2>1 DEF TokenTypeOK, States
  <2>4. \A i \in 1 .. Len(refreshes) : Settled(i)
    BY <1>2, <1>5 DEF OneRefresh
  <2>5. TokenTypeOK'
    <3>1. promise' \in 0 .. Len(refreshes') /\ promise' \in Nat
      BY <2>2, <2>3
    <3>2. pc' \in [Requests -> Places] /\ waitsFor' \in [Requests -> Nat]
      BY <1>2, <1>3, <3>1 DEF TokenTypeOK, Places
    <3> QED
      BY <1>2, <1>3, <2>3, <3>1, <3>2 DEF TokenTypeOK
  <2>6. \A i \in 1 .. Len(refreshes') : i = n \/ Settled(i)'
    <3>1. Len(refreshes) \in Nat
      BY <1>2 DEF TokenTypeOK
    <3>2. \A i \in 1 .. Len(refreshes') : i = n \/ i \in 1 .. Len(refreshes)
      BY <2>3, <3>1
    <3>3. \A i \in 1 .. Len(refreshes) : Settled(i)'
      BY <2>3, <2>4 DEF Settled
    <3> QED
      BY <3>2, <3>3
  <2>7. OneRefresh'
    BY <1>1, <1>5, <1>6, <2>2, <2>3, <2>6 DEF OneRefresh, Settled
  <2>8. TokenUnused' /\ NoneDroppedEarly'
    BY <1>1, <1>2, <1>3, <1>5 DEF TokenUnused, NoneDroppedEarly
  <2>9. RequestsFit' /\ Rejected'
    BY <1>2, <1>3, <1>6, <2>2, <2>3 DEF TokenTypeOK, RequestsFit, Rejected
  <2> QED
    BY <2>5, <2>7, <2>8, <2>9 DEF TokenInv
<1> QED
  BY <1>4, <1>5

\* A request goes on by itself.
LEMMA RequestMoves ==
    ASSUME TokenInv, NEW r \in Requests, NEW to \in {"prepare", "http", "rejected", "done", "loggedOut"},
           pc' = [pc EXCEPT ![r] = to], pc[r] \notin {"waitPrepare", "waitUnknown"},
           snapshot' \in [Requests -> Nat], sentToken' \in [Requests -> Nat],
           queryToken' \in [Requests -> Nat \cup {NoToken}],
           \A q \in Requests \ {r} : snapshot'[q] = snapshot[q] /\ sentToken'[q] = sentToken[q],
           UseAuthorizationHeader /\ to \in {"http", "rejected"} => sentToken'[r] = snapshot'[r],
           to = "rejected" => sentToken'[r] \in gone,
           UseAuthorizationHeader /\ to = "loggedOut" => Excused(r)',
           pc[r] # "loggedOut",
           UNCHANGED <<waitsFor, clientVars, serverVars, history>>
    PROVE  TokenInv'
<1>1. \A t : Early(t)' <=> Early(t)
  BY DEF Early, ExpiryKnown, Left, serverVars
<1>2. TokenTypeOK /\ OneRefresh /\ TokenUnused /\ RequestsFit /\ NoneDroppedEarly /\ Rejected
  BY DEF TokenInv
<1>3. UNCHANGED <<waitsFor, token, canRefresh, promise, refreshes, issued, consumed, gone, life,
                  revoked, failures, errors, answerLost>>
  BY DEF clientVars, serverVars, history
<1>4. TokenTypeOK'
  BY <1>2, <1>3 DEF TokenTypeOK, Places
<1>5. OneRefresh' /\ TokenUnused' /\ NoneDroppedEarly'
  BY <1>1, <1>2, <1>3 DEF OneRefresh, Settled, TokenUnused, NoneDroppedEarly
<1>6. RequestsFit'
  BY <1>2, <1>3 DEF TokenTypeOK, RequestsFit
<1>7. Rejected'
  <2>1. \A q \in Requests \ {r} : Excused(q)' <=> Excused(q)
    BY <1>3 DEF Excused
  <2> QED
    BY <1>2, <1>3, <2>1 DEF TokenTypeOK, Rejected
<1> QED
  BY <1>4, <1>5, <1>6, <1>7 DEF TokenInv

-----------------------------------------------------------------------------
(* What refreshes do.                                                      *)

\* An element of a sequence over S is in S.
LEMMA ElementOf ==
    ASSUME NEW S, NEW s \in Seq(S), NEW i \in 1 .. Len(s) PROVE s[i] \in S
  OBVIOUS

\* One element of a sequence is replaced.
LEMMA Replaced ==
    ASSUME NEW S, NEW s \in Seq(S), NEW i \in 1 .. Len(s), NEW x \in S,
           NEW t, t = [s EXCEPT ![i] = x]
    PROVE  /\ t \in Seq(S) /\ Len(t) = Len(s) /\ Len(s) \in Nat /\ t[i] = x
           /\ \A j \in 1 .. Len(s) : j # i => t[j] = s[j]
  OBVIOUS

\* Where the requests that wait for a refresh go when it ends.
LEMMA Continues ==
    ASSUME NEW outcome \in {"success", "failure", "logout"}
    PROVE  /\ Continue(outcome)["waitPrepare"] = "send"
           /\ Continue(outcome)["waitUnknown"] =
                 CASE outcome = "success" -> "prepare"
                   [] outcome = "failure" -> "failed"
                   [] outcome = "logout"  -> "loggedOut"
BY DEF Continue

\* A refresh under way ends, and with it tokenRefreshPromise.
LEMMA ResolveKeeps ==
    ASSUME TokenInv, NEW i \in 1 .. Len(refreshes), ~Settled(i),
           NEW outcome \in {"success", "failure", "logout"}, Resolve(i, outcome),
           token' \in Nat, token' <= issued,
           token' \in consumed => answerLost',
           failures' \in Nat, failures <= failures', errors' \in Nat, errors <= errors',
           answerLost' \in BOOLEAN, answerLost => answerLost',
           outcome = "failure" => failures' > 0,
           UseAuthorizationHeader /\ outcome = "logout" => revoked \/ errors' > 0 \/ answerLost',
           canRefresh' \in BOOLEAN, UNCHANGED serverVars
    PROVE  TokenInv'
<1>1. \A t : Early(t)' <=> Early(t)
  BY DEF Early, ExpiryKnown, Left, serverVars
<1>2. TokenTypeOK /\ OneRefresh /\ TokenUnused /\ RequestsFit /\ NoneDroppedEarly /\ Rejected
  BY DEF TokenInv
<1>3. /\ refreshes' = [refreshes EXCEPT ![i].state = "settled"] /\ promise' = 0
      /\ waitsFor' = [r \in Requests |-> IF waitsFor[r] = i THEN 0 ELSE waitsFor[r]]
      /\ UNCHANGED <<snapshot, queryToken, sentToken, issued, consumed, gone, life, revoked>>
  BY DEF Resolve, serverVars
<1>4. ASSUME NEW r \in Requests
      PROVE  /\ pc'[r] \in Places
             /\ waitsFor[r] # i => pc'[r] = pc[r]
             /\ waitsFor[r] = i =>
                   \/ pc'[r] \in {"send", "prepare"}
                   \/ pc'[r] = "failed" /\ outcome = "failure"
                   \/ pc'[r] = "loggedOut" /\ outcome = "logout"
  <2>1. pc'[r] = IF waitsFor[r] = i THEN Continue(outcome)[pc[r]] ELSE pc[r]
    BY DEF Resolve
  <2>2. CASE waitsFor[r] = i
    <3>1. pc[r] \in {"waitPrepare", "waitUnknown"}
      BY <1>2, <2>2 DEF RequestsFit
    <3> QED
      BY <2>1, <2>2, <3>1, Continues DEF Places
  <2>3. CASE waitsFor[r] # i
    BY <1>2, <2>1, <2>3 DEF TokenTypeOK
  <2> QED
    BY <2>2, <2>3
<1>5. pc' \in [Requests -> Places]
  <2>1. pc' = [r \in Requests |-> pc'[r]]
    BY DEF Resolve
  <2> QED
    BY <1>4, <2>1
<1>6. /\ refreshes' \in Seq([state : States, refreshToken : Nat])
      /\ Len(refreshes') = Len(refreshes) /\ Len(refreshes) \in Nat
      /\ refreshes'[i].state = "settled"
      /\ \A j \in 1 .. Len(refreshes) : j # i => refreshes'[j] = refreshes[j]
  <2> DEFINE Refresh == [state : States, refreshToken : Nat]
             settled == [refreshes[i] EXCEPT !.state = "settled"]
  <2>1. refreshes \in Seq(Refresh)
    BY <1>2 DEF TokenTypeOK
  <2>2. refreshes[i] \in Refresh
    BY <2>1, ElementOf
  <2>3. settled \in Refresh /\ settled.state = "settled"
    BY <2>2 DEF States
  <2>4. refreshes' = [refreshes EXCEPT ![i] = settled]
    BY <1>3
  <2> HIDE DEF settled, Refresh
  <2>5. /\ refreshes' \in Seq(Refresh) /\ Len(refreshes') = Len(refreshes) /\ Len(refreshes) \in Nat
        /\ refreshes'[i] = settled
        /\ \A j \in 1 .. Len(refreshes) : j # i => refreshes'[j] = refreshes[j]
    BY <2>1, <2>3, <2>4, Replaced
  <2> QED
    BY <2>3, <2>5 DEF Refresh
<1>7. TokenTypeOK'
  <2>1. waitsFor' \in [Requests -> Nat]
    BY <1>2, <1>3 DEF TokenTypeOK
  <2>2. promise' \in 0 .. Len(refreshes')
    BY <1>3, <1>6
  <2>3. canRefresh' \in BOOLEAN /\ revoked' \in BOOLEAN /\ answerLost' \in BOOLEAN
    BY <1>2, <1>3 DEF TokenTypeOK
  <2>4. token' <= issued' /\ issued' \in Nat
    BY <1>2, <1>3 DEF TokenTypeOK
  <2> QED
    BY <1>2, <1>3, <1>5, <1>6, <2>1, <2>2, <2>3, <2>4 DEF TokenTypeOK
<1>8. OneRefresh'
  <2>1. \A j \in 1 .. Len(refreshes') : Settled(j)'
    BY <1>2, <1>6 DEF OneRefresh, Settled
  <2> QED
    BY <1>3, <2>1 DEF OneRefresh
<1>9. TokenUnused' /\ NoneDroppedEarly'
  BY <1>1, <1>2, <1>3 DEF TokenUnused, NoneDroppedEarly
<1>10. RequestsFit'
  <2>1. ASSUME NEW r \in Requests
        PROVE  waitsFor'[r] # 0 <=> pc'[r] \in {"waitPrepare", "waitUnknown"}
    <3>1. i # 0 /\ waitsFor'[r] = IF waitsFor[r] = i THEN 0 ELSE waitsFor[r]
      BY <1>3
    <3> QED
      BY <1>2, <1>4, <3>1 DEF RequestsFit
  <2>2. ASSUME NEW r \in Requests, pc'[r] = "failed" PROVE failures' > 0
    <3>1. CASE waitsFor[r] = i
      BY <1>4, <2>2, <3>1
    <3>2. CASE waitsFor[r] # i
      <4>1. failures > 0
        BY <1>2, <1>4, <2>2, <3>2 DEF RequestsFit
      <4> QED
        BY <1>2, <4>1 DEF TokenTypeOK
    <3> QED
      BY <3>1, <3>2
  <2> QED
    BY <2>1, <2>2 DEF RequestsFit
<1>11. Rejected'
  <2>1. canRefresh
    BY <1>2 DEF OneRefresh
  <2>2. ASSUME NEW r \in Requests, UseAuthorizationHeader, pc'[r] = "loggedOut" PROVE Excused(r)'
    <3>1. CASE waitsFor[r] = i
      BY <1>3, <1>4, <2>2, <3>1 DEF Excused
    <3>2. CASE waitsFor[r] # i
      <4>1. Excused(r)
        BY <1>2, <1>4, <2>2, <3>2 DEF Rejected
      <4>2. errors \in Nat
        BY <1>2 DEF TokenTypeOK
      <4> QED
        BY <1>3, <2>1, <4>1, <4>2 DEF Excused
    <3> QED
      BY <3>1, <3>2
  <2>3. ASSUME NEW r \in Requests, pc'[r] \in {"http", "rejected"} PROVE pc[r] = pc'[r]
    BY <1>4, <2>3
  <2> QED
    BY <1>2, <1>3, <2>2, <2>3 DEF Rejected
<1> QED
  BY <1>7, <1>8, <1>9, <1>10, <1>11 DEF TokenInv

\* The state of a refresh under way changes.
LEMMA StateKeeps ==
    ASSUME TokenInv, NEW i \in 1 .. Len(refreshes), ~Settled(i),
           NEW state \in {"out", "accepted"},
           refreshes' = [refreshes EXCEPT ![i] = [state |-> state, refreshToken |-> token]],
           UNCHANGED <<requestVars, token, canRefresh, promise, life, revoked, failures,
                       errors, answerLost>>,
           issued' \in Nat, issued <= issued',
           \A t \in consumed' : t \in Nat /\ t < issued',
           token \in consumed' => answerLost \/ state = "accepted",
           gone \subseteq gone', gone' \subseteq gone \cup {token}
    PROVE  TokenInv'
<1>1. \A t : Early(t)' <=> Early(t)
  BY DEF Early, ExpiryKnown, Left
<1>2. TokenTypeOK /\ OneRefresh /\ TokenUnused /\ RequestsFit /\ NoneDroppedEarly /\ Rejected
  BY DEF TokenInv
<1>3. i = promise /\ i # 0 /\ ~Early(token)
  BY <1>2 DEF OneRefresh
<1>4. /\ refreshes' \in Seq([state : States, refreshToken : Nat])
      /\ Len(refreshes') = Len(refreshes) /\ Len(refreshes) \in Nat
      /\ refreshes'[i] = [state |-> state, refreshToken |-> token]
      /\ \A j \in 1 .. Len(refreshes) : j # i => refreshes'[j] = refreshes[j]
  <2>1. [state |-> state, refreshToken |-> token] \in [state : States, refreshToken : Nat]
    BY <1>2 DEF TokenTypeOK, States
  <2>2. refreshes \in Seq([state : States, refreshToken : Nat])
    BY <1>2 DEF TokenTypeOK
  <2> QED
    BY <2>1, <2>2, Replaced
<1>5. TokenTypeOK'
  <2>1. token' <= issued'
    BY <1>2 DEF TokenTypeOK
  <2> QED
    BY <1>2, <1>4, <2>1 DEF TokenTypeOK, requestVars
<1>6. OneRefresh'
  BY <1>1, <1>2, <1>3, <1>4 DEF OneRefresh, Settled
<1>7. TokenUnused'
  BY <1>2, <1>3, <1>4 DEF TokenUnused
<1>8. NoneDroppedEarly'
  BY <1>1, <1>2, <1>3 DEF NoneDroppedEarly
<1>9. RequestsFit' /\ Rejected'
  <2>1. \A r \in Requests : Excused(r)' <=> Excused(r)
    BY DEF Excused, requestVars
  <2> QED
    BY <1>2, <2>1 DEF RequestsFit, Rejected, requestVars
<1> QED
  BY <1>5, <1>6, <1>7, <1>8, <1>9 DEF TokenInv

\* Every step of a request keeps the invariant.
LEMMA RequestStepKeeps ==
    ASSUME TokenInv, NEW r \in Requests, Start(r) \/ RequestStep(r) PROVE TokenInv'
<1>1. TokenTypeOK /\ RequestsFit /\ Rejected /\ OneRefresh
  BY DEF TokenInv
<1>2. CASE Start(r)
  BY <1>1, <1>2, RequestMoves DEF Start, TokenTypeOK
<1>3. CASE pc[r] \in {"prepare", "send"} /\ SendRequest(r) /\ UNCHANGED <<token, canRefresh,
                                                                          serverVars, history>>
  <2>1. /\ pc' = [pc EXCEPT ![r] = "http"]
        /\ snapshot' = [snapshot EXCEPT ![r] = token]
        /\ UNCHANGED <<waitsFor, clientVars, serverVars, history>>
    BY <1>3 DEF SendRequest, clientVars
  <2>2. /\ sentToken' \in [Requests -> Nat] /\ queryToken' \in [Requests -> Nat \cup {NoToken}]
        /\ \A q \in Requests \ {r} : sentToken'[q] = sentToken[q]
    <3>1. CASE UseAuthorizationHeader
      BY <1>1, <1>3, <3>1 DEF SendRequest, TokenTypeOK
    <3>2. CASE ~UseAuthorizationHeader
      <4> DEFINE t == IF queryToken[r] = NoToken THEN token ELSE queryToken[r]
      <4>1. t \in Nat
        BY <1>1 DEF TokenTypeOK
      <4>2. queryToken' = [queryToken EXCEPT ![r] = t] /\ sentToken' = [sentToken EXCEPT ![r] = queryToken'[r]]
        BY <1>3, <3>2 DEF SendRequest
      <4> HIDE DEF t
      <4>3. queryToken'[r] = t /\ queryToken' \in [Requests -> Nat \cup {NoToken}]
        BY <1>1, <4>1, <4>2 DEF TokenTypeOK
      <4> QED
        BY <1>1, <4>1, <4>2, <4>3 DEF TokenTypeOK
    <3> QED
      BY <3>1, <3>2
  <2>3. UseAuthorizationHeader => sentToken'[r] = token
    BY <1>1, <1>3 DEF SendRequest, TokenTypeOK
  <2> QED
    BY <1>1, <1>3, <2>1, <2>2, <2>3, RequestMoves DEF TokenTypeOK
<1>4. CASE ServerAnswers(r)
  BY <1>1, <1>4, RequestMoves DEF ServerAnswers, TokenTypeOK, Rejected
<1>5. CASE Prepare(r)
  <2>1. CASE SendRequest(r)
    BY <1>3, <1>5, <2>1 DEF Prepare
  <2>2. CASE ~SendRequest(r)
    <3>1. /\ BeginRefresh(r, "waitPrepare")
          /\ promise # 0 \/ (ExpiryKnown(token) /\ Left(token) = "due")
          /\ UNCHANGED <<snapshot, queryToken, sentToken, token, canRefresh, serverVars, history>>
      BY <1>5, <2>2 DEF Prepare
    <3>2. promise = 0 => ~Early(token)
      BY <3>1 DEF Early
    <3> QED
      BY <3>1, <3>2, BeginKeeps
  <2> QED
    BY <2>1, <2>2
<1>6. CASE SendPrepared(r)
  BY <1>3, <1>6 DEF SendPrepared
<1>7. CASE HandleUnknownToken(r)
  <2>1. /\ pc[r] = "rejected"
        /\ UNCHANGED <<snapshot, queryToken, sentToken, token, canRefresh, serverVars, history>>
    BY <1>7 DEF HandleUnknownToken
  <2>2. CASE BeginRefresh(r, "waitUnknown") /\ ~Early(snapshot[r]) /\ snapshot[r] = token
    BY <2>1, <2>2, BeginKeeps
  <2>3. CASE /\ Early(snapshot[r]) \/ (snapshot[r] = token /\ promise = 0 /\ ~canRefresh)
             /\ pc' = [pc EXCEPT ![r] = "loggedOut"] /\ UNCHANGED <<waitsFor, promise, refreshes>>
    <3>1. UseAuthorizationHeader => Excused(r)
      BY <1>1, <2>1, <2>3 DEF Rejected, TokenInv, NoneDroppedEarly, Excused
    <3>2. UNCHANGED <<waitsFor, clientVars, serverVars, history>>
      BY <2>1, <2>3 DEF clientVars
    <3>3. UseAuthorizationHeader => Excused(r)'
      BY <2>1, <3>1, <3>2 DEF Excused, clientVars, serverVars, history
    <3> QED
      BY <1>1, <2>1, <2>3, <3>2, <3>3, RequestMoves DEF TokenTypeOK
  <2>4. CASE pc' = [pc EXCEPT ![r] = "prepare"] /\ UNCHANGED <<waitsFor, promise, refreshes>>
    <3>1. UNCHANGED <<waitsFor, clientVars, serverVars, history>>
      BY <2>1, <2>4 DEF clientVars
    <3> QED
      BY <1>1, <2>1, <2>4, <3>1, RequestMoves DEF TokenTypeOK
  <2> QED
    BY <1>7, <2>2, <2>3, <2>4 DEF HandleUnknownToken, Early
<1> QED
  BY <1>2, <1>4, <1>5, <1>6, <1>7 DEF RequestStep

\* Every step of a refresh keeps the invariant.
LEMMA RefreshStepKeeps ==
    ASSUME TokenInv, NEW i \in 1 .. Len(refreshes),
           RefreshStep(i) \/ RefreshFails(i) \/ RefreshErrs(i)
    PROVE  TokenInv'
<1>1. TokenTypeOK /\ OneRefresh /\ TokenUnused
  BY DEF TokenInv
<1>2. ~Settled(i)
  BY DEF RefreshStep, BackoffEnds, ServerRefreshes, RefreshSucceeds, RefreshRefused, RefreshFails,
         RefreshErrs, Lost, Settled
<1>3. i = promise /\ i # 0 /\ refreshes[i].refreshToken = token
  BY <1>1, <1>2 DEF OneRefresh
<1>4. CASE BackoffEnds(i)
  <2>1. /\ refreshes' = [refreshes EXCEPT ![i] = [state |-> "out", refreshToken |-> token]]
        /\ UNCHANGED <<requestVars, token, canRefresh, promise, issued, consumed, gone, life,
                       revoked, failures, errors, answerLost>>
        /\ refreshes[i].state = "backoff"
    BY <1>4 DEF BackoffEnds, serverVars, history
  <2>2. issued' \in Nat /\ issued <= issued'
    BY <1>1, <2>1 DEF TokenTypeOK
  <2>3. /\ \A t \in consumed' : t \in Nat /\ t < issued'
        /\ token \in consumed' => answerLost
    BY <1>1, <1>3, <2>1 DEF TokenUnused
  <2>4. gone \subseteq gone' /\ gone' \subseteq gone \cup {token}
    BY <2>1
  <2> QED
    BY <1>2, <2>1, <2>2, <2>3, <2>4, StateKeeps
<1>5. CASE ServerRefreshes(i)
  <2>1. /\ refreshes' = [refreshes EXCEPT ![i].state = "accepted"]
        /\ consumed' = consumed \cup {token} /\ issued' = issued + 1
        /\ \E old \in SUBSET {token} : gone' = gone \cup old
        /\ UNCHANGED <<requestVars, token, canRefresh, promise, life, revoked, failures,
                       errors, answerLost>>
    BY <1>3, <1>5 DEF ServerRefreshes, history
  <2>2. refreshes[i] \in [state : States, refreshToken : Nat]
    BY <1>1, ElementOf DEF TokenTypeOK
  <2>3. [refreshes[i] EXCEPT !.state = "accepted"] = [state |-> "accepted", refreshToken |-> token]
    BY <1>3, <2>2
  <2>4. refreshes' = [refreshes EXCEPT ![i] = [state |-> "accepted", refreshToken |-> token]]
    BY <2>1, <2>3
  <2>5. issued' \in Nat /\ issued <= issued' /\ \A t \in consumed' : t \in Nat /\ t < issued'
    BY <1>1, <2>1 DEF TokenTypeOK, TokenUnused
  <2> QED
    BY <1>2, <2>1, <2>4, <2>5, StateKeeps
<1>6. CASE RefreshSucceeds(i)
  <2>1. /\ token' = issued /\ Resolve(i, "success")
        /\ UNCHANGED <<serverVars, failures, errors, answerLost>>
    BY <1>6 DEF RefreshSucceeds, history
  <2>2. issued \in Nat /\ issued \notin consumed /\ issued <= issued
    BY <1>1 DEF TokenTypeOK, TokenUnused
  <2>3. /\ failures \in Nat /\ failures <= failures /\ errors \in Nat /\ errors <= errors
        /\ answerLost \in BOOLEAN
    BY <1>1 DEF TokenTypeOK
  <2>4. canRefresh' \in BOOLEAN
    BY <1>1, <1>6 DEF RefreshSucceeds, TokenTypeOK
  <2> QED
    BY <1>2, <2>1, <2>2, <2>3, <2>4, ResolveKeeps
<1>7. CASE RefreshRefused(i)
  <2>1. /\ refreshes[i].state = "out" /\ Resolve(i, "logout")
        /\ revoked \/ token \in consumed
        /\ UNCHANGED <<token, canRefresh, serverVars, failures, errors, answerLost>>
    BY <1>3, <1>7 DEF RefreshRefused, history
  <2>2. token \in consumed => answerLost
    BY <1>1, <1>3, <2>1 DEF TokenUnused
  <2>3. /\ failures \in Nat /\ failures <= failures /\ errors \in Nat /\ errors <= errors
        /\ answerLost \in BOOLEAN /\ canRefresh \in BOOLEAN /\ token \in Nat /\ token <= issued
    BY <1>1 DEF TokenTypeOK
  <2>4. /\ token' \in Nat /\ token' <= issued /\ (token' \in consumed => answerLost')
        /\ failures' \in Nat /\ failures <= failures' /\ errors' \in Nat /\ errors <= errors'
        /\ answerLost' \in BOOLEAN /\ canRefresh' \in BOOLEAN /\ (answerLost => answerLost')
    BY <2>1, <2>2, <2>3
  <2>5. revoked \/ answerLost'
    BY <2>1, <2>2
  <2> QED
    BY <1>2, <2>1, <2>4, <2>5, ResolveKeeps
<1>8. CASE RefreshFails(i) \/ RefreshErrs(i)
  <2>1. /\ answerLost' = (answerLost \/ refreshes[i].state = "accepted")
        /\ UNCHANGED <<token, canRefresh, serverVars>>
    BY <1>8 DEF RefreshFails, RefreshErrs, Lost
  <2>2. /\ failures \in Nat /\ errors \in Nat /\ failures <= failures /\ errors <= errors
        /\ canRefresh' \in BOOLEAN
    BY <1>1, <2>1 DEF TokenTypeOK
  <2>3. answerLost' \in BOOLEAN /\ (answerLost => answerLost')
    BY <2>1
  <2>4. token \in consumed => answerLost'
    BY <1>1, <1>3, <2>1 DEF TokenUnused
  <2>5. token' \in Nat /\ token' <= issued /\ (token' \in consumed => answerLost')
    BY <1>1, <2>1, <2>4 DEF TokenTypeOK
  <2>6. CASE failures' = failures + 1 /\ UNCHANGED errors /\ Resolve(i, "failure")
    <3>1. failures' \in Nat /\ failures <= failures' /\ failures' > 0 /\ errors' = errors
      BY <2>2, <2>6
    <3> QED
      BY <1>2, <2>1, <2>2, <2>3, <2>5, <2>6, <3>1, ResolveKeeps
  <2>7. CASE errors' = errors + 1 /\ UNCHANGED failures /\ Resolve(i, "logout")
    <3>1. errors' \in Nat /\ errors <= errors' /\ errors' > 0 /\ failures' = failures
      BY <2>2, <2>7
    <3> QED
      BY <1>2, <2>1, <2>2, <2>3, <2>5, <2>7, <3>1, ResolveKeeps
  <2> QED
    BY <1>8, <2>6, <2>7 DEF RefreshFails, RefreshErrs
<1> QED
  BY <1>4, <1>5, <1>6, <1>7, <1>8 DEF RefreshStep

-----------------------------------------------------------------------------
(* What time and the server do.                                            *)

\* Tokens age and are dropped, but none of those with plenty of time left.
LEMMA AgeKeeps ==
    ASSUME TokenInv, NEW t \in 0 .. MaxTokens, Age(t)
    PROVE  TokenInv'
<1>1. TokenTypeOK /\ OneRefresh /\ TokenUnused /\ RequestsFit /\ NoneDroppedEarly /\ Rejected
  BY DEF TokenInv
<1>2. UNCHANGED <<pc, snapshot, queryToken, sentToken, waitsFor, token, canRefresh, promise,
                  refreshes, issued, consumed, revoked, failures, errors, answerLost>>
  BY DEF Age, requestVars, clientVars, history
<1>3. /\ life' \in [0 .. MaxTokens -> {"fresh", "soon", "due"}]
      /\ \A u \in 0 .. MaxTokens : life'[u] = "fresh" => life[u] = "fresh"
      /\ gone \subseteq gone' /\ gone' \subseteq gone \cup {t}
      /\ t \in gone' => t \in gone \/ life[t] # "fresh"
  BY <1>1 DEF Age, TokenTypeOK
<1>4. \A u \in Nat : Early(u)' => Early(u)
  <2>1. \A u \in Nat : u <= MaxTokens => u \in 0 .. MaxTokens
    BY TokenAssumption
  <2> QED
    BY <1>3, <2>1 DEF Early, ExpiryKnown, Left
<1>5. TokenTypeOK'
  BY <1>1, <1>2, <1>3, TokenAssumption DEF TokenTypeOK
<1>6. OneRefresh'
  BY <1>1, <1>2, <1>4 DEF OneRefresh, Settled, TokenTypeOK
<1>7. TokenUnused' /\ RequestsFit'
  BY <1>1, <1>2 DEF TokenUnused, RequestsFit
<1>8. NoneDroppedEarly'
  <2>1. ASSUME ~revoked, NEW u \in gone' PROVE ~Early(u)'
    <3>1. u \in Nat /\ (Early(u)' => Early(u))
      BY <1>4, <1>5, <2>1 DEF TokenTypeOK
    <3>2. CASE u = t
      <4>1. t <= MaxTokens
        BY TokenAssumption
      <4>2. t \in gone \/ life[t] # "fresh"
        BY <1>3, <2>1, <3>2
      <4>3. ~Early(t)
        BY <1>1, <2>1, <4>1, <4>2 DEF NoneDroppedEarly, Early, Left
      <4> QED
        BY <3>1, <3>2, <4>3
    <3>3. CASE u # t
      BY <1>1, <1>3, <2>1, <3>1, <3>3 DEF NoneDroppedEarly
    <3> QED
      BY <3>2, <3>3
  <2> QED
    BY <1>2, <2>1 DEF NoneDroppedEarly
<1>9. Rejected'
  <2>1. \A r \in Requests : Excused(r)' <=> Excused(r)
    BY <1>2 DEF Excused
  <2> QED
    BY <1>1, <1>2, <1>3, <2>1 DEF Rejected
<1> QED
  BY <1>5, <1>6, <1>7, <1>8, <1>9 DEF TokenInv

\* The end of the session explains every rejection.
LEMMA RevokeKeeps ==
    ASSUME TokenInv, Revoke
    PROVE  TokenInv'
<1>1. TokenTypeOK /\ OneRefresh /\ TokenUnused /\ RequestsFit
  BY DEF TokenInv
<1>2. /\ revoked' = TRUE
      /\ UNCHANGED <<pc, snapshot, queryToken, sentToken, waitsFor, token, canRefresh, promise,
                     refreshes, issued, consumed, life, failures, errors, answerLost>>
  BY DEF Revoke, requestVars, clientVars, history
<1>3. \A t : Early(t)' <=> Early(t)
  BY <1>2 DEF Early, ExpiryKnown, Left
<1>4. TokenTypeOK'
  <2>1. gone' \subseteq Nat
    BY DEF Revoke
  <2>2. revoked' \in BOOLEAN /\ canRefresh' \in BOOLEAN /\ answerLost' \in BOOLEAN
    BY <1>1, <1>2 DEF TokenTypeOK
  <2> QED
    BY <1>1, <1>2, <2>1, <2>2 DEF TokenTypeOK
<1>5. OneRefresh' /\ TokenUnused' /\ RequestsFit'
  BY <1>1, <1>2, <1>3 DEF OneRefresh, Settled, TokenUnused, RequestsFit
<1>6. NoneDroppedEarly'
  BY <1>2 DEF NoneDroppedEarly
<1>7. Rejected'
  <2>1. ASSUME NEW r \in Requests, UseAuthorizationHeader /\ pc'[r] \in {"http", "rejected"}
        PROVE  sentToken'[r] = snapshot'[r]
    BY <1>2, <2>1 DEF TokenInv, Rejected
  <2> QED
    BY <1>2, <2>1 DEF Rejected, Excused
<1> QED
  BY <1>4, <1>5, <1>6, <1>7 DEF TokenInv

-----------------------------------------------------------------------------
(* The invariant and the theorems.                                         *)

\* The invariant holds before anything happened.
LEMMA TokenInit == Init => TokenInv
<1> SUFFICES ASSUME Init PROVE TokenInv
  OBVIOUS
<1>1. refreshes = <<>> /\ Len(refreshes) = 0 /\ refreshes \in Seq([state : States, refreshToken : Nat])
  BY DEF Init
<1>2. TokenTypeOK
  <2>1. canRefresh \in BOOLEAN /\ revoked \in BOOLEAN /\ answerLost \in BOOLEAN
    BY DEF Init
  <2>2. /\ pc \in [Requests -> Places] /\ snapshot \in [Requests -> Nat]
        /\ sentToken \in [Requests -> Nat] /\ waitsFor \in [Requests -> Nat]
        /\ queryToken \in [Requests -> Nat \cup {NoToken}]
    BY DEF Init, Places
  <2>3. life \in [0 .. MaxTokens -> {"fresh", "soon", "due"}]
    BY DEF Init
  <2>4. /\ token \in Nat /\ issued \in Nat /\ token <= issued
        /\ failures \in Nat /\ errors \in Nat /\ gone \subseteq Nat /\ promise \in 0 .. Len(refreshes)
    BY <1>1 DEF Init
  <2> QED
    BY <1>1, <2>1, <2>2, <2>3, <2>4 DEF TokenTypeOK
<1>3. OneRefresh /\ TokenUnused /\ RequestsFit /\ NoneDroppedEarly /\ Rejected
  BY <1>1 DEF Init, OneRefresh, TokenUnused, RequestsFit, NoneDroppedEarly, Rejected
<1> QED
  BY <1>2, <1>3 DEF TokenInv

\* Every step keeps the invariant.
LEMMA TokenStep == TokenInv /\ [Next]_vars => TokenInv'
<1> SUFFICES ASSUME TokenInv, [Next]_vars PROVE TokenInv'
  OBVIOUS
<1>1. CASE \E r \in Requests : Start(r) \/ RequestStep(r)
  BY <1>1, RequestStepKeeps
<1>2. CASE \E i \in 1 .. Len(refreshes) : RefreshStep(i) \/ RefreshFails(i) \/ RefreshErrs(i)
  BY <1>2, RefreshStepKeeps
<1>3. CASE \E t \in 0 .. MaxTokens : Age(t)
  BY <1>3, AgeKeeps
<1>4. CASE Revoke
  BY <1>4, RevokeKeeps
<1>5. CASE UNCHANGED vars
  BY <1>5 DEF vars, TokenInv, TokenTypeOK, OneRefresh, TokenUnused, RequestsFit, NoneDroppedEarly,
              Rejected, Excused, Early, ExpiryKnown, Left, Settled
<1> QED
  BY <1>1, <1>2, <1>3, <1>4, <1>5 DEF Next

\* For every number of requests, tokens and failures: one refresh is under way
\* at a time, for the current token.
THEOREM TokenInvariant == Spec => []TokenInv
<1> QED
  BY TokenInit, TokenStep, PTL DEF Spec

\* TokenRefresher presents a refresh token again only after the answer to its
\* first use was lost.
THEOREM UsedOnce == Spec => []RefreshTokenUsedOnce
<1>1. TokenInv => RefreshTokenUsedOnce
  <2> SUFFICES ASSUME TokenInv, NEW i \in 1 .. Len(refreshes),
                      refreshes[i].state \in {"backoff", "out"}, refreshes[i].refreshToken \in consumed
               PROVE  answerLost
    BY DEF RefreshTokenUsedOnce
  <2>1. i = promise /\ refreshes[i].refreshToken = token
    BY DEF TokenInv, OneRefresh, Settled
  <2> QED
    BY <2>1 DEF TokenInv, TokenUnused
<1> QED
  BY <1>1, TokenInvariant, PTL

\* With the token in the Authorization header, a request of doAuthedRequest
\* fails or logs the user out only for a reason that the caller must know.
THEOREM FailuresAreReal == UseAuthorizationHeader => (Spec => []OnlyRealFailures)
<1> SUFFICES ASSUME UseAuthorizationHeader PROVE Spec => []OnlyRealFailures
  OBVIOUS
<1>1. TokenInv => OnlyRealFailures
  BY DEF TokenInv, RequestsFit, Rejected, Excused, OnlyRealFailures
<1> QED
  BY <1>1, TokenInvariant, PTL

-----------------------------------------------------------------------------
(* Types: no token is mentioned before the server issued it.               *)

\* What bounds the tokens, the refreshes waited for and the failures.
TokenBounds ==
    /\ attempt \in [Requests -> Nat]
    /\ \A r \in Requests :
          /\ snapshot[r] <= issued /\ sentToken[r] <= issued /\ queryToken[r] <= issued
          /\ waitsFor[r] <= Len(refreshes)
    /\ \A i \in 1 .. Len(refreshes) : refreshes[i].refreshToken <= issued
    /\ \A t \in gone : t <= issued
    /\ failures + errors <= MaxFailures

\* The bounds and the invariant are the types.
LEMMA TypesFromBounds == TokenInv /\ TokenBounds => TypeOK
<1> SUFFICES ASSUME TokenInv, TokenBounds PROVE TypeOK
  OBVIOUS
<1>1. TokenTypeOK
  BY DEF TokenInv
<1>2. /\ snapshot \in [Requests -> 0..issued] /\ sentToken \in [Requests -> 0..issued]
      /\ queryToken \in [Requests -> NoToken..issued]
      /\ waitsFor \in [Requests -> 0..Len(refreshes)]
  BY <1>1 DEF TokenTypeOK, TokenBounds, NoToken
<1>3. refreshes \in Seq([state : {"backoff", "out", "accepted", "settled"}, refreshToken : 0..issued])
  <2> DEFINE Refresh == [state : {"backoff", "out", "accepted", "settled"}, refreshToken : 0..issued]
  <2>1. ASSUME NEW i \in 1 .. Len(refreshes) PROVE refreshes[i] \in Refresh
    <3>1. refreshes[i] \in [state : States, refreshToken : Nat]
      BY <1>1, ElementOf DEF TokenTypeOK
    <3> QED
      BY <1>1, <3>1 DEF TokenBounds, TokenTypeOK, States
  <2>2. refreshes \in Seq([state : States, refreshToken : Nat])
    BY <1>1 DEF TokenTypeOK
  <2> HIDE DEF Refresh
  <2>3. refreshes \in Seq(Refresh)
    BY <2>1, <2>2
  <2> QED
    BY <2>3 DEF Refresh
<1>4. consumed \subseteq 0..issued /\ gone \subseteq 0..issued
  BY <1>1 DEF TokenInv, TokenTypeOK, TokenUnused, TokenBounds
<1>5. failures \in 0..MaxFailures /\ errors \in 0..MaxFailures
  BY <1>1, TokenAssumption DEF TokenTypeOK, TokenBounds
<1> QED
  BY <1>1, <1>2, <1>3, <1>4, <1>5 DEF TypeOK, TokenTypeOK, TokenBounds, Places

\* A request mentions tokens that were issued and refreshes that were started.
LEMMA RequestStepBounds ==
    ASSUME TokenInv, TokenBounds, NEW r \in Requests, Start(r) \/ RequestStep(r)
    PROVE  TokenBounds'
<1>1. TokenTypeOK
  BY DEF TokenInv
<1>2. UNCHANGED <<token, issued, gone, failures, errors>>
  BY DEF Start, RequestStep, Prepare, SendPrepared, ServerAnswers, HandleUnknownToken,
         clientVars, serverVars, history
<1>3. CASE SendRequest(r) /\ UNCHANGED <<attempt, waitsFor, promise, refreshes>>
  <2>1. \A q \in Requests : snapshot'[q] <= issued
    BY <1>1, <1>3 DEF SendRequest, TokenTypeOK, TokenBounds
  <2>2. \A q \in Requests : sentToken'[q] <= issued /\ queryToken'[q] <= issued
    <3>1. \/ sentToken' = [sentToken EXCEPT ![r] = token] /\ UNCHANGED queryToken
          \/ /\ queryToken' = [queryToken EXCEPT ![r] = IF @ = NoToken THEN token ELSE @]
             /\ sentToken' = [sentToken EXCEPT ![r] = queryToken'[r]]
      BY <1>3 DEF SendRequest
    <3>2. /\ token <= issued /\ sentToken \in [Requests -> Nat]
          /\ queryToken \in [Requests -> Nat \cup {NoToken}]
          /\ \A q \in Requests : sentToken[q] <= issued /\ queryToken[q] <= issued
      BY <1>1 DEF TokenTypeOK, TokenBounds
    <3> QED
      BY <3>1, <3>2
  <2> QED
    BY <1>2, <1>3, <2>1, <2>2 DEF TokenBounds
<1>4. ASSUME NEW wait, BeginRefresh(r, wait), UNCHANGED <<attempt, snapshot, queryToken, sentToken>>
      PROVE  TokenBounds'
  <2>1. waitsFor' = [waitsFor EXCEPT ![r] = promise']
    BY <1>4 DEF BeginRefresh
  <2>2. CASE UNCHANGED <<promise, refreshes>>
    BY <1>1, <1>2, <1>4, <2>1, <2>2 DEF TokenBounds, TokenTypeOK
  <2>3. CASE promise' = Len(refreshes) + 1 /\ promise = 0
    <3>1. PICK state \in {"backoff", "out"} :
             refreshes' = Append(refreshes, [state |-> state, refreshToken |-> token])
      BY <1>4, <2>3 DEF BeginRefresh
    <3>2. /\ Len(refreshes') = Len(refreshes) + 1 /\ Len(refreshes) \in Nat
          /\ refreshes'[Len(refreshes) + 1] = [state |-> state, refreshToken |-> token]
          /\ \A i \in 1 .. Len(refreshes) : refreshes'[i] = refreshes[i]
      BY <1>1, <3>1 DEF TokenTypeOK
    <3>3. ASSUME NEW i \in 1 .. Len(refreshes') PROVE refreshes'[i].refreshToken <= issued
      <4>1. i = Len(refreshes) + 1 \/ i \in 1 .. Len(refreshes)
        BY <3>2
      <4>2. token <= issued
        BY <1>1 DEF TokenTypeOK
      <4> QED
        BY <3>2, <4>1, <4>2 DEF TokenBounds
    <3>4. \A q \in Requests : waitsFor'[q] <= Len(refreshes')
      <4>1. /\ waitsFor \in [Requests -> Nat] /\ Len(refreshes') = Len(refreshes) + 1
            /\ \A q \in Requests : waitsFor[q] <= Len(refreshes)
            /\ waitsFor' = [waitsFor EXCEPT ![r] = Len(refreshes')] /\ Len(refreshes) \in Nat
        BY <1>1, <2>1, <2>3, <3>2 DEF TokenTypeOK, TokenBounds
      <4> QED
        BY <4>1
    <3> QED
      BY <1>2, <1>4, <3>3, <3>4 DEF TokenBounds
  <2> QED
    BY <1>4, <2>2, <2>3 DEF BeginRefresh
<1>5. CASE /\ UNCHANGED <<snapshot, queryToken, sentToken, waitsFor, refreshes>>
           /\ attempt' \in [Requests -> Nat]
  BY <1>2, <1>5 DEF TokenBounds
<1>6. CASE Start(r)
  BY <1>5, <1>6 DEF Start, clientVars, TokenBounds
<1>7. CASE Prepare(r)
  BY <1>3, <1>4, <1>7 DEF Prepare, SendRequest
<1>8. CASE SendPrepared(r)
  BY <1>3, <1>8 DEF SendPrepared, SendRequest
<1>9. CASE ServerAnswers(r)
  BY <1>5, <1>9 DEF ServerAnswers, clientVars, TokenBounds
<1>10. CASE HandleUnknownToken(r)
  <2>1. UNCHANGED <<snapshot, queryToken, sentToken>>
    BY <1>10 DEF HandleUnknownToken
  <2>2. CASE BeginRefresh(r, "waitUnknown") /\ UNCHANGED attempt
    BY <1>4, <2>1, <2>2
  <2>3. CASE UNCHANGED <<attempt, waitsFor, refreshes>>
    BY <1>5, <2>1, <2>3 DEF TokenBounds
  <2>4. CASE attempt' = [attempt EXCEPT ![r] = @ + 1] /\ UNCHANGED <<waitsFor, refreshes>>
    BY <1>5, <2>1, <2>4 DEF TokenBounds
  <2> QED
    BY <1>10, <2>2, <2>3, <2>4 DEF HandleUnknownToken
<1> QED
  BY <1>6, <1>7, <1>8, <1>9, <1>10 DEF RequestStep

\* A refresh has the token of the client, and ends where it began.
LEMMA RefreshStepBounds ==
    ASSUME TokenInv, TokenBounds, NEW i \in 1 .. Len(refreshes),
           RefreshStep(i) \/ RefreshFails(i) \/ RefreshErrs(i)
    PROVE  TokenBounds'
<1>1. TokenTypeOK /\ refreshes[i] \in [state : States, refreshToken : Nat]
  BY ElementOf DEF TokenInv, TokenTypeOK
<1>2. UNCHANGED <<snapshot, queryToken, sentToken>>
  BY DEF RefreshStep, BackoffEnds, ServerRefreshes, RefreshSucceeds, RefreshRefused, RefreshFails,
         RefreshErrs, Resolve, requestVars
<1>3. /\ issued' \in Nat /\ issued <= issued' /\ \A t \in gone' : t <= issued'
      /\ failures' + errors' <= MaxFailures
  <2>1. CASE ServerRefreshes(i)
    BY <1>1, <2>1 DEF ServerRefreshes, TokenTypeOK, TokenBounds, history
  <2>2. CASE RefreshFails(i) \/ RefreshErrs(i)
    <3>1. /\ issued' = issued /\ gone' = gone /\ failures + errors < MaxFailures
          /\ \/ failures' = failures + 1 /\ errors' = errors
             \/ failures' = failures /\ errors' = errors + 1
      BY <2>2 DEF RefreshFails, RefreshErrs, Lost, serverVars
    <3>2. issued \in Nat /\ failures \in Nat /\ errors \in Nat /\ \A t \in gone : t <= issued
      BY <1>1 DEF TokenTypeOK, TokenBounds
    <3>3. failures' + errors' <= MaxFailures
      BY <3>1, <3>2, TokenAssumption
    <3> QED
      BY <3>1, <3>2, <3>3
  <2>3. CASE UNCHANGED <<issued, gone, failures, errors>>
    BY <1>1, <2>3 DEF TokenTypeOK, TokenBounds
  <2> QED
    BY <2>1, <2>2, <2>3
       DEF RefreshStep, BackoffEnds, RefreshSucceeds, RefreshRefused, serverVars, history
<1>4. \E x \in [state : States, refreshToken : Nat] :
          refreshes' = [refreshes EXCEPT ![i] = x] /\ x.refreshToken <= issued
  <2>1. CASE BackoffEnds(i)
    <3>1. refreshes' = [refreshes EXCEPT ![i] = [state |-> "out", refreshToken |-> token]]
      BY <2>1 DEF BackoffEnds
    <3>2. [state |-> "out", refreshToken |-> token] \in [state : States, refreshToken : Nat]
      BY <1>1 DEF TokenTypeOK, States
    <3> QED
      BY <1>1, <3>1, <3>2 DEF TokenTypeOK
  <2>2. ASSUME NEW s \in States, refreshes' = [refreshes EXCEPT ![i].state = s]
        PROVE  \E x \in [state : States, refreshToken : Nat] :
                  refreshes' = [refreshes EXCEPT ![i] = x] /\ x.refreshToken <= issued
    <3> DEFINE y == [refreshes[i] EXCEPT !.state = s]
    <3>1. y \in [state : States, refreshToken : Nat] /\ y.refreshToken = refreshes[i].refreshToken
      BY <1>1
    <3>2. y.refreshToken <= issued
      BY <3>1 DEF TokenBounds
    <3>3. refreshes' = [refreshes EXCEPT ![i] = y]
      BY <2>2
    <3> HIDE DEF y
    <3> QED
      BY <3>1, <3>2, <3>3
  <2>3. CASE ServerRefreshes(i)
    BY <2>2, <2>3 DEF ServerRefreshes, States
  <2>4. CASE RefreshSucceeds(i) \/ RefreshRefused(i) \/ RefreshFails(i) \/ RefreshErrs(i)
    BY <2>2, <2>4 DEF RefreshSucceeds, RefreshRefused, RefreshFails, RefreshErrs, Resolve, States
  <2> QED
    BY <2>1, <2>3, <2>4 DEF RefreshStep
<1>5. PICK x \in [state : States, refreshToken : Nat] :
          refreshes' = [refreshes EXCEPT ![i] = x] /\ x.refreshToken <= issued
  BY <1>4
<1>6. /\ Len(refreshes') = Len(refreshes) /\ Len(refreshes) \in Nat /\ refreshes'[i] = x
      /\ \A j \in 1 .. Len(refreshes) : j # i => refreshes'[j] = refreshes[j]
  BY <1>1, <1>5, Replaced DEF TokenTypeOK
<1>7. \A j \in 1 .. Len(refreshes') : refreshes'[j].refreshToken <= issued'
  <2>1. ASSUME NEW j \in 1 .. Len(refreshes) PROVE refreshes'[j].refreshToken <= issued'
    <3>1. refreshes[j] \in [state : States, refreshToken : Nat] /\ refreshes[j].refreshToken <= issued
      BY <1>1, ElementOf DEF TokenTypeOK, TokenBounds
    <3> QED
      BY <1>1, <1>3, <1>5, <1>6, <3>1 DEF TokenTypeOK
  <2> QED
    BY <1>6, <2>1
<1>8. attempt' \in [Requests -> Nat] /\ \A r \in Requests : waitsFor'[r] <= Len(refreshes')
  <2>1. CASE UNCHANGED <<attempt, waitsFor>>
    BY <1>6, <2>1 DEF TokenBounds
  <2>2. ASSUME NEW outcome, Resolve(i, outcome)
        PROVE  attempt' \in [Requests -> Nat] /\ \A r \in Requests : waitsFor'[r] <= Len(refreshes')
    <3>1. attempt' \in [Requests -> Nat]
      BY <2>2 DEF Resolve, TokenBounds
    <3>2. \A r \in Requests : waitsFor'[r] <= Len(refreshes')
      BY <1>6, <2>2 DEF Resolve, TokenBounds
    <3> QED
      BY <3>1, <3>2
  <2> QED
    BY <2>1, <2>2 DEF RefreshStep, BackoffEnds, ServerRefreshes, RefreshSucceeds, RefreshRefused,
                      RefreshFails, RefreshErrs, requestVars
<1>9. \A r \in Requests : snapshot'[r] <= issued' /\ sentToken'[r] <= issued' /\ queryToken'[r] <= issued'
  <2>1. ASSUME NEW n \in Nat \cup {NoToken}, n <= issued PROVE n <= issued'
    BY <1>1, <1>3, <2>1 DEF TokenTypeOK, NoToken
  <2>2. \A r \in Requests : /\ snapshot[r] \in Nat /\ sentToken[r] \in Nat
                            /\ queryToken[r] \in Nat \cup {NoToken}
    BY <1>1 DEF TokenTypeOK
  <2> QED
    BY <1>2, <2>1, <2>2 DEF TokenBounds
<1> QED
  BY <1>3, <1>7, <1>8, <1>9 DEF TokenBounds

\* Nothing is mentioned before it exists, whoever takes the step.
LEMMA BoundsStep == TokenInv /\ TokenBounds /\ [Next]_vars => TokenBounds'
<1> SUFFICES ASSUME TokenInv, TokenBounds, [Next]_vars PROVE TokenBounds'
  OBVIOUS
<1>1. CASE \E r \in Requests : Start(r) \/ RequestStep(r)
  BY <1>1, RequestStepBounds
<1>2. CASE \E i \in 1 .. Len(refreshes) : RefreshStep(i) \/ RefreshFails(i) \/ RefreshErrs(i)
  BY <1>2, RefreshStepBounds
<1>3. CASE (\E t \in 0 .. MaxTokens : Age(t)) \/ Revoke
  <2>1. UNCHANGED <<requestVars, clientVars, issued, failures, errors>>
    BY <1>3 DEF Age, Revoke, history
  <2>2. \A t \in gone' : t <= issued
    <3>1. CASE Revoke
      <4>1. gone' = 0 .. issued
        BY <3>1 DEF Revoke
      <4> QED
        BY <4>1
    <3>2. CASE \E t \in 0 .. MaxTokens : Age(t)
      <4>1. PICK t \in 0 .. MaxTokens : t <= issued /\ gone' \subseteq gone \cup {t}
        BY <3>2 DEF Age
      <4> QED
        BY <4>1 DEF TokenBounds
    <3> QED
      BY <1>3, <3>1, <3>2
  <2> QED
    BY <2>1, <2>2 DEF TokenBounds, requestVars, clientVars
<1>4. CASE UNCHANGED vars
  BY <1>4 DEF vars, TokenBounds
<1> QED
  BY <1>1, <1>2, <1>3, <1>4 DEF Next

\* TokenRefresher and its requests keep their types: a token is mentioned only
\* once the server issued it, a refresh only once it was started.
THEOREM TypeCorrect == Spec => []TypeOK
<1>1. Init => TokenBounds
  <2> SUFFICES ASSUME Init PROVE TokenBounds
    OBVIOUS
  <2>1. attempt \in [Requests -> Nat] /\ refreshes = <<>> /\ Len(refreshes) = 0
    BY DEF Init
  <2> QED
    BY <2>1, TokenAssumption DEF Init, TokenBounds, NoToken
<1>2. Spec => [](TokenInv /\ TokenBounds)
  BY <1>1, TokenInit, TokenStep, BoundsStep, PTL DEF Spec
<1> QED
  BY <1>2, TypesFromBounds, PTL
=============================================================================

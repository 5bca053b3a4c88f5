---------------------------- MODULE TokenRefresh ----------------------------
(***************************************************************************)
(* Authenticated requests and the refresh of the access token              *)
(* (js/http-api/fetch.ts doAuthedRequest, js/http-api/refresh.ts).         *)
(* Requests run concurrently; one that finds the token expired, or is told *)
(* so by the server, starts a refresh or waits for the one under way, and  *)
(* is then tried again with the new token.  A refresh token can be used    *)
(* once.                                                                   *)
(*                                                                         *)
(* Token n is the pair of access and refresh token of the n-th refresh;    *)
(* token 0 is what the client was created with, and no expiry is known     *)
(* for it.  An action is what runs between two awaits.                     *)
(***************************************************************************)
EXTENDS Integers, Sequences, FiniteSets

CONSTANTS
    Requests,
    UseAuthorizationHeader,   \* else the token is put into the query parameters
    ExpiryGiven,              \* the server says when a token expires
    MayRevoke,                \* the server may end the session
    MaxTokens,                \* tokens before this one expire
    MaxFailures               \* how many refreshes may get no answer or an error

ASSUME TokenAssumption ==
    /\ UseAuthorizationHeader \in BOOLEAN /\ ExpiryGiven \in BOOLEAN /\ MayRevoke \in BOOLEAN
    /\ MaxTokens \in Nat /\ MaxFailures \in Nat

VARIABLES
    pc,            \* where doAuthedRequest of the request is
    attempt,       \* its attempt
    snapshot,      \* the token of prepareForRequest
    queryToken,    \* queryParams.access_token, NoToken if unset
    sentToken,     \* the token the request was sent with
    waitsFor,      \* the refresh it waits for
    token,         \* opts.accessToken and opts.refreshToken
    canRefresh,    \* there is a refresh token and a tokenRefreshFunction
    promise,       \* tokenRefreshPromise: the refresh it stands for, 0 if none
    refreshes,     \* the calls of doTokenRefresh: their state and refresh token
    issued,        \* server: the last token issued
    consumed,      \* server: refresh tokens that were used
    gone,          \* server: access tokens no longer accepted
    life,          \* the time a token has left
    revoked,
    failures,      \* refreshes that got no answer
    errors,        \* refreshes that got an error, although their token was good
    answerLost     \* history: the answer to an accepted refresh was lost

vars == <<pc, attempt, snapshot, queryToken, sentToken, waitsFor, token, canRefresh,
          promise, refreshes, issued, consumed, gone, life, revoked, failures, errors,
          answerLost>>

requestVars == <<pc, attempt, snapshot, queryToken, sentToken, waitsFor>>
clientVars  == <<token, canRefresh, promise, refreshes>>
serverVars  == <<issued, consumed, gone, life, revoked>>
history     == <<failures, errors, answerLost>>

NoToken == -1

TypeOK ==
    /\ pc \in [Requests -> {"idle", "prepare", "waitPrepare", "send", "http", "rejected",
                            "waitUnknown", "done", "failed", "loggedOut"}]
    /\ attempt \in [Requests -> Nat]
    /\ snapshot \in [Requests -> 0..issued]
    /\ queryToken \in [Requests -> NoToken..issued]
    /\ sentToken \in [Requests -> 0..issued]
    /\ waitsFor \in [Requests -> 0..Len(refreshes)]
    /\ token \in 0..issued
    /\ canRefresh \in BOOLEAN
    /\ promise \in 0..Len(refreshes)
    /\ refreshes \in Seq([state : {"backoff", "out", "accepted", "settled"}, refreshToken : 0..issued])
    /\ issued \in Nat
    /\ consumed \subseteq 0..issued /\ gone \subseteq 0..issued
    /\ life \in [0..MaxTokens -> {"fresh", "soon", "due"}]
    /\ failures \in 0..MaxFailures /\ errors \in 0..MaxFailures
    /\ revoked \in BOOLEAN /\ answerLost \in BOOLEAN

Init ==
    /\ pc = [r \in Requests |-> "idle"]
    /\ attempt = [r \in Requests |-> 0]
    /\ snapshot = [r \in Requests |-> 0]
    /\ queryToken = [r \in Requests |-> NoToken]
    /\ sentToken = [r \in Requests |-> 0]
    /\ waitsFor = [r \in Requests |-> 0]
    /\ token = 0 /\ canRefresh \in BOOLEAN
    /\ promise = 0 /\ refreshes = <<>>
    /\ issued = 0 /\ consumed = {} /\ gone = {}
    /\ life = [t \in 0..MaxTokens |-> "fresh"]
    /\ revoked = FALSE /\ failures = 0 /\ errors = 0 /\ answerLost = FALSE

\* The time that token t has left, which the client knows if it got t, with
\* its expiry, from a refresh.
Left(t) == IF t <= MaxTokens THEN life[t] ELSE "fresh"
ExpiryKnown(t) == t > 0 /\ ExpiryGiven

Settled(i) == refreshes[i].state = "settled"

-----------------------------------------------------------------------------
(* TokenRefresher.                                                         *)

BeginRefresh_always(r, wait) ==
    /\ canRefresh
    /\ refreshes' = Append(refreshes, [state |-> "out", refreshToken |-> token])
    /\ promise' = Len(refreshes) + 1
    /\ pc' = [pc EXCEPT ![r] = wait]
    /\ waitsFor' = [waitsFor EXCEPT ![r] = Len(refreshes) + 1]

\* tokenRefreshPromise ??= doTokenRefresh(attempt), up to its first await, and
\* the request r waits for it as pc says.  After a first attempt the refresh is
\* put off.
BeginRefresh(r, wait) ==
    /\ canRefresh
    /\ \/ promise # 0 /\ UNCHANGED <<promise, refreshes>>
       \/ /\ promise = 0
          /\ promise' = Len(refreshes) + 1
          /\ refreshes' = Append(refreshes,
                 [state |-> IF wait = "waitUnknown" /\ attempt[r] > 1 THEN "backoff" ELSE "out",
                  refreshToken |-> token])
    /\ pc' = [pc EXCEPT ![r] = wait]
    /\ waitsFor' = [waitsFor EXCEPT ![r] = promise']

\* What a request does with the outcome of the refresh it waited for.
Continue(outcome) ==
    [waitPrepare |-> "send",
     waitUnknown |-> CASE outcome = "success" -> "prepare"
                       [] outcome = "failure" -> "failed"
                       [] outcome = "logout"  -> "loggedOut"]

Resolve_keepsPromise(i, outcome) ==
    /\ refreshes' = [refreshes EXCEPT ![i].state = "settled"]
    /\ UNCHANGED <<promise, attempt, snapshot, queryToken, sentToken>>
    /\ pc' = [r \in Requests |-> IF waitsFor[r] = i THEN Continue(outcome)[pc[r]] ELSE pc[r]]
    /\ waitsFor' = [r \in Requests |-> IF waitsFor[r] = i THEN 0 ELSE waitsFor[r]]

\* Refresh i ends: in consecutive microtasks the waiting requests clear
\* tokenRefreshPromise and go on.
Resolve(i, outcome) ==
    /\ refreshes' = [refreshes EXCEPT ![i].state = "settled"]
    /\ promise' = 0
    /\ pc' = [r \in Requests |-> IF waitsFor[r] = i THEN Continue(outcome)[pc[r]] ELSE pc[r]]
    /\ attempt' = [r \in Requests |->
           IF waitsFor[r] = i /\ pc'[r] = "prepare" THEN attempt[r] + 1 ELSE attempt[r]]
    /\ waitsFor' = [r \in Requests |-> IF waitsFor[r] = i THEN 0 ELSE waitsFor[r]]
    /\ UNCHANGED <<snapshot, queryToken, sentToken>>

\* The sleep before a repeated refresh ends.
BackoffEnds(i) ==
    /\ refreshes[i].state = "backoff"
    /\ refreshes' = [refreshes EXCEPT ![i] = [state |-> "out", refreshToken |-> token]]
    /\ UNCHANGED <<requestVars, token, canRefresh, promise, serverVars, history>>

\* The refresh succeeds; a new refresh token need not be among the tokens.
RefreshSucceeds(i) ==
    /\ refreshes[i].state = "accepted"
    /\ token' = issued
    /\ UNCHANGED canRefresh \/ canRefresh' = FALSE
    /\ Resolve(i, "success")
    /\ UNCHANGED <<serverVars, history>>

\* The server knows the refresh token no more.
RefreshRefused(i) ==
    /\ refreshes[i].state = "out"
    /\ revoked \/ refreshes[i].refreshToken \in consumed
    /\ Resolve(i, "logout")
    /\ UNCHANGED <<token, canRefresh, serverVars, history>>

\* The tokens do not reach the client, although the server may have issued them.
Lost(i) ==
    /\ refreshes[i].state \in {"out", "accepted"} /\ failures + errors < MaxFailures
    /\ answerLost' = (answerLost \/ refreshes[i].state = "accepted")
    /\ UNCHANGED <<token, canRefresh, serverVars>>

\* The refresh gets no answer.
RefreshFails(i) ==
    /\ Lost(i)
    /\ failures' = failures + 1 /\ UNCHANGED errors
    /\ Resolve(i, "failure")

\* The refresh of a good token gets an error answer, a rate limit or an error of
\* the server say: any MatrixError and any TokenRefreshLogoutError, which
\* OidcTokenRefresher makes of any ErrorResponse, logs out.
RefreshErrs(i) ==
    /\ Lost(i)
    /\ errors' = errors + 1 /\ UNCHANGED failures
    /\ Resolve(i, "logout")

-----------------------------------------------------------------------------
(* doAuthedRequest.                                                        *)

\* The snapshot is taken and the request is sent.  Query parameters are the
\* same object in every attempt.
SendRequest(r) ==
    /\ pc' = [pc EXCEPT ![r] = "http"]
    /\ snapshot' = [snapshot EXCEPT ![r] = token]
    /\ IF UseAuthorizationHeader
       THEN sentToken' = [sentToken EXCEPT ![r] = token] /\ UNCHANGED queryToken
       ELSE /\ queryToken' = [queryToken EXCEPT ![r] = IF @ = NoToken THEN token ELSE @]
            /\ sentToken' = [sentToken EXCEPT ![r] = queryToken'[r]]
    /\ UNCHANGED <<attempt, waitsFor, promise, refreshes>>

Start(r) ==
    /\ pc[r] = "idle"
    /\ pc' = [pc EXCEPT ![r] = "prepare"]
    /\ attempt' = [attempt EXCEPT ![r] = 1]
    /\ UNCHANGED <<snapshot, queryToken, sentToken, waitsFor, clientVars, serverVars, history>>

\* refreshIfNeeded: the request waits for a refresh under way, starts one if
\* the token is about to expire, or is sent.
Prepare(r) ==
    /\ pc[r] = "prepare"
    /\ LET due == ExpiryKnown(token) /\ Left(token) = "due" IN
       \/ /\ promise # 0 \/ (due /\ canRefresh)
          /\ BeginRefresh(r, "waitPrepare")
          /\ UNCHANGED <<attempt, snapshot, queryToken, sentToken>>
       \/ /\ promise = 0 /\ ~(due /\ canRefresh)
          /\ SendRequest(r)
    /\ UNCHANGED <<token, canRefresh, serverVars, history>>

\* The refresh before the request has ended, with whatever outcome.
SendPrepared(r) ==
    /\ pc[r] = "send"
    /\ SendRequest(r)
    /\ UNCHANGED <<token, canRefresh, serverVars, history>>

\* The server answers: with the response, or M_UNKNOWN_TOKEN.
ServerAnswers(r) ==
    /\ pc[r] = "http"
    /\ pc' = [pc EXCEPT ![r] = IF sentToken[r] \in gone THEN "rejected" ELSE "done"]
    /\ UNCHANGED <<attempt, snapshot, queryToken, sentToken, waitsFor, clientVars,
                   serverVars, history>>

HandleUnknownToken_noRetry(r) ==
    /\ pc[r] = "rejected"
    /\ \/ /\ snapshot[r] # token \/ ~canRefresh
          /\ pc' = [pc EXCEPT ![r] = "loggedOut"]
          /\ UNCHANGED <<attempt, waitsFor, promise, refreshes>>
       \/ /\ snapshot[r] = token
          /\ BeginRefresh(r, "waitUnknown")
          /\ UNCHANGED attempt
    /\ UNCHANGED <<snapshot, queryToken, sentToken, token, canRefresh, serverVars, history>>

\* handleUnknownToken: log out if the token should have had plenty of time
\* left or cannot be refreshed, refresh it if it is still the current one, and
\* else try again with the current one.
HandleUnknownToken(r) ==
    LET early == ExpiryKnown(snapshot[r]) /\ Left(snapshot[r]) = "fresh" IN
    /\ pc[r] = "rejected"
    /\ \/ /\ early \/ (snapshot[r] = token /\ promise = 0 /\ ~canRefresh)
          /\ pc' = [pc EXCEPT ![r] = "loggedOut"]
          /\ UNCHANGED <<attempt, waitsFor, promise, refreshes>>
       \/ /\ ~early /\ snapshot[r] = token
          /\ BeginRefresh(r, "waitUnknown")
          /\ UNCHANGED attempt
       \/ /\ ~early /\ snapshot[r] # token
          /\ pc' = [pc EXCEPT ![r] = "prepare"]
          /\ attempt' = [attempt EXCEPT ![r] = @ + 1]
          /\ UNCHANGED <<waitsFor, promise, refreshes>>
    /\ UNCHANGED <<snapshot, queryToken, sentToken, token, canRefresh, serverVars, history>>

-----------------------------------------------------------------------------
(* The server.                                                             *)

\* The server accepts a refresh, and may stop to accept the old access token.
ServerRefreshes(i) ==
    /\ refreshes[i].state = "out" /\ ~revoked
    /\ refreshes[i].refreshToken \notin consumed
    /\ refreshes' = [refreshes EXCEPT ![i].state = "accepted"]
    /\ consumed' = consumed \cup {refreshes[i].refreshToken}
    /\ issued' = issued + 1
    /\ \E old \in SUBSET {refreshes[i].refreshToken} : gone' = gone \cup old
    /\ UNCHANGED <<requestVars, token, canRefresh, promise, life, revoked, history>>

\* Time passes for token t; the server drops it when it is about to expire.
Age(t) ==
    /\ t < MaxTokens /\ t <= issued
    /\ \/ /\ life[t] # "due"
          /\ life' = [life EXCEPT ![t] = IF @ = "fresh" THEN "soon" ELSE "due"]
          /\ UNCHANGED gone
       \/ /\ life[t] # "fresh" /\ t \notin gone
          /\ gone' = gone \cup {t}
          /\ UNCHANGED life
    /\ UNCHANGED <<requestVars, clientVars, issued, consumed, revoked, history>>

\* The server ends the session.
Revoke ==
    /\ MayRevoke /\ ~revoked
    /\ revoked' = TRUE
    /\ gone' = 0..issued
    /\ UNCHANGED <<requestVars, clientVars, issued, consumed, life, history>>

RequestStep(r) ==
    Prepare(r) \/ SendPrepared(r) \/ ServerAnswers(r) \/ HandleUnknownToken(r)

RefreshStep(i) ==
    BackoffEnds(i) \/ ServerRefreshes(i) \/ RefreshSucceeds(i) \/ RefreshRefused(i)

Next ==
    \/ \E r \in Requests : Start(r) \/ RequestStep(r)
    \/ \E i \in 1..Len(refreshes) : RefreshStep(i) \/ RefreshFails(i) \/ RefreshErrs(i)
    \/ \E t \in 0..MaxTokens : Age(t)
    \/ Revoke

Spec == Init /\ [][Next]_vars

\* Requests and refreshes are answered; nothing obliges a token to expire.
Fairness ==
    /\ \A r \in Requests : WF_vars(RequestStep(r))
    /\ WF_vars(\E i \in 1..Len(refreshes) : RefreshStep(i))

FairSpec == Spec /\ Fairness

-----------------------------------------------------------------------------
(* Properties.                                                             *)

\* A refresh token is presented to the server again only if the answer to its
\* first use was lost: reuse would end the session.
RefreshTokenUsedOnce ==
    \A i \in 1..Len(refreshes) :
        refreshes[i].state \in {"backoff", "out"} /\ refreshes[i].refreshToken \in consumed
            => answerLost

\* Expiry is invisible to the caller: a request fails only if a refresh got no
\* answer, and logs the user out only if the server ended the session, answered a
\* refresh with an error or lost the answer, or rejected the current token when
\* there is none to refresh it with.  A token that another request replaced is
\* never a reason.
OnlyRealFailures ==
    \A r \in Requests :
        /\ pc[r] = "failed" => failures > 0
        /\ pc[r] = "loggedOut" => \/ revoked \/ errors > 0 \/ answerLost
                                  \/ ~canRefresh /\ snapshot[r] = token

\* Every request ends.
RequestEnds ==
    \A r \in Requests : pc[r] = "prepare" ~> pc[r] \in {"done", "failed", "loggedOut"}

-----------------------------------------------------------------------------
(* What the comments promise and the code does not guarantee (see the      *)
(* README).                                                                *)

\* TokenRefreshLogoutError: the refresh failed in a way indicative of token
\* invalidation.
LogoutMeansInvalid ==
    \A r \in Requests : pc[r] = "loggedOut" => revoked \/ ~canRefresh \/ answerLost
=============================================================================

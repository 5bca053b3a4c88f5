-------------------------- MODULE OutgoingRequests --------------------------
(***************************************************************************)
(* The loop that sends the requests of the crypto library                  *)
(* (js/rust-crypto/OutgoingRequestsManager.ts).  The OlmMachine keeps a    *)
(* queue of requests.  doProcessOutgoingRequests asks for an iteration of  *)
(* the loop that begins after the call, so that a request queued while an  *)
(* iteration reads the queue is not missed; calls made meanwhile share it. *)
(* A request that succeeds may queue others, so the loop goes round again; *)
(* one that fails stays queued for a later call.                           *)
(***************************************************************************)
EXTENDS Integers, FiniteSets

CONSTANTS
    Requests,
    Calls,           \* the calls of doProcessOutgoingRequests
    FollowUps        \* requests that are queued when the answer to another arrives

ASSUME FollowUpsAssumption == FollowUps \subseteq Requests

VARIABLES
    queue,           \* OlmMachine: requests not marked as sent
    known,           \* OlmMachine: requests that were queued some time
    phase,           \* where the loop is
    current,         \* the calls whose promise this iteration settles
    next,            \* nextLoopDeferred is there
    nextCalls,       \* the calls that hold its promise
    toDo,            \* what is left of outgoingRequests
    sending,         \* the request that is being made, as a set of at most one
    successes,       \* successes > 0
    stopped,
    broken,          \* history: the OlmMachine failed to give its queue
    outcome,         \* of the calls
    owed,            \* history: what was queued when a call was made and was not tried since
    tried            \* history: the requests that were made

loopVars == <<queue, known, phase, current, next, nextCalls, toDo, sending, successes, stopped,
          broken, outcome, owed, tried>>

iterationVars == <<phase, current, next, nextCalls, toDo, sending, successes>>

LoopTypeOK ==
    /\ queue \subseteq known /\ known \subseteq Requests
    /\ phase \in {"rest", "asking", "checked", "sending"}
    /\ current \subseteq Calls /\ nextCalls \subseteq Calls /\ next \in BOOLEAN
    /\ toDo \subseteq Requests /\ sending \subseteq Requests
    /\ sending \cap toDo = {}
    /\ sending # {} => phase = "sending"
    /\ successes \in BOOLEAN /\ stopped \in BOOLEAN /\ broken \in BOOLEAN
    /\ outcome \in [Calls -> {"none", "waiting", "resolved", "rejected"}]
    /\ owed \in [Calls -> SUBSET Requests] /\ tried \subseteq Requests

LoopInit ==
    /\ queue = {} /\ known = {}
    /\ phase = "rest" /\ current = {} /\ next = FALSE /\ nextCalls = {}
    /\ toDo = {} /\ sending = {} /\ successes = FALSE
    /\ stopped = FALSE /\ broken = FALSE
    /\ outcome = [c \in Calls |-> "none"]
    /\ owed = [c \in Calls |-> {}] /\ tried = {}

-----------------------------------------------------------------------------
(* outgoingRequestLoop.                                                    *)

LoopHead_leavesPromise(n, calls, out) ==
    /\ toDo' = {} /\ sending' = {} /\ successes' = FALSE
    /\ outcome' = out
    /\ IF ~stopped /\ n
       THEN /\ phase' = "asking"
            /\ current' = calls /\ next' = FALSE /\ nextCalls' = {}
       ELSE /\ phase' = "rest"
            /\ current' = {} /\ next' = n /\ nextCalls' = calls

\* The head of the loop, with nextLoopDeferred there if n, held by calls, and
\* the outcomes so far.  Once stopped, a promise that is left is rejected.
LoopHead(n, calls, out) ==
    /\ toDo' = {} /\ sending' = {} /\ successes' = FALSE
    /\ IF ~stopped /\ n
       THEN /\ phase' = "asking"
            /\ current' = calls /\ next' = FALSE /\ nextCalls' = {}
            /\ outcome' = out
       ELSE /\ phase' = "rest"
            /\ current' = {} /\ next' = n /\ nextCalls' = calls
            /\ outcome' = [c \in Calls |-> IF n /\ c \in calls THEN "rejected" ELSE out[c]]

Settle(calls, how) == [c \in Calls |-> IF c \in calls THEN how ELSE outcome[c]]

Call_joinsIteration(c) ==
    /\ outcome[c] = "none"
    /\ owed' = [owed EXCEPT ![c] = queue]
    /\ IF phase = "rest"
       THEN LoopHead(TRUE, {c}, [outcome EXCEPT ![c] = "waiting"])
       ELSE /\ current' = current \cup {c}
            /\ outcome' = [outcome EXCEPT ![c] = "waiting"]
            /\ UNCHANGED <<phase, next, nextCalls, toDo, sending, successes>>
    /\ UNCHANGED <<queue, known, stopped, broken, tried>>

\* doProcessOutgoingRequests.
Call(c) ==
    /\ outcome[c] = "none"
    /\ owed' = [owed EXCEPT ![c] = queue]
    /\ LET out == [outcome EXCEPT ![c] = "waiting"] IN
       IF phase = "rest"
       THEN LoopHead(TRUE, nextCalls \cup {c}, out)
       ELSE /\ next' = TRUE /\ nextCalls' = nextCalls \cup {c}
            /\ outcome' = out
            /\ UNCHANGED <<phase, current, toDo, sending, successes>>
    /\ UNCHANGED <<queue, known, stopped, broken, tried>>

\* The same, by a caller that does not wait for the promise (onSyncCompleted).
CallInBackground ==
    /\ IF phase = "rest"
       THEN LoopHead(TRUE, nextCalls, outcome)
       ELSE /\ next' = TRUE
            /\ UNCHANGED <<phase, current, nextCalls, toDo, sending, successes, outcome>>
    /\ UNCHANGED <<queue, known, stopped, broken, owed, tried>>

\* olmMachine.outgoingRequests() reads the queue, ...
Check ==
    /\ phase = "asking"
    /\ phase' = "checked"
    /\ toDo' = queue
    /\ UNCHANGED <<queue, known, current, next, nextCalls, sending, successes, stopped, broken,
                   outcome, owed, tried>>

\* ... and later its promise resolves, or it is rejected: the machine was closed
\* or its store failed (once is enough to see what a failure leads to).
Return ==
    /\ phase = "checked"
    /\ phase' = "sending"
    /\ UNCHANGED <<queue, known, current, next, nextCalls, toDo, sending, successes, stopped,
                   broken, outcome, owed, tried>>

MachineFails ==
    /\ phase \in {"asking", "checked"}
    /\ stopped \/ ~broken
    /\ broken' = (broken \/ ~stopped)
    /\ LoopHead(next, nextCalls, Settle(current, "rejected"))
    /\ UNCHANGED <<queue, known, stopped, owed, tried>>

\* makeOutgoingRequest is called for the next request.
Make(r) ==
    /\ phase = "sending" /\ sending = {} /\ ~stopped
    /\ r \in toDo
    /\ sending' = {r} /\ toDo' = toDo \ {r}
    /\ owed' = [c \in Calls |-> owed[c] \ {r}]
    /\ tried' = tried \cup {r}
    /\ UNCHANGED <<queue, known, phase, current, next, nextCalls, successes, stopped, broken,
                   outcome>>

\* The answer arrives; the OlmMachine marks the request as sent, and may queue others.
Succeeds(r) ==
    /\ sending = {r} /\ sending' = {}
    /\ successes' = TRUE
    /\ \E new \in SUBSET (FollowUps \ known) :
           /\ queue' = (queue \ {r}) \cup new
           /\ known' = known \cup new
    /\ owed' = [c \in Calls |-> owed[c] \ {r}]
    /\ UNCHANGED <<phase, current, next, nextCalls, toDo, stopped, broken, outcome, tried>>

\* The request fails, its retries used up.  It stays queued.
Fails(r) ==
    /\ sending = {r} /\ sending' = {}
    /\ UNCHANGED <<queue, known, phase, current, next, nextCalls, toDo, successes, stopped, broken,
                   outcome, owed, tried>>

IterationEnds_whileQueued ==
    /\ phase = "sending" /\ sending = {}
    /\ toDo = {} \/ stopped
    /\ LoopHead(next \/ queue # {}, nextCalls, Settle(current, "resolved"))
    /\ UNCHANGED <<queue, known, stopped, broken, owed, tried>>

IterationEnds_ifCalled ==
    /\ phase = "sending" /\ sending = {}
    /\ toDo = {} \/ stopped
    /\ LoopHead(next, nextCalls, Settle(current, "resolved"))
    /\ UNCHANGED <<queue, known, stopped, broken, owed, tried>>

IterationEnds_forgetsPromise ==
    /\ phase = "sending" /\ sending = {}
    /\ toDo = {} \/ stopped
    /\ IF stopped
       THEN /\ phase' = "rest" /\ outcome' = Settle(current, "resolved") /\ current' = {}
            /\ UNCHANGED <<next, nextCalls, toDo, sending, successes>>
       ELSE LoopHead(next \/ successes, nextCalls, Settle(current, "resolved"))
    /\ UNCHANGED <<queue, known, stopped, broken, owed, tried>>

\* processOutgoingRequests ends: all were tried, or the manager was stopped.
\* After a success it asks for another iteration.
IterationEnds ==
    /\ phase = "sending" /\ sending = {}
    /\ toDo = {} \/ stopped
    /\ LoopHead(next \/ (successes /\ toDo = {}), nextCalls, Settle(current, "resolved"))
    /\ UNCHANGED <<queue, known, stopped, broken, owed, tried>>

Stop ==
    /\ ~stopped /\ stopped' = TRUE
    /\ UNCHANGED <<queue, known, iterationVars, broken, outcome, owed, tried>>

\* Sync or the application gives the OlmMachine reason for requests.
Queue(rs) ==
    /\ rs # {} /\ rs \cap (known \cup FollowUps) = {}
    /\ queue' = queue \cup rs /\ known' = known \cup rs
    /\ UNCHANGED <<iterationVars, stopped, broken, outcome, owed, tried>>

LoopStep ==
    \/ Check \/ Return \/ IterationEnds
    \/ \E r \in Requests : Make(r) \/ Succeeds(r) \/ Fails(r)

LoopNext ==
    \/ LoopStep \/ MachineFails \/ Stop \/ CallInBackground
    \/ \E c \in Calls : Call(c)
    \/ \E rs \in SUBSET Requests : Queue(rs)

LoopSpec == LoopInit /\ [][LoopNext]_loopVars

\* The OlmMachine and the homeserver answer.
LoopFairSpec == LoopSpec /\ WF_loopVars(LoopStep)

-----------------------------------------------------------------------------
(* Properties.                                                             *)

\* What was queued when doProcessOutgoingRequests was called has been tried
\* when its promise resolves, unless the manager was stopped: a request that
\* is queued while the queue is being read is not left sitting there.
TriedWhenResolved ==
    \A c \in Calls : outcome[c] = "resolved" => owed[c] = {} \/ stopped

\* Nobody waits for the promise of an iteration that will not come.
NobodyIsForgotten ==
    \A c \in Calls : outcome[c] = "waiting" => c \in current \cup nextCalls /\ phase # "rest"

\* Why: what is owed to a call of this iteration is in the queue that is about
\* to be read, or in the list that was read; what is owed to a call of the next
\* one is queued.  A promise outlives the loop only when the manager is stopped.
LoopInv ==
    /\ TriedWhenResolved /\ NobodyIsForgotten
    /\ \A c \in Calls : owed[c] \subseteq queue
    /\ phase \in {"checked", "sending"} /\ ~stopped => \A c \in current : owed[c] \subseteq toDo
    /\ \A c \in Calls : outcome[c] = "none" => c \notin current \cup nextCalls
    /\ phase = "rest" => ~next \/ stopped
    /\ nextCalls # {} => next

\* A request that another one led to is made without a further call.
FollowUpsAreMade ==
    \A r \in FollowUps : r \in known ~> r \in tried \/ stopped \/ broken

\* The loop comes to rest: requests that fail are not tried in a tight loop.
LoopRests == []<>(phase = "rest")
=============================================================================

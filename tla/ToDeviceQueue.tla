--------------------------- MODULE ToDeviceQueue ---------------------------
(***************************************************************************)
(* The queue of outgoing to-device messages (js/ToDeviceMessageQueue.ts):  *)
(* encrypted room keys, call keys and verification messages.  Batches are  *)
(* saved in the store and one loop, sendQueue, sends the oldest batch,     *)
(* removes it and goes on.  The loop is kicked by a new batch, by start,   *)
(* by a resumed sync, by the user's retry and by its own retry timer; it   *)
(* goes on to wait for an answer while the client is stopped and started.  *)
(*                                                                         *)
(* An action is what runs between two awaits.  The store is IndexedDB: it  *)
(* survives a restart, all else is lost.                                   *)
(***************************************************************************)
EXTENDS Integers, SequencesExt, Queues, TLC

CONSTANTS
    Calls,           \* calls of queueBatch
    Parts,           \* the batches of at most MAX_BATCH_SIZE that a call is split into
    NoBatch,
    ErrorKinds,      \* what may go wrong with a request or the store
    RetryLimit,      \* calculateRetryBackoff gives up beyond this many attempts
    MaxErrors, MaxStops, MaxRestarts

Kinds == {"fatal", "rateLimit", "server", "connection", "store"}

ASSUME ToDeviceAssumption ==
    /\ \A c \in Calls : Parts[c] \in Seq(ToSet(Parts[c])) /\ IsInjective(Parts[c])
    /\ \A c, d \in Calls : c # d => ToSet(Parts[c]) \cap ToSet(Parts[d]) = {}
    /\ ErrorKinds \subseteq Kinds
    /\ RetryLimit \in Nat /\ MaxErrors \in Nat /\ MaxStops \in Nat /\ MaxRestarts \in Nat

Batches == UNION {ToSet(Parts[c]) : c \in Calls}

VARIABLES
    call,          \* queueBatch: "new", waiting for the store, or done
    store,         \* the batches in the store, oldest first
    running,       \* this.running
    started,       \* the client was started: onResumedSync is registered
    loop,          \* where sendQueue is suspended; "waiting" for a kick if it gave up
    headBatch,     \* the batch the loop works on
    accepted,      \* the server has accepted the request that is out
    attempts,      \* this.retryAttempts
    retryTimer,    \* this.retryTimeout is set
    delivered,     \* the batches the server knows, in the order of arrival
    dropped,       \* why a batch was dropped
    errors, stops, restarts

vars == <<call, store, running, started, loop, headBatch, accepted, attempts,
          retryTimer, delivered, dropped, errors, stops, restarts>>

loopVars == <<loop, headBatch, accepted>>
bounds   == <<errors, stops, restarts>>

TypeOK ==
    /\ call \in [Calls -> {"new", "saving", "done", "lost"}]
    /\ store \in Seq(Batches) /\ IsInjective(store)
    /\ running \in BOOLEAN /\ started \in BOOLEAN
    /\ loop \in {"idle", "waiting", "reading", "http", "removing", "dropping"}
    /\ headBatch \in Batches \cup {NoBatch}
    /\ loop \in {"http", "removing", "dropping"} => store # <<>> /\ headBatch = Head(store)
    /\ accepted \in BOOLEAN
    /\ attempts \in Nat
    /\ retryTimer \in BOOLEAN
    /\ delivered \in Seq(Batches)
    /\ dropped \in [Batches -> Kinds \cup {"no"}]
    /\ errors \in 0..MaxErrors /\ stops \in 0..MaxStops /\ restarts \in 0..MaxRestarts

Init ==
    /\ call = [c \in Calls |-> "new"]
    /\ store = <<>>
    /\ running = TRUE
    /\ started = FALSE
    /\ loop = "idle"
    /\ headBatch = NoBatch
    /\ accepted = FALSE
    /\ attempts = 0
    /\ retryTimer = FALSE
    /\ delivered = <<>>
    /\ dropped = [b \in Batches |-> "no"]
    /\ errors = 0 /\ stops = 0 /\ restarts = 0

-----------------------------------------------------------------------------
(* The loop.                                                               *)

\* this.sending
sending == loop \notin {"idle", "waiting"}

\* sendQueue up to its first await, when this.running is run: the retry timer
\* is cleared, and the loop starts unless it is already under way.
Kick(run) ==
    /\ retryTimer' = FALSE
    /\ IF sending \/ ~run THEN UNCHANGED loopVars
       ELSE loop' = "reading" /\ headBatch' = NoBatch /\ accepted' = FALSE

\* The loop ends: finally { this.sending = false }.
EndAs(how) == loop' = how /\ headBatch' = NoBatch /\ accepted' = FALSE
End == EndAs("idle")
GiveUp == EndAs("waiting")

\* The catch block.  calculateRetryBackoff returns -1 for a client error, for
\* a lost connection and beyond the limit; then a batch answered by any 4xx
\* status is dropped, else the loop gives up until it is kicked.
Failed(kind) ==
    /\ kind \in ErrorKinds /\ errors < MaxErrors
    /\ errors' = errors + 1
    /\ attempts' = attempts + 1
    /\ \/ /\ attempts + 1 <= RetryLimit /\ kind \notin {"fatal", "connection"}
          /\ retryTimer' = TRUE /\ End
          /\ UNCHANGED dropped
       \/ /\ attempts + 1 > RetryLimit \/ kind \in {"fatal", "connection"}
          /\ \/ /\ kind \in {"fatal", "rateLimit"}
                /\ dropped' = [dropped EXCEPT ![headBatch] = kind]
                /\ loop' = "dropping"
                /\ UNCHANGED <<headBatch, accepted>>
             \/ kind \notin {"fatal", "rateLimit"} /\ GiveUp /\ UNCHANGED dropped
          /\ UNCHANGED retryTimer
    /\ UNCHANGED <<call, store, running, started, delivered, stops, restarts>>

ReadOldest_newest ==
    /\ loop = "reading"
    /\ IF store = <<>> THEN End
       ELSE loop' = "http" /\ headBatch' = Last(store) /\ accepted' = FALSE
    /\ UNCHANGED <<call, store, running, started, attempts, retryTimer, delivered, dropped, bounds>>

\* getOldestToDeviceBatch answers.  this.running is not looked at again before
\* the batch is sent.
ReadOldest ==
    /\ loop = "reading"
    /\ IF store = <<>> THEN End
       ELSE loop' = "http" /\ headBatch' = Head(store) /\ accepted' = FALSE
    /\ UNCHANGED <<call, store, running, started, attempts, retryTimer, delivered, dropped, bounds>>

\* The server accepts the batch, unless it knows its transaction id.
ServerAccepts ==
    /\ loop = "http" /\ ~accepted
    /\ accepted' = TRUE
    /\ delivered' = IF headBatch \in ToSet(delivered) THEN delivered
                    ELSE Append(delivered, headBatch)
    /\ UNCHANGED <<call, store, running, started, loop, headBatch, attempts, retryTimer,
                   dropped, bounds>>

\* sendBatch returns.
Sent ==
    /\ loop = "http" /\ accepted
    /\ loop' = "removing"
    /\ UNCHANGED <<call, store, running, started, headBatch, accepted, attempts,
                   retryTimer, delivered, dropped, bounds>>

\* The request fails.  A lost connection or a server error may hide that the
\* batch was accepted.
RequestFails(kind) ==
    /\ loop = "http" /\ kind # "store"
    /\ accepted => kind \in {"connection", "server"}
    /\ Failed(kind)

Removed_stops ==
    /\ loop = "removing"
    /\ store' = Tail(store)
    /\ attempts' = 0
    /\ End
    /\ UNCHANGED <<call, running, started, retryTimer, delivered, dropped, bounds>>

\* The batch is removed and the loop goes on with the next one, if running.
Removed ==
    /\ loop = "removing"
    /\ store' = Tail(store)
    /\ attempts' = 0
    /\ IF running THEN loop' = "reading" /\ headBatch' = NoBatch /\ accepted' = FALSE ELSE End
    /\ UNCHANGED <<call, running, started, retryTimer, delivered, dropped, bounds>>

\* The store fails to read or to remove.
StoreFails ==
    /\ loop \in {"reading", "removing"}
    /\ Failed("store")

\* The dropped batch is removed; the loop does not go on.
Dropped ==
    /\ loop = "dropping"
    /\ store' = Tail(store)
    /\ GiveUp
    /\ UNCHANGED <<call, running, started, attempts, retryTimer, delivered, dropped, bounds>>

\* Its removal fails: the error leaves sendQueue, and the batch stays.
DropFails ==
    /\ loop = "dropping"
    /\ "store" \in ErrorKinds /\ errors < MaxErrors
    /\ errors' = errors + 1
    /\ GiveUp
    /\ UNCHANGED <<call, store, running, started, attempts, retryTimer, delivered, dropped,
                   stops, restarts>>

-----------------------------------------------------------------------------
(* What kicks the loop, and starting and stopping.                         *)

\* queueBatch splits its messages and saves the batches in one transaction.
QueueBatch(c) ==
    /\ call[c] = "new"
    /\ call' = [call EXCEPT ![c] = "saving"]
    /\ store' = store \o Parts[c]
    /\ UNCHANGED <<running, started, loopVars, attempts, retryTimer, delivered, dropped, bounds>>

\* saveToDeviceBatches returns.
Saved(c) ==
    /\ call[c] = "saving"
    /\ call' = [call EXCEPT ![c] = "done"]
    /\ Kick(running)
    /\ UNCHANGED <<store, running, started, attempts, delivered, dropped, bounds>>

RetryTimer ==
    /\ retryTimer
    /\ Kick(running)
    /\ UNCHANGED <<call, store, running, started, attempts, delivered, dropped, bounds>>

\* onResumedSync while the client is started; retryImmediately or resendEvent.
KickedByClient ==
    /\ Kick(running)
    /\ UNCHANGED <<call, store, running, started, attempts, delivered, dropped, bounds>>

Start_waitsForSync ==
    /\ ~started
    /\ started' = TRUE /\ running' = TRUE
    /\ UNCHANGED <<call, store, loopVars, retryTimer, attempts, delivered, dropped, bounds>>

Start ==
    /\ ~started
    /\ started' = TRUE /\ running' = TRUE
    /\ Kick(TRUE)
    /\ UNCHANGED <<call, store, attempts, delivered, dropped, bounds>>

Stop ==
    /\ started /\ stops < MaxStops
    /\ stops' = stops + 1
    /\ started' = FALSE /\ running' = FALSE
    /\ retryTimer' = FALSE
    /\ UNCHANGED <<call, store, loopVars, attempts, delivered, dropped, errors, restarts>>

\* The calls whose batches no answer of the store has shown to be written.
Unconfirmed ==
    {c \in Calls : /\ call[c] = "saving"
                  /\ headBatch \notin ToSet(Parts[c])
                  /\ \A b \in ToSet(Parts[c]) : b \notin ToSet(delivered) /\ dropped[b] = "no"}

\* The application is closed and opened again.  A transaction of the store
\* that was under way may be lost.
Restart ==
    /\ restarts < MaxRestarts
    /\ restarts' = restarts + 1
    /\ \E lost \in SUBSET Unconfirmed :
          /\ call' = [c \in Calls |-> IF c \in lost THEN "lost"
                                    ELSE IF call[c] = "saving" THEN "done" ELSE call[c]]
          /\ store' = Without(store, UNION {ToSet(Parts[c]) : c \in lost})
    /\ running' = TRUE /\ started' = FALSE
    /\ GiveUp
    /\ attempts' = 0 /\ retryTimer' = FALSE
    /\ UNCHANGED <<delivered, dropped, errors, stops>>

Loop == ReadOldest \/ Sent \/ Removed \/ Dropped

Next ==
    \/ \E c \in Calls : QueueBatch(c) \/ Saved(c)
    \/ Loop \/ ServerAccepts \/ RetryTimer
    \/ \E kind \in Kinds : RequestFails(kind)
    \/ StoreFails \/ DropFails \/ KickedByClient \/ Start \/ Stop \/ Restart

Spec == Init /\ [][Next]_vars

\* The store and the server answer, the timer fires.  Nothing obliges the
\* client or the user to kick the queue.
Fairness ==
    /\ WF_vars(Loop \/ ServerAccepts)
    /\ WF_vars(RetryTimer)
    /\ \A c \in Calls : WF_vars(Saved(c))

FairSpec == Spec /\ Fairness

-----------------------------------------------------------------------------
(* Properties.                                                             *)

\* The queue implements ordered delivery: over retries, stops, crashes and lost
\* answers each batch reaches the server once, in the order in which it was queued,
\* and leaves the store only when it was delivered or refused; a crash loses no call
\* that has returned, and no part of a call.  What waits is the store, but for an
\* oldest batch that the server has already.
Delivery == INSTANCE OrderedDelivery WITH
    state <- [c \in Calls |-> CASE call[c] = "saving" -> "queued"
                                 [] call[c] = "done" -> "returned"
                                 [] OTHER -> call[c]],
    waiting <- IF store # <<>> /\ Head(store) \in ToSet(delivered) THEN Tail(store) ELSE store,
    refused <- {b \in Batches : dropped[b] # "no"}

ImplementsDelivery == Delivery!Spec

\* queueToDevice: "Retries will happen automatically."  What is in the store is
\* delivered without another kick, unless the queue is stopped, or gave up for
\* a fatal answer, a lost connection or the retry limit.
SentWithoutKick ==
    \A b \in Batches :
        b \in ToSet(store) ~> b \in ToSet(delivered) \/ ~running \/ loop = "waiting"

\* While the queue runs and no batch is just being saved, a batch in the store
\* is being sent or waits for its retry, unless the loop gave up: a kick that
\* came too late for the loop that was ending, or a start that found the loop
\* of before the stop still under way, leaves nothing behind.
StoreIsServed ==
    running /\ store # <<>> /\ (\A c \in Calls : call[c] # "saving")
        => loop # "idle" \/ retryTimer

-----------------------------------------------------------------------------
(* What the comments promise and the code does not guarantee (see the      *)
(* README).                                                                *)

\* A batch is dropped only for a fatal answer, not because the server asked to
\* send it later.
OnlyFatalIsDropped == \A b \in Batches : dropped[b] \in {"no", "fatal"}
=============================================================================

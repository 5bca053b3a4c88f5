---------------------------- MODULE EventSending ----------------------------
(***************************************************************************)
(* How matrix-js-sdk sends a room event and keeps its local echo: the      *)
(* asynchronous function encryptAndSendEvent of MatrixClient, the FIFO     *)
(* queue of MatrixScheduler, the status machine and pending-event list of  *)
(* Room (PendingEventOrdering.Detached, the ordering element-web uses),    *)
(* the remote echo that /sync delivers, and the list of pending events     *)
(* kept in local storage across a restart.                                 *)
(*                                                                         *)
(* JavaScript runs one task at a time, so an action is the code from one   *)
(* await, timer or network callback to the next.  The homeserver and the   *)
(* network are environment: a request reaches the server or not, and its   *)
(* response reaches the client or not.                                     *)
(***************************************************************************)
EXTENDS Naturals, Sequences, SequencesExt

CONSTANTS
    Events,          \* the events the user may send, one per transaction id
    NoEvent,         \* "no target", "no current event"
    RoomOf,          \* the room each event is sent to
    EncryptedRooms,  \* the rooms that have encryption enabled
    Queueable,       \* events that QUEUE_MESSAGES puts in the "message" queue
    NeverEncrypted,  \* reactions and redactions
    Target,          \* the event a relation or redaction refers to, or NoEvent
    EchoTxn,         \* can the server's echo carry / lack our transaction id
    RetryLimit,      \* attempts after which the retry algorithm gives up (4)
    MaxErrors,       \* bound: failed requests in a behaviour
    MaxRestarts      \* bound: restarts of the application in a behaviour

ASSUME SendingAssumption ==
    /\ NoEvent \notin Events
    /\ DOMAIN RoomOf = Events
    /\ Queueable \subseteq Events
    /\ NeverEncrypted \subseteq Events
    /\ Target \in [Events -> Events \cup {NoEvent}]
    /\ EchoTxn \subseteq BOOLEAN
    /\ RetryLimit \in Nat
    /\ MaxErrors \in Nat
    /\ MaxRestarts \in Nat

VARIABLES
    status,       \* MatrixEvent.status; "null" once the remote echo is in,
                  \* "new" before the user sends it, "stored" when read from
                  \* storage but not yet added, "gone" with a dead process
    task,         \* where encryptAndSendEvent of the event is suspended
    eventsBeingEncrypted,  \* MatrixClient.eventsBeingEncrypted
    encrypted,    \* events whose content has been encrypted
    pending,      \* Room.pendingEventList of all rooms
    txnToEvent,   \* Room.txnToEvent of all rooms
    hasId,        \* local events that carry the id given by the server
    assoc,        \* the id of the target inside a relation: local or remote
    listening,    \* relations waiting for LocalEventIdReplaced of the target
    queue,        \* MatrixScheduler.queues["message"]
    behind,       \* history: relations queued while the target was queued
    phase,        \* what processQueue is doing
    cur,          \* the entry processQueue took from the head of the queue
    attempts,     \* attempts of that entry
    req,          \* the HTTP request of the event
    server,       \* the room events the homeserver has, in its order
    synced,       \* how many of them /sync has delivered
    timeline,     \* what the live timeline shows for the event
    stored,       \* local storage: the persisted pending events
    errors, restarts

clientVars == <<status, task, eventsBeingEncrypted, encrypted>>
roomVars   == <<pending, txnToEvent, hasId, assoc, listening>>
schedVars  == <<queue, behind, phase, cur, attempts>>
netVars    == <<req, server>>
syncVars   == <<synced, timeline>>
bounds     == <<errors, restarts>>

vars == <<status, task, eventsBeingEncrypted, encrypted, pending, txnToEvent,
          hasId, assoc, listening, queue, behind, phase, cur, attempts, req,
          server, synced, timeline, stored, errors, restarts>>

Statuses == {"new", "sending", "encrypting", "queued", "not_sent", "sent",
             "cancelled", "null", "stored", "gone"}
Tasks    == {"idle", "checking", "encrypting", "queued", "http"}
Phases   == {"inactive", "turn", "http", "backoff"}

TypeOK ==
    /\ status \in [Events -> Statuses]
    /\ task \in [Events -> Tasks]
    /\ eventsBeingEncrypted \subseteq Events
    /\ encrypted \subseteq Events
    /\ pending \subseteq Events
    /\ txnToEvent \subseteq Events
    /\ hasId \subseteq Events
    /\ assoc \in [Events -> {"none", "local", "remote"}]
    /\ listening \subseteq Events
    /\ queue \in Seq(Events)
    /\ behind \subseteq Events
    /\ phase \in Phases
    /\ cur \in Events \cup {NoEvent}
    /\ attempts \in Nat
    /\ req \in [Events -> {"none", "sent", "accepted"}]
    /\ server \in Seq(Events)
    /\ synced \in Nat
    /\ timeline \in [Events -> {"absent", "local", "remote", "remoteNoTxn"}]
    /\ stored \in [Events -> {"no", "none", "local", "remote"}]
    /\ errors \in Nat
    /\ restarts \in Nat

Init ==
    /\ status = [e \in Events |-> "new"]
    /\ task = [e \in Events |-> "idle"]
    /\ eventsBeingEncrypted = {}
    /\ encrypted = {}
    /\ pending = {}
    /\ txnToEvent = {}
    /\ hasId = {}
    /\ assoc = [e \in Events |-> "none"]
    /\ listening = {}
    /\ queue = <<>>
    /\ behind = {}
    /\ phase = "inactive"
    /\ cur = NoEvent
    /\ attempts = 0
    /\ req = [e \in Events |-> "none"]
    /\ server = <<>>
    /\ synced = 0
    /\ timeline = [e \in Events |-> "absent"]
    /\ stored = [e \in Events |-> "no"]
    /\ errors = 0
    /\ restarts = 0

-----------------------------------------------------------------------------
(* The status machine and the persisted list.                              *)

Allowed_queuedCannotFail(s) ==
    CASE s = "encrypting" -> {"sending", "not_sent", "cancelled"}
      [] s = "sending"    -> {"encrypting", "queued", "not_sent", "sent"}
      [] s = "queued"     -> {"sending", "cancelled"}
      [] s = "not_sent"   -> {"sending", "queued", "cancelled"}
      [] OTHER            -> {}

\* ALLOWED_TRANSITIONS; an event without a status is not a local echo, and
\* updatePendingEvent throws for it as it does for a transition not listed.
Allowed(s) ==
    CASE s = "encrypting" -> {"sending", "not_sent", "cancelled"}
      [] s = "sending"    -> {"encrypting", "queued", "not_sent", "sent"}
      [] s = "queued"     -> {"sending", "not_sent", "cancelled"}
      [] s = "not_sent"   -> {"sending", "queued", "cancelled"}
      [] OTHER            -> {}

CanMove(e, s) == s \in Allowed(status[e])

InRoom(r) == {e \in Events : RoomOf[e] = r}

Save_beforeUpdate(es, asc) ==
    stored' = [e \in Events |->
        IF \A f \in es : RoomOf[f] # RoomOf[e] THEN stored[e]
        ELSE IF e \in pending /\ (RoomOf[e] \in EncryptedRooms => e \in encrypted)
        THEN asc[e] ELSE "no"]

\* savePendingEvents of the rooms of the events in es, with the relations'
\* targets as in asc.  In an encrypted room only what is already encrypted
\* is written.
Save(es, asc) ==
    stored' = [e \in Events |->
        IF \A f \in es : RoomOf[f] # RoomOf[e] THEN stored[e]
        ELSE IF e \in pending' /\ (RoomOf[e] \in EncryptedRooms => e \in encrypted')
        THEN asc[e] ELSE "no"]

ReplaceId_noListeners(e) ==
    /\ hasId' = hasId \cup {e}
    /\ UNCHANGED <<assoc, listening>>

\* The listeners that sendCompleteEvent put on the target e run when the id
\* of e is replaced, once.
ReplaceId(e) ==
    /\ hasId' = hasId \cup {e}
    /\ assoc' = [r \in Events |-> IF r \in listening /\ Target[r] = e
                                  THEN "remote" ELSE assoc[r]]
    /\ listening' = {r \in listening : Target[r] # e}

HandleRemoteEcho_stillPending(e) ==
    /\ txnToEvent' = txnToEvent \ {e}
    /\ status' = [status EXCEPT ![e] = "null"]
    /\ ReplaceId(e)
    /\ timeline' = [timeline EXCEPT ![e] = "local"]
    /\ UNCHANGED <<encrypted, pending, stored>>

\* Room.handleRemoteEcho: the local echo e becomes the event in the timeline.
\* The pending list is saved before the listeners run.
HandleRemoteEcho(e) ==
    /\ txnToEvent' = txnToEvent \ {e}
    /\ pending' = pending \ {e}
    /\ status' = [status EXCEPT ![e] = "null"]
    /\ ReplaceId(e)
    /\ timeline' = [timeline EXCEPT ![e] = "local"]
    /\ UNCHANGED encrypted
    /\ Save({e}, assoc)

\* Between processQueue and the process function lies one microtask: promise
\* handlers may run there, but no timer, network or /sync callback.
NoMicrotask == phase # "turn"

NeedsEncryption(e) ==
    /\ RoomOf[e] \in EncryptedRooms
    /\ e \notin NeverEncrypted
    /\ e \notin encrypted

-----------------------------------------------------------------------------
(* The user.                                                               *)

\* sendCompleteEvent: create the local echo and start to send it, unless an
\* unsent event of the room blocks it.
Send(e) ==
    LET t == Target[e]
        blocked == \E f \in pending \cap InRoom(RoomOf[e]) : status[f] = "not_sent"
        toLocal == t \in pending /\ t \notin hasId
    IN
    /\ status[e] = "new"
    /\ t # NoEvent => t \in pending \/ timeline[t] # "absent"
    /\ assoc' = [assoc EXCEPT ![e] = IF t = NoEvent THEN "none"
                                     ELSE IF toLocal THEN "local" ELSE "remote"]
    /\ listening' = IF toLocal THEN listening \cup {e} ELSE listening
    /\ txnToEvent' = txnToEvent \cup {e}
    /\ pending' = pending \cup {e}
    /\ status' = [status EXCEPT ![e] = IF blocked THEN "not_sent" ELSE "sending"]
    /\ task' = [task EXCEPT ![e] = IF blocked THEN "idle" ELSE "checking"]
    /\ eventsBeingEncrypted' = IF blocked THEN eventsBeingEncrypted
                               ELSE eventsBeingEncrypted \cup {e}
    /\ UNCHANGED <<encrypted, hasId, schedVars, netVars, syncVars, bounds>>
    /\ Save({e}, assoc')

\* resendEvent, which the interface offers for unsent events.
Resend(e) ==
    /\ e \in pending /\ status[e] = "not_sent"
    /\ status' = [status EXCEPT ![e] = "sending"]
    /\ task' = [task EXCEPT ![e] = "checking"]
    /\ eventsBeingEncrypted' = eventsBeingEncrypted \cup {e}
    /\ UNCHANGED <<encrypted, roomVars, schedVars, netVars, syncVars, bounds>>
    /\ Save({e}, assoc)

Cancellable_sending == {"queued", "not_sent", "encrypting", "sending"}

\* The statuses in which cancelPendingEvent does not throw.
Cancellable == {"queued", "not_sent", "encrypting"}

\* cancelPendingEvent.
Cancel(e) ==
    /\ status[e] \in Cancellable
    /\ eventsBeingEncrypted' = IF status[e] = "encrypting"
                               THEN eventsBeingEncrypted \ {e}
                               ELSE eventsBeingEncrypted
    /\ IF status[e] = "queued"
       THEN queue' = RemoveFirst(queue, e) /\ behind' = behind \ {e}
       ELSE UNCHANGED <<queue, behind>>
    /\ status' = [status EXCEPT ![e] = "cancelled"]
    /\ pending' = pending \ {e}
    /\ UNCHANGED <<task, encrypted, txnToEvent, hasId, assoc, listening, phase,
                   cur, attempts, netVars, syncVars, bounds>>
    /\ Save({e}, assoc)

-----------------------------------------------------------------------------
(* encryptAndSendEvent.                                                    *)

\* encryptEventIfNeeded has found that e is to be encrypted.
StartEncryption(e) ==
    /\ task[e] = "checking" /\ NeedsEncryption(e) /\ CanMove(e, "encrypting")
    /\ status' = [status EXCEPT ![e] = "encrypting"]
    /\ task' = [task EXCEPT ![e] = "encrypting"]
    /\ UNCHANGED <<eventsBeingEncrypted, encrypted, roomVars, schedVars, netVars,
                   syncVars, bounds>>
    /\ Save({e}, assoc)

\* encryptEventIfNeeded throws: the catch block marks the event as unsent,
\* or fails to because it was cancelled.
EncryptionFails(e) ==
    /\ task[e] \in {"checking", "encrypting"} /\ NeedsEncryption(e)
    /\ errors < MaxErrors
    /\ errors' = errors + 1
    /\ eventsBeingEncrypted' = eventsBeingEncrypted \ {e}
    /\ task' = [task EXCEPT ![e] = "idle"]
    /\ status' = IF CanMove(e, "not_sent") THEN [status EXCEPT ![e] = "not_sent"]
                 ELSE status
    /\ UNCHANGED <<encrypted, roomVars, schedVars, netVars, syncVars, restarts>>
    /\ IF status' # status THEN Save({e}, assoc) ELSE UNCHANGED stored

QueueEvent_alwaysStarts(e) ==
    /\ queue' = Append(queue, e)
    /\ behind' = IF Target[e] \in ToSet(queue) THEN behind \cup {e} ELSE behind
    /\ phase' = "turn" /\ cur' = Head(queue') /\ attempts' = 0

\* queueEvent: append, and start processQueue if the queue is inactive.
QueueEvent(e) ==
    /\ queue' = Append(queue, e)
    /\ behind' = IF Target[e] \in ToSet(queue) THEN behind \cup {e} ELSE behind
    /\ IF phase = "inactive"
       THEN phase' = "turn" /\ cur' = Head(queue') /\ attempts' = 0
       ELSE UNCHANGED <<phase, cur, attempts>>

\* The rest of encryptAndSendEvent up to its next await: give up if the event
\* was cancelled or got its id meanwhile, else hand it to the scheduler or send it.  An
\* event that is already echoed cannot become QUEUED: the exception ends the
\* function while the event stays in the scheduler's queue.
Dispatch(e) ==
    LET now   == IF status[e] = "encrypting" THEN "sending" ELSE status[e]
        stuck == queue # <<>>
    IN
    /\ eventsBeingEncrypted' = eventsBeingEncrypted \ {e}
    /\ \/ /\ e \notin eventsBeingEncrypted
          /\ task' = [task EXCEPT ![e] = "idle"]
          /\ UNCHANGED <<status, schedVars, req>>
       \/ /\ e \in eventsBeingEncrypted /\ e \in Queueable
          /\ QueueEvent(e)
          /\ status' = [status EXCEPT ![e] =
                 IF stuck /\ "queued" \in Allowed(now) THEN "queued" ELSE now]
          /\ task' = [task EXCEPT ![e] =
                 IF stuck /\ "queued" \notin Allowed(now) THEN "idle" ELSE "queued"]
          /\ UNCHANGED req
       \/ /\ e \in eventsBeingEncrypted /\ e \notin Queueable
          /\ status' = [status EXCEPT ![e] = now]
          /\ task' = [task EXCEPT ![e] = "http"]
          /\ req' = [req EXCEPT ![e] = "sent"]
          /\ UNCHANGED schedVars
    /\ UNCHANGED <<roomVars, server, syncVars, bounds>>
    /\ IF status' # status THEN Save({e}, assoc) ELSE UNCHANGED stored

SkipEncryption(e) ==
    /\ task[e] = "checking" /\ ~NeedsEncryption(e)
    /\ UNCHANGED encrypted
    /\ Dispatch(e)

EncryptionDone(e) ==
    /\ task[e] = "encrypting"
    /\ encrypted' = encrypted \cup {e}
    /\ Dispatch(e)

-----------------------------------------------------------------------------
(* MatrixScheduler.                                                        *)

ProcessQueue_stops(q) ==
    phase' = "inactive" /\ cur' = NoEvent /\ attempts' = 0

\* processQueue takes the head of q, or stops.
ProcessQueue(q) ==
    IF q = <<>>
    THEN phase' = "inactive" /\ cur' = NoEvent /\ attempts' = 0
    ELSE /\ phase' = "turn" /\ cur' = Head(q)
         /\ attempts' = IF Head(q) = cur THEN attempts ELSE 0

\* The send of the current entry failed.  Either a timer is set for another
\* attempt, or clearQueue rejects the whole queue and the catch block of
\* every encryptAndSendEvent that waits for it marks its event as unsent.
SendFailed(retryable) ==
    IF retryable /\ attempts + 1 <= RetryLimit
    THEN /\ attempts' = attempts + 1
         /\ phase' = "backoff"
         /\ UNCHANGED <<status, task, queue, behind, cur, stored>>
    ELSE LET rejected == {e \in ToSet(queue) : task[e] = "queued"}
             unsent   == {e \in rejected : CanMove(e, "not_sent")}
         IN  /\ queue' = <<>> /\ behind' = {}
             /\ phase' = "inactive" /\ cur' = NoEvent /\ attempts' = 0
             /\ task' = [e \in Events |-> IF e \in rejected THEN "idle" ELSE task[e]]
             /\ status' = [e \in Events |-> IF e \in unsent THEN "not_sent" ELSE status[e]]
             /\ Save(unsent, assoc)

\* The microtask after processQueue: the process function set by MatrixClient
\* sends the event, or throws because its status does not allow it.
ProcessEvent ==
    /\ phase = "turn"
    /\ \/ /\ status[cur] = "sending" \/ CanMove(cur, "sending")
          /\ status' = [status EXCEPT ![cur] = "sending"]
          /\ req' = [req EXCEPT ![cur] = "sent"]
          /\ phase' = "http"
          /\ UNCHANGED <<task, queue, behind, cur, attempts>>
          /\ UNCHANGED <<eventsBeingEncrypted, encrypted, roomVars>>
          /\ IF status' # status THEN Save({cur}, assoc) ELSE UNCHANGED stored
       \/ /\ ~(status[cur] = "sending" \/ CanMove(cur, "sending"))
          /\ UNCHANGED <<eventsBeingEncrypted, encrypted, roomVars, req>>
          /\ SendFailed(TRUE)
    /\ UNCHANGED <<server, syncVars, bounds>>

\* The timer of a retry fires.
RetryTimer ==
    /\ phase = "backoff"
    /\ ProcessQueue(queue)
    /\ UNCHANGED <<clientVars, roomVars, queue, behind, netVars, syncVars, stored, bounds>>

-----------------------------------------------------------------------------
(* The network and the homeserver.                                         *)

\* The server processes the request; it recognises a transaction id it knows.
ServerAccepts(e) ==
    /\ req[e] = "sent"
    /\ req' = [req EXCEPT ![e] = "accepted"]
    /\ server' = IF e \in ToSet(server) THEN server ELSE Append(server, e)
    /\ UNCHANGED <<clientVars, roomVars, schedVars, syncVars, stored, bounds>>

\* updatePendingEvent(SENT): if the timeline already has the event, either its
\* echo was recognised and nothing is done, or the echo came without our
\* transaction id and the local echo takes its place now.
MarkSent(e) ==
    \/ /\ timeline[e] = "absent" /\ CanMove(e, "sent")
       /\ status' = [status EXCEPT ![e] = "sent"]
       /\ ReplaceId(e)
       /\ UNCHANGED <<encrypted, pending, txnToEvent, timeline>>
       /\ Save({e}, assoc')
    \/ /\ timeline[e] = "remoteNoTxn"
       /\ HandleRemoteEcho(e)
    \/ /\ timeline[e] \in {"local", "remote"}
       /\ UNCHANGED <<status, encrypted, roomVars, timeline, stored>>

\* The response for the current entry of the queue: the event is marked as
\* sent, the head of the queue is dropped and the next entry is taken.
QueuedResponse ==
    /\ phase = "http" /\ req[cur] = "accepted"
    /\ req' = [req EXCEPT ![cur] = "none"]
    /\ MarkSent(cur)
    /\ queue' = Tail(queue)
    /\ behind' = behind \ {cur}
    /\ task' = [task EXCEPT ![cur] = "idle"]
    /\ ProcessQueue(queue')
    /\ UNCHANGED <<eventsBeingEncrypted, server, synced, bounds>>

\* The request fails for the client, whether or not the server processed it.
QueuedFailure(retryable) ==
    /\ phase = "http" /\ req[cur] # "none"
    /\ errors < MaxErrors
    /\ errors' = errors + 1
    /\ req' = [req EXCEPT ![cur] = "none"]
    /\ UNCHANGED <<eventsBeingEncrypted, encrypted, roomVars, server, syncVars, restarts>>
    /\ SendFailed(retryable)

\* The same for an event that is sent without a queue.
DirectResponse(e) ==
    /\ NoMicrotask /\ task[e] = "http" /\ req[e] = "accepted"
    /\ req' = [req EXCEPT ![e] = "none"]
    /\ MarkSent(e)
    /\ task' = [task EXCEPT ![e] = "idle"]
    /\ UNCHANGED <<eventsBeingEncrypted, schedVars, server, synced, bounds>>

DirectFailure(e) ==
    /\ NoMicrotask /\ task[e] = "http" /\ req[e] # "none"
    /\ errors < MaxErrors
    /\ errors' = errors + 1
    /\ req' = [req EXCEPT ![e] = "none"]
    /\ task' = [task EXCEPT ![e] = "idle"]
    /\ status' = IF CanMove(e, "not_sent") THEN [status EXCEPT ![e] = "not_sent"]
                 ELSE status
    /\ UNCHANGED <<eventsBeingEncrypted, encrypted, roomVars, schedVars, server,
                   syncVars, restarts>>
    /\ IF status' # status THEN Save({e}, assoc) ELSE UNCHANGED stored

-----------------------------------------------------------------------------
(* /sync and restarts.                                                     *)

\* addLiveEvents for the next event of ours.  The echo is matched by its
\* transaction id; without one, processLiveEvent matches it by event id, which
\* the local echo only has once its request was answered.  An event that is being
\* sent once more is known to eventsBeingEncrypted by its local id: if the echo
\* replaces that, encryptAndSendEvent does not find it and gives up.
Echo(hasTxn) ==
    LET e == server[synced + 1]
        matched == e \in txnToEvent /\ (hasTxn \/ e \in hasId)
    IN
    /\ NoMicrotask /\ synced < Len(server)
    /\ synced' = synced + 1
    /\ \/ /\ matched /\ HandleRemoteEcho(e)
          /\ eventsBeingEncrypted' = IF e \in hasId THEN eventsBeingEncrypted
                                     ELSE eventsBeingEncrypted \ {e}
       \/ /\ ~matched
          /\ timeline' = [timeline EXCEPT ![e] =
                 IF @ # "absent" THEN @
                 ELSE IF hasTxn THEN "remote" ELSE "remoteNoTxn"]
          /\ UNCHANGED <<status, eventsBeingEncrypted, encrypted, roomVars, stored>>
    /\ UNCHANGED <<task, schedVars, netVars, bounds>>

\* The application dies and is started again: what is in memory is lost, the
\* timeline comes back from the sync cache, which may be older, and each Room
\* reads its persisted events, to be added one by one later.
Restart ==
    /\ restarts < MaxRestarts
    /\ restarts' = restarts + 1
    /\ status' = [e \in Events |-> IF status[e] = "new" THEN "new"
                                   ELSE IF stored[e] # "no" THEN "stored" ELSE "gone"]
    /\ task' = [e \in Events |-> "idle"]
    /\ eventsBeingEncrypted' = {}
    /\ pending' = {} /\ txnToEvent' = {} /\ listening' = {}
    /\ assoc' = [e \in Events |-> IF stored[e] = "no" THEN assoc[e] ELSE stored[e]]
    /\ queue' = <<>> /\ behind' = {}
    /\ phase' = "inactive" /\ cur' = NoEvent /\ attempts' = 0
    /\ req' = [e \in Events |-> "none"]
    /\ \E k \in 0..synced, hasTxn \in EchoTxn :
          /\ synced' = k
          /\ timeline' = [e \in Events |->
                 IF \A i \in 1..k : server[i] # e THEN "absent"
                 ELSE IF hasTxn THEN "remote" ELSE "remoteNoTxn"]
    /\ UNCHANGED <<encrypted, hasId, server, stored, errors>>

\* The constructor of Room adds one persisted event, as unsent.
Reload(e) ==
    /\ status[e] = "stored"
    /\ status' = [status EXCEPT ![e] = "not_sent"]
    /\ txnToEvent' = txnToEvent \cup {e}
    /\ pending' = pending \cup {e}
    /\ UNCHANGED <<task, eventsBeingEncrypted, encrypted, hasId, assoc, listening,
                   schedVars, netVars, syncVars, bounds>>
    /\ Save({e}, assoc)

-----------------------------------------------------------------------------
User(e) == Send(e) \/ Resend(e) \/ Cancel(e)

Encryption(e) == StartEncryption(e) \/ SkipEncryption(e) \/ EncryptionDone(e)

Answer(e) ==
    \/ ServerAccepts(e)
    \/ DirectResponse(e)

Next ==
    \/ \E e \in Events : User(e) \/ Encryption(e) \/ EncryptionFails(e)
    \/ ProcessEvent \/ RetryTimer
    \/ \E e \in Events : Answer(e) \/ DirectFailure(e)
    \/ QueuedResponse
    \/ \E retryable \in BOOLEAN : QueuedFailure(retryable)
    \/ \E hasTxn \in EchoTxn : Echo(hasTxn)
    \/ Restart
    \/ \E e \in Events : Reload(e)

Spec == Init /\ [][Next]_vars

\* Encryption and requests end, microtasks and timers run, and /sync goes on.
\* Nothing obliges the user, an error or a restart.
Fairness ==
    /\ \A e \in Events : WF_vars(Encryption(e)) /\ WF_vars(Answer(e)) /\ WF_vars(Reload(e))
    /\ WF_vars(ProcessEvent \/ RetryTimer \/ QueuedResponse)
    /\ WF_vars(\E hasTxn \in EchoTxn : Echo(hasTxn))

FairSpec == Spec /\ Fairness

-----------------------------------------------------------------------------
(* Properties.                                                             *)

QueuedEvents == ToSet(queue)

\* The scheduler removes the head of the queue when the request of the entry
\* it took is answered, without comparing them (removeNextEvent).  So as long
\* as that request is out, its event has to be the head, and no other queued
\* event may have a request of its own.
OnlyHeadIsSent ==
    \A e \in Queueable : req[e] # "none" =>
        phase = "http" /\ cur = e /\ queue # <<>> /\ Head(queue) = e

\* A cancelled event is really withdrawn: it is not in the queue, no request
\* of it is out, and no suspended encryptAndSendEvent will send it.
CancelledIsWithdrawn ==
    \A e \in Events : status[e] = "cancelled" =>
        /\ e \notin QueuedEvents /\ req[e] = "none" /\ e \notin pending
        /\ task[e] # "idle" => e \notin eventsBeingEncrypted

\* A local echo that claims to be on its way has code that will finish it: no
\* event is left as sending, encrypting or queued with nothing behind it.
NoOrphan ==
    \A e \in Events :
        /\ status[e] = "queued" => e \in QueuedEvents /\ task[e] = "queued"
        /\ status[e] = "encrypting" => task[e] = "encrypting" /\ e \in eventsBeingEncrypted
        /\ status[e] = "sending" => task[e] # "idle"

\* The queue never stalls: while it has entries, processQueue is working on
\* its head, unless the entry it took was cancelled under it.
QueueIsServed ==
    /\ queue # <<>> => phase # "inactive"
    /\ cur \in QueuedEvents => cur = Head(queue)
    /\ queue # <<>> /\ cur \notin QueuedEvents => phase \in {"turn", "backoff"}

\* The user sees a message once: never both in the pending list and in the
\* timeline, except between an echo without transaction id and the answer of
\* the request.  And a local echo marked SENT is still awaiting its echo.
ShownOnce ==
    \A e \in Events :
        /\ e \in pending => timeline[e] \in {"absent", "remoteNoTxn"}
        /\ status[e] = "sent" => timeline[e] = "absent" /\ e \in pending /\ e \in hasId
        /\ status[e] = "null" => timeline[e] = "local" /\ e \notin pending

\* A relation that was queued behind its target is sent with the id that the
\* server gave the target (what the microtask in processQueue is for), unless
\* the target was cancelled.
QueuedRelationResolved ==
    phase = "http" /\ cur \in behind /\ status[Target[cur]] # "cancelled"
        => assoc[cur] = "remote"

\* What is pending and may be written is in local storage, so that a restart
\* brings it back as unsent: no change of the list is left unsaved.
PendingIsStored ==
    \A e \in pending : (RoomOf[e] \in EncryptedRooms => e \in encrypted)
                      => stored[e] # "no"

\* Every send ends: an event does not stay queued, encrypting or sending.
SendEnds ==
    \A e \in Events : status[e] \in {"queued", "encrypting", "sending"}
        ~> status[e] \notin {"queued", "encrypting", "sending"}

\* What the server has is shown.  Once /sync delivers the transaction id, the
\* local echo is the event of the timeline and is no longer pending, whatever
\* happened to the answer of the request and to the rest of the queue.
AcceptedIsShown ==
    \A e \in Events : e \in ToSet(server)
        ~> timeline[e] = "remoteNoTxn" \/ (timeline[e] = "local" /\ e \notin pending)

-----------------------------------------------------------------------------
(* What the comments promise and the code does not guarantee (see the      *)
(* README).                                                                *)

\* savePendingEvents persists all pending events of the room: an event that
\* was read back after a restart is not dropped from storage before it is
\* added again.
ReadBackIsKept == \A e \in Events : status[e] = "stored" => stored[e] # "no"

\* sendCompleteEvent: by the time a relation to a local echo does get sent,
\* it has the correct event id.
RelationHasRealTarget ==
    \A e \in Events : req[e] # "none" => assoc[e] # "local"

\* MatrixScheduler: an event that fails to send is removed from its queue and
\* the next one will be sent, so no event is marked as unsent by the failure
\* of another one.
OthersAreStillSent ==
    [][\A e \in Events : status[e] = "queued" => status'[e] # "not_sent"]_vars

-----------------------------------------------------------------------------
(* The inductive invariant behind OnlyHeadIsSent, CancelledIsWithdrawn and *)
(* QueueIsServed.                                                          *)

\* The scheduler: the entry being processed is the head of the queue, or was
\* cancelled; while its request is out it is the head.
SchedulerInv ==
    /\ IsInjective(queue)
    /\ phase = "inactive" => queue = <<>> /\ cur = NoEvent
    /\ phase # "inactive" =>
          /\ cur \in Queueable
          /\ task[cur] \in {"queued", "idle"}
          /\ cur \notin QueuedEvents => status[cur] \in {"cancelled", "null"}
    /\ cur \in QueuedEvents => cur = Head(queue)
    /\ phase = "http" => cur \in QueuedEvents /\ status[cur] \in {"sending", "null"}
    /\ \A e \in QueuedEvents :
          /\ e \in Queueable
          /\ status[e] \in {"sending", "queued", "null"}
          /\ task[e] \in {"queued", "idle"}

\* Requests belong to the entry being processed or to an encryptAndSendEvent.
RequestInv ==
    \A e \in Events :
        /\ req[e] # "none" /\ e \in Queueable => phase = "http" /\ cur = e
        /\ req[e] # "none" /\ e \notin Queueable => task[e] = "http"
        /\ task[e] = "http" => e \notin Queueable /\ status[e] \in {"sending", "null"}

\* The status an event can have where encryptAndSendEvent is suspended.
TaskInv ==
    \A e \in Events :
        /\ e \in eventsBeingEncrypted =>
              /\ task[e] \in {"checking", "encrypting"}
              /\ status[e] \in {"sending", "encrypting", "null"}
        /\ task[e] = "checking" => \/ status[e] = "null"
                                   \/ status[e] = "sending" /\ e \in eventsBeingEncrypted
        /\ task[e] = "encrypting" => status[e] \in {"encrypting", "cancelled", "null"}
        /\ status[e] = "encrypting" => task[e] = "encrypting" /\ e \in eventsBeingEncrypted
        /\ status[e] = "cancelled" => e \notin pending

SendingInv == SchedulerInv /\ RequestInv /\ TaskInv

-----------------------------------------------------------------------------
(* What NoOrphan, ShownOnce, QueuedRelationResolved and PendingIsStored    *)
(* need besides.                                                           *)

\* The statuses of an event that the pending list holds.
Unsettled == {"sending", "encrypting", "queued", "not_sent", "sent"}

\* The pending list, the transaction ids and the ids agree with the status;
\* nobody waits for an id that is already there.
LocalEchoInv ==
    \A e \in Events :
        /\ e \in pending <=> status[e] \in Unsettled
        /\ e \in pending => e \in txnToEvent
        /\ e \in ToSet(server) => status[e] # "new"
        /\ timeline[e] = "local" => e \in hasId
        /\ e \in listening => Target[e] \notin hasId

\* Until the first restart a relation to a local echo listens for its id.
ReferenceInv ==
    \A e \in Events :
        /\ status[e] \notin {"stored", "gone"}
        /\ status[e] = "new" => timeline[e] = "absent"
        /\ assoc[e] = "local" => e \in listening
        /\ status[e] # "new" /\ Target[e] # NoEvent => assoc[e] # "none"

IsBefore(q, a, b) == \E i, j \in 1..Len(q) : i < j /\ q[i] = a /\ q[j] = b

\* A relation queued while its target was queued: the target is still before
\* it, or was cancelled, or has given it its id.
BehindInv ==
    \A e \in behind :
        /\ e \in QueuedEvents /\ Target[e] \in Events
        /\ \/ IsBefore(queue, Target[e], e)
           \/ status[Target[e]] = "cancelled"
           \/ assoc[e] = "remote"

\* These hold until the first restart: an event that was read back from storage
\* can be pending while the timeline from the sync cache shows it already, and
\* its relations have lost their listeners.
FirstLifeInv == restarts = 0 => NoOrphan /\ ShownOnce /\ ReferenceInv /\ BehindInv
=============================================================================

------------------------ MODULE EventSending_proofs ------------------------
(***************************************************************************)
(* SendingInv is an inductive invariant of EventSending, and it implies    *)
(* that only the head of the queue is sent, that a cancelled event is      *)
(* withdrawn and that the queue is always served.  On top of it come the   *)
(* local echoes: what is pending is stored, and until the first restart    *)
(* none is left in between or shown twice, and queued relations are sent   *)
(* with the id of their target.  The operators that several actions share  *)
(* are treated first, then each action in turn.                            *)
(***************************************************************************)
EXTENDS EventSending, QueueLemmas

Assocs == {"none", "local", "remote"}
Timelines == {"absent", "local", "remote", "remoteNoTxn"}

-----------------------------------------------------------------------------
(* Types of the shared operators.                                          *)

\* What savePendingEvents writes is a stored event.
LEMMA SaveType ==
    ASSUME TypeOK, NEW es, NEW asc \in [Events -> Assocs], Save(es, asc)
    PROVE  stored' \in [Events -> {"no", "none", "local", "remote"}]
BY DEF TypeOK, Save, Assocs

\* Replacing the id of a local echo.
LEMMA ReplaceIdType ==
    ASSUME TypeOK, NEW e \in Events, ReplaceId(e)
    PROVE  /\ hasId' \subseteq Events
           /\ assoc' \in [Events -> Assocs]
           /\ listening' \subseteq Events
BY DEF TypeOK, ReplaceId, Assocs

\* Room.handleRemoteEcho.
LEMMA HandleRemoteEchoType ==
    ASSUME TypeOK, NEW e \in Events, HandleRemoteEcho(e)
    PROVE  /\ status' \in [Events -> Statuses]
           /\ encrypted' \subseteq Events
           /\ pending' \subseteq Events
           /\ txnToEvent' \subseteq Events
           /\ hasId' \subseteq Events
           /\ assoc' \in [Events -> Assocs]
           /\ listening' \subseteq Events
           /\ timeline' \in [Events -> Timelines]
           /\ stored' \in [Events -> {"no", "none", "local", "remote"}]
<1>1. /\ hasId' \subseteq Events
      /\ assoc' \in [Events -> Assocs]
      /\ listening' \subseteq Events
  BY ReplaceIdType DEF HandleRemoteEcho
<1>2. stored' \in [Events -> {"no", "none", "local", "remote"}]
  BY SaveType DEF HandleRemoteEcho, TypeOK, Assocs
<1>3. /\ status' \in [Events -> Statuses]
      /\ encrypted' \subseteq Events
      /\ pending' \subseteq Events
      /\ txnToEvent' \subseteq Events
      /\ timeline' \in [Events -> Timelines]
  BY DEF HandleRemoteEcho, TypeOK, Statuses, Timelines
<1> QED
  BY <1>1, <1>2, <1>3

\* Room.updatePendingEvent with status SENT.
LEMMA MarkSentType ==
    ASSUME TypeOK, NEW e \in Events, MarkSent(e)
    PROVE  /\ status' \in [Events -> Statuses]
           /\ encrypted' \subseteq Events
           /\ pending' \subseteq Events
           /\ txnToEvent' \subseteq Events
           /\ hasId' \subseteq Events
           /\ assoc' \in [Events -> Assocs]
           /\ listening' \subseteq Events
           /\ timeline' \in [Events -> Timelines]
           /\ stored' \in [Events -> {"no", "none", "local", "remote"}]
<1>1. CASE /\ status' = [status EXCEPT ![e] = "sent"]
           /\ ReplaceId(e)
           /\ UNCHANGED <<encrypted, pending, txnToEvent, timeline>>
           /\ Save({e}, assoc')
  <2>1. /\ hasId' \subseteq Events
        /\ assoc' \in [Events -> Assocs]
        /\ listening' \subseteq Events
    BY <1>1, ReplaceIdType
  <2>2. stored' \in [Events -> {"no", "none", "local", "remote"}]
    BY <1>1, <2>1, SaveType
  <2> QED
    BY <1>1, <2>1, <2>2 DEF TypeOK, Statuses, Timelines
<1>2. CASE HandleRemoteEcho(e)
  BY <1>2, HandleRemoteEchoType
<1>3. CASE UNCHANGED <<status, encrypted, roomVars, timeline, stored>>
  BY <1>3 DEF TypeOK, roomVars, Assocs, Timelines
<1> QED
  BY <1>1, <1>2, <1>3 DEF MarkSent

\* MatrixScheduler.processQueue on a queue q.
LEMMA ProcessQueueType ==
    ASSUME TypeOK, NEW q \in Seq(Events), ProcessQueue(q)
    PROVE  phase' \in Phases /\ cur' \in Events \cup {NoEvent} /\ attempts' \in Nat
<1>1. q # <<>> => Head(q) \in Events
  BY HeadOfQueue
<1> QED
  BY <1>1 DEF TypeOK, ProcessQueue, Phases

\* MatrixScheduler.queueEvent.
LEMMA QueueEventType ==
    ASSUME TypeOK, NEW e \in Events, QueueEvent(e)
    PROVE  /\ queue' \in Seq(Events)
           /\ behind' \subseteq Events
           /\ phase' \in Phases /\ cur' \in Events \cup {NoEvent} /\ attempts' \in Nat
<1>1. queue' \in Seq(Events) /\ queue' # <<>>
  BY AppendToQueue DEF TypeOK, QueueEvent
<1>2. Head(queue') \in Events
  BY <1>1, HeadOfQueue
<1> QED
  BY <1>1, <1>2 DEF TypeOK, QueueEvent, Phases

\* A failed attempt of the scheduler.
LEMMA SendFailedType ==
    ASSUME TypeOK, NEW retryable \in BOOLEAN, SendFailed(retryable)
    PROVE  /\ status' \in [Events -> Statuses]
           /\ task' \in [Events -> Tasks]
           /\ queue' \in Seq(Events)
           /\ behind' \subseteq Events
           /\ phase' \in Phases /\ cur' \in Events \cup {NoEvent} /\ attempts' \in Nat
           /\ stored' \in [Events -> {"no", "none", "local", "remote"}]
<1>1. CASE retryable /\ attempts + 1 <= RetryLimit
  BY <1>1 DEF TypeOK, SendFailed, Phases
<1>2. CASE ~(retryable /\ attempts + 1 <= RetryLimit)
  <2>1. stored' \in [Events -> {"no", "none", "local", "remote"}]
    BY <1>2, SaveType DEF TypeOK, SendFailed, Assocs
  <2>2. status' \in [Events -> Statuses] /\ task' \in [Events -> Tasks]
    BY <1>2 DEF TypeOK, SendFailed, Statuses, Tasks
  <2>3. queue' = <<>> /\ behind' = {} /\ phase' = "inactive" /\ cur' = NoEvent /\ attempts' = 0
    BY <1>2 DEF SendFailed
  <2> QED
    BY <2>1, <2>2, <2>3 DEF Phases
<1> QED
  BY <1>1, <1>2

\* The end of encryptAndSendEvent.
LEMMA DispatchType ==
    ASSUME TypeOK, NEW e \in Events, Dispatch(e), encrypted' \subseteq Events
    PROVE  TypeOK'
<1>1. status' \in [Events -> Statuses] /\ task' \in [Events -> Tasks]
  <2>1. CASE e \notin eventsBeingEncrypted
    BY <2>1 DEF Dispatch, TypeOK, Tasks
  <2>2. CASE e \in eventsBeingEncrypted /\ e \in Queueable
    <3>1. \E s \in Statuses : status' = [status EXCEPT ![e] = s]
      BY <2>2 DEF Dispatch, TypeOK, Statuses
    <3>2. \E t \in Tasks : task' = [task EXCEPT ![e] = t]
      BY <2>2 DEF Dispatch, TypeOK, Tasks
    <3> QED
      BY <3>1, <3>2 DEF TypeOK
  <2>3. CASE e \in eventsBeingEncrypted /\ e \notin Queueable
    <3>1. \E s \in Statuses : status' = [status EXCEPT ![e] = s]
      BY <2>3 DEF Dispatch, TypeOK, Statuses
    <3>2. task' = [task EXCEPT ![e] = "http"]
      BY <2>3 DEF Dispatch
    <3> QED
      BY <3>1, <3>2 DEF TypeOK, Tasks
  <2> QED
    BY <2>1, <2>2, <2>3
<1>2. /\ queue' \in Seq(Events)
      /\ behind' \subseteq Events
      /\ phase' \in Phases /\ cur' \in Events \cup {NoEvent} /\ attempts' \in Nat
  BY QueueEventType DEF Dispatch, schedVars, TypeOK
<1>3. stored' \in [Events -> {"no", "none", "local", "remote"}]
  BY SaveType DEF Dispatch, TypeOK, Assocs
<1>4. req' \in [Events -> {"none", "sent", "accepted"}]
  BY DEF Dispatch, TypeOK
<1>5. UNCHANGED <<roomVars, server, syncVars, bounds>> /\ eventsBeingEncrypted' \subseteq Events
  BY DEF Dispatch, TypeOK
<1> QED
  BY <1>1, <1>2, <1>3, <1>4, <1>5 DEF TypeOK, roomVars, syncVars, bounds

-----------------------------------------------------------------------------
(* Every step preserves the types.                                         *)

\* A step from a state of the invariant preserves the types.
LEMMA TypeStep ==
    ASSUME TypeOK, SendingInv, Next
    PROVE  TypeOK'
<1> USE SendingAssumption DEF clientVars, roomVars, schedVars, netVars, syncVars, bounds
<1>1. ASSUME NEW e \in Events, Send(e) PROVE TypeOK'
  BY <1>1 DEF Send, TypeOK, Save, Statuses, Tasks, Phases
<1>2. ASSUME NEW e \in Events, Resend(e) PROVE TypeOK'
  BY <1>2 DEF Resend, TypeOK, Save, Statuses, Tasks, Phases
<1>3. ASSUME NEW e \in Events, Cancel(e) PROVE TypeOK'
  BY <1>3, RemoveFromQueue DEF Cancel, TypeOK, Save, Statuses, SendingInv, SchedulerInv
<1>4. ASSUME NEW e \in Events, StartEncryption(e) PROVE TypeOK'
  BY <1>4 DEF StartEncryption, TypeOK, Save, Statuses, Tasks, Phases
<1>5. ASSUME NEW e \in Events, SkipEncryption(e) PROVE TypeOK'
  BY <1>5, DispatchType DEF SkipEncryption, TypeOK
<1>6. ASSUME NEW e \in Events, EncryptionDone(e) PROVE TypeOK'
  BY <1>6, DispatchType DEF EncryptionDone, TypeOK
<1>7. ASSUME NEW e \in Events, EncryptionFails(e) PROVE TypeOK'
  <2>1. stored' \in [Events -> {"no", "none", "local", "remote"}]
    BY <1>7, SaveType DEF EncryptionFails, TypeOK, Assocs
  <2>2. status' \in [Events -> Statuses]
    <3>1. status' = status \/ status' = [status EXCEPT ![e] = "not_sent"]
      BY <1>7 DEF EncryptionFails
    <3> QED
      BY <3>1 DEF TypeOK, Statuses
  <2>3. /\ task' \in [Events -> Tasks] /\ eventsBeingEncrypted' \subseteq Events
        /\ errors' \in Nat
    BY <1>7 DEF EncryptionFails, TypeOK, Tasks
  <2>4. UNCHANGED <<encrypted, roomVars, schedVars, netVars, syncVars, restarts>>
    BY <1>7 DEF EncryptionFails
  <2> QED
    BY <2>1, <2>2, <2>3, <2>4 DEF TypeOK
<1>8. ASSUME ProcessEvent PROVE TypeOK'
  <2>0. cur \in Events
    BY <1>8 DEF ProcessEvent, SendingInv, SchedulerInv
  <2>1. CASE SendFailed(TRUE) /\ UNCHANGED <<eventsBeingEncrypted, encrypted, roomVars, req>>
    BY <1>8, <2>1, SendFailedType DEF ProcessEvent, TypeOK
  <2>2. CASE /\ status' = [status EXCEPT ![cur] = "sending"]
             /\ req' = [req EXCEPT ![cur] = "sent"]
             /\ phase' = "http"
             /\ UNCHANGED <<task, queue, behind, cur, attempts>>
             /\ UNCHANGED <<eventsBeingEncrypted, encrypted, roomVars>>
             /\ IF status' # status THEN Save({cur}, assoc) ELSE UNCHANGED stored
    <3>1. stored' \in [Events -> {"no", "none", "local", "remote"}]
      BY <2>2, SaveType DEF TypeOK, Assocs
    <3> QED
      BY <1>8, <2>0, <2>2, <3>1 DEF ProcessEvent, TypeOK, Statuses, Phases
  <2> QED
    BY <1>8, <2>1, <2>2 DEF ProcessEvent
<1>9. ASSUME RetryTimer PROVE TypeOK'
  BY <1>9, ProcessQueueType DEF RetryTimer, TypeOK
<1>10. ASSUME NEW e \in Events, ServerAccepts(e) PROVE TypeOK'
  BY <1>10 DEF ServerAccepts, TypeOK, Save, Statuses, Tasks, Phases
<1>11. ASSUME NEW e \in Events, DirectResponse(e) PROVE TypeOK'
  BY <1>11, MarkSentType DEF DirectResponse, TypeOK, Tasks, Assocs, Timelines
<1>12. ASSUME NEW e \in Events, DirectFailure(e) PROVE TypeOK'
  BY <1>12 DEF DirectFailure, TypeOK, Save, Statuses, Tasks, Phases
<1>13. ASSUME QueuedResponse PROVE TypeOK'
  <2>1. cur \in Events /\ queue # <<>>
    BY <1>13 DEF QueuedResponse, SendingInv, SchedulerInv, QueuedEvents, ToSet
  <2>2. queue' \in Seq(Events)
    BY <1>13, <2>1, TailOfQueue DEF QueuedResponse, TypeOK
  <2>3. phase' \in Phases /\ cur' \in Events \cup {NoEvent} /\ attempts' \in Nat
    BY <1>13, <2>2, ProcessQueueType DEF QueuedResponse
  <2>4. /\ status' \in [Events -> Statuses]
        /\ encrypted' \subseteq Events
        /\ pending' \subseteq Events
        /\ txnToEvent' \subseteq Events
        /\ hasId' \subseteq Events
        /\ assoc' \in [Events -> Assocs]
        /\ listening' \subseteq Events
        /\ timeline' \in [Events -> Timelines]
        /\ stored' \in [Events -> {"no", "none", "local", "remote"}]
    BY <1>13, <2>1, MarkSentType DEF QueuedResponse
  <2> QED
    BY <1>13, <2>1, <2>2, <2>3, <2>4 DEF QueuedResponse, TypeOK, Tasks, Assocs, Timelines
<1>14. ASSUME NEW retryable \in BOOLEAN, QueuedFailure(retryable) PROVE TypeOK'
  <2>1. SendFailed(retryable)
    BY <1>14 DEF QueuedFailure
  <2>2. req' \in [Events -> {"none", "sent", "accepted"}] /\ errors' \in Nat
    <3>1. req' = [req EXCEPT ![cur] = "none"] /\ errors' = errors + 1
      BY <1>14 DEF QueuedFailure
    <3>2. req \in [Events -> {"none", "sent", "accepted"}] /\ errors \in Nat
      BY DEF TypeOK
    <3>3. req' \in [Events -> {"none", "sent", "accepted"}]
      BY <3>1, <3>2
    <3>4. errors' \in Nat
      BY <3>1, <3>2
    <3> QED
      BY <3>3, <3>4
  <2>3. UNCHANGED <<eventsBeingEncrypted, encrypted, roomVars, server, syncVars, restarts>>
    BY <1>14 DEF QueuedFailure
  <2>4. /\ status' \in [Events -> Statuses]
        /\ task' \in [Events -> Tasks]
        /\ queue' \in Seq(Events)
        /\ behind' \subseteq Events
        /\ phase' \in Phases /\ cur' \in Events \cup {NoEvent} /\ attempts' \in Nat
        /\ stored' \in [Events -> {"no", "none", "local", "remote"}]
    BY <2>1, SendFailedType
  <2> QED
    BY <2>2, <2>3, <2>4 DEF TypeOK
<1>15. ASSUME NEW hasTxn \in EchoTxn, Echo(hasTxn) PROVE TypeOK'
  <2> DEFINE e == server[synced + 1]
  <2>1. e \in Events
    BY <1>15 DEF Echo, TypeOK
  <2>2. CASE HandleRemoteEcho(e)
    BY <1>15, <2>1, <2>2, HandleRemoteEchoType DEF Echo, TypeOK, Assocs, Timelines
  <2>3. CASE ~HandleRemoteEcho(e)
    BY <1>15, <2>1, <2>3 DEF Echo, TypeOK
  <2> QED
    BY <2>2, <2>3
<1>16. ASSUME Restart PROVE TypeOK'
  BY <1>16 DEF Restart, TypeOK, Save, Statuses, Tasks, Phases
<1>17. ASSUME NEW e \in Events, Reload(e) PROVE TypeOK'
  BY <1>17 DEF Reload, TypeOK, Save, Statuses, Tasks, Phases
<1> QED
  BY <1>1, <1>2, <1>3, <1>4, <1>5, <1>6, <1>7, <1>8, <1>9, <1>10, <1>11, <1>12, <1>13, <1>14,
     <1>15, <1>16, <1>17 DEF Next, User, Encryption, Answer


-----------------------------------------------------------------------------
(* What the shared operators do to the variables of SendingInv.            *)

\* Marking an event as sent changes at most its status, to SENT or to none.
LEMMA MarkSentEffect ==
    ASSUME NEW e \in Events, MarkSent(e)
    PROVE  /\ \/ status' = status
              \/ status' = [status EXCEPT ![e] = "sent"]
              \/ status' = [status EXCEPT ![e] = "null"]
           /\ pending' \subseteq pending
BY DEF MarkSent, HandleRemoteEcho, roomVars

\* A failed attempt leaves all as it is, for another attempt, or empties the
\* queue and ends the sends that wait for it.
LEMMA SendFailedEffect ==
    ASSUME TypeOK, NEW retryable \in BOOLEAN, SendFailed(retryable)
    PROVE  \/ phase' = "backoff" /\ UNCHANGED <<status, task, queue, cur>>
           \/ /\ queue' = <<>> /\ phase' = "inactive" /\ cur' = NoEvent
              /\ \A e \in Events : status'[e] = status[e]
                     \/ (e \in ToSet(queue) /\ status'[e] = "not_sent")
              /\ \A e \in Events : task'[e] = task[e]
                     \/ (e \in ToSet(queue) /\ task'[e] = "idle")
<1>1. CASE retryable /\ attempts + 1 <= RetryLimit
  BY <1>1 DEF SendFailed
<1>2. CASE ~(retryable /\ attempts + 1 <= RetryLimit)
  <2>1. queue' = <<>> /\ phase' = "inactive" /\ cur' = NoEvent
    BY <1>2 DEF SendFailed
  <2> DEFINE rejected == {e \in ToSet(queue) : task[e] = "queued"}
             unsent   == {e \in rejected : CanMove(e, "not_sent")}
  <2>2. task' = [e \in Events |-> IF e \in rejected THEN "idle" ELSE task[e]]
    BY <1>2 DEF SendFailed
  <2>3. status' = [e \in Events |-> IF e \in unsent THEN "not_sent" ELSE status[e]]
    BY <1>2 DEF SendFailed
  <2>4. ASSUME NEW e \in Events
        PROVE  status'[e] = status[e] \/ (e \in ToSet(queue) /\ status'[e] = "not_sent")
    BY <2>3
  <2>5. ASSUME NEW e \in Events
        PROVE  task'[e] = task[e] \/ (e \in ToSet(queue) /\ task'[e] = "idle")
    BY <2>2
  <2> QED
    BY <2>1, <2>4, <2>5
<1> QED
  BY <1>1, <1>2

\* The empty queue.
LEMMA EmptyQueue == IsInjective(<<>>) /\ ToSet(<<>>) = {}
BY DEF IsInjective, ToSet

\* A step that leaves the scheduler alone preserves its invariant when it
\* changes no queued event and not the entry being processed.
LEMMA SchedulerFrame ==
    ASSUME TypeOK, SendingInv, UNCHANGED <<queue, phase, cur>>,
           \A f \in QueuedEvents \cup {cur} : f \in Events =>
               task'[f] = task[f] /\ status'[f] = status[f]
    PROVE  SchedulerInv'
<1>1. QueuedEvents \subseteq Events
  BY QueueInSet DEF TypeOK, QueuedEvents
<1>2. phase # "inactive" => cur \in Events
  BY SendingAssumption DEF SendingInv, SchedulerInv
<1>3. QueuedEvents' = QueuedEvents
  BY DEF QueuedEvents
<1> QED
  BY <1>1, <1>2, <1>3 DEF SendingInv, SchedulerInv

\* An event handed to the scheduler is a new entry at the end of the queue.
LEMMA DispatchScheduler ==
    ASSUME TypeOK, SendingInv, NEW e \in Events, Dispatch(e),
           task[e] \in {"checking", "encrypting"}
    PROVE  SchedulerInv'
<1>1. e \notin QueuedEvents /\ (phase # "inactive" => e # cur)
  BY DEF SendingInv, SchedulerInv
<1>2. CASE e \notin eventsBeingEncrypted \/ e \notin Queueable
  <2>1. UNCHANGED <<queue, phase, cur>>
    BY <1>2 DEF Dispatch, schedVars
  <2>2. \A f \in Events \ {e} : task'[f] = task[f] /\ status'[f] = status[f]
    BY <1>2 DEF Dispatch, TypeOK
  <2>3. e \in QueuedEvents \cup {cur} => FALSE
    BY <1>1, SendingAssumption DEF SendingInv, SchedulerInv
  <2> QED
    BY <2>1, <2>2, <2>3, SchedulerFrame
<1>3. CASE e \in eventsBeingEncrypted /\ e \in Queueable
  <2>1. QueueEvent(e)
    BY <1>3 DEF Dispatch
  <2>2. /\ queue' = Append(queue, e)
        /\ queue' # <<>>
        /\ QueuedEvents' = QueuedEvents \cup {e}
        /\ IsInjective(queue')
        /\ queue # <<>> => Head(queue') = Head(queue)
        /\ queue = <<>> => Head(queue') = e
    BY <1>1, <2>1, AppendToQueue DEF QueueEvent, TypeOK, QueuedEvents, SendingInv, SchedulerInv
  <2>3. /\ status'[e] \in {"sending", "queued", "null"} /\ task'[e] \in {"queued", "idle"}
        /\ \A f \in Events \ {e} : task'[f] = task[f] /\ status'[f] = status[f]
    BY <1>3 DEF Dispatch, TypeOK, SendingInv, TaskInv
  <2>4. QueuedEvents \subseteq Events
    BY QueueInSet DEF TypeOK, QueuedEvents
  <2>5. CASE phase = "inactive"
    <3>1. queue = <<>> /\ cur' = e /\ phase' = "turn"
      BY <2>1, <2>2, <2>5 DEF QueueEvent, SendingInv, SchedulerInv
    <3>2. QueuedEvents = {}
      BY <3>1, EmptyQueue DEF QueuedEvents
    <3> QED
      BY <1>3, <2>2, <2>3, <3>1, <3>2 DEF SchedulerInv
  <2>6. CASE phase # "inactive"
    <3>1. UNCHANGED <<phase, cur>> /\ cur \in Events /\ cur # e
      BY <1>1, <2>1, <2>6, SendingAssumption DEF QueueEvent, SendingInv, SchedulerInv
    <3>2. cur \in QueuedEvents => queue # <<>>
      BY EmptyQueue DEF QueuedEvents
    <3> QED
      BY <1>3, <2>2, <2>3, <2>4, <2>6, <3>1, <3>2 DEF SendingInv, SchedulerInv
  <2> QED
    BY <2>5, <2>6
<1> QED
  BY <1>2, <1>3

-----------------------------------------------------------------------------
(* Every step preserves the invariant.                                     *)

\* The invariant of the suspended sends.
LEMMA TaskStep ==
    ASSUME TypeOK, SendingInv, Next
    PROVE  TaskInv'
<1> USE DEF clientVars, roomVars, schedVars, netVars, syncVars, bounds
<1>1. ASSUME NEW e \in Events, Send(e) PROVE TaskInv'
  BY <1>1 DEF Send, TypeOK, SendingInv, TaskInv
<1>2. ASSUME NEW e \in Events, Resend(e) PROVE TaskInv'
  BY <1>2 DEF Resend, TypeOK, SendingInv, TaskInv
<1>3. ASSUME NEW e \in Events, Cancel(e) PROVE TaskInv'
  BY <1>3 DEF Cancel, Cancellable, TypeOK, SendingInv, TaskInv
<1>4. ASSUME NEW e \in Events, StartEncryption(e) PROVE TaskInv'
  <2>1. status[e] = "sending" /\ e \in eventsBeingEncrypted
    BY <1>4 DEF StartEncryption, CanMove, Allowed, SendingInv, TaskInv
  <2> QED
    BY <1>4, <2>1 DEF StartEncryption, TypeOK, SendingInv, TaskInv
<1>5. ASSUME NEW e \in Events, SkipEncryption(e) PROVE TaskInv'
  BY <1>5 DEF SkipEncryption, Dispatch, TypeOK, SendingInv, TaskInv
<1>6. ASSUME NEW e \in Events, EncryptionDone(e) PROVE TaskInv'
  <2>1. \A f \in Events \ {e} : task'[f] = task[f] /\ status'[f] = status[f]
    BY <1>6 DEF EncryptionDone, Dispatch, TypeOK
  <2>2. /\ e \notin eventsBeingEncrypted' /\ eventsBeingEncrypted' \subseteq eventsBeingEncrypted
        /\ pending' = pending
    BY <1>6 DEF EncryptionDone, Dispatch
  <2>3. task'[e] \in {"idle", "queued", "http"}
    BY <1>6 DEF EncryptionDone, Dispatch, TypeOK
  <2>4. status'[e] # "encrypting" /\ (status'[e] = "cancelled" => status[e] = "cancelled")
    <3>1. CASE e \notin eventsBeingEncrypted
      BY <1>6, <3>1 DEF EncryptionDone, Dispatch, SendingInv, TaskInv
    <3>2. CASE e \in eventsBeingEncrypted
      <4>1. status[e] \in {"encrypting", "null"}
        BY <1>6, <3>2 DEF EncryptionDone, SendingInv, TaskInv
      <4>2. status'[e] \in {"sending", "queued", "null"}
        BY <1>6, <3>2, <4>1 DEF EncryptionDone, Dispatch, TypeOK
      <4> QED
        BY <4>2
    <3> QED
      BY <3>1, <3>2
  <2>5. \A f \in Events \ {e} :
            f \in eventsBeingEncrypted' <=> f \in eventsBeingEncrypted
    BY <1>6 DEF EncryptionDone, Dispatch
  <2> QED
    BY <2>1, <2>2, <2>3, <2>4, <2>5 DEF TypeOK, SendingInv, TaskInv
<1>7. ASSUME NEW e \in Events, EncryptionFails(e) PROVE TaskInv'
  BY <1>7 DEF EncryptionFails, CanMove, Allowed, TypeOK, SendingInv, TaskInv
<1>8. ASSUME ProcessEvent PROVE TaskInv'
  <2>1. cur \in Events /\ cur \in Queueable
    BY <1>8, SendingAssumption DEF ProcessEvent, SendingInv, SchedulerInv
  <2>2. CASE /\ CanMove(cur, "sending") \/ status[cur] = "sending"
             /\ status' = [status EXCEPT ![cur] = "sending"]
             /\ req' = [req EXCEPT ![cur] = "sent"]
             /\ phase' = "http"
             /\ UNCHANGED <<task, queue, behind, cur, attempts>>
             /\ UNCHANGED <<eventsBeingEncrypted, encrypted, roomVars>>
    BY <1>8, <2>1, <2>2 DEF ProcessEvent, SendingInv, SchedulerInv, TaskInv
  <2>3. CASE SendFailed(TRUE) /\ UNCHANGED <<eventsBeingEncrypted, encrypted, roomVars, req>>
    <3>1. \/ phase' = "backoff" /\ UNCHANGED <<status, task, queue, cur>>
          \/ /\ queue' = <<>> /\ phase' = "inactive" /\ cur' = NoEvent
             /\ \A e \in Events : status'[e] = status[e]
                    \/ (e \in QueuedEvents /\ status'[e] = "not_sent")
             /\ \A e \in Events : task'[e] = task[e]
                    \/ (e \in QueuedEvents /\ task'[e] = "idle")
      BY <1>8, <2>3, SendFailedEffect DEF ProcessEvent, QueuedEvents
    <3> QED
      BY <1>8, <2>3, <3>1 DEF ProcessEvent, TypeOK, SendingInv, SchedulerInv, RequestInv, TaskInv
  <2> QED
    BY <1>8, <2>2, <2>3 DEF ProcessEvent
<1>9. ASSUME RetryTimer PROVE TaskInv'
  BY <1>9 DEF RetryTimer, SendingInv, TaskInv
<1>10. ASSUME NEW e \in Events, ServerAccepts(e) PROVE TaskInv'
  BY <1>10 DEF ServerAccepts, SendingInv, TaskInv
<1>11. ASSUME NEW e \in Events, DirectResponse(e) PROVE TaskInv'
  BY <1>11, MarkSentEffect DEF DirectResponse, TypeOK, SendingInv, TaskInv
<1>12. ASSUME NEW e \in Events, DirectFailure(e) PROVE TaskInv'
  BY <1>12 DEF DirectFailure, SendingInv, TaskInv
<1>13. ASSUME QueuedResponse PROVE TaskInv'
  <2>1. cur \in Events /\ cur \in QueuedEvents /\ queue # <<>> /\ cur = Head(queue)
    BY <1>13, EmptyQueue, SendingAssumption DEF QueuedResponse, SendingInv, SchedulerInv,
       QueuedEvents
  <2>2. /\ \/ status' = status
           \/ status' = [status EXCEPT ![cur] = "sent"]
           \/ status' = [status EXCEPT ![cur] = "null"]
        /\ pending' \subseteq pending
    BY <1>13, <2>1, MarkSentEffect DEF QueuedResponse
  <2> QED
    BY <1>13, <2>1, <2>2 DEF QueuedResponse, TypeOK, SendingInv, SchedulerInv, RequestInv, TaskInv
<1>14. ASSUME NEW retryable \in BOOLEAN, QueuedFailure(retryable) PROVE TaskInv'
  BY <1>14, SendFailedEffect DEF QueuedFailure, SendingInv, SchedulerInv, TaskInv, QueuedEvents
<1>15. ASSUME NEW hasTxn \in EchoTxn, Echo(hasTxn) PROVE TaskInv'
  <2> DEFINE e == server[synced + 1]
  <2>1. e \in Events
    BY <1>15 DEF Echo, TypeOK
  <2>2. status' = status \/ status' = [status EXCEPT ![e] = "null"]
    BY <1>15 DEF Echo, HandleRemoteEcho
  <2>3. pending' \subseteq pending
    BY <1>15 DEF Echo, HandleRemoteEcho
  <2>4. \/ status'[e] = "null"
        \/ UNCHANGED <<status, eventsBeingEncrypted>>
    BY <1>15, <2>1 DEF Echo, HandleRemoteEcho, TypeOK
  <2>5. /\ eventsBeingEncrypted' \subseteq eventsBeingEncrypted /\ UNCHANGED task
        /\ \A f \in Events \ {e} : /\ f \in eventsBeingEncrypted => f \in eventsBeingEncrypted'
                                 /\ status'[f] = status[f]
    BY <1>15, <2>1, <2>2 DEF Echo, TypeOK
  <2> HIDE DEF e
  <2>6. CASE status'[e] = "null"
    BY <2>1, <2>3, <2>5, <2>6 DEF SendingInv, TaskInv
  <2>7. CASE UNCHANGED <<status, eventsBeingEncrypted>>
    BY <2>3, <2>5, <2>7 DEF SendingInv, TaskInv
  <2> QED
    BY <2>4, <2>6, <2>7
<1>16. ASSUME Restart PROVE TaskInv'
  BY <1>16 DEF Restart, TaskInv
<1>17. ASSUME NEW e \in Events, Reload(e) PROVE TaskInv'
  BY <1>17 DEF Reload, SendingInv, TaskInv
<1> QED
  BY <1>1, <1>2, <1>3, <1>4, <1>5, <1>6, <1>7, <1>8, <1>9, <1>10, <1>11, <1>12, <1>13, <1>14,
     <1>15, <1>16, <1>17 DEF Next, User, Encryption, Answer


\* The invariant of the requests.
LEMMA RequestStep ==
    ASSUME TypeOK, SendingInv, Next
    PROVE  RequestInv'
<1> USE DEF clientVars, roomVars, schedVars, netVars, syncVars, bounds
<1>1. ASSUME NEW e \in Events, Send(e) PROVE RequestInv'
  BY <1>1 DEF Send, SendingInv, RequestInv
<1>2. ASSUME NEW e \in Events, Resend(e) PROVE RequestInv'
  BY <1>2 DEF Resend, SendingInv, RequestInv
<1>3. ASSUME NEW e \in Events, Cancel(e) PROVE RequestInv'
  BY <1>3 DEF Cancel, Cancellable, SendingInv, RequestInv
<1>4. ASSUME NEW e \in Events, StartEncryption(e) PROVE RequestInv'
  BY <1>4 DEF StartEncryption, SendingInv, RequestInv
<1>5. ASSUME NEW e \in Events, SkipEncryption(e) PROVE RequestInv'
  BY <1>5 DEF SkipEncryption, Dispatch, QueueEvent, TypeOK, SendingInv, RequestInv, TaskInv
<1>6. ASSUME NEW e \in Events, EncryptionDone(e) PROVE RequestInv'
  BY <1>6 DEF EncryptionDone, Dispatch, QueueEvent, TypeOK, SendingInv, RequestInv, TaskInv
<1>7. ASSUME NEW e \in Events, EncryptionFails(e) PROVE RequestInv'
  BY <1>7 DEF EncryptionFails, SendingInv, RequestInv
<1>8. ASSUME ProcessEvent PROVE RequestInv'
  <2>1. cur \in Events /\ cur \in Queueable
    BY <1>8, SendingAssumption DEF ProcessEvent, SendingInv, SchedulerInv
  <2>2. CASE /\ CanMove(cur, "sending") \/ status[cur] = "sending"
             /\ status' = [status EXCEPT ![cur] = "sending"]
             /\ req' = [req EXCEPT ![cur] = "sent"]
             /\ phase' = "http"
             /\ UNCHANGED <<task, queue, behind, cur, attempts>>
             /\ UNCHANGED <<eventsBeingEncrypted, encrypted, roomVars>>
    BY <1>8, <2>1, <2>2 DEF SendingInv, RequestInv
  <2>3. CASE SendFailed(TRUE) /\ UNCHANGED <<eventsBeingEncrypted, encrypted, roomVars, req>>
    <3>1. \/ phase' = "backoff" /\ UNCHANGED <<status, task, queue, cur>>
          \/ /\ queue' = <<>> /\ phase' = "inactive" /\ cur' = NoEvent
             /\ \A e \in Events : status'[e] = status[e]
                    \/ (e \in QueuedEvents /\ status'[e] = "not_sent")
             /\ \A e \in Events : task'[e] = task[e]
                    \/ (e \in QueuedEvents /\ task'[e] = "idle")
      BY <1>8, <2>3, SendFailedEffect DEF ProcessEvent, QueuedEvents
    <3> QED
      BY <1>8, <2>3, <3>1 DEF ProcessEvent, TypeOK, SendingInv, SchedulerInv, RequestInv, TaskInv
  <2> QED
    BY <1>8, <2>2, <2>3 DEF ProcessEvent
<1>9. ASSUME RetryTimer PROVE RequestInv'
  BY <1>9 DEF RetryTimer, SendingInv, RequestInv
<1>10. ASSUME NEW e \in Events, ServerAccepts(e) PROVE RequestInv'
  BY <1>10 DEF ServerAccepts, SendingInv, RequestInv
<1>11. ASSUME NEW e \in Events, DirectResponse(e) PROVE RequestInv'
  BY <1>11, MarkSentEffect DEF DirectResponse, TypeOK, SendingInv, RequestInv
<1>12. ASSUME NEW e \in Events, DirectFailure(e) PROVE RequestInv'
  BY <1>12 DEF DirectFailure, TypeOK, SendingInv, RequestInv
<1>13. ASSUME QueuedResponse PROVE RequestInv'
  <2>1. cur \in Events /\ cur \in QueuedEvents /\ queue # <<>> /\ cur = Head(queue)
    BY <1>13, EmptyQueue, SendingAssumption DEF QueuedResponse, SendingInv, SchedulerInv,
       QueuedEvents
  <2>2. /\ \/ status' = status
           \/ status' = [status EXCEPT ![cur] = "sent"]
           \/ status' = [status EXCEPT ![cur] = "null"]
        /\ pending' \subseteq pending
    BY <1>13, <2>1, MarkSentEffect DEF QueuedResponse
  <2> QED
    BY <1>13, <2>1, <2>2 DEF QueuedResponse, TypeOK, SendingInv, SchedulerInv, RequestInv, TaskInv
<1>14. ASSUME NEW retryable \in BOOLEAN, QueuedFailure(retryable) PROVE RequestInv'
  BY <1>14, SendFailedEffect DEF QueuedFailure, TypeOK, SendingInv, SchedulerInv, RequestInv,
     QueuedEvents
<1>15. ASSUME NEW hasTxn \in EchoTxn, Echo(hasTxn) PROVE RequestInv'
  <2> DEFINE e == server[synced + 1]
  <2>1. e \in Events
    BY <1>15 DEF Echo, TypeOK
  <2>2. status' = status \/ status' = [status EXCEPT ![e] = "null"]
    BY <1>15 DEF Echo, HandleRemoteEcho
  <2>3. pending' \subseteq pending
    BY <1>15 DEF Echo, HandleRemoteEcho
  <2> QED
    BY <1>15, <2>1, <2>2, <2>3 DEF Echo, TypeOK, SendingInv, RequestInv
<1>16. ASSUME Restart PROVE RequestInv'
  BY <1>16 DEF Restart, RequestInv
<1>17. ASSUME NEW e \in Events, Reload(e) PROVE RequestInv'
  BY <1>17 DEF Reload, SendingInv, RequestInv
<1> QED
  BY <1>1, <1>2, <1>3, <1>4, <1>5, <1>6, <1>7, <1>8, <1>9, <1>10, <1>11, <1>12, <1>13, <1>14,
     <1>15, <1>16, <1>17 DEF Next, User, Encryption, Answer


\* The invariant of the scheduler.
LEMMA SchedulerStep ==
    ASSUME TypeOK, SendingInv, Next
    PROVE  SchedulerInv'
<1> USE DEF clientVars, roomVars, schedVars, netVars, syncVars, bounds
<1>1. ASSUME NEW e \in Events, Send(e) PROVE SchedulerInv'
  BY <1>1 DEF Send, SendingInv, SchedulerInv, QueuedEvents
<1>2. ASSUME NEW e \in Events, Resend(e) PROVE SchedulerInv'
  BY <1>2 DEF Resend, SendingInv, SchedulerInv, QueuedEvents
<1>3. ASSUME NEW e \in Events, Cancel(e) PROVE SchedulerInv'
  <2>1. \A f \in Events \ {e} : task'[f] = task[f] /\ status'[f] = status[f]
    BY <1>3 DEF Cancel, TypeOK
  <2>2. status'[e] = "cancelled" /\ UNCHANGED <<task, phase, cur>>
    BY <1>3 DEF Cancel, TypeOK
  <2>3. CASE status[e] # "queued"
    <3>1. UNCHANGED queue /\ e \notin QueuedEvents /\ (phase # "inactive" => e # cur)
      BY <1>3, <2>3 DEF Cancel, Cancellable, SendingInv, SchedulerInv
    <3>2. e \notin QueuedEvents \cup {cur}
      BY <3>1, SendingAssumption DEF SendingInv, SchedulerInv
    <3> QED
      BY <2>1, <2>2, <3>1, <3>2, SchedulerFrame
  <2>4. CASE status[e] = "queued"
    <3>1. queue' = RemoveFirst(queue, e) /\ IsInjective(queue)
      BY <1>3, <2>4 DEF Cancel, SendingInv, SchedulerInv
    <3>2. /\ QueuedEvents' = QueuedEvents \ {e} /\ IsInjective(queue')
          /\ queue # <<>> /\ Head(queue) # e => queue' # <<>> /\ Head(queue') = Head(queue)
      BY <3>1, RemoveFromQueue DEF TypeOK, QueuedEvents
    <3>3. QueuedEvents \subseteq Events
      BY QueueInSet DEF TypeOK, QueuedEvents
    <3>4. cur \in QueuedEvents => queue # <<>>
      BY EmptyQueue DEF QueuedEvents
    <3>5. phase = "http" => cur # e
      BY <2>4 DEF SendingInv, SchedulerInv
    <3>6. phase = "inactive" => queue' = <<>>
      <4> SUFFICES ASSUME phase = "inactive" PROVE queue' = <<>>
        OBVIOUS
      <4>1. queue = <<>>
        BY DEF SendingInv, SchedulerInv
      <4> QED
        BY <3>1, <4>1 DEF RemoveFirst
    <3> QED
      BY <2>1, <2>2, <3>2, <3>3, <3>4, <3>5, <3>6, SendingAssumption DEF TypeOK, SendingInv,
         SchedulerInv
  <2> QED
    BY <2>3, <2>4
<1>4. ASSUME NEW e \in Events, StartEncryption(e) PROVE SchedulerInv'
  BY <1>4 DEF StartEncryption, SendingInv, SchedulerInv, QueuedEvents
<1>5. ASSUME NEW e \in Events, SkipEncryption(e) PROVE SchedulerInv'
  BY <1>5, DispatchScheduler DEF SkipEncryption
<1>6. ASSUME NEW e \in Events, EncryptionDone(e) PROVE SchedulerInv'
  BY <1>6, DispatchScheduler DEF EncryptionDone
<1>7. ASSUME NEW e \in Events, EncryptionFails(e) PROVE SchedulerInv'
  BY <1>7 DEF EncryptionFails, SendingInv, SchedulerInv, QueuedEvents
<1>8. ASSUME ProcessEvent PROVE SchedulerInv'
  <2>1. cur \in Events /\ cur \in Queueable
    BY <1>8, SendingAssumption DEF ProcessEvent, SendingInv, SchedulerInv
  <2>2. CASE /\ CanMove(cur, "sending") \/ status[cur] = "sending"
             /\ status' = [status EXCEPT ![cur] = "sending"]
             /\ req' = [req EXCEPT ![cur] = "sent"]
             /\ phase' = "http"
             /\ UNCHANGED <<task, queue, behind, cur, attempts>>
             /\ UNCHANGED <<eventsBeingEncrypted, encrypted, roomVars>>
    <3>1. cur \in QueuedEvents
      BY <1>8, <2>2 DEF ProcessEvent, CanMove, Allowed, SendingInv, SchedulerInv
    <3>2. QueuedEvents' = QueuedEvents /\ QueuedEvents \subseteq Events
      BY <2>2, QueueInSet DEF QueuedEvents, TypeOK
    <3> QED
      BY <2>1, <2>2, <3>1, <3>2 DEF TypeOK, SendingInv, SchedulerInv
  <2>3. CASE SendFailed(TRUE) /\ UNCHANGED <<eventsBeingEncrypted, encrypted, roomVars, req>>
    <3>1. \/ phase' = "backoff" /\ UNCHANGED <<status, task, queue, cur>>
          \/ queue' = <<>> /\ phase' = "inactive" /\ cur' = NoEvent
      BY <1>8, <2>3, SendFailedEffect DEF ProcessEvent
    <3>2. CASE phase' = "backoff" /\ UNCHANGED <<status, task, queue, cur>>
      <4>1. QueuedEvents' = QueuedEvents
        BY <3>2 DEF QueuedEvents
      <4> QED
        BY <1>8, <3>2, <4>1 DEF ProcessEvent, SendingInv, SchedulerInv
    <3>3. CASE queue' = <<>> /\ phase' = "inactive" /\ cur' = NoEvent
      <4>1. QueuedEvents' = {} /\ IsInjective(queue')
        BY <3>3, EmptyQueue DEF QueuedEvents
      <4> QED
        BY <3>3, <4>1 DEF SchedulerInv
    <3> QED
      BY <3>1, <3>2, <3>3
  <2> QED
    BY <1>8, <2>2, <2>3 DEF ProcessEvent
<1>9. ASSUME RetryTimer PROVE SchedulerInv'
  <2>3. queue' = queue /\ queue' \in Seq(Events) /\ IsInjective(queue') /\ QueuedEvents' = QueuedEvents
    BY <1>9 DEF RetryTimer, TypeOK, QueuedEvents, SendingInv, SchedulerInv
  <2>5. ProcessQueue(queue') /\ UNCHANGED <<status, task>>
    BY <1>9 DEF RetryTimer
  <2>6. \A f \in QueuedEvents' : /\ f \in Queueable
                                 /\ status'[f] \in {"sending", "queued", "null"}
                                 /\ task'[f] \in {"queued", "idle"}
    BY <2>3, <2>5 DEF SendingInv, SchedulerInv
  <2>7. CASE queue' = <<>>
    <3>1. QueuedEvents' = {} /\ phase' = "inactive" /\ cur' = NoEvent
      BY <2>5, <2>7, EmptyQueue DEF QueuedEvents, ProcessQueue
    <3> QED
      BY <2>3, <2>7, <3>1 DEF SchedulerInv
  <2>8. CASE queue' # <<>>
    <3>1. phase' = "turn" /\ cur' = Head(queue') /\ cur' \in QueuedEvents'
      BY <2>3, <2>5, <2>8, HeadOfQueue DEF QueuedEvents, ProcessQueue
    <3> QED
      BY <2>3, <2>6, <2>8, <3>1 DEF SchedulerInv
  <2> QED
    BY <2>7, <2>8
<1>10. ASSUME NEW e \in Events, ServerAccepts(e) PROVE SchedulerInv'
  BY <1>10 DEF ServerAccepts, SendingInv, SchedulerInv, QueuedEvents
<1>11. ASSUME NEW e \in Events, DirectResponse(e) PROVE SchedulerInv'
  <2>1. \A f \in Events \ {e} : task'[f] = task[f] /\ status'[f] = status[f]
    BY <1>11, MarkSentEffect DEF DirectResponse, TypeOK
  <2>2. e \notin QueuedEvents \cup {cur} /\ UNCHANGED <<queue, phase, cur>>
    BY <1>11, SendingAssumption DEF DirectResponse, SendingInv, SchedulerInv
  <2> QED
    BY <2>1, <2>2, SchedulerFrame
<1>12. ASSUME NEW e \in Events, DirectFailure(e) PROVE SchedulerInv'
  BY <1>12 DEF DirectFailure, SendingInv, SchedulerInv, QueuedEvents
<1>13. ASSUME QueuedResponse PROVE SchedulerInv'
  <2>1. cur \in Events /\ cur \in QueuedEvents /\ queue # <<>> /\ cur = Head(queue)
    BY <1>13, EmptyQueue, SendingAssumption DEF QueuedResponse, SendingInv, SchedulerInv,
       QueuedEvents
  <2>2. /\ \/ status' = status
           \/ status' = [status EXCEPT ![cur] = "sent"]
           \/ status' = [status EXCEPT ![cur] = "null"]
        /\ pending' \subseteq pending
    BY <1>13, <2>1, MarkSentEffect DEF QueuedResponse
  <2>3. /\ queue' \in Seq(Events) /\ IsInjective(queue')
        /\ QueuedEvents' \subseteq QueuedEvents \ {cur}
    BY <1>13, <2>1, TailOfQueue DEF QueuedResponse, TypeOK, QueuedEvents, SendingInv, SchedulerInv
  <2>4. \A f \in Events \ {cur} : task'[f] = task[f] /\ status'[f] = status[f]
    BY <1>13, <2>2 DEF QueuedResponse, TypeOK
  <2>5. ProcessQueue(queue') /\ QueuedEvents \subseteq Events
    BY <1>13, QueueInSet DEF QueuedResponse, TypeOK, QueuedEvents
  <2>6. \A f \in QueuedEvents' : /\ f \in Queueable
                                 /\ status'[f] \in {"sending", "queued", "null"}
                                 /\ task'[f] \in {"queued", "idle"}
    BY <2>3, <2>4, <2>5 DEF SendingInv, SchedulerInv
  <2>7. CASE queue' = <<>>
    <3>1. QueuedEvents' = {} /\ phase' = "inactive" /\ cur' = NoEvent
      BY <2>5, <2>7, EmptyQueue DEF QueuedEvents, ProcessQueue
    <3> QED
      BY <2>3, <2>7, <3>1 DEF SchedulerInv
  <2>8. CASE queue' # <<>>
    <3>1. phase' = "turn" /\ cur' = Head(queue') /\ cur' \in QueuedEvents'
      BY <2>3, <2>5, <2>8, HeadOfQueue DEF QueuedEvents, ProcessQueue
    <3> QED
      BY <2>3, <2>6, <2>8, <3>1 DEF SchedulerInv
  <2> QED
    BY <2>7, <2>8
<1>14. ASSUME NEW retryable \in BOOLEAN, QueuedFailure(retryable) PROVE SchedulerInv'
  <2>1. SendFailed(retryable)
    BY <1>14 DEF QueuedFailure
  <2> QED
    <3>1. \/ phase' = "backoff" /\ UNCHANGED <<status, task, queue, cur>>
          \/ queue' = <<>> /\ phase' = "inactive" /\ cur' = NoEvent
      BY <2>1, SendFailedEffect DEF QueuedFailure
    <3>2. CASE phase' = "backoff" /\ UNCHANGED <<status, task, queue, cur>>
      <4>1. QueuedEvents' = QueuedEvents
        BY <3>2 DEF QueuedEvents
      <4> QED
        BY <1>14, <3>2, <4>1 DEF QueuedFailure, SendingInv, SchedulerInv
    <3>3. CASE queue' = <<>> /\ phase' = "inactive" /\ cur' = NoEvent
      <4>1. QueuedEvents' = {} /\ IsInjective(queue')
        BY <3>3, EmptyQueue DEF QueuedEvents
      <4> QED
        BY <3>3, <4>1 DEF SchedulerInv
    <3> QED
      BY <3>1, <3>2, <3>3
<1>15. ASSUME NEW hasTxn \in EchoTxn, Echo(hasTxn) PROVE SchedulerInv'
  <2> DEFINE e == server[synced + 1]
  <2>1. e \in Events
    BY <1>15 DEF Echo, TypeOK
  <2>2. status' = status \/ status' = [status EXCEPT ![e] = "null"]
    BY <1>15 DEF Echo, HandleRemoteEcho
  <2>3. UNCHANGED <<task, queue, phase, cur>>
    BY <1>15 DEF Echo
  <2>4. QueuedEvents' = QueuedEvents /\ QueuedEvents \subseteq Events
    BY <2>3, QueueInSet DEF TypeOK, QueuedEvents
  <2>5. \A f \in Events : status'[f] = status[f] \/ status'[f] = "null"
    BY <2>1, <2>2 DEF TypeOK
  <2>6. phase # "inactive" => cur \in Events
    BY SendingAssumption DEF SendingInv, SchedulerInv
  <2> HIDE DEF e
  <2> QED
    BY <2>3, <2>4, <2>5, <2>6 DEF SendingInv, SchedulerInv
<1>16. ASSUME Restart PROVE SchedulerInv'
  <2>1. queue' = <<>> /\ phase' = "inactive" /\ cur' = NoEvent
    BY <1>16 DEF Restart
  <2>2. QueuedEvents' = {} /\ IsInjective(queue')
    BY <2>1, EmptyQueue DEF QueuedEvents
  <2> QED
    BY <2>1, <2>2 DEF SchedulerInv
<1>17. ASSUME NEW e \in Events, Reload(e) PROVE SchedulerInv'
  BY <1>17 DEF Reload, SendingInv, SchedulerInv, QueuedEvents
<1> QED
  BY <1>1, <1>2, <1>3, <1>4, <1>5, <1>6, <1>7, <1>8, <1>9, <1>10, <1>11, <1>12, <1>13, <1>14,
     <1>15, <1>16, <1>17 DEF Next, User, Encryption, Answer


-----------------------------------------------------------------------------
(* Local echoes: the pending list, what is stored of it and what is shown. *)

\* Exactly what a failed attempt does: nothing but a timer, or the queue is
\* emptied and each event that waits in it is marked as unsent.
LEMMA SendFailedExact ==
    ASSUME TypeOK, SendingInv, NEW retryable \in BOOLEAN, SendFailed(retryable)
    PROVE  \/ phase' = "backoff" /\ UNCHANGED <<status, task, queue, behind, cur, stored>>
           \/ /\ queue' = <<>> /\ behind' = {} /\ phase' = "inactive" /\ cur' = NoEvent
              /\ \E unsent \in SUBSET QueuedEvents :
                    /\ \A e \in unsent : task[e] = "queued" /\ status[e] \in {"sending", "queued"}
                    /\ \A e \in QueuedEvents \ unsent : task[e] = "queued" => status[e] = "null"
                    /\ status' = [e \in Events |-> IF e \in unsent THEN "not_sent" ELSE status[e]]
                    /\ Save(unsent, assoc)
              /\ \A e \in Events : task'[e] = IF e \in QueuedEvents THEN "idle" ELSE task[e]
<1>1. CASE retryable /\ attempts + 1 <= RetryLimit
  BY <1>1 DEF SendFailed
<1>2. CASE ~(retryable /\ attempts + 1 <= RetryLimit)
  <2>1. queue' = <<>> /\ behind' = {} /\ phase' = "inactive" /\ cur' = NoEvent
    BY <1>2 DEF SendFailed
  <2> DEFINE rejected == {e \in ToSet(queue) : task[e] = "queued"}
             unsent   == {e \in rejected : CanMove(e, "not_sent")}
  <2>2. task' = [e \in Events |-> IF e \in rejected THEN "idle" ELSE task[e]]
    BY <1>2 DEF SendFailed
  <2>3. status' = [e \in Events |-> IF e \in unsent THEN "not_sent" ELSE status[e]]
    BY <1>2 DEF SendFailed
  <2>4. Save(unsent, assoc)
    BY <1>2 DEF SendFailed
  <2>5. QueuedEvents \subseteq Events /\ rejected \subseteq QueuedEvents
    BY QueueInSet DEF QueuedEvents, TypeOK
  <2>6. \A e \in QueuedEvents : status[e] \in {"sending", "queued", "null"} /\ task[e] \in {"queued", "idle"}
    BY DEF SendingInv, SchedulerInv
  <2>7. \A e \in unsent : task[e] = "queued" /\ status[e] \in {"sending", "queued"}
    BY <2>5, <2>6 DEF CanMove, Allowed
  <2>8. \A e \in QueuedEvents \ unsent : task[e] = "queued" => status[e] = "null"
    BY <2>5, <2>6 DEF CanMove, Allowed, QueuedEvents
  <2>9. \A e \in Events : task'[e] = IF e \in QueuedEvents THEN "idle" ELSE task[e]
    BY <2>2, <2>5, <2>6 DEF QueuedEvents
  <2>10. unsent \in SUBSET QueuedEvents
    BY <2>5
  <2> HIDE DEF unsent
  <2> QED
    BY <2>1, <2>3, <2>4, <2>7, <2>8, <2>9, <2>10
<1> QED
  BY <1>1, <1>2

\* The pending list, the transaction ids and the ids.
LEMMA LocalEchoStep ==
    ASSUME TypeOK, SendingInv, LocalEchoInv, Next
    PROVE  LocalEchoInv'
<1> USE SendingAssumption DEF clientVars, roomVars, schedVars, netVars, syncVars, bounds
<1>1. ASSUME NEW e \in Events, Send(e) PROVE LocalEchoInv'
  BY <1>1 DEF Send, TypeOK, LocalEchoInv, Unsettled
<1>2. ASSUME NEW e \in Events, Resend(e) PROVE LocalEchoInv'
  BY <1>2 DEF Resend, LocalEchoInv, Unsettled
<1>3. ASSUME NEW e \in Events, Cancel(e) PROVE LocalEchoInv'
  BY <1>3 DEF Cancel, TypeOK, LocalEchoInv, Unsettled
<1>4. ASSUME NEW e \in Events, StartEncryption(e) PROVE LocalEchoInv'
  BY <1>4 DEF StartEncryption, CanMove, Allowed, LocalEchoInv, Unsettled
<1>5. ASSUME NEW e \in Events, SkipEncryption(e) PROVE LocalEchoInv'
  BY <1>5 DEF SkipEncryption, Dispatch, Allowed, TypeOK, LocalEchoInv, Unsettled
<1>6. ASSUME NEW e \in Events, EncryptionDone(e) PROVE LocalEchoInv'
  BY <1>6 DEF EncryptionDone, Dispatch, Allowed, TypeOK, LocalEchoInv, Unsettled
<1>7. ASSUME NEW e \in Events, EncryptionFails(e) PROVE LocalEchoInv'
  BY <1>7 DEF EncryptionFails, CanMove, Allowed, LocalEchoInv, Unsettled
<1>8. ASSUME ProcessEvent PROVE LocalEchoInv'
  <2>1. cur \in Events
    BY <1>8 DEF ProcessEvent, SendingInv, SchedulerInv
  <2>2. CASE /\ CanMove(cur, "sending") \/ status[cur] = "sending"
             /\ status' = [status EXCEPT ![cur] = "sending"]
             /\ UNCHANGED <<eventsBeingEncrypted, encrypted, roomVars>>
    BY <1>8, <2>1, <2>2 DEF ProcessEvent, CanMove, Allowed, TypeOK, LocalEchoInv, Unsettled
  <2>3. CASE SendFailed(TRUE) /\ UNCHANGED <<eventsBeingEncrypted, encrypted, roomVars>>
    <3>1. \A f \in Events : \/ status'[f] = status[f]
                            \/ status[f] \in {"sending", "queued"} /\ status'[f] = "not_sent"
      BY <2>3, SendFailedExact
    <3>2. UNCHANGED <<roomVars, server, timeline>>
      BY <1>8, <2>3 DEF ProcessEvent
    <3> QED
      BY <3>1, <3>2 DEF LocalEchoInv, Unsettled
  <2> QED
    BY <1>8, <2>2, <2>3 DEF ProcessEvent
<1>9. ASSUME RetryTimer PROVE LocalEchoInv'
  BY <1>9 DEF RetryTimer, LocalEchoInv
<1>10. ASSUME NEW e \in Events, ServerAccepts(e) PROVE LocalEchoInv'
  <2>1. ToSet(server') \subseteq ToSet(server) \cup {e}
    BY <1>10, AppendToQueue DEF ServerAccepts, TypeOK
  <2>2. status[e] # "new"
    BY <1>10 DEF ServerAccepts, SendingInv, SchedulerInv, RequestInv
  <2> QED
    BY <1>10, <2>1, <2>2 DEF ServerAccepts, LocalEchoInv
<1>11. ASSUME NEW e \in Events, DirectResponse(e) PROVE LocalEchoInv'
  BY <1>11 DEF DirectResponse, MarkSent, HandleRemoteEcho, ReplaceId, CanMove, Allowed, TypeOK,
     LocalEchoInv, Unsettled
<1>12. ASSUME NEW e \in Events, DirectFailure(e) PROVE LocalEchoInv'
  BY <1>12 DEF DirectFailure, CanMove, Allowed, LocalEchoInv, Unsettled
<1>13. ASSUME QueuedResponse PROVE LocalEchoInv'
  BY <1>13 DEF QueuedResponse, MarkSent, HandleRemoteEcho, ReplaceId, CanMove, Allowed, TypeOK,
     LocalEchoInv, Unsettled
<1>14. ASSUME NEW retryable \in BOOLEAN, QueuedFailure(retryable) PROVE LocalEchoInv'
  BY <1>14, SendFailedExact DEF QueuedFailure, TypeOK, LocalEchoInv, Unsettled
<1>15. ASSUME NEW hasTxn \in EchoTxn, Echo(hasTxn) PROVE LocalEchoInv'
  BY <1>15 DEF Echo, HandleRemoteEcho, ReplaceId, TypeOK, LocalEchoInv, Unsettled
<1>16. ASSUME Restart PROVE LocalEchoInv'
  BY <1>16 DEF Restart, LocalEchoInv, Unsettled
<1>17. ASSUME NEW e \in Events, Reload(e) PROVE LocalEchoInv'
  BY <1>17 DEF Reload, TypeOK, LocalEchoInv, Unsettled
<1> QED
  BY <1>1, <1>2, <1>3, <1>4, <1>5, <1>6, <1>7, <1>8, <1>9, <1>10, <1>11, <1>12, <1>13, <1>14,
     <1>15, <1>16, <1>17 DEF Next, User, Encryption, Answer

\* A save drops nothing that is still to be kept: with the list unchanged, or
\* not saved at all, what was stored stays stored.
LEMMA SaveKeeps ==
    ASSUME TypeOK, PendingIsStored, UNCHANGED <<pending, encrypted>>,
           NEW es, Save(es, assoc) \/ UNCHANGED stored
    PROVE  PendingIsStored'
<1>1. CASE Save(es, assoc)
  BY <1>1 DEF TypeOK, PendingIsStored, Save
<1>2. CASE UNCHANGED stored
  BY <1>2 DEF PendingIsStored
<1> QED
  BY <1>1, <1>2

\* Every change of the list is saved.
LEMMA StoredStep ==
    ASSUME TypeOK, SendingInv, LocalEchoInv, PendingIsStored, Next
    PROVE  PendingIsStored'
<1> USE SendingAssumption DEF clientVars, roomVars, schedVars, netVars, syncVars, bounds
<1>1. ASSUME NEW e \in Events, Send(e) PROVE PendingIsStored'
  BY <1>1 DEF Send, TypeOK, PendingIsStored, Save
<1>2. ASSUME NEW e \in Events, Resend(e) PROVE PendingIsStored'
  BY <1>2 DEF Resend, TypeOK, PendingIsStored, Save
<1>3. ASSUME NEW e \in Events, Cancel(e) PROVE PendingIsStored'
  BY <1>3 DEF Cancel, TypeOK, PendingIsStored, Save
<1>4. ASSUME NEW e \in Events, StartEncryption(e) PROVE PendingIsStored'
  BY <1>4 DEF StartEncryption, TypeOK, PendingIsStored, Save
<1>5. ASSUME NEW e \in Events, SkipEncryption(e) PROVE PendingIsStored'
  <2>1. UNCHANGED <<pending, encrypted>> /\ (Save({e}, assoc) \/ UNCHANGED stored)
    BY <1>5 DEF SkipEncryption, Dispatch
  <2> QED
    BY <2>1, SaveKeeps
<1>6. ASSUME NEW e \in Events, EncryptionDone(e) PROVE PendingIsStored'
  <2>1. UNCHANGED pending /\ encrypted' = encrypted \cup {e}
    BY <1>6 DEF EncryptionDone, Dispatch
  <2>2. CASE Save({e}, assoc)
    BY <2>1, <2>2 DEF TypeOK, PendingIsStored, Save
  <2>3. CASE ~Save({e}, assoc)
    <3>1. UNCHANGED <<status, stored>> /\ task[e] = "encrypting"
      BY <1>6, <2>3 DEF EncryptionDone, Dispatch
    <3>2. status[e] # "encrypting"
      BY <1>6, <3>1 DEF EncryptionDone, Dispatch, TypeOK, SendingInv, TaskInv
    <3>3. e \notin pending
      BY <3>1, <3>2 DEF LocalEchoInv, Unsettled, SendingInv, TaskInv
    <3> QED
      BY <2>1, <3>1, <3>3 DEF PendingIsStored
  <2> QED
    BY <2>2, <2>3
<1>7. ASSUME NEW e \in Events, EncryptionFails(e) PROVE PendingIsStored'
  <2>1. UNCHANGED <<pending, encrypted>> /\ (Save({e}, assoc) \/ UNCHANGED stored)
    BY <1>7 DEF EncryptionFails
  <2> QED
    BY <2>1, SaveKeeps
<1>8. ASSUME ProcessEvent PROVE PendingIsStored'
  <2>1. UNCHANGED <<pending, encrypted>>
    BY <1>8 DEF ProcessEvent
  <2>2. CASE SendFailed(TRUE)
    BY <2>1, <2>2, SendFailedExact, SaveKeeps
  <2>3. CASE Save({cur}, assoc) \/ UNCHANGED stored
    BY <2>1, <2>3, SaveKeeps
  <2> QED
    BY <1>8, <2>2, <2>3 DEF ProcessEvent
<1>9. ASSUME RetryTimer PROVE PendingIsStored'
  BY <1>9 DEF RetryTimer, PendingIsStored
<1>10. ASSUME NEW e \in Events, ServerAccepts(e) PROVE PendingIsStored'
  BY <1>10 DEF ServerAccepts, PendingIsStored
<1>11. ASSUME NEW e \in Events, DirectResponse(e) PROVE PendingIsStored'
  BY <1>11 DEF DirectResponse, MarkSent, HandleRemoteEcho, ReplaceId, TypeOK, LocalEchoInv,
     PendingIsStored, Save
<1>12. ASSUME NEW e \in Events, DirectFailure(e) PROVE PendingIsStored'
  BY <1>12 DEF DirectFailure, TypeOK, Unsettled, SendingInv, TaskInv, PendingIsStored, Save
<1>13. ASSUME QueuedResponse PROVE PendingIsStored'
  BY <1>13 DEF QueuedResponse, MarkSent, HandleRemoteEcho, ReplaceId, TypeOK, SendingInv,
     PendingIsStored, Save
<1>14. ASSUME NEW retryable \in BOOLEAN, QueuedFailure(retryable) PROVE PendingIsStored'
  <2>1. UNCHANGED <<pending, encrypted>> /\ SendFailed(retryable)
    BY <1>14 DEF QueuedFailure
  <2> QED
    BY <2>1, SendFailedExact, SaveKeeps
<1>15. ASSUME NEW hasTxn \in EchoTxn, Echo(hasTxn) PROVE PendingIsStored'
  BY <1>15 DEF Echo, HandleRemoteEcho, TypeOK, SendingInv, PendingIsStored, Save
<1>16. ASSUME Restart PROVE PendingIsStored'
  BY <1>16 DEF Restart, PendingIsStored
<1>17. ASSUME NEW e \in Events, Reload(e) PROVE PendingIsStored'
  BY <1>17 DEF Reload, TypeOK, SendingInv, TaskInv, PendingIsStored, Save
<1> QED
  BY <1>1, <1>2, <1>3, <1>4, <1>5, <1>6, <1>7, <1>8, <1>9, <1>10, <1>11, <1>12, <1>13, <1>14,
     <1>15, <1>16, <1>17 DEF Next, User, Encryption, Answer

\* An event that encryptAndSendEvent hands on waits in the queue or for its
\* request, or was cancelled or echoed meanwhile.
LEMMA DispatchOrphan ==
    ASSUME TypeOK, SendingInv, NoOrphan, NEW e \in Events, Dispatch(e),
           task[e] \in {"checking", "encrypting"}
    PROVE  NoOrphan'
<1>1. QueuedEvents \subseteq QueuedEvents' /\ (e \in eventsBeingEncrypted /\ e \in Queueable => e \in QueuedEvents')
  <2>1. CASE e \in eventsBeingEncrypted /\ e \in Queueable
    <3>1. queue' = Append(queue, e) /\ queue \in Seq(Events)
      BY <2>1 DEF Dispatch, QueueEvent, TypeOK
    <3> QED
      BY <3>1, AppendToQueue DEF QueuedEvents
  <2>2. CASE ~(e \in eventsBeingEncrypted /\ e \in Queueable)
    BY <2>2 DEF Dispatch, schedVars, QueuedEvents
  <2> QED
    BY <2>1, <2>2
<1>2. ASSUME NEW f \in Events \ {e}
      PROVE  /\ task'[f] = task[f] /\ status'[f] = status[f]
             /\ f \in eventsBeingEncrypted' <=> f \in eventsBeingEncrypted
  BY DEF Dispatch, TypeOK
<1>3. CASE e \notin eventsBeingEncrypted
  <2>1. status[e] \in {"cancelled", "null"}
    BY <1>3 DEF SendingInv, TaskInv
  <2>2. status'[e] = status[e]
    BY <1>3 DEF Dispatch
  <2> QED
    BY <1>1, <1>2, <2>1, <2>2 DEF NoOrphan
<1>4. CASE e \in eventsBeingEncrypted /\ e \in Queueable
  <2>1. status[e] \in {"sending", "encrypting", "null"}
    BY <1>4 DEF SendingInv, TaskInv
  <2>2. \/ status'[e] \in {"sending", "queued"} /\ task'[e] = "queued"
        \/ status'[e] = "null"
    BY <1>4, <2>1 DEF Dispatch, Allowed, TypeOK
  <2> QED
    BY <1>1, <1>2, <1>4, <2>2 DEF NoOrphan
<1>5. CASE e \in eventsBeingEncrypted /\ e \notin Queueable
  <2>1. status[e] \in {"sending", "encrypting", "null"}
    BY <1>5 DEF SendingInv, TaskInv
  <2>2. status'[e] \in {"sending", "null"} /\ task'[e] = "http"
    BY <1>5, <2>1 DEF Dispatch, TypeOK
  <2> QED
    BY <1>1, <1>2, <2>2 DEF NoOrphan
<1> QED
  BY <1>3, <1>4, <1>5

\* A failed attempt of the scheduler leaves no event in between.
LEMMA FailedOrphan ==
    ASSUME TypeOK, SendingInv, NoOrphan, NEW retryable \in BOOLEAN, SendFailed(retryable),
           UNCHANGED eventsBeingEncrypted
    PROVE  NoOrphan'
<1>1. CASE UNCHANGED <<status, task, queue>>
  BY <1>1 DEF NoOrphan, QueuedEvents
<1>2. CASE ~UNCHANGED <<status, task, queue>>
  <2>1. PICK unsent \in SUBSET QueuedEvents :
            /\ \A e \in unsent : task[e] = "queued" /\ status[e] \in {"sending", "queued"}
            /\ \A e \in QueuedEvents \ unsent : task[e] = "queued" => status[e] = "null"
            /\ status' = [e \in Events |-> IF e \in unsent THEN "not_sent" ELSE status[e]]
    BY <1>2, SendFailedExact
  <2>2. \A e \in Events : task'[e] = IF e \in QueuedEvents THEN "idle" ELSE task[e]
    BY <1>2, SendFailedExact
  <2>3. ASSUME NEW e \in Events, e \in QueuedEvents
        PROVE  status'[e] \in {"not_sent", "null"}
    <3>1. status[e] \in {"sending", "queued", "null"} /\ task[e] \in {"queued", "idle"}
      BY <2>3 DEF SendingInv, SchedulerInv
    <3>2. task[e] = "idle" => status[e] = "null"
      BY <2>3, <3>1 DEF NoOrphan
    <3> QED
      BY <2>1, <2>3, <3>1, <3>2
  <2>4. ASSUME NEW e \in Events, e \notin QueuedEvents
        PROVE  status'[e] = status[e] /\ task'[e] = task[e] /\ status[e] # "queued"
    BY <2>1, <2>2, <2>4 DEF NoOrphan
  <2> QED
    BY <2>3, <2>4 DEF NoOrphan
<1> QED
  BY <1>1, <1>2

\* A failed attempt of the scheduler shows nothing twice.
LEMMA FailedShown ==
    ASSUME TypeOK, SendingInv, ShownOnce, NEW retryable \in BOOLEAN, SendFailed(retryable),
           UNCHANGED <<pending, timeline, hasId>>
    PROVE  ShownOnce'
<1>1. \A f \in Events : \/ status'[f] = status[f]
                        \/ status[f] \in {"sending", "queued"} /\ status'[f] = "not_sent"
  BY SendFailedExact
<1> QED
  BY <1>1 DEF ShownOnce

\* In its first life the application leaves no event in between.
LEMMA OrphanStep ==
    ASSUME TypeOK, SendingInv, LocalEchoInv, FirstLifeInv, restarts' = 0, Next
    PROVE  NoOrphan'
<1> USE SendingAssumption DEF clientVars, roomVars, schedVars, netVars, syncVars, bounds
<1>1. ASSUME NEW e \in Events, Send(e) PROVE NoOrphan'
  BY <1>1 DEF Send, TypeOK, FirstLifeInv, NoOrphan, QueuedEvents
<1>2. ASSUME NEW e \in Events, Resend(e) PROVE NoOrphan'
  BY <1>2 DEF Resend, TypeOK, FirstLifeInv, NoOrphan, QueuedEvents
<1>3. ASSUME NEW e \in Events, Cancel(e) PROVE NoOrphan'
  <2>1. QueuedEvents \ {e} \subseteq QueuedEvents'
    BY <1>3, RemoveFromQueue DEF Cancel, QueuedEvents, TypeOK, SendingInv, SchedulerInv
  <2>2. /\ status'[e] = "cancelled" /\ UNCHANGED task
        /\ \A f \in Events \ {e} : status'[f] = status[f]
        /\ \A f \in Events \ {e} : f \in eventsBeingEncrypted => f \in eventsBeingEncrypted'
    BY <1>3 DEF Cancel, TypeOK
  <2> QED
    BY <1>3, <2>1, <2>2 DEF Cancel, FirstLifeInv, NoOrphan
<1>4. ASSUME NEW e \in Events, StartEncryption(e) PROVE NoOrphan'
  <2>1. status[e] = "sending" /\ e \in eventsBeingEncrypted
    BY <1>4 DEF StartEncryption, CanMove, Allowed, SendingInv, TaskInv
  <2> QED
    BY <1>4, <2>1 DEF StartEncryption, TypeOK, FirstLifeInv, NoOrphan, QueuedEvents
<1>5. ASSUME NEW e \in Events, SkipEncryption(e) PROVE NoOrphan'
  BY <1>5, DispatchOrphan DEF SkipEncryption, Dispatch, FirstLifeInv
<1>6. ASSUME NEW e \in Events, EncryptionDone(e) PROVE NoOrphan'
  BY <1>6, DispatchOrphan DEF EncryptionDone, Dispatch, FirstLifeInv
<1>7. ASSUME NEW e \in Events, EncryptionFails(e) PROVE NoOrphan'
  BY <1>7 DEF EncryptionFails, CanMove, Allowed, TypeOK, FirstLifeInv, NoOrphan, QueuedEvents
<1>8. ASSUME ProcessEvent PROVE NoOrphan'
  <2>1. cur \in Events
    BY <1>8 DEF ProcessEvent, SendingInv, SchedulerInv
  <2>2. CASE SendFailed(TRUE)
    BY <1>8, <2>2, FailedOrphan DEF ProcessEvent, FirstLifeInv
  <2>3. CASE ~SendFailed(TRUE)
    <3>1. /\ status' = [status EXCEPT ![cur] = "sending"]
          /\ UNCHANGED <<task, queue, eventsBeingEncrypted, restarts>>
          /\ status[cur] = "sending" \/ CanMove(cur, "sending")
      BY <1>8, <2>3 DEF ProcessEvent
    <3>2. NoOrphan /\ QueuedEvents' = QueuedEvents
      BY <3>1 DEF FirstLifeInv, QueuedEvents
    <3>3. task[cur] # "idle"
      BY <2>1, <3>1, <3>2, <1>8 DEF CanMove, Allowed, NoOrphan, ProcessEvent, SendingInv,
         SchedulerInv
    <3> QED
      BY <2>1, <3>1, <3>2, <3>3 DEF NoOrphan, TypeOK
  <2> QED
    BY <2>2, <2>3
<1>9. ASSUME RetryTimer PROVE NoOrphan'
  BY <1>9 DEF RetryTimer, FirstLifeInv, NoOrphan, QueuedEvents
<1>10. ASSUME NEW e \in Events, ServerAccepts(e) PROVE NoOrphan'
  BY <1>10 DEF ServerAccepts, FirstLifeInv, NoOrphan, QueuedEvents
<1>11. ASSUME NEW e \in Events, DirectResponse(e) PROVE NoOrphan'
  BY <1>11 DEF DirectResponse, MarkSent, HandleRemoteEcho, TypeOK, LocalEchoInv, Unsettled,
     FirstLifeInv, NoOrphan, ShownOnce, QueuedEvents
<1>12. ASSUME NEW e \in Events, DirectFailure(e) PROVE NoOrphan'
  BY <1>12 DEF DirectFailure, CanMove, Allowed, TypeOK, FirstLifeInv, NoOrphan, QueuedEvents
<1>13. ASSUME QueuedResponse PROVE NoOrphan'
  <2>1. cur \in Events /\ queue # <<>> /\ cur = Head(queue) /\ status[cur] \in {"sending", "null"}
    BY <1>13, EmptyQueue DEF QueuedResponse, SendingInv, SchedulerInv, QueuedEvents
  <2>2. QueuedEvents \ {cur} \subseteq QueuedEvents'
    BY <1>13, <2>1, TailOfQueue DEF QueuedResponse, TypeOK, QueuedEvents
  <2>3. NoOrphan /\ ShownOnce /\ UNCHANGED eventsBeingEncrypted
    BY <1>13 DEF QueuedResponse, FirstLifeInv, bounds
  <2>4. /\ status'[cur] \in {"sent", "null"}
        /\ \A f \in Events \ {cur} : status'[f] = status[f] /\ task'[f] = task[f]
    BY <1>13, <2>1, <2>3 DEF QueuedResponse, MarkSent, HandleRemoteEcho, TypeOK, ShownOnce,
       LocalEchoInv, Unsettled
  <2> QED
    BY <2>1, <2>2, <2>3, <2>4 DEF NoOrphan
<1>14. ASSUME NEW retryable \in BOOLEAN, QueuedFailure(retryable) PROVE NoOrphan'
  BY <1>14, FailedOrphan DEF QueuedFailure, FirstLifeInv
<1>15. ASSUME NEW hasTxn \in EchoTxn, Echo(hasTxn) PROVE NoOrphan'
  BY <1>15 DEF Echo, HandleRemoteEcho, TypeOK, FirstLifeInv, NoOrphan, QueuedEvents
<1>16. ASSUME Restart PROVE NoOrphan'
  BY <1>16 DEF Restart, TypeOK
<1>17. ASSUME NEW e \in Events, Reload(e) PROVE NoOrphan'
  BY <1>17 DEF Reload, FirstLifeInv, NoOrphan, QueuedEvents
<1> QED
  BY <1>1, <1>2, <1>3, <1>4, <1>5, <1>6, <1>7, <1>8, <1>9, <1>10, <1>11, <1>12, <1>13, <1>14,
     <1>15, <1>16, <1>17 DEF Next, User, Encryption, Answer

\* Nor does it show one twice.
LEMMA ShownStep ==
    ASSUME TypeOK, SendingInv, LocalEchoInv, FirstLifeInv, restarts' = 0, Next
    PROVE  ShownOnce'
<1> USE SendingAssumption DEF clientVars, roomVars, schedVars, netVars, syncVars, bounds
<1>1. ASSUME NEW e \in Events, Send(e) PROVE ShownOnce'
  BY <1>1 DEF Send, FirstLifeInv, ReferenceInv, ShownOnce
<1>2. ASSUME NEW e \in Events, Resend(e) PROVE ShownOnce'
  BY <1>2 DEF Resend, FirstLifeInv, ShownOnce
<1>3. ASSUME NEW e \in Events, Cancel(e) PROVE ShownOnce'
  BY <1>3 DEF Cancel, Cancellable, FirstLifeInv, ShownOnce
<1>4. ASSUME NEW e \in Events, StartEncryption(e) PROVE ShownOnce'
  BY <1>4 DEF StartEncryption, FirstLifeInv, ShownOnce
<1>5. ASSUME NEW e \in Events, SkipEncryption(e) PROVE ShownOnce'
  BY <1>5 DEF SkipEncryption, Dispatch, TypeOK, FirstLifeInv, ShownOnce
<1>6. ASSUME NEW e \in Events, EncryptionDone(e) PROVE ShownOnce'
  BY <1>6 DEF EncryptionDone, Dispatch, TypeOK, FirstLifeInv, ShownOnce
<1>7. ASSUME NEW e \in Events, EncryptionFails(e) PROVE ShownOnce'
  BY <1>7 DEF EncryptionFails, FirstLifeInv, ShownOnce
<1>8. ASSUME ProcessEvent PROVE ShownOnce'
  <2>1. ShownOnce /\ UNCHANGED <<pending, timeline, hasId>>
    BY <1>8 DEF ProcessEvent, FirstLifeInv
  <2>2. CASE SendFailed(TRUE)
    BY <2>1, <2>2, FailedShown
  <2>3. CASE ~SendFailed(TRUE)
    BY <1>8, <2>1, <2>3 DEF ProcessEvent, TypeOK, ShownOnce
  <2> QED
    BY <2>2, <2>3
<1>9. ASSUME RetryTimer PROVE ShownOnce'
  BY <1>9 DEF RetryTimer, FirstLifeInv, ShownOnce
<1>10. ASSUME NEW e \in Events, ServerAccepts(e) PROVE ShownOnce'
  BY <1>10 DEF ServerAccepts, FirstLifeInv, ShownOnce
<1>11. ASSUME NEW e \in Events, DirectResponse(e) PROVE ShownOnce'
  BY <1>11 DEF DirectResponse, MarkSent, HandleRemoteEcho, ReplaceId, CanMove, Allowed, TypeOK,
     LocalEchoInv, Unsettled, FirstLifeInv, ShownOnce
<1>12. ASSUME NEW e \in Events, DirectFailure(e) PROVE ShownOnce'
  BY <1>12 DEF DirectFailure, FirstLifeInv, ShownOnce
<1>13. ASSUME QueuedResponse PROVE ShownOnce'
  BY <1>13 DEF QueuedResponse, MarkSent, HandleRemoteEcho, ReplaceId, CanMove, Allowed, TypeOK,
     LocalEchoInv, Unsettled, FirstLifeInv, ShownOnce
<1>14. ASSUME NEW retryable \in BOOLEAN, QueuedFailure(retryable) PROVE ShownOnce'
  BY <1>14, FailedShown DEF QueuedFailure, FirstLifeInv
<1>15. ASSUME NEW hasTxn \in EchoTxn, Echo(hasTxn) PROVE ShownOnce'
  BY <1>15 DEF Echo, HandleRemoteEcho, ReplaceId, TypeOK, LocalEchoInv, FirstLifeInv, ShownOnce
<1>16. ASSUME Restart PROVE ShownOnce'
  BY <1>16 DEF Restart, TypeOK
<1>17. ASSUME NEW e \in Events, Reload(e) PROVE ShownOnce'
  BY <1>17 DEF Reload, FirstLifeInv, ReferenceInv
<1> QED
  BY <1>1, <1>2, <1>3, <1>4, <1>5, <1>6, <1>7, <1>8, <1>9, <1>10, <1>11, <1>12, <1>13, <1>14,
     <1>15, <1>16, <1>17 DEF Next, User, Encryption, Answer

-----------------------------------------------------------------------------
(* Relations queued behind their targets.                                  *)

\* Appending keeps the order, and puts the new entry behind the others.
LEMMA BeforeAppend ==
    ASSUME NEW S, NEW q \in Seq(S), NEW e \in S
    PROVE  /\ \A a, b : IsBefore(q, a, b) => IsBefore(Append(q, e), a, b)
           /\ \A a \in ToSet(q) : IsBefore(Append(q, e), a, e)
<1>1. /\ Len(Append(q, e)) = Len(q) + 1 /\ Len(q) \in Nat
      /\ \A i \in 1..Len(q) : Append(q, e)[i] = q[i]
      /\ Append(q, e)[Len(q) + 1] = e
      /\ DOMAIN q = 1..Len(q)
  OBVIOUS
<1>2. ASSUME NEW a, NEW b, IsBefore(q, a, b) PROVE IsBefore(Append(q, e), a, b)
  BY <1>1, <1>2 DEF IsBefore
<1>3. ASSUME NEW a \in ToSet(q) PROVE IsBefore(Append(q, e), a, e)
  <2>1. PICK i \in 1..Len(q) : q[i] = a
    BY <1>1 DEF ToSet
  <2>2. /\ i \in 1..Len(Append(q, e)) /\ Len(q) + 1 \in 1..Len(Append(q, e))
        /\ i < Len(q) + 1
        /\ Append(q, e)[i] = a /\ Append(q, e)[Len(q) + 1] = e
    BY <1>1, <2>1
  <2> QED
    BY <2>2 DEF IsBefore
<1> QED
  BY <1>2, <1>3

\* Dropping the head keeps the order of the others.
LEMMA BeforeTail ==
    ASSUME NEW S, NEW q \in Seq(S), q # <<>>, NEW a, NEW b, IsBefore(q, a, b), a # Head(q)
    PROVE  IsBefore(Tail(q), a, b)
<1>1. /\ Len(Tail(q)) = Len(q) - 1 /\ Len(q) \in Nat \ {0}
      /\ \A i \in 1..Len(Tail(q)) : Tail(q)[i] = q[i + 1]
      /\ Head(q) = q[1]
  OBVIOUS
<1>2. PICK i, j \in 1..Len(q) : i < j /\ q[i] = a /\ q[j] = b
  BY DEF IsBefore
<1>3. i # 1
  BY <1>1, <1>2
<1>4. /\ i - 1 \in 1..Len(Tail(q)) /\ j - 1 \in 1..Len(Tail(q)) /\ i - 1 < j - 1
      /\ Tail(q)[i - 1] = a /\ Tail(q)[j - 1] = b
  BY <1>1, <1>2, <1>3
<1> QED
  BY <1>4 DEF IsBefore

\* Removing an entry keeps the order of the others.
LEMMA BeforeRemove ==
    ASSUME NEW S, NEW q \in Seq(S), IsInjective(q), NEW e,
           NEW a, NEW b, IsBefore(q, a, b), a # e, b # e
    PROVE  IsBefore(RemoveFirst(q, e), a, b)
BY RemoveFromQueue DEF IsBefore

\* Nothing is before the head.
LEMMA NotBeforeHead ==
    ASSUME NEW S, NEW q \in Seq(S), q # <<>>, IsInjective(q), NEW a
    PROVE  ~IsBefore(q, a, Head(q))
<1> SUFFICES ASSUME NEW i \in 1..Len(q), NEW j \in 1..Len(q), i < j, q[j] = Head(q)
             PROVE  FALSE
  BY DEF IsBefore
<1>1. Head(q) = q[1] /\ 1 \in 1..Len(q) /\ DOMAIN q = 1..Len(q)
  OBVIOUS
<1>2. j = 1
  BY <1>1 DEF IsInjective
<1> QED
  BY <1>2

\* What a failed attempt does to the events that wait in the queue.
LEMMA FailedReference ==
    ASSUME TypeOK, SendingInv, ReferenceInv, NEW retryable \in BOOLEAN, SendFailed(retryable),
           UNCHANGED <<timeline, assoc, listening>>
    PROVE  ReferenceInv'
<1>1. \A f \in Events : \/ status'[f] = status[f]
                        \/ status[f] \in {"sending", "queued"} /\ status'[f] = "not_sent"
  BY SendFailedExact
<1> QED
  BY <1>1 DEF ReferenceInv

\* A failed attempt that gives up forgets what was queued behind what.
LEMMA FailedBehind ==
    ASSUME BehindInv, TypeOK, SendingInv, NEW retryable \in BOOLEAN, SendFailed(retryable),
           UNCHANGED assoc
    PROVE  BehindInv'
<1>1. CASE UNCHANGED <<status, queue, behind>>
  BY <1>1 DEF BehindInv, QueuedEvents
<1>2. CASE behind' = {}
  BY <1>2 DEF BehindInv
<1> QED
  BY <1>1, <1>2, SendFailedExact

\* A step that leaves the queue alone and does not revive a cancelled event.
LEMMA BehindFrame ==
    ASSUME BehindInv, UNCHANGED <<queue, behind, assoc>>,
           \A f \in Events : status[f] = "cancelled" => status'[f] = "cancelled"
    PROVE  BehindInv'
BY DEF BehindInv, QueuedEvents

\* What encryptAndSendEvent hands to the scheduler is behind all that waits.
LEMMA DispatchBehind ==
    ASSUME TypeOK, SendingInv, BehindInv, NEW e \in Events, Dispatch(e),
           task[e] \in {"checking", "encrypting"}
    PROVE  BehindInv'
<1>1. \A f \in Events : status[f] = "cancelled" => status'[f] = "cancelled"
  BY DEF Dispatch, TypeOK, SendingInv, TaskInv
<1>2. UNCHANGED assoc
  BY DEF Dispatch, roomVars
<1>3. CASE ~(e \in eventsBeingEncrypted /\ e \in Queueable)
  <2>1. UNCHANGED <<queue, behind>>
    BY <1>3 DEF Dispatch, schedVars
  <2> QED
    BY <1>1, <1>2, <2>1, BehindFrame
<1>4. CASE e \in eventsBeingEncrypted /\ e \in Queueable
  <2>1. /\ queue' = Append(queue, e) /\ queue \in Seq(Events)
        /\ behind' = IF Target[e] \in QueuedEvents THEN behind \cup {e} ELSE behind
    BY <1>4 DEF Dispatch, QueueEvent, QueuedEvents, TypeOK
  <2>2. /\ QueuedEvents' = QueuedEvents \cup {e} /\ QueuedEvents \subseteq Events
        /\ \A a, b : IsBefore(queue, a, b) => IsBefore(queue', a, b)
        /\ \A a \in QueuedEvents : IsBefore(queue', a, e)
    BY <2>1, AppendToQueue, BeforeAppend, QueueInSet DEF QueuedEvents
  <2> QED
    BY <1>1, <1>2, <2>1, <2>2 DEF BehindInv
<1> QED
  BY <1>3, <1>4

\* Relations keep listening for the id of a local target.
LEMMA ReferenceStep ==
    ASSUME TypeOK, SendingInv, LocalEchoInv, FirstLifeInv, restarts' = 0, Next
    PROVE  ReferenceInv'
<1> USE SendingAssumption DEF clientVars, roomVars, schedVars, netVars, syncVars, bounds
<1>1. ASSUME NEW e \in Events, Send(e) PROVE ReferenceInv'
  BY <1>1 DEF Send, TypeOK, FirstLifeInv, ReferenceInv
<1>2. ASSUME NEW e \in Events, Resend(e) PROVE ReferenceInv'
  BY <1>2 DEF Resend, FirstLifeInv, ReferenceInv
<1>3. ASSUME NEW e \in Events, Cancel(e) PROVE ReferenceInv'
  BY <1>3 DEF Cancel, Cancellable, FirstLifeInv, ReferenceInv
<1>4. ASSUME NEW e \in Events, StartEncryption(e) PROVE ReferenceInv'
  BY <1>4 DEF StartEncryption, CanMove, Allowed, FirstLifeInv, ReferenceInv
<1>5. ASSUME NEW e \in Events, SkipEncryption(e) PROVE ReferenceInv'
  BY <1>5 DEF SkipEncryption, Dispatch, Allowed, TypeOK, FirstLifeInv, ReferenceInv
<1>6. ASSUME NEW e \in Events, EncryptionDone(e) PROVE ReferenceInv'
  BY <1>6 DEF EncryptionDone, Dispatch, Allowed, TypeOK, FirstLifeInv, ReferenceInv
<1>7. ASSUME NEW e \in Events, EncryptionFails(e) PROVE ReferenceInv'
  BY <1>7 DEF EncryptionFails, CanMove, Allowed, FirstLifeInv, ReferenceInv
<1>8. ASSUME ProcessEvent PROVE ReferenceInv'
  <2>1. ReferenceInv /\ UNCHANGED <<timeline, assoc, listening>>
    BY <1>8 DEF ProcessEvent, FirstLifeInv
  <2>2. CASE SendFailed(TRUE)
    BY <2>1, <2>2, FailedReference
  <2>3. CASE ~SendFailed(TRUE)
    <3>1. /\ status' = [status EXCEPT ![cur] = "sending"]
          /\ status[cur] = "sending" \/ CanMove(cur, "sending")
      BY <1>8, <2>3 DEF ProcessEvent
    <3>2. \A f \in Events : \/ status'[f] = status[f]
                            \/ status[f] # "new" /\ status'[f] = "sending"
      BY <3>1 DEF CanMove, Allowed, TypeOK
    <3> QED
      BY <2>1, <3>2 DEF ReferenceInv
  <2> QED
    BY <2>2, <2>3
<1>9. ASSUME RetryTimer PROVE ReferenceInv'
  BY <1>9 DEF RetryTimer, FirstLifeInv, ReferenceInv
<1>10. ASSUME NEW e \in Events, ServerAccepts(e) PROVE ReferenceInv'
  BY <1>10 DEF ServerAccepts, FirstLifeInv, ReferenceInv
<1>11. ASSUME NEW e \in Events, DirectResponse(e) PROVE ReferenceInv'
  BY <1>11 DEF DirectResponse, MarkSent, HandleRemoteEcho, ReplaceId, CanMove, Allowed, TypeOK,
     FirstLifeInv, ReferenceInv
<1>12. ASSUME NEW e \in Events, DirectFailure(e) PROVE ReferenceInv'
  BY <1>12 DEF DirectFailure, CanMove, Allowed, FirstLifeInv, ReferenceInv
<1>13. ASSUME QueuedResponse PROVE ReferenceInv'
  BY <1>13 DEF QueuedResponse, MarkSent, HandleRemoteEcho, ReplaceId, CanMove, Allowed, TypeOK,
     FirstLifeInv, ReferenceInv
<1>14. ASSUME NEW retryable \in BOOLEAN, QueuedFailure(retryable) PROVE ReferenceInv'
  BY <1>14, FailedReference DEF QueuedFailure, FirstLifeInv
<1>15. ASSUME NEW hasTxn \in EchoTxn, Echo(hasTxn) PROVE ReferenceInv'
  <2> DEFINE e == server[synced + 1]
  <2>1. e \in Events /\ e \in ToSet(server) /\ ReferenceInv
    BY <1>15 DEF Echo, TypeOK, ToSet, FirstLifeInv
  <2>2. status[e] # "new"
    BY <2>1 DEF LocalEchoInv
  <2>3. CASE HandleRemoteEcho(e)
    <3>1. /\ status' = [status EXCEPT ![e] = "null"]
          /\ timeline' = [timeline EXCEPT ![e] = "local"]
          /\ ReplaceId(e)
      BY <2>3 DEF HandleRemoteEcho
    <3> HIDE DEF e
    <3> QED
      BY <2>1, <2>2, <3>1 DEF ReferenceInv, ReplaceId, TypeOK
  <2>4. CASE ~HandleRemoteEcho(e)
    <3>1. /\ UNCHANGED <<status, assoc, listening>>
          /\ \A f \in Events \ {e} : timeline'[f] = timeline[f]
      BY <1>15, <2>4 DEF Echo, TypeOK
    <3> HIDE DEF e
    <3> QED
      BY <2>1, <2>2, <3>1 DEF ReferenceInv
  <2> QED
    BY <2>3, <2>4
<1>16. ASSUME Restart PROVE ReferenceInv'
  BY <1>16 DEF Restart, TypeOK
<1>17. ASSUME NEW e \in Events, Reload(e) PROVE ReferenceInv'
  BY <1>17 DEF Reload, FirstLifeInv, ReferenceInv
<1> QED
  BY <1>1, <1>2, <1>3, <1>4, <1>5, <1>6, <1>7, <1>8, <1>9, <1>10, <1>11, <1>12, <1>13, <1>14,
     <1>15, <1>16, <1>17 DEF Next, User, Encryption, Answer

\* A queued relation stays behind its target until it has its id.
LEMMA BehindStep ==
    ASSUME TypeOK, SendingInv, LocalEchoInv, FirstLifeInv, restarts' = 0, Next
    PROVE  BehindInv'
<1> USE SendingAssumption DEF clientVars, roomVars, schedVars, netVars, syncVars, bounds
<1>1. ASSUME NEW e \in Events, Send(e) PROVE BehindInv'
  BY <1>1 DEF Send, SendingInv, SchedulerInv, FirstLifeInv, BehindInv, QueuedEvents
<1>2. ASSUME NEW e \in Events, Resend(e) PROVE BehindInv'
  BY <1>2 DEF Resend, FirstLifeInv, BehindInv, QueuedEvents
<1>3. ASSUME NEW e \in Events, Cancel(e) PROVE BehindInv'
  <2>1. BehindInv /\ UNCHANGED assoc
    BY <1>3 DEF Cancel, FirstLifeInv
  <2>2. status'[e] = "cancelled" /\ \A f \in Events \ {e} : status'[f] = status[f]
    BY <1>3 DEF Cancel, TypeOK
  <2>3. CASE status[e] # "queued"
    <3>1. UNCHANGED <<queue, behind>>
      BY <1>3, <2>3 DEF Cancel
    <3> QED
      BY <2>1, <2>2, <3>1, BehindFrame
  <2>4. CASE status[e] = "queued"
    <3>1. /\ queue' = RemoveFirst(queue, e) /\ behind' = behind \ {e}
          /\ queue \in Seq(Events) /\ IsInjective(queue)
      BY <1>3, <2>4 DEF Cancel, TypeOK, SendingInv, SchedulerInv
    <3>2. /\ QueuedEvents' = QueuedEvents \ {e}
          /\ \A a, b : IsBefore(queue, a, b) /\ a # e /\ b # e => IsBefore(queue', a, b)
      BY <3>1, RemoveFromQueue, BeforeRemove DEF QueuedEvents
    <3> QED
      BY <2>1, <2>2, <3>1, <3>2 DEF BehindInv
  <2> QED
    BY <2>3, <2>4
<1>4. ASSUME NEW e \in Events, StartEncryption(e) PROVE BehindInv'
  BY <1>4 DEF StartEncryption, CanMove, Allowed, FirstLifeInv, BehindInv, QueuedEvents
<1>5. ASSUME NEW e \in Events, SkipEncryption(e) PROVE BehindInv'
  BY <1>5, DispatchBehind DEF SkipEncryption, Dispatch, FirstLifeInv
<1>6. ASSUME NEW e \in Events, EncryptionDone(e) PROVE BehindInv'
  BY <1>6, DispatchBehind DEF EncryptionDone, Dispatch, FirstLifeInv
<1>7. ASSUME NEW e \in Events, EncryptionFails(e) PROVE BehindInv'
  BY <1>7 DEF EncryptionFails, CanMove, Allowed, FirstLifeInv, BehindInv, QueuedEvents
<1>8. ASSUME ProcessEvent PROVE BehindInv'
  <2>1. BehindInv /\ UNCHANGED assoc
    BY <1>8 DEF ProcessEvent, FirstLifeInv
  <2>2. CASE SendFailed(TRUE)
    BY <2>1, <2>2, FailedBehind
  <2>3. CASE ~SendFailed(TRUE)
    <3>1. /\ status' = [status EXCEPT ![cur] = "sending"] /\ UNCHANGED <<queue, behind>>
          /\ status[cur] = "sending" \/ CanMove(cur, "sending")
      BY <1>8, <2>3 DEF ProcessEvent
    <3>2. \A f \in Events : status[f] = "cancelled" => status'[f] = "cancelled"
      BY <3>1 DEF CanMove, Allowed, TypeOK
    <3> QED
      BY <2>1, <3>1, <3>2, BehindFrame
  <2> QED
    BY <2>2, <2>3
<1>9. ASSUME RetryTimer PROVE BehindInv'
  BY <1>9 DEF RetryTimer, FirstLifeInv, BehindInv, QueuedEvents
<1>10. ASSUME NEW e \in Events, ServerAccepts(e) PROVE BehindInv'
  BY <1>10 DEF ServerAccepts, FirstLifeInv, BehindInv, QueuedEvents
<1>11. ASSUME NEW e \in Events, DirectResponse(e) PROVE BehindInv'
  <2>1. /\ BehindInv /\ UNCHANGED <<queue, behind>> /\ MarkSent(e) /\ task[e] = "http"
        /\ behind \subseteq Events
    BY <1>11 DEF DirectResponse, FirstLifeInv, TypeOK
  <2>2. \A f \in Events : status[f] = "cancelled" => status'[f] = "cancelled"
    <3>1. status[e] # "cancelled" /\ \A f \in Events \ {e} : status'[f] = status[f]
      BY <2>1 DEF MarkSent, HandleRemoteEcho, TypeOK, SendingInv, RequestInv
    <3> QED
      BY <3>1
  <2>3. \A f \in Events : assoc[f] = "remote" => assoc'[f] = "remote"
    BY <2>1 DEF MarkSent, HandleRemoteEcho, ReplaceId
  <2> QED
    BY <2>1, <2>2, <2>3 DEF BehindInv, QueuedEvents
<1>12. ASSUME NEW e \in Events, DirectFailure(e) PROVE BehindInv'
  BY <1>12 DEF DirectFailure, CanMove, Allowed, FirstLifeInv, BehindInv, QueuedEvents
<1>13. ASSUME QueuedResponse PROVE BehindInv'
  <2>1. cur \in Events /\ queue # <<>> /\ cur = Head(queue) /\ status[cur] \in {"sending", "null"}
    BY <1>13, EmptyQueue DEF QueuedResponse, SendingInv, SchedulerInv, QueuedEvents
  <2>2. /\ BehindInv /\ ShownOnce /\ ReferenceInv
        /\ queue' = Tail(queue) /\ behind' = behind \ {cur} /\ MarkSent(cur)
    BY <1>13 DEF QueuedResponse, FirstLifeInv
  <2>3. /\ QueuedEvents \ {cur} \subseteq QueuedEvents'
        /\ \A a, b : IsBefore(queue, a, b) /\ a # cur => IsBefore(queue', a, b)
    BY <2>1, <2>2, TailOfQueue, BeforeTail DEF TypeOK, QueuedEvents
  <2>4. /\ \A f \in Events \ {cur} : status'[f] = status[f]
        /\ \A f \in Events : assoc[f] = "remote" => assoc'[f] = "remote"
    BY <2>1, <2>2 DEF MarkSent, HandleRemoteEcho, ReplaceId, TypeOK, roomVars
  <2>5. ASSUME NEW f \in Events, f \in QueuedEvents, Target[f] = cur, assoc[f] # "remote"
        PROVE  assoc'[f] = "remote"
    <3>1. assoc[f] = "local" /\ f \in listening
      <4>1. status[f] # "new" /\ Target[f] # NoEvent
        BY <2>1, <2>5 DEF SendingInv, SchedulerInv
      <4>2. assoc[f] \in {"none", "local", "remote"}
        BY DEF TypeOK
      <4> QED
        BY <2>2, <2>5, <4>1, <4>2 DEF ReferenceInv
    <3>2. cur \notin hasId
      BY <2>5, <3>1 DEF LocalEchoInv
    <3>3. timeline[cur] \notin {"local", "remote"}
      BY <2>1, <2>2, <3>2 DEF ShownOnce, LocalEchoInv, Unsettled
    <3>4. ReplaceId(cur)
      BY <2>2, <3>3 DEF MarkSent, HandleRemoteEcho
    <3> QED
      BY <2>5, <3>1, <3>4 DEF ReplaceId
  <2>6. ASSUME NEW f \in behind'
        PROVE  /\ f \in QueuedEvents' /\ Target[f] \in Events
               /\ IsBefore(queue', Target[f], f) \/ status'[Target[f]] = "cancelled" \/ assoc'[f] = "remote"
    <3>1. f \in behind /\ f # cur /\ f \in QueuedEvents /\ f \in Events /\ Target[f] \in Events
      BY <2>2, <2>6, QueueInSet DEF BehindInv, QueuedEvents, TypeOK
    <3>2. CASE Target[f] = cur
      BY <2>3, <2>4, <2>5, <3>1, <3>2
    <3>3. CASE Target[f] # cur
      BY <2>2, <2>3, <2>4, <3>1, <3>3 DEF BehindInv
    <3> QED
      BY <3>2, <3>3
  <2> QED
    BY <2>6 DEF BehindInv
<1>14. ASSUME NEW retryable \in BOOLEAN, QueuedFailure(retryable) PROVE BehindInv'
  BY <1>14, FailedBehind DEF QueuedFailure, FirstLifeInv
<1>15. ASSUME NEW hasTxn \in EchoTxn, Echo(hasTxn) PROVE BehindInv'
  <2> DEFINE e == server[synced + 1]
  <2>1. e \in Events /\ BehindInv /\ UNCHANGED <<queue, behind>>
    BY <1>15 DEF Echo, TypeOK, FirstLifeInv
  <2>2. CASE HandleRemoteEcho(e)
    <3>1. ReplaceId(e) /\ \A f \in Events \ {e} : status'[f] = status[f]
      BY <2>1, <2>2 DEF HandleRemoteEcho, TypeOK
    <3>2. \A f \in Events : assoc[f] = "remote" => assoc'[f] = "remote"
      BY <3>1 DEF ReplaceId
    <3>3. ASSUME NEW f \in behind, Target[f] = e, status[e] = "cancelled" PROVE assoc'[f] = "remote"
      <4>1. f \in Events /\ f \in QueuedEvents /\ e # NoEvent
        BY <2>1, <3>3 DEF BehindInv, TypeOK
      <4>2. status[f] # "new"
        BY <4>1 DEF SendingInv, SchedulerInv
      <4>3. assoc[f] \in {"local", "remote"} /\ (assoc[f] = "local" => f \in listening)
        BY <1>15, <3>3, <4>1, <4>2 DEF FirstLifeInv, ReferenceInv, Echo, bounds, TypeOK
      <4> QED
        BY <3>1, <3>3, <4>1, <4>3 DEF ReplaceId
    <3>4. QueuedEvents' = QueuedEvents /\ behind \subseteq Events
      BY <2>1 DEF QueuedEvents, TypeOK
    <3> HIDE DEF e
    <3> QED
      BY <2>1, <3>1, <3>2, <3>3, <3>4 DEF BehindInv
  <2>3. CASE ~HandleRemoteEcho(e)
    <3>1. UNCHANGED <<status, assoc>>
      BY <1>15, <2>3 DEF Echo
    <3> QED
      BY <2>1, <3>1, BehindFrame
  <2> QED
    BY <2>2, <2>3
<1>16. ASSUME Restart PROVE BehindInv'
  BY <1>16 DEF Restart, TypeOK
<1>17. ASSUME NEW e \in Events, Reload(e) PROVE BehindInv'
  BY <1>17 DEF Reload, FirstLifeInv, ReferenceInv
<1> QED
  BY <1>1, <1>2, <1>3, <1>4, <1>5, <1>6, <1>7, <1>8, <1>9, <1>10, <1>11, <1>12, <1>13, <1>14,
     <1>15, <1>16, <1>17 DEF Next, User, Encryption, Answer

-----------------------------------------------------------------------------
(* The theorems.                                                           *)

\* The initial state satisfies the invariant.
LEMMA InitInv == Init => TypeOK /\ SendingInv
<1> SUFFICES ASSUME Init PROVE TypeOK /\ SendingInv
  OBVIOUS
<1>1. QueuedEvents = {} /\ IsInjective(queue)
  BY EmptyQueue DEF Init, QueuedEvents
<1>2. TypeOK
  <2>1. queue \in Seq(Events) /\ server \in Seq(Events)
    BY DEF Init
  <2> QED
    BY <2>1, SendingAssumption DEF Init, TypeOK, Statuses, Tasks, Phases
<1>3. SchedulerInv
  BY <1>1, SendingAssumption DEF Init, SchedulerInv
<1>4. RequestInv /\ TaskInv
  BY DEF Init, RequestInv, TaskInv
<1> QED
  BY <1>2, <1>3, <1>4 DEF SendingInv

\* A step that changes nothing preserves the invariant.
LEMMA StutterInv ==
    ASSUME TypeOK, SendingInv, UNCHANGED vars
    PROVE  TypeOK' /\ SendingInv'
<1> USE DEF vars, clientVars, roomVars, schedVars, netVars, syncVars, bounds
<1>1. TypeOK'
  BY DEF TypeOK
<1>2. QueuedEvents' = QueuedEvents
  BY DEF QueuedEvents
<1>3. SchedulerInv'
  BY <1>2 DEF SendingInv, SchedulerInv
<1>4. RequestInv' /\ TaskInv'
  BY DEF SendingInv, RequestInv, TaskInv
<1> QED
  BY <1>1, <1>3, <1>4 DEF SendingInv

\* Whatever the events, rooms and limits: every reachable state has the types
\* of TypeOK and satisfies the inductive invariant of the send queue.
THEOREM Invariance == Spec => [](TypeOK /\ SendingInv)
<1>1. Init => TypeOK /\ SendingInv
  BY InitInv
<1>2. TypeOK /\ SendingInv /\ [Next]_vars => TypeOK' /\ SendingInv'
  <2> SUFFICES ASSUME TypeOK, SendingInv, [Next]_vars
               PROVE  TypeOK' /\ SendingInv'
    OBVIOUS
  <2>1. CASE Next
    BY <2>1, TypeStep, SchedulerStep, RequestStep, TaskStep DEF SendingInv
  <2>2. CASE UNCHANGED vars
    BY <2>2, StutterInv
  <2> QED
    BY <2>1, <2>2
<1> QED
  BY <1>1, <1>2, PTL DEF Spec

\* Types: statuses, requests and the queue stay what client.ts, room.ts and
\* scheduler.ts let them be.
THEOREM TypeCorrect == Spec => []TypeOK
BY Invariance, PTL

\* removeNextEvent drops the event whose request was answered: while the
\* request of a queued event is out, that event is the head of the queue and
\* no other queued event has a request.
THEOREM HeadOnly == Spec => []OnlyHeadIsSent
<1>1. TypeOK /\ SendingInv => OnlyHeadIsSent
  <2> SUFFICES ASSUME TypeOK, SendingInv, NEW e \in Queueable, req[e] # "none"
               PROVE  phase = "http" /\ cur = e /\ queue # <<>> /\ Head(queue) = e
    BY DEF OnlyHeadIsSent
  <2>1. phase = "http" /\ cur = e
    BY SendingAssumption DEF SendingInv, RequestInv
  <2>2. e \in QueuedEvents /\ Head(queue) = e
    BY <2>1 DEF SendingInv, SchedulerInv
  <2> QED
    BY <2>1, <2>2, EmptyQueue DEF QueuedEvents
<1> QED
  BY <1>1, Invariance, PTL

\* cancelPendingEvent really withdraws the event: it is not queued, not
\* requested, not pending, and no suspended send will continue with it.
THEOREM Withdrawn == Spec => []CancelledIsWithdrawn
<1>1. TypeOK /\ SendingInv => CancelledIsWithdrawn
  <2> SUFFICES ASSUME TypeOK, SendingInv, NEW e \in Events, status[e] = "cancelled"
               PROVE  /\ e \notin QueuedEvents /\ req[e] = "none" /\ e \notin pending
                      /\ task[e] # "idle" => e \notin eventsBeingEncrypted
    BY DEF CancelledIsWithdrawn
  <2>1. e \notin QueuedEvents
    BY DEF SendingInv, SchedulerInv
  <2>2. e \notin pending /\ e \notin eventsBeingEncrypted
    BY DEF SendingInv, TaskInv
  <2>3. req[e] = "none"
    <3>1. CASE e \in Queueable
      BY <2>1, <3>1 DEF SendingInv, RequestInv, SchedulerInv
    <3>2. CASE e \notin Queueable
      BY <3>2 DEF SendingInv, RequestInv
    <3> QED
      BY <3>1, <3>2
  <2> QED
    BY <2>1, <2>2, <2>3
<1> QED
  BY <1>1, Invariance, PTL

\* The queue is never left without processQueue: while it has entries the
\* scheduler works on its head, or is about to find that the entry it took
\* was cancelled.
THEOREM Served == Spec => []QueueIsServed
<1>1. TypeOK /\ SendingInv => QueueIsServed
  <2> SUFFICES ASSUME TypeOK, SendingInv PROVE QueueIsServed
    OBVIOUS
  <2>1. queue # <<>> => phase # "inactive"
    BY DEF SendingInv, SchedulerInv
  <2>2. cur \in QueuedEvents => cur = Head(queue)
    BY DEF SendingInv, SchedulerInv
  <2>3. queue # <<>> /\ cur \notin QueuedEvents => phase \in {"turn", "backoff"}
    <3>1. phase \in {"inactive", "turn", "http", "backoff"}
      BY DEF TypeOK, Phases
    <3> QED
      BY <2>1, <3>1 DEF SendingInv, SchedulerInv
  <2> QED
    BY <2>1, <2>2, <2>3 DEF QueueIsServed
<1> QED
  BY <1>1, Invariance, PTL

\* Appended to the invariant of the send queue: the local echoes agree with
\* the pending list, what may be written is written, and until the first
\* restart no event is left in between or shown twice.
THEOREM EchoInvariance == Spec => [](LocalEchoInv /\ PendingIsStored /\ FirstLifeInv)
<1>1. Init => LocalEchoInv /\ PendingIsStored /\ FirstLifeInv
  <2> SUFFICES ASSUME Init PROVE LocalEchoInv /\ PendingIsStored /\ FirstLifeInv
    OBVIOUS
  <2>1. ToSet(server) = {}
    BY EmptyQueue DEF Init
  <2>2. LocalEchoInv
    BY <2>1 DEF Init, LocalEchoInv, Unsettled
  <2>3. PendingIsStored
    BY DEF Init, PendingIsStored
  <2>4. FirstLifeInv
    BY DEF Init, FirstLifeInv, NoOrphan, ShownOnce, ReferenceInv, BehindInv
  <2> QED
    BY <2>2, <2>3, <2>4
<1>2. /\ TypeOK /\ SendingInv /\ LocalEchoInv /\ PendingIsStored /\ FirstLifeInv
      /\ [Next]_vars
      => LocalEchoInv' /\ PendingIsStored' /\ FirstLifeInv'
  <2> SUFFICES ASSUME TypeOK, SendingInv, LocalEchoInv, PendingIsStored, FirstLifeInv, [Next]_vars
               PROVE  LocalEchoInv' /\ PendingIsStored' /\ FirstLifeInv'
    OBVIOUS
  <2>1. CASE Next
    BY <2>1, LocalEchoStep, StoredStep, OrphanStep, ShownStep, ReferenceStep, BehindStep DEF
       FirstLifeInv
  <2>2. CASE UNCHANGED vars
    <3> USE <2>2 DEF vars
    <3>1. QueuedEvents' = QueuedEvents
      BY DEF QueuedEvents
    <3>2. LocalEchoInv' /\ PendingIsStored'
      BY DEF LocalEchoInv, PendingIsStored
    <3>3. FirstLifeInv'
      BY <3>1 DEF FirstLifeInv, NoOrphan, ShownOnce, ReferenceInv, BehindInv
    <3> QED
      BY <3>2, <3>3
  <2> QED
    BY <2>1, <2>2
<1> QED
  BY <1>1, <1>2, Invariance, PTL DEF Spec

\* savePendingEvents is called for every change that matters: what is pending
\* and may be written is in local storage, in every state, restarts included.
THEOREM Stored == Spec => []PendingIsStored
BY EchoInvariance, PTL

\* Until the first restart every local echo that claims to be on its way has
\* code that will finish it.
THEOREM Attended == Spec => [](restarts = 0 => NoOrphan)
<1>1. FirstLifeInv => (restarts = 0 => NoOrphan)
  BY DEF FirstLifeInv
<1> QED
  BY <1>1, EchoInvariance, PTL

\* Until the first restart handleRemoteEcho and updatePendingEvent show every
\* message once, whatever the order of the echo and the answer.
THEOREM OneCopy == Spec => [](restarts = 0 => ShownOnce)
<1>1. FirstLifeInv => (restarts = 0 => ShownOnce)
  BY DEF FirstLifeInv
<1> QED
  BY <1>1, EchoInvariance, PTL

\* Until the first restart a relation that was queued behind its target is
\* sent with the id the server gave the target, unless that was cancelled.
THEOREM Resolved == Spec => [](restarts = 0 => QueuedRelationResolved)
<1>1. TypeOK /\ SendingInv /\ FirstLifeInv => (restarts = 0 => QueuedRelationResolved)
  <2> SUFFICES ASSUME TypeOK, SendingInv, BehindInv, phase = "http", cur \in behind,
                      status[Target[cur]] # "cancelled"
               PROVE  assoc[cur] = "remote"
    BY DEF FirstLifeInv, QueuedRelationResolved
  <2>1. queue # <<>> /\ cur = Head(queue) /\ IsInjective(queue) /\ queue \in Seq(Events)
    BY EmptyQueue DEF SendingInv, SchedulerInv, QueuedEvents, TypeOK
  <2>2. ~IsBefore(queue, Target[cur], cur)
    BY <2>1, NotBeforeHead
  <2> QED
    BY <2>2 DEF BehindInv
<1> QED
  BY <1>1, Invariance, EchoInvariance, PTL

=============================================================================

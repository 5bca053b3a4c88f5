--------------------------- MODULE RtcMembership ---------------------------
(***************************************************************************)
(* The membership of this device in a MatrixRTC call                       *)
(* (js/matrixrtc/MembershipManager.ts, MembershipManagerActionScheduler.ts,*)
(* and join and leave of MatrixRTCSession.ts).                             *)
(* A manager runs scheduled actions one after the other.  Each sends a     *)
(* request and schedules what follows from the answer: a delayed leave     *)
(* event that the server sends should the client vanish, the membership    *)
(* event, restarts of the delayed event, updates of the expiry, and at the *)
(* end the leave event.  leave() and a membership that sync reports missing*)
(* replace the schedule, also while an action awaits its answer.  Every    *)
(* join of the session creates a manager, and an older one may still be    *)
(* leaving.                                                                *)
(*                                                                         *)
(* Delays are abstract: the next action to run is any scheduled one.       *)
(* Whether the server supports delayed events does not change, and sync    *)
(* shows the states of the membership in their order.                      *)
(***************************************************************************)
EXTENDS Integers, Sequences, FiniteSets, SequencesExt, Queues

CONSTANTS
    MaxJoins,          \* how often the session is joined
    Servers,           \* whether the server supports delayed events (MSC4140): what is possible
    CancelsOnState,    \* a state event cancels the delayed ones (before synapse #17810)
    MaxRetries,        \* maximumRateLimitRetryCount, maximumNetworkErrorRetryCount
    MaxErrors,         \* how many requests may fail
    MaxFires,          \* how often the server sends a delayed leave
    MaxIntents         \* how often updateCallIntent is called

ASSUME RtcAssumption ==
    /\ MaxJoins \in Nat \ {0}
    /\ Servers \subseteq BOOLEAN /\ CancelsOnState \in BOOLEAN
    /\ MaxRetries \in Nat /\ MaxErrors \in Nat /\ MaxFires \in Nat /\ MaxIntents \in Nat

VARIABLES
    current,       \* the manager of the session, 0 before the first join
    told,          \* the last JoinStateChanged
    running,       \* scheduler.running
    activated,
    leaving,       \* leavePromiseResolvers: "none", "pending", "true" once resolved
    actions,       \* the types of scheduler.actions
    wakeup,        \* the wakeupUpdate that came while a handler awaits
    request,       \* the request the handler awaits
    intent,        \* the request of updateCallIntent
    hasMember,     \* state.hasMemberStateEvent
    delayId,       \* state.delayId
    own,           \* ownMembership is there
    probablyLeft,  \* state.probablyLeft
    retries,       \* state.rateLimitRetries, state.networkErrorRetries
    supported,     \* server: it supports delayed events
    member,        \* server: the manager whose membership is in the room, 0 if none
    delayed,       \* server: the delayed leave events it holds
    stream,        \* sync: whether our membership is there, changes on their way
    seen,          \* sync: whether it is there in the room state of the client
    errors, fires, intents,
    died,          \* history: managers stopped by an unrecoverable error
    misled         \* history: managers that may not know of their membership

managerVars == <<running, activated, leaving, actions, wakeup, request, hasMember, delayId, own,
                 probablyLeft, retries>>
serverVars  == <<supported, member, delayed, stream, seen>>
bounds      == <<errors, fires, intents>>
history     == <<died, misled>>
vars == <<current, told, managerVars, intent, serverVars, bounds, history>>

Managers == 1..MaxJoins

ActionTypes == {"SendDelayedEvent", "SendJoinEvent", "RestartDelayedEvent", "UpdateExpiry",
                "SendScheduledDelayedLeaveEvent", "SendLeaveEvent"}

\* An id for each delayed event there can be at a time.
DelayIds == 1..(4 * MaxJoins + MaxErrors)
NoId == 0

Answers == {"none", "ok", "notFound", "maxDelay", "unsupported", "retry", "other"}
NoRequest == [kind |-> "none", id |-> NoId, answer |-> "none"]
Requests  == [kind : ActionTypes \cup {"CancelDelayedEvent"}, id : DelayIds \cup {NoId}, answer : Answers]

TypeOK ==
    /\ current \in 0..MaxJoins /\ told \in BOOLEAN
    /\ \A m \in Managers : running[m] => actions[m] # <<>>
    /\ running \in [Managers -> BOOLEAN] /\ activated \in [Managers -> BOOLEAN]
    /\ leaving \in [Managers -> {"none", "pending", "true"}]
    /\ actions \in [Managers -> Seq(ActionTypes)]
    /\ wakeup \in [Managers -> {"none", "join", "leave"}]
    /\ request \in [Managers -> Requests \cup {NoRequest}]
    /\ intent \in [Managers -> Requests \cup {NoRequest}]
    /\ hasMember \in [Managers -> BOOLEAN] /\ own \in [Managers -> BOOLEAN]
    /\ probablyLeft \in [Managers -> BOOLEAN]
    /\ delayId \in [Managers -> DelayIds \cup {NoId}]
    /\ retries \in [Managers -> [ActionTypes -> 0..MaxRetries]]
    /\ supported \in Servers /\ member \in 0..MaxJoins
    /\ delayed \subseteq DelayIds
    /\ stream \in Seq(BOOLEAN) /\ seen \in BOOLEAN
    /\ errors \in 0..MaxErrors /\ fires \in 0..MaxFires /\ intents \in 0..MaxIntents
    /\ died \subseteq Managers /\ misled \subseteq Managers

Init ==
    /\ current = 0 /\ told = FALSE
    /\ running = [m \in Managers |-> FALSE]
    /\ activated = [m \in Managers |-> FALSE]
    /\ leaving = [m \in Managers |-> "none"]
    /\ actions = [m \in Managers |-> <<>>]
    /\ wakeup = [m \in Managers |-> "none"]
    /\ request = [m \in Managers |-> NoRequest]
    /\ intent = [m \in Managers |-> NoRequest]
    /\ hasMember = [m \in Managers |-> FALSE]
    /\ delayId = [m \in Managers |-> NoId]
    /\ own = [m \in Managers |-> FALSE]
    /\ probablyLeft = [m \in Managers |-> FALSE]
    /\ retries = [m \in Managers |-> [a \in ActionTypes |-> 0]]
    /\ supported \in Servers /\ member = 0 /\ delayed = {} /\ stream = <<>> /\ seen = FALSE
    /\ errors = 0 /\ fires = 0 /\ intents = 0 /\ died = {} /\ misled = {}

-----------------------------------------------------------------------------
(* ActionScheduler.                                                        *)

\* What the handler's "insert" makes of the schedule, after an action of type a.
Insert(m, a, new) == RemoveFirst(actions[m], a) \o new

\* The actions that are left; without one the loop and the manager end, and
\* leave() resolves.
Left(m, acts) ==
    /\ actions' = [actions EXCEPT ![m] = acts]
    /\ wakeup' = [wakeup EXCEPT ![m] = "none"]
    /\ request' = [request EXCEPT ![m] = NoRequest]
    /\ IF acts # <<>>
       THEN UNCHANGED <<running, activated, leaving>>
       ELSE /\ running' = [running EXCEPT ![m] = FALSE]
            /\ activated' = [activated EXCEPT ![m] = FALSE]
            /\ leaving' = [leaving EXCEPT ![m] = IF @ = "pending" THEN "true" ELSE @]
    /\ UNCHANGED <<told, died>>

GoOn_handlerWins(m, acts) == Left(m, acts)

\* The loop goes on with what the handler made of the actions, unless a wakeup
\* came meanwhile: it wins.
GoOn(m, acts) ==
    Left(m, CASE wakeup[m] = "join"  -> <<"SendDelayedEvent">>
              [] wakeup[m] = "leave" -> <<"SendScheduledDelayedLeaveEvent">>
              [] wakeup[m] = "none"  -> acts)

\* An action throws: onError tells the session, and only then the manager is
\* no longer activated.  The scheduled actions stay.
Throw(m) ==
    /\ running' = [running EXCEPT ![m] = FALSE]
    /\ activated' = [activated EXCEPT ![m] = FALSE]
    /\ leaving' = [leaving EXCEPT ![m] = IF @ = "pending" THEN "true" ELSE @]
    /\ told' = activated[current]
    /\ died' = died \cup {m}
    /\ wakeup' = [wakeup EXCEPT ![m] = "none"]
    /\ request' = [request EXCEPT ![m] = NoRequest]
    /\ UNCHANGED actions

\* scheduler.wakeup: an action that runs ends first.
WakeUp(m, u) ==
    IF request[m] # NoRequest
    THEN wakeup' = [wakeup EXCEPT ![m] = u] /\ UNCHANGED actions
    ELSE /\ actions' = [actions EXCEPT ![m] =
                IF u = "join" THEN <<"SendDelayedEvent">> ELSE <<"SendScheduledDelayedLeaveEvent">>]
         /\ UNCHANGED wakeup

-----------------------------------------------------------------------------
(* MembershipManager: what an action does until it awaits an answer.       *)

Ask(m, kind) ==
    /\ request' = [request EXCEPT ![m] = [kind |-> kind, id |-> delayId[m], answer |-> "none"]]
    /\ UNCHANGED <<actions, wakeup, running, activated, leaving, told, died>>

SendDelayedEvent_neverCancels(m) == Ask(m, "SendDelayedEvent")

\* Cancel a delayed event that is left, or send one.
SendDelayedEvent(m) ==
    Ask(m, IF delayId[m] = NoId THEN "SendDelayedEvent" ELSE "CancelDelayedEvent")

RestartDelayedEvent(m) ==
    IF delayId[m] = NoId
    THEN GoOn(m, Insert(m, "RestartDelayedEvent", <<"SendDelayedEvent">>))
    ELSE Ask(m, "RestartDelayedEvent")

SendScheduledDelayedLeaveEvent_noFallback(m) ==
    IF ~hasMember[m] \/ delayId[m] = NoId THEN GoOn(m, <<>>) ELSE Ask(m, "SendScheduledDelayedLeaveEvent")

SendScheduledDelayedLeaveEvent(m) ==
    IF ~hasMember[m] THEN GoOn(m, <<>>)
    ELSE IF delayId[m] = NoId
         THEN GoOn(m, Insert(m, "SendScheduledDelayedLeaveEvent", <<"SendLeaveEvent">>))
         ELSE Ask(m, "SendScheduledDelayedLeaveEvent")

SendLeaveEvent(m) == IF hasMember[m] THEN Ask(m, "SendLeaveEvent") ELSE GoOn(m, <<>>)

\* A scheduled action runs.
Begin(m, a) ==
    /\ running[m] /\ request[m] = NoRequest /\ Contains(actions[m], a)
    /\ \/ a = "SendDelayedEvent" /\ SendDelayedEvent(m)
       \/ a = "RestartDelayedEvent" /\ RestartDelayedEvent(m)
       \/ a = "SendScheduledDelayedLeaveEvent" /\ SendScheduledDelayedLeaveEvent(m)
       \/ a = "SendLeaveEvent" /\ SendLeaveEvent(m)
       \/ a \in {"SendJoinEvent", "UpdateExpiry"} /\ Ask(m, a)
    /\ UNCHANGED <<current, intent, hasMember, delayId, own, probablyLeft, retries, serverVars,
                   bounds, misled>>

-----------------------------------------------------------------------------
(* The server, and sync.                                                   *)

FreeId ==
    LET taken == delayed \cup {delayId[m] : m \in Managers} \cup {request[m].id : m \in Managers}
    IN  CHOOSE d \in DelayIds \ taken : \A e \in DelayIds \ taken : d <= e

\* The room state changes to the membership of m, or to none; sync will tell.
SetMember(m) ==
    /\ member' = m
    /\ stream' = IF (m # 0 \/ member # 0) /\ (stream = <<>> \/ Last(stream) # (m # 0))
                 THEN Append(stream, m # 0) ELSE stream

\* The server does what r asks for, and its answer is ans.
Accept(m, r, ans) ==
    \/ /\ r.kind = "SendDelayedEvent"
       /\ delayed' = delayed \cup {FreeId} /\ ans = "ok"
       /\ UNCHANGED <<member, stream>>
    \/ /\ r.kind \in {"CancelDelayedEvent", "RestartDelayedEvent", "SendScheduledDelayedLeaveEvent"}
       /\ ans = IF r.id \in delayed THEN "ok" ELSE "notFound"
       /\ delayed' = IF r.kind = "RestartDelayedEvent" THEN delayed ELSE delayed \ {r.id}
       /\ IF r.kind = "SendScheduledDelayedLeaveEvent" /\ ans = "ok"
          THEN SetMember(0) ELSE UNCHANGED <<member, stream>>
    \/ /\ r.kind \in {"SendJoinEvent", "UpdateExpiry", "SendLeaveEvent"}
       /\ ans = "ok"
       /\ SetMember(IF r.kind = "SendLeaveEvent" THEN 0 ELSE m)
       /\ delayed' = IF CancelsOnState THEN {} ELSE delayed

\* A request is answered, or fails: with or without its effect if no answer
\* arrives or the server has an error, without it if it is refused.
Answered(m, r, r2) ==
    \/ /\ r.kind = "SendDelayedEvent" => supported
       /\ \E ans \in {"ok", "notFound"} :
              /\ Accept(m, r, ans)
              /\ r2 = [r EXCEPT !.answer = ans,
                                !.id = IF r.kind = "SendDelayedEvent" THEN FreeId ELSE @]
       /\ misled' = IF r.kind = "UpdateExpiry" /\ ~hasMember[m] THEN misled \cup {m} ELSE misled
       /\ UNCHANGED errors
    \/ /\ r.kind = "SendDelayedEvent" /\ ~supported
       /\ r2 = [r EXCEPT !.answer = "unsupported"]
       /\ UNCHANGED <<member, delayed, stream, errors, misled>>
    \/ /\ r.kind = "SendDelayedEvent" => supported
       /\ errors < MaxErrors /\ errors' = errors + 1
       /\ \/ /\ \E ans \in {"ok", "notFound"} : Accept(m, r, ans)
             /\ r2 = [r EXCEPT !.answer = "retry"]
             /\ misled' = misled \cup {m}
          \/ /\ r2 \in {[r EXCEPT !.answer = a] : a \in {"retry", "other"} \cup
                            (IF r.kind = "SendDelayedEvent" THEN {"maxDelay"} ELSE {})}
             /\ UNCHANGED <<member, delayed, stream, misled>>

PossibleAnswers(r) == [kind : {r.kind}, id : {r.id, FreeId}, answer : Answers]

ServerAnswers(m) ==
    /\ \/ /\ request[m] # NoRequest /\ request[m].answer = "none"
          /\ \E r \in PossibleAnswers(request[m]) :
                 Answered(m, request[m], r) /\ request' = [request EXCEPT ![m] = r]
          /\ UNCHANGED intent
       \/ /\ intent[m] # NoRequest /\ intent[m].answer = "none"
          /\ \E r \in PossibleAnswers(intent[m]) :
                 Answered(m, intent[m], r) /\ intent' = [intent EXCEPT ![m] = r]
          /\ UNCHANGED request
    /\ UNCHANGED <<current, told, running, activated, leaving, actions, wakeup, hasMember, delayId,
                   own, probablyLeft, retries, supported, seen, fires, intents, died>>

\* The server sends a delayed leave that was not restarted in time.
Fire ==
    /\ fires < MaxFires /\ fires' = fires + 1
    /\ \E d \in delayed : delayed' = delayed \ {d}
    /\ SetMember(0)
    /\ UNCHANGED <<current, told, managerVars, intent, supported, seen, errors, intents, history>>

-----------------------------------------------------------------------------
(* MembershipManager: the answer arrives.                                  *)

Reset(m, a) == retries' = [retries EXCEPT ![m][a] = 0]

\* actionUpdateFromErrors: action a runs again instead of the one that failed,
\* until its retries are used up.
Retry(m, failed, a) ==
    IF retries[m][a] < MaxRetries
    THEN /\ retries' = [retries EXCEPT ![m][a] = @ + 1]
         /\ GoOn(m, Insert(m, failed, <<a>>))
    ELSE Throw(m) /\ UNCHANGED retries

\* sendOrResendDelayedLeaveEvent
DelayedEventAnswered(m, ans) ==
    /\ request[m].kind = "SendDelayedEvent"
    /\ \/ /\ ans = "ok"
          /\ delayId' = [delayId EXCEPT ![m] = request[m].id]
          /\ probablyLeft' = [probablyLeft EXCEPT ![m] = FALSE]
          /\ Reset(m, "SendDelayedEvent")
          /\ GoOn(m, Insert(m, "SendDelayedEvent",
                            <<IF hasMember[m] THEN "RestartDelayedEvent" ELSE "SendJoinEvent">>))
       \/ /\ ans = "maxDelay"
          /\ GoOn(m, Insert(m, "SendDelayedEvent", <<"SendDelayedEvent">>))
          /\ UNCHANGED <<delayId, probablyLeft, retries>>
       \/ /\ ans = "retry"
          /\ Retry(m, "SendDelayedEvent", "SendDelayedEvent")
          /\ UNCHANGED <<delayId, probablyLeft>>
       \/ /\ ans \in {"unsupported", "other"}
          /\ IF ~hasMember[m] THEN GoOn(m, Insert(m, "SendDelayedEvent", <<"SendJoinEvent">>))
             ELSE IF ans = "unsupported" THEN GoOn(m, Insert(m, "SendDelayedEvent", <<>>))
                  ELSE Throw(m)
          /\ UNCHANGED <<delayId, probablyLeft, retries>>
    /\ UNCHANGED hasMember

\* cancelKnownDelayIdBeforeSendDelayedEvent
CancelAnswered(m, ans) ==
    /\ request[m].kind = "CancelDelayedEvent"
    /\ \/ /\ ans \in {"ok", "notFound"}
          /\ delayId' = [delayId EXCEPT ![m] = NoId]
          /\ IF ans = "ok" THEN Reset(m, "SendDelayedEvent") ELSE UNCHANGED retries
          /\ GoOn(m, <<"SendDelayedEvent">>)
       \/ ans = "retry" /\ Retry(m, "SendDelayedEvent", "SendDelayedEvent") /\ UNCHANGED delayId
       \/ ans = "other" /\ Throw(m) /\ UNCHANGED <<delayId, retries>>
    /\ UNCHANGED <<hasMember, probablyLeft>>

\* restartDelayedEvent
RestartAnswered(m, ans) ==
    /\ request[m].kind = "RestartDelayedEvent"
    /\ \/ /\ ans = "ok"
          /\ probablyLeft' = [probablyLeft EXCEPT ![m] = FALSE]
          /\ Reset(m, "RestartDelayedEvent")
          /\ GoOn(m, Insert(m, "RestartDelayedEvent", <<"RestartDelayedEvent">>))
          /\ UNCHANGED delayId
       \/ /\ ans # "ok"
          /\ \E p \in {probablyLeft[m], TRUE} : probablyLeft' = [probablyLeft EXCEPT ![m] = p]
          /\ \/ /\ ans = "notFound"
                /\ delayId' = [delayId EXCEPT ![m] = NoId]
                /\ GoOn(m, Insert(m, "RestartDelayedEvent", <<"SendDelayedEvent">>))
                /\ UNCHANGED retries
             \/ ans = "retry" /\ Retry(m, "RestartDelayedEvent", "RestartDelayedEvent") /\ UNCHANGED delayId
             \/ ans = "other" /\ Throw(m) /\ UNCHANGED <<delayId, retries>>
    /\ UNCHANGED hasMember

\* sendScheduledDelayedLeaveEventOrFallbackToSendLeaveEvent
ScheduledLeaveAnswered(m, ans) ==
    /\ request[m].kind = "SendScheduledDelayedLeaveEvent"
    /\ \/ /\ ans = "ok"
          /\ hasMember' = [hasMember EXCEPT ![m] = FALSE]
          /\ Reset(m, "SendScheduledDelayedLeaveEvent")
          /\ GoOn(m, <<>>)
       \/ /\ ans = "retry"
          /\ Retry(m, "SendScheduledDelayedLeaveEvent", "SendLeaveEvent") /\ UNCHANGED hasMember
       \/ /\ ans \in {"notFound", "other"}
          /\ GoOn(m, Insert(m, "SendScheduledDelayedLeaveEvent", <<"SendLeaveEvent">>))
          /\ UNCHANGED <<hasMember, retries>>
    /\ delayId' = [delayId EXCEPT ![m] = IF ans \in {"ok", "notFound"} THEN NoId ELSE @]
    /\ UNCHANGED probablyLeft

\* sendJoinEvent: what is scheduled stays, but an old expiry update.
JoinAnswered(m, ans) ==
    /\ request[m].kind = "SendJoinEvent"
    /\ \/ /\ ans = "ok"
          /\ hasMember' = [hasMember EXCEPT ![m] = TRUE]
          /\ probablyLeft' = [probablyLeft EXCEPT ![m] = FALSE]
          /\ Reset(m, "SendJoinEvent")
          /\ GoOn(m, Without(actions[m], {"UpdateExpiry", "SendJoinEvent"})
                     \o <<"RestartDelayedEvent", "UpdateExpiry">>)
       \/ ans = "retry" /\ Retry(m, "SendJoinEvent", "SendJoinEvent") /\ UNCHANGED <<hasMember,
                                                                                     probablyLeft>>
       \/ ans = "other" /\ Throw(m) /\ UNCHANGED <<hasMember, probablyLeft, retries>>
    /\ UNCHANGED delayId

ExpiryAnswered_once(m, ans) ==
    /\ request[m].kind = "UpdateExpiry"
    /\ GoOn(m, Insert(m, "UpdateExpiry", <<>>))
    /\ UNCHANGED <<hasMember, delayId, probablyLeft, retries>>

\* updateExpiryOnJoinedEvent
ExpiryAnswered(m, ans) ==
    /\ request[m].kind = "UpdateExpiry"
    /\ \/ ans = "ok" /\ Reset(m, "UpdateExpiry") /\ GoOn(m, Insert(m, "UpdateExpiry", <<"UpdateExpiry">>))
       \/ ans = "retry" /\ Retry(m, "UpdateExpiry", "UpdateExpiry")
       \/ ans = "other" /\ Throw(m) /\ UNCHANGED retries
    /\ UNCHANGED <<hasMember, delayId, probablyLeft>>

\* sendFallbackLeaveEvent
LeaveAnswered(m, ans) ==
    /\ request[m].kind = "SendLeaveEvent"
    /\ \/ /\ ans = "ok"
          /\ hasMember' = [hasMember EXCEPT ![m] = FALSE]
          /\ Reset(m, "SendLeaveEvent")
          /\ GoOn(m, <<>>)
       \/ ans = "retry" /\ Retry(m, "SendLeaveEvent", "SendLeaveEvent") /\ UNCHANGED hasMember
       \/ ans = "other" /\ Throw(m) /\ UNCHANGED <<hasMember, retries>>
    /\ UNCHANGED <<delayId, probablyLeft>>

HandleAnswer(m) ==
    /\ request[m].answer # "none"
    /\ LET ans == request[m].answer IN
       \/ DelayedEventAnswered(m, ans) \/ CancelAnswered(m, ans) \/ RestartAnswered(m, ans)
       \/ ScheduledLeaveAnswered(m, ans) \/ JoinAnswered(m, ans) \/ ExpiryAnswered(m, ans)
       \/ LeaveAnswered(m, ans)
    /\ UNCHANGED <<current, intent, own, serverVars, bounds, misled>>

-----------------------------------------------------------------------------
(* The session and its user.                                               *)

\* joinRTCSession, join
Join ==
    /\ current < MaxJoins /\ (current # 0 => ~activated[current])
    /\ current' = current + 1 /\ told' = TRUE
    /\ running' = [running EXCEPT ![current'] = TRUE]
    /\ activated' = [activated EXCEPT ![current'] = TRUE]
    /\ actions' = [actions EXCEPT ![current'] = <<"SendDelayedEvent">>]
    /\ UNCHANGED <<leaving, wakeup, request, hasMember, delayId, own, probablyLeft, retries, intent,
                   serverVars, bounds, history>>

\* leaveRoomSession, leave
Leave ==
    /\ current # 0 /\ activated[current]
    /\ told' = FALSE
    /\ activated' = [activated EXCEPT ![current] = FALSE]
    /\ leaving' = [leaving EXCEPT ![current] = "pending"]
    /\ WakeUp(current, "leave")
    /\ UNCHANGED <<current, running, request, hasMember, delayId, own, probablyLeft, retries, intent,
                   serverVars, bounds, history>>

OnMemberUpdate_keepsState(m, there) ==
    /\ UNCHANGED <<hasMember, misled>>
    /\ IF m = 0 \/ ~activated[m]
       THEN UNCHANGED <<own, actions, wakeup>>
       ELSE /\ own' = [own EXCEPT ![m] = there]
            /\ IF there \/ Contains(actions[m], "SendDelayedEvent") \/ Contains(actions[m], "SendJoinEvent")
               THEN UNCHANGED <<actions, wakeup>> ELSE WakeUp(m, "join")

\* onRTCSessionMemberUpdate, with our membership there or not: a missing one is
\* sent again unless that is scheduled.
OnMemberUpdate(m, there) ==
    IF m = 0 \/ ~activated[m]
    THEN UNCHANGED <<own, hasMember, actions, wakeup, misled>>
    ELSE /\ own' = [own EXCEPT ![m] = there]
         /\ misled' = IF ~there /\ member = m THEN misled \cup {m} ELSE misled
         /\ IF there THEN UNCHANGED <<hasMember, actions, wakeup>>
            ELSE /\ hasMember' = [hasMember EXCEPT ![m] = FALSE]
                 /\ IF Contains(actions[m], "SendDelayedEvent") \/ Contains(actions[m], "SendJoinEvent")
                    THEN UNCHANGED <<actions, wakeup>>
                    ELSE WakeUp(m, "join")

\* Sync brings a change of our membership.
Deliver ==
    /\ stream # <<>>
    /\ stream' = Tail(stream) /\ seen' = Head(stream)
    /\ OnMemberUpdate(current, Head(stream))
    /\ UNCHANGED <<current, told, running, activated, leaving, request, delayId, probablyLeft, retries,
                   intent, supported, member, delayed, bounds, died>>

\* Sync brings a change of another member, and ours is as it was.
OtherMemberChanges ==
    /\ OnMemberUpdate(current, seen)
    /\ UNCHANGED <<current, told, running, activated, leaving, request, delayId, probablyLeft, retries,
                   intent, serverVars, bounds, died>>

\* updateCallIntent sends the membership beside the schedule.
UpdateCallIntent ==
    /\ current # 0 /\ activated[current] /\ own[current] /\ intent[current] = NoRequest
    /\ intents < MaxIntents /\ intents' = intents + 1
    /\ intent' = [intent EXCEPT ![current] = [kind |-> "SendJoinEvent", id |-> NoId, answer |-> "none"]]
    /\ UNCHANGED <<current, told, managerVars, serverVars, errors, fires, history>>

\* Its answer: what sendJoinEvent would schedule is dropped.
IntentAnswered(m) ==
    /\ intent[m].answer # "none"
    /\ intent' = [intent EXCEPT ![m] = NoRequest]
    /\ \/ /\ intent[m].answer = "ok"
          /\ hasMember' = [hasMember EXCEPT ![m] = TRUE]
          /\ probablyLeft' = [probablyLeft EXCEPT ![m] = FALSE]
          /\ Reset(m, "SendJoinEvent")
       \/ /\ intent[m].answer = "retry"
          /\ retries' = [retries EXCEPT ![m]["SendJoinEvent"] = IF @ < MaxRetries THEN @ + 1 ELSE @]
          /\ UNCHANGED <<hasMember, probablyLeft>>
       \/ /\ intent[m].answer = "other"
          /\ UNCHANGED <<hasMember, probablyLeft, retries>>
    /\ UNCHANGED <<current, told, running, activated, leaving, actions, wakeup, request, delayId, own,
                   serverVars, bounds, history>>

ManagerStep(m) ==
    \/ \E a \in ActionTypes : Begin(m, a)
    \/ ServerAnswers(m) \/ HandleAnswer(m) \/ IntentAnswered(m)

Next ==
    \/ Join \/ Leave \/ UpdateCallIntent
    \/ Fire \/ Deliver \/ OtherMemberChanges
    \/ \E m \in Managers : ManagerStep(m)

Spec == Init /\ [][Next]_vars

\* Requests are answered, sync goes on, and every action has its turn: the
\* schedule is sorted by time, and an expiry update is hours away.
Fairness ==
    /\ \A m \in Managers :
           /\ WF_vars(ServerAnswers(m)) /\ WF_vars(HandleAnswer(m))
           /\ \A a \in ActionTypes \ {"UpdateExpiry"} : SF_vars(Begin(m, a))
    /\ WF_vars(Deliver)

FairSpec == Spec /\ Fairness

-----------------------------------------------------------------------------
(* Properties.                                                             *)

JoinTypes  == {"SendDelayedEvent", "SendJoinEvent", "RestartDelayedEvent"}
LeaveTypes == {"SendScheduledDelayedLeaveEvent", "SendLeaveEvent"}

Scheduled(m, types) == \E i \in 1..Len(actions[m]) : actions[m][i] \in types

\* A manager that takes part in the call is on its way to send its membership,
\* or has the next update of its expiry scheduled: else the membership would
\* be treated as expired.
MembershipIsKept ==
    intents = 0 => \A m \in Managers : running[m] /\ activated[m] =>
        \/ wakeup[m] = "join"
        \/ Scheduled(m, {"UpdateExpiry", "SendJoinEvent"})
        \/ Scheduled(m, {"SendDelayedEvent"}) /\ ~hasMember[m]

\* When leave() resolves with true, the membership is gone: unless the manager
\* gave up, or did not know of it, because sync was behind, an answer was lost,
\* or only an expiry update had restored it.
LeaveIsSent == intents = 0 => \A m \in Managers \ (died \cup misled) : leaving[m] = "true" => member # m

\* While the first manager of the session is connected, the server holds no
\* delayed leave but the one it knows: another would remove the membership
\* unexpectedly.  (One that is left before it sent its membership does not
\* cancel its delayed leave, which may then fire into the next participation.)
OnlyOwnDelayedLeave ==
    \A m \in Managers :
        (/\ current = 1 /\ running[m] /\ hasMember[m] /\ member = m
         /\ request[m] = NoRequest /\ Scheduled(m, {"RestartDelayedEvent"}))
        => delayed \subseteq {delayId[m]}

\* leave() resolves.
LeaveEnds == \A m \in Managers : leaving[m] = "pending" ~> leaving[m] = "true"

\* Who takes part in the call gets and regains a membership, until it leaves or
\* has to give up.
MembershipIsRegained ==
    \A m \in Managers : activated[m] /\ member # m ~> member = m \/ ~activated[m]

-----------------------------------------------------------------------------
(* What the comments promise and the code does not guarantee (see the      *)
(* README).                                                                *)

\* leave() resolves with true "in case the leave was sent successfully".
LeftIsLeft == \A m \in Managers \ died : leaving[m] = "true" => member # m

\* The same for a manager that gave up.
FailureIsNotLeft == \A m \in died : leaving[m] = "true" => member # m

\* What the session last told its listeners is so.
ToldIsJoined == told => activated[current]

\* status, for the shapes of the schedule that it tells apart.
Status(m) ==
    CASE actions[m] \in {<<"SendDelayedEvent">>, <<"SendJoinEvent">>} -> "Connecting"
      [] actions[m] = <<"UpdateExpiry">> -> "Connected"
      [] actions[m] \in {<<a>> : a \in LeaveTypes} -> "Disconnecting"
      [] Len(actions[m]) = 2 /\ Scheduled(m, {"UpdateExpiry"})
         /\ (Scheduled(m, {"RestartDelayedEvent"}) \/ (Scheduled(m, {"SendDelayedEvent"}) /\ hasMember[m]))
           -> "Connected"
      [] OTHER -> IF running[m] THEN "Unknown" ELSE "Disconnected"

\* status is "the actual connection status of the manager".
StatusIsActual == \A m \in Managers : ~running[m] => Status(m) = "Disconnected"
=============================================================================

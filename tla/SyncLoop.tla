------------------------------ MODULE SyncLoop ------------------------------
(***************************************************************************)
(* The sync loop (js/sync.ts) over the store that remembers what was       *)
(* synced (store/indexeddb.ts, its local backend and SyncAccumulator).     *)
(* sync() starts with the saved token and the saved data while the push    *)
(* rules and the filter are fetched; then doSync polls, processes and      *)
(* accumulates, and saves now and then.  When a request fails the loop     *)
(* waits until pokes of the server show that the connection is back.  The  *)
(* application may crash at any time and starts again from the database.   *)
(*                                                                         *)
(* The server's stream is a sequence of updates 1, 2, ...; a token is the  *)
(* number of the last update before it, 0 stands for no token.             *)
(***************************************************************************)
EXTENDS Integers, FiniteSets

CONSTANTS
    MaxUpdates,      \* bound on the server's updates
    AccountUpdates,  \* those that are account data, the others are of rooms
    Threshold,       \* FAILED_SYNC_ERROR_THRESHOLD
    MaxFaults,       \* bound on requests and other calls that fail
    MaxCrashes,      \* bound on crashes
    MaxOnline        \* bound on "online" events and retryImmediately

ASSUME SyncLoopAssumption ==
    /\ MaxUpdates \in Nat /\ AccountUpdates \subseteq 1 .. MaxUpdates
    /\ Threshold \in Nat \ {0}
    /\ MaxFaults \in Nat /\ MaxCrashes \in Nat /\ MaxOnline \in Nat

NoRequest == -1

VARIABLES
    now,             \* the last update of the server
    pc,              \* where sync() and doSync are
    saved,           \* where savedSyncPromise is
    running,
    since,           \* the token of currentSyncRequest, or of the response that is processed
    token,           \* the sync token of the store
    seen,            \* the updates that were processed
    syncState,
    failedSyncCount,
    resolvers,       \* connectionReturnedResolvers is there
    timer,           \* what keepAliveTimer will do
    strays,          \* what timers will do that keepAliveTimer no longer names
    pokes,           \* requests of pokeKeepAlive, by connDidFail
    acc,             \* SyncAccumulator: its token and updates
    writing,         \* the transactions of a save that are open
    connected,       \* the store has its database, it was not degraded to a MemoryStore
    disk,            \* the database
    excused,         \* history: updates that may be missing, see NothingMissed
    faults, crashes, online

session == <<pc, saved, running, since, token, seen, syncState, failedSyncCount,
             resolvers, timer, strays, pokes, acc, writing, connected>>
keepAlive == <<resolvers, timer, strays, pokes>>
store == <<acc, writing, connected, disk>>
bounds == <<faults, crashes, online>>
vars == <<now, session, disk, excused, bounds>>

Updates == 1 .. MaxUpdates
Startup == {"pushRules", "pushRulesFailed", "filter", "filterFailed", "started", "requested"}
Backoffs == {"pushRulesBackoff", "filterBackoff", "backoff"}
Timers == {"none", "poke", "pokeAgain", "success", "successAgain"}

Saved == [token : 0 .. MaxUpdates, rooms : SUBSET Updates, account : SUBSET Updates]

TypeOK ==
    /\ now \in 0 .. MaxUpdates
    /\ pc \in Startup \cup Backoffs \cup {"off", "head", "polling", "processing", "saving",
                                          "ended", "thrown"}
    /\ saved \in {"none", "reading", "processing", "done"}
    /\ running \in BOOLEAN
    /\ since \in {NoRequest} \cup 0 .. MaxUpdates
    /\ token \in 0 .. MaxUpdates /\ seen \subseteq Updates
    /\ syncState \in {"null", "Prepared", "Syncing", "Reconnecting", "Error", "Catchup", "Stopped"}
    /\ failedSyncCount \in 0 .. Threshold
    /\ resolvers \in BOOLEAN /\ timer \in Timers /\ strays \subseteq Timers \ {"none"}
    /\ pokes \subseteq BOOLEAN
    /\ acc \in Saved /\ disk \in Saved
    /\ writing \subseteq {"account", "rooms"} /\ connected \in BOOLEAN
    /\ excused \subseteq Updates
    /\ faults \in 0 .. MaxFaults /\ crashes \in 0 .. MaxCrashes /\ online \in 0 .. MaxOnline

Nothing == [token |-> 0, rooms |-> {}, account |-> {}]

Off ==
    /\ pc' = "off" /\ saved' = "none" /\ running' = FALSE
    /\ since' = NoRequest /\ token' = 0 /\ seen' = {}
    /\ syncState' = "null" /\ failedSyncCount' = 0
    /\ resolvers' = FALSE /\ timer' = "none" /\ strays' = {} /\ pokes' = {}
    /\ acc' = Nothing /\ writing' = {} /\ connected' = FALSE

Init ==
    /\ now = 0
    /\ pc = "off" /\ saved = "none" /\ running = FALSE
    /\ since = NoRequest /\ token = 0 /\ seen = {}
    /\ syncState = "null" /\ failedSyncCount = 0
    /\ resolvers = FALSE /\ timer = "none" /\ strays = {} /\ pokes = {}
    /\ acc = Nothing /\ writing = {} /\ connected = FALSE
    /\ disk = Nothing /\ excused = {}
    /\ faults = 0 /\ crashes = 0 /\ online = 0

-----------------------------------------------------------------------------
(* Keep-alives.                                                            *)

Fault == faults < MaxFaults /\ faults' = faults + 1

\* startKeepAlives: a poke after a while.
StartKeepAlives ==
    /\ resolvers' = TRUE /\ timer' = "poke"
    /\ UNCHANGED <<strays, pokes>>

\* connectionReturnedResolvers.resolve: what waits for the connection goes on.
ConnectionReturned(connDidFail) ==
    /\ resolvers' = FALSE
    /\ pc' = IF ~resolvers THEN pc
             ELSE CASE pc = "pushRulesBackoff" -> "pushRules"
                    [] pc = "filterBackoff" -> "filter"
                    [] pc = "backoff" -> "head"
                    [] OTHER -> pc
    /\ syncState' = IF resolvers /\ pc = "backoff" /\ connDidFail /\ syncState = "Error"
                    THEN "Catchup" ELSE syncState

\* connectionReturnedResolvers.reject: sync() is rejected if it waits.
ConnectionGivenUp ==
    /\ resolvers' = FALSE
    /\ pc' = IF resolvers /\ pc \in Backoffs THEN "thrown" ELSE pc

\* "online", or the user asks for a retry: startKeepAlives(0).
Online ==
    /\ running /\ online < MaxOnline /\ online' = online + 1
    /\ timer' = "none" /\ resolvers' = TRUE
    /\ pokes' = pokes \cup {FALSE}
    /\ UNCHANGED <<now, pc, saved, running, since, token, seen, syncState, failedSyncCount,
                   strays, store, excused, faults, crashes>>

\* A timer fires: pokeKeepAlive, or the delayed success.
Fires(what) ==
    /\ IF what \in {"success", "successAgain"}
       THEN /\ ConnectionReturned(what = "successAgain")
            /\ UNCHANGED pokes
       ELSE IF running
       THEN /\ pokes' = pokes \cup {what = "pokeAgain"}
            /\ UNCHANGED <<resolvers, pc, syncState>>
       ELSE /\ ConnectionGivenUp
            /\ UNCHANGED <<pokes, syncState>>
    /\ UNCHANGED <<now, saved, running, since, token, seen, failedSyncCount,
                   store, excused, bounds>>

TimerFires ==
    \/ /\ timer # "none" /\ timer' = "none" /\ UNCHANGED strays
       /\ Fires(timer)
    \/ \E what \in strays :
          /\ strays' = strays \ {what}
          /\ timer' = IF what \in {"success", "successAgain"} \/ ~running THEN "none" ELSE timer
          /\ Fires(what)

\* keepAliveTimer is overwritten, its timer is not cleared.
SetTimer(what) ==
    /\ timer' = what
    /\ strays' = strays \cup ({timer} \ {"none"})

\* The server answers; an answer that it does not know the request counts a bit later.
PokeSucceeds ==
    \E connDidFail \in pokes :
        /\ running
        /\ pokes' = pokes \ {connDidFail}
        /\ \/ timer' = "none" /\ UNCHANGED strays /\ ConnectionReturned(connDidFail)
           \/ /\ SetTimer(IF connDidFail THEN "successAgain" ELSE "success")
              /\ UNCHANGED <<resolvers, pc, syncState>>
        /\ UNCHANGED <<now, saved, running, since, token, seen, failedSyncCount,
                       store, excused, bounds>>

PokeFails_givesUp ==
    \E connDidFail \in pokes :
        /\ IF running THEN Fault ELSE UNCHANGED faults
        /\ pokes' = pokes \ {connDidFail}
        /\ syncState' = "Error"
        /\ UNCHANGED <<now, pc, saved, running, since, token, seen, failedSyncCount,
                       resolvers, timer, strays, store, excused, crashes, online>>

\* The next poke is scheduled; also after stop(), which aborts the request.
PokeFails ==
    \E connDidFail \in pokes :
        /\ IF running THEN Fault ELSE UNCHANGED faults
        /\ pokes' = pokes \ {connDidFail}
        /\ SetTimer("pokeAgain")
        /\ syncState' = "Error"
        /\ UNCHANGED <<now, pc, saved, running, since, token, seen, failedSyncCount,
                       resolvers, store, excused, crashes, online>>

-----------------------------------------------------------------------------
(* sync().                                                                 *)

\* The store has connected to the database and accumulated what it holds.
Start ==
    /\ pc = "off" /\ pc' = "pushRules"
    /\ running' = TRUE /\ saved' = "reading"
    /\ acc' = disk /\ connected' = TRUE
    /\ excused' = {u \in AccountUpdates : u <= disk.token} \ disk.account
    /\ UNCHANGED <<now, since, token, seen, syncState, failedSyncCount, keepAlive, writing, disk,
                   bounds>>

\* degradable: when the database fails it is to be deleted, which may fail as well.
Degrade == Fault /\ disk' \in {disk, Nothing} /\ connected' = FALSE

AllOf(data) == data.rooms \cup data.account

\* getSavedSync, and the beginning of syncFromCache.
SavedRead ==
    /\ saved = "reading"
    /\ \/ /\ acc.token # 0
          /\ token' = acc.token /\ saved' = "processing"
          /\ UNCHANGED <<connected, disk, excused, faults>>
       \/ /\ acc.token = 0
          /\ saved' = "done"
          /\ UNCHANGED <<token, connected, disk, excused, faults>>
       \/ /\ Degrade
          /\ saved' = "done"
          /\ excused' = excused \cup 1 .. acc.token
          /\ UNCHANGED token
    /\ UNCHANGED <<now, pc, running, since, seen, syncState, failedSyncCount, keepAlive,
                   acc, writing, crashes, online>>

\* The rest of syncFromCache; an error in it is logged.
SavedProcessed ==
    /\ saved = "processing" /\ saved' = "done"
    /\ syncState' = "Prepared"
    /\ \/ seen' = seen \cup AllOf(acc) /\ UNCHANGED <<excused, faults>>
       \/ Fault /\ excused' = excused \cup AllOf(acc) /\ UNCHANGED seen
    /\ UNCHANGED <<now, pc, running, since, token, failedSyncCount, keepAlive, store, crashes,
                   online>>

\* shouldAbortSync: the access token is not valid any more.
TokenUnknown ==
    /\ Fault
    /\ running' = FALSE /\ timer' = "none"
    /\ syncState' = "Error"
    /\ UNCHANGED <<resolvers, strays, pokes>>

\* A request that sync() needs first: it succeeds, fails, or aborts the sync.
StartupRequest(at, succeeded, failed, aborted) ==
    /\ pc = at
    /\ \/ /\ pc' = succeeded
          /\ UNCHANGED <<running, syncState, keepAlive, faults>>
       \/ /\ pc' = failed /\ Fault
          /\ UNCHANGED <<running, syncState, keepAlive>>
       \/ pc' = aborted /\ TokenUnknown
    /\ UNCHANGED <<now, saved, since, token, seen, failedSyncCount, store, excused, crashes,
                   online>>

\* An abort of getPushRules does not keep sync() from going on, one of getFilter does.
GetPushRules == StartupRequest("pushRules", "filter", "pushRulesFailed", "filter")
GetFilter == StartupRequest("filter", "started", "filterFailed", "ended")

Recover_atOnce(at, backoff) ==
    /\ pc = at /\ pc' = backoff
    /\ StartKeepAlives /\ syncState' = "Error"
    /\ UNCHANGED <<now, saved, running, since, token, seen, failedSyncCount, store, excused,
                   bounds>>

\* recoverFromSyncStartupError.
Recover(at, backoff) ==
    /\ pc = at /\ saved = "done" /\ pc' = backoff
    /\ StartKeepAlives /\ syncState' = "Error"
    /\ UNCHANGED <<now, saved, running, since, token, seen, failedSyncCount, store, excused,
                   bounds>>

\* The first request is made with the saved token; if this cannot be read, without.
FirstRequest ==
    /\ pc = "started" /\ pc' = "requested"
    /\ \/ since' = acc.token /\ UNCHANGED <<connected, disk, faults>>
       \/ since' = 0 /\ Degrade
    /\ UNCHANGED <<now, saved, running, token, seen, syncState, failedSyncCount, keepAlive,
                   acc, writing, excused, crashes, online>>

DoSync_atOnce ==
    /\ pc = "requested" /\ pc' = "head"
    /\ UNCHANGED <<now, saved, running, since, token, seen, syncState, failedSyncCount, keepAlive,
                   store, excused, bounds>>

\* sync() waits for the saved data before doSync processes a response.
DoSync ==
    /\ pc = "requested" /\ saved = "done" /\ pc' = "head"
    /\ UNCHANGED <<now, saved, running, since, token, seen, syncState, failedSyncCount, keepAlive,
                   store, excused, bounds>>

-----------------------------------------------------------------------------
(* doSync.                                                                 *)

\* The loop is over: whatever waits for the connection is rejected.
Ended ==
    /\ pc' = "ended" /\ syncState' = "Stopped"
    /\ resolvers' = FALSE /\ UNCHANGED <<timer, strays, pokes>>

Head ==
    /\ pc = "head"
    /\ IF running
       THEN /\ pc' = "polling"
            /\ since' = IF since = NoRequest THEN token ELSE since
            /\ UNCHANGED <<syncState, keepAlive>>
       ELSE Ended /\ UNCHANGED since
    /\ UNCHANGED <<now, saved, running, token, seen, failedSyncCount, store, excused, bounds>>

\* A response; the store gets its token before it is processed.
Response ==
    /\ pc = "polling" /\ running
    /\ pc' = "processing"
    /\ token' = now
    /\ failedSyncCount' = 0
    /\ UNCHANGED <<now, saved, running, since, seen, syncState, keepAlive, store, excused, bounds>>

\* Its rooms and account data accumulate and it is saved if the last save is some
\* time ago.  Processing may throw, and so may the store.
Processed ==
    LET us == (since + 1) .. token
        all == [token |-> token, rooms |-> acc.rooms \cup (us \ AccountUpdates),
                account |-> acc.account \cup (us \cap AccountUpdates)]
    IN  /\ pc = "processing"
        /\ since' = NoRequest
        /\ syncState' = "Syncing"
        /\ \/ /\ seen' = seen \cup us /\ acc' = all
              /\ UNCHANGED <<connected, disk, excused, faults>>
           \/ /\ Fault
              /\ excused' = excused \cup us /\ acc' = all
              /\ UNCHANGED <<seen, connected, disk>>
           \/ /\ Degrade
              /\ seen' = seen \cup us
              /\ UNCHANGED <<acc, excused>>
        /\ \/ pc' = "head" /\ UNCHANGED writing
           \/ connected' /\ pc' = "saving" /\ writing' = {"account", "rooms"}
        /\ UNCHANGED <<now, saved, running, token, failedSyncCount, keepAlive, crashes, online>>

\* The database as it is when the transaction of a save has completed.
Wrote_tokenFirst(part) ==
    CASE part = "account" -> [disk EXCEPT !.account = acc.account, !.token = acc.token]
      [] part = "rooms" -> [disk EXCEPT !.rooms = acc.rooms]

Wrote(part) ==
    CASE part = "account" -> [disk EXCEPT !.account = acc.account]
      [] part = "rooms" -> [disk EXCEPT !.rooms = acc.rooms, !.token = acc.token]

\* doSyncToDatabase has a transaction for account data and one for rooms and token.
Save ==
    /\ pc = "saving"
    /\ \/ \E part \in writing :
              /\ writing' = writing \ {part}
              /\ disk' = Wrote(part)
              /\ pc' = IF writing' = {} THEN "head" ELSE pc
              /\ UNCHANGED <<connected, faults>>
       \/ Degrade /\ writing' = {} /\ pc' = "head"
    /\ UNCHANGED <<now, saved, running, since, token, seen, syncState, failedSyncCount, keepAlive,
                   acc, excused, crashes, online>>

\* onSyncError.
SyncFails ==
    /\ pc = "polling"
    /\ since' = NoRequest
    /\ \/ /\ ~running
          /\ Ended
          /\ UNCHANGED <<running, failedSyncCount, faults>>
       \/ /\ running /\ Fault
          /\ failedSyncCount' = IF failedSyncCount < Threshold THEN failedSyncCount + 1 ELSE Threshold
          /\ StartKeepAlives
          /\ syncState' = IF failedSyncCount' >= Threshold THEN "Error" ELSE "Reconnecting"
          /\ pc' = "backoff"
          /\ UNCHANGED running
       \/ /\ running /\ TokenUnknown
          /\ pc' = "ended"
          /\ UNCHANGED failedSyncCount
    /\ UNCHANGED <<now, saved, token, seen, store, excused, crashes, online>>

-----------------------------------------------------------------------------
(* The rest of the application, and the server.                            *)

Stop ==
    /\ running /\ running' = FALSE
    /\ timer' = "none"
    /\ UNCHANGED <<now, pc, saved, since, token, seen, syncState, failedSyncCount,
                   resolvers, strays, pokes, store, excused, bounds>>

\* Message retention removes events: removeEventsFromRoom saves rooms and token.
RemoveEvents ==
    /\ connected /\ acc.token # 0
    /\ disk' = Wrote("rooms")
    /\ UNCHANGED <<now, session, excused, bounds>>

Crash ==
    /\ pc # "off" /\ crashes < MaxCrashes /\ crashes' = crashes + 1
    /\ Off
    /\ excused' = {}
    /\ UNCHANGED <<now, disk, faults, online>>

Update ==
    /\ now < MaxUpdates /\ now' = now + 1
    /\ UNCHANGED <<session, disk, excused, bounds>>

SyncStep ==
    \/ GetPushRules \/ GetFilter \/ FirstRequest \/ DoSync
    \/ Recover("pushRulesFailed", "pushRulesBackoff") \/ Recover("filterFailed", "filterBackoff")
    \/ Head \/ Response \/ Processed \/ Save \/ SyncFails

SavedStep == SavedRead \/ SavedProcessed
PokeAnswered == PokeSucceeds \/ PokeFails

Next ==
    \/ Start \/ SyncStep \/ SavedStep \/ TimerFires \/ PokeAnswered
    \/ Online \/ Stop \/ RemoveEvents \/ Crash \/ Update

Spec == Init /\ [][Next]_vars

\* The database and the server answer, or a request times out; timers fire.
FairSpec ==
    Spec /\ WF_vars(SyncStep) /\ WF_vars(SavedStep) /\ WF_vars(TimerFires) /\ WF_vars(PokeAnswered)

-----------------------------------------------------------------------------
(* Properties.                                                             *)

\* The client has processed every update up to its token, also after crashes at
\* any point of a save: "know at what point they should be streaming from without
\* losing events".  Excused are updates whose processing threw, all that was
\* saved if it could not be read though its token could, and account data that
\* was not saved when the token after it was (see RemoveEvents and Save).
NothingMissed ==
    pc \notin {"off", "processing"} /\ saved = "done" => 1 .. token \ excused \subseteq seen

\* The saved data never replaces what the server sent since: the token of a
\* session only goes forward.
TokenForward == [][pc # "off" /\ pc' # "off" => token' >= token]_vars

\* While the loop waits for the connection the application is told so; a failure
\* at start-up is not covered by the state that the saved data leads to.
WaitingIsReported ==
    /\ pc \in {"pushRulesBackoff", "filterBackoff"} => syncState = "Error"
    /\ pc = "backoff" => syncState \in {"Reconnecting", "Error"}

\* Every update of the server is processed while the client runs, whatever fails
\* and whichever pokes and timers cross each other on the way.
UpdatesArrive ==
    \A u \in Updates : u <= now /\ running ~> u \in seen \cup excused \/ ~running
=============================================================================

-------------------------- MODULE SyncLoop_proofs ---------------------------
(***************************************************************************)
(* SyncInv is an inductive invariant of SyncLoop: the token a request is   *)
(* made with, the token of the store and the token of the database never   *)
(* run ahead of the updates that were processed or are saved with them,    *)
(* for any stream of updates and any failures and crashes.                 *)
(***************************************************************************)
EXTENDS SyncLoop, TLAPS

Data == [token : Nat, rooms : SUBSET Int, account : SUBSET Int]

SyncTypeOK ==
    /\ now \in Nat
    /\ pc \in Startup \cup Backoffs \cup {"off", "head", "polling", "processing", "saving",
                                          "ended", "thrown"}
    /\ saved \in {"none", "reading", "processing", "done"}
    /\ since \in Int /\ NoRequest <= since /\ since <= now
    /\ token \in Nat /\ token <= now
    /\ acc \in Data /\ acc.token <= now
    /\ disk \in Data /\ disk.token <= now
    /\ connected \in BOOLEAN /\ writing \subseteq {"account", "rooms"}

\* Where the saved data and the loop can be at the same time.
Order ==
    /\ saved = "none" <=> pc = "off"
    /\ saved \in {"reading", "processing"} =>
          pc \notin {"head", "polling", "processing", "saving", "backoff"}
    /\ saved \in {"none", "reading"} => token = 0
    /\ saved = "processing" => token = acc.token
    /\ pc \in {"saving", "backoff"} => since = NoRequest
    /\ pc \in {"requested", "polling", "processing"} => since # NoRequest

\* Every update up to n was processed or is excused.
Covered(n) == \A u \in 1 .. n : u \in seen \cup excused

\* The updates of rooms that a token goes with.
RoomsOf(data) == \A u \in 1 .. data.token : u \in data.rooms \cup AccountUpdates

\* sync() has not reached doSync.
Starting == Startup \cup {"pushRulesBackoff", "filterBackoff"}

\* What is saved with a token, and what the loop had processed at one.
Accumulated ==
    /\ RoomsOf(disk)
    /\ connected => RoomsOf(acc)
    /\ saved \in {"reading", "processing"} =>
          \A u \in 1 .. acc.token : u \in AllOf(acc) \cup excused
    /\ saved = "done" /\ pc \in Starting => Covered(acc.token)
    /\ saved = "done" /\ pc # "processing" => Covered(token)
    /\ pc \in {"polling", "processing"} => Covered(since)
    /\ pc \in {"requested", "head"} /\ saved = "done" => Covered(since)
    /\ pc = "requested" => since \in {0, acc.token}
    /\ pc = "saving" => connected
    /\ connected /\ saved = "done" /\ pc # "processing" => token = acc.token
    /\ connected /\ pc \in {"requested", "polling", "processing"} => since = acc.token
    /\ connected /\ pc = "head" => since \in {NoRequest, acc.token}

SyncInv == SyncTypeOK /\ Order /\ Accumulated

-----------------------------------------------------------------------------
(* Steps that move the loop only.                                          *)

dataVars == <<saved, since, token, seen, acc, writing, connected, disk, excused>>

\* The places that the loop can go to without a request or data.
Moves ==
    \/ pc' = pc
    \/ pc # "off" /\ pc' \in {"ended", "thrown"} /\ pc # "processing"
    \/ pc \in {"pushRules", "pushRulesFailed", "pushRulesBackoff", "filter", "filterFailed", "filterBackoff"}
       /\ pc' \in {"pushRules", "pushRulesFailed", "pushRulesBackoff", "filter", "filterFailed",
                   "filterBackoff", "started"}
    \/ pc = "backoff" /\ pc' = "head"
    \/ pc = "requested" /\ pc' = "head" /\ saved = "done"
    \/ pc = "saving" /\ pc' = "head"

\* Such a step keeps the invariant.
LEMMA MovesKeep ==
    ASSUME SyncInv, Moves, UNCHANGED dataVars, now' \in Nat, now <= now'
    PROVE  SyncInv'
<1>1. SyncTypeOK'
  <2>1. pc' \in Startup \cup Backoffs \cup {"off", "head", "polling", "processing", "saving",
                                             "ended", "thrown"}
    BY DEF SyncInv, SyncTypeOK, Moves, Startup, Backoffs
  <2>2. UNCHANGED <<saved, since, token, acc, writing, connected, disk>> /\ SyncTypeOK
    BY DEF SyncInv, dataVars
  <2>3. since' <= now' /\ token' <= now' /\ acc'.token <= now' /\ disk'.token <= now'
    BY <2>2 DEF SyncTypeOK, Data
  <2> QED
    BY <2>1, <2>2, <2>3 DEF SyncTypeOK
<1>2. Order'
  <2>1. UNCHANGED <<saved, since, token, acc>>
    BY DEF dataVars
  <2>2. saved = "none" <=> pc' = "off"
    BY DEF SyncInv, Order, Moves
  <2>3. saved \in {"reading", "processing"} =>
           pc' \notin {"head", "polling", "processing", "saving", "backoff"}
    BY DEF SyncInv, Order, Moves
  <2>4. /\ pc' \in {"saving", "backoff"} => since = NoRequest
        /\ pc' \in {"requested", "polling", "processing"} => since # NoRequest
    BY DEF SyncInv, Order, Moves
  <2> QED
    BY <2>1, <2>2, <2>3, <2>4 DEF SyncInv, Order
<1>3. Accumulated'
  <2>1. UNCHANGED <<saved, since, token, seen, acc, connected, disk, excused>>
    BY DEF dataVars
  <2>2. RoomsOf(disk)' /\ (connected => RoomsOf(acc))'
    BY <2>1 DEF SyncInv, Accumulated, RoomsOf
  <2>3. Covered(since)' <=> Covered(since)
    BY <2>1 DEF Covered
  <2>4. Covered(token)' <=> Covered(token)
    BY <2>1 DEF Covered
  <2>5. Covered(NoRequest)
    BY DEF Covered, NoRequest
  <2>6. AllOf(acc)' = AllOf(acc) /\ (Covered(acc.token)' <=> Covered(acc.token))
    BY <2>1 DEF AllOf, Covered
  <2>7. pc' \in Starting => pc \in Starting
    BY DEF Moves, Starting, Startup
  <2> QED
    BY <2>1, <2>2, <2>3, <2>4, <2>5, <2>6, <2>7 DEF SyncInv, Order, Accumulated, Moves
<1> QED
  BY <1>1, <1>2, <1>3 DEF SyncInv

\* The connection returning or being given up is such a step.
LEMMA ReturnMoves ==
    ASSUME SyncInv, (\E b : ConnectionReturned(b)) \/ ConnectionGivenUp
    PROVE  Moves
BY DEF ConnectionReturned, ConnectionGivenUp, Moves, Backoffs, SyncInv, SyncTypeOK, Startup

-----------------------------------------------------------------------------
(* The steps.                                                              *)

\* Requests at the start, pokes, timers, retries and stop move the loop only.
LEMMA MovingSteps ==
    ASSUME SyncInv,
           \/ GetPushRules \/ GetFilter \/ Recover("pushRulesFailed", "pushRulesBackoff")
           \/ Recover("filterFailed", "filterBackoff") \/ DoSync
           \/ TimerFires \/ PokeAnswered \/ Online \/ Stop \/ Update
           \/ UNCHANGED vars
    PROVE  SyncInv'
<1> USE DEF dataVars
<1>0. now \in Nat
  BY DEF SyncInv, SyncTypeOK
<1>1. CASE GetPushRules \/ GetFilter
  <2>1. Moves /\ UNCHANGED <<now, dataVars>>
    BY <1>1 DEF GetPushRules, GetFilter, StartupRequest, Moves, store
  <2> QED
    BY <1>0, <2>1, MovesKeep
<1>2. CASE Recover("pushRulesFailed", "pushRulesBackoff") \/ Recover("filterFailed", "filterBackoff")
  <2>1. Moves /\ UNCHANGED <<now, dataVars>>
    BY <1>2 DEF Recover, Moves, store
  <2> QED
    BY <1>0, <2>1, MovesKeep
<1>3. CASE DoSync
  <2>1. Moves /\ UNCHANGED <<now, dataVars>>
    BY <1>3 DEF DoSync, Moves, store
  <2> QED
    BY <1>0, <2>1, MovesKeep
<1>4. CASE TimerFires
  <2>1. PICK what : Fires(what)
    BY <1>4 DEF TimerFires
  <2>2. UNCHANGED <<now, dataVars>>
    BY <2>1 DEF Fires, store
  <2>3. Moves
    <3>1. CASE \E b : ConnectionReturned(b)
      BY <3>1, ReturnMoves
    <3>2. CASE ConnectionGivenUp
      BY <3>2, ReturnMoves
    <3>3. CASE pc' = pc
      BY <3>3 DEF Moves
    <3> QED
      BY <2>1, <3>1, <3>2, <3>3 DEF Fires
  <2> QED
    BY <1>0, <2>2, <2>3, MovesKeep
<1>5. CASE PokeAnswered
  <2>1. UNCHANGED <<now, dataVars>>
    BY <1>5 DEF PokeAnswered, PokeSucceeds, PokeFails, store
  <2>2. pc' = pc \/ \E b : ConnectionReturned(b)
    BY <1>5 DEF PokeAnswered, PokeSucceeds, PokeFails
  <2>3. Moves
    BY <2>2, ReturnMoves DEF Moves
  <2> QED
    BY <1>0, <2>1, <2>3, MovesKeep
<1>6. CASE Online \/ Stop
  <2>1. Moves /\ UNCHANGED <<now, dataVars>>
    BY <1>6 DEF Online, Stop, Moves, store
  <2> QED
    BY <1>0, <2>1, MovesKeep
<1>7. CASE Update
  <2>1. Moves /\ UNCHANGED dataVars /\ now' = now + 1
    BY <1>7 DEF Update, session, Moves
  <2> QED
    BY <1>0, <2>1, MovesKeep
<1>8. CASE UNCHANGED vars
  <2>1. Moves /\ UNCHANGED <<now, dataVars>>
    BY <1>8 DEF vars, session, Moves
  <2> QED
    BY <1>0, <2>1, MovesKeep
<1> QED
  BY <1>1, <1>2, <1>3, <1>4, <1>5, <1>6, <1>7, <1>8

\* The client starts with what was saved, and may find account data missing.
LEMMA StartKeeps == SyncInv /\ Start => SyncInv'
<1> SUFFICES ASSUME SyncInv, Start PROVE SyncInv'
  OBVIOUS
<1>1. /\ pc' = "pushRules" /\ saved' = "reading" /\ acc' = disk /\ connected' = TRUE
      /\ excused' = {u \in AccountUpdates : u <= disk.token} \ disk.account
      /\ UNCHANGED <<now, since, token, seen, writing, disk>> /\ pc = "off"
  BY DEF Start
<1>2. SyncTypeOK'
  BY <1>1 DEF SyncInv, SyncTypeOK, Startup
<1>3. RoomsOf(disk)' /\ RoomsOf(acc)'
  BY <1>1 DEF SyncInv, Accumulated, RoomsOf
<1>4. \A u \in 1 .. acc'.token : u \in AllOf(acc') \cup excused'
  BY <1>1 DEF SyncInv, SyncTypeOK, Data, Accumulated, RoomsOf, AllOf
<1>5. token = 0
  BY <1>1 DEF SyncInv, Order
<1>6. Order'
  BY <1>1, <1>5 DEF Order
<1>7. AllOf(acc)' = AllOf(acc')
  BY DEF AllOf
<1> QED
  BY <1>1, <1>2, <1>3, <1>4, <1>6, <1>7 DEF SyncInv, Accumulated

\* What degrading the store leaves: what was saved or nothing, and no connection.
LEMMA Degraded ==
    ASSUME SyncInv, Degrade
    PROVE  /\ disk' \in {disk, Nothing} /\ connected' = FALSE
           /\ disk' \in Data /\ disk'.token <= now /\ RoomsOf(disk)'
<1>1. CASE disk' = disk
  BY <1>1 DEF Degrade, SyncInv, SyncTypeOK, Accumulated, RoomsOf
<1>2. CASE disk' = Nothing
  <2>1. Nothing \in Data /\ Nothing.token <= now
    BY DEF Nothing, Data, SyncInv, SyncTypeOK
  <2> QED
    BY <1>2, <2>1 DEF Degrade, Nothing, RoomsOf
<1> QED
  BY <1>1, <1>2 DEF Degrade

\* The saved data is given to the client, there is none, or it cannot be read.
LEMMA SavedReadKeeps == SyncInv /\ SavedRead => SyncInv'
<1> SUFFICES ASSUME SyncInv, SavedRead PROVE SyncInv'
  OBVIOUS
<1>1. /\ saved = "reading" /\ token = 0
      /\ UNCHANGED <<now, pc, since, seen, acc, writing>>
      /\ \A u \in 1 .. acc.token : u \in AllOf(acc) \cup excused
      /\ acc \in Data /\ acc.token <= now /\ now \in Nat
  BY DEF SavedRead, SyncInv, SyncTypeOK, Order, Accumulated
<1>2. AllOf(acc)' = AllOf(acc)
  BY <1>1 DEF AllOf
<1>3. CASE /\ token' = acc.token /\ saved' = "processing" /\ UNCHANGED <<connected, disk, excused>>
  <2>1. SyncTypeOK'
    BY <1>1, <1>3 DEF SyncInv, SyncTypeOK, Data
  <2>2. Order'
    BY <1>1, <1>3 DEF SyncInv, Order
  <2>3. Accumulated'
    BY <1>1, <1>2, <1>3 DEF SyncInv, Order, Accumulated, RoomsOf, Covered
  <2> QED
    BY <2>1, <2>2, <2>3 DEF SyncInv
<1>4. CASE /\ acc.token = 0 /\ saved' = "done" /\ UNCHANGED <<token, connected, disk, excused>>
  <2>1. SyncTypeOK'
    BY <1>1, <1>4 DEF SyncInv, SyncTypeOK
  <2>2. Order'
    BY <1>1, <1>4 DEF SyncInv, Order
  <2>3. \A n \in {0, acc.token} : Covered(n)'
    BY <1>4 DEF Covered
  <2>4. Accumulated'
    BY <1>1, <1>4, <2>3 DEF SyncInv, Order, Accumulated, RoomsOf
  <2> QED
    BY <2>1, <2>2, <2>4 DEF SyncInv
<1>5. CASE /\ Degrade /\ saved' = "done" /\ excused' = excused \cup 1 .. acc.token
           /\ UNCHANGED token
  <2>1. SyncTypeOK'
    BY <1>1, <1>5, Degraded DEF SyncInv, SyncTypeOK, Nothing
  <2>2. Order'
    BY <1>1, <1>5 DEF SyncInv, Order
  <2>3. \A n \in {0, acc.token} : Covered(n)'
    BY <1>5 DEF Covered
  <2>4. Accumulated'
    BY <1>1, <1>5, <2>3, Degraded DEF SyncInv, Order, Accumulated
  <2> QED
    BY <2>1, <2>2, <2>4 DEF SyncInv
<1> QED
  BY <1>3, <1>4, <1>5 DEF SavedRead

\* The saved data is processed; if this throws it is excused.
LEMMA SavedProcessedKeeps == SyncInv /\ SavedProcessed => SyncInv'
<1> SUFFICES ASSUME SyncInv, SavedProcessed PROVE SyncInv'
  OBVIOUS
<1>1. /\ saved = "processing" /\ saved' = "done" /\ token = acc.token
      /\ UNCHANGED <<now, pc, since, token, acc, writing, disk, connected>>
      /\ \A u \in 1 .. acc.token : u \in AllOf(acc) \cup excused
      /\ seen \cup excused \cup AllOf(acc) = seen' \cup excused'
  BY DEF SavedProcessed, store, SyncInv, Order, Accumulated
<1>2. SyncTypeOK'
  BY <1>1 DEF SyncInv, SyncTypeOK
<1>3. Order'
  BY <1>1 DEF SyncInv, Order
<1>4. \A n \in {0, acc.token} : Covered(n)'
  BY <1>1 DEF Covered
<1>5. Accumulated'
  BY <1>1, <1>4 DEF SyncInv, Order, Accumulated, RoomsOf
<1> QED
  BY <1>2, <1>3, <1>5 DEF SyncInv

\* The first request has the saved token or none.
LEMMA FirstRequestKeeps == SyncInv /\ FirstRequest => SyncInv'
<1> SUFFICES ASSUME SyncInv, FirstRequest PROVE SyncInv'
  OBVIOUS
<1>1. /\ pc = "started" /\ pc' = "requested" /\ since' \in {0, acc.token}
      /\ UNCHANGED <<now, saved, token, seen, acc, writing, excused>>
      /\ \/ since' = acc.token /\ UNCHANGED <<connected, disk>>
         \/ disk' \in Data /\ disk'.token <= now /\ connected' = FALSE
      /\ acc \in Data /\ acc.token <= now /\ now \in Nat
  BY Degraded DEF FirstRequest, SyncInv, SyncTypeOK
<1>2. SyncTypeOK'
  <2>1. since' \in Int /\ NoRequest <= since' /\ since' <= now'
    BY <1>1 DEF Data, NoRequest
  <2>2. disk' \in Data /\ disk'.token <= now'
    BY <1>1 DEF SyncInv, SyncTypeOK, Nothing
  <2>3. connected' \in BOOLEAN
    BY <1>1 DEF SyncInv, SyncTypeOK
  <2> QED
    BY <1>1, <2>1, <2>2, <2>3 DEF SyncInv, SyncTypeOK, Startup
<1>3. Order'
  BY <1>1 DEF SyncInv, Order, NoRequest, Data
<1>4. RoomsOf(disk)'
  <2>1. CASE UNCHANGED disk
    BY <2>1 DEF SyncInv, Accumulated, RoomsOf
  <2>2. CASE Degrade
    BY <2>2, Degraded
  <2> QED
    BY <2>1, <2>2 DEF FirstRequest
<1>5. connected' => RoomsOf(acc)' /\ connected /\ since' = acc.token
  BY <1>1 DEF SyncInv, Accumulated, RoomsOf
<1>6. AllOf(acc)' = AllOf(acc)
  BY <1>1 DEF AllOf
<1>7. saved = "done" => Covered(token)' /\ Covered(since)' /\ Covered(acc.token)'
  <2>1. saved = "done" => Covered(token) /\ Covered(acc.token)
    BY <1>1 DEF SyncInv, Accumulated, Starting, Startup
  <2> QED
    BY <1>1, <2>1 DEF Covered
<1>8. Accumulated'
  BY <1>1, <1>4, <1>5, <1>6, <1>7 DEF SyncInv, Accumulated
<1> QED
  BY <1>2, <1>3, <1>8 DEF SyncInv

\* A request is made, with the token of the store unless it is the first.
LEMMA HeadKeeps == SyncInv /\ Head => SyncInv'
<1> SUFFICES ASSUME SyncInv, Head PROVE SyncInv'
  OBVIOUS
<1>1. CASE ~running
  <2>1. pc' = "ended" /\ pc = "head" /\ UNCHANGED <<now, dataVars>>
    BY <1>1 DEF Head, Ended, store, dataVars
  <2> QED
    BY <2>1, MovesKeep DEF Moves, SyncInv, SyncTypeOK
<1>2. CASE running
  <2>1. /\ pc = "head" /\ pc' = "polling" /\ saved = "done"
        /\ since' = IF since = NoRequest THEN token ELSE since
        /\ UNCHANGED <<now, saved, token, seen, acc, writing, connected, disk, excused>>
    BY <1>2 DEF Head, store, SyncInv, SyncTypeOK, Order
  <2>2. SyncTypeOK'
    BY <2>1 DEF SyncInv, SyncTypeOK, NoRequest
  <2>3. Order'
    BY <2>1 DEF SyncInv, SyncTypeOK, Order, NoRequest
  <2>4. Covered(token) /\ Covered(since)
    BY <2>1 DEF SyncInv, Accumulated
  <2>5. Covered(token)' /\ Covered(since)'
    BY <2>1, <2>4 DEF Covered
  <2>6. RoomsOf(disk)' /\ (connected => RoomsOf(acc)')
    BY <2>1 DEF SyncInv, Accumulated, RoomsOf
  <2>7. connected => token = acc.token /\ since' = acc.token
    BY <2>1 DEF SyncInv, Accumulated
  <2>8. Accumulated'
    BY <2>1, <2>5, <2>6, <2>7 DEF Accumulated, Starting, Startup
  <2> QED
    BY <2>2, <2>3, <2>8 DEF SyncInv
<1> QED
  BY <1>1, <1>2

\* The store gets the response's token; what is before the request's is covered.
LEMMA ResponseKeeps == SyncInv /\ Response => SyncInv'
<1> SUFFICES ASSUME SyncInv, Response PROVE SyncInv'
  OBVIOUS
<1>1. /\ pc = "polling" /\ pc' = "processing" /\ token' = now /\ saved = "done"
      /\ UNCHANGED <<now, saved, since, seen, acc, writing, connected, disk, excused>>
  BY DEF Response, store, SyncInv, SyncTypeOK, Order
<1>2. SyncTypeOK'
  BY <1>1 DEF SyncInv, SyncTypeOK
<1>3. Order'
  BY <1>1 DEF SyncInv, Order
<1>4. Covered(since)'
  BY <1>1 DEF SyncInv, Accumulated, Covered
<1>5. RoomsOf(disk)' /\ (connected => RoomsOf(acc)')
  BY <1>1 DEF SyncInv, Accumulated, RoomsOf
<1>6. Accumulated'
  BY <1>1, <1>4, <1>5 DEF SyncInv, Accumulated, Starting, Startup
<1> QED
  BY <1>2, <1>3, <1>6 DEF SyncInv

\* The response is processed, or excused, and accumulated with its token.
LEMMA ProcessedKeeps == SyncInv /\ Processed => SyncInv'
<1> SUFFICES ASSUME SyncInv, Processed PROVE SyncInv'
  OBVIOUS
<1> DEFINE us == (since + 1) .. token
           all == [token |-> token, rooms |-> acc.rooms \cup (us \ AccountUpdates),
                   account |-> acc.account \cup (us \cap AccountUpdates)]
<1>1. /\ pc = "processing" /\ saved = "done" /\ since' = NoRequest
      /\ UNCHANGED <<now, saved, token>>
      /\ \/ pc' = "head"
         \/ pc' = "saving" /\ connected'
  BY DEF Processed, SyncInv, SyncTypeOK, Order
<1>2. \/ acc' = all /\ UNCHANGED <<connected, disk>>
      \/ Degrade /\ UNCHANGED acc
  BY DEF Processed
<1>3. seen' \cup excused' = seen \cup excused \cup us
  BY DEF Processed
<1>4. /\ since \in Int /\ token \in Nat /\ now \in Nat /\ token <= now
      /\ acc \in Data /\ acc.token <= now /\ disk \in Data /\ disk.token <= now
  BY DEF SyncInv, SyncTypeOK
<1>5. all \in Data /\ all.token = token
  BY <1>4 DEF Data
<1>6. SyncTypeOK'
  <2>1. acc' \in Data /\ acc'.token <= now'
    BY <1>1, <1>2, <1>4, <1>5
  <2>2. disk' \in Data /\ disk'.token <= now'
    <3>1. CASE disk' = disk
      BY <1>1, <1>4, <3>1
    <3>2. CASE Degrade
      BY <1>1, <1>4, <3>2, Degraded DEF Nothing
    <3> QED
      BY <1>2, <3>1, <3>2
  <2>3. connected' \in BOOLEAN
    BY <1>2, Degraded DEF SyncInv, SyncTypeOK
  <2> HIDE DEF all
  <2>4. since' \in Int /\ NoRequest <= since' /\ since' <= now'
    BY <1>1, <1>4 DEF NoRequest
  <2>5. now' \in Nat /\ token' \in Nat /\ token' <= now' /\ saved' \in {"none", "reading", "processing", "done"}
        /\ pc' \in Startup \cup Backoffs \cup {"off", "head", "polling", "processing", "saving",
                                                "ended", "thrown"}
    BY <1>1, <1>4
  <2>6. writing' \subseteq {"account", "rooms"}
    BY DEF Processed, SyncInv, SyncTypeOK
  <2> QED
    BY <2>1, <2>2, <2>3, <2>4, <2>5, <2>6 DEF SyncTypeOK
<1>7. Order'
  BY <1>1 DEF SyncInv, Order, NoRequest
<1>8. Covered(token)'
  <2>1. Covered(since)
    BY <1>1 DEF SyncInv, Accumulated
  <2>2. \A u \in 1 .. token : u \in seen \cup excused \cup us
    BY <1>4, <2>1 DEF Covered
  <2> QED
    BY <1>1, <1>3, <2>2 DEF Covered
<1>9. RoomsOf(disk)'
  BY <1>2, Degraded DEF SyncInv, Accumulated, RoomsOf
<1>10. connected' => RoomsOf(acc)' /\ acc'.token = token
  <2> SUFFICES ASSUME connected' PROVE RoomsOf(acc)' /\ acc'.token = token
    OBVIOUS
  <2>1. acc' = all /\ connected
    BY <1>2, Degraded
  <2>2. since = acc.token /\ RoomsOf(acc)
    BY <1>1, <2>1 DEF SyncInv, Accumulated
  <2>3. \A u \in 1 .. token : u \in (acc.rooms \cup (us \ AccountUpdates)) \cup AccountUpdates
    BY <1>4, <2>2 DEF RoomsOf, Data
  <2> QED
    BY <2>1, <2>3 DEF RoomsOf
<1>11. Covered(NoRequest)'
  BY DEF Covered, NoRequest
<1>12. Accumulated'
  <2> HIDE DEF us, all
  <2>1. Covered(since)'
    BY <1>1 DEF Covered, NoRequest
  <2> QED
    BY <1>1, <1>8, <1>9, <1>10, <2>1 DEF Accumulated, Starting, Startup, NoRequest
<1> QED
  BY <1>6, <1>7, <1>12 DEF SyncInv

\* The database gets rooms and token together.
LEMMA WroteKeeps ==
    ASSUME SyncInv, connected, NEW part \in {"account", "rooms"}
    PROVE  Wrote(part) \in Data /\ Wrote(part).token <= now /\ RoomsOf(Wrote(part))
<1>1. acc \in Data /\ disk \in Data /\ acc.token <= now /\ disk.token <= now
  BY DEF SyncInv, SyncTypeOK
<1>2. RoomsOf(acc) /\ RoomsOf(disk)
  BY DEF SyncInv, Accumulated
<1>3. CASE part = "account"
  <2>1. Wrote(part) = [disk EXCEPT !.account = acc.account]
    BY <1>3 DEF Wrote
  <2> QED
    BY <1>1, <1>2, <2>1 DEF Data, RoomsOf
<1>4. CASE part = "rooms"
  <2>1. Wrote(part) = [disk EXCEPT !.rooms = acc.rooms, !.token = acc.token]
    BY <1>4 DEF Wrote
  <2> QED
    BY <1>1, <1>2, <2>1 DEF Data, RoomsOf
<1> QED
  BY <1>3, <1>4

\* A step that changes nothing but the database.
LEMMA DiskKeeps ==
    ASSUME SyncInv, UNCHANGED <<now, saved, since, token, seen, acc, excused>>,
           pc' = pc \/ (pc = "saving" /\ pc' = "head"),
           disk' \in Data, disk'.token <= now, RoomsOf(disk)',
           connected' = connected \/ (connected' = FALSE /\ pc' # "saving"),
           writing' \subseteq {"account", "rooms"}
    PROVE  SyncInv'
<1>1. SyncTypeOK'
  <2>1. connected' \in BOOLEAN
    BY DEF SyncInv, SyncTypeOK
  <2> QED
    BY <2>1 DEF SyncInv, SyncTypeOK
<1>2. Order'
  BY DEF SyncInv, Order
<1>3. connected' => connected /\ RoomsOf(acc)'
  BY DEF SyncInv, Accumulated, RoomsOf
<1>4. /\ Covered(since)' <=> Covered(since)
      /\ Covered(token)' <=> Covered(token)
      /\ Covered(acc.token)' <=> Covered(acc.token)
      /\ AllOf(acc)' = AllOf(acc)
  BY DEF Covered, AllOf
<1>5. Covered(NoRequest)
  BY DEF Covered, NoRequest
<1>6. pc' \in Starting => pc \in Starting
  BY DEF Starting, Startup
<1>7. Accumulated'
  BY <1>3, <1>4, <1>5, <1>6 DEF SyncInv, Order, Accumulated
<1> QED
  BY <1>1, <1>2, <1>7 DEF SyncInv

\* A part of a save is written, or the store fails and is degraded.
LEMMA SaveKeeps == SyncInv /\ Save => SyncInv'
<1> SUFFICES ASSUME SyncInv, Save PROVE SyncInv'
  OBVIOUS
<1>1. /\ pc = "saving" /\ connected /\ writing \subseteq {"account", "rooms"}
      /\ UNCHANGED <<now, saved, since, token, seen, acc, excused>>
  BY DEF Save, SyncInv, SyncTypeOK, Accumulated
<1>2. ASSUME NEW part \in writing, writing' = writing \ {part}, disk' = Wrote(part),
             pc' = (IF writing' = {} THEN "head" ELSE pc), connected' = connected
      PROVE  SyncInv'
  <2>1. disk' \in Data /\ disk'.token <= now /\ RoomsOf(Wrote(part))
    BY <1>1, <1>2, WroteKeeps
  <2>2. RoomsOf(disk)'
    BY <1>2, <2>1 DEF RoomsOf
  <2> QED
    BY <1>1, <1>2, <2>1, <2>2, DiskKeeps
<1>3. CASE Degrade /\ writing' = {} /\ pc' = "head"
  <2>1. disk' \in Data /\ disk'.token <= now /\ RoomsOf(disk)' /\ connected' = FALSE
    BY <1>3, Degraded DEF Nothing, SyncInv, SyncTypeOK
  <2> QED
    BY <1>1, <1>3, <2>1, DiskKeeps
<1> QED
  BY <1>2, <1>3 DEF Save

\* Removing events saves rooms and token.
LEMMA RemoveEventsKeeps == SyncInv /\ RemoveEvents => SyncInv'
<1> SUFFICES ASSUME SyncInv, RemoveEvents PROVE SyncInv'
  OBVIOUS
<1>1. /\ connected /\ disk' = Wrote("rooms")
      /\ UNCHANGED <<now, pc, saved, since, token, seen, acc, writing, connected, excused>>
  BY DEF RemoveEvents, session
<1>2. disk' \in Data /\ disk'.token <= now /\ RoomsOf(Wrote("rooms"))
  BY <1>1, WroteKeeps
<1>3. RoomsOf(disk)'
  BY <1>1, <1>2 DEF RoomsOf
<1>4. writing' \subseteq {"account", "rooms"}
  BY <1>1 DEF SyncInv, SyncTypeOK
<1> QED
  BY <1>1, <1>2, <1>3, <1>4, DiskKeeps

\* A failed request is made again from the token of the store.
LEMMA SyncFailsKeeps == SyncInv /\ SyncFails => SyncInv'
<1> SUFFICES ASSUME SyncInv, SyncFails PROVE SyncInv'
  OBVIOUS
<1>1. /\ pc = "polling" /\ pc' \in {"backoff", "ended"} /\ since' = NoRequest /\ saved = "done"
      /\ UNCHANGED <<now, saved, token, seen, acc, writing, connected, disk, excused>>
  BY DEF SyncFails, Ended, store, SyncInv, SyncTypeOK, Order
<1>2. SyncTypeOK'
  BY <1>1 DEF SyncInv, SyncTypeOK, NoRequest, Backoffs
<1>3. Order'
  BY <1>1 DEF SyncInv, Order
<1>4. Covered(token)'
  BY <1>1 DEF SyncInv, Accumulated, Covered
<1>5. RoomsOf(disk)' /\ (connected => RoomsOf(acc)')
  BY <1>1 DEF SyncInv, Accumulated, RoomsOf
<1>6. Accumulated'
  BY <1>1, <1>4, <1>5 DEF SyncInv, Accumulated, Starting, Startup
<1> QED
  BY <1>2, <1>3, <1>6 DEF SyncInv

\* A crash leaves the database.
LEMMA CrashKeeps == SyncInv /\ Crash => SyncInv'
<1> SUFFICES ASSUME SyncInv, Crash PROVE SyncInv'
  OBVIOUS
<1>1. /\ pc' = "off" /\ saved' = "none" /\ since' = NoRequest /\ token' = 0 /\ acc' = Nothing
      /\ writing' = {} /\ connected' = FALSE /\ UNCHANGED <<now, disk>>
  BY DEF Crash, Off
<1>2. Nothing \in Data /\ Nothing.token = 0
  BY DEF Nothing, Data
<1>3. SyncTypeOK'
  <2>1. connected' \in BOOLEAN
    BY <1>1
  <2>2. /\ now' \in Nat /\ since' \in Int /\ NoRequest <= since' /\ since' <= now'
        /\ token' \in Nat /\ token' <= now'
    BY <1>1 DEF SyncInv, SyncTypeOK, NoRequest
  <2>3. disk' \in Data /\ disk'.token <= now'
    BY <1>1 DEF SyncInv, SyncTypeOK
  <2>4. acc' \in Data /\ acc'.token <= now'
    BY <1>1, <1>2, <2>2
  <2> QED
    BY <1>1, <2>1, <2>2, <2>3, <2>4 DEF SyncTypeOK
<1>4. Order'
  BY <1>1 DEF Order
<1>5. RoomsOf(disk)'
  BY <1>1 DEF SyncInv, Accumulated, RoomsOf
<1>6. Accumulated'
  BY <1>1, <1>5 DEF Accumulated, Starting, Startup
<1> QED
  BY <1>3, <1>4, <1>6 DEF SyncInv

-----------------------------------------------------------------------------
(* The theorems.                                                           *)

\* At first nothing is saved and the application is off.
LEMMA SyncInit == Init => SyncInv
<1> SUFFICES ASSUME Init PROVE SyncInv
  OBVIOUS
<1>1. Nothing \in Data /\ Nothing.token = 0
  BY DEF Nothing, Data
<1>2. SyncTypeOK
  <2>1. connected \in BOOLEAN
    BY DEF Init
  <2>2. /\ now \in Nat /\ since \in Int /\ NoRequest <= since /\ since <= now
        /\ token \in Nat /\ token <= now
    BY DEF Init, NoRequest
  <2> QED
    BY <1>1, <2>1, <2>2 DEF Init, SyncTypeOK
<1>3. Order
  BY DEF Init, Order
<1>4. Accumulated
  BY <1>1 DEF Init, Accumulated, RoomsOf, Starting, Startup
<1> QED
  BY <1>2, <1>3, <1>4 DEF SyncInv

\* Every step keeps the invariant.
LEMMA SyncStepKeeps == SyncInv /\ [Next]_vars => SyncInv'
<1> SUFFICES ASSUME SyncInv, [Next]_vars PROVE SyncInv'
  OBVIOUS
<1>1. CASE Start
  BY <1>1, StartKeeps
<1>2. CASE SavedRead
  BY <1>2, SavedReadKeeps
<1>3. CASE SavedProcessed
  BY <1>3, SavedProcessedKeeps
<1>4. CASE FirstRequest
  BY <1>4, FirstRequestKeeps
<1>5. CASE Head
  BY <1>5, HeadKeeps
<1>6. CASE Response
  BY <1>6, ResponseKeeps
<1>7. CASE Processed
  BY <1>7, ProcessedKeeps
<1>8. CASE Save
  BY <1>8, SaveKeeps
<1>9. CASE SyncFails
  BY <1>9, SyncFailsKeeps
<1>10. CASE RemoveEvents
  BY <1>10, RemoveEventsKeeps
<1>11. CASE Crash
  BY <1>11, CrashKeeps
<1>12. CASE \/ GetPushRules \/ GetFilter \/ Recover("pushRulesFailed", "pushRulesBackoff")
            \/ Recover("filterFailed", "filterBackoff") \/ DoSync
            \/ TimerFires \/ PokeAnswered \/ Online \/ Stop \/ Update
            \/ UNCHANGED vars
  BY <1>12, MovingSteps
<1> QED
  BY <1>1, <1>2, <1>3, <1>4, <1>5, <1>6, <1>7, <1>8, <1>9, <1>10, <1>11, <1>12
     DEF Next, SyncStep, SavedStep

\* The invariant holds for any stream of updates, failures and crashes.
THEOREM SyncInvariant == Spec => []SyncInv
BY SyncInit, SyncStepKeeps, PTL DEF Spec

\* The client has processed all up to its token, whatever failed or crashed.
THEOREM NoUpdateMissed == Spec => []NothingMissed
<1>1. SyncInv => NothingMissed
  BY DEF SyncInv, Accumulated, Covered, NothingMissed
<1> QED
  BY <1>1, SyncInvariant, PTL

\* The token of a session only goes forward.
THEOREM TokenGrows == Spec => TokenForward
<1>1. SyncInv /\ [Next]_vars => [pc # "off" /\ pc' # "off" => token' >= token]_vars
  <2> SUFFICES ASSUME SyncInv, Next, pc # "off", pc' # "off" PROVE token' >= token
    OBVIOUS
  <2>1. token \in Nat /\ token <= now /\ now \in Nat /\ acc.token \in Nat
    BY DEF SyncInv, SyncTypeOK, Data
  <2>2. CASE SavedRead
    <3>1. token = 0 /\ token' \in {token, acc.token}
      BY <2>2 DEF SavedRead, SyncInv, Order
    <3> QED
      BY <2>1, <3>1
  <2>3. CASE Response
    BY <2>1, <2>3 DEF Response
  <2>4. CASE SyncStep /\ ~Response
    <3>1. token' = token
      BY <2>4 DEF SyncStep, GetPushRules, GetFilter, StartupRequest, FirstRequest, DoSync, Recover,
                  Head, Processed, Save, SyncFails
    <3> QED
      BY <2>1, <3>1
  <2>5. CASE \/ SavedProcessed \/ TimerFires \/ PokeAnswered \/ Online \/ Stop \/ RemoveEvents
             \/ Update \/ Start
    <3>1. token' = token
      BY <2>5 DEF SavedProcessed, TimerFires, Fires, PokeAnswered, PokeSucceeds, PokeFails, Online,
                  Stop, RemoveEvents, Update, Start, session
    <3> QED
      BY <2>1, <3>1
  <2> QED
    BY <2>2, <2>3, <2>4, <2>5 DEF Next, SavedStep, Crash, Off
<1> QED
  BY <1>1, SyncInvariant, PTL DEF Spec, TokenForward

-----------------------------------------------------------------------------
(* Waiting is reported.                                                    *)

\* sync() waits for the saved data before it waits for the connection, so that
\* the state the saved data leads to comes first.
Told ==
    /\ WaitingIsReported
    /\ pc \in {"pushRulesBackoff", "filterBackoff"} => saved = "done"

\* A step that ends no wait and leaves the state alone, or says "Error", keeps it.
LEMMA ToldFrame ==
    ASSUME Told, saved' = saved, pc' = pc \/ pc' \notin Backoffs,
           syncState' \in {syncState, "Error"} \/ pc' \notin Backoffs
    PROVE  Told'
BY DEF Told, WaitingIsReported, Backoffs

\* When the connection returns, what waited goes on before the state changes.
LEMMA ReturnTold ==
    ASSUME Told, saved' = saved, NEW d, ConnectionReturned(d)
    PROVE  Told'
BY DEF ConnectionReturned, Told, WaitingIsReported

\* A timer ends a wait or leaves the state alone.
LEMMA FiresTold ==
    ASSUME Told, NEW what, Fires(what)
    PROVE  Told'
<1>1. CASE what \in {"success", "successAgain"}
  BY <1>1, ReturnTold DEF Fires
<1>2. CASE what \notin {"success", "successAgain"}
  BY <1>2, ToldFrame DEF Fires, ConnectionGivenUp, Backoffs
<1> QED
  BY <1>1, <1>2

\* Every step keeps it; at a failure the state is set with the wait.
LEMMA ToldStep == SyncInv /\ Told /\ [Next]_vars => Told'
<1> SUFFICES ASSUME SyncInv, Told, [Next]_vars PROVE Told'
  OBVIOUS
<1>1. CASE Start \/ FirstRequest \/ DoSync \/ Head \/ Response \/ Crash
  BY <1>1, ToldFrame DEF Start, FirstRequest, DoSync, Head, Ended, Response, Crash, Off, Backoffs,
                         Told, WaitingIsReported
<1>2. CASE SavedRead
  BY <1>2 DEF SavedRead, Told, WaitingIsReported
\* The saved data leads to "Prepared" before sync() waits for the connection.
<1>3. CASE SavedProcessed
  BY <1>3 DEF SavedProcessed, SyncInv, Order, Told, WaitingIsReported
<1>4. CASE GetPushRules \/ GetFilter
  BY <1>4, ToldFrame DEF GetPushRules, GetFilter, StartupRequest, TokenUnknown, Backoffs
<1>5. CASE \/ Recover("pushRulesFailed", "pushRulesBackoff")
           \/ Recover("filterFailed", "filterBackoff")
  BY <1>5 DEF Recover, Told, WaitingIsReported
<1>6. CASE Processed
  BY <1>6, ToldFrame DEF Processed, Backoffs
<1>7. CASE Save
  BY <1>7, ToldFrame DEF Save, Backoffs
<1>8. CASE SyncFails
  BY <1>8 DEF SyncFails, Ended, TokenUnknown, Told, WaitingIsReported
<1>9. CASE TimerFires
  BY <1>9, FiresTold DEF TimerFires
<1>10. CASE PokeSucceeds
  BY <1>10, ReturnTold, ToldFrame DEF PokeSucceeds
<1>11. CASE PokeFails
  BY <1>11, ToldFrame DEF PokeFails
<1>12. CASE Online \/ Stop \/ RemoveEvents \/ Update \/ UNCHANGED vars
  BY <1>12, ToldFrame DEF Online, Stop, RemoveEvents, Update, session, vars
<1> QED
  BY <1>1, <1>2, <1>3, <1>4, <1>5, <1>6, <1>7, <1>8, <1>9, <1>10, <1>11, <1>12
     DEF Next, SyncStep, SavedStep, PokeAnswered

\* While the loop waits for the connection the application is told so: nothing
\* sets another state before the wait is over (recoverFromSyncStartupError,
\* onSyncError).
THEOREM WaitsAreReported == Spec => []WaitingIsReported
<1>1. Init => Told
  BY DEF Init, Told, WaitingIsReported
<1>2. Told => WaitingIsReported
  BY DEF Told
<1> QED
  BY <1>1, <1>2, ToldStep, SyncInvariant, PTL DEF Spec

-----------------------------------------------------------------------------
(* Types.  SyncInv has those of the loop and of the tokens.                *)

SyncStates == {"null", "Prepared", "Syncing", "Reconnecting", "Error", "Catchup", "Stopped"}

KeepAliveTypeOK ==
    /\ running \in BOOLEAN /\ syncState \in SyncStates /\ failedSyncCount \in 0 .. Threshold
    /\ resolvers \in BOOLEAN /\ timer \in Timers /\ strays \subseteq Timers \ {"none"}
    /\ pokes \subseteq BOOLEAN

UpdatesTypeOK ==
    /\ now \in 0 .. MaxUpdates /\ seen \subseteq Updates /\ excused \subseteq Updates
    /\ AllOf(acc) \subseteq Updates /\ AllOf(disk) \subseteq Updates

BoundsTypeOK == faults \in 0 .. MaxFaults /\ crashes \in 0 .. MaxCrashes /\ online \in 0 .. MaxOnline

\* The states, timers and pokes.
LEMMA KeepAliveTypeStep == KeepAliveTypeOK /\ [Next]_vars => KeepAliveTypeOK'
<1> SUFFICES ASSUME KeepAliveTypeOK, [Next]_vars PROVE KeepAliveTypeOK'
  OBVIOUS
<1> USE DEF KeepAliveTypeOK, SyncStates
<1>0. 0 \in 0 .. Threshold
  BY SyncLoopAssumption
<1>1. CASE Start \/ SavedStep \/ Save \/ FirstRequest \/ DoSync \/ Response \/ Processed
  <2>1. UNCHANGED keepAlive /\ running' \in {running, TRUE}
    BY <1>1 DEF Start, SavedStep, SavedRead, SavedProcessed, Save, FirstRequest, DoSync, Response,
                Processed
  <2>2. syncState' \in {syncState, "Prepared", "Syncing"} /\ failedSyncCount' \in {failedSyncCount, 0}
    BY <1>1 DEF Start, SavedStep, SavedRead, SavedProcessed, Save, FirstRequest, DoSync, Response,
                Processed
  <2> QED
    BY <1>0, <2>1, <2>2 DEF keepAlive
<1>2. CASE GetPushRules \/ GetFilter
  BY <1>2 DEF GetPushRules, GetFilter, StartupRequest, TokenUnknown, keepAlive, Timers
<1>3. CASE \/ Recover("pushRulesFailed", "pushRulesBackoff")
           \/ Recover("filterFailed", "filterBackoff")
  BY <1>3 DEF Recover, StartKeepAlives, Timers
<1>4. CASE Head
  BY <1>4 DEF Head, Ended, keepAlive
<1>5. CASE SyncFails
  <2>1. failedSyncCount' \in 0 .. Threshold
    BY <1>5, SyncLoopAssumption DEF SyncFails
  <2> QED
    BY <1>5, <2>1 DEF SyncFails, Ended, StartKeepAlives, TokenUnknown, Timers
<1>6. ASSUME NEW what, Fires(what)
      PROVE  /\ resolvers' \in BOOLEAN /\ pokes' \subseteq BOOLEAN /\ syncState' \in SyncStates
             /\ UNCHANGED <<running, failedSyncCount>>
  <2>1. (what = "pokeAgain") \in BOOLEAN
    OBVIOUS
  <2>2. pokes' = pokes \/ pokes' = pokes \cup {what = "pokeAgain"}
    BY <1>6 DEF Fires
  <2>3. pokes' \subseteq BOOLEAN
    BY <2>1, <2>2, Zenon
  <2> QED
    BY <1>6, <2>3 DEF Fires, ConnectionReturned, ConnectionGivenUp
<1>7. CASE TimerFires
  BY <1>6, <1>7 DEF TimerFires, Timers
<1>8. CASE PokeSucceeds
  BY <1>8 DEF PokeSucceeds, ConnectionReturned, SetTimer, Timers
<1>9. CASE PokeFails
  BY <1>9 DEF PokeFails, SetTimer, Timers
<1>10. CASE Online
  BY <1>10 DEF Online, Timers
<1>11. CASE Stop
  BY <1>11 DEF Stop, Timers
<1>12. CASE Crash
  BY <1>0, <1>12 DEF Crash, Off, Timers
<1>13. CASE RemoveEvents \/ Update \/ UNCHANGED vars
  BY <1>13 DEF RemoveEvents, Update, vars, session
<1> QED
  BY <1>1, <1>2, <1>3, <1>4, <1>5, <1>7, <1>8, <1>9, <1>10, <1>11, <1>12, <1>13
     DEF Next, SyncStep, SavedStep, PokeAnswered

\* The updates: what a response brings are updates that the server has.
LEMMA UpdatesTypeStep == SyncInv /\ UpdatesTypeOK /\ [Next]_vars => UpdatesTypeOK'
<1> SUFFICES ASSUME SyncInv, UpdatesTypeOK, [Next]_vars PROVE UpdatesTypeOK'
  OBVIOUS
<1> USE DEF UpdatesTypeOK
<1>1. /\ acc \in Data /\ disk \in Data /\ MaxUpdates \in Nat /\ now \in Nat /\ AccountUpdates \subseteq Updates
      /\ token \in Nat /\ token <= now /\ since \in Int /\ since >= -1
      /\ acc.token \in Nat /\ acc.token <= now
  BY SyncLoopAssumption DEF SyncInv, SyncTypeOK, Data, Updates, NoRequest
<1>2. AllOf(Nothing) = {}
  BY DEF AllOf, Nothing
<1>3. CASE Start
  BY <1>1, <1>3 DEF Start
<1>4. CASE SavedRead
  <2>1. 1 .. acc.token \subseteq Updates
    BY <1>1 DEF Updates
  <2> QED
    BY <1>2, <1>4, <2>1 DEF SavedRead, Degrade
<1>5. CASE SavedProcessed
  BY <1>5 DEF SavedProcessed, store
<1>6. CASE FirstRequest
  BY <1>2, <1>6 DEF FirstRequest, Degrade
<1>7. CASE Processed
  <2> DEFINE us == (since + 1) .. token
             rooms == acc.rooms \cup (us \ AccountUpdates)
             account == acc.account \cup (us \cap AccountUpdates)
  <2>1. us \subseteq Updates
    <3>1. since # NoRequest
      BY <1>7 DEF Processed, SyncInv, Order
    <3> QED
      BY <1>1, <3>1 DEF Updates, NoRequest
  <2> HIDE DEF us
  <2>2. rooms \cup account \subseteq Updates
    BY <2>1 DEF AllOf
  <2>3. \/ acc' = [token |-> token, rooms |-> rooms, account |-> account]
        \/ acc' = acc
    BY <1>7 DEF Processed, us
  <2>4. AllOf(acc') \subseteq Updates
    BY <2>2, <2>3 DEF AllOf
  <2>5. AllOf(disk') \subseteq Updates /\ now' = now
    BY <1>2, <1>7 DEF Processed, Degrade
  <2>6. seen' \subseteq Updates /\ excused' \subseteq Updates
    BY <1>7, <2>1 DEF Processed, us
  <2> QED
    BY <2>4, <2>5, <2>6
<1>8. ASSUME NEW part \in {"account", "rooms"} PROVE AllOf(Wrote(part)) \subseteq Updates
  BY <1>1 DEF Wrote, AllOf, Data
<1>9. CASE Save
  <2>1. writing \subseteq {"account", "rooms"}
    BY DEF SyncInv, SyncTypeOK
  <2>2. UNCHANGED <<now, seen, acc, excused>>
    BY <1>9 DEF Save
  <2>3. AllOf(disk') \subseteq Updates
    BY <1>2, <1>8, <1>9, <2>1 DEF Save, Degrade
  <2> QED
    BY <2>2, <2>3
<1>10. CASE RemoveEvents
  BY <1>8, <1>10 DEF RemoveEvents, session
<1>11. CASE Crash
  BY <1>2, <1>11 DEF Crash, Off
<1>12. CASE Update
  <2>1. now' \in 0 .. MaxUpdates
    BY <1>1, <1>12 DEF Update
  <2> QED
    BY <1>12, <2>1 DEF Update, session
<1>13. CASE \/ GetPushRules \/ GetFilter \/ Recover("pushRulesFailed", "pushRulesBackoff")
            \/ Recover("filterFailed", "filterBackoff") \/ DoSync \/ Head \/ Response \/ SyncFails
            \/ TimerFires \/ PokeAnswered \/ Online \/ Stop \/ UNCHANGED vars
  BY <1>13 DEF GetPushRules, GetFilter, StartupRequest, Recover, DoSync, Head, Response, SyncFails,
               TimerFires, Fires, PokeAnswered, PokeSucceeds, PokeFails, Online, Stop, vars, session, store
<1> QED
  BY <1>3, <1>4, <1>5, <1>6, <1>7, <1>9, <1>10, <1>11, <1>12, <1>13 DEF Next, SyncStep, SavedStep

\* Faults, crashes and retries are bounded.
LEMMA BoundsTypeStep == BoundsTypeOK /\ [Next]_vars => BoundsTypeOK'
<1> SUFFICES ASSUME BoundsTypeOK, [Next]_vars PROVE BoundsTypeOK'
  OBVIOUS
<1>1. Fault \/ faults' = faults
  BY DEF Next, Start, SyncStep, GetPushRules, GetFilter, StartupRequest, TokenUnknown,
         FirstRequest, DoSync,
         Recover, Head, Response, Processed, Save, SyncFails, Degrade, SavedStep, SavedRead, SavedProcessed,
         TimerFires, Fires, PokeAnswered, PokeSucceeds, PokeFails, Online, Stop, RemoveEvents, Crash,
         Update, vars, bounds
<1>2. \/ UNCHANGED <<crashes, online>>
      \/ crashes < MaxCrashes /\ crashes' = crashes + 1 /\ online' = online
      \/ online < MaxOnline /\ online' = online + 1 /\ crashes' = crashes
  BY DEF Next, Start, SyncStep, GetPushRules, GetFilter, StartupRequest, FirstRequest, DoSync,
         Recover, Head, Response, Processed, Save, SyncFails, SavedStep, SavedRead, SavedProcessed,
         TimerFires, Fires, PokeAnswered, PokeSucceeds, PokeFails, Online, Stop, RemoveEvents, Crash,
         Update, vars, bounds
<1> QED
  BY <1>1, <1>2, SyncLoopAssumption DEF BoundsTypeOK, Fault

\* The loop, the keep-alives, the accumulator and the database keep their types.
THEOREM TypeCorrect == Spec => []TypeOK
<1>1. Init => KeepAliveTypeOK /\ UpdatesTypeOK /\ BoundsTypeOK
  <2>1. AllOf(Nothing) = {}
    BY DEF AllOf, Nothing
  <2>2. 0 \in 0 .. MaxUpdates /\ 0 \in 0 .. Threshold
    BY SyncLoopAssumption
  <2>3. Init => KeepAliveTypeOK
    BY <2>2 DEF Init, KeepAliveTypeOK, SyncStates, Timers
  <2>4. Init => UpdatesTypeOK
    BY <2>1, <2>2 DEF Init, UpdatesTypeOK
  <2>5. Init => BoundsTypeOK
    BY SyncLoopAssumption DEF Init, BoundsTypeOK
  <2> QED
    BY <2>3, <2>4, <2>5
<1>2. SyncInv /\ KeepAliveTypeOK /\ UpdatesTypeOK /\ BoundsTypeOK => TypeOK
  <2> SUFFICES ASSUME SyncInv, KeepAliveTypeOK, UpdatesTypeOK, BoundsTypeOK PROVE TypeOK
    OBVIOUS
  <2>1. MaxUpdates \in Nat /\ now \in 0 .. MaxUpdates
    BY SyncLoopAssumption DEF UpdatesTypeOK
  <2>2. ASSUME NEW data \in Data, data.token <= now, AllOf(data) \subseteq Updates PROVE data \in Saved
    BY <2>1, <2>2 DEF Data, Saved, AllOf
  <2>3. acc \in Saved /\ disk \in Saved
    BY <2>2 DEF SyncInv, SyncTypeOK, UpdatesTypeOK
  <2>4. since \in {NoRequest} \cup 0 .. MaxUpdates /\ token \in 0 .. MaxUpdates
    BY <2>1 DEF SyncInv, SyncTypeOK, NoRequest
  <2> QED
    BY <2>1, <2>3, <2>4
       DEF TypeOK, SyncInv, SyncTypeOK, KeepAliveTypeOK, SyncStates, UpdatesTypeOK, BoundsTypeOK
<1> QED
  BY <1>1, <1>2, KeepAliveTypeStep, UpdatesTypeStep, BoundsTypeStep, SyncInvariant, PTL DEF Spec
=============================================================================

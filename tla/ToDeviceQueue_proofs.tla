------------------------ MODULE ToDeviceQueue_proofs ------------------------
(***************************************************************************)
(* For any calls, batches and bounds: the to-device queue keeps its types, *)
(* serves its store and implements ordered delivery.                       *)
(***************************************************************************)
EXTENDS ToDeviceQueue, QueueLemmas

\* The batches of a call, and of several calls, are batches.
LEMMA PartsAreBatches ==
    ASSUME NEW c \in Calls
    PROVE  Parts[c] \in Seq(Batches) /\ IsInjective(Parts[c]) /\ ToSet(Parts[c]) \subseteq Batches
<1>1. ToSet(Parts[c]) \subseteq Batches
  BY DEF Batches
<1>2. Parts[c] \in Seq(ToSet(Parts[c])) /\ IsInjective(Parts[c])
  BY ToDeviceAssumption
<1>3. Parts[c] \in Seq(Batches)
  <2>1. /\ Len(Parts[c]) \in Nat
        /\ Parts[c] \in [1..Len(Parts[c]) -> ToSet(Parts[c])]
    BY <1>2
  <2>2. Parts[c] \in [1..Len(Parts[c]) -> Batches]
    BY <1>1, <2>1
  <2> QED
    BY <2>1, <2>2
<1> QED
  BY <1>1, <1>2, <1>3

\* A call that was not made yet has left no trace.
NewIsUnknown ==
    \A c \in Calls : call[c] = "new" =>
        \A b \in ToSet(Parts[c]) : /\ b \notin ToSet(store) /\ b \notin ToSet(delivered)
                                  /\ dropped[b] = "no"

\* Of the batches in the store the server knows at most the oldest, and then
\* it is what the server got last.
OldestIsLast ==
    store # <<>> =>
        /\ ToSet(Tail(store)) \cap ToSet(delivered) = {}
        /\ Head(store) \in ToSet(delivered) => Head(store) = Last(delivered)

\* A batch is removed when the server has accepted or refused it.
RemovedIsSettled ==
    /\ accepted => loop \in {"http", "removing", "dropping"} /\ headBatch \in ToSet(delivered)
    /\ loop = "removing" => accepted
    /\ loop = "dropping" => dropped[headBatch] # "no"

DeliveryInv == NewIsUnknown /\ OldestIsLast /\ RemovedIsSettled /\ StoreIsServed

-----------------------------------------------------------------------------
(* Types.                                                                  *)

\* What a failure does: the loop ends, or it drops the batch that was refused.
LEMMA FailedEffect ==
    ASSUME NEW kind, Failed(kind)
    PROVE  /\ UNCHANGED <<call, store, running, started, delivered, stops, restarts>>
           /\ \/ /\ loop' = "idle" /\ retryTimer' = TRUE
                 /\ ~accepted' /\ headBatch' = NoBatch /\ UNCHANGED dropped
              \/ /\ loop' = "waiting" /\ UNCHANGED retryTimer
                 /\ ~accepted' /\ headBatch' = NoBatch /\ UNCHANGED dropped
              \/ /\ loop' = "dropping" /\ UNCHANGED <<accepted, headBatch, retryTimer>>
                 /\ kind \in {"fatal", "rateLimit"}
                 /\ dropped' = [dropped EXCEPT ![headBatch] = kind]
BY DEF Failed, End, GiveUp, EndAs

\* A failure keeps the types.
LEMMA FailedTypes ==
    ASSUME TypeOK, NEW kind \in Kinds, Failed(kind),
           loop \in {"http", "removing"} \/ (loop = "reading" /\ kind = "store")
    PROVE  TypeOK'
<1>1. errors' \in 0..MaxErrors /\ attempts' \in Nat
  BY ToDeviceAssumption DEF Failed, TypeOK
<1>2. UNCHANGED <<call, store, running, started, delivered, stops, restarts>>
  BY FailedEffect
<1>3. CASE loop' = "dropping"
  <2>1. /\ UNCHANGED <<accepted, headBatch, retryTimer>> /\ loop # "reading"
        /\ dropped' = [dropped EXCEPT ![headBatch] = kind]
    BY <1>3, FailedEffect
  <2> QED
    BY <1>1, <1>2, <1>3, <2>1 DEF TypeOK
<1>4. CASE loop' # "dropping"
  <2>1. /\ loop' \in {"idle", "waiting"} /\ retryTimer' \in {TRUE, retryTimer}
        /\ accepted' \in BOOLEAN /\ headBatch' = NoBatch /\ UNCHANGED dropped
    BY <1>4, FailedEffect DEF Failed, End, GiveUp, EndAs
  <2> QED
    BY <1>1, <1>2, <2>1 DEF TypeOK
<1> QED
  BY <1>3, <1>4

\* Every step keeps the types; a call adds its batches to a store that has none of them.
LEMMA TypeStep == TypeOK /\ NewIsUnknown /\ [Next]_vars => TypeOK'
<1> SUFFICES ASSUME TypeOK, NewIsUnknown, [Next]_vars PROVE TypeOK'
  OBVIOUS
<1> USE ToDeviceAssumption
<1>t. store # <<>> => /\ Tail(store) \in Seq(Batches) /\ IsInjective(Tail(store))
                     /\ Head(store) \in Batches
  BY TailOfQueue, HeadOfQueue DEF TypeOK
<1>1. ASSUME NEW c \in Calls, QueueBatch(c) PROVE TypeOK'
  <2> DEFINE P == Parts[c]
  <2>1. P \in Seq(Batches) /\ IsInjective(P) /\ ToSet(store) \cap ToSet(P) = {}
    BY <1>1, PartsAreBatches DEF QueueBatch, NewIsUnknown
  <2>2. /\ store \o P \in Seq(Batches) /\ IsInjective(store \o P)
        /\ store # <<>> => store \o P # <<>> /\ Head(store \o P) = Head(store)
    BY <2>1, ConcatQueues DEF TypeOK
  <2> QED
    BY <1>1, <2>2 DEF QueueBatch, loopVars, bounds, TypeOK
<1>2. ASSUME NEW c \in Calls, Saved(c) PROVE TypeOK'
  BY <1>2 DEF Saved, Kick, sending, loopVars, bounds, TypeOK
<1>3. CASE ReadOldest
  BY <1>t, <1>3 DEF ReadOldest, End, EndAs, bounds, TypeOK
<1>4. CASE Sent
  BY <1>4 DEF Sent, bounds, TypeOK
<1>5. CASE Removed
  BY <1>t, <1>5 DEF Removed, End, EndAs, bounds, TypeOK
<1>6. CASE Dropped
  BY <1>t, <1>6 DEF Dropped, GiveUp, EndAs, bounds, TypeOK
<1>7. CASE ServerAccepts
  BY <1>7 DEF ServerAccepts, bounds, TypeOK
<1>8. CASE RetryTimer
  BY <1>8 DEF RetryTimer, Kick, sending, loopVars, bounds, TypeOK
<1>9. ASSUME NEW kind \in Kinds, RequestFails(kind) PROVE TypeOK'
  <2>1. loop = "http" /\ Failed(kind)
    BY <1>9 DEF RequestFails
  <2> QED
    BY <2>1, FailedTypes
<1>10. CASE StoreFails
  BY <1>10, FailedTypes DEF StoreFails, Kinds
<1>11. CASE DropFails
  <2>1. errors' \in 0..MaxErrors
    BY <1>11 DEF DropFails, TypeOK
  <2> QED
    BY <1>11, <2>1 DEF DropFails, GiveUp, EndAs, TypeOK
<1>12. CASE KickedByClient
  BY <1>12 DEF KickedByClient, Kick, sending, loopVars, bounds, TypeOK
<1>13. CASE Start
  BY <1>13 DEF Start, Kick, sending, loopVars, bounds, TypeOK
<1>14. CASE Stop
  <2>1. stops' \in 0..MaxStops
    BY <1>14 DEF Stop, TypeOK
  <2> QED
    BY <1>14, <2>1 DEF Stop, loopVars, TypeOK
<1>15. CASE Restart
  <2>1. PICK lost \in SUBSET Unconfirmed :
            /\ call' = [c \in Calls |-> IF c \in lost THEN "lost"
                                      ELSE IF call[c] = "saving" THEN "done" ELSE call[c]]
            /\ store' = Without(store, UNION {ToSet(Parts[c]) : c \in lost})
    BY <1>15 DEF Restart
  <2>2. store' \in Seq(Batches) /\ IsInjective(store')
    BY <2>1, WithoutEntries DEF TypeOK
  <2>3. restarts' \in 0..MaxRestarts
    BY <1>15 DEF Restart, TypeOK
  <2>4. call' \in [Calls -> {"new", "saving", "done", "lost"}]
    BY <2>1 DEF TypeOK
  <2> QED
    BY <1>15, <2>2, <2>3, <2>4 DEF Restart, GiveUp, EndAs, TypeOK
<1>16. CASE UNCHANGED vars
  BY <1>16 DEF vars, TypeOK
<1> QED
  BY <1>1, <1>2, <1>3, <1>4, <1>5, <1>6, <1>7, <1>8, <1>9, <1>10, <1>11, <1>12, <1>13,
     <1>14, <1>15, <1>16 DEF Next, Loop

-----------------------------------------------------------------------------
(* The invariants.                                                         *)

\* What the head and the rest of the store are.
LEMMA StoreParts ==
    ASSUME TypeOK, store # <<>>
    PROVE  /\ Head(store) \in Batches /\ Head(store) \in ToSet(store)
           /\ Tail(store) \in Seq(Batches) /\ IsInjective(Tail(store))
           /\ ToSet(store) = ToSet(Tail(store)) \cup {Head(store)}
           /\ Head(store) \notin ToSet(Tail(store))
BY TailOfQueue, HeadOfQueue DEF TypeOK

\* A call that was not made stays unknown to store and server.
LEMMA NewIsUnknownStep == TypeOK /\ NewIsUnknown /\ [Next]_vars => NewIsUnknown'
<1> SUFFICES ASSUME TypeOK, NewIsUnknown, [Next]_vars PROVE NewIsUnknown'
  OBVIOUS
<1>f. ASSUME \A c \in Calls : call'[c] = "new" => call[c] = "new",
             ToSet(store') \subseteq ToSet(store), UNCHANGED <<delivered, dropped>>
      PROVE  NewIsUnknown'
  BY <1>f DEF NewIsUnknown
<1>t. store # <<>> => ToSet(Tail(store)) \subseteq ToSet(store) /\ Head(store) \in ToSet(store)
  BY StoreParts
<1>k. ASSUME NEW kind, Failed(kind),
             loop \in {"http", "removing"} \/ (loop = "reading" /\ kind = "store")
      PROVE  NewIsUnknown'
  <2>1. CASE UNCHANGED dropped
    BY <1>f, <1>k, <2>1, FailedEffect
  <2>2. CASE dropped' = [dropped EXCEPT ![headBatch] = kind] /\ kind # "store"
    <3>1. headBatch \in ToSet(store)
      BY <1>k, <1>t, <2>2 DEF TypeOK
    <3>2. \A b : dropped'[b] # dropped[b] => b = headBatch
      BY <2>2 DEF TypeOK
    <3> QED
      BY <1>k, <3>1, <3>2, FailedEffect DEF NewIsUnknown
  <2> QED
    BY <1>k, <2>1, <2>2, FailedEffect
<1>1. ASSUME NEW d \in Calls, QueueBatch(d) PROVE NewIsUnknown'
  <2>1. ToSet(store') = ToSet(store) \cup ToSet(Parts[d])
    BY <1>1, PartsAreBatches, ConcatQueues DEF QueueBatch, TypeOK
  <2>2. \A c \in Calls : call'[c] = "new" => call[c] = "new" /\ c # d
    BY <1>1 DEF QueueBatch, TypeOK
  <2>3. UNCHANGED <<delivered, dropped>>
    BY <1>1 DEF QueueBatch
  <2> QED
    BY <2>1, <2>2, <2>3, ToDeviceAssumption DEF NewIsUnknown
<1>2. ASSUME NEW d \in Calls, Saved(d) PROVE NewIsUnknown'
  BY <1>2, <1>f DEF Saved, TypeOK
<1>3. CASE ReadOldest
  BY <1>f, <1>3 DEF ReadOldest
<1>4. CASE Sent
  BY <1>f, <1>4 DEF Sent
<1>5. CASE Removed
  BY <1>f, <1>t, <1>5 DEF Removed, TypeOK
<1>6. CASE Dropped
  BY <1>f, <1>t, <1>6 DEF Dropped, TypeOK
<1>7. CASE ServerAccepts
  <2>1. headBatch \in ToSet(store) /\ headBatch \in Batches
    BY <1>7, StoreParts DEF ServerAccepts, TypeOK
  <2>2. ToSet(delivered') \subseteq ToSet(delivered) \cup {headBatch}
    BY <1>7, <2>1, AppendToQueue DEF ServerAccepts, TypeOK
  <2> QED
    BY <1>7, <2>1, <2>2 DEF ServerAccepts, NewIsUnknown
<1>8. CASE RetryTimer
  BY <1>f, <1>8 DEF RetryTimer
<1>9. ASSUME NEW kind \in Kinds, RequestFails(kind) PROVE NewIsUnknown'
  BY <1>9, <1>k DEF RequestFails
<1>10. CASE StoreFails
  BY <1>10, <1>k DEF StoreFails
<1>11. CASE DropFails
  BY <1>f, <1>11 DEF DropFails
<1>12. CASE KickedByClient
  BY <1>f, <1>12 DEF KickedByClient
<1>13. CASE Start
  BY <1>f, <1>13 DEF Start
<1>14. CASE Stop
  BY <1>f, <1>14 DEF Stop
<1>15. CASE Restart
  <2>1. ToSet(store') \subseteq ToSet(store)
    BY <1>15, WithoutEntries DEF Restart, TypeOK
  <2>2. \A c \in Calls : call'[c] = "new" => call[c] = "new"
    BY <1>15 DEF Restart
  <2> QED
    BY <1>f, <1>15, <2>1, <2>2 DEF Restart
<1>16. CASE UNCHANGED vars
  BY <1>f, <1>16 DEF vars
<1> QED
  BY <1>1, <1>2, <1>3, <1>4, <1>5, <1>6, <1>7, <1>8, <1>9, <1>10, <1>11, <1>12, <1>13,
     <1>14, <1>15, <1>16 DEF Next, Loop

\* The loop does not end while a batch is in the store, unless its timer is set.
LEMMA StoreIsServedStep == TypeOK /\ StoreIsServed /\ [Next]_vars => StoreIsServed'
<1> SUFFICES ASSUME TypeOK, StoreIsServed, [Next]_vars PROVE StoreIsServed'
  OBVIOUS
<1>k. ASSUME NEW kind, Failed(kind) PROVE StoreIsServed'
  BY <1>k, FailedEffect DEF StoreIsServed
<1>1. ASSUME NEW d \in Calls, QueueBatch(d) PROVE StoreIsServed'
  BY <1>1 DEF QueueBatch, StoreIsServed, TypeOK
<1>2. ASSUME NEW d \in Calls, Saved(d) PROVE StoreIsServed'
  BY <1>2 DEF Saved, Kick, sending, loopVars, StoreIsServed, TypeOK
<1>3. CASE ReadOldest
  BY <1>3 DEF ReadOldest, End, EndAs, StoreIsServed
<1>4. CASE Sent
  BY <1>4 DEF Sent, StoreIsServed
<1>5. CASE Removed
  BY <1>5 DEF Removed, End, EndAs, StoreIsServed
<1>6. CASE Dropped
  BY <1>6 DEF Dropped, GiveUp, EndAs, StoreIsServed
<1>7. CASE ServerAccepts
  BY <1>7 DEF ServerAccepts, StoreIsServed
<1>8. CASE RetryTimer
  BY <1>8 DEF RetryTimer, Kick, sending, loopVars, StoreIsServed
<1>9. ASSUME NEW kind \in Kinds, RequestFails(kind) PROVE StoreIsServed'
  BY <1>9, <1>k DEF RequestFails
<1>10. CASE StoreFails
  BY <1>10, <1>k DEF StoreFails
<1>11. CASE DropFails
  BY <1>11 DEF DropFails, GiveUp, EndAs, StoreIsServed
<1>12. CASE KickedByClient
  BY <1>12 DEF KickedByClient, Kick, sending, loopVars, StoreIsServed
<1>13. CASE Start
  BY <1>13 DEF Start, Kick, sending, loopVars, StoreIsServed
<1>14. CASE Stop
  BY <1>14 DEF Stop, StoreIsServed
<1>15. CASE Restart
  BY <1>15 DEF Restart, GiveUp, EndAs, StoreIsServed
<1>16. CASE UNCHANGED vars
  BY <1>16 DEF vars, StoreIsServed
<1> QED
  BY <1>1, <1>2, <1>3, <1>4, <1>5, <1>6, <1>7, <1>8, <1>9, <1>10, <1>11, <1>12, <1>13,
     <1>14, <1>15, <1>16 DEF Next, Loop

\* What the loop is about to remove was accepted or refused.
LEMMA RemovedIsSettledStep ==
    TypeOK /\ RemovedIsSettled /\ [Next]_vars => RemovedIsSettled'
<1> SUFFICES ASSUME TypeOK, RemovedIsSettled, [Next]_vars PROVE RemovedIsSettled'
  OBVIOUS
<1>k. ASSUME NEW kind, Failed(kind),
             loop \in {"http", "removing"} \/ (loop = "reading" /\ kind = "store")
      PROVE  RemovedIsSettled'
  <2>1. CASE loop' # "dropping"
    BY <1>k, <2>1, FailedEffect DEF RemovedIsSettled
  <2>2. CASE loop' = "dropping"
    <3>1. /\ kind \in {"fatal", "rateLimit"} /\ dropped' = [dropped EXCEPT ![headBatch] = kind]
          /\ UNCHANGED <<accepted, headBatch, delivered>>
      BY <1>k, <2>2, FailedEffect
    <3>2. headBatch \in Batches
      BY <1>k, <3>1, StoreParts DEF TypeOK
    <3> QED
      BY <2>2, <3>1, <3>2 DEF RemovedIsSettled, TypeOK
  <2> QED
    BY <2>1, <2>2
<1>1. ASSUME NEW d \in Calls, QueueBatch(d) PROVE RemovedIsSettled'
  BY <1>1 DEF QueueBatch, loopVars, RemovedIsSettled
<1>2. ASSUME NEW d \in Calls, Saved(d) PROVE RemovedIsSettled'
  BY <1>2 DEF Saved, Kick, loopVars, RemovedIsSettled
<1>3. CASE ReadOldest
  BY <1>3 DEF ReadOldest, End, EndAs, RemovedIsSettled
<1>4. CASE Sent
  BY <1>4 DEF Sent, RemovedIsSettled
<1>5. CASE Removed
  BY <1>5 DEF Removed, End, EndAs, RemovedIsSettled
<1>6. CASE Dropped
  BY <1>6 DEF Dropped, GiveUp, EndAs, RemovedIsSettled
<1>7. CASE ServerAccepts
  <2>1. headBatch \in Batches
    BY <1>7, StoreParts DEF ServerAccepts, TypeOK
  <2>2. headBatch \in ToSet(delivered')
    BY <1>7, <2>1, AppendToQueue DEF ServerAccepts, TypeOK
  <2> QED
    BY <1>7, <2>2 DEF ServerAccepts, RemovedIsSettled
<1>8. CASE RetryTimer
  BY <1>8 DEF RetryTimer, Kick, loopVars, RemovedIsSettled
<1>9. ASSUME NEW kind \in Kinds, RequestFails(kind) PROVE RemovedIsSettled'
  BY <1>9, <1>k DEF RequestFails
<1>10. CASE StoreFails
  BY <1>10, <1>k DEF StoreFails
<1>11. CASE DropFails
  BY <1>11 DEF DropFails, GiveUp, EndAs, RemovedIsSettled
<1>12. CASE KickedByClient
  BY <1>12 DEF KickedByClient, Kick, loopVars, RemovedIsSettled
<1>13. CASE Start
  BY <1>13 DEF Start, Kick, loopVars, RemovedIsSettled
<1>14. CASE Stop
  BY <1>14 DEF Stop, loopVars, RemovedIsSettled
<1>15. CASE Restart
  BY <1>15 DEF Restart, GiveUp, EndAs, RemovedIsSettled
<1>16. CASE UNCHANGED vars
  BY <1>16 DEF vars, RemovedIsSettled
<1> QED
  BY <1>1, <1>2, <1>3, <1>4, <1>5, <1>6, <1>7, <1>8, <1>9, <1>10, <1>11, <1>12, <1>13,
     <1>14, <1>15, <1>16 DEF Next, Loop

\* A batch that was not delivered, at the end of the delivered ones.
LEMMA LastOfQueue ==
    ASSUME NEW S, NEW q \in Seq(S), NEW e \in S
    PROVE  Last(Append(q, e)) = e
BY DEF Last

\* The server never knows more of the store than its oldest batch.
LEMMA OldestIsLastStep ==
    TypeOK /\ NewIsUnknown /\ OldestIsLast /\ RemovedIsSettled /\ [Next]_vars => OldestIsLast'
<1> SUFFICES ASSUME TypeOK, NewIsUnknown, OldestIsLast, RemovedIsSettled, [Next]_vars
             PROVE  OldestIsLast'
  OBVIOUS
<1>f. ASSUME UNCHANGED <<store, delivered>> PROVE OldestIsLast'
  BY <1>f DEF OldestIsLast
\* No batch that follows is known to the server when the oldest one goes.
<1>t. ASSUME store # <<>>, store' = Tail(store), UNCHANGED delivered PROVE OldestIsLast'
  <2> SUFFICES ASSUME store' # <<>> PROVE OldestIsLast'
    BY DEF OldestIsLast
  <2>1. /\ ToSet(Tail(store)) \cap ToSet(delivered) = {}
        /\ Tail(store) \in Seq(Batches) /\ Tail(store) # <<>>
    BY <1>t, StoreParts DEF OldestIsLast
  <2>2. /\ ToSet(Tail(store)) = ToSet(Tail(Tail(store))) \cup {Head(Tail(store))}
    BY <2>1, TailOfQueue
  <2> QED
    BY <1>t, <2>1, <2>2 DEF OldestIsLast
<1>k. ASSUME NEW kind, Failed(kind) PROVE OldestIsLast'
  BY <1>f, <1>k, FailedEffect
<1>1. ASSUME NEW d \in Calls, QueueBatch(d) PROVE OldestIsLast'
  <2> DEFINE p == Parts[d]
  <2>1. /\ p \in Seq(Batches) /\ store' = store \o p /\ UNCHANGED delivered
        /\ ToSet(p) \cap ToSet(delivered) = {}
    BY <1>1, PartsAreBatches DEF QueueBatch, NewIsUnknown
  <2> HIDE DEF p
  <2>2. CASE store = <<>>
    <3>1. store' = p
      BY <2>1, <2>2, ConcatQueues DEF TypeOK
    <3>2. p # <<>> => ToSet(p) = ToSet(Tail(p)) \cup {Head(p)}
      BY <2>1, TailOfQueue
    <3> QED
      BY <2>1, <3>1, <3>2 DEF OldestIsLast
  <2>3. CASE store # <<>>
    <3>1. Head(store') = Head(store) /\ Tail(store') = Tail(store) \o p
      BY <2>1, <2>3, ConcatQueues DEF TypeOK
    <3>2. ToSet(Tail(store')) = ToSet(Tail(store)) \cup ToSet(p)
      <4>1. Tail(store) \in Seq(Batches)
        BY <2>3, StoreParts
      <4>2. p \in Seq(Batches)
        BY <2>1
      <4>3. ToSet(Tail(store) \o p) = ToSet(Tail(store)) \cup ToSet(p)
        <5>1. \A u, v \in Seq(Batches) : ToSet(u \o v) = ToSet(u) \cup ToSet(v)
          BY ConcatQueues
        <5> QED
          BY <4>1, <4>2, <5>1
      <4> QED
        BY <3>1, <4>3
    <3> QED
      BY <2>1, <2>3, <3>1, <3>2 DEF OldestIsLast
  <2> QED
    BY <2>2, <2>3
<1>2. ASSUME NEW d \in Calls, Saved(d) PROVE OldestIsLast'
  BY <1>2, <1>f DEF Saved
<1>3. CASE ReadOldest
  BY <1>f, <1>3 DEF ReadOldest
<1>4. CASE Sent
  BY <1>f, <1>4 DEF Sent
<1>5. CASE Removed
  BY <1>t, <1>5 DEF Removed, TypeOK
<1>6. CASE Dropped
  BY <1>t, <1>6 DEF Dropped, TypeOK
<1>7. CASE ServerAccepts
  <2>1. store # <<>> /\ headBatch = Head(store) /\ headBatch \in Batches
        /\ headBatch \notin ToSet(Tail(store)) /\ UNCHANGED store
    BY <1>7, StoreParts DEF ServerAccepts, TypeOK
  <2>2. CASE headBatch \in ToSet(delivered)
    BY <1>f, <1>7, <2>1, <2>2 DEF ServerAccepts
  <2>3. CASE headBatch \notin ToSet(delivered)
    <3>1. delivered' = Append(delivered, headBatch)
      BY <1>7, <2>3 DEF ServerAccepts
    <3>2. ToSet(delivered') = ToSet(delivered) \cup {headBatch} /\ Last(delivered') = headBatch
      BY <2>1, <3>1, AppendToQueue, LastOfQueue DEF TypeOK
    <3> QED
      BY <2>1, <3>2 DEF OldestIsLast
  <2> QED
    BY <2>2, <2>3
<1>8. CASE RetryTimer
  BY <1>f, <1>8 DEF RetryTimer
<1>9. ASSUME NEW kind \in Kinds, RequestFails(kind) PROVE OldestIsLast'
  BY <1>9, <1>k DEF RequestFails
<1>10. CASE StoreFails
  BY <1>10, <1>k DEF StoreFails
<1>11. CASE DropFails
  BY <1>f, <1>11 DEF DropFails
<1>12. CASE KickedByClient
  BY <1>f, <1>12 DEF KickedByClient
<1>13. CASE Start
  BY <1>f, <1>13 DEF Start
<1>14. CASE Stop
  BY <1>f, <1>14 DEF Stop
<1>15. CASE Restart
  <2>1. PICK lost \in SUBSET Unconfirmed :
            store' = Without(store, UNION {ToSet(Parts[c]) : c \in lost})
    BY <1>15 DEF Restart
  <2> DEFINE gone == UNION {ToSet(Parts[c]) : c \in lost}
  <2>2. gone \cap ToSet(delivered) = {} /\ UNCHANGED delivered
    BY <1>15 DEF Restart, Unconfirmed
  <2> HIDE DEF gone
  <2>3. store' \in Seq(Batches) /\ ToSet(store') = ToSet(store) \ gone
        /\ (ToSet(store) \cap gone = {} => store' = store)
    BY <2>1, WithoutEntries DEF TypeOK, gone
  <2>4. CASE store = <<>>
    <3>1. ToSet(store) = {}
      BY <2>4 DEF ToSet
    <3> QED
      BY <1>f, <2>2, <2>3, <3>1
  <2>5. CASE store # <<>> /\ Head(store) \notin gone
    <3>1. Head(store') = Head(store) /\ Tail(store') = Without(Tail(store), gone)
      BY <2>1, <2>5, WithoutHead DEF TypeOK, gone
    <3>2. ToSet(Tail(store')) \subseteq ToSet(Tail(store))
      <4>1. Tail(store) \in Seq(Batches)
        BY <2>5, StoreParts
      <4>2. ToSet(Without(Tail(store), gone)) = ToSet(Tail(store)) \ gone
        BY <4>1, WithoutEntries
      <4> QED
        BY <3>1, <4>2
    <3> QED
      BY <2>2, <2>5, <3>1, <3>2 DEF OldestIsLast
  <2>6. CASE store # <<>> /\ Head(store) \in gone
    <3>1. ToSet(store) \cap ToSet(delivered) = {}
      BY <2>2, <2>6, StoreParts DEF OldestIsLast
    <3>2. store' # <<>> => ToSet(store') = ToSet(Tail(store')) \cup {Head(store')}
      BY <2>3, TailOfQueue
    <3> QED
      BY <2>2, <2>3, <3>1, <3>2 DEF OldestIsLast
  <2> QED
    BY <2>4, <2>5, <2>6
<1>16. CASE UNCHANGED vars
  BY <1>f, <1>16 DEF vars
<1> QED
  BY <1>1, <1>2, <1>3, <1>4, <1>5, <1>6, <1>7, <1>8, <1>9, <1>10, <1>11, <1>12, <1>13,
     <1>14, <1>15, <1>16 DEF Next, Loop

-----------------------------------------------------------------------------
(* The queue implements ordered delivery.                                  *)

waitingBar == IF store # <<>> /\ Head(store) \in ToSet(delivered) THEN Tail(store) ELSE store
stateBar == [c \in Calls |-> CASE call[c] = "saving" -> "queued"
                               [] call[c] = "done" -> "returned"
                               [] OTHER -> call[c]]
refusedBar == {b \in Batches : dropped[b] # "no"}

\* The abstract actions, in terms of what they are mapped to.
LEMMA AbstractSteps ==
    /\ UNCHANGED <<stateBar, waitingBar, delivered, refusedBar>> => UNCHANGED Delivery!vars
    /\ \A c \in Calls : Delivery!Queue(c) <=>
          /\ stateBar[c] = "new" /\ stateBar' = [stateBar EXCEPT ![c] = "queued"]
          /\ waitingBar' = waitingBar \o Parts[c]
          /\ UNCHANGED <<delivered, refusedBar>>
    /\ \A c \in Calls : Delivery!Return(c) <=>
          /\ stateBar[c] = "queued" /\ stateBar' = [stateBar EXCEPT ![c] = "returned"]
          /\ UNCHANGED <<waitingBar, delivered, refusedBar>>
    /\ Delivery!Deliver <=>
          /\ waitingBar # <<>>
          /\ waitingBar' = Tail(waitingBar) /\ delivered' = Append(delivered, Head(waitingBar))
          /\ UNCHANGED <<stateBar, refusedBar>>
    /\ Delivery!Refuse <=>
          /\ \/ waitingBar # <<>> /\ refusedBar' = refusedBar \cup {Head(waitingBar)}
             \/ delivered # <<>> /\ refusedBar' = refusedBar \cup {Last(delivered)}
          /\ UNCHANGED <<stateBar, waitingBar, delivered>>
    /\ Delivery!Drop <=>
          /\ waitingBar # <<>> /\ Head(waitingBar) \in refusedBar
          /\ waitingBar' = Tail(waitingBar)
          /\ UNCHANGED <<stateBar, delivered, refusedBar>>
BY DEF Delivery!vars, Delivery!Queue, Delivery!Return, Delivery!Deliver, Delivery!Refuse,
       Delivery!Drop, stateBar, waitingBar, refusedBar, Delivery!Last, Last

\* The crash of the abstract queue, in terms of what it is mapped to.
LEMMA AbstractCrash ==
    ASSUME NEW lost \in SUBSET {c \in Calls : stateBar[c] = "queued"},
           NEW gone, gone = UNION {ToSet(Parts[c]) : c \in lost},
           gone \cap (ToSet(delivered) \cup refusedBar) = {},
           waitingBar' = Without(waitingBar, gone),
           stateBar' = [c \in Calls |-> IF c \in lost THEN "lost"
                                        ELSE IF stateBar[c] = "queued" THEN "returned"
                                        ELSE stateBar[c]],
           UNCHANGED <<delivered, refusedBar>>
    PROVE  Delivery!Crash
<1>1. Delivery!Without(waitingBar, gone) = Without(waitingBar, gone)
  BY DEF Delivery!Without, Without, Delivery!Remainders, Remainders
<1> DEFINE U(l) == UNION {Delivery!ToSet(Parts[c]) : c \in l}
<1>2. U(lost) = gone /\ Delivery!ToSet(delivered) = ToSet(delivered)
  BY DEF Delivery!ToSet, ToSet
<1>3. /\ lost \in SUBSET {c \in Calls : stateBar[c] = "queued"}
      /\ U(lost) \cap (Delivery!ToSet(delivered) \cup refusedBar) = {}
      /\ waitingBar' = Delivery!Without(waitingBar, U(lost))
      /\ stateBar' = [c \in Calls |-> IF c \in lost THEN "lost"
                                      ELSE IF stateBar[c] = "queued" THEN "returned"
                                      ELSE stateBar[c]]
      /\ UNCHANGED <<delivered, refusedBar>>
  <2> HIDE DEF U
  <2>1. Delivery!Without(waitingBar, U(lost)) = Without(waitingBar, gone)
    BY <1>1, <1>2
  <2> QED
    BY <1>2, <2>1
<1> QED
  BY ONLY <1>3, Zenon DEF Delivery!Crash, stateBar, waitingBar, refusedBar

\* When the oldest batch leaves the store and the server knows it, all that
\* follows still waits.
LEMMA OldestLeaves ==
    ASSUME TypeOK, OldestIsLast, store # <<>>, store' = Tail(store), UNCHANGED delivered
    PROVE  waitingBar' = Tail(store)
<1>1. ASSUME Tail(store) # <<>> PROVE Head(Tail(store)) \notin ToSet(delivered)
  BY <1>1, StoreParts, HeadOfQueue DEF OldestIsLast
<1> QED
  BY <1>1 DEF waitingBar

\* Every step is one of the abstract queue, or leaves it alone.
LEMMA DeliveryStep ==
    ASSUME TypeOK, NewIsUnknown, OldestIsLast, RemovedIsSettled, [Next]_vars
    PROVE  [Delivery!Next]_(Delivery!vars)
<1> DEFINE same == UNCHANGED <<stateBar, waitingBar, delivered, refusedBar>>
           goal == Delivery!Next \/ Delivery!vars' = Delivery!vars
<1>v. ASSUME same PROVE goal
  BY <1>v, AbstractSteps
<1> HIDE DEF goal
<1> SUFFICES goal
  BY DEF goal
<1>f. ASSUME UNCHANGED <<call, store, delivered, dropped>> PROVE goal
  BY <1>f, <1>v DEF stateBar, waitingBar, refusedBar
<1>k. ASSUME NEW kind \in Kinds, Failed(kind),
             loop \in {"http", "removing"} \/ (loop = "reading" /\ kind = "store")
      PROVE  goal
  <2>1. CASE UNCHANGED dropped
    BY <1>f, <1>k, <2>1, FailedEffect
  <2>2. CASE dropped' = [dropped EXCEPT ![headBatch] = kind] /\ kind # "store"
    <3>1. /\ store # <<>> /\ headBatch = Head(store) /\ headBatch \in Batches
          /\ UNCHANGED <<call, store, delivered>> /\ kind # "no"
      BY <1>k, <2>2, FailedEffect, StoreParts DEF TypeOK, Kinds
    <3>2. UNCHANGED <<stateBar, waitingBar, delivered>>
      BY <3>1 DEF stateBar, waitingBar
    <3>3. refusedBar' = refusedBar \cup {headBatch}
      BY <2>2, <3>1 DEF refusedBar, TypeOK
    <3>4. CASE headBatch \in ToSet(delivered)
      <4>1. headBatch = Last(delivered) /\ delivered # <<>>
        BY <3>1, <3>4 DEF OldestIsLast, ToSet
      <4>2. Delivery!Refuse
        BY <3>2, <3>3, <4>1, AbstractSteps
      <4> QED
        BY <4>2 DEF goal, Delivery!Next
    <3>5. CASE headBatch \notin ToSet(delivered)
      <4>1. waitingBar # <<>> /\ Head(waitingBar) = headBatch
        BY <3>1, <3>5 DEF waitingBar
      <4>2. Delivery!Refuse
        BY <3>2, <3>3, <4>1, AbstractSteps
      <4> QED
        BY <4>2 DEF goal, Delivery!Next
    <3> QED
      BY <3>4, <3>5
  <2> QED
    BY <1>k, <2>1, <2>2, FailedEffect
<1>1. ASSUME NEW c \in Calls, QueueBatch(c) PROVE goal
  <2> DEFINE p == Parts[c]
  <2>1. /\ p \in Seq(Batches) /\ store' = store \o p /\ UNCHANGED <<delivered, dropped>>
        /\ ToSet(p) \cap ToSet(delivered) = {}
        /\ call[c] = "new" /\ call' = [call EXCEPT ![c] = "saving"]
    BY <1>1, PartsAreBatches DEF QueueBatch, NewIsUnknown
  <2>2. stateBar[c] = "new" /\ stateBar' = [stateBar EXCEPT ![c] = "queued"]
    BY <2>1 DEF stateBar, TypeOK
  <2>3. waitingBar' = waitingBar \o p
    <3> HIDE DEF p
    <3>1. CASE store = <<>>
      <4>1. store' = p /\ waitingBar = <<>>
        BY <2>1, <3>1, ConcatQueues DEF TypeOK, waitingBar
      <4>2. p # <<>> => Head(p) \notin ToSet(delivered)
        BY <2>1, HeadOfQueue
      <4>3. waitingBar' = p
        BY <2>1, <4>1, <4>2 DEF waitingBar
      <4> QED
        BY <2>1, <4>1, <4>3
    <3>2. CASE store # <<>>
      <4>1. store' # <<>> /\ Head(store') = Head(store) /\ Tail(store') = Tail(store) \o p
        BY <2>1, <3>2, ConcatQueues DEF TypeOK
      <4> QED
        BY <2>1, <3>2, <4>1 DEF waitingBar
    <3> QED
      BY <3>1, <3>2
  <2>4. UNCHANGED refusedBar
    BY <2>1 DEF refusedBar
  <2>5. Delivery!Queue(c)
    BY <2>1, <2>2, <2>3, <2>4, AbstractSteps
  <2> QED
    BY <2>5 DEF goal, Delivery!Next
<1>2. ASSUME NEW c \in Calls, Saved(c) PROVE goal
  <2>1. /\ call[c] = "saving" /\ call' = [call EXCEPT ![c] = "done"]
        /\ UNCHANGED <<store, delivered, dropped>>
    BY <1>2 DEF Saved
  <2>2. stateBar[c] = "queued" /\ stateBar' = [stateBar EXCEPT ![c] = "returned"]
    BY <2>1 DEF stateBar, TypeOK
  <2>3. UNCHANGED <<waitingBar, refusedBar>>
    BY <2>1 DEF waitingBar, refusedBar
  <2>4. Delivery!Return(c)
    BY <2>1, <2>2, <2>3, AbstractSteps
  <2> QED
    BY <2>4 DEF goal, Delivery!Next
<1>3. CASE ReadOldest
  BY <1>f, <1>3 DEF ReadOldest
<1>4. CASE Sent
  BY <1>f, <1>4 DEF Sent
\* A batch that was accepted leaves the store: it was not waiting any more.
<1>5. CASE Removed
  <2>1. /\ store # <<>> /\ store' = Tail(store) /\ UNCHANGED <<call, delivered, dropped>>
        /\ Head(store) \in ToSet(delivered)
    BY <1>5 DEF Removed, TypeOK, RemovedIsSettled
  <2>2. waitingBar' = waitingBar
    BY <2>1, OldestLeaves DEF waitingBar
  <2> QED
    BY <1>v, <2>1, <2>2 DEF stateBar, refusedBar
\* A batch that was refused leaves the store: it was waiting, unless the server
\* had accepted it before.
<1>6. CASE Dropped
  <2>1. /\ store # <<>> /\ store' = Tail(store) /\ UNCHANGED <<call, delivered, dropped>>
        /\ Head(store) \in refusedBar
    BY <1>6, StoreParts DEF Dropped, TypeOK, RemovedIsSettled, refusedBar
  <2>2. waitingBar' = Tail(store) /\ UNCHANGED <<stateBar, refusedBar>>
    BY <2>1, OldestLeaves DEF stateBar, refusedBar
  <2>3. CASE Head(store) \in ToSet(delivered)
    BY <1>v, <2>1, <2>2, <2>3 DEF waitingBar
  <2>4. CASE Head(store) \notin ToSet(delivered)
    <3>1. waitingBar = store
      BY <2>4 DEF waitingBar
    <3>2. Delivery!Drop
      BY <2>1, <2>2, <3>1, AbstractSteps
    <3> QED
      BY <3>2 DEF goal, Delivery!Next
  <2> QED
    BY <2>3, <2>4
<1>7. CASE ServerAccepts
  <2>1. store # <<>> /\ headBatch = Head(store) /\ headBatch \in Batches
        /\ UNCHANGED <<call, store, dropped>>
    BY <1>7, StoreParts DEF ServerAccepts, TypeOK
  <2>2. CASE headBatch \in ToSet(delivered)
    BY <1>f, <1>7, <2>1, <2>2 DEF ServerAccepts
  <2>3. CASE headBatch \notin ToSet(delivered)
    <3>1. delivered' = Append(delivered, headBatch)
      BY <1>7, <2>3 DEF ServerAccepts
    <3>2. headBatch \in ToSet(delivered')
      BY <2>1, <3>1, AppendToQueue DEF TypeOK
    <3>3. waitingBar = store /\ waitingBar' = Tail(store)
      BY <2>1, <2>3, <3>2 DEF waitingBar
    <3>4. UNCHANGED <<stateBar, refusedBar>>
      BY <2>1 DEF stateBar, refusedBar
    <3>5. Delivery!Deliver
      BY <2>1, <3>1, <3>3, <3>4, AbstractSteps
    <3> QED
      BY <3>5 DEF goal, Delivery!Next
  <2> QED
    BY <2>2, <2>3
<1>8. CASE RetryTimer
  BY <1>f, <1>8 DEF RetryTimer
<1>9. ASSUME NEW kind \in Kinds, RequestFails(kind) PROVE goal
  BY <1>9, <1>k DEF RequestFails
<1>10. CASE StoreFails
  BY <1>10, <1>k DEF StoreFails, Kinds
<1>11. CASE DropFails
  BY <1>f, <1>11 DEF DropFails
<1>12. CASE KickedByClient
  BY <1>f, <1>12 DEF KickedByClient
<1>13. CASE Start
  BY <1>f, <1>13 DEF Start
<1>14. CASE Stop
  BY <1>f, <1>14 DEF Stop
<1>15. CASE Restart
  <2>1. PICK lost \in SUBSET Unconfirmed :
            /\ call' = [c \in Calls |-> IF c \in lost THEN "lost"
                                      ELSE IF call[c] = "saving" THEN "done" ELSE call[c]]
            /\ store' = Without(store, UNION {ToSet(Parts[c]) : c \in lost})
    BY <1>15 DEF Restart
  <2> DEFINE gone == UNION {ToSet(Parts[c]) : c \in lost}
  <2>2. gone \cap (ToSet(delivered) \cup refusedBar) = {}
    BY DEF Unconfirmed, refusedBar
  <2>3. /\ UNCHANGED <<delivered, dropped>>
        /\ lost \in SUBSET {c \in Calls : stateBar[c] = "queued"}
    BY <1>15 DEF Restart, Unconfirmed, stateBar
  <2>4. stateBar' = [c \in Calls |-> IF c \in lost THEN "lost"
                                     ELSE IF stateBar[c] = "queued" THEN "returned"
                                     ELSE stateBar[c]]
    <3>1. \A c \in Calls : /\ call[c] \in {"new", "saving", "done", "lost"}
                           /\ call'[c] = IF c \in lost THEN "lost"
                                         ELSE IF call[c] = "saving" THEN "done" ELSE call[c]
                           /\ c \in lost => call[c] = "saving"
      BY <2>1 DEF TypeOK, Unconfirmed
    <3> QED
      BY <3>1 DEF stateBar
  <2>5. waitingBar' = Without(waitingBar, gone)
    <3> HIDE DEF gone
    <3>1. store' = Without(store, gone) /\ UNCHANGED delivered
      BY <2>1, <2>3 DEF gone
    <3>2. store' \in Seq(Batches) /\ ToSet(store') = ToSet(store) \ gone
          /\ (ToSet(store) \cap gone = {} => store' = store)
      BY <3>1, WithoutEntries DEF TypeOK
    <3>3. CASE store = <<>>
      BY <3>1, <3>2, <3>3 DEF waitingBar, ToSet
    <3>4. CASE store # <<>> /\ Head(store) \in ToSet(delivered)
      <4>1. Head(store) \notin gone
        BY <2>2, <3>4
      <4>2. /\ store' # <<>> /\ Head(store') = Head(store)
            /\ Tail(store') = Without(Tail(store), gone)
        BY <3>1, <3>4, <4>1, WithoutHead DEF TypeOK
      <4> QED
        BY <3>1, <3>4, <4>2 DEF waitingBar
    <3>5. CASE store # <<>> /\ Head(store) \notin ToSet(delivered)
      <4>1. ToSet(store) \cap ToSet(delivered) = {}
        BY <3>5, StoreParts DEF OldestIsLast
      <4>2. store' # <<>> => Head(store') \notin ToSet(delivered)
        BY <3>2, <4>1, HeadOfQueue
      <4> QED
        BY <3>1, <3>5, <4>2 DEF waitingBar
    <3> QED
      BY <3>3, <3>4, <3>5
  <2>6. UNCHANGED refusedBar
    BY <2>3 DEF refusedBar
  <2>7. Delivery!Crash
    BY <2>2, <2>3, <2>4, <2>5, <2>6, AbstractCrash
  <2> QED
    BY <2>7 DEF goal, Delivery!Next
<1>16. CASE UNCHANGED vars
  BY <1>f, <1>16 DEF vars
<1> QED
  BY <1>1, <1>2, <1>3, <1>4, <1>5, <1>6, <1>7, <1>8, <1>9, <1>10, <1>11, <1>12, <1>13,
     <1>14, <1>15, <1>16 DEF Next, Loop

-----------------------------------------------------------------------------
(* The theorems.                                                           *)

\* Initially nothing is waiting.
LEMMA QueueInit == Init => TypeOK /\ DeliveryInv /\ Delivery!Init
<1> SUFFICES ASSUME Init PROVE TypeOK /\ DeliveryInv /\ Delivery!Init
  OBVIOUS
<1>1. ToSet(<<>>) = {} /\ IsInjective(<<>>) /\ <<>> \in Seq(Batches)
  BY DEF ToSet, IsInjective
<1>2. TypeOK
  <2>1. 0 \in 0..MaxErrors /\ 0 \in 0..MaxStops /\ 0 \in 0..MaxRestarts /\ 0 \in Nat
    BY ToDeviceAssumption
  <2>2. dropped \in [Batches -> Kinds \cup {"no"}]
    BY DEF Init
  <2> QED
    BY <1>1, <2>1, <2>2 DEF Init, TypeOK
<1>3. DeliveryInv
  BY <1>1 DEF Init, DeliveryInv, NewIsUnknown, OldestIsLast, RemovedIsSettled, StoreIsServed,
              Batches
<1>4. Delivery!Init
  BY DEF Init, Delivery!Init
<1> QED
  BY <1>2, <1>3, <1>4

\* The inductive invariant: a call not made yet has left no trace, the server
\* knows at most the oldest batch of the store, and what is about to be removed
\* is settled.
THEOREM QueueInvariant == Spec => [](TypeOK /\ DeliveryInv)
<1>1. Init => TypeOK /\ DeliveryInv
  BY QueueInit
<1>2. TypeOK /\ DeliveryInv /\ [Next]_vars => (TypeOK /\ DeliveryInv)'
  BY TypeStep, NewIsUnknownStep, OldestIsLastStep, RemovedIsSettledStep, StoreIsServedStep
     DEF DeliveryInv
<1> QED
  BY <1>1, <1>2, PTL DEF Spec

\* While the queue runs, what is in the store is being sent or waits for its
\* retry, unless the loop gave up (sendQueue, start).
THEOREM StoreServed == Spec => []StoreIsServed
<1>1. TypeOK /\ DeliveryInv => StoreIsServed
  BY DEF DeliveryInv
<1> QED
  BY <1>1, QueueInvariant, PTL

\* Over retries, stops, restarts and lost answers, each batch reaches the server
\* once and in order, and leaves the store only when it was delivered or refused.
THEOREM QueueImplementsDelivery == Spec => ImplementsDelivery
<1>1. Init => Delivery!Init
  BY QueueInit
<1>2. TypeOK /\ DeliveryInv /\ [Next]_vars => [Delivery!Next]_(Delivery!vars)
  BY DeliveryStep DEF DeliveryInv
<1> QED
  BY <1>1, <1>2, QueueInvariant, PTL DEF Spec, ImplementsDelivery, Delivery!Spec
=============================================================================

----------------------- MODULE RoomEncryption_proofs ------------------------
(***************************************************************************)
(* First the loop of outgoing requests alone: LoopInv is inductive, so the *)
(* promise of doProcessOutgoingRequests resolves only when what was queued *)
(* before the call was tried, and nobody waits for an iteration that will  *)
(* not come.  Then the composition of encryptions, claims and the loop: it *)
(* implements the loop, so that what is proved of the loop holds in it;    *)
(* and RoomInv is an inductive invariant from which it follows that        *)
(* devices are asked for before sessions are ensured, that keys precede    *)
(* events, and that who had left cannot read them, for any rooms, users    *)
(* and encryptions.  ClaimsInv says of the chain of claims that one is     *)
(* made at a time and none is lost; the types rest on it.                  *)
(***************************************************************************)
EXTENDS RoomEncryption, QueueLemmas, TLAPS

-----------------------------------------------------------------------------
(* The loop of outgoing requests.                                          *)

\* The head of the loop keeps the types of what it sets.
LEMMA LoopHeadTypes ==
    ASSUME NEW n \in BOOLEAN, NEW calls \in SUBSET Calls,
           NEW out \in [Calls -> {"none", "waiting", "resolved", "rejected"}],
           LoopHead(n, calls, out)
    PROVE  /\ phase' \in {"rest", "asking"}
           /\ current' \subseteq Calls /\ nextCalls' \subseteq Calls /\ next' \in BOOLEAN
           /\ toDo' = {} /\ sending' = {} /\ successes' = FALSE
           /\ outcome' \in [Calls -> {"none", "waiting", "resolved", "rejected"}]
BY DEF LoopHead

\* Every step keeps the types.
LEMMA TypeStep == LoopTypeOK /\ [LoopNext]_loopVars => LoopTypeOK'
<1> SUFFICES ASSUME LoopTypeOK, [LoopNext]_loopVars PROVE LoopTypeOK'
  OBVIOUS
<1>1. ASSUME NEW c \in Calls, Call(c) PROVE LoopTypeOK'
  <2>1. [outcome EXCEPT ![c] = "waiting"] \in [Calls -> {"none", "waiting", "resolved", "rejected"}]
    BY DEF LoopTypeOK
  <2>2. nextCalls \cup {c} \subseteq Calls /\ owed' \in [Calls -> SUBSET Requests]
    BY <1>1 DEF Call, LoopTypeOK
  <2>3. CASE phase = "rest"
    BY <1>1, <2>1, <2>2, <2>3, LoopHeadTypes DEF Call, LoopTypeOK
  <2>4. CASE phase # "rest"
    BY <1>1, <2>1, <2>2, <2>4 DEF Call, LoopTypeOK
  <2> QED
    BY <2>3, <2>4
<1>2. CASE Check
  BY <1>2 DEF Check, LoopTypeOK
<1>3. CASE Return
  BY <1>3 DEF Return, LoopTypeOK
<1>4. CASE MachineFails
  <2>1. Settle(current, "rejected") \in [Calls -> {"none", "waiting", "resolved", "rejected"}]
    BY DEF Settle, LoopTypeOK
  <2> QED
    BY <1>4, <2>1, LoopHeadTypes DEF MachineFails, LoopTypeOK
<1>5. ASSUME NEW r \in Requests, Make(r) PROVE LoopTypeOK'
  BY <1>5 DEF Make, LoopTypeOK
<1>6. ASSUME NEW r \in Requests, Succeeds(r) PROVE LoopTypeOK'
  BY <1>6, FollowUpsAssumption DEF Succeeds, LoopTypeOK
<1>7. ASSUME NEW r \in Requests, Fails(r) PROVE LoopTypeOK'
  BY <1>7 DEF Fails, LoopTypeOK
<1>8. CASE IterationEnds
  <2>1. Settle(current, "resolved") \in [Calls -> {"none", "waiting", "resolved", "rejected"}]
    BY DEF Settle, LoopTypeOK
  <2>2. (next \/ (successes /\ toDo = {})) \in BOOLEAN
    BY DEF LoopTypeOK
  <2> QED
    BY <1>8, <2>1, <2>2, LoopHeadTypes DEF IterationEnds, LoopTypeOK
<1>9. CASE Stop
  BY <1>9 DEF Stop, iterationVars, LoopTypeOK
<1>10. ASSUME NEW rs \in SUBSET Requests, Queue(rs) PROVE LoopTypeOK'
  BY <1>10 DEF Queue, iterationVars, LoopTypeOK
<1>11. CASE CallInBackground
  BY <1>11, LoopHeadTypes DEF CallInBackground, LoopTypeOK
<1>12. CASE UNCHANGED loopVars
  BY <1>12 DEF loopVars, LoopTypeOK
<1> QED
  BY <1>1, <1>2, <1>3, <1>4, <1>5, <1>6, <1>7, <1>8, <1>9, <1>10, <1>11, <1>12 DEF LoopNext,
                                                                                   LoopStep

\* An iteration ends, its calls settled as how, and the head of the loop is
\* reached: those that wait for the next iteration get it or are rejected.
LEMMA SettleStep ==
    ASSUME LoopTypeOK, LoopInv, NEW n \in BOOLEAN, next => n,
           NEW how \in {"resolved", "rejected"},
           how = "resolved" /\ ~stopped => \A c \in current : owed[c] = {},
           LoopHead(n, nextCalls, Settle(current, how)),
           UNCHANGED <<queue, stopped, owed>>
    PROVE  LoopInv'
<1> DEFINE out == Settle(current, how)
<1>1. \A c \in Calls : /\ out[c] = "none" => outcome[c] = "none" /\ c \notin nextCalls
                       /\ out[c] = "waiting" => outcome[c] = "waiting" /\ c \in nextCalls /\ n
                       /\ out[c] = "resolved" => owed[c] = {} \/ stopped
  BY DEF Settle, LoopInv, TriedWhenResolved, NobodyIsForgotten
<1>2. CASE ~stopped /\ n
  <2>1. /\ phase' = "asking" /\ current' = nextCalls /\ next' = FALSE /\ nextCalls' = {}
        /\ outcome' = out
    BY <1>2 DEF LoopHead
  <2> HIDE DEF out
  <2> QED
    BY <1>1, <2>1 DEF LoopInv, TriedWhenResolved, NobodyIsForgotten
<1>3. CASE ~(~stopped /\ n)
  <2>1. /\ phase' = "rest" /\ current' = {} /\ next' = n /\ nextCalls' = nextCalls
        /\ \A c \in Calls : outcome'[c] = IF n /\ c \in nextCalls THEN "rejected" ELSE out[c]
    BY <1>3 DEF LoopHead
  <2> HIDE DEF out
  <2>2. nextCalls # {} => n
    BY DEF LoopInv
  <2> QED
    BY <1>1, <1>3, <2>1, <2>2 DEF LoopInv, TriedWhenResolved, NobodyIsForgotten
<1> QED
  BY <1>2, <1>3

\* Every step preserves LoopInv.
LEMMA LoopStepInv ==
    ASSUME LoopTypeOK, LoopInv, [LoopNext]_loopVars
    PROVE  LoopInv'
<1>1. ASSUME NEW c \in Calls, Call(c) PROVE LoopInv'
  <2> DEFINE out == [outcome EXCEPT ![c] = "waiting"]
  <2>1. /\ out[c] = "waiting" /\ owed'[c] = queue /\ outcome[c] = "none"
        /\ \A d \in Calls \ {c} : out[d] = outcome[d] /\ owed'[d] = owed[d]
        /\ c \notin current \cup nextCalls
        /\ UNCHANGED <<queue, stopped>>
    BY <1>1 DEF Call, LoopTypeOK, LoopInv
  <2>2. CASE phase = "rest" /\ ~stopped
    <3>1. /\ phase' = "asking" /\ current' = {c} /\ next' = FALSE /\ nextCalls' = {}
          /\ outcome' = out
      BY <1>1, <2>2 DEF Call, LoopHead, LoopInv
    <3> HIDE DEF out
    <3> QED
      BY <2>1, <2>2, <3>1 DEF LoopInv, TriedWhenResolved, NobodyIsForgotten
  <2>3. CASE phase = "rest" /\ stopped
    <3>1. /\ phase' = "rest" /\ current' = {} /\ next' = TRUE /\ nextCalls' = nextCalls \cup {c}
          /\ \A d \in Calls : outcome'[d] = IF d \in nextCalls \cup {c} THEN "rejected" ELSE out[d]
      BY <1>1, <2>3 DEF Call, LoopHead
    <3> HIDE DEF out
    <3> QED
      BY <2>1, <2>3, <3>1 DEF LoopInv, TriedWhenResolved, NobodyIsForgotten
  <2>4. CASE phase # "rest"
    <3>1. /\ next' = TRUE /\ nextCalls' = nextCalls \cup {c} /\ outcome' = out
          /\ UNCHANGED <<phase, current, toDo>>
      BY <1>1, <2>4 DEF Call
    <3> HIDE DEF out
    <3> QED
      BY <2>1, <2>4, <3>1 DEF LoopTypeOK, LoopInv, TriedWhenResolved, NobodyIsForgotten
  <2> QED
    BY <2>2, <2>3, <2>4
<1>2. CASE Check
  BY <1>2 DEF Check, LoopTypeOK, LoopInv, TriedWhenResolved, NobodyIsForgotten
<1>3. CASE Return
  BY <1>3 DEF Return, LoopInv, TriedWhenResolved, NobodyIsForgotten
<1>4. CASE MachineFails
  BY <1>4, SettleStep DEF MachineFails, LoopTypeOK
<1>5. ASSUME NEW r \in Requests, Make(r) PROVE LoopInv'
  <2>1. \A c \in Calls : owed'[c] = owed[c] \ {r}
    BY <1>5 DEF Make
  <2> QED
    BY <1>5, <2>1 DEF Make, LoopTypeOK, LoopInv, TriedWhenResolved, NobodyIsForgotten
<1>6. ASSUME NEW r \in Requests, Succeeds(r) PROVE LoopInv'
  <2>1. /\ \A c \in Calls : owed'[c] = owed[c] \ {r}
        /\ queue \ {r} \subseteq queue'
        /\ UNCHANGED <<phase, current, next, nextCalls, toDo, stopped, outcome>>
    BY <1>6 DEF Succeeds
  <2> QED
    BY <2>1 DEF LoopTypeOK, LoopInv, TriedWhenResolved, NobodyIsForgotten
<1>7. ASSUME NEW r \in Requests, Fails(r) PROVE LoopInv'
  BY <1>7 DEF Fails, LoopInv, TriedWhenResolved, NobodyIsForgotten
<1>8. CASE IterationEnds
  <2>1. ~stopped => \A c \in current : owed[c] = {}
    BY <1>8 DEF IterationEnds, LoopInv
  <2>2. (next \/ (successes /\ toDo = {})) \in BOOLEAN
    BY DEF LoopTypeOK
  <2> QED
    BY <1>8, <2>1, <2>2, SettleStep DEF IterationEnds
<1>9. CASE Stop
  BY <1>9 DEF Stop, iterationVars, LoopInv, TriedWhenResolved, NobodyIsForgotten
<1>10. ASSUME NEW rs \in SUBSET Requests, Queue(rs) PROVE LoopInv'
  BY <1>10 DEF Queue, iterationVars, LoopInv, TriedWhenResolved, NobodyIsForgotten
<1>11. CASE CallInBackground
  <2>1. CASE phase = "rest" /\ ~stopped
    <3>1. /\ phase' = "asking" /\ current' = nextCalls /\ next' = FALSE /\ nextCalls' = {}
          /\ outcome' = outcome /\ UNCHANGED <<queue, stopped, owed>>
      BY <1>11, <2>1 DEF CallInBackground, LoopHead
    <3> QED
      BY <2>1, <3>1 DEF LoopInv, TriedWhenResolved, NobodyIsForgotten
  <2>2. CASE phase = "rest" /\ stopped
    <3>1. /\ phase' = "rest" /\ current' = {} /\ next' = TRUE /\ nextCalls' = nextCalls
          /\ \A d \in Calls : outcome'[d] = IF d \in nextCalls THEN "rejected" ELSE outcome[d]
          /\ UNCHANGED <<queue, stopped, owed>>
      BY <1>11, <2>2 DEF CallInBackground, LoopHead
    <3> QED
      BY <2>2, <3>1 DEF LoopInv, TriedWhenResolved, NobodyIsForgotten
  <2>3. CASE phase # "rest"
    <3>1. /\ next' = TRUE
          /\ UNCHANGED <<phase, current, nextCalls, toDo, outcome, queue, stopped, owed>>
      BY <1>11, <2>3 DEF CallInBackground
    <3> QED
      BY <2>3, <3>1 DEF LoopInv, TriedWhenResolved, NobodyIsForgotten
  <2> QED
    BY <2>1, <2>2, <2>3
<1>12. CASE UNCHANGED loopVars
  BY <1>12 DEF loopVars, LoopInv, TriedWhenResolved, NobodyIsForgotten
<1> QED
  BY <1>1, <1>2, <1>3, <1>4, <1>5, <1>6, <1>7, <1>8, <1>9, <1>10, <1>11, <1>12 DEF LoopNext,
                                                                                   LoopStep

-----------------------------------------------------------------------------
\* Every variable keeps its type; the loop makes one request at a time, each
\* once in an iteration.
THEOREM TypeCorrect == LoopSpec => []LoopTypeOK
<1>1. LoopInit => LoopTypeOK
  BY DEF LoopInit, LoopTypeOK
<1> QED
  BY <1>1, TypeStep, PTL DEF LoopSpec

\* What is owed to a call is still ahead of the loop.
THEOREM LoopInvariant == LoopSpec => []LoopInv
<1>1. LoopInit => LoopInv
  BY DEF LoopInit, LoopInv, TriedWhenResolved, NobodyIsForgotten
<1>2. LoopTypeOK /\ LoopInv /\ [LoopNext]_loopVars => LoopInv'
  BY LoopStepInv
<1> QED
  BY <1>1, <1>2, TypeCorrect, PTL DEF LoopSpec

\* The race between the read of the queue and its return is closed: a call
\* that resolves has had everything that was queued before it tried.
THEOREM ResolvedMeansTried == LoopSpec => []TriedWhenResolved
<1>1. LoopInv => TriedWhenResolved
  BY DEF LoopInv
<1> QED
  BY <1>1, LoopInvariant, PTL

\* No promise is left behind when the loop ends or the manager is stopped.
THEOREM NoForgottenCall == LoopSpec => []NobodyIsForgotten
<1>1. LoopInv => NobodyIsForgotten
  BY DEF LoopInv
<1> QED
  BY <1>1, LoopInvariant, PTL

-----------------------------------------------------------------------------
(* Encryptions in rooms over the loop.                                     *)

Steps == Waiting \cup {"none", "prepared", "encrypted", "failed"}

Busy == Waiting \ {"queued"}

RoomTypeOK ==
    /\ members \in [Rooms -> SUBSET Users] /\ left \in [Rooms -> SUBSET Users]
    /\ lazyLoaded \in [Rooms -> BOOLEAN]
    /\ chain \in [Rooms -> Seq(Encryptions)]
    /\ step \in [Encryptions -> Steps]
    /\ userList \in [Encryptions -> SUBSET Users] /\ toSend \in [Encryptions -> SUBSET Users]
    /\ shared \in [Rooms -> SUBSET Users] /\ invalid \in [Rooms -> BOOLEAN]
    /\ holders \in [Rooms -> SUBSET Users]
    /\ gone \in [Encryptions -> SUBSET Users] /\ wanted \in [Encryptions -> SUBSET Users]
    /\ firstLoaded \in [Rooms -> SUBSET Users]

\* An encryption that is not settled is in its room's chain, and one that has
\* begun is the first there.
InChain ==
    /\ \A e \in Encryptions : step[e] \in Waiting =>
          \E i \in 1 .. Len(chain[RoomOf[e]]) : chain[RoomOf[e]][i] = e
    /\ \A e \in Encryptions : step[e] \in Busy => chain[RoomOf[e]][1] = e
    /\ \A e \in Encryptions : toSend[e] # {} => step[e] = "sending"

\* What was ever queued is queued or was tried; only a failure or stop rejects.
LoopHistory ==
    /\ known \subseteq queue \cup tried /\ sending \subseteq tried
    /\ \A c \in Calls : outcome[c] = "rejected" => stopped \/ broken

\* The devices of the members a room was first loaded with are asked for, and
\* the encryption that loaded them waits until they were.
FirstQueried ==
    /\ \A e \in Encryptions : step[e] = "tracking" => userList[e] \subseteq known
    /\ \A e \in Encryptions : step[e] = "querying" =>
          outcome[e] # "none" /\ firstLoaded[RoomOf[e]] \subseteq owed[e] \cup tried
    /\ \A r \in Rooms : (\A e \in Encryptions : RoomOf[e] = r => step[e] # "querying") =>
          firstLoaded[r] \subseteq tried \/ stopped \/ broken

\* A session that is valid is readable only by who it was shared with, except for
\* users who have not left; whoever is to get the key had not left.
KeysFit ==
    /\ \A r \in Rooms : members[r] \cap left[r] = {}
    /\ \A e \in Encryptions :
          gone[e] \subseteq left[RoomOf[e]] /\ gone[e] \cap userList[e] = {}
    /\ \A r \in Rooms : ~invalid[r] => holders[r] \cap left[r] \subseteq shared[r]
    /\ \A e \in Encryptions : step[e] = "sending" =>
          /\ wanted[e] \subseteq holders[RoomOf[e]] \cup toSend[e]
          /\ toSend[e] \subseteq shared[RoomOf[e]]
          /\ (holders[RoomOf[e]] \cup toSend[e]) \cap gone[e] = {}

RoomInv == RoomTypeOK /\ InChain /\ LoopHistory /\ FirstQueried /\ KeysFit

-----------------------------------------------------------------------------
(* The types.                                                              *)

\* What the end of an encryption does to the types.
LEMMA SettledTypes ==
    ASSUME RoomTypeOK, NEW e \in Encryptions, step[e] \in Waiting, NEW how \in Steps, InChain,
           Settled(e, how)
    PROVE  /\ step' \in [Encryptions -> Steps] /\ chain' \in [Rooms -> Seq(Encryptions)]
           /\ userList' \in [Encryptions -> SUBSET Users] /\ toSend' \in [Encryptions -> SUBSET Users]
           /\ gone' \in [Encryptions -> SUBSET Users] /\ wanted' \in [Encryptions -> SUBSET Users]
<1>1. RoomOf[e] \in Rooms /\ chain[RoomOf[e]] \in Seq(Encryptions) /\ chain[RoomOf[e]] # <<>>
  BY RoomEncryptionAssumption DEF RoomTypeOK, InChain
<1>2. Tail(chain[RoomOf[e]]) \in Seq(Encryptions)
  BY <1>1
<1>3. chain' \in [Rooms -> Seq(Encryptions)]
  BY <1>1, <1>2 DEF Settled, RoomTypeOK
<1> QED
  BY <1>3 DEF Settled, RoomTypeOK

\* What sharing the room's key sets.
LEMMA KeyIsShared ==
    ASSUME RoomTypeOK, NEW e \in Encryptions, Claimed(e)
    PROVE  \E reached \in SUBSET Users, held \in SUBSET Users :
              /\ reached \subseteq userList[e]
              /\ \/ /\ held = {} /\ shared' = [shared EXCEPT ![RoomOf[e]] = reached]
                 \/ /\ ~invalid[RoomOf[e]] /\ shared[RoomOf[e]] \subseteq userList[e]
                    /\ held = holders[RoomOf[e]]
                    /\ shared' = [shared EXCEPT ![RoomOf[e]] = @ \cup reached]
              /\ holders' = [holders EXCEPT ![RoomOf[e]] = held]
              /\ invalid' = [invalid EXCEPT ![RoomOf[e]] = FALSE]
              /\ toSend' = [toSend EXCEPT ![e] = shared'[RoomOf[e]] \ held]
              /\ wanted' = [wanted EXCEPT ![e] = reached]
<1> DEFINE r == RoomOf[e]
           new == invalid[r] \/ ~(shared[r] \subseteq userList[e])
           reached == userList[e] \cap Known \cap sessions'
           held == IF new THEN {} ELSE holders[r]
<1>1. r \in Rooms
  BY RoomEncryptionAssumption
<1>2. reached \in SUBSET Users /\ reached \subseteq userList[e] /\ held \in SUBSET Users
  BY <1>1 DEF Known, RoomTypeOK
<1>3. /\ shared' = [shared EXCEPT ![r] = IF new THEN reached ELSE @ \cup reached]
      /\ holders' = [holders EXCEPT ![r] = held]
      /\ invalid' = [invalid EXCEPT ![r] = FALSE]
      /\ toSend' = [toSend EXCEPT ![e] = shared'[r] \ held]
      /\ wanted' = [wanted EXCEPT ![e] = reached]
  BY DEF Claimed, ShareRoomKey
<1>4. \/ held = {} /\ shared' = [shared EXCEPT ![r] = reached]
      \/ /\ ~invalid[r] /\ shared[r] \subseteq userList[e]
         /\ held = holders[r]
         /\ shared' = [shared EXCEPT ![r] = @ \cup reached]
  BY <1>3
<1> HIDE DEF reached, held, new
<1> QED
  BY <1>2, <1>3, <1>4

\* Every step keeps the types.
LEMMA RoomTypeStep == RoomTypeOK /\ InChain /\ [Next]_vars => RoomTypeOK'
<1> SUFFICES ASSUME RoomTypeOK, InChain, [Next]_vars PROVE RoomTypeOK'
  OBVIOUS
<1> USE RoomEncryptionAssumption
<1>1. ASSUME NEW e \in Encryptions, EncryptEvent(e) PROVE RoomTypeOK'
  <2>1. Append(chain[RoomOf[e]], e) \in Seq(Encryptions)
    BY DEF RoomTypeOK
  <2> QED
    BY <1>1, <2>1 DEF EncryptEvent, RoomTypeOK, Steps, Waiting
<1>2. ASSUME NEW e \in Encryptions, LoadMembers(e) PROVE RoomTypeOK'
  <2>1. /\ userList' = [userList EXCEPT ![e] = members[RoomOf[e]]]
        /\ gone' = [gone EXCEPT ![e] = left[RoomOf[e]]]
        /\ \/ step' = [step EXCEPT ![e] = "claiming"]
           \/ step' = [step EXCEPT ![e] = "tracking"]
        /\ UNCHANGED <<members, left, lazyLoaded, chain, toSend, shared, invalid, holders,
                       wanted, firstLoaded>>
    BY <1>2 DEF LoadMembers
  <2>2. members[RoomOf[e]] \in SUBSET Users /\ left[RoomOf[e]] \in SUBSET Users
    BY DEF RoomTypeOK
  <2>3. step' \in [Encryptions -> Steps]
    BY <2>1 DEF RoomTypeOK, Steps, Waiting
  <2> QED
    BY <2>1, <2>2, <2>3 DEF RoomTypeOK
<1>3. ASSUME NEW e \in Encryptions, Tracked(e) PROVE RoomTypeOK'
  BY <1>3 DEF Tracked, RoomTypeOK, Steps, Waiting
<1>4. ASSUME NEW e \in Encryptions, QueriesEnd(e) PROVE RoomTypeOK'
  BY <1>4, SettledTypes DEF QueriesEnd, RoomTypeOK, Steps, Waiting
<1>5. ASSUME NEW e \in Encryptions, Claim(e) PROVE RoomTypeOK'
  BY <1>5, SettledTypes DEF Claim, RoomTypeOK, Steps, Waiting
<1>6. ASSUME NEW e \in Encryptions, Claimed(e) PROVE RoomTypeOK'
  <2>1. /\ step' = [step EXCEPT ![e] = "sending"]
        /\ UNCHANGED <<members, left, lazyLoaded, chain, userList, gone, firstLoaded>>
    BY <1>6 DEF Claimed
  <2>2. PICK reached \in SUBSET Users, held \in SUBSET Users :
           /\ \/ shared' = [shared EXCEPT ![RoomOf[e]] = reached]
              \/ shared' = [shared EXCEPT ![RoomOf[e]] = @ \cup reached]
           /\ holders' = [holders EXCEPT ![RoomOf[e]] = held]
           /\ invalid' = [invalid EXCEPT ![RoomOf[e]] = FALSE]
           /\ toSend' = [toSend EXCEPT ![e] = shared'[RoomOf[e]] \ held]
           /\ wanted' = [wanted EXCEPT ![e] = reached]
    BY <1>6, KeyIsShared
  <2>3. shared' \in [Rooms -> SUBSET Users] /\ holders' \in [Rooms -> SUBSET Users]
    <3>1. /\ \/ shared' = [shared EXCEPT ![RoomOf[e]] = reached]
             \/ shared' = [shared EXCEPT ![RoomOf[e]] = shared[RoomOf[e]] \cup reached]
          /\ holders' = [holders EXCEPT ![RoomOf[e]] = held]
      BY <2>2
    <3>2. /\ shared \in [Rooms -> SUBSET Users] /\ holders \in [Rooms -> SUBSET Users]
          /\ shared[RoomOf[e]] \cup reached \in SUBSET Users
      BY DEF RoomTypeOK
    <3> QED
      BY <3>1, <3>2
  <2>4. invalid' \in [Rooms -> BOOLEAN]
    BY <2>2 DEF RoomTypeOK
  <2> QED
    BY <2>1, <2>2, <2>3, <2>4 DEF RoomTypeOK, Steps, Waiting
<1>7. ASSUME NEW e \in Encryptions, SendKey(e) PROVE RoomTypeOK'
  <2>1. step[e] = "sending"
    BY <1>7 DEF SendKey, InChain
  <2>2. PICK u \in toSend[e] :
           /\ holders' = [holders EXCEPT ![RoomOf[e]] = @ \cup {u}]
           /\ \/ /\ toSend' = [toSend EXCEPT ![e] = @ \ {u}]
                 /\ UNCHANGED <<step, chain, userList, gone, wanted>>
              \/ Settled(e, "failed")
           /\ UNCHANGED <<members, left, lazyLoaded, shared, invalid, firstLoaded>>
    BY <1>7 DEF SendKey
  <2>3. u \in Users
    BY DEF RoomTypeOK
  <2>4. holders' \in [Rooms -> SUBSET Users]
    BY <2>2, <2>3 DEF RoomTypeOK
  <2>5. step' \in [Encryptions -> Steps] /\ chain' \in [Rooms -> Seq(Encryptions)]
        /\ userList' \in [Encryptions -> SUBSET Users] /\ toSend' \in [Encryptions -> SUBSET Users]
        /\ gone' \in [Encryptions -> SUBSET Users] /\ wanted' \in [Encryptions -> SUBSET Users]
    <3>1. CASE Settled(e, "failed")
      BY <2>1, <3>1, SettledTypes DEF Steps, Waiting
    <3>2. CASE ~Settled(e, "failed")
      <4>1. /\ UNCHANGED <<step, chain, userList, gone, wanted>>
            /\ toSend' = [toSend EXCEPT ![e] = toSend[e] \ {u}]
        BY <2>2, <3>2
      <4>2. toSend' \in [Encryptions -> SUBSET Users]
        BY <4>1 DEF RoomTypeOK
      <4> QED
        BY <4>1, <4>2 DEF RoomTypeOK
    <3> QED
      BY <3>1, <3>2
  <2> QED
    BY <2>2, <2>4, <2>5 DEF RoomTypeOK
<1>8. ASSUME NEW e \in Encryptions, Encrypt(e) PROVE RoomTypeOK'
  BY <1>8, SettledTypes DEF Encrypt, RoomTypeOK, Steps, Waiting
<1>9. ASSUME NEW e \in Encryptions, AwaitFails(e) PROVE RoomTypeOK'
  BY <1>9, SettledTypes DEF AwaitFails, Active, RoomTypeOK, Steps, Waiting
<1>10. ASSUME NEW r \in Rooms, NEW u \in Users, Join(r, u) PROVE RoomTypeOK'
  BY <1>10 DEF Join, Returns, RoomTypeOK
<1>11. ASSUME NEW r \in Rooms, NEW u \in Users, HiddenJoin(r, u) PROVE RoomTypeOK'
  BY <1>11 DEF HiddenJoin, Returns, RoomTypeOK
<1>12. ASSUME NEW r \in Rooms, NEW u \in Users, Leave(r, u) PROVE RoomTypeOK'
  BY <1>12 DEF Leave, RoomTypeOK
<1>13. CASE Loop
  BY <1>13 DEF Loop, roomVars, RoomTypeOK
<1>14. CASE SyncCompleted
  BY <1>14 DEF SyncCompleted, RoomTypeOK
<1>15. CASE UNCHANGED vars
  BY <1>15 DEF vars, roomVars, RoomTypeOK
<1> QED
  BY <1>1, <1>2, <1>3, <1>4, <1>5, <1>6, <1>7, <1>8, <1>9, <1>10, <1>11, <1>12, <1>13, <1>14, <1>15
     DEF Next, Progress
-----------------------------------------------------------------------------
(* The chains.                                                             *)

\* When the first of a chain is settled, the others are still in the chain.
LEMMA SettledInChain ==
    ASSUME RoomTypeOK, InChain, NEW e \in Encryptions, step[e] \in Waiting,
           chain[RoomOf[e]][1] = e, NEW how \in Steps \ Waiting, Settled(e, how)
    PROVE  InChain'
<1> DEFINE r == RoomOf[e]
<1>1. r \in Rooms /\ chain[r] \in Seq(Encryptions) /\ chain[r] # <<>>
  BY RoomEncryptionAssumption DEF RoomTypeOK, InChain
<1>2. /\ chain'[r] = Tail(chain[r])
      /\ \A s \in Rooms \ {r} : chain'[s] = chain[s]
      /\ step'[e] = how /\ toSend'[e] = {}
      /\ \A f \in Encryptions \ {e} : step'[f] = step[f] /\ toSend'[f] = toSend[f]
  BY <1>1 DEF Settled, RoomTypeOK
<1>3. ASSUME NEW f \in Encryptions, step'[f] \in Waiting
      PROVE  \E i \in 1 .. Len(chain'[RoomOf[f]]) : chain'[RoomOf[f]][i] = f
  <2>1. f # e /\ step[f] \in Waiting /\ RoomOf[f] \in Rooms
    BY <1>2, <1>3, RoomEncryptionAssumption
  <2>2. PICK i \in 1 .. Len(chain[RoomOf[f]]) : chain[RoomOf[f]][i] = f
    BY <2>1 DEF InChain
  <2>3. CASE RoomOf[f] # r
    BY <1>2, <2>1, <2>2, <2>3
  <2>4. CASE RoomOf[f] = r
    <3>1. i # 1 /\ i - 1 \in 1 .. Len(Tail(chain[r]))
      BY <1>1, <2>1, <2>2, <2>4
    <3>2. Tail(chain[r])[i - 1] = f
      BY <1>1, <2>2, <2>4, <3>1
    <3> QED
      BY <1>2, <2>4, <3>1, <3>2
  <2> QED
    BY <2>3, <2>4
<1>4. ASSUME NEW f \in Encryptions, step'[f] \in Busy
      PROVE  chain'[RoomOf[f]][1] = f
  <2>1. f # e /\ step[f] \in Busy /\ chain[RoomOf[f]][1] = f /\ RoomOf[f] \in Rooms
    BY <1>2, <1>4, RoomEncryptionAssumption DEF Busy, InChain
  <2> QED
    BY <1>2, <2>1
<1>5. ASSUME NEW f \in Encryptions, toSend'[f] # {} PROVE step'[f] = "sending"
  BY <1>2, <1>5 DEF InChain
<1> QED
  BY <1>3, <1>4, <1>5 DEF InChain

\* When the first of a chain that has not ended goes on, the chain is as it was.
LEMMA BusyInChain ==
    ASSUME RoomTypeOK, InChain, NEW e \in Encryptions, step[e] \in Waiting,
           chain[RoomOf[e]][1] = e, NEW how \in Busy,
           step' = [step EXCEPT ![e] = how], chain' = chain,
           \A f \in Encryptions \ {e} : toSend'[f] = toSend[f],
           toSend'[e] # {} => how = "sending"
    PROVE  InChain'
<1>1. step'[e] = how /\ \A f \in Encryptions \ {e} : step'[f] = step[f]
  BY DEF RoomTypeOK
<1> QED
  BY <1>1 DEF InChain, Busy

\* A step that settles nothing and begins nothing.
LEMMA SameInChain == InChain /\ UNCHANGED <<step, chain, toSend>> => InChain'
BY DEF InChain

\* Every step keeps the order of the chains.
LEMMA InChainStep == RoomTypeOK /\ InChain /\ [Next]_vars => InChain'
<1> SUFFICES ASSUME RoomTypeOK, InChain, [Next]_vars PROVE InChain'
  OBVIOUS
<1> USE RoomEncryptionAssumption
<1>1. ASSUME NEW e \in Encryptions, EncryptEvent(e) PROVE InChain'
  <2> DEFINE r == RoomOf[e]
  <2>1. /\ r \in Rooms /\ chain[r] \in Seq(Encryptions) /\ step[e] = "none"
        /\ step'[e] = "queued" /\ chain'[r] = Append(chain[r], e) /\ toSend' = toSend
        /\ \A f \in Encryptions \ {e} : step'[f] = step[f]
        /\ \A s \in Rooms \ {r} : chain'[s] = chain[s]
    BY <1>1 DEF EncryptEvent, RoomTypeOK
  <2>2. ASSUME NEW f \in Encryptions, step'[f] \in Waiting
        PROVE  \E i \in 1 .. Len(chain'[RoomOf[f]]) : chain'[RoomOf[f]][i] = f
    <3>1. CASE f = e
      <4>1. Len(chain[r]) + 1 \in 1 .. Len(chain'[r]) /\ chain'[r][Len(chain[r]) + 1] = e
        BY <2>1
      <4> QED
        BY <3>1, <4>1
    <3>2. CASE f # e
      <4>1. PICK i \in 1 .. Len(chain[RoomOf[f]]) : chain[RoomOf[f]][i] = f
        BY <2>1, <2>2, <3>2 DEF InChain
      <4>2. CASE RoomOf[f] = r
        BY <2>1, <4>1, <4>2
      <4>3. CASE RoomOf[f] # r
        <5>1. RoomOf[f] \in Rooms
          OBVIOUS
        <5> QED
          BY <2>1, <4>1, <4>3, <5>1
      <4> QED
        BY <4>2, <4>3
    <3> QED
      BY <3>1, <3>2
  <2>3. ASSUME NEW f \in Encryptions, step'[f] \in Busy PROVE chain'[RoomOf[f]][1] = f
    <3>1. f # e /\ step[f] \in Busy /\ chain[RoomOf[f]][1] = f /\ RoomOf[f] \in Rooms
      BY <2>1, <2>3 DEF InChain, Busy
    <3>2. Len(chain[RoomOf[f]]) >= 1
      BY <3>1 DEF InChain, Busy, RoomTypeOK
    <3>3. CASE RoomOf[f] = r
      BY <2>1, <3>1, <3>2, <3>3
    <3>4. CASE RoomOf[f] # r
      BY <2>1, <3>1, <3>4
    <3> QED
      BY <3>3, <3>4
  <2>4. ASSUME NEW f \in Encryptions, toSend'[f] # {} PROVE step'[f] = "sending"
    BY <2>1, <2>4 DEF InChain
  <2> QED
    BY <2>2, <2>3, <2>4 DEF InChain
<1>2. ASSUME NEW e \in Encryptions, LoadMembers(e) PROVE InChain'
  <2>1. step[e] = "queued" /\ Head(chain[RoomOf[e]]) = e
    BY <1>2 DEF LoadMembers, Active
  <2>2. toSend[e] = {}
    BY <2>1 DEF InChain
  <2>3. chain[RoomOf[e]] \in Seq(Encryptions) /\ chain[RoomOf[e]] # <<>>
    BY <2>1 DEF InChain, RoomTypeOK, Waiting
  <2>4. chain[RoomOf[e]][1] = e
    BY <2>1, <2>3
  <2>5. /\ chain' = chain /\ toSend' = toSend
        /\ \E how \in Busy : step' = [step EXCEPT ![e] = how]
    BY <1>2 DEF LoadMembers, Busy, Waiting
  <2> QED
    BY <2>1, <2>2, <2>4, <2>5, BusyInChain DEF Waiting
<1>3. ASSUME NEW e \in Encryptions, Tracked(e) PROVE InChain'
  <2>1. step[e] \in Busy /\ chain[RoomOf[e]][1] = e /\ toSend[e] = {}
    BY <1>3 DEF Tracked, InChain, Busy, Waiting
  <2> QED
    BY <1>3, <2>1, BusyInChain DEF Tracked, Busy, Waiting
<1>4. ASSUME NEW e \in Encryptions, QueriesEnd(e) PROVE InChain'
  <2>1. step[e] \in Busy /\ chain[RoomOf[e]][1] = e /\ toSend[e] = {}
    BY <1>4 DEF QueriesEnd, InChain, Busy, Waiting
  <2>2. CASE Settled(e, "failed")
    BY <2>1, <2>2, SettledInChain DEF Busy, Waiting, Steps
  <2>3. CASE ~Settled(e, "failed")
    BY <1>4, <2>1, <2>3, BusyInChain DEF QueriesEnd, Busy, Waiting
  <2> QED
    BY <2>2, <2>3
<1>5. ASSUME NEW e \in Encryptions, Claim(e) PROVE InChain'
  <2>1. step[e] \in Busy /\ chain[RoomOf[e]][1] = e /\ toSend[e] = {}
    BY <1>5 DEF Claim, InChain, Busy, Waiting
  <2>2. CASE Settled(e, "failed")
    BY <2>1, <2>2, SettledInChain DEF Busy, Waiting, Steps
  <2>3. CASE ~Settled(e, "failed")
    BY <1>5, <2>1, <2>3, BusyInChain DEF Claim, Busy, Waiting
  <2> QED
    BY <2>2, <2>3
<1>6. ASSUME NEW e \in Encryptions, Claimed(e) PROVE InChain'
  <2>1. step[e] \in Busy /\ chain[RoomOf[e]][1] = e
    BY <1>6 DEF Claimed, InChain, Busy, Waiting
  <2>2. \A f \in Encryptions \ {e} : toSend'[f] = toSend[f]
    BY <1>6, KeyIsShared DEF RoomTypeOK
  <2> QED
    BY <1>6, <2>1, <2>2, BusyInChain DEF Claimed, Busy, Waiting
<1>7. ASSUME NEW e \in Encryptions, SendKey(e) PROVE InChain'
  <2>1. step[e] = "sending" /\ chain[RoomOf[e]][1] = e
    BY <1>7 DEF SendKey, InChain, Busy, Waiting
  <2>2. CASE Settled(e, "failed")
    BY <2>1, <2>2, SettledInChain DEF Busy, Waiting, Steps
  <2>3. CASE ~Settled(e, "failed")
    <3>1. /\ UNCHANGED <<step, chain>>
          /\ \A f \in Encryptions \ {e} : toSend'[f] = toSend[f]
      BY <1>7, <2>3 DEF SendKey, RoomTypeOK
    <3> QED
      BY <2>1, <3>1 DEF InChain
  <2> QED
    BY <2>2, <2>3
<1>8. ASSUME NEW e \in Encryptions, Encrypt(e) PROVE InChain'
  <2>1. step[e] = "sending" /\ chain[RoomOf[e]][1] = e
    BY <1>8 DEF Encrypt, InChain, Busy, Waiting
  <2> QED
    BY <1>8, <2>1, SettledInChain DEF Encrypt, Busy, Waiting, Steps
<1>9. ASSUME NEW e \in Encryptions, AwaitFails(e) PROVE InChain'
  <2>1. step[e] \in Waiting /\ chain[RoomOf[e]][1] = e
    BY <1>9 DEF AwaitFails, Active, RoomTypeOK, InChain
  <2> QED
    BY <1>9, <2>1, SettledInChain DEF AwaitFails, Waiting, Steps
<1>10. ASSUME NEW r \in Rooms, NEW u \in Users, Join(r, u) \/ HiddenJoin(r, u) \/ Leave(r, u)
       PROVE  InChain'
  BY <1>10, SameInChain DEF Join, HiddenJoin, Returns, Leave
<1>11. CASE Loop
  BY <1>11, SameInChain DEF Loop, roomVars
<1>12. CASE SyncCompleted
  BY <1>12, SameInChain DEF SyncCompleted
<1>13. CASE UNCHANGED vars
  BY <1>13, SameInChain DEF vars, roomVars
<1> QED
  BY <1>1, <1>2, <1>3, <1>4, <1>5, <1>6, <1>7, <1>8, <1>9, <1>10, <1>11, <1>12, <1>13
     DEF Next, Progress
-----------------------------------------------------------------------------
(* The loop.                                                               *)

\* Every step of the composition is a step of the loop or leaves it alone.
LEMMA LoopSimulation == RoomTypeOK /\ [Next]_vars => [LoopNext]_loopVars
<1> SUFFICES ASSUME RoomTypeOK, [Next]_vars PROVE [LoopNext]_loopVars
  OBVIOUS
<1>1. Users \subseteq Requests /\ Encryptions = Calls
  BY RoomEncryptionAssumption
<1>2. ASSUME NEW e \in Encryptions, LoadMembers(e) PROVE [LoopNext]_loopVars
  <2>1. members[RoomOf[e]] \ known \in SUBSET Requests
    BY <1>1, RoomEncryptionAssumption DEF RoomTypeOK
  <2> QED
    BY <1>2, <2>1 DEF LoadMembers, LoopNext, loopVars
<1>3. ASSUME NEW e \in Encryptions, Tracked(e) PROVE [LoopNext]_loopVars
  BY <1>1, <1>3 DEF Tracked, LoopNext
<1>4. ASSUME NEW e \in Encryptions,
             \/ EncryptEvent(e) \/ QueriesEnd(e) \/ Claim(e) \/ Claimed(e) \/ SendKey(e)
             \/ Encrypt(e) \/ AwaitFails(e)
      PROVE  [LoopNext]_loopVars
  <2>1. UNCHANGED loopVars
    BY <1>4 DEF EncryptEvent, QueriesEnd, Claim, Claimed, SendKey, Encrypt, AwaitFails
  <2> QED
    BY <2>1
<1>5. ASSUME NEW r \in Rooms, NEW u \in Users, Join(r, u) \/ HiddenJoin(r, u) \/ Leave(r, u)
      PROVE  [LoopNext]_loopVars
  <2>1. {u} \in SUBSET Requests
    BY <1>1
  <2> QED
    BY <1>5, <2>1 DEF Join, HiddenJoin, Leave, LoopNext
<1>6. CASE Loop
  BY <1>6 DEF Loop, LoopNext
<1>7. CASE SyncCompleted
  BY <1>7 DEF SyncCompleted, LoopNext
<1>8. CASE UNCHANGED vars
  BY <1>8 DEF vars
<1> QED
  BY <1>2, <1>3, <1>4, <1>5, <1>6, <1>7, <1>8 DEF Next, Progress

\* Only a failure of the machine or stop rejects the calls of an iteration.
LEMMA LoopHeadRejects ==
    ASSUME LoopTypeOK, LoopHistory, NEW n, NEW calls, NEW out \in [Calls -> {"none", "waiting", "resolved", "rejected"}],
           LoopHead(n, calls, out), stopped' = stopped, broken => broken',
           \A c \in Calls : out[c] = "rejected" => stopped' \/ broken'
    PROVE  \A c \in Calls : outcome'[c] = "rejected" => stopped' \/ broken'
BY DEF LoopHead

\* Every step of the loop keeps what was said of its past.
LEMMA LoopHistoryStep == LoopTypeOK /\ LoopHistory /\ [LoopNext]_loopVars => LoopHistory'
<1> SUFFICES ASSUME LoopTypeOK, LoopHistory, [LoopNext]_loopVars PROVE LoopHistory'
  OBVIOUS
<1>1. ASSUME NEW c \in Calls, Call(c) PROVE LoopHistory'
  <2> DEFINE out == [outcome EXCEPT ![c] = "waiting"]
  <2>1. /\ out \in [Calls -> {"none", "waiting", "resolved", "rejected"}]
        /\ \A d \in Calls : out[d] = "rejected" => stopped' \/ broken'
        /\ UNCHANGED <<queue, known, stopped, broken, tried>>
    BY <1>1 DEF Call, LoopTypeOK, LoopHistory
  <2>2. CASE phase = "rest"
    <3>1. LoopHead(TRUE, nextCalls \cup {c}, out)
      BY <1>1, <2>2 DEF Call
    <3>2. sending' = {}
      BY <3>1 DEF LoopHead
    <3> HIDE DEF out
    <3> QED
      BY <2>1, <3>1, <3>2, LoopHeadRejects DEF LoopHistory
  <2>3. CASE phase # "rest"
    <3>1. sending' = sending /\ outcome' = out
      BY <1>1, <2>3 DEF Call
    <3> QED
      BY <2>1, <3>1 DEF LoopHistory
  <2> QED
    BY <2>2, <2>3
<1>2. CASE Check \/ Return
  BY <1>2 DEF Check, Return, LoopHistory
<1>3. CASE MachineFails
  <2> DEFINE out == Settle(current, "rejected")
  <2>1. /\ out \in [Calls -> {"none", "waiting", "resolved", "rejected"}]
        /\ \A d \in Calls : out[d] = "rejected" => stopped' \/ broken'
        /\ UNCHANGED <<queue, known, stopped, tried>> /\ (broken => broken')
        /\ LoopHead(next, nextCalls, out)
    BY <1>3 DEF MachineFails, Settle, LoopTypeOK, LoopHistory
  <2>2. sending' = {}
    BY <2>1 DEF LoopHead
  <2> HIDE DEF out
  <2> QED
    BY <2>1, <2>2, LoopHeadRejects DEF LoopHistory
<1>4. ASSUME NEW q \in Requests, Make(q) PROVE LoopHistory'
  BY <1>4 DEF Make, LoopHistory
<1>5. ASSUME NEW q \in Requests, Succeeds(q) PROVE LoopHistory'
  BY <1>5 DEF Succeeds, LoopHistory
<1>6. ASSUME NEW q \in Requests, Fails(q) PROVE LoopHistory'
  BY <1>6 DEF Fails, LoopHistory
<1>7. CASE IterationEnds
  <2> DEFINE out == Settle(current, "resolved")
             n == next \/ (successes /\ toDo = {})
  <2>1. /\ out \in [Calls -> {"none", "waiting", "resolved", "rejected"}]
        /\ \A d \in Calls : out[d] = "rejected" => stopped' \/ broken'
        /\ UNCHANGED <<queue, known, stopped, broken, tried>>
        /\ LoopHead(n, nextCalls, out)
    BY <1>7 DEF IterationEnds, Settle, LoopTypeOK, LoopHistory
  <2>2. sending' = {}
    BY <2>1 DEF LoopHead
  <2> HIDE DEF out, n
  <2> QED
    BY <2>1, <2>2, LoopHeadRejects DEF LoopHistory
<1>8. CASE Stop
  BY <1>8 DEF Stop, iterationVars, LoopHistory
<1>9. ASSUME NEW rs \in SUBSET Requests, Queue(rs) PROVE LoopHistory'
  BY <1>9 DEF Queue, iterationVars, LoopHistory
<1>10. CASE CallInBackground
  <2>1. CASE phase = "rest"
    <3>1. LoopHead(TRUE, nextCalls, outcome) /\ sending' = {}
          /\ UNCHANGED <<queue, known, stopped, broken, tried>>
      BY <1>10, <2>1 DEF CallInBackground, LoopHead
    <3> QED
      BY <3>1, LoopHeadRejects DEF LoopHistory, LoopTypeOK
  <2>2. CASE phase # "rest"
    BY <1>10, <2>2 DEF CallInBackground, LoopHistory
  <2> QED
    BY <2>1, <2>2
<1>11. CASE UNCHANGED loopVars
  BY <1>11 DEF loopVars, LoopHistory
<1> QED
  BY <1>1, <1>2, <1>3, <1>4, <1>5, <1>6, <1>7, <1>8, <1>9, <1>10, <1>11 DEF LoopNext, LoopStep
\* What the loop has done it does not undo.
LEMMA LoopGrows ==
    ASSUME LoopTypeOK, LoopHistory, [LoopNext]_loopVars
    PROVE  /\ known \subseteq known' /\ tried \subseteq tried'
           /\ (stopped => stopped') /\ (broken => broken')
           /\ \A c \in Calls : outcome[c] # "none" =>
                  outcome'[c] # "none" /\ owed[c] \subseteq owed'[c] \cup tried'
<1> DEFINE Grows == /\ known \subseteq known' /\ tried \subseteq tried'
                    /\ (stopped => stopped') /\ (broken => broken')
                    /\ \A c \in Calls : outcome[c] # "none" =>
                           outcome'[c] # "none" /\ owed[c] \subseteq owed'[c] \cup tried'
<1>1. ASSUME NEW d \in Calls, Call(d) PROVE Grows
  BY <1>1 DEF Call, LoopHead, LoopTypeOK
<1>2. CASE Check \/ Return
  BY <1>2 DEF Check, Return
<1>3. CASE MachineFails
  BY <1>3 DEF MachineFails, LoopHead, Settle, LoopTypeOK
<1>4. ASSUME NEW q \in Requests, Make(q) PROVE Grows
  BY <1>4 DEF Make
<1>5. ASSUME NEW q \in Requests, Succeeds(q) PROVE Grows
  BY <1>5 DEF Succeeds, LoopHistory
<1>6. ASSUME NEW q \in Requests, Fails(q) PROVE Grows
  BY <1>6 DEF Fails
<1>7. CASE IterationEnds
  BY <1>7 DEF IterationEnds, LoopHead, Settle, LoopTypeOK
<1>8. CASE Stop
  BY <1>8 DEF Stop, iterationVars
<1>9. ASSUME NEW rs \in SUBSET Requests, Queue(rs) PROVE Grows
  BY <1>9 DEF Queue, iterationVars
<1>10. CASE CallInBackground
  BY <1>10 DEF CallInBackground, LoopHead, LoopTypeOK
<1>11. CASE UNCHANGED loopVars
  BY <1>11 DEF loopVars
<1> QED
  BY <1>1, <1>2, <1>3, <1>4, <1>5, <1>6, <1>7, <1>8, <1>9, <1>10, <1>11 DEF LoopNext, LoopStep

-----------------------------------------------------------------------------
(* The queries.                                                            *)

\* A step that begins or ends no loading of members.
LEMMA SameQueries ==
    ASSUME FirstQueried, LoopTypeOK, LoopHistory, [LoopNext]_loopVars, firstLoaded' = firstLoaded,
           \A e \in Encryptions : /\ step'[e] = "tracking" => step[e] = "tracking"
                                  /\ step'[e] = "tracking" => userList'[e] = userList[e]
                                  /\ step'[e] = "querying" <=> step[e] = "querying"
    PROVE  FirstQueried'
<1>1. Encryptions = Calls /\ \A e \in Encryptions : RoomOf[e] \in Rooms
  BY RoomEncryptionAssumption
<1>2. /\ known \subseteq known' /\ tried \subseteq tried'
      /\ (stopped => stopped') /\ (broken => broken')
      /\ \A c \in Calls : outcome[c] # "none" =>
             outcome'[c] # "none" /\ owed[c] \subseteq owed'[c] \cup tried'
  BY LoopGrows
<1>3. ASSUME NEW e \in Encryptions, step'[e] = "tracking" PROVE userList'[e] \subseteq known'
  BY <1>2, <1>3 DEF FirstQueried
<1>4. ASSUME NEW e \in Encryptions, step'[e] = "querying"
      PROVE  outcome'[e] # "none" /\ firstLoaded'[RoomOf[e]] \subseteq owed'[e] \cup tried'
  BY <1>1, <1>2, <1>4 DEF FirstQueried
<1>5. ASSUME NEW r \in Rooms, \A e \in Encryptions : RoomOf[e] = r => step'[e] # "querying"
      PROVE  firstLoaded'[r] \subseteq tried' \/ stopped' \/ broken'
  <2>1. \A e \in Encryptions : RoomOf[e] = r => step[e] # "querying"
    BY <1>5
  <2>2. firstLoaded[r] \subseteq tried \/ stopped \/ broken
    BY <2>1 DEF FirstQueried
  <2> QED
    BY <1>2, <2>2
<1> QED
  BY <1>3, <1>4, <1>5 DEF FirstQueried

\* Every step keeps the queries of the first members.
LEMMA FirstQueriedStep ==
    ASSUME LoopTypeOK, LoopInv, RoomInv, [Next]_vars
    PROVE  FirstQueried'
<1>1. RoomTypeOK /\ InChain /\ LoopHistory /\ FirstQueried /\ [LoopNext]_loopVars
  BY LoopSimulation DEF RoomInv
<1>2. Encryptions = Calls /\ \A e \in Encryptions : RoomOf[e] \in Rooms
  BY RoomEncryptionAssumption
<1>3. ASSUME NEW e \in Encryptions, LoadMembers(e) PROVE FirstQueried'
  <2>1. /\ firstLoaded' = firstLoaded /\ step[e] = "queued"
        /\ \A f \in Encryptions \ {e} : step'[f] = step[f] /\ userList'[f] = userList[f]
        /\ step'[e] \in {"claiming", "tracking"}
    BY <1>1, <1>3 DEF LoadMembers, RoomTypeOK
  <2>2. step'[e] = "tracking" => userList'[e] \subseteq known'
    BY <1>1, <1>3 DEF LoadMembers, RoomTypeOK, Queue, loopVars
  <2>3. /\ known \subseteq known' /\ tried \subseteq tried'
        /\ (stopped => stopped') /\ (broken => broken')
        /\ \A c \in Calls : outcome[c] # "none" =>
               outcome'[c] # "none" /\ owed[c] \subseteq owed'[c] \cup tried'
    BY <1>1, LoopGrows
  <2>4. ASSUME NEW f \in Encryptions, step'[f] = "tracking" PROVE userList'[f] \subseteq known'
    BY <1>1, <2>1, <2>2, <2>3, <2>4 DEF FirstQueried
  <2>5. ASSUME NEW f \in Encryptions, step'[f] = "querying"
        PROVE  outcome'[f] # "none" /\ firstLoaded'[RoomOf[f]] \subseteq owed'[f] \cup tried'
    BY <1>1, <1>2, <2>1, <2>3, <2>5 DEF FirstQueried
  <2>6. ASSUME NEW r \in Rooms, \A f \in Encryptions : RoomOf[f] = r => step'[f] # "querying"
        PROVE  firstLoaded'[r] \subseteq tried' \/ stopped' \/ broken'
    <3>1. \A f \in Encryptions : RoomOf[f] = r => step[f] # "querying"
      BY <2>1, <2>6
    <3>2. firstLoaded[r] \subseteq tried \/ stopped \/ broken
      BY <1>1, <3>1 DEF FirstQueried
    <3> QED
      BY <2>1, <2>3, <3>2
  <2> QED
    BY <2>4, <2>5, <2>6 DEF FirstQueried
<1>4. ASSUME NEW e \in Encryptions, Tracked(e) PROVE FirstQueried'
  <2> DEFINE r == RoomOf[e]
  <2>1. /\ step[e] = "tracking" /\ step'[e] = "querying" /\ userList' = userList
        /\ \A f \in Encryptions \ {e} : step'[f] = step[f]
        /\ firstLoaded'[r] = userList[e]
        /\ \A s \in Rooms \ {r} : firstLoaded'[s] = firstLoaded[s]
    BY <1>1, <1>2, <1>4 DEF Tracked, RoomTypeOK
  <2>2. /\ owed'[e] = queue /\ outcome'[e] # "none" /\ tried' = tried
    BY <1>2, <1>4 DEF Tracked, Call, LoopHead, LoopTypeOK
  <2>3. userList[e] \subseteq owed'[e] \cup tried'
    BY <1>1, <2>1, <2>2 DEF FirstQueried, LoopHistory
  <2>4. \A f \in Encryptions \ {e} : step[f] = "querying" => RoomOf[f] # r
    BY <1>1, <2>1 DEF InChain, Busy, Waiting
  <2>5. /\ known \subseteq known' /\ tried \subseteq tried'
        /\ (stopped => stopped') /\ (broken => broken')
        /\ \A c \in Calls : outcome[c] # "none" =>
               outcome'[c] # "none" /\ owed[c] \subseteq owed'[c] \cup tried'
    BY <1>1, LoopGrows
  <2>6. ASSUME NEW f \in Encryptions, step'[f] = "tracking" PROVE userList'[f] \subseteq known'
    BY <1>1, <2>1, <2>5, <2>6 DEF FirstQueried
  <2>7. ASSUME NEW f \in Encryptions, step'[f] = "querying"
        PROVE  outcome'[f] # "none" /\ firstLoaded'[RoomOf[f]] \subseteq owed'[f] \cup tried'
    <3>1. CASE f = e
      BY <2>1, <2>2, <2>3, <3>1
    <3>2. CASE f # e
      <4>1. step[f] = "querying" /\ firstLoaded'[RoomOf[f]] = firstLoaded[RoomOf[f]]
        BY <1>2, <2>1, <2>4, <2>7, <3>2
      <4> QED
        BY <1>1, <1>2, <2>5, <4>1 DEF FirstQueried
    <3> QED
      BY <3>1, <3>2
  <2>8. ASSUME NEW s \in Rooms, \A f \in Encryptions : RoomOf[f] = s => step'[f] # "querying"
        PROVE  firstLoaded'[s] \subseteq tried' \/ stopped' \/ broken'
    <3>1. s # r /\ \A f \in Encryptions : RoomOf[f] = s => step[f] # "querying"
      BY <2>1, <2>8
    <3>2. firstLoaded[s] \subseteq tried \/ stopped \/ broken
      BY <1>1, <3>1 DEF FirstQueried
    <3> QED
      BY <2>1, <2>5, <3>1, <3>2
  <2> QED
    BY <2>6, <2>7, <2>8 DEF FirstQueried
<1>5. ASSUME NEW e \in Encryptions, QueriesEnd(e) PROVE FirstQueried'
  <2> DEFINE r == RoomOf[e]
  <2>1. /\ step[e] = "querying" /\ step'[e] \notin {"tracking", "querying"}
        /\ firstLoaded' = firstLoaded /\ UNCHANGED <<known, tried, stopped, broken, owed, outcome>>
        /\ \A f \in Encryptions \ {e} : step'[f] = step[f] /\ userList'[f] = userList[f]
        /\ outcome[e] \in {"resolved", "rejected"}
    BY <1>1, <1>5 DEF QueriesEnd, Settled, RoomTypeOK, loopVars
  <2>2. firstLoaded[r] \subseteq tried \/ stopped \/ broken
    BY <1>1, <1>2, <2>1 DEF FirstQueried, LoopHistory, LoopInv, TriedWhenResolved
  <2> QED
    BY <1>1, <1>2, <2>1, <2>2 DEF FirstQueried
<1>6. ASSUME NEW e \in Encryptions,
             EncryptEvent(e) \/ Claim(e) \/ Claimed(e) \/ SendKey(e) \/ Encrypt(e) \/ AwaitFails(e)
      PROVE  FirstQueried'
  <2>1. /\ firstLoaded' = firstLoaded
        /\ \A f \in Encryptions \ {e} : step'[f] = step[f] /\ userList'[f] = userList[f]
    BY <1>1, <1>6 DEF EncryptEvent, Claim, Claimed, SendKey, Encrypt, AwaitFails, Settled,
                      RoomTypeOK
  <2>2. step'[e] \notin {"tracking", "querying"} /\ step[e] # "querying"
    <3>1. CASE EncryptEvent(e) \/ Claim(e) \/ Claimed(e) \/ Encrypt(e) \/ AwaitFails(e)
      BY <1>1, <3>1 DEF EncryptEvent, Claim, Claimed, Encrypt, AwaitFails, Settled, RoomTypeOK
    <3>2. CASE SendKey(e)
      BY <1>1, <3>2 DEF SendKey, Settled, RoomTypeOK, InChain
    <3> QED
      BY <1>6, <3>1, <3>2
  <2> QED
    BY <1>1, <2>1, <2>2, SameQueries
<1>7. ASSUME NEW r \in Rooms, NEW u \in Users, Join(r, u) \/ HiddenJoin(r, u) \/ Leave(r, u)
      PROVE  FirstQueried'
  <2>1. UNCHANGED <<firstLoaded, step, userList>>
    BY <1>7 DEF Join, HiddenJoin, Returns, Leave
  <2> QED
    BY <1>1, <2>1, SameQueries
<1>8. CASE Loop \/ SyncCompleted \/ UNCHANGED vars
  <2>1. UNCHANGED <<firstLoaded, step, userList>>
    BY <1>8 DEF Loop, SyncCompleted, vars, roomVars
  <2> QED
    BY <1>1, <2>1, SameQueries
<1> QED
  BY <1>3, <1>4, <1>5, <1>6, <1>7, <1>8 DEF Next, Progress
-----------------------------------------------------------------------------
(* The keys.                                                               *)

\* A step that changes no membership and no key, and at most forgets what an
\* encryption that ends had read.
LEMMA SameKeys ==
    ASSUME KeysFit, UNCHANGED <<members, left, invalid, holders, shared>>,
           \A e \in Encryptions :
              /\ gone'[e] = {} \/ (gone'[e] = gone[e] /\ userList'[e] = userList[e])
              /\ step'[e] = "sending" => /\ step[e] = "sending" /\ wanted'[e] = wanted[e]
                                        /\ toSend'[e] = toSend[e] /\ gone'[e] = gone[e]
    PROVE  KeysFit'
BY DEF KeysFit

\* The end of an encryption is such a step.
LEMMA SettledKeys ==
    ASSUME RoomTypeOK, NEW e \in Encryptions, NEW how \in Steps \ Waiting, Settled(e, how)
    PROVE  /\ step'[e] = how /\ gone'[e] = {}
           /\ \A f \in Encryptions \ {e} :
                  /\ step'[f] = step[f] /\ gone'[f] = gone[f] /\ userList'[f] = userList[f]
                  /\ wanted'[f] = wanted[f] /\ toSend'[f] = toSend[f]
BY DEF Settled, RoomTypeOK

\* Every step keeps the keys fitting.
LEMMA KeysFitStep == RoomInv /\ [Next]_vars => KeysFit'
<1> SUFFICES ASSUME RoomInv, [Next]_vars PROVE KeysFit'
  OBVIOUS
<1>1. RoomTypeOK /\ InChain /\ KeysFit
  BY DEF RoomInv
<1>2. \A e \in Encryptions : RoomOf[e] \in Rooms
  BY RoomEncryptionAssumption
<1>3. ASSUME NEW e \in Encryptions, EncryptEvent(e) \/ Tracked(e) PROVE KeysFit'
  <2>1. /\ UNCHANGED <<members, left, invalid, holders, shared, gone, userList, wanted, toSend>>
        /\ step'[e] # "sending" /\ \A f \in Encryptions \ {e} : step'[f] = step[f]
    BY <1>1, <1>3 DEF EncryptEvent, Tracked, RoomTypeOK
  <2> QED
    BY <1>1, <2>1, SameKeys
<1>4. ASSUME NEW e \in Encryptions, LoadMembers(e) PROVE KeysFit'
  <2>1. /\ UNCHANGED <<members, left, invalid, holders, shared, wanted, toSend>>
        /\ gone'[e] = left[RoomOf[e]] /\ userList'[e] = members[RoomOf[e]]
        /\ step'[e] # "sending"
        /\ \A f \in Encryptions \ {e} :
               step'[f] = step[f] /\ gone'[f] = gone[f] /\ userList'[f] = userList[f]
    BY <1>1, <1>4 DEF LoadMembers, RoomTypeOK
  <2> QED
    BY <1>1, <1>2, <2>1 DEF KeysFit
<1>5. ASSUME NEW e \in Encryptions, QueriesEnd(e) \/ Claim(e) \/ Encrypt(e) \/ AwaitFails(e)
      PROVE  KeysFit'
  <2>1. UNCHANGED <<members, left, invalid, holders, shared>>
    BY <1>5 DEF QueriesEnd, Claim, Encrypt, AwaitFails
  <2>2. CASE \E how \in {"prepared", "encrypted", "failed"} : Settled(e, how)
    BY <1>1, <2>1, <2>2, SettledKeys, SameKeys DEF Steps, Waiting
  <2>3. CASE ~\E how \in {"prepared", "encrypted", "failed"} : Settled(e, how)
    <3>1. /\ UNCHANGED <<gone, userList, wanted, toSend>> /\ step'[e] # "sending"
          /\ \A f \in Encryptions \ {e} : step'[f] = step[f]
      BY <1>1, <1>5, <2>3 DEF QueriesEnd, Claim, Encrypt, AwaitFails, RoomTypeOK
    <3> QED
      BY <1>1, <2>1, <3>1, SameKeys
  <2> QED
    BY <2>2, <2>3
<1>6. ASSUME NEW e \in Encryptions, Claimed(e) PROVE KeysFit'
  <2> DEFINE r == RoomOf[e]
  <2>1. PICK reached \in SUBSET Users, held \in SUBSET Users :
           /\ reached \subseteq userList[e]
           /\ \/ /\ held = {} /\ shared' = [shared EXCEPT ![r] = reached]
              \/ /\ ~invalid[r] /\ shared[r] \subseteq userList[e]
                 /\ held = holders[r]
                 /\ shared' = [shared EXCEPT ![r] = @ \cup reached]
           /\ holders' = [holders EXCEPT ![r] = held]
           /\ invalid' = [invalid EXCEPT ![r] = FALSE]
           /\ toSend' = [toSend EXCEPT ![e] = shared'[r] \ held]
           /\ wanted' = [wanted EXCEPT ![e] = reached]
    BY <1>1, <1>6, KeyIsShared
  <2>2. /\ r \in Rooms /\ step[e] = "claimed" /\ step'[e] = "sending"
        /\ \A f \in Encryptions \ {e} : step'[f] = step[f]
        /\ UNCHANGED <<members, left, gone, userList>>
    BY <1>1, <1>2, <1>6 DEF Claimed, RoomTypeOK
  <2>3. /\ holders'[r] = held /\ toSend'[e] = shared'[r] \ held /\ wanted'[e] = reached
        /\ \A s \in Rooms \ {r} : /\ shared'[s] = shared[s] /\ holders'[s] = holders[s]
                                  /\ invalid'[s] = invalid[s]
        /\ \A f \in Encryptions \ {e} : toSend'[f] = toSend[f] /\ wanted'[f] = wanted[f]
    BY <1>1, <2>1, <2>2 DEF RoomTypeOK
  <2>4. \/ held = {} /\ shared'[r] = reached
        \/ /\ ~invalid[r] /\ shared[r] \subseteq userList[e]
           /\ held = holders[r] /\ shared'[r] = shared[r] \cup reached
    BY <1>1, <2>1, <2>2 DEF RoomTypeOK
  <2>5. gone[e] \subseteq left[r] /\ gone[e] \cap userList[e] = {}
    BY <1>1 DEF KeysFit
  <2>6. held \cap left[r] \subseteq shared'[r]
    BY <1>1, <2>2, <2>4 DEF KeysFit
  <2>7. (held \cup toSend'[e]) \cap gone[e] = {}
    <3>1. CASE held = {} /\ shared'[r] = reached
      BY <2>1, <2>3, <2>5, <3>1
    <3>2. CASE /\ ~invalid[r] /\ shared[r] \subseteq userList[e]
               /\ held = holders[r] /\ shared'[r] = shared[r] \cup reached
      <4>1. holders[r] \cap left[r] \subseteq shared[r]
        BY <1>1, <2>2, <3>2 DEF KeysFit
      <4> QED
        BY <2>1, <2>3, <2>5, <3>2, <4>1
    <3> QED
      BY <2>4, <3>1, <3>2
  <2>8. wanted'[e] \subseteq held \cup toSend'[e]
    BY <2>3, <2>4
  <2>9. \A f \in Encryptions \ {e} : step[f] = "sending" => RoomOf[f] # r
    BY <1>1, <2>2 DEF InChain, Busy, Waiting
  <2>10. ASSUME NEW f \in Encryptions, step'[f] = "sending"
         PROVE  /\ wanted'[f] \subseteq holders'[RoomOf[f]] \cup toSend'[f]
                /\ toSend'[f] \subseteq shared'[RoomOf[f]]
                /\ (holders'[RoomOf[f]] \cup toSend'[f]) \cap gone'[f] = {}
    <3>1. CASE f = e
      BY <2>2, <2>3, <2>7, <2>8, <3>1
    <3>2. CASE f # e
      <4>1. step[f] = "sending" /\ RoomOf[f] \in Rooms \ {r}
        BY <1>2, <2>2, <2>9, <2>10, <3>2
      <4> QED
        BY <1>1, <2>2, <2>3, <3>2, <4>1 DEF KeysFit
    <3> QED
      BY <3>1, <3>2
  <2>11. ASSUME NEW s \in Rooms, ~invalid'[s]
         PROVE  holders'[s] \cap left'[s] \subseteq shared'[s]
    BY <1>1, <2>2, <2>3, <2>6, <2>11 DEF KeysFit
  <2> QED
    BY <1>1, <2>2, <2>10, <2>11 DEF KeysFit
<1>7. ASSUME NEW e \in Encryptions, SendKey(e) PROVE KeysFit'
  <2> DEFINE r == RoomOf[e]
  <2>1. PICK u \in toSend[e] :
           /\ holders' = [holders EXCEPT ![r] = @ \cup {u}]
           /\ \/ /\ toSend' = [toSend EXCEPT ![e] = @ \ {u}]
                 /\ UNCHANGED <<step, chain, userList, gone, wanted>>
              \/ Settled(e, "failed")
           /\ UNCHANGED <<members, left, shared, invalid>>
    BY <1>7 DEF SendKey
  <2>2. /\ r \in Rooms /\ step[e] = "sending"
        /\ holders'[r] = holders[r] \cup {u}
        /\ \A s \in Rooms \ {r} : holders'[s] = holders[s]
    BY <1>1, <1>2, <2>1 DEF InChain, RoomTypeOK
  <2>3. u \in shared[r] /\ u \notin gone[e]
    BY <1>1, <2>1, <2>2 DEF KeysFit
  <2>4. ASSUME NEW s \in Rooms, ~invalid'[s]
        PROVE  holders'[s] \cap left'[s] \subseteq shared'[s]
    BY <1>1, <2>1, <2>2, <2>3, <2>4 DEF KeysFit
  <2>5. \A f \in Encryptions \ {e} : step[f] = "sending" => RoomOf[f] # r
    BY <1>1, <2>2 DEF InChain, Busy, Waiting
  <2>6. /\ \A f \in Encryptions \ {e} :
               /\ step'[f] = step[f] /\ gone'[f] = gone[f] /\ userList'[f] = userList[f]
               /\ wanted'[f] = wanted[f] /\ toSend'[f] = toSend[f]
        /\ \/ step'[e] = "failed" /\ gone'[e] = {}
           \/ /\ toSend'[e] = toSend[e] \ {u} /\ gone'[e] = gone[e]
              /\ userList'[e] = userList[e] /\ wanted'[e] = wanted[e]
    <3>1. CASE Settled(e, "failed")
      BY <1>1, <3>1, SettledKeys DEF Steps, Waiting
    <3>2. CASE ~Settled(e, "failed")
      BY <1>1, <2>1, <3>2 DEF RoomTypeOK
    <3> QED
      BY <3>1, <3>2
  <2>7. ASSUME NEW f \in Encryptions, step'[f] = "sending"
        PROVE  /\ wanted'[f] \subseteq holders'[RoomOf[f]] \cup toSend'[f]
               /\ toSend'[f] \subseteq shared'[RoomOf[f]]
               /\ (holders'[RoomOf[f]] \cup toSend'[f]) \cap gone'[f] = {}
    <3>1. CASE f = e
      <4>1. /\ toSend'[e] = toSend[e] \ {u} /\ gone'[e] = gone[e] /\ wanted'[e] = wanted[e]
        BY <2>6, <2>7, <3>1
      <4> QED
        BY <1>1, <2>1, <2>2, <2>3, <3>1, <4>1 DEF KeysFit
    <3>2. CASE f # e
      <4>1. step[f] = "sending" /\ RoomOf[f] \in Rooms \ {r}
        BY <1>2, <2>5, <2>6, <2>7, <3>2
      <4> QED
        BY <1>1, <2>1, <2>2, <2>6, <3>2, <4>1 DEF KeysFit
    <3> QED
      BY <3>1, <3>2
  <2>8. ASSUME NEW f \in Encryptions
        PROVE  gone'[f] \subseteq left'[RoomOf[f]] /\ gone'[f] \cap userList'[f] = {}
    BY <1>1, <2>1, <2>6 DEF KeysFit
  <2> QED
    BY <1>1, <2>1, <2>4, <2>7, <2>8 DEF KeysFit
<1>8. ASSUME NEW r \in Rooms, NEW u \in Users, Join(r, u) \/ HiddenJoin(r, u) PROVE KeysFit'
  <2>1. /\ left'[r] = left[r] \ {u} /\ \A s \in Rooms \ {r} : left'[s] = left[s]
        /\ \A e \in Encryptions :
               gone'[e] = IF RoomOf[e] = r THEN gone[e] \ {u} ELSE gone[e]
        /\ UNCHANGED <<step, userList, toSend, shared, invalid, wanted>>
        /\ \A s \in Rooms \ {r} : members'[s] = members[s] /\ holders'[s] = holders[s]
        /\ members'[r] \subseteq members[r] \cup {u}
        /\ holders[r] \subseteq holders'[r] /\ holders'[r] \subseteq holders[r] \cup {u}
    <3>1. /\ Returns(r, u) /\ members \in [Rooms -> SUBSET Users]
          /\ holders \in [Rooms -> SUBSET Users] /\ left \in [Rooms -> SUBSET Users]
          /\ \/ members' = [members EXCEPT ![r] = @ \cup {u}] /\ UNCHANGED holders
             \/ holders' = [holders EXCEPT ![r] = @ \cup {u}] /\ UNCHANGED members
      BY <1>1, <1>8 DEF Join, HiddenJoin, RoomTypeOK
    <3> QED
      BY <3>1 DEF Returns
  <2>2. \A s \in Rooms : members'[s] \cap left'[s] = {}
    BY <1>1, <2>1 DEF KeysFit
  <2>3. ASSUME NEW e \in Encryptions
        PROVE  gone'[e] \subseteq left'[RoomOf[e]] /\ gone'[e] \cap userList'[e] = {}
    <3>1. gone[e] \subseteq left[RoomOf[e]] /\ gone[e] \cap userList[e] = {}
      BY <1>1 DEF KeysFit
    <3>2. CASE RoomOf[e] = r
      BY <2>1, <3>1, <3>2
    <3>3. CASE RoomOf[e] # r
      BY <1>2, <2>1, <3>1, <3>3
    <3> QED
      BY <3>2, <3>3
  <2>4. ASSUME NEW s \in Rooms, ~invalid'[s]
        PROVE  holders'[s] \cap left'[s] \subseteq shared'[s]
    BY <1>1, <2>1, <2>4 DEF KeysFit
  <2>5. ASSUME NEW e \in Encryptions, step'[e] = "sending"
        PROVE  /\ wanted'[e] \subseteq holders'[RoomOf[e]] \cup toSend'[e]
               /\ toSend'[e] \subseteq shared'[RoomOf[e]]
               /\ (holders'[RoomOf[e]] \cup toSend'[e]) \cap gone'[e] = {}
    <3>1. CASE RoomOf[e] = r
      BY <1>1, <2>1, <2>5, <3>1 DEF KeysFit
    <3>2. CASE RoomOf[e] # r
      BY <1>1, <1>2, <2>1, <2>5, <3>2 DEF KeysFit
    <3> QED
      BY <3>1, <3>2
  <2> QED
    BY <2>2, <2>3, <2>4, <2>5 DEF KeysFit
<1>9. ASSUME NEW r \in Rooms, NEW u \in Users, Leave(r, u) PROVE KeysFit'
  <2>1. /\ members'[r] = members[r] \ {u} /\ \A s \in Rooms \ {r} : members'[s] = members[s]
        /\ left'[r] = left[r] \cup {u} /\ \A s \in Rooms \ {r} : left'[s] = left[s]
        /\ invalid'[r] = TRUE /\ \A s \in Rooms \ {r} : invalid'[s] = invalid[s]
        /\ UNCHANGED <<step, userList, toSend, shared, holders, gone, wanted>>
    BY <1>1, <1>9 DEF Leave, RoomTypeOK
  <2> QED
    BY <1>1, <1>2, <2>1 DEF KeysFit
<1>10. CASE Loop \/ SyncCompleted \/ UNCHANGED vars
  <2>1. UNCHANGED <<members, left, step, userList, toSend, shared, invalid, holders, gone, wanted>>
    BY <1>10 DEF Loop, SyncCompleted, vars, roomVars
  <2> QED
    BY <1>1, <2>1, SameKeys
<1> QED
  BY <1>3, <1>4, <1>5, <1>6, <1>7, <1>8, <1>9, <1>10 DEF Next, Progress

-----------------------------------------------------------------------------
(* The theorems.                                                           *)

\* At first nothing was loaded, queued or shared.
LEMMA RoomInit == Init => RoomInv /\ LoopTypeOK /\ LoopInv
<1> SUFFICES ASSUME Init PROVE RoomInv /\ LoopTypeOK /\ LoopInv
  OBVIOUS
<1>1. LoopTypeOK /\ LoopInv
  BY DEF Init, LoopInit, LoopTypeOK, LoopInv, TriedWhenResolved, NobodyIsForgotten
<1>2. RoomTypeOK
  BY RoomEncryptionAssumption DEF Init, RoomTypeOK, Steps
<1>3. InChain
  BY RoomEncryptionAssumption DEF Init, InChain, Waiting, Busy
<1>4. LoopHistory
  BY DEF Init, LoopInit, LoopHistory
<1>5. FirstQueried
  BY DEF Init, FirstQueried
<1>6. KeysFit
  BY RoomEncryptionAssumption DEF Init, KeysFit
<1> QED
  BY <1>1, <1>2, <1>3, <1>4, <1>5, <1>6 DEF RoomInv

\* Only the end of an encryption of its own encrypts an event.
LEMMA EncryptsOnly ==
    ASSUME RoomInv, Next, NEW e \in Encryptions, Encrypts(e) PROVE Encrypt(e)
<1>1. RoomTypeOK /\ step[e] # "encrypted" /\ step'[e] = "encrypted"
  BY DEF RoomInv, Encrypts
<1>2. ASSUME NEW f \in Encryptions, EncryptEvent(f) \/ LoadMembers(f) \/ Tracked(f) \/ Claimed(f)
      PROVE  FALSE
  BY <1>1, <1>2 DEF EncryptEvent, LoadMembers, Tracked, Claimed, RoomTypeOK
<1>3. ASSUME NEW f \in Encryptions, QueriesEnd(f) \/ Claim(f) \/ SendKey(f) \/ AwaitFails(f)
      PROVE  FALSE
  BY <1>1, <1>3 DEF QueriesEnd, Claim, SendKey, AwaitFails, Settled, RoomTypeOK
<1>4. ASSUME NEW f \in Encryptions, Encrypt(f) PROVE f = e
  BY <1>1, <1>4 DEF Encrypt, Settled, RoomTypeOK
<1>5. ASSUME NEW r \in Rooms, NEW u \in Users, Join(r, u) \/ HiddenJoin(r, u) \/ Leave(r, u)
      PROVE  FALSE
  BY <1>1, <1>5 DEF Join, HiddenJoin, Returns, Leave
<1>6. CASE Loop \/ SyncCompleted
  BY <1>1, <1>6 DEF Loop, SyncCompleted, roomVars
<1> QED
  BY <1>2, <1>3, <1>4, <1>5, <1>6 DEF Next, Progress

\* The invariant, with what the loop keeps by itself.
THEOREM RoomInvariant == Spec => [](RoomInv /\ LoopTypeOK /\ LoopInv)
<1>1. RoomInv /\ LoopTypeOK /\ LoopInv /\ [Next]_vars => RoomInv' /\ LoopTypeOK' /\ LoopInv'
  <2> SUFFICES ASSUME RoomInv, LoopTypeOK, LoopInv, [Next]_vars
               PROVE  RoomInv' /\ LoopTypeOK' /\ LoopInv'
    OBVIOUS
  <2>1. [LoopNext]_loopVars
    BY LoopSimulation DEF RoomInv
  <2>2. RoomTypeOK' /\ InChain'
    BY RoomTypeStep, InChainStep DEF RoomInv
  <2>3. LoopTypeOK' /\ LoopInv'
    BY <2>1, TypeStep, LoopStepInv
  <2>4. LoopHistory'
    BY <2>1, LoopHistoryStep DEF RoomInv
  <2>5. FirstQueried' /\ KeysFit'
    BY FirstQueriedStep, KeysFitStep
  <2> QED
    BY <2>2, <2>3, <2>4, <2>5 DEF RoomInv
<1> QED
  BY <1>1, RoomInit, PTL DEF Spec

\* The composition implements the loop, whose theorems therefore hold here.
THEOREM ImplementsLoop == Spec => LoopSpec
<1>1. Init => LoopInit
  BY DEF Init
<1>2. RoomInv /\ [Next]_vars => [LoopNext]_loopVars
  BY LoopSimulation DEF RoomInv
<1> QED
  BY <1>1, <1>2, RoomInvariant, PTL DEF Spec, LoopSpec

\* An encryption whose call of the loop resolves has had the queries it waited
\* for tried, and none waits for an iteration that will not come.
THEOREM LoopServesRooms == Spec => [](TriedWhenResolved /\ NobodyIsForgotten)
BY ImplementsLoop, ResolvedMeansTried, NoForgottenCall, PTL

\* No session is ensured before the devices of the first members were asked for.
THEOREM QueriesComeFirst == Spec => []QueriedBeforeSessions
<1>1. RoomInv => QueriedBeforeSessions
  <2> SUFFICES ASSUME RoomInv, NEW e \in Encryptions,
                      step[e] \in {"claiming", "claimed", "sending"}
               PROVE  firstLoaded[RoomOf[e]] \subseteq tried \/ stopped \/ broken
    BY DEF QueriedBeforeSessions
  <2>1. \A f \in Encryptions : RoomOf[f] = RoomOf[e] => step[f] # "querying"
    BY DEF RoomInv, InChain, Busy, Waiting
  <2> QED
    BY <2>1, RoomEncryptionAssumption DEF RoomInv, FirstQueried
<1> QED
  BY <1>1, RoomInvariant, PTL

\* Whoever was to get the key for an event has it when the event is encrypted.
THEOREM KeysComeFirst == Spec => KeyPrecedesEvent
<1>1. RoomInv /\ [Next]_vars =>
          [\A e \in Encryptions : Encrypts(e) => wanted[e] \subseteq holders[RoomOf[e]]]_vars
  <2> SUFFICES ASSUME RoomInv, Next, NEW e \in Encryptions, Encrypts(e)
               PROVE  wanted[e] \subseteq holders[RoomOf[e]]
    OBVIOUS
  <2>1. Encrypt(e)
    BY EncryptsOnly
  <2> QED
    BY <2>1 DEF Encrypt, RoomInv, KeysFit
<1> QED
  BY <1>1, RoomInvariant, PTL DEF Spec, KeyPrecedesEvent

\* An event cannot be read by who had left before its encryption began.
THEOREM LeaversCannotRead == Spec => LeftCannotRead
<1>1. RoomInv /\ [Next]_vars =>
          [\A e \in Encryptions : Encrypts(e) => holders[RoomOf[e]] \cap gone[e] = {}]_vars
  <2> SUFFICES ASSUME RoomInv, Next, NEW e \in Encryptions, Encrypts(e)
               PROVE  holders[RoomOf[e]] \cap gone[e] = {}
    OBVIOUS
  <2>1. Encrypt(e)
    BY EncryptsOnly
  <2> QED
    BY <2>1 DEF Encrypt, RoomInv, KeysFit
<1> QED
  BY <1>1, RoomInvariant, PTL DEF Spec, LeftCannotRead

-----------------------------------------------------------------------------
(* The chain of claims, and the types that rest on it.                     *)

Claims == {"claiming", "claimed"}

\* The claims that are not settled are in the chain once, and only the first of
\* them is made.
ClaimsInv ==
    /\ claims \in Seq(Encryptions) /\ IsInjective(claims)
    /\ ToSet(claims) = {e \in Encryptions : step[e] \in Claims}
    /\ \A e \in Encryptions : step[e] = "claimed" => Head(claims) = e
    /\ sessions \subseteq Users /\ syncs \in 0 .. MaxSyncs

\* ensureSessionsForUsers puts a claim behind the others.
LEMMA ClaimAdded ==
    ASSUME RoomTypeOK, ClaimsInv, NEW e \in Encryptions, step[e] \notin Claims,
           step' = [step EXCEPT ![e] = "claiming"], claims' = Append(claims, e),
           UNCHANGED <<sessions, syncs>>
    PROVE  ClaimsInv'
<1>1. e \notin ToSet(claims)
  BY DEF ClaimsInv
<1>2. /\ claims' \in Seq(Encryptions) /\ IsInjective(claims')
      /\ ToSet(claims') = ToSet(claims) \cup {e}
      /\ claims # <<>> => Head(claims') = Head(claims)
  BY <1>1, AppendToQueue DEF ClaimsInv
<1>3. step'[e] = "claiming" /\ \A f \in Encryptions \ {e} : step'[f] = step[f]
  BY DEF RoomTypeOK
<1>4. \A f \in Encryptions : step[f] = "claimed" => claims # <<>>
  <2>1. ASSUME NEW f \in Encryptions, step[f] = "claimed" PROVE claims # <<>>
    <3>1. f \in ToSet(claims)
      BY <2>1 DEF ClaimsInv, Claims
    <3> QED
      BY <3>1 DEF ToSet
  <2> QED
    BY <2>1
<1>5. ToSet(claims') = {f \in Encryptions : step'[f] \in Claims}
  BY <1>2, <1>3 DEF ClaimsInv, Claims
<1>6. \A f \in Encryptions : step'[f] = "claimed" => Head(claims') = f
  BY <1>2, <1>3, <1>4 DEF ClaimsInv
<1> QED
  BY <1>2, <1>5, <1>6 DEF ClaimsInv

\* The first claim is settled, and the next one's turn comes.
LEMMA ClaimSettled ==
    ASSUME RoomTypeOK, ClaimsInv, NEW e \in Encryptions, step[e] \in Claims, Head(claims) = e,
           NEW how \in Steps \ Claims, step' = [step EXCEPT ![e] = how], claims' = Tail(claims),
           sessions' \subseteq Users, UNCHANGED syncs
    PROVE  ClaimsInv'
<1>1. claims # <<>>
  <2>1. e \in ToSet(claims)
    BY DEF ClaimsInv
  <2> QED
    BY <2>1 DEF ToSet
<1>2. /\ claims' \in Seq(Encryptions) /\ IsInjective(claims')
      /\ ToSet(claims) = ToSet(claims') \cup {e} /\ e \notin ToSet(claims')
  BY <1>1, TailOfQueue DEF ClaimsInv
<1>3. step'[e] = how /\ \A f \in Encryptions \ {e} : step'[f] = step[f]
  BY DEF RoomTypeOK
<1>4. ToSet(claims') = {f \in Encryptions : step'[f] \in Claims}
  BY <1>2, <1>3 DEF ClaimsInv
<1>5. \A f \in Encryptions : step'[f] # "claimed"
  BY <1>3 DEF ClaimsInv, Claims
<1> QED
  BY <1>2, <1>4, <1>5 DEF ClaimsInv

\* Encryptions before and after their claim leave the chain of claims alone.
LEMMA ClaimsUntouched ==
    ASSUME RoomTypeOK, ClaimsInv, NEW e \in Encryptions, step[e] \notin Claims,
           NEW how \in Steps \ Claims, step' = [step EXCEPT ![e] = how],
           UNCHANGED <<claims, sessions, syncs>>
    PROVE  ClaimsInv'
<1>1. step'[e] = how /\ \A f \in Encryptions \ {e} : step'[f] = step[f]
  BY DEF RoomTypeOK
<1>2. ToSet(claims') = {f \in Encryptions : step'[f] \in Claims}
  BY <1>1 DEF ClaimsInv
<1> QED
  BY <1>1, <1>2 DEF ClaimsInv, Claims

\* The steps of an encryption keep the chain of claims.
LEMMA EncryptionKeepsClaims ==
    ASSUME RoomTypeOK, InChain, ClaimsInv, NEW e \in Encryptions, EncryptEvent(e) \/ Progress(e)
    PROVE  ClaimsInv'
<1>1. CASE EncryptEvent(e)
  BY <1>1, ClaimsUntouched DEF EncryptEvent, Steps, Waiting, Claims
<1>2. CASE LoadMembers(e)
  <2>1. CASE step' = [step EXCEPT ![e] = "claiming"] /\ claims' = Append(claims, e)
    BY <1>2, <2>1, ClaimAdded DEF LoadMembers, Claims
  <2>2. CASE step' = [step EXCEPT ![e] = "tracking"] /\ UNCHANGED claims
    BY <1>2, <2>2, ClaimsUntouched DEF LoadMembers, Steps, Waiting, Claims
  <2> QED
    BY <1>2, <2>1, <2>2 DEF LoadMembers
<1>3. CASE Tracked(e)
  BY <1>3, ClaimsUntouched DEF Tracked, Steps, Waiting, Claims
<1>4. CASE QueriesEnd(e)
  <2>1. CASE step' = [step EXCEPT ![e] = "claiming"] /\ claims' = Append(claims, e)
    BY <1>4, <2>1, ClaimAdded DEF QueriesEnd, Claims
  <2>2. CASE Settled(e, "failed") /\ UNCHANGED claims
    BY <1>4, <2>2, ClaimsUntouched DEF QueriesEnd, Settled, Steps, Waiting, Claims
  <2> QED
    BY <1>4, <2>1, <2>2 DEF QueriesEnd
<1>5. CASE Claim(e)
  <2>1. step[e] = "claiming" /\ Head(claims) = e /\ UNCHANGED <<sessions, syncs>>
    BY <1>5 DEF Claim
  <2>2. CASE Settled(e, "failed") /\ claims' = Tail(claims)
    <3>1. sessions' \subseteq Users
      BY <2>1 DEF ClaimsInv
    <3> QED
      BY <2>1, <2>2, <3>1, ClaimSettled DEF Settled, Steps, Claims, Waiting
  <2>3. CASE step' = [step EXCEPT ![e] = "claimed"] /\ UNCHANGED claims
    <3>1. step'[e] = "claimed" /\ \A f \in Encryptions \ {e} : step'[f] = step[f]
      BY <2>3 DEF RoomTypeOK
    <3>2. ToSet(claims') = {f \in Encryptions : step'[f] \in Claims}
      BY <2>1, <2>3, <3>1 DEF ClaimsInv, Claims
    <3>3. \A f \in Encryptions : step'[f] = "claimed" => Head(claims') = f
      BY <2>1, <2>3, <3>1 DEF ClaimsInv
    <3> QED
      BY <2>1, <2>3, <3>2, <3>3 DEF ClaimsInv
  <2> QED
    BY <1>5, <2>2, <2>3 DEF Claim
<1>6. CASE Claimed(e)
  <2>1. sessions' \subseteq Users
    BY <1>6 DEF Claimed, Known, ClaimsInv
  <2>2. step[e] = "claimed" /\ Head(claims) = e
    BY <1>6 DEF Claimed, ClaimsInv
  <2> QED
    BY <1>6, <2>1, <2>2, ClaimSettled DEF Claimed, Steps, Claims, Waiting
<1>7. CASE SendKey(e)
  <2>1. step[e] = "sending"
    BY <1>7 DEF SendKey, InChain
  <2>2. CASE UNCHANGED step
    BY <1>7, <2>2 DEF SendKey, ClaimsInv
  <2>3. CASE Settled(e, "failed")
    BY <1>7, <2>1, <2>3, ClaimsUntouched DEF SendKey, Settled, Steps, Waiting, Claims
  <2> QED
    BY <1>7, <2>2, <2>3 DEF SendKey
<1>8. CASE Encrypt(e)
  BY <1>8, ClaimsUntouched DEF Encrypt, Settled, Steps, Waiting, Claims
<1>9. CASE AwaitFails(e)
  <2>1. Settled(e, "failed") /\ UNCHANGED <<sessions, syncs>>
    BY <1>9 DEF AwaitFails
  <2>2. CASE step[e] = "claimed"
    <3>1. Head(claims) = e /\ claims' = Tail(claims) /\ sessions' \subseteq Users
      BY <1>9, <2>1, <2>2 DEF AwaitFails, ClaimsInv
    <3> QED
      BY <2>1, <2>2, <3>1, ClaimSettled DEF Settled, Steps, Claims, Waiting
  <2>3. CASE step[e] # "claimed"
    BY <1>9, <2>1, <2>3, ClaimsUntouched DEF AwaitFails, Settled, Steps, Waiting, Claims
  <2> QED
    BY <2>2, <2>3
<1> QED
  BY <1>1, <1>2, <1>3, <1>4, <1>5, <1>6, <1>7, <1>8, <1>9 DEF Progress

\* Every step keeps the chain of claims.
LEMMA ClaimsStep == RoomTypeOK /\ InChain /\ ClaimsInv /\ [Next]_vars => ClaimsInv'
<1> SUFFICES ASSUME RoomTypeOK, InChain, ClaimsInv, [Next]_vars PROVE ClaimsInv'
  OBVIOUS
<1>1. CASE \E e \in Encryptions : EncryptEvent(e) \/ Progress(e)
  BY <1>1, EncryptionKeepsClaims
<1>2. ASSUME UNCHANGED <<claims, step, sessions>>, syncs' \in 0 .. MaxSyncs PROVE ClaimsInv'
  BY <1>2 DEF ClaimsInv
<1>3. CASE SyncCompleted \/ \E r \in Rooms, u \in Users : Join(r, u) \/ HiddenJoin(r, u)
  <2>1. UNCHANGED <<claims, step, sessions>> /\ syncs < MaxSyncs /\ syncs' = syncs + 1
    BY <1>3 DEF SyncCompleted, Join, HiddenJoin, Returns
  <2>2. syncs' \in 0 .. MaxSyncs
    BY <2>1, RoomEncryptionAssumption DEF ClaimsInv
  <2> QED
    BY <1>2, <2>1, <2>2
<1>4. CASE Loop \/ UNCHANGED vars \/ \E r \in Rooms, u \in Users : Leave(r, u)
  <2>1. UNCHANGED <<claims, step, sessions, syncs>>
    BY <1>4 DEF Loop, Leave, vars, roomVars
  <2> QED
    BY <2>1 DEF ClaimsInv
<1> QED
  BY <1>1, <1>3, <1>4 DEF Next

\* KeyClaimManager makes one claim at a time, in the order in which they were
\* asked for, and no claim is lost from the chain.
THEOREM ClaimsInvariant == Spec => []ClaimsInv
<1>1. Init => ClaimsInv
  <2> SUFFICES ASSUME Init PROVE ClaimsInv
    OBVIOUS
  <2>1. claims = <<>> /\ claims \in Seq(Encryptions)
    BY DEF Init
  <2>2. ToSet(claims) = {} /\ IsInjective(claims)
    BY <2>1 DEF ToSet, IsInjective
  <2>3. \A e \in Encryptions : step[e] = "none"
    BY DEF Init
  <2> QED
    BY <2>1, <2>2, <2>3, RoomEncryptionAssumption DEF Init, ClaimsInv, Claims
<1>2. RoomInv /\ ClaimsInv /\ [Next]_vars => ClaimsInv'
  BY ClaimsStep DEF RoomInv
<1> QED
  BY <1>1, <1>2, RoomInvariant, PTL DEF Spec

\* Encryptions, claims and the loop keep their types, for any rooms and users.
THEOREM RoomTypes == Spec => []TypeOK
<1>1. RoomInv /\ LoopTypeOK /\ ClaimsInv => TypeOK
  <2> SUFFICES ASSUME RoomInv, LoopTypeOK, ClaimsInv PROVE TypeOK
    OBVIOUS
  <2>1. ASSUME NEW i \in 1 .. Len(claims) PROVE step[claims[i]] \in {"claiming", "claimed"}
    <3>1. claims[i] \in ToSet(claims)
      BY <2>1 DEF ClaimsInv, ToSet
    <3> QED
      BY <3>1 DEF ClaimsInv, Claims
  <2> QED
    BY <2>1 DEF RoomInv, RoomTypeOK, ClaimsInv, TypeOK, Steps
<1> QED
  BY <1>1, RoomInvariant, ClaimsInvariant, PTL
=============================================================================

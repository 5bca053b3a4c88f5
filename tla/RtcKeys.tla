------------------------------ MODULE RtcKeys -------------------------------
(***************************************************************************)
(* The media keys of a MatrixRTC call (js/matrixrtc/RTCEncryptionManager.ts *)
(* over ToDeviceKeyTransport.ts) and the calculation of the call's         *)
(* memberships that drives them (MatrixRTCSession.ts, and refreshRoom of   *)
(* MatrixRTCSessionManager.ts).  Whoever joins gets the key, which is      *)
(* rotated if it is old; when somebody leaves it is rotated.  Keys are     *)
(* distributed in rounds, one at a time, and a new key is used some time   *)
(* after it was sent.  Keys of others may come before their membership.    *)
(*                                                                         *)
(* A membership is a device and its createdTs, the number of the change of *)
(* the room that made it; 0 stands for no membership.                      *)
(***************************************************************************)
EXTENDS Integers, Sequences, SequencesExt, Queues

CONSTANTS
    Me,
    Others,          \* the devices of other participants
    Drivers,         \* can the (widget) driver send to-device messages, or not
    MaxChanges,      \* bound on changes of the room
    MaxAges,         \* bound on keys that become old
    MaxReceived      \* bound on the keys that are received

ASSUME RtcKeysAssumption ==
    /\ Me \notin Others /\ Drivers \subseteq BOOLEAN
    /\ MaxChanges \in Nat /\ MaxAges \in Nat /\ MaxReceived \in Nat

Devices == Others \cup {Me}
NoKey == -1

VARIABLES
    room,            \* the memberships in the room, by device
    changes,         \* bounded
    memberships,     \* of the session
    needed,          \* membershipNeedsRecalculation
    queued,          \* recalculations waiting in recalculateSessionMembersPromise
    calculations,    \* what those that run have read from the room
    canSend,
    key,             \* outboundSession.keyId
    old,             \* the key is older than the grace period of rotations
    sharedWith,      \* outboundSession.sharedWith
    round,           \* where the distribution is
    toDistributeTo,
    hasKeyChanged,
    again,           \* needToEnsureKeyAgain
    used,            \* the key our media is encrypted with
    holders,         \* history: who got which of our keys
    ages,            \* bounded
    early,           \* keysWithoutMatchingRTCMembership
    handed,          \* the key of each device that the media layer has
    lastReceived,    \* history
    received         \* bounded

roomVars == <<room, changes>>
sessionVars == <<memberships, needed, queued, calculations>>
roundVars == <<key, old, sharedWith, round, toDistributeTo, hasKeyChanged, again>>
inboundVars == <<early, handed, lastReceived, received>>
keysVars == <<roomVars, sessionVars, canSend, roundVars, used, holders, ages, inboundVars>>

Memberships == [Devices -> 0 .. MaxChanges]

RtcKeysTypeOK ==
    /\ room \in Memberships /\ changes \in 0 .. MaxChanges
    /\ memberships \in Memberships
    /\ needed \in BOOLEAN /\ queued \in 0 .. MaxChanges
    /\ Range(calculations) \subseteq [chained : BOOLEAN, read : Memberships]
    /\ canSend \in BOOLEAN
    /\ key \in Int /\ old \in BOOLEAN
    /\ sharedWith \subseteq Devices \X (1 .. MaxChanges)
    /\ round \in {"none", "first", "sending", "delayed"}
    /\ toDistributeTo \subseteq Devices \X (1 .. MaxChanges)
    /\ hasKeyChanged \in BOOLEAN /\ again \in BOOLEAN
    /\ used \in NoKey .. key /\ holders \subseteq Others \X (0 .. key)
    /\ ages \in 0 .. MaxAges
    /\ early \in Seq(Others \X (1 .. MaxReceived))
    /\ handed \in [Others -> 0 .. MaxReceived] /\ lastReceived \in [Others -> 0 .. MaxReceived]
    /\ received \in 0 .. MaxReceived

KeysInit ==
    /\ room = [d \in Devices |-> 0] /\ changes = 0
    /\ memberships = room /\ needed = FALSE /\ queued = 0 /\ calculations = <<>>
    /\ canSend \in Drivers
    /\ key = NoKey /\ old = FALSE /\ sharedWith = {}
    /\ round = "none" /\ toDistributeTo = {} /\ hasKeyChanged = FALSE /\ again = FALSE
    /\ used = NoKey /\ holders = {} /\ ages = 0
    /\ early = <<>> /\ handed = [d \in Others |-> 0]
    /\ lastReceived = [d \in Others |-> 0] /\ received = 0

-----------------------------------------------------------------------------
(* RTCEncryptionManager: our key.                                          *)

SharesOf(ms) == {<<d, ms[d]>> : d \in {d \in Devices : ms[d] # 0}}

\* Mutant: only who joins is looked for.
BeginRound_joinersOnly(ms, shared) ==
    LET toShareWith == SharesOf(ms)
        anyJoined == toShareWith \ shared
        rotate == anyJoined # {} /\ old
    IN  /\ key' = IF rotate THEN key + 1 ELSE key
        /\ old' = (old /\ ~rotate)
        /\ sharedWith' = IF rotate THEN {} ELSE shared
        /\ hasKeyChanged' = rotate
        /\ toDistributeTo' = IF rotate THEN toShareWith ELSE anyJoined
        /\ round' = IF anyJoined # {} THEN "sending" ELSE "none"

\* rolloutOutboundKey once there is a first key, whose sharedWith is shared: who
\* gets it, and is it rotated?  A new membership of a device counts as joined, the
\* one it replaces not as left.
BeginRound(ms, shared) ==
    LET toShareWith == SharesOf(ms)
        alreadySharedWith == {x \in shared : ms[x[1]] \in {0, x[2]}}
        anyLeft == alreadySharedWith \ toShareWith
        anyJoined == toShareWith \ alreadySharedWith
        rotate == anyLeft # {} \/ (anyJoined # {} /\ old)
    IN  /\ key' = IF rotate THEN key + 1 ELSE key
        /\ old' = (old /\ ~rotate)
        /\ sharedWith' = IF rotate THEN {} ELSE shared
        /\ hasKeyChanged' = rotate
        /\ toDistributeTo' = IF rotate THEN toShareWith ELSE anyJoined
        /\ round' = IF rotate \/ anyJoined # {} THEN "sending" ELSE "none"

\* Mutant: a distribution that is going on is left alone.
EnsureKeyDistribution_once(ms) ==
    \/ /\ round = "none" /\ key = NoKey
       /\ key' = 0 /\ round' = "first"
       /\ UNCHANGED <<old, sharedWith, toDistributeTo, hasKeyChanged, again>>
    \/ /\ round = "none" /\ key # NoKey
       /\ BeginRound(ms, sharedWith)
       /\ UNCHANGED again
    \/ round # "none" /\ UNCHANGED roundVars

\* ensureKeyDistribution, with the memberships at that moment.
EnsureKeyDistribution(ms) ==
    \/ /\ round = "none" /\ key = NoKey
       /\ key' = 0 /\ round' = "first"
       /\ UNCHANGED <<old, sharedWith, toDistributeTo, hasKeyChanged, again>>
    \/ /\ round = "none" /\ key # NoKey
       /\ BeginRound(ms, sharedWith)
       /\ UNCHANGED again
    \/ /\ round # "none"
       /\ again' = TRUE
       /\ UNCHANGED <<key, old, sharedWith, round, toDistributeTo, hasKeyChanged>>

\* The first key is used at once; then it is distributed.
FirstKey ==
    /\ round = "first"
    /\ used' = key
    /\ BeginRound(memberships, sharedWith)
    /\ again' = (again /\ round' # "none")
    /\ UNCHANGED <<roomVars, sessionVars, canSend, holders, ages, inboundVars>>

\* The end of a round: the next one begins at once if it was asked for.
EndRound(shared) ==
    /\ again' = FALSE
    /\ \/ again /\ BeginRound(memberships, shared)
       \/ /\ ~again
          /\ round' = "none" /\ sharedWith' = shared
          /\ UNCHANGED <<key, old, toDistributeTo, hasKeyChanged>>

Targets == {x[1] : x \in toDistributeTo} \ {Me}

\* sendKey has returned, whoever got the key: its errors are swallowed.
KeySent ==
    /\ round = "sending" /\ (canSend \/ Targets = {})
    /\ \E got \in SUBSET Targets : holders' = holders \cup (got \X {key})
    /\ LET shared == sharedWith \cup toDistributeTo
       IN  IF hasKeyChanged
           THEN /\ round' = "delayed" /\ sharedWith' = shared
                /\ UNCHANGED <<key, old, toDistributeTo, hasKeyChanged, again>>
           ELSE EndRound(shared)
    /\ UNCHANGED <<roomVars, sessionVars, canSend, used, ages, inboundVars>>

\* Mutant: the error escapes, and .then does not run.
NotSupported_escapes ==
    /\ round = "sending" /\ ~canSend /\ Targets # {}
    /\ UNCHANGED keysVars

\* ... except for a driver that cannot send at all; rolloutOutboundKey catches it.
NotSupported ==
    /\ round = "sending" /\ ~canSend /\ Targets # {}
    /\ EndRound(sharedWith)
    /\ UNCHANGED <<roomVars, sessionVars, canSend, used, holders, ages, inboundVars>>

\* The time before a new key is used is over.
Delayed ==
    /\ round = "delayed"
    /\ used' = key
    /\ EndRound(sharedWith)
    /\ UNCHANGED <<roomVars, sessionVars, canSend, holders, ages, inboundVars>>

\* The key is older than keyRotationGracePeriodMs.
Age ==
    /\ key # NoKey /\ ~old /\ ages < MaxAges
    /\ old' = TRUE /\ ages' = ages + 1
    /\ UNCHANGED <<roomVars, sessionVars, canSend, key, sharedWith, round, toDistributeTo,
                   hasKeyChanged, again, used, holders, inboundVars>>

-----------------------------------------------------------------------------
(* The keys of others.                                                     *)

\* The keys of d, in their order.
KeysOf(d, keys) == Without(keys, {k \in ToSet(keys) : k[1] # d})

\* Mutant: the keys of who is not a member yet are dropped.
HandOver_drops(keys, ms) ==
    /\ handed' = [d \in Others |->
          IF ms[d] # 0 /\ KeysOf(d, keys) # <<>> THEN Last(KeysOf(d, keys))[2] ELSE handed[d]]
    /\ early' = <<>>

\* Keys whose sender is a member of ms are handed to the media layer in their
\* order, so the last one stays.
HandOver(keys, ms) ==
    /\ handed' = [d \in Others |->
          IF ms[d] # 0 /\ KeysOf(d, keys) # <<>> THEN Last(KeysOf(d, keys))[2] ELSE handed[d]]
    /\ early' = Without(keys, {k \in ToSet(keys) : ms[k[1]] # 0})

\* onNewKeyReceived and addKeyToParticipant.  The transport passes the time of
\* receipt as the key's, so OutdatedKeyFilter finds none outdated.  A device has one
\* identity in the media layer.
ReceiveKey(d) ==
    /\ received < MaxReceived
    /\ received' = received + 1
    /\ lastReceived' = [lastReceived EXCEPT ![d] = received']
    /\ IF memberships[d] # 0
       THEN handed' = [handed EXCEPT ![d] = received'] /\ UNCHANGED early
       ELSE early' = Append(early, <<d, received'>>) /\ UNCHANGED handed
    /\ UNCHANGED <<roomVars, sessionVars, canSend, roundVars, used, holders, ages>>

-----------------------------------------------------------------------------
(* MatrixRTCSession: the memberships.                                      *)

\* ensureRecalculateSessionMembers.
EnsureRecalculate ==
    /\ needed' = TRUE
    /\ queued' = IF needed THEN queued ELSE queued + 1
    /\ UNCHANGED calculations

\* recalculateSessionMembers starts: the events are collected at once.
StartRecalculation(chained, ms) ==
    /\ needed' = FALSE
    /\ calculations' = Append(calculations, [chained |-> chained, read |-> ms])

\* A device joins, rejoins or leaves the call.  The change arrives as RTC state,
\* which makes refreshRoom recalculate, or as a room member's leave, an expiry or
\* an update of sticky events, which ensure a recalculation.
Change(d) ==
    /\ changes < MaxChanges
    /\ changes' = changes + 1
    /\ \E ts \in {0, changes'} : ts # room[d] /\ room' = [room EXCEPT ![d] = ts]
    /\ \/ StartRecalculation(FALSE, room') /\ UNCHANGED queued
       \/ EnsureRecalculate
    /\ UNCHANGED <<memberships, canSend, roundVars, used, holders, ages, inboundVars>>

\* The next recalculation of the chain starts.
ChainStarts ==
    /\ queued > 0 /\ \A i \in DOMAIN calculations : ~calculations[i].chained
    /\ queued' = queued - 1
    /\ StartRecalculation(TRUE, room)
    /\ UNCHANGED <<roomVars, memberships, canSend, roundVars, used, holders, ages, inboundVars>>

\* A recalculation has parsed every membership it had collected: the session's
\* memberships are replaced, and the key follows them.
Recalculated ==
    \E i \in DOMAIN calculations :
        /\ calculations' = RemoveAt(calculations, i)
        /\ memberships' = calculations[i].read
        /\ EnsureKeyDistribution(memberships')
        /\ HandOver(early, memberships')
        /\ UNCHANGED <<roomVars, needed, queued, canSend, used, holders, ages,
                       lastReceived, received>>

KeysNext ==
    \/ FirstKey \/ KeySent \/ NotSupported \/ Delayed \/ Age
    \/ \E d \in Others : ReceiveKey(d)
    \/ \E d \in Devices : Change(d)
    \/ ChainStarts \/ Recalculated

KeysSpec == KeysInit /\ [][KeysNext]_keysVars

\* Promises settle, timers fire, the server answers.
FairKeysSpec ==
    /\ KeysSpec
    /\ WF_keysVars(FirstKey) /\ WF_keysVars(KeySent) /\ WF_keysVars(NotSupported)
    /\ WF_keysVars(Delayed) /\ WF_keysVars(ChainStarts) /\ WF_keysVars(Recalculated)

-----------------------------------------------------------------------------
(* Once no distribution is going on, whoever is not in the call of this    *)
(* session does not hold the key our media is encrypted with, even if they *)
(* left while a key was being sent to them or was waiting to be used.      *)
LeaverCannotHear ==
    round = "none" => \A d \in Others : memberships[d] = 0 => <<d, used>> \notin holders

(* ... and every member was sent the key that is used, those who joined or *)
(* renewed their membership during a distribution included.                *)
MembersGetKey ==
    round = "none" /\ key # NoKey /\ canSend =>
        used = key /\ SharesOf(memberships) \subseteq sharedWith

(* The last key a member sent is the one the media layer has for it,       *)
(* whether it came before the membership, after it, or between two of its  *)
(* memberships.                                                            *)
KeysReachMedia ==
    \A d \in Others : memberships[d] # 0 => handed[d] = lastReceived[d]

(* A distribution ends, whatever becomes of its messages, so that the next *)
(* change of the memberships can be acted on.                              *)
RoundsEnd == []<>(round = "none")

(* "helper variables to make sure we do not have parallel running          *)
(* recalculations": the last recalculation leaves the session with the     *)
(* memberships that the room has.                                          *)
MembershipsAreCurrent ==
    calculations = <<>> /\ queued = 0 => memberships = room
=============================================================================

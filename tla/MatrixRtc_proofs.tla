--------------------------- MODULE MatrixRtc_proofs ---------------------------
(***************************************************************************)
(* The safety of a call, its media keys (RtcKeys) and its membership       *)
(* (RtcMembership), one after the other.                                   *)
(*                                                                         *)
(* KeysInv is an inductive invariant of RtcKeys: for any participants and  *)
(* any number of changes, whoever left does not keep the key in use once   *)
(* no distribution is going on, and every member was sent it.  EarlyInv    *)
(* says where the last key of a sender is until its media layer has it.    *)
(*                                                                         *)
(* RtcInv is an inductive invariant of RtcMembership: what a manager has   *)
(* scheduled fits what it knows (ScheduleInv), what it knows fits the      *)
(* membership in the room (KnowledgeInv), and the server holds no delayed  *)
(* leave but the one it knows (DelayedInv).                                *)
(***************************************************************************)
EXTENDS RtcKeys, RtcMembership, QueueLemmas

-----------------------------------------------------------------------------
(* The media keys: RtcKeys.                                                *)

Shares == Devices \X Int

KeysTypeOK ==
    /\ room \in Memberships /\ changes \in 0 .. MaxChanges
    /\ memberships \in Memberships
    /\ calculations \in Seq([chained : BOOLEAN, read : Memberships])
    /\ canSend \in BOOLEAN
    /\ key \in Int /\ key >= NoKey /\ old \in BOOLEAN
    /\ sharedWith \in SUBSET Shares /\ toDistributeTo \in SUBSET Shares
    /\ round \in {"none", "first", "sending", "delayed"}
    /\ hasKeyChanged \in BOOLEAN /\ again \in BOOLEAN
    /\ holders \in SUBSET (Others \X Int)

\* The members, and nobody else, are among who has or is being sent the key.
Fits(ms, shared) == SharesOf(ms) \subseteq shared /\ \A x \in shared : ms[x[1]] # 0

\* Who holds the key is known to have it.
HoldersKnown ==
    /\ \A h \in holders : h[2] <= key
    /\ \A d \in Others : <<d, key>> \in holders => \E ts \in Int : <<d, ts>> \in sharedWith
    /\ ~canSend => holders = {}

\* Before the first key there is nothing.
NothingBeforeFirst ==
    key = NoKey => round = "none" /\ holders = {} /\ sharedWith = {}

\* The newest key is in use, or its distribution goes on.
NewestIsUsed ==
    canSend /\ key # NoKey =>
        \/ used = key
        \/ round \in {"first", "delayed"}
        \/ round = "sending" /\ hasKeyChanged

\* A distribution fits the memberships, unless another one was asked for.
RoundFits ==
    /\ round = "none" => ~again
    /\ round = "none" /\ key # NoKey =>
          /\ \A x \in sharedWith : memberships[x[1]] # 0
          /\ canSend => SharesOf(memberships) \subseteq sharedWith
    /\ round \in {"sending", "delayed"} /\ ~again => Fits(memberships, sharedWith \cup toDistributeTo)
    /\ round = "delayed" => toDistributeTo \subseteq sharedWith

KeysInv == KeysTypeOK /\ HoldersKnown /\ NothingBeforeFirst /\ NewestIsUsed /\ RoundFits

-----------------------------------------------------------------------------
(* Helpers.                                                                *)

\* Removing an element leaves a sequence over the same set.
LEMMA RemoveAtType ==
    ASSUME NEW S, NEW s \in Seq(S), NEW i \in DOMAIN s
    PROVE  RemoveAt(s, i) \in Seq(S)
<1>1. Len(s) \in Nat /\ i \in 1 .. Len(s)
  OBVIOUS
<1>2. SubSeq(s, 1, i - 1) \in Seq(S)
  <2>1. \A k \in 1 .. (i - 1) : s[k] \in S
    BY <1>1
  <2> QED
    BY <1>1, <2>1, SubSeqProperties
<1>3. SubSeq(s, i + 1, Len(s)) \in Seq(S)
  <2>1. \A k \in (i + 1) .. Len(s) : s[k] \in S
    BY <1>1
  <2> QED
    BY <1>1, <2>1, SubSeqProperties
<1> QED
  BY <1>2, <1>3, ConcatProperties DEF RemoveAt

\* The current memberships are shares: device and membership pairs.
LEMMA SharesType ==
    ASSUME NEW ms \in Memberships
    PROVE  SharesOf(ms) \in SUBSET Shares
<1>1. \A d \in Devices : ms[d] \in Int
  BY RtcKeysAssumption DEF Memberships
<1> QED
  BY <1>1 DEF SharesOf, Shares

\* A rollout shares with the members and nobody else, under the old key or a new one.
LEMMA BeginFits ==
    ASSUME NEW ms \in Memberships, NEW shared \in SUBSET Shares,
           key \in Int, old \in BOOLEAN, BeginRound(ms, shared)
    PROVE  /\ key' \in Int /\ old' \in BOOLEAN /\ hasKeyChanged' \in BOOLEAN
           /\ sharedWith' \in SUBSET Shares /\ toDistributeTo' \in SUBSET Shares
           /\ \/ key' = key /\ sharedWith' = shared /\ ~hasKeyChanged' /\ round' \in {"none", "sending"}
              \/ key' = key + 1 /\ sharedWith' = {} /\ hasKeyChanged' /\ round' = "sending"
           /\ Fits(ms, sharedWith' \cup toDistributeTo')
           /\ round' = "none" => toDistributeTo' = {}
<1> DEFINE toShareWith == SharesOf(ms)
           alreadySharedWith == {x \in shared : ms[x[1]] \in {0, x[2]}}
           anyLeft == alreadySharedWith \ toShareWith
           anyJoined == toShareWith \ alreadySharedWith
           rotate == anyLeft # {} \/ (anyJoined # {} /\ old)
<1>1. /\ key' = IF rotate THEN key + 1 ELSE key
      /\ old' = (old /\ ~rotate)
      /\ sharedWith' = IF rotate THEN {} ELSE shared
      /\ hasKeyChanged' = rotate
      /\ toDistributeTo' = IF rotate THEN toShareWith ELSE anyJoined
      /\ round' = IF rotate \/ anyJoined # {} THEN "sending" ELSE "none"
  BY DEF BeginRound
<1>2. toShareWith \in SUBSET Shares
  BY SharesType
<1>3. \A x \in toShareWith : ms[x[1]] # 0
  BY DEF SharesOf
<1>4. old' \in BOOLEAN /\ hasKeyChanged' \in BOOLEAN
  <2>1. rotate \in BOOLEAN
    OBVIOUS
  <2> QED
    BY <1>1, <2>1, Zenon
<1>5. CASE rotate
  <2>1. /\ key' = key + 1 /\ sharedWith' = {} /\ toDistributeTo' = toShareWith /\ round' = "sending"
    BY <1>1, <1>5
  <2>2. hasKeyChanged'
    BY <1>1, <1>5, Zenon
  <2>3. Fits(ms, sharedWith' \cup toDistributeTo')
    BY <2>1, <1>3 DEF Fits
  <2> QED
    BY <1>2, <1>4, <2>1, <2>2, <2>3
<1>6. CASE ~rotate
  <2>1. /\ key' = key /\ sharedWith' = shared /\ toDistributeTo' = anyJoined
        /\ round' = IF anyJoined # {} THEN "sending" ELSE "none"
    BY <1>1, <1>6
  <2>2. ~hasKeyChanged'
    BY <1>1, <1>6, Zenon
  <2>3. \A x \in shared : ms[x[1]] # 0
    <3> SUFFICES ASSUME NEW x \in shared, ms[x[1]] = 0 PROVE FALSE
      OBVIOUS
    <3>1. x \in alreadySharedWith /\ x \notin toShareWith
      BY <1>3
    <3> QED
      BY <3>1, <1>6
  <2>4. toShareWith \subseteq shared \cup anyJoined /\ anyJoined \subseteq toShareWith
    OBVIOUS
  <2>5. Fits(ms, sharedWith' \cup toDistributeTo')
    BY <1>3, <2>1, <2>3, <2>4 DEF Fits
  <2>6. round' \in {"none", "sending"} /\ (round' = "none" => toDistributeTo' = {})
    BY <2>1
  <2> QED
    BY <1>2, <1>4, <2>1, <2>2, <2>4, <2>5, <2>6
<1> QED
  BY <1>5, <1>6

\* The end of a round whose key was shared as shared.
LEMMA EndRoundKeeps ==
    ASSUME KeysTypeOK, NEW shared \in SUBSET Shares, EndRound(shared),
           key # NoKey, UNCHANGED <<memberships, canSend>>,
           canSend => used' = key,
           \A h \in holders' : h[2] <= key,
           holders' \in SUBSET (Others \X Int),
           \A d \in Others : <<d, key>> \in holders' => \E ts \in Int : <<d, ts>> \in shared,
           ~canSend => holders' = {},
           ~again => (\A x \in shared : memberships[x[1]] # 0)
                     /\ (canSend => SharesOf(memberships) \subseteq shared)
    PROVE  /\ key' \in Int /\ key' >= NoKey /\ old' \in BOOLEAN /\ hasKeyChanged' \in BOOLEAN
           /\ sharedWith' \in SUBSET Shares /\ toDistributeTo' \in SUBSET Shares
           /\ round' \in {"none", "sending"} /\ again' \in BOOLEAN
           /\ HoldersKnown' /\ NothingBeforeFirst' /\ NewestIsUsed' /\ RoundFits'
<1>1. key \in Int /\ key >= 0 /\ old \in BOOLEAN /\ hasKeyChanged \in BOOLEAN
      /\ toDistributeTo \in SUBSET Shares /\ memberships \in Memberships
      /\ canSend \in BOOLEAN
  BY DEF KeysTypeOK, NoKey
<1>2. CASE again /\ BeginRound(memberships, shared)
  <2>1. again' = FALSE /\ memberships' = memberships /\ canSend' = canSend
    BY DEF EndRound
  <2>2. /\ key' \in Int /\ old' \in BOOLEAN /\ hasKeyChanged' \in BOOLEAN
        /\ sharedWith' \in SUBSET Shares /\ toDistributeTo' \in SUBSET Shares
        /\ \/ key' = key /\ sharedWith' = shared /\ ~hasKeyChanged' /\ round' \in {"none", "sending"}
           \/ key' = key + 1 /\ sharedWith' = {} /\ hasKeyChanged' /\ round' = "sending"
        /\ Fits(memberships, sharedWith' \cup toDistributeTo')
        /\ round' = "none" => toDistributeTo' = {}
    BY <1>1, <1>2, BeginFits
  <2>3. key' >= 0 /\ key' # NoKey
    BY <1>1, <2>2 DEF NoKey
  <2>4. HoldersKnown'
    <3>1. CASE key' = key /\ sharedWith' = shared
      BY <2>1, <3>1 DEF HoldersKnown
    <3>2. CASE key' = key + 1
      <4>1. \A h \in holders' : h[2] \in Int /\ h[2] <= key
        OBVIOUS
      <4>2. \A d \in Others : <<d, key'>> \notin holders'
        BY <1>1, <3>2, <4>1
      <4>3. \A h \in holders' : h[2] <= key'
        BY <1>1, <3>2, <4>1
      <4> QED
        BY <2>1, <4>2, <4>3 DEF HoldersKnown
    <3> QED
      BY <2>2, <3>1, <3>2
  <2>5. NewestIsUsed'
    BY <2>1, <2>2 DEF NewestIsUsed
  <2>6. RoundFits'
    BY <2>1, <2>2 DEF RoundFits, Fits, SharesOf
  <2>7. NothingBeforeFirst'
    BY <2>3 DEF NothingBeforeFirst
  <2>8. key' >= NoKey /\ round' \in {"none", "sending"}
    BY <2>2, <2>3 DEF NoKey
  <2>9. again' \in BOOLEAN
    BY <2>1
  <2> QED
    BY <2>2, <2>4, <2>5, <2>6, <2>7, <2>8, <2>9
<1>3. CASE /\ ~again /\ round' = "none" /\ sharedWith' = shared
           /\ UNCHANGED <<key, old, toDistributeTo, hasKeyChanged>>
  <2>1. again' = FALSE /\ memberships' = memberships /\ canSend' = canSend
    BY DEF EndRound
  <2>2. HoldersKnown' /\ NothingBeforeFirst' /\ NewestIsUsed'
    BY <1>3, <2>1 DEF HoldersKnown, NothingBeforeFirst, NewestIsUsed
  <2>3. RoundFits'
    BY <1>3, <2>1 DEF RoundFits, SharesOf
  <2>4. /\ key' \in Int /\ key' >= NoKey /\ sharedWith' \in SUBSET Shares
        /\ toDistributeTo' \in SUBSET Shares
        /\ round' \in {"none", "sending"}
    BY <1>1, <1>3 DEF NoKey
  <2>6. again' \in BOOLEAN
    BY <2>1
  <2>5. old' \in BOOLEAN /\ hasKeyChanged' \in BOOLEAN
    BY <1>1, <1>3
  <2> QED
    BY <2>2, <2>3, <2>4, <2>5, <2>6
<1> QED
  BY <1>2, <1>3 DEF EndRound

-----------------------------------------------------------------------------
(* The steps.                                                              *)

\* The first rollout finds no key: it makes one and sends it to every member.
LEMMA FirstKeyKeeps == KeysInv /\ FirstKey => KeysInv'
<1> SUFFICES ASSUME KeysInv, FirstKey PROVE KeysInv'
  OBVIOUS
<1>1. KeysTypeOK /\ round = "first" /\ BeginRound(memberships, sharedWith)
      /\ used' = key /\ again' = (again /\ round' # "none")
      /\ UNCHANGED <<roomVars, sessionVars, canSend, holders>>
  BY DEF KeysInv, FirstKey
<1>2. key # NoKey
  BY <1>1 DEF KeysInv, NothingBeforeFirst
<1>3. /\ key' \in Int /\ old' \in BOOLEAN /\ hasKeyChanged' \in BOOLEAN
      /\ sharedWith' \in SUBSET Shares /\ toDistributeTo' \in SUBSET Shares
      /\ \/ key' = key /\ sharedWith' = sharedWith /\ ~hasKeyChanged' /\ round' \in {"none", "sending"}
         \/ key' = key + 1 /\ sharedWith' = {} /\ hasKeyChanged' /\ round' = "sending"
      /\ Fits(memberships, sharedWith' \cup toDistributeTo')
      /\ round' = "none" => toDistributeTo' = {}
  BY <1>1, BeginFits DEF KeysTypeOK
<1>4. key \in Int /\ key >= 0 /\ key' >= 0
  BY <1>1, <1>2, <1>3 DEF KeysTypeOK, NoKey
<1>5. again' \in BOOLEAN
  BY <1>1, Zenon DEF KeysTypeOK
<1>6. KeysTypeOK'
  BY <1>1, <1>3, <1>4, <1>5 DEF KeysTypeOK, roomVars, sessionVars, NoKey
<1>7. HoldersKnown'
  <2>1. CASE key' = key /\ sharedWith' = sharedWith
    BY <1>1, <2>1 DEF KeysInv, HoldersKnown
  <2>2. CASE key' = key + 1
    <3>1. \A h \in holders : h[2] \in Int /\ h[2] <= key
      BY DEF KeysInv, KeysTypeOK, HoldersKnown
    <3>2. \A d \in Others : <<d, key'>> \notin holders
      BY <1>4, <2>2, <3>1
    <3>3. \A h \in holders : h[2] <= key'
      BY <1>4, <2>2, <3>1
    <3> QED
      BY <1>1, <3>2, <3>3 DEF KeysInv, HoldersKnown
  <2> QED
    BY <1>3, <2>1, <2>2
<1>8. NothingBeforeFirst'
  BY <1>4 DEF NothingBeforeFirst, NoKey
<1>9. NewestIsUsed'
  BY <1>1, <1>3 DEF NewestIsUsed
<1>10. RoundFits'
  <2>1. memberships' = memberships /\ canSend' = canSend
    BY <1>1 DEF sessionVars
  <2>2. round' = "none" => ~again'
    BY <1>1
  <2> QED
    BY <1>3, <2>1, <2>2 DEF RoundFits, Fits, SharesOf
<1> QED
  BY <1>6, <1>7, <1>8, <1>9, <1>10 DEF KeysInv

\* A send that the homeserver or the transport refuses ends the round with nobody new.
LEMMA NotSupportedKeeps == KeysInv /\ NotSupported => KeysInv'
<1> SUFFICES ASSUME KeysInv, NotSupported PROVE KeysInv'
  OBVIOUS
<1>1. /\ KeysTypeOK /\ round = "sending" /\ ~canSend /\ EndRound(sharedWith)
      /\ UNCHANGED <<roomVars, sessionVars, canSend, used, holders>>
  BY DEF KeysInv, NotSupported
<1>2. key # NoKey
  BY <1>1 DEF KeysInv, NothingBeforeFirst
<1>3. ~again => \A x \in sharedWith : memberships[x[1]] # 0
  BY <1>1 DEF KeysInv, RoundFits, Fits
<1>4. sharedWith \in SUBSET Shares /\ holders \in SUBSET (Others \X Int)
  BY <1>1 DEF KeysTypeOK
<1>5. /\ \A h \in holders : h[2] <= key
      /\ \A d \in Others : <<d, key>> \in holders => \E ts \in Int : <<d, ts>> \in sharedWith
      /\ holders = {}
  BY <1>1 DEF KeysInv, HoldersKnown
<1>6. /\ key' \in Int /\ key' >= NoKey /\ old' \in BOOLEAN /\ hasKeyChanged' \in BOOLEAN
      /\ sharedWith' \in SUBSET Shares /\ toDistributeTo' \in SUBSET Shares
      /\ round' \in {"none", "sending"} /\ again' \in BOOLEAN
      /\ HoldersKnown' /\ NothingBeforeFirst' /\ NewestIsUsed' /\ RoundFits'
  BY <1>1, <1>2, <1>3, <1>4, <1>5, EndRoundKeeps DEF sessionVars
<1>7. KeysTypeOK'
  BY <1>1, <1>6 DEF KeysTypeOK, roomVars, sessionVars
<1> QED
  BY <1>6, <1>7 DEF KeysInv

\* After the makeKeyDelay the newest key is the one that encrypts, and all its holders are members.
LEMMA DelayedKeeps == KeysInv /\ Delayed => KeysInv'
<1> SUFFICES ASSUME KeysInv, Delayed PROVE KeysInv'
  OBVIOUS
<1>1. /\ KeysTypeOK /\ round = "delayed" /\ EndRound(sharedWith) /\ used' = key
      /\ UNCHANGED <<roomVars, sessionVars, canSend, holders>>
  BY DEF KeysInv, Delayed
<1>2. key # NoKey
  BY <1>1 DEF KeysInv, NothingBeforeFirst
<1>3. ~again => Fits(memberships, sharedWith)
  <2>1. toDistributeTo \subseteq sharedWith
    BY <1>1 DEF KeysInv, RoundFits
  <2>2. sharedWith \cup toDistributeTo = sharedWith
    BY <2>1
  <2> QED
    BY <1>1, <2>2 DEF KeysInv, RoundFits
<1>4. sharedWith \in SUBSET Shares /\ holders \in SUBSET (Others \X Int)
  BY <1>1 DEF KeysTypeOK
<1>5. /\ \A h \in holders : h[2] <= key
      /\ \A d \in Others : <<d, key>> \in holders => \E ts \in Int : <<d, ts>> \in sharedWith
      /\ ~canSend => holders = {}
  BY DEF KeysInv, HoldersKnown
<1>6. /\ key' \in Int /\ key' >= NoKey /\ old' \in BOOLEAN /\ hasKeyChanged' \in BOOLEAN
      /\ sharedWith' \in SUBSET Shares /\ toDistributeTo' \in SUBSET Shares
      /\ round' \in {"none", "sending"} /\ again' \in BOOLEAN
      /\ HoldersKnown' /\ NothingBeforeFirst' /\ NewestIsUsed' /\ RoundFits'
  BY <1>1, <1>2, <1>3, <1>4, <1>5, EndRoundKeeps DEF sessionVars, Fits
<1>7. KeysTypeOK'
  BY <1>1, <1>6 DEF KeysTypeOK, roomVars, sessionVars
<1> QED
  BY <1>6, <1>7 DEF KeysInv

\* A step that leaves the key, its distribution and the memberships alone.
LEMMA OthersKeep ==
    ASSUME KeysInv, KeysTypeOK',
           UNCHANGED <<memberships, canSend, key, sharedWith, round, toDistributeTo,
                       hasKeyChanged, again, used, holders>>
    PROVE  KeysInv'
<1>1. HoldersKnown' /\ NothingBeforeFirst'
  BY DEF KeysInv, HoldersKnown, NothingBeforeFirst
<1>2. NewestIsUsed'
  BY DEF KeysInv, NewestIsUsed
<1>3. RoundFits'
  BY DEF KeysInv, RoundFits, Fits, SharesOf
<1> QED
  BY <1>1, <1>2, <1>3 DEF KeysInv

\* A send that arrives adds holders of the key of that round, and may start the next round.
LEMMA KeySentKeeps == KeysInv /\ KeySent => KeysInv'
<1> SUFFICES ASSUME KeysInv, KeySent PROVE KeysInv'
  OBVIOUS
<1> DEFINE shared == sharedWith \cup toDistributeTo
<1>1. KeysTypeOK /\ round = "sending" /\ (canSend \/ Targets = {})
      /\ UNCHANGED <<room, changes, memberships, calculations, canSend, used>>
  BY DEF KeysInv, KeySent, roomVars, sessionVars
<1>2. PICK got \in SUBSET Targets : holders' = holders \cup (got \X {key})
  BY DEF KeySent
<1>3. key # NoKey
  BY <1>1 DEF KeysInv, NothingBeforeFirst
<1>4. key \in Int /\ key >= NoKey /\ shared \in SUBSET Shares
  BY <1>1 DEF KeysTypeOK
<1>5. Targets \subseteq Others /\ \A d \in Targets : \E ts \in Int : <<d, ts>> \in toDistributeTo
  <2>1. \A x \in toDistributeTo : x[1] \in Devices /\ x[2] \in Int /\ x = <<x[1], x[2]>>
    BY <1>1 DEF KeysTypeOK, Shares
  <2> QED
    BY <2>1 DEF Targets, Devices
<1>6. holders' \in SUBSET (Others \X Int) /\ \A h \in holders' : h[2] <= key
  BY <1>1, <1>2, <1>4, <1>5 DEF KeysTypeOK, KeysInv, HoldersKnown
<1>7. \A d \in Others : <<d, key>> \in holders' => \E ts \in Int : <<d, ts>> \in shared
  <2> SUFFICES ASSUME NEW d \in Others, <<d, key>> \in holders' PROVE \E ts \in Int : <<d, ts>> \in shared
    OBVIOUS
  <2>1. CASE <<d, key>> \in holders
    BY <2>1 DEF KeysInv, HoldersKnown
  <2>2. CASE d \in got
    BY <2>2, <1>2, <1>5
  <2> QED
    BY <1>2, <2>1, <2>2
<1>8. ~canSend => holders' = {}
  BY <1>1, <1>2 DEF KeysInv, HoldersKnown
<1>9. ~again => Fits(memberships, shared)
  BY <1>1 DEF KeysInv, RoundFits
<1>10. CASE /\ hasKeyChanged /\ round' = "delayed" /\ sharedWith' = shared
            /\ UNCHANGED <<key, old, toDistributeTo, hasKeyChanged, again>>
  <2>1. KeysTypeOK'
    BY <1>1, <1>4, <1>6, <1>10 DEF KeysTypeOK
  <2>2. HoldersKnown'
    BY <1>1, <1>6, <1>7, <1>8, <1>10 DEF HoldersKnown
  <2>3. NothingBeforeFirst' /\ NewestIsUsed'
    BY <1>3, <1>10 DEF NothingBeforeFirst, NewestIsUsed
  <2>4. RoundFits'
    <3>1. sharedWith' \cup toDistributeTo' = shared /\ toDistributeTo' \subseteq sharedWith'
      BY <1>10
    <3>2. ~again' => Fits(memberships', sharedWith' \cup toDistributeTo')
      BY <1>1, <1>9, <1>10, <3>1
    <3> QED
      BY <1>10, <3>1, <3>2 DEF RoundFits
  <2> QED
    BY <2>1, <2>2, <2>3, <2>4 DEF KeysInv
<1>11. CASE ~hasKeyChanged /\ EndRound(shared)
  <2>1. canSend => used' = key
    BY <1>1, <1>3, <1>11 DEF KeysInv, NewestIsUsed
  <2>2. ~again => (\A x \in shared : memberships[x[1]] # 0)
                  /\ (canSend => SharesOf(memberships) \subseteq shared)
    BY <1>9 DEF Fits
  <2>3. /\ key' \in Int /\ key' >= NoKey /\ old' \in BOOLEAN /\ hasKeyChanged' \in BOOLEAN
        /\ sharedWith' \in SUBSET Shares /\ toDistributeTo' \in SUBSET Shares
        /\ round' \in {"none", "sending"} /\ again' \in BOOLEAN
        /\ HoldersKnown' /\ NothingBeforeFirst' /\ NewestIsUsed' /\ RoundFits'
    <3> HIDE DEF shared
    <3> QED
      BY <1>1, <1>3, <1>4, <1>6, <1>7, <1>8, <1>11, <2>1, <2>2, EndRoundKeeps
  <2>4. KeysTypeOK'
    BY <1>1, <1>6, <2>3 DEF KeysTypeOK
  <2> QED
    BY <2>3, <2>4 DEF KeysInv
<1> QED
  BY <1>10, <1>11 DEF KeySent

\* An element of a sequence over S is in S.
LEMMA ElementType ==
    ASSUME NEW S, NEW s \in Seq(S), NEW i \in DOMAIN s PROVE s[i] \in S
  OBVIOUS

\* Memberships that were calculated are compared with those the key was shared with.
LEMMA RecalculatedKeeps == KeysInv /\ Recalculated => KeysInv'
<1> SUFFICES ASSUME KeysInv, Recalculated PROVE KeysInv'
  OBVIOUS
<1>1. PICK i \in DOMAIN calculations :
        /\ calculations' = RemoveAt(calculations, i)
        /\ memberships' = calculations[i].read
        /\ EnsureKeyDistribution(memberships')
        /\ UNCHANGED <<room, changes, canSend, used, holders>>
  BY DEF Recalculated, roomVars
<1>2. KeysTypeOK
  BY DEF KeysInv
<1>3. memberships' \in Memberships
  <2>1. calculations[i] \in [chained : BOOLEAN, read : Memberships]
    <3>1. calculations \in Seq([chained : BOOLEAN, read : Memberships])
      BY <1>2 DEF KeysTypeOK
    <3> QED
      BY <3>1, ElementType
  <2> QED
    BY <1>1, <2>1
<1>4. calculations' \in Seq([chained : BOOLEAN, read : Memberships])
  <2>1. RemoveAt(calculations, i) \in Seq([chained : BOOLEAN, read : Memberships])
    BY <1>2, RemoveAtType DEF KeysTypeOK
  <2> QED
    BY <1>1, <2>1
<1>5. CASE /\ round = "none" /\ key = NoKey
           /\ key' = 0 /\ round' = "first"
           /\ UNCHANGED <<old, sharedWith, toDistributeTo, hasKeyChanged, again>>
  <2>1. KeysTypeOK'
    BY <1>1, <1>2, <1>3, <1>4, <1>5 DEF KeysTypeOK, NoKey
  <2>2. HoldersKnown' /\ NothingBeforeFirst'
    BY <1>1, <1>5 DEF KeysInv, HoldersKnown, NothingBeforeFirst, NoKey
  <2>3. NewestIsUsed' /\ RoundFits'
    BY <1>5 DEF NewestIsUsed, RoundFits
  <2> QED
    BY <2>1, <2>2, <2>3 DEF KeysInv
<1>6. CASE round = "none" /\ key # NoKey /\ BeginRound(memberships', sharedWith) /\ UNCHANGED again
  <2>1. /\ key' \in Int /\ old' \in BOOLEAN /\ hasKeyChanged' \in BOOLEAN
        /\ sharedWith' \in SUBSET Shares /\ toDistributeTo' \in SUBSET Shares
        /\ \/ key' = key /\ sharedWith' = sharedWith /\ ~hasKeyChanged' /\ round' \in {"none", "sending"}
           \/ key' = key + 1 /\ sharedWith' = {} /\ hasKeyChanged' /\ round' = "sending"
        /\ Fits(memberships', sharedWith' \cup toDistributeTo')
        /\ round' = "none" => toDistributeTo' = {}
    <3>1. key \in Int /\ old \in BOOLEAN /\ sharedWith \in SUBSET Shares /\ BeginRound(memberships', sharedWith)
      BY <1>2, <1>6 DEF KeysTypeOK
    <3> DEFINE ms == memberships'
    <3>2. ms \in Memberships /\ BeginRound(ms, sharedWith)
      BY <1>3, <3>1
    <3> HIDE DEF ms
    <3>3. Fits(ms, sharedWith' \cup toDistributeTo')
      BY <3>1, <3>2, BeginFits
    <3>4. /\ key' \in Int /\ old' \in BOOLEAN /\ hasKeyChanged' \in BOOLEAN
          /\ sharedWith' \in SUBSET Shares /\ toDistributeTo' \in SUBSET Shares
          /\ \/ key' = key /\ sharedWith' = sharedWith /\ ~hasKeyChanged' /\ round' \in {"none", "sending"}
             \/ key' = key + 1 /\ sharedWith' = {} /\ hasKeyChanged' /\ round' = "sending"
          /\ round' = "none" => toDistributeTo' = {}
      BY <3>1, <3>2, BeginFits
    <3> QED
      BY <3>3, <3>4 DEF ms
  <2>2. key \in Int /\ key >= 0 /\ key' >= 0
    BY <1>2, <1>6, <2>1 DEF KeysTypeOK, NoKey
  <2>3. KeysTypeOK'
    BY <1>1, <1>2, <1>3, <1>4, <1>6, <2>1, <2>2 DEF KeysTypeOK, NoKey
  <2>4. HoldersKnown'
    <3>1. CASE key' = key /\ sharedWith' = sharedWith
      BY <1>1, <3>1 DEF KeysInv, HoldersKnown
    <3>2. CASE key' = key + 1
      <4>1. \A h \in holders : h[2] \in Int /\ h[2] <= key
        BY <1>2 DEF KeysInv, KeysTypeOK, HoldersKnown
      <4>2. \A d \in Others : <<d, key'>> \notin holders
        BY <2>2, <3>2, <4>1
      <4>3. \A h \in holders : h[2] <= key'
        BY <2>2, <3>2, <4>1
      <4> QED
        BY <1>1, <4>2, <4>3 DEF KeysInv, HoldersKnown
    <3> QED
      BY <2>1, <3>1, <3>2
  <2>5. NothingBeforeFirst'
    BY <2>2 DEF NothingBeforeFirst, NoKey
  <2>6. NewestIsUsed'
    <3>1. canSend => used = key
      BY <1>6 DEF KeysInv, NewestIsUsed
    <3> QED
      BY <1>1, <2>1, <3>1 DEF NewestIsUsed
  <2>7. RoundFits'
    <3>1. ~again'
      BY <1>6 DEF KeysInv, RoundFits
    <3> QED
      BY <2>1, <3>1 DEF RoundFits, Fits
  <2> QED
    BY <2>3, <2>4, <2>5, <2>6, <2>7 DEF KeysInv
<1>7. CASE /\ round # "none" /\ again' = TRUE
           /\ UNCHANGED <<key, old, sharedWith, round, toDistributeTo, hasKeyChanged>>
  <2>1. KeysTypeOK'
    BY <1>1, <1>2, <1>3, <1>4, <1>7 DEF KeysTypeOK
  <2>2. HoldersKnown' /\ NothingBeforeFirst' /\ NewestIsUsed'
    BY <1>1, <1>7 DEF KeysInv, HoldersKnown, NothingBeforeFirst, NewestIsUsed
  <2>3. RoundFits'
    BY <1>7 DEF KeysInv, RoundFits
  <2> QED
    BY <2>1, <2>2, <2>3 DEF KeysInv
<1> QED
  BY <1>1, <1>5, <1>6, <1>7 DEF EnsureKeyDistribution

\* Starting a calculation only lengthens the calculations under way.
LEMMA StartKeepsType ==
    ASSUME NEW ms \in Memberships, NEW b \in BOOLEAN, StartRecalculation(b, ms),
           calculations \in Seq([chained : BOOLEAN, read : Memberships])
    PROVE  calculations' \in Seq([chained : BOOLEAN, read : Memberships])
BY DEF StartRecalculation

\* A change of the room waits for its calculation; the key is as it was.
LEMMA ChangeKeeps == ASSUME KeysInv, NEW d \in Devices, Change(d) PROVE KeysInv'
<1>1. KeysTypeOK
  BY DEF KeysInv
<1>2. changes < MaxChanges /\ changes' = changes + 1
      /\ UNCHANGED <<memberships, canSend, roundVars, used, holders>>
  BY DEF Change
<1>3. PICK ts \in {0, changes'} : room' = [room EXCEPT ![d] = ts]
  BY DEF Change
<1>4. changes' \in 0 .. MaxChanges /\ 0 \in 0 .. MaxChanges
  BY <1>1, <1>2, RtcKeysAssumption DEF KeysTypeOK
<1>5. room' \in Memberships
  BY <1>1, <1>3, <1>4 DEF KeysTypeOK, Memberships
<1>6. calculations' \in Seq([chained : BOOLEAN, read : Memberships])
  <2>1. CASE StartRecalculation(FALSE, room')
    BY <1>1, <1>5, <2>1 DEF StartRecalculation, KeysTypeOK
  <2>2. CASE EnsureRecalculate
    BY <1>1, <2>2 DEF EnsureRecalculate, KeysTypeOK
  <2> QED
    BY <2>1, <2>2 DEF Change
<1>7. KeysTypeOK'
  BY <1>1, <1>2, <1>4, <1>5, <1>6 DEF KeysTypeOK, roundVars
<1> QED
  BY <1>2, <1>7, OthersKeep DEF roundVars

\* The next calculation of the chain reads the room as it is now.
LEMMA ChainStartsKeeps == KeysInv /\ ChainStarts => KeysInv'
<1> SUFFICES ASSUME KeysInv, ChainStarts PROVE KeysInv'
  OBVIOUS
<1>1. KeysTypeOK /\ StartRecalculation(TRUE, room)
      /\ UNCHANGED <<roomVars, memberships, canSend, roundVars, used, holders>>
  BY DEF KeysInv, ChainStarts
<1>2. calculations' \in Seq([chained : BOOLEAN, read : Memberships])
  BY <1>1, StartKeepsType DEF KeysTypeOK
<1>3. KeysTypeOK'
  BY <1>1, <1>2 DEF KeysTypeOK, roomVars, roundVars
<1> QED
  BY <1>1, <1>3, OthersKeep DEF roundVars

\* A key that turns old is replaced at the next join, not before.
LEMMA AgeKeeps == KeysInv /\ Age => KeysInv'
<1> SUFFICES ASSUME KeysInv, Age PROVE KeysInv'
  OBVIOUS
<1>1. KeysTypeOK /\ old' = TRUE
      /\ UNCHANGED <<roomVars, sessionVars, canSend, key, sharedWith, round, toDistributeTo,
                     hasKeyChanged, again, used, holders>>
  BY DEF KeysInv, Age
<1>2. KeysTypeOK'
  BY <1>1 DEF KeysTypeOK, roomVars, sessionVars
<1> QED
  BY <1>1, <1>2, OthersKeep DEF sessionVars

\* What we receive of others' keys has no part in what becomes of ours.
LEMMA InboundKeeps ==
    ASSUME KeysInv, UNCHANGED <<roomVars, sessionVars, canSend, roundVars, used, holders>>
    PROVE  KeysInv'
<1>1. KeysTypeOK'
  BY DEF KeysInv, KeysTypeOK, roomVars, sessionVars, roundVars
<1> QED
  BY <1>1, OthersKeep DEF sessionVars, roundVars

-----------------------------------------------------------------------------
(* The invariant.                                                          *)

\* Nothing was shared yet.
LEMMA KeysInvInit == KeysInit => KeysInv
<1> SUFFICES ASSUME KeysInit PROVE KeysInv
  OBVIOUS
<1>1. room \in Memberships /\ memberships \in Memberships
  BY RtcKeysAssumption DEF KeysInit, Memberships
<1>2. canSend \in BOOLEAN
  BY RtcKeysAssumption DEF KeysInit
<1>3. KeysTypeOK
  <2>1. old \in BOOLEAN /\ hasKeyChanged \in BOOLEAN /\ again \in BOOLEAN
    BY Zenon DEF KeysInit
  <2>2. calculations \in Seq([chained : BOOLEAN, read : Memberships])
    BY DEF KeysInit
  <2>3. changes \in 0..MaxChanges /\ key \in Int /\ key >= NoKey
    BY RtcKeysAssumption DEF KeysInit, NoKey
  <2>4. /\ sharedWith \in SUBSET Shares /\ toDistributeTo \in SUBSET Shares
        /\ round \in {"none", "first", "sending", "delayed"}
        /\ holders \in SUBSET (Others \X Int)
    BY DEF KeysInit
  <2> QED
    BY <1>1, <1>2, <2>1, <2>2, <2>3, <2>4 DEF KeysTypeOK
<1>4. HoldersKnown /\ NothingBeforeFirst /\ NewestIsUsed
  BY DEF KeysInit, HoldersKnown, NothingBeforeFirst, NewestIsUsed
<1>5. RoundFits
  BY DEF KeysInit, RoundFits
<1> QED
  BY <1>3, <1>4, <1>5 DEF KeysInv

\* Every step keeps the invariant.
LEMMA KeysStep == KeysInv /\ [KeysNext]_keysVars => KeysInv'
<1> SUFFICES ASSUME KeysInv, [KeysNext]_keysVars PROVE KeysInv'
  OBVIOUS
<1>1. CASE FirstKey
  BY <1>1, FirstKeyKeeps
<1>2. CASE KeySent
  BY <1>2, KeySentKeeps
<1>3. CASE NotSupported
  BY <1>3, NotSupportedKeeps
<1>4. CASE Delayed
  BY <1>4, DelayedKeeps
<1>5. CASE Age
  BY <1>5, AgeKeeps
<1>6. ASSUME NEW d \in Others, ReceiveKey(d) PROVE KeysInv'
  BY <1>6, InboundKeeps DEF ReceiveKey
<1>7. ASSUME NEW d \in Devices, Change(d) PROVE KeysInv'
  BY <1>7, ChangeKeeps
<1>8. CASE ChainStarts
  BY <1>8, ChainStartsKeeps
<1>9. CASE Recalculated
  BY <1>9, RecalculatedKeeps
<1>10. CASE UNCHANGED keysVars
  BY <1>10, InboundKeeps DEF keysVars
<1> QED
  BY <1>1, <1>2, <1>3, <1>4, <1>5, <1>6, <1>7, <1>8, <1>9, <1>10 DEF KeysNext

\* The invariant holds in every reachable state, for any participants.
THEOREM KeysInvariant == KeysSpec => []KeysInv
BY KeysInvInit, KeysStep, PTL DEF KeysSpec

\* Once no distribution is going on, whoever is not in the call does not hold the
\* key our media is encrypted with.
THEOREM LeaversAreShutOut == KeysSpec => []LeaverCannotHear
<1>1. KeysInv => LeaverCannotHear
  <2> SUFFICES ASSUME KeysInv, round = "none", NEW d \in Others, memberships[d] = 0,
                      <<d, used>> \in holders
               PROVE  FALSE
    BY DEF LeaverCannotHear
  <2>1. canSend /\ key # NoKey
    BY DEF KeysInv, HoldersKnown, NothingBeforeFirst
  <2>2. used = key
    BY <2>1 DEF KeysInv, NewestIsUsed
  <2>3. PICK ts \in Int : <<d, ts>> \in sharedWith
    BY <2>2 DEF KeysInv, HoldersKnown
  <2>4. memberships[<<d, ts>>[1]] # 0
    BY <2>1, <2>3 DEF KeysInv, RoundFits
  <2> QED
    BY <2>4
<1> QED
  BY <1>1, KeysInvariant, PTL

\* ... and every member was sent that key.
THEOREM MembersAreServed == KeysSpec => []MembersGetKey
<1>1. KeysInv => MembersGetKey
  BY DEF KeysInv, NewestIsUsed, RoundFits, MembersGetKey
<1> QED
  BY <1>1, KeysInvariant, PTL

-----------------------------------------------------------------------------
(* The keys of others.                                                     *)

\* A key that is kept for later is of nobody who is a member, and the last key of
\* everybody is handed over or kept.
EarlyInv ==
    /\ memberships \in Memberships
    /\ calculations \in Seq([chained : BOOLEAN, read : Memberships])
    /\ early \in Seq(Others \X Int) /\ received \in Int
    /\ handed \in [Others -> Int] /\ lastReceived \in [Others -> Int]
    /\ \A d \in Others : lastReceived[d] <= received
    /\ \A k \in ToSet(early) : memberships[k[1]] = 0 /\ k[2] <= lastReceived[k[1]]
    /\ \A i, j \in 1..Len(early) : i < j => early[i][2] < early[j][2]
    /\ \A d \in Others :
          \/ <<d, lastReceived[d]>> \in ToSet(early)
          \/ handed[d] = lastReceived[d] /\ \A k \in ToSet(early) : k[1] # d

\* Pairs of keys in the order of their numbers.
Ascending == {p \in (Others \X Int) \X (Others \X Int) : p[1][2] < p[2][2]}

\* Entries that are taken out of kept keys leave the others in their order.
LEMMA KeysInOrder ==
    ASSUME NEW keys \in Seq(Others \X Int), NEW S,
           \A i, j \in 1..Len(keys) : i < j => keys[i][2] < keys[j][2]
    PROVE  /\ Without(keys, S) \in Seq(Others \X Int)
           /\ ToSet(Without(keys, S)) = ToSet(keys) \ S
           /\ \A i, j \in 1..Len(Without(keys, S)) :
                i < j => Without(keys, S)[i][2] < Without(keys, S)[j][2]
<1>1. Without(keys, S) \in Seq(Others \X Int) /\ ToSet(Without(keys, S)) = ToSet(keys) \ S
  BY WithoutEntries
<1>2. \A i, j \in 1..Len(keys) : i < j => <<keys[i], keys[j]>> \in Ascending
  <2>1. \A i \in 1..Len(keys) : keys[i] \in Others \X Int
    OBVIOUS
  <2> QED
    BY <2>1 DEF Ascending
<1>3. \A i, j \in 1..Len(Without(keys, S)) :
        i < j => <<Without(keys, S)[i], Without(keys, S)[j]>> \in Ascending
  BY <1>2, WithoutOrder
<1> QED
  BY <1>1, <1>3 DEF Ascending

\* The last key of a device is the newest of those that are kept.
LEMMA LastKey ==
    ASSUME NEW keys \in Seq(Others \X Int), NEW d \in Others, NEW n \in Int,
           <<d, n>> \in ToSet(keys), \A k \in ToSet(keys) : k[1] = d => k[2] <= n,
           \A i, j \in 1..Len(keys) : i < j => keys[i][2] < keys[j][2]
    PROVE  KeysOf(d, keys) # <<>> /\ Last(KeysOf(d, keys))[2] = n
<1> DEFINE w == KeysOf(d, keys)
           S == {k \in ToSet(keys) : k[1] # d}
<1>1. /\ w \in Seq(Others \X Int) /\ ToSet(w) = ToSet(keys) \ S
      /\ \A i, j \in 1..Len(w) : i < j => w[i][2] < w[j][2]
  BY KeysInOrder DEF KeysOf
<1> HIDE DEF w
<1>2. <<d, n>> \in ToSet(w)
  BY <1>1
<1>3. PICK i \in 1..Len(w) : w[i] = <<d, n>>
  <2>1. w \in Seq(Others \X Int)
    BY <1>1
  <2>2. DOMAIN w = 1..Len(w)
    BY <2>1
  <2> QED
    BY <1>2, <2>2 DEF ToSet
<1>4. Len(w) \in Nat /\ Len(w) \in 1..Len(w) /\ w # <<>>
  BY <1>1, <1>3
<1>5. w[Len(w)] \in ToSet(w) /\ w[Len(w)] \in Others \X Int
  BY <1>1, <1>4 DEF ToSet
<1>6. w[Len(w)][2] <= n /\ w[Len(w)][2] \in Int
  BY <1>1, <1>5
<1>7. i = Len(w)
  <2> SUFFICES ASSUME i < Len(w) PROVE FALSE
    BY <1>4
  <2>1. w[i][2] < w[Len(w)][2]
    BY <1>1, <1>4
  <2>2. w[i][2] = n
    BY <1>3
  <2> QED
    BY <1>6, <2>1, <2>2
<1> QED
  BY <1>3, <1>4, <1>7 DEF Last, w

\* Nobody of whom no key is kept is handed one.
LEMMA NoKeyOf ==
    ASSUME NEW keys \in Seq(Others \X Int), NEW d \in Others,
           \A k \in ToSet(keys) : k[1] # d
    PROVE  KeysOf(d, keys) = <<>>
<1> DEFINE w == KeysOf(d, keys)
<1>1. w \in Seq(Others \X Int) /\ ToSet(w) = {}
  BY WithoutEntries DEF KeysOf
<1> HIDE DEF w
<1>2. ~(1 \in 1..Len(w))
  <2>1. DOMAIN w = 1..Len(w)
    BY <1>1
  <2> QED
    BY <1>1, <2>1 DEF ToSet
<1>3. w = <<>>
  BY <1>1, <1>2
<1> QED
  BY <1>3 DEF w

\* When the memberships change, members get the keys that were kept for them.
LEMMA HandOverKeeps ==
    ASSUME EarlyInv, NEW ms \in Memberships, memberships' = ms,
           calculations' \in Seq([chained : BOOLEAN, read : Memberships]),
           HandOver(early, ms), UNCHANGED <<lastReceived, received>>
    PROVE  EarlyInv'
<1> DEFINE S == {k \in ToSet(early) : ms[k[1]] # 0}
<1>1. /\ early' = Without(early, S)
      /\ handed' = [d \in Others |->
             IF ms[d] # 0 /\ KeysOf(d, early) # <<>> THEN Last(KeysOf(d, early))[2] ELSE handed[d]]
  BY DEF HandOver
<1>2. /\ early \in Seq(Others \X Int) /\ handed \in [Others -> Int]
      /\ lastReceived \in [Others -> Int] /\ received \in Int
      /\ \A d \in Others : lastReceived[d] <= received
      /\ \A k \in ToSet(early) : k[2] <= lastReceived[k[1]]
      /\ \A i, j \in 1..Len(early) : i < j => early[i][2] < early[j][2]
      /\ \A d \in Others :
            \/ <<d, lastReceived[d]>> \in ToSet(early)
            \/ handed[d] = lastReceived[d] /\ \A k \in ToSet(early) : k[1] # d
  BY DEF EarlyInv
<1>3. /\ early' \in Seq(Others \X Int) /\ ToSet(early') = ToSet(early) \ S
      /\ \A i, j \in 1..Len(early') : i < j => early'[i][2] < early'[j][2]
  BY <1>1, <1>2, KeysInOrder
<1>4. \A k \in ToSet(early') : ms[k[1]] = 0 /\ k[2] <= lastReceived[k[1]]
  BY <1>2, <1>3
<1>5. ASSUME NEW d \in Others
      PROVE  /\ handed'[d] \in Int
             /\ \/ <<d, lastReceived[d]>> \in ToSet(early')
                \/ handed'[d] = lastReceived[d] /\ \A k \in ToSet(early') : k[1] # d
  <2>1. lastReceived[d] \in Int /\ handed[d] \in Int
    BY <1>2
  <2>2. handed'[d] = IF ms[d] # 0 /\ KeysOf(d, early) # <<>> THEN Last(KeysOf(d, early))[2]
                     ELSE handed[d]
    BY <1>1
  <2>3. CASE <<d, lastReceived[d]>> \in ToSet(early)
    <3>1. KeysOf(d, early) # <<>> /\ Last(KeysOf(d, early))[2] = lastReceived[d]
      <4>1. \A k \in ToSet(early) : k[1] = d => k[2] <= lastReceived[d]
        BY <1>2
      <4>2. early \in Seq(Others \X Int) /\ \A i, j \in 1..Len(early) : i < j => early[i][2] < early[j][2]
        BY <1>2
      <4>3. ASSUME NEW n \in Int, n = lastReceived[d]
            PROVE  KeysOf(d, early) # <<>> /\ Last(KeysOf(d, early))[2] = n
        <5>1. <<d, n>> \in ToSet(early) /\ \A k \in ToSet(early) : k[1] = d => k[2] <= n
          BY <2>3, <4>1, <4>3
        <5> QED
          BY <4>2, <5>1, LastKey
      <4> QED
        BY <2>1, <4>3
    <3>2. CASE ms[d] = 0
      BY <1>3, <2>1, <2>2, <2>3, <3>2
    <3>3. CASE ms[d] # 0
      <4>1. handed'[d] = lastReceived[d]
        BY <2>2, <3>1, <3>3
      <4>2. \A k \in ToSet(early') : k[1] # d
        BY <1>4, <3>3
      <4> QED
        BY <2>1, <4>1, <4>2
    <3> QED
      BY <3>2, <3>3
  <2>4. CASE <<d, lastReceived[d]>> \notin ToSet(early)
    <3>1. handed[d] = lastReceived[d] /\ \A k \in ToSet(early) : k[1] # d
      BY <1>2, <2>4
    <3>2. KeysOf(d, early) = <<>>
      BY <1>2, <3>1, NoKeyOf
    <3>3. \A k \in ToSet(early') : k[1] # d
      BY <1>3, <3>1
    <3> QED
      BY <2>1, <2>2, <3>1, <3>2, <3>3
  <2> QED
    BY <2>3, <2>4
<1>6. handed' \in [Others -> Int]
  BY <1>1, <1>5
<1> QED
  BY <1>2, <1>3, <1>4, <1>5, <1>6 DEF EarlyInv

\* A key is handed over, or kept if its sender is not a member yet.
LEMMA ReceiveKeyKeeps ==
    ASSUME EarlyInv, NEW d \in Others, ReceiveKey(d)
    PROVE  EarlyInv'
<1>1. /\ early \in Seq(Others \X Int) /\ handed \in [Others -> Int]
      /\ lastReceived \in [Others -> Int] /\ received \in Int
      /\ \A e \in Others : lastReceived[e] <= received
      /\ \A k \in ToSet(early) : memberships[k[1]] = 0 /\ k[2] <= lastReceived[k[1]]
      /\ \A i, j \in 1..Len(early) : i < j => early[i][2] < early[j][2]
      /\ \A e \in Others :
            \/ <<e, lastReceived[e]>> \in ToSet(early)
            \/ handed[e] = lastReceived[e] /\ \A k \in ToSet(early) : k[1] # e
  BY DEF EarlyInv
<1>2. /\ received' = received + 1
      /\ lastReceived' = [lastReceived EXCEPT ![d] = received']
      /\ memberships' = memberships /\ calculations' = calculations
  BY DEF ReceiveKey, sessionVars
<1>3. /\ lastReceived' \in [Others -> Int] /\ received' \in Int
      /\ \A e \in Others : lastReceived'[e] = IF e = d THEN received + 1 ELSE lastReceived[e]
      /\ \A e \in Others : lastReceived'[e] <= received'
  BY <1>1, <1>2
<1>4. \A k \in ToSet(early) : k \in Others \X Int /\ k[2] <= received
  <2>1. ToSet(early) \subseteq Others \X Int
    BY <1>1, QueueInSet
  <2> QED
    BY <1>1, <2>1
<1>5. CASE memberships[d] # 0
  <2>1. handed' = [handed EXCEPT ![d] = received'] /\ early' = early
    BY <1>5 DEF ReceiveKey
  <2>2. handed' \in [Others -> Int]
    BY <1>1, <1>3, <2>1
  <2>3. \A k \in ToSet(early) : k[1] # d
    BY <1>1, <1>5
  <2>4. \A k \in ToSet(early) : k[2] <= lastReceived'[k[1]]
    BY <1>1, <1>3, <1>4, <2>3
  <2>5. ASSUME NEW e \in Others
        PROVE  \/ <<e, lastReceived'[e]>> \in ToSet(early)
               \/ handed'[e] = lastReceived'[e] /\ \A k \in ToSet(early) : k[1] # e
    <3>1. CASE e = d
      BY <1>1, <1>2, <1>3, <2>1, <2>3, <3>1
    <3>2. CASE e # d
      BY <1>1, <1>3, <2>1, <3>2
    <3> QED
      BY <3>1, <3>2
  <2> QED
    BY <1>1, <1>2, <1>3, <2>1, <2>2, <2>4, <2>5 DEF EarlyInv
<1>6. CASE memberships[d] = 0
  <2> DEFINE n == <<d, received + 1>>
  <2>1. early' = Append(early, n) /\ handed' = handed
    BY <1>2, <1>6 DEF ReceiveKey
  <2>2. n \in Others \X Int
    BY <1>1
  <2>3. early' \in Seq(Others \X Int) /\ ToSet(early') = ToSet(early) \cup {n}
    <3>1. early \in Seq(Others \X Int)
      BY <1>1
    <3> HIDE DEF n
    <3> QED
      BY <2>1, <2>2, <3>1, AppendToQueue
  <2>4. \A k \in ToSet(early') : memberships[k[1]] = 0 /\ k[2] <= lastReceived'[k[1]]
    <3>1. ASSUME NEW k \in ToSet(early)
          PROVE  memberships[k[1]] = 0 /\ k[2] <= lastReceived'[k[1]]
      <4>1. k[1] \in Others /\ k[2] \in Int /\ k[2] <= received /\ k[2] <= lastReceived[k[1]]
        BY <1>1, <1>4
      <4>2. lastReceived'[k[1]] = IF k[1] = d THEN received + 1 ELSE lastReceived[k[1]]
        BY <1>3, <4>1
      <4>3. received \in Int /\ lastReceived[k[1]] \in Int /\ memberships[k[1]] = 0
        BY <1>1, <4>1
      <4> QED
        BY <4>1, <4>2, <4>3
    <3> QED
      BY <1>3, <1>6, <2>3, <3>1
  <2>5. \A i, j \in 1..Len(early') : i < j => early'[i][2] < early'[j][2]
    <3>1. /\ Len(early) \in Nat /\ Len(early') = Len(early) + 1
          /\ early'[Len(early) + 1] = n
          /\ \A i \in 1..Len(early) : early'[i] = early[i] /\ early[i] \in ToSet(early)
      BY <1>1, <2>1, <2>2, SMTT(20) DEF ToSet
    <3>2. \A i \in 1..Len(early) : early[i][2] \in Int /\ early[i][2] < received + 1
      BY <1>1, <1>4, <3>1, SMTT(20)
    <3>3. ASSUME NEW i \in 1..Len(early'), NEW j \in 1..Len(early'), i < j
          PROVE  early'[i][2] < early'[j][2]
      <4>1. i \in 1..Len(early) /\ early'[i] = early[i]
        BY <3>1, <3>3
      <4>2. CASE j = Len(early) + 1
        BY <3>1, <3>2, <4>1, <4>2
      <4>3. CASE j # Len(early) + 1
        <5>1. j \in 1..Len(early) /\ early'[j] = early[j]
          BY <3>1, <4>3
        <5> QED
          BY <1>1, <3>3, <4>1, <5>1
      <4> QED
        BY <4>2, <4>3
    <3> QED
      BY <3>3
  <2>6. ASSUME NEW e \in Others
        PROVE  \/ <<e, lastReceived'[e]>> \in ToSet(early')
               \/ handed'[e] = lastReceived'[e] /\ \A k \in ToSet(early') : k[1] # e
    <3>1. CASE e = d
      BY <1>3, <2>3, <3>1
    <3>2. CASE e # d
      <4>1. lastReceived'[e] = lastReceived[e] /\ n[1] # e
        BY <1>3, <3>2
      <4>2. \/ <<e, lastReceived[e]>> \in ToSet(early)
            \/ handed[e] = lastReceived[e] /\ \A k \in ToSet(early) : k[1] # e
        BY <1>1
      <4> HIDE DEF n
      <4> QED
        BY <2>1, <2>3, <4>1, <4>2
    <3> QED
      BY <3>1, <3>2
  <2>7. memberships' \in Memberships /\ calculations' \in Seq([chained : BOOLEAN, read : Memberships])
    BY <1>2 DEF EarlyInv
  <2> QED
    BY <1>1, <1>2, <1>3, <2>1, <2>3, <2>4, <2>5, <2>6, <2>7 DEF EarlyInv
<1> QED
  BY <1>5, <1>6

\* Steps of our own key's distribution have no part in the keys of others.
LEMMA RoundKeepsEarly ==
    ASSUME EarlyInv, UNCHANGED <<sessionVars, inboundVars>>
    PROVE  EarlyInv'
BY DEF EarlyInv, sessionVars, inboundVars

\* A new calculation changes none of what has been received.
LEMMA StartKeepsEarly ==
    ASSUME EarlyInv, UNCHANGED <<memberships, inboundVars>>,
           calculations' \in Seq([chained : BOOLEAN, read : Memberships])
    PROVE  EarlyInv'
BY DEF EarlyInv, inboundVars

\* Every step keeps it.
LEMMA EarlyStep == KeysInv /\ EarlyInv /\ KeysInv' /\ [KeysNext]_keysVars => EarlyInv'
<1> SUFFICES ASSUME KeysInv, EarlyInv, KeysInv', [KeysNext]_keysVars PROVE EarlyInv'
  OBVIOUS
<1>0. calculations' \in Seq([chained : BOOLEAN, read : Memberships]) /\ memberships' \in Memberships
  BY DEF KeysInv, KeysTypeOK
<1>1. CASE FirstKey
  BY <1>1, RoundKeepsEarly DEF FirstKey
<1>2. CASE KeySent
  BY <1>2, RoundKeepsEarly DEF KeySent
<1>3. CASE NotSupported
  BY <1>3, RoundKeepsEarly DEF NotSupported
<1>4. CASE Delayed
  BY <1>4, RoundKeepsEarly DEF Delayed
<1>5. CASE Age
  BY <1>5, RoundKeepsEarly DEF Age
<1>6. ASSUME NEW d \in Others, ReceiveKey(d) PROVE EarlyInv'
  BY <1>6, ReceiveKeyKeeps
<1>7. ASSUME NEW d \in Devices, Change(d) PROVE EarlyInv'
  BY <1>0, <1>7, StartKeepsEarly DEF Change
<1>8. CASE ChainStarts
  BY <1>0, <1>8, StartKeepsEarly DEF ChainStarts
<1>9. CASE Recalculated
  BY <1>0, <1>9, HandOverKeeps DEF Recalculated
<1>10. CASE UNCHANGED keysVars
  BY <1>10, RoundKeepsEarly DEF keysVars
<1> QED
  BY <1>1, <1>2, <1>3, <1>4, <1>5, <1>6, <1>7, <1>8, <1>9, <1>10 DEF KeysNext

\* No key was received yet.
LEMMA EarlyInit == KeysInit => EarlyInv
<1> SUFFICES ASSUME KeysInit PROVE EarlyInv
  OBVIOUS
<1>1. KeysInv
  BY KeysInvInit
<1>2. /\ early = <<>> /\ received = 0 /\ handed = [d \in Others |-> 0]
      /\ lastReceived = [d \in Others |-> 0]
  BY DEF KeysInit
<1>3. ToSet(early) = {} /\ Len(early) = 0 /\ early \in Seq(Others \X Int)
  BY <1>2 DEF ToSet
<1> QED
  BY <1>1, <1>2, <1>3 DEF EarlyInv, KeysInv, KeysTypeOK

\* The last key that a member sent is the one the media layer has, whether it came
\* before, after or between the memberships of its sender.
THEOREM LastKeyIsHeard == KeysSpec => []KeysReachMedia
<1>1. EarlyInv => KeysReachMedia
  BY DEF EarlyInv, KeysReachMedia
<1> QED
  BY <1>1, EarlyInit, EarlyStep, KeysInvariant, PTL DEF KeysSpec

-----------------------------------------------------------------------------
(* Types: numbers of keys and memberships are ones that were given out.    *)

KeyShares == Devices \X (1 .. MaxChanges)
KeptKeys  == Others \X (1 .. MaxReceived)

\* What bounds the numbers of keys, memberships and calculations.
KeysBounds ==
    /\ sharedWith \subseteq KeyShares /\ toDistributeTo \subseteq KeyShares
    /\ used \in Int /\ NoKey <= used /\ used <= key /\ \A h \in holders : 0 <= h[2]
    /\ needed \in BOOLEAN /\ queued \in Nat /\ queued <= changes
    /\ ages \in 0 .. MaxAges
    /\ early \in Seq(KeptKeys) /\ received \in 0 .. MaxReceived
    /\ handed \in [Others -> 0 .. MaxReceived] /\ lastReceived \in [Others -> 0 .. MaxReceived]

\* The bounds and the invariant are the types.
LEMMA KeysTypesFromBounds == KeysInv /\ KeysBounds => RtcKeysTypeOK
<1> SUFFICES ASSUME KeysInv, KeysBounds PROVE RtcKeysTypeOK
  OBVIOUS
<1>1. KeysTypeOK /\ \A h \in holders : h[2] <= key
  BY DEF KeysInv, HoldersKnown
<1>2. queued \in 0 .. MaxChanges
  <2>1. changes \in 0 .. MaxChanges /\ queued \in Nat /\ queued <= changes
    BY <1>1 DEF KeysTypeOK, KeysBounds
  <2> QED
    BY <2>1, RtcKeysAssumption
<1>3. Range(calculations) \subseteq [chained : BOOLEAN, read : Memberships]
  <2>1. calculations \in Seq([chained : BOOLEAN, read : Memberships])
    BY <1>1 DEF KeysTypeOK
  <2>2. \A i \in DOMAIN calculations : calculations[i] \in [chained : BOOLEAN, read : Memberships]
    BY <2>1, ElementType
  <2> QED
    BY <2>2 DEF Range
<1>4. used \in NoKey .. key
  BY <1>1 DEF KeysTypeOK, KeysBounds, NoKey
<1>5. holders \subseteq Others \X (0 .. key)
  BY <1>1 DEF KeysTypeOK, KeysBounds
<1>6. needed \in BOOLEAN /\ old \in BOOLEAN /\ canSend \in BOOLEAN /\ hasKeyChanged \in BOOLEAN /\ again \in BOOLEAN
  BY <1>1, Zenon DEF KeysTypeOK, KeysBounds
<1> QED
  BY <1>1, <1>2, <1>3, <1>4, <1>5, <1>6
     DEF RtcKeysTypeOK, KeysTypeOK, KeysBounds, KeyShares, KeptKeys

\* A rollout is for memberships there are.
LEMMA BeginBounds ==
    ASSUME NEW ms \in Memberships, NEW shared \in SUBSET KeyShares, key \in Int, BeginRound(ms, shared)
    PROVE  /\ sharedWith' \subseteq KeyShares /\ toDistributeTo' \subseteq KeyShares
           /\ key' \in Int /\ key <= key'
<1> DEFINE toShareWith == SharesOf(ms)
           alreadySharedWith == {x \in shared : ms[x[1]] \in {0, x[2]}}
           anyLeft == alreadySharedWith \ toShareWith
           anyJoined == toShareWith \ alreadySharedWith
           rotate == anyLeft # {} \/ (anyJoined # {} /\ old)
<1>1. /\ key' = IF rotate THEN key + 1 ELSE key
      /\ sharedWith' = IF rotate THEN {} ELSE shared
      /\ toDistributeTo' = IF rotate THEN toShareWith ELSE anyJoined
  BY DEF BeginRound
<1>2. toShareWith \subseteq KeyShares
  <2>1. \A d \in Devices : ms[d] \in 0 .. MaxChanges
    BY DEF Memberships
  <2> QED
    BY <2>1, RtcKeysAssumption DEF SharesOf, KeyShares
<1> QED
  BY <1>1, <1>2

\* So is the rollout after the end of one.
LEMMA EndRoundBounds ==
    ASSUME KeysInv, KeysBounds, NEW shared \in SUBSET KeyShares, EndRound(shared)
    PROVE  /\ sharedWith' \subseteq KeyShares /\ toDistributeTo' \subseteq KeyShares
           /\ key' \in Int /\ key <= key'
<1>1. KeysTypeOK
  BY DEF KeysInv
<1>2. CASE BeginRound(memberships, shared)
  BY <1>1, <1>2, BeginBounds DEF KeysTypeOK
<1>3. CASE sharedWith' = shared /\ UNCHANGED <<key, toDistributeTo>>
  BY <1>1, <1>3 DEF KeysTypeOK, KeysBounds
<1> QED
  BY <1>2, <1>3 DEF EndRound

\* The steps of our own key keep the bounds of it.
LEMMA RoundStepBounds ==
    ASSUME KeysInv, KeysBounds,
           FirstKey \/ KeySent \/ NotSupported \/ Delayed \/ Age
    PROVE  KeysBounds'
<1>1. KeysTypeOK /\ (round # "none" => 0 <= key)
  BY DEF KeysInv, KeysTypeOK, NothingBeforeFirst, NoKey
<1>2. UNCHANGED <<roomVars, sessionVars, inboundVars>>
  BY DEF FirstKey, KeySent, NotSupported, Delayed, Age
<1>3. sharedWith \in SUBSET KeyShares /\ toDistributeTo \in SUBSET KeyShares
  BY DEF KeysBounds
<1>4. /\ sharedWith' \subseteq KeyShares /\ toDistributeTo' \subseteq KeyShares
      /\ key' \in Int /\ key <= key'
  <2>1. CASE FirstKey
    BY <1>1, <1>3, <2>1, BeginBounds DEF FirstKey, KeysTypeOK
  <2>2. CASE KeySent
    <3>1. sharedWith \cup toDistributeTo \in SUBSET KeyShares
      BY <1>3
    <3>2. CASE EndRound(sharedWith \cup toDistributeTo)
      BY <3>1, <3>2, EndRoundBounds
    <3>3. CASE sharedWith' = sharedWith \cup toDistributeTo /\ UNCHANGED <<key, toDistributeTo>>
      BY <1>1, <1>3, <3>3 DEF KeysTypeOK
    <3> QED
      BY <2>2, <3>2, <3>3 DEF KeySent
  <2>3. CASE NotSupported \/ Delayed
    BY <1>3, <2>3, EndRoundBounds DEF NotSupported, Delayed
  <2>4. CASE Age
    BY <1>1, <1>3, <2>4 DEF Age, KeysTypeOK
  <2> QED
    BY <2>1, <2>2, <2>3, <2>4
<1>5. used' \in Int /\ NoKey <= used' /\ used' <= key'
  <2>1. CASE used' = key
    BY <1>1, <1>4, <2>1 DEF KeysTypeOK
  <2>2. CASE used' = used
    BY <1>1, <1>4, <2>2 DEF KeysTypeOK, KeysBounds
  <2> QED
    BY <2>1, <2>2 DEF FirstKey, KeySent, NotSupported, Delayed, Age
<1>6. \A h \in holders' : 0 <= h[2]
  <2>1. CASE KeySent
    <3>1. PICK got \in SUBSET Targets : holders' = holders \cup (got \X {key})
      BY <2>1 DEF KeySent
    <3>2. 0 <= key
      BY <1>1, <2>1 DEF KeySent
    <3> QED
      BY <3>1, <3>2 DEF KeysBounds
  <2>2. CASE holders' = holders
    BY <2>2 DEF KeysBounds
  <2> QED
    BY <2>1, <2>2 DEF FirstKey, NotSupported, Delayed, Age
<1>7. ages' \in 0 .. MaxAges
  <2>1. CASE Age
    BY <2>1, RtcKeysAssumption DEF Age, KeysBounds
  <2>2. CASE ages' = ages
    BY <2>2 DEF KeysBounds
  <2> QED
    BY <2>1, <2>2 DEF FirstKey, KeySent, NotSupported, Delayed
<1>8. needed' \in BOOLEAN
  BY <1>2, Zenon DEF KeysBounds, sessionVars
<1> QED
  BY <1>2, <1>4, <1>5, <1>6, <1>7, <1>8 DEF KeysBounds, roomVars, sessionVars, inboundVars

\* The calculations that wait are fewer than the changes.
LEMMA RoomStepBounds ==
    ASSUME KeysInv, KeysBounds, (\E d \in Devices : Change(d)) \/ ChainStarts
    PROVE  KeysBounds'
<1>1. changes \in Nat
  BY DEF KeysInv, KeysTypeOK
<1>2. UNCHANGED <<roundVars, used, holders, ages, inboundVars>>
  BY DEF Change, ChainStarts
<1>3. needed' \in BOOLEAN
  BY Zenon DEF Change, ChainStarts, StartRecalculation, EnsureRecalculate
<1>4. queued' \in Nat /\ queued' <= changes'
  <2>1. CASE ChainStarts
    BY <1>1, <2>1 DEF ChainStarts, KeysBounds, roomVars
  <2>2. CASE \E d \in Devices : Change(d)
    <3>1. changes' = changes + 1 /\ queued \in Nat /\ queued <= changes
      BY <2>2 DEF Change, KeysBounds
    <3>2. queued' = queued \/ queued' = queued + 1
      BY <2>2 DEF Change, EnsureRecalculate
    <3> QED
      BY <1>1, <3>1, <3>2
  <2> QED
    BY <2>1, <2>2
<1> QED
  BY <1>2, <1>3, <1>4 DEF KeysBounds, roundVars, inboundVars

\* The keys of others keep their numbers.
LEMMA HandOverBounds ==
    ASSUME early \in Seq(KeptKeys), handed \in [Others -> 0 .. MaxReceived],
           NEW ms \in Memberships, HandOver(early, ms)
    PROVE  early' \in Seq(KeptKeys) /\ handed' \in [Others -> 0 .. MaxReceived]
<1>1. early' \in Seq(KeptKeys)
  BY WithoutEntries DEF HandOver
<1>2. ASSUME NEW d \in Others PROVE handed'[d] \in 0 .. MaxReceived
  <2> DEFINE w == KeysOf(d, early)
  <2>1. w \in Seq(KeptKeys)
    BY WithoutEntries DEF KeysOf
  <2>2. handed'[d] = IF ms[d] # 0 /\ w # <<>> THEN Last(w)[2] ELSE handed[d]
    BY DEF HandOver
  <2> HIDE DEF w
  <2>3. w # <<>> => Last(w) \in KeptKeys
    <3>1. w # <<>> => Len(w) \in 1 .. Len(w)
      BY <2>1
    <3> QED
      BY <2>1, <3>1 DEF Last
  <2>4. w # <<>> => Last(w)[2] \in 0 .. MaxReceived
    BY <2>3 DEF KeptKeys
  <2> QED
    BY <2>2, <2>4
<1>3. handed' = [d \in Others |-> handed'[d]]
  BY DEF HandOver
<1> QED
  BY <1>1, <1>2, <1>3

\* Every step keeps the bounds.
LEMMA KeysBoundsStep == KeysInv /\ KeysBounds /\ [KeysNext]_keysVars => KeysBounds'
<1> SUFFICES ASSUME KeysInv, KeysBounds, [KeysNext]_keysVars PROVE KeysBounds'
  OBVIOUS
<1>1. KeysTypeOK
  BY DEF KeysInv
<1>2. CASE FirstKey \/ KeySent \/ NotSupported \/ Delayed \/ Age
  BY <1>2, RoundStepBounds
<1>3. CASE (\E d \in Devices : Change(d)) \/ ChainStarts
  BY <1>3, RoomStepBounds
<1>4. ASSUME NEW d \in Others, ReceiveKey(d) PROVE KeysBounds'
  <2>1. received' \in 1 .. MaxReceived /\ received' \in 0 .. MaxReceived
    BY <1>4, RtcKeysAssumption DEF ReceiveKey, KeysBounds
  <2>2. lastReceived' \in [Others -> 0 .. MaxReceived]
    BY <1>4, <2>1 DEF ReceiveKey, KeysBounds
  <2>3. handed' \in [Others -> 0 .. MaxReceived]
    BY <1>4, <2>1 DEF ReceiveKey, KeysBounds
  <2>4. early' \in Seq(KeptKeys)
    <3>1. <<d, received'>> \in KeptKeys /\ early \in Seq(KeptKeys)
      BY <2>1 DEF KeptKeys, KeysBounds
    <3>2. early' = early \/ early' = Append(early, <<d, received'>>)
      BY <1>4 DEF ReceiveKey
    <3> QED
      BY <3>1, <3>2, AppendToQueue
  <2>5. UNCHANGED <<roomVars, sessionVars, roundVars, used, holders, ages>>
    BY <1>4 DEF ReceiveKey
  <2>6. needed' \in BOOLEAN
    BY <2>5, Zenon DEF KeysBounds, sessionVars
  <2> QED
    BY <2>1, <2>2, <2>3, <2>4, <2>5, <2>6 DEF KeysBounds, roomVars, sessionVars, roundVars
<1>5. CASE Recalculated
  <2>1. PICK i \in DOMAIN calculations :
          /\ memberships' = calculations[i].read
          /\ EnsureKeyDistribution(memberships') /\ HandOver(early, memberships')
          /\ UNCHANGED <<roomVars, needed, queued, canSend, used, holders, ages,
                         lastReceived, received>>
    BY <1>5 DEF Recalculated
  <2>2. memberships' \in Memberships
    <3>1. calculations[i] \in [chained : BOOLEAN, read : Memberships]
      BY <1>1, ElementType DEF KeysTypeOK
    <3> QED
      BY <2>1, <3>1
  <2>3. early' \in Seq(KeptKeys) /\ handed' \in [Others -> 0 .. MaxReceived]
    BY <2>1, <2>2, HandOverBounds DEF KeysBounds
  <2>4. /\ sharedWith' \subseteq KeyShares /\ toDistributeTo' \subseteq KeyShares
        /\ key' \in Int /\ key <= key'
    <3>1. CASE key = NoKey /\ key' = 0 /\ UNCHANGED <<sharedWith, toDistributeTo>>
      BY <3>1 DEF KeysBounds, NoKey
    <3>2. CASE BeginRound(memberships', sharedWith)
      <4> DEFINE ms == calculations[i].read
      <4>1. ms \in Memberships /\ BeginRound(ms, sharedWith)
        BY <2>1, <2>2, <3>2
      <4>2. sharedWith \in SUBSET KeyShares /\ key \in Int
        BY <1>1 DEF KeysBounds, KeysTypeOK
      <4> HIDE DEF ms
      <4> QED
        BY <4>1, <4>2, BeginBounds
    <3>3. CASE UNCHANGED <<key, sharedWith, toDistributeTo>>
      BY <1>1, <3>3 DEF KeysBounds, KeysTypeOK
    <3> QED
      BY <2>1, <3>1, <3>2, <3>3 DEF EnsureKeyDistribution
  <2>5. used' <= key'
    BY <1>1, <2>1, <2>4 DEF KeysBounds, KeysTypeOK
  <2>6. needed' \in BOOLEAN
    BY <2>1, Zenon DEF KeysBounds
  <2> QED
    BY <2>1, <2>3, <2>4, <2>5, <2>6 DEF KeysBounds, roomVars
<1>6. CASE UNCHANGED keysVars
  <2>1. needed' \in BOOLEAN
    BY <1>6, Zenon DEF KeysBounds, keysVars, sessionVars
  <2> QED
    BY <1>6, <2>1 DEF KeysBounds, keysVars, roomVars, sessionVars, roundVars, inboundVars
<1> QED
  BY <1>2, <1>3, <1>4, <1>5, <1>6 DEF KeysNext

\* The media keys keep their types: a membership is one of the room, a key that
\* somebody holds one that was made.
THEOREM KeyTypes == KeysSpec => []RtcKeysTypeOK
<1>1. KeysInit => KeysBounds
  <2> SUFFICES ASSUME KeysInit PROVE KeysBounds
    OBVIOUS
  <2>1. needed \in BOOLEAN
    BY Zenon DEF KeysInit
  <2>2. early \in Seq(KeptKeys) /\ holders = {}
    BY DEF KeysInit
  <2>3. handed \in [Others -> 0 .. MaxReceived] /\ lastReceived \in [Others -> 0 .. MaxReceived]
    BY RtcKeysAssumption DEF KeysInit
  <2> QED
    BY <2>1, <2>2, <2>3, RtcKeysAssumption DEF KeysInit, KeysBounds, NoKey
<1> QED
  BY <1>1, KeysInvInit, KeysStep, KeysBoundsStep, KeysTypesFromBounds, PTL DEF KeysSpec

-----------------------------------------------------------------------------
(* The membership: RtcMembership.                                          *)

Kinds == ActionTypes \cup {"CancelDelayedEvent"}

IsRequest(r) ==
    \/ r = NoRequest
    \/ /\ r.kind \in Kinds /\ r.answer \in Answers
       /\ r = [kind |-> r.kind, id |-> r.id, answer |-> r.answer]

\* The types; ids and schedules may be any.
RtcTypes ==
    /\ current \in 0..MaxJoins
    /\ running \in [Managers -> BOOLEAN] /\ activated \in [Managers -> BOOLEAN]
    /\ leaving \in [Managers -> {"none", "pending", "true"}]
    /\ wakeup \in [Managers -> {"none", "join", "leave"}]
    /\ hasMember \in [Managers -> BOOLEAN]
    /\ actions = [m \in Managers |-> actions[m]] /\ delayId = [m \in Managers |-> delayId[m]]
    /\ request = [m \in Managers |-> request[m]] /\ \A m \in Managers : IsRequest(request[m])
    /\ intent = [m \in Managers |-> intent[m]] /\ \A m \in Managers : IsRequest(intent[m])
    /\ errors \in Nat /\ intents \in Nat

\* What a manager does at each time of its life.
LifeInv ==
    \A m \in Managers :
        /\ m > current => /\ ~running[m] /\ leaving[m] = "none" /\ intent[m] = NoRequest
                          /\ ~hasMember[m] /\ delayId[m] = NoId /\ member # m
        /\ intent[m] # NoRequest => intent[m].kind = "SendJoinEvent"
        /\ activated[m] => m = current /\ running[m] /\ leaving[m] = "none"
        /\ running[m] /\ ~activated[m] => leaving[m] = "pending"
        /\ ~running[m] => request[m] = NoRequest /\ leaving[m] # "pending"
        /\ wakeup[m] # "none" => request[m] # NoRequest

\* The action that awaits the answer to a request.
Awaits(kind) == IF kind = "CancelDelayedEvent" THEN "SendDelayedEvent" ELSE kind

\* The schedules of a manager that takes part in the call.
IsConnected(s, has, id) ==
    \/ s = {"SendDelayedEvent"} /\ ~has
    \/ s = {"UpdateExpiry", "SendDelayedEvent"} /\ (has => id = NoId)
    \/ s \in {{"SendJoinEvent"}, {"UpdateExpiry", "SendJoinEvent"},
              {"UpdateExpiry"}, {"UpdateExpiry", "RestartDelayedEvent"}}

\* What a manager that runs has scheduled.
ScheduleOf(m) ==
    /\ actions[m] \in Seq(ActionTypes) /\ IsInjective(actions[m])
    /\ request[m] # NoRequest => Awaits(request[m].kind) \in ToSet(actions[m])
    /\ request[m].kind = "CancelDelayedEvent" => delayId[m] # NoId
    /\ activated[m] =>
         /\ IsConnected(ToSet(actions[m]), hasMember[m], delayId[m])
         /\ wakeup[m] # "leave"
         /\ wakeup[m] = "join" =>
              ~hasMember[m] /\ ToSet(actions[m]) \cap {"SendDelayedEvent", "SendJoinEvent"} = {}
    /\ ~activated[m] => \/ wakeup[m] = "leave"
                        \/ wakeup[m] = "none" /\ ToSet(actions[m]) \in {{a} : a \in LeaveTypes}

ScheduleInv == \A m \in Managers : running[m] => ScheduleOf(m)

\* A manager knows of its membership: it is there only if the manager thinks so or
\* will learn it from the answer to its request.
KnowledgeInv ==
    \A m \in Managers \ misled :
        /\ member = m => \/ hasMember[m]
                         \/ request[m].kind = "SendJoinEvent" /\ request[m].answer = "ok"
        /\ request[m].kind \in LeaveTypes /\ request[m].answer = "ok" => member # m
        /\ leaving[m] = "true" /\ m \notin died => member # m

\* The server holds no delayed leave but the one that the first manager knows or
\* is told of.
DelayedInv ==
    LET r == request[1] IN
    /\ NoId \notin delayed
    /\ r.kind = "SendDelayedEvent" =>
         /\ delayId[1] = NoId
         /\ r.answer = "none" => r.id = NoId
         /\ r.answer = "ok" => r.id # NoId /\ delayed \subseteq {r.id}
         /\ r.answer # "ok" => delayed = {}
    /\ r.kind # "SendDelayedEvent" =>
         /\ delayed \subseteq {delayId[1]}
         /\ r # NoRequest => r.id = delayId[1]
    /\ r.kind \in {"CancelDelayedEvent", "SendScheduledDelayedLeaveEvent"}
       /\ r.answer \in {"ok", "notFound"} => delayed = {}
    /\ r.kind = "RestartDelayedEvent" /\ r.answer = "notFound" => delayed = {}

\* Without updateCallIntent: no request is out beside the schedule.
ScheduledOnly == (\A m \in Managers : intent[m] = NoRequest) /\ ScheduleInv /\ KnowledgeInv

RtcInv ==
    /\ RtcTypes /\ LifeInv
    /\ intents = 0 => ScheduledOnly
    /\ errors = 0 /\ current <= 1 => DelayedInv

\* Replacing an entry of a queue without duplicates.
LEMMA ReplaceEntry ==
    ASSUME NEW S, NEW q \in Seq(S), IsInjective(q), NEW a
    PROVE  /\ RemoveFirst(q, a) \o <<>> \in Seq(S)
           /\ IsInjective(RemoveFirst(q, a) \o <<>>)
           /\ ToSet(RemoveFirst(q, a) \o <<>>) = ToSet(q) \ {a}
           /\ \A x \in S : x \notin ToSet(q) \ {a} =>
                /\ RemoveFirst(q, a) \o <<x>> \in Seq(S)
                /\ IsInjective(RemoveFirst(q, a) \o <<x>>)
                /\ ToSet(RemoveFirst(q, a) \o <<x>>) = (ToSet(q) \ {a}) \cup {x}
           /\ \A x \in S : RemoveFirst(q, a) \o <<x>> # <<>>
<1>1. /\ RemoveFirst(q, a) \in Seq(S) /\ IsInjective(RemoveFirst(q, a))
      /\ ToSet(RemoveFirst(q, a)) = ToSet(q) \ {a}
  BY RemoveFromQueue
<1> DEFINE p == RemoveFirst(q, a)
<1> HIDE DEF p
<1>2. p \in Seq(S) /\ IsInjective(p) /\ ToSet(p) = ToSet(q) \ {a}
  BY <1>1 DEF p
<1>3. p \o <<>> = p
  BY <1>2
<1>4. ASSUME NEW x \in S, x \notin ToSet(q) \ {a}
      PROVE  /\ p \o <<x>> \in Seq(S) /\ IsInjective(p \o <<x>>)
             /\ ToSet(p \o <<x>>) = (ToSet(q) \ {a}) \cup {x}
  <2>1. p \o <<x>> = Append(p, x)
    BY <1>2
  <2>2. /\ Append(p, x) \in Seq(S) /\ Append(p, x) # <<>>
        /\ ToSet(Append(p, x)) = ToSet(p) \cup {x}
        /\ IsInjective(p) /\ x \notin ToSet(p) => IsInjective(Append(p, x))
    BY <1>2, AppendToQueue
  <2> QED
    BY <1>2, <1>4, <2>1, <2>2
<1>5. \A x \in S : p \o <<x>> # <<>>
  BY <1>2
<1> QED
  BY <1>2, <1>3, <1>4, <1>5 DEF p

\* A single entry.
LEMMA SingleEntry ==
    \A x \in ActionTypes :
        /\ <<x>> \in Seq(ActionTypes) /\ IsInjective(<<x>>) /\ ToSet(<<x>>) = {x}
        /\ <<x>> # <<>>
<1> SUFFICES ASSUME NEW x \in ActionTypes
             PROVE  /\ <<x>> \in Seq(ActionTypes) /\ IsInjective(<<x>>) /\ ToSet(<<x>>) = {x}
                    /\ <<x>> # <<>>
  OBVIOUS
<1>1. <<x>> \in Seq(ActionTypes) /\ DOMAIN <<x>> = {1} /\ <<x>>[1] = x /\ <<x>> # <<>>
  OBVIOUS
<1> QED
  BY <1>1 DEF IsInjective, ToSet

\* What is scheduled after an action of type a, instead of it.
LEMMA InsertEntries ==
    ASSUME NEW m, actions[m] \in Seq(ActionTypes), IsInjective(actions[m]), NEW a
    PROVE  /\ Insert(m, a, <<>>) \in Seq(ActionTypes)
           /\ IsInjective(Insert(m, a, <<>>))
           /\ ToSet(Insert(m, a, <<>>)) = ToSet(actions[m]) \ {a}
           /\ \A x \in ActionTypes : x \notin ToSet(actions[m]) \ {a} =>
                /\ Insert(m, a, <<x>>) \in Seq(ActionTypes)
                /\ IsInjective(Insert(m, a, <<x>>))
                /\ ToSet(Insert(m, a, <<x>>)) = (ToSet(actions[m]) \ {a}) \cup {x}
           /\ \A x \in ActionTypes : Insert(m, a, <<x>>) # <<>>
BY ReplaceEntry DEF Insert

-----------------------------------------------------------------------------
(* The end of an action.                                                   *)

\* What an action does to its manager alone.
OnlyOf(m) ==
    /\ \E b \in BOOLEAN : hasMember' = [hasMember EXCEPT ![m] = b]
    /\ \E i : delayId' = [delayId EXCEPT ![m] = i]
    /\ UNCHANGED <<current, intent, serverVars, bounds, misled>>

\* An action that ends and one that fails leave a manager in one of the states of its life.
LEMMA EndKeeps ==
    ASSUME RtcTypes, LifeInv, NEW m \in Managers, running[m], OnlyOf(m),
           Throw(m) \/ \E acts : GoOn(m, acts)
    PROVE  RtcTypes' /\ LifeInv'
<1>1. /\ hasMember' \in [Managers -> BOOLEAN]
      /\ delayId' = [n \in Managers |-> delayId'[n]]
      /\ \A n \in Managers \ {m} : hasMember'[n] = hasMember[n] /\ delayId'[n] = delayId[n]
      /\ UNCHANGED <<current, intent, member, errors, intents>>
  BY DEF RtcTypes, OnlyOf, serverVars, bounds
<1>2. m <= current
  BY DEF LifeInv, RtcTypes, Managers
<1>3. /\ wakeup' = [wakeup EXCEPT ![m] = "none"]
      /\ request' = [request EXCEPT ![m] = NoRequest]
      /\ \E acts : actions' = [actions EXCEPT ![m] = acts]
      /\ \/ /\ running' = [running EXCEPT ![m] = FALSE]
            /\ activated' = [activated EXCEPT ![m] = FALSE]
            /\ leaving' = [leaving EXCEPT ![m] = IF @ = "pending" THEN "true" ELSE @]
         \/ UNCHANGED <<running, activated, leaving>>
  <2>1. CASE Throw(m)
    <3>1. actions' = [actions EXCEPT ![m] = actions[m]]
      BY <2>1 DEF Throw, RtcTypes
    <3> QED
      BY <2>1, <3>1 DEF Throw
  <2>2. ASSUME NEW acts, Left(m, acts)
        PROVE  <1>3!:
    BY <2>2 DEF Left
  <2> QED
    BY <2>1, <2>2 DEF GoOn
<1>4. RtcTypes'
  <2>1. /\ running' \in [Managers -> BOOLEAN] /\ activated' \in [Managers -> BOOLEAN]
        /\ leaving' \in [Managers -> {"none", "pending", "true"}]
    BY <1>3 DEF RtcTypes
  <2>2. /\ wakeup' \in [Managers -> {"none", "join", "leave"}]
        /\ actions' = [n \in Managers |-> actions'[n]]
    BY <1>3 DEF RtcTypes
  <2>3. request' = [n \in Managers |-> request'[n]] /\ \A n \in Managers : IsRequest(request'[n])
    BY <1>3 DEF RtcTypes, IsRequest
  <2> QED
    BY <1>1, <2>1, <2>2, <2>3 DEF RtcTypes
<1>5. ASSUME NEW n \in Managers, n # m PROVE UNCHANGED <<running[n], activated[n], leaving[n],
                                                         wakeup[n], request[n]>>
  BY <1>3, <1>5 DEF RtcTypes
<1>6. LifeInv'
  <2> SUFFICES ASSUME NEW n \in Managers
               PROVE  (/\ n > current => /\ ~running[n] /\ leaving[n] = "none" /\ intent[n] = NoRequest
                                         /\ ~hasMember[n] /\ delayId[n] = NoId /\ member # n
                       /\ intent[n] # NoRequest => intent[n].kind = "SendJoinEvent"
                       /\ activated[n] => n = current /\ running[n] /\ leaving[n] = "none"
                       /\ running[n] /\ ~activated[n] => leaving[n] = "pending"
                       /\ ~running[n] => request[n] = NoRequest /\ leaving[n] # "pending"
                       /\ wakeup[n] # "none" => request[n] # NoRequest)'
    BY DEF LifeInv
  <2>1. CASE n # m
    BY <1>1, <1>5, <2>1 DEF LifeInv
  <2>2. CASE n = m
    <3>1. request'[m] = NoRequest /\ wakeup'[m] = "none"
      BY <1>3 DEF RtcTypes
    <3>2. ~(m > current')
      BY <1>1, <1>2 DEF RtcTypes, Managers
    <3>3. CASE UNCHANGED <<running, activated, leaving>>
      BY <1>1, <2>2, <3>1, <3>2, <3>3 DEF LifeInv
    <3>4. CASE /\ running' = [running EXCEPT ![m] = FALSE]
               /\ activated' = [activated EXCEPT ![m] = FALSE]
               /\ leaving' = [leaving EXCEPT ![m] = IF @ = "pending" THEN "true" ELSE @]
      <4>1. ~running'[m] /\ ~activated'[m] /\ leaving'[m] # "pending"
        BY <3>4 DEF RtcTypes
      <4> QED
        BY <1>1, <2>2, <3>1, <3>2, <4>1 DEF LifeInv
    <3> QED
      BY <1>3, <3>3, <3>4
  <2> QED
    BY <2>1, <2>2
<1> QED
  BY <1>4, <1>6

\* The action goes on with a schedule that fits what the manager knows.
Fitting(m, acts) ==
    /\ GoOn(m, acts)
    /\ wakeup[m] = "join" => ~hasMember'[m]
    /\ wakeup[m] = "none" /\ acts # <<>> =>
         /\ acts \in Seq(ActionTypes) /\ IsInjective(acts)
         /\ activated[m] => IsConnected(ToSet(acts), hasMember'[m], delayId'[m])
         /\ ~activated[m] => ToSet(acts) \in {{a} : a \in LeaveTypes}

\* Then what is scheduled fits as well.
LEMMA FittingKeeps ==
    ASSUME RtcTypes, LifeInv, NEW m \in Managers, running[m], ScheduleOf(m),
           NEW acts, Fitting(m, acts), running'[m]
    PROVE  ScheduleOf(m)'
<1> DEFINE next == CASE wakeup[m] = "join"  -> <<"SendDelayedEvent">>
                     [] wakeup[m] = "leave" -> <<"SendScheduledDelayedLeaveEvent">>
                     [] wakeup[m] = "none"  -> acts
<1>1. Left(m, next)
  BY DEF Fitting, GoOn
<1> HIDE DEF next
<1>2. /\ next # <<>> /\ UNCHANGED <<running, activated, leaving>>
      /\ actions'[m] = next /\ wakeup'[m] = "none" /\ request'[m] = NoRequest
  BY <1>1 DEF Left, RtcTypes
<1>3. wakeup[m] \in {"none", "join", "leave"}
  BY DEF RtcTypes
<1>4. NoRequest.kind = "none"
  BY DEF NoRequest
<1>5. CASE wakeup[m] = "join"
  <2>1. next = <<"SendDelayedEvent">> /\ ~hasMember'[m] /\ activated'[m]
    BY <1>2, <1>5 DEF next, Fitting, ScheduleOf
  <2>2. "SendDelayedEvent" \in ActionTypes
    BY DEF ActionTypes
  <2>3. /\ next \in Seq(ActionTypes) /\ IsInjective(next) /\ ToSet(next) = {"SendDelayedEvent"}
    BY <2>1, <2>2, SingleEntry
  <2> QED
    BY <1>2, <1>4, <2>1, <2>3 DEF ScheduleOf, IsConnected
<1>6. CASE wakeup[m] = "leave"
  <2>1. next = <<"SendScheduledDelayedLeaveEvent">> /\ ~activated[m]
    BY <1>6 DEF next, ScheduleOf
  <2> QED
    BY <1>2, <1>4, <2>1, SingleEntry DEF ScheduleOf, LeaveTypes, ActionTypes
<1>7. CASE wakeup[m] = "none"
  <2>1. next = acts
    BY <1>7 DEF next
  <2> QED
    BY <1>2, <1>4, <1>7, <2>1 DEF ScheduleOf, Fitting
<1> QED
  BY <1>3, <1>5, <1>6, <1>7

\* An answer ends its action: the manager goes on or has failed.
LEMMA AnswerEnds ==
    ASSUME RtcTypes, LifeInv, NEW m \in Managers, HandleAnswer(m)
    PROVE  /\ running[m] /\ request[m] # NoRequest
           /\ OnlyOf(m)
           /\ Throw(m) \/ \E acts : GoOn(m, acts)
<1>1. running[m] /\ request[m] # NoRequest
  BY DEF HandleAnswer, LifeInv, NoRequest
<1>2. UNCHANGED <<current, intent, serverVars, bounds, misled>>
  BY DEF HandleAnswer
<1>3. /\ hasMember = [hasMember EXCEPT ![m] = hasMember[m]] /\ hasMember[m] \in BOOLEAN
      /\ delayId = [delayId EXCEPT ![m] = delayId[m]]
  BY DEF RtcTypes
<1>4. ASSUME NEW ans, DelayedEventAnswered(m, ans)
      PROVE  OnlyOf(m) /\ (Throw(m) \/ \E acts : GoOn(m, acts))
  <2>1. /\ hasMember' = hasMember
        /\ delayId' = delayId \/ delayId' = [delayId EXCEPT ![m] = request[m].id]
        /\ Throw(m) \/ \E acts : GoOn(m, acts)
    BY <1>4 DEF DelayedEventAnswered, Retry
  <2> QED
    BY <1>2, <1>3, <2>1 DEF OnlyOf
<1>5. ASSUME NEW ans, CancelAnswered(m, ans)
      PROVE  OnlyOf(m) /\ (Throw(m) \/ \E acts : GoOn(m, acts))
  <2>1. /\ hasMember' = hasMember
        /\ delayId' = delayId \/ delayId' = [delayId EXCEPT ![m] = NoId]
        /\ Throw(m) \/ \E acts : GoOn(m, acts)
    BY <1>5 DEF CancelAnswered, Retry
  <2> QED
    BY <1>2, <1>3, <2>1 DEF OnlyOf
<1>6. ASSUME NEW ans, RestartAnswered(m, ans)
      PROVE  OnlyOf(m) /\ (Throw(m) \/ \E acts : GoOn(m, acts))
  <2>1. /\ hasMember' = hasMember
        /\ delayId' = delayId \/ delayId' = [delayId EXCEPT ![m] = NoId]
        /\ Throw(m) \/ \E acts : GoOn(m, acts)
    BY <1>6 DEF RestartAnswered, Retry
  <2> QED
    BY <1>2, <1>3, <2>1 DEF OnlyOf
<1>7. ASSUME NEW ans, ScheduledLeaveAnswered(m, ans)
      PROVE  OnlyOf(m) /\ (Throw(m) \/ \E acts : GoOn(m, acts))
  <2>1. /\ hasMember' = hasMember \/ hasMember' = [hasMember EXCEPT ![m] = FALSE]
        /\ delayId' = delayId \/ delayId' = [delayId EXCEPT ![m] = NoId]
        /\ Throw(m) \/ \E acts : GoOn(m, acts)
    BY <1>3, <1>7 DEF ScheduledLeaveAnswered, Retry
  <2> QED
    BY <1>2, <1>3, <2>1 DEF OnlyOf
<1>8. ASSUME NEW ans, JoinAnswered(m, ans)
      PROVE  OnlyOf(m) /\ (Throw(m) \/ \E acts : GoOn(m, acts))
  <2>1. /\ hasMember' = hasMember \/ hasMember' = [hasMember EXCEPT ![m] = TRUE]
        /\ delayId' = delayId
        /\ Throw(m) \/ \E acts : GoOn(m, acts)
    BY <1>8 DEF JoinAnswered, Retry
  <2> QED
    BY <1>2, <1>3, <2>1 DEF OnlyOf
<1>9. ASSUME NEW ans, ExpiryAnswered(m, ans)
      PROVE  OnlyOf(m) /\ (Throw(m) \/ \E acts : GoOn(m, acts))
  <2>1. /\ hasMember' = hasMember /\ delayId' = delayId
        /\ Throw(m) \/ \E acts : GoOn(m, acts)
    BY <1>9 DEF ExpiryAnswered, Retry
  <2> QED
    BY <1>2, <1>3, <2>1 DEF OnlyOf
<1>10. ASSUME NEW ans, LeaveAnswered(m, ans)
      PROVE  OnlyOf(m) /\ (Throw(m) \/ \E acts : GoOn(m, acts))
  <2>1. /\ hasMember' = hasMember \/ hasMember' = [hasMember EXCEPT ![m] = FALSE]
        /\ delayId' = delayId
        /\ Throw(m) \/ \E acts : GoOn(m, acts)
    BY <1>10 DEF LeaveAnswered, Retry
  <2> QED
    BY <1>2, <1>3, <2>1 DEF OnlyOf
<1> QED
  BY <1>1, <1>4, <1>5, <1>6, <1>7, <1>8, <1>9, <1>10 DEF HandleAnswer

\* An answer is followed by a failure or by what fits it.  Only the answer to a leave ends
\* a schedule of leaving, and what the manager knows of its membership is what it was told.
Follows(m) ==
    /\ \/ Throw(m)
       \/ \E acts :
             /\ Fitting(m, acts)
             /\ acts = <<>> /\ request[m].kind \in LeaveTypes => request[m].answer = "ok"
    /\ hasMember'[m] = IF request[m].answer = "ok" /\ request[m].kind = "SendJoinEvent" THEN TRUE
                       ELSE IF request[m].answer = "ok" /\ request[m].kind \in LeaveTypes THEN FALSE
                       ELSE hasMember[m]

\* An action replaced by one that fits.
LEMMA InsertFits ==
    ASSUME NEW m, ScheduleOf(m), wakeup[m] \in {"none", "join", "leave"},
           NEW a \in ToSet(actions[m]), NEW x \in ActionTypes,
           GoOn(m, Insert(m, a, <<x>>)),
           wakeup[m] = "join" => ~hasMember'[m],
           activated[m] => /\ x \notin ToSet(actions[m]) \ {a}
                           /\ IsConnected((ToSet(actions[m]) \ {a}) \cup {x}, hasMember'[m], delayId'[m]),
           ~activated[m] /\ wakeup[m] = "none" => x \in LeaveTypes
    PROVE  \E acts : Fitting(m, acts) /\ acts # <<>>
<1> DEFINE acts == Insert(m, a, <<x>>)
           s == ToSet(actions[m])
<1>1. /\ acts # <<>>
      /\ x \notin s \ {a} =>
           acts \in Seq(ActionTypes) /\ IsInjective(acts) /\ ToSet(acts) = (s \ {a}) \cup {x}
  BY InsertEntries DEF ScheduleOf
<1>2. ~activated[m] /\ wakeup[m] = "none" => s \ {a} = {}
  BY DEF ScheduleOf
<1>3. GoOn(m, acts)
  OBVIOUS
<1> HIDE DEF acts
<1>4. Fitting(m, acts)
  <2>1. CASE activated[m]
    BY <1>1, <1>3, <2>1 DEF Fitting
  <2>2. CASE ~activated[m] /\ wakeup[m] = "none"
    <3>1. ToSet(acts) = {x} /\ x \in LeaveTypes
      BY <1>1, <1>2, <2>2
    <3> QED
      BY <1>1, <1>2, <1>3, <2>2, <3>1 DEF Fitting
  <2>3. CASE ~activated[m] /\ wakeup[m] # "none"
    BY <1>1, <1>3, <2>3 DEF Fitting
  <2> QED
    BY <2>1, <2>2, <2>3
<1> QED
  BY <1>1, <1>4

\* ... of the answer to sending a delayed event.
LEMMA DelayedEventFollows ==
    ASSUME RtcTypes, LifeInv, NEW m \in Managers, running[m], request[m] # NoRequest, ScheduleOf(m),
           DelayedEventAnswered(m, request[m].answer)
    PROVE  Follows(m)
<1> DEFINE s == ToSet(actions[m])
           a == "SendDelayedEvent"
           ans == request[m].answer
<1>1. request[m].kind = a /\ a \in s /\ request[m].kind \notin LeaveTypes
  BY DEF ScheduleOf, DelayedEventAnswered, Awaits, LeaveTypes
<1>2. hasMember' = hasMember /\ hasMember[m] \in BOOLEAN /\ wakeup[m] \in {"none", "join", "leave"}
  BY DEF DelayedEventAnswered, RtcTypes
<1>3. wakeup[m] # "join" /\ (~activated[m] => wakeup[m] # "none")
  BY <1>1, <1>2 DEF ScheduleOf, LeaveTypes
<1>4. activated[m] => \/ s = {a} /\ ~hasMember[m]
                      \/ s = {"UpdateExpiry", a} /\ (hasMember[m] => delayId[m] = NoId)
  BY <1>1 DEF ScheduleOf, IsConnected
<1>5. {a, "RestartDelayedEvent", "SendJoinEvent"} \subseteq ActionTypes
  BY DEF ActionTypes
<1>6. ASSUME NEW x \in {a, "RestartDelayedEvent", "SendJoinEvent"}, GoOn(m, Insert(m, a, <<x>>)),
             x = "RestartDelayedEvent" => hasMember[m],
             x = a => delayId' = delayId
      PROVE  Follows(m)
  <2>1. activated[m] => /\ x \notin s \ {a}
                        /\ IsConnected((s \ {a}) \cup {x}, hasMember'[m], delayId'[m])
    <3>1. CASE s = {a} /\ ~hasMember[m]
      <4>1. x # "RestartDelayedEvent" /\ (s \ {a}) \cup {x} = {x}
        BY <1>6, <3>1
      <4> QED
        BY <1>2, <3>1, <4>1 DEF IsConnected
    <3>2. CASE s = {"UpdateExpiry", a} /\ (hasMember[m] => delayId[m] = NoId)
      <4>1. (s \ {a}) \cup {x} = {"UpdateExpiry", x} /\ x \notin s \ {a}
        BY <3>2
      <4> QED
        BY <1>2, <1>6, <3>2, <4>1 DEF IsConnected
    <3> QED
      BY <1>4, <3>1, <3>2
  <2>2. \E acts : Fitting(m, acts) /\ acts # <<>>
    <3>1. x \in ActionTypes
      BY <1>5
    <3> QED
      BY <1>1, <1>2, <1>3, <1>6, <2>1, <3>1, InsertFits
  <2> QED
    BY <1>1, <1>2, <2>2 DEF Follows, LeaveTypes
<1>7. CASE ans = "ok"
  <2>1. GoOn(m, Insert(m, a, <<IF hasMember[m] THEN "RestartDelayedEvent" ELSE "SendJoinEvent">>))
    BY <1>7 DEF DelayedEventAnswered
  <2> QED
    BY <1>6, <2>1
<1>8. CASE ans = "maxDelay"
  <2>1. GoOn(m, Insert(m, a, <<a>>)) /\ delayId' = delayId
    BY <1>8 DEF DelayedEventAnswered
  <2> QED
    BY <1>6, <2>1
<1>9. CASE ans = "retry"
  <2>1. (GoOn(m, Insert(m, a, <<a>>)) \/ Throw(m)) /\ delayId' = delayId
    BY <1>9 DEF DelayedEventAnswered, Retry
  <2>2. CASE Throw(m)
    BY <1>1, <1>2, <2>2 DEF Follows, LeaveTypes
  <2> QED
    BY <1>6, <2>1, <2>2
<1>10. CASE ans \in {"unsupported", "other"}
  <2>1. \/ ~hasMember[m] /\ GoOn(m, Insert(m, a, <<"SendJoinEvent">>))
        \/ hasMember[m] /\ GoOn(m, Insert(m, a, <<>>))
        \/ Throw(m)
    BY <1>10 DEF DelayedEventAnswered
  <2>2. CASE ~hasMember[m] /\ GoOn(m, Insert(m, a, <<"SendJoinEvent">>))
    BY <1>6, <2>2
  <2>3. CASE Throw(m)
    BY <1>1, <1>2, <2>3 DEF Follows, LeaveTypes
  <2>4. CASE hasMember[m] /\ GoOn(m, Insert(m, a, <<>>))
    <3> DEFINE acts == Insert(m, a, <<>>)
    <3>1. acts \in Seq(ActionTypes) /\ IsInjective(acts) /\ ToSet(acts) = s \ {a}
      BY InsertEntries DEF ScheduleOf
    <3>2. GoOn(m, acts)
      BY <2>4
    <3> HIDE DEF acts
    <3>3. activated[m] => ToSet(acts) = {"UpdateExpiry"}
      BY <1>4, <2>4, <3>1
    <3>4. Fitting(m, acts)
      BY <1>3, <3>1, <3>2, <3>3 DEF Fitting, IsConnected
    <3> QED
      BY <1>1, <1>2, <3>4 DEF Follows, LeaveTypes
  <2> QED
    BY <2>1, <2>2, <2>3, <2>4
<1> QED
  BY <1>7, <1>8, <1>9, <1>10 DEF DelayedEventAnswered

\* ... of the answer to cancelling one: the manager does not think it is a member.
LEMMA CancelFollows ==
    ASSUME RtcTypes, LifeInv, NEW m \in Managers, running[m], request[m] # NoRequest, ScheduleOf(m),
           CancelAnswered(m, request[m].answer)
    PROVE  Follows(m)
<1> DEFINE s == ToSet(actions[m])
           a == "SendDelayedEvent"
<1>1. /\ request[m].kind = "CancelDelayedEvent" /\ a \in s /\ request[m].kind \notin LeaveTypes
      /\ request[m].kind # "SendJoinEvent" /\ delayId[m] # NoId
  BY DEF ScheduleOf, CancelAnswered, Awaits, LeaveTypes
<1>2. hasMember' = hasMember /\ hasMember[m] \in BOOLEAN /\ wakeup[m] \in {"none", "join", "leave"}
  BY DEF CancelAnswered, RtcTypes
<1>3. wakeup[m] # "join" /\ (~activated[m] => wakeup[m] # "none")
  BY <1>1, <1>2 DEF ScheduleOf, LeaveTypes
<1>4. activated[m] => ~hasMember[m] /\ s \in {{a}, {"UpdateExpiry", a}}
  BY <1>1 DEF ScheduleOf, IsConnected
<1>5. a \in ActionTypes
  BY DEF ActionTypes
<1>6. CASE GoOn(m, <<a>>)
  <2>1. <<a>> \in Seq(ActionTypes) /\ IsInjective(<<a>>) /\ ToSet(<<a>>) = {a}
    BY <1>5, SingleEntry
  <2>2. Fitting(m, <<a>>)
    BY <1>2, <1>3, <1>4, <1>6, <2>1 DEF Fitting, IsConnected
  <2> QED
    BY <1>1, <1>2, <2>2 DEF Follows
<1>7. CASE GoOn(m, Insert(m, a, <<a>>)) /\ delayId' = delayId
  <2>1. activated[m] => /\ a \notin s \ {a}
                        /\ IsConnected((s \ {a}) \cup {a}, hasMember'[m], delayId'[m])
    <3>1. (s \ {a}) \cup {a} = s
      BY <1>1
    <3> QED
      BY <1>2, <1>4, <3>1 DEF IsConnected
  <2>2. \E acts : Fitting(m, acts) /\ acts # <<>>
    BY <1>1, <1>2, <1>3, <1>5, <1>7, <2>1, InsertFits
  <2> QED
    BY <1>1, <1>2, <2>2 DEF Follows
<1>8. CASE Throw(m)
  BY <1>1, <1>2, <1>8 DEF Follows
<1> QED
  BY <1>6, <1>7, <1>8 DEF CancelAnswered, Retry

\* ... of the answer to restarting one.
LEMMA RestartFollows ==
    ASSUME RtcTypes, LifeInv, NEW m \in Managers, running[m], request[m] # NoRequest, ScheduleOf(m),
           RestartAnswered(m, request[m].answer)
    PROVE  Follows(m)
<1> DEFINE s == ToSet(actions[m])
           a == "RestartDelayedEvent"
<1>1. request[m].kind = a /\ a \in s /\ request[m].kind \notin LeaveTypes
      /\ request[m].kind # "SendJoinEvent"
  BY DEF ScheduleOf, RestartAnswered, Awaits, LeaveTypes
<1>2. hasMember' = hasMember /\ hasMember[m] \in BOOLEAN /\ wakeup[m] \in {"none", "join", "leave"}
  BY DEF RestartAnswered, RtcTypes
<1>3. /\ wakeup[m] = "join" => ~hasMember'[m]
      /\ ~activated[m] => wakeup[m] # "none"
  BY <1>1, <1>2 DEF ScheduleOf, LeaveTypes
<1>4. activated[m] => s = {"UpdateExpiry", a}
  BY <1>1 DEF ScheduleOf, IsConnected
<1>5. a \in ActionTypes /\ "SendDelayedEvent" \in ActionTypes
  BY DEF ActionTypes
<1>6. ASSUME NEW x \in {a, "SendDelayedEvent"}, GoOn(m, Insert(m, a, <<x>>)),
             x = "SendDelayedEvent" => delayId'[m] = NoId
      PROVE  Follows(m)
  <2>1. activated[m] => /\ x \notin s \ {a}
                        /\ IsConnected((s \ {a}) \cup {x}, hasMember'[m], delayId'[m])
    <3>1. activated[m] => (s \ {a}) \cup {x} = {"UpdateExpiry", x} /\ x \notin s \ {a}
      BY <1>4
    <3> QED
      BY <1>6, <3>1 DEF IsConnected
  <2>2. \E acts : Fitting(m, acts) /\ acts # <<>>
    BY <1>1, <1>2, <1>3, <1>5, <1>6, <2>1, InsertFits
  <2> QED
    BY <1>1, <1>2, <2>2 DEF Follows
<1>7. CASE Throw(m)
  BY <1>1, <1>2, <1>7 DEF Follows
<1>8. \/ GoOn(m, Insert(m, a, <<a>>)) \/ Throw(m)
      \/ GoOn(m, Insert(m, a, <<"SendDelayedEvent">>)) /\ delayId'[m] = NoId
  <2>1. \/ GoOn(m, Insert(m, a, <<a>>)) \/ Throw(m)
        \/ /\ GoOn(m, Insert(m, a, <<"SendDelayedEvent">>))
           /\ delayId' = [delayId EXCEPT ![m] = NoId]
    BY DEF RestartAnswered, Retry
  <2> QED
    BY <2>1 DEF RtcTypes
<1> QED
  BY <1>6, <1>7, <1>8

\* ... of the answers to the requests of a manager that leaves.
LEMMA LeavingFollows ==
    ASSUME RtcTypes, LifeInv, NEW m \in Managers, running[m], request[m] # NoRequest, ScheduleOf(m),
           \/ ScheduledLeaveAnswered(m, request[m].answer)
           \/ LeaveAnswered(m, request[m].answer)
    PROVE  Follows(m)
<1> DEFINE s == ToSet(actions[m])
           a == request[m].kind
<1>1. a \in LeaveTypes /\ a \in s /\ a # "SendJoinEvent"
  BY DEF ScheduleOf, ScheduledLeaveAnswered, LeaveAnswered, Awaits, LeaveTypes
<1>2. hasMember[m] \in BOOLEAN /\ wakeup[m] \in {"none", "join", "leave"}
  BY DEF RtcTypes
<1>3. ~activated[m] /\ wakeup[m] # "join"
  <2>1. ~activated[m]
    BY <1>1 DEF ScheduleOf, IsConnected, LeaveTypes
  <2> QED
    BY <2>1 DEF ScheduleOf
<1>4. \/ GoOn(m, <<>>) /\ request[m].answer = "ok" /\ hasMember' = [hasMember EXCEPT ![m] = FALSE]
      \/ /\ GoOn(m, Insert(m, a, <<"SendLeaveEvent">>)) \/ Throw(m)
         /\ request[m].answer # "ok" /\ hasMember' = hasMember
  BY DEF ScheduledLeaveAnswered, LeaveAnswered, Retry
<1>5. CASE GoOn(m, <<>>) /\ request[m].answer = "ok" /\ hasMember' = [hasMember EXCEPT ![m] = FALSE]
  <2>1. Fitting(m, <<>>)
    BY <1>3, <1>5 DEF Fitting
  <2>2. hasMember'[m] = FALSE
    BY <1>5 DEF RtcTypes
  <2> QED
    BY <1>1, <1>5, <2>1, <2>2 DEF Follows
<1>6. CASE Throw(m) /\ request[m].answer # "ok" /\ hasMember' = hasMember
  BY <1>6 DEF Follows
<1>7. CASE /\ GoOn(m, Insert(m, a, <<"SendLeaveEvent">>))
           /\ request[m].answer # "ok" /\ hasMember' = hasMember
  <2>1. "SendLeaveEvent" \in ActionTypes /\ "SendLeaveEvent" \in LeaveTypes
    BY DEF ActionTypes, LeaveTypes
  <2>2. \E acts : Fitting(m, acts) /\ acts # <<>>
    BY <1>1, <1>2, <1>3, <1>7, <2>1, InsertFits
  <2> QED
    BY <1>7, <2>2 DEF Follows
<1> QED
  BY <1>4, <1>5, <1>6, <1>7

\* ... of the answer to an update of the expiry.
LEMMA ExpiryFollows ==
    ASSUME RtcTypes, LifeInv, NEW m \in Managers, running[m], request[m] # NoRequest, ScheduleOf(m),
           ExpiryAnswered(m, request[m].answer)
    PROVE  Follows(m)
<1> DEFINE s == ToSet(actions[m])
           a == "UpdateExpiry"
<1>1. request[m].kind = a /\ a \in s /\ request[m].kind \notin LeaveTypes
      /\ request[m].kind # "SendJoinEvent"
  BY DEF ScheduleOf, ExpiryAnswered, Awaits, LeaveTypes
<1>2. hasMember' = hasMember /\ delayId' = delayId /\ hasMember[m] \in BOOLEAN
      /\ wakeup[m] \in {"none", "join", "leave"}
  BY DEF ExpiryAnswered, RtcTypes
<1>3. /\ wakeup[m] = "join" => ~hasMember'[m]
      /\ ~activated[m] => wakeup[m] # "none"
  BY <1>1, <1>2 DEF ScheduleOf, LeaveTypes
<1>4. CASE GoOn(m, Insert(m, a, <<a>>))
  <2>1. (s \ {a}) \cup {a} = s /\ a \notin s \ {a} /\ a \in ActionTypes
    BY <1>1 DEF ActionTypes
  <2>2. activated[m] => IsConnected((s \ {a}) \cup {a}, hasMember'[m], delayId'[m])
    BY <1>2, <2>1 DEF ScheduleOf
  <2>3. \E acts : Fitting(m, acts) /\ acts # <<>>
    BY <1>1, <1>2, <1>3, <1>4, <2>1, <2>2, InsertFits
  <2> QED
    BY <1>1, <1>2, <2>3 DEF Follows
<1>5. CASE Throw(m)
  BY <1>1, <1>2, <1>5 DEF Follows
<1> QED
  BY <1>4, <1>5 DEF ExpiryAnswered, Retry

\* ... of the answer to sending the membership: restarts and an update of the expiry follow.
LEMMA JoinFollows ==
    ASSUME RtcTypes, LifeInv, NEW m \in Managers, running[m], request[m] # NoRequest, ScheduleOf(m),
           JoinAnswered(m, request[m].answer)
    PROVE  Follows(m)
<1> DEFINE s == ToSet(actions[m])
           a == "SendJoinEvent"
<1>1. request[m].kind = a /\ a \in s /\ request[m].kind \notin LeaveTypes
  BY DEF ScheduleOf, JoinAnswered, Awaits, LeaveTypes
<1>2. hasMember[m] \in BOOLEAN /\ wakeup[m] \in {"none", "join", "leave"}
  BY DEF RtcTypes
<1>3. wakeup[m] # "join" /\ (~activated[m] => wakeup[m] # "none")
  BY <1>1, <1>2 DEF ScheduleOf, LeaveTypes
<1>4. activated[m] => s \in {{a}, {"UpdateExpiry", a}}
  BY <1>1 DEF ScheduleOf, IsConnected
<1>5. CASE request[m].answer = "ok"
  <2> DEFINE w == Without(actions[m], {"UpdateExpiry", a})
             new == <<"RestartDelayedEvent", "UpdateExpiry">>
             acts == w \o new
  <2>1. GoOn(m, acts) /\ hasMember' = [hasMember EXCEPT ![m] = TRUE]
    BY <1>5 DEF JoinAnswered
  <2>2. /\ w \in Seq(ActionTypes) /\ ToSet(w) = s \ {"UpdateExpiry", a} /\ IsInjective(w)
    BY WithoutEntries DEF ScheduleOf
  <2>3. new \in Seq(ActionTypes) /\ ToSet(new) = {"RestartDelayedEvent", "UpdateExpiry"}
        /\ IsInjective(new)
    <3>1. DOMAIN new = {1, 2} /\ new[1] = "RestartDelayedEvent" /\ new[2] = "UpdateExpiry"
      OBVIOUS
    <3>2. new \in Seq(ActionTypes)
      BY DEF ActionTypes
    <3> HIDE DEF new
    <3> QED
      BY <3>1, <3>2 DEF ToSet, IsInjective
  <2> HIDE DEF w, new
  <2>4. acts \in Seq(ActionTypes) /\ ToSet(acts) = ToSet(w) \cup ToSet(new)
        /\ (ToSet(w) \cap ToSet(new) = {} => IsInjective(acts))
    BY <2>2, <2>3, ConcatQueues
  <2> HIDE DEF acts
  <2>5. activated[m] => /\ IsInjective(acts) /\ ToSet(acts) = {"UpdateExpiry", "RestartDelayedEvent"}
    BY <1>4, <2>2, <2>3, <2>4
  <2>6. Fitting(m, acts)
    BY <1>3, <2>1, <2>4, <2>5 DEF Fitting, IsConnected
  <2>7. hasMember'[m] = TRUE
    BY <2>1 DEF RtcTypes
  <2> QED
    BY <1>1, <1>5, <2>6, <2>7 DEF Follows
<1>6. CASE GoOn(m, Insert(m, a, <<a>>)) /\ hasMember' = hasMember /\ request[m].answer # "ok"
  <2>1. (s \ {a}) \cup {a} = s /\ a \notin s \ {a} /\ a \in ActionTypes
    BY <1>1 DEF ActionTypes
  <2>2. activated[m] => IsConnected((s \ {a}) \cup {a}, hasMember'[m], delayId'[m])
    BY <1>4, <2>1 DEF IsConnected
  <2>3. \E acts : Fitting(m, acts) /\ acts # <<>>
    BY <1>1, <1>2, <1>3, <1>6, <2>1, <2>2, InsertFits
  <2> QED
    BY <1>1, <1>6, <2>3 DEF Follows
<1>7. CASE Throw(m) /\ hasMember' = hasMember /\ request[m].answer # "ok"
  BY <1>1, <1>7 DEF Follows
<1> QED
  BY <1>5, <1>6, <1>7 DEF JoinAnswered, Retry

\* Whatever is answered, the manager goes on with what fits it or has failed.
LEMMA AnswerFollows ==
    ASSUME RtcTypes, LifeInv, NEW m \in Managers, ScheduleInv, HandleAnswer(m)
    PROVE  Follows(m) /\ ScheduleOf(m)
<1>1. running[m] /\ request[m] # NoRequest
  BY AnswerEnds
<1>2. ScheduleOf(m)
  BY <1>1 DEF ScheduleInv
<1> QED
  BY <1>1, <1>2, DelayedEventFollows, CancelFollows, RestartFollows, LeavingFollows, ExpiryFollows,
     JoinFollows DEF HandleAnswer

-----------------------------------------------------------------------------
(* The steps of a manager.                                                 *)

\* When an action ends, the schedule of its manager fits, and the others' are as they were.
LEMMA EndKeepsSchedule ==
    ASSUME RtcTypes, LifeInv, ScheduleInv, NEW m \in Managers, running[m], OnlyOf(m),
           Throw(m) \/ \E acts : Fitting(m, acts)
    PROVE  ScheduleInv'
<1>1. ScheduleOf(m)
  BY DEF ScheduleInv
<1>2. ASSUME running'[m] PROVE ScheduleOf(m)'
  <2>1. ~Throw(m)
    BY <1>2 DEF Throw, RtcTypes
  <2> QED
    BY <1>1, <1>2, <2>1, FittingKeeps
<1>3. ASSUME NEW n \in Managers, n # m, running'[n] PROVE ScheduleOf(n)'
  <2>1. UNCHANGED <<hasMember[n], delayId[n]>>
    BY <1>3 DEF OnlyOf, RtcTypes
  <2>2. UNCHANGED <<running[n], activated[n], actions[n], wakeup[n], request[n]>>
    <3>1. CASE Throw(m)
      BY <1>3, <3>1 DEF Throw, RtcTypes
    <3>2. ASSUME NEW acts, Left(m, acts)
          PROVE  UNCHANGED <<running[n], activated[n], actions[n], wakeup[n], request[n]>>
      BY <1>3, <3>2 DEF Left, RtcTypes
    <3> QED
      BY <3>1, <3>2 DEF Fitting, GoOn
  <2>3. ScheduleOf(n)
    BY <1>3, <2>2 DEF ScheduleInv
  <2> QED
    BY <2>1, <2>2, <2>3 DEF ScheduleOf
<1> QED
  BY <1>2, <1>3 DEF ScheduleInv

\* ... and it knows of its membership, if it does not leave with one.
LEMMA EndKeepsKnowledge ==
    ASSUME RtcTypes, LifeInv, ScheduleInv, KnowledgeInv, NEW m \in Managers, running[m], OnlyOf(m),
           Throw(m) \/ \E acts : /\ GoOn(m, acts)
                                 /\ acts = <<>> /\ ToSet(actions[m]) \in {{a} : a \in LeaveTypes}
                                    /\ m \notin misled => member # m,
           member = m /\ m \notin misled => hasMember'[m]
    PROVE  KnowledgeInv'
<1>1. misled' = misled /\ member' = member
  BY DEF OnlyOf, serverVars
<1>2. died \subseteq died' /\ request' = [request EXCEPT ![m] = NoRequest]
  BY DEF Throw, GoOn, Left
<1>3. ASSUME NEW n \in Managers \ misled, n # m
      PROVE  /\ UNCHANGED <<hasMember[n], request[n], leaving[n]>>
  <2>1. leaving'[n] = leaving[n]
    BY <1>3 DEF Throw, GoOn, Left, RtcTypes
  <2>2. hasMember'[n] = hasMember[n]
    BY <1>3 DEF OnlyOf, RtcTypes
  <2>3. request'[n] = request[n]
    BY <1>2, <1>3 DEF RtcTypes
  <2> QED
    BY <2>1, <2>2, <2>3
<1>4. ASSUME NEW n \in Managers \ misled
      PROVE  (/\ member = n => \/ hasMember[n]
                               \/ request[n].kind = "SendJoinEvent" /\ request[n].answer = "ok"
              /\ request[n].kind \in LeaveTypes /\ request[n].answer = "ok" => member # n
              /\ leaving[n] = "true" /\ n \notin died => member # n)'
  <2>1. CASE n # m
    BY <1>1, <1>2, <1>3, <2>1 DEF KnowledgeInv
  <2>2. CASE n = m
    <3>1. request'[m] = NoRequest
      BY <1>2 DEF RtcTypes
    <3>2. NoRequest.kind \notin LeaveTypes
      BY DEF NoRequest, LeaveTypes
    <3>3. ASSUME leaving'[m] = "true", m \notin died' PROVE member # m
      <4>1. ~Throw(m)
        BY <3>3 DEF Throw
      <4>2. PICK acts : /\ GoOn(m, acts)
                        /\ acts = <<>> /\ ToSet(actions[m]) \in {{a} : a \in LeaveTypes}
                           /\ m \notin misled => member # m
        BY <4>1
      <4>3. leaving[m] # "true" /\ (leaving[m] = "pending" => ~activated[m])
        BY DEF LifeInv
      <4>4. /\ wakeup[m] \notin {"join", "leave"} /\ acts = <<>> /\ ~activated[m]
        <5> DEFINE next == CASE wakeup[m] = "join"  -> <<"SendDelayedEvent">>
                             [] wakeup[m] = "leave" -> <<"SendScheduledDelayedLeaveEvent">>
                             [] wakeup[m] = "none"  -> acts
        <5>1. Left(m, next)
          BY <4>2 DEF GoOn
        <5>2. wakeup[m] \in {"none", "join", "leave"}
          BY DEF RtcTypes
        <5>3. next = <<>>
          <6> SUFFICES ASSUME next # <<>> PROVE FALSE
            OBVIOUS
          <6> HIDE DEF next
          <6>1. leaving' = leaving
            BY <5>1 DEF Left
          <6> QED
            BY <3>3, <4>3, <6>1
        <5>4. leaving' # leaving
          BY <3>3, <4>3
        <5>5. leaving[m] = "pending"
          <6> HIDE DEF next
          <6>1. leaving' = [leaving EXCEPT ![m] = IF @ = "pending" THEN "true" ELSE @]
            BY <5>1, <5>4 DEF Left
          <6> QED
            BY <3>3, <4>3, <6>1 DEF RtcTypes
        <5> QED
          BY <4>3, <5>2, <5>3, <5>5
      <4>5. ToSet(actions[m]) \in {{a} : a \in LeaveTypes}
        BY <4>4 DEF ScheduleInv, ScheduleOf
      <4> QED
        BY <2>2, <4>2, <4>4, <4>5
    <3> QED
      BY <1>1, <2>2, <3>1, <3>2, <3>3
  <2> QED
    BY <2>1, <2>2
<1> QED
  BY <1>1, <1>4 DEF KnowledgeInv

\* An answer arrives.
LEMMA AnswerKeeps ==
    ASSUME RtcInv, NEW m \in Managers, HandleAnswer(m)
    PROVE  RtcInv'
<1>1. RtcTypes /\ LifeInv
  BY DEF RtcInv
<1>2. /\ running[m] /\ request[m] # NoRequest /\ OnlyOf(m)
      /\ Throw(m) \/ \E acts : GoOn(m, acts)
  BY <1>1, AnswerEnds
<1>3. RtcTypes' /\ LifeInv'
  BY <1>1, <1>2, EndKeeps
<1>4. UNCHANGED <<current, intent, member, delayed, errors, intents, misled>>
  BY <1>2 DEF OnlyOf, serverVars, bounds
<1>5. ASSUME intents = 0 PROVE ScheduledOnly'
  <2>1. ScheduleInv /\ KnowledgeInv /\ \A n \in Managers : intent[n] = NoRequest
    BY <1>5 DEF RtcInv, ScheduledOnly
  <2>2. Follows(m) /\ ScheduleOf(m)
    BY <1>1, <2>1, AnswerFollows
  <2>3. ScheduleInv'
    <3>1. Throw(m) \/ \E acts : Fitting(m, acts)
      BY <2>2 DEF Follows
    <3> QED
      BY <1>1, <1>2, <2>1, <3>1, EndKeepsSchedule
  <2>4. KnowledgeInv'
    <3>1. member = m /\ m \notin misled => hasMember'[m]
      BY <2>1, <2>2 DEF KnowledgeInv, Follows
    <3>2. ASSUME NEW acts, Fitting(m, acts),
                 acts = <<>> /\ request[m].kind \in LeaveTypes => request[m].answer = "ok",
                 acts = <<>>, ToSet(actions[m]) \in {{a} : a \in LeaveTypes}, m \notin misled
          PROVE  member # m
      <4>1. request[m].kind \in LeaveTypes
        BY <1>2, <2>2, <3>2 DEF ScheduleOf, Awaits, LeaveTypes
      <4> QED
        BY <2>1, <3>2, <4>1 DEF KnowledgeInv
    <3>3. Throw(m) \/ \E acts : /\ GoOn(m, acts)
                                /\ acts = <<>> /\ ToSet(actions[m]) \in {{a} : a \in LeaveTypes}
                                   /\ m \notin misled => member # m
      <4>1. CASE Throw(m)
        BY <4>1
      <4>2. CASE ~Throw(m)
        <5>1. PICK acts : Fitting(m, acts)
                          /\ (acts = <<>> /\ request[m].kind \in LeaveTypes => request[m].answer = "ok")
          BY <2>2, <4>2 DEF Follows
        <5>2. GoOn(m, acts)
          BY <5>1 DEF Fitting
        <5> QED
          BY <3>2, <5>1, <5>2
      <4> QED
        BY <4>1, <4>2
    <3> QED
      BY <1>1, <1>2, <2>1, <3>1, <3>3, EndKeepsKnowledge
  <2> QED
    BY <1>4, <2>1, <2>3, <2>4 DEF ScheduledOnly
<1>6. ASSUME errors = 0, current <= 1 PROVE DelayedInv'
  <2>1. m = 1 /\ DelayedInv
    BY <1>1, <1>2, <1>6 DEF RtcInv, LifeInv, RtcTypes, Managers
  <2>2. request'[1] = NoRequest
    BY <1>1, <1>2, <2>1 DEF Throw, GoOn, Left, RtcTypes
  <2>3. NoRequest.kind = "none"
    BY DEF NoRequest
  <2>4. delayed \subseteq {delayId'[1]} /\ NoId \notin delayed
    <3>1. request[1].kind = "SendDelayedEvent" => \/ delayed = {}
                                                  \/ delayId' = [delayId EXCEPT ![1] = request[1].id]
      BY <2>1 DEF HandleAnswer, DelayedInv, DelayedEventAnswered, CancelAnswered, RestartAnswered,
                  ScheduledLeaveAnswered, JoinAnswered, ExpiryAnswered, LeaveAnswered
    <3>2. request[1].kind # "SendDelayedEvent" => delayed = {} \/ delayId' = delayId
      BY <1>1, <2>1 DEF HandleAnswer, DelayedInv, DelayedEventAnswered, CancelAnswered,
                        RestartAnswered,
                  ScheduledLeaveAnswered, JoinAnswered, ExpiryAnswered, LeaveAnswered, RtcTypes
    <3> QED
      BY <1>1, <2>1, <3>1, <3>2 DEF DelayedInv, RtcTypes
  <2> QED
    BY <1>4, <2>2, <2>3, <2>4 DEF DelayedInv
<1> QED
  BY <1>3, <1>4, <1>5, <1>6 DEF RtcInv

\* An action begins: it asks or is over at once.
LEMMA BeginKeeps ==
    ASSUME RtcInv, NEW m \in Managers, NEW a \in ActionTypes, Begin(m, a)
    PROVE  RtcInv'
<1> DEFINE s == ToSet(actions[m])
<1>1. RtcTypes /\ LifeInv /\ running[m] /\ request[m] = NoRequest /\ m <= current
  BY DEF RtcInv, Begin, LifeInv, RtcTypes, Managers
<1>2. /\ UNCHANGED <<current, intent, hasMember, delayId, member, delayed, errors, intents, misled>>
      /\ hasMember[m] \in BOOLEAN
  BY <1>1 DEF Begin, serverVars, bounds, RtcTypes
<1>3. OnlyOf(m)
  <2>1. hasMember = [hasMember EXCEPT ![m] = hasMember[m]]
        /\ delayId = [delayId EXCEPT ![m] = delayId[m]]
    BY <1>1 DEF RtcTypes
  <2> QED
    BY <1>2, <2>1 DEF OnlyOf, Begin
<1>4. wakeup[m] = "none" /\ NoRequest.kind = "none"
  BY <1>1 DEF LifeInv, RtcTypes, NoRequest
<1>5. a \in s
  BY DEF Begin, Contains, ToSet
<1>6. ASSUME NEW kind \in Kinds, Ask(m, kind), Awaits(kind) = a,
             kind = "CancelDelayedEvent" => delayId[m] # NoId,
             kind = "SendDelayedEvent" => delayId[m] = NoId
      PROVE  RtcInv'
  <2> DEFINE r == [kind |-> kind, id |-> delayId[m], answer |-> "none"]
  <2>1. /\ request' = [request EXCEPT ![m] = r]
        /\ UNCHANGED <<actions, wakeup, running, activated, leaving, died>>
    BY <1>6 DEF Ask
  <2>2. r # NoRequest /\ IsRequest(r) /\ r.kind = kind /\ r.answer = "none"
    BY DEF NoRequest, IsRequest, Kinds, ActionTypes, Answers
  <2>3. request'[m] = r /\ \A n \in Managers \ {m} : request'[n] = request[n]
    BY <1>1, <2>1 DEF RtcTypes
  <2>4. RtcTypes'
    <3>1. request' = [n \in Managers |-> request'[n]]
      BY <1>1, <2>1 DEF RtcTypes
    <3>2. \A n \in Managers : IsRequest(request'[n])
      BY <1>1, <2>2, <2>3 DEF RtcTypes
    <3> HIDE DEF r
    <3> QED
      BY <1>1, <1>2, <2>1, <3>1, <3>2 DEF RtcTypes
  <2> HIDE DEF r
  <2>5. LifeInv'
    BY <1>1, <1>2, <2>1, <2>2, <2>3 DEF LifeInv
  <2>6. ASSUME intents = 0 PROVE ScheduledOnly'
    <3>1. ScheduleInv /\ KnowledgeInv /\ \A n \in Managers : intent[n] = NoRequest
      BY <2>6 DEF RtcInv, ScheduledOnly
    <3>2. ScheduleInv'
      BY <1>2, <1>5, <1>6, <2>1, <2>2, <2>3, <3>1 DEF ScheduleInv, ScheduleOf
    <3>3. KnowledgeInv'
      BY <1>1, <1>2, <1>4, <2>1, <2>2, <2>3, <3>1 DEF KnowledgeInv
    <3> QED
      BY <1>2, <3>1, <3>2, <3>3 DEF ScheduledOnly
  <2>7. ASSUME errors = 0, current <= 1 PROVE DelayedInv'
    <3>1. m = 1 /\ DelayedInv
      BY <1>1, <2>7 DEF RtcInv, RtcTypes, Managers
    <3>2. r.id = delayId[1]
      BY <3>1 DEF r
    <3>3. delayed \subseteq {delayId[1]} /\ NoId \notin delayed
      BY <1>1, <1>4, <3>1 DEF DelayedInv
    <3> QED
      BY <1>2, <1>6, <2>2, <2>3, <3>1, <3>2, <3>3 DEF DelayedInv
  <2> QED
    BY <1>2, <2>4, <2>5, <2>6, <2>7 DEF RtcInv
<1>7. ASSUME NEW acts, GoOn(m, acts),
             intents = 0 => \E new : Fitting(m, new),
             intents = 0 /\ acts = <<>> => a \in LeaveTypes /\ ~hasMember[m]
      PROVE  RtcInv'
  <2>1. RtcTypes' /\ LifeInv'
    BY <1>1, <1>3, <1>7, EndKeeps
  <2>2. ASSUME intents = 0 PROVE ScheduledOnly'
    <3>1. ScheduleInv /\ KnowledgeInv /\ \A n \in Managers : intent[n] = NoRequest
      BY <2>2 DEF RtcInv, ScheduledOnly
    <3>2. ScheduleInv'
      BY <1>1, <1>3, <1>7, <2>2, <3>1, EndKeepsSchedule
    <3>3. member = m /\ m \notin misled => hasMember[m]
      BY <1>1, <1>4, <3>1 DEF KnowledgeInv
    <3>4. KnowledgeInv'
      BY <1>1, <1>2, <1>3, <1>7, <2>2, <3>1, <3>3, EndKeepsKnowledge
    <3> QED
      BY <1>2, <3>1, <3>2, <3>4 DEF ScheduledOnly
  <2>3. ASSUME errors = 0, current <= 1 PROVE DelayedInv'
    <3>1. m = 1 /\ DelayedInv
      BY <1>1, <2>3 DEF RtcInv, RtcTypes, Managers
    <3>2. request'[1] = NoRequest
      BY <1>1, <1>7, <3>1 DEF GoOn, Left, RtcTypes
    <3> QED
      BY <1>1, <1>2, <1>4, <3>1, <3>2 DEF DelayedInv
  <2> QED
    BY <1>2, <2>1, <2>2, <2>3 DEF RtcInv
<1>8. intents = 0 => ScheduleOf(m)
  BY <1>1 DEF RtcInv, ScheduledOnly, ScheduleInv
<1>9. CASE a = "SendDelayedEvent"
  <2>1. Ask(m, IF delayId[m] = NoId THEN "SendDelayedEvent" ELSE "CancelDelayedEvent")
    BY <1>9 DEF Begin, SendDelayedEvent
  <2>2. \E kind \in Kinds : Ask(m, kind) /\ Awaits(kind) = a
            /\ (kind = "CancelDelayedEvent" => delayId[m] # NoId)
            /\ (kind = "SendDelayedEvent" => delayId[m] = NoId)
    BY <1>9, <2>1 DEF Kinds, Awaits, ActionTypes
  <2> QED
    BY <1>6, <2>2
<1>10. ASSUME Ask(m, a), a # "SendDelayedEvent" PROVE RtcInv'
  <2>1. a \in Kinds /\ Awaits(a) = a /\ a # "CancelDelayedEvent"
    BY DEF Kinds, Awaits, ActionTypes
  <2> QED
    BY <1>6, <1>10, <2>1
<1>11. CASE a \in {"SendJoinEvent", "UpdateExpiry"}
  BY <1>10, <1>11 DEF Begin
<1>12. ASSUME NEW x \in ActionTypes, GoOn(m, Insert(m, a, <<x>>)),
              intents = 0 /\ activated[m] =>
                  x \notin s \ {a} /\ IsConnected((s \ {a}) \cup {x}, hasMember[m], delayId[m]),
              intents = 0 /\ ~activated[m] => x \in LeaveTypes
       PROVE  RtcInv'
  <2>1. intents = 0 => \E new : Fitting(m, new)
    <3> SUFFICES ASSUME intents = 0 PROVE \E new : Fitting(m, new)
      OBVIOUS
    <3>1. hasMember'[m] = hasMember[m] /\ delayId'[m] = delayId[m]
      BY <1>2
    <3> QED
      BY <1>4, <1>5, <1>8, <1>12, <3>1, InsertFits
  <2>2. intents = 0 => Insert(m, a, <<x>>) # <<>>
    BY <1>8, InsertEntries DEF ScheduleOf
  <2> QED
    BY <1>7, <1>12, <2>1, <2>2
<1>13. CASE a = "RestartDelayedEvent"
  <2>1. CASE delayId[m] = NoId
    <3>1. GoOn(m, Insert(m, a, <<"SendDelayedEvent">>))
      BY <1>13, <2>1 DEF Begin, RestartDelayedEvent
    <3>2. intents = 0 /\ activated[m] => s = {"UpdateExpiry", a}
      BY <1>5, <1>8, <1>13 DEF ScheduleOf, IsConnected
    <3>3. intents = 0 => activated[m]
      BY <1>4, <1>5, <1>8, <1>13 DEF ScheduleOf, LeaveTypes
    <3>4. intents = 0 /\ activated[m] => (s \ {a}) \cup {"SendDelayedEvent"} = {"UpdateExpiry", "SendDelayedEvent"}
      BY <1>13, <3>2
    <3>5. "SendDelayedEvent" \in ActionTypes /\ "SendDelayedEvent" # "UpdateExpiry"
      BY DEF ActionTypes
    <3> QED
      BY <1>12, <2>1, <3>1, <3>2, <3>3, <3>4, <3>5 DEF IsConnected
  <2>2. CASE delayId[m] # NoId
    BY <1>10, <1>13, <2>2 DEF Begin, RestartDelayedEvent
  <2> QED
    BY <2>1, <2>2
<1>14. CASE a \in LeaveTypes
  <2>1. intents = 0 => ~activated[m]
    BY <1>5, <1>8, <1>14 DEF ScheduleOf, IsConnected, LeaveTypes
  <2>2. CASE GoOn(m, <<>>) /\ ~hasMember[m]
    <3>1. intents = 0 => Fitting(m, <<>>)
      BY <1>4, <2>2 DEF Fitting
    <3> QED
      BY <1>7, <1>14, <2>2, <3>1
  <2>3. CASE GoOn(m, Insert(m, a, <<"SendLeaveEvent">>))
    <3>1. "SendLeaveEvent" \in ActionTypes /\ "SendLeaveEvent" \in LeaveTypes
      BY DEF ActionTypes, LeaveTypes
    <3> QED
      BY <1>12, <2>1, <2>3, <3>1
  <2>4. CASE Ask(m, a)
    BY <1>10, <1>14, <2>4 DEF LeaveTypes
  <2> QED
    BY <1>14, <2>2, <2>3, <2>4 DEF LeaveTypes, Begin, SendScheduledDelayedLeaveEvent, SendLeaveEvent
<1> QED
  BY <1>9, <1>11, <1>13, <1>14 DEF ActionTypes, LeaveTypes

-----------------------------------------------------------------------------
(* The server.                                                             *)

\* Alone and asking for its first delayed event, the manager gets an id that is free.
LEMMA FirstId ==
    ASSUME RtcTypes, LifeInv, current <= 1, DelayedInv, request[1].kind = "SendDelayedEvent",
           request[1].answer = "none"
    PROVE  FreeId # NoId
<1>1. delayed = {} /\ delayId[1] = NoId /\ request[1].id = NoId
  BY DEF DelayedInv
<1>2. ASSUME NEW m \in Managers PROVE delayId[m] = NoId /\ request[m].id = NoId
  <2>1. CASE m = 1
    BY <1>1, <2>1
  <2>2. CASE m # 1
    <3>1. m > current
      BY <2>2 DEF Managers, RtcTypes
    <3>2. delayId[m] = NoId /\ request[m] = NoRequest
      BY <3>1 DEF LifeInv
    <3> QED
      BY <3>2 DEF NoRequest
  <2> QED
    BY <2>1, <2>2
<1> DEFINE taken == delayed \cup {delayId[m] : m \in Managers} \cup {request[m].id : m \in Managers}
<1>3. taken \subseteq {NoId}
  BY <1>1, <1>2
<1>4. DelayIds \ taken = DelayIds /\ 1 \in DelayIds
  BY <1>3, RtcAssumption DEF DelayIds, NoId, RtcTypes
<1>5. \A e \in DelayIds : 1 <= e
  BY DEF DelayIds
<1>6. FreeId = CHOOSE d \in DelayIds \ taken : \A e \in DelayIds \ taken : d <= e
  BY DEF FreeId
<1> HIDE DEF taken
<1>7. FreeId \in DelayIds
  BY <1>4, <1>5, <1>6
<1> QED
  BY <1>7 DEF DelayIds, NoId

\* What an answer to a request of m changes.
LEMMA AnsweredDoes ==
    ASSUME NEW m \in Managers, NEW r, IsRequest(r), r.answer = "none", r # NoRequest, errors \in Nat,
           NEW r2 \in PossibleAnswers(r), Answered(m, r, r2)
    PROVE  /\ IsRequest(r2) /\ r2.kind = r.kind /\ r2 # NoRequest
           /\ errors' \in Nat /\ (errors' = 0 => errors = 0)
           /\ member' \in {member, 0, m} /\ misled \subseteq misled' /\ misled' \subseteq misled \cup {m}
           /\ member' = m => \/ member = m
                             \/ m \in misled'
                             \/ r.kind = "SendJoinEvent" /\ r2.answer = "ok"
                             \/ hasMember[m]
           /\ r2.answer = "ok" /\ r.kind \in LeaveTypes => member' = 0
<1>1. r2.answer \in Answers /\ r2 = [kind |-> r.kind, id |-> r2.id, answer |-> r2.answer] /\ r2.kind = r.kind
  BY DEF PossibleAnswers
<1>2. r.kind \in Kinds
  BY DEF IsRequest
<1>3. r2.kind # "none"
  BY <1>1, <1>2 DEF Kinds, ActionTypes
<1>4. IsRequest(r2) /\ r2 # NoRequest
  BY <1>1, <1>2, <1>3 DEF IsRequest, NoRequest
<1>0. m # 0
  BY DEF Managers
<1>5. ASSUME NEW ans, Accept(m, r, ans)
      PROVE  /\ member' \in {member, 0, m}
             /\ member' = m => member = m \/ r.kind \in {"SendJoinEvent", "UpdateExpiry"}
             /\ ans = "ok" /\ r.kind \in LeaveTypes => member' = 0
             /\ r.kind = "SendJoinEvent" => ans = "ok"
  <2>1. CASE r.kind = "SendDelayedEvent" /\ member' = member
    BY <2>1 DEF LeaveTypes
  <2>2. CASE /\ r.kind \in {"CancelDelayedEvent", "RestartDelayedEvent", "SendScheduledDelayedLeaveEvent"}
             /\ IF r.kind = "SendScheduledDelayedLeaveEvent" /\ ans = "ok"
                THEN SetMember(0) ELSE UNCHANGED <<member, stream>>
    BY <1>0, <2>2 DEF SetMember, LeaveTypes
  <2>3. CASE /\ r.kind \in {"SendJoinEvent", "UpdateExpiry", "SendLeaveEvent"} /\ ans = "ok"
             /\ member' = IF r.kind = "SendLeaveEvent" THEN 0 ELSE m
    BY <1>0, <2>3 DEF LeaveTypes
  <2> QED
    BY <1>5, <2>1, <2>2, <2>3 DEF Accept, SetMember
<1>6. CASE /\ \E ans \in {"ok", "notFound"} :
                  /\ Accept(m, r, ans)
                  /\ r2 = [r EXCEPT !.answer = ans,
                                    !.id = IF r.kind = "SendDelayedEvent" THEN FreeId ELSE @]
           /\ misled' = IF r.kind = "UpdateExpiry" /\ ~hasMember[m] THEN misled \cup {m} ELSE misled
           /\ UNCHANGED errors
  <2>1. PICK ans \in {"ok", "notFound"} :
            /\ Accept(m, r, ans)
            /\ r2 = [r EXCEPT !.answer = ans, !.id = IF r.kind = "SendDelayedEvent" THEN FreeId ELSE @]
    BY <1>6
  <2>2. r2.answer = ans
    BY <2>1 DEF IsRequest
  <2> QED
    BY <1>1, <1>4, <1>5, <1>6, <2>1, <2>2
<1>7. CASE /\ r.kind = "SendDelayedEvent" /\ ~supported
           /\ r2 = [r EXCEPT !.answer = "unsupported"]
           /\ UNCHANGED <<member, delayed, stream, errors, misled>>
  BY <1>1, <1>4, <1>7 DEF LeaveTypes
<1>8. CASE /\ errors' = errors + 1
           /\ \/ /\ \E ans \in {"ok", "notFound"} : Accept(m, r, ans)
                 /\ r2 = [r EXCEPT !.answer = "retry"]
                 /\ misled' = misled \cup {m}
              \/ /\ r2 \in {[r EXCEPT !.answer = a] : a \in {"retry", "other"} \cup
                                (IF r.kind = "SendDelayedEvent" THEN {"maxDelay"} ELSE {})}
                 /\ UNCHANGED <<member, delayed, stream, misled>>
  <2>1. r2.answer # "ok"
    <3>1. PICK a \in {"retry", "other", "maxDelay"} : r2 = [r EXCEPT !.answer = a]
      BY <1>8
    <3>2. r2.answer = a
      BY <3>1 DEF IsRequest
    <3> QED
      BY <3>1, <3>2
  <2>2. errors' \in Nat /\ errors' # 0
    BY <1>8
  <2>3. CASE (\E ans \in {"ok", "notFound"} : Accept(m, r, ans)) /\ misled' = misled \cup {m}
    BY <1>1, <1>4, <1>5, <2>1, <2>2, <2>3
  <2>4. CASE UNCHANGED <<member, misled>>
    BY <1>1, <1>4, <2>1, <2>2, <2>4
  <2> QED
    BY <1>8, <2>3, <2>4
<1> QED
  BY <1>6, <1>7, <1>8 DEF Answered

\* With no request that failed, the delayed events follow from the answer.
LEMMA AnsweredDelays ==
    ASSUME NEW m \in Managers, NEW r, IsRequest(r), r # NoRequest, errors \in Nat,
           NEW r2 \in PossibleAnswers(r), Answered(m, r, r2), errors' = 0
    PROVE  \/ /\ r.kind = "SendDelayedEvent"
              /\ delayed' = delayed \cup {FreeId} /\ r2.answer = "ok" /\ r2.id = FreeId
           \/ r.kind = "SendDelayedEvent" /\ delayed' = delayed /\ r2.answer = "unsupported"
           \/ /\ r.kind \in {"CancelDelayedEvent", "RestartDelayedEvent", "SendScheduledDelayedLeaveEvent"}
              /\ r2.id = r.id
              /\ r2.answer = IF r.id \in delayed THEN "ok" ELSE "notFound"
              /\ delayed' = IF r.kind = "RestartDelayedEvent" THEN delayed ELSE delayed \ {r.id}
           \/ /\ r.kind \in {"SendJoinEvent", "UpdateExpiry", "SendLeaveEvent"}
              /\ r2.id = r.id /\ delayed' \subseteq delayed
<1>1. CASE \E ans \in {"ok", "notFound"} :
              /\ Accept(m, r, ans)
              /\ r2 = [r EXCEPT !.answer = ans, !.id = IF r.kind = "SendDelayedEvent" THEN FreeId ELSE @]
  <2>1. PICK ans \in {"ok", "notFound"} :
            /\ Accept(m, r, ans)
            /\ r2 = [r EXCEPT !.answer = ans, !.id = IF r.kind = "SendDelayedEvent" THEN FreeId ELSE @]
    BY <1>1
  <2>2. r = [kind |-> r.kind, id |-> r.id, answer |-> r.answer]
    BY DEF IsRequest
  <2>3. r2.answer = ans /\ r2.id = IF r.kind = "SendDelayedEvent" THEN FreeId ELSE r.id
    BY <2>1, <2>2
  <2>4. CASE r.kind = "SendDelayedEvent" /\ delayed' = delayed \cup {FreeId} /\ ans = "ok"
    BY <2>3, <2>4
  <2>5. CASE /\ r.kind \in {"CancelDelayedEvent", "RestartDelayedEvent", "SendScheduledDelayedLeaveEvent"}
             /\ ans = IF r.id \in delayed THEN "ok" ELSE "notFound"
             /\ delayed' = IF r.kind = "RestartDelayedEvent" THEN delayed ELSE delayed \ {r.id}
    BY <2>3, <2>5
  <2>6. CASE /\ r.kind \in {"SendJoinEvent", "UpdateExpiry", "SendLeaveEvent"}
             /\ delayed' = IF CancelsOnState THEN {} ELSE delayed
    BY <2>3, <2>6
  <2> QED
    BY <2>1, <2>4, <2>5, <2>6 DEF Accept
<1>2. CASE /\ r.kind = "SendDelayedEvent" /\ r2 = [r EXCEPT !.answer = "unsupported"]
           /\ UNCHANGED <<member, delayed, stream, errors, misled>>
  <2>1. r2.answer = "unsupported"
    BY <1>2 DEF IsRequest
  <2> QED
    BY <1>2, <2>1
<1>3. CASE errors' = errors + 1
  BY <1>3
<1> QED
  BY <1>1, <1>2, <1>3 DEF Answered

\* The server answers the request that a scheduled action awaits.
LEMMA RequestKeeps ==
    ASSUME RtcInv, NEW m \in Managers, NEW r2 \in PossibleAnswers(request[m]),
           request[m] # NoRequest, request[m].answer = "none",
           Answered(m, request[m], r2), request' = [request EXCEPT ![m] = r2],
           UNCHANGED <<current, running, activated, leaving, actions, wakeup, hasMember, delayId,
                       intent, intents, died>>
    PROVE  RtcInv'
<1> DEFINE r == request[m]
<1>1. RtcTypes /\ LifeInv /\ IsRequest(r) /\ errors \in Nat
  BY DEF RtcInv, RtcTypes
<1>2. running[m] /\ m <= current /\ m # 0
  BY <1>1 DEF LifeInv, RtcTypes, Managers
<1>3. /\ IsRequest(r2) /\ r2.kind = r.kind /\ r2 # NoRequest
      /\ errors' \in Nat /\ (errors' = 0 => errors = 0)
      /\ member' \in {member, 0, m} /\ misled \subseteq misled' /\ misled' \subseteq misled \cup {m}
      /\ member' = m => \/ member = m
                        \/ m \in misled'
                        \/ r.kind = "SendJoinEvent" /\ r2.answer = "ok"
                        \/ hasMember[m]
      /\ r2.answer = "ok" /\ r.kind \in LeaveTypes => member' = 0
  BY <1>1, AnsweredDoes
<1>4. request'[m] = r2 /\ \A n \in Managers \ {m} : request'[n] = request[n]
  BY <1>1 DEF RtcTypes
<1>5. RtcTypes'
  <2>1. request' = [n \in Managers |-> request'[n]]
    BY <1>1 DEF RtcTypes
  <2>2. \A n \in Managers : IsRequest(request'[n])
    BY <1>1, <1>3, <1>4 DEF RtcTypes
  <2> QED
    BY <1>1, <1>3, <2>1, <2>2 DEF RtcTypes
<1>6. \A n \in Managers \ {m} : member' = n => member = n
  BY <1>3 DEF Managers
<1>7. LifeInv'
  <2> SUFFICES ASSUME NEW n \in Managers
               PROVE  /\ n > current => /\ ~running[n] /\ leaving[n] = "none" /\ intent[n] = NoRequest
                                        /\ ~hasMember[n] /\ delayId[n] = NoId /\ member' # n
                      /\ intent[n] # NoRequest => intent[n].kind = "SendJoinEvent"
                      /\ activated[n] => n = current /\ running[n] /\ leaving[n] = "none"
                      /\ running[n] /\ ~activated[n] => leaving[n] = "pending"
                      /\ ~running[n] => request'[n] = NoRequest /\ leaving[n] # "pending"
                      /\ wakeup[n] # "none" => request'[n] # NoRequest
    BY DEF LifeInv
  <2>1. CASE n = m
    BY <1>1, <1>2, <1>3, <1>4, <2>1 DEF LifeInv, RtcTypes, Managers
  <2>2. CASE n # m
    BY <1>1, <1>4, <1>6, <2>2 DEF LifeInv
  <2> QED
    BY <2>1, <2>2
<1>8. ASSUME intents = 0 PROVE ScheduledOnly'
  <2>1. ScheduleInv /\ KnowledgeInv /\ \A n \in Managers : intent[n] = NoRequest
    BY <1>8 DEF RtcInv, ScheduledOnly
  <2>2. ScheduleInv'
    BY <1>1, <1>3, <1>4, <2>1 DEF ScheduleInv, ScheduleOf
  <2>3. ASSUME NEW n \in Managers \ misled', n # m
        PROVE  /\ member' = n => \/ hasMember[n]
                                 \/ request'[n].kind = "SendJoinEvent" /\ request'[n].answer = "ok"
               /\ request'[n].kind \in LeaveTypes /\ request'[n].answer = "ok" => member' # n
               /\ leaving[n] = "true" /\ n \notin died => member' # n
    BY <1>3, <1>4, <1>6, <2>1, <2>3 DEF KnowledgeInv
  <2>4. ASSUME m \notin misled'
        PROVE  /\ member' = m => \/ hasMember[m]
                                 \/ request'[m].kind = "SendJoinEvent" /\ request'[m].answer = "ok"
               /\ request'[m].kind \in LeaveTypes /\ request'[m].answer = "ok" => member' # m
               /\ leaving[m] = "true" /\ m \notin died => member' # m
    <3>1. leaving[m] # "true"
      BY <1>1, <1>2 DEF LifeInv
    <3>2. member = m => hasMember[m]
      BY <1>3, <2>1, <2>4 DEF KnowledgeInv
    <3> QED
      BY <1>2, <1>3, <1>4, <2>4, <3>1, <3>2
  <2>5. KnowledgeInv'
    BY <2>3, <2>4 DEF KnowledgeInv
  <2> QED
    BY <2>1, <2>2, <2>5 DEF ScheduledOnly
<1>9. ASSUME errors' = 0, current <= 1 PROVE DelayedInv'
  <2>1. m = 1 /\ DelayedInv
    BY <1>2, <1>3, <1>9 DEF RtcInv, RtcTypes, Managers
  <2>2. NoRequest.kind = "none"
    BY DEF NoRequest
  <2>3. request'[1] = r2 /\ r = request[1] /\ r # NoRequest /\ r.answer = "none"
    BY <1>4, <2>1
  <2>4. CASE r.kind = "SendDelayedEvent"
    <3>1. FreeId # NoId
      BY <1>1, <1>9, <2>1, <2>3, <2>4, FirstId
    <3>2. \/ delayed' = delayed \cup {FreeId} /\ r2.answer = "ok" /\ r2.id = FreeId
          \/ delayed' = delayed /\ r2.answer = "unsupported"
      BY <1>1, <1>9, <2>4, AnsweredDelays
    <3>3. delayed = {} /\ delayId[1] = NoId
      BY <2>1, <2>3, <2>4 DEF DelayedInv
    <3> QED
      BY <1>3, <2>3, <2>4, <3>1, <3>2, <3>3 DEF DelayedInv
  <2>5. CASE r.kind # "SendDelayedEvent"
    <3>1. \/ /\ r.kind \in {"CancelDelayedEvent", "RestartDelayedEvent", "SendScheduledDelayedLeaveEvent"}
             /\ r2.id = r.id
             /\ r2.answer = IF r.id \in delayed THEN "ok" ELSE "notFound"
             /\ delayed' = IF r.kind = "RestartDelayedEvent" THEN delayed ELSE delayed \ {r.id}
          \/ /\ r.kind \in {"SendJoinEvent", "UpdateExpiry", "SendLeaveEvent"}
             /\ r2.id = r.id /\ delayed' \subseteq delayed
      BY <1>1, <1>9, <2>5, AnsweredDelays
    <3>2. delayed \subseteq {delayId[1]} /\ r.id = delayId[1] /\ NoId \notin delayed
      BY <2>1, <2>3, <2>5 DEF DelayedInv
    <3> QED
      BY <1>3, <2>3, <2>5, <3>1, <3>2 DEF DelayedInv
  <2> QED
    BY <2>4, <2>5
<1> QED
  BY <1>3, <1>5, <1>7, <1>8, <1>9 DEF RtcInv

\* The server answers the request of updateCallIntent.
LEMMA IntentKeeps ==
    ASSUME RtcInv, NEW m \in Managers, NEW r2 \in PossibleAnswers(intent[m]),
           intent[m] # NoRequest, intent[m].answer = "none",
           Answered(m, intent[m], r2), intent' = [intent EXCEPT ![m] = r2],
           UNCHANGED <<current, running, activated, leaving, actions, wakeup, hasMember, delayId,
                       request, intents, died>>
    PROVE  RtcInv'
<1> DEFINE r == intent[m]
<1>1. RtcTypes /\ LifeInv /\ IsRequest(r) /\ errors \in Nat /\ intents # 0
  BY DEF RtcInv, RtcTypes, ScheduledOnly
<1>2. r.kind = "SendJoinEvent" /\ m <= current /\ m # 0
  BY <1>1 DEF LifeInv, RtcTypes, Managers
<1>3. /\ IsRequest(r2) /\ r2.kind = r.kind /\ r2 # NoRequest
      /\ errors' \in Nat /\ (errors' = 0 => errors = 0) /\ member' \in {member, 0, m}
  BY <1>1, AnsweredDoes
<1>4. intent'[m] = r2 /\ \A n \in Managers \ {m} : intent'[n] = intent[n]
  BY <1>1 DEF RtcTypes
<1>5. RtcTypes'
  <2>1. intent' = [n \in Managers |-> intent'[n]]
    BY <1>1 DEF RtcTypes
  <2>2. \A n \in Managers : IsRequest(intent'[n])
    BY <1>1, <1>3, <1>4 DEF RtcTypes
  <2> QED
    BY <1>1, <1>3, <2>1, <2>2 DEF RtcTypes
<1>6. \A n \in Managers \ {m} : member' = n => member = n
  BY <1>3 DEF Managers
<1>7. \A n \in Managers : n > current => n # m
  BY <1>1, <1>2 DEF RtcTypes, Managers
<1>8. LifeInv'
  BY <1>1, <1>2, <1>3, <1>4, <1>6, <1>7 DEF LifeInv
<1>9. ASSUME errors' = 0, current <= 1 PROVE DelayedInv'
  <2>1. DelayedInv
    BY <1>3, <1>9 DEF RtcInv
  <2>2. delayed' \subseteq delayed
    BY <1>1, <1>2, <1>9, AnsweredDelays
  <2> QED
    BY <2>1, <2>2 DEF DelayedInv
<1> QED
  BY <1>1, <1>3, <1>5, <1>8, <1>9 DEF RtcInv

\* The server answers.
LEMMA ServerKeeps ==
    ASSUME RtcInv, NEW m \in Managers, ServerAnswers(m)
    PROVE  RtcInv'
<1>1. UNCHANGED <<current, running, activated, leaving, actions, wakeup, hasMember, delayId,
                  intents, died>>
  BY DEF ServerAnswers
<1>2. CASE /\ request[m] # NoRequest /\ request[m].answer = "none"
           /\ \E r \in PossibleAnswers(request[m]) :
                 Answered(m, request[m], r) /\ request' = [request EXCEPT ![m] = r]
           /\ UNCHANGED intent
  BY <1>1, <1>2, RequestKeeps
<1>3. CASE /\ intent[m] # NoRequest /\ intent[m].answer = "none"
           /\ \E r \in PossibleAnswers(intent[m]) :
                 Answered(m, intent[m], r) /\ intent' = [intent EXCEPT ![m] = r]
           /\ UNCHANGED request
  BY <1>1, <1>3, IntentKeeps
<1> QED
  BY <1>2, <1>3 DEF ServerAnswers

-----------------------------------------------------------------------------
(* The steps of the session, its user and sync.                            *)

\* The answer to updateCallIntent arrives.
LEMMA IntentAnswerKeeps ==
    ASSUME RtcInv, NEW m \in Managers, IntentAnswered(m)
    PROVE  RtcInv'
<1>1. /\ UNCHANGED <<current, running, activated, leaving, actions, wakeup, request, delayId>>
      /\ UNCHANGED <<member, delayed, errors, intents>>
  BY DEF IntentAnswered, serverVars, bounds
<1>2. RtcTypes /\ LifeInv /\ intent[m] # NoRequest
  BY DEF RtcInv, IntentAnswered, NoRequest
<1>3. intents # 0 /\ m <= current
  BY <1>2 DEF RtcInv, ScheduledOnly, LifeInv, RtcTypes, Managers
<1>4. /\ intent'[m] = NoRequest /\ \A n \in Managers \ {m} : intent'[n] = intent[n]
      /\ intent' = [n \in Managers |-> intent'[n]] /\ \A n \in Managers : IsRequest(intent'[n])
  BY <1>2 DEF IntentAnswered, RtcTypes, IsRequest
<1>5. /\ hasMember' \in [Managers -> BOOLEAN]
      /\ \A n \in Managers \ {m} : hasMember'[n] = hasMember[n]
  BY <1>2 DEF IntentAnswered, RtcTypes
<1>6. RtcTypes'
  BY <1>1, <1>2, <1>4, <1>5 DEF RtcTypes
<1>7. \A n \in Managers : n > current => n # m
  BY <1>2, <1>3 DEF RtcTypes, Managers
<1>8. LifeInv'
  BY <1>1, <1>2, <1>4, <1>5, <1>7 DEF LifeInv
<1>9. errors' = 0 /\ current' <= 1 => DelayedInv'
  BY <1>1 DEF RtcInv, DelayedInv
<1> QED
  BY <1>1, <1>3, <1>6, <1>8, <1>9 DEF RtcInv

\* The session is joined with a new manager.
LEMMA JoinKeeps ==
    ASSUME RtcInv, Join
    PROVE  RtcInv'
<1>1. RtcTypes /\ LifeInv /\ current \in 0..MaxJoins /\ MaxJoins \in Nat
  BY RtcAssumption DEF RtcInv, RtcTypes
<1>0. PICK m \in Managers : m = current + 1
  BY <1>1 DEF Join, Managers
<1>2. m > current /\ m # current
  BY <1>0, <1>1
<1>3. /\ current' = m
      /\ running' = [running EXCEPT ![m] = TRUE]
      /\ activated' = [activated EXCEPT ![m] = TRUE]
      /\ actions' = [actions EXCEPT ![m] = <<"SendDelayedEvent">>]
      /\ UNCHANGED <<leaving, wakeup, request, hasMember, delayId, intent, member, delayed, errors,
                     intents, died, misled>>
  BY <1>0 DEF Join, serverVars, bounds, history
<1>4. ~hasMember[m] /\ leaving[m] = "none" /\ request[m] = NoRequest /\ wakeup[m] = "none"
  BY <1>1, <1>2 DEF LifeInv, RtcTypes
<1>5. \A n \in Managers : ~activated[n]
  BY <1>1 DEF LifeInv, Join, Managers, RtcTypes
<1>6. /\ running'[m] /\ activated'[m] /\ actions'[m] = <<"SendDelayedEvent">>
      /\ \A n \in Managers \ {m} : UNCHANGED <<running[n], activated[n], actions[n]>>
  BY <1>1, <1>2, <1>3 DEF RtcTypes
<1>7. RtcTypes'
  <2>1. actions' = [n \in Managers |-> actions'[n]]
    BY <1>1, <1>3 DEF RtcTypes
  <2>2. m \in 0..MaxJoins
    BY <1>1, <1>2 DEF Managers
  <2> QED
    BY <1>1, <1>3, <2>1, <2>2 DEF RtcTypes
<1>8. \A n \in Managers : n > m => n > current /\ n # m
  BY <1>0, <1>1 DEF Managers
<1>9. LifeInv'
  <2>1. ASSUME NEW n \in Managers, n # m
        PROVE  /\ n > m => /\ ~running'[n] /\ leaving'[n] = "none" /\ intent'[n] = NoRequest
                           /\ ~hasMember'[n] /\ delayId'[n] = NoId /\ member' # n
               /\ intent'[n] # NoRequest => intent'[n].kind = "SendJoinEvent"
               /\ activated'[n] => n = m /\ running'[n] /\ leaving'[n] = "none"
               /\ running'[n] /\ ~activated'[n] => leaving'[n] = "pending"
               /\ ~running'[n] => request'[n] = NoRequest /\ leaving'[n] # "pending"
               /\ wakeup'[n] # "none" => request'[n] # NoRequest
    BY <1>1, <1>3, <1>5, <1>6, <1>8, <2>1 DEF LifeInv
  <2>2. ~(m > m)
    BY <1>2 DEF Managers
  <2>3. intent[m] = NoRequest
    BY <1>1, <1>2 DEF LifeInv
  <2> QED
    BY <1>2, <1>3, <1>4, <1>6, <2>1, <2>2, <2>3 DEF LifeInv
<1>10. ASSUME intents = 0 PROVE ScheduledOnly'
  <2>1. ScheduleInv /\ KnowledgeInv /\ \A n \in Managers : intent[n] = NoRequest
    BY <1>10 DEF RtcInv, ScheduledOnly
  <2>2. /\ actions'[m] \in Seq(ActionTypes) /\ IsInjective(actions'[m])
        /\ ToSet(actions'[m]) = {"SendDelayedEvent"}
    <3>1. "SendDelayedEvent" \in ActionTypes
      BY DEF ActionTypes
    <3> QED
      BY <1>6, <3>1, SingleEntry
  <2>3. ScheduleOf(m)'
    BY <1>3, <1>4, <1>6, <2>2 DEF ScheduleOf, IsConnected, NoRequest
  <2>4. \A n \in Managers \ {m} : running'[n] => ScheduleOf(n)'
    BY <1>3, <1>6, <2>1 DEF ScheduleInv, ScheduleOf
  <2>5. KnowledgeInv'
    BY <1>3, <2>1 DEF KnowledgeInv
  <2> QED
    BY <1>3, <2>1, <2>3, <2>4, <2>5 DEF ScheduledOnly, ScheduleInv
<1>11. errors' = 0 /\ current' <= 1 => DelayedInv'
  <2>1. current' <= 1 => current <= 1
    BY <1>1 DEF Join
  <2> QED
    BY <1>3, <2>1 DEF RtcInv, DelayedInv
<1> QED
  BY <1>3, <1>7, <1>9, <1>10, <1>11 DEF RtcInv

\* The session is left.
LEMMA LeaveKeeps ==
    ASSUME RtcInv, Leave
    PROVE  RtcInv'
<1>0. PICK m \in Managers : m = current
  BY DEF RtcInv, Leave, RtcTypes, Managers
<1>1. RtcTypes /\ LifeInv /\ activated[m]
  BY <1>0 DEF RtcInv, Leave
<1>2. /\ activated' = [activated EXCEPT ![m] = FALSE]
      /\ leaving' = [leaving EXCEPT ![m] = "pending"]
      /\ UNCHANGED <<current, running, request, hasMember, delayId, intent, member, delayed, errors,
                     intents, died, misled>>
  BY <1>0 DEF Leave, serverVars, bounds, history
<1>3. \/ request[m] # NoRequest /\ wakeup' = [wakeup EXCEPT ![m] = "leave"] /\ UNCHANGED actions
      \/ /\ request[m] = NoRequest /\ UNCHANGED wakeup
         /\ actions' = [actions EXCEPT ![m] = <<"SendScheduledDelayedLeaveEvent">>]
  BY <1>0 DEF Leave, WakeUp
<1>4. /\ ~activated'[m] /\ leaving'[m] = "pending" /\ running[m]
      /\ \A n \in Managers \ {m} :
             UNCHANGED <<activated[n], leaving[n], wakeup[n], actions[n]>>
  BY <1>1, <1>2, <1>3 DEF RtcTypes, LifeInv
<1>5. RtcTypes'
  <2>1. actions' = [n \in Managers |-> actions'[n]]
    BY <1>1, <1>3 DEF RtcTypes
  <2>2. wakeup' \in [Managers -> {"none", "join", "leave"}]
    BY <1>1, <1>3 DEF RtcTypes
  <2> QED
    BY <1>1, <1>2, <2>1, <2>2 DEF RtcTypes
<1>6. wakeup'[m] # "none" => request[m] # NoRequest
  BY <1>1, <1>3 DEF RtcTypes, LifeInv
<1>7. ~(m > current)
  BY <1>0, <1>1 DEF Managers, RtcTypes
<1>8. LifeInv'
  BY <1>1, <1>2, <1>4, <1>6, <1>7 DEF LifeInv
<1>9. ASSUME intents = 0 PROVE ScheduledOnly'
  <2>1. ScheduleInv /\ KnowledgeInv /\ \A n \in Managers : intent[n] = NoRequest
    BY <1>9 DEF RtcInv, ScheduledOnly
  <2>2. ScheduleOf(m)
    BY <1>1, <1>4, <2>1 DEF ScheduleInv
  <2>3. ASSUME request[m] # NoRequest PROVE ScheduleOf(m)'
    <3>1. wakeup'[m] = "leave" /\ actions' = actions
      BY <1>1, <1>3, <2>3 DEF RtcTypes
    <3> QED
      BY <1>2, <1>4, <2>2, <3>1 DEF ScheduleOf
  <2>4. ASSUME request[m] = NoRequest PROVE ScheduleOf(m)'
    <3>1. actions'[m] = <<"SendScheduledDelayedLeaveEvent">> /\ wakeup'[m] = "none"
      BY <1>1, <1>3, <2>4 DEF RtcTypes, LifeInv
    <3>2. /\ actions'[m] \in Seq(ActionTypes) /\ IsInjective(actions'[m])
          /\ ToSet(actions'[m]) = {"SendScheduledDelayedLeaveEvent"}
      <4>1. "SendScheduledDelayedLeaveEvent" \in ActionTypes
        BY DEF ActionTypes
      <4> QED
        BY <3>1, <4>1, SingleEntry
    <3> QED
      BY <1>2, <1>4, <2>4, <3>1, <3>2 DEF ScheduleOf, LeaveTypes, NoRequest
  <2>5. ScheduleOf(m)'
    BY <2>3, <2>4
  <2>6. \A n \in Managers \ {m} : running'[n] => ScheduleOf(n)'
    <3>1. ASSUME NEW n \in Managers \ {m}, running'[n] PROVE ScheduleOf(n)'
      <4>1. ScheduleOf(n)
        BY <1>2, <2>1, <3>1 DEF ScheduleInv
      <4>2. UNCHANGED <<actions[n], request[n], delayId[n], activated[n], hasMember[n],
                        wakeup[n], leaving[n], intent[n]>>
        BY <1>2, <1>4
      <4> QED
        BY <4>1, <4>2 DEF ScheduleOf
    <3> QED
      BY <3>1
  <2>7. KnowledgeInv'
    BY <1>2, <1>4, <2>1 DEF KnowledgeInv
  <2> QED
    BY <1>2, <2>1, <2>5, <2>6, <2>7 DEF ScheduledOnly, ScheduleInv
<1>10. errors' = 0 /\ current' <= 1 => DelayedInv'
  BY <1>2 DEF RtcInv, DelayedInv
<1> QED
  BY <1>2, <1>5, <1>8, <1>9, <1>10 DEF RtcInv

\* updateCallIntent sends the membership beside the schedule.
LEMMA UpdateIntentKeeps ==
    ASSUME RtcInv, UpdateCallIntent
    PROVE  RtcInv'
<1> DEFINE r == [kind |-> "SendJoinEvent", id |-> NoId, answer |-> "none"]
<1>1. PICK m \in Managers : m = current
  BY DEF RtcInv, UpdateCallIntent, RtcTypes, Managers
<1>2. RtcTypes /\ LifeInv /\ ~(m > current)
  BY <1>1 DEF RtcInv, RtcTypes
<1>3. /\ intent' = [intent EXCEPT ![m] = r] /\ intents' = intents + 1
      /\ UNCHANGED <<current, running, activated, leaving, actions, wakeup, request, hasMember,
                     delayId, member, delayed, errors>>
  BY <1>1 DEF UpdateCallIntent, managerVars, serverVars
<1>4. IsRequest(r) /\ r.kind = "SendJoinEvent"
  BY DEF IsRequest, Kinds, ActionTypes, Answers
<1> HIDE DEF r
<1>5. /\ intent' = [n \in Managers |-> intent'[n]] /\ intent'[m] = r
      /\ \A n \in Managers \ {m} : intent'[n] = intent[n]
  BY <1>2, <1>3 DEF RtcTypes
<1>6. RtcTypes' /\ intents' # 0
  BY <1>2, <1>3, <1>4, <1>5 DEF RtcTypes
<1>7. LifeInv'
  BY <1>2, <1>3, <1>4, <1>5 DEF LifeInv
<1>8. errors' = 0 /\ current' <= 1 => DelayedInv'
  BY <1>3 DEF RtcInv, DelayedInv
<1> QED
  BY <1>6, <1>7, <1>8 DEF RtcInv

\* The server sends a delayed leave.
LEMMA FireKeeps ==
    ASSUME RtcInv, Fire
    PROVE  RtcInv'
<1>1. /\ UNCHANGED <<current, running, activated, leaving, actions, wakeup, request, hasMember,
                     delayId, intent, errors, intents, died, misled>>
      /\ member' = 0 /\ delayed' \subseteq delayed
  BY DEF Fire, SetMember, managerVars, history
<1>2. \A n \in Managers : member' # n
  BY <1>1 DEF Managers
<1>3. RtcTypes'
  BY <1>1 DEF RtcInv, RtcTypes
<1>4. LifeInv'
  BY <1>1, <1>2 DEF RtcInv, LifeInv
<1>5. intents' = 0 => ScheduledOnly'
  BY <1>1, <1>2 DEF RtcInv, ScheduledOnly, ScheduleInv, ScheduleOf, KnowledgeInv
<1>6. errors' = 0 /\ current' <= 1 => DelayedInv'
  BY <1>1 DEF RtcInv, DelayedInv
<1> QED
  BY <1>3, <1>4, <1>5, <1>6 DEF RtcInv

\* Sync tells the manager whether its membership is there.
LEMMA MemberUpdateKeeps ==
    ASSUME RtcInv, NEW there, OnMemberUpdate(current, there),
           UNCHANGED <<current, running, activated, leaving, request, delayId, intent, member,
                       delayed, errors, intents, died>>
    PROVE  RtcInv'
<1>1. RtcTypes /\ LifeInv
  BY DEF RtcInv
<1>2. errors' = 0 /\ current' <= 1 => DelayedInv'
  BY DEF RtcInv, DelayedInv
<1>3. CASE UNCHANGED <<hasMember, actions, wakeup>> /\ misled \subseteq misled'
  <2>1. RtcTypes' /\ LifeInv'
    BY <1>1, <1>3 DEF RtcTypes, LifeInv
  <2>2. intents' = 0 => ScheduledOnly'
    BY <1>3 DEF RtcInv, ScheduledOnly, ScheduleInv, ScheduleOf, KnowledgeInv
  <2> QED
    BY <1>2, <2>1, <2>2 DEF RtcInv
<1>4. CASE /\ current # 0 /\ activated[current]
           /\ misled' = IF member = current THEN misled \cup {current} ELSE misled
           /\ hasMember' = [hasMember EXCEPT ![current] = FALSE]
           /\ IF Contains(actions[current], "SendDelayedEvent") \/ Contains(actions[current], "SendJoinEvent")
              THEN UNCHANGED <<actions, wakeup>>
              ELSE WakeUp(current, "join")
  <2>1. PICK m \in Managers : m = current
    BY <1>1, <1>4 DEF RtcTypes, Managers
  <2>2. /\ activated[m] /\ running[m] /\ leaving[m] = "none"
        /\ hasMember' = [hasMember EXCEPT ![m] = FALSE]
        /\ misled \subseteq misled' /\ (member = m => m \in misled')
    BY <1>1, <1>4, <2>1 DEF LifeInv
  <2>3. \/ UNCHANGED <<actions, wakeup>>
        \/ /\ request[m] # NoRequest /\ wakeup' = [wakeup EXCEPT ![m] = "join"] /\ UNCHANGED actions
           /\ ~Contains(actions[m], "SendDelayedEvent") /\ ~Contains(actions[m], "SendJoinEvent")
        \/ /\ request[m] = NoRequest /\ UNCHANGED wakeup
           /\ actions' = [actions EXCEPT ![m] = <<"SendDelayedEvent">>]
    BY <1>4, <2>1 DEF WakeUp
  <2>4. /\ ~hasMember'[m]
        /\ \A n \in Managers \ {m} :
               UNCHANGED <<hasMember[n], wakeup[n], actions[n]>>
    BY <1>1, <2>2, <2>3 DEF RtcTypes
  <2>5. RtcTypes'
    <3>1. actions' = [n \in Managers |-> actions'[n]]
      BY <1>1, <2>3 DEF RtcTypes
    <3>2. wakeup' \in [Managers -> {"none", "join", "leave"}]
      BY <1>1, <2>3 DEF RtcTypes
    <3>3. hasMember' \in [Managers -> BOOLEAN]
      BY <1>1, <2>2 DEF RtcTypes
    <3> QED
      BY <1>1, <3>1, <3>2, <3>3 DEF RtcTypes
  <2>6. wakeup'[m] # "none" => request[m] # NoRequest
    BY <1>1, <2>3 DEF RtcTypes, LifeInv
  <2>7. ~(m > current)
    BY <1>1, <2>1 DEF RtcTypes
  <2>8. LifeInv'
    BY <1>1, <2>4, <2>6, <2>7 DEF LifeInv
  <2>9. ASSUME intents = 0 PROVE ScheduledOnly'
    <3>1. ScheduleInv /\ KnowledgeInv /\ \A n \in Managers : intent[n] = NoRequest
      BY <2>9 DEF RtcInv, ScheduledOnly
    <3>2. ScheduleOf(m)
      BY <2>2, <3>1 DEF ScheduleInv
    <3>3. ASSUME UNCHANGED <<actions, wakeup>> PROVE ScheduleOf(m)'
      BY <2>2, <2>4, <3>2, <3>3 DEF ScheduleOf, IsConnected
    <3>4. ASSUME wakeup' = [wakeup EXCEPT ![m] = "join"], actions' = actions, request[m] # NoRequest,
                 ~Contains(actions[m], "SendDelayedEvent"), ~Contains(actions[m], "SendJoinEvent")
          PROVE  ScheduleOf(m)'
      <4>1. wakeup'[m] = "join"
        BY <1>1, <3>4 DEF RtcTypes
      <4>2. DOMAIN actions[m] = 1..Len(actions[m])
        BY <3>2 DEF ScheduleOf
      <4>3. ToSet(actions[m]) \cap {"SendDelayedEvent", "SendJoinEvent"} = {}
        BY <3>4, <4>2 DEF Contains, ToSet
      <4> QED
        BY <2>2, <2>4, <3>2, <3>4, <4>1, <4>3 DEF ScheduleOf, IsConnected
    <3>5. ASSUME request[m] = NoRequest, wakeup' = wakeup,
                 actions' = [actions EXCEPT ![m] = <<"SendDelayedEvent">>]
          PROVE  ScheduleOf(m)'
      <4>1. actions'[m] = <<"SendDelayedEvent">> /\ wakeup'[m] = "none"
        BY <1>1, <3>5 DEF RtcTypes, LifeInv
      <4>2. /\ actions'[m] \in Seq(ActionTypes) /\ IsInjective(actions'[m])
            /\ ToSet(actions'[m]) = {"SendDelayedEvent"}
        <5>1. "SendDelayedEvent" \in ActionTypes
          BY DEF ActionTypes
        <5> QED
          BY <4>1, <5>1, SingleEntry
      <4> QED
        BY <2>2, <2>4, <3>5, <4>1, <4>2 DEF ScheduleOf, IsConnected, NoRequest
    <3>6. ScheduleOf(m)'
      BY <2>3, <3>3, <3>4, <3>5
    <3>7. \A n \in Managers \ {m} : running'[n] => ScheduleOf(n)'
      BY <2>4, <3>1 DEF ScheduleInv, ScheduleOf
    <3>8. KnowledgeInv'
      BY <2>2, <2>4, <3>1 DEF KnowledgeInv
    <3> QED
      BY <3>1, <3>6, <3>7, <3>8 DEF ScheduledOnly, ScheduleInv
  <2> QED
    BY <1>2, <2>5, <2>8, <2>9 DEF RtcInv
<1> QED
  BY <1>3, <1>4 DEF OnMemberUpdate

-----------------------------------------------------------------------------
(* The theorems on the membership.                                         *)

\* Before the first join nothing runs and the server has nothing of ours.
LEMMA RtcInvInit == Init => RtcInv
<1> SUFFICES ASSUME Init PROVE RtcInv
  OBVIOUS
<1>1. IsRequest(NoRequest) /\ NoRequest.kind = "none"
  BY DEF IsRequest, NoRequest
<1>2. RtcTypes
  BY <1>1, RtcAssumption DEF Init, RtcTypes
<1>3. LifeInv
  BY DEF Init, LifeInv, Managers
<1>4. ScheduleInv /\ KnowledgeInv
  BY <1>1 DEF Init, ScheduleInv, KnowledgeInv, Managers, LeaveTypes
<1>5. DelayedInv
  <2>1. 1 \in Managers
    BY RtcAssumption DEF Managers
  <2> QED
    BY <1>1, <2>1 DEF Init, DelayedInv
<1> QED
  BY <1>2, <1>3, <1>4, <1>5 DEF RtcInv, ScheduledOnly, Init

\* Every step keeps the invariant.
LEMMA RtcInvStep == RtcInv /\ [Next]_vars => RtcInv'
<1> SUFFICES ASSUME RtcInv, [Next]_vars PROVE RtcInv'
  OBVIOUS
<1>1. CASE Deliver
  BY <1>1, MemberUpdateKeeps DEF Deliver, bounds
<1>2. CASE OtherMemberChanges
  BY <1>2, MemberUpdateKeeps DEF OtherMemberChanges, serverVars, bounds
<1>3. CASE UNCHANGED vars
  BY <1>3 DEF vars, managerVars, serverVars, bounds, history, RtcInv, RtcTypes, LifeInv,
              ScheduledOnly,
              ScheduleInv, ScheduleOf, KnowledgeInv, DelayedInv
<1> QED
  BY <1>1, <1>2, <1>3, JoinKeeps, LeaveKeeps, UpdateIntentKeeps, FireKeeps, BeginKeeps, ServerKeeps,
     AnswerKeeps, IntentAnswerKeeps DEF Next, ManagerStep

\* The schedule, what a manager knows of its membership, and the delayed leave that the
\* server holds fit together.
THEOREM RtcInvariant == Spec => []RtcInv
BY RtcInvInit, RtcInvStep, PTL DEF Spec

\* A manager that takes part in the call is on its way to send its membership, or has the
\* next update of its expiry scheduled.
THEOREM MembershipKept == Spec => []MembershipIsKept
<1>1. RtcInv => MembershipIsKept
  <2> SUFFICES ASSUME RtcInv, intents = 0, NEW m \in Managers, running[m], activated[m],
                      wakeup[m] # "join"
               PROVE  \/ Scheduled(m, {"UpdateExpiry", "SendJoinEvent"})
                      \/ Scheduled(m, {"SendDelayedEvent"}) /\ ~hasMember[m]
    BY DEF MembershipIsKept
  <2>1. ScheduleOf(m)
    BY DEF RtcInv, ScheduledOnly, ScheduleInv
  <2>2. IsConnected(ToSet(actions[m]), hasMember[m], delayId[m]) /\ actions[m] \in Seq(ActionTypes)
    BY <2>1 DEF ScheduleOf
  <2>3. DOMAIN actions[m] = 1..Len(actions[m])
    BY <2>2
  <2>4. \A types : ToSet(actions[m]) \cap types # {} => Scheduled(m, types)
    BY <2>3 DEF Scheduled, ToSet
  <2>5. \/ ToSet(actions[m]) \cap {"UpdateExpiry", "SendJoinEvent"} # {}
        \/ ToSet(actions[m]) \cap {"SendDelayedEvent"} # {} /\ ~hasMember[m]
    BY <2>2 DEF IsConnected
  <2> QED
    BY <2>4, <2>5
<1> QED
  BY <1>1, RtcInvariant, PTL

\* When leave() resolves with true, the membership is gone, unless the manager gave up or
\* did not know of it.
THEOREM LeaveSent == Spec => []LeaveIsSent
<1>1. RtcInv => LeaveIsSent
  BY DEF RtcInv, ScheduledOnly, KnowledgeInv, LeaveIsSent
<1> QED
  BY <1>1, RtcInvariant, PTL

\* While no request has failed, the server holds no delayed leave of a connected first
\* manager but the one it knows.
THEOREM OwnLeaveOnly == Spec => [](errors = 0 => OnlyOwnDelayedLeave)
<1>1. RtcInv => (errors = 0 => OnlyOwnDelayedLeave)
  <2> SUFFICES ASSUME RtcInv, errors = 0, NEW m \in Managers, current = 1, running[m],
                      request[m] = NoRequest
               PROVE  delayed \subseteq {delayId[m]}
    BY DEF OnlyOwnDelayedLeave
  <2>1. DelayedInv /\ m = 1
    BY DEF RtcInv, LifeInv, RtcTypes, Managers
  <2>2. NoRequest.kind # "SendDelayedEvent"
    BY DEF NoRequest
  <2> QED
    BY <2>1, <2>2 DEF DelayedInv
<1> QED
  BY <1>1, RtcInvariant, PTL
=============================================================================

------------------------- MODULE SessionLock_proofs -------------------------
(***************************************************************************)
(* While storage events are handled before the next timer (Prompt), LockInv*)
(* is an inductive invariant of SessionLock, and one tab at a time runs    *)
(* the application.                                                        *)
(***************************************************************************)
EXTENDS SessionLock, TLAPS

\* Every step keeps the types.
LEMMA TypeStep == TypeOK /\ [Next]_vars => TypeOK'
<1> SUFFICES ASSUME TypeOK, [Next]_vars PROVE TypeOK'
  OBVIOUS
<1> USE LockAssumption
<1> USE DEF Keys, storage, timers, bounds, Active, Listening
<1>0. Remaining \in 0..Expiry \/ (owner # NoTab /\ pingAge > Expiry)
  BY DEF TypeOK, Remaining
<1>1. ASSUME NEW t \in Tabs, Claim(t) PROVE TypeOK'
  <2>1. PICK late \in SUBSET Keys :
           \/ Remaining = 0 /\ Take(t) /\ Events(t, late, {"claimant", "ping"})
           \/ Remaining > 0 /\ Sleep(t) /\ Events(t, late, {"claimant"})
    BY <1>1 DEF Claim
  <2>2. inbox' \in [Tabs -> SUBSET Keys]
    <3>1. PICK written \in SUBSET Keys : Events(t, late, written)
      BY <2>1
    <3>2. \A u \in Tabs : inbox[u] \in SUBSET Keys
      BY DEF TypeOK
    <3> QED
      BY <3>1, <3>2 DEF Events
  <2>3. claimant' = t /\ UNCHANGED bounds
    BY <1>1 DEF Claim
  <2>4. CASE Remaining = 0 /\ Take(t)
    BY <2>2, <2>3, <2>4 DEF TypeOK, Take
  <2>5. CASE Remaining > 0 /\ Sleep(t)
    BY <1>0, <2>2, <2>3, <2>5 DEF TypeOK, Sleep
  <2> QED
    BY <2>1, <2>4, <2>5
<1>2. ASSUME NEW t \in Tabs, NEW k \in Keys, Wake(t, k) PROVE TypeOK'
  BY <1>0, <1>2 DEF TypeOK, Wake, Take, Sleep, Events
<1>3. ASSUME NEW t \in Tabs, NEW k \in Keys, Notified(t, k) PROVE TypeOK'
  BY <1>3 DEF TypeOK, Notified, Events
<1>4. ASSUME NEW t \in Tabs, SleepEnds(t) PROVE TypeOK'
  BY <1>4 DEF TypeOK, SleepEnds, Take, Events
<1>5. ASSUME NEW t \in Tabs, BailedOut(t) PROVE TypeOK'
  BY <1>5 DEF TypeOK, BailedOut, Over
<1>6. ASSUME NEW t \in Tabs, Ping(t) PROVE TypeOK'
  BY <1>6 DEF TypeOK, Ping, Events
<1>7. ASSUME NEW t \in Tabs, Released(t) PROVE TypeOK'
  BY <1>7 DEF TypeOK, Released, Over, RemovePing, Events, Removed
<1>8. ASSUME NEW t \in Tabs, PageHide(t) PROVE TypeOK'
  BY <1>8 DEF TypeOK, PageHide, Over, RemovePing, Events, Removed
<1>9. ASSUME NEW t \in Tabs, Crash(t) PROVE TypeOK'
  BY <1>9 DEF TypeOK, Crash, Over
<1>10. ASSUME WindBack PROVE TypeOK'
  BY <1>10 DEF TypeOK, WindBack
<1>11. ASSUME Tick PROVE TypeOK'
  BY <1>11 DEF TypeOK, Tick
<1>12. ASSUME UNCHANGED vars PROVE TypeOK'
  BY <1>12 DEF TypeOK, vars
<1> QED
  BY <1>1, <1>2, <1>3, <1>4, <1>5, <1>6, <1>7, <1>8, <1>9, <1>10, <1>11, <1>12
     DEF Next, Handle

\* A tab that runs keeps the lock from being free.
LEMMA NotFree ==
    ASSUME TypeOK, LockInv, NEW t \in Tabs, Active(t)
    PROVE  Remaining >= Expiry - PingInterval + pingIn[t] /\ Remaining > 0
<1>1. owner = t /\ pingAge + pingIn[t] <= PingInterval
  BY DEF LockInv
<1>2. pingAge \in Int /\ pingIn[t] \in 0..PingInterval
  BY LockAssumption DEF TypeOK
<1> QED
  BY <1>1, <1>2, LockAssumption DEF Remaining

\* Taking the lock when no tab runs: the taker is the only one, its ping is
\* fresh, and the waiting tabs have been sent an event.
LEMMA TakeStep ==
    ASSUME TypeOK, LockInv, NEW t \in Tabs, Take(t), NEW read, NEW written,
           "ping" \in written, Events(t, read, written),
           \A u \in Tabs : ~Active(u)
    PROVE  LockInv'
<1>1. pc' = [pc EXCEPT ![t] = "holder"] /\ owner' = t /\ pingAge' = 0 /\ pingIn'[t] = PingInterval
  BY DEF Take, TypeOK
<1>2. \A u \in Tabs : Active(u)' => u = t
  BY <1>1 DEF Active, TypeOK
<1>3. \A u \in Tabs : pc'[u] = "waiting" => inbox'[u] # {}
  BY <1>1 DEF Events, Listening, TypeOK
<1> QED
  BY <1>1, <1>2, <1>3, LockAssumption DEF LockInv, MutualExclusion

\* Going to sleep: the sleep is as long as the ping of the running tab lasts.
LEMMA SleepStep ==
    ASSUME TypeOK, LockInv, NEW t \in Tabs, ~Active(t), Sleep(t),
           NEW read, NEW written, Events(t, read, written)
    PROVE  LockInv'
<1>1. /\ pc' = [pc EXCEPT ![t] = "waiting"] /\ sleepLeft' = [sleepLeft EXCEPT ![t] = Remaining]
      /\ UNCHANGED <<owner, pingAge, pingIn>>
  BY DEF Sleep
<1>2. \A u \in Tabs : Active(u)' => Active(u) /\ u # t
  BY <1>1 DEF Active, TypeOK
<1>3. \A u \in Tabs \ {t} : pc'[u] = pc[u] /\ sleepLeft'[u] = sleepLeft[u]
  BY <1>1 DEF TypeOK
<1>4. \A u \in Tabs \ {t} : pc[u] = "waiting" /\ inbox'[u] = {} => inbox[u] = {}
  BY DEF Events, TypeOK, Listening
<1>5. sleepLeft'[t] = Remaining
  BY <1>1 DEF TypeOK
<1>6. \A u \in Tabs : Active(u) => Remaining >= Expiry - PingInterval + pingIn[u]
  BY NotFree
<1> QED
  BY <1>1, <1>2, <1>3, <1>4, <1>5, <1>6 DEF LockInv, MutualExclusion

\* A step after which no more tabs run and no more tabs wait with an empty
\* inbox, and which leaves the ping and the timers of those alone.
LEMMA QuietStep ==
    ASSUME LockInv,
           \A t \in Tabs : Active(t)' => /\ Active(t)
                                        /\ owner' = owner /\ pingAge' <= pingAge
                                        /\ pingAge' \in Int /\ pingAge \in Int
                                        /\ pingIn'[t] = pingIn[t] /\ pingIn[t] \in Nat,
           \A t \in Tabs : pc'[t] = "waiting" /\ inbox'[t] = {}
               => pc[t] = "waiting" /\ inbox[t] = {} /\ sleepLeft'[t] = sleepLeft[t]
    PROVE  LockInv'
BY LockAssumption DEF LockInv, MutualExclusion

\* Every step preserves LockInv.
LEMMA LockStep ==
    ASSUME Prompt, TypeOK, LockInv, [Next]_vars
    PROVE  LockInv'
<1> USE LockAssumption
<1>1. ASSUME NEW t \in Tabs, Claim(t) PROVE LockInv'
  <2>1. CASE Remaining = 0
    BY <1>1, <2>1, NotFree, TakeStep DEF Claim
  <2>2. CASE Remaining > 0
    BY <1>1, <2>2, SleepStep DEF Claim, Active
  <2> QED
    BY <1>1, <2>1, <2>2 DEF Claim
<1>2. ASSUME NEW t \in Tabs, NEW k \in Keys, Wake(t, k) PROVE LockInv'
  <2>1. CASE claimant # t
    BY <1>2, <2>1, QuietStep DEF Wake, Events, TypeOK, Active, Listening
  <2>2. CASE claimant = t /\ Remaining = 0
    BY <1>2, <2>2, NotFree, TakeStep DEF Wake
  <2>3. CASE claimant = t /\ Remaining > 0
    BY <1>2, <2>3, SleepStep DEF Wake, Active
  <2> QED
    BY <1>2, <2>1, <2>2, <2>3 DEF Wake
<1>3. ASSUME NEW t \in Tabs, NEW k \in Keys, Notified(t, k) PROVE LockInv'
  BY <1>3, QuietStep DEF Notified, storage, timers, Events, TypeOK, Active, Listening
<1>4. ASSUME NEW t \in Tabs, SleepEnds(t) PROVE LockInv'
  <2>1. \A u \in Tabs : ~Active(u)
    <3> SUFFICES ASSUME NEW u \in Tabs, Active(u) PROVE FALSE
      OBVIOUS
    <3>1. sleepLeft[t] >= Expiry - PingInterval + pingIn[u]
      BY <1>4 DEF SleepEnds, LockInv
    <3> QED
      BY <1>4, <3>1 DEF SleepEnds, TypeOK
  <2> QED
    BY <1>4, <2>1, TakeStep DEF SleepEnds
<1>5. ASSUME NEW t \in Tabs, BailedOut(t) PROVE LockInv'
  BY <1>5, QuietStep DEF BailedOut, Over, storage, TypeOK, Active
<1>6. ASSUME NEW t \in Tabs, Ping(t) PROVE LockInv'
  <2>1. \A u \in Tabs : Active(u)' => u = t
    BY <1>6 DEF Ping, Active, LockInv, MutualExclusion
  <2>2. \A u \in Tabs : pc'[u] = "waiting" => inbox'[u] # {}
    BY <1>6 DEF Ping, Events, Listening, TypeOK, Active
  <2>3. owner' = t /\ pingAge' = 0 /\ pingIn'[t] = PingInterval
    BY <1>6 DEF Ping, TypeOK
  <2> QED
    BY <2>1, <2>2, <2>3 DEF LockInv, MutualExclusion
<1>7. ASSUME NEW t \in Tabs, Released(t) PROVE LockInv'
  <2>1. \A u \in Tabs : ~Active(u)'
    BY <1>7 DEF Released, Over, Active, LockInv, MutualExclusion, TypeOK
  <2> QED
    BY <2>1 DEF LockInv, MutualExclusion
<1>8. ASSUME NEW t \in Tabs, PageHide(t) PROVE LockInv'
  <2>1. \A u \in Tabs : ~Active(u)'
    BY <1>8 DEF PageHide, Over, Active, LockInv, MutualExclusion, TypeOK
  <2> QED
    BY <2>1 DEF LockInv, MutualExclusion
<1>9. ASSUME NEW t \in Tabs, Crash(t) PROVE LockInv'
  BY <1>9, QuietStep DEF Crash, Over, storage, TypeOK, Active
<1>10. ASSUME WindBack PROVE LockInv'
  BY <1>10, QuietStep DEF WindBack, timers, TypeOK, Active
<1>11. ASSUME Tick PROVE LockInv'
  <2>1. UNCHANGED <<owner, pc, inbox>> /\ (pingAge' = pingAge + 1 \/ pingAge' = Expiry)
    BY <1>11 DEF Tick
  <2>2. ASSUME NEW t \in Tabs, Active(t)
        PROVE  owner = t /\ pingIn'[t] = pingIn[t] - 1 /\ pingAge' + pingIn'[t] <= PingInterval
    <3>1. owner = t /\ pingAge + pingIn[t] <= PingInterval /\ pingIn[t] \in 0..PingInterval
      BY <2>2 DEF LockInv, TypeOK
    <3>2. pingAge < Expiry /\ pingAge \in Int
      BY <3>1 DEF TypeOK
    <3>3. pingAge' = pingAge + 1 /\ pingIn'[t] = pingIn[t] - 1
      BY <1>11, <2>2, <3>2 DEF Tick
    <3> QED
      BY <3>1, <3>2, <3>3
  <2>3. \A t \in Tabs : pc[t] = "waiting" => sleepLeft'[t] = sleepLeft[t] - 1 /\ sleepLeft[t] \in Nat
    BY <1>11 DEF Tick, TypeOK
  <2>4. \A t \in Tabs : Active(t)' <=> Active(t)
    BY <2>1 DEF Active
  <2>5. \A t, u \in Tabs : pc[t] = "waiting" /\ inbox[t] = {} /\ Active(u)
            => sleepLeft'[t] >= Expiry - PingInterval + pingIn'[u]
    <3> SUFFICES ASSUME NEW t \in Tabs, NEW u \in Tabs,
                        pc[t] = "waiting", inbox[t] = {}, Active(u)
                 PROVE  sleepLeft'[t] >= Expiry - PingInterval + pingIn'[u]
      OBVIOUS
    <3>1. sleepLeft[t] >= Expiry - PingInterval + pingIn[u] /\ pingIn[u] \in Nat
      BY DEF LockInv, TypeOK
    <3> QED
      BY <2>2, <2>3, <3>1
  <2>6. MutualExclusion'
    BY <2>4 DEF LockInv, MutualExclusion
  <2> QED
    BY <2>1, <2>2, <2>4, <2>5, <2>6 DEF LockInv
<1>12. ASSUME UNCHANGED vars PROVE LockInv'
  BY <1>12, QuietStep DEF vars, TypeOK, Active
<1> QED
  BY <1>1, <1>2, <1>3, <1>4, <1>5, <1>6, <1>7, <1>8, <1>9, <1>10, <1>11, <1>12
     DEF Next, Handle

\* Whatever the tabs do: the types of the lock's state, and of the timers.
THEOREM TypeCorrect == Spec => []TypeOK
<1>1. Init => TypeOK
  BY LockAssumption DEF Init, TypeOK, Keys
<1> QED
  BY <1>1, TypeStep, PTL DEF Spec

\* For any number of tabs, crashes and changes of the clock, and without an
\* assumption on storage events: a tab that waits looks again in time.
THEOREM SleepBounded == Spec => []SleepIsBounded
<1>1. TypeOK => SleepIsBounded
  BY LockAssumption DEF TypeOK, SleepIsBounded
<1> QED
  BY <1>1, TypeCorrect, PTL

\* The claim that a tab gave up for is newer than its own, whatever events reach it
\* and however late: what onStorageEvent looks at is the storage.
THEOREM GivesUpRight == Spec => []GivesUpForNewer
<1>1. Init => GivesUpForNewer
  BY DEF Init, GivesUpForNewer, GivesUp
<1>2. TypeOK /\ GivesUpForNewer /\ [Next]_vars => GivesUpForNewer'
  <2> SUFFICES ASSUME TypeOK, GivesUpForNewer, [Next]_vars PROVE GivesUpForNewer'
    OBVIOUS
  <2>1. CASE UNCHANGED claimant /\ \A t \in Tabs : pc'[t] \in {"bailing", "releasing"}
                => claimant # t \/ pc[t] \in {"bailing", "releasing"}
    BY <2>1 DEF GivesUpForNewer, GivesUp
  <2>2. ASSUME NEW t \in Tabs, Claim(t) PROVE GivesUpForNewer'
    <3>1. claimant' = t /\ pc'[t] \in {"holder", "waiting"} /\ \A u \in Tabs \ {t} : pc'[u] = pc[u]
      BY <2>2 DEF Claim, Take, Sleep, TypeOK
    <3> QED
      BY <3>1 DEF GivesUpForNewer, GivesUp
  <2>3. ASSUME NEW t \in Tabs, NEW k \in Keys, Handle(t, k) PROVE GivesUpForNewer'
    BY <2>1, <2>3 DEF Handle, Wake, Notified, Take, Sleep, TypeOK, storage
  <2>4. ASSUME NEW t \in Tabs, SleepEnds(t) \/ Ping(t) PROVE GivesUpForNewer'
    BY <2>1, <2>4 DEF SleepEnds, Ping, Take, TypeOK
  <2>5. ASSUME NEW t \in Tabs, BailedOut(t) \/ Released(t) \/ PageHide(t) \/ Crash(t)
        PROVE  GivesUpForNewer'
    BY <2>1, <2>5 DEF BailedOut, Released, PageHide, Crash, Over, TypeOK, storage
  <2>6. CASE WindBack \/ Tick \/ UNCHANGED vars
    BY <2>1, <2>6 DEF WindBack, Tick, vars
  <2> QED
    BY <2>2, <2>3, <2>4, <2>5, <2>6 DEF Next
<1> QED
  BY <1>1, <1>2, TypeCorrect, TypeStep, PTL DEF Spec

\* The inductive invariant of the lock.
THEOREM LockInvariant == ASSUME Prompt PROVE Spec => [](TypeOK /\ LockInv)
<1>1. Init => LockInv
  BY DEF Init, LockInv, MutualExclusion, Active
<1>2. TypeOK /\ LockInv /\ [Next]_vars => LockInv'
  BY LockStep
<1> QED
  BY <1>1, <1>2, TypeCorrect, TypeStep, PTL DEF Spec

\* getSessionLock keeps its promise, for any number of tabs and any expiry
\* longer than the ping interval, as long as a storage event is handled before
\* the next timer of the tab: one tab at a time runs the application.
THEOREM OneAtATime == ASSUME Prompt PROVE Spec => []MutualExclusion
BY LockInvariant, PTL DEF LockInv

\* And the tab that runs has a ping of its own that is not stale.
THEOREM Advertised == ASSUME Prompt PROVE Spec => []RunningIsAdvertised
<1>1. TypeOK /\ LockInv => RunningIsAdvertised
  BY LockAssumption DEF TypeOK, LockInv, RunningIsAdvertised
<1> QED
  BY <1>1, LockInvariant, PTL
=============================================================================

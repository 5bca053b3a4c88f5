---------------------------- MODULE SessionLock ----------------------------
(***************************************************************************)
(* The lock that lets one browser tab run the application                  *)
(* (web/utils/SessionLock.ts).  The tabs share local storage only: a new   *)
(* tab writes itself as the claimant, waits until the holder has removed   *)
(* its ping or has not pinged for Expiry, and then takes the lock.  A      *)
(* holder that hears of another claimant shuts down and removes the ping.  *)
(* A write reaches the other tabs as a storage event, some time later.     *)
(*                                                                         *)
(* An action is one task of one tab.  Time is counted in ticks of          *)
(* PingInterval; what is kept is how long ago and how soon things happen.  *)
(***************************************************************************)
EXTENDS Integers, FiniteSets

CONSTANTS
    Tabs, NoTab,
    Expiry,          \* LOCK_EXPIRY_TIME_MS: a ping of this age is stale
    PingInterval,    \* the interval of serviceLock
    Prompt,          \* a storage event is handled before any timer runs
    MaxWindBack,     \* how far the system clock may be set back, in total
    MaxCrashes       \* how many tabs may vanish without a pagehide event

ASSUME LockAssumption ==
    /\ NoTab \notin Tabs
    /\ Expiry \in Nat /\ PingInterval \in Nat
    /\ 0 < PingInterval /\ PingInterval < Expiry
    /\ Prompt \in BOOLEAN
    /\ MaxWindBack \in Nat /\ MaxCrashes \in Nat

VARIABLES
    claimant,    \* STORAGE_ITEM_CLAIMANT
    owner,       \* STORAGE_ITEM_OWNER, NoTab when there is neither owner nor ping
    pingAge,     \* how old STORAGE_ITEM_PING is by the clock; stale from Expiry on
    pc,          \* where getSessionLock, or the tab after it, is
    sleepLeft,   \* the time before the sleep of a waiting tab ends
    pingIn,      \* the time before lockServicer runs again
    inbox,       \* the keys of the storage events a tab has not handled yet
    windBack, crashes

vars == <<claimant, owner, pingAge, pc, sleepLeft, pingIn, inbox, windBack, crashes>>

storage == <<claimant, owner, pingAge>>
timers  == <<sleepLeft, pingIn>>
bounds  == <<windBack, crashes>>

Keys == {"claimant", "ping"}

TypeOK ==
    /\ claimant \in Tabs \cup {NoTab}
    /\ owner \in Tabs \cup {NoTab}
    /\ pingAge \in -windBack..Expiry
    /\ pc \in [Tabs -> {"new", "waiting", "bailing", "holder", "releasing", "over"}]
    /\ sleepLeft \in [Tabs -> 0..Expiry]
    /\ pingIn \in [Tabs -> 0..PingInterval]
    /\ inbox \in [Tabs -> SUBSET Keys]
    /\ windBack \in 0..MaxWindBack
    /\ crashes \in 0..MaxCrashes

Init ==
    /\ claimant = NoTab
    /\ owner = NoTab
    /\ pingAge = Expiry
    /\ pc = [t \in Tabs |-> "new"]
    /\ sleepLeft = [t \in Tabs |-> 0]
    /\ pingIn = [t \in Tabs |-> 0]
    /\ inbox = [t \in Tabs |-> {}]
    /\ windBack = 0
    /\ crashes = 0

\* A tab that runs the application, or is still shutting it down.
Active(t) == pc[t] \in {"holder", "releasing"}

\* The tabs that listen for storage events.
Listening(t) == pc[t] \in {"waiting", "holder"}

-----------------------------------------------------------------------------
(* Reading and writing local storage.                                      *)

Remaining_unclipped == IF owner = NoTab THEN 0 ELSE Expiry - pingAge

\* checkLock: the time before the ping is stale, 0 if the lock is free.  A
\* ping in the future counts as one of now.
Remaining ==
    IF owner = NoTab THEN 0
    ELSE IF pingAge > 0 THEN Expiry - pingAge ELSE Expiry

\* The events for t that are left, and for the other tabs that listen an event for
\* each key in written.
Events(t, left, written) ==
    inbox' = [u \in Tabs |-> IF u = t THEN left
                             ELSE IF Listening(u) THEN inbox[u] \cup written
                             ELSE inbox[u]]

\* serviceLock, the interval and the listeners, without an await between.
Take(t) ==
    /\ owner' = t /\ pingAge' = 0
    /\ pc' = [pc EXCEPT ![t] = "holder"]
    /\ pingIn' = [pingIn EXCEPT ![t] = PingInterval]
    /\ sleepLeft' = [sleepLeft EXCEPT ![t] = 0]

\* The tab starts to wait for an event or for the ping to expire.
Sleep(t) ==
    /\ pc' = [pc EXCEPT ![t] = "waiting"]
    /\ sleepLeft' = [sleepLeft EXCEPT ![t] = Remaining]
    /\ UNCHANGED <<owner, pingAge, pingIn>>

\* Nothing of the tab is left that reads or writes the lock.
Over(t) ==
    /\ pc' = [pc EXCEPT ![t] = "over"]
    /\ sleepLeft' = [sleepLeft EXCEPT ![t] = 0]
    /\ pingIn' = [pingIn EXCEPT ![t] = 0]

RemovePing == owner' = NoTab /\ pingAge' = Expiry

\* The keys whose removal is an event.
Removed == IF owner = NoTab THEN {} ELSE {"ping"}

-----------------------------------------------------------------------------
(* Starting up.                                                            *)

\* getSessionLock: the claim, and the first look at the lock.  Events of what other
\* tabs wrote before the claim may still be on their way.
Claim(t) ==
    /\ pc[t] = "new"
    /\ claimant' = t
    /\ \E late \in SUBSET Keys :
          /\ claimant = NoTab => late = {}
          /\ \/ Remaining = 0 /\ Take(t) /\ Events(t, late, {"claimant", "ping"})
             \/ Remaining > 0 /\ Sleep(t) /\ Events(t, late, {"claimant"})
    /\ UNCHANGED bounds

Wake_keepsWaiting(t, k) ==
    /\ pc[t] = "waiting" /\ k \in inbox[t]
    /\ \/ Remaining = 0 /\ Take(t) /\ Events(t, inbox[t] \ {k}, {"ping"})
       \/ Remaining > 0 /\ Sleep(t) /\ Events(t, inbox[t] \ {k}, {})
    /\ UNCHANGED <<claimant, bounds>>

\* A storage event wakes a waiting tab, which looks at the lock again.
Wake(t, k) ==
    /\ pc[t] = "waiting" /\ k \in inbox[t]
    /\ \/ /\ claimant # t
          /\ pc' = [pc EXCEPT ![t] = "bailing"]
          /\ sleepLeft' = [sleepLeft EXCEPT ![t] = 0]
          /\ Events(t, {}, {})
          /\ UNCHANGED <<owner, pingAge, pingIn>>
       \/ claimant = t /\ Remaining = 0 /\ Take(t) /\ Events(t, inbox[t] \ {k}, {"ping"})
       \/ claimant = t /\ Remaining > 0 /\ Sleep(t) /\ Events(t, inbox[t] \ {k}, {})
    /\ UNCHANGED <<claimant, bounds>>

\* The sleep ends before an event arrives: the tab takes the lock without
\* another look at it.
SleepEnds(t) ==
    /\ pc[t] = "waiting" /\ sleepLeft[t] = 0
    /\ Prompt => inbox[t] = {}
    /\ Take(t)
    /\ Events(t, inbox[t], {"ping"})
    /\ UNCHANGED <<claimant, bounds>>

\* onNewInstance returns in a tab that gave up waiting.
BailedOut(t) ==
    /\ pc[t] = "bailing"
    /\ Over(t)
    /\ UNCHANGED <<storage, inbox, bounds>>

-----------------------------------------------------------------------------
(* Holding the lock and giving it up.                                      *)

\* serviceLock, until the interval is cleared.
Ping(t) ==
    /\ Active(t) /\ pingIn[t] = 0
    /\ Prompt => inbox[t] = {}
    /\ owner' = t /\ pingAge' = 0
    /\ pingIn' = [pingIn EXCEPT ![t] = PingInterval]
    /\ Events(t, inbox[t], {"ping"})
    /\ UNCHANGED <<claimant, pc, sleepLeft, bounds>>

Notified_removesFirst(t, k) ==
    /\ pc[t] = "holder" /\ k \in inbox[t]
    /\ \/ /\ k = "claimant" /\ claimant # t
          /\ pc' = [pc EXCEPT ![t] = "releasing"] /\ RemovePing
          /\ Events(t, {}, Removed)
       \/ /\ k = "ping" \/ claimant = t
          /\ Events(t, inbox[t] \ {k}, {})
          /\ UNCHANGED <<pc, owner, pingAge>>
    /\ UNCHANGED <<claimant, timers, bounds>>

Notified_looksAtOwner(t, k) ==
    /\ pc[t] = "holder" /\ k \in inbox[t]
    /\ \/ /\ k = "claimant" /\ owner # t
          /\ pc' = [pc EXCEPT ![t] = "releasing"]
          /\ Events(t, {}, {})
       \/ /\ k = "ping" \/ owner = t
          /\ Events(t, inbox[t] \ {k}, {})
          /\ UNCHANGED pc
    /\ UNCHANGED <<storage, timers, bounds>>

Notified_trustsEvent(t, k) ==
    /\ pc[t] = "holder" /\ k \in inbox[t]
    /\ \/ /\ k = "claimant"
          /\ pc' = [pc EXCEPT ![t] = "releasing"]
          /\ Events(t, {}, {})
       \/ /\ k = "ping"
          /\ Events(t, inbox[t] \ {k}, {})
          /\ UNCHANGED pc
    /\ UNCHANGED <<storage, timers, bounds>>

\* onStorageEvent: the holder looks at the actual claimant, stops listening
\* and starts to shut the application down; other keys mean nothing to it.
Notified(t, k) ==
    /\ pc[t] = "holder" /\ k \in inbox[t]
    /\ \/ /\ k = "claimant" /\ claimant # t
          /\ pc' = [pc EXCEPT ![t] = "releasing"]
          /\ Events(t, {}, {})
       \/ /\ k = "ping" \/ claimant = t
          /\ Events(t, inbox[t] \ {k}, {})
          /\ UNCHANGED pc
    /\ UNCHANGED <<storage, timers, bounds>>

\* releaseLock: onNewInstance returns, the application has shut down.
Released(t) ==
    /\ pc[t] = "releasing"
    /\ Over(t) /\ RemovePing
    /\ Events(t, inbox[t], Removed)
    /\ UNCHANGED <<claimant, bounds>>

\* onPagehideEvent: the tab is closed while it pings.
PageHide(t) ==
    /\ Active(t)
    /\ Over(t) /\ RemovePing
    /\ Events(t, {}, Removed)
    /\ UNCHANGED <<claimant, bounds>>

-----------------------------------------------------------------------------
(* The environment.                                                        *)

\* A tab crashes, or is closed while it waits.
Crash(t) ==
    /\ pc[t] \in {"waiting", "bailing", "holder", "releasing"} /\ crashes < MaxCrashes
    /\ crashes' = crashes + 1
    /\ Over(t)
    /\ inbox' = [inbox EXCEPT ![t] = {}]
    /\ UNCHANGED <<storage, windBack>>

\* The clock of the system is set back.
WindBack ==
    /\ windBack < MaxWindBack
    /\ windBack' = windBack + 1
    /\ pingAge' = IF owner = NoTab THEN pingAge ELSE pingAge - 1
    /\ UNCHANGED <<claimant, owner, pc, timers, inbox, crashes>>

\* Time passes once the timers that are due have run.
Tick ==
    /\ \A t \in Tabs :
          /\ pc[t] = "waiting" => sleepLeft[t] > 0
          /\ Active(t) => pingIn[t] > 0
          /\ Prompt => inbox[t] = {}
    /\ pingAge' = IF pingAge < Expiry THEN pingAge + 1 ELSE Expiry
    /\ sleepLeft' = [t \in Tabs |-> IF pc[t] = "waiting" THEN sleepLeft[t] - 1 ELSE 0]
    /\ pingIn' = [t \in Tabs |-> IF Active(t) THEN pingIn[t] - 1 ELSE 0]
    /\ UNCHANGED <<claimant, owner, pc, inbox, bounds>>

Handle(t, k) == Wake(t, k) \/ Notified(t, k)

Next ==
    \/ \E t \in Tabs, k \in Keys : Handle(t, k)
    \/ \E t \in Tabs : \/ Claim(t) \/ SleepEnds(t) \/ BailedOut(t)
                       \/ Ping(t) \/ Released(t) \/ PageHide(t) \/ Crash(t)
    \/ WindBack \/ Tick

Spec == Init /\ [][Next]_vars

\* The browser runs timers and delivers events, onNewInstance returns and time
\* goes on; nothing obliges a tab to open, close or crash.
Fairness ==
    /\ WF_vars(Tick)
    /\ \A t \in Tabs, k \in Keys : WF_vars(Handle(t, k))
    /\ \A t \in Tabs : WF_vars(SleepEnds(t)) /\ WF_vars(Ping(t)) /\ WF_vars(Released(t))

FairSpec == Spec /\ Fairness

-----------------------------------------------------------------------------
(* Properties.                                                             *)

\* getSessionLock: "Ensure that only one instance of the application is running
\* at once."  The tab that takes the lock does so after the one before it has
\* shut down, whoever else claimed, crashed or closed in between.
MutualExclusion ==
    \A t, u \in Tabs : Active(t) /\ Active(u) => t = u

\* While the application runs in a tab the ping in local storage is its own and
\* is not near to being stale: no tab that starts (checkSessionLockFree) can
\* believe that the lock is free.
RunningIsAdvertised ==
    \A t \in Tabs : Active(t) => owner = t /\ pingAge <= PingInterval

\* No tab sleeps beyond the time after which a ping is stale, whatever happens to
\* the clock between the ping and the look at it: checkLock need not wait "hours,
\* days, millenia" for a ping of the future.
SleepIsBounded == \A t \in Tabs : pc[t] = "waiting" => sleepLeft[t] <= Expiry

\* The tab opened last gets the lock, unless it is closed or yet another tab
\* claims it: a holder that crashed, or shuts down, holds it up for a while only.
NewestGetsIn ==
    \A t \in Tabs : claimant = t /\ pc[t] = "waiting"
        ~> claimant # t \/ pc[t] \in {"holder", "over"}

\* A tab shuts down, or gives up waiting, only for a claim newer than its own: an
\* event that was on its way before it claimed is no reason.
GivesUp(t) == pc[t] \in {"bailing", "releasing"}

GivesUpForNewer == \A t \in Tabs : GivesUp(t) => claimant # t

\* Of the tabs that run the application or wait for it, those with a claim that is
\* not the newest stop, even if they took the lock after that claim, and only those:
\* neither a missed nor a late storage event misleads them.
OnlyOlderStop ==
    \A t \in Tabs :
        /\ [](GivesUp(t) => claimant # t)
        /\ Active(t) /\ claimant # t ~> ~Active(t)

\* What makes the lock safe while Prompt: the ping is not older than the time
\* since the holder's timer was set, and a waiting tab that has handled its
\* events sleeps until that ping would be stale.
LockInv ==
    /\ MutualExclusion
    /\ \A t \in Tabs : Active(t) => owner = t /\ pingAge + pingIn[t] <= PingInterval
    /\ \A t, u \in Tabs : pc[t] = "waiting" /\ inbox[t] = {} /\ Active(u)
           => sleepLeft[t] >= Expiry - PingInterval + pingIn[u]
=============================================================================

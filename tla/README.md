# Element: a verification project

This directory holds TLA+ models of the logic that Element Web rests on: the
Matrix client library `matrix-js-sdk` and the session handling of
`element-web`.  The user interface, the desktop shell and the test tooling make
up most of the repository; what can go wrong in an order nobody wrote a test
for is in the library, in some thirty classes that await network answers, timers,
storage and each other.  Each module here models one of them, or a few that share
state.  The code is single threaded: an action is what runs between two awaits
(or callbacks), and the interleavings are those of suspended functions, timers,
microtasks, network answers, several browser tabs and the crypto library.

All paths below are relative to the repository root (`src/` here); `js/` stands for
`matrix-js-sdk/src/` and `web/` for `element-web/apps/web/src/`.

## 1. Inventory

| Component | State it keeps | Operations | Talks to |
|---|---|---|---|
| Event sending and local echo (`js/client.ts`, `js/scheduler.ts`, `js/models/room.ts`, `js/models/event.ts`) | status of each local echo, pending list, `txnToEvent`, `eventsBeingEncrypted`, the message queue, the persisted pending events | send, encrypt, queue, retry, cancel, resend, remote echo, restart | crypto, homeserver, /sync, local storage |
| Session lock (`web/utils/SessionLock.ts`) | three local-storage keys (PING, OWNER, CLAIMANT) shared by all tabs, timers of each tab | claim, wait, take, ping, release, page hide, crash | `Lifecycle.onSessionLockStolen` |
| To-device queue (`js/ToDeviceMessageQueue.ts`) | stored batches, `sending`, `running`, `retryAttempts`, retry timer | start, stop, queueBatch, sendQueue, onResumedSync | store, homeserver, sync state |
| Token refresh (`js/http-api/refresh.ts`, `js/http-api/fetch.ts`) | access and refresh token, expiry, the refresh in flight | authed request, eager refresh, unknown-token handling, retry, log out | homeserver, OIDC token refresher |
| Outgoing crypto requests (`js/rust-crypto/OutgoingRequestsManager.ts`, `KeyClaimManager.ts`, `OutgoingRequestProcessor.ts`) | `nextLoopDeferred`, `outgoingRequestLoopRunning`, `stopped`; the claim chain | doProcessOutgoingRequests, the loop, stop, ensureSessionsForUsers | crypto library, homeserver |
| Room encryption (`js/rust-crypto/RoomEncryptor.ts`) | the encryption chain of a room, lazy-load flag | prepare, encrypt, share keys, membership changes | key claims, outgoing requests |
| MatrixRTC membership (`js/matrixrtc/MembershipManager.ts`, `MembershipManagerActionScheduler.ts`) | the scheduled actions, delay id, retries, `hasMemberStateEvent`, expiry rounds | join, leave, refresh, restart of the delayed leave, update of the membership | homeserver (state and delayed events), room state |
| MatrixRTC keys (`js/matrixrtc/RTCEncryptionManager.ts`, `ToDeviceKeyTransport.ts`) | outbound session, participant memberships, the distribution in flight | join, leave, memberships changed, key received, roll out, use after delay | to-device messages, the media layer |
| Sync loop (`js/sync.ts`) | sync state, `currentSyncRequest`, failed sync count, token, keep-alive | start, cached sync, sync, keep alive, stop, retry now, processing | store, homeserver, crypto, rooms |
| Sync accumulation and store (`js/sync-accumulator.ts`, `js/store/indexeddb*.ts`) | accumulated rooms, next batch, `syncTs`, the pending write | accumulate, save, load, wipe | IndexedDB |
| Sliding sync (`js/sliding-sync.ts`, `sliding-sync-sdk.ts`) | lists, subscriptions, `pos`, transaction ids | set list, subscribe, resend, poll, expire | homeserver |
| Key backup upload (`js/rust-crypto/backup.ts`) | active version, `backupKeysLoopRunning`, check in progress | check, enable, upload loop, version change, delete | homeserver, crypto library |
| Key backup download (`js/rust-crypto/PerSessionKeyBackupDownloader.ts`) | queued requests, missing sessions, configuration, `downloadLoopRunning` | missing session, query, rate limit, configuration change, stop | homeserver, backup |
| Dehydrated device (`js/rust-crypto/DehydratedDeviceManager.ts`) | interval timer, pickle key | start, create, rehydrate, schedule, stop | secret storage, homeserver |
| Verification (`js/rust-crypto/verification.ts`) | phase, accepting, cancelling, the verifier | accept, start, cancel, confirm | crypto library |
| Secret storage (`js/secret-storage.ts`, `web/SecurityManager.ts`) | keys and account data, cached keys | add key, store, get, access with prompt | account data, /sync |
| Login, logout, soft logout (`web/Lifecycle.ts`, `web/MatrixClientPeg.ts`, `web/utils/tokens`) | stored session, `_isLoggingOut`, the client | restore, log in, log out, start and stop client | session lock, storage, client |
| Legacy calls (`js/webrtc/call.ts`, `callEventHandler.ts`) | call state, party id, negotiation flags, candidate queues | invite, answer, select, negotiate, glare, hang up | to-device or room events, WebRTC |
| Group calls (`js/webrtc/groupCall.ts`) | participants, calls, retry counts | enter, leave, place and replace calls | calls, room state |
| Timelines (`js/models/event-timeline*.ts`, `timeline-window.ts`) | linked lists of timelines, tokens, the window | paginate, join neighbours, reset, load | homeserver |
| Relations, threads, receipts, polls (`js/models/*.ts`) | aggregated relations, thread roots, receipts | add, redact, replace, echo | room |
| Room state and sticky events (`js/models/room-state.ts`, `room-sticky-events.ts`) | state maps, out-of-band members status, sticky map and its timer | set state, load members, expire | /sync, store |
| Interactive authentication (`js/interactive-auth.ts`) | stage, session, the attempt in flight | attempt, submit, poll | homeserver |
| Rendezvous and sign in with QR (`js/rendezvous/`) | channel state, expiry | connect, send, receive, cancel | another device |
| Widgets (`js/embedded.ts`, `web/stores/widgets/`) | pending capability requests, send and receive queues | send, receive, delayed events | widget API |
| Event index (`web/indexing/EventIndex.ts`) | crawler checkpoints, the current one | crawl, add live events, redact, stop | platform index |
| Device listener (`web/device-listener/`) | dismissed flags, the check in flight | recheck, show toasts | crypto, account data |
| Room list, notifications, spaces, settings, view stores (`web/stores/`) | derived views of the client's state | recompute on events | the client |
| User interface, i18n, slash commands, editor | React state | render | stores |
| Desktop shell (`apps/desktop`) | windows, updater, seshat | IPC | the web app |
| Module API, shared components, test tooling | none of its own | | |

### What is hard here

* **Suspended functions.**  Most classes keep a flag (`sending`,
  `outgoingRequestLoopRunning`, `backupKeysLoopRunning`, `running`) that is read
  before an await and acted on after it.
* **Two answers for one thing.**  A message is acknowledged by the answer of its
  request and by /sync, in either order and with or without a transaction id; a call
  membership is written by the client and removed by the server's delayed event.
* **Retries.**  The message queue, to-device batches, delayed events, key
  backup and the token refresh all retry, with a limit, while other calls go on.
* **Several tabs.**  Local storage is the only thing they share, storage events
  arrive late, and a tab may freeze or crash.
* **Restarts.**  Pending events, to-device batches, the sync token and the tokens
  are read back from storage that was written at another moment.
* **Stopping.**  `stop()` is called while a request is out, and the answer still
  arrives.

## 2. The modules, and how they compose

In the order of how much of the application depends on them.

| # | Module | Models | Composes | Theorems |
|---|---|---|---|---|
| 1 | `EventSending` | sending, local echo, restart | - | types, queue head, withdrawal, service of the queue, local echoes |
| 2 | `SessionLock` | one tab at a time | - | types, mutual exclusion, freshness of the ping, bounded sleep |
| 3 | `OutgoingRequests` | the loop that sends crypto requests | - | types, a resolved call's requests were tried, nobody forgotten |
| 4 | `RoomEncryption` | encryptions of a room, claims of one-time keys | extends `OutgoingRequests` | types, simulation of the loop, the chain of claims, queries first, keys first, leavers cannot read |
| 5 | `SyncLoop` | sync, keep-alives, stop, the saved token | loop and store | types, no update missed, tokens go forward, waits are reported |
| 6 | `TokenRefresh` | requests and refresh | - | types, refresh tokens are used once, failures are real |
| 7 | `RtcKeys` | distribution of media keys | encryption manager and session | types, leavers cannot hear, members are served, the last key is heard |
| 8 | `ToDeviceQueue` | stored batches | implements `OrderedDelivery` | the refinement, service of the store |
| 9 | `RtcMembership` | the membership of a call | manager, scheduler, session | the membership is kept, a leave is sent, one delayed leave |

`OrderedDelivery` is an abstract specification: the batches of a call are delivered in
order, each at least once, none is removed before it was delivered or refused.
`ToDeviceQueue` implements it (`ImplementsDelivery`, a property of its run, and proved).
`Queues` holds what the queues of three modules share: taking entries out, wherever they stand.
`RoomEncryption` implements the loop it is built on: every behaviour of it is one of
`OutgoingRequests` with a stuttering loop (`ImplementsLoop`, proved), so that the loop's
theorems hold in it.

There are few runs, one for each question, and no property that a module cannot
violate.  Type invariants hold in every run; they are not checked in all of them, because they
are proved (`TypeCorrect`, `RoomTypes`, `KeyTypes`, and with `QueueInvariant`; of
`RtcMembership` the part that its proofs need, as the first part of its inductive invariant).

What could be modelled next, in this order: the two loops of the key backup, where a
configuration check that is overtaken by a change leaves its late verdict
(`js/rust-crypto/PerSessionKeyBackupDownloader.ts:199`); glare of two legacy calls
(`js/webrtc/callEventHandler.ts:326`); and as bounded algorithms the joining of
timelines and the map of sticky events.

## 3. How the modules are written

An action is the code between two awaits, named after the function it is part
of; when several functions run without an await in between they are one action.
What a suspended function remembers is in a variable of its own (`task`, `phase`,
`pc`, `loop`).  The network is a request that is out, may be accepted by the server,
and is answered or fails at any time, also after it was accepted.  Timers
fire at any time, unless their order matters (`SessionLock` counts ticks).
A behaviour is bounded by counters of the environment's disturbances (`MaxErrors`,
`MaxRestarts`, `MaxStops`, `MaxCrashes`, `MaxFires`, ...), never of the
program's own steps.  Operators whose name has an underscore
(`Save_beforeUpdate`) are plausible wrong versions of the definition they
follow; no specification uses them.  Substituting one shows which property notices.

`PROJECT.json` maps each definition to the lines it models.

## 4. The modules

### 4.1 `EventSending`: sending and the local echo

`sendCompleteEvent` makes a local echo, adds it to the room's pending list and
calls `encryptAndSendEvent`, an async function that encrypts, hands the event
to `MatrixScheduler` or sends it directly, and updates the status
(`Room.updatePendingEvent`).  Meanwhile /sync may deliver the remote echo, the
user may cancel or resend, and the application may restart.

| TLA+ | Code |
|---|---|
| `status`, `CanMove` | `MatrixEvent.status`, `ALLOWED_TRANSITIONS` and the refusals of `updatePendingEvent` |
| `task` | the await `encryptAndSendEvent` is suspended in |
| `pending`, `txnToEvent`, `hasId`, `assoc`, `listening`, `stored` | `Room.pendingEventList`, `Room.txnToEvent`, the replaced local id, the id in a relation, the listener for the target's id, local storage |
| `queue`, `phase`, `cur`, `attempts` | the queue `"message"` and the four places in which `processQueue` can be: not running, about to take the head (a microtask), waiting for the request, waiting for the retry timer |
| `Send`, `Resend`, `Cancel` | `sendCompleteEvent`, `resendEvent`, `cancelPendingEvent` |
| `StartEncryption`, `SkipEncryption`, `EncryptionDone`, `EncryptionFails` | the steps of `encryptAndSendEvent` up to `scheduler.queueEvent` or the direct request |
| `ProcessEvent`, `RetryTimer`, `QueuedResponse`, `QueuedFailure` | `processQueue` and its callbacks |
| `DirectResponse`, `DirectFailure` | the same for events the scheduler does not queue |
| `ServerAccepts`, `Echo` | the homeserver; `addLiveEvents`, `handleRemoteEcho` |
| `Restart`, `Reload` | a new process; the persisted events added back by the constructor of `Room`, one at a time because each is decrypted first |

Choices.  The scheduler's queue is one for the whole client, as in the code, so an
event of another room waits for, and fails with, those of the first.  The pending
events are those of `PendingEventOrdering.Detached`, which element-web uses.
`RetryLimit` stands for the `attempts > 4` of the retry algorithm; delays are
abstract.  Between the answer to a queued request and the continuation of
`encryptAndSendEvent` there are microtasks only, hence the guard `NoMicrotask` on
the actions of timers and the network.  Resending is allowed for unsent events
only, as the interface offers it.  A request that is out when the process dies
may have been accepted already or is lost.

| Run | Shows |
|---|---|
| `EventSendingSafety` | Two messages in an encrypted room, the second a relation to the first, and one in another room; two failures; echoes with and without the transaction id.  No local echo is left without an owner (`NoOrphan`), the queue is worked on while it has entries (`QueueIsServed`), an event is shown once (`ShownOnce`), a relation queued behind its target is sent with the real id (`QueuedRelationResolved`), every send ends (`SendEnds`), what the server accepted is shown (`AcceptedIsShown`). |
| `EventSendingRestart` | A restart between any two steps.  The request that is out belongs to the head of the queue (`OnlyHeadIsSent`), a cancelled event is withdrawn everywhere (`CancelledIsWithdrawn`), local storage mirrors the pending list (`PendingIsStored`). |

The bounds.  Three events are the least for one that is answered, one behind it and
one on its own; a relation needs its target; two failures let the head fail,
be retried and fail for good; a `RetryLimit` of 1 reaches every branch that 4 reaches.
Restarts are in the smaller run, as what they disturb (storage, events added back)
does not depend on the retries.

Fairness.  Encryption, microtasks and timers end by themselves.  `Answer` assumes that
a request gets an answer: the HTTP layer turns a lost connection into a failure, which
is bounded by `MaxErrors`.  /sync goes on.  The user is never obliged to act.

### 4.2 `SessionLock`: one tab at a time

The tabs share three keys of local storage and are told of each other's
writes by storage events.  `getSessionLock` writes the claimant key, then sleeps until
the lock is free or stale, waking for events; the holder pings, and releases
when it sees a claimant other than itself.

| TLA+ | Code |
|---|---|
| `claimant`, `owner`, `pingAge` | the local-storage keys; `pingAge` is the clock minus the ping |
| `pc` | where `getSessionLock`, or the tab after it, is |
| `sleepLeft`, `pingIn` | the timeout of the sleep, `lockServicer` |
| `inbox` | keys whose storage event is on its way, also from before the tab's own claim; the handler looks at the storage, so only the key matters |
| `Claim`, `Wake`, `SleepEnds`, `BailedOut` | the loop of `getSessionLock`, with `checkLock` |
| `Ping`, `Notified`, `Released`, `PageHide` | `serviceLock`, `onStorageEvent`, `releaseLock`, `onPagehideEvent` |
| `Crash`, `WindBack`, `Tick` | a tab that vanishes, the clock set back, time |

Time is in ticks of the ping interval's scale; timers that are due run before it
goes on.  `Prompt` says that a storage event is handled before any
later timer of the tab.  Nothing in a browser guarantees it, and
`SessionLockLate` shows what happens otherwise: the sleep of a waiting tab ends
while the event of another claim is under way, and both run.  The code takes the lock
there without looking at it again (finding in section 5).

| Run | Shows |
|---|---|
| `SessionLock` | Four tabs, two crashes and the clock set back once, `Prompt`: one tab runs (`MutualExclusion`), no tab sleeps beyond the expiry of a ping (`SleepIsBounded`), the newest tab gets in (`NewestGetsIn`), and a tab gives up for a newer one and for nothing else (`OnlyOlderStop`), although an event of an older claim may come after its own. That the ping of the tab that runs is its own and fresh (`RunningIsAdvertised`) is proved. |
| `SessionLockLate` | Without `Prompt` the lock can be held twice (a violation). |

Four tabs make a chain: a holder, one that bails out, one that waits, one that
claims just now.  `Expiry` is three ping intervals; the code's is six, and
only that it is longer than one matters to the proof.  Fairness: timers and events
come, `onNewInstance` returns; without the last the newest tab would wait
forever, which the code accepts.  Not modelled: a page that returns from the
back-forward cache, and `checkSessionLockFree`, which only reads.

### 4.3 `ToDeviceQueue`: stored to-device batches

`queueBatch` splits a call into batches of 20 messages, saves them in the store and
kicks `sendQueue`, the loop that sends the oldest batch, removes it and goes on.

| TLA+ | Code |
|---|---|
| `call`, `store` | the calls of `queueBatch`; the store's batches, oldest first |
| `running`, `started`, `retryTimer`, `attempts` | the fields of the class; `started`: `onResumedSync` is registered |
| `loop`, `headBatch`, `accepted` | where `sendQueue` is suspended (reading, sending, removing, dropping), the batch it read, whether the server took it |
| `QueueBatch`, `Saved` | `queueBatch` before and after the store has written |
| `ReadOldest`, `Sent`, `RequestFails`, `Removed`, `Dropped`, `StoreFails` | the awaits of `sendQueue` and its catch branches |
| `KickedByClient`, `Start`, `Stop`, `RetryTimer` | `onResumedSync` and the user's retry, `start`, `stop`, the timer |
| `Restart` | a new process over the same IndexedDB; a save that was under way may be lost: the store is then `Without` its batches |

`loop = "waiting"` is an idle loop that gave up (a fatal answer, a lost
connection, the retry limit) or belongs to a process that was just started: nothing
more happens before a kick.  The oldest batch is read when the read ends.  The
kind of an error decides: `fatal` (a 4xx other than 429) drops the batch, a connection
error gives up until sync resumes, others are retried with `RetryLimit`.

The promise is a module of its own, `OrderedDelivery`, and `ToDeviceQueue` is shown to
implement it: `waiting` is the store with the batches that are being saved, without a
head that the server took already; `delivered` are the first deliveries, `refused` the
batches it refused.  A restart maps to a crash that may lose a call that
has not returned, with all of its batches or none.

Run `ToDeviceQueue`: two calls, one of two batches, three errors, two stops, one
restart.  `ImplementsDelivery` (nothing is lost, delivered out of order or dropped without
a refusal, also across restarts), `StoreIsServed` (no kick falls between two loops) and
`SentWithoutKick` (a delivery needs no further kick unless the loop gave up or was
stopped).  Three batches have an oldest, one behind it and one of another call;
the third error needs the first two, as the limit is 1.  Fairness: the store and the
server answer and the timer fires; kicks are not owed.

### 4.4 `TokenRefresh`: authenticated requests

| TLA+ | Code |
|---|---|
| `pc`, `attempt`, `snapshot`, `queryToken`, `sentToken` | `doAuthedRequest`: its await, attempt, token snapshot, the `access_token` of its query parameters, the token that was sent |
| `token`, `canRefresh` | `opts.accessToken` and `opts.refreshToken` |
| `promise`, `refreshes`, `waitsFor` | `tokenRefreshPromise`; the calls of `doTokenRefresh`; who waits for which |
| `issued`, `consumed`, `gone`, `life`, `revoked` | the server and the clock |
| `failures`, `errors`, `answerLost` | refreshes without an answer and with an error answer; history: the answer to an accepted refresh was lost |
| `Start`, `Prepare`, `SendPrepared`, `ServerAnswers`, `HandleUnknownToken` | a request: `prepareForRequest`, the request itself, `handleUnknownToken` |
| `BackoffEnds`, `ServerRefreshes`, `RefreshSucceeds`, `RefreshRefused`, `RefreshFails`, `RefreshErrs` | a refresh: the delay of an attempt, the server, the tokens, the refusal of a spent or revoked refresh token, no answer, an error answer for a good one |
| `Age`, `Revoke` | a token expires; the session is ended |

Token *n* is the pair the *n*-th refresh returned.  Requests that wait
for one refresh continue in adjacent microtasks, so its end settles them
together.  An expired token may or may not be refused yet; the server may or may not
drop the old access token at a refresh, and need not send a new refresh token with the
new one: then `canRefresh` ends.  Every error answer logs out, a rate limit and an error of the
server as well (`RefreshErrs`, section 5); only a refresh without an answer is a transient
failure.

Run `TokenRefresh`: two concurrent requests, two generations of tokens that
expire, two refreshes that get an error or no answer, the session revoked at any time.
`RefreshTokenUsedOnce`, `OnlyRealFailures`, `RequestEnds`.  `OnlyRealFailures` names every
reason for a failure and for a log-out; what it excludes is one that comes from the
requests' interplay: a request whose token was replaced meanwhile, which waited for another's
refresh, or which still holds an old expiry.  Two
requests show every sharing of a refresh (waiting, arriving after it, holding
a replaced token); two generations let a request be overtaken twice.  The run has the
token in the header; without it a retry sends the old token again (section 5).
Fairness: requests and refreshes are answered (the HTTP layer has time-outs).

### 4.5 `RtcMembership`: the membership of a call

| TLA+ | Code |
|---|---|
| `current`, `told` | the manager of `MatrixRTCSession`, the last `JoinStateChanged` |
| `running`, `activated`, `leaving`, `actions`, `wakeup` | `ActionScheduler` (the loop, its sorted actions, the update that came while a handler awaits) and the manager's `activated`, `leavePromiseResolvers` |
| `hasMember`, `delayId`, `own`, `probablyLeft`, `retries` | `MembershipManager.state`, `ownMembership` |
| `request`, `intent` | the request an action awaits, and the one of `updateCallIntent`, which runs beside the schedule |
| `member`, `delayed`, `stream`, `seen` | the server's room state and delayed events; what sync has still to bring, and has brought |
| `Begin`, `ServerAnswers`, `HandleAnswer` | `membershipLoopHandler`: up to the request, the server, the rest (`DelayedEventAnswered`, `RestartAnswered`, `JoinAnswered`, ...) |
| `Join`, `Leave`, `UpdateCallIntent`, `Deliver`, `OtherMemberChanges`, `Fire` | the session, sync, the server sending a delayed leave |

Delays are abstract: any scheduled action may be next, which includes a clock that
jumps.  The rate-limit and the network counters are one.  The ids of delayed
events are reused once the server no longer holds them.  The variant with sticky
events sends other requests under the same control.  `Deliver` shows the session the
states of its membership in order; that a recalculation may finish late is `RtcKeysStale`.
Not modelled: an answer that arrives after its request was given up, the expiry of the
membership itself, and a server that stops supporting delayed events during a
participation (the `isUnsupportedDelayedEndpoint` branches of 560, 636 and 659; the
last ends the loop with no leave sent).
`died` and `misled` are history: managers that stopped for an unrecoverable error,
and managers that cannot know of their own membership (sync was behind, or the
answer to an accepted join was lost).  What `LeaveIsSent` excuses is exactly these two.

| Run | Shows |
|---|---|
| `RtcMembershipSafety` | Two participations, the second joined while the first may still be leaving, one call of `updateCallIntent`, servers with and without delayed events (`Servers`, chosen at the start), which do not cancel them when the state changes.  The membership is always about to be sent or refreshed (`MembershipIsKept`), a leave that resolves has removed it (`LeaveIsSent`), both while `updateCallIntent` was not called; and while the first manager is connected with no request out, the server holds no delayed leave but the one it knows (`OnlyOwnDelayedLeave`).  The delayed leave of a manager that was left is not part of it (section 5). |
| `RtcMembershipLive` | One participation, a request that fails in any way, a delayed leave that fires: `leave()` resolves (`LeaveEnds`), a membership that was removed is regained (`MembershipIsRegained`). |

The two runs share what would multiply: overlapping participations are in the first,
failures and a fired leave in the second.  A retry limit of 1 reaches every branch.
Fairness: strong on `Begin`, as the schedule is sorted by time and an action that
is scheduled again and again still has its turn between the others; none for the
expiry update, which is hours away.

### 4.6 `OutgoingRequests`: requests of the crypto library

| TLA+ | Code |
|---|---|
| `queue`, `known` | the OlmMachine: requests not yet marked as sent |
| `phase`, `current`, `toDo`, `sending`, `successes` | `outgoingRequestLoop` and `processOutgoingRequests` of an iteration |
| `next`, `nextCalls` | `nextLoopDeferred` and who holds its promise |
| `Call`, `Check`, `Return`, `Make`, `Succeeds`, `Fails`, `IterationEnds`, `MachineFails`, `Stop` | the awaits of the loop |
| `Queue` | the library queues a request on its own |

Requests of an iteration are made in any order, as the library does not promise one.
A success may queue follow-ups.  `OutgoingRequestProcessor`'s HTTP retries are part of
one success or failure.  The module is checked in its composition, by the run
`RoomEncryption`: three callers of the loop at a time are two encryptions and the sync.

### 4.7 `RoomEncryption`: encryptions over the loop

| TLA+ | Code |
|---|---|
| `chain`, `Active` | `RoomEncryptor.currentEncryptionPromise` of each room: one encryption after the other |
| `step`, `userList`, `toSend` | where `encryptEvent` is suspended, the members it read, the key messages it has yet to send |
| `lazyLoaded` | `lazyLoadedMembersResolved` |
| `claims` | `KeyClaimManager.currentClaimPromise`, shared by all rooms |
| `members`, `left` | the room as the client knows it; who was last seen leaving |
| `sessions`, `shared`, `invalid`, `known`, `queue` | the OlmMachine: Olm sessions, whom the Megolm session is shared with, a discarded session, tracked users and their device queries |
| `LoadMembers`, `Tracked`, `QueriesEnd`, `Claim`, `Claimed`, `SendKey`, `Encrypt`, `AwaitFails` | the awaits of `prepareForEncryption`, `ensureEncryptionSession` and `ensureSessionsForUsers` |
| `Join`, `HiddenJoin`, `Leave`, `SyncCompleted` | `onRoomMembership`, `onRoomStateEvent`, a join that a gap in the timeline hides, the end of a sync |
| `Loop` | the actions of `OutgoingRequests`, with its `Stop` that stops the claims as well |

The request named by a user is the query of that user's devices.  The OlmMachine is
external: `ShareRoomKey` states what the code relies on (a session is replaced when it was
discarded or shared with somebody not on the list; who has not got the key gets it with the next
event).  A failed key message fails the encryption, and its receiver may have got it.
`Leave` discards the session at once: `onRoomStateEvent` calls `invalidateGroupSession` of
the OlmMachine and does not await it, so that an effect after later calls of the
library, or a failure, is left out.  Invitations and other changes of a member
that are no join discard it too, which only replaces a session more often.

Run `RoomEncryption`: two encryptions in one room, a member, a follow-up request,
one sync or (re)join, any failure, stop.  `TriedWhenResolved`, `NobodyIsForgotten`,
`FollowUpsAreMade`, `LoopRests` are the loop's; `QueriedBeforeSessions`, `KeyPrecedesEvent`,
`LeftCannotRead`, `EncryptionEnds` are the room's.  Two encryptions are one that is under way
and one behind it, the first and a later one of the room; more users add their
product and no new order, and the safety properties are proved for any number.  Fairness: the
OlmMachine and the homeserver answer or time out.

### 4.8 `SyncLoop`: sync over its store

| TLA+ | Code |
|---|---|
| `pc`, `saved` | where `sync()` and `doSync` are suspended; where the promise of the saved data is |
| `since`, `token`, `seen` | the token of `currentSyncRequest`, the store's token, what was processed |
| `syncState`, `failedSyncCount`, `running` | the fields of `SyncApi` |
| `resolvers`, `timer`, `strays`, `pokes` | `connectionReturnedResolvers`, `keepAliveTimer`, timers whose name was overwritten, requests of `pokeKeepAlive` |
| `acc`, `writing`, `connected`, `disk` | `SyncAccumulator`, the open transactions of a save, a store that was not degraded, the database |
| `GetPushRules`, `GetFilter`, `Recover`, `FirstRequest`, `DoSync` | `sync()` |
| `SavedRead`, `SavedProcessed` | `getSavedSync`, `syncFromCache` |
| `Head`, `Response`, `Processed`, `SyncFails` | `doSync`, `onSyncError` |
| `Save`, `RemoveEvents` | `doSyncToDatabase`, `removeEventsFromRoom` |
| `TimerFires`, `PokeSucceeds`, `PokeFails`, `Online`, `Stop` | `startKeepAlives`, `pokeKeepAlive`, `retryImmediately`, `stop` |
| `Update`, `Crash` | the server; the page is closed at any point |

The server's stream is a sequence of updates, a token the number of those before it, so
that "what a response brings" and "what was saved" are sets of updates.  `excused` is
history: updates whose processing threw, saved data that could not be read, and account
data that its own transaction had not saved when the token was (section 5).

Run `SyncLoop`: three updates of which one is account data, two faults of any kind, one
crash anywhere in a save, one "online" event.  `NothingMissed`, `TokenForward`,
`WaitingIsReported`, `UpdatesArrive`.  A database that fails is deleted or, as this may fail as well, left as it was.  Three updates are one that was saved, one that
comes between the two transactions, and one after the restart; two faults reach
the threshold (of 2; 3 in the code) and let a poke fail while the loop waits.  Fairness: the
database and the server answer or time out, timers fire; nothing obliges the user, the
server or a crash.  Not modelled: guests, peeking, and what processing does to rooms.

### 4.9 `RtcKeys`: the media keys of a call

| TLA+ | Code |
|---|---|
| `room`, `memberships`, `needed`, `queued`, `calculations` | the room state; `MatrixRTCSession.memberships`, `membershipNeedsRecalculation`, `recalculateSessionMembersPromise`, what running recalculations have read |
| `key`, `old`, `sharedWith` | `outboundSession` and its age |
| `round`, `toDistributeTo`, `hasKeyChanged`, `again` | `rolloutOutboundKey` between its awaits, `needToEnsureKeyAgain` |
| `used`, `holders` | the key our media is encrypted with; who got which key |
| `early`, `handed` | `keysWithoutMatchingRTCMembership`, the keys that the media layer was given |
| `EnsureKeyDistribution`, `BeginRound`, `FirstKey`, `KeySent`, `NotSupported`, `Delayed`, `Age` | the distribution |
| `ReceiveKey`, `HandOver` | `onNewKeyReceived`, the keys of early senders |
| `Change`, `EnsureRecalculate`, `ChainStarts`, `Recalculated` | the recalculations |

Run `RtcKeys`: two others, three joins, rejoins or leaves, a key that gets old, two
received keys, drivers that can and cannot send.  `LeaverCannotHear`, `MembersGetKey`,
`KeysReachMedia`, `RoundsEnd`.  Three changes are one that a round is for, one
while it is under way, and one in the delay before the key is used.  Key indices wrap around
after 256 in the code and not in the bounded model.  A device has one identity in the media
layer; the hashed one of a sticky membership, which changes with its `memberId`, is not told
apart.  `RtcKeysStale` is the finding of section 5.
Fairness: promises settle, timers fire, the server answers.

## 5. Where code and comments disagree

Two runs are expected to find a violation:

* `SessionLockLate` (`web/utils/SessionLock.ts:260`): a waiting tab takes the lock
  when its sleep ends without calling `checkLock` again; the comment above it says that
  nothing can have changed, but a claim whose storage event is still on its
  way has.
* `RtcKeysStale` (`js/matrixrtc/MatrixRTCSession.ts:740`): the flags that should keep
  recalculations of the memberships from running in parallel do not cover
  `_onRTCSessionMemberUpdate`, which calls `recalculateSessionMembers` itself.  The
  recalculation of an older state of the room may finish last, and somebody who left stays
  a member, and gets the media key, until the next change.

Other divergences met while modelling.  Some are stated as definitions at the end
of their module, under "What the comments promise and the code does not guarantee";
added to the module's configuration as an invariant, TLC finds them violated.

* `js/scheduler.ts:110-112` says that after an event that failed the next one in the
  queue is sent; the code (278) rejects every queued event, of every room
  (`OthersAreStillSent`).
* `js/client.ts:2860-2863`: a reaction, which is never encrypted, is sent with the local
  id of a target that is still being encrypted (`RelationHasRealTarget`).
* `js/models/room.ts:2846` saves the list while persisted events are still being
  added back, and drops those not yet added; a second restart loses them
  (`ReadBackIsKept`).
* `js/models/room.ts:2981`: a persisted event whose echo arrives before it is added
  back is shown as unsent beside the echo.
* `js/ToDeviceMessageQueue.ts:107`: a 429 answer at the retry limit drops the batch as
  a fatal one does (`OnlyFatalIsDropped`); batches behind a dropped one wait for a kick,
  and the attempts of earlier failures count against later batches.
* `js/matrixrtc/MembershipManager.ts:285`: `leave()` sends nothing when sync reset
  `hasMemberStateEvent` before the membership arrived (`LeftIsLeft`).
* `MembershipManager.ts:224`: when an action gives up, `leave()` resolves with true
  although nothing was sent (`FailureIsNotLeft`), the status is that of the last schedule
  (`StatusIsActual`), and the session has told its listeners that it is joined
  (`ToldIsJoined`).
* `MembershipManager.ts:309`: `updateCallIntent` during a re-join loses the expiry update
  that its request should schedule, and overlapping a leave can restore
  the membership after it was removed.
* `MembershipManager.ts:430`: a join that is abandoned before its membership was sent does
  not cancel its delayed leave, which may fire into the next participation; the manager
  regains the membership.
* `MembershipManager.ts:112` describes a retry with the same action where 658
  schedules the leave event.
* `js/http-api/fetch.ts:161`: with `useAuthorizationHeader` off, the first attempt writes
  the token into the query parameters that the retry uses again, so that after a successful
  refresh the retry sends the expired token and the user is logged out; line 143 avoids
  just this for the other options ("avoid mutating paramOpts so they can be used on
  retry").  With `UseAuthorizationHeader = FALSE` in `TokenRefresh.cfg`, TLC finds
  `OnlyRealFailures` violated; it is proved for the value `TRUE`.
* `js/http-api/refresh.ts:158`: any `MatrixError` of a refresh, a rate limit (429) or an error of
  the server (5xx) too, logs the user out, and `js/oidc/tokenRefresher.ts:134` makes a
  `TokenRefreshLogoutError` of any OAuth error response; `js/http-api/errors.ts:220-222` says that
  this error means a failure "in a way indicative of token invalidation"
  (`LogoutMeansInvalid`).
* `js/sync.ts:798`: `stop()` while the loop waits for the connection clears the keep-alive
  timer, and nothing settles what the loop waits for: `doSync` does not end and the state
  does not become STOPPED, which `js/client.ts:944` announces.
* `js/store/indexeddb-local-backend.ts:430`: rooms with the token, and account data, are saved
  in transactions of their own, and `removeEventsFromRoom` (636) saves the rooms with the
  token alone.  A crash after that loses the account data in between for the next
  session (`excused` in `NothingMissed`); `js/sync-accumulator.ts:270` promises to
  "know at what point they should be streaming from without losing events".
* `js/store/indexeddb.ts`: if the saved data cannot be read after its token was, the session
  goes on from the token without the rooms; the comment on degrading says that the
  application "will still function correctly".
* `js/sync.ts:1671`: timers that `keepAliveTimer` no longer names still fire; a poke of theirs
  that fails reports ERROR while the client syncs.
* `js/matrixrtc/RTCEncryptionManager.ts`: keys that arrive in the wrong order should be told
  apart by their timestamp (`keyBuffer`), but `ToDeviceKeyTransport` passes the time of receipt,
  so that none is outdated.  The model hands keys over in the order of receipt.

## 6. What is proved

The theorems hold for every value of the constants that satisfies the assumption of the
module (`SendingAssumption`, `LockAssumption`, `FollowUpsAssumption`,
`RoomEncryptionAssumption`, `RtcAssumption`, `RtcKeysAssumption`, `SyncLoopAssumption`,
`ToDeviceAssumption`, `TokenAssumption`): any number of events, rooms, users, tabs, requests, calls,
batches, joins, updates and tokens, and any bounds.

**`EventSending_proofs`** (with `QueueLemmas` on sequences without repetitions).
`TypeCorrect`, `HeadOnly` (`OnlyHeadIsSent`), `Withdrawn` (`CancelledIsWithdrawn`),
`Served` (`QueueIsServed`).  None is inductive on its own: that the
request that is out belongs to the head needs that no suspended send can queue
an event twice, which needs what each status allows.  `SendingInv` has three parts:
`SchedulerInv` (the queue has no repetitions, and what each phase of `processQueue`
says of the head), `RequestInv` (which requests are out, by task and phase) and `TaskInv`
(where a suspended send is, by status).  The proof of a step goes through
the actions; the ones that end a request split on whether the event was cancelled
meanwhile.

The second invariant, `EchoInvariance`, is about what the user sees: `LocalEchoInv` (what
is pending is what is not settled, and who listens for an id has not got it),
`PendingIsStored` (`Stored`) and `FirstLifeInv`.  The last one has the premise
`restarts = 0`, and so have `Attended` (`NoOrphan`), `OneCopy` (`ShownOnce`) and `Resolved`
(`QueuedRelationResolved`).  They are checked without restarts as well, and are false with
them: an event that is read back can be pending while the timeline from the
sync cache shows it, so that its answer is ignored by `updatePendingEvent`, and a relation
that is read back no longer listens for the id of its target.  That a queued relation is
resolved in time rests on `BehindInv`: its target is before it in the queue, was
cancelled, or has given it its id.

**`SessionLock_proofs`**.  `TypeCorrect` for all behaviours;
`LockInvariant`, `OneAtATime` (`MutualExclusion`) and `Advertised`
(`RunningIsAdvertised`) under the hypothesis `Prompt`.  `LockInv` adds what makes
the timing work: the age of the ping plus the time to the next ping is at most the ping
interval, and a waiting tab that has no event left to handle sleeps until after the
holder's ping would be stale.  Setting the clock back only makes the ping look
younger and keeps both.  `SleepBounded` (`SleepIsBounded`) needs no hypothesis,
and `GivesUpRight` (the first half of `OnlyOlderStop`) neither: a tab shuts down,
or gives up waiting, only for a claim newer than its own.

**`ToDeviceQueue_proofs`**.  `QueueInvariant`, `StoreServed` (`StoreIsServed`) and
`QueueImplementsDelivery` (`ImplementsDelivery`): every step is one of `OrderedDelivery` or
leaves its variables alone, for any calls, failures and restarts.  A deliberately small
invariant carries it: a batch of a call that has not begun is unknown
(`NewIsUnknown`), a batch that the server knows while it is still in the store is the head
and the last delivery (`OldestIsLast`), so that sending it again is no new delivery; and a batch is
removed once the server has accepted or refused it (`RemovedIsSettled`).  The step that needs
most is the restart, which may lose what a call was saving: taking a call's
batches out of the store leaves the others in their order.

**`RoomEncryption_proofs`**, first the loop of `OutgoingRequests` by itself: `TypeCorrect`,
`LoopInvariant`, `ResolvedMeansTried` (`TriedWhenResolved`), `NoForgottenCall`
(`NobodyIsForgotten`).  `LoopInv` says where what is owed to a call is: in the
library's queue until its iteration has read it, then in the list that is left to do.
Then the composition.  `ImplementsLoop`: every step is one of the loop or leaves it
alone, so the loop's theorems hold in it (`LoopServesRooms`:
`TriedWhenResolved`).  `RoomInvariant`, `QueriesComeFirst` (`QueriedBeforeSessions`),
`KeysComeFirst` (`KeyPrecedesEvent`), `LeaversCannotRead` (`LeftCannotRead`).  `RoomInv` adds:
an encryption is in the chain of its room once, and the one whose turn it is is the head
(`InChain`); what a room queued is in the library's queue or was tried (`LoopHistory`), so a
resolved promise means that the first members were asked for (`FirstQueried`); whom the key
is for, has it or is still on the list, and a session that was not discarded is held by nobody who had
left when the encryption began (`KeysFit`).  The two action properties follow from it.
`ClaimsInvariant` is about what all rooms share: the chain of claims has each claim that is
not settled once, and the one that is made is the first.  `RoomTypes` rests on it.

**`SyncLoop_proofs`**.  `SyncInvariant`, `NoUpdateMissed` (`NothingMissed`), `TokenGrows`
(`TokenForward`), `WaitsAreReported` (`WaitingIsReported`).  `SyncInv` orders the tokens
(database, accumulator, store, request,
server: `Order`) and says for each place of the loop that all up to the token it will ask
from is processed, saved or excused (`Accumulated`), for the database at every moment of a
save.  `Told` adds to `WaitingIsReported` that the start-up waits for the saved data before it
waits for the connection, so that the state the saved data leads to comes first.
`TypeCorrect` adds what bounds the tokens and the updates.

**`MatrixRtc_proofs`**, the keys and the membership of a call one after the other.
`RtcKeys` and `RtcMembership` have no common name, so that one module can extend both; they
share no state.

For the keys: `KeysInvariant`, `LeaversAreShutOut` (`LeaverCannotHear`),
`MembersAreServed` (`MembersGetKey`).  `KeysInv`: who holds the newest key is in `sharedWith`
(`HoldersKnown`), nothing was sent before the first key (`NothingBeforeFirst`), the newest key
is used or its round goes on (`NewestIsUsed`), and a round fits the memberships unless
another was asked for (`RoundFits`): that flag is what the safety of everything that changes
during a round rests on.  `LastKeyIsHeard` (`KeysReachMedia`): `EarlyInv` says that the keys of
who is not a member are kept in the order in which they came, so that handing
them over ends with the last one, and that the last key of anybody else has been handed over.
`KeyTypes`: shares are of memberships the room had, holders have keys that were made, and
no more calculations wait than there were changes.

For the membership: `RtcInvariant`, `MembershipKept` (`MembershipIsKept`), `LeaveSent`
(`LeaveIsSent`), `OwnLeaveOnly` (`OnlyOwnDelayedLeave`).  `RtcInv` has four parts.  `LifeInv`: what
a manager does before it is joined, while it takes part, while it leaves and
afterwards.  `ScheduleInv`: the schedules that can occur, by what the manager knows and awaits;
there are six of a manager that takes part (`IsConnected`) and two of one that leaves, and a
wakeup fits what it will replace.  `KnowledgeInv`: the membership is in the room
only if the manager thinks so, or the answer that is on its way will tell it, or it is
`misled`.  `DelayedInv`: the delayed events of the server are the one that the first manager
knows, is told of, or none, by the request that is out.  The second and the third hold while
`updateCallIntent` was not called, as the properties do: its request is beside
the schedule.  `DelayedInv`, and so `OwnLeaveOnly`, holds while no request has failed
(`errors = 0`, as in the run): if the answer to a delayed event is lost, the
manager sends another and the server holds both.

**`TokenRefresh_proofs`**.  `TokenInvariant`, `UsedOnce` (`RefreshTokenUsedOnce`),
`FailuresAreReal` (`OnlyRealFailures`, for `UseAuthorizationHeader`).  `TokenInv`: one refresh is
under way, for the current token (`OneRefresh`), whose refresh token the server has seen only if it
accepted this refresh or an answer was lost (`TokenUnused`), and which exists, so that no
log-out for want of one is outdated by the refresh; the server drops no token
that the client thinks is young (`NoneDroppedEarly`), and a request is rejected for the token of its
snapshot (`Rejected`), which is what fails without the header.  Errors of refreshes are among
the premises of a log-out (`Excused`), not assumed away.  `TypeCorrect`: nobody
mentions a token before the server issued it, or a refresh before it was started.

**`QueueLemmas`** has what the proofs need of sequences.  What an operator of `Queues`
returns for every sequence is an induction over data, and the library's induction theorems
take an operator as a parameter.  `NatSetInduction` states induction for a set instead (a set
that has 0 and the successors of its members has all naturals), so that the facts of the
recursive function `Remainders` (entries, order, what stays) can be proved.  `SelectSeq` has
an operator as a parameter as well, which is why the modules with theorems filter with
`Without`.

**Only model-checked**: all liveness (`SendEnds`, `AcceptedIsShown`, `NewestGetsIn`,
that older tabs stop in `OnlyOlderStop`, `SentWithoutKick`, `RequestEnds`, `LeaveEnds`, `MembershipIsRegained`,
`RoundsEnd`, `EncryptionEnds`, `FollowUpsAreMade`, `LoopRests`, `UpdatesArrive`), which depends
on fairness and `ENABLED` and is out of the prover's reach.  Every invariant and every
action property of a run that is expected to pass is a theorem, with the premises named above.

## 7. What is not modelled

`PROJECT.json` gives the reason for each component without a module.  Some are other
projects' or another language's: the cryptography of the Rust library, with the state machine of
verification, WebRTC, the widget API, the native event index.  Some are presentation or derived
views: the interface, the stores, translation, the desktop shell.  Some have logic of
their own and no module: the key backup, legacy and group calls, sliding sync,
the timelines, relations, sticky events and the log in and out; section 2 says what
is worth adding first.  Within the modelled parts are left out: a page that comes back from the
back-forward cache (`SessionLock`); guests, peeking, users and out-of-band members in the store
(`SyncLoop`); the wrap-around of key indices, and the distribution that goes on after
the session was left (`RtcKeys`); requests of the sticky-event variant (`RtcMembership`).

## 8. Running

    tlc -config EventSendingSafety.cfg MCEventSending.tla
    tlapm EventSending_proofs.tla

A module without an MC module (`SyncLoop`, `RtcKeys`) is run itself; an MC module
instantiates the module with its name for all configurations that begin
with it (`RtcMembershipLive.cfg` and `MCRtcMembership`); runs ending in `Late`
and `Stale` are expected to report a violation.

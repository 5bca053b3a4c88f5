--------------------------- MODULE RoomEncryption ---------------------------
(***************************************************************************)
(* Encryption of events for rooms (js/rust-crypto/RoomEncryptor.ts) and    *)
(* the claims of one-time keys it needs (KeyClaimManager.ts), over the     *)
(* processing loop of OutgoingRequests.  Every room has a chain of         *)
(* encryptions, all rooms share one chain of claims and one loop.  An      *)
(* encryption reads who is in the room, the first one waits until the      *)
(* devices of these users were queried, ensures Olm sessions with them,    *)
(* shares the room key and encrypts.  Users come and go meanwhile.         *)
(*                                                                         *)
(* A request of the OlmMachine that is named by a user is the query of     *)
(* that user's devices: they are known when it has been answered.          *)
(***************************************************************************)
EXTENDS OutgoingRequests, Sequences

CONSTANTS
    Rooms,
    Users,           \* the other users
    RoomOf,          \* the room of each encryption
    Preparations,    \* the encryptions that only prepare (no event)
    FirstMembers,    \* who is in the rooms at first
    MaxSyncs         \* bound on the syncs that bring somebody or nothing

Encryptions == DOMAIN RoomOf

ASSUME RoomEncryptionAssumption ==
    /\ Users \subseteq Requests \ FollowUps
    /\ Encryptions = Calls
    /\ RoomOf \in [Encryptions -> Rooms]
    /\ Preparations \subseteq Encryptions
    /\ FirstMembers \subseteq Users
    /\ MaxSyncs \in Nat

VARIABLES
    members,         \* of each room
    left,            \* history: users whose leave of the room was the last thing seen of them
    lazyLoaded,      \* lazyLoadedMembersResolved of each room
    chain,           \* the encryptions of each room that are not settled, in order
    claims,          \* the calls of ensureSessionsForUsers that are not settled, in order
    step,            \* where each encryption is
    userList,        \* the members it encrypts for
    toSend,          \* the shareMessages it has left, by user
    sessions,        \* OlmMachine: users with an Olm session
    shared,          \* OlmMachine: whom each room's Megolm session was or is to be shared with
    invalid,         \* OlmMachine: the room's session is to be replaced
    holders,         \* who can read what is encrypted with the room's session
    gone,            \* history: who had left the room when it began, and did not return
    wanted,          \* history: whom the key had to be shared with for it
    firstLoaded,     \* history: the members each room was first loaded with
    syncs            \* bounded

roomVars == <<members, left, lazyLoaded, chain, claims, step, userList, toSend, sessions,
              shared, invalid, holders, gone, wanted, firstLoaded, syncs>>
vars == <<loopVars, roomVars>>

Waiting == {"queued", "tracking", "querying", "claiming", "claimed", "sending"}

\* Users whose devices are known.
Known == Users \cap (known \ queue)

TypeOK ==
    /\ LoopTypeOK
    /\ members \in [Rooms -> SUBSET Users] /\ left \in [Rooms -> SUBSET Users]
    /\ lazyLoaded \in [Rooms -> BOOLEAN]
    /\ chain \in [Rooms -> Seq(Encryptions)] /\ claims \in Seq(Encryptions)
    /\ \A i \in 1 .. Len(claims) : step[claims[i]] \in {"claiming", "claimed"}
    /\ step \in [Encryptions -> Waiting \cup {"none", "prepared", "encrypted", "failed"}]
    /\ userList \in [Encryptions -> SUBSET Users] /\ toSend \in [Encryptions -> SUBSET Users]
    /\ sessions \subseteq Users
    /\ shared \in [Rooms -> SUBSET Users] /\ invalid \in [Rooms -> BOOLEAN]
    /\ holders \in [Rooms -> SUBSET Users]
    /\ gone \in [Encryptions -> SUBSET Users] /\ wanted \in [Encryptions -> SUBSET Users]
    /\ firstLoaded \in [Rooms -> SUBSET Users]
    /\ syncs \in 0 .. MaxSyncs

Init ==
    /\ LoopInit
    /\ members = [r \in Rooms |-> FirstMembers] /\ left = [r \in Rooms |-> {}]
    /\ lazyLoaded = [r \in Rooms |-> FALSE]
    /\ chain = [r \in Rooms |-> <<>>] /\ claims = <<>>
    /\ step = [e \in Encryptions |-> "none"]
    /\ userList = [e \in Encryptions |-> {}] /\ toSend = [e \in Encryptions |-> {}]
    /\ sessions = {}
    /\ shared = [r \in Rooms |-> {}] /\ invalid = [r \in Rooms |-> TRUE]
    /\ holders = [r \in Rooms |-> {}]
    /\ gone = [e \in Encryptions |-> {}] /\ wanted = [e \in Encryptions |-> {}]
    /\ firstLoaded = [r \in Rooms |-> {}]
    /\ syncs = 0

-----------------------------------------------------------------------------
(* RoomEncryptor.                                                          *)

\* e is the encryption of its room whose turn it is.
Active(e) == step[e] \in Waiting /\ Head(chain[RoomOf[e]]) = e

\* encryptEvent puts the encryption behind the previous one of its room.
EncryptEvent(e) ==
    /\ step[e] = "none"
    /\ step' = [step EXCEPT ![e] = "queued"]
    /\ chain' = [chain EXCEPT ![RoomOf[e]] = Append(@, e)]
    /\ UNCHANGED <<loopVars, members, left, lazyLoaded, claims, userList, toSend, sessions, shared,
                   invalid, holders, gone, wanted, firstLoaded, syncs>>

\* The promise of e is settled, what it had read is gone, and the next
\* encryption of the room goes on.
Settled(e, how) ==
    /\ step' = [step EXCEPT ![e] = how]
    /\ chain' = [chain EXCEPT ![RoomOf[e]] = Tail(@)]
    /\ userList' = [userList EXCEPT ![e] = {}] /\ toSend' = [toSend EXCEPT ![e] = {}]
    /\ gone' = [gone EXCEPT ![e] = {}] /\ wanted' = [wanted EXCEPT ![e] = {}]

\* getEncryptionTargetMembers resolves.  The first time the OlmMachine is told
\* to track the members and queues the queries of those that are new to it;
\* later the loop is just set going and the claim is queued.
LoadMembers(e) ==
    LET us == members[RoomOf[e]] IN
    /\ Active(e) /\ step[e] = "queued"
    /\ userList' = [userList EXCEPT ![e] = us]
    /\ gone' = [gone EXCEPT ![e] = left[RoomOf[e]]]
    /\ IF lazyLoaded[RoomOf[e]]
       THEN /\ CallInBackground
            /\ step' = [step EXCEPT ![e] = "claiming"]
            /\ claims' = Append(claims, e)
       ELSE /\ IF us \subseteq known THEN UNCHANGED loopVars ELSE Queue(us \ known)
            /\ step' = [step EXCEPT ![e] = "tracking"]
            /\ UNCHANGED claims
    /\ UNCHANGED <<members, left, lazyLoaded, chain, toSend, sessions, shared, invalid,
                   holders, wanted, firstLoaded, syncs>>

Tracked_inBackground(e) ==
    /\ step[e] = "tracking"
    /\ lazyLoaded' = [lazyLoaded EXCEPT ![RoomOf[e]] = TRUE]
    /\ firstLoaded' = [firstLoaded EXCEPT ![RoomOf[e]] = userList[e]]
    /\ CallInBackground
    /\ step' = [step EXCEPT ![e] = "claiming"]
    /\ claims' = Append(claims, e)
    /\ UNCHANGED <<members, left, chain, userList, toSend, sessions, shared, invalid,
                   holders, gone, wanted, syncs>>

\* updateTrackedUsers resolves: the first encryption waits for the loop.
Tracked(e) ==
    /\ step[e] = "tracking"
    /\ lazyLoaded' = [lazyLoaded EXCEPT ![RoomOf[e]] = TRUE]
    /\ firstLoaded' = [firstLoaded EXCEPT ![RoomOf[e]] = userList[e]]
    /\ Call(e)
    /\ step' = [step EXCEPT ![e] = "querying"]
    /\ UNCHANGED <<members, left, chain, claims, userList, toSend, sessions, shared, invalid,
                   holders, gone, wanted, syncs>>

\* doProcessOutgoingRequests settles; ensureSessionsForUsers queues the claim.
QueriesEnd(e) ==
    /\ step[e] = "querying"
    /\ \/ /\ outcome[e] = "resolved"
          /\ step' = [step EXCEPT ![e] = "claiming"]
          /\ claims' = Append(claims, e)
          /\ UNCHANGED <<chain, userList, toSend, gone, wanted>>
       \/ /\ outcome[e] = "rejected"
          /\ Settled(e, "failed")
          /\ UNCHANGED claims
    /\ UNCHANGED <<loopVars, members, left, lazyLoaded, sessions, shared, invalid,
                   holders, firstLoaded, syncs>>

-----------------------------------------------------------------------------
(* KeyClaimManager, sharing the room key, and encrypting.                  *)

\* ensureSessionsForUsersInner begins when the previous claim is settled.
Claim(e) ==
    /\ step[e] = "claiming" /\ Head(claims) = e
    /\ IF stopped
       THEN Settled(e, "failed") /\ claims' = Tail(claims)
       ELSE /\ step' = [step EXCEPT ![e] = "claimed"]
            /\ UNCHANGED <<chain, claims, userList, toSend, gone, wanted>>
    /\ UNCHANGED <<loopVars, members, left, lazyLoaded, sessions, shared, invalid,
                   holders, firstLoaded, syncs>>

\* olmMachine.shareRoomKey: the session is replaced if it was discarded or if
\* somebody it was shared with is not on the list.  The requests it returns are
\* for those who have yet to get the key, earlier failures included.
ShareRoomKey(e) ==
    LET r == RoomOf[e]
        new == invalid[r] \/ ~(shared[r] \subseteq userList[e])
        reached == userList[e] \cap Known \cap sessions'
        held == IF new THEN {} ELSE holders[r]
    IN  /\ shared' = [shared EXCEPT ![r] = IF new THEN reached ELSE @ \cup reached]
        /\ holders' = [holders EXCEPT ![r] = held]
        /\ invalid' = [invalid EXCEPT ![r] = FALSE]
        /\ toSend' = [toSend EXCEPT ![e] = shared'[r] \ held]
        /\ wanted' = [wanted EXCEPT ![e] = reached]

\* The claim is answered: there are sessions with the devices that the server
\* had keys of, and the room key is shared.
Claimed(e) ==
    /\ step[e] = "claimed"
    /\ claims' = Tail(claims)
    /\ \E us \in SUBSET ((userList[e] \cap Known) \ sessions) : sessions' = sessions \cup us
    /\ ShareRoomKey(e)
    /\ step' = [step EXCEPT ![e] = "sending"]
    /\ UNCHANGED <<loopVars, members, left, lazyLoaded, chain, userList, gone, firstLoaded, syncs>>

SendKey_skipsFailed(e) ==
    \E u \in toSend[e] :
        /\ toSend' = [toSend EXCEPT ![e] = @ \ {u}]
        /\ \/ holders' = [holders EXCEPT ![RoomOf[e]] = @ \cup {u}]
           \/ UNCHANGED holders
        /\ UNCHANGED <<loopVars, members, left, lazyLoaded, chain, claims, step, userList, sessions,
                       shared, invalid, gone, wanted, firstLoaded, syncs>>

\* makeOutgoingRequest sends the next key.  A user may get it though the answer
\* does not come: then the request counts as failed, and the encryption with it.
SendKey(e) ==
    \E u \in toSend[e] :
        /\ holders' = [holders EXCEPT ![RoomOf[e]] = @ \cup {u}]
        /\ \/ /\ toSend' = [toSend EXCEPT ![e] = @ \ {u}]
              /\ UNCHANGED <<step, chain, userList, gone, wanted>>
           \/ Settled(e, "failed")
        /\ UNCHANGED <<loopVars, members, left, lazyLoaded, claims, sessions, shared,
                       invalid, firstLoaded, syncs>>

\* encryptEventInner, or the end of prepareForEncryption.
Encrypt(e) ==
    /\ step[e] = "sending" /\ toSend[e] = {}
    /\ Settled(e, IF e \in Preparations THEN "prepared" ELSE "encrypted")
    /\ UNCHANGED <<loopVars, members, left, lazyLoaded, claims, sessions, shared, invalid,
                   holders, firstLoaded, syncs>>

\* What the encryption waits for is rejected: members cannot be loaded, a request
\* fails, or the OlmMachine is closed.
AwaitFails(e) ==
    /\ Active(e) /\ step[e] \in {"queued", "tracking", "claimed", "sending"}
    /\ Settled(e, "failed")
    /\ claims' = IF step[e] = "claimed" THEN Tail(claims) ELSE claims
    /\ UNCHANGED <<loopVars, members, left, lazyLoaded, sessions, shared, invalid,
                   holders, firstLoaded, syncs>>

-----------------------------------------------------------------------------
(* Sync.                                                                   *)

\* A user is in the room (again): he may read what is encrypted from now on.
Returns(r, u) ==
    /\ syncs < MaxSyncs /\ syncs' = syncs + 1
    /\ u \notin members[r]
    /\ left' = [left EXCEPT ![r] = @ \ {u}]
    /\ gone' = [e \in Encryptions |-> IF RoomOf[e] = r THEN gone[e] \ {u} ELSE gone[e]]
    /\ UNCHANGED <<lazyLoaded, chain, claims, step, userList, toSend, sessions, shared,
                   invalid, wanted, firstLoaded>>

\* onRoomMembership: a user joins, and is tracked.
Join(r, u) ==
    /\ Returns(r, u)
    /\ members' = [members EXCEPT ![r] = @ \cup {u}]
    /\ IF u \in known THEN UNCHANGED loopVars ELSE Queue({u})
    /\ UNCHANGED holders

\* Another member invites a user and shares the room's keys with him; he joins,
\* and the client sees nothing of it for a gap in the timeline.
HiddenJoin(r, u) ==
    /\ Returns(r, u)
    /\ holders' = [holders EXCEPT ![r] = @ \cup {u}]
    /\ UNCHANGED <<loopVars, members>>

Leave_keepsSession(r, u) ==
    /\ u \in members[r] \cup holders[r] /\ u \notin left[r]
    /\ members' = [members EXCEPT ![r] = @ \ {u}]
    /\ left' = [left EXCEPT ![r] = @ \cup {u}]
    /\ UNCHANGED <<loopVars, lazyLoaded, chain, claims, step, userList, toSend, sessions,
                   shared, invalid, holders, gone, wanted, firstLoaded, syncs>>

\* onRoomStateEvent: a leave, also of somebody not seen before, discards the room's
\* session.  invalidateGroupSession is not awaited: that it takes effect before later
\* calls of the OlmMachine, and does not fail, is an abstraction.
Leave(r, u) ==
    /\ u \in members[r] \cup holders[r] /\ u \notin left[r]
    /\ members' = [members EXCEPT ![r] = @ \ {u}]
    /\ left' = [left EXCEPT ![r] = @ \cup {u}]
    /\ invalid' = [invalid EXCEPT ![r] = TRUE]
    /\ UNCHANGED <<loopVars, lazyLoaded, chain, claims, step, userList, toSend, sessions,
                   shared, holders, gone, wanted, firstLoaded, syncs>>

\* onSyncCompleted sets the loop going.
SyncCompleted ==
    /\ syncs < MaxSyncs /\ syncs' = syncs + 1
    /\ CallInBackground
    /\ UNCHANGED <<members, left, lazyLoaded, chain, claims, step, userList, toSend, sessions,
                   shared, invalid, holders, gone, wanted, firstLoaded>>

\* The loop, and RustCrypto.stop, which stops the loop and the claims.
Loop == (LoopStep \/ MachineFails \/ Stop) /\ UNCHANGED roomVars

Progress(e) ==
    \/ LoadMembers(e) \/ Tracked(e) \/ QueriesEnd(e)
    \/ Claim(e) \/ Claimed(e) \/ SendKey(e) \/ Encrypt(e) \/ AwaitFails(e)

Next ==
    \/ Loop \/ SyncCompleted
    \/ \E e \in Encryptions : EncryptEvent(e) \/ Progress(e)
    \/ \E r \in Rooms, u \in Users : Join(r, u) \/ HiddenJoin(r, u) \/ Leave(r, u)

Spec == Init /\ [][Next]_vars

\* The OlmMachine and the homeserver answer, or the request times out.
FairSpec ==
    /\ Spec
    /\ WF_vars(LoopStep /\ UNCHANGED roomVars)
    /\ \A e \in Encryptions : WF_vars(Progress(e))

-----------------------------------------------------------------------------
(* Properties.                                                             *)

Encrypts(e) == step[e] # "encrypted" /\ step'[e] = "encrypted"

\* Whoever was to get the key for an event, that is, every member whose devices
\* were known and reachable, has it when the event is encrypted; a key that could
\* not be sent for an earlier event is sent for this one or this one fails.
KeyPrecedesEvent ==
    [][\A e \in Encryptions : Encrypts(e) => wanted[e] \subseteq holders[RoomOf[e]]]_vars

\* An event whose encryption began after the client saw a user leave cannot be
\* read by this user, also not if another member had given him the key.
LeftCannotRead ==
    [][\A e \in Encryptions : Encrypts(e) => holders[RoomOf[e]] \cap gone[e] = {}]_vars

\* The devices of the members a room was first loaded with were asked for before
\* Olm sessions are ensured for an event of the room, unless the loop that asks
\* failed or was stopped.
QueriedBeforeSessions ==
    \A e \in Encryptions : step[e] \in {"claiming", "claimed", "sending"} =>
        userList[e] \cap firstLoaded[RoomOf[e]] \subseteq tried \/ stopped \/ broken

\* Every encryption ends: none waits forever behind another encryption, a claim
\* or an iteration of the loop, also when everything is stopped.
EncryptionEnds ==
    \A e \in Encryptions : step[e] = "queued" ~> step[e] \in {"prepared", "encrypted", "failed"}
=============================================================================

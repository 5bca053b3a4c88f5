-------------------------- MODULE OrderedDelivery --------------------------
(***************************************************************************)
(* What the to-device message queue promises, without loop, store, timers  *)
(* and retries.  The batches of a call are delivered in order, each once;  *)
(* one that the server refuses may be dropped.  A crash may lose a call    *)
(* that has not returned, all of its batches or none, and no other.        *)
(***************************************************************************)
EXTENDS SequencesExt, Queues

CONSTANTS
    Calls,
    Parts            \* the batches of a call

VARIABLES
    state,           \* of each call
    waiting,         \* the batches to be delivered
    delivered,
    refused          \* the batches that the server has refused

vars == <<state, waiting, delivered, refused>>

Init ==
    /\ state = [c \in Calls |-> "new"]
    /\ waiting = <<>> /\ delivered = <<>> /\ refused = {}

Queue(c) ==
    /\ state[c] = "new" /\ state' = [state EXCEPT ![c] = "queued"]
    /\ waiting' = waiting \o Parts[c]
    /\ UNCHANGED <<delivered, refused>>

Return(c) ==
    /\ state[c] = "queued" /\ state' = [state EXCEPT ![c] = "returned"]
    /\ UNCHANGED <<waiting, delivered, refused>>

Deliver ==
    /\ waiting # <<>>
    /\ waiting' = Tail(waiting) /\ delivered' = Append(delivered, Head(waiting))
    /\ UNCHANGED <<state, refused>>

\* Also a batch that was delivered may be refused, when it is sent again.
Refuse ==
    /\ \/ waiting # <<>> /\ refused' = refused \cup {Head(waiting)}
       \/ delivered # <<>> /\ refused' = refused \cup {Last(delivered)}
    /\ UNCHANGED <<state, waiting, delivered>>

Drop ==
    /\ waiting # <<>> /\ Head(waiting) \in refused
    /\ waiting' = Tail(waiting)
    /\ UNCHANGED <<state, delivered, refused>>

Crash ==
    \E lost \in SUBSET {c \in Calls : state[c] = "queued"} :
        LET gone == UNION {ToSet(Parts[c]) : c \in lost}
        IN  /\ gone \cap (ToSet(delivered) \cup refused) = {}
            /\ waiting' = Without(waiting, gone)
            /\ state' = [c \in Calls |-> IF c \in lost THEN "lost"
                                         ELSE IF state[c] = "queued" THEN "returned" ELSE state[c]]
            /\ UNCHANGED <<delivered, refused>>

Next ==
    \/ \E c \in Calls : Queue(c) \/ Return(c)
    \/ Deliver \/ Refuse \/ Drop \/ Crash

Spec == Init /\ [][Next]_vars
=============================================================================

------------------------------ MODULE Queues ------------------------------
(***************************************************************************)
(* A queue from which some entries are taken out, wherever they stand.     *)
(***************************************************************************)
EXTENDS Naturals, Sequences

\* What is left of each prefix of the queue.
Remainders(q, S) ==
    LET left[n \in 0..Len(q)] ==
            IF n = 0 THEN <<>>
            ELSE IF q[n] \in S THEN left[n - 1] ELSE Append(left[n - 1], q[n])
    IN  left

\* The entries of q that are not in S, in their order.
Without(q, S) == Remainders(q, S)[Len(q)]
=============================================================================

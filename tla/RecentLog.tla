------------------------------ MODULE RecentLog ------------------------------
(***************************************************************************)
(* What a reader of the executor's observation log is promised: the most   *)
(* recent observations, oldest first, at most Capacity of them.            *)
(***************************************************************************)
EXTENDS Integers, Sequences

CONSTANTS
    Events,   \* observations
    Capacity  \* KERNEL_OBSERVATION_LOG_CAPACITY

VARIABLE recent

\* The last n elements of s, or all of a shorter s.
Latest(s, n) == SubSeq(s, IF Len(s) > n THEN Len(s) - n + 1 ELSE 1, Len(s))

Init == recent = <<>>

Observe(e) == recent' = Latest(Append(recent, e), Capacity)

Next == \E e \in Events : Observe(e)

Spec == Init /\ [][Next]_recent
=============================================================================

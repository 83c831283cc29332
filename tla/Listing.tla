-------------------------------- MODULE Listing --------------------------------
(***************************************************************************)
(* Sequences of numbers in ascending order, as the kernels' loops go       *)
(* through them.                                                           *)
(***************************************************************************)
EXTENDS Integers, Sequences

\* n numbers, one after the other.
From(first, n) == [i \in 1..n |-> first + i - 1]

\* Every member of S, once, and nothing else, in ascending order.
Lists(seq, S) ==
    /\ \A i, j \in DOMAIN seq : i < j => seq[i] < seq[j]
    /\ {seq[i] : i \in DOMAIN seq} = S
=============================================================================

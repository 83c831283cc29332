---------------------------- MODULE ResourceTable ----------------------------
(***************************************************************************)
(* What a caller of the executor is promised of its tensors: a table from  *)
(* resource ids to values.  Host-side operations replace or drop one       *)
(* entry.  A dispatched Kernel names one output; whatever the executor     *)
(* does on the way (expanding compact weights, lending the output's buffer *)
(* to the Kernel and taking it back), the dispatch changes that entry      *)
(* only, and at one point.                                                 *)
(***************************************************************************)
CONSTANTS
    Ids,    \* tensor resource ids
    Vals,   \* tensor contents
    None    \* absence of a value

VARIABLES
    value,  \* what each id holds
    target  \* the output of the dispatch in flight, None between dispatches

vars == <<value, target>>

TypeOK ==
    /\ value \in [Ids -> Vals \cup {None}]
    /\ target \in Ids \cup {None}

Init ==
    /\ value = [i \in Ids |-> None]
    /\ target = None

\* A host write, copy or zero fill, and a release.
Put(i, v) ==
    /\ target = None
    /\ value' = [value EXCEPT ![i] = v]
    /\ UNCHANGED target

Begin(o) ==
    /\ target = None
    /\ target' = o
    /\ UNCHANGED value

\* The one point where the dispatch takes effect, or fails without one.
Finish(w) ==
    /\ target # None
    /\ \/ value' = [value EXCEPT ![target] = w]
       \/ UNCHANGED value
    /\ target' = None

Next ==
    \/ \E i \in Ids, v \in Vals \cup {None} : Put(i, v)
    \/ \E o \in Ids : Begin(o)
    \/ \E w \in Vals \cup {None} : Finish(w)

Spec == Init /\ [][Next]_vars
=============================================================================

----------------------------- MODULE SeatBooking -----------------------------
(***************************************************************************)
(* What event registration promises: an event has a number of seats, they   *)
(* are given out and given back one by one, and none is given out that the  *)
(* event does not have.  An administrator may set the capacity to any       *)
(* value, also below the number of seats taken.                             *)
(***************************************************************************)
EXTENDS Integers

CONSTANT Caps \* capacities an administrator sets; 0 means no limit

VARIABLES
    taken, \* number of seats taken
    cap    \* capacity

Init == taken = 0 /\ cap \in Caps

Take ==
    /\ cap = 0 \/ taken < cap
    /\ taken' = taken + 1
    /\ UNCHANGED cap

Leave ==
    /\ taken > 0
    /\ taken' = taken - 1
    /\ UNCHANGED cap

Resize ==
    /\ cap' \in Caps
    /\ UNCHANGED taken

Next == Take \/ Leave \/ Resize

Spec == Init /\ [][Next]_<<taken, cap>>
=============================================================================

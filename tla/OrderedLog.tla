----------------------------- MODULE OrderedLog -----------------------------
(***************************************************************************)
(* What sharing a terminal session promises to somebody who watches it:    *)
(* the screen of the viewer is made of what the terminal of the sharer     *)
(* produced, in the order it was produced, without a hole and without      *)
(* anything twice.  A viewer may be behind, by any amount.                 *)
(***************************************************************************)
EXTENDS Naturals, Sequences

CONSTANT MaxItems       \* what the terminal produces at most

VARIABLES
    produced,           \* how many items the terminal has produced
    screen              \* the items the viewer has shown, oldest first

ovars == <<produced, screen>>

Init == produced = 0 /\ screen = <<>>

Produce ==
    /\ produced < MaxItems
    /\ produced' = produced + 1
    /\ UNCHANGED screen

\* The viewer catches up by some of what it has not shown yet.
Show ==
    /\ \E to \in (Len(screen) + 1)..produced : screen' = [i \in 1..to |-> i]
    /\ UNCHANGED produced

Next == Produce \/ Show

Spec == Init /\ [][Next]_ovars
=============================================================================

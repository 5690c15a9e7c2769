----------------------------- MODULE MCHandover -----------------------------
(***************************************************************************)
(* Instances of Handover for TLC.                                          *)
(***************************************************************************)
EXTENDS Handover, TLC

CONSTANTS x, y

\* Without relays the Nodes are alike.
Symmetry == Permutations({x, y})

\* Every Node has its own tunnel in every generation.
AllDirect == [g \in Gen |-> [n \in Node |-> Direct]]

\* The Node whose tunnel carries all others' traffic changes with every
\* generation: x in even ones, y in odd ones.
Swapping ==
    [g \in Gen |-> [n \in Node |->
        LET relay == IF g % 2 = 0 THEN x ELSE y
        IN  IF n = relay THEN Direct ELSE relay]]

\* Behaviours in which no Node reboots.
UndisturbedSpec == Init /\ [][Undisturbed]_vars
=============================================================================

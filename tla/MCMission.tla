----------------------------- MODULE MCMission -----------------------------
(***************************************************************************)
(* Model-checking instance of Mission: an ordinary file and one exempt     *)
(* from the scope (so that a charter can cover one and miss the other,     *)
(* whichever it is) and two plan texts.  The .cfg files give the caps, the *)
(* kind of worktree and the faults.  Plans are interchangeable, so the     *)
(* runs without liveness use their symmetry.                               *)
(***************************************************************************)
EXTENDS Mission, TLC

CONSTANTS f1, x1, p1, p2

MCFiles  == {f1, x1}
MCPlans  == {p1, p2}
Symmetry == Permutations(MCPlans)
=============================================================================

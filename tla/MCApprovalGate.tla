--------------------------- MODULE MCApprovalGate ---------------------------
(* The approval gate with two root sessions and a sub-agent.                 *)
EXTENDS ApprovalGate, TLC
CONSTANTS r, g, c

\* Both root sessions may be armed, so they can be exchanged.
RootSymmetry == Permutations({r, g})
=============================================================================

---------------------------- MODULE MCSelfUpdate ----------------------------
(* Self-update with the installed commit, one that never becomes healthy    *)
(* and one that does.                                                       *)
EXTENDS SelfUpdate
CONSTANTS v0, bad, good
=============================================================================

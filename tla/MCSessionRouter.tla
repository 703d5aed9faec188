-------------------------- MODULE MCSessionRouter --------------------------
(* The session router with one ordinary session and one worker session.     *)
EXTENDS SessionRouter
CONSTANTS r, w

\* Two lines of the ordinary session may be on their way, so that they can land
\* in either order.
Reordering == [s \in Sessions |-> IF s = r THEN 2 ELSE 1]

OneAtATime == [s \in Sessions |-> 1]
=============================================================================

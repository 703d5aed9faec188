----------------------------- MODULE TurnQueue -----------------------------
(***************************************************************************)
(* What the turn gate promises of a conversation: a session works on one   *)
(* prompt at a time, the others wait in the order they arrived, and the    *)
(* next one takes the slot over in the same step that frees it.  Waiting   *)
(* prompts are only ever dropped together (a cancel, a retirement), a      *)
(* prompt that is being worked on only ends by itself, and only a restart  *)
(* of the daemon forgets everything.                                       *)
(***************************************************************************)
EXTENDS Naturals, Sequences

CONSTANTS Sessions,     \* the conversations
          Prompts       \* prompts are numbers, in order of arrival

VARIABLES running,      \* running[s]: the prompts being worked on
          waiting,      \* waiting[s]: those behind them
          arrived       \* prompts below this number have arrived

vars == <<running, waiting, arrived>>

Init ==
  /\ running = [s \in Sessions |-> {}]
  /\ waiting = [s \in Sessions |-> <<>>]
  /\ arrived = 1

\* The next prompt is started on a free slot, waits behind the turn in
\* flight, or is refused.
Arrive(s) ==
  /\ arrived \in Prompts /\ arrived' = arrived + 1
  /\ \/ /\ running[s] = {}
        /\ running' = [running EXCEPT ![s] = {arrived}]
        /\ UNCHANGED waiting
     \/ /\ running[s] # {}
        /\ waiting' = [waiting EXCEPT ![s] = Append(@, arrived)]
        /\ UNCHANGED running
     \/ UNCHANGED <<running, waiting>>

\* The turn in flight ends: the first waiting prompt takes its slot, if any.
Complete(s) ==
  /\ running[s] # {}
  /\ \/ /\ waiting[s] # <<>>
        /\ running' = [running EXCEPT ![s] = {Head(waiting[s])}]
        /\ waiting' = [waiting EXCEPT ![s] = Tail(@)]
     \/ /\ waiting[s] = <<>>
        /\ running' = [running EXCEPT ![s] = {}]
        /\ UNCHANGED waiting
  /\ UNCHANGED arrived

\* Everything that waits is dropped; what runs still has to end.
DropWaiting(s) ==
  /\ waiting' = [waiting EXCEPT ![s] = <<>>]
  /\ UNCHANGED <<running, arrived>>

Forget ==
  /\ running' = [s \in Sessions |-> {}]
  /\ waiting' = [s \in Sessions |-> <<>>]
  /\ UNCHANGED arrived

Next ==
  \/ \E s \in Sessions : Arrive(s) \/ Complete(s) \/ DropWaiting(s)
  \/ Forget

Spec == Init /\ [][Next]_vars
=============================================================================

---------------------------- MODULE BatchLedger ----------------------------
(***************************************************************************)
(* What the worker driver promises a conductor of its batches: a batch it   *)
(* was given exists for good, over restarts too; it is reported; and it is  *)
(* only reported again if a restart comes after a save that was lost.       *)
(* WorkerDriver implements this, GoalDriver relies on it.                   *)
(***************************************************************************)
EXTENDS Naturals

CONSTANT Batches

VARIABLES ledger,   \* batch -> "none", "open", "reported"
          boots,    \* restarts of the daemon
          lossy     \* a save was lost

vars == <<ledger, boots, lossy>>

Init ==
  /\ ledger = [b \in Batches |-> "none"]
  /\ boots = 0
  /\ lossy = FALSE

\* A save is lost, or not.
MayLose == lossy' \in {lossy, TRUE}

Fan(b) ==
  /\ ledger[b] = "none"
  /\ ledger' = [ledger EXCEPT ![b] = "open"]
  /\ MayLose
  /\ UNCHANGED boots

\* One pass may report several batches.
Report(S) ==
  /\ S # {} /\ \A b \in S : ledger[b] = "open"
  /\ ledger' = [b \in Batches |-> IF b \in S THEN "reported" ELSE ledger[b]]
  /\ MayLose
  /\ UNCHANGED boots

LoseSave == lossy' = TRUE /\ UNCHANGED <<ledger, boots>>

\* After a lost save a report may be forgotten, the batch never is.
Reload ==
  /\ boots' = boots + 1
  /\ \E S \in SUBSET {b \in Batches : lossy /\ ledger[b] = "reported"} :
       ledger' = [b \in Batches |-> IF b \in S THEN "open" ELSE ledger[b]]
  /\ UNCHANGED lossy

Next ==
  \/ \E b \in Batches : Fan(b)
  \/ \E S \in SUBSET Batches : Report(S)
  \/ LoseSave \/ Reload

ReportOf(b) == \E S \in SUBSET Batches : b \in S /\ Report(S)

Spec == Init /\ [][Next]_vars

FairSpec == Spec /\ \A b \in Batches : WF_vars(ReportOf(b))
=============================================================================

----------------------------- MODULE GoalDriver -----------------------------
(***************************************************************************)
(* The goal driver (agentd/src/goal.rs) and one goal: a session the driver  *)
(* prompts step after step, which may itself be a conductor that fans       *)
(* batches of workers out.  While a batch is out the driver holds the goal  *)
(* ("awaiting batch", exempt from the stall clock) and sends it on with the *)
(* report.  It learns of turns, approvals, batches and reports from the     *)
(* broadcast, in order, late, and unless it lags.                           *)
(*                                                                         *)
(* The worker driver is here by what it promises (BatchLedger, which        *)
(* WorkerDriver implements) and by the cards it sends: one whenever a       *)
(* worker changes, before the fan-out is acknowledged, and one for every    *)
(* worker it reloads at boot.  Auto-approval and episodes are left out, and  *)
(* the other goals but for what they share with this one: the file.         *)
(***************************************************************************)
EXTENDS Naturals, Sequences, FiniteSets

CONSTANTS
  MaxSteps,      \* max_steps of the goal
  MaxBatches,    \* bound: batches fanned out
  MaxBacklog,    \* bound: events sent ahead of the driver
  MaxIncidents,  \* bound: incidents of the counters below, in all
  MaxLags,       \* bound: events the driver loses
  MaxRestarts    \* bound: restarts of the daemon

ASSUME GoalAssumption ==
  /\ MaxSteps \in Nat \ {0} /\ MaxBatches \in Nat /\ MaxBacklog \in Nat \ {0}
  /\ MaxIncidents \in Nat /\ MaxLags \in Nat /\ MaxRestarts \in Nat

Batches == 1..MaxBatches

VARIABLES
  goal,              \* the driver's record
  disk,              \* goals.json, as load_goals reads it
  pendingBatches, doneBatches,
  turn,              \* the goal's session: "none", "running", "asking", "inline"
  queue,             \* prompts queued behind that turn
  inbox,             \* what the driver has yet to read
  ledger, boots, lossy,                        \* BatchLedger
  inlineBatch,       \* the batch a turn waits for in its call, or 0
  fanned,            \* history: the batches of this conductor
  directives,        \* history: prompts the driver sent
  resumes, messages, asks, stops, lost, lags   \* bounds

ledgerVars == <<ledger, boots, lossy>>
driverVars == <<goal, disk, pendingBatches, doneBatches>>
sessionVars == <<turn, queue, inlineBatch>>
counters == <<resumes, messages, asks, stops, lost, lags>>
vars == <<goal, disk, pendingBatches, doneBatches, turn, queue, inbox, ledger, boots, lossy,
          inlineBatch, fanned, directives, resumes, messages, asks, stops, lost, lags>>

Ledger == INSTANCE BatchLedger

NoGoal == [state |-> "none", step |-> 0, pending |-> "none", awaiting |-> FALSE]

\* What load_goals makes of a file that is not there or does not parse.
EmptyFile == [state |-> "none", step |-> 0]

Init ==
  /\ goal = NoGoal
  /\ disk = EmptyFile
  /\ pendingBatches = {} /\ doneBatches = {}
  /\ turn = "none" /\ queue = 0 /\ inbox = <<>>
  /\ Ledger!Init
  /\ inlineBatch = 0 /\ fanned = {} /\ directives = 0
  /\ resumes = 0 /\ messages = 0 /\ asks = 0 /\ stops = 0 /\ lost = 0 /\ lags = 0

Incident == resumes + messages + asks + stops + lost < MaxIncidents

\* An event, and the batches the conductor had fanned out when it was sent.
Event(kind, batch) == [kind |-> kind, batch |-> batch, fanned |-> fanned]

KeepsUp == Len(inbox) < MaxBacklog

\* save_goals drops what is transient.  It writes in place and ignores errors: a
\* crash or a full disk leaves the old file, or a torn one.
Save(g) ==
  \/ disk' = [state |-> g.state, step |-> g.step] /\ UNCHANGED lost
  \/ Incident /\ lost' = lost + 1 /\ disk' \in {disk, EmptyFile}

\* A prompt on the goal's session runs, or queues.
Prompted ==
  /\ turn' = IF turn = "none" THEN "running" ELSE turn
  /\ queue' = IF turn = "none" THEN queue ELSE queue + 1
  /\ UNCHANGED inlineBatch

Directive == Prompted /\ directives' = directives + 1

NoDirective == UNCHANGED <<turn, queue, inlineBatch, directives>>

\* The router's user_cancel: no TurnComplete.
Aborted == turn' = "none" /\ queue' = 0 /\ inlineBatch' = 0

-----------------------------------------------------------------------------
(* Requests.                                                                *)

CreateGoal ==
  /\ goal.state = "none" /\ boots = 0
  /\ goal' = [NoGoal EXCEPT !.state = "Acting", !.step = 1]
  /\ Save(goal')
  /\ Directive
  /\ UNCHANGED <<pendingBatches, doneBatches, inbox, ledgerVars, fanned, resumes, messages, asks,
                 stops, lags>>

\* goal_resume: the awaiting flag stays what it is.
ResumeGoal ==
  /\ goal.state \in {"Blocked", "Failed"} /\ Incident
  /\ resumes' = resumes + 1
  /\ goal' = [goal EXCEPT !.state = "Acting", !.pending = "none"]
  /\ Save(goal')
  /\ Directive
  /\ UNCHANGED <<pendingBatches, doneBatches, inbox, ledgerVars, fanned, messages, asks, stops, lags>>

CancelGoal ==
  /\ goal.state \in {"Acting", "Blocked"}
  /\ goal' = [goal EXCEPT !.state = "Cancelled", !.pending = "none"]
  /\ Save(goal')
  /\ Aborted
  /\ UNCHANGED <<pendingBatches, doneBatches, inbox, ledgerVars, fanned, directives, resumes,
                 messages, asks, stops, lags>>

\* goal_step, while the turn waits for its result: recorded over an earlier one,
\* or refused.  "continue" is what no verdict comes to: "none".
RecordStep(v) ==
  /\ turn = "running" /\ goal.state = "Acting"
  /\ goal' = [goal EXCEPT !.pending = v]
  /\ UNCHANGED <<disk, pendingBatches, doneBatches, sessionVars, inbox, ledgerVars, fanned,
                 directives, counters>>

\* A handler saves on behalf of another goal: the file holds all of them.
SaveForAnother ==
  /\ goal.state # "none"
  /\ Save(goal)
  /\ UNCHANGED <<goal, pendingBatches, doneBatches, sessionVars, inbox, ledgerVars, fanned,
                 directives, resumes, messages, asks, stops, lags>>

-----------------------------------------------------------------------------
(* The goal's session.                                                      *)

EndTurn ==
  /\ turn = "running" /\ KeepsUp
  /\ turn' = IF queue > 0 THEN "running" ELSE "none"
  /\ queue' = IF queue > 0 THEN queue - 1 ELSE 0
  /\ inbox' = Append(inbox, Event("TurnComplete", 0))
  /\ UNCHANGED <<driverVars, ledgerVars, inlineBatch, fanned, directives, counters>>

AskApproval ==
  /\ turn = "running" /\ Incident /\ KeepsUp
  /\ asks' = asks + 1
  /\ turn' = "asking"
  /\ inbox' = Append(inbox, Event("ApprovalPending", 0))
  /\ UNCHANGED <<queue, inlineBatch, driverVars, ledgerVars, fanned, directives, resumes, messages,
                 stops, lost, lags>>

\* The card is answered, or the turn gives up waiting.
AskingEnds ==
  /\ turn = "asking"
  /\ turn' = "running"
  /\ UNCHANGED <<queue, inlineBatch, inbox, driverVars, ledgerVars, fanned, directives, counters>>

\* The operator writes to the session.
Message ==
  /\ goal.state # "none" /\ Incident
  /\ messages' = messages + 1
  /\ Prompted
  /\ UNCHANGED <<inbox, driverVars, ledgerVars, fanned, directives, resumes, asks, stops, lost, lags>>

\* The operator cancels the turn.
StopTurn ==
  /\ turn # "none" /\ Incident
  /\ stops' = stops + 1
  /\ Aborted
  /\ UNCHANGED <<inbox, driverVars, ledgerVars, fanned, directives, resumes, messages, asks, lost, lags>>

-----------------------------------------------------------------------------
(* The worker driver.                                                       *)

\* task_fanout from the goal's turn: a card, then the answer - at once, or with
\* the report (inline).
Fanout(b, inline) ==
  /\ turn = "running" /\ KeepsUp
  /\ \A c \in Batches : c < b => ledger[c] # "none"
  /\ Ledger!Fan(b)
  /\ fanned' = fanned \cup {b}
  /\ inbox' = Append(inbox, Event("Card", b))
  /\ turn' = IF inline THEN "inline" ELSE turn
  /\ inlineBatch' = IF inline THEN b ELSE 0
  /\ UNCHANGED <<queue, driverVars, directives, counters>>

\* A worker of batch b changes; a straggler may, after the report.
WorkerCard(b) ==
  /\ ledger[b] # "none" /\ Incident /\ KeepsUp
  /\ messages' = messages + 1
  /\ inbox' = Append(inbox, Event("Card", b))
  /\ UNCHANGED <<driverVars, sessionVars, ledgerVars, fanned, directives, resumes, asks, stops, lost,
                 lags>>

\* TaskBatchDone, then the answer to the call that waits for it.
ReportBatch(b) ==
  /\ Ledger!Report({b})
  /\ inbox' = Append(inbox, Event("TaskBatchDone", b))
  /\ turn' = IF turn = "inline" /\ inlineBatch = b THEN "running" ELSE turn
  /\ inlineBatch' = IF inlineBatch = b THEN 0 ELSE inlineBatch
  /\ UNCHANGED <<queue, driverVars, fanned, directives, counters>>

-----------------------------------------------------------------------------
(* The broadcast.                                                           *)

Reads(kind) == inbox # <<>> /\ Head(inbox).kind = kind /\ inbox' = Tail(inbox)

\* What no broadcast handler touches.
Elsewhere == <<ledgerVars, fanned, resumes, messages, asks, stops, lags>>

\* hold_awaiting_batch.
Hold ==
  /\ IF goal.state = "Acting" /\ ~goal.awaiting
       THEN goal' = [goal EXCEPT !.awaiting = TRUE] /\ Save(goal')
       ELSE UNCHANGED <<goal, disk, lost>>
  /\ NoDirective

\* The goal after the verdict of its step; without one it continues.
Stepped ==
  LET over == [goal EXCEPT !.pending = "none"]
  IN CASE goal.pending = "done" -> [over EXCEPT !.state = "Done"]
       [] goal.pending = "blocked" -> [over EXCEPT !.state = "Blocked"]
       [] goal.pending = "none" /\ goal.step >= MaxSteps -> [over EXCEPT !.state = "Done"]
       [] goal.pending = "none" /\ goal.step < MaxSteps -> [over EXCEPT !.step = goal.step + 1]

\* advance.
Advance ==
  IF goal.state = "Acting"
    THEN /\ goal' = Stepped
         /\ Save(goal')
         /\ IF goal'.state = "Acting" THEN Directive ELSE NoDirective
    ELSE UNCHANGED <<goal, disk, lost>> /\ NoDirective

\* Mutant of ReadTurnComplete: a goal is held only once it is awaiting.
ReadTurnCompleteLate ==
  /\ Reads("TurnComplete")
  /\ IF pendingBatches # {} /\ goal.awaiting THEN Hold ELSE Advance
  /\ UNCHANGED <<pendingBatches, doneBatches, Elsewhere>>

ReadTurnComplete ==
  /\ Reads("TurnComplete")
  /\ IF pendingBatches # {} THEN Hold ELSE Advance
  /\ UNCHANGED <<pendingBatches, doneBatches, Elsewhere>>

\* Mutant of ReadApproval: the goal need not be acting.
ReadApprovalAlways ==
  /\ Reads("ApprovalPending")
  /\ goal' = [goal EXCEPT !.state = "Blocked", !.pending = "none"]
  /\ Save(goal') /\ Aborted /\ UNCHANGED directives
  /\ UNCHANGED <<pendingBatches, doneBatches, Elsewhere>>

\* block_on_approval: nobody watches the session, its turn is cancelled.
ReadApproval ==
  /\ Reads("ApprovalPending")
  /\ IF goal.state = "Acting"
       THEN /\ goal' = [goal EXCEPT !.state = "Blocked", !.pending = "none"]
            /\ Save(goal') /\ Aborted /\ UNCHANGED directives
       ELSE UNCHANGED <<goal, disk, lost>> /\ NoDirective
  /\ UNCHANGED <<pendingBatches, doneBatches, Elsewhere>>

ReadCard ==
  /\ Reads("Card")
  /\ pendingBatches' = pendingBatches \cup ({Head(inbox).batch} \ doneBatches)
  /\ NoDirective
  /\ UNCHANGED <<goal, disk, lost, doneBatches, Elsewhere>>

\* The goal, sent on with a report.
Integrating ==
  [goal EXCEPT !.awaiting = FALSE, !.pending = "none",
               !.step = IF goal.step < MaxSteps THEN goal.step + 1 ELSE MaxSteps]

\* Mutant of ReadReport: looks for other batches before it removes this one.
ReadReportLooksFirst ==
  /\ Reads("TaskBatchDone")
  /\ doneBatches' = doneBatches \cup {Head(inbox).batch}
  /\ pendingBatches' = pendingBatches \ {Head(inbox).batch}
  /\ IF pendingBatches = {} /\ goal.state = "Acting" /\ goal.awaiting
       THEN goal' = Integrating /\ Save(goal') /\ Directive
       ELSE UNCHANGED <<goal, disk, lost>> /\ NoDirective
  /\ UNCHANGED Elsewhere

\* resume_after_batch, with the last report the conductor waits for.
ReadReport ==
  /\ Reads("TaskBatchDone")
  /\ doneBatches' = doneBatches \cup {Head(inbox).batch}
  /\ pendingBatches' = pendingBatches \ {Head(inbox).batch}
  /\ IF pendingBatches' = {} /\ goal.state = "Acting" /\ goal.awaiting
       THEN goal' = Integrating /\ Save(goal') /\ Directive
       ELSE UNCHANGED <<goal, disk, lost>> /\ NoDirective
  /\ UNCHANGED Elsewhere

\* The receiver lagged: the event is lost.
Lag ==
  /\ inbox # <<>> /\ lags < MaxLags
  /\ lags' = lags + 1
  /\ inbox' = Tail(inbox)
  /\ UNCHANGED <<driverVars, sessionVars, ledgerVars, fanned, directives, resumes, messages, asks,
                 stops, lost>>

\* The tick: the step has taken too long; its turn is left running.
FailStalled ==
  /\ goal.state = "Acting" /\ ~goal.awaiting
  /\ goal' = [goal EXCEPT !.state = "Failed"]
  /\ Save(goal')
  /\ NoDirective
  /\ UNCHANGED <<pendingBatches, doneBatches, inbox, Elsewhere>>

\* The daemon stops and starts again: reload_goals, and the worker driver's
\* emit_reloaded_workers, whose cards the goal driver is there to read.
Restart ==
  /\ boots < MaxRestarts
  /\ Ledger!Reload
  /\ goal' = [NoGoal EXCEPT !.state = IF disk.state = "Acting" THEN "Blocked" ELSE disk.state,
                            !.step = disk.step]
  /\ pendingBatches' = {} /\ doneBatches' = {}
  /\ turn' = "none" /\ queue' = 0 /\ inlineBatch' = 0
  /\ LET out == Cardinality({b \in Batches : ledger[b] # "none"})
     IN inbox' = [k \in 1..out |-> Event("Card", k)]
  /\ UNCHANGED <<disk, fanned, directives, counters>>

-----------------------------------------------------------------------------
ReadEvent == ReadTurnComplete \/ ReadApproval \/ ReadCard \/ ReadReport

Turns == EndTurn \/ AskingEnds

Reports == \E b \in Batches : ReportBatch(b)

Next ==
  \/ CreateGoal \/ ResumeGoal \/ CancelGoal \/ SaveForAnother
  \/ \E v \in {"none", "done", "blocked"} : RecordStep(v)
  \/ Turns \/ AskApproval \/ Message \/ StopTurn
  \/ \E b \in Batches : WorkerCard(b) \/ \E inline \in BOOLEAN : Fanout(b, inline)
  \/ Reports \/ ReadEvent \/ Lag \/ FailStalled \/ Restart

Spec == Init /\ [][Next]_vars

\* Batches are reported (the promise of BatchLedger), the driver reads its
\* events, and its tick comes round.  No turn has to end.
FairSpec == Spec /\ WF_vars(Reports) /\ WF_vars(ReadEvent) /\ WF_vars(FailStalled)

-----------------------------------------------------------------------------
(* Properties.                                                              *)

GoalStates == {"none", "Acting", "Blocked", "Done", "Failed", "Cancelled"}

(* The driver's record, its sets, its file and the session have their types, *)
(* and the goal is never past its last step.                                 *)
TypeOK ==
  /\ goal \in [state : GoalStates, step : 0..MaxSteps, pending : {"none", "done", "blocked"},
               awaiting : BOOLEAN]
  /\ disk \in [state : GoalStates, step : 0..MaxSteps]
  /\ pendingBatches \subseteq Batches /\ doneBatches \subseteq Batches
  /\ turn \in {"none", "running", "asking", "inline"} /\ queue \in Nat
  /\ inbox \in Seq([kind : {"TurnComplete", "ApprovalPending", "Card", "TaskBatchDone"},
                    batch : 0..MaxBatches, fanned : SUBSET Batches])
  /\ ledger \in [Batches -> {"none", "open", "reported"}] /\ boots \in 0..MaxRestarts
  /\ lossy \in BOOLEAN /\ inlineBatch \in 0..MaxBatches /\ fanned \subseteq Batches
  /\ directives \in Nat

\* The driver reads an event that moves the goal on.
MovesOn ==
  /\ inbox # <<>> /\ inbox' = Tail(inbox) /\ lags' = lags /\ boots' = boots
  /\ Head(inbox).kind \in {"TurnComplete", "TaskBatchDone"}
  /\ goal.state = "Acting"
  /\ \/ goal'.state # "Acting" \/ goal'.step # goal.step
     \/ goal.awaiting /\ ~goal'.awaiting

(* "A conductor whose batch is still in flight does NOT advance": the event  *)
(* that moves a goal on finds every batch reported that the conductor had    *)
(* fanned out when the event was sent - "provably set before the fanning     *)
(* turn can complete" - after a restart too, unless the driver lagged.       *)
HoldsForItsBatches ==
  [][MovesOn /\ lags = 0 => \A b \in Head(inbox).fanned : ledger[b] = "reported"]_vars

(* A goal that is over stays over, once its end is saved or the file is torn: *)
(* no late completion, report, approval, stall or restart brings it back.  A   *)
(* restart on a torn file forgets it, and nothing worse.                      *)
FinishedStaysFinished ==
  [][goal.state \in {"Done", "Cancelled"} /\ disk.state \in {goal.state, "none"} =>
       goal'.state = IF boots' # boots THEN disk.state ELSE goal.state]_vars

(* What the code has of a ceiling on turns: the driver prompts a goal at most *)
(* once per step, per goal_resume and per batch the conductor fanned out - a   *)
(* report gets its turn at the ceiling too, and that turn may fan out again.  *)
(* Excepted: a save was lost, so that a step is taken or a batch reported      *)
(* again.                                                                     *)
TurnsAreBudgeted ==
  ~lossy /\ lost = 0 => directives <= MaxSteps + resumes + Cardinality(fanned)

\* The stall clock of a resumed goal is paused for a batch that is no longer out:
\* goal_resume leaves the flag of a goal that was blocked when the report came.
ClockLeftPaused ==
  resumes > 0 /\ goal.state = "Acting" /\ goal.awaiting /\ pendingBatches = {}

(* "the goal Fails instead of hanging": a goal does not act for ever, though   *)
(* a turn may never end: the stall clock or, while it awaits a batch, that     *)
(* batch's deadline gets it on, so one that acts for ever goes on fanning out. *)
(* Excepted: the clock was left paused, an event was lost, or the daemon was   *)
(* restarted.                                                                 *)
GoalSettles ==
  \/ []<>(goal.state # "Acting" \/ lags > 0 \/ boots > 0)
  \/ []<><<fanned' # fanned>>_vars
  \/ <>[]ClockLeftPaused

(* "On deadline: the batch reports [...] and the conductor regains control"   *)
(* (docs/fabrica.md): awaiting a batch comes to an end, full stop.            *)
ConductorRegainsControl ==
  goal.state = "Acting" /\ goal.awaiting ~> ~(goal.state = "Acting" /\ goal.awaiting)
=============================================================================

------------------------- MODULE GoalDriver_proofs -------------------------
(***************************************************************************)
(* Proofs about GoalDriver, for any budget of steps, any number of batches, *)
(* incidents, lags and restarts: the types, that a conductor is held for    *)
(* its batches, that a finished goal stays finished, and the budget of      *)
(* turns.                                                                  *)
(*                                                                         *)
(* That nothing moves the goal on too early is a fact about the order of    *)
(* the broadcast: whoever knows of an open batch comes after its card, or   *)
(* the card has been read.  A restart starts over: its cards come before    *)
(* anything the new boot sends.                                            *)
(*                                                                         *)
(* The budget rests on the same broadcast: a report is under way at most    *)
(* once, so that the batches whose report is behind the driver can pay for  *)
(* the directives the steps and the resumes do not.                         *)
(***************************************************************************)
EXTENDS GoalDriver, FiniteSetTheorems, TLAPS

Kinds == {"TurnComplete", "ApprovalPending", "Card", "TaskBatchDone"}

EventSet == [kind : Kinds, batch : 0..MaxBatches, fanned : SUBSET Batches]

GoalSet == [state : GoalStates, step : 0..MaxSteps, pending : {"none", "done", "blocked"},
            awaiting : BOOLEAN]

\* The session's side and the driver's side of the types.
GoalTyped ==
  /\ goal \in GoalSet /\ disk \in [state : GoalStates, step : 0..MaxSteps]
  /\ turn \in {"none", "running", "asking", "inline"} /\ queue \in Nat
  /\ directives \in Nat

FlowTyped ==
  /\ pendingBatches \subseteq Batches /\ doneBatches \subseteq Batches
  /\ inbox \in Seq(EventSet)
  /\ ledger \in [Batches -> {"none", "open", "reported"}] /\ boots \in 0..MaxRestarts
  /\ lossy \in BOOLEAN /\ inlineBatch \in 0..MaxBatches /\ fanned \subseteq Batches
  /\ lags \in Nat

\* Together they are the type invariant.
LEMMA TypedIsTypeOK == GoalTyped /\ FlowTyped => TypeOK
BY DEF GoalTyped, FlowTyped, TypeOK, GoalSet, EventSet, Kinds

-----------------------------------------------------------------------------
(* The types of the goal and its session.                                   *)

\* A prompt, a directive or an abort keeps the session's types.
LEMMA SessionTyped ==
  ASSUME GoalTyped, Prompted \/ Directive \/ NoDirective \/ (Aborted /\ UNCHANGED directives),
         Directive \/ NoDirective \/ UNCHANGED directives
  PROVE  /\ turn' \in {"none", "running", "asking", "inline"} /\ queue' \in Nat
         /\ directives' \in Nat
BY DEF GoalTyped, Prompted, Directive, NoDirective, Aborted

\* The assignments to fields of the record keep its type.
LEMMA GoalUpdates ==
  ASSUME NEW g \in GoalSet, NEW st \in GoalStates, NEW k \in 0..MaxSteps,
         NEW p \in {"none", "done", "blocked"}, NEW a \in BOOLEAN
  PROVE  /\ [g EXCEPT !.pending = p] \in GoalSet
         /\ [g EXCEPT !.state = st] \in GoalSet
         /\ [g EXCEPT !.step = k] \in GoalSet
         /\ [g EXCEPT !.state = st, !.step = k] \in GoalSet
         /\ [g EXCEPT !.state = st, !.pending = p] \in GoalSet
         /\ [g EXCEPT !.awaiting = a, !.pending = p, !.step = k] \in GoalSet
<1>1. [g EXCEPT !.pending = p] \in GoalSet
  BY DEF GoalSet
<1>2. [g EXCEPT !.state = st] \in GoalSet
  BY DEF GoalSet
<1>3. [g EXCEPT !.step = k] \in GoalSet
  BY DEF GoalSet
<1>4. [g EXCEPT !.state = st, !.step = k] \in GoalSet
  BY DEF GoalSet
<1>5. [g EXCEPT !.state = st, !.pending = p] \in GoalSet
  BY DEF GoalSet
<1>6. [g EXCEPT !.awaiting = a, !.pending = p, !.step = k] \in GoalSet
  BY DEF GoalSet
<1> QED
  BY <1>1, <1>2, <1>3, <1>4, <1>5, <1>6

\* A save, good or bad, keeps the type of the file.
LEMMA SaveTyped ==
  ASSUME GoalTyped, NEW g \in GoalSet, Save(g)
  PROVE  disk' \in [state : GoalStates, step : 0..MaxSteps]
<1>1. disk \in [state : GoalStates, step : 0..MaxSteps] /\ "none" \in GoalStates /\ 0 \in 0..MaxSteps
  BY GoalAssumption DEF GoalTyped, GoalStates
<1> QED
  BY <1>1 DEF Save, EmptyFile, GoalSet

\* What a completed step or a report makes of the goal.
LEMMA SteppedTyped ==
  ASSUME GoalTyped, goal.state = "Acting"
  PROVE  Stepped \in GoalSet /\ Integrating \in GoalSet
<1> USE GoalAssumption
<1>1. /\ goal \in GoalSet /\ goal.step \in 0..MaxSteps
      /\ goal.pending \in {"none", "done", "blocked"}
  BY DEF GoalTyped, GoalSet
<1>2. Integrating \in GoalSet
  <2> DEFINE k == IF goal.step < MaxSteps THEN goal.step + 1 ELSE MaxSteps
  <2>1. k \in 0..MaxSteps
    BY <1>1
  <2> HIDE DEF k
  <2>2. [goal EXCEPT !.awaiting = FALSE, !.pending = "none", !.step = k] \in GoalSet
    BY <1>1, <2>1, GoalUpdates DEF GoalStates
  <2> QED
    BY <2>2 DEF Integrating, k
<1>3. Stepped \in GoalSet
  <2> DEFINE over == [goal EXCEPT !.pending = "none"]
  <2>1. over \in GoalSet /\ {"Done", "Blocked"} \subseteq GoalStates
    BY <1>1, GoalUpdates DEF GoalStates
  <2> HIDE DEF over
  <2>2. [over EXCEPT !.state = "Done"] \in GoalSet /\ [over EXCEPT !.state = "Blocked"] \in GoalSet
    BY <2>1 DEF GoalSet
  <2>3. goal.step < MaxSteps => [over EXCEPT !.step = goal.step + 1] \in GoalSet
    BY <1>1, <2>1 DEF GoalSet
  <2>4. goal.step < MaxSteps \/ goal.step >= MaxSteps
    BY <1>1
  <2>5. goal.pending = "done" => Stepped = [over EXCEPT !.state = "Done"]
    BY DEF Stepped, over
  <2>6. goal.pending = "blocked" => Stepped = [over EXCEPT !.state = "Blocked"]
    BY DEF Stepped, over
  <2>7. goal.pending = "none" /\ goal.step >= MaxSteps => Stepped = [over EXCEPT !.state = "Done"]
    BY <1>1 DEF Stepped, over
  <2>8. goal.pending = "none" /\ goal.step < MaxSteps
          => Stepped = [over EXCEPT !.step = goal.step + 1]
    BY <1>1 DEF Stepped, over
  <2> QED
    BY <1>1, <2>2, <2>3, <2>4, <2>5, <2>6, <2>7, <2>8
<1> QED
  BY <1>2, <1>3

\* Every action keeps the types of the goal and its session.
LEMMA GoalTypeInductive == GoalTyped /\ FlowTyped /\ [Next]_vars => GoalTyped'
<1> SUFFICES ASSUME GoalTyped, FlowTyped, [Next]_vars PROVE GoalTyped'
  OBVIOUS
<1> USE GoalAssumption
<1>0. goal \in GoalSet /\ disk \in [state : GoalStates, step : 0..MaxSteps]
  BY DEF GoalTyped
<1>1. CASE CreateGoal
  <2>1. goal' \in GoalSet
    <3>1. NoGoal \in GoalSet /\ "Acting" \in GoalStates /\ 1 \in 0..MaxSteps
      BY DEF NoGoal, GoalSet, GoalStates
    <3> QED
      BY <1>1, <3>1, GoalUpdates DEF CreateGoal
  <2>2. Save(goal') /\ Directive
    BY <1>1 DEF CreateGoal
  <2> QED
    BY <2>1, <2>2, SessionTyped, SaveTyped DEF GoalTyped
<1>2. CASE ResumeGoal
  <2>1. goal' \in GoalSet
    BY <1>0, <1>2 DEF ResumeGoal, GoalSet, GoalStates
  <2> QED
    <3>1. Save(goal') /\ Directive
      BY <1>2 DEF ResumeGoal
    <3> QED
      BY <2>1, <3>1, SessionTyped, SaveTyped DEF GoalTyped
<1>3. CASE CancelGoal
  <2>1. goal' \in GoalSet
    BY <1>0, <1>3 DEF CancelGoal, GoalSet, GoalStates
  <2> QED
    <3>1. Save(goal') /\ Aborted /\ UNCHANGED directives
      BY <1>3 DEF CancelGoal
    <3> QED
      BY <2>1, <3>1, SaveTyped DEF GoalTyped, Aborted
<1>4. ASSUME NEW v \in {"none", "done", "blocked"}, RecordStep(v) PROVE GoalTyped'
  <2>1. goal' \in GoalSet
    BY <1>0, <1>4 DEF RecordStep, GoalSet
  <2> QED
    BY <1>4, <2>1 DEF RecordStep, GoalTyped, sessionVars
<1>5. CASE EndTurn \/ AskingEnds \/ AskApproval \/ StopTurn
  BY <1>5 DEF EndTurn, AskingEnds, AskApproval, StopTurn, Aborted, GoalTyped, driverVars
<1>6. CASE Message
  BY <1>6 DEF Message, Prompted, GoalTyped, driverVars
<1>7. ASSUME NEW b \in Batches,
             WorkerCard(b) \/ ReportBatch(b) \/ \E inline \in BOOLEAN : Fanout(b, inline)
      PROVE  GoalTyped'
  BY <1>7 DEF WorkerCard, ReportBatch, Fanout, GoalTyped, driverVars, sessionVars
<1>8. ASSUME Hold PROVE GoalTyped'
  <2>1. goal' \in GoalSet
    BY <1>0, <1>8 DEF Hold, GoalSet
  <2> QED
    BY <1>0, <1>8, <2>1, SessionTyped, SaveTyped DEF Hold, GoalTyped, NoDirective
<1>9. ASSUME Advance PROVE GoalTyped'
  <2>1. goal' \in GoalSet
    BY <1>0, <1>9, SteppedTyped DEF Advance
  <2>2. disk' \in [state : GoalStates, step : 0..MaxSteps]
    BY <1>0, <1>9, <2>1, SaveTyped DEF Advance
  <2>3. Directive \/ NoDirective
    BY <1>9 DEF Advance
  <2> QED
    BY <2>1, <2>2, <2>3, SessionTyped DEF GoalTyped
<1>10. CASE ReadTurnComplete
  BY <1>8, <1>9, <1>10 DEF ReadTurnComplete
<1>11. CASE ReadApproval
  <2>1. goal' \in GoalSet
    BY <1>0, <1>11 DEF ReadApproval, GoalSet, GoalStates
  <2>2. disk' \in [state : GoalStates, step : 0..MaxSteps]
    BY <1>0, <1>11, <2>1, SaveTyped DEF ReadApproval
  <2> QED
    BY <1>11, <2>1, <2>2 DEF ReadApproval, GoalTyped, NoDirective, Aborted
<1>12. CASE ReadCard
  BY <1>12 DEF ReadCard, NoDirective, GoalTyped
<1>13. CASE ReadReport
  <2>1. goal' \in GoalSet
    BY <1>0, <1>13, SteppedTyped DEF ReadReport
  <2>2. disk' \in [state : GoalStates, step : 0..MaxSteps]
    BY <1>0, <1>13, <2>1, SaveTyped DEF ReadReport
  <2>3. Directive \/ NoDirective
    BY <1>13 DEF ReadReport
  <2> QED
    BY <2>1, <2>2, <2>3, SessionTyped DEF GoalTyped
<1>14. CASE Lag
  BY <1>14 DEF Lag, GoalTyped, driverVars, sessionVars
<1>15. CASE FailStalled
  <2>1. goal' \in GoalSet
    BY <1>0, <1>15 DEF FailStalled, GoalSet, GoalStates
  <2> QED
    BY <1>15, <2>1, SaveTyped DEF FailStalled, GoalTyped, NoDirective
<1>16. CASE Restart
  <2>1. goal' \in GoalSet
    BY <1>0, <1>16 DEF Restart, NoGoal, GoalSet, GoalStates
  <2> QED
    BY <1>16, <2>1 DEF Restart, GoalTyped
<1>17. CASE UNCHANGED vars
  BY <1>17 DEF vars, GoalTyped
<1>18. CASE SaveForAnother
  BY <1>0, <1>18, SaveTyped DEF SaveForAnother, GoalTyped, sessionVars
<1> QED
  BY <1>1, <1>2, <1>3, <1>4, <1>5, <1>6, <1>7, <1>10, <1>11, <1>12, <1>13, <1>14, <1>15,
     <1>16, <1>17, <1>18 DEF Next, Turns, Reports, ReadEvent

-----------------------------------------------------------------------------
(* The order of the broadcast.                                              *)

\* Cards and reports name batches.
NamesBatches ==
  \A i \in 1..Len(inbox) : inbox[i].kind \in {"Card", "TaskBatchDone"} => inbox[i].batch \in Batches

\* The ledger's batches are the conductor's, numbered in the order they were fanned out.
KnownIsFanned ==
  /\ \A b \in Batches : ledger[b] # "none" <=> b \in fanned
  /\ \A i \in 1..Len(inbox) : inbox[i].fanned \subseteq fanned
  /\ \E m \in 0..MaxBatches : fanned = 1..m

\* A report that was read, or is under way, is in the ledger.
ReportsAreTrue ==
  /\ \A b \in doneBatches : ledger[b] = "reported"
  /\ \A i \in 1..Len(inbox) : inbox[i].kind = "TaskBatchDone" => ledger[inbox[i].batch] = "reported"

\* The driver holds for b, or will once it has read n events.
Seen(b, n) ==
  \/ b \in pendingBatches
  \/ \E i \in 1..Len(inbox) : i <= n /\ inbox[i].kind = "Card" /\ inbox[i].batch = b

\* Who knows of an open batch comes after its card.
CardComesFirst ==
  lags = 0 => \A b \in Batches : ledger[b] = "open" =>
    /\ Seen(b, Len(inbox))
    /\ \A j \in 1..Len(inbox) :
         inbox[j].kind \in {"TurnComplete", "TaskBatchDone"} /\ b \in inbox[j].fanned
           => Seen(b, j - 1)

FlowInv ==
  FlowTyped /\ NamesBatches /\ KnownIsFanned /\ ReportsAreTrue /\ CardComesFirst

\* Nothing of the flow changes.
LEMMA QuietKeepsFlow ==
  ASSUME FlowInv, inlineBatch' \in 0..MaxBatches,
         UNCHANGED <<pendingBatches, doneBatches, inbox, ledgerVars, fanned, lags>>
  PROVE  FlowInv'
BY DEF FlowInv, FlowTyped, NamesBatches, KnownIsFanned, ReportsAreTrue, CardComesFirst, Seen,
       ledgerVars

\* What an event added at the end changes.
LEMMA Appended ==
  ASSUME inbox \in Seq(EventSet), NEW e \in EventSet, inbox' = Append(inbox, e)
  PROVE  /\ inbox' \in Seq(EventSet) /\ Len(inbox) \in Nat
         /\ Len(inbox') = Len(inbox) + 1
         /\ inbox'[Len(inbox) + 1] = e
         /\ \A i \in 1..Len(inbox) : inbox'[i] = inbox[i]
OBVIOUS

\* What an event read at the front changes.
LEMMA Shifted ==
  ASSUME inbox \in Seq(EventSet), inbox # <<>>, inbox' = Tail(inbox)
  PROVE  /\ inbox' \in Seq(EventSet) /\ Len(inbox) \in Nat \ {0}
         /\ Len(inbox') = Len(inbox) - 1
         /\ Head(inbox) = inbox[1] /\ inbox[1] \in EventSet
         /\ \A i \in 1..Len(inbox') : inbox'[i] = inbox[i + 1]
OBVIOUS

\* A turn ends or asks, or a worker changes.
LEMMA SendKeepsFlow ==
  ASSUME FlowInv, inlineBatch' \in 0..MaxBatches,
         NEW kind \in {"TurnComplete", "ApprovalPending", "Card"}, NEW b \in 0..MaxBatches,
         kind = "Card" => b \in Batches,
         inbox' = Append(inbox, Event(kind, b)),
         UNCHANGED <<pendingBatches, doneBatches, ledgerVars, fanned, lags>>
  PROVE  FlowInv'
<1> USE GoalAssumption DEF FlowInv
<1> DEFINE e == Event(kind, b)
<1>1. /\ e \in EventSet /\ e.kind = kind /\ e.batch = b /\ e.fanned = fanned
  BY DEF Event, EventSet, Kinds, FlowTyped, Batches
<1> HIDE DEF e
<1>2. /\ inbox \in Seq(EventSet) /\ inbox' = Append(inbox, e)
  BY DEF FlowTyped, e
<1>3. /\ inbox' \in Seq(EventSet) /\ Len(inbox) \in Nat
      /\ Len(inbox') = Len(inbox) + 1
      /\ inbox'[Len(inbox) + 1] = e
      /\ \A i \in 1..Len(inbox) : inbox'[i] = inbox[i]
  BY <1>1, <1>2, Appended
<1>4. FlowTyped'
  BY <1>3 DEF FlowTyped, ledgerVars
<1>5. NamesBatches'
  BY <1>1, <1>3 DEF NamesBatches
<1>6. KnownIsFanned'
  <2>1. \E m \in 0..MaxBatches : fanned' = 1..m
    BY DEF KnownIsFanned
  <2>2. \A i \in 1..Len(inbox') : inbox'[i].fanned \subseteq fanned'
    BY <1>1, <1>3 DEF KnownIsFanned
  <2>3. \A c \in Batches : ledger'[c] # "none" <=> c \in fanned'
    BY DEF KnownIsFanned, ledgerVars
  <2> QED
    BY <2>1, <2>2, <2>3 DEF KnownIsFanned
<1>7. ReportsAreTrue'
  BY <1>1, <1>3 DEF ReportsAreTrue, ledgerVars
<1>8. ASSUME NEW c \in Batches, NEW n \in Nat, Seen(c, n) PROVE Seen(c, n)'
  BY <1>3, <1>8 DEF Seen
<1>9. CardComesFirst'
  <2> SUFFICES ASSUME lags = 0, NEW c \in Batches, ledger[c] = "open"
               PROVE  /\ Seen(c, Len(inbox))'
                      /\ \A j \in 1..Len(inbox') :
                           inbox'[j].kind \in {"TurnComplete", "TaskBatchDone"}
                             /\ c \in inbox'[j].fanned => Seen(c, j - 1)'
    BY DEF CardComesFirst, ledgerVars
  <2>1. Seen(c, Len(inbox))
    BY DEF CardComesFirst
  <2>2. c \in pendingBatches' \/
          \E i \in 1..Len(inbox') : i <= Len(inbox) /\ inbox'[i].kind = "Card" /\ inbox'[i].batch = c
    BY <1>3, <2>1 DEF Seen
  <2>3. Seen(c, Len(inbox))'
    BY <1>3, <2>2 DEF Seen
  <2>4. ASSUME NEW j \in 1..Len(inbox'),
               inbox'[j].kind \in {"TurnComplete", "TaskBatchDone"}, c \in inbox'[j].fanned
        PROVE  Seen(c, j - 1)'
    <3>1. CASE j = Len(inbox) + 1
      BY <1>3, <2>2, <3>1 DEF Seen
    <3>2. CASE j \in 1..Len(inbox)
      BY <1>3, <1>8, <2>4, <3>2 DEF CardComesFirst
    <3> QED
      BY <1>3, <3>1, <3>2
  <2> QED
    BY <2>3, <2>4
<1> QED
  BY <1>4, <1>5, <1>6, <1>7, <1>9

\* A batch is fanned out: its card goes out first.
LEMMA FanoutKeepsFlow ==
  ASSUME FlowInv, NEW b \in Batches, NEW inline \in BOOLEAN, Fanout(b, inline)
  PROVE  FlowInv'
<1> USE GoalAssumption DEF FlowInv
<1> DEFINE e == Event("Card", b)
<1>1. /\ e \in EventSet /\ e.kind = "Card" /\ e.batch = b /\ e.fanned = fanned
  BY DEF Event, EventSet, Kinds, FlowTyped, Batches
<1> HIDE DEF e
<1>2. /\ inbox \in Seq(EventSet) /\ inbox' = Append(inbox, e)
  BY DEF FlowTyped, Fanout, e
<1>3. /\ inbox' \in Seq(EventSet) /\ Len(inbox) \in Nat
      /\ Len(inbox') = Len(inbox) + 1
      /\ inbox'[Len(inbox) + 1] = e
      /\ \A i \in 1..Len(inbox) : inbox'[i] = inbox[i]
  BY <1>1, <1>2, Appended
<1>4. /\ ledger[b] = "none" /\ ledger' = [ledger EXCEPT ![b] = "open"]
      /\ fanned' = fanned \cup {b} /\ lossy' \in {lossy, TRUE}
      /\ \A c \in Batches : c < b => ledger[c] # "none"
      /\ inlineBatch' \in {0, b}
      /\ UNCHANGED <<boots, pendingBatches, doneBatches, lags>>
  BY DEF Fanout, Ledger!Fan, Ledger!MayLose, driverVars, counters
<1>5. FlowTyped'
  <2>1. lossy' \in BOOLEAN
    BY <1>4, Zenon DEF FlowTyped
  <2>2. ledger' \in [Batches -> {"none", "open", "reported"}]
    BY <1>4 DEF FlowTyped
  <2>3. fanned' \subseteq Batches /\ inlineBatch' \in 0..MaxBatches
    BY <1>4 DEF FlowTyped, Batches
  <2> QED
    BY <1>3, <1>4, <2>1, <2>2, <2>3 DEF FlowTyped
<1>6. NamesBatches'
  BY <1>1, <1>3 DEF NamesBatches
<1>7. KnownIsFanned'
  <2>1. \A c \in Batches : ledger'[c] # "none" <=> c \in fanned'
    BY <1>4 DEF KnownIsFanned, FlowTyped
  <2>2. \A i \in 1..Len(inbox') : inbox'[i].fanned \subseteq fanned'
    BY <1>1, <1>3, <1>4 DEF KnownIsFanned
  <2>3. \E m \in 0..MaxBatches : fanned' = 1..m
    <3>1. PICK m \in 0..MaxBatches : fanned = 1..m
      BY DEF KnownIsFanned
    <3>2. b \notin fanned /\ \A c \in Batches : c < b => c \in fanned
      BY <1>4 DEF KnownIsFanned
    <3>3. b = m + 1
      BY <3>1, <3>2 DEF Batches
    <3> QED
      BY <1>4, <3>1, <3>3 DEF Batches
  <2> QED
    BY <2>1, <2>2, <2>3 DEF KnownIsFanned
<1>8. ReportsAreTrue'
  <2>1. \A c \in Batches : ledger[c] = "reported" => ledger'[c] = "reported"
    BY <1>4 DEF FlowTyped
  <2> QED
    BY <1>1, <1>3, <1>4, <2>1 DEF ReportsAreTrue, FlowTyped, NamesBatches
<1>9. CardComesFirst'
  <2> SUFFICES ASSUME lags = 0, NEW c \in Batches, ledger'[c] = "open"
               PROVE  /\ Seen(c, Len(inbox))'
                      /\ \A j \in 1..Len(inbox') :
                           inbox'[j].kind \in {"TurnComplete", "TaskBatchDone"}
                             /\ c \in inbox'[j].fanned => Seen(c, j - 1)'
    BY <1>4 DEF CardComesFirst
  <2>1. CASE c = b
    <3>1. Seen(c, Len(inbox))'
      BY <1>1, <1>3, <2>1 DEF Seen
    <3>2. \A j \in 1..Len(inbox) : c \notin inbox[j].fanned
      BY <1>4, <2>1 DEF KnownIsFanned
    <3> QED
      BY <1>1, <1>3, <3>1, <3>2
  <2>2. CASE c # b
    <3>1. ledger[c] = "open"
      BY <1>4, <2>2 DEF FlowTyped
    <3>2. ASSUME NEW n \in Nat, Seen(c, n) PROVE Seen(c, n)'
      BY <1>3, <1>4, <3>2 DEF Seen
    <3>3. Seen(c, Len(inbox))
      BY <3>1 DEF CardComesFirst
    <3>4. Seen(c, Len(inbox))'
      BY <1>3, <1>4, <3>3 DEF Seen
    <3>5. ASSUME NEW j \in 1..Len(inbox'),
                 inbox'[j].kind \in {"TurnComplete", "TaskBatchDone"}, c \in inbox'[j].fanned
          PROVE  Seen(c, j - 1)'
      <4>1. j \in 1..Len(inbox) /\ inbox'[j] = inbox[j]
        BY <1>1, <1>3, <3>5
      <4>2. Seen(c, j - 1)
        BY <3>1, <3>5, <4>1 DEF CardComesFirst
      <4> QED
        BY <1>3, <3>2, <4>1, <4>2
    <3> QED
      BY <3>4, <3>5
  <2> QED
    BY <2>1, <2>2
<1> QED
  BY <1>5, <1>6, <1>7, <1>8, <1>9

\* A batch is reported.
LEMMA ReportKeepsFlow ==
  ASSUME FlowInv, NEW b \in Batches, ReportBatch(b)
  PROVE  FlowInv'
<1> USE GoalAssumption DEF FlowInv
<1> DEFINE e == Event("TaskBatchDone", b)
<1>1. /\ e \in EventSet /\ e.kind = "TaskBatchDone" /\ e.batch = b /\ e.fanned = fanned
  BY DEF Event, EventSet, Kinds, FlowTyped, Batches
<1> HIDE DEF e
<1>2. /\ inbox \in Seq(EventSet) /\ inbox' = Append(inbox, e)
  BY DEF FlowTyped, ReportBatch, e
<1>3. /\ inbox' \in Seq(EventSet) /\ Len(inbox) \in Nat
      /\ Len(inbox') = Len(inbox) + 1
      /\ inbox'[Len(inbox) + 1] = e
      /\ \A i \in 1..Len(inbox) : inbox'[i] = inbox[i]
  BY <1>1, <1>2, Appended
<1>4. /\ ledger[b] = "open"
      /\ ledger' = [c \in Batches |-> IF c = b THEN "reported" ELSE ledger[c]]
      /\ lossy' \in {lossy, TRUE} /\ inlineBatch' \in {0, inlineBatch}
      /\ UNCHANGED <<boots, pendingBatches, doneBatches, fanned, lags>>
  BY DEF ReportBatch, Ledger!Report, Ledger!MayLose, driverVars, counters
<1>5. FlowTyped'
  <2>1. lossy' \in BOOLEAN
    BY <1>4, Zenon DEF FlowTyped
  <2>2. ledger' \in [Batches -> {"none", "open", "reported"}]
    BY <1>4 DEF FlowTyped
  <2>3. inlineBatch' \in 0..MaxBatches
    BY <1>4 DEF FlowTyped
  <2> QED
    BY <1>3, <1>4, <2>1, <2>2, <2>3 DEF FlowTyped
<1>6. NamesBatches'
  BY <1>1, <1>3 DEF NamesBatches
<1>7. KnownIsFanned'
  <2>1. \E m \in 0..MaxBatches : fanned' = 1..m
    BY <1>4 DEF KnownIsFanned
  <2>2. \A i \in 1..Len(inbox') : inbox'[i].fanned \subseteq fanned'
    BY <1>1, <1>3, <1>4 DEF KnownIsFanned
  <2>3. \A c \in Batches : ledger'[c] # "none" <=> c \in fanned'
    BY <1>4 DEF KnownIsFanned
  <2> QED
    BY <2>1, <2>2, <2>3 DEF KnownIsFanned
<1>8. ReportsAreTrue'
  <2>1. \A c \in Batches : ledger[c] = "reported" => ledger'[c] = "reported"
    BY <1>4
  <2>2. \A c \in doneBatches' : ledger'[c] = "reported"
    BY <1>4, <2>1 DEF ReportsAreTrue, FlowTyped
  <2>3. ASSUME NEW i \in 1..Len(inbox'), inbox'[i].kind = "TaskBatchDone"
        PROVE  ledger'[inbox'[i].batch] = "reported"
    <3>1. CASE i = Len(inbox) + 1
      BY <1>1, <1>3, <1>4, <3>1
    <3>2. CASE i # Len(inbox) + 1
      <4>1. i \in 1..Len(inbox) /\ inbox'[i] = inbox[i]
        BY <1>3, <3>2
      <4>2. inbox[i].batch \in Batches /\ ledger[inbox[i].batch] = "reported"
        BY <2>3, <4>1 DEF ReportsAreTrue, NamesBatches
      <4> QED
        BY <2>1, <4>1, <4>2
    <3> QED
      BY <3>1, <3>2
  <2> QED
    BY <2>2, <2>3 DEF ReportsAreTrue
<1>9. CardComesFirst'
  <2> SUFFICES ASSUME lags = 0, NEW c \in Batches, ledger'[c] = "open"
               PROVE  /\ Seen(c, Len(inbox))'
                      /\ \A j \in 1..Len(inbox') :
                           inbox'[j].kind \in {"TurnComplete", "TaskBatchDone"}
                             /\ c \in inbox'[j].fanned => Seen(c, j - 1)'
    BY <1>4 DEF CardComesFirst
  <2>1. ledger[c] = "open"
    BY <1>4
  <2>2. ASSUME NEW n \in Nat, Seen(c, n) PROVE Seen(c, n)'
    BY <1>3, <1>4, <2>2 DEF Seen
  <2>3. Seen(c, Len(inbox))
    BY <2>1 DEF CardComesFirst
  <2>4. c \in pendingBatches' \/
          \E i \in 1..Len(inbox') : i <= Len(inbox) /\ inbox'[i].kind = "Card" /\ inbox'[i].batch = c
    BY <1>3, <1>4, <2>3 DEF Seen
  <2>5. Seen(c, Len(inbox))'
    BY <1>3, <2>4 DEF Seen
  <2>6. ASSUME NEW j \in 1..Len(inbox'),
               inbox'[j].kind \in {"TurnComplete", "TaskBatchDone"}, c \in inbox'[j].fanned
        PROVE  Seen(c, j - 1)'
    <3>1. CASE j = Len(inbox) + 1
      BY <1>3, <2>4, <3>1 DEF Seen
    <3>2. CASE j \in 1..Len(inbox)
      <4>1. Seen(c, j - 1)
        BY <1>3, <2>1, <2>6, <3>2 DEF CardComesFirst
      <4> QED
        BY <1>3, <2>2, <3>2, <4>1
    <3> QED
      BY <1>3, <3>1, <3>2
  <2> QED
    BY <2>5, <2>6
<1> QED
  BY <1>5, <1>6, <1>7, <1>8, <1>9

\* An event is read, or lost.  What a read changes: a card's batch is held for, unless it
\* was reported, and a reported batch is let go.
LEMMA ReadKeepsFlow ==
  ASSUME FlowInv, inbox # <<>>, inbox' = Tail(inbox),
         UNCHANGED <<ledgerVars, fanned>>, inlineBatch' \in 0..MaxBatches,
         pendingBatches' \subseteq Batches, doneBatches' \subseteq Batches,
         \A b \in doneBatches' : ledger[b] = "reported",
         lags' \in Nat, lags' = 0 => lags = 0,
         lags' = 0 => \A b \in Batches :
           (/\ ledger[b] = "open"
            /\ \/ b \in pendingBatches
               \/ Head(inbox).kind = "Card" /\ Head(inbox).batch = b)
             => b \in pendingBatches'
  PROVE  FlowInv'
<1> USE GoalAssumption DEF FlowInv
<1>1. /\ inbox' \in Seq(EventSet) /\ Len(inbox) \in Nat \ {0}
      /\ Len(inbox') = Len(inbox) - 1
      /\ Head(inbox) = inbox[1] /\ inbox[1] \in EventSet
      /\ \A i \in 1..Len(inbox') : inbox'[i] = inbox[i + 1]
  BY Shifted DEF FlowTyped
<1>2. FlowTyped'
  BY <1>1 DEF FlowTyped, ledgerVars
<1>3. \A i \in 1..Len(inbox') : i + 1 \in 1..Len(inbox)
  BY <1>1
<1>4. NamesBatches'
  BY <1>1, <1>3 DEF NamesBatches
<1>5. KnownIsFanned'
  BY <1>1, <1>3 DEF KnownIsFanned, ledgerVars
<1>6. ReportsAreTrue'
  BY <1>1, <1>3 DEF ReportsAreTrue, ledgerVars
<1>7. CardComesFirst'
  <2> SUFFICES ASSUME lags' = 0, NEW c \in Batches, ledger[c] = "open"
               PROVE  /\ Seen(c, Len(inbox))'
                      /\ \A j \in 1..Len(inbox') :
                           inbox'[j].kind \in {"TurnComplete", "TaskBatchDone"}
                             /\ c \in inbox'[j].fanned => Seen(c, j - 1)'
    BY DEF CardComesFirst, ledgerVars
  <2>1. ASSUME NEW n \in 1..Len(inbox), Seen(c, n)
        PROVE  c \in pendingBatches' \/
                 \E i \in 1..Len(inbox') : i <= n - 1 /\ inbox'[i].kind = "Card" /\ inbox'[i].batch = c
    <3>1. CASE c \in pendingBatches
      BY <3>1
    <3>2. CASE c \notin pendingBatches
      <4>1. PICK i \in 1..Len(inbox) : i <= n /\ inbox[i].kind = "Card" /\ inbox[i].batch = c
        BY <2>1, <3>2 DEF Seen
      <4>2. CASE i = 1
        BY <1>1, <4>1, <4>2
      <4>3. CASE i # 1
        <5>1. i - 1 \in 1..Len(inbox') /\ i - 1 <= n - 1 /\ (i - 1) + 1 = i
          BY <1>1, <4>1, <4>3
        <5> QED
          BY <1>1, <4>1, <5>1
      <4> QED
        BY <4>2, <4>3
    <3> QED
      BY <3>1, <3>2
  <2>2. Seen(c, Len(inbox)) /\ Len(inbox) \in 1..Len(inbox)
    BY <1>1 DEF CardComesFirst
  <2>3. Seen(c, Len(inbox))'
    BY <1>1, <2>1, <2>2 DEF Seen
  <2>4. ASSUME NEW j \in 1..Len(inbox'),
               inbox'[j].kind \in {"TurnComplete", "TaskBatchDone"}, c \in inbox'[j].fanned
        PROVE  Seen(c, j - 1)'
    <3>1. j + 1 \in 1..Len(inbox) /\ (j + 1) - 1 = j /\ j \in 1..Len(inbox)
      BY <1>1
    <3>2. Seen(c, j)
      BY <1>1, <2>4, <3>1 DEF CardComesFirst
    <3>3. c \in pendingBatches' \/
            \E i \in 1..Len(inbox') : i <= j - 1 /\ inbox'[i].kind = "Card" /\ inbox'[i].batch = c
      BY <2>1, <3>1, <3>2
    <3> QED
      BY <3>3 DEF Seen
  <2> QED
    BY <2>3, <2>4
<1> QED
  BY <1>2, <1>4, <1>5, <1>6, <1>7

\* A restart: the only events are the cards of the batches there are.
LEMMA RestartKeepsFlow ==
  ASSUME FlowInv, Restart
  PROVE  FlowInv'
<1> USE GoalAssumption DEF FlowInv
<1>1. PICK m \in 0..MaxBatches : fanned = 1..m
  BY DEF KnownIsFanned
<1>2. {b \in Batches : ledger[b] # "none"} = 1..m
  BY <1>1 DEF KnownIsFanned, FlowTyped
<1>3. Cardinality(1..m) = m
  BY FS_Interval
<1>4. inbox' = [k \in 1..m |-> Event("Card", k)]
  BY <1>2, <1>3 DEF Restart
<1>5. \A k \in 1..m : /\ Event("Card", k) \in EventSet
                      /\ Event("Card", k).kind = "Card" /\ Event("Card", k).batch = k
                      /\ Event("Card", k).fanned = fanned
  BY DEF Event, EventSet, Kinds, FlowTyped, Batches
<1>6. /\ inbox' \in Seq(EventSet) /\ Len(inbox') = m
      /\ \A k \in 1..m : inbox'[k].kind = "Card" /\ inbox'[k].batch = k /\ inbox'[k].fanned = fanned
  BY <1>4, <1>5
<1>7. /\ ledger' \in [Batches -> {"none", "open", "reported"}]
      /\ \A b \in Batches : ledger'[b] = "none" <=> ledger[b] = "none"
      /\ boots' = boots + 1 /\ boots < MaxRestarts /\ UNCHANGED lossy
  BY DEF Restart, Ledger!Reload, FlowTyped
<1>8. /\ pendingBatches' = {} /\ doneBatches' = {} /\ inlineBatch' = 0
      /\ UNCHANGED <<fanned, lags>>
  BY DEF Restart, counters
<1>9. FlowTyped'
  BY <1>6, <1>7, <1>8 DEF FlowTyped
<1>10. NamesBatches'
  BY <1>6 DEF NamesBatches, Batches
<1>11. KnownIsFanned'
  BY <1>1, <1>6, <1>7, <1>8 DEF KnownIsFanned, FlowTyped
<1>12. ReportsAreTrue'
  BY <1>6, <1>8 DEF ReportsAreTrue
<1>13. CardComesFirst'
  <2> SUFFICES ASSUME NEW c \in Batches, ledger'[c] = "open" PROVE Seen(c, Len(inbox))'
    BY <1>6 DEF CardComesFirst
  <2>1. c \in 1..m
    BY <1>1, <1>7 DEF KnownIsFanned
  <2> QED
    BY <1>6, <2>1 DEF Seen
<1> QED
  BY <1>9, <1>10, <1>11, <1>12, <1>13

\* The flow's invariant is inductive: one step per action.
LEMMA FlowInductive == FlowInv /\ [Next]_vars => FlowInv'
<1> SUFFICES ASSUME FlowInv, [Next]_vars PROVE FlowInv'
  OBVIOUS
<1> USE GoalAssumption
<1>0. /\ FlowTyped /\ inlineBatch \in 0..MaxBatches /\ 0 \in 0..MaxBatches
      /\ ledger \in [Batches -> {"none", "open", "reported"}]
  BY DEF FlowInv, FlowTyped
<1>1. CASE CreateGoal \/ ResumeGoal \/ CancelGoal \/ Message \/ StopTurn
  <2>1. UNCHANGED <<pendingBatches, doneBatches, inbox, ledgerVars, fanned, lags>>
    BY <1>1 DEF CreateGoal, ResumeGoal, CancelGoal, Message, StopTurn, driverVars
  <2>2. inlineBatch' \in {0, inlineBatch}
    BY <1>1 DEF CreateGoal, ResumeGoal, CancelGoal, Message, StopTurn, Directive, Prompted, Aborted
  <2> QED
    BY <1>0, <2>1, <2>2, QuietKeepsFlow
<1>2. ASSUME NEW v, RecordStep(v) PROVE FlowInv'
  BY <1>0, <1>2, QuietKeepsFlow DEF RecordStep, sessionVars, counters
<1>3. CASE AskingEnds
  BY <1>0, <1>3, QuietKeepsFlow DEF AskingEnds, driverVars, counters
<1>4. CASE FailStalled
  BY <1>0, <1>4, QuietKeepsFlow DEF FailStalled, NoDirective, Elsewhere
<1>5. CASE EndTurn
  <2>1. /\ inbox' = Append(inbox, Event("TurnComplete", 0)) /\ inlineBatch' = inlineBatch
        /\ UNCHANGED <<pendingBatches, doneBatches, ledgerVars, fanned, lags>>
    BY <1>5 DEF EndTurn, driverVars, counters
  <2> QED
    BY <1>0, <2>1, SendKeepsFlow
<1>6. CASE AskApproval
  <2>1. /\ inbox' = Append(inbox, Event("ApprovalPending", 0)) /\ inlineBatch' = inlineBatch
        /\ UNCHANGED <<pendingBatches, doneBatches, ledgerVars, fanned, lags>>
    BY <1>6 DEF AskApproval, driverVars
  <2> QED
    BY <1>0, <2>1, SendKeepsFlow
<1>7. ASSUME NEW b \in Batches, WorkerCard(b) PROVE FlowInv'
  <2>1. /\ inbox' = Append(inbox, Event("Card", b)) /\ inlineBatch' = inlineBatch
        /\ UNCHANGED <<pendingBatches, doneBatches, ledgerVars, fanned, lags>>
    BY <1>7 DEF WorkerCard, driverVars, sessionVars
  <2>2. b \in 0..MaxBatches
    BY DEF Batches
  <2> QED
    BY <1>0, <2>1, <2>2, SendKeepsFlow
<1>8. ASSUME NEW b \in Batches, NEW inline \in BOOLEAN, Fanout(b, inline) PROVE FlowInv'
  BY <1>8, FanoutKeepsFlow
<1>9. ASSUME NEW b \in Batches, ReportBatch(b) PROVE FlowInv'
  BY <1>9, ReportKeepsFlow
<1>10. CASE ReadTurnComplete \/ ReadApproval
  <2>1. /\ inbox # <<>> /\ inbox' = Tail(inbox) /\ Head(inbox).kind # "Card"
        /\ UNCHANGED <<pendingBatches, doneBatches, ledgerVars, fanned, lags>>
    BY <1>10 DEF ReadTurnComplete, ReadApproval, Reads, Elsewhere
  <2>2. inlineBatch' \in {0, inlineBatch}
    BY <1>10 DEF ReadTurnComplete, ReadApproval, Hold, Advance, NoDirective, Directive, Prompted,
         Aborted
  <2> QED
    BY <1>0, <2>1, <2>2, ReadKeepsFlow DEF FlowInv, FlowTyped, ReportsAreTrue
<1>11. CASE ReadCard
  <2>1. /\ inbox # <<>> /\ inbox' = Tail(inbox) /\ Head(inbox).kind = "Card"
        /\ pendingBatches' = pendingBatches \cup ({Head(inbox).batch} \ doneBatches)
        /\ UNCHANGED <<doneBatches, ledgerVars, fanned, lags, inlineBatch>>
    BY <1>11 DEF ReadCard, Reads, NoDirective, Elsewhere
  <2>2. Head(inbox) = inbox[1] /\ 1 \in 1..Len(inbox)
    BY <1>0, <2>1 DEF FlowTyped
  <2>3. Head(inbox).batch \in Batches
    BY <2>1, <2>2 DEF FlowInv, NamesBatches
  <2>4. \A b \in Batches : ledger[b] = "open" => b \notin doneBatches
    BY DEF FlowInv, ReportsAreTrue
  <2> QED
    BY <1>0, <2>1, <2>3, <2>4, ReadKeepsFlow DEF FlowInv, FlowTyped, ReportsAreTrue
<1>12. CASE ReadReport
  <2>1. /\ inbox # <<>> /\ inbox' = Tail(inbox) /\ Head(inbox).kind = "TaskBatchDone"
        /\ doneBatches' = doneBatches \cup {Head(inbox).batch}
        /\ pendingBatches' = pendingBatches \ {Head(inbox).batch}
        /\ UNCHANGED <<ledgerVars, fanned, lags>>
    BY <1>12 DEF ReadReport, Reads, Elsewhere
  <2>2. inlineBatch' = inlineBatch
    BY <1>12 DEF ReadReport, NoDirective, Directive, Prompted
  <2>3. Head(inbox) = inbox[1] /\ 1 \in 1..Len(inbox)
    BY <1>0, <2>1 DEF FlowTyped
  <2>4. Head(inbox).batch \in Batches /\ ledger[Head(inbox).batch] = "reported"
    BY <2>1, <2>3 DEF FlowInv, NamesBatches, ReportsAreTrue
  <2> QED
    BY <1>0, <2>1, <2>2, <2>4, ReadKeepsFlow DEF FlowInv, FlowTyped, ReportsAreTrue
<1>13. CASE Lag
  <2>1. /\ inbox # <<>> /\ inbox' = Tail(inbox) /\ lags' \in Nat /\ lags' # 0
        /\ UNCHANGED <<pendingBatches, doneBatches, ledgerVars, fanned, inlineBatch>>
    BY <1>0, <1>13 DEF Lag, driverVars, sessionVars, FlowTyped
  <2> QED
    BY <1>0, <2>1, ReadKeepsFlow DEF FlowInv, FlowTyped, ReportsAreTrue
<1>14. CASE Restart
  BY <1>14, RestartKeepsFlow
<1>15. CASE UNCHANGED vars
  BY <1>0, <1>15, QuietKeepsFlow DEF vars, ledgerVars
<1>16. CASE SaveForAnother
  BY <1>0, <1>16, QuietKeepsFlow DEF SaveForAnother, sessionVars
<1> QED
  BY <1>1, <1>2, <1>3, <1>4, <1>5, <1>6, <1>7, <1>8, <1>9, <1>10, <1>11, <1>12, <1>13, <1>14,
     <1>15, <1>16 DEF Next, Turns, Reports, ReadEvent

\* Initially there is no goal, no batch and no event.
LEMMA GoalInit == Init => GoalTyped /\ FlowInv
<1> SUFFICES ASSUME Init PROVE GoalTyped /\ FlowInv
  OBVIOUS
<1> USE GoalAssumption DEF Init, Ledger!Init
<1>1. GoalTyped
  BY DEF GoalTyped, GoalSet, NoGoal, EmptyFile, GoalStates
<1>2. FlowTyped
  <2>1. lossy \in BOOLEAN
    BY Zenon
  <2>2. ledger \in [Batches -> {"none", "open", "reported"}]
    OBVIOUS
  <2>3. inbox \in Seq(EventSet) /\ boots \in 0..MaxRestarts /\ inlineBatch \in 0..MaxBatches
    OBVIOUS
  <2> QED
    BY <2>1, <2>2, <2>3 DEF FlowTyped
<1>3. Len(inbox) = 0 /\ fanned = 1..0
  OBVIOUS
<1>4. NamesBatches /\ ReportsAreTrue
  BY <1>3 DEF NamesBatches, ReportsAreTrue
<1>5. KnownIsFanned
  BY <1>3 DEF KnownIsFanned
<1>6. CardComesFirst
  BY DEF CardComesFirst
<1> QED
  BY <1>1, <1>2, <1>4, <1>5, <1>6 DEF FlowInv

-----------------------------------------------------------------------------
\* The types, and the order of cards, reports and completions, for all bounds.
THEOREM GoalInvariant == Spec => [](GoalTyped /\ FlowInv)
<1>1. FlowInv => FlowTyped
  BY DEF FlowInv
<1> QED
  BY <1>1, GoalInit, GoalTypeInductive, FlowInductive, PTL DEF Spec

\* The goal's record, its file and the driver's sets have their types, and no step is
\* past max_steps (goal.rs: advance, resume_after_batch, reload_goals).
THEOREM GoalTypeCorrect == Spec => []TypeOK
<1>1. GoalTyped /\ FlowInv => TypeOK
  BY TypedIsTypeOK DEF FlowInv
<1> QED
  BY <1>1, GoalInvariant, PTL

\* A step that moves the goal on is the reading of a completion or of a report.
LEMMA MovingOnReads ==
  ASSUME FlowInv, [Next]_vars, MovesOn
  PROVE  ReadTurnComplete \/ ReadReport
<1>0. inbox \in Seq(EventSet) /\ boots \in 0..MaxRestarts /\ lags \in Nat
  BY DEF FlowInv, FlowTyped
<1>1. inbox' # inbox /\ Len(inbox') = Len(inbox) - 1 /\ Len(inbox) \in Nat
  BY <1>0 DEF MovesOn
<1>2. ASSUME NEW kind, NEW b PROVE inbox' # Append(inbox, Event(kind, b))
  BY <1>0, <1>1
<1>3. ~(CreateGoal \/ ResumeGoal \/ CancelGoal \/ (\E v \in {"none", "done", "blocked"} : RecordStep(v)))
  BY <1>1 DEF CreateGoal, ResumeGoal, CancelGoal, RecordStep
<1>4. ~(AskingEnds \/ Message \/ StopTurn \/ FailStalled \/ UNCHANGED vars)
  BY <1>1 DEF AskingEnds, Message, StopTurn, FailStalled, vars
<1>5. ~(EndTurn \/ AskApproval)
  BY <1>2 DEF EndTurn, AskApproval
<1>6. ASSUME NEW b \in Batches
      PROVE  ~(WorkerCard(b) \/ ReportBatch(b) \/ \E inline \in BOOLEAN : Fanout(b, inline))
  BY <1>2 DEF WorkerCard, ReportBatch, Fanout
<1>7. ~(ReadApproval \/ ReadCard)
  BY DEF ReadApproval, ReadCard, Reads, MovesOn
<1>8. ~Lag
  BY <1>0 DEF Lag, MovesOn
<1>9. ~Restart
  BY <1>0 DEF Restart, Ledger!Reload, MovesOn
<1>10. ~SaveForAnother
  BY <1>1 DEF SaveForAnother
<1> QED
  BY <1>3, <1>4, <1>5, <1>6, <1>7, <1>8, <1>9, <1>10 DEF Next, Turns, Reports, ReadEvent

\* "A conductor whose batch is still in flight does NOT advance": whatever completion or
\* report moves the goal on, every batch that was out when it was sent has been reported.
THEOREM ConductorHolds == Spec => HoldsForItsBatches
<1>1. GoalTyped /\ FlowInv /\ [Next]_vars =>
        [MovesOn /\ lags = 0 => \A b \in Head(inbox).fanned : ledger[b] = "reported"]_vars
  <2> SUFFICES ASSUME GoalTyped, FlowInv, [Next]_vars, MovesOn, lags = 0,
                      NEW b \in Head(inbox).fanned
               PROVE  ledger[b] = "reported"
    OBVIOUS
  <2>1. inbox \in Seq(EventSet) /\ inbox # <<>>
    BY DEF FlowInv, FlowTyped, MovesOn
  <2>2. /\ Head(inbox) = inbox[1] /\ 1 \in 1..Len(inbox)
        /\ Head(inbox).kind \in {"TurnComplete", "TaskBatchDone"}
    BY <2>1 DEF MovesOn
  <2>3. b \in fanned /\ b \in Batches
    BY <2>2 DEF FlowInv, FlowTyped, KnownIsFanned
  <2>4. ledger[b] \in {"open", "reported"}
    BY <2>3 DEF FlowInv, FlowTyped, KnownIsFanned
  <2>5. ASSUME ledger[b] = "open" PROVE FALSE
    <3>1. Seen(b, 1 - 1)
      BY <2>2, <2>3, <2>5 DEF FlowInv, CardComesFirst
    <3>2. b \in pendingBatches
      BY <3>1 DEF Seen
    <3>3. CASE ReadTurnComplete
      <4>1. Hold
        BY <3>2, <3>3 DEF ReadTurnComplete
      <4>2. goal \in GoalSet
        BY DEF GoalTyped
      <4> QED
        BY <4>1, <4>2 DEF Hold, MovesOn, GoalSet
    <3>4. CASE ReadReport
      <4>1. pendingBatches' = pendingBatches \ {Head(inbox).batch}
        BY <3>4 DEF ReadReport
      <4>2. Head(inbox).batch # b
        BY <2>2, <2>5, <3>4 DEF FlowInv, ReportsAreTrue, ReadReport, Reads
      <4>3. goal' = goal
        BY <3>2, <3>4, <4>1, <4>2 DEF ReadReport
      <4> QED
        BY <4>3 DEF MovesOn
    <3> QED
      BY <3>3, <3>4, MovingOnReads
  <2> QED
    BY <2>4, <2>5
<1> QED
  BY <1>1, GoalInvariant, PTL DEF Spec, HoldsForItsBatches

\* A goal that is over stays over, or is forgotten with a torn file: every handler asks for an
\* acting, blocked or failed goal first, and reload_goals takes what the file says of a
\* finished one.
THEOREM FinishedGoalsStay == Spec => FinishedStaysFinished
<1>1. GoalTyped /\ FlowInv /\ [Next]_vars =>
        [goal.state \in {"Done", "Cancelled"} /\ disk.state \in {goal.state, "none"}
           => goal'.state = IF boots' # boots THEN disk.state ELSE goal.state]_vars
  <2> SUFFICES ASSUME GoalTyped, FlowInv, [Next]_vars, goal.state \in {"Done", "Cancelled"},
                      disk.state \in {goal.state, "none"}
               PROVE  goal'.state = IF boots' # boots THEN disk.state ELSE goal.state
    OBVIOUS
  <2>0. boots \in Nat
    BY GoalAssumption DEF FlowInv, FlowTyped
  <2>1. ~(CreateGoal \/ ResumeGoal \/ CancelGoal \/ FailStalled
            \/ \E v \in {"none", "done", "blocked"} : RecordStep(v))
    BY DEF CreateGoal, ResumeGoal, CancelGoal, FailStalled, RecordStep
  <2>2. CASE Turns \/ AskApproval \/ Message \/ StopTurn \/ Lag \/ SaveForAnother \/ UNCHANGED vars
    BY <2>2 DEF Turns, EndTurn, AskingEnds, AskApproval, Message, StopTurn, Lag, SaveForAnother, vars,
         driverVars, ledgerVars
  <2>3. ASSUME NEW b \in Batches,
               WorkerCard(b) \/ ReportBatch(b) \/ \E inline \in BOOLEAN : Fanout(b, inline)
        PROVE  goal' = goal /\ boots' = boots
    BY <2>3 DEF WorkerCard, ReportBatch, Fanout, driverVars, ledgerVars, Ledger!Fan, Ledger!Report
  <2>4. CASE ReadEvent
    BY <2>4 DEF ReadEvent, ReadTurnComplete, ReadApproval, ReadCard, ReadReport, Hold, Advance,
         Elsewhere, ledgerVars
  <2>5. CASE Restart
    BY <2>0, <2>5 DEF Restart, NoGoal, Ledger!Reload
  <2> QED
    BY <2>1, <2>2, <2>3, <2>4, <2>5 DEF Next, Reports
<1> QED
  BY <1>1, GoalInvariant, PTL DEF Spec, FinishedStaysFinished

-----------------------------------------------------------------------------
(* The budget of turns: a directive is paid for by a step, by a goal_resume  *)
(* or by a report that was read, and no report is read twice.                *)

\* The report of batch b is under way.
Reporting(b) ==
  \E i \in 1..Len(inbox) : inbox[i].kind = "TaskBatchDone" /\ inbox[i].batch = b

\* The batches whose report is behind the driver: read, lost, or dropped by a restart.
Spent == {b \in Batches : ledger[b] = "reported" /\ ~Reporting(b)}

\* A batch is reported once: it is not open when its report is under way.
OneReport ==
  \A i, j \in 1..Len(inbox) :
    /\ inbox[i].kind = "TaskBatchDone" /\ inbox[j].kind = "TaskBatchDone"
    /\ inbox[i].batch = inbox[j].batch
    => i = j

\* Without a lost save the file knows the step, and every directive is paid for.
DirectivesPaid ==
  ~lossy /\ lost = 0 =>
    /\ disk.step = goal.step
    /\ directives <= goal.step + resumes + Cardinality(Spent)

BudgetInv ==
  /\ resumes \in Nat /\ lost \in Nat
  /\ goal.state = "none" => goal.step = 0
  /\ disk.state = "none" => disk.step = 0
  /\ OneReport
  /\ DirectivesPaid

\* What the broadcast and the ledger go through in a step.
FlowSame == UNCHANGED <<inbox, ledgerVars>>

FlowSends ==
  \E e \in EventSet : e.kind # "TaskBatchDone" /\ inbox' = Append(inbox, e) /\ UNCHANGED ledgerVars

FlowFans ==
  \E e \in EventSet, b \in Batches :
    /\ e.kind # "TaskBatchDone" /\ inbox' = Append(inbox, e)
    /\ ledger[b] = "none" /\ ledger' = [ledger EXCEPT ![b] = "open"]
    /\ lossy' \in {lossy, TRUE}

FlowReports ==
  \E e \in EventSet, b \in Batches :
    /\ e.kind = "TaskBatchDone" /\ e.batch = b /\ inbox' = Append(inbox, e)
    /\ ledger[b] = "open"
    /\ ledger' = [c \in Batches |-> IF c = b THEN "reported" ELSE ledger[c]]
    /\ lossy' \in {lossy, TRUE}

FlowTakes == inbox # <<>> /\ inbox' = Tail(inbox) /\ UNCHANGED ledgerVars

\* Every step is one of these, or a restart.
LEMMA FlowKinds ==
  ASSUME FlowInv, [Next]_vars
  PROVE  FlowSame \/ FlowSends \/ FlowFans \/ FlowReports \/ FlowTakes \/ Restart
<1> USE GoalAssumption
<1>0. FlowTyped
  BY DEF FlowInv
<1>1. \A kind \in Kinds, b \in 0..MaxBatches :
        /\ Event(kind, b) \in EventSet /\ Event(kind, b).kind = kind /\ Event(kind, b).batch = b
  BY <1>0 DEF Event, EventSet, FlowTyped
<1>2. CASE CreateGoal \/ ResumeGoal \/ CancelGoal \/ SaveForAnother \/ Message \/ StopTurn
  BY <1>2 DEF CreateGoal, ResumeGoal, CancelGoal, SaveForAnother, Message, StopTurn, FlowSame
<1>3. CASE AskingEnds \/ FailStalled \/ UNCHANGED vars
  BY <1>3 DEF AskingEnds, FailStalled, Elsewhere, vars, ledgerVars, FlowSame
<1>4. ASSUME NEW v, RecordStep(v) PROVE FlowSame
  BY <1>4 DEF RecordStep, FlowSame
<1>5. CASE EndTurn
  <2>1. inbox' = Append(inbox, Event("TurnComplete", 0)) /\ UNCHANGED ledgerVars
    BY <1>5 DEF EndTurn
  <2>2. Event("TurnComplete", 0) \in EventSet /\ Event("TurnComplete", 0).kind = "TurnComplete"
    BY <1>1 DEF Kinds
  <2> QED
    BY <2>1, <2>2 DEF FlowSends
<1>6. CASE AskApproval
  <2>1. inbox' = Append(inbox, Event("ApprovalPending", 0)) /\ UNCHANGED ledgerVars
    BY <1>6 DEF AskApproval
  <2>2. /\ Event("ApprovalPending", 0) \in EventSet
        /\ Event("ApprovalPending", 0).kind = "ApprovalPending"
    BY <1>1 DEF Kinds
  <2> QED
    BY <2>1, <2>2 DEF FlowSends
<1>7. ASSUME NEW b \in Batches PROVE Event("Card", b) \in EventSet /\ Event("Card", b).kind = "Card"
  BY <1>1 DEF Kinds, Batches
<1>8. ASSUME NEW b \in Batches, WorkerCard(b) PROVE FlowSends
  BY <1>7, <1>8 DEF WorkerCard, FlowSends
<1>9. ASSUME NEW b \in Batches, NEW inline \in BOOLEAN, Fanout(b, inline) PROVE FlowFans
  <2>1. /\ inbox' = Append(inbox, Event("Card", b))
        /\ ledger[b] = "none" /\ ledger' = [ledger EXCEPT ![b] = "open"]
        /\ lossy' \in {lossy, TRUE}
    BY <1>9 DEF Fanout, Ledger!Fan, Ledger!MayLose
  <2> QED
    BY <1>7, <2>1 DEF FlowFans
<1>10. ASSUME NEW b \in Batches, ReportBatch(b) PROVE FlowReports
  <2>1. /\ inbox' = Append(inbox, Event("TaskBatchDone", b))
        /\ ledger[b] = "open"
        /\ ledger' = [c \in Batches |-> IF c = b THEN "reported" ELSE ledger[c]]
        /\ lossy' \in {lossy, TRUE}
    BY <1>10 DEF ReportBatch, Ledger!Report, Ledger!MayLose
  <2>2. /\ Event("TaskBatchDone", b) \in EventSet
        /\ Event("TaskBatchDone", b).kind = "TaskBatchDone" /\ Event("TaskBatchDone", b).batch = b
    BY <1>1 DEF Kinds, Batches
  <2> QED
    BY <2>1, <2>2 DEF FlowReports
<1>11. CASE ReadEvent
  BY <1>11 DEF ReadEvent, ReadTurnComplete, ReadApproval, ReadCard, ReadReport, Reads, Elsewhere,
       FlowTakes
<1>12. CASE Lag
  BY <1>12 DEF Lag, FlowTakes
<1> QED
  BY <1>2, <1>3, <1>4, <1>5, <1>6, <1>8, <1>9, <1>10, <1>11, <1>12 DEF Next, Turns, Reports

\* No step sends a second report of a batch, and none takes a spent one back, unless a save
\* of the worker driver was lost.
LEMMA SpentGrows ==
  ASSUME FlowInv, OneReport, [Next]_vars
  PROVE  /\ OneReport'
         /\ ~lossy' => ~lossy /\ Spent \subseteq Spent'
<1> USE GoalAssumption
<1>0. /\ inbox \in Seq(EventSet) /\ Len(inbox) \in Nat
      /\ ledger \in [Batches -> {"none", "open", "reported"}] /\ lossy \in BOOLEAN
  BY DEF FlowInv, FlowTyped
<1>1. CASE FlowSame
  <2>1. inbox' = inbox /\ ledger' = ledger /\ lossy' = lossy
    BY <1>1 DEF FlowSame, ledgerVars
  <2>2. OneReport'
    BY <2>1 DEF OneReport
  <2>3. Spent' = Spent
    BY <2>1 DEF Spent, Reporting
  <2> QED
    BY <2>1, <2>2, <2>3
<1>2. CASE FlowSends \/ FlowFans
  <2>1. PICK e \in EventSet : e.kind # "TaskBatchDone" /\ inbox' = Append(inbox, e)
    BY <1>2 DEF FlowSends, FlowFans
  <2>2. /\ Len(inbox') = Len(inbox) + 1 /\ inbox'[Len(inbox) + 1] = e
        /\ \A i \in 1..Len(inbox) : inbox'[i] = inbox[i]
    BY <1>0, <2>1, Appended
  <2>3. \A i \in 1..Len(inbox') :
          inbox'[i].kind = "TaskBatchDone" => i \in 1..Len(inbox) /\ inbox'[i] = inbox[i]
    BY <1>0, <2>1, <2>2
  <2>4. OneReport'
    BY <2>3 DEF OneReport
  <2>5. \A b : Reporting(b)' => Reporting(b)
    BY <2>3 DEF Reporting
  <2>6. \A b \in Batches : ledger[b] = "reported" => ledger'[b] = "reported"
    BY <1>0, <1>2 DEF FlowSends, FlowFans, ledgerVars
  <2>7. lossy' \in {lossy, TRUE}
    BY <1>2 DEF FlowSends, FlowFans, ledgerVars
  <2>8. Spent \subseteq Spent'
    BY <2>5, <2>6 DEF Spent
  <2> QED
    BY <1>0, <2>4, <2>7, <2>8
<1>3. CASE FlowReports
  <2>1. PICK e \in EventSet, b \in Batches :
          /\ e.kind = "TaskBatchDone" /\ e.batch = b /\ inbox' = Append(inbox, e)
          /\ ledger[b] = "open"
          /\ ledger' = [c \in Batches |-> IF c = b THEN "reported" ELSE ledger[c]]
          /\ lossy' \in {lossy, TRUE}
    BY <1>3 DEF FlowReports
  <2>2. /\ Len(inbox') = Len(inbox) + 1 /\ inbox'[Len(inbox) + 1] = e
        /\ \A i \in 1..Len(inbox) : inbox'[i] = inbox[i]
    BY <1>0, <2>1, Appended
  <2>3. \A i \in 1..Len(inbox) : inbox[i].kind = "TaskBatchDone" => inbox[i].batch # b
    BY <2>1 DEF FlowInv, ReportsAreTrue
  <2>4. \A i \in 1..Len(inbox') : i \in 1..Len(inbox) \/ i = Len(inbox) + 1
    BY <1>0, <2>2
  <2>5. OneReport'
    BY <2>1, <2>2, <2>3, <2>4 DEF OneReport
  <2>6. \A c : Reporting(c)' => Reporting(c) \/ c = b
    BY <2>1, <2>2, <2>4 DEF Reporting
  <2>7. Spent \subseteq Spent'
    BY <2>1, <2>6 DEF Spent
  <2> QED
    BY <1>0, <2>1, <2>5, <2>7
<1>4. CASE FlowTakes
  <2>1. inbox # <<>> /\ inbox' = Tail(inbox) /\ ledger' = ledger /\ lossy' = lossy
    BY <1>4 DEF FlowTakes, ledgerVars
  <2>2. /\ Len(inbox) \in Nat \ {0} /\ Len(inbox') = Len(inbox) - 1
        /\ \A i \in 1..Len(inbox') : inbox'[i] = inbox[i + 1]
    BY <1>0, <2>1, Shifted
  <2>3. \A i \in 1..Len(inbox') : i + 1 \in 1..Len(inbox) /\ inbox'[i] = inbox[i + 1]
    BY <2>2
  <2>4. OneReport'
    <3> SUFFICES ASSUME NEW i \in 1..Len(inbox'), NEW j \in 1..Len(inbox'),
                        inbox'[i].kind = "TaskBatchDone", inbox'[j].kind = "TaskBatchDone",
                        inbox'[i].batch = inbox'[j].batch
                 PROVE  i = j
      BY DEF OneReport
    <3>1. i + 1 = j + 1
      BY <2>3 DEF OneReport
    <3> QED
      BY <2>2, <3>1
  <2>5. \A b : Reporting(b)' => Reporting(b)
    BY <2>3 DEF Reporting
  <2>6. Spent \subseteq Spent'
    BY <2>1, <2>5 DEF Spent
  <2> QED
    BY <2>1, <2>4, <2>6
<1>5. CASE Restart
  <2>1. DOMAIN inbox' = 1..Len(inbox') /\ \A i \in 1..Len(inbox') : inbox'[i].kind = "Card"
    <3>1. PICK m \in 0..MaxBatches : fanned = 1..m
      BY DEF FlowInv, KnownIsFanned
    <3>2. {b \in Batches : ledger[b] # "none"} = 1..m
      BY <3>1 DEF FlowInv, KnownIsFanned, FlowTyped
    <3>3. Cardinality(1..m) = m
      BY FS_Interval
    <3>4. inbox' = [k \in 1..m |-> Event("Card", k)]
      BY <1>5, <3>2, <3>3 DEF Restart
    <3>5. \A k \in 1..m : Event("Card", k) \in EventSet /\ Event("Card", k).kind = "Card"
      BY DEF Event, EventSet, Kinds, FlowInv, FlowTyped, Batches
    <3> QED
      BY <3>4, <3>5
  <2>2. OneReport' /\ \A b : ~Reporting(b)'
    BY <2>1 DEF OneReport, Reporting
  <2>3. lossy' = lossy /\ (~lossy => ledger' = ledger)
    <3>1. PICK S \in SUBSET {b \in Batches : lossy /\ ledger[b] = "reported"} :
            ledger' = [b \in Batches |-> IF b \in S THEN "open" ELSE ledger[b]]
      BY <1>5 DEF Restart, Ledger!Reload
    <3>2. ~lossy => \A b \in Batches : b \notin S
      OBVIOUS
    <3>3. lossy' = lossy
      BY <1>5 DEF Restart, Ledger!Reload
    <3> QED
      BY <1>0, <3>1, <3>2, <3>3
  <2>4. ~lossy => Spent \subseteq Spent'
    BY <2>2, <2>3 DEF Spent
  <2> QED
    BY <2>2, <2>3, <2>4
<1> QED
  BY <1>1, <1>2, <1>3, <1>4, <1>5, FlowKinds

\* Reading a report spends it.
LEMMA ReportIsSpent ==
  ASSUME FlowInv, OneReport, ReadReport
  PROVE  \E b \in Batches : b \notin Spent /\ b \in Spent'
<1>0. inbox \in Seq(EventSet)
  BY DEF FlowInv, FlowTyped
<1>1. /\ inbox # <<>> /\ inbox' = Tail(inbox) /\ Head(inbox).kind = "TaskBatchDone"
      /\ ledger' = ledger
  BY DEF ReadReport, Reads, Elsewhere, ledgerVars
<1>2. /\ Len(inbox) \in Nat \ {0} /\ Len(inbox') = Len(inbox) - 1 /\ Head(inbox) = inbox[1]
      /\ \A i \in 1..Len(inbox') : inbox'[i] = inbox[i + 1]
  BY <1>0, <1>1, Shifted
<1>3. 1 \in 1..Len(inbox) /\ \A i \in 1..Len(inbox') : i + 1 \in 1..Len(inbox) /\ i + 1 # 1
  BY <1>2
<1> DEFINE b == inbox[1].batch
<1>4. b \in Batches /\ ledger[b] = "reported" /\ inbox[1].kind = "TaskBatchDone"
  BY <1>1, <1>2, <1>3 DEF FlowInv, NamesBatches, ReportsAreTrue
<1>5. Reporting(b)
  BY <1>3, <1>4 DEF Reporting
<1>6. ~\E i \in 1..Len(inbox') : inbox'[i].kind = "TaskBatchDone" /\ inbox'[i].batch = b
  BY <1>2, <1>3, <1>4 DEF OneReport
<1> QED
  <2> HIDE DEF b
  <2>1. \A c \in Batches : c \in Spent' <=> ledger'[c] = "reported"
           /\ ~\E i \in 1..Len(inbox') : inbox'[i].kind = "TaskBatchDone" /\ inbox'[i].batch = c
    BY DEF Spent, Reporting
  <2> QED
    BY <1>1, <1>4, <1>5, <1>6, <2>1 DEF Spent

\* What a step pays a directive with.
StepPays ==
  /\ resumes' \in Nat /\ lost' \in Nat
  /\ goal'.state = "none" => goal'.step = 0
  /\ disk'.state = "none" => disk'.step = 0
  /\ lost' = 0 => lost = 0
  /\ lost' = 0 /\ disk.step = goal.step =>
       /\ disk'.step = goal'.step
       /\ \/ directives' + goal.step + resumes <= directives + goal'.step + resumes'
          \/ /\ ReadReport /\ resumes' = resumes
             /\ directives' <= directives + 1 /\ goal.step <= goal'.step

\* The file follows the goal, or a save is lost.
LEMMA SavedOrLost ==
  ASSUME lost \in Nat, NEW g \in GoalSet, goal' = g, Save(g),
         disk.state = "none" => disk.step = 0, g.state = "none" => g.step = 0
  PROVE  /\ lost' \in Nat /\ (lost' = 0 => lost = 0 /\ disk'.step = g.step)
         /\ disk'.state = "none" => disk'.step = 0
BY DEF Save, EmptyFile

\* Every step pays for the directive it sends.
LEMMA EveryStepPays ==
  ASSUME GoalTyped, FlowInv, BudgetInv, [Next]_vars
  PROVE  StepPays
<1> USE GoalAssumption
<1>0. /\ resumes \in Nat /\ lost \in Nat /\ directives \in Nat
      /\ goal \in GoalSet /\ goal.step \in 0..MaxSteps /\ disk.step \in 0..MaxSteps
      /\ goal.state = "none" => goal.step = 0
      /\ disk.state = "none" => disk.step = 0
  BY DEF BudgetInv, GoalTyped, GoalSet
<1>t. goal' \in GoalSet /\ goal'.step \in 0..MaxSteps
  <2>1. GoalTyped'
    BY GoalTypeInductive DEF FlowInv
  <2> QED
    BY <2>1 DEF GoalTyped, GoalSet
<1>s. \A st, p : /\ [goal EXCEPT !.state = st, !.pending = p].step = goal.step
                 /\ [goal EXCEPT !.state = st, !.pending = p].state = st
                 /\ [goal EXCEPT !.state = st].step = goal.step
                 /\ [goal EXCEPT !.state = st].state = st
                 /\ [goal EXCEPT !.pending = p].step = goal.step
                 /\ [goal EXCEPT !.pending = p].state = goal.state
  BY <1>0 DEF GoalSet
\* Steps that leave the goal's step and the count alone, and save or do not touch the file.
<1>q. ASSUME goal'.step = goal.step, goal'.state = "none" => goal.state = "none",
             directives' = directives, resumes' = resumes,
             Save(goal') \/ (UNCHANGED <<disk, lost>>)
      PROVE  StepPays
  <2>1. goal'.state = "none" => goal'.step = 0
    BY <1>0, <1>q
  <2>2. CASE Save(goal')
    <3>1. /\ lost' \in Nat /\ (lost' = 0 => lost = 0 /\ disk'.step = goal'.step)
          /\ disk'.state = "none" => disk'.step = 0
      BY <1>0, <1>t, <2>1, <2>2, SavedOrLost
    <3> QED
      BY <1>0, <1>q, <2>1, <3>1 DEF StepPays
  <2>3. CASE UNCHANGED <<disk, lost>>
    BY <1>0, <1>q, <2>1, <2>3 DEF StepPays
  <2> QED
    BY <1>q, <2>2, <2>3
\* Steps that send a directive and save.
<1>d. ASSUME directives' = directives + 1, Save(goal'), goal'.state # "none",
             \/ resumes' = resumes /\ goal'.step = goal.step + 1
             \/ resumes' = resumes + 1 /\ goal'.step = goal.step
             \/ ReadReport /\ resumes' = resumes /\ goal.step <= goal'.step
      PROVE  StepPays
  <2>1. /\ lost' \in Nat /\ (lost' = 0 => lost = 0 /\ disk'.step = goal'.step)
        /\ disk'.state = "none" => disk'.step = 0
    BY <1>0, <1>t, <1>d, SavedOrLost
  <2>2. \/ directives' + goal.step + resumes <= directives + goal'.step + resumes'
        \/ /\ ReadReport /\ resumes' = resumes
           /\ directives' <= directives + 1 /\ goal.step <= goal'.step
    BY <1>0, <1>t, <1>d
  <2>3. resumes' \in Nat
    BY <1>0, <1>d
  <2> QED
    BY <1>d, <2>1, <2>2, <2>3 DEF StepPays
<1>1. CASE CreateGoal
  <2>1. goal'.state = "Acting" /\ goal'.step = 1 /\ goal.step = 0
    BY <1>0, <1>1 DEF CreateGoal, NoGoal
  <2>2. directives' = directives + 1 /\ Save(goal') /\ resumes' = resumes
    BY <1>1 DEF CreateGoal, Directive
  <2> QED
    BY <1>d, <2>1, <2>2
<1>2. CASE ResumeGoal
  <2>1. goal'.state = "Acting" /\ goal'.step = goal.step
    BY <1>2, <1>s DEF ResumeGoal
  <2>2. directives' = directives + 1 /\ Save(goal') /\ resumes' = resumes + 1
    BY <1>2 DEF ResumeGoal, Directive
  <2> QED
    BY <1>d, <2>1, <2>2
<1>3. CASE CancelGoal
  <2>1. goal'.state = "Cancelled" /\ goal'.step = goal.step
    BY <1>3, <1>s DEF CancelGoal
  <2>2. directives' = directives /\ Save(goal') /\ resumes' = resumes
    BY <1>3 DEF CancelGoal
  <2> QED
    BY <1>q, <2>1, <2>2
<1>4. ASSUME NEW v \in {"none", "done", "blocked"}, RecordStep(v) PROVE StepPays
  <2>1. goal'.state = goal.state /\ goal'.step = goal.step
    BY <1>4, <1>s DEF RecordStep
  <2>2. directives' = directives /\ UNCHANGED <<disk, lost>> /\ resumes' = resumes
    BY <1>4 DEF RecordStep, counters
  <2> QED
    BY <1>q, <2>1, <2>2
<1>5. CASE EndTurn \/ AskingEnds \/ AskApproval \/ StopTurn \/ Message \/ Lag \/ UNCHANGED vars
  <2>1. goal' = goal /\ directives' = directives /\ UNCHANGED <<disk, lost>> /\ resumes' = resumes
    BY <1>5 DEF EndTurn, AskingEnds, AskApproval, StopTurn, Message, Lag, driverVars, counters, vars
  <2> QED
    BY <1>q, <2>1
<1>6. ASSUME NEW b \in Batches,
             WorkerCard(b) \/ ReportBatch(b) \/ \E inline \in BOOLEAN : Fanout(b, inline)
      PROVE  StepPays
  <2>1. goal' = goal /\ directives' = directives /\ UNCHANGED <<disk, lost>> /\ resumes' = resumes
    BY <1>6 DEF WorkerCard, ReportBatch, Fanout, driverVars, counters
  <2> QED
    BY <1>q, <2>1
<1>7. CASE ReadTurnComplete
  <2>0. resumes' = resumes
    BY <1>7 DEF ReadTurnComplete, Elsewhere
  <2>1. CASE Hold
    <3>1. goal'.state = goal.state /\ goal'.step = goal.step
      BY <1>0, <2>1 DEF Hold, GoalSet
    <3>2. directives' = directives /\ (Save(goal') \/ UNCHANGED <<disk, lost>>)
      BY <2>1 DEF Hold, NoDirective
    <3> QED
      BY <1>q, <2>0, <3>1, <3>2
  <2>2. CASE Advance /\ goal.state # "Acting"
    <3>1. goal' = goal /\ directives' = directives /\ UNCHANGED <<disk, lost>>
      BY <2>2 DEF Advance, NoDirective
    <3> QED
      BY <1>q, <2>0, <3>1
  <2>3. CASE Advance /\ goal.state = "Acting"
    <3>1. goal' = Stepped /\ Save(goal') /\ (IF goal'.state = "Acting" THEN Directive ELSE NoDirective)
      BY <2>3 DEF Advance
    <3> DEFINE over == [goal EXCEPT !.pending = "none"]
    <3>2. over \in GoalSet /\ over.state = "Acting" /\ over.step = goal.step
      BY <1>0, <2>3 DEF GoalSet
    <3> HIDE DEF over
    <3>3. /\ [over EXCEPT !.state = "Done"].state = "Done"
          /\ [over EXCEPT !.state = "Done"].step = goal.step
          /\ [over EXCEPT !.state = "Blocked"].state = "Blocked"
          /\ [over EXCEPT !.state = "Blocked"].step = goal.step
          /\ [over EXCEPT !.step = goal.step + 1].state = "Acting"
          /\ [over EXCEPT !.step = goal.step + 1].step = goal.step + 1
      BY <3>2 DEF GoalSet
    <3>4. goal.pending \in {"none", "done", "blocked"}
      BY <1>0 DEF GoalSet
    <3>5. \/ Stepped = [over EXCEPT !.state = "Done"]
          \/ Stepped = [over EXCEPT !.state = "Blocked"]
          \/ Stepped = [over EXCEPT !.step = goal.step + 1]
      BY <1>0, <3>4 DEF Stepped, over
    <3>6. CASE Stepped = [over EXCEPT !.step = goal.step + 1]
      <4>1. goal'.state = "Acting" /\ goal'.step = goal.step + 1 /\ Directive
        BY <3>1, <3>3, <3>6
      <4> QED
        BY <1>d, <2>0, <3>1, <4>1 DEF Directive
    <3>7. CASE Stepped # [over EXCEPT !.step = goal.step + 1]
      <4>1. goal'.state \in {"Done", "Blocked"} /\ goal'.step = goal.step
        BY <3>1, <3>3, <3>5, <3>7
      <4>2. NoDirective
        BY <3>1, <4>1
      <4> QED
        BY <1>q, <2>0, <3>1, <4>1, <4>2 DEF NoDirective
    <3> QED
      BY <3>6, <3>7
  <2> QED
    BY <1>7, <2>1, <2>2, <2>3 DEF ReadTurnComplete
<1>8. CASE ReadApproval
  <2>1. resumes' = resumes /\ directives' = directives
    BY <1>8 DEF ReadApproval, Elsewhere, NoDirective
  <2>2. goal'.step = goal.step /\ goal'.state \in {goal.state, "Blocked"}
    <3>1. goal' = goal \/ goal' = [goal EXCEPT !.state = "Blocked", !.pending = "none"]
      BY <1>8 DEF ReadApproval
    <3> QED
      BY <1>0, <3>1 DEF GoalSet
  <2>3. Save(goal') \/ UNCHANGED <<disk, lost>>
    BY <1>8 DEF ReadApproval
  <2> QED
    BY <1>q, <2>1, <2>2, <2>3
<1>9. CASE ReadCard
  <2>1. goal' = goal /\ directives' = directives /\ UNCHANGED <<disk, lost>> /\ resumes' = resumes
    BY <1>9 DEF ReadCard, Elsewhere, NoDirective
  <2> QED
    BY <1>q, <2>1
<1>10. CASE ReadReport
  <2>0. resumes' = resumes
    BY <1>10 DEF ReadReport, Elsewhere
  <2>1. CASE goal' = Integrating /\ Save(goal') /\ Directive /\ goal.state = "Acting"
    <3>1. goal'.state = "Acting" /\ goal.step <= goal'.step
      BY <1>0, <2>1 DEF Integrating, GoalSet
    <3> QED
      BY <1>d, <1>10, <2>0, <2>1, <3>1 DEF Directive
  <2>2. CASE UNCHANGED <<goal, disk, lost>> /\ NoDirective
    BY <1>q, <2>0, <2>2 DEF NoDirective
  <2> QED
    BY <1>10, <2>1, <2>2 DEF ReadReport
<1>11. CASE FailStalled
  <2>1. goal'.state = "Failed" /\ goal'.step = goal.step
    BY <1>11, <1>s DEF FailStalled
  <2>2. directives' = directives /\ Save(goal') /\ resumes' = resumes
    BY <1>11 DEF FailStalled, Elsewhere, NoDirective
  <2> QED
    BY <1>q, <2>1, <2>2
<1>12. CASE Restart
  <2>1. goal'.step = disk.step /\ (goal'.state = "none" => disk.state = "none")
    BY <1>12 DEF Restart, NoGoal
  <2>2. UNCHANGED <<disk, directives, resumes, lost>>
    BY <1>12 DEF Restart, counters
  <2> QED
    BY <1>0, <2>1, <2>2 DEF StepPays
<1>13. CASE SaveForAnother
  <2>1. goal' = goal /\ directives' = directives /\ Save(goal') /\ resumes' = resumes
    BY <1>13 DEF SaveForAnother
  <2> QED
    BY <1>q, <2>1
<1> QED
  BY <1>1, <1>2, <1>3, <1>4, <1>5, <1>6, <1>7, <1>8, <1>9, <1>10, <1>11, <1>12, <1>13
     DEF Next, Turns, Reports, ReadEvent

\* The batches behind the driver are among those the conductor fanned out.
LEMMA SpentFinite ==
  ASSUME FlowInv
  PROVE  /\ IsFiniteSet(Spent) /\ Cardinality(Spent) \in Nat
         /\ IsFiniteSet(fanned) /\ Cardinality(fanned) \in Nat
         /\ Cardinality(Spent) <= Cardinality(fanned)
<1> USE GoalAssumption
<1>1. PICK m \in 0..MaxBatches : fanned = 1..m
  BY DEF FlowInv, KnownIsFanned
<1>2. IsFiniteSet(fanned)
  BY <1>1, FS_Interval
<1>3. Spent \subseteq fanned
  BY DEF Spent, FlowInv, KnownIsFanned
<1> QED
  BY <1>2, <1>3, FS_Subset, FS_CardinalityType

\* The budget is inductive on top of the types and the flow.
LEMMA BudgetInductive == GoalTyped /\ FlowInv /\ BudgetInv /\ [Next]_vars => BudgetInv'
<1> SUFFICES ASSUME GoalTyped, FlowInv, BudgetInv, [Next]_vars PROVE BudgetInv'
  OBVIOUS
<1>1. StepPays
  BY EveryStepPays
<1>2. OneReport /\ OneReport' /\ (~lossy' => ~lossy /\ Spent \subseteq Spent')
  BY SpentGrows DEF BudgetInv
<1>3. FlowInv' /\ GoalTyped'
  BY FlowInductive, GoalTypeInductive DEF FlowInv
<1>4. /\ IsFiniteSet(Spent) /\ Cardinality(Spent) \in Nat
      /\ IsFiniteSet(Spent)' /\ Cardinality(Spent') \in Nat
  <2>1. IsFiniteSet(Spent) /\ Cardinality(Spent) \in Nat
    BY SpentFinite
  <2>2. (FlowInv => IsFiniteSet(Spent) /\ Cardinality(Spent) \in Nat)'
    BY SpentFinite, PTL
  <2> QED
    BY <1>3, <2>1, <2>2
<1>5. DirectivesPaid'
  <2> SUFFICES ASSUME ~lossy', lost' = 0
               PROVE  /\ disk'.step = goal'.step
                      /\ directives' <= goal'.step + resumes' + Cardinality(Spent')
    BY DEF DirectivesPaid
  <2>1. /\ disk.step = goal.step /\ directives <= goal.step + resumes + Cardinality(Spent)
    BY <1>1, <1>2 DEF BudgetInv, DirectivesPaid, StepPays
  <2>2. /\ disk'.step = goal'.step
        /\ \/ directives' + goal.step + resumes <= directives + goal'.step + resumes'
           \/ /\ ReadReport /\ resumes' = resumes
              /\ directives' <= directives + 1 /\ goal.step <= goal'.step
    BY <1>1, <2>1 DEF StepPays
  <2>3. Cardinality(Spent) <= Cardinality(Spent')
    BY <1>2, <1>4, FS_Subset
  <2>4. ReadReport => Cardinality(Spent) + 1 <= Cardinality(Spent')
    <3> SUFFICES ASSUME ReadReport PROVE Cardinality(Spent) + 1 <= Cardinality(Spent')
      OBVIOUS
    <3>1. PICK b \in Batches : b \notin Spent /\ b \in Spent'
      BY <1>2, ReportIsSpent
    <3>2. Spent \cup {b} \subseteq Spent'
      BY <1>2, <3>1
    <3>3. Cardinality(Spent \cup {b}) = Cardinality(Spent) + 1
      BY <1>4, <3>1, FS_AddElement
    <3> QED
      BY <1>4, <3>2, <3>3, FS_Subset
  <2>5. /\ directives \in Nat /\ directives' \in Nat /\ goal.step \in Nat /\ goal'.step \in Nat
        /\ resumes \in Nat /\ resumes' \in Nat
    BY <1>1, <1>3, GoalAssumption DEF GoalTyped, GoalSet, BudgetInv, StepPays
  <2>6. \A d, d1, s, s1, r, r1, c, c1 \in Nat :
          /\ d <= s + r + c /\ c <= c1
          /\ \/ d1 + s + r <= d + s1 + r1
             \/ r1 = r /\ d1 <= d + 1 /\ s <= s1 /\ c + 1 <= c1
          => d1 <= s1 + r1 + c1
    OBVIOUS
  <2> QED
    BY <1>4, <2>1, <2>2, <2>3, <2>4, <2>5, <2>6
<1> QED
  BY <1>1, <1>2, <1>5 DEF BudgetInv, StepPays

\* Initially nothing was sent.
LEMMA BudgetInit == Init => BudgetInv
<1> SUFFICES ASSUME Init PROVE BudgetInv
  OBVIOUS
<1> USE DEF Init
<1>1. Len(inbox) = 0 /\ OneReport
  BY DEF OneReport
<1>2. FlowInv
  BY GoalInit
<1>3. Cardinality(Spent) \in Nat
  BY <1>2, SpentFinite
<1>4. DirectivesPaid
  BY <1>3 DEF DirectivesPaid, NoGoal, EmptyFile
<1> QED
  BY <1>1, <1>4 DEF BudgetInv, NoGoal, EmptyFile

\* What the ceiling on turns comes to (goal.rs: advance, resume_after_batch): however turns,
\* reports, restarts and resumes come, the driver sends at most max_steps directives and one
\* for each goal_resume and each batch of the conductor, as long as no save of either driver
\* was lost.
THEOREM GoalTurnsBudgeted == Spec => []TurnsAreBudgeted
<1>1. GoalTyped /\ FlowInv /\ BudgetInv => TurnsAreBudgeted
  <2> SUFFICES ASSUME GoalTyped, FlowInv, BudgetInv, ~lossy, lost = 0
               PROVE  directives <= MaxSteps + resumes + Cardinality(fanned)
    BY DEF TurnsAreBudgeted
  <2>1. directives <= goal.step + resumes + Cardinality(Spent)
    BY DEF BudgetInv, DirectivesPaid
  <2>2. /\ directives \in Nat /\ resumes \in Nat /\ goal.step \in 0..MaxSteps
    BY DEF GoalTyped, GoalSet, BudgetInv
  <2>3. /\ Cardinality(Spent) \in Nat /\ Cardinality(fanned) \in Nat
        /\ Cardinality(Spent) <= Cardinality(fanned)
    BY SpentFinite
  <2> QED
    BY <2>1, <2>2, <2>3, GoalAssumption
<1> QED
  BY <1>1, GoalInvariant, BudgetInit, BudgetInductive, PTL DEF Spec
=============================================================================

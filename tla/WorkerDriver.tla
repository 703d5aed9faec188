---------------------------- MODULE WorkerDriver ----------------------------
(***************************************************************************)
(* The worker driver (agentd/src/worker.rs): a conductor fans a batch of    *)
(* tasks out to workers, each a session of its own.  The driver owns the    *)
(* worker map and the batch ledger, admits workers while slots remain,      *)
(* learns from the broadcast what happens on their sessions, applies the    *)
(* verdict a worker reports when its turn completes, reviews stalled and    *)
(* idle workers on a tick, and reports each batch once to its conductor.    *)
(*                                                                         *)
(* Every handler is one action, its admission pass, its batch check and its *)
(* save included; a save may fail ("state still in RAM") or be missed by a  *)
(* crash inside the handler, which comes to the same: the file is old.      *)
(* That a deadline has passed is noticed on a tick here: a handler whose    *)
(* own batch check notices it is that handler followed by the tick.         *)
(*                                                                         *)
(* The sessions are here as the driver sees them: a turn runs or waits for  *)
(* an approval, prompts queue behind it (SessionRouter), and what happens   *)
(* reaches the driver in order, with a delay, and unless it lags.           *)
(* Mandala cells, remote rows and model pins are left out.                  *)
(***************************************************************************)
EXTENDS Naturals, Sequences, FiniteSets

CONSTANTS
  MaxWorkers,     \* bound: workers minted
  Cap,            \* AGENTD_WORKER_CAP
  Ceiling,        \* id -> steps the worker may take
  Sizes,          \* sizes of the batches
  Yolo,           \* what a fanout may ask for: TRUE, FALSE
  MaxBacklog,     \* bound: events the sessions send ahead of the driver
  MaxDisturbances,\* bound: the disturbances counted below, in all
  MaxRestarts     \* bound: restarts of the daemon

ASSUME WorkerAssumption ==
  /\ MaxWorkers \in Nat \ {0} /\ Cap \in Nat \ {0} /\ Ceiling \in [1..MaxWorkers -> Nat \ {0}]
  /\ Sizes \subseteq 1..MaxWorkers
  /\ Yolo \subseteq BOOLEAN /\ MaxBacklog \in Nat \ {0} /\ MaxDisturbances \in Nat
  /\ MaxRestarts \in Nat

Ids == 1..MaxWorkers
Batches == 1..MaxWorkers

Terminal == {"Done", "Failed", "Cancelled"}
WorkerStates == {"none", "Queued", "Running", "Blocked", "Idle", "Parked"} \cup Terminal
Verdicts == {"continue", "done", "blocked", "yield"}

VARIABLES
  workers,   \* id -> the driver's record
  batches,   \* batch -> "none", "open", "reported"
  nextId, nextBatch,
  disk,      \* worker_txn.json
  armed,     \* worker sessions in the auto-approve set
  turn,      \* id -> the turn of its session: "none", "running", "asking"
  queue,     \* id -> prompts queued behind that turn
  inbox,     \* what the driver has yet to read from the broadcast
  acked,     \* history: ids the conductor was given
  told,      \* history: id -> terminal state in the batch report, or "none"
  reports,   \* history: batch -> reports sent
  sends,     \* messages sent to worker sessions
  answers,   \* turns that failed, approval cards shown, and answers to no card
  stops,     \* turns cancelled by the operator
  lags,      \* events the driver lost
  lostSaves, \* saves that did not reach the disk
  restarts   \* restarts of the daemon

sessionVars == <<turn, queue>>
history == <<acked, told, reports>>
bounds == <<sends, answers, stops, lags, lostSaves, restarts>>
driverVars == <<workers, batches, nextId, nextBatch, disk, armed>>
vars == <<workers, batches, nextId, nextBatch, disk, armed, turn, queue, inbox, acked, told,
                reports, sends, answers, stops, lags, lostSaves, restarts>>

NoWorker == [batch |-> 0, state |-> "none", step |-> 0, inflight |-> FALSE,
             pending |-> "none", errored |-> FALSE, yolo |-> FALSE]

Disturbable == sends + answers + stops + lags + lostSaves < MaxDisturbances

\* mint_local_worker.
Minted(b, yolo) == [NoWorker EXCEPT !.batch = b, !.state = "Queued", !.step = 1, !.yolo = yolo]

Init ==
  /\ workers = [i \in Ids |-> NoWorker]
  /\ batches = [b \in Batches |-> "none"]
  /\ nextId = 1 /\ nextBatch = 1
  /\ disk = [workers |-> [i \in Ids |-> NoWorker], batches |-> [b \in Batches |-> "none"]]
  /\ armed = {}
  /\ turn = [i \in Ids |-> "none"] /\ queue = [i \in Ids |-> 0]
  /\ inbox = <<>>
  /\ acked = {} /\ told = [i \in Ids |-> "none"] /\ reports = [b \in Batches |-> 0]
  /\ sends = 0 /\ answers = 0 /\ stops = 0 /\ lags = 0 /\ lostSaves = 0 /\ restarts = 0

-----------------------------------------------------------------------------
(* The driver's passes, as functions of the worker map.                     *)

IsTerminal(w) == w.state \in Terminal

HoldsSlot(w) == w.state = "Running" \/ (w.state = "Blocked" /\ w.inflight)

SlotsUsed(ws) == Cardinality({i \in Ids : HoldsSlot(ws[i])})

Queued(ws) == {i \in Ids : ws[i].state = "Queued"}

\* admit_queued: the lowest queued ids, while slots remain.
Admitted(ws) ==
  {i \in Queued(ws) : SlotsUsed(ws) + Cardinality({j \in Queued(ws) : j <= i}) <= Cap}

Started(w) == [w EXCEPT !.state = "Running", !.inflight = TRUE, !.errored = FALSE]

Admit(ws) ==
  LET new == Admitted(ws)
  IN [i \in Ids |-> IF i \in new THEN Started(ws[i]) ELSE ws[i]]

Members(ws, b) == {i \in Ids : ws[i].batch = b}

AllTerminal(ws, b) == Members(ws, b) # {} /\ \A i \in Members(ws, b) : IsTerminal(ws[i])

\* Mutant of Due: the deadline is not looked at.
DueWhenTerminal(ws, expired) == {b \in Batches : batches[b] = "open" /\ AllTerminal(ws, b)}

\* check_batches: every member is terminal, or the deadline has passed.
Due(ws, expired) ==
  {b \in Batches : batches[b] = "open" /\ (b \in expired \/ AllTerminal(ws, b))}

\* Mutant of Snapshot: that a batch was reported is not saved.
SnapshotForgetsReports(ws, bs) ==
  [workers |-> [i \in Ids |-> [ws[i] EXCEPT !.inflight = FALSE, !.pending = "none",
                                            !.errored = FALSE]],
   batches |-> [b \in Batches |-> IF bs[b] = "none" THEN "none" ELSE "open"]]

\* The file drops what is transient.
Snapshot(ws, bs) ==
  [workers |-> [i \in Ids |-> [ws[i] EXCEPT !.inflight = FALSE, !.pending = "none",
                                            !.errored = FALSE]],
   batches |-> bs]

\* save_worker_state, best effort.
Save(ws, bs) ==
  \/ disk' = Snapshot(ws, bs) /\ UNCHANGED lostSaves
  \/ Disturbable /\ lostSaves' = lostSaves + 1 /\ UNCHANGED disk

Event(kind, i) == [kind |-> kind, worker |-> i]

\* The ids of S in ascending order.
InOrder(S) ==
  CHOOSE s \in [1..Cardinality(S) -> S] : \A m, n \in 1..Cardinality(S) : m < n => s[m] < s[n]

Prompts(S) == [k \in 1..Cardinality(S) |-> Event("UserPrompt", InOrder(S)[k])]

\* A prompt on the session of each id of S: it runs, or queues.
Prompted(S) ==
  /\ turn' = [i \in Ids |-> IF i \in S /\ turn[i] = "none" THEN "running" ELSE turn[i]]
  /\ queue' = [i \in Ids |-> IF i \in S /\ turn[i] # "none" THEN queue[i] + 1 ELSE queue[i]]

\* check_batches: each due batch is reported, rows as they stand.
ReportBatches(ws, due) ==
  /\ batches' = [b \in Batches |-> IF b \in due THEN "reported" ELSE batches[b]]
  /\ reports' = [b \in Batches |-> IF b \in due THEN reports[b] + 1 ELSE reports[b]]
  /\ told' = [i \in Ids |-> IF ws[i].batch \in due
                              THEN IF IsTerminal(ws[i]) THEN ws[i].state ELSE "none"
                              ELSE told[i]]

\* The tail of a handler that leaves the map ws, the sessions of grants armed,
\* events rest to read, and a directive for each id of next: admit, check the
\* batches, save.
Settle(ws, grants, rest, next, expired) ==
  LET new == Admitted(ws)
      all == Admit(ws)
  IN /\ workers' = all
     /\ armed' = grants \cup {i \in new : all[i].yolo}
     /\ Prompted(next \cup new)
     /\ inbox' = rest \o Prompts(next) \o Prompts(new)
     /\ ReportBatches(all, Due(all, expired))
     /\ Save(all, batches')
     /\ UNCHANGED <<nextId, nextBatch, acked, sends, answers, stops, lags, restarts>>

-----------------------------------------------------------------------------
(* What the sessions do.                                                    *)

KeepsUp == Len(inbox) < MaxBacklog

\* The turn of i is over, the next queued prompt runs.
TurnEnds(i, events) ==
  /\ turn' = [turn EXCEPT ![i] = IF queue[i] > 0 THEN "running" ELSE "none"]
  /\ queue' = [queue EXCEPT ![i] = IF @ > 0 THEN @ - 1 ELSE 0]
  /\ inbox' = inbox \o events

EndTurn(i) ==
  /\ turn[i] = "running" /\ KeepsUp
  /\ TurnEnds(i, <<Event("TurnComplete", i)>>)
  /\ UNCHANGED <<driverVars, history, bounds>>

FailTurn(i) ==
  /\ turn[i] = "running" /\ Disturbable /\ KeepsUp
  /\ answers' = answers + 1
  /\ TurnEnds(i, <<Event("Error", i), Event("TurnComplete", i)>>)
  /\ UNCHANGED <<driverVars, history, sends, stops, lags, lostSaves, restarts>>

\* The turn asks for an approval ...
AskApproval(i) ==
  /\ turn[i] = "running" /\ Disturbable /\ KeepsUp
  /\ answers' = answers + 1
  /\ turn' = [turn EXCEPT ![i] = "asking"]
  /\ inbox' = Append(inbox, Event("ApprovalPending", i))
  /\ UNCHANGED <<queue, driverVars, history, sends, stops, lags, lostSaves, restarts>>

\* ... which is answered; an answer to no card is an event too ...
AnswerCard(i) ==
  /\ workers[i].state # "none" /\ KeepsUp
  /\ turn[i] # "asking" => Disturbable
  /\ answers' = IF turn[i] = "asking" THEN answers ELSE answers + 1
  /\ turn' = [turn EXCEPT ![i] = IF @ = "asking" THEN "running" ELSE @]
  /\ inbox' = Append(inbox, Event("UserApproval", i))
  /\ UNCHANGED <<queue, driverVars, history, sends, stops, lags, lostSaves, restarts>>

\* ... or the turn gives up waiting.
GiveUpAsking(i) ==
  /\ turn[i] = "asking"
  /\ turn' = [turn EXCEPT ![i] = "running"]
  /\ UNCHANGED <<queue, inbox, driverVars, history, bounds>>

\* The operator, the conductor or a sub-batch's report writes to the session.
Send(i) ==
  /\ workers[i].state # "none" /\ Disturbable /\ KeepsUp
  /\ sends' = sends + 1
  /\ Prompted({i})
  /\ inbox' = Append(inbox, Event("UserPrompt", i))
  /\ UNCHANGED <<driverVars, history, answers, stops, lags, lostSaves, restarts>>

\* The router's user_cancel: no TurnComplete.
Aborted(S) ==
  /\ turn' = [i \in Ids |-> IF i \in S THEN "none" ELSE turn[i]]
  /\ queue' = [i \in Ids |-> IF i \in S THEN 0 ELSE queue[i]]

StopTurn(i) ==
  /\ turn[i] # "none" /\ Disturbable
  /\ stops' = stops + 1
  /\ Aborted({i})
  /\ UNCHANGED <<inbox, driverVars, history, sends, answers, lags, lostSaves, restarts>>

-----------------------------------------------------------------------------
(* Requests.                                                                *)

\* Mutant of Fanout: a batch that could not be persisted is acknowledged.
FanoutAcksAnyway(n, yolo) ==
  LET new == nextId..(nextId + n - 1)
      ws == [i \in Ids |-> IF i \in new THEN Minted(nextBatch, yolo) ELSE workers[i]]
      all == Admit(ws)
  IN /\ nextId + n - 1 <= MaxWorkers
     /\ nextId' = nextId + n /\ nextBatch' = nextBatch + 1
     /\ batches' = [batches EXCEPT ![nextBatch] = "open"]
     /\ workers' = all
     /\ armed' = armed \cup {i \in Admitted(ws) : all[i].yolo}
     /\ Prompted(Admitted(ws))
     /\ inbox' = inbox \o Prompts(Admitted(ws))
     /\ acked' = acked \cup new
     /\ Save(all, batches')
     /\ UNCHANGED <<told, reports, sends, answers, stops, lags, restarts>>

\* task_fanout: the batch and its workers are minted and persisted, then the
\* conductor is given the ids and the queue is admitted.  If the batch cannot be
\* persisted it is taken back and refused.
Fanout(n, yolo) ==
  LET new == nextId..(nextId + n - 1)
      ws == [i \in Ids |-> IF i \in new THEN Minted(nextBatch, yolo) ELSE workers[i]]
      all == Admit(ws)
  IN /\ nextId + n - 1 <= MaxWorkers
     /\ nextId' = nextId + n /\ nextBatch' = nextBatch + 1
     /\ \/ /\ batches' = [batches EXCEPT ![nextBatch] = "open"]
           /\ workers' = all
           /\ armed' = armed \cup {i \in Admitted(ws) : all[i].yolo}
           /\ Prompted(Admitted(ws))
           /\ inbox' = inbox \o Prompts(Admitted(ws))
           /\ acked' = acked \cup new
           /\ \/ disk' = Snapshot(all, batches') /\ UNCHANGED lostSaves
              \/ /\ Disturbable /\ lostSaves' = lostSaves + 1
                 /\ disk' = Snapshot(ws, batches')
        \/ /\ Disturbable /\ lostSaves' = lostSaves + 1
           /\ UNCHANGED <<batches, workers, armed, sessionVars, inbox, acked, disk>>
     /\ UNCHANGED <<told, reports, sends, answers, stops, lags, restarts>>

\* worker_report, while the turn waits for its result: recorded, or refused.
RecordReport(i, v) ==
  /\ turn[i] = "running"
  /\ workers' = IF workers[i].state \in {"Running", "Blocked"}
                  THEN [workers EXCEPT ![i].pending = v] ELSE workers
  /\ UNCHANGED <<batches, nextId, nextBatch, disk, armed, sessionVars, inbox, history, bounds>>

Cancelled(w) == [w EXCEPT !.state = "Cancelled", !.inflight = FALSE, !.pending = "none"]

\* cancel_workers, and what its callers do after it.
CancelWorkers(S, rest) ==
  LET live == {i \in S : workers[i].state # "none" /\ ~IsTerminal(workers[i])}
      ws == [i \in Ids |-> IF i \in live THEN Cancelled(workers[i]) ELSE workers[i]]
      new == Admitted(ws)
      all == Admit(ws)
      stop == {i \in live : workers[i].inflight}
  IN /\ workers' = all
     /\ armed' = (armed \ live) \cup {i \in new : all[i].yolo}
     /\ turn' = [i \in Ids |-> IF i \in stop THEN "none"
                               ELSE IF i \in new /\ turn[i] = "none" THEN "running" ELSE turn[i]]
     /\ queue' = [i \in Ids |-> IF i \in stop THEN 0
                                ELSE IF i \in new /\ turn[i] # "none" THEN queue[i] + 1 ELSE queue[i]]
     /\ inbox' = rest \o Prompts(new)
     /\ ReportBatches(all, Due(all, {}))
     /\ Save(all, batches')
     /\ UNCHANGED <<nextId, nextBatch, acked, sends, answers, stops, lags, restarts>>

\* worker_cancel of a worker or a batch; refused if nothing matches.
CancelRequest(S) ==
  /\ \E i \in S : workers[i].state # "none" /\ ~IsTerminal(workers[i])
  /\ CancelWorkers(S, inbox)

-----------------------------------------------------------------------------
(* The broadcast.                                                           *)

Reads(kind, i) == inbox # <<>> /\ Head(inbox) = Event(kind, i)

\* Mutant of Applied: one step too many.
AppliedPastCeiling(i) ==
  LET w == workers[i]
      over == [w EXCEPT !.inflight = FALSE, !.pending = "none"]
  IN IF w.pending = "continue" /\ w.step <= Ceiling[i]
       THEN [over EXCEPT !.step = w.step + 1, !.inflight = TRUE]
       ELSE [over EXCEPT !.state = "Done"]

\* The record of i after a completed turn: its verdict is applied.
Applied(i) ==
  LET w == workers[i]
      v == w.pending
      over == [w EXCEPT !.inflight = FALSE, !.pending = "none"]
  IN CASE v = "done" -> [over EXCEPT !.state = "Done"]
       [] v = "blocked" -> [over EXCEPT !.state = "Blocked"]
       [] v = "yield" -> [over EXCEPT !.state = "Idle"]
       [] v = "continue" /\ w.step >= Ceiling[i] -> [over EXCEPT !.state = "Done"]
       [] v = "continue" /\ w.step < Ceiling[i] ->
            [over EXCEPT !.step = w.step + 1, !.inflight = TRUE]
       [] v = "none" -> [over EXCEPT !.state = IF w.errored THEN "Failed" ELSE "Done"]

Ignore == inbox' = Tail(inbox) /\ UNCHANGED <<driverVars, sessionVars, history, bounds>>

\* advance: the completed turn of a running or blocked worker.
Advance(i) ==
  /\ Reads("TurnComplete", i)
  /\ IF workers[i].state \notin {"Running", "Blocked"}
       THEN Ignore
       ELSE LET w == Applied(i)
            IN Settle([workers EXCEPT ![i] = w],
                      IF IsTerminal(w) THEN armed \ {i} ELSE armed,
                      Tail(inbox), IF w.inflight THEN {i} ELSE {}, {})

\* A handler that changes the record of i and saves.
Update(i, w) ==
  /\ workers' = [workers EXCEPT ![i] = w]
  /\ inbox' = Tail(inbox)
  /\ Save(workers', batches)
  /\ UNCHANGED <<batches, nextId, nextBatch, armed, sessionVars, history, sends, answers, stops,
                 lags, restarts>>

Wakeable(w) == w.state \in {"Parked", "Idle"} \/ (w.state = "Blocked" /\ ~w.inflight)

\* Mutant of WakeOnSend: a finished worker is woken too.
WakeAnyone(i) ==
  /\ Reads("UserPrompt", i)
  /\ IF workers[i].state \notin {"Queued", "Running"} THEN Update(i, Started(workers[i])) ELSE Ignore

\* wake_on_send: the one way out of Parked; it bypasses the cap.
WakeOnSend(i) ==
  /\ Reads("UserPrompt", i)
  /\ IF Wakeable(workers[i]) THEN Update(i, Started(workers[i])) ELSE Ignore

BlockOnApproval(i) ==
  /\ Reads("ApprovalPending", i)
  /\ IF workers[i].state = "Running"
       THEN Update(i, [workers[i] EXCEPT !.state = "Blocked"]) ELSE Ignore

\* resume_from_approval: any answer on the session of a blocked worker.
ResumeFromApproval(i) ==
  /\ Reads("UserApproval", i)
  /\ IF workers[i].state = "Blocked"
       THEN Update(i, [workers[i] EXCEPT !.state = "Running"]) ELSE Ignore

NoteError(i) ==
  /\ Reads("Error", i)
  /\ workers' = [workers EXCEPT ![i].errored = TRUE]
  /\ inbox' = Tail(inbox)
  /\ UNCHANGED <<batches, nextId, nextBatch, disk, armed, sessionVars, history, bounds>>

\* The conductor's goal was cancelled: its workers go with it.
CancelCascade ==
  /\ Reads("GoalCancelled", 0)
  /\ IF \E i \in Ids : workers[i].state # "none" /\ ~IsTerminal(workers[i])
       THEN CancelWorkers(Ids, Tail(inbox)) ELSE Ignore

\* The receiver lagged: the event is lost.
Lag ==
  /\ inbox # <<>> /\ Disturbable
  /\ lags' = lags + 1
  /\ inbox' = Tail(inbox)
  /\ UNCHANGED <<driverVars, sessionVars, history, sends, answers, stops, lostSaves, restarts>>

ReadEvent ==
  \/ \E i \in Ids : \/ Advance(i) \/ WakeOnSend(i) \/ BlockOnApproval(i)
                    \/ ResumeFromApproval(i) \/ NoteError(i)
  \/ CancelCascade

\* The conductor's goal is cancelled.
CancelGoal ==
  /\ Disturbable /\ KeepsUp
  /\ stops' = stops + 1
  /\ inbox' = Append(inbox, Event("GoalCancelled", 0))
  /\ UNCHANGED <<driverVars, sessionVars, history, sends, answers, lags, lostSaves, restarts>>

-----------------------------------------------------------------------------
(* The tick.                                                                *)

\* Mutant of ReviewFail: the slot it frees is not given away.
ReviewFailKeepsTheSlot(i) ==
  /\ workers[i].state = "Running"
  /\ workers' = [workers EXCEPT ![i].state = "Failed", ![i].inflight = FALSE]
  /\ armed' = armed \ {i}
  /\ ReportBatches(workers', Due(workers', {}))
  /\ Save(workers', batches')
  /\ UNCHANGED <<nextId, nextBatch, sessionVars, inbox, acked, sends, answers, stops, lags, restarts>>

\* A running worker has been in its step for longer than the step timeout.
ReviewFail(i) ==
  /\ workers[i].state = "Running"
  /\ Settle([workers EXCEPT ![i].state = "Failed", ![i].inflight = FALSE],
            armed \ {i}, inbox, {}, {})

\* Mutant of ReviewPark: the session stays armed.
ReviewParkArmed(i) ==
  /\ workers[i].state = "Idle" \/ (workers[i].state = "Blocked" /\ ~workers[i].inflight)
  /\ workers' = [workers EXCEPT ![i].state = "Parked"]
  /\ ReportBatches(workers', Due(workers', {}))
  /\ Save(workers', batches')
  /\ UNCHANGED <<nextId, nextBatch, armed, sessionVars, inbox, acked, sends, answers, stops, lags, restarts>>

\* A worker has waited for input for longer than the idle time.
ReviewPark(i) ==
  /\ workers[i].state = "Idle" \/ (workers[i].state = "Blocked" /\ ~workers[i].inflight)
  /\ workers' = [workers EXCEPT ![i].state = "Parked"]
  /\ armed' = armed \ {i}
  /\ ReportBatches(workers', Due(workers', {}))
  /\ Save(workers', batches')
  /\ UNCHANGED <<nextId, nextBatch, sessionVars, inbox, acked, sends, answers, stops, lags, restarts>>

\* The deadline of batch b has passed.
DeadlinePasses(b) ==
  /\ batches[b] = "open"
  /\ ReportBatches(workers, Due(workers, {b}))
  /\ Save(workers, batches')
  /\ UNCHANGED <<workers, nextId, nextBatch, armed, sessionVars, inbox, acked, sends, answers, stops,
                 lags, restarts>>

-----------------------------------------------------------------------------
\* parked_form.
ParkedForm(w) == IF w.state \in Terminal \cup {"none"} THEN w ELSE [w EXCEPT !.state = "Parked"]

\* hydrate_workers, hydrate_batches: every live worker parks, the counters are
\* seeded past what the file holds.
Reload ==
  /\ workers' = [i \in Ids |-> ParkedForm(disk.workers[i])]
  /\ batches' = disk.batches
  /\ nextId' = 1 + (CHOOSE n \in 0..MaxWorkers :
                      /\ n = 0 \/ disk.workers[n].state # "none"
                      /\ \A i \in Ids : disk.workers[i].state # "none" => i <= n)
  /\ nextBatch' = 1 + (CHOOSE n \in 0..MaxWorkers :
                         /\ n = 0 \/ disk.batches[n] # "none"
                         /\ \A b \in Batches : disk.batches[b] # "none" => b <= n)

\* The daemon stops and starts again.  The transaction file holds workers and
\* batches together, so no row is without its batch: reconcile_batches, and the
\* mirror files read when there is no transaction file, are left out.
Restart ==
  /\ restarts < MaxRestarts
  /\ restarts' = restarts + 1
  /\ Reload
  /\ armed' = {}
  /\ turn' = [i \in Ids |-> "none"] /\ queue' = [i \in Ids |-> 0]
  /\ inbox' = <<>>
  /\ UNCHANGED <<disk, history, sends, answers, stops, lags, lostSaves>>

Disturbed(i) == FailTurn(i) \/ AskApproval(i) \/ AnswerCard(i) \/ Send(i) \/ StopTurn(i)

Turns == \E i \in Ids : EndTurn(i) \/ GiveUpAsking(i)

Tick ==
  \/ \E i \in Ids : ReviewFail(i) \/ ReviewPark(i)
  \/ \E b \in Batches : DeadlinePasses(b)

Next ==
  \/ \E n \in Sizes, yolo \in Yolo : Fanout(n, yolo)
  \/ \E i \in Ids : Disturbed(i) \/ CancelRequest({i}) \/ \E v \in Verdicts : RecordReport(i, v)
  \/ \E b \in Batches : CancelRequest(Members(workers, b))
  \/ Turns \/ Tick \/ ReadEvent \/ Lag \/ CancelGoal \/ Restart

Spec == Init /\ [][Next]_vars

\* Approval waits give up (the timeout of run_turn's wait), the driver reads its
\* events, and its tick comes round.  A turn need not end: the provider's stream
\* has no timeout.
FairSpec ==
  Spec /\ WF_vars(\E i \in Ids : GiveUpAsking(i)) /\ WF_vars(ReadEvent) /\ WF_vars(Tick)

-----------------------------------------------------------------------------
(* Properties.                                                              *)

WorkerRecords ==
  [batch : 0..MaxWorkers, state : WorkerStates, step : Nat, inflight : BOOLEAN,
   pending : Verdicts \cup {"none"}, errored : BOOLEAN, yolo : BOOLEAN]

BatchStates == {"none", "open", "reported"}

Events ==
  [kind : {"TurnComplete", "Error", "ApprovalPending", "UserApproval", "UserPrompt"},
   worker : Ids] \cup {Event("GoalCancelled", 0)}

(* The driver's maps, the file and the sessions have their types, and no    *)
(* worker is ever past the ceiling of its steps, in memory or on disk.      *)
TypeOK ==
  /\ \A i \in Ids : workers[i].step <= Ceiling[i] /\ disk.workers[i].step <= Ceiling[i]
  /\ workers \in [Ids -> WorkerRecords] /\ batches \in [Batches -> BatchStates]
  /\ nextId \in 1..(MaxWorkers + 1) /\ nextBatch \in 1..(MaxWorkers + 1)
  /\ disk \in [workers : [Ids -> WorkerRecords], batches : [Batches -> BatchStates]]
  /\ armed \subseteq Ids
  /\ turn \in [Ids -> {"none", "running", "asking"}] /\ queue \in [Ids -> Nat]
  /\ inbox \in Seq(Events)
  /\ acked \subseteq Ids /\ told \in [Ids -> Terminal \cup {"none"}]
  /\ reports \in [Batches -> Nat]
  /\ sends \in 0..MaxDisturbances /\ answers \in 0..MaxDisturbances /\ stops \in 0..MaxDisturbances
  /\ lags \in 0..MaxDisturbances /\ lostSaves \in 0..MaxDisturbances /\ restarts \in 0..MaxRestarts

(* "Written before any fanout ack so a crash cannot leave the conductor     *)
(* holding ids that disk never recorded": every id it was given is in the   *)
(* file, with its batch, whatever saves fail later.                         *)
AckedIsDurable ==
  \A i \in acked : /\ disk.workers[i].state # "none"
                   /\ disk.batches[disk.workers[i].batch] # "none"

(* "shared state exactly mirrors live residency": no session stays armed    *)
(* for auto-approval once its worker is parked, finished or not yet         *)
(* admitted, whichever handler took it there.                               *)
GrantFollowsResidency ==
  \A i \in armed : workers[i].yolo /\ workers[i].state \in {"Running", "Blocked", "Idle"}

(* A finished worker stays finished: no late completion, send, answer,      *)
(* cancel, review or restart changes an outcome that is on disk.            *)
TerminalIsForever ==
  [][\A i \in Ids : disk.workers[i].state \in Terminal =>
        /\ disk'.workers[i].state = disk.workers[i].state
        /\ workers'[i].state = disk.workers[i].state]_vars

(* "One report per batch", over restarts too, and what it says of a         *)
(* finished worker remains true (unless a save was lost).                   *)
OneTruthfulReport ==
  lostSaves = 0 =>
    /\ \A b \in Batches : reports[b] <= 1
    /\ \A i \in Ids : told[i] \in Terminal => workers[i].state = told[i]

(* "a parked-by-restart batch still reports": the driver keeps the ledger   *)
(* BatchLedger describes, and every batch is reported in the end, bounded by *)
(* its deadline, whatever its workers do.                                    *)
Ledger == INSTANCE BatchLedger
            WITH ledger <- batches, boots <- restarts, lossy <- (lostSaves > 0)

KeepsTheLedger == Ledger!FairSpec

\* The turn of a worker that the driver takes to wait for an approval is back at
\* the provider: the stall clock does not run for it.
Unwatched(i) ==
  workers[i].state = "Blocked" /\ workers[i].inflight /\ turn[i] = "running"

(* "freed slots pull from it": no worker is queued for ever, it is admitted,  *)
(* cancelled or parked by a restart, however long a provider's stream stalls: *)
(* the stall clock fails the worker that holds the slot.  Excepted: a stream  *)
(* that stalls for ever under a worker that is still marked Blocked, which    *)
(* that clock passes over; an event the driver lost; and a turn the operator  *)
(* stopped, which sends no completion - each of them keeps its slot.         *)
QueuedWorkerStarts ==
  \A i \in Ids :
    <>[](workers[i].state = "Queued" /\ lags = 0 /\ stops = 0) =>
      \E j \in Ids : <>[]Unwatched(j)
=============================================================================

# A TLA+ model of ApexOS-RS

ApexOS-RS runs an agent on a small device: a daemon (`agentd`) keeps conversations, lets a
language model call tools, asks people before it runs dangerous ones, and stays useful over
crashes, updates and bad radio links. This directory holds TLA+ modules for the parts of
that daemon where order and failure decide correctness, TLC configurations that check them
on small instances, and TLAPS proofs for any size. Line numbers refer to `src/`; the table
that connects each definition to its lines is `map` in `PROJECT.json`. In paths below, `A`
stands for `src/agentd/crates`.

## 1. The system's parts

| Part | State it keeps | Operations | What makes it correct |
|---|---|---|---|
| History functions (`A/core/src/history.rs`) | none | `trim_history`, `repair_history` | the provider accepts the result; nothing said is lost; the trim notice counts right |
| Session router and turn gate (`A/agentd/src/main.rs`) | `TurnGate` (busy, queued, retired), `histories`, `abort_handles`, generations | prompt, turn done, cancel, delete, archive, park, revive | one turn per session; each can be cancelled; a retired session stays stopped; no turn wipes out another |
| Session store (`A/agentd/src/session_store.rs`) | `sessions/<id>.jsonl`, tombstones | append, load, delete, archive | what is remembered survives a restart, in an acceptable form |
| Turn loop (`A/agent/src/turn.rs`) | ids, the calls it waits for, its belief about each | call tools, wait, time out, lag | does not wait for ever for results; tells the model no falsehood |
| Approval gate (`A/plugins/src/supervisor.rs`, `policy.rs`) | `pending_approvals`, auto-approving sessions | request, answer, purge, dispatch | a guarded tool runs at most once, and only on a grant |
| Bus (`A/core/src/bus.rs`) | inbox, command lanes, broadcast | emit, subscribe | commands arrive in order and are not lost |
| Gateway (`A/gateway/src`) | sockets, each bound to a session; tokens; peers | client events, mesh routes | a client speaks only for its session |
| Plugin lifecycle, MCP client (`supervisor.rs`, `mcp.rs`, `tool_claim.rs`) | `configs`, `plugins`, `tool_registry`, pending requests; the router's `tool_reg` | spawn, handshake, claim names, die, restart, kill, hot reload, call | a name leads to a process of its owner; callers are answered; a plugin that is to be restarted comes back |
| Workers and batches (`A/agentd/src/worker.rs`) | worker records, batches, `worker_txn.json`, the auto-approve set | fan out, admit, verdict, send, park, review, report, reload | what was acknowledged is durable; outcomes are final; slots are not leaked; every batch is reported |
| Goals (`A/agentd/src/goal.rs`) | goal record, `goals.json`, pending and done batches | create, step, resume, cancel, stall, reload | a conductor is held for its batches, and fails rather than hang |
| Mandala, remote workers (`mandala.rs`, `remote.rs`) | plans, barriers, rows of other nodes | - | not modelled yet |
| Sensor alerts (`A/agentd/src/main.rs`) | `elevated_since`, `last_alert` | reading | a sustained condition fires once per cooldown, a transient never |
| Scheduler | schedule records | tick, add, remove | nothing fires twice |
| Self-update (`src/deploy/*.sh`, `self_update.rs`, `health.rs`) | request, phase file, `agentd.prev`, health and confirm markers | back up, swap, probe, roll back | a known-good binary always exists; a request is settled |
| Mesh protocol and routing (`src/apexos-mesh-proto`, `gateway/mesh*.rs`, `core/mesh_*.rs`) | partial messages, inbox, peer liveness | chunk, reassemble, acknowledge | delivered once, whole |
| Courier, evolution, session tokens | outboxes, journals, tokens | send, apply, revoke | not modelled yet, except the plugin commands evolution sends |
| Providers, council, Cerebro, tool servers, confinement, UIs, firmware | - | I/O, text, numeric scoring | not modelled |

How they interact: every component emits events into the bus inbox. `Bus::run` takes them
one at a time, hands *commands* to the supervisor's and the router's lane (bounded queues,
awaited) and broadcasts *every* event to whoever listens (a turn waiting for results, the
sockets, the drivers); a listener that is slow loses events. The router spawns a task per
turn and shares `histories`, `abort_handles` and the store with it; the supervisor spawns a
task per tool call. Cancels abort tasks at whatever await they stand at. File operations run
on the runtime's blocking pool and outlive the task that asked for them.

The hard behaviours are these: prompts, cancels, deletes and parks crossing a running turn;
an abort or a crash between two lines of one turn; appends reordered below the await; an
approval answered late, twice, by the wrong socket, after a timeout; results lost by a
lagging broadcast; a grant that outlives the turn it was for; power lost between two files
of an update; saves that fail between an acknowledgement and a restart; reports and cards of
batches overtaking completions; a death report that meets the successor of the process that
died. Each is an entry of `hazards`
in `PROJECT.json`, at its line, with the properties that watch it or a note on why none does
yet.

## 2. Modules

`History` - `history.rs` as operators. A message is a role and a sequence of blocks; a block
has a kind and a number (the identity of a text and also its size, the id of a tool call, the
count in a trim notice). `TrimHistory` and `RepairHistory` follow the two functions; their
loops are recursive *functions*, and so are the filter and the sum they use (`Kept`,
`Total`), which a proof can unfold where the library's folds are opaque to the provers. One
round of the repair loop takes the first message off its queue, with the answer it finds
further on: `Pushed` is what the round adds to the result, `Remaining` what it leaves.
`ApiValid` is the provider's rule and the reference
the algorithms are checked against: every tool call answered by the next message, results
first, none left over, no empty content, a user message first. It accepts two messages of one
role in a row, as `repair_history` does (`history.rs:290-294`, and its test at 673); other
comments disagree, see 5.

`SessionRouter` (extends `History`) - the router loop, its turn tasks, the store and the
blocking pool. `busy`, `queued`, `retired` are the turn gate; `mem` is `histories`; `disk`
the session files; `pool` the writes handed over and not carried out; `handles` the abort
handles by generation; `turn` and `work` the turn tasks' control state and locals; `rpc` the
rest of a handler with an await in its middle (cancel and retirement). Prompts are numbers,
so that a line can be recognised in a file. The history budget is 0: no trimming here.

`ApprovalGate` - one tool call from the turn that makes it to what the model is told: turns
(`pc`, `left`, `remaining`, `phase`, `told`, `inbox`), the supervisor (`lane`, `pending`,
`job`), arming (`armed`, `trusted`), sub-agents (`origin`, `depth`, `kids`), the router's
lane, and the operators (`shown`, `yes`, `no`). Tools are known by what the policy says of
them. A call's nonce is its own number, and 0 stands for a wrong or missing nonce. `ran`,
`yes` and `no` are history variables the properties speak about. The node is in suggest mode.

`TurnQueue` - the abstract promise of the turn gate: a session works on one prompt at a
time, the others wait in order of arrival, and the first of them takes the slot in the step
that frees it. `SessionRouter` instantiates it (`Queue`): what runs is read off the turn
tasks, which hand the slot back by a message, later, and may be aborted before.

`SelfUpdate` - four actors over the files of an update: agentd (`build`, `lock`, the health
marker), the watchdog script (`wd`, one value per line that touches a file or the unit), the
probation guard (`rb`) and systemd (`proc`, `limited`). `PowerLoss` can follow any step, and
tears files that are written in place. A binary is its commit.

`BatchLedger` - what a conductor may rely on: a batch exists for good, is reported, and only
after a lost save is it reported again. `WorkerDriver` implements it (`KeepsTheLedger`, with
its fairness), and `GoalDriver` is built on it (`Ledger`): the two drivers are checked one
against the other's promise instead of in one state space.

`WorkerDriver` - `worker.rs`: every handler is one action with its admission pass, its batch
check and its save; a save may be lost. Sessions are present as the driver sees them (a turn
runs, asks, or is over). `GoalDriver` - `goal.rs`: one goal, its session, its batches, the
broadcast between them (`inbox`), the file and the restart. The file is written in place and
holds every goal, so a save, for this goal or for another (`SaveForAnother`), may leave the
old file or a torn one, which `load_goals` reads as no goals at all. Each event carries the batches
fanned out when it was sent, a history variable for `HoldsForItsBatches`.

`PluginSupervisor` - the supervisor's command loop with its boot, handshake (`sv`), command
channel (`cmds`), entries (`plugins`) and registry; the processes, whose stdin stays open as
long as somebody holds the client (`ClientHeld`); the calls; and the router's list of tools
(`mirror`), fed by a broadcast of bounded capacity (`feed`). A process may answer
`tools/list` differently from its predecessor (`Offers[p]` is a set of answers). Slots for
processes are used again, and a start waits for a free one.

`MC...` modules give the constants their values; `..._proofs` modules hold the theorems.
Definitions marked *Mutant of X* are plausible errors in X, used to show that a property
can fail.

Marked external in the map: the landing of an abort, an open, a write (the tokio runtime),
systemd, and the plugin processes.

## 3. Runs

| Run | Configuration | Result |
|---|---|---|
| `history` | `MCHistory.cfg` | pass: all files of up to 4 lines out of 9, all windows of up to 4 turns |
| `router` | `MCSessionRouter.cfg` | pass: safety of gate, handles, retirement, memory and files; validity of resumed histories |
| `router_live` | `MCSessionRouterLive.cfg` | pass: the gate implements `TurnQueue`; the slot of a turn that is over or aborted comes back; a cancelled prompt is answered |
| `approval` | `MCApprovalGate.cfg` | pass: grants, at most one run, grants end with the turn |
| `approval_live` | `MCApprovalGateLive.cfg` | pass: truth of what the model is told; the wait for results ends |
| `self_update` | `MCSelfUpdate.cfg` | pass: a proven binary is always there, confirmed means it ran, one probation per confirm, requests are settled |
| `workers` | `MCWorkerDriver.cfg` | pass: durable acknowledgements, final outcomes, grants, reports; implements `BatchLedger`; the queue moves, unless an unwatched worker keeps a slot |
| `goals` | `MCGoalDriver.cfg` | pass: holds for batches, finished stays finished, settles unless it fans out for ever or its clock was left paused |
| `plugins` | `MCPluginSupervisor.cfg` | pass: names lead to their owners' processes, the router agrees, calls are answered, plugins come back |
| `stale_grant` | `MCStaleGrant.cfg` | violated: see 5 |
| `wedged_conductor` | `MCWedgedConductor.cfg` | violated: see 5 |
| `repoint` | `MCRepoint.cfg` | violated: see 5 |

**Bounds.** Four lines hold two interleaved exchanges with a lost result, the smallest case
in which `repair_history` has to reorder, synthesise and drop at once; four turns trim a
window twice, so that a notice is folded into the next. `router` has an ordinary session and
a worker, two prompts, one stop and one crash; two writes of the ordinary session may be
outstanding, which reordering needs (of the worker one; its reordering is the `history` run's
and the theorem's matter): 2.1 million states. `router_live` has one session and three
prompts, one running and two waiting, the least that tells an order of service from its
reverse. `approval` has two goal sessions, two calls and two turns: a grant of one session or
turn can be tried on another's call, and the first call can arm the session of the second.
The sessions are interchangeable there, hence the symmetry; no liveness is checked under it.
`approval_live` has a root and a sub-agent, a plain, a guarded and a spawning tool, one
answer, one cancel. `self_update` has the installed commit, a good and a broken one, all of
which may crash-loop later, two requests (the second can meet what the first left behind) and
one power loss, at any step: 1.9 million states. `workers` has a batch of two on one slot,
so that one waits for the other, one disturbance of any kind (a send, a card, a stop, a lost
event, a lost save) and one restart. `goals` has two steps and two batches, one event read
late behind another, two incidents, one lost event and one restart. A goal
can fan out at its last step, and again in the turn it is given for the report, without end
(see 5); the bound on batches would hide that, so `GoalSettles` excepts a goal that fans out
for ever in so many words. Two batches are enough for a report to come while the other batch
is open.
`plugins` has two plugins that claim one name, a child that is always restarted and a socket
that is restarted on failure, one call, one fault, one command and three processes (the one
running, its successor and one of the other plugin) over a broadcast of two events: 350
thousand states. Deadlock is not checked: all work being done, and the bounds used up, is a
proper end of every one of these.

**Fairness.** A turn may stall: the provider clients set a connect timeout only
(`anthropic.rs:83`, `oai.rs:144`), so no specification here makes the end of a model call
fair. The one wait of a turn that is bounded is the wait for tool results (`turn.rs:453`).

`SessionRouter!Fairness`: a task that can run is polled (tokio), which covers what a turn does
after `run_turn` returned and the landing of an abort (`OwnStep`), but not that `run_turn`
returns; the router finishes the handler it is in; strong fairness for `TurnDone`, since
`select!` picks among its ready branches at random. Hence `SlotComesBack` speaks of turns that
`run_turn` has left or that were aborted: a stalled stream holds its slot until somebody
cancels. Clients, parks and crashes are not fair. `ApprovalGate!FairSpec`: a turn in its wait
announces, receives and times out, and an abort lands (`TimelyStep`); the model's next reply
(`ProviderStep`) is not fair, a lag never has to happen, nobody has to answer, no tool has to
return, the supervisor may stand still, and the wait ends all the same. `SelfUpdate`: the
scripts run on, and systemd starts them while their file exists (`PathExists=`,
`OnFailure=`); nothing is asked of the daemon. `WorkerDriver`: the driver reads its channel,
its tick comes round (which judges stalled turns and passes deadlines), approval waits give
up; turns need not end. `GoalDriver`: batches are reported, which is what `workers` shows of
`BatchLedger`, the driver reads its channel and fails stalled goals; turns need not end.
`PluginSupervisor`: the handler under way goes on (sleeps end, requests time out after 1800
s), neither channel of `select!` is passed over for ever (strong fairness, since it picks at
random), sleeping and watching tasks run, and a server that is not hung leaves when its stdin
is closed. Crashes, hangs, commands and lags are never fair.

## 4. Proofs

Every invariant and every action property the runs check, `CancelledPromptIsAnswered` aside,
is also a theorem, for any sets and any bounds that satisfy the module's assumptions. So is the safety part of both refinements.
What follows says what is proved, and why the property alone is not inductive.

**The router** (`SessionRouter_proofs`, `RouterAssumption`: the bounds are numbers, there is a
session, workers are sessions, "no file" and "no history" are not sequences of messages). Five
layers, each resting on the ones before it.

1. *Gate.* `OneTurnPerSession`, `RunningTurnIsCancellable`, `RetiredSessionIsStopped`. That a
   new turn finds the slot free needs the gate (`busy` is exactly the sessions with a turn that
   still holds its slot), that its handle is its own needs that unused generations belong to no
   turn, and that a retired session starts nothing needs that its queue is empty. `GateInv` is
   their conjunction with `FreshGenerations`; one lemma per group of actions
   (`SpawnKeepsGate`, used by a prompt and by a completion, `AbortKeepsGate`, ...).
2. *Queue.* The router implements `TurnQueue` (`ServesInOrder`). A prompt maps to an arrival,
   `TurnDone` to a completion, a cancel or a retirement to a drop, a restart to forgetting,
   every other step to a stutter. Needed besides `GateInv`: what the gate calls retired is
   tombstoned (`QueueInv`), so that nothing waits behind a retired session's last turn.
3. *Histories.* `TypeOK` and `ResidentHistoryIsValid`. A turn inserts the snapshot it took
   when it started with its delta, so `StoreInv` speaks of the turn tasks' locals as well: a
   task that runs holds a non-empty acceptable snapshot, its delta is a closed exchange, files
   and pending writes hold one-block lines only. `RepairRestores` of `History_proofs` covers
   revivals and restarts. Here each action gets an *effects* lemma (`TaskEffects`,
   `SpawnEffects`, `DoneEffects`, ...), which layers 4 and 5 use again.
4. *Turns.* `NoTurnIsForgotten`. Overwriting a history is safe because whatever the session
   must know is in the snapshot of the one task that may still overwrite it (`SnapKeeps`):
   another turn could only have added to the history while holding the slot.
5. *Files.* `RememberedIsDurable`. A line comes to memory from a task, so `DurableInv` follows
   the snapshot and the delta too: a delta line is durable or the task still has to write it;
   and a line that lands finds a file, since files are made before a line is handed over and
   removed only behind a tombstone (`FileThere`). After a restart it rests on
   `RepairInventsNothing`.

**The history functions** (`History_proofs`, no assumption; `MCHistory_proofs`,
`BudgetsAssumption`: the band between the floor and the trigger of a budget has room for the
trim notice, which `sanitize_budget`'s floor of 10k tokens guarantees). For every history:
`RepairHistory` returns one the provider accepts, leaves a clean one alone, keeps every block
that is no result as often as it was there, and makes up nothing but markers (the last for
files of one-block lines, which is what the router writes). `TrimHistory` keeps a window
acceptable, its notice counts every message dropped, and a trimmed window settles. The central
notion is a *closed* segment, whose calls are answered inside it: closed segments concatenate,
each round of the repair pushes one, and the induction is on the length of the queue.
`MCHistory_proofs` carries these along files and windows of any length, with the invariant
that the notice's count and the messages behind it make up all that was ever pushed.

**The approval gate** (`ApprovalGate_proofs`, `GateAssumption`: roots and children are disjoint
and finite, bounds are numbers). `GuardedRunHasAGrant` and `CallRunsAtMostOnce` follow a call
through the places where it can be: still to be announced (`LeftInv`), in the lane
(`RequestInv`), on a card, or run (`RunInv`), each place at most once and never two of them; a
matching yes in the lane was given by an operator (`ApprovalInv`); `WorkInv` adds that
detached tasks and sub-agents work for existing calls. `ToldTheTruth` is about states long
past the telling, so its invariant says that the facts a turn may report persist: what ran has
run, and a refused call is neither pending nor under way anywhere. `EndedTurnLeavesNoGrant`
needs the order of the lane: behind every request and every card of an ended turn its
`TurnComplete` is on the way, and purges them when it is read.

**Self-update** (`SelfUpdate_proofs`, `UpdateAssumption`: the first commit works; absent and
torn files are not commits). `Recoverable`, `BackupIsProven`, `ConfirmedTargetRan`,
`OneProbationPerConfirm` and the types. The invariant says where the watchdog stands by its
files (`JobOnDisk`, `PhaseFollows`), that request and build exclude each other (`OneRequest`),
that boot stamps and markers are dated (`Dated`, `HealthyIsProven`), that probations are paid
for (`Credit`), and, as long as no restore failed and no file was torn, that the installed
binary has proven itself or is the pending target with a proven backup recorded (`Proven`).

**The worker driver** (`WorkerDriver_proofs`, `WorkerAssumption`: bounds are numbers, a worker
has a turn to spend). `AckedIsDurable`, `GrantFollowsResidency`, `OneTruthfulReport`,
`TerminalIsForever`, the types, and that every step is one of `BatchLedger` or none. A restart
puts the file in place of the map, so the invariant compares the two: both know the same
batches, the file never holds an outcome the map does not have (`FileFollows`), and it lags
behind only after a lost save (`Lossless`).

**The goal driver** (`GoalDriver_proofs`, `GoalAssumption`: bounds are numbers).
`HoldsForItsBatches`, `FinishedStaysFinished`, `TurnsAreBudgeted` (checked by no run: it is
what the code keeps of the ceiling its comments promise, see 5) and the types. That nothing
moves a goal on early is a fact about the order of the broadcast: whoever knows of an open
batch comes after its card, or the card has been read (`CardComesFirst`, with `NamesBatches`,
`KnownIsFanned`, `ReportsAreTrue`); a restart starts over with its cards first. The budget
needs to know that a report is under way at most once, that every directive beyond a step's
own was paid for by a batch that is spent, and that the file knows the step.

**The plugin supervisor** (`PluginSupervisor_proofs`, `PluginAssumption`: what the
configuration may say). `RegistryIsBacked`, `RouterAgrees` and the types. `StartInv` says that
what the supervisor starts is configured and that the process it shakes hands with is the
plugin's own; a new process takes only a slot nobody holds a client of. For the router's copy
the invariant speaks of the part of the broadcast not read yet: the last notice about a
plugin on its way agrees with the registry, and the end of an entry's process is reported or
being reported.

**Only model-checked**: the seven liveness properties (`SlotComesBack`, `WaitEnds`,
`RequestIsSettled`, `QueuedWorkerStarts`, `GoalSettles`, `CallIsAnswered`, `AlwaysComesBack`)
and the fairness half of `KeepsTheLedger`, since fairness and `ENABLED` are outside the
prover's reach; and the invariant `CancelledPromptIsAnswered`. The three violations are
counterexamples, not theorems.

**Induction.** The library's induction theorems take an operator and cannot be instantiated
by the installed provers. The proofs use the least-number principle in its form for *sets*: a
set of lengths for which a claim fails would have a least one. That a recursive function
satisfies its equation is proved the same way, by building it up to every length.
`RECURSIVE` operators, `SelectSeq` and `FoldLeft` stay opaque, so the modules do not use them
where something is proved.

## 5. What disagrees with the repository's own words

* `stale_grant`. `supervisor.rs:671` and `docs/gotchas.md:40` say that a timeout leaves no
  live grant because a `ToolResult` removes it. The timeout (`turn.rs:457`) makes up the
  results for the model and emits none; the card stays live until the turn completes.
* `wedged_conductor`. `docs/fabrica.md:87` says that on its deadline a batch reports "and the
  conductor regains control", `goal.rs:619` that the deadline "guarantees it resumes". After a
  restart the worker driver sends a card for every worker it reloads (`worker.rs:1628`), those
  of reported batches too; `done_batches` is empty then, so the batch is pending again
  (`goal.rs:317`), and a conductor that is resumed waits, exempt from the stall clock, for a
  report that was delivered before.
* `repoint`. `docs/sdk/02-mcp-plugins.md:458` says a re-point of an existing binary is within
  reach of evolution. Registering a server that runs starts a second process and replaces the
  entry; the end of the first is reported by plugin id, so `handle_died`
  (`supervisor.rs:2561`) removes the second's entry and starts a third, and so on.

The models show these too; no run is spent on them:

* `goal.rs:133` calls `max_steps` a "Hard ceiling on turns", and `goal.rs:5-9` says that the
  ceiling is enforced in code and "the hard stop". It bounds the steps. A report that comes at
  the last step buys the conductor a further turn (`goal.rs:702` keeps the step at the
  ceiling), its directive invites it to "re-fan" (736), and the completion of a turn that
  fanned out is held before the ceiling is looked at (296-298), so a conductor can be prompted
  for ever. `TurnsAreBudgeted` is what holds: a turn per step, resume and batch.
* `goal.rs:29-31` says that a step without a completion makes the goal fail "instead of
  hanging". `goal_resume` (391-393) leaves `awaiting_batch` as it is: when the report came
  while the goal was blocked on an approval, the resumed goal acts with the flag set and no
  batch out, and `fail_stalled` (625) passes over it for good (`ClockLeftPaused`, which
  `GoalSettles` excepts). It takes three incidents: a message while the goal awaits its batch,
  an approval asked by the turn of that message, and the resume.
* `goal.rs:350` says that a goal in flight is "never silently lost" by a restart. `save_goals`
  (103) writes `goals.json` in place; when the daemon dies inside the write, `load_goals`
  (107-111) makes an empty list of the torn file and every goal is gone.
* `docs/sdk/02-mcp-plugins.md:50` and 466, `docs/sdk/llms.txt:28` and
  `docs/sdk/tutorial-weather-plugin.md:246` say that of two plugins with a tool of one name the
  last to come up takes it. `claim_tool_name` (`tool_claim.rs:98-104`) refuses the second; the
  name is its first claimer's until that plugin is down, and the second gets it only by coming
  up again after that. `RouterAgrees` holds of the code as it is; it does not depend on who wins.
* `main.rs:2103`, `main.rs:4346` and `history.rs:16-18` say that the model API rejects two user
  messages in a row; `history.rs:290-294` and the test at 673 that providers accept them and
  that `repair_history` leaves them. A failed turn, or a crash before the reply, followed by a
  prompt makes such a history, so if the first comments were right those sessions would be
  refused. `ApiValid` follows the second. What the cancel marker promises is stated by itself:
  `CancelledPromptIsAnswered`.
* `health.rs:7` and `docs/self-update.md:97` compare `booted_at` with the time of the swap; the
  watchdog compares it with the request's `created_at`, which is earlier.
* `main.rs:2239` says "Tombstone first so a late append/reinsert cannot recreate the JSONL".
  An open submitted before the delete is carried out after it (`session_store.rs:91`), and
  the file is back, empty.
* `main.rs:2127` says appends "must land in conversation order" and awaits them; `write_all`
  on a tokio file only hands the bytes over, and two awaited appends can land in either
  order. `router` shows that the reload repairs what the provider would reject.
* `mcp.rs:164` tells the caller that "the plugin process is alive"; for a process that ended
  the waiter is woken by the same timeout, since nobody drains the pending table. A process
  that ends in its handshake keeps the supervisor's loop waiting as long.
* A hot reload of a plugin that is not always restarted is undone when the old process's end
  is reported; a child that cannot be spawned, or hangs in its handshake, is not tried again
  even with `restart = "always"`.

## 6. Not modelled, and why

Within the modelled parts: node-wide yolo mode, the enterprise hook, spawns on another node;
the full-text index; gzip of idle sessions; the moment between spawning a turn and storing
its handle (the router does both before it reads its next event, and the handle of a turn
already finished is harmless); lanes are unbounded, except the broadcast of
`PluginSupervisor`. A failed open or write of a session file is left out: the code ignores it
and the line is lost. A worker's revival awaits its file between
looking whether it is resident and inserting the history (`main.rs:2001-2007`); that is one
step. In the drivers: mandala cells, remote rows, model pins, episodes; of other goals only
that they share the file; `reconcile_batches` and the mirror files that are read when there is
no transaction file (`worker.rs:1192-1197`). In the plugin supervisor: reserved tool names,
environments, a second `tools/list` after start, and a socket plugin configured without a path
(`supervisor.rs:2527`), which fails with no later report. A call that waits to hand its line to
a server that does not read (`mcp.rs:141`, outside the request's timeout) is ended by its
caller's own timeout (`supervisor.rs:132`, `turn.rs:453`); the model makes no difference
between the two. In self-update: review, build and attestation are one step; a finished step
is durable, although the scripts ask for no `fsync`; a failed write of the phase file and a
failed `mv` of the confirm marker (`apexos-rollback.sh:58`, unchecked) are left out; two builds
of one commit are not told apart.

Exceptions the properties make, because the code does nothing about the case: a failed
restore and a torn file in `Recoverable` and `BackupIsProven`; lost events, restarts, a clock
left paused and fanning out for ever in `GoalSettles`; lost events, stopped turns and a worker
marked Blocked whose stream stalls (`worker.rs:3881`: it is exempt from the stall clock and
keeps its slot) in `QueuedWorkerStarts`; lost saves in `OneTruthfulReport` (a batch is then
reported again after a restart) and `TurnsAreBudgeted`; turns that are still in the provider's
stream in `SlotComesBack` and `WaitEnds`; workers in `CancelledPromptIsAnswered`; dropped events in `RouterAgrees`; hung and
unspawnable plugins in `AlwaysComesBack`.

Everything else is listed under `components` with its
reason: providers, tool servers, confinement, UIs and firmware are I/O; Cerebro's scoring
uses real numbers.

## 7. Plan

1. Done: `History`, `SessionRouter` with `TurnQueue`, `ApprovalGate`, `SelfUpdate`,
   `WorkerDriver` and `GoalDriver` over `BatchLedger`, `PluginSupervisor`, with their runs and
   proofs.
2. `Bus`: bounded lanes and inbox with the router and the supervisor as emitters and readers;
   freedom from deadlock, order of commands; `ApprovalGate`'s unbounded lanes as the
   abstraction it implements.
3. `WorkerDriver` and `SessionRouter` composed over the histories, so that a parked worker's
   history is covered by `NoTurnIsForgotten`; mandala barriers and remote rows.
4. `MeshInbox`: chunks and de-duplication over a lossy link; the scheduler; the courier; the
   persistence and cooldown of sensor alerts; evolution's journal.
5. Proofs: the invariants and action properties of the runs are done. Next are facts the runs
   do not ask for yet: that `GoalDriver` uses `BatchLedger` by its steps only, and the
   hand-over between the router's parked workers and `WorkerDriver` once item 3 is modelled.

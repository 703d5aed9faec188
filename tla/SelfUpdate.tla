----------------------------- MODULE SelfUpdate -----------------------------
(***************************************************************************)
(* agentd replaces its own binary.  Four actors share a directory of small *)
(* files and the binary in /usr/local/bin:                                 *)
(*   - agentd builds and stages a new binary and files request.json        *)
(*     (agentd/src/self_update.rs), and writes a health marker at every    *)
(*     boot (agentd/src/health.rs);                                        *)
(*   - the watchdog (deploy/apexos-self-update.sh, root), started while a  *)
(*     request exists, backs up, swaps, restarts, judges, confirms or      *)
(*     rolls back, and records its progress in a phase file;               *)
(*   - the probation guard (deploy/apexos-rollback.sh, root), started when *)
(*     the unit crash-loops, restores the backup of a recent update;       *)
(*   - systemd restarts the daemon, gives up on a crash loop, and then     *)
(*     refuses to start it until the limit expires or is reset.            *)
(* Power can be lost between any two steps, and inside a write that is not *)
(* a rename.  Each script line that touches a file or the unit is a step;   *)
(* a copy is one step for the other actors.                                *)
(*                                                                         *)
(* A binary is its commit: a rebuild of the same commit is the same value. *)
(* Requests are numbered, and a boot is stamped with the number of requests *)
(* filed so far: booted_at >= created_at compares these.  request.json is   *)
(* renamed into place by write_request, so it is always well-formed.       *)
(***************************************************************************)
EXTENDS Naturals

CONSTANTS
  Versions, FirstVersion,   \* commits; the one installed by hand
  Broken,                   \* those that never pass their health checks
  CrashLoops,               \* those that may crash-loop at any time
  None, Torn,               \* no file; what a torn copy leaves
  MaxRequests, MaxPowerLoss \* bounds: requests filed, power losses

ASSUME UpdateAssumption ==
  /\ FirstVersion \in Versions \ Broken
  /\ Broken \subseteq Versions /\ CrashLoops \subseteq Versions
  /\ None \notin Versions /\ Torn \notin Versions /\ Torn # None
  /\ MaxRequests \in Nat /\ MaxPowerLoss \in Nat

VARIABLES
  bin, prev, staged,    \* agentd, agentd.prev, agentd.staged
  req,                  \* request.json
  phase,                \* state: "none" (no file), "BACKED_UP", "SWAPPED"
  health,               \* health.json
  confirmed,            \* confirmed.json names a commit, or None
  outcome,              \* the outcome marker written last
  lock,                 \* update.lock
  proc, exec, boot,     \* the unit, the commit it runs, its boot stamp
  limited,              \* systemd's start limit holds
  build,                \* the apply_daemon_update call under way
  wd, job,              \* the watchdog: control state, the request it read
  rb,                   \* the probation guard
  proven, ranSince,     \* history: commits that ran healthy; since the request
  restoreFailed,        \* history: putting the backup back failed once
  torn,                 \* history: power loss tore a file
  confirms, probations, \* history: confirmed updates, probation roll-backs
  filed, losses         \* bounds

files == <<bin, prev, staged, req, phase, confirmed, outcome>>
unit == <<proc, exec, boot, limited>>
daemonVars == <<health, lock, build>>
history == <<proven, ranSince, restoreFailed, torn, confirms, probations>>
bounds == <<filed, losses>>
vars == <<bin, prev, staged, req, phase, health, confirmed, outcome, lock, proc, exec, boot,
          limited, build, wd, job, rb, proven, ranSince, restoreFailed, torn, confirms, probations, filed,
          losses>>

Requests == [target : Versions, created : 1..MaxRequests]
NoBuild == [at |-> "idle", target |-> FirstVersion]
NoJob == [target |-> FirstVersion, created |-> 0]

Init ==
  /\ bin = FirstVersion /\ prev = None /\ staged = None
  /\ req = None /\ phase = "none" /\ confirmed = None /\ outcome = "none"
  /\ lock = FALSE
  /\ health = [status |-> "healthy", commit |-> FirstVersion, boot |-> 0]
  /\ proc = "up" /\ exec = FirstVersion /\ boot = 0 /\ limited = FALSE
  /\ build = NoBuild
  /\ wd = "idle" /\ job = NoJob /\ rb = "idle"
  /\ proven = {FirstVersion} /\ ranSince = {} /\ restoreFailed = FALSE /\ torn = FALSE
  /\ confirms = 0 /\ probations = 0
  /\ filed = 0 /\ losses = 0

-----------------------------------------------------------------------------
(* systemd.                                                                 *)

Alive == proc \in {"booting", "up", "degraded"}

\* The process is replaced by one that runs the installed binary.
Launch == proc' = "starting" /\ exec' = bin /\ boot' = filed

\* systemctl start: nothing if it runs, refused under the start limit.
Start ==
  /\ IF proc \in {"down", "failed"} /\ ~limited THEN Launch ELSE UNCHANGED <<proc, exec, boot>>
  /\ UNCHANGED limited

\* systemctl stop: a failed unit stays failed.
Stop ==
  /\ proc' = IF proc = "failed" THEN "failed" ELSE "down"
  /\ build' = NoBuild
  /\ UNCHANGED <<exec, boot, limited>>

\* The process dies, or is restarted by hand: Restart=on-failure.
Crash ==
  /\ proc = "starting" \/ Alive
  /\ Launch /\ build' = NoBuild
  /\ UNCHANGED <<files, health, lock, limited, wd, job, rb, history, bounds>>

\* It dies five times in five minutes: the unit fails, OnFailure= starts the
\* probation guard.
CrashLoop ==
  /\ proc = "starting" \/ Alive
  /\ exec \in CrashLoops \/ exec = Torn
  /\ proc' = "failed" /\ limited' = TRUE /\ build' = NoBuild
  /\ rb' = IF rb = "idle" THEN "triggered" ELSE rb
  /\ UNCHANGED <<files, health, lock, exec, boot, wd, job, history, bounds>>

LimitExpires ==
  /\ limited /\ limited' = FALSE
  /\ UNCHANGED <<files, daemonVars, proc, exec, boot, wd, job, rb, history, bounds>>

-----------------------------------------------------------------------------
(* agentd: the boot-health marker.                                          *)

Mark(status) == health' = [status |-> status, commit |-> exec, boot |-> boot]

MarkBooting ==
  /\ proc = "starting" /\ exec # Torn
  /\ proc' = "booting" /\ Mark("booting")
  /\ UNCHANGED <<files, lock, build, exec, boot, limited, wd, job, rb, history, bounds>>

\* Listeners bound and every required plugin up.
MarkHealthy ==
  /\ proc = "booting" /\ exec \notin Broken
  /\ proc' = "up" /\ Mark("healthy")
  /\ proven' = proven \cup {exec}
  /\ ranSince' = IF boot = filed THEN ranSince \cup {exec} ELSE ranSince
  /\ UNCHANGED <<files, lock, build, exec, boot, limited, wd, job, rb, restoreFailed, torn,
                 confirms, probations, bounds>>

\* The gates are not met in time.
MarkDegraded ==
  /\ proc = "booting"
  /\ proc' = "degraded" /\ Mark("degraded")
  /\ UNCHANGED <<files, lock, build, exec, boot, limited, wd, job, rb, history, bounds>>

-----------------------------------------------------------------------------
(* agentd: apply_daemon_update.                                             *)

InFlight == req # None \/ lock

\* Preconditions hold, the build-window lock is taken.
BeginUpdate(v) ==
  /\ Alive /\ build.at = "idle" /\ filed < MaxRequests
  /\ ~InFlight
  /\ lock' = TRUE
  /\ build' = [at |-> "build", target |-> v]
  /\ UNCHANGED <<files, health, unit, wd, job, rb, history, bounds>>

\* The review blocks, the checkout, test, build or staging fails, or it is a
\* dry run: the lock is cleared.  Later, the request cannot be written.
AbandonUpdate ==
  /\ build.at \in {"build", "file"}
  /\ lock' = FALSE /\ build' = NoBuild
  /\ UNCHANGED <<files, health, unit, wd, job, rb, history, bounds>>

\* attest_and_stage.
StageUpdate ==
  /\ build.at = "build"
  /\ staged' = build.target
  /\ build' = [build EXCEPT !.at = "staged"]
  /\ UNCHANGED <<bin, prev, req, phase, confirmed, outcome, health, lock, unit, wd, job, rb, history,
                 bounds>>

ClearLock ==
  /\ build.at = "staged"
  /\ lock' = FALSE
  /\ build' = [build EXCEPT !.at = "file"]
  /\ UNCHANGED <<files, health, unit, wd, job, rb, history, bounds>>

\* write_request: the commit point.
FileRequest ==
  /\ build.at = "file"
  /\ filed' = filed + 1
  /\ req' = [target |-> build.target, created |-> filed + 1]
  /\ ranSince' = {}
  /\ build' = NoBuild
  /\ UNCHANGED <<bin, prev, staged, phase, confirmed, outcome, health, lock, unit, wd, job, rb, proven,
                 restoreFailed, torn, confirms, probations, losses>>

-----------------------------------------------------------------------------
(* The watchdog.                                                            *)

WdGoto(at) == wd' = at /\ UNCHANGED job

\* write_outcome, then finish().
Conclude(kind) == outcome' = kind /\ WdGoto("finish")

\* Mutant of IsHealthyTarget: the boot stamp is not compared.
HealthyTargetAnyBoot == health.status = "healthy" /\ health.commit = job.target

\* The boot stamp is compared with the request's created_at, where the comment of
\* health.rs names the time of the swap.
IsHealthyTarget ==
  /\ health.status = "healthy"
  /\ health.commit = job.target
  /\ health.boot >= job.created

\* The .path unit starts the script, which reads the request.
Trigger ==
  /\ wd = "idle" /\ req # None
  /\ wd' = "resume" /\ job' = req
  /\ UNCHANGED <<files, daemonVars, unit, rb, history, bounds>>

WriteConfirmed ==
  /\ confirmed' = job.target
  /\ confirms' = confirms + 1
  /\ Conclude("confirmed")
  /\ UNCHANGED <<bin, prev, staged, req, phase, daemonVars, unit, rb, proven, ranSince,
                 restoreFailed, torn, probations, bounds>>

\* A completed swap is judged, not repeated: reconciled at once ...
Reconcile ==
  /\ wd = "resume" /\ phase = "SWAPPED" /\ IsHealthyTarget
  /\ WriteConfirmed

\* ... or polled; anything else starts at the staged binary.
Resume ==
  /\ wd = "resume" /\ ~(phase = "SWAPPED" /\ IsHealthyTarget)
  /\ WdGoto(IF phase = "SWAPPED" THEN "poll" ELSE "verify")
  /\ UNCHANGED <<files, daemonVars, unit, rb, history, bounds>>

\* Mutant of Verify: a run that finds the phase BACKED_UP backs up again.
VerifyBacksUpAgain ==
  /\ wd = "verify"
  /\ \/ staged # job.target /\ Conclude("rejected")
     \/ staged = job.target /\ WdGoto("backup") /\ UNCHANGED outcome
  /\ UNCHANGED <<bin, prev, staged, req, phase, confirmed, daemonVars, unit, rb, history, bounds>>

\* Stage A: the staged file must be there with the attested hash, or the
\* request is rejected; an existing backup is kept.
Verify ==
  /\ wd = "verify"
  /\ \/ staged # job.target /\ Conclude("rejected")
     \/ /\ staged = job.target
        /\ WdGoto(IF phase = "BACKED_UP" THEN "stop" ELSE "backup")
        /\ UNCHANGED outcome
  /\ UNCHANGED <<bin, prev, staged, req, phase, confirmed, daemonVars, unit, rb, history, bounds>>

\* Stage B.
Backup ==
  /\ wd = "backup"
  /\ prev' = bin
  /\ WdGoto("mark_backup")
  /\ UNCHANGED <<bin, staged, req, phase, confirmed, outcome, daemonVars, unit, rb, history, bounds>>

\* The copy fails: rejected.
BackupFails ==
  /\ wd = "backup"
  /\ Conclude("rejected")
  /\ UNCHANGED <<bin, prev, staged, req, phase, confirmed, daemonVars, unit, rb, history, bounds>>

\* The phase file is written; a write that fails (a full disk) is left out.
MarkPhase(at, name, next) ==
  /\ wd = at
  /\ phase' = name
  /\ WdGoto(next)
  /\ UNCHANGED <<bin, prev, staged, req, confirmed, outcome, daemonVars, unit, rb, history, bounds>>

\* Mutant of MarkBackedUp: the backup is not recorded.
MarkNothing == MarkPhase("mark_backup", "none", "stop")

MarkBackedUp == MarkPhase("mark_backup", "BACKED_UP", "stop")

\* Stage C: stop ...
StopForSwap ==
  /\ wd = "stop" /\ Stop /\ WdGoto("swap")
  /\ UNCHANGED <<files, health, lock, rb, history, bounds>>

\* ... swap_in: copy, hash the copy, rename ...
SwapIn ==
  /\ wd = "swap"
  /\ bin' = staged
  /\ WdGoto("mark_swap")
  /\ UNCHANGED <<prev, staged, req, phase, confirmed, outcome, daemonVars, unit, rb, history, bounds>>

\* ... which fails: the backup is put back (or that fails too), the daemon started.
SwapFails ==
  /\ wd = "swap"
  /\ \/ bin' = prev /\ UNCHANGED restoreFailed
     \/ UNCHANGED bin /\ restoreFailed' = TRUE
  /\ Start /\ Conclude("rolled_back")
  /\ UNCHANGED <<prev, staged, req, phase, confirmed, daemonVars, rb, proven, ranSince,
                 torn, confirms, probations, bounds>>

MarkSwapped == MarkPhase("mark_swap", "SWAPPED", "start")

StartSwapped ==
  /\ wd = "start" /\ Start /\ WdGoto("poll")
  /\ UNCHANGED <<files, daemonVars, rb, history, bounds>>

\* Stage D: poll_health finds the target healthy ...
PollHealthy ==
  /\ wd = "poll" /\ IsHealthyTarget
  /\ WriteConfirmed

\* Mutant of PollGivesUp: no deadline.
PollFailedOnly ==
  /\ wd = "poll" /\ proc = "failed"
  /\ WdGoto("roll_back")
  /\ UNCHANGED <<files, daemonVars, unit, rb, history, bounds>>

\* ... or gives up: the unit has failed, or the deadline passes (the marker may
\* turn healthy during the last sleep).
PollGivesUp ==
  /\ wd = "poll"
  /\ WdGoto("roll_back")
  /\ UNCHANGED <<files, daemonVars, unit, rb, history, bounds>>

\* rollback(): without a backup nothing is touched ...
RollBackStop ==
  /\ wd = "roll_back"
  /\ IF prev = None
       THEN Conclude("rolled_back") /\ restoreFailed' = TRUE /\ UNCHANGED <<unit, build>>
       ELSE Stop /\ WdGoto("restore") /\ UNCHANGED <<restoreFailed, outcome>>
  /\ UNCHANGED <<bin, prev, staged, req, phase, confirmed, health, lock, rb, proven, ranSince, torn,
                 confirms, probations, bounds>>

\* ... else it is put back ...
Restore ==
  /\ wd = "restore"
  /\ bin' = prev
  /\ WdGoto("restart")
  /\ UNCHANGED <<prev, staged, req, phase, confirmed, outcome, daemonVars, unit, rb, history, bounds>>

\* ... unless the copy fails.
RestoreFails ==
  /\ wd = "restore"
  /\ restoreFailed' = TRUE
  /\ WdGoto("restart")
  /\ UNCHANGED <<files, daemonVars, unit, rb, proven, ranSince, torn, confirms, probations, bounds>>

\* The daemon is started, rolled-back.json written.
RestartRestored ==
  /\ wd = "restart" /\ Start /\ Conclude("rolled_back")
  /\ UNCHANGED <<bin, prev, staged, req, phase, confirmed, daemonVars, rb, history, bounds>>

\* finish(): rm STAGED, then rm REQ STATE, in this order.
RemoveStaged ==
  /\ wd = "finish" /\ staged' = None /\ WdGoto("rm_request")
  /\ UNCHANGED <<bin, prev, req, phase, confirmed, outcome, daemonVars, unit, rb, history, bounds>>

RemoveRequest ==
  /\ wd = "rm_request" /\ req' = None /\ WdGoto("rm_phase")
  /\ UNCHANGED <<bin, prev, staged, phase, confirmed, outcome, daemonVars, unit, rb, history, bounds>>

RemovePhase ==
  /\ wd = "rm_phase" /\ phase' = "none" /\ WdGoto("idle")
  /\ UNCHANGED <<bin, prev, staged, req, confirmed, outcome, daemonVars, unit, rb, history, bounds>>

Watchdog ==
  \/ Trigger \/ Reconcile \/ Resume \/ Verify \/ Backup \/ BackupFails \/ MarkBackedUp
  \/ StopForSwap \/ SwapIn \/ SwapFails \/ MarkSwapped \/ StartSwapped \/ PollHealthy
  \/ PollGivesUp \/ RollBackStop \/ Restore \/ RestoreFails \/ RestartRestored
  \/ RemoveStaged \/ RemoveRequest \/ RemovePhase

-----------------------------------------------------------------------------
(* The probation guard.                                                     *)

RbGoto(at) == rb' = at /\ UNCHANGED <<wd, job>>

\* No confirmed update, no backup, or the confirm is too old.
ProbationDeclines ==
  /\ rb = "triggered" /\ RbGoto("idle")
  /\ UNCHANGED <<files, daemonVars, unit, history, bounds>>

\* Mutant of ProbationBegins: the confirm marker is not consumed.
ProbationKeepsMarker ==
  /\ rb = "triggered" /\ confirmed # None /\ prev # None
  /\ RbGoto("stop")
  /\ UNCHANGED <<files, daemonVars, unit, history, bounds>>

\* The confirm marker is consumed first (the script does not look whether the mv
\* succeeds; that it fails is left out) ...
ProbationBegins ==
  /\ rb = "triggered" /\ confirmed # None /\ prev # None
  /\ confirmed' = None
  /\ RbGoto("stop")
  /\ UNCHANGED <<bin, prev, staged, req, phase, outcome, daemonVars, unit, history, bounds>>

ProbationStop ==
  /\ rb = "stop" /\ Stop /\ RbGoto("restore")
  /\ UNCHANGED <<files, health, lock, history, bounds>>

\* ... the backup put back, or not if the copy fails ...
ProbationRestore ==
  /\ rb = "restore"
  /\ \/ bin' = prev /\ RbGoto("start")
     \/ UNCHANGED bin /\ RbGoto("start_kept")
  /\ probations' = probations + 1
  /\ UNCHANGED <<prev, staged, req, phase, confirmed, outcome, daemonVars, unit, proven, ranSince,
                 restoreFailed, torn, confirms, bounds>>

\* ... and the daemon started, the start limit reset; a restore is recorded.
ProbationStart ==
  /\ rb \in {"start", "start_kept"} /\ RbGoto("idle")
  /\ limited' = FALSE
  /\ IF proc \in {"down", "failed"} THEN Launch ELSE UNCHANGED <<proc, exec, boot>>
  /\ outcome' = IF rb = "start" THEN "rolled_back" ELSE outcome
  /\ UNCHANGED <<bin, prev, staged, req, phase, confirmed, daemonVars, history, bounds>>

Probation ==
  \/ ProbationDeclines \/ ProbationBegins \/ ProbationStop \/ ProbationRestore
  \/ ProbationStart

-----------------------------------------------------------------------------
\* Power is lost and comes back: systemd starts the daemon, and the watchdog if
\* a request is there.  A write it interrupts may leave a torn file; a step that
\* has finished is durable, although the scripts ask for no fsync.
PowerLoss ==
  /\ losses < MaxPowerLoss
  /\ losses' = losses + 1
  /\ proc' = "starting" /\ exec' = bin /\ boot' = filed /\ limited' = FALSE
  /\ build' = NoBuild
  /\ wd' = "idle" /\ job' = NoJob /\ rb' = "idle"
  /\ prev' \in {prev} \cup (IF wd = "backup" THEN {Torn} ELSE {})
  /\ phase' \in {phase} \cup
       (IF wd \in {"mark_backup", "mark_swap"} THEN {"none"} ELSE {})
  /\ torn' = (torn \/ prev' # prev \/ phase' # phase)
  /\ UNCHANGED <<bin, staged, req, health, confirmed, outcome, lock, proven, ranSince,
                 restoreFailed, confirms, probations, filed>>

Next ==
  \/ Crash \/ CrashLoop \/ LimitExpires
  \/ MarkBooting \/ MarkHealthy \/ MarkDegraded
  \/ \E v \in Versions : BeginUpdate(v)
  \/ AbandonUpdate \/ StageUpdate \/ ClearLock \/ FileRequest
  \/ Watchdog \/ Probation \/ PowerLoss

Spec == Init /\ [][Next]_vars

\* The scripts run to their end unless power is lost, which happens a bounded
\* number of times; a request starts the watchdog (PathExists=).
FairSpec == Spec /\ WF_vars(Watchdog) /\ WF_vars(Probation)

-----------------------------------------------------------------------------
(* Properties.                                                              *)

Binaries == Versions \cup {Torn}

WdStates == {"idle", "resume", "verify", "backup", "mark_backup", "stop", "swap", "mark_swap",
             "start", "poll", "roll_back", "restore", "restart", "finish", "rm_request",
             "rm_phase"}

FilesTyped ==
  /\ bin \in Binaries /\ prev \in Binaries \cup {None} /\ staged \in Versions \cup {None}
  /\ req \in Requests \cup {None}
  /\ phase \in {"none", "BACKED_UP", "SWAPPED"}
  /\ confirmed \in Versions \cup {None}
  /\ outcome \in {"none", "confirmed", "rolled_back", "rejected"}

DaemonTyped ==
  /\ health \in [status : {"booting", "healthy", "degraded"}, commit : Versions,
                 boot : 0..MaxRequests]
  /\ proc \in {"down", "starting", "booting", "up", "degraded", "failed"}
  /\ exec \in Binaries /\ boot \in 0..MaxRequests
  /\ build \in [at : {"idle", "build", "staged", "file"}, target : Versions]
  /\ filed \in 0..MaxRequests /\ losses \in 0..MaxPowerLoss

ScriptsTyped ==
  /\ wd \in WdStates /\ job \in Requests \cup {NoJob}
  /\ rb \in {"idle", "triggered", "stop", "restore", "start", "start_kept"}
  /\ proven \subseteq Versions /\ ranSince \subseteq Versions
  /\ confirms \in Nat /\ probations \in Nat

FlagsTyped ==
  lock \in BOOLEAN /\ limited \in BOOLEAN /\ restoreFailed \in BOOLEAN /\ torn \in BOOLEAN

(* Every file, the unit and the scripts' control states have their types.   *)
TypeOK == FilesTyped /\ DaemonTyped /\ ScriptsTyped /\ FlagsTyped

(* "Every exit path leaves /usr/local/bin/agentd a known-good binary":      *)
(* whenever the installed binary has not proven itself, a backup that has   *)
(* is kept, and the files make the watchdog come back and judge it, after a *)
(* power loss too.  Two cases are excepted: a failing restore, reported and *)
(* left to a human, and a phase file or backup torn by the power loss.      *)
Recoverable ==
  \/ restoreFailed \/ torn
  \/ bin \in proven
  \/ prev \in proven /\ phase \in {"BACKED_UP", "SWAPPED"} /\ req # None

(* "never re-backs-up (which would overwrite the good backup with the new   *)
(* binary)": only a binary that has proven itself becomes the backup.       *)
BackupIsProven == [][prev' # prev /\ ~restoreFailed /\ ~torn' => prev' \in proven]_vars

(* "a stale marker from before the swap can never read as success": a       *)
(* confirmed target passed its health checks in a boot that followed the    *)
(* request.                                                                 *)
ConfirmedTargetRan ==
  wd \in {"finish", "rm_request"} /\ outcome = "confirmed" => job.target \in ranSince

(* "we NEVER loop": at most one probation roll-back per confirmed update,   *)
(* wherever power is lost.                                                  *)
OneProbationPerConfirm == probations <= confirms

(* Every request comes to its end: confirmed, rolled back or rejected.      *)
RequestIsSettled == req # None ~> req = None
=============================================================================

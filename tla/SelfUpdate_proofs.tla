------------------------- MODULE SelfUpdate_proofs -------------------------
(***************************************************************************)
(* Proofs about SelfUpdate, for all versions, requests and power losses.    *)
(***************************************************************************)
EXTENDS SelfUpdate, TLAPS

\* The watchdog works on a request.
Working == wd \notin {"idle", "rm_phase"}

\* A daemon that got as far as its own main runs a whole binary.
RunsWhole == Alive => exec \in Versions

\* No request is filed while another is there: the build window excludes it.
OneRequest == build.at # "idle" => req = None /\ filed < MaxRequests

\* The watchdog's request is the one on disk until it removes it.
JobOnDisk == Working => req # None /\ req = job

\* Where the watchdog is, the phase file says how far it came; a phase is only
\* there when a backup is.
PhaseFollows ==
  /\ phase # "none" => prev # None
  /\ wd = "verify" => phase # "SWAPPED"
  /\ wd \in {"backup", "mark_backup"} => phase = "none"
  /\ wd = "mark_backup" => prev # None
  /\ wd \in {"stop", "swap", "mark_swap"} => phase = "BACKED_UP"
  /\ wd \in {"start", "poll", "roll_back", "restore"} => phase = "SWAPPED"
  /\ wd \in {"backup", "mark_backup", "stop", "swap"} => staged = job.target
  /\ rb \in {"stop", "restore"} => prev # None

\* A healthy marker names a commit that ran healthy.
HealthyIsProven == health.status = "healthy" => health.commit \in proven

\* The backup has proven itself; the installed binary has too, or it is the
\* target of the request, still staged, with the backup recorded.
Proven ==
  /\ prev \in proven \cup {None}
  /\ \/ bin \in proven
     \/ /\ phase # "none" /\ req # None /\ bin = req.target /\ staged = req.target
        /\ wd \notin {"restart", "finish", "rm_request", "rm_phase"}

\* Boots and requests carry the number of requests filed; a marker of the current
\* number names a commit that ran since the request.
Dated ==
  /\ boot <= filed /\ health.boot <= filed
  /\ req # None => req.created = filed
  /\ health.status = "healthy" /\ health.boot = filed /\ filed > 0 => health.commit \in ranSince

\* A confirm pays for one probation roll-back: while its marker is there, and from the
\* moment the guard consumes it until it restores, one more is paid for than was taken.
Credit ==
  /\ probations <= confirms
  /\ confirmed # None \/ rb \in {"stop", "restore"} => probations < confirms
  /\ confirmed # None /\ rb \in {"stop", "restore"} => probations + 1 < confirms

IInv ==
  /\ TypeOK /\ RunsWhole /\ OneRequest /\ JobOnDisk /\ PhaseFollows /\ HealthyIsProven
  /\ Dated /\ ConfirmedTargetRan /\ Credit
  /\ ~restoreFailed /\ ~torn => Proven

-----------------------------------------------------------------------------
(* Every step of the daemon, the scripts, systemd and the power supply keeps the types. *)
LEMMA TypePreserved == IInv /\ [Next]_vars => (FilesTyped /\ DaemonTyped /\ ScriptsTyped)'
<1> SUFFICES ASSUME IInv, [Next]_vars PROVE (FilesTyped /\ DaemonTyped /\ ScriptsTyped)'
  OBVIOUS
<1> USE UpdateAssumption DEF IInv, TypeOK, FilesTyped, DaemonTyped, ScriptsTyped,
           Binaries, WdStates, Requests, NoJob, NoBuild,
           RunsWhole, OneRequest, PhaseFollows, JobOnDisk, Alive, Working
<1>1. CASE Crash
  BY <1>1 DEF Crash, Launch, Alive, files, unit, daemonVars, history, bounds
<1>2. CASE CrashLoop
  BY <1>2 DEF CrashLoop, Alive, files, unit, daemonVars, history, bounds
<1>3. CASE LimitExpires
  BY <1>3 DEF LimitExpires, files, unit, daemonVars, history, bounds
<1>4. CASE MarkBooting
  BY <1>4 DEF MarkBooting, Mark, files, unit, daemonVars, history, bounds
<1>5. CASE MarkHealthy
  BY <1>5 DEF MarkHealthy, Mark, files, unit, daemonVars, history, bounds
<1>6. CASE MarkDegraded
  BY <1>6 DEF MarkDegraded, Mark, files, unit, daemonVars, history, bounds
<1>7. CASE AbandonUpdate
  BY <1>7 DEF AbandonUpdate, NoBuild, files, unit, daemonVars, history, bounds
<1>8. CASE StageUpdate
  BY <1>8 DEF StageUpdate, files, unit, daemonVars, history, bounds
<1>9. CASE ClearLock
  BY <1>9 DEF ClearLock, files, unit, daemonVars, history, bounds
<1>10. CASE FileRequest
  BY <1>10 DEF FileRequest, NoBuild, files, unit, daemonVars, history, bounds
<1>11. CASE Trigger
  BY <1>11 DEF Trigger, files, unit, daemonVars, history, bounds
<1>12. CASE Reconcile
  BY <1>12 DEF Reconcile, WriteConfirmed, Conclude, WdGoto, IsHealthyTarget, files, unit, daemonVars, history, bounds
<1>13. CASE Resume
  BY <1>13 DEF Resume, WdGoto, files, unit, daemonVars, history, bounds
<1>14. CASE Verify
  BY <1>14 DEF Verify, Conclude, WdGoto, files, unit, daemonVars, history, bounds
<1>15. CASE Backup
  BY <1>15 DEF Backup, WdGoto, files, unit, daemonVars, history, bounds
<1>16. CASE BackupFails
  BY <1>16 DEF BackupFails, Conclude, WdGoto, files, unit, daemonVars, history, bounds
<1>17. CASE MarkBackedUp
  BY <1>17 DEF MarkBackedUp, MarkPhase, WdGoto, files, unit, daemonVars, history, bounds
<1>18. CASE StopForSwap
  BY <1>18 DEF StopForSwap, Stop, WdGoto, NoBuild, files, unit, daemonVars, history, bounds
<1>19. CASE SwapIn
  BY <1>19 DEF SwapIn, WdGoto, files, unit, daemonVars, history, bounds
<1>20. CASE SwapFails
  BY <1>20 DEF SwapFails, Start, Launch, Conclude, WdGoto, files, unit, daemonVars, history, bounds
<1>21. CASE MarkSwapped
  BY <1>21 DEF MarkSwapped, MarkPhase, WdGoto, files, unit, daemonVars, history, bounds
<1>22. CASE StartSwapped
  BY <1>22 DEF StartSwapped, Start, Launch, WdGoto, files, unit, daemonVars, history, bounds
<1>23. CASE PollHealthy
  BY <1>23 DEF PollHealthy, WriteConfirmed, Conclude, WdGoto, IsHealthyTarget, files, unit, daemonVars, history, bounds
<1>24. CASE PollGivesUp
  BY <1>24 DEF PollGivesUp, WdGoto, files, unit, daemonVars, history, bounds
<1>25. CASE RollBackStop
  BY <1>25 DEF RollBackStop, Stop, NoBuild, Conclude, WdGoto, files, unit, daemonVars, history, bounds
<1>26. CASE Restore
  BY <1>26 DEF Restore, WdGoto, files, unit, daemonVars, history, bounds
<1>27. CASE RestoreFails
  BY <1>27 DEF RestoreFails, WdGoto, files, unit, daemonVars, history, bounds
<1>28. CASE RestartRestored
  BY <1>28 DEF RestartRestored, Start, Launch, Conclude, WdGoto, files, unit, daemonVars, history, bounds
<1>29. CASE RemoveStaged
  BY <1>29 DEF RemoveStaged, WdGoto, files, unit, daemonVars, history, bounds
<1>30. CASE RemoveRequest
  BY <1>30 DEF RemoveRequest, WdGoto, files, unit, daemonVars, history, bounds
<1>31. CASE RemovePhase
  BY <1>31 DEF RemovePhase, WdGoto, files, unit, daemonVars, history, bounds
<1>32. CASE ProbationDeclines
  BY <1>32 DEF ProbationDeclines, RbGoto, files, unit, daemonVars, history, bounds
<1>33. CASE ProbationBegins
  BY <1>33 DEF ProbationBegins, RbGoto, files, unit, daemonVars, history, bounds
<1>34. CASE ProbationStop
  BY <1>34 DEF ProbationStop, Stop, NoBuild, RbGoto, files, unit, daemonVars, history, bounds
<1>35. CASE ProbationRestore
  BY <1>35 DEF ProbationRestore, RbGoto, files, unit, daemonVars, history, bounds
<1>36. CASE ProbationStart
  BY <1>36 DEF ProbationStart, RbGoto, Launch, files, unit, daemonVars, history, bounds
<1>37. CASE PowerLoss
  BY <1>37 DEF PowerLoss, NoBuild, NoJob, files, unit, daemonVars, history, bounds
<1>38. CASE \E v \in Versions : BeginUpdate(v)
  BY <1>38 DEF BeginUpdate, InFlight, files, unit, daemonVars, history, bounds
<1>39. CASE UNCHANGED vars
  BY <1>39 DEF vars
<1> QED
  BY <1>1, <1>2, <1>3, <1>4, <1>5, <1>6, <1>7, <1>8, <1>9, <1>10, <1>11, <1>12, <1>13, <1>14,
     <1>15, <1>16, <1>17, <1>18, <1>19, <1>20, <1>21, <1>22, <1>23, <1>24, <1>25, <1>26, <1>27,
     <1>28, <1>29, <1>30, <1>31, <1>32, <1>33, <1>34, <1>35, <1>36, <1>37, <1>38, <1>39 DEF
     Next, Watchdog, Probation

(* Every step keeps the flags Boolean. *)
LEMMA FlagsPreserved == IInv /\ [Next]_vars => FlagsTyped'
<1> SUFFICES ASSUME IInv, [Next]_vars PROVE FlagsTyped'
  OBVIOUS
<1> USE UpdateAssumption DEF IInv, TypeOK, FlagsTyped
<1>1. CASE Crash
  BY <1>1 DEF Crash, Launch, Alive, files, unit, daemonVars, history, bounds
<1>2. CASE CrashLoop
  BY <1>2 DEF CrashLoop, Alive, files, unit, daemonVars, history, bounds
<1>3. CASE LimitExpires
  BY <1>3 DEF LimitExpires, files, unit, daemonVars, history, bounds
<1>4. CASE MarkBooting
  BY <1>4 DEF MarkBooting, Mark, files, unit, daemonVars, history, bounds
<1>5. CASE MarkHealthy
  BY <1>5 DEF MarkHealthy, Mark, files, unit, daemonVars, history, bounds
<1>6. CASE MarkDegraded
  BY <1>6 DEF MarkDegraded, Mark, files, unit, daemonVars, history, bounds
<1>7. CASE AbandonUpdate
  BY <1>7 DEF AbandonUpdate, NoBuild, files, unit, daemonVars, history, bounds
<1>8. CASE StageUpdate
  BY <1>8 DEF StageUpdate, files, unit, daemonVars, history, bounds
<1>9. CASE ClearLock
  BY <1>9 DEF ClearLock, files, unit, daemonVars, history, bounds
<1>10. CASE FileRequest
  BY <1>10 DEF FileRequest, NoBuild, files, unit, daemonVars, history, bounds
<1>11. CASE Trigger
  BY <1>11 DEF Trigger, files, unit, daemonVars, history, bounds
<1>12. CASE Reconcile
  BY <1>12 DEF Reconcile, WriteConfirmed, Conclude, WdGoto, IsHealthyTarget, files, unit, daemonVars, history, bounds
<1>13. CASE Resume
  BY <1>13 DEF Resume, WdGoto, files, unit, daemonVars, history, bounds
<1>14. CASE Verify
  BY <1>14 DEF Verify, Conclude, WdGoto, files, unit, daemonVars, history, bounds
<1>15. CASE Backup
  BY <1>15 DEF Backup, WdGoto, files, unit, daemonVars, history, bounds
<1>16. CASE BackupFails
  BY <1>16 DEF BackupFails, Conclude, WdGoto, files, unit, daemonVars, history, bounds
<1>17. CASE MarkBackedUp
  BY <1>17 DEF MarkBackedUp, MarkPhase, WdGoto, files, unit, daemonVars, history, bounds
<1>18. CASE StopForSwap
  BY <1>18 DEF StopForSwap, Stop, WdGoto, NoBuild, files, unit, daemonVars, history, bounds
<1>19. CASE SwapIn
  BY <1>19 DEF SwapIn, WdGoto, files, unit, daemonVars, history, bounds
<1>20. CASE SwapFails
  BY <1>20 DEF SwapFails, Start, Launch, Conclude, WdGoto, files, unit, daemonVars, history, bounds
<1>21. CASE MarkSwapped
  BY <1>21 DEF MarkSwapped, MarkPhase, WdGoto, files, unit, daemonVars, history, bounds
<1>22. CASE StartSwapped
  BY <1>22 DEF StartSwapped, Start, Launch, WdGoto, files, unit, daemonVars, history, bounds
<1>23. CASE PollHealthy
  BY <1>23 DEF PollHealthy, WriteConfirmed, Conclude, WdGoto, IsHealthyTarget, files, unit, daemonVars, history, bounds
<1>24. CASE PollGivesUp
  BY <1>24 DEF PollGivesUp, WdGoto, files, unit, daemonVars, history, bounds
<1>25. CASE RollBackStop
  BY <1>25 DEF RollBackStop, Stop, NoBuild, Conclude, WdGoto, files, unit, daemonVars, history, bounds
<1>26. CASE Restore
  BY <1>26 DEF Restore, WdGoto, files, unit, daemonVars, history, bounds
<1>27. CASE RestoreFails
  BY <1>27 DEF RestoreFails, WdGoto, files, unit, daemonVars, history, bounds
<1>28. CASE RestartRestored
  BY <1>28 DEF RestartRestored, Start, Launch, Conclude, WdGoto, files, unit, daemonVars, history, bounds
<1>29. CASE RemoveStaged
  BY <1>29 DEF RemoveStaged, WdGoto, files, unit, daemonVars, history, bounds
<1>30. CASE RemoveRequest
  BY <1>30 DEF RemoveRequest, WdGoto, files, unit, daemonVars, history, bounds
<1>31. CASE RemovePhase
  BY <1>31 DEF RemovePhase, WdGoto, files, unit, daemonVars, history, bounds
<1>32. CASE ProbationDeclines
  BY <1>32 DEF ProbationDeclines, RbGoto, files, unit, daemonVars, history, bounds
<1>33. CASE ProbationBegins
  BY <1>33 DEF ProbationBegins, RbGoto, files, unit, daemonVars, history, bounds
<1>34. CASE ProbationStop
  BY <1>34 DEF ProbationStop, Stop, NoBuild, RbGoto, files, unit, daemonVars, history, bounds
<1>35. CASE ProbationRestore
  BY <1>35 DEF ProbationRestore, RbGoto, files, unit, daemonVars, history, bounds
<1>36. CASE ProbationStart
  BY <1>36 DEF ProbationStart, RbGoto, Launch, files, unit, daemonVars, history, bounds
<1>37. CASE PowerLoss
  BY <1>37 DEF PowerLoss, NoBuild, NoJob, files, unit, daemonVars, history, bounds
<1>38. CASE \E v \in Versions : BeginUpdate(v)
  BY <1>38 DEF BeginUpdate, InFlight, files, unit, daemonVars, history, bounds
<1>39. CASE UNCHANGED vars
  BY <1>39 DEF vars
<1> QED
  BY <1>1, <1>2, <1>3, <1>4, <1>5, <1>6, <1>7, <1>8, <1>9, <1>10, <1>11, <1>12, <1>13, <1>14,
     <1>15, <1>16, <1>17, <1>18, <1>19, <1>20, <1>21, <1>22, <1>23, <1>24, <1>25, <1>26, <1>27,
     <1>28, <1>29, <1>30, <1>31, <1>32, <1>33, <1>34, <1>35, <1>36, <1>37, <1>38, <1>39 DEF
     Next, Watchdog, Probation

(* Every step keeps the watchdog, its request and the phase file in step, and the health
   marker honest. *)
LEMMA ControlPreserved == IInv /\ [Next]_vars => (RunsWhole /\ OneRequest /\ JobOnDisk /\ PhaseFollows /\ HealthyIsProven)'
<1> SUFFICES ASSUME IInv, [Next]_vars PROVE (RunsWhole /\ OneRequest /\ JobOnDisk /\ PhaseFollows /\ HealthyIsProven)'
  OBVIOUS
<1> USE UpdateAssumption DEF IInv, TypeOK, FilesTyped, DaemonTyped, ScriptsTyped,
           Binaries, WdStates, Requests, NoJob, NoBuild,
           RunsWhole, OneRequest, JobOnDisk, PhaseFollows, HealthyIsProven, Alive, Working
<1>1. CASE Crash
  BY <1>1 DEF Crash, Launch, Alive, files, unit, daemonVars, history, bounds
<1>2. CASE CrashLoop
  BY <1>2 DEF CrashLoop, Alive, files, unit, daemonVars, history, bounds
<1>3. CASE LimitExpires
  BY <1>3 DEF LimitExpires, files, unit, daemonVars, history, bounds
<1>4. CASE MarkBooting
  BY <1>4 DEF MarkBooting, Mark, files, unit, daemonVars, history, bounds
<1>5. CASE MarkHealthy
  BY <1>5 DEF MarkHealthy, Mark, files, unit, daemonVars, history, bounds
<1>6. CASE MarkDegraded
  BY <1>6 DEF MarkDegraded, Mark, files, unit, daemonVars, history, bounds
<1>7. CASE AbandonUpdate
  BY <1>7 DEF AbandonUpdate, NoBuild, files, unit, daemonVars, history, bounds
<1>8. CASE StageUpdate
  BY <1>8 DEF StageUpdate, files, unit, daemonVars, history, bounds
<1>9. CASE ClearLock
  BY <1>9 DEF ClearLock, files, unit, daemonVars, history, bounds
<1>10. CASE FileRequest
  BY <1>10 DEF FileRequest, NoBuild, files, unit, daemonVars, history, bounds
<1>11. CASE Trigger
  BY <1>11 DEF Trigger, files, unit, daemonVars, history, bounds
<1>12. CASE Reconcile
  BY <1>12 DEF Reconcile, WriteConfirmed, Conclude, WdGoto, IsHealthyTarget, files, unit, daemonVars, history, bounds
<1>13. CASE Resume
  BY <1>13 DEF Resume, WdGoto, files, unit, daemonVars, history, bounds
<1>14. CASE Verify
  BY <1>14 DEF Verify, Conclude, WdGoto, files, unit, daemonVars, history, bounds
<1>15. CASE Backup
  BY <1>15 DEF Backup, WdGoto, files, unit, daemonVars, history, bounds
<1>16. CASE BackupFails
  BY <1>16 DEF BackupFails, Conclude, WdGoto, files, unit, daemonVars, history, bounds
<1>17. CASE MarkBackedUp
  BY <1>17 DEF MarkBackedUp, MarkPhase, WdGoto, files, unit, daemonVars, history, bounds
<1>18. CASE StopForSwap
  BY <1>18 DEF StopForSwap, Stop, WdGoto, NoBuild, files, unit, daemonVars, history, bounds
<1>19. CASE SwapIn
  BY <1>19 DEF SwapIn, WdGoto, files, unit, daemonVars, history, bounds
<1>20. CASE SwapFails
  BY <1>20 DEF SwapFails, Start, Launch, Conclude, WdGoto, files, unit, daemonVars, history, bounds
<1>21. CASE MarkSwapped
  BY <1>21 DEF MarkSwapped, MarkPhase, WdGoto, files, unit, daemonVars, history, bounds
<1>22. CASE StartSwapped
  BY <1>22 DEF StartSwapped, Start, Launch, WdGoto, files, unit, daemonVars, history, bounds
<1>23. CASE PollHealthy
  BY <1>23 DEF PollHealthy, WriteConfirmed, Conclude, WdGoto, IsHealthyTarget, files, unit, daemonVars, history, bounds
<1>24. CASE PollGivesUp
  BY <1>24 DEF PollGivesUp, WdGoto, files, unit, daemonVars, history, bounds
<1>25. CASE RollBackStop
  BY <1>25 DEF RollBackStop, Stop, NoBuild, Conclude, WdGoto, files, unit, daemonVars, history, bounds
<1>26. CASE Restore
  BY <1>26 DEF Restore, WdGoto, files, unit, daemonVars, history, bounds
<1>27. CASE RestoreFails
  BY <1>27 DEF RestoreFails, WdGoto, files, unit, daemonVars, history, bounds
<1>28. CASE RestartRestored
  BY <1>28 DEF RestartRestored, Start, Launch, Conclude, WdGoto, files, unit, daemonVars, history, bounds
<1>29. CASE RemoveStaged
  BY <1>29 DEF RemoveStaged, WdGoto, files, unit, daemonVars, history, bounds
<1>30. CASE RemoveRequest
  BY <1>30 DEF RemoveRequest, WdGoto, files, unit, daemonVars, history, bounds
<1>31. CASE RemovePhase
  BY <1>31 DEF RemovePhase, WdGoto, files, unit, daemonVars, history, bounds
<1>32. CASE ProbationDeclines
  BY <1>32 DEF ProbationDeclines, RbGoto, files, unit, daemonVars, history, bounds
<1>33. CASE ProbationBegins
  BY <1>33 DEF ProbationBegins, RbGoto, files, unit, daemonVars, history, bounds
<1>34. CASE ProbationStop
  BY <1>34 DEF ProbationStop, Stop, NoBuild, RbGoto, files, unit, daemonVars, history, bounds
<1>35. CASE ProbationRestore
  BY <1>35 DEF ProbationRestore, RbGoto, files, unit, daemonVars, history, bounds
<1>36. CASE ProbationStart
  BY <1>36 DEF ProbationStart, RbGoto, Launch, files, unit, daemonVars, history, bounds
<1>37. CASE PowerLoss
  BY <1>37 DEF PowerLoss, NoBuild, NoJob, files, unit, daemonVars, history, bounds
<1>38. CASE \E v \in Versions : BeginUpdate(v)
  BY <1>38 DEF BeginUpdate, InFlight, files, unit, daemonVars, history, bounds
<1>39. CASE UNCHANGED vars
  BY <1>39 DEF vars
<1> QED
  BY <1>1, <1>2, <1>3, <1>4, <1>5, <1>6, <1>7, <1>8, <1>9, <1>10, <1>11, <1>12, <1>13, <1>14,
     <1>15, <1>16, <1>17, <1>18, <1>19, <1>20, <1>21, <1>22, <1>23, <1>24, <1>25, <1>26, <1>27,
     <1>28, <1>29, <1>30, <1>31, <1>32, <1>33, <1>34, <1>35, <1>36, <1>37, <1>38, <1>39 DEF
     Next, Watchdog, Probation

(* Every step keeps a proven binary installed or recoverable: a swap needs a recorded backup,
   a confirm a healthy target, and what is put back is the backup. *)
LEMMA ProvenPreserved == IInv /\ [Next]_vars => ((~restoreFailed /\ ~torn) => Proven)'
<1> SUFFICES ASSUME IInv, [Next]_vars PROVE ((~restoreFailed /\ ~torn) => Proven)'
  OBVIOUS
<1> USE UpdateAssumption DEF IInv, TypeOK, FilesTyped, DaemonTyped, ScriptsTyped,
           Binaries, WdStates, Requests, NoJob, NoBuild,
           Proven, OneRequest, JobOnDisk, PhaseFollows, HealthyIsProven, Working
<1>1. CASE Crash
  BY <1>1 DEF Crash, Launch, Alive, files, unit, daemonVars, history, bounds
<1>2. CASE CrashLoop
  BY <1>2 DEF CrashLoop, Alive, files, unit, daemonVars, history, bounds
<1>3. CASE LimitExpires
  BY <1>3 DEF LimitExpires, files, unit, daemonVars, history, bounds
<1>4. CASE MarkBooting
  BY <1>4 DEF MarkBooting, Mark, files, unit, daemonVars, history, bounds
<1>5. CASE MarkHealthy
  BY <1>5 DEF MarkHealthy, Mark, files, unit, daemonVars, history, bounds
<1>6. CASE MarkDegraded
  BY <1>6 DEF MarkDegraded, Mark, files, unit, daemonVars, history, bounds
<1>7. CASE AbandonUpdate
  BY <1>7 DEF AbandonUpdate, NoBuild, files, unit, daemonVars, history, bounds
<1>8. CASE StageUpdate
  BY <1>8 DEF StageUpdate, files, unit, daemonVars, history, bounds
<1>9. CASE ClearLock
  BY <1>9 DEF ClearLock, files, unit, daemonVars, history, bounds
<1>10. CASE FileRequest
  BY <1>10 DEF FileRequest, NoBuild, files, unit, daemonVars, history, bounds
<1>11. CASE Trigger
  BY <1>11 DEF Trigger, files, unit, daemonVars, history, bounds
<1>12. CASE Reconcile
  BY <1>12 DEF Reconcile, WriteConfirmed, Conclude, WdGoto, IsHealthyTarget, files, unit, daemonVars, history, bounds
<1>13. CASE Resume
  BY <1>13 DEF Resume, WdGoto, files, unit, daemonVars, history, bounds
<1>14. CASE Verify
  BY <1>14 DEF Verify, Conclude, WdGoto, files, unit, daemonVars, history, bounds
<1>15. CASE Backup
  BY <1>15 DEF Backup, WdGoto, files, unit, daemonVars, history, bounds
<1>16. CASE BackupFails
  BY <1>16 DEF BackupFails, Conclude, WdGoto, files, unit, daemonVars, history, bounds
<1>17. CASE MarkBackedUp
  BY <1>17 DEF MarkBackedUp, MarkPhase, WdGoto, files, unit, daemonVars, history, bounds
<1>18. CASE StopForSwap
  BY <1>18 DEF StopForSwap, Stop, WdGoto, NoBuild, files, unit, daemonVars, history, bounds
<1>19. CASE SwapIn
  BY <1>19 DEF SwapIn, WdGoto, files, unit, daemonVars, history, bounds
<1>20. CASE SwapFails
  BY <1>20 DEF SwapFails, Start, Launch, Conclude, WdGoto, files, unit, daemonVars, history, bounds
<1>21. CASE MarkSwapped
  BY <1>21 DEF MarkSwapped, MarkPhase, WdGoto, files, unit, daemonVars, history, bounds
<1>22. CASE StartSwapped
  BY <1>22 DEF StartSwapped, Start, Launch, WdGoto, files, unit, daemonVars, history, bounds
<1>23. CASE PollHealthy
  BY <1>23 DEF PollHealthy, WriteConfirmed, Conclude, WdGoto, IsHealthyTarget, files, unit, daemonVars, history, bounds
<1>24. CASE PollGivesUp
  BY <1>24 DEF PollGivesUp, WdGoto, files, unit, daemonVars, history, bounds
<1>25. CASE RollBackStop
  BY <1>25 DEF RollBackStop, Stop, NoBuild, Conclude, WdGoto, files, unit, daemonVars, history, bounds
<1>26. CASE Restore
  BY <1>26 DEF Restore, WdGoto, files, unit, daemonVars, history, bounds
<1>27. CASE RestoreFails
  BY <1>27 DEF RestoreFails, WdGoto, files, unit, daemonVars, history, bounds
<1>28. CASE RestartRestored
  BY <1>28 DEF RestartRestored, Start, Launch, Conclude, WdGoto, files, unit, daemonVars, history, bounds
<1>29. CASE RemoveStaged
  BY <1>29 DEF RemoveStaged, WdGoto, files, unit, daemonVars, history, bounds
<1>30. CASE RemoveRequest
  BY <1>30 DEF RemoveRequest, WdGoto, files, unit, daemonVars, history, bounds
<1>31. CASE RemovePhase
  BY <1>31 DEF RemovePhase, WdGoto, files, unit, daemonVars, history, bounds
<1>32. CASE ProbationDeclines
  BY <1>32 DEF ProbationDeclines, RbGoto, files, unit, daemonVars, history, bounds
<1>33. CASE ProbationBegins
  BY <1>33 DEF ProbationBegins, RbGoto, files, unit, daemonVars, history, bounds
<1>34. CASE ProbationStop
  BY <1>34 DEF ProbationStop, Stop, NoBuild, RbGoto, files, unit, daemonVars, history, bounds
<1>35. CASE ProbationRestore
  BY <1>35 DEF ProbationRestore, RbGoto, files, unit, daemonVars, history, bounds
<1>36. CASE ProbationStart
  BY <1>36 DEF ProbationStart, RbGoto, Launch, files, unit, daemonVars, history, bounds
<1>37. CASE PowerLoss
  BY <1>37 DEF PowerLoss, NoBuild, NoJob, files, unit, daemonVars, history, bounds
<1>38. CASE \E v \in Versions : BeginUpdate(v)
  BY <1>38 DEF BeginUpdate, InFlight, files, unit, daemonVars, history, bounds
<1>39. CASE UNCHANGED vars
  BY <1>39 DEF vars
<1> QED
  BY <1>1, <1>2, <1>3, <1>4, <1>5, <1>6, <1>7, <1>8, <1>9, <1>10, <1>11, <1>12, <1>13, <1>14,
     <1>15, <1>16, <1>17, <1>18, <1>19, <1>20, <1>21, <1>22, <1>23, <1>24, <1>25, <1>26, <1>27,
     <1>28, <1>29, <1>30, <1>31, <1>32, <1>33, <1>34, <1>35, <1>36, <1>37, <1>38, <1>39 DEF
     Next, Watchdog, Probation

(* Every step keeps the boot stamps in order, and a confirm only follows a marker stamped
   after the request. *)
LEMMA DatedPreserved == IInv /\ [Next]_vars => (Dated /\ ConfirmedTargetRan)'
<1> SUFFICES ASSUME IInv, [Next]_vars PROVE (Dated /\ ConfirmedTargetRan)'
  OBVIOUS
<1> USE UpdateAssumption DEF IInv, TypeOK, FilesTyped, DaemonTyped, ScriptsTyped,
           Binaries, WdStates, Requests, NoJob, NoBuild,
           Dated, ConfirmedTargetRan, OneRequest, JobOnDisk, Working
<1>1. CASE Crash
  BY <1>1 DEF Crash, Launch, Alive, files, unit, daemonVars, history, bounds
<1>2. CASE CrashLoop
  BY <1>2 DEF CrashLoop, Alive, files, unit, daemonVars, history, bounds
<1>3. CASE LimitExpires
  BY <1>3 DEF LimitExpires, files, unit, daemonVars, history, bounds
<1>4. CASE MarkBooting
  BY <1>4 DEF MarkBooting, Mark, files, unit, daemonVars, history, bounds
<1>5. CASE MarkHealthy
  BY <1>5 DEF MarkHealthy, Mark, files, unit, daemonVars, history, bounds
<1>6. CASE MarkDegraded
  BY <1>6 DEF MarkDegraded, Mark, files, unit, daemonVars, history, bounds
<1>7. CASE AbandonUpdate
  BY <1>7 DEF AbandonUpdate, NoBuild, files, unit, daemonVars, history, bounds
<1>8. CASE StageUpdate
  BY <1>8 DEF StageUpdate, files, unit, daemonVars, history, bounds
<1>9. CASE ClearLock
  BY <1>9 DEF ClearLock, files, unit, daemonVars, history, bounds
<1>10. CASE FileRequest
  BY <1>10 DEF FileRequest, NoBuild, files, unit, daemonVars, history, bounds
<1>11. CASE Trigger
  BY <1>11 DEF Trigger, files, unit, daemonVars, history, bounds
<1>12. CASE Reconcile
  BY <1>12 DEF Reconcile, WriteConfirmed, Conclude, WdGoto, IsHealthyTarget, files, unit, daemonVars, history, bounds
<1>13. CASE Resume
  BY <1>13 DEF Resume, WdGoto, files, unit, daemonVars, history, bounds
<1>14. CASE Verify
  BY <1>14 DEF Verify, Conclude, WdGoto, files, unit, daemonVars, history, bounds
<1>15. CASE Backup
  BY <1>15 DEF Backup, WdGoto, files, unit, daemonVars, history, bounds
<1>16. CASE BackupFails
  BY <1>16 DEF BackupFails, Conclude, WdGoto, files, unit, daemonVars, history, bounds
<1>17. CASE MarkBackedUp
  BY <1>17 DEF MarkBackedUp, MarkPhase, WdGoto, files, unit, daemonVars, history, bounds
<1>18. CASE StopForSwap
  BY <1>18 DEF StopForSwap, Stop, WdGoto, NoBuild, files, unit, daemonVars, history, bounds
<1>19. CASE SwapIn
  BY <1>19 DEF SwapIn, WdGoto, files, unit, daemonVars, history, bounds
<1>20. CASE SwapFails
  BY <1>20 DEF SwapFails, Start, Launch, Conclude, WdGoto, files, unit, daemonVars, history, bounds
<1>21. CASE MarkSwapped
  BY <1>21 DEF MarkSwapped, MarkPhase, WdGoto, files, unit, daemonVars, history, bounds
<1>22. CASE StartSwapped
  BY <1>22 DEF StartSwapped, Start, Launch, WdGoto, files, unit, daemonVars, history, bounds
<1>23. CASE PollHealthy
  BY <1>23 DEF PollHealthy, WriteConfirmed, Conclude, WdGoto, IsHealthyTarget, files, unit, daemonVars, history, bounds
<1>24. CASE PollGivesUp
  BY <1>24 DEF PollGivesUp, WdGoto, files, unit, daemonVars, history, bounds
<1>25. CASE RollBackStop
  BY <1>25 DEF RollBackStop, Stop, NoBuild, Conclude, WdGoto, files, unit, daemonVars, history, bounds
<1>26. CASE Restore
  BY <1>26 DEF Restore, WdGoto, files, unit, daemonVars, history, bounds
<1>27. CASE RestoreFails
  BY <1>27 DEF RestoreFails, WdGoto, files, unit, daemonVars, history, bounds
<1>28. CASE RestartRestored
  BY <1>28 DEF RestartRestored, Start, Launch, Conclude, WdGoto, files, unit, daemonVars, history, bounds
<1>29. CASE RemoveStaged
  BY <1>29 DEF RemoveStaged, WdGoto, files, unit, daemonVars, history, bounds
<1>30. CASE RemoveRequest
  BY <1>30 DEF RemoveRequest, WdGoto, files, unit, daemonVars, history, bounds
<1>31. CASE RemovePhase
  BY <1>31 DEF RemovePhase, WdGoto, files, unit, daemonVars, history, bounds
<1>32. CASE ProbationDeclines
  BY <1>32 DEF ProbationDeclines, RbGoto, files, unit, daemonVars, history, bounds
<1>33. CASE ProbationBegins
  BY <1>33 DEF ProbationBegins, RbGoto, files, unit, daemonVars, history, bounds
<1>34. CASE ProbationStop
  BY <1>34 DEF ProbationStop, Stop, NoBuild, RbGoto, files, unit, daemonVars, history, bounds
<1>35. CASE ProbationRestore
  BY <1>35 DEF ProbationRestore, RbGoto, files, unit, daemonVars, history, bounds
<1>36. CASE ProbationStart
  BY <1>36 DEF ProbationStart, RbGoto, Launch, files, unit, daemonVars, history, bounds
<1>37. CASE PowerLoss
  BY <1>37 DEF PowerLoss, NoBuild, NoJob, files, unit, daemonVars, history, bounds
<1>38. CASE \E v \in Versions : BeginUpdate(v)
  BY <1>38 DEF BeginUpdate, InFlight, files, unit, daemonVars, history, bounds
<1>39. CASE UNCHANGED vars
  BY <1>39 DEF vars
<1> QED
  BY <1>1, <1>2, <1>3, <1>4, <1>5, <1>6, <1>7, <1>8, <1>9, <1>10, <1>11, <1>12, <1>13, <1>14,
     <1>15, <1>16, <1>17, <1>18, <1>19, <1>20, <1>21, <1>22, <1>23, <1>24, <1>25, <1>26, <1>27,
     <1>28, <1>29, <1>30, <1>31, <1>32, <1>33, <1>34, <1>35, <1>36, <1>37, <1>38, <1>39 DEF
     Next, Watchdog, Probation

(* Every step keeps the probation guard within the confirms that pay for it. *)
LEMMA CreditPreserved == IInv /\ [Next]_vars => Credit'
<1> SUFFICES ASSUME IInv, [Next]_vars PROVE Credit'
  OBVIOUS
<1> USE UpdateAssumption DEF IInv, TypeOK, FilesTyped, DaemonTyped, ScriptsTyped,
           Binaries, WdStates, Requests, NoJob, NoBuild,
           Credit
<1>1. CASE Crash
  BY <1>1 DEF Crash, Launch, Alive, files, unit, daemonVars, history, bounds
<1>2. CASE CrashLoop
  BY <1>2 DEF CrashLoop, Alive, files, unit, daemonVars, history, bounds
<1>3. CASE LimitExpires
  BY <1>3 DEF LimitExpires, files, unit, daemonVars, history, bounds
<1>4. CASE MarkBooting
  BY <1>4 DEF MarkBooting, Mark, files, unit, daemonVars, history, bounds
<1>5. CASE MarkHealthy
  BY <1>5 DEF MarkHealthy, Mark, files, unit, daemonVars, history, bounds
<1>6. CASE MarkDegraded
  BY <1>6 DEF MarkDegraded, Mark, files, unit, daemonVars, history, bounds
<1>7. CASE AbandonUpdate
  BY <1>7 DEF AbandonUpdate, NoBuild, files, unit, daemonVars, history, bounds
<1>8. CASE StageUpdate
  BY <1>8 DEF StageUpdate, files, unit, daemonVars, history, bounds
<1>9. CASE ClearLock
  BY <1>9 DEF ClearLock, files, unit, daemonVars, history, bounds
<1>10. CASE FileRequest
  BY <1>10 DEF FileRequest, NoBuild, files, unit, daemonVars, history, bounds
<1>11. CASE Trigger
  BY <1>11 DEF Trigger, files, unit, daemonVars, history, bounds
<1>12. CASE Reconcile
  BY <1>12 DEF Reconcile, WriteConfirmed, Conclude, WdGoto, IsHealthyTarget, files, unit, daemonVars, history, bounds
<1>13. CASE Resume
  BY <1>13 DEF Resume, WdGoto, files, unit, daemonVars, history, bounds
<1>14. CASE Verify
  BY <1>14 DEF Verify, Conclude, WdGoto, files, unit, daemonVars, history, bounds
<1>15. CASE Backup
  BY <1>15 DEF Backup, WdGoto, files, unit, daemonVars, history, bounds
<1>16. CASE BackupFails
  BY <1>16 DEF BackupFails, Conclude, WdGoto, files, unit, daemonVars, history, bounds
<1>17. CASE MarkBackedUp
  BY <1>17 DEF MarkBackedUp, MarkPhase, WdGoto, files, unit, daemonVars, history, bounds
<1>18. CASE StopForSwap
  BY <1>18 DEF StopForSwap, Stop, WdGoto, NoBuild, files, unit, daemonVars, history, bounds
<1>19. CASE SwapIn
  BY <1>19 DEF SwapIn, WdGoto, files, unit, daemonVars, history, bounds
<1>20. CASE SwapFails
  BY <1>20 DEF SwapFails, Start, Launch, Conclude, WdGoto, files, unit, daemonVars, history, bounds
<1>21. CASE MarkSwapped
  BY <1>21 DEF MarkSwapped, MarkPhase, WdGoto, files, unit, daemonVars, history, bounds
<1>22. CASE StartSwapped
  BY <1>22 DEF StartSwapped, Start, Launch, WdGoto, files, unit, daemonVars, history, bounds
<1>23. CASE PollHealthy
  BY <1>23 DEF PollHealthy, WriteConfirmed, Conclude, WdGoto, IsHealthyTarget, files, unit, daemonVars, history, bounds
<1>24. CASE PollGivesUp
  BY <1>24 DEF PollGivesUp, WdGoto, files, unit, daemonVars, history, bounds
<1>25. CASE RollBackStop
  BY <1>25 DEF RollBackStop, Stop, NoBuild, Conclude, WdGoto, files, unit, daemonVars, history, bounds
<1>26. CASE Restore
  BY <1>26 DEF Restore, WdGoto, files, unit, daemonVars, history, bounds
<1>27. CASE RestoreFails
  BY <1>27 DEF RestoreFails, WdGoto, files, unit, daemonVars, history, bounds
<1>28. CASE RestartRestored
  BY <1>28 DEF RestartRestored, Start, Launch, Conclude, WdGoto, files, unit, daemonVars, history, bounds
<1>29. CASE RemoveStaged
  BY <1>29 DEF RemoveStaged, WdGoto, files, unit, daemonVars, history, bounds
<1>30. CASE RemoveRequest
  BY <1>30 DEF RemoveRequest, WdGoto, files, unit, daemonVars, history, bounds
<1>31. CASE RemovePhase
  BY <1>31 DEF RemovePhase, WdGoto, files, unit, daemonVars, history, bounds
<1>32. CASE ProbationDeclines
  BY <1>32 DEF ProbationDeclines, RbGoto, files, unit, daemonVars, history, bounds
<1>33. CASE ProbationBegins
  BY <1>33 DEF ProbationBegins, RbGoto, files, unit, daemonVars, history, bounds
<1>34. CASE ProbationStop
  BY <1>34 DEF ProbationStop, Stop, NoBuild, RbGoto, files, unit, daemonVars, history, bounds
<1>35. CASE ProbationRestore
  BY <1>35 DEF ProbationRestore, RbGoto, files, unit, daemonVars, history, bounds
<1>36. CASE ProbationStart
  BY <1>36 DEF ProbationStart, RbGoto, Launch, files, unit, daemonVars, history, bounds
<1>37. CASE PowerLoss
  BY <1>37 DEF PowerLoss, NoBuild, NoJob, files, unit, daemonVars, history, bounds
<1>38. CASE \E v \in Versions : BeginUpdate(v)
  BY <1>38 DEF BeginUpdate, InFlight, files, unit, daemonVars, history, bounds
<1>39. CASE UNCHANGED vars
  BY <1>39 DEF vars
<1> QED
  BY <1>1, <1>2, <1>3, <1>4, <1>5, <1>6, <1>7, <1>8, <1>9, <1>10, <1>11, <1>12, <1>13, <1>14,
     <1>15, <1>16, <1>17, <1>18, <1>19, <1>20, <1>21, <1>22, <1>23, <1>24, <1>25, <1>26, <1>27,
     <1>28, <1>29, <1>30, <1>31, <1>32, <1>33, <1>34, <1>35, <1>36, <1>37, <1>38, <1>39 DEF
     Next, Watchdog, Probation

(* The inductive invariant of self-update. *)
THEOREM UpdateInvariant == Spec => []IInv
<1>1. Init => IInv
  <2> SUFFICES ASSUME Init PROVE IInv
    OBVIOUS
  <2> USE UpdateAssumption DEF Init
  <2>1. FlagsTyped
    BY DEF FlagsTyped
  <2>2. FilesTyped /\ DaemonTyped /\ ScriptsTyped
    BY DEF FilesTyped, DaemonTyped, ScriptsTyped, Binaries, WdStates, Requests, NoJob, NoBuild
  <2>3. RunsWhole /\ OneRequest /\ JobOnDisk /\ PhaseFollows /\ HealthyIsProven /\ Proven
        /\ Dated /\ ConfirmedTargetRan /\ Credit
    BY DEF Dated, ConfirmedTargetRan, Credit, RunsWhole, OneRequest, JobOnDisk, PhaseFollows, HealthyIsProven, Proven, NoBuild, Working
  <2> QED
    BY <2>1, <2>2, <2>3 DEF IInv, TypeOK
<1>2. IInv /\ [Next]_vars => IInv'
  BY TypePreserved, FlagsPreserved, ControlPreserved, ProvenPreserved, DatedPreserved,
     CreditPreserved DEF IInv, TypeOK
<1> QED
  BY <1>1, <1>2, PTL DEF Spec

(* Type correctness of the files, the unit and the scripts. *)
THEOREM TypeCorrect == Spec => []TypeOK
<1>1. IInv => TypeOK
  BY DEF IInv
<1> QED
  BY <1>1, UpdateInvariant, PTL

(* "Every exit path leaves /usr/local/bin/agentd a known-good binary", whatever the daemon does,
   wherever power is lost: an unproven binary is only ever installed while a proven backup, the
   phase file and the request that bring the watchdog back are on disk. *)
THEOREM RecoverableAlways == Spec => []Recoverable
<1>1. IInv => Recoverable
  <2> SUFFICES ASSUME IInv, ~restoreFailed, ~torn, bin \notin proven PROVE Recoverable
    BY DEF Recoverable
  <2>1. Proven
    BY DEF IInv
  <2>2. phase # "none" /\ req # None /\ prev \in proven \cup {None}
    BY <2>1 DEF Proven
  <2>3. prev # None
    BY <2>2 DEF IInv, PhaseFollows
  <2>4. phase \in {"none", "BACKED_UP", "SWAPPED"}
    BY DEF IInv, TypeOK, FilesTyped
  <2> QED
    BY <2>2, <2>3, <2>4 DEF Recoverable
<1> QED
  BY <1>1, UpdateInvariant, PTL

(* "a stale marker from before the swap can never read as success". *)
THEOREM ConfirmedTargetRanAlways == Spec => []ConfirmedTargetRan
<1>1. IInv => ConfirmedTargetRan
  BY DEF IInv
<1> QED
  BY <1>1, UpdateInvariant, PTL

(* "we NEVER loop": the probation guard rolls back at most once per confirmed update. *)
THEOREM ProbationIsBounded == Spec => []OneProbationPerConfirm
<1>1. IInv => OneProbationPerConfirm
  BY DEF IInv, Credit, OneProbationPerConfirm
<1> QED
  BY <1>1, UpdateInvariant, PTL

(* "never re-backs-up": the backup is only ever replaced by a binary that has proven itself. *)
THEOREM BackupAlwaysProven == Spec => BackupIsProven
<1>1. IInv /\ IInv' /\ [Next]_vars =>
        [prev' # prev /\ ~restoreFailed /\ ~torn' => prev' \in proven]_vars
  <2> SUFFICES ASSUME IInv, Next, prev' # prev, ~restoreFailed, ~torn' PROVE prev' \in proven
    OBVIOUS
  <2>1. CASE Backup
    <3>1. prev' = bin /\ wd = "backup" /\ torn' = torn
      BY <2>1 DEF Backup, history
    <3>2. phase = "none"
      BY <3>1 DEF IInv, PhaseFollows
    <3>3. Proven
      BY <3>1 DEF IInv
    <3> QED
      BY <3>1, <3>2, <3>3 DEF Proven
  <2>2. CASE PowerLoss
    BY <2>2 DEF PowerLoss
  <2>3. ~Backup /\ ~PowerLoss => prev' = prev
    BY DEF Next, Watchdog, Probation, files, unit, daemonVars, history, bounds, Crash, CrashLoop,
       LimitExpires, MarkBooting, MarkHealthy, MarkDegraded, BeginUpdate, AbandonUpdate,
       StageUpdate, ClearLock, FileRequest, Trigger, Reconcile, WriteConfirmed, Resume, Verify,
       BackupFails, MarkBackedUp, MarkPhase, StopForSwap, SwapIn, SwapFails, MarkSwapped,
       StartSwapped, PollHealthy, PollGivesUp, RollBackStop, Restore, RestoreFails,
       RestartRestored, RemoveStaged, RemoveRequest, RemovePhase, ProbationDeclines,
       ProbationBegins, ProbationStop, ProbationRestore, ProbationStart
  <2> QED
    BY <2>1, <2>2, <2>3
<1> QED
  BY <1>1, UpdateInvariant, PTL DEF Spec, BackupIsProven
=============================================================================

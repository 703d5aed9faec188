--------------------------- MODULE SessionRouter ---------------------------
(***************************************************************************)
(* The agent router of agentd (agentd/src/main.rs) with the session store  *)
(* it writes to (agentd/src/session_store.rs): prompts are serialised per  *)
(* session by the turn gate, every turn is a task of its own that can be   *)
(* aborted, and each session has a resident history and an append-only     *)
(* file.  Sessions are deleted, archived, parked, revived, and reloaded    *)
(* after a crash.                                                          *)
(*                                                                         *)
(* The router is one loop: a handler without an await in its middle is one *)
(* action; one whose awaits let a turn task in between is split, with rpc  *)
(* naming the rest of the handler.  A turn task is split at its awaits, and *)
(* an abort takes effect at any of them.  Opening a session file for append *)
(* and writing the line happen on the runtime's blocking pool: an open is   *)
(* awaited, but survives the abort of its task; a write is only handed     *)
(* over, and lands later.                                                  *)
(*                                                                         *)
(* A prompt is a number; its turn's lines carry the same number.  The      *)
(* history budget is 0 here (no trimming); module History has the trim.    *)
(***************************************************************************)
EXTENDS History

CONSTANTS NoFile,       \* a session without sessions/<id>.jsonl
          NoHistory,    \* a session that is not resident in memory
          Sessions,     \* sessions prompts arrive for
          Workers,      \* those in the worker range: parked and revived
          MaxPrompts,   \* bound: prompts that ever arrive
          MaxCrashes,   \* bound: daemon restarts
          MaxStops,     \* bound: cancels, deletes and archives
          MaxPending    \* bound, by session: lines on their way to the file

ASSUME RouterAssumption ==
  /\ Workers \subseteq Sessions /\ Sessions # {}
  /\ MaxPrompts \in Nat
  /\ MaxCrashes \in Nat
  /\ MaxStops \in Nat
  /\ NoHistory \notin Seq(Message) /\ NoFile \notin Seq(Message)

ASSUME PendingAssumption == MaxPending \in [Sessions -> Nat \ {0}]

VARIABLES
  busy, queued, retired,   \* TurnGate
  tombstones,              \* SessionStore: sessions deleted or archived
  mem,                     \* histories: resident history or NoHistory
  disk,                    \* sessions/<id>.jsonl: its lines, or NoFile
  pool,                    \* lines handed to the blocking pool, not yet written
  handles,                 \* abort_handles: generation per session, 0 if none
  turn,                    \* control state of each generation's turn task
  work,                    \* its locals: snapshot, delta, lines left to persist
  nextGen,                 \* next_turn_gen
  parking,                 \* worker_state_changed{parked} events under way
  rpc,                     \* rest of the router's current handler
  nextPrompt, crashes, stops   \* bounds

gateVars == <<busy, queued, retired>>
storeVars == <<tombstones, mem, disk, pool>>
taskVars == <<handles, turn, work, nextGen>>
boundVars == <<nextPrompt, crashes, stops>>
vars == <<busy, queued, retired, tombstones, mem, disk, pool, handles, turn,
          work, nextGen, parking, rpc, nextPrompt, crashes, stops>>

Prompts == 1..MaxPrompts
Gens == 1..MaxPrompts

\* Phases of a turn task: run_turn, the loop that persists the delta, waiting
\* for a file to open, the history insert, the release of the abort handle.
\* "signal": the slot guard was dropped and its turn_done message is on its
\* way.  "gone": that message was handled.
LivePhases == {"run", "persist", "open", "insert", "finish"}
Phases == LivePhases \cup {"none", "signal", "gone"}

NewTurn(s, p) == [session |-> s, prompt |-> p, pc |-> "run", aborted |-> FALSE, io |-> "none"]

NoTurn == [session |-> CHOOSE s \in Sessions : TRUE, prompt |-> 0, pc |-> "none",
           aborted |-> FALSE, io |-> "none"]

NoWork == [snap |-> <<>>, delta |-> <<>>, rest |-> <<>>]

Idle == [at |-> "select", session |-> CHOOSE s \in Sessions : TRUE]

-----------------------------------------------------------------------------
(* The lines of a turn.                                                     *)

PromptLine(p) == User(<<Text(p)>>)
CancelMarker == Assistant(<<Text(0)>>)

\* What run_turn may add: a reply, or a tool call, its result and the reply.
TurnDeltas(p) ==
  { <<Assistant(<<Text(p)>>)>>,
    <<Assistant(<<ToolUse(p)>>), User(<<ToolResult(p)>>), Assistant(<<Text(p)>>)>> }

Resident(s) == mem[s] # NoHistory
OnDisk(s) == disk[s] # NoFile

\* Mutant of Reloaded: the file is taken as it is.
ReloadedAsIs(file) == IF file = NoFile \/ file = <<>> THEN NoHistory ELSE file

\* What a reload makes of a file (load_one, load_all): nothing if it is empty.
Reloaded(file) ==
  IF file = NoFile THEN NoHistory
  ELSE LET h == RepairHistory(file) IN IF h = <<>> THEN NoHistory ELSE h

\* store.append from the router, its await included: the file exists
\* afterwards, the line is in the hands of the blocking pool.
StoreAppend(s, line) ==
  /\ Len(pool[s]) < MaxPending[s]
  /\ disk' = [disk EXCEPT ![s] = IF @ = NoFile THEN <<>> ELSE @]
  /\ pool' = [pool EXCEPT ![s] = Append(@, line)]

-----------------------------------------------------------------------------
Init ==
  /\ busy = {} /\ retired = {} /\ tombstones = {}
  /\ queued = [s \in Sessions |-> <<>>]
  /\ mem = [s \in Sessions |-> NoHistory]
  /\ disk = [s \in Sessions |-> NoFile]
  /\ pool = [s \in Sessions |-> <<>>]
  /\ handles = [s \in Sessions |-> 0]
  /\ turn = [g \in Gens |-> NoTurn]
  /\ work = [g \in Gens |-> NoWork]
  /\ nextGen = 1
  /\ parking = {}
  /\ rpc = Idle
  /\ nextPrompt = 1 /\ crashes = 0 /\ stops = 0

-----------------------------------------------------------------------------
(* The router.                                                              *)

\* Mutant of SpawnTurn: the abort handle is not recorded.
SpawnTurnDetached(s, p, base, turns) ==
  LET h == Append(IF base = NoHistory THEN <<>> ELSE base, PromptLine(p))
  IN /\ nextGen \in Gens
     /\ mem' = [mem EXCEPT ![s] = h]
     /\ StoreAppend(s, PromptLine(p))
     /\ turn' = [turns EXCEPT ![nextGen] = NewTurn(s, p)]
     /\ work' = [work EXCEPT ![nextGen] = [NoWork EXCEPT !.snap = h]]
     /\ nextGen' = nextGen + 1
     /\ UNCHANGED handles

\* Push the prompt on the history, persist it, spawn the turn under a new
\* generation and remember its abort handle.  (A turn takes a prompt, so there
\* is always a generation left: the bound never blocks.)
SpawnTurn(s, p, base, turns) ==
  LET h == Append(IF base = NoHistory THEN <<>> ELSE base, PromptLine(p))
  IN /\ nextGen \in Gens
     /\ mem' = [mem EXCEPT ![s] = h]
     /\ StoreAppend(s, PromptLine(p))
     /\ turn' = [turns EXCEPT ![nextGen] = NewTurn(s, p)]
     /\ work' = [work EXCEPT ![nextGen] = [NoWork EXCEPT !.snap = h]]
     /\ handles' = [handles EXCEPT ![s] = nextGen]
     /\ nextGen' = nextGen + 1

\* Mutant of Admit: prompts are not serialised.
AdmitUngated(s, p, base) ==
  /\ s \notin retired
  /\ busy' = busy \cup {s}
  /\ SpawnTurn(s, p, base, turn)
  /\ UNCHANGED queued

\* TurnGate::admit: refused, queued behind the turn in flight, or run now.
Admit(s, p, base) ==
  \/ /\ s \in retired
     /\ mem' = [mem EXCEPT ![s] = base]
     /\ UNCHANGED <<busy, queued, disk, pool, taskVars>>
  \/ /\ s \notin retired /\ s \in busy
     /\ queued' = [queued EXCEPT ![s] = Append(@, p)]
     /\ mem' = [mem EXCEPT ![s] = base]
     /\ UNCHANGED <<busy, disk, pool, taskVars>>
  \/ /\ s \notin retired /\ s \notin busy
     /\ busy' = busy \cup {s}
     /\ SpawnTurn(s, p, base, turn)
     /\ UNCHANGED queued

\* A prompt for a parked worker revives its history from the file first.  The
\* handler awaits load_one between the look and the insert; it is one step here, so
\* that a turn still running when its worker was parked inserts its history before
\* the look or after the insert, never in between.
NeedsRevival(s) == s \in Workers /\ ~Resident(s) /\ OnDisk(s)

UserPrompt(s) ==
  /\ rpc = Idle /\ nextPrompt <= MaxPrompts
  /\ nextPrompt' = nextPrompt + 1
  /\ IF s \in tombstones \/ (NeedsRevival(s) /\ Reloaded(disk[s]) = NoHistory)
       THEN UNCHANGED <<busy, queued, mem, disk, pool, taskVars>>
       ELSE Admit(s, nextPrompt, IF NeedsRevival(s) THEN Reloaded(disk[s]) ELSE mem[s])
  /\ UNCHANGED <<retired, tombstones, parking, rpc, crashes, stops>>

\* Mutant of TurnDone: the prompt that came last is served first.
TurnDoneServesLast(g) ==
  LET s == turn[g].session
      done == [turn EXCEPT ![g].pc = "gone"]
  IN /\ rpc = Idle /\ turn[g].pc = "signal"
     /\ \/ /\ s \notin retired /\ queued[s] # <<>>
           /\ queued' = [queued EXCEPT ![s] = Front(@)]
           /\ SpawnTurn(s, Last(queued[s]), mem[s], done)
           /\ UNCHANGED busy
        \/ /\ s \in retired \/ queued[s] = <<>>
           /\ queued' = [queued EXCEPT ![s] = <<>>]
           /\ busy' = busy \ {s}
           /\ turn' = done
           /\ UNCHANGED <<mem, disk, pool, handles, work, nextGen>>
     /\ UNCHANGED <<retired, tombstones, parking, rpc, boundVars>>

\* TurnGate::complete: the slot guard of generation g has fired.  A retired
\* session only frees its slot; else the next queued prompt keeps it busy.
TurnDone(g) ==
  LET s == turn[g].session
      done == [turn EXCEPT ![g].pc = "gone"]
  IN /\ rpc = Idle /\ turn[g].pc = "signal"
     /\ \/ /\ s \notin retired /\ queued[s] # <<>>
           /\ queued' = [queued EXCEPT ![s] = Tail(@)]
           /\ SpawnTurn(s, Head(queued[s]), mem[s], done)
           /\ UNCHANGED busy
        \/ /\ s \in retired \/ queued[s] = <<>>
           /\ queued' = [queued EXCEPT ![s] = <<>>]
           /\ busy' = busy \ {s}
           /\ turn' = done
           /\ UNCHANGED <<mem, disk, pool, handles, work, nextGen>>
     /\ UNCHANGED <<retired, tombstones, parking, rpc, boundVars>>

\* cascade_cancel on a session without sub-agents.
Abort(s) ==
  /\ turn' = [g \in Gens |-> IF g = handles[s] THEN [turn[g] EXCEPT !.aborted = TRUE]
                                              ELSE turn[g]]
  /\ handles' = [handles EXCEPT ![s] = 0]
  /\ UNCHANGED <<work, nextGen>>

\* user_cancel: abort the turn, drop what is queued behind it ...
UserCancel(s) ==
  /\ rpc = Idle /\ stops < MaxStops
  /\ stops' = stops + 1
  /\ Abort(s)
  /\ queued' = [queued EXCEPT ![s] = <<>>]
  /\ rpc' = [at |-> "mark", session |-> s]
  /\ UNCHANGED <<busy, retired, storeVars, parking, nextPrompt, crashes>>

\* Mutant of CancelMark: the marker stays in memory.
CancelMarkInMemory ==
  LET s == rpc.session
  IN /\ rpc.at = "mark"
     /\ mem' = IF Resident(s) /\ mem[s] # <<>> /\ Last(mem[s]).role = "user"
                 THEN [mem EXCEPT ![s] = Append(@, CancelMarker)] ELSE mem
     /\ rpc' = Idle
     /\ UNCHANGED <<gateVars, tombstones, disk, pool, taskVars, parking, boundVars>>

\* Mutant of CancelMark: no marker at all.
CancelMarkNothing ==
  /\ rpc.at = "mark"
  /\ rpc' = Idle
  /\ UNCHANGED <<gateVars, storeVars, taskVars, parking, boundVars>>

\* ... then, under the histories lock, mark the missing reply (only if the
\* history ends on a user message) ...
CancelMark ==
  LET s == rpc.session
      needed == /\ s \notin tombstones
                /\ Resident(s)
                /\ mem[s] # <<>> /\ Last(mem[s]).role = "user"
  IN /\ rpc.at = "mark"
     /\ mem' = IF needed THEN [mem EXCEPT ![s] = Append(@, CancelMarker)] ELSE mem
     /\ rpc' = IF needed THEN [rpc EXCEPT !.at = "persist_marker"] ELSE Idle
     /\ UNCHANGED <<gateVars, tombstones, disk, pool, taskVars, parking, boundVars>>

\* ... and persist the marker.
CancelPersist ==
  /\ rpc.at = "persist_marker"
  /\ StoreAppend(rpc.session, CancelMarker)
  /\ rpc' = Idle
  /\ UNCHANGED <<gateVars, tombstones, mem, taskVars, parking, boundVars>>

\* Mutant of Retire: the prompts queued behind the turn stay.
RetireKeepsQueue(s, kind) ==
  /\ rpc = Idle /\ stops < MaxStops
  /\ stops' = stops + 1
  /\ tombstones' = tombstones \cup {s}
  /\ retired' = retired \cup {s}
  /\ Abort(s)
  /\ rpc' = [at |-> kind, session |-> s]
  /\ UNCHANGED <<busy, queued, mem, disk, pool, parking, nextPrompt, crashes>>

\* Delete or archive: tombstone, retire at the gate, abort ...
Retire(s, kind) ==
  /\ rpc = Idle /\ stops < MaxStops
  /\ stops' = stops + 1
  /\ tombstones' = tombstones \cup {s}
  /\ retired' = retired \cup {s}
  /\ queued' = [queued EXCEPT ![s] = <<>>]
  /\ Abort(s)
  /\ rpc' = [at |-> kind, session |-> s]
  /\ UNCHANGED <<busy, mem, disk, pool, parking, nextPrompt, crashes>>

\* ... then remove or rename the file (writes still under way follow the old
\* file), and forget the history: a delete always, an archive if it moved one.
ApplyRetire ==
  LET s == rpc.session
  IN /\ rpc.at \in {"delete", "archive"}
     /\ mem' = IF rpc.at = "delete" \/ OnDisk(s) THEN [mem EXCEPT ![s] = NoHistory] ELSE mem
     /\ disk' = [disk EXCEPT ![s] = NoFile]
     /\ pool' = [pool EXCEPT ![s] = <<>>]
     /\ rpc' = Idle
     /\ UNCHANGED <<gateVars, tombstones, taskVars, parking, boundVars>>

\* Mutant of Park: any idle session is parked, not only a worker's.
ParkAnySession(s) ==
  /\ s \notin busy \cup parking /\ Resident(s)
  /\ parking' = parking \cup {s}
  /\ UNCHANGED <<gateVars, storeVars, taskVars, rpc, boundVars>>

\* The worker driver parks a worker that is idle ...
Park(s) ==
  /\ s \in Workers \ (busy \cup parking) /\ Resident(s)
  /\ parking' = parking \cup {s}
  /\ UNCHANGED <<gateVars, storeVars, taskVars, rpc, boundVars>>

\* ... and the router evicts its history when the event arrives.
EvictParked(s) ==
  /\ rpc = Idle /\ s \in parking
  /\ parking' = parking \ {s}
  /\ mem' = [mem EXCEPT ![s] = NoHistory]
  /\ UNCHANGED <<gateVars, tombstones, disk, pool, taskVars, rpc, boundVars>>

-----------------------------------------------------------------------------
(* A turn task: root_turn under its slot guard.                             *)

\* The task of g moves on to a phase.
Goto(g, phase) == turn' = [turn EXCEPT ![g].pc = phase]

\* The task is gone, its locals with it; dropping the slot guard sends turn_done.
DropTask(g) ==
  /\ Goto(g, "signal")
  /\ work' = [work EXCEPT ![g] = [NoWork EXCEPT !.delta = work[g].delta]]

\* run_turn returns the extended history.
RunTurnOk(g) ==
  /\ turn[g].pc = "run" /\ Goto(g, "persist")
  /\ \E d \in TurnDeltas(turn[g].prompt) :
       work' = [work EXCEPT ![g].delta = d, ![g].rest = d]
  /\ UNCHANGED <<gateVars, storeVars, handles, nextGen, parking, rpc, boundVars>>

\* run_turn fails: nothing is persisted, the history keeps the bare prompt.
RunTurnErr(g) ==
  /\ turn[g].pc = "run" /\ Goto(g, "finish")
  /\ UNCHANGED <<gateVars, storeVars, handles, work, nextGen, parking, rpc, boundVars>>

\* store.append of the next delta line: a no-op on a tombstoned session ...
SkipLine(g) ==
  /\ turn[g].pc = "persist" /\ work[g].rest # <<>>
  /\ turn[g].session \in tombstones
  /\ work' = [work EXCEPT ![g].rest = Tail(@)]
  /\ UNCHANGED <<gateVars, storeVars, handles, turn, nextGen, parking, rpc, boundVars>>

\* ... else an open is submitted to the blocking pool and awaited.
SubmitOpen(g) ==
  /\ turn[g].pc = "persist" /\ work[g].rest # <<>>
  /\ turn[g].session \notin tombstones
  /\ turn' = [turn EXCEPT ![g].pc = "open", ![g].io = "submitted"]
  /\ UNCHANGED <<gateVars, storeVars, handles, work, nextGen, parking, rpc, boundVars>>

\* The open file takes the line: write_all hands it to the blocking pool.
WriteLine(g) ==
  LET s == turn[g].session
  IN /\ turn[g].pc = "open" /\ turn[g].io = "opened"
     /\ Len(pool[s]) < MaxPending[s]
     /\ pool' = [pool EXCEPT ![s] = Append(@, Head(work[g].rest))]
     /\ turn' = [turn EXCEPT ![g].pc = "persist", ![g].io = "none"]
     /\ work' = [work EXCEPT ![g].rest = Tail(@)]
     /\ UNCHANGED <<gateVars, tombstones, mem, disk, handles, nextGen, parking, rpc, boundVars>>

\* Past the last line: the tombstone check before the history insert ...
Settle(g) ==
  /\ turn[g].pc = "persist" /\ work[g].rest = <<>>
  /\ Goto(g, IF turn[g].session \in tombstones THEN "finish" ELSE "insert")
  /\ UNCHANGED <<gateVars, storeVars, handles, work, nextGen, parking, rpc, boundVars>>

\* ... and the insert, once the histories lock is taken.
InsertHistory(g) ==
  /\ turn[g].pc = "insert" /\ Goto(g, "finish")
  /\ mem' = [mem EXCEPT ![turn[g].session] = work[g].snap \o work[g].delta]
  /\ UNCHANGED <<gateVars, tombstones, disk, pool, handles, work, nextGen, parking, rpc,
                 boundVars>>

\* SessionTracker::finish, generation-checked; then the slot guard drops.
FinishTurn(g) ==
  /\ turn[g].pc = "finish" /\ DropTask(g)
  /\ handles' = [handles EXCEPT ![turn[g].session] = IF @ = g THEN 0 ELSE @]
  /\ UNCHANGED <<gateVars, storeVars, nextGen, parking, rpc, boundVars>>

\* Mutant of AbortLands: an aborted task does not hand its slot back.
AbortLandsSilently(g) ==
  /\ turn[g].aborted /\ turn[g].pc \in LivePhases
  /\ Goto(g, "gone")
  /\ UNCHANGED <<gateVars, storeVars, handles, work, nextGen, parking, rpc, boundVars>>

\* An abort takes effect: the task is dropped where it waits, its guard fires.
\* A blocking open it waited for is still carried out.
AbortLands(g) ==
  /\ turn[g].aborted /\ turn[g].pc \in LivePhases
  /\ DropTask(g)
  /\ UNCHANGED <<gateVars, storeVars, handles, nextGen, parking, rpc, boundVars>>

\* Everything but run_turn itself, which may wait for the provider for ever.
OwnStep(g) ==
  \/ SkipLine(g) \/ SubmitOpen(g) \/ WriteLine(g) \/ Settle(g)
  \/ InsertHistory(g) \/ FinishTurn(g) \/ AbortLands(g)

TurnTask(g) == RunTurnOk(g) \/ RunTurnErr(g) \/ OwnStep(g)

-----------------------------------------------------------------------------
(* The blocking pool, and a crash of the daemon.                            *)

\* open(create, append) is carried out, whether or not its task still waits.
OpenLands(g) ==
  LET s == turn[g].session
  IN /\ turn[g].io = "submitted"
     /\ disk' = [disk EXCEPT ![s] = IF @ = NoFile THEN <<>> ELSE @]
     /\ turn' = [turn EXCEPT ![g].io = "opened"]
     /\ UNCHANGED <<gateVars, tombstones, mem, pool, handles, work, nextGen, parking, rpc,
                    boundVars>>

\* One of the pending writes reaches the file, in any order; a file that was
\* removed in the meantime takes nothing.
WriteLands(s) ==
  /\ \E i \in DOMAIN pool[s] :
       /\ pool' = [pool EXCEPT ![s] = RemoveAt(@, i)]
       /\ disk' = [disk EXCEPT ![s] = IF @ = NoFile THEN @ ELSE Append(@, pool[s][i])]
  /\ UNCHANGED <<gateVars, tombstones, mem, taskVars, parking, rpc, boundVars>>

\* The daemon dies and starts again: everything in memory is lost, pending
\* writes too, and load_all restores every session that is not a worker's.
Restart ==
  /\ crashes < MaxCrashes
  /\ crashes' = crashes + 1
  /\ busy' = {} /\ retired' = {} /\ tombstones' = {}
  /\ queued' = [s \in Sessions |-> <<>>]
  /\ mem' = [s \in Sessions |-> IF s \in Workers THEN NoHistory ELSE Reloaded(disk[s])]
  /\ pool' = [s \in Sessions |-> <<>>]
  /\ handles' = [s \in Sessions |-> 0]
  /\ turn' = [g \in Gens |-> NoTurn]
  /\ work' = [g \in Gens |-> NoWork]
  /\ nextGen' = 1
  /\ parking' = {}
  /\ rpc' = Idle
  /\ UNCHANGED <<disk, nextPrompt, stops>>

-----------------------------------------------------------------------------
Next ==
  \/ \E s \in Sessions :
       \/ UserPrompt(s) \/ UserCancel(s)
       \/ Retire(s, "delete") \/ Retire(s, "archive")
       \/ Park(s) \/ EvictParked(s) \/ WriteLands(s)
  \/ CancelMark \/ CancelPersist \/ ApplyRetire
  \/ \E g \in Gens : TurnDone(g) \/ TurnTask(g) \/ OpenLands(g)
  \/ Restart

Spec == Init /\ [][Next]_vars

\* Every task that can run is eventually polled, but run_turn need not return:
\* the provider clients set a connect timeout only, so a stream may stall.  The
\* router finishes the handler it is in, and select! polls its ready branches
\* in random order, so a turn_done that stays ready is not passed over for ever.
Fairness ==
  /\ \A g \in Gens : /\ WF_vars(OwnStep(g))
                     /\ WF_vars(OpenLands(g))
                     /\ SF_vars(TurnDone(g))
  /\ \A s \in Sessions : WF_vars(WriteLands(s))
  /\ WF_vars(CancelMark) /\ WF_vars(CancelPersist) /\ WF_vars(ApplyRetire)

FairSpec == Spec /\ Fairness

-----------------------------------------------------------------------------
(* Properties.                                                              *)

Live(g) == turn[g].pc \in LivePhases
Holds(g) == turn[g].pc \in LivePhases \cup {"signal"}

\* The types of the gate, the handles, the turn tasks and the bounds.
ControlTypeOK ==
  /\ busy \subseteq Sessions /\ retired \subseteq Sessions /\ tombstones \subseteq Sessions
  /\ queued \in [Sessions -> Seq(Prompts)]
  /\ handles \in [Sessions -> 0..MaxPrompts]
  /\ turn \in [Gens -> [session : Sessions, prompt : 0..MaxPrompts, pc : Phases,
                        aborted : BOOLEAN, io : {"none", "submitted", "opened"}]]
  /\ nextGen \in 1..(MaxPrompts + 1)
  /\ nextPrompt \in 1..(MaxPrompts + 1)
  /\ crashes \in 0..MaxCrashes /\ stops \in 0..MaxStops

(* Every variable has its type: the gate, the store, the turn tasks.        *)
TypeOK ==
  /\ ControlTypeOK
  /\ parking \subseteq Workers
  /\ \A s \in Sessions : Resident(s) => mem[s] \in Seq(Message)
  /\ \A s \in Sessions : OnDisk(s) => disk[s] \in Seq(Message)
  /\ pool \in [Sessions -> Seq(Message)]
  /\ work \in [Gens -> [snap : Seq(Message), delta : Seq(Message), rest : Seq(Message)]]
  /\ rpc \in [at : {"select", "mark", "persist_marker", "delete", "archive"},
              session : Sessions]

(* The turn gate's promise: a session has at most one turn that is running   *)
(* or has not handed its slot back, and the slot is taken exactly then.      *)
OneTurnPerSession ==
  /\ \A g, h \in Gens :
       Holds(g) /\ Holds(h) /\ turn[g].session = turn[h].session => g = h
  /\ \A s \in Sessions :
       s \in busy <=> \E g \in Gens : Holds(g) /\ turn[g].session = s

(* A turn that runs and was not aborted can be: its session's handle is its  *)
(* own generation, so no other turn's handle replaced or removed it.         *)
RunningTurnIsCancellable ==
  \A g \in Gens : Live(g) /\ ~turn[g].aborted => handles[turn[g].session] = g

(* A retired session has nothing queued and no turn that was not aborted,    *)
(* so nothing of it can start again before a restart.                        *)
RetiredSessionIsStopped ==
  \A s \in tombstones :
    /\ queued[s] = <<>>
    /\ s \in retired
    /\ \A g \in Gens : Live(g) /\ turn[g].session = s => turn[g].aborted

(* Whatever order the lines of a file landed in, wherever a turn was aborted *)
(* or the daemon died: the history a session resumes with is one the         *)
(* provider accepts.                                                         *)
ResidentHistoryIsValid ==
  \A s \in Sessions : Resident(s) => ApiValid(mem[s])

(* No turn's history write clobbers another's: the prompt of every turn      *)
(* started since the last restart is in its session's history, and so is the *)
(* reply of every one that ended well (a parked worker's history aside).     *)
NoTurnIsForgotten ==
  \A g \in Gens :
    LET t == turn[g]
    IN t.pc # "none" /\ t.session \notin tombstones \cup Workers =>
         /\ Resident(t.session)
         /\ Contains(mem[t.session], PromptLine(t.prompt))
         /\ t.pc = "gone" /\ work[g].delta # <<>> /\ ~t.aborted
              => Contains(mem[t.session], Last(work[g].delta))

(* What the session remembers, a restart remembers: every line of a resident *)
(* history is in the file or on its way there, except the markers a reload   *)
(* made up and the cancel marker about to be written.                        *)
RememberedIsDurable ==
  \A s \in Sessions \ tombstones :
    Resident(s) =>
      \A i \in DOMAIN mem[s] :
        \/ OnDisk(s) /\ Contains(disk[s], mem[s][i])
        \/ Contains(pool[s], mem[s][i])
        \/ \E k \in DOMAIN mem[s][i].content :
             mem[s][i].content[k].kind \in {"lost_result", "opening_lost"}
        \/ rpc = [at |-> "persist_marker", session |-> s] /\ mem[s][i] = CancelMarker

\* The prompts a session works on: those of the turns that run or have not
\* handed the slot back.
RunningPrompts(s) ==
  { turn[g].prompt : g \in {h \in Gens : Holds(h) /\ turn[h].session = s} }

Queue == INSTANCE TurnQueue WITH
           running <- [s \in Sessions |-> RunningPrompts(s)],
           waiting <- queued,
           arrived <- nextPrompt

(* The router, whose slot is handed over by a message of the ended task and  *)
(* whose cancels abort tasks at their awaits, implements the queue of        *)
(* prompts: one at a time, in order of arrival, with nothing between the end *)
(* of a turn and the start of the next.                                      *)
ServesInOrder == Queue!Spec

(* The slot of a turn that run_turn has left, well or with an error, or that *)
(* was aborted, a stalled provider stream included, comes back: the session  *)
(* is free again or works on the next prompt.                                *)
SlotComesBack ==
  \A g \in Gens, s \in Sessions :
    Holds(g) /\ turn[g].session = s /\ (turn[g].aborted \/ turn[g].pc # "run")
      ~> s \notin busy \/ \E h \in Gens \ {g} : Holds(h) /\ turn[h].session = s

(* What the cancel marker is for: the prompt of a cancelled turn is followed  *)
(* by an assistant message, the marker or the reply a turn that was already   *)
(* past its abort put there, so the next prompt never follows it directly.   *)
(* (A deleted session, and a worker whose history was evicted, aside.)       *)
CancelledPromptIsAnswered ==
  \A g \in Gens :
    LET t == turn[g]
    IN /\ t.aborted /\ t.session \notin tombstones \cup Workers
       /\ rpc # [at |-> "mark", session |-> t.session]
       => \E i \in DOMAIN mem[t.session] :
            /\ mem[t.session][i] = PromptLine(t.prompt)
            /\ i + 1 \in DOMAIN mem[t.session]
            /\ mem[t.session][i + 1].role = "assistant"
=============================================================================

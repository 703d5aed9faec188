------------------------ MODULE SessionRouter_proofs ------------------------
(***************************************************************************)
(* The agent router proved correct for any number of sessions, prompts,    *)
(* cancels, retirements and restarts.                                      *)
(*                                                                         *)
(* - The turn gate: one turn per session, every running turn cancellable,  *)
(*   a retired session stopped.  None of the three is inductive alone.     *)
(*   That a new turn does not collide with an old one needs to know that   *)
(*   generations from nextGen on are unused; that a retirement aborts the  *)
(*   turn in flight needs the handle of that turn to be the session's;     *)
(*   that no queued prompt starts behind a retirement needs the gate's and *)
(*   the store's marks to agree.                                           *)
(* - The queue: the router implements the queue of prompts of TurnQueue.   *)
(* - The histories: a session resumes with a history the provider accepts. *)
(* - The turns: none is forgotten.                                         *)
(* - The files: what a session remembers, a restart remembers.             *)
(***************************************************************************)
EXTENDS SessionRouter, History_proofs

\* Generations not handed out yet belong to no turn.
FreshGenerations == \A g \in Gens : g >= nextGen => turn[g].pc = "none"

GateInv ==
  /\ ControlTypeOK
  /\ OneTurnPerSession
  /\ RunningTurnIsCancellable
  /\ RetiredSessionIsStopped
  /\ FreshGenerations

Turns == [session : Sessions, prompt : 0..MaxPrompts, pc : Phases,
          aborted : BOOLEAN, io : {"none", "submitted", "opened"}]

\* The empty turn record is a turn record.
LEMMA NoTurnType == NoTurn \in Turns /\ NoTurn.pc = "none" /\ NoTurn.aborted = FALSE
<1>1. (CHOOSE s \in Sessions : TRUE) \in Sessions
  BY RouterAssumption
<1> QED
  BY <1>1, RouterAssumption DEF NoTurn, Turns, Phases, LivePhases

\* Initially no turn holds a slot.
LEMMA GateInit == Init => GateInv
<1> SUFFICES ASSUME Init PROVE GateInv
  OBVIOUS
<1> USE RouterAssumption
<1>1. \A g \in Gens : turn[g] \in Turns /\ turn[g].pc = "none"
  BY NoTurnType DEF Init
<1>2. ControlTypeOK
  BY <1>1 DEF Init, ControlTypeOK, Turns, Gens, Prompts
<1>3. \A g \in Gens : ~Holds(g) /\ ~Live(g)
  BY <1>1 DEF Holds, Live, LivePhases
<1> QED
  BY <1>1, <1>2, <1>3 DEF Init, GateInv, OneTurnPerSession, RunningTurnIsCancellable,
       RetiredSessionIsStopped, FreshGenerations

\* The tasks are as they were, but for one of s that handed its slot over and is
\* gone; nobody holds the slot of s.
SlotIsFree(turns, s) ==
  /\ \A g \in Gens : turns[g].pc = turn[g].pc \/ turns[g].pc = "gone"
  /\ \A g \in Gens : turns[g].session = turn[g].session /\ turns[g].aborted = turn[g].aborted
  /\ \A g \in Gens : turns[g].pc \in LivePhases \cup {"signal"} => turns[g].session # s
  /\ \A g \in Gens : turns[g].pc = "gone" /\ turn[g].pc # "gone" =>
       turn[g].session = s /\ turn[g].pc = "signal"

\* Starting a turn on a free slot, or in place of one that just handed its slot
\* over: `turns` holds the session's slot for nobody else.
LEMMA SpawnKeepsGate ==
  ASSUME GateInv,
         NEW STATE s, s \in Sessions, NEW STATE p, p \in Prompts, NEW STATE base,
         NEW STATE turns, turns \in [Gens -> Turns],
         s \notin tombstones, s \notin retired,
         SpawnTurn(s, p, base, turns), SlotIsFree(turns, s),
         busy' = busy \cup {s},
         queued' \in [Sessions -> Seq(Prompts)],
         \A t \in Sessions \ {s} : queued'[t] = queued[t],
         UNCHANGED <<retired, tombstones, crashes, stops>>,
         nextPrompt' \in 1..(MaxPrompts + 1)
  PROVE GateInv'
<1> USE RouterAssumption
<1> SUFFICES
      ASSUME \A g \in Gens : turns[g].pc = turn[g].pc \/ turns[g].pc = "gone",
             \A g \in Gens : turns[g].session = turn[g].session
                               /\ turns[g].aborted = turn[g].aborted,
             \A g \in Gens : turns[g].pc \in LivePhases \cup {"signal"} => turns[g].session # s,
             \A g \in Gens : turns[g].pc = "gone" /\ turn[g].pc # "gone" =>
               turn[g].session = s /\ turn[g].pc = "signal"
      PROVE  GateInv'
  BY DEF SlotIsFree
<1> DEFINE new == NewTurn(s, p)
<1>0. PICK n \in Gens : n = nextGen
  BY DEF SpawnTurn
<1>1. n \in Nat /\ n = nextGen
  BY <1>0 DEF Gens
<1>2. /\ turn' = [turns EXCEPT ![n] = new]
      /\ handles' = [handles EXCEPT ![s] = n]
      /\ nextGen' = n + 1
  BY <1>1 DEF SpawnTurn
<1>3. new \in Turns /\ new.pc = "run" /\ new.session = s /\ new.aborted = FALSE
  <2>1. p \in 0..MaxPrompts
    BY DEF Prompts
  <2> QED
    BY <2>1 DEF NewTurn, Turns, Phases, LivePhases
<1>4. turn' \in [Gens -> Turns]
  BY <1>1, <1>2, <1>3
<1>5. /\ turn'[n] = new
      /\ \A g \in Gens \ {n} : turn'[g] = turns[g]
  BY <1>1, <1>2
<1>6. ControlTypeOK'
  <2>1. handles' \in [Sessions -> 0..MaxPrompts]
    BY <1>1, <1>2 DEF GateInv, ControlTypeOK, Gens
  <2>2. nextGen' \in 1..(MaxPrompts + 1)
    BY <1>1, <1>2 DEF Gens
  <2>3. busy' \subseteq Sessions
    BY DEF GateInv, ControlTypeOK
  <2> QED
    BY <1>4, <2>1, <2>2, <2>3 DEF GateInv, ControlTypeOK, Turns
<1>7. \A g \in Gens : Holds(g)' =>
         \/ g = n
         \/ g # n /\ Holds(g) /\ turn'[g].session = turn[g].session
              /\ turn[g].session # s
  BY <1>5 DEF Holds, LivePhases
<1>8. turn'[n].session = s /\ Holds(n)'
  BY <1>3, <1>5 DEF Holds, LivePhases
<1>9. OneTurnPerSession'
  <2>1. \A g, h \in Gens :
          Holds(g)' /\ Holds(h)' /\ turn'[g].session = turn'[h].session => g = h
    BY <1>7, <1>8 DEF GateInv, OneTurnPerSession
  <2>2. ASSUME NEW t \in Sessions
        PROVE t \in busy' <=> \E g \in Gens : Holds(g)' /\ turn'[g].session = t
    <3>1. CASE t = s
      BY <3>1, <1>8, <1>1
    <3>2. CASE t # s
      <4>1. \A g \in Gens : Holds(g) /\ turn[g].session = t =>
               g # n /\ Holds(g)' /\ turn'[g].session = t
        <5> SUFFICES ASSUME NEW g \in Gens, Holds(g), turn[g].session = t
                     PROVE g # n /\ Holds(g)' /\ turn'[g].session = t
          OBVIOUS
        <5>1. g # n
          BY <1>1 DEF GateInv, FreshGenerations, Holds, LivePhases
        <5>2. turns[g].pc = turn[g].pc
          BY <3>2
        <5> QED
          BY <5>1, <5>2, <1>5 DEF Holds
      <4>2. t \in busy' <=> t \in busy
        BY <3>2
      <4>3. t \in busy <=> \E g \in Gens : Holds(g) /\ turn[g].session = t
        BY DEF GateInv, OneTurnPerSession
      <4>4. \A g \in Gens : Holds(g)' /\ turn'[g].session = t => Holds(g) /\ turn[g].session = t
        BY <1>7, <1>8, <3>2
      <4> QED
        BY <4>1, <4>2, <4>3, <4>4
    <3> QED
      BY <3>1, <3>2
  <2> QED
    BY <2>1, <2>2 DEF OneTurnPerSession, Holds
<1>10. RunningTurnIsCancellable'
  <2> SUFFICES ASSUME NEW g \in Gens, Live(g)', ~turn'[g].aborted
               PROVE handles'[turn'[g].session] = g
    BY DEF RunningTurnIsCancellable, Live
  <2>1. CASE g = n
    BY <2>1, <1>2, <1>8 DEF GateInv, ControlTypeOK
  <2>2. CASE g # n
    <3>1. Holds(g)'
      BY DEF Live, Holds
    <3>2. turn'[g].session = turn[g].session /\ turn[g].session # s
      BY <3>1, <2>2, <1>7
    <3>3. Live(g) /\ ~turn[g].aborted
      BY <2>2, <1>5, <3>2 DEF Live, LivePhases
    <3>4. handles[turn[g].session] = g
      BY <3>3 DEF GateInv, RunningTurnIsCancellable
    <3>5. turn[g].session \in Sessions
      BY DEF GateInv, ControlTypeOK
    <3> QED
      BY <3>2, <3>4, <3>5, <1>2 DEF GateInv, ControlTypeOK
  <2> QED
    BY <2>1, <2>2
<1>11. RetiredSessionIsStopped'
  <2> SUFFICES ASSUME NEW t \in tombstones
               PROVE /\ queued'[t] = <<>> /\ t \in retired
                     /\ \A g \in Gens : Live(g)' /\ turn'[g].session = t => turn'[g].aborted
    BY DEF RetiredSessionIsStopped, Live
  <2>1. t \in Sessions /\ t # s
    BY DEF GateInv, ControlTypeOK
  <2>2. queued'[t] = <<>> /\ t \in retired
    BY <2>1 DEF GateInv, RetiredSessionIsStopped
  <2>3. ASSUME NEW g \in Gens, Live(g)', turn'[g].session = t
        PROVE turn'[g].aborted
    <3>1. g # n
      BY <2>3, <2>1, <1>8
    <3>2. Live(g) /\ turn[g].session = t
      BY <2>3, <3>1, <1>5 DEF Live, LivePhases
    <3> QED
      BY <3>1, <3>2, <1>5 DEF GateInv, RetiredSessionIsStopped
  <2> QED
    BY <2>2, <2>3
<1>12. FreshGenerations'
  <2> SUFFICES ASSUME NEW g \in Gens, g >= n + 1
               PROVE turn'[g].pc = "none"
    BY <1>2 DEF FreshGenerations
  <2>1. g # n /\ g >= n
    BY <1>1 DEF Gens
  <2>2. turn[g].pc = "none"
    <3>1. \A k \in Gens : k >= nextGen => turn[k].pc = "none"
      BY DEF GateInv, FreshGenerations
    <3>2. g >= nextGen
      BY <1>1, <2>1
    <3> QED
      BY <3>1, <3>2
  <2>3. turns[g].pc # "gone"
    BY <2>2
  <2> QED
    BY <2>1, <2>2, <2>3, <1>5
<1> QED
  BY <1>6, <1>9, <1>10, <1>11, <1>12 DEF GateInv

-----------------------------------------------------------------------------
\* A step of one task, or an abort: no turn changes its session or its hold on
\* the slot, none is revived, and the handles still name the running turns.
LEMMA TaskStepKeepsGate ==
  ASSUME GateInv, turn' \in [Gens -> Turns],
         \A g \in Gens : /\ turn'[g].session = turn[g].session
                         /\ turn[g].aborted => turn'[g].aborted
                         /\ Holds(g)' <=> Holds(g)
                         /\ Live(g)' => Live(g)
                         /\ turn[g].pc = "none" => turn'[g].pc = "none",
         handles' \in [Sessions -> 0..MaxPrompts],
         RunningTurnIsCancellable',
         UNCHANGED <<gateVars, tombstones, nextGen, boundVars>>
  PROVE GateInv'
<1>1. ControlTypeOK'
  BY DEF GateInv, ControlTypeOK, Turns, gateVars, boundVars
<1>2. OneTurnPerSession'
  BY DEF GateInv, OneTurnPerSession, gateVars
<1>3. RetiredSessionIsStopped'
  BY DEF GateInv, RetiredSessionIsStopped, gateVars
<1>4. FreshGenerations'
  BY DEF GateInv, FreshGenerations
<1> QED
  BY <1>1, <1>2, <1>3, <1>4 DEF GateInv

\* The task of g moves on, every other stays where it is.
OnlyMoves(g) ==
  /\ turn' \in [Gens -> Turns]
  /\ turn'[g].session = turn[g].session
  /\ turn'[g].aborted = turn[g].aborted
  /\ \A h \in Gens \ {g} : turn'[h] = turn[h]

\* What an assignment to the phase, or to the phase and the open, changes.
LEMMA GotoMoves ==
  ASSUME ControlTypeOK, NEW g \in Gens, NEW ph \in Phases,
         NEW i \in {"none", "submitted", "opened"}
  PROVE  /\ Goto(g, ph) => OnlyMoves(g) /\ turn'[g].pc = ph
         /\ turn' = [turn EXCEPT ![g].pc = ph, ![g].io = i]
              => OnlyMoves(g) /\ turn'[g].pc = ph
         /\ turn' = [turn EXCEPT ![g].io = i]
              => OnlyMoves(g) /\ turn'[g].pc = turn[g].pc
<1>1. turn \in [Gens -> Turns]
  BY DEF ControlTypeOK, Turns
<1>2. /\ [turn[g] EXCEPT !.pc = ph] \in Turns
      /\ [turn[g] EXCEPT !.pc = ph, !.io = i] \in Turns
      /\ [turn[g] EXCEPT !.io = i] \in Turns
  BY <1>1 DEF Turns
<1>3. ASSUME Goto(g, ph) PROVE OnlyMoves(g) /\ turn'[g].pc = ph
  <2>1. turn' = [turn EXCEPT ![g] = [turn[g] EXCEPT !.pc = ph]]
    BY <1>1, <1>3 DEF Turns, Goto
  <2> QED
    BY <1>1, <1>2, <2>1 DEF OnlyMoves, Turns
<1>4. ASSUME turn' = [turn EXCEPT ![g].pc = ph, ![g].io = i]
      PROVE  OnlyMoves(g) /\ turn'[g].pc = ph
  <2>1. turn' = [turn EXCEPT ![g] = [turn[g] EXCEPT !.pc = ph, !.io = i]]
    BY <1>1, <1>4 DEF Turns
  <2> QED
    BY <1>1, <1>2, <2>1 DEF OnlyMoves, Turns
<1>5. ASSUME turn' = [turn EXCEPT ![g].io = i]
      PROVE  OnlyMoves(g) /\ turn'[g].pc = turn[g].pc
  <2>1. turn' = [turn EXCEPT ![g] = [turn[g] EXCEPT !.io = i]]
    BY <1>1, <1>5 DEF Turns
  <2> QED
    BY <1>1, <1>2, <2>1 DEF OnlyMoves, Turns
<1> QED
  BY <1>3, <1>4, <1>5

\* A phase change of one task within its hold on the slot.
LEMMA PhaseStepKeepsGate ==
  ASSUME GateInv, NEW g \in Gens, OnlyMoves(g),
         \/ turn'[g].pc = turn[g].pc
         \/ turn[g].pc \in LivePhases /\ turn'[g].pc \in LivePhases \cup {"signal"},
         \/ handles' = handles
         \/ /\ handles' = [handles EXCEPT ![turn[g].session] = IF @ = g THEN 0 ELSE @]
            /\ turn'[g].pc = "signal",
         UNCHANGED <<gateVars, tombstones, nextGen, boundVars>>
  PROVE GateInv'
<1> USE RouterAssumption DEF OnlyMoves
<1>1. turn \in [Gens -> Turns] /\ handles \in [Sessions -> 0..MaxPrompts]
  BY DEF GateInv, ControlTypeOK, Turns
<1>2. turn[g].session \in Sessions
  BY <1>1 DEF Turns
<1>4. handles' \in [Sessions -> 0..MaxPrompts]
  BY <1>1, <1>2
<1>5. \A h \in Gens : /\ turn'[h].session = turn[h].session
                      /\ turn[h].aborted => turn'[h].aborted
                      /\ Holds(h)' <=> Holds(h)
                      /\ Live(h)' => Live(h)
                      /\ turn[h].pc = "none" => turn'[h].pc = "none"
  BY DEF Holds, Live, LivePhases
<1>6. RunningTurnIsCancellable'
  <2> SUFFICES ASSUME NEW h \in Gens, Live(h)', ~turn'[h].aborted
               PROVE handles'[turn'[h].session] = h
    BY DEF RunningTurnIsCancellable, Live
  <2>1. Live(h) /\ ~turn[h].aborted /\ turn'[h].session = turn[h].session
    BY <1>2, <1>5
  <2>2. handles[turn[h].session] = h /\ turn[h].session \in Sessions
    BY <2>1, <1>1 DEF GateInv, RunningTurnIsCancellable, Turns
  <2>3. CASE handles' = handles
    BY <2>1, <2>2, <2>3
  <2>4. CASE handles' = [handles EXCEPT ![turn[g].session] = IF @ = g THEN 0 ELSE @]
               /\ turn'[g].pc = "signal"
    <3>1. h # g
      BY <2>4, <1>2 DEF Live, LivePhases
    <3> QED
      BY <3>1, <2>1, <2>2, <2>4, <1>1
  <2> QED
    BY <2>3, <2>4
<1> QED
  BY <1>4, <1>5, <1>6, TaskStepKeepsGate

\* A cancel or a retirement aborts the session's turn and empties its queue.
LEMMA AbortKeepsGate ==
  ASSUME GateInv, NEW s \in Sessions, Abort(s),
         queued' = [queued EXCEPT ![s] = <<>>],
         \/ UNCHANGED <<retired, tombstones>>
         \/ retired' = retired \cup {s} /\ tombstones' = tombstones \cup {s},
         stops' \in 0..MaxStops,
         UNCHANGED <<busy, nextPrompt, crashes>>
  PROVE GateInv'
<1> USE RouterAssumption
<1>1. turn \in [Gens -> Turns] /\ handles \in [Sessions -> 0..MaxPrompts]
  BY DEF GateInv, ControlTypeOK, Turns
<1>2. /\ handles' = [handles EXCEPT ![s] = 0]
      /\ nextGen' = nextGen
      /\ turn' = [g \in Gens |-> IF g = handles[s] THEN [turn[g] EXCEPT !.aborted = TRUE]
                                                   ELSE turn[g]]
  BY DEF Abort
<1>3. \A g \in Gens : /\ turn'[g] \in Turns
                      /\ turn'[g].session = turn[g].session
                      /\ turn'[g].pc = turn[g].pc
                      /\ turn[g].aborted => turn'[g].aborted
                      /\ g = handles[s] => turn'[g].aborted
  BY <1>1, <1>2 DEF Turns
<1>4. turn' \in [Gens -> Turns] /\ handles' \in [Sessions -> 0..MaxPrompts]
  BY <1>1, <1>2, <1>3
<1>5. queued' \in [Sessions -> Seq(Prompts)]
  BY DEF GateInv, ControlTypeOK
<1>6. ControlTypeOK'
  BY <1>2, <1>4, <1>5 DEF GateInv, ControlTypeOK, Turns
<1>7. OneTurnPerSession'
  BY <1>3 DEF GateInv, OneTurnPerSession, Holds
<1>8. \A g \in Gens : Live(g)' /\ ~turn'[g].aborted =>
         /\ Live(g) /\ ~turn[g].aborted
         /\ turn[g].session # s
         /\ handles[turn[g].session] = g
  BY <1>3 DEF GateInv, RunningTurnIsCancellable, Live
<1>9. RunningTurnIsCancellable'
  <2> SUFFICES ASSUME NEW h \in Gens, Live(h)', ~turn'[h].aborted
               PROVE handles'[turn'[h].session] = h
    BY DEF RunningTurnIsCancellable, Live
  <2> QED
    BY <1>1, <1>2, <1>3, <1>8 DEF Turns
<1>10. RetiredSessionIsStopped'
  <2> SUFFICES ASSUME NEW t \in tombstones'
               PROVE /\ queued'[t] = <<>> /\ t \in retired'
                     /\ \A g \in Gens : Live(g)' /\ turn'[g].session = t => turn'[g].aborted
    BY DEF RetiredSessionIsStopped, Live
  <2>1. CASE t = s
    <3>1. queued'[t] = <<>>
      BY <2>1 DEF GateInv, ControlTypeOK
    <3>2. t \in retired'
      BY <2>1 DEF GateInv, RetiredSessionIsStopped
    <3>3. \A g \in Gens : Live(g)' /\ turn'[g].session = t => turn'[g].aborted
      BY <2>1, <1>3, <1>8
    <3> QED
      BY <3>1, <3>2, <3>3
  <2>2. CASE t # s
    <3>1. t \in tombstones /\ t \in Sessions
      BY <2>2 DEF GateInv, ControlTypeOK
    <3>2. queued'[t] = queued[t]
      BY <2>2, <3>1 DEF GateInv, ControlTypeOK
    <3> QED
      BY <3>1, <3>2, <1>3 DEF GateInv, RetiredSessionIsStopped, Live
  <2> QED
    BY <2>1, <2>2
<1>11. FreshGenerations'
  BY <1>2, <1>3 DEF GateInv, FreshGenerations
<1> QED
  BY <1>6, <1>7, <1>9, <1>10, <1>11 DEF GateInv

-----------------------------------------------------------------------------
\* The steps that leave the gate, the handles and the tasks alone.
LEMMA StoreStepKeepsGate ==
  ASSUME GateInv, UNCHANGED <<gateVars, tombstones, handles, turn, nextGen, boundVars>>
  PROVE GateInv'
BY DEF GateInv, ControlTypeOK, OneTurnPerSession, RunningTurnIsCancellable,
       RetiredSessionIsStopped, FreshGenerations, Holds, Live, gateVars, boundVars

\* A prompt: refused, queued, or started on a free slot.
LEMMA UserPromptKeepsGate ==
  ASSUME GateInv, NEW s \in Sessions, UserPrompt(s)
  PROVE GateInv'
<1> USE RouterAssumption
<1> DEFINE base == IF NeedsRevival(s) THEN Reloaded(disk[s]) ELSE mem[s]
<1>1. nextPrompt \in Prompts /\ nextPrompt' \in 1..(MaxPrompts + 1)
  BY DEF GateInv, ControlTypeOK, UserPrompt, Prompts
<1>2. UNCHANGED <<retired, tombstones, crashes, stops>>
  BY DEF UserPrompt
<1>3. CASE UNCHANGED <<busy, queued, taskVars>>
  BY <1>1, <1>2, <1>3 DEF GateInv, ControlTypeOK, OneTurnPerSession, RunningTurnIsCancellable,
       RetiredSessionIsStopped, FreshGenerations, Holds, Live, taskVars
<1>4. CASE s \notin tombstones /\ Admit(s, nextPrompt, base)
  <2>1. CASE s \in retired
    <3>1. UNCHANGED <<busy, queued, taskVars>>
      BY <1>4, <2>1 DEF Admit
    <3> QED
      BY <3>1, <1>3
  <2>2. CASE s \notin retired /\ s \in busy
    <3>1. queued' = [queued EXCEPT ![s] = Append(@, nextPrompt)] /\ UNCHANGED <<busy, taskVars>>
      BY <1>4, <2>2 DEF Admit
    <3>2. queued' \in [Sessions -> Seq(Prompts)]
      BY <3>1, <1>1 DEF GateInv, ControlTypeOK
    <3>3. ControlTypeOK'
      BY <3>1, <3>2, <1>1, <1>2 DEF GateInv, ControlTypeOK, taskVars
    <3>4. \A t \in tombstones : queued'[t] = queued[t]
      BY <3>1, <1>4 DEF GateInv, ControlTypeOK
    <3> QED
      BY <3>1, <3>3, <3>4, <1>2 DEF GateInv, OneTurnPerSession, RunningTurnIsCancellable,
           RetiredSessionIsStopped, FreshGenerations, Holds, Live, taskVars
  <2>3. CASE s \notin retired /\ s \notin busy
    <3>1. SpawnTurn(s, nextPrompt, base, turn) /\ busy' = busy \cup {s} /\ queued' = queued
      BY <1>4, <2>3 DEF Admit
    <3>2. turn \in [Gens -> Turns] /\ queued' \in [Sessions -> Seq(Prompts)]
      BY <3>1 DEF GateInv, ControlTypeOK, Turns
    <3>3. SlotIsFree(turn, s)
      BY <2>3 DEF SlotIsFree, GateInv, OneTurnPerSession, Holds
    <3> HIDE DEF base
    <3> QED
      BY <1>1, <1>2, <1>4, <2>3, <3>1, <3>2, <3>3, SpawnKeepsGate
  <2> QED
    BY <2>1, <2>2, <2>3
<1> QED
  BY <1>3, <1>4 DEF UserPrompt

\* A slot that comes back: freed, or handed to the next queued prompt.
LEMMA TurnDoneKeepsGate ==
  ASSUME GateInv, NEW g \in Gens, TurnDone(g)
  PROVE GateInv'
<1> USE RouterAssumption
<1> DEFINE done == [turn EXCEPT ![g].pc = "gone"]
<1>0. PICK s \in Sessions : s = turn[g].session
  BY DEF GateInv, ControlTypeOK
<1>1. turn \in [Gens -> Turns] /\ turn[g].pc = "signal"
  BY DEF GateInv, ControlTypeOK, Turns, TurnDone
<1>2. [turn[g] EXCEPT !.pc = "gone"] \in Turns
  BY <1>1 DEF Turns, Phases
<1>3. done = [turn EXCEPT ![g] = [turn[g] EXCEPT !.pc = "gone"]]
  BY <1>1 DEF Turns
<1>4. /\ done \in [Gens -> Turns] /\ done[g].pc = "gone"
      /\ done[g].session = s /\ done[g].aborted = turn[g].aborted
      /\ \A h \in Gens \ {g} : done[h] = turn[h]
  BY <1>0, <1>1, <1>2, <1>3 DEF Turns
<1>5. \A h \in Gens : done[h].pc \in LivePhases \cup {"signal"} =>
         h # g /\ Holds(h) /\ turn[h].session # s
  BY <1>0, <1>1, <1>4 DEF GateInv, OneTurnPerSession, Holds, LivePhases
<1>6. s \in busy
  BY <1>0, <1>1 DEF GateInv, OneTurnPerSession, Holds
<1>7. UNCHANGED <<retired, tombstones, nextPrompt, crashes, stops>>
  BY DEF TurnDone, boundVars
<1> HIDE DEF done
<1>8. CASE s \notin retired /\ queued[s] # <<>>
  <2>1. /\ queued' = [queued EXCEPT ![s] = Tail(@)] /\ busy' = busy
        /\ SpawnTurn(s, Head(queued[s]), mem[s], done)
    BY <1>0, <1>8 DEF TurnDone, done
  <2>2. Head(queued[s]) \in Prompts /\ queued' \in [Sessions -> Seq(Prompts)]
    BY <2>1, <1>8 DEF GateInv, ControlTypeOK
  <2>3. \A t \in Sessions \ {s} : queued'[t] = queued[t]
    BY <2>1 DEF GateInv, ControlTypeOK
  <2>4. s \notin tombstones
    BY <1>8 DEF GateInv, RetiredSessionIsStopped
  <2>5. SlotIsFree(done, s)
    BY <1>0, <1>1, <1>4, <1>5 DEF SlotIsFree
  <2>6. busy' = busy \cup {s} /\ nextPrompt' \in 1..(MaxPrompts + 1)
    BY <2>1, <1>6, <1>7 DEF GateInv, ControlTypeOK
  <2>7. UNCHANGED <<retired, tombstones, crashes, stops>>
    BY <1>7
  <2> QED
    <3> DEFINE p == Head(queued[s])
               base == mem[s]
    <3>1. SpawnTurn(s, p, base, done) /\ p \in Prompts
      BY <2>1, <2>2
    <3>2. done \in [Gens -> Turns] /\ s \notin retired
      BY <1>4, <1>8
    <3> HIDE DEF p, base
    <3>3. queued' \in [Sessions -> Seq(Prompts)]
      BY <2>2
    <3> QED
      BY <1>0, <2>3, <2>4, <2>5, <2>6, <2>7, <3>1, <3>2, <3>3, SpawnKeepsGate
<1>9. CASE s \in retired \/ queued[s] = <<>>
  <2>1. /\ queued' = [queued EXCEPT ![s] = <<>>] /\ busy' = busy \ {s}
        /\ turn' = done /\ UNCHANGED <<handles, nextGen>>
    BY <1>0, <1>9 DEF TurnDone, done
  <2>2. ControlTypeOK'
    BY <2>1, <1>4, <1>7 DEF GateInv, ControlTypeOK, Turns
  <2>3. \A h \in Gens : Holds(h)' <=> h # g /\ Holds(h)
    BY <2>1, <1>4 DEF Holds, LivePhases
  <2>4. \A h \in Gens : Live(h)' => h # g /\ Live(h)
    BY <2>1, <1>4 DEF Live, LivePhases
  <2>5. OneTurnPerSession'
    <3>1. \A h, k \in Gens :
            Holds(h)' /\ Holds(k)' /\ turn'[h].session = turn'[k].session => h = k
      BY <2>1, <2>3, <1>4 DEF GateInv, OneTurnPerSession
    <3>2. ASSUME NEW t \in Sessions
          PROVE t \in busy' <=> \E h \in Gens : Holds(h)' /\ turn'[h].session = t
      <4>1. t \in busy <=> \E h \in Gens : Holds(h) /\ turn[h].session = t
        BY DEF GateInv, OneTurnPerSession
      <4>2. \A h \in Gens : Holds(h)' /\ turn'[h].session = t <=>
              h # g /\ Holds(h) /\ turn[h].session = t
        BY <2>1, <2>3, <1>4
      <4>3. \A h \in Gens : h # g /\ Holds(h) => turn[h].session # s
        BY <2>1, <2>3, <1>4, <1>5 DEF Holds
      <4>4. Holds(g) /\ turn[g].session = s
        BY <1>0, <1>1 DEF Holds
      <4> QED
        BY <2>1, <4>1, <4>2, <4>3, <4>4
    <3> QED
      BY <3>1, <3>2 DEF OneTurnPerSession, Holds
  <2>6. RunningTurnIsCancellable'
    BY <2>1, <2>4, <1>4 DEF GateInv, RunningTurnIsCancellable, Live
  <2>7. RetiredSessionIsStopped'
    <3>1. \A t \in tombstones : queued'[t] = <<>>
      BY <2>1 DEF GateInv, RetiredSessionIsStopped, ControlTypeOK
    <3> QED
      BY <2>1, <2>4, <3>1, <1>4, <1>7 DEF GateInv, RetiredSessionIsStopped, Live
  <2>8. FreshGenerations'
    <3>1. \A h \in Gens : h >= nextGen => turn[h].pc = "none"
      BY DEF GateInv, FreshGenerations
    <3>2. \A h \in Gens : h >= nextGen => h # g
      BY <3>1, <1>1
    <3> QED
      BY <2>1, <3>1, <3>2, <1>4 DEF FreshGenerations
  <2> QED
    BY <2>2, <2>5, <2>6, <2>7, <2>8 DEF GateInv
<1> QED
  BY <1>8, <1>9

\* Every step of a turn task, and the open it waits for.
LEMMA TurnTaskKeepsGate ==
  ASSUME GateInv, NEW g \in Gens, TurnTask(g) \/ OpenLands(g)
  PROVE GateInv'
<1> USE DEF TurnTask, OwnStep
<1>0. ControlTypeOK
  BY DEF GateInv
<1>1. CASE RunTurnOk(g)
  BY <1>0, <1>1, GotoMoves, PhaseStepKeepsGate DEF RunTurnOk, Phases, LivePhases, storeVars
<1>2. CASE RunTurnErr(g)
  BY <1>0, <1>2, GotoMoves, PhaseStepKeepsGate DEF RunTurnErr, Phases, LivePhases, storeVars
<1>3. CASE SkipLine(g)
  BY <1>3, StoreStepKeepsGate DEF SkipLine, storeVars
<1>4. CASE SubmitOpen(g)
  BY <1>0, <1>4, GotoMoves, PhaseStepKeepsGate DEF SubmitOpen, Phases, LivePhases, storeVars
<1>5. CASE WriteLine(g)
  BY <1>0, <1>5, GotoMoves, PhaseStepKeepsGate DEF WriteLine, Phases, LivePhases
<1>6. CASE Settle(g)
  BY <1>0, <1>6, GotoMoves, PhaseStepKeepsGate DEF Settle, Phases, LivePhases, storeVars
<1>7. CASE InsertHistory(g)
  BY <1>0, <1>7, GotoMoves, PhaseStepKeepsGate DEF InsertHistory, Phases, LivePhases
<1>8. CASE FinishTurn(g)
  <2>1. OnlyMoves(g) /\ turn'[g].pc = "signal"
    BY <1>0, <1>8, GotoMoves DEF FinishTurn, DropTask, Phases
  <2> QED
    BY <1>8, <2>1, PhaseStepKeepsGate DEF FinishTurn, LivePhases, storeVars
<1>9. CASE AbortLands(g)
  <2>1. OnlyMoves(g) /\ turn'[g].pc = "signal"
    BY <1>0, <1>9, GotoMoves DEF AbortLands, DropTask, Phases
  <2> QED
    BY <1>9, <2>1, PhaseStepKeepsGate DEF AbortLands, storeVars
<1>10. CASE OpenLands(g)
  <2>1. OnlyMoves(g) /\ turn'[g].pc = turn[g].pc
    BY <1>0, <1>10, GotoMoves DEF OpenLands, Phases
  <2> QED
    BY <1>10, <2>1, PhaseStepKeepsGate DEF OpenLands
<1> QED
  BY <1>1, <1>2, <1>3, <1>4, <1>5, <1>6, <1>7, <1>8, <1>9, <1>10

\* A restart leaves no turn, as in the initial state.
LEMMA RestartKeepsGate ==
  ASSUME GateInv, Restart
  PROVE GateInv'
<1> USE RouterAssumption
<1>1. \A g \in Gens : turn'[g] \in Turns /\ turn'[g].pc = "none"
  BY NoTurnType DEF Restart
<1>2. ControlTypeOK'
  <2>1. turn' \in [Gens -> Turns]
    BY <1>1 DEF Restart
  <2>2. /\ queued' \in [Sessions -> Seq(Prompts)]
        /\ handles' \in [Sessions -> 0..MaxPrompts]
    BY DEF Restart
  <2>3. crashes' \in 0..MaxCrashes /\ nextGen' \in 1..(MaxPrompts + 1)
    BY DEF Restart, GateInv, ControlTypeOK
  <2> QED
    BY <2>1, <2>2, <2>3 DEF Restart, GateInv, ControlTypeOK, Turns
<1>3. \A g \in Gens : ~Holds(g)' /\ ~Live(g)'
  BY <1>1 DEF Holds, Live, LivePhases
<1> QED
  BY <1>1, <1>2, <1>3 DEF Restart, GateInv, OneTurnPerSession, RunningTurnIsCancellable,
       RetiredSessionIsStopped, FreshGenerations

-----------------------------------------------------------------------------
\* GateInv is inductive: one step per action.
LEMMA GateInductive == GateInv /\ [Next]_vars => GateInv'
<1> SUFFICES ASSUME GateInv, [Next]_vars PROVE GateInv'
  OBVIOUS
<1>1. ASSUME NEW s \in Sessions, UserPrompt(s) PROVE GateInv'
  BY <1>1, UserPromptKeepsGate
<1>2. ASSUME NEW s \in Sessions, UserCancel(s) PROVE GateInv'
  <2>1. stops' \in 0..MaxStops
    BY <1>2, RouterAssumption DEF UserCancel, GateInv, ControlTypeOK
  <2> QED
    BY <1>2, <2>1, AbortKeepsGate DEF UserCancel, storeVars
<1>3. ASSUME NEW s \in Sessions, NEW kind \in {"delete", "archive"}, Retire(s, kind)
      PROVE GateInv'
  <2>1. stops' \in 0..MaxStops
    BY <1>3, RouterAssumption DEF Retire, GateInv, ControlTypeOK
  <2> QED
    BY <1>3, <2>1, AbortKeepsGate DEF Retire
<1>4. ASSUME NEW s \in Sessions, Park(s) \/ EvictParked(s) \/ WriteLands(s) PROVE GateInv'
  BY <1>4, StoreStepKeepsGate DEF Park, EvictParked, WriteLands, storeVars, taskVars
<1>5. CASE CancelMark \/ CancelPersist \/ ApplyRetire
  BY <1>5, StoreStepKeepsGate DEF CancelMark, CancelPersist, ApplyRetire, taskVars
<1>6. ASSUME NEW g \in Gens, TurnDone(g) PROVE GateInv'
  BY <1>6, TurnDoneKeepsGate
<1>7. ASSUME NEW g \in Gens, TurnTask(g) \/ OpenLands(g) PROVE GateInv'
  BY <1>7, TurnTaskKeepsGate
<1>8. CASE Restart
  BY <1>8, RestartKeepsGate
<1>9. CASE UNCHANGED vars
  BY <1>9, StoreStepKeepsGate DEF vars, gateVars, boundVars
<1> QED
  BY <1>1, <1>2, <1>3, <1>4, <1>5, <1>6, <1>7, <1>8, <1>9 DEF Next

\* The turn gate, the abort handles and the retirement marks stay consistent.
THEOREM GateInvariant == Spec => []GateInv
<1> QED
  BY GateInit, GateInductive, PTL DEF Spec

\* The gate, the handles, the turn tasks and the counters keep their types.
THEOREM ControlTypeCorrect == Spec => []ControlTypeOK
<1>1. GateInv => ControlTypeOK
  BY DEF GateInv
<1> QED
  BY <1>1, GateInvariant, PTL

\* At most one turn per session is in flight, and the slot is taken exactly
\* while one is (TurnGate::admit, complete, cancel, retire and the slot guard).
THEOREM TurnsAreSerialised == Spec => []OneTurnPerSession
<1>1. GateInv => OneTurnPerSession
  BY DEF GateInv
<1> QED
  BY <1>1, GateInvariant, PTL

\* Every running turn that was not aborted is reachable through its session's
\* abort handle (the generation check of SessionTracker::finish).
THEOREM TurnsAreCancellable == Spec => []RunningTurnIsCancellable
<1>1. GateInv => RunningTurnIsCancellable
  BY DEF GateInv
<1> QED
  BY <1>1, GateInvariant, PTL

\* A deleted or archived session has nothing queued and nothing running that was
\* not told to stop (the router's retire handler).
THEOREM RetirementStops == Spec => []RetiredSessionIsStopped
<1>1. GateInv => RetiredSessionIsStopped
  BY DEF GateInv
<1> QED
  BY <1>1, GateInvariant, PTL

-----------------------------------------------------------------------------
(***************************************************************************)
(* The router implements the queue of prompts (TurnQueue) for any number of *)
(* sessions, prompts, cancels, retirements and restarts.  A prompt maps to  *)
(* an arrival, a completed turn to a completion, a cancel or a retirement   *)
(* to a drop of what waits, a restart to forgetting, and every other step   *)
(* to a stutter.                                                           *)
(*                                                                         *)
(* The mapping needs the gate's invariant, and one fact more: a session the *)
(* gate has retired is tombstoned, so nothing waits behind its last turn.   *)
(***************************************************************************)

\* The gate's marks follow the store's.
RetiredIsTombstoned == retired \subseteq tombstones

QueueInv == GateInv /\ RetiredIsTombstoned

\* No handler marks a session at the gate without a tombstone.
LEMMA QueueInductive == QueueInv /\ [Next]_vars => QueueInv'
<1> SUFFICES ASSUME QueueInv, [Next]_vars PROVE QueueInv'
  OBVIOUS
<1> USE DEF QueueInv, RetiredIsTombstoned
<1>1. GateInv'
  BY GateInductive
<1>2. CASE UNCHANGED <<retired, tombstones>>
  BY <1>1, <1>2
<1>3. ASSUME NEW s \in Sessions,
             \/ UserPrompt(s) \/ UserCancel(s) \/ Park(s) \/ EvictParked(s) \/ WriteLands(s)
      PROVE  UNCHANGED <<retired, tombstones>>
  BY <1>3 DEF UserPrompt, UserCancel, Park, EvictParked, WriteLands, gateVars, storeVars
<1>4. ASSUME NEW s \in Sessions, NEW kind \in {"delete", "archive"}, Retire(s, kind)
      PROVE  RetiredIsTombstoned'
  BY <1>4 DEF Retire
<1>5. ASSUME CancelMark \/ CancelPersist \/ ApplyRetire PROVE UNCHANGED <<retired, tombstones>>
  BY <1>5 DEF CancelMark, CancelPersist, ApplyRetire, gateVars
<1>6. ASSUME NEW g \in Gens, TurnDone(g) \/ TurnTask(g) \/ OpenLands(g)
      PROVE  UNCHANGED <<retired, tombstones>>
  BY <1>6 DEF TurnDone, TurnTask, OwnStep, OpenLands, RunTurnOk, RunTurnErr, SkipLine, SubmitOpen,
       WriteLine, Settle, InsertHistory, FinishTurn, AbortLands, gateVars, storeVars
<1>7. CASE Restart
  BY <1>1, <1>7 DEF Restart
<1>8. CASE UNCHANGED vars
  BY <1>1, <1>8 DEF vars
<1> QED
  BY <1>1, <1>2, <1>3, <1>4, <1>5, <1>6, <1>7, <1>8 DEF Next

-----------------------------------------------------------------------------
\* What it means to be among the running prompts, before and after a step.
LEMMA RunningMembers ==
  ASSUME NEW s \in Sessions
  PROVE  /\ \A p : p \in RunningPrompts(s) <=>
              \E g \in Gens : Holds(g) /\ turn[g].session = s /\ turn[g].prompt = p
         /\ \A p : p \in RunningPrompts(s)' <=>
              \E g \in Gens : Holds(g)' /\ turn'[g].session = s /\ turn'[g].prompt = p
BY DEF RunningPrompts

\* No turn takes or gives up a slot.
KeepsTurns ==
  \A g \in Gens : /\ turn'[g].session = turn[g].session
                  /\ turn'[g].prompt = turn[g].prompt
                  /\ Holds(g)' <=> Holds(g)

\* Then the running prompts stay what they are.
LEMMA KeepsRunning ==
  ASSUME KeepsTurns, NEW s \in Sessions
  PROVE  RunningPrompts(s)' = RunningPrompts(s)
BY RunningMembers DEF KeepsTurns

\* A turn that moves on inside its slot, an open that lands.
LEMMA TaskKeepsTurns ==
  ASSUME GateInv, NEW g \in Gens, TurnTask(g) \/ OpenLands(g)
  PROVE  KeepsTurns
<1>1. turn \in [Gens -> Turns]
  BY DEF GateInv, ControlTypeOK, Turns
<1>2. ASSUME NEW ph \in Phases, Goto(g, ph),
             Holds(g), ph \in LivePhases \cup {"signal"}
      PROVE  KeepsTurns
  BY <1>1, <1>2 DEF Goto, KeepsTurns, Holds, Turns
<1>3. CASE RunTurnOk(g)
  BY <1>2, <1>3 DEF RunTurnOk, Phases, LivePhases, Holds
<1>4. CASE RunTurnErr(g)
  BY <1>2, <1>4 DEF RunTurnErr, Phases, LivePhases, Holds
<1>5. CASE SkipLine(g)
  BY <1>5 DEF SkipLine, KeepsTurns, Holds
<1>6. CASE SubmitOpen(g)
  BY <1>1, <1>6 DEF SubmitOpen, KeepsTurns, Holds, LivePhases, Turns
<1>7. CASE WriteLine(g)
  BY <1>1, <1>7 DEF WriteLine, KeepsTurns, Holds, LivePhases, Turns
<1>8. CASE Settle(g)
  BY <1>2, <1>8 DEF Settle, Phases, LivePhases, Holds
<1>9. CASE InsertHistory(g)
  BY <1>2, <1>9 DEF InsertHistory, Phases, LivePhases, Holds
<1>10. CASE FinishTurn(g)
  BY <1>2, <1>10 DEF FinishTurn, DropTask, Phases, LivePhases, Holds
<1>11. CASE AbortLands(g)
  BY <1>2, <1>11 DEF AbortLands, DropTask, Phases, LivePhases, Holds
<1>12. CASE OpenLands(g)
  BY <1>1, <1>12 DEF OpenLands, KeepsTurns, Holds, Turns
<1> QED
  BY <1>3, <1>4, <1>5, <1>6, <1>7, <1>8, <1>9, <1>10, <1>11, <1>12 DEF TurnTask, OwnStep

\* A cancel or a retirement marks a turn, and takes no slot from it.
LEMMA AbortKeepsTurns ==
  ASSUME GateInv, NEW s \in Sessions, Abort(s)
  PROVE  KeepsTurns
<1>1. turn \in [Gens -> Turns]
  BY DEF GateInv, ControlTypeOK, Turns
<1> QED
  BY <1>1 DEF Abort, KeepsTurns, Holds, Turns

\* A new turn is the only one of its session; the others keep theirs.
LEMMA SpawnRuns ==
  ASSUME GateInv,
         NEW s \in Sessions, NEW STATE p, NEW STATE base,
         NEW STATE turns, turns \in [Gens -> Turns],
         SpawnTurn(s, p, base, turns),
         \A g \in Gens : turns[g].pc \in LivePhases \cup {"signal"} => turns[g].session # s,
         \A g \in Gens : turns[g].session # s => turns[g] = turn[g],
         \A g \in Gens : turns[g].session = turn[g].session
  PROVE  /\ RunningPrompts(s)' = {p}
         /\ \A t \in Sessions \ {s} : RunningPrompts(t)' = RunningPrompts(t)
<1>0. PICK n \in Gens : n = nextGen
  BY DEF SpawnTurn
<1>1. turn[n].pc = "none" /\ turn' = [turns EXCEPT ![n] = NewTurn(s, p)]
  <2>1. n >= nextGen
    BY <1>0 DEF Gens
  <2>2. turn[n].pc = "none"
    BY <1>0, <2>1 DEF GateInv, FreshGenerations
  <2> QED
    BY <1>0, <2>2 DEF SpawnTurn
<1>2. /\ turn'[n].session = s /\ turn'[n].prompt = p /\ Holds(n)'
      /\ \A g \in Gens \ {n} : turn'[g] = turns[g]
  BY <1>1 DEF NewTurn, Holds, LivePhases
<1>3. RunningPrompts(s)' = {p}
  <2>1. \A g \in Gens \ {n} : ~(Holds(g)' /\ turn'[g].session = s)
    BY <1>2 DEF Holds
  <2>2. \A q : q \in RunningPrompts(s)' <=> q = p
    BY <1>2, <2>1, RunningMembers
  <2> QED
    BY <2>2
<1>4. ASSUME NEW t \in Sessions \ {s} PROVE RunningPrompts(t)' = RunningPrompts(t)
  <2>1. \A g \in Gens : Holds(g)' /\ turn'[g].session = t => g # n /\ turn'[g] = turn[g]
    BY <1>2, <1>4
  <2>2. \A g \in Gens : Holds(g) /\ turn[g].session = t => g # n /\ turn'[g] = turn[g]
    BY <1>1, <1>2, <1>4 DEF Holds, LivePhases
  <2>3. \A q : q \in RunningPrompts(t)' <=> q \in RunningPrompts(t)
    BY <2>1, <2>2, RunningMembers DEF Holds
  <2> QED
    BY <2>3
<1> QED
  BY <1>3, <1>4

\* The slot is taken exactly while a prompt runs.
LEMMA BusyRuns ==
  ASSUME GateInv, NEW s \in Sessions
  PROVE  s \in busy <=> RunningPrompts(s) # {}
BY RunningMembers DEF GateInv, OneTurnPerSession

-----------------------------------------------------------------------------
\* A step that touches neither slots, nor queues, nor arrivals is a stutter.
LEMMA Stutters ==
  ASSUME KeepsTurns, UNCHANGED <<queued, nextPrompt>>
  PROVE  UNCHANGED Queue!vars
<1>1. [s \in Sessions |-> RunningPrompts(s)'] = [s \in Sessions |-> RunningPrompts(s)]
  BY KeepsRunning
<1> QED
  BY <1>1 DEF Queue!vars

\* A cancel or a retirement drops what waits.
LEMMA Drops ==
  ASSUME KeepsTurns, NEW s \in Sessions, queued' = [queued EXCEPT ![s] = <<>>],
         UNCHANGED nextPrompt
  PROVE  Queue!DropWaiting(s)
<1>1. [t \in Sessions |-> RunningPrompts(t)'] = [t \in Sessions |-> RunningPrompts(t)]
  BY KeepsRunning
<1> QED
  BY <1>1 DEF Queue!DropWaiting

\* A prompt arrives: it is started, it waits, or it is refused.
LEMMA PromptArrives ==
  ASSUME QueueInv, NEW s \in Sessions, UserPrompt(s)
  PROVE  Queue!Arrive(s)
<1> DEFINE base == IF NeedsRevival(s) THEN Reloaded(disk[s]) ELSE mem[s]
<1>0. turn \in [Gens -> Turns] /\ GateInv
  BY DEF QueueInv, GateInv, ControlTypeOK, Turns
<1>1. nextPrompt \in Prompts /\ nextPrompt' = nextPrompt + 1
  BY RouterAssumption DEF QueueInv, GateInv, ControlTypeOK, UserPrompt, Prompts
<1>2. CASE UNCHANGED <<queued, turn>>
  <2>1. KeepsTurns
    BY <1>2 DEF KeepsTurns, Holds
  <2>2. [t \in Sessions |-> RunningPrompts(t)'] = [t \in Sessions |-> RunningPrompts(t)]
    BY <2>1, KeepsRunning
  <2> QED
    BY <1>1, <1>2, <2>2 DEF Queue!Arrive
<1>3. CASE /\ s \in busy /\ queued' = [queued EXCEPT ![s] = Append(@, nextPrompt)]
           /\ UNCHANGED turn
  <2>1. KeepsTurns
    BY <1>3 DEF KeepsTurns, Holds
  <2>2. [t \in Sessions |-> RunningPrompts(t)'] = [t \in Sessions |-> RunningPrompts(t)]
    BY <2>1, KeepsRunning
  <2>3. RunningPrompts(s) # {}
    BY <1>0, <1>3, BusyRuns
  <2> QED
    BY <1>1, <1>3, <2>2, <2>3 DEF Queue!Arrive
<1>4. CASE s \notin busy /\ SpawnTurn(s, nextPrompt, base, turn) /\ UNCHANGED queued
  <2>1. RunningPrompts(s) = {}
    BY <1>0, <1>4, BusyRuns
  <2>2. \A g \in Gens : turn[g].pc \in LivePhases \cup {"signal"} => turn[g].session # s
    BY <1>0, <1>4 DEF GateInv, OneTurnPerSession, Holds
  <2> HIDE DEF base
  <2>3. /\ RunningPrompts(s)' = {nextPrompt}
        /\ \A t \in Sessions \ {s} : RunningPrompts(t)' = RunningPrompts(t)
    BY <1>0, <1>4, <2>2, SpawnRuns
  <2>4. [t \in Sessions |-> RunningPrompts(t)']
          = [[t \in Sessions |-> RunningPrompts(t)] EXCEPT ![s] = {nextPrompt}]
    BY <2>3
  <2> QED
    BY <1>1, <1>4, <2>1, <2>4 DEF Queue!Arrive
<1> QED
  BY <1>2, <1>3, <1>4 DEF UserPrompt, Admit, taskVars

\* A slot that comes back goes to the first prompt that waits, in one step.
LEMMA DoneCompletes ==
  ASSUME QueueInv, NEW g \in Gens, TurnDone(g)
  PROVE  Queue!Complete(turn[g].session)
<1> DEFINE done == [turn EXCEPT ![g].pc = "gone"]
<1>0. PICK s \in Sessions : s = turn[g].session
  BY DEF QueueInv, GateInv, ControlTypeOK
<1>1. turn \in [Gens -> Turns] /\ turn[g].pc = "signal" /\ GateInv
  BY DEF QueueInv, GateInv, ControlTypeOK, Turns, TurnDone
<1>2. /\ done \in [Gens -> Turns] /\ done[g].pc = "gone" /\ done[g].session = s
      /\ \A h \in Gens \ {g} : done[h] = turn[h]
  <2>1. [turn[g] EXCEPT !.pc = "gone"] \in Turns
    BY <1>1 DEF Turns, Phases
  <2>2. done = [turn EXCEPT ![g] = [turn[g] EXCEPT !.pc = "gone"]]
    BY <1>1 DEF Turns
  <2> QED
    BY <1>0, <1>1, <2>1, <2>2 DEF Turns
<1>3. \A h \in Gens : done[h].pc \in LivePhases \cup {"signal"} => done[h].session # s
  BY <1>0, <1>1, <1>2 DEF GateInv, OneTurnPerSession, Holds, LivePhases
<1>4. RunningPrompts(s) # {}
  BY <1>0, <1>1, RunningMembers DEF Holds
<1>5. UNCHANGED nextPrompt
  BY DEF TurnDone, boundVars
<1>6. s \in retired => queued[s] = <<>>
  BY DEF QueueInv, RetiredIsTombstoned, GateInv, RetiredSessionIsStopped
<1>7. queued \in [Sessions -> Seq(Prompts)]
  BY <1>1 DEF GateInv, ControlTypeOK
<1> HIDE DEF done
<1>8. CASE s \notin retired /\ queued[s] # <<>>
  <2> DEFINE p == Head(queued[s])
             base == mem[s]
  <2>1. queued' = [queued EXCEPT ![s] = Tail(@)] /\ SpawnTurn(s, p, base, done)
    BY <1>0, <1>8 DEF TurnDone, done
  <2> HIDE DEF p, base
  <2>2. /\ \A h \in Gens : done[h].session # s => done[h] = turn[h]
        /\ \A h \in Gens : done[h].session = turn[h].session
    BY <1>0, <1>2
  <2>3. /\ RunningPrompts(s)' = {p}
        /\ \A t \in Sessions \ {s} : RunningPrompts(t)' = RunningPrompts(t)
    BY <1>1, <1>2, <1>3, <2>1, <2>2, SpawnRuns
  <2>4. [t \in Sessions |-> RunningPrompts(t)']
          = [[t \in Sessions |-> RunningPrompts(t)] EXCEPT ![s] = {Head(queued[s])}]
    BY <2>3 DEF p
  <2> QED
    BY <1>0, <1>4, <1>5, <1>8, <2>1, <2>4 DEF Queue!Complete
<1>9. CASE s \in retired \/ queued[s] = <<>>
  <2>1. turn' = done /\ queued' = [queued EXCEPT ![s] = <<>>] /\ queued[s] = <<>>
    BY <1>0, <1>6, <1>9 DEF TurnDone, done
  <2>2. queued' = queued
    BY <1>7, <2>1
  <2>3. RunningPrompts(s)' = {}
    BY <1>3, <2>1, RunningMembers DEF Holds
  <2>4. ASSUME NEW t \in Sessions \ {s} PROVE RunningPrompts(t)' = RunningPrompts(t)
    <3>1. \A h \in Gens : Holds(h)' /\ turn'[h].session = t <=> Holds(h) /\ turn[h].session = t
      BY <1>0, <1>2, <2>1, <2>4 DEF Holds
    <3>2. \A h \in Gens : turn[h].session = t => turn'[h].prompt = turn[h].prompt
      BY <1>0, <1>2, <2>1, <2>4
    <3>3. \A q : q \in RunningPrompts(t)' <=> q \in RunningPrompts(t)
      BY <3>1, <3>2, RunningMembers
    <3> QED
      BY <3>3
  <2>5. [t \in Sessions |-> RunningPrompts(t)']
          = [[t \in Sessions |-> RunningPrompts(t)] EXCEPT ![s] = {}]
    BY <2>3, <2>4
  <2> QED
    BY <1>0, <1>4, <1>5, <2>1, <2>2, <2>5 DEF Queue!Complete
<1> QED
  BY <1>8, <1>9

\* A restart forgets.
LEMMA RestartForgets ==
  ASSUME Restart
  PROVE  Queue!Forget
<1>1. \A g \in Gens : ~Holds(g)'
  BY NoTurnType DEF Restart, Holds, LivePhases
<1>2. ASSUME NEW s \in Sessions PROVE RunningPrompts(s)' = {}
  BY <1>1, RunningMembers
<1>3. [s \in Sessions |-> RunningPrompts(s)'] = [s \in Sessions |-> {}]
  BY <1>2
<1> QED
  BY <1>3 DEF Restart, Queue!Forget

-----------------------------------------------------------------------------
\* Every step of the router is a step of the queue, or a stutter.
LEMMA StepRefines == QueueInv /\ [Next]_vars => [Queue!Next]_(Queue!vars)
<1> SUFFICES ASSUME QueueInv, [Next]_vars PROVE [Queue!Next]_(Queue!vars)
  OBVIOUS
<1>0. GateInv
  BY DEF QueueInv
<1>1. ASSUME NEW s \in Sessions, UserPrompt(s) PROVE Queue!Next
  BY <1>1, PromptArrives DEF Queue!Next
<1>2. ASSUME NEW s \in Sessions, UserCancel(s) PROVE Queue!Next
  BY <1>0, <1>2, AbortKeepsTurns, Drops DEF UserCancel, Queue!Next
<1>3. ASSUME NEW s \in Sessions, NEW kind \in {"delete", "archive"}, Retire(s, kind)
      PROVE  Queue!Next
  BY <1>0, <1>3, AbortKeepsTurns, Drops DEF Retire, Queue!Next
<1>4. ASSUME UNCHANGED <<turn, queued, nextPrompt>> PROVE UNCHANGED Queue!vars
  BY <1>4, Stutters DEF KeepsTurns, Holds
<1>5. ASSUME NEW s \in Sessions, Park(s) \/ EvictParked(s) \/ WriteLands(s)
      PROVE  UNCHANGED Queue!vars
  BY <1>4, <1>5 DEF Park, EvictParked, WriteLands, gateVars, taskVars, boundVars
<1>6. ASSUME CancelMark \/ CancelPersist \/ ApplyRetire PROVE UNCHANGED Queue!vars
  BY <1>4, <1>6 DEF CancelMark, CancelPersist, ApplyRetire, gateVars, taskVars, boundVars
<1>7. ASSUME NEW g \in Gens, TurnDone(g) PROVE Queue!Next
  <2>1. turn[g].session \in Sessions
    BY <1>0 DEF GateInv, ControlTypeOK
  <2> QED
    BY <1>7, <2>1, DoneCompletes DEF Queue!Next
<1>8. ASSUME NEW g \in Gens, TurnTask(g) \/ OpenLands(g) PROVE UNCHANGED Queue!vars
  <2>1. UNCHANGED <<queued, nextPrompt>>
    BY <1>8 DEF TurnTask, OwnStep, OpenLands, RunTurnOk, RunTurnErr, SkipLine, SubmitOpen, WriteLine,
         Settle, InsertHistory, FinishTurn, AbortLands, gateVars, boundVars
  <2> QED
    BY <1>0, <1>8, <2>1, TaskKeepsTurns, Stutters
<1>9. ASSUME Restart PROVE Queue!Next
  BY <1>9, RestartForgets DEF Queue!Next
<1>10. ASSUME UNCHANGED vars PROVE UNCHANGED Queue!vars
  BY <1>4, <1>10 DEF vars
<1> QED
  BY <1>1, <1>2, <1>3, <1>5, <1>6, <1>7, <1>8, <1>9, <1>10 DEF Next

\* The router starts with nothing running and nothing waiting.
LEMMA InitRefines == Init => Queue!Init /\ QueueInv
<1> SUFFICES ASSUME Init PROVE Queue!Init /\ QueueInv
  OBVIOUS
<1>1. \A g \in Gens : ~Holds(g)
  BY NoTurnType DEF Init, Holds, LivePhases
<1>2. ASSUME NEW s \in Sessions PROVE RunningPrompts(s) = {}
  BY <1>1, RunningMembers
<1>3. [s \in Sessions |-> RunningPrompts(s)] = [s \in Sessions |-> {}]
  BY <1>2
<1> QED
  BY <1>3, GateInit DEF Init, Queue!Init, QueueInv, RetiredIsTombstoned

\* The router, with its slot guards, aborts and hand-over messages, implements the
\* queue: one prompt at a time, in order of arrival, with no gap at the hand-over
\* (TurnGate::admit, complete, cancel and retire).
THEOREM RouterServesInOrder == Spec => ServesInOrder
<1> QED
  BY InitRefines, QueueInductive, StepRefines, PTL DEF Spec, ServesInOrder, Queue!Spec

-----------------------------------------------------------------------------
(***************************************************************************)
(* Histories and files.  What a session remembers is always a history the  *)
(* provider accepts, what is in files and on the way there are lines of    *)
(* turns, and a turn task carries a history that is worth inserting.  That *)
(* a resident history is valid is inductive only together with the turn    *)
(* tasks' locals: it is the snapshot a task took when it started that it    *)
(* inserts when it ends.                                                   *)
(***************************************************************************)

\* What the provider accepts, the lines of a turn, and what a turn may add.
Valid == {h \in Seq(Message) : ApiValid(h)}
SingleLines == {m \in Message : \E b \in Block : m.content = <<b>>}
Added == {<<>>} \cup UNION {TurnDeltas(p) : p \in 0..MaxPrompts}

WorkRec == [snap : Valid, delta : Added, rest : Seq(SingleLines)]

RpcRec == [at : {"select", "mark", "persist_marker", "delete", "archive"}, session : Sessions]

StoreType ==
  /\ rpc \in RpcRec
  /\ parking \subseteq Workers
  /\ mem \in [Sessions -> Valid \cup {NoHistory}]
  /\ disk \in [Sessions -> Seq(SingleLines) \cup {NoFile}]
  /\ pool \in [Sessions -> Seq(SingleLines)]
  /\ work \in [Gens -> WorkRec]

\* What a turn task has in hand, by where it stands.
TaskInv(g) ==
  /\ Live(g) => work[g].snap # <<>>
  /\ turn[g].pc = "run" => work[g].delta = <<>>
  /\ turn[g].pc = "open" => work[g].rest # <<>>
  /\ turn[g].pc = "insert" => work[g].rest = <<>>

\* A file is only removed for a session that is tombstoned.
RetireIsTombstoned == rpc.at \in {"delete", "archive"} => rpc.session \in tombstones

StoreInv ==
  /\ StoreType
  /\ \A g \in Gens : TaskInv(g)
  /\ RetireIsTombstoned

-----------------------------------------------------------------------------
(* Lines and histories.                                                     *)

LEMMA LineFacts ==
  /\ SingleLines \subseteq Message /\ Seq(SingleLines) \subseteq Seq(Message)
  /\ \A b \in Block : User(<<b>>) \in SingleLines /\ Assistant(<<b>>) \in SingleLines
  /\ \A p \in Nat : PromptLine(p) \in SingleLines
  /\ CancelMarker \in SingleLines
<1>1. SingleLines \subseteq Message BY DEF SingleLines
<1>2. ASSUME NEW b \in Block PROVE User(<<b>>) \in SingleLines /\ Assistant(<<b>>) \in SingleLines
  <2>1. PICK u, a \in Message : /\ u = User(<<b>>) /\ a = Assistant(<<b>>)
                                /\ u.content = <<b>> /\ a.content = <<b>>
    BY OneBlock
  <2>2. QED BY <2>1 DEF SingleLines
<1>3. \A p \in Nat : Text(p) \in Block BY Blocks
<1>4. QED BY <1>1, <1>2, <1>3 DEF PromptLine, CancelMarker

LEMMA AddedFacts ==
  \A d \in Added : Closed(d) /\ d \in Seq(SingleLines)
<1>1. ASSUME NEW p \in 0..MaxPrompts, NEW d \in TurnDeltas(p)
      PROVE  Closed(d) /\ d \in Seq(SingleLines)
  <2>1. p \in Nat BY RouterAssumption
  <2>2. PICK u, x, y \in SingleLines : /\ u = Assistant(<<ToolUse(p)>>) /\ x = User(<<ToolResult(p)>>)
                                       /\ y = Assistant(<<Text(p)>>)
    BY <2>1, Blocks, LineFacts
  <2>3. Closed(<<u, x, y>>) /\ Closed(<<y>>) BY <2>1, <2>2, ExchangeFacts, ReplyFacts
  <2>4. <<y>> \in Seq(SingleLines) /\ <<u, x, y>> \in Seq(SingleLines) OBVIOUS
  <2>5. d = <<y>> \/ d = <<u, x, y>> BY <1>1, <2>2 DEF TurnDeltas
  <2>6. QED BY <2>3, <2>4, <2>5
<1>2. Closed(<<>>) /\ <<>> \in Seq(SingleLines) BY ClosedShort
<1>3. QED BY <1>1, <1>2 DEF Added

\* What a reload makes of a file.
LEMMA ReloadedFacts ==
  ASSUME NEW file \in Seq(SingleLines) \cup {NoFile}
  PROVE  /\ Reloaded(file) \in Valid \cup {NoHistory}
         /\ Reloaded(file) # NoHistory =>
              /\ file # NoFile /\ Reloaded(file) # <<>>
              /\ \A i \in DOMAIN Reloaded(file) :
                   (\E j \in DOMAIN file : Reloaded(file)[i] = file[j]) \/ Marked(Reloaded(file)[i])
<1>1. CASE file = NoFile BY <1>1 DEF Reloaded
<1>2. CASE file # NoFile
  <2>1. file \in Seq(SingleLines) /\ file \in Seq(Message) BY <1>2, LineFacts
  <2>2. PICK h \in Seq(Message) : h = RepairHistory(file) /\ ApiValid(h) BY <2>1, RepairRestores
  <2>3. Reloaded(file) = IF h = <<>> THEN NoHistory ELSE h BY <1>2, <2>2 DEF Reloaded
  <2>4. OneBlockLines(file)
    <3>1. \A i \in DOMAIN file : file[i] \in SingleLines BY <2>1
    <3>2. QED BY <3>1 DEF OneBlockLines, SingleLines
  <2>5. \A i \in DOMAIN h : (\E j \in DOMAIN file : h[i] = file[j]) \/ Marked(h[i])
    BY <2>1, <2>2, <2>4, RepairInventsNothing
  <2>6. CASE h = <<>> BY <2>3, <2>6
  <2>7. CASE h # <<>>
    <3>1. Reloaded(file) = h BY <2>3, <2>7
    <3>2. h \in Valid BY <2>2 DEF Valid
    <3>3. QED BY <1>2, <2>5, <2>7, <3>1, <3>2
  <2>8. QED BY <2>6, <2>7
<1>3. QED BY <1>1, <1>2

\* The history a prompt is pushed on.
Base(base) == IF base = NoHistory THEN <<>> ELSE base

LEMMA PromptGrows ==
  ASSUME NEW base \in Valid \cup {NoHistory}, NEW p \in Nat
  PROVE  \E h \in Valid :
           /\ h = Append(Base(base), PromptLine(p)) /\ h # <<>>
           /\ Len(h) = Len(Base(base)) + 1 /\ h[Len(h)] = PromptLine(p)
           /\ \A i \in DOMAIN Base(base) : i \in DOMAIN h /\ h[i] = Base(base)[i]
           /\ \A i \in DOMAIN h : i \in DOMAIN Base(base) \/ i = Len(h)
           /\ Base(base) \in Seq(Message) /\ Len(h) \in DOMAIN h
<1>1. <<>> \in Seq(Message) /\ ApiValid(<<>>) BY DEF ApiValid
<1>2. PICK w \in Seq(Message) : w = Base(base) /\ ApiValid(w) BY <1>1 DEF Base, Valid
<1>3. PICK m \in Message : m = PromptLine(p) /\ m = User(<<Text(p)>>) BY LineFacts DEF PromptLine
<1>4. PICK h \in Seq(Message) : h = Append(w, m) /\ h # <<>> /\ ApiValid(h) BY <1>2, <1>3, PushedPrompt
<1>5. PICK n \in Nat : n = Len(w) /\ DOMAIN w = 1..n OBVIOUS
<1>6. Len(h) = n + 1 /\ h[n + 1] = m /\ \A i \in 1..n : h[i] = w[i] BY <1>4, <1>5, AppendProperties
<1>7. DOMAIN h = 1..(n + 1) BY <1>6
<1>8. \A i \in 1..n : i \in 1..(n + 1) OBVIOUS
<1>9. \A i \in 1..(n + 1) : i \in 1..n \/ i = n + 1 OBVIOUS
<1>10. h \in Valid BY <1>4 DEF Valid
<1>11. n + 1 \in 1..(n + 1) OBVIOUS
<1>12. /\ \A i \in DOMAIN w : i \in DOMAIN h /\ h[i] = w[i]
       /\ \A i \in DOMAIN h : i \in DOMAIN w \/ i = Len(h)
       /\ Len(h) \in DOMAIN h
  BY <1>5, <1>6, <1>7, <1>8, <1>9, <1>11
<1>13. QED BY <1>2, <1>3, <1>4, <1>5, <1>6, <1>10, <1>12

LEMMA MarkerGrows ==
  ASSUME NEW h \in Valid, h # <<>>
  PROVE  Append(h, CancelMarker) \in Valid
<1>1. h \in Seq(Message) /\ ApiValid(h) BY DEF Valid
<1>2. PICK m \in Message : m = CancelMarker /\ Closed(<<m>>) BY ReplyFacts DEF CancelMarker
<1>3. h \o <<m>> \in Seq(Message) /\ ApiValid(h \o <<m>>) BY <1>1, <1>2, ValidGrows
<1>4. Append(h, m) = h \o <<m>> BY <1>1, AppendIsConcat
<1>5. QED BY <1>2, <1>3, <1>4 DEF Valid

LEMMA DeltaGrows ==
  ASSUME NEW h \in Valid, h # <<>>, NEW d \in Added
  PROVE  h \o d \in Valid
  BY AddedFacts, ValidGrows DEF Valid

-----------------------------------------------------------------------------
(* What a step of a turn task does to its own locals and to the store; the  *)
(* other tasks stay as they are.                                            *)

\* Only the locals of g change.
OnlyWork(g, w) ==
  /\ work' = [h \in Gens |-> work'[h]]
  /\ work'[g] = w
  /\ \A h \in Gens \ {g} : work'[h] = work[h]

LEMMA OnlyWorkFacts ==
  ASSUME StoreInv, NEW g \in Gens, NEW w \in WorkRec, OnlyWork(g, w)
  PROVE  /\ work' \in [Gens -> WorkRec] /\ work'[g] = w
         /\ \A h \in Gens \ {g} : work'[h] = work[h]
  BY DEF OnlyWork, StoreInv, StoreType

\* The task of g moves from a phase to a phase.
Moves(g, from, to) == OnlyMoves(g) /\ turn[g].pc = from /\ turn'[g].pc = to

LEMMA TaskEffects ==
  ASSUME GateInv, StoreInv, NEW g \in Gens, TurnTask(g)
  PROVE  /\ OnlyMoves(g) /\ turn'[g].prompt = turn[g].prompt
         /\ UNCHANGED <<tombstones, disk, parking, rpc>>
         /\ \/ /\ Moves(g, "run", "persist") /\ UNCHANGED <<mem, pool>>
               /\ turn'[g].io = turn[g].io
               /\ \E d \in TurnDeltas(turn[g].prompt) :
                    OnlyWork(g, [snap |-> work[g].snap, delta |-> d, rest |-> d])
            \/ /\ Moves(g, "run", "finish") /\ UNCHANGED <<mem, pool, work>>
               /\ turn'[g].io = turn[g].io
            \/ /\ Moves(g, "persist", "persist") /\ turn[g].session \in tombstones
               /\ UNCHANGED <<mem, pool>> /\ turn'[g].io = turn[g].io /\ work[g].rest # <<>>
               /\ OnlyWork(g, [snap |-> work[g].snap, delta |-> work[g].delta,
                               rest |-> Tail(work[g].rest)])
            \/ /\ Moves(g, "persist", "open") /\ work[g].rest # <<>>
               /\ UNCHANGED <<mem, pool, work>> /\ turn'[g].io = "submitted"
            \/ /\ Moves(g, "open", "persist") /\ turn[g].io = "opened" /\ turn'[g].io = "none"
               /\ UNCHANGED mem /\ work[g].rest # <<>>
               /\ pool' = [pool EXCEPT ![turn[g].session] = Append(@, Head(work[g].rest))]
               /\ OnlyWork(g, [snap |-> work[g].snap, delta |-> work[g].delta,
                               rest |-> Tail(work[g].rest)])
            \/ /\ Moves(g, "persist", "finish") /\ turn[g].session \in tombstones
               /\ UNCHANGED <<mem, pool, work>> /\ turn'[g].io = turn[g].io
            \/ /\ Moves(g, "persist", "insert") /\ work[g].rest = <<>>
               /\ UNCHANGED <<mem, pool, work>> /\ turn'[g].io = turn[g].io
            \/ /\ Moves(g, "insert", "finish") /\ UNCHANGED <<pool, work>>
               /\ turn'[g].io = turn[g].io
               /\ mem' = [mem EXCEPT ![turn[g].session] = work[g].snap \o work[g].delta]
            \/ /\ OnlyMoves(g) /\ Live(g) /\ turn'[g].pc = "signal"
               /\ turn[g].pc = "finish" \/ turn[g].aborted
               /\ UNCHANGED <<mem, pool>> /\ turn'[g].io = turn[g].io
               /\ OnlyWork(g, [snap |-> <<>>, delta |-> work[g].delta, rest |-> <<>>])
<1> USE DEF gateVars, storeVars, boundVars
<1>0. /\ turn \in [Gens -> Turns] /\ turn[g] \in Turns
      /\ work \in [Gens -> WorkRec] /\ work[g] \in WorkRec
      /\ ControlTypeOK
  BY DEF GateInv, ControlTypeOK, Turns, StoreInv, StoreType
<1>1. ASSUME NEW ph \in Phases, Goto(g, ph)
      PROVE  OnlyMoves(g) /\ turn'[g].pc = ph /\ turn'[g].prompt = turn[g].prompt /\ turn'[g].io = turn[g].io
  <2>1. OnlyMoves(g) /\ turn'[g].pc = ph
    <3>1. "none" \in {"none", "submitted", "opened"} OBVIOUS
    <3>2. QED BY <1>0, <1>1, <3>1, GotoMoves
  <2>2. turn'[g] = [turn[g] EXCEPT !.pc = ph] BY <1>0, <1>1 DEF Goto
  <2>3. QED BY <1>0, <2>1, <2>2 DEF Turns
<1>2. /\ "persist" \in Phases /\ "finish" \in Phases /\ "open" \in Phases /\ "insert" \in Phases
      /\ "signal" \in Phases
  BY DEF Phases, LivePhases
<1>3. CASE RunTurnOk(g)
  <2>1. Moves(g, "run", "persist") /\ turn'[g].prompt = turn[g].prompt /\ turn'[g].io = turn[g].io
    BY <1>1, <1>2, <1>3 DEF RunTurnOk, Moves
  <2>2. PICK d \in TurnDeltas(turn[g].prompt) : work' = [work EXCEPT ![g].delta = d, ![g].rest = d]
    BY <1>3 DEF RunTurnOk
  <2>3. OnlyWork(g, [snap |-> work[g].snap, delta |-> d, rest |-> d])
    <3>1. work' = [h \in Gens |-> work'[h]] BY <1>0, <2>2
    <3>2. /\ work'[g] = [snap |-> work[g].snap, delta |-> d, rest |-> d]
          /\ \A h \in Gens \ {g} : work'[h] = work[h]
      BY <1>0, <2>2 DEF WorkRec
    <3>3. QED BY <3>1, <3>2 DEF OnlyWork
  <2>4. UNCHANGED <<tombstones, disk, parking, rpc, mem, pool>> BY <1>3 DEF RunTurnOk
  <2>5. QED BY <2>1, <2>2, <2>3, <2>4 DEF Moves
<1>4. CASE RunTurnErr(g)
  <2>1. Moves(g, "run", "finish") /\ turn'[g].prompt = turn[g].prompt /\ turn'[g].io = turn[g].io
    BY <1>1, <1>2, <1>4 DEF RunTurnErr, Moves
  <2>2. UNCHANGED <<tombstones, disk, parking, rpc, mem, pool, work>> BY <1>4 DEF RunTurnErr
  <2>3. QED BY <2>1, <2>2 DEF Moves
<1>5. ASSUME work' = [work EXCEPT ![g].rest = Tail(@)]
      PROVE  OnlyWork(g, [snap |-> work[g].snap, delta |-> work[g].delta,
                          rest |-> Tail(work[g].rest)])
  <2>1. work' = [h \in Gens |-> work'[h]] BY <1>0, <1>5
  <2>2. /\ work'[g] = [snap |-> work[g].snap, delta |-> work[g].delta, rest |-> Tail(work[g].rest)]
        /\ \A h \in Gens \ {g} : work'[h] = work[h]
    BY <1>0, <1>5 DEF WorkRec
  <2>3. QED BY <2>1, <2>2 DEF OnlyWork
<1>6. CASE SkipLine(g)
  <2>1. Moves(g, "persist", "persist") /\ turn' = turn
    BY <1>0, <1>6 DEF SkipLine, Moves, OnlyMoves
  <2>2. UNCHANGED <<tombstones, disk, parking, rpc, mem, pool>> /\ turn[g].session \in tombstones
        /\ work[g].rest # <<>>
    BY <1>6 DEF SkipLine
  <2>3. work' = [work EXCEPT ![g].rest = Tail(@)] BY <1>6 DEF SkipLine
  <2>4. QED BY <1>5, <2>1, <2>2, <2>3 DEF Moves
<1>7. CASE SubmitOpen(g)
  <2>1. turn' = [turn EXCEPT ![g].pc = "open", ![g].io = "submitted"] /\ turn[g].pc = "persist"
    BY <1>7 DEF SubmitOpen
  <2>2. OnlyMoves(g) /\ turn'[g].pc = "open"
    <3>1. [turn[g] EXCEPT !.pc = "open", !.io = "submitted"] \in Turns BY <1>0, <1>2 DEF Turns
    <3>2. turn' = [turn EXCEPT ![g] = [turn[g] EXCEPT !.pc = "open", !.io = "submitted"]]
      BY <1>0, <2>1 DEF Turns
    <3>3. QED BY <1>0, <3>1, <3>2 DEF OnlyMoves, Turns
  <2>3. turn'[g].prompt = turn[g].prompt /\ turn'[g].io = "submitted" BY <1>0, <2>1 DEF Turns
  <2>4. UNCHANGED <<tombstones, disk, parking, rpc, mem, pool, work>> /\ work[g].rest # <<>>
    BY <1>7 DEF SubmitOpen
  <2>5. QED BY <2>1, <2>2, <2>3, <2>4 DEF Moves
<1>8. CASE WriteLine(g)
  <2>1. /\ turn' = [turn EXCEPT ![g].pc = "persist", ![g].io = "none"]
        /\ turn[g].pc = "open" /\ turn[g].io = "opened"
    BY <1>8 DEF WriteLine
  <2>2. OnlyMoves(g) /\ turn'[g].pc = "persist"
    <3>1. [turn[g] EXCEPT !.pc = "persist", !.io = "none"] \in Turns BY <1>0, <1>2 DEF Turns
    <3>2. turn' = [turn EXCEPT ![g] = [turn[g] EXCEPT !.pc = "persist", !.io = "none"]]
      BY <1>0, <2>1 DEF Turns
    <3>3. QED BY <1>0, <3>1, <3>2 DEF OnlyMoves, Turns
  <2>3. turn'[g].prompt = turn[g].prompt /\ turn'[g].io = "none" BY <1>0, <2>1 DEF Turns
  <2>4. UNCHANGED <<tombstones, disk, parking, rpc, mem>>
        /\ pool' = [pool EXCEPT ![turn[g].session] = Append(@, Head(work[g].rest))]
        /\ work' = [work EXCEPT ![g].rest = Tail(@)]
    BY <1>8 DEF WriteLine
  <2>5. work[g].rest # <<>> BY <2>1 DEF StoreInv, TaskInv
  <2>6. QED BY <1>5, <2>1, <2>2, <2>3, <2>4, <2>5 DEF Moves
<1>9. CASE Settle(g)
  <2>1. UNCHANGED <<tombstones, disk, parking, rpc, mem, pool, work>> /\ work[g].rest = <<>>
        /\ turn[g].pc = "persist"
    BY <1>9 DEF Settle
  <2>2. CASE turn[g].session \in tombstones
    <3>1. Goto(g, "finish") BY <1>9, <2>2 DEF Settle
    <3>2. Moves(g, "persist", "finish") /\ turn'[g].prompt = turn[g].prompt /\ turn'[g].io = turn[g].io
      BY <1>1, <1>2, <2>1, <3>1 DEF Moves
    <3>3. QED BY <2>1, <2>2, <3>2 DEF Moves
  <2>3. CASE turn[g].session \notin tombstones
    <3>1. Goto(g, "insert") BY <1>9, <2>3 DEF Settle
    <3>2. Moves(g, "persist", "insert") /\ turn'[g].prompt = turn[g].prompt /\ turn'[g].io = turn[g].io
      BY <1>1, <1>2, <2>1, <3>1 DEF Moves
    <3>3. QED BY <2>1, <2>3, <3>2 DEF Moves
  <2>4. QED BY <2>2, <2>3
<1>10. CASE InsertHistory(g)
  <2>1. Moves(g, "insert", "finish") /\ turn'[g].prompt = turn[g].prompt /\ turn'[g].io = turn[g].io
    BY <1>1, <1>2, <1>10 DEF InsertHistory, Moves
  <2>2. UNCHANGED <<tombstones, disk, parking, rpc, pool, work>>
        /\ mem' = [mem EXCEPT ![turn[g].session] = work[g].snap \o work[g].delta]
    BY <1>10 DEF InsertHistory
  <2>3. QED BY <2>1, <2>2 DEF Moves
<1>11. CASE FinishTurn(g) \/ AbortLands(g)
  <2>1. Goto(g, "signal") /\ Live(g) /\ (turn[g].pc = "finish" \/ turn[g].aborted)
    BY <1>11 DEF FinishTurn, AbortLands, DropTask, Live, LivePhases
  <2>2. work' = [work EXCEPT ![g] = [NoWork EXCEPT !.delta = work[g].delta]]
    BY <1>11 DEF FinishTurn, AbortLands, DropTask
  <2>3. OnlyWork(g, [snap |-> <<>>, delta |-> work[g].delta, rest |-> <<>>])
    <3>1. [NoWork EXCEPT !.delta = work[g].delta] = [snap |-> <<>>, delta |-> work[g].delta, rest |-> <<>>]
      BY DEF NoWork
    <3>2. QED BY <1>0, <2>2, <3>1 DEF OnlyWork
  <2>4. UNCHANGED <<tombstones, disk, parking, rpc, mem, pool>>
    BY <1>11 DEF FinishTurn, AbortLands
  <2>5. OnlyMoves(g) /\ turn'[g].pc = "signal" /\ turn'[g].prompt = turn[g].prompt /\ turn'[g].io = turn[g].io
    BY <1>1, <1>2, <2>1
  <2>6. QED BY <2>1, <2>3, <2>4, <2>5
<1>12. QED BY <1>3, <1>4, <1>6, <1>7, <1>8, <1>9, <1>10, <1>11 DEF TurnTask, OwnStep

\* ... and what the start of a turn does.
Spawned(s, p, base, turns, h) ==
  /\ h = Append(Base(base), PromptLine(p)) /\ h # <<>>
  /\ \A i \in DOMAIN Base(base) : i \in DOMAIN h /\ h[i] = Base(base)[i]
  /\ \A i \in DOMAIN h : i \in DOMAIN Base(base) \/ i = Len(h)
  /\ h[Len(h)] = PromptLine(p) /\ Len(h) \in DOMAIN h
  /\ nextGen \in Gens /\ PromptLine(p) \in SingleLines
  /\ mem' = [mem EXCEPT ![s] = h]
  /\ disk' = [disk EXCEPT ![s] = IF @ = NoFile THEN <<>> ELSE @]
  /\ pool' = [pool EXCEPT ![s] = Append(@, PromptLine(p))]
  /\ OnlyWork(nextGen, [snap |-> h, delta |-> <<>>, rest |-> <<>>])
  /\ turn' \in [Gens -> Turns] /\ turn'[nextGen] = NewTurn(s, p)
  /\ \A g \in Gens \ {nextGen} : turn'[g] = turns[g]
  /\ turn[nextGen].pc = "none"

LEMMA SpawnEffects ==
  ASSUME GateInv, StoreInv, NEW STATE s, s \in Sessions, NEW STATE p, p \in Prompts,
         NEW STATE base, base \in Valid \cup {NoHistory},
         NEW STATE turns, turns \in [Gens -> Turns],
         SpawnTurn(s, p, base, turns)
  PROVE  \E h \in Valid : Spawned(s, p, base, turns, h)
<1>1. p \in Nat /\ p \in 0..MaxPrompts BY RouterAssumption DEF Prompts
<1>2. PICK h \in Valid :
           /\ h = Append(Base(base), PromptLine(p)) /\ h # <<>>
           /\ h[Len(h)] = PromptLine(p) /\ Len(h) \in DOMAIN h
           /\ \A i \in DOMAIN Base(base) : i \in DOMAIN h /\ h[i] = Base(base)[i]
           /\ \A i \in DOMAIN h : i \in DOMAIN Base(base) \/ i = Len(h)
  BY <1>1, PromptGrows
<1>3. /\ nextGen \in Gens
      /\ mem' = [mem EXCEPT ![s] = h]
      /\ disk' = [disk EXCEPT ![s] = IF @ = NoFile THEN <<>> ELSE @]
      /\ pool' = [pool EXCEPT ![s] = Append(@, PromptLine(p))]
      /\ turn' = [turns EXCEPT ![nextGen] = NewTurn(s, p)]
      /\ work' = [work EXCEPT ![nextGen] = [NoWork EXCEPT !.snap = h]]
  BY <1>2 DEF SpawnTurn, StoreAppend, Base
<1>4. [NoWork EXCEPT !.snap = h] = [snap |-> h, delta |-> <<>>, rest |-> <<>>] BY DEF NoWork
<1>5. OnlyWork(nextGen, [snap |-> h, delta |-> <<>>, rest |-> <<>>])
  BY <1>3, <1>4 DEF OnlyWork, StoreInv, StoreType
<1>6. NewTurn(s, p) \in Turns BY <1>1 DEF NewTurn, Turns, Phases, LivePhases
<1>7. /\ turn' \in [Gens -> Turns] /\ turn'[nextGen] = NewTurn(s, p)
      /\ \A g \in Gens \ {nextGen} : turn'[g] = turns[g]
  BY <1>3, <1>6
<1>8. turn[nextGen].pc = "none"
  <2>1. nextGen >= nextGen BY <1>3, RouterAssumption DEF Gens
  <2>2. QED BY <1>3, <2>1 DEF GateInv, FreshGenerations
<1>9. PromptLine(p) \in SingleLines BY <1>1, LineFacts
<1>10. QED BY <1>2, <1>3, <1>5, <1>7, <1>8, <1>9 DEF Spawned

-----------------------------------------------------------------------------
(* The invariant of the store is inductive.                                 *)

LEMMA NoWorkType == NoWork \in WorkRec /\ NoWork.rest = <<>> /\ NoWork.delta = <<>>
<1>1. <<>> \in Valid
  <2>1. <<>> \in Seq(Message) /\ ApiValid(<<>>) BY DEF ApiValid
  <2>2. QED BY <2>1 DEF Valid
<1>2. <<>> \in Added BY DEF Added
<1>3. QED BY <1>1, <1>2 DEF NoWork, WorkRec

LEMMA IdleType == Idle \in RpcRec /\ Idle.at = "select"
<1>1. (CHOOSE s \in Sessions : TRUE) \in Sessions BY RouterAssumption
<1>2. QED BY <1>1 DEF Idle, RpcRec

LEMMA StoreInit == Init => StoreInv
<1> SUFFICES ASSUME Init PROVE StoreInv OBVIOUS
<1>1. StoreType BY NoWorkType, IdleType, RouterAssumption DEF Init, StoreType
<1>2. \A g \in Gens : turn[g].pc = "none" BY NoTurnType DEF Init
<1>3. \A g \in Gens : TaskInv(g) BY <1>2 DEF TaskInv, Live, LivePhases
<1>4. RetireIsTombstoned BY IdleType DEF Init, RetireIsTombstoned
<1>5. QED BY <1>1, <1>3, <1>4 DEF StoreInv

\* The turn tasks stand as they stood, or are done.
LEMMA TasksStay ==
  ASSUME StoreInv, work' = work,
         \A g \in Gens : turn'[g].pc = turn[g].pc \/ turn'[g].pc = "gone"
  PROVE  (\A g \in Gens : TaskInv(g))'
<1> SUFFICES ASSUME NEW g \in Gens PROVE TaskInv(g)' OBVIOUS
<1>1. TaskInv(g) BY DEF StoreInv
<1>2. CASE turn'[g].pc = turn[g].pc BY <1>1, <1>2 DEF TaskInv, Live
<1>3. CASE turn'[g].pc = "gone" BY <1>3 DEF TaskInv, Live, LivePhases
<1>4. QED BY <1>2, <1>3

LEMMA TaskKeepsStore ==
  ASSUME GateInv, StoreInv, NEW g \in Gens, TurnTask(g)
  PROVE  StoreInv'
<1>0. /\ turn[g] \in Turns /\ turn[g].session \in Sessions /\ turn[g].prompt \in 0..MaxPrompts
      /\ work \in [Gens -> WorkRec] /\ work[g] \in WorkRec
  BY DEF GateInv, ControlTypeOK, Turns, StoreInv, StoreType
<1>1. TaskInv(g) BY DEF StoreInv
<1>2. OnlyMoves(g) /\ UNCHANGED <<tombstones, disk, parking, rpc>> BY TaskEffects
<1>3. RetireIsTombstoned' BY <1>2 DEF StoreInv, RetireIsTombstoned
<1>4. ASSUME work' \in [Gens -> WorkRec], TaskInv(g)', \A h \in Gens \ {g} : work'[h] = work[h],
             pool' \in [Sessions -> Seq(SingleLines)], mem' \in [Sessions -> Valid \cup {NoHistory}]
      PROVE  StoreInv'
  <2>1. StoreType' BY <1>2, <1>4 DEF StoreInv, StoreType
  <2>2. ASSUME NEW h \in Gens PROVE TaskInv(h)'
    <3>1. CASE h = g BY <1>4, <3>1
    <3>2. CASE h # g BY <1>2, <1>4, <3>2 DEF OnlyMoves, StoreInv, TaskInv, Live
    <3>3. QED BY <3>1, <3>2
  <2>3. QED BY <1>3, <2>1, <2>2 DEF StoreInv
<1>5. /\ work[g].snap \in Valid /\ work[g].delta \in Added /\ work[g].rest \in Seq(SingleLines)
      /\ pool \in [Sessions -> Seq(SingleLines)] /\ mem \in [Sessions -> Valid \cup {NoHistory}]
  BY <1>0 DEF WorkRec, StoreInv, StoreType
<1>6. CASE \E d \in TurnDeltas(turn[g].prompt) :
             OnlyWork(g, [snap |-> work[g].snap, delta |-> d, rest |-> d])
           /\ Moves(g, "run", "persist") /\ UNCHANGED <<mem, pool>>
  <2>1. PICK d \in TurnDeltas(turn[g].prompt) :
             OnlyWork(g, [snap |-> work[g].snap, delta |-> d, rest |-> d])
    BY <1>6
  <2>2. d \in Added /\ d \in Seq(SingleLines) BY <1>0, AddedFacts DEF Added
  <2>3. PICK w \in WorkRec : w = [snap |-> work[g].snap, delta |-> d, rest |-> d]
    BY <1>5, <2>2 DEF WorkRec
  <2>4. /\ work' \in [Gens -> WorkRec] /\ work'[g] = w
        /\ \A h \in Gens \ {g} : work'[h] = work[h]
    BY <2>1, <2>3, OnlyWorkFacts
  <2>5. TaskInv(g)' BY <1>1, <1>6, <2>3, <2>4 DEF TaskInv, Live, LivePhases, Moves
  <2>6. QED BY <1>4, <1>5, <1>6, <2>4, <2>5
<1>7. CASE /\ OnlyWork(g, [snap |-> work[g].snap, delta |-> work[g].delta, rest |-> Tail(work[g].rest)])
           /\ work[g].rest # <<>>
           /\ turn'[g].pc = "persist" /\ Live(g)
           /\ UNCHANGED mem
           /\ \/ UNCHANGED pool
              \/ pool' = [pool EXCEPT ![turn[g].session] = Append(@, Head(work[g].rest))]
  <2>1. Head(work[g].rest) \in SingleLines /\ Tail(work[g].rest) \in Seq(SingleLines) BY <1>5, <1>7
  <2>2. PICK w \in WorkRec : w = [snap |-> work[g].snap, delta |-> work[g].delta,
                                  rest |-> Tail(work[g].rest)]
    BY <1>5, <2>1 DEF WorkRec
  <2>3. /\ work' \in [Gens -> WorkRec] /\ work'[g] = w
        /\ \A h \in Gens \ {g} : work'[h] = work[h]
    BY <1>7, <2>2, OnlyWorkFacts
  <2>4. TaskInv(g)' BY <1>1, <1>7, <2>2, <2>3 DEF TaskInv, Live, LivePhases
  <2>5. pool' \in [Sessions -> Seq(SingleLines)]
    <3>1. Append(pool[turn[g].session], Head(work[g].rest)) \in Seq(SingleLines)
      BY <1>0, <1>5, <2>1
    <3>2. QED BY <1>5, <1>7, <3>1
  <2>6. QED BY <1>4, <1>5, <1>7, <2>3, <2>4, <2>5
<1>8. CASE UNCHANGED <<mem, pool, work>> /\ TaskInv(g)' BY <1>0, <1>4, <1>5, <1>8
<1>9. CASE Moves(g, "insert", "finish") /\ UNCHANGED <<pool, work>>
           /\ mem' = [mem EXCEPT ![turn[g].session] = work[g].snap \o work[g].delta]
  <2>1. work[g].snap # <<>> BY <1>1, <1>9 DEF TaskInv, Live, LivePhases, Moves
  <2>2. work[g].snap \o work[g].delta \in Valid BY <1>5, <2>1, DeltaGrows
  <2>3. mem' \in [Sessions -> Valid \cup {NoHistory}] BY <1>5, <1>9, <2>2
  <2>4. TaskInv(g)' BY <1>9, <2>1 DEF TaskInv, Live, LivePhases, Moves
  <2>5. QED BY <1>0, <1>4, <1>5, <1>9, <2>3, <2>4
<1>10. CASE /\ turn'[g].pc = "signal" /\ UNCHANGED <<mem, pool>>
            /\ OnlyWork(g, [snap |-> <<>>, delta |-> work[g].delta, rest |-> <<>>])
  <2>1. PICK w \in WorkRec : w = [snap |-> <<>>, delta |-> work[g].delta, rest |-> <<>>]
    <3>1. <<>> \in Valid /\ <<>> \in Seq(SingleLines) BY NoWorkType DEF NoWork, WorkRec
    <3>2. QED BY <1>5, <3>1 DEF WorkRec
  <2>2. /\ work' \in [Gens -> WorkRec] /\ work'[g] = w
        /\ \A h \in Gens \ {g} : work'[h] = work[h]
    BY <1>10, <2>1, OnlyWorkFacts
  <2>3. TaskInv(g)' BY <1>10 DEF TaskInv, Live, LivePhases
  <2>4. QED BY <1>4, <1>5, <1>10, <2>2, <2>3
<1>11. CASE Moves(g, "run", "finish") /\ UNCHANGED <<mem, pool, work>>
  BY <1>1, <1>8, <1>11 DEF TaskInv, Live, LivePhases, Moves
<1>12. CASE Moves(g, "persist", "open") /\ work[g].rest # <<>> /\ UNCHANGED <<mem, pool, work>>
  BY <1>1, <1>8, <1>12 DEF TaskInv, Live, LivePhases, Moves
<1>13. CASE Moves(g, "persist", "finish") /\ UNCHANGED <<mem, pool, work>>
  BY <1>1, <1>8, <1>13 DEF TaskInv, Live, LivePhases, Moves
<1>14. CASE Moves(g, "persist", "insert") /\ work[g].rest = <<>> /\ UNCHANGED <<mem, pool, work>>
  BY <1>1, <1>8, <1>14 DEF TaskInv, Live, LivePhases, Moves
<1>15. CASE Moves(g, "persist", "persist") \/ Moves(g, "open", "persist")
  <2>1. Live(g) /\ turn'[g].pc = "persist" BY <1>15 DEF Moves, Live, LivePhases
  <2>2. /\ OnlyWork(g, [snap |-> work[g].snap, delta |-> work[g].delta, rest |-> Tail(work[g].rest)])
        /\ work[g].rest # <<>> /\ UNCHANGED mem
        /\ \/ UNCHANGED pool
           \/ pool' = [pool EXCEPT ![turn[g].session] = Append(@, Head(work[g].rest))]
    BY <1>15, <2>1, TaskEffects DEF Moves
  <2>3. QED BY <1>7, <2>1, <2>2
<1>16. QED BY <1>6, <1>9, <1>10, <1>11, <1>12, <1>13, <1>14, <1>15, TaskEffects

LEMMA SpawnKeepsStore ==
  ASSUME GateInv, StoreInv, NEW STATE s, s \in Sessions, NEW STATE p, p \in Prompts,
         NEW STATE base, base \in Valid \cup {NoHistory},
         NEW STATE turns, turns \in [Gens -> Turns],
         SpawnTurn(s, p, base, turns),
         \A g \in Gens : turns[g].pc = turn[g].pc \/ turns[g].pc = "gone",
         UNCHANGED <<tombstones, parking, rpc>>
  PROVE  StoreInv'
<1>0. PICK h \in Valid : Spawned(s, p, base, turns, h) BY SpawnEffects
<1>1. /\ h # <<>> /\ nextGen \in Gens /\ PromptLine(p) \in SingleLines
      /\ mem' = [mem EXCEPT ![s] = h]
      /\ disk' = [disk EXCEPT ![s] = IF @ = NoFile THEN <<>> ELSE @]
      /\ pool' = [pool EXCEPT ![s] = Append(@, PromptLine(p))]
      /\ OnlyWork(nextGen, [snap |-> h, delta |-> <<>>, rest |-> <<>>])
      /\ turn' \in [Gens -> Turns] /\ turn'[nextGen] = NewTurn(s, p)
      /\ \A g \in Gens \ {nextGen} : turn'[g] = turns[g]
  BY <1>0 DEF Spawned
<1>2. PICK w \in WorkRec : w = [snap |-> h, delta |-> <<>>, rest |-> <<>>]
  BY NoWorkType DEF WorkRec, NoWork
<1>3. /\ work' \in [Gens -> WorkRec] /\ work'[nextGen] = w
      /\ \A g \in Gens \ {nextGen} : work'[g] = work[g]
  BY <1>1, <1>2, OnlyWorkFacts
<1>4. mem' \in [Sessions -> Valid \cup {NoHistory}] BY <1>1 DEF StoreInv, StoreType
<1>5. disk' \in [Sessions -> Seq(SingleLines) \cup {NoFile}] BY <1>1 DEF StoreInv, StoreType
<1>6. pool' \in [Sessions -> Seq(SingleLines)]
  <2>1. pool \in [Sessions -> Seq(SingleLines)] BY DEF StoreInv, StoreType
  <2>2. Append(pool[s], PromptLine(p)) \in Seq(SingleLines) BY <1>1, <2>1
  <2>3. QED BY <1>1, <2>1, <2>2
<1>7. StoreType' BY <1>3, <1>4, <1>5, <1>6 DEF StoreInv, StoreType
<1>8. ASSUME NEW g \in Gens PROVE TaskInv(g)'
  <2>1. CASE g = nextGen
    <3>1. turn'[g].pc = "run" BY <1>1, <2>1 DEF NewTurn
    <3>2. work'[g].snap = h /\ work'[g].delta = <<>> BY <1>2, <1>3, <2>1
    <3>3. QED BY <1>1, <3>1, <3>2 DEF TaskInv
  <2>2. CASE g # nextGen
    <3>1. (turn'[g].pc = turn[g].pc \/ turn'[g].pc = "gone") /\ work'[g] = work[g]
      BY <1>1, <1>3, <2>2
    <3>2. TaskInv(g) BY DEF StoreInv
    <3>3. QED BY <3>1, <3>2 DEF TaskInv, Live, LivePhases
  <2>3. QED BY <2>1, <2>2
<1>9. RetireIsTombstoned' BY DEF StoreInv, RetireIsTombstoned
<1>10. QED BY <1>7, <1>8, <1>9 DEF StoreInv

-----------------------------------------------------------------------------
(* What the router's handlers do to the store.                              *)

\* The history a prompt finds: the resident one, or a parked worker's file.
PromptBase(s) == IF NeedsRevival(s) THEN Reloaded(disk[s]) ELSE mem[s]

LEMMA PromptEffects ==
  ASSUME GateInv, StoreInv, NEW s \in Sessions, UserPrompt(s)
  PROVE  /\ nextPrompt \in Prompts /\ PromptBase(s) \in Valid \cup {NoHistory}
         /\ UNCHANGED <<tombstones, parking, rpc>>
         /\ \/ UNCHANGED <<mem, disk, pool, turn, work>>
            \/ /\ s \notin tombstones /\ mem' = [mem EXCEPT ![s] = PromptBase(s)]
               /\ UNCHANGED <<disk, pool, turn, work>>
            \/ /\ s \notin tombstones /\ s \notin retired /\ s \notin busy
               /\ SpawnTurn(s, nextPrompt, PromptBase(s), turn)
<1>1. nextPrompt \in Prompts
  BY RouterAssumption DEF UserPrompt, GateInv, ControlTypeOK, Prompts
<1>2. PromptBase(s) \in Valid \cup {NoHistory}
  <2>1. mem[s] \in Valid \cup {NoHistory} /\ disk[s] \in Seq(SingleLines) \cup {NoFile}
    BY DEF StoreInv, StoreType
  <2>2. QED BY <2>1, ReloadedFacts DEF PromptBase
<1>3. UNCHANGED <<tombstones, parking, rpc>> BY DEF UserPrompt
<1>4. CASE s \in tombstones \/ (NeedsRevival(s) /\ Reloaded(disk[s]) = NoHistory)
  BY <1>1, <1>2, <1>3, <1>4 DEF UserPrompt, taskVars
<1>5. CASE ~(s \in tombstones \/ (NeedsRevival(s) /\ Reloaded(disk[s]) = NoHistory))
  <2>1. Admit(s, nextPrompt, PromptBase(s)) /\ s \notin tombstones
    BY <1>5 DEF UserPrompt, PromptBase
  <2>2. \/ /\ mem' = [mem EXCEPT ![s] = PromptBase(s)]
           /\ UNCHANGED <<disk, pool, turn, work>>
        \/ /\ s \notin retired /\ s \notin busy
           /\ SpawnTurn(s, nextPrompt, PromptBase(s), turn)
    BY <2>1 DEF Admit, taskVars
  <2>3. QED BY <1>1, <1>2, <1>3, <2>1, <2>2
<1>6. QED BY <1>4, <1>5

\* The turn record after its slot was handed back.
Gone(g) == [turn EXCEPT ![g].pc = "gone"]

LEMMA DoneEffects ==
  ASSUME GateInv, StoreInv, NEW g \in Gens, TurnDone(g)
  PROVE  /\ turn[g].pc = "signal" /\ turn[g].session \in Sessions
         /\ Gone(g) \in [Gens -> Turns]
         /\ Gone(g)[g] = [turn[g] EXCEPT !.pc = "gone"] /\ Gone(g)[g].pc = "gone"
         /\ Gone(g)[g].session = turn[g].session /\ Gone(g)[g].prompt = turn[g].prompt
         /\ Gone(g)[g].io = turn[g].io /\ Gone(g)[g].aborted = turn[g].aborted
         /\ \A h \in Gens \ {g} : Gone(g)[h] = turn[h]
         /\ mem[turn[g].session] \in Valid \cup {NoHistory}
         /\ UNCHANGED <<tombstones, parking, rpc>>
         /\ \/ turn' = Gone(g) /\ UNCHANGED <<mem, disk, pool, work>>
            \/ /\ turn[g].session \notin retired /\ Head(queued[turn[g].session]) \in Prompts
               /\ SpawnTurn(turn[g].session, Head(queued[turn[g].session]), mem[turn[g].session],
                            Gone(g))
<1>1. turn \in [Gens -> Turns] /\ turn[g] \in Turns /\ turn[g].session \in Sessions
  BY DEF GateInv, ControlTypeOK, Turns
<1>2. "gone" \in Phases BY DEF Phases
<1>3. [turn[g] EXCEPT !.pc = "gone"] \in Turns BY <1>1, <1>2 DEF Turns
<1>4. Gone(g) = [turn EXCEPT ![g] = [turn[g] EXCEPT !.pc = "gone"]] BY <1>1 DEF Gone, Turns
<1>5. /\ Gone(g) \in [Gens -> Turns] /\ Gone(g)[g] = [turn[g] EXCEPT !.pc = "gone"]
      /\ \A h \in Gens \ {g} : Gone(g)[h] = turn[h]
  BY <1>1, <1>3, <1>4
<1>6. /\ Gone(g)[g].pc = "gone" /\ Gone(g)[g].session = turn[g].session
      /\ Gone(g)[g].prompt = turn[g].prompt /\ Gone(g)[g].io = turn[g].io
      /\ Gone(g)[g].aborted = turn[g].aborted
  BY <1>1, <1>5 DEF Turns
<1>7. mem[turn[g].session] \in Valid \cup {NoHistory} BY <1>1 DEF StoreInv, StoreType
<1>8. UNCHANGED <<tombstones, parking, rpc>> /\ turn[g].pc = "signal" BY DEF TurnDone
<1>9. \/ turn' = Gone(g) /\ UNCHANGED <<mem, disk, pool, work>>
      \/ /\ turn[g].session \notin retired /\ queued[turn[g].session] # <<>>
         /\ SpawnTurn(turn[g].session, Head(queued[turn[g].session]), mem[turn[g].session], Gone(g))
  BY DEF TurnDone, Gone
<1>10. queued[turn[g].session] \in Seq(Prompts) BY <1>1 DEF GateInv, ControlTypeOK
<1>11. queued[turn[g].session] # <<>> => Head(queued[turn[g].session]) \in Prompts BY <1>10
<1>12. QED BY <1>1, <1>5, <1>6, <1>7, <1>8, <1>9, <1>11

LEMMA AbortEffects ==
  ASSUME GateInv, NEW s \in Sessions, Abort(s)
  PROVE  /\ work' = work
         /\ \A g \in Gens : /\ turn'[g].pc = turn[g].pc /\ turn'[g].session = turn[g].session
                            /\ turn'[g].prompt = turn[g].prompt /\ turn'[g].io = turn[g].io
                            /\ turn[g].aborted => turn'[g].aborted
<1>1. work' = work BY DEF Abort
<1>2. ASSUME NEW g \in Gens
      PROVE  /\ turn'[g].pc = turn[g].pc /\ turn'[g].session = turn[g].session
             /\ turn'[g].prompt = turn[g].prompt /\ turn'[g].io = turn[g].io
             /\ turn[g].aborted => turn'[g].aborted
  <2>1. turn[g] \in Turns BY DEF GateInv, ControlTypeOK, Turns
  <2>2. turn'[g] = IF g = handles[s] THEN [turn[g] EXCEPT !.aborted = TRUE] ELSE turn[g]
    BY DEF Abort
  <2>3. QED BY <2>1, <2>2 DEF Turns
<1>3. QED BY <1>1, <1>2

LEMMA CancelMarkEffects ==
  ASSUME StoreInv, CancelMark
  PROVE  /\ rpc.session \in Sessions /\ UNCHANGED <<tombstones, disk, pool, turn, work, parking>>
         /\ \/ rpc' = Idle /\ mem' = mem
            \/ /\ rpc' = [at |-> "persist_marker", session |-> rpc.session]
               /\ mem[rpc.session] \in Valid /\ mem[rpc.session] # <<>>
               /\ mem' = [mem EXCEPT ![rpc.session] = Append(mem[rpc.session], CancelMarker)]
<1>1. rpc \in RpcRec /\ rpc.session \in Sessions BY DEF StoreInv, StoreType, RpcRec
<1>2. mem[rpc.session] \in Valid \cup {NoHistory} BY <1>1 DEF StoreInv, StoreType
<1>3. [rpc EXCEPT !.at = "persist_marker"] = [at |-> "persist_marker", session |-> rpc.session]
  BY <1>1 DEF RpcRec
<1>4. UNCHANGED <<tombstones, disk, pool, turn, work, parking>> BY DEF CancelMark, taskVars
<1>5. CASE /\ rpc.session \notin tombstones /\ Resident(rpc.session)
           /\ mem[rpc.session] # <<>> /\ Last(mem[rpc.session]).role = "user"
  <2>1. /\ mem' = [mem EXCEPT ![rpc.session] = Append(mem[rpc.session], CancelMarker)]
        /\ rpc' = [rpc EXCEPT !.at = "persist_marker"]
    BY <1>5 DEF CancelMark
  <2>2. mem[rpc.session] \in Valid BY <1>2, <1>5 DEF Resident
  <2>3. QED BY <1>1, <1>3, <1>4, <1>5, <2>1, <2>2
<1>6. CASE ~(/\ rpc.session \notin tombstones /\ Resident(rpc.session)
             /\ mem[rpc.session] # <<>> /\ Last(mem[rpc.session]).role = "user")
  <2>1. mem' = mem /\ rpc' = Idle BY <1>6 DEF CancelMark
  <2>2. QED BY <1>1, <1>4, <2>1
<1>7. QED BY <1>5, <1>6

\* Taking an element out of a sequence.
LEMMA RemoveAtFacts ==
  ASSUME NEW S, NEW q \in Seq(S), NEW i \in DOMAIN q
  PROVE  /\ RemoveAt(q, i) \in Seq(S)
         /\ \A j \in DOMAIN q : j # i => \E k \in DOMAIN RemoveAt(q, i) : RemoveAt(q, i)[k] = q[j]
<1>1. PICK N \in Nat : N = Len(q) OBVIOUS
<1>2. i \in 1..N /\ i \in Nat BY <1>1
<1>3. PICK a \in Seq(S) : /\ a = SubSeq(q, 1, i - 1) /\ Len(a) = i - 1
                          /\ \A j \in 1..(i - 1) : a[j] = q[j]
  <2>1. /\ SubSeq(q, 1, i - 1) \in Seq(S) /\ Len(SubSeq(q, 1, i - 1)) = i - 1
        /\ \A j \in 1..(i - 1) : SubSeq(q, 1, i - 1)[j] = q[j]
    BY <1>1, <1>2
  <2>2. QED BY <2>1
<1>4. PICK b \in Seq(S) : /\ b = SubSeq(q, i + 1, N) /\ Len(b) = N - i
                          /\ \A j \in 1..(N - i) : b[j] = q[i + j]
  <2>1. /\ SubSeq(q, i + 1, N) \in Seq(S) /\ Len(SubSeq(q, i + 1, N)) = N - i
        /\ \A j \in 1..(N - i) : SubSeq(q, i + 1, N)[j] = q[i + j]
    <3>1. SubSeq(q, i + 1, N) \in Seq(S) /\ Len(SubSeq(q, i + 1, N)) = N - i
      <4>1. \A j \in (i + 1)..N : j \in 1..N BY <1>2
      <4>2. \A j \in (i + 1)..N : q[j] \in S BY <1>1, <4>1
      <4>3. /\ SubSeq(q, i + 1, N) \in Seq(S)
            /\ Len(SubSeq(q, i + 1, N)) = IF i + 1 <= N THEN N - (i + 1) + 1 ELSE 0
        BY <1>2, <4>2, SubSeqProperties
      <4>4. (IF i + 1 <= N THEN N - (i + 1) + 1 ELSE 0) = N - i BY <1>2
      <4>5. QED BY <4>3, <4>4
    <3>2. \A j \in 1..(N - i) : SubSeq(q, i + 1, N)[j] = q[i + j] BY <1>1, <1>2
    <3>3. QED BY <3>1, <3>2
  <2>2. QED BY <2>1
<1>5. PICK c \in Seq(S) : /\ c = a \o b /\ Len(c) = N - 1
                          /\ \A j \in 1..(N - 1) : c[j] = IF j <= i - 1 THEN a[j] ELSE b[j - (i - 1)]
  <2>1. /\ a \o b \in Seq(S) /\ Len(a \o b) = (i - 1) + (N - i)
        /\ \A j \in 1..((i - 1) + (N - i)) :
             (a \o b)[j] = IF j <= i - 1 THEN a[j] ELSE b[j - (i - 1)]
    <3>1. /\ a \o b \in Seq(S) /\ Len(a \o b) = Len(a) + Len(b)
          /\ \A j \in 1..(Len(a) + Len(b)) : (a \o b)[j] = IF j <= Len(a) THEN a[j] ELSE b[j - Len(a)]
      BY ConcatProperties
    <3>2. QED BY <1>3, <1>4, <3>1
  <2>2. (i - 1) + (N - i) = N - 1 BY <1>2
  <2>3. QED BY <2>1, <2>2
<1>6. RemoveAt(q, i) = c BY <1>1, <1>3, <1>4, <1>5 DEF RemoveAt
<1>7. ASSUME NEW j \in 1..N, j # i PROVE \E k \in DOMAIN c : c[k] = q[j]
  <2>1. DOMAIN c = 1..(N - 1) BY <1>5
  <2>2. CASE j < i
    <3>1. j \in 1..(N - 1) /\ j <= i - 1 /\ j \in 1..(i - 1) BY <1>2, <1>7, <2>2
    <3>2. c[j] = q[j] BY <1>3, <1>5, <3>1
    <3>3. QED BY <2>1, <3>1, <3>2
  <2>3. CASE j > i
    <3>1. /\ j - 1 \in 1..(N - 1) /\ ~(j - 1 <= i - 1) /\ (j - 1) - (i - 1) = j - i
          /\ j - i \in 1..(N - i) /\ i + (j - i) = j
      <4>1. \A n, k, l \in Nat : k >= 1 /\ k < l /\ l <= n =>
              /\ l - 1 \in 1..(n - 1) /\ ~(l - 1 <= k - 1) /\ (l - 1) - (k - 1) = l - k
              /\ l - k \in 1..(n - k) /\ k + (l - k) = l
        OBVIOUS
      <4>2. N \in Nat /\ j \in Nat /\ i >= 1 /\ i < j /\ j <= N BY <1>2, <1>7, <2>3
      <4>3. QED BY <1>2, <4>1, <4>2
    <3>2. c[j - 1] = b[j - i] /\ b[j - i] = q[j] BY <1>4, <1>5, <3>1
    <3>3. QED BY <2>1, <3>1, <3>2
  <2>4. QED BY <1>2, <1>7, <2>2, <2>3
<1>8. DOMAIN q = 1..N BY <1>1
<1>9. RemoveAt(q, i) \in Seq(S) BY <1>5, <1>6
<1>10. QED BY <1>6, <1>7, <1>8, <1>9

\* A write lands: the line leaves the pool, and is in the file if there is one.
LEMMA WriteEffects ==
  ASSUME StoreInv, NEW s \in Sessions, WriteLands(s)
  PROVE  /\ UNCHANGED <<tombstones, mem, turn, work, parking, rpc>>
         /\ \E i \in DOMAIN pool[s] :
              /\ pool[s] \in Seq(SingleLines) /\ RemoveAt(pool[s], i) \in Seq(SingleLines)
              /\ pool[s][i] \in SingleLines
              /\ pool' = [pool EXCEPT ![s] = RemoveAt(pool[s], i)]
              /\ disk' = [disk EXCEPT ![s] = IF @ = NoFile THEN @ ELSE Append(@, pool[s][i])]
              /\ \A j \in DOMAIN pool[s] : j # i =>
                   \E k \in DOMAIN RemoveAt(pool[s], i) : RemoveAt(pool[s], i)[k] = pool[s][j]
<1>1. UNCHANGED <<tombstones, mem, turn, work, parking, rpc>> BY DEF WriteLands, taskVars
<1>2. PICK i \in DOMAIN pool[s] :
        /\ pool' = [pool EXCEPT ![s] = RemoveAt(@, i)]
        /\ disk' = [disk EXCEPT ![s] = IF @ = NoFile THEN @ ELSE Append(@, pool[s][i])]
  BY DEF WriteLands
<1>3. PICK q \in Seq(SingleLines) : q = pool[s] BY DEF StoreInv, StoreType
<1>4. /\ RemoveAt(q, i) \in Seq(SingleLines)
      /\ \A j \in DOMAIN q : j # i => \E k \in DOMAIN RemoveAt(q, i) : RemoveAt(q, i)[k] = q[j]
  BY <1>2, <1>3, RemoveAtFacts
<1>5. q[i] \in SingleLines BY <1>2, <1>3
<1>6. QED BY <1>1, <1>2, <1>3, <1>4, <1>5

LEMMA OpenEffects ==
  ASSUME GateInv, StoreInv, NEW g \in Gens, OpenLands(g)
  PROVE  /\ turn[g].io = "submitted" /\ OnlyMoves(g) /\ turn'[g].pc = turn[g].pc
         /\ turn'[g].io = "opened" /\ turn'[g].prompt = turn[g].prompt /\ turn[g].session \in Sessions
         /\ disk' = [disk EXCEPT ![turn[g].session] = IF @ = NoFile THEN <<>> ELSE @]
         /\ UNCHANGED <<tombstones, mem, pool, work, parking, rpc>>
<1>1. turn \in [Gens -> Turns] /\ turn[g] \in Turns /\ turn[g].session \in Sessions
  BY DEF GateInv, ControlTypeOK, Turns
<1>2. turn' = [turn EXCEPT ![g].io = "opened"] /\ turn[g].io = "submitted" BY DEF OpenLands
<1>3. [turn[g] EXCEPT !.io = "opened"] \in Turns BY <1>1 DEF Turns
<1>4. turn' = [turn EXCEPT ![g] = [turn[g] EXCEPT !.io = "opened"]] BY <1>1, <1>2 DEF Turns
<1>5. OnlyMoves(g) /\ turn'[g].pc = turn[g].pc /\ turn'[g].io = "opened"
      /\ turn'[g].prompt = turn[g].prompt
  BY <1>1, <1>3, <1>4 DEF OnlyMoves, Turns
<1>6. QED BY <1>1, <1>2, <1>5 DEF OpenLands

-----------------------------------------------------------------------------
(* The invariant of the store through every step.                           *)

\* A step that leaves the tasks alone, or marks them aborted or done.
LEMMA QuietStoreStep ==
  ASSUME StoreInv, StoreType', RetireIsTombstoned', work' = work,
         \A g \in Gens : turn'[g].pc = turn[g].pc \/ turn'[g].pc = "gone"
  PROVE  StoreInv'
<1>1. (\A g \in Gens : TaskInv(g))' BY TasksStay
<1>2. QED BY <1>1 DEF StoreInv

LEMMA PromptKeepsStore ==
  ASSUME GateInv, StoreInv, NEW s \in Sessions, UserPrompt(s)
  PROVE  StoreInv'
<1>1. /\ nextPrompt \in Prompts /\ PromptBase(s) \in Valid \cup {NoHistory}
      /\ UNCHANGED <<tombstones, parking, rpc>>
  BY PromptEffects
<1>2. RetireIsTombstoned' BY <1>1 DEF StoreInv, RetireIsTombstoned
<1>3. CASE UNCHANGED <<mem, disk, pool, turn, work>>
  <2>1. StoreType' BY <1>1, <1>3 DEF StoreInv, StoreType
  <2>2. QED BY <1>2, <1>3, <2>1, QuietStoreStep
<1>4. CASE mem' = [mem EXCEPT ![s] = PromptBase(s)] /\ UNCHANGED <<disk, pool, turn, work>>
  <2>1. StoreType' BY <1>1, <1>4 DEF StoreInv, StoreType
  <2>2. QED BY <1>2, <1>4, <2>1, QuietStoreStep
<1>5. CASE SpawnTurn(s, nextPrompt, PromptBase(s), turn)
  <2>1. turn \in [Gens -> Turns] BY DEF GateInv, ControlTypeOK, Turns
  <2>2. QED BY <1>1, <1>5, <2>1, SpawnKeepsStore
<1>6. QED BY <1>3, <1>4, <1>5, PromptEffects

LEMMA DoneKeepsStore ==
  ASSUME GateInv, StoreInv, NEW g \in Gens, TurnDone(g)
  PROVE  StoreInv'
<1>1. /\ turn[g].session \in Sessions /\ mem[turn[g].session] \in Valid \cup {NoHistory}
      /\ UNCHANGED <<tombstones, parking, rpc>>
  BY DoneEffects
<1>2. Gone(g) \in [Gens -> Turns] /\ \A h \in Gens : Gone(g)[h].pc = turn[h].pc \/ Gone(g)[h].pc = "gone"
  BY DoneEffects
<1>3. CASE turn' = Gone(g) /\ UNCHANGED <<mem, disk, pool, work>>
  <2>1. StoreType' BY <1>1, <1>3 DEF StoreInv, StoreType
  <2>2. RetireIsTombstoned' BY <1>1 DEF StoreInv, RetireIsTombstoned
  <2>3. QED BY <1>2, <1>3, <2>1, <2>2, QuietStoreStep
<1>4. CASE /\ Head(queued[turn[g].session]) \in Prompts
           /\ SpawnTurn(turn[g].session, Head(queued[turn[g].session]), mem[turn[g].session], Gone(g))
  BY <1>1, <1>2, <1>4, SpawnKeepsStore
<1>5. QED BY <1>3, <1>4, DoneEffects

LEMMA CancelMarkKeepsStore ==
  ASSUME StoreInv, CancelMark
  PROVE  StoreInv'
<1>1. /\ rpc.session \in Sessions /\ UNCHANGED <<tombstones, disk, pool, turn, work, parking>>
  BY CancelMarkEffects
<1>2. CASE rpc' = Idle /\ mem' = mem
  <2>1. StoreType' /\ RetireIsTombstoned'
    BY <1>1, <1>2, IdleType DEF StoreInv, StoreType, RetireIsTombstoned
  <2>2. QED BY <1>1, <2>1, QuietStoreStep
<1>3. CASE /\ rpc' = [at |-> "persist_marker", session |-> rpc.session]
           /\ mem[rpc.session] \in Valid /\ mem[rpc.session] # <<>>
           /\ mem' = [mem EXCEPT ![rpc.session] = Append(mem[rpc.session], CancelMarker)]
  <2>1. Append(mem[rpc.session], CancelMarker) \in Valid BY <1>3, MarkerGrows
  <2>2. rpc' \in RpcRec /\ rpc'.at = "persist_marker" BY <1>1, <1>3 DEF RpcRec
  <2>3. StoreType' BY <1>1, <1>3, <2>1, <2>2 DEF StoreInv, StoreType
  <2>4. RetireIsTombstoned' BY <2>2 DEF RetireIsTombstoned
  <2>5. QED BY <1>1, <2>3, <2>4, QuietStoreStep
<1>4. QED BY <1>2, <1>3, CancelMarkEffects

LEMMA CancelPersistKeepsStore ==
  ASSUME StoreInv, CancelPersist
  PROVE  StoreInv'
<1>1. rpc.session \in Sessions BY DEF StoreInv, StoreType, RpcRec
<1>2. /\ disk' = [disk EXCEPT ![rpc.session] = IF @ = NoFile THEN <<>> ELSE @]
      /\ pool' = [pool EXCEPT ![rpc.session] = Append(@, CancelMarker)]
      /\ rpc' = Idle
      /\ UNCHANGED <<tombstones, mem, turn, work, parking>>
  BY DEF CancelPersist, StoreAppend, taskVars
<1>3. disk' \in [Sessions -> Seq(SingleLines) \cup {NoFile}] BY <1>1, <1>2 DEF StoreInv, StoreType
<1>4. pool' \in [Sessions -> Seq(SingleLines)]
  <2>1. pool \in [Sessions -> Seq(SingleLines)] BY DEF StoreInv, StoreType
  <2>2. Append(pool[rpc.session], CancelMarker) \in Seq(SingleLines) BY <1>1, <2>1, LineFacts
  <2>3. QED BY <1>2, <2>1, <2>2
<1>5. StoreType' BY <1>2, <1>3, <1>4, IdleType DEF StoreInv, StoreType
<1>6. RetireIsTombstoned' BY <1>2, IdleType DEF RetireIsTombstoned
<1>7. QED BY <1>2, <1>5, <1>6, QuietStoreStep

LEMMA ApplyRetireKeepsStore ==
  ASSUME StoreInv, ApplyRetire
  PROVE  StoreInv'
<1>1. rpc.session \in Sessions BY DEF StoreInv, StoreType, RpcRec
<1>2. /\ mem' = mem \/ mem' = [mem EXCEPT ![rpc.session] = NoHistory]
      /\ disk' = [disk EXCEPT ![rpc.session] = NoFile]
      /\ pool' = [pool EXCEPT ![rpc.session] = <<>>]
      /\ rpc' = Idle
      /\ UNCHANGED <<tombstones, turn, work, parking>>
  BY DEF ApplyRetire, taskVars
<1>3. mem' \in [Sessions -> Valid \cup {NoHistory}] BY <1>2 DEF StoreInv, StoreType
<1>4. disk' \in [Sessions -> Seq(SingleLines) \cup {NoFile}] BY <1>2 DEF StoreInv, StoreType
<1>5. pool' \in [Sessions -> Seq(SingleLines)]
  <2>1. pool \in [Sessions -> Seq(SingleLines)] /\ <<>> \in Seq(SingleLines) BY DEF StoreInv, StoreType
  <2>2. QED BY <1>2, <2>1
<1>6. StoreType' BY <1>2, <1>3, <1>4, <1>5, IdleType DEF StoreInv, StoreType
<1>7. RetireIsTombstoned' BY <1>2, IdleType DEF RetireIsTombstoned
<1>8. QED BY <1>2, <1>6, <1>7, QuietStoreStep

LEMMA StopKeepsStore ==
  ASSUME GateInv, StoreInv, NEW s \in Sessions,
         UserCancel(s) \/ Retire(s, "delete") \/ Retire(s, "archive")
  PROVE  StoreInv'
<1>1. /\ Abort(s) /\ UNCHANGED <<mem, disk, pool, parking>>
      /\ \/ rpc' = [at |-> "mark", session |-> s] /\ tombstones' = tombstones
         \/ /\ rpc' = [at |-> "delete", session |-> s] \/ rpc' = [at |-> "archive", session |-> s]
            /\ s \in tombstones'
  BY DEF UserCancel, Retire, storeVars
<1>2. work' = work /\ \A g \in Gens : turn'[g].pc = turn[g].pc BY <1>1, AbortEffects
<1>3. rpc' \in RpcRec BY <1>1 DEF RpcRec
<1>4. RetireIsTombstoned' BY <1>1 DEF RetireIsTombstoned
<1>5. StoreType' BY <1>1, <1>2, <1>3 DEF StoreInv, StoreType
<1>6. QED BY <1>2, <1>4, <1>5, QuietStoreStep

LEMMA ParkKeepsStore ==
  ASSUME StoreInv, NEW s \in Sessions, Park(s) \/ EvictParked(s)
  PROVE  StoreInv'
<1>1. /\ parking' \subseteq Workers
      /\ mem' = mem \/ mem' = [mem EXCEPT ![s] = NoHistory]
      /\ UNCHANGED <<tombstones, disk, pool, turn, work, rpc>>
  BY DEF Park, EvictParked, storeVars, taskVars, StoreInv, StoreType
<1>2. mem' \in [Sessions -> Valid \cup {NoHistory}] BY <1>1 DEF StoreInv, StoreType
<1>3. StoreType' BY <1>1, <1>2 DEF StoreInv, StoreType
<1>4. RetireIsTombstoned' BY <1>1 DEF StoreInv, RetireIsTombstoned
<1>5. QED BY <1>1, <1>3, <1>4, QuietStoreStep

LEMMA WriteKeepsStore ==
  ASSUME StoreInv, NEW s \in Sessions, WriteLands(s)
  PROVE  StoreInv'
<1>1. UNCHANGED <<tombstones, mem, turn, work, parking, rpc>> BY WriteEffects
<1>2. PICK i \in DOMAIN pool[s] :
        /\ RemoveAt(pool[s], i) \in Seq(SingleLines) /\ pool[s][i] \in SingleLines
        /\ pool' = [pool EXCEPT ![s] = RemoveAt(pool[s], i)]
        /\ disk' = [disk EXCEPT ![s] = IF @ = NoFile THEN @ ELSE Append(@, pool[s][i])]
  BY WriteEffects
<1>3. pool' \in [Sessions -> Seq(SingleLines)] BY <1>2 DEF StoreInv, StoreType
<1>4. disk' \in [Sessions -> Seq(SingleLines) \cup {NoFile}]
  <2>1. disk \in [Sessions -> Seq(SingleLines) \cup {NoFile}] BY DEF StoreInv, StoreType
  <2>2. disk[s] # NoFile => Append(disk[s], pool[s][i]) \in Seq(SingleLines) BY <1>2, <2>1
  <2>3. QED BY <1>2, <2>1, <2>2
<1>5. StoreType' BY <1>1, <1>3, <1>4 DEF StoreInv, StoreType
<1>6. RetireIsTombstoned' BY <1>1 DEF StoreInv, RetireIsTombstoned
<1>7. QED BY <1>1, <1>5, <1>6, QuietStoreStep

LEMMA OpenKeepsStore ==
  ASSUME GateInv, StoreInv, NEW g \in Gens, OpenLands(g)
  PROVE  StoreInv'
<1>1. /\ OnlyMoves(g) /\ turn'[g].pc = turn[g].pc /\ turn[g].session \in Sessions
      /\ disk' = [disk EXCEPT ![turn[g].session] = IF @ = NoFile THEN <<>> ELSE @]
      /\ UNCHANGED <<tombstones, mem, pool, work, parking, rpc>>
  BY OpenEffects
<1>2. disk' \in [Sessions -> Seq(SingleLines) \cup {NoFile}] BY <1>1 DEF StoreInv, StoreType
<1>3. StoreType' BY <1>1, <1>2 DEF StoreInv, StoreType
<1>4. RetireIsTombstoned' BY <1>1 DEF StoreInv, RetireIsTombstoned
<1>5. \A h \in Gens : turn'[h].pc = turn[h].pc BY <1>1 DEF OnlyMoves
<1>6. QED BY <1>1, <1>3, <1>4, <1>5, QuietStoreStep

LEMMA RestartKeepsStore ==
  ASSUME StoreInv, Restart
  PROVE  StoreInv'
<1>1. /\ mem' = [s \in Sessions |-> IF s \in Workers THEN NoHistory ELSE Reloaded(disk[s])]
      /\ pool' = [s \in Sessions |-> <<>>]
      /\ turn' = [g \in Gens |-> NoTurn]
      /\ work' = [g \in Gens |-> NoWork]
      /\ parking' = {} /\ rpc' = Idle /\ disk' = disk
  BY DEF Restart
<1>2. \A s \in Sessions : Reloaded(disk[s]) \in Valid \cup {NoHistory}
  BY ReloadedFacts DEF StoreInv, StoreType
<1>3. mem' \in [Sessions -> Valid \cup {NoHistory}] BY <1>1, <1>2
<1>4. pool' \in [Sessions -> Seq(SingleLines)] BY <1>1
<1>5. StoreType' BY <1>1, <1>3, <1>4, NoWorkType, IdleType DEF StoreInv, StoreType
<1>6. \A g \in Gens : turn'[g].pc = "none" BY <1>1, NoTurnType
<1>7. (\A g \in Gens : TaskInv(g))' BY <1>6 DEF TaskInv, Live, LivePhases
<1>8. RetireIsTombstoned' BY <1>1, IdleType DEF RetireIsTombstoned
<1>9. QED BY <1>5, <1>7, <1>8 DEF StoreInv

LEMMA StoreInductive ==
  ASSUME GateInv, StoreInv, [Next]_vars
  PROVE  StoreInv'
<1>1. CASE UNCHANGED vars
  <2>1. StoreType' /\ RetireIsTombstoned' /\ work' = work /\ turn' = turn
    BY <1>1 DEF vars, StoreInv, StoreType, RetireIsTombstoned
  <2>2. QED BY <2>1, QuietStoreStep
<1>2. ASSUME NEW s \in Sessions,
             \/ UserPrompt(s) \/ UserCancel(s)
             \/ Retire(s, "delete") \/ Retire(s, "archive")
             \/ Park(s) \/ EvictParked(s) \/ WriteLands(s)
      PROVE  StoreInv'
  BY <1>2, PromptKeepsStore, StopKeepsStore, ParkKeepsStore, WriteKeepsStore
<1>3. ASSUME NEW g \in Gens, TurnDone(g) \/ TurnTask(g) \/ OpenLands(g)
      PROVE  StoreInv'
  BY <1>3, DoneKeepsStore, TaskKeepsStore, OpenKeepsStore
<1>4. CASE CancelMark \/ CancelPersist \/ ApplyRetire \/ Restart
  BY <1>4, CancelMarkKeepsStore, CancelPersistKeepsStore, ApplyRetireKeepsStore, RestartKeepsStore
<1>5. QED BY <1>1, <1>2, <1>3, <1>4 DEF Next

(***************************************************************************)
(* The store is consistent in every reachable state: resident histories    *)
(* and snapshots are ones the provider accepts, a task that has started    *)
(* holds a snapshot, and files are only removed behind a tombstone.        *)
(***************************************************************************)
THEOREM StoreInvariant == Spec => []StoreInv
<1>1. Init => StoreInv BY StoreInit
<1>2. GateInv /\ StoreInv /\ [Next]_vars => StoreInv' BY StoreInductive
<1>3. QED BY <1>1, <1>2, GateInvariant, PTL DEF Spec

(***************************************************************************)
(* Every variable of the router has its type, the histories, files and     *)
(* pending lines among them.                                               *)
(***************************************************************************)
THEOREM RouterTypeCorrect == Spec => []TypeOK
<1>1. GateInv /\ StoreInv => TypeOK
  <2> SUFFICES ASSUME GateInv, StoreInv PROVE TypeOK OBVIOUS
  <2>1. ControlTypeOK BY DEF GateInv
  <2>2. \A s \in Sessions : Resident(s) => mem[s] \in Seq(Message)
    BY DEF StoreInv, StoreType, Resident, Valid
  <2>3. \A s \in Sessions : OnDisk(s) => disk[s] \in Seq(Message)
    BY LineFacts DEF StoreInv, StoreType, OnDisk
  <2>4. pool \in [Sessions -> Seq(Message)]
    <3>1. pool \in [Sessions -> Seq(SingleLines)] BY DEF StoreInv, StoreType
    <3>2. QED BY <3>1, LineFacts
  <2>5. work \in [Gens -> [snap : Seq(Message), delta : Seq(Message), rest : Seq(Message)]]
    <3>1. work \in [Gens -> WorkRec] BY DEF StoreInv, StoreType
    <3>2. Valid \subseteq Seq(Message) /\ Added \subseteq Seq(Message) BY AddedFacts, LineFacts DEF Valid
    <3>3. ASSUME NEW w \in WorkRec
          PROVE  w \in [snap : Seq(Message), delta : Seq(Message), rest : Seq(Message)]
      BY <3>2, LineFacts DEF WorkRec
    <3>4. QED BY <3>1, <3>3
  <2>6. rpc \in [at : {"select", "mark", "persist_marker", "delete", "archive"}, session : Sessions]
        /\ parking \subseteq Workers
    BY DEF StoreInv, StoreType, RpcRec
  <2>7. QED BY <2>1, <2>2, <2>3, <2>4, <2>5, <2>6 DEF TypeOK
<1>2. QED BY <1>1, GateInvariant, StoreInvariant, PTL

(***************************************************************************)
(* Whatever was cancelled, retired, parked, revived, lost in a crash or    *)
(* written out of order, the history a session resumes with is one the     *)
(* provider accepts.                                                       *)
(***************************************************************************)
THEOREM ResumedHistoriesAreValid == Spec => []ResidentHistoryIsValid
<1>1. StoreInv => ResidentHistoryIsValid
  BY DEF StoreInv, StoreType, ResidentHistoryIsValid, Resident, Valid
<1>2. QED BY <1>1, StoreInvariant, PTL

-----------------------------------------------------------------------------
(***************************************************************************)
(* No turn is forgotten.  A turn inserts the history it took when it       *)
(* started, so what the session learned since would be lost: the invariant *)
(* says that no such thing exists.  Whatever a session must know is in the *)
(* snapshot of the task that may still write, because another turn of the  *)
(* session would have to run beside it.                                    *)
(***************************************************************************)

\* The task may still put its history in place of the session's.
Writes(g) == turn[g].pc \in {"run", "persist", "open", "insert"}

Ended(g) ==
  /\ turn[g].pc \in {"finish", "signal", "gone"}
  /\ work[g].delta # <<>> /\ ~turn[g].aborted

\* What a session must not forget of a turn: its prompt, and its reply.
Known(g) ==
  IF turn[g].pc = "none" THEN {}
  ELSE {PromptLine(turn[g].prompt)} \cup (IF Ended(g) THEN {Last(work[g].delta)} ELSE {})

Ordinary(s) == s \notin tombstones /\ s \notin Workers

MemKeeps ==
  \A g \in Gens : Ordinary(turn[g].session) =>
    \A m \in Known(g) : Resident(turn[g].session) /\ m \in ToSet(mem[turn[g].session])

SnapKeeps ==
  \A g, h \in Gens :
    Writes(g) /\ turn[h].session = turn[g].session /\ Ordinary(turn[g].session) =>
      \A m \in Known(h) : m \in ToSet(work[g].snap)

KeepInv == MemKeeps /\ SnapKeeps

\* The lines of a history.
LEMMA LinesAppend ==
  ASSUME NEW S, NEW q \in Seq(S), NEW m \in S
  PROVE  /\ Append(q, m) \in Seq(S) /\ ToSet(q) \subseteq S
         /\ ToSet(Append(q, m)) = ToSet(q) \cup {m}
<1>1. PICK n \in Nat : n = Len(q) /\ DOMAIN q = 1..n OBVIOUS
<1>2. PICK c \in Seq(S) : /\ c = Append(q, m) /\ Len(c) = n + 1 /\ c[n + 1] = m
                          /\ \A i \in 1..n : c[i] = q[i]
  <2>1. /\ Append(q, m) \in Seq(S) /\ Len(Append(q, m)) = n + 1 /\ Append(q, m)[n + 1] = m
        /\ \A i \in 1..n : Append(q, m)[i] = q[i]
    BY <1>1, AppendProperties
  <2>2. QED BY <2>1
<1>3. DOMAIN c = 1..(n + 1) BY <1>2
<1>4. \A i \in 1..(n + 1) : i \in 1..n \/ i = n + 1 OBVIOUS
<1>5. n + 1 \in 1..(n + 1) /\ \A i \in 1..n : i \in 1..(n + 1) OBVIOUS
<1>6. \A x : x \in ToSet(c) <=> x \in ToSet(q) \/ x = m BY <1>1, <1>2, <1>3, <1>4, <1>5 DEF ToSet
<1>7. QED BY <1>2, <1>6 DEF ToSet

LEMMA LinesConcat ==
  ASSUME NEW S, NEW a \in Seq(S), NEW b \in Seq(S)
  PROVE  ToSet(a \o b) = ToSet(a) \cup ToSet(b)
<1>1. PICK n \in Nat : n = Len(a) /\ DOMAIN a = 1..n OBVIOUS
<1>2. PICK k \in Nat : k = Len(b) /\ DOMAIN b = 1..k OBVIOUS
<1>3. /\ a \o b \in Seq(S) /\ Len(a \o b) = Len(a) + Len(b)
      /\ \A i \in 1..(Len(a) + Len(b)) : (a \o b)[i] = IF i <= Len(a) THEN a[i] ELSE b[i - Len(a)]
  BY ConcatProperties
<1>4. PICK c \in Seq(S) : /\ c = a \o b /\ DOMAIN c = 1..(n + k)
                          /\ \A i \in 1..(n + k) : c[i] = IF i <= n THEN a[i] ELSE b[i - n]
  <2>1. Len(a \o b) = n + k BY <1>1, <1>2, <1>3
  <2>2. DOMAIN (a \o b) = 1..(n + k) BY <1>3, <2>1
  <2>3. \A i \in 1..(n + k) : (a \o b)[i] = IF i <= n THEN a[i] ELSE b[i - n] BY <1>1, <1>2, <1>3
  <2>4. QED BY <1>3, <2>2, <2>3
<1>5. \A i \in 1..(n + k) : (i <= n => i \in 1..n) /\ (~(i <= n) => i - n \in 1..k) OBVIOUS
<1>6. \A i \in 1..n : i \in 1..(n + k) /\ i <= n OBVIOUS
<1>7. \A i \in 1..k : n + i \in 1..(n + k) /\ ~(n + i <= n) /\ (n + i) - n = i OBVIOUS
<1>8. ASSUME NEW x \in ToSet(c) PROVE x \in ToSet(a) \/ x \in ToSet(b)
  BY <1>1, <1>2, <1>4, <1>5 DEF ToSet
<1>9. ASSUME NEW x \in ToSet(a) PROVE x \in ToSet(c)
  BY <1>1, <1>4, <1>6 DEF ToSet
<1>10. ASSUME NEW x \in ToSet(b) PROVE x \in ToSet(c)
  <2>1. PICK i \in 1..k : x = b[i] BY <1>2 DEF ToSet
  <2>2. c[n + i] = x BY <1>4, <1>7, <2>1
  <2>3. QED BY <1>4, <1>7, <2>1, <2>2 DEF ToSet
<1>11. QED BY <1>4, <1>8, <1>9, <1>10

\* A step in which nobody learns anything, no task starts, and the ordinary
\* sessions keep the lines they have.
LEMMA KeepFrame ==
  ASSUME KeepInv,
         tombstones \subseteq tombstones',
         \A g \in Gens : /\ turn'[g].session = turn[g].session /\ turn[g].session \in Sessions
                         /\ Writes(g)' => Writes(g) /\ work'[g].snap = work[g].snap
                         /\ Ordinary(turn[g].session) => Known(g)' \subseteq Known(g),
         \A s \in Sessions : Ordinary(s) /\ Resident(s) =>
           mem'[s] # NoHistory /\ ToSet(mem[s]) \subseteq ToSet(mem'[s])
  PROVE  KeepInv'
<1>1. ASSUME NEW g \in Gens, Ordinary(turn[g].session)', NEW m \in Known(g)'
      PROVE  Resident(turn[g].session)' /\ m \in ToSet(mem'[turn'[g].session])
  <2>1. Ordinary(turn[g].session) /\ m \in Known(g) BY <1>1 DEF Ordinary
  <2>2. Resident(turn[g].session) /\ m \in ToSet(mem[turn[g].session]) BY <2>1 DEF KeepInv, MemKeeps
  <2>3. QED BY <2>1, <2>2 DEF Resident
<1>2. MemKeeps' BY <1>1 DEF MemKeeps
<1>3. ASSUME NEW g \in Gens, NEW h \in Gens, Writes(g)', turn'[h].session = turn'[g].session,
             Ordinary(turn[g].session)', NEW m \in Known(h)'
      PROVE  m \in ToSet(work'[g].snap)
  <2>1. Writes(g) /\ work'[g].snap = work[g].snap /\ turn[h].session = turn[g].session
    BY <1>3
  <2>2. Ordinary(turn[g].session) /\ m \in Known(h) BY <1>3, <2>1 DEF Ordinary
  <2>3. m \in ToSet(work[g].snap) BY <2>1, <2>2 DEF KeepInv, SnapKeeps
  <2>4. QED BY <2>1, <2>3
<1>4. SnapKeeps' BY <1>3 DEF SnapKeeps
<1>5. QED BY <1>2, <1>4 DEF KeepInv

-----------------------------------------------------------------------------
(* ... through the steps of a turn task,                                    *)

LEMMA KeepInit == Init => KeepInv
<1> SUFFICES ASSUME Init PROVE KeepInv OBVIOUS
<1>1. \A g \in Gens : turn[g].pc = "none" BY NoTurnType DEF Init
<1>2. \A g \in Gens : Known(g) = {} /\ ~Writes(g) BY <1>1 DEF Known, Writes
<1>3. QED BY <1>2 DEF KeepInv, MemKeeps, SnapKeeps

\* A turn whose record and locals stay is known as before.
LEMMA KnownStays ==
  ASSUME NEW g \in Gens, turn'[g] = turn[g], work'[g] = work[g]
  PROVE  Known(g)' = Known(g) /\ (Writes(g)' <=> Writes(g))
  BY DEF Known, Ended, Writes

LEMMA TaskKeeps ==
  ASSUME GateInv, StoreInv, KeepInv, NEW g \in Gens, TurnTask(g)
  PROVE  KeepInv'
<1>0. /\ turn[g] \in Turns /\ \A h \in Gens : turn[h].session \in Sessions
      /\ work \in [Gens -> WorkRec] /\ work[g] \in WorkRec
      /\ mem \in [Sessions -> Valid \cup {NoHistory}]
      /\ work[g].snap \in Seq(Message) /\ work[g].delta \in Seq(Message)
  <2>1. /\ turn[g] \in Turns /\ \A h \in Gens : turn[h].session \in Sessions
        /\ work \in [Gens -> WorkRec] /\ work[g] \in WorkRec
        /\ mem \in [Sessions -> Valid \cup {NoHistory}]
    BY DEF GateInv, ControlTypeOK, Turns, StoreInv, StoreType
  <2>2. work[g].snap \in Valid /\ work[g].delta \in Added BY <2>1 DEF WorkRec
  <2>3. Valid \subseteq Seq(Message) /\ Added \subseteq Seq(Message) BY AddedFacts, LineFacts DEF Valid
  <2>4. QED BY <2>1, <2>2, <2>3
<1>1. TaskInv(g) BY DEF StoreInv
<1>2. OnlyMoves(g) /\ UNCHANGED tombstones /\ turn'[g].prompt = turn[g].prompt BY TaskEffects
<1>3. \A h \in Gens : turn'[h].session = turn[h].session BY <1>2 DEF OnlyMoves
<1>4. \A h \in Gens \ {g} : work'[h] = work[h]
  BY TaskEffects DEF OnlyWork
<1>5. \A h \in Gens \ {g} : Known(h)' = Known(h) /\ (Writes(h)' <=> Writes(h))
  <2> SUFFICES ASSUME NEW h \in Gens \ {g} PROVE Known(h)' = Known(h) /\ (Writes(h)' <=> Writes(h))
    OBVIOUS
  <2>1. turn'[h] = turn[h] /\ work'[h] = work[h] BY <1>2, <1>4 DEF OnlyMoves
  <2>2. QED BY <2>1, KnownStays
<1>6. ASSUME mem' = mem, Writes(g)' => Writes(g) /\ work'[g].snap = work[g].snap,
             Ordinary(turn[g].session) => Known(g)' \subseteq Known(g)
      PROVE  KeepInv'
  <2>1. ASSUME NEW h \in Gens
        PROVE  /\ turn'[h].session = turn[h].session /\ turn[h].session \in Sessions
               /\ Writes(h)' => Writes(h) /\ work'[h].snap = work[h].snap
               /\ Ordinary(turn[h].session) => Known(h)' \subseteq Known(h)
    <3>1. CASE h = g BY <1>0, <1>3, <1>6, <3>1
    <3>2. CASE h # g BY <1>0, <1>3, <1>4, <1>5, <3>2
    <3>3. QED BY <3>1, <3>2
  <2>2. \A s \in Sessions : Ordinary(s) /\ Resident(s) =>
           mem'[s] # NoHistory /\ ToSet(mem[s]) \subseteq ToSet(mem'[s])
    BY <1>6 DEF Resident
  <2>3. QED BY <1>2, <2>1, <2>2, KeepFrame
<1>7. CASE /\ Moves(g, "run", "persist") /\ UNCHANGED <<mem, pool>>
           /\ \E d \in TurnDeltas(turn[g].prompt) :
                OnlyWork(g, [snap |-> work[g].snap, delta |-> d, rest |-> d])
  <2>1. work'[g].snap = work[g].snap BY <1>7 DEF OnlyWork
  <2>2. Known(g)' = Known(g) BY <1>2, <1>7 DEF Known, Ended, Moves
  <2>3. QED BY <1>6, <1>7, <2>1, <2>2 DEF Writes, Moves
<1>8. CASE Moves(g, "run", "finish") /\ UNCHANGED <<mem, pool, work>>
  <2>1. work[g].delta = <<>> BY <1>1, <1>8 DEF TaskInv, Moves
  <2>2. Known(g)' = Known(g) BY <1>2, <1>8, <2>1 DEF Known, Ended, Moves
  <2>3. QED BY <1>6, <1>8, <2>2 DEF Writes, Moves
<1>9. CASE /\ Moves(g, "persist", "persist") \/ Moves(g, "open", "persist")
           /\ UNCHANGED mem
           /\ OnlyWork(g, [snap |-> work[g].snap, delta |-> work[g].delta,
                           rest |-> Tail(work[g].rest)])
  <2>1. work'[g].snap = work[g].snap BY <1>9 DEF OnlyWork
  <2>2. Known(g)' = Known(g) BY <1>2, <1>9 DEF Known, Ended, Moves
  <2>3. QED BY <1>6, <1>9, <2>1, <2>2 DEF Writes, Moves
<1>10. CASE (Moves(g, "persist", "open") \/ Moves(g, "persist", "insert")) /\ UNCHANGED <<mem, pool, work>>
  <2>1. Known(g)' = Known(g) BY <1>2, <1>10 DEF Known, Ended, Moves
  <2>2. QED BY <1>6, <1>10, <2>1 DEF Writes, Moves
<1>11. CASE Moves(g, "persist", "finish") /\ turn[g].session \in tombstones /\ UNCHANGED <<mem, pool, work>>
  BY <1>6, <1>11 DEF Writes, Moves, Ordinary
<1>12. CASE /\ Live(g) /\ turn'[g].pc = "signal" /\ (turn[g].pc = "finish" \/ turn[g].aborted)
            /\ UNCHANGED <<mem, pool>>
            /\ OnlyWork(g, [snap |-> <<>>, delta |-> work[g].delta, rest |-> <<>>])
  <2>1. work'[g].delta = work[g].delta BY <1>12 DEF OnlyWork
  <2>2. Known(g)' \subseteq Known(g)
    <3>1. turn[g].pc # "none" BY <1>12 DEF Live, LivePhases
    <3>2. Ended(g)' => Ended(g) BY <1>2, <1>12, <2>1 DEF Ended, OnlyMoves
    <3>3. QED BY <1>2, <1>12, <2>1, <3>1, <3>2 DEF Known
  <2>3. QED BY <1>6, <1>12, <2>2 DEF Writes
<1>13. CASE /\ Moves(g, "insert", "finish") /\ UNCHANGED <<pool, work>>
            /\ mem' = [mem EXCEPT ![turn[g].session] = work[g].snap \o work[g].delta]
  <2>1. Writes(g) /\ ~(Writes(g)') /\ Holds(g) /\ turn[g].pc # "none" /\ ~Ended(g)
    BY <1>13 DEF Moves, Writes, Holds, LivePhases, Ended
  <2>2. PICK t \in Sessions : t = turn[g].session BY <1>0
  <2>3. mem'[t] = work[g].snap \o work[g].delta /\ \A s \in Sessions \ {t} : mem'[s] = mem[s]
    BY <1>0, <1>13, <2>2
  <2>4. work[g].snap \o work[g].delta \in Seq(Message)
        /\ ToSet(work[g].snap \o work[g].delta) = ToSet(work[g].snap) \cup ToSet(work[g].delta)
    BY <1>0, LinesConcat
  <2>5. mem'[t] # NoHistory BY <2>3, <2>4, RouterAssumption
  <2>6. work[g].delta # <<>> => Last(work[g].delta) \in ToSet(work[g].delta)
    <3>1. PICK d \in Seq(Message) : d = work[g].delta BY <1>0
    <3>2. d # <<>> => Len(d) \in DOMAIN d OBVIOUS
    <3>3. QED BY <3>1, <3>2 DEF Last, ToSet
  <2>7. ASSUME NEW h \in Gens, Ordinary(turn[h].session)', NEW m \in Known(h)'
        PROVE  Resident(turn[h].session)' /\ m \in ToSet(mem'[turn'[h].session])
    <3>1. PICK s \in Sessions : s = turn[h].session /\ s = turn'[h].session BY <1>0, <1>3
    <3>2. Ordinary(turn[h].session) /\ Ordinary(s) BY <1>2, <2>7, <3>1 DEF Ordinary
    <3>3. CASE s # t
      <4>1. h # g BY <2>2, <3>1, <3>3
      <4>2. m \in Known(h) BY <1>5, <2>7, <4>1
      <4>3. Resident(turn[h].session) /\ m \in ToSet(mem[turn[h].session])
        BY <3>2, <4>2 DEF KeepInv, MemKeeps
      <4>4. QED BY <2>3, <3>1, <3>3, <4>3 DEF Resident
    <3>4. CASE s = t
      <4>1. m \in ToSet(work[g].snap) \/ m \in ToSet(work[g].delta)
        <5>1. CASE m \in Known(h) BY <2>1, <2>2, <3>1, <3>2, <3>4, <5>1 DEF KeepInv, SnapKeeps
        <5>2. CASE m \notin Known(h)
          <6>1. h = g BY <1>5, <2>7, <5>2
          <6>2. Known(g)' \subseteq Known(g) \cup {Last(work[g].delta)}
            BY <1>2, <1>13, <2>1 DEF Known
          <6>3. m = Last(work[g].delta) BY <2>7, <5>2, <6>1, <6>2
          <6>4. Ended(g)' BY <1>2, <2>1, <2>7, <5>2, <6>1 DEF Known
          <6>5. work[g].delta # <<>> BY <1>13, <6>4 DEF Ended
          <6>6. QED BY <2>6, <6>3, <6>5
        <5>3. QED BY <5>1, <5>2
      <4>2. m \in ToSet(mem'[t]) BY <2>3, <2>4, <4>1
      <4>3. QED BY <2>5, <3>1, <3>4, <4>2 DEF Resident
    <3>5. QED BY <3>3, <3>4
  <2>8. MemKeeps' BY <2>7 DEF MemKeeps
  <2>9. ASSUME NEW a \in Gens, NEW h \in Gens, Writes(a)', turn'[h].session = turn'[a].session,
               Ordinary(turn[a].session)', NEW m \in Known(h)'
        PROVE  m \in ToSet(work'[a].snap)
    <3>1. a # g /\ Writes(a) BY <1>5, <2>1, <2>9
    <3>2. turn[h].session = turn[a].session /\ Ordinary(turn[a].session)
      BY <1>2, <1>3, <2>9 DEF Ordinary
    <3>3. Holds(a) BY <3>1 DEF Writes, Holds, LivePhases
    <3>4. h # g BY <2>1, <3>1, <3>2, <3>3 DEF GateInv, OneTurnPerSession
    <3>5. m \in Known(h) BY <1>5, <2>9, <3>4
    <3>6. m \in ToSet(work[a].snap) BY <3>1, <3>2, <3>5 DEF KeepInv, SnapKeeps
    <3>7. QED BY <1>13, <3>6
  <2>10. SnapKeeps' BY <2>9 DEF SnapKeeps
  <2>11. QED BY <2>8, <2>10 DEF KeepInv
<1>14. QED BY <1>7, <1>8, <1>9, <1>10, <1>11, <1>12, <1>13, TaskEffects

(* ... and through the start of a turn,                                     *)

LEMMA SpawnKeeps ==
  ASSUME GateInv, GateInv', StoreInv, KeepInv, NEW STATE s, s \in Sessions,
         NEW STATE p, p \in Prompts,
         NEW STATE base, base \in Valid \cup {NoHistory}, Ordinary(s) => base = mem[s],
         NEW STATE turns, turns \in [Gens -> Turns],
         SpawnTurn(s, p, base, turns),
         \A g \in Gens : \/ turns[g] = turn[g]
                         \/ /\ turn[g].pc = "signal" /\ turns[g].pc = "gone"
                            /\ turns[g].session = turn[g].session
                            /\ turns[g].prompt = turn[g].prompt
                            /\ turns[g].aborted = turn[g].aborted,
         UNCHANGED tombstones
  PROVE  KeepInv'
<1>0. PICK h \in Valid : Spawned(s, p, base, turns, h) BY SpawnEffects
<1>1. PICK n \in Gens : n = nextGen BY <1>0 DEF Spawned
<1>2. PICK t \in Sessions : t = s OBVIOUS
<1>3. PICK k : k = p OBVIOUS
<1>4. PICK b \in Seq(Message) : b = Base(base)
  <2>1. Base(base) \in Seq(Message) BY DEF Base, Valid
  <2>2. QED BY <2>1
<1>5. /\ h = Append(b, PromptLine(k)) /\ PromptLine(k) \in SingleLines
      /\ mem' = [mem EXCEPT ![t] = h]
      /\ OnlyWork(n, [snap |-> h, delta |-> <<>>, rest |-> <<>>])
      /\ turn' \in [Gens -> Turns] /\ turn'[n] = NewTurn(t, k)
      /\ \A g \in Gens \ {n} : turn'[g] = turns[g]
      /\ turn[n].pc = "none"
  BY <1>0, <1>1, <1>2, <1>3, <1>4 DEF Spawned
<1>6. /\ work'[n].snap = h /\ work'[n].delta = <<>> /\ \A g \in Gens \ {n} : work'[g] = work[g]
  BY <1>5 DEF OnlyWork
<1>7. /\ turn'[n].session = t /\ turn'[n].pc = "run" /\ turn'[n].prompt = k BY <1>5 DEF NewTurn
<1>8. Known(n)' = {PromptLine(k)} /\ Writes(n)' BY <1>6, <1>7 DEF Known, Ended, Writes
<1>9. ASSUME NEW g \in Gens \ {n}
      PROVE  /\ Known(g)' = Known(g) /\ (Writes(g)' => Writes(g))
             /\ turn'[g].session = turn[g].session
  <2>1. work'[g] = work[g] /\ turn'[g] = turns[g] BY <1>5, <1>6
  <2>2. CASE turns[g] = turn[g] BY <2>1, <2>2, KnownStays
  <2>3. CASE turns[g] # turn[g]
    <3>1. /\ turn[g].pc = "signal" /\ turn'[g].pc = "gone" /\ turn'[g].session = turn[g].session
          /\ turn'[g].prompt = turn[g].prompt /\ turn'[g].aborted = turn[g].aborted
      BY <2>1, <2>3
    <3>2. Ended(g)' <=> Ended(g) BY <2>1, <3>1 DEF Ended
    <3>3. Known(g)' = Known(g) BY <2>1, <3>1, <3>2 DEF Known
    <3>4. QED BY <3>1, <3>3 DEF Writes
  <2>4. QED BY <2>2, <2>3
<1>10. mem \in [Sessions -> Valid \cup {NoHistory}] BY DEF StoreInv, StoreType
<1>11. mem'[t] = h /\ h # NoHistory /\ \A u \in Sessions \ {t} : mem'[u] = mem[u]
  <2>1. h # NoHistory BY RouterAssumption DEF Valid
  <2>2. QED BY <1>5, <1>10, <2>1
<1>12. ToSet(h) = ToSet(b) \cup {PromptLine(k)} BY <1>4, <1>5, LineFacts, LinesAppend
<1>13. \A g \in Gens : turn[g].session \in Sessions BY DEF GateInv, ControlTypeOK
<1>14. ASSUME NEW g \in Gens, turn'[g].session = t, Ordinary(t), NEW m \in Known(g)'
       PROVE  m \in ToSet(h)
  <2>1. CASE g = n BY <1>8, <1>12, <1>14, <2>1
  <2>2. CASE g # n
    <3>1. m \in Known(g) /\ turn[g].session = t BY <1>9, <1>14, <2>2
    <3>2. Resident(t) /\ m \in ToSet(mem[t]) BY <1>14, <3>1 DEF KeepInv, MemKeeps
    <3>3. b = mem[t] BY <1>2, <1>4, <1>14, <3>2 DEF Base, Resident
    <3>4. QED BY <1>12, <3>2, <3>3
  <2>3. QED BY <2>1, <2>2
<1>15. ASSUME NEW g \in Gens, Ordinary(turn[g].session)', NEW m \in Known(g)'
       PROVE  Resident(turn[g].session)' /\ m \in ToSet(mem'[turn'[g].session])
  <2>1. PICK u : u = turn'[g].session OBVIOUS
  <2>2. Ordinary(u) BY <1>15, <2>1 DEF Ordinary
  <2>3. CASE u = t BY <1>11, <1>14, <1>15, <2>1, <2>2, <2>3 DEF Resident
  <2>4. CASE u # t
    <3>1. g # n BY <1>7, <2>1, <2>4
    <3>2. m \in Known(g) /\ turn[g].session = u BY <1>9, <1>15, <2>1, <3>1
    <3>3. Resident(u) /\ m \in ToSet(mem[u]) /\ u \in Sessions
      BY <1>13, <2>2, <3>2 DEF KeepInv, MemKeeps
    <3>4. QED BY <1>11, <2>1, <2>4, <3>3 DEF Resident
  <2>5. QED BY <2>3, <2>4
<1>16. MemKeeps' BY <1>15 DEF MemKeeps
<1>17. ASSUME NEW a \in Gens, NEW g \in Gens, Writes(a)', turn'[g].session = turn'[a].session,
              Ordinary(turn[a].session)', NEW m \in Known(g)'
       PROVE  m \in ToSet(work'[a].snap)
  <2>1. PICK u : u = turn'[a].session OBVIOUS
  <2>2. Ordinary(u) BY <1>17, <2>1 DEF Ordinary
  <2>3. CASE a = n BY <1>6, <1>7, <1>14, <1>17, <2>1, <2>2, <2>3
  <2>4. CASE a # n
    <3>1. u # t
      <4>1. Holds(a)' /\ Holds(n)' BY <1>7, <1>17 DEF Holds, Writes, LivePhases
      <4>2. turn'[a].session = turn'[n].session => a = n BY <4>1 DEF GateInv, OneTurnPerSession
      <4>3. QED BY <1>7, <2>1, <2>4, <4>2
    <3>2. g # n BY <1>7, <1>17, <2>1, <3>1
    <3>3. Writes(a) /\ m \in Known(g) /\ turn[g].session = u /\ turn[a].session = u
      BY <1>9, <1>17, <2>1, <2>4, <3>2
    <3>4. m \in ToSet(work[a].snap) BY <2>2, <3>3 DEF KeepInv, SnapKeeps
    <3>5. QED BY <1>6, <2>4, <3>4
  <2>5. QED BY <2>3, <2>4
<1>18. SnapKeeps' BY <1>17 DEF SnapKeeps
<1>19. QED BY <1>16, <1>18 DEF KeepInv

-----------------------------------------------------------------------------
(* ... and through every other step.                                        *)

LEMMA PromptKeeps ==
  ASSUME GateInv, GateInv', StoreInv, KeepInv, NEW s \in Sessions, UserPrompt(s)
  PROVE  KeepInv'
<1>1. /\ nextPrompt \in Prompts /\ PromptBase(s) \in Valid \cup {NoHistory} /\ UNCHANGED tombstones
  BY PromptEffects
<1>2. Ordinary(s) => PromptBase(s) = mem[s] BY DEF Ordinary, PromptBase, NeedsRevival
<1>3. turn \in [Gens -> Turns] /\ \A g \in Gens : turn[g].session \in Sessions
  BY DEF GateInv, ControlTypeOK, Turns
<1>4. mem \in [Sessions -> Valid \cup {NoHistory}] BY DEF StoreInv, StoreType
<1>5. CASE (mem' = mem \/ mem' = [mem EXCEPT ![s] = PromptBase(s)]) /\ UNCHANGED <<turn, work>>
  <2>1. \A t \in Sessions : Ordinary(t) => mem'[t] = mem[t] BY <1>2, <1>4, <1>5
  <2>2. \A g \in Gens : Known(g)' = Known(g) /\ (Writes(g)' <=> Writes(g)) BY <1>5, KnownStays
  <2>3. \A t \in Sessions : Ordinary(t) /\ Resident(t) =>
          mem'[t] # NoHistory /\ ToSet(mem[t]) \subseteq ToSet(mem'[t])
    BY <2>1 DEF Resident
  <2>4. QED BY <1>1, <1>3, <1>5, <2>2, <2>3, KeepFrame
<1>6. CASE SpawnTurn(s, nextPrompt, PromptBase(s), turn)
  BY <1>1, <1>2, <1>3, <1>6, SpawnKeeps
<1>7. QED BY <1>5, <1>6, PromptEffects

LEMMA DoneKeeps ==
  ASSUME GateInv, GateInv', StoreInv, KeepInv, NEW g \in Gens, TurnDone(g)
  PROVE  KeepInv'
<1>1. /\ turn[g].session \in Sessions /\ mem[turn[g].session] \in Valid \cup {NoHistory}
      /\ UNCHANGED tombstones /\ Gone(g) \in [Gens -> Turns]
  BY DoneEffects
<1>2. \A h \in Gens : turn[h].session \in Sessions BY DEF GateInv, ControlTypeOK
<1>3. \A h \in Gens : \/ Gone(g)[h] = turn[h]
                      \/ /\ turn[h].pc = "signal" /\ Gone(g)[h].pc = "gone"
                         /\ Gone(g)[h].session = turn[h].session
                         /\ Gone(g)[h].prompt = turn[h].prompt
                         /\ Gone(g)[h].aborted = turn[h].aborted
  <2>1. /\ turn[g].pc = "signal" /\ Gone(g)[g].pc = "gone"
        /\ Gone(g)[g].session = turn[g].session /\ Gone(g)[g].prompt = turn[g].prompt
        /\ Gone(g)[g].aborted = turn[g].aborted
        /\ \A h \in Gens \ {g} : Gone(g)[h] = turn[h]
    BY DoneEffects
  <2>2. QED BY <2>1
<1>4. CASE turn' = Gone(g) /\ UNCHANGED <<mem, disk, pool, work>>
  <2>1. ASSUME NEW h \in Gens
        PROVE  /\ turn'[h].session = turn[h].session /\ Known(h)' = Known(h)
               /\ Writes(h)' => Writes(h)
    <3>1. CASE turn'[h] = turn[h] BY <1>4, <3>1, KnownStays
    <3>2. CASE turn'[h] # turn[h]
      <4>1. /\ turn[h].pc = "signal" /\ turn'[h].pc = "gone" /\ turn'[h].session = turn[h].session
            /\ turn'[h].prompt = turn[h].prompt /\ turn'[h].aborted = turn[h].aborted
        BY <1>3, <1>4, <3>2
      <4>2. Ended(h)' <=> Ended(h) BY <1>4, <4>1 DEF Ended
      <4>3. Known(h)' = Known(h) BY <1>4, <4>1, <4>2 DEF Known
      <4>4. QED BY <4>1, <4>3 DEF Writes
    <3>3. QED BY <3>1, <3>2
  <2>2. \A t \in Sessions : Ordinary(t) /\ Resident(t) =>
          mem'[t] # NoHistory /\ ToSet(mem[t]) \subseteq ToSet(mem'[t])
    BY <1>4 DEF Resident
  <2>3. QED BY <1>1, <1>2, <1>4, <2>1, <2>2, KeepFrame
<1>5. CASE /\ Head(queued[turn[g].session]) \in Prompts
           /\ SpawnTurn(turn[g].session, Head(queued[turn[g].session]), mem[turn[g].session], Gone(g))
  BY <1>1, <1>3, <1>5, SpawnKeeps
<1>6. QED BY <1>4, <1>5, DoneEffects

LEMMA StopKeeps ==
  ASSUME GateInv, StoreInv, KeepInv, NEW s \in Sessions,
         UserCancel(s) \/ Retire(s, "delete") \/ Retire(s, "archive")
  PROVE  KeepInv'
<1>1. Abort(s) /\ mem' = mem /\ tombstones \subseteq tombstones'
  BY DEF UserCancel, Retire, storeVars
<1>2. work' = work BY <1>1, AbortEffects
<1>3. ASSUME NEW g \in Gens
      PROVE  /\ turn'[g].session = turn[g].session /\ turn[g].session \in Sessions
             /\ Known(g)' \subseteq Known(g) /\ (Writes(g)' => Writes(g))
  <2>1. /\ turn'[g].pc = turn[g].pc /\ turn'[g].session = turn[g].session
        /\ turn'[g].prompt = turn[g].prompt /\ (turn[g].aborted => turn'[g].aborted)
    BY <1>1, AbortEffects
  <2>2. Ended(g)' => Ended(g) BY <1>2, <2>1 DEF Ended
  <2>3. Known(g)' \subseteq Known(g) BY <1>2, <2>1, <2>2 DEF Known
  <2>4. turn[g].session \in Sessions BY DEF GateInv, ControlTypeOK
  <2>5. QED BY <2>1, <2>3, <2>4 DEF Writes
<1>4. \A t \in Sessions : Ordinary(t) /\ Resident(t) =>
        mem'[t] # NoHistory /\ ToSet(mem[t]) \subseteq ToSet(mem'[t])
  BY <1>1 DEF Resident
<1>5. QED BY <1>1, <1>2, <1>3, <1>4, KeepFrame

\* The turns stay as they are: only the histories of sessions that are not
\* ordinary shrink.
LEMMA QuietKeeps ==
  ASSUME GateInv, KeepInv, UNCHANGED <<turn, work, tombstones>>,
         \A t \in Sessions : Ordinary(t) /\ Resident(t) =>
           mem'[t] # NoHistory /\ ToSet(mem[t]) \subseteq ToSet(mem'[t])
  PROVE  KeepInv'
<1>1. \A g \in Gens : Known(g)' = Known(g) /\ (Writes(g)' <=> Writes(g)) BY KnownStays
<1>2. \A g \in Gens : turn[g].session \in Sessions BY DEF GateInv, ControlTypeOK
<1>3. QED BY <1>1, <1>2, KeepFrame

LEMMA HandlerKeeps ==
  ASSUME GateInv, StoreInv, KeepInv, CancelMark \/ CancelPersist \/ ApplyRetire
  PROVE  KeepInv'
<1>1. mem \in [Sessions -> Valid \cup {NoHistory}] /\ rpc.session \in Sessions
  BY DEF StoreInv, StoreType, RpcRec
<1>2. UNCHANGED <<turn, work, tombstones>> BY DEF CancelMark, CancelPersist, ApplyRetire, taskVars
<1>3. CASE mem' = mem BY <1>2, <1>3, QuietKeeps DEF Resident
<1>4. CASE /\ mem[rpc.session] \in Valid
           /\ mem' = [mem EXCEPT ![rpc.session] = Append(mem[rpc.session], CancelMarker)]
  <2>1. PICK s \in Sessions : s = rpc.session BY <1>1
  <2>2. PICK q \in Seq(Message) : q = mem[s] BY <1>4, <2>1 DEF Valid
  <2>3. CancelMarker \in Message BY LineFacts
  <2>4. Append(q, CancelMarker) \in Seq(Message) /\ ToSet(q) \subseteq ToSet(Append(q, CancelMarker))
    BY <2>3, LinesAppend
  <2>5. mem'[s] = Append(q, CancelMarker) /\ \A t \in Sessions \ {s} : mem'[t] = mem[t]
    BY <1>1, <1>4, <2>1, <2>2
  <2>6. ASSUME NEW t \in Sessions, Resident(t)
        PROVE  mem'[t] # NoHistory /\ ToSet(mem[t]) \subseteq ToSet(mem'[t])
    BY <2>2, <2>4, <2>5, <2>6, RouterAssumption DEF Resident
  <2>7. QED BY <1>2, <2>6, QuietKeeps
<1>5. CASE ApplyRetire
  <2>1. rpc.session \in tombstones BY <1>5 DEF ApplyRetire, StoreInv, RetireIsTombstoned
  <2>2. mem' = mem \/ mem' = [mem EXCEPT ![rpc.session] = NoHistory] BY <1>5 DEF ApplyRetire
  <2>3. \A t \in Sessions : Ordinary(t) => mem'[t] = mem[t] BY <1>1, <2>1, <2>2 DEF Ordinary
  <2>4. QED BY <1>2, <2>3, QuietKeeps DEF Resident
<1>6. CASE CancelPersist BY <1>3, <1>6 DEF CancelPersist
<1>7. CASE CancelMark BY <1>3, <1>4, <1>7, CancelMarkEffects
<1>8. QED BY <1>5, <1>6, <1>7

LEMMA OutsideKeeps ==
  ASSUME GateInv, StoreInv, KeepInv, NEW s \in Sessions,
         Park(s) \/ EvictParked(s) \/ WriteLands(s)
  PROVE  KeepInv'
<1>1. UNCHANGED <<turn, work, tombstones>> BY DEF Park, EvictParked, WriteLands, taskVars, storeVars
<1>2. mem \in [Sessions -> Valid \cup {NoHistory}] /\ parking \subseteq Workers
  BY DEF StoreInv, StoreType
<1>3. mem' = mem \/ (s \in Workers /\ mem' = [mem EXCEPT ![s] = NoHistory])
  BY <1>2 DEF Park, EvictParked, WriteLands, storeVars
<1>4. \A t \in Sessions : Ordinary(t) => mem'[t] = mem[t] BY <1>2, <1>3 DEF Ordinary
<1>5. QED BY <1>1, <1>4, QuietKeeps DEF Resident

LEMMA OpenKeeps ==
  ASSUME GateInv, StoreInv, KeepInv, NEW g \in Gens, OpenLands(g)
  PROVE  KeepInv'
<1>1. /\ OnlyMoves(g) /\ turn'[g].pc = turn[g].pc /\ turn'[g].prompt = turn[g].prompt
      /\ UNCHANGED <<tombstones, mem, work>>
  BY OpenEffects
<1>2. ASSUME NEW h \in Gens
      PROVE  /\ turn'[h].session = turn[h].session /\ turn[h].session \in Sessions
             /\ Known(h)' = Known(h) /\ (Writes(h)' <=> Writes(h))
  <2>1. /\ turn'[h].pc = turn[h].pc /\ turn'[h].prompt = turn[h].prompt
        /\ turn'[h].session = turn[h].session /\ turn'[h].aborted = turn[h].aborted
    BY <1>1 DEF OnlyMoves
  <2>2. Known(h)' = Known(h) BY <1>1, <2>1 DEF Known, Ended
  <2>3. turn[h].session \in Sessions BY DEF GateInv, ControlTypeOK
  <2>4. QED BY <2>1, <2>2, <2>3 DEF Writes
<1>3. \A t \in Sessions : Ordinary(t) /\ Resident(t) =>
        mem'[t] # NoHistory /\ ToSet(mem[t]) \subseteq ToSet(mem'[t])
  BY <1>1 DEF Resident
<1>4. QED BY <1>1, <1>2, <1>3, KeepFrame

LEMMA RestartKeeps ==
  ASSUME Restart
  PROVE  KeepInv'
<1>1. turn' = [g \in Gens |-> NoTurn] BY DEF Restart
<1>2. \A g \in Gens : turn'[g].pc = "none" BY <1>1, NoTurnType
<1>3. \A g \in Gens : Known(g)' = {} /\ ~(Writes(g)') BY <1>2 DEF Known, Writes
<1>4. MemKeeps' BY <1>3 DEF MemKeeps
<1>5. SnapKeeps' BY <1>3 DEF SnapKeeps
<1>6. QED BY <1>4, <1>5 DEF KeepInv

LEMMA KeepInductive ==
  ASSUME GateInv, StoreInv, KeepInv, [Next]_vars
  PROVE  KeepInv'
<1>0. GateInv' BY GateInductive
<1>1. CASE UNCHANGED vars
  <2>1. UNCHANGED <<turn, work, tombstones, mem>> BY <1>1 DEF vars
  <2>2. QED BY <2>1, QuietKeeps DEF Resident
<1>2. ASSUME NEW s \in Sessions,
             \/ UserPrompt(s) \/ UserCancel(s)
             \/ Retire(s, "delete") \/ Retire(s, "archive")
             \/ Park(s) \/ EvictParked(s) \/ WriteLands(s)
      PROVE  KeepInv'
  BY <1>0, <1>2, PromptKeeps, StopKeeps, OutsideKeeps
<1>3. ASSUME NEW g \in Gens, TurnDone(g) \/ TurnTask(g) \/ OpenLands(g)
      PROVE  KeepInv'
  BY <1>0, <1>3, DoneKeeps, TaskKeeps, OpenKeeps
<1>4. CASE CancelMark \/ CancelPersist \/ ApplyRetire \/ Restart
  BY <1>4, HandlerKeeps, RestartKeeps
<1>5. QED BY <1>1, <1>2, <1>3, <1>4 DEF Next

(***************************************************************************)
(* In every reachable state an ordinary session's history holds what its   *)
(* turns made known, and so does the snapshot of the task that may still   *)
(* put another history in its place.                                       *)
(***************************************************************************)
THEOREM KeepInvariant == Spec => []KeepInv
<1>1. Init => KeepInv BY KeepInit
<1>2. GateInv /\ StoreInv /\ KeepInv /\ [Next]_vars => KeepInv' BY KeepInductive
<1>3. QED BY <1>1, <1>2, GateInvariant, StoreInvariant, PTL DEF Spec

(***************************************************************************)
(* No turn's history write clobbers another's, however turns were queued,  *)
(* cancelled and aborted: every prompt that was started, and every reply   *)
(* of a turn that ended, is in its session's history.                      *)
(***************************************************************************)
THEOREM NothingIsForgotten == Spec => []NoTurnIsForgotten
<1>1. GateInv /\ StoreInv /\ KeepInv => NoTurnIsForgotten
  <2> SUFFICES ASSUME GateInv, StoreInv, KeepInv, NEW g \in Gens,
                      turn[g].pc # "none", turn[g].session \notin tombstones \cup Workers
               PROVE  /\ Resident(turn[g].session)
                      /\ Contains(mem[turn[g].session], PromptLine(turn[g].prompt))
                      /\ turn[g].pc = "gone" /\ work[g].delta # <<>> /\ ~turn[g].aborted
                           => Contains(mem[turn[g].session], Last(work[g].delta))
    BY DEF NoTurnIsForgotten
  <2>1. PICK s \in Sessions : s = turn[g].session BY DEF GateInv, ControlTypeOK
  <2>2. Ordinary(s) BY <2>1 DEF Ordinary
  <2>3. \A m \in Known(g) : Resident(s) /\ m \in ToSet(mem[s]) BY <2>1, <2>2 DEF KeepInv, MemKeeps
  <2>4. PromptLine(turn[g].prompt) \in Known(g) BY DEF Known
  <2>5. turn[g].pc = "gone" /\ work[g].delta # <<>> /\ ~turn[g].aborted
          => Last(work[g].delta) \in Known(g)
    BY DEF Known, Ended
  <2>6. PICK q \in Seq(Message) : q = mem[s]
    <3>1. mem[s] \in Valid BY <2>3, <2>4 DEF StoreInv, StoreType, Resident
    <3>2. QED BY <3>1 DEF Valid
  <2>7. \A m \in ToSet(q) : Contains(q, m) BY DEF ToSet, Contains
  <2>8. QED BY <2>1, <2>3, <2>4, <2>5, <2>6, <2>7
<1>2. QED BY <1>1, GateInvariant, StoreInvariant, KeepInvariant, PTL

-----------------------------------------------------------------------------
(***************************************************************************)
(* What a session remembers, a restart remembers.  The line of a resident  *)
(* history may come from the snapshot and the delta a task holds, so the   *)
(* invariant follows these too: a delta line is durable, or the task has   *)
(* still to write it.  A write that lands finds the file there: a file is  *)
(* created before a line is handed over and removed only behind a          *)
(* tombstone.                                                              *)
(***************************************************************************)

Durable(s, m) ==
  \/ OnDisk(s) /\ m \in ToSet(disk[s])
  \/ m \in ToSet(pool[s])
  \/ Marked(m)
  \/ rpc = [at |-> "persist_marker", session |-> s] /\ m = CancelMarker

MemDurable ==
  \A s \in Sessions : s \notin tombstones /\ Resident(s) => \A m \in ToSet(mem[s]) : Durable(s, m)

WorkDurable(g) ==
  Writes(g) /\ turn[g].session \notin tombstones =>
    /\ \A m \in ToSet(work[g].snap) : Durable(turn[g].session, m)
    /\ \A m \in ToSet(work[g].delta) : Durable(turn[g].session, m) \/ m \in ToSet(work[g].rest)

FileThere ==
  /\ \A s \in Sessions : s \notin tombstones /\ pool[s] # <<>> => OnDisk(s)
  /\ \A g \in Gens : turn[g].session \notin tombstones /\ turn[g].io = "opened" => OnDisk(turn[g].session)

DurableInv == MemDurable /\ (\A g \in Gens : WorkDurable(g)) /\ FileThere

LEMMA LinesTail ==
  ASSUME NEW S, NEW q \in Seq(S), q # <<>>, NEW m \in ToSet(q)
  PROVE  m = Head(q) \/ m \in ToSet(Tail(q))
<1>1. PICK n \in Nat : n = Len(q) /\ DOMAIN q = 1..n OBVIOUS
<1>2. PICK i \in 1..n : m = q[i] BY <1>1 DEF ToSet
<1>3. CASE i = 1 BY <1>2, <1>3
<1>4. CASE i # 1
  <2>1. /\ Tail(q) \in Seq(S) /\ Len(Tail(q)) = n - 1
        /\ \A j \in 1..(n - 1) : Tail(q)[j] = q[j + 1]
    BY <1>1
  <2>2. PICK r \in Seq(S) : r = Tail(q) /\ DOMAIN r = 1..(n - 1) /\ \A j \in 1..(n - 1) : r[j] = q[j + 1]
    <3>1. DOMAIN Tail(q) = 1..(n - 1) BY <2>1
    <3>2. QED BY <2>1, <3>1
  <2>3. i - 1 \in 1..(n - 1) /\ (i - 1) + 1 = i BY <1>2, <1>4
  <2>4. r[i - 1] = m BY <1>2, <2>2, <2>3
  <2>5. QED BY <2>2, <2>3, <2>4 DEF ToSet
<1>5. QED BY <1>3, <1>4

LEMMA NoLines == ToSet(<<>>) = {}
  BY DEF ToSet

\* A step that makes nothing of a session less durable.
Safe(s) == s \notin tombstones' =>
  /\ s \notin tombstones
  /\ \A m : Durable(s, m) => Durable(s, m)'

\* The histories stay, or are dropped.
LEMMA MemStays ==
  ASSUME DurableInv, \A s \in Sessions : Safe(s) /\ (mem'[s] = mem[s] \/ mem'[s] = NoHistory)
  PROVE  MemDurable'
<1>1. ASSUME NEW s \in Sessions, s \notin tombstones', mem'[s] # NoHistory, NEW m \in ToSet(mem'[s])
      PROVE  Durable(s, m)'
  <2>1. mem'[s] = mem[s] /\ s \notin tombstones BY <1>1 DEF Safe
  <2>2. Durable(s, m) BY <1>1, <2>1 DEF DurableInv, MemDurable, Resident
  <2>3. QED BY <1>1, <2>2 DEF Safe
<1>2. QED BY <1>1 DEF MemDurable, Resident

\* The task stays where it is, or cannot write any more.
LEMMA WorkStays ==
  ASSUME DurableInv, NEW g \in Gens, NEW s \in Sessions, Safe(s),
         s = turn[g].session, s = turn'[g].session,
         Writes(g)' => Writes(g) /\ work'[g] = work[g]
  PROVE  WorkDurable(g)'
<1> SUFFICES ASSUME Writes(g)', s \notin tombstones'
             PROVE  /\ \A m \in ToSet(work'[g].snap) : Durable(s, m)'
                    /\ \A m \in ToSet(work'[g].delta) : Durable(s, m)' \/ m \in ToSet(work'[g].rest)
  BY DEF WorkDurable
<1>1. s \notin tombstones /\ \A m : Durable(s, m) => Durable(s, m)' BY DEF Safe
<1>2. /\ \A m \in ToSet(work[g].snap) : Durable(s, m)
      /\ \A m \in ToSet(work[g].delta) : Durable(s, m) \/ m \in ToSet(work[g].rest)
  BY <1>1 DEF DurableInv, WorkDurable
<1>3. QED BY <1>1, <1>2

\* Files stay, and no line is handed over without one.
LEMMA FilesStay ==
  ASSUME DurableInv, tombstones \subseteq tombstones',
         \A s \in Sessions : s \notin tombstones' =>
           /\ OnDisk(s) => OnDisk(s)'
           /\ pool'[s] # <<>> => pool[s] # <<>> \/ OnDisk(s)',
         \A g \in Gens : /\ turn'[g].session = turn[g].session /\ turn[g].session \in Sessions
                         /\ turn'[g].io = "opened" =>
                              turn[g].io = "opened" \/ turn[g].session \in tombstones' \/ OnDisk(turn[g].session)'
  PROVE  FileThere'
<1>1. \A s \in Sessions : s \notin tombstones' /\ pool'[s] # <<>> => OnDisk(s)'
  BY DEF DurableInv, FileThere
<1>2. ASSUME NEW g \in Gens, turn'[g].session \notin tombstones', turn'[g].io = "opened"
      PROVE  OnDisk(turn[g].session)'
  <2>1. PICK s \in Sessions : s = turn[g].session /\ s = turn'[g].session BY <1>2
  <2>2. turn[g].io = "opened" \/ OnDisk(s)' BY <1>2, <2>1
  <2>3. turn[g].io = "opened" => OnDisk(s) BY <1>2, <2>1 DEF DurableInv, FileThere
  <2>4. OnDisk(s)' BY <1>2, <2>1, <2>2, <2>3
  <2>5. QED BY <2>1, <2>4
<1>3. QED BY <1>1, <1>2 DEF FileThere

\* Files and pending lines of a session that only grow.
LEMMA GrowsSafe ==
  ASSUME StoreInv, NEW s \in Sessions, rpc' = rpc, tombstones \subseteq tombstones',
         disk'[s] = disk[s] \/ (disk[s] = NoFile /\ disk'[s] = <<>>),
         pool'[s] = pool[s] \/ \E m \in SingleLines : pool'[s] = Append(pool[s], m)
  PROVE  Safe(s)
<1>1. pool[s] \in Seq(SingleLines) BY DEF StoreInv, StoreType
<1>2. ToSet(pool[s]) \subseteq ToSet(pool'[s])
  <2>1. CASE pool'[s] = pool[s] BY <2>1
  <2>2. CASE pool'[s] # pool[s]
    <3>1. PICK m \in SingleLines : pool'[s] = Append(pool[s], m) BY <2>2
    <3>2. ToSet(Append(pool[s], m)) = ToSet(pool[s]) \cup {m} BY <1>1, LinesAppend
    <3>3. QED BY <3>1, <3>2
  <2>3. QED BY <2>1, <2>2
<1>3. ASSUME NEW m, Durable(s, m) PROVE Durable(s, m)'
  <2>1. CASE OnDisk(s) /\ m \in ToSet(disk[s])
    <3>1. disk'[s] = disk[s] BY <2>1 DEF OnDisk
    <3>2. QED BY <2>1, <3>1 DEF Durable, OnDisk
  <2>2. CASE m \in ToSet(pool[s]) BY <1>2, <2>2 DEF Durable
  <2>3. CASE Marked(m) BY <2>3 DEF Durable
  <2>4. CASE rpc = [at |-> "persist_marker", session |-> s] /\ m = CancelMarker BY <2>4 DEF Durable
  <2>5. QED BY <1>3, <2>1, <2>2, <2>3, <2>4 DEF Durable
<1>4. QED BY <1>3 DEF Safe

LEMMA DurableInit == Init => DurableInv
<1> SUFFICES ASSUME Init PROVE DurableInv OBVIOUS
<1>1. \A g \in Gens : turn[g].pc = "none" /\ turn[g].io = "none" BY DEF Init, NoTurn
<1>2. MemDurable BY DEF Init, MemDurable, Resident
<1>3. \A g \in Gens : WorkDurable(g) BY <1>1 DEF WorkDurable, Writes
<1>4. FileThere BY <1>1 DEF Init, FileThere
<1>5. QED BY <1>2, <1>3, <1>4 DEF DurableInv

-----------------------------------------------------------------------------
(* ... through the steps of a turn task,                                    *)

LEMMA TaskDurable ==
  ASSUME GateInv, StoreInv, DurableInv, NEW g \in Gens, TurnTask(g)
  PROVE  DurableInv'
<1>0. /\ turn[g] \in Turns /\ \A h \in Gens : turn[h].session \in Sessions
      /\ work[g] \in WorkRec /\ work[g].rest \in Seq(SingleLines)
      /\ work[g].snap \in Seq(Message) /\ work[g].delta \in Seq(Message)
      /\ mem \in [Sessions -> Valid \cup {NoHistory}] /\ pool \in [Sessions -> Seq(SingleLines)]
  <2>1. /\ turn[g] \in Turns /\ \A h \in Gens : turn[h].session \in Sessions
        /\ work[g] \in WorkRec
        /\ mem \in [Sessions -> Valid \cup {NoHistory}] /\ pool \in [Sessions -> Seq(SingleLines)]
    BY DEF GateInv, ControlTypeOK, Turns, StoreInv, StoreType
  <2>2. work[g].snap \in Valid /\ work[g].delta \in Added /\ work[g].rest \in Seq(SingleLines)
    BY <2>1 DEF WorkRec
  <2>3. Valid \subseteq Seq(Message) /\ Added \subseteq Seq(Message) BY AddedFacts, LineFacts DEF Valid
  <2>4. QED BY <2>1, <2>2, <2>3
<1>1. PICK t \in Sessions : t = turn[g].session BY <1>0
<1>2. OnlyMoves(g) /\ UNCHANGED <<tombstones, disk, rpc>> BY TaskEffects
<1>3. \A h \in Gens : turn'[h].session = turn[h].session BY <1>2 DEF OnlyMoves
<1>4. \A h \in Gens \ {g} : work'[h] = work[h] /\ turn'[h] = turn[h]
  BY <1>2, TaskEffects DEF OnlyWork, OnlyMoves
<1>5. \/ pool' = pool
      \/ /\ turn[g].pc = "open" /\ turn[g].io = "opened" /\ work[g].rest # <<>>
         /\ pool' = [pool EXCEPT ![t] = Append(pool[t], Head(work[g].rest))]
  BY <1>0, <1>1, TaskEffects DEF Moves
<1>6. work[g].rest # <<>> => Head(work[g].rest) \in SingleLines BY <1>0
<1>7. ASSUME NEW s \in Sessions PROVE Safe(s)
  <2>1. pool'[s] = pool[s] \/ \E m \in SingleLines : pool'[s] = Append(pool[s], m)
    BY <1>0, <1>5, <1>6
  <2>2. QED BY <1>2, <2>1, GrowsSafe
<1>8. FileThere'
  <2>1. ASSUME NEW s \in Sessions, s \notin tombstones'
        PROVE  /\ OnDisk(s) => OnDisk(s)'
               /\ pool'[s] # <<>> => pool[s] # <<>> \/ OnDisk(s)'
    <3>1. OnDisk(s) <=> OnDisk(s)' BY <1>2 DEF OnDisk
    <3>2. CASE s # t \/ pool' = pool BY <1>0, <1>5, <3>1, <3>2
    <3>3. CASE s = t /\ pool' # pool
      <4>1. turn[g].io = "opened" /\ turn[g].session \notin tombstones BY <1>1, <1>2, <1>5, <2>1, <3>3
      <4>2. OnDisk(s) BY <1>1, <3>3, <4>1 DEF DurableInv, FileThere
      <4>3. QED BY <3>1, <4>2
    <3>4. QED BY <3>2, <3>3
  <2>2. ASSUME NEW h \in Gens, turn'[h].io = "opened" PROVE turn[h].io = "opened"
    <3>1. CASE h # g BY <1>4, <2>2, <3>1
    <3>2. turn'[g].io = turn[g].io \/ turn'[g].io = "submitted" \/ turn'[g].io = "none" BY TaskEffects
    <3>3. QED BY <2>2, <3>1, <3>2
  <2>3. QED BY <1>0, <1>2, <1>3, <2>1, <2>2, FilesStay
<1>9. ASSUME NEW h \in Gens \ {g} PROVE WorkDurable(h)'
  <2>1. PICK s \in Sessions : s = turn[h].session BY <1>0
  <2>2. turn'[h] = turn[h] /\ work'[h] = work[h] BY <1>4
  <2>3. Writes(h)' => Writes(h) BY <2>2 DEF Writes
  <2>4. Safe(s) BY <1>7
  <2>5. QED BY <2>1, <2>2, <2>3, <2>4, WorkStays
<1>10. ASSUME WorkDurable(g)', MemDurable' PROVE DurableInv'
  BY <1>8, <1>9, <1>10 DEF DurableInv
<1>11. mem' = mem => MemDurable' BY <1>7, MemStays
<1>12. ASSUME Writes(g)' => Writes(g) /\ work' = work PROVE WorkDurable(g)'
  <2>1. Safe(t) /\ t = turn'[g].session BY <1>1, <1>3, <1>7
  <2>2. QED BY <1>1, <1>12, <2>1, WorkStays
<1>13. ASSUME Writes(g), turn[g].session \notin tombstones
       PROVE  /\ \A m \in ToSet(work[g].snap) : Durable(t, m) /\ Durable(t, m)'
              /\ \A m \in ToSet(work[g].delta) :
                   (Durable(t, m) /\ Durable(t, m)') \/ m \in ToSet(work[g].rest)
  <2>1. /\ \A m \in ToSet(work[g].snap) : Durable(t, m)
        /\ \A m \in ToSet(work[g].delta) : Durable(t, m) \/ m \in ToSet(work[g].rest)
    BY <1>1, <1>13 DEF DurableInv, WorkDurable
  <2>2. \A m : Durable(t, m) => Durable(t, m)' BY <1>1, <1>2, <1>7, <1>13 DEF Safe
  <2>3. QED BY <2>1, <2>2
<1>14. CASE /\ Moves(g, "run", "persist") /\ UNCHANGED <<mem, pool>>
            /\ \E d \in TurnDeltas(turn[g].prompt) :
                 OnlyWork(g, [snap |-> work[g].snap, delta |-> d, rest |-> d])
  <2>1. PICK d : OnlyWork(g, [snap |-> work[g].snap, delta |-> d, rest |-> d]) BY <1>14
  <2>2. work'[g].snap = work[g].snap /\ work'[g].delta = d /\ work'[g].rest = d BY <2>1 DEF OnlyWork
  <2>3. Writes(g) BY <1>14 DEF Moves, Writes
  <2>4. t = turn'[g].session BY <1>1, <1>3
  <2>5. WorkDurable(g)' BY <1>1, <1>2, <1>13, <2>2, <2>3, <2>4 DEF WorkDurable
  <2>6. QED BY <1>10, <1>11, <1>14, <2>5
<1>15. CASE /\ Moves(g, "persist", "persist") /\ turn[g].session \in tombstones /\ UNCHANGED mem
  BY <1>2, <1>3, <1>10, <1>11, <1>15 DEF WorkDurable
<1>16. CASE /\ Moves(g, "persist", "open") \/ Moves(g, "persist", "insert")
            /\ UNCHANGED <<mem, work>>
  BY <1>10, <1>11, <1>12, <1>16 DEF Moves, Writes
<1>17. CASE (turn'[g].pc = "finish" \/ turn'[g].pc = "signal") /\ UNCHANGED mem
  BY <1>10, <1>11, <1>12, <1>17 DEF Writes
<1>18. CASE /\ Moves(g, "open", "persist") /\ UNCHANGED mem /\ work[g].rest # <<>>
            /\ pool' = [pool EXCEPT ![turn[g].session] = Append(@, Head(work[g].rest))]
            /\ OnlyWork(g, [snap |-> work[g].snap, delta |-> work[g].delta,
                            rest |-> Tail(work[g].rest)])
  <2>1. /\ work'[g].snap = work[g].snap /\ work'[g].delta = work[g].delta
        /\ work'[g].rest = Tail(work[g].rest)
    BY <1>18 DEF OnlyWork
  <2>2. Writes(g) BY <1>18 DEF Moves, Writes
  <2>3. t = turn'[g].session BY <1>1, <1>3
  <2>4. pool'[t] = Append(pool[t], Head(work[g].rest)) BY <1>0, <1>1, <1>18
  <2>5. Head(work[g].rest) \in ToSet(pool'[t])
    <3>1. pool[t] \in Seq(SingleLines) /\ Head(work[g].rest) \in SingleLines BY <1>0, <1>6, <1>18
    <3>2. QED BY <2>4, <3>1, LinesAppend
  <2>6. ASSUME NEW m \in ToSet(work[g].rest) PROVE m \in ToSet(pool'[t]) \/ m \in ToSet(Tail(work[g].rest))
    <3>1. m = Head(work[g].rest) \/ m \in ToSet(Tail(work[g].rest)) BY <1>0, <1>18, LinesTail
    <3>2. QED BY <2>5, <3>1
  <2>7. ASSUME NEW m \in ToSet(pool'[t]) PROVE Durable(t, m)' BY DEF Durable
  <2>8. WorkDurable(g)' BY <1>1, <1>2, <1>13, <2>1, <2>2, <2>3, <2>6, <2>7 DEF WorkDurable
  <2>9. QED BY <1>10, <1>11, <1>18, <2>8
<1>19. CASE /\ Moves(g, "insert", "finish") /\ UNCHANGED <<pool, work>>
            /\ mem' = [mem EXCEPT ![turn[g].session] = work[g].snap \o work[g].delta]
  <2>1. Writes(g) /\ work[g].rest = <<>>
    BY <1>19 DEF Moves, Writes, StoreInv, TaskInv
  <2>2. mem'[t] = work[g].snap \o work[g].delta /\ \A s \in Sessions \ {t} : mem'[s] = mem[s]
    BY <1>0, <1>1, <1>19
  <2>3. ToSet(mem'[t]) = ToSet(work[g].snap) \cup ToSet(work[g].delta)
    BY <1>0, <2>2, LinesConcat
  <2>4. ASSUME NEW s \in Sessions, s \notin tombstones', mem'[s] # NoHistory, NEW m \in ToSet(mem'[s])
        PROVE  Durable(s, m)'
    <3>1. CASE s = t BY <1>1, <1>2, <1>13, <2>1, <2>3, <2>4, <3>1, NoLines
    <3>2. CASE s # t
      <4>1. Durable(s, m) BY <1>2, <2>2, <2>4, <3>2 DEF DurableInv, MemDurable, Resident
      <4>2. QED BY <1>7, <2>4, <4>1 DEF Safe
    <3>3. QED BY <3>1, <3>2
  <2>5. MemDurable' BY <2>4 DEF MemDurable, Resident
  <2>6. WorkDurable(g)' BY <1>12, <1>19 DEF Writes, Moves
  <2>7. QED BY <1>10, <2>5, <2>6
<1>20. QED BY <1>14, <1>15, <1>16, <1>17, <1>18, <1>19, TaskEffects DEF Moves

(* ... and through the start of a turn,                                     *)

LEMMA SpawnDurable ==
  ASSUME GateInv, StoreInv, DurableInv, NEW STATE s, s \in Sessions, NEW STATE p, p \in Prompts,
         NEW STATE base, base \in Valid \cup {NoHistory},
         s \notin tombstones => \A m \in ToSet(Base(base)) : Durable(s, m),
         NEW STATE turns, turns \in [Gens -> Turns],
         SpawnTurn(s, p, base, turns),
         \A g \in Gens : /\ turns[g].pc = turn[g].pc \/ turns[g].pc = "gone"
                         /\ turns[g].session = turn[g].session /\ turns[g].io = turn[g].io,
         UNCHANGED <<tombstones, rpc>>
  PROVE  DurableInv'
<1>0. PICK h \in Valid : Spawned(s, p, base, turns, h) BY SpawnEffects
<1>1. PICK n \in Gens : n = nextGen BY <1>0 DEF Spawned
<1>2. PICK t \in Sessions : t = s OBVIOUS
<1>3. PICK line \in SingleLines : line = PromptLine(p) BY <1>0 DEF Spawned
<1>4. PICK b \in Seq(Message) : b = Base(base)
  <2>1. Base(base) \in Seq(Message) BY DEF Base, Valid
  <2>2. QED BY <2>1
<1>5. /\ h = Append(b, line)
      /\ mem' = [mem EXCEPT ![t] = h]
      /\ disk' = [disk EXCEPT ![t] = IF @ = NoFile THEN <<>> ELSE @]
      /\ pool' = [pool EXCEPT ![t] = Append(@, line)]
      /\ OnlyWork(n, [snap |-> h, delta |-> <<>>, rest |-> <<>>])
      /\ \A g \in Gens \ {n} : turn'[g] = turns[g]
  BY <1>0, <1>1, <1>2, <1>3, <1>4 DEF Spawned
<1>6. /\ work'[n].snap = h /\ work'[n].delta = <<>> /\ \A g \in Gens \ {n} : work'[g] = work[g]
  BY <1>5 DEF OnlyWork
<1>7. turn'[n].session = t /\ turn'[n].io = "none"
  <2>1. turn'[n] = NewTurn(s, p) BY <1>0, <1>1 DEF Spawned
  <2>2. QED BY <1>2, <2>1 DEF NewTurn
<1>8. /\ mem \in [Sessions -> Valid \cup {NoHistory}] /\ pool \in [Sessions -> Seq(SingleLines)]
      /\ disk \in [Sessions -> Seq(SingleLines) \cup {NoFile}]
      /\ \A g \in Gens : turn[g].session \in Sessions
  BY DEF StoreInv, StoreType, GateInv, ControlTypeOK
<1>9. /\ mem'[t] = h /\ \A u \in Sessions \ {t} : mem'[u] = mem[u] /\ disk'[u] = disk[u] /\ pool'[u] = pool[u]
      /\ pool'[t] = Append(pool[t], line)
      /\ disk'[t] = IF disk[t] = NoFile THEN <<>> ELSE disk[t]
  BY <1>5, <1>8
<1>10. ASSUME NEW u \in Sessions PROVE Safe(u)
  <2>1. /\ disk'[u] = disk[u] \/ (disk[u] = NoFile /\ disk'[u] = <<>>)
        /\ pool'[u] = pool[u] \/ \E m \in SingleLines : pool'[u] = Append(pool[u], m)
    BY <1>9
  <2>2. QED BY <2>1, GrowsSafe
<1>11. OnDisk(t)'
  <2>1. <<>> # NoFile
    <3>1. <<>> \in Seq(Message) OBVIOUS
    <3>2. QED BY <3>1, RouterAssumption
  <2>2. QED BY <1>9, <2>1 DEF OnDisk
<1>12. ASSUME t \notin tombstones, NEW m \in ToSet(h) PROVE Durable(t, m)'
  <2>1. ToSet(h) = ToSet(b) \cup {line} BY <1>4, <1>5, LineFacts, LinesAppend
  <2>2. CASE m \in ToSet(b)
    <3>1. Durable(t, m) BY <1>2, <1>4, <1>12, <2>2
    <3>2. QED BY <1>10, <1>12, <3>1 DEF Safe
  <2>3. CASE m = line
    <3>1. pool[t] \in Seq(SingleLines) BY <1>8
    <3>2. line \in ToSet(pool'[t]) BY <1>9, <3>1, LinesAppend
    <3>3. QED BY <2>3, <3>2 DEF Durable
  <2>4. QED BY <1>12, <2>1, <2>2, <2>3
<1>13. ASSUME NEW u \in Sessions, u \notin tombstones', mem'[u] # NoHistory, NEW m \in ToSet(mem'[u])
       PROVE  Durable(u, m)'
  <2>1. CASE u = t BY <1>9, <1>12, <1>13, <2>1
  <2>2. CASE u # t
    <3>1. Durable(u, m) BY <1>9, <1>13, <2>2 DEF DurableInv, MemDurable, Resident
    <3>2. QED BY <1>10, <1>13, <3>1 DEF Safe
  <2>3. QED BY <2>1, <2>2
<1>14. MemDurable' BY <1>13 DEF MemDurable, Resident
<1>15. ASSUME NEW g \in Gens PROVE WorkDurable(g)'
  <2>1. CASE g = n
    <3>1. /\ t \notin tombstones => \A m \in ToSet(work'[g].snap) : Durable(t, m)'
          /\ ToSet(work'[g].delta) = {}
      BY <1>6, <1>12, <2>1, NoLines
    <3>2. QED BY <1>7, <2>1, <3>1 DEF WorkDurable
  <2>2. CASE g # n
    <3>1. PICK u \in Sessions : u = turn[g].session BY <1>8
    <3>2. turn'[g] = turns[g] /\ work'[g] = work[g] BY <1>5, <1>6, <2>2
    <3>3. u = turn'[g].session /\ (Writes(g)' => Writes(g)) BY <3>1, <3>2 DEF Writes
    <3>4. Safe(u) BY <1>10
    <3>5. QED BY <3>1, <3>2, <3>3, <3>4, WorkStays
  <2>3. QED BY <2>1, <2>2
<1>16. FileThere'
  <2>1. ASSUME NEW u \in Sessions, u \notin tombstones', pool'[u] # <<>> PROVE OnDisk(u)'
    <3>1. CASE u = t BY <1>11, <3>1
    <3>2. CASE u # t
      <4>1. OnDisk(u) BY <1>9, <2>1, <3>2 DEF DurableInv, FileThere
      <4>2. QED BY <1>9, <3>2, <4>1 DEF OnDisk
    <3>3. QED BY <3>1, <3>2
  <2>2. ASSUME NEW g \in Gens, turn'[g].session \notin tombstones', turn'[g].io = "opened"
        PROVE  OnDisk(turn[g].session)'
    <3>1. g # n BY <1>7, <2>2
    <3>2. PICK u \in Sessions : u = turn[g].session /\ u = turn'[g].session /\ turn[g].io = "opened"
      BY <1>5, <1>8, <2>2, <3>1
    <3>3. OnDisk(u) BY <2>2, <3>2 DEF DurableInv, FileThere
    <3>4. OnDisk(u)' BY <1>9, <1>11, <3>3 DEF OnDisk
    <3>5. QED BY <3>2, <3>4
  <2>3. QED BY <2>1, <2>2 DEF FileThere
<1>17. QED BY <1>14, <1>15, <1>16 DEF DurableInv

-----------------------------------------------------------------------------
(* ... and through every other step.                                        *)

\* What a prompt finds is durable: a revived history is made of its file.
LEMMA BaseDurable ==
  ASSUME StoreInv, DurableInv, NEW s \in Sessions, s \notin tombstones
  PROVE  \A m \in ToSet(Base(PromptBase(s))) : Durable(s, m)
<1> SUFFICES ASSUME NEW m \in ToSet(Base(PromptBase(s))) PROVE Durable(s, m) OBVIOUS
<1>1. PromptBase(s) # NoHistory /\ m \in ToSet(PromptBase(s)) BY NoLines DEF Base
<1>2. CASE NeedsRevival(s)
  <2>1. PICK file \in Seq(SingleLines) \cup {NoFile} : file = disk[s] BY DEF StoreInv, StoreType
  <2>2. PromptBase(s) = Reloaded(file) BY <1>2, <2>1 DEF PromptBase
  <2>3. /\ file # NoFile
        /\ \A i \in DOMAIN Reloaded(file) :
             (\E j \in DOMAIN file : Reloaded(file)[i] = file[j]) \/ Marked(Reloaded(file)[i])
    BY <1>1, <2>2, ReloadedFacts
  <2>4. m \in ToSet(file) \/ Marked(m) BY <1>1, <2>2, <2>3 DEF ToSet
  <2>5. QED BY <2>1, <2>3, <2>4 DEF Durable, OnDisk
<1>3. CASE ~NeedsRevival(s)
  BY <1>1, <1>3 DEF PromptBase, DurableInv, MemDurable, Resident
<1>4. QED BY <1>2, <1>3

LEMMA PromptDurable ==
  ASSUME GateInv, StoreInv, DurableInv, NEW s \in Sessions, UserPrompt(s)
  PROVE  DurableInv'
<1>1. /\ nextPrompt \in Prompts /\ PromptBase(s) \in Valid \cup {NoHistory} /\ UNCHANGED <<tombstones, rpc>>
  BY PromptEffects
<1>2. turn \in [Gens -> Turns] /\ \A g \in Gens : turn[g].session \in Sessions
  BY DEF GateInv, ControlTypeOK, Turns
<1>3. mem \in [Sessions -> Valid \cup {NoHistory}] BY DEF StoreInv, StoreType
<1>4. CASE /\ mem' = mem \/ (s \notin tombstones /\ mem' = [mem EXCEPT ![s] = PromptBase(s)])
           /\ UNCHANGED <<disk, pool, turn, work>>
  <2>1. \A t \in Sessions : Safe(t) BY <1>1, <1>4, GrowsSafe
  <2>2. MemDurable'
    <3>1. CASE mem' = mem BY <2>1, <3>1, MemStays
    <3>2. CASE s \notin tombstones /\ mem' = [mem EXCEPT ![s] = PromptBase(s)]
      <4>1. mem'[s] = PromptBase(s) /\ \A t \in Sessions \ {s} : mem'[t] = mem[t] BY <1>3, <3>2
      <4>2. ASSUME NEW t \in Sessions, t \notin tombstones', mem'[t] # NoHistory, NEW m \in ToSet(mem'[t])
            PROVE  Durable(t, m)'
        <5>1. Durable(t, m)
          <6>1. CASE t = s
            <7>1. m \in ToSet(Base(PromptBase(s))) BY <4>1, <4>2, <6>1 DEF Base
            <7>2. QED BY <3>2, <6>1, <7>1, BaseDurable
          <6>2. CASE t # s BY <1>1, <4>1, <4>2, <6>2 DEF DurableInv, MemDurable, Resident
          <6>3. QED BY <6>1, <6>2
        <5>2. QED BY <2>1, <4>2, <5>1 DEF Safe
      <4>3. QED BY <4>2 DEF MemDurable, Resident
    <3>3. QED BY <1>4, <3>1, <3>2
  <2>3. ASSUME NEW g \in Gens PROVE WorkDurable(g)'
    <3>1. PICK t \in Sessions : t = turn[g].session /\ t = turn'[g].session /\ Safe(t) BY <1>2, <1>4, <2>1
    <3>2. Writes(g)' => Writes(g) BY <1>4 DEF Writes
    <3>3. QED BY <1>4, <3>1, <3>2, WorkStays
  <2>4. FileThere' BY <1>1, <1>2, <1>4, FilesStay DEF OnDisk
  <2>5. QED BY <2>2, <2>3, <2>4 DEF DurableInv
<1>5. CASE s \notin tombstones /\ SpawnTurn(s, nextPrompt, PromptBase(s), turn)
  BY <1>1, <1>2, <1>5, BaseDurable, SpawnDurable
<1>6. QED BY <1>4, <1>5, PromptEffects

\* The tasks stay, or are done or marked aborted; files and pending lines grow.
LEMMA QuietDurable ==
  ASSUME GateInv, DurableInv, FileThere', MemDurable', \A s \in Sessions : Safe(s), work' = work,
         \A g \in Gens : /\ turn'[g].session = turn[g].session
                         /\ turn'[g].pc = turn[g].pc \/ turn'[g].pc = "gone"
  PROVE  DurableInv'
<1>1. ASSUME NEW g \in Gens PROVE WorkDurable(g)'
  <2>1. PICK t \in Sessions : t = turn[g].session /\ t = turn'[g].session /\ Safe(t)
    BY DEF GateInv, ControlTypeOK
  <2>2. Writes(g)' => Writes(g) BY DEF Writes
  <2>3. QED BY <2>1, <2>2, WorkStays
<1>2. QED BY <1>1 DEF DurableInv

LEMMA DoneDurable ==
  ASSUME GateInv, StoreInv, DurableInv, NEW g \in Gens, TurnDone(g)
  PROVE  DurableInv'
<1>1. /\ turn[g].session \in Sessions /\ mem[turn[g].session] \in Valid \cup {NoHistory}
      /\ UNCHANGED <<tombstones, rpc>> /\ Gone(g) \in [Gens -> Turns]
  BY DoneEffects
<1>2. \A h \in Gens : /\ Gone(g)[h].pc = turn[h].pc \/ Gone(g)[h].pc = "gone"
                      /\ Gone(g)[h].session = turn[h].session /\ Gone(g)[h].io = turn[h].io
  <2>1. /\ Gone(g)[g].pc = "gone" /\ Gone(g)[g].session = turn[g].session
        /\ Gone(g)[g].io = turn[g].io
        /\ \A h \in Gens \ {g} : Gone(g)[h] = turn[h]
    BY DoneEffects
  <2>2. QED BY <2>1
<1>3. CASE turn' = Gone(g) /\ UNCHANGED <<mem, disk, pool, work>>
  <2>1. \A s \in Sessions : Safe(s) BY <1>1, <1>3, GrowsSafe
  <2>2. MemDurable' BY <1>3, <2>1, MemStays
  <2>3. \A h \in Gens : turn[h].session \in Sessions BY DEF GateInv, ControlTypeOK
  <2>4. FileThere' BY <1>1, <1>2, <1>3, <2>3, FilesStay DEF OnDisk
  <2>5. QED BY <1>2, <1>3, <2>1, <2>2, <2>4, QuietDurable
<1>4. CASE /\ Head(queued[turn[g].session]) \in Prompts
           /\ SpawnTurn(turn[g].session, Head(queued[turn[g].session]), mem[turn[g].session], Gone(g))
  <2>1. turn[g].session \notin tombstones =>
          \A m \in ToSet(Base(mem[turn[g].session])) : Durable(turn[g].session, m)
    BY <1>1, NoLines DEF Base, DurableInv, MemDurable, Resident
  <2>2. QED BY <1>1, <1>2, <1>4, <2>1, SpawnDurable
<1>5. QED BY <1>3, <1>4, DoneEffects

LEMMA StopDurable ==
  ASSUME GateInv, StoreInv, DurableInv, NEW s \in Sessions,
         UserCancel(s) \/ Retire(s, "delete") \/ Retire(s, "archive")
  PROVE  DurableInv'
<1>1. Abort(s) /\ UNCHANGED <<mem, disk, pool>> /\ tombstones \subseteq tombstones' /\ rpc = Idle
  BY DEF UserCancel, Retire, storeVars
<1>2. work' = work BY <1>1, AbortEffects
<1>3. \A g \in Gens : /\ turn'[g].session = turn[g].session /\ turn'[g].pc = turn[g].pc
                      /\ turn'[g].io = turn[g].io /\ turn[g].session \in Sessions
  BY <1>1, AbortEffects DEF GateInv, ControlTypeOK
<1>4. ASSUME NEW t \in Sessions PROVE Safe(t)
  <2>1. rpc # [at |-> "persist_marker", session |-> t] BY <1>1, IdleType
  <2>2. \A m : Durable(t, m) => Durable(t, m)' BY <1>1, <2>1 DEF Durable, OnDisk
  <2>3. QED BY <1>1, <2>2 DEF Safe
<1>5. MemDurable' BY <1>1, <1>4, MemStays
<1>6. FileThere' BY <1>1, <1>3, FilesStay DEF OnDisk
<1>7. QED BY <1>2, <1>3, <1>4, <1>5, <1>6, QuietDurable

LEMMA CancelMarkDurable ==
  ASSUME GateInv, StoreInv, DurableInv, CancelMark
  PROVE  DurableInv'
<1>1. rpc.session \in Sessions /\ UNCHANGED <<tombstones, disk, pool, turn, work>> BY CancelMarkEffects
<1>2. rpc.at = "mark" BY DEF CancelMark
<1>3. ASSUME NEW t \in Sessions PROVE Safe(t)
  <2>1. rpc # [at |-> "persist_marker", session |-> t] BY <1>2
  <2>2. \A m : Durable(t, m) => Durable(t, m)' BY <1>1, <2>1 DEF Durable, OnDisk
  <2>3. QED BY <1>1, <2>2 DEF Safe
<1>4. FileThere'
  <2>1. \A g \in Gens : turn[g].session \in Sessions BY DEF GateInv, ControlTypeOK
  <2>2. QED BY <1>1, <2>1, FilesStay DEF OnDisk
<1>5. MemDurable'
  <2>1. CASE mem' = mem BY <1>3, <2>1, MemStays
  <2>2. CASE /\ rpc' = [at |-> "persist_marker", session |-> rpc.session]
             /\ mem[rpc.session] \in Valid
             /\ mem' = [mem EXCEPT ![rpc.session] = Append(mem[rpc.session], CancelMarker)]
    <3>1. PICK s \in Sessions : s = rpc.session BY <1>1
    <3>2. PICK q \in Seq(Message) : q = mem[s] BY <2>2, <3>1 DEF Valid
    <3>3. ToSet(Append(q, CancelMarker)) = ToSet(q) \cup {CancelMarker} BY LineFacts, LinesAppend
    <3>4. mem'[s] = Append(q, CancelMarker) /\ \A t \in Sessions \ {s} : mem'[t] = mem[t]
      BY <2>2, <3>1, <3>2 DEF StoreInv, StoreType
    <3>5. q # NoHistory BY <3>2, RouterAssumption
    <3>6. ASSUME NEW t \in Sessions, t \notin tombstones', mem'[t] # NoHistory, NEW m \in ToSet(mem'[t])
          PROVE  Durable(t, m)'
      <4>1. CASE t = s /\ m = CancelMarker
        <5>1. rpc' = [at |-> "persist_marker", session |-> t] BY <2>2, <3>1, <4>1
        <5>2. QED BY <4>1, <5>1 DEF Durable
      <4>2. CASE ~(t = s /\ m = CancelMarker)
        <5>1. mem[t] # NoHistory /\ m \in ToSet(mem[t])
          <6>1. CASE t = s
            <7>1. mem'[t] = Append(q, CancelMarker) /\ mem[t] = q BY <3>2, <3>4, <6>1
            <7>2. m \in ToSet(Append(q, CancelMarker)) BY <3>6, <7>1
            <7>3. m \in ToSet(q) BY <3>3, <4>2, <6>1, <7>2
            <7>4. QED BY <3>5, <7>1, <7>3
          <6>2. CASE t # s
            <7>1. mem'[t] = mem[t] BY <3>4, <6>2
            <7>2. QED BY <3>6, <7>1
          <6>3. QED BY <6>1, <6>2
        <5>2. Durable(t, m) BY <1>1, <3>6, <5>1 DEF DurableInv, MemDurable, Resident
        <5>3. QED BY <1>3, <3>6, <5>2 DEF Safe
      <4>3. QED BY <4>1, <4>2
    <3>7. QED BY <3>6 DEF MemDurable, Resident
  <2>3. QED BY <2>1, <2>2, CancelMarkEffects
<1>6. QED BY <1>1, <1>3, <1>4, <1>5, QuietDurable

LEMMA CancelPersistDurable ==
  ASSUME GateInv, StoreInv, DurableInv, CancelPersist
  PROVE  DurableInv'
<1>1. PICK s \in Sessions : s = rpc.session BY DEF StoreInv, StoreType, RpcRec
<1>2. /\ disk' = [disk EXCEPT ![s] = IF @ = NoFile THEN <<>> ELSE @]
      /\ pool' = [pool EXCEPT ![s] = Append(@, CancelMarker)]
      /\ UNCHANGED <<tombstones, mem, turn, work>>
  BY <1>1 DEF CancelPersist, StoreAppend, taskVars
<1>3. /\ pool'[s] = Append(pool[s], CancelMarker) /\ disk'[s] = IF disk[s] = NoFile THEN <<>> ELSE disk[s]
      /\ \A t \in Sessions \ {s} : pool'[t] = pool[t] /\ disk'[t] = disk[t]
      /\ pool[s] \in Seq(SingleLines)
  BY <1>2 DEF StoreInv, StoreType
<1>4. ToSet(pool'[s]) = ToSet(pool[s]) \cup {CancelMarker} BY <1>3, LineFacts, LinesAppend
<1>5. OnDisk(s)'
  <2>1. <<>> # NoFile
    <3>1. <<>> \in Seq(Message) OBVIOUS
    <3>2. QED BY <3>1, RouterAssumption
  <2>2. QED BY <1>3, <2>1 DEF OnDisk
<1>6. ASSUME NEW t \in Sessions, NEW m, Durable(t, m) PROVE Durable(t, m)'
  <2>1. CASE OnDisk(t) /\ m \in ToSet(disk[t])
    <3>1. disk'[t] = disk[t] BY <1>3, <2>1 DEF OnDisk
    <3>2. QED BY <2>1, <3>1 DEF Durable, OnDisk
  <2>2. CASE m \in ToSet(pool[t]) BY <1>3, <1>4, <2>2 DEF Durable
  <2>3. CASE Marked(m) BY <2>3 DEF Durable
  <2>4. CASE rpc = [at |-> "persist_marker", session |-> t] /\ m = CancelMarker
    <3>1. t = s BY <1>1, <2>4
    <3>2. QED BY <1>4, <2>4, <3>1 DEF Durable
  <2>5. QED BY <1>6, <2>1, <2>2, <2>3, <2>4 DEF Durable
<1>7. \A t \in Sessions : Safe(t) BY <1>2, <1>6 DEF Safe
<1>8. MemDurable' BY <1>2, <1>7, MemStays
<1>9. FileThere'
  <2>1. \A t \in Sessions : (OnDisk(t) => OnDisk(t)') /\ (pool'[t] # <<>> => pool[t] # <<>> \/ OnDisk(t)')
    BY <1>3, <1>5 DEF OnDisk
  <2>2. \A g \in Gens : turn[g].session \in Sessions BY DEF GateInv, ControlTypeOK
  <2>3. QED BY <1>2, <2>1, <2>2, FilesStay
<1>10. QED BY <1>2, <1>7, <1>8, <1>9, QuietDurable

LEMMA ApplyRetireDurable ==
  ASSUME GateInv, StoreInv, DurableInv, ApplyRetire
  PROVE  DurableInv'
<1>1. PICK s \in Sessions : s = rpc.session BY DEF StoreInv, StoreType, RpcRec
<1>2. s \in tombstones /\ rpc.at # "persist_marker" BY <1>1 DEF ApplyRetire, StoreInv, RetireIsTombstoned
<1>3. /\ mem' = mem \/ mem' = [mem EXCEPT ![s] = NoHistory]
      /\ disk' = [disk EXCEPT ![s] = NoFile] /\ pool' = [pool EXCEPT ![s] = <<>>]
      /\ UNCHANGED <<tombstones, turn, work>>
  BY <1>1 DEF ApplyRetire, taskVars
<1>4. \A t \in Sessions : /\ mem'[t] = mem[t] \/ mem'[t] = NoHistory
                          /\ t # s => disk'[t] = disk[t] /\ pool'[t] = pool[t]
  BY <1>3 DEF StoreInv, StoreType
<1>5. ASSUME NEW t \in Sessions PROVE Safe(t)
  <2>1. CASE t = s BY <1>2, <1>3, <2>1 DEF Safe
  <2>2. CASE t # s
    <3>1. rpc # [at |-> "persist_marker", session |-> t] BY <1>2
    <3>2. disk'[t] = disk[t] /\ pool'[t] = pool[t] BY <1>4, <2>2
    <3>3. \A m : Durable(t, m) => Durable(t, m)' BY <3>1, <3>2 DEF Durable, OnDisk
    <3>4. QED BY <1>3, <3>3 DEF Safe
  <2>3. QED BY <2>1, <2>2
<1>6. MemDurable' BY <1>4, <1>5, MemStays
<1>7. FileThere'
  <2>1. \A t \in Sessions : t \notin tombstones' =>
          (OnDisk(t) => OnDisk(t)') /\ (pool'[t] # <<>> => pool[t] # <<>> \/ OnDisk(t)')
    BY <1>2, <1>3, <1>4 DEF OnDisk
  <2>2. \A g \in Gens : turn[g].session \in Sessions BY DEF GateInv, ControlTypeOK
  <2>3. QED BY <1>3, <2>1, <2>2, FilesStay
<1>8. QED BY <1>3, <1>5, <1>6, <1>7, QuietDurable

LEMMA WriteDurable ==
  ASSUME GateInv, StoreInv, DurableInv, NEW s \in Sessions, WriteLands(s)
  PROVE  DurableInv'
<1>1. UNCHANGED <<tombstones, mem, turn, work, rpc>> BY WriteEffects
<1>2. PICK i \in DOMAIN pool[s] :
        /\ pool[s] \in Seq(SingleLines) /\ RemoveAt(pool[s], i) \in Seq(SingleLines)
        /\ pool[s][i] \in SingleLines
        /\ pool' = [pool EXCEPT ![s] = RemoveAt(pool[s], i)]
        /\ disk' = [disk EXCEPT ![s] = IF @ = NoFile THEN @ ELSE Append(@, pool[s][i])]
        /\ \A j \in DOMAIN pool[s] : j # i =>
             \E k \in DOMAIN RemoveAt(pool[s], i) : RemoveAt(pool[s], i)[k] = pool[s][j]
  BY WriteEffects
<1>3. PICK line \in SingleLines : line = pool[s][i] BY <1>2
<1>4. disk[s] \in Seq(SingleLines) \cup {NoFile} BY DEF StoreInv, StoreType
<1>5. /\ pool'[s] = RemoveAt(pool[s], i)
      /\ disk'[s] = IF disk[s] = NoFile THEN NoFile ELSE Append(disk[s], line)
      /\ \A t \in Sessions \ {s} : pool'[t] = pool[t] /\ disk'[t] = disk[t]
  BY <1>2, <1>3 DEF StoreInv, StoreType
<1>6. ASSUME NEW m \in ToSet(pool[s]) PROVE m = line \/ m \in ToSet(pool'[s])
  <2>1. PICK j \in DOMAIN pool[s] : m = pool[s][j] BY DEF ToSet
  <2>2. CASE j = i BY <1>3, <2>1, <2>2
  <2>3. CASE j # i
    <3>1. PICK k \in DOMAIN RemoveAt(pool[s], i) : RemoveAt(pool[s], i)[k] = m BY <1>2, <2>1, <2>3
    <3>2. QED BY <1>5, <3>1 DEF ToSet
  <2>4. QED BY <2>2, <2>3
<1>7. ASSUME OnDisk(s)
      PROVE  OnDisk(s)' /\ ToSet(disk'[s]) = ToSet(disk[s]) \cup {line}
  <2>1. disk[s] \in Seq(SingleLines) /\ disk'[s] = Append(disk[s], line) BY <1>4, <1>5, <1>7 DEF OnDisk
  <2>2. Append(disk[s], line) \in Seq(SingleLines) /\ ToSet(Append(disk[s], line)) = ToSet(disk[s]) \cup {line}
    BY <2>1, LinesAppend
  <2>3. disk'[s] # NoFile BY <2>1, <2>2, LineFacts, RouterAssumption
  <2>4. QED BY <2>1, <2>2, <2>3 DEF OnDisk
<1>8. ASSUME s \notin tombstones PROVE OnDisk(s)
  <2>1. pool[s] # <<>> BY <1>2
  <2>2. QED BY <1>8, <2>1 DEF DurableInv, FileThere
<1>9. ASSUME NEW t \in Sessions PROVE Safe(t)
  <2>1. CASE t # s
    <3>1. pool'[t] = pool[t] /\ disk'[t] = disk[t] BY <1>5, <2>1
    <3>2. QED BY <1>1, <3>1, GrowsSafe
  <2>2. CASE t = s
    <3> SUFFICES ASSUME s \notin tombstones, NEW m, Durable(s, m) PROVE Durable(s, m)'
      BY <1>1, <2>2 DEF Safe
    <3>1. OnDisk(s) /\ OnDisk(s)' /\ ToSet(disk'[s]) = ToSet(disk[s]) \cup {line} BY <1>7, <1>8
    <3>2. CASE m \in ToSet(disk[s]) BY <3>1, <3>2 DEF Durable
    <3>3. CASE m \in ToSet(pool[s]) BY <1>6, <3>1, <3>3 DEF Durable
    <3>4. CASE Marked(m) BY <3>4 DEF Durable
    <3>5. CASE rpc = [at |-> "persist_marker", session |-> s] /\ m = CancelMarker
      BY <1>1, <3>5 DEF Durable
    <3>6. QED BY <3>2, <3>3, <3>4, <3>5 DEF Durable
  <2>3. QED BY <2>1, <2>2
<1>10. MemDurable' BY <1>1, <1>9, MemStays
<1>11. FileThere'
  <2>1. \A t \in Sessions : t \notin tombstones' =>
          (OnDisk(t) => OnDisk(t)') /\ (pool'[t] # <<>> => pool[t] # <<>> \/ OnDisk(t)')
    <3> SUFFICES ASSUME NEW t \in Sessions, t \notin tombstones'
                 PROVE  (OnDisk(t) => OnDisk(t)') /\ (pool'[t] # <<>> => pool[t] # <<>> \/ OnDisk(t)')
      OBVIOUS
    <3>1. CASE t = s BY <1>1, <1>7, <1>8, <3>1
    <3>2. CASE t # s BY <1>5, <3>2 DEF OnDisk
    <3>3. QED BY <3>1, <3>2
  <2>2. \A g \in Gens : turn[g].session \in Sessions BY DEF GateInv, ControlTypeOK
  <2>3. QED BY <1>1, <2>1, <2>2, FilesStay
<1>12. QED BY <1>1, <1>9, <1>10, <1>11, QuietDurable

LEMMA OpenDurable ==
  ASSUME GateInv, StoreInv, DurableInv, NEW g \in Gens, OpenLands(g)
  PROVE  DurableInv'
<1>1. /\ OnlyMoves(g) /\ turn'[g].pc = turn[g].pc
      /\ disk' = [disk EXCEPT ![turn[g].session] = IF @ = NoFile THEN <<>> ELSE @]
      /\ UNCHANGED <<tombstones, mem, pool, work, rpc>>
  BY OpenEffects
<1>2. PICK s \in Sessions : s = turn[g].session BY OpenEffects
<1>3. /\ disk'[s] = IF disk[s] = NoFile THEN <<>> ELSE disk[s]
      /\ \A t \in Sessions \ {s} : disk'[t] = disk[t]
  BY <1>1, <1>2 DEF StoreInv, StoreType
<1>4. OnDisk(s)'
  <2>1. <<>> # NoFile
    <3>1. <<>> \in Seq(Message) OBVIOUS
    <3>2. QED BY <3>1, RouterAssumption
  <2>2. QED BY <1>3, <2>1 DEF OnDisk
<1>5. ASSUME NEW t \in Sessions PROVE Safe(t)
  <2>1. disk'[t] = disk[t] \/ (disk[t] = NoFile /\ disk'[t] = <<>>) BY <1>3
  <2>2. QED BY <1>1, <2>1, GrowsSafe
<1>6. MemDurable' BY <1>1, <1>5, MemStays
<1>7. ASSUME NEW h \in Gens
      PROVE  /\ turn'[h].session = turn[h].session /\ turn'[h].pc = turn[h].pc /\ turn[h].session \in Sessions
             /\ turn'[h].io = "opened" => turn[h].io = "opened" \/ OnDisk(turn[h].session)'
  <2>1. /\ turn'[h].session = turn[h].session /\ turn'[h].pc = turn[h].pc /\ turn[h].session \in Sessions
    BY <1>1 DEF OnlyMoves, GateInv, ControlTypeOK
  <2>2. CASE h # g BY <1>1, <2>1, <2>2 DEF OnlyMoves
  <2>3. CASE h = g
    <3>1. turn'[h].session = s BY <1>2, <2>1, <2>3
    <3>2. OnDisk(turn[h].session)' BY <1>4, <3>1
    <3>3. QED BY <2>1, <3>2
  <2>4. QED BY <2>2, <2>3
<1>8. FileThere'
  <2>1. \A t \in Sessions : (OnDisk(t) => OnDisk(t)') /\ (pool'[t] # <<>> => pool[t] # <<>> \/ OnDisk(t)')
    BY <1>1, <1>3, <1>4 DEF OnDisk
  <2>2. QED BY <1>1, <1>7, <2>1, FilesStay
<1>9. QED BY <1>1, <1>5, <1>6, <1>7, <1>8, QuietDurable

LEMMA ParkDurable ==
  ASSUME GateInv, StoreInv, DurableInv, NEW s \in Sessions, Park(s) \/ EvictParked(s)
  PROVE  DurableInv'
<1>1. /\ mem' = mem \/ mem' = [mem EXCEPT ![s] = NoHistory]
      /\ UNCHANGED <<tombstones, disk, pool, turn, work, rpc>>
  BY DEF Park, EvictParked, storeVars, taskVars
<1>2. \A t \in Sessions : Safe(t) BY <1>1, GrowsSafe
<1>3. \A t \in Sessions : mem'[t] = mem[t] \/ mem'[t] = NoHistory BY <1>1 DEF StoreInv, StoreType
<1>4. MemDurable' BY <1>2, <1>3, MemStays
<1>5. FileThere'
  <2>1. \A g \in Gens : turn[g].session \in Sessions BY DEF GateInv, ControlTypeOK
  <2>2. QED BY <1>1, <2>1, FilesStay DEF OnDisk
<1>6. QED BY <1>1, <1>2, <1>4, <1>5, QuietDurable

\* After a restart the histories are what the files give.
LEMMA RestartDurable ==
  ASSUME StoreInv, Restart
  PROVE  DurableInv'
<1>1. /\ mem' = [s \in Sessions |-> IF s \in Workers THEN NoHistory ELSE Reloaded(disk[s])]
      /\ pool' = [s \in Sessions |-> <<>>]
      /\ turn' = [g \in Gens |-> NoTurn] /\ disk' = disk
  BY DEF Restart
<1>2. \A g \in Gens : turn'[g].pc = "none" /\ turn'[g].io = "none" BY <1>1 DEF NoTurn
<1>3. ASSUME NEW s \in Sessions, mem'[s] # NoHistory, NEW m \in ToSet(mem'[s]) PROVE Durable(s, m)'
  <2>1. PICK file \in Seq(SingleLines) \cup {NoFile} : file = disk[s] BY DEF StoreInv, StoreType
  <2>2. mem'[s] = Reloaded(file) BY <1>1, <1>3, <2>1
  <2>3. /\ file # NoFile
        /\ \A i \in DOMAIN Reloaded(file) :
             (\E j \in DOMAIN file : Reloaded(file)[i] = file[j]) \/ Marked(Reloaded(file)[i])
    BY <1>3, <2>2, ReloadedFacts
  <2>4. m \in ToSet(file) \/ Marked(m) BY <1>3, <2>2, <2>3 DEF ToSet
  <2>5. QED BY <1>1, <2>1, <2>3, <2>4 DEF Durable, OnDisk
<1>4. MemDurable' BY <1>3 DEF MemDurable, Resident
<1>5. \A g \in Gens : WorkDurable(g)' BY <1>2 DEF WorkDurable, Writes
<1>6. FileThere' BY <1>1, <1>2 DEF FileThere
<1>7. QED BY <1>4, <1>5, <1>6 DEF DurableInv

LEMMA DurableInductive ==
  ASSUME GateInv, StoreInv, DurableInv, [Next]_vars
  PROVE  DurableInv'
<1>1. CASE UNCHANGED vars
  <2>1. UNCHANGED <<turn, work, tombstones, mem, disk, pool, rpc>> BY <1>1 DEF vars
  <2>2. \A t \in Sessions : Safe(t) BY <2>1, GrowsSafe
  <2>3. MemDurable' BY <2>1, <2>2, MemStays
  <2>4. \A g \in Gens : turn[g].session \in Sessions BY DEF GateInv, ControlTypeOK
  <2>5. FileThere' BY <2>1, <2>4, FilesStay DEF OnDisk
  <2>6. QED BY <2>1, <2>2, <2>3, <2>5, QuietDurable
<1>2. ASSUME NEW s \in Sessions,
             \/ UserPrompt(s) \/ UserCancel(s)
             \/ Retire(s, "delete") \/ Retire(s, "archive")
             \/ Park(s) \/ EvictParked(s) \/ WriteLands(s)
      PROVE  DurableInv'
  BY <1>2, PromptDurable, StopDurable, ParkDurable, WriteDurable
<1>3. ASSUME NEW g \in Gens, TurnDone(g) \/ TurnTask(g) \/ OpenLands(g)
      PROVE  DurableInv'
  BY <1>3, DoneDurable, TaskDurable, OpenDurable
<1>4. CASE CancelMark \/ CancelPersist \/ ApplyRetire \/ Restart
  BY <1>4, CancelMarkDurable, CancelPersistDurable, ApplyRetireDurable, RestartDurable
<1>5. QED BY <1>1, <1>2, <1>3, <1>4 DEF Next

(***************************************************************************)
(* In every reachable state what a session, or a task that may still write *)
(* its history, remembers is durable or about to be, and a file is there   *)
(* for every line handed over.                                             *)
(***************************************************************************)
THEOREM DurableInvariant == Spec => []DurableInv
<1>1. Init => DurableInv BY DurableInit
<1>2. GateInv /\ StoreInv /\ DurableInv /\ [Next]_vars => DurableInv' BY DurableInductive
<1>3. QED BY <1>1, <1>2, GateInvariant, StoreInvariant, PTL DEF Spec

(***************************************************************************)
(* What the session remembers, a restart remembers: every line of a        *)
(* resident history is in the session's file or on its way there, the      *)
(* markers of a reload and the cancel marker about to be written aside.    *)
(***************************************************************************)
THEOREM MemoryIsDurable == Spec => []RememberedIsDurable
<1>1. StoreInv /\ DurableInv => RememberedIsDurable
  <2> SUFFICES ASSUME StoreInv, DurableInv, NEW s \in Sessions \ tombstones, Resident(s),
                      NEW i \in DOMAIN mem[s]
               PROVE  \/ OnDisk(s) /\ Contains(disk[s], mem[s][i])
                      \/ Contains(pool[s], mem[s][i])
                      \/ \E k \in DOMAIN mem[s][i].content :
                           mem[s][i].content[k].kind \in {"lost_result", "opening_lost"}
                      \/ rpc = [at |-> "persist_marker", session |-> s] /\ mem[s][i] = CancelMarker
    BY DEF RememberedIsDurable
  <2>1. PICK m : m = mem[s][i] OBVIOUS
  <2>2. m \in ToSet(mem[s]) BY <2>1 DEF ToSet
  <2>3. Durable(s, m) BY <2>2 DEF DurableInv, MemDurable
  <2>4. \A q \in Seq(SingleLines) : m \in ToSet(q) => Contains(q, m) BY DEF ToSet, Contains
  <2>5. pool[s] \in Seq(SingleLines) /\ (OnDisk(s) => disk[s] \in Seq(SingleLines))
    BY DEF StoreInv, StoreType, OnDisk
  <2>6. QED BY <2>1, <2>3, <2>4, <2>5 DEF Durable, Marked
<1>2. QED BY <1>1, StoreInvariant, DurableInvariant, PTL
=============================================================================

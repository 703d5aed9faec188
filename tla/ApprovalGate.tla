---------------------------- MODULE ApprovalGate ----------------------------
(***************************************************************************)
(* A tool call from the turn that makes it to the result the model is      *)
(* told: the turn's round trip (agent/src/turn.rs), the supervisor's       *)
(* approval gate (plugins/src/supervisor.rs), the operators' clients       *)
(* (gateway/src/lib.rs), the router's cancels and sub-agents               *)
(* (agentd/src/main.rs), and the bus between them (core/src/bus.rs).       *)
(*                                                                         *)
(* The bus delivers commands to the router and the supervisor in order and *)
(* without loss, and broadcasts every event to the turns that listen, which *)
(* may lag and lose some.  Lanes and inboxes hold only the kinds of event  *)
(* their reader does not skip.  A call is named by its ActionId, and the   *)
(* nonce minted for it by the same number: 0 is a missing or wrong nonce.  *)
(*                                                                         *)
(* The node is in suggest mode.  Tools are known by what the policy says:  *)
(* "allow", "ask", "elevate" (goal_create{yolo:true}), "spawn"             *)
(* (agent_spawn on this node).                                             *)
(***************************************************************************)
EXTENDS Integers, Sequences, FiniteSets

CONSTANTS Roots,       \* sessions the router starts turns for
          Goals,       \* those of goals and workers, which may be armed with yolo
          Children,    \* sub-agent sessions (next_child_id)
          Used,        \* kinds of tool the model calls
          MaxDepth,    \* subagents.max_depth
          MaxCalls,    \* bound: tool calls ever made
          MaxTurns,    \* bound: root turns ever started
          MaxAnswers,  \* bound: approvals and declines clients ever send
          MaxCancels   \* bound: cancels clients ever send

Sessions == Roots \cup Children
Ids == 1..MaxCalls
Tools == {"allow", "ask", "elevate", "spawn"}

ASSUME GateAssumption ==
  /\ Used \subseteq Tools /\ Goals \subseteq Roots /\ Roots \cap Children = {}
  /\ IsFiniteSet(Sessions)
  /\ MaxDepth \in Nat /\ MaxCalls \in Nat /\ MaxTurns \in Nat
  /\ MaxAnswers \in Nat /\ MaxCancels \in Nat

VARIABLES
  pc,          \* session -> where its turn is
  calls,       \* calls made so far: their session and tool, by ActionId
  left,        \* session -> calls of the round still to be announced
  remaining,   \* session -> calls whose result it waits for
  phase,       \* call -> WaitPhase the waiting turn believes in
  told,        \* call -> what the model was told of it
  inbox,       \* session -> broadcast events its turn has not read
  aborted,     \* sessions whose turn was aborted and is not dropped yet
  lane,        \* the supervisor's command lane
  router,      \* the router's command lane
  pending,     \* pending_approvals
  job,         \* call -> the detached task that works on it
  armed,       \* goal_yolo: sessions that auto-approve
  trusted,     \* sessions whose goal or worker record has its yolo flag set
  origin,      \* child -> the agent_spawn call it works for, 0 before
  depth,       \* session_depths
  kids,        \* session_children
  ran,         \* history: how often a call was dispatched
  shown,       \* calls whose card the clients have seen, nonce included
  yes, no,     \* history: calls an operator's matching answer granted, declined
  stamped,     \* calls carrying the __yolo_granted stamp
  turns, answers, cancels   \* bounds

turnVars == <<pc, calls, left, remaining, phase, told, aborted>>
treeVars == <<origin, depth, kids>>
gateVars == <<pending, armed, trusted, ran, stamped>>
opVars == <<shown, yes, no, answers, cancels>>
vars == <<pc, calls, left, remaining, phase, told, inbox, aborted, lane, router, pending,
          job, armed, trusted, origin, depth, kids, ran, shown, yes, no, stamped, turns, answers, cancels>>

-----------------------------------------------------------------------------
(* Events.                                                                  *)

ToolRequested(s, a) == [kind |-> "tool_requested", session |-> s, call |-> a]
ToolResult(s, a, out) == [kind |-> "tool_result", session |-> s, call |-> a, out |-> out]
ApprovalPending(s, a) == [kind |-> "approval_pending", session |-> s, call |-> a]
UserApproval(s, a, granted, nonce) ==
  [kind |-> "user_approval", session |-> s, call |-> a, granted |-> granted, nonce |-> nonce]
Cancel(s) == [kind |-> "user_cancel", session |-> s]
TurnComplete(s) == [kind |-> "turn_complete", session |-> s]
SpawnAgent(s, a) == [kind |-> "spawn_agent", session |-> s, call |-> a]

\* bus.emit of an event about a call, as the turns that wait for it hear it:
\* a result, a card, a yes.
Heard(e) ==
  LET heeds(s) == /\ pc[s] \in {"announce", "collect"}
                  /\ e.call \in remaining[s]
                  /\ \/ e.kind = "tool_result" /\ e.session = s
                     \/ e.kind = "approval_pending"
                     \/ e.kind = "user_approval" /\ e.granted
  IN [s \in Sessions |-> IF heeds(s) THEN Append(inbox[s], e) ELSE inbox[s]]

\* ... and, if it is a command, the supervisor reads it.
Emit(e) == lane' = Append(lane, e) /\ inbox' = Heard(e)

Owner(a) == calls[a].session

-----------------------------------------------------------------------------
Init ==
  /\ pc = [s \in Sessions |-> "off"]
  /\ calls = <<>>
  /\ left = [s \in Sessions |-> <<>>]
  /\ remaining = [s \in Sessions |-> {}]
  /\ phase = [a \in Ids |-> "dispatched"]
  /\ told = [a \in Ids |-> "nothing"]
  /\ inbox = [s \in Sessions |-> <<>>]
  /\ aborted = {} /\ lane = <<>> /\ router = <<>> /\ pending = {}
  /\ job = [a \in Ids |-> "none"]
  /\ armed = {} /\ trusted = {}
  /\ origin = [c \in Children |-> 0]
  /\ depth = [s \in Sessions |-> 0]
  /\ kids = [s \in Sessions |-> {}]
  /\ ran = [a \in Ids |-> 0]
  /\ shown = {} /\ yes = {} /\ no = {} /\ stamped = {}
  /\ turns = 0 /\ answers = 0 /\ cancels = 0

-----------------------------------------------------------------------------
(* A turn: run_turn and collect_tool_results.                               *)

\* The router starts a root session's turn (module SessionRouter says when).
StartTurn(s) ==
  /\ s \in Roots /\ pc[s] = "off" /\ turns < MaxTurns
  /\ turns' = turns + 1
  /\ pc' = [pc EXCEPT ![s] = "think"]
  /\ UNCHANGED <<calls, left, remaining, phase, told, aborted, inbox, lane, router, job,
                 gateVars, treeVars, opVars>>

\* Mutants of NextActionIds: a counter per turn, and one that starts at 0.
PerTurnIds(batch) == [k \in DOMAIN batch |-> k]
IdsFromZero(batch) == [k \in DOMAIN batch |-> Len(calls) + k - 1]

\* next_action_id, for each call of a reply: ids are unique over all turns.
NextActionIds(batch) == [k \in DOMAIN batch |-> Len(calls) + k]

\* The provider's reply calls tools: each gets an ActionId, and the turn
\* subscribes to the broadcast before it announces them.
RequestTools(s, batch) ==
  LET fresh == NextActionIds(batch)
  IN /\ pc[s] = "think"
     /\ Len(calls) + Len(batch) <= MaxCalls
     /\ calls' = calls \o [k \in DOMAIN batch |-> [session |-> s, tool |-> batch[k]]]
     /\ left' = [left EXCEPT ![s] = fresh]
     /\ remaining' = [remaining EXCEPT ![s] = {fresh[k] : k \in DOMAIN batch}]
     /\ pc' = [pc EXCEPT ![s] = "announce"]
     /\ UNCHANGED <<phase, told, aborted, inbox, lane, router, job, turns, gateVars,
                    treeVars, opVars>>

\* Announce the next call; after the last one, wait for the results.
Announce(s) ==
  /\ pc[s] = "announce"
  /\ Emit(ToolRequested(s, Head(left[s])))
  /\ left' = [left EXCEPT ![s] = Tail(@)]
  /\ pc' = [pc EXCEPT ![s] = IF Len(left[s]) = 1 THEN "collect" ELSE "announce"]
  /\ UNCHANGED <<calls, remaining, phase, told, aborted, router, job, turns, gateVars,
                 treeVars, opVars>>

\* Read one broadcast event; with the last result the model gets the floor.
Receive(s) ==
  LET e == Head(inbox[s])
      result == e.kind = "tool_result"
      rest == IF result THEN remaining[s] \ {e.call} ELSE remaining[s]
  IN /\ pc[s] = "collect" /\ inbox[s] # <<>>
     /\ remaining' = [remaining EXCEPT ![s] = rest]
     /\ told' = IF result /\ e.call \in remaining[s] THEN [told EXCEPT ![e.call] = e.out]
                ELSE told
     /\ phase' = IF e.call \notin remaining[s] THEN phase
                 ELSE [phase EXCEPT ![e.call] = CASE e.kind = "approval_pending" -> "awaiting"
                                                  [] e.kind = "user_approval" -> "approved"
                                                  [] e.kind = "tool_result" -> "dispatched"]
     /\ inbox' = [inbox EXCEPT ![s] = IF rest = {} THEN <<>> ELSE Tail(@)]
     /\ pc' = [pc EXCEPT ![s] = IF rest = {} THEN "think" ELSE "collect"]
     /\ UNCHANGED <<calls, left, aborted, lane, router, job, turns, gateVars, treeVars,
                    opVars>>

\* The phases are locals of the wait: they start afresh.
Forget(ids) == [a \in Ids |-> IF a \in ids THEN "dispatched" ELSE phase[a]]

\* The wait ends with calls still missing.  Nothing is emitted.
StopWaiting(s) ==
  /\ pc[s] = "collect"
  /\ phase' = Forget(remaining[s])
  /\ remaining' = [remaining EXCEPT ![s] = {}]
  /\ inbox' = [inbox EXCEPT ![s] = <<>>]
  /\ pc' = [pc EXCEPT ![s] = "think"]
  /\ UNCHANGED <<calls, left, aborted, lane, router, job, turns, gateVars, treeVars, opVars>>

\* Mutants of GiveUp: the wait has no timeout, and a card that was not answered
\* is taken for a decline.
GiveUpOnLagOnly(s, lagged) ==
  /\ lagged /\ StopWaiting(s)
  /\ told' = [a \in Ids |-> IF a \in remaining[s] THEN "lagged" ELSE told[a]]
GiveUpAsDeclined(s, lagged) ==
  /\ StopWaiting(s)
  /\ told' = [a \in Ids |-> IF a \in remaining[s] THEN "declined" ELSE told[a]]

\* The wait times out, or the receiver has lagged: the model is told what the
\* turn believes of every call still missing.
GiveUp(s, lagged) ==
  /\ StopWaiting(s)
  /\ told' = [a \in Ids |-> IF a \in remaining[s]
                              THEN IF lagged THEN "lagged" ELSE phase[a]
                              ELSE told[a]]

\* The reply calls no tool, or the provider fails.  TurnComplete goes out,
\* except for a sub-agent that failed: child_turn does not send it.
EndTurn(s, ok) ==
  /\ pc[s] = "think"
  /\ lane' = IF ok \/ s \in Roots THEN Append(lane, TurnComplete(s)) ELSE lane
  /\ pc' = [pc EXCEPT ![s] = IF s \in Roots THEN "off" ELSE IF ok THEN "report" ELSE "report error"]
  /\ aborted' = IF s \in Roots THEN aborted \ {s} ELSE aborted
  /\ UNCHANGED <<calls, left, remaining, phase, told, inbox, router, job, turns, gateVars,
                 treeVars, opVars>>

\* child_turn: the output goes to the parent as the result of its agent_spawn,
\* and the child's bookkeeping is torn down.
Report(c) ==
  LET a == origin[c]
  IN /\ c \in Children /\ pc[c] \in {"report", "report error"}
     /\ Emit(ToolResult(Owner(a), a, IF pc[c] = "report" THEN "ok" ELSE "error"))
     /\ pc' = [pc EXCEPT ![c] = "off"]
     /\ aborted' = aborted \ {c}
     /\ depth' = [depth EXCEPT ![c] = 0]
     /\ kids' = [kids EXCEPT ![c] = {}, ![Owner(a)] = @ \ {c}]
     /\ UNCHANGED <<calls, left, remaining, phase, told, router, job, turns, origin, gateVars,
                    opVars>>

\* The aborted task is dropped at the await it stands at.
AbortLands(s) ==
  /\ s \in aborted
  /\ aborted' = aborted \ {s}
  /\ pc' = [pc EXCEPT ![s] = "off"]
  /\ left' = [left EXCEPT ![s] = <<>>]
  /\ phase' = Forget(remaining[s])
  /\ remaining' = [remaining EXCEPT ![s] = {}]
  /\ inbox' = [inbox EXCEPT ![s] = <<>>]
  /\ UNCHANGED <<calls, told, lane, router, job, turns, gateVars, treeVars, opVars>>

-----------------------------------------------------------------------------
(* The supervisor: one handler per kind of command.                         *)

\* Take the next command off the lane, if it is of this kind.
Takes(kind) == lane # <<>> /\ Head(lane).kind = kind /\ lane' = Tail(lane)

\* dispatch_tool: a detached task works on the call.
Dispatch(a) ==
  /\ job' = [job EXCEPT ![a] = IF calls[a].tool = "spawn" THEN "spawn" ELSE "run"]
  /\ ran' = [ran EXCEPT ![a] = @ + 1]

\* The policy's decision.  An armed goal's session approves its own ask tools,
\* but never a further elevation.
RunsFreely(a) ==
  \/ calls[a].tool \in {"allow", "spawn"}
  \/ calls[a].tool = "ask" /\ Owner(a) \in armed

HandleToolRequested ==
  LET a == Head(lane).call
  IN /\ Takes("tool_requested")
     /\ \/ /\ RunsFreely(a)
           /\ Dispatch(a)
           /\ UNCHANGED <<pending, inbox, shown>>
        \/ /\ ~RunsFreely(a)
           /\ pending' = pending \cup {a}
           /\ inbox' = Heard(ApprovalPending(Owner(a), a))
           /\ shown' = shown \cup {a}
           /\ UNCHANGED <<job, ran>>
     /\ UNCHANGED <<turnVars, router, armed, trusted, stamped, turns, treeVars, yes, no,
                    answers, cancels>>

\* Mutant of Matches: the nonce is not compared, so old clients are heard too.
MatchesAnyNonce(e) == e.call \in pending /\ e.session = Owner(e.call)

\* take_matching_approval: the session and the nonce must both match.
Matches(e) == e.call \in pending /\ e.session = Owner(e.call) /\ e.nonce = e.call

HandleUserApproval ==
  LET e == Head(lane)
  IN /\ Takes("user_approval")
     /\ \/ /\ Matches(e) /\ e.granted
           /\ pending' = pending \ {e.call}
           /\ stamped' = IF calls[e.call].tool = "elevate" THEN stamped \cup {e.call}
                                                            ELSE stamped
           /\ Dispatch(e.call)
        \/ /\ Matches(e) /\ ~e.granted
           /\ pending' = pending \ {e.call}
           /\ job' = [job EXCEPT ![e.call] = "decline"]
           /\ UNCHANGED <<ran, stamped>>
        \/ /\ ~Matches(e)
           /\ UNCHANGED <<pending, job, ran, stamped>>
     /\ UNCHANGED <<turnVars, inbox, router, armed, trusted, turns, treeVars, opVars>>

\* Mutant of PurgeSession: the map is left as it is.
PurgeNothing(s) == pending

\* purge_session_approvals, on user_cancel and turn_complete.
PurgeSession(s) == {a \in pending : Owner(a) # s}

HandlePurge(kind) ==
  /\ Takes(kind)
  /\ pending' = PurgeSession(Head(lane).session)
  /\ UNCHANGED <<turnVars, inbox, router, job, armed, trusted, ran, stamped, turns, treeVars,
                 opVars>>

\* A result makes a grant that is still live void.
HandleToolResult ==
  /\ Takes("tool_result")
  /\ pending' = pending \ {Head(lane).call}
  /\ UNCHANGED <<turnVars, inbox, router, job, armed, trusted, ran, stamped, turns, treeVars,
                 opVars>>

-----------------------------------------------------------------------------
(* Detached tasks.  A tool that hangs never finishes.                       *)

\* The tool returns.  A goal_create that carries the stamp arms the session of
\* the goal it creates.
ToolFinishes(a, out) ==
  /\ job[a] = "run"
  /\ job' = [job EXCEPT ![a] = "none"]
  /\ Emit(ToolResult(Owner(a), a, out))
  /\ IF out = "ok" /\ a \in stamped
       THEN \E g \in Goals : armed' = armed \cup {g} /\ trusted' = trusted \cup {g}
       ELSE UNCHANGED <<armed, trusted>>
  /\ UNCHANGED <<turnVars, router, pending, ran, stamped, turns, treeVars, opVars>>

\* The declined call's result, or the refusal of a spawn that is too deep.
AnswerNegatively(a) ==
  /\ job[a] \in {"decline", "refuse"}
  /\ job' = [job EXCEPT ![a] = "none"]
  /\ Emit(ToolResult(Owner(a), a, IF job[a] = "decline" THEN "declined" ELSE "error"))
  /\ UNCHANGED <<turnVars, router, gateVars, turns, treeVars, opVars>>

EmitSpawnAgent(a) ==
  /\ job[a] = "spawn"
  /\ job' = [job EXCEPT ![a] = "none"]
  /\ router' = Append(router, SpawnAgent(Owner(a), a))
  /\ UNCHANGED <<turnVars, inbox, lane, gateVars, turns, treeVars, opVars>>

\* task_fanout{yolo: inherit}: an armed session's workers inherit its flag.
FanOut(s, w) ==
  /\ s \in armed
  /\ trusted' = trusted \cup {w}
  /\ UNCHANGED <<turnVars, inbox, lane, router, pending, job, armed, ran, stamped, turns,
                 treeVars, opVars>>

\* A worker is admitted, or a goal resumed: its flag arms its session.
Arm(w) ==
  /\ w \in trusted
  /\ armed' = armed \cup {w}
  /\ UNCHANGED <<turnVars, inbox, lane, router, pending, job, trusted, ran, stamped, turns,
                 treeVars, opVars>>

\* A goal ends, a worker ends or is parked: its driver disarms the session.
Disarm(w) ==
  /\ w \in armed
  /\ armed' = armed \ {w}
  /\ UNCHANGED <<turnVars, inbox, lane, router, pending, job, trusted, ran, stamped, turns,
                 treeVars, opVars>>

-----------------------------------------------------------------------------
(* The router's part, and the operators' clients.                           *)

\* The session and, breadth first, everything below it in session_children.
Subtree(s) ==
  LET Reach[n \in 0..Cardinality(Sessions)] ==
        IF n = 0 THEN {s} ELSE Reach[n-1] \cup UNION {kids[t] : t \in Reach[n-1]}
  IN Reach[Cardinality(Sessions)]

\* cascade_cancel.
RouteCancel ==
  /\ router # <<>> /\ Head(router).kind = "user_cancel"
  /\ router' = Tail(router)
  /\ aborted' = aborted \cup {t \in Subtree(Head(router).session) : pc[t] # "off"}
  /\ UNCHANGED <<pc, calls, left, remaining, phase, told, inbox, lane, job, turns, gateVars,
                 treeVars, opVars>>

\* SpawnAgent: refused beyond the depth limit, else a child turn starts.
RouteSpawn ==
  LET parent == Head(router).session
      a == Head(router).call
  IN /\ router # <<>> /\ Head(router).kind = "spawn_agent"
     /\ router' = Tail(router)
     /\ \/ /\ depth[parent] >= MaxDepth
           /\ job' = [job EXCEPT ![a] = "refuse"]
           /\ UNCHANGED <<pc, treeVars>>
        \/ /\ depth[parent] < MaxDepth
           /\ \E c \in Children :    \* bound: a child id is left
                /\ origin[c] = 0
                /\ origin' = [origin EXCEPT ![c] = a]
                /\ depth' = [depth EXCEPT ![c] = depth[parent] + 1]
                /\ kids' = [kids EXCEPT ![parent] = @ \cup {c}]
                /\ pc' = [pc EXCEPT ![c] = "think"]
           /\ UNCHANGED job
     /\ UNCHANGED <<calls, left, remaining, phase, told, aborted, inbox, lane, turns, gateVars,
                    opVars>>

\* A client answers a card it was shown, perhaps late, twice, or without the
\* nonce; the gateway stamps the session its socket is bound to.
Answer(s, a, granted, nonce) ==
  /\ answers < MaxAnswers /\ answers' = answers + 1
  /\ a \in shown /\ (s = Owner(a) \/ nonce = a)   \* one thing wrong at a time
  /\ Emit(UserApproval(s, a, granted, nonce))
  /\ IF s = Owner(a) /\ nonce = a
       THEN /\ yes' = IF granted THEN yes \cup {a} ELSE yes
            /\ no' = IF granted THEN no ELSE no \cup {a}
       ELSE UNCHANGED <<yes, no>>
  /\ UNCHANGED <<turnVars, router, job, turns, gateVars, treeVars, shown, cancels>>

UserCancel(s) ==
  /\ cancels < MaxCancels /\ cancels' = cancels + 1
  /\ lane' = Append(lane, Cancel(s))
  /\ router' = Append(router, Cancel(s))
  /\ UNCHANGED <<turnVars, inbox, job, turns, gateVars, treeVars, shown, yes, no, answers>>

-----------------------------------------------------------------------------
\* The tool calls of one reply.
Batches == {<<t>> : t \in Used} \cup {<<t, "ask">> : t \in Used \cap {"allow", "ask"}}

\* What a turn does by itself: the wait ends in time, lag or no lag.
TimelyStep(s) ==
  Announce(s) \/ Receive(s) \/ GiveUp(s, FALSE) \/ Report(s) \/ AbortLands(s)

\* What it does when the provider's stream has ended: it may never end.
ProviderStep(s) ==
  \/ \E batch \in Batches : RequestTools(s, batch)
  \/ \E ok \in BOOLEAN : EndTurn(s, ok)

TurnStep(s) == TimelyStep(s) \/ ProviderStep(s) \/ GiveUp(s, TRUE)

Supervise ==
  \/ HandleToolRequested \/ HandleUserApproval
  \/ HandlePurge("user_cancel") \/ HandlePurge("turn_complete")
  \/ HandleToolResult

Next ==
  \/ \E s \in Sessions : StartTurn(s) \/ TurnStep(s)
  \/ Supervise
  \/ \E a \in Ids :
       \/ \E out \in {"ok", "error"} : ToolFinishes(a, out)
       \/ AnswerNegatively(a) \/ EmitSpawnAgent(a)
       \/ \E s \in Sessions, granted \in BOOLEAN, nonce \in {0, a} :
            Answer(s, a, granted, nonce)
  \/ \E w \in Goals : Arm(w) \/ Disarm(w) \/ \E s \in Sessions : FanOut(s, w)
  \/ RouteCancel \/ RouteSpawn
  \/ \E s \in Roots : UserCancel(s)

Spec == Init /\ [][Next]_vars

\* Only what a turn does by itself is fair: run_turn's wait for results is the
\* one with a timeout (the provider clients set a connect timeout, none for the
\* stream).  Nobody has to answer, no tool has to finish, and neither the
\* supervisor nor the router has to keep up.
FairSpec == Spec /\ \A s \in Sessions : WF_vars(TimelyStep(s))

-----------------------------------------------------------------------------
(* Properties.                                                              *)

Places == {"off", "think", "announce", "collect", "report", "report error"}
Beliefs == {"dispatched", "awaiting", "approved"}
Outs == {"ok", "error", "declined"}

Event ==
  [kind : {"tool_requested", "approval_pending", "spawn_agent"}, session : Sessions, call : Ids]
  \cup [kind : {"tool_result"}, session : Sessions, call : Ids, out : Outs]
  \cup [kind : {"user_approval"}, session : Sessions, call : Ids, granted : BOOLEAN,
        nonce : {0} \cup Ids]
  \cup [kind : {"user_cancel", "turn_complete"}, session : Sessions]

(* Every variable has its type; the ids in use are those of calls made.      *)
TypeOK ==
  /\ pc \in [Sessions -> Places]
  /\ calls \in Seq([session : Sessions, tool : Tools]) /\ Len(calls) <= MaxCalls
  /\ left \in [Sessions -> Seq(DOMAIN calls)]
  /\ remaining \in [Sessions -> SUBSET DOMAIN calls]
  /\ phase \in [Ids -> Beliefs]
  /\ told \in [Ids -> {"nothing", "lagged"} \cup Beliefs \cup Outs]
  /\ inbox \in [Sessions -> Seq(Event)]
  /\ lane \in Seq(Event) /\ router \in Seq(Event)
  /\ aborted \subseteq Sessions
  /\ pending \subseteq DOMAIN calls /\ shown \subseteq DOMAIN calls
  /\ job \in [Ids -> {"none", "run", "decline", "spawn", "refuse"}]
  /\ armed \subseteq Goals /\ trusted \subseteq Goals
  /\ origin \in [Children -> {0} \cup DOMAIN calls]
  /\ depth \in [Sessions -> Nat] /\ kids \in [Sessions -> SUBSET Children]
  /\ ran \in [Ids -> Nat]
  /\ yes \subseteq shown /\ no \subseteq shown /\ stamped \subseteq shown
  /\ turns \in 0..MaxTurns /\ answers \in 0..MaxAnswers /\ cancels \in 0..MaxCancels

(* Every run of a guarded tool goes back to an operator's yes that named the *)
(* session and the nonce of its card: a yes to that very call or, for an ask *)
(* tool of a goal's or worker's session, a yes to an elevation.  No session  *)
(* is trusted without one, and an elevation is never approved by being       *)
(* armed.                                                                    *)
GuardedRunHasAGrant ==
  LET elevated == \E a \in yes : calls[a].tool = "elevate"
  IN /\ armed \cup trusted # {} => elevated
     /\ \A a \in DOMAIN calls :
          /\ ran[a] > 0 /\ calls[a].tool = "elevate" => a \in yes
          /\ ran[a] > 0 /\ calls[a].tool = "ask" =>
               a \in yes \/ (elevated /\ Owner(a) \in Goals)

(* However often and from however many clients a card is answered, in        *)
(* whatever order with cancels and turn ends: a call runs at most once.      *)
CallRunsAtMostOnce == \A a \in Ids : ran[a] <= 1

(* What the model is told of a call as a fact is one, and stays one: a       *)
(* result means that the call ran, "declined" that an operator said no to    *)
(* this call and that it did not run and never will, "awaiting approval"     *)
(* that its card was shown.                                                  *)
ToldTheTruth ==
  \A a \in Ids :
    /\ told[a] \in {"ok", "error"} => ran[a] = 1
    /\ told[a] = "declined" => a \in no /\ a \notin pending /\ ran[a] = 0
    /\ told[a] = "awaiting" => a \in shown

(* Approvals die with the turn: a card of a turn that ended on its own is    *)
(* void once the supervisor has read the turn's TurnComplete.                *)
EndedTurnLeavesNoGrant ==
  \A a \in pending :
    cancels = 0 /\ pc[Owner(a)] \in {"off", "report"} =>
      \/ \E i \in DOMAIN lane : lane[i] = TurnComplete(Owner(a))
      \/ Owner(a) \in Children /\ pc[Owner(a)] = "off"   \* it may have failed

(* A turn that asked for tools gets out of the wait, whatever the operators,  *)
(* the tools, the supervisor and the router do: "an abandoned approval or a   *)
(* dropped result can never wedge the turn".  (It may then wait for the       *)
(* provider, or ask for other tools.)                                        *)
WaitEnds ==
  \A s \in Sessions : pc[s] \in {"announce", "collect"} ~> pc[s] \notin {"announce", "collect"}

(* "Timeout / external completion must not leave a live grant": when the     *)
(* supervisor has read all its commands, every approval it still holds is    *)
(* one a turn waits for.                                                     *)
LiveGrantHasAWaiter ==
  lane = <<>> => \A a \in pending : a \in remaining[Owner(a)]
=============================================================================

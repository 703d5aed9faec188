------------------------ MODULE ApprovalGate_proofs ------------------------
(***************************************************************************)
(* Proofs about the approval gate, for any number of sessions, calls,      *)
(* answers and cancels: a guarded tool runs only with an operator's grant, *)
(* no call runs twice, what the model is told of a call is true, and       *)
(* approvals die with their turn.                                          *)
(*                                                                         *)
(* All need to know where a call is.  It is still to be announced by its   *)
(* turn (left), or its one ToolRequested is in the supervisor's lane, or   *)
(* its card is pending, or it was decided; in the first three cases it has *)
(* not run.  A grant in the lane that would match its card is one an       *)
(* operator gave.  A call that was declined is in none of the three, so it *)
(* stays declined while its result travels; and a turn's TurnComplete is   *)
(* behind all its requests, so no card outlives its reading.               *)
(***************************************************************************)
EXTENDS ApprovalGate, FiniteSetTheorems, NaturalsInduction, WellFoundedInduction, TLAPS

Call == [session : Sessions, tool : Tools]

\* The types of the variables the argument is about.
GrantType ==
  /\ pc \in [Sessions -> Places]
  /\ calls \in Seq(Call) /\ Len(calls) <= MaxCalls
  /\ left \in [Sessions -> Seq(Nat)]
  /\ lane \in Seq(Event)
  /\ ran \in [Ids -> Nat]
  /\ pending \subseteq DOMAIN calls /\ shown \subseteq DOMAIN calls
  /\ armed \cup trusted \subseteq Goals

\* A call that has not come before the supervisor's decision.
Undecided(a) == a \in DOMAIN calls /\ a \notin pending /\ ran[a] = 0

\* Calls a turn has still to announce: its own, each once.
LeftInv ==
  \A s \in Sessions :
    /\ pc[s] = "announce" => left[s] # <<>>
    /\ \A i \in DOMAIN left[s] :
         /\ Undecided(left[s][i]) /\ Owner(left[s][i]) = s
         /\ \A j \in DOMAIN left[s] : left[s][i] = left[s][j] => i = j

IsRequest(i) == lane[i].kind = "tool_requested"

\* Requests in the lane: each call once, and not one still to be announced.
RequestInv ==
  \A i \in DOMAIN lane : IsRequest(i) =>
    /\ Undecided(lane[i].call)
    /\ \A j \in DOMAIN lane : IsRequest(j) /\ lane[i].call = lane[j].call => i = j
    /\ \A s \in Sessions : \A k \in DOMAIN left[s] : left[s][k] # lane[i].call

\* A grant in the lane that names its call's session and nonce was given.
ApprovalInv ==
  \A i \in DOMAIN lane :
    lane[i].kind = "user_approval" =>
      /\ lane[i].call \in DOMAIN calls
      /\ lane[i].granted /\ lane[i].session = Owner(lane[i].call) /\ lane[i].nonce = lane[i].call
           => lane[i].call \in yes

\* A card is pending only of a call that did not run; who ran was decided on.
RunInv ==
  /\ \A a \in pending : ran[a] = 0
  /\ \A a \in Ids : ran[a] > 0 => a \in DOMAIN calls
  /\ yes \subseteq DOMAIN calls
  /\ \A a \in stamped : a \in yes /\ calls[a].tool = "elevate"
  /\ CallRunsAtMostOnce /\ GuardedRunHasAGrant

GrantInv == GrantType /\ LeftInv /\ RequestInv /\ ApprovalInv /\ RunInv

\* Detached tasks, sub-agents and spawns under way work for calls that exist.
WorkInv ==
  /\ job \in [Ids -> {"none", "run", "decline", "spawn", "refuse"}]
  /\ \A a \in Ids : job[a] # "none" => a \in DOMAIN calls
  /\ origin \in [Children -> {0} \cup Ids]
  /\ \A c \in Children : pc[c] # "off" => origin[c] \in DOMAIN calls
  /\ router \in Seq(Event)
  /\ \A i \in DOMAIN router :
       router[i].kind = "spawn_agent" => router[i].call \in DOMAIN calls

-----------------------------------------------------------------------------
(* What appending to the lane does to its elements.                          *)
LEMMA LaneAppend ==
  ASSUME NEW STATE q, NEW STATE S, NEW STATE e, q \in Seq(S), e \in S
  PROVE  /\ Append(q, e) \in Seq(S)
         /\ DOMAIN Append(q, e) = DOMAIN q \cup {Len(q) + 1}
         /\ \A i \in DOMAIN q : Append(q, e)[i] = q[i] /\ i # Len(q) + 1
         /\ Append(q, e)[Len(q) + 1] = e
  OBVIOUS

(* What taking the head of the lane does to its elements.                    *)
LEMMA LaneTail ==
  ASSUME NEW STATE q, NEW STATE S, q \in Seq(S), q # <<>>
  PROVE  /\ Tail(q) \in Seq(S)
         /\ 1 \in DOMAIN q /\ Head(q) = q[1] /\ Head(q) \in S
         /\ \A i \in DOMAIN Tail(q) : i + 1 \in DOMAIN q /\ i + 1 # 1 /\ Tail(q)[i] = q[i+1]
         /\ DOMAIN Tail(q) \subseteq Nat
  OBVIOUS

\* What becomes of the lane in a step that adds no request and no answer.
LaneShrinks ==
  \/ lane' = lane
  \/ lane # <<>> /\ lane' = Tail(lane)
  \/ \E e \in Event : e.kind \notin {"tool_requested", "user_approval"} /\ lane' = Append(lane, e)

(* A step that announces and decides nothing: it leaves the calls, the runs  *)
(* and the answers alone and may only void cards, drop what a turn had left  *)
(* to announce, and add other events to the lane.                            *)
Quiet ==
  /\ LaneShrinks
  /\ UNCHANGED <<calls, ran, yes, no, stamped, shown>>
  /\ pending' \subseteq pending
  /\ left' \in [Sessions -> Seq(Nat)]
  /\ \A s \in Sessions : left'[s] = left[s] \/ left'[s] = <<>>
  /\ pc' \in [Sessions -> Places]
  /\ \A s \in Sessions : pc'[s] = "announce" => pc[s] = "announce" /\ left'[s] = left[s]
  /\ armed' \cup trusted' \subseteq Goals
  /\ armed' \cup trusted' # {} => \E a \in yes : calls[a].tool = "elevate"

(* It keeps the invariant.                                                   *)
LEMMA QuietStep ==
  ASSUME GrantInv, Quiet
  PROVE  GrantInv'
<1> USE DEF Quiet
<1>1. /\ lane' \in Seq(Event)
      /\ \A i \in DOMAIN lane' :
           lane'[i].kind \in {"tool_requested", "user_approval"} =>
             \E k \in {0, 1} : i + k \in DOMAIN lane /\ lane'[i] = lane[i + k]
      /\ \A i, j \in DOMAIN lane' :
           /\ lane'[i].kind = "tool_requested" /\ lane'[j].kind = "tool_requested"
           /\ lane'[i].call = lane'[j].call
           => i = j
  <2>1. CASE lane' = lane
    BY <2>1 DEF GrantInv, GrantType, RequestInv, IsRequest
  <2>2. CASE lane # <<>> /\ lane' = Tail(lane)
    <3>1. lane \in Seq(Event) BY DEF GrantInv, GrantType
    <3>2. /\ lane' \in Seq(Event)
          /\ \A i \in DOMAIN lane' : i \in Nat /\ i + 1 \in DOMAIN lane /\ lane'[i] = lane[i+1]
      BY <2>2, <3>1, LaneTail
    <3>3. ASSUME NEW i \in DOMAIN lane', NEW j \in DOMAIN lane',
                 lane'[i].kind = "tool_requested", lane'[j].kind = "tool_requested",
                 lane'[i].call = lane'[j].call
          PROVE  i = j
      <4>1. i + 1 = j + 1 BY <3>2, <3>3 DEF GrantInv, RequestInv, IsRequest
      <4>2. QED BY <4>1, <3>2
    <3>4. QED BY <3>2, <3>3
  <2>3. CASE \E e \in Event : e.kind \notin {"tool_requested", "user_approval"}
                              /\ lane' = Append(lane, e)
    <3>1. lane \in Seq(Event) BY DEF GrantInv, GrantType
    <3>2. PICK e \in Event : e.kind \notin {"tool_requested", "user_approval"}
                              /\ lane' = Append(lane, e)
      BY <2>3
    <3>3. /\ lane' \in Seq(Event)
          /\ DOMAIN lane' = DOMAIN lane \cup {Len(lane) + 1}
          /\ \A i \in DOMAIN lane : lane'[i] = lane[i] /\ i \in Nat
          /\ lane'[Len(lane) + 1] = e
      BY <3>1, <3>2
    <3>4. QED BY <3>2, <3>3 DEF GrantInv, RequestInv, IsRequest
  <2>4. QED BY <2>1, <2>2, <2>3 DEF LaneShrinks
<1>2. GrantType' BY <1>1 DEF GrantInv, GrantType
<1>3. \A a : Undecided(a) => Undecided(a)'
  BY DEF Undecided
<1>4. LeftInv' BY <1>3 DEF GrantInv, GrantType, LeftInv, Owner
<1>5. RequestInv'
  <2> SUFFICES ASSUME NEW i \in DOMAIN lane', IsRequest(i)'
               PROVE  /\ Undecided(lane[i].call)'
                      /\ \A j \in DOMAIN lane' : IsRequest(j)' /\ lane'[i].call = lane'[j].call
                           => i = j
                      /\ \A s \in Sessions : \A k \in DOMAIN left'[s] :
                           left'[s][k] # lane'[i].call
    BY DEF RequestInv
  <2>1. PICK k \in {0, 1} : i + k \in DOMAIN lane /\ lane'[i] = lane[i + k]
    BY <1>1 DEF IsRequest
  <2>2. /\ Undecided(lane'[i].call)
        /\ \A s \in Sessions : \A n \in DOMAIN left[s] : left[s][n] # lane'[i].call
    BY <2>1 DEF GrantInv, RequestInv, IsRequest
  <2>3. \A s \in Sessions : \A n \in DOMAIN left'[s] : left'[s][n] # lane'[i].call
    BY <2>2
  <2>4. QED BY <1>1, <2>2, <2>3 DEF IsRequest, Undecided
<1>6. ApprovalInv'
  <2> SUFFICES ASSUME NEW i \in DOMAIN lane', lane'[i].kind = "user_approval"
               PROVE  /\ lane'[i].call \in DOMAIN calls
                      /\ lane'[i].granted /\ lane'[i].session = Owner(lane'[i].call)
                           /\ lane'[i].nonce = lane'[i].call => lane'[i].call \in yes
    BY DEF ApprovalInv, Owner
  <2>1. PICK k \in {0, 1} : i + k \in DOMAIN lane /\ lane'[i] = lane[i + k]
    BY <1>1
  <2>2. QED BY <2>1 DEF GrantInv, ApprovalInv
<1>7. RunInv'
  BY DEF GrantInv, RunInv, CallRunsAtMostOnce, GuardedRunHasAGrant, Owner
<1>8. QED BY <1>2, <1>4, <1>5, <1>6, <1>7 DEF GrantInv

(* The calls of one reply: at least one, of known kinds.                     *)
LEMMA BatchIsSequence ==
  ASSUME NEW batch \in Batches
  PROVE  batch \in Seq(Tools) /\ batch # <<>> /\ Len(batch) \in Nat \ {0}
<1>1. "ask" \in Tools /\ Used \subseteq Tools BY GateAssumption DEF Tools
<1>2. ASSUME NEW t \in Used, batch = <<t>>
      PROVE  batch \in Seq(Tools) /\ Len(batch) = 1
  BY <1>1, <1>2
<1>3. ASSUME NEW t \in Used, batch = <<t, "ask">>
      PROVE  batch \in Seq(Tools) /\ Len(batch) = 2
  BY <1>1, <1>3
<1>4. (\E t \in Used : batch = <<t>>) \/ (\E t \in Used : batch = <<t, "ask">>)
  BY Zenon DEF Batches
<1>5. batch \in Seq(Tools) /\ Len(batch) \in {1, 2} BY <1>2, <1>3, <1>4, Zenon
<1>6. QED BY <1>5

(* The calls of a reply get ids no call has: nothing was decided on them.    *)
LEMMA RequestToolsKeepsGrants ==
  ASSUME GrantInv, NEW s \in Sessions, NEW batch \in Batches, RequestTools(s, batch)
  PROVE  GrantInv'
<1> DEFINE n == Len(calls)
           fresh == [k \in DOMAIN batch |-> n + k]
           add == [k \in DOMAIN batch |-> [session |-> s, tool |-> batch[k]]]
<1>1. batch \in Seq(Tools) /\ batch # <<>> /\ Len(batch) \in Nat \ {0}
  BY BatchIsSequence
<1>2. DOMAIN batch = 1..Len(batch) BY <1>1
<1>3. n \in Nat /\ calls \in Seq(Call) /\ DOMAIN calls = 1..n
  BY DEF GrantInv, GrantType
<1>4. add \in Seq(Call) /\ Len(add) = Len(batch)
  BY <1>1, <1>2 DEF Call
<1>5. fresh \in Seq(Nat) /\ fresh # <<>> /\ DOMAIN fresh = 1..Len(batch)
  <2>1. fresh \in [1..Len(batch) -> Nat] BY <1>1, <1>2, <1>3
  <2>2. 1 \in 1..Len(batch) BY <1>1
  <2> HIDE DEF fresh
  <2>3. fresh \in Seq(Nat) /\ DOMAIN fresh = 1..Len(batch) BY <1>1, <2>1
  <2>4. QED BY <2>2, <2>3
<1>6. /\ calls' = calls \o add /\ left' = [left EXCEPT ![s] = fresh]
      /\ pc' = [pc EXCEPT ![s] = "announce"]
      /\ n + Len(batch) <= MaxCalls
      /\ UNCHANGED <<lane, ran, pending, shown, armed, trusted, yes, stamped>>
  BY DEF RequestTools, NextActionIds, gateVars, opVars
<1>7. /\ calls' \in Seq(Call) /\ Len(calls') = n + Len(batch)
      /\ DOMAIN calls' = 1..(n + Len(batch))
      /\ \A a \in DOMAIN calls : calls'[a] = calls[a]
      /\ \A k \in DOMAIN batch : calls'[n + k] = add[k]
  <2> HIDE DEF add, fresh
  <2>1. calls' = calls \o add BY <1>6
  <2>2. DOMAIN add = DOMAIN batch BY <1>2, <1>4
  <2>3. calls \o add \in Seq(Call) /\ Len(calls \o add) = n + Len(add) BY <1>3, <1>4
  <2>4. \A a \in 1..n : (calls \o add)[a] = calls[a] BY <1>3, <1>4
  <2>5. \A k \in 1..Len(add) : (calls \o add)[n + k] = add[k] BY <1>3, <1>4
  <2>6. QED BY <2>1, <2>2, <2>3, <2>4, <2>5, <1>1, <1>2, <1>3, <1>4
<1>8. \A k \in DOMAIN batch : fresh[k] = n + k /\ calls'[n + k].session = s
  <2>1. \A k \in DOMAIN batch : fresh[k] = n + k /\ add[k].session = s OBVIOUS
  <2>2. QED BY <1>7, <2>1
<1> HIDE DEF add, fresh
<1>9. \A a \in DOMAIN calls : a \in DOMAIN calls' /\ Owner(a)' = Owner(a) /\ calls'[a] = calls[a]
  BY <1>1, <1>3, <1>7 DEF Owner
<1>10. GrantType'
  BY <1>1, <1>3, <1>5, <1>6, <1>7, <1>9 DEF GrantInv, GrantType, Places
<1>11. \A k \in DOMAIN batch :
         /\ fresh[k] \in Ids /\ fresh[k] \notin DOMAIN calls /\ fresh[k] \in DOMAIN calls'
         /\ ran[fresh[k]] = 0 /\ fresh[k] \notin pending
  <2> SUFFICES ASSUME NEW k \in DOMAIN batch
               PROVE  /\ fresh[k] \in Ids /\ fresh[k] \notin DOMAIN calls
                      /\ fresh[k] \in DOMAIN calls'
                      /\ ran[fresh[k]] = 0 /\ fresh[k] \notin pending
    OBVIOUS
  <2> DEFINE a == n + k
  <2>1. fresh[k] = a BY <1>8
  <2>2. a \in 1..(n + Len(batch)) /\ a \notin 1..n BY <1>1, <1>2, <1>3
  <2>3. a \in Ids BY <1>1, <1>3, <1>6, <2>2, GateAssumption DEF Ids
  <2> HIDE DEF a
  <2>4. a \notin DOMAIN calls /\ a \in DOMAIN calls' BY <1>3, <1>7, <2>2
  <2>5. a \notin pending BY <2>4 DEF GrantInv, GrantType
  <2>6. ran[a] \in Nat /\ ~(ran[a] > 0) BY <2>3, <2>4 DEF GrantInv, GrantType, RunInv
  <2>7. QED BY <2>1, <2>3, <2>4, <2>5, <2>6
<1>12. \A a : Undecided(a) => Undecided(a)'
  BY <1>6, <1>9 DEF Undecided
<1>13. LeftInv'
  <2> SUFFICES ASSUME NEW t \in Sessions
               PROVE  /\ pc'[t] = "announce" => left'[t] # <<>>
                      /\ \A i \in DOMAIN left'[t] :
                           /\ left'[t][i] \in DOMAIN calls' /\ left'[t][i] \notin pending
                           /\ ran[left'[t][i]] = 0 /\ calls'[left'[t][i]].session = t
                           /\ \A j \in DOMAIN left'[t] : left'[t][i] = left'[t][j] => i = j
    BY <1>6 DEF LeftInv, Undecided, Owner
  <2>1. CASE t = s
    BY <2>1, <1>2, <1>3, <1>5, <1>6, <1>8, <1>11 DEF GrantInv, GrantType
  <2>2. CASE t # s
    <3>1. left'[t] = left[t] /\ pc'[t] = pc[t] BY <2>2, <1>6 DEF GrantInv, GrantType
    <3>2. QED BY <3>1, <1>9 DEF GrantInv, LeftInv, Undecided, Owner
  <2>3. QED BY <2>1, <2>2
<1>14. RequestInv'
  <2> SUFFICES ASSUME NEW i \in DOMAIN lane, IsRequest(i)
               PROVE  /\ lane[i].call \in DOMAIN calls' /\ lane[i].call \notin pending
                      /\ ran[lane[i].call] = 0
                      /\ \A j \in DOMAIN lane : IsRequest(j) /\ lane[i].call = lane[j].call
                           => i = j
                      /\ \A t \in Sessions : \A k \in DOMAIN left'[t] :
                           left'[t][k] # lane[i].call
    BY <1>6 DEF RequestInv, IsRequest, Undecided
  <2>1. /\ lane[i].call \in DOMAIN calls /\ lane[i].call \notin pending
        /\ ran[lane[i].call] = 0
        /\ \A j \in DOMAIN lane : IsRequest(j) /\ lane[i].call = lane[j].call => i = j
        /\ \A t \in Sessions : \A k \in DOMAIN left[t] : left[t][k] # lane[i].call
    BY DEF GrantInv, RequestInv, Undecided
  <2>2. \A k \in DOMAIN fresh : fresh[k] # lane[i].call
    BY <1>2, <1>5, <1>11, <2>1
  <2>3. ASSUME NEW t \in Sessions, NEW k \in DOMAIN left'[t]
        PROVE  left'[t][k] # lane[i].call
    BY <1>6, <2>1, <2>2 DEF GrantInv, GrantType
  <2>4. QED BY <1>9, <2>1, <2>3
<1>15. ApprovalInv'
  BY <1>6, <1>9 DEF GrantInv, ApprovalInv, Owner
<1>16. RunInv'
  <2>1. yes \subseteq DOMAIN calls /\ stamped \subseteq yes BY DEF GrantInv, RunInv
  <2>2. /\ \A a \in pending' : ran'[a] = 0
        /\ \A a \in Ids : ran'[a] > 0 => a \in DOMAIN calls'
        /\ yes' \subseteq DOMAIN calls'
        /\ \A a \in stamped' : a \in yes' /\ calls'[a].tool = "elevate"
        /\ CallRunsAtMostOnce'
    BY <1>6, <1>9, <2>1 DEF GrantInv, RunInv, CallRunsAtMostOnce
  <2>3. (\E a \in yes : calls[a].tool = "elevate") => \E a \in yes : calls'[a].tool = "elevate"
    BY <1>9, <2>1
  <2>4. \A a \in DOMAIN calls' : ran[a] > 0 => a \in DOMAIN calls
    BY <1>1, <1>3, <1>6, <1>7, GateAssumption DEF GrantInv, GrantType, RunInv, Ids
  <2>5. GuardedRunHasAGrant'
    BY <1>6, <1>9, <2>3, <2>4 DEF GrantInv, RunInv, GuardedRunHasAGrant, Owner
  <2>6. QED BY <2>2, <2>5 DEF RunInv
<1>17. QED BY <1>10, <1>13, <1>14, <1>15, <1>16 DEF GrantInv

(* An announced call moves from the turn's list to the lane.                 *)
LEMMA AnnounceKeepsGrants ==
  ASSUME GrantInv, NEW s \in Sessions, Announce(s)
  PROVE  GrantInv'
<1> DEFINE e == ToolRequested(s, Head(left[s]))
<1>1. /\ lane' = Append(lane, e) /\ left' = [left EXCEPT ![s] = Tail(left[s])]
      /\ pc[s] = "announce"
      /\ pc' = [pc EXCEPT ![s] = IF Len(left[s]) = 1 THEN "collect" ELSE "announce"]
      /\ UNCHANGED <<calls, ran, pending, shown, armed, trusted, yes, stamped>>
  BY DEF Announce, Emit, gateVars, opVars
<1>2. left[s] \in Seq(Nat) /\ left[s] # <<>> /\ lane \in Seq(Event)
  BY <1>1 DEF GrantInv, GrantType, LeftInv
<1>3. /\ 1 \in DOMAIN left[s] /\ Head(left[s]) = left[s][1] /\ Tail(left[s]) \in Seq(Nat)
      /\ \A i \in DOMAIN Tail(left[s]) :
           i \in Nat /\ i + 1 \in DOMAIN left[s] /\ i + 1 # 1 /\ Tail(left[s])[i] = left[s][i+1]
      /\ Len(left[s]) # 1 => Tail(left[s]) # <<>>
  <2>1. /\ 1 \in DOMAIN left[s] /\ Head(left[s]) = left[s][1] /\ Tail(left[s]) \in Seq(Nat)
        /\ Len(Tail(left[s])) = Len(left[s]) - 1 /\ Len(left[s]) \in Nat \ {0}
    BY <1>2
  <2>2. \A i \in DOMAIN Tail(left[s]) :
          i \in Nat /\ i + 1 \in DOMAIN left[s] /\ i + 1 # 1 /\ Tail(left[s])[i] = left[s][i+1]
    BY <1>2
  <2>3. Len(left[s]) # 1 => Len(Tail(left[s])) # 0 BY <2>1
  <2>4. Len(<<>>) = 0 OBVIOUS
  <2>5. QED BY <2>1, <2>2, <2>3, <2>4
<1>4. PICK a \in Nat : a = left[s][1] BY <1>2, <1>3
<1>5. /\ Undecided(a) /\ Owner(a) = s /\ e = ToolRequested(s, a) /\ a \in Ids
  <2>1. Undecided(a) /\ Owner(a) = s BY <1>3, <1>4 DEF GrantInv, LeftInv
  <2>2. a \in Ids BY <2>1, GateAssumption DEF GrantInv, GrantType, Undecided, Ids
  <2>3. QED BY <1>3, <1>4, <2>1, <2>2
<1>6. e \in Event /\ e.kind = "tool_requested" /\ e.call = a
  BY <1>5 DEF ToolRequested, Event
<1> HIDE DEF e
<1>7. /\ lane' \in Seq(Event)
      /\ DOMAIN lane' = DOMAIN lane \cup {Len(lane) + 1}
      /\ \A i \in DOMAIN lane : lane'[i] = lane[i] /\ i # Len(lane) + 1
      /\ lane'[Len(lane) + 1] = e
  BY <1>1, <1>2, <1>6
<1>8. \A t \in Sessions : left'[t] = IF t = s THEN Tail(left[s]) ELSE left[t]
  BY <1>1 DEF GrantInv, GrantType
<1>9. GrantType'
  BY <1>1, <1>3, <1>7 DEF GrantInv, GrantType, Places
<1>10. LeftInv'
  <2> SUFFICES ASSUME NEW t \in Sessions
               PROVE  /\ pc'[t] = "announce" => left'[t] # <<>>
                      /\ \A i \in DOMAIN left'[t] :
                           /\ Undecided(left'[t][i]) /\ Owner(left'[t][i]) = t
                           /\ \A j \in DOMAIN left'[t] : left'[t][i] = left'[t][j] => i = j
    BY <1>1 DEF LeftInv, Undecided, Owner
  <2>1. CASE t = s
    <3>1. left'[t] = Tail(left[s]) BY <2>1, <1>8
    <3>2. \A i \in DOMAIN left'[t] :
            /\ Undecided(left'[t][i]) /\ Owner(left'[t][i]) = t
            /\ \A j \in DOMAIN left'[t] : left'[t][i] = left'[t][j] => i + 1 = j + 1
      BY <2>1, <3>1, <1>3 DEF GrantInv, LeftInv
    <3>3. \A i, j \in DOMAIN left'[t] : i + 1 = j + 1 => i = j BY <3>1, <1>3
    <3>4. pc'[t] = "announce" => left'[t] # <<>>
      BY <2>1, <3>1, <1>1, <1>3 DEF GrantInv, GrantType
    <3>5. QED BY <3>2, <3>3, <3>4
  <2>2. CASE t # s
    BY <2>2, <1>1, <1>8 DEF GrantInv, GrantType, LeftInv
  <2>3. QED BY <2>1, <2>2
<1>11. RequestInv'
  <2>1. \A t \in Sessions : \A k \in DOMAIN left'[t] :
          /\ left'[t][k] # a
          /\ \E m \in DOMAIN left[t] : left'[t][k] = left[t][m]
    <3> SUFFICES ASSUME NEW t \in Sessions, NEW k \in DOMAIN left'[t]
                 PROVE  /\ left'[t][k] # a
                        /\ \E m \in DOMAIN left[t] : left'[t][k] = left[t][m]
      OBVIOUS
    <3>1. CASE t = s
      <4>1. left'[t][k] = left[s][k+1] /\ k + 1 \in DOMAIN left[s] /\ k + 1 # 1
        BY <3>1, <1>3, <1>8
      <4>2. left[s][k+1] # left[s][1] BY <4>1, <1>3 DEF GrantInv, LeftInv
      <4>3. QED BY <3>1, <4>1, <4>2, <1>4
    <3>2. CASE t # s
      BY <3>2, <1>5, <1>8 DEF GrantInv, LeftInv
    <3>3. QED BY <3>1, <3>2
  <2>2. \A i \in DOMAIN lane : IsRequest(i) =>
          /\ lane[i].call # a
          /\ \A t \in Sessions : \A k \in DOMAIN left'[t] : left'[t][k] # lane[i].call
    BY <2>1, <1>3, <1>4 DEF GrantInv, RequestInv
  <2>3. ASSUME NEW i \in DOMAIN lane', lane'[i].kind = "tool_requested"
        PROVE  /\ Undecided(lane'[i].call)
               /\ \A j \in DOMAIN lane' : lane'[j].kind = "tool_requested"
                    /\ lane'[i].call = lane'[j].call => i = j
               /\ \A t \in Sessions : \A k \in DOMAIN left'[t] : left'[t][k] # lane'[i].call
    <3>1. CASE i \in DOMAIN lane
      BY <3>1, <2>2, <2>3, <1>6, <1>7 DEF GrantInv, RequestInv, IsRequest
    <3>2. CASE i = Len(lane) + 1
      BY <3>2, <2>1, <2>2, <1>5, <1>6, <1>7 DEF IsRequest
    <3>3. QED BY <3>1, <3>2, <1>7
  <2>4. QED BY <2>3, <1>1 DEF RequestInv, IsRequest, Undecided
<1>12. ApprovalInv'
  BY <1>1, <1>6, <1>7 DEF GrantInv, ApprovalInv, Owner
<1>13. RunInv'
  BY <1>1 DEF GrantInv, RunInv, CallRunsAtMostOnce, GuardedRunHasAGrant, Owner
<1>14. QED BY <1>9, <1>10, <1>11, <1>12, <1>13 DEF GrantInv

(* The supervisor decides on a request: the call runs, or its card is shown. *)
LEMMA HandleToolRequestedKeepsGrants ==
  ASSUME GrantInv, HandleToolRequested
  PROVE  GrantInv'
<1>1. /\ lane # <<>> /\ Head(lane).kind = "tool_requested" /\ lane' = Tail(lane)
      /\ UNCHANGED <<pc, calls, left, armed, trusted, stamped, yes>>
  BY DEF HandleToolRequested, Takes, turnVars
<1>2. lane \in Seq(Event) BY DEF GrantInv, GrantType
<1>3. /\ 1 \in DOMAIN lane /\ Head(lane) = lane[1]
      /\ lane' \in Seq(Event)
      /\ \A i \in DOMAIN lane' :
           i \in Nat /\ i + 1 \in DOMAIN lane /\ i + 1 # 1 /\ lane'[i] = lane[i+1]
  BY <1>1, <1>2
<1>4. PICK a : a = Head(lane).call OBVIOUS
<1>5. /\ Undecided(a) /\ a \in DOMAIN calls
      /\ \A j \in DOMAIN lane : IsRequest(j) /\ lane[j].call = a => j = 1
      /\ \A s \in Sessions : \A k \in DOMAIN left[s] : left[s][k] # a
  BY <1>1, <1>3, <1>4 DEF GrantInv, RequestInv, IsRequest, Undecided
<1>6. a \in Ids BY <1>5, GateAssumption DEF GrantInv, GrantType, Ids
<1>7. \/ RunsFreely(a) /\ ran' = [ran EXCEPT ![a] = @ + 1] /\ UNCHANGED <<pending, shown>>
      \/ pending' = pending \cup {a} /\ shown' = shown \cup {a} /\ ran' = ran
  BY <1>4 DEF HandleToolRequested, Dispatch
<1>8. /\ ran' \in [Ids -> Nat] /\ \A b \in Ids \ {a} : ran'[b] = ran[b]
      /\ ran'[a] \in {0, 1}
      /\ pending' \subseteq DOMAIN calls /\ shown' \subseteq DOMAIN calls
      /\ \A b : b # a => (b \in pending' <=> b \in pending)
      /\ a \in pending' => ran'[a] = 0
  BY <1>5, <1>6, <1>7 DEF GrantInv, GrantType, Undecided
<1>9. DOMAIN calls \subseteq Ids BY GateAssumption DEF GrantInv, GrantType, Ids
<1>10. \A b : b # a /\ Undecided(b) => Undecided(b)'
  BY <1>1, <1>8, <1>9 DEF Undecided
<1>11. GrantType'
  BY <1>1, <1>3, <1>8 DEF GrantInv, GrantType
<1>12. LeftInv'
  BY <1>1, <1>5, <1>10 DEF GrantInv, LeftInv, Owner
<1>13. RequestInv'
  <2> SUFFICES ASSUME NEW i \in DOMAIN lane', lane'[i].kind = "tool_requested"
               PROVE  /\ Undecided(lane[i].call)'
                      /\ \A j \in DOMAIN lane' : lane'[j].kind = "tool_requested"
                           /\ lane'[i].call = lane'[j].call => i = j
                      /\ \A s \in Sessions : \A k \in DOMAIN left[s] :
                           left[s][k] # lane'[i].call
    BY <1>1 DEF RequestInv, IsRequest
  <2>1. IsRequest(i + 1) /\ lane[i+1].call # a BY <1>3, <1>5 DEF IsRequest
  <2>2. PICK b : b = lane[i+1].call OBVIOUS
  <2>3. Undecided(b)' BY <1>3, <1>10, <2>1, <2>2 DEF GrantInv, RequestInv
  <2>4. \A j \in DOMAIN lane' : lane'[j].kind = "tool_requested"
                               /\ lane'[i].call = lane'[j].call => i + 1 = j + 1
    BY <1>3, <2>1 DEF GrantInv, RequestInv, IsRequest
  <2>5. \A j \in DOMAIN lane' : i + 1 = j + 1 => i = j BY <1>3
  <2>6. \A s \in Sessions : \A k \in DOMAIN left[s] : left[s][k] # lane'[i].call
    BY <1>3, <2>1 DEF GrantInv, RequestInv
  <2>7. Undecided(lane[i].call)' BY <2>2, <2>3, <1>3 DEF Undecided
  <2>8. QED BY <2>4, <2>5, <2>6, <2>7
<1>14. ApprovalInv'
  BY <1>1, <1>3 DEF GrantInv, ApprovalInv, Owner
<1>15. RunInv'
  <2>1. /\ \A b \in pending' : ran'[b] = 0
        /\ \A b \in Ids : ran'[b] > 0 => b \in DOMAIN calls'
        /\ yes' \subseteq DOMAIN calls'
        /\ \A b \in stamped' : b \in yes' /\ calls'[b].tool = "elevate"
    BY <1>1, <1>5, <1>8, <1>9 DEF GrantInv, RunInv
  <2>2. CallRunsAtMostOnce'
    BY <1>8 DEF GrantInv, RunInv, CallRunsAtMostOnce
  <2>3. ran'[a] > 0 => RunsFreely(a)
    BY <1>5, <1>7 DEF Undecided
  <2>4. GuardedRunHasAGrant'
    BY <1>1, <1>8, <1>9, <2>3
    DEF GrantInv, GrantType, RunInv, GuardedRunHasAGrant, RunsFreely, Owner
  <2>5. QED BY <2>1, <2>2, <2>4 DEF RunInv
<1>16. QED BY <1>11, <1>12, <1>13, <1>14, <1>15 DEF GrantInv

(* An answer that matches a card decides the call; another changes nothing.  *)
LEMMA HandleUserApprovalKeepsGrants ==
  ASSUME GrantInv, HandleUserApproval
  PROVE  GrantInv'
<1>1. /\ lane # <<>> /\ Head(lane).kind = "user_approval" /\ lane' = Tail(lane)
      /\ UNCHANGED <<pc, calls, left, armed, trusted, yes, no, shown>>
  BY DEF HandleUserApproval, Takes, turnVars, opVars
<1>2. lane \in Seq(Event) BY DEF GrantInv, GrantType
<1>3. CASE ran' = ran /\ stamped' = stamped /\ pending' \subseteq pending
  <2>1. LaneShrinks BY <1>1 DEF LaneShrinks
  <2>2. /\ left' \in [Sessions -> Seq(Nat)] /\ pc' \in [Sessions -> Places]
        /\ armed' \cup trusted' \subseteq Goals
        /\ armed' \cup trusted' # {} => \E a \in yes : calls[a].tool = "elevate"
    BY <1>1 DEF GrantInv, GrantType, RunInv, GuardedRunHasAGrant
  <2>3. Quiet BY <1>1, <1>3, <2>1, <2>2 DEF Quiet, GrantInv, GrantType
  <2>4. QED BY <2>3, QuietStep
<1>4. CASE /\ Matches(Head(lane)) /\ Head(lane).granted
           /\ pending' = pending \ {Head(lane).call}
           /\ stamped' = IF calls[Head(lane).call].tool = "elevate"
                           THEN stamped \cup {Head(lane).call} ELSE stamped
           /\ ran' = [ran EXCEPT ![Head(lane).call] = @ + 1]
  <2>1. /\ 1 \in DOMAIN lane /\ Head(lane) = lane[1]
        /\ lane' \in Seq(Event)
        /\ \A i \in DOMAIN lane' :
             i \in Nat /\ i + 1 \in DOMAIN lane /\ lane'[i] = lane[i+1]
    BY <1>1, <1>2
  <2>2. PICK a : a = Head(lane).call OBVIOUS
  <2>3. a \in pending /\ a \in yes /\ a \in DOMAIN calls /\ ran[a] = 0
    BY <1>1, <1>4, <2>1, <2>2 DEF GrantInv, GrantType, ApprovalInv, RunInv, Matches
  <2>4. a \in Ids /\ DOMAIN calls \subseteq Ids
    BY <2>3, GateAssumption DEF GrantInv, GrantType, Ids
  <2>5. /\ ran' \in [Ids -> Nat] /\ ran'[a] = 1 /\ \A b \in Ids \ {a} : ran'[b] = ran[b]
        /\ pending' = pending \ {a}
        /\ stamped' \subseteq stamped \cup {a}
        /\ a \in stamped' => a \in stamped \/ calls[a].tool = "elevate"
    BY <1>4, <2>2, <2>3, <2>4 DEF GrantInv, GrantType
  <2>6. \A b : Undecided(b) => b # a /\ Undecided(b)'
    BY <1>1, <2>3, <2>4, <2>5 DEF Undecided
  <2>7. GrantType' BY <1>1, <2>1, <2>5 DEF GrantInv, GrantType
  <2>8. LeftInv' BY <1>1, <2>6 DEF GrantInv, LeftInv, Owner
  <2>9. RequestInv'
    <3> SUFFICES ASSUME NEW i \in DOMAIN lane', lane'[i].kind = "tool_requested"
                 PROVE  /\ Undecided(lane[i].call)'
                        /\ \A j \in DOMAIN lane' : lane'[j].kind = "tool_requested"
                             /\ lane'[i].call = lane'[j].call => i = j
                        /\ \A s \in Sessions : \A k \in DOMAIN left[s] :
                             left[s][k] # lane'[i].call
      BY <1>1 DEF RequestInv, IsRequest
    <3>1. IsRequest(i + 1) BY <2>1 DEF IsRequest
    <3>2. PICK b : b = lane[i+1].call OBVIOUS
    <3>3. Undecided(b)' BY <2>1, <2>6, <3>1, <3>2 DEF GrantInv, RequestInv
    <3>4. \A j \in DOMAIN lane' : lane'[j].kind = "tool_requested"
                                 /\ lane'[i].call = lane'[j].call => i + 1 = j + 1
      BY <2>1, <3>1 DEF GrantInv, RequestInv, IsRequest
    <3>5. \A j \in DOMAIN lane' : i + 1 = j + 1 => i = j BY <2>1
    <3>6. \A s \in Sessions : \A k \in DOMAIN left[s] : left[s][k] # lane'[i].call
      BY <2>1, <3>1 DEF GrantInv, RequestInv
    <3>7. Undecided(lane[i].call)' BY <3>2, <3>3, <2>1 DEF Undecided
    <3>8. QED BY <3>4, <3>5, <3>6, <3>7
  <2>10. ApprovalInv'
    BY <1>1, <2>1 DEF GrantInv, ApprovalInv, Owner
  <2>11. RunInv'
    <3>1. /\ \A b \in pending' : ran'[b] = 0
          /\ \A b \in Ids : ran'[b] > 0 => b \in DOMAIN calls'
          /\ yes' \subseteq DOMAIN calls'
          /\ \A b \in stamped' : b \in yes' /\ calls'[b].tool = "elevate"
      BY <1>1, <2>3, <2>4, <2>5 DEF GrantInv, GrantType, RunInv
    <3>2. CallRunsAtMostOnce'
      BY <2>5 DEF GrantInv, RunInv, CallRunsAtMostOnce
    <3>3. GuardedRunHasAGrant'
      BY <1>1, <2>3, <2>4, <2>5 DEF GrantInv, RunInv, GuardedRunHasAGrant, Owner
    <3>4. QED BY <3>1, <3>2, <3>3 DEF RunInv
  <2>12. QED BY <2>7, <2>8, <2>9, <2>10, <2>11 DEF GrantInv
<1>5. QED
  BY <1>3, <1>4 DEF HandleUserApproval, Dispatch

(* What a client sends is recorded as a grant when it would match.           *)
LEMMA AnswerKeepsGrants ==
  ASSUME GrantInv, NEW s \in Sessions, NEW a \in Ids, NEW granted \in BOOLEAN,
         NEW nonce \in {0, a}, Answer(s, a, granted, nonce)
  PROVE  GrantInv'
<1> DEFINE e == UserApproval(s, a, granted, nonce)
<1>1. /\ lane' = Append(lane, e) /\ a \in DOMAIN calls
      /\ UNCHANGED <<pc, calls, left, ran, pending, shown, armed, trusted, stamped>>
      /\ s = Owner(a) /\ nonce = a /\ granted => a \in yes'
      /\ yes \subseteq yes' /\ yes' \subseteq yes \cup {a}
  BY DEF Answer, Emit, turnVars, gateVars, GrantInv, GrantType
<1>2. /\ e \in Event /\ e.kind = "user_approval" /\ e.call = a /\ e.session = s
      /\ e.granted = granted /\ e.nonce = nonce
  BY DEF UserApproval, Event
<1> HIDE DEF e
<1>3. /\ lane' \in Seq(Event)
      /\ DOMAIN lane' = DOMAIN lane \cup {Len(lane) + 1}
      /\ \A i \in DOMAIN lane : lane'[i] = lane[i]
      /\ lane'[Len(lane) + 1] = e
  BY <1>1, <1>2 DEF GrantInv, GrantType
<1>4. GrantType' BY <1>1, <1>3 DEF GrantInv, GrantType
<1>5. LeftInv' BY <1>1 DEF GrantInv, LeftInv, Owner, Undecided
<1>6. RequestInv'
  BY <1>1, <1>2, <1>3 DEF GrantInv, RequestInv, IsRequest, Undecided
<1>7. ApprovalInv'
  <2>1. ASSUME NEW i \in DOMAIN lane', lane'[i].kind = "user_approval"
        PROVE  /\ lane'[i].call \in DOMAIN calls
               /\ lane'[i].granted /\ lane'[i].session = Owner(lane'[i].call)
                    /\ lane'[i].nonce = lane'[i].call => lane'[i].call \in yes'
    <3>1. CASE i \in DOMAIN lane
      BY <3>1, <2>1, <1>1, <1>3 DEF GrantInv, ApprovalInv
    <3>2. CASE i = Len(lane) + 1
      BY <3>2, <1>1, <1>2, <1>3
    <3>3. QED BY <3>1, <3>2, <1>3
  <2>2. QED BY <2>1, <1>1 DEF ApprovalInv, Owner
<1>8. RunInv'
  BY <1>1 DEF GrantInv, RunInv, CallRunsAtMostOnce, GuardedRunHasAGrant, Owner
<1>9. QED BY <1>4, <1>5, <1>6, <1>7, <1>8 DEF GrantInv

(* A call that was made has an id, and an owner among the sessions.          *)
LEMMA CallHasOwner ==
  ASSUME GrantInv, NEW STATE a, a \in DOMAIN calls
  PROVE  a \in Ids /\ Owner(a) \in Sessions
<1>1. calls \in Seq(Call) /\ Len(calls) \in Nat /\ Len(calls) <= MaxCalls
      /\ DOMAIN calls = 1..Len(calls)
  BY DEF GrantInv, GrantType
<1>2. calls[a] \in Call BY <1>1
<1>3. Owner(a) \in Sessions BY <1>2 DEF Call, Owner
<1>4. a \in Ids BY <1>1, GateAssumption DEF Ids
<1>5. QED BY <1>3, <1>4

(* The steps of a turn that neither announce nor decide anything.            *)
LEMMA TurnIsQuiet ==
  ASSUME GrantInv, WorkInv, NEW s \in Sessions,
         \/ StartTurn(s) \/ Receive(s) \/ Report(s) \/ AbortLands(s)
         \/ \E flag \in BOOLEAN : GiveUp(s, flag) \/ EndTurn(s, flag)
  PROVE  Quiet
<1>1. /\ pc \in [Sessions -> Places] /\ left \in [Sessions -> Seq(Nat)] /\ armed \cup trusted \subseteq Goals
      /\ armed \cup trusted # {} => \E a \in yes : calls[a].tool = "elevate"
  BY DEF GrantInv, GrantType, RunInv, GuardedRunHasAGrant
<1>2. CASE StartTurn(s)
  <2>1. LaneShrinks BY <1>2 DEF StartTurn, LaneShrinks
  <2>2. QED BY <1>1, <1>2, <2>1 DEF Quiet, StartTurn, gateVars, opVars, Places
<1>3. CASE Receive(s)
  <2>1. LaneShrinks BY <1>3 DEF Receive, LaneShrinks
  <2>2. QED BY <1>1, <1>3, <2>1 DEF Quiet, Receive, gateVars, opVars, Places
<1>4. CASE Report(s)
  <2>1. origin[s] \in DOMAIN calls /\ s \in Children BY <1>4 DEF Report, WorkInv
  <2>2. PICK a \in Ids : a = origin[s] /\ Owner(a) \in Sessions
    BY <2>1, CallHasOwner
  <2>3. \A out \in Outs : ToolResult(Owner(a), a, out) \in Event
                         /\ ToolResult(Owner(a), a, out).kind = "tool_result"
    BY <2>2 DEF ToolResult, Event
  <2>4. PICK out \in Outs : lane' = Append(lane, ToolResult(Owner(a), a, out))
    BY <1>4, <2>2 DEF Report, Emit, Outs
  <2>5. LaneShrinks BY <2>3, <2>4 DEF LaneShrinks
  <2>6. QED BY <1>1, <1>4, <2>5 DEF Quiet, Report, gateVars, opVars, Places
<1>5. CASE AbortLands(s)
  <2>1. LaneShrinks BY <1>5 DEF AbortLands, LaneShrinks
  <2>2. <<>> \in Seq(Nat) OBVIOUS
  <2>3. /\ left' = [left EXCEPT ![s] = <<>>] /\ pc' = [pc EXCEPT ![s] = "off"]
        /\ UNCHANGED <<calls, ran, yes, no, stamped, shown, pending, armed, trusted>>
    BY <1>5 DEF AbortLands, gateVars, opVars
  <2>4. /\ left' \in [Sessions -> Seq(Nat)] /\ pc' \in [Sessions -> Places]
        /\ \A t \in Sessions : left'[t] = left[t] \/ left'[t] = <<>>
        /\ \A t \in Sessions : pc'[t] = "announce" => pc[t] = "announce" /\ left'[t] = left[t]
    BY <1>1, <2>2, <2>3 DEF Places
  <2>5. QED BY <1>1, <2>1, <2>3, <2>4 DEF Quiet
<1>6. ASSUME NEW flag \in BOOLEAN, GiveUp(s, flag)
      PROVE  Quiet
  <2>1. LaneShrinks BY <1>6 DEF GiveUp, StopWaiting, LaneShrinks
  <2>2. QED BY <1>1, <1>6, <2>1 DEF Quiet, GiveUp, StopWaiting, gateVars, opVars, Places
<1>7. ASSUME NEW flag \in BOOLEAN, EndTurn(s, flag)
      PROVE  Quiet
  <2>1. TurnComplete(s) \in Event /\ TurnComplete(s).kind = "turn_complete"
    BY DEF TurnComplete, Event
  <2>2. LaneShrinks BY <1>7, <2>1 DEF EndTurn, LaneShrinks
  <2>3. QED BY <1>1, <1>7, <2>2 DEF Quiet, EndTurn, gateVars, opVars, Places
<1>8. QED BY <1>2, <1>3, <1>4, <1>5, <1>6, <1>7

(* The other quiet steps: purges, results, detached tasks, the router, and   *)
(* the operators' cancels.                                                   *)
LEMMA SystemIsQuiet ==
  ASSUME GrantInv, WorkInv,
         \/ HandlePurge("user_cancel") \/ HandlePurge("turn_complete") \/ HandleToolResult
         \/ \E a \in Ids : \/ \E out \in {"ok", "error"} : ToolFinishes(a, out)
                           \/ AnswerNegatively(a) \/ EmitSpawnAgent(a)
         \/ \E w \in Goals : Arm(w) \/ Disarm(w) \/ \E s \in Sessions : FanOut(s, w)
         \/ RouteCancel \/ RouteSpawn
         \/ \E s \in Roots : UserCancel(s)
  PROVE  Quiet
<1>1. /\ pc \in [Sessions -> Places] /\ left \in [Sessions -> Seq(Nat)] /\ armed \cup trusted \subseteq Goals
      /\ armed \cup trusted # {} => \E a \in yes : calls[a].tool = "elevate"
  BY DEF GrantInv, GrantType, RunInv, GuardedRunHasAGrant
<1>2. ASSUME NEW kind \in {"user_cancel", "turn_complete"}, HandlePurge(kind)
      PROVE  Quiet
  <2>1. LaneShrinks BY <1>2 DEF HandlePurge, Takes, LaneShrinks
  <2>2. pending' \subseteq pending BY <1>2 DEF HandlePurge, PurgeSession
  <2>3. QED BY <1>1, <1>2, <2>1, <2>2 DEF Quiet, HandlePurge, turnVars, opVars
<1>3. CASE HandleToolResult
  <2>1. LaneShrinks BY <1>3 DEF HandleToolResult, Takes, LaneShrinks
  <2>2. QED BY <1>1, <1>3, <2>1 DEF Quiet, HandleToolResult, turnVars, opVars
<1>4. ASSUME NEW a \in Ids, job[a] # "none"
      PROVE  \A out \in Outs : ToolResult(Owner(a), a, out) \in Event
                             /\ ToolResult(Owner(a), a, out).kind = "tool_result"
  <2>1. a \in DOMAIN calls BY <1>4 DEF WorkInv
  <2>2. Owner(a) \in Sessions BY <2>1, CallHasOwner
  <2>3. QED BY <2>2 DEF ToolResult, Event
<1>5. ASSUME NEW a \in Ids, NEW out \in {"ok", "error"}, ToolFinishes(a, out)
      PROVE  Quiet
  <2>1. LaneShrinks BY <1>4, <1>5 DEF ToolFinishes, Emit, Outs, LaneShrinks
  <2>2. \/ armed' = armed /\ trusted' = trusted
        \/ a \in stamped /\ \E g \in Goals : armed' = armed \cup {g} /\ trusted' = trusted \cup {g}
    BY <1>5 DEF ToolFinishes
  <2>3. armed' \cup trusted' \subseteq Goals /\ (armed' \cup trusted' # {} => \E b \in yes : calls[b].tool = "elevate")
    BY <1>1, <2>2 DEF GrantInv, RunInv
  <2>4. QED BY <1>1, <1>5, <2>1, <2>3 DEF Quiet, ToolFinishes, turnVars, opVars
<1>6. ASSUME NEW a \in Ids, AnswerNegatively(a)
      PROVE  Quiet
  <2>1. LaneShrinks BY <1>4, <1>6 DEF AnswerNegatively, Emit, Outs, LaneShrinks
  <2>2. QED BY <1>1, <1>6, <2>1 DEF Quiet, AnswerNegatively, turnVars, gateVars, opVars
<1>7. ASSUME NEW a \in Ids, EmitSpawnAgent(a)
      PROVE  Quiet
  <2>1. LaneShrinks BY <1>7 DEF EmitSpawnAgent, LaneShrinks
  <2>2. QED BY <1>1, <1>7, <2>1 DEF Quiet, EmitSpawnAgent, turnVars, gateVars, opVars
<1>8. ASSUME NEW w \in Goals, Arm(w) \/ Disarm(w) \/ \E s \in Sessions : FanOut(s, w)
      PROVE  Quiet
  <2>1. LaneShrinks BY <1>8 DEF Arm, Disarm, FanOut, LaneShrinks
  <2>2. /\ armed' \cup trusted' \subseteq armed \cup trusted \cup {w}
        /\ armed \cup trusted # {}
    BY <1>8 DEF Arm, Disarm, FanOut
  <2>3. UNCHANGED <<pc, calls, left, ran, yes, no, stamped, shown, pending>>
    BY <1>8 DEF Arm, Disarm, FanOut, turnVars, opVars
  <2>4. QED BY <1>1, <2>1, <2>2, <2>3 DEF Quiet
<1>9. CASE RouteCancel
  <2>1. LaneShrinks BY <1>9 DEF RouteCancel, LaneShrinks
  <2>2. QED BY <1>1, <1>9, <2>1 DEF Quiet, RouteCancel, gateVars, opVars
<1>10. CASE RouteSpawn
  <2>1. LaneShrinks BY <1>10 DEF RouteSpawn, LaneShrinks
  <2>2. \/ pc' = pc
        \/ \E c \in Children : pc' = [pc EXCEPT ![c] = "think"]
    BY <1>10 DEF RouteSpawn
  <2>3. /\ pc' \in [Sessions -> Places]
        /\ \A s \in Sessions : pc'[s] = "announce" => pc[s] = "announce"
    BY <1>1, <2>2 DEF Places
  <2>4. UNCHANGED <<calls, left, ran, yes, no, stamped, shown, pending, armed, trusted>>
    BY <1>10 DEF RouteSpawn, gateVars, opVars
  <2>5. QED BY <1>1, <2>1, <2>3, <2>4 DEF Quiet
<1>11. ASSUME NEW s \in Roots, UserCancel(s)
       PROVE  Quiet
  <2>1. Cancel(s) \in Event /\ Cancel(s).kind = "user_cancel"
    BY DEF Cancel, Event, Sessions
  <2>2. LaneShrinks BY <1>11, <2>1 DEF UserCancel, LaneShrinks
  <2>3. QED BY <1>1, <1>11, <2>2 DEF Quiet, UserCancel, turnVars, gateVars
<1>12. QED BY <1>2, <1>3, <1>5, <1>6, <1>7, <1>8, <1>9, <1>10, <1>11

(* Calls are never forgotten.                                                *)
LEMMA CallsGrow ==
  ASSUME GrantInv, Next
  PROVE  DOMAIN calls \subseteq DOMAIN calls'
<1>1. ASSUME NEW s \in Sessions, NEW batch \in Batches, RequestTools(s, batch)
      PROVE  DOMAIN calls \subseteq DOMAIN calls'
  <2> DEFINE add == [k \in DOMAIN batch |-> [session |-> s, tool |-> batch[k]]]
  <2>1. calls' = calls \o add BY <1>1 DEF RequestTools
  <2>2. calls \in Seq(Call) BY DEF GrantInv, GrantType
  <2>3. batch \in Seq(Tools) /\ Len(batch) \in Nat \ {0} /\ DOMAIN batch = 1..Len(batch)
    BY BatchIsSequence
  <2>4. add \in Seq(Call) BY <2>3 DEF Call
  <2> HIDE DEF add
  <2>5. DOMAIN calls \subseteq DOMAIN (calls \o add) BY <2>2, <2>4
  <2>6. QED BY <2>1, <2>5
<1>2. CASE \A s \in Sessions : \A batch \in Batches : ~RequestTools(s, batch)
  <2>1. CASE \E s \in Sessions : StartTurn(s) \/ TurnStep(s)
    BY <1>2, <2>1 DEF StartTurn, TurnStep, TimelyStep, ProviderStep, Announce, Receive, GiveUp, StopWaiting,
       EndTurn, Report, AbortLands
  <2>2. CASE Supervise
    BY <2>2 DEF Supervise, HandleToolRequested, HandleUserApproval, HandlePurge, HandleToolResult,
       turnVars
  <2>3. CASE \E a \in Ids :
               \/ \E out \in {"ok", "error"} : ToolFinishes(a, out)
               \/ AnswerNegatively(a) \/ EmitSpawnAgent(a)
               \/ \E s \in Sessions, granted \in BOOLEAN, nonce \in {0, a} :
                    Answer(s, a, granted, nonce)
    BY <2>3 DEF ToolFinishes, AnswerNegatively, EmitSpawnAgent, Answer, turnVars
  <2>4. CASE \/ \E w \in Goals : Arm(w) \/ Disarm(w) \/ \E s \in Sessions : FanOut(s, w)
             \/ RouteCancel \/ RouteSpawn
             \/ \E s \in Roots : UserCancel(s)
    BY <2>4 DEF Arm, Disarm, FanOut, RouteCancel, RouteSpawn, UserCancel, turnVars
  <2>5. QED BY <2>1, <2>2, <2>3, <2>4 DEF Next
<1>3. QED BY <1>1, <1>2

(* Work is done only for calls that exist.                                   *)
LEMMA WorkKept ==
  ASSUME GrantInv, WorkInv, Next
  PROVE  WorkInv'
<1>1. DOMAIN calls \subseteq DOMAIN calls' BY CallsGrow
<1>2. pc \in [Sessions -> Places] /\ Roots \cap Children = {}
  BY GateAssumption DEF GrantInv, GrantType
<1>3. ASSUME NEW s \in Sessions, StartTurn(s) \/ TurnStep(s)
      PROVE  WorkInv'
  <2>1. UNCHANGED <<job, origin, router>>
    BY <1>3 DEF StartTurn, TurnStep, TimelyStep, ProviderStep, RequestTools, Announce, Receive, GiveUp, StopWaiting, EndTurn, Report,
       AbortLands, treeVars
  <2>2. \A c \in Children : pc'[c] # "off" => pc[c] # "off"
    <3>1. \/ s \in Roots /\ pc' = [pc EXCEPT ![s] = "think"]
          \/ \E x \in Places : (pc[s] # "off" \/ x = "off") /\ pc' = [pc EXCEPT ![s] = x]
      BY <1>3 DEF StartTurn, TurnStep, TimelyStep, ProviderStep, RequestTools, Announce, Receive, GiveUp, StopWaiting, EndTurn, Report,
         AbortLands, Places
    <3>2. QED BY <3>1, <1>2 DEF Sessions
  <2>3. QED BY <1>1, <2>1, <2>2 DEF WorkInv
<1>4. CASE HandleToolRequested
  <2>1. lane # <<>> /\ Head(lane).kind = "tool_requested" /\ lane \in Seq(Event)
    BY <1>4 DEF HandleToolRequested, Takes, GrantInv, GrantType
  <2>2. 1 \in DOMAIN lane /\ Head(lane) = lane[1] BY <2>1
  <2>3. Head(lane).call \in DOMAIN calls
    BY <2>1, <2>2 DEF GrantInv, RequestInv, IsRequest, Undecided
  <2>4. \E x \in {"run", "spawn"} : job' = job \/ job' = [job EXCEPT ![Head(lane).call] = x]
    BY <1>4 DEF HandleToolRequested, Dispatch
  <2>5. UNCHANGED <<pc, origin, router>>
    BY <1>4 DEF HandleToolRequested, turnVars, treeVars
  <2>6. QED BY <1>1, <2>3, <2>4, <2>5 DEF WorkInv
<1>5. CASE HandleUserApproval
  <2>1. \/ job' = job
        \/ /\ Head(lane).call \in pending
           /\ \E x \in {"run", "spawn", "decline"} : job' = [job EXCEPT ![Head(lane).call] = x]
    BY <1>5 DEF HandleUserApproval, Dispatch, Matches
  <2>2. UNCHANGED <<pc, origin, router>>
    BY <1>5 DEF HandleUserApproval, turnVars, treeVars
  <2>3. QED BY <1>1, <2>1, <2>2 DEF WorkInv, GrantInv, GrantType
<1>6. CASE HandlePurge("user_cancel") \/ HandlePurge("turn_complete") \/ HandleToolResult
  <2>1. UNCHANGED <<pc, job, origin, router>>
    BY <1>6 DEF HandlePurge, HandleToolResult, turnVars, treeVars
  <2>2. QED BY <1>1, <2>1 DEF WorkInv
<1>7. ASSUME NEW a \in Ids,
             (\E out \in {"ok", "error"} : ToolFinishes(a, out)) \/ AnswerNegatively(a)
      PROVE  WorkInv'
  <2>1. UNCHANGED <<pc, origin, router>> /\ job' = [job EXCEPT ![a] = "none"]
    BY <1>7 DEF ToolFinishes, AnswerNegatively, turnVars, treeVars
  <2>2. QED BY <1>1, <2>1 DEF WorkInv
<1>8. ASSUME NEW a \in Ids, EmitSpawnAgent(a)
      PROVE  WorkInv'
  <2>1. /\ UNCHANGED <<pc, origin>> /\ job' = [job EXCEPT ![a] = "none"]
        /\ router' = Append(router, SpawnAgent(Owner(a), a)) /\ job[a] = "spawn"
    BY <1>8 DEF EmitSpawnAgent, turnVars, treeVars
  <2>2. a \in DOMAIN calls /\ Owner(a) \in Sessions
    BY <2>1, CallHasOwner DEF WorkInv
  <2> DEFINE e == SpawnAgent(Owner(a), a)
  <2>3. e \in Event /\ e.call = a BY <2>2 DEF SpawnAgent, Event
  <2> HIDE DEF e
  <2>4. router \in Seq(Event) /\ router' = Append(router, e) BY <2>1 DEF WorkInv, e
  <2>5. /\ router' \in Seq(Event)
        /\ \A i \in DOMAIN router' : router'[i] = e \/ (i \in DOMAIN router /\ router'[i] = router[i])
    BY <2>3, <2>4
  <2>6. QED BY <1>1, <2>1, <2>2, <2>3, <2>5 DEF WorkInv
<1>9. ASSUME NEW a \in Ids, NEW s \in Sessions, NEW granted \in BOOLEAN, NEW nonce \in {0, a},
             Answer(s, a, granted, nonce)
      PROVE  WorkInv'
  <2>1. UNCHANGED <<pc, job, origin, router>> BY <1>9 DEF Answer, turnVars, treeVars
  <2>2. QED BY <1>1, <2>1 DEF WorkInv
<1>10. ASSUME NEW w \in Goals, Arm(w) \/ Disarm(w) \/ \E s \in Sessions : FanOut(s, w)
       PROVE  WorkInv'
  <2>1. UNCHANGED <<pc, calls, job, origin, router>>
    BY <1>10 DEF Arm, Disarm, FanOut, turnVars, treeVars
  <2>2. QED BY <1>1, <2>1 DEF WorkInv
<1>11. ASSUME RouteCancel \/ RouteSpawn
       PROVE  /\ router # <<>> /\ router' \in Seq(Event) /\ Head(router) = router[1]
              /\ 1 \in DOMAIN router
              /\ \A i \in DOMAIN router' : i + 1 \in DOMAIN router /\ router'[i] = router[i+1]
  <2>1. router \in Seq(Event) /\ router # <<>> /\ router' = Tail(router)
    BY <1>11 DEF RouteCancel, RouteSpawn, WorkInv
  <2>2. QED BY <2>1
<1>12. CASE RouteCancel
  <2>1. UNCHANGED <<pc, job, origin>> BY <1>12 DEF RouteCancel, treeVars
  <2>2. QED BY <1>1, <1>11, <1>12, <2>1 DEF WorkInv
<1>13. CASE RouteSpawn
  <2>1. Head(router).kind = "spawn_agent" BY <1>13 DEF RouteSpawn
  <2>2. Head(router).call \in DOMAIN calls BY <1>11, <1>13, <2>1 DEF WorkInv
  <2>3. PICK a \in Ids : a = Head(router).call /\ a \in DOMAIN calls
    BY <2>2, CallHasOwner
  <2>4. \/ job' = [job EXCEPT ![a] = "refuse"] /\ UNCHANGED <<pc, origin>>
        \/ /\ job' = job
           /\ \E c \in Children : origin' = [origin EXCEPT ![c] = a]
                                /\ pc' = [pc EXCEPT ![c] = "think"]
    BY <1>13, <2>3 DEF RouteSpawn, treeVars
  <2>5. \A c \in Children : pc'[c] # "off" => origin'[c] \in DOMAIN calls
    BY <1>2, <2>3, <2>4 DEF WorkInv, Sessions
  <2>6. /\ job' \in [Ids -> {"none", "run", "decline", "spawn", "refuse"}]
        /\ \A b \in Ids : job'[b] # "none" => b \in DOMAIN calls
        /\ origin' \in [Children -> {0} \cup Ids]
    BY <2>3, <2>4 DEF WorkInv
  <2>7. QED BY <1>1, <1>11, <1>13, <2>5, <2>6 DEF WorkInv
<1>14. ASSUME NEW s \in Roots, UserCancel(s)
       PROVE  WorkInv'
  <2> DEFINE e == Cancel(s)
  <2>1. UNCHANGED <<pc, job, origin>> /\ router' = Append(router, e)
    BY <1>14 DEF UserCancel, turnVars, treeVars
  <2>2. e \in Event /\ e.kind = "user_cancel" BY DEF Cancel, Event, Sessions
  <2> HIDE DEF e
  <2>3. router \in Seq(Event) BY DEF WorkInv
  <2>4. /\ router' \in Seq(Event)
        /\ \A i \in DOMAIN router' : router'[i] = e \/ (i \in DOMAIN router /\ router'[i] = router[i])
    BY <2>1, <2>2, <2>3
  <2>5. QED BY <1>1, <2>1, <2>2, <2>4 DEF WorkInv
<1>15. QED
  BY <1>3, <1>4, <1>5, <1>6, <1>7, <1>8, <1>9, <1>10, <1>12, <1>13, <1>14 DEF Next, Supervise

-----------------------------------------------------------------------------
(* Nothing is announced, pending or running at the start.                    *)
LEMMA GrantInit == Init => GrantInv /\ WorkInv
<1> SUFFICES ASSUME Init PROVE GrantInv /\ WorkInv OBVIOUS
<1>1. calls = <<>> /\ lane = <<>> /\ router = <<>> BY DEF Init
<1>2. /\ calls \in Seq(Call) /\ lane \in Seq(Event) /\ router \in Seq(Event)
      /\ DOMAIN calls = {} /\ DOMAIN lane = {} /\ DOMAIN router = {} /\ Len(calls) = 0
  BY <1>1
<1>3. /\ left \in [Sessions -> Seq(Nat)]
      /\ \A s \in Sessions : left[s] = <<>> /\ DOMAIN left[s] = {} /\ pc[s] = "off"
      /\ pc \in [Sessions -> Places]
  BY DEF Init, Places
<1>4. GrantType BY <1>2, <1>3, GateAssumption DEF Init, GrantType
<1>5. LeftInv /\ RequestInv /\ ApprovalInv
  BY <1>2, <1>3 DEF LeftInv, RequestInv, ApprovalInv
<1>6. RunInv BY <1>2 DEF Init, RunInv, CallRunsAtMostOnce, GuardedRunHasAGrant, Ids
<1>7. WorkInv BY <1>2, <1>3 DEF Init, WorkInv, Sessions
<1>8. QED BY <1>4, <1>5, <1>6, <1>7 DEF GrantInv

(* Every step keeps the invariant.                                           *)
LEMMA GrantInductive == GrantInv /\ WorkInv /\ [Next]_vars => (GrantInv /\ WorkInv)'
<1> SUFFICES ASSUME GrantInv, WorkInv, [Next]_vars PROVE (GrantInv /\ WorkInv)' OBVIOUS
<1>1. CASE Next
  <2>1. WorkInv' BY <1>1, WorkKept
  <2>2. ASSUME NEW s \in Sessions, StartTurn(s) \/ TurnStep(s)
        PROVE  GrantInv'
    BY <2>2, TurnIsQuiet, QuietStep, RequestToolsKeepsGrants, AnnounceKeepsGrants
       DEF TurnStep, TimelyStep, ProviderStep
  <2>3. ASSUME Supervise PROVE GrantInv'
    BY <2>3, HandleToolRequestedKeepsGrants, HandleUserApprovalKeepsGrants,
       SystemIsQuiet, QuietStep DEF Supervise
  <2>4. ASSUME NEW a \in Ids, NEW s \in Sessions, NEW granted \in BOOLEAN, NEW nonce \in {0, a},
               Answer(s, a, granted, nonce)
        PROVE  GrantInv'
    BY <2>4, AnswerKeepsGrants
  <2>5. ASSUME \/ \E a \in Ids : \/ \E out \in {"ok", "error"} : ToolFinishes(a, out)
                                 \/ AnswerNegatively(a) \/ EmitSpawnAgent(a)
               \/ \E w \in Goals : Arm(w) \/ Disarm(w) \/ \E s \in Sessions : FanOut(s, w)
               \/ RouteCancel \/ RouteSpawn
               \/ \E s \in Roots : UserCancel(s)
        PROVE  GrantInv'
    BY <2>5, SystemIsQuiet, QuietStep
  <2>6. GrantInv' BY <1>1, <2>2, <2>3, <2>4, <2>5 DEF Next
  <2>7. QED BY <2>1, <2>6
<1>2. CASE UNCHANGED vars
  <2>1. LaneShrinks BY <1>2 DEF vars, LaneShrinks
  <2>2. GrantInv'
    <3>1. Quiet
      BY <1>2, <2>1 DEF vars, Quiet, GrantInv, GrantType, RunInv, GuardedRunHasAGrant
    <3>2. QED BY <3>1, QuietStep
  <2>3. WorkInv' BY <1>2 DEF vars, WorkInv
  <2>4. QED BY <2>2, <2>3
<1>3. QED BY <1>1, <1>2

(* The inductive invariant holds in every reachable state.                   *)
THEOREM GrantInvariant == Spec => [](GrantInv /\ WorkInv)
  BY GrantInit, GrantInductive, PTL DEF Spec

(* Whatever clients answer and in whatever order the supervisor, the turns   *)
(* and the router run: a guarded tool runs only with an operator's grant.    *)
THEOREM GuardedRunsAreGranted == Spec => []GuardedRunHasAGrant
<1>1. GrantInv /\ WorkInv => GuardedRunHasAGrant BY DEF GrantInv, RunInv
<1>2. QED BY <1>1, GrantInvariant, PTL

(* No call is dispatched twice, however often its card is answered.          *)
THEOREM CallsRunAtMostOnce == Spec => []CallRunsAtMostOnce
<1>1. GrantInv /\ WorkInv => CallRunsAtMostOnce BY DEF GrantInv, RunInv
<1>2. QED BY <1>1, GrantInvariant, PTL

-----------------------------------------------------------------------------
(* What the model is told.  A result, a card and a belief are true when they *)
(* are sent and stay true: a run is never undone, a shown card was shown,    *)
(* and a declined call, once it is neither pending nor under way to the      *)
(* supervisor, can never run.                                                *)

\* x is an element of the sequence q.
In(x, q) == \E i \in DOMAIN q : q[i] = x

\* The supervisor has decided on a: it can neither be announced nor granted again.
Decided(a) ==
  /\ a \in DOMAIN calls /\ a \notin pending
  /\ \A x \in Event : In(x, lane) /\ x.kind = "tool_requested" => x.call # a
  /\ \A s \in Sessions : \A k \in DOMAIN left[s] : left[s][k] # a

Refused(a) == a \in no /\ ran[a] = 0 /\ Decided(a)

\* An event a turn hears tells the truth.
HeardTrue(e) ==
  /\ e.kind \in {"tool_result", "approval_pending", "user_approval"}
  /\ e.kind = "tool_result" => IF e.out = "declined" THEN Refused(e.call) ELSE ran[e.call] = 1
  /\ e.kind = "approval_pending" => e.call \in shown

InboxInv ==
  /\ inbox \in [Sessions -> Seq(Event)]
  /\ \A x \in Event : \A s \in Sessions : In(x, inbox[s]) => HeardTrue(x)

\* So does what works on a call.
JobInv ==
  /\ \A a \in Ids : /\ job[a] \in {"run", "spawn", "refuse"} => ran[a] = 1
                    /\ job[a] = "decline" => Refused(a)
  /\ \A x \in Event : In(x, router) /\ x.kind = "spawn_agent" => ran[x.call] = 1
  /\ \A c \in Children : origin[c] # 0 => origin[c] \in Ids /\ ran[origin[c]] = 1

\* A decline that names its call's session and nonce was given.
DeclineInv ==
  \A x \in Event :
    /\ In(x, lane) /\ x.kind = "user_approval" /\ ~x.granted
    /\ x.session = Owner(x.call) /\ x.nonce = x.call
    => x.call \in no

\* What a turn believes, and what the model was told.
BeliefInv ==
  /\ remaining \in [Sessions -> SUBSET DOMAIN calls]
  /\ phase \in [Ids -> Beliefs]
  /\ told \in [Ids -> {"nothing", "lagged"} \cup Beliefs \cup Outs]
  /\ \A a \in Ids :
       /\ phase[a] = "awaiting" => a \in shown
       /\ told[a] \in {"ok", "error"} => ran[a] = 1
       /\ told[a] = "declined" => Refused(a)
       /\ told[a] = "awaiting" => a \in shown

TruthInv == InboxInv /\ JobInv /\ DeclineInv /\ BeliefInv

\* The elements of a sequence that grows or shrinks at an end.
LEMMA InAppend ==
  ASSUME NEW S, NEW q \in Seq(S), NEW e \in S, NEW x
  PROVE  In(x, Append(q, e)) <=> In(x, q) \/ x = e
<1>1. /\ DOMAIN Append(q, e) = DOMAIN q \cup {Len(q) + 1}
      /\ \A i \in DOMAIN q : Append(q, e)[i] = q[i]
      /\ Append(q, e)[Len(q) + 1] = e
  OBVIOUS
<1>2. QED BY <1>1 DEF In

LEMMA InTail ==
  ASSUME NEW S, NEW q \in Seq(S), q # <<>>, NEW x
  PROVE  (In(x, Tail(q)) => In(x, q)) /\ In(Head(q), q) /\ Head(q) \in S
<1>1. /\ 1 \in DOMAIN q /\ Head(q) = q[1] /\ Head(q) \in S
      /\ \A i \in DOMAIN Tail(q) : i + 1 \in DOMAIN q /\ Tail(q)[i] = q[i+1]
  OBVIOUS
<1>2. QED BY <1>1 DEF In

\* What the fields of an event range over.
LEMMA EventFields ==
  ASSUME NEW x \in Event
  PROVE  /\ x.kind \in {"tool_requested", "approval_pending", "spawn_agent", "tool_result",
                        "user_approval", "user_cancel", "turn_complete"}
         /\ x.session \in Sessions
         /\ x.kind \notin {"user_cancel", "turn_complete"} => x.call \in Ids
         /\ x.kind = "tool_result" => x.out \in Outs
         /\ x.kind = "user_approval" => x.granted \in BOOLEAN
  BY DEF Event

\* Every step is quiet, or makes, announces, decides or answers calls.
LEMMA GateSteps ==
  ASSUME GrantInv, WorkInv, [Next]_vars
  PROVE  \/ Quiet
         \/ \E s \in Sessions : Announce(s) \/ \E batch \in Batches : RequestTools(s, batch)
         \/ HandleToolRequested \/ HandleUserApproval
         \/ \E a \in Ids, s \in Sessions, granted \in BOOLEAN : \E nonce \in {0, a} :
              Answer(s, a, granted, nonce)
<1>1. CASE UNCHANGED vars
  <2>1. LaneShrinks BY <1>1 DEF vars, LaneShrinks
  <2>2. QED BY <1>1, <2>1 DEF vars, Quiet, GrantInv, GrantType, RunInv, GuardedRunHasAGrant
<1>2. ASSUME NEW s \in Sessions, StartTurn(s) \/ TurnStep(s)
      PROVE  Quiet \/ Announce(s) \/ \E batch \in Batches : RequestTools(s, batch)
  BY <1>2, TurnIsQuiet DEF TurnStep, TimelyStep, ProviderStep
<1>3. ASSUME \/ HandlePurge("user_cancel") \/ HandlePurge("turn_complete") \/ HandleToolResult
             \/ \E a \in Ids : \/ \E out \in {"ok", "error"} : ToolFinishes(a, out)
                               \/ AnswerNegatively(a) \/ EmitSpawnAgent(a)
             \/ \E w \in Goals : Arm(w) \/ Disarm(w) \/ \E s \in Sessions : FanOut(s, w)
             \/ RouteCancel \/ RouteSpawn
             \/ \E s \in Roots : UserCancel(s)
      PROVE  Quiet
  BY <1>3, SystemIsQuiet
<1>4. CASE Next
  BY <1>2, <1>3, <1>4 DEF Next, Supervise
<1>5. QED BY <1>1, <1>4

\* The calls of a reply come after those there are.
LEMMA RequestToolsAdds ==
  ASSUME GrantInv, NEW s \in Sessions, NEW batch \in Batches, RequestTools(s, batch)
  PROVE  /\ DOMAIN calls \subseteq DOMAIN calls'
         /\ \A a \in DOMAIN calls : calls'[a] = calls[a]
         /\ \A k \in DOMAIN batch : Len(calls) + k \in DOMAIN calls' \ DOMAIN calls
         /\ UNCHANGED <<lane, ran, pending, shown, no>>
         /\ left' = [left EXCEPT ![s] = [k \in DOMAIN batch |-> Len(calls) + k]]
         /\ remaining' = [remaining EXCEPT ![s] = {Len(calls) + k : k \in DOMAIN batch}]
<1> DEFINE n == Len(calls)
           add == [k \in DOMAIN batch |-> [session |-> s, tool |-> batch[k]]]
           fresh == [k \in DOMAIN batch |-> n + k]
<1>1. batch \in Seq(Tools) /\ Len(batch) \in Nat \ {0} /\ DOMAIN batch = 1..Len(batch)
  BY BatchIsSequence
<1>2. n \in Nat /\ calls \in Seq(Call) /\ DOMAIN calls = 1..n
  BY DEF GrantInv, GrantType
<1>3. add \in Seq(Call) /\ Len(add) = Len(batch) BY <1>1 DEF Call
<1>4. /\ calls' = calls \o add /\ left' = [left EXCEPT ![s] = fresh]
      /\ remaining' = [remaining EXCEPT ![s] = {fresh[k] : k \in DOMAIN batch}]
      /\ UNCHANGED <<lane, ran, pending, shown, no>>
  BY DEF RequestTools, NextActionIds, gateVars, opVars
<1>5. {fresh[k] : k \in DOMAIN batch} = {n + k : k \in DOMAIN batch} OBVIOUS
<1> HIDE DEF add
<1>6. /\ Len(calls \o add) = n + Len(batch) /\ calls \o add \in Seq(Call)
      /\ \A a \in 1..n : (calls \o add)[a] = calls[a]
  BY <1>2, <1>3
<1>7. DOMAIN calls' = 1..(n + Len(batch)) BY <1>4, <1>6
<1>8. /\ DOMAIN calls \subseteq DOMAIN calls'
      /\ \A k \in DOMAIN batch : n + k \in DOMAIN calls' \ DOMAIN calls
  BY <1>1, <1>2, <1>7
<1>9. QED BY <1>2, <1>4, <1>5, <1>6, <1>8

\* Facts about a call outlive every step: its owner, that it ran, that its card was shown,
\* and that it was refused.
LEMMA FactsPersist ==
  ASSUME GrantInv, WorkInv, [Next]_vars
  PROVE  /\ DOMAIN calls \subseteq DOMAIN calls'
         /\ \A a \in DOMAIN calls : Owner(a)' = Owner(a)
         /\ shown \subseteq shown' /\ no \subseteq no'
         /\ \A a \in Ids : ran[a] = 1 => ran'[a] = 1
         /\ \A a \in Ids : Refused(a) => Refused(a)'
<1>0. GrantInv' BY GrantInductive
<1>t. /\ lane \in Seq(Event) /\ left \in [Sessions -> Seq(Nat)]
      /\ ran \in [Ids -> Nat] /\ ran' \in [Ids -> Nat] /\ \A a \in Ids : ran'[a] <= 1
  BY <1>0 DEF GrantInv, GrantType, RunInv, CallRunsAtMostOnce
<1>1. CASE Quiet
  <2>1. \A x \in Event : In(x, lane') /\ x.kind = "tool_requested" => In(x, lane)
    <3>1. CASE lane' = lane BY <3>1
    <3>2. CASE lane # <<>> /\ lane' = Tail(lane) BY <1>t, <3>2, InTail
    <3>3. CASE \E e \in Event : e.kind \notin {"tool_requested", "user_approval"}
                                /\ lane' = Append(lane, e)
      BY <1>t, <3>3, InAppend
    <3>4. QED BY <1>1, <3>1, <3>2, <3>3 DEF Quiet, LaneShrinks
  <2>2. \A a \in Ids : Refused(a) => Refused(a)'
    BY <1>1, <2>1 DEF Quiet, Refused, Decided
  <2>3. QED BY <1>1, <2>2 DEF Quiet, Owner
<1>2. ASSUME NEW s \in Sessions, NEW batch \in Batches, RequestTools(s, batch)
      PROVE  /\ DOMAIN calls \subseteq DOMAIN calls'
             /\ \A a \in DOMAIN calls : Owner(a)' = Owner(a)
             /\ UNCHANGED <<shown, no, ran>>
             /\ \A a \in Ids : Refused(a) => Refused(a)'
  <2>1. /\ DOMAIN calls \subseteq DOMAIN calls'
        /\ \A a \in DOMAIN calls : calls'[a] = calls[a]
        /\ \A k \in DOMAIN batch : Len(calls) + k \in DOMAIN calls' \ DOMAIN calls
        /\ UNCHANGED <<lane, ran, pending, shown, no>>
        /\ left' = [left EXCEPT ![s] = [k \in DOMAIN batch |-> Len(calls) + k]]
    BY <1>2, RequestToolsAdds
  <2>2. ASSUME NEW a \in DOMAIN calls, NEW t \in Sessions,
               \A k \in DOMAIN left[t] : left[t][k] # a
        PROVE  \A k \in DOMAIN left'[t] : left'[t][k] # a
    BY <1>t, <2>1, <2>2
  <2>3. \A a \in Ids : Refused(a) => Refused(a)'
    BY <2>1, <2>2 DEF Refused, Decided
  <2>4. QED BY <2>1, <2>3 DEF Owner
<1>3. ASSUME NEW s \in Sessions, Announce(s)
      PROVE  /\ UNCHANGED <<calls, shown, no, ran>>
             /\ \A a \in Ids : Refused(a) => Refused(a)'
  <2>1. /\ lane' = Append(lane, ToolRequested(s, Head(left[s]))) /\ pc[s] = "announce"
        /\ left' = [left EXCEPT ![s] = Tail(left[s])]
        /\ UNCHANGED <<calls, shown, no, ran, pending>>
    BY <1>3 DEF Announce, Emit, gateVars, opVars
  <2>2. left[s] \in Seq(Nat) /\ left[s] # <<>> BY <1>t, <2>1 DEF GrantInv, LeftInv
  <2>3. /\ 1 \in DOMAIN left[s] /\ Head(left[s]) = left[s][1]
        /\ \A i \in DOMAIN Tail(left[s]) : i + 1 \in DOMAIN left[s] /\ Tail(left[s])[i] = left[s][i+1]
    BY <2>2
  <2>4. PICK b \in Nat : b = left[s][1] BY <2>2, <2>3
  <2>5. b \in Ids
    <3>1. b \in DOMAIN calls BY <2>3, <2>4 DEF GrantInv, LeftInv, Undecided
    <3>2. QED BY <3>1, CallHasOwner
  <2>6. /\ ToolRequested(s, b) \in Event /\ ToolRequested(s, b).call = b
    BY <2>5 DEF ToolRequested, Event
  <2>7. lane' = Append(lane, ToolRequested(s, b)) BY <2>1, <2>3, <2>4
  <2>8. \A x \in Event : In(x, lane') => In(x, lane) \/ x = ToolRequested(s, b)
    BY <1>t, <2>6, <2>7, InAppend
  <2>9. ASSUME NEW a \in Ids, Refused(a) PROVE Refused(a)'
    <3>1. \A t \in Sessions : \A k \in DOMAIN left'[t] : left'[t][k] # a
      BY <1>t, <2>1, <2>3, <2>9 DEF Refused, Decided
    <3>2. b # a BY <2>3, <2>4, <2>9 DEF Refused, Decided
    <3>3. \A x \in Event : In(x, lane') /\ x.kind = "tool_requested" => x.call # a
      BY <2>6, <2>8, <2>9, <3>2 DEF Refused, Decided
    <3>4. QED BY <2>1, <2>9, <3>1, <3>3 DEF Refused, Decided
  <2>10. QED BY <2>1, <2>9
<1>4. CASE HandleToolRequested
  <2>1. /\ lane # <<>> /\ Head(lane).kind = "tool_requested" /\ lane' = Tail(lane)
        /\ UNCHANGED <<calls, left, no>>
        /\ \/ ran' = [ran EXCEPT ![Head(lane).call] = @ + 1] /\ UNCHANGED <<pending, shown>>
           \/ /\ pending' = pending \cup {Head(lane).call} /\ ran' = ran
              /\ shown' = shown \cup {Head(lane).call}
    BY <1>4 DEF HandleToolRequested, Takes, Dispatch, turnVars
  <2>2. In(Head(lane), lane) /\ Head(lane) \in Event
    BY <1>t, <2>1, InTail
  <2>3. \A x : In(x, lane') => In(x, lane) BY <1>t, <2>1, InTail
  <2>4. \A a \in Ids : ran[a] <= ran'[a] /\ (a # Head(lane).call => ran'[a] = ran[a])
    BY <1>t, <2>1
  <2>5. \A a \in Ids : Refused(a) => Refused(a)'
    <3>1. \A a \in Ids : Refused(a) => a # Head(lane).call
      BY <2>1, <2>2 DEF Refused, Decided
    <3>2. QED BY <2>1, <2>3, <2>4, <3>1 DEF Refused, Decided
  <2>6. \A a \in Ids : ran[a] = 1 => ran'[a] = 1 BY <1>t, <2>4
  <2>7. QED BY <2>1, <2>5, <2>6 DEF Owner
<1>5. CASE HandleUserApproval
  <2>1. /\ lane # <<>> /\ Head(lane).kind = "user_approval" /\ lane' = Tail(lane)
        /\ UNCHANGED <<calls, left, no, shown>> /\ pending' \subseteq pending
        /\ \/ ran' = [ran EXCEPT ![Head(lane).call] = @ + 1] /\ Head(lane).call \in pending
           \/ ran' = ran
    BY <1>5 DEF HandleUserApproval, Takes, Dispatch, Matches, turnVars, opVars
  <2>2. \A x : In(x, lane') => In(x, lane) BY <1>t, <2>1, InTail
  <2>3. \A a \in Ids : ran[a] <= ran'[a] /\ (a \notin pending => ran'[a] = ran[a])
    <3>1. ran \in [Ids -> Nat] BY <1>t
    <3>2. CASE ran' = ran BY <3>1, <3>2
    <3>3. CASE /\ ran' = [ran EXCEPT ![Head(lane).call] = @ + 1]
               /\ Head(lane).call \in pending
      BY <3>1, <3>3
    <3>4. QED BY <2>1, <3>2, <3>3
  <2>4. \A a \in Ids : Refused(a) => Refused(a)'
    BY <2>1, <2>2, <2>3 DEF Refused, Decided
  <2>5. \A a \in Ids : ran[a] = 1 => ran'[a] = 1 BY <1>t, <2>3
  <2>6. QED BY <2>1, <2>4, <2>5 DEF Owner
<1>6. ASSUME NEW b \in Ids, NEW s \in Sessions, NEW granted \in BOOLEAN, NEW nonce \in {0, b},
             Answer(s, b, granted, nonce)
      PROVE  /\ UNCHANGED <<calls, shown, ran>> /\ no \subseteq no'
             /\ \A a \in Ids : Refused(a) => Refused(a)'
  <2>1. /\ lane' = Append(lane, UserApproval(s, b, granted, nonce))
        /\ UNCHANGED <<calls, left, shown, ran, pending>> /\ no \subseteq no'
    BY <1>6 DEF Answer, Emit, turnVars, gateVars
  <2>2. /\ UserApproval(s, b, granted, nonce) \in Event
        /\ UserApproval(s, b, granted, nonce).kind = "user_approval"
    BY DEF UserApproval, Event
  <2>3. \A x \in Event : In(x, lane') /\ x.kind = "tool_requested" => In(x, lane)
    BY <1>t, <2>1, <2>2, InAppend
  <2>4. \A a \in Ids : Refused(a) => Refused(a)'
    BY <2>1, <2>3 DEF Refused, Decided
  <2>5. QED BY <2>1, <2>4
<1>7. QED
  BY <1>1, <1>2, <1>3, <1>4, <1>5, <1>6, GateSteps DEF Owner

\* A request in the lane is for a call nobody decided on.
LEMMA RequestsUndecided ==
  ASSUME GrantInv, NEW x \in Event, In(x, lane), x.kind = "tool_requested"
  PROVE  Undecided(x.call) /\ x.call \in Ids
<1>1. Undecided(x.call) BY DEF GrantInv, RequestInv, IsRequest, In
<1>2. QED BY <1>1, EventFields

\* What works on a call keeps telling the truth about it.
LEMMA JobsStayTrue ==
  ASSUME GrantInv, WorkInv, TruthInv, [Next]_vars
  PROVE  JobInv'
<1> USE DEF TruthInv
<1>0. /\ lane \in Seq(Event) /\ router \in Seq(Event) /\ ran \in [Ids -> Nat]
      /\ job \in [Ids -> {"none", "run", "decline", "spawn", "refuse"}]
      /\ origin \in [Children -> {0} \cup Ids]
  BY DEF GrantInv, GrantType, WorkInv
<1>p. /\ \A a \in Ids : ran[a] = 1 => ran'[a] = 1
      /\ \A a \in Ids : Refused(a) => Refused(a)'
  BY FactsPersist
<1>j. ASSUME job' = job \/ \E a \in Ids : job' = [job EXCEPT ![a] = "none"]
      PROVE  \A a \in Ids : /\ job'[a] \in {"run", "spawn", "refuse"} => ran'[a] = 1
                            /\ job'[a] = "decline" => Refused(a)'
  BY <1>0, <1>p, <1>j DEF JobInv
<1>r. ASSUME \A x \in Event : In(x, router') /\ x.kind = "spawn_agent" => In(x, router)
      PROVE  \A x \in Event : In(x, router') /\ x.kind = "spawn_agent" => ran'[x.call] = 1
  BY <1>p, <1>r, EventFields DEF JobInv
<1>o. ASSUME origin' = origin
      PROVE  \A c \in Children : origin'[c] # 0 => origin'[c] \in Ids /\ ran'[origin'[c]] = 1
  BY <1>0, <1>p, <1>o DEF JobInv
<1>1. ASSUME UNCHANGED <<job, router, origin>> PROVE JobInv'
  <2>1. \A x \in Event : In(x, router') => In(x, router) BY <1>1
  <2>2. QED BY <1>j, <1>r, <1>o, <1>1, <2>1 DEF JobInv
<1>2. ASSUME NEW s \in Sessions, StartTurn(s) \/ TurnStep(s)
      PROVE  UNCHANGED <<job, router, origin>>
  BY <1>2 DEF StartTurn, TurnStep, TimelyStep, ProviderStep, RequestTools, Announce, Receive, GiveUp, StopWaiting,
     EndTurn, Report, AbortLands, treeVars
<1>3. CASE HandleToolRequested
  <2>1. /\ lane # <<>> /\ Head(lane).kind = "tool_requested" /\ UNCHANGED <<router, origin>>
    BY <1>3 DEF HandleToolRequested, Takes, treeVars
  <2>2. In(Head(lane), lane) /\ Head(lane) \in Event BY <1>0, <2>1, InTail
  <2>3. PICK a \in Ids : a = Head(lane).call /\ ran[a] = 0
    BY <2>1, <2>2, RequestsUndecided DEF Undecided
  <2>4. CASE job' = job BY <1>1, <2>1, <2>4
  <2>5. CASE /\ \E k \in {"run", "spawn"} : job' = [job EXCEPT ![a] = k]
             /\ ran' = [ran EXCEPT ![a] = @ + 1]
    <3>1. ran'[a] = 1 BY <1>0, <2>3, <2>5
    <3>2. \A b \in Ids : /\ job'[b] \in {"run", "spawn", "refuse"} => ran'[b] = 1
                         /\ job'[b] = "decline" => Refused(b)'
      BY <1>0, <1>p, <2>5, <3>1 DEF JobInv
    <3>3. \A x \in Event : In(x, router') => In(x, router) BY <2>1
    <3>4. QED BY <1>r, <1>o, <2>1, <3>2, <3>3 DEF JobInv
  <2>6. QED BY <1>3, <2>3, <2>4, <2>5 DEF HandleToolRequested, Dispatch
<1>4. CASE HandleUserApproval
  <2>1. /\ lane # <<>> /\ Head(lane).kind = "user_approval" /\ lane' = Tail(lane)
        /\ UNCHANGED <<router, origin, calls, left, no>>
    BY <1>4 DEF HandleUserApproval, Takes, treeVars, turnVars, opVars
  <2>2. In(Head(lane), lane) /\ Head(lane) \in Event BY <1>0, <2>1, InTail
  <2>3. PICK e \in Event : e = Head(lane) /\ In(e, lane) BY <2>2
  <2>4. PICK a \in Ids : a = e.call BY <2>1, <2>3, EventFields
  <2>5. \A x \in Event : In(x, router') => In(x, router) BY <2>1
  <2>6. CASE job' = job BY <1>1, <2>1, <2>6
  <2>7. CASE /\ Matches(e) /\ ran' = [ran EXCEPT ![a] = @ + 1]
             /\ \E k \in {"run", "spawn"} : job' = [job EXCEPT ![a] = k]
    <3>1. ran[a] = 0 BY <2>4, <2>7 DEF Matches, GrantInv, RunInv
    <3>2. ran'[a] = 1 BY <1>0, <2>7, <3>1
    <3>3. \A b \in Ids : /\ job'[b] \in {"run", "spawn", "refuse"} => ran'[b] = 1
                         /\ job'[b] = "decline" => Refused(b)'
      BY <1>0, <1>p, <2>7, <3>2 DEF JobInv
    <3>4. QED BY <1>r, <1>o, <2>1, <2>5, <3>3 DEF JobInv
  <2>8. CASE /\ Matches(e) /\ ~e.granted /\ ran' = ran /\ pending' = pending \ {a}
             /\ job' = [job EXCEPT ![a] = "decline"]
    <3>1. ran[a] = 0 /\ a \in pending /\ a \in DOMAIN calls
      BY <2>4, <2>8 DEF Matches, GrantInv, GrantType, RunInv
    <3>2. a \in no BY <2>1, <2>3, <2>4, <2>8 DEF DeclineInv, Matches
    <3>3. \A s \in Sessions : \A k \in DOMAIN left[s] : left[s][k] # a
      BY <3>1 DEF GrantInv, LeftInv, Undecided
    <3>4. \A x \in Event : In(x, lane) /\ x.kind = "tool_requested" => x.call # a
      BY <3>1, RequestsUndecided DEF Undecided
    <3>5. \A x \in Event : In(x, lane') => In(x, lane) BY <1>0, <2>1, InTail
    <3>6. Refused(a)'
      BY <2>1, <2>8, <3>1, <3>2, <3>3, <3>4, <3>5 DEF Refused, Decided
    <3>7. \A b \in Ids : /\ job'[b] \in {"run", "spawn", "refuse"} => ran'[b] = 1
                         /\ job'[b] = "decline" => Refused(b)'
      BY <1>0, <1>p, <2>8, <3>6 DEF JobInv
    <3>8. QED BY <1>r, <1>o, <2>1, <2>5, <3>7 DEF JobInv
  <2>9. QED BY <1>4, <2>3, <2>4, <2>6, <2>7, <2>8 DEF HandleUserApproval, Dispatch
<1>5. CASE HandlePurge("user_cancel") \/ HandlePurge("turn_complete") \/ HandleToolResult
  BY <1>1, <1>5 DEF HandlePurge, HandleToolResult, treeVars
<1>6. ASSUME NEW a \in Ids,
             (\E out \in {"ok", "error"} : ToolFinishes(a, out)) \/ AnswerNegatively(a)
      PROVE  JobInv'
  <2>1. UNCHANGED <<origin, router>> /\ job' = [job EXCEPT ![a] = "none"]
    BY <1>6 DEF ToolFinishes, AnswerNegatively, treeVars
  <2>2. \A x \in Event : In(x, router') => In(x, router) BY <2>1
  <2>3. QED BY <1>j, <1>r, <1>o, <2>1, <2>2 DEF JobInv
<1>7. ASSUME NEW a \in Ids, EmitSpawnAgent(a) PROVE JobInv'
  <2>1. /\ UNCHANGED <<origin, ran>> /\ job' = [job EXCEPT ![a] = "none"] /\ job[a] = "spawn"
        /\ router' = Append(router, SpawnAgent(Owner(a), a))
    BY <1>7 DEF EmitSpawnAgent, treeVars, gateVars
  <2>2. Owner(a) \in Sessions BY <2>1, CallHasOwner DEF WorkInv
  <2>3. PICK e \in Event : e = SpawnAgent(Owner(a), a) /\ e.call = a
    <3>1. SpawnAgent(Owner(a), a) \in Event /\ SpawnAgent(Owner(a), a).call = a
      BY <2>2 DEF SpawnAgent, Event
    <3>2. QED BY <3>1
  <2>4. \A x \in Event : In(x, router') => In(x, router) \/ x = e
    BY <1>0, <2>1, <2>3, InAppend
  <2>5. ran[a] = 1 BY <2>1 DEF JobInv
  <2>6. \A x \in Event : In(x, router') /\ x.kind = "spawn_agent" => ran'[x.call] = 1
    BY <2>1, <2>3, <2>4, <2>5 DEF JobInv
  <2>7. QED BY <1>j, <1>o, <2>1, <2>6 DEF JobInv
<1>8. ASSUME NEW a \in Ids, NEW s \in Sessions, NEW granted \in BOOLEAN, NEW nonce \in {0, a},
             Answer(s, a, granted, nonce)
      PROVE  JobInv'
  BY <1>1, <1>8 DEF Answer, treeVars
<1>9. ASSUME NEW w \in Goals, Arm(w) \/ Disarm(w) \/ \E s \in Sessions : FanOut(s, w)
      PROVE  JobInv'
  <2>1. UNCHANGED <<job, router, origin>> BY <1>9 DEF Arm, Disarm, FanOut, treeVars
  <2>2. QED BY <1>1, <2>1
<1>10. CASE RouteCancel
  <2>1. UNCHANGED <<job, origin>> /\ router # <<>> /\ router' = Tail(router)
    BY <1>10 DEF RouteCancel, treeVars
  <2>2. \A x \in Event : In(x, router') => In(x, router) BY <1>0, <2>1, InTail
  <2>3. QED BY <1>j, <1>r, <1>o, <2>1, <2>2 DEF JobInv
<1>11. CASE RouteSpawn
  <2>1. router # <<>> /\ router' = Tail(router) /\ Head(router).kind = "spawn_agent" /\ ran' = ran
    BY <1>11 DEF RouteSpawn, gateVars
  <2>2. In(Head(router), router) /\ Head(router) \in Event BY <1>0, <2>1, InTail
  <2>3. PICK a \in Ids : a = Head(router).call /\ ran[a] = 1
    BY <2>1, <2>2, EventFields DEF JobInv
  <2>4. \A x \in Event : In(x, router') => In(x, router) BY <1>0, <2>1, InTail
  <2>5. CASE job' = [job EXCEPT ![a] = "refuse"] /\ origin' = origin
    <3>1. \A b \in Ids : /\ job'[b] \in {"run", "spawn", "refuse"} => ran'[b] = 1
                         /\ job'[b] = "decline" => Refused(b)'
      BY <1>0, <1>p, <2>1, <2>3, <2>5 DEF JobInv
    <3>2. QED BY <1>r, <1>o, <2>4, <2>5, <3>1 DEF JobInv
  <2>6. CASE job' = job /\ \E c \in Children : origin' = [origin EXCEPT ![c] = a]
    <3>1. \A c \in Children : origin'[c] # 0 => origin'[c] \in Ids /\ ran'[origin'[c]] = 1
      BY <1>0, <2>1, <2>3, <2>6 DEF JobInv
    <3>2. QED BY <1>j, <1>r, <2>4, <2>6, <3>1 DEF JobInv
  <2>7. QED BY <1>11, <2>3, <2>5, <2>6 DEF RouteSpawn, treeVars
<1>12. ASSUME NEW s \in Roots, UserCancel(s) PROVE JobInv'
  <2>1. UNCHANGED <<job, origin>> /\ router' = Append(router, Cancel(s))
    BY <1>12 DEF UserCancel, treeVars
  <2>2. Cancel(s) \in Event /\ Cancel(s).kind = "user_cancel" BY DEF Cancel, Event, Sessions
  <2>3. \A x \in Event : In(x, router') /\ x.kind = "spawn_agent" => In(x, router)
    BY <1>0, <2>1, <2>2, InAppend
  <2>4. QED BY <1>j, <1>r, <1>o, <2>1, <2>3 DEF JobInv
<1>13. CASE UNCHANGED vars
  BY <1>1, <1>13 DEF vars
<1>14. QED
  BY <1>1, <1>2, <1>3, <1>4, <1>5, <1>6, <1>7, <1>8, <1>9, <1>10, <1>11, <1>12, <1>13
     DEF Next, Supervise

\* A decline that is in the lane was recorded.
LEMMA DeclinesStayTrue ==
  ASSUME GrantInv, WorkInv, TruthInv, [Next]_vars
  PROVE  DeclineInv'
<1> USE DEF TruthInv
<1>0. lane \in Seq(Event) BY DEF GrantInv, GrantType
<1>p. /\ \A a \in DOMAIN calls : Owner(a)' = Owner(a)
      /\ no \subseteq no'
  BY FactsPersist
<1>c. \A x \in Event : In(x, lane) /\ x.kind = "user_approval" => x.call \in DOMAIN calls
  BY DEF GrantInv, ApprovalInv, In
<1>1. ASSUME \A x \in Event : In(x, lane') /\ x.kind = "user_approval" => In(x, lane)
      PROVE  DeclineInv'
  BY <1>p, <1>c, <1>1 DEF DeclineInv
<1>2. CASE Quiet
  <2>1. CASE lane' = lane BY <1>1, <2>1
  <2>2. CASE lane # <<>> /\ lane' = Tail(lane) BY <1>0, <1>1, <2>2, InTail
  <2>3. CASE \E e \in Event : e.kind \notin {"tool_requested", "user_approval"}
                              /\ lane' = Append(lane, e)
    BY <1>0, <1>1, <2>3, InAppend
  <2>4. QED BY <1>2, <2>1, <2>2, <2>3 DEF Quiet, LaneShrinks
<1>3. CASE HandleToolRequested \/ HandleUserApproval
  BY <1>0, <1>1, <1>3, InTail DEF HandleToolRequested, HandleUserApproval, Takes
<1>4. ASSUME NEW s \in Sessions, NEW batch \in Batches, RequestTools(s, batch) PROVE DeclineInv'
  BY <1>1, <1>4 DEF RequestTools
<1>5. ASSUME NEW s \in Sessions, Announce(s) PROVE DeclineInv'
  <2>1. lane' = Append(lane, ToolRequested(s, Head(left[s]))) BY <1>5 DEF Announce, Emit
  <2>2. lane' \in Seq(Event)
    <3>1. GrantInv' BY GrantInductive
    <3>2. QED BY <3>1 DEF GrantInv, GrantType
  <2>3. \A i \in DOMAIN lane' : i \in DOMAIN lane \/ lane'[i] = ToolRequested(s, Head(left[s]))
    BY <1>0, <2>1
  <2>4. \A i \in DOMAIN lane : lane'[i] = lane[i] BY <1>0, <2>1
  <2>5. ToolRequested(s, Head(left[s])).kind = "tool_requested" BY DEF ToolRequested
  <2>6. QED BY <1>1, <2>3, <2>4, <2>5 DEF In
<1>6. ASSUME NEW a \in Ids, NEW s \in Sessions, NEW granted \in BOOLEAN, NEW nonce \in {0, a},
             Answer(s, a, granted, nonce)
      PROVE  DeclineInv'
  <2>1. /\ lane' = Append(lane, UserApproval(s, a, granted, nonce)) /\ a \in DOMAIN calls
        /\ s = Owner(a) /\ nonce = a /\ ~granted => a \in no'
        /\ calls' = calls
    BY <1>6 DEF Answer, Emit, GrantInv, GrantType, turnVars
  <2>2. PICK e \in Event : /\ e = UserApproval(s, a, granted, nonce) /\ e.call = a
                           /\ e.session = s /\ e.granted = granted /\ e.nonce = nonce
    <3> DEFINE f == UserApproval(s, a, granted, nonce)
    <3>1. /\ f \in Event /\ f.call = a /\ f.session = s /\ f.granted = granted /\ f.nonce = nonce
      BY DEF UserApproval, Event
    <3> HIDE DEF f
    <3>2. \E e \in Event : /\ e = f /\ e.call = a
                           /\ e.session = s /\ e.granted = granted /\ e.nonce = nonce
      BY <3>1
    <3>3. QED BY <3>2 DEF f
  <2>3. \A x \in Event : In(x, lane') => In(x, lane) \/ x = e
    BY <1>0, <2>1, <2>2, InAppend
  <2>4. QED BY <1>p, <1>c, <2>1, <2>2, <2>3 DEF DeclineInv, Owner
<1>7. QED
  BY <1>2, <1>3, <1>4, <1>5, <1>6, GateSteps

\* An event that was heard stays true.
LEMMA HeardStaysTrue ==
  ASSUME GrantInv, WorkInv, [Next]_vars, NEW x \in Event, HeardTrue(x)
  PROVE  HeardTrue(x)'
<1>1. /\ x.kind = "tool_result" => x.call \in Ids
      /\ x.kind = "approval_pending" => x.call \in Ids
  BY EventFields
<1>2. QED BY <1>1, FactsPersist DEF HeardTrue

\* Turns hear what is emitted, if it is for them.
LEMMA HearingKeepsInbox ==
  ASSUME GrantInv, WorkInv, [Next]_vars, InboxInv, NEW e \in Event, inbox' = Heard(e),
         e.kind \in {"tool_result", "approval_pending", "user_approval"} => HeardTrue(e)'
  PROVE  InboxInv'
<1>1. ASSUME NEW s \in Sessions
      PROVE  \/ inbox'[s] = inbox[s]
             \/ /\ inbox'[s] = Append(inbox[s], e)
                /\ e.kind \in {"tool_result", "approval_pending", "user_approval"}
  BY DEF Heard
<1>2. inbox' = [s \in Sessions |-> inbox'[s]] BY DEF Heard
<1>3. \A s \in Sessions : inbox[s] \in Seq(Event) BY DEF InboxInv
<1>4. \A s \in Sessions : inbox'[s] \in Seq(Event) BY <1>1, <1>3
<1>5. inbox' \in [Sessions -> Seq(Event)] BY <1>2, <1>4
<1>6. ASSUME NEW x \in Event, NEW s \in Sessions, In(x, inbox'[s]) PROVE HeardTrue(x)'
  <2>1. CASE In(x, inbox[s]) BY <2>1, HeardStaysTrue DEF InboxInv
  <2>2. CASE ~In(x, inbox[s])
    <3>1. x = e /\ e.kind \in {"tool_result", "approval_pending", "user_approval"}
      BY <1>1, <1>3, <1>6, <2>2, InAppend
    <3>2. QED BY <3>1
  <2>3. QED BY <2>1, <2>2
<1>7. QED BY <1>5, <1>6 DEF InboxInv

\* Whatever a turn hears is true, and stays so until the turn reads it.
LEMMA InboxStaysTrue ==
  ASSUME GrantInv, WorkInv, TruthInv, [Next]_vars
  PROVE  InboxInv'
<1> USE DEF TruthInv
<1>0. inbox \in [Sessions -> Seq(Event)] /\ lane \in Seq(Event) /\ ran \in [Ids -> Nat]
  BY DEF InboxInv, GrantInv, GrantType
<1>s. ASSUME inbox' \in [Sessions -> Seq(Event)],
             \A x \in Event : \A s \in Sessions : In(x, inbox'[s]) => In(x, inbox[s])
      PROVE  InboxInv'
  BY <1>s, HeardStaysTrue DEF InboxInv
<1>p. \A a \in Ids : /\ ran[a] = 1 => ran'[a] = 1
                     /\ Refused(a) => Refused(a)'
  BY FactsPersist
<1>r. ASSUME NEW a \in Ids, a \in DOMAIN calls, NEW out \in Outs,
             inbox' = Heard(ToolResult(Owner(a), a, out)),
             IF out = "declined" THEN Refused(a) ELSE ran[a] = 1
      PROVE  InboxInv'
  <2>1. Owner(a) \in Sessions BY <1>r, CallHasOwner
  <2>2. PICK e \in Event : /\ e = ToolResult(Owner(a), a, out) /\ e.kind = "tool_result"
                           /\ e.call = a /\ e.out = out
    <3> DEFINE f == ToolResult(Owner(a), a, out)
    <3>1. f \in Event /\ f.kind = "tool_result" /\ f.call = a /\ f.out = out
      BY <2>1 DEF ToolResult, Event
    <3> HIDE DEF f
    <3>2. \E e \in Event : e = f /\ e.kind = "tool_result" /\ e.call = a /\ e.out = out BY <3>1
    <3>3. QED BY <3>2 DEF f
  <2>3. HeardTrue(e)' BY <1>p, <1>r, <2>2 DEF HeardTrue
  <2>4. QED BY <1>r, <2>2, <2>3, HearingKeepsInbox
<1>1. ASSUME inbox' = inbox PROVE InboxInv'
  BY <1>0, <1>s, <1>1
<1>2. ASSUME NEW s \in Sessions, StartTurn(s) \/ TurnStep(s) PROVE InboxInv'
  <2>1. CASE inbox' = inbox BY <1>1, <2>1
  <2>2. CASE Announce(s)
    <3>1. /\ inbox' = Heard(ToolRequested(s, Head(left[s]))) /\ pc[s] = "announce"
      BY <2>2 DEF Announce, Emit
    <3>2. ToolRequested(s, Head(left[s])).kind = "tool_requested" BY DEF ToolRequested
    <3>3. \A t \in Sessions : inbox'[t] = inbox[t]
      BY <3>1, <3>2 DEF Heard
    <3>4. inbox' = [t \in Sessions |-> inbox'[t]] BY <3>1 DEF Heard
    <3>5. inbox' = inbox BY <1>0, <3>3, <3>4
    <3>6. QED BY <1>1, <3>5
  <2>3. CASE Report(s)
    <3>1. /\ s \in Children /\ pc[s] # "off"
          /\ \E out \in {"ok", "error"} : inbox' = Heard(ToolResult(Owner(origin[s]), origin[s], out))
      BY <2>3 DEF Report, Emit
    <3>2. origin[s] \in DOMAIN calls BY <3>1 DEF WorkInv
    <3>3. origin[s] \in Ids BY <3>2, CallHasOwner
    <3>4. PICK a \in Ids : a = origin[s] BY <3>3
    <3>5. ran[a] = 1 BY <3>1, <3>4, GateAssumption DEF JobInv, Ids
    <3>6. PICK out \in {"ok", "error"} : inbox' = Heard(ToolResult(Owner(a), a, out))
      BY <3>1, <3>4
    <3>7. QED BY <1>r, <3>2, <3>4, <3>5, <3>6 DEF Outs
  <2>4. CASE \E q \in {<<>>, Tail(inbox[s])} :
               inbox' = [inbox EXCEPT ![s] = q] /\ (inbox[s] # <<>> \/ q = <<>>)
    <3>1. PICK q \in {<<>>, Tail(inbox[s])} :
            inbox' = [inbox EXCEPT ![s] = q] /\ (inbox[s] # <<>> \/ q = <<>>)
      BY <2>4
    <3>2. q \in Seq(Event) /\ \A x : In(x, q) => In(x, inbox[s])
      <4>1. CASE q = <<>> BY <4>1 DEF In
      <4>2. CASE q # <<>>
        <5>1. inbox[s] # <<>> /\ q = Tail(inbox[s]) /\ inbox[s] \in Seq(Event)
          BY <1>0, <3>1, <4>2
        <5>2. QED BY <5>1, InTail
      <4>3. QED BY <4>1, <4>2
    <3>3. QED BY <1>0, <1>s, <3>1, <3>2
  <2>5. CASE Receive(s)
    <3>1. \E q \in {<<>>, Tail(inbox[s])} : inbox' = [inbox EXCEPT ![s] = q] /\ inbox[s] # <<>>
      BY <2>5 DEF Receive
    <3>2. QED BY <2>4, <3>1
  <2>6. CASE AbortLands(s) \/ \E lagged \in BOOLEAN : GiveUp(s, lagged)
    <3>1. inbox' = [inbox EXCEPT ![s] = <<>>] BY <2>6 DEF AbortLands, GiveUp, StopWaiting
    <3>2. QED BY <2>4, <3>1
  <2>7. CASE StartTurn(s) \/ (\E batch \in Batches : RequestTools(s, batch))
             \/ \E ok \in BOOLEAN : EndTurn(s, ok)
    BY <2>1, <2>7 DEF StartTurn, RequestTools, EndTurn
  <2>8. QED BY <1>2, <2>2, <2>3, <2>5, <2>6, <2>7 DEF TurnStep, TimelyStep, ProviderStep
<1>3. CASE HandleToolRequested
  <2>1. /\ lane # <<>> /\ Head(lane).kind = "tool_requested"
        /\ \/ inbox' = inbox
           \/ /\ inbox' = Heard(ApprovalPending(Owner(Head(lane).call), Head(lane).call))
              /\ shown' = shown \cup {Head(lane).call}
    BY <1>3 DEF HandleToolRequested, Takes
  <2>2. In(Head(lane), lane) /\ Head(lane) \in Event BY <1>0, <2>1, InTail
  <2>3. PICK a \in Ids : a = Head(lane).call /\ a \in DOMAIN calls
    BY <2>1, <2>2, RequestsUndecided DEF Undecided
  <2>4. Owner(a) \in Sessions BY <2>3, CallHasOwner
  <2>5. PICK e \in Event : e = ApprovalPending(Owner(a), a) /\ e.kind = "approval_pending" /\ e.call = a
    <3>1. /\ ApprovalPending(Owner(a), a) \in Event
          /\ ApprovalPending(Owner(a), a).kind = "approval_pending"
          /\ ApprovalPending(Owner(a), a).call = a
      BY <2>4 DEF ApprovalPending, Event
    <3>2. QED BY <3>1
  <2>6. CASE inbox' = inbox BY <1>1, <2>6
  <2>7. CASE inbox' = Heard(e) /\ a \in shown'
    <3>1. HeardTrue(e)' BY <2>5, <2>7 DEF HeardTrue
    <3>2. QED BY <2>7, <3>1, HearingKeepsInbox
  <2>8. QED BY <2>1, <2>3, <2>5, <2>6, <2>7
<1>4. CASE HandleUserApproval \/ HandlePurge("user_cancel") \/ HandlePurge("turn_complete")
           \/ HandleToolResult
  BY <1>1, <1>4 DEF HandleUserApproval, HandlePurge, HandleToolResult
<1>5. ASSUME NEW a \in Ids, NEW out \in {"ok", "error"}, ToolFinishes(a, out) PROVE InboxInv'
  <2>1. job[a] = "run" /\ inbox' = Heard(ToolResult(Owner(a), a, out))
    BY <1>5 DEF ToolFinishes, Emit
  <2>2. a \in DOMAIN calls /\ ran[a] = 1 BY <2>1 DEF WorkInv, JobInv
  <2>3. QED BY <1>r, <2>1, <2>2 DEF Outs
<1>6. ASSUME NEW a \in Ids, AnswerNegatively(a) PROVE InboxInv'
  <2>1. /\ job[a] \in {"decline", "refuse"}
        /\ inbox' = Heard(ToolResult(Owner(a), a, IF job[a] = "decline" THEN "declined" ELSE "error"))
    BY <1>6 DEF AnswerNegatively, Emit
  <2>2. a \in DOMAIN calls BY <2>1 DEF WorkInv
  <2>3. CASE job[a] = "decline"
    <3>1. inbox' = Heard(ToolResult(Owner(a), a, "declined")) /\ Refused(a)
      BY <2>1, <2>3 DEF JobInv
    <3>2. QED BY <1>r, <2>2, <3>1 DEF Outs
  <2>4. CASE job[a] = "refuse"
    <3>1. inbox' = Heard(ToolResult(Owner(a), a, "error")) /\ ran[a] = 1
      BY <2>1, <2>4 DEF JobInv
    <3>2. QED BY <1>r, <2>2, <3>1 DEF Outs
  <2>5. QED BY <2>1, <2>3, <2>4
<1>7. ASSUME NEW a \in Ids, NEW s \in Sessions, NEW granted \in BOOLEAN, NEW nonce \in {0, a},
             Answer(s, a, granted, nonce)
      PROVE  InboxInv'
  <2>1. inbox' = Heard(UserApproval(s, a, granted, nonce)) BY <1>7 DEF Answer, Emit
  <2>2. PICK e \in Event : e = UserApproval(s, a, granted, nonce) /\ e.kind = "user_approval"
    <3>1. /\ UserApproval(s, a, granted, nonce) \in Event
          /\ UserApproval(s, a, granted, nonce).kind = "user_approval"
      BY DEF UserApproval, Event
    <3>2. QED BY <3>1
  <2>3. HeardTrue(e)' BY <2>2 DEF HeardTrue
  <2>4. QED BY <2>1, <2>2, <2>3, HearingKeepsInbox
<1>8. ASSUME \/ \E a \in Ids : EmitSpawnAgent(a)
             \/ \E w \in Goals : Arm(w) \/ Disarm(w) \/ \E s \in Sessions : FanOut(s, w)
             \/ RouteCancel \/ RouteSpawn
             \/ \E s \in Roots : UserCancel(s)
             \/ UNCHANGED vars
      PROVE  inbox' = inbox
  BY <1>8 DEF EmitSpawnAgent, Arm, Disarm, FanOut, RouteCancel, RouteSpawn, UserCancel, vars
<1>9. QED
  BY <1>1, <1>2, <1>3, <1>4, <1>5, <1>6, <1>7, <1>8 DEF Next, Supervise

\* A turn believes what it heard, and the model is told no more.
LEMMA BeliefsStayTrue ==
  ASSUME GrantInv, WorkInv, TruthInv, [Next]_vars
  PROVE  BeliefInv'
<1> USE DEF TruthInv
<1>p. /\ DOMAIN calls \subseteq DOMAIN calls' /\ shown \subseteq shown'
      /\ \A a \in Ids : /\ ran[a] = 1 => ran'[a] = 1
                        /\ Refused(a) => Refused(a)'
  BY FactsPersist
<1>0. /\ remaining \in [Sessions -> SUBSET DOMAIN calls]
      /\ phase \in [Ids -> Beliefs]
      /\ told \in [Ids -> {"nothing", "lagged"} \cup Beliefs \cup Outs]
      /\ \A a \in Ids :
           /\ phase[a] = "awaiting" => a \in shown'
           /\ told[a] \in {"ok", "error"} => ran'[a] = 1
           /\ told[a] = "declined" => Refused(a)'
           /\ told[a] = "awaiting" => a \in shown'
  BY <1>p DEF BeliefInv
<1>1. CASE UNCHANGED <<remaining, phase, told>>
  BY <1>p, <1>0, <1>1 DEF BeliefInv
<1>2. ASSUME NEW s \in Sessions, NEW batch \in Batches, RequestTools(s, batch) PROVE BeliefInv'
  <2>1. /\ \A k \in DOMAIN batch : Len(calls) + k \in DOMAIN calls'
        /\ remaining' = [remaining EXCEPT ![s] = {Len(calls) + k : k \in DOMAIN batch}]
    BY <1>2, RequestToolsAdds
  <2>2. remaining' \in [Sessions -> SUBSET DOMAIN calls'] BY <1>p, <1>0, <2>1
  <2>3. UNCHANGED <<phase, told>> BY <1>2 DEF RequestTools
  <2>4. QED BY <1>0, <2>2, <2>3 DEF BeliefInv
<1>3. ASSUME NEW s \in Sessions, Receive(s) PROVE BeliefInv'
  <2>0. inbox[s] # <<>> /\ inbox[s] \in Seq(Event) BY <1>3 DEF Receive, InboxInv
  <2>1. PICK e \in Event : e = Head(inbox[s]) /\ In(e, inbox[s]) BY <2>0, InTail
  <2>2. HeardTrue(e) BY <2>1 DEF InboxInv
  <2>3. e.call \in Ids /\ (e.kind = "tool_result" => e.out \in Outs)
    BY <2>2, EventFields DEF HeardTrue
  <2>4. PICK a \in Ids : a = e.call BY <2>3
  <2>5. \E rest \in SUBSET remaining[s] : remaining' = [remaining EXCEPT ![s] = rest]
    BY <1>3 DEF Receive
  <2>6. remaining' \in [Sessions -> SUBSET DOMAIN calls'] BY <1>p, <1>0, <2>5
  <2>7. \/ phase' = phase
        \/ /\ phase' = [phase EXCEPT ![a] = "awaiting"] /\ e.kind = "approval_pending"
        \/ \E b \in {"approved", "dispatched"} : phase' = [phase EXCEPT ![a] = b]
    BY <1>3, <2>1, <2>2, <2>4 DEF Receive, HeardTrue
  <2>8. e.kind = "approval_pending" => a \in shown' BY <1>p, <2>2, <2>4 DEF HeardTrue
  <2>9. phase' \in [Ids -> Beliefs] /\ \A b \in Ids : phase'[b] = "awaiting" => b \in shown'
    BY <1>0, <2>7, <2>8 DEF Beliefs
  <2>10. \/ told' = told
         \/ e.kind = "tool_result" /\ told' = [told EXCEPT ![a] = e.out]
    BY <1>3, <2>1, <2>4 DEF Receive
  <2>11. e.kind = "tool_result" =>
           /\ e.out \in {"ok", "error"} => ran'[a] = 1
           /\ e.out = "declined" => Refused(a)'
    BY <1>p, <2>2, <2>4 DEF HeardTrue
  <2>12. /\ told' \in [Ids -> {"nothing", "lagged"} \cup Beliefs \cup Outs]
         /\ \A b \in Ids : /\ told'[b] \in {"ok", "error"} => ran'[b] = 1
                           /\ told'[b] = "declined" => Refused(b)'
                           /\ told'[b] = "awaiting" => b \in shown'
    <3>1. CASE told' = told BY <1>0, <3>1
    <3>2. CASE e.kind = "tool_result" /\ told' = [told EXCEPT ![a] = e.out]
      <4>1. told' \in [Ids -> {"nothing", "lagged"} \cup Beliefs \cup Outs] BY <1>0, <2>3, <3>2
      <4>2. \A b \in Ids : told'[b] = IF b = a THEN e.out ELSE told[b] BY <1>0, <3>2
      <4>3. e.out \in {"ok", "error", "declined"} BY <2>3, <3>2 DEF Outs
      <4>4. QED BY <1>0, <2>11, <3>2, <4>1, <4>2, <4>3
    <3>3. QED BY <2>10, <3>1, <3>2
  <2>13. QED BY <2>6, <2>9, <2>12 DEF BeliefInv
<1>4. ASSUME NEW s \in Sessions, NEW lagged \in BOOLEAN, GiveUp(s, lagged) PROVE BeliefInv'
  <2>1. /\ remaining' = [remaining EXCEPT ![s] = {}]
        /\ phase' = [a \in Ids |-> IF a \in remaining[s] THEN "dispatched" ELSE phase[a]]
        /\ told' = [a \in Ids |-> IF a \in remaining[s] THEN IF lagged THEN "lagged" ELSE phase[a]
                                                       ELSE told[a]]
    BY <1>4 DEF GiveUp, StopWaiting, Forget
  <2>2. remaining' \in [Sessions -> SUBSET DOMAIN calls'] BY <1>p, <1>0, <2>1
  <2>3. phase' \in [Ids -> Beliefs] /\ \A a \in Ids : phase'[a] = "awaiting" => a \in shown'
    BY <1>0, <2>1 DEF Beliefs
  <2>4. told' \in [Ids -> {"nothing", "lagged"} \cup Beliefs \cup Outs]
    BY <1>0, <2>1
  <2>5. \A a \in Ids : told'[a] \in {told[a], "lagged", phase[a]} BY <2>1
  <2>6. \A a \in Ids : phase[a] \in {"dispatched", "awaiting", "approved"} BY <1>0 DEF Beliefs
  <2>7. \A a \in Ids : /\ told'[a] \in {"ok", "error"} => ran'[a] = 1
                       /\ told'[a] = "declined" => Refused(a)'
                       /\ told'[a] = "awaiting" => a \in shown'
    BY <1>0, <2>5, <2>6
  <2>8. QED BY <2>2, <2>3, <2>4, <2>7 DEF BeliefInv
<1>5. ASSUME NEW s \in Sessions, AbortLands(s) PROVE BeliefInv'
  <2>1. /\ remaining' = [remaining EXCEPT ![s] = {}] /\ told' = told
        /\ phase' = [a \in Ids |-> IF a \in remaining[s] THEN "dispatched" ELSE phase[a]]
    BY <1>5 DEF AbortLands, Forget
  <2>2. remaining' \in [Sessions -> SUBSET DOMAIN calls'] BY <1>p, <1>0, <2>1
  <2>3. phase' \in [Ids -> Beliefs] /\ \A a \in Ids : phase'[a] = "awaiting" => a \in shown'
    BY <1>0, <2>1 DEF Beliefs
  <2>4. QED BY <1>0, <2>1, <2>2, <2>3 DEF BeliefInv
<1>6. ASSUME NEW s \in Sessions, StartTurn(s) \/ TurnStep(s) PROVE BeliefInv'
  <2>1. CASE StartTurn(s) \/ Announce(s) \/ Report(s) \/ \E ok \in BOOLEAN : EndTurn(s, ok)
    BY <1>1, <2>1 DEF StartTurn, Announce, Report, EndTurn
  <2>2. QED BY <1>2, <1>3, <1>4, <1>5, <1>6, <2>1 DEF TurnStep, TimelyStep, ProviderStep
<1>7. ASSUME Supervise \/ RouteCancel \/ RouteSpawn \/ (\E s \in Roots : UserCancel(s)) \/ UNCHANGED vars
      PROVE  UNCHANGED <<remaining, phase, told>>
  BY <1>7 DEF Supervise, HandleToolRequested, HandleUserApproval, HandlePurge, HandleToolResult,
     RouteCancel, RouteSpawn, UserCancel, turnVars, vars
<1>8. ASSUME \/ \E a \in Ids : \/ \E out \in {"ok", "error"} : ToolFinishes(a, out)
                               \/ AnswerNegatively(a) \/ EmitSpawnAgent(a)
                               \/ \E s \in Sessions, granted \in BOOLEAN, nonce \in {0, a} :
                                    Answer(s, a, granted, nonce)
             \/ \E w \in Goals : Arm(w) \/ Disarm(w) \/ \E s \in Sessions : FanOut(s, w)
      PROVE  UNCHANGED <<remaining, phase, told>>
  BY <1>8 DEF ToolFinishes, AnswerNegatively, EmitSpawnAgent, Answer, Arm, Disarm, FanOut, turnVars
<1>9. QED BY <1>1, <1>6, <1>7, <1>8 DEF Next

\* Nobody has heard, believed or been told anything at the start.
LEMMA TruthInit == Init => TruthInv
<1> SUFFICES ASSUME Init PROVE TruthInv OBVIOUS
<1>1. /\ \A x : ~In(x, lane) /\ ~In(x, router)
      /\ \A s \in Sessions : \A x : ~In(x, inbox[s])
  BY DEF Init, In
<1>2. InboxInv BY <1>1 DEF Init, InboxInv
<1>3. JobInv BY <1>1 DEF Init, JobInv
<1>4. DeclineInv BY <1>1 DEF DeclineInv
<1>5. BeliefInv BY DEF Init, BeliefInv, Beliefs, Outs
<1>6. QED BY <1>2, <1>3, <1>4, <1>5 DEF TruthInv

\* Every result, card, belief and answer under way is true, in every reachable state.
THEOREM TruthInvariant == Spec => []TruthInv
<1>1. GrantInv /\ WorkInv /\ TruthInv /\ [Next]_vars => TruthInv'
  BY JobsStayTrue, DeclinesStayTrue, InboxStaysTrue, BeliefsStayTrue DEF TruthInv
<1>2. QED BY <1>1, TruthInit, GrantInvariant, PTL DEF Spec

\* What the model is told of a call as a fact is one: a result means that it ran, "declined"
\* that an operator said no and that it never runs, "awaiting approval" that its card was
\* shown (turn.rs: collect_tool_results; supervisor.rs: the approval gate).
THEOREM ModelIsToldTheTruth == Spec => []ToldTheTruth
<1>1. TruthInv => ToldTheTruth
  BY DEF TruthInv, BeliefInv, ToldTheTruth, Refused, Decided
<1>2. QED BY <1>1, TruthInvariant, PTL

-----------------------------------------------------------------------------
(* Approvals die with the turn.  A request or a card of a turn that ended on *)
(* its own still has the turn's TurnComplete after it in the lane.           *)

\* The turn of s ended on its own and has said so.
Ended(s) == pc[s] = "report" \/ (pc[s] = "off" /\ s \in Roots)

\* A TurnComplete of s is in the lane, after position n.
Closing(s, n) == \E j \in DOMAIN lane : n < j /\ lane[j] = TurnComplete(s)

\* No turn is cut off before a client cancels one.
CancelInv ==
  /\ cancels \in Nat
  /\ cancels = 0 => aborted = {} /\ \A x \in Event : In(x, router) => x.kind # "user_cancel"

\* What is in front of the end of a turn: its requests, its cards.
EndInv ==
  cancels = 0 =>
    \A s \in Sessions : Ended(s) =>
      /\ \A i \in DOMAIN lane : IsRequest(i) /\ Owner(lane[i].call) = s => Closing(s, i)
      /\ \A a \in pending : Owner(a) = s => Closing(s, 0)

\* No cancel, no abort.
LEMMA CancelKept ==
  ASSUME WorkInv, CancelInv, [Next]_vars
  PROVE  CancelInv'
<1>0. router \in Seq(Event) BY DEF WorkInv
<1>1. ASSUME cancels' = cancels, aborted' \subseteq aborted,
             \A x \in Event : In(x, router') /\ x.kind = "user_cancel" => In(x, router)
      PROVE  CancelInv'
  BY <1>1 DEF CancelInv
<1>2. ASSUME cancels' = cancels, aborted' \subseteq aborted, router' = router PROVE CancelInv'
  BY <1>1, <1>2
<1>3. ASSUME NEW s \in Sessions, StartTurn(s) \/ TurnStep(s) PROVE CancelInv'
  <2>1. cancels' = cancels /\ aborted' \subseteq aborted /\ router' = router
    BY <1>3 DEF StartTurn, TurnStep, TimelyStep, ProviderStep, RequestTools, Announce, Receive, GiveUp,
       StopWaiting, EndTurn, Report, AbortLands, opVars
  <2>2. QED BY <1>2, <2>1
<1>4. ASSUME Supervise \/ UNCHANGED vars PROVE CancelInv'
  <2>1. cancels' = cancels /\ aborted' = aborted /\ router' = router
    BY <1>4 DEF Supervise, HandleToolRequested, HandleUserApproval, HandlePurge, HandleToolResult,
       turnVars, opVars, vars
  <2>2. QED BY <1>2, <2>1
<1>5. ASSUME \/ \E a \in Ids : \/ \E out \in {"ok", "error"} : ToolFinishes(a, out)
                               \/ AnswerNegatively(a)
                               \/ \E s \in Sessions, granted \in BOOLEAN, nonce \in {0, a} :
                                    Answer(s, a, granted, nonce)
             \/ \E w \in Goals : Arm(w) \/ Disarm(w) \/ \E s \in Sessions : FanOut(s, w)
      PROVE  CancelInv'
  <2>1. cancels' = cancels /\ aborted' = aborted /\ router' = router
    BY <1>5 DEF ToolFinishes, AnswerNegatively, Answer, Arm, Disarm, FanOut, turnVars, opVars
  <2>2. QED BY <1>2, <2>1
<1>6. ASSUME NEW a \in Ids, EmitSpawnAgent(a) PROVE CancelInv'
  <2>1. /\ cancels' = cancels /\ aborted' = aborted
        /\ router' = Append(router, SpawnAgent(Owner(a), a))
    BY <1>6 DEF EmitSpawnAgent, turnVars, opVars
  <2>2. \A i \in DOMAIN router' : \/ i \in DOMAIN router /\ router'[i] = router[i]
                                  \/ router'[i] = SpawnAgent(Owner(a), a)
    BY <1>0, <2>1
  <2>3. SpawnAgent(Owner(a), a).kind = "spawn_agent" BY DEF SpawnAgent
  <2>4. \A x \in Event : In(x, router') /\ x.kind = "user_cancel" => In(x, router)
    BY <2>2, <2>3 DEF In
  <2>5. QED BY <1>1, <2>1, <2>4
<1>7. CASE RouteCancel
  <2>1. In(Head(router), router) /\ Head(router) \in Event /\ Head(router).kind = "user_cancel"
    BY <1>0, <1>7, InTail DEF RouteCancel
  <2>2. cancels' = cancels BY <1>7 DEF RouteCancel, opVars
  <2>3. QED BY <2>1, <2>2 DEF CancelInv
<1>8. CASE RouteSpawn
  <2>1. cancels' = cancels /\ aborted' = aborted /\ router # <<>> /\ router' = Tail(router)
    BY <1>8 DEF RouteSpawn, opVars
  <2>2. \A x \in Event : In(x, router') => In(x, router) BY <1>0, <2>1, InTail
  <2>3. QED BY <1>1, <2>1, <2>2
<1>9. ASSUME NEW s \in Roots, UserCancel(s) PROVE CancelInv'
  BY <1>9 DEF UserCancel, CancelInv
<1>10. QED BY <1>3, <1>4, <1>5, <1>6, <1>7, <1>8, <1>9 DEF Next

\* A step that only adds to the lane: no request of a turn that ended, and a turn that ends
\* adds its TurnComplete.
LEMMA LaterEndsClose ==
  ASSUME GrantInv, EndInv, cancels' = 0 => cancels = 0,
         DOMAIN calls \subseteq DOMAIN calls', \A a \in DOMAIN calls : Owner(a)' = Owner(a),
         pending' \subseteq pending,
         lane' = lane \/ \E e \in Event : lane' = Append(lane, e),
         \A s \in Sessions : Ended(s)' => Ended(s) \/ lane' = Append(lane, TurnComplete(s)),
         \A e \in Event, t \in Sessions :
           lane' = Append(lane, e) /\ e.kind = "tool_requested" /\ calls'[e.call].session = t
             => ~Ended(t)'
  PROVE  EndInv'
<1> SUFFICES ASSUME cancels' = 0, NEW s \in Sessions, Ended(s)'
             PROVE  /\ \A i \in DOMAIN lane' :
                         lane'[i].kind = "tool_requested" /\ calls'[lane'[i].call].session = s
                           => Closing(s, i)'
                    /\ \A a \in pending' : calls'[a].session = s => Closing(s, 0)'
  BY DEF EndInv, IsRequest, Owner
<1>0. lane \in Seq(Event) /\ pending \subseteq DOMAIN calls /\ Len(lane) \in Nat
  BY DEF GrantInv, GrantType
<1>1. /\ \A i \in DOMAIN lane : i \in DOMAIN lane' /\ lane'[i] = lane[i] /\ i \in Nat /\ 0 < i /\ i <= Len(lane)
      /\ \A i \in DOMAIN lane' : i \in DOMAIN lane
           \/ (i = Len(lane) + 1 /\ \E e \in Event : lane'[i] = e /\ lane' = Append(lane, e))
  BY <1>0
<1>2. \A n \in Nat : Closing(s, n) => Closing(s, n)'
  BY <1>1 DEF Closing, TurnComplete
<1>3. ASSUME NEW i \in DOMAIN lane', lane'[i].kind = "tool_requested",
             calls'[lane'[i].call].session = s
      PROVE  i \in DOMAIN lane /\ Owner(lane[i].call) = s /\ IsRequest(i)
  <2>1. i \in DOMAIN lane
    BY <1>1, <1>3
  <2>2. lane[i].call \in DOMAIN calls /\ IsRequest(i)
    BY <1>1, <1>3, <2>1 DEF GrantInv, RequestInv, Undecided, IsRequest
  <2>3. QED BY <1>1, <1>3, <2>1, <2>2 DEF Owner
<1>4. CASE lane' = Append(lane, TurnComplete(s))
  <2>1. /\ Len(lane) + 1 \in DOMAIN lane' /\ lane'[Len(lane) + 1] = TurnComplete(s)
    BY <1>0, <1>4
  <2>2. \A n \in Nat : n <= Len(lane) => Closing(s, n)'
    <3> SUFFICES ASSUME NEW n \in Nat, n <= Len(lane) PROVE Closing(s, n)' OBVIOUS
    <3>1. n < Len(lane) + 1 BY <1>0
    <3>2. QED BY <2>1, <3>1 DEF Closing, TurnComplete
  <2>3. QED BY <1>0, <1>1, <1>3, <2>2
<1>5. CASE Ended(s)
  <2>1. cancels = 0 OBVIOUS
  <2>2. \A i \in DOMAIN lane : IsRequest(i) /\ Owner(lane[i].call) = s => Closing(s, i)
    BY <1>5, <2>1 DEF EndInv
  <2>3. \A a \in pending : Owner(a) = s => Closing(s, 0)
    BY <1>5, <2>1 DEF EndInv
  <2>4. \A a \in pending' : calls'[a].session = s => Closing(s, 0)'
    BY <1>0, <1>2, <2>3 DEF Owner
  <2>5. QED BY <1>1, <1>2, <1>3, <2>2, <2>4
<1>6. QED BY <1>4, <1>5

\* The supervisor takes the head of the lane: a card it adds was a request with a
\* TurnComplete behind it, and a TurnComplete it takes voids the cards before it.
LEMMA TakingKeepsClosing ==
  ASSUME GrantInv, EndInv, lane # <<>>, lane' = Tail(lane),
         UNCHANGED <<pc, calls, cancels>>,
         \A a \in pending' : a \in pending \/ (Head(lane).kind = "tool_requested" /\ Head(lane).call = a),
         \A a \in pending' : Head(lane) # TurnComplete(Owner(a))
  PROVE  EndInv'
<1> SUFFICES ASSUME cancels = 0, NEW s \in Sessions, Ended(s)
             PROVE  /\ \A i \in DOMAIN lane' :
                         lane'[i].kind = "tool_requested" /\ Owner(lane'[i].call) = s
                           => Closing(s, i)'
                    /\ \A a \in pending' : Owner(a) = s => Closing(s, 0)'
  BY DEF EndInv, IsRequest, Owner, Ended
<1>0. lane \in Seq(Event) BY DEF GrantInv, GrantType
<1>1. /\ 1 \in DOMAIN lane /\ Head(lane) = lane[1]
      /\ \A i \in DOMAIN lane' : i \in Nat /\ i + 1 \in DOMAIN lane /\ lane'[i] = lane[i+1]
      /\ \A j \in DOMAIN lane : j \in Nat /\ (j > 1 => j - 1 \in DOMAIN lane' /\ lane'[j-1] = lane[j])
  BY <1>0
<1>2. ASSUME NEW n \in Nat, Closing(s, n + 1) PROVE Closing(s, n)'
  <2>1. PICK j \in DOMAIN lane : n + 1 < j /\ lane[j] = TurnComplete(s) BY <1>2 DEF Closing
  <2>2. j - 1 \in DOMAIN lane' /\ lane'[j-1] = TurnComplete(s) /\ n < j - 1
    BY <1>1, <2>1
  <2>3. QED BY <2>2 DEF Closing, TurnComplete
<1>3. \A i \in DOMAIN lane : IsRequest(i) /\ Owner(lane[i].call) = s => Closing(s, i)
  BY DEF EndInv
<1>4. \A i \in DOMAIN lane' :
        lane'[i].kind = "tool_requested" /\ Owner(lane'[i].call) = s => Closing(s, i)'
  BY <1>1, <1>2, <1>3 DEF IsRequest
<1>5. ASSUME NEW a \in pending', Owner(a) = s PROVE Closing(s, 0)'
  <2>1. CASE a \in pending
    <3>1. Closing(s, 0) BY <1>5, <2>1 DEF EndInv
    <3>2. PICK j \in DOMAIN lane : 0 < j /\ lane[j] = TurnComplete(s) BY <3>1 DEF Closing
    <3>3. j # 1 BY <1>1, <1>5, <3>2
    <3>4. Closing(s, 0 + 1)
      <4>1. 0 + 1 < j BY <1>1, <3>2, <3>3
      <4>2. QED BY <3>2, <4>1 DEF Closing
    <3>5. QED BY <1>2, <3>4
  <2>2. CASE Head(lane).kind = "tool_requested" /\ Head(lane).call = a
    <3>1. Closing(s, 1) BY <1>1, <1>3, <1>5, <2>2 DEF IsRequest
    <3>2. Closing(s, 0 + 1) BY <3>1
    <3>3. QED BY <1>2, <3>2
  <2>3. QED BY <2>1, <2>2
<1>6. QED BY <1>4, <1>5

\* The turns' steps.
LEMMA TurnsKeepClosing ==
  ASSUME GrantInv, WorkInv, CancelInv, EndInv, [Next]_vars,
         NEW s \in Sessions, StartTurn(s) \/ TurnStep(s)
  PROVE  EndInv'
<1>0. pc \in [Sessions -> Places] /\ lane \in Seq(Event) /\ Roots \cap Children = {}
  BY GateAssumption DEF GrantInv, GrantType
<1>p. DOMAIN calls \subseteq DOMAIN calls' /\ \A a \in DOMAIN calls : Owner(a)' = Owner(a)
  BY FactsPersist
<1>c. /\ cancels' = 0 => cancels = 0
      /\ pending' = pending
  BY DEF StartTurn, TurnStep, TimelyStep, ProviderStep, RequestTools, Announce, Receive, GiveUp,
     StopWaiting, EndTurn, Report, AbortLands, opVars, gateVars
<1>e. ASSUME NEW place \in Places, pc' = [pc EXCEPT ![s] = place],
             place = "report" => Ended(s), place = "off" /\ s \in Roots => Ended(s)
      PROVE  \A t \in Sessions : Ended(t)' => Ended(t)
  BY <1>0, <1>e DEF Ended
<1>n. lane' = lane => \A e \in Event : lane' # Append(lane, e)
  BY <1>0
<1>1. ASSUME lane' = lane, \A t \in Sessions : Ended(t)' => Ended(t) PROVE EndInv'
  BY <1>p, <1>c, <1>n, <1>1, LaterEndsClose
<1>2. CASE StartTurn(s) \/ Receive(s) \/ (\E lagged \in BOOLEAN : GiveUp(s, lagged))
           \/ \E batch \in Batches : RequestTools(s, batch)
  <2>1. /\ lane' = lane
        /\ \E place \in {"think", "collect", "announce"} : pc' = [pc EXCEPT ![s] = place]
    BY <1>2 DEF StartTurn, Receive, GiveUp, StopWaiting, RequestTools
  <2>2. QED BY <1>1, <1>e, <2>1 DEF Places
<1>3. CASE AbortLands(s)
  <2>1. s \in aborted BY <1>3 DEF AbortLands
  <2>2. cancels # 0 BY <2>1 DEF CancelInv
  <2>3. cancels' # 0 BY <1>c, <2>2
  <2>4. QED BY <2>3 DEF EndInv
<1>4. CASE Announce(s)
  <2>1. /\ lane' = Append(lane, ToolRequested(s, Head(left[s]))) /\ pc[s] = "announce"
        /\ \E place \in {"collect", "announce"} : pc' = [pc EXCEPT ![s] = place]
        /\ calls' = calls
    BY <1>4 DEF Announce, Emit
  <2>2. \A t \in Sessions : Ended(t)' => Ended(t) BY <1>e, <2>1 DEF Places
  <2>3. left[s] \in Seq(Nat) /\ left[s] # <<>> BY <2>1 DEF GrantInv, GrantType, LeftInv
  <2>4. 1 \in DOMAIN left[s] /\ Head(left[s]) = left[s][1] BY <2>3
  <2>5. PICK a \in Nat : a = left[s][1] BY <2>3, <2>4
  <2>6. Owner(a) = s /\ a \in DOMAIN calls BY <2>4, <2>5 DEF GrantInv, LeftInv, Undecided
  <2>7. a \in Ids BY <2>6, CallHasOwner
  <2>8. PICK f \in Event : f = ToolRequested(s, a) /\ f.call = a
    <3>1. ToolRequested(s, a) \in Event /\ ToolRequested(s, a).call = a
      BY <2>7 DEF ToolRequested, Event
    <3>2. QED BY <3>1
  <2>9. lane' = Append(lane, f) BY <2>1, <2>4, <2>5, <2>8
  <2>10. \A e \in Event : lane' = Append(lane, e) => e = f
    <3>1. \A e \in Event : Append(lane, e)[Len(lane) + 1] = e BY <1>0
    <3>2. QED BY <2>9, <3>1
  <2>11. ~Ended(s)' BY <1>0, <2>1 DEF Ended
  <2>12. \A e \in Event, t \in Sessions :
           lane' = Append(lane, e) /\ e.kind = "tool_requested" /\ calls'[e.call].session = t
             => ~Ended(t)'
    <3>1. calls'[f.call].session = s BY <2>1, <2>6, <2>8 DEF Owner
    <3>2. SUFFICES ASSUME NEW e \in Event, NEW t \in Sessions,
                          lane' = Append(lane, e), calls'[e.call].session = t
                   PROVE  ~Ended(t)'
      OBVIOUS
    <3>3. t = s BY <2>10, <3>1, <3>2
    <3>4. QED BY <2>11, <3>3
  <2>13. QED BY <1>p, <1>c, <2>2, <2>9, <2>12, LaterEndsClose
<1>5. ASSUME NEW f \in Event, lane' = Append(lane, f), f.kind # "tool_requested",
             \A t \in Sessions : Ended(t)' => Ended(t) \/ lane' = Append(lane, TurnComplete(t))
      PROVE  EndInv'
  <2>1. \A e \in Event : lane' = Append(lane, e) => e = f
    <3>1. \A e \in Event : Append(lane, e)[Len(lane) + 1] = e BY <1>0
    <3>2. QED BY <1>5, <3>1
  <2>2. \A e \in Event : lane' = Append(lane, e) => e.kind # "tool_requested" BY <1>5, <2>1
  <2>3. QED BY <1>p, <1>c, <1>5, <2>2, LaterEndsClose
<1>6. ASSUME NEW ok \in BOOLEAN, EndTurn(s, ok) PROVE EndInv'
  <2>1. /\ lane' = IF ok \/ s \in Roots THEN Append(lane, TurnComplete(s)) ELSE lane
        /\ pc' = [pc EXCEPT ![s] = IF s \in Roots THEN "off" ELSE IF ok THEN "report" ELSE "report error"]
    BY <1>6 DEF EndTurn
  <2>2. TurnComplete(s) \in Event /\ TurnComplete(s).kind = "turn_complete"
    BY DEF TurnComplete, Event
  <2>3. \A t \in Sessions : t # s => (Ended(t)' <=> Ended(t)) BY <1>0, <2>1 DEF Ended
  <2>4. CASE ok \/ s \in Roots
    <3>1. lane' = Append(lane, TurnComplete(s)) BY <2>1, <2>4
    <3>2. QED BY <1>5, <2>2, <2>3, <3>1
  <2>5. CASE ~ok /\ s \notin Roots
    <3>1. lane' = lane /\ pc' = [pc EXCEPT ![s] = "report error"] BY <2>1, <2>5
    <3>2. QED BY <1>1, <1>e, <3>1 DEF Places
  <2>6. QED BY <2>4, <2>5
<1>7. CASE Report(s)
  <2>1. /\ s \in Children /\ pc[s] # "off" /\ pc' = [pc EXCEPT ![s] = "off"]
        /\ \E out \in {"ok", "error"} : lane' = Append(lane, ToolResult(Owner(origin[s]), origin[s], out))
    BY <1>7 DEF Report, Emit
  <2>2. origin[s] \in DOMAIN calls BY <2>1 DEF WorkInv
  <2>3. origin[s] \in Ids /\ Owner(origin[s]) \in Sessions BY <2>2, CallHasOwner
  <2>4. PICK out \in {"ok", "error"} : lane' = Append(lane, ToolResult(Owner(origin[s]), origin[s], out))
    BY <2>1
  <2>5. /\ ToolResult(Owner(origin[s]), origin[s], out) \in Event
        /\ ToolResult(Owner(origin[s]), origin[s], out).kind = "tool_result"
    BY <2>3 DEF ToolResult, Event, Outs
  <2>6. \A t \in Sessions : Ended(t)' => Ended(t) BY <1>0, <1>e, <2>1 DEF Places
  <2>7. QED BY <1>5, <2>4, <2>5, <2>6
<1>8. QED BY <1>2, <1>3, <1>4, <1>6, <1>7 DEF TurnStep, TimelyStep, ProviderStep

\* The supervisor's steps.
LEMMA SupervisorKeepsClosing ==
  ASSUME GrantInv, EndInv, Supervise
  PROVE  EndInv'
<1>0. lane \in Seq(Event) /\ lane # <<>> /\ lane' = Tail(lane) /\ UNCHANGED <<pc, calls, cancels>>
  BY DEF Supervise, HandleToolRequested, HandleUserApproval, HandlePurge, HandleToolResult, Takes,
     turnVars, opVars, GrantInv, GrantType
<1>1. \A t : TurnComplete(t).kind = "turn_complete" /\ TurnComplete(t).session = t BY DEF TurnComplete
<1>2. ASSUME \A a \in pending' : a \in pending \/ (Head(lane).kind = "tool_requested" /\ Head(lane).call = a),
             \A a \in pending' : Head(lane) # TurnComplete(Owner(a))
      PROVE  EndInv'
  BY <1>0, <1>2, TakingKeepsClosing
<1>3. CASE HandleToolRequested
  BY <1>1, <1>2, <1>3 DEF HandleToolRequested, Takes
<1>4. CASE HandleUserApproval
  BY <1>1, <1>2, <1>4 DEF HandleUserApproval, Takes
<1>5. CASE HandlePurge("user_cancel")
  BY <1>1, <1>2, <1>5 DEF HandlePurge, PurgeSession, Takes
<1>6. CASE HandlePurge("turn_complete")
  BY <1>1, <1>2, <1>6 DEF HandlePurge, PurgeSession, Takes
<1>7. CASE HandleToolResult
  BY <1>1, <1>2, <1>7 DEF HandleToolResult, Takes
<1>8. QED BY <1>3, <1>4, <1>5, <1>6, <1>7 DEF Supervise

\* Everybody else adds at most a result or an answer to the lane, and ends no turn.
LEMMA OthersKeepClosing ==
  ASSUME GrantInv, WorkInv, CancelInv, EndInv, [Next]_vars,
         ~Supervise, \A s \in Sessions : ~StartTurn(s) /\ ~TurnStep(s)
  PROVE  EndInv'
<1>0. pc \in [Sessions -> Places] /\ lane \in Seq(Event) /\ Roots \cap Children = {}
  BY GateAssumption DEF GrantInv, GrantType
<1>p. DOMAIN calls \subseteq DOMAIN calls' /\ \A a \in DOMAIN calls : Owner(a)' = Owner(a)
  BY FactsPersist
<1>1. ASSUME lane' = lane, pending' = pending, cancels' = cancels,
             \A t \in Sessions : Ended(t)' => Ended(t)
      PROVE  EndInv'
  <2>1. \A e \in Event : lane' # Append(lane, e) BY <1>0, <1>1
  <2>2. QED BY <1>p, <1>1, <2>1, LaterEndsClose
<1>2. ASSUME lane' = lane, UNCHANGED <<pc, pending, cancels>> PROVE EndInv'
  BY <1>1, <1>2 DEF Ended
<1>3. ASSUME NEW f \in Event, lane' = Append(lane, f), f.kind # "tool_requested",
             UNCHANGED <<pc, pending, cancels>>
      PROVE  EndInv'
  <2>1. \A e \in Event : lane' = Append(lane, e) => e = f
    <3>1. \A e \in Event : Append(lane, e)[Len(lane) + 1] = e BY <1>0
    <3>2. QED BY <1>3, <3>1
  <2>2. \A e \in Event : lane' = Append(lane, e) => e.kind # "tool_requested" BY <1>3, <2>1
  <2>3. \A t \in Sessions : Ended(t)' => Ended(t) BY <1>3 DEF Ended
  <2>4. QED BY <1>p, <1>3, <2>2, <2>3, LaterEndsClose
<1>4. ASSUME NEW a \in Ids, \/ \E out \in {"ok", "error"} : ToolFinishes(a, out)
                            \/ AnswerNegatively(a)
      PROVE  EndInv'
  <2>1. /\ \E out \in Outs : lane' = Append(lane, ToolResult(Owner(a), a, out))
        /\ UNCHANGED <<pc, pending, cancels>> /\ job[a] # "none"
    BY <1>4 DEF ToolFinishes, AnswerNegatively, Emit, Outs, turnVars, gateVars, opVars
  <2>2. a \in DOMAIN calls BY <2>1 DEF WorkInv
  <2>3. Owner(a) \in Sessions BY <2>2, CallHasOwner
  <2>4. PICK out \in Outs : lane' = Append(lane, ToolResult(Owner(a), a, out)) BY <2>1
  <2>5. /\ ToolResult(Owner(a), a, out) \in Event
        /\ ToolResult(Owner(a), a, out).kind = "tool_result"
    BY <2>3 DEF ToolResult, Event
  <2>6. QED BY <1>3, <2>1, <2>4, <2>5
<1>5. ASSUME NEW a \in Ids, NEW s \in Sessions, NEW granted \in BOOLEAN, NEW nonce \in {0, a},
             Answer(s, a, granted, nonce)
      PROVE  EndInv'
  <2>1. /\ lane' = Append(lane, UserApproval(s, a, granted, nonce))
        /\ UNCHANGED <<pc, pending, cancels>>
    BY <1>5 DEF Answer, Emit, turnVars, gateVars
  <2>2. /\ UserApproval(s, a, granted, nonce) \in Event
        /\ UserApproval(s, a, granted, nonce).kind = "user_approval"
    BY DEF UserApproval, Event
  <2>3. QED BY <1>3, <2>1, <2>2
<1>6. CASE \/ \E a \in Ids : EmitSpawnAgent(a)
           \/ \E w \in Goals : Arm(w) \/ Disarm(w) \/ \E s \in Sessions : FanOut(s, w)
           \/ RouteCancel \/ UNCHANGED vars
  <2>1. lane' = lane /\ UNCHANGED <<pc, pending, cancels>>
    BY <1>6 DEF EmitSpawnAgent, Arm, Disarm, FanOut, RouteCancel, turnVars, gateVars, opVars, vars
  <2>2. QED BY <1>2, <2>1
<1>7. CASE RouteSpawn
  <2>1. /\ lane' = lane /\ pending' = pending /\ cancels' = cancels
        /\ pc' = pc \/ \E c \in Children : pc' = [pc EXCEPT ![c] = "think"]
    BY <1>7 DEF RouteSpawn, gateVars, opVars
  <2>2. \A t \in Sessions : Ended(t)' => Ended(t) BY <1>0, <2>1 DEF Ended
  <2>3. QED BY <1>1, <2>1, <2>2
<1>8. ASSUME NEW s \in Roots, UserCancel(s) PROVE EndInv'
  <2>1. cancels' = cancels + 1 /\ cancels \in Nat BY <1>8 DEF UserCancel, CancelInv
  <2>2. cancels' # 0 BY <2>1
  <2>3. QED BY <2>2 DEF EndInv
<1>9. QED BY <1>4, <1>5, <1>6, <1>7, <1>8 DEF Next

\* Every step keeps the ends behind their turns' requests.
LEMMA ClosingKept ==
  ASSUME GrantInv, WorkInv, CancelInv, EndInv, [Next]_vars
  PROVE  EndInv'
<1>1. CASE Supervise BY <1>1, SupervisorKeepsClosing
<1>2. ASSUME NEW s \in Sessions, StartTurn(s) \/ TurnStep(s) PROVE EndInv'
  BY <1>2, TurnsKeepClosing
<1>3. CASE ~Supervise /\ \A s \in Sessions : ~StartTurn(s) /\ ~TurnStep(s)
  BY <1>3, OthersKeepClosing
<1>4. QED BY <1>1, <1>2, <1>3

\* A request or a card of a turn that ended on its own has the turn's end behind it.
THEOREM EndInvariant == Spec => [](CancelInv /\ EndInv)
<1>1. Init => CancelInv /\ EndInv
  BY DEF Init, CancelInv, EndInv, In
<1>2. GrantInv /\ WorkInv /\ CancelInv /\ EndInv /\ [Next]_vars => (CancelInv /\ EndInv)'
  BY CancelKept, ClosingKept
<1>3. QED BY <1>1, <1>2, GrantInvariant, PTL DEF Spec

\* Approvals die with the turn: while no client cancels, a card of a turn that ended on its
\* own is void once the supervisor has read the turn's TurnComplete (supervisor.rs:
\* purge_session_approvals; turn.rs: the end of run_turn).
THEOREM ApprovalsDieWithTheTurn == Spec => []EndedTurnLeavesNoGrant
<1>1. GrantInv /\ EndInv => EndedTurnLeavesNoGrant
  <2> SUFFICES ASSUME GrantInv, EndInv, NEW a \in pending, cancels = 0,
                      pc[Owner(a)] \in {"off", "report"},
                      ~(Owner(a) \in Children /\ pc[Owner(a)] = "off")
               PROVE  \E i \in DOMAIN lane : lane[i] = TurnComplete(Owner(a))
    BY DEF EndedTurnLeavesNoGrant
  <2>1. a \in DOMAIN calls BY DEF GrantInv, GrantType
  <2>2. Owner(a) \in Sessions BY <2>1, CallHasOwner
  <2>3. Ended(Owner(a)) BY <2>2 DEF Ended, Sessions
  <2>4. Closing(Owner(a), 0) BY <2>2, <2>3 DEF EndInv
  <2>5. QED BY <2>4 DEF Closing
<1>2. QED BY <1>1, GrantInvariant, EndInvariant, PTL

-----------------------------------------------------------------------------
(* Types.  What is left to type is the tree of sub-agents, which a cancel     *)
(* walks, and the operators' answers.                                        *)

\* Every non-empty set of numbers has a least one.
LEMMA LeastNumber ==
  ASSUME NEW P, P \subseteq Nat, P # {}
  PROVE  \E n \in P : \A m \in P : n <= m
<1>1. IsWellFoundedOn(OpToRel(<, Nat), Nat) BY NatLessThanWellFounded
<1>2. PICK x \in P : \A y \in P : ~(<<y, x>> \in OpToRel(<, Nat)) BY <1>1, WFMin
<1>3. \A y \in P : ~(y < x) BY <1>2 DEF OpToRel
<1>4. QED BY <1>3

\* The sessions n levels below s, from those n - 1 levels below it.
Below(tree, n) == tree[n-1] \cup UNION {kids[t] : t \in tree[n-1]}

\* The equation that defines the tree below s, down to a level.
Levels(s, k, tree) == [n \in 0..k |-> IF n = 0 THEN {s} ELSE Below(tree, n)]

KidsType == kids \in [Sessions -> SUBSET Sessions]

\* It has a solution, of sessions only.
LEMMA LevelsExist ==
  ASSUME KidsType, NEW s \in Sessions, NEW depths \in Nat
  PROVE  \E tree \in [0..depths -> SUBSET Sessions] : tree = Levels(s, depths, tree)
<1> DEFINE Good(k) == \E tree \in [0..k -> SUBSET Sessions] : tree = Levels(s, k, tree)
           Bad == {k \in Nat : ~Good(k)}
<1>1. Good(0)
  <2> DEFINE g == [n \in 0..0 |-> {s}]
  <2>1. g \in [0..0 -> SUBSET Sessions] OBVIOUS
  <2>2. g = Levels(s, 0, g) BY DEF Levels
  <2>3. QED BY <2>1, <2>2
<1>2. ASSUME NEW k \in Nat, Good(k) PROVE Good(k + 1)
  <2>1. PICK g \in [0..k -> SUBSET Sessions] : g = Levels(s, k, g) BY <1>2
  <2>2. \A n \in 0..k : g[n] = IF n = 0 THEN {s} ELSE Below(g, n)
    <3>1. \A n \in 0..k : g[n] = Levels(s, k, g)[n] BY <2>1
    <3>2. QED BY <3>1 DEF Levels
  <2> DEFINE new == g[k] \cup UNION {kids[t] : t \in g[k]}
  <2>3. new \in SUBSET Sessions BY DEF KidsType
  <2> HIDE DEF new
  <2> DEFINE h == [n \in 0..(k+1) |-> IF n \in 0..k THEN g[n] ELSE new]
  <2>4. h \in [0..(k+1) -> SUBSET Sessions] BY <2>3
  <2>5. ASSUME NEW n \in 0..(k+1) PROVE h[n] = IF n = 0 THEN {s} ELSE Below(h, n)
    <3>1. CASE n \in 0..k
      <4>1. h[n] = g[n] /\ (n # 0 => h[n-1] = g[n-1]) BY <3>1
      <4> HIDE DEF h
      <4>2. QED BY <2>2, <3>1, <4>1 DEF Below
    <3>2. CASE n = k + 1
      <4>1. h[n] = new /\ h[n-1] = g[k] /\ n # 0 BY <3>2
      <4> HIDE DEF h
      <4>2. QED BY <4>1 DEF new, Below
    <3>3. QED BY <3>1, <3>2
  <2>6. h = [n \in 0..(k+1) |-> h[n]] OBVIOUS
  <2> HIDE DEF h
  <2>7. h = Levels(s, k + 1, h) BY <2>5, <2>6 DEF Levels
  <2>8. QED BY <2>4, <2>7
<1> HIDE DEF Good
<1>3. Bad = {}
  <2>1. SUFFICES ASSUME Bad # {} PROVE FALSE OBVIOUS
  <2>2. Bad \subseteq Nat OBVIOUS
  <2>3. PICK n \in Bad : \A m \in Bad : n <= m BY <2>1, <2>2, LeastNumber
  <2>4. n \in Nat /\ n # 0 BY <1>1
  <2>5. n - 1 \in Nat /\ ~(n <= n - 1) /\ (n - 1) + 1 = n BY <2>4
  <2>6. n - 1 \notin Bad BY <2>3, <2>5
  <2>7. Good(n - 1) BY <2>5, <2>6
  <2>8. Good((n - 1) + 1) BY <1>2, <2>5, <2>7
  <2>9. QED BY <2>5, <2>8
<1>4. QED BY <1>3 DEF Good

\* A cancel reaches sessions only.
LEMMA SubtreeOfSessions ==
  ASSUME KidsType, NEW s \in Sessions
  PROVE  Subtree(s) \subseteq Sessions
<1> DEFINE N == Cardinality(Sessions)
           R == CHOOSE tree : tree = Levels(s, N, tree)
<1>0. N \in Nat BY FS_CardinalityType, GateAssumption
<1>1. \E tree : tree = Levels(s, N, tree) BY <1>0, LevelsExist
<1>2. R = Levels(s, N, R) BY <1>1, Zenon
<1>3. Subtree(s) = R[N] BY Zenon DEF Subtree, Levels, Below
<1> HIDE DEF R, N
<1>4. \A n \in 0..N : R[n] = IF n = 0 THEN {s} ELSE Below(R, n)
  <2>1. \A n \in 0..N : R[n] = Levels(s, N, R)[n] BY <1>2
  <2>2. QED BY <2>1 DEF Levels
<1> DEFINE Bad == {k \in 0..N : ~(R[k] \subseteq Sessions)}
<1>5. Bad = {}
  <2>1. SUFFICES ASSUME Bad # {} PROVE FALSE OBVIOUS
  <2>2. Bad \subseteq Nat BY <1>0
  <2>3. PICK n \in Bad : \A m \in Bad : n <= m BY <2>1, <2>2, LeastNumber
  <2>4. n \in 0..N /\ n # 0 BY <1>0, <1>4
  <2>5. n - 1 \in 0..N /\ ~(n <= n - 1) BY <1>0, <2>4
  <2>6. n - 1 \notin Bad BY <2>3, <2>5
  <2>7. R[n-1] \subseteq Sessions BY <2>5, <2>6
  <2>8. R[n] = Below(R, n) BY <1>4, <2>4
  <2>9. R[n] \subseteq Sessions BY <2>7, <2>8 DEF Below, KidsType
  <2>10. QED BY <2>9
<1>6. N \in 0..N BY <1>0
<1>7. QED BY <1>3, <1>5, <1>6

TreeType ==
  /\ aborted \subseteq Sessions
  /\ depth \in [Sessions -> Nat] /\ kids \in [Sessions -> SUBSET Children]
  /\ yes \subseteq shown /\ no \subseteq shown
  /\ turns \in 0..MaxTurns /\ answers \in 0..MaxAnswers /\ cancels \in 0..MaxCancels

\* Every step keeps the types of the tree and the answers.
LEMMA TreeTypeKept ==
  ASSUME GrantInv, WorkInv, TreeType, [Next]_vars
  PROVE  TreeType'
<1>0. /\ shown \subseteq shown' /\ Roots \subseteq Sessions /\ Children \subseteq Sessions
      /\ MaxTurns \in Nat /\ MaxAnswers \in Nat /\ MaxCancels \in Nat
  BY FactsPersist, GateAssumption DEF Sessions
<1>b. \A n, m \in Nat : n < m => n + 1 \in 0..m OBVIOUS
<1>1. ASSUME aborted' \subseteq aborted, UNCHANGED <<depth, kids, yes, no, turns, answers, cancels>>
      PROVE  TreeType'
  BY <1>0, <1>1 DEF TreeType
<1>2. ASSUME NEW s \in Sessions, TurnStep(s), ~Report(s) PROVE TreeType'
  <2>1. aborted' \subseteq aborted /\ UNCHANGED <<depth, kids, yes, no, turns, answers, cancels>>
    BY <1>2 DEF TurnStep, TimelyStep, ProviderStep, RequestTools, Announce, Receive, GiveUp, StopWaiting,
       EndTurn, AbortLands, treeVars, opVars
  <2>2. QED BY <1>1, <2>1
<1>3. ASSUME NEW s \in Sessions, StartTurn(s) PROVE TreeType'
  <2>1. /\ turns < MaxTurns /\ turns' = turns + 1
        /\ UNCHANGED <<aborted, depth, kids, yes, no, answers, cancels>>
    BY <1>3 DEF StartTurn, treeVars, opVars
  <2>2. turns' \in 0..MaxTurns BY <1>0, <1>b, <2>1 DEF TreeType
  <2>3. QED BY <1>0, <2>1, <2>2 DEF TreeType
<1>4. ASSUME NEW s \in Sessions, Report(s) PROVE TreeType'
  <2>1. /\ s \in Children /\ pc[s] # "off" /\ aborted' \subseteq aborted
        /\ depth' = [depth EXCEPT ![s] = 0]
        /\ kids' = [kids EXCEPT ![s] = {}, ![Owner(origin[s])] = @ \ {s}]
        /\ UNCHANGED <<yes, no, turns, answers, cancels>>
    BY <1>4 DEF Report, opVars
  <2>2. origin[s] \in DOMAIN calls BY <2>1 DEF WorkInv
  <2>3. Owner(origin[s]) \in Sessions BY <2>2, CallHasOwner
  <2>4. kids' \in [Sessions -> SUBSET Children] BY <2>1, <2>3 DEF TreeType
  <2>5. QED BY <1>0, <2>1, <2>4 DEF TreeType
<1>5. ASSUME \/ Supervise \/ UNCHANGED vars
             \/ \E a \in Ids : \/ \E out \in {"ok", "error"} : ToolFinishes(a, out)
                               \/ AnswerNegatively(a) \/ EmitSpawnAgent(a)
             \/ \E w \in Goals : Arm(w) \/ Disarm(w) \/ \E s \in Sessions : FanOut(s, w)
      PROVE  TreeType'
  <2>1. aborted' \subseteq aborted /\ UNCHANGED <<depth, kids, yes, no, turns, answers, cancels>>
    BY <1>5 DEF Supervise, HandleToolRequested, HandleUserApproval, HandlePurge, HandleToolResult,
       ToolFinishes, AnswerNegatively, EmitSpawnAgent, Arm, Disarm, FanOut, turnVars, treeVars,
       opVars, vars
  <2>2. QED BY <1>1, <2>1
<1>6. ASSUME NEW a \in Ids, NEW s \in Sessions, NEW granted \in BOOLEAN, NEW nonce \in {0, a},
             Answer(s, a, granted, nonce)
      PROVE  TreeType'
  <2>1. /\ answers < MaxAnswers /\ answers' = answers + 1 /\ a \in shown
        /\ yes' \subseteq yes \cup {a} /\ no' \subseteq no \cup {a}
        /\ UNCHANGED <<aborted, depth, kids, shown, turns, cancels>>
    BY <1>6 DEF Answer, turnVars, treeVars
  <2>2. answers' \in 0..MaxAnswers BY <1>0, <1>b, <2>1 DEF TreeType
  <2>3. QED BY <2>1, <2>2 DEF TreeType
<1>7. CASE RouteCancel
  <2>1. PICK s \in Sessions : s = Head(router).session
    <3>1. router \in Seq(Event) /\ router # <<>> BY <1>7 DEF RouteCancel, WorkInv
    <3>2. Head(router) \in Event BY <3>1
    <3>3. Head(router).session \in Sessions BY <3>2 DEF Event
    <3>4. QED BY <3>3
  <2>2. KidsType BY <1>0 DEF KidsType, TreeType
  <2>3. Subtree(s) \subseteq Sessions BY <2>2, SubtreeOfSessions
  <2>4. /\ aborted' = aborted \cup {t \in Subtree(s) : pc[t] # "off"}
        /\ UNCHANGED <<depth, kids, yes, no, turns, answers, cancels>>
    BY <1>7, <2>1 DEF RouteCancel, treeVars, opVars
  <2>5. aborted' \subseteq Sessions BY <2>3, <2>4 DEF TreeType
  <2>6. QED BY <1>0, <2>4, <2>5 DEF TreeType
<1>8. CASE RouteSpawn
  <2>1. PICK s \in Sessions : s = Head(router).session
    <3>1. router \in Seq(Event) /\ router # <<>> BY <1>8 DEF RouteSpawn, WorkInv
    <3>2. Head(router) \in Event BY <3>1
    <3>3. Head(router).session \in Sessions BY <3>2 DEF Event
    <3>4. QED BY <3>3
  <2>2. /\ UNCHANGED <<aborted, yes, no, turns, answers, cancels>>
        /\ \/ UNCHANGED <<depth, kids>>
           \/ \E c \in Children : /\ depth' = [depth EXCEPT ![c] = depth[s] + 1]
                                  /\ kids' = [kids EXCEPT ![s] = @ \cup {c}]
    BY <1>8, <2>1 DEF RouteSpawn, treeVars, opVars
  <2>3. depth' \in [Sessions -> Nat] /\ kids' \in [Sessions -> SUBSET Children]
    BY <1>0, <2>2 DEF TreeType
  <2>4. QED BY <1>0, <2>2, <2>3 DEF TreeType
<1>9. ASSUME NEW s \in Roots, UserCancel(s) PROVE TreeType'
  <2>1. /\ cancels < MaxCancels /\ cancels' = cancels + 1
        /\ UNCHANGED <<aborted, depth, kids, yes, no, turns, answers>>
    BY <1>9 DEF UserCancel, turnVars, treeVars
  <2>2. cancels' \in 0..MaxCancels BY <1>0, <1>b, <2>1 DEF TreeType
  <2>3. QED BY <1>0, <2>1, <2>2 DEF TreeType
<1>10. QED BY <1>2, <1>3, <1>4, <1>5, <1>6, <1>7, <1>8, <1>9 DEF Next

\* Every variable has its type, and every id in use is that of a call made.
THEOREM TypeCorrect == Spec => []TypeOK
<1>1. Init => TreeType
  BY GateAssumption DEF Init, TreeType
<1>2. GrantInv /\ WorkInv /\ TreeType /\ [Next]_vars => TreeType'
  BY TreeTypeKept
<1>3. GrantInv /\ WorkInv /\ TruthInv /\ TreeType => TypeOK
  <2>1. SUFFICES ASSUME GrantInv, WorkInv, TruthInv, TreeType PROVE TypeOK OBVIOUS
  <2>2. left \in [Sessions -> Seq(DOMAIN calls)]
    <3>1. ASSUME NEW s \in Sessions PROVE left[s] \in Seq(DOMAIN calls)
      <4>1. left[s] \in Seq(Nat) BY <2>1 DEF GrantInv, GrantType
      <4>2. \A i \in DOMAIN left[s] : left[s][i] \in DOMAIN calls
        BY <2>1 DEF GrantInv, LeftInv, Undecided
      <4>3. \A q \in Seq(Nat) : \A S : (\A i \in DOMAIN q : q[i] \in S) => q \in Seq(S)
        OBVIOUS
      <4>4. QED BY <4>1, <4>2, <4>3
    <3>2. left \in [Sessions -> Seq(Nat)] BY <2>1 DEF GrantInv, GrantType
    <3>3. QED BY <3>1, <3>2
  <2>3. origin \in [Children -> {0} \cup DOMAIN calls]
    <3>1. \A c \in Children : origin[c] # 0 => origin[c] \in DOMAIN calls
      BY <2>1 DEF TruthInv, JobInv, GrantInv, RunInv
    <3>2. QED BY <2>1, <3>1 DEF WorkInv
  <2>4. stamped \subseteq shown BY <2>1 DEF GrantInv, RunInv, TreeType
  <2>5. QED
    BY <2>1, <2>2, <2>3, <2>4 DEF TypeOK, GrantInv, GrantType, WorkInv, TruthInv, InboxInv,
       BeliefInv, TreeType, Call
<1>4. QED BY <1>1, <1>2, <1>3, GrantInvariant, TruthInvariant, PTL DEF Spec
=============================================================================

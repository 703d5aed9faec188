------------------------------ MODULE History ------------------------------
(***************************************************************************)
(* Conversation histories: the pure functions of core/src/history.rs.      *)
(*                                                                         *)
(* A message is a role and a sequence of content blocks.  A block keeps    *)
(* its kind and one number: the identity (and, for a text, the size) of    *)
(* its payload, the id of the tool call, or the count a trim notice        *)
(* carries.  The wording of the markers is left out; which message is a    *)
(* marker, and what it counts, is kept.                                    *)
(*                                                                         *)
(* The loops of the source are recursive functions, not RECURSIVE          *)
(* operators, so that modules with proofs may extend this one.             *)
(***************************************************************************)
EXTENDS Integers, Sequences, SequencesExt

-----------------------------------------------------------------------------
(* Blocks and messages.                                                     *)

BlockKinds == {"text", "tool_use", "tool_result", "lost_result",
               "opening_lost", "trim_notice"}

Block == [kind : BlockKinds, id : Nat]

Message == [role : {"user", "assistant"}, content : Seq(Block)]

Text(n) == [kind |-> "text", id |-> n]
ToolUse(i) == [kind |-> "tool_use", id |-> i]
ToolResult(i) == [kind |-> "tool_result", id |-> i]
LostResult(i) == [kind |-> "lost_result", id |-> i]

User(blocks) == [role |-> "user", content |-> blocks]
Assistant(blocks) == [role |-> "assistant", content |-> blocks]

\* A tool_result block, genuine or synthesised.
IsResult(b) == b.kind \in {"tool_result", "lost_result"}

ResultIds(m) == {m.content[k].id : k \in {j \in DOMAIN m.content : IsResult(m.content[j])}}

\* The ids of the tool_use blocks of an assistant message; none for a user's.
ToolUseIds(m) ==
  IF m.role = "assistant"
    THEN {m.content[k].id : k \in {j \in DOMAIN m.content : m.content[j].kind = "tool_use"}}
    ELSE {}

-----------------------------------------------------------------------------
(* The window the model sees: trim_history.                                 *)

\* Rough size of a message.  A text is charged by its payload, a tool block
\* a flat two units, and every message one unit of framing.
BlockTokens(b) ==
  CASE b.kind = "text" -> b.id
    [] b.kind \in {"tool_use", "tool_result", "lost_result"} -> 2
    [] OTHER -> 1

\* The sum of a sequence of numbers.
Total(s) ==
  LET Upto[n \in 0..Len(s)] == IF n = 0 THEN 0 ELSE Upto[n-1] + s[n]
  IN Upto[Len(s)]

MsgTokens(m) == Total([k \in DOMAIN m.content |-> BlockTokens(m.content[k])]) + 1

EstimateHistory(h) == Total([k \in DOMAIN h |-> MsgTokens(h[k])])

\* Mutant of IsTurnStart: every user message opens a turn.
AnyUserMessage(m) == m.role = "user"

\* A clean turn boundary: a user message that delivers no tool_result.
IsTurnStart(m) == m.role = "user" /\ ResultIds(m) = {}

TrimTrigger(budget) == budget + budget \div 5
TrimTarget(budget) == budget - budget \div 4

TrimMarker(dropped) == User(<<[kind |-> "trim_notice", id |-> dropped]>>)

IsTrimMarker(m) ==
  /\ m.role = "user"
  /\ Len(m.content) = 1
  /\ m.content[1].kind = "trim_notice"

\* Estimated size of the messages from position i on (suffix[i] of the code).
SuffixTokens(h, i) == EstimateHistory(SubSeq(h, i, Len(h)))

\* Where a trim that fires cuts: the earliest turn start whose suffix fits the
\* floor, else the last turn start; 0 when the window has none.
TrimCut(h, budget) ==
  LET starts == {i \in DOMAIN h : IsTurnStart(h[i])}
      fits == {i \in starts : SuffixTokens(h, i) <= TrimTarget(budget)}
  IN IF fits # {} THEN CHOOSE i \in fits : \A j \in fits : i <= j
     ELSE IF starts # {} THEN CHOOSE i \in starts : \A j \in starts : j <= i
     ELSE 0

\* Mutant of TrimHistory: an older notice is counted as a dropped message.
TrimCountsNotice(h, budget) ==
  IF budget = 0 \/ h = <<>> \/ SuffixTokens(h, 1) <= TrimTrigger(budget)
    THEN h
    ELSE LET cut == TrimCut(h, budget)
             prior == IF IsTrimMarker(h[1]) THEN h[1].content[1].id ELSE 0
         IN IF cut <= 1 THEN h
            ELSE <<TrimMarker(prior + (cut - 1))>> \o SubSeq(h, cut, Len(h))

\* Cut whole oldest turns once the window overshoots its budget, leaving one
\* notice that counts every message dropped so far: an older notice at the
\* front is folded into the count, not counted as a message.
TrimHistory(h, budget) ==
  IF budget = 0 \/ h = <<>> \/ SuffixTokens(h, 1) <= TrimTrigger(budget)
    THEN h
    ELSE LET cut == TrimCut(h, budget)
             prior == IF IsTrimMarker(h[1]) THEN h[1].content[1].id ELSE 0
             already == IF IsTrimMarker(h[1]) THEN 1 ELSE 0
         IN IF cut <= 1 THEN h
            ELSE <<TrimMarker(prior + (cut - 1 - already))>> \o SubSeq(h, cut, Len(h))

-----------------------------------------------------------------------------
(* What a reload does to a session file: repair_history.                    *)

AnswersAny(m, ids) == m.role = "user" /\ ResultIds(m) \cap ids # {}

\* All results come before all other blocks.
ResultsFirst(m) ==
  \A j, k \in DOMAIN m.content : IsResult(m.content[k]) /\ j < k => IsResult(m.content[j])

\* The elements of q at the positions in I, in the order they stand: the
\* loops that push what they keep.
Kept(q, I) ==
  LET Upto[n \in 0..Len(q)] ==
        IF n = 0 THEN <<>>
        ELSE IF n \in I THEN Append(Upto[n-1], q[n]) ELSE Upto[n-1]
  IN Upto[Len(q)]

\* The results of m for calls in ids, and its blocks that are no results.
OwnResults(m, ids) ==
  Kept(m.content, {k \in DOMAIN m.content : IsResult(m.content[k]) /\ m.content[k].id \in ids})

NonResults(m) == Kept(m.content, {k \in DOMAIN m.content : ~IsResult(m.content[k])})

\* The ids of the tool_use blocks of m, in the order they stand.
UseIdSeq(m) ==
  LET uses == Kept(m.content, {k \in DOMAIN m.content : m.content[k].kind = "tool_use"})
  IN [k \in DOMAIN uses |-> uses[k].id]

\* Those of them that m does not answer.
Unanswered(m, use) ==
  LET ids == UseIdSeq(use)
  IN Kept(ids, {k \in DOMAIN ids : ids[k] \notin ResultIds(m)})

LostResults(ids) == [k \in DOMAIN ids |-> LostResult(ids[k])]

\* Mutants of NormalizePairAnswer: calls without a result get none, and the
\* blocks beside the results are lost.
AnswerWithGaps(m, use) ==
  User(OwnResults(m, ToolUseIds(use)) \o NonResults(m))
AnswerResultsOnly(m, use) ==
  User(OwnResults(m, ToolUseIds(use)) \o LostResults(Unanswered(m, use)))

\* The user message that answers the calls of `use`: results of other calls are
\* dropped, calls without a result get a lost-result marker, other blocks follow.
NormalizePairAnswer(m, use) ==
  IF ResultsFirst(m) /\ ResultIds(m) = ToolUseIds(use)
    THEN m
    ELSE User(OwnResults(m, ToolUseIds(use)) \o LostResults(Unanswered(m, use)) \o NonResults(m))

\* The first message of q that answers one of the calls, 0 if none does.
FirstAnswer(q, ids) ==
  LET answers == {i \in DOMAIN q : AnswersAny(q[i], ids)}
  IN IF answers = {} THEN 0 ELSE CHOOSE i \in answers : \A j \in answers : i <= j

\* One iteration of the main loop takes the head of the queue and pushes it with
\* the answer to its calls, or what is left of it without the results no call owns ...
Pushed(queue) ==
  LET m == Head(queue)
      ids == ToolUseIds(m)
      k == FirstAnswer(Tail(queue), ids)
  IN IF ids # {}
       THEN <<m, IF k = 0 THEN User(LostResults(UseIdSeq(m)))
                          ELSE NormalizePairAnswer(Tail(queue)[k], m)>>
       ELSE IF m.role = "assistant" \/ ResultIds(m) = {} THEN <<m>>
       ELSE IF NonResults(m) = <<>> THEN <<>> ELSE <<User(NonResults(m))>>

\* ... and leaves the rest: messages between a call and its answer are put back in
\* front of the queue, behind the pair.
Remaining(queue) ==
  LET k == FirstAnswer(Tail(queue), ToolUseIds(Head(queue)))
  IN IF k = 0 THEN Tail(queue) ELSE RemoveAt(Tail(queue), k)

\* The main loop: restore the adjacency of tool_use and tool_result.
Pairing[queue \in Seq(Message)] ==
  IF queue = <<>> THEN <<>> ELSE Pushed(queue) \o Pairing[Remaining(queue)]

NonEmpty(h) == Kept(h, {i \in DOMAIN h : h[i].content # <<>>})

\* Mutant of RepairHistory: the opening is always taken to be lost.
RepairAlwaysOpens(h) ==
  <<User(<<[kind |-> "opening_lost", id |-> 0]>>)>>
    \o Pairing[NonEmpty(h)]

\* Drop empty messages, restore the pairs, open with a user message.
RepairHistory(h) ==
  LET out == Pairing[NonEmpty(h)]
  IN IF out # <<>> /\ out[1].role = "assistant"
       THEN <<User(<<[kind |-> "opening_lost", id |-> 0]>>)>> \o out
       ELSE out

-----------------------------------------------------------------------------
(* The shape the model provider accepts, from which the properties are       *)
(* stated.  It is a definition of its own, not a reading of RepairHistory.   *)
(* Two user messages in a row are accepted, as the comment of repair_history *)
(* and its test repair_is_a_noop_on_clean_history have it; other comments of *)
(* the repository call them rejected (README, section 5).                    *)

ApiValid(h) ==
  /\ \A i \in DOMAIN h : h[i].content # <<>>
  /\ h # <<>> => h[1].role = "user"
  /\ \A i \in DOMAIN h :
       /\ ToolUseIds(h[i]) # {} =>
            /\ i < Len(h)
            /\ h[i+1].role = "user"
            /\ ResultIds(h[i+1]) = ToolUseIds(h[i])
            /\ ResultsFirst(h[i+1])
       /\ h[i].role = "user" /\ ResultIds(h[i]) # {} =>
            i > 1 /\ ToolUseIds(h[i-1]) = ResultIds(h[i])

\* How often block b stands in a message's content, and in a history.
BlockCount(content, b) == Total([k \in DOMAIN content |-> IF content[k] = b THEN 1 ELSE 0])

Occurrences(h, b) == Total([i \in DOMAIN h |-> BlockCount(h[i].content, b)])

=============================================================================

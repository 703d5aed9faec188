-------------------------- MODULE MCHistory_proofs --------------------------
(***************************************************************************)
(* The properties of the history functions, for files and windows of any   *)
(* length and every budget: what History_proofs shows of the functions,    *)
(* carried along a growing file and along the life of a window.            *)
(***************************************************************************)
EXTENDS MCHistory, History_proofs

\* A file holds messages; a window holds messages the provider accepts, and
\* with what its notice counts they are all that was ever pushed.
IInv ==
  /\ file \in Seq(Message)
  /\ window \in Seq(Message) /\ ApiValid(window)
  /\ budget \in Budgets \cup {0}
  /\ pushed \in Nat /\ EverPushed(window) = pushed

-----------------------------------------------------------------------------
(* The messages the steps add.                                              *)

LEMMA LinesAreMessages == Lines \subseteq Message
<1>1. \A c \in Seq(Block) : User(c) \in Message /\ Assistant(c) \in Message
  BY DEF User, Assistant, Message
<1>2. \A a, b, c \in Block : /\ <<>> \in Seq(Block) /\ <<a>> \in Seq(Block)
                             /\ <<a, b>> \in Seq(Block) /\ <<a, b, c>> \in Seq(Block)
  OBVIOUS
<1>3. /\ Text(1) \in Block /\ Text(2) \in Block /\ ToolUse(1) \in Block /\ ToolUse(2) \in Block
      /\ ToolResult(1) \in Block /\ ToolResult(2) \in Block
  BY Blocks
<1>4. QED BY <1>1, <1>2, <1>3 DEF Lines

LEMMA DeltasAreClosed == \A d \in Deltas : Closed(d)
  BY ClosedShort, ReplyFacts, ExchangeFacts DEF Deltas

-----------------------------------------------------------------------------
(* The invariant.                                                           *)

LEMMA InitInv == Init => IInv
<1>1. SUFFICES ASSUME Init PROVE IInv OBVIOUS
<1>2. <<>> \in Seq(Message) /\ ApiValid(<<>>) BY DEF ApiValid
<1>3. EverPushed(<<>>) = 0 BY DEF EverPushed
<1>4. QED BY <1>1, <1>2, <1>3 DEF Init, IInv

LEMMA StepInv ==
  ASSUME IInv, [Next]_vars
  PROVE  IInv'
<1>1. CASE AppendLine
  <2>1. PICK l \in Message : file' = Append(file, l) BY <1>1, LinesAreMessages DEF AppendLine
  <2>2. file' \in Seq(Message) BY <2>1 DEF IInv
  <2>3. window' = window /\ pushed' = pushed /\ budget' = budget BY <1>1 DEF AppendLine
  <2>4. QED BY <2>2, <2>3 DEF IInv
<1>2. CASE Turn
  <2>1. PICK size \in Nat, d \in Deltas :
          /\ window' = TrimHistory(Append(window, User(<<Text(size)>>)), budget) \o d
          /\ pushed' = pushed + 1 + Len(d)
    BY <1>2 DEF Turn
  <2>2. PICK full \in Seq(Message) :
           /\ full = Append(window, User(<<Text(size)>>)) /\ full # <<>> /\ ApiValid(full)
           /\ EverPushed(full) = EverPushed(window) + 1
    BY PushedPrompt DEF IInv
  <2>3. PICK t \in Seq(Message) : /\ t = TrimHistory(full, budget) /\ ApiValid(t) /\ t # <<>>
                                  /\ EverPushed(t) = EverPushed(full)
    BY <2>2, TrimKeepsValid, TrimCountsDropped
  <2>4. Closed(d) /\ d \in Seq(Message) BY DeltasAreClosed DEF Closed
  <2>5. window' = t \o d BY <2>1, <2>2, <2>3
  <2>6. /\ t \o d \in Seq(Message) /\ (t \o d)[1] = t[1]
        /\ EverPushed(t \o d) = EverPushed(t) + Len(d)
    BY <2>3, <2>4, GrownWindow
  <2>7. ApiValid(t \o d)
    <3>1. Closed(t \o d) BY <2>3, <2>4, ClosedIsValid, ClosedConcat
    <3>2. t[1].role = "user" BY <2>3, ClosedIsValid
    <3>3. QED BY <2>6, <3>1, <3>2, ClosedIsValid
  <2>8. EverPushed(window') = pushed' /\ pushed' \in Nat
    <3>1. EverPushed(t \o d) = (pushed + 1) + Len(d) BY <2>2, <2>3, <2>6 DEF IInv
    <3>2. Len(d) \in Nat /\ pushed \in Nat BY <2>4 DEF IInv
    <3>3. pushed' = (pushed + 1) + Len(d) BY <2>1
    <3>4. (pushed + 1) + Len(d) \in Nat BY <3>2
    <3>5. QED BY <2>5, <3>1, <3>3, <3>4
  <2>9. file' = file /\ budget' = budget BY <1>2 DEF Turn
  <2>10. QED BY <2>5, <2>6, <2>7, <2>8, <2>9 DEF IInv
<1>3. CASE UNCHANGED vars BY <1>3 DEF vars, IInv
<1>4. QED BY <1>1, <1>2, <1>3 DEF Next

(* Along every file and every window: the file holds messages, the window   *)
(* is acceptable to the provider after every turn, and its notice accounts  *)
(* for every message that is no longer there.                               *)
THEOREM Invariance == Spec => []IInv
<1>1. IInv /\ [Next]_vars => IInv' BY StepInv
<1>2. QED BY <1>1, InitInv, PTL DEF Spec

(* Whatever order the lines of a file are in and whatever is missing, the   *)
(* history that repair_history makes of it is one the provider accepts.     *)
THEOREM FilesAreRepaired == Spec => []RepairRestoresValidity
<1>1. IInv => RepairRestoresValidity BY RepairRestores DEF IInv, RepairRestoresValidity
<1>2. QED BY <1>1, Invariance, PTL

(* A file whose history the provider accepts is reloaded as it stands.      *)
THEOREM CleanFilesAreLeft == Spec => []RepairLeavesCleanFiles
<1>1. IInv => RepairLeavesCleanFiles BY RepairKeepsClean DEF IInv, RepairLeavesCleanFiles
<1>2. QED BY <1>1, Invariance, PTL

(* No text and no tool call of a file is lost or doubled by its repair.     *)
THEOREM ContentIsKept == Spec => []RepairKeepsContent
<1>1. ASSUME IInv PROVE RepairKeepsContent
  <2>1. \A n \in 1..2 : \A b \in {Text(n), ToolUse(n)} : b \in Block /\ IsContent(b)
    BY Blocks DEF IsContent
  <2>2. file \in Seq(Message) BY <1>1 DEF IInv
  <2>3. QED BY <2>1, <2>2, RepairKeepsBlocks DEF RepairKeepsContent
<1>2. IInv => RepairKeepsContent BY <1>1
<1>3. QED BY <1>2, Invariance, PTL

(* A trimmed window is acceptable to the provider, keeps the newest prompt, *)
(* is within the trigger or as small as it can be, and stays as it is when  *)
(* trimmed again.                                                           *)
THEOREM TrimmedWindowsAreUsable == Spec => []TrimmedWindowIsUsable
<1>1. ASSUME IInv PROVE TrimmedWindowIsUsable
  <2>1. SUFFICES ASSUME NEW size \in {1, 4}, budget # 0
                 PROVE  LET full == Append(window, User(<<Text(size)>>))
                            cut == TrimHistory(full, budget)
                        IN /\ ApiValid(cut)
                           /\ cut[Len(cut)] = full[Len(full)]
                           /\ SuffixTokens(cut, 1) > TrimTrigger(budget) => Len(cut) <= 2
                           /\ TrimHistory(cut, budget) = cut
    BY DEF TrimmedWindowIsUsable
  <2>2. PICK full \in Seq(Message) :
           /\ full = Append(window, User(<<Text(size)>>)) /\ full # <<>> /\ ApiValid(full)
           /\ IsTurnStart(full[Len(full)])
    <3>1. size \in Nat OBVIOUS
    <3>2. QED BY <1>1, <3>1, PushedPrompt DEF IInv
  <2>3. PICK cut : cut = TrimHistory(full, budget) OBVIOUS
  <2>4. ApiValid(cut) /\ cut[Len(cut)] = full[Len(full)] BY <2>2, <2>3, TrimKeepsValid
  <2>5. budget \in Nat /\ TrimTarget(budget) + 2 <= TrimTrigger(budget)
    <3>1. budget \in Budgets BY <1>1, <2>1 DEF IInv
    <3>2. QED BY <2>1, <3>1, BudgetsAssumption, NoticeTokens
  <2>6. /\ SuffixTokens(cut, 1) > TrimTrigger(budget) => Len(cut) <= 2
        /\ TrimHistory(cut, budget) = cut
    BY <2>1, <2>2, <2>3, <2>5, TrimSettles
  <2>7. QED BY <2>2, <2>3, <2>4, <2>6
<1>2. IInv => TrimmedWindowIsUsable BY <1>1
<1>3. QED BY <1>2, Invariance, PTL

(* The notice counts every message ever dropped, over any number of trims.  *)
THEOREM DroppedCountStaysHonest == Spec => []DroppedCountIsHonest
<1>1. ASSUME IInv PROVE DroppedCountIsHonest
  <2>1. SUFFICES ASSUME window # <<>>
                 PROVE  pushed = IF IsTrimMarker(window[1])
                                   THEN window[1].content[1].id + Len(window) - 1
                                   ELSE Len(window)
    BY DEF DroppedCountIsHonest
  <2>2. CASE ~IsTrimMarker(window[1]) BY <1>1, <2>1, <2>2 DEF IInv, EverPushed
  <2>3. CASE IsTrimMarker(window[1])
    <3>1. window[1] \in Message BY <1>1, <2>1 DEF IInv
    <3>2. window[1].content \in Seq(Block) /\ Len(window[1].content) = 1
      BY <2>3, <3>1 DEF IsTrimMarker, Message
    <3>3. window[1].content[1] \in Block BY <3>2
    <3>4. PICK p \in Nat : p = window[1].content[1].id BY <3>3 DEF Block
    <3>5. PICK l \in Nat : l = Len(window) BY <1>1 DEF IInv
    <3>6. pushed = p + (l - 1) BY <1>1, <2>1, <2>3, <3>4, <3>5 DEF IInv, EverPushed
    <3>7. \A i, j \in Nat : i + (j - 1) = i + j - 1 OBVIOUS
    <3>8. QED BY <2>3, <3>4, <3>5, <3>6, <3>7
  <2>4. QED BY <2>2, <2>3
<1>2. IInv => DroppedCountIsHonest BY <1>1
<1>3. QED BY <1>2, Invariance, PTL
=============================================================================

----------------------------- MODULE MCHistory -----------------------------
(***************************************************************************)
(* The history functions under every small input.  A behaviour either      *)
(* grows a session file line by line, in any order racing or interrupted   *)
(* appends could have left it in, or lives one window: prompts are pushed  *)
(* and trimmed as the router does it, then the turn's messages follow.     *)
(***************************************************************************)
EXTENDS History

CONSTANTS MaxLines,   \* length of a session file
          MaxTurns,   \* turns of a window
          Budgets     \* history budgets a window is run with

\* The band between the floor and the trigger of a budget has room for the
\* notice: sanitize_budget floors budgets at 10k tokens, the notice is a hundred.
ASSUME BudgetsAssumption ==
  /\ Budgets \subseteq Nat
  /\ \A b \in Budgets : b # 0 => TrimTarget(b) + MsgTokens(TrimMarker(0)) <= TrimTrigger(b)

VARIABLES file,    \* the lines of a session file
          window,  \* the resident history of a session
          pushed,  \* messages ever pushed on the window
          budget   \* history budget, 0 when this behaviour is about a file

vars == <<file, window, pushed, budget>>

\* The lines a turn, an interrupted stream or a racing append leaves behind.
Lines ==
  { User(<<Text(1)>>), Assistant(<<Text(2)>>), Assistant(<<>>),
    Assistant(<<ToolUse(1)>>), Assistant(<<Text(2), ToolUse(1), ToolUse(2)>>),
    User(<<ToolResult(1)>>), User(<<ToolResult(2)>>),
    User(<<ToolResult(2), ToolResult(1)>>), User(<<Text(1), ToolResult(1)>>) }

\* What one turn adds after the user's message.
Deltas ==
  { <<>>, <<Assistant(<<Text(1)>>)>>,
    <<Assistant(<<ToolUse(1)>>), User(<<ToolResult(1)>>), Assistant(<<Text(3)>>)>> }

Init ==
  /\ file = <<>> /\ window = <<>> /\ pushed = 0
  /\ budget \in Budgets \cup {0}

AppendLine ==
  /\ budget = 0 /\ Len(file) < MaxLines
  /\ \E l \in Lines : file' = Append(file, l)
  /\ UNCHANGED <<window, pushed, budget>>

\* The router pushes the prompt and trims; the finished turn adds its delta.
Turn ==
  /\ budget # 0 /\ pushed < 4 * MaxTurns
  /\ \E size \in {1, 4}, d \in Deltas :
       /\ window' = TrimHistory(Append(window, User(<<Text(size)>>)), budget) \o d
       /\ pushed' = pushed + 1 + Len(d)
  /\ UNCHANGED <<file, budget>>

Next == AppendLine \/ Turn

Spec == Init /\ [][Next]_vars

-----------------------------------------------------------------------------
(* Whatever order the lines of a file are in, and whatever is missing, the  *)
(* reloaded history is one the provider accepts (repair_history's four      *)
(* guarantees): a corrupt file never wedges its session.                    *)
RepairRestoresValidity == ApiValid(RepairHistory(file))

(* A history the provider already accepts comes back identical.             *)
RepairLeavesCleanFiles == ApiValid(file) => RepairHistory(file) = file

(* Repair never deletes what the user or the model said: every text and     *)
(* every tool call of the file is in the result as often as in the file.    *)
RepairKeepsContent ==
  \A n \in 1..2 : \A b \in {Text(n), ToolUse(n)} :
    Occurrences(RepairHistory(file), b) = Occurrences(file, b)

(* A trimmed window is still acceptable to the provider (no tool_result     *)
(* loses its call), keeps the newest turn, and is within the trigger        *)
(* whenever a cut could bring it there.                                     *)
TrimmedWindowIsUsable ==
  \A size \in {1, 4} :
    LET full == Append(window, User(<<Text(size)>>))
        cut == TrimHistory(full, IF budget = 0 THEN 1 ELSE budget)
    IN budget # 0 =>
         /\ ApiValid(cut)
         /\ cut[Len(cut)] = full[Len(full)]
         /\ SuffixTokens(cut, 1) > TrimTrigger(budget)
              => Len(cut) <= 2
         /\ TrimHistory(cut, budget) = cut

(* The notice at the front of the window counts every message that was ever *)
(* dropped, over any number of trims: dropped plus kept is all there was.   *)
DroppedCountIsHonest ==
  budget # 0 /\ window # <<>> =>
    LET marked == IsTrimMarker(window[1])
    IN pushed = IF marked THEN window[1].content[1].id + Len(window) - 1
                          ELSE Len(window)

=============================================================================

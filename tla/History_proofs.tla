--------------------------- MODULE History_proofs ---------------------------
(***************************************************************************)
(* Proofs about the history functions, for every history: what             *)
(* RepairHistory makes of a session file is a history the provider         *)
(* accepts, with all its content and nothing made up but markers, and one  *)
(* the provider accepts comes back unchanged; a trim keeps a window        *)
(* acceptable, counts what it dropped, and settles.                        *)
(*                                                                         *)
(* The functions are recursive, and recursion is proved about from its     *)
(* equation: a solution exists (it is built up to every length, the least  *)
(* length without one being impossible), the function is one, and a fact   *)
(* about its values has no shortest argument for which it fails.           *)
(***************************************************************************)
EXTENDS History, SequenceTheorems, NaturalsInduction, WellFoundedInduction, TLAPS

-----------------------------------------------------------------------------
(* Induction, in the form the provers can use.                              *)

\* Every non-empty set of numbers has a least one.
LEMMA LeastNumber ==
  ASSUME NEW P, P \subseteq Nat, P # {}
  PROVE  \E n \in P : \A m \in P : n <= m
<1>1. IsWellFoundedOn(OpToRel(<, Nat), Nat) BY NatLessThanWellFounded
<1>2. PICK x \in P : \A y \in P : ~(<<y, x>> \in OpToRel(<, Nat)) BY <1>1, WFMin
<1>3. \A y \in P : ~(y < x) BY <1>2 DEF OpToRel
<1>4. QED BY <1>3

\* A set of numbers that holds 0 and, with every number, the next one, holds all.
LEMMA Induction ==
  ASSUME NEW P, 0 \in P, \A n \in Nat : n \in P => n + 1 \in P
  PROVE  Nat \subseteq P
<1> DEFINE Bad == Nat \ P
<1>1. SUFFICES ASSUME Bad # {} PROVE FALSE OBVIOUS
<1>2. Bad \subseteq Nat OBVIOUS
<1>3. PICK n \in Bad : \A m \in Bad : n <= m BY <1>1, <1>2, LeastNumber
<1>4. n \in Nat /\ n # 0 /\ n \notin P OBVIOUS
<1>5. n - 1 \in Nat /\ ~(n <= n - 1) /\ (n - 1) + 1 = n BY <1>4
<1>6. n - 1 \in P BY <1>3, <1>5
<1>7. QED BY <1>4, <1>5, <1>6

\* Stepping from a first value, as far as one likes, has a solution.
IsStep(step, N, V) == step \in [1..N -> [V -> V]]
Steps(f, v, N, step) == f[0] = v /\ \A n \in 1..N : f[n] = step[n][f[n-1]]

LEMMA StepsExist ==
  ASSUME NEW V, NEW v \in V, NEW N \in Nat, NEW step, IsStep(step, N, V)
  PROVE  \E f \in [0..N -> V] : Steps(f, v, N, step)
<1> USE DEF IsStep
<1> DEFINE Sol(k, f) == f[0] = v /\ \A n \in 1..k : f[n] = step[n][f[n-1]]
           P == {k \in Nat : k <= N => \E f \in [0..k -> V] : Sol(k, f)}
<1>1. 0 \in P
  <2> DEFINE f == [n \in 0..0 |-> v]
  <2>1. f \in [0..0 -> V] /\ Sol(0, f) OBVIOUS
  <2>2. QED BY <2>1
<1>2. ASSUME NEW k \in Nat, k \in P PROVE k + 1 \in P
  <2>1. SUFFICES ASSUME k + 1 <= N PROVE \E f \in [0..(k+1) -> V] : Sol(k + 1, f)
    OBVIOUS
  <2>2. PICK f \in [0..k -> V] : Sol(k, f) BY <1>2, <2>1
  <2> DEFINE new == step[k + 1][f[k]]
             g == [n \in 0..(k+1) |-> IF n = k + 1 THEN new ELSE f[n]]
  <2>3. new \in V
    <3>1. k + 1 \in 1..N /\ f[k] \in V BY <2>1
    <3>2. QED BY <3>1
  <2>4. g \in [0..(k+1) -> V] BY <2>3
  <2>5. g[0] = v BY <2>2
  <2>6. ASSUME NEW n \in 1..(k+1) PROVE g[n] = step[n][g[n-1]]
    <3>1. CASE n = k + 1
      <4>1. g[n] = new /\ g[n-1] = f[k] BY <3>1
      <4>2. QED BY <3>1, <4>1
    <3>2. CASE n # k + 1
      <4>1. n \in 1..k /\ g[n] = f[n] /\ g[n-1] = f[n-1] BY <3>2
      <4>2. f[n] = step[n][f[n-1]] BY <2>2, <4>1
      <4>3. QED BY <4>1, <4>2
    <3>3. QED BY <3>1, <3>2
  <2>7. Sol(k + 1, g) BY <2>5, <2>6
  <2>8. QED BY <2>4, <2>7
<1> HIDE DEF Sol
<1>3. Nat \subseteq P BY <1>1, <1>2, Induction
<1>4. N \in P BY <1>3
<1>5. PICK f \in [0..N -> V] : Sol(N, f) BY <1>4
<1>6. QED BY <1>5 DEF Sol, Steps

-----------------------------------------------------------------------------
(* Kept: what a loop that pushes some of the elements leaves.               *)

\* The loop's equation.
LEMMA KeptLoop ==
  ASSUME NEW S, NEW q \in Seq(S), NEW I
  PROVE  \E f \in [0..Len(q) -> Seq(S)] :
           /\ f[0] = <<>>
           /\ \A n \in 1..Len(q) : f[n] = IF n \in I THEN Append(f[n-1], q[n]) ELSE f[n-1]
           /\ Kept(q, I) = f[Len(q)]
<1>n. PICK N \in Nat : N = Len(q) OBVIOUS
<1> DEFINE Body(f) == [n \in 0..N |-> IF n = 0 THEN <<>>
                                      ELSE IF n \in I THEN Append(f[n-1], q[n]) ELSE f[n-1]]
           R == CHOOSE f : f = Body(f)
           step == [n \in 1..N |-> [w \in Seq(S) |-> IF n \in I THEN Append(w, q[n]) ELSE w]]
<1>0. N \in Nat /\ \A n \in 1..N : q[n] \in S BY <1>n
<1>1. step \in [1..N -> [Seq(S) -> Seq(S)]]
  <2>1. ASSUME NEW n \in 1..N, NEW w \in Seq(S)
        PROVE  (IF n \in I THEN Append(w, q[n]) ELSE w) \in Seq(S)
    BY <1>0
  <2>2. QED BY <2>1
<1>2. \A n \in 1..N : \A w \in Seq(S) :
        step[n][w] = IF n \in I THEN Append(w, q[n]) ELSE w
  OBVIOUS
<1>3. <<>> \in Seq(S) OBVIOUS
<1> HIDE DEF step
<1>4. PICK f \in [0..N -> Seq(S)] : f[0] = <<>> /\ \A n \in 1..N : f[n] = step[n][f[n-1]]
  <2>1. PICK V : V = Seq(S) OBVIOUS
  <2>2. PICK v \in V : v = <<>> BY <1>3, <2>1
  <2>3. IsStep(step, N, V) BY <1>1, <2>1 DEF IsStep
  <2>4. \E f \in [0..N -> V] : Steps(f, v, N, step) BY <2>3, StepsExist
  <2>5. QED BY <2>1, <2>2, <2>4 DEF Steps
<1>5. \A n \in 1..N : f[n] = IF n \in I THEN Append(f[n-1], q[n]) ELSE f[n-1]
  <2>1. \A n \in 1..N : f[n-1] \in Seq(S) BY <1>0
  <2>2. QED BY <1>2, <1>4, <2>1
<1>6. f = Body(f)
  <2>1. \A n \in 0..N : n # 0 => n \in 1..N BY <1>0
  <2>2. \A n \in 0..N : f[n] = IF n = 0 THEN <<>>
                               ELSE IF n \in I THEN Append(f[n-1], q[n]) ELSE f[n-1]
    BY <1>4, <1>5, <2>1
  <2>3. f = [n \in 0..N |-> f[n]] OBVIOUS
  <2>4. QED BY <2>2, <2>3
<1>7. R = Body(R) BY <1>6, Zenon
<1>8. Kept(q, I) = R[N] BY <1>n, Zenon DEF Kept
<1> HIDE DEF R
<1>9. /\ R = [n \in 0..N |-> R[n]] /\ R[0] = <<>>
      /\ \A n \in 1..N : R[n] = IF n \in I THEN Append(R[n-1], q[n]) ELSE R[n-1]
  <2>1. DOMAIN R = 0..N /\ R = [n \in DOMAIN R |-> R[n]]
    <3>1. DOMAIN Body(R) = 0..N /\ Body(R) = [n \in DOMAIN Body(R) |-> Body(R)[n]] OBVIOUS
    <3> HIDE DEF Body
    <3>2. QED BY <1>7, <3>1
  <2>2. \A n \in 0..N : R[n] = Body(R)[n]
    <3> HIDE DEF Body
    <3>1. QED BY <1>7
  <2>3. \A n \in 0..N : Body(R)[n] = IF n = 0 THEN <<>>
                               ELSE IF n \in I THEN Append(R[n-1], q[n]) ELSE R[n-1]
    OBVIOUS
  <2> HIDE DEF Body
  <2>4. \A n \in 1..N : n \in 0..N /\ n # 0 BY <1>0
  <2>5. R[0] = <<>>
    <3>1. 0 \in 0..N BY <1>0
    <3>2. QED BY <2>2, <2>3, <3>1
  <2>6. \A n \in 1..N : R[n] = IF n \in I THEN Append(R[n-1], q[n]) ELSE R[n-1]
    BY <2>2, <2>3, <2>4
  <2>7. QED BY <2>1, <2>5, <2>6
<1> DEFINE P == {n \in Nat : n <= N => R[n] \in Seq(S)}
<1>10. Nat \subseteq P
  <2>1. 0 \in P BY <1>3, <1>9
  <2>2. ASSUME NEW n \in Nat, n \in P PROVE n + 1 \in P
    <3>1. SUFFICES ASSUME n + 1 <= N PROVE R[n + 1] \in Seq(S) OBVIOUS
    <3>2. R[n] \in Seq(S) /\ n + 1 \in 1..N /\ (n + 1) - 1 = n BY <1>0, <2>2, <3>1
    <3>3. R[n + 1] = IF n + 1 \in I THEN Append(R[n], q[n + 1]) ELSE R[n] BY <1>9, <3>2
    <3>4. QED BY <1>0, <3>2, <3>3
  <2> HIDE DEF P
  <2>3. QED BY <2>1, <2>2, Induction
<1>11. R \in [0..N -> Seq(S)]
  <2>1. \A n \in 0..N : R[n] \in Seq(S) BY <1>0, <1>10
  <2>2. QED BY <1>9, <2>1
<1>12. QED BY <1>n, <1>8, <1>9, <1>11

\* What is kept are the elements at the chosen positions, all of them.
LEMMA KeptElements ==
  ASSUME NEW S, NEW q \in Seq(S), NEW I, I \subseteq DOMAIN q
  PROVE  /\ Kept(q, I) \in Seq(S)
         /\ \A k \in DOMAIN Kept(q, I) : \E i \in I : Kept(q, I)[k] = q[i]
         /\ \A i \in I : \E k \in DOMAIN Kept(q, I) : Kept(q, I)[k] = q[i]
<1>n. PICK N \in Nat : N = Len(q) OBVIOUS
<1>f. PICK f \in [0..Len(q) -> Seq(S)] :
        /\ f[0] = <<>>
        /\ \A n \in 1..Len(q) : f[n] = IF n \in I THEN Append(f[n-1], q[n]) ELSE f[n-1]
        /\ Kept(q, I) = f[Len(q)]
  BY KeptLoop, SMTT(30)
<1>1. /\ f \in [0..N -> Seq(S)] /\ f[0] = <<>>
      /\ \A n \in 1..N : f[n] = IF n \in I THEN Append(f[n-1], q[n]) ELSE f[n-1]
      /\ Kept(q, I) = f[N]
  BY <1>n, <1>f
<1>2. \A i \in I : i \in 1..N BY <1>n
<1> DEFINE From(n) == \A k \in DOMAIN f[n] : \E i \in I : f[n][k] = q[i]
           Into(n) == \A i \in I : i <= n => \E k \in DOMAIN f[n] : f[n][k] = q[i]
           P == {n \in Nat : n <= N => From(n) /\ Into(n)}
<1>3. 0 \in P BY <1>1, <1>2
<1>4. ASSUME NEW n \in Nat, n \in P PROVE n + 1 \in P
  <2>1. SUFFICES ASSUME n + 1 <= N PROVE From(n + 1) /\ Into(n + 1) OBVIOUS
  <2>2. From(n) /\ Into(n) /\ f[n] \in Seq(S) /\ n + 1 \in 1..N /\ (n + 1) - 1 = n
    BY <1>4, <2>1
  <2>3. q[n + 1] \in S BY <1>n, <2>2
  <2>4. \A i \in I : i <= n + 1 => i <= n \/ i = n + 1 BY <1>2
  <2>5. CASE n + 1 \in I
    <3>1. f[n + 1] = Append(f[n], q[n + 1]) BY <1>1, <2>2, <2>5
    <3>2. /\ \A k \in DOMAIN f[n + 1] : (k \in DOMAIN f[n] /\ f[n + 1][k] = f[n][k])
                                        \/ f[n + 1][k] = q[n + 1]
          /\ \A k \in DOMAIN f[n] : k \in DOMAIN f[n + 1] /\ f[n + 1][k] = f[n][k]
          /\ \E k \in DOMAIN f[n + 1] : f[n + 1][k] = q[n + 1]
      <4>1. \A w \in Seq(S) : \A x \in S :
              /\ \A k \in DOMAIN Append(w, x) : (k \in DOMAIN w /\ Append(w, x)[k] = w[k])
                                                \/ Append(w, x)[k] = x
              /\ \A k \in DOMAIN w : k \in DOMAIN Append(w, x) /\ Append(w, x)[k] = w[k]
              /\ Len(w) + 1 \in DOMAIN Append(w, x) /\ Append(w, x)[Len(w) + 1] = x
        OBVIOUS
      <4>2. PICK w \in Seq(S) : w = f[n] BY <2>2
      <4>3. PICK x \in S : x = q[n + 1] BY <2>3
      <4>4. f[n + 1] = Append(w, x) BY <3>1, <4>2, <4>3
      <4>5. QED BY <4>1, <4>2, <4>3, <4>4
    <3>3. From(n + 1) BY <2>2, <2>5, <3>2
    <3>4. Into(n + 1) BY <2>2, <2>4, <3>2
    <3>5. QED BY <3>3, <3>4
  <2>6. CASE n + 1 \notin I
    <3>1. f[n + 1] = f[n] BY <1>1, <2>2, <2>6
    <3>2. QED BY <2>2, <2>4, <2>6, <3>1
  <2>7. QED BY <2>5, <2>6
<1>5. Nat \subseteq P
  <2> HIDE DEF P
  <2>1. QED BY <1>3, <1>4, Induction
<1>6. From(N) /\ Into(N) BY <1>5
<1>7. QED BY <1>1, <1>2, <1>6

\* Keeping everything changes nothing.
LEMMA KeptAll ==
  ASSUME NEW S, NEW q \in Seq(S), NEW I, DOMAIN q \subseteq I
  PROVE  Kept(q, I) = q
<1>n. PICK N \in Nat : N = Len(q) OBVIOUS
<1>f. PICK f \in [0..Len(q) -> Seq(S)] :
        /\ f[0] = <<>>
        /\ \A n \in 1..Len(q) : f[n] = IF n \in I THEN Append(f[n-1], q[n]) ELSE f[n-1]
        /\ Kept(q, I) = f[Len(q)]
  BY KeptLoop, ZenonT(40)
<1>1. /\ f \in [0..N -> Seq(S)] /\ f[0] = <<>>
      /\ \A n \in 1..N : f[n] = IF n \in I THEN Append(f[n-1], q[n]) ELSE f[n-1]
      /\ Kept(q, I) = f[N]
  BY <1>n, <1>f
<1>2. \A n \in 1..N : n \in I BY <1>n
<1> DEFINE P == {n \in Nat : n <= N => Len(f[n]) = n /\ \A k \in 1..n : f[n][k] = q[k]}
<1>3. 0 \in P BY <1>1
<1>4. ASSUME NEW n \in Nat, n \in P PROVE n + 1 \in P
  <2>1. SUFFICES ASSUME n + 1 <= N
                 PROVE  Len(f[n + 1]) = n + 1 /\ \A k \in 1..(n + 1) : f[n + 1][k] = q[k]
    OBVIOUS
  <2>2. /\ f[n] \in Seq(S) /\ n + 1 \in 1..N /\ (n + 1) - 1 = n
        /\ Len(f[n]) = n /\ \A k \in 1..n : f[n][k] = q[k]
    BY <1>1, <1>4, <2>1
  <2>3. q[n + 1] \in S BY <1>n, <2>2
  <2>4. f[n + 1] = Append(f[n], q[n + 1]) BY <1>1, <1>2, <2>2
  <2>5. \A w \in Seq(S) : \A x \in S :
          /\ Len(Append(w, x)) = Len(w) + 1 /\ Append(w, x)[Len(w) + 1] = x
          /\ \A k \in 1..Len(w) : Append(w, x)[k] = w[k]
    OBVIOUS
  <2>6. /\ Len(f[n + 1]) = n + 1 /\ f[n + 1][n + 1] = q[n + 1]
        /\ \A k \in 1..n : f[n + 1][k] = f[n][k]
    BY <2>2, <2>3, <2>4, <2>5
  <2>7. \A k \in 1..(n + 1) : k \in 1..n \/ k = n + 1 OBVIOUS
  <2>8. QED BY <2>2, <2>6, <2>7
<1>5. Nat \subseteq P
  <2> HIDE DEF P
  <2>1. QED BY <1>3, <1>4, Induction
<1>6. f[N] \in Seq(S) /\ Len(f[N]) = Len(q) /\ \A k \in 1..Len(q) : f[N][k] = q[k]
  BY <1>n, <1>5
<1>7. f[N] = q BY <1>6, SeqEqual
<1>8. QED BY <1>1, <1>7

-----------------------------------------------------------------------------
(* The answer to a message's calls.                                         *)

\* Blocks and their kinds.
LEMMA BlockFacts ==
  ASSUME NEW m \in Message
  PROVE  /\ m.content \in Seq(Block)
         /\ \A k \in DOMAIN m.content : m.content[k] \in Block /\ m.content[k].id \in Nat
         /\ ResultIds(m) \subseteq Nat /\ ToolUseIds(m) \subseteq Nat
<1>1. m.content \in Seq(Block) BY DEF Message
<1>2. \A k \in DOMAIN m.content : m.content[k] \in Block BY <1>1
<1>3. \A b \in Block : b.id \in Nat BY DEF Block
<1>4. \A k \in DOMAIN m.content : m.content[k].id \in Nat BY <1>2, <1>3
<1>5. ResultIds(m) \subseteq Nat /\ ToolUseIds(m) \subseteq Nat
  BY <1>4 DEF ResultIds, ToolUseIds
<1>6. QED BY <1>1, <1>2, <1>4, <1>5

LEMMA UserMessage ==
  ASSUME NEW c \in Seq(Block)
  PROVE  /\ User(c) \in Message /\ User(c).role = "user" /\ User(c).content = c
         /\ ToolUseIds(User(c)) = {}
  BY DEF User, Message, ToolUseIds

\* The blocks that are no results.
LEMMA NonResultsFacts ==
  ASSUME NEW m \in Message
  PROVE  /\ NonResults(m) \in Seq(Block)
         /\ \A k \in DOMAIN NonResults(m) : ~IsResult(NonResults(m)[k])
<1> DEFINE I == {k \in DOMAIN m.content : ~IsResult(m.content[k])}
<1>1. m.content \in Seq(Block) /\ I \subseteq DOMAIN m.content BY BlockFacts
<1>2. NonResults(m) = Kept(m.content, I) BY DEF NonResults
<1>3. \A i \in I : ~IsResult(m.content[i]) OBVIOUS
<1> HIDE DEF I
<1>4. QED BY <1>1, <1>2, <1>3, KeptElements

\* The results for calls in ids: those, and all of those.
LEMMA OwnResultsFacts ==
  ASSUME NEW m \in Message, NEW ids
  PROVE  /\ OwnResults(m, ids) \in Seq(Block)
         /\ \A k \in DOMAIN OwnResults(m, ids) :
              IsResult(OwnResults(m, ids)[k]) /\ OwnResults(m, ids)[k].id \in ids
         /\ \A i \in ids \cap ResultIds(m) :
              \E k \in DOMAIN OwnResults(m, ids) : OwnResults(m, ids)[k].id = i
<1> DEFINE I == {k \in DOMAIN m.content : IsResult(m.content[k]) /\ m.content[k].id \in ids}
<1>1. m.content \in Seq(Block) /\ I \subseteq DOMAIN m.content BY BlockFacts
<1>2. OwnResults(m, ids) = Kept(m.content, I) BY DEF OwnResults
<1>3. \A i \in I : IsResult(m.content[i]) /\ m.content[i].id \in ids OBVIOUS
<1>4. \A i \in ids \cap ResultIds(m) : \E k \in I : m.content[k].id = i BY DEF ResultIds
<1> HIDE DEF I
<1>5. /\ OwnResults(m, ids) \in Seq(Block)
      /\ \A k \in DOMAIN OwnResults(m, ids) : \E i \in I : OwnResults(m, ids)[k] = m.content[i]
      /\ \A i \in I : \E k \in DOMAIN OwnResults(m, ids) : OwnResults(m, ids)[k] = m.content[i]
  BY <1>1, <1>2, KeptElements
<1>6. \A k \in DOMAIN OwnResults(m, ids) :
        IsResult(OwnResults(m, ids)[k]) /\ OwnResults(m, ids)[k].id \in ids
  BY <1>3, <1>5
<1>7. ASSUME NEW i \in ids \cap ResultIds(m)
      PROVE  \E k \in DOMAIN OwnResults(m, ids) : OwnResults(m, ids)[k].id = i
  <2>1. PICK j \in I : m.content[j].id = i BY <1>4
  <2>2. PICK k \in DOMAIN OwnResults(m, ids) : OwnResults(m, ids)[k] = m.content[j] BY <1>5
  <2>3. QED BY <2>1, <2>2
<1>8. QED BY <1>5, <1>6, <1>7

\* The calls of an assistant message, in order.
LEMMA UseIdSeqFacts ==
  ASSUME NEW m \in Message, m.role = "assistant"
  PROVE  /\ UseIdSeq(m) \in Seq(Nat)
         /\ \A k \in DOMAIN UseIdSeq(m) : UseIdSeq(m)[k] \in ToolUseIds(m)
         /\ \A i \in ToolUseIds(m) : \E k \in DOMAIN UseIdSeq(m) : UseIdSeq(m)[k] = i
<1> DEFINE I == {k \in DOMAIN m.content : m.content[k].kind = "tool_use"}
           uses == Kept(m.content, I)
<1>1. m.content \in Seq(Block) /\ I \subseteq DOMAIN m.content BY BlockFacts
<1>2. UseIdSeq(m) = [k \in DOMAIN uses |-> uses[k].id] BY DEF UseIdSeq
<1>3. /\ \A i \in I : m.content[i].id \in ToolUseIds(m)
      /\ \A i \in ToolUseIds(m) : \E k \in I : m.content[k].id = i
  BY DEF ToolUseIds
<1>4. /\ uses \in Seq(Block)
      /\ \A k \in DOMAIN uses : \E i \in I : uses[k] = m.content[i]
      /\ \A i \in I : \E k \in DOMAIN uses : uses[k] = m.content[i]
  <2> HIDE DEF I
  <2>1. QED BY <1>1, KeptElements
<1> HIDE DEF I, uses
<1>5. \A k \in DOMAIN uses : uses[k].id \in Nat
  <2>1. \A b \in Block : b.id \in Nat BY DEF Block
  <2>2. QED BY <1>4, <2>1
<1>6. UseIdSeq(m) \in Seq(Nat) /\ DOMAIN UseIdSeq(m) = DOMAIN uses
  <2>1. PICK n \in Nat : DOMAIN uses = 1..n BY <1>4
  <2>2. QED BY <1>2, <1>5, <2>1
<1>7. \A k \in DOMAIN uses : UseIdSeq(m)[k] = uses[k].id BY <1>2
<1>8. /\ \A k \in DOMAIN uses : uses[k].id \in ToolUseIds(m)
      /\ \A i \in ToolUseIds(m) : \E k \in DOMAIN uses : uses[k].id = i
  <2>1. \A k \in DOMAIN uses : uses[k].id \in ToolUseIds(m) BY <1>3, <1>4
  <2>2. ASSUME NEW i \in ToolUseIds(m) PROVE \E k \in DOMAIN uses : uses[k].id = i
    <3>1. PICK j \in I : m.content[j].id = i BY <1>3
    <3>2. PICK k \in DOMAIN uses : uses[k] = m.content[j] BY <1>4
    <3>3. QED BY <3>1, <3>2
  <2>3. QED BY <2>1, <2>2
<1>9. QED BY <1>6, <1>7, <1>8

LEMMA UnansweredFacts ==
  ASSUME NEW m \in Message, NEW use \in Message, use.role = "assistant"
  PROVE  /\ Unanswered(m, use) \in Seq(Nat)
         /\ \A k \in DOMAIN Unanswered(m, use) : Unanswered(m, use)[k] \in ToolUseIds(use)
         /\ \A i \in ToolUseIds(use) \ ResultIds(m) :
              \E k \in DOMAIN Unanswered(m, use) : Unanswered(m, use)[k] = i
<1> DEFINE ids == UseIdSeq(use)
           I == {k \in DOMAIN ids : ids[k] \notin ResultIds(m)}
<1>1. I \subseteq DOMAIN ids OBVIOUS
<1>2. Unanswered(m, use) = Kept(ids, I) BY DEF Unanswered
<1>3. /\ ids \in Seq(Nat)
      /\ \A k \in DOMAIN ids : ids[k] \in ToolUseIds(use)
      /\ \A i \in ToolUseIds(use) : \E k \in DOMAIN ids : ids[k] = i
  BY UseIdSeqFacts
<1>4. \A i \in ToolUseIds(use) \ ResultIds(m) : \E k \in I : ids[k] = i BY <1>3
<1> HIDE DEF I, ids
<1>5. QED BY <1>1, <1>2, <1>3, <1>4, KeptElements

LEMMA LostResultsFacts ==
  ASSUME NEW ids \in Seq(Nat)
  PROVE  /\ LostResults(ids) \in Seq(Block) /\ DOMAIN LostResults(ids) = DOMAIN ids
         /\ \A k \in DOMAIN ids : IsResult(LostResults(ids)[k]) /\ LostResults(ids)[k].id = ids[k]
<1>1. \A n \in Nat : LostResult(n) \in Block /\ IsResult(LostResult(n)) /\ LostResult(n).id = n
  BY DEF LostResult, Block, BlockKinds, IsResult
<1>2. LostResults(ids) = [k \in DOMAIN ids |-> LostResult(ids[k])] BY DEF LostResults
<1>3. QED BY <1>1, <1>2

\* A user message of results followed by other blocks.
LEMMA AnswerShape ==
  ASSUME NEW a \in Seq(Block), \A k \in DOMAIN a : IsResult(a[k]),
         NEW c \in Seq(Block), \A k \in DOMAIN c : ~IsResult(c[k])
  PROVE  /\ User(a \o c) \in Message /\ ResultsFirst(User(a \o c))
         /\ ResultIds(User(a \o c)) = {a[k].id : k \in DOMAIN a}
         /\ a # <<>> => a \o c # <<>>
<1> DEFINE b == a \o c
<1>1. b \in Seq(Block) /\ Len(a) \in Nat OBVIOUS
<1>2. /\ \A k \in DOMAIN a : k \in DOMAIN b /\ b[k] = a[k]
      /\ \A k \in DOMAIN b :
           /\ k \in Nat
           /\ \/ k \in DOMAIN a /\ k <= Len(a) /\ b[k] = a[k]
              \/ k > Len(a) /\ k - Len(a) \in DOMAIN c /\ b[k] = c[k - Len(a)]
  OBVIOUS
<1>3. \A k \in DOMAIN b : IsResult(b[k]) <=> k <= Len(a) BY <1>1, <1>2
<1>4. /\ User(b) \in Message /\ User(b).content = b BY <1>1, UserMessage
<1>5. a # <<>> => b # <<>> OBVIOUS
<1> HIDE DEF b
<1>6. ResultsFirst(User(b))
  <2>1. SUFFICES ASSUME NEW j \in DOMAIN b, NEW k \in DOMAIN b, IsResult(b[k]), j < k
                 PROVE  IsResult(b[j])
    BY <1>4 DEF ResultsFirst
  <2>2. j \in Nat /\ k \in Nat BY <1>4, <1>1
  <2>5. k <= Len(a) BY <1>3, <2>1
  <2>3. j <= Len(a) BY <1>1, <2>1, <2>2, <2>5
  <2>4. QED BY <1>3, <2>3
<1>7. ResultIds(User(b)) = {b[k].id : k \in {j \in DOMAIN b : IsResult(b[j])}}
  BY <1>4 DEF ResultIds
<1>8. ResultIds(User(b)) = {a[k].id : k \in DOMAIN a}
  <2>1. {b[k].id : k \in {j \in DOMAIN b : IsResult(b[j])}} = {a[k].id : k \in DOMAIN a}
    BY <1>2, <1>3
  <2>2. QED BY <1>7, <2>1
<1>9. QED BY <1>4, <1>5, <1>6, <1>8 DEF b

\* x answers the calls of use: it is what has to follow them.
Answers(x, use) ==
  /\ x \in Message /\ x.role = "user" /\ x.content # <<>>
  /\ ResultIds(x) = ToolUseIds(use) /\ ResultsFirst(x)

\* A message with calls is the model's, one with results has content.
LEMMA CallsAndResults ==
  ASSUME NEW m \in Message
  PROVE  /\ ToolUseIds(m) # {} => m.role = "assistant"
         /\ ResultIds(m) # {} => m.content # <<>>
         /\ m.role \in {"user", "assistant"}
  BY DEF ToolUseIds, ResultIds, Message

\* Results for exactly the calls of use, then other blocks.
LEMMA ResultsAnswer ==
  ASSUME NEW use \in Message, ToolUseIds(use) # {},
         NEW a \in Seq(Block), NEW c \in Seq(Block),
         \A k \in DOMAIN a : IsResult(a[k]) /\ a[k].id \in ToolUseIds(use),
         \A i \in ToolUseIds(use) : \E k \in DOMAIN a : a[k].id = i,
         \A k \in DOMAIN c : ~IsResult(c[k])
  PROVE  Answers(User(a \o c), use)
<1>1. /\ User(a \o c) \in Message /\ ResultsFirst(User(a \o c))
      /\ ResultIds(User(a \o c)) = {a[k].id : k \in DOMAIN a}
      /\ a # <<>> => a \o c # <<>>
  BY AnswerShape
<1>2. {a[k].id : k \in DOMAIN a} = ToolUseIds(use) OBVIOUS
<1>3. a \o c \in Seq(Block) OBVIOUS
<1>4. User(a \o c).role = "user" /\ User(a \o c).content = a \o c BY <1>3, UserMessage
<1>5. ResultIds(User(a \o c)) # {} BY <1>1, <1>2
<1>6. User(a \o c).content # <<>> BY <1>1, <1>5, CallsAndResults
<1>7. QED BY <1>1, <1>2, <1>4, <1>6 DEF Answers

\* normalize_pair_answer makes an answer of any user message.
LEMMA NormalizeAnswers ==
  ASSUME NEW m \in Message, m.role = "user", NEW use \in Message, ToolUseIds(use) # {}
  PROVE  Answers(NormalizePairAnswer(m, use), use)
<1>1. CASE ResultsFirst(m) /\ ResultIds(m) = ToolUseIds(use)
  BY <1>1, CallsAndResults DEF NormalizePairAnswer, Answers
<1>2. CASE ~(ResultsFirst(m) /\ ResultIds(m) = ToolUseIds(use))
  <2> DEFINE own == OwnResults(m, ToolUseIds(use))
             lost == LostResults(Unanswered(m, use))
             a == own \o lost
  <2>1. use.role = "assistant" BY CallsAndResults
  <2>2. NormalizePairAnswer(m, use) = User(a \o NonResults(m))
    BY <1>2, Zenon DEF NormalizePairAnswer
  <2>3. /\ own \in Seq(Block)
        /\ \A k \in DOMAIN own : IsResult(own[k]) /\ own[k].id \in ToolUseIds(use)
        /\ \A i \in ToolUseIds(use) \cap ResultIds(m) : \E k \in DOMAIN own : own[k].id = i
    BY OwnResultsFacts
  <2>4. /\ Unanswered(m, use) \in Seq(Nat)
        /\ \A k \in DOMAIN Unanswered(m, use) : Unanswered(m, use)[k] \in ToolUseIds(use)
        /\ \A i \in ToolUseIds(use) \ ResultIds(m) :
             \E k \in DOMAIN Unanswered(m, use) : Unanswered(m, use)[k] = i
    BY <2>1, UnansweredFacts
  <2>5. /\ lost \in Seq(Block) /\ DOMAIN lost = DOMAIN Unanswered(m, use)
        /\ \A k \in DOMAIN lost : IsResult(lost[k]) /\ lost[k].id = Unanswered(m, use)[k]
    BY <2>4, LostResultsFacts
  <2> HIDE DEF own, lost
  <2>6. /\ \A k \in DOMAIN lost : IsResult(lost[k]) /\ lost[k].id \in ToolUseIds(use)
        /\ \A i \in ToolUseIds(use) \ ResultIds(m) : \E k \in DOMAIN lost : lost[k].id = i
    BY <2>4, <2>5
  <2>7. /\ a \in Seq(Block)
        /\ \A k \in DOMAIN own : k \in DOMAIN a /\ a[k] = own[k]
        /\ \A k \in DOMAIN lost : Len(own) + k \in DOMAIN a /\ a[Len(own) + k] = lost[k]
        /\ \A k \in DOMAIN a : \/ k \in DOMAIN own /\ a[k] = own[k]
                               \/ k - Len(own) \in DOMAIN lost /\ a[k] = lost[k - Len(own)]
    BY <2>3, <2>5
  <2> HIDE DEF a
  <2>8. \A k \in DOMAIN a : IsResult(a[k]) /\ a[k].id \in ToolUseIds(use)
    BY <2>3, <2>6, <2>7
  <2>9. \A i \in ToolUseIds(use) : \E k \in DOMAIN a : a[k].id = i
    <3>1. SUFFICES ASSUME NEW i \in ToolUseIds(use) PROVE \E k \in DOMAIN a : a[k].id = i
      OBVIOUS
    <3>2. CASE i \in ResultIds(m)
      <4>1. PICK k \in DOMAIN own : own[k].id = i BY <2>3, <3>2
      <4>2. QED BY <2>7, <4>1
    <3>3. CASE i \notin ResultIds(m)
      <4>1. PICK k \in DOMAIN lost : lost[k].id = i BY <2>6, <3>3
      <4>2. Len(own) + k \in DOMAIN a /\ a[Len(own) + k].id = i BY <2>7, <4>1
      <4>3. QED BY <4>2
    <3>4. QED BY <3>2, <3>3
  <2>10. /\ NonResults(m) \in Seq(Block)
         /\ \A k \in DOMAIN NonResults(m) : ~IsResult(NonResults(m)[k])
    BY NonResultsFacts
  <2>11. QED BY <2>2, <2>7, <2>8, <2>9, <2>10, ResultsAnswer
<1>3. QED BY <1>1, <1>2

\* So do the markers alone.
LEMMA LostResultsAnswer ==
  ASSUME NEW m \in Message, ToolUseIds(m) # {}
  PROVE  Answers(User(LostResults(UseIdSeq(m))), m)
<1> DEFINE lost == LostResults(UseIdSeq(m))
<1>1. m.role = "assistant" BY CallsAndResults
<1>2. /\ UseIdSeq(m) \in Seq(Nat)
      /\ \A k \in DOMAIN UseIdSeq(m) : UseIdSeq(m)[k] \in ToolUseIds(m)
      /\ \A i \in ToolUseIds(m) : \E k \in DOMAIN UseIdSeq(m) : UseIdSeq(m)[k] = i
  BY <1>1, UseIdSeqFacts
<1>3. /\ lost \in Seq(Block) /\ DOMAIN lost = DOMAIN UseIdSeq(m)
      /\ \A k \in DOMAIN lost : IsResult(lost[k]) /\ lost[k].id = UseIdSeq(m)[k]
  BY <1>2, LostResultsFacts
<1> HIDE DEF lost
<1>4. /\ \A k \in DOMAIN lost : IsResult(lost[k]) /\ lost[k].id \in ToolUseIds(m)
      /\ \A i \in ToolUseIds(m) : \E k \in DOMAIN lost : lost[k].id = i
  BY <1>2, <1>3
<1>5. PICK c \in Seq(Block) : c = <<>> BY EmptySeq
<1>6. \A k \in DOMAIN c : ~IsResult(c[k]) BY <1>5
<1>7. Answers(User(lost \o c), m) BY <1>3, <1>4, <1>6, ResultsAnswer
<1>8. lost \o c = lost BY <1>3, <1>5
<1>9. QED BY <1>7, <1>8 DEF lost

-----------------------------------------------------------------------------
(* The main loop.                                                           *)

LEMMA FirstAnswerFacts ==
  ASSUME NEW q \in Seq(Message), NEW ids
  PROVE  \/ FirstAnswer(q, ids) = 0 /\ \A i \in DOMAIN q : ~AnswersAny(q[i], ids)
         \/ /\ FirstAnswer(q, ids) \in DOMAIN q /\ AnswersAny(q[FirstAnswer(q, ids)], ids)
            /\ \A j \in DOMAIN q : AnswersAny(q[j], ids) => FirstAnswer(q, ids) <= j
<1> DEFINE answers == {i \in DOMAIN q : AnswersAny(q[i], ids)}
           k == CHOOSE i \in answers : \A j \in answers : i <= j
<1>1. FirstAnswer(q, ids) = IF answers = {} THEN 0 ELSE k BY DEF FirstAnswer
<1>2. CASE answers = {} BY <1>1, <1>2
<1>3. CASE answers # {}
  <2>1. answers \subseteq Nat OBVIOUS
  <2>2. \E i \in answers : \A j \in answers : i <= j BY <1>3, <2>1, LeastNumber
  <2>3. k \in answers /\ \A j \in answers : k <= j BY <2>2, Zenon
  <2> HIDE DEF k
  <2>4. QED BY <1>1, <1>3, <2>3
<1>4. QED BY <1>2, <1>3

\* What an iteration leaves is a shorter queue of the same messages.
LEMMA RemainingFacts ==
  ASSUME NEW q \in Seq(Message), q # <<>>
  PROVE  /\ Remaining(q) \in Seq(Message) /\ Len(Remaining(q)) < Len(q)
         /\ \A i \in DOMAIN Remaining(q) : \E j \in DOMAIN q : Remaining(q)[i] = q[j]
<1> DEFINE k == FirstAnswer(Tail(q), ToolUseIds(Head(q)))
<1>1. Remaining(q) = IF k = 0 THEN Tail(q) ELSE RemoveAt(Tail(q), k) BY DEF Remaining
<1>2. PICK r \in Seq(Message) : /\ r = Tail(q) /\ Len(q) = Len(r) + 1
                                /\ \A i \in DOMAIN r : i + 1 \in DOMAIN q /\ r[i] = q[i+1]
  <2>1. /\ Tail(q) \in Seq(Message) /\ Len(q) = Len(Tail(q)) + 1
        /\ \A i \in DOMAIN Tail(q) : i + 1 \in DOMAIN q /\ Tail(q)[i] = q[i+1]
    OBVIOUS
  <2>2. QED BY <2>1
<1>3. k = 0 \/ k \in DOMAIN r BY <1>2, FirstAnswerFacts
<1> HIDE DEF k
<1>4. CASE k = 0 BY <1>1, <1>2, <1>4
<1>5. CASE k # 0
  <2>1. k \in 1..Len(r) /\ Len(r) \in Nat BY <1>3, <1>5
  <2> DEFINE a == SubSeq(r, 1, k - 1)
             b == SubSeq(r, k + 1, Len(r))
  <2>2. a \in Seq(Message) /\ Len(a) = k - 1 /\ \A i \in 1..(k-1) : a[i] = r[i]
    BY <2>1
  <2>3. b \in Seq(Message) /\ Len(b) = Len(r) - k /\ \A i \in 1..(Len(r) - k) : b[i] = r[k + i]
    BY <2>1
  <2> HIDE DEF a, b
  <2>4. Remaining(q) = a \o b BY <1>1, <1>2, <1>5 DEF RemoveAt, a, b
  <2>5. a \o b \in Seq(Message) /\ Len(a \o b) = Len(r) - 1
    <3>1. a \o b \in Seq(Message) /\ Len(a \o b) = Len(a) + Len(b)
      BY <2>2, <2>3, ConcatProperties
    <3>2. \A x, y \in Int : (y - 1) + (x - y) = x - 1 OBVIOUS
    <3>3. QED BY <2>1, <2>2, <2>3, <3>1, <3>2
  <2>6. ASSUME NEW i \in DOMAIN (a \o b) PROVE \E j \in DOMAIN r : (a \o b)[i] = r[j]
    <3>1. i \in 1..(Len(r) - 1) BY <2>5
    <3>2. CASE i <= k - 1
      <4>1. (a \o b)[i] = r[i] /\ i \in DOMAIN r BY <2>1, <2>2, <2>3, <3>1, <3>2
      <4>2. QED BY <4>1
    <3>3. CASE ~(i <= k - 1)
      <4>1. (a \o b)[i] = b[i - (k - 1)] /\ i - (k - 1) \in 1..(Len(r) - k)
        <5>1. i - (k - 1) \in 1..(Len(r) - k) /\ i \in (Len(a) + 1)..(Len(a) + Len(b))
          BY <2>1, <2>2, <2>3, <3>1, <3>3
        <5>2. (a \o b)[i] = b[i - Len(a)] BY <2>2, <2>3, <5>1
        <5>3. QED BY <2>2, <5>1, <5>2
      <4>2. b[i - (k - 1)] = r[k + (i - (k - 1))] BY <2>3, <4>1
      <4>3. k + (i - (k - 1)) = i + 1 /\ i + 1 \in DOMAIN r BY <2>1, <3>1
      <4>4. QED BY <4>1, <4>2, <4>3
    <3>4. QED BY <3>2, <3>3
  <2>7. \A i \in DOMAIN Remaining(q) : \E j \in DOMAIN q : Remaining(q)[i] = q[j]
    BY <1>2, <2>4, <2>6
  <2>8. Len(Remaining(q)) < Len(q) BY <1>2, <2>1, <2>4, <2>5
  <2>9. QED BY <2>4, <2>5, <2>7, <2>8
<1>6. QED BY <1>4, <1>5

\* What it pushes.
LEMMA PushedFacts ==
  ASSUME NEW q \in Seq(Message), q # <<>>
  PROVE  \/ /\ ToolUseIds(Head(q)) # {}
            /\ \E x \in Message : Answers(x, Head(q)) /\ Pushed(q) = <<Head(q), x>>
         \/ /\ ToolUseIds(Head(q)) = {} /\ Pushed(q) = <<Head(q)>>
            /\ Head(q).role = "assistant" \/ ResultIds(Head(q)) = {}
         \/ Pushed(q) = <<>>
         \/ \E x \in Message : /\ Pushed(q) = <<x>> /\ x.role = "user" /\ x.content # <<>>
                               /\ ResultIds(x) = {} /\ ToolUseIds(x) = {}
<1>1. PICK m \in Message : m = Head(q) OBVIOUS
<1>2. PICK r \in Seq(Message) : r = Tail(q)
  <2>1. Tail(q) \in Seq(Message) OBVIOUS
  <2>2. QED BY <2>1
<1> DEFINE k == FirstAnswer(r, ToolUseIds(m))
           x == IF k = 0 THEN User(LostResults(UseIdSeq(m))) ELSE NormalizePairAnswer(r[k], m)
<1>3. Pushed(q) = IF ToolUseIds(m) # {} THEN <<m, x>>
                  ELSE IF m.role = "assistant" \/ ResultIds(m) = {} THEN <<m>>
                  ELSE IF NonResults(m) = <<>> THEN <<>> ELSE <<User(NonResults(m))>>
  BY <1>1, <1>2 DEF Pushed
<1>4. CASE ToolUseIds(m) # {}
  <2>1. Answers(x, m)
    <3>1. CASE k = 0 BY <1>4, <3>1, LostResultsAnswer
    <3>2. CASE k # 0
      <4>1. k \in DOMAIN r /\ AnswersAny(r[k], ToolUseIds(m)) BY <3>2, FirstAnswerFacts
      <4>2. r[k] \in Message /\ r[k].role = "user" BY <4>1 DEF AnswersAny
      <4>3. Answers(NormalizePairAnswer(r[k], m), m) BY <1>4, <4>2, NormalizeAnswers
      <4>4. QED BY <3>2, <4>3
    <3>3. QED BY <3>1, <3>2
  <2> HIDE DEF x
  <2>2. x \in Message BY <2>1 DEF Answers
  <2>3. QED BY <1>1, <1>3, <1>4, <2>1, <2>2
<1> HIDE DEF x
<1>5. CASE ToolUseIds(m) = {} /\ (m.role = "assistant" \/ ResultIds(m) = {})
  BY <1>1, <1>3, <1>5
<1>6. CASE ToolUseIds(m) = {} /\ ~(m.role = "assistant" \/ ResultIds(m) = {})
  <2>1. CASE NonResults(m) = <<>> BY <1>3, <1>6, <2>1
  <2>2. CASE NonResults(m) # <<>>
    <3>1. PICK c \in Seq(Block) : c = NonResults(m) /\ \A i \in DOMAIN c : ~IsResult(c[i])
      BY NonResultsFacts
    <3>2. /\ User(c) \in Message /\ User(c).role = "user" /\ User(c).content = c
          /\ ToolUseIds(User(c)) = {}
      BY UserMessage
    <3>3. ResultIds(User(c)) = {} BY <3>1, <3>2 DEF ResultIds
    <3>4. Pushed(q) = <<User(c)>> BY <1>3, <1>6, <2>2, <3>1
    <3>5. QED BY <2>2, <3>1, <3>2, <3>3, <3>4
  <2>3. QED BY <2>1, <2>2
<1>7. QED BY <1>4, <1>5, <1>6

\* It pushes messages.
LEMMA PushedType ==
  ASSUME NEW q \in Seq(Message), q # <<>>
  PROVE  Pushed(q) \in Seq(Message)
<1>1. Head(q) \in Message OBVIOUS
<1>2. \A x, y \in Message : <<x, y>> \in Seq(Message) /\ <<x>> \in Seq(Message) OBVIOUS
<1>3. <<>> \in Seq(Message) OBVIOUS
<1>4. QED BY <1>1, <1>2, <1>3, PushedFacts

\* A set of queues that holds every queue whose shorter ones it holds, holds all.
LEMMA QueueInduction ==
  ASSUME NEW S, NEW P,
         \A q \in Seq(S) : (\A r \in Seq(S) : Len(r) < Len(q) => r \in P) => q \in P
  PROVE  Seq(S) \subseteq P
<1> DEFINE Bad == Seq(S) \ P
           L == {Len(q) : q \in Bad}
<1>1. SUFFICES ASSUME Bad # {} PROVE FALSE OBVIOUS
<1>2. \A q \in Bad : Len(q) \in Nat /\ Len(q) \in L OBVIOUS
<1>3. L \subseteq Nat /\ L # {}
  <2>1. PICK q \in Bad : TRUE BY <1>1
  <2>2. Len(q) \in L BY <2>1
  <2>3. L \subseteq Nat BY <1>2
  <2>4. QED BY <2>2, <2>3
<1>4. PICK n \in L : \A m \in L : n <= m BY <1>3, LeastNumber
<1>5. PICK q \in Bad : n = Len(q) BY <1>4
<1>6. ASSUME NEW r \in Seq(S), Len(r) < Len(q) PROVE r \in P
  <2>1. Len(r) \in Nat OBVIOUS
  <2>2. Len(q) \in Nat BY <1>2, <1>5
  <2>3. ~(n <= Len(r)) BY <1>5, <1>6, <2>1, <2>2
  <2>4. QED BY <1>2, <1>4, <2>3
<1>7. q \in Seq(S) /\ q \notin P OBVIOUS
<1>8. QED BY <1>6, <1>7

\* Queues of at most n messages, and the loop's equation on them.
UpTo(n) == {q \in Seq(Message) : Len(q) <= n}

Iterates(f, q) == f[q] = IF q = <<>> THEN <<>> ELSE Pushed(q) \o f[Remaining(q)]

Solves(f, n) == f \in [UpTo(n) -> Seq(Message)] /\ \A q \in UpTo(n) : Iterates(f, q)

\* Two solutions agree where both are defined.
LEMMA SolutionsAgree ==
  ASSUME NEW n \in Nat, NEW m \in Nat, NEW f, NEW g, Solves(f, n), Solves(g, m)
  PROVE  \A q \in Seq(Message) : Len(q) <= n /\ Len(q) <= m => f[q] = g[q]
<1> DEFINE P == {q \in Seq(Message) : Len(q) <= n /\ Len(q) <= m => f[q] = g[q]}
<1>1. ASSUME NEW q \in Seq(Message), \A r \in Seq(Message) : Len(r) < Len(q) => r \in P
      PROVE  q \in P
  <2>1. SUFFICES ASSUME Len(q) <= n, Len(q) <= m PROVE f[q] = g[q] OBVIOUS
  <2>2. q \in UpTo(n) /\ q \in UpTo(m) BY <2>1 DEF UpTo
  <2>3. Iterates(f, q) /\ Iterates(g, q) BY <2>2 DEF Solves
  <2>4. CASE q = <<>> BY <2>3, <2>4 DEF Iterates
  <2>5. CASE q # <<>>
    <3>1. PICK r \in Seq(Message) : r = Remaining(q) /\ Len(r) < Len(q) BY <2>5, RemainingFacts
    <3>2. Len(r) \in Nat /\ Len(q) \in Nat OBVIOUS
    <3>3. Len(r) <= n /\ Len(r) <= m BY <2>1, <3>1, <3>2
    <3>4. f[r] = g[r] BY <1>1, <3>1, <3>3
    <3>5. QED BY <2>3, <2>5, <3>1, <3>4 DEF Iterates
  <2>6. QED BY <2>4, <2>5
<1>2. Seq(Message) \subseteq P
  <2> HIDE DEF P
  <2>1. QED BY <1>1, QueueInduction
<1>3. QED BY <1>2

\* There is one for every length.
LEMMA SolutionsExist == \A n \in Nat : \E f : Solves(f, n)
<1> DEFINE P == {n \in Nat : \E f : Solves(f, n)}
<1>1. 0 \in P
  <2> DEFINE f == [q \in UpTo(0) |-> <<>>]
  <2>1. \A q \in UpTo(0) : q = <<>> BY EmptySeq DEF UpTo
  <2>2. <<>> \in Seq(Message) OBVIOUS
  <2>3. f \in [UpTo(0) -> Seq(Message)] BY <2>2
  <2>4. \A q \in UpTo(0) : Iterates(f, q) BY <2>1 DEF Iterates
  <2> HIDE DEF f
  <2>5. Solves(f, 0) BY <2>3, <2>4 DEF Solves
  <2>6. QED BY <2>5
<1>2. ASSUME NEW n \in Nat, n \in P PROVE n + 1 \in P
  <2>1. PICK f : Solves(f, n) BY <1>2
  <2> DEFINE g == [q \in UpTo(n + 1) |-> IF Len(q) <= n THEN f[q] ELSE Pushed(q) \o f[Remaining(q)]]
  <2>2. ASSUME NEW q \in UpTo(n + 1), q # <<>>
        PROVE  /\ q \in Seq(Message) /\ Pushed(q) \in Seq(Message)
               /\ Remaining(q) \in UpTo(n) /\ Remaining(q) \in UpTo(n + 1)
               /\ Len(Remaining(q)) <= n
    <3>1. q \in Seq(Message) /\ Len(q) <= n + 1 BY DEF UpTo
    <3>2. PICK r \in Seq(Message) : r = Remaining(q) /\ Len(r) < Len(q)
      BY <2>2, <3>1, RemainingFacts
    <3>3. Len(r) \in Nat /\ Len(q) \in Nat BY <3>1
    <3>4. Len(r) <= n /\ Len(r) <= n + 1 BY <3>1, <3>2, <3>3
    <3>5. Pushed(q) \in Seq(Message) BY <2>2, <3>1, PushedType
    <3>6. QED BY <3>1, <3>2, <3>4, <3>5 DEF UpTo
  <2>3. /\ f \in [UpTo(n) -> Seq(Message)] /\ \A q \in UpTo(n) : Iterates(f, q)
    BY <2>1 DEF Solves
  <2>4. ASSUME NEW q \in UpTo(n + 1)
        PROVE  /\ q \in Seq(Message) /\ Len(q) \in Nat
               /\ Len(q) <= n => q \in UpTo(n) /\ f[q] \in Seq(Message)
               /\ ~(Len(q) <= n) => q # <<>>
    <3>1. q \in Seq(Message) /\ Len(q) \in Nat BY DEF UpTo
    <3>2. ~(Len(q) <= n) => q # <<>> BY EmptySeq
    <3>3. Len(q) <= n => q \in UpTo(n) BY <3>1 DEF UpTo
    <3>4. QED BY <2>3, <3>1, <3>2, <3>3
  <2>5. g \in [UpTo(n + 1) -> Seq(Message)]
    <3>1. ASSUME NEW q \in UpTo(n + 1)
          PROVE  (IF Len(q) <= n THEN f[q] ELSE Pushed(q) \o f[Remaining(q)]) \in Seq(Message)
      <4>1. CASE Len(q) <= n BY <2>4, <4>1
      <4>2. CASE ~(Len(q) <= n)
        <5>1. q # <<>> BY <2>4, <4>2
        <5>2. Pushed(q) \in Seq(Message) /\ f[Remaining(q)] \in Seq(Message) BY <2>2, <2>3, <5>1
        <5>3. Pushed(q) \o f[Remaining(q)] \in Seq(Message) BY <5>2, ConcatProperties
        <5>4. QED BY <4>2, <5>3
      <4>3. QED BY <4>1, <4>2
    <3>2. QED BY <3>1
  <2>6. \A q \in UpTo(n + 1) : g[q] = IF Len(q) <= n THEN f[q] ELSE Pushed(q) \o f[Remaining(q)]
    OBVIOUS
  <2> HIDE DEF g
  <2>7. ASSUME NEW q \in UpTo(n + 1) PROVE Iterates(g, q)
    <3>1. CASE q = <<>>
      <4>1. Len(q) <= n BY <3>1, EmptySeq
      <4>2. f[q] = <<>> BY <2>3, <2>4, <3>1, <4>1 DEF Iterates
      <4>3. QED BY <2>6, <3>1, <4>1, <4>2 DEF Iterates
    <3>2. CASE q # <<>>
      <4>1. g[Remaining(q)] = f[Remaining(q)] BY <2>2, <2>6, <3>2
      <4>2. CASE Len(q) <= n
        <5>1. f[q] = Pushed(q) \o f[Remaining(q)] BY <2>3, <2>4, <3>2, <4>2 DEF Iterates
        <5>2. g[q] = f[q] BY <2>6, <4>2
        <5>3. QED BY <3>2, <4>1, <5>1, <5>2 DEF Iterates
      <4>3. CASE ~(Len(q) <= n)
        <5>1. g[q] = Pushed(q) \o f[Remaining(q)] BY <2>6, <4>3
        <5>2. QED BY <3>2, <4>1, <5>1 DEF Iterates
      <4>4. QED BY <4>2, <4>3
    <3>3. QED BY <3>1, <3>2
  <2>8. Solves(g, n + 1) BY <2>5, <2>7 DEF Solves
  <2>9. QED BY <2>8
<1>3. Nat \subseteq P
  <2> HIDE DEF P
  <2>1. QED BY <1>1, <1>2, Induction
<1>4. QED BY <1>3

\* Pairing is the loop, and yields messages.
LEMMA PairingLoop ==
  /\ \A q \in Seq(Message) : Pairing[q] \in Seq(Message)
  /\ Pairing[<<>>] = <<>>
  /\ \A q \in Seq(Message) : q # <<>> => Pairing[q] = Pushed(q) \o Pairing[Remaining(q)]
<1> DEFINE Body(f) == [q \in Seq(Message) |->
                         IF q = <<>> THEN <<>> ELSE Pushed(q) \o f[Remaining(q)]]
           Sol(n) == CHOOSE f : Solves(f, n)
           F == [q \in Seq(Message) |-> Sol(Len(q))[q]]
<1>1. \A n \in Nat : Solves(Sol(n), n) BY SolutionsExist, Zenon
<1> HIDE DEF Sol
<1>2. ASSUME NEW q \in Seq(Message) PROVE F[q] = Body(F)[q]
  <2>1. PICK n \in Nat : n = Len(q) OBVIOUS
  <2>2. Solves(Sol(n), n) /\ q \in UpTo(n) BY <1>1, <2>1 DEF UpTo
  <2>3. Iterates(Sol(n), q) BY <2>2 DEF Solves
  <2>4. F[q] = Sol(n)[q] BY <2>1
  <2>5. Body(F)[q] = IF q = <<>> THEN <<>> ELSE Pushed(q) \o F[Remaining(q)] OBVIOUS
  <2>6. CASE q = <<>> BY <2>3, <2>4, <2>5, <2>6 DEF Iterates
  <2>7. CASE q # <<>>
    <3>1. PICK r \in Seq(Message) : r = Remaining(q) /\ Len(r) < Len(q) BY <2>7, RemainingFacts
    <3>2. PICK k \in Nat : k = Len(r) OBVIOUS
    <3>3. F[r] = Sol(k)[r] BY <3>2
    <3>4. Len(r) <= k /\ Len(r) <= n BY <2>1, <3>1, <3>2
    <3>5. Solves(Sol(k), k) BY <1>1
    <3>6. Sol(k)[r] = Sol(n)[r] BY <2>2, <3>4, <3>5, SolutionsAgree
    <3>7. Sol(n)[q] = Pushed(q) \o Sol(n)[r] BY <2>3, <2>7, <3>1 DEF Iterates
    <3> HIDE DEF F, Body
    <3>8. QED BY <2>4, <2>5, <2>7, <3>1, <3>3, <3>6, <3>7
  <2>8. QED BY <2>6, <2>7
<1>3. F = Body(F)
  <2>1. F = [q \in Seq(Message) |-> F[q]] OBVIOUS
  <2>2. Body(F) = [q \in Seq(Message) |-> Body(F)[q]] OBVIOUS
  <2> HIDE DEF F, Body
  <2>3. [q \in Seq(Message) |-> F[q]] = [q \in Seq(Message) |-> Body(F)[q]] BY <1>2
  <2>4. QED BY <2>1, <2>2, <2>3
<1>4. \E f : f = Body(f) BY <1>3
<1>5. Pairing = Body(Pairing)
  <2>1. Pairing = CHOOSE f : f = Body(f) BY Zenon DEF Pairing
  <2> HIDE DEF Body
  <2>2. QED BY <1>4, <2>1, Zenon
<1>6. \A q \in Seq(Message) : Pairing[q] = IF q = <<>> THEN <<>>
                                           ELSE Pushed(q) \o Pairing[Remaining(q)]
  <2>1. \A q \in Seq(Message) : Body(Pairing)[q] = IF q = <<>> THEN <<>>
                                                   ELSE Pushed(q) \o Pairing[Remaining(q)]
    OBVIOUS
  <2> HIDE DEF Body
  <2>2. QED BY <1>5, <2>1
<1>7. Pairing[<<>>] = <<>>
  <2>1. <<>> \in Seq(Message) OBVIOUS
  <2>2. QED BY <1>6, <2>1
<1>8. \A q \in Seq(Message) : Pairing[q] \in Seq(Message)
  <2> DEFINE P == {q \in Seq(Message) : Pairing[q] \in Seq(Message)}
  <2>1. ASSUME NEW q \in Seq(Message), \A r \in Seq(Message) : Len(r) < Len(q) => r \in P
        PROVE  q \in P
    <3>1. CASE q = <<>> BY <1>7, <3>1
    <3>2. CASE q # <<>>
      <4>1. Pushed(q) \in Seq(Message) BY <3>2, PushedType
      <4>2. Remaining(q) \in P BY <2>1, <3>2, RemainingFacts
      <4>3. Pushed(q) \o Pairing[Remaining(q)] \in Seq(Message) BY <4>1, <4>2, ConcatProperties
      <4>4. QED BY <1>6, <3>2, <4>3
    <3>3. QED BY <3>1, <3>2
  <2>2. Seq(Message) \subseteq P
    <3> HIDE DEF P
    <3>1. QED BY <2>1, QueueInduction
  <2>3. QED BY <2>2
<1>9. QED BY <1>6, <1>7, <1>8

-----------------------------------------------------------------------------
(* What the provider accepts.                                               *)

\* Calls and results of a history that need not open with a user message.
Closed(h) ==
  /\ h \in Seq(Message)
  /\ \A i \in DOMAIN h : h[i].content # <<>>
  /\ \A i \in DOMAIN h : ToolUseIds(h[i]) # {} =>
       /\ i < Len(h) /\ h[i+1].role = "user"
       /\ ResultIds(h[i+1]) = ToolUseIds(h[i]) /\ ResultsFirst(h[i+1])
  /\ \A i \in DOMAIN h : h[i].role = "user" /\ ResultIds(h[i]) # {} =>
       i > 1 /\ ToolUseIds(h[i-1]) = ResultIds(h[i])

LEMMA ClosedIsValid ==
  ASSUME NEW h \in Seq(Message)
  PROVE  ApiValid(h) <=> Closed(h) /\ (h # <<>> => h[1].role = "user")
  BY DEF ApiValid, Closed

\* Closed histories can be put one behind the other.
LEMMA ClosedConcat ==
  ASSUME NEW a, NEW b, Closed(a), Closed(b)
  PROVE  Closed(a \o b)
<1> DEFINE h == a \o b
<1>1. a \in Seq(Message) /\ b \in Seq(Message) /\ Len(a) \in Nat /\ Len(b) \in Nat BY DEF Closed
<1>2. h \in Seq(Message) /\ Len(h) = Len(a) + Len(b) BY <1>1, ConcatProperties
<1>3. /\ \A i \in DOMAIN a : i \in Nat /\ 1 <= i /\ i <= Len(a) /\ i \in DOMAIN h /\ h[i] = a[i]
      /\ \A i \in DOMAIN b : i \in Nat /\ Len(a) + i \in DOMAIN h /\ h[Len(a) + i] = b[i]
      /\ \A i \in DOMAIN h : i \in DOMAIN a \/ \E j \in DOMAIN b : i = Len(a) + j
  <2>1. /\ \A i \in 1..Len(a) : i \in 1..(Len(a) + Len(b)) /\ h[i] = a[i]
        /\ \A i \in 1..Len(b) : Len(a) + i \in 1..(Len(a) + Len(b)) /\ h[Len(a) + i] = b[i]
    BY <1>1
  <2>2. DOMAIN a = 1..Len(a) /\ DOMAIN b = 1..Len(b) /\ DOMAIN h = 1..(Len(a) + Len(b))
    BY <1>1, <1>2
  <2>3. \A i \in 1..(Len(a) + Len(b)) : i \in 1..Len(a) \/ (i - Len(a) \in 1..Len(b)
                                                            /\ i = Len(a) + (i - Len(a)))
    BY <1>1
  <2> HIDE DEF h
  <2>4. \A i \in DOMAIN a : i \in Nat /\ 1 <= i /\ i <= Len(a) /\ i \in DOMAIN h /\ h[i] = a[i]
    BY <1>1, <2>1, <2>2
  <2>5. \A i \in DOMAIN b : i \in Nat /\ Len(a) + i \in DOMAIN h /\ h[Len(a) + i] = b[i]
    BY <1>1, <2>1, <2>2
  <2>6. \A i \in DOMAIN h : i \in DOMAIN a \/ \E j \in DOMAIN b : i = Len(a) + j
    <3>1. SUFFICES ASSUME NEW i \in DOMAIN h, i \notin DOMAIN a
                   PROVE  \E j \in DOMAIN b : i = Len(a) + j
      OBVIOUS
    <3>2. i \in 1..(Len(a) + Len(b)) /\ i \notin 1..Len(a) BY <2>2, <3>1
    <3>3. i - Len(a) \in 1..Len(b) /\ i = Len(a) + (i - Len(a)) BY <2>3, <3>2
    <3>4. i - Len(a) \in DOMAIN b BY <2>2, <3>3
    <3>5. QED BY <3>3, <3>4
  <2>7. QED BY <2>4, <2>5, <2>6
<1> HIDE DEF h
<1>4. \A i \in DOMAIN h : h[i].content # <<>> BY <1>3 DEF Closed
<1>5. ASSUME NEW i \in DOMAIN h, ToolUseIds(h[i]) # {}
      PROVE  /\ i < Len(h) /\ h[i+1].role = "user"
             /\ ResultIds(h[i+1]) = ToolUseIds(h[i]) /\ ResultsFirst(h[i+1])
  <2>1. CASE i \in DOMAIN a
    <3>1. /\ i < Len(a) /\ a[i+1].role = "user"
          /\ ResultIds(a[i+1]) = ToolUseIds(a[i]) /\ ResultsFirst(a[i+1])
      BY <1>3, <1>5, <2>1 DEF Closed
    <3>2. i + 1 \in DOMAIN a BY <1>1, <2>1, <3>1
    <3>3. i < Len(h) BY <1>1, <1>2, <1>3, <2>1, <3>1
    <3>4. QED BY <1>3, <2>1, <3>1, <3>2, <3>3
  <2>2. ASSUME NEW j \in DOMAIN b, i = Len(a) + j
        PROVE  /\ i < Len(h) /\ h[i+1].role = "user"
               /\ ResultIds(h[i+1]) = ToolUseIds(h[i]) /\ ResultsFirst(h[i+1])
    <3>1. /\ j < Len(b) /\ b[j+1].role = "user"
          /\ ResultIds(b[j+1]) = ToolUseIds(b[j]) /\ ResultsFirst(b[j+1])
      BY <1>3, <1>5, <2>2 DEF Closed
    <3>2. j + 1 \in DOMAIN b BY <1>1, <2>2, <3>1
    <3>3. i < Len(h) /\ i + 1 = Len(a) + (j + 1) BY <1>1, <1>2, <1>3, <2>2, <3>1
    <3>4. QED BY <1>3, <2>2, <3>1, <3>2, <3>3
  <2>3. QED BY <1>3, <2>1, <2>2
<1>6. ASSUME NEW i \in DOMAIN h, h[i].role = "user", ResultIds(h[i]) # {}
      PROVE  i > 1 /\ ToolUseIds(h[i-1]) = ResultIds(h[i])
  <2>1. CASE i \in DOMAIN a
    <3>1. i > 1 /\ ToolUseIds(a[i-1]) = ResultIds(a[i]) BY <1>3, <1>6, <2>1 DEF Closed
    <3>2. i - 1 \in DOMAIN a BY <1>1, <2>1, <3>1
    <3>3. QED BY <1>3, <2>1, <3>1, <3>2
  <2>2. ASSUME NEW j \in DOMAIN b, i = Len(a) + j
        PROVE  i > 1 /\ ToolUseIds(h[i-1]) = ResultIds(h[i])
    <3>1. j > 1 /\ ToolUseIds(b[j-1]) = ResultIds(b[j]) BY <1>3, <1>6, <2>2 DEF Closed
    <3>2. j - 1 \in DOMAIN b BY <1>1, <2>2, <3>1
    <3>3. i > 1 /\ i - 1 = Len(a) + (j - 1)
      <4>1. j \in Nat /\ j > 1 BY <1>3, <2>2, <3>1
      <4>2. \A n, k \in Nat : k > 1 => n + k > 1 /\ (n + k) - 1 = n + (k - 1) OBVIOUS
      <4>3. QED BY <1>1, <2>2, <4>1, <4>2
    <3>4. QED BY <1>3, <2>2, <3>1, <3>2, <3>3
  <2>3. QED BY <1>3, <2>1, <2>2
<1>7. Closed(h) BY <1>2, <1>4, <1>5, <1>6 DEF Closed
<1>8. QED BY <1>7 DEF h

\* Histories of no, one and two messages.
LEMMA ClosedShort ==
  /\ Closed(<<>>)
  /\ \A m \in Message :
       /\ m.content # <<>> /\ ToolUseIds(m) = {} /\ (m.role = "assistant" \/ ResultIds(m) = {})
       => Closed(<<m>>)
  /\ \A m, x \in Message : m.content # <<>> /\ ToolUseIds(m) # {} /\ Answers(x, m) => Closed(<<m, x>>)
<1>1. Closed(<<>>) BY DEF Closed
<1>2. ASSUME NEW m \in Message, m.content # <<>>, ToolUseIds(m) = {},
             m.role = "assistant" \/ ResultIds(m) = {}
      PROVE  Closed(<<m>>)
  <2>1. <<m>> \in Seq(Message) /\ DOMAIN <<m>> = {1} /\ <<m>>[1] = m OBVIOUS
  <2>2. QED BY <1>2, <2>1 DEF Closed
<1>3. ASSUME NEW m \in Message, NEW x \in Message, m.content # <<>>, ToolUseIds(m) # {}, Answers(x, m)
      PROVE  Closed(<<m, x>>)
  <2> DEFINE h == <<m, x>>
  <2>1. h \in Seq(Message) /\ Len(h) = 2 /\ \A i \in DOMAIN h : i = 1 \/ i = 2 OBVIOUS
  <2>2. h[1] = m /\ h[2] = x /\ 1 + 1 = 2 /\ 2 - 1 = 1 OBVIOUS
  <2> HIDE DEF h
  <2>3. m.role = "assistant" BY <1>3, CallsAndResults
  <2>4. ToolUseIds(x) = {} BY <1>3 DEF Answers, ToolUseIds
  <2>5. ASSUME NEW i \in DOMAIN h, ToolUseIds(h[i]) # {}
        PROVE  /\ i < Len(h) /\ h[i+1].role = "user"
               /\ ResultIds(h[i+1]) = ToolUseIds(h[i]) /\ ResultsFirst(h[i+1])
    <3>1. i = 1 BY <2>1, <2>2, <2>4, <2>5
    <3>2. QED BY <1>3, <2>1, <2>2, <3>1 DEF Answers
  <2>6. ASSUME NEW i \in DOMAIN h, h[i].role = "user", ResultIds(h[i]) # {}
        PROVE  i > 1 /\ ToolUseIds(h[i-1]) = ResultIds(h[i])
    <3>1. i = 2 BY <2>1, <2>2, <2>3, <2>6
    <3>2. QED BY <1>3, <2>2, <3>1 DEF Answers
  <2>7. \A i \in DOMAIN h : h[i].content # <<>> BY <1>3, <2>1, <2>2 DEF Answers
  <2>8. Closed(h) BY <2>1, <2>5, <2>6, <2>7 DEF Closed
  <2>9. QED BY <2>8 DEF h
<1>4. QED BY <1>1, <1>2, <1>3

\* The loop makes any queue of messages with content closed.
LEMMA PairingCloses ==
  ASSUME NEW q \in Seq(Message), \A i \in DOMAIN q : q[i].content # <<>>
  PROVE  Closed(Pairing[q])
<1> DEFINE Full(r) == \A i \in DOMAIN r : r[i].content # <<>>
           P == {r \in Seq(Message) : Full(r) => Closed(Pairing[r])}
<1>1. ASSUME NEW r \in Seq(Message), \A s \in Seq(Message) : Len(s) < Len(r) => s \in P
      PROVE  r \in P
  <2>1. SUFFICES ASSUME Full(r) PROVE Closed(Pairing[r]) OBVIOUS
  <2>2. CASE r = <<>> BY <2>2, PairingLoop, ClosedShort
  <2>3. CASE r # <<>>
    <3>1. Pairing[r] = Pushed(r) \o Pairing[Remaining(r)] BY <2>3, PairingLoop
    <3>2. /\ Remaining(r) \in Seq(Message) /\ Len(Remaining(r)) < Len(r)
          /\ \A i \in DOMAIN Remaining(r) : \E j \in DOMAIN r : Remaining(r)[i] = r[j]
      BY <2>3, RemainingFacts
    <3>3. Full(Remaining(r)) BY <2>1, <3>2
    <3>4. Closed(Pairing[Remaining(r)]) BY <1>1, <3>2, <3>3
    <3>5. PICK m \in Message : m = Head(r) /\ m.content # <<>>
      <4>1. Head(r) \in Message /\ Head(r) = r[1] /\ 1 \in DOMAIN r BY <2>3
      <4>2. QED BY <2>1, <4>1
    <3>6. Closed(Pushed(r))
      <4>1. ASSUME NEW x \in Message, x.role = "user", x.content # <<>>,
                   ResultIds(x) = {}, ToolUseIds(x) = {}
            PROVE  Closed(<<x>>)
        BY <4>1, ClosedShort
      <4>2. CASE /\ ToolUseIds(m) # {}
                 /\ \E x \in Message : Answers(x, m) /\ Pushed(r) = <<m, x>>
        BY <3>5, <4>2, ClosedShort
      <4>3. CASE /\ ToolUseIds(m) = {} /\ Pushed(r) = <<m>>
                 /\ m.role = "assistant" \/ ResultIds(m) = {}
        BY <3>5, <4>3, ClosedShort
      <4>4. CASE Pushed(r) = <<>> BY <4>4, ClosedShort
      <4>5. QED BY <2>3, <3>5, <4>1, <4>2, <4>3, <4>4, PushedFacts
    <3>7. Closed(Pushed(r) \o Pairing[Remaining(r)]) BY <3>4, <3>6, ClosedConcat
    <3>8. QED BY <3>1, <3>7
  <2>4. QED BY <2>2, <2>3
<1>2. Seq(Message) \subseteq P
  <2> HIDE DEF P
  <2>1. QED BY <1>1, QueueInduction
<1>3. QED BY <1>2

\* What follows a message without calls is closed by itself.
LEMMA ClosedSuffix ==
  ASSUME NEW q, Closed(q), NEW t \in Seq(Message), NEW n \in Nat, Len(q) = Len(t) + n,
         \A i \in DOMAIN t : t[i] = q[i+n],
         t = <<>> \/ n = 0 \/ ToolUseIds(q[n]) = {}
  PROVE  Closed(t)
<1>1. q \in Seq(Message) /\ Len(q) \in Nat /\ Len(t) \in Nat BY DEF Closed
<1>2. \A i \in DOMAIN t : i \in Nat /\ 1 <= i /\ i <= Len(t) BY <1>1
<1>3. \A i \in DOMAIN t : i + n \in DOMAIN q /\ t[i] = q[i+n]
  <2>1. \A i \in 1..Len(t) : i + n \in 1..(Len(t) + n) BY <1>1
  <2>2. DOMAIN t = 1..Len(t) /\ DOMAIN q = 1..(Len(t) + n) BY <1>1
  <2>3. QED BY <2>1, <2>2
<1>4. \A i \in DOMAIN t : t[i].content # <<>> BY <1>3 DEF Closed
<1>5. ASSUME NEW i \in DOMAIN t, ToolUseIds(t[i]) # {}
      PROVE  /\ i < Len(t) /\ t[i+1].role = "user"
             /\ ResultIds(t[i+1]) = ToolUseIds(t[i]) /\ ResultsFirst(t[i+1])
  <2>1. /\ i + n < Len(q) /\ q[(i+n)+1].role = "user"
        /\ ResultIds(q[(i+n)+1]) = ToolUseIds(q[i+n]) /\ ResultsFirst(q[(i+n)+1])
    BY <1>3, <1>5 DEF Closed
  <2>2. i < Len(t) /\ i + 1 \in DOMAIN t /\ (i+n)+1 = (i+1)+n BY <1>1, <1>2, <2>1
  <2>3. t[i+1] = q[(i+n)+1] /\ t[i] = q[i+n] BY <1>3, <2>2
  <2>4. QED BY <2>1, <2>2, <2>3
<1>6. ASSUME NEW i \in DOMAIN t, t[i].role = "user", ResultIds(t[i]) # {}
      PROVE  i > 1 /\ ToolUseIds(t[i-1]) = ResultIds(t[i])
  <2>1. i + n > 1 /\ ToolUseIds(q[(i+n)-1]) = ResultIds(q[i+n]) BY <1>3, <1>6 DEF Closed
  <2>2. i > 1
    <3>1. SUFFICES ASSUME i = 1 PROVE FALSE BY <1>2
    <3>2. n # 0 /\ (i+n)-1 = n /\ t # <<>> BY <2>1, <3>1
    <3>3. ToolUseIds(q[n]) = {} BY <3>2
    <3>4. QED BY <1>3, <1>6, <2>1, <3>2, <3>3
  <2>3. i - 1 \in DOMAIN t /\ (i+n)-1 = (i-1)+n BY <1>1, <1>2, <2>2
  <2>4. QED BY <1>3, <2>1, <2>2, <2>3
<1>7. QED BY <1>4, <1>5, <1>6 DEF Closed

\* The loop takes a closed queue apart and puts it together again.
LEMMA PairingKeepsClosed ==
  ASSUME NEW q, Closed(q)
  PROVE  Pairing[q] = q
<1> DEFINE P == {r \in Seq(Message) : Closed(r) => Pairing[r] = r}
<1>1. ASSUME NEW r \in Seq(Message), \A s \in Seq(Message) : Len(s) < Len(r) => s \in P
      PROVE  r \in P
  <2>1. SUFFICES ASSUME Closed(r) PROVE Pairing[r] = r OBVIOUS
  <2>2. CASE r = <<>> BY <2>2, PairingLoop
  <2>3. CASE r # <<>>
    <3>1. Pairing[r] = Pushed(r) \o Pairing[Remaining(r)] BY <2>3, PairingLoop
    <3>2. PICK m \in Message : m = Head(r) /\ m = r[1] /\ 1 \in DOMAIN r BY <2>3
    <3>3. PICK t \in Seq(Message) : /\ t = Tail(r) /\ Len(r) = Len(t) + 1
                                    /\ \A i \in DOMAIN t : t[i] = r[i+1]
      <4>1. /\ Tail(r) \in Seq(Message) /\ Len(r) = Len(Tail(r)) + 1
            /\ \A i \in DOMAIN Tail(r) : Tail(r)[i] = r[i+1]
        BY <2>3
      <4>2. QED BY <4>1
    <3>4. CASE ToolUseIds(m) = {}
      <4>1. FirstAnswer(t, ToolUseIds(m)) = 0
        BY <3>4, FirstAnswerFacts DEF AnswersAny
      <4>2. Remaining(r) = t BY <3>2, <3>3, <4>1 DEF Remaining
      <4>3. Closed(t) BY <2>1, <3>2, <3>3, <3>4, ClosedSuffix
      <4>4. m.role = "assistant" \/ ResultIds(m) = {}
        <5>1. ~(1 > 1) OBVIOUS
        <5>2. m.role = "user" /\ ResultIds(m) # {} => 1 > 1 BY <2>1, <3>2 DEF Closed
        <5>3. QED BY <5>1, <5>2, CallsAndResults
      <4>5. Pushed(r) = <<m>> BY <3>2, <3>4, <4>4 DEF Pushed
      <4>6. Pairing[t] = t
        <5>1. Len(t) < Len(r)
          <6>1. Len(t) \in Nat OBVIOUS
          <6>2. QED BY <3>3, <6>1
        <5>2. t \in P BY <1>1, <5>1
        <5>3. QED BY <4>3, <5>2
      <4>7. <<m>> \o t = r BY <2>3, <3>2, <3>3
      <4>8. QED BY <3>1, <4>2, <4>5, <4>6, <4>7
    <3>5. CASE ToolUseIds(m) # {}
      <4>1. /\ 1 < Len(r) /\ r[1+1].role = "user"
            /\ ResultIds(r[1+1]) = ToolUseIds(m) /\ ResultsFirst(r[1+1])
        BY <2>1, <3>2, <3>5 DEF Closed
      <4>2. PICK x \in Message : x = t[1] /\ x = r[2] /\ 1 \in DOMAIN t BY <3>3, <4>1
      <4>3. x.role = "user" /\ ResultIds(x) = ToolUseIds(m) /\ ResultsFirst(x) BY <4>1, <4>2
      <4>4. AnswersAny(t[1], ToolUseIds(m)) BY <3>5, <4>2, <4>3 DEF AnswersAny
      <4>5. FirstAnswer(t, ToolUseIds(m)) = 1
        <5>1. PICK k : k = FirstAnswer(t, ToolUseIds(m)) OBVIOUS
        <5>2. k \in DOMAIN t /\ k <= 1 BY <4>2, <4>4, <5>1, FirstAnswerFacts
        <5>3. k = 1 BY <5>2
        <5>4. QED BY <5>1, <5>3
      <4>6. NormalizePairAnswer(x, m) = x BY <4>3 DEF NormalizePairAnswer
      <4>7. Pushed(r) = <<m, x>> BY <3>2, <3>3, <3>5, <4>2, <4>5, <4>6 DEF Pushed
      <4>8. PICK u \in Seq(Message) : /\ u = Remaining(r) /\ Len(t) = Len(u) + 1
                                      /\ \A i \in DOMAIN u : u[i] = t[i+1]
        <5>1. Remaining(r) = RemoveAt(t, 1) BY <3>2, <3>3, <4>5 DEF Remaining
        <5>2. RemoveAt(t, 1) = SubSeq(t, 1, 1-1) \o SubSeq(t, 1+1, Len(t)) BY DEF RemoveAt
        <5>3. SubSeq(t, 1, 1-1) = <<>> OBVIOUS
        <5>4. PICK s \in Seq(Message) : /\ s = SubSeq(t, 1+1, Len(t)) /\ Len(t) = Len(s) + 1
                                        /\ \A i \in DOMAIN s : s[i] = t[i+1]
          <6>1. t # <<>> BY <4>2
          <6>2. SubSeq(t, 1+1, Len(t)) = Tail(t)
            <7>1. Tail(t) = SubSeq(t, 2, Len(t)) BY <6>1, TailIsSubSeq
            <7>2. 1 + 1 = 2 OBVIOUS
            <7>3. QED BY <7>1, <7>2
          <6>3. /\ Tail(t) \in Seq(Message) /\ Len(t) = Len(Tail(t)) + 1
                /\ \A i \in DOMAIN Tail(t) : Tail(t)[i] = t[i+1]
            BY <6>1
          <6>4. QED BY <6>2, <6>3
        <5>5. <<>> \o s = s OBVIOUS
        <5>6. QED BY <5>1, <5>2, <5>3, <5>4, <5>5
      <4>9. \A i \in DOMAIN u : u[i] = r[i+2]
        <5>1. \A i \in DOMAIN u : i \in Nat /\ i + 1 \in DOMAIN t /\ (i+1)+1 = i+2 BY <4>8
        <5>2. QED BY <3>3, <4>8, <5>1
      <4>10. Closed(u)
        <5>1. ToolUseIds(r[2]) = {} BY <4>2, <4>3 DEF ToolUseIds
        <5>2. Len(r) = Len(u) + 2
          <6>1. \A n \in Nat : (n + 1) + 1 = n + 2 OBVIOUS
          <6>2. Len(u) \in Nat OBVIOUS
          <6>3. QED BY <3>3, <4>8, <6>1, <6>2
        <5>3. QED BY <2>1, <4>9, <5>1, <5>2, ClosedSuffix
      <4>11. Pairing[u] = u BY <1>1, <3>3, <4>8, <4>10
      <4>12. <<m, x>> \o u = r
        <5>1. <<m, x>> \o u \in Seq(Message) /\ Len(<<m, x>> \o u) = Len(u) + 2 BY <4>8
        <5>2. Len(r) = Len(u) + 2
          <6>1. \A n \in Nat : (n + 1) + 1 = n + 2 OBVIOUS
          <6>2. Len(u) \in Nat OBVIOUS
          <6>3. QED BY <3>3, <4>8, <6>1, <6>2
        <5>3. \A i \in 1..Len(r) : (<<m, x>> \o u)[i] = r[i]
          <6>1. ASSUME NEW i \in 1..(Len(u) + 2) PROVE (<<m, x>> \o u)[i] = r[i]
            <7>1. CASE i = 1 BY <3>2, <7>1
            <7>2. CASE i = 2 BY <4>2, <7>2
            <7>3. CASE i > 2
              <8>1. i - 2 \in DOMAIN u /\ (i-2)+2 = i BY <4>8, <7>3
              <8>2. (<<m, x>> \o u)[i] = u[i-2] BY <4>8, <7>3
              <8>3. QED BY <4>9, <8>1, <8>2
            <7>4. QED BY <7>1, <7>2, <7>3
          <6>2. QED BY <5>2, <6>1
        <5>4. QED BY <5>1, <5>2, <5>3, SeqEqual
      <4>13. QED BY <3>1, <4>7, <4>8, <4>11, <4>12
    <3>6. QED BY <3>4, <3>5
  <2>4. QED BY <2>2, <2>3
<1>2. Seq(Message) \subseteq P
  <2> HIDE DEF P
  <2>1. QED BY <1>1, QueueInduction
<1>3. QED BY <1>2 DEF Closed

-----------------------------------------------------------------------------
(* What a reload restores.                                                  *)

\* The messages with content.
LEMMA NonEmptyFacts ==
  ASSUME NEW h \in Seq(Message)
  PROVE  /\ NonEmpty(h) \in Seq(Message)
         /\ \A i \in DOMAIN NonEmpty(h) : NonEmpty(h)[i].content # <<>>
         /\ (\A i \in DOMAIN h : h[i].content # <<>>) => NonEmpty(h) = h
<1> DEFINE I == {i \in DOMAIN h : h[i].content # <<>>}
<1>1. I \subseteq DOMAIN h /\ \A i \in I : h[i].content # <<>> OBVIOUS
<1>2. NonEmpty(h) = Kept(h, I) BY DEF NonEmpty
<1>3. (\A i \in DOMAIN h : h[i].content # <<>>) => DOMAIN h \subseteq I OBVIOUS
<1> HIDE DEF I
<1>4. /\ NonEmpty(h) \in Seq(Message)
      /\ \A i \in DOMAIN NonEmpty(h) : NonEmpty(h)[i].content # <<>>
  BY <1>1, <1>2, KeptElements
<1>5. (\A i \in DOMAIN h : h[i].content # <<>>) => NonEmpty(h) = h
  BY <1>2, <1>3, KeptAll
<1>6. QED BY <1>4, <1>5

(* Whatever messages a session file holds, in whatever order racing or      *)
(* interrupted appends left them, repair_history returns messages that the  *)
(* provider accepts: every call answered by exactly its results, right      *)
(* behind it and in front of other blocks, no result without its call, no   *)
(* empty message, a user message first.                                     *)
THEOREM RepairRestores ==
  \A h \in Seq(Message) : RepairHistory(h) \in Seq(Message) /\ ApiValid(RepairHistory(h))
<1> SUFFICES ASSUME NEW h \in Seq(Message)
             PROVE  RepairHistory(h) \in Seq(Message) /\ ApiValid(RepairHistory(h))
  OBVIOUS
<1> DEFINE opening == User(<<[kind |-> "opening_lost", id |-> 0]>>)
<1>1. PICK out : out = Pairing[NonEmpty(h)] /\ Closed(out) /\ out \in Seq(Message)
  BY NonEmptyFacts, PairingCloses, PairingLoop
<1>2. RepairHistory(h) = IF out # <<>> /\ out[1].role = "assistant" THEN <<opening>> \o out ELSE out
  BY <1>1 DEF RepairHistory
<1>3. CASE out # <<>> /\ out[1].role = "assistant"
  <2>1. /\ opening \in Message /\ opening.role = "user" /\ opening.content # <<>>
        /\ ToolUseIds(opening) = {} /\ ResultIds(opening) = {}
    <3>1. <<[kind |-> "opening_lost", id |-> 0]>> \in Seq(Block) BY DEF Block, BlockKinds
    <3>2. /\ opening \in Message /\ opening.role = "user" /\ ToolUseIds(opening) = {}
          /\ opening.content = <<[kind |-> "opening_lost", id |-> 0]>>
      BY <3>1, UserMessage
    <3>3. \A k \in DOMAIN opening.content : ~IsResult(opening.content[k]) BY <3>2 DEF IsResult
    <3>4. ResultIds(opening) = {} BY <3>3 DEF ResultIds
    <3>5. opening.content # <<>>
      <4>1. \A b : <<b>> # <<>> OBVIOUS
      <4>2. QED BY <3>2, <4>1
    <3>6. QED BY <3>2, <3>4, <3>5
  <2> HIDE DEF opening
  <2>2. Closed(<<opening>> \o out) BY <1>1, <2>1, ClosedShort, ClosedConcat
  <2>3. (<<opening>> \o out)[1] = opening /\ <<opening>> \o out \in Seq(Message) BY <1>1, <2>1
  <2>4. ApiValid(<<opening>> \o out) BY <2>1, <2>2, <2>3, ClosedIsValid
  <2>5. QED BY <1>2, <1>3, <2>3, <2>4
<1>4. CASE ~(out # <<>> /\ out[1].role = "assistant")
  <2>1. out # <<>> => out[1].role = "user"
    <3>1. out # <<>> => out[1] \in Message BY <1>1
    <3>2. QED BY <1>4, <3>1, CallsAndResults
  <2>2. QED BY <1>1, <1>2, <1>4, <2>1, ClosedIsValid
<1>5. QED BY <1>3, <1>4

(* A history that the provider already accepts comes back as it was: repair *)
(* never touches a clean file, so reloading changes no conversation that    *)
(* needs no repair.                                                         *)
THEOREM RepairKeepsClean ==
  \A h \in Seq(Message) : ApiValid(h) => RepairHistory(h) = h
<1>1. SUFFICES ASSUME NEW h \in Seq(Message), ApiValid(h) PROVE RepairHistory(h) = h
  OBVIOUS
<1>2. Closed(h) /\ (h # <<>> => h[1].role = "user") BY <1>1, ClosedIsValid
<1>3. NonEmpty(h) = h BY <1>2, NonEmptyFacts DEF Closed
<1>4. Pairing[h] = h BY <1>2, PairingKeepsClosed
<1>5. QED BY <1>2, <1>3, <1>4 DEF RepairHistory

(* Repairing a second time changes nothing: a session reloaded again and    *)
(* again keeps the conversation its first reload gave it.                   *)
COROLLARY RepairIsIdempotent ==
  \A h \in Seq(Message) : RepairHistory(RepairHistory(h)) = RepairHistory(h)
  BY RepairRestores, RepairKeepsClean

-----------------------------------------------------------------------------
(* What a trim leaves.                                                      *)

\* A number-valued finite stretch of positions has a last one.
LEMMA LastOfStretch ==
  ASSUME NEW N \in Nat, NEW P, P \subseteq 1..N, P # {}
  PROVE  \E i \in P : \A j \in P : j <= i
<1> DEFINE Q == {N - i : i \in P}
<1>1. \A i \in P : i \in Nat /\ i <= N /\ N - i \in Nat OBVIOUS
<1>2. Q \subseteq Nat BY <1>1
<1>3. Q # {} OBVIOUS
<1>4. PICK n \in Q : \A m \in Q : n <= m BY <1>2, <1>3, LeastNumber
<1>5. PICK i \in P : n = N - i OBVIOUS
<1>6. ASSUME NEW j \in P PROVE j <= i
  <2>1. N - i <= N - j BY <1>4, <1>5
  <2>2. QED BY <1>1, <2>1
<1>7. QED BY <1>6

\* The cut is at a turn start, if there is one.
LEMMA TrimCutFacts ==
  ASSUME NEW h \in Seq(Message), NEW budget
  PROVE  \/ TrimCut(h, budget) = 0
         \/ TrimCut(h, budget) \in DOMAIN h /\ IsTurnStart(h[TrimCut(h, budget)])
<1> DEFINE starts == {i \in DOMAIN h : IsTurnStart(h[i])}
           fits == {i \in starts : SuffixTokens(h, i) <= TrimTarget(budget)}
           first == CHOOSE i \in fits : \A j \in fits : i <= j
           last == CHOOSE i \in starts : \A j \in starts : j <= i
<1>1. TrimCut(h, budget) = IF fits # {} THEN first ELSE IF starts # {} THEN last ELSE 0
  BY Zenon DEF TrimCut
<1>2. PICK N \in Nat : N = Len(h) OBVIOUS
<1>3. starts \subseteq 1..N BY <1>2
<1>4. fits \subseteq starts OBVIOUS
<1>5. fits # {} => first \in fits
  <2> HIDE DEF starts, fits
  <2>1. fits \subseteq Nat
    <3>1. \A i \in 1..N : i \in Nat OBVIOUS
    <3>2. QED BY <1>3, <1>4, <3>1
  <2>2. SUFFICES ASSUME fits # {} PROVE first \in fits OBVIOUS
  <2>3. \E i \in fits : \A j \in fits : i <= j BY <2>1, <2>2, LeastNumber
  <2>4. QED BY <2>3, Zenon
<1>6. starts # {} => last \in starts
  <2> HIDE DEF starts
  <2>1. SUFFICES ASSUME starts # {} PROVE last \in starts OBVIOUS
  <2>2. \E i \in starts : \A j \in starts : j <= i BY <1>3, <2>1, LastOfStretch
  <2>3. QED BY <2>2, Zenon
<1> HIDE DEF first, last, fits
<1>7. QED BY <1>1, <1>4, <1>5, <1>6

\* How many messages ever were on a window: those that are there and those its
\* notice counts.
EverPushed(h) ==
  IF h = <<>> THEN 0
  ELSE IF IsTrimMarker(h[1]) THEN h[1].content[1].id + (Len(h) - 1) ELSE Len(h)

\* The notice a trim leaves is a user's message without results.
LEMMA TrimMarkerFacts ==
  ASSUME NEW n \in Nat
  PROVE  /\ TrimMarker(n) \in Message /\ TrimMarker(n).role = "user"
         /\ TrimMarker(n).content # <<>> /\ ToolUseIds(TrimMarker(n)) = {}
         /\ ResultIds(TrimMarker(n)) = {}
         /\ IsTrimMarker(TrimMarker(n)) /\ TrimMarker(n).content[1].id = n
<1> DEFINE b == [kind |-> "trim_notice", id |-> n]
<1>1. b \in Block /\ b.kind = "trim_notice" /\ b.id = n BY DEF Block, BlockKinds
<1>2. TrimMarker(n) = User(<<b>>) BY DEF TrimMarker
<1> HIDE DEF b
<1>3. <<b>> \in Seq(Block) /\ <<b>> # <<>> /\ <<b>>[1] = b /\ Len(<<b>>) = 1 BY <1>1
<1>4. /\ TrimMarker(n) \in Message /\ TrimMarker(n).role = "user"
      /\ ToolUseIds(TrimMarker(n)) = {} /\ TrimMarker(n).content = <<b>>
  BY <1>2, <1>3, UserMessage
<1>5. \A k \in DOMAIN <<b>> : <<b>>[k] = b OBVIOUS
<1>6. ResultIds(TrimMarker(n)) = {} BY <1>1, <1>4, <1>5 DEF ResultIds, IsResult
<1>7. QED BY <1>1, <1>3, <1>4, <1>6 DEF IsTrimMarker

\* A trim leaves the window alone, or puts a notice in front of what follows
\* from a later turn start on, which counts what was dropped.
LEMMA TrimFires ==
  ASSUME NEW h \in Seq(Message), NEW budget,
         ~(budget = 0 \/ h = <<>> \/ SuffixTokens(h, 1) <= TrimTrigger(budget)),
         ~(TrimCut(h, budget) <= 1)
  PROVE  \E cut \in DOMAIN h, n \in Nat :
           /\ cut = TrimCut(h, budget)
           /\ cut > 1 /\ IsTurnStart(h[cut])
           /\ TrimHistory(h, budget) = <<TrimMarker(n)>> \o SubSeq(h, cut, Len(h))
           /\ n = EverPushed(h) - (Len(h) - (cut - 1))
<1>1. PICK cut : cut = TrimCut(h, budget) OBVIOUS
<1> DEFINE prior == IF IsTrimMarker(h[1]) THEN h[1].content[1].id ELSE 0
           already == IF IsTrimMarker(h[1]) THEN 1 ELSE 0
<1>2. /\ h # <<>> /\ ~(cut <= 1)
      /\ TrimHistory(h, budget)
           = <<TrimMarker(prior + (cut - 1 - already))>> \o SubSeq(h, cut, Len(h))
  BY <1>1 DEF TrimHistory
<1>3. cut = 0 \/ (cut \in DOMAIN h /\ IsTurnStart(h[cut])) BY <1>1, TrimCutFacts
<1>4. cut \in DOMAIN h /\ IsTurnStart(h[cut]) /\ cut \in Nat /\ cut > 1
  <2>1. cut # 0 BY <1>2
  <2>2. cut \in DOMAIN h /\ IsTurnStart(h[cut]) BY <1>3, <2>1
  <2>3. cut \in Nat BY <2>2
  <2>4. cut > 1 BY <1>2, <2>3
  <2>5. QED BY <2>2, <2>3, <2>4
<1>5. h[1] \in Message BY <1>2
<1>6. prior \in Nat
  <2>1. CASE IsTrimMarker(h[1])
    <3>1. h[1].content \in Seq(Block) /\ Len(h[1].content) = 1 BY <1>5, <2>1 DEF IsTrimMarker, Message
    <3>2. h[1].content[1] \in Block BY <3>1
    <3>3. h[1].content[1].id \in Nat BY <3>2 DEF Block
    <3>4. QED BY <2>1, <3>3
  <2>2. CASE ~IsTrimMarker(h[1]) BY <2>2
  <2>3. QED BY <2>1, <2>2
<1>7. already \in {0, 1} OBVIOUS
<1>8. EverPushed(h) = prior + (Len(h) - already)
  <2>1. CASE IsTrimMarker(h[1]) BY <1>2, <2>1 DEF EverPushed
  <2>2. CASE ~IsTrimMarker(h[1])
    <3>1. Len(h) \in Nat OBVIOUS
    <3>2. \A n \in Nat : 0 + (n - 0) = n OBVIOUS
    <3>3. QED BY <1>2, <2>2, <3>1, <3>2 DEF EverPushed
  <2>3. QED BY <2>1, <2>2
<1> HIDE DEF prior, already
<1>9. PICK n : n = prior + (cut - 1 - already) OBVIOUS
<1>10. n \in Nat BY <1>4, <1>6, <1>7, <1>9
<1>11. n = EverPushed(h) - (Len(h) - (cut - 1))
  <2>1. Len(h) \in Nat OBVIOUS
  <2>2. \A p, c, a, l \in Int : p + (c - 1 - a) = (p + (l - a)) - (l - (c - 1)) OBVIOUS
  <2>3. already \in Int BY <1>7
  <2>4. QED BY <1>4, <1>6, <1>8, <1>9, <2>1, <2>2, <2>3
<1>12. QED BY <1>1, <1>2, <1>4, <1>9, <1>10, <1>11

LEMMA TrimShape ==
  ASSUME NEW h \in Seq(Message), NEW budget, TrimHistory(h, budget) # h
  PROVE  \E cut \in DOMAIN h, n \in Nat :
           /\ cut > 1 /\ IsTurnStart(h[cut])
           /\ TrimHistory(h, budget) = <<TrimMarker(n)>> \o SubSeq(h, cut, Len(h))
           /\ n = EverPushed(h) - (Len(h) - (cut - 1))
<1>1. /\ ~(budget = 0 \/ h = <<>> \/ SuffixTokens(h, 1) <= TrimTrigger(budget))
      /\ ~(TrimCut(h, budget) <= 1)
  BY DEF TrimHistory
<1>2. QED BY <1>1, TrimFires

\* The end of a history, from a position on.
LEMMA SuffixFacts ==
  ASSUME NEW h \in Seq(Message), NEW cut \in DOMAIN h
  PROVE  \E t \in Seq(Message) :
           /\ t = SubSeq(h, cut, Len(h)) /\ Len(h) = Len(t) + (cut - 1) /\ t # <<>>
           /\ \A i \in DOMAIN t : t[i] = h[i + (cut - 1)]
<1>1. PICK N \in Nat : N = Len(h) OBVIOUS
<1>2. cut \in 1..N /\ cut \in Nat /\ N - cut + 1 \in Nat /\ N - cut + 1 > 0 BY <1>1
<1>3. \A i \in cut..N : h[i] \in Message BY <1>1, <1>2
<1>4. /\ SubSeq(h, cut, N) \in Seq(Message) /\ Len(SubSeq(h, cut, N)) = N - cut + 1
      /\ \A i \in 1..(N - cut + 1) : SubSeq(h, cut, N)[i] = h[cut + i - 1]
  BY <1>2, <1>3, SubSeqProperties
<1>5. PICK t \in Seq(Message) : t = SubSeq(h, cut, N) BY <1>4
<1>6. \A i \in DOMAIN t : t[i] = h[i + (cut - 1)]
  <2>1. DOMAIN t = 1..(N - cut + 1) BY <1>4, <1>5
  <2>2. \A i \in Nat : cut + i - 1 = i + (cut - 1) BY <1>2
  <2>3. ASSUME NEW i \in DOMAIN t PROVE t[i] = h[i + (cut - 1)]
    <3>1. i \in 1..(N - cut + 1) BY <2>1
    <3>2. t[i] = h[cut + i - 1] BY <1>4, <1>5, <3>1
    <3>3. i \in Nat OBVIOUS
    <3>4. cut + i - 1 = i + (cut - 1) BY <2>2, <3>3
    <3>5. QED BY <3>2, <3>4
  <2>4. QED BY <2>3
<1>7. N = Len(t) + (cut - 1) BY <1>2, <1>4, <1>5
<1>8. t # <<>> BY <1>2, <1>4, <1>5
<1>9. QED BY <1>1, <1>5, <1>6, <1>7, <1>8

LEMMA NoticeInFront ==
  ASSUME NEW m \in Message, NEW t \in Seq(Message)
  PROVE  /\ <<m>> \o t \in Seq(Message) /\ Len(<<m>> \o t) = Len(t) + 1
         /\ (<<m>> \o t)[1] = m
         /\ \A i \in 1..Len(t) : (<<m>> \o t)[i+1] = t[i]
<1>1. <<m>> \in Seq(Message) /\ Len(<<m>>) = 1 /\ <<m>>[1] = m OBVIOUS
<1>2. PICK l \in Nat : l = Len(t) OBVIOUS
<1>3. /\ <<m>> \o t \in Seq(Message) /\ Len(<<m>> \o t) = 1 + l
      /\ \A i \in 1..(1 + l) : (<<m>> \o t)[i] = IF i <= 1 THEN <<m>>[i] ELSE t[i-1]
  BY <1>1, <1>2, ConcatProperties
<1>4. (<<m>> \o t)[1] = m
  <2>1. 1 \in 1..(1 + l) OBVIOUS
  <2>2. QED BY <1>1, <1>3, <2>1
<1>5. ASSUME NEW i \in 1..l PROVE (<<m>> \o t)[i+1] = t[i]
  <2>1. i + 1 \in 1..(1 + l) /\ ~(i + 1 <= 1) /\ (i+1)-1 = i OBVIOUS
  <2>2. QED BY <1>3, <2>1
<1>6. Len(<<m>> \o t) = l + 1 BY <1>3
<1>7. QED BY <1>2, <1>3, <1>4, <1>5, <1>6

(* A trim never makes a window unacceptable to the provider, however often  *)
(* and with whatever budget it is trimmed: it cuts where no tool_result     *)
(* loses its call, keeps the newest message and opens with a user message.  *)
THEOREM TrimKeepsValid ==
  \A h \in Seq(Message) : \A budget :
    /\ TrimHistory(h, budget) \in Seq(Message)
    /\ ApiValid(h) => ApiValid(TrimHistory(h, budget))
    /\ h # <<>> => /\ TrimHistory(h, budget) # <<>>
                   /\ TrimHistory(h, budget)[Len(TrimHistory(h, budget))] = h[Len(h)]
<1> SUFFICES ASSUME NEW h \in Seq(Message), NEW budget
             PROVE  /\ TrimHistory(h, budget) \in Seq(Message)
                    /\ ApiValid(h) => ApiValid(TrimHistory(h, budget))
                    /\ h # <<>> => /\ TrimHistory(h, budget) # <<>>
                                   /\ TrimHistory(h, budget)[Len(TrimHistory(h, budget))] = h[Len(h)]
  OBVIOUS
<1>1. CASE TrimHistory(h, budget) = h BY <1>1
<1>2. CASE TrimHistory(h, budget) # h
  <2>1. PICK cut \in DOMAIN h, n \in Nat :
          /\ cut > 1 /\ IsTurnStart(h[cut])
          /\ TrimHistory(h, budget) = <<TrimMarker(n)>> \o SubSeq(h, cut, Len(h))
    BY <1>2, TrimShape
  <2>2. PICK t \in Seq(Message) :
           /\ t = SubSeq(h, cut, Len(h)) /\ Len(h) = Len(t) + (cut - 1) /\ t # <<>>
           /\ \A i \in DOMAIN t : t[i] = h[i + (cut - 1)]
    BY SuffixFacts
  <2>3. PICK m \in Message : m = TrimMarker(n) BY TrimMarkerFacts
  <2>4. PICK w : w = <<m>> \o t OBVIOUS
  <2>5. /\ w \in Seq(Message) /\ Len(w) = Len(t) + 1 /\ w[1] = m
        /\ \A i \in 1..Len(t) : w[i+1] = t[i]
    BY <2>4, NoticeInFront
  <2>6. TrimHistory(h, budget) = w BY <2>1, <2>2, <2>3, <2>4
  <2>7. w[Len(w)] = h[Len(h)] /\ w # <<>>
    <3>1. PICK l \in Nat : l = Len(t) OBVIOUS
    <3>2. l # 0 BY <2>2, <3>1, EmptySeq
    <3>3. l \in 1..l /\ l \in DOMAIN t BY <3>1, <3>2
    <3>4. w[Len(w)] = t[l] BY <2>5, <3>1, <3>3
    <3>5. t[l] = h[Len(h)] BY <2>2, <3>1, <3>3
    <3>6. Len(w) # 0 BY <2>5, <3>1
    <3>7. QED BY <3>4, <3>5, <3>6
  <2>8. ASSUME ApiValid(h) PROVE ApiValid(w)
    <3>1. Closed(h) BY <2>8, ClosedIsValid
    <3>2. ToolUseIds(h[cut - 1]) = {}
      <4>1. cut - 1 \in DOMAIN h /\ (cut - 1) + 1 = cut BY <2>1
      <4>2. ResultIds(h[cut]) = {} BY <2>1 DEF IsTurnStart
      <4>3. QED BY <3>1, <4>1, <4>2 DEF Closed
    <3>3. Closed(t)
      <4>1. cut - 1 \in Nat BY <2>1
      <4>2. QED BY <2>2, <3>1, <3>2, <4>1, ClosedSuffix
    <3>4. Closed(<<m>>) BY <2>3, TrimMarkerFacts, ClosedShort
    <3>5. Closed(w) BY <2>4, <3>3, <3>4, ClosedConcat
    <3>6. w[1].role = "user" BY <2>3, <2>5, TrimMarkerFacts
    <3>7. QED BY <2>5, <3>5, <3>6, ClosedIsValid
  <2>9. QED BY <2>5, <2>6, <2>7, <2>8
<1>3. QED BY <1>1, <1>2

(* The notice stays honest: a trim, with whatever budget, moves messages    *)
(* from the window into the count of its notice, and neither loses one nor  *)
(* counts the older notice it replaces.                                     *)
THEOREM TrimCountsDropped ==
  \A h \in Seq(Message) : \A budget : EverPushed(TrimHistory(h, budget)) = EverPushed(h)
<1> SUFFICES ASSUME NEW h \in Seq(Message), NEW budget
             PROVE  EverPushed(TrimHistory(h, budget)) = EverPushed(h)
  OBVIOUS
<1>1. CASE TrimHistory(h, budget) = h BY <1>1
<1>2. CASE TrimHistory(h, budget) # h
  <2>1. PICK cut \in DOMAIN h, n \in Nat :
          /\ cut > 1 /\ IsTurnStart(h[cut])
          /\ TrimHistory(h, budget) = <<TrimMarker(n)>> \o SubSeq(h, cut, Len(h))
          /\ n = EverPushed(h) - (Len(h) - (cut - 1))
    BY <1>2, TrimShape
  <2>2. PICK t \in Seq(Message) :
           t = SubSeq(h, cut, Len(h)) /\ Len(h) = Len(t) + (cut - 1) /\ t # <<>>
    BY SuffixFacts
  <2>3. PICK m \in Message : m = TrimMarker(n) /\ IsTrimMarker(m) /\ m.content[1].id = n
    BY TrimMarkerFacts
  <2>4. PICK w : w = <<m>> \o t OBVIOUS
  <2>5. Len(w) = Len(t) + 1 /\ w[1] = m /\ w # <<>>
    <3>1. Len(w) = Len(t) + 1 /\ w[1] = m BY <2>4, NoticeInFront
    <3>2. Len(t) \in Nat OBVIOUS
    <3>3. QED BY <3>1, <3>2
  <2>6. TrimHistory(h, budget) = w BY <2>1, <2>2, <2>3, <2>4
  <2>7. EverPushed(w) = n + (Len(w) - 1) BY <2>3, <2>5 DEF EverPushed
  <2>8. EverPushed(h) \in Int
    <3>1. CASE h = <<>> BY <3>1 DEF EverPushed
    <3>2. CASE h # <<>> /\ IsTrimMarker(h[1])
      <4>0. h[1] \in Message BY <3>2
      <4>1. h[1].content \in Seq(Block) /\ Len(h[1].content) = 1
        BY <3>2, <4>0 DEF IsTrimMarker, Message
      <4>2. h[1].content[1] \in Block BY <4>1
      <4>3. h[1].content[1].id \in Nat /\ Len(h) - 1 \in Int BY <4>2 DEF Block
      <4>4. QED BY <3>2, <4>3 DEF EverPushed
    <3>3. CASE h # <<>> /\ ~IsTrimMarker(h[1]) BY <3>3 DEF EverPushed
    <3>4. QED BY <3>1, <3>2, <3>3
  <2>9. \A e, l, c \in Int : (e - ((l + (c - 1)) - (c - 1))) + ((l + 1) - 1) = e OBVIOUS
  <2>10. Len(t) \in Int /\ cut \in Int OBVIOUS
  <2>11. PICK l \in Int : l = Len(t) BY <2>10
  <2>12. EverPushed(w) = (EverPushed(h) - ((l + (cut - 1)) - (cut - 1))) + ((l + 1) - 1)
    BY <2>1, <2>2, <2>5, <2>7, <2>11
  <2>13. EverPushed(w) = EverPushed(h) BY <2>8, <2>9, <2>10, <2>12
  <2>14. QED BY <2>6, <2>13
<1>3. QED BY <1>1, <1>2

-----------------------------------------------------------------------------
(* Sums.                                                                    *)

\* The loop's equation.
LEMMA TotalLoop ==
  ASSUME NEW q \in Seq(Nat)
  PROVE  \E f \in [0..Len(q) -> Nat] :
           /\ f[0] = 0 /\ \A n \in 1..Len(q) : f[n] = f[n-1] + q[n]
           /\ Total(q) = f[Len(q)]
<1>n. PICK N \in Nat : N = Len(q) OBVIOUS
<1> DEFINE Body(f) == [n \in 0..N |-> IF n = 0 THEN 0 ELSE f[n-1] + q[n]]
           R == CHOOSE f : f = Body(f)
           step == [n \in 1..N |-> [w \in Nat |-> w + q[n]]]
<1>0. N \in Nat /\ \A n \in 1..N : q[n] \in Nat BY <1>n
<1>1. step \in [1..N -> [Nat -> Nat]] BY <1>0
<1>2. \A n \in 1..N : \A w \in Nat : step[n][w] = w + q[n] OBVIOUS
<1> HIDE DEF step
<1>3. PICK f \in [0..N -> Nat] : f[0] = 0 /\ \A n \in 1..N : f[n] = step[n][f[n-1]]
  <2>1. IsStep(step, N, Nat) BY <1>1 DEF IsStep
  <2>2. \E f \in [0..N -> Nat] : Steps(f, 0, N, step) BY <2>1, StepsExist
  <2>3. QED BY <2>2 DEF Steps
<1>4. \A n \in 1..N : f[n] = f[n-1] + q[n]
  <2>1. \A n \in 1..N : f[n-1] \in Nat BY <1>0
  <2>2. QED BY <1>2, <1>3, <2>1
<1>5. f = Body(f)
  <2>1. \A n \in 0..N : n # 0 => n \in 1..N BY <1>0
  <2>2. \A n \in 0..N : f[n] = IF n = 0 THEN 0 ELSE f[n-1] + q[n] BY <1>3, <1>4, <2>1
  <2>3. f = [n \in 0..N |-> f[n]] OBVIOUS
  <2>4. QED BY <2>2, <2>3
<1>6. R = Body(R) BY <1>5, Zenon
<1>7. Total(q) = R[N] BY <1>n, Zenon DEF Total
<1> HIDE DEF R
<1>8. /\ R = [n \in 0..N |-> R[n]] /\ R[0] = 0
      /\ \A n \in 1..N : R[n] = R[n-1] + q[n]
  <2>1. DOMAIN R = 0..N /\ R = [n \in DOMAIN R |-> R[n]]
    <3>1. DOMAIN Body(R) = 0..N /\ Body(R) = [n \in DOMAIN Body(R) |-> Body(R)[n]] OBVIOUS
    <3> HIDE DEF Body
    <3>2. QED BY <1>6, <3>1
  <2>2. \A n \in 0..N : R[n] = Body(R)[n]
    <3> HIDE DEF Body
    <3>1. QED BY <1>6
  <2>3. \A n \in 0..N : Body(R)[n] = IF n = 0 THEN 0 ELSE R[n-1] + q[n] OBVIOUS
  <2> HIDE DEF Body
  <2>4. \A n \in 1..N : n \in 0..N /\ n # 0 BY <1>0
  <2>5. R[0] = 0
    <3>1. 0 \in 0..N BY <1>0
    <3>2. QED BY <2>2, <2>3, <3>1
  <2>6. \A n \in 1..N : R[n] = R[n-1] + q[n] BY <2>2, <2>3, <2>4
  <2>7. QED BY <2>1, <2>5, <2>6
<1> DEFINE P == {n \in Nat : n <= N => R[n] \in Nat}
<1>9. Nat \subseteq P
  <2>1. 0 \in P BY <1>8
  <2>2. ASSUME NEW n \in Nat, n \in P PROVE n + 1 \in P
    <3>1. SUFFICES ASSUME n + 1 <= N PROVE R[n + 1] \in Nat OBVIOUS
    <3>2. R[n] \in Nat /\ n + 1 \in 1..N /\ (n + 1) - 1 = n BY <1>0, <2>2, <3>1
    <3>3. R[n + 1] = R[n] + q[n + 1] BY <1>8, <3>2
    <3>4. QED BY <1>0, <3>2, <3>3
  <2> HIDE DEF P
  <2>3. QED BY <2>1, <2>2, Induction
<1>10. R \in [0..N -> Nat]
  <2>1. \A n \in 0..N : R[n] \in Nat BY <1>0, <1>9
  <2>2. QED BY <1>8, <2>1
<1>11. QED BY <1>n, <1>7, <1>8, <1>10

LEMMA TotalShort ==
  /\ Total(<<>>) = 0
  /\ \A q \in Seq(Nat) : Total(q) \in Nat
<1>1. \A q \in Seq(Nat) : Total(q) \in Nat
  <2>1. SUFFICES ASSUME NEW q \in Seq(Nat) PROVE Total(q) \in Nat OBVIOUS
  <2>2. PICK N \in Nat : N = Len(q) OBVIOUS
  <2>3. PICK f \in [0..N -> Nat] : Total(q) = f[N] BY <2>2, TotalLoop
  <2>4. QED BY <2>3
<1>2. Total(<<>>) = 0
  <2>1. PICK q \in Seq(Nat) : q = <<>> /\ Len(q) = 0 BY EmptySeq
  <2>2. PICK f \in [0..0 -> Nat] : f[0] = 0 /\ Total(q) = f[0] BY <2>1, TotalLoop
  <2>3. QED BY <2>1, <2>2
<1>3. QED BY <1>1, <1>2

LEMMA TotalAppend ==
  ASSUME NEW q \in Seq(Nat), NEW x \in Nat
  PROVE  Total(Append(q, x)) = Total(q) + x
<1>1. PICK N \in Nat : N = Len(q) OBVIOUS
<1>2. PICK p \in Seq(Nat) : /\ p = Append(q, x) /\ Len(p) = N + 1
                            /\ (\A n \in 1..N : p[n] = q[n]) /\ p[N + 1] = x
  <2>1. /\ Append(q, x) \in Seq(Nat) /\ Len(Append(q, x)) = N + 1
        /\ (\A n \in 1..N : Append(q, x)[n] = q[n]) /\ Append(q, x)[N + 1] = x
    BY <1>1, AppendProperties
  <2>2. QED BY <2>1
<1>3. PICK f \in [0..N -> Nat] :
        f[0] = 0 /\ (\A n \in 1..N : f[n] = f[n-1] + q[n]) /\ Total(q) = f[N]
  BY <1>1, TotalLoop
<1>4. PICK g \in [0..(N+1) -> Nat] :
        g[0] = 0 /\ (\A n \in 1..(N+1) : g[n] = g[n-1] + p[n]) /\ Total(p) = g[N+1]
  BY <1>2, TotalLoop
<1> DEFINE P == {n \in Nat : n <= N => g[n] = f[n]}
<1>5. Nat \subseteq P
  <2>1. 0 \in P BY <1>3, <1>4
  <2>2. ASSUME NEW n \in Nat, n \in P PROVE n + 1 \in P
    <3>1. SUFFICES ASSUME n + 1 <= N PROVE g[n + 1] = f[n + 1] OBVIOUS
    <3>2. /\ n <= N /\ n + 1 \in 1..N /\ n + 1 \in 1..(N+1) /\ (n + 1) - 1 = n BY <3>1
    <3>3. g[n] = f[n] BY <2>2, <3>2
    <3>4. g[n + 1] = g[n] + p[n + 1] BY <1>4, <3>2
    <3>5. f[n + 1] = f[n] + q[n + 1] BY <1>3, <3>2
    <3>6. p[n + 1] = q[n + 1] BY <1>2, <3>2
    <3>7. QED BY <3>3, <3>4, <3>5, <3>6
  <2> HIDE DEF P
  <2>3. QED BY <2>1, <2>2, Induction
<1>6. g[N] = f[N] BY <1>5
<1>7. g[N+1] = g[N] + x
  <2>1. N + 1 \in 1..(N+1) /\ (N + 1) - 1 = N OBVIOUS
  <2>2. QED BY <1>2, <1>4, <2>1
<1>8. QED BY <1>2, <1>3, <1>4, <1>6, <1>7

\* The weight of a sequence, each element weighing what w says.
Weighs(w, S) == \A x \in S : w[x] \in Nat
Weight(q, w) == Total([k \in DOMAIN q |-> w[q[k]]])

LEMMA WeightAppend ==
  ASSUME NEW S, NEW w, Weighs(w, S), NEW q \in Seq(S), NEW x \in S
  PROVE  /\ Weight(q, w) \in Nat
         /\ Weight(<<>>, w) = 0
         /\ Weight(Append(q, x), w) = Weight(q, w) + w[x]
<1>1. PICK N \in Nat : N = Len(q) OBVIOUS
<1>2. DOMAIN q = 1..N /\ \A n \in 1..N : q[n] \in S BY <1>1
<1> DEFINE a == [k \in DOMAIN q |-> w[q[k]]]
<1>3. a \in Seq(Nat) /\ Len(a) = N
  <2>1. a = [k \in 1..N |-> w[q[k]]] BY <1>2
  <2>2. \A k \in 1..N : w[q[k]] \in Nat BY <1>2 DEF Weighs
  <2>3. a \in [1..N -> Nat] BY <2>1, <2>2
  <2> HIDE DEF a
  <2>4. QED BY <2>3
<1>4. PICK p \in Seq(S) : /\ p = Append(q, x) /\ Len(p) = N + 1
                          /\ (\A n \in 1..N : p[n] = q[n]) /\ p[N + 1] = x
  <2>1. /\ Append(q, x) \in Seq(S) /\ Len(Append(q, x)) = N + 1
        /\ (\A n \in 1..N : Append(q, x)[n] = q[n]) /\ Append(q, x)[N + 1] = x
    BY <1>1, AppendProperties
  <2>2. QED BY <2>1
<1> DEFINE b == [k \in DOMAIN p |-> w[p[k]]]
<1>5. w[x] \in Nat BY DEF Weighs
<1>6. b = Append(a, w[x])
  <2>1. DOMAIN p = 1..(N+1) /\ \A n \in 1..(N+1) : p[n] \in S BY <1>4
  <2>2. b = [k \in 1..(N+1) |-> w[p[k]]] BY <2>1
  <2>3. \A k \in 1..(N+1) : w[p[k]] \in Nat BY <2>1 DEF Weighs
  <2>4. b \in [1..(N+1) -> Nat] BY <2>2, <2>3
  <2>5. \A k \in 1..N : a[k] = w[q[k]] BY <1>2
  <2>6. \A k \in 1..(N+1) : b[k] = w[p[k]] BY <2>2
  <2> HIDE DEF a, b
  <2>7. b \in Seq(Nat) /\ Len(b) = N + 1 BY <2>4
  <2>8. PICK c \in Seq(Nat) : /\ c = Append(a, w[x]) /\ Len(c) = N + 1
                              /\ (\A n \in 1..N : c[n] = a[n]) /\ c[N + 1] = w[x]
    <3>1. /\ Append(a, w[x]) \in Seq(Nat) /\ Len(Append(a, w[x])) = N + 1
          /\ (\A n \in 1..N : Append(a, w[x])[n] = a[n]) /\ Append(a, w[x])[N + 1] = w[x]
      BY <1>3, <1>5, AppendProperties
    <3>2. QED BY <3>1
  <2>9. ASSUME NEW k \in 1..(N+1) PROVE b[k] = c[k]
    <3>1. CASE k = N + 1 BY <1>4, <2>6, <2>8, <3>1
    <3>2. CASE k # N + 1
      <4>1. k \in 1..N BY <3>2
      <4>2. b[k] = w[q[k]] BY <1>4, <2>6, <4>1
      <4>3. c[k] = w[q[k]] BY <2>5, <2>8, <4>1
      <4>4. QED BY <4>2, <4>3
    <3>3. QED BY <3>1, <3>2
  <2>10. QED BY <2>7, <2>8, <2>9, SeqEqual
<1>7. Weight(q, w) = Total(a) /\ Weight(Append(q, x), w) = Total(b) BY <1>4 DEF Weight
<1>8. Weight(<<>>, w) = 0
  <2>1. [k \in DOMAIN <<>> |-> w[<<>>[k]]] = <<>> OBVIOUS
  <2>2. Weight(<<>>, w) = Total([k \in DOMAIN <<>> |-> w[<<>>[k]]]) BY DEF Weight
  <2>3. QED BY <2>1, <2>2, TotalShort
<1> HIDE DEF a, b
<1>9. QED BY <1>3, <1>5, <1>6, <1>7, <1>8, TotalShort, TotalAppend

LEMMA WeightFacts ==
  ASSUME NEW S, NEW w, Weighs(w, S)
  PROVE  /\ Weight(<<>>, w) = 0
         /\ \A x \in S : Weight(<<x>>, w) = w[x]
         /\ \A q \in Seq(S) : Weight(q, w) \in Nat
         /\ \A q \in Seq(S), x \in S : Weight(Append(q, x), w) = Weight(q, w) + w[x]
<1>1. \A q \in Seq(S), x \in S : /\ Weight(<<>>, w) = 0 /\ Weight(q, w) \in Nat
                                 /\ Weight(Append(q, x), w) = Weight(q, w) + w[x]
  BY WeightAppend
<1>2. Weight(<<>>, w) = 0
  <2>1. [k \in DOMAIN <<>> |-> w[<<>>[k]]] = <<>> OBVIOUS
  <2>2. Weight(<<>>, w) = Total([k \in DOMAIN <<>> |-> w[<<>>[k]]]) BY DEF Weight
  <2>3. QED BY <2>1, <2>2, TotalShort
<1>3. \A q \in Seq(S) : Weight(q, w) \in Nat
  <2>1. SUFFICES ASSUME NEW q \in Seq(S) PROVE Weight(q, w) \in Nat OBVIOUS
  <2>2. CASE q = <<>> BY <1>2, <2>2
  <2>3. CASE q # <<>>
    <3>1. q[1] \in S BY <2>3
    <3>2. QED BY <1>1, <3>1
  <2>4. QED BY <2>2, <2>3
<1>4. ASSUME NEW x \in S PROVE Weight(<<x>>, w) = w[x]
  <2>1. PICK e \in Seq(S) : e = <<>> BY EmptySeq
  <2>2. Append(e, x) = <<x>> BY <2>1
  <2>3. Weight(<<x>>, w) = 0 + w[x] BY <1>1, <1>2, <2>1, <2>2
  <2>4. w[x] \in Nat BY DEF Weighs
  <2>5. QED BY <2>3, <2>4
<1>5. QED BY <1>1, <1>2, <1>3, <1>4

\* The weight of two sequences, one behind the other.
LEMMA WeightConcat ==
  ASSUME NEW S, NEW w, Weighs(w, S), NEW a \in Seq(S), NEW b \in Seq(S)
  PROVE  Weight(a \o b, w) = Weight(a, w) + Weight(b, w)
<1> DEFINE P == {c \in Seq(S) : Weight(a \o c, w) = Weight(a, w) + Weight(c, w)}
<1>1. ASSUME NEW c \in Seq(S), \A d \in Seq(S) : Len(d) < Len(c) => d \in P
      PROVE  c \in P
  <2>1. CASE c = <<>>
    <3>1. a \o c = a BY <2>1
    <3>2. Weight(c, w) = 0 /\ Weight(a, w) \in Nat BY <2>1, WeightFacts
    <3>3. \A n \in Nat : n = n + 0 OBVIOUS
    <3>4. Weight(a \o c, w) = Weight(a, w) + Weight(c, w) BY <3>1, <3>2, <3>3
    <3>5. QED BY <3>4
  <2>2. CASE c # <<>>
    <3>1. PICK d \in Seq(S), x \in S : c = Append(d, x) BY <2>2, SequenceEmptyOrAppend
    <3>2. Len(d) < Len(c)
      <4>1. Len(c) = Len(d) + 1 /\ Len(d) \in Nat BY <3>1, AppendProperties
      <4>2. QED BY <4>1
    <3>3. Weight(a \o d, w) = Weight(a, w) + Weight(d, w) BY <1>1, <3>2
    <3>4. a \o c = Append(a \o d, x)
      <4>1. a \o Append(d, x) = Append(a \o d, x) OBVIOUS
      <4>2. QED BY <3>1, <4>1
    <3>5. a \o d \in Seq(S) BY ConcatProperties
    <3>6. /\ Weight(c, w) = Weight(d, w) + w[x]
          /\ Weight(a \o c, w) = Weight(a \o d, w) + w[x]
          /\ Weight(a, w) \in Nat /\ Weight(d, w) \in Nat
      <4>1. Weight(Append(d, x), w) = Weight(d, w) + w[x] BY WeightFacts
      <4>2. Weight(Append(a \o d, x), w) = Weight(a \o d, w) + w[x] BY <3>5, WeightFacts
      <4>3. Weight(a, w) \in Nat /\ Weight(d, w) \in Nat BY WeightFacts
      <4>4. QED BY <3>1, <3>4, <4>1, <4>2, <4>3
    <3>7. w[x] \in Nat BY DEF Weighs
    <3>8. QED BY <3>3, <3>6, <3>7
  <2>3. QED BY <2>1, <2>2
<1>2. Seq(S) \subseteq P
  <2> HIDE DEF P
  <2>1. QED BY <1>1, QueueInduction
<1>3. QED BY <1>2

IsKeptRun(f, q, I, S) ==
  /\ f \in [0..Len(q) -> Seq(S)] /\ f[0] = <<>>
  /\ \A n \in 1..Len(q) : f[n] = IF n \in I THEN Append(f[n-1], q[n]) ELSE f[n-1]
  /\ Kept(q, I) = f[Len(q)]

LEMMA KeptRun ==
  ASSUME NEW S, NEW q \in Seq(S), NEW I, I \subseteq DOMAIN q
  PROVE  \E f : IsKeptRun(f, q, I, S)
<1>n. PICK N \in Nat : N = Len(q) OBVIOUS
<1>1. PICK f \in [0..Len(q) -> Seq(S)] :
        /\ f[0] = <<>>
        /\ \A n \in 1..Len(q) : f[n] = IF n \in I THEN Append(f[n-1], q[n]) ELSE f[n-1]
        /\ Kept(q, I) = f[Len(q)]
  BY KeptLoop, SMTT(30)
<1>2. QED BY <1>1 DEF IsKeptRun

\* Leaving out what weighs nothing.
LEMMA WeightKept ==
  ASSUME NEW S, NEW w, Weighs(w, S), NEW q \in Seq(S), NEW I, I \subseteq DOMAIN q,
         \A i \in DOMAIN q : i \notin I => w[q[i]] = 0
  PROVE  Weight(Kept(q, I), w) = Weight(q, w)
<1>n. PICK N \in Nat : N = Len(q) OBVIOUS
<1>e. PICK e : IsKeptRun(e, q, I, S) BY KeptRun
<1>f. PICK f \in [0..N -> Seq(S)] :
        /\ f[0] = <<>>
        /\ \A n \in 1..N : f[n] = IF n \in I THEN Append(f[n-1], q[n]) ELSE f[n-1]
        /\ Kept(q, I) = f[N]
  BY <1>n, <1>e DEF IsKeptRun
<1>0. DOMAIN q = 1..N /\ \A n \in 1..N : q[n] \in S BY <1>n
<1> DEFINE a == [k \in DOMAIN q |-> w[q[k]]]
<1>1. a \in Seq(Nat) /\ Len(a) = N
  <2>1. a = [k \in 1..N |-> w[q[k]]] BY <1>0
  <2>2. \A k \in 1..N : w[q[k]] \in Nat BY <1>0 DEF Weighs
  <2>3. a \in [1..N -> Nat] BY <2>1, <2>2
  <2> HIDE DEF a
  <2>4. QED BY <2>3
<1>2. \A k \in 1..N : a[k] = w[q[k]] BY <1>0
<1>3. Weight(q, w) = Total(a) BY DEF Weight
<1> HIDE DEF a
<1>4. PICK g \in [0..N -> Nat] :
        g[0] = 0 /\ (\A n \in 1..N : g[n] = g[n-1] + a[n]) /\ Total(a) = g[N]
  BY <1>1, TotalLoop
<1> DEFINE P == {n \in Nat : n <= N => Weight(f[n], w) = g[n]}
<1>5. 0 \in P BY <1>f, <1>4, WeightFacts
<1>6. ASSUME NEW n \in Nat, n \in P PROVE n + 1 \in P
  <2>1. SUFFICES ASSUME n + 1 <= N PROVE Weight(f[n + 1], w) = g[n + 1] OBVIOUS
  <2>2. n <= N /\ n \in 0..N /\ n + 1 \in 1..N /\ (n + 1) - 1 = n BY <2>1
  <2>3. Weight(f[n], w) = g[n] BY <1>6, <2>2
  <2>4. g[n + 1] = g[n] + w[q[n + 1]] BY <1>2, <1>4, <2>2
  <2>5. f[n + 1] = IF n + 1 \in I THEN Append(f[n], q[n + 1]) ELSE f[n] BY <1>f, <2>2
  <2>6. f[n] \in Seq(S) /\ q[n + 1] \in S /\ g[n] \in Nat BY <1>0, <2>2
  <2>7. CASE n + 1 \in I
    <3>1. Weight(f[n + 1], w) = Weight(f[n], w) + w[q[n + 1]] BY <2>5, <2>6, <2>7, WeightFacts
    <3>2. QED BY <2>3, <2>4, <3>1
  <2>8. CASE n + 1 \notin I
    <3>1. w[q[n + 1]] = 0 BY <1>0, <2>2, <2>8
    <3>2. QED BY <2>3, <2>4, <2>5, <2>6, <2>8, <3>1
  <2>9. QED BY <2>7, <2>8
<1>7. Nat \subseteq P
  <2> HIDE DEF P
  <2>1. QED BY <1>5, <1>6, Induction
<1>8. Weight(f[N], w) = g[N] BY <1>7
<1>9. QED BY <1>f, <1>3, <1>4, <1>8

\* Taking one element out.
LEMMA WeightRemoveAt ==
  ASSUME NEW S, NEW w, Weighs(w, S), NEW q \in Seq(S), NEW k \in DOMAIN q
  PROVE  Weight(q, w) = Weight(RemoveAt(q, k), w) + w[q[k]]
<1>1. PICK N \in Nat : N = Len(q) OBVIOUS
<1>2. k \in 1..N /\ k \in Nat /\ q[k] \in S BY <1>1
<1>3. PICK a \in Seq(S) : /\ a = SubSeq(q, 1, k - 1) /\ Len(a) = k - 1
                          /\ \A i \in 1..(k-1) : a[i] = q[i]
  <2>1. /\ SubSeq(q, 1, k - 1) \in Seq(S) /\ Len(SubSeq(q, 1, k - 1)) = k - 1
        /\ \A i \in 1..(k-1) : SubSeq(q, 1, k - 1)[i] = q[i]
    BY <1>1, <1>2
  <2>2. QED BY <2>1
<1>4. PICK b \in Seq(S) : /\ b = SubSeq(q, k + 1, N) /\ Len(b) = N - k
                          /\ \A i \in 1..(N-k) : b[i] = q[k + i]
  <2>1. /\ SubSeq(q, k + 1, N) \in Seq(S) /\ Len(SubSeq(q, k + 1, N)) = N - k
        /\ \A i \in 1..(N-k) : SubSeq(q, k + 1, N)[i] = q[k + i]
    BY <1>1, <1>2
  <2>2. QED BY <2>1
<1>5. RemoveAt(q, k) = a \o b BY <1>1, <1>3, <1>4 DEF RemoveAt
<1>6. PICK x \in S : x = q[k] BY <1>2
<1>7. PICK c \in Seq(S) : /\ c = Append(a, x) /\ Len(c) = k
                          /\ (\A i \in 1..(k-1) : c[i] = q[i]) /\ c[k] = x
  <2>1. /\ Append(a, x) \in Seq(S) /\ Len(Append(a, x)) = (k - 1) + 1
        /\ (\A i \in 1..(k-1) : Append(a, x)[i] = a[i]) /\ Append(a, x)[(k - 1) + 1] = x
    BY <1>3, AppendProperties
  <2>2. (k - 1) + 1 = k BY <1>2
  <2>3. QED BY <1>3, <2>1, <2>2
<1>8. q = c \o b
  <2>1. /\ c \o b \in Seq(S) /\ Len(c \o b) = k + (N - k)
        /\ \A i \in 1..(k + (N - k)) : (c \o b)[i] = IF i <= k THEN c[i] ELSE b[i - k]
    <3>1. /\ c \o b \in Seq(S) /\ Len(c \o b) = Len(c) + Len(b)
          /\ \A i \in 1..(Len(c) + Len(b)) : (c \o b)[i] = IF i <= Len(c) THEN c[i] ELSE b[i - Len(c)]
      BY ConcatProperties
    <3>2. QED BY <1>4, <1>7, <3>1
  <2>2. k + (N - k) = N BY <1>2
  <2>3. ASSUME NEW i \in 1..N PROVE q[i] = (c \o b)[i]
    <3>1. (c \o b)[i] = IF i <= k THEN c[i] ELSE b[i - k] BY <2>1, <2>2
    <3>2. CASE i < k
      <4>1. i \in 1..(k-1) /\ i <= k BY <1>2, <3>2
      <4>2. QED BY <1>7, <3>1, <4>1
    <3>3. CASE i = k BY <1>2, <1>6, <1>7, <3>1, <3>3
    <3>4. CASE i > k
      <4>1. i - k \in 1..(N - k) /\ ~(i <= k) /\ k + (i - k) = i BY <1>2, <3>4
      <4>2. QED BY <1>4, <3>1, <4>1
    <3>5. i < k \/ i = k \/ i > k BY <1>2
    <3>6. QED BY <3>2, <3>3, <3>4, <3>5
  <2>4. QED BY <1>1, <2>1, <2>2, <2>3, SeqEqual
<1>9. /\ Weight(q, w) = Weight(c, w) + Weight(b, w)
      /\ Weight(a \o b, w) = Weight(a, w) + Weight(b, w)
  BY <1>8, WeightConcat
<1>10. /\ Weight(c, w) = Weight(a, w) + w[x]
       /\ Weight(a, w) \in Nat /\ Weight(b, w) \in Nat
  BY <1>7, WeightFacts
<1>11. w[x] \in Nat BY DEF Weighs
<1>12. \A i, j, l \in Nat : (i + l) + j = (i + j) + l OBVIOUS
<1>13. QED BY <1>5, <1>6, <1>9, <1>10, <1>11, <1>12

-----------------------------------------------------------------------------
(* What a reload keeps.                                                     *)

\* A block that stands for something said or called: no result, no opening.
IsContent(b) == b \in Block /\ ~IsResult(b) /\ b.kind # "opening_lost"

Ones(b) == [x \in Block |-> IF x = b THEN 1 ELSE 0]
Counts(b) == [m \in Message |-> BlockCount(m.content, b)]

LEMMA CountsAreWeights ==
  ASSUME NEW b
  PROVE  /\ Weighs(Ones(b), Block) /\ Weighs(Counts(b), Message)
         /\ \A c \in Seq(Block) : BlockCount(c, b) = Weight(c, Ones(b))
         /\ \A m \in Message : Counts(b)[m] = Weight(m.content, Ones(b))
         /\ \A h \in Seq(Message) : Occurrences(h, b) = Weight(h, Counts(b))
<1>1. Weighs(Ones(b), Block) BY DEF Weighs, Ones
<1>2. ASSUME NEW c \in Seq(Block) PROVE BlockCount(c, b) = Weight(c, Ones(b))
  <2>1. \A k \in DOMAIN c : c[k] \in Block OBVIOUS
  <2>2. [k \in DOMAIN c |-> IF c[k] = b THEN 1 ELSE 0] = [k \in DOMAIN c |-> Ones(b)[c[k]]]
    BY <2>1 DEF Ones
  <2>3. QED BY <2>2 DEF BlockCount, Weight
<1>3. \A m \in Message : m.content \in Seq(Block) BY DEF Message
<1>4. \A m \in Message : Counts(b)[m] = Weight(m.content, Ones(b))
  <2>1. \A m \in Message : Counts(b)[m] = BlockCount(m.content, b) BY DEF Counts
  <2>2. QED BY <1>2, <1>3, <2>1
<1>5. Weighs(Counts(b), Message) BY <1>1, <1>3, <1>4, WeightFacts DEF Weighs
<1>6. ASSUME NEW h \in Seq(Message) PROVE Occurrences(h, b) = Weight(h, Counts(b))
  <2>1. \A i \in DOMAIN h : h[i] \in Message OBVIOUS
  <2>2. [i \in DOMAIN h |-> BlockCount(h[i].content, b)] = [i \in DOMAIN h |-> Counts(b)[h[i]]]
    BY <2>1 DEF Counts
  <2>3. QED BY <2>2 DEF Occurrences, Weight
<1>7. QED BY <1>1, <1>2, <1>4, <1>5, <1>6

\* Blocks none of which is b.
LEMMA NoneCounts ==
  ASSUME NEW b, NEW c \in Seq(Block), \A k \in DOMAIN c : c[k] # b
  PROVE  Weight(c, Ones(b)) = 0
<1>1. \A I : I = {} => I \subseteq DOMAIN c OBVIOUS
<1>2. PICK I : I = {} OBVIOUS
<1>3. \A i \in DOMAIN c : Ones(b)[c[i]] = 0
  <2>1. \A i \in DOMAIN c : c[i] \in Block OBVIOUS
  <2>2. QED BY <2>1 DEF Ones
<1>4. Weight(Kept(c, I), Ones(b)) = Weight(c, Ones(b)) BY <1>1, <1>2, <1>3, CountsAreWeights, WeightKept
<1>5. Kept(c, I) = <<>>
  <2>1. Kept(c, I) \in Seq(Block) /\ \A k \in DOMAIN Kept(c, I) : \E i \in I : TRUE
    BY <1>2, KeptElements
  <2>2. DOMAIN Kept(c, I) = {} BY <1>2, <2>1
  <2>3. QED BY <2>1, <2>2
<1>6. QED BY <1>4, <1>5, CountsAreWeights, WeightFacts

\* Stripping results leaves the content.
LEMMA NonResultsCount ==
  ASSUME NEW b, IsContent(b), NEW m \in Message
  PROVE  Weight(NonResults(m), Ones(b)) = Weight(m.content, Ones(b))
<1> DEFINE I == {k \in DOMAIN m.content : ~IsResult(m.content[k])}
<1>1. m.content \in Seq(Block) /\ I \subseteq DOMAIN m.content BY DEF Message
<1>2. NonResults(m) = Kept(m.content, I) BY DEF NonResults
<1>3. \A i \in DOMAIN m.content : i \notin I => Ones(b)[m.content[i]] = 0
  <2>1. \A i \in DOMAIN m.content : m.content[i] \in Block BY <1>1
  <2>2. \A i \in DOMAIN m.content : i \notin I => m.content[i] # b BY DEF IsContent
  <2> HIDE DEF I
  <2>3. QED BY <2>1, <2>2 DEF Ones
<1> HIDE DEF I
<1>4. QED BY <1>1, <1>2, <1>3, CountsAreWeights, WeightKept

\* Results are no content.
LEMMA ResultsCount ==
  ASSUME NEW b, IsContent(b), NEW c \in Seq(Block), \A k \in DOMAIN c : IsResult(c[k])
  PROVE  Weight(c, Ones(b)) = 0
<1>1. \A k \in DOMAIN c : c[k] # b BY DEF IsContent
<1>2. QED BY <1>1, NoneCounts

\* An answer keeps its content, and the markers have none.
LEMMA AnswerCount ==
  ASSUME NEW b, IsContent(b), NEW use \in Message, ToolUseIds(use) # {}
  PROVE  /\ \A m \in Message : m.role = "user" =>
              Counts(b)[NormalizePairAnswer(m, use)] = Counts(b)[m]
         /\ Counts(b)[User(LostResults(UseIdSeq(use)))] = 0
<1>1. use.role = "assistant" BY CallsAndResults
<1>2. \A ids \in Seq(Nat) : LostResults(ids) \in Seq(Block) /\ Weight(LostResults(ids), Ones(b)) = 0
  <2>1. SUFFICES ASSUME NEW ids \in Seq(Nat)
                 PROVE  LostResults(ids) \in Seq(Block) /\ Weight(LostResults(ids), Ones(b)) = 0
    OBVIOUS
  <2>2. /\ LostResults(ids) \in Seq(Block)
        /\ \A k \in DOMAIN LostResults(ids) : IsResult(LostResults(ids)[k])
    BY LostResultsFacts
  <2>3. QED BY <2>2, ResultsCount
<1>3. \A c \in Seq(Block) : Counts(b)[User(c)] = Weight(c, Ones(b))
  BY UserMessage, CountsAreWeights
<1>4. ASSUME NEW m \in Message, m.role = "user"
      PROVE  Counts(b)[NormalizePairAnswer(m, use)] = Counts(b)[m]
  <2>1. CASE ResultsFirst(m) /\ ResultIds(m) = ToolUseIds(use) BY <2>1 DEF NormalizePairAnswer
  <2>2. CASE ~(ResultsFirst(m) /\ ResultIds(m) = ToolUseIds(use))
    <3> DEFINE own == OwnResults(m, ToolUseIds(use))
               lost == LostResults(Unanswered(m, use))
               rest == NonResults(m)
    <3>1. NormalizePairAnswer(m, use) = User((own \o lost) \o rest)
      BY <2>2, Zenon DEF NormalizePairAnswer
    <3>2. own \in Seq(Block) /\ Weight(own, Ones(b)) = 0
      <4>1. own \in Seq(Block) /\ \A k \in DOMAIN own : IsResult(own[k]) BY OwnResultsFacts
      <4>2. QED BY <4>1, ResultsCount
    <3>3. lost \in Seq(Block) /\ Weight(lost, Ones(b)) = 0
      <4>1. Unanswered(m, use) \in Seq(Nat) BY <1>1, UnansweredFacts
      <4>2. QED BY <1>2, <4>1
    <3>4. rest \in Seq(Block) /\ Weight(rest, Ones(b)) = Weight(m.content, Ones(b))
      BY NonResultsFacts, NonResultsCount
    <3> HIDE DEF own, lost, rest
    <3>5. Weighs(Ones(b), Block) BY CountsAreWeights
    <3>6. own \o lost \in Seq(Block) /\ (own \o lost) \o rest \in Seq(Block)
      BY <3>2, <3>3, <3>4, ConcatProperties
    <3>7. Weight(own \o lost, Ones(b)) = 0 + 0 BY <3>2, <3>3, <3>5, WeightConcat
    <3>8. Weight((own \o lost) \o rest, Ones(b)) = (0 + 0) + Weight(m.content, Ones(b))
      BY <3>4, <3>5, <3>6, <3>7, WeightConcat
    <3>9. Weight(m.content, Ones(b)) \in Nat BY <3>5, BlockFacts, WeightFacts
    <3>10. \A n \in Nat : (0 + 0) + n = n OBVIOUS
    <3>11. Counts(b)[m] = Weight(m.content, Ones(b)) BY CountsAreWeights
    <3>12. QED BY <1>3, <3>1, <3>6, <3>8, <3>9, <3>10, <3>11
  <2>3. QED BY <2>1, <2>2
<1>5. UseIdSeq(use) \in Seq(Nat) BY <1>1, UseIdSeqFacts
<1>6. QED BY <1>2, <1>3, <1>4, <1>5

\* The weight of one and of two messages.
LEMMA WeightShort ==
  ASSUME NEW S, NEW w, Weighs(w, S), NEW x \in S, NEW y \in S
  PROVE  /\ Weight(<<x>>, w) = w[x] /\ Weight(<<x, y>>, w) = w[x] + w[y]
         /\ w[x] \in Nat /\ w[y] \in Nat
<1>1. <<x>> \in Seq(S) /\ Append(<<x>>, y) = <<x, y>>
  <2>1. PICK c \in Seq(S) : c = Append(<<x>>, y) /\ Len(c) = 2 /\ c[1] = x /\ c[2] = y
    <3>1. <<x>> \in Seq(S) /\ Len(<<x>>) = 1 /\ <<x>>[1] = x /\ 1 + 1 = 2 /\ 1 \in 1..1 OBVIOUS
    <3>2. /\ Append(<<x>>, y) \in Seq(S) /\ Len(Append(<<x>>, y)) = 2
          /\ Append(<<x>>, y)[1] = x /\ Append(<<x>>, y)[2] = y
      BY <3>1, AppendProperties
    <3>3. QED BY <3>2
  <2>2. PICK d \in Seq(S) : d = <<x, y>> /\ Len(d) = 2 /\ d[1] = x /\ d[2] = y
    <3>1. /\ <<x, y>> \in Seq(S) /\ Len(<<x, y>>) = 2 /\ <<x, y>>[1] = x /\ <<x, y>>[2] = y
      OBVIOUS
    <3>2. QED BY <3>1
  <2>3. \A i \in 1..2 : c[i] = d[i]
    <3>1. \A i \in 1..2 : i = 1 \/ i = 2 OBVIOUS
    <3>2. QED BY <2>1, <2>2, <3>1
  <2>4. c = d BY <2>1, <2>2, <2>3, SeqEqual
  <2>5. <<x>> \in Seq(S) OBVIOUS
  <2>6. QED BY <2>1, <2>2, <2>4, <2>5
<1>2. Weight(<<x>>, w) = w[x] BY WeightFacts
<1>3. Weight(Append(<<x>>, y), w) = Weight(<<x>>, w) + w[y] BY <1>1, WeightFacts
<1>4. w[x] \in Nat /\ w[y] \in Nat BY DEF Weighs
<1>5. QED BY <1>1, <1>2, <1>3, <1>4

\* One iteration keeps it.
LEMMA IterationKeeps ==
  ASSUME NEW b, IsContent(b), NEW q \in Seq(Message), q # <<>>
  PROVE  Weight(q, Counts(b)) = Weight(Pushed(q), Counts(b)) + Weight(Remaining(q), Counts(b))
<1> DEFINE W(s) == Weight(s, Counts(b))
<1>0. Weighs(Counts(b), Message) BY CountsAreWeights
<1>1. PICK m \in Message : m = Head(q) OBVIOUS
<1>2. PICK r \in Seq(Message) : r = Tail(q)
  <2>1. Tail(q) \in Seq(Message) OBVIOUS
  <2>2. QED BY <2>1
<1>3. W(q) = Counts(b)[m] + W(r) /\ W(r) \in Nat /\ Counts(b)[m] \in Nat
  <2>1. <<m>> \in Seq(Message) /\ q = <<m>> \o r BY <1>1, <1>2
  <2>2. W(<<m>> \o r) = W(<<m>>) + W(r) BY <1>0, <2>1, WeightConcat
  <2>3. W(<<m>>) = Counts(b)[m] /\ Counts(b)[m] \in Nat BY <1>0, WeightShort
  <2>4. W(r) \in Nat BY <1>0, WeightFacts
  <2>5. QED BY <2>1, <2>2, <2>3, <2>4
<1> DEFINE k == FirstAnswer(r, ToolUseIds(m))
           x == IF k = 0 THEN User(LostResults(UseIdSeq(m))) ELSE NormalizePairAnswer(r[k], m)
<1>4. Pushed(q) = IF ToolUseIds(m) # {} THEN <<m, x>>
                  ELSE IF m.role = "assistant" \/ ResultIds(m) = {} THEN <<m>>
                  ELSE IF NonResults(m) = <<>> THEN <<>> ELSE <<User(NonResults(m))>>
  BY <1>1, <1>2 DEF Pushed
<1>5. Remaining(q) = IF k = 0 THEN r ELSE RemoveAt(r, k) BY <1>1, <1>2 DEF Remaining
<1>6. k = 0 \/ (k \in DOMAIN r /\ AnswersAny(r[k], ToolUseIds(m))) BY FirstAnswerFacts
<1>7. CASE ToolUseIds(m) # {}
  <2>1. CASE k = 0
    <3>1. x \in Message /\ Counts(b)[x] = 0 BY <1>7, <2>1, AnswerCount, LostResultsAnswer DEF Answers
    <3> HIDE DEF x, k
    <3>2. W(<<m, x>>) = Counts(b)[m] + Counts(b)[x] BY <1>0, <3>1, WeightShort
    <3>3. Pushed(q) = <<m, x>> /\ Remaining(q) = r BY <1>4, <1>5, <1>7, <2>1
    <3> HIDE DEF W
    <3>4. W(Pushed(q)) + W(Remaining(q)) = Counts(b)[m] + W(r) BY <1>3, <3>1, <3>2, <3>3
    <3>5. QED BY <1>3, <3>4 DEF W
  <2>2. CASE k # 0
    <3>1. k \in DOMAIN r /\ AnswersAny(r[k], ToolUseIds(m)) BY <1>6, <2>2
    <3>2. PICK a \in Message : a = r[k] /\ a.role = "user" BY <3>1 DEF AnswersAny
    <3>3. x \in Message /\ Counts(b)[x] = Counts(b)[a]
      <4>1. x = NormalizePairAnswer(a, m) BY <2>2, <3>2
      <4> HIDE DEF x
      <4>2. QED BY <1>7, <3>2, <4>1, AnswerCount, NormalizeAnswers DEF Answers
    <3>4. W(r) = W(RemoveAt(r, k)) + Counts(b)[a]
      <4> HIDE DEF k
      <4>1. QED BY <1>0, <3>1, <3>2, WeightRemoveAt
    <3>5. Remaining(q) = RemoveAt(r, k) /\ Pushed(q) = <<m, x>> BY <1>4, <1>5, <1>7, <2>2
    <3>6. W(Remaining(q)) \in Nat BY <1>0, RemainingFacts, WeightFacts
    <3> HIDE DEF x, k
    <3>7. W(<<m, x>>) = Counts(b)[m] + Counts(b)[x] /\ Counts(b)[a] \in Nat
      <4>1. x \in Message BY <3>3
      <4>2. W(<<m, x>>) = Counts(b)[m] + Counts(b)[x] BY <1>0, <4>1, WeightShort, ZenonT(40)
      <4>3. Counts(b)[a] \in Nat BY <1>0, <3>2, WeightShort
      <4>4. QED BY <4>2, <4>3
    <3> HIDE DEF W
    <3>8. \A i, j, l \in Nat : i + (j + l) = (i + l) + j OBVIOUS
    <3>9. W(q) = W(Pushed(q)) + W(Remaining(q)) BY <1>3, <3>3, <3>4, <3>5, <3>6, <3>7, <3>8
    <3>10. QED BY <3>9 DEF W
  <2>3. QED BY <2>1, <2>2
<1> HIDE DEF x
<1>8. CASE ToolUseIds(m) = {}
  <2>1. k = 0 BY <1>6, <1>8 DEF AnswersAny
  <2>2. Remaining(q) = r BY <1>5, <2>1
  <2> HIDE DEF k
  <2>3. W(Pushed(q)) = Counts(b)[m]
    <3>1. CASE m.role = "assistant" \/ ResultIds(m) = {}
      <4>1. Pushed(q) = <<m>> BY <1>4, <1>8, <3>1
      <4>2. QED BY <1>0, <4>1, WeightShort
    <3>2. CASE ~(m.role = "assistant" \/ ResultIds(m) = {})
      <4>1. /\ NonResults(m) \in Seq(Block)
            /\ Weight(NonResults(m), Ones(b)) = Counts(b)[m]
        BY NonResultsFacts, NonResultsCount, CountsAreWeights
      <4>2. CASE NonResults(m) = <<>>
        <5>1. Pushed(q) = <<>> BY <1>4, <1>8, <3>2, <4>2
        <5>2. Counts(b)[m] = 0 BY <4>1, <4>2, CountsAreWeights, WeightFacts
        <5>3. QED BY <1>0, <5>1, <5>2, WeightFacts
      <4>3. CASE NonResults(m) # <<>>
        <5>1. PICK y : y = User(NonResults(m)) OBVIOUS
        <5>2. y \in Message /\ y.content = NonResults(m) BY <4>1, <5>1, UserMessage
        <5>3. Pushed(q) = <<y>> BY <1>4, <1>8, <3>2, <4>3, <5>1
        <5>4. Counts(b)[y] = Counts(b)[m] BY <4>1, <5>2, CountsAreWeights
        <5>5. QED BY <1>0, <5>2, <5>3, <5>4, WeightShort, ZenonT(40)
      <4>4. QED BY <4>2, <4>3
    <3>3. QED BY <3>1, <3>2
  <2> HIDE DEF W
  <2>4. W(q) = W(Pushed(q)) + W(Remaining(q)) BY <1>3, <2>2, <2>3
  <2>5. QED BY <2>4 DEF W
<1>9. QED BY <1>7, <1>8

LEMMA PairingKeeps ==
  ASSUME NEW b, IsContent(b), NEW q \in Seq(Message)
  PROVE  Weight(Pairing[q], Counts(b)) = Weight(q, Counts(b))
<1> DEFINE W(s) == Weight(s, Counts(b))
           P == {r \in Seq(Message) : W(Pairing[r]) = W(r)}
<1>0. Weighs(Counts(b), Message) BY CountsAreWeights
<1>1. ASSUME NEW r \in Seq(Message), \A s \in Seq(Message) : Len(s) < Len(r) => s \in P
      PROVE  r \in P
  <2>1. CASE r = <<>> BY <2>1, PairingLoop
  <2>2. CASE r # <<>>
    <3>1. Pairing[r] = Pushed(r) \o Pairing[Remaining(r)] BY <2>2, PairingLoop
    <3>2. Remaining(r) \in Seq(Message) /\ Len(Remaining(r)) < Len(r) BY <2>2, RemainingFacts
    <3>3. W(Pairing[Remaining(r)]) = W(Remaining(r)) BY <1>1, <3>2
    <3>4. Pushed(r) \in Seq(Message) /\ Pairing[Remaining(r)] \in Seq(Message)
      BY <2>2, <3>2, PushedType, PairingLoop
    <3>5. W(Pushed(r) \o Pairing[Remaining(r)]) = W(Pushed(r)) + W(Pairing[Remaining(r)])
      BY <1>0, <3>4, WeightConcat
    <3>6. W(r) = W(Pushed(r)) + W(Remaining(r)) BY <2>2, IterationKeeps
    <3> HIDE DEF W
    <3>7. W(Pairing[r]) = W(r) BY <3>1, <3>3, <3>5, <3>6
    <3>8. QED BY <3>7
  <2>3. QED BY <2>1, <2>2
<1>2. Seq(Message) \subseteq P
  <2> HIDE DEF P
  <2>1. QED BY <1>1, QueueInduction
<1>3. QED BY <1>2

(* Repair deletes nothing that was said or called, and says nothing twice:  *)
(* every text, every tool call and every trim notice stands in the repaired *)
(* history exactly as often as in the file, whatever the file holds.        *)
THEOREM RepairKeepsBlocks ==
  \A h \in Seq(Message), b \in Block :
    IsContent(b) => Occurrences(RepairHistory(h), b) = Occurrences(h, b)
<1>1. SUFFICES ASSUME NEW h \in Seq(Message), NEW b \in Block, IsContent(b)
               PROVE  Occurrences(RepairHistory(h), b) = Occurrences(h, b)
  OBVIOUS
<1> DEFINE W(s) == Weight(s, Counts(b))
           lost == [kind |-> "opening_lost", id |-> 0]
           opening == User(<<lost>>)
<1>2. Weighs(Counts(b), Message) BY CountsAreWeights
<1>3. W(NonEmpty(h)) = W(h) /\ NonEmpty(h) \in Seq(Message)
  <2> DEFINE I == {i \in DOMAIN h : h[i].content # <<>>}
  <2>1. I \subseteq DOMAIN h /\ NonEmpty(h) = Kept(h, I) BY DEF NonEmpty
  <2>2. \A i \in DOMAIN h : i \notin I => Counts(b)[h[i]] = 0
    <3>1. SUFFICES ASSUME NEW i \in DOMAIN h, h[i].content = <<>> PROVE Counts(b)[h[i]] = 0
      OBVIOUS
    <3>2. h[i] \in Message OBVIOUS
    <3>3. Counts(b)[h[i]] = Weight(<<>>, Ones(b)) BY <3>1, <3>2, CountsAreWeights
    <3>4. QED BY <3>3, CountsAreWeights, WeightFacts
  <2> HIDE DEF I
  <2>3. W(Kept(h, I)) = W(h) BY <1>2, <2>1, <2>2, WeightKept
  <2>4. QED BY <2>1, <2>3, NonEmptyFacts
<1>4. PICK out : out = Pairing[NonEmpty(h)] /\ out \in Seq(Message) /\ W(out) = W(h)
  BY <1>1, <1>3, PairingKeeps, PairingLoop
<1>5. RepairHistory(h) = IF out # <<>> /\ out[1].role = "assistant" THEN <<opening>> \o out ELSE out
  BY <1>4 DEF RepairHistory
<1>6. opening \in Message /\ Counts(b)[opening] = 0
  <2>1. lost \in Block /\ lost.kind = "opening_lost" BY DEF Block, BlockKinds
  <2> HIDE DEF lost
  <2>2. <<lost>> \in Seq(Block) /\ \A k \in DOMAIN <<lost>> : <<lost>>[k] = lost BY <2>1
  <2>3. lost # b BY <1>1, <2>1 DEF IsContent
  <2>4. Weight(<<lost>>, Ones(b)) = 0 BY <2>2, <2>3, NoneCounts
  <2>5. opening \in Message /\ opening.content = <<lost>> BY <2>2, UserMessage
  <2>6. QED BY <2>4, <2>5, CountsAreWeights
<1> HIDE DEF opening
<1>7. W(<<opening>> \o out) = W(out)
  <2>1. <<opening>> \in Seq(Message) BY <1>6
  <2>2. W(<<opening>> \o out) = W(<<opening>>) + W(out) BY <1>2, <1>4, <2>1, WeightConcat
  <2>3. W(<<opening>>) = 0 /\ W(out) \in Nat BY <1>2, <1>4, <1>6, WeightFacts
  <2> HIDE DEF W
  <2>4. QED BY <2>2, <2>3
<1>8. W(RepairHistory(h)) = W(h)
  <2> HIDE DEF W
  <2>1. QED BY <1>4, <1>5, <1>7
<1>9. QED BY <1>8, RepairRestores, CountsAreWeights

-----------------------------------------------------------------------------
(* How large a trimmed window is.                                           *)

Sizes == [m \in Message |-> MsgTokens(m)]

LEMMA SizesAreWeights ==
  /\ Weighs(Sizes, Message)
  /\ \A m \in Message : Sizes[m] = MsgTokens(m)
  /\ \A h \in Seq(Message) : EstimateHistory(h) = Weight(h, Sizes) /\ EstimateHistory(h) \in Nat
<1>1. \A b \in Block : BlockTokens(b) \in Nat BY DEF BlockTokens, Block, BlockKinds
<1>2. ASSUME NEW m \in Message PROVE MsgTokens(m) \in Nat
  <2> DEFINE s == [k \in DOMAIN m.content |-> BlockTokens(m.content[k])]
  <2>1. PICK N \in Nat : DOMAIN m.content = 1..N /\ \A k \in 1..N : m.content[k] \in Block
    <3>1. m.content \in Seq(Block) BY BlockFacts
    <3>2. QED BY <3>1
  <2>2. s \in [1..N -> Nat] BY <1>1, <2>1
  <2>3. MsgTokens(m) = Total(s) + 1 BY DEF MsgTokens
  <2> HIDE DEF s
  <2>4. s \in Seq(Nat) BY <2>2
  <2>5. Total(s) \in Nat BY <2>4, TotalShort
  <2>6. QED BY <2>3, <2>5
<1>3. Weighs(Sizes, Message) /\ \A m \in Message : Sizes[m] = MsgTokens(m) BY <1>2 DEF Weighs, Sizes
<1>4. ASSUME NEW h \in Seq(Message) PROVE EstimateHistory(h) = Weight(h, Sizes)
  <2>1. \A i \in DOMAIN h : h[i] \in Message OBVIOUS
  <2>2. [i \in DOMAIN h |-> MsgTokens(h[i])] = [i \in DOMAIN h |-> Sizes[h[i]]] BY <2>1 DEF Sizes
  <2>3. QED BY <2>2 DEF EstimateHistory, Weight
<1>5. QED BY <1>3, <1>4, WeightFacts

LEMMA NoticeTokens == \A n \in Nat : MsgTokens(TrimMarker(n)) = 2
<1>1. SUFFICES ASSUME NEW n \in Nat PROVE MsgTokens(TrimMarker(n)) = 2 OBVIOUS
<1> DEFINE b == [kind |-> "trim_notice", id |-> n]
           s == [k \in DOMAIN <<b>> |-> BlockTokens(<<b>>[k])]
<1>2. b.kind = "trim_notice" OBVIOUS
<1>3. TrimMarker(n).content = <<b>> BY DEF TrimMarker, User
<1> HIDE DEF b
<1>4. BlockTokens(b) = 1 BY <1>2 DEF BlockTokens
<1>5. MsgTokens(TrimMarker(n)) = Total(s) + 1 BY <1>3 DEF MsgTokens
<1>6. s = <<1>> BY <1>4
<1>7. Total(<<1>>) = 1
  <2>1. PICK e \in Seq(Nat) : e = <<>> BY EmptySeq
  <2>2. Append(e, 1) = <<1>> BY <2>1
  <2>3. Total(Append(e, 1)) = Total(e) + 1 BY TotalAppend
  <2>4. QED BY <2>1, <2>2, <2>3, TotalShort
<1> HIDE DEF s
<1>8. QED BY <1>5, <1>6, <1>7

LEMMA SuffixOfAll ==
  ASSUME NEW h \in Seq(Message)
  PROVE  SuffixTokens(h, 1) = EstimateHistory(h)
<1>1. SubSeq(h, 1, Len(h)) = h OBVIOUS
<1>2. QED BY <1>1 DEF SuffixTokens

\* Where a trim cuts when the newest message opens a turn: at the first turn
\* start that fits the floor, or at that message.
LEMMA TrimCutChoice ==
  ASSUME NEW h \in Seq(Message), h # <<>>, IsTurnStart(h[Len(h)]), NEW budget
  PROVE  /\ TrimCut(h, budget) \in DOMAIN h
         /\ \/ SuffixTokens(h, TrimCut(h, budget)) <= TrimTarget(budget)
            \/ /\ TrimCut(h, budget) = Len(h)
               /\ \A i \in DOMAIN h : IsTurnStart(h[i]) => ~(SuffixTokens(h, i) <= TrimTarget(budget))
<1> DEFINE starts == {i \in DOMAIN h : IsTurnStart(h[i])}
           fits == {i \in starts : SuffixTokens(h, i) <= TrimTarget(budget)}
           first == CHOOSE i \in fits : \A j \in fits : i <= j
           last == CHOOSE i \in starts : \A j \in starts : j <= i
<1>1. TrimCut(h, budget) = IF fits # {} THEN first ELSE IF starts # {} THEN last ELSE 0
  BY Zenon DEF TrimCut
<1>2. PICK N \in Nat : N = Len(h) OBVIOUS
<1>3. starts \subseteq 1..N /\ DOMAIN h = 1..N BY <1>2
<1>4. fits \subseteq starts OBVIOUS
<1>5. fits # {} => first \in fits
  <2> HIDE DEF starts, fits
  <2>1. fits \subseteq Nat
    <3>1. \A i \in 1..N : i \in Nat OBVIOUS
    <3>2. QED BY <1>3, <1>4, <3>1
  <2>2. SUFFICES ASSUME fits # {} PROVE first \in fits OBVIOUS
  <2>3. \E i \in fits : \A j \in fits : i <= j BY <2>1, <2>2, LeastNumber
  <2>4. QED BY <2>3, Zenon
<1>6. N \in starts
  <2>1. N \in DOMAIN h BY <1>2, EmptySeq
  <2>2. QED BY <1>2, <2>1
<1>7. last = N
  <2> HIDE DEF starts
  <2>1. \E i \in starts : \A j \in starts : j <= i BY <1>3, <1>6, LastOfStretch
  <2>2. last \in starts /\ \A j \in starts : j <= last BY <2>1, Zenon
  <2> HIDE DEF last
  <2>3. N <= last /\ last \in 1..N BY <1>3, <1>6, <2>2
  <2>4. QED BY <2>3
<1>8. \A i \in DOMAIN h : IsTurnStart(h[i]) /\ SuffixTokens(h, i) <= TrimTarget(budget) => i \in fits
  OBVIOUS
<1>9. \A i \in fits : i \in DOMAIN h /\ SuffixTokens(h, i) <= TrimTarget(budget) OBVIOUS
<1> HIDE DEF first, last, fits
<1>10. CASE fits # {} BY <1>1, <1>5, <1>9, <1>10
<1>11. CASE fits = {}
  <2>1. TrimCut(h, budget) = N BY <1>1, <1>6, <1>7, <1>11
  <2> HIDE DEF starts
  <2>2. N \in DOMAIN h BY <1>3, <1>6
  <2>3. QED BY <1>2, <1>8, <1>11, <2>1, <2>2
<1>12. QED BY <1>10, <1>11

(* A trimmed window has room again: it is within the trigger, or it is the  *)
(* notice and the newest message alone.  And a trim is done at once: a      *)
(* second one changes nothing.  So a session does not lose a message, and   *)
(* the provider's prompt cache with it, on every turn.  This holds for      *)
(* every window whose newest message opens a turn, as the router's does     *)
(* when it trims, and every budget whose hysteresis leaves room for the     *)
(* notice.                                                                  *)
THEOREM TrimSettles ==
  \A h \in Seq(Message), budget \in Nat :
    /\ h # <<>> /\ IsTurnStart(h[Len(h)])
    /\ TrimTarget(budget) + 2 <= TrimTrigger(budget)
    => LET cut == TrimHistory(h, budget)
       IN /\ budget # 0 /\ SuffixTokens(cut, 1) > TrimTrigger(budget) => Len(cut) <= 2
          /\ TrimHistory(cut, budget) = cut
<1> SUFFICES ASSUME NEW h \in Seq(Message), NEW budget \in Nat,
                    h # <<>>, IsTurnStart(h[Len(h)]),
                    TrimTarget(budget) + 2 <= TrimTrigger(budget)
             PROVE  /\ budget # 0 /\ SuffixTokens(TrimHistory(h, budget), 1) > TrimTrigger(budget)
                          => Len(TrimHistory(h, budget)) <= 2
                    /\ TrimHistory(TrimHistory(h, budget), budget) = TrimHistory(h, budget)
  OBVIOUS
<1>0. PICK goal, trigger \in Nat : goal = TrimTarget(budget) /\ trigger = TrimTrigger(budget)
  BY DEF TrimTarget, TrimTrigger
<1>1. \A g \in Seq(Message) : SuffixTokens(g, 1) \in Nat BY SuffixOfAll, SizesAreWeights
<1>2. PICK c : c = TrimCut(h, budget) OBVIOUS
<1>3. /\ c \in DOMAIN h
      /\ \/ SuffixTokens(h, c) <= goal
         \/ /\ c = Len(h)
            /\ \A i \in DOMAIN h : IsTurnStart(h[i]) => ~(SuffixTokens(h, i) <= goal)
  BY <1>0, <1>2, TrimCutChoice
<1>4. CASE budget = 0 \/ SuffixTokens(h, 1) <= trigger
  <2>1. TrimHistory(h, budget) = h BY <1>0, <1>4 DEF TrimHistory
  <2>2. ~(budget # 0 /\ SuffixTokens(h, 1) > trigger) BY <1>0, <1>1, <1>4
  <2>3. QED BY <1>0, <2>1, <2>2
<1>5. CASE ~(budget = 0 \/ SuffixTokens(h, 1) <= trigger) /\ c <= 1
  <2>1. TrimHistory(h, budget) = h BY <1>2, <1>5 DEF TrimHistory
  <2>2. c = 1 BY <1>3, <1>5
  <2>3. ~(SuffixTokens(h, 1) <= goal) BY <1>0, <1>1, <1>5
  <2>4. Len(h) = 1 BY <1>3, <2>2, <2>3
  <2>5. QED BY <2>1, <2>4
<1>6. CASE ~(budget = 0 \/ SuffixTokens(h, 1) <= trigger) /\ ~(c <= 1)
  <2>1. PICK n \in Nat : /\ c > 1 /\ IsTurnStart(h[c])
                         /\ TrimHistory(h, budget) = <<TrimMarker(n)>> \o SubSeq(h, c, Len(h))
    BY <1>0, <1>2, <1>6, TrimFires
  <2>2. PICK t \in Seq(Message) :
           /\ t = SubSeq(h, c, Len(h)) /\ Len(h) = Len(t) + (c - 1) /\ t # <<>>
           /\ \A i \in DOMAIN t : t[i] = h[i + (c - 1)]
    BY <1>3, SuffixFacts
  <2>3. PICK m \in Message : /\ m = TrimMarker(n) /\ IsTrimMarker(m) /\ m.content[1].id = n
                             /\ IsTurnStart(m) /\ MsgTokens(m) = 2
    BY TrimMarkerFacts, NoticeTokens DEF IsTurnStart
  <2>4. PICK w \in Seq(Message) : /\ w = <<m>> \o t /\ Len(w) = Len(t) + 1 /\ w[1] = m
                                  /\ \A i \in 1..Len(t) : w[i+1] = t[i]
    <3>1. /\ <<m>> \o t \in Seq(Message) /\ Len(<<m>> \o t) = Len(t) + 1 /\ (<<m>> \o t)[1] = m
          /\ \A i \in 1..Len(t) : (<<m>> \o t)[i+1] = t[i]
      BY NoticeInFront
    <3>2. QED BY <3>1
  <2>5. TrimHistory(h, budget) = w BY <2>1, <2>2, <2>3, <2>4
  <2>6. PICK l \in Nat : l = Len(t) /\ l >= 1
    <3>1. Len(t) \in Nat /\ Len(t) # 0 BY <2>2, EmptySeq
    <3>2. QED BY <3>1
  <2>7. w # <<>> BY <2>4, <2>6
  <2>8. SuffixTokens(w, 1) = EstimateHistory(t) + 2 /\ EstimateHistory(t) \in Nat
    <3>1. <<m>> \in Seq(Message) OBVIOUS
    <3>2. Weight(<<m>> \o t, Sizes) = Weight(<<m>>, Sizes) + Weight(t, Sizes)
      BY <3>1, SizesAreWeights, WeightConcat
    <3>3. Weight(<<m>>, Sizes) = 2 BY <2>3, SizesAreWeights, WeightFacts
    <3>4. SuffixTokens(w, 1) = Weight(w, Sizes) BY SuffixOfAll, SizesAreWeights
    <3>5. EstimateHistory(t) = Weight(t, Sizes) /\ EstimateHistory(t) \in Nat BY SizesAreWeights
    <3>6. QED BY <2>4, <3>2, <3>3, <3>4, <3>5
  <2>9. SuffixTokens(h, c) = EstimateHistory(t) BY <2>2 DEF SuffixTokens
  <2>10. CASE SuffixTokens(h, c) <= goal
    <3>1. SuffixTokens(w, 1) <= trigger BY <1>0, <2>8, <2>9, <2>10
    <3>2. TrimHistory(w, budget) = w BY <1>0, <3>1 DEF TrimHistory
    <3>3. ~(SuffixTokens(w, 1) > trigger) BY <1>0, <1>1, <3>1
    <3>4. QED BY <1>0, <2>5, <3>2, <3>3
  <2>11. CASE c = Len(h) /\ ~(SuffixTokens(h, c) <= goal)
    <3>1. l = 1 /\ Len(w) = 2
      <4>1. c = l + (c - 1) BY <2>2, <2>6, <2>11
      <4>2. c \in Nat BY <1>3
      <4>3. l = 1 BY <4>1, <4>2
      <4>4. QED BY <2>4, <2>6, <4>3
    <3>2. TrimHistory(w, budget) = w
      <4>1. CASE SuffixTokens(w, 1) <= trigger BY <1>0, <4>1 DEF TrimHistory
      <4>2. CASE ~(SuffixTokens(w, 1) <= trigger)
        <5>1. DOMAIN w = 1..2 /\ 1 \in DOMAIN w /\ 2 \in DOMAIN w BY <3>1
        <5>2. w[2] = h[Len(h)] /\ w[2] \in Message
          <6>1. w[2] = t[1]
            <7>1. 1 \in 1..Len(t) /\ 1 + 1 = 2 BY <2>6
            <7>2. QED BY <2>4, <7>1
          <6>2. t[1] = h[Len(h)]
            <7>1. 1 \in DOMAIN t BY <2>6
            <7>2. 1 + (c - 1) = c BY <1>3
            <7>3. QED BY <2>2, <2>11, <7>1, <7>2
          <6>3. QED BY <5>1, <6>1, <6>2
        <5>3. IsTurnStart(w[Len(w)]) BY <3>1, <5>2
        <5>4. PICK d : d = TrimCut(w, budget) OBVIOUS
        <5>5. /\ d \in DOMAIN w
              /\ SuffixTokens(w, d) <= goal \/ d = Len(w)
          BY <1>0, <2>7, <5>3, <5>4, TrimCutChoice
        <5>6. d = 1 \/ d = 2 BY <5>1, <5>5
        <5>7. d # 1
          <6>1. ~(SuffixTokens(w, 1) <= goal) BY <1>0, <1>1, <4>2
          <6>2. QED BY <3>1, <5>5, <6>1
        <5>8. d = 2 BY <5>6, <5>7
        <5>9. TrimHistory(w, budget) = <<TrimMarker(n + (2 - 1 - 1))>> \o SubSeq(w, 2, Len(w))
          <6>1. ~(budget = 0 \/ w = <<>> \/ SuffixTokens(w, 1) <= TrimTrigger(budget))
            BY <1>0, <1>6, <2>7, <4>2
          <6>2. ~(2 <= 1) /\ IsTrimMarker(w[1]) /\ w[1].content[1].id = n BY <2>3, <2>4
          <6>3. QED BY <5>4, <5>8, <6>1, <6>2 DEF TrimHistory
        <5>10. n + (2 - 1 - 1) = n OBVIOUS
        <5>11. SubSeq(w, 2, Len(w)) = t
          <6>1. PICK u \in Seq(Message) :
                   /\ u = SubSeq(w, 2, Len(w)) /\ Len(w) = Len(u) + (2 - 1)
                   /\ \A i \in DOMAIN u : u[i] = w[i + (2 - 1)]
            BY <5>1, SuffixFacts
          <6>2. Len(u) = 1 /\ 2 - 1 = 1
            <7>1. Len(u) \in Nat OBVIOUS
            <7>2. QED BY <3>1, <6>1, <7>1
          <6>3. \A i \in 1..1 : u[i] = t[i]
            <7>1. 1 \in DOMAIN u /\ 1 \in 1..Len(t) BY <2>6, <6>2
            <7>2. u[1] = t[1] BY <2>4, <6>1, <6>2, <7>1
            <7>3. QED BY <7>2
          <6>4. Len(t) = 1 BY <2>6, <3>1
          <6>5. u = t BY <6>2, <6>3, <6>4, SeqEqual
          <6>6. QED BY <6>1, <6>5
        <5>12. QED BY <2>3, <2>4, <5>9, <5>10, <5>11
      <4>3. QED BY <4>1, <4>2
    <3>3. QED BY <2>5, <3>1, <3>2
  <2>12. QED BY <1>3, <2>10, <2>11
<1>7. QED BY <1>4, <1>5, <1>6
-----------------------------------------------------------------------------
(* The messages a turn adds.                                                *)

LEMMA Blocks ==
  \A n \in Nat : /\ Text(n) \in Block /\ ~IsResult(Text(n)) /\ Text(n).kind = "text" /\ Text(n).id = n
                 /\ ToolUse(n) \in Block /\ ToolUse(n).kind = "tool_use" /\ ToolUse(n).id = n
                 /\ ~IsResult(ToolUse(n))
                 /\ ToolResult(n) \in Block /\ IsResult(ToolResult(n)) /\ ToolResult(n).id = n
                 /\ ToolResult(n).kind = "tool_result"
  BY DEF Text, ToolUse, ToolResult, Block, BlockKinds, IsResult

\* A message of one block.
LEMMA OneBlock ==
  ASSUME NEW b \in Block
  PROVE  /\ User(<<b>>) \in Message /\ User(<<b>>).role = "user" /\ User(<<b>>).content = <<b>>
         /\ Assistant(<<b>>) \in Message /\ Assistant(<<b>>).role = "assistant"
         /\ Assistant(<<b>>).content = <<b>>
         /\ <<b>> # <<>> /\ ToolUseIds(User(<<b>>)) = {}
         /\ ResultIds(User(<<b>>)) = IF IsResult(b) THEN {b.id} ELSE {}
         /\ ToolUseIds(Assistant(<<b>>)) = IF b.kind = "tool_use" THEN {b.id} ELSE {}
         /\ ResultsFirst(User(<<b>>))
<1>1. <<b>> \in Seq(Block) /\ <<b>> # <<>> /\ DOMAIN <<b>> = {1} /\ <<b>>[1] = b OBVIOUS
<1>2. /\ User(<<b>>) \in Message /\ User(<<b>>).role = "user" /\ User(<<b>>).content = <<b>>
      /\ Assistant(<<b>>) \in Message /\ Assistant(<<b>>).role = "assistant"
      /\ Assistant(<<b>>).content = <<b>>
  BY <1>1 DEF User, Assistant, Message
<1>3. ToolUseIds(User(<<b>>)) = {} BY <1>2 DEF ToolUseIds
<1>4. ResultIds(User(<<b>>)) = IF IsResult(b) THEN {b.id} ELSE {} BY <1>1, <1>2 DEF ResultIds
<1>5. ToolUseIds(Assistant(<<b>>)) = IF b.kind = "tool_use" THEN {b.id} ELSE {}
  BY <1>1, <1>2 DEF ToolUseIds
<1>6. ResultsFirst(User(<<b>>)) BY <1>1, <1>2 DEF ResultsFirst
<1>7. QED BY <1>1, <1>2, <1>3, <1>4, <1>5, <1>6

\* What a prompt is.
LEMMA PromptFacts ==
  ASSUME NEW n \in Nat
  PROVE  /\ User(<<Text(n)>>) \in Message /\ IsTurnStart(User(<<Text(n)>>))
         /\ ~IsTrimMarker(User(<<Text(n)>>)) /\ Closed(<<User(<<Text(n)>>)>>)
         /\ User(<<Text(n)>>).role = "user"
<1>1. PICK b \in Block : b = Text(n) /\ ~IsResult(b) /\ b.kind = "text" BY Blocks
<1>2. PICK m \in Message : /\ m = User(<<b>>) /\ m.role = "user" /\ m.content = <<b>>
                           /\ m.content # <<>> /\ ToolUseIds(m) = {} /\ ResultIds(m) = {}
  BY <1>1, OneBlock
<1>3. m.content[1] = b BY <1>2
<1>4. IsTurnStart(m) /\ ~IsTrimMarker(m) BY <1>1, <1>2, <1>3 DEF IsTurnStart, IsTrimMarker
<1>5. Closed(<<m>>) BY <1>2, ClosedShort
<1>6. QED BY <1>1, <1>2, <1>4, <1>5

\* What a reply is.
LEMMA ReplyFacts ==
  \A n \in Nat : /\ Assistant(<<Text(n)>>) \in Message /\ Closed(<<Assistant(<<Text(n)>>)>>)
                 /\ Assistant(<<Text(n)>>).role = "assistant"
<1>1. SUFFICES ASSUME NEW n \in Nat
               PROVE  /\ Assistant(<<Text(n)>>) \in Message /\ Closed(<<Assistant(<<Text(n)>>)>>)
                      /\ Assistant(<<Text(n)>>).role = "assistant"
  OBVIOUS
<1>2. PICK b \in Block : b = Text(n) /\ b.kind = "text" BY Blocks
<1>3. PICK m \in Message : /\ m = Assistant(<<b>>) /\ m.role = "assistant" /\ m.content # <<>>
                           /\ ToolUseIds(m) = {}
  BY <1>2, OneBlock
<1>4. Closed(<<m>>) BY <1>3, ClosedShort
<1>5. QED BY <1>2, <1>3, <1>4

\* A call, its result and a reply.
LEMMA ExchangeFacts ==
  ASSUME NEW n \in Nat, NEW k \in Nat
  PROVE  Closed(<<Assistant(<<ToolUse(n)>>), User(<<ToolResult(n)>>), Assistant(<<Text(k)>>)>>)
<1> PICK m, x, y : /\ m = Assistant(<<ToolUse(n)>>) /\ x = User(<<ToolResult(n)>>)
                   /\ y = Assistant(<<Text(k)>>)
  OBVIOUS
<1> SUFFICES Closed(<<m, x, y>>) OBVIOUS
<1>0. /\ ToolUse(n) \in Block /\ ToolUse(n).kind = "tool_use" /\ ToolUse(n).id = n
      /\ ToolResult(n) \in Block /\ IsResult(ToolResult(n)) /\ ToolResult(n).id = n
  BY Blocks
<1>1. m \in Message /\ ToolUseIds(m) = {n} /\ m.content # <<>> BY <1>0, OneBlock
<1>2. /\ x \in Message /\ x.role = "user" /\ x.content # <<>> /\ ResultIds(x) = {n}
      /\ ResultsFirst(x)
  BY <1>0, OneBlock
<1>3. Answers(x, m) BY <1>1, <1>2 DEF Answers
<1>4. Closed(<<m, x>>) BY <1>1, <1>2, <1>3, ClosedShort
<1>5. y \in Message /\ Closed(<<y>>) BY ReplyFacts
<1>6. Closed(<<m, x>> \o <<y>>) BY <1>4, <1>5, ClosedConcat
<1>7. <<m, x>> \o <<y>> = <<m, x, y>>
  <2>1. PICK a \in Seq(Message) : a = <<m, x>> /\ Len(a) = 2 /\ a[1] = m /\ a[2] = x
    <3>1. <<m, x>> \in Seq(Message) /\ Len(<<m, x>>) = 2 /\ <<m, x>>[1] = m /\ <<m, x>>[2] = x
      BY <1>1, <1>2
    <3>2. QED BY <3>1
  <2>2. PICK b \in Seq(Message) : b = <<y>> /\ Len(b) = 1 /\ b[1] = y
    <3>1. <<y>> \in Seq(Message) /\ Len(<<y>>) = 1 /\ <<y>>[1] = y BY <1>5
    <3>2. QED BY <3>1
  <2>3. PICK c \in Seq(Message) : c = a \o b /\ Len(c) = 3 /\ c[1] = m /\ c[2] = x /\ c[3] = y
    <3>1. /\ a \o b \in Seq(Message) /\ Len(a \o b) = 2 + 1
          /\ \A i \in 1..(2 + 1) : (a \o b)[i] = IF i <= 2 THEN a[i] ELSE b[i - 2]
      BY <2>1, <2>2, ConcatProperties
    <3>2. (a \o b)[1] = m /\ (a \o b)[2] = x /\ (a \o b)[3] = y
      BY <2>1, <2>2, <3>1
    <3>3. 2 + 1 = 3 OBVIOUS
    <3>4. Len(a \o b) = 3 /\ a \o b \in Seq(Message) BY <3>1, <3>3
    <3>5. QED BY <3>2, <3>4
  <2>4. PICK d \in Seq(Message) : d = <<m, x, y>> /\ Len(d) = 3 /\ d[1] = m /\ d[2] = x /\ d[3] = y
    <3>1. /\ <<m, x, y>> \in Seq(Message) /\ Len(<<m, x, y>>) = 3
          /\ <<m, x, y>>[1] = m /\ <<m, x, y>>[2] = x /\ <<m, x, y>>[3] = y
      BY <1>1, <1>2, <1>5
    <3>2. QED BY <3>1
  <2>5. \A i \in 1..3 : c[i] = d[i]
    <3>1. \A i \in 1..3 : i = 1 \/ i = 2 \/ i = 3 OBVIOUS
    <3>2. QED BY <2>3, <2>4, <3>1
  <2>6. c = d BY <2>3, <2>4, <2>5, SeqEqual
  <2>7. QED BY <2>1, <2>2, <2>3, <2>4, <2>6
<1>8. QED BY <1>6, <1>7

-----------------------------------------------------------------------------
(* Growing windows.                                                         *)

LEMMA GrownWindow ==
  ASSUME NEW w \in Seq(Message), NEW d \in Seq(Message), w # <<>>
  PROVE  /\ w \o d \in Seq(Message) /\ w \o d # <<>> /\ (w \o d)[1] = w[1]
         /\ EverPushed(w \o d) = EverPushed(w) + Len(d) /\ EverPushed(w) \in Nat
<1>1. PICK n \in Nat : n = Len(w) /\ n >= 1
  <2>1. Len(w) \in Nat /\ Len(w) # 0 BY EmptySeq
  <2>2. QED BY <2>1
<1>2. PICK l \in Nat : l = Len(d) OBVIOUS
<1>3. PICK g \in Seq(Message) : g = w \o d /\ Len(g) = n + l /\ g[1] = w[1]
  <2>1. /\ w \o d \in Seq(Message) /\ Len(w \o d) = n + l
        /\ \A i \in 1..(n + l) : (w \o d)[i] = IF i <= n THEN w[i] ELSE d[i - n]
    BY <1>1, <1>2, ConcatProperties
  <2>2. 1 \in 1..(n + l) /\ 1 <= n BY <1>1
  <2>3. (w \o d)[1] = w[1] BY <2>1, <2>2
  <2>4. QED BY <2>1, <2>3
<1>4. g # <<>> BY <1>1, <1>3
<1>5. CASE IsTrimMarker(w[1])
  <2>1. w[1] \in Message BY <1>1
  <2>2. w[1].content \in Seq(Block) /\ Len(w[1].content) = 1 BY <1>5, <2>1 DEF IsTrimMarker, Message
  <2>3. w[1].content[1] \in Block BY <2>2
  <2>4. PICK p \in Nat : p = w[1].content[1].id BY <2>3 DEF Block
  <2>5. EverPushed(w) = p + (n - 1) BY <1>1, <1>5, <2>4 DEF EverPushed
  <2>6. EverPushed(g) = p + ((n + l) - 1) BY <1>3, <1>4, <1>5, <2>4 DEF EverPushed
  <2>7. QED BY <1>1, <1>2, <1>3, <1>4, <2>5, <2>6
<1>6. CASE ~IsTrimMarker(w[1])
  <2>1. EverPushed(w) = n BY <1>1, <1>6 DEF EverPushed
  <2>2. EverPushed(g) = n + l BY <1>3, <1>4, <1>6 DEF EverPushed
  <2>3. QED BY <1>1, <1>2, <1>3, <1>4, <2>1, <2>2
<1>7. QED BY <1>5, <1>6

\* The window with a prompt pushed on it.
LEMMA PushedPrompt ==
  ASSUME NEW w \in Seq(Message), ApiValid(w), NEW n \in Nat
  PROVE  \E full \in Seq(Message) :
           /\ full = Append(w, User(<<Text(n)>>)) /\ full # <<>> /\ ApiValid(full)
           /\ IsTurnStart(full[Len(full)]) /\ EverPushed(full) = EverPushed(w) + 1
<1>1. PICK p \in Message : /\ p = User(<<Text(n)>>) /\ IsTurnStart(p) /\ ~IsTrimMarker(p)
                           /\ Closed(<<p>>) /\ p.role = "user"
  BY PromptFacts
<1>2. PICK full \in Seq(Message) : /\ full = Append(w, p) /\ full = w \o <<p>> /\ full # <<>>
                                   /\ full[Len(full)] = p /\ Len(full) = Len(w) + 1
  <2>1. /\ Append(w, p) \in Seq(Message) /\ Append(w, p) # <<>> /\ Append(w, p) = w \o <<p>>
        /\ Append(w, p)[Len(w) + 1] = p /\ Len(Append(w, p)) = Len(w) + 1
    BY AppendProperties, AppendIsConcat
  <2>2. QED BY <2>1
<1>3. <<p>> \in Seq(Message) /\ Len(<<p>>) = 1 /\ <<p>>[1] = p OBVIOUS
<1>4. Closed(full) BY <1>1, <1>2, ClosedIsValid, ClosedConcat
<1>5. CASE w = <<>>
  <2>1. Len(full) = 1 /\ full[1] = p BY <1>2, <1>5
  <2>2. EverPushed(w) = 0 /\ EverPushed(full) = 1 BY <1>1, <1>2, <1>5, <2>1 DEF EverPushed
  <2>3. ApiValid(full) BY <1>1, <1>4, <2>1, ClosedIsValid
  <2>4. EverPushed(full) = EverPushed(w) + 1 BY <2>2
  <2>5. IsTurnStart(full[Len(full)]) BY <1>1, <1>2
  <2>6. QED BY <1>1, <1>2, <2>3, <2>4, <2>5
<1>6. CASE w # <<>>
  <2>1. full[1] = w[1] /\ EverPushed(full) = EverPushed(w) + 1
    <3>1. PICK d \in Seq(Message) : d = <<p>> /\ Len(d) = 1 BY <1>3
    <3>2. full = w \o d BY <1>2, <3>1
    <3>3. (w \o d)[1] = w[1] /\ EverPushed(w \o d) = EverPushed(w) + Len(d) BY <1>6, GrownWindow
    <3>4. QED BY <3>1, <3>2, <3>3
  <2>2. w[1].role = "user" BY <1>6, ClosedIsValid
  <2>3. ApiValid(full) BY <1>4, <2>1, <2>2, ClosedIsValid
  <2>4. IsTurnStart(full[Len(full)]) BY <1>1, <1>2
  <2>5. QED BY <1>1, <1>2, <2>1, <2>3, <2>4
<1>7. QED BY <1>5, <1>6


\* A valid history with a reply, a marker or a whole exchange behind it.
LEMMA ValidGrows ==
  ASSUME NEW h \in Seq(Message), ApiValid(h), h # <<>>, NEW d, Closed(d)
  PROVE  h \o d \in Seq(Message) /\ ApiValid(h \o d) /\ h \o d # <<>>
<1>1. d \in Seq(Message) BY DEF Closed
<1>2. h \o d \in Seq(Message) /\ h \o d # <<>> /\ (h \o d)[1] = h[1] BY <1>1, GrownWindow
<1>3. Closed(h \o d) BY ClosedIsValid, ClosedConcat
<1>4. h[1].role = "user" BY ClosedIsValid
<1>5. QED BY <1>2, <1>3, <1>4, ClosedIsValid

-----------------------------------------------------------------------------
(* Files whose lines have one block each.                                   *)

\* A marker repair_history makes up.
Marked(m) ==
  \E k \in DOMAIN m.content : m.content[k].kind \in {"lost_result", "opening_lost"}

OneBlockLines(q) == \A i \in DOMAIN q : \E b \in Block : q[i].content = <<b>>

LEMMA OneBlockAnswer ==
  ASSUME NEW m \in Message, NEW use \in Message, NEW b \in Block, NEW c \in Block,
         m.content = <<b>>, use.content = <<c>>,
         AnswersAny(m, ToolUseIds(use))
  PROVE  NormalizePairAnswer(m, use) = m
<1>1. /\ DOMAIN <<b>> = {1} /\ <<b>>[1] = b
      /\ DOMAIN <<c>> = {1} /\ <<c>>[1] = c
  OBVIOUS
<1>2. ResultsFirst(m) BY <1>1 DEF ResultsFirst
<1>3. ResultIds(m) \subseteq {b.id} BY <1>1 DEF ResultIds
<1>4. ToolUseIds(use) \subseteq {c.id} BY <1>1 DEF ToolUseIds
<1>5. ResultIds(m) \cap ToolUseIds(use) # {} BY DEF AnswersAny
<1>6. ResultIds(m) = ToolUseIds(use) BY <1>3, <1>4, <1>5
<1>7. QED BY <1>2, <1>6 DEF NormalizePairAnswer

LEMMA LostResultsMarked ==
  ASSUME NEW m \in Message, ToolUseIds(m) # {}
  PROVE  Marked(User(LostResults(UseIdSeq(m))))
<1>1. m.role = "assistant" BY CallsAndResults
<1>2. PICK ids \in Seq(Nat) : ids = UseIdSeq(m) BY <1>1, UseIdSeqFacts
<1>3. PICK k \in DOMAIN ids : TRUE BY <1>1, <1>2, UseIdSeqFacts
<1>4. PICK c \in Seq(Block) : c = LostResults(ids) /\ DOMAIN c = DOMAIN ids BY LostResultsFacts
<1>5. c[k].kind = "lost_result" BY <1>4 DEF LostResults, LostResult
<1>6. User(c).content = c BY UserMessage
<1>7. QED BY <1>2, <1>4, <1>5, <1>6 DEF Marked

\* One iteration pushes lines of the queue and markers.
LEMMA PushedLines ==
  ASSUME NEW q \in Seq(Message), q # <<>>, OneBlockLines(q)
  PROVE  \A i \in DOMAIN Pushed(q) : (\E j \in DOMAIN q : Pushed(q)[i] = q[j]) \/ Marked(Pushed(q)[i])
<1>1. PICK N \in Nat : N = Len(q) /\ N >= 1 /\ DOMAIN q = 1..N
  <2>1. Len(q) \in Nat /\ Len(q) # 0 BY EmptySeq
  <2>2. QED BY <2>1
<1>2. PICK m \in Message : m = Head(q) /\ m = q[1] /\ 1 \in DOMAIN q BY <1>1
<1>3. PICK r \in Seq(Message) : r = Tail(q) /\ \A i \in DOMAIN r : i + 1 \in DOMAIN q /\ r[i] = q[i+1]
  <2>1. Tail(q) \in Seq(Message) /\ Len(Tail(q)) = N - 1 BY <1>1
  <2>2. \A i \in 1..(N - 1) : i + 1 \in 1..N /\ Tail(q)[i] = q[i+1] BY <1>1
  <2>3. DOMAIN Tail(q) = 1..(N - 1) BY <2>1
  <2>4. QED BY <1>1, <2>1, <2>2, <2>3
<1>4. PICK k : k = FirstAnswer(r, ToolUseIds(m)) OBVIOUS
<1>5. CASE ToolUseIds(m) # {}
  <2>1. PICK x : x = IF k = 0 THEN User(LostResults(UseIdSeq(m))) ELSE NormalizePairAnswer(r[k], m) OBVIOUS
  <2>2. Pushed(q) = <<m, x>> BY <1>2, <1>3, <1>4, <1>5, <2>1 DEF Pushed
  <2>3. (\E j \in DOMAIN q : x = q[j]) \/ Marked(x)
    <3>1. CASE k = 0 BY <1>5, <2>1, <3>1, LostResultsMarked
    <3>2. CASE k # 0
      <4>1. k \in DOMAIN r /\ AnswersAny(r[k], ToolUseIds(m)) BY <1>4, <3>2, FirstAnswerFacts
      <4>2. k + 1 \in DOMAIN q /\ r[k] = q[k+1] /\ r[k] \in Message BY <1>3, <4>1
      <4>3. PICK b \in Block : r[k].content = <<b>> BY <4>2 DEF OneBlockLines
      <4>4. PICK c \in Block : m.content = <<c>> BY <1>2 DEF OneBlockLines
      <4>5. x = r[k] BY <2>1, <3>2, <4>1, <4>2, <4>3, <4>4, OneBlockAnswer
      <4>6. QED BY <4>2, <4>5
    <3>3. QED BY <3>1, <3>2
  <2>4. DOMAIN <<m, x>> = {1, 2} /\ <<m, x>>[1] = m /\ <<m, x>>[2] = x OBVIOUS
  <2>5. QED BY <1>2, <2>2, <2>3, <2>4
<1>6. CASE ToolUseIds(m) = {} /\ (m.role = "assistant" \/ ResultIds(m) = {})
  <2>1. Pushed(q) = <<m>> BY <1>2, <1>6 DEF Pushed
  <2>2. DOMAIN <<m>> = {1} /\ <<m>>[1] = m OBVIOUS
  <2>3. QED BY <1>2, <2>1, <2>2
<1>7. CASE ToolUseIds(m) = {} /\ ~(m.role = "assistant" \/ ResultIds(m) = {})
  <2>1. PICK b \in Block : m.content = <<b>> BY <1>2 DEF OneBlockLines
  <2>2. DOMAIN <<b>> = {1} /\ <<b>>[1] = b OBVIOUS
  <2>3. IsResult(b) BY <1>7, <2>1, <2>2 DEF ResultIds
  <2>4. {i \in DOMAIN m.content : ~IsResult(m.content[i])} = {} BY <2>1, <2>2, <2>3
  <2>5. NonResults(m) = <<>>
    <3>1. {} \subseteq DOMAIN m.content OBVIOUS
    <3>2. PICK d : d = Kept(m.content, {}) OBVIOUS
    <3>3. m.content \in Seq(Block) BY BlockFacts
    <3>4. d \in Seq(Block) /\ \A i \in DOMAIN d : \E j \in {} : d[i] = m.content[j]
      BY <3>1, <3>2, <3>3, KeptElements
    <3>5. DOMAIN d = {} BY <3>4
    <3>6. d = <<>> BY <3>4, <3>5
    <3>7. QED BY <2>4, <3>2, <3>6 DEF NonResults
  <2>6. Pushed(q) = <<>> BY <1>2, <1>7, <2>5 DEF Pushed
  <2>7. QED BY <2>6
<1>8. QED BY <1>5, <1>6, <1>7

\* The result of repairing such a file: lines of the file, and markers.
LEMMA PairingLines ==
  ASSUME NEW q \in Seq(Message), OneBlockLines(q)
  PROVE  \A i \in DOMAIN Pairing[q] :
           (\E j \in DOMAIN q : Pairing[q][i] = q[j]) \/ Marked(Pairing[q][i])
<1> DEFINE Good(r) == \A i \in DOMAIN Pairing[r] :
                        (\E j \in DOMAIN r : Pairing[r][i] = r[j]) \/ Marked(Pairing[r][i])
           P == {r \in Seq(Message) : OneBlockLines(r) => Good(r)}
<1>1. ASSUME NEW r \in Seq(Message), \A t \in Seq(Message) : Len(t) < Len(r) => t \in P
      PROVE  r \in P
  <2>1. SUFFICES ASSUME OneBlockLines(r) PROVE Good(r) OBVIOUS
  <2>2. CASE r = <<>>
    <3>1. Pairing[r] = <<>> BY <2>2, PairingLoop
    <3>2. QED BY <3>1
  <2>3. CASE r # <<>>
    <3>1. PICK a \in Seq(Message) : a = Pushed(r) BY <2>3, PushedType
    <3>2. PICK t \in Seq(Message) : /\ t = Remaining(r) /\ Len(t) < Len(r)
                                   /\ \A i \in DOMAIN t : \E j \in DOMAIN r : t[i] = r[j]
      BY <2>3, RemainingFacts
    <3>3. OneBlockLines(t) BY <2>1, <3>2 DEF OneBlockLines
    <3>4. Good(t) BY <1>1, <3>2, <3>3
    <3>5. PICK b \in Seq(Message) : b = Pairing[t] BY PairingLoop
    <3>6. ASSUME NEW i \in DOMAIN b PROVE (\E j \in DOMAIN r : b[i] = r[j]) \/ Marked(b[i])
      <4>1. (\E j \in DOMAIN t : b[i] = t[j]) \/ Marked(b[i]) BY <3>4, <3>5
      <4>2. CASE \E j \in DOMAIN t : b[i] = t[j]
        <5>1. PICK j \in DOMAIN t : b[i] = t[j] BY <4>2
        <5>2. PICK k \in DOMAIN r : t[j] = r[k] BY <3>2
        <5>3. b[i] = r[k] BY <5>1, <5>2
        <5>4. QED BY <5>3
      <4>3. QED BY <4>1, <4>2
    <3>7. \A i \in DOMAIN a : (\E j \in DOMAIN r : a[i] = r[j]) \/ Marked(a[i])
      BY <2>1, <2>3, <3>1, PushedLines
    <3>8. PICK n, l \in Nat : n = Len(a) /\ l = Len(b) OBVIOUS
    <3>9. PICK c \in Seq(Message) : /\ c = a \o b /\ Len(c) = n + l
                                   /\ \A i \in 1..(n + l) : c[i] = IF i <= n THEN a[i] ELSE b[i - n]
      <4>1. /\ a \o b \in Seq(Message) /\ Len(a \o b) = n + l
            /\ \A i \in 1..(n + l) : (a \o b)[i] = IF i <= n THEN a[i] ELSE b[i - n]
        BY <3>8, ConcatProperties
      <4>2. QED BY <4>1
    <3>10. \A i \in DOMAIN c : (\E j \in DOMAIN r : c[i] = r[j]) \/ Marked(c[i])
      <4>1. SUFFICES ASSUME NEW i \in 1..(n + l)
                     PROVE  (\E j \in DOMAIN r : c[i] = r[j]) \/ Marked(c[i])
        <5>1. DOMAIN c = 1..(n + l) BY <3>9
        <5>2. QED BY <5>1
      <4>2. CASE i <= n
        <5>1. i \in DOMAIN a /\ c[i] = a[i] BY <3>8, <3>9, <4>2
        <5>2. QED BY <3>7, <5>1
      <4>3. CASE ~(i <= n)
        <5>1. i - n \in DOMAIN b /\ c[i] = b[i - n] BY <3>8, <3>9, <4>3
        <5>2. QED BY <3>6, <5>1
      <4>4. QED BY <4>2, <4>3
    <3>11. Pairing[r] = c BY <2>3, <3>1, <3>2, <3>5, <3>9, PairingLoop
    <3>12. QED BY <3>10, <3>11
  <2>4. QED BY <2>2, <2>3
<1>2. Seq(Message) \subseteq P
  <2> HIDE DEF P
  <2>1. QED BY <1>1, QueueInduction
<1>3. q \in P BY <1>2
<1>4. QED BY <1>3

(* Reloading a file of one-block lines makes nothing up but markers: every  *)
(* message of the repaired history is a line of the file, or says that      *)
(* something was lost.                                                      *)
THEOREM RepairInventsNothing ==
  \A h \in Seq(Message) : OneBlockLines(h) =>
    \A i \in DOMAIN RepairHistory(h) :
      (\E j \in DOMAIN h : RepairHistory(h)[i] = h[j]) \/ Marked(RepairHistory(h)[i])
<1> SUFFICES ASSUME NEW h \in Seq(Message), OneBlockLines(h)
             PROVE  \A i \in DOMAIN RepairHistory(h) :
                      (\E j \in DOMAIN h : RepairHistory(h)[i] = h[j]) \/ Marked(RepairHistory(h)[i])
  OBVIOUS
<1>1. ASSUME NEW i \in DOMAIN h PROVE h[i].content # <<>>
  <2>1. PICK b \in Block : h[i].content = <<b>> BY DEF OneBlockLines
  <2>2. QED BY <2>1
<1>2. NonEmpty(h) = h BY <1>1, NonEmptyFacts
<1>3. PICK out \in Seq(Message) : out = Pairing[h] BY PairingLoop
<1>4. \A i \in DOMAIN out : (\E j \in DOMAIN h : out[i] = h[j]) \/ Marked(out[i])
  BY <1>3, PairingLines
<1>5. CASE RepairHistory(h) = out BY <1>4, <1>5
<1>6. CASE RepairHistory(h) # out
  <2>1. PICK b \in Block : b = [kind |-> "opening_lost", id |-> 0] BY DEF Block, BlockKinds
  <2>2. PICK m \in Message : m = User(<<b>>) /\ m.content = <<b>> BY OneBlock
  <2>3. RepairHistory(h) = <<m>> \o out BY <1>2, <1>3, <1>6, <2>1, <2>2 DEF RepairHistory
  <2>4. Marked(m)
    <3>1. DOMAIN <<b>> = {1} /\ <<b>>[1] = b /\ b.kind = "opening_lost" BY <2>1
    <3>2. QED BY <2>2, <3>1 DEF Marked
  <2>5. PICK l \in Nat : l = Len(out) OBVIOUS
  <2>6. PICK c : /\ c = <<m>> \o out /\ c \in Seq(Message) /\ Len(c) = l + 1 /\ c[1] = m
                 /\ \A i \in 1..l : c[i+1] = out[i]
    <3>1. /\ <<m>> \o out \in Seq(Message) /\ Len(<<m>> \o out) = l + 1 /\ (<<m>> \o out)[1] = m
          /\ \A i \in 1..l : (<<m>> \o out)[i+1] = out[i]
      BY <2>5, NoticeInFront
    <3>2. QED BY <3>1
  <2>7. ASSUME NEW i \in DOMAIN c PROVE (\E j \in DOMAIN h : c[i] = h[j]) \/ Marked(c[i])
    <3>1. i \in 1..(l + 1) BY <2>6
    <3>2. CASE i = 1 BY <2>4, <2>6, <3>2
    <3>3. CASE i # 1
      <4>1. i - 1 \in 1..l /\ (i - 1) + 1 = i BY <3>1, <3>3
      <4>2. c[i] = out[i - 1] /\ i - 1 \in DOMAIN out BY <2>5, <2>6, <4>1
      <4>3. QED BY <1>4, <4>2
    <3>4. QED BY <3>2, <3>3
  <2>8. QED BY <2>3, <2>6, <2>7
<1>7. QED BY <1>5, <1>6
=============================================================================

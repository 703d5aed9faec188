------------------------ MODULE WorkerDriver_proofs ------------------------
(***************************************************************************)
(* Proofs about WorkerDriver, for any number of workers, slots, batches,    *)
(* disturbances and restarts: types, durable acknowledgements, grants,      *)
(* final outcomes, truthful reports, and that the driver keeps the ledger   *)
(* a conductor relies on.                                                  *)
(*                                                                         *)
(* The argument compares the map in memory with the file: both name known   *)
(* batches, the file never holds an outcome memory does not have, and it    *)
(* lags behind only after a lost save.                                     *)
(***************************************************************************)
EXTENDS WorkerDriver, FiniteSetTheorems, WellFoundedInduction, TLAPS

-----------------------------------------------------------------------------
(* Numbers.                                                                 *)

(* A set of numbers that is not empty has a least element.                  *)
LEMMA LeastNumber ==
  ASSUME NEW T \in SUBSET Nat, T # {}
  PROVE  \E n \in T : \A m \in T : n <= m
<1> DEFINE R == {ss \in Nat \X Nat : ss[1] < ss[2]}
<1>1. IsWellFoundedOn(R, Nat)
  BY NatLessThanWellFounded, Zenon DEF OpToRel
<1>2. T \subseteq Nat
  OBVIOUS
<1>3. \E n \in T : \A m \in T : ~ (<<m, n>> \in R)
  <2> HIDE DEF R
  <2>. QED BY <1>1, <1>2, WFMin, Zenon
<1>4. PICK n \in T : \A m \in T : ~ (<<m, n>> \in R)
  <2> HIDE DEF R
  <2>. QED BY <1>3, Zenon
<1>5. \A m \in T : ~(m < n)
  BY <1>2, <1>4
<1>. QED BY <1>2, <1>5

(* A set of ids has a greatest element, or 0 stands for it.                 *)
LEMMA GreatestId ==
  ASSUME NEW N \in Nat, NEW S, S \subseteq 1..N
  PROVE  \E n \in 0..N : /\ n = 0 \/ n \in S
                         /\ \A i \in S : i <= n
<1> DEFINE T == {n \in Nat : \A i \in S : i <= n}
<1>1. N \in T
  OBVIOUS
<1>2. PICK n \in T : \A m \in T : n <= m
  <2>1. T \in SUBSET Nat /\ T # {}
    BY <1>1
  <2> HIDE DEF T
  <2>. QED BY <2>1, LeastNumber
<1>3. n \in 0..N
  BY <1>1, <1>2
<1>4. ASSUME n # 0, n \notin S PROVE FALSE
  <2>1. n - 1 \in T
    BY <1>2, <1>3, <1>4
  <2>. QED BY <1>2, <1>3, <2>1
<1>. QED BY <1>2, <1>3, <1>4

\* A set of numbers can be listed in ascending order.
Listable(S) ==
  \E s \in [1..Cardinality(S) -> S] : \A m, n \in 1..Cardinality(S) : m < n => s[m] < s[n]

LEMMA ListableBy ==
  ASSUME NEW V, NEW s \in [1..Cardinality(V) -> V],
         \A m, n \in 1..Cardinality(V) : m < n => s[m] < s[n]
  PROVE  Listable(V)
BY DEF Listable

(* Every finite set of ids can: InOrder, the order in which the driver      *)
(* sends its prompts, is what it is meant to be.                            *)
LEMMA IdsAreListable ==
  ASSUME NEW N \in Nat, NEW S \in SUBSET (1..N)
  PROVE  Listable(S) /\ Cardinality(S) \in Nat
<1> DEFINE T == {n \in Nat : \E V \in SUBSET (1..n) : ~Listable(V)}
<1>0. \A k \in Nat : \A V \in SUBSET (1..k) : IsFiniteSet(V) /\ Cardinality(V) \in Nat
  <2> TAKE k \in Nat
  <2> TAKE V \in SUBSET (1..k)
  <2>1. IsFiniteSet(1..k)
    BY FS_Interval
  <2>2. IsFiniteSet(V)
    BY <2>1, FS_Subset
  <2>. QED BY <2>2, FS_CardinalityType
<1>1. ASSUME T # {} PROVE FALSE
  <2>1. PICK n \in T : \A m \in T : n <= m
    <3>1. T \in SUBSET Nat
      OBVIOUS
    <3> HIDE DEF T
    <3>. QED BY <1>1, <3>1, LeastNumber
  <2>2. n \in Nat
    OBVIOUS
  <2>3. PICK V \in SUBSET (1..n) : ~Listable(V)
    OBVIOUS
  <2>4. IsFiniteSet(V) /\ Cardinality(V) \in Nat
    BY <1>0, <2>2
  <2>5. n \in V
    <3> SUFFICES ASSUME n \notin V PROVE FALSE
      OBVIOUS
    <3>1. CASE n = 0
      <4>0. V = {}
        BY <3>1
      <4>1. Cardinality(V) = 0
        BY <4>0, FS_EmptySet, Zenon
      <4>2. 1..Cardinality(V) = {}
        BY <4>1
      <4> DEFINE s == [k \in 1..Cardinality(V) |-> 0]
      <4>3. s \in [1..Cardinality(V) -> V]
        BY <4>2
      <4> HIDE DEF s
      <4>4. \A i, j \in 1..Cardinality(V) : i < j => s[i] < s[j]
        BY <4>2
      <4>. QED BY <2>3, <4>3, <4>4, ListableBy
    <3>2. CASE n # 0
      <4>1. n - 1 \in Nat /\ V \in SUBSET (1..(n - 1))
        BY <2>2, <3>2
      <4>2. n - 1 \in T
        BY <2>3, <4>1
      <4>. QED BY <2>1, <2>2, <4>2
    <3>. QED BY <3>1, <3>2
  <2>6. n # 0
    BY <2>5
  <2> DEFINE W == V \ {n}
             c == Cardinality(W)
  <2>7. n - 1 \in Nat /\ W \in SUBSET (1..(n - 1))
    BY <2>2, <2>6
  <2>8. Listable(W)
    <3>1. n - 1 \notin T
      BY <2>1, <2>2, <2>7
    <3> HIDE DEF W
    <3>. QED BY <2>7, <3>1
  <2>9. c \in Nat /\ Cardinality(V) = c + 1
    <3>1. c = Cardinality(V) - 1
      BY <2>4, <2>5, FS_RemoveElement
    <3>2. c \in Nat
      BY <1>0, <2>7
    <3>. QED BY <2>4, <3>1, <3>2
  <2>10. PICK s \in [1..c -> W] : \A i, j \in 1..c : i < j => s[i] < s[j]
    BY <2>8 DEF Listable
  <2>11. \A i \in 1..c : s[i] \in W /\ s[i] \in Nat /\ s[i] < n
    <3>1. \A x \in W : x \in Nat /\ x < n
      BY <2>2, <2>7
    <3>2. \A i \in 1..c : s[i] \in W
      OBVIOUS
    <3> HIDE DEF T, W, c
    <3>. QED BY <3>1, <3>2
  <2> DEFINE d == Cardinality(V)
             r == [i \in 1..d |-> IF i = d THEN n ELSE s[i]]
  <2>12. \A i \in 1..d : r[i] \in V
    <3>1. \A i \in 1..c : s[i] \in V
      BY <2>11
    <3>2. d = c + 1 /\ c \in Nat
      BY <2>9
    <3> HIDE DEF c, d
    <3>. QED BY <2>5, <3>1, <3>2
  <2>13. \A i, j \in 1..d : i < j => r[i] < r[j]
    <3> HIDE DEF c
    <3>. QED BY <2>2, <2>4, <2>9, <2>10, <2>11
  <2>14. r \in [1..Cardinality(V) -> V]
    BY <2>12
  <2> HIDE DEF r
  <2>. QED BY <2>3, <2>13, <2>14, ListableBy
<1>. QED BY <1>0, <1>1

(* The prompts of a pass are events of the driver's channel.                *)
LEMMA PromptsTyped ==
  ASSUME NEW S \in SUBSET Ids
  PROVE  Prompts(S) \in Seq(Events)
<1>1. Listable(S) /\ Cardinality(S) \in Nat
  BY IdsAreListable, WorkerAssumption DEF Ids
<1>2. InOrder(S) \in [1..Cardinality(S) -> S]
  BY <1>1 DEF Listable, InOrder
<1>3. \A k \in 1..Cardinality(S) : Event("UserPrompt", InOrder(S)[k]) \in Events
  BY <1>2, WorkerAssumption DEF Event, Events, Ids
<1>. QED BY <1>1, <1>3 DEF Prompts

-----------------------------------------------------------------------------
(* The invariant.                                                           *)

\* What the driver owns, and what it tells.
DriverTypes ==
  /\ \A i \in Ids : workers[i].step <= Ceiling[i] /\ disk.workers[i].step <= Ceiling[i]
  /\ workers \in [Ids -> WorkerRecords] /\ batches \in [Batches -> BatchStates]
  /\ nextId \in 1..(MaxWorkers + 1) /\ nextBatch \in 1..(MaxWorkers + 1)
  /\ disk \in [workers : [Ids -> WorkerRecords], batches : [Batches -> BatchStates]]
  /\ acked \subseteq Ids /\ told \in [Ids -> Terminal \cup {"none"}]
  /\ reports \in [Batches -> Nat]
  /\ lostSaves \in 0..MaxDisturbances

\* The sessions, the channel between them and the driver, and the other counters.
SessionTypes ==
  /\ armed \subseteq Ids
  /\ turn \in [Ids -> {"none", "running", "asking"}] /\ queue \in [Ids -> Nat]
  /\ inbox \in Seq(Events)
  /\ sends \in 0..MaxDisturbances /\ answers \in 0..MaxDisturbances /\ stops \in 0..MaxDisturbances
  /\ lags \in 0..MaxDisturbances /\ restarts \in 0..MaxRestarts

Existing == {i \in Ids : workers[i].state # "none"}

\* Workers and batches know each other, and the counters are past both.
KnownWorkers ==
  /\ \A i \in Existing : /\ workers[i].batch \in Batches
                         /\ batches[workers[i].batch] # "none"
                         /\ i < nextId
  /\ \A b \in Batches : batches[b] # "none" => b < nextBatch /\ \E i \in Existing : b <= i
  /\ nextBatch <= nextId
  /\ acked \subseteq Existing

\* The record v of memory is not behind the record w of the file.
Covers(v, w) ==
  /\ v.batch = w.batch
  /\ v.state = "none" <=> w.state = "none"
  /\ w.state \in Terminal => v.state = w.state

\* The file holds every worker and every batch, and no outcome that memory has
\* not; it is behind on a report only after a lost save.
FileFollows ==
  /\ \A i \in Ids : Covers(workers[i], disk.workers[i])
  /\ \A b \in Batches : \/ disk.batches[b] = batches[b]
                        \/ lostSaves > 0 /\ batches[b] = "reported" /\ disk.batches[b] = "open"

\* While no save was lost the file holds every outcome, and a batch was reported
\* once if it is marked so.
Lossless ==
  lostSaves = 0 =>
    /\ \A i \in Ids : workers[i].state \in Terminal => disk.workers[i].state = workers[i].state
    /\ \A b \in Batches : reports[b] = IF batches[b] = "reported" THEN 1 ELSE 0
    /\ \A i \in Ids : told[i] \in Terminal => workers[i].state = told[i]

DriverInv == DriverTypes /\ KnownWorkers /\ FileFollows /\ Lossless

IInv == DriverInv /\ SessionTypes /\ GrantFollowsResidency

LEMMA TypeParts == TypeOK <=> DriverTypes /\ SessionTypes
BY DEF TypeOK, DriverTypes, SessionTypes

LEMMA InitInv == Init => IInv
<1> SUFFICES ASSUME Init PROVE IInv
  OBVIOUS
<1>1. DriverTypes
  BY WorkerAssumption DEF Init, DriverTypes, NoWorker, WorkerRecords, WorkerStates, Verdicts,
     BatchStates, Ids, Batches, Terminal
<1>2. SessionTypes
  BY WorkerAssumption DEF Init, SessionTypes, Ids
<1>3. KnownWorkers
  BY DEF Init, KnownWorkers, Existing, NoWorker
<1>4. FileFollows /\ Lossless
  BY DEF Init, FileFollows, Lossless, Covers, NoWorker, Terminal
<1>. QED BY <1>1, <1>2, <1>3, <1>4 DEF IInv, DriverInv, GrantFollowsResidency, Init

-----------------------------------------------------------------------------
(* What a handler may do to the worker map.                                 *)

\* The map ws is the driver's map after some handler: nobody comes, goes,
\* changes its batch or its grant, leaves a final state or passes its ceiling.
Evolves(ws) ==
  /\ ws \in [Ids -> WorkerRecords]
  /\ \A i \in Ids : ws[i].step <= Ceiling[i] /\ Covers(ws[i], workers[i])

\* A handler that leaves ws, reports the batches of due and saves.
DriverStep(ws, due) ==
  /\ workers' = ws
  /\ due \subseteq {b \in Batches : batches[b] = "open"}
  /\ ReportBatches(ws, due)
  /\ Save(ws, batches')
  /\ UNCHANGED <<nextId, nextBatch, acked>>

(* admit_queued starts queued workers and touches nobody else.              *)
LEMMA AdmitStarts ==
  ASSUME NEW ws \in [Ids -> WorkerRecords]
  PROVE  /\ Admit(ws) \in [Ids -> WorkerRecords]
         /\ Admitted(ws) \subseteq Ids
         /\ \A i \in Ids : IF i \in Admitted(ws)
                             THEN ws[i].state = "Queued" /\ Admit(ws)[i] = Started(ws[i])
                             ELSE Admit(ws)[i] = ws[i]
<1>1. Admitted(ws) \subseteq Queued(ws)
  BY DEF Admitted
<1>2. Queued(ws) \subseteq Ids /\ \A i \in Queued(ws) : ws[i].state = "Queued"
  BY DEF Queued
<1>3. \A i \in Ids : ws[i] \in WorkerRecords
  OBVIOUS
<1>4. \A i \in Ids : Started(ws[i]) \in WorkerRecords
  BY <1>3 DEF Started, WorkerRecords, WorkerStates
<1>. QED BY <1>1, <1>2, <1>3, <1>4 DEF Admit

(* So an admission pass after a handler is part of what the handler may do. *)
LEMMA AdmitEvolves ==
  ASSUME NEW ws, Evolves(ws)
  PROVE  Evolves(Admit(ws))
<1>1. ws \in [Ids -> WorkerRecords]
  BY DEF Evolves
<1>2. \A i \in Ids : /\ Started(ws[i]).step = ws[i].step
                     /\ Started(ws[i]).batch = ws[i].batch
                     /\ Started(ws[i]).state = "Running"
  BY <1>1 DEF Started, WorkerRecords
<1>. QED BY <1>1, <1>2, AdmitStarts DEF Evolves, Covers, Terminal

(* The file a save writes.                                                   *)
LEMMA SnapshotTyped ==
  ASSUME NEW ws \in [Ids -> WorkerRecords], NEW bs \in [Batches -> BatchStates]
  PROVE  /\ Snapshot(ws, bs) \in [workers : [Ids -> WorkerRecords],
                                  batches : [Batches -> BatchStates]]
         /\ Snapshot(ws, bs).batches = bs
         /\ \A i \in Ids : /\ Snapshot(ws, bs).workers[i].state = ws[i].state
                           /\ Snapshot(ws, bs).workers[i].batch = ws[i].batch
                           /\ Snapshot(ws, bs).workers[i].step = ws[i].step
<1> DEFINE kept(w) == [w EXCEPT !.inflight = FALSE, !.pending = "none", !.errored = FALSE]
<1>1. \A i \in Ids : ws[i] \in WorkerRecords
  OBVIOUS
<1>2. \A w \in WorkerRecords : /\ kept(w) \in WorkerRecords
                               /\ kept(w).state = w.state
                               /\ kept(w).batch = w.batch
                               /\ kept(w).step = w.step
  BY DEF WorkerRecords
<1>3. /\ Snapshot(ws, bs).workers = [i \in Ids |-> kept(ws[i])]
      /\ Snapshot(ws, bs).batches = bs
      /\ Snapshot(ws, bs) = [workers |-> [i \in Ids |-> kept(ws[i])], batches |-> bs]
  BY DEF Snapshot
<1> HIDE DEF kept
<1>. QED BY <1>1, <1>2, <1>3

(* A save writes the map and the ledger, or is lost.                        *)
LEMMA SaveCases ==
  ASSUME NEW ws, NEW bs, Save(ws, bs), lostSaves \in 0..MaxDisturbances, DriverTypes, SessionTypes
  PROVE  \/ disk' = Snapshot(ws, bs) /\ lostSaves' = lostSaves
         \/ disk' = disk /\ lostSaves' = lostSaves + 1 /\ lostSaves' \in 1..MaxDisturbances
BY WorkerAssumption DEF Save, Disturbable, SessionTypes

LEMMA DriverStepKeepsInv ==
  ASSUME DriverInv, SessionTypes, NEW ws, Evolves(ws), NEW due, DriverStep(ws, due)
  PROVE  DriverInv'
<1> USE DEF DriverInv
<1>1. /\ workers' = ws /\ ws \in [Ids -> WorkerRecords]
      /\ \A i \in Ids : ws[i].step <= Ceiling[i] /\ Covers(ws[i], workers[i])
      /\ due \subseteq Batches /\ \A b \in due : batches[b] = "open"
      /\ nextId' = nextId /\ nextBatch' = nextBatch /\ acked' = acked
  BY DEF Evolves, DriverStep
<1>2. /\ batches' = [b \in Batches |-> IF b \in due THEN "reported" ELSE batches[b]]
      /\ reports' = [b \in Batches |-> IF b \in due THEN reports[b] + 1 ELSE reports[b]]
      /\ told' = [i \in Ids |-> IF ws[i].batch \in due
                                  THEN IF IsTerminal(ws[i]) THEN ws[i].state ELSE "none"
                                  ELSE told[i]]
  BY DEF DriverStep, ReportBatches
<1>3. /\ batches' \in [Batches -> BatchStates] /\ reports' \in [Batches -> Nat]
      /\ told' \in [Ids -> Terminal \cup {"none"}]
  BY <1>1, <1>2 DEF DriverTypes, BatchStates, IsTerminal
<1>4. \/ disk' = Snapshot(ws, batches') /\ lostSaves' = lostSaves
      \/ disk' = disk /\ lostSaves' = lostSaves + 1 /\ lostSaves' \in 1..MaxDisturbances
  <2>1. Save(ws, batches')
    BY DEF DriverStep
  <2>. QED BY <2>1, SaveCases DEF DriverTypes
<1>5. \/ /\ lostSaves' = lostSaves
         /\ disk'.batches = batches'
         /\ \A i \in Ids : /\ disk'.workers[i].state = ws[i].state
                           /\ disk'.workers[i].batch = ws[i].batch
                           /\ disk'.workers[i].step = ws[i].step
         /\ disk' \in [workers : [Ids -> WorkerRecords], batches : [Batches -> BatchStates]]
      \/ disk' = disk /\ lostSaves' = lostSaves + 1 /\ lostSaves' \in 1..MaxDisturbances
  BY <1>1, <1>3, <1>4, SnapshotTyped
<1>6. DriverTypes'
  <2>1. \A i \in Ids : workers'[i].step <= Ceiling[i] /\ disk'.workers[i].step <= Ceiling[i]
    BY <1>1, <1>5 DEF DriverTypes
  <2>2. disk' \in [workers : [Ids -> WorkerRecords], batches : [Batches -> BatchStates]]
    BY <1>5 DEF DriverTypes
  <2>3. lostSaves' \in 0..MaxDisturbances
    BY <1>5 DEF DriverTypes
  <2>. QED BY <1>1, <1>3, <2>1, <2>2, <2>3 DEF DriverTypes
<1>7. Existing' = Existing
  BY <1>1 DEF Existing, Covers
<1>8. \A b \in Batches : batches'[b] = "none" <=> batches[b] = "none"
  BY <1>1, <1>2
<1>9. \A i \in Ids : workers'[i].batch = workers[i].batch
  BY <1>1 DEF Covers
<1>10. KnownWorkers'
  <2>1. \A i \in Existing : i \in Ids
    BY DEF Existing
  <2>. QED BY <1>1, <1>7, <1>8, <1>9, <2>1 DEF KnownWorkers
<1>11. FileFollows'
  <2>1. CASE disk' = disk /\ lostSaves' = lostSaves + 1 /\ lostSaves' \in 1..MaxDisturbances
    <3>1. \A i \in Ids : Covers(workers'[i], disk'.workers[i])
      BY <1>1, <2>1 DEF FileFollows, Covers
    <3>2. \A b \in Batches : \/ disk'.batches[b] = batches'[b]
                             \/ /\ lostSaves' > 0
                                /\ batches'[b] = "reported" /\ disk'.batches[b] = "open"
      BY <1>1, <1>2, <2>1 DEF FileFollows, DriverTypes
    <3>. QED BY <3>1, <3>2 DEF FileFollows
  <2>2. CASE /\ disk'.batches = batches'
             /\ \A i \in Ids : /\ disk'.workers[i].state = ws[i].state
                               /\ disk'.workers[i].batch = ws[i].batch
    BY <1>1, <2>2 DEF FileFollows, Covers
  <2>. QED BY <1>5, <2>1, <2>2
<1>12. Lossless'
  <2> SUFFICES ASSUME lostSaves' = 0
               PROVE  /\ \A i \in Ids : workers'[i].state \in Terminal
                                          => disk'.workers[i].state = workers'[i].state
                      /\ \A b \in Batches : reports'[b] = IF batches'[b] = "reported" THEN 1 ELSE 0
                      /\ \A i \in Ids : told'[i] \in Terminal => workers'[i].state = told'[i]
    BY DEF Lossless
  <2>1. /\ lostSaves = 0
        /\ \A i \in Ids : disk'.workers[i].state = ws[i].state
    BY <1>5
  <2>2. \A b \in Batches : reports'[b] = IF batches'[b] = "reported" THEN 1 ELSE 0
    BY <1>1, <1>2, <2>1 DEF Lossless
  <2>3. \A i \in Ids : told'[i] \in Terminal => workers'[i].state = told'[i]
    BY <1>1, <1>2, <2>1 DEF Lossless, Covers, Terminal
  <2>. QED BY <1>1, <2>1, <2>2, <2>3
<1>. QED BY <1>6, <1>10, <1>11, <1>12

-----------------------------------------------------------------------------
(* The steps, by what they do to the driver's state.                        *)

\* No state of a worker, no batch and no file changes.
Quiet ==
  /\ Evolves(workers')
  /\ \A i \in Ids : workers'[i].state = workers[i].state
  /\ UNCHANGED <<batches, nextId, nextBatch, disk, acked, told, reports, lostSaves>>

\* A handler that reports and saves.
Handles == Evolves(workers') /\ \E due \in SUBSET Batches : DriverStep(workers', due)

LEMMA QuietKeepsInv ==
  ASSUME DriverInv, Quiet
  PROVE  DriverInv'
<1> USE DEF DriverInv
<1>1. /\ workers' \in [Ids -> WorkerRecords]
      /\ \A i \in Ids : /\ workers'[i].step <= Ceiling[i]
                        /\ workers'[i].batch = workers[i].batch
                        /\ workers'[i].state = workers[i].state
      /\ UNCHANGED <<batches, nextId, nextBatch, disk, acked, told, reports, lostSaves>>
  BY DEF Quiet, Evolves, Covers
<1>2. Existing' = Existing /\ Existing \subseteq Ids
  BY <1>1 DEF Existing
<1>3. DriverTypes'
  BY <1>1 DEF DriverTypes
<1>4. KnownWorkers'
  BY <1>1, <1>2 DEF KnownWorkers
<1>5. FileFollows'
  BY <1>1 DEF FileFollows, Covers
<1>6. Lossless'
  BY <1>1 DEF Lossless
<1>. QED BY <1>3, <1>4, <1>5, <1>6

LEMMA SameMapEvolves ==
  ASSUME DriverTypes
  PROVE  Evolves(workers)
BY DEF DriverTypes, Evolves, Covers

(* A step that leaves the driver's variables alone is quiet.                *)
LEMMA IdleDriverIsQuiet ==
  ASSUME DriverTypes, UNCHANGED <<workers, batches, nextId, nextBatch, disk, acked, told,
                                  reports, lostSaves>>
  PROVE  Quiet
BY SameMapEvolves DEF Quiet, Evolves

LEMMA HandlesKeepsInv ==
  ASSUME DriverInv, SessionTypes, Handles
  PROVE  DriverInv'
BY DriverStepKeepsInv DEF Handles

-----------------------------------------------------------------------------
(* What the sessions do.                                                    *)

LEMMA PromptedTyped ==
  ASSUME SessionTypes, NEW S, Prompted(S)
  PROVE  turn' \in [Ids -> {"none", "running", "asking"}] /\ queue' \in [Ids -> Nat]
BY DEF SessionTypes, Prompted

LEMMA TurnEndsTyped ==
  ASSUME SessionTypes, NEW i \in Ids, NEW events \in Seq(Events), TurnEnds(i, events)
  PROVE  /\ turn' \in [Ids -> {"none", "running", "asking"}] /\ queue' \in [Ids -> Nat]
         /\ inbox' \in Seq(Events)
BY DEF SessionTypes, TurnEnds

LEMMA EventsTyped ==
  /\ \A i \in Ids : /\ Event("TurnComplete", i) \in Events /\ Event("Error", i) \in Events
                    /\ Event("ApprovalPending", i) \in Events
                    /\ Event("UserApproval", i) \in Events /\ Event("UserPrompt", i) \in Events
  /\ Event("GoalCancelled", 0) \in Events
BY DEF Event, Events

\* What is left of the broadcast once an event was read.
LEMMA TailTyped ==
  ASSUME NEW s \in Seq(Events), s # <<>>
  PROVE  Tail(s) \in Seq(Events)
OBVIOUS

LEMMA SessionSteps ==
  ASSUME IInv, NEW i \in Ids,
         \/ EndTurn(i) \/ GiveUpAsking(i) \/ Disturbed(i) \/ Lag \/ CancelGoal
  PROVE  Quiet /\ SessionTypes' /\ GrantFollowsResidency'
<1>1. DriverTypes /\ SessionTypes /\ GrantFollowsResidency
  BY DEF IInv, DriverInv
<1>2. UNCHANGED <<driverVars, acked, told, reports, lostSaves>>
  BY DEF EndTurn, GiveUpAsking, Disturbed, Lag, CancelGoal, FailTurn, AskApproval, AnswerCard,
     Send, StopTurn, history, bounds
<1>3. Quiet
  BY <1>1, <1>2, IdleDriverIsQuiet DEF driverVars
<1>4. GrantFollowsResidency'
  BY <1>1, <1>2 DEF GrantFollowsResidency, driverVars
<1>5. /\ sends' \in 0..MaxDisturbances /\ answers' \in 0..MaxDisturbances
      /\ stops' \in 0..MaxDisturbances /\ lags' \in 0..MaxDisturbances
      /\ restarts' \in 0..MaxRestarts
  <2>1. /\ sends' = sends \/ (Disturbable /\ sends' = sends + 1)
        /\ answers' = answers \/ (Disturbable /\ answers' = answers + 1)
        /\ stops' = stops \/ (Disturbable /\ stops' = stops + 1)
        /\ lags' = lags \/ (Disturbable /\ lags' = lags + 1)
        /\ restarts' = restarts
    BY DEF EndTurn, GiveUpAsking, Disturbed, Lag, CancelGoal, FailTurn, AskApproval, AnswerCard,
           Send, StopTurn, bounds
  <2>2. Disturbable => /\ sends + 1 \in 0..MaxDisturbances /\ answers + 1 \in 0..MaxDisturbances
                       /\ stops + 1 \in 0..MaxDisturbances /\ lags + 1 \in 0..MaxDisturbances
    BY <1>1, WorkerAssumption DEF SessionTypes, Disturbable, DriverTypes
  <2>. QED BY <1>1, <2>1, <2>2 DEF SessionTypes
<1>6. armed' \subseteq Ids
  BY <1>1, <1>2 DEF SessionTypes, driverVars
<1>7. /\ turn' \in [Ids -> {"none", "running", "asking"}] /\ queue' \in [Ids -> Nat]
      /\ inbox' \in Seq(Events)
  <2>1. CASE EndTurn(i)
    <3>1. <<Event("TurnComplete", i)>> \in Seq(Events)
      BY EventsTyped
    <3>. QED BY <1>1, <2>1, <3>1, TurnEndsTyped DEF EndTurn
  <2>2. CASE FailTurn(i)
    <3>1. <<Event("Error", i), Event("TurnComplete", i)>> \in Seq(Events)
      BY EventsTyped
    <3>. QED BY <1>1, <2>2, <3>1, TurnEndsTyped DEF FailTurn
  <2>3. CASE AskApproval(i)
    BY <1>1, <2>3, EventsTyped DEF AskApproval, SessionTypes
  <2>4. CASE AnswerCard(i)
    BY <1>1, <2>4, EventsTyped DEF AnswerCard, SessionTypes
  <2>5. CASE GiveUpAsking(i)
    BY <1>1, <2>5 DEF GiveUpAsking, SessionTypes
  <2>6. CASE Send(i)
    BY <1>1, <2>6, EventsTyped, PromptedTyped DEF Send, SessionTypes
  <2>7. CASE StopTurn(i)
    BY <1>1, <2>7 DEF StopTurn, Aborted, SessionTypes
  <2>8. CASE Lag
    BY <1>1, <2>8 DEF Lag, SessionTypes, sessionVars
  <2>9. CASE CancelGoal
    BY <1>1, <2>9, EventsTyped DEF CancelGoal, SessionTypes, sessionVars
  <2>. QED BY <2>1, <2>2, <2>3, <2>4, <2>5, <2>6, <2>7, <2>8, <2>9 DEF Disturbed
<1>. QED BY <1>3, <1>4, <1>5, <1>6, <1>7 DEF SessionTypes

-----------------------------------------------------------------------------
(* The driver's handlers.                                                   *)

(* Only open batches are due.                                               *)
LEMMA DueIsOpen ==
  ASSUME NEW ws, NEW expired
  PROVE  /\ Due(ws, expired) \in SUBSET Batches
         /\ Due(ws, expired) \subseteq {b \in Batches : batches[b] = "open"}
BY DEF Due

\* The sessions of S may be armed, given the map ws.
MayBeArmed(ws, S) ==
  S \subseteq Ids /\ \A i \in S : ws[i].yolo /\ ws[i].state \in {"Running", "Blocked", "Idle"}

(* The grants of an admission pass: those of before, and those of the       *)
(* workers it starts.                                                       *)
LEMMA AdmitArms ==
  ASSUME NEW ws \in [Ids -> WorkerRecords], NEW S, MayBeArmed(ws, S)
  PROVE  MayBeArmed(Admit(ws), S \cup {i \in Admitted(ws) : Admit(ws)[i].yolo})
<1>1. \A i \in Ids : /\ Started(ws[i]).state = "Running"
                     /\ Started(ws[i]).yolo = ws[i].yolo
  BY DEF Started, WorkerRecords
<1>. QED BY <1>1, AdmitStarts DEF MayBeArmed

LEMMA SettleStep ==
  ASSUME IInv, NEW ws, Evolves(ws), NEW grants, MayBeArmed(ws, grants),
         NEW rest \in Seq(Events), NEW next \in SUBSET Ids, NEW expired,
         Settle(ws, grants, rest, next, expired)
  PROVE  Handles /\ SessionTypes' /\ GrantFollowsResidency'
<1>1. SessionTypes
  BY DEF IInv
<1>2. ws \in [Ids -> WorkerRecords] /\ Admitted(ws) \in SUBSET Ids
  BY AdmitStarts DEF Evolves
<1>3. Handles
  <2>1. Evolves(Admit(ws))
    BY AdmitEvolves
  <2>2. workers' = Admit(ws) /\ DriverStep(Admit(ws), Due(Admit(ws), expired))
    BY DueIsOpen DEF Settle, DriverStep
  <2>. QED BY <2>1, <2>2, DueIsOpen DEF Handles
<1>4. MayBeArmed(workers', armed')
  BY <1>2, AdmitArms DEF Settle
<1>5. turn' \in [Ids -> {"none", "running", "asking"}] /\ queue' \in [Ids -> Nat]
  BY <1>1, PromptedTyped DEF Settle
<1>6. inbox' \in Seq(Events)
  <2>1. Prompts(next) \in Seq(Events) /\ Prompts(Admitted(ws)) \in Seq(Events)
    BY <1>2, PromptsTyped
  <2>2. inbox' = rest \o Prompts(next) \o Prompts(Admitted(ws))
    BY DEF Settle
  <2>. QED BY <2>1, <2>2
<1>. QED BY <1>1, <1>3, <1>4, <1>5, <1>6 DEF Settle, SessionTypes, GrantFollowsResidency, MayBeArmed

(* A handler that changes one record and saves.                             *)
LEMMA UpdateStep ==
  ASSUME IInv, inbox # <<>>, NEW i \in Ids, NEW w \in WorkerRecords,
         w.step <= Ceiling[i], Covers(w, workers[i]),
         w.yolo = workers[i].yolo,
         w.state \in {"Running", "Blocked"},
         Update(i, w)
  PROVE  Handles /\ SessionTypes' /\ GrantFollowsResidency'
<1>1. SessionTypes /\ DriverTypes /\ GrantFollowsResidency
  BY DEF IInv, DriverInv
<1>2. /\ workers' = [workers EXCEPT ![i] = w]
      /\ inbox' = Tail(inbox)
      /\ Save(workers', batches)
      /\ UNCHANGED <<batches, nextId, nextBatch, acked, told, reports, armed, turn, queue, sends,
                     answers, stops, lags, restarts>>
  BY DEF Update, sessionVars, history
<1>3. Evolves(workers')
  <2>1. workers' \in [Ids -> WorkerRecords]
    BY <1>1, <1>2 DEF DriverTypes
  <2>2. \A j \in Ids : workers'[j] = IF j = i THEN w ELSE workers[j]
    BY <1>1, <1>2 DEF DriverTypes
  <2>. QED BY <1>1, <2>1, <2>2 DEF Evolves, DriverTypes, Covers
<1>4. DriverStep(workers', {})
  <2>1. ReportBatches(workers', {})
    BY <1>1, <1>2 DEF ReportBatches, DriverTypes
  <2>. QED BY <1>2, <2>1 DEF DriverStep
<1>5. GrantFollowsResidency'
  BY <1>1, <1>2 DEF GrantFollowsResidency, DriverTypes, SessionTypes
<1>6. SessionTypes'
  BY <1>1, <1>2 DEF SessionTypes
<1>. QED BY <1>3, <1>4, <1>5, <1>6 DEF Handles

(* The record after a completed turn: the verdict never takes the worker    *)
(* past its ceiling.                                                        *)
LEMMA AppliedTyped ==
  ASSUME DriverTypes, NEW i \in Ids, workers[i].state \in {"Running", "Blocked"}
  PROVE  /\ Applied(i) \in WorkerRecords
         /\ Applied(i).step <= Ceiling[i]
         /\ Covers(Applied(i), workers[i])
         /\ Applied(i).yolo = workers[i].yolo
         /\ Applied(i).state \in {"Running", "Blocked", "Idle"} \cup Terminal
<1> DEFINE w == workers[i]
           over == [w EXCEPT !.inflight = FALSE, !.pending = "none"]
<1>1. w \in WorkerRecords /\ w.step <= Ceiling[i] /\ w.step \in Nat
  BY DEF DriverTypes, WorkerRecords
<1>2. Ceiling[i] \in Nat
  BY WorkerAssumption DEF Ids
<1>3. \/ Applied(i) \in {[over EXCEPT !.state = s] : s \in {"Done", "Blocked", "Idle", "Failed"}}
      \/ w.step < Ceiling[i] /\ Applied(i) = [over EXCEPT !.step = w.step + 1, !.inflight = TRUE]
  <2>1. w.pending \in {"continue", "done", "blocked", "yield", "none"}
    BY <1>1 DEF WorkerRecords, Verdicts
  <2>2. w.step >= Ceiling[i] \/ w.step < Ceiling[i]
    BY <1>1, <1>2
  <2>3. CASE w.pending = "continue" /\ w.step < Ceiling[i]
    <3>1. ~(w.step >= Ceiling[i])
      BY <1>1, <1>2, <2>3
    <3>. QED BY <2>3, <3>1 DEF Applied
  <2>4. CASE w.pending = "continue" /\ w.step >= Ceiling[i]
    <3>1. ~(w.step < Ceiling[i])
      BY <1>1, <1>2, <2>4
    <3>. QED BY <2>4, <3>1 DEF Applied
  <2>5. CASE w.pending # "continue"
    BY <2>1, <2>5 DEF Applied
  <2>. QED BY <2>2, <2>3, <2>4, <2>5
<1>4. CASE w.step < Ceiling[i] /\ Applied(i) = [over EXCEPT !.step = w.step + 1, !.inflight = TRUE]
  <2> DEFINE v == [over EXCEPT !.step = w.step + 1, !.inflight = TRUE]
  <2>0. /\ over \in WorkerRecords
        /\ over.batch = w.batch /\ over.state = w.state /\ over.yolo = w.yolo
    BY <1>1 DEF WorkerRecords
  <2>1. /\ v \in WorkerRecords /\ v.step = w.step + 1
        /\ v.batch = w.batch /\ v.state = w.state /\ v.yolo = w.yolo
    <3>1. w.step + 1 \in Nat
      BY <1>1
    <3> HIDE DEF over, w
    <3>. QED BY <2>0, <3>1 DEF WorkerRecords
  <2>2. v.step <= Ceiling[i]
    BY <1>1, <1>2, <1>4, <2>1
  <2> HIDE DEF v, over
  <2>. QED BY <1>4, <2>1, <2>2 DEF Covers, v
<1>5. ASSUME NEW s \in {"Done", "Blocked", "Idle", "Failed"},
             Applied(i) = [over EXCEPT !.state = s]
      PROVE  /\ Applied(i) \in WorkerRecords
             /\ Applied(i).step <= Ceiling[i]
             /\ Covers(Applied(i), workers[i])
             /\ Applied(i).yolo = workers[i].yolo
             /\ Applied(i).state \in {"Running", "Blocked", "Idle"} \cup Terminal
  BY <1>1, <1>5 DEF WorkerRecords, WorkerStates, Covers, Terminal
<1>. QED BY <1>3, <1>4, <1>5

(* One record changes and the others stay.                                  *)
LEMMA OneChangeEvolves ==
  ASSUME DriverTypes, NEW i \in Ids, NEW w \in WorkerRecords,
         w.step <= Ceiling[i], Covers(w, workers[i])
  PROVE  Evolves([workers EXCEPT ![i] = w])
<1> DEFINE ws == [workers EXCEPT ![i] = w]
<1>1. \A j \in Ids : ws[j] = IF j = i THEN w ELSE workers[j]
  BY DEF DriverTypes
<1>2. ws \in [Ids -> WorkerRecords]
  BY DEF DriverTypes
<1>3. \A j \in Ids : workers[j].step <= Ceiling[j] /\ Covers(workers[j], workers[j])
  BY DEF DriverTypes, Covers
<1> HIDE DEF ws
<1>4. Evolves(ws)
  BY <1>1, <1>2, <1>3 DEF Evolves
<1>. QED BY <1>4 DEF ws

LEMMA IgnoreStep ==
  ASSUME IInv, inbox # <<>>, Ignore
  PROVE  Quiet /\ SessionTypes' /\ GrantFollowsResidency'
<1>1. DriverTypes /\ SessionTypes /\ GrantFollowsResidency
  BY DEF IInv, DriverInv
<1>2. inbox' = Tail(inbox) /\ UNCHANGED <<driverVars, sessionVars, history, bounds>>
  BY DEF Ignore
<1>3. Quiet
  BY <1>1, <1>2, IdleDriverIsQuiet DEF driverVars, history, bounds
<1>4. SessionTypes'
  BY <1>1, <1>2 DEF SessionTypes, driverVars, sessionVars, bounds
<1>5. GrantFollowsResidency'
  BY <1>1, <1>2 DEF GrantFollowsResidency, driverVars
<1>. QED BY <1>3, <1>4, <1>5

LEMMA AdvanceStep ==
  ASSUME IInv, NEW i \in Ids, Advance(i)
  PROVE  (Quiet \/ Handles) /\ SessionTypes' /\ GrantFollowsResidency'
<1>1. DriverTypes /\ SessionTypes /\ GrantFollowsResidency /\ inbox # <<>>
  BY DEF IInv, DriverInv, Advance, Reads
<1>2. CASE workers[i].state \notin {"Running", "Blocked"}
  BY <1>1, <1>2, IgnoreStep DEF Advance
<1>3. CASE workers[i].state \in {"Running", "Blocked"}
  <2> DEFINE w == Applied(i)
             ws == [workers EXCEPT ![i] = w]
             grants == IF IsTerminal(w) THEN armed \ {i} ELSE armed
             next == IF w.inflight THEN {i} ELSE {}
  <2>1. Settle(ws, grants, Tail(inbox), next, {})
    BY <1>3 DEF Advance
  <2>2. Evolves(ws)
    BY <1>1, <1>3, AppliedTyped, OneChangeEvolves
  <2>3. MayBeArmed(ws, grants)
    <3>1. \A j \in Ids : ws[j] = IF j = i THEN w ELSE workers[j]
      BY <1>1 DEF DriverTypes
    <3>2. w.yolo = workers[i].yolo /\ w.state \in {"Running", "Blocked", "Idle"} \cup Terminal
      BY <1>1, <1>3, AppliedTyped
    <3> HIDE DEF w, ws
    <3>. QED BY <1>1, <3>1, <3>2 DEF MayBeArmed, GrantFollowsResidency, IsTerminal, SessionTypes
  <2>4. Tail(inbox) \in Seq(Events) /\ next \in SUBSET Ids
    BY <1>1 DEF SessionTypes
  <2> HIDE DEF w, ws, grants, next
  <2>. QED BY <2>1, <2>2, <2>3, <2>4, SettleStep
<1>. QED BY <1>2, <1>3

LEMMA ReadEventStep ==
  ASSUME IInv, NEW i \in Ids,
         WakeOnSend(i) \/ BlockOnApproval(i) \/ ResumeFromApproval(i)
  PROVE  (Quiet \/ Handles) /\ SessionTypes' /\ GrantFollowsResidency'
<1>1. DriverTypes /\ inbox # <<>>
  BY DEF IInv, DriverInv, WakeOnSend, BlockOnApproval, ResumeFromApproval, Reads
<1>2. workers[i] \in WorkerRecords /\ workers[i].step <= Ceiling[i]
  BY <1>1 DEF DriverTypes
<1>3. CASE Ignore
  BY <1>1, <1>3, IgnoreStep
<1>4. CASE Wakeable(workers[i]) /\ Update(i, Started(workers[i]))
  <2>1. /\ Started(workers[i]) \in WorkerRecords
        /\ Started(workers[i]).step <= Ceiling[i]
        /\ Covers(Started(workers[i]), workers[i])
        /\ Started(workers[i]).yolo = workers[i].yolo
        /\ Started(workers[i]).state = "Running"
    BY <1>2, <1>4 DEF Started, WorkerRecords, WorkerStates, Covers, Wakeable, Terminal
  <2>. QED BY <1>1, <1>4, <2>1, UpdateStep
<1>5. ASSUME NEW s \in {"Running", "Blocked"}, workers[i].state \in {"Running", "Blocked"},
             Update(i, [workers[i] EXCEPT !.state = s])
      PROVE  Handles /\ SessionTypes' /\ GrantFollowsResidency'
  <2> DEFINE w == [workers[i] EXCEPT !.state = s]
  <2>1. /\ w \in WorkerRecords
        /\ w.step <= Ceiling[i]
        /\ Covers(w, workers[i])
        /\ w.yolo = workers[i].yolo
        /\ w.state \in {"Running", "Blocked"}
    BY <1>2, <1>5 DEF WorkerRecords, WorkerStates, Covers, Terminal
  <2>2. Update(i, w)
    BY <1>5
  <2> HIDE DEF w
  <2>. QED BY <1>1, <2>1, <2>2, UpdateStep
<1>. QED BY <1>3, <1>4, <1>5 DEF WakeOnSend, BlockOnApproval, ResumeFromApproval

(* worker_report and an error only mark the record.                         *)
LEMMA MarkStep ==
  ASSUME IInv, NEW i \in Ids, NoteError(i) \/ \E v \in Verdicts : RecordReport(i, v)
  PROVE  Quiet /\ SessionTypes' /\ GrantFollowsResidency'
<1>1. DriverTypes /\ SessionTypes /\ GrantFollowsResidency
  BY DEF IInv, DriverInv
<1>2. workers[i] \in WorkerRecords /\ workers[i].step <= Ceiling[i]
  BY <1>1 DEF DriverTypes
<1>3. PICK w : /\ w \in WorkerRecords /\ w.step = workers[i].step
               /\ w.state = workers[i].state /\ w.batch = workers[i].batch
               /\ w.yolo = workers[i].yolo
               /\ workers' = [workers EXCEPT ![i] = w]
  <2>1. CASE NoteError(i)
    <3> DEFINE w == [workers[i] EXCEPT !.errored = TRUE]
    <3>1. /\ w \in WorkerRecords /\ w.step = workers[i].step
          /\ w.state = workers[i].state /\ w.batch = workers[i].batch /\ w.yolo = workers[i].yolo
      BY <1>2 DEF WorkerRecords
    <3>2. workers' = [workers EXCEPT ![i] = w]
      BY <2>1 DEF NoteError
    <3>. QED BY <3>1, <3>2
  <2>2. ASSUME NEW v \in Verdicts, RecordReport(i, v),
               workers[i].state \in {"Running", "Blocked"}
        PROVE  \E w : /\ w \in WorkerRecords /\ w.step = workers[i].step
                      /\ w.state = workers[i].state /\ w.batch = workers[i].batch
                      /\ w.yolo = workers[i].yolo
                      /\ workers' = [workers EXCEPT ![i] = w]
    <3> DEFINE w == [workers[i] EXCEPT !.pending = v]
    <3>1. /\ w \in WorkerRecords /\ w.step = workers[i].step
          /\ w.state = workers[i].state /\ w.batch = workers[i].batch /\ w.yolo = workers[i].yolo
      BY <1>2 DEF WorkerRecords
    <3>2. workers' = [workers EXCEPT ![i] = w]
      BY <2>2 DEF RecordReport
    <3>. QED BY <3>1, <3>2
  <2>3. ASSUME NEW v \in Verdicts, RecordReport(i, v),
               workers[i].state \notin {"Running", "Blocked"}
        PROVE  workers' = [workers EXCEPT ![i] = workers[i]]
    BY <1>1, <2>3 DEF RecordReport, DriverTypes
  <2>. QED BY <1>2, <2>1, <2>2, <2>3
<1>4. \A j \in Ids : workers'[j] = IF j = i THEN w ELSE workers[j]
  BY <1>1, <1>3 DEF DriverTypes
<1>5. /\ UNCHANGED <<batches, nextId, nextBatch, disk, acked, told, reports, lostSaves>>
      /\ UNCHANGED <<armed, turn, queue, sends, answers, stops, lags, restarts>>
      /\ inbox' = inbox \/ (inbox # <<>> /\ inbox' = Tail(inbox))
  BY DEF NoteError, RecordReport, Reads, history, sessionVars, bounds
<1>6. Quiet
  <2>1. Covers(w, workers[i])
    BY <1>3 DEF Covers
  <2>2. Evolves(workers')
    BY <1>1, <1>2, <1>3, <2>1, OneChangeEvolves
  <2>. QED BY <1>3, <1>4, <1>5, <2>2 DEF Quiet
<1>7. SessionTypes'
  <2>1. inbox \in Seq(Events)
    BY <1>1 DEF SessionTypes
  <2>2. inbox' \in Seq(Events)
    BY <1>5, <2>1, TailTyped
  <2>. QED BY <1>1, <1>5, <2>2 DEF SessionTypes
<1>8. GrantFollowsResidency'
  BY <1>1, <1>3, <1>4, <1>5 DEF GrantFollowsResidency, SessionTypes
<1>. QED BY <1>6, <1>7, <1>8

LEMMA CancelWorkersStep ==
  ASSUME IInv, NEW S \in SUBSET Ids, NEW rest \in Seq(Events), CancelWorkers(S, rest)
  PROVE  Handles /\ SessionTypes' /\ GrantFollowsResidency'
<1>1. DriverTypes /\ SessionTypes /\ GrantFollowsResidency
  BY DEF IInv, DriverInv
<1> DEFINE live == {i \in S : workers[i].state # "none" /\ ~IsTerminal(workers[i])}
           ws == [i \in Ids |-> IF i \in live THEN Cancelled(workers[i]) ELSE workers[i]]
           stop == {i \in live : workers[i].inflight}
<1>2. /\ workers' = Admit(ws)
      /\ armed' = (armed \ live) \cup {i \in Admitted(ws) : Admit(ws)[i].yolo}
      /\ turn' = [i \in Ids |-> IF i \in stop THEN "none"
                                ELSE IF i \in Admitted(ws) /\ turn[i] = "none" THEN "running"
                                ELSE turn[i]]
      /\ queue' = [i \in Ids |-> IF i \in stop THEN 0
                                 ELSE IF i \in Admitted(ws) /\ turn[i] # "none" THEN queue[i] + 1
                                 ELSE queue[i]]
      /\ inbox' = rest \o Prompts(Admitted(ws))
      /\ ReportBatches(Admit(ws), Due(Admit(ws), {}))
      /\ Save(Admit(ws), batches')
      /\ UNCHANGED <<nextId, nextBatch, acked, sends, answers, stops, lags, restarts>>
  BY DEF CancelWorkers
<1>3. \A i \in Ids : /\ Cancelled(workers[i]) \in WorkerRecords
                     /\ Cancelled(workers[i]).step = workers[i].step
                     /\ Cancelled(workers[i]).batch = workers[i].batch
                     /\ Cancelled(workers[i]).state = "Cancelled"
  <2>1. \A w \in WorkerRecords : /\ Cancelled(w) \in WorkerRecords
                                 /\ Cancelled(w).step = w.step
                                 /\ Cancelled(w).batch = w.batch
                                 /\ Cancelled(w).state = "Cancelled"
    BY DEF Cancelled, WorkerRecords, WorkerStates, Terminal
  <2>. QED BY <1>1, <2>1 DEF DriverTypes
<1>4. Evolves(ws)
  <2>1. ws \in [Ids -> WorkerRecords]
    BY <1>1, <1>3 DEF DriverTypes
  <2>2. \A i \in Ids : ws[i].step <= Ceiling[i] /\ Covers(ws[i], workers[i])
    BY <1>1, <1>3 DEF DriverTypes, Covers, IsTerminal, Terminal
  <2> HIDE DEF ws
  <2>. QED BY <2>1, <2>2 DEF Evolves
<1>5. MayBeArmed(ws, armed \ live)
  <2>1. \A i \in Ids \ live : ws[i] = workers[i]
    OBVIOUS
  <2> HIDE DEF ws, live
  <2>. QED BY <1>1, <2>1 DEF MayBeArmed, GrantFollowsResidency, SessionTypes
<1> HIDE DEF ws, live
<1>6. Handles
  <2>1. Evolves(Admit(ws))
    BY <1>4, AdmitEvolves
  <2>2. DriverStep(Admit(ws), Due(Admit(ws), {}))
    BY <1>2, DueIsOpen DEF DriverStep
  <2>. QED BY <1>2, <2>1, <2>2, DueIsOpen DEF Handles
<1>7. MayBeArmed(workers', armed')
  BY <1>2, <1>4, <1>5, AdmitArms DEF Evolves
<1>8. inbox' \in Seq(Events)
  <2>1. Admitted(ws) \in SUBSET Ids
    BY <1>4, AdmitStarts DEF Evolves
  <2>. QED BY <1>2, <2>1, PromptsTyped
<1>9. turn' \in [Ids -> {"none", "running", "asking"}] /\ queue' \in [Ids -> Nat]
  BY <1>1, <1>2 DEF SessionTypes
<1>. QED BY <1>1, <1>2, <1>6, <1>7, <1>8, <1>9 DEF SessionTypes, GrantFollowsResidency, MayBeArmed

LEMMA CancelCascadeStep ==
  ASSUME IInv, CancelCascade
  PROVE  (Quiet \/ Handles) /\ SessionTypes' /\ GrantFollowsResidency'
<1>1. inbox # <<>> /\ inbox \in Seq(Events)
  BY DEF CancelCascade, Reads, IInv, SessionTypes
<1>2. Tail(inbox) \in Seq(Events)
  BY <1>1
<1>. QED BY <1>1, <1>2, IgnoreStep, CancelWorkersStep DEF CancelCascade

(* The reviews of the tick.                                                 *)
LEMMA ReviewFailStep ==
  ASSUME IInv, NEW i \in Ids, ReviewFail(i)
  PROVE  Handles /\ SessionTypes' /\ GrantFollowsResidency'
<1>1. DriverTypes /\ SessionTypes /\ GrantFollowsResidency /\ workers[i].state = "Running"
  BY DEF IInv, DriverInv, ReviewFail
<1> DEFINE w == [workers[i] EXCEPT !.state = "Failed", !.inflight = FALSE]
           ws == [workers EXCEPT ![i] = w]
<1>2. [workers EXCEPT ![i].state = "Failed", ![i].inflight = FALSE] = ws
  BY <1>1 DEF DriverTypes, WorkerRecords
<1>3. Settle(ws, armed \ {i}, inbox, {}, {})
  BY <1>2 DEF ReviewFail
<1>4. w \in WorkerRecords /\ w.step <= Ceiling[i] /\ Covers(w, workers[i])
  <2>1. workers[i] \in WorkerRecords /\ workers[i].step <= Ceiling[i]
    BY <1>1 DEF DriverTypes
  <2>. QED BY <1>1, <2>1 DEF WorkerRecords, WorkerStates, Terminal, Covers
<1>5. \A j \in Ids \ {i} : ws[j] = workers[j]
  BY <1>1 DEF DriverTypes
<1> HIDE DEF w
<1>6. Evolves(ws)
  BY <1>1, <1>4, OneChangeEvolves
<1> HIDE DEF ws
<1>7. MayBeArmed(ws, armed \ {i})
  BY <1>1, <1>5 DEF MayBeArmed, GrantFollowsResidency, SessionTypes
<1>. QED BY <1>1, <1>3, <1>6, <1>7, SettleStep DEF SessionTypes

LEMMA ReviewParkStep ==
  ASSUME IInv, NEW i \in Ids, ReviewPark(i)
  PROVE  Handles /\ SessionTypes' /\ GrantFollowsResidency'
<1>1. DriverTypes /\ SessionTypes /\ GrantFollowsResidency
  BY DEF IInv, DriverInv
<1> DEFINE w == [workers[i] EXCEPT !.state = "Parked"]
<1>2. workers' = [workers EXCEPT ![i] = w]
  BY DEF ReviewPark
<1>3. w \in WorkerRecords /\ w.step <= Ceiling[i] /\ Covers(w, workers[i])
  <2>1. /\ workers[i] \in WorkerRecords /\ workers[i].step <= Ceiling[i]
        /\ workers[i].state \in {"Idle", "Blocked"}
    BY <1>1 DEF DriverTypes, ReviewPark
  <2>. QED BY <2>1 DEF WorkerRecords, WorkerStates, Terminal, Covers
<1>4. \A j \in Ids \ {i} : workers'[j] = workers[j]
  BY <1>1, <1>2 DEF DriverTypes
<1> HIDE DEF w
<1>5. Evolves(workers')
  BY <1>1, <1>2, <1>3, OneChangeEvolves
<1>6. Handles
  <2>1. DriverStep(workers', Due(workers', {}))
    BY DueIsOpen DEF DriverStep, ReviewPark
  <2>. QED BY <1>5, <2>1, DueIsOpen DEF Handles
<1>. QED BY <1>1, <1>4, <1>6 DEF ReviewPark, SessionTypes, GrantFollowsResidency, sessionVars

LEMMA DeadlineStep ==
  ASSUME IInv, NEW b \in Batches, DeadlinePasses(b)
  PROVE  Handles /\ SessionTypes' /\ GrantFollowsResidency'
<1>1. DriverTypes /\ SessionTypes /\ GrantFollowsResidency
  BY DEF IInv, DriverInv
<1>2. workers' = workers /\ DriverStep(workers, Due(workers, {b}))
  BY DueIsOpen DEF DriverStep, DeadlinePasses
<1>3. Evolves(workers)
  BY <1>1, SameMapEvolves
<1>. QED BY <1>1, <1>2, <1>3, DueIsOpen
     DEF Handles, DeadlinePasses, SessionTypes, GrantFollowsResidency, sessionVars

-----------------------------------------------------------------------------
(* task_fanout.                                                             *)

LEMMA MintedTyped ==
  ASSUME NEW b \in Batches, NEW yolo \in Yolo
  PROVE  /\ Minted(b, yolo) \in WorkerRecords
         /\ Minted(b, yolo).batch = b /\ Minted(b, yolo).state = "Queued"
         /\ Minted(b, yolo).step = 1
<1>1. yolo \in BOOLEAN /\ b \in 0..MaxWorkers
  BY WorkerAssumption DEF Batches
<1>2. NoWorker \in WorkerRecords
  BY WorkerAssumption DEF NoWorker, WorkerRecords, WorkerStates
<1>. QED BY <1>1, <1>2 DEF Minted, WorkerRecords, WorkerStates

(* The batch could not be persisted: only its ids are used up.              *)
LEMMA FanoutRefused ==
  ASSUME IInv, NEW n \in Sizes, nextId + n - 1 <= MaxWorkers,
         nextId' = nextId + n, nextBatch' = nextBatch + 1,
         Disturbable, lostSaves' = lostSaves + 1,
         UNCHANGED <<batches, workers, disk, acked, told, reports>>
  PROVE  DriverInv'
<1>1. DriverTypes /\ KnownWorkers /\ FileFollows
  BY DEF IInv, DriverInv
<1>2. /\ n \in Nat /\ n >= 1 /\ nextId \in Nat /\ nextBatch \in Nat /\ nextId >= 1 /\ nextBatch >= 1
      /\ lostSaves \in Nat /\ MaxWorkers \in Nat
  BY <1>1, WorkerAssumption DEF DriverTypes
<1>3. lostSaves' \in 1..MaxDisturbances
  BY WorkerAssumption DEF Disturbable, IInv, DriverInv, DriverTypes, SessionTypes
<1>4. nextBatch <= nextId
  BY <1>1 DEF KnownWorkers
<1>5. /\ nextId' \in 1..(MaxWorkers + 1) /\ nextBatch' \in 1..(MaxWorkers + 1)
      /\ nextBatch' <= nextId' /\ nextId' > nextId /\ nextBatch' > nextBatch
  BY <1>2, <1>4
<1>6. DriverTypes'
  BY <1>1, <1>3, <1>5 DEF DriverTypes
<1>7. KnownWorkers'
  <2>1. Existing' = Existing /\ Existing \subseteq Nat
    BY <1>2 DEF Existing, Ids
  <2>2. \A i \in Existing : i < nextId'
    BY <1>1, <1>2, <1>5, <2>1 DEF KnownWorkers
  <2>3. \A b \in Batches : b \in Nat /\ (b < nextBatch => b < nextBatch')
    BY <1>2 DEF Batches
  <2>. QED BY <1>1, <1>5, <2>1, <2>2, <2>3 DEF KnownWorkers
<1>8. FileFollows'
  BY <1>1, <1>3 DEF FileFollows
<1>9. Lossless'
  BY <1>3 DEF Lossless
<1>. QED BY <1>6, <1>7, <1>8, <1>9 DEF DriverInv

\* The batch is minted, persisted and admitted, and the last save that reached
\* the disk wrote the map before or after the admission.
FanoutKept(n, yolo, ws) ==
  /\ nextId + n - 1 <= MaxWorkers
  /\ ws = [i \in Ids |-> IF i \in nextId..(nextId + n - 1)
                           THEN Minted(nextBatch, yolo) ELSE workers[i]]
  /\ nextId' = nextId + n /\ nextBatch' = nextBatch + 1
  /\ batches' = [batches EXCEPT ![nextBatch] = "open"]
  /\ workers' = Admit(ws)
  /\ acked' = acked \cup nextId..(nextId + n - 1)
  /\ \/ disk' = Snapshot(Admit(ws), batches') /\ UNCHANGED lostSaves
     \/ Disturbable /\ lostSaves' = lostSaves + 1 /\ disk' = Snapshot(ws, batches')
  /\ UNCHANGED <<told, reports>>

LEMMA FanoutPersisted ==
  ASSUME IInv, NEW n \in Sizes, NEW yolo \in Yolo, NEW ws, FanoutKept(n, yolo, ws)
  PROVE  /\ DriverInv'
         /\ nextBatch \in Batches /\ batches[nextBatch] = "none"
         /\ ws \in [Ids -> WorkerRecords]
         /\ \A i \in Existing : ws[i] = workers[i]
         /\ \A i \in Ids : workers[i].state \in Terminal
                             => /\ workers'[i].state = workers[i].state
                                /\ disk'.workers[i].state = workers[i].state
<1> DEFINE new == nextId..(nextId + n - 1)
<1>1. DriverTypes /\ KnownWorkers /\ FileFollows /\ Lossless /\ SessionTypes
  BY DEF IInv, DriverInv
<1>2. /\ n \in Nat /\ n >= 1 /\ nextId \in Nat /\ nextBatch \in Nat /\ nextId >= 1 /\ nextBatch >= 1
      /\ lostSaves \in Nat /\ MaxWorkers \in Nat
  BY <1>1, WorkerAssumption DEF DriverTypes
<1>0. /\ nextId + n - 1 <= MaxWorkers
      /\ nextId' = nextId + n /\ nextBatch' = nextBatch + 1
      /\ acked' = acked \cup new
      /\ workers' = Admit(ws) /\ told' = told /\ reports' = reports
  BY DEF FanoutKept
<1>3. nextBatch <= nextId /\ nextBatch \in Batches
  BY <1>0, <1>1, <1>2 DEF KnownWorkers, Batches
<1>4. /\ nextId' \in 1..(MaxWorkers + 1) /\ nextBatch' \in 1..(MaxWorkers + 1)
      /\ nextBatch' <= nextId' /\ nextId' > nextId /\ nextBatch' > nextBatch
      /\ new \subseteq Ids /\ nextId \in new
      /\ \A i \in new : i >= nextId /\ i < nextId'
  BY <1>0, <1>2, <1>3 DEF Ids
<1>5. batches[nextBatch] = "none"
  BY <1>1, <1>2, <1>3 DEF KnownWorkers
<1>6. Existing \subseteq Ids /\ \A i \in Existing : i \notin new /\ i < nextId'
  BY <1>1, <1>2, <1>4 DEF KnownWorkers, Existing, Ids
<1>7. \A i \in Ids : i \notin Existing <=> workers[i].state = "none"
  BY DEF Existing
<1>8. /\ ws \in [Ids -> WorkerRecords]
      /\ \A i \in Ids : ws[i] = IF i \in new THEN Minted(nextBatch, yolo) ELSE workers[i]
  BY <1>1, <1>3, MintedTyped DEF DriverTypes, FanoutKept
<1>9. \A i \in Ids : ws[i].step <= Ceiling[i]
  <2>1. \A i \in Ids : Ceiling[i] \in Nat /\ Ceiling[i] >= 1
    BY WorkerAssumption DEF Ids
  <2>. QED BY <1>1, <1>3, <1>8, <2>1, MintedTyped DEF DriverTypes
<1> HIDE DEF new
<1>10. workers' \in [Ids -> WorkerRecords]
  BY <1>0, <1>8, AdmitStarts
<1>11. \A i \in Ids : /\ workers'[i].step = ws[i].step
                      /\ workers'[i].batch = ws[i].batch
                      /\ \/ workers'[i].state = ws[i].state
                         \/ ws[i].state = "Queued" /\ workers'[i].state = "Running"
  <2>1. \A i \in Ids : /\ Started(ws[i]).step = ws[i].step
                       /\ Started(ws[i]).batch = ws[i].batch
                       /\ Started(ws[i]).state = "Running"
    BY <1>8 DEF Started, WorkerRecords
  <2>. QED BY <1>0, <1>8, <2>1, AdmitStarts
<1>12. /\ batches' \in [Batches -> BatchStates]
       /\ \A b \in Batches : batches'[b] = IF b = nextBatch THEN "open" ELSE batches[b]
  BY <1>1, <1>3 DEF DriverTypes, BatchStates, FanoutKept
<1>13. PICK X \in [Ids -> WorkerRecords] :
          /\ disk' = Snapshot(X, batches')
          /\ \/ X = workers' /\ lostSaves' = lostSaves
             \/ X = ws /\ lostSaves' \in 1..MaxDisturbances
  <2>1. Disturbable /\ lostSaves' = lostSaves + 1 => lostSaves' \in 1..MaxDisturbances
    BY <1>1, WorkerAssumption DEF Disturbable, DriverTypes, SessionTypes
  <2>. QED BY <1>0, <1>8, <1>10, <2>1 DEF FanoutKept
<1>14. /\ disk' \in [workers : [Ids -> WorkerRecords], batches : [Batches -> BatchStates]]
       /\ disk'.batches = batches'
       /\ \A i \in Ids : /\ disk'.workers[i].state = X[i].state
                         /\ disk'.workers[i].batch = X[i].batch
                         /\ disk'.workers[i].step = X[i].step
  BY <1>12, <1>13, SnapshotTyped
<1>15. \A i \in Ids : /\ X[i].step = ws[i].step
                      /\ X[i].batch = ws[i].batch
                      /\ \/ X[i].state = workers'[i].state
                         \/ X[i].state = ws[i].state
  BY <1>11, <1>13
<1>16. DriverTypes'
  <2>1. \A i \in Ids : workers'[i].step <= Ceiling[i] /\ disk'.workers[i].step <= Ceiling[i]
    BY <1>9, <1>11, <1>14, <1>15
  <2>2. lostSaves' \in 0..MaxDisturbances
    BY <1>1, <1>13 DEF DriverTypes
  <2>3. acked' \subseteq Ids
    BY <1>0, <1>1, <1>4 DEF DriverTypes
  <2>. QED BY <1>0, <1>1, <1>4, <1>10, <1>12, <1>14, <2>1, <2>2, <2>3 DEF DriverTypes
<1>17. /\ \A i \in Ids : workers'[i].state = "none" <=> ws[i].state = "none"
       /\ \A i \in Ids : X[i].state = "none" <=> ws[i].state = "none"
       /\ \A i \in new : ws[i].state = "Queued" /\ ws[i].batch = nextBatch
       /\ \A i \in Existing : ws[i] = workers[i]
       /\ \A i \in Ids \ new : ws[i] = workers[i]
  BY <1>3, <1>4, <1>6, <1>8, <1>11, <1>15, MintedTyped
<1>18. Existing' = Existing \cup new
  BY <1>4, <1>6, <1>7, <1>17 DEF Existing
<1>19. KnownWorkers'
  <2>1. ASSUME NEW i \in Existing'
        PROVE  workers'[i].batch \in Batches /\ batches'[workers'[i].batch] # "none" /\ i < nextId'
    <3>1. CASE i \in new
      BY <1>3, <1>4, <1>11, <1>12, <1>17, <3>1
    <3>2. CASE i \in Existing
      BY <1>1, <1>6, <1>11, <1>12, <1>17, <3>2 DEF KnownWorkers
    <3>. QED BY <1>18, <2>1, <3>1, <3>2
  <2>2. ASSUME NEW b \in Batches, batches'[b] # "none"
        PROVE  b < nextBatch' /\ \E i \in Existing' : b <= i
    <3>1. CASE b = nextBatch
      BY <1>2, <1>3, <1>4, <1>18, <3>1
    <3>2. CASE b # nextBatch
      <4>1. b < nextBatch /\ \E i \in Existing : b <= i
        BY <1>1, <1>12, <2>2, <3>2 DEF KnownWorkers
      <4>2. b \in Nat
        BY <1>2 DEF Batches
      <4>. QED BY <1>2, <1>4, <1>18, <4>1, <4>2
    <3>. QED BY <3>1, <3>2
  <2>3. acked' \subseteq Existing'
    BY <1>0, <1>1, <1>18 DEF KnownWorkers
  <2>. QED BY <1>4, <2>1, <2>2, <2>3 DEF KnownWorkers
<1>20. FileFollows'
  <2>1. \A i \in Ids : Covers(workers'[i], disk'.workers[i])
    BY <1>11, <1>14, <1>15, <1>17 DEF Covers, Terminal
  <2>. QED BY <1>14, <2>1 DEF FileFollows
<1>21. Lossless'
  <2> SUFFICES ASSUME lostSaves' = 0
               PROVE  /\ \A i \in Ids : workers'[i].state \in Terminal
                                          => disk'.workers[i].state = workers'[i].state
                      /\ \A b \in Batches : reports'[b] = IF batches'[b] = "reported" THEN 1 ELSE 0
                      /\ \A i \in Ids : told'[i] \in Terminal => workers'[i].state = told'[i]
    BY DEF Lossless
  <2>1. lostSaves = 0 /\ X = workers'
    BY <1>13
  <2>2. \A b \in Batches : reports'[b] = IF batches'[b] = "reported" THEN 1 ELSE 0
    BY <1>0, <1>1, <1>5, <1>12, <2>1 DEF Lossless
  <2>3. \A i \in Ids : told'[i] \in Terminal => workers'[i].state = told'[i]
    <3>1. \A i \in Ids : told[i] \in Terminal => i \in Existing /\ workers[i].state = told[i]
      BY <1>1, <1>7, <2>1 DEF Lossless, Terminal
    <3>. QED BY <1>0, <1>11, <1>17, <3>1 DEF Terminal
  <2>. QED BY <1>14, <2>1, <2>2, <2>3
<1>22. \A i \in Ids : workers[i].state \in Terminal
                        => /\ workers'[i].state = workers[i].state
                           /\ disk'.workers[i].state = workers[i].state
  <2>1. \A i \in Ids : workers[i].state \in Terminal => i \in Existing
    BY <1>7 DEF Terminal
  <2>2. \A i \in Ids : workers[i].state \in Terminal => workers'[i].state = workers[i].state
    BY <1>11, <1>17, <2>1 DEF Terminal
  <2>. QED BY <1>14, <1>15, <1>17, <2>1, <2>2
<1>. QED BY <1>3, <1>5, <1>8, <1>16, <1>17, <1>19, <1>20, <1>21, <1>22 DEF DriverInv

\* A fanout is refused, or kept.
FanoutRejected(n) ==
  /\ nextId + n - 1 <= MaxWorkers
  /\ nextId' = nextId + n /\ nextBatch' = nextBatch + 1
  /\ Disturbable /\ lostSaves' = lostSaves + 1
  /\ UNCHANGED <<batches, workers, disk, acked, told, reports>>

MapAfterFanout(n, yolo) ==
  [i \in Ids |-> IF i \in nextId..(nextId + n - 1) THEN Minted(nextBatch, yolo) ELSE workers[i]]

LEMMA FanoutStep ==
  ASSUME IInv, NEW n \in Sizes, NEW yolo \in Yolo, Fanout(n, yolo)
  PROVE  /\ FanoutRejected(n) \/ FanoutKept(n, yolo, MapAfterFanout(n, yolo))
         /\ IInv'
<1> DEFINE ws == MapAfterFanout(n, yolo)
<1>1. SessionTypes /\ GrantFollowsResidency /\ DriverTypes
  BY DEF IInv, DriverInv
<1>2. UNCHANGED <<sends, answers, stops, lags, restarts>>
  BY DEF Fanout
<1>3. CASE /\ FanoutKept(n, yolo, ws)
           /\ armed' = armed \cup {i \in Admitted(ws) : Admit(ws)[i].yolo}
           /\ Prompted(Admitted(ws))
           /\ inbox' = inbox \o Prompts(Admitted(ws))
  <2> HIDE DEF ws
  <2>1. DriverInv' /\ ws \in [Ids -> WorkerRecords] /\ \A i \in Existing : ws[i] = workers[i]
    BY <1>3, FanoutPersisted
  <2>2. Admitted(ws) \in SUBSET Ids
    BY <2>1, AdmitStarts
  <2>3. MayBeArmed(ws, armed)
    <3>1. armed \subseteq Existing
      BY <1>1 DEF SessionTypes, GrantFollowsResidency, Existing
    <3>. QED BY <1>1, <2>1, <3>1 DEF MayBeArmed, SessionTypes, GrantFollowsResidency
  <2>4. MayBeArmed(Admit(ws), armed')
    BY <1>3, <2>1, <2>3, AdmitArms
  <2>5. GrantFollowsResidency' /\ armed' \subseteq Ids
    BY <1>3, <2>4 DEF FanoutKept, MayBeArmed, GrantFollowsResidency
  <2>6. inbox' \in Seq(Events)
    BY <1>1, <1>3, <2>2, PromptsTyped DEF SessionTypes
  <2>7. turn' \in [Ids -> {"none", "running", "asking"}] /\ queue' \in [Ids -> Nat]
    BY <1>1, <1>3, PromptedTyped
  <2>. QED BY <1>1, <1>2, <1>3, <2>1, <2>5, <2>6, <2>7 DEF IInv, SessionTypes, ws
<1>4. CASE FanoutRejected(n) /\ UNCHANGED <<armed, turn, queue, inbox>>
  <2>1. DriverInv'
    BY <1>4, FanoutRefused DEF FanoutRejected
  <2>2. SessionTypes'
    BY <1>1, <1>2, <1>4 DEF SessionTypes
  <2>3. GrantFollowsResidency'
    BY <1>1, <1>4 DEF GrantFollowsResidency, FanoutRejected
  <2>. QED BY <1>4, <2>1, <2>2, <2>3 DEF IInv
<1>5. \/ /\ FanoutKept(n, yolo, ws)
         /\ armed' = armed \cup {i \in Admitted(ws) : Admit(ws)[i].yolo}
         /\ Prompted(Admitted(ws))
         /\ inbox' = inbox \o Prompts(Admitted(ws))
      \/ FanoutRejected(n) /\ UNCHANGED <<armed, turn, queue, inbox>>
  BY DEF Fanout, FanoutKept, FanoutRejected, MapAfterFanout, sessionVars
<1>. QED BY <1>3, <1>4, <1>5

-----------------------------------------------------------------------------
(* A restart.                                                               *)

(* hydrate_workers, hydrate_batches: the map, the ledger and the counters    *)
(* that come back.                                                          *)
LEMMA ReloadTyped ==
  ASSUME DriverTypes, Reload
  PROVE  /\ workers' \in [Ids -> WorkerRecords]
         /\ \A i \in Ids : /\ workers'[i].step = disk.workers[i].step
                           /\ Covers(workers'[i], disk.workers[i])
                           /\ workers'[i].state \in Terminal
                                => disk.workers[i].state = workers'[i].state
         /\ batches' = disk.batches
         /\ nextId' \in 1..(MaxWorkers + 1) /\ nextBatch' \in 1..(MaxWorkers + 1)
         /\ \A i \in Ids : disk.workers[i].state # "none" => i < nextId'
         /\ \A b \in Batches : disk.batches[b] # "none" => b < nextBatch'
         /\ nextBatch' = 1 \/ (nextBatch' - 1 \in Batches /\ disk.batches[nextBatch' - 1] # "none")
<1>1. /\ disk.workers \in [Ids -> WorkerRecords] /\ disk.batches \in [Batches -> BatchStates]
      /\ MaxWorkers \in Nat
  BY WorkerAssumption DEF DriverTypes
<1>2. \A w \in WorkerRecords : /\ ParkedForm(w) \in WorkerRecords
                               /\ ParkedForm(w).step = w.step
                               /\ Covers(ParkedForm(w), w)
                               /\ ParkedForm(w).state \in Terminal => w.state = ParkedForm(w).state
  BY DEF ParkedForm, WorkerRecords, WorkerStates, Covers, Terminal
<1>3. /\ workers' \in [Ids -> WorkerRecords]
      /\ \A i \in Ids : /\ workers'[i].step = disk.workers[i].step
                        /\ Covers(workers'[i], disk.workers[i])
                        /\ workers'[i].state \in Terminal
                             => disk.workers[i].state = workers'[i].state
  <2>1. workers' = [i \in Ids |-> ParkedForm(disk.workers[i])]
    BY DEF Reload
  <2>2. \A i \in Ids : disk.workers[i] \in WorkerRecords
    BY <1>1
  <2>. QED BY <1>2, <2>1, <2>2
<1> DEFINE I == {i \in Ids : disk.workers[i].state # "none"}
           B == {b \in Batches : disk.batches[b] # "none"}
           topId(n) == /\ n = 0 \/ disk.workers[n].state # "none"
                       /\ \A i \in Ids : disk.workers[i].state # "none" => i <= n
           topBatch(n) == /\ n = 0 \/ disk.batches[n] # "none"
                          /\ \A b \in Batches : disk.batches[b] # "none" => b <= n
<1>4. \E n \in 0..MaxWorkers : topId(n)
  <2>1. I \subseteq 1..MaxWorkers
    BY DEF Ids
  <2>2. PICK n \in 0..MaxWorkers : /\ n = 0 \/ n \in I
                                   /\ \A i \in I : i <= n
    <3> HIDE DEF I
    <3>. QED BY <1>1, <2>1, GreatestId
  <2>. QED BY <2>2
<1>5. \E n \in 0..MaxWorkers : topBatch(n)
  <2>1. B \subseteq 1..MaxWorkers
    BY DEF Batches
  <2>2. PICK n \in 0..MaxWorkers : /\ n = 0 \/ n \in B
                                   /\ \A b \in B : b <= n
    <3> HIDE DEF B
    <3>. QED BY <1>1, <2>1, GreatestId
  <2>. QED BY <2>2
<1>6. PICK n \in 0..MaxWorkers : nextId' = 1 + n /\ topId(n)
  <2>1. nextId' = 1 + (CHOOSE n \in 0..MaxWorkers : topId(n))
    BY DEF Reload
  <2> HIDE DEF topId
  <2>. QED BY <1>4, <2>1
<1>7. PICK m \in 0..MaxWorkers : nextBatch' = 1 + m /\ topBatch(m)
  <2>1. nextBatch' = 1 + (CHOOSE m \in 0..MaxWorkers : topBatch(m))
    BY DEF Reload
  <2> HIDE DEF topBatch
  <2>. QED BY <1>5, <2>1
<1>8. nextId' \in 1..(MaxWorkers + 1) /\ \A i \in Ids : disk.workers[i].state # "none" => i < nextId'
  BY <1>1, <1>6 DEF Ids
<1>9. /\ nextBatch' \in 1..(MaxWorkers + 1)
      /\ \A b \in Batches : disk.batches[b] # "none" => b < nextBatch'
      /\ nextBatch' = 1 \/ (nextBatch' - 1 \in Batches /\ disk.batches[nextBatch' - 1] # "none")
  <2>1. nextBatch' - 1 = m
    BY <1>1, <1>7
  <2>2. m # 0 => m \in Batches
    BY <1>1 DEF Batches
  <2>. QED BY <1>1, <1>7, <2>1, <2>2 DEF Batches
<1>. QED BY <1>3, <1>8, <1>9 DEF Reload

LEMMA RestartStep ==
  ASSUME IInv, Restart
  PROVE  IInv'
<1>1. SessionTypes /\ DriverTypes /\ KnownWorkers /\ FileFollows /\ Lossless
  BY DEF IInv, DriverInv
<1>2. /\ Reload /\ armed' = {}
      /\ turn' = [i \in Ids |-> "none"] /\ queue' = [i \in Ids |-> 0] /\ inbox' = <<>>
      /\ restarts < MaxRestarts /\ restarts' = restarts + 1
      /\ UNCHANGED <<disk, acked, told, reports, sends, answers, stops, lags, lostSaves>>
  BY DEF Restart, history
<1>3. /\ workers' \in [Ids -> WorkerRecords]
      /\ \A i \in Ids : /\ workers'[i].step = disk.workers[i].step
                        /\ Covers(workers'[i], disk.workers[i])
                        /\ workers'[i].state \in Terminal
                             => disk.workers[i].state = workers'[i].state
      /\ batches' = disk.batches
      /\ nextId' \in 1..(MaxWorkers + 1) /\ nextBatch' \in 1..(MaxWorkers + 1)
      /\ \A i \in Ids : disk.workers[i].state # "none" => i < nextId'
      /\ \A b \in Batches : disk.batches[b] # "none" => b < nextBatch'
      /\ nextBatch' = 1 \/ (nextBatch' - 1 \in Batches /\ disk.batches[nextBatch' - 1] # "none")
  BY <1>1, <1>2, ReloadTyped
<1>4. DriverTypes'
  BY <1>1, <1>2, <1>3 DEF DriverTypes
<1>5. SessionTypes'
  BY <1>1, <1>2, WorkerAssumption DEF SessionTypes
<1>6. GrantFollowsResidency'
  BY <1>2 DEF GrantFollowsResidency
<1>7. /\ Existing' = Existing /\ Existing \subseteq Ids
      /\ \A i \in Ids : disk.workers[i].state # "none" <=> i \in Existing
      /\ \A i \in Ids : workers'[i].batch = workers[i].batch
  BY <1>1, <1>3 DEF Existing, FileFollows, Covers
<1>8. \A b \in Batches : batches'[b] # "none" <=> batches[b] # "none"
  BY <1>1, <1>3 DEF FileFollows
<1>9. KnownWorkers'
  <2>1. nextBatch' <= nextId'
    <3>1. CASE nextBatch' = 1
      BY <1>3, <3>1, WorkerAssumption
    <3>2. CASE nextBatch' - 1 \in Batches /\ disk.batches[nextBatch' - 1] # "none"
      <4>1. PICK i \in Existing : nextBatch' - 1 <= i
        BY <1>1, <1>3, <1>8, <3>2 DEF KnownWorkers
      <4>2. i < nextId' /\ i \in Nat
        BY <1>3, <1>7, WorkerAssumption DEF Ids
      <4>3. nextBatch' \in Nat /\ nextId' \in Nat
        BY <1>3, WorkerAssumption
      <4>4. \A x, y, z \in Nat : x - 1 <= z /\ z < y => x <= y
        OBVIOUS
      <4>. QED BY <4>1, <4>2, <4>3, <4>4, Zenon
    <3>. QED BY <1>3, <3>1, <3>2
  <2>2. \A i \in Existing' : /\ workers'[i].batch \in Batches
                             /\ batches'[workers'[i].batch] # "none" /\ i < nextId'
    BY <1>1, <1>3, <1>7, <1>8 DEF KnownWorkers
  <2>3. \A b \in Batches : batches'[b] # "none" => b < nextBatch' /\ \E i \in Existing' : b <= i
    BY <1>1, <1>3, <1>7, <1>8 DEF KnownWorkers
  <2>. QED BY <1>1, <1>2, <1>7, <2>1, <2>2, <2>3 DEF KnownWorkers
<1>10. FileFollows'
  BY <1>2, <1>3 DEF FileFollows
<1>11. Lossless'
  <2> SUFFICES ASSUME lostSaves = 0
               PROVE  /\ \A i \in Ids : workers'[i].state \in Terminal
                                          => disk'.workers[i].state = workers'[i].state
                      /\ \A b \in Batches : reports'[b] = IF batches'[b] = "reported" THEN 1 ELSE 0
                      /\ \A i \in Ids : told'[i] \in Terminal => workers'[i].state = told'[i]
    BY <1>2 DEF Lossless
  <2>1. \A b \in Batches : batches'[b] = batches[b]
    BY <1>1, <1>3 DEF FileFollows
  <2>2. \A i \in Ids : told[i] \in Terminal => disk.workers[i].state = told[i]
    BY <1>1 DEF Lossless
  <2>3. \A i \in Ids : told'[i] \in Terminal => workers'[i].state = told'[i]
    BY <1>2, <1>3, <2>2 DEF Covers
  <2>. QED BY <1>1, <1>2, <1>3, <2>1, <2>3 DEF Lossless
<1>. QED BY <1>4, <1>5, <1>6, <1>9, <1>10, <1>11 DEF IInv, DriverInv

-----------------------------------------------------------------------------
(* The invariant holds, and what every step may do.                         *)

(* Every step is quiet, a handler, a fanout or a restart.                   *)
LEMMA StepKinds ==
  ASSUME IInv, Next
  PROVE  /\ IInv'
         /\ \/ Quiet \/ Handles \/ Restart
            \/ \E n \in Sizes, yolo \in Yolo :
                 FanoutRejected(n) \/ FanoutKept(n, yolo, MapAfterFanout(n, yolo))
<1>1. ASSUME NEW n \in Sizes, NEW yolo \in Yolo, Fanout(n, yolo)
      PROVE  IInv' /\ (FanoutRejected(n) \/ FanoutKept(n, yolo, MapAfterFanout(n, yolo)))
  BY <1>1, FanoutStep
<1>2. CASE Restart
  BY <1>2, RestartStep
<1>3. CASE (Quiet \/ Handles) /\ SessionTypes' /\ GrantFollowsResidency'
  <2>1. DriverInv'
    BY <1>3, QuietKeepsInv, HandlesKeepsInv DEF IInv
  <2>. QED BY <1>3, <2>1 DEF IInv
<1>4. ASSUME NEW i \in Ids,
             \/ EndTurn(i) \/ GiveUpAsking(i) \/ Disturbed(i)
             \/ Advance(i) \/ WakeOnSend(i) \/ BlockOnApproval(i) \/ ResumeFromApproval(i)
             \/ NoteError(i) \/ \E v \in Verdicts : RecordReport(i, v)
             \/ ReviewFail(i) \/ ReviewPark(i)
      PROVE  (Quiet \/ Handles) /\ SessionTypes' /\ GrantFollowsResidency'
  BY <1>4, SessionSteps, AdvanceStep, ReadEventStep, MarkStep, ReviewFailStep, ReviewParkStep
<1>5. ASSUME NEW S \in SUBSET Ids, CancelRequest(S)
      PROVE  Handles /\ SessionTypes' /\ GrantFollowsResidency'
  BY <1>5, CancelWorkersStep DEF CancelRequest, IInv, SessionTypes
<1>6. ASSUME NEW b \in Batches, DeadlinePasses(b)
      PROVE  Handles /\ SessionTypes' /\ GrantFollowsResidency'
  BY <1>6, DeadlineStep
<1>7. CASE Lag \/ CancelGoal
  <2>1. 1 \in Ids
    BY WorkerAssumption DEF Ids
  <2>. QED BY <1>3, <1>7, <2>1, SessionSteps
<1>8. CASE CancelCascade
  BY <1>3, <1>8, CancelCascadeStep
<1>9. /\ \A i \in Ids : {i} \in SUBSET Ids
      /\ \A b \in Batches : Members(workers, b) \in SUBSET Ids
  BY DEF Members
<1>10. CASE Turns \/ Tick \/ ReadEvent
  BY <1>3, <1>4, <1>6, <1>8, <1>10 DEF Turns, Tick, ReadEvent
<1>11. CASE \/ \E i \in Ids : \/ Disturbed(i) \/ CancelRequest({i})
                              \/ \E v \in Verdicts : RecordReport(i, v)
            \/ \E b \in Batches : CancelRequest(Members(workers, b))
  BY <1>3, <1>4, <1>5, <1>9, <1>11
<1>. QED BY <1>1, <1>2, <1>7, <1>10, <1>11 DEF Next

LEMMA StutterInv ==
  ASSUME IInv, UNCHANGED vars
  PROVE  IInv'
<1>1. UNCHANGED <<workers, batches, nextId, nextBatch, disk, armed, turn, queue, inbox, acked, told,
                  reports, sends, answers, stops, lags, lostSaves, restarts>>
  BY DEF vars
<1>2. DriverInv'
  BY <1>1 DEF IInv, DriverInv, DriverTypes, KnownWorkers, Existing, FileFollows, Lossless
<1>3. SessionTypes' /\ GrantFollowsResidency'
  BY <1>1 DEF IInv, SessionTypes, GrantFollowsResidency
<1>. QED BY <1>2, <1>3 DEF IInv

(* The inductive invariant.                                                 *)
THEOREM Invariance == Spec => []IInv
<1>1. IInv /\ [Next]_vars => IInv'
  BY StepKinds, StutterInv
<1>. QED BY <1>1, InitInv, PTL DEF Spec

(* The driver's maps, the worker file and the sessions have their types,    *)
(* and no worker is ever past the ceiling of its steps, in memory or on     *)
(* disk.                                                                    *)
THEOREM TypeCorrect == Spec => []TypeOK
<1>1. IInv => TypeOK
  BY TypeParts DEF IInv, DriverInv
<1>. QED BY <1>1, Invariance, PTL

(* Every id task_fanout gave a conductor is in the worker file, with its    *)
(* batch, whichever saves fail later and through every restart.             *)
THEOREM AckedStayDurable == Spec => []AckedIsDurable
<1>1. ASSUME IInv PROVE AckedIsDurable
  <2>1. DriverTypes /\ KnownWorkers /\ FileFollows
    BY <1>1 DEF IInv, DriverInv
  <2>2. ASSUME NEW i \in acked
        PROVE  disk.workers[i].state # "none" /\ disk.batches[disk.workers[i].batch] # "none"
    <3>1. /\ i \in Ids /\ workers[i].state # "none" /\ workers[i].batch \in Batches
          /\ batches[workers[i].batch] # "none"
      BY <2>1 DEF KnownWorkers, Existing
    <3>2. Covers(workers[i], disk.workers[i])
      BY <2>1, <3>1 DEF FileFollows
    <3>3. disk.batches[workers[i].batch] # "none"
      BY <2>1, <3>1 DEF FileFollows
    <3>. QED BY <3>1, <3>2, <3>3 DEF Covers
  <2>. QED BY <2>2 DEF AckedIsDurable
<1>2. IInv => AckedIsDurable
  BY <1>1
<1>. QED BY <1>2, Invariance, PTL

(* No worker session stays in the auto-approve set once its worker is       *)
(* parked, finished or not yet admitted, whichever handler took it there.   *)
THEOREM GrantsFollowResidency == Spec => []GrantFollowsResidency
<1>1. IInv => GrantFollowsResidency
  BY DEF IInv
<1>. QED BY <1>1, Invariance, PTL

(* check_batches reports a batch once, over restarts too, and what it said  *)
(* of a finished worker stays true, unless a save was lost.                 *)
THEOREM ReportsAreTruthful == Spec => []OneTruthfulReport
<1>1. ASSUME IInv PROVE OneTruthfulReport
  BY <1>1 DEF IInv, DriverInv, Lossless, OneTruthfulReport
<1>2. IInv => OneTruthfulReport
  BY <1>1
<1>. QED BY <1>2, Invariance, PTL

-----------------------------------------------------------------------------
(* Outcomes.                                                                *)

(* One step and an outcome on disk.                                         *)
LEMMA OutcomeStep ==
  ASSUME IInv, Next, NEW i \in Ids, disk.workers[i].state \in Terminal
  PROVE  /\ disk'.workers[i].state = disk.workers[i].state
         /\ workers'[i].state = disk.workers[i].state
<1>1. /\ DriverTypes /\ SessionTypes /\ Covers(workers[i], disk.workers[i])
      /\ workers[i].state = disk.workers[i].state
  BY DEF IInv, DriverInv, FileFollows, Covers
<1>2. CASE Quiet
  BY <1>1, <1>2 DEF Quiet
<1>3. CASE Handles
  <2>1. PICK due \in SUBSET Batches : DriverStep(workers', due)
    BY <1>3 DEF Handles
  <2>2. /\ workers' \in [Ids -> WorkerRecords]
        /\ workers'[i].state = disk.workers[i].state
    BY <1>1, <1>3 DEF Handles, Evolves, Covers
  <2>3. batches' \in [Batches -> BatchStates]
    BY <1>1, <2>1 DEF DriverStep, ReportBatches, DriverTypes, BatchStates
  <2>4. disk' = Snapshot(workers', batches') \/ disk' = disk
    <3>1. Save(workers', batches')
      BY <2>1 DEF DriverStep
    <3>. QED BY <1>1, <3>1, SaveCases DEF DriverTypes
  <2>. QED BY <2>2, <2>3, <2>4, SnapshotTyped
<1>4. CASE Restart
  BY <1>1, <1>4, ReloadTyped DEF Restart, Covers
<1>5. ASSUME NEW n \in Sizes, FanoutRejected(n)
      PROVE  /\ disk'.workers[i].state = disk.workers[i].state
             /\ workers'[i].state = disk.workers[i].state
  BY <1>1, <1>5 DEF FanoutRejected
<1>6. ASSUME NEW n \in Sizes, NEW yolo \in Yolo, FanoutKept(n, yolo, MapAfterFanout(n, yolo))
      PROVE  /\ disk'.workers[i].state = disk.workers[i].state
             /\ workers'[i].state = disk.workers[i].state
  BY <1>1, <1>6, FanoutPersisted
<1>. QED BY <1>2, <1>3, <1>4, <1>5, <1>6, StepKinds

(* An outcome that reached the worker file is never changed: not by a late  *)
(* completion, send, answer, cancel or review, nor by a restart.            *)
THEOREM OutcomesAreFinal == Spec => TerminalIsForever
<1>1. IInv /\ [Next]_vars =>
        [\A i \in Ids : disk.workers[i].state \in Terminal =>
           /\ disk'.workers[i].state = disk.workers[i].state
           /\ workers'[i].state = disk.workers[i].state]_vars
  BY OutcomeStep
<1>. QED BY <1>1, Invariance, PTL DEF Spec, TerminalIsForever

-----------------------------------------------------------------------------
(* The ledger.                                                              *)

(* Only a restart counts as one.                                            *)
LEMMA RestartsCounted ==
  ASSUME Next
  PROVE  Restart \/ restarts' = restarts
<1>1. ASSUME NEW n \in Sizes, NEW yolo \in Yolo, Fanout(n, yolo) PROVE restarts' = restarts
  BY <1>1 DEF Fanout
<1>2. ASSUME NEW S, NEW rest, CancelWorkers(S, rest) PROVE restarts' = restarts
  BY <1>2 DEF CancelWorkers
<1>3. ASSUME NEW ws, NEW grants, NEW rest, NEW next, NEW expired,
             Settle(ws, grants, rest, next, expired)
      PROVE  restarts' = restarts
  BY <1>3 DEF Settle
<1>4. ASSUME NEW i \in Ids, NEW w, Update(i, w) PROVE restarts' = restarts
  BY <1>4 DEF Update
<1>5. ASSUME Ignore PROVE restarts' = restarts
  BY <1>5 DEF Ignore, bounds
<1>6. ASSUME NEW i \in Ids, Disturbed(i) \/ EndTurn(i) \/ GiveUpAsking(i) PROVE restarts' = restarts
  BY <1>6 DEF Disturbed, EndTurn, GiveUpAsking, FailTurn, AskApproval, AnswerCard, Send, StopTurn,
     bounds
<1>7. ASSUME NEW i \in Ids, NoteError(i) \/ \E v \in Verdicts : RecordReport(i, v)
      PROVE  restarts' = restarts
  BY <1>7 DEF NoteError, RecordReport, bounds
<1>8. ASSUME NEW i \in Ids, \/ Advance(i) \/ WakeOnSend(i) \/ BlockOnApproval(i)
                            \/ ResumeFromApproval(i)
      PROVE  restarts' = restarts
  BY <1>3, <1>4, <1>5, <1>8 DEF Advance, WakeOnSend, BlockOnApproval, ResumeFromApproval
<1>9. ASSUME Lag \/ CancelGoal \/ CancelCascade PROVE restarts' = restarts
  BY <1>2, <1>5, <1>9 DEF Lag, CancelGoal, CancelCascade
<1>10. ASSUME NEW i \in Ids, ReviewFail(i) \/ ReviewPark(i) PROVE restarts' = restarts
  BY <1>3, <1>10 DEF ReviewFail, ReviewPark
<1>11. ASSUME NEW b \in Batches, DeadlinePasses(b) PROVE restarts' = restarts
  BY <1>11 DEF DeadlinePasses
<1>12. ASSUME NEW S, CancelRequest(S) PROVE restarts' = restarts
  BY <1>2, <1>12 DEF CancelRequest
<1>. QED BY <1>1, <1>6, <1>7, <1>8, <1>9, <1>10, <1>11, <1>12 DEF Next, Turns, Tick, ReadEvent

LEMMA LedgerInit == Init => Ledger!Init
BY DEF Init, Ledger!Init

(* A save that is lost only ever turns the flag on.                         *)
LEMMA LossOnlyGrows ==
  ASSUME lostSaves \in Nat, lostSaves' = lostSaves \/ lostSaves' \in Nat \ {0}
  PROVE  (lostSaves' > 0) = (lostSaves > 0) \/ (lostSaves' > 0) = TRUE
OBVIOUS

LEMMA LedgerStep ==
  ASSUME IInv, [Next]_vars
  PROVE  [Ledger!Next]_(Ledger!vars)
<1>1. /\ DriverTypes /\ SessionTypes /\ FileFollows /\ lostSaves \in Nat
      /\ batches \in [Batches -> BatchStates]
  BY WorkerAssumption DEF IInv, DriverInv, DriverTypes
<1>2. CASE UNCHANGED vars
  BY <1>2 DEF vars, Ledger!vars
<1>3. CASE Quiet /\ restarts' = restarts
  BY <1>3 DEF Quiet, Ledger!vars
<1>4. CASE Handles /\ restarts' = restarts
  <2>1. PICK due \in SUBSET Batches : DriverStep(workers', due)
    BY <1>4 DEF Handles
  <2>2. lostSaves' = lostSaves \/ lostSaves' \in Nat \ {0}
    <3>1. Save(workers', batches')
      BY <2>1 DEF DriverStep
    <3>. QED BY <1>1, <3>1 DEF Save
  <2>3. /\ \A b \in due : batches[b] = "open"
        /\ batches' = [b \in Batches |-> IF b \in due THEN "reported" ELSE batches[b]]
    BY <2>1 DEF DriverStep, ReportBatches
  <2>4. Ledger!MayLose
    BY <1>1, <2>2, LossOnlyGrows DEF Ledger!MayLose
  <2>5. CASE due = {}
    <3>1. batches' = batches
      BY <1>1, <2>3, <2>5
    <3>2. CASE lostSaves' = lostSaves
      BY <1>4, <3>1, <3>2 DEF Ledger!vars
    <3>3. CASE lostSaves' \in Nat \ {0}
      <4>1. Ledger!LoseSave
        BY <1>4, <3>1, <3>3 DEF Ledger!LoseSave
      <4>. QED BY <4>1 DEF Ledger!Next
    <3>. QED BY <2>2, <3>2, <3>3
  <2>6. CASE due # {}
    <3>1. Ledger!Report(due)
      BY <1>4, <2>3, <2>4, <2>6 DEF Ledger!Report
    <3>. QED BY <3>1 DEF Ledger!Next
  <2>. QED BY <2>5, <2>6
<1>5. CASE Restart
  <2> DEFINE S == {b \in Batches : disk.batches[b] # batches[b]}
  <2>1. batches' = disk.batches /\ restarts' = restarts + 1 /\ lostSaves' = lostSaves
    BY <1>5 DEF Restart, Reload
  <2>2. disk.batches \in [Batches -> BatchStates]
    BY <1>1 DEF DriverTypes
  <2>3. \A b \in S : lostSaves > 0 /\ batches[b] = "reported" /\ disk.batches[b] = "open"
    BY <1>1 DEF FileFollows
  <2>4. S \in SUBSET {b \in Batches : lostSaves > 0 /\ batches[b] = "reported"}
    BY <2>3
  <2>5. batches' = [b \in Batches |-> IF b \in S THEN "open" ELSE batches[b]]
    BY <2>1, <2>2, <2>3
  <2>6. Ledger!Reload
    <3> HIDE DEF S
    <3>. QED BY <2>1, <2>4, <2>5 DEF Ledger!Reload
  <2>. QED BY <2>6 DEF Ledger!Next
<1>6. ASSUME NEW n \in Sizes, FanoutRejected(n), restarts' = restarts
      PROVE  Ledger!Next
  <2>1. lostSaves' > 0 /\ batches' = batches
    BY <1>1, <1>6 DEF FanoutRejected
  <2>. QED BY <1>6, <2>1 DEF Ledger!Next, Ledger!LoseSave
<1>7. ASSUME NEW n \in Sizes, NEW yolo \in Yolo, FanoutKept(n, yolo, MapAfterFanout(n, yolo)),
             restarts' = restarts
      PROVE  Ledger!Next
  <2>1. nextBatch \in Batches /\ batches[nextBatch] = "none"
    BY <1>7, FanoutPersisted
  <2>2. /\ batches' = [batches EXCEPT ![nextBatch] = "open"]
        /\ lostSaves' = lostSaves \/ lostSaves' \in Nat \ {0}
    BY <1>1, <1>7 DEF FanoutKept
  <2>3. Ledger!MayLose
    BY <1>1, <2>2, LossOnlyGrows DEF Ledger!MayLose
  <2>4. Ledger!Fan(nextBatch)
    BY <1>7, <2>1, <2>2, <2>3 DEF Ledger!Fan
  <2>. QED BY <2>1, <2>4 DEF Ledger!Next
<1>8. CASE Next
  BY <1>3, <1>4, <1>5, <1>6, <1>7, <1>8, StepKinds, RestartsCounted
<1>. QED BY <1>2, <1>8

(* The driver keeps the ledger BatchLedger describes: every step is a       *)
(* fanout, a report, a lost save or a reload of it, so a batch that was     *)
(* given out exists for good and a report is only forgotten by a restart    *)
(* after a lost save.                                                       *)
THEOREM DriverKeepsTheLedger == Spec => Ledger!Spec
<1>1. IInv /\ [Next]_vars => [Ledger!Next]_(Ledger!vars)
  BY LedgerStep
<1>. QED BY <1>1, LedgerInit, Invariance, PTL DEF Spec, Ledger!Spec
=============================================================================

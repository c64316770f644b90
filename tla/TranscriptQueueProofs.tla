----------------------- MODULE TranscriptQueueProofs ------------------------
(***************************************************************************)
(* Proofs about TranscriptQueue, for any finite set of contents, any set   *)
(* of workers, any batch limit and any retry budget.                       *)
(***************************************************************************)
EXTENDS TranscriptQueue, FiniteSetTheorems, TLAPS

Marking == {"mark_processed", "mark_failed"}

(* A worker has a row at hand exactly between extraction and mark, and that
   row is one of its sweep. *)
RowAtHand ==
    \A w \in Workers : /\ pc[w] \in Marking => current[w] \in batch[w]
                       /\ pc[w] \notin Marking => current[w] = Nil

(* The extractor has returned Ok on the row about to be marked processed. *)
DraftedBeforeMark ==
    \A w \in Workers : pc[w] = "mark_processed" => current[w] \in drafts

(* Runs not yet charged to a row: the one whose failure is about to be
   marked.  Every other run before a row is settled or stranded is charged. *)
Accounted(c) == extractions[c] = attempts[c] /\ attempts[c] < MaxAttempts /\ c \notin drafts

(* The accounting of extractor runs, row by row. *)
RunsCharged ==
    /\ \A c \in Contents : status[c] \in {"absent", "pending"} => Accounted(c)
    /\ \A w \in Workers : \A c \in batch[w] : c # current[w] => Accounted(c)
    /\ \A w \in Workers : pc[w] = "mark_failed" =>
          /\ extractions[current[w]] = attempts[current[w]] + 1
          /\ attempts[current[w]] < MaxAttempts
          /\ current[w] \notin drafts

QueueInv ==
    /\ TypeOK /\ SweepsDisjoint /\ RowAtHand
    /\ DraftedBeforeMark /\ ProcessedHasDraft /\ RunsCharged /\ ExtractionBudget

-----------------------------------------------------------------------------
(* The initial state satisfies the inductive invariant. *)
LEMMA InitQueueInv == Init => QueueInv
BY QueueAssumption DEF Init, QueueInv, TypeOK, SweepsDisjoint, RowAtHand, DraftedBeforeMark,
   ProcessedHasDraft, RunsCharged, Accounted, ExtractionBudget, Marking, Settled, Places

(* The clock of the insertions is a natural number. *)
LEMMA NowType == TypeOK => Now \in Nat
<1> DEFINE known == {c \in Contents : status[c] # "absent"}
<1>1. known \subseteq Contents
  OBVIOUS
<1>2. IsFiniteSet(known)
  BY <1>1, QueueAssumption, FS_Subset
<1>3. Cardinality(known) \in Nat
  BY <1>2, FS_CardinalityType
<1> QED
  BY <1>3 DEF Now

(* Every step preserves the inductive invariant. *)
LEMMA QueueStep == ASSUME QueueInv, [Next]_vars PROVE QueueInv'
<1> USE QueueAssumption
<1>0. TypeOK /\ SweepsDisjoint /\ RowAtHand /\ DraftedBeforeMark /\ ProcessedHasDraft
      /\ RunsCharged /\ ExtractionBudget
  BY DEF QueueInv
<1> USE <1>0
<1>1. CASE UNCHANGED vars
  BY <1>1 DEF vars, QueueInv, TypeOK, SweepsDisjoint, RowAtHand, DraftedBeforeMark,
     ProcessedHasDraft, RunsCharged, Accounted, ExtractionBudget
<1>2. ASSUME NEW c \in Contents, Enqueue(c) PROVE QueueInv'
  <2>1. TypeOK'
    BY <1>2, NowType DEF Enqueue, table, local, TypeOK, Settled, Places
  <2>2. SweepsDisjoint' /\ RowAtHand'
    BY <1>2 DEF Enqueue, table, local, TypeOK, SweepsDisjoint, RowAtHand, Marking
  <2>3. DraftedBeforeMark' /\ ProcessedHasDraft'
    BY <1>2 DEF Enqueue, table, local, TypeOK, SweepsDisjoint, RowAtHand, Marking,
       DraftedBeforeMark, ProcessedHasDraft
  <2>4. RunsCharged' /\ ExtractionBudget'
    BY <1>2 DEF Enqueue, table, local, TypeOK, SweepsDisjoint, RowAtHand, Marking, RunsCharged,
       Accounted, ExtractionBudget
  <2> QED
    BY <2>1, <2>2, <2>3, <2>4 DEF QueueInv
<1>3. ASSUME NEW w \in Workers, Boot(w) PROVE QueueInv'
  <2>1. TypeOK'
    BY <1>3 DEF Boot, table, TypeOK, Settled, Places
  <2>2. SweepsDisjoint' /\ RowAtHand'
    BY <1>3 DEF Boot, table, TypeOK, SweepsDisjoint, RowAtHand, Marking
  <2>3. DraftedBeforeMark' /\ ProcessedHasDraft'
    BY <1>3 DEF Boot, table, TypeOK, SweepsDisjoint, RowAtHand, Marking, DraftedBeforeMark,
       ProcessedHasDraft
  <2>4. RunsCharged' /\ ExtractionBudget'
    BY <1>3 DEF Boot, table, TypeOK, SweepsDisjoint, RowAtHand, Marking, RunsCharged, Accounted,
       ExtractionBudget
  <2> QED
    BY <2>1, <2>2, <2>3, <2>4 DEF QueueInv
<1>4. ASSUME NEW w \in Workers, Tick(w) PROVE QueueInv'
  <2>1. TypeOK'
    BY <1>4 DEF Tick, table, TypeOK, Settled, Places
  <2>2. SweepsDisjoint' /\ RowAtHand'
    BY <1>4 DEF Tick, table, TypeOK, SweepsDisjoint, RowAtHand, Marking
  <2>3. DraftedBeforeMark' /\ ProcessedHasDraft'
    BY <1>4 DEF Tick, table, TypeOK, SweepsDisjoint, RowAtHand, Marking, DraftedBeforeMark,
       ProcessedHasDraft
  <2>4. RunsCharged' /\ ExtractionBudget'
    BY <1>4 DEF Tick, table, TypeOK, SweepsDisjoint, RowAtHand, Marking, RunsCharged, Accounted,
       ExtractionBudget
  <2> QED
    BY <2>1, <2>2, <2>3, <2>4 DEF QueueInv
<1>5. ASSUME NEW w \in Workers, AbandonSweep(w) PROVE QueueInv'
  <2>1. TypeOK'
    BY <1>5 DEF AbandonSweep, table, TypeOK, Settled, Places
  <2>2. SweepsDisjoint' /\ RowAtHand'
    BY <1>5 DEF AbandonSweep, table, TypeOK, SweepsDisjoint, RowAtHand, Marking
  <2>3. DraftedBeforeMark' /\ ProcessedHasDraft'
    BY <1>5 DEF AbandonSweep, table, TypeOK, SweepsDisjoint, RowAtHand, Marking,
       DraftedBeforeMark, ProcessedHasDraft
  <2>4. RunsCharged' /\ ExtractionBudget'
    BY <1>5 DEF AbandonSweep, table, TypeOK, SweepsDisjoint, RowAtHand, Marking, RunsCharged,
       Accounted, ExtractionBudget
  <2> QED
    BY <2>1, <2>2, <2>3, <2>4 DEF QueueInv
<1>6. ASSUME NEW w \in Workers, PgFails(w) PROVE QueueInv'
  BY <1>5, <1>6 DEF PgFails
<1>7. ASSUME NEW w \in Workers, Crash(w) PROVE QueueInv'
  <2>1. TypeOK'
    BY <1>7 DEF Crash, table, TypeOK, Settled, Places
  <2>2. SweepsDisjoint' /\ RowAtHand'
    BY <1>7 DEF Crash, table, TypeOK, SweepsDisjoint, RowAtHand, Marking
  <2>3. DraftedBeforeMark' /\ ProcessedHasDraft'
    BY <1>7 DEF Crash, table, TypeOK, SweepsDisjoint, RowAtHand, Marking, DraftedBeforeMark,
       ProcessedHasDraft
  <2>4. RunsCharged' /\ ExtractionBudget'
    BY <1>7 DEF Crash, table, TypeOK, SweepsDisjoint, RowAtHand, Marking, RunsCharged, Accounted,
       ExtractionBudget
  <2> QED
    BY <2>1, <2>2, <2>3, <2>4 DEF QueueInv
<1>8. ASSUME NEW w \in Workers, Claim(w) PROVE QueueInv'
  <2>1. TypeOK'
    BY <1>8 DEF Claim, Claimable, TypeOK, Settled, Places
  <2>2. SweepsDisjoint' /\ RowAtHand'
    BY <1>8 DEF Claim, Claimable, TypeOK, SweepsDisjoint, RowAtHand, Marking
  <2>3. DraftedBeforeMark' /\ ProcessedHasDraft'
    BY <1>8 DEF Claim, Claimable, TypeOK, SweepsDisjoint, RowAtHand, Marking, DraftedBeforeMark,
       ProcessedHasDraft
  <2>4. RunsCharged' /\ ExtractionBudget'
    BY <1>8 DEF Claim, Claimable, TypeOK, SweepsDisjoint, RowAtHand, Marking, RunsCharged,
       Accounted, ExtractionBudget
  <2> QED
    BY <2>1, <2>2, <2>3, <2>4 DEF QueueInv
<1>9. ASSUME NEW w \in Workers, MarkProcessed(w) PROVE QueueInv'
  <2>1. TypeOK'
    BY <1>9 DEF MarkProcessed, NextRow, TypeOK, Settled, Places
  <2>2. SweepsDisjoint' /\ RowAtHand'
    BY <1>9 DEF MarkProcessed, NextRow, TypeOK, SweepsDisjoint, RowAtHand, Marking
  <2>3. DraftedBeforeMark' /\ ProcessedHasDraft'
    BY <1>9 DEF MarkProcessed, NextRow, TypeOK, SweepsDisjoint, RowAtHand, Marking,
       DraftedBeforeMark, ProcessedHasDraft
  <2>4. RunsCharged' /\ ExtractionBudget'
    BY <1>9 DEF MarkProcessed, NextRow, TypeOK, SweepsDisjoint, RowAtHand, Marking, RunsCharged,
       Accounted, ExtractionBudget
  <2> QED
    BY <2>1, <2>2, <2>3, <2>4 DEF QueueInv
<1>10. ASSUME NEW w \in Workers, MarkFailed(w) PROVE QueueInv'
  <2>1. TypeOK'
    <3>1. current[w] \in Contents /\ attempts[current[w]] \in 0..(MaxAttempts - 1)
      BY <1>10 DEF MarkFailed, TypeOK, RowAtHand, Marking, RunsCharged
    <3> QED
      BY <1>10, <3>1 DEF MarkFailed, NextRow, TypeOK, Settled, Places
  <2>2. SweepsDisjoint' /\ RowAtHand'
    BY <1>10 DEF MarkFailed, NextRow, TypeOK, SweepsDisjoint, RowAtHand, Marking
  <2>3. DraftedBeforeMark' /\ ProcessedHasDraft'
    BY <1>10 DEF MarkFailed, NextRow, TypeOK, SweepsDisjoint, RowAtHand, Marking,
       DraftedBeforeMark, ProcessedHasDraft
  <2>4. RunsCharged' /\ ExtractionBudget'
    BY <1>10 DEF MarkFailed, NextRow, TypeOK, SweepsDisjoint, RowAtHand, Marking, RunsCharged,
       Accounted, ExtractionBudget
  <2> QED
    BY <2>1, <2>2, <2>3, <2>4 DEF QueueInv
<1>11. ASSUME NEW w \in Workers, NEW c \in Contents, Extract(w, c) PROVE QueueInv'
  <2>1. TypeOK'
    BY <1>11 DEF Extract, table, TypeOK, Settled, Places
  <2>2. SweepsDisjoint' /\ RowAtHand'
    BY <1>11 DEF Extract, table, TypeOK, SweepsDisjoint, RowAtHand, Marking
  <2>3. DraftedBeforeMark' /\ ProcessedHasDraft'
    BY <1>11 DEF Extract, table, TypeOK, SweepsDisjoint, RowAtHand, Marking, DraftedBeforeMark,
       ProcessedHasDraft
  <2>4. RunsCharged' /\ ExtractionBudget'
    BY <1>11 DEF Extract, table, TypeOK, SweepsDisjoint, RowAtHand, Marking, RunsCharged,
       Accounted, ExtractionBudget
  <2> QED
    BY <2>1, <2>2, <2>3, <2>4 DEF QueueInv
<1> QED
  BY <1>1, <1>2, <1>3, <1>4, <1>6, <1>7, <1>8, <1>9, <1>10, <1>11 DEF Next, WorkerStep

(* QueueInv holds in every reachable state of the queue. *)
THEOREM QueueInvariant == Spec => []QueueInv
<1>1. Init => QueueInv
  BY InitQueueInv
<1>2. QueueInv /\ [Next]_vars => QueueInv'
  BY QueueStep
<1> QED
  BY <1>1, <1>2, PTL DEF Spec

(* The queue's type invariant: among others, attempts never exceeds the
   budget of mark_failed. *)
THEOREM TypeCorrect == Spec => []TypeOK
BY QueueInvariant, PTL DEF QueueInv

(* claim_pending: concurrent drains never work on the same row, and a row in
   a sweep stays 'processing' until its own worker marks it. *)
THEOREM SweepsAreDisjoint == Spec => []SweepsDisjoint
BY QueueInvariant, PTL DEF QueueInv

(* drain_once: a transcript marked processed has its drafts on disk. *)
THEOREM ProcessedIsDrafted == Spec => []ProcessedHasDraft
BY QueueInvariant, PTL DEF QueueInv

(* mark_failed: the extractor runs at most MaxAttempts times on a content. *)
THEOREM ExtractionsAreBounded == Spec => []ExtractionBudget
BY QueueInvariant, PTL DEF QueueInv

(* drain_once: no content is extracted again once its drafts are written. *)
THEOREM DraftsAreWrittenOnce == Spec => DraftedOnce
<1> DEFINE once == \A c \in drafts : extractions'[c] = extractions[c]
<1>1. ASSUME QueueInv, [Next]_vars PROVE [once]_vars
  <2>1. ASSUME NEW w \in Workers, NEW c \in Contents, Extract(w, c) PROVE once
    <3>1. c \notin drafts
      BY <1>1, <2>1, QueueAssumption DEF QueueInv, TypeOK, RowAtHand, RunsCharged, Accounted,
         Extract, Marking
    <3> QED
      BY <3>1, <1>1, <2>1 DEF Extract, QueueInv, TypeOK
  <2>2. ASSUME UNCHANGED extractions PROVE once
    BY <2>2
  <2>3. ASSUME Next PROVE once
    BY <2>1, <2>2, <2>3 DEF Next, WorkerStep, Enqueue, Boot, Tick, Claim, MarkProcessed,
       MarkFailed, NextRow, PgFails, AbandonSweep, Crash
  <2> QED
    BY <1>1, <2>3
<1>2. QueueInv /\ [Next]_vars => [once]_vars
  BY <1>1
<1> QED
  BY <1>2, QueueInvariant, PTL DEF Spec, DraftedOnce

=============================================================================

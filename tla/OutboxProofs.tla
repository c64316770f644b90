---------------------------- MODULE OutboxProofs ----------------------------
(***************************************************************************)
(* Proofs about Outbox, for any number of skills, builders, process starts *)
(* and versions.                                                           *)
(***************************************************************************)
EXTENDS Outbox, TLAPS

(* A relay that is about to mark a record still has that record claimed. *)
CurrentClaimed ==
    \A b \in Builders : pc[b] \in Marking => current[b] \in batch[b]

(* A running process has drawn its correlation id. *)
RunningHasBooted == \A b \in Builders : pc[b] # "down" => boots[b] > 0

(* Claims and retries: the part of the invariant about the table alone. *)
ClaimInv == TypeOK /\ RunningHasBooted /\ CurrentClaimed /\ ClaimsExclusive /\ RetryBudget

(* Without a reconciler no repair event is ever inserted. *)
OnlyRebuildRows == \A e \in Events : e[2] # 0 => status[e] = "absent"

(* The upsert is in Qdrant when the relay is about to mark its record. *)
WrittenBeforeMark ==
    \A b \in Builders : pc[b] = "mark_published" =>
        points[current[b][1]] = payload[current[b]]

(* Skills still to append exist only in the append loop ... *)
TodoOnlyInAppend == \A b \in Builders : pc[b] # "append" => todo[b] = {}

(* ... and every other skill of the snapshot being rebuilt has a row. *)
SnapshotEnqueued ==
    \A b \in Builders : pc[b] \notin {"down", "idle"} =>
        \A s \in Skills : scanned[b][s] > 0 =>
            s \in todo[b] \/ status[VectorKey(s)] # "absent"

VectorInv == OnlyRebuildRows /\ WrittenBeforeMark /\ PublishedHasVector
DrainInv == TodoOnlyInAppend /\ SnapshotEnqueued /\ DrainedMeansSettled

(* The inductive invariant. *)
OutboxInv == ClaimInv /\ VectorInv /\ DrainInv

-----------------------------------------------------------------------------
(* The initial state satisfies the inductive invariant. *)
LEMMA InitOutboxInv == Init => OutboxInv
<1> SUFFICES ASSUME Init PROVE OutboxInv
  OBVIOUS
<1> USE OutboxAssumption DEF Init, NoFiles, Events, Versions, Correlations
<1>1. TypeOK
  BY DEF TypeOK, Unsettled, Settled, Places
<1>2. RunningHasBooted /\ CurrentClaimed /\ ClaimsExclusive /\ RetryBudget
  BY DEF RunningHasBooted, CurrentClaimed, ClaimsExclusive, RetryBudget, Marking
<1>3. VectorInv
  BY DEF VectorInv, OnlyRebuildRows, WrittenBeforeMark, PublishedHasVector
<1>4. DrainInv
  BY DEF DrainInv, TodoOnlyInAppend, SnapshotEnqueued, DrainedMeansSettled
<1> QED
  BY <1>1, <1>2, <1>3, <1>4 DEF OutboxInv, ClaimInv

(* The key of a rebuild event is an event. *)
LEMMA VectorKeyIsEvent == \A s \in Skills : VectorKey(s) \in Events
BY OutboxAssumption DEF VectorKey, Events

(* Every step preserves the claim and retry discipline of the table. *)
LEMMA ClaimStep == ASSUME ClaimInv, [Next]_vars PROVE ClaimInv'
<1> USE OutboxAssumption
<1>0. TypeOK /\ RunningHasBooted /\ CurrentClaimed /\ ClaimsExclusive /\ RetryBudget
  BY DEF ClaimInv
<1> USE <1>0
<1>1. CASE UNCHANGED vars
  BY <1>1 DEF vars, ClaimInv, TypeOK, RunningHasBooted, CurrentClaimed, ClaimsExclusive, RetryBudget
<1>2. ASSUME NEW s \in Skills, EditSkill(s) PROVE ClaimInv'
  <2>1. TypeOK'
    BY <1>2 DEF EditSkill, table, local, TypeOK, Versions, Unsettled, Settled, Places
  <2>2. RunningHasBooted' /\ CurrentClaimed'
    BY <1>2 DEF EditSkill, table, local, RunningHasBooted, CurrentClaimed, Marking, TypeOK
  <2>3. ClaimsExclusive' /\ RetryBudget'
    BY <1>2 DEF EditSkill, table, local, ClaimsExclusive, RetryBudget, TypeOK
  <2> QED
    BY <2>1, <2>2, <2>3 DEF ClaimInv
<1>3. ASSUME NEW b \in Builders, Boot(b) PROVE ClaimInv'
  <2>1. TypeOK'
    BY <1>3 DEF Boot, table, NoFiles, TypeOK, Versions, Unsettled, Settled, Places
  <2>2. RunningHasBooted' /\ CurrentClaimed'
    BY <1>3 DEF Boot, table, NoFiles, RunningHasBooted, CurrentClaimed, Marking, TypeOK
  <2>3. ClaimsExclusive' /\ RetryBudget'
    BY <1>3 DEF Boot, table, NoFiles, ClaimsExclusive, RetryBudget, TypeOK
  <2> QED
    BY <2>1, <2>2, <2>3 DEF ClaimInv
<1>4. ASSUME NEW b \in Builders, Crash(b) PROVE ClaimInv'
  <2>1. TypeOK'
    BY <1>4 DEF Crash, table, TypeOK, Versions, Unsettled, Settled, Places
  <2>2. RunningHasBooted' /\ CurrentClaimed'
    BY <1>4 DEF Crash, table, RunningHasBooted, CurrentClaimed, Marking, TypeOK
  <2>3. ClaimsExclusive' /\ RetryBudget'
    BY <1>4 DEF Crash, table, ClaimsExclusive, RetryBudget, TypeOK
  <2> QED
    BY <2>1, <2>2, <2>3 DEF ClaimInv
<1>5. ASSUME NEW b \in Builders, pc[b] # "down", Abandon(b) PROVE ClaimInv'
  <2>1. TypeOK'
    BY <1>5 DEF Abandon, table, TypeOK, Versions, Unsettled, Settled, Places
  <2>2. RunningHasBooted' /\ CurrentClaimed'
    BY <1>5 DEF Abandon, table, RunningHasBooted, CurrentClaimed, Marking, TypeOK
  <2>3. ClaimsExclusive' /\ RetryBudget'
    BY <1>5 DEF Abandon, table, ClaimsExclusive, RetryBudget, TypeOK
  <2> QED
    BY <2>1, <2>2, <2>3 DEF ClaimInv
<1>6. ASSUME NEW b \in Builders, PgFails(b) PROVE ClaimInv'
  BY <1>5, <1>6 DEF PgFails
<1>7. ASSUME NEW b \in Builders, ScanAndBuild(b) PROVE ClaimInv'
  <2> DEFINE present == {s \in Skills : content[s] > 0}
  <2>a. present \in SUBSET Skills
    OBVIOUS
  <2>b. \/ todo' = [todo EXCEPT ![b] = present] /\ pc' = [pc EXCEPT ![b] = "append"]
           /\ mode' = [mode EXCEPT ![b] = "drain"]
        \/ UNCHANGED <<todo, pc, mode>>
    BY <1>7 DEF ScanAndBuild
  <2> HIDE DEF present
  <2>c. todo' \in [Builders -> SUBSET Skills] /\ mode' \in [Builders -> {"startup", "drain"}]
    BY <2>a, <2>b DEF TypeOK
  <2>d. pc' \in [Builders -> Places]
    BY <2>b DEF TypeOK, Places
  <2>1. TypeOK'
    BY <1>7, <2>c, <2>d DEF ScanAndBuild, table, TypeOK
  <2>2. RunningHasBooted' /\ CurrentClaimed'
    BY <1>7 DEF ScanAndBuild, table, RunningHasBooted, CurrentClaimed, Marking, TypeOK
  <2>3. ClaimsExclusive' /\ RetryBudget'
    BY <1>7 DEF ScanAndBuild, table, ClaimsExclusive, RetryBudget, TypeOK
  <2> QED
    BY <2>1, <2>2, <2>3 DEF ClaimInv
<1>8. ASSUME NEW b \in Builders, AppendsDone(b) PROVE ClaimInv'
  <2>1. TypeOK'
    BY <1>8 DEF AppendsDone, table, TypeOK, Versions, Unsettled, Settled, Places
  <2>2. RunningHasBooted' /\ CurrentClaimed'
    BY <1>8 DEF AppendsDone, table, RunningHasBooted, CurrentClaimed, Marking, TypeOK
  <2>3. ClaimsExclusive' /\ RetryBudget'
    BY <1>8 DEF AppendsDone, table, ClaimsExclusive, RetryBudget, TypeOK
  <2> QED
    BY <2>1, <2>2, <2>3 DEF ClaimInv
<1>9. ASSUME NEW b \in Builders, CheckDrained(b) PROVE ClaimInv'
  <2>1. TypeOK'
    BY <1>9 DEF CheckDrained, table, TypeOK, Versions, Unsettled, Settled, Places
  <2>2. RunningHasBooted' /\ CurrentClaimed'
    BY <1>9 DEF CheckDrained, table, RunningHasBooted, CurrentClaimed, Marking, TypeOK
  <2>3. ClaimsExclusive' /\ RetryBudget'
    BY <1>9 DEF CheckDrained, table, ClaimsExclusive, RetryBudget, TypeOK
  <2> QED
    BY <2>1, <2>2, <2>3 DEF ClaimInv
<1>10. ASSUME NEW b \in Builders, ClaimBatch(b) PROVE ClaimInv'
  <2>1. PICK S \in ClaimBatches(b) :
           /\ status' = [e \in Events |-> IF e \in S THEN "processing" ELSE status[e]]
           /\ batch' = [batch EXCEPT ![b] = S]
           /\ pc' = [pc EXCEPT ![b] = IF S = {} THEN "idle" ELSE "relay"]
    BY <1>10 DEF ClaimBatch
  <2>2. S \subseteq Events /\ \A e \in S : status[e] = "pending"
    BY DEF ClaimBatches, Claimable
  <2>3. TypeOK'
    BY <1>10, <2>1, <2>2 DEF ClaimBatch, TypeOK, Unsettled, Settled, Places
  <2>4. RunningHasBooted' /\ CurrentClaimed'
    BY <1>10, <2>1 DEF ClaimBatch, RunningHasBooted, CurrentClaimed, Marking, TypeOK
  <2>5. ClaimsExclusive'
    BY <2>1, <2>2 DEF ClaimsExclusive, TypeOK
  <2>6. RetryBudget'
    BY <1>10, <2>1, <2>2 DEF ClaimBatch, RetryBudget, TypeOK
  <2> QED
    BY <2>3, <2>4, <2>5, <2>6 DEF ClaimInv
<1>11. ASSUME NEW b \in Builders, FinishCycle(b) PROVE ClaimInv'
  <2>1. TypeOK'
    BY <1>11 DEF FinishCycle, table, TypeOK, Versions, Unsettled, Settled, Places
  <2>2. RunningHasBooted' /\ CurrentClaimed'
    BY <1>11 DEF FinishCycle, table, RunningHasBooted, CurrentClaimed, Marking, TypeOK
  <2>3. ClaimsExclusive' /\ RetryBudget'
    BY <1>11 DEF FinishCycle, table, ClaimsExclusive, RetryBudget, TypeOK
  <2> QED
    BY <2>1, <2>2, <2>3 DEF ClaimInv
<1>12. ASSUME NEW b \in Builders, NEW s \in Skills, AppendVector(b, s) PROVE ClaimInv'
  <2> DEFINE k == VectorKey(s)
  <2>1. k \in Events /\ scanned[b][s] \in Versions /\ Correlation(b) \in Correlations
    <3>1. k \in Events
      BY VectorKeyIsEvent
    <3>2. scanned[b][s] \in Versions
      BY DEF TypeOK
    <3>3. pc[b] = "append"
      BY <1>12 DEF AppendVector
    <3>4. boots[b] \in 1..MaxBoots
      BY <3>3 DEF TypeOK, RunningHasBooted
    <3> QED
      BY <3>1, <3>2, <3>4 DEF Correlation, Correlations
  <2>2. CASE status[k] = "absent"
    <3> HIDE DEF k
    <3>1. /\ status' = [status EXCEPT ![k] = "pending"]
          /\ attempts' = [attempts EXCEPT ![k] = 0]
          /\ payload' = [payload EXCEPT ![k] = scanned[b][s]]
          /\ correlation' = [correlation EXCEPT ![k] = Correlation(b)]
      BY <1>12, <2>2 DEF AppendVector, InsertIdempotent, k
    <3>2. TypeOK'
      BY <1>12, <2>1, <3>1 DEF AppendVector, TypeOK, Versions, Unsettled, Settled, Places
    <3>3. RunningHasBooted' /\ CurrentClaimed'
      BY <1>12 DEF AppendVector, RunningHasBooted, CurrentClaimed
    <3>4. ClaimsExclusive'
      BY <1>12, <2>1, <2>2, <3>1 DEF AppendVector, ClaimsExclusive, TypeOK
    <3>5. RetryBudget'
      BY <2>1, <3>1 DEF RetryBudget, TypeOK
    <3> QED
      BY <3>2, <3>3, <3>4, <3>5 DEF ClaimInv
  <2>3. CASE status[k] # "absent"
    <3> HIDE DEF k
    <3>1. UNCHANGED table
      BY <1>12, <2>3 DEF AppendVector, InsertIdempotent, k
    <3>2. TypeOK'
      BY <1>12, <3>1 DEF AppendVector, table, TypeOK
    <3>3. RunningHasBooted' /\ CurrentClaimed' /\ ClaimsExclusive' /\ RetryBudget'
      BY <1>12, <3>1 DEF AppendVector, table, RunningHasBooted, CurrentClaimed,
                         ClaimsExclusive, RetryBudget
    <3> QED
      BY <3>2, <3>3 DEF ClaimInv
  <2> QED
    BY <2>2, <2>3
<1>13. ASSUME NEW b \in Builders, NEW e \in Events, WriteVector(b, e) PROVE ClaimInv'
  <2>1. e[1] \in Skills /\ payload[e] \in Versions
    BY DEF Events, TypeOK
  <2>2. /\ points' \in [Skills -> Versions]
        /\ pc' \in [Builders -> Places]
        /\ current' = [current EXCEPT ![b] = e]
    BY <1>13, <2>1 DEF WriteVector, TypeOK, Places
  <2>3. TypeOK'
    BY <1>13, <2>2 DEF WriteVector, table, TypeOK
  <2>4. RunningHasBooted' /\ CurrentClaimed'
    BY <1>13 DEF WriteVector, RunningHasBooted, CurrentClaimed, Marking, TypeOK
  <2>5. ClaimsExclusive' /\ RetryBudget'
    BY <1>13 DEF WriteVector, table, ClaimsExclusive, RetryBudget
  <2> QED
    BY <2>3, <2>4, <2>5 DEF ClaimInv
<1>14. ASSUME NEW b \in Builders, pc[b] # "down", NEW e \in batch[b], NextRecord(b, e),
              e \in Events, status[e] = "processing",
              attempts' = attempts \/ attempts' = [attempts EXCEPT ![e] = @ + 1],
              attempts' \in [Events -> 0..MaxRetries],
              NEW v \in {"published", "failed", "pending"},
              status' = [status EXCEPT ![e] = v],
              v = "failed" <=> attempts'[e] = MaxRetries,
              UNCHANGED <<payload, correlation>>
       PROVE  ClaimInv'
  <2>1. TypeOK'
    BY <1>14 DEF NextRecord, TypeOK, Unsettled, Settled, Places
  <2>2. RunningHasBooted' /\ CurrentClaimed'
    BY <1>14 DEF NextRecord, RunningHasBooted, CurrentClaimed, Marking, TypeOK
  <2>3. ClaimsExclusive'
    BY <1>14 DEF NextRecord, ClaimsExclusive, TypeOK
  <2>4. RetryBudget'
    BY <1>14 DEF RetryBudget, TypeOK
  <2> QED
    BY <2>1, <2>2, <2>3, <2>4 DEF ClaimInv
<1>15. ASSUME NEW b \in Builders, MarkPublished(b) PROVE ClaimInv'
  <2> DEFINE e == current[b]
  <2>1. e \in batch[b] /\ e \in Events /\ status[e] = "processing" /\ pc[b] # "down"
    BY <1>15 DEF MarkPublished, CurrentClaimed, Marking, ClaimsExclusive, TypeOK
  <2>2. /\ status' = [status EXCEPT ![e] = "published"]
        /\ UNCHANGED <<attempts, payload, correlation>>
        /\ NextRecord(b, e)
    BY <1>15, <2>1 DEF MarkPublished
  <2>3. attempts[e] # MaxRetries
    BY <2>1 DEF RetryBudget
  <2> HIDE DEF e
  <2> QED
    BY <1>14, <2>1, <2>2, <2>3 DEF TypeOK
<1>16. ASSUME NEW b \in Builders, MarkFailed(b) PROVE ClaimInv'
  <2> DEFINE e == current[b]
             v == IF attempts[e] + 1 >= MaxRetries THEN "failed" ELSE "pending"
  <2>1. e \in batch[b] /\ e \in Events /\ status[e] = "processing" /\ pc[b] # "down"
    BY <1>16 DEF MarkFailed, CurrentClaimed, Marking, ClaimsExclusive, TypeOK
  <2>2. /\ status' = [status EXCEPT ![e] = v]
        /\ attempts' = [attempts EXCEPT ![e] = @ + 1]
        /\ UNCHANGED <<payload, correlation>>
        /\ NextRecord(b, e)
    BY <1>16, <2>1 DEF MarkFailed
  <2> HIDE DEF e
  <2>3. attempts[e] \in 0..MaxRetries /\ attempts[e] # MaxRetries
    BY <2>1 DEF RetryBudget, TypeOK
  <2>. attempts[e] + 1 \in 0..MaxRetries
    BY <2>3
  <2>4. attempts' \in [Events -> 0..MaxRetries] /\ attempts'[e] = attempts[e] + 1
    BY <2>1, <2>2 DEF TypeOK
  <2>5. v \in {"published", "failed", "pending"} /\ (v = "failed" <=> attempts'[e] = MaxRetries)
    BY <2>3, <2>4
  <2> HIDE DEF v
  <2> QED
    BY <1>14, <2>1, <2>2, <2>4, <2>5
<1> QED
  BY <1>1, <1>2, <1>3, <1>4, <1>6, <1>7, <1>8, <1>9, <1>10, <1>11, <1>12, <1>13, <1>15, <1>16
     DEF Next, BuilderStep

-----------------------------------------------------------------------------
(* Two rebuild events of the same skill are the same event. *)
LEMMA OneRebuildEvent ==
    ASSUME NEW e \in Events, NEW f \in Events, e[1] = f[1], e[2] = 0, f[2] = 0
    PROVE  e = f
BY DEF Events

(* Every step keeps the vectors behind the published rows in place. *)
LEMMA VectorStep == ASSUME ClaimInv, VectorInv, [Next]_vars PROVE VectorInv'
<1> USE DEF VectorInv
<1>0. TypeOK /\ CurrentClaimed /\ ClaimsExclusive
  BY DEF ClaimInv
<1> USE <1>0
<1>1. ASSUME UNCHANGED <<points, status, payload>>,
             \A c \in Builders : pc'[c] = "mark_published" =>
                 pc[c] = "mark_published" /\ current'[c] = current[c]
      PROVE  VectorInv'
  BY <1>1 DEF OnlyRebuildRows, WrittenBeforeMark, PublishedHasVector
<1>2. CASE UNCHANGED vars
  BY <1>1, <1>2 DEF vars
<1>3. ASSUME NEW s \in Skills, EditSkill(s) PROVE VectorInv'
  BY <1>1, <1>3 DEF EditSkill, table, local
<1>4. ASSUME NEW b \in Builders, Boot(b) \/ Crash(b) PROVE VectorInv'
  BY <1>1, <1>4 DEF Boot, Crash, table, TypeOK
<1>5. ASSUME NEW b \in Builders, PgFails(b) PROVE VectorInv'
  BY <1>1, <1>5 DEF PgFails, Abandon, table, TypeOK
<1>6. ASSUME NEW b \in Builders, ScanAndBuild(b) \/ AppendsDone(b) PROVE VectorInv'
  BY <1>1, <1>6 DEF ScanAndBuild, AppendsDone, table, TypeOK
<1>7. ASSUME NEW b \in Builders, CheckDrained(b) \/ FinishCycle(b) PROVE VectorInv'
  BY <1>1, <1>7 DEF CheckDrained, FinishCycle, table, TypeOK
<1>8. ASSUME NEW b \in Builders, NEW s \in Skills, AppendVector(b, s) PROVE VectorInv'
  <2> DEFINE k == VectorKey(s)
  <2>1. k \in Events /\ k[2] = 0
    BY VectorKeyIsEvent DEF VectorKey
  <2>2. CASE status[k] # "absent"
    <3>1. UNCHANGED <<points, status, payload, pc, current>>
      BY <1>8, <2>2 DEF AppendVector, InsertIdempotent, table
    <3> QED
      BY <1>1, <3>1
  <2>3. CASE status[k] = "absent"
    <3>1. /\ status' = [status EXCEPT ![k] = "pending"]
          /\ payload' = [payload EXCEPT ![k] = scanned[b][s]]
          /\ UNCHANGED <<points, pc, current>>
      BY <1>8, <2>3 DEF AppendVector, InsertIdempotent
    <3> HIDE DEF k
    <3>2. OnlyRebuildRows' /\ PublishedHasVector'
      BY <2>1, <3>1 DEF OnlyRebuildRows, PublishedHasVector, TypeOK
    <3>3. \A c \in Builders : pc[c] = "mark_published" => current[c] # k /\ current[c] \in Events
      BY <2>3 DEF CurrentClaimed, Marking, ClaimsExclusive, TypeOK
    <3>4. WrittenBeforeMark'
      BY <3>1, <3>3 DEF WrittenBeforeMark, TypeOK
    <3> QED
      BY <3>2, <3>4
  <2> QED
    BY <2>2, <2>3
<1>9. ASSUME NEW b \in Builders, ClaimBatch(b) PROVE VectorInv'
  <2>1. PICK S \in ClaimBatches(b) :
           /\ status' = [e \in Events |-> IF e \in S THEN "processing" ELSE status[e]]
           /\ pc' = [pc EXCEPT ![b] = IF S = {} THEN "idle" ELSE "relay"]
    BY <1>9 DEF ClaimBatch
  <2>2. UNCHANGED <<points, payload, current>>
    BY <1>9 DEF ClaimBatch
  <2>3. \A e \in S : status[e] = "pending"
    BY DEF ClaimBatches, Claimable
  <2>4. OnlyRebuildRows' /\ PublishedHasVector'
    BY <2>1, <2>2, <2>3 DEF OnlyRebuildRows, PublishedHasVector
  <2>5. WrittenBeforeMark'
    BY <2>1, <2>2 DEF WrittenBeforeMark, TypeOK
  <2> QED
    BY <2>4, <2>5
<1>10. ASSUME NEW b \in Builders, NEW e \in Events, WriteVector(b, e) PROVE VectorInv'
  <2>1. /\ pc[b] = "relay" /\ e \in batch[b]
        /\ current' = [current EXCEPT ![b] = e]
        /\ UNCHANGED <<status, payload>>
        /\ \A c \in Builders : c # b => pc'[c] = pc[c] /\ current'[c] = current[c]
    BY <1>10 DEF WriteVector, table, TypeOK
  <2>2. /\ points' = points \/ points' = [points EXCEPT ![e[1]] = payload[e]]
        /\ pc'[b] = "mark_published" => points' = [points EXCEPT ![e[1]] = payload[e]]
    BY <1>10 DEF WriteVector, TypeOK
  <2>3. e[1] \in Skills /\ e[2] = 0 /\ status[e] = "processing"
    BY <2>1 DEF ClaimsExclusive, OnlyRebuildRows, Events
  <2>4. ASSUME NEW f \in Events, status[f] # "absent", f # e
        PROVE  points'[f[1]] = points[f[1]]
    <3>1. f[1] # e[1]
      BY <2>3, <2>4, OneRebuildEvent DEF OnlyRebuildRows
    <3> QED
      BY <2>2, <3>1 DEF Events, TypeOK
  <2>5. OnlyRebuildRows'
    BY <2>1 DEF OnlyRebuildRows
  <2>6. PublishedHasVector'
    BY <2>1, <2>3, <2>4 DEF PublishedHasVector
  <2>7. ASSUME NEW c \in Builders, c # b, pc[c] = "mark_published"
        PROVE  points'[current[c][1]] = payload[current[c]]
    <3>1. current[c] \in batch[c] /\ current[c] \in Events /\ current[c] # e
      BY <2>1, <2>7 DEF CurrentClaimed, Marking, ClaimsExclusive, TypeOK
    <3>2. status[current[c]] = "processing"
      BY <3>1 DEF ClaimsExclusive
    <3> QED
      BY <2>4, <2>7, <3>1, <3>2 DEF WrittenBeforeMark
  <2>8. pc'[b] = "mark_published" => points'[e[1]] = payload[e]
    BY <2>2, <2>3 DEF TypeOK
  <2>9. WrittenBeforeMark'
    BY <2>1, <2>7, <2>8 DEF WrittenBeforeMark, TypeOK
  <2> QED
    BY <2>5, <2>6, <2>9
<1>11. ASSUME NEW b \in Builders, MarkPublished(b) \/ MarkFailed(b) PROVE VectorInv'
  <2> DEFINE e == current[b]
  <2>1. e \in batch[b] /\ e \in Events /\ status[e] = "processing"
    BY <1>11 DEF MarkPublished, MarkFailed, CurrentClaimed, Marking, ClaimsExclusive, TypeOK
  <2>2. /\ NextRecord(b, e) /\ UNCHANGED payload
        /\ \E v \in {"published", "failed", "pending"} : status' = [status EXCEPT ![e] = v]
        /\ status'[e] = "published" => points[e[1]] = payload[e]
    BY <1>11, <2>1 DEF MarkPublished, MarkFailed, WrittenBeforeMark, TypeOK
  <2> HIDE DEF e
  <2>3. OnlyRebuildRows'
    BY <2>1, <2>2 DEF OnlyRebuildRows, TypeOK
  <2>4. PublishedHasVector'
    BY <2>1, <2>2 DEF PublishedHasVector, NextRecord, TypeOK
  <2>5. WrittenBeforeMark'
    BY <2>1, <2>2 DEF WrittenBeforeMark, NextRecord, TypeOK
  <2> QED
    BY <2>3, <2>4, <2>5
<1> QED
  BY <1>2, <1>3, <1>4, <1>5, <1>6, <1>7, <1>8, <1>9, <1>10, <1>11 DEF Next, BuilderStep

-----------------------------------------------------------------------------
(* What one step may do to the table: rows never vanish, and a row that is
   settled stays settled. *)
LEMMA RowStep ==
    ASSUME ClaimInv, [Next]_vars
    PROVE  \A e \in Events :
               /\ status[e] # "absent" => status'[e] # "absent"
               /\ status[e] \in Settled => status'[e] = status[e]
               /\ status[e] # "absent" => /\ payload'[e] = payload[e]
                                          /\ correlation'[e] = correlation[e]
                                          /\ attempts'[e] >= attempts[e]
<1> DEFINE Kept == \A e \in Events :
               /\ status[e] # "absent" => status'[e] # "absent"
               /\ status[e] \in Settled => status'[e] = status[e]
               /\ status[e] # "absent" => /\ payload'[e] = payload[e]
                                          /\ correlation'[e] = correlation[e]
                                          /\ attempts'[e] >= attempts[e]
<1>0. TypeOK /\ CurrentClaimed /\ ClaimsExclusive
  BY DEF ClaimInv
<1> USE <1>0, OutboxAssumption
<1>a. \A e \in Events : attempts[e] \in Nat
  BY DEF TypeOK
<1>1. ASSUME UNCHANGED table PROVE Kept
  BY <1>1, <1>a DEF table
<1>2. CASE UNCHANGED vars
  BY <1>1, <1>2 DEF vars, table
<1>3. ASSUME NEW s \in Skills, EditSkill(s) PROVE Kept
  BY <1>1, <1>3 DEF EditSkill
<1>4. ASSUME NEW b \in Builders,
             \/ Boot(b) \/ Crash(b) \/ PgFails(b) \/ ScanAndBuild(b) \/ AppendsDone(b)
             \/ CheckDrained(b) \/ FinishCycle(b) \/ \E e \in Events : WriteVector(b, e)
      PROVE  Kept
  BY <1>1, <1>4 DEF Boot, Crash, PgFails, Abandon, ScanAndBuild, AppendsDone,
                    CheckDrained, FinishCycle, WriteVector
<1>5. ASSUME NEW b \in Builders, NEW s \in Skills, AppendVector(b, s) PROVE Kept
  <2>1. CASE status[VectorKey(s)] # "absent"
    BY <1>1, <1>5, <2>1 DEF AppendVector, InsertIdempotent
  <2>2. CASE status[VectorKey(s)] = "absent"
    <3>1. \A e \in Events : e # VectorKey(s) =>
             /\ status'[e] = status[e] /\ payload'[e] = payload[e]
             /\ correlation'[e] = correlation[e] /\ attempts'[e] = attempts[e]
      BY <1>5, <2>2 DEF AppendVector, InsertIdempotent, TypeOK
    <3> QED
      BY <1>a, <2>2, <3>1 DEF Settled
  <2> QED
    BY <2>1, <2>2
<1>6. ASSUME NEW b \in Builders, ClaimBatch(b) PROVE Kept
  <2>1. PICK S \in ClaimBatches(b) :
           status' = [e \in Events |-> IF e \in S THEN "processing" ELSE status[e]]
    BY <1>6 DEF ClaimBatch
  <2>2. \A e \in S : status[e] = "pending"
    BY DEF ClaimBatches, Claimable
  <2>3. UNCHANGED <<attempts, payload, correlation>>
    BY <1>6 DEF ClaimBatch
  <2> QED
    BY <1>a, <2>1, <2>2, <2>3 DEF Settled
<1>7. ASSUME NEW b \in Builders, MarkPublished(b) \/ MarkFailed(b) PROVE Kept
  <2> DEFINE e == current[b]
  <2>1. e \in Events /\ status[e] = "processing"
    BY <1>7 DEF MarkPublished, MarkFailed, CurrentClaimed, Marking, ClaimsExclusive, TypeOK
  <2>2. /\ UNCHANGED <<payload, correlation>>
        /\ attempts' = attempts \/ attempts' = [attempts EXCEPT ![e] = @ + 1]
        /\ \E v \in {"published", "failed", "pending"} : status' = [status EXCEPT ![e] = v]
    BY <1>7, <2>1 DEF MarkPublished, MarkFailed
  <2> HIDE DEF e
  <2>3. \A f \in Events : attempts'[f] >= attempts[f]
    BY <1>a, <2>1, <2>2 DEF TypeOK
  <2> QED
    BY <2>1, <2>2, <2>3 DEF Settled, TypeOK
<1>8. CASE \E b \in Builders : BuilderStep(b) \/ Crash(b) \/ PgFails(b)
  BY <1>4, <1>5, <1>6, <1>7, <1>8 DEF BuilderStep
<1> QED
  BY <1>2, <1>3, <1>8 DEF Next

(* The drain's promise: the part about what one process has still to do. *)
LEMMA DrainStep == ASSUME ClaimInv, DrainInv, [Next]_vars PROVE DrainInv'
<1> USE DEF DrainInv
<1>0. TypeOK /\ CurrentClaimed /\ ClaimsExclusive /\ RunningHasBooted
  BY DEF ClaimInv
<1> USE <1>0
<1>k. \A s \in Skills : VectorKey(s) \in Events /\ (status[VectorKey(s)] # "absent" =>
                                                    status'[VectorKey(s)] # "absent")
  BY RowStep, VectorKeyIsEvent
<1> DEFINE NoneLeft(c) == \A e \in Events :
               status[e] \in Unsettled => correlation[e] # Correlation(c)
<1>n. \A c \in Builders : pc[c] = "drained" => NoneLeft(c)
  BY DEF DrainedMeansSettled, HasPending
(* Builders other than b are not disturbed by what b does to the table. *)
<1>1. ASSUME NEW b \in Builders,
             \A c \in Builders : c # b =>
                 pc'[c] = pc[c] /\ todo'[c] = todo[c] /\ scanned'[c] = scanned[c]
                 /\ boots'[c] = boots[c],
             pc'[b] # "append" => todo'[b] = {},
             pc'[b] \notin {"down", "idle"} =>
                 \A s \in Skills : scanned'[b][s] > 0 =>
                     s \in todo'[b] \/ status'[VectorKey(s)] # "absent",
             pc'[b] = "drained" => ~ HasPending(Correlation(b))',
             \A c \in Builders : c # b /\ pc[c] = "drained" =>
                 \A e \in Events : status'[e] \in Unsettled => correlation'[e] # Correlation(c)
      PROVE  DrainInv'
  <2>1. TodoOnlyInAppend'
    BY <1>1 DEF TodoOnlyInAppend
  <2>2. SnapshotEnqueued'
    BY <1>1, <1>k DEF SnapshotEnqueued
  <2>3. ASSUME NEW c \in Builders, pc'[c] = "drained" PROVE ~ HasPending(Correlation(c))'
    BY <1>1, <2>3 DEF HasPending, Correlation
  <2>4. DrainedMeansSettled'
    BY <2>1, <2>2, <2>3 DEF DrainedMeansSettled, TodoOnlyInAppend, SnapshotEnqueued
  <2> QED
    BY <2>1, <2>2, <2>4
<1>u. ASSUME UNCHANGED <<status, correlation>>
      PROVE  \A c \in Builders : pc[c] = "drained" =>
                 \A e \in Events : status'[e] \in Unsettled => correlation'[e] # Correlation(c)
  BY <1>u, <1>n
<1>2. CASE UNCHANGED <<status, correlation, pc, todo, scanned, boots>>
  BY <1>2 DEF TodoOnlyInAppend, SnapshotEnqueued, DrainedMeansSettled, HasPending, Correlation
<1>3. ASSUME NEW s \in Skills, EditSkill(s) PROVE DrainInv'
  BY <1>2, <1>3 DEF EditSkill, table, local
<1>4. ASSUME NEW b \in Builders, Boot(b) PROVE DrainInv'
  <2>1. UNCHANGED <<status, correlation, todo>> /\ pc'[b] = "claim" /\ pc[b] = "down"
    BY <1>4 DEF Boot, table, TypeOK
  <2>2. \A s \in Skills : scanned'[b][s] = 0
    BY <1>4 DEF Boot, NoFiles, TypeOK
  <2>3. todo'[b] = {}
    BY <2>1 DEF TodoOnlyInAppend
  <2>4. \A c \in Builders : c # b => pc'[c] = pc[c] /\ scanned'[c] = scanned[c]
                                      /\ boots'[c] = boots[c]
    BY <1>4 DEF Boot, TypeOK
  <2> QED
    BY <1>1, <1>u, <2>1, <2>2, <2>3, <2>4
<1>5. ASSUME NEW b \in Builders, Abandon(b) \/ Crash(b) PROVE DrainInv'
  <2>1. /\ UNCHANGED <<status, correlation, scanned, boots>>
        /\ todo'[b] = {} /\ pc'[b] \in {"idle", "down"}
        /\ \A c \in Builders : c # b => pc'[c] = pc[c] /\ todo'[c] = todo[c]
    BY <1>5 DEF Abandon, Crash, table, TypeOK
  <2> QED
    BY <1>1, <1>u, <2>1
<1>6. ASSUME NEW b \in Builders, PgFails(b) PROVE DrainInv'
  BY <1>5, <1>6 DEF PgFails
<1>7. ASSUME NEW b \in Builders, ScanAndBuild(b) PROVE DrainInv'
  <2>1. /\ UNCHANGED <<status, correlation, boots>> /\ pc[b] = "idle"
        /\ scanned' = [scanned EXCEPT ![b] = content]
        /\ \A c \in Builders : c # b => pc'[c] = pc[c] /\ todo'[c] = todo[c]
                                        /\ scanned'[c] = scanned[c]
    BY <1>7 DEF ScanAndBuild, table, TypeOK
  <2>2. \/ pc'[b] = "append" /\ todo'[b] = {s \in Skills : content[s] > 0}
        \/ pc'[b] = "idle" /\ todo'[b] = todo[b]
    BY <1>7, <2>1 DEF ScanAndBuild, TypeOK
  <2>3. todo[b] = {}
    BY <2>1 DEF TodoOnlyInAppend
  <2>4. scanned'[b] = content
    BY <2>1 DEF TypeOK
  <2> QED
    BY <1>1, <1>u, <2>1, <2>2, <2>3, <2>4
<1>8. ASSUME NEW b \in Builders, AppendsDone(b) \/ FinishCycle(b) PROVE DrainInv'
  <2>1. /\ UNCHANGED <<status, correlation, todo, scanned, boots>> /\ todo[b] = {}
        /\ pc'[b] \in {"check", "idle"} /\ pc[b] \in {"append", "drained"}
        /\ \A c \in Builders : c # b => pc'[c] = pc[c]
    BY <1>8 DEF AppendsDone, FinishCycle, table, TypeOK, TodoOnlyInAppend
  <2> QED
    BY <1>1, <1>u, <1>k, <2>1 DEF SnapshotEnqueued
<1>9. ASSUME NEW b \in Builders, CheckDrained(b) PROVE DrainInv'
  <2>1. /\ UNCHANGED <<status, correlation, todo, scanned, boots>> /\ todo[b] = {}
        /\ pc[b] = "check"
        /\ \A c \in Builders : c # b => pc'[c] = pc[c]
    BY <1>9 DEF CheckDrained, table, TypeOK, TodoOnlyInAppend
  <2>2. \/ pc'[b] = "claim"
        \/ pc'[b] = "drained" /\ ~ HasPending(Correlation(b))
    BY <1>9 DEF CheckDrained, TypeOK
  <2>3. HasPending(Correlation(b))' <=> HasPending(Correlation(b))
    BY <2>1 DEF HasPending, Correlation
  <2> QED
    BY <1>1, <1>u, <1>k, <2>1, <2>2, <2>3 DEF SnapshotEnqueued
<1>10. ASSUME NEW b \in Builders, NEW s \in Skills, AppendVector(b, s) PROVE DrainInv'
  <2>1. /\ pc[b] = "append" /\ UNCHANGED <<pc, scanned, boots>>
        /\ todo' = [todo EXCEPT ![b] = @ \ {s}]
    BY <1>10 DEF AppendVector
  <2>2. status'[VectorKey(s)] # "absent"
    BY <1>10, <1>k DEF AppendVector, InsertIdempotent, table, TypeOK
  <2>3. \A t \in Skills : scanned'[b][t] > 0 => t \in todo'[b] \/ status'[VectorKey(t)] # "absent"
    BY <1>k, <2>1, <2>2 DEF SnapshotEnqueued, TypeOK
  <2>4. \A e \in Events : status'[e] \in Unsettled =>
            \/ status[e] \in Unsettled /\ correlation'[e] = correlation[e]
            \/ correlation'[e] = Correlation(b)
    BY <1>10 DEF AppendVector, InsertIdempotent, table, TypeOK
  <2>5. \A c \in Builders : c # b => Correlation(c) # Correlation(b)
    BY DEF Correlation
  <2>6. \A c \in Builders : c # b /\ pc[c] = "drained" =>
            \A e \in Events : status'[e] \in Unsettled => correlation'[e] # Correlation(c)
    BY <1>n, <2>4, <2>5
  <2>7. \A c \in Builders : c # b => todo'[c] = todo[c]
    BY <2>1 DEF TypeOK
  <2> QED
    BY <1>1, <2>1, <2>3, <2>6, <2>7
<1>11. ASSUME NEW b \in Builders, UNCHANGED <<correlation, todo, scanned, boots>>,
              pc[b] \in {"claim", "relay", "mark_published", "mark_failed"},
              pc'[b] \in {"idle", "relay", "claim", "check", "mark_published", "mark_failed"},
              \A c \in Builders : c # b => pc'[c] = pc[c],
              \A e \in Events : status'[e] \in Unsettled => status[e] \in Unsettled
       PROVE  DrainInv'
  <2>1. todo[b] = {}
    BY <1>11 DEF TodoOnlyInAppend
  <2> QED
    BY <1>1, <1>k, <1>n, <1>11, <2>1 DEF SnapshotEnqueued
<1>12. ASSUME NEW b \in Builders, ClaimBatch(b) PROVE DrainInv'
  <2>1. PICK S \in ClaimBatches(b) :
           /\ status' = [e \in Events |-> IF e \in S THEN "processing" ELSE status[e]]
           /\ pc' = [pc EXCEPT ![b] = IF S = {} THEN "idle" ELSE "relay"]
    BY <1>12 DEF ClaimBatch
  <2>2. \A e \in S : status[e] = "pending"
    BY DEF ClaimBatches, Claimable
  <2>3. \A e \in Events : status'[e] \in Unsettled => status[e] \in Unsettled
    BY <2>1, <2>2 DEF Unsettled
  <2>4. /\ UNCHANGED <<correlation, todo, scanned, boots>> /\ pc[b] = "claim"
        /\ pc'[b] \in {"idle", "relay"}
        /\ \A c \in Builders : c # b => pc'[c] = pc[c]
    BY <1>12, <2>1 DEF ClaimBatch, TypeOK
  <2> QED
    BY <1>11, <2>3, <2>4
<1>13. ASSUME NEW b \in Builders, NEW e \in Events, WriteVector(b, e) PROVE DrainInv'
  <2>1. /\ UNCHANGED <<status, correlation, todo, scanned, boots>> /\ pc[b] = "relay"
        /\ pc'[b] \in {"mark_published", "mark_failed"}
        /\ \A c \in Builders : c # b => pc'[c] = pc[c]
    BY <1>13 DEF WriteVector, table, TypeOK
  <2> QED
    BY <1>11, <2>1
<1>14. ASSUME NEW b \in Builders, MarkPublished(b) \/ MarkFailed(b) PROVE DrainInv'
  <2> DEFINE e == current[b]
  <2>1. e \in Events /\ status[e] = "processing"
    BY <1>14 DEF MarkPublished, MarkFailed, CurrentClaimed, Marking, ClaimsExclusive, TypeOK
  <2>2. /\ NextRecord(b, e) /\ UNCHANGED correlation
        /\ \E v \in {"published", "failed", "pending"} : status' = [status EXCEPT ![e] = v]
        /\ pc[b] \in {"mark_published", "mark_failed"}
    BY <1>14, <2>1 DEF MarkPublished, MarkFailed
  <2> HIDE DEF e
  <2>3. \A f \in Events : status'[f] \in Unsettled => status[f] \in Unsettled
    BY <2>1, <2>2 DEF Unsettled, TypeOK
  <2>4. /\ UNCHANGED <<todo, scanned, boots>> /\ pc'[b] \in {"relay", "claim", "check"}
        /\ \A c \in Builders : c # b => pc'[c] = pc[c]
    BY <2>2 DEF NextRecord, TypeOK
  <2> QED
    BY <1>11, <2>2, <2>3, <2>4
<1>15. CASE UNCHANGED vars
  BY <1>2, <1>15 DEF vars
<1> QED
  BY <1>3, <1>4, <1>5, <1>6, <1>7, <1>8, <1>9, <1>10, <1>12, <1>13, <1>14, <1>15
     DEF Next, BuilderStep

-----------------------------------------------------------------------------
(* The inductive invariant holds in every reachable state. *)
THEOREM OutboxInvariant == Spec => []OutboxInv
<1>1. Init => OutboxInv
  BY InitOutboxInv
<1>2. OutboxInv /\ [Next]_vars => OutboxInv'
  BY ClaimStep, VectorStep, DrainStep DEF OutboxInv
<1> QED
  BY <1>1, <1>2, PTL DEF Spec

(* Every variable keeps its type. *)
THEOREM TypeCorrect == Spec => []TypeOK
BY OutboxInvariant, PTL DEF OutboxInv, ClaimInv

(* No row is relayed by two processes at once (claim_pending_outbox). *)
THEOREM ClaimsAreExclusive == Spec => []ClaimsExclusive
BY OutboxInvariant, PTL DEF OutboxInv, ClaimInv

(* A row is given up exactly when its retry budget is spent (mark_outbox_failed). *)
THEOREM RetriesAreBounded == Spec => []RetryBudget
BY OutboxInvariant, PTL DEF OutboxInv, ClaimInv

(* A published row has its vector in Qdrant, whatever crashes or answers are
   lost in between (process_claimed_records). *)
THEOREM PublishedIsVectorized == Spec => []PublishedHasVector
BY OutboxInvariant, PTL DEF OutboxInv, VectorInv

(* A drain that returns Ok leaves nothing of its correlation id to deliver
   (drain_correlation_outbox). *)
THEOREM DrainedIsSettled == Spec => []DrainedMeansSettled
BY OutboxInvariant, PTL DEF OutboxInv, DrainInv

(* Settled rows are final and events immutable (the WHERE status =
   'processing' of the marks, and ON CONFLICT DO NOTHING). *)
THEOREM SettledIsFinal == Spec => SettledRowsStable
<1>1. OutboxInv /\ [Next]_vars =>
        [\A e \in Events :
          /\ status[e] \in Settled => status'[e] = status[e]
          /\ status[e] # "absent" => /\ payload'[e] = payload[e]
                                     /\ correlation'[e] = correlation[e]
                                     /\ attempts'[e] >= attempts[e]]_vars
  BY RowStep DEF OutboxInv
<1> QED
  BY <1>1, OutboxInvariant, PTL DEF Spec, SettledRowsStable

=============================================================================

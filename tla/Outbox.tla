------------------------------- MODULE Outbox -------------------------------
(***************************************************************************)
(* The transactional outbox through which graph-builder processes feed     *)
(* skill vectors to Qdrant: the outbox_events table (one variable per      *)
(* column that matters), the rebuild that appends vector.upsert events,    *)
(* the relay that claims, writes and marks them, the per-correlation drain *)
(* that gates a rebuild and the start-up drain that repairs old ones.      *)
(*                                                                         *)
(* Sources: crates/infrastructure/src/persistence/outbox.rs,               *)
(*          crates/graph-builder/src/graph/rebuild.rs and src/main.rs.     *)
(***************************************************************************)
EXTENDS Integers, FiniteSets

CONSTANTS
    Skills,       \* skill files; a skill's id is the hash of its path
    Builders,     \* graph-builder processes sharing one database
    Poison,       \* skills whose payload the relay or Qdrant always refuses
    ClaimLimit,   \* rows one claim may take (10 in the code)
    MaxRetries,   \* MAX_OUTBOX_RETRIES (3 in the code)
    Faults,       \* which of "pg", "qdrant", "embed", "crash" may happen
    MaxVersion,   \* bound: edits of one skill file
    MaxBoots,     \* bound: process starts of one builder
    MaxRepairs,   \* bound: how often one vector is re-enqueued by a repair
    Nil           \* no event, no correlation id

(* The rebuild event of skill s is <<s, 0>>: its idempotency key names the
   skill id and nothing else.  <<s, n + 1>> repairs the event <<s, n>>. *)
Events == Skills \X (0..MaxRepairs)
Correlations == Builders \X (1..MaxBoots)
Versions == 0..MaxVersion

ASSUME OutboxAssumption ==
    /\ Poison \subseteq Skills
    /\ ClaimLimit \in Nat \ {0}
    /\ MaxRetries \in Nat \ {0}
    /\ Faults \subseteq {"pg", "qdrant", "embed", "crash"}
    /\ MaxVersion \in Nat \ {0}
    /\ MaxBoots \in Nat \ {0}
    /\ MaxRepairs \in Nat
    /\ Nil \notin Events
    /\ Nil \notin Correlations

VARIABLES
    content,   \* the SKILL.md files on disk: version of each skill, 0 = no file
    points,    \* the Qdrant collection: version of the vector stored per skill
    \* columns of outbox_events; an "absent" status is a row not inserted
    status, attempts, payload, correlation,
    \* local state of each graph-builder process
    pc, mode, boots, scanned, todo, batch, current

table == <<status, attempts, payload, correlation>>
local == <<pc, mode, boots, scanned, todo, batch, current>>
vars  == <<content, points, status, attempts, payload, correlation,
           pc, mode, boots, scanned, todo, batch, current>>

Unsettled == {"pending", "processing"}
Settled   == {"published", "failed"}

NoFiles == [s \in Skills |-> 0]
Correlation(b) == <<b, boots[b]>>

\* idempotency_key of the vector a rebuild emits for skill s
VectorKey(s) == <<s, 0>>

Init ==
    /\ content \in [Skills -> 0..1]
    /\ points = NoFiles
    /\ status = [e \in Events |-> "absent"]
    /\ attempts = [e \in Events |-> 0]
    /\ payload = [e \in Events |-> 0]
    /\ correlation = [e \in Events |-> Nil]
    /\ pc = [b \in Builders |-> "down"]
    /\ mode = [b \in Builders |-> "startup"]
    /\ boots = [b \in Builders |-> 0]
    /\ scanned = [b \in Builders |-> NoFiles]
    /\ todo = [b \in Builders |-> {}]
    /\ batch = [b \in Builders |-> {}]
    /\ current = [b \in Builders |-> Nil]

-----------------------------------------------------------------------------
(* The environment: an author edits a skill file. *)
EditSkill(s) ==
    /\ content[s] < MaxVersion
    /\ content' = [content EXCEPT ![s] = @ + 1]
    /\ UNCHANGED <<points, table, local>>

(* Faulty variant: the process goes straight to its loop. *)
BootNoStartupDrain(b) ==
    /\ pc[b] = "down"
    /\ boots[b] < MaxBoots
    /\ boots' = [boots EXCEPT ![b] = @ + 1]
    /\ pc' = [pc EXCEPT ![b] = "idle"]
    /\ mode' = [mode EXCEPT ![b] = "startup"]
    /\ scanned' = [scanned EXCEPT ![b] = NoFiles]
    /\ UNCHANGED <<content, points, table, todo, batch, current>>

(* A process starts: empty watcher snapshot, a correlation id drawn once for
   the life of the process, and the start-up drain of all pending rows. *)
Boot(b) ==
    /\ pc[b] = "down"
    /\ boots[b] < MaxBoots
    /\ boots' = [boots EXCEPT ![b] = @ + 1]
    /\ pc' = [pc EXCEPT ![b] = "claim"]
    /\ mode' = [mode EXCEPT ![b] = "startup"]
    /\ scanned' = [scanned EXCEPT ![b] = NoFiles]
    /\ UNCHANGED <<content, points, table, todo, batch, current>>

(* The process dies wherever it is.  Rows it had claimed stay "processing". *)
Crash(b) ==
    /\ "crash" \in Faults
    /\ pc[b] # "down"
    /\ boots[b] < MaxBoots
    /\ pc' = [pc EXCEPT ![b] = "down"]
    /\ todo' = [todo EXCEPT ![b] = {}]
    /\ batch' = [batch EXCEPT ![b] = {}]
    /\ current' = [current EXCEPT ![b] = Nil]
    /\ UNCHANGED <<content, points, table, mode, boots, scanned>>

(* An error returned to the loop of main: the cycle is logged as failed, the
   start-up drain as incomplete, and the loop goes on. *)
Abandon(b) ==
    /\ pc' = [pc EXCEPT ![b] = "idle"]
    /\ todo' = [todo EXCEPT ![b] = {}]
    /\ batch' = [batch EXCEPT ![b] = {}]
    /\ current' = [current EXCEPT ![b] = Nil]
    /\ UNCHANGED <<content, points, table, mode, boots, scanned>>

(* Postgres is needed by every step of these places of the program.  A commit
   whose answer is lost needs no case of its own: what it leaves is what the
   step leaves when Qdrant and then Postgres fail at the steps after it. *)
PgFails(b) ==
    /\ "pg" \in Faults
    /\ pc[b] \in {"append", "check", "claim", "mark_published", "mark_failed"}
    /\ Abandon(b)

-----------------------------------------------------------------------------
(* run_rebuild_cycle and the head of rebuild_from_changes: the watcher moves
   its snapshot forward, then the tree is read and embedded. *)
ScanAndBuild(b) ==
    /\ pc[b] = "idle"
    /\ content # scanned[b]
    /\ scanned' = [scanned EXCEPT ![b] = content]
    /\ \/ /\ todo' = [todo EXCEPT ![b] = {s \in Skills : content[s] > 0}]
          /\ pc' = [pc EXCEPT ![b] = "append"]
          /\ mode' = [mode EXCEPT ![b] = "drain"]
       \/ /\ "embed" \in Faults
          /\ UNCHANGED <<todo, pc, mode>>
    /\ UNCHANGED <<content, points, table, boots, batch, current>>

(* Faulty variant: ON CONFLICT DO UPDATE re-opens the row. *)
InsertReopens(e, ver, corr) ==
    /\ status' = [status EXCEPT ![e] = "pending"]
    /\ attempts' = [attempts EXCEPT ![e] = 0]
    /\ payload' = [payload EXCEPT ![e] = ver]
    /\ correlation' = [correlation EXCEPT ![e] = corr]

(* insert_outbox_event_idempotent: ON CONFLICT (idempotency_key) DO NOTHING. *)
InsertIdempotent(e, ver, corr) ==
    IF status[e] = "absent"
    THEN /\ status' = [status EXCEPT ![e] = "pending"]
         /\ attempts' = [attempts EXCEPT ![e] = 0]
         /\ payload' = [payload EXCEPT ![e] = ver]
         /\ correlation' = [correlation EXCEPT ![e] = corr]
    ELSE UNCHANGED table

(* persist_graph_mutation, the loop over the skills of the new snapshot. *)
AppendVector(b, s) ==
    /\ pc[b] = "append"
    /\ s \in todo[b]
    /\ InsertIdempotent(VectorKey(s), scanned[b][s], Correlation(b))
    /\ todo' = [todo EXCEPT ![b] = @ \ {s}]
    /\ UNCHANGED <<content, points, pc, mode, boots, scanned, batch, current>>

AppendsDone(b) ==
    /\ pc[b] = "append"
    /\ todo[b] = {}
    /\ pc' = [pc EXCEPT ![b] = "check"]
    /\ UNCHANGED <<content, points, table, mode, boots, scanned, todo, batch, current>>

-----------------------------------------------------------------------------
(* Faulty variant: rows another relay is working on are not counted. *)
HasPendingNotProcessing(corr) ==
    \E e \in Events : status[e] = "pending" /\ correlation[e] = corr

HasPending(corr) ==
    \E e \in Events : status[e] \in Unsettled /\ correlation[e] = corr

(* The head of drain_correlation_outbox's loop. *)
CheckDrained(b) ==
    /\ pc[b] = "check"
    /\ pc' = [pc EXCEPT ![b] =
                 IF HasPending(Correlation(b)) THEN "claim" ELSE "drained"]
    /\ UNCHANGED <<content, points, table, mode, boots, scanned, todo, batch, current>>

(* Faulty variant: the claim does not skip rows that are being processed. *)
ClaimableProcessingToo(b) ==
    {e \in Events : /\ status[e] \in Unsettled
                    /\ mode[b] = "drain" => correlation[e] = Correlation(b)}

(* Rows a claim may take: any pending one at start-up, those of the process's
   own correlation id in a rebuild's drain. *)
Claimable(b) ==
    {e \in Events : /\ status[e] = "pending"
                    /\ mode[b] = "drain" => correlation[e] = Correlation(b)}

(* As many claimable rows as the LIMIT allows, whichever the ORDER BY picks. *)
ClaimBatches(b) ==
    {S \in SUBSET Claimable(b) :
        \/ S = Claimable(b) /\ Cardinality(S) =< ClaimLimit
        \/ Cardinality(S) = ClaimLimit}

(* UPDATE ... FOR UPDATE SKIP LOCKED: one atomic step.  An empty claim ends
   the start-up drain, and is the stall error of a rebuild's drain. *)
ClaimBatch(b) ==
    /\ pc[b] = "claim"
    /\ \E S \in ClaimBatches(b) :
          /\ status' = [e \in Events |->
                           IF e \in S THEN "processing" ELSE status[e]]
          /\ batch' = [batch EXCEPT ![b] = S]
          /\ pc' = [pc EXCEPT ![b] = IF S = {} THEN "idle" ELSE "relay"]
    /\ UNCHANGED <<content, points, attempts, payload, correlation,
                   mode, boots, scanned, todo, current>>

(* Faulty variant: the answer of the vector store is not looked at. *)
WriteVectorUnchecked(b, e) ==
    /\ pc[b] = "relay"
    /\ e \in batch[b]
    /\ current' = [current EXCEPT ![b] = e]
    /\ pc' = [pc EXCEPT ![b] = "mark_published"]
    /\ \/ points' = [points EXCEPT ![e[1]] = payload[e]]
       \/ "qdrant" \in Faults /\ points' = points
    /\ UNCHANGED <<content, table, mode, boots, scanned, todo, batch>>

(* How an upsert may end: "lost" is a write that was applied and reported as
   failed, by a timeout, a broken connection or an unreadable answer. *)
upsert_vector(e) ==
    IF e[1] \in Poison THEN {"failed"}
    ELSE IF "qdrant" \in Faults THEN {"ok", "failed", "lost"} ELSE {"ok"}

(* process_claimed_records up to the answer of the vector store. *)
WriteVector(b, e) ==
    /\ pc[b] = "relay"
    /\ e \in batch[b]
    /\ current' = [current EXCEPT ![b] = e]
    /\ \E answer \in upsert_vector(e) :
          /\ points' = IF answer = "failed" THEN points
                       ELSE [points EXCEPT ![e[1]] = payload[e]]
          /\ pc' = [pc EXCEPT ![b] = IF answer = "ok" THEN "mark_published" ELSE "mark_failed"]
    /\ UNCHANGED <<content, table, mode, boots, scanned, todo, batch>>

(* The record is done with: the next of the batch, or the loop that claimed it. *)
NextRecord(b, e) ==
    /\ batch' = [batch EXCEPT ![b] = @ \ {e}]
    /\ current' = [current EXCEPT ![b] = Nil]
    /\ pc' = [pc EXCEPT ![b] = IF batch[b] # {e} THEN "relay"
                               ELSE IF mode[b] = "startup" THEN "claim"
                               ELSE "check"]
    /\ UNCHANGED <<content, points, mode, boots, scanned, todo>>

(* mark_outbox_published: only a processing row, else IllegalTransition. *)
MarkPublished(b) ==
    /\ pc[b] = "mark_published"
    /\ LET e == current[b] IN
       \/ /\ status[e] = "processing"
          /\ status' = [status EXCEPT ![e] = "published"]
          /\ UNCHANGED <<attempts, payload, correlation>>
          /\ NextRecord(b, e)
       \/ /\ status[e] # "processing"
          /\ Abandon(b)

(* Faulty variants of the retry accounting: a failed delivery that is not
   counted, one that is never the last, and an off-by-one in the budget. *)
MarkFailedAs(b, newStatus, newAttempts) ==
    /\ pc[b] = "mark_failed"
    /\ status[current[b]] = "processing"
    /\ status' = [status EXCEPT ![current[b]] = newStatus]
    /\ attempts' = [attempts EXCEPT ![current[b]] = newAttempts]
    /\ UNCHANGED <<payload, correlation>>
    /\ NextRecord(b, current[b])
MarkFailedUncounted(b) == MarkFailedAs(b, "pending", attempts[current[b]])
MarkFailedForever(b) == MarkFailedAs(b, "pending", attempts[current[b]] + 1)
MarkFailedLate(b) ==
    MarkFailedAs(b, IF attempts[current[b]] >= MaxRetries THEN "failed" ELSE "pending",
                 attempts[current[b]] + 1)

(* mark_outbox_failed: back to pending until the retry budget is spent. *)
MarkFailed(b) ==
    /\ pc[b] = "mark_failed"
    /\ LET e == current[b] IN
       \/ /\ status[e] = "processing"
          /\ status' = [status EXCEPT ![e] =
                           IF attempts[e] + 1 >= MaxRetries THEN "failed" ELSE "pending"]
          /\ attempts' = [attempts EXCEPT ![e] = @ + 1]
          /\ UNCHANGED <<payload, correlation>>
          /\ NextRecord(b, e)
       \/ /\ status[e] # "processing"
          /\ Abandon(b)

(* The drain returned Ok: rebuild_from_changes bumps the graph version and
   announces graph.rebuilt (module GraphRefresh), and the cycle is over. *)
FinishCycle(b) ==
    /\ pc[b] = "drained"
    /\ pc' = [pc EXCEPT ![b] = "idle"]
    /\ UNCHANGED <<content, points, table, mode, boots, scanned, todo, batch, current>>

-----------------------------------------------------------------------------
BuilderStep(b) ==
    \/ Boot(b) \/ ScanAndBuild(b) \/ AppendsDone(b) \/ CheckDrained(b)
    \/ ClaimBatch(b) \/ MarkPublished(b) \/ MarkFailed(b) \/ FinishCycle(b)
    \/ \E s \in Skills : AppendVector(b, s)
    \/ \E e \in Events : WriteVector(b, e)

Next ==
    \/ \E s \in Skills : EditSkill(s)
    \/ \E b \in Builders : BuilderStep(b) \/ Crash(b) \/ PgFails(b)

Spec == Init /\ [][Next]_vars

(* The process runs its loop; the container's restart policy starts it again. *)
FairSpec == Spec /\ \A b \in Builders : WF_vars(BuilderStep(b))

-----------------------------------------------------------------------------
Places == {"down", "idle", "append", "check", "claim", "relay",
           "mark_published", "mark_failed", "drained"}
Marking == {"mark_published", "mark_failed"}

(* Type invariant. *)
TypeOK ==
    /\ content \in [Skills -> Versions]
    /\ points \in [Skills -> Versions]
    /\ status \in [Events -> {"absent"} \cup Unsettled \cup Settled]
    /\ attempts \in [Events -> 0..MaxRetries]
    /\ payload \in [Events -> Versions]
    /\ correlation \in [Events -> Correlations \cup {Nil}]
    /\ pc \in [Builders -> Places]
    /\ mode \in [Builders -> {"startup", "drain"}]
    /\ boots \in [Builders -> 0..MaxBoots]
    /\ scanned \in [Builders -> [Skills -> Versions]]
    /\ todo \in [Builders -> SUBSET Skills]
    /\ batch \in [Builders -> SUBSET Events]
    /\ current \in [Builders -> Events \cup {Nil}]

(* No row is ever in the hands of two relays, and a relay only works on rows
   that are still marked as being processed: the claim is one atomic UPDATE
   with SKIP LOCKED, and only the claimer moves a row out of 'processing'. *)
ClaimsExclusive ==
    /\ \A b \in Builders : \A e \in batch[b] : status[e] = "processing"
    /\ \A b, c \in Builders : b # c => batch[b] \cap batch[c] = {}

(* mark_outbox_failed spends one attempt per failed delivery, whichever
   process makes it: a row still to be delivered has attempts left, and a row
   is given up exactly when the budget is gone. *)
RetryBudget ==
    \A e \in Events : /\ status[e] = "failed" <=> attempts[e] = MaxRetries
                      /\ status[e] = "absent" => attempts[e] = 0

(* A row is 'published' only after its vector is in Qdrant, across crashes
   and lost answers: the upsert comes before the mark. *)
PublishedHasVector ==
    \A e \in Events : status[e] = "published" => points[e[1]] = payload[e]

(* When the drain lets a rebuild go on, no row of its correlation id is left
   to deliver, and every skill of the snapshot has a row of some rebuild. *)
DrainedMeansSettled ==
    \A b \in Builders : pc[b] = "drained" =>
        /\ ~ HasPending(Correlation(b))
        /\ \A s \in Skills : scanned[b][s] > 0 => status[VectorKey(s)] # "absent"

(* A settled row is never touched again, and an event keeps its payload and
   its correlation id from the insert on: nothing redelivers, and a second
   insert under the same idempotency key changes nothing. *)
SettledRowsStable ==
    [][\A e \in Events :
          /\ status[e] \in Settled => status'[e] = status[e]
          /\ status[e] # "absent" => /\ payload'[e] = payload[e]
                                     /\ correlation'[e] = correlation[e]
                                     /\ attempts'[e] >= attempts[e]]_vars

(* drain_correlation_outbox and relay_all_pending_to_completion terminate:
   they loop with no cycle cap, and the retry budget bounds them. *)
DrainTerminates ==
    \A b \in Builders :
        pc[b] \in {"check", "claim", "relay"} ~> pc[b] \in {"drained", "idle", "down"}

(* A claimed row that no live process has in hand any more. *)
Stranded(e) == status[e] = "processing" /\ \A b \in Builders : e \notin batch[b]

(* Every pending row is settled, whichever process inserted it and wherever
   processes die, unless its claimer dies with it: the start-up drain finds
   what an earlier process left pending, and each failure spends an attempt. *)
PendingSettles ==
    \A e \in Events : status[e] = "pending" ~> (status[e] \in Settled \/ Stranded(e))

-----------------------------------------------------------------------------
(* What a comment of the code says, and the code does not do. *)

(* persist_graph_mutation: "A key that already exists means the vector is
   already enqueued/published". *)
DrainedMeansFresh ==
    \A b \in Builders : pc[b] = "drained" =>
        \A s \in Skills : scanned[b][s] > 0 => points[s] >= scanned[b][s]

=============================================================================

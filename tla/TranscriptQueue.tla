-------------------------- MODULE TranscriptQueue ---------------------------
(***************************************************************************)
(* The durable transcript-ingest queue: host hooks post transcripts to     *)
(* mcp-server, which inserts one row per distinct content; maintenance     *)
(* workers claim bounded batches, run the extractor on each row, which     *)
(* writes .pending drafts, and mark the row.                               *)
(*                                                                         *)
(* Sources: crates/infrastructure/src/persistence/transcript_queue.rs,     *)
(*          crates/maintenance/src/transcript_drain.rs and runtime.rs,     *)
(*          crates/mcp-server/src/lib.rs (ingest_transcript),              *)
(*          crates/session-extractor/src/lib.rs (extract_blocking).        *)
(***************************************************************************)
EXTENDS Integers, FiniteSets

CONSTANTS
    Contents,     \* transcript contents, one per content_hash
    Posts,        \* what hooks post: a content, a source and a secret header
    Secret,       \* the shared secret the server is configured with, or Nil
    Refused,      \* contents enqueue refuses: blank, or above the byte limit
    Unreadable,   \* contents on which the extractor always fails
    Workers,      \* maintenance-worker processes
    BatchLimit,   \* DEFAULT_TRANSCRIPT_DRAIN_BATCH (16 in the code)
    MaxAttempts,  \* MAX_TRANSCRIPT_DRAIN_ATTEMPTS (3 in the code)
    Faults,       \* which of "pg", "extract", "tick", "crash" may happen
    MaxBoots,     \* bound: starts of one worker process
    Nil           \* no row at hand

ASSUME QueueAssumption ==
    /\ IsFiniteSet(Contents)
    /\ Posts \subseteq [content : Contents, source : STRING, secret : STRING]
    /\ Refused \subseteq Contents
    /\ Unreadable \subseteq Contents
    /\ BatchLimit \in Nat \ {0}
    /\ MaxAttempts \in Nat \ {0}
    /\ Faults \subseteq {"pg", "extract", "tick", "crash"}
    /\ MaxBoots \in Nat \ {0}
    /\ Nil \notin Contents

VARIABLES
    \* columns of transcript_ingest_queue; an "absent" status is a content that
    \* was never accepted, and enqueuedAt counts insertions
    status, attempts, enqueuedAt,
    \* local state of each worker: where it is, the claimed rows still to do
    \* and the row whose extraction has just returned
    pc, batch, current, boots,
    drafts,       \* contents whose .pending drafts are on disk
    extractions   \* history: extractor runs started on each content

table == <<status, attempts, enqueuedAt>>
local == <<pc, batch, current, boots>>
vars  == <<status, attempts, enqueuedAt, pc, batch, current, boots, drafts, extractions>>

Settled == {"processed", "failed"}

Now == Cardinality({c \in Contents : status[c] # "absent"}) + 1

Init ==
    /\ status = [c \in Contents |-> "absent"]
    /\ attempts = [c \in Contents |-> 0]
    /\ enqueuedAt = [c \in Contents |-> 0]
    /\ pc = [w \in Workers |-> "down"]
    /\ batch = [w \in Workers |-> {}]
    /\ current = [w \in Workers |-> Nil]
    /\ boots = [w \in Workers |-> 0]
    /\ drafts = {}
    /\ extractions = [c \in Contents |-> 0]

-----------------------------------------------------------------------------
(* With no secret configured the server relies on its loopback binding. *)
check_ingest_secret(post) == Secret = Nil \/ post.secret = Secret

TranscriptSources == {"session_end", "pre_compact", "reconcile"}

(* McpServerApp::ingest_transcript: the source must be known, the content one
   that enqueue takes. *)
ingest_transcript(post) ==
    /\ post.source \in TranscriptSources
    /\ post.content \notin Refused

(* ingest_transcript_handler: any other post is answered with an error status
   and changes nothing. *)
Admitted(c) ==
    \E post \in Posts : /\ post.content = c
                        /\ check_ingest_secret(post)
                        /\ ingest_transcript(post)

(* Faulty variant: ON CONFLICT DO UPDATE queues a known content once more. *)
EnqueueAgain(c) ==
    /\ Admitted(c)
    /\ status' = [status EXCEPT ![c] = "pending"]
    /\ enqueuedAt' = [enqueuedAt EXCEPT ![c] = Now]
    /\ UNCHANGED <<attempts, local, drafts, extractions>>

(* A hook posts a transcript: SessionEnd, PreCompact and a repeated post of
   either are alike.  ingest_transcript and enqueue: the insert does nothing
   when the content_hash is known, and the caller is told "duplicate". *)
Enqueue(c) ==
    /\ Admitted(c)
    /\ \/ /\ status[c] = "absent"
          /\ status' = [status EXCEPT ![c] = "pending"]
          /\ enqueuedAt' = [enqueuedAt EXCEPT ![c] = Now]
          /\ UNCHANGED attempts
       \/ /\ status[c] # "absent"
          /\ UNCHANGED table
    /\ UNCHANGED <<local, drafts, extractions>>

-----------------------------------------------------------------------------
(* run_maintenance_worker: the start-up sweep runs before the first tick. *)
Boot(w) ==
    /\ pc[w] = "down"
    /\ boots[w] < MaxBoots
    /\ boots' = [boots EXCEPT ![w] = @ + 1]
    /\ pc' = [pc EXCEPT ![w] = "sweep"]
    /\ UNCHANGED <<table, batch, current, drafts, extractions>>

(* The cron tick before a sweep; one that fails ends the process. *)
Tick(w) ==
    /\ pc[w] = "tick"
    /\ \/ pc' = [pc EXCEPT ![w] = "sweep"]
       \/ /\ "tick" \in Faults
          /\ boots[w] < MaxBoots
          /\ pc' = [pc EXCEPT ![w] = "down"]
    /\ UNCHANGED <<table, batch, current, boots, drafts, extractions>>

(* drain_transcripts logs an error of drain_once and returns to the loop; the
   rows the sweep had claimed are forgotten as they are. *)
AbandonSweep(w) ==
    /\ pc' = [pc EXCEPT ![w] = "tick"]
    /\ batch' = [batch EXCEPT ![w] = {}]
    /\ current' = [current EXCEPT ![w] = Nil]
    /\ UNCHANGED <<table, boots, drafts, extractions>>

PgFails(w) ==
    /\ "pg" \in Faults
    /\ pc[w] \in {"sweep", "mark_processed", "mark_failed"}
    /\ AbandonSweep(w)

Crash(w) ==
    /\ "crash" \in Faults
    /\ pc[w] # "down"
    /\ boots[w] < MaxBoots
    /\ pc' = [pc EXCEPT ![w] = "down"]
    /\ batch' = [batch EXCEPT ![w] = {}]
    /\ current' = [current EXCEPT ![w] = Nil]
    /\ UNCHANGED <<table, boots, drafts, extractions>>

-----------------------------------------------------------------------------
(* Faulty variants of the claim's WHERE clause: rows another worker is busy
   with, and only rows that have never failed. *)
ClaimableBusyToo == {c \in Contents : status[c] \in {"pending", "processing"}}
ClaimableFresh == {c \in Contents : status[c] = "pending" /\ attempts[c] = 0}

Claimable == {c \in Contents : status[c] = "pending"}

(* ORDER BY enqueued_at LIMIT: the oldest rows, as many as the limit allows. *)
OldestFirst(S) ==
    /\ \/ Cardinality(S) = BatchLimit
       \/ S = Claimable /\ Cardinality(S) =< BatchLimit
    /\ \A c \in S, d \in Claimable \ S : enqueuedAt[c] =< enqueuedAt[d]

(* claim_pending: one atomic UPDATE ... FOR UPDATE SKIP LOCKED. *)
Claim(w) ==
    /\ pc[w] = "sweep"
    /\ \E S \in SUBSET Claimable :
          /\ OldestFirst(S)
          /\ status' = [c \in Contents |-> IF c \in S THEN "processing" ELSE status[c]]
          /\ batch' = [batch EXCEPT ![w] = S]
          /\ pc' = [pc EXCEPT ![w] = IF S = {} THEN "tick" ELSE "extract"]
    /\ UNCHANGED <<attempts, enqueuedAt, current, boots, drafts, extractions>>

(* Faulty variant: a failed draft write is answered like a good one. *)
ExtractUnchecked(w, c) ==
    /\ pc[w] = "extract"
    /\ c \in batch[w]
    /\ current' = [current EXCEPT ![w] = c]
    /\ extractions' = [extractions EXCEPT ![c] = @ + 1]
    /\ pc' = [pc EXCEPT ![w] = "mark_processed"]
    /\ drafts' = IF c \in Unreadable THEN drafts ELSE drafts \cup {c}
    /\ UNCHANGED <<table, batch, boots>>

(* extract_blocking: the drafts of a run are written all or none, and it
   returns Ok only after they are.  RETURNING promises no order of rows. *)
Extract(w, c) ==
    /\ pc[w] = "extract"
    /\ c \in batch[w]
    /\ current' = [current EXCEPT ![w] = c]
    /\ extractions' = [extractions EXCEPT ![c] = @ + 1]
    /\ \/ /\ c \notin Unreadable
          /\ drafts' = drafts \cup {c}
          /\ pc' = [pc EXCEPT ![w] = "mark_processed"]
       \/ /\ c \in Unreadable \/ "extract" \in Faults
          /\ drafts' = drafts
          /\ pc' = [pc EXCEPT ![w] = "mark_failed"]
    /\ UNCHANGED <<table, batch, boots>>

(* The next row of the sweep, or the end of it. *)
NextRow(w) ==
    /\ batch' = [batch EXCEPT ![w] = @ \ {current[w]}]
    /\ current' = [current EXCEPT ![w] = Nil]
    /\ pc' = [pc EXCEPT ![w] = IF batch[w] = {current[w]} THEN "tick" ELSE "extract"]
    /\ UNCHANGED <<enqueuedAt, boots, drafts, extractions>>

(* The UPDATEs of both marks touch a row that is 'processing' only; on any
   other they change nothing and report no error. *)
MarkProcessed(w) ==
    /\ pc[w] = "mark_processed"
    /\ status' = [status EXCEPT ![current[w]] = IF @ = "processing" THEN "processed" ELSE @]
    /\ UNCHANGED attempts
    /\ NextRow(w)

(* Faulty variants: the budget is tested before it is spent; a failure that
   is never counted. *)
MarkFailedOneMore(w) ==
    /\ pc[w] = "mark_failed"
    /\ LET c == current[w] IN
         /\ status' = [status EXCEPT ![c] =
                          IF attempts[c] >= MaxAttempts THEN "failed" ELSE "pending"]
         /\ attempts' = [attempts EXCEPT ![c] = @ + 1]
    /\ NextRow(w)
MarkFailedUncounted(w) ==
    /\ pc[w] = "mark_failed"
    /\ status' = [status EXCEPT ![current[w]] = "pending"]
    /\ UNCHANGED attempts
    /\ NextRow(w)

MarkFailed(w) ==
    /\ pc[w] = "mark_failed"
    /\ LET c == current[w] IN
       \/ /\ status[c] = "processing"
          /\ status' = [status EXCEPT ![c] =
                           IF attempts[c] + 1 >= MaxAttempts THEN "failed" ELSE "pending"]
          /\ attempts' = [attempts EXCEPT ![c] = @ + 1]
       \/ /\ status[c] # "processing"
          /\ UNCHANGED <<status, attempts>>
    /\ NextRow(w)

-----------------------------------------------------------------------------
WorkerStep(w) ==
    \/ Boot(w) \/ Tick(w) \/ Claim(w) \/ MarkProcessed(w) \/ MarkFailed(w)
    \/ \E c \in Contents : Extract(w, c)

Next ==
    \/ \E c \in Contents : Enqueue(c)
    \/ \E w \in Workers : WorkerStep(w) \/ PgFails(w) \/ Crash(w)

Spec == Init /\ [][Next]_vars

(* Each worker runs its loop, and the container's restart policy starts a
   process that ended.  Postgres does not refuse every claim for ever. *)
FairSpec == Spec /\ \A w \in Workers : WF_vars(WorkerStep(w)) /\ SF_vars(Claim(w))

-----------------------------------------------------------------------------
Places == {"down", "tick", "sweep", "extract", "mark_processed", "mark_failed"}
Busy == {"extract", "mark_processed", "mark_failed"}

(* Type invariant. *)
TypeOK ==
    /\ status \in [Contents -> {"absent", "pending", "processing"} \cup Settled]
    /\ attempts \in [Contents -> 0..MaxAttempts]
    /\ enqueuedAt \in [Contents -> Nat]
    /\ pc \in [Workers -> Places]
    /\ batch \in [Workers -> SUBSET Contents]
    /\ current \in [Workers -> Contents \cup {Nil}]
    /\ boots \in [Workers -> 0..MaxBoots]
    /\ drafts \subseteq Contents
    /\ extractions \in [Contents -> Nat]

(* "FOR UPDATE SKIP LOCKED so concurrent drains never collide": no row is in
   the sweep of two workers, and a row in a sweep is still 'processing', so
   the silent no-op branch of the two marks is never taken. *)
SweepsDisjoint ==
    /\ \A w \in Workers : \A c \in batch[w] : status[c] = "processing"
    /\ \A v, w \in Workers : v # w => batch[v] \cap batch[w] = {}

(* drain_once marks a row 'processed' only after extract_blocking has written
   its drafts, whatever fails in between: no acknowledged transcript is lost. *)
ProcessedHasDraft ==
    \A c \in Contents : status[c] = "processed" => c \in drafts

(* The extractor (a paid LLM call) runs at most MAX_TRANSCRIPT_DRAIN_ATTEMPTS
   times on one content, over all workers, restarts and repeated posts. *)
ExtractionBudget == \A c \in Contents : extractions[c] =< MaxAttempts

(* The drafts of one content are written once: after a successful extraction
   no later sweep, restart or repeated post extracts the content again. *)
DraftedOnce ==
    [][\A c \in drafts : extractions'[c] = extractions[c]]_vars

(* A claimed row that no live sweep has in hand any more. *)
Stranded(c) == status[c] = "processing" /\ \A w \in Workers : c \notin batch[w]

(* A pending row is processed or given up, although every sweep is cut off at
   the batch limit, retries go back into the queue and processes end between
   sweeps, unless the sweep that claimed it is cut short. *)
BacklogDrains ==
    \A c \in Contents : status[c] = "pending" ~> (status[c] \in Settled \/ Stranded(c))

-----------------------------------------------------------------------------
(* What a comment of the code says, and the code does not do. *)

(* transcript_drain.rs: "rows persist until marked `processed`, so a worker
   restart resumes the backlog". *)
RestartResumesBacklog ==
    \A c \in Contents : status[c] = "processing" ~> status[c] # "processing"

=============================================================================

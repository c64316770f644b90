--------------------------- MODULE ExtractionPool ---------------------------
(***************************************************************************)
(* The in-memory extraction worker pool behind the extract_session tool: a *)
(* request is announced on the Redis stream, then handed to a bounded      *)
(* channel from which workers take jobs; a job that outlives the optional  *)
(* wall-clock ceiling is put back with a backoff, and every job is ended   *)
(* with one terminal lifecycle event.                                      *)
(*                                                                         *)
(* Sources: crates/session-extractor/src/worker_pool.rs and src/lib.rs.    *)
(***************************************************************************)
EXTENDS Integers, Sequences, FiniteSets

CONSTANTS
    Jobs,         \* extract_session requests
    Workers,      \* worker tasks (max_concurrent, 4 in the code)
    QueueDepth,   \* capacity of the channel (64 in the code)
    MaxAttempts,  \* retry_policy.max_attempts (3 in the code)
    Endless,      \* jobs that never finish within the ceiling
    Timeout,      \* EXTRACTION_JOB_TIMEOUT_MS: "unset", "zero" or "positive"
    Faults,       \* which of "redis", "extract", "crash" may happen
    Nil           \* no job

ASSUME PoolAssumption ==
    /\ IsFiniteSet(Jobs)
    /\ QueueDepth \in Nat \ {0}
    /\ MaxAttempts \in Nat \ {0}
    /\ Endless \subseteq Jobs
    /\ Timeout \in {"unset", "zero", "positive"}
    /\ Faults \subseteq {"redis", "extract", "crash"}
    /\ Nil \notin Jobs

VARIABLES
    queue,     \* the channel
    at,        \* the job each worker has received
    pc,        \* where each worker is
    phase,     \* how far each request has come, the answer to its caller included
    hits,      \* ceiling_hits of each job
    drafts,    \* jobs whose .pending drafts are written
    log,       \* lifecycle_events, the process's own list, by job
    stream,    \* lifecycle events that reached the Redis stream, by job
    runs       \* history: runs of execute_job started, by job

worker == <<at, pc>>
events == <<log, stream>>
vars == <<queue, at, pc, phase, hits, drafts, log, stream, runs>>

(* from_environment: a run has a wall-clock ceiling only when the operator set
   one; zero and the default of either run path mean none. *)
Ceiling == Timeout = "positive"

Terminal == {"completed", "failed"}
(* How a job leaves its worker: an ExtractionOutcome, or every attempt cut off. *)
Outcomes == Terminal
Ending == Outcomes \cup {"exhausted"}

Init ==
    /\ queue = <<>>
    /\ at = [w \in Workers |-> Nil]
    /\ pc = [w \in Workers |-> "idle"]
    /\ phase = [j \in Jobs |-> "new"]
    /\ hits = [j \in Jobs |-> 0]
    /\ drafts = {}
    /\ log = [j \in Jobs |-> <<>>]
    /\ stream = [j \in Jobs |-> <<>>]
    /\ runs = [j \in Jobs |-> 0]

-----------------------------------------------------------------------------
(* publish_lifecycle_event: the local list first, then Redis.  A publish that
   fails may have reached the stream: only its answer was lost. *)
Publish(j, event, ok) ==
    /\ log' = [log EXCEPT ![j] = Append(@, event)]
    /\ \/ stream' = [stream EXCEPT ![j] = Append(@, event)]
       \/ ~ ok /\ stream' = stream
    /\ ok \/ "redis" \in Faults

(* Faulty variant: a request whose announcement failed is accepted. *)
RequestUnannounced(j) ==
    /\ phase[j] = "new"
    /\ \E ok \in BOOLEAN : Publish(j, "requested", ok)
    /\ phase' = [phase EXCEPT ![j] = "requested"]
    /\ UNCHANGED <<queue, worker, hits, drafts, runs>>

(* SessionExtractor::enqueue: a request that passes validation is announced;
   one that cannot be announced is answered "failed" and goes no further. *)
Request(j) ==
    /\ phase[j] = "new"
    /\ \E ok \in BOOLEAN :
          /\ Publish(j, "requested", ok)
          /\ phase' = [phase EXCEPT ![j] = IF ok THEN "requested" ELSE "refused"]
    /\ UNCHANGED <<queue, worker, hits, drafts, runs>>

(* ExtractionWorkerPool::submit: try_send never waits. *)
TrySend(j) ==
    \/ Len(queue) < QueueDepth /\ queue' = Append(queue, j)
    \/ Len(queue) >= QueueDepth /\ queue' = queue

(* The tail of enqueue: the caller is told "processing", or "rejected" when
   the channel is full. *)
Submit(j) ==
    /\ phase[j] = "requested"
    /\ TrySend(j)
    /\ phase' = [phase EXCEPT ![j] = IF Len(queue) < QueueDepth THEN "accepted" ELSE "refused"]
    /\ UNCHANGED <<worker, hits, drafts, events, runs>>

-----------------------------------------------------------------------------
(* worker_loop: recv, and execute_job starts. *)
Receive(w) ==
    /\ pc[w] = "idle"
    /\ queue # <<>>
    /\ at' = [at EXCEPT ![w] = Head(queue)]
    /\ queue' = Tail(queue)
    /\ pc' = [pc EXCEPT ![w] = "run"]
    /\ runs' = [runs EXCEPT ![Head(queue)] = @ + 1]
    /\ UNCHANGED <<phase, hits, drafts, events>>

(* execute_job returns: writing the drafts is its last act, with no await
   after it, so a completed job has them and a failed or cut-off one not. *)
Return(w) ==
    /\ pc[w] = "run"
    /\ ~ (Ceiling /\ at[w] \in Endless)
    /\ \/ /\ drafts' = drafts \cup {at[w]}
          /\ pc' = [pc EXCEPT ![w] = "completed"]
       \/ /\ "extract" \in Faults
          /\ drafts' = drafts
          /\ pc' = [pc EXCEPT ![w] = "failed"]
    /\ UNCHANGED <<queue, at, phase, hits, events, runs>>

(* The ceiling elapses and the run is dropped. *)
CeilingHit(w) ==
    /\ Ceiling
    /\ pc[w] = "run"
    /\ pc' = [pc EXCEPT ![w] = IF hits[at[w]] + 1 < MaxAttempts THEN "backoff" ELSE "exhausted"]
    /\ UNCHANGED <<queue, at, phase, hits, drafts, events, runs>>

(* Faulty variants of the requeue: one that waits for room in the channel,
   one that also keeps the job at the worker, and one that does not put the
   count of the hits into the job it sends. *)
RequeueBlocking(w) ==
    /\ pc[w] = "backoff"
    /\ hits' = [hits EXCEPT ![at[w]] = @ + 1]
    /\ Len(queue) < QueueDepth
    /\ queue' = Append(queue, at[w])
    /\ at' = [at EXCEPT ![w] = Nil]
    /\ pc' = [pc EXCEPT ![w] = "idle"]
    /\ UNCHANGED <<phase, drafts, events, runs>>
RequeueTwice(w) ==
    /\ pc[w] = "backoff"
    /\ hits' = [hits EXCEPT ![at[w]] = @ + 1]
    /\ queue' = IF Len(queue) < QueueDepth THEN Append(queue, at[w]) ELSE queue
    /\ pc' = [pc EXCEPT ![w] = "run"]
    /\ runs' = [runs EXCEPT ![at[w]] = @ + 1]
    /\ UNCHANGED <<at, phase, drafts, events>>

RequeueUncounted(w) ==
    /\ pc[w] = "backoff"
    /\ \/ /\ Len(queue) < QueueDepth
          /\ queue' = Append(queue, at[w])
          /\ at' = [at EXCEPT ![w] = Nil]
          /\ pc' = [pc EXCEPT ![w] = "idle"]
       \/ /\ Len(queue) >= QueueDepth
          /\ pc' = [pc EXCEPT ![w] = "exhausted"]
          /\ UNCHANGED <<queue, at>>
    /\ UNCHANGED <<hits, phase, drafts, events, runs>>

(* After the backoff: try_send again; a full channel ends the job. *)
Requeue(w) ==
    /\ pc[w] = "backoff"
    /\ hits' = [hits EXCEPT ![at[w]] = @ + 1]
    /\ \/ /\ Len(queue) < QueueDepth
          /\ queue' = Append(queue, at[w])
          /\ at' = [at EXCEPT ![w] = Nil]
          /\ pc' = [pc EXCEPT ![w] = "idle"]
       \/ /\ Len(queue) >= QueueDepth
          /\ pc' = [pc EXCEPT ![w] = "exhausted"]
          /\ UNCHANGED <<queue, at>>
    /\ UNCHANGED <<phase, drafts, events, runs>>

(* Faulty variant: a terminal event that did not go through is sent again. *)
EndRetrying(w) ==
    /\ pc[w] \in Ending
    /\ \E ok \in BOOLEAN :
          /\ Publish(at[w], IF pc[w] = "completed" THEN "completed" ELSE "failed", ok)
          /\ phase' = [phase EXCEPT ![at[w]] = IF ok THEN "done" ELSE @]
          /\ at' = [at EXCEPT ![w] = IF ok THEN Nil ELSE @]
          /\ pc' = [pc EXCEPT ![w] = IF ok THEN "idle" ELSE @]
    /\ UNCHANGED <<queue, hits, drafts, runs>>

(* The terminal event is published once: an error of the stream is logged, and
   the worker takes its next job. *)
EndWith(w, event) ==
    /\ \E ok \in BOOLEAN : Publish(at[w], event, ok)
    /\ phase' = [phase EXCEPT ![at[w]] = "done"]
    /\ at' = [at EXCEPT ![w] = Nil]
    /\ pc' = [pc EXCEPT ![w] = "idle"]
    /\ UNCHANGED <<queue, hits, drafts, runs>>

(* publish_terminal_event: the event says what the run came to. *)
End(w) == pc[w] \in Outcomes /\ EndWith(w, pc[w])

(* publish_ceiling_exhausted_event: no attempt is left, or no room to wait. *)
EndExhausted(w) == pc[w] = "exhausted" /\ EndWith(w, "failed")

(* The process dies: channel and workers live in its memory only. *)
Crash ==
    /\ "crash" \in Faults
    /\ \E j \in Jobs : phase[j] = "accepted"
    /\ queue' = <<>>
    /\ at' = [w \in Workers |-> Nil]
    /\ pc' = [w \in Workers |-> "idle"]
    /\ phase' = [j \in Jobs |->
                    IF phase[j] \in {"requested", "accepted"} THEN "lost" ELSE phase[j]]
    /\ UNCHANGED <<hits, drafts, events, runs>>

-----------------------------------------------------------------------------
WorkerStep(w) ==
    Receive(w) \/ Return(w) \/ CeilingHit(w) \/ Requeue(w) \/ End(w) \/ EndExhausted(w)

Next ==
    \/ \E j \in Jobs : Request(j) \/ Submit(j)
    \/ \E w \in Workers : WorkerStep(w)
    \/ Crash

Spec == Init /\ [][Next]_vars

(* The runtime polls every worker task, and a run ends: the calls of the
   language models have timeouts of their own, the embedder that the reduction
   asks has none and is assumed to answer, or the ceiling cuts the run off. *)
FairSpec == Spec /\ \A w \in Workers : WF_vars(WorkerStep(w))

-----------------------------------------------------------------------------
(* Type invariant. *)
TypeOK ==
    /\ queue \in Seq(Jobs) /\ Len(queue) =< QueueDepth
    /\ at \in [Workers -> Jobs \cup {Nil}]
    /\ pc \in [Workers -> {"idle", "run", "backoff"} \cup Ending]
    /\ phase \in [Jobs -> {"new", "requested", "accepted", "refused", "done", "lost"}]
    /\ hits \in [Jobs -> 0..(MaxAttempts - 1)]
    /\ drafts \subseteq Jobs
    /\ log \in [Jobs -> Seq({"requested"} \cup Terminal)]
    /\ stream \in [Jobs -> Seq({"requested"} \cup Terminal)]
    /\ runs \in [Jobs -> 0..MaxAttempts]

Queued(j) == {i \in 1..Len(queue) : queue[i] = j}
Holders(j) == {w \in Workers : at[w] = j}

(* The requeue carries the count of ceiling hits through the channel to the
   next worker: a waiting job has every run it was given charged, no job is run
   more than max_attempts times, and one is given up as exhausted only when it
   has used all of them or the channel turned it away.  The last of them ends
   the job: the code compares the hits after this one, although the contract
   above worker_loop requeues a job as long as its ceiling_hits is less than
   max_attempts, its third hit of three included. *)
RunsAreCharged ==
    /\ \A j \in Jobs : runs[j] <= MaxAttempts
    /\ \A i \in 1..Len(queue) : runs[queue[i]] = hits[queue[i]]
    /\ \A w \in Workers : pc[w] = "exhausted" => runs[at[w]] \in {MaxAttempts, hits[at[w]]}

(* An accepted job is in exactly one place, the channel or one worker, until
   it is ended, and then in none: no requeue loses or duplicates it. *)
JobInOnePlace ==
    \A j \in Jobs :
        Cardinality(Queued(j)) + Cardinality(Holders(j)) = IF phase[j] = "accepted" THEN 1 ELSE 0

(* worker_loop: "every accepted job emits one and only one terminal event",
   it says what became of the drafts, and nothing follows it. *)
OneTerminalEvent ==
    \A j \in Jobs :
        /\ phase[j] = "done" => log[j] \in {<<"requested", "completed">>, <<"requested", "failed">>}
        /\ phase[j] \in {"requested", "accepted", "refused", "lost"} => log[j] = <<"requested">>
        /\ phase[j] = "done" => (log[j][2] = "completed" <=> j \in drafts)

(* The pool path never puts a terminal event on the stream for a job whose
   request is not there before it: an unannounced request is not accepted.
   (extract_blocking of the transcript drain announces no request at all.) *)
AnnouncedBeforeEnded ==
    \A j \in Jobs : (\E i \in 1..Len(stream[j]) : stream[j][i] \in Terminal)
                       => stream[j][1] = "requested"

(* Every accepted job is ended, or lost with its process: no backoff, full
   channel or failing Redis holds a worker for ever. *)
AcceptedJobsEnd == \A j \in Jobs : phase[j] = "accepted" ~> phase[j] \in {"done", "lost"}

=============================================================================

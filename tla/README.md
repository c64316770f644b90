# TLA+ models of the dynamic agent skill layer

The skill layer keeps a graph of *skills* (markdown files), serves the relevant
ones to coding agents and turns finished sessions into new draft skills. This
directory holds TLA+ models of its processes, TLC configurations that check them
on small instances, and TLAPS proofs of their main safety properties for every
value of the constants. Paths are relative to `src/crates/` unless they start
with `docs/`.

## 1. Inventory

### Processes and data plane

Three services run from one code base (`docker-compose.yml`, each with
`restart: unless-stopped`): **graph-builder** (polls the skill directories and
rebuilds the graph), **mcp-server** (answers requests from an in-memory snapshot
of the graph, ingests transcripts, runs the extraction pool, hosts the admin
tools) and **maintenance** (drains the transcript queue, proposes merges,
retirements, promotions and demotions). They share PostgreSQL (graph snapshot,
`graph_version`, outbox, transcript queue, usage), Qdrant (vectors), Redis (one
event stream with consumer groups, session state) and the file system (skills,
`.pending` drafts, proposals). Embeddings and LLM calls go to Ollama or Claude.

### Components

| component | state | operations | what is hard | correct when |
|---|---|---|---|---|
| outbox and relay (`infrastructure/.../outbox.rs`) | `outbox_events` rows, Qdrant points | append (idempotent), claim, upsert, mark published/failed, drain, start-up drain | two relays, crash between upsert and mark, lost answers, retry budget, unbounded loops | a claim is exclusive, a published row is in Qdrant, retries are bounded, drains end |
| graph-builder loop (`graph-builder/src/main.rs`, `graph/rebuild.rs`, `watcher.rs`) | watcher snapshot, correlation id, event buffer, last published version | scan, build, persist, drain, bump, publish, replay | each step may fail and leaves the earlier ones done | every committed version is announced |
| snapshot store (`infrastructure/.../rebuild.rs`) | snapshot tables, `graph_version` | replace and bump (one transaction), bump, three load queries | concurrent rebuilds, loads torn between commits | a version names one content |
| Redis streams (`infrastructure/.../redis.rs`) | stream, group, pending list | ensure group, publish, read group, ack | lost replies, redelivery, NOGROUP, data loss | at-least-once |
| graph refresh (`mcp-server/src/graph_refresh_subscriber.rs`, `retrieval/.../orchestrator.rs`) | served snapshot, batch | read, reload, swap, ack | reload racing rebuilds, ack ordering | served version is monotonic, exact and catches up |
| admin rebuild (`admin/src/tools.rs`) | job queue | rebuild from inside the server | races the graph-builder, no lock | as above |
| transcript queue (`infrastructure/.../transcript_queue.rs`, `maintenance/...`) | queue rows, drafts | ingest, claim, extract, mark | two workers, crash or error inside a sweep, repeated posts | extracted once, at most three tries, none lost |
| extraction pool (`session-extractor/src/worker_pool.rs`, `lib.rs`) | channel, workers, lifecycle events | announce, submit, receive, run, ceiling, requeue, end | full channel at a requeue, failing Redis | one terminal event per accepted job |
| session context (`mcp-server` suppression, cache, `compile_context`) | local map + Redis keys per session | suppress, mark, cache, clear | background deletes racing reads and marks | a cleared session is clear; a cached context is the one asked for |
| maintenance passes (`maintenance` cron, merge, retire, promote) | proposal files, markers | boot, four passes per tick, human review | the first error ends the process; files of earlier runs stay | no waiting proposal is overwritten; passes do not undo each other; skills of a harness are left alone |
| extraction (`session-extractor` orchestrator, transcripts, segmentation, salience, skeleton, preamble, routing, seams) | windows, candidates | parse, segment, gate, mine, map, reduce, synthesise | windows fail, retries, pairwise merging | what was found is among the drafts |
| draft writer (`session-extractor/src/writer.rs`, `maintenance/src/cleanup.rs`) | `.pending` drafts, tombstones, temporary and backup files | plan, write, back up, commit, roll back, prune | failure or death between renames, other writers, the reviewer | a batch is all or nothing |
| retrieval (`retrieval`, `compiler`, `infrastructure/src/scope.rs`, `mcp-server` protocol and tools) | snapshot of a request, permits, breaker | resolve scopes, embed, search, fuse, compile, answer | swaps while a request waits, one scope failing | one version, the right project, no silent emptiness |
| usage writer, admin job queue (`mcp-server/src/usage_writer.rs`, `admin/src/tools.rs`) | channel, health marker, job map | post, write, submit, run, poll | full channel, commit without an answer, runner handing over | counted at most once; no job without a runner |
| model backends (`infrastructure/src/extraction`, `session-extractor/src/providers`) | none | call, parse, validate | every kind of reply | a failure is not an answer |
| context layout, communities, subunit rules, transport, health, types | none | pure functions, I/O | - | - |

`PROJECT.json` lists every component with its status and every hazard with the
line where it bites.

## 2. Modules

| module | models |
|---|---|
| `Outbox` (run through `MCOutbox`, which adds the symmetry set) | outbox table, Qdrant, any number of graph-builder processes |
| `OutboxProofs` | proofs about `Outbox` |
| `GraphRefresh` | files -> graph-builder -> Postgres -> Redis -> mcp-server, with the admin rebuild |
| `ReadModel` | what `GraphRefresh` promises: served versions are committed ones, never older, and catch up |
| `GraphRefreshProofs` | proofs about `GraphRefresh`, the refinement included |
| `TranscriptQueue` (run through `MCTranscripts`, which lists the posts), `TranscriptQueueProofs` | hooks, the ingest endpoint, queue table, maintenance workers, drafts |
| `ExtractionPool`, `ExtractionPoolProofs` | callers of extract_session, channel, worker tasks, lifecycle events |
| `SessionContext` (run through `MCSession`, which adds the symmetry set), `SessionContextProofs` | what mcp-server remembers of one session: suppression entries, cached contexts, their index and their mirror in Redis |
| `Providers` | pure: what each model backend makes of a reply, and which settings give which backend |
| `SessionEvents` | pure: transcript lines -> events -> windows, skeletons, salience, preamble |
| `DraftWriter` | the files of `.skills`, several writers, the reviewer, pruning |
| `Extraction` = `SessionEvents` + `DraftWriter` + `Providers` (run through `MCExtraction`), `ExtractionProofs` | one extraction job from the request to its batch of drafts, beside other batches |
| `Ranking` | pure: scope matching, scores, MMR, fusion, the cues a compiled context quotes |
| `Requests` = `Ranking` + the server (run through `MCRequests`), `RequestsProofs` | tool calls, breaker, permits, search, answers, usage writer, rebuild jobs |
| `Maintenance` (with `Providers`; run through `MCMaintenance`), `MaintenanceProofs` | the maintenance worker's boot, tick and passes, proposal files, the reviewer |

The modules meet at these points: `Extraction` is what `Return` of
`ExtractionPool` and `Extract` of `TranscriptQueue` stand for; the retrieval in
`Requests` is what `Retrieve` of `SessionContext` stands for; the rebuild jobs
of `Requests` run what `AdminBuild` and `AdminPersist` of `GraphRefresh` do in
detail; the drain that gates a rebuild in `GraphRefresh` is `Outbox`; the tick
of `TranscriptQueue` is the tick of `Maintenance`.

**Outbox.** The columns `status`, `attempts`, `payload` and `correlation` are
functions over events; an event is `<<skill, 0>>` because the idempotency key
of a rebuild names the skill id, which is the hash of the file's *path*, and
nothing else. A process is at one of the places of `Places`: the start-up drain
and a rebuild's drain are the same claim/relay/mark loop with a different
`mode`, as in the code. A claim is one atomic step (a single UPDATE with SKIP
LOCKED); the upsert and the mark are two, with crash and error between them. A
failed upsert may have been applied (its answer was lost). `Poison` skills are
records whose payload or event type the relay refuses every time. The
announcement after a drain is in `GraphRefresh`.

**GraphRefresh.** The content of all skill files is one number, the edits made
so far; `pgTree` is the number whose files the snapshot tables were built from.
The version is bumped twice per rebuild, once in the snapshot transaction and
once after the drain, as the code does; only the second is announced by the
cycle, and the first can be announced by the replay. The stream is the set of
undelivered entries plus the pending list of the one consumer; an entry is the
version it announces. A batch is everything available (the code reads up to 64).
`build_graph_from_pg` is three steps. `Fault(kind)` spends a bounded budget.

**TranscriptQueue.** A row per distinct content, claimed oldest first. An
extraction writes its drafts and returns, or fails; the mark follows. Any
Postgres error inside a sweep abandons the sweep as `drain_once`'s `?` does.

**ExtractionPool.** The channel is a bounded sequence; `try_send` never waits.
The wall-clock ceiling may cut any run, and always cuts the `Endless` jobs.
`log` is the process's own list of lifecycle events, `stream` what reached Redis.
The terminal events that `extract_blocking` publishes by itself, without a
request before them (`session-extractor/src/lib.rs:1053-1083`), are not in the
module: the properties are about the jobs of the pool.

**SessionContext.** Sessions share no key, so one is modelled. `inner` and
`index` stand for the maps and session indexes of both stores, `redis` for the
mirror. A `compile_context` request goes through up to four lookups (is it
suppressed, at which version, with which scopes; is the prompt cached), each
first in the map and then in Redis, then retrieves and records in both stores. A
lookup, an insert into the map, an insert into the index and a Redis command
are one step each, because tasks interleave between them. A clear
(`extract_session`) takes the session's index entry in one step, evicts key by
key and leaves the Redis keys to a background SCAN and DEL. The history
variables `retrieved` and `quiet` only serve the properties.

**Extraction.** A line of a transcript is a record with a shape (a user text, an
assistant line with blocks, an unreadable line ...) and a text is its length and
the sentences in it. `SessionEvents` computes events, windows, skeletons,
salience and preamble from it exactly in the order of the code: `WindowStart` is
the value of `start` after k turns of the segmentation loop, `StepsDeduplicated`
the loop over the tool uses of a window. The windows of
the orchestrated path are mapped concurrently, at most `MapConcurrency` at a
time; each answer is chosen among what `Providers` can make of any reply, so
malformed, empty, late and failed calls all happen, and the retries of a
suspicious empty window with them. The reduction walks pairs of candidates and
asks a verifier that may fail; the synthesis adds candidates or fails. The
batch then goes through `DraftWriter`: each file operation is a step, and
another writer's batch, the reviewer's renames, a failing operation, a death and
the pruning of old tombstones come between any two of them.

**Requests.** Calls are numbered and each runs as its own task. A call loads the
snapshot and resolves its scopes at once (`Receive`), passes the breaker, waits
for a permit unless its prompt is blank, embeds, searches its scopes - each may
time out or panic - compiles what it found and answers. `find_skill` may name a limit: its answer
shows at most that many of the skills the retrieval returned, 5 by default, and
its status is decided after this cut (`Shown`, `Status`). A snapshot keeps the
first `MaxSkillsToLoad` rows of its version, and is loaded in one step here: the
three queries of a load, and a commit between them, are in `GraphRefresh`.
Scores are per cent and fused scores are in
units of 10^-6, so that ranks compare as in the code; cosines are inputs. The sorts and filters of
`Ranking` say where each member goes by counting the members before it
(`SortedBy`, `Kept`), which is what a stable sort computes and what the prover can
reason about without induction. The
usage record goes through the bounded channel; the insert may commit without an
answer. A rebuild job is queued under the lock that also hands over the runner;
its rebuild succeeds, fails - with or without having committed - or panics, and
a panic leaves `runner_active` set for good (`PanicRebuild`).

**Maintenance.** A proposal is a file in a slot that its skills determine. A
tick runs merge, retirement, promotion and demotion in this order; any error,
and emitting an audit record (the sink blocks on the runtime it runs in), ends
the process, and the container starts it again. Similarity of skills is a
constant relation, the verifiers' answers are choices through `Providers`. The
reviewer approves or rejects any waiting file, and a rebuild takes notice of it.
The passes find skills by walking the scope roots, by the promotion runner's
skills of the boot or by the rows of the last rebuild; all three come from the
one walk that prunes the directories of coding harnesses. Usage is the age of
each use, from which `recent_usage` computes what the retirement pass scores.

Definitions called "Faulty variant" are deliberate bugs; each shows that a
property notices it, and no specification uses them.

## 3. Runs

| run | question | result |
|---|---|---|
| `outbox_safety` | safety with 2 builders, 2 skills, batches of 1, 3 attempts, all faults, 2 starts per builder (~440k states, builders and skills symmetric) | passes |
| `outbox_progress` | do drains end and rows get settled, with 2 builders, 2 attempts, one refused payload, crashes (~215k states) | passes |
| `outbox_fresh` | "same skill content always produces the same key ... skipping is correct and safe" | violated |
| `refresh_safety` | safety and refinement with 2 edits, one fault of any kind, one admin rebuild, foreign events on the stream (~1.6M states) | passes |
| `refresh_liveness` | convergence, same bounds, Redis keeping its data (~500k states) | passes |
| `transcripts` | safety and progress with 2 workers, 3 accepted contents (2 unreadable), one refused, batches of 2, 2 attempts (~240k states) | passes |
| `transcript_crash` | "a worker restart resumes the backlog" | violated |
| `extraction_pool` | safety (the retry budget included) and progress with 3 jobs, 2 workers, a channel of 1, 3 attempts, 2 jobs that never finish in time (~48k states) | passes |
| `session_context` | safety with 2 requests (suppression and cache, or compact-triggered), 1 clear, 2 repositories, 1 prompt, 2 graph versions, failing Redis, degraded retrievals, expiry and one restart (~890k states, requests and repositories symmetric) | passes |
| `maintenance` | 2 projects with a skill each, a harness's skill beside them and the global skills their promotions create, all answers of both verifiers, deaths and restarts (~370k states) | passes |
| `extraction` | 11 requests (a session with a resolved error, one with an edit, flat and plain ones, and every way to be refused) for one job beside another writer, 2 slugs, one failing file operation or death (~470k states, slugs symmetric) | passes |
| `requests` | 2 calls, with a limit of 0 and the default, 1 permit, a breaker that opens at the first failure, 3 graph versions (none, 4 and 6 skills, of which 5 are loaded), 2 rebuild jobs, a usage channel of 1 (~270k states) | passes |

Bounds. Two processes are the smallest number that race; the second skill or
content makes a batch, or a queue behind it, non-trivial; a batch limit below
the number of rows makes the loops go round; the retry budget of 2 or 3 has a
first, a middle and a last failure; two starts give a crash and a recovery. In
`GraphRefresh` two edits are needed for an old snapshot to meet a newer one, and
one fault is enough to leave each step undone; the proofs hold for any number.
In `SessionContext` two repositories give a store two keys to clear, and two
requests give a write, and a read or a second write that races it or the clear.
In `Requests` two calls are the fewest that share a permit, a breaker and a
channel; in version 2 the candidate limit of 2 is below the 3 skills of scope p
and `MaxSkillsToLoad` of 5 below the 6 rows; version 1 has two relevant project
skills and a global one for the 2 results.
Panics of a search, unexpected embedder errors, failures to read the
usage and rebuilds that fail are in the model (`Faults`) and left out of the run
for its size: the first three take the same paths as the failures that are in
it, and a rebuild that fails ends its job as one that succeeds does (the proofs
cover it, with and without a commit). In `Extraction`
sessions are at most five lines long, which is enough for two windows that
overlap, an error arc across them and a line with several events; in
`Maintenance` one project is mounted and the other is not, and one skill's text
names a directory of the mounted project, so that the veto and the scan differ.

Deadlock. In `Outbox` and `ExtractionPool` the bounds let the system run dry
(all edits made, all processes idle; all jobs ended), and in `SessionContext`
every request and clear ends, as do the job of `Extraction` and the calls of
`Requests`, so deadlock is not checked there; the other runs check it.

What the violated runs show:

- `outbox_fresh`: skill edited after its first rebuild; the second rebuild's
  append is skipped because the key exists; the drain finds nothing pending and
  the rebuild is announced while Qdrant holds the old vector.
- `transcript_crash`: the worker dies between claim and mark; the row stays
  `processing`, and only `pending` rows are ever claimed.

Further differences met while modelling, without a run of their own: a request
that is under way while its session is cleared writes its entries afterwards, so
the session is suppressed again although `extract_session` has just cleared it
(`QuietClearIsComplete` is about clears no request runs alongside); the key of a
cached context leaves out the repository the retrieval resolved its scopes by
(`context_cache.rs:74`); outbox rows
are stranded in `processing` by a crash in the same way (`outbox.rs:564`;
`PendingSettles` has that exception); a row that was given up does not count as
pending, so a drain succeeds without its vector although
`graph/rebuild.rs:316` says the whole corpus must reach Qdrant; a Postgres error
at a mark strands the rest of a batch although `maintenance/src/runtime.rs:455`
says rows stay `pending` (`BacklogDrains` has that exception); a snapshot is
visible to a reload before its outbox is drained; the rebuild lock functions of
`infrastructure/.../rebuild.rs` have no caller, so an admin rebuild that read
older files can overwrite a newer snapshot; a job whose `ceiling_hits` is 2 of 3
is ended at its third hit, because `worker_pool.rs:231` compares the count after
the hit with `max_attempts`, against the contract at `worker_pool.rs:86-87` and
`:170-177` (requeued while `ceiling_hits < max_attempts`, never lost "on its
first — or second, or third — ceiling hit"; `RunsAreCharged` states what the code
does keep, at most `max_attempts` runs, each of them charged); a requeue into a
full channel ends a job as "retries exhausted" after its first ceiling hit
(`worker_pool.rs:252`); `find_skill` with a limit of 0, or any call when
`RETRIEVAL_MAX_RESULTS` is 0 (which `orchestrator.rs:305` accepts), answers
`no_match` with the reason `no_relevant_skills` although relevant skills were
retrieved (`find_skill.rs:48-66`; `EmptyIsExplained` has that case);
a panic in a rebuild leaves its job `running` and the runner taken for ever
(`admin/src/tools.rs:546-593`; `ServerAnswers` has that exception);
`collect_file_changes` moves the watcher's snapshot
before the rebuild runs, so a rebuild that fails is not tried again until the
next edit, although `docs/reference/capability-catalog.md:297` says that an
approved skill becomes retrievable without restarting any process; of a
transcript line with several events the windows see the last only
(`session-extractor/src/orchestrator.rs:339`, against `segmentation.rs:26`); a
failing skeleton label discards the prose candidates of its window
(`orchestrator.rs:543`); a window of tool events only fails when the preamble is
empty; one rejected or repeated slug fails the whole batch (`writer.rs:523`); an
answer without the expected key is an empty success for the Claude backends and
an error for Ollama; the embedding client has no timeout
(`embeddings/ollama.rs:76`, against `retrieval/src/orchestrator.rs:668`), and
blank prompts count as failures for the breaker; the retirement marker hides a
skill from the next rebuild before anyone approves it (`graph/build.rs:66`,
against `README.md:40`); `score_bucket` of the compiler compares fused scores of
at most 0.017 with 0.2 and 0.4; `docs/runbooks/degraded-state.md` describes a breaker in
graph-builder that no code drives.

Fairness. Weak fairness of each process's own steps: the loops never return, the
runtime polls every task, and the container restart policy starts a process that
ended, so the start is part of a process's steps. Faults, edits and posts are
never fair. `TranscriptQueue` also assumes strong fairness of the claim:
Postgres does not refuse every single claim for ever. A run of an extraction
ends because the calls of the language models have timeouts or the ceiling cuts
it; the embedding client has none (`embeddings/ollama.rs:76`), so that it answers
is an assumption wherever it is called. `Requests` assumes only that the server
as a whole goes on (`WF_vars(Work)`), the answers of the embedder and of Postgres
included, and `ServerAnswers` promises nothing for jobs after a rebuild panicked. Crashes
and failed ticks are bounded by the number of starts: some start is the last one.

## 4. Proofs

All theorems hold for every value of the constants under the named `ASSUME`s:
budgets and capacities are positive naturals, the limits of the ranking and of
`find_skill` any naturals, 0 included, `Nil` and `None` are no row, entry,
reason or record, fault sets are known fault kinds, the contents of the
transcript queue are finite, a graph version holds one row per skill id
(`StoreAssumption`: the id is the primary key), and scores are per cent
(`QueriesAssumption`). `PreambleAssumption` and `EventsAssumption` say that the
preferences a preamble mines and the events a transcript parses to are lists;
they are facts about the folds of `SessionEvents`, which TLC evaluates for the
sessions of the run. Each theorem is `Spec => []Inv`, or an
action property, from an inductive invariant that TLC has checked on the
instance of the component's run; a step lemma has one case per action.

- **Outbox** (`OutboxInv`). `ClaimsExclusive` alone is not inductive: a mark is
  safe because the record being marked is still in the marker's batch
  (`CurrentClaimed`). `PublishedHasVector` needs that the upsert of the current
  record is in Qdrant before the mark (`WrittenBeforeMark`), and that another
  relay's upsert of the same skill can only come from the same event
  (`OnlyRebuildRows`). `DrainedMeansSettled` needs that a snapshot's skills are
  still to append or have a row (`SnapshotEnqueued`) and that no other process
  shares a correlation id. Proved: types, exclusive claims, the retry budget,
  published rows have vectors, drained means settled, settled rows are final.
- **GraphRefresh** (`RefreshInv`, `PublishedInv`). The label of a load is read
  first, so a load torn by a commit carries an old label (`TornLoadIsOld`); only
  committed versions are announced; a load is at least as new as its batch
  announces (`BatchCovered`). Proved: types, exact labels, no announcement lost,
  the served version is monotonic, and `GraphRefresh` implements
  `ReadModel!Spec`. `PublishedIsDelivered` is proved under the hypothesis
  `"flush" \notin Faults`: `last_published` outlives the data Redis loses, so with
  that fault the property is false, and `PublishedInv` (what was announced and is
  not served is in `unserved`) is kept out of `RefreshInv` for the same reason.
- **TranscriptQueue** (`QueueInv`). Every started extraction is charged: the
  runs of a content are its counted attempts, plus one while it is being
  extracted or stranded, plus one if it succeeded (`RunsCharged`). Proved:
  types, disjoint sweeps, processed rows have drafts, the extraction budget, and
  that a drafted content is never extracted again.
- **SessionContext** (`MirrorInv`, `GivenInv`, `QuietInv`). The index covers the
  map only together with the places of requests and clears: an entry outside the
  index has a writer about to list it or a clear about to evict it, and a clear
  takes an index only when it has nothing left to evict (`DoomedFits`). For
  `RememberedIsCurrent` every entry in the map, in Redis and at hand must come
  from a healthy retrieval of its repository or prompt (`MapGiven`,
  `EntryGiven`), and a request that reports a suppression must have found an
  entry of its own version (`LookupGiven`). A clear is complete because while it
  is undisturbed nothing re-enters the index or Redis (`QuietProgress`), a DEL
  removes all that Redis still holds of the store (`DeletedSoFar`), and each
  delete comes after its store's local clear (`DeleteFits`). Proved: types, the
  index covers the map, requests are short-cut only by what the session was
  given, an undisturbed clear forgets the session.
- **ExtractionPool** (`PoolInv`). That a job is in one place needs the channel
  and the workers to be injective and disjoint (`PlaceInv`); that runs are
  charged needs the count of every job at every place: a run under way or in
  backoff is one more than the ceiling hits (`AttemptInv`); one terminal event needs the exact list of events of every
  phase (`EventInv`), and that it tells the truth needs to know where drafts may
  be (`DraftInv`). Proved: types, every run is charged to the budget
  (`RunsAreCharged`), one place, one terminal event, announced before ended.
- **Maintenance** (`MaintenanceInv`). The decision to propose is taken when a
  pass reads its input and the file is written later, so what the veto and the
  demotion scan found must stay with the slots in between (`DecisionInv`), with
  the file (`FileInv`) and with the promoted skill (`ProvenanceInv`); harness
  skills must be absent from everything the passes remember (`HarnessInv`).
  Proved: harness skills untouched, an intrinsic skill is never proposed for
  demotion, no waiting proposal is replaced.
- **Extraction** (`WritersInv`, `CandidatesInv`, `WindowInv`). All or nothing: at every stage
  of a batch the drafts at its slugs are known from its bookkeeping, unless
  somebody else touched them (`BookInv`, `DraftsInv`); the rollback and a death
  then find in the backups what was there before. For the reduction: a candidate
  that was merged into another is never merged into again, because the walk over
  the pairs skips absorbed candidates on both sides (`ReduceInv`, `PairInv`).
  `WindowInv` says that during the map step the windows are those of the job's
  events; the rest is about the segmentation loop, for any list of events and any
  budget and overlap: each start lies after the previous one and no later
  than its end, so no event falls between two windows (`StartFacts`,
  `CoverFacts`); a suffix of a window that fits also fits, so the overlap is
  exact when the window is longer than it (`OverlapFacts`); if no line has two
  events, the table by line returns the window's own events, so the text that is
  sent is the text that was measured (`OwnLines`, `BudgetFacts`); the loop that
  collects the steps keeps them distinct (`StepsFacts`). Recursive functions are
  unfolded with `Recurrence`, and a property of all turns of a loop is proved by
  looking at the least turn that breaks it. Proved: a batch is all or nothing, a
  death loses no earlier draft, every candidate is written or merged into one that
  is, windows, skeletons and gate keep their contracts (`WindowContracts`).
- **Requests** (`RequestsInv`, `UsageInv`, `RebuildInv`, `AnswersInv`). A missing scope has left its reason
  in the resolution (`ResolvedInv`), so each stage can only add trouble together
  with a reason (`RequestOK`). A usage record is nowhere before the answer and
  then in the channel, with the writer, in its row or lost, and in the channel
  once (`RecordInv`). The committed version counts every rebuild job that
  succeeded, and beside them at most those that failed (their commit's answer was
  lost), a queued job is queued once, and what is served was committed
  (`RebuildInv`); so a call works on a version of the store, the one it loaded
  when it arrived, and its answer is right with respect to that one
  (`AnswersInv`), and shows a prefix of what was ranked, as long as the limit
  says (`ShownPart`). What the pipeline returns is
  built up lemma by lemma: a counting order gives every member a place of its own,
  so sorting permutes and filtering keeps exactly what passes; truncation takes a
  prefix; the diversity selection picks distinct candidates and, with room left,
  all of them; a scope's search returns skills of that scope only, and something
  if one is relevant within the candidate limit; fusion keeps one representative
  per skill and orders by weighted rank; compilation adds no cue of a skill with a
  section. Proved: a failure is told and only a failure is, usage is written once,
  answers are isolated by scope and come from one version (`AnswersAreIsolated`),
  an empty answer is explained (`EmptyIsExplained`: the caller asked for no skill,
  or no skill that was loaded for its scopes is relevant, or a scope holds more
  than `candidate_limit`), and project skills come
  first (`ProjectFirst`) for `MaxResults <= 27`. That is where fusion turns: the
  fused score of a project skill at rank n is 1/(60 + n), the first global one
  has 0.7/61, and at rank 28 (1/88) the project skill falls behind. The code's
  default is 3 and it enforces no upper limit.

Only model-checked:

- all liveness properties and the fair refinement `CatchesUp`: liveness under
  fairness is out of the prover's reach;
- that the parser and the preamble's folds yield lists (`EventsAssumption`,
  `PreambleAssumption`): what a fold returns for every input needs induction over
  data. TLC evaluates both for the sessions of the run.

Every other property of the passing runs is stated by a theorem.
The type invariants of `Outbox`, `GraphRefresh`, `TranscriptQueue`,
`SessionContext` and `ExtractionPool` are theorems and are not run.

## 5. Not modelled

Floating-point similarity and clustering are inputs or left out. Prompts, text
layout, sanitizing, logging, health probes and the read operations of the Qdrant
client have no state a small model could say anything about. The outbox reconciler, the warnings about
stale proposals and the rebuild lock functions have no caller. The dispatch of
an extraction without a worker pool exists for tests only. The kind the watcher
gives a file change only labels an audit record. The sleeps and backoffs are
left out: a delayed step is one that has not been taken yet; this is also what
becomes of the `available_at` of an outbox row. Unparsable stream
entries are left out (every publisher writes the envelope), and so is the
trimming of the stream at about 100000 entries (`redis.rs:98`, `:209-225`), far
beyond what a subscriber that is restarted leaves unread. Scanning the tree and
reading the changed files again is one step in `Outbox`, where a row's payload is
what was scanned; `GraphRefresh` has them apart, with edits in between.
A Postgres commit whose answer is lost has no case of its own in `Outbox`: it
leaves what the step followed by failures of Qdrant and Postgres leaves, and
these are in `outbox_safety`. The proposal slots of `Maintenance` are distinct
for distinct skills, that is, two skills whose names give one slug are left out.
Project roots are values that are equal or not; a root inside another one is
left out. Usage records still in the channel when the process exits are gone,
and the process of `Requests` does not exit. `PROJECT.json` has a
reason for each component.

## 6. Plan

1. The events of a transcript as a recursive function over its lines, so that
   `EventsAssumption` becomes a lemma.
2. An abstract queue that `TranscriptQueue` and `ExtractionPool` both implement
   (accepted, run, ended once), with the refinements proved.
3. Should a process start to call it: the outbox reconciler, as an action that
   appends the repair events `Outbox` already has.

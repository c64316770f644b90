------------------------------ MODULE Requests ------------------------------
(* The request path of the MCP server.  compile_context and find_skill run  *)
(* concurrently over a snapshot that a refresh swaps under them, share one  *)
(* embedding provider behind a circuit breaker and a semaphore, search the  *)
(* scopes, fuse the rankings and answer; compile_context then posts a usage *)
(* record to a bounded channel that one task writes to Postgres.  The admin *)
(* rebuild queue of the same process produces the versions that are swapped *)
(* in.  The suppression and cache lookups before the retrieval are the      *)
(* subject of SessionContext; the reload itself is that of GraphRefresh.    *)
EXTENDS Ranking

CONSTANTS
    Queries,          \* prompts, as queries of Ranking
    Blank,            \* the prompt the embedder refuses
    Repos,            \* repository paths that requests name
    Marked,           \* the roots with a .git or project marker
    ConfiguredRoot,   \* SKILL_PROJECT_ROOT, or Nil
    StartDir,         \* working directory of the server
    GlobalPaths,      \* SKILL_GLOBAL_PATHS
    AllowedRoots,     \* SKILL_GLOBAL_ALLOWED_ROOTS
    Limits,           \* the limits that callers of find_skill name
    Store,            \* the skill rows of each version, a sequence per version
    MaxSkillsToLoad,  \* MAX_SKILLS_TO_LOAD
    FailureThreshold, \* EMBED_CIRCUIT_FAILURE_THRESHOLD
    MaxConcurrency,   \* EMBED_MAX_CONCURRENCY
    ChannelCapacity,  \* USAGE_WRITE_CHANNEL_CAPACITY
    Mounts,           \* the directories that may be there: sets of scope types
    Faults,           \* subset of FaultKinds
    MaxCalls,         \* bound on tool calls
    MaxRebuilds,      \* bound on admin rebuild jobs
    Nil

FaultKinds == {"provider_unavailable", "unexpected", "timeout", "panic", "pg", "usage",
               "rebuild", "rebuild_panic", "client"}
Calls == 1..MaxCalls
Jobs == 1..MaxRebuilds
Versions == 0..MaxRebuilds
Dependencies == {"postgres", "redis", "ollama", "qdrant"}

ASSUME RequestsAssumption ==
    /\ {FailureThreshold, MaxConcurrency, ChannelCapacity, MaxCalls} \subseteq Nat \ {0}
    /\ {MaxSkillsToLoad, MaxRebuilds} \cup Limits \subseteq Nat
    /\ Versions \subseteq DOMAIN Store
    /\ Mounts \subseteq SUBSET {"project", "global"}
    /\ Faults \subseteq FaultKinds

(* A reason is whom it is about and what went wrong.                        *)
Wrong == {"scope_resolution_failed", "scope_unresolved", "circuit_open", "invalid_input",
          "provider_unavailable", "unexpected", "timeout", "panic", "degraded"}
Reason == {"project", "global", "embedding", "retrieval"} \X Wrong

(* Nil is neither a reason nor a usage record nor a project root nor a limit. *)
ASSUME NilAssumption == Nil \notin Reason \cup [call : Calls] /\ Nil \notin Marked /\ Nil \notin Limits

(* A version holds one row for each of its skills: id is the primary key.   *)
ASSUME StoreAssumption == \A v \in Versions :
    /\ Len(Store[v]) \in Nat /\ DOMAIN Store[v] = 1..Len(Store[v])
    /\ \A i, j \in DOMAIN Store[v] : Store[v][i].id = Store[v][j].id => i = j

(* A prompt has a cosine, and a share of words, with every skill.           *)
ASSUME QueriesAssumption == \A q \in Queries, v \in Versions :
    \A i, j \in DOMAIN Store[v] :
        /\ q.semantic[Store[v][i].id] \in 0..100
        /\ q.subunits[Store[v][i].id] \in Seq([semantic : 0..100, lexical : 0..100])
        /\ q.shared[<<Store[v][i].id, Store[v][j].id>>] \in 0..100

VARIABLES
    up,       \* the live server has been built
    durable,  \* graph_version committed in Postgres
    served,   \* the swappable snapshot: [version, cold]
    req,      \* the task of each tool call
    breaker,  \* [state, failures, cooled]; cooled: open_for has elapsed
    channel,  \* usage records waiting for the writer
    writing,  \* the record the writer holds, or Nil
    health,   \* the usage-write health cell
    rows,     \* session_logs rows per call
    lost,     \* calls whose usage record was dropped or failed
    job,      \* lifecycle_status of each rebuild job
    queue,    \* queued job ids
    runner    \* the runner task: "none", "poll" or "run"; "stuck" when it panicked

vars == <<up, durable, served, req, breaker, channel, writing, health,
          rows, lost, job, queue, runner>>

usageVars == <<channel, writing, health, rows, lost>>
rebuildVars == <<durable, job, queue, runner>>

-----------------------------------------------------------------------------
(* Scopes.                                                                  *)

Descriptor(type, paths) == [type |-> type, id |-> type, paths |-> paths]

(* FsMarkerProjectResolver: the repository of the request if it has a       *)
(* marker, else the configured root if it is a directory, else - only for a *)
(* request without a path - the working directory.                          *)
ResolveProject(repo, mounted) ==
    IF repo # Nil /\ repo \in Marked THEN {Descriptor("project", {repo})}
    ELSE IF ConfiguredRoot # Nil
         THEN IF "project" \in mounted THEN {Descriptor("project", {ConfiguredRoot})} ELSE {}
    ELSE IF repo = Nil /\ StartDir \in Marked THEN {Descriptor("project", {StartDir})}
    ELSE {}

(* EnvPathGlobalResolver: every path must exist inside an allowed root.     *)
ResolveGlobal(mounted) ==
    IF /\ "global" \in mounted
       /\ GlobalPaths # {} /\ AllowedRoots # {}
       /\ GlobalPaths \subseteq AllowedRoots
    THEN {Descriptor("global", GlobalPaths)} ELSE {}

(* DualScopeResolver: each resolver that fails degrades its scope with two  *)
(* reasons.                                                                 *)
Unresolved(type, found) ==
    IF found = {} THEN <<<<type, "scope_resolution_failed">>, <<type, "scope_unresolved">>>> ELSE <<>>

Resolution(project, global) ==
    [scopes |-> SetToSeq(project) \o SetToSeq(global),
     degraded |-> (IF project = {} THEN {"project"} ELSE {})
                  \cup (IF global = {} THEN {"global"} ELSE {}),
     reasons |-> Unresolved("project", project) \o Unresolved("global", global)]

-----------------------------------------------------------------------------
(* Snapshots.                                                               *)

(* The paths of a row that records none: the root of its scope.             *)
Fallback(scope) ==
    CASE scope = "global" -> GlobalPaths
      [] scope = "team" -> {}
      [] OTHER -> {IF ConfiguredRoot # Nil THEN ConfiguredRoot ELSE StartDir}

usage_prior(count) == IF count = 0 THEN 0 ELSE 15

Seeded(row, cold) ==
    [id |-> row.id, scope |-> row.scope, scope_id |-> row.scope,
     paths |-> IF row.paths = {} THEN Fallback(row.scope) ELSE row.paths,
     prior |-> usage_prior(IF cold THEN 0 ELSE row.uses)]

(* Of the skills, listed by id, only the first MAX_SKILLS_TO_LOAD are kept. *)
SkillsOf(snapshot) ==
    Truncate([i \in DOMAIN Store[snapshot.version] |->
                 Seeded(Store[snapshot.version][i], snapshot.cold)],
             MaxSkillsToLoad)

(* build_graph_from_pg: a failed usage query leaves every prior cold.  Its  *)
(* three queries are one step here; GraphRefresh takes them one by one.     *)
Loaded(cold) == [version |-> durable, cold |-> cold]

(* build_live_server: Postgres and Redis must answer, the embedder too when *)
(* there are skills to embed; Qdrant need not.                              *)
Boot(answering, cold) ==
    /\ ~up
    /\ {"postgres", "redis"} \subseteq answering
    /\ Store[durable] # <<>> => "ollama" \in answering
    /\ cold => "usage" \in Faults
    /\ up' = TRUE
    /\ served' = Loaded(cold)
    /\ UNCHANGED <<req, breaker>> /\ UNCHANGED usageVars /\ UNCHANGED rebuildVars

swap_graph(cold) ==
    /\ up
    /\ cold => "usage" \in Faults
    /\ durable > served.version
    /\ served' = Loaded(cold)
    /\ UNCHANGED <<up, req, breaker>> /\ UNCHANGED usageVars /\ UNCHANGED rebuildVars

-----------------------------------------------------------------------------
(* The circuit breaker.                                                     *)

Closed == [state |-> "closed", failures |-> 0, cooled |-> FALSE]

AllowRequest == breaker.state # "open" \/ breaker.cooled

allow_request == [breaker EXCEPT !.state = IF @ = "open" THEN "half_open" ELSE @]

record_success == Closed

(* The count is capped at the threshold: above it nothing tells it apart.   *)
record_failure ==
    LET failures == IF breaker.failures < FailureThreshold
                    THEN breaker.failures + 1 ELSE breaker.failures
    IN IF failures >= FailureThreshold
       THEN [state |-> "open", failures |-> failures, cooled |-> FALSE]
       ELSE [breaker EXCEPT !.failures = failures]

(* open_for elapses.                                                        *)
Cool ==
    /\ breaker.state = "open" /\ ~breaker.cooled
    /\ breaker' = [breaker EXCEPT !.cooled = TRUE]
    /\ UNCHANGED <<up, served, req>> /\ UNCHANGED usageVars /\ UNCHANGED rebuildVars

-----------------------------------------------------------------------------
(* A request.                                                               *)

Idle == [stage |-> "idle"]

Tools == {"compile_context", "find_skill", "extract_session", "rebuild_graph",
          "rebuild_graph_status", "inspect_skill", "list_communities"}

Message == [version : {"2.0", "1.0"}, method : {"tools/list", "tools/call", "ping"},
            tool : Tools \cup {"unknown", "malformed"},
            args : {"valid", "bad_session", "oversized", "malformed"}]

(* The JSON-RPC error a message is refused with, 0 if it is served.  The    *)
(* session id is looked at before the rest is decoded; an inline transcript *)
(* that is too large is answered by a result, not by an error.              *)
call_tool(m) ==
    CASE m.args = "bad_session" /\ m.tool \in {"compile_context", "extract_session"} -> -32602
      [] m.args = "oversized" /\ m.tool = "extract_session" -> 0
      [] m.args = "malformed" -> -32602
      [] OTHER -> 0

handle_json_rpc(m) ==
    CASE m.version # "2.0" -> -32600
      [] m.version = "2.0" /\ m.method = "tools/list" -> 0
      [] m.version = "2.0" /\ m.method \notin {"tools/list", "tools/call"} -> -32601
      [] m.version = "2.0" /\ m.method = "tools/call" ->
            CASE m.tool = "malformed" -> -32602
              [] m.tool \in Tools -> call_tool(m)
              [] OTHER -> -32601

Refusals == {handle_json_rpc(m) : m \in Message} \ {0}

(* Calls are numbered in the order in which they arrive.                    *)
Arrives(c) == up /\ req[c] = Idle /\ \A v \in Calls : v < c => req[v] # Idle

Refuse(c) ==
    /\ Arrives(c)
    /\ "client" \in Faults
    /\ \E code \in Refusals :
          req' = [req EXCEPT ![c] = [stage |-> "refused", code |-> code]]
    /\ UNCHANGED <<up, served, breaker>> /\ UNCHANGED usageVars /\ UNCHANGED rebuildVars

(* build_degraded_outcome: no skill, and the scopes that were considered    *)
(* count as degraded when none was before.                                  *)
Considered(res) == {res.scopes[i].type : i \in DOMAIN res.scopes} \cup res.degraded

Answer(r, trouble, skills, context, degraded, reason) ==
    [stage |-> "answer", tool |-> r.tool, prompt |-> r.prompt, repo |-> r.repo, limit |-> r.limit,
     snapshot |-> r.snapshot, res |-> r.res, trouble |-> trouble,
     skills |-> skills, context |-> context, degraded |-> degraded, reason |-> reason]

Degraded(r, trouble, degraded, reasons) ==
    Answer(r, trouble, <<>>, <<>>,
           IF degraded = {} THEN Considered(r.res) ELSE degraded,
           IF reasons = <<>> THEN <<"retrieval", "degraded">> ELSE Head(reasons))

(* retrieve loads the snapshot once, then resolves the scopes, which reads  *)
(* only the file system.                                                    *)
Receive(c, tool, prompt, repo, limit, mounted) ==
    LET res == Resolution(ResolveProject(repo, mounted), ResolveGlobal(mounted))
        r   == [stage |-> "gate", tool |-> tool, prompt |-> prompt, repo |-> repo, limit |-> limit,
                snapshot |-> served, res |-> res,
                trouble |-> IF res.degraded = {} THEN {} ELSE {"scope"}]
    IN /\ Arrives(c)
       /\ req' = [req EXCEPT ![c] =
              IF res.scopes = <<>> THEN Degraded(r, r.trouble, res.degraded, res.reasons) ELSE r]
       /\ UNCHANGED <<up, served, breaker>> /\ UNCHANGED usageVars /\ UNCHANGED rebuildVars

(* The outcome of a request that has no embedding.                          *)
NoEmbedding(r, reason) ==
    Degraded(r, r.trouble \cup {"embed"}, Considered(r.res),
             Append(r.res.reasons, <<"embedding", reason>>))

Gate(c) ==
    /\ req[c].stage = "gate"
    /\ IF AllowRequest
       THEN /\ breaker' = allow_request
            /\ req' = [req EXCEPT ![c].stage = "wait"]
       ELSE /\ req' = [req EXCEPT ![c] = NoEmbedding(@, "circuit_open")]
            /\ UNCHANGED breaker
    /\ UNCHANGED <<up, served>> /\ UNCHANGED usageVars /\ UNCHANGED rebuildVars

Embedding == {c \in Calls : req[c].stage = "embed"}

(* OllamaEmbeddingService::embed: a permit for every text that is not blank.*)
Acquire(c) ==
    /\ req[c].stage = "wait"
    /\ IF req[c].prompt = Blank
       THEN /\ breaker' = record_failure
            /\ req' = [req EXCEPT ![c] = NoEmbedding(@, "invalid_input")]
       ELSE /\ Cardinality(Embedding) < MaxConcurrency
            /\ req' = [req EXCEPT ![c].stage = "embed"]
            /\ UNCHANGED breaker
    /\ UNCHANGED <<up, served>> /\ UNCHANGED usageVars /\ UNCHANGED rebuildVars

(* The provider answers; the permit is returned and the breaker told.       *)
Embed(c, result) ==
    /\ req[c].stage = "embed"
    /\ result # "ok" => result \in Faults
    /\ IF result = "ok"
       THEN /\ breaker' = record_success
            /\ req' = [req EXCEPT ![c].stage = "search"]
       ELSE /\ breaker' = record_failure
            /\ req' = [req EXCEPT ![c] = NoEmbedding(@, result)]
    /\ UNCHANGED <<up, served>> /\ UNCHANGED usageVars /\ UNCHANGED rebuildVars

(* What one scope's search comes to: it may run out of scope_timeout_ms or  *)
(* its blocking task may panic.                                             *)
SearchResults == {"ok", "timeout", "panic"}

(* The results that the searches of a request may have, one for each scope. *)
Outcomes(r) ==
    IF r.stage = "search" THEN [DOMAIN r.res.scopes -> SearchResults] ELSE {}

(* Faulty variant: a failed scope is left out of the degraded ones.         *)
split_results_silent(r, results) ==
    [ok |-> {i \in DOMAIN results : results[i] = "ok"}, failed |-> {},
     reasons |-> <<>>]

(* Of the reasons only the first is ever told: that of the first failure.   *)
split_results(r, results) ==
    LET failed == {i \in DOMAIN results : results[i] # "ok"}
    IN [ok |-> DOMAIN results \ failed,
        failed |-> {r.res.scopes[i].type : i \in failed},
        reasons |-> IF failed = {} THEN <<>>
                    ELSE <<<<r.res.scopes[Min(failed)].type, results[Min(failed)]>>>>]

(* Faulty variant: the graph is read again after the embedding.             *)
GraphAtSearch(r) == served

GraphOf(r) == r.snapshot

(* The scopes are searched in parallel over the snapshot the request loaded;*)
(* the rankings of those that succeeded, in the order of the scopes.        *)
search_scopes_concurrently(r, split) ==
    LET found == Kept(r.res.scopes, split.ok)
    IN Whole([k \in DOMAIN found |->
           [type |-> found[k].type,
            candidates |-> perform_scope_search(r.prompt, SkillsOf(GraphOf(r)), found[k])]])

(* What succeeded is fused; compile_context compiles it without waiting.    *)
Search(c, results) ==
    LET r     == req[c]
        split == split_results(r, results)
        ranked   == weighted_reciprocal_rank_fusion(search_scopes_concurrently(r, split))
        degraded == r.res.degraded \cup split.failed
        reasons  == r.res.reasons \o split.reasons
        trouble  == IF split.ok = DOMAIN results THEN r.trouble ELSE r.trouble \cup {"search"}
        context  == IF r.tool = "compile_context" THEN compile_markdown(r.prompt, ranked) ELSE <<>>
    IN /\ r.stage = "search"
       /\ \A i \in DOMAIN results : results[i] # "ok" => results[i] \in Faults
       /\ UNCHANGED <<up, served, breaker>> /\ UNCHANGED usageVars /\ UNCHANGED rebuildVars
       /\ req' = [req EXCEPT ![c] =
              IF split.ok = {} THEN Degraded(r, trouble, degraded, reasons)
              ELSE Answer(r, trouble, [k \in DOMAIN Selected(ranked) |-> Selected(ranked)[k].id],
                          context, degraded, IF reasons = <<>> THEN Nil ELSE Head(reasons))]

(* FindSkillTool::invoke and handle_retrieval_result: what the caller gets. *)
(* find_skill drops the matches of a degraded outcome and shows at most as  *)
(* many as the caller asked for; either tool answers "no match" when there  *)
(* is nothing to show.                                                      *)
DefaultLimit == 5

LimitOf(r) == IF r.limit = Nil THEN DefaultLimit ELSE r.limit

Shown(r) ==
    CASE r.tool = "find_skill" /\ r.degraded # {} -> <<>>
      [] r.tool = "find_skill" /\ r.degraded = {} -> Truncate(r.skills, LimitOf(r))
      [] OTHER -> r.skills

Status(r) ==
    CASE r.degraded # {} -> "degraded"
      [] r.degraded = {} /\ Shown(r) = <<>> -> "no_match"
      [] OTHER -> "ok"

-----------------------------------------------------------------------------
(* Usage records.                                                           *)

(* build_session_usage_record: what the record says of the call is data.    *)
UsageRecord(c) == [call |-> c]

(* post_usage_record: try_send, a full channel drops the record.            *)
post_usage_record(record) ==
    IF Len(channel) < ChannelCapacity
    THEN channel' = Append(channel, record) /\ UNCHANGED <<health, lost>>
    ELSE /\ health' = "failed"
         /\ lost' = lost \cup {record.call}
         /\ UNCHANGED channel

(* The answer leaves, and with it all the server keeps of the request.      *)
Respond(c) ==
    LET r == req[c]
    IN /\ r.stage = "answer"
       /\ IF r.tool = "compile_context" THEN post_usage_record(UsageRecord(c))
          ELSE UNCHANGED <<channel, health, lost>>
       /\ req' = [req EXCEPT ![c] = [stage |-> "done", tool |-> r.tool]]
       /\ UNCHANGED <<up, served, breaker, writing, rows>>
       /\ UNCHANGED rebuildVars

TakeUsage ==
    /\ writing = Nil /\ channel # <<>>
    /\ writing' = Head(channel)
    /\ channel' = Tail(channel)
    /\ UNCHANGED <<up, served, req, breaker, health, rows, lost>>
    /\ UNCHANGED rebuildVars

Committed(record) ==
    rows' = [rows EXCEPT ![record.call] = @ + 1]

(* Faulty variant: a record whose write reported an error is tried again.   *)
WriteUsageRetried(result) ==
    /\ writing # Nil
    /\ result # "ok" => "pg" \in Faults
    /\ IF result = "failed" THEN UNCHANGED rows ELSE Committed(writing)
    /\ IF result = "ok" THEN health' = "ok" /\ writing' = Nil /\ UNCHANGED lost
       ELSE health' = "failed" /\ UNCHANGED <<writing, lost>>
    /\ rows[writing.call] < 2
    /\ UNCHANGED <<up, served, req, breaker, channel>> /\ UNCHANGED rebuildVars

(* write_session_usage is one transaction and is not retried; its commit    *)
(* may take effect although its answer is lost.                             *)
WriteUsage(result) ==
    /\ writing # Nil
    /\ result # "ok" => "pg" \in Faults
    /\ IF result = "failed" THEN UNCHANGED rows ELSE Committed(writing)
    /\ IF result = "ok" THEN health' = "ok" /\ UNCHANGED lost
       ELSE health' = "failed" /\ lost' = lost \cup {writing.call}
    /\ writing' = Nil
    /\ UNCHANGED <<up, served, req, breaker, channel>> /\ UNCHANGED rebuildVars

-----------------------------------------------------------------------------
(* The admin rebuild queue.                                                 *)

(* enqueue_rebuild: the record, the queue and the runner under one lock.    *)
enqueue_rebuild(j) ==
    /\ up
    /\ job[j] = "none" /\ \A i \in Jobs : i < j => job[i] # "none"
    /\ job' = [job EXCEPT ![j] = "queued"]
    /\ queue' = Append(queue, j)
    /\ runner' = IF runner = "none" THEN "poll" ELSE runner
    /\ UNCHANGED <<up, durable, served, req, breaker>> /\ UNCHANGED usageVars

(* Faulty variant: the runner that ends does not clear runner_active, so    *)
(* that no later job starts another.                                        *)
PollStaysActive ==
    /\ runner = "poll"
    /\ IF queue = <<>>
       THEN runner' = "ended" /\ UNCHANGED <<queue, job>>
       ELSE /\ runner' = "run" /\ queue' = Tail(queue)
            /\ job' = [job EXCEPT ![Head(queue)] = "running"]
    /\ UNCHANGED <<up, durable, served, req, breaker>> /\ UNCHANGED usageVars

(* run_jobs_until_empty: the next job, or the end of the runner.            *)
Poll ==
    /\ runner = "poll"
    /\ IF queue = <<>>
       THEN runner' = "none" /\ UNCHANGED <<queue, job>>
       ELSE /\ runner' = "run" /\ queue' = Tail(queue)
            /\ job' = [job EXCEPT ![Head(queue)] = "running"]
    /\ UNCHANGED <<up, durable, served, req, breaker>> /\ UNCHANGED usageVars

(* The version after a rebuild.                                             *)
trigger_full_rebuild(committed) == IF committed THEN durable + 1 ELSE durable

(* The result of the rebuild is stored with the job.  A rebuild that fails  *)
(* has committed nothing, unless the answer to its commit was lost.         *)
FinishRebuild(ok, committed) ==
    /\ runner = "run"
    /\ ok => committed
    /\ ~ok => "rebuild" \in Faults
    /\ \E j \in Jobs :
          /\ job[j] = "running"
          /\ job' = [job EXCEPT ![j] = IF ok THEN "succeeded" ELSE "failed"]
    /\ durable' = trigger_full_rebuild(committed)
    /\ runner' = "poll"
    /\ UNCHANGED <<up, served, req, breaker, queue>> /\ UNCHANGED usageVars

(* The scan or the clustering panics: the spawned task ends, its job stays  *)
(* running, and runner_active stays set, so that no later job starts one.   *)
PanicRebuild ==
    /\ runner = "run"
    /\ "rebuild_panic" \in Faults
    /\ runner' = "stuck"
    /\ UNCHANGED <<up, durable, served, req, breaker, job, queue>> /\ UNCHANGED usageVars

-----------------------------------------------------------------------------
Init ==
    /\ up = FALSE
    /\ durable = 0
    /\ served = [version |-> 0, cold |-> FALSE]
    /\ req = [c \in Calls |-> Idle]
    /\ breaker = Closed
    /\ channel = <<>> /\ writing = Nil /\ health = "ok"
    /\ rows = [c \in Calls |-> 0] /\ lost = {}
    /\ job = [j \in Jobs |-> "none"] /\ queue = <<>> /\ runner = "none"

Serve(c) ==
    \/ Gate(c)
    \/ Acquire(c)
    \/ \E result \in {"ok", "provider_unavailable", "unexpected"} : Embed(c, result)
    \/ \E results \in Outcomes(req[c]) : Search(c, results)
    \/ Respond(c)

Next ==
    \/ \E answering \in SUBSET Dependencies, cold \in BOOLEAN : Boot(answering, cold)
    \/ \E cold \in BOOLEAN : swap_graph(cold)
    \/ Cool
    \/ \E c \in Calls :
          \/ Refuse(c)
          \/ \E prompt \in Queries \cup {Blank}, mounted \in Mounts :
                \/ \E repo \in Repos :
                      Receive(c, "compile_context", prompt, repo, Nil, mounted)
                \/ \E limit \in Limits \cup {Nil} :
                      Receive(c, "find_skill", prompt, Nil, limit, mounted)
          \/ Serve(c)
    \/ TakeUsage
    \/ \E result \in {"ok", "failed", "unknown"} : WriteUsage(result)
    \/ \E j \in Jobs : enqueue_rebuild(j)
    \/ Poll
    \/ \E ok, committed \in BOOLEAN : FinishRebuild(ok, committed)
    \/ PanicRebuild

Spec == Init /\ [][Next]_vars

(* The runtime does not idle while a task is ready, the provider answers    *)
(* every call (it has no timeout in the code), and Postgres answers the     *)
(* rebuild.  Every task is finite, so that some ready task runs is enough.  *)
Work ==
    \/ \E c \in Calls : Serve(c)
    \/ Poll
    \/ \E ok, committed \in BOOLEAN : FinishRebuild(ok, committed)

FairSpec == Spec /\ WF_vars(Work)

-----------------------------------------------------------------------------
(* Properties.                                                              *)

(* The requests whose answer is ready.                                      *)
Answering == {c \in Calls : req[c].stage = "answer"}

RowsOf(r) == {Store[r.snapshot.version][i] : i \in DOMAIN Store[r.snapshot.version]}

(* The project root a request is about: its own repository when it has a    *)
(* marker, else the root the operator declared, else the working directory. *)
Home(r) == IF r.repo \in Marked THEN r.repo
           ELSE IF ConfiguredRoot # Nil THEN ConfiguredRoot ELSE StartDir

(* The skills whose text a compiled context quotes as rescue cues.          *)
Quoted(r) ==
    UNION {{r.context[k].cues[n].source : n \in DOMAIN r.context[k].cues} :
               k \in DOMAIN r.context}

(* Every skill an answer shows or quotes a cue of is a row of the one       *)
(* version the request loaded, whatever was swapped in meanwhile            *)
(* (orchestrator.rs:643), and all the files the row records lie in the      *)
(* request's own project root or in the global paths; a row without files   *)
(* belongs to the server's own root.                                        *)
AnswersAreIsolated ==
    \A c \in Answering : LET r == req[c] IN
        \A id \in {Shown(r)[k] : k \in DOMAIN Shown(r)} \cup Quoted(r) :
        \E row \in RowsOf(r) :
            /\ row.id = id
            /\ \/ row.scope = "project" /\ row.paths \subseteq {Home(r)}
                  /\ (row.paths = {} => Fallback("project") = {Home(r)})
               \/ row.scope = "global" /\ row.paths \subseteq GlobalPaths

(* The skills that a request ought to find in a scope, by definition: in    *)
(* the scope and above the floor.                                           *)
InScope(r, scope) ==
    {i \in DOMAIN SkillsOf(r.snapshot) : seeded_skill_matches_scope(SkillsOf(r.snapshot)[i], scope)}

RelevantIn(r, scope) ==
    {SkillsOf(r.snapshot)[i].id : i \in
        {n \in InScope(r, scope) :
            Candidate(r.prompt, scope, SkillsOf(r.snapshot)[n]).score >= RelevanceFloor}}

(* A failure is never silent: an answer is degraded exactly when a scope,   *)
(* the embedding or a search failed for this request, and then names its    *)
(* reason (retrieve, build_degraded_outcome).                               *)
FailureIsTold ==
    \A c \in Answering : LET r == req[c] IN
        /\ Status(r) = "degraded" <=> r.trouble # {}
        /\ Status(r) = "degraded" => r.reason # Nil

(* An empty answer is never an accident: "no match" is said only to a       *)
(* caller that asked for no skill (limit 0, which only find_skill takes, or *)
(* max_results configured as 0) or when none of the skills loaded for the   *)
(* scopes is relevant (unless a scope holds more than candidate_limit,      *)
(* which cuts by cosine before the floor applies).                          *)
AskedForNone(r) == MaxResults = 0 \/ r.limit = 0

EmptyIsExplained ==
    \A c \in Answering : LET r == req[c] IN
        Status(r) = "no_match" =>
            \/ AskedForNone(r)
            \/ \A i \in DOMAIN r.res.scopes :
                  \/ Cardinality(InScope(r, r.res.scopes[i])) > CandidateLimit
                  \/ RelevantIn(r, r.res.scopes[i]) = {}

(* Fusion keeps project knowledge first: when both scopes were searched, a  *)
(* global skill is returned only if every relevant project skill is too, no *)
(* skill is returned twice, and no context quotes a cue of a skill that it  *)
(* has a section for.                                                       *)
ProjectFirst ==
    \A c \in Answering :
        LET r   == req[c]
            ids == {r.skills[k] : k \in DOMAIN r.skills}
        IN /\ Cardinality(ids) = Len(r.skills)
           /\ Quoted(r) \cap ids = {}
           /\ (r.trouble = {} /\ \E row \in RowsOf(r) : row.scope = "global" /\ row.id \in ids)
              => LET project == r.res.scopes[1]
                 IN \/ Cardinality(InScope(r, project)) > CandidateLimit
                    \/ RelevantIn(r, project) \subseteq ids

(* Usage accounting: a call leaves at most one session_logs row although    *)
(* a commit may succeed without an answer, only for a call that was         *)
(* answered, and a call is missing only if its record is still on its way   *)
(* or was reported as lost.                                                 *)
UsageWrittenOnce ==
    \A c \in Calls :
        /\ rows[c] <= 1
        /\ rows[c] = 1 => req[c].stage = "done"
        /\ req[c].stage = "done" /\ req[c].tool = "compile_context" =>
               \/ rows[c] = 1 \/ c \in lost
               \/ writing # Nil /\ writing.call = c
               \/ \E k \in DOMAIN channel : channel[k].call = c

(* Everything accepted ends: a request is answered - it never keeps a       *)
(* permit or waits for one for ever - and a rebuild job that is queued,     *)
(* also one queued while the runner is about to stop, reaches an end - as   *)
(* long as no rebuild panics, which ends the runner for good.               *)
ServerAnswers ==
    LET Pending == \/ \E c \in Calls : req[c].stage \notin {"idle", "done", "refused"}
                   \/ runner # "stuck" /\ \E j \in Jobs : job[j] \in {"queued", "running"}
    IN Pending ~> ~Pending
=============================================================================

--------------------------- MODULE SessionContext ---------------------------
(***************************************************************************)
(* What mcp-server remembers of one session: the suppression entries, by   *)
(* repository, and the compiled contexts, by prompt.  Each lives in a      *)
(* concurrent map of the process, is listed in a per-session index and is  *)
(* mirrored in Redis.  compile_context requests read and write them while  *)
(* extract_session calls clear them, locally at once and in Redis by a     *)
(* background task.                                                        *)
(*                                                                         *)
(* Sources: crates/mcp-server/src/suppression_state.rs, context_cache.rs,  *)
(*          tools/compile_context.rs and lib.rs (compile_context,          *)
(*          extract_session).                                              *)
(*                                                                         *)
(* Sessions share nothing (keys and index entries carry the session id),   *)
(* so one is modelled.  Its scopes are fixed at start-up.                  *)
(***************************************************************************)
EXTENDS Integers, FiniteSets

CONSTANTS
    Requests,     \* compile_context calls of the session
    Clears,       \* extract_session calls of the session that are not "failed"
    Repos, Prompts,
    Faults,       \* which of "redis", "degraded", "crash" may happen
    MaxVersion,   \* bound: graph versions
    MaxCrashes,   \* bound: restarts of the server
    None          \* no entry

ASSUME SessionAssumption ==
    /\ Faults \subseteq {"redis", "degraded", "crash"}
    /\ MaxVersion \in Nat \ {0}
    /\ MaxCrashes \in Nat

Stores == {"cache", "suppression"}
SuppressionKey(repo) == <<"suppression", repo>>
(* The scope fingerprint is the same for all; the repository is not in it. *)
CacheKey(prompt) == <<"cache", prompt>>
Keys == {SuppressionKey(p) : p \in Repos} \cup {CacheKey(p) : p \in Prompts}
KeysOf(store) == {k \in Keys : k[1] = store}

Versions == 1..MaxVersion
(* An entry: the graph version and the repository it was retrieved for. *)
Entries == [ver : Versions, repo : Repos]
ASSUME NoneAssumption == None \notin Entries

VARIABLES
    graph,        \* version of the snapshot the retriever serves
    inner, index, \* the process's maps, and the keys the session's index lists
    redis,        \* the mirror
    \* one request each: where it is, what it asks for, the version it read at
    \* its start, the lookup it is at, the entry at hand and its answer
    pc, repo, prompt, ver, want, entry, answer,
    \* one extract_session call each: where it is, the keys still to evict, and
    \* where the background delete of each store is, with the keys it has found
    cpc, doomed, dpc, found,
    crashes,
    retrieved,    \* history: healthy retrievals [prompt, repo, ver]
    quiet         \* history: clears no request and no failure has run alongside

maps    == <<inner, index>>
request == <<pc, repo, prompt, ver, want, entry, answer>>
clear   == <<cpc, doomed, dpc, found>>
vars == <<graph, inner, index, redis, pc, repo, prompt, ver, want, entry, answer,
          cpc, doomed, dpc, found, crashes, retrieved, quiet>>

NoEntries == [k \in Keys |-> None]

Init ==
    /\ graph = 1
    /\ inner = NoEntries /\ index = {} /\ redis = NoEntries
    /\ pc = [r \in Requests |-> "new"]
    /\ repo \in [Requests -> Repos]
    /\ prompt \in [Requests -> Prompts]
    /\ ver = [r \in Requests |-> 1]
    /\ want = [r \in Requests |-> "suppressed"]
    /\ entry = [r \in Requests |-> None]
    /\ answer = [r \in Requests |-> "none"]
    /\ cpc = [c \in Clears |-> "new"]
    /\ doomed = [c \in Clears |-> {}]
    /\ dpc = [c \in Clears |-> [s \in Stores |-> "none"]]
    /\ found = [c \in Clears |-> [s \in Stores |-> {}]]
    /\ crashes = 0
    /\ retrieved = {}
    /\ quiet = {}

-----------------------------------------------------------------------------
(* The graph refresh subscriber swaps in a newer snapshot. *)
SwapGraph ==
    /\ graph < MaxVersion
    /\ graph' = graph + 1
    /\ UNCHANGED <<maps, redis, request, clear, crashes, retrieved, quiet>>

(* A key outlives its time in Redis. *)
Expire(k) ==
    /\ redis[k] # None
    /\ redis' = [redis EXCEPT ![k] = None]
    /\ UNCHANGED <<graph, maps, request, clear, crashes, retrieved, quiet>>

(* The process dies: maps, requests and background deletes are gone. *)
Crash ==
    /\ "crash" \in Faults
    /\ crashes < MaxCrashes
    /\ crashes' = crashes + 1
    /\ inner' = NoEntries /\ index' = {}
    /\ pc' = [r \in Requests |-> IF pc[r] = "new" THEN "new" ELSE "done"]
    /\ cpc' = [c \in Clears |-> IF cpc[c] = "new" THEN "new" ELSE "done"]
    /\ doomed' = [c \in Clears |-> {}]
    /\ dpc' = [c \in Clears |-> [s \in Stores |-> "none"]]
    /\ found' = [c \in Clears |-> [s \in Stores |-> {}]]
    /\ quiet' = {}
    /\ UNCHANGED <<graph, redis, repo, prompt, ver, want, entry, answer, retrieved>>

-----------------------------------------------------------------------------
(* compile_context *)

(* The key a lookup or a write of request r is about. *)
Key(r) == IF want[r] \in {"context", "cache"} THEN CacheKey(prompt[r])
          ELSE SuppressionKey(repo[r])

(* Faulty variant: the version is read one behind the served snapshot. *)
StartBehind(r) ==
    /\ pc[r] = "new"
    /\ ver' = [ver EXCEPT ![r] = graph - 1]
    /\ \E place \in {"local", "retrieve"} : pc' = [pc EXCEPT ![r] = place]
    /\ quiet' = {}
    /\ UNCHANGED <<graph, maps, redis, repo, prompt, want, entry, answer, clear,
                   crashes, retrieved>>

(* invoke_and_capture_outcome: a compact-triggered call looks nothing up. *)
Start(r) ==
    /\ pc[r] = "new"
    /\ ver' = [ver EXCEPT ![r] = graph]
    /\ \E place \in {"local", "retrieve"} : pc' = [pc EXCEPT ![r] = place]
    /\ quiet' = {}
    /\ UNCHANGED <<graph, maps, redis, repo, prompt, want, entry, answer, clear,
                   crashes, retrieved>>

(* Faulty variant: any entry of the repository suppresses. *)
ResolveAnyVersion(r, e) ==
    LET goto(place, next, how) ==
            /\ pc' = [pc EXCEPT ![r] = place]
            /\ want' = [want EXCEPT ![r] = next]
            /\ answer' = [answer EXCEPT ![r] = how]
    IN  CASE want[r] = "suppressed" ->
               IF e # None THEN goto("local", "version", "none")
               ELSE goto("local", "context", "none")
          [] want[r] = "version" -> goto("local", "scopes", "none")
          [] want[r] = "scopes" -> goto("done", "scopes", "suppressed")
          [] want[r] = "context" ->
               IF e # None THEN goto("done", "context", "cached")
               ELSE goto("retrieve", "context", "none")

(* try_suppression_or_cache: what each lookup's result e leads to.  A request
   that is suppressed looks up the version and the scopes it reports. *)
Resolve(r, e) ==
    LET goto(place, next, how) ==
            /\ pc' = [pc EXCEPT ![r] = place]
            /\ want' = [want EXCEPT ![r] = next]
            /\ answer' = [answer EXCEPT ![r] = how]
        hit == e # None /\ (want[r] \in {"suppressed", "context"} => e.ver = ver[r])
    IN  CASE want[r] = "suppressed" ->
               IF hit THEN goto("local", "version", "none") ELSE goto("local", "context", "none")
          [] want[r] = "version" -> goto("local", "scopes", "none")
          [] want[r] = "scopes" -> goto("done", "scopes", "suppressed")
          [] want[r] = "context" ->
               IF hit THEN goto("done", "context", "cached") ELSE goto("retrieve", "context", "none")

(* The process's own map first.  The cache passes over an entry of another
   version; the suppression state takes what it finds. *)
LookLocal(r) ==
    /\ pc[r] = "local"
    /\ LET e == inner[Key(r)] IN
       \/ /\ e # None /\ (want[r] = "context" => e.ver = ver[r])
          /\ Resolve(r, e)
       \/ /\ ~ (e # None /\ (want[r] = "context" => e.ver = ver[r]))
          /\ pc' = [pc EXCEPT ![r] = "redis"]
          /\ UNCHANGED <<want, answer>>
    /\ UNCHANGED <<graph, maps, redis, repo, prompt, ver, entry, clear, crashes, retrieved, quiet>>

(* try_redis_get of the cache, and of the suppression state alike: a failed
   connection or GET, or a value that does not parse, is a miss. *)
RedisGet(k) == {redis[k]} \cup (IF "redis" \in Faults THEN {None} ELSE {})

(* The fallback to Redis: a hit is brought into the local map. *)
LookRedis(r) ==
    /\ pc[r] = "redis"
    /\ \E e \in RedisGet(Key(r)) :
       \/ /\ e # None /\ (want[r] = "context" => e.ver = ver[r])
          /\ entry' = [entry EXCEPT ![r] = e]
          /\ pc' = [pc EXCEPT ![r] = "insert"]
          /\ UNCHANGED <<want, answer>>
       \/ /\ ~ (e # None /\ (want[r] = "context" => e.ver = ver[r]))
          /\ Resolve(r, None)
          /\ UNCHANGED entry
    /\ UNCHANGED <<graph, maps, redis, repo, prompt, ver, clear, crashes, retrieved, quiet>>

(* Faulty variant: an answer that is degraded is remembered, too. *)
RetrieveDegraded(r) ==
    /\ pc[r] = "retrieve"
    /\ entry' = [entry EXCEPT ![r] = [ver |-> graph, repo |-> repo[r]]]
    /\ want' = [want EXCEPT ![r] = "mark"]
    /\ pc' = [pc EXCEPT ![r] = "insert"]
    /\ \/ retrieved' = retrieved \cup {[prompt |-> prompt[r], repo |-> repo[r], ver |-> graph]}
       \/ "degraded" \in Faults /\ UNCHANGED retrieved
    /\ UNCHANGED <<graph, maps, redis, repo, prompt, ver, answer, clear, crashes, quiet>>

(* retrieve and handle_retrieval_result: a match and "no match" are both
   remembered, under the version the retrieval saw; a degraded one is not. *)
Retrieve(r) ==
    /\ pc[r] = "retrieve"
    /\ \/ /\ entry' = [entry EXCEPT ![r] = [ver |-> graph, repo |-> repo[r]]]
          /\ want' = [want EXCEPT ![r] = "mark"]
          /\ pc' = [pc EXCEPT ![r] = "insert"]
          /\ retrieved' = retrieved \cup {[prompt |-> prompt[r], repo |-> repo[r], ver |-> graph]}
          /\ UNCHANGED answer
       \/ /\ "degraded" \in Faults
          /\ pc' = [pc EXCEPT ![r] = "done"]
          /\ answer' = [answer EXCEPT ![r] = "degraded"]
          /\ UNCHANGED <<entry, want, retrieved>>
    /\ UNCHANGED <<graph, maps, redis, repo, prompt, ver, clear, crashes, quiet>>

(* record_local, first the map ... *)
Insert(r) ==
    /\ pc[r] = "insert"
    /\ inner' = [inner EXCEPT ![Key(r)] = entry[r]]
    /\ pc' = [pc EXCEPT ![r] = "index"]
    /\ UNCHANGED <<graph, index, redis, repo, prompt, ver, want, entry, answer, clear, crashes,
                   retrieved, quiet>>

(* What follows record_local: a write goes on to Redis, a read-through back to
   the lookup it came from. *)
Recorded(r) ==
    IF want[r] \in {"mark", "cache"}
    THEN pc' = [pc EXCEPT ![r] = "setex"] /\ UNCHANGED <<want, answer>>
    ELSE Resolve(r, entry[r])

(* Faulty variant: only what is written is indexed, not what is read through. *)
IndexWritesOnly(r) ==
    /\ pc[r] = "index"
    /\ index' = IF want[r] \in {"mark", "cache"} THEN index \cup {Key(r)} ELSE index
    /\ Recorded(r)
    /\ UNCHANGED <<graph, inner, redis, repo, prompt, ver, entry, clear, crashes, retrieved, quiet>>

(* ... then the index. *)
Index(r) ==
    /\ pc[r] = "index"
    /\ index' = index \cup {Key(r)}
    /\ Recorded(r)
    /\ UNCHANGED <<graph, inner, redis, repo, prompt, ver, entry, clear, crashes, retrieved, quiet>>

(* try_redis_setex of the cache, and of the suppression state alike: an error
   is logged. *)
RedisSetEx(k, e) ==
    \/ redis' = [redis EXCEPT ![k] = e]
    \/ "redis" \in Faults /\ UNCHANGED redis

(* The end of mark_healthy and of the cache's set. *)
SetEx(r) ==
    /\ pc[r] = "setex"
    /\ RedisSetEx(Key(r), entry[r])
    /\ \/ /\ want[r] = "mark"
          /\ want' = [want EXCEPT ![r] = "cache"]
          /\ pc' = [pc EXCEPT ![r] = "insert"]
          /\ UNCHANGED answer
       \/ /\ want[r] = "cache"
          /\ pc' = [pc EXCEPT ![r] = "done"]
          /\ answer' = [answer EXCEPT ![r] = "retrieved"]
          /\ UNCHANGED want
    /\ UNCHANGED <<graph, maps, repo, prompt, ver, entry, clear, crashes, retrieved, quiet>>

-----------------------------------------------------------------------------
(* clear_session, of the cache and then of the suppression state *)

Idle == \A r \in Requests : pc[r] \in {"new", "done"}
StoreOf(c) == IF cpc[c] \in {"new", "evict_cache"} THEN "cache" ELSE "suppression"

(* session_index.remove, one atomic step; the keys it lists are evicted. *)
TakeIndex(c) ==
    /\ cpc[c] \in {"new", "cleared_cache"}
    /\ doomed' = [doomed EXCEPT ![c] = index \cap KeysOf(StoreOf(c))]
    /\ index' = index \ KeysOf(StoreOf(c))
    /\ cpc' = [cpc EXCEPT ![c] = IF cpc[c] = "new" THEN "evict_cache" ELSE "evict_suppression"]
    /\ quiet' = IF cpc[c] = "new" /\ Idle THEN quiet \cup {c} ELSE quiet
    /\ UNCHANGED <<graph, inner, redis, request, dpc, found, crashes, retrieved>>

Evict(c, k) ==
    /\ cpc[c] \in {"evict_cache", "evict_suppression"}
    /\ k \in doomed[c]
    /\ inner' = [inner EXCEPT ![k] = None]
    /\ doomed' = [doomed EXCEPT ![c] = @ \ {k}]
    /\ UNCHANGED <<graph, index, redis, request, cpc, dpc, found, crashes, retrieved, quiet>>

(* Local eviction is done: the background delete is spawned. *)
SpawnDelete(c) ==
    /\ cpc[c] \in {"evict_cache", "evict_suppression"}
    /\ doomed[c] = {}
    /\ dpc' = [dpc EXCEPT ![c][StoreOf(c)] = "scan"]
    /\ cpc' = [cpc EXCEPT ![c] = IF cpc[c] = "evict_cache" THEN "cleared_cache" ELSE "done"]
    /\ UNCHANGED <<graph, maps, redis, request, doomed, found, crashes, retrieved, quiet>>

(* Faulty variant: the cursor is not followed past the first page. *)
ScanFirstPage(c, s) ==
    /\ dpc[c][s] = "scan"
    /\ LET live == {k \in KeysOf(s) : redis[k] # None} IN
       \E page \in SUBSET live :
           /\ live # {} => page # {}
           /\ found' = [found EXCEPT ![c][s] = page]
    /\ dpc' = [dpc EXCEPT ![c][s] = "del"]
    /\ UNCHANGED <<graph, maps, redis, request, cpc, doomed, crashes, retrieved, quiet>>

(* scan_and_del_pattern: the SCAN collects the keys, one DEL removes them; an
   error of either ends the task. *)
Scan(c, s) ==
    /\ dpc[c][s] = "scan"
    /\ \/ /\ found' = [found EXCEPT ![c][s] = {k \in KeysOf(s) : redis[k] # None}]
          /\ dpc' = [dpc EXCEPT ![c][s] = "del"]
          /\ UNCHANGED quiet
       \/ /\ "redis" \in Faults
          /\ dpc' = [dpc EXCEPT ![c][s] = "done"]
          /\ quiet' = quiet \ {c}
          /\ UNCHANGED found
    /\ UNCHANGED <<graph, maps, redis, request, cpc, doomed, crashes, retrieved>>

Delete(c, s) ==
    /\ dpc[c][s] = "del"
    /\ dpc' = [dpc EXCEPT ![c][s] = "done"]
    /\ found' = [found EXCEPT ![c][s] = {}]
    /\ \/ /\ redis' = [k \in Keys |-> IF k \in found[c][s] THEN None ELSE redis[k]]
          /\ UNCHANGED quiet
       \/ /\ "redis" \in Faults
          /\ quiet' = quiet \ {c}
          /\ UNCHANGED redis
    /\ UNCHANGED <<graph, maps, request, cpc, doomed, crashes, retrieved>>

-----------------------------------------------------------------------------
RequestStep(r) ==
    \/ Start(r) \/ LookLocal(r) \/ LookRedis(r) \/ Retrieve(r)
    \/ Insert(r) \/ Index(r) \/ SetEx(r)

ClearStep(c) ==
    \/ TakeIndex(c) \/ SpawnDelete(c)
    \/ \E k \in Keys : Evict(c, k)
    \/ \E s \in Stores : Scan(c, s) \/ Delete(c, s)

Next ==
    \/ SwapGraph \/ Crash
    \/ \E k \in Keys : Expire(k)
    \/ \E r \in Requests : RequestStep(r)
    \/ \E c \in Clears : ClearStep(c)

Spec == Init /\ [][Next]_vars

-----------------------------------------------------------------------------
(* Type invariant. *)
TypeOK ==
    /\ graph \in Versions
    /\ inner \in [Keys -> Entries \cup {None}] /\ redis \in [Keys -> Entries \cup {None}]
    /\ index \subseteq Keys
    /\ pc \in [Requests -> {"new", "local", "redis", "retrieve", "insert", "index", "setex", "done"}]
    /\ repo \in [Requests -> Repos] /\ prompt \in [Requests -> Prompts]
    /\ ver \in [Requests -> Versions]
    /\ want \in [Requests -> {"suppressed", "version", "scopes", "context", "mark", "cache"}]
    /\ entry \in [Requests -> Entries \cup {None}]
    /\ answer \in [Requests -> {"none", "suppressed", "cached", "degraded", "retrieved"}]
    /\ cpc \in [Clears -> {"new", "evict_cache", "cleared_cache", "evict_suppression", "done"}]
    /\ doomed \in [Clears -> SUBSET Keys]
    /\ dpc \in [Clears -> [Stores -> {"none", "scan", "del", "done"}]]
    /\ found \in [Clears -> [Stores -> SUBSET Keys]]
    /\ crashes \in 0..MaxCrashes
    /\ retrieved \subseteq [prompt : Prompts, repo : Repos, ver : Versions]
    /\ quiet \subseteq Clears

(* "keeping the index a complete mirror so keyed clear_session eviction never
   misses an entry": an entry of the map is listed, or its writer is about to
   list it, or a clear is about to evict it, although map and index are two
   structures and nothing locks both. *)
IndexCoversMap ==
    \A k \in Keys : inner[k] # None =>
        \/ k \in index
        \/ \E r \in Requests : pc[r] = "index" /\ Key(r) = k
        \/ \E c \in Clears : k \in doomed[c]

(* A clear that no request runs alongside forgets the session: when its
   background deletes are done Redis has no entry, and the process none but
   what another clear has taken from the index and is about to evict. *)
QuietClearIsComplete ==
    \A c \in quiet : (\A s \in Stores : dpc[c][s] = "done") =>
        \A k \in Keys :
            /\ redis[k] = None
            /\ inner[k] # None => \E d \in Clears : k \in doomed[d]

(* A request is answered without a retrieval only for what the session was
   given by a healthy retrieval of the version the request started with: the
   repository's if it is suppressed, the prompt's if it is cached. *)
RememberedIsCurrent ==
    \A r \in Requests :
        /\ answer[r] = "suppressed" =>
              \E h \in retrieved : h.repo = repo[r] /\ h.ver = ver[r]
        /\ answer[r] = "cached" =>
              \E h \in retrieved : h.prompt = prompt[r] /\ h.ver = ver[r]

=============================================================================

------------------------ MODULE SessionContextProofs ------------------------
(***************************************************************************)
(* Proofs about SessionContext, for any requests, clears, repositories and *)
(* prompts, any number of graph versions and restarts, and any faults.     *)
(***************************************************************************)
EXTENDS SessionContext, TLAPS

Lookups == {"suppressed", "version", "scopes", "context"}
Recording == {"insert", "index", "setex"}

(* A request that reads asks one of the four lookups; one that has not begun
   has asked and answered nothing. *)
WantFits ==
    \A r \in Requests :
        /\ pc[r] \in {"new", "local", "redis"} => want[r] \in Lookups
        /\ pc[r] = "new" => want[r] = "suppressed" /\ answer[r] = "none"

(* Only a clear that is evicting has keys to evict. *)
DoomedFits ==
    \A c \in Clears : cpc[c] \in {"new", "cleared_cache", "done"} => doomed[c] = {}

MirrorInv == TypeOK /\ WantFits /\ DoomedFits /\ IndexCoversMap

-----------------------------------------------------------------------------
(* The initial state satisfies the inductive invariant. *)
LEMMA InitMirror == Init => MirrorInv
BY SessionAssumption, NoneAssumption DEF Init, MirrorInv, TypeOK, WantFits, DoomedFits,
   IndexCoversMap, NoEntries, Versions, Lookups

(* The key of a request is a key. *)
LEMMA KeyType == ASSUME TypeOK, NEW r \in Requests PROVE Key(r) \in Keys
BY DEF TypeOK, Key, Keys

(* What Resolve may change: the place, the lookup and the answer of its own
   request, which goes on reading, retrieves or ends. *)
LEMMA ResolveEffect ==
    ASSUME TypeOK, NEW r \in Requests, NEW e, want[r] \in Lookups, Resolve(r, e)
    PROVE  \E p \in {"local", "retrieve", "done"}, w \in Lookups,
              a \in {"none", "suppressed", "cached"} :
              /\ pc' = [pc EXCEPT ![r] = p]
              /\ want' = [want EXCEPT ![r] = w]
              /\ answer' = [answer EXCEPT ![r] = a]
<1>1. CASE want[r] = "suppressed"
  BY <1>1, Zenon DEF Resolve, Lookups
<1>2. CASE want[r] = "version"
  BY <1>2 DEF Resolve, Lookups
<1>3. CASE want[r] = "scopes"
  BY <1>3 DEF Resolve, Lookups
<1>4. CASE want[r] = "context"
  BY <1>4 DEF Resolve, Lookups
<1> QED
  BY <1>1, <1>2, <1>3, <1>4 DEF Lookups

(* Every step preserves the inductive invariant. *)
LEMMA MirrorStep == ASSUME MirrorInv, [Next]_vars PROVE MirrorInv'
<1> USE SessionAssumption, NoneAssumption
<1>0. TypeOK /\ WantFits /\ DoomedFits /\ IndexCoversMap
  BY DEF MirrorInv
<1>1. CASE SwapGraph
  <2>1. TypeOK'
    BY <1>0, <1>1 DEF SwapGraph, maps, request, clear, TypeOK, Versions, Entries
  <2>2. WantFits' /\ DoomedFits' /\ IndexCoversMap'
    BY <1>0, <1>1 DEF SwapGraph, maps, request, clear, WantFits, DoomedFits, IndexCoversMap, Key
  <2> QED BY <2>1, <2>2 DEF MirrorInv
<1>2. ASSUME NEW k \in Keys, Expire(k) PROVE MirrorInv'
  <2>1. TypeOK'
    BY <1>0, <1>2 DEF Expire, maps, request, clear, TypeOK
  <2>2. WantFits' /\ DoomedFits' /\ IndexCoversMap'
    BY <1>0, <1>2 DEF Expire, maps, request, clear, WantFits, DoomedFits, IndexCoversMap, Key
  <2> QED BY <2>1, <2>2 DEF MirrorInv
<1>3. CASE Crash
  <2>1. TypeOK'
    BY <1>0, <1>3 DEF Crash, TypeOK, NoEntries
  <2>2. WantFits' /\ DoomedFits' /\ IndexCoversMap'
    BY <1>0, <1>3 DEF Crash, TypeOK, NoEntries, WantFits, DoomedFits, IndexCoversMap
  <2> QED BY <2>1, <2>2 DEF MirrorInv
<1>4. ASSUME NEW r \in Requests, RequestStep(r) PROVE MirrorInv'
  <2>k. Key(r) \in Keys
    BY <1>0, KeyType
  <2>1. CASE Start(r)
    <3>1. TypeOK'
      BY <1>0, <2>1 DEF Start, maps, clear, TypeOK
    <3>2. WantFits'
      BY <1>0, <2>1 DEF Start, TypeOK, WantFits
    <3>3. DoomedFits' /\ IndexCoversMap'
      BY <1>0, <2>1 DEF Start, maps, clear, TypeOK, DoomedFits, IndexCoversMap, Key
    <3> QED BY <3>1, <3>2, <3>3 DEF MirrorInv
  <2>2. CASE LookLocal(r)
    <3>1. \E p \in {"local", "redis", "retrieve", "done"}, w \in Lookups,
             a \in {"none", "suppressed", "cached"} :
             /\ pc' = [pc EXCEPT ![r] = p]
             /\ \/ want' = [want EXCEPT ![r] = w] /\ answer' = [answer EXCEPT ![r] = a]
                \/ UNCHANGED <<want, answer>>
      BY <1>0, <2>2, ResolveEffect DEF LookLocal, WantFits
    <3>2. want[r] \in Lookups /\ pc[r] = "local"
      BY <1>0, <2>2 DEF LookLocal, WantFits
    <3>3. UNCHANGED <<graph, maps, redis, repo, prompt, ver, entry, clear, crashes, retrieved, quiet>>
      BY <2>2 DEF LookLocal
    <3>4. TypeOK'
      BY <1>0, <3>1, <3>3 DEF TypeOK, maps, clear, Lookups
    <3>5. WantFits'
      BY <1>0, <3>1, <3>2 DEF TypeOK, WantFits
    <3>6. DoomedFits' /\ IndexCoversMap'
      BY <1>0, <3>1, <3>2, <3>3 DEF TypeOK, maps, clear, DoomedFits, IndexCoversMap, Key
    <3> QED BY <3>4, <3>5, <3>6 DEF MirrorInv
  <2>3. CASE LookRedis(r)
    <3>1. \E p \in {"local", "insert", "retrieve", "done"}, w \in Lookups,
             a \in {"none", "suppressed", "cached"} :
             /\ pc' = [pc EXCEPT ![r] = p]
             /\ \/ want' = [want EXCEPT ![r] = w] /\ answer' = [answer EXCEPT ![r] = a]
                \/ UNCHANGED <<want, answer>>
      BY <1>0, <2>3, ResolveEffect DEF LookRedis, RedisGet, WantFits
    <3>2. want[r] \in Lookups /\ pc[r] = "redis"
      BY <1>0, <2>3 DEF LookRedis, RedisGet, WantFits
    <3>3. UNCHANGED <<graph, maps, redis, repo, prompt, ver, clear, crashes, retrieved, quiet>>
      BY <2>3 DEF LookRedis, RedisGet
    <3>4. entry' \in [Requests -> Entries \cup {None}]
      BY <1>0, <2>3, <2>k DEF LookRedis, RedisGet, TypeOK
    <3>a. /\ pc' \in [Requests -> {"new", "local", "redis", "retrieve", "insert", "index",
                                   "setex", "done"}]
          /\ want' \in [Requests -> {"suppressed", "version", "scopes", "context", "mark", "cache"}]
          /\ answer' \in [Requests -> {"none", "suppressed", "cached", "degraded", "retrieved"}]
      <4>1. PICK p \in {"local", "insert", "retrieve", "done"}, w \in Lookups,
                 a \in {"none", "suppressed", "cached"} :
               /\ pc' = [pc EXCEPT ![r] = p]
               /\ \/ want' = [want EXCEPT ![r] = w] /\ answer' = [answer EXCEPT ![r] = a]
                  \/ UNCHANGED <<want, answer>>
        BY <3>1
      <4>2. pc' \in [Requests -> {"new", "local", "redis", "retrieve", "insert", "index",
                                  "setex", "done"}]
        BY <1>0, <4>1 DEF TypeOK
      <4>3. CASE want' = [want EXCEPT ![r] = w] /\ answer' = [answer EXCEPT ![r] = a]
        BY <1>0, <4>2, <4>3 DEF TypeOK, Lookups
      <4>4. CASE UNCHANGED <<want, answer>>
        BY <1>0, <4>2, <4>4 DEF TypeOK
      <4> QED BY <4>1, <4>3, <4>4
    <3>5. TypeOK'
      BY <1>0, <3>a, <3>3, <3>4 DEF TypeOK, maps, clear
    <3>6. WantFits'
      BY <1>0, <3>1, <3>2 DEF TypeOK, WantFits
    <3>7. DoomedFits' /\ IndexCoversMap'
      BY <1>0, <3>1, <3>2, <3>3 DEF TypeOK, maps, clear, DoomedFits, IndexCoversMap, Key
    <3> QED BY <3>5, <3>6, <3>7 DEF MirrorInv
  <2>4. CASE Retrieve(r)
    <3>1. TypeOK'
      <4>1. [ver |-> graph, repo |-> repo[r]] \in Entries
        BY <1>0 DEF TypeOK, Entries
      <4>2. [prompt |-> prompt[r], repo |-> repo[r], ver |-> graph]
              \in [prompt : Prompts, repo : Repos, ver : Versions]
        BY <1>0 DEF TypeOK
      <4>3. entry' \in [Requests -> Entries \cup {None}]
        BY <1>0, <2>4, <4>1 DEF Retrieve, TypeOK
      <4>4. retrieved' \subseteq [prompt : Prompts, repo : Repos, ver : Versions]
        BY <1>0, <2>4, <4>2 DEF Retrieve, TypeOK
      <4> QED BY <1>0, <2>4, <4>3, <4>4 DEF Retrieve, maps, clear, TypeOK
    <3>2. WantFits'
      BY <1>0, <2>4 DEF Retrieve, TypeOK, WantFits
    <3>3. DoomedFits' /\ IndexCoversMap'
      BY <1>0, <2>4 DEF Retrieve, maps, clear, TypeOK, DoomedFits, IndexCoversMap, Key
    <3> QED BY <3>1, <3>2, <3>3 DEF MirrorInv
  <2>5. CASE Insert(r)
    <3>1. TypeOK'
      BY <1>0, <2>5, <2>k DEF Insert, clear, TypeOK
    <3>2. WantFits' /\ DoomedFits'
      BY <1>0, <2>5 DEF Insert, clear, TypeOK, WantFits, DoomedFits
    <3>3. IndexCoversMap'
      BY <1>0, <2>5, <2>k DEF Insert, clear, TypeOK, IndexCoversMap, Key
    <3> QED BY <3>1, <3>2, <3>3 DEF MirrorInv
  <2>6. CASE Index(r)
    <3>1. \E p \in {"local", "setex", "retrieve", "done"},
             w \in {"suppressed", "version", "scopes", "context", "mark", "cache"},
             a \in {"none", "suppressed", "cached", "degraded", "retrieved"} :
             /\ pc' = [pc EXCEPT ![r] = p]
             /\ want' = [want EXCEPT ![r] = w]
             /\ answer' = [answer EXCEPT ![r] = a]
             /\ p = "local" => w \in Lookups
      <4>1. CASE want[r] \in {"mark", "cache"}
        <5>1. /\ pc' = [pc EXCEPT ![r] = "setex"]
              /\ want' = [want EXCEPT ![r] = want[r]]
              /\ answer' = [answer EXCEPT ![r] = answer[r]]
          BY <1>0, <4>1, <2>6 DEF Index, Recorded, TypeOK
        <5>2. answer[r] \in {"none", "suppressed", "cached", "degraded", "retrieved"}
          BY <1>0 DEF TypeOK
        <5> QED BY <4>1, <5>1, <5>2
      <4>2. CASE want[r] \notin {"mark", "cache"}
        <5>1. want[r] \in Lookups /\ Resolve(r, entry[r])
          BY <1>0, <4>2, <2>6 DEF Index, Recorded, TypeOK, Lookups
        <5>2. \E p \in {"local", "retrieve", "done"}, w \in Lookups,
                 a \in {"none", "suppressed", "cached"} :
                 /\ pc' = [pc EXCEPT ![r] = p]
                 /\ want' = [want EXCEPT ![r] = w]
                 /\ answer' = [answer EXCEPT ![r] = a]
          BY <1>0, <5>1, ResolveEffect
        <5> QED BY <5>2 DEF Lookups
      <4> QED BY <4>1, <4>2
    <3>2. PICK p \in {"local", "setex", "retrieve", "done"},
               w \in {"suppressed", "version", "scopes", "context", "mark", "cache"},
               a \in {"none", "suppressed", "cached", "degraded", "retrieved"} :
             /\ pc' = [pc EXCEPT ![r] = p]
             /\ want' = [want EXCEPT ![r] = w]
             /\ answer' = [answer EXCEPT ![r] = a]
             /\ p = "local" => w \in Lookups
      BY <3>1
    <3>3. /\ pc[r] = "index" /\ index' = index \cup {Key(r)}
          /\ UNCHANGED <<graph, inner, redis, repo, prompt, ver, entry, clear, crashes, retrieved, quiet>>
      BY <2>6 DEF Index
    <3>4. TypeOK'
      BY <1>0, <2>k, <3>2, <3>3 DEF TypeOK, clear
    <3>5. WantFits'
      BY <1>0, <3>2, <3>3 DEF TypeOK, WantFits, Lookups
    <3>6. DoomedFits'
      BY <1>0, <3>3 DEF clear, DoomedFits
    <3>7. ASSUME NEW k \in Keys, inner'[k] # None
          PROVE  \/ k \in index'
                 \/ \E q \in Requests : pc'[q] = "index" /\ Key(q)' = k
                 \/ \E c \in Clears : k \in doomed'[c]
      <4>1. ASSUME NEW q \in Requests, pc[q] = "index", Key(q) = k, q # r
            PROVE  pc'[q] = "index" /\ Key(q)' = k
        BY <1>0, <3>2, <3>3, <4>1 DEF TypeOK, Key
      <4> QED BY <1>0, <3>3, <3>7, <4>1 DEF clear, IndexCoversMap
    <3>8. IndexCoversMap'
      BY <3>7 DEF IndexCoversMap
    <3> QED BY <3>4, <3>5, <3>6, <3>8 DEF MirrorInv
  <2>7. CASE SetEx(r)
    <3>1. TypeOK'
      BY <1>0, <2>7, <2>k DEF SetEx, RedisSetEx, maps, clear, TypeOK
    <3>2. WantFits'
      BY <1>0, <2>7 DEF SetEx, RedisSetEx, TypeOK, WantFits
    <3>3. DoomedFits' /\ IndexCoversMap'
      BY <1>0, <2>7 DEF SetEx, RedisSetEx, maps, clear, TypeOK, DoomedFits, IndexCoversMap, Key
    <3> QED BY <3>1, <3>2, <3>3 DEF MirrorInv
  <2> QED BY <1>4, <2>1, <2>2, <2>3, <2>4, <2>5, <2>6, <2>7 DEF RequestStep
<1>5. ASSUME NEW c \in Clears, ClearStep(c) PROVE MirrorInv'
  <2>1. CASE TakeIndex(c)
    <3>1. TypeOK'
      BY <1>0, <2>1 DEF TakeIndex, request, TypeOK
    <3>2. WantFits'
      BY <1>0, <2>1 DEF TakeIndex, request, TypeOK, WantFits
    <3>3. DoomedFits'
      BY <1>0, <2>1 DEF TakeIndex, TypeOK, DoomedFits
    <3>4. doomed[c] = {}
      BY <1>0, <2>1 DEF TakeIndex, DoomedFits
    <3>5. IndexCoversMap'
      BY <1>0, <2>1, <3>4 DEF TakeIndex, request, TypeOK, IndexCoversMap, Key
    <3> QED BY <3>1, <3>2, <3>3, <3>5 DEF MirrorInv
  <2>2. CASE SpawnDelete(c)
    <3>1. TypeOK'
      BY <1>0, <2>2 DEF SpawnDelete, maps, request, TypeOK, Stores
    <3>2. WantFits' /\ DoomedFits' /\ IndexCoversMap'
      BY <1>0, <2>2 DEF SpawnDelete, maps, request, TypeOK, WantFits, DoomedFits,
         IndexCoversMap, Key
    <3> QED BY <3>1, <3>2 DEF MirrorInv
  <2>3. ASSUME NEW k \in Keys, Evict(c, k) PROVE MirrorInv'
    <3>1. TypeOK'
      BY <1>0, <2>3 DEF Evict, request, TypeOK
    <3>2. WantFits' /\ DoomedFits'
      BY <1>0, <2>3 DEF Evict, request, TypeOK, WantFits, DoomedFits
    <3>3. IndexCoversMap'
      BY <1>0, <2>3 DEF Evict, request, TypeOK, IndexCoversMap, Key
    <3> QED BY <3>1, <3>2, <3>3 DEF MirrorInv
  <2>4. ASSUME NEW s \in Stores, Scan(c, s) \/ Delete(c, s) PROVE MirrorInv'
    <3>1. ASSUME NEW ks \in SUBSET Keys
          PROVE  [found EXCEPT ![c][s] = ks] \in [Clears -> [Stores -> SUBSET Keys]]
      BY <1>0 DEF TypeOK
    <3>a. {k \in KeysOf(s) : redis[k] # None} \in SUBSET Keys
      BY DEF KeysOf
    <3>b. ASSUME NEW p \in {"none", "scan", "del", "done"}
          PROVE  [dpc EXCEPT ![c][s] = p]
                   \in [Clears -> [Stores -> {"none", "scan", "del", "done"}]]
      BY <1>0 DEF TypeOK
    <3>c. /\ found' \in [Clears -> [Stores -> SUBSET Keys]]
          /\ dpc' \in [Clears -> [Stores -> {"none", "scan", "del", "done"}]]
      <4>1. CASE Scan(c, s)
        BY <1>0, <4>1, <3>1, <3>a, <3>b DEF Scan, TypeOK
      <4>2. CASE Delete(c, s)
        BY <4>2, <3>1, <3>b DEF Delete
      <4> QED BY <2>4, <4>1, <4>2
    <3>d. redis' \in [Keys -> Entries \cup {None}] /\ quiet' \subseteq Clears
      <4>1. CASE Scan(c, s)
        BY <1>0, <4>1 DEF Scan, TypeOK
      <4>2. CASE Delete(c, s)
        BY <1>0, <4>2 DEF Delete, TypeOK
      <4> QED BY <2>4, <4>1, <4>2
    <3>2. TypeOK'
      BY <1>0, <2>4, <3>c, <3>d DEF Scan, Delete, maps, request, TypeOK
    <3>3. WantFits' /\ DoomedFits' /\ IndexCoversMap'
      BY <1>0, <2>4 DEF Scan, Delete, maps, request, TypeOK, WantFits, DoomedFits,
         IndexCoversMap, Key
    <3> QED BY <3>2, <3>3 DEF MirrorInv
  <2> QED BY <1>5, <2>1, <2>2, <2>3, <2>4 DEF ClearStep
<1>6. CASE UNCHANGED vars
  <2>1. TypeOK'
    BY <1>0, <1>6 DEF vars, TypeOK
  <2>2. WantFits' /\ DoomedFits' /\ IndexCoversMap'
    BY <1>0, <1>6 DEF vars, WantFits, DoomedFits, IndexCoversMap, Key
  <2> QED BY <2>1, <2>2 DEF MirrorInv
<1> QED BY <1>1, <1>2, <1>3, <1>4, <1>5, <1>6 DEF Next

(* The inductive invariant holds in every behaviour of the session state. *)
THEOREM MirrorInvariant == Spec => []MirrorInv
BY InitMirror, MirrorStep, PTL DEF Spec

(* The maps, the index, the mirror and the local state of every request and
   every clear keep their types. *)
THEOREM TypeCorrect == Spec => []TypeOK
<1>1. MirrorInv => TypeOK
  BY DEF MirrorInv
<1> QED BY <1>1, MirrorInvariant, PTL

(* record_local and clear_session keep "the index a complete mirror" however
   they interleave: no entry of the map is out of reach of a later clear. *)
THEOREM IndexIsComplete == Spec => []IndexCoversMap
<1>1. MirrorInv => IndexCoversMap
  BY DEF MirrorInv
<1> QED BY <1>1, MirrorInvariant, PTL

-----------------------------------------------------------------------------
(* A healthy retrieval of version v for a repository, or for a prompt. *)
RepoGiven(p, v) == \E h \in retrieved : h.repo = p /\ h.ver = v
PromptGiven(q, v) == \E h \in retrieved : h.prompt = q /\ h.ver = v

(* Whatever a store holds comes from a healthy retrieval. *)
MapGiven(store) ==
    /\ \A p \in Repos : store[SuppressionKey(p)] # None =>
          RepoGiven(p, store[SuppressionKey(p)].ver)
    /\ \A q \in Prompts : store[CacheKey(q)] # None =>
          PromptGiven(q, store[CacheKey(q)].ver)

(* So does the entry a request is about to record, under the key it is at; a
   retrieved one is for both stores. *)
EntryGiven(r) ==
    /\ entry[r] \in Entries
    /\ want[r] \in {"context", "cache", "mark"} => PromptGiven(prompt[r], entry[r].ver)
    /\ want[r] \notin {"context", "cache"} => RepoGiven(repo[r], entry[r].ver)

(* A request that reports a suppression has found an entry of its version. *)
LookupGiven(r) == want[r] \in {"version", "scopes"} => RepoGiven(repo[r], ver[r])

RequestGiven(r) ==
    /\ pc[r] \in Recording => EntryGiven(r)
    /\ pc[r] \in {"local", "redis", "insert", "index"} => LookupGiven(r)
    /\ answer[r] = "suppressed" => RepoGiven(repo[r], ver[r])
    /\ answer[r] = "cached" => PromptGiven(prompt[r], ver[r])

GivenInv ==
    /\ MapGiven(inner) /\ MapGiven(redis)
    /\ \A r \in Requests : RequestGiven(r)

(* Nothing is given and nothing is remembered at the start. *)
LEMMA InitGiven == Init => GivenInv
<1> SUFFICES ASSUME Init PROVE GivenInv
  OBVIOUS
<1>1. \A p \in Repos : SuppressionKey(p) \in Keys
  BY DEF Keys
<1>2. \A q \in Prompts : CacheKey(q) \in Keys
  BY DEF Keys
<1>3. MapGiven(inner) /\ MapGiven(redis)
  BY <1>1, <1>2 DEF Init, MapGiven, NoEntries
<1>4. \A r \in Requests : RequestGiven(r)
  BY DEF Init, RequestGiven, Recording
<1> QED BY <1>3, <1>4 DEF GivenInv

(* The two kinds of key are told apart, and by repository or prompt. *)
LEMMA KeyIdentity ==
    /\ \A p, q : SuppressionKey(p) # CacheKey(q)
    /\ \A p, q : SuppressionKey(p) = SuppressionKey(q) => p = q
    /\ \A p, q : CacheKey(p) = CacheKey(q) => p = q
BY DEF SuppressionKey, CacheKey

(* Keys of repositories and prompts are keys. *)
LEMMA KeysOfBoth ==
    /\ \A p \in Repos : SuppressionKey(p) \in Keys
    /\ \A q \in Prompts : CacheKey(q) \in Keys
BY DEF Keys

(* A store that only loses entries keeps
   what MapGiven says of it. *)
LEMMA MapShrinks ==
    ASSUME NEW old, NEW new, MapGiven(old),
           \A k \in Keys : new[k] = None \/ new[k] = old[k]
    PROVE  MapGiven(new)
BY KeysOfBoth DEF MapGiven

(* Storing an entry under the key of its request keeps MapGiven. *)
LEMMA MapStores ==
    ASSUME TypeOK, NEW store \in [Keys -> Entries \cup {None}], MapGiven(store),
           NEW r \in Requests, EntryGiven(r)
    PROVE  MapGiven([store EXCEPT ![Key(r)] = entry[r]])
<1> DEFINE new == [store EXCEPT ![Key(r)] = entry[r]]
<1>0. Key(r) \in Keys
  BY KeyType
<1>1. CASE want[r] \in {"context", "cache"}
  <2>1. Key(r) = CacheKey(prompt[r]) /\ PromptGiven(prompt[r], entry[r].ver)
    BY <1>1 DEF Key, EntryGiven
  <2>2. \A p \in Repos : new[SuppressionKey(p)] = store[SuppressionKey(p)]
    BY <2>1, KeyIdentity, KeysOfBoth
  <2>3. \A q \in Prompts : IF q = prompt[r] THEN new[CacheKey(q)] = entry[r]
                           ELSE new[CacheKey(q)] = store[CacheKey(q)]
    BY <1>0, <2>1, KeyIdentity, KeysOfBoth
  <2> HIDE DEF new
  <2>4. MapGiven(new)
    BY <2>1, <2>2, <2>3 DEF MapGiven
  <2> QED BY <2>4 DEF new
<1>2. CASE want[r] \notin {"context", "cache"}
  <2>1. Key(r) = SuppressionKey(repo[r]) /\ RepoGiven(repo[r], entry[r].ver)
    BY <1>2 DEF Key, EntryGiven
  <2>2. \A q \in Prompts : new[CacheKey(q)] = store[CacheKey(q)]
    BY <2>1, KeyIdentity, KeysOfBoth
  <2>3. \A p \in Repos : IF p = repo[r] THEN new[SuppressionKey(p)] = entry[r]
                         ELSE new[SuppressionKey(p)] = store[SuppressionKey(p)]
    BY <1>0, <2>1, KeyIdentity, KeysOfBoth
  <2> HIDE DEF new
  <2>4. MapGiven(new)
    BY <2>1, <2>2, <2>3 DEF MapGiven
  <2> QED BY <2>4 DEF new
<1> QED BY <1>1, <1>2

(* try_suppression_or_cache answers only from an entry of the version the
   request started with, and reports a suppression only after such an entry. *)
LEMMA ResolveGiven ==
    ASSUME TypeOK, NEW r \in Requests, NEW e, want[r] \in Lookups, Resolve(r, e), LookupGiven(r),
           e # None /\ want[r] = "suppressed" => RepoGiven(repo[r], e.ver),
           e # None /\ want[r] = "context" => PromptGiven(prompt[r], e.ver)
    PROVE  \E p \in {"local", "retrieve", "done"}, w \in Lookups,
              a \in {"none", "suppressed", "cached"} :
              /\ pc' = [pc EXCEPT ![r] = p]
              /\ want' = [want EXCEPT ![r] = w]
              /\ answer' = [answer EXCEPT ![r] = a]
              /\ w \in {"version", "scopes"} => RepoGiven(repo[r], ver[r])
              /\ a = "suppressed" => RepoGiven(repo[r], ver[r])
              /\ a = "cached" => PromptGiven(prompt[r], ver[r])
<1> DEFINE hit == e # None /\ e.ver = ver[r]
<1>1. CASE want[r] = "suppressed"
  <2>1. CASE hit
    <3>1. RepoGiven(repo[r], ver[r])
      BY <1>1, <2>1
    <3>2. /\ pc' = [pc EXCEPT ![r] = "local"]
          /\ want' = [want EXCEPT ![r] = "version"]
          /\ answer' = [answer EXCEPT ![r] = "none"]
      BY <1>1, <2>1 DEF Resolve
    <3> QED BY <3>1, <3>2 DEF Lookups
  <2>2. CASE ~ hit
    <3>1. /\ pc' = [pc EXCEPT ![r] = "local"]
          /\ want' = [want EXCEPT ![r] = "context"]
          /\ answer' = [answer EXCEPT ![r] = "none"]
      BY <1>1, <2>2 DEF Resolve
    <3> QED BY <3>1 DEF Lookups
  <2> QED BY <2>1, <2>2
<1>2. CASE want[r] = "version"
  <2>1. RepoGiven(repo[r], ver[r])
    BY <1>2 DEF LookupGiven
  <2>2. /\ pc' = [pc EXCEPT ![r] = "local"]
        /\ want' = [want EXCEPT ![r] = "scopes"]
        /\ answer' = [answer EXCEPT ![r] = "none"]
    BY <1>2 DEF Resolve
  <2> QED BY <2>1, <2>2 DEF Lookups
<1>3. CASE want[r] = "scopes"
  <2>1. RepoGiven(repo[r], ver[r])
    BY <1>3 DEF LookupGiven
  <2>2. /\ pc' = [pc EXCEPT ![r] = "done"]
        /\ want' = [want EXCEPT ![r] = "scopes"]
        /\ answer' = [answer EXCEPT ![r] = "suppressed"]
    BY <1>3 DEF Resolve
  <2> QED BY <2>1, <2>2 DEF Lookups
<1>4. CASE want[r] = "context"
  <2>1. CASE hit
    <3>1. PromptGiven(prompt[r], ver[r])
      BY <1>4, <2>1
    <3>2. /\ pc' = [pc EXCEPT ![r] = "done"]
          /\ want' = [want EXCEPT ![r] = "context"]
          /\ answer' = [answer EXCEPT ![r] = "cached"]
      BY <1>4, <2>1 DEF Resolve
    <3> QED BY <3>1, <3>2 DEF Lookups
  <2>2. CASE ~ hit
    <3>1. /\ pc' = [pc EXCEPT ![r] = "retrieve"]
          /\ want' = [want EXCEPT ![r] = "context"]
          /\ answer' = [answer EXCEPT ![r] = "none"]
      BY <1>4, <2>2 DEF Resolve
    <3> QED BY <3>1 DEF Lookups
  <2> QED BY <2>1, <2>2
<1> QED BY <1>1, <1>2, <1>3, <1>4 DEF Lookups

(* A request whose own state a step leaves alone keeps what is known of it,
   as retrievals are never forgotten. *)
LEMMA OthersGiven ==
    ASSUME NEW q \in Requests, RequestGiven(q), retrieved \subseteq retrieved',
           pc'[q] = pc[q] \/ pc'[q] = "done",
           repo'[q] = repo[q], prompt'[q] = prompt[q], ver'[q] = ver[q],
           want'[q] = want[q], entry'[q] = entry[q], answer'[q] = answer[q]
    PROVE  RequestGiven(q)'
BY DEF RequestGiven, EntryGiven, LookupGiven, RepoGiven, PromptGiven, Recording

(* A store that keeps what is known of it, with the retrievals unchanged. *)
LEMMA StoreGiven ==
    ASSUME retrieved' = retrieved
    PROVE  /\ MapGiven(inner') => MapGiven(inner)'
           /\ MapGiven(redis') => MapGiven(redis)'
BY DEF MapGiven, RepoGiven, PromptGiven

(* What a read that has ended its request or moved it on keeps known of it. *)
LEMMA ReaderGiven ==
    ASSUME TypeOK, NEW r \in Requests, RequestGiven(r), retrieved' = retrieved,
           UNCHANGED <<repo, prompt, ver>>, entry'[r] = entry[r],
           \E p \in {"local", "retrieve", "done"}, w \in Lookups,
              a \in {"none", "suppressed", "cached"} :
              /\ pc' = [pc EXCEPT ![r] = p]
              /\ want' = [want EXCEPT ![r] = w]
              /\ answer' = [answer EXCEPT ![r] = a]
              /\ w \in {"version", "scopes"} => RepoGiven(repo[r], ver[r])
              /\ a = "suppressed" => RepoGiven(repo[r], ver[r])
              /\ a = "cached" => PromptGiven(prompt[r], ver[r])
    PROVE  /\ RequestGiven(r)'
           /\ \A q \in Requests : q # r =>
                 pc'[q] = pc[q] /\ want'[q] = want[q] /\ answer'[q] = answer[q]
<1>1. PICK p \in {"local", "retrieve", "done"}, w \in Lookups,
           a \in {"none", "suppressed", "cached"} :
         /\ pc' = [pc EXCEPT ![r] = p]
         /\ want' = [want EXCEPT ![r] = w]
         /\ answer' = [answer EXCEPT ![r] = a]
         /\ w \in {"version", "scopes"} => RepoGiven(repo[r], ver[r])
         /\ a = "suppressed" => RepoGiven(repo[r], ver[r])
         /\ a = "cached" => PromptGiven(prompt[r], ver[r])
  OBVIOUS
<1>2. pc'[r] = p /\ want'[r] = w /\ answer'[r] = a
  BY <1>1 DEF TypeOK
<1>3. RequestGiven(r)'
  BY <1>1, <1>2 DEF RequestGiven, Recording, LookupGiven, RepoGiven, PromptGiven
<1>4. \A q \in Requests : q # r =>
         pc'[q] = pc[q] /\ want'[q] = want[q] /\ answer'[q] = answer[q]
  BY <1>1 DEF TypeOK
<1> QED BY <1>3, <1>4

(* Every step of the specification preserves it. *)
LEMMA GivenStep == ASSUME MirrorInv, GivenInv, [Next]_vars PROVE GivenInv'
<1> USE SessionAssumption, NoneAssumption
<1>0. /\ TypeOK /\ WantFits /\ MapGiven(inner) /\ MapGiven(redis)
      /\ \A r \in Requests : RequestGiven(r)
  BY DEF MirrorInv, GivenInv
<1>1. ASSUME UNCHANGED <<inner, redis, retrieved, request>> PROVE GivenInv'
  <2>1. MapGiven(inner)' /\ MapGiven(redis)'
    BY <1>0, <1>1, StoreGiven
  <2>2. \A q \in Requests : RequestGiven(q)'
    BY <1>0, <1>1, OthersGiven DEF request
  <2> QED BY <2>1, <2>2 DEF GivenInv
<1>2. ASSUME UNCHANGED <<retrieved, repo, prompt, ver, want, entry, answer>>,
             \A q \in Requests : pc'[q] = pc[q] \/ pc'[q] = "done",
             \A k \in Keys : inner'[k] = None \/ inner'[k] = inner[k],
             \A k \in Keys : redis'[k] = None \/ redis'[k] = redis[k]
      PROVE  GivenInv'
  <2>1. MapGiven(inner') /\ MapGiven(redis')
    BY <1>0, <1>2, MapShrinks
  <2>2. MapGiven(inner)' /\ MapGiven(redis)'
    BY <2>1, <1>2, StoreGiven
  <2>3. \A q \in Requests : RequestGiven(q)'
    BY <1>0, <1>2, OthersGiven
  <2> QED BY <2>2, <2>3 DEF GivenInv
<1>3. CASE SwapGraph
  BY <1>1, <1>3 DEF SwapGraph, maps
<1>4. ASSUME NEW k \in Keys, Expire(k) PROVE GivenInv'
  BY <1>0, <1>2, <1>4 DEF Expire, maps, request, TypeOK
<1>5. CASE Crash
  BY <1>0, <1>2, <1>5 DEF Crash, NoEntries, TypeOK
<1>6. ASSUME NEW r \in Requests, RequestStep(r) PROVE GivenInv'
  <2>k. Key(r) \in Keys /\ RequestGiven(r)
    BY <1>0, KeyType
  <2>1. CASE Start(r)
    <3>1. MapGiven(inner)' /\ MapGiven(redis)'
      BY <1>0, <2>1, StoreGiven DEF Start, maps
    <3>2. /\ pc'[r] \in {"local", "retrieve"}
          /\ want'[r] = "suppressed" /\ answer'[r] = "none"
      BY <1>0, <2>1 DEF Start, WantFits, TypeOK
    <3>3. RequestGiven(r)'
      BY <3>2 DEF RequestGiven, LookupGiven, Recording
    <3>4. \A q \in Requests : q # r => RequestGiven(q)'
      BY <1>0, <2>1, OthersGiven DEF Start, TypeOK
    <3> QED BY <3>1, <3>3, <3>4 DEF GivenInv
  <2>2. CASE LookLocal(r)
    <3> DEFINE e == inner[Key(r)]
    <3>1. /\ want[r] \in Lookups /\ pc[r] = "local"
          /\ UNCHANGED <<inner, redis, retrieved, repo, prompt, ver, entry>>
      BY <1>0, <2>2 DEF LookLocal, WantFits, maps
    <3>2. MapGiven(inner)' /\ MapGiven(redis)'
      BY <1>0, <3>1, StoreGiven
    <3>3. CASE Resolve(r, e)
      <4>1. /\ e # None /\ want[r] = "suppressed" => RepoGiven(repo[r], e.ver)
            /\ e # None /\ want[r] = "context" => PromptGiven(prompt[r], e.ver)
        BY <1>0 DEF MapGiven, Key, TypeOK
      <4>2. LookupGiven(r)
        BY <2>k, <3>1 DEF RequestGiven
      <4> HIDE DEF e
      <4>3. /\ RequestGiven(r)'
            /\ \A q \in Requests : q # r =>
                  pc'[q] = pc[q] /\ want'[q] = want[q] /\ answer'[q] = answer[q]
        <5>1. \E p \in {"local", "retrieve", "done"}, w \in Lookups,
                 a \in {"none", "suppressed", "cached"} :
                 /\ pc' = [pc EXCEPT ![r] = p]
                 /\ want' = [want EXCEPT ![r] = w]
                 /\ answer' = [answer EXCEPT ![r] = a]
                 /\ w \in {"version", "scopes"} => RepoGiven(repo[r], ver[r])
                 /\ a = "suppressed" => RepoGiven(repo[r], ver[r])
                 /\ a = "cached" => PromptGiven(prompt[r], ver[r])
          BY <1>0, <3>1, <3>3, <4>1, <4>2, ResolveGiven
        <5> QED BY <1>0, <2>k, <3>1, <5>1, ReaderGiven
      <4>4. \A q \in Requests : q # r => RequestGiven(q)'
        BY <1>0, <3>1, <4>3, OthersGiven
      <4> QED BY <3>2, <4>3, <4>4 DEF GivenInv
    <3>4. CASE pc' = [pc EXCEPT ![r] = "redis"] /\ UNCHANGED <<want, answer>>
      <4>1. RequestGiven(r)'
        BY <1>0, <2>k, <3>1, <3>4 DEF TypeOK, RequestGiven, LookupGiven, RepoGiven, PromptGiven,
           Recording
      <4>2. \A q \in Requests : q # r => RequestGiven(q)'
        BY <1>0, <3>1, <3>4, OthersGiven DEF TypeOK
      <4> QED BY <3>2, <4>1, <4>2 DEF GivenInv
    <3> QED BY <2>2, <3>3, <3>4 DEF LookLocal
  <2>3. CASE LookRedis(r)
    <3>1. /\ want[r] \in Lookups /\ pc[r] = "redis"
          /\ UNCHANGED <<inner, redis, retrieved, repo, prompt, ver>>
      BY <1>0, <2>3 DEF LookRedis, RedisGet, WantFits, maps
    <3>2. MapGiven(inner)' /\ MapGiven(redis)'
      BY <1>0, <3>1, StoreGiven
    <3>3. CASE Resolve(r, None) /\ UNCHANGED entry
      <4>1. LookupGiven(r)
        BY <2>k, <3>1 DEF RequestGiven
      <4>2. \E p \in {"local", "retrieve", "done"}, w \in Lookups,
               a \in {"none", "suppressed", "cached"} :
               /\ pc' = [pc EXCEPT ![r] = p]
               /\ want' = [want EXCEPT ![r] = w]
               /\ answer' = [answer EXCEPT ![r] = a]
               /\ w \in {"version", "scopes"} => RepoGiven(repo[r], ver[r])
               /\ a = "suppressed" => RepoGiven(repo[r], ver[r])
               /\ a = "cached" => PromptGiven(prompt[r], ver[r])
        BY <1>0, <3>1, <3>3, <4>1, ResolveGiven
      <4>3. /\ RequestGiven(r)'
            /\ \A q \in Requests : q # r =>
                  pc'[q] = pc[q] /\ want'[q] = want[q] /\ answer'[q] = answer[q]
        BY <1>0, <2>k, <3>1, <3>3, <4>2, ReaderGiven
      <4>4. \A q \in Requests : q # r => RequestGiven(q)'
        BY <1>0, <3>1, <3>3, <4>3, OthersGiven
      <4> QED BY <3>2, <4>3, <4>4 DEF GivenInv
    <3>4. CASE /\ redis[Key(r)] # None
               /\ entry' = [entry EXCEPT ![r] = redis[Key(r)]]
               /\ pc' = [pc EXCEPT ![r] = "insert"] /\ UNCHANGED <<want, answer>>
      <4>1. /\ redis[Key(r)] \in Entries
            /\ want[r] = "context" => PromptGiven(prompt[r], redis[Key(r)].ver)
            /\ want[r] # "context" => RepoGiven(repo[r], redis[Key(r)].ver)
        BY <1>0, <2>k, <3>1, <3>4 DEF MapGiven, Key, TypeOK, Lookups
      <4>2. pc'[r] = "insert" /\ want'[r] = want[r] /\ entry'[r] = redis[Key(r)]
        BY <1>0, <3>4 DEF TypeOK
      <4>3. EntryGiven(r)'
        BY <3>1, <4>1, <4>2 DEF EntryGiven, RepoGiven, PromptGiven, Lookups
      <4>4. RequestGiven(r)'
        BY <2>k, <3>1, <3>4, <4>2, <4>3 DEF RequestGiven, LookupGiven, RepoGiven, PromptGiven
      <4>5. \A q \in Requests : q # r => RequestGiven(q)'
        BY <1>0, <3>1, <3>4, OthersGiven DEF TypeOK
      <4> QED BY <3>2, <4>4, <4>5 DEF GivenInv
    <3> QED BY <2>3, <3>3, <3>4 DEF LookRedis, RedisGet
  <2>4. CASE Retrieve(r)
    <3>1. /\ retrieved \subseteq retrieved' /\ pc[r] = "retrieve"
          /\ UNCHANGED <<inner, redis, repo, prompt, ver>>
      BY <2>4 DEF Retrieve, maps
    <3>2. MapGiven(inner)' /\ MapGiven(redis)'
      BY <1>0, <3>1 DEF MapGiven, RepoGiven, PromptGiven
    <3>3. \A q \in Requests : q # r => RequestGiven(q)'
      BY <1>0, <2>4, <3>1, OthersGiven DEF Retrieve, TypeOK
    <3>4. RequestGiven(r)'
      <4>1. CASE pc'[r] = "done"
        BY <1>0, <2>k, <2>4, <3>1, <4>1
           DEF Retrieve, TypeOK, RequestGiven, RepoGiven, PromptGiven, Recording
      <4>2. CASE pc'[r] # "done"
        <5> DEFINE h == [prompt |-> prompt[r], repo |-> repo[r], ver |-> graph]
        <5>1. /\ pc'[r] = "insert" /\ want'[r] = "mark" /\ answer' = answer
              /\ entry'[r] = [ver |-> graph, repo |-> repo[r]]
              /\ retrieved' = retrieved \cup {h}
          BY <1>0, <2>4, <4>2 DEF Retrieve, TypeOK
        <5>2. entry'[r] \in Entries
          BY <1>0, <5>1 DEF TypeOK, Entries
        <5>3. h \in retrieved' /\ h.repo = repo[r] /\ h.prompt = prompt[r] /\ h.ver = entry'[r].ver
          BY <5>1
        <5> HIDE DEF h
        <5>4. EntryGiven(r)'
          BY <3>1, <5>1, <5>2, <5>3 DEF EntryGiven, RepoGiven, PromptGiven
        <5> QED BY <2>k, <3>1, <5>1, <5>4
               DEF RequestGiven, LookupGiven, RepoGiven, PromptGiven
      <4> QED BY <4>1, <4>2
    <3> QED BY <3>2, <3>3, <3>4 DEF GivenInv
  <2>5. CASE Insert(r)
    <3>1. EntryGiven(r)
      BY <2>k, <2>5 DEF Insert, RequestGiven, Recording
    <3>2. MapGiven(inner')
      BY <1>0, <2>5, <3>1, MapStores DEF Insert, TypeOK
    <3>3. MapGiven(inner)' /\ MapGiven(redis)'
      BY <1>0, <2>5, <3>2, StoreGiven DEF Insert
    <3>4. RequestGiven(r)'
      BY <1>0, <2>k, <2>5, <3>1 DEF Insert, TypeOK, RequestGiven, EntryGiven, LookupGiven,
         RepoGiven, PromptGiven
    <3>5. \A q \in Requests : q # r => RequestGiven(q)'
      BY <1>0, <2>5, OthersGiven DEF Insert, TypeOK
    <3> QED BY <3>3, <3>4, <3>5 DEF GivenInv
  <2>6. CASE Index(r)
    <3>1. /\ EntryGiven(r) /\ LookupGiven(r)
          /\ UNCHANGED <<inner, redis, retrieved, repo, prompt, ver, entry>>
      BY <2>k, <2>6 DEF Index, RequestGiven, Recording
    <3>2. MapGiven(inner)' /\ MapGiven(redis)'
      BY <1>0, <3>1, StoreGiven
    <3>3. CASE want[r] \in {"mark", "cache"}
      <4>1. pc' = [pc EXCEPT ![r] = "setex"] /\ UNCHANGED <<want, answer>>
        BY <2>6, <3>3 DEF Index, Recorded
      <4>2. RequestGiven(r)'
        BY <1>0, <2>k, <3>1, <4>1 DEF TypeOK, RequestGiven, EntryGiven, RepoGiven, PromptGiven
      <4>3. \A q \in Requests : q # r => RequestGiven(q)'
        BY <1>0, <3>1, <4>1, OthersGiven DEF TypeOK
      <4> QED BY <3>2, <4>2, <4>3 DEF GivenInv
    <3>4. CASE want[r] \notin {"mark", "cache"}
      <4>1. want[r] \in Lookups /\ Resolve(r, entry[r])
        BY <1>0, <2>6, <3>4 DEF Index, Recorded, TypeOK, Lookups
      <4>2. /\ want[r] = "suppressed" => RepoGiven(repo[r], entry[r].ver)
            /\ want[r] = "context" => PromptGiven(prompt[r], entry[r].ver)
        BY <3>1 DEF EntryGiven
      <4>3. \E p \in {"local", "retrieve", "done"}, w \in Lookups,
               a \in {"none", "suppressed", "cached"} :
               /\ pc' = [pc EXCEPT ![r] = p]
               /\ want' = [want EXCEPT ![r] = w]
               /\ answer' = [answer EXCEPT ![r] = a]
               /\ w \in {"version", "scopes"} => RepoGiven(repo[r], ver[r])
               /\ a = "suppressed" => RepoGiven(repo[r], ver[r])
               /\ a = "cached" => PromptGiven(prompt[r], ver[r])
        BY <1>0, <3>1, <4>1, <4>2, ResolveGiven
      <4>4. /\ RequestGiven(r)'
            /\ \A q \in Requests : q # r =>
                  pc'[q] = pc[q] /\ want'[q] = want[q] /\ answer'[q] = answer[q]
        BY <1>0, <2>k, <3>1, <4>3, ReaderGiven
      <4>5. \A q \in Requests : q # r => RequestGiven(q)'
        BY <1>0, <3>1, <4>4, OthersGiven
      <4> QED BY <3>2, <4>4, <4>5 DEF GivenInv
    <3> QED BY <3>3, <3>4
  <2>7. CASE SetEx(r)
    <3>1. /\ EntryGiven(r) /\ UNCHANGED <<inner, retrieved, repo, prompt, ver, entry>>
      BY <2>k, <2>7 DEF SetEx, RedisSetEx, RequestGiven, Recording, maps
    <3>2. MapGiven(redis')
      <4>1. redis \in [Keys -> Entries \cup {None}]
        BY <1>0 DEF TypeOK
      <4>2. MapGiven([redis EXCEPT ![Key(r)] = entry[r]])
        BY <1>0, <3>1, <4>1, MapStores
      <4> QED BY <1>0, <2>7, <4>2 DEF SetEx, RedisSetEx
    <3>3. MapGiven(inner)' /\ MapGiven(redis)'
      BY <1>0, <3>1, <3>2, StoreGiven
    <3>4. RequestGiven(r)'
      BY <1>0, <2>k, <2>7, <3>1 DEF SetEx, RedisSetEx, TypeOK, RequestGiven, EntryGiven, LookupGiven,
         RepoGiven, PromptGiven, Recording
    <3>5. \A q \in Requests : q # r => RequestGiven(q)'
      BY <1>0, <2>7, <3>1, OthersGiven DEF SetEx, RedisSetEx, TypeOK
    <3> QED BY <3>3, <3>4, <3>5 DEF GivenInv
  <2> QED BY <1>6, <2>1, <2>2, <2>3, <2>4, <2>5, <2>6, <2>7 DEF RequestStep
<1>7. ASSUME NEW c \in Clears, ClearStep(c) PROVE GivenInv'
  <2>1. CASE TakeIndex(c) \/ SpawnDelete(c)
    BY <1>1, <2>1 DEF TakeIndex, SpawnDelete, maps
  <2>2. ASSUME NEW k \in Keys, Evict(c, k) PROVE GivenInv'
    BY <1>0, <1>2, <2>2 DEF Evict, request, TypeOK
  <2>3. ASSUME NEW s \in Stores, Scan(c, s) PROVE GivenInv'
    BY <1>1, <2>3 DEF Scan, maps
  <2>4. ASSUME NEW s \in Stores, Delete(c, s) PROVE GivenInv'
    BY <1>0, <1>2, <2>4 DEF Delete, maps, request, TypeOK
  <2> QED BY <1>7, <2>1, <2>2, <2>3, <2>4 DEF ClearStep
<1>8. CASE UNCHANGED vars
  BY <1>1, <1>8 DEF vars, request
<1> QED BY <1>3, <1>4, <1>5, <1>6, <1>7, <1>8 DEF Next

(* compile_context is short-cut only by what the session was really given: a
   suppressed request has had its repository retrieved at its own version, a
   cached one its prompt, across restarts, clears and a failing Redis. *)
THEOREM RememberedIsCorrect == Spec => []RememberedIsCurrent
<1>1. GivenInv => RememberedIsCurrent
  BY DEF GivenInv, RequestGiven, RememberedIsCurrent, RepoGiven, PromptGiven
<1> QED BY <1>1, InitGiven, GivenStep, MirrorInvariant, PTL DEF Spec

-----------------------------------------------------------------------------
(* The background delete of a store is spawned after the store's local clear. *)
DeleteFits ==
    \A c \in Clears :
        /\ cpc[c] \in {"new", "evict_cache"} => dpc[c]["cache"] = "none"
        /\ cpc[c] # "done" => dpc[c]["suppression"] = "none"

(* How far a clear that nothing ran alongside has got with one store: Redis
   holds nothing the SCAN has not found, and nothing at all after the DEL. *)
DeletedSoFar(c, s) ==
    \A k \in KeysOf(s) : redis[k] # None =>
        /\ dpc[c][s] # "done"
        /\ dpc[c][s] = "del" => k \in found[c][s]

(* While a clear is quiet no request is running, so what it has taken out of
   the index and out of Redis stays out. *)
QuietProgress(c) ==
    /\ Idle
    /\ cpc[c] # "new"
    /\ index \cap KeysOf("cache") = {}
    /\ cpc[c] \in {"evict_suppression", "done"} => index \cap KeysOf("suppression") = {}
    /\ \A s \in Stores : DeletedSoFar(c, s)

QuietInv == DeleteFits /\ \A c \in quiet : QuietProgress(c)

(* The two stores hold all the keys. *)
LEMMA StoreKeys == Keys = KeysOf("cache") \cup KeysOf("suppression")
BY DEF Keys, KeysOf, CacheKey, SuppressionKey

(* A store Redis forgets keys of is cleared as far as it was. *)
LEMMA DeletedKeeps ==
    ASSUME NEW c, NEW s, DeletedSoFar(c, s),
           dpc'[c][s] = dpc[c][s], found'[c][s] = found[c][s],
           \A k \in Keys : redis'[k] = None \/ redis'[k] = redis[k]
    PROVE  DeletedSoFar(c, s)'
BY DEF DeletedSoFar, KeysOf

(* It holds initially. *)
LEMMA InitQuiet == Init => QuietInv
BY DEF Init, QuietInv, DeleteFits, Stores

(* Every step preserves it. *)
LEMMA QuietStep == ASSUME MirrorInv, QuietInv, [Next]_vars PROVE QuietInv'
<1>0. TypeOK /\ DeleteFits /\ \A c \in quiet : QuietProgress(c)
  BY DEF MirrorInv, QuietInv
<1>c. /\ cpc \in [Clears -> {"new", "evict_cache", "cleared_cache", "evict_suppression", "done"}]
      /\ dpc \in [Clears -> [Stores -> {"none", "scan", "del", "done"}]]
      /\ found \in [Clears -> [Stores -> SUBSET Keys]]
      /\ quiet \subseteq Clears
      /\ "cache" \in Stores /\ "suppression" \in Stores /\ "cache" # "suppression"
  BY <1>0 DEF TypeOK, Stores
<1>1. ASSUME UNCHANGED <<cpc, dpc, found>>, quiet' = {} PROVE QuietInv'
  BY <1>0, <1>1 DEF QuietInv, DeleteFits
<1>2. ASSUME UNCHANGED <<pc, index, cpc, dpc, found, quiet>>,
             \A k \in Keys : redis'[k] = None \/ redis'[k] = redis[k]
      PROVE  QuietInv'
  <2>1. DeleteFits'
    BY <1>0, <1>2 DEF DeleteFits
  <2>2. ASSUME NEW c \in quiet PROVE QuietProgress(c)'
    <3>1. QuietProgress(c)
      BY <1>0, <2>2
    <3>2. \A s \in Stores : DeletedSoFar(c, s)'
      BY <1>2, <3>1, DeletedKeeps DEF QuietProgress
    <3> QED BY <1>2, <3>1, <3>2 DEF QuietProgress, Idle
  <2> QED BY <1>2, <2>1, <2>2 DEF QuietInv
<1>3. CASE SwapGraph
  BY <1>2, <1>3 DEF SwapGraph, maps, request, clear
<1>4. ASSUME NEW k \in Keys, Expire(k) PROVE QuietInv'
  <2>1. redis \in [Keys -> Entries \cup {None}]
    BY <1>0 DEF TypeOK
  <2> QED BY <1>2, <1>4, <2>1 DEF Expire, maps, request, clear
<1>5. CASE Crash
  BY <1>5 DEF Crash, QuietInv, DeleteFits, Stores
<1>6. ASSUME NEW r \in Requests, RequestStep(r) PROVE QuietInv'
  <2>1. UNCHANGED <<cpc, dpc, found>>
    BY <1>6 DEF RequestStep, Start, LookLocal, LookRedis, RedisGet, Retrieve, Insert, Index, SetEx,
       RedisSetEx, clear
  <2>2. CASE Start(r)
    BY <1>1, <2>1, <2>2 DEF Start
  <2>3. CASE ~ Start(r)
    <3>1. /\ pc[r] \notin {"new", "done"}
          /\ quiet' = quiet
      BY <1>6, <2>3 DEF RequestStep, LookLocal, LookRedis, RedisGet, Retrieve, Insert, Index, SetEx,
         RedisSetEx
    <3>2. quiet = {}
      BY <1>0, <3>1 DEF QuietProgress, Idle
    <3> QED BY <1>1, <2>1, <3>1, <3>2
  <2> QED BY <2>2, <2>3
<1>7. ASSUME NEW c \in Clears, ClearStep(c) PROVE QuietInv'
  <2>1. CASE TakeIndex(c)
    <3>1. /\ cpc[c] \in {"new", "cleared_cache"}
          /\ cpc' = [cpc EXCEPT ![c] = IF cpc[c] = "new" THEN "evict_cache" ELSE "evict_suppression"]
          /\ index' = index \ KeysOf(StoreOf(c))
          /\ quiet' = IF cpc[c] = "new" /\ Idle THEN quiet \cup {c} ELSE quiet
          /\ UNCHANGED <<pc, dpc, found, redis>>
      BY <2>1 DEF TakeIndex, request
    <3>2. DeleteFits'
      BY <1>0, <1>c, <3>1 DEF DeleteFits
    <3>3. ASSUME NEW d \in quiet' PROVE QuietProgress(d)'
      <4>1. CASE d \in quiet /\ d # c
        <5>1. cpc'[d] = cpc[d] /\ index' \subseteq index /\ QuietProgress(d)
          BY <1>0, <1>c, <3>1, <4>1
        <5>2. \A s \in Stores : DeletedSoFar(d, s)'
          BY <3>1, <5>1, DeletedKeeps DEF QuietProgress
        <5> QED BY <3>1, <5>1, <5>2 DEF QuietProgress, Idle
      <4>2. CASE d = c /\ cpc[c] = "new"
        <5>1. /\ cpc'[c] = "evict_cache" /\ index' = index \ KeysOf("cache")
              /\ c \notin quiet /\ Idle
          BY <1>0, <1>c, <3>1, <3>3, <4>2 DEF StoreOf, QuietProgress
        <5>2. \A s \in Stores : dpc[c][s] = "none"
          BY <1>0, <4>2 DEF DeleteFits, Stores
        <5>3. \A s \in Stores : DeletedSoFar(c, s)'
          BY <3>1, <5>2 DEF DeletedSoFar
        <5>4. Idle' /\ index' \cap KeysOf("cache") = {}
          BY <3>1, <5>1 DEF Idle
        <5> QED BY <4>2, <5>1, <5>3, <5>4 DEF QuietProgress, KeysOf
      <4>3. CASE d = c /\ cpc[c] = "cleared_cache"
        <5>1. /\ cpc'[c] = "evict_suppression" /\ index' = index \ KeysOf("suppression")
              /\ QuietProgress(c)
          BY <1>0, <1>c, <3>1, <3>3, <4>3 DEF StoreOf
        <5>2. \A s \in Stores : DeletedSoFar(c, s)'
          BY <3>1, <5>1, DeletedKeeps DEF QuietProgress
        <5>3. /\ index' \cap KeysOf("cache") = {}
              /\ index' \cap KeysOf("suppression") = {}
          BY <5>1 DEF QuietProgress
        <5> QED BY <3>1, <4>3, <5>1, <5>2, <5>3 DEF QuietProgress, Idle, KeysOf
      <4> QED BY <3>1, <3>3, <4>1, <4>2, <4>3
    <3> QED BY <3>2, <3>3 DEF QuietInv
  <2>2. ASSUME NEW k \in Keys, Evict(c, k) PROVE QuietInv'
    BY <1>2, <2>2 DEF Evict, request
  <2>3. CASE SpawnDelete(c)
    <3> DEFINE st == StoreOf(c)
    <3>1. /\ cpc[c] \in {"evict_cache", "evict_suppression"}
          /\ cpc' = [cpc EXCEPT ![c] = IF cpc[c] = "evict_cache" THEN "cleared_cache" ELSE "done"]
          /\ dpc' = [dpc EXCEPT ![c][st] = "scan"]
          /\ UNCHANGED <<pc, index, found, redis, quiet>>
      BY <2>3 DEF SpawnDelete, maps, request
    <3>2. /\ cpc[c] = "evict_cache" => st = "cache" /\ cpc'[c] = "cleared_cache"
          /\ cpc[c] = "evict_suppression" => st = "suppression" /\ cpc'[c] = "done"
          /\ st \in Stores
      BY <1>c, <3>1 DEF StoreOf
    <3> HIDE DEF st
    <3>3. \A d \in Clears, s \in Stores :
             dpc'[d][s] = IF d = c /\ s = st THEN "scan" ELSE dpc[d][s]
      BY <1>c, <3>1, <3>2
    <3>4. \A d \in Clears : d # c => cpc'[d] = cpc[d]
      BY <1>c, <3>1
    <3>5. DeleteFits'
      BY <1>0, <1>c, <3>1, <3>2, <3>3, <3>4 DEF DeleteFits
    <3>6. ASSUME NEW d \in quiet PROVE QuietProgress(d)'
      <4>1. QuietProgress(d) /\ d \in Clears
        BY <1>0, <1>c
      <4>2. ASSUME NEW s \in Stores PROVE DeletedSoFar(d, s)'
        <5>1. CASE d = c /\ s = st
          <6>1. dpc'[d][s] = "scan"
            BY <3>3, <4>1, <5>1
          <6> QED BY <6>1 DEF DeletedSoFar
        <5>2. CASE ~ (d = c /\ s = st)
          <6>1. dpc'[d][s] = dpc[d][s]
            BY <3>3, <4>1, <5>2
          <6> QED BY <3>1, <4>1, <6>1, DeletedKeeps DEF QuietProgress
        <5> QED BY <5>1, <5>2
      <4>3. /\ cpc'[d] # "new"
            /\ cpc'[d] \in {"evict_suppression", "done"} => cpc[d] \in {"evict_suppression", "done"}
        BY <3>1, <3>2, <3>4, <4>1 DEF QuietProgress
      <4> QED BY <3>1, <4>1, <4>2, <4>3 DEF QuietProgress, Idle, KeysOf
    <3> QED BY <3>1, <3>5, <3>6 DEF QuietInv
  <2>4. ASSUME NEW s \in Stores, Scan(c, s) PROVE QuietInv'
    <3>1. UNCHANGED <<pc, index, cpc, redis>> /\ quiet' \subseteq quiet /\ dpc[c][s] = "scan"
      BY <2>4 DEF Scan, maps, request
    <3>2. \A d \in Clears, t \in Stores : (d # c \/ t # s) =>
             dpc'[d][t] = dpc[d][t] /\ found'[d][t] = found[d][t]
      BY <1>c, <2>4 DEF Scan
    <3>3. DeleteFits'
      BY <1>0, <1>c, <2>4, <3>1, <3>2 DEF DeleteFits
    <3>4. ASSUME c \in quiet' PROVE DeletedSoFar(c, s)'
      <4>1. CASE quiet' = quiet \ {c}
        BY <3>4, <4>1
      <4>2. CASE /\ found' = [found EXCEPT ![c][s] = {k \in KeysOf(s) : redis[k] # None}]
                 /\ dpc' = [dpc EXCEPT ![c][s] = "del"]
        <5>1. /\ found'[c][s] = {k \in KeysOf(s) : redis[k] # None}
              /\ dpc'[c][s] = "del"
          BY <1>c, <2>4, <4>2
        <5> QED BY <3>1, <5>1 DEF DeletedSoFar, KeysOf
      <4> QED BY <2>4, <4>1, <4>2 DEF Scan
    <3>5. ASSUME NEW d \in quiet' PROVE QuietProgress(d)'
      <4>1. QuietProgress(d) /\ d \in Clears
        BY <1>0, <1>c, <3>1
      <4>2. ASSUME NEW t \in Stores PROVE DeletedSoFar(d, t)'
        <5>1. CASE d = c /\ t = s
          BY <3>4, <5>1
        <5>2. CASE d # c \/ t # s
          BY <3>1, <3>2, <4>1, <5>2, DeletedKeeps DEF QuietProgress
        <5> QED BY <5>1, <5>2
      <4> QED BY <3>1, <4>1, <4>2 DEF QuietProgress, Idle, KeysOf
    <3> QED BY <3>3, <3>5 DEF QuietInv
  <2>5. ASSUME NEW s \in Stores, Delete(c, s) PROVE QuietInv'
    <3>1. /\ UNCHANGED <<pc, index, cpc>> /\ quiet' \subseteq quiet /\ dpc[c][s] = "del"
          /\ \A k \in Keys : redis'[k] = None \/ redis'[k] = redis[k]
      BY <1>0, <2>5 DEF Delete, maps, request, TypeOK
    <3>2. \A d \in Clears, t \in Stores : (d # c \/ t # s) =>
             dpc'[d][t] = dpc[d][t] /\ found'[d][t] = found[d][t]
      BY <1>c, <2>5 DEF Delete
    <3>3. DeleteFits'
      BY <1>0, <1>c, <2>5, <3>1, <3>2 DEF DeleteFits
    <3>4. ASSUME c \in quiet' PROVE DeletedSoFar(c, s)'
      <4>1. CASE quiet' = quiet \ {c}
        BY <3>4, <4>1
      <4>2. CASE redis' = [k \in Keys |-> IF k \in found[c][s] THEN None ELSE redis[k]]
        <5>1. \A k \in KeysOf(s) : redis[k] # None => k \in found[c][s]
          BY <1>0, <3>1, <3>4 DEF QuietProgress, DeletedSoFar
        <5>2. \A k \in KeysOf(s) : redis'[k] = None
          BY <4>2, <5>1 DEF KeysOf
        <5> QED BY <5>2 DEF DeletedSoFar, KeysOf
      <4> QED BY <2>5, <4>1, <4>2 DEF Delete
    <3>5. ASSUME NEW d \in quiet' PROVE QuietProgress(d)'
      <4>1. QuietProgress(d) /\ d \in Clears
        BY <1>0, <1>c, <3>1
      <4>2. ASSUME NEW t \in Stores PROVE DeletedSoFar(d, t)'
        <5>1. CASE d = c /\ t = s
          BY <3>4, <5>1
        <5>2. CASE d # c \/ t # s
          BY <3>1, <3>2, <4>1, <5>2, DeletedKeeps DEF QuietProgress
        <5> QED BY <5>1, <5>2
      <4> QED BY <3>1, <4>1, <4>2 DEF QuietProgress, Idle, KeysOf
    <3> QED BY <3>3, <3>5 DEF QuietInv
  <2> QED BY <1>7, <2>1, <2>2, <2>3, <2>4, <2>5 DEF ClearStep
<1>8. CASE UNCHANGED vars
  BY <1>2, <1>8 DEF vars
<1> QED BY <1>3, <1>4, <1>5, <1>6, <1>7, <1>8 DEF Next

(* clear_session: a clear no request ran alongside and no error of Redis cut
   short leaves nothing of the session behind, whatever other clears do. *)
THEOREM QuietClearsForget == Spec => []QuietClearIsComplete
<1>1. MirrorInv /\ QuietInv => QuietClearIsComplete
  <2> SUFFICES ASSUME MirrorInv, QuietInv, NEW c \in quiet, NEW k \in Keys,
                      \A s \in Stores : dpc[c][s] = "done"
               PROVE  /\ redis[k] = None
                      /\ inner[k] # None => \E d \in Clears : k \in doomed[d]
    BY DEF QuietClearIsComplete
  <2>1. QuietProgress(c) /\ c \in Clears /\ DeleteFits /\ IndexCoversMap
    BY DEF QuietInv, MirrorInv, TypeOK
  <2>2. cpc[c] = "done"
    BY <2>1 DEF DeleteFits, Stores
  <2>3. k \in KeysOf("cache") \/ k \in KeysOf("suppression")
    BY StoreKeys
  <2>4. k \notin index
    BY <2>1, <2>2, <2>3 DEF QuietProgress
  <2>5. redis[k] = None
    BY <2>1, <2>3 DEF QuietProgress, DeletedSoFar, Stores
  <2>6. \A r \in Requests : pc[r] # "index"
    BY <2>1 DEF QuietProgress, Idle
  <2> QED BY <2>1, <2>4, <2>5, <2>6 DEF IndexCoversMap
<1> QED BY <1>1, InitQuiet, QuietStep, MirrorInvariant, PTL DEF Spec

=============================================================================

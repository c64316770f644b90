--------------------------- MODULE RequestsProofs ---------------------------
(***************************************************************************)
(* Proofs about Requests: for any calls, prompts, scopes, graph versions,  *)
(* limits and faults.  The first half follows a request and its usage      *)
(* record and needs nothing of what is found; the second half proves what  *)
(* the ranking operators return and, from that, what an answer holds.      *)
(***************************************************************************)
EXTENDS Requests, FiniteSetTheorems, SequenceTheorems, NaturalsInduction, WellFoundedInduction, TLAPS

(* The stages of a request that has no answer yet. *)
Working == {"gate", "wait", "embed", "search"}

(* The outcome of a scope resolution that found something: a scope that is
   missing has left its reason. *)
ResolvedInv(res) ==
    /\ DOMAIN res.scopes # {} /\ DOMAIN res.scopes \subseteq 1..2
    /\ \A i \in DOMAIN res.scopes : res.scopes[i].type \in {"project", "global"}
    /\ res.reasons \in Seq(Reason)
    /\ res.degraded # {} => res.reasons # <<>>

(* What went wrong with a request so far and what its answer tells agree. *)
RequestOK(r) ==
    /\ r.stage \in Working \cup {"idle", "refused", "answer", "done"}
    /\ r.stage \in Working =>
          /\ DOMAIN r = {"stage", "tool", "prompt", "repo", "limit", "snapshot", "res", "trouble"}
          /\ ResolvedInv(r.res)
          /\ r.trouble # {} <=> r.res.degraded # {}
    /\ r.stage = "answer" =>
          /\ r.degraded # {} <=> r.trouble # {}
          /\ r.degraded # {} => r.reason # Nil

RequestsInv == DOMAIN req = Calls /\ \A c \in Calls : RequestOK(req[c])

(* Where the usage record of a call is: nowhere before the call is answered,
   then in one place, until its row is written. *)
InChannel(c) == \E k \in DOMAIN channel : channel[k].call = c

UsageTypeInv ==
    /\ channel \in Seq([call : Calls])
    /\ writing \in [call : Calls] \cup {Nil}
    /\ rows \in [Calls -> {0, 1}]

BeingWritten(c) == writing # Nil /\ writing.call = c

RecordInv(c) ==
    /\ req[c].stage # "done" => rows[c] = 0 /\ ~InChannel(c) /\ ~BeingWritten(c)
    /\ InChannel(c) => rows[c] = 0 /\ ~BeingWritten(c)
    /\ BeingWritten(c) => rows[c] = 0
    /\ req[c].stage = "done" /\ req[c].tool = "compile_context" =>
          rows[c] = 1 \/ c \in lost \/ BeingWritten(c) \/ InChannel(c)

UsageInv ==
    /\ UsageTypeInv
    /\ \A k, m \in DOMAIN channel : channel[k].call = channel[m].call => k = m
    /\ \A c \in Calls : RecordInv(c)

-----------------------------------------------------------------------------
(* The sequences of the scopes found. *)
LEMMA SequenceOfNone == SetToSeq({}) = <<>>
<1>1. Cardinality({}) = 0
  BY FS_EmptySet
<1>2. /\ <<>> \in [1..0 -> {}]
      /\ \A f \in [1..0 -> {}] : f = <<>>
  OBVIOUS
<1>3. IsInjective(<<>>)
  BY DEF IsInjective
<1> QED BY <1>1, <1>2, <1>3 DEF SetToSeq

LEMMA SequenceOfOne ==
    ASSUME NEW x
    PROVE  SetToSeq({x}) = <<x>>
<1>1. Cardinality({x}) = 1
  BY FS_Singleton
<1>2. \A f \in [1..1 -> {x}] : f = <<x>>
  OBVIOUS
<1>3. <<x>> \in [1..1 -> {x}]
  OBVIOUS
<1>4. IsInjective(<<x>>)
  BY DEF IsInjective
<1> QED BY <1>1, <1>2, <1>3, <1>4 DEF SetToSeq

LEMMA EmptyAfter ==
    ASSUME NEW S, NEW s \in Seq(S)
    PROVE  s \o <<>> = s /\ <<>> \o s = s
BY ConcatEmptySeq

(* Each resolver finds one scope or none. *)
LEMMA ProjectFound ==
    ASSUME NEW repo, NEW mounted
    PROVE  ResolveProject(repo, mounted) = {} \/ \E d : d.type = "project" /\ ResolveProject(repo, mounted) = {d}
BY DEF ResolveProject, Descriptor

LEMMA GlobalFound ==
    ASSUME NEW mounted
    PROVE  ResolveGlobal(mounted) = {} \/ \E d : d.type = "global" /\ ResolveGlobal(mounted) = {d}
BY DEF ResolveGlobal, Descriptor

LEMMA ResolutionFacts ==
    ASSUME NEW repo, NEW mounted, NEW res,
           res = Resolution(ResolveProject(repo, mounted), ResolveGlobal(mounted))
    PROVE  /\ res.scopes # <<>> => ResolvedInv(res)
           /\ res.scopes = <<>> => res.degraded # {}
           /\ res.reasons \in Seq(Reason)
           /\ res.degraded # {} => res.reasons # <<>>
<1> DEFINE P == ResolveProject(repo, mounted)
           G == ResolveGlobal(mounted)
           why(type) == <<<<type, "scope_resolution_failed">>, <<type, "scope_unresolved">>>>
<1>0. /\ res.scopes = SetToSeq(P) \o SetToSeq(G)
      /\ res.degraded = (IF P = {} THEN {"project"} ELSE {}) \cup (IF G = {} THEN {"global"} ELSE {})
      /\ res.reasons = Unresolved("project", P) \o Unresolved("global", G)
  BY DEF Resolution
<1>1. ASSUME NEW type \in {"project", "global"} PROVE why(type) \in Seq(Reason) /\ why(type) # <<>>
  <2>1. <<type, "scope_resolution_failed">> \in Reason /\ <<type, "scope_unresolved">> \in Reason
    BY DEF Reason, Wrong
  <2> QED BY <2>1
<1>2. P = {} \/ \E d : d.type = "project" /\ P = {d}
  BY ProjectFound
<1>3. G = {} \/ \E d : d.type = "global" /\ G = {d}
  BY GlobalFound
<1> HIDE DEF P, G
<1>4. CASE P = {} /\ G = {}
  <2>1. res.scopes = <<>> /\ res.degraded # {} /\ res.reasons = why("project") \o why("global")
    BY <1>0, <1>4, SequenceOfNone, EmptyAfter DEF Unresolved
  <2> QED BY <1>1, <2>1
<1>5. ASSUME NEW d, d.type = "project", P = {d}, G = {} PROVE ResolvedInv(res) /\ res.scopes # <<>>
  <2>1. res.scopes = <<d>> /\ res.reasons = why("global")
    <3>1. res.scopes = <<d>> \o <<>> /\ res.reasons = <<>> \o why("global")
      BY <1>0, <1>5, SequenceOfNone, SequenceOfOne DEF Unresolved
    <3>2. <<d>> \in Seq({d})
      OBVIOUS
    <3> QED BY <1>1, <3>1, <3>2, EmptyAfter
  <2> QED BY <1>1, <1>5, <2>1 DEF ResolvedInv
<1>6. ASSUME NEW d, d.type = "global", P = {}, G = {d} PROVE ResolvedInv(res) /\ res.scopes # <<>>
  <2>1. res.scopes = <<d>> /\ res.reasons = why("project")
    <3>1. res.scopes = <<>> \o <<d>> /\ res.reasons = why("project") \o <<>>
      BY <1>0, <1>6, SequenceOfNone, SequenceOfOne DEF Unresolved
    <3>2. <<d>> \in Seq({d})
      OBVIOUS
    <3> QED BY <1>1, <3>1, <3>2, EmptyAfter
  <2> QED BY <1>1, <1>6, <2>1 DEF ResolvedInv
<1>7. ASSUME NEW d, NEW e, d.type = "project", P = {d}, e.type = "global", G = {e}
      PROVE  ResolvedInv(res) /\ res.scopes # <<>>
  <2>1. P # {} /\ G # {}
    BY <1>7
  <2>2. res.scopes = <<d>> \o <<e>> /\ res.reasons = <<>> \o <<>> /\ res.degraded = {}
    <3>1. SetToSeq(P) = <<d>> /\ SetToSeq(G) = <<e>>
      BY <1>7, SequenceOfOne
    <3>2. Unresolved("project", P) = <<>> /\ Unresolved("global", G) = <<>>
      BY <2>1 DEF Unresolved
    <3>3. res.degraded = {}
      BY <1>0, <2>1
    <3> QED BY <1>0, <3>1, <3>2, <3>3
  <2>a. <<>> \in Seq(Reason)
    OBVIOUS
  <2>3. res.reasons = <<>>
    BY <2>2, <2>a, EmptyAfter
  <2>4. <<d>> \in Seq({d, e}) /\ <<e>> \in Seq({d, e}) /\ Len(<<d>>) = 1 /\ Len(<<e>>) = 1
    OBVIOUS
  <2>5. res.scopes \in Seq({d, e}) /\ Len(res.scopes) = 2
    BY <2>2, <2>4, ConcatProperties
  <2>6. DOMAIN res.scopes # {} /\ DOMAIN res.scopes \subseteq 1..2
        /\ \A i \in DOMAIN res.scopes : res.scopes[i] \in {d, e}
    BY <2>5
  <2> QED BY <1>7, <2>2, <2>a, <2>3, <2>5, <2>6 DEF ResolvedInv
<1> QED BY <1>2, <1>3, <1>4, <1>5, <1>6, <1>7 DEF ResolvedInv

(* The first reason of a non-empty list is one. *)
LEMMA FirstReason ==
    ASSUME NEW reasons \in Seq(Reason), reasons # <<>>
    PROVE  Head(reasons) \in Reason /\ Head(reasons) # Nil
BY NilAssumption DEF Reason

(* An answer of build_degraded_outcome is degraded and says why. *)
LEMMA DegradedFacts ==
    ASSUME NEW r, NEW trouble, trouble # {}, NEW degraded, degraded # {},
           NEW reasons \in Seq(Reason), reasons # <<>>
    PROVE  RequestOK(Degraded(r, trouble, degraded, reasons))
<1> DEFINE a == Degraded(r, trouble, degraded, reasons)
<1>1. a.stage = "answer" /\ a.trouble = trouble /\ a.degraded = degraded /\ a.reason = Head(reasons)
  BY DEF Degraded, Answer
<1> HIDE DEF a
<1>2. a.reason # Nil
  BY <1>1, FirstReason
<1>3. RequestOK(a)
  BY <1>1, <1>2 DEF RequestOK, Working
<1> QED BY <1>3 DEF a

LEMMA NoEmbeddingFacts ==
    ASSUME NEW r, RequestOK(r), r.stage \in Working, NEW reason \in Wrong
    PROVE  RequestOK(NoEmbedding(r, reason))
<1>1. ResolvedInv(r.res)
  BY DEF RequestOK
<1>2. Considered(r.res) # {}
  BY <1>1 DEF ResolvedInv, Considered
<1>3. <<"embedding", reason>> \in Reason
  BY DEF Reason
<1>4. Append(r.res.reasons, <<"embedding", reason>>) \in Seq(Reason)
  BY <1>1, <1>3 DEF ResolvedInv
<1>5. Append(r.res.reasons, <<"embedding", reason>>) # <<>>
  <2>1. r.res.reasons \in Seq(Reason)
    BY <1>1 DEF ResolvedInv
  <2> QED BY <1>3, <2>1, AppendProperties
<1> QED BY <1>2, <1>4, <1>5, DegradedFacts DEF NoEmbedding

(* One request changes and the others stay. *)
LEMMA OneRequest ==
    ASSUME RequestsInv, NEW c \in Calls, NEW new, req' = [req EXCEPT ![c] = new], RequestOK(new)
    PROVE  RequestsInv'
<1>1. DOMAIN req' = Calls
  BY DEF RequestsInv
<1>2. ASSUME NEW d \in Calls PROVE RequestOK(req'[d])
  BY DEF RequestsInv
<1> QED BY <1>1, <1>2 DEF RequestsInv

LEMMA StageMoves ==
    ASSUME NEW r, RequestOK(r), r.stage \in Working, NEW stage \in Working
    PROVE  RequestOK([r EXCEPT !.stage = stage])
<1> DEFINE n == [r EXCEPT !.stage = stage]
<1>1. DOMAIN r = {"stage", "tool", "prompt", "repo", "limit", "snapshot", "res", "trouble"}
  BY DEF RequestOK
<1>2. DOMAIN n = DOMAIN r /\ n.stage = stage /\ n.res = r.res /\ n.trouble = r.trouble
  BY <1>1
<1> HIDE DEF n
<1>3. RequestOK(n)
  BY <1>1, <1>2 DEF RequestOK, Working
<1> QED BY <1>3 DEF n

(* The least of some indexes of the scopes. *)
LEMMA FirstFailure ==
    ASSUME NEW T, T # {}, T \subseteq 1..2
    PROVE  Min(T) \in T
<1>1. \E x \in T : \A y \in T : x <= y
  <2>1. CASE 1 \in T
    BY <2>1
  <2>2. CASE 1 \notin T
    <3>1. \A x \in T : x \in 1..2 /\ x # 1
      BY <2>2
    <3>2. \A x \in T : x = 2
      BY <3>1
    <3>3. PICK x \in T : TRUE
      OBVIOUS
    <3>4. x = 2 /\ \A y \in T : x <= y
      BY <3>2, <3>3
    <3> QED BY <3>3, <3>4
  <2> QED BY <2>1, <2>2
<1> QED BY <1>1 DEF Min

LEMMA ReceiveStep ==
    ASSUME RequestsInv, NEW c \in Calls, NEW tool, NEW prompt, NEW repo, NEW limit, NEW mounted,
           Receive(c, tool, prompt, repo, limit, mounted)
    PROVE  RequestsInv'
<1> DEFINE res == Resolution(ResolveProject(repo, mounted), ResolveGlobal(mounted))
           r == [stage |-> "gate", tool |-> tool, prompt |-> prompt, repo |-> repo, limit |-> limit,
                 snapshot |-> served, res |-> res,
                 trouble |-> IF res.degraded = {} THEN {} ELSE {"scope"}]
<1>1. req' = [req EXCEPT ![c] =
          IF res.scopes = <<>> THEN Degraded(r, r.trouble, res.degraded, res.reasons) ELSE r]
  BY DEF Receive
<1>2. /\ res.scopes # <<>> => ResolvedInv(res)
      /\ res.scopes = <<>> => res.degraded # {}
      /\ res.reasons \in Seq(Reason)
      /\ res.degraded # {} => res.reasons # <<>>
  BY ResolutionFacts
<1> HIDE DEF res
<1>3. /\ DOMAIN r = {"stage", "tool", "prompt", "repo", "limit", "snapshot", "res", "trouble"}
      /\ r.stage = "gate" /\ r.res = res
      /\ r.trouble # {} <=> res.degraded # {}
  OBVIOUS
<1> HIDE DEF r
<1>4. CASE res.scopes = <<>>
  <2>1. RequestOK(Degraded(r, r.trouble, res.degraded, res.reasons))
    BY <1>2, <1>3, <1>4, DegradedFacts
  <2> QED BY <1>1, <1>4, <2>1, OneRequest
<1>5. CASE res.scopes # <<>>
  <2>1. RequestOK(r)
    BY <1>2, <1>3, <1>5 DEF RequestOK, Working
  <2> QED BY <1>1, <1>5, <2>1, OneRequest
<1> QED BY <1>4, <1>5

LEMMA GateStep ==
    ASSUME RequestsInv, NEW c \in Calls, Gate(c)
    PROVE  RequestsInv'
<1>1. RequestOK(req[c]) /\ DOMAIN req = Calls /\ req[c].stage \in Working
  BY DEF Gate, RequestsInv, Working
<1>2. CASE req' = [req EXCEPT ![c].stage = "wait"]
  <2>1. req' = [req EXCEPT ![c] = [req[c] EXCEPT !.stage = "wait"]]
    BY <1>2
  <2> QED BY <1>1, <2>1, StageMoves, OneRequest DEF Working
<1>3. CASE req' = [req EXCEPT ![c] = NoEmbedding(@, "circuit_open")]
  <2>1. req' = [req EXCEPT ![c] = NoEmbedding(req[c], "circuit_open")]
    BY <1>3
  <2> QED BY <1>1, <2>1, NoEmbeddingFacts, OneRequest DEF Wrong
<1> QED BY <1>2, <1>3 DEF Gate

LEMMA AcquireStep ==
    ASSUME RequestsInv, NEW c \in Calls, Acquire(c)
    PROVE  RequestsInv'
<1>1. RequestOK(req[c]) /\ DOMAIN req = Calls /\ req[c].stage \in Working
  BY DEF Acquire, RequestsInv, Working
<1>2. CASE req' = [req EXCEPT ![c].stage = "embed"]
  <2>1. req' = [req EXCEPT ![c] = [req[c] EXCEPT !.stage = "embed"]]
    BY <1>2
  <2> QED BY <1>1, <2>1, StageMoves, OneRequest DEF Working
<1>3. CASE req' = [req EXCEPT ![c] = NoEmbedding(@, "invalid_input")]
  <2>1. req' = [req EXCEPT ![c] = NoEmbedding(req[c], "invalid_input")]
    BY <1>3
  <2> QED BY <1>1, <2>1, NoEmbeddingFacts, OneRequest DEF Wrong
<1> QED BY <1>2, <1>3 DEF Acquire

LEMMA EmbedStep ==
    ASSUME RequestsInv, NEW c \in Calls, NEW result \in {"ok", "provider_unavailable", "unexpected"},
           Embed(c, result)
    PROVE  RequestsInv'
<1>1. RequestOK(req[c]) /\ DOMAIN req = Calls /\ req[c].stage \in Working
  BY DEF Embed, RequestsInv, Working
<1>2. CASE req' = [req EXCEPT ![c].stage = "search"]
  <2>1. req' = [req EXCEPT ![c] = [req[c] EXCEPT !.stage = "search"]]
    BY <1>2
  <2> QED BY <1>1, <2>1, StageMoves, OneRequest DEF Working
<1>3. CASE result # "ok" /\ req' = [req EXCEPT ![c] = NoEmbedding(@, result)]
  <2>1. req' = [req EXCEPT ![c] = NoEmbedding(req[c], result)] /\ result \in Wrong
    BY <1>3 DEF Wrong
  <2> QED BY <1>1, <2>1, NoEmbeddingFacts, OneRequest
<1> QED BY <1>2, <1>3 DEF Embed

(* The answer after the search: a scope that failed is among the degraded
   ones and, unless an earlier reason is, its failure is the reason. *)
LEMMA SearchStep ==
    ASSUME RequestsInv, NEW c \in Calls, NEW results \in Outcomes(req[c]), Search(c, results)
    PROVE  RequestsInv'
<1> DEFINE r == req[c]
           split == split_results(r, results)
           failed == {i \in DOMAIN results : results[i] # "ok"}
           degraded == r.res.degraded \cup split.failed
           reasons == r.res.reasons \o split.reasons
           trouble == IF split.ok = DOMAIN results THEN r.trouble ELSE r.trouble \cup {"search"}
<1>1. /\ r.stage = "search" /\ RequestOK(r) /\ results \in [DOMAIN r.res.scopes -> SearchResults]
      /\ r.stage \in Working
  BY DEF Search, Outcomes, RequestsInv, Working
<1>2. ResolvedInv(r.res) /\ (r.trouble # {} <=> r.res.degraded # {})
  BY <1>1 DEF RequestOK
<1>3. DOMAIN results \subseteq 1..2 /\ DOMAIN results # {} /\ \A i \in DOMAIN results : results[i] \in SearchResults
  BY <1>1, <1>2 DEF ResolvedInv
<1>4. /\ split.ok = DOMAIN results \ failed
      /\ split.failed = {r.res.scopes[i].type : i \in failed}
      /\ split.reasons = IF failed = {} THEN <<>>
                         ELSE <<<<r.res.scopes[Min(failed)].type, results[Min(failed)]>>>>
  BY DEF split_results
<1>5. \/ /\ split.ok = {} /\ req' = [req EXCEPT ![c] = Degraded(r, trouble, degraded, reasons)]
      \/ \E skills, context : req' = [req EXCEPT ![c] =
            Answer(r, trouble, skills, context, degraded, IF reasons = <<>> THEN Nil ELSE Head(reasons))]
  BY DEF Search
<1> HIDE DEF split
<1>6. split.reasons \in Seq(Reason) /\ (failed # {} => split.reasons # <<>>)
  <2>1. CASE failed = {}
    BY <1>4, <2>1
  <2>2. CASE failed # {}
    <3>1. Min(failed) \in failed
      BY <1>3, <2>2, FirstFailure
    <3>2. r.res.scopes[Min(failed)].type \in {"project", "global"} /\ results[Min(failed)] \in {"timeout", "panic"}
      BY <1>1, <1>2, <1>3, <3>1 DEF ResolvedInv, SearchResults
    <3>3. <<r.res.scopes[Min(failed)].type, results[Min(failed)]>> \in Reason
      BY <3>2 DEF Reason, Wrong
    <3> HIDE DEF failed
    <3> QED BY <1>4, <2>2, <3>3
  <2> QED BY <2>1, <2>2
<1>a. failed # {} <=> split.failed # {}
  <2> HIDE DEF failed
  <2>1. ASSUME NEW i \in failed PROVE split.failed # {}
    <3>1. r.res.scopes[i].type \in split.failed
      BY <1>4, <2>1
    <3> QED BY <3>1
  <2>2. ASSUME NEW t \in split.failed PROVE failed # {}
    BY <1>4, <2>2
  <2> QED BY <2>1, <2>2
<1>b. split.ok = DOMAIN results <=> failed = {}
  BY <1>4
<1>7. degraded # {} <=> trouble # {}
  BY <1>2, <1>a, <1>b
<1>8. reasons \in Seq(Reason) /\ (degraded # {} => reasons # <<>>)
  <2>1. r.res.reasons \in Seq(Reason) /\ (r.res.degraded # {} => r.res.reasons # <<>>)
    BY <1>2 DEF ResolvedInv
  <2>2. split.failed # {} => failed # {}
    BY <1>4
  <2>3. reasons \in Seq(Reason) /\ (reasons = <<>> <=> r.res.reasons = <<>> /\ split.reasons = <<>>)
    BY <1>6, <2>1, ConcatProperties, ConcatEqualIffEmpty
  <2> QED BY <1>6, <2>1, <2>2, <2>3
<1>9. split.ok = {} => failed # {}
  BY <1>3, <1>4
<1> HIDE DEF r, failed, degraded, reasons, trouble
<1>10. CASE split.ok = {} /\ req' = [req EXCEPT ![c] = Degraded(r, trouble, degraded, reasons)]
  <2>1. degraded # {}
    BY <1>a, <1>9, <1>10 DEF degraded
  <2> QED BY <1>7, <1>8, <1>10, <2>1, DegradedFacts, OneRequest
<1>11. ASSUME NEW skills, NEW context, req' = [req EXCEPT ![c] =
              Answer(r, trouble, skills, context, degraded, IF reasons = <<>> THEN Nil ELSE Head(reasons))]
       PROVE  RequestsInv'
  <2> DEFINE a == Answer(r, trouble, skills, context, degraded, IF reasons = <<>> THEN Nil ELSE Head(reasons))
  <2>1. /\ a.stage = "answer" /\ a.trouble = trouble /\ a.degraded = degraded
        /\ a.reason = IF reasons = <<>> THEN Nil ELSE Head(reasons)
    BY DEF Answer
  <2>2. req' = [req EXCEPT ![c] = a]
    BY <1>11
  <2> HIDE DEF a
  <2>3. degraded # {} => a.reason # Nil
    BY <1>8, <2>1, FirstReason
  <2>4. RequestOK(a)
    BY <1>7, <2>1, <2>3 DEF RequestOK, Working
  <2> QED BY <2>2, <2>4, OneRequest
<1> QED BY <1>5, <1>10, <1>11

LEMMA InitRequests == Init => RequestsInv
BY DEF Init, Idle, RequestsInv, RequestOK, Working

LEMMA NextRequests ==
    ASSUME RequestsInv, [Next]_vars
    PROVE  RequestsInv'
<1>1. CASE UNCHANGED req
  BY <1>1 DEF RequestsInv
<1>2. ASSUME NEW c \in Calls, Refuse(c) PROVE RequestsInv'
  <2>1. PICK code : req' = [req EXCEPT ![c] = [stage |-> "refused", code |-> code]]
    BY <1>2 DEF Refuse
  <2>2. RequestOK([stage |-> "refused", code |-> code])
    BY DEF RequestOK, Working
  <2> QED BY <2>1, <2>2, OneRequest
<1>3. ASSUME NEW c \in Calls, Respond(c) PROVE RequestsInv'
  <2>1. req' = [req EXCEPT ![c] = [stage |-> "done", tool |-> req[c].tool]]
    BY <1>3 DEF Respond
  <2>2. RequestOK([stage |-> "done", tool |-> req[c].tool])
    BY DEF RequestOK, Working
  <2> QED BY <2>1, <2>2, OneRequest
<1>4. ASSUME NEW c \in Calls, Serve(c) PROVE RequestsInv'
  BY <1>3, <1>4, GateStep, AcquireStep, EmbedStep, SearchStep DEF Serve
<1>5. ASSUME NEW answering, NEW cold, Boot(answering, cold) PROVE UNCHANGED req
  BY <1>5 DEF Boot
<1>6. ASSUME NEW cold, swap_graph(cold) PROVE UNCHANGED req
  BY <1>6 DEF swap_graph
<1>7. CASE Cool \/ TakeUsage \/ Poll \/ PanicRebuild
  BY <1>1, <1>7 DEF Cool, TakeUsage, Poll, PanicRebuild
<1>8. ASSUME NEW result, WriteUsage(result) PROVE UNCHANGED req
  BY <1>8 DEF WriteUsage
<1>9. ASSUME NEW j, enqueue_rebuild(j) PROVE UNCHANGED req
  BY <1>9 DEF enqueue_rebuild
<1>10. ASSUME NEW ok, NEW committed, FinishRebuild(ok, committed) PROVE UNCHANGED req
  BY <1>10 DEF FinishRebuild
<1>11. CASE UNCHANGED vars
  BY <1>1, <1>11 DEF vars
<1> QED BY <1>1, <1>2, <1>4, <1>5, <1>6, <1>7, <1>8, <1>9, <1>10, <1>11, ReceiveStep DEF Next

(* What a request has met and what its answer tells agree at every stage. *)
THEOREM RequestsInvariant == Spec => []RequestsInv
<1>1. Init => RequestsInv
  BY InitRequests
<1>2. RequestsInv /\ [Next]_vars => RequestsInv'
  BY NextRequests
<1> QED BY <1>1, <1>2, PTL DEF Spec

(* A failure is never silent: an answer is degraded exactly when something
   failed for its request, and then names the reason (retrieve,
   build_degraded_outcome). *)
THEOREM FailuresAreTold == Spec => []FailureIsTold
<1>1. RequestsInv => FailureIsTold
  BY DEF RequestsInv, RequestOK, FailureIsTold, Answering, Status
<1> QED BY <1>1, RequestsInvariant, PTL

-----------------------------------------------------------------------------
(* A request that a step moves on was not answered before and is not after. *)
NotAnswered(c) == req[c].stage # "done" /\ req'[c].stage # "done"

LEMMA NewRequest ==
    ASSUME RequestsInv, NEW c \in Calls, NEW new, req' = [req EXCEPT ![c] = new],
           req[c].stage # "done", new.stage # "done"
    PROVE  \A d \in Calls : req'[d] = req[d] \/ NotAnswered(d)
BY DEF RequestsInv, NotAnswered

LEMMA NoEmbeddingStage ==
    ASSUME NEW r, NEW reason
    PROVE  NoEmbedding(r, reason).stage = "answer"
BY DEF NoEmbedding, Degraded, Answer

LEMMA ServeMoves ==
    ASSUME RequestsInv, NEW c \in Calls, Serve(c), ~Respond(c)
    PROVE  /\ UNCHANGED <<channel, writing, rows, lost>>
           /\ \A d \in Calls : req'[d] = req[d] \/ NotAnswered(d)
<1>0. DOMAIN req = Calls /\ RequestOK(req[c])
  BY DEF RequestsInv
<1>1. ASSUME req[c].stage \in Working, NEW stage \in Working, req' = [req EXCEPT ![c].stage = stage]
      PROVE  \A d \in Calls : req'[d] = req[d] \/ NotAnswered(d)
  <2>1. [req[c] EXCEPT !.stage = stage].stage = stage
    BY <1>0, <1>1 DEF RequestOK
  <2>2. req' = [req EXCEPT ![c] = [req[c] EXCEPT !.stage = stage]]
    BY <1>1
  <2>3. stage # "done" /\ req[c].stage # "done"
    BY <1>1 DEF Working
  <2> QED BY <2>1, <2>2, <2>3, NewRequest
<1>2. ASSUME req[c].stage \in Working, NEW reason, req' = [req EXCEPT ![c] = NoEmbedding(@, reason)]
      PROVE  \A d \in Calls : req'[d] = req[d] \/ NotAnswered(d)
  <2>1. req' = [req EXCEPT ![c] = NoEmbedding(req[c], reason)] /\ req[c].stage # "done"
    BY <1>2 DEF Working
  <2>2. NoEmbedding(req[c], reason).stage = "answer"
    BY NoEmbeddingStage
  <2> QED BY <2>1, <2>2, NewRequest
<1>3. CASE Gate(c)
  BY <1>1, <1>2, <1>3 DEF Gate, usageVars, Working
<1>4. CASE Acquire(c)
  BY <1>1, <1>2, <1>4 DEF Acquire, usageVars, Working
<1>5. ASSUME NEW result, Embed(c, result)
      PROVE  /\ UNCHANGED <<channel, writing, rows, lost>>
             /\ \A d \in Calls : req'[d] = req[d] \/ NotAnswered(d)
  BY <1>1, <1>2, <1>5 DEF Embed, usageVars, Working
<1>6. ASSUME NEW results, Search(c, results)
      PROVE  /\ UNCHANGED <<channel, writing, rows, lost>>
             /\ \A d \in Calls : req'[d] = req[d] \/ NotAnswered(d)
  <2>1. /\ req[c].stage = "search" /\ UNCHANGED <<channel, writing, rows, lost>>
        /\ \E trouble, skills, context, degraded, reason :
              req' = [req EXCEPT ![c] = Answer(req[c], trouble, skills, context, degraded, reason)]
    BY <1>6 DEF Search, Degraded, usageVars
  <2>2. \A trouble, skills, context, degraded, reason :
            Answer(req[c], trouble, skills, context, degraded, reason).stage # "done"
    BY DEF Answer
  <2>3. \E new : new.stage # "done" /\ req' = [req EXCEPT ![c] = new]
    <3>1. PICK trouble, skills, context, degraded, reason :
              req' = [req EXCEPT ![c] = Answer(req[c], trouble, skills, context, degraded, reason)]
      BY <2>1
    <3> WITNESS Answer(req[c], trouble, skills, context, degraded, reason)
    <3> QED BY <2>2, <3>1
  <2>4. req[c].stage # "done"
    BY <2>1
  <2> QED BY <2>1, <2>3, <2>4, NewRequest
<1> QED BY <1>3, <1>4, <1>5, <1>6 DEF Serve

LEMMA ArrivalMoves ==
    ASSUME RequestsInv, NEW c \in Calls, NEW tool, NEW prompt, NEW repo, NEW limit, NEW mounted,
           Refuse(c) \/ Receive(c, tool, prompt, repo, limit, mounted)
    PROVE  /\ UNCHANGED <<channel, writing, rows, lost>>
           /\ \A d \in Calls : req'[d] = req[d] \/ NotAnswered(d)
<1>1. req[c].stage # "done"
  BY DEF Refuse, Receive, Arrives, Idle
<1>2. UNCHANGED <<channel, writing, rows, lost>>
  BY DEF Refuse, Receive, usageVars
<1>3. \E new : new.stage # "done" /\ req' = [req EXCEPT ![c] = new]
  <2>1. CASE Refuse(c)
    <3>1. PICK code : req' = [req EXCEPT ![c] = [stage |-> "refused", code |-> code]]
      BY <2>1 DEF Refuse
    <3>2. [stage |-> "refused", code |-> code].stage # "done"
      OBVIOUS
    <3> QED BY <3>1, <3>2
  <2>2. CASE Receive(c, tool, prompt, repo, limit, mounted)
    <3> DEFINE res == Resolution(ResolveProject(repo, mounted), ResolveGlobal(mounted))
               r == [stage |-> "gate", tool |-> tool, prompt |-> prompt, repo |-> repo, limit |-> limit,
                     snapshot |-> served, res |-> res,
                     trouble |-> IF res.degraded = {} THEN {} ELSE {"scope"}]
               new == IF res.scopes = <<>> THEN Degraded(r, r.trouble, res.degraded, res.reasons) ELSE r
    <3>1. req' = [req EXCEPT ![c] = new]
      BY <2>2 DEF Receive
    <3>2. new.stage # "done"
      BY DEF Degraded, Answer
    <3> HIDE DEF new
    <3> QED BY <3>1, <3>2
  <2> QED BY <2>1, <2>2
<1> QED BY <1>1, <1>2, <1>3, NewRequest

(* A step that leaves the records alone. *)
LEMMA QuietStep ==
    ASSUME UsageInv, UNCHANGED <<channel, writing, rows, lost>>,
           \A d \in Calls : req'[d] = req[d] \/ NotAnswered(d)
    PROVE  UsageInv'
<1>1. UsageTypeInv' /\ \A k, m \in DOMAIN channel' : channel'[k].call = channel'[m].call => k = m
  BY DEF UsageInv, UsageTypeInv
<1>2. ASSUME NEW d \in Calls PROVE RecordInv(d)'
  <2>1. RecordInv(d) /\ InChannel(d)' = InChannel(d) /\ BeingWritten(d)' = BeingWritten(d)
    BY DEF UsageInv, InChannel, BeingWritten
  <2> QED BY <2>1 DEF RecordInv, NotAnswered
<1> QED BY <1>1, <1>2 DEF UsageInv

(* The answer leaves: the record of the call is posted, or lost. *)
LEMMA RespondStep ==
    ASSUME RequestsInv, UsageInv, NEW c \in Calls, Respond(c)
    PROVE  UsageInv'
<1>0. UsageTypeInv /\ DOMAIN req = Calls /\ \A d \in Calls : RecordInv(d)
  BY DEF UsageInv, RequestsInv
<1>1. /\ req[c].stage = "answer" /\ req' = [req EXCEPT ![c] = [stage |-> "done", tool |-> req[c].tool]]
      /\ UNCHANGED <<writing, rows>>
  BY DEF Respond
<1>2. req'[c].stage = "done" /\ req'[c].tool = req[c].tool /\ \A d \in Calls \ {c} : req'[d] = req[d]
  BY <1>0, <1>1
<1>3. rows[c] = 0 /\ ~InChannel(c) /\ ~BeingWritten(c)
  BY <1>0, <1>1 DEF RecordInv
<1>4. \A d \in Calls : BeingWritten(d)' = BeingWritten(d)
  BY <1>1 DEF BeingWritten
<1>5. CASE channel' = channel /\ lost \subseteq lost' /\ (req[c].tool = "compile_context" => c \in lost')
  <2>1. \A d \in Calls : InChannel(d)' = InChannel(d)
    BY <1>5 DEF InChannel
  <2>2. ASSUME NEW d \in Calls PROVE RecordInv(d)'
    BY <1>0, <1>1, <1>2, <1>3, <1>4, <1>5, <2>1 DEF RecordInv
  <2> QED BY <1>0, <1>1, <1>5, <2>2 DEF UsageInv, UsageTypeInv
<1>6. CASE channel' = Append(channel, [call |-> c]) /\ lost' = lost
  <2>1. channel \in Seq([call : Calls]) /\ [call |-> c] \in [call : Calls]
    BY <1>0 DEF UsageTypeInv
  <2>2. /\ channel' \in Seq([call : Calls]) /\ Len(channel) \in Nat
        /\ DOMAIN channel = 1..Len(channel) /\ DOMAIN channel' = 1..(Len(channel) + 1)
        /\ \A k \in DOMAIN channel : channel'[k] = channel[k]
        /\ channel'[Len(channel) + 1] = [call |-> c]
    BY <1>6, <2>1, AppendProperties
  <2>3. channel'[Len(channel) + 1].call = c
    BY <2>2
  <2>4. \A d \in Calls : InChannel(d)' <=> InChannel(d) \/ d = c
    <3>1. ASSUME NEW d \in Calls, NEW k \in DOMAIN channel', channel'[k].call = d PROVE InChannel(d) \/ d = c
      <4>1. CASE k \in DOMAIN channel
        BY <2>2, <3>1, <4>1 DEF InChannel
      <4>2. CASE k = Len(channel) + 1
        BY <2>3, <3>1, <4>2
      <4> QED BY <2>2, <4>1, <4>2
    <3>2. ASSUME NEW d \in Calls, NEW k \in DOMAIN channel, channel[k].call = d PROVE InChannel(d)'
      BY <2>2, <3>2 DEF InChannel
    <3>3. InChannel(c)'
      BY <2>2, <2>3 DEF InChannel
    <3> QED BY <3>1, <3>2, <3>3 DEF InChannel
  <2>5. \A k, m \in DOMAIN channel' : channel'[k].call = channel'[m].call => k = m
    <3> SUFFICES ASSUME NEW k \in DOMAIN channel', NEW m \in DOMAIN channel',
                        channel'[k].call = channel'[m].call
                 PROVE  k = m
      OBVIOUS
    <3>1. \A i \in DOMAIN channel : channel[i].call # c
      BY <1>3 DEF InChannel
    <3>2. CASE k \in DOMAIN channel /\ m \in DOMAIN channel
      BY <2>2, <3>2 DEF UsageInv
    <3>3. CASE k \in DOMAIN channel /\ m = Len(channel) + 1
      BY <2>2, <2>3, <3>1, <3>3
    <3>4. CASE m \in DOMAIN channel /\ k = Len(channel) + 1
      BY <2>2, <2>3, <3>1, <3>4
    <3> QED BY <2>2, <3>2, <3>3, <3>4
  <2>6. ASSUME NEW d \in Calls PROVE RecordInv(d)'
    BY <1>0, <1>1, <1>2, <1>3, <1>4, <1>6, <2>4 DEF RecordInv
  <2> QED BY <1>0, <1>1, <2>2, <2>5, <2>6 DEF UsageInv, UsageTypeInv
<1>7. (req[c].tool = "compile_context" /\ post_usage_record(UsageRecord(c)))
      \/ (req[c].tool # "compile_context" /\ UNCHANGED <<channel, health, lost>>)
  BY DEF Respond
<1> QED BY <1>5, <1>6, <1>7 DEF post_usage_record, UsageRecord

(* The writer takes the oldest record. *)
LEMMA TakeStep ==
    ASSUME UsageInv, TakeUsage
    PROVE  UsageInv'
<1>0. UsageTypeInv /\ \A d \in Calls : RecordInv(d)
  BY DEF UsageInv
<1>1. writing = Nil /\ channel # <<>> /\ writing' = Head(channel) /\ channel' = Tail(channel)
      /\ UNCHANGED <<req, rows, lost>>
  BY DEF TakeUsage
<1>2. /\ channel \in Seq([call : Calls]) /\ Len(channel) \in Nat \ {0} /\ DOMAIN channel = 1..Len(channel)
      /\ writing' = channel[1] /\ channel[1] \in [call : Calls]
      /\ channel' \in Seq([call : Calls]) /\ DOMAIN channel' = 1..(Len(channel) - 1)
      /\ \A k \in 1..(Len(channel) - 1) : channel'[k] = channel[k + 1]
  <2>1. channel \in Seq([call : Calls])
    BY <1>0 DEF UsageTypeInv
  <2>2. /\ Len(channel) \in Nat \ {0} /\ DOMAIN channel = 1..Len(channel)
        /\ Head(channel) = channel[1] /\ channel[1] \in [call : Calls]
    <3> DEFINE R == [call : Calls]
    <3>1. channel \in Seq(R)
      BY <2>1
    <3> HIDE DEF R
    <3>2. Len(channel) \in Nat /\ DOMAIN channel = 1..Len(channel)
      BY <3>1, LenProperties
    <3>3. Len(channel) # 0
      BY <1>1, <3>1, EmptySeq
    <3>4. Head(channel) \in R
      BY <1>1, <3>1, HeadTailProperties
    <3>5. Head(channel) = channel[1]
      BY <3>1, <3>2, <3>3
    <3> QED BY <3>2, <3>3, <3>4, <3>5 DEF R
  <2> QED BY <1>1, <2>1, <2>2, HeadTailProperties
<1>3. writing' # Nil /\ writing'.call \in Calls
  BY <1>2, NilAssumption
<1>4. UsageTypeInv'
  BY <1>0, <1>1, <1>2 DEF UsageTypeInv
<1>5. \A k, m \in DOMAIN channel' : channel'[k].call = channel'[m].call => k = m
  <2> SUFFICES ASSUME NEW k \in DOMAIN channel', NEW m \in DOMAIN channel',
                      channel'[k].call = channel'[m].call
               PROVE  k = m
    OBVIOUS
  <2>1. k + 1 \in DOMAIN channel /\ m + 1 \in DOMAIN channel
    BY <1>2
  <2>2. channel[k + 1].call = channel[m + 1].call
    BY <1>2
  <2>3. k + 1 = m + 1
    BY <2>1, <2>2 DEF UsageInv
  <2> QED BY <1>2, <2>3
<1>6. ASSUME NEW d \in Calls PROVE RecordInv(d)'
  <2>1. BeingWritten(d)' <=> channel[1].call = d
    BY <1>2, <1>3 DEF BeingWritten
  <2>2. ~BeingWritten(d)
    BY <1>1 DEF BeingWritten
  <2>3. BeingWritten(d)' => InChannel(d)
    BY <1>2, <2>1 DEF InChannel
  <2>4. InChannel(d)' => InChannel(d) /\ ~BeingWritten(d)'
    <3> SUFFICES ASSUME NEW k \in DOMAIN channel', channel'[k].call = d
                 PROVE  InChannel(d) /\ channel[1].call # d
      BY <2>1 DEF InChannel
    <3>1. k + 1 \in DOMAIN channel /\ 1 \in DOMAIN channel /\ k + 1 # 1 /\ channel[k + 1].call = d
      BY <1>2
    <3>2. InChannel(d)
      BY <3>1 DEF InChannel
    <3>3. channel[1].call # d
      BY <3>1 DEF UsageInv
    <3> QED BY <3>2, <3>3
  <2>5. InChannel(d) => InChannel(d)' \/ BeingWritten(d)'
    <3> SUFFICES ASSUME NEW k \in DOMAIN channel, channel[k].call = d
                 PROVE  InChannel(d)' \/ channel[1].call = d
      BY <2>1 DEF InChannel
    <3>1. CASE k = 1
      BY <3>1
    <3>2. CASE k # 1
      <4>1. k - 1 \in DOMAIN channel' /\ channel'[k - 1] = channel[(k - 1) + 1] /\ (k - 1) + 1 = k
        BY <1>2, <3>2
      <4>2. channel'[k - 1].call = d
        BY <4>1
      <4> QED BY <4>1, <4>2 DEF InChannel
    <3> QED BY <3>1, <3>2
  <2> QED BY <1>0, <1>1, <2>2, <2>3, <2>4, <2>5 DEF RecordInv
<1> QED BY <1>4, <1>5, <1>6 DEF UsageInv

(* The writer ends with a record: its row is there or it is reported lost. *)
LEMMA WriteStep ==
    ASSUME RequestsInv, UsageInv, NEW result, WriteUsage(result)
    PROVE  UsageInv'
<1>0. UsageTypeInv /\ \A d \in Calls : RecordInv(d)
  BY DEF UsageInv
<1>1. writing # Nil /\ writing' = Nil /\ UNCHANGED <<req, channel>>
  BY DEF WriteUsage
<1> DEFINE c == writing.call
<1>2. c \in Calls /\ BeingWritten(c) /\ \A d \in Calls : BeingWritten(d) => d = c
  BY <1>0, <1>1 DEF UsageTypeInv, BeingWritten
<1>3. \A d \in Calls : ~BeingWritten(d)' /\ (InChannel(d)' <=> InChannel(d))
  BY <1>1 DEF BeingWritten, InChannel
<1>4. rows[c] = 0 /\ rows \in [Calls -> {0, 1}] /\ ~InChannel(c)
  BY <1>0, <1>2 DEF RecordInv, UsageTypeInv
<1>5. /\ rows' = rows \/ rows' = [rows EXCEPT ![c] = @ + 1]
      /\ lost' = lost \/ lost' = lost \cup {c}
      /\ rows' = rows => c \in lost'
  <2>1. rows' = rows \/ rows' = [rows EXCEPT ![c] = @ + 1]
    BY DEF WriteUsage, Committed
  <2>2. lost' = lost \/ lost' = lost \cup {c}
    BY DEF WriteUsage
  <2>3. ASSUME rows' = rows, c \notin lost' PROVE FALSE
    <3>1. result = "ok"
      BY <2>3 DEF WriteUsage
    <3>2. rows' = [rows EXCEPT ![c] = @ + 1]
      BY <3>1 DEF WriteUsage, Committed
    <3>3. rows'[c] = 1
      BY <1>2, <1>4, <3>2
    <3> QED BY <1>4, <2>3, <3>3
  <2> QED BY <2>1, <2>2, <2>3
<1> HIDE DEF c
<1>6. /\ rows' \in [Calls -> {0, 1}] /\ \A d \in Calls \ {c} : rows'[d] = rows[d]
      /\ rows'[c] = 1 \/ c \in lost'
      /\ lost \subseteq lost'
  BY <1>2, <1>4, <1>5
<1>7. UsageTypeInv'
  BY <1>0, <1>1, <1>6 DEF UsageTypeInv
<1>8. ASSUME NEW d \in Calls PROVE RecordInv(d)'
  <2>1. CASE d = c
    <3>1. req[c].stage = "done"
      BY <1>0, <1>2 DEF RecordInv
    <3> QED BY <1>1, <1>2, <1>3, <1>4, <1>6, <2>1, <3>1 DEF RecordInv
  <2>2. CASE d # c
    BY <1>0, <1>1, <1>2, <1>3, <1>6, <2>2 DEF RecordInv
  <2> QED BY <2>1, <2>2
<1> QED BY <1>1, <1>7, <1>8 DEF UsageInv

LEMMA InitUsage == Init => UsageInv
<1> SUFFICES ASSUME Init PROVE UsageInv
  OBVIOUS
<1>1. channel = <<>> /\ writing = Nil /\ rows = [c \in Calls |-> 0] /\ \A c \in Calls : req[c].stage = "idle"
  BY DEF Init, Idle
<1>2. DOMAIN channel = {} /\ channel \in Seq([call : Calls])
  BY <1>1
<1>3. ASSUME NEW c \in Calls PROVE RecordInv(c)
  BY <1>1, <1>2 DEF RecordInv, InChannel, BeingWritten
<1> QED BY <1>1, <1>2, <1>3 DEF UsageInv, UsageTypeInv

LEMMA NextUsage ==
    ASSUME RequestsInv, UsageInv, [Next]_vars
    PROVE  UsageInv'
<1>1. CASE UNCHANGED <<req, channel, writing, rows, lost>>
  BY <1>1, QuietStep
<1>2. ASSUME NEW c \in Calls, Serve(c) PROVE UsageInv'
  BY <1>2, ServeMoves, RespondStep, QuietStep
<1>3. ASSUME NEW c \in Calls, NEW tool, NEW prompt, NEW repo, NEW limit, NEW mounted,
             Refuse(c) \/ Receive(c, tool, prompt, repo, limit, mounted)
      PROVE  UsageInv'
  BY <1>3, ArrivalMoves, QuietStep
<1>5. ASSUME NEW answering, NEW cold, Boot(answering, cold) PROVE UsageInv'
  BY <1>1, <1>5 DEF Boot, usageVars
<1>6. ASSUME NEW cold, swap_graph(cold) PROVE UsageInv'
  BY <1>1, <1>6 DEF swap_graph, usageVars
<1>7. CASE Cool \/ Poll \/ PanicRebuild
  BY <1>1, <1>7 DEF Cool, Poll, PanicRebuild, usageVars
<1>8. ASSUME NEW j, enqueue_rebuild(j) PROVE UsageInv'
  BY <1>1, <1>8 DEF enqueue_rebuild, usageVars
<1>9. ASSUME NEW ok, NEW committed, FinishRebuild(ok, committed) PROVE UsageInv'
  BY <1>1, <1>9 DEF FinishRebuild, usageVars
<1>10. CASE UNCHANGED vars
  BY <1>1, <1>10 DEF vars
<1> QED BY <1>2, <1>3, <1>5, <1>6, <1>7, <1>8, <1>9, <1>10, TakeStep, WriteStep DEF Next

(* The usage record of a call is in one place at a time. *)
THEOREM UsageInvariant == Spec => []UsageInv
<1>1. Init => UsageInv
  BY InitUsage
<1>2. RequestsInv /\ UsageInv /\ [Next]_vars => UsageInv'
  BY NextUsage
<1> QED BY <1>1, <1>2, RequestsInvariant, PTL DEF Spec

(* Usage accounting: at most one row per call, only for an answered one, and
   none missing that was not reported lost (post_usage_record,
   write_session_usage). *)
THEOREM UsageOnce == Spec => []UsageWrittenOnce
<1>1. UsageInv => UsageWrittenOnce
  <2> SUFFICES ASSUME UsageInv, NEW c \in Calls
               PROVE  /\ rows[c] <= 1
                      /\ rows[c] = 1 => req[c].stage = "done"
                      /\ req[c].stage = "done" /\ req[c].tool = "compile_context" =>
                            \/ rows[c] = 1 \/ c \in lost
                            \/ writing # Nil /\ writing.call = c
                            \/ \E k \in DOMAIN channel : channel[k].call = c
    BY DEF UsageWrittenOnce
  <2>1. RecordInv(c) /\ rows[c] \in {0, 1}
    BY DEF UsageInv, UsageTypeInv
  <2> QED BY <2>1 DEF RecordInv, InChannel, BeingWritten
<1> QED BY <1>1, UsageInvariant, PTL

-----------------------------------------------------------------------------
(* Sequences ordered by counting. *)

(* A set of pairs that orders D totally and strictly. *)
StrictOrder(D, before) ==
    /\ \A x \in D : <<x, x>> \notin before
    /\ \A x, y, z \in D : <<x, y>> \in before /\ <<y, z>> \in before => <<x, z>> \in before
    /\ \A x, y \in D : x = y \/ <<x, y>> \in before \/ <<y, x>> \in before

(* What a function on 1..n is as a sequence. *)
LEMMA ListFacts ==
    ASSUME NEW S, NEW n \in Nat, NEW s \in [1..n -> S]
    PROVE  s \in Seq(S) /\ Len(s) = n /\ DOMAIN s = 1..n /\ Whole(s) = s
<1>1. s \in Seq(S)
  BY SeqDef
<1>2. Len(s) = n /\ DOMAIN s = 1..n
  BY <1>1, LenProperties
<1>3. SubSeq(s, 1, n) = s
  BY <1>1, <1>2, SubSeqFull
<1> QED BY <1>1, <1>2, <1>3 DEF Whole

(* The number of members before one tells its place. *)
LEMMA CountsDiffer ==
    ASSUME NEW D, IsFiniteSet(D), NEW before, StrictOrder(D, before), NEW x \in D, NEW y \in D,
           <<x, y>> \in before
    PROVE  /\ Cardinality({z \in D : <<z, x>> \in before}) \in Nat
           /\ Cardinality({z \in D : <<z, y>> \in before}) \in Nat
           /\ Cardinality({z \in D : <<z, x>> \in before}) < Cardinality({z \in D : <<z, y>> \in before})
           /\ Cardinality({z \in D : <<z, y>> \in before}) < Cardinality(D)
<1> DEFINE P == {z \in D : <<z, x>> \in before}
           Q == {z \in D : <<z, y>> \in before}
<1>1. P \in SUBSET Q /\ Q \in SUBSET D
  BY DEF StrictOrder
<1>2. x \in Q /\ x \notin P /\ y \notin Q /\ y \in D
  BY DEF StrictOrder
<1>3. IsFiniteSet(Q) /\ Cardinality(Q) <= Cardinality(D) /\ Cardinality(Q) # Cardinality(D)
  BY <1>1, <1>2, FS_Subset
<1>4. IsFiniteSet(P) /\ Cardinality(P) <= Cardinality(Q) /\ Cardinality(P) # Cardinality(Q)
  BY <1>1, <1>2, <1>3, FS_Subset
<1>5. Cardinality(P) \in Nat /\ Cardinality(Q) \in Nat /\ Cardinality(D) \in Nat
  BY <1>3, <1>4, FS_CardinalityType
<1> QED BY <1>3, <1>4, <1>5

(* Counting orders a finite set: every member has its own place. *)
LEMMA InOrderFacts ==
    ASSUME NEW D, IsFiniteSet(D), NEW before, StrictOrder(D, before)
    PROVE  /\ Cardinality(D) \in Nat
           /\ InOrder(D, before) \in [1..Cardinality(D) -> D]
           /\ DOMAIN InOrder(D, before) = 1..Cardinality(D)
           /\ \A x \in D : \E k \in 1..Cardinality(D) : InOrder(D, before)[k] = x
           /\ \A j, k \in 1..Cardinality(D) : InOrder(D, before)[j] = InOrder(D, before)[k] => j = k
           /\ \A k \in 1..Cardinality(D) :
                 Cardinality({y \in D : <<y, InOrder(D, before)[k]>> \in before}) = k - 1
<1> DEFINE n == Cardinality(D)
           count(x) == Cardinality({y \in D : <<y, x>> \in before})
           rank == [x \in D |-> count(x)]
           o == [k \in 1..n |-> CHOOSE x \in D : count(x) = k - 1]
<1>1. n \in Nat
  BY FS_CardinalityType
<1>2. ASSUME NEW x \in D PROVE rank[x] \in 0..(n - 1)
  <2>1. {y \in D : <<y, x>> \in before} \in SUBSET D /\ x \notin {y \in D : <<y, x>> \in before}
    BY DEF StrictOrder
  <2>2. count(x) \in Nat /\ count(x) <= n /\ count(x) # n
    BY <2>1, FS_Subset, FS_CardinalityType
  <2> QED BY <1>1, <2>2
<1>3. ASSUME NEW x \in D, NEW y \in D, rank[x] = rank[y] PROVE x = y
  <2>1. ASSUME NEW u \in D, NEW v \in D, <<u, v>> \in before PROVE rank[u] # rank[v]
    BY <2>1, CountsDiffer
  <2> QED BY <1>3, <2>1 DEF StrictOrder
<1>4. rank \in Injection(D, 0..(n - 1))
  <2>1. rank \in [D -> 0..(n - 1)]
    BY <1>2
  <2> HIDE DEF rank
  <2> QED BY <1>3, <2>1 DEF Injection, IsInjective
<1>5. Cardinality(0..(n - 1)) = n /\ IsFiniteSet(0..(n - 1))
  <2>1. 0 \in Int /\ n - 1 \in Int /\ (n - 1) - 0 + 1 = n /\ (0 > n - 1 <=> n = 0)
    BY <1>1
  <2> HIDE DEF n
  <2> QED BY <2>1, FS_Interval, SMTT(20)
<1>6. rank \in Surjection(D, 0..(n - 1))
  BY <1>4, <1>5, FS_Injection
<1>7. ASSUME NEW k \in 1..n PROVE \E x \in D : count(x) = k - 1
  <2>1. k - 1 \in 0..(n - 1)
    BY <1>1
  <2>2. PICK x \in D : rank[x] = k - 1
    BY <1>6, <2>1 DEF Surjection
  <2> QED BY <2>2
<1>8. \A k \in 1..n : o[k] \in D /\ count(o[k]) = k - 1
  BY <1>7
<1>9. o \in [1..n -> D]
  BY <1>8
<1>10. InOrder(D, before) = o
  <2>1. InOrder(D, before) = Whole(o)
    BY DEF InOrder
  <2> HIDE DEF o, n
  <2> QED BY <1>1, <1>9, <2>1, ListFacts
<1> HIDE DEF o
<1>11. ASSUME NEW x \in D PROVE \E k \in 1..n : o[k] = x
  <2>1. rank[x] + 1 \in 1..n /\ (rank[x] + 1) - 1 = rank[x]
    BY <1>1, <1>2
  <2>2. rank[o[rank[x] + 1]] = rank[x] /\ o[rank[x] + 1] \in D
    BY <1>8, <2>1
  <2> HIDE DEF rank
  <2>3. o[rank[x] + 1] = x
    BY <1>3, <2>2
  <2> QED BY <2>1, <2>3
<1>12. ASSUME NEW j \in 1..n, NEW k \in 1..n, o[j] = o[k] PROVE j = k
  <2>1. j - 1 = k - 1
    BY <1>8, <1>12
  <2> QED BY <1>1, <2>1
<1> QED BY <1>1, <1>8, <1>9, <1>10, <1>11, <1>12

-----------------------------------------------------------------------------
(* Recursive functions: what each step makes of the one before. *)

(* Every non-empty set of natural numbers has a least element. *)
LEMMA LeastNatural ==
    ASSUME NEW T, T \subseteq Nat, T # {}
    PROVE  \E x \in T : \A y \in T : x <= y
<1>1. IsWellFoundedOn(OpToRel(<, Nat), Nat)
  BY NatLessThanWellFounded
<1>2. PICK x \in T : \A y \in T : ~(<<y, x>> \in OpToRel(<, Nat))
  BY <1>1, WFMin
<1>3. \A y \in T : ~(y < x)
  BY <1>2 DEF OpToRel
<1> QED BY <1>3

(* f follows the steps from v. *)
Follows(f, V, step, v, n) ==
    f \in [0..n -> V] /\ f[0] = v /\ \A k \in 1..n : f[k] = step[k][f[k - 1]]

(* A step taken n times from a first value. *)
LEMMA Recurrence ==
    ASSUME NEW V, NEW v \in V, NEW n \in Nat, NEW step \in [1..n -> [V -> V]]
    PROVE  \E f : Follows(f, V, step, v, n)
<1> DEFINE Steps(f, m) == f[0] = v /\ \A k \in 1..m : f[k] = step[k][f[k - 1]]
           T == {m \in 0..n : \A f \in [0..m -> V] : ~Steps(f, m)}
<1>1. SUFFICES n \notin T
  BY DEF T, Follows
<1>2. SUFFICES ASSUME T # {} PROVE FALSE
  OBVIOUS
<1>3. PICK m \in T : \A l \in T : m <= l
  <2>1. T \subseteq Nat
    OBVIOUS
  <2> HIDE DEF T
  <2> QED BY <1>2, <2>1, LeastNatural
<1>4. m # 0
  <2> DEFINE f == [k \in 0..0 |-> v]
  <2>1. f \in [0..0 -> V] /\ Steps(f, 0)
    OBVIOUS
  <2> QED BY <2>1
<1>5. m - 1 \in 0..n /\ m - 1 \notin T /\ m \in 1..n
  <2>1. m \in 0..n
    BY <1>3
  <2>2. m \in 1..n /\ m - 1 \in 0..n /\ ~(m <= m - 1)
    BY <1>4, <2>1
  <2> HIDE DEF T
  <2> QED BY <1>3, <2>2
<1>6. PICK f \in [0..(m - 1) -> V] : Steps(f, m - 1)
  BY <1>5
<1> DEFINE g == [k \in 0..m |-> IF k = m THEN step[m][f[m - 1]] ELSE f[k]]
<1>7. f[m - 1] \in V
  BY <1>5, <1>6
<1>8. g \in [0..m -> V]
  BY <1>5, <1>6, <1>7
<1>9. Steps(g, m)
  <2>1. g[0] = v
    BY <1>5, <1>6
  <2>2. ASSUME NEW k \in 1..m PROVE g[k] = step[k][g[k - 1]]
    <3>1. k - 1 \in 0..m /\ k - 1 # m /\ k \in 0..m /\ g[k - 1] = f[k - 1]
      BY <1>5
    <3>2. CASE k = m
      BY <3>1, <3>2
    <3>3. CASE k # m
      <4>1. k \in 1..(m - 1)
        BY <1>5, <3>3
      <4>2. f[k] = step[k][f[k - 1]]
        BY <1>6, <4>1
      <4> QED BY <3>1, <3>3, <4>2
    <3> QED BY <3>2, <3>3
  <2> QED BY <2>1, <2>2
<1>10. m \in T
  BY <1>3
<1> HIDE DEF g
<1> QED BY <1>8, <1>9, <1>10

(* Adding up integers. *)
LEMMA SumFacts ==
    ASSUME NEW n \in Nat, NEW s \in [1..n -> Int]
    PROVE  /\ SumOf(s) \in Int
           /\ n = 1 => SumOf(s) = s[1]
<1> DEFINE step == [k \in 1..n |-> [x \in Int |-> x + s[k]]]
           Total(f) == [k \in 0..n |-> IF k = 0 THEN 0 ELSE f[k - 1] + s[k]]
           total == CHOOSE f : f = Total(f)
<1>1. Len(s) = n
  BY ListFacts
<1>2. SumOf(s) = total[n]
  BY <1>1 DEF SumOf
<1>3. step \in [1..n -> [Int -> Int]]
  OBVIOUS
<1>4. PICK f \in [0..n -> Int] : f[0] = 0 /\ \A k \in 1..n : f[k] = step[k][f[k - 1]]
  <2> DEFINE V == Int
             zero == 0
  <2>1. zero \in V /\ step \in [1..n -> [V -> V]]
    BY <1>3
  <2> HIDE DEF step, V, zero
  <2>2. \E f : Follows(f, V, step, zero, n)
    BY <2>1, Recurrence
  <2> QED BY <2>2 DEF V, zero, Follows
<1>5. f = Total(f)
  <2>1. ASSUME NEW k \in 0..n PROVE f[k] = IF k = 0 THEN 0 ELSE f[k - 1] + s[k]
    <3>1. CASE k = 0
      BY <1>4, <3>1
    <3>2. CASE k # 0
      <4>1. k \in 1..n /\ f[k - 1] \in Int
        BY <1>4, <3>2
      <4>2. step[k][f[k - 1]] = f[k - 1] + s[k]
        BY <4>1
      <4>3. f[k] = step[k][f[k - 1]]
        BY <1>4, <4>1
      <4> HIDE DEF step
      <4> QED BY <3>2, <4>2, <4>3
    <3> QED BY <3>1, <3>2
  <2> QED BY <1>4, <2>1
<1>6. total = Total(total)
  BY <1>5
<1> HIDE DEF total
<1>7. total[0] = 0 /\ \A k \in 1..n : total[k] = total[k - 1] + s[k]
  BY <1>6
<1> DEFINE T == {k \in 0..n : total[k] \notin Int}
<1>8. T = {}
  <2>1. SUFFICES ASSUME T # {} PROVE FALSE
    OBVIOUS
  <2>2. PICK m \in T : \A l \in T : m <= l
    <3>1. T \subseteq Nat
      OBVIOUS
    <3> HIDE DEF T
    <3> QED BY <2>1, <3>1, LeastNatural
  <2>3. m # 0
    BY <1>7, <2>2
  <2>4. m \in 1..n /\ m - 1 \in 0..n /\ m - 1 \notin T
    BY <2>2, <2>3
  <2>5. total[m] = total[m - 1] + s[m] /\ total[m - 1] \in Int /\ s[m] \in Int
    BY <1>7, <2>4
  <2> QED BY <2>2, <2>5
<1>9. n = 1 => total[n] = s[1]
  BY <1>7
<1> QED BY <1>2, <1>8, <1>9

-----------------------------------------------------------------------------
(* Sorting, filtering and truncating. *)

(* The orders the code sorts by are strict and total. *)
LEMMA DescendingOrder ==
    ASSUME NEW D, D \subseteq Int, NEW keys \in [D -> Int]
    PROVE  StrictOrder(D, Descending(keys))
<1>1. ASSUME NEW x \in D, NEW y \in D
      PROVE  <<x, y>> \in Descending(keys) <=> keys[x] > keys[y] \/ (keys[x] = keys[y] /\ x < y)
  BY DEF Descending
<1>2. \A x \in D : x \in Int /\ keys[x] \in Int
  OBVIOUS
<1> QED BY <1>1, <1>2 DEF StrictOrder

LEMMA PositionsOrder ==
    ASSUME NEW D, D \subseteq Int
    PROVE  StrictOrder(D, {p \in D \X D : p[1] < p[2]})
<1>1. \A x, y \in D : <<x, y>> \in {p \in D \X D : p[1] < p[2]} <=> x < y
  OBVIOUS
<1>2. \A x \in D : x \in Int
  OBVIOUS
<1> QED BY <1>1, <1>2 DEF StrictOrder

LEMMA RowByRowOrder ==
    ASSUME NEW P, P \subseteq Int \X Int
    PROVE  StrictOrder(P, RowByRow(P))
<1>1. ASSUME NEW x \in P, NEW y \in P
      PROVE  <<x, y>> \in RowByRow(P) <=> x[1] < y[1] \/ (x[1] = y[1] /\ x[2] < y[2])
  BY DEF RowByRow
<1>2. \A x \in P : x = <<x[1], x[2]>> /\ x[1] \in Int /\ x[2] \in Int
  OBVIOUS
<1>3. ASSUME NEW x \in P, NEW y \in P, x[1] = y[1], x[2] = y[2] PROVE x = y
  BY <1>2, <1>3
<1> QED BY <1>1, <1>2, <1>3 DEF StrictOrder

(* No two records of a list have the same id. *)
Distinct(s) == \A j, k \in DOMAIN s : s[j].id = s[k].id => j = k

(* t lists what s has at the positions in I, each once. *)
Lists(t, s, I) ==
    /\ Cardinality(I) \in Nat
    /\ t \in [1..Cardinality(I) -> {s[i] : i \in I}]
    /\ \A i \in I : \E k \in 1..Cardinality(I) : t[k] = s[i]
    /\ Distinct(s) => Distinct(t)

(* o numbers the m positions in I, and t has the elements of s in that order. *)
Numbers(o, m, I) ==
    /\ m \in Nat /\ m = Cardinality(I) /\ o \in [1..m -> I]
    /\ \A i \in I : \E k \in 1..m : o[k] = i
    /\ \A j, k \in 1..m : o[j] = o[k] => j = k

Along(t, s, o, m, S) == t \in [1..m -> S] /\ \A k \in 1..m : t[k] = s[o[k]]

LEMMA IndexLists ==
    ASSUME NEW s, NEW I \in SUBSET (DOMAIN s), NEW m, NEW o, Numbers(o, m, I),
           NEW S, NEW t, Along(t, s, o, m, S)
    PROVE  Lists(Whole(t), s, I)
<1> USE DEF Numbers, Along
<1>3. t \in [1..m -> {s[i] : i \in I}]
  OBVIOUS
<1>4. Whole(t) = t
  BY ListFacts
<1>5. \A i \in I : \E k \in 1..m : t[k] = s[i]
  <2> SUFFICES ASSUME NEW i \in I PROVE \E k \in 1..m : t[k] = s[i]
    OBVIOUS
  <2>1. PICK k \in 1..m : o[k] = i
    OBVIOUS
  <2>2. t[k] = s[i]
    BY <2>1
  <2> QED BY <2>2
<1>6. Distinct(s) => Distinct(t)
  <2> SUFFICES ASSUME Distinct(s), NEW j \in 1..m, NEW k \in 1..m, t[j].id = t[k].id PROVE j = k
    BY DEF Distinct
  <2>1. o[j] \in DOMAIN s /\ o[k] \in DOMAIN s /\ s[o[j]].id = s[o[k]].id
    OBVIOUS
  <2>2. o[j] = o[k]
    BY <2>1 DEF Distinct
  <2> QED BY <2>2
<1>7. Lists(t, s, I)
  BY <1>3, <1>5, <1>6 DEF Lists
<1> QED BY <1>4, <1>7

LEMMA OrderLists ==
    ASSUME NEW n \in Nat, NEW s, DOMAIN s = 1..n, NEW I \in SUBSET (1..n), NEW before,
           StrictOrder(I, before)
    PROVE  LET o == InOrder(I, before)
           IN  /\ DOMAIN o = 1..Cardinality(I)
               /\ Lists(Whole([k \in DOMAIN o |-> s[o[k]]]), s, I)
<1> DEFINE o == InOrder(I, before)
           m == Cardinality(I)
<1>1. IsFiniteSet(I)
  <2>1. IsFiniteSet(1..n)
    BY FS_Interval
  <2> QED BY <2>1, FS_Subset
<1>2. /\ m \in Nat /\ o \in [1..m -> I] /\ DOMAIN o = 1..m
      /\ \A i \in I : \E k \in 1..m : o[k] = i
      /\ \A j, k \in 1..m : o[j] = o[k] => j = k
  BY <1>1, InOrderFacts
<1>3. m = Cardinality(I)
  OBVIOUS
<1> HIDE DEF o, m
<1> DEFINE t == [k \in DOMAIN o |-> s[o[k]]]
           S == {s[i] : i \in I}
<1>4. t \in [1..m -> S] /\ \A k \in 1..m : t[k] = s[o[k]]
  BY <1>2
<1> HIDE DEF t, S
<1>5. Lists(Whole(t), s, I)
  <2>1. Numbers(o, m, I)
    BY <1>2, <1>3 DEF Numbers
  <2>2. Along(t, s, o, m, S)
    BY <1>4 DEF Along
  <2> QED BY <2>1, <2>2, IndexLists
<1> QED BY <1>2, <1>3, <1>5 DEF o, t

(* A stable sort and a filter. *)
LEMMA SortedFacts ==
    ASSUME NEW n \in Nat, NEW s, DOMAIN s = 1..n, NEW keys \in [1..n -> Int]
    PROVE  Lists(SortedBy(s, keys), s, 1..n)
<1> DEFINE o == InOrder(1..n, Descending(keys))
<1>1. StrictOrder(1..n, Descending(keys)) /\ 1..n \in SUBSET (1..n)
  BY DescendingOrder
<1>2. DOMAIN o = 1..Cardinality(1..n) /\ Lists(Whole([k \in DOMAIN o |-> s[o[k]]]), s, 1..n)
  <2> DEFINE I == 1..n
  <2>1. StrictOrder(I, Descending(keys)) /\ I \in SUBSET (1..n)
    BY <1>1
  <2> HIDE DEF I
  <2>2. LET p == InOrder(I, Descending(keys))
        IN  DOMAIN p = 1..Cardinality(I) /\ Lists(Whole([k \in DOMAIN p |-> s[p[k]]]), s, I)
    BY <2>1, OrderLists
  <2> QED BY <2>2 DEF I
<1>3. DOMAIN o = DOMAIN s
  BY <1>2, FS_Interval
<1>4. SortedBy(s, keys) = Whole([k \in DOMAIN s |-> s[o[k]]])
  BY DEF SortedBy
<1> HIDE DEF o
<1> QED BY <1>2, <1>3, <1>4

LEMMA KeptFacts ==
    ASSUME NEW n \in Nat, NEW s, DOMAIN s = 1..n, NEW I \in SUBSET (1..n)
    PROVE  Lists(Kept(s, I), s, I)
<1>1. StrictOrder(I, {p \in I \X I : p[1] < p[2]})
  <2>1. I \subseteq Int
    OBVIOUS
  <2> QED BY <2>1, PositionsOrder
<1> QED BY <1>1, OrderLists DEF Kept

LEMMA TruncateFacts ==
    ASSUME NEW S, NEW n \in Nat, NEW s \in [1..n -> S], NEW limit \in Nat
    PROVE  LET m == IF n < limit THEN n ELSE limit
           IN  /\ Truncate(s, limit) \in [1..m -> S]
               /\ \A k \in 1..m : k \in 1..n /\ Truncate(s, limit)[k] = s[k]
               /\ Distinct(s) => Distinct(Truncate(s, limit))
<1> DEFINE m == IF n < limit THEN n ELSE limit
<1>1. s \in Seq(S) /\ Len(s) = n /\ DOMAIN s = 1..n
  BY ListFacts
<1>2. m \in Nat /\ m <= n
  OBVIOUS
<1>3. Truncate(s, limit) = SubSeq(s, 1, m)
  BY <1>1 DEF Truncate
<1> HIDE DEF m
<1>4. \A i \in 1..m : s[i] \in S
  BY <1>2
<1>5. /\ SubSeq(s, 1, m) \in Seq(S) /\ Len(SubSeq(s, 1, m)) = m
      /\ \A i \in 1..m : SubSeq(s, 1, m)[i] = s[i]
  <2>1. /\ SubSeq(s, 1, m) \in Seq(S)
        /\ Len(SubSeq(s, 1, m)) = IF 1 <= m THEN m - 1 + 1 ELSE 0
        /\ \A i \in 1..(m - 1 + 1) : SubSeq(s, 1, m)[i] = s[1 + i - 1]
    BY <1>2, <1>4, SubSeqProperties
  <2> QED BY <1>2, <2>1
<1>6. SubSeq(s, 1, m) \in [1..m -> S]
  BY <1>5, LenProperties
<1>7. Distinct(s) => Distinct(SubSeq(s, 1, m))
  BY <1>1, <1>2, <1>5, <1>6 DEF Distinct
<1>8. /\ Truncate(s, limit) \in [1..m -> S]
      /\ \A k \in 1..m : k \in 1..n /\ Truncate(s, limit)[k] = s[k]
      /\ Distinct(s) => Distinct(Truncate(s, limit))
  BY <1>2, <1>3, <1>5, <1>6, <1>7
<1> QED BY <1>8 DEF m

-----------------------------------------------------------------------------
(* Diversification. *)

(* m picks, all different, among n candidates. *)
Picks(p, m, n) ==
    p \in [1..m -> 1..n] /\ \A i, j \in 1..m : p[i] = p[j] => i = j

Scored(cands, n) == DOMAIN cands = 1..n /\ \A i \in 1..n : cands[i].score \in Int

(* A turn of mmr_select with a candidate left picks one of those left. *)
LEMMA NextPick ==
    ASSUME NEW query, NEW n \in Nat, NEW cands, Scored(cands, n), NEW m \in 1..n, NEW p, Picks(p, m - 1, n)
    PROVE  /\ Append(p, MmrWinner(query, cands, p)) \in Seq(1..n)
           /\ Picks(Append(p, MmrWinner(query, cands, p)), m, n)
<1> DEFINE w == MmrWinner(query, cands, p)
           taken == {p[k] : k \in 1..(m - 1)}
           rest == (1..n) \ taken
           keys == [i \in rest |-> Marginal(query, cands, p, i)]
           o == InOrder(rest, Descending(keys))
<1>1. p \in [1..(m - 1) -> 1..n] /\ DOMAIN p = 1..(m - 1) /\ m - 1 \in Nat
  BY DEF Picks
<1>2. p \in Seq(1..n) /\ Len(p) = m - 1
  BY <1>1, ListFacts
<1>3. w = o[1]
  BY <1>1 DEF MmrWinner, Scored
<1>4. rest # {}
  <2>1. SUFFICES ASSUME rest = {} PROVE FALSE
    OBVIOUS
  <2>2. p \in Surjection(1..(m - 1), 1..n)
    BY <1>1, <2>1 DEF Surjection
  <2>3. IsFiniteSet(1..(m - 1)) /\ Cardinality(1..(m - 1)) = m - 1 /\ Cardinality(1..n) = n
    <3>1. 1 \in Int /\ m - 1 \in Int /\ n \in Int /\ (1 > m - 1 => m - 1 = 0) /\ (1 > n => n = 0)
      OBVIOUS
    <3> QED BY <3>1, FS_Interval
  <2>4. Cardinality(1..n) <= Cardinality(1..(m - 1))
    BY <2>2, <2>3, FS_Surjection
  <2> QED BY <2>3, <2>4
<1>5. keys \in [rest -> Int]
  <2> SUFFICES ASSUME NEW i \in rest PROVE Marginal(query, cands, p, i) \in Int
    OBVIOUS
  <2>1. cands[i].score \in Int
    BY DEF Scored
  <2> QED BY <2>1 DEF Marginal, MmrLambda
<1>6. IsFiniteSet(rest) /\ rest \subseteq Int
  <2>1. IsFiniteSet(1..n) /\ rest \in SUBSET (1..n)
    BY FS_Interval
  <2> HIDE DEF rest
  <2>2. IsFiniteSet(rest)
    BY <2>1, FS_Subset
  <2> QED BY <2>1, <2>2
<1> HIDE DEF keys, rest
<1>7. StrictOrder(rest, Descending(keys))
  BY <1>5, <1>6, DescendingOrder
<1>8. Cardinality(rest) \in Nat /\ o \in [1..Cardinality(rest) -> rest]
  BY <1>6, <1>7, InOrderFacts
<1>9. Cardinality(rest) # 0
  BY <1>4, <1>6, FS_EmptySet
<1>10. w \in rest
  <2>1. 1 \in 1..Cardinality(rest)
    BY <1>8, <1>9
  <2> HIDE DEF o
  <2> QED BY <1>3, <1>8, <2>1
<1> HIDE DEF w, o
<1>11. w \in 1..n /\ \A k \in 1..(m - 1) : p[k] # w
  BY <1>10 DEF rest
<1> DEFINE q == Append(p, w)
<1>12. /\ q \in Seq(1..n) /\ Len(q) = m
       /\ \A k \in 1..(m - 1) : q[k] = p[k]
       /\ q[m] = w
  BY <1>1, <1>2, <1>11, AppendProperties
<1> HIDE DEF q
<1>13. q \in [1..m -> 1..n]
  BY <1>12, LenProperties
<1>14. ASSUME NEW i \in 1..m, NEW j \in 1..m, q[i] = q[j] PROVE i = j
  <2>1. \A k \in 1..m : k \in 1..(m - 1) \/ k = m
    OBVIOUS
  <2> QED BY <1>11, <1>12, <1>14, <2>1 DEF Picks
<1> QED BY <1>12, <1>13, <1>14 DEF Picks, q, w

(* Turn after turn, mmr_select picks another candidate. *)
LEMMA AllPicks ==
    ASSUME NEW query, NEW n \in Nat, NEW cands, Scored(cands, n), NEW g, g[0] = <<>>,
           \A m \in 1..n : Picks(g[m - 1], m - 1, n) =>
               g[m] = Append(g[m - 1], MmrWinner(query, cands, g[m - 1]))
    PROVE  \A m \in 0..n : Picks(g[m], m, n)
<1> DEFINE T == {m \in 0..n : ~Picks(g[m], m, n)}
<1>1. SUFFICES ASSUME T # {} PROVE FALSE
  OBVIOUS
<1>2. PICK m \in T : \A l \in T : m <= l
  <2>1. T \subseteq Nat
    OBVIOUS
  <2> HIDE DEF T
  <2> QED BY <1>1, <2>1, LeastNatural
<1>3. m \in 0..n /\ ~Picks(g[m], m, n)
  BY <1>2
<1>4. Picks(g[0], 0, n)
  BY DEF Picks
<1>5. m \in 1..n /\ m - 1 \in 0..n /\ ~(m <= m - 1)
  BY <1>3, <1>4
<1>6. Picks(g[m - 1], m - 1, n)
  BY <1>2, <1>5
<1>7. Picks(g[m], m, n)
  BY <1>5, <1>6, NextPick
<1> QED BY <1>3, <1>7

(* mmr_select within its limit returns every candidate, each once. *)
LEMMA MmrFacts ==
    ASSUME NEW query, NEW n \in Nat, NEW S, NEW cands \in [1..n -> S], Scored(cands, n),
           NEW limit \in Nat, n <= limit
    PROVE  Lists(mmr_select(query, cands, limit), cands, 1..n)
<1> DEFINE size == IF Len(cands) < limit THEN Len(cands) ELSE limit
           Pick(g) == [k \in 0..size |-> IF k = 0 THEN <<>>
                                         ELSE Append(g[k - 1], MmrWinner(query, cands, g[k - 1]))]
           pick == CHOOSE g : g = Pick(g)
<1>1. /\ size = n /\ size \in Nat /\ DOMAIN cands = 1..size /\ Scored(cands, size)
      /\ cands \in [1..size -> S]
  <2>1. Len(cands) = n /\ DOMAIN cands = 1..n
    BY ListFacts
  <2>2. size = n
    BY <2>1
  <2> HIDE DEF size
  <2> QED BY <2>1, <2>2
<1>2. mmr_select(query, cands, limit) = Whole([k \in 1..size |-> cands[pick[size][k]]])
  BY DEF mmr_select
<1> HIDE DEF size
<1> DEFINE V == Seq(1..size)
           Turn(p) == Append(p, MmrWinner(query, cands, p))
           step == [k \in 1..size |-> [p \in V |-> IF Picks(p, k - 1, size) THEN Turn(p) ELSE <<>>]]
<1>3. step \in [1..size -> [V -> V]]
  <2> SUFFICES ASSUME NEW k \in 1..size, NEW p \in V
               PROVE  (IF Picks(p, k - 1, size) THEN Turn(p) ELSE <<>>) \in V
    OBVIOUS
  <2>1. Picks(p, k - 1, size) => Turn(p) \in V
    BY <1>1, NextPick
  <2>2. <<>> \in V
    OBVIOUS
  <2> HIDE DEF V, Turn
  <2> QED BY <2>1, <2>2
<1>4. PICK f : Follows(f, V, step, <<>>, size)
  <2>1. <<>> \in V
    OBVIOUS
  <2> HIDE DEF V, step
  <2> QED BY <1>1, <1>3, <2>1, Recurrence
<1>5. /\ f \in [0..size -> V] /\ f[0] = <<>>
      /\ \A k \in 1..size : Picks(f[k - 1], k - 1, size) => f[k] = Turn(f[k - 1])
  <2>1. f \in [0..size -> V] /\ f[0] = <<>> /\ \A k \in 1..size : f[k] = step[k][f[k - 1]]
    BY <1>4 DEF Follows
  <2>2. ASSUME NEW k \in 1..size, Picks(f[k - 1], k - 1, size) PROVE f[k] = Turn(f[k - 1])
    <3>1. f[k - 1] \in V
      BY <1>1, <2>1
    <3>2. step[k][f[k - 1]] = Turn(f[k - 1])
      BY <2>2, <3>1
    <3> QED BY <2>1, <3>2
  <2> QED BY <2>1, <2>2
<1>6. \A k \in 0..size : Picks(f[k], k, size)
  BY <1>1, <1>5, AllPicks
<1>7. f = Pick(f)
  <2>1. ASSUME NEW k \in 0..size
        PROVE  f[k] = IF k = 0 THEN <<>> ELSE Append(f[k - 1], MmrWinner(query, cands, f[k - 1]))
    <3>1. CASE k = 0
      BY <1>5, <3>1
    <3>2. CASE k # 0
      <4>1. k \in 1..size /\ k - 1 \in 0..size
        BY <1>1, <3>2
      <4> QED BY <1>5, <1>6, <3>2, <4>1
    <3> QED BY <3>1, <3>2
  <2> QED BY <1>5, <2>1
<1>8. pick = Pick(pick)
  BY <1>7
<1> HIDE DEF pick
<1>9. pick[0] = <<>> /\ \A k \in 1..size : pick[k] = Append(pick[k - 1], MmrWinner(query, cands, pick[k - 1]))
  <2>1. \A k \in 0..size : pick[k] = IF k = 0 THEN <<>>
                                   ELSE Append(pick[k - 1], MmrWinner(query, cands, pick[k - 1]))
    BY <1>8
  <2>2. 0 \in 0..size /\ \A k \in 1..size : k \in 0..size /\ k # 0
    BY <1>1
  <2> QED BY <2>1, <2>2
<1>10. Picks(pick[size], size, size)
  <2>1. \A k \in 0..size : Picks(pick[k], k, size)
    BY <1>1, <1>9, AllPicks
  <2> QED BY <1>1, <2>1
<1> DEFINE o == pick[size]
<1>11. o \in [1..size -> 1..size] /\ \A j, k \in 1..size : o[j] = o[k] => j = k
  BY <1>10 DEF Picks
<1> HIDE DEF o
<1>12. Cardinality(1..size) = size /\ IsFiniteSet(1..size)
  BY <1>1, FS_Interval
<1>13. o \in Surjection(1..size, 1..size)
  <2>1. o \in Injection(1..size, 1..size)
    BY <1>11 DEF Injection, IsInjective
  <2> QED BY <1>12, <2>1, FS_Injection
<1>14. \A i \in 1..size : \E k \in 1..size : o[k] = i
  BY <1>13 DEF Surjection
<1>15. Lists(Whole([k \in 1..size |-> cands[o[k]]]), cands, 1..size)
  <2> DEFINE I == 1..size
  <2>1. /\ I \in SUBSET (DOMAIN cands) /\ size = Cardinality(I) /\ o \in [1..size -> I]
        /\ \A i \in I : \E k \in 1..size : o[k] = i
        /\ \A j, k \in 1..size : o[j] = o[k] => j = k
    BY <1>1, <1>11, <1>12, <1>14
  <2> DEFINE t == [k \in 1..size |-> cands[o[k]]]
  <2>2. t \in [1..size -> S] /\ \A k \in 1..size : t[k] = cands[o[k]]
    BY <1>1, <1>11
  <2>a. size \in Nat
    BY <1>1
  <2> HIDE DEF I, t, step, Turn, Pick, V, size
  <2>3. Lists(Whole(t), cands, I)
    <3>1. Numbers(o, size, I)
      BY <2>a, <2>1 DEF Numbers
    <3>2. Along(t, cands, o, size, S)
      BY <2>2 DEF Along
    <3> QED BY <2>1, <3>1, <3>2, IndexLists
  <2> QED BY <2>3 DEF I, t
<1> QED BY <1>1, <1>2, <1>15 DEF o

-----------------------------------------------------------------------------
(* The search of one scope. *)

Unit == [semantic : 0..100, lexical : 0..100]

(* The skills of a version, with what a prompt knows of each. *)
Searchable(query, skills, n) ==
    /\ DOMAIN skills = 1..n
    /\ Distinct(skills)
    /\ \A i \in 1..n : /\ query.semantic[skills[i].id] \in Int
                       /\ query.subunits[skills[i].id] \in Seq(Unit)
                       /\ skills[i].prior \in Int

InScopeOf(skills, scope) == {i \in DOMAIN skills : seeded_skill_matches_scope(skills[i], scope)}

RelevantOf(query, skills, scope) ==
    {i \in InScopeOf(skills, scope) : Candidate(query, scope, skills[i]).score >= RelevanceFloor}

(* What the search of a scope returns: relevant skills of the scope, each
   once, and all of them unless there are too many in the scope. *)
Ranks(cands, query, skills, scope) ==
    /\ cands \in Seq({Candidate(query, scope, skills[i]) : i \in RelevantOf(query, skills, scope)})
    /\ Distinct(cands)
    /\ Cardinality(InScopeOf(skills, scope)) <= CandidateLimit =>
          \A i \in RelevantOf(query, skills, scope) :
              \E k \in DOMAIN cands : cands[k] = Candidate(query, scope, skills[i])

(* The best of some units, cues or skills. *)
LEMMA TopFacts ==
    ASSUME NEW U, NEW s \in Seq(U), NEW keys \in [DOMAIN s -> Int], NEW limit \in Nat
    PROVE  Truncate(SortedBy(s, keys), limit) \in Seq(U)
<1> DEFINE n == Len(s)
<1>1. n \in Nat /\ DOMAIN s = 1..n /\ \A i \in 1..n : s[i] \in U
  BY LenProperties
<1> HIDE DEF n
<1>2. Lists(SortedBy(s, keys), s, 1..n)
  BY <1>1, SortedFacts
<1>3. Cardinality(1..n) \in Nat /\ SortedBy(s, keys) \in [1..Cardinality(1..n) -> U]
  BY <1>1, <1>2 DEF Lists
<1>4. PICK m \in Nat : Truncate(SortedBy(s, keys), limit) \in [1..m -> U]
  <2>1. LET m == IF Cardinality(1..n) < limit THEN Cardinality(1..n) ELSE limit
        IN  Truncate(SortedBy(s, keys), limit) \in [1..m -> U]
    BY <1>3, TruncateFacts
  <2> QED BY <1>3, <2>1
<1> QED BY <1>4, ListFacts

LEMMA UnitFacts ==
    ASSUME NEW u \in Unit
    PROVE  u.semantic \in Int /\ Relevance(u) \in Int
<1>1. \A x \in 0..100 : x \in Int
  OBVIOUS
<1>2. u.semantic \in 0..100 /\ u.lexical \in 0..100
  BY DEF Unit
<1>3. u.semantic \in Int /\ u.lexical \in Int
  BY <1>1, <1>2
<1> QED BY <1>3 DEF Relevance

(* The candidate of a skill. *)
LEMMA CandidateFacts ==
    ASSUME NEW query, NEW scope, NEW skill, query.semantic[skill.id] \in Int,
           query.subunits[skill.id] \in Seq(Unit), skill.prior \in Int
    PROVE  LET c == Candidate(query, scope, skill)
           IN  /\ c.id = skill.id /\ c.scope = scope.type /\ c.score \in Int /\ c.semantic \in Int
               /\ c.highlights \in Seq(Unit)
               /\ DOMAIN c = {"id", "scope", "score", "semantic", "highlights"}
<1> DEFINE units == query.subunits[skill.id]
           byMeaning == [i \in DOMAIN units |-> units[i].semantic]
           byBoth == [i \in DOMAIN units |-> Relevance(units[i])]
           best == Truncate(SortedBy(units, byMeaning), SubunitLimit)
           e == subunit_evidence(query, skill)
<1>0. SubunitLimit \in Nat
  BY RankingAssumption
<1>1. \A i \in DOMAIN units : units[i] \in Unit
  BY LenProperties, ElementOfSeq
<1>2. byMeaning \in [DOMAIN units -> Int] /\ byBoth \in [DOMAIN units -> Int]
  <2> HIDE DEF units
  <2> QED BY <1>1, UnitFacts
<1>3. units \in Seq(Unit)
  OBVIOUS
<1> HIDE DEF units, byMeaning, byBoth
<1>4. best \in Seq(Unit) /\ Truncate(SortedBy(units, byBoth), SubunitLimit) \in Seq(Unit)
  BY <1>0, <1>2, <1>3, TopFacts
<1>5. e = IF best = <<>> THEN 0 ELSE SumOf([i \in DOMAIN best |-> best[i].semantic]) \div Len(best)
  BY DEF subunit_evidence, units, byMeaning
<1> HIDE DEF best, e
<1>6. e \in Int
  <2>1. CASE best = <<>>
    BY <1>5, <2>1
  <2>2. CASE best # <<>>
    <3> DEFINE m == Len(best)
               parts == [i \in DOMAIN best |-> best[i].semantic]
    <3>1. m \in Nat \ {0} /\ DOMAIN best = 1..m /\ \A i \in 1..m : best[i] \in Unit
      BY <1>4, <2>2, EmptySeq, LenProperties
    <3>2. parts \in [1..m -> Int]
      <4> HIDE DEF m
      <4>1. \A i \in 1..m : best[i].semantic \in Int
        BY <3>1, UnitFacts
      <4> QED BY <3>1, <4>1
    <3> HIDE DEF m, parts
    <3>3. SumOf(parts) \in Int
      BY <3>1, <3>2, SumFacts
    <3>4. SumOf(parts) \div m \in Int
      BY <3>1, <3>3
    <3>5. e = SumOf(parts) \div m
      BY <1>5, <2>2 DEF m, parts
    <3> QED BY <3>4, <3>5
  <2> QED BY <2>1, <2>2
<1> DEFINE c == Candidate(query, scope, skill)
<1>7. /\ c.id = skill.id /\ c.scope = scope.type /\ c.semantic = query.semantic[skill.id]
      /\ c.score = score_eq3(query.semantic[skill.id], e, skill.prior)
      /\ c.highlights = Truncate(SortedBy(units, byBoth), SubunitLimit)
      /\ DOMAIN c = {"id", "scope", "score", "semantic", "highlights"}
  BY DEF Candidate, search_graph, e, units, byBoth
<1> HIDE DEF c
<1>8. c.score \in Int
  <2>1. score_eq3(query.semantic[skill.id], e, skill.prior) \in Int
    <3>1. \A x, y, z \in Int : score_eq3(x, y, z) \in Int
      BY DEF score_eq3, Alpha, Beta, Gamma
    <3> QED BY <1>6, <3>1
  <2> QED BY <1>7, <2>1
<1>9. /\ c.id = skill.id /\ c.scope = scope.type /\ c.score \in Int /\ c.semantic \in Int
      /\ c.highlights \in Seq(Unit)
      /\ DOMAIN c = {"id", "scope", "score", "semantic", "highlights"}
  BY <1>4, <1>7, <1>8
<1> QED BY <1>9 DEF c

LEMMA ScopeSearchFacts ==
    ASSUME NEW query, NEW n \in Nat, NEW skills, Searchable(query, skills, n), NEW scope
    PROVE  Ranks(perform_scope_search(query, skills, scope), query, skills, scope)
<1> DEFINE I == {i \in DOMAIN skills : seeded_skill_matches_scope(skills[i], scope)}
           F(i) == Candidate(query, scope, skills[i])
           G == {i \in I : F(i).score >= RelevanceFloor}
           C == {F(i) : i \in G}
           scoped == Kept(skills, I)
           near == SortedBy(scoped, [i \in DOMAIN scoped |-> query.semantic[scoped[i].id]])
           hits == Truncate(near, CandidateLimit)
           scored == Whole([i \in DOMAIN hits |-> Candidate(query, scope, hits[i])])
           J == {i \in DOMAIN scored : scored[i].score >= RelevanceFloor}
           above == Kept(scored, J)
           ranked == SortedBy(above, [i \in DOMAIN above |-> above[i].score])
           cands == mmr_select(query, ranked, CandidateLimit)
<1>0. CandidateLimit \in Nat /\ DOMAIN skills = 1..n /\ Distinct(skills)
  BY RankingAssumption DEF Searchable
<1>1. perform_scope_search(query, skills, scope) = cands
  BY DEF perform_scope_search, rank_by_cosine
<1>2. ASSUME NEW i \in 1..n
      PROVE  /\ F(i).id = skills[i].id /\ F(i).score \in Int
             /\ query.semantic[skills[i].id] \in Int
  BY CandidateFacts DEF Searchable
(* The skills in the scope, by their cosine. *)
<1> DEFINE S == {skills[i] : i \in I}
<1>3. I \in SUBSET (1..n)
  BY <1>0
<1> HIDE DEF I
<1>4. Lists(scoped, skills, I)
  BY <1>0, <1>3, KeptFacts
<1> DEFINE a == Cardinality(I)
<1>5. /\ a \in Nat /\ scoped \in [1..a -> S] /\ DOMAIN scoped = 1..a
      /\ \A i \in I : \E k \in 1..a : scoped[k] = skills[i]
      /\ Distinct(scoped)
  BY <1>0, <1>4 DEF Lists
<1> HIDE DEF scoped, a
<1>6. Lists(near, scoped, 1..a)
  <2> DEFINE keys == [i \in DOMAIN scoped |-> query.semantic[scoped[i].id]]
  <2>1. ASSUME NEW k \in 1..a PROVE query.semantic[scoped[k].id] \in Int
    <3>1. PICK i \in I : scoped[k] = skills[i]
      BY <1>5
    <3> QED BY <1>2, <1>3, <3>1
  <2>a. keys \in [1..a -> Int]
    BY <1>5, <2>1
  <2> HIDE DEF keys
  <2>2. Lists(SortedBy(scoped, keys), scoped, 1..a)
    BY <1>5, <2>a, SortedFacts
  <2> QED BY <2>2 DEF keys
<1> HIDE DEF near
<1>7. /\ near \in [1..a -> S]
      /\ \A i \in I : \E k \in 1..a : near[k] = skills[i]
      /\ Distinct(near)
  <2>1. Cardinality(1..a) = a
    BY <1>5, FS_Interval
  <2>2. /\ near \in [1..a -> {scoped[i] : i \in 1..a}]
        /\ \A i \in 1..a : \E k \in 1..a : near[k] = scoped[i]
        /\ Distinct(near)
    BY <1>5, <1>6, <2>1 DEF Lists
  <2>3. ASSUME NEW k \in 1..a PROVE near[k] \in S
    <3>1. PICK i \in 1..a : near[k] = scoped[i]
      BY <2>2
    <3> HIDE DEF S
    <3> QED BY <1>5, <3>1
  <2> HIDE DEF S
  <2> QED BY <1>5, <2>2, <2>3
<1> DEFINE b == IF a < CandidateLimit THEN a ELSE CandidateLimit
<1>8. /\ b \in Nat /\ b <= CandidateLimit /\ b <= a /\ (a <= CandidateLimit => b = a)
      /\ hits \in [1..b -> S] /\ \A k \in 1..b : hits[k] = near[k]
      /\ Distinct(hits)
  <2> HIDE DEF S
  <2>1. LET m == IF a < CandidateLimit THEN a ELSE CandidateLimit
        IN  /\ hits \in [1..m -> S]
            /\ \A k \in 1..m : k \in 1..a /\ hits[k] = near[k]
            /\ Distinct(near) => Distinct(hits)
    BY <1>0, <1>5, <1>7, TruncateFacts
  <2> HIDE DEF hits
  <2> QED BY <1>0, <1>5, <1>7, <2>1
<1> HIDE DEF hits, b
(* Their candidates. *)
<1> DEFINE K == {F(i) : i \in I}
<1>9. /\ scored \in [1..b -> K] /\ DOMAIN scored = 1..b
      /\ \A k \in 1..b : scored[k] = Candidate(query, scope, hits[k]) /\ scored[k].id = hits[k].id
                         /\ scored[k].score \in Int
  <2> DEFINE f == [i \in DOMAIN hits |-> Candidate(query, scope, hits[i])]
  <2>1. f \in [1..b -> K]
    BY <1>8
  <2>2. ASSUME NEW k \in 1..b
        PROVE  f[k] = Candidate(query, scope, hits[k]) /\ f[k].id = hits[k].id /\ f[k].score \in Int
    <3>1. PICK i \in I : hits[k] = skills[i]
      BY <1>8
    <3>2. DOMAIN hits = 1..b
      BY <1>8
    <3>3. f[k] = Candidate(query, scope, hits[k])
      BY <3>2
    <3>4. f[k] = F(i) /\ i \in 1..n
      BY <1>3, <3>1, <3>3
    <3> HIDE DEF f
    <3> QED BY <1>2, <3>1, <3>3, <3>4
  <2> HIDE DEF f, K
  <2>3. Whole(f) = f
    BY <1>8, <2>1, ListFacts
  <2>4. scored = f
    BY <2>3 DEF f
  <2> HIDE DEF scored
  <2> QED BY <2>1, <2>2, <2>4
<1> HIDE DEF scored
<1>10. Distinct(scored)
  <2>1. DOMAIN hits = 1..b
    BY <1>8
  <2> QED BY <1>8, <1>9, <2>1 DEF Distinct
<1>11. J \in SUBSET (1..b) /\ \A k \in J : scored[k] \in C
  BY <1>9
<1> DEFINE d == Cardinality(J)
<1>12. d <= CandidateLimit
  <2>1. IsFiniteSet(1..b) /\ Cardinality(1..b) = b
    BY <1>8, FS_Interval
  <2> HIDE DEF J
  <2>2. d <= b /\ IsFiniteSet(J)
    BY <1>11, <2>1, FS_Subset
  <2>3. d \in Nat
    BY <2>2, FS_CardinalityType
  <2> QED BY <1>0, <1>8, <2>2, <2>3
<1>13. Lists(above, scored, J)
  <2> HIDE DEF J
  <2> QED BY <1>8, <1>9, <1>11, KeptFacts
<1> HIDE DEF above
<1>14. /\ d \in Nat /\ above \in [1..d -> C] /\ DOMAIN above = 1..d
       /\ \A k \in J : \E l \in 1..d : above[l] = scored[k]
       /\ Distinct(above)
  <2>1. /\ d \in Nat /\ above \in [1..d -> {scored[i] : i \in J}]
        /\ \A k \in J : \E l \in 1..d : above[l] = scored[k]
        /\ Distinct(above)
    BY <1>10, <1>13 DEF Lists
  <2>2. \A l \in 1..d : above[l] \in C
    <3> HIDE DEF C, J
    <3> QED BY <1>11, <2>1
  <2> HIDE DEF C, d
  <2> QED BY <2>1, <2>2
<1>15. \A c \in C : c.score \in Int
  BY <1>2, <1>3
<1> HIDE DEF d
<1>16. Lists(ranked, above, 1..d)
  <2> DEFINE keys == [i \in DOMAIN above |-> above[i].score]
  <2>1. keys \in [1..d -> Int]
    <3> HIDE DEF C
    <3> QED BY <1>14, <1>15
  <2> HIDE DEF keys
  <2>2. Lists(SortedBy(above, keys), above, 1..d)
    BY <1>14, <2>1, SortedFacts
  <2> QED BY <2>2 DEF keys
<1> HIDE DEF ranked
<1>17. Cardinality(1..d) = d
  BY <1>14, FS_Interval
<1>18. /\ ranked \in [1..d -> C] /\ DOMAIN ranked = 1..d
       /\ \A k \in 1..d : \E l \in 1..d : ranked[l] = above[k]
       /\ Distinct(ranked)
  <2>1. /\ ranked \in [1..d -> {above[i] : i \in 1..d}]
        /\ \A k \in 1..d : \E l \in 1..d : ranked[l] = above[k]
        /\ Distinct(ranked)
    BY <1>14, <1>16, <1>17 DEF Lists
  <2> HIDE DEF C
  <2> QED BY <1>14, <2>1
<1>19. Lists(cands, ranked, 1..d)
  <2> HIDE DEF C
  <2>1. Scored(ranked, d)
    BY <1>15, <1>18 DEF Scored
  <2> QED BY <1>0, <1>12, <1>14, <1>18, <2>1, MmrFacts DEF d
<1> HIDE DEF cands
<1>20. /\ cands \in [1..d -> C] /\ DOMAIN cands = 1..d
       /\ \A k \in 1..d : \E l \in 1..d : cands[l] = ranked[k]
       /\ Distinct(cands)
  <2>1. /\ cands \in [1..d -> {ranked[i] : i \in 1..d}]
        /\ \A k \in 1..d : \E l \in 1..d : cands[l] = ranked[k]
        /\ Distinct(cands)
    BY <1>17, <1>18, <1>19 DEF Lists
  <2> HIDE DEF C
  <2> QED BY <1>18, <2>1
<1>21. cands \in Seq(C)
  <2> HIDE DEF C
  <2> QED BY <1>14, <1>20, ListFacts
<1>22. ASSUME a <= CandidateLimit, NEW i \in G PROVE \E k \in DOMAIN cands : cands[k] = F(i)
  <2>1. PICK k \in 1..a : near[k] = skills[i]
    BY <1>7
  <2>2. k \in 1..b /\ hits[k] = skills[i]
    BY <1>5, <1>8, <1>22, <2>1
  <2>3. scored[k] = F(i) /\ k \in J
    BY <1>9, <2>2
  <2>4. PICK l \in 1..d : above[l] = scored[k]
    BY <1>14, <2>3
  <2>5. PICK p \in 1..d : ranked[p] = above[l]
    BY <1>18
  <2>6. PICK r \in 1..d : cands[r] = ranked[p]
    BY <1>20
  <2> QED BY <1>20, <2>3, <2>4, <2>5, <2>6
<1>23. I = InScopeOf(skills, scope) /\ G = RelevantOf(query, skills, scope)
  BY DEF I, InScopeOf, RelevantOf
<1>24. Ranks(cands, query, skills, scope)
  BY <1>20, <1>21, <1>22, <1>23 DEF Ranks, a
<1> QED BY <1>1, <1>24 DEF cands, ranked, above, scored, hits, near, scoped, I

-----------------------------------------------------------------------------
(* Fusion: one candidate per skill. *)

(* What the fusion reads of a candidate. *)
CandidateOK(c) ==
    /\ DOMAIN c = {"id", "scope", "score", "semantic", "highlights"}
    /\ c.score \in Int /\ c.semantic \in Int /\ c.highlights \in Seq(Unit)

RankingsOK(rankings, r) ==
    /\ r \in Nat /\ DOMAIN rankings = 1..r
    /\ \A k \in 1..r : /\ Len(rankings[k].candidates) \in Nat
                       /\ DOMAIN rankings[k].candidates = 1..Len(rankings[k].candidates)
                       /\ \A n \in DOMAIN rankings[k].candidates : CandidateOK(rankings[k].candidates[n])

LEMMA FinitePlaces ==
    ASSUME NEW n \in Nat, NEW sizes \in [1..n -> Nat], NEW P,
           \A p \in P : \E k \in 1..n : p \in {k} \X (1..sizes[k])
    PROVE  IsFiniteSet(P) /\ P \subseteq Int \X Int
<1> DEFINE row == [k \in 1..n |-> {k} \X (1..sizes[k])]
           Rows == {row[k] : k \in 1..n}
<1>1. IsFiniteSet(Rows)
  <2>1. row \in Surjection(1..n, Rows)
    BY DEF Surjection
  <2>2. IsFiniteSet(1..n)
    BY FS_Interval
  <2> HIDE DEF row, Rows
  <2> QED BY <2>1, <2>2, FS_Surjection
<1>2. ASSUME NEW r \in Rows PROVE IsFiniteSet(r)
  <2>1. PICK k \in 1..n : r = {k} \X (1..sizes[k])
    OBVIOUS
  <2>2. IsFiniteSet({k}) /\ IsFiniteSet(1..sizes[k])
    <3>1. sizes[k] \in Int
      OBVIOUS
    <3>2. IsFiniteSet({k})
      BY FS_Singleton
    <3>3. IsFiniteSet(1..sizes[k])
      BY <3>1, FS_Interval
    <3> QED BY <3>2, <3>3
  <2> QED BY <2>1, <2>2, FS_Product
<1>3. IsFiniteSet(UNION Rows)
  <2> HIDE DEF Rows
  <2> QED BY <1>1, <1>2, FS_UNION
<1>4. P \in SUBSET (UNION Rows)
  OBVIOUS
<1>5. IsFiniteSet(P)
  <2> HIDE DEF Rows
  <2> QED BY <1>3, <1>4, FS_Subset
<1>6. P \subseteq Int \X Int
  OBVIOUS
<1> QED BY <1>5, <1>6

LEMMA PlacesFacts ==
    ASSUME NEW rankings, NEW r, RankingsOK(rankings, r)
    PROVE  /\ IsFiniteSet(Places(rankings)) /\ Places(rankings) \subseteq Int \X Int
           /\ \A o \in Places(rankings) : /\ o[1] \in 1..r /\ o[2] \in DOMAIN rankings[o[1]].candidates
                                          /\ o[2] \in Nat \ {0} /\ o = <<o[1], o[2]>>
                                          /\ CandidateOK(At(rankings, o))
           /\ \A k \in 1..r : \A n \in DOMAIN rankings[k].candidates : <<k, n>> \in Places(rankings)
<1> DEFINE sizes == [k \in 1..r |-> Len(rankings[k].candidates)]
           P == Places(rankings)
<1>1. sizes \in [1..r -> Nat] /\ r \in Nat
  BY DEF RankingsOK
<1>2. ASSUME NEW p \in P PROVE \E k \in 1..r : p \in {k} \X (1..sizes[k])
  BY DEF Places, RankingsOK
<1>3. IsFiniteSet(P) /\ P \subseteq Int \X Int
  <2> HIDE DEF P, sizes
  <2> QED BY <1>1, <1>2, FinitePlaces
<1>4. ASSUME NEW o \in P
      PROVE  /\ o[1] \in 1..r /\ o[2] \in DOMAIN rankings[o[1]].candidates
             /\ o[2] \in Nat \ {0} /\ o = <<o[1], o[2]>> /\ CandidateOK(At(rankings, o))
  <2>1. PICK k \in 1..r : o \in {k} \X DOMAIN rankings[k].candidates
    BY DEF Places, RankingsOK
  <2>2. o = <<o[1], o[2]>> /\ o[1] = k /\ o[2] \in DOMAIN rankings[k].candidates
    BY <2>1
  <2>3. DOMAIN rankings[k].candidates = 1..Len(rankings[k].candidates) /\ Len(rankings[k].candidates) \in Nat
    BY DEF RankingsOK
  <2>4. CandidateOK(rankings[k].candidates[o[2]])
    BY <2>2 DEF RankingsOK
  <2> QED BY <2>2, <2>3, <2>4 DEF At
<1>5. \A k \in 1..r : \A n \in DOMAIN rankings[k].candidates : <<k, n>> \in P
  BY DEF Places, RankingsOK
<1> QED BY <1>3, <1>4, <1>5

(* An order of keys, of which equal ones are told apart by a strict order. *)
LEMMA TieBreak ==
    ASSUME NEW D, NEW W, NEW B, StrictOrder(D, B), NEW before,
           \A x, y \in D : ~(<<x, y>> \in W /\ <<y, x>> \in W),
           \A x, y, z \in D : <<x, z>> \in W => <<x, y>> \in W \/ <<y, z>> \in W,
           \A x, y \in D : <<x, y>> \in before <=>
               <<x, y>> \in W \/ (<<y, x>> \notin W /\ <<x, y>> \in B)
    PROVE  StrictOrder(D, before)
<1>1. \A x \in D : <<x, x>> \notin before
  BY DEF StrictOrder
<1>2. ASSUME NEW x \in D, NEW y \in D, NEW z \in D, <<x, y>> \in before, <<y, z>> \in before
      PROVE  <<x, z>> \in before
  BY <1>2 DEF StrictOrder
<1>3. \A x, y \in D : x = y \/ <<x, y>> \in before \/ <<y, x>> \in before
  BY DEF StrictOrder
<1> QED BY <1>1, <1>2, <1>3 DEF StrictOrder

LEMMA PriorityFacts == \A type : scope_priority(type) \in Int
BY DEF scope_priority

(* The candidate that stands for a skill is one of that skill. *)
LEMMA RepresentativeFacts ==
    ASSUME NEW rankings, NEW r, RankingsOK(rankings, r), NEW id, Occurrences(rankings, id) # {}
    PROVE  \E o \in Occurrences(rankings, id) : Representative(rankings, id) = At(rankings, o)
<1> DEFINE found == Occurrences(rankings, id)
           W == {p \in found \X found : should_replace_representative(At(rankings, p[1]), At(rankings, p[2]))}
           before == {p \in found \X found :
               LET c == At(rankings, p[1])
                   d == At(rankings, p[2])
               IN \/ should_replace_representative(c, d)
                  \/ ~should_replace_representative(d, c) /\ p \in RowByRow(found)}
<1>1. IsFiniteSet(Places(rankings)) /\ found \in SUBSET Places(rankings)
  BY PlacesFacts DEF Occurrences
<1>2. IsFiniteSet(found) /\ found \subseteq Int \X Int
  BY <1>1, PlacesFacts, FS_Subset
<1>3. \A o \in found : At(rankings, o).score \in Int
  BY <1>1, PlacesFacts DEF CandidateOK
<1>4. Representative(rankings, id) = At(rankings, InOrder(found, before)[1])
  BY DEF Representative
<1>5. found # {}
  OBVIOUS
<1> HIDE DEF found
<1>6. StrictOrder(found, RowByRow(found))
  BY <1>2, RowByRowOrder
<1>7. \A x, y \in found : <<x, y>> \in W <=> should_replace_representative(At(rankings, x), At(rankings, y))
  OBVIOUS
<1>8. \A x, y \in found : <<x, y>> \in before <=>
          <<x, y>> \in W \/ (<<y, x>> \notin W /\ <<x, y>> \in RowByRow(found))
  BY <1>7
<1> HIDE DEF W, before
<1>9. ASSUME NEW x \in found, NEW y \in found PROVE ~(<<x, y>> \in W /\ <<y, x>> \in W)
  <2>1. /\ At(rankings, x).score \in Int /\ At(rankings, y).score \in Int
        /\ scope_priority(At(rankings, x).scope) \in Int /\ scope_priority(At(rankings, y).scope) \in Int
    BY <1>3, PriorityFacts
  <2>2. /\ <<x, y>> \in W => should_replace_representative(At(rankings, x), At(rankings, y))
        /\ <<y, x>> \in W => should_replace_representative(At(rankings, y), At(rankings, x))
    BY <1>7
  <2> QED BY <2>1, <2>2 DEF should_replace_representative
<1>10. \A x, y, z \in found : <<x, z>> \in W => <<x, y>> \in W \/ <<y, z>> \in W
  BY <1>3, <1>7, PriorityFacts DEF should_replace_representative
<1>11. StrictOrder(found, before)
  BY <1>6, <1>8, <1>9, <1>10, TieBreak
<1>12. Cardinality(found) \in Nat /\ InOrder(found, before) \in [1..Cardinality(found) -> found]
  BY <1>2, <1>11, InOrderFacts
<1>13. Cardinality(found) # 0
  BY <1>2, <1>5, FS_EmptySet
<1>14. 1 \in 1..Cardinality(found)
  BY <1>12, <1>13
<1>15. InOrder(found, before)[1] \in found
  BY <1>12, <1>14
<1> QED BY <1>4, <1>15 DEF found

LEMMA ContributionFacts ==
    ASSUME NEW type, NEW rank \in Nat
    PROVE  Contribution(type, rank) \in Int
<1>1. scope_weight(type) \in Int /\ RrfK + rank \in Int /\ RrfK + rank > 0
  BY DEF scope_weight, RrfK
<1>2. \A x, y \in Int : y > 0 => (x * 100000) \div y \in Int
  OBVIOUS
<1> QED BY <1>1, <1>2 DEF Contribution

(* The fused candidate of a skill keeps all of its representative but the
   score. *)
(* What one place contributes is the whole score of a skill found only there. *)
LoneScore(rankings, id) ==
    \A o : Occurrences(rankings, id) = {o} =>
        Fused(rankings, id).score = Contribution(rankings[o[1]].type, o[2])

LEMMA FusedFacts ==
    ASSUME NEW rankings, NEW r, RankingsOK(rankings, r), NEW id, Occurrences(rankings, id) # {}
    PROVE  /\ CandidateOK(Fused(rankings, id)) /\ Fused(rankings, id).id = id
           /\ LoneScore(rankings, id)
<1> DEFINE found == Occurrences(rankings, id)
           order == InOrder(found, RowByRow(found))
           parts == [k \in DOMAIN order |-> Contribution(rankings[order[k][1]].type, order[k][2])]
           m == Cardinality(found)
           c == Representative(rankings, id)
<1>1. IsFiniteSet(Places(rankings)) /\ found \in SUBSET Places(rankings)
  BY PlacesFacts DEF Occurrences
<1>2. IsFiniteSet(found) /\ found \subseteq Int \X Int
  BY <1>1, PlacesFacts, FS_Subset
<1>3. c.id = id /\ CandidateOK(c)
  <2>1. PICK o \in found : c = At(rankings, o)
    BY RepresentativeFacts
  <2>2. At(rankings, o).id = id /\ CandidateOK(At(rankings, o))
    BY <1>1, PlacesFacts DEF Occurrences
  <2> QED BY <2>1, <2>2
<1>4. Fused(rankings, id) = [c EXCEPT !.score = SumOf(parts)]
  BY DEF Fused
<1>a. \A o \in found : o[2] \in Nat
  BY <1>1, PlacesFacts
<1>b. found = Occurrences(rankings, id)
  OBVIOUS
<1> HIDE DEF found, c
<1>5. m \in Nat /\ order \in [1..m -> found]
  BY <1>2, RowByRowOrder, InOrderFacts
<1>6. parts \in [1..m -> Int] /\ \A k \in 1..m : parts[k] = Contribution(rankings[order[k][1]].type, order[k][2])
  <2> HIDE DEF order, m
  <2>1. DOMAIN order = 1..m /\ \A k \in 1..m : order[k] \in found
    BY <1>5
  <2>2. ASSUME NEW k \in 1..m PROVE Contribution(rankings[order[k][1]].type, order[k][2]) \in Int
    BY <1>a, <2>1, ContributionFacts
  <2> QED BY <2>1, <2>2
<1> HIDE DEF parts
<1>7. SumOf(parts) \in Int /\ (m = 1 => SumOf(parts) = parts[1])
  BY <1>5, <1>6, SumFacts
<1> DEFINE f == [c EXCEPT !.score = SumOf(parts)]
<1>8. /\ DOMAIN f = DOMAIN c /\ f.score = SumOf(parts) /\ f.id = c.id /\ f.semantic = c.semantic
      /\ f.highlights = c.highlights
  BY <1>3 DEF CandidateOK
<1>9. CandidateOK(f) /\ f.id = id
  <2> HIDE DEF f
  <2> QED BY <1>3, <1>7, <1>8 DEF CandidateOK
<1>10. ASSUME NEW o, found = {o} PROVE f.score = Contribution(rankings[o[1]].type, o[2])
  <2>1. m = 1
    BY <1>10, FS_Singleton
  <2>2. order[1] = o
    BY <1>5, <1>10, <2>1
  <2> HIDE DEF f, m, order
  <2> QED BY <1>6, <1>7, <1>8, <2>1, <2>2
<1> HIDE DEF f
<1>11. Fused(rankings, id) = f
  BY <1>4 DEF f
<1> QED BY <1>9, <1>10, <1>11, <1>b DEF LoneScore

-----------------------------------------------------------------------------
(* Fusion: the ranking. *)

(* What the fusion returns: every skill of the rankings once, the greater
   score first. *)
Fuses(ranked, rankings) ==
    /\ ranked \in Seq({Fused(rankings, At(rankings, o).id) : o \in Places(rankings)})
    /\ Distinct(ranked)
    /\ \A o \in Places(rankings) : \E k \in DOMAIN ranked : ranked[k].id = At(rankings, o).id
    /\ \A j, k \in DOMAIN ranked : ranked[j].score > ranked[k].score => j < k

(* The first place of a skill. *)
LEMMA FirstPlace ==
    ASSUME NEW rankings, NEW r, RankingsOK(rankings, r), NEW o \in Places(rankings)
    PROVE  \E f \in Places(rankings) :
               /\ At(rankings, f).id = At(rankings, o).id
               /\ \A p \in Places(rankings) : <<p, f>> \in RowByRow(Places(rankings)) =>
                     At(rankings, p).id # At(rankings, f).id
<1> DEFINE P == Places(rankings)
           found == Occurrences(rankings, At(rankings, o).id)
           first == InOrder(found, RowByRow(found))
<1>1. IsFiniteSet(P) /\ P \subseteq Int \X Int
  BY PlacesFacts
<1>2. found \in SUBSET P /\ o \in found /\ \A p \in P : p \in found <=> At(rankings, p).id = At(rankings, o).id
  BY DEF Occurrences
<1> HIDE DEF P, found
<1>3. IsFiniteSet(found) /\ found \subseteq Int \X Int
  BY <1>1, <1>2, FS_Subset
<1>4. /\ Cardinality(found) \in Nat /\ first \in [1..Cardinality(found) -> found]
      /\ \A k \in 1..Cardinality(found) : Cardinality({y \in found : <<y, first[k]>> \in RowByRow(found)}) = k - 1
  BY <1>3, RowByRowOrder, InOrderFacts
<1>5. Cardinality(found) # 0
  BY <1>2, <1>3, FS_EmptySet
<1>6. 1 \in 1..Cardinality(found)
  BY <1>4, <1>5
<1> HIDE DEF first
<1> DEFINE f == first[1]
           earlier == {y \in found : <<y, f>> \in RowByRow(found)}
<1>7. f \in found
  BY <1>4, <1>6
<1>8. earlier = {}
  <2>1. Cardinality(earlier) = 0
    BY <1>4, <1>6
  <2>2. earlier \in SUBSET found
    OBVIOUS
  <2> HIDE DEF earlier
  <2>3. IsFiniteSet(earlier)
    BY <1>3, <2>2, FS_Subset
  <2> QED BY <2>1, <2>3, FS_EmptySet
<1>9. ASSUME NEW p \in P, <<p, f>> \in RowByRow(P), At(rankings, p).id = At(rankings, f).id PROVE FALSE
  <2>1. p \in found
    BY <1>2, <1>7, <1>9
  <2>2. <<p, f>> \in RowByRow(found)
    BY <1>7, <1>9, <2>1 DEF RowByRow
  <2> QED BY <1>8, <2>1, <2>2
<1> HIDE DEF f
<1>10. f \in P /\ At(rankings, f).id = At(rankings, o).id
  BY <1>2, <1>7
<1> QED BY <1>9, <1>10 DEF P

LEMMA FusionFacts ==
    ASSUME NEW rankings, NEW r, RankingsOK(rankings, r)
    PROVE  Fuses(weighted_reciprocal_rank_fusion(rankings), rankings)
<1> DEFINE places == Places(rankings)
           firsts == {o \in places : \A p \in places :
                         <<p, o>> \in RowByRow(places) => At(rankings, p).id # At(rankings, o).id}
           found == InOrder(firsts, RowByRow(firsts))
           raw == [k \in DOMAIN found |-> Fused(rankings, At(rankings, found[k]).id)]
           fused == Whole(raw)
           before == {p \in (DOMAIN fused) \X (DOMAIN fused) :
                         \/ fused_candidate_order(fused[p[1]], fused[p[2]])
                         \/ ~fused_candidate_order(fused[p[2]], fused[p[1]]) /\ p[1] < p[2]}
           order == InOrder(DOMAIN fused, before)
           ranked == [k \in DOMAIN order |-> fused[order[k]]]
           F == {Fused(rankings, At(rankings, o).id) : o \in places}
<1>1. weighted_reciprocal_rank_fusion(rankings) = ranked
  BY DEF weighted_reciprocal_rank_fusion
<1>2. IsFiniteSet(places) /\ places \subseteq Int \X Int
  BY PlacesFacts
<1>3. firsts \in SUBSET places
  OBVIOUS
<1>4. IsFiniteSet(firsts) /\ firsts \subseteq Int \X Int
  <2> HIDE DEF firsts, places
  <2> QED BY <1>2, <1>3, FS_Subset
<1>5. ASSUME NEW o \in places
      PROVE  CandidateOK(Fused(rankings, At(rankings, o).id)) /\ Fused(rankings, At(rankings, o).id).id = At(rankings, o).id
  <2>1. o \in Occurrences(rankings, At(rankings, o).id)
    BY DEF Occurrences
  <2>2. Occurrences(rankings, At(rankings, o).id) # {}
    BY <2>1
  <2> QED BY <2>2, FusedFacts
<1>6. ASSUME NEW o \in places PROVE \E f \in firsts : At(rankings, f).id = At(rankings, o).id
  BY FirstPlace
<1>7. ASSUME NEW o \in firsts, NEW p \in firsts, At(rankings, o).id = At(rankings, p).id PROVE o = p
  <2>1. <<o, p>> \notin RowByRow(places) /\ <<p, o>> \notin RowByRow(places)
    BY <1>7
  <2>2. StrictOrder(places, RowByRow(places))
    BY <1>2, RowByRowOrder
  <2> QED BY <2>1, <2>2, <1>3 DEF StrictOrder
<1> HIDE DEF firsts, places
<1> DEFINE m == Cardinality(firsts)
<1>8. /\ m \in Nat /\ found \in [1..m -> firsts] /\ DOMAIN found = 1..m
      /\ \A x \in firsts : \E k \in 1..m : found[k] = x
      /\ \A j, k \in 1..m : found[j] = found[k] => j = k
  BY <1>4, RowByRowOrder, InOrderFacts
<1> HIDE DEF m, found
<1>9. /\ raw \in [1..m -> F]
      /\ \A k \in 1..m : raw[k] = Fused(rankings, At(rankings, found[k]).id)
  BY <1>3, <1>8
<1>10. raw = fused /\ fused \in [1..m -> F] /\ DOMAIN fused = 1..m
  <2> HIDE DEF raw, F
  <2> QED BY <1>8, <1>9, ListFacts
<1> HIDE DEF raw, fused
<1>11. \A k \in 1..m : fused[k].id = At(rankings, found[k]).id /\ CandidateOK(fused[k])
  BY <1>3, <1>5, <1>8, <1>9, <1>10
<1>12. Distinct(fused)
  BY <1>7, <1>8, <1>10, <1>11 DEF Distinct
<1> DEFINE B == {p \in (1..m) \X (1..m) : p[1] < p[2]}
           W == {p \in (1..m) \X (1..m) : fused_candidate_order(fused[p[1]], fused[p[2]])}
<1>13. \A x, y \in 1..m : <<x, y>> \in W <=> fused_candidate_order(fused[x], fused[y])
  OBVIOUS
<1>14. \A x, y \in 1..m : <<x, y>> \in before <=> <<x, y>> \in W \/ (<<y, x>> \notin W /\ <<x, y>> \in B)
  BY <1>10
<1>15. StrictOrder(1..m, B)
  <2> DEFINE I == 1..m
  <2>1. B = {p \in I \X I : p[1] < p[2]} /\ I \subseteq Int
    OBVIOUS
  <2> HIDE DEF I
  <2>2. StrictOrder(I, {p \in I \X I : p[1] < p[2]})
    BY <2>1, PositionsOrder
  <2> QED BY <2>1, <2>2 DEF I
<1> HIDE DEF W, B, before
<1>16. \A x \in 1..m : fused[x].score \in Int /\ fused[x].semantic \in Int /\ scope_priority(fused[x].scope) \in Int
  BY <1>11, PriorityFacts DEF CandidateOK
<1>17. ASSUME NEW x \in 1..m, NEW y \in 1..m PROVE ~(<<x, y>> \in W /\ <<y, x>> \in W)
  BY <1>13, <1>16 DEF fused_candidate_order
<1>18. ASSUME NEW x \in 1..m, NEW y \in 1..m, NEW z \in 1..m, <<x, z>> \in W
       PROVE  <<x, y>> \in W \/ <<y, z>> \in W
  BY <1>13, <1>16, <1>18 DEF fused_candidate_order
<1>19. StrictOrder(1..m, before)
  BY <1>14, <1>15, <1>17, <1>18, TieBreak
<1>20. IsFiniteSet(1..m) /\ Cardinality(1..m) = m
  BY <1>8, FS_Interval
<1>21. /\ order \in [1..m -> 1..m] /\ DOMAIN order = 1..m
       /\ \A x \in 1..m : \E k \in 1..m : order[k] = x
       /\ \A j, k \in 1..m : order[j] = order[k] => j = k
       /\ \A k \in 1..m : Cardinality({y \in 1..m : <<y, order[k]>> \in before}) = k - 1
  <2> DEFINE D == 1..m
  <2>1. order = InOrder(D, before) /\ IsFiniteSet(D) /\ StrictOrder(D, before) /\ Cardinality(D) = m
    BY <1>10, <1>19, <1>20
  <2>2. D = 1..m
    OBVIOUS
  <2> HIDE DEF D, order
  <2>3. /\ order \in [1..Cardinality(D) -> D] /\ DOMAIN order = 1..Cardinality(D)
        /\ \A x \in D : \E k \in 1..Cardinality(D) : order[k] = x
        /\ \A j, k \in 1..Cardinality(D) : order[j] = order[k] => j = k
        /\ \A k \in 1..Cardinality(D) : Cardinality({y \in D : <<y, order[k]>> \in before}) = k - 1
    BY <2>1, InOrderFacts
  <2> QED BY <2>1, <2>2, <2>3
<1> HIDE DEF order
<1>22. ranked \in [1..m -> F] /\ DOMAIN ranked = 1..m /\ \A k \in 1..m : ranked[k] = fused[order[k]]
  <2> HIDE DEF F
  <2> QED BY <1>10, <1>21
<1> HIDE DEF ranked
<1>23. ranked \in Seq(F)
  <2> HIDE DEF F
  <2> QED BY <1>8, <1>22, ListFacts
<1>24. Distinct(ranked)
  <2> SUFFICES ASSUME NEW j \in 1..m, NEW k \in 1..m, ranked[j].id = ranked[k].id PROVE j = k
    BY <1>22 DEF Distinct
  <2>1. order[j] \in 1..m /\ order[k] \in 1..m /\ fused[order[j]].id = fused[order[k]].id
    BY <1>21, <1>22
  <2>2. order[j] = order[k]
    BY <1>10, <1>12, <2>1 DEF Distinct
  <2> QED BY <1>21, <2>2
<1>25. ASSUME NEW o \in places PROVE \E k \in DOMAIN ranked : ranked[k].id = At(rankings, o).id
  <2>1. PICK f \in firsts : At(rankings, f).id = At(rankings, o).id
    BY <1>6
  <2>2. PICK j \in 1..m : found[j] = f
    BY <1>8
  <2>3. PICK k \in 1..m : order[k] = j
    BY <1>21
  <2> QED BY <1>11, <1>22, <2>1, <2>2, <2>3
<1>26. ASSUME NEW j \in 1..m, NEW k \in 1..m, ranked[j].score > ranked[k].score PROVE j < k
  <2>1. order[j] \in 1..m /\ order[k] \in 1..m
    BY <1>21
  <2>2. <<order[j], order[k]>> \in before
    BY <1>13, <1>14, <1>22, <1>26, <2>1 DEF fused_candidate_order
  <2>3. Cardinality({z \in 1..m : <<z, order[j]>> \in before}) < Cardinality({z \in 1..m : <<z, order[k]>> \in before})
    BY <1>19, <1>20, <2>1, <2>2, CountsDiffer
  <2>4. Cardinality({z \in 1..m : <<z, order[j]>> \in before}) = j - 1
    BY <1>21
  <2>5. Cardinality({z \in 1..m : <<z, order[k]>> \in before}) = k - 1
    BY <1>21
  <2>6. j - 1 < k - 1
    BY <2>3, <2>4, <2>5
  <2> QED BY <1>8, <2>6
<1>27. Fuses(ranked, rankings)
  BY <1>22, <1>23, <1>24, <1>25, <1>26 DEF Fuses, places
<1> QED BY <1>1, <1>27 DEF ranked, order, before, fused, raw, found, firsts, places

-----------------------------------------------------------------------------
(* The compiler. *)

(* The skills of a ranking, and those among the results. *)
IdsOf(s) == {s[k].id : k \in DOMAIN s}

LEMMA SelectedFacts ==
    ASSUME NEW S, NEW ranked \in Seq(S)
    PROVE  /\ Selected(ranked) \in Seq(S)
           /\ \A k \in DOMAIN Selected(ranked) : k \in DOMAIN ranked /\ k <= MaxResults /\ Selected(ranked)[k] = ranked[k]
           /\ \A k \in DOMAIN ranked : k <= MaxResults => k \in DOMAIN Selected(ranked)
           /\ ranked # <<>> /\ MaxResults # 0 => Selected(ranked) # <<>>
           /\ Distinct(ranked) => Distinct(Selected(ranked))
<1> DEFINE n == Len(ranked)
           m == IF n < MaxResults THEN n ELSE MaxResults
           t == Truncate(ranked, MaxResults)
<1>0. MaxResults \in Nat
  BY RankingAssumption
<1>1. n \in Nat /\ ranked \in [1..n -> S] /\ DOMAIN ranked = 1..n
  BY LenProperties
<1>2. /\ t \in [1..m -> S] /\ \A k \in 1..m : k \in 1..n /\ t[k] = ranked[k]
      /\ Distinct(ranked) => Distinct(t)
  <2> HIDE DEF n
  <2>1. LET b == IF n < MaxResults THEN n ELSE MaxResults
        IN  /\ Truncate(ranked, MaxResults) \in [1..b -> S]
            /\ \A k \in 1..b : k \in 1..n /\ Truncate(ranked, MaxResults)[k] = ranked[k]
            /\ Distinct(ranked) => Distinct(Truncate(ranked, MaxResults))
    BY <1>0, <1>1, TruncateFacts
  <2> QED BY <2>1
<1>3. m \in Nat /\ (n # 0 /\ MaxResults # 0 => m # 0) /\ m <= MaxResults /\ \A k \in 1..n : k <= MaxResults => k \in 1..m
  BY <1>0, <1>1
<1> HIDE DEF n, m, t
<1>4. t \in Seq(S) /\ DOMAIN t = 1..m /\ Len(t) = m
  BY <1>2, <1>3, ListFacts
<1>5. ranked # <<>> => n # 0
  BY <1>1, EmptySeq DEF n
<1>6. n # 0 /\ MaxResults # 0 => t # <<>>
  BY <1>3, <1>4
<1>7. \A k \in 1..m : k <= MaxResults
  BY <1>0, <1>3
<1> QED BY <1>1, <1>2, <1>3, <1>4, <1>5, <1>6, <1>7 DEF Selected, t

(* Cues of some skills. *)
Cues(ids) == [source : ids, cue : Unit]

LEMMA KeptCues ==
    ASSUME NEW U, NEW s \in Seq(U), NEW I \in SUBSET (DOMAIN s)
    PROVE  Kept(s, I) \in Seq(U)
<1> DEFINE n == Len(s)
           m == Cardinality(I)
<1>1. n \in Nat /\ DOMAIN s = 1..n /\ \A i \in DOMAIN s : s[i] \in U
  BY LenProperties
<1>2. Lists(Kept(s, I), s, I)
  <2> HIDE DEF n
  <2> QED BY <1>1, KeptFacts
<1>3. m \in Nat /\ Kept(s, I) \in [1..m -> {s[i] : i \in I}]
  BY <1>2 DEF Lists
<1> HIDE DEF m
<1>4. {s[i] : i \in I} \subseteq U
  BY <1>1
<1>5. Kept(s, I) \in [1..m -> U]
  BY <1>3, <1>4
<1> QED BY <1>3, <1>5, ListFacts

(* The pool holds cues of the skills that are not among the results. *)
LEMMA PoolFacts ==
    ASSUME NEW S, NEW ranked \in Seq(S), \A c \in S : CandidateOK(c)
    PROVE  RescuePool(ranked) \in Seq(Cues(IdsOf(ranked) \ IdsOf(Selected(ranked))))
<1> DEFINE n == Len(ranked)
           ids == IdsOf(ranked) \ IdsOf(Selected(ranked))
           shown == {Selected(ranked)[k].id : k \in DOMAIN Selected(ranked)}
           places == {o \in UNION {{k} \X DOMAIN ranked[k].highlights : k \in DOMAIN ranked} :
                      /\ ranked[o[1]].id \notin shown
                      /\ Relevance(ranked[o[1]].highlights[o[2]]) >= RescueThreshold}
           order  == InOrder(places, RowByRow(places))
           raw == [k \in DOMAIN order |-> [source |-> ranked[order[k][1]].id,
                                      cue |-> ranked[order[k][1]].highlights[order[k][2]]]]
           sizes == [k \in 1..n |-> Len(ranked[k].highlights)]
<1>1. n \in Nat /\ DOMAIN ranked = 1..n /\ \A k \in 1..n : CandidateOK(ranked[k])
  BY LenProperties
<1>2. \A k \in 1..n : ranked[k].highlights \in Seq(Unit)
  BY <1>1 DEF CandidateOK
<1>3. \A k \in 1..n : Len(ranked[k].highlights) \in Nat /\ DOMAIN ranked[k].highlights = 1..Len(ranked[k].highlights)
  BY <1>2, LenProperties
<1>4. \A o \in places : /\ o[1] \in 1..n /\ o[2] \in DOMAIN ranked[o[1]].highlights
                        /\ ranked[o[1]].id \notin shown
                        /\ \E k \in 1..n : o \in {k} \X (1..sizes[k])
  <2> SUFFICES ASSUME NEW o \in places
               PROVE  /\ o[1] \in 1..n /\ o[2] \in DOMAIN ranked[o[1]].highlights
                      /\ ranked[o[1]].id \notin shown
                      /\ \E k \in 1..n : o \in {k} \X (1..sizes[k])
    OBVIOUS
  <2>1. PICK k \in DOMAIN ranked : o \in {k} \X DOMAIN ranked[k].highlights
    OBVIOUS
  <2>2. k \in 1..n /\ o[1] = k /\ o[2] \in DOMAIN ranked[k].highlights
    BY <1>1, <2>1
  <2>3. ranked[o[1]].id \notin shown
    OBVIOUS
  <2>4. o \in {k} \X (1..sizes[k])
    BY <1>3, <2>1, <2>2
  <2> HIDE DEF places, shown
  <2> QED BY <2>2, <2>3, <2>4
<1>5. sizes \in [1..n -> Nat]
  BY <1>3
<1> HIDE DEF places, sizes
<1>6. IsFiniteSet(places) /\ places \subseteq Int \X Int
  <2> HIDE DEF n
  <2> QED BY <1>1, <1>4, <1>5, FinitePlaces
<1> DEFINE m == Cardinality(places)
<1>7. m \in Nat /\ order \in [1..m -> places] /\ DOMAIN order = 1..m
  BY <1>6, RowByRowOrder, InOrderFacts
<1> HIDE DEF m, order
<1>8. ASSUME NEW k \in 1..m PROVE raw[k] \in Cues(ids)
  <2>1. order[k] \in places
    BY <1>7
  <2>2. order[k][1] \in 1..n /\ order[k][2] \in DOMAIN ranked[order[k][1]].highlights
    BY <1>4, <2>1
  <2>3. ranked[order[k][1]].id \in ids
    BY <1>1, <1>4, <2>1, <2>2 DEF IdsOf
  <2>4. ranked[order[k][1]].highlights[order[k][2]] \in Unit
    BY <1>2, <2>2
  <2>5. raw[k] = [source |-> ranked[order[k][1]].id, cue |-> ranked[order[k][1]].highlights[order[k][2]]]
    BY <1>7
  <2> HIDE DEF ids, raw
  <2> QED BY <2>3, <2>4, <2>5 DEF Cues
<1>9. DOMAIN raw = 1..m /\ raw = [k \in DOMAIN raw |-> raw[k]]
  BY <1>7
<1> HIDE DEF raw, ids
<1>10. raw \in [1..m -> Cues(ids)]
  BY <1>8, <1>9
<1>11. Whole(raw) \in Seq(Cues(ids))
  BY <1>7, <1>10, ListFacts
<1> QED BY <1>11 DEF RescuePool, raw, order, places, ids, shown

LEMMA CueFacts ==
    ASSUME NEW query, NEW id, NEW cue, query.shared[<<id, cue.source>>] \in Int, cue.cue \in Unit
    PROVE  CueScore(query, id, cue) \in Int
<1>1. Relevance(cue.cue) \in Int
  BY UnitFacts
<1> QED BY <1>1 DEF CueScore

(* A compiled context quotes only skills of the ranking that it has no
   section for. *)
LEMMA CompileFacts ==
    ASSUME NEW S, NEW ranked \in Seq(S), \A c \in S : CandidateOK(c), NEW query,
           \A a, b \in IdsOf(ranked) : query.shared[<<a, b>>] \in Int
    PROVE  \A k \in DOMAIN compile_markdown(query, ranked) :
           \A n \in DOMAIN compile_markdown(query, ranked)[k].cues :
               compile_markdown(query, ranked)[k].cues[n].source \in IdsOf(ranked) \ IdsOf(Selected(ranked))
<1> DEFINE skills == Selected(ranked)
           ids == IdsOf(ranked) \ IdsOf(skills)
           pool == RescuePool(ranked)
           R == Cues(ids)
<1>1. pool \in Seq(R)
  BY PoolFacts
<1>2. \A k \in DOMAIN skills : skills[k].id \in IdsOf(ranked)
  BY SelectedFacts DEF IdsOf
<1>3. compile_markdown(query, ranked) = attach_rescue_cues(query, skills, pool)
  BY DEF compile_markdown
<1> SUFFICES ASSUME NEW k \in DOMAIN skills
             PROVE  \A n \in DOMAIN attach_rescue_cues(query, skills, pool)[k].cues :
                      attach_rescue_cues(query, skills, pool)[k].cues[n].source \in ids
  BY <1>3 DEF attach_rescue_cues
<1> DEFINE id == skills[k].id
           fits == {n \in DOMAIN pool : pool[n].source # id /\ CueScore(query, id, pool[n]) > 0}
           fit == Kept(pool, fits)
           keys == [n \in DOMAIN fit |-> CueScore(query, id, fit[n])]
           cues == Truncate(SortedBy(fit, keys), MaxRescuePerSkill)
<1>4. attach_rescue_cues(query, skills, pool)[k].cues = cues
  BY DEF attach_rescue_cues
<1>5. fits \in SUBSET (DOMAIN pool)
  OBVIOUS
<1>6. id \in IdsOf(ranked)
  BY <1>2
<1> HIDE DEF fits, R, pool, skills
<1>7. fit \in Seq(R)
  BY <1>1, <1>5, KeptCues
<1> HIDE DEF fit
<1>8. \A n \in DOMAIN fit : fit[n] \in R
  BY <1>7
<1>9. \A n \in DOMAIN fit : CueScore(query, id, fit[n]) \in Int
  <2> SUFFICES ASSUME NEW n \in DOMAIN fit PROVE CueScore(query, id, fit[n]) \in Int
    OBVIOUS
  <2>1. fit[n].source \in IdsOf(ranked) /\ fit[n].cue \in Unit
    BY <1>8 DEF R, Cues
  <2>2. query.shared[<<id, fit[n].source>>] \in Int
    BY <1>6, <2>1
  <2> HIDE DEF id
  <2> QED BY <2>1, <2>2, CueFacts
<1>10. keys \in [DOMAIN fit -> Int]
  BY <1>9
<1>11. MaxRescuePerSkill \in Nat
  BY DEF MaxRescuePerSkill
<1> HIDE DEF keys
<1>12. cues \in Seq(R)
  BY <1>7, <1>10, <1>11, TopFacts
<1> HIDE DEF cues
<1>13. \A n \in DOMAIN cues : cues[n] \in R
  BY <1>12
<1>14. \A n \in DOMAIN cues : cues[n].source \in ids
  BY <1>13 DEF R, Cues
<1> QED BY <1>4, <1>14

-----------------------------------------------------------------------------
(* The inductive invariant of the answers and of the rebuilds. *)

(* The two scopes a request may search. *)
ProjectScope(r) == Descriptor("project", {Home(r)})
GlobalScope == Descriptor("global", GlobalPaths)

ScopesOK(r) ==
    /\ \/ r.res.scopes = <<ProjectScope(r)>>
       \/ r.res.scopes = <<GlobalScope>> /\ GlobalPaths # {}
       \/ r.res.scopes = <<ProjectScope(r), GlobalScope>> /\ GlobalPaths # {}
    /\ r.res.degraded = {} => r.res.scopes = <<ProjectScope(r), GlobalScope>>

(* What a request is about stays what it was when it arrived, and the version
   it loaded exists. *)
LoadedOK(r) ==
    /\ r.snapshot.version \in Versions
    /\ r.prompt \in Queries \cup {Blank}
    /\ r.stage \in {"embed", "search"} => r.prompt \in Queries
    /\ r.limit \in Limits \cup {Nil}
    /\ ScopesOK(r)

(* The properties of the answers, of one answer. *)
IsolatedAnswer(r) ==
    \A id \in {Shown(r)[k] : k \in DOMAIN Shown(r)} \cup Quoted(r) :
    \E row \in RowsOf(r) :
        /\ row.id = id
        /\ \/ row.scope = "project" /\ row.paths \subseteq {Home(r)}
              /\ (row.paths = {} => Fallback("project") = {Home(r)})
           \/ row.scope = "global" /\ row.paths \subseteq GlobalPaths

ExplainedAnswer(r) ==
    Status(r) = "no_match" =>
        \/ AskedForNone(r)
        \/ \A i \in DOMAIN r.res.scopes :
              \/ Cardinality(InScope(r, r.res.scopes[i])) > CandidateLimit
              \/ RelevantIn(r, r.res.scopes[i]) = {}

NothingTwice(r) ==
    /\ Cardinality({r.skills[k] : k \in DOMAIN r.skills}) = Len(r.skills)
    /\ Quoted(r) \cap {r.skills[k] : k \in DOMAIN r.skills} = {}

ProjectKnowledgeFirst(r) ==
    (r.trouble = {} /\ \E row \in RowsOf(r) :
        row.scope = "global" /\ row.id \in {r.skills[k] : k \in DOMAIN r.skills})
    => \/ Cardinality(InScope(r, r.res.scopes[1])) > CandidateLimit
       \/ RelevantIn(r, r.res.scopes[1]) \subseteq {r.skills[k] : k \in DOMAIN r.skills}

AnswerOK(r) ==
    /\ IsolatedAnswer(r)
    /\ ExplainedAnswer(r)
    /\ NothingTwice(r)
    /\ MaxResults <= 27 => ProjectKnowledgeFirst(r)

AnswersInv ==
    \A c \in Calls : /\ req[c].stage \in Working => LoadedOK(req[c])
                     /\ req[c].stage = "answer" => AnswerOK(req[c])

(* Every job that succeeded has committed a version, and no job more than
   one - a job that failed may have: the answer to its commit was lost.  A
   queued job is queued once. *)
RebuildInv ==
    /\ job \in [Jobs -> {"none", "queued", "running", "succeeded", "failed"}]
    /\ durable \in Nat
    /\ Cardinality({j \in Jobs : job[j] = "succeeded"}) <= durable
    /\ durable <= Cardinality({j \in Jobs : job[j] \in {"succeeded", "failed"}})
    /\ queue \in Seq(Jobs)
    /\ \A k \in DOMAIN queue : job[queue[k]] = "queued"
    /\ \A k, m \in DOMAIN queue : queue[k] = queue[m] => k = m
    /\ served.version \in 0..durable

-----------------------------------------------------------------------------
(* The rebuild queue. *)

LEMMA JobsFacts ==
    /\ IsFiniteSet(Jobs) /\ Cardinality(Jobs) = MaxRebuilds /\ MaxRebuilds \in Nat
    /\ \A S \in SUBSET Jobs : IsFiniteSet(S) /\ Cardinality(S) \in Versions
<1>1. MaxRebuilds \in Nat
  BY RequestsAssumption
<1>2. IsFiniteSet(Jobs) /\ Cardinality(Jobs) = MaxRebuilds
  BY <1>1, FS_Interval DEF Jobs
<1>3. ASSUME NEW S \in SUBSET Jobs PROVE IsFiniteSet(S) /\ Cardinality(S) \in Versions
  <2>1. IsFiniteSet(S) /\ Cardinality(S) <= Cardinality(Jobs)
    BY <1>2, FS_Subset
  <2>2. Cardinality(S) \in Nat
    BY <2>1, FS_CardinalityType
  <2> QED BY <1>1, <1>2, <2>1, <2>2 DEF Versions
<1> QED BY <1>1, <1>2, <1>3

LEMMA DurableVersion ==
    ASSUME RebuildInv
    PROVE  durable \in Versions /\ durable \in Nat /\ served.version \in Versions
<1> DEFINE E == {j \in Jobs : job[j] \in {"succeeded", "failed"}}
<1>1. E \in SUBSET Jobs
  OBVIOUS
<1>2. durable \in Nat /\ durable <= Cardinality(E) /\ served.version \in 0..durable
  BY DEF RebuildInv
<1> HIDE DEF E
<1>3. Cardinality(E) \in 0..MaxRebuilds /\ MaxRebuilds \in Nat
  BY <1>1, JobsFacts DEF Versions
<1> QED BY <1>2, <1>3 DEF Versions

LEMMA InitRebuild == Init => RebuildInv
<1> SUFFICES ASSUME Init PROVE RebuildInv
  OBVIOUS
<1>1. /\ {j \in Jobs : job[j] = "succeeded"} = {}
      /\ {j \in Jobs : job[j] \in {"succeeded", "failed"}} = {}
  BY DEF Init
<1>2. /\ Cardinality({j \in Jobs : job[j] = "succeeded"}) = 0
      /\ Cardinality({j \in Jobs : job[j] \in {"succeeded", "failed"}}) = 0
  BY <1>1, FS_EmptySet
<1> QED BY <1>2 DEF Init, RebuildInv

(* A job other than the queued ones moves on without success. *)
LEMMA EnqueueStep ==
    ASSUME RebuildInv, NEW j \in Jobs, enqueue_rebuild(j)
    PROVE  RebuildInv'
<1>1. /\ job[j] = "none" /\ job' = [job EXCEPT ![j] = "queued"] /\ queue' = Append(queue, j)
      /\ UNCHANGED <<durable, served>>
  BY DEF enqueue_rebuild
<1>2. job \in [Jobs -> {"none", "queued", "running", "succeeded", "failed"}] /\ queue \in Seq(Jobs)
  BY DEF RebuildInv
<1>3. job' \in [Jobs -> {"none", "queued", "running", "succeeded", "failed"}]
  BY <1>1, <1>2
<1>4. /\ {i \in Jobs : job'[i] = "succeeded"} = {i \in Jobs : job[i] = "succeeded"}
      /\ {i \in Jobs : job'[i] \in {"succeeded", "failed"}} = {i \in Jobs : job[i] \in {"succeeded", "failed"}}
  BY <1>1, <1>2
<1>5. /\ queue' \in Seq(Jobs) /\ Len(queue) \in Nat
      /\ DOMAIN queue = 1..Len(queue) /\ DOMAIN queue' = 1..(Len(queue) + 1)
      /\ \A k \in DOMAIN queue : queue'[k] = queue[k]
      /\ queue'[Len(queue) + 1] = j
  BY <1>1, <1>2, AppendProperties
<1>6. \A k \in DOMAIN queue : queue[k] # j
  BY <1>1 DEF RebuildInv
<1>7. \A k \in DOMAIN queue' : job'[queue'[k]] = "queued"
  <2> SUFFICES ASSUME NEW k \in DOMAIN queue' PROVE job'[queue'[k]] = "queued"
    OBVIOUS
  <2>1. CASE k \in DOMAIN queue
    <3>1. queue[k] \in Jobs /\ job[queue[k]] = "queued"
      BY <1>2, <2>1 DEF RebuildInv
    <3> QED BY <1>1, <1>2, <1>5, <1>6, <2>1, <3>1
  <2>2. CASE k = Len(queue) + 1
    BY <1>1, <1>2, <1>5, <2>2
  <2> QED BY <1>5, <2>1, <2>2
<1>8. \A k, m \in DOMAIN queue' : queue'[k] = queue'[m] => k = m
  <2> SUFFICES ASSUME NEW k \in DOMAIN queue', NEW m \in DOMAIN queue', queue'[k] = queue'[m]
               PROVE  k = m
    OBVIOUS
  <2>1. CASE k \in DOMAIN queue /\ m \in DOMAIN queue
    BY <1>5, <2>1 DEF RebuildInv
  <2>2. CASE k \notin DOMAIN queue \/ m \notin DOMAIN queue
    BY <1>5, <1>6, <2>2
  <2> QED BY <2>1, <2>2
<1> QED BY <1>1, <1>3, <1>4, <1>5, <1>7, <1>8 DEF RebuildInv

LEMMA PollStep ==
    ASSUME RebuildInv, Poll
    PROVE  RebuildInv'
<1>1. CASE queue = <<>>
  BY <1>1 DEF Poll, RebuildInv
<1>2. CASE queue # <<>>
  <2>1. queue' = Tail(queue) /\ job' = [job EXCEPT ![Head(queue)] = "running"] /\ UNCHANGED <<durable, served>>
    BY <1>2 DEF Poll
  <2>2. job \in [Jobs -> {"none", "queued", "running", "succeeded", "failed"}] /\ queue \in Seq(Jobs)
    BY DEF RebuildInv
  <2>3. /\ Len(queue) \in Nat /\ DOMAIN queue = 1..Len(queue) /\ Len(queue) # 0
        /\ Head(queue) = queue[1] /\ queue[1] \in Jobs
    <3> DEFINE J == Jobs
    <3>1. queue \in Seq(J)
      BY <2>2
    <3> HIDE DEF J
    <3>2. Len(queue) \in Nat /\ DOMAIN queue = 1..Len(queue)
      BY <3>1, LenProperties
    <3>3. Len(queue) # 0
      BY <1>2, <3>1, EmptySeq
    <3>4. Head(queue) \in J
      BY <1>2, <3>1, HeadTailProperties
    <3>5. Head(queue) = queue[1]
      BY <3>1, <3>2, <3>3
    <3> QED BY <3>2, <3>3, <3>4, <3>5 DEF J
  <2>4. /\ queue' \in Seq(Jobs) /\ DOMAIN queue' = 1..(Len(queue) - 1)
        /\ \A k \in 1..(Len(queue) - 1) : queue'[k] = queue[k + 1]
    BY <1>2, <2>1, <2>2, <2>3, HeadTailProperties
  <2>5. 1 \in DOMAIN queue /\ job[queue[1]] = "queued"
    BY <2>3 DEF RebuildInv
  <2>6. /\ job' \in [Jobs -> {"none", "queued", "running", "succeeded", "failed"}]
        /\ \A i \in Jobs \ {queue[1]} : job'[i] = job[i]
        /\ job'[queue[1]] = "running"
    BY <2>1, <2>2, <2>3
  <2>7. /\ {i \in Jobs : job'[i] = "succeeded"} = {i \in Jobs : job[i] = "succeeded"}
        /\ {i \in Jobs : job'[i] \in {"succeeded", "failed"}} = {i \in Jobs : job[i] \in {"succeeded", "failed"}}
    BY <2>5, <2>6
  <2>8. ASSUME NEW k \in DOMAIN queue'
        PROVE  k + 1 \in DOMAIN queue /\ queue'[k] = queue[k + 1] /\ queue[k + 1] # queue[1] /\ queue[k + 1] \in Jobs
    <3>1. k + 1 \in DOMAIN queue /\ queue'[k] = queue[k + 1] /\ k + 1 # 1
      BY <2>3, <2>4, <2>8
    <3>2. queue[k + 1] # queue[1]
      BY <2>5, <3>1 DEF RebuildInv
    <3> QED BY <2>2, <3>1, <3>2
  <2>9. \A k \in DOMAIN queue' : job'[queue'[k]] = "queued"
    BY <2>6, <2>8 DEF RebuildInv
  <2>10. \A k, m \in DOMAIN queue' : queue'[k] = queue'[m] => k = m
    <3> SUFFICES ASSUME NEW k \in DOMAIN queue', NEW m \in DOMAIN queue', queue'[k] = queue'[m]
                 PROVE  k = m
      OBVIOUS
    <3>1. k + 1 = m + 1
      BY <2>8 DEF RebuildInv
    <3> QED BY <2>3, <2>4, <3>1
  <2> QED BY <2>1, <2>4, <2>6, <2>7, <2>9, <2>10 DEF RebuildInv
<1> QED BY <1>1, <1>2

LEMMA FinishStep ==
    ASSUME RebuildInv, NEW ok \in BOOLEAN, NEW committed \in BOOLEAN, FinishRebuild(ok, committed)
    PROVE  RebuildInv'
<1> DEFINE T == {i \in Jobs : job[i] = "succeeded"}
           E == {i \in Jobs : job[i] \in {"succeeded", "failed"}}
<1>1. /\ durable' = (IF committed THEN durable + 1 ELSE durable) /\ UNCHANGED <<served, queue>>
      /\ ok => committed
  BY DEF FinishRebuild, trigger_full_rebuild
<1>2. PICK j \in Jobs : job[j] = "running" /\ job' = [job EXCEPT ![j] = IF ok THEN "succeeded" ELSE "failed"]
  BY DEF FinishRebuild
<1>3. job \in [Jobs -> {"none", "queued", "running", "succeeded", "failed"}] /\ queue \in Seq(Jobs)
  BY DEF RebuildInv
<1>4. /\ job' \in [Jobs -> {"none", "queued", "running", "succeeded", "failed"}]
      /\ \A i \in Jobs \ {j} : job'[i] = job[i]
      /\ job'[j] = IF ok THEN "succeeded" ELSE "failed"
  BY <1>2, <1>3
<1>5. /\ {i \in Jobs : job'[i] = "succeeded"} = IF ok THEN T \cup {j} ELSE T
      /\ {i \in Jobs : job'[i] \in {"succeeded", "failed"}} = E \cup {j}
  BY <1>2, <1>4
<1>6. j \notin T /\ T \in SUBSET Jobs /\ j \notin E /\ E \in SUBSET Jobs
  BY <1>2
<1>7. durable \in Nat /\ Cardinality(T) <= durable /\ durable <= Cardinality(E)
  BY DEF RebuildInv
<1> HIDE DEF T, E
<1>8. /\ IsFiniteSet(T) /\ Cardinality(T) \in Nat
      /\ IsFiniteSet(E) /\ Cardinality(E) \in Nat
  BY <1>6, JobsFacts, FS_CardinalityType
<1>9. Cardinality(T \cup {j}) = Cardinality(T) + 1 /\ Cardinality(E \cup {j}) = Cardinality(E) + 1
  BY <1>6, <1>8, FS_AddElement
<1>10. /\ durable' \in Nat
       /\ Cardinality({i \in Jobs : job'[i] = "succeeded"}) <= durable'
       /\ durable' <= Cardinality({i \in Jobs : job'[i] \in {"succeeded", "failed"}})
  BY <1>1, <1>5, <1>7, <1>8, <1>9
<1>11. \A k \in DOMAIN queue : job'[queue[k]] = "queued"
  <2> SUFFICES ASSUME NEW k \in DOMAIN queue PROVE job'[queue[k]] = "queued"
    OBVIOUS
  <2>1. queue[k] \in Jobs /\ job[queue[k]] = "queued"
    BY <1>3 DEF RebuildInv
  <2>2. queue[k] # j
    BY <1>2, <2>1
  <2> QED BY <1>4, <2>1, <2>2
<1>12. served.version \in 0..durable'
  BY <1>1, DurableVersion DEF RebuildInv
<1> QED BY <1>1, <1>4, <1>10, <1>11, <1>12 DEF RebuildInv

LEMMA NextRebuild ==
    ASSUME RebuildInv, [Next]_vars
    PROVE  RebuildInv'
<1>1. CASE UNCHANGED <<durable, job, queue, served>>
  BY <1>1 DEF RebuildInv
<1>2. ASSUME UNCHANGED <<durable, job, queue>>, NEW cold, served' = Loaded(cold) PROVE RebuildInv'
  <2>1. served'.version = durable
    BY <1>2 DEF Loaded
  <2>2. durable \in 0..durable
    BY DurableVersion
  <2> QED BY <1>2, <2>1, <2>2 DEF RebuildInv
<1>3. ASSUME NEW c \in Calls, Serve(c) PROVE UNCHANGED <<durable, job, queue, served>>
  <2>1. CASE Gate(c) \/ Acquire(c) \/ Respond(c)
    BY <2>1 DEF Gate, Acquire, Respond, rebuildVars
  <2>2. ASSUME NEW result, Embed(c, result) PROVE UNCHANGED <<durable, job, queue, served>>
    BY <2>2 DEF Embed, rebuildVars
  <2>3. ASSUME NEW results, Search(c, results) PROVE UNCHANGED <<durable, job, queue, served>>
    BY <2>3 DEF Search, rebuildVars
  <2> QED BY <1>3, <2>1, <2>2, <2>3 DEF Serve
<1>4. ASSUME NEW c \in Calls, NEW tool, NEW prompt, NEW repo, NEW limit, NEW mounted,
             Refuse(c) \/ Receive(c, tool, prompt, repo, limit, mounted)
      PROVE  UNCHANGED <<durable, job, queue, served>>
  BY <1>4 DEF Refuse, Receive, rebuildVars
<1>5. ASSUME NEW answering, NEW cold, Boot(answering, cold) PROVE RebuildInv'
  BY <1>2, <1>5 DEF Boot, rebuildVars
<1>6. ASSUME NEW cold, swap_graph(cold) PROVE RebuildInv'
  BY <1>2, <1>6 DEF swap_graph, rebuildVars
<1>7. CASE Cool \/ TakeUsage \/ PanicRebuild
  BY <1>1, <1>7 DEF Cool, TakeUsage, PanicRebuild, rebuildVars
<1>8. ASSUME NEW result, WriteUsage(result) PROVE RebuildInv'
  BY <1>1, <1>8 DEF WriteUsage, rebuildVars
<1>9. CASE UNCHANGED vars
  BY <1>1, <1>9 DEF vars
<1> QED BY <1>1, <1>3, <1>4, <1>5, <1>6, <1>7, <1>8, <1>9, EnqueueStep, PollStep, FinishStep DEF Next

(* The admin rebuilds: no job that succeeded is without a committed version
   and no two versions come from one job, though the answer to a commit may
   be lost and a rebuild may panic; no job is queued twice, and the version
   served is never ahead of the committed one (enqueue_rebuild,
   run_jobs_until_empty). *)
THEOREM RebuildInvariant == Spec => []RebuildInv
<1>1. Init => RebuildInv
  BY InitRebuild
<1>2. RebuildInv /\ [Next]_vars => RebuildInv'
  BY NextRebuild
<1> QED BY <1>1, <1>2, PTL DEF Spec

-----------------------------------------------------------------------------
(* From the arrival to the search. *)

(* What the two resolvers find. *)
LEMMA ScopesFound ==
    ASSUME NEW r, NEW mounted,
           r.res = Resolution(ResolveProject(r.repo, mounted), ResolveGlobal(mounted)),
           r.res.scopes # <<>>
    PROVE  ScopesOK(r)
<1> DEFINE P == ResolveProject(r.repo, mounted)
           G == ResolveGlobal(mounted)
           p == ProjectScope(r)
           g == GlobalScope
<1>1. P = {} \/ P = {p}
  BY NilAssumption DEF ResolveProject, ProjectScope, Home
<1>2. G = {} \/ (G = {g} /\ GlobalPaths # {})
  BY DEF ResolveGlobal, GlobalScope
<1>3. /\ r.res.scopes = SetToSeq(P) \o SetToSeq(G)
      /\ r.res.degraded = (IF P = {} THEN {"project"} ELSE {}) \cup (IF G = {} THEN {"global"} ELSE {})
  BY DEF Resolution
<1> HIDE DEF P, G, p, g
<1>4. <<p>> \in Seq({p, g}) /\ <<g>> \in Seq({p, g}) /\ <<>> \in Seq({p, g})
  OBVIOUS
<1>a. <<p>> \o <<g>> = <<p, g>>
  <2> DEFINE s == <<p>> \o <<g>>
             t == <<p, g>>
  <2>1. s \in Seq({p, g}) /\ Len(s) = 2 /\ s[1] = p /\ s[2] = g
    BY <1>4
  <2>2. t \in Seq({p, g}) /\ Len(t) = 2 /\ t[1] = p /\ t[2] = g
    OBVIOUS
  <2> HIDE DEF s, t
  <2>3. \A i \in 1..2 : s[i] = t[i]
    <3>1. \A i \in 1..2 : i = 1 \/ i = 2
      OBVIOUS
    <3> QED BY <2>1, <2>2, <3>1
  <2>4. s = t
    BY <2>1, <2>2, <2>3, SeqEqual
  <2> QED BY <2>4 DEF s, t
<1>5. r.res.degraded = {} => P # {} /\ G # {}
  BY <1>3
<1>6. CASE P = {} /\ G = {}
  <2>1. r.res.scopes = <<>> \o <<>>
    BY <1>3, <1>6, SequenceOfNone
  <2> QED BY <1>4, <2>1, EmptyAfter
<1>7. CASE P = {p} /\ G = {}
  <2>1. r.res.scopes = <<p>> \o <<>>
    BY <1>3, <1>7, SequenceOfNone, SequenceOfOne
  <2>2. r.res.scopes = <<p>>
    BY <1>4, <2>1, EmptyAfter
  <2> QED BY <1>5, <1>7, <2>2 DEF ScopesOK, p, g
<1>8. CASE P = {} /\ G = {g} /\ GlobalPaths # {}
  <2>1. r.res.scopes = <<>> \o <<g>>
    BY <1>3, <1>8, SequenceOfNone, SequenceOfOne
  <2>2. r.res.scopes = <<g>>
    BY <1>4, <2>1, EmptyAfter
  <2> QED BY <1>5, <1>8, <2>2 DEF ScopesOK, p, g
<1>9. CASE P = {p} /\ G = {g} /\ GlobalPaths # {}
  <2>1. r.res.scopes = <<p, g>>
    BY <1>3, <1>a, <1>9, SequenceOfOne
  <2> QED BY <1>9, <2>1 DEF ScopesOK, p, g
<1> QED BY <1>1, <1>2, <1>6, <1>7, <1>8, <1>9

(* The answers without a skill. *)
LEMMA EmptyAnswer ==
    ASSUME NEW r, r.skills = <<>>, r.context = <<>>, r.degraded # {}
    PROVE  AnswerOK(r)
<1>1. DOMAIN r.skills = {} /\ DOMAIN r.context = {} /\ Len(r.skills) = 0
  OBVIOUS
<1>2. {r.skills[k] : k \in DOMAIN r.skills} = {} /\ Quoted(r) = {}
  BY <1>1 DEF Quoted
<1>3. {Shown(r)[k] : k \in DOMAIN Shown(r)} = {}
  <2>1. Shown(r) = <<>>
    BY DEF Shown
  <2> QED BY <2>1
<1>4. Cardinality({r.skills[k] : k \in DOMAIN r.skills}) = Len(r.skills)
  BY <1>1, <1>2, FS_EmptySet
<1>5. Status(r) # "no_match"
  BY DEF Status
<1> QED BY <1>2, <1>3, <1>4, <1>5 DEF AnswerOK, IsolatedAnswer, ExplainedAnswer, NothingTwice, ProjectKnowledgeFirst

LEMMA DegradedAnswer ==
    ASSUME NEW r, NEW trouble, NEW degraded, NEW reasons, NEW a,
           a = Degraded(r, trouble, degraded, reasons), trouble # {}, RequestOK(a)
    PROVE  AnswerOK(a) /\ a.stage = "answer"
<1>1. a.stage = "answer" /\ a.trouble = trouble /\ a.skills = <<>> /\ a.context = <<>>
  BY DEF Degraded, Answer
<1>2. a.degraded # {}
  BY <1>1 DEF RequestOK
<1> QED BY <1>1, <1>2, EmptyAnswer

(* One request changes and the others stay. *)
LEMMA OneAnswer ==
    ASSUME RequestsInv, AnswersInv, NEW c \in Calls, NEW new, req' = [req EXCEPT ![c] = new],
           new.stage \in Working => LoadedOK(new),
           new.stage = "answer" => AnswerOK(new)
    PROVE  AnswersInv'
<1>1. req'[c] = new /\ \A d \in Calls \ {c} : req'[d] = req[d]
  BY DEF RequestsInv
<1>2. ASSUME NEW d \in Calls
      PROVE  /\ req'[d].stage \in Working => LoadedOK(req'[d])
             /\ req'[d].stage = "answer" => AnswerOK(req'[d])
  <2>1. CASE d = c
    BY <1>1, <2>1
  <2>2. CASE d # c
    BY <1>1, <2>2 DEF AnswersInv
  <2> QED BY <2>1, <2>2
<1> QED BY <1>2 DEF AnswersInv

LEMMA StageLoaded ==
    ASSUME NEW r, RequestOK(r), r.stage \in Working, LoadedOK(r), NEW stage \in Working,
           stage \in {"embed", "search"} => r.prompt \in Queries
    PROVE  [r EXCEPT !.stage = stage].stage = stage /\ LoadedOK([r EXCEPT !.stage = stage])
<1> DEFINE n == [r EXCEPT !.stage = stage]
<1>1. DOMAIN r = {"stage", "tool", "prompt", "repo", "limit", "snapshot", "res", "trouble"}
  BY DEF RequestOK
<1>2. /\ n.stage = stage /\ n.res = r.res /\ n.prompt = r.prompt /\ n.snapshot = r.snapshot /\ n.repo = r.repo
      /\ n.limit = r.limit
  BY <1>1
<1> HIDE DEF n
<1>3. Home(n) = Home(r)
  BY <1>2 DEF Home
<1>4. ScopesOK(n)
  BY <1>2, <1>3 DEF LoadedOK, ScopesOK, ProjectScope
<1>5. LoadedOK(n)
  BY <1>2, <1>4 DEF LoadedOK
<1> QED BY <1>2, <1>5 DEF n

(* A request ends without an embedding. *)
LEMMA NoEmbeddingAnswer ==
    ASSUME RequestsInv, RequestsInv', AnswersInv, NEW c \in Calls, NEW reason,
           req' = [req EXCEPT ![c] = NoEmbedding(req[c], reason)]
    PROVE  AnswersInv'
<1> DEFINE a == NoEmbedding(req[c], reason)
<1>1. req'[c] = a /\ req' = [req EXCEPT ![c] = a]
  BY DEF RequestsInv
<1>2. RequestOK(a)
  BY <1>1 DEF RequestsInv
<1>3. a = Degraded(req[c], req[c].trouble \cup {"embed"}, Considered(req[c].res),
                   Append(req[c].res.reasons, <<"embedding", reason>>))
  BY DEF NoEmbedding
<1>4. req[c].trouble \cup {"embed"} # {}
  OBVIOUS
<1> HIDE DEF a
<1>5. AnswerOK(a) /\ a.stage = "answer"
  BY <1>2, <1>3, <1>4, DegradedAnswer
<1> QED BY <1>1, <1>5, OneAnswer DEF Working

LEMMA GateAnswers ==
    ASSUME RequestsInv, RequestsInv', AnswersInv, NEW c \in Calls, Gate(c)
    PROVE  AnswersInv'
<1>1. RequestOK(req[c]) /\ req[c].stage \in Working /\ LoadedOK(req[c])
  BY DEF Gate, RequestsInv, Working, AnswersInv
<1>2. CASE req' = [req EXCEPT ![c].stage = "wait"]
  <2>1. req' = [req EXCEPT ![c] = [req[c] EXCEPT !.stage = "wait"]]
    BY <1>2
  <2>2. "wait" \in Working
    BY DEF Working
  <2>3. [req[c] EXCEPT !.stage = "wait"].stage = "wait" /\ LoadedOK([req[c] EXCEPT !.stage = "wait"])
    BY <1>1, <2>2, StageLoaded
  <2> QED BY <2>1, <2>3, OneAnswer
<1>3. CASE req' = [req EXCEPT ![c] = NoEmbedding(@, "circuit_open")]
  <2>1. req' = [req EXCEPT ![c] = NoEmbedding(req[c], "circuit_open")]
    BY <1>3
  <2> QED BY <2>1, NoEmbeddingAnswer
<1> QED BY <1>2, <1>3 DEF Gate

LEMMA AcquireAnswers ==
    ASSUME RequestsInv, RequestsInv', AnswersInv, NEW c \in Calls, Acquire(c)
    PROVE  AnswersInv'
<1>1. RequestOK(req[c]) /\ req[c].stage \in Working /\ LoadedOK(req[c])
  BY DEF Acquire, RequestsInv, Working, AnswersInv
<1>2. CASE req[c].prompt # Blank /\ req' = [req EXCEPT ![c].stage = "embed"]
  <2>1. req' = [req EXCEPT ![c] = [req[c] EXCEPT !.stage = "embed"]]
    BY <1>2
  <2>2. "embed" \in Working /\ req[c].prompt \in Queries
    BY <1>1, <1>2 DEF Working, LoadedOK
  <2>3. [req[c] EXCEPT !.stage = "embed"].stage = "embed" /\ LoadedOK([req[c] EXCEPT !.stage = "embed"])
    BY <1>1, <2>2, StageLoaded
  <2> QED BY <2>1, <2>3, OneAnswer
<1>3. CASE req' = [req EXCEPT ![c] = NoEmbedding(@, "invalid_input")]
  <2>1. req' = [req EXCEPT ![c] = NoEmbedding(req[c], "invalid_input")]
    BY <1>3
  <2> QED BY <2>1, NoEmbeddingAnswer
<1> QED BY <1>2, <1>3 DEF Acquire

LEMMA EmbedAnswers ==
    ASSUME RequestsInv, RequestsInv', AnswersInv, NEW c \in Calls, NEW result, Embed(c, result)
    PROVE  AnswersInv'
<1>1. RequestOK(req[c]) /\ req[c].stage = "embed" /\ req[c].stage \in Working /\ LoadedOK(req[c])
  BY DEF Embed, RequestsInv, Working, AnswersInv
<1>2. CASE req' = [req EXCEPT ![c].stage = "search"]
  <2>1. req' = [req EXCEPT ![c] = [req[c] EXCEPT !.stage = "search"]]
    BY <1>2
  <2>2. "search" \in Working /\ req[c].prompt \in Queries
    BY <1>1 DEF Working, LoadedOK
  <2>3. [req[c] EXCEPT !.stage = "search"].stage = "search" /\ LoadedOK([req[c] EXCEPT !.stage = "search"])
    BY <1>1, <2>2, StageLoaded
  <2> QED BY <2>1, <2>3, OneAnswer
<1>3. CASE req' = [req EXCEPT ![c] = NoEmbedding(@, result)]
  <2>1. req' = [req EXCEPT ![c] = NoEmbedding(req[c], result)]
    BY <1>3
  <2> QED BY <2>1, NoEmbeddingAnswer
<1> QED BY <1>2, <1>3 DEF Embed

LEMMA ReceiveAnswers ==
    ASSUME RequestsInv, RequestsInv', RebuildInv, AnswersInv, NEW c \in Calls, NEW tool,
           NEW prompt \in Queries \cup {Blank}, NEW repo,
           NEW limit \in Limits \cup {Nil}, NEW mounted,
           Receive(c, tool, prompt, repo, limit, mounted)
    PROVE  AnswersInv'
<1> DEFINE res == Resolution(ResolveProject(repo, mounted), ResolveGlobal(mounted))
           r == [stage |-> "gate", tool |-> tool, prompt |-> prompt, repo |-> repo, limit |-> limit,
                 snapshot |-> served, res |-> res,
                 trouble |-> IF res.degraded = {} THEN {} ELSE {"scope"}]
<1>1. req' = [req EXCEPT ![c] =
          IF res.scopes = <<>> THEN Degraded(r, r.trouble, res.degraded, res.reasons) ELSE r]
  BY DEF Receive
<1>2. res.scopes = <<>> => res.degraded # {}
  BY ResolutionFacts
<1>3. /\ r.stage = "gate" /\ r.res = res /\ r.prompt = prompt /\ r.repo = repo /\ r.snapshot = served
      /\ r.limit = limit
      /\ r.trouble # {} <=> res.degraded # {}
  OBVIOUS
<1> HIDE DEF r
<1>4. CASE res.scopes = <<>>
  <2> DEFINE a == Degraded(r, r.trouble, res.degraded, res.reasons)
  <2>1. req' = [req EXCEPT ![c] = a] /\ r.trouble # {}
    BY <1>1, <1>2, <1>3, <1>4
  <2>2. RequestOK(a)
    BY <2>1 DEF RequestsInv
  <2> HIDE DEF a
  <2>3. AnswerOK(a) /\ a.stage = "answer"
    BY <2>1, <2>2, DegradedAnswer DEF a
  <2> QED BY <2>1, <2>3, OneAnswer DEF Working
<1>5. CASE res.scopes # <<>>
  <2>1. ScopesOK(r)
    BY <1>3, <1>5, ScopesFound
  <2>2. LoadedOK(r)
    BY <1>3, <2>1, DurableVersion DEF LoadedOK
  <2>3. req' = [req EXCEPT ![c] = r]
    BY <1>1, <1>5
  <2> QED BY <1>3, <2>2, <2>3, OneAnswer
<1> QED BY <1>4, <1>5

-----------------------------------------------------------------------------
(* What the scopes' rankings and their fusion hold. *)

(* How many skills of a version are loaded. *)
Loads(version) ==
    IF Len(Store[version]) < MaxSkillsToLoad THEN Len(Store[version]) ELSE MaxSkillsToLoad

(* The skills loaded of a version, as a prompt sees them. *)
LEMMA SkillsFacts ==
    ASSUME NEW query \in Queries, NEW s, s.version \in Versions, NEW n, n = Loads(s.version)
    PROVE  /\ n \in Nat /\ Searchable(query, SkillsOf(s), n)
           /\ \A i \in DOMAIN SkillsOf(s) :
                 i \in DOMAIN Store[s.version] /\ SkillsOf(s)[i] = Seeded(Store[s.version][i], s.cold)
           /\ \A i, j \in DOMAIN SkillsOf(s) :
                 query.shared[<<SkillsOf(s)[i].id, SkillsOf(s)[j].id>>] \in Int
<1> DEFINE rows_ == Store[s.version]
           skills == SkillsOf(s)
           len == Len(rows_)
           all == [i \in DOMAIN rows_ |-> Seeded(rows_[i], s.cold)]
           S == {all[i] : i \in DOMAIN rows_}
<1>a. /\ len \in Nat /\ DOMAIN rows_ = 1..len
      /\ \A i, j \in DOMAIN rows_ : rows_[i].id = rows_[j].id => i = j
  BY StoreAssumption
<1>b. MaxSkillsToLoad \in Nat
  BY RequestsAssumption
<1>c. n = (IF len < MaxSkillsToLoad THEN len ELSE MaxSkillsToLoad) /\ n \in Nat
  BY <1>a, <1>b DEF Loads
<1>d. skills = Truncate(all, MaxSkillsToLoad)
  BY DEF SkillsOf
<1>e. all \in [1..len -> S] /\ \A i \in 1..len : all[i] = Seeded(rows_[i], s.cold)
  BY <1>a
<1> HIDE DEF skills, len, all, S
<1>f. /\ Truncate(all, MaxSkillsToLoad) \in [1..n -> S]
      /\ \A k \in 1..n : k \in 1..len /\ Truncate(all, MaxSkillsToLoad)[k] = all[k]
  <2>1. LET m == IF len < MaxSkillsToLoad THEN len ELSE MaxSkillsToLoad
        IN  /\ Truncate(all, MaxSkillsToLoad) \in [1..m -> S]
            /\ \A k \in 1..m : k \in 1..len /\ Truncate(all, MaxSkillsToLoad)[k] = all[k]
            /\ Distinct(all) => Distinct(Truncate(all, MaxSkillsToLoad))
    BY <1>a, <1>b, <1>e, TruncateFacts
  <2> QED BY <1>c, <2>1
<1>2. /\ n \in Nat /\ DOMAIN skills = 1..n
      /\ \A i \in 1..n : i \in DOMAIN rows_ /\ skills[i] = Seeded(rows_[i], s.cold)
  BY <1>a, <1>c, <1>d, <1>e, <1>f
<1>1. \A i, j \in 1..n : rows_[i].id = rows_[j].id => i = j
  BY <1>a, <1>2
<1>3. \A i \in 1..n : skills[i].id = rows_[i].id /\ skills[i].prior \in Int
  <2>1. \A count : usage_prior(count) \in Int
    BY DEF usage_prior
  <2>2. ASSUME NEW row, NEW cold PROVE Seeded(row, cold).id = row.id /\ Seeded(row, cold).prior \in Int
    BY <2>1 DEF Seeded
  <2> QED BY <1>2, <2>2
<1>4. ASSUME NEW i \in 1..n, NEW j \in 1..n
      PROVE  /\ query.semantic[skills[i].id] \in Int
             /\ query.subunits[skills[i].id] \in Seq(Unit)
             /\ query.shared[<<skills[i].id, skills[j].id>>] \in Int
  <2>1. /\ query.semantic[rows_[i].id] \in 0..100
        /\ query.subunits[rows_[i].id] \in Seq([semantic : 0..100, lexical : 0..100])
        /\ query.shared[<<rows_[i].id, rows_[j].id>>] \in 0..100
    <3>1. \A v \in Versions : \A x, y \in DOMAIN Store[v] :
              /\ query.semantic[Store[v][x].id] \in 0..100
              /\ query.subunits[Store[v][x].id] \in Seq([semantic : 0..100, lexical : 0..100])
              /\ query.shared[<<Store[v][x].id, Store[v][y].id>>] \in 0..100
      BY QueriesAssumption
    <3> QED BY <1>2, <3>1
  <2>a. \A x \in 0..100 : x \in Int
    OBVIOUS
  <2>2. query.semantic[rows_[i].id] \in Int /\ query.shared[<<rows_[i].id, rows_[j].id>>] \in Int
    BY <2>1, <2>a, Zenon
  <2>3. query.subunits[rows_[i].id] \in Seq(Unit)
    BY <2>1 DEF Unit
  <2>4. skills[i].id = rows_[i].id /\ skills[j].id = rows_[j].id
    BY <1>3
  <2> QED BY <2>2, <2>3, <2>4
<1>5. Distinct(skills)
  BY <1>1, <1>2, <1>3 DEF Distinct
<1>6. Searchable(query, skills, n)
  BY <1>1, <1>2, <1>3, <1>4, <1>5 DEF Searchable
<1> QED BY <1>2, <1>4, <1>6 DEF skills

(* One ranking of the search. *)
Searched(ranking, r, scope) ==
    /\ ranking.type = scope.type
    /\ Ranks(ranking.candidates, r.prompt, SkillsOf(r.snapshot), scope)

SearchesOf(rankings, r, I) ==
    /\ RankingsOK(rankings, Cardinality(I))
    /\ \A k \in DOMAIN rankings : \E i \in I : Searched(rankings[k], r, r.res.scopes[i])
    /\ \A i \in I : \E k \in DOMAIN rankings : Searched(rankings[k], r, r.res.scopes[i])

(* A candidate of a relevant skill of the scope. *)
CandidateOf(c, r, scope) ==
    /\ CandidateOK(c)
    /\ \E i \in RelevantOf(r.prompt, SkillsOf(r.snapshot), scope) : c.id = SkillsOf(r.snapshot)[i].id

LEMMA RankedCandidates ==
    ASSUME NEW r, r.prompt \in Queries, r.snapshot.version \in Versions, NEW scope, NEW cands,
           Ranks(cands, r.prompt, SkillsOf(r.snapshot), scope)
    PROVE  /\ Len(cands) \in Nat /\ DOMAIN cands = 1..Len(cands)
           /\ \A x \in DOMAIN cands : CandidateOf(cands[x], r, scope)
<1> DEFINE skills == SkillsOf(r.snapshot)
           n == Loads(r.snapshot.version)
           rel == RelevantOf(r.prompt, skills, scope)
           C == {Candidate(r.prompt, scope, skills[i]) : i \in rel}
<1>1. cands \in Seq(C)
  BY DEF Ranks
<1>2. n \in Nat /\ Searchable(r.prompt, skills, n)
  BY SkillsFacts
<1>3. \A i \in rel : i \in DOMAIN skills
  BY DEF RelevantOf, InScopeOf
<1> HIDE DEF skills, n, rel
<1>4. ASSUME NEW i \in rel
      PROVE  CandidateOK(Candidate(r.prompt, scope, skills[i])) /\ Candidate(r.prompt, scope, skills[i]).id = skills[i].id
  <2>1. i \in 1..n
    BY <1>2, <1>3 DEF Searchable
  <2>2. r.prompt.semantic[skills[i].id] \in Int /\ r.prompt.subunits[skills[i].id] \in Seq(Unit) /\ skills[i].prior \in Int
    BY <1>2, <2>1 DEF Searchable
  <2> QED BY <2>2, CandidateFacts DEF CandidateOK
<1>5. \A c \in C : \E i \in rel : c = Candidate(r.prompt, scope, skills[i])
  OBVIOUS
<1> HIDE DEF C
<1>6. Len(cands) \in Nat /\ DOMAIN cands = 1..Len(cands) /\ \A x \in DOMAIN cands : cands[x] \in C
  BY <1>1, LenProperties
<1>7. ASSUME NEW x \in DOMAIN cands PROVE CandidateOK(cands[x]) /\ \E i \in rel : cands[x].id = skills[i].id
  <2>1. PICK i \in rel : cands[x] = Candidate(r.prompt, scope, skills[i])
    BY <1>5, <1>6
  <2> QED BY <1>4, <2>1
<1> QED BY <1>6, <1>7 DEF CandidateOf, rel, skills

(* search_scopes_concurrently has a ranking for every scope that was
   searched. *)
LEMMA SearchesFacts ==
    ASSUME NEW r, LoadedOK(r), r.prompt \in Queries, NEW split, NEW I, split.ok = I,
           I \in SUBSET (DOMAIN r.res.scopes)
    PROVE  SearchesOf(search_scopes_concurrently(r, split), r, I)
<1> DEFINE scopes == r.res.scopes
           n == Len(scopes)
           m == Cardinality(I)
           found == Kept(scopes, I)
           one(scope) == [type |-> scope.type,
                          candidates |-> perform_scope_search(r.prompt, SkillsOf(r.snapshot), scope)]
           raw == [k \in DOMAIN found |-> one(found[k])]
           S == {one(scopes[i]) : i \in I}
<1>1. n \in Nat /\ DOMAIN scopes = 1..n
  BY DEF LoadedOK, ScopesOK
<1>2. Lists(found, scopes, I)
  <2> HIDE DEF n, scopes
  <2> QED BY <1>1, KeptFacts DEF scopes
<1>3. /\ m \in Nat /\ found \in [1..m -> {scopes[i] : i \in I}]
      /\ \A i \in I : \E k \in 1..m : found[k] = scopes[i]
  BY <1>2 DEF Lists
<1> HIDE DEF found, m
<1>4. DOMAIN found = 1..m /\ \A k \in 1..m : \E i \in I : found[k] = scopes[i]
  BY <1>3
<1>5. ASSUME NEW scope PROVE Searched(one(scope), r, scope)
  <2>1. r.snapshot.version \in Versions
    BY DEF LoadedOK
  <2>2. Ranks(perform_scope_search(r.prompt, SkillsOf(r.snapshot), scope), r.prompt, SkillsOf(r.snapshot), scope)
    BY <2>1, SkillsFacts, ScopeSearchFacts
  <2> QED BY <2>2 DEF Searched
<1> HIDE DEF one
<1>6. DOMAIN raw = 1..m /\ \A k \in 1..m : raw[k] = one(found[k]) /\ \E i \in I : raw[k] = one(scopes[i])
  BY <1>4
<1>7. raw \in [1..m -> S]
  BY <1>4
<1> HIDE DEF raw, S
<1>8. Whole(raw) = raw
  BY <1>3, <1>7, ListFacts
<1>9. search_scopes_concurrently(r, split) = raw
  BY <1>8 DEF search_scopes_concurrently, raw, found, GraphOf, one
<1>10. ASSUME NEW k \in 1..m PROVE \E i \in I : Searched(raw[k], r, r.res.scopes[i])
  BY <1>5, <1>6
<1>11. ASSUME NEW i \in I PROVE \E k \in 1..m : Searched(raw[k], r, r.res.scopes[i])
  <2>1. PICK k \in 1..m : found[k] = scopes[i]
    BY <1>3
  <2>2. raw[k] = one(scopes[i])
    BY <1>6, <2>1
  <2> QED BY <1>5, <2>2
<1>12. RankingsOK(raw, m)
  <2> SUFFICES ASSUME NEW k \in 1..m
               PROVE  /\ Len(raw[k].candidates) \in Nat
                      /\ DOMAIN raw[k].candidates = 1..Len(raw[k].candidates)
                      /\ \A x \in DOMAIN raw[k].candidates : CandidateOK(raw[k].candidates[x])
    BY <1>3, <1>6 DEF RankingsOK
  <2>1. PICK i \in I : Searched(raw[k], r, r.res.scopes[i])
    BY <1>10
  <2>2. r.snapshot.version \in Versions
    BY DEF LoadedOK
  <2>3. Ranks(raw[k].candidates, r.prompt, SkillsOf(r.snapshot), r.res.scopes[i])
    BY <2>1 DEF Searched
  <2> DEFINE cands == raw[k].candidates
             scope == r.res.scopes[i]
  <2>4. Ranks(cands, r.prompt, SkillsOf(r.snapshot), scope)
    BY <2>3
  <2> HIDE DEF cands, scope
  <2>5. Len(cands) \in Nat /\ DOMAIN cands = 1..Len(cands) /\ \A x \in DOMAIN cands : CandidateOK(cands[x])
    <3>1. /\ Len(cands) \in Nat /\ DOMAIN cands = 1..Len(cands)
          /\ \A x \in DOMAIN cands : CandidateOf(cands[x], r, scope)
      BY <2>2, <2>4, RankedCandidates
    <3> QED BY <3>1 DEF CandidateOf
  <2> QED BY <2>5 DEF cands
<1>13. /\ RankingsOK(raw, Cardinality(I))
       /\ \A k \in DOMAIN raw : \E i \in I : Searched(raw[k], r, r.res.scopes[i])
       /\ \A i \in I : \E k \in DOMAIN raw : Searched(raw[k], r, r.res.scopes[i])
  BY <1>6, <1>10, <1>11, <1>12 DEF m
<1>14. SearchesOf(raw, r, I)
  BY <1>13 DEF SearchesOf
<1> QED BY <1>9, <1>14

(* What the answer is taken from. *)
RankedOK(ranked, r, I) ==
    /\ \E S : ranked \in Seq(S) /\ \A c \in S : CandidateOK(c)
    /\ Distinct(ranked)
    /\ \A id \in IdsOf(ranked) : \E i \in I :
          \E n \in RelevantOf(r.prompt, SkillsOf(r.snapshot), r.res.scopes[i]) :
             id = SkillsOf(r.snapshot)[n].id
    /\ \A i \in I : Cardinality(InScopeOf(SkillsOf(r.snapshot), r.res.scopes[i])) <= CandidateLimit =>
          \A n \in RelevantOf(r.prompt, SkillsOf(r.snapshot), r.res.scopes[i]) :
             SkillsOf(r.snapshot)[n].id \in IdsOf(ranked)

LEMMA RankedFacts ==
    ASSUME NEW r, LoadedOK(r), r.prompt \in Queries, NEW I, NEW rankings, SearchesOf(rankings, r, I)
    PROVE  RankedOK(weighted_reciprocal_rank_fusion(rankings), r, I)
<1> DEFINE ranked == weighted_reciprocal_rank_fusion(rankings)
           skills == SkillsOf(r.snapshot)
           rel(i) == RelevantOf(r.prompt, skills, r.res.scopes[i])
           m == Cardinality(I)
           F == {Fused(rankings, At(rankings, o).id) : o \in Places(rankings)}
<1>0. r.snapshot.version \in Versions
  BY DEF LoadedOK
<1>1. RankingsOK(rankings, m)
  BY DEF SearchesOf
<1>2. m \in Nat /\ DOMAIN rankings = 1..m
  BY <1>1 DEF RankingsOK
<1> HIDE DEF m
<1>3. Fuses(ranked, rankings)
  BY <1>1, FusionFacts
<1> HIDE DEF ranked
<1>4. ASSUME NEW o \in Places(rankings)
      PROVE  /\ CandidateOK(Fused(rankings, At(rankings, o).id))
             /\ Fused(rankings, At(rankings, o).id).id = At(rankings, o).id
  <2>1. o \in Occurrences(rankings, At(rankings, o).id)
    BY DEF Occurrences
  <2>2. Occurrences(rankings, At(rankings, o).id) # {}
    BY <2>1
  <2> QED BY <1>1, <2>2, FusedFacts
<1>5. ranked \in Seq(F) /\ Distinct(ranked)
  BY <1>3 DEF Fuses
<1>6. \A c \in F : \E o \in Places(rankings) : c = Fused(rankings, At(rankings, o).id)
  OBVIOUS
<1> HIDE DEF F
<1>7. \A c \in F : CandidateOK(c) /\ \E o \in Places(rankings) : c.id = At(rankings, o).id
  BY <1>4, <1>6
<1>8. \A k \in DOMAIN ranked : ranked[k] \in F
  BY <1>5
<1>9. ASSUME NEW id \in IdsOf(ranked) PROVE \E i \in I : \E n \in rel(i) : id = skills[n].id
  <2>1. PICK k \in DOMAIN ranked : id = ranked[k].id
    BY <1>9 DEF IdsOf
  <2>2. PICK o \in Places(rankings) : id = At(rankings, o).id
    BY <1>7, <1>8, <2>1
  <2>3. o[1] \in 1..m /\ o[2] \in DOMAIN rankings[o[1]].candidates
    BY <1>1, PlacesFacts
  <2>4. PICK i \in I : Searched(rankings[o[1]], r, r.res.scopes[i])
    BY <1>2, <2>3 DEF SearchesOf
  <2>5. \E n \in rel(i) : rankings[o[1]].candidates[o[2]].id = skills[n].id
    <3> DEFINE cands == rankings[o[1]].candidates
               scope == r.res.scopes[i]
    <3>1. Ranks(cands, r.prompt, SkillsOf(r.snapshot), scope)
      BY <2>4 DEF Searched
    <3>2. o[2] \in DOMAIN cands
      BY <2>3
    <3> HIDE DEF cands, scope
    <3>3. CandidateOf(cands[o[2]], r, scope)
      BY <1>0, <3>1, <3>2, RankedCandidates
    <3>4. \E n \in RelevantOf(r.prompt, SkillsOf(r.snapshot), scope) : cands[o[2]].id = SkillsOf(r.snapshot)[n].id
      BY <3>3 DEF CandidateOf
    <3> QED BY <3>4 DEF cands, scope
  <2> QED BY <2>2, <2>5 DEF At
<1>10. ASSUME NEW i \in I, Cardinality(InScopeOf(skills, r.res.scopes[i])) <= CandidateLimit, NEW n \in rel(i)
       PROVE  skills[n].id \in IdsOf(ranked)
  <2> DEFINE c == Candidate(r.prompt, r.res.scopes[i], skills[n])
  <2>1. PICK k \in 1..m : Searched(rankings[k], r, r.res.scopes[i])
    BY <1>2 DEF SearchesOf
  <2>a. Ranks(rankings[k].candidates, r.prompt, skills, r.res.scopes[i])
    BY <2>1 DEF Searched
  <2>b. \A j \in rel(i) : \E x \in DOMAIN rankings[k].candidates :
            rankings[k].candidates[x] = Candidate(r.prompt, r.res.scopes[i], skills[j])
    BY <1>10, <2>a DEF Ranks
  <2>2. PICK x \in DOMAIN rankings[k].candidates : rankings[k].candidates[x] = c
    BY <1>10, <2>b
  <2>3. c.id = skills[n].id
    BY DEF Candidate
  <2>4. <<k, x>> \in Places(rankings)
    BY <1>1, <2>2, PlacesFacts
  <2>5. At(rankings, <<k, x>>) = c
    BY <2>2 DEF At
  <2>6. PICK y \in DOMAIN ranked : ranked[y].id = At(rankings, <<k, x>>).id
    BY <1>3, <2>4 DEF Fuses
  <2> HIDE DEF c
  <2>7. ranked[y].id = skills[n].id
    BY <2>3, <2>5, <2>6
  <2> QED BY <2>7 DEF IdsOf
<1> QED BY <1>5, <1>7, <1>9, <1>10 DEF RankedOK, ranked

-----------------------------------------------------------------------------
(* Answers are isolated and explained. *)

(* A skill that a request may see. *)
OwnSkill(r, id) ==
    \E row \in RowsOf(r) :
        /\ row.id = id
        /\ \/ row.scope = "project" /\ row.paths \subseteq {Home(r)}
              /\ (row.paths = {} => Fallback("project") = {Home(r)})
           \/ row.scope = "global" /\ row.paths \subseteq GlobalPaths

(* A skill that matches a scope of the request has its files there. *)
LEMMA MatchIsOwn ==
    ASSUME NEW r, NEW row \in RowsOf(r), NEW scope,
           scope = ProjectScope(r) \/ (scope = GlobalScope /\ GlobalPaths # {}),
           seeded_skill_matches_scope(Seeded(row, r.snapshot.cold), scope)
    PROVE  OwnSkill(r, row.id)
<1> DEFINE s == Seeded(row, r.snapshot.cold)
<1>1. s.scope = row.scope /\ s.paths = IF row.paths = {} THEN Fallback(row.scope) ELSE row.paths
  BY DEF Seeded
<1>2. s.scope = scope.type /\ (scope.paths = {} \/ (s.paths # {} /\ s.paths \subseteq scope.paths))
  BY DEF seeded_skill_matches_scope
<1> HIDE DEF s
<1>3. CASE scope = ProjectScope(r)
  <2>1. scope.type = "project" /\ scope.paths = {Home(r)}
    BY <1>3 DEF ProjectScope, Descriptor
  <2>2. row.scope = "project" /\ s.paths # {} /\ s.paths \subseteq {Home(r)}
    BY <1>1, <1>2, <2>1
  <2>3. row.paths \subseteq {Home(r)}
    BY <1>1, <2>2
  <2>4. row.paths = {} => Fallback("project") = {Home(r)}
    <3>1. row.paths = {} => s.paths = Fallback("project")
      BY <1>1, <2>2
    <3> QED BY <2>2, <3>1
  <2> QED BY <2>2, <2>3, <2>4 DEF OwnSkill
<1>4. CASE scope = GlobalScope /\ GlobalPaths # {}
  <2>1. scope.type = "global" /\ scope.paths = GlobalPaths
    BY <1>4 DEF GlobalScope, Descriptor
  <2>2. row.scope = "global" /\ s.paths \subseteq GlobalPaths
    BY <1>1, <1>2, <1>4, <2>1
  <2>3. row.paths \subseteq GlobalPaths
    BY <1>1, <2>2
  <2> QED BY <2>2, <2>3 DEF OwnSkill
<1> QED BY <1>3, <1>4

(* The scopes of a request, one by one. *)
LEMMA ScopeOf ==
    ASSUME NEW r, ScopesOK(r), NEW i \in DOMAIN r.res.scopes
    PROVE  r.res.scopes[i] = ProjectScope(r) \/ (r.res.scopes[i] = GlobalScope /\ GlobalPaths # {})
<1> DEFINE p == ProjectScope(r)
           g == GlobalScope
<1>1. CASE r.res.scopes = <<p>>
  <2> HIDE DEF p, g
  <2>1. r.res.scopes[i] = p
    BY <1>1
  <2> QED BY <2>1 DEF p
<1>2. CASE r.res.scopes = <<g>> /\ GlobalPaths # {}
  <2> HIDE DEF p, g
  <2>1. r.res.scopes[i] = g
    BY <1>2
  <2> QED BY <1>2, <2>1 DEF g
<1>3. CASE r.res.scopes = <<p, g>> /\ GlobalPaths # {}
  <2> HIDE DEF p, g
  <2>1. r.res.scopes[i] = p \/ r.res.scopes[i] = g
    BY <1>3
  <2> QED BY <1>3, <2>1 DEF p, g
<1> QED BY <1>1, <1>2, <1>3 DEF ScopesOK

(* What is ranked is the request's own. *)
LEMMA RankedIsOwn ==
    ASSUME NEW r, LoadedOK(r), r.prompt \in Queries, NEW I, I \in SUBSET (DOMAIN r.res.scopes),
           NEW ranked, RankedOK(ranked, r, I), NEW id \in IdsOf(ranked)
    PROVE  OwnSkill(r, id)
<1> DEFINE skills == SkillsOf(r.snapshot)
<1>1. PICK i \in I : \E n \in RelevantOf(r.prompt, skills, r.res.scopes[i]) : id = skills[n].id
  BY DEF RankedOK
<1>2. PICK n \in RelevantOf(r.prompt, skills, r.res.scopes[i]) : id = skills[n].id
  BY <1>1
<1>3. n \in DOMAIN skills /\ seeded_skill_matches_scope(skills[n], r.res.scopes[i])
  BY DEF RelevantOf, InScopeOf
<1> DEFINE row == Store[r.snapshot.version][n]
<1>4. n \in DOMAIN Store[r.snapshot.version] /\ skills[n] = Seeded(row, r.snapshot.cold)
  <2>1. r.snapshot.version \in Versions
    BY DEF LoadedOK
  <2> QED BY <1>3, <2>1, SkillsFacts
<1>5. row \in RowsOf(r) /\ skills[n].id = row.id
  BY <1>4 DEF RowsOf, Seeded
<1> DEFINE scope == r.res.scopes[i]
<1>6. scope = ProjectScope(r) \/ (scope = GlobalScope /\ GlobalPaths # {})
  BY ScopeOf DEF LoadedOK
<1>7. seeded_skill_matches_scope(Seeded(row, r.snapshot.cold), scope)
  BY <1>3, <1>4
<1> HIDE DEF row, scope, skills
<1>8. OwnSkill(r, row.id)
  BY <1>5, <1>6, <1>7, MatchIsOwn
<1> QED BY <1>2, <1>5, <1>8

(* The answer to a search. *)
FoundAnswer(r, a, ranked) ==
    /\ a.prompt = r.prompt /\ a.repo = r.repo /\ a.snapshot = r.snapshot /\ a.res = r.res
    /\ a.limit = r.limit
    /\ a.skills = [k \in DOMAIN Selected(ranked) |-> Selected(ranked)[k].id]
    /\ a.context \in {<<>>, compile_markdown(r.prompt, ranked)}

(* The request an answer is about stays the same. *)
LEMMA SameRequest ==
    ASSUME NEW r, NEW a, NEW ranked, FoundAnswer(r, a, ranked)
    PROVE  /\ RowsOf(a) = RowsOf(r) /\ Home(a) = Home(r)
           /\ \A scope : InScope(a, scope) = InScopeOf(SkillsOf(r.snapshot), scope)
           /\ \A scope : RelevantIn(a, scope) =
                 {SkillsOf(r.snapshot)[i].id : i \in RelevantOf(r.prompt, SkillsOf(r.snapshot), scope)}
BY DEF FoundAnswer, RowsOf, Home, InScope, RelevantIn, InScopeOf, RelevantOf

ReturnedBy(a) == {a.skills[k] : k \in DOMAIN a.skills}

(* An answer returns the first skills of the ranking, each once, and quotes
   only others. *)
Returns(a, ranked) ==
    /\ ReturnedBy(a) = IdsOf(Selected(ranked))
    /\ IdsOf(Selected(ranked)) \subseteq IdsOf(ranked)
    /\ Quoted(a) \subseteq IdsOf(ranked) \ IdsOf(Selected(ranked))
    /\ Cardinality(IdsOf(Selected(ranked))) = Len(a.skills)
    /\ \A k \in DOMAIN a.skills : k \in DOMAIN ranked /\ k <= MaxResults /\ a.skills[k] = ranked[k].id
    /\ \A k \in DOMAIN ranked : k <= MaxResults => k \in DOMAIN a.skills
    /\ a.skills \in Seq(ReturnedBy(a))
    /\ ranked # <<>> /\ MaxResults # 0 => a.skills # <<>>

LEMMA ShownFacts ==
    ASSUME NEW r, LoadedOK(r), r.prompt \in Queries, NEW I, I \in SUBSET (DOMAIN r.res.scopes),
           NEW ranked, RankedOK(ranked, r, I), NEW a, FoundAnswer(r, a, ranked)
    PROVE  Returns(a, ranked)
<1> DEFINE sel == Selected(ranked)
           m == Len(sel)
           skills == SkillsOf(r.snapshot)
<1>1. PICK S : ranked \in Seq(S) /\ \A c \in S : CandidateOK(c)
  BY DEF RankedOK
<1>2. Distinct(ranked)
  BY DEF RankedOK
<1>3. /\ sel \in Seq(S) /\ Distinct(sel)
      /\ \A k \in DOMAIN sel : k \in DOMAIN ranked /\ k <= MaxResults /\ sel[k] = ranked[k]
      /\ \A k \in DOMAIN ranked : k <= MaxResults => k \in DOMAIN sel
      /\ ranked # <<>> /\ MaxResults # 0 => sel # <<>>
  BY <1>1, <1>2, SelectedFacts
<1> HIDE DEF sel
<1>4. m \in Nat /\ DOMAIN sel = 1..m
  BY <1>3, LenProperties
<1> HIDE DEF m
<1>5. DOMAIN a.skills = 1..m /\ \A k \in 1..m : a.skills[k] = sel[k].id
  BY <1>4 DEF FoundAnswer, sel
<1>6. a.skills = [k \in 1..m |-> sel[k].id]
  BY <1>4 DEF FoundAnswer, sel
<1>7. ReturnedBy(a) = IdsOf(sel)
  BY <1>4, <1>5 DEF IdsOf, ReturnedBy
<1>8. IdsOf(sel) \subseteq IdsOf(ranked)
  BY <1>3 DEF IdsOf
<1> DEFINE T == IdsOf(sel)
<1>9. a.skills \in [1..m -> T] /\ Len(a.skills) = m
  <2>1. \A k \in 1..m : sel[k].id \in T
    BY <1>4 DEF IdsOf
  <2> HIDE DEF T
  <2>2. a.skills \in [1..m -> T]
    BY <1>6, <2>1
  <2> QED BY <1>4, <2>2, ListFacts
<1>10. Cardinality(T) = m
  <2> DEFINE D == 1..m
             f == a.skills
  <2>1. f \in Bijection(D, T)
    <3>1. f \in [D -> T]
      BY <1>9
    <3>2. \A x, y \in D : f[x] = f[y] => x = y
      BY <1>3, <1>4, <1>5 DEF Distinct
    <3>3. \A t \in T : \E x \in D : f[x] = t
      BY <1>4, <1>5 DEF IdsOf
    <3> HIDE DEF D, f, T
    <3> QED BY <3>1, <3>2, <3>3 DEF Bijection, Injection, Surjection, IsInjective
  <2>2. IsFiniteSet(D) /\ Cardinality(D) = m
    BY <1>4, FS_Interval
  <2> HIDE DEF D, f, T
  <2>3. ExistsBijection(D, T)
    BY <2>1 DEF ExistsBijection
  <2> QED BY <2>2, <2>3, FS_Bijection
<1>11. Quoted(a) \subseteq IdsOf(ranked) \ IdsOf(sel)
  <2>1. CASE a.context = <<>>
    <3>1. DOMAIN a.context = {}
      BY <2>1
    <3>2. Quoted(a) = {}
      BY <3>1 DEF Quoted
    <3> QED BY <3>2
  <2>2. CASE a.context = compile_markdown(r.prompt, ranked)
    <3>1. ASSUME NEW x \in IdsOf(ranked), NEW y \in IdsOf(ranked) PROVE r.prompt.shared[<<x, y>>] \in Int
      <4>1. \A id \in IdsOf(ranked) : \E n \in DOMAIN skills : id = skills[n].id
        <5> SUFFICES ASSUME NEW id \in IdsOf(ranked) PROVE \E n \in DOMAIN skills : id = skills[n].id
          OBVIOUS
        <5>1. PICK i \in I : \E n \in RelevantOf(r.prompt, skills, r.res.scopes[i]) : id = skills[n].id
          BY DEF RankedOK
        <5> QED BY <5>1 DEF RelevantOf, InScopeOf
      <4>2. PICK i \in DOMAIN skills : x = skills[i].id
        BY <4>1
      <4>3. PICK j \in DOMAIN skills : y = skills[j].id
        BY <4>1
      <4>4. r.snapshot.version \in Versions
        BY DEF LoadedOK
      <4>5. r.prompt.shared[<<skills[i].id, skills[j].id>>] \in Int
        BY <4>4, SkillsFacts
      <4> QED BY <4>2, <4>3, <4>5
    <3>2. \A k \in DOMAIN a.context : \A n \in DOMAIN a.context[k].cues :
              a.context[k].cues[n].source \in IdsOf(ranked) \ IdsOf(sel)
      BY <1>1, <2>2, <3>1, CompileFacts DEF sel
    <3> QED BY <3>2 DEF Quoted
  <2> QED BY <2>1, <2>2 DEF FoundAnswer
<1>12. sel # <<>> => a.skills # <<>>
  <2>1. sel # <<>> => m # 0
    BY <1>3, EmptySeq DEF m
  <2>2. m # 0 => 1 \in DOMAIN a.skills
    BY <1>4, <1>5
  <2> QED BY <2>1, <2>2
<1>13. a.skills \in Seq(ReturnedBy(a))
  <2> HIDE DEF T
  <2>1. a.skills \in Seq(T)
    BY <1>4, <1>9, ListFacts
  <2> QED BY <1>7, <2>1 DEF T
<1> QED BY <1>3, <1>4, <1>5, <1>7, <1>8, <1>9, <1>10, <1>11, <1>12, <1>13 DEF sel, Returns

(* The caller is shown a part of what was returned, and nothing only if
   nothing was returned or none was asked for. *)
LEMMA ShownPart ==
    ASSUME NEW a, a.skills \in Seq(ReturnedBy(a)), a.limit \in Limits \cup {Nil}
    PROVE  /\ {Shown(a)[k] : k \in DOMAIN Shown(a)} \subseteq ReturnedBy(a)
           /\ a.degraded = {} /\ Shown(a) = <<>> => a.skills = <<>> \/ a.limit = 0
<1> DEFINE limit == LimitOf(a)
           T == ReturnedBy(a)
           n == Len(a.skills)
           m == IF n < limit THEN n ELSE limit
           cut == Truncate(a.skills, limit)
<1>1. limit \in Nat /\ (limit = 0 => a.limit = 0)
  BY RequestsAssumption DEF LimitOf, DefaultLimit
<1>2. n \in Nat /\ a.skills \in [1..n -> T] /\ (a.skills # <<>> => n # 0)
  BY LenProperties, EmptySeq
<1> HIDE DEF limit, T, n
<1>3. LET b == IF n < limit THEN n ELSE limit
      IN  /\ Truncate(a.skills, limit) \in [1..b -> T]
          /\ \A k \in 1..b : k \in 1..n /\ Truncate(a.skills, limit)[k] = a.skills[k]
          /\ Distinct(a.skills) => Distinct(Truncate(a.skills, limit))
  BY <1>1, <1>2, TruncateFacts
<1>4. cut \in [1..m -> T]
  BY <1>3
<1>5. {cut[k] : k \in DOMAIN cut} \subseteq T
  BY <1>4
<1>6. n # 0 /\ limit # 0 => cut # <<>>
  <2>1. m \in Nat /\ (n # 0 /\ limit # 0 => m # 0)
    BY <1>1, <1>2
  <2> HIDE DEF m, cut
  <2>2. cut \in Seq(T) /\ Len(cut) = m
    BY <1>4, <2>1, ListFacts
  <2>3. Len(<<>>) = 0
    OBVIOUS
  <2> QED BY <2>1, <2>2, <2>3
<1>7. {a.skills[k] : k \in DOMAIN a.skills} \subseteq T
  BY DEF T, ReturnedBy
<1>8. Shown(a) = a.skills \/ (Shown(a) = <<>> /\ a.degraded # {}) \/ Shown(a) = cut
  BY DEF Shown, limit
<1>9. Shown(a) = <<>> => DOMAIN Shown(a) = {}
  OBVIOUS
<1> QED BY <1>1, <1>2, <1>5, <1>6, <1>7, <1>8, <1>9 DEF T

LEMMA IsolationFacts ==
    ASSUME NEW r, LoadedOK(r), r.prompt \in Queries, NEW I, I \in SUBSET (DOMAIN r.res.scopes),
           NEW ranked, RankedOK(ranked, r, I), NEW a, FoundAnswer(r, a, ranked)
    PROVE  IsolatedAnswer(a) /\ NothingTwice(a)
<1>1. /\ ReturnedBy(a) = IdsOf(Selected(ranked))
      /\ IdsOf(Selected(ranked)) \subseteq IdsOf(ranked)
      /\ Quoted(a) \subseteq IdsOf(ranked) \ IdsOf(Selected(ranked))
      /\ Cardinality(IdsOf(Selected(ranked))) = Len(a.skills)
  <2>1. Returns(a, ranked)
    BY ShownFacts
  <2> QED BY <2>1 DEF Returns
<1>2. RowsOf(a) = RowsOf(r) /\ Home(a) = Home(r)
  BY SameRequest
<1>3. {Shown(a)[k] : k \in DOMAIN Shown(a)} \subseteq IdsOf(ranked)
  <2>1. a.skills \in Seq(ReturnedBy(a))
    BY ShownFacts DEF Returns
  <2>2. a.limit \in Limits \cup {Nil}
    BY DEF FoundAnswer, LoadedOK
  <2> QED BY <1>1, <2>1, <2>2, ShownPart
<1>4. \A id \in IdsOf(ranked) : OwnSkill(r, id)
  BY RankedIsOwn
<1>5. \A id \in IdsOf(ranked) : OwnSkill(a, id)
  BY <1>2, <1>4 DEF OwnSkill
<1>6. IsolatedAnswer(a)
  BY <1>1, <1>3, <1>5 DEF IsolatedAnswer, OwnSkill
<1> QED BY <1>1, <1>6 DEF NothingTwice, ReturnedBy

LEMMA ExplainedFacts ==
    ASSUME NEW r, LoadedOK(r), r.prompt \in Queries, NEW I, I \in SUBSET (DOMAIN r.res.scopes),
           NEW ranked, RankedOK(ranked, r, I), NEW a, FoundAnswer(r, a, ranked),
           Status(a) = "no_match" => I = DOMAIN r.res.scopes
    PROVE  ExplainedAnswer(a)
<1> DEFINE skills == SkillsOf(r.snapshot)
<1> SUFFICES ASSUME Status(a) = "no_match", ~AskedForNone(a), NEW i \in DOMAIN a.res.scopes,
                    ~(Cardinality(InScope(a, a.res.scopes[i])) > CandidateLimit),
                    NEW id \in RelevantIn(a, a.res.scopes[i])
             PROVE  FALSE
  BY DEF ExplainedAnswer
<1>1. a.res = r.res /\ i \in I
  BY DEF FoundAnswer
<1>r. Returns(a, ranked)
  BY ShownFacts
<1>2. a.skills = <<>>
  <2>1. a.skills \in Seq(ReturnedBy(a))
    BY <1>r DEF Returns
  <2>2. a.limit \in Limits \cup {Nil} /\ a.limit # 0
    BY DEF FoundAnswer, LoadedOK, AskedForNone
  <2>3. a.degraded = {} /\ Shown(a) = <<>>
    BY DEF Status
  <2> QED BY <2>1, <2>2, <2>3, ShownPart
<1>3. ranked = <<>>
  <2>1. MaxResults # 0
    BY DEF AskedForNone
  <2> QED BY <1>2, <1>r, <2>1 DEF Returns
<1>4. IdsOf(ranked) = {}
  BY <1>3 DEF IdsOf
<1>5. PICK n \in RelevantOf(r.prompt, skills, r.res.scopes[i]) : id = skills[n].id
  BY <1>1, SameRequest
<1>6. Cardinality(InScopeOf(skills, r.res.scopes[i])) <= CandidateLimit
  <2> DEFINE B == InScopeOf(skills, r.res.scopes[i])
             d == Loads(r.snapshot.version)
  <2>1. r.snapshot.version \in Versions
    BY DEF LoadedOK
  <2>2. d \in Nat /\ DOMAIN skills = 1..d
    BY <2>1, SkillsFacts DEF Searchable
  <2>a. IsFiniteSet(1..d)
    <3>1. d \in Int /\ 1 \in Int
      BY <2>2
    <3> HIDE DEF d
    <3> QED BY <3>1, FS_Interval
  <2>b. B \in SUBSET (1..d)
    BY <2>2 DEF InScopeOf
  <2>3. IsFiniteSet(1..d) /\ B \in SUBSET (1..d)
    BY <2>a, <2>b
  <2>4. ~(Cardinality(B) > CandidateLimit)
    BY <1>1, SameRequest
  <2> HIDE DEF B, d
  <2>5. Cardinality(B) \in Nat
    BY <2>3, FS_Subset, FS_CardinalityType
  <2>6. CandidateLimit \in Nat
    BY RankingAssumption
  <2>7. Cardinality(B) <= CandidateLimit
    BY <2>4, <2>5, <2>6
  <2> QED BY <2>7 DEF B
<1>7. skills[n].id \in IdsOf(ranked)
  BY <1>1, <1>6 DEF RankedOK
<1> QED BY <1>4, <1>7

-----------------------------------------------------------------------------
(* Project knowledge first: the weights. *)

(* A project skill among the first 27 of its ranking outweighs every global
   one: 10 / (60 + 27) > 7 / (60 + 1). *)
LEMMA Weights ==
    /\ \A rank \in 1..27 : Contribution("project", rank) >= 11494
    /\ \A rank \in Nat \ {0} : Contribution("global", rank) <= 11475
<1>1. ASSUME NEW rank \in 1..27 PROVE Contribution("project", rank) >= 11494
  <2> DEFINE d == 60 + rank
             q == 1000000 \div d
  <2>1. Contribution("project", rank) = q
    BY DEF Contribution, scope_weight, RrfK
  <2>2. d \in 1..87
    OBVIOUS
  <2> HIDE DEF d
  <2>3. q \in Nat /\ 1000000 < d * (q + 1)
    BY <2>2
  <2> HIDE DEF q
  <2>4. d * (q + 1) <= 87 * (q + 1)
    BY <2>2, <2>3
  <2>5. 1000000 < 87 * (q + 1)
    BY <2>2, <2>3, <2>4
  <2> QED BY <2>1, <2>3, <2>5
<1>2. ASSUME NEW rank \in Nat \ {0} PROVE Contribution("global", rank) <= 11475
  <2> DEFINE d == 60 + rank
             q == 700000 \div d
  <2>1. Contribution("global", rank) = q
    BY DEF Contribution, scope_weight, RrfK
  <2>2. d \in Nat /\ d >= 61
    OBVIOUS
  <2> HIDE DEF d
  <2>3. q \in Nat /\ d * q <= 700000
    BY <2>2
  <2> HIDE DEF q
  <2>4. 61 * q <= d * q
    BY <2>2, <2>3
  <2>5. 61 * q <= 700000
    BY <2>2, <2>3, <2>4
  <2> QED BY <2>1, <2>3, <2>5
<1> QED BY <1>1, <1>2

(* The skill at a place of the rankings is of the scope of its ranking. *)
LEMMA PlaceSkill ==
    ASSUME NEW r, LoadedOK(r), r.prompt \in Queries, NEW I, NEW rankings, SearchesOf(rankings, r, I),
           NEW o \in Places(rankings)
    PROVE  \E n \in DOMAIN SkillsOf(r.snapshot) :
               /\ At(rankings, o).id = SkillsOf(r.snapshot)[n].id
               /\ SkillsOf(r.snapshot)[n].scope = rankings[o[1]].type
<1> DEFINE skills == SkillsOf(r.snapshot)
           cands == rankings[o[1]].candidates
<1>0. r.snapshot.version \in Versions
  BY DEF LoadedOK
<1>1. RankingsOK(rankings, Cardinality(I)) /\ DOMAIN rankings = 1..Cardinality(I)
  BY DEF SearchesOf, RankingsOK
<1>2. o[1] \in DOMAIN rankings /\ o[2] \in DOMAIN cands
  BY <1>1, PlacesFacts
<1>3. PICK i \in I : Searched(rankings[o[1]], r, r.res.scopes[i])
  BY <1>2 DEF SearchesOf
<1> DEFINE scope == r.res.scopes[i]
<1>4. Ranks(cands, r.prompt, SkillsOf(r.snapshot), scope) /\ rankings[o[1]].type = scope.type
  BY <1>3 DEF Searched
<1> HIDE DEF cands, scope
<1>5. CandidateOf(cands[o[2]], r, scope)
  BY <1>0, <1>2, <1>4, RankedCandidates
<1>6. PICK n \in RelevantOf(r.prompt, skills, scope) : cands[o[2]].id = skills[n].id
  BY <1>5 DEF CandidateOf
<1>7. n \in DOMAIN skills /\ skills[n].scope = scope.type
  BY DEF RelevantOf, InScopeOf, seeded_skill_matches_scope
<1>8. At(rankings, o).id = skills[n].id
  BY <1>6 DEF At, cands
<1> QED BY <1>4, <1>7, <1>8

(* Both scopes were found. *)
BothFound(r) == r.res.scopes = <<ProjectScope(r), GlobalScope>>

(* When both scopes are searched there is a ranking of each. *)
BothSearched(rankings, r, a, b) ==
    /\ a \in DOMAIN rankings /\ Searched(rankings[a], r, ProjectScope(r)) /\ rankings[a].type = "project"
    /\ b \in DOMAIN rankings /\ Searched(rankings[b], r, GlobalScope) /\ rankings[b].type = "global"
    /\ \A k \in DOMAIN rankings : k = a \/ k = b

LEMMA TwoRankings ==
    ASSUME NEW r, BothFound(r),
           NEW rankings, SearchesOf(rankings, r, DOMAIN r.res.scopes)
    PROVE  \E a, b : BothSearched(rankings, r, a, b)
<1> DEFINE I == DOMAIN r.res.scopes
           p == ProjectScope(r)
           g == GlobalScope
<1>1. I = 1..2 /\ r.res.scopes[1] = p /\ r.res.scopes[2] = g
  <2> HIDE DEF p, g
  <2>1. r.res.scopes = <<p, g>>
    BY DEF BothFound, p, g
  <2> QED BY <2>1
<1>2. Cardinality(1..2) = 2
  <2>1. PICK n \in Nat : n = 2
    OBVIOUS
  <2>2. Cardinality(1..n) = n
    BY FS_Interval
  <2> QED BY <2>1, <2>2
<1>3. Cardinality(I) = 2
  BY <1>1, <1>2
<1>4. DOMAIN rankings = 1..2
  BY <1>3 DEF SearchesOf, RankingsOK
<1>5. PICK a \in DOMAIN rankings : Searched(rankings[a], r, p)
  BY <1>1 DEF SearchesOf
<1>6. PICK b \in DOMAIN rankings : Searched(rankings[b], r, g)
  BY <1>1 DEF SearchesOf
<1>7. rankings[a].type = "project" /\ rankings[b].type = "global"
  BY <1>5, <1>6 DEF Searched, ProjectScope, GlobalScope, Descriptor
<1>8. a # b
  BY <1>7
<1>9. \A k \in DOMAIN rankings : k = a \/ k = b
  BY <1>4, <1>8
<1>10. BothSearched(rankings, r, a, b)
  BY <1>5, <1>6, <1>7, <1>9 DEF BothSearched
<1> QED BY <1>10

(* Then a skill has one place in the rankings, and its fused score is what
   that place contributes. *)
LEMMA OnePlace ==
    ASSUME NEW r, LoadedOK(r), r.prompt \in Queries, BothFound(r),
           NEW rankings, SearchesOf(rankings, r, DOMAIN r.res.scopes), NEW o \in Places(rankings)
    PROVE  Fused(rankings, At(rankings, o).id).score = Contribution(rankings[o[1]].type, o[2])
<1> DEFINE skills == SkillsOf(r.snapshot)
           I == DOMAIN r.res.scopes
           id == At(rankings, o).id
<1>0. r.snapshot.version \in Versions
  BY DEF LoadedOK
<1>1. RankingsOK(rankings, Cardinality(I)) /\ DOMAIN rankings = 1..Cardinality(I)
  BY DEF SearchesOf, RankingsOK
<1>a. PICK a, b : BothSearched(rankings, r, a, b)
  BY TwoRankings
<1>2. /\ a \in DOMAIN rankings /\ Searched(rankings[a], r, ProjectScope(r)) /\ rankings[a].type = "project"
      /\ b \in DOMAIN rankings /\ Searched(rankings[b], r, GlobalScope) /\ rankings[b].type = "global"
      /\ \A k \in DOMAIN rankings : k = a \/ k = b
  BY <1>a DEF BothSearched
<1>3. Distinct(skills)
  <2>1. Searchable(r.prompt, skills, Loads(r.snapshot.version))
    BY <1>0, SkillsFacts
  <2> QED BY <2>1 DEF Searchable
<1>4. Distinct(rankings[a].candidates) /\ Distinct(rankings[b].candidates)
  BY <1>2 DEF Searched, Ranks
<1>5. ASSUME NEW q \in Places(rankings), At(rankings, q).id = id PROVE q = o
  <2>1. PICK n \in DOMAIN skills : id = skills[n].id /\ skills[n].scope = rankings[o[1]].type
    BY PlaceSkill
  <2>2. PICK j \in DOMAIN skills : At(rankings, q).id = skills[j].id /\ skills[j].scope = rankings[q[1]].type
    BY PlaceSkill
  <2>3. n = j
    BY <1>3, <1>5, <2>1, <2>2 DEF Distinct
  <2>4. rankings[o[1]].type = rankings[q[1]].type
    BY <2>1, <2>2, <2>3
  <2>5. /\ o[1] \in DOMAIN rankings /\ o[2] \in DOMAIN rankings[o[1]].candidates /\ o = <<o[1], o[2]>>
        /\ q[1] \in DOMAIN rankings /\ q[2] \in DOMAIN rankings[q[1]].candidates /\ q = <<q[1], q[2]>>
    BY <1>1, PlacesFacts
  <2>6. o[1] = q[1]
    BY <1>2, <2>4, <2>5
  <2>7. Distinct(rankings[o[1]].candidates)
    BY <1>2, <1>4, <2>5
  <2>8. rankings[o[1]].candidates[o[2]].id = rankings[o[1]].candidates[q[2]].id
    BY <1>5, <2>6 DEF At
  <2>9. o[2] = q[2]
    BY <2>5, <2>6, <2>7, <2>8 DEF Distinct
  <2> QED BY <2>5, <2>6, <2>9
<1>6. Occurrences(rankings, id) = {o}
  BY <1>5 DEF Occurrences
<1>7. Occurrences(rankings, id) # {}
  BY <1>6
<1> HIDE DEF id
<1>8. Fused(rankings, id).score = Contribution(rankings[o[1]].type, o[2])
  <2>1. LoneScore(rankings, id)
    <3> HIDE DEF I
    <3> QED BY <1>1, <1>7, FusedFacts
  <2> QED BY <1>6, <2>1 DEF LoneScore
<1> QED BY <1>8 DEF id

-----------------------------------------------------------------------------
(* Project knowledge first: the ranking. *)

LEMMA FirstNumbers ==
    ASSUME NEW n \in Nat
    PROVE  IsFiniteSet(1..n) /\ Cardinality(1..n) = n
<1>1. IsFiniteSet(1..n)
  BY FS_Interval
<1>2. Cardinality(1..n) = n
  BY FS_Interval
<1> QED BY <1>1, <1>2

(* m places have no room for n > m different things. *)
LEMMA TooMany ==
    ASSUME NEW n \in Nat, NEW m \in Nat, m < n, NEW f \in [1..n -> 1..m]
    PROVE  \E x, y \in 1..n : x # y /\ f[x] = f[y]
<1> DEFINE S == 1..n
           T == 1..m
<1>1. IsFiniteSet(S) /\ IsFiniteSet(T) /\ Cardinality(T) < Cardinality(S)
  BY FirstNumbers
<1>2. f \in [S -> T]
  OBVIOUS
<1>3. \A h \in [S -> T] : \E x, y \in S : x # y /\ h[x] = h[y]
  <2> HIDE DEF S, T
  <2> QED BY <1>1, FS_PigeonHole
<1> QED BY <1>2, <1>3

LEMMA WithinLimit ==
    ASSUME NEW k \in Nat, k # 0, NEW limit \in Nat, k <= limit, limit <= 27
    PROVE  k \in 1..27
OBVIOUS

LEMMA PastLimit ==
    ASSUME NEW m \in Nat, NEW k \in 1..m, k \notin 1..27
    PROVE  \A x \in 1..27 : x \in 1..m
<1>1. k \in Int /\ k >= 1 /\ k <= m /\ k > 27
  OBVIOUS
<1> QED BY <1>1

(* A skill of the ranking before a position. *)
Before(ranked, id, g) == \E k \in DOMAIN ranked : ranked[k].id = id /\ k < g

(* If the first 27 of some candidates come before one of the first 27, then
   all of them do. *)
LEMMA AllBefore ==
    ASSUME NEW m \in Nat, NEW cands, DOMAIN cands = 1..m, Distinct(cands),
           NEW n \in Nat, NEW ranked, DOMAIN ranked = 1..n, NEW g \in 1..27,
           \A x \in DOMAIN cands : x \in 1..27 => Before(ranked, cands[x].id, g),
           NEW y \in DOMAIN cands
    PROVE  Before(ranked, cands[y].id, g)
<1>1. CASE y \in 1..27
  BY <1>1
<1>2. CASE y \notin 1..27
  <2>1. \A x \in 1..27 : x \in 1..m
    <3>1. y \in 1..m
      OBVIOUS
    <3> QED BY <1>2, <3>1, PastLimit
  <2> DEFINE f == [x \in 1..27 |-> CHOOSE k \in DOMAIN ranked : ranked[k].id = cands[x].id /\ k < g]
  <2>2. ASSUME NEW x \in 1..27 PROVE f[x] \in 1..n /\ ranked[f[x]].id = cands[x].id /\ f[x] < g
    <3>1. \E k \in DOMAIN ranked : ranked[k].id = cands[x].id /\ k < g
      BY <2>1 DEF Before
    <3> QED BY <3>1
  <2>3. f = [x \in 1..27 |-> f[x]]
    OBVIOUS
  <2> HIDE DEF f
  <2>4. \A x \in 1..27 : f[x] \in 1..(g - 1)
    <3>1. \A k \in 1..n : k < g => k \in 1..(g - 1)
      OBVIOUS
    <3> QED BY <2>2, <3>1
  <2>5. f \in [1..27 -> 1..(g - 1)]
    BY <2>3, <2>4
  <2>6. g - 1 \in Nat /\ g - 1 < 27 /\ 27 \in Nat
    OBVIOUS
  <2>7. \E u, v \in 1..27 : u # v /\ f[u] = f[v]
    <3> DEFINE p == 27
               q == g - 1
    <3>1. p \in Nat /\ q \in Nat /\ q < p /\ f \in [1..p -> 1..q]
      BY <2>5, <2>6
    <3> HIDE DEF p, q
    <3>2. \E u, v \in 1..p : u # v /\ f[u] = f[v]
      BY <3>1, TooMany
    <3> QED BY <3>2 DEF p
  <2>8. PICK u, v \in 1..27 : u # v /\ f[u] = f[v]
    BY <2>7
  <2>9. u \in DOMAIN cands /\ v \in DOMAIN cands /\ cands[u].id = cands[v].id
    BY <2>1, <2>2, <2>8
  <2> QED BY <2>8, <2>9 DEF Distinct
<1> QED BY <1>1, <1>2

(* The project skills that come before a global one. *)
LEMMA ProjectBefore ==
    ASSUME NEW r, LoadedOK(r), r.prompt \in Queries, BothFound(r),
           NEW rankings, SearchesOf(rankings, r, DOMAIN r.res.scopes),
           NEW ranked, Fuses(ranked, rankings), NEW a, NEW b, BothSearched(rankings, r, a, b),
           NEW j \in DOMAIN SkillsOf(r.snapshot), SkillsOf(r.snapshot)[j].scope = "global",
           NEW g \in DOMAIN ranked, ranked[g].id = SkillsOf(r.snapshot)[j].id,
           NEW x \in DOMAIN rankings[a].candidates, x \in 1..27
    PROVE  Before(ranked, rankings[a].candidates[x].id, g)
<1> DEFINE skills == SkillsOf(r.snapshot)
           I == DOMAIN r.res.scopes
           F == {Fused(rankings, At(rankings, o).id) : o \in Places(rankings)}
           p == <<a, x>>
<1>0. r.snapshot.version \in Versions
  BY DEF LoadedOK
<1>1. RankingsOK(rankings, Cardinality(I)) /\ DOMAIN rankings = 1..Cardinality(I)
  BY DEF SearchesOf, RankingsOK
<1>2. a \in DOMAIN rankings /\ rankings[a].type = "project"
  BY DEF BothSearched
<1>3. Distinct(skills)
  <2>1. Searchable(r.prompt, skills, Loads(r.snapshot.version))
    BY <1>0, SkillsFacts
  <2> QED BY <2>1 DEF Searchable
<1>4. ranked \in Seq(F)
  BY DEF Fuses
<1>5. \A c \in F : \E o \in Places(rankings) : c = Fused(rankings, At(rankings, o).id)
  OBVIOUS
<1> HIDE DEF F
<1>6. \A k \in DOMAIN ranked : ranked[k] \in F
  BY <1>4
<1>7. ASSUME NEW o \in Places(rankings) PROVE Fused(rankings, At(rankings, o).id).id = At(rankings, o).id
  <2>1. o \in Occurrences(rankings, At(rankings, o).id)
    BY DEF Occurrences
  <2>2. Occurrences(rankings, At(rankings, o).id) # {}
    BY <2>1
  <2> QED BY <1>1, <2>2, FusedFacts
<1>8. \A k \in DOMAIN ranked : \E o \in Places(rankings) :
          ranked[k] = Fused(rankings, At(rankings, o).id) /\ ranked[k].id = At(rankings, o).id
  BY <1>5, <1>6, <1>7
<1>9. ranked[g].score \in Int /\ ranked[g].score <= 11475
  <2>1. PICK o \in Places(rankings) :
            ranked[g] = Fused(rankings, At(rankings, o).id) /\ ranked[g].id = At(rankings, o).id
    BY <1>8
  <2>2. PICK n \in DOMAIN skills : At(rankings, o).id = skills[n].id /\ skills[n].scope = rankings[o[1]].type
    BY PlaceSkill
  <2>3. n = j
    BY <1>3, <2>1, <2>2 DEF Distinct
  <2>4. rankings[o[1]].type = "global"
    BY <2>2, <2>3
  <2>5. o[2] \in Nat \ {0}
    BY <1>1, PlacesFacts
  <2>6. ranked[g].score = Contribution("global", o[2])
    BY <2>1, <2>4, OnePlace
  <2> QED BY <2>5, <2>6, Weights, ContributionFacts
<1>10. p \in Places(rankings)
  BY <1>1, <1>2, PlacesFacts
<1>11. At(rankings, p) = rankings[a].candidates[x] /\ p[1] = a /\ p[2] = x
  BY DEF At
<1> HIDE DEF p
<1>12. PICK k \in DOMAIN ranked : ranked[k].id = At(rankings, p).id
  BY <1>10 DEF Fuses
<1>13. ranked[k] = Fused(rankings, At(rankings, p).id)
  BY <1>8, <1>12
<1>14. ranked[k].score = Contribution("project", x)
  BY <1>2, <1>10, <1>11, <1>13, OnePlace
<1>15. ranked[k].score \in Int /\ ranked[k].score >= 11494
  BY <1>14, Weights, ContributionFacts
<1>16. ranked[k].score > ranked[g].score
  BY <1>9, <1>15
<1>17. k < g
  BY <1>16 DEF Fuses
<1> QED BY <1>11, <1>12, <1>17 DEF Before

LEMMA ProjectFirstFacts ==
    ASSUME NEW r, LoadedOK(r), r.prompt \in Queries, BothFound(r),
           NEW rankings, SearchesOf(rankings, r, DOMAIN r.res.scopes),
           NEW ranked, ranked = weighted_reciprocal_rank_fusion(rankings),
           NEW ans, FoundAnswer(r, ans, ranked), MaxResults <= 27
    PROVE  ProjectKnowledgeFirst(ans)
<1> DEFINE skills == SkillsOf(r.snapshot)
           I == DOMAIN r.res.scopes
           project == r.res.scopes[1]
<1>0. r.snapshot.version \in Versions
  BY DEF LoadedOK
<1>1. RankingsOK(rankings, Cardinality(I))
  BY DEF SearchesOf
<1>2. Fuses(ranked, rankings)
  BY <1>1, FusionFacts
<1>3. RankedOK(ranked, r, I)
  BY RankedFacts
<1>4. PICK a, b : BothSearched(rankings, r, a, b)
  BY TwoRankings
<1> DEFINE cands == rankings[a].candidates
<1>5. project = ProjectScope(r)
  <2> DEFINE p == ProjectScope(r)
             q == GlobalScope
  <2>1. r.res.scopes = <<p, q>>
    BY DEF BothFound
  <2> HIDE DEF p, q
  <2>2. r.res.scopes[1] = p
    BY <2>1
  <2> QED BY <2>2 DEF p
<1>6. Ranks(cands, r.prompt, skills, project)
  BY <1>4, <1>5 DEF BothSearched, Searched
<1>a. I \in SUBSET (DOMAIN r.res.scopes)
  OBVIOUS
<1>7. /\ \A k \in DOMAIN ans.skills : k \in DOMAIN ranked /\ k <= MaxResults /\ ans.skills[k] = ranked[k].id
      /\ \A k \in DOMAIN ranked : k <= MaxResults => k \in DOMAIN ans.skills
  <2>1. Returns(ans, ranked)
    <3> HIDE DEF I
    <3> QED BY <1>3, <1>a, ShownFacts
  <2> QED BY <2>1 DEF Returns
<1>8. ans.res = r.res
  BY DEF FoundAnswer
<1> SUFFICES ASSUME NEW row \in RowsOf(ans), row.scope = "global", row.id \in ReturnedBy(ans),
                    ~(Cardinality(InScope(ans, project)) > CandidateLimit),
                    NEW id \in RelevantIn(ans, project)
             PROVE  id \in ReturnedBy(ans)
  BY <1>8 DEF ProjectKnowledgeFirst, ReturnedBy
<1>9. PICK g \in DOMAIN ans.skills : ans.skills[g] = row.id
  BY DEF ReturnedBy
<1>10. g \in DOMAIN ranked /\ g <= MaxResults /\ ranked[g].id = row.id
  BY <1>7, <1>9
<1>11. PICK j \in DOMAIN skills : skills[j].id = row.id /\ skills[j].scope = "global"
  <2> DEFINE stored == Store[r.snapshot.version]
  <2>1. RowsOf(ans) = RowsOf(r)
    BY SameRequest
  <2>2. PICK i \in DOMAIN stored : row = stored[i]
    BY <2>1 DEF RowsOf
  <2>3. row.id \in IdsOf(ranked)
    BY <1>10 DEF IdsOf
  <2>4. PICK j \in DOMAIN skills : skills[j].id = row.id
    BY <1>3, <2>3 DEF RankedOK, RelevantOf, InScopeOf
  <2>5. j \in DOMAIN stored /\ skills[j] = Seeded(stored[j], r.snapshot.cold)
    BY <1>0, SkillsFacts
  <2>6. skills[j].id = stored[j].id /\ skills[j].scope = stored[j].scope
    BY <2>5 DEF Seeded
  <2>7. \A x, y \in DOMAIN stored : stored[x].id = stored[y].id => x = y
    BY <1>0, StoreAssumption
  <2>8. j = i
    BY <2>2, <2>4, <2>5, <2>6, <2>7
  <2> QED BY <2>2, <2>4, <2>6, <2>8
<1>12. ASSUME NEW x \in DOMAIN cands, x \in 1..27 PROVE Before(ranked, cands[x].id, g)
  <2>1. ranked[g].id = SkillsOf(r.snapshot)[j].id /\ SkillsOf(r.snapshot)[j].scope = "global"
    BY <1>10, <1>11
  <2>2. j \in DOMAIN SkillsOf(r.snapshot) /\ x \in DOMAIN rankings[a].candidates /\ g \in DOMAIN ranked
    BY <1>10, <1>11, <1>12
  <2> HIDE DEF skills
  <2>3. Before(ranked, rankings[a].candidates[x].id, g)
    BY <1>2, <1>4, <1>12, <2>1, <2>2, ProjectBefore
  <2> QED BY <2>3
<1>13. PICK n \in RelevantOf(r.prompt, skills, project) : id = skills[n].id
  BY SameRequest
<1>14. Cardinality(InScopeOf(skills, project)) <= CandidateLimit
  <2> DEFINE B == InScopeOf(skills, project)
             d == Loads(r.snapshot.version)
  <2>1. d \in Nat /\ DOMAIN skills = 1..d
    <3>1. d \in Nat /\ Searchable(r.prompt, skills, d)
      BY <1>0, SkillsFacts
    <3> QED BY <3>1 DEF Searchable
  <2>2. B \in SUBSET (1..d)
    BY <2>1 DEF InScopeOf
  <2>3. ~(Cardinality(B) > CandidateLimit)
    BY SameRequest
  <2> HIDE DEF B, d
  <2>4. IsFiniteSet(1..d)
    BY <2>1, FirstNumbers
  <2>5. Cardinality(B) \in Nat
    BY <2>2, <2>4, FS_Subset, FS_CardinalityType
  <2>6. CandidateLimit \in Nat
    BY RankingAssumption
  <2>7. Cardinality(B) <= CandidateLimit
    BY <2>3, <2>5, <2>6
  <2> QED BY <2>7 DEF B
<1>15. PICK y \in DOMAIN cands : cands[y].id = id
  <2>1. \A i \in RelevantOf(r.prompt, skills, project) : \E k \in DOMAIN cands : cands[k] = Candidate(r.prompt, project, skills[i])
    BY <1>6, <1>14 DEF Ranks
  <2>2. PICK k \in DOMAIN cands : cands[k] = Candidate(r.prompt, project, skills[n])
    BY <1>13, <2>1
  <2>3. Candidate(r.prompt, project, skills[n]).id = skills[n].id
    BY DEF Candidate
  <2> QED BY <1>13, <2>2, <2>3
<1>16. Len(cands) \in Nat /\ DOMAIN cands = 1..Len(cands)
  <2> HIDE DEF cands, project
  <2> QED BY <1>0, <1>6, RankedCandidates
<1>17. g \in Nat /\ MaxResults \in Nat /\ g # 0 /\ DOMAIN ranked = 1..Len(ranked) /\ Len(ranked) \in Nat
  <2>1. Len(ranked) \in Nat /\ DOMAIN ranked = 1..Len(ranked)
    BY <1>2, LenProperties DEF Fuses
  <2>2. g \in Nat /\ g # 0
    BY <1>10, <2>1
  <2> QED BY <2>1, <2>2, RankingAssumption
<1> HIDE DEF cands, skills, project
<1>18. g \in 1..27
  BY <1>10, <1>17, WithinLimit
<1>19. Distinct(cands)
  BY <1>6 DEF Ranks
<1>20. Before(ranked, cands[y].id, g)
  BY <1>12, <1>16, <1>17, <1>18, <1>19, AllBefore
<1>21. PICK k \in DOMAIN ranked : ranked[k].id = id /\ k < g
  BY <1>15, <1>20 DEF Before
<1>22. k <= MaxResults
  BY <1>10, <1>17, <1>21
<1>23. k \in DOMAIN ans.skills /\ ans.skills[k] = id
  BY <1>7, <1>21, <1>22
<1> QED BY <1>23 DEF ReturnedBy

-----------------------------------------------------------------------------
(* The answers. *)

(* The answer to a search has the properties. *)
LEMMA FoundAnswerOK ==
    ASSUME NEW r, RequestOK(r), r.stage \in Working, LoadedOK(r), r.prompt \in Queries,
           NEW I, I \in SUBSET (DOMAIN r.res.scopes), NEW rankings, SearchesOf(rankings, r, I),
           NEW ranked, ranked = weighted_reciprocal_rank_fusion(rankings),
           NEW a, FoundAnswer(r, a, ranked), a.stage = "answer", RequestOK(a),
           a.trouble = {} => I = DOMAIN r.res.scopes /\ r.trouble = {}
    PROVE  AnswerOK(a)
<1>1. RankedOK(ranked, r, I)
  BY RankedFacts
<1>2. IsolatedAnswer(a) /\ NothingTwice(a)
  BY <1>1, IsolationFacts
<1>3. ExplainedAnswer(a)
  <2>1. Status(a) = "no_match" => a.degraded = {}
    BY DEF Status
  <2>2. a.degraded = {} => a.trouble = {}
    BY DEF RequestOK
  <2>3. Status(a) = "no_match" => I = DOMAIN r.res.scopes
    BY <2>1, <2>2
  <2> QED BY <1>1, <2>3, ExplainedFacts
<1>4. ASSUME MaxResults <= 27 PROVE ProjectKnowledgeFirst(a)
  <2>1. CASE a.trouble = {}
    <3>1. r.trouble = {} /\ I = DOMAIN r.res.scopes
      BY <2>1
    <3>2. r.res.degraded = {}
      BY <3>1 DEF RequestOK
    <3>3. BothFound(r)
      BY <3>2 DEF LoadedOK, ScopesOK, BothFound
    <3>4. SearchesOf(rankings, r, DOMAIN r.res.scopes)
      BY <3>1
    <3> QED BY <1>4, <3>3, <3>4, ProjectFirstFacts
  <2>2. CASE a.trouble # {}
    BY <2>2 DEF ProjectKnowledgeFirst
  <2> QED BY <2>1, <2>2
<1> QED BY <1>2, <1>3, <1>4 DEF AnswerOK

LEMMA SearchAnswers ==
    ASSUME RequestsInv, RequestsInv', AnswersInv, NEW c \in Calls,
           NEW results \in Outcomes(req[c]), Search(c, results)
    PROVE  AnswersInv'
<1> DEFINE r == req[c]
           split == split_results(r, results)
           I == split.ok
           rankings == search_scopes_concurrently(r, split)
           ranked == weighted_reciprocal_rank_fusion(rankings)
           degraded == r.res.degraded \cup split.failed
           reasons == r.res.reasons \o split.reasons
           trouble == IF split.ok = DOMAIN results THEN r.trouble ELSE r.trouble \cup {"search"}
           context == IF r.tool = "compile_context" THEN compile_markdown(r.prompt, ranked) ELSE <<>>
           a == Answer(r, trouble, [k \in DOMAIN Selected(ranked) |-> Selected(ranked)[k].id],
                       context, degraded, IF reasons = <<>> THEN Nil ELSE Head(reasons))
           b == Degraded(r, trouble, degraded, reasons)
<1>1. /\ r.stage = "search" /\ DOMAIN results = DOMAIN r.res.scopes
      /\ req' = [req EXCEPT ![c] = IF split.ok = {} THEN b ELSE a]
  BY DEF Search, Outcomes
<1>2. RequestOK(r) /\ r.stage \in Working /\ LoadedOK(r) /\ r.prompt \in Queries
  BY <1>1 DEF RequestsInv, Working, AnswersInv, LoadedOK
<1>3. I \in SUBSET (DOMAIN r.res.scopes)
  BY <1>1 DEF split_results
<1>4. DOMAIN r.res.scopes # {}
  BY <1>2 DEF RequestOK, ResolvedInv
<1>5. DOMAIN req = Calls /\ RequestOK(req'[c])
  BY DEF RequestsInv
<1>6. /\ a.stage = "answer" /\ a.trouble = trouble
      /\ a.prompt = r.prompt /\ a.repo = r.repo /\ a.snapshot = r.snapshot /\ a.res = r.res
      /\ a.limit = r.limit
      /\ a.skills = [k \in DOMAIN Selected(ranked) |-> Selected(ranked)[k].id]
      /\ a.context = context
  BY DEF Answer
<1>7. FoundAnswer(r, a, ranked)
  <2> HIDE DEF a, ranked, r
  <2> QED BY <1>6 DEF FoundAnswer
<1>8. trouble = {} => I = DOMAIN r.res.scopes /\ r.trouble = {}
  BY <1>1
<1> HIDE DEF a, b, r, split, ranked
<1>9. CASE I = {}
  <2>1. trouble # {}
    BY <1>4, <1>8, <1>9
  <2>2. req' = [req EXCEPT ![c] = b] /\ RequestOK(b)
    BY <1>1, <1>5, <1>9
  <2> HIDE DEF trouble, degraded, reasons
  <2>3. AnswerOK(b) /\ b.stage = "answer"
    BY <2>1, <2>2, DegradedAnswer DEF b
  <2> QED BY <2>2, <2>3, OneAnswer DEF Working
<1>10. CASE I # {}
  <2>1. req' = [req EXCEPT ![c] = a] /\ RequestOK(a)
    BY <1>1, <1>5, <1>10
  <2> HIDE DEF I, trouble, degraded, reasons, rankings
  <2>2. SearchesOf(rankings, r, I)
    BY <1>2, <1>3, SearchesFacts DEF rankings, I
  <2>3. a.trouble = {} => I = DOMAIN r.res.scopes /\ r.trouble = {}
    BY <1>6, <1>8
  <2>4. ranked = weighted_reciprocal_rank_fusion(rankings) /\ a.stage = "answer"
    BY <1>6 DEF ranked
  <2>5. AnswerOK(a)
    BY <1>2, <1>3, <1>7, <2>1, <2>2, <2>3, <2>4, FoundAnswerOK
  <2> QED BY <2>1, <2>4, <2>5, OneAnswer DEF Working
<1> QED BY <1>9, <1>10

LEMMA InitAnswers == Init => AnswersInv
BY DEF Init, Idle, AnswersInv, Working

LEMMA NextAnswers ==
    ASSUME RequestsInv, RequestsInv', RebuildInv, AnswersInv, [Next]_vars
    PROVE  AnswersInv'
<1>1. CASE UNCHANGED req
  BY <1>1 DEF AnswersInv
<1>2. ASSUME NEW c \in Calls, NEW new, req' = [req EXCEPT ![c] = new], new.stage \in {"refused", "done"}
      PROVE  AnswersInv'
  BY <1>2, OneAnswer DEF Working
<1>3. ASSUME NEW c \in Calls, Refuse(c) PROVE AnswersInv'
  <2>1. PICK code : req' = [req EXCEPT ![c] = [stage |-> "refused", code |-> code]]
    BY <1>3 DEF Refuse
  <2>2. [stage |-> "refused", code |-> code].stage = "refused"
    OBVIOUS
  <2> QED BY <1>2, <2>1, <2>2
<1>4. ASSUME NEW c \in Calls, Respond(c) PROVE AnswersInv'
  <2>1. req' = [req EXCEPT ![c] = [stage |-> "done", tool |-> req[c].tool]]
    BY <1>4 DEF Respond
  <2>2. [stage |-> "done", tool |-> req[c].tool].stage = "done"
    OBVIOUS
  <2> QED BY <1>2, <2>1, <2>2
<1>5. ASSUME NEW c \in Calls, Serve(c) PROVE AnswersInv'
  BY <1>4, <1>5, GateAnswers, AcquireAnswers, EmbedAnswers, SearchAnswers DEF Serve
<1>6. ASSUME NEW answering, NEW cold, Boot(answering, cold) PROVE UNCHANGED req
  BY <1>6 DEF Boot
<1>7. ASSUME NEW cold, swap_graph(cold) PROVE UNCHANGED req
  BY <1>7 DEF swap_graph
<1>8. CASE Cool \/ TakeUsage \/ Poll \/ PanicRebuild
  BY <1>1, <1>8 DEF Cool, TakeUsage, Poll, PanicRebuild
<1>9. ASSUME NEW result, WriteUsage(result) PROVE UNCHANGED req
  BY <1>9 DEF WriteUsage
<1>10. ASSUME NEW j, enqueue_rebuild(j) PROVE UNCHANGED req
  BY <1>10 DEF enqueue_rebuild
<1>11. ASSUME NEW ok, NEW committed, FinishRebuild(ok, committed) PROVE UNCHANGED req
  BY <1>11 DEF FinishRebuild
<1>12. CASE UNCHANGED vars
  BY <1>1, <1>12 DEF vars
<1> QED BY <1>1, <1>3, <1>5, <1>6, <1>7, <1>8, <1>9, <1>10, <1>11, <1>12, ReceiveAnswers DEF Next

(* Every answer is about the version and the scopes its request found. *)
THEOREM AnswersInvariant == Spec => []AnswersInv
<1>1. Init => AnswersInv
  BY InitAnswers
<1>2. RequestsInv /\ RequestsInv' /\ RebuildInv /\ AnswersInv /\ [Next]_vars => AnswersInv'
  BY NextAnswers
<1> QED BY <1>1, <1>2, RequestsInvariant, RebuildInvariant, PTL DEF Spec

(* No answer shows or quotes a skill of another project, of another version
   or of another scope, whatever is swapped in while the request waits
   (retrieve, perform_scope_search, compile_markdown). *)
THEOREM AnswersIsolated == Spec => []AnswersAreIsolated
<1>1. AnswersInv => AnswersAreIsolated
  BY DEF AnswersInv, AnswersAreIsolated, Answering, AnswerOK, IsolatedAnswer
<1> QED BY <1>1, AnswersInvariant, PTL

(* "No match" is said only when the caller asked for no skill (limit 0, or a
   server configured to return none), or nothing that was loaded for the
   scopes is relevant, or a scope holds more skills than candidate_limit
   (FindSkillTool::invoke, rank_by_cosine, mmr_select,
   weighted_reciprocal_rank_fusion). *)
THEOREM EmptyAnswersExplained == Spec => []EmptyIsExplained
<1>1. AnswersInv => EmptyIsExplained
  BY DEF AnswersInv, EmptyIsExplained, Answering, AnswerOK, ExplainedAnswer
<1> QED BY <1>1, AnswersInvariant, PTL

(* Project knowledge comes first, no skill is returned twice and none is
   quoted beside its own section, for a server that returns at most 27
   skills: the 28th project skill of a ranking weighs less than the first
   global one (weighted_reciprocal_rank_fusion, scope_weight). *)
THEOREM ProjectAnswersFirst ==
    ASSUME MaxResults <= 27
    PROVE  Spec => []ProjectFirst
<1>1. AnswersInv => ProjectFirst
  <2> SUFFICES ASSUME AnswersInv, NEW c \in Calls, req[c].stage = "answer"
               PROVE  NothingTwice(req[c]) /\ ProjectKnowledgeFirst(req[c])
    BY DEF ProjectFirst, Answering, NothingTwice, ProjectKnowledgeFirst
  <2> QED BY DEF AnswersInv, AnswerOK
<1> QED BY <1>1, AnswersInvariant, PTL
=============================================================================

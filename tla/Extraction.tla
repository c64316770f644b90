----------------------------- MODULE Extraction -----------------------------
(***************************************************************************)
(* One extraction job, from the transcript to the batch of drafts, while   *)
(* other workers write batches of their own into the same directory and a  *)
(* reviewer empties it.                                                    *)
(*                                                                         *)
(* The orchestrated path mines a preamble, cuts the events into windows,   *)
(* maps the windows to candidates concurrently, merges equivalent ones and *)
(* adds what the synthesis proposes; the single-shot path asks once for    *)
(* the whole transcript.  Every answer of a model is a choice, failures    *)
(* included.                                                               *)
(***************************************************************************)
EXTENDS SessionEvents, DraftWriter, Providers

CONSTANTS
    Requests,        \* requests: [path, ref, repo, lines]
    Worker,          \* the writer this job runs on
    Environment,     \* the settings the extractor is built from
    Budgets,         \* tier -> tokens of a window
    Overlap,         \* events two windows share
    MapConcurrency,  \* windows mapped at the same time
    Substantive,     \* characters that make an empty answer suspicious
    RetryLimit,      \* further attempts at a suspicious window
    MaxAttempts,     \* attempts of the single-shot path
    PreambleCap,     \* lines of the preamble
    MaxSynthesis     \* candidates one synthesis proposes

ASSUME ExtractionAssumption ==
    /\ Worker \in Writers
    /\ \A path \in {"orchestrated", "legacy"} : from_environment([Environment EXCEPT !.run_path = path])
    /\ \A tier \in {"local", "frontier"} : Budgets[tier] \in Nat \ {0}
    /\ Overlap \in Nat /\ MapConcurrency \in Nat \ {0}
    /\ Substantive \in Nat /\ RetryLimit \in Nat /\ MaxAttempts \in Nat \ {0}
    /\ PreambleCap \in Nat /\ MaxSynthesis \in Nat

VARIABLES
    request,
    phase,     \* "accept", "load", "map", "reduce", "synthesis", "write" or "done"
    events,    \* of the transcript
    preamble,  \* preferences and facts of the session
    windows,
    mapping,   \* window -> "queued", "prose", "label", "ok" or "failed"
    tries,     \* window -> attempts made
    held,      \* window -> candidates it has so far
    cands,     \* the union of candidates, windows in the order they ended
    pair,      \* the two candidates the reduce step compares next
    absorbed,  \* candidate -> the one it was merged into, 0 for itself
    attempts   \* of the single-shot path

jobVars == <<request, phase, events, preamble, windows, mapping, tries, held, cands, pair,
             absorbed, attempts>>
vars == <<jobVars, draftVars>>

NoPreamble == [preferences |-> <<>>, repo |-> "none", language |-> "none", paths |-> 0]

Init ==
    /\ DraftInit
    /\ request \in Requests /\ phase = "accept"
    /\ events = <<>> /\ preamble = NoPreamble /\ windows = <<>>
    /\ mapping = <<>> /\ tries = <<>> /\ held = <<>>
    /\ cands = <<>> /\ pair = <<1, 2>> /\ absorbed = <<>> /\ attempts = 0

\* What the job holds is dropped when it ends.
NoRequest == [path |-> "none"]

Drop ==
    /\ request' = NoRequest
    /\ events' = <<>> /\ preamble' = NoPreamble /\ windows' = <<>> /\ mapping' = <<>> /\ tries' = <<>>
    /\ held' = <<>> /\ cands' = <<>> /\ pair' = <<1, 2>> /\ absorbed' = <<>> /\ attempts' = 0

Fail ==
    /\ phase' = "done"
    /\ Drop
    /\ UNCHANGED draftVars

Provider == parse_provider(Environment.provider)

\* What an extraction of a transcript, and the seams, may answer.
ReplyAnswers == {extract(Provider, Environment.timeout, reply) : reply \in Replies}
ExtractAnswers(lengths) ==
    IF validate_transcript_limits(lengths, Environment.limits) THEN ReplyAnswers ELSE {"invalid"}

Seam == build_text_llm(Provider)
NormalizeAnswers == {normalize(Seam, Environment.timeout, reply) : reply \in Replies}
LabelAnswers == {label(Seam, Environment.timeout, reply) : reply \in Replies}
SynthesisAnswers == {synthesize(Seam, Environment.timeout, reply) : reply \in Replies}
EquivalenceAnswers == {seam_decide_equivalence(Seam, Environment.timeout, reply) : reply \in Replies}

\* compute_routing_decision: the tier asked for, else the provider's own.
Tier ==
    CASE Environment.routing \in {"local", "frontier"} -> Environment.routing
      [] OTHER -> IF Provider = "ollama" THEN "local" ELSE "frontier"

TokenBudget == Budgets[Tier]

(***************************************************************************)
(* Accepting and loading.                                                  *)
(***************************************************************************)

\* validate_ref: a relative path without "..", to a file below the root.
ValidateRef(ref) == ref \in {"file", "unreadable"}

\* enqueue and extract_blocking: a request that cannot be served is refused.
Accept ==
    /\ phase = "accept"
    /\ IF (request.ref \in {"inline", "oversized"} \/ ValidateRef(request.ref))
            /\ ResolveScopeRoot(request.repo) # "error"
       THEN /\ phase' = "load"
            /\ UNCHANGED <<request, events, preamble, windows, mapping, tries, held, cands, pair,
                           absorbed, attempts, draftVars>>
       ELSE Fail

\* The payload is inline and small enough, or read from the file.
LoadRaw(ref) == ref \in {"inline", "file"}

\* parse_normalization_response: the normalizer returns some of the
\* preferences; one it rephrases has an uncertain scope.
NormalizedDrafts(draft) ==
    LET all == DOMAIN draft.preferences
        choose(keep, rephrased) ==
            LET kept == SetToSortSeq(keep, <)
            IN  [n \in DOMAIN kept |->
                    [draft.preferences[kept[n]] EXCEPT !.generality =
                        IF kept[n] \in rephrased THEN "uncertain" ELSE @]]
    IN  {[draft EXCEPT !.preferences = choose(keep, rephrased)] :
            keep \in SUBSET all, rephrased \in SUBSET all}

MinePreamble(es) == {EnforceTokenCap(d, PreambleCap) : d \in NormalizedDrafts(MineDraft(es))}

\* The preferences of a preamble are a list, whatever the session said.
ASSUME PreambleAssumption ==
    \A r \in Requests : \A draft \in MinePreamble(ParseSessionEvents(r.lines)) :
        draft.preferences \in Seq(ToSet(draft.preferences))

\* The events of a session are a list, whatever its lines hold, and each has a
\* length.
ASSUME EventsAssumption ==
    \A r \in Requests :
        LET es == ParseSessionEvents(r.lines)
        IN  es \in Seq(ToSet(es)) /\ \A n \in DOMAIN es : TextLength(es[n]) \in Nat

\* execute_job_orchestrated up to the map step.
LoadOrchestrated ==
    /\ phase = "load" /\ request.path = "orchestrated"
    /\ LET es == ParseSessionEvents(request.lines)
           ws == SegmentSession(es, TokenBudget, Overlap) IN
       \/ (~LoadRaw(request.ref) \/ es = <<>>) /\ Fail
       \/ LoadRaw(request.ref) /\ es # <<>> /\ NormalizeAnswers \cap Failures # {} /\ Fail
       \/ /\ LoadRaw(request.ref) /\ es # <<>>
          /\ phase' = "map" /\ events' = es /\ windows' = ws
          /\ preamble' \in MinePreamble(es)
          /\ mapping' = [n \in DOMAIN ws |-> "queued"]
          /\ tries' = [n \in DOMAIN ws |-> 0]
          /\ held' = [n \in DOMAIN ws |-> <<>>]
          /\ UNCHANGED <<request, cands, pair, absorbed, attempts, draftVars>>

(***************************************************************************)
(* The single-shot path.                                                   *)
(***************************************************************************)

LoadSingleShot ==
    /\ phase = "load" /\ request.path = "single_shot" /\ attempts = 0
    /\ IF ~LoadRaw(request.ref) \/ FlatTranscriptFails(request.lines)
       THEN Fail
       ELSE /\ attempts' = 1
            /\ UNCHANGED <<request, phase, events, preamble, windows, mapping, tries, held, cands,
                           pair, absorbed, draftVars>>

\* extract_with_retry: every error is retried, the last one fails the job.
ExtractWithRetry ==
    /\ phase = "load" /\ attempts > 0
    /\ \E answer \in ExtractAnswers(FlatTranscript(request.lines)) :
       \/ /\ answer \notin Failures
          /\ \E n \in IF answer = "no" THEN {0} ELSE {1, 2} :
                cands' = [k \in 1..n |-> [from |-> 0, kind |-> "prose", nr |-> k]]
          /\ absorbed' = [k \in DOMAIN cands' |-> 0]
          /\ phase' = "write"
          /\ UNCHANGED <<request, events, preamble, windows, mapping, tries, held, pair, attempts, draftVars>>
       \/ /\ answer \in Failures /\ attempts < MaxAttempts
          /\ attempts' = attempts + 1
          /\ UNCHANGED <<request, phase, events, preamble, windows, mapping, tries, held, cands,
                         pair, absorbed, draftVars>>
       \/ answer \in Failures /\ attempts = MaxAttempts /\ Fail

(***************************************************************************)
(* The map step.                                                           *)
(***************************************************************************)

keepInMap == <<request, phase, events, preamble, windows, pair, absorbed, attempts, draftVars>>

Running == {n \in DOMAIN windows : mapping[n] \in {"prose", "label"}}

\* A task gets a permit.
StartWindow(n) ==
    /\ phase = "map" /\ mapping[n] = "queued"
    /\ Cardinality(Running) < MapConcurrency
    /\ mapping' = [mapping EXCEPT ![n] = "prose"]
    /\ UNCHANGED <<keepInMap, tries, held, cands>>

IsSubstantive(n) == ContentChars(WindowEvents(events, windows[n])) >= Substantive

\* classify_prose_attempt: what an answer to the n-th window is taken for.
ClassifyProseAttempt(n, answer) ==
    CASE answer = "yes" -> "candidates"
      [] answer \in {"no", "unexpected"} /\ IsSubstantive(n) -> "suspicious"
      [] answer = "no" /\ ~IsSubstantive(n) -> "candidates"
      [] OTHER -> "hard error"

ProseCandidate(n) == [from |-> n, kind |-> "prose", nr |-> 1]

\* The window's turns after the preamble: none, when it has tool events only
\* and the preamble is empty.
WindowTranscript(n) ==
    LET turns == EventsToTranscript(WindowEvents(events, windows[n]))
    IN  IF RenderedSize(preamble) = 0 THEN turns ELSE <<RenderedSize(preamble)>> \o turns

\* extract_prose_window: a suspicious answer is asked for again, and taken as
\* empty when the attempts are used up.
ExtractProseWindow(n) ==
    /\ phase = "map" /\ mapping[n] = "prose"
    /\ \E answer \in ExtractAnswers(WindowTranscript(n)) :
        LET class == ClassifyProseAttempt(n, answer)
            retry == class = "suspicious" /\ tries[n] < RetryLimit IN
        /\ tries' = [tries EXCEPT ![n] = IF retry THEN @ + 1 ELSE @]
        /\ mapping' = [mapping EXCEPT ![n] =
                          CASE retry -> "prose" [] class = "hard error" -> "failed" [] OTHER -> "label"]
        /\ held' = [held EXCEPT ![n] = IF answer = "yes" THEN <<ProseCandidate(n)>> ELSE @]
    /\ UNCHANGED <<keepInMap, cands>>

\* The window's result joins the union.
EndWindow(n, candidates) ==
    /\ mapping' = [mapping EXCEPT ![n] = "ok"]
    /\ cands' = cands \o candidates
    /\ held' = [held EXCEPT ![n] = <<>>]

FailWindow(n) ==
    /\ mapping' = [mapping EXCEPT ![n] = "failed"]
    /\ held' = [held EXCEPT ![n] = <<>>]
    /\ UNCHANGED cands

\* map_episode: the labeler names the mined steps or drops them; its failure
\* fails the window.
MapEpisode(n) ==
    /\ phase = "map" /\ mapping[n] = "label"
    /\ LET skeleton == MineSkeleton(WindowEvents(events, windows[n])) IN
        \/ skeleton = <<>> /\ EndWindow(n, held[n])
        \/ /\ skeleton # <<>>
           /\ \E answer \in LabelAnswers :
              CASE answer = "yes" -> EndWindow(n, Append(held[n], [from |-> n, kind |-> "skeleton",
                                                                nr |-> Len(skeleton)]))
                [] answer = "no" -> EndWindow(n, held[n])
                [] OTHER -> FailWindow(n)
    /\ UNCHANGED <<keepInMap, tries>>

\* A panic of the task is one more failed window.
WindowPanics(n) ==
    /\ phase = "map" /\ mapping[n] \in {"prose", "label"}
    /\ FailWindow(n)
    /\ UNCHANGED <<keepInMap, tries>>

PreferenceCandidates == [k \in DOMAIN preamble.preferences |-> [from |-> 0, kind |-> "preference", nr |-> k]]

\* All windows have ended: no success and a failure fails the job.
JoinWindows ==
    /\ phase = "map" /\ \A n \in DOMAIN windows : mapping[n] \in {"ok", "failed"}
    /\ IF \E n \in DOMAIN windows : mapping[n] = "ok"
       THEN /\ phase' = "reduce"
            /\ cands' = cands \o PreferenceCandidates
            /\ absorbed' = [k \in DOMAIN cands' |-> 0]
            /\ pair' = <<1, 2>>
            /\ UNCHANGED <<request, events, preamble, windows, mapping, tries, held, attempts,
                           draftVars>>
       ELSE Fail

(***************************************************************************)
(* The reduce step and the synthesis.                                      *)
(***************************************************************************)

keepInReduce == <<request, events, preamble, windows, mapping, tries, held, cands, attempts,
                  draftVars>>

(* Faulty variant: an absorbed candidate goes on absorbing others. *)
NextPairAbsorbed(i, j, into) ==
    CASE j < Len(cands) -> <<i, j + 1>>
      [] j >= Len(cands) /\ i < Len(cands) -> <<i + 1, i + 2>>
      [] OTHER -> <<Len(cands) + 1, Len(cands) + 2>>

\* The pair after <<i, j>>, with i skipped once it is absorbed.
NextPair(i, j, into) ==
    LET later == {k \in (i + 1)..Len(cands) : into[k] = 0}
    IN  CASE j < Len(cands) -> <<i, j + 1>>
          [] j >= Len(cands) /\ later # {} -> <<Min(later), Min(later) + 1>>
          [] OTHER -> <<Len(cands) + 1, Len(cands) + 2>>

\* Vectors without a direction or below the threshold, and absorbed ones, are
\* passed over; the verifier decides on the others.
ComparePair ==
    /\ phase = "reduce" /\ pair[2] <= Len(cands)
    /\ LET i == pair[1]
           j == pair[2]
           merge(into) == absorbed' = into /\ pair' = NextPair(i, j, into) IN
        \/ merge(absorbed) /\ UNCHANGED <<keepInReduce, phase>>
        \/ /\ absorbed[j] = 0
           /\ \E answer \in EquivalenceAnswers :
              CASE answer = "yes" -> merge([absorbed EXCEPT ![j] = i]) /\ UNCHANGED <<keepInReduce, phase>>
                [] answer = "no" -> merge(absorbed) /\ UNCHANGED <<keepInReduce, phase>>
                [] OTHER -> Fail

\* The embedder fails.
ReduceFails == phase = "reduce" /\ cands # <<>> /\ Fail

ReduceDone ==
    /\ phase = "reduce" /\ pair[2] > Len(cands)
    /\ phase' = "synthesis"
    /\ UNCHANGED <<keepInReduce, absorbed, pair>>

\* The synthesis only adds: when it fails there are no further candidates.
Synthesize ==
    /\ phase = "synthesis"
    /\ \E answer \in SynthesisAnswers : \E n \in IF answer = "yes" THEN 1..MaxSynthesis ELSE {0} :
        /\ cands' = cands \o [k \in 1..n |-> [from |-> 0, kind |-> "synthesis", nr |-> k]]
        /\ absorbed' = absorbed \o [k \in 1..n |-> 0]
    /\ phase' = "write"
    /\ UNCHANGED <<request, events, preamble, windows, mapping, tries, held, pair, attempts,
                   draftVars>>

\* The candidates that are written, those no other one absorbed.
FinalCandidates == {k \in DOMAIN cands : absorbed[k] = 0}

\* Two names may have one slug.
WriteDrafts ==
    /\ phase = "write"
    /\ \E slugs \in [1..Cardinality(FinalCandidates) -> Slugs] : BeginBatch(Worker, slugs, request.repo)
    /\ phase' = "done"
    /\ Drop

(***************************************************************************)
(* The other workers, and the specification.                               *)
(***************************************************************************)

OtherBatch(w) ==
    /\ w # Worker
    /\ \E slugs \in {<<a>> : a \in Slugs} \cup {<<a, b>> : a, b \in Slugs} :
            BeginBatch(w, slugs, "none")
    /\ UNCHANGED jobVars

Next ==
    \/ Accept \/ LoadOrchestrated \/ LoadSingleShot \/ ExtractWithRetry
    \/ \E n \in DOMAIN windows :
            StartWindow(n) \/ ExtractProseWindow(n) \/ MapEpisode(n) \/ WindowPanics(n)
    \/ JoinWindows \/ ComparePair \/ ReduceFails \/ ReduceDone \/ Synthesize \/ WriteDrafts
    \/ \E w \in Writers : OtherBatch(w) \/ (WriterStep(w) /\ UNCHANGED jobVars)
    \/ ReviewStep /\ UNCHANGED jobVars

Spec == Init /\ [][Next]_vars

(***************************************************************************)
(* Properties.                                                             *)
(***************************************************************************)

\* Reduce loses nothing: a candidate that is not written was merged into an
\* earlier one that is, and every preference of the preamble is among the
\* candidates (reduce_candidates, execute_job_orchestrated).
CandidatesCovered ==
    phase = "write" =>
        /\ \A k \in DOMAIN cands : absorbed[k] # 0 => absorbed[k] < k /\ absorbed[absorbed[k]] = 0
        /\ \A k \in DOMAIN preamble.preferences : \E c \in DOMAIN cands :
                cands[c].kind = "preference" /\ cands[c].nr = k

\* The windows that skeletons and prompts are made from cover the session:
\* each line with an event is in a window, a window begins with the last
\* Overlap events of the one before if that has more, and a window of several
\* fits the budget when no line has two events (segment_session); the steps
\* of a skeleton are tool uses of its window, each once, and none before the
\* first failure (mine_skeleton); the gate drops no window with a preference
\* or a resolved error (gate_episodes).
WindowContracts ==
    phase = "map" =>
        LET seen(n) == WindowEvents(events, windows[n])
            skeleton(n) == MineSkeleton(seen(n)) IN
        /\ \A p \in DOMAIN events : \E n \in DOMAIN windows : events[p].index \in ToSet(windows[n])
        /\ \A n \in 1..(Len(windows) - 1), k \in 1..Overlap :
              Len(windows[n]) > Overlap =>
                  /\ k \in DOMAIN windows[n + 1]
                  /\ windows[n + 1][k] = windows[n][Len(windows[n]) - Overlap + k]
        /\ \A n \in DOMAIN windows :
              /\ \/ Len(windows[n]) = 1 \/ Tokens(seen(n)) <= TokenBudget
                 \/ Cardinality({events[p].index : p \in DOMAIN events}) < Len(events)
              /\ ToSet(skeleton(n)) \subseteq ToSet(seen(n))
              /\ \A a, b \in DOMAIN skeleton(n) : skeleton(n)[a].id = skeleton(n)[b].id => a = b
              /\ skeleton(n) # <<>> => NamedFailure(seen(n))
        /\ \A bound \in 0..2 : LET kept == GateEpisodes(windows, events, [kind |-> "top", bound |-> bound]) IN
              \A n \in DOMAIN windows : HardKeep(seen(n)) => n \in kept
=============================================================================

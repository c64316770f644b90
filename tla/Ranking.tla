------------------------------ MODULE Ranking ------------------------------
(* Retrieval over one in-memory snapshot: which seeded skills a scope may   *)
(* search, how they are scored and diversified inside the scope, and how    *)
(* the rankings of the scopes are fused.  All operators are pure.           *)
(* Scores, similarities and relevances are percentages (0..100) and the     *)
(* weights of eq. 3 are per cent too; the fused score is in units of 10^-6. *)
(* A query is [semantic, subunits, alike, shared]: the cosine of the prompt *)
(* with every skill, the scores of every skill's subunits, the pairs of     *)
(* skills whose embeddings nearly coincide, and the share of a skill's own  *)
(* words that the cues of another skill repeat.                             *)
EXTENDS Integers, Sequences, FiniteSets, SequencesExt

CONSTANTS
    CandidateLimit, \* RetrievalConfig.candidate_limit
    MaxResults,     \* RetrievalConfig.max_results
    RelevanceFloor, \* RetrievalConfig.relevance_threshold, per cent
    SubunitLimit    \* RetrievalConfig.max_subunits_per_skill

ASSUME RankingAssumption ==
    /\ {CandidateLimit, MaxResults, SubunitLimit} \subseteq Nat
    /\ RelevanceFloor \in Int

Alpha == 45
Beta == 35
Gamma == 20
MmrLambda == 65
RescueThreshold == 15
RrfK == 60
MaxRescuePerSkill == 2

-----------------------------------------------------------------------------
(* Sorting, filtering and adding up.  A sequence is ordered by counting:    *)
(* its k-th member has k - 1 members before it.                             *)

(* s itself: of a subsequence TLC keeps the elements, and does not compute  *)
(* each again whenever it is used.                                          *)
Whole(s) == SubSeq(s, 1, Len(s))

(* The members of a finite set in an order, given as a set of pairs.        *)
InOrder(D, before) ==
    Whole([k \in 1..Cardinality(D) |->
        CHOOSE x \in D : Cardinality({y \in D : <<y, x>> \in before}) = k - 1])

(* The greatest key first, and of equal keys the first position.            *)
Descending(keys) ==
    {p \in (DOMAIN keys) \X (DOMAIN keys) :
        keys[p[1]] > keys[p[2]] \/ (keys[p[1]] = keys[p[2]] /\ p[1] < p[2])}

(* What the stable sort_by of the code leaves.                              *)
SortedBy(s, keys) ==
    LET order == InOrder(DOMAIN s, Descending(keys)) IN Whole([k \in DOMAIN s |-> s[order[k]]])

(* What a filter leaves: the elements at some positions.                    *)
Kept(s, positions) ==
    LET order == InOrder(positions, {p \in positions \X positions : p[1] < p[2]})
    IN Whole([k \in DOMAIN order |-> s[order[k]]])

Truncate(s, limit) == SubSeq(s, 1, IF Len(s) < limit THEN Len(s) ELSE limit)

(* Pairs, row by row.                                                       *)
RowByRow(places) ==
    {p \in places \X places :
        p[1][1] < p[2][1] \/ (p[1][1] = p[2][1] /\ p[1][2] < p[2][2])}

SumOf(s) ==
    LET total[k \in 0..Len(s)] == IF k = 0 THEN 0 ELSE total[k - 1] + s[k]
    IN total[Len(s)]

-----------------------------------------------------------------------------
(* One scope.                                                               *)

(* Faulty variant: one file under a root of the scope is enough.            *)
seeded_skill_matches_any(seeded, scope) ==
    /\ seeded.scope = scope.type
    /\ seeded.scope_id = scope.id
    /\ \/ scope.paths = {}
       \/ \E path \in seeded.paths : path \in scope.paths

seeded_skill_matches_scope(seeded, scope) ==
    /\ seeded.scope = scope.type
    /\ seeded.scope_id = scope.id
    /\ \/ scope.paths = {}
       \/ seeded.paths # {} /\ seeded.paths \subseteq scope.paths

(* The candidate_limit skills nearest to the prompt, of those in scope.     *)
rank_by_cosine(query, skills) ==
    Truncate(SortedBy(skills, [i \in DOMAIN skills |-> query.semantic[skills[i].id]]),
             CandidateLimit)

(* The subunits of a skill: the mean semantic score of the best ones is the *)
(* evidence for the skill; the ones shown are the best of a blend.          *)
subunit_evidence(query, skill) ==
    LET units == query.subunits[skill.id]
        best  == Truncate(SortedBy(units, [i \in DOMAIN units |-> units[i].semantic]), SubunitLimit)
    IN IF best = <<>> THEN 0
       ELSE SumOf([i \in DOMAIN best |-> best[i].semantic]) \div Len(best)

Relevance(u) == (75 * u.semantic + 25 * u.lexical) \div 100

search_graph(query, skill) ==
    LET units == query.subunits[skill.id]
    IN [evidence |-> subunit_evidence(query, skill),
        projections |-> Truncate(SortedBy(units, [i \in DOMAIN units |-> Relevance(units[i])]),
                                 SubunitLimit)]

(* Eq. 3 with the default community mode, Off: no boost.                    *)
score_eq3(semantic, evidence, prior) ==
    (Alpha * semantic + Beta * evidence + Gamma * prior) \div 100

Candidate(query, scope, skill) ==
    LET hit == search_graph(query, skill)
    IN [id |-> skill.id, scope |-> scope.type,
        score |-> score_eq3(query.semantic[skill.id], hit.evidence, skill.prior),
        semantic |-> query.semantic[skill.id],
        highlights |-> hit.projections]

Similarity(query, a, b) == IF {a.id, b.id} \in query.alike THEN 100 ELSE 0

(* Greedy diversification: at every turn the first remaining candidate with *)
(* the best marginal relevance.                                             *)
Marginal(query, cands, chosen, i) ==
    LET redundancy == IF \E k \in DOMAIN chosen : Similarity(query, cands[i], cands[chosen[k]]) = 100
                      THEN 100 ELSE 0
    IN MmrLambda * cands[i].score - (100 - MmrLambda) * redundancy

MmrWinner(query, cands, chosen) ==
    LET rest == DOMAIN cands \ {chosen[k] : k \in DOMAIN chosen}
    IN InOrder(rest, Descending([i \in rest |-> Marginal(query, cands, chosen, i)]))[1]

mmr_select(query, cands, limit) ==
    LET size == IF Len(cands) < limit THEN Len(cands) ELSE limit
        pick[n \in 0..size] ==
            IF n = 0 THEN <<>>
            ELSE Append(pick[n - 1], MmrWinner(query, cands, pick[n - 1]))
    IN Whole([k \in 1..size |-> cands[pick[size][k]]])

(* Faulty variant: the floor is held against the cosine's part of the score.*)
perform_scope_search_cosine(query, skills, scope) ==
    LET scoped == Kept(skills, {i \in DOMAIN skills : seeded_skill_matches_scope(skills[i], scope)})
        hits   == rank_by_cosine(query, scoped)
        scored == Whole([i \in DOMAIN hits |-> Candidate(query, scope, hits[i])])
        above  == Kept(scored, {i \in DOMAIN scored :
                                   score_eq3(scored[i].semantic, 0, 0) >= RelevanceFloor})
    IN mmr_select(query, SortedBy(above, [i \in DOMAIN above |-> above[i].score]), CandidateLimit)

perform_scope_search(query, skills, scope) ==
    LET scoped == Kept(skills, {i \in DOMAIN skills : seeded_skill_matches_scope(skills[i], scope)})
        hits   == rank_by_cosine(query, scoped)
        scored == Whole([i \in DOMAIN hits |-> Candidate(query, scope, hits[i])])
        above  == Kept(scored, {i \in DOMAIN scored : scored[i].score >= RelevanceFloor})
    IN mmr_select(query, SortedBy(above, [i \in DOMAIN above |-> above[i].score]), CandidateLimit)

-----------------------------------------------------------------------------
(* Several scopes.  A ranking is [type, candidates].                        *)

(* Faulty variant: the weights of the two scopes are swapped.               *)
scope_weight_swapped(type) == IF type = "project" THEN 7 ELSE 10

scope_weight(type) == IF type = "project" THEN 10 ELSE 7

scope_priority(type) ==
    CASE type = "project" -> 3 [] type = "global" -> 2 [] OTHER -> 1

Contribution(type, rank) == (scope_weight(type) * 100000) \div (RrfK + rank)

(* The places of the rankings, as <<ranking, rank>>.                       *)
Places(rankings) == UNION {{k} \X DOMAIN rankings[k].candidates : k \in DOMAIN rankings}

At(rankings, o) == rankings[o[1]].candidates[o[2]]

Occurrences(rankings, id) == {o \in Places(rankings) : At(rankings, o).id = id}

(* The candidate that stands for a skill found more than once: the best     *)
(* score, then the nearer scope, then the first.                            *)
should_replace_representative(c, d) ==
    c.score > d.score
    \/ (c.score = d.score /\ scope_priority(c.scope) > scope_priority(d.scope))

Representative(rankings, id) ==
    LET found == Occurrences(rankings, id)
    IN At(rankings, InOrder(found, {p \in found \X found :
           LET c == At(rankings, p[1])
               d == At(rankings, p[2])
           IN \/ should_replace_representative(c, d)
              \/ ~should_replace_representative(d, c) /\ p \in RowByRow(found)})[1])

Fused(rankings, id) ==
    LET order == InOrder(Occurrences(rankings, id), RowByRow(Occurrences(rankings, id)))
    IN [Representative(rankings, id) EXCEPT !.score =
           SumOf([k \in DOMAIN order |-> Contribution(rankings[order[k][1]].type, order[k][2])])]

fused_candidate_order(c, d) ==
    \/ c.score > d.score
    \/ c.score = d.score /\ scope_priority(c.scope) > scope_priority(d.scope)
    \/ /\ c.score = d.score
       /\ scope_priority(c.scope) = scope_priority(d.scope)
       /\ c.semantic > d.semantic

(* One fused candidate per skill, in order.  The code iterates a hash map,  *)
(* so equal candidates would come in any order; two scopes with different   *)
(* weights leave none equal, and here the first found comes first.          *)
weighted_reciprocal_rank_fusion(rankings) ==
    LET places == Places(rankings)
        firsts == {o \in places : \A p \in places :
                      <<p, o>> \in RowByRow(places) => At(rankings, p).id # At(rankings, o).id}
        found  == InOrder(firsts, RowByRow(firsts))
        fused  == Whole([k \in DOMAIN found |-> Fused(rankings, At(rankings, found[k]).id)])
        order  == InOrder(DOMAIN fused, {p \in (DOMAIN fused) \X (DOMAIN fused) :
                      \/ fused_candidate_order(fused[p[1]], fused[p[2]])
                      \/ ~fused_candidate_order(fused[p[2]], fused[p[1]]) /\ p[1] < p[2]})
    IN [k \in DOMAIN order |-> fused[order[k]]]

(* The skills returned, and the cues kept from the ones left out.           *)
Selected(ranked) == Truncate(ranked, MaxResults)

RescuePool(ranked) ==
    LET shown  == {Selected(ranked)[k].id : k \in DOMAIN Selected(ranked)}
        places == {o \in UNION {{k} \X DOMAIN ranked[k].highlights : k \in DOMAIN ranked} :
                      /\ ranked[o[1]].id \notin shown
                      /\ Relevance(ranked[o[1]].highlights[o[2]]) >= RescueThreshold}
        order  == InOrder(places, RowByRow(places))
    IN Whole([n \in DOMAIN order |-> [source |-> ranked[order[n][1]].id,
                                      cue |-> ranked[order[n][1]].highlights[order[n][2]]]])

-----------------------------------------------------------------------------
(* The compiler: one section per returned skill, in order, with the best    *)
(* cues of the pool and the bucket its fused score falls in.                *)

score_bucket(score) ==
    CASE score >= 400000 -> "high" [] score \in 200000..399999 -> "medium" [] OTHER -> "low"

CueScore(query, id, cue) ==
    (60 * Relevance(cue.cue) + 40 * query.shared[<<id, cue.source>>]) \div 100

attach_rescue_cues(query, skills, pool) ==
    [k \in DOMAIN skills |->
        LET id    == skills[k].id
            units == skills[k].highlights
            fit   == Kept(pool, {n \in DOMAIN pool :
                                    pool[n].source # id /\ CueScore(query, id, pool[n]) > 0})
        IN [id |-> id, bucket |-> score_bucket(skills[k].score),
            highlights |-> Kept(units, {n \in DOMAIN units : Relevance(units[n]) > 0}),
            cues |-> Truncate(SortedBy(fit, [n \in DOMAIN fit |-> CueScore(query, id, fit[n])]),
                              MaxRescuePerSkill)]]

compile_markdown(query, ranked) ==
    attach_rescue_cues(query, Selected(ranked), RescuePool(ranked))
=============================================================================

----------------------------- MODULE Maintenance -----------------------------
(***************************************************************************)
(* The maintenance worker: its boot, the cron tick with the four proposal  *)
(* passes (merge, retire, promote, demote), and the human who reviews the  *)
(* proposal files the passes leave on disk.                                *)
(*                                                                         *)
(* A proposal is a file the worker creates with create_new: in its slot    *)
(* (a directory named after the skills it is about) there is at most one.  *)
(* The worker never takes a proposal away; only a reviewer does, by        *)
(* renaming or deleting the file.  A tick that meets an error leaves what  *)
(* it has written and ends the process, and the container restarts it.     *)
(***************************************************************************)
EXTENDS Integers, Sequences, FiniteSets, FiniteSetsExt, Providers

CONSTANTS
    Skills,          \* every skill of the machine
    ProjectSkills,   \* those of scope project; the others are global
    Mounted,         \* skills under the worker's own scope roots
    DirOf,           \* directory of a skill: path components from its scope root
    NamespaceDirs,   \* components that contain "skill" or start with a dot
    NameWords,       \* words of a skill's name and description
    BodyWords,       \* words of its subunits
    RootComponents,  \* path components of the mounted project root
    SkipComponents,  \* the common directory names among them, and the short
    Close,           \* pairs whose merge vectors reach the cosine threshold
    Uses,            \* skill_usage: the age in days of each use of a mounted skill
    Copy,            \* the global skill an approved promotion creates
    Merged,          \* the project skill an approved merge creates
    RawThreshold,    \* PROMOTION_RECURRENCE_THRESHOLD as configured
    Environment      \* verifier providers, keys, and the scope roots

GlobalSkills == Skills \ ProjectSkills

Pairs == {pair \in SUBSET Skills : Cardinality(pair) = 2}

ASSUME MaintenanceAssumption ==
    /\ ProjectSkills \subseteq Skills /\ Mounted \subseteq Skills
    /\ Close \subseteq Pairs
    /\ DOMAIN DirOf = Skills
    /\ Uses \in [Mounted -> Seq(Nat)]
    /\ Copy \in [ProjectSkills -> GlobalSkills]
    /\ DOMAIN Merged \subseteq Pairs /\ \A pair \in DOMAIN Merged : Merged[pair] \in ProjectSkills
    /\ \A s \in ProjectSkills : NameWords[Copy[s]] = NameWords[s]
    /\ RawThreshold \in Int

\* A threshold below two would promote any single skill: two is used instead.
Threshold == IF RawThreshold >= 2 THEN RawThreshold ELSE 2

\* The directory a proposal is written to: deterministic in the skills.
MergeSlot(pair) == [kind |-> "merge", of |-> pair]
RetireSlot(s) == [kind |-> "retire", of |-> {s}]
PromoteSlot(s) == [kind |-> "promote", of |-> {s}]
DemoteSlot(s) == [kind |-> "demote", of |-> {s}]

Slots == {MergeSlot(pair) : pair \in Pairs}
         \cup {RetireSlot(s) : s \in Skills}
         \cup {PromoteSlot(s) : s \in ProjectSkills}
         \cup {DemoteSlot(s) : s \in GlobalSkills}

NoFile == [origin |-> "none"]

\* Directories no walk descends into: build output, and the homes of the
\* skills that coding harnesses ship.
IGNORED_DIR_NAMES ==
    {".git", "target", "node_modules", ".github", ".claude", ".opencode", ".cursor",
     ".continue", ".aider", ".codeium", ".windsurf", ".gemini", ".amazonq"}

InIgnoredDir(s) == \E n \in DOMAIN DirOf[s] : DirOf[s][n] \in IGNORED_DIR_NAMES

Passes == <<"merge", "retire", "intrinsic", "recurrence", "demote">>

VARIABLES
    worker,      \* "down", "idle", or the pass that runs
    read,        \* TRUE once the pass has read its input
    todo,        \* the slots the pass has still to write
    snapshots,   \* skills the promotion runner loaded at boot
    last_run_at, \* TRUE once a tick of this process has executed
    active,      \* skills whose SKILL.md is on disk
    rows,        \* skills the graph-builder persisted
    proposals,   \* slot -> the proposal file in it, or NoFile
    provenance   \* the evidence a global skill was promoted on, if any

vars == <<worker, read, todo, snapshots, last_run_at, active, rows,
          proposals, provenance>>

world == <<active, rows, provenance>>

Init ==
    /\ worker = "down" /\ read = FALSE /\ todo = {} /\ snapshots = {} /\ last_run_at = FALSE
    /\ active \in {Skills \ new : new \in SUBSET ({Copy[s] : s \in ProjectSkills}
                                    \cup {Merged[pair] : pair \in DOMAIN Merged})}
    /\ rows = {s \in active : ~InIgnoredDir(s)}
    /\ proposals = [x \in Slots |-> NoFile]
    /\ provenance = [g \in GlobalSkills |-> "authored"]

(***************************************************************************)
(* Decisions the passes take, free of the file system.                     *)
(***************************************************************************)

\* A SKILL.md next to a retirement marker is not read.
HasRetiredMarker(s) == proposals[RetireSlot(s)] # NoFile

(* Faulty variant: the walk descends into every directory. *)
BuiltSkillsEverywhere == {s \in active : ~HasRetiredMarker(s)}

\* build_skills_from_scope_roots, for whoever walks the roots.
BuiltSkills == {s \in active : ~InIgnoredDir(s) /\ ~HasRetiredMarker(s)}

LoadedSkills == BuiltSkills \cap Mounted

\* Days a usage is remembered, and the months the score is averaged over.
ScoringWindow == 90
WindowMonths == 3

\* calculate_usage_score_per_month, scaled by the window and the months so
\* that it stays an integer: uses in the window, weighted by their recency.
WeightedUsage(u) ==
    IF u.age > ScoringWindow THEN 0 ELSE u.windowed * (ScoringWindow - u.age)

\* The threshold is one weighted use per month.
BelowThreshold(u) == WeightedUsage(u) < WindowMonths * ScoringWindow

\* The one batched query: all uses, those in the window, days since the last.
recent_usage(skills) ==
    [s \in skills |->
        [total |-> Len(Uses[s]),
         windowed |-> Cardinality({i \in DOMAIN Uses[s] : Uses[s][i] <= ScoringWindow}),
         age |-> IF Uses[s] = <<>> THEN 0
                 ELSE Min({Uses[s][i] : i \in DOMAIN Uses[s]})]]

\* A skill that was never used gives no sample and is not provably stale.
UsageSamples == {s \in LoadedSkills : recent_usage(LoadedSkills)[s].total > 0}

ColdSkills == {s \in UsageSamples : BelowThreshold(recent_usage(UsageSamples)[s])}

\* The words the verifiers and the promotion veto read.
SemanticText(s) == NameWords[s] \cup BodyWords[s]

\* Jaccard overlap of at least one in twenty: below it the verifier answers
\* "different" and asks no model; a skill without words matches nothing.
PassesPrefilter(pair) ==
    LET common == {w \in UNION {SemanticText(s) : s \in pair} : \A s \in pair : w \in SemanticText(s)}
    IN  /\ \A s \in pair : SemanticText(s) # {}
        /\ 20 * Cardinality(common) >= Cardinality(UNION {SemanticText(s) : s \in pair})

CrossScope(pair) == pair \cap ProjectSkills # {} /\ pair \cap GlobalSkills # {}

\* Pairs the merge pass asks the model about.
ComparedPairs ==
    {pair \in Close : pair \subseteq LoadedSkills /\ CrossScope(pair) /\ PassesPrefilter(pair)}

\* A merge is canonicalised down to the project scope when it involves one.
CanonicalScope(pair) == IF pair \cap ProjectSkills # {} THEN "project" ELSE "global"

\* Path components of the project roots that are not common names.
IdentifierTokens == RootComponents \ SkipComponents

(* Faulty variant: the veto reads the subunits only. *)
PromotionVetoBody(s) == BodyWords[s] \cap IdentifierTokens # {}

\* The veto of the intrinsic path reads name, description and subunits.
PromotionVeto(s) == SemanticText(s) \cap IdentifierTokens # {}

\* The demotion scan reads name and description only.
Offending(s) == NameWords[s] \cap IdentifierTokens

\* project_root_key: the nearest ancestor of the skill's own directory that is
\* not a skill namespace, else the directory's parent.
RootKey(dir) ==
    LET roots == {n \in 1..(Len(dir) - 1) : dir[n] \notin NamespaceDirs}
    IN  IF roots = {} THEN SubSeq(dir, 1, Len(dir) - 1)
        ELSE SubSeq(dir, 1, CHOOSE n \in roots : \A m \in roots : m <= n)

Roots(group) == {RootKey(DirOf[s]) : s \in group}

ProjectRows == rows \cap ProjectSkills

GlobalRows == rows \cap GlobalSkills

\* s and t are in one cluster of the union-find over the pairs the verifier
\* called equivalent.
Linked(edges, s, t) ==
    \A group \in SUBSET ProjectRows :
        (s \in group /\ \A e \in edges : e \cap group # {} => e \subseteq group)
            => t \in group

Cluster(edges, s) == {t \in ProjectRows : Linked(edges, s, t)}

\* The representatives the recurrence path writes: one row of each cluster
\* that spans enough roots, the first in an order the query does not fix.
RecurrenceChoices(edges) ==
    LET spanning == {group \in {Cluster(edges, s) : s \in ProjectRows} :
                        Cardinality(Roots(group)) >= Threshold}
    IN  {reps \in SUBSET (UNION spanning) :
            \A group \in spanning : Cardinality(reps \cap group) = 1}

(***************************************************************************)
(* What the proposal files say.                                            *)
(***************************************************************************)

MergeFile(pair) == [origin |-> "merge_proposal", to |-> CanonicalScope(pair)]

RetiredMarker == [origin |-> "retirement_proposal", status |-> "proposed"]

PromotionFile(evidence) == [origin |-> "promotion_proposal", evidence |-> evidence, to |-> "global"]

DemotionFile(s) == [origin |-> "demotion_proposal", cites |-> Offending(s), to |-> "project"]

(***************************************************************************)
(* Boot and scheduling.                                                    *)
(***************************************************************************)

\* The promotion runner loads its skills when it is built and never again.
BuildPromotionRunner == snapshots' = LoadedSkills

\* The providers of the two verifiers.
MergeVerifier == build_verifier(Environment.merge, Environment)
GeneralityVerifier == build_verifier(Environment.generality, Environment)

\* A global root that cannot be created and written keeps the worker down.
probe_global_write_roots(roots) == \A root \in roots : root.global => root.writable

\* run_maintenance_worker_from_environment: configuration, database, the
\* write probe of the global root, the providers, then the runners.
Boot ==
    /\ worker = "down"
    /\ probe_global_write_roots(Environment.roots)
    /\ Environment.ollama_url /\ MergeVerifier # "error" /\ GeneralityVerifier # "error"
    /\ \E root \in Environment.roots : root.global
    /\ worker' = "idle" /\ read' = FALSE /\ todo' = {}
    /\ last_run_at' = FALSE
    /\ BuildPromotionRunner
    /\ UNCHANGED <<world, proposals>>

\* The process ends: an error of the tick is returned from the loop, a panic
\* unwinds it.  Nothing that was written is taken back.
Exit ==
    /\ worker' = "down" /\ read' = FALSE /\ todo' = {}
    /\ UNCHANGED <<snapshots, last_run_at, world>>

\* A due tick of the worker's loop.  One that comes early changes nothing.
TickStart ==
    /\ worker = "idle"
    /\ worker' = Passes[1] /\ read' = FALSE /\ todo' = {}
    /\ UNCHANGED <<snapshots, last_run_at, world, proposals>>

\* A tick that finds the clock before the last run is an error.
ClockReversal ==
    /\ worker = "idle" /\ last_run_at
    /\ Exit
    /\ UNCHANGED proposals

\* The first error of a pass ends the pass, the tick and the process.
PassFails(pass) ==
    /\ worker = pass
    /\ Exit
    /\ UNCHANGED proposals

\* Unreadable skill file, embedder, scope root, path or write.
MergePassFails == PassFails("merge")

\* The same, the usage query, or a path outside the skill's directory.
RetirementPassFails == PassFails("retire")

\* The equivalence verifier of the recurrence path, the embedder, Postgres, a write.
PromotionPassFails == \E pass \in {"intrinsic", "recurrence", "demote"} : PassFails(pass)

\* The pass has written everything: the next one follows, and the tick counts
\* as executed after the last.
PassDone ==
    /\ read /\ todo = {}
    /\ read' = FALSE
    /\ \E i \in DOMAIN Passes :
        /\ worker = Passes[i]
        /\ worker' = IF i = Len(Passes) THEN "idle" ELSE Passes[i + 1]
        /\ last_run_at' = (last_run_at \/ i = Len(Passes))
    /\ UNCHANGED <<todo, snapshots, world, proposals>>

(***************************************************************************)
(* What each pass reads, and so what it will write.                        *)
(***************************************************************************)

Read(pass, slots) ==
    /\ worker = pass /\ ~read
    /\ read' = TRUE /\ todo' = slots
    /\ UNCHANGED <<worker, snapshots, last_run_at, world, proposals>>

\* A verifier is asked about each key of slots; its first failure ends the pass.
Judge(pass, slots, answers) ==
    LET asked == DOMAIN slots IN
    \E votes \in [asked -> answers] :
        IF \A x \in asked : votes[x] \notin Failures
        THEN Read(pass, {slots[x] : x \in {y \in asked : votes[y] = "yes"}})
        ELSE ~read /\ PassFails(pass)

EquivalenceAnswers == {decide_equivalence(MergeVerifier, 0, reply) : reply \in Replies}
GeneralityAnswers == {decide_generality(GeneralityVerifier, 0, reply) : reply \in Replies}

\* All pairs are embedded, compared and judged before the first write.
FindCandidates == Judge("merge", [pair \in ComparedPairs |-> MergeSlot(pair)], EquivalenceAnswers)

ScoreUsage == Read("retire", {RetireSlot(s) : s \in ColdSkills})

\* The verifier's vote on each project skill loaded at boot that is not vetoed.
VoteGenerality ==
    Judge("intrinsic",
          [s \in {t \in snapshots \cap ProjectSkills : ~PromotionVeto(t)} |-> PromoteSlot(s)],
          GeneralityAnswers)

\* Rows of every project of the machine, clustered by the verifier's answers;
\* the veto is not consulted.
ClusterRecurrences ==
    IF Cardinality(Roots(ProjectRows)) < Threshold
    THEN Read("recurrence", {})
    ELSE \E edges \in SUBSET {pair \in Pairs : pair \subseteq ProjectRows} :
            \E reps \in RecurrenceChoices(edges) :
                Read("recurrence", {PromoteSlot(s) : s \in reps})

ScanDemotions ==
    Read("demote", {DemoteSlot(s) : s \in {g \in GlobalRows : Offending(g) # {}}})

(***************************************************************************)
(* Writing one proposal.                                                   *)
(***************************************************************************)

(* Faulty variant: the file is opened for writing whether it exists or not. *)
CreateOver(x, file) == proposals' = [proposals EXCEPT ![x] = file]

\* create_new(true): the open fails when the slot holds a proposal.
CreateNew(x, file) == proposals[x] = NoFile /\ proposals' = [proposals EXCEPT ![x] = file]

Wrote(x) ==
    /\ todo' = todo \ {x}
    /\ UNCHANGED <<worker, read, snapshots, last_run_at, world>>

\* emit: the row is keyed by the proposal and inserted by blocking on the
\* runtime the pass itself runs on, which panics before the insert.
EmitAudit == Exit

WriteMergeProposal(pair) ==
    /\ worker = "merge" /\ MergeSlot(pair) \in todo
    /\ CreateNew(MergeSlot(pair), MergeFile(pair))
    /\ EmitAudit

WriteRetiredMarker(s) ==
    /\ worker = "retire" /\ RetireSlot(s) \in todo
    /\ CreateNew(RetireSlot(s), RetiredMarker)
    /\ EmitAudit

\* Promotion and demotion proposals have no audit event.
WritePromotionProposal(s) ==
    /\ worker \in {"intrinsic", "recurrence"} /\ PromoteSlot(s) \in todo
    /\ CreateNew(PromoteSlot(s), PromotionFile(worker))
    /\ Wrote(PromoteSlot(s))

WriteDemotionProposal(s) ==
    /\ worker = "demote" /\ DemoteSlot(s) \in todo
    /\ CreateNew(DemoteSlot(s), DemotionFile(s))
    /\ Wrote(DemoteSlot(s))

\* An earlier proposal still waits for review, or the two promotion paths
\* chose the same skill: the write fails and with it the tick.
SlotTaken(x) ==
    /\ x \in todo /\ proposals[x] # NoFile
    /\ Exit
    /\ UNCHANGED proposals

(***************************************************************************)
(* The reviewer and the graph-builder.                                     *)
(***************************************************************************)

\* Skills that exist once the reviewer has renamed a proposal to SKILL.md.
Creates(x) ==
    CASE x.kind = "promote" -> {Copy[s] : s \in x.of}
      [] x.kind = "merge" -> IF x.of \in DOMAIN Merged THEN {Merged[x.of]} ELSE {}
      [] OTHER -> {}

\* Skills that are gone once the reviewer has accepted it.
Removes(x) == IF x.kind \in {"demote", "retire"} THEN x.of ELSE {}

keepWorker == <<worker, read, todo, snapshots, last_run_at>>

Approve(x) ==
    /\ proposals[x] # NoFile
    /\ proposals' = [proposals EXCEPT ![x] = NoFile]
    /\ active' = (active \cup Creates(x)) \ Removes(x)
    /\ provenance' = [g \in GlobalSkills |->
            IF g \in Creates(x) \ active THEN proposals[x].evidence ELSE provenance[g]]
    /\ UNCHANGED <<keepWorker, rows>>

\* The file is deleted, or renamed to a tombstone these writers do not consult.
Reject(x) ==
    /\ proposals[x] # NoFile
    /\ proposals' = [proposals EXCEPT ![x] = NoFile]
    /\ UNCHANGED <<keepWorker, world>>

\* A rebuild persists the skills the graph-builder finds on disk.
Rebuild ==
    /\ rows # BuiltSkills
    /\ rows' = BuiltSkills
    /\ UNCHANGED <<keepWorker, active, provenance, proposals>>

Next ==
    \/ Boot \/ TickStart \/ ClockReversal \/ PassDone
    \/ MergePassFails \/ RetirementPassFails \/ PromotionPassFails
    \/ FindCandidates \/ ScoreUsage \/ VoteGenerality
    \/ ClusterRecurrences \/ ScanDemotions
    \/ \E pair \in Pairs : WriteMergeProposal(pair)
    \/ \E s \in Skills : WriteRetiredMarker(s)
    \/ \E s \in ProjectSkills : WritePromotionProposal(s)
    \/ \E s \in GlobalSkills : WriteDemotionProposal(s)
    \/ \E x \in Slots : SlotTaken(x) \/ Approve(x) \/ Reject(x)
    \/ Rebuild

Spec == Init /\ [][Next]_vars

(***************************************************************************)
(* Properties.                                                             *)
(***************************************************************************)

\* A proposal that waits for review is never replaced by another one, whichever
\* pass of whichever process finds the same skill again (create_new).
NeverOverwritten ==
    [][\A x \in Slots : proposals[x] # NoFile => proposals'[x] \in {proposals[x], NoFile}]_vars

\* A skill that was promoted because it is intrinsically general is never
\* reported as mis-scoped: the promotion veto covers what the demotion scan
\* looks for.
IntrinsicStaysGlobal ==
    \A g \in GlobalSkills :
        proposals[DemoteSlot(g)] # NoFile => provenance[g] # "intrinsic"

\* No file is ever written about a skill that a coding harness ships, although
\* such skills lie inside the project root: not by the passes that walk the
\* roots, not by the promotion runner's skills of the boot, and not by way of
\* the rows the graph-builder persisted (watcher.rs: "must NEVER ingest, merge,
\* or retire").
HarnessSkillsUntouched ==
    \A x \in Slots : proposals[x] # NoFile => \A s \in x.of : ~InIgnoredDir(s)
=============================================================================

-------------------------- MODULE MaintenanceProofs --------------------------
(***************************************************************************)
(* Proofs about Maintenance, for any skills in any scopes and directories, *)
(* any words, usages and thresholds, whatever the verifiers answer and     *)
(* whenever the worker ends or the reviewer acts.                          *)
(***************************************************************************)
EXTENDS Maintenance, TLAPS

(* The worker has work left only inside a pass that has read its input. *)
WorkerInv ==
    /\ worker \in {"down", "idle", "merge", "retire", "intrinsic", "recurrence", "demote"}
    /\ read \in BOOLEAN
    /\ ~read => todo = {}
    /\ todo \subseteq Slots

(* Nothing the passes remember is about a harness skill: not the skills of the
   boot, not the persisted rows, not the slots still to be written. *)
HarnessInv ==
    /\ \A s \in snapshots \cup rows : ~InIgnoredDir(s)
    /\ \A x \in todo : \A s \in x.of : ~InIgnoredDir(s)

(* What the veto and the demotion scan decided stays with the slots until they
   are written. *)
DecisionInv ==
    /\ worker = "intrinsic" => \A x \in todo : \A s \in x.of : ~PromotionVeto(s)
    /\ worker = "demote" => \A x \in todo : \A s \in x.of : Offending(s) # {}

(* A promotion file says which path wrote it, and the intrinsic path writes
   none about a vetoed skill; a demotion file cites words. *)
FileInv ==
    /\ DOMAIN proposals = Slots
    /\ \A s \in ProjectSkills :
          proposals[PromoteSlot(s)] # NoFile =>
              \E evidence \in {"intrinsic", "recurrence"} :
                  /\ proposals[PromoteSlot(s)] = PromotionFile(evidence)
                  /\ evidence = "intrinsic" => ~PromotionVeto(s)
    /\ \A g \in GlobalSkills : proposals[DemoteSlot(g)] # NoFile => Offending(g) # {}

(* An intrinsically general global skill carries no identifier. *)
ProvenanceInv ==
    /\ DOMAIN provenance = GlobalSkills
    /\ \A g \in GlobalSkills : provenance[g] = "intrinsic" => Offending(g) = {}

MaintenanceInv ==
    /\ WorkerInv /\ HarnessInv /\ DecisionInv /\ FileInv /\ ProvenanceInv
    /\ HarnessSkillsUntouched

-----------------------------------------------------------------------------
(* The slot of a proposal determines its kind and its skills. *)
LEMMA SlotFacts ==
    /\ \A pair : MergeSlot(pair).kind = "merge" /\ MergeSlot(pair).of = pair
    /\ \A s : RetireSlot(s).kind = "retire" /\ RetireSlot(s).of = {s}
    /\ \A s : PromoteSlot(s).kind = "promote" /\ PromoteSlot(s).of = {s}
    /\ \A s : DemoteSlot(s).kind = "demote" /\ DemoteSlot(s).of = {s}
BY DEF MergeSlot, RetireSlot, PromoteSlot, DemoteSlot

(* The slots, by kind. *)
LEMMA SlotKinds ==
    /\ \A pair \in Pairs : MergeSlot(pair) \in Slots
    /\ \A s \in Skills : RetireSlot(s) \in Slots
    /\ \A s \in ProjectSkills : PromoteSlot(s) \in Slots
    /\ \A s \in GlobalSkills : DemoteSlot(s) \in Slots
    /\ \A x \in Slots : x.kind = "promote" => \E s \in ProjectSkills : x = PromoteSlot(s)
    /\ \A x \in Slots : x.kind \in {"merge", "retire", "promote", "demote"}
<1>1. /\ \A pair \in Pairs : MergeSlot(pair) \in Slots
      /\ \A s \in Skills : RetireSlot(s) \in Slots
      /\ \A s \in ProjectSkills : PromoteSlot(s) \in Slots
      /\ \A s \in GlobalSkills : DemoteSlot(s) \in Slots
  BY DEF Slots
<1>2. ASSUME NEW x \in Slots
      PROVE  /\ x.kind = "promote" => \E s \in ProjectSkills : x = PromoteSlot(s)
             /\ x.kind \in {"merge", "retire", "promote", "demote"}
  <2>1. CASE \E pair \in Pairs : x = MergeSlot(pair)
    BY <2>1, SlotFacts
  <2>2. CASE \E s \in Skills : x = RetireSlot(s)
    BY <2>2, SlotFacts
  <2>3. CASE \E s \in ProjectSkills : x = PromoteSlot(s)
    BY <2>3, SlotFacts
  <2>4. CASE \E s \in GlobalSkills : x = DemoteSlot(s)
    BY <2>4, SlotFacts
  <2> QED BY <2>1, <2>2, <2>3, <2>4 DEF Slots
<1> QED BY <1>1, <1>2

(* The walk returns no harness skill, and mounted skills are skills. *)
LEMMA LoadedFacts ==
    /\ \A s \in BuiltSkills : ~InIgnoredDir(s)
    /\ \A s \in LoadedSkills : ~InIgnoredDir(s) /\ s \in Skills
BY MaintenanceAssumption DEF BuiltSkills, LoadedSkills

(* The initial states satisfy the inductive invariant. *)
LEMMA InitMaintenance == Init => MaintenanceInv
<1> SUFFICES ASSUME Init PROVE MaintenanceInv
  OBVIOUS
<1>1. WorkerInv /\ DecisionInv
  BY DEF Init, WorkerInv, DecisionInv
<1>2. HarnessInv
  BY DEF Init, HarnessInv
<1>3. \A x \in Slots : proposals[x] = NoFile
  BY DEF Init
<1>4. DOMAIN proposals = Slots
  BY DEF Init
<1>5. FileInv /\ HarnessSkillsUntouched
  BY <1>3, <1>4, SlotKinds DEF FileInv, HarnessSkillsUntouched
<1>6. ProvenanceInv
  BY DEF Init, ProvenanceInv
<1> QED BY <1>1, <1>2, <1>5, <1>6 DEF MaintenanceInv

(* A step that writes no file, leaves the world alone and forgets the slots. *)
LEMMA IdleStep ==
    ASSUME MaintenanceInv, UNCHANGED <<world, proposals>>, todo' = {}, read' = FALSE,
           worker' \in {"down", "idle", "merge", "retire", "intrinsic", "recurrence", "demote"},
           \A s \in snapshots' : ~InIgnoredDir(s)
    PROVE  MaintenanceInv'
<1>0. UNCHANGED <<active, rows, provenance, proposals>>
  BY DEF world
<1>1. WorkerInv' /\ DecisionInv'
  BY DEF WorkerInv, DecisionInv
<1>2. HarnessInv'
  BY <1>0 DEF MaintenanceInv, HarnessInv, InIgnoredDir
<1>3. FileInv' /\ HarnessSkillsUntouched'
  BY <1>0 DEF MaintenanceInv, FileInv, HarnessSkillsUntouched, InIgnoredDir, PromotionVeto, Offending
<1>4. ProvenanceInv'
  BY <1>0 DEF MaintenanceInv, ProvenanceInv, Offending
<1> QED BY <1>1, <1>2, <1>3, <1>4 DEF MaintenanceInv

(* The end of the process keeps the invariant. *)
LEMMA ExitStep == ASSUME MaintenanceInv, Exit, UNCHANGED proposals PROVE MaintenanceInv'
<1>1. worker' = "down" /\ read' = FALSE /\ todo' = {} /\ UNCHANGED <<snapshots, world>>
  BY DEF Exit
<1>2. \A s \in snapshots' : ~InIgnoredDir(s)
  BY <1>1 DEF MaintenanceInv, HarnessInv
<1> QED BY <1>1, <1>2, IdleStep

(* A pass may take up slots about skills it is allowed to write about. *)
LEMMA ReadStep ==
    ASSUME MaintenanceInv, NEW pass \in {"merge", "retire", "intrinsic", "recurrence", "demote"},
           NEW slots, slots \subseteq Slots, \A x \in slots : \A s \in x.of : ~InIgnoredDir(s),
           pass = "intrinsic" => \A x \in slots : \A s \in x.of : ~PromotionVeto(s),
           pass = "demote" => \A x \in slots : \A s \in x.of : Offending(s) # {},
           Read(pass, slots)
    PROVE  MaintenanceInv'
<1>0. /\ worker = pass /\ worker' = pass /\ read' = TRUE /\ todo' = slots
      /\ UNCHANGED <<snapshots, active, rows, provenance, proposals>>
  BY DEF Read, world
<1>1. WorkerInv'
  BY <1>0 DEF WorkerInv
<1>2. DecisionInv'
  BY <1>0 DEF DecisionInv, PromotionVeto, Offending
<1>3. HarnessInv'
  BY <1>0 DEF MaintenanceInv, HarnessInv, InIgnoredDir
<1>4. FileInv' /\ HarnessSkillsUntouched'
  BY <1>0 DEF MaintenanceInv, FileInv, HarnessSkillsUntouched, InIgnoredDir, PromotionVeto, Offending
<1>5. ProvenanceInv'
  BY <1>0 DEF MaintenanceInv, ProvenanceInv, Offending
<1> QED BY <1>1, <1>2, <1>3, <1>4, <1>5 DEF MaintenanceInv

(* A verdict takes up some of the slots it was asked about, or ends the pass. *)
LEMMA JudgeEffect ==
    ASSUME NEW pass, NEW slots, NEW answers, Judge(pass, slots, answers)
    PROVE  \/ \E some \in SUBSET {slots[x] : x \in DOMAIN slots} : Read(pass, some)
           \/ PassFails(pass)
<1>1. PICK votes \in [DOMAIN slots -> answers] :
         IF \A x \in DOMAIN slots : votes[x] \notin Failures
         THEN Read(pass, {slots[x] : x \in {y \in DOMAIN slots : votes[y] = "yes"}})
         ELSE ~read /\ PassFails(pass)
  BY DEF Judge
<1>2. {slots[x] : x \in {y \in DOMAIN slots : votes[y] = "yes"}}
         \in SUBSET {slots[x] : x \in DOMAIN slots}
  OBVIOUS
<1> QED BY <1>1, <1>2

(* The representatives of the clusters are persisted project skills. *)
LEMMA ChoicesAreRows ==
    ASSUME NEW edges, NEW reps \in RecurrenceChoices(edges)
    PROVE  reps \subseteq ProjectRows
<1> DEFINE spanning == {group \in {Cluster(edges, s) : s \in ProjectRows} :
                            Cardinality(Roots(group)) >= Threshold}
<1>1. \A group \in spanning : group \subseteq ProjectRows
  BY DEF Cluster
<1>2. reps \subseteq UNION spanning
  BY DEF RecurrenceChoices
<1> QED BY <1>1, <1>2

(* What each pass reads keeps the invariant: the merge and retirement passes
   take loaded skills, the promotion and demotion passes what was loaded at
   boot or persisted. *)
LEMMA ReadsStep ==
    ASSUME MaintenanceInv,
           FindCandidates \/ ScoreUsage \/ VoteGenerality \/ ClusterRecurrences \/ ScanDemotions
    PROVE  MaintenanceInv'
<1>0. ASSUME NEW pass, PassFails(pass) PROVE MaintenanceInv'
  BY <1>0, ExitStep DEF PassFails
<1>1. CASE FindCandidates
  <2> DEFINE slots == [pair \in ComparedPairs |-> MergeSlot(pair)]
  <2>1. CASE \E some \in SUBSET {slots[x] : x \in DOMAIN slots} : Read("merge", some)
    <3>1. PICK some \in SUBSET {slots[x] : x \in DOMAIN slots} : Read("merge", some)
      BY <2>1
    <3>2. \A pair \in ComparedPairs : pair \in Pairs /\ \A s \in pair : ~InIgnoredDir(s)
      BY LoadedFacts, MaintenanceAssumption DEF ComparedPairs
    <3>3. some \subseteq Slots /\ \A x \in some : \A s \in x.of : ~InIgnoredDir(s)
      BY <3>2, SlotFacts, SlotKinds
    <3> QED BY <3>1, <3>3, ReadStep
  <2> QED BY <1>0, <1>1, <2>1, JudgeEffect DEF FindCandidates
<1>2. CASE ScoreUsage
  <2>1. \A s \in ColdSkills : ~InIgnoredDir(s) /\ s \in Skills
    BY LoadedFacts DEF ColdSkills, UsageSamples
  <2>2. /\ {RetireSlot(s) : s \in ColdSkills} \subseteq Slots
        /\ \A x \in {RetireSlot(s) : s \in ColdSkills} : \A s \in x.of : ~InIgnoredDir(s)
    BY <2>1, SlotFacts, SlotKinds
  <2> QED BY <1>2, <2>2, ReadStep DEF ScoreUsage
<1>3. CASE VoteGenerality
  <2> DEFINE slots == [s \in {t \in snapshots \cap ProjectSkills : ~PromotionVeto(t)} |-> PromoteSlot(s)]
  <2>1. CASE \E some \in SUBSET {slots[x] : x \in DOMAIN slots} : Read("intrinsic", some)
    <3>1. PICK some \in SUBSET {slots[x] : x \in DOMAIN slots} : Read("intrinsic", some)
      BY <2>1
    <3>2. \A s \in snapshots : ~InIgnoredDir(s)
      BY DEF MaintenanceInv, HarnessInv
    <3>3. /\ some \subseteq Slots
          /\ \A x \in some : \A s \in x.of : ~InIgnoredDir(s) /\ ~PromotionVeto(s)
      BY <3>2, SlotFacts, SlotKinds
    <3> QED BY <3>1, <3>3, ReadStep
  <2> QED BY <1>0, <1>3, <2>1, JudgeEffect DEF VoteGenerality
<1>4. CASE ClusterRecurrences
  <2>1. CASE Read("recurrence", {})
    BY <2>1, ReadStep
  <2>2. ASSUME NEW edges, NEW reps \in RecurrenceChoices(edges),
               Read("recurrence", {PromoteSlot(s) : s \in reps})
        PROVE  MaintenanceInv'
    <3>1. \A s \in reps : s \in ProjectSkills /\ ~InIgnoredDir(s)
      BY ChoicesAreRows DEF ProjectRows, MaintenanceInv, HarnessInv
    <3>2. /\ {PromoteSlot(s) : s \in reps} \subseteq Slots
          /\ \A x \in {PromoteSlot(s) : s \in reps} : \A s \in x.of : ~InIgnoredDir(s)
      BY <3>1, SlotFacts, SlotKinds
    <3> QED BY <2>2, <3>2, ReadStep
  <2> QED BY <1>4, <2>1, <2>2 DEF ClusterRecurrences
<1>5. CASE ScanDemotions
  <2> DEFINE cited == {g \in GlobalRows : Offending(g) # {}}
  <2>1. \A g \in cited : g \in GlobalSkills /\ ~InIgnoredDir(g) /\ Offending(g) # {}
    BY DEF GlobalRows, MaintenanceInv, HarnessInv
  <2>2. /\ {DemoteSlot(s) : s \in cited} \subseteq Slots
        /\ \A x \in {DemoteSlot(s) : s \in cited} : \A s \in x.of :
              ~InIgnoredDir(s) /\ Offending(s) # {}
    BY <2>1, SlotFacts, SlotKinds
  <2> QED BY <1>5, <2>2, ReadStep DEF ScanDemotions
<1> QED BY <1>1, <1>2, <1>3, <1>4, <1>5

(* A new file in the slot of a pass that took it up, when it says what the
   pass decided. *)
LEMMA CreateStep ==
    ASSUME MaintenanceInv, NEW x \in todo, NEW file, CreateNew(x, file),
           x.kind = "promote" =>
               /\ worker \in {"intrinsic", "recurrence"}
               /\ file = PromotionFile(worker),
           x.kind = "demote" => worker = "demote"
    PROVE  FileInv' /\ HarnessSkillsUntouched'
<1>0. /\ x \in Slots /\ \A s \in x.of : ~InIgnoredDir(s)
      /\ proposals' = [proposals EXCEPT ![x] = file] /\ DOMAIN proposals = Slots
  BY DEF MaintenanceInv, WorkerInv, HarnessInv, FileInv, CreateNew
<1>1. DOMAIN proposals' = Slots
  BY <1>0
<1>2. \A y \in Slots : y # x => proposals'[y] = proposals[y]
  BY <1>0
<1>3. proposals'[x] = file
  BY <1>0
<1>4. ASSUME NEW s \in ProjectSkills, proposals'[PromoteSlot(s)] # NoFile
      PROVE  \E evidence \in {"intrinsic", "recurrence"} :
                  /\ proposals'[PromoteSlot(s)] = PromotionFile(evidence)
                  /\ evidence = "intrinsic" => ~PromotionVeto(s)
  <2>1. CASE PromoteSlot(s) # x
    BY <1>2, <1>4, <2>1, SlotKinds DEF MaintenanceInv, FileInv
  <2>2. CASE PromoteSlot(s) = x
    <3>1. x.kind = "promote" /\ s \in x.of
      BY <2>2, SlotFacts
    <3>2. worker = "intrinsic" => ~PromotionVeto(s)
      BY <3>1 DEF MaintenanceInv, DecisionInv
    <3> QED BY <1>3, <2>2, <3>1, <3>2
  <2> QED BY <2>1, <2>2
<1>5. ASSUME NEW g \in GlobalSkills, proposals'[DemoteSlot(g)] # NoFile
      PROVE  Offending(g) # {}
  <2>1. CASE DemoteSlot(g) # x
    BY <1>2, <1>5, <2>1, SlotKinds DEF MaintenanceInv, FileInv
  <2>2. CASE DemoteSlot(g) = x
    <3>1. x.kind = "demote" /\ g \in x.of
      BY <2>2, SlotFacts
    <3> QED BY <3>1 DEF MaintenanceInv, DecisionInv
  <2> QED BY <2>1, <2>2
<1>6. FileInv'
  BY <1>1, <1>4, <1>5 DEF FileInv, PromotionVeto, Offending
<1>7. HarnessSkillsUntouched'
  BY <1>0, <1>2 DEF MaintenanceInv, HarnessSkillsUntouched, InIgnoredDir
<1> QED BY <1>6, <1>7

(* The writers keep the invariant, whether the audit record ends the process
   after the write or the pass goes on. *)
LEMMA WriteStep ==
    ASSUME MaintenanceInv, FileInv', HarnessSkillsUntouched',
           Exit \/ \E x \in todo : Wrote(x)
    PROVE  MaintenanceInv'
<1>1. /\ UNCHANGED <<snapshots, rows, provenance>>
      /\ todo' \subseteq todo
      /\ \/ worker' = "down" /\ read' = FALSE /\ todo' = {}
         \/ UNCHANGED <<worker, read>>
  BY DEF Exit, Wrote, world
<1>2. WorkerInv'
  <2>1. WorkerInv
    BY DEF MaintenanceInv
  <2>2. CASE worker' = "down" /\ read' = FALSE /\ todo' = {}
    BY <2>2 DEF WorkerInv
  <2>3. CASE UNCHANGED <<worker, read>>
    <3>1. todo' \subseteq Slots /\ (todo = {} => todo' = {})
      BY <1>1, <2>1 DEF WorkerInv
    <3> QED BY <2>1, <2>3, <3>1, Zenon DEF WorkerInv
  <2> QED BY <1>1, <2>2, <2>3
<1>3. HarnessInv' /\ DecisionInv'
  BY <1>1 DEF MaintenanceInv, HarnessInv, DecisionInv, InIgnoredDir, PromotionVeto, Offending
<1>4. ProvenanceInv'
  BY <1>1 DEF MaintenanceInv, ProvenanceInv, Offending
<1> QED BY <1>2, <1>3, <1>4 DEF MaintenanceInv

(* Each of the four writers keeps the invariant. *)
LEMMA WritersStep ==
    ASSUME MaintenanceInv,
           \/ \E pair \in Pairs : WriteMergeProposal(pair)
           \/ \E s \in Skills : WriteRetiredMarker(s)
           \/ \E s \in ProjectSkills : WritePromotionProposal(s)
           \/ \E s \in GlobalSkills : WriteDemotionProposal(s)
    PROVE  MaintenanceInv'
<1>1. ASSUME NEW pair \in Pairs, WriteMergeProposal(pair) PROVE MaintenanceInv'
  BY <1>1, SlotFacts, CreateStep, WriteStep DEF WriteMergeProposal, EmitAudit
<1>2. ASSUME NEW s \in Skills, WriteRetiredMarker(s) PROVE MaintenanceInv'
  BY <1>2, SlotFacts, CreateStep, WriteStep DEF WriteRetiredMarker, EmitAudit
<1>3. ASSUME NEW s \in ProjectSkills, WritePromotionProposal(s) PROVE MaintenanceInv'
  <2>1. /\ worker \in {"intrinsic", "recurrence"} /\ PromoteSlot(s) \in todo
        /\ CreateNew(PromoteSlot(s), PromotionFile(worker)) /\ Wrote(PromoteSlot(s))
    BY <1>3 DEF WritePromotionProposal
  <2>2. PromoteSlot(s).kind = "promote"
    BY SlotFacts
  <2>3. FileInv' /\ HarnessSkillsUntouched'
    BY <2>1, <2>2, CreateStep
  <2> QED BY <2>1, <2>3, WriteStep
<1>4. ASSUME NEW s \in GlobalSkills, WriteDemotionProposal(s) PROVE MaintenanceInv'
  BY <1>4, SlotFacts, CreateStep, WriteStep DEF WriteDemotionProposal
<1> QED BY <1>1, <1>2, <1>3, <1>4

(* A proposal that leaves its slot takes nothing else with it. *)
LEMMA TakenAway ==
    ASSUME MaintenanceInv, NEW x \in Slots, proposals' = [proposals EXCEPT ![x] = NoFile]
    PROVE  FileInv' /\ HarnessSkillsUntouched'
<1>1. DOMAIN proposals' = Slots /\ proposals'[x] = NoFile
  BY DEF MaintenanceInv, FileInv
<1>2. \A y \in Slots : y # x => proposals'[y] = proposals[y]
  BY DEF MaintenanceInv, FileInv
<1>3. \A y \in Slots : proposals'[y] # NoFile => proposals'[y] = proposals[y]
  BY <1>1, <1>2
<1>4. FileInv'
  BY <1>1, <1>3, SlotKinds DEF MaintenanceInv, FileInv, PromotionVeto, Offending
<1>5. HarnessSkillsUntouched'
  BY <1>3 DEF MaintenanceInv, HarnessSkillsUntouched, InIgnoredDir
<1> QED BY <1>4, <1>5

(* The reviewer's approval of an intrinsic promotion creates a global skill
   whose words are those of the skill the veto passed. *)
LEMMA ApproveStep ==
    ASSUME MaintenanceInv, NEW x \in Slots, Approve(x)
    PROVE  MaintenanceInv'
<1>0. /\ proposals[x] # NoFile /\ proposals' = [proposals EXCEPT ![x] = NoFile]
      /\ provenance' = [g \in GlobalSkills |->
            IF g \in Creates(x) \ active THEN proposals[x].evidence ELSE provenance[g]]
      /\ UNCHANGED <<worker, read, todo, snapshots, rows>>
  BY DEF Approve, keepWorker
<1>1. FileInv' /\ HarnessSkillsUntouched'
  BY <1>0, TakenAway
<1>2. WorkerInv' /\ HarnessInv' /\ DecisionInv'
  BY <1>0 DEF MaintenanceInv, WorkerInv, HarnessInv, DecisionInv, InIgnoredDir, PromotionVeto, Offending
<1>3. ASSUME NEW g \in GlobalSkills, provenance'[g] = "intrinsic" PROVE Offending(g) = {}
  <2>1. CASE g \notin Creates(x)
    BY <1>0, <1>3, <2>1 DEF MaintenanceInv, ProvenanceInv
  <2>2. CASE g \in Creates(x) /\ g \in active
    BY <1>0, <1>3, <2>2 DEF MaintenanceInv, ProvenanceInv
  <2>3. CASE g \in Creates(x) /\ g \notin active
    <3>1. proposals[x].evidence = "intrinsic"
      BY <1>0, <1>3, <2>3
    <3>2. x.kind # "merge"
      BY <2>3, MaintenanceAssumption DEF Creates, GlobalSkills
    <3>3. x.kind = "promote"
      BY <2>3, <3>2, SlotKinds DEF Creates
    <3>4. PICK s \in ProjectSkills : x = PromoteSlot(s)
      BY <3>3, SlotKinds
    <3>5. g = Copy[s]
      BY <2>3, <3>3, <3>4, SlotFacts DEF Creates
    <3>6. PICK evidence \in {"intrinsic", "recurrence"} :
             /\ proposals[x] = PromotionFile(evidence)
             /\ evidence = "intrinsic" => ~PromotionVeto(s)
      BY <1>0, <3>4 DEF MaintenanceInv, FileInv
    <3>7. evidence = "intrinsic"
      BY <3>1, <3>6 DEF PromotionFile
    <3>8. NameWords[g] = NameWords[s]
      BY <3>5, MaintenanceAssumption
    <3> QED BY <3>6, <3>7, <3>8 DEF PromotionVeto, SemanticText, Offending
  <2> QED BY <2>1, <2>2, <2>3
<1>4. ProvenanceInv'
  BY <1>0, <1>3 DEF ProvenanceInv, Offending
<1> QED BY <1>1, <1>2, <1>4 DEF MaintenanceInv

(* Every step preserves the inductive invariant. *)
LEMMA MaintenanceStep == ASSUME MaintenanceInv, [Next]_vars PROVE MaintenanceInv'
<1>1. CASE Boot
  BY <1>1, IdleStep, LoadedFacts DEF Boot, BuildPromotionRunner
<1>2. CASE TickStart
  <2>1. Passes[1] = "merge"
    BY DEF Passes
  <2> QED BY <1>2, <2>1, IdleStep DEF TickStart, MaintenanceInv, HarnessInv
<1>3. CASE ClockReversal
  BY <1>3, ExitStep DEF ClockReversal
<1>4. CASE PassDone
  <2>1. \A i \in DOMAIN Passes :
           (IF i = Len(Passes) THEN "idle" ELSE Passes[i + 1])
              \in {"idle", "retire", "intrinsic", "recurrence", "demote"}
    BY DEF Passes
  <2>2. worker' \in {"idle", "retire", "intrinsic", "recurrence", "demote"}
    BY <1>4, <2>1 DEF PassDone
  <2> QED BY <1>4, <2>2, IdleStep DEF PassDone, MaintenanceInv, HarnessInv
<1>5. CASE MergePassFails \/ RetirementPassFails \/ PromotionPassFails
  BY <1>5, ExitStep DEF MergePassFails, RetirementPassFails, PromotionPassFails, PassFails
<1>6. CASE FindCandidates \/ ScoreUsage \/ VoteGenerality \/ ClusterRecurrences \/ ScanDemotions
  BY <1>6, ReadsStep
<1>7. CASE \/ \E pair \in Pairs : WriteMergeProposal(pair)
           \/ \E s \in Skills : WriteRetiredMarker(s)
           \/ \E s \in ProjectSkills : WritePromotionProposal(s)
           \/ \E s \in GlobalSkills : WriteDemotionProposal(s)
  BY <1>7, WritersStep
<1>8. ASSUME NEW x \in Slots, SlotTaken(x) PROVE MaintenanceInv'
  BY <1>8, ExitStep DEF SlotTaken
<1>9. ASSUME NEW x \in Slots, Approve(x) PROVE MaintenanceInv'
  BY <1>9, ApproveStep
<1>10. ASSUME NEW x \in Slots, Reject(x) PROVE MaintenanceInv'
  <2>1. /\ proposals' = [proposals EXCEPT ![x] = NoFile]
        /\ UNCHANGED <<worker, read, todo, snapshots, rows, provenance>>
    BY <1>10 DEF Reject, keepWorker, world
  <2>2. FileInv' /\ HarnessSkillsUntouched'
    BY <2>1, TakenAway
  <2> QED BY <2>1, <2>2 DEF MaintenanceInv, WorkerInv, HarnessInv, DecisionInv, ProvenanceInv,
             InIgnoredDir, PromotionVeto, Offending
<1>11. CASE Rebuild
  <2>1. rows' = BuiltSkills /\ UNCHANGED <<worker, read, todo, snapshots, proposals, provenance>>
    BY <1>11 DEF Rebuild, keepWorker
  <2>2. HarnessInv'
    BY <2>1, LoadedFacts DEF MaintenanceInv, HarnessInv, InIgnoredDir
  <2> QED BY <2>1, <2>2 DEF MaintenanceInv, WorkerInv, DecisionInv, FileInv, ProvenanceInv,
             HarnessSkillsUntouched, InIgnoredDir, PromotionVeto, Offending
<1>12. CASE UNCHANGED vars
  BY <1>12 DEF vars, MaintenanceInv, WorkerInv, HarnessInv, DecisionInv, FileInv, ProvenanceInv,
     HarnessSkillsUntouched, InIgnoredDir, PromotionVeto, Offending
<1> QED BY <1>1, <1>2, <1>3, <1>4, <1>5, <1>6, <1>7, <1>8, <1>9, <1>10, <1>11, <1>12 DEF Next

(* The inductive invariant holds in every reachable state. *)
THEOREM MaintenanceInvariant == Spec => []MaintenanceInv
<1>1. MaintenanceInv /\ [Next]_vars => MaintenanceInv'
  BY MaintenanceStep
<1> QED BY <1>1, InitMaintenance, PTL DEF Spec

-----------------------------------------------------------------------------
(* No proposal is ever written about a skill in a directory of a coding
   harness, by whichever of the four passes and whichever way the skill could
   reach it: the walk, the boot's snapshot or the persisted rows. *)
THEOREM HarnessSkillsSafe == Spec => []HarnessSkillsUntouched
<1>1. MaintenanceInv => HarnessSkillsUntouched
  BY DEF MaintenanceInv
<1> QED BY <1>1, MaintenanceInvariant, PTL

(* A skill promoted as intrinsically general is never proposed for demotion:
   the veto of the promotion covers the words the demotion scan reads. *)
THEOREM IntrinsicNeverDemoted == Spec => []IntrinsicStaysGlobal
<1>1. MaintenanceInv => IntrinsicStaysGlobal
  BY DEF MaintenanceInv, FileInv, ProvenanceInv, IntrinsicStaysGlobal
<1> QED BY <1>1, MaintenanceInvariant, PTL

(* A proposal that waits for review is never replaced: create_new fails on a
   slot that is taken, and only the reviewer empties one. *)
THEOREM ProposalsNeverOverwritten == Spec => NeverOverwritten
<1> DEFINE Kept == \A x \in Slots : proposals[x] # NoFile => proposals'[x] \in {proposals[x], NoFile}
<1>1. ASSUME MaintenanceInv, [Next]_vars PROVE Kept
  <2>0. DOMAIN proposals = Slots
    BY <1>1 DEF MaintenanceInv, FileInv
  <2>1. CASE UNCHANGED proposals
    BY <2>1
  <2>2. ASSUME NEW x, NEW file, CreateNew(x, file) PROVE Kept
    BY <2>0, <2>2 DEF CreateNew
  <2>3. ASSUME NEW x \in Slots, Approve(x) \/ Reject(x) PROVE Kept
    BY <2>0, <2>3 DEF Approve, Reject
  <2>4. ASSUME NEW pass, NEW slots, NEW answers, Judge(pass, slots, answers) PROVE Kept
    BY <2>1, <2>4, JudgeEffect DEF Read, PassFails
  <2>5. CASE \/ \E pair \in Pairs : WriteMergeProposal(pair)
             \/ \E s \in Skills : WriteRetiredMarker(s)
             \/ \E s \in ProjectSkills : WritePromotionProposal(s)
             \/ \E s \in GlobalSkills : WriteDemotionProposal(s)
    BY <2>2, <2>5 DEF WriteMergeProposal, WriteRetiredMarker, WritePromotionProposal,
       WriteDemotionProposal
  <2>6. CASE FindCandidates \/ VoteGenerality
    BY <2>4, <2>6 DEF FindCandidates, VoteGenerality
  <2>7. CASE ScoreUsage \/ ClusterRecurrences \/ ScanDemotions
    BY <2>1, <2>7 DEF ScoreUsage, ClusterRecurrences, ScanDemotions, Read
  <2>8. CASE \/ Boot \/ TickStart \/ ClockReversal \/ PassDone
             \/ MergePassFails \/ RetirementPassFails \/ PromotionPassFails \/ Rebuild
             \/ \E x \in Slots : SlotTaken(x)
    BY <2>1, <2>8 DEF Boot, TickStart, ClockReversal, PassDone, MergePassFails,
       RetirementPassFails, PromotionPassFails, PassFails, Rebuild, SlotTaken
  <2> QED BY <1>1, <2>1, <2>3, <2>5, <2>6, <2>7, <2>8 DEF Next, vars
<1>2. MaintenanceInv /\ [Next]_vars => [Kept]_vars
  BY <1>1
<1> QED BY <1>2, MaintenanceInvariant, PTL DEF Spec, NeverOverwritten
=============================================================================

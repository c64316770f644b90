----------------------------- MODULE DraftWriter -----------------------------
(***************************************************************************)
(* The draft writer and the files it shares with the reviewer and with     *)
(* other writers: SKILL.md.pending drafts, one per slug, the tombstones of *)
(* rejected ones, and the temporary and backup files of a batch.           *)
(*                                                                         *)
(* A batch is written in four stages: plans are built, all temporary files *)
(* are written, the pending drafts in the way are moved to backups, and    *)
(* the temporary files are renamed into place.  A failure after that is    *)
(* rolled back; the death of the process is not.                           *)
(***************************************************************************)
EXTENDS Integers, Sequences, FiniteSets

CONSTANTS
    Writers,      \* workers that may write at the same time
    Slugs,        \* directories of .skills
    MaxJobs,      \* batches of one writer
    MaxDay,       \* last day of the model
    Retention,    \* days a tombstone blocks
    MaxFaults,    \* failed file operations and deaths
    GlobalScopes, \* SKILL_GLOBAL_PATHS, in order
    AllowedRoots, \* repositories below SKILL_GLOBAL_ALLOWED_ROOTS
    WriteRoots,   \* roots below SKILL_GLOBAL_WRITE_ROOTS
    WriteRootsSet \* whether SKILL_GLOBAL_WRITE_ROOTS is set

ASSUME DraftWriterAssumption ==
    MaxJobs \in Nat /\ MaxDay \in Nat /\ Retention \in Nat \ {0} /\ MaxFaults \in Nat

NoDraft == [by |-> <<>>, day |-> 0]
NoBatch == [slug \in {} |-> NoDraft]

VARIABLES
    pending,    \* slug -> the draft that waits for review, or NoDraft
    approved,   \* slugs with a SKILL.md
    tombstone,  \* slug -> the rejected draft, or NoDraft
    day,
    stage,      \* writer -> "idle", "denied", "plan", "temps", "swap" or "clean"
    batch,      \* writer -> slugs of its candidates, in order
    preexisted, \* writer -> slugs found pending when it planned
    temps,      \* writer -> slugs with a temporary file of its batch
    backups,    \* writer -> backup files of its batch: slug -> draft
    moved,      \* writer -> slugs moved to a backup
    committed,  \* writer -> slugs renamed into place
    jobs,       \* writer -> batches begun
    faults,
    outcome,    \* writer -> what its last batch reported
    litter,     \* drafts in backup files of dead processes
    before,     \* writer -> the pending drafts when it planned
    disturbed   \* writers whose slugs somebody else touched since

files == <<pending, approved, tombstone>>
draftVars == <<pending, approved, tombstone, day, stage, batch, preexisted, temps, backups,
          moved, committed, jobs, faults, outcome, litter, before, disturbed>>

SlugSet(w) == {batch[w][n] : n \in DOMAIN batch[w]}

\* The draft a writer's current batch puts at a slug.
Rendered(w) == [by |-> <<w, jobs[w]>>, day |-> day]

DraftInit ==
    /\ pending = [s \in Slugs |-> NoDraft]
    /\ approved = {} /\ tombstone = [s \in Slugs |-> NoDraft] /\ day = 0
    /\ stage = [w \in Writers |-> "idle"]
    /\ batch = [w \in Writers |-> <<>>]
    /\ preexisted = [w \in Writers |-> {}]
    /\ temps = [w \in Writers |-> {}]
    /\ backups = [w \in Writers |-> NoBatch]
    /\ moved = [w \in Writers |-> {}]
    /\ committed = [w \in Writers |-> {}]
    /\ jobs = [w \in Writers |-> 0] /\ faults = 0
    /\ outcome = [w \in Writers |-> "none"]
    /\ litter = {}
    /\ before = [w \in Writers |-> pending]
    /\ disturbed = {}

(***************************************************************************)
(* The writer.                                                             *)
(***************************************************************************)

\* History: the other writers that planned on a slug this step changes.
Disturb(who) ==
    disturbed' = disturbed \cup
        {v \in Writers \ who : /\ stage[v] \in {"temps", "swap", "clean"}
                               /\ \E s \in SlugSet(v) : pending'[s] # pending[s]}

Fault == faults < MaxFaults /\ faults' = faults + 1

\* The batch is over and its bookkeeping gone.
Finish(w, result) ==
    /\ stage' = [stage EXCEPT ![w] = "idle"]
    /\ outcome' = [outcome EXCEPT ![w] = result]
    /\ preexisted' = [preexisted EXCEPT ![w] = {}]
    /\ temps' = [temps EXCEPT ![w] = {}]
    /\ backups' = [backups EXCEPT ![w] = NoBatch]
    /\ moved' = [moved EXCEPT ![w] = {}]
    /\ committed' = [committed EXCEPT ![w] = {}]
    /\ batch' = [batch EXCEPT ![w] = <<>>]
    /\ before' = [before EXCEPT ![w] = [s \in Slugs |-> NoDraft]]
    /\ UNCHANGED jobs

\* The root a request's drafts belong to: its repository, if that is a
\* directory below an allowed root, else the first global scope.
ResolveRepoScopeRoot(repo) == IF repo \in AllowedRoots THEN repo ELSE "error"

ResolveScopeRoot(repo) ==
    CASE repo # "none" -> ResolveRepoScopeRoot(repo)
      [] repo = "none" /\ GlobalScopes # <<>> -> GlobalScopes[1]
      [] OTHER -> "error"

\* SKILL_GLOBAL_WRITE_ROOTS when it is set, empty or not, else the allowed
\* roots; with no root at all every write is refused.
resolve_write_allowed_roots == IF WriteRootsSet THEN WriteRoots ELSE AllowedRoots

\* The write guard.
CheckScopeRoot(root) == root \in resolve_write_allowed_roots

Writable(repo) == ResolveScopeRoot(repo) # "error" /\ CheckScopeRoot(ResolveScopeRoot(repo))

\* A job hands its candidates' slugs to the writer.
BeginBatch(w, slugs, repo) ==
    /\ stage[w] = "idle" /\ jobs[w] < MaxJobs
    /\ stage' = [stage EXCEPT ![w] = IF Writable(repo) THEN "plan" ELSE "denied"]
    /\ batch' = [batch EXCEPT ![w] = slugs]
    /\ jobs' = [jobs EXCEPT ![w] = @ + 1]
    /\ outcome' = [outcome EXCEPT ![w] = "none"]
    /\ disturbed' = disturbed \ {w}
    /\ UNCHANGED <<files, day, preexisted, temps, backups, moved, committed, faults, litter, before>>

IsRejectedTombstone(s) == tombstone[s] # NoDraft

\* build_write_plans: one rejected slug or one slug twice fails the batch.
PlansFail(w) ==
    \/ \E s \in SlugSet(w) : IsRejectedTombstone(s)
    \/ Cardinality(SlugSet(w)) # Len(batch[w])

\* The scope root is denied, no plan, or a directory cannot be made.
RefuseBatch(w) ==
    /\ \/ stage[w] = "denied" /\ UNCHANGED faults
       \/ stage[w] = "plan" /\ PlansFail(w) /\ UNCHANGED faults
       \/ stage[w] = "plan" /\ Fault
    /\ Finish(w, "failed")
    /\ UNCHANGED <<files, day, litter, disturbed>>

BuildWritePlans(w) ==
    /\ stage[w] = "plan" /\ ~PlansFail(w) /\ batch[w] # <<>>
    /\ stage' = [stage EXCEPT ![w] = "temps"]
    /\ preexisted' = [preexisted EXCEPT ![w] = {s \in SlugSet(w) : pending[s] # NoDraft}]
    /\ before' = [before EXCEPT ![w] = pending]
    /\ UNCHANGED <<files, day, batch, temps, backups, moved, committed, jobs, faults,
                   outcome, litter, disturbed>>

\* No candidate, nothing to write.
EmptyBatch(w) ==
    /\ stage[w] = "plan" /\ batch[w] = <<>>
    /\ Finish(w, "completed")
    /\ UNCHANGED <<files, day, faults, litter, disturbed>>

WriteTemps(w) ==
    /\ stage[w] = "temps"
    /\ stage' = [stage EXCEPT ![w] = "swap"]
    /\ temps' = [temps EXCEPT ![w] = SlugSet(w)]
    /\ UNCHANGED <<files, day, batch, preexisted, backups, moved, committed, jobs, faults,
                   outcome, litter, before, disturbed>>

\* cleanup_paths removes the ones that were written.
WriteTempsFails(w) ==
    /\ stage[w] = "temps" /\ Fault
    /\ Finish(w, "failed")
    /\ UNCHANGED <<files, day, litter, disturbed>>

\* The slug a stage works on next: the first of the batch it has not done.
Next1(w, todo) == batch[w][CHOOSE n \in DOMAIN batch[w] :
    batch[w][n] \in todo /\ \A m \in DOMAIN batch[w] : batch[w][m] \in todo => n <= m]

ToMove(w) == preexisted[w] \ moved[w]

ToCommit(w) == SlugSet(w) \ committed[w]

MoveBackup(w) ==
    /\ stage[w] = "swap" /\ ToMove(w) # {}
    /\ LET s == Next1(w, ToMove(w)) IN
        /\ pending[s] # NoDraft
        /\ backups' = [backups EXCEPT ![w] = [x \in DOMAIN @ \cup {s} |->
                                                IF x = s THEN pending[s] ELSE @[x]]]
        /\ pending' = [pending EXCEPT ![s] = NoDraft]
        /\ moved' = [moved EXCEPT ![w] = @ \cup {s}]
    /\ Disturb({w})
    /\ UNCHANGED <<approved, tombstone, day, stage, batch, preexisted, temps, committed, jobs,
                   faults, outcome, litter, before>>

(* Faulty variant: only the backups are restored. *)
RolledBackPartly(w) ==
    [s \in Slugs |-> IF s \in moved[w] THEN backups[w][s] ELSE pending[s]]

\* rollback_committed_paths deletes what is pending at the committed slugs,
\* rollback_backup_moves renames the backups over it.
RolledBack(w) ==
    [s \in Slugs |-> CASE s \in moved[w] -> backups[w][s]
                       [] s \in committed[w] \ moved[w] -> NoDraft
                       [] OTHER -> pending[s]]

\* The rename fails, or the draft is no longer there to be moved.
MoveBackupFails(w) ==
    /\ stage[w] = "swap" /\ ToMove(w) # {}
    /\ \/ pending[Next1(w, ToMove(w))] = NoDraft /\ UNCHANGED faults
       \/ Fault
    /\ pending' = RolledBack(w)
    /\ Finish(w, "failed")
    /\ Disturb({w})
    /\ UNCHANGED <<approved, tombstone, day, litter>>

CommitDraft(w) ==
    /\ stage[w] = "swap" /\ ToMove(w) = {} /\ ToCommit(w) # {}
    /\ LET s == Next1(w, ToCommit(w)) IN
        /\ pending' = [pending EXCEPT ![s] = Rendered(w)]
        /\ temps' = [temps EXCEPT ![w] = @ \ {s}]
        /\ committed' = [committed EXCEPT ![w] = @ \cup {s}]
        /\ stage' = [stage EXCEPT ![w] = IF ToCommit(w) = {s} THEN "clean" ELSE "swap"]
    /\ Disturb({w})
    /\ UNCHANGED <<approved, tombstone, day, batch, preexisted, backups, moved, jobs, faults,
                   outcome, litter, before>>

CommitFails(w) ==
    /\ stage[w] = "swap" /\ ToMove(w) = {} /\ Fault
    /\ pending' = RolledBack(w)
    /\ Finish(w, "failed")
    /\ Disturb({w})
    /\ UNCHANGED <<approved, tombstone, day, litter>>

CleanupBackups(w) ==
    /\ stage[w] = "clean"
    /\ Finish(w, "completed")
    /\ UNCHANGED <<files, day, faults, litter, disturbed>>

(* Faulty variant: backups are held in memory and die with the process. *)
DieWithBackups(w) ==
    /\ stage[w] # "idle" /\ Fault
    /\ Finish(w, "died")
    /\ UNCHANGED <<files, day, litter, disturbed>>

\* The process dies: what the batch left on disk stays there under names that
\* nobody looks for.
Die(w) ==
    /\ stage[w] # "idle" /\ Fault
    /\ Finish(w, "died")
    /\ litter' = litter \cup {backups[w][s] : s \in DOMAIN backups[w]}
    /\ UNCHANGED <<files, day, disturbed>>

(***************************************************************************)
(* The reviewer, and the cleanup of tombstones (cleanup.rs), which a user  *)
(* of the library calls: no process of the repository does.                *)
(***************************************************************************)

keepWriters == <<stage, batch, preexisted, temps, backups, moved, committed, jobs, faults,
                 outcome, litter, before>>

\* Renamed to SKILL.md or to SKILL.md.rejected.
Review(s) ==
    /\ pending[s] # NoDraft
    /\ pending' = [pending EXCEPT ![s] = NoDraft]
    /\ \/ approved' = approved \cup {s} /\ UNCHANGED tombstone
       \/ tombstone' = [tombstone EXCEPT ![s] = pending[s]] /\ UNCHANGED approved
    /\ Disturb({})
    /\ UNCHANGED <<keepWriters, day>>

\* read_lifecycle: the age is counted from the draft's creation.
AgeDays(draft) == day - draft.day

ExpiredTombstones == {s \in Slugs : IsRejectedTombstone(s) /\ AgeDays(tombstone[s]) >= Retention}

PruneExpiredTombstones ==
    /\ ExpiredTombstones # {}
    /\ tombstone' = [s \in Slugs |-> IF s \in ExpiredTombstones THEN NoDraft ELSE tombstone[s]]
    /\ UNCHANGED <<keepWriters, pending, approved, day, disturbed>>

NextDay ==
    /\ day < MaxDay
    /\ day' = day + 1
    /\ UNCHANGED <<keepWriters, files, disturbed>>

WriterStep(w) ==
    \/ RefuseBatch(w) \/ BuildWritePlans(w) \/ EmptyBatch(w)
    \/ WriteTemps(w) \/ WriteTempsFails(w)
    \/ MoveBackup(w) \/ MoveBackupFails(w) \/ CommitDraft(w) \/ CommitFails(w)
    \/ CleanupBackups(w) \/ Die(w)

ReviewStep == (\E s \in Slugs : Review(s)) \/ PruneExpiredTombstones \/ NextDay

(***************************************************************************)
(* Properties.                                                             *)
(***************************************************************************)

Ended(w, result) == stage[w] # "idle" /\ stage'[w] = "idle" /\ outcome'[w] = result

\* A batch is all or nothing: when it reports success each of its slugs holds
\* its draft, when it reports failure each holds what was there before, unless
\* the reviewer or another batch came to one of them in between.
BatchIsAllOrNothing ==
    [][\A w \in Writers \ disturbed' :
        /\ Ended(w, "completed") => \A s \in SlugSet(w) : pending'[s].by = <<w, jobs[w]>>
        /\ Ended(w, "failed") /\ stage[w] \notin {"plan", "denied"} =>
              \A s \in SlugSet(w) : pending'[s] = before[w][s]]_draftVars

\* A death in the middle of a batch loses no earlier draft: it is still
\* pending, or in a backup file, or every draft of the batch is in place.
DeathKeepsEarlierDrafts ==
    [][\A w \in Writers \ disturbed : Ended(w, "died") /\ stage[w] \notin {"plan", "denied"} =>
          \/ ToCommit(w) = {}
          \/ \A s \in SlugSet(w) : before[w][s] # NoDraft =>
                before[w][s] \in {pending'[s]} \cup litter']_draftVars
=============================================================================

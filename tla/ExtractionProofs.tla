-------------------------- MODULE ExtractionProofs --------------------------
(***************************************************************************)
(* Proofs about DraftWriter and Extraction: for any writers, slugs,        *)
(* batches, faults and days, for any requests, and whatever the models     *)
(* answer.                                                                 *)
(***************************************************************************)
EXTENDS Extraction, FiniteSetTheorems, SequenceTheorems, TLAPS

(* Writers whose plans are made: what they do to the drafts is accounted for. *)
Busy == {"temps", "swap", "clean"}

(* The variables are functions of the slugs and of the writers. *)
DomainInv ==
    /\ DOMAIN pending = Slugs
    /\ DOMAIN stage = Writers /\ DOMAIN batch = Writers /\ DOMAIN preexisted = Writers
    /\ DOMAIN backups = Writers /\ DOMAIN moved = Writers /\ DOMAIN committed = Writers
    /\ DOMAIN jobs = Writers /\ DOMAIN outcome = Writers /\ DOMAIN before = Writers

(* The bookkeeping of a batch: drafts are moved before the first is committed,
   each into a backup, and only those found when the batch was planned. *)
BookInv(w) ==
    /\ stage[w] \in Busy \cup {"idle", "denied", "plan"}
    /\ DOMAIN batch[w] \subseteq Nat /\ SlugSet(w) \subseteq Slugs
    /\ stage[w] \notin {"swap", "clean"} => moved[w] = {} /\ committed[w] = {}
    /\ stage[w] \in Busy => preexisted[w] = {s \in SlugSet(w) : before[w][s] # NoDraft}
    /\ moved[w] \subseteq preexisted[w] /\ committed[w] \subseteq SlugSet(w)
    /\ DOMAIN backups[w] = moved[w]
    /\ committed[w] # {} => preexisted[w] \subseteq moved[w]
    /\ stage[w] = "clean" => SlugSet(w) \subseteq committed[w]

(* Where the drafts of a batch are, unless somebody else touched its slugs:
   what was there before is still there or in the backup. *)
DraftsInv(w) ==
    w \notin disturbed /\ stage[w] \in Busy =>
        \A s \in SlugSet(w) :
            /\ s \in committed[w] => pending[s].by = <<w, jobs[w]>>
            /\ s \in moved[w] \ committed[w] => pending[s] = NoDraft
            /\ s \notin moved[w] \cup committed[w] => pending[s] = before[w][s]
            /\ s \in moved[w] => backups[w][s] = before[w][s]

WritersInv == DomainInv /\ \A w \in Writers : BookInv(w) /\ DraftsInv(w)

-----------------------------------------------------------------------------
(* Every non-empty set of natural numbers has a least element. *)
LEMMA LeastNatural ==
    ASSUME NEW T, T \subseteq Nat, T # {}
    PROVE  \E x \in T : \A y \in T : x <= y
<1>1. IsWellFoundedOn(OpToRel(<, Nat), Nat)
  BY NatLessThanWellFounded
<1>2. PICK x \in T : \A y \in T : ~(<<y, x>> \in OpToRel(<, Nat))
  BY <1>1, WFMin
<1>3. \A y \in T : ~(y < x)
  BY <1>2 DEF OpToRel
<1> QED BY <1>3

(* The next slug of a stage is one it has still to do. *)
LEMMA NextSlug ==
    ASSUME NEW w \in Writers, DOMAIN batch[w] \subseteq Nat,
           NEW rest, rest \subseteq SlugSet(w), rest # {}
    PROVE  Next1(w, rest) \in rest
<1> DEFINE T == {n \in DOMAIN batch[w] : batch[w][n] \in rest}
<1>1. T \subseteq Nat /\ T # {}
  BY DEF SlugSet
<1>2. PICK n \in T : \A m \in T : n <= m
  BY <1>1, LeastNatural
<1>3. \E k \in DOMAIN batch[w] :
         batch[w][k] \in rest /\ \A m \in DOMAIN batch[w] : batch[w][m] \in rest => k <= m
  BY <1>2
<1> QED BY <1>3 DEF Next1

(* The initial state satisfies the invariant. *)
LEMMA InitWriters == DraftInit => WritersInv
<1> SUFFICES ASSUME DraftInit PROVE WritersInv
  OBVIOUS
<1>1. DomainInv
  BY DEF DraftInit, DomainInv
<1>2. ASSUME NEW w \in Writers PROVE BookInv(w) /\ DraftsInv(w)
  <2>1. /\ stage[w] = "idle" /\ batch[w] = <<>> /\ preexisted[w] = {} /\ moved[w] = {}
        /\ committed[w] = {} /\ backups[w] = NoBatch
    BY DEF DraftInit
  <2>2. SlugSet(w) = {} /\ DOMAIN batch[w] = {}
    BY <2>1 DEF SlugSet
  <2> QED BY <2>1, <2>2 DEF BookInv, DraftsInv, Busy, NoBatch
<1> QED BY <1>1, <1>2 DEF WritersInv

(* The bookkeeping of a writer that a step leaves alone. *)
Untouched(w) ==
    /\ stage'[w] = stage[w] /\ batch'[w] = batch[w] /\ preexisted'[w] = preexisted[w]
    /\ backups'[w] = backups[w] /\ moved'[w] = moved[w] /\ committed'[w] = committed[w]
    /\ jobs'[w] = jobs[w] /\ before'[w] = before[w]

(* A writer whose bookkeeping a step leaves alone keeps its invariant: if the
   step changes a draft at one of its slugs, the writer is disturbed. *)
LEMMA OtherWriter ==
    ASSUME NEW w \in Writers, BookInv(w), DraftsInv(w), Untouched(w),
           w \notin disturbed' /\ stage[w] \in Busy =>
               w \notin disturbed /\ \A s \in SlugSet(w) : pending'[s] = pending[s]
    PROVE  BookInv(w)' /\ DraftsInv(w)'
<1>1. SlugSet(w)' = SlugSet(w)
  BY DEF Untouched, SlugSet
<1>2. BookInv(w)'
  BY <1>1 DEF Untouched, BookInv
<1>3. DraftsInv(w)'
  BY <1>1 DEF Untouched, DraftsInv
<1> QED BY <1>2, <1>3

(* What Disturb says of a writer it is not about. *)
LEMMA Disturbing ==
    ASSUME NEW w \in Writers, NEW who, w \notin who, Disturb(who),
           w \notin disturbed', stage[w] \in Busy
    PROVE  w \notin disturbed /\ \A s \in SlugSet(w) : pending'[s] = pending[s]
BY DEF Disturb, Busy

(* The end of a batch: the writer is idle and the others are as before. *)
LEMMA FinishStep ==
    ASSUME WritersInv, NEW w \in Writers, NEW result, Finish(w, result), DOMAIN pending' = Slugs,
           \A v \in Writers \ {w} : v \notin disturbed' /\ stage[v] \in Busy =>
               v \notin disturbed /\ \A s \in SlugSet(v) : pending'[s] = pending[s]
    PROVE  WritersInv'
<1>0. DomainInv /\ \A v \in Writers : BookInv(v) /\ DraftsInv(v)
  BY DEF WritersInv
<1>1. DomainInv'
  BY <1>0 DEF Finish, DomainInv
<1>2. ASSUME NEW v \in Writers, v # w PROVE BookInv(v)' /\ DraftsInv(v)'
  <2>1. Untouched(v)
    BY <1>0, <1>2 DEF Finish, Untouched, DomainInv
  <2> QED BY <1>0, <1>2, <2>1, OtherWriter
<1>3. BookInv(w)' /\ DraftsInv(w)'
  <2>1. /\ stage'[w] = "idle" /\ batch'[w] = <<>> /\ preexisted'[w] = {} /\ moved'[w] = {}
        /\ committed'[w] = {} /\ backups'[w] = NoBatch
    BY <1>0 DEF Finish, DomainInv
  <2>2. SlugSet(w)' = {} /\ DOMAIN batch'[w] = {}
    BY <2>1 DEF SlugSet
  <2> QED BY <2>1, <2>2 DEF BookInv, DraftsInv, Busy, NoBatch
<1> QED BY <1>1, <1>2, <1>3 DEF WritersInv

(* A new batch starts without bookkeeping. *)
LEMMA BeginStep ==
    ASSUME WritersInv, NEW w \in Writers, NEW slugs, NEW repo, BeginBatch(w, slugs, repo),
           DOMAIN slugs \subseteq Nat, \A n \in DOMAIN slugs : slugs[n] \in Slugs
    PROVE  WritersInv'
<1>0. DomainInv /\ \A v \in Writers : BookInv(v) /\ DraftsInv(v)
  BY DEF WritersInv
<1>1. DomainInv'
  BY <1>0 DEF BeginBatch, files, DomainInv
<1>2. ASSUME NEW v \in Writers, v # w PROVE BookInv(v)' /\ DraftsInv(v)'
  <2>1. Untouched(v)
    BY <1>0, <1>2 DEF BeginBatch, Untouched, DomainInv
  <2>2. UNCHANGED pending /\ (v \notin disturbed' => v \notin disturbed)
    BY <1>2 DEF BeginBatch, files
  <2> QED BY <1>0, <2>1, <2>2, OtherWriter
<1>3. BookInv(w)' /\ DraftsInv(w)'
  <2>1. /\ stage[w] = "idle" /\ stage'[w] \in {"plan", "denied"} /\ batch'[w] = slugs
        /\ UNCHANGED <<preexisted, backups, moved, committed>>
    BY <1>0 DEF BeginBatch, DomainInv
  <2>2. SlugSet(w)' \subseteq Slugs
    BY <2>1 DEF SlugSet
  <2> QED BY <1>0, <2>1, <2>2 DEF BookInv, DraftsInv, Busy
<1> QED BY <1>1, <1>2, <1>3 DEF WritersInv

(* The plans: from here on the drafts of the batch are accounted for. *)
LEMMA PlanStep ==
    ASSUME WritersInv, NEW w \in Writers, BuildWritePlans(w)
    PROVE  WritersInv'
<1>0. DomainInv /\ \A v \in Writers : BookInv(v) /\ DraftsInv(v)
  BY DEF WritersInv
<1>1. DomainInv'
  BY <1>0 DEF BuildWritePlans, files, DomainInv
<1>2. ASSUME NEW v \in Writers, v # w PROVE BookInv(v)' /\ DraftsInv(v)'
  <2>1. Untouched(v)
    BY <1>0, <1>2 DEF BuildWritePlans, Untouched, DomainInv
  <2>2. UNCHANGED <<pending, disturbed>>
    BY DEF BuildWritePlans, files
  <2> QED BY <1>0, <2>1, <2>2, OtherWriter
<1>3. BookInv(w)' /\ DraftsInv(w)'
  <2>1. /\ stage[w] = "plan" /\ stage'[w] = "temps" /\ before'[w] = pending
        /\ preexisted'[w] = {s \in SlugSet(w) : pending[s] # NoDraft}
        /\ UNCHANGED <<pending, batch, backups, moved, committed>>
    BY <1>0 DEF BuildWritePlans, files, DomainInv
  <2>2. SlugSet(w)' = SlugSet(w)
    BY <2>1 DEF SlugSet
  <2>3. moved'[w] = {} /\ committed'[w] = {}
    BY <1>0, <2>1 DEF BookInv
  <2>4. BookInv(w)'
    BY <1>0, <2>1, <2>2, <2>3 DEF BookInv, Busy
  <2>5. DraftsInv(w)'
    BY <2>1, <2>2, <2>3 DEF DraftsInv
  <2> QED BY <2>4, <2>5
<1> QED BY <1>1, <1>2, <1>3 DEF WritersInv

LEMMA TempsStep ==
    ASSUME WritersInv, NEW w \in Writers, WriteTemps(w)
    PROVE  WritersInv'
<1>0. DomainInv /\ \A v \in Writers : BookInv(v) /\ DraftsInv(v)
  BY DEF WritersInv
<1>1. DomainInv'
  BY <1>0 DEF WriteTemps, files, DomainInv
<1>2. ASSUME NEW v \in Writers, v # w PROVE BookInv(v)' /\ DraftsInv(v)'
  <2>1. Untouched(v)
    BY <1>0, <1>2 DEF WriteTemps, Untouched, DomainInv
  <2>2. UNCHANGED <<pending, disturbed>>
    BY DEF WriteTemps, files
  <2> QED BY <1>0, <2>1, <2>2, OtherWriter
<1>3. BookInv(w)' /\ DraftsInv(w)'
  <2>1. /\ stage[w] = "temps" /\ stage'[w] = "swap"
        /\ UNCHANGED <<pending, batch, preexisted, backups, moved, committed, jobs, before, disturbed>>
    BY <1>0 DEF WriteTemps, files, DomainInv
  <2>2. SlugSet(w)' = SlugSet(w)
    BY <2>1 DEF SlugSet
  <2>4. BookInv(w)'
    BY <1>0, <2>1, <2>2 DEF BookInv, Busy
  <2>5. DraftsInv(w)'
    BY <1>0, <2>1, <2>2 DEF DraftsInv, Busy
  <2> QED BY <2>4, <2>5
<1> QED BY <1>1, <1>2, <1>3 DEF WritersInv

(* A draft found at planning goes into a backup as it was found. *)
LEMMA MoveStep ==
    ASSUME WritersInv, NEW w \in Writers, MoveBackup(w)
    PROVE  WritersInv'
<1>0. DomainInv /\ \A v \in Writers : BookInv(v) /\ DraftsInv(v)
  BY DEF WritersInv
<1> DEFINE s == Next1(w, ToMove(w))
<1>a. stage[w] = "swap" /\ stage[w] \in Busy
  BY DEF MoveBackup, Busy
<1>b. s \in ToMove(w) /\ s \in SlugSet(w) /\ s \in Slugs
  <2>1. ToMove(w) \subseteq SlugSet(w) /\ ToMove(w) # {} /\ DOMAIN batch[w] \subseteq Nat
    BY <1>0, <1>a DEF BookInv, ToMove, MoveBackup
  <2>2. s \in ToMove(w)
    BY <2>1, NextSlug
  <2> QED BY <1>0, <2>1, <2>2 DEF BookInv
<1>c. s \in preexisted[w] /\ s \notin moved[w]
  BY <1>b DEF ToMove
<1>d. /\ backups' = [backups EXCEPT ![w] = [x \in DOMAIN @ \cup {s} |->
                                                IF x = s THEN pending[s] ELSE @[x]]]
      /\ pending' = [pending EXCEPT ![s] = NoDraft]
      /\ moved' = [moved EXCEPT ![w] = @ \cup {s}]
      /\ Disturb({w})
      /\ UNCHANGED <<stage, batch, preexisted, committed, jobs, outcome, before>>
  BY DEF MoveBackup
<1> HIDE DEF s
<1>1. DomainInv'
  BY <1>0, <1>d DEF DomainInv
<1>2. ASSUME NEW v \in Writers, v # w PROVE BookInv(v)' /\ DraftsInv(v)'
  <2>1. Untouched(v)
    BY <1>0, <1>2, <1>d DEF Untouched, DomainInv
  <2> QED BY <1>0, <1>d, <1>2, <2>1, OtherWriter, Disturbing
<1>3. BookInv(w)' /\ DraftsInv(w)'
  <2>1. SlugSet(w)' = SlugSet(w)
    BY <1>d DEF SlugSet
  <2>2. /\ moved'[w] = moved[w] \cup {s} /\ DOMAIN backups'[w] = moved'[w]
        /\ backups'[w][s] = pending[s]
        /\ \A x \in moved[w] : backups'[w][x] = backups[w][x]
    BY <1>0, <1>c, <1>d DEF DomainInv, BookInv
  <2>3. pending'[s] = NoDraft /\ \A x \in Slugs \ {s} : pending'[x] = pending[x]
    BY <1>0, <1>b, <1>d DEF DomainInv
  <2>4. committed[w] = {}
    BY <1>0, <1>c DEF BookInv
  <2>5. BookInv(w)'
    BY <1>0, <1>a, <1>c, <1>d, <2>1, <2>2, <2>4 DEF BookInv
  <2>6. DraftsInv(w)'
    <3> SUFFICES ASSUME w \notin disturbed', NEW x \in SlugSet(w)
                 PROVE  /\ x \in moved'[w] => pending'[x] = NoDraft
                        /\ x \notin moved'[w] => pending'[x] = before[w][x]
                        /\ x \in moved'[w] => backups'[w][x] = before[w][x]
      BY <1>d, <2>1, <2>4 DEF DraftsInv
    <3>1. w \notin disturbed
      BY <1>d DEF Disturb
    <3>2. /\ x \in moved[w] => pending[x] = NoDraft
          /\ x \notin moved[w] => pending[x] = before[w][x]
          /\ x \in moved[w] => backups[w][x] = before[w][x]
      BY <1>0, <1>a, <2>4, <3>1 DEF DraftsInv
    <3>3. x \in Slugs
      BY <1>0 DEF BookInv
    <3> QED BY <1>c, <2>2, <2>3, <3>2, <3>3
  <2> QED BY <2>5, <2>6
<1> QED BY <1>1, <1>2, <1>3 DEF WritersInv

(* A draft of the batch is put in place. *)
LEMMA CommitStep ==
    ASSUME WritersInv, NEW w \in Writers, CommitDraft(w)
    PROVE  WritersInv'
<1>0. DomainInv /\ \A v \in Writers : BookInv(v) /\ DraftsInv(v)
  BY DEF WritersInv
<1> DEFINE s == Next1(w, ToCommit(w))
<1>a. stage[w] = "swap" /\ stage[w] \in Busy /\ preexisted[w] \subseteq moved[w]
  BY DEF CommitDraft, Busy, ToMove
<1>b. s \in ToCommit(w) /\ s \in SlugSet(w) /\ s \in Slugs
  <2>1. ToCommit(w) \subseteq SlugSet(w) /\ ToCommit(w) # {} /\ DOMAIN batch[w] \subseteq Nat
    BY <1>0, <1>a DEF BookInv, ToCommit, CommitDraft
  <2>2. s \in ToCommit(w)
    BY <2>1, NextSlug
  <2> QED BY <1>0, <2>1, <2>2 DEF BookInv
<1>d. /\ pending' = [pending EXCEPT ![s] = Rendered(w)]
      /\ committed' = [committed EXCEPT ![w] = @ \cup {s}]
      /\ stage' = [stage EXCEPT ![w] = IF ToCommit(w) = {s} THEN "clean" ELSE "swap"]
      /\ Disturb({w})
      /\ UNCHANGED <<batch, preexisted, backups, moved, jobs, outcome, before>>
  BY DEF CommitDraft
<1> HIDE DEF s
<1>1. DomainInv'
  BY <1>0, <1>d DEF DomainInv
<1>2. ASSUME NEW v \in Writers, v # w PROVE BookInv(v)' /\ DraftsInv(v)'
  <2>1. Untouched(v)
    BY <1>0, <1>2, <1>d DEF Untouched, DomainInv
  <2> QED BY <1>0, <1>d, <1>2, <2>1, OtherWriter, Disturbing
<1>3. BookInv(w)' /\ DraftsInv(w)'
  <2>1. SlugSet(w)' = SlugSet(w)
    BY <1>d DEF SlugSet
  <2>2. /\ committed'[w] = committed[w] \cup {s}
        /\ stage'[w] = IF ToCommit(w) = {s} THEN "clean" ELSE "swap"
    BY <1>0, <1>d DEF DomainInv
  <2>3. pending'[s].by = <<w, jobs[w]>> /\ \A x \in Slugs \ {s} : pending'[x] = pending[x]
    <3>1. pending'[s] = Rendered(w)
      BY <1>0, <1>b, <1>d DEF DomainInv
    <3>2. \A x \in Slugs \ {s} : pending'[x] = pending[x]
      BY <1>0, <1>b, <1>d DEF DomainInv
    <3> QED BY <3>1, <3>2 DEF Rendered
  <2>4. stage'[w] \in {"swap", "clean"} /\ (stage'[w] = "clean" => SlugSet(w) \subseteq committed'[w])
    BY <2>2 DEF ToCommit
  <2>5. BookInv(w)'
    BY <1>0, <1>a, <1>b, <1>d, <2>1, <2>2, <2>4 DEF BookInv, Busy
  <2>6. DraftsInv(w)'
    <3> SUFFICES ASSUME w \notin disturbed', NEW x \in SlugSet(w)
                 PROVE  /\ x \in committed'[w] => pending'[x].by = <<w, jobs[w]>>
                        /\ x \in moved[w] \ committed'[w] => pending'[x] = NoDraft
                        /\ x \notin moved[w] \cup committed'[w] => pending'[x] = before[w][x]
                        /\ x \in moved[w] => backups[w][x] = before[w][x]
      BY <1>d, <2>1 DEF DraftsInv
    <3>1. w \notin disturbed
      BY <1>d DEF Disturb
    <3>2. /\ x \in committed[w] => pending[x].by = <<w, jobs[w]>>
          /\ x \in moved[w] \ committed[w] => pending[x] = NoDraft
          /\ x \notin moved[w] \cup committed[w] => pending[x] = before[w][x]
          /\ x \in moved[w] => backups[w][x] = before[w][x]
      BY <1>0, <1>a, <3>1 DEF DraftsInv
    <3>3. x \in Slugs
      BY <1>0 DEF BookInv
    <3> QED BY <2>2, <2>3, <3>2, <3>3
  <2> QED BY <2>5, <2>6
<1> QED BY <1>1, <1>2, <1>3 DEF WritersInv

(* The writers' own steps. *)
LEMMA WriterSteps ==
    ASSUME WritersInv, NEW w \in Writers, WriterStep(w)
    PROVE  WritersInv'
<1>0. DomainInv
  BY DEF WritersInv
<1>1. ASSUME UNCHANGED <<pending, disturbed>>, NEW result, Finish(w, result) PROVE WritersInv'
  BY <1>0, <1>1, FinishStep DEF DomainInv
<1>2. ASSUME pending' = RolledBack(w), Disturb({w}), NEW result, Finish(w, result) PROVE WritersInv'
  <2>1. DOMAIN pending' = Slugs
    BY <1>2 DEF RolledBack
  <2>2. \A v \in Writers \ {w} : v \notin disturbed' /\ stage[v] \in Busy =>
            v \notin disturbed /\ \A s \in SlugSet(v) : pending'[s] = pending[s]
    BY <1>2, Disturbing
  <2> QED BY <1>2, <2>1, <2>2, FinishStep
<1>3. CASE RefuseBatch(w)
  BY <1>1, <1>3 DEF RefuseBatch, files
<1>4. CASE BuildWritePlans(w)
  BY <1>4, PlanStep
<1>5. CASE EmptyBatch(w)
  BY <1>1, <1>5 DEF EmptyBatch, files
<1>6. CASE WriteTemps(w)
  BY <1>6, TempsStep
<1>7. CASE WriteTempsFails(w)
  BY <1>1, <1>7 DEF WriteTempsFails, files
<1>8. CASE MoveBackup(w)
  BY <1>8, MoveStep
<1>9. CASE MoveBackupFails(w)
  BY <1>2, <1>9 DEF MoveBackupFails
<1>10. CASE CommitDraft(w)
  BY <1>10, CommitStep
<1>11. CASE CommitFails(w)
  BY <1>2, <1>11 DEF CommitFails
<1>12. CASE CleanupBackups(w)
  BY <1>1, <1>12 DEF CleanupBackups, files
<1>13. CASE Die(w)
  BY <1>1, <1>13 DEF Die, files
<1> QED BY <1>3, <1>4, <1>5, <1>6, <1>7, <1>8, <1>9, <1>10, <1>11, <1>12, <1>13 DEF WriterStep

(* Whoever leaves the writers' bookkeeping alone only disturbs them. *)
LEMMA BystanderStep ==
    ASSUME WritersInv, DOMAIN pending' = Slugs,
           UNCHANGED <<stage, batch, preexisted, backups, moved, committed, jobs, outcome, before>>,
           Disturb({}) \/ UNCHANGED <<pending, disturbed>>
    PROVE  WritersInv'
<1>0. DomainInv /\ \A v \in Writers : BookInv(v) /\ DraftsInv(v)
  BY DEF WritersInv
<1>1. DomainInv'
  BY <1>0 DEF DomainInv
<1>2. ASSUME NEW v \in Writers PROVE BookInv(v)' /\ DraftsInv(v)'
  <2>1. Untouched(v)
    BY DEF Untouched
  <2>2. v \notin disturbed' /\ stage[v] \in Busy =>
            v \notin disturbed /\ \A s \in SlugSet(v) : pending'[s] = pending[s]
    <3>1. CASE Disturb({})
      BY <3>1, Disturbing
    <3>2. CASE UNCHANGED <<pending, disturbed>>
      BY <3>2
    <3> QED BY <3>1, <3>2
  <2> QED BY <1>0, <2>1, <2>2, OtherWriter
<1> QED BY <1>1, <1>2 DEF WritersInv

LEMMA ReviewSteps ==
    ASSUME WritersInv, ReviewStep
    PROVE  WritersInv'
<1>0. DOMAIN pending = Slugs
  BY DEF WritersInv, DomainInv
<1>1. ASSUME NEW s \in Slugs, Review(s) PROVE WritersInv'
  <2>1. DOMAIN pending' = Slugs
    BY <1>0, <1>1 DEF Review
  <2> QED BY <1>1, <2>1, BystanderStep DEF Review, keepWriters
<1>2. CASE PruneExpiredTombstones
  BY <1>0, <1>2, BystanderStep DEF PruneExpiredTombstones, keepWriters
<1>3. CASE NextDay
  BY <1>0, <1>3, BystanderStep DEF NextDay, keepWriters, files
<1> QED BY <1>1, <1>2, <1>3 DEF ReviewStep

(* The steps of the job touch the drafts only when a batch is handed over. *)
LEMMA JobSteps ==
    ASSUME [Next]_vars
    PROVE  \/ UNCHANGED draftVars
           \/ WriteDrafts
           \/ \E w \in Writers : (OtherBatch(w) \/ WriterStep(w)) /\ UNCHANGED jobVars
           \/ ReviewStep /\ UNCHANGED jobVars
<1>1. CASE Accept
  BY <1>1 DEF Accept, Fail
<1>2. CASE LoadOrchestrated
  BY <1>2 DEF LoadOrchestrated, Fail
<1>3. CASE LoadSingleShot
  BY <1>3 DEF LoadSingleShot, Fail
<1>4. CASE ExtractWithRetry
  BY <1>4 DEF ExtractWithRetry, Fail
<1>5. ASSUME NEW n \in DOMAIN windows,
             StartWindow(n) \/ ExtractProseWindow(n) \/ MapEpisode(n) \/ WindowPanics(n)
      PROVE  UNCHANGED draftVars
  BY <1>5 DEF StartWindow, ExtractProseWindow, MapEpisode, WindowPanics, keepInMap
<1>6. CASE JoinWindows
  BY <1>6 DEF JoinWindows, Fail
<1>7. CASE ComparePair
  BY <1>7 DEF ComparePair, Fail, keepInReduce
<1>8. CASE ReduceFails \/ ReduceDone
  BY <1>8 DEF ReduceFails, ReduceDone, Fail, keepInReduce
<1>9. CASE Synthesize
  BY <1>9 DEF Synthesize
<1>10. CASE UNCHANGED vars
  BY <1>10 DEF vars
<1>11. ASSUME NEW w \in Writers, OtherBatch(w) PROVE UNCHANGED jobVars
  BY <1>11 DEF OtherBatch
<1> QED BY <1>1, <1>2, <1>3, <1>4, <1>5, <1>6, <1>7, <1>8, <1>9, <1>10, <1>11 DEF Next

LEMMA NextWriters ==
    ASSUME WritersInv, [Next]_vars
    PROVE  WritersInv'
<1>1. CASE UNCHANGED draftVars
  BY <1>1 DEF draftVars, WritersInv, DomainInv, BookInv, DraftsInv, SlugSet
<1>2. CASE WriteDrafts
  <2>1. PICK slugs \in [1..Cardinality(FinalCandidates) -> Slugs] :
            BeginBatch(Worker, slugs, request.repo)
    BY <1>2 DEF WriteDrafts
  <2>2. DOMAIN slugs \subseteq Nat /\ \A n \in DOMAIN slugs : slugs[n] \in Slugs
    OBVIOUS
  <2> QED BY <2>1, <2>2, BeginStep, ExtractionAssumption
<1>3. ASSUME NEW w \in Writers, OtherBatch(w) PROVE WritersInv'
  <2>1. PICK slugs \in {<<a>> : a \in Slugs} \cup {<<a, b>> : a, b \in Slugs} :
            BeginBatch(w, slugs, "none")
    BY <1>3 DEF OtherBatch
  <2>2. DOMAIN slugs \subseteq Nat /\ \A n \in DOMAIN slugs : slugs[n] \in Slugs
    <3>1. CASE \E a \in Slugs : slugs = <<a>>
      BY <3>1
    <3>2. CASE \E a, b \in Slugs : slugs = <<a, b>>
      BY <3>2
    <3> QED BY <2>1, <3>1, <3>2
  <2> QED BY <2>1, <2>2, BeginStep
<1> QED BY <1>1, <1>2, <1>3, JobSteps, WriterSteps, ReviewSteps

(* The bookkeeping of every batch and the drafts at its slugs agree, whatever
   writers, reviewers and faults do (draft writer, write_candidates). *)
THEOREM WritersInvariant == Spec => []WritersInv
<1>1. Init => WritersInv
  BY InitWriters DEF Init
<1>2. WritersInv /\ [Next]_vars => WritersInv'
  BY NextWriters
<1> QED BY <1>1, <1>2, PTL DEF Spec

-----------------------------------------------------------------------------
(* A writer goes idle by a step of its own. *)
LEMMA EndedByItself ==
    ASSUME WritersInv, [Next]_vars, NEW w \in Writers, stage[w] # "idle", stage'[w] = "idle"
    PROVE  WriterStep(w)
<1>0. DOMAIN stage = Writers
  BY DEF WritersInv, DomainInv
<1>1. CASE UNCHANGED draftVars
  BY <1>1 DEF draftVars
<1>2. ASSUME NEW v \in Writers, NEW slugs, NEW repo, BeginBatch(v, slugs, repo) PROVE FALSE
  BY <1>0, <1>2 DEF BeginBatch
<1>3. CASE WriteDrafts
  BY <1>2, <1>3, ExtractionAssumption DEF WriteDrafts
<1>4. ASSUME NEW v \in Writers, OtherBatch(v) PROVE FALSE
  BY <1>2, <1>4 DEF OtherBatch
<1>5. ASSUME NEW v \in Writers, WriterStep(v), v # w PROVE FALSE
  <2>1. stage'[w] = stage[w]
    BY <1>0, <1>5 DEF WriterStep, RefuseBatch, BuildWritePlans, EmptyBatch, WriteTemps, WriteTempsFails,
       MoveBackup, MoveBackupFails, CommitDraft, CommitFails, CleanupBackups, Die, Finish
  <2> QED BY <2>1
<1>6. CASE ReviewStep
  BY <1>6 DEF ReviewStep, Review, PruneExpiredTombstones, NextDay, keepWriters
<1> QED BY <1>1, <1>3, <1>4, <1>5, <1>6, JobSteps

(* The steps that leave a writer at work. *)
LEMMA EndedHow ==
    ASSUME WritersInv, NEW w \in Writers, WriterStep(w), stage'[w] = "idle"
    PROVE  \/ RefuseBatch(w) \/ EmptyBatch(w) \/ WriteTempsFails(w) \/ MoveBackupFails(w)
           \/ CommitFails(w) \/ CleanupBackups(w) \/ Die(w)
<1>0. DOMAIN stage = Writers
  BY DEF WritersInv, DomainInv
<1>1. ~BuildWritePlans(w)
  BY <1>0 DEF BuildWritePlans
<1>2. ~WriteTemps(w)
  BY <1>0 DEF WriteTemps
<1>3. ~MoveBackup(w)
  BY <1>0 DEF MoveBackup
<1>4. ~CommitDraft(w)
  BY <1>0 DEF CommitDraft
<1> QED BY <1>1, <1>2, <1>3, <1>4 DEF WriterStep

(* What each way of ending reports. *)
LEMMA Reported ==
    ASSUME WritersInv, NEW w \in Writers, NEW result, Finish(w, result)
    PROVE  outcome'[w] = result
BY DEF WritersInv, DomainInv, Finish

(* A rollback restores what was there when the batch was planned. *)
LEMMA RollbackRestores ==
    ASSUME WritersInv, NEW w \in Writers, w \notin disturbed, stage[w] = "swap",
           pending' = RolledBack(w), NEW s \in SlugSet(w)
    PROVE  pending'[s] = before[w][s]
<1>0. BookInv(w) /\ DraftsInv(w) /\ stage[w] \in Busy
  BY DEF WritersInv, Busy
<1>1. s \in Slugs
  BY <1>0 DEF BookInv
<1>2. CASE s \in moved[w]
  BY <1>0, <1>1, <1>2 DEF RolledBack, DraftsInv
<1>3. CASE s \in committed[w] \ moved[w]
  <2>1. s \notin preexisted[w]
    BY <1>0, <1>3 DEF BookInv
  <2>2. before[w][s] = NoDraft
    BY <1>0, <2>1 DEF BookInv
  <2> QED BY <1>1, <1>3, <2>2 DEF RolledBack
<1>4. CASE s \notin moved[w] \cup committed[w]
  BY <1>0, <1>1, <1>4 DEF RolledBack, DraftsInv
<1> QED BY <1>2, <1>3, <1>4

(* The step that ends a batch leaves all of it or nothing of it. *)
LEMMA AllOrNothingStep ==
    ASSUME WritersInv, [Next]_vars, NEW w \in Writers, w \notin disturbed'
    PROVE  /\ Ended(w, "completed") => \A s \in SlugSet(w) : pending'[s].by = <<w, jobs[w]>>
           /\ Ended(w, "failed") /\ stage[w] \notin {"plan", "denied"} =>
                 \A s \in SlugSet(w) : pending'[s] = before[w][s]
<1>0. BookInv(w) /\ DraftsInv(w)
  BY DEF WritersInv
<1>1. ASSUME Ended(w, "completed"), NEW s \in SlugSet(w) PROVE pending'[s].by = <<w, jobs[w]>>
  <2>1. WriterStep(w)
    BY <1>1, EndedByItself DEF Ended
  <2>2. EmptyBatch(w) \/ CleanupBackups(w)
    <3>1. outcome'[w] = "completed" /\ stage'[w] = "idle"
      BY <1>1 DEF Ended
    <3>2. \A result : Finish(w, result) => result = "completed"
      BY <3>1, Reported
    <3> QED BY <2>1, <3>1, <3>2, EndedHow DEF RefuseBatch, WriteTempsFails, MoveBackupFails,
               CommitFails, Die
  <2>3. ~EmptyBatch(w)
    BY <1>1 DEF EmptyBatch, SlugSet
  <2>4. stage[w] = "clean" /\ UNCHANGED <<pending, disturbed>>
    BY <2>2, <2>3 DEF CleanupBackups, files
  <2>5. s \in committed[w] /\ stage[w] \in Busy /\ w \notin disturbed
    BY <1>0, <1>1, <2>4 DEF BookInv, Busy
  <2> QED BY <1>0, <1>1, <2>4, <2>5 DEF DraftsInv
<1>2. ASSUME Ended(w, "failed"), stage[w] \notin {"plan", "denied"}, NEW s \in SlugSet(w)
      PROVE  pending'[s] = before[w][s]
  <2>1. WriterStep(w)
    BY <1>2, EndedByItself DEF Ended
  <2>2. WriteTempsFails(w) \/ MoveBackupFails(w) \/ CommitFails(w)
    <3>1. outcome'[w] = "failed" /\ stage'[w] = "idle"
      BY <1>2 DEF Ended
    <3>2. \A result : Finish(w, result) => result = "failed"
      BY <3>1, Reported
    <3>3. ~RefuseBatch(w)
      BY <1>2 DEF RefuseBatch
    <3> QED BY <2>1, <3>1, <3>2, <3>3, EndedHow DEF EmptyBatch, CleanupBackups, Die
  <2>3. CASE WriteTempsFails(w)
    <3>1. stage[w] = "temps" /\ UNCHANGED <<pending, disturbed>>
      BY <2>3 DEF WriteTempsFails, files
    <3>2. moved[w] = {} /\ committed[w] = {} /\ stage[w] \in Busy
      BY <1>0, <3>1 DEF BookInv, Busy
    <3> QED BY <1>0, <1>2, <3>1, <3>2 DEF DraftsInv
  <2>4. CASE MoveBackupFails(w) \/ CommitFails(w)
    <3>1. stage[w] = "swap" /\ pending' = RolledBack(w) /\ w \notin disturbed
      BY <2>4 DEF MoveBackupFails, CommitFails, Disturb
    <3> QED BY <1>2, <3>1, RollbackRestores
  <2> QED BY <2>2, <2>3, <2>4
<1> QED BY <1>1, <1>2

(* A batch is all or nothing: unless somebody else came to its slugs, success
   leaves its drafts, failure what was there before (write_candidates and its
   rollback). *)
THEOREM BatchesAllOrNothing == Spec => BatchIsAllOrNothing
<1>1. WritersInv /\ [Next]_vars =>
        [\A w \in Writers \ disturbed' :
            /\ Ended(w, "completed") => \A s \in SlugSet(w) : pending'[s].by = <<w, jobs[w]>>
            /\ Ended(w, "failed") /\ stage[w] \notin {"plan", "denied"} =>
                  \A s \in SlugSet(w) : pending'[s] = before[w][s]]_draftVars
  BY AllOrNothingStep
<1> QED BY <1>1, WritersInvariant, PTL DEF Spec, BatchIsAllOrNothing

(* The death of a writer leaves each earlier draft in its place or in a
   backup file, until all of the batch is in place. *)
LEMMA DeathStep ==
    ASSUME WritersInv, [Next]_vars, NEW w \in Writers, w \notin disturbed,
           Ended(w, "died"), stage[w] \notin {"plan", "denied"},
           NEW s \in SlugSet(w), before[w][s] # NoDraft
    PROVE  before[w][s] \in {pending'[s]} \cup litter'
<1>0. BookInv(w) /\ DraftsInv(w)
  BY DEF WritersInv
<1>1. WriterStep(w) /\ stage[w] \in Busy
  BY <1>0, EndedByItself DEF Ended, BookInv
<1>2. Die(w)
  <2>1. outcome'[w] = "died" /\ stage'[w] = "idle"
    BY DEF Ended
  <2>2. \A result : Finish(w, result) => result = "died"
    BY <2>1, Reported
  <2> QED BY <1>1, <2>1, <2>2, EndedHow DEF RefuseBatch, EmptyBatch, WriteTempsFails, MoveBackupFails,
             CommitFails, CleanupBackups
<1>3. pending' = pending /\ litter' = litter \cup {backups[w][x] : x \in DOMAIN backups[w]}
  BY <1>2 DEF Die, files
<1>4. CASE s \in moved[w]
  <2>1. s \in DOMAIN backups[w] /\ backups[w][s] = before[w][s]
    BY <1>0, <1>1, <1>4 DEF BookInv, DraftsInv
  <2> QED BY <1>3, <2>1
<1>5. CASE s \notin moved[w]
  <2>1. s \in preexisted[w]
    BY <1>0, <1>1 DEF BookInv
  <2>2. committed[w] = {}
    BY <1>0, <1>5, <2>1 DEF BookInv
  <2>3. pending[s] = before[w][s]
    BY <1>0, <1>1, <1>5, <2>2 DEF DraftsInv
  <2> QED BY <1>3, <2>3
<1> QED BY <1>4, <1>5

(* A death in the middle of a batch loses no earlier draft (the backups of
   write_candidates are files, not memory). *)
THEOREM DeathsLoseNothing == Spec => DeathKeepsEarlierDrafts
<1>1. WritersInv /\ [Next]_vars =>
        [\A w \in Writers \ disturbed : Ended(w, "died") /\ stage[w] \notin {"plan", "denied"} =>
            \/ ToCommit(w) = {}
            \/ \A s \in SlugSet(w) : before[w][s] # NoDraft =>
                  before[w][s] \in {pending'[s]} \cup litter']_draftVars
  BY DeathStep
<1> QED BY <1>1, WritersInvariant, PTL DEF Spec, DeathKeepsEarlierDrafts

-----------------------------------------------------------------------------
IsList(s) == s \in Seq(ToSet(s))

(* The parts of a job that the reduce step rests on. *)
JobTypeInv ==
    /\ phase \in {"accept", "load", "map", "reduce", "synthesis", "write", "done"}
    /\ phase \in {"accept", "load"} => request \in Requests /\ preamble = NoPreamble
    /\ IsList(cands) /\ IsList(preamble.preferences)
    /\ phase = "map" => DOMAIN held = DOMAIN windows /\ \A n \in DOMAIN windows : IsList(held[n])

(* No candidate is merged into one that was itself merged: into the earlier
   ones only, up to the first of the pair that is compared next. *)
ReduceInv ==
    /\ IsList(absorbed) /\ DOMAIN absorbed = DOMAIN cands
    /\ \A k \in DOMAIN cands : absorbed[k] # 0 =>
          absorbed[k] \in DOMAIN cands /\ absorbed[k] < k /\ absorbed[absorbed[k]] = 0
    /\ \A k \in DOMAIN preamble.preferences : \E c \in DOMAIN cands :
          cands[c].kind = "preference" /\ cands[c].nr = k

PairInv ==
    /\ pair[1] \in Nat \ {0} /\ pair[2] \in Nat /\ pair[1] < pair[2]
    /\ pair[2] <= Len(cands) => absorbed[pair[1]] = 0
    /\ \A k \in DOMAIN cands : absorbed[k] <= pair[1]

CandidatesInv ==
    /\ JobTypeInv
    /\ phase \in {"reduce", "synthesis", "write"} => ReduceInv
    /\ phase = "reduce" => PairInv

(* Lists: their indexes, and what appending one to another keeps. *)
LEMMA ListDomain ==
    ASSUME NEW s, IsList(s)
    PROVE  Len(s) \in Nat /\ DOMAIN s = 1..Len(s)
BY DEF IsList

LEMMA FunctionList ==
    ASSUME NEW n \in Nat, NEW s, DOMAIN s = 1..n, s = [k \in 1..n |-> s[k]]
    PROVE  IsList(s) /\ Len(s) = n
<1>1. s \in [1..n -> ToSet(s)]
  BY DEF ToSet
<1>2. s \in Seq(ToSet(s))
  BY <1>1, SeqDef
<1>3. Len(s) = n
  BY <1>2, LenProperties
<1> QED BY <1>2, <1>3 DEF IsList

LEMMA SequenceList ==
    ASSUME NEW A, NEW s \in Seq(A)
    PROVE  IsList(s)
<1>1. DOMAIN s = 1..Len(s) /\ Len(s) \in Nat
  BY LenProperties
<1>2. s = [k \in 1..Len(s) |-> s[k]]
  BY LenProperties
<1> QED BY <1>1, <1>2, FunctionList

LEMMA EmptyList == IsList(<<>>) /\ DOMAIN <<>> = {}
BY DEF IsList

LEMMA ConcatList ==
    ASSUME NEW s, NEW t, IsList(s), IsList(t)
    PROVE  /\ IsList(s \o t) /\ Len(s \o t) = Len(s) + Len(t)
           /\ \A k \in DOMAIN s : k \in DOMAIN (s \o t) /\ (s \o t)[k] = s[k]
           /\ \A k \in DOMAIN t : Len(s) + k \in DOMAIN (s \o t) /\ (s \o t)[Len(s) + k] = t[k]
           /\ \A k \in DOMAIN (s \o t) : k \in DOMAIN s \/ (k - Len(s) \in DOMAIN t /\ k > Len(s))
<1> DEFINE A == ToSet(s) \cup ToSet(t)
<1>1. s \in Seq(A) /\ t \in Seq(A)
  <2>1. s \in [1..Len(s) -> A] /\ Len(s) \in Nat
    BY ListDomain DEF IsList, ToSet
  <2>2. t \in [1..Len(t) -> A] /\ Len(t) \in Nat
    BY ListDomain DEF IsList, ToSet
  <2> QED BY <2>1, <2>2, SeqDef
<1> HIDE DEF A
<1>2. /\ s \o t \in Seq(A) /\ Len(s \o t) = Len(s) + Len(t)
      /\ \A i \in 1..(Len(s) + Len(t)) :
            (s \o t)[i] = IF i <= Len(s) THEN s[i] ELSE t[i - Len(s)]
  BY <1>1, ConcatProperties
<1>3. /\ Len(s) \in Nat /\ DOMAIN s = 1..Len(s) /\ Len(t) \in Nat /\ DOMAIN t = 1..Len(t)
      /\ DOMAIN (s \o t) = 1..(Len(s) + Len(t))
  BY <1>1, <1>2, LenProperties
<1>4. IsList(s \o t)
  BY <1>2, SequenceList
<1> QED BY <1>2, <1>3, <1>4

LEMMA AppendList ==
    ASSUME NEW s, NEW e, IsList(s)
    PROVE  IsList(Append(s, e))
<1> DEFINE A == ToSet(s) \cup {e}
<1>1. s \in Seq(A)
  <2>1. s \in [1..Len(s) -> A] /\ Len(s) \in Nat
    BY ListDomain DEF IsList, ToSet
  <2> QED BY <2>1, SeqDef
<1> HIDE DEF A
<1>2. Append(s, e) \in Seq(A)
  BY <1>1, e \in A DEF A
<1> QED BY <1>2, SequenceList

(* A job that ends keeps nothing. *)
LEMMA DropCandidates ==
    ASSUME phase' = "done", Drop
    PROVE  CandidatesInv'
BY EmptyList DEF Drop, CandidatesInv, JobTypeInv, NoPreamble

LEMMA LoadStep ==
    ASSUME CandidatesInv, LoadOrchestrated
    PROVE  CandidatesInv'
<1> DEFINE es == ParseSessionEvents(request.lines)
           ws == SegmentSession(es, TokenBudget, Overlap)
<1>1. CASE Fail
  BY <1>1, DropCandidates DEF Fail
<1>2. CASE /\ phase' = "map" /\ windows' = ws /\ preamble' \in MinePreamble(es)
           /\ held' = [n \in DOMAIN ws |-> <<>>]
           /\ UNCHANGED cands
  <2>1. request \in Requests /\ IsList(cands)
    BY DEF LoadOrchestrated, CandidatesInv, JobTypeInv
  <2>2. IsList(preamble'.preferences)
    BY <1>2, <2>1, PreambleAssumption DEF IsList
  <2> QED BY <1>2, <2>1, <2>2, EmptyList DEF CandidatesInv, JobTypeInv
<1> QED BY <1>1, <1>2 DEF LoadOrchestrated

LEMMA SingleShotStep ==
    ASSUME CandidatesInv, ExtractWithRetry
    PROVE  CandidatesInv'
<1>1. CASE Fail
  BY <1>1, DropCandidates DEF Fail
<1>2. CASE UNCHANGED <<request, phase, events, preamble, windows, mapping, tries, held, cands, pair, absorbed>>
  BY <1>2 DEF CandidatesInv, JobTypeInv, ReduceInv, PairInv
<1>3. ASSUME NEW n \in {0, 1, 2}, cands' = [k \in 1..n |-> [from |-> 0, kind |-> "prose", nr |-> k]],
             absorbed' = [k \in DOMAIN cands' |-> 0], phase' = "write", UNCHANGED <<request, preamble>>
      PROVE  CandidatesInv'
  <2>1. DOMAIN cands' = 1..n /\ DOMAIN absorbed' = 1..n
    BY <1>3
  <2>2. IsList(cands') /\ IsList(absorbed')
    BY <1>3, <2>1, FunctionList
  <2>3. preamble' = NoPreamble
    BY <1>3 DEF ExtractWithRetry, CandidatesInv, JobTypeInv
  <2> QED BY <1>3, <2>1, <2>2, <2>3, EmptyList DEF CandidatesInv, JobTypeInv, ReduceInv, NoPreamble
<1>4. ASSUME NEW answer, \E n \in IF answer = "no" THEN {0} ELSE {1, 2} :
                cands' = [k \in 1..n |-> [from |-> 0, kind |-> "prose", nr |-> k]]
      PROVE  \E n \in {0, 1, 2} : cands' = [k \in 1..n |-> [from |-> 0, kind |-> "prose", nr |-> k]]
  BY <1>4
<1> QED BY <1>1, <1>2, <1>3, <1>4 DEF ExtractWithRetry

(* The map step collects lists. *)
LEMMA MapStep ==
    ASSUME CandidatesInv, NEW n \in DOMAIN windows,
           StartWindow(n) \/ ExtractProseWindow(n) \/ MapEpisode(n) \/ WindowPanics(n)
    PROVE  CandidatesInv'
<1>0. /\ phase = "map" /\ phase' = "map" /\ UNCHANGED <<windows, preamble>>
      /\ IsList(cands) /\ IsList(preamble.preferences) /\ DOMAIN held = DOMAIN windows
      /\ \A m \in DOMAIN windows : IsList(held[m])
  BY DEF CandidatesInv, JobTypeInv, StartWindow, ExtractProseWindow, MapEpisode, WindowPanics, keepInMap
<1> SUFFICES IsList(cands') /\ DOMAIN held' = DOMAIN windows /\ \A m \in DOMAIN windows : IsList(held'[m])
  BY <1>0 DEF CandidatesInv, JobTypeInv
<1>1. ASSUME NEW list, IsList(list), held' = [held EXCEPT ![n] = list]
      PROVE  DOMAIN held' = DOMAIN windows /\ \A m \in DOMAIN windows : IsList(held'[m])
  BY <1>0, <1>1
<1>2. CASE StartWindow(n)
  BY <1>0, <1>2 DEF StartWindow
<1>3. CASE ExtractProseWindow(n)
  <2>1. PICK answer : held' = [held EXCEPT ![n] = IF answer = "yes" THEN <<ProseCandidate(n)>> ELSE @]
    BY <1>3 DEF ExtractProseWindow
  <2>2. IsList(<<ProseCandidate(n)>>)
    BY DEF IsList, ToSet
  <2>3. \E list : IsList(list) /\ held' = [held EXCEPT ![n] = list]
    BY <1>0, <2>1, <2>2
  <2> QED BY <1>0, <1>1, <1>3, <2>3 DEF ExtractProseWindow
<1>4. ASSUME NEW list, IsList(list), EndWindow(n, list)
      PROVE  IsList(cands') /\ DOMAIN held' = DOMAIN windows /\ \A m \in DOMAIN windows : IsList(held'[m])
  BY <1>0, <1>1, <1>4, ConcatList, EmptyList DEF EndWindow
<1>5. CASE FailWindow(n)
  BY <1>0, <1>1, <1>5, EmptyList DEF FailWindow
<1>6. CASE MapEpisode(n)
  <2>1. IsList(held[n])
    BY <1>0
  <2>2. \A e : IsList(Append(held[n], e))
    BY <2>1, AppendList
  <2>3. \/ FailWindow(n) \/ EndWindow(n, held[n]) \/ \E e : EndWindow(n, Append(held[n], e))
    BY <1>6 DEF MapEpisode
  <2> QED BY <1>4, <1>5, <2>1, <2>2, <2>3
<1>7. CASE WindowPanics(n)
  BY <1>5, <1>7 DEF WindowPanics
<1> QED BY <1>2, <1>3, <1>6, <1>7

(* Every preference of the preamble joins the candidates. *)
LEMMA JoinStep ==
    ASSUME CandidatesInv, JoinWindows
    PROVE  CandidatesInv'
<1>1. CASE Fail
  BY <1>1, DropCandidates DEF Fail
<1>2. CASE ~Fail
  <2>1. /\ phase' = "reduce" /\ cands' = cands \o PreferenceCandidates /\ pair' = <<1, 2>>
        /\ absorbed' = [k \in DOMAIN cands' |-> 0] /\ UNCHANGED <<request, preamble>>
    BY <1>2 DEF JoinWindows
  <2>2. IsList(cands) /\ IsList(preamble.preferences)
    BY DEF CandidatesInv, JobTypeInv
  <2> DEFINE prefs == PreferenceCandidates
  <2>3. /\ IsList(prefs) /\ DOMAIN prefs = DOMAIN preamble.preferences
        /\ \A k \in DOMAIN prefs : prefs[k] = [from |-> 0, kind |-> "preference", nr |-> k]
    <3>1. DOMAIN preamble.preferences = 1..Len(preamble.preferences) /\ Len(preamble.preferences) \in Nat
      BY <2>2, ListDomain
    <3>2. /\ DOMAIN prefs = 1..Len(preamble.preferences)
          /\ \A k \in DOMAIN prefs : prefs[k] = [from |-> 0, kind |-> "preference", nr |-> k]
          /\ prefs = [k \in 1..Len(preamble.preferences) |-> prefs[k]]
      BY <3>1 DEF PreferenceCandidates
    <3> HIDE DEF prefs
    <3>3. IsList(prefs)
      BY <3>1, <3>2, FunctionList
    <3> QED BY <3>1, <3>2, <3>3
  <2> HIDE DEF prefs
  <2>4. cands' = cands \o prefs
    BY <2>1 DEF prefs
  <2>5. /\ IsList(cands')
        /\ \A k \in DOMAIN prefs : Len(cands) + k \in DOMAIN cands' /\ cands'[Len(cands) + k] = prefs[k]
    BY <2>2, <2>3, <2>4, ConcatList
  <2>6. IsList(absorbed') /\ DOMAIN absorbed' = DOMAIN cands'
    BY <2>1, <2>5, ListDomain, FunctionList
  <2>7. \A k \in DOMAIN preamble.preferences : \E c \in DOMAIN cands' :
            cands'[c].kind = "preference" /\ cands'[c].nr = k
    <3> SUFFICES ASSUME NEW k \in DOMAIN preamble.preferences
                 PROVE  \E c \in DOMAIN cands' : cands'[c].kind = "preference" /\ cands'[c].nr = k
      OBVIOUS
    <3>0. k \in DOMAIN prefs /\ prefs[k] = [from |-> 0, kind |-> "preference", nr |-> k]
      BY <2>3, Zenon
    <3>1. k \in DOMAIN prefs /\ prefs[k].kind = "preference" /\ prefs[k].nr = k
      BY <3>0
    <3>2. Len(cands) + k \in DOMAIN cands' /\ cands'[Len(cands) + k] = prefs[k]
      BY <2>5, <3>1
    <3> QED BY <3>1, <3>2
  <2>8. ReduceInv'
    BY <2>1, <2>6, <2>7 DEF ReduceInv
  <2>9. PairInv'
    <3>1. DOMAIN cands' = 1..Len(cands') /\ Len(cands') \in Nat
      BY <2>5, ListDomain
    <3> QED BY <2>1, <3>1 DEF PairInv
  <2> QED BY <2>1, <2>2, <2>5, <2>8, <2>9 DEF CandidatesInv, JobTypeInv
<1> QED BY <1>1, <1>2

(* The candidate the reduce step goes on with is one that was not merged. *)
LEMMA NextPairFacts ==
    ASSUME IsList(cands), NEW i \in Nat \ {0}, NEW j \in Nat, NEW into, i < j, j <= Len(cands), into[i] = 0,
           NEW p, p = NextPair(i, j, into)
    PROVE  /\ p[1] \in Nat \ {0} /\ p[2] \in Nat /\ p[1] < p[2] /\ i <= p[1]
           /\ p[2] <= Len(cands) => into[p[1]] = 0
<1> DEFINE later == {k \in (i + 1)..Len(cands) : into[k] = 0}
<1>0. Len(cands) \in Nat
  BY ListDomain
<1>1. CASE j < Len(cands)
  <2>1. p = <<i, j + 1>>
    BY <1>0, <1>1 DEF NextPair
  <2> QED BY <2>1
<1>2. CASE j >= Len(cands) /\ later # {}
  <2>1. p = <<Min(later), Min(later) + 1>>
    BY <1>0, <1>2 DEF NextPair
  <2>2. later \subseteq Nat
    BY <1>0
  <2>3. \E x \in later : \A y \in later : x <= y
    BY <1>2, <2>2, LeastNatural
  <2>4. Min(later) \in later
    BY <2>3 DEF Min
  <2> QED BY <1>0, <2>1, <2>4
<1>3. CASE j >= Len(cands) /\ later = {}
  <2>1. p = <<Len(cands) + 1, Len(cands) + 2>>
    BY <1>0, <1>3 DEF NextPair
  <2> QED BY <1>0, <2>1
<1> QED BY <1>0, <1>1, <1>2, <1>3

LEMMA CompareStep ==
    ASSUME CandidatesInv, ComparePair
    PROVE  CandidatesInv'
<1> DEFINE i == pair[1]
           j == pair[2]
<1>0. phase = "reduce" /\ JobTypeInv /\ ReduceInv /\ PairInv /\ j <= Len(cands)
  BY DEF ComparePair, CandidatesInv
<1>1. /\ i \in Nat \ {0} /\ j \in Nat /\ i < j /\ absorbed[i] = 0 /\ IsList(cands)
      /\ Len(cands) \in Nat /\ DOMAIN cands = 1..Len(cands) /\ i \in DOMAIN cands /\ j \in DOMAIN cands
  <2>1. i \in Nat \ {0} /\ j \in Nat /\ i < j /\ absorbed[i] = 0 /\ IsList(cands)
    BY <1>0 DEF JobTypeInv, PairInv
  <2>2. Len(cands) \in Nat /\ DOMAIN cands = 1..Len(cands)
    BY <2>1, ListDomain
  <2> QED BY <1>0, <2>1, <2>2
<1>2. ASSUME NEW into, absorbed' = into, pair' = NextPair(i, j, into), UNCHANGED <<keepInReduce, phase>>,
             into = absorbed \/ (absorbed[j] = 0 /\ into = [absorbed EXCEPT ![j] = i])
      PROVE  CandidatesInv'
  <2>1. into[i] = 0
    BY <1>0, <1>1, <1>2 DEF ReduceInv
  <2>2. /\ pair'[1] \in Nat \ {0} /\ pair'[2] \in Nat /\ pair'[1] < pair'[2] /\ i <= pair'[1]
        /\ pair'[2] <= Len(cands) => into[pair'[1]] = 0
    BY <1>0, <1>1, <1>2, <2>1, NextPairFacts
  <2>3. DOMAIN into = DOMAIN cands /\ IsList(into)
    <3>1. DOMAIN absorbed = 1..Len(cands) /\ DOMAIN into = 1..Len(cands)
      BY <1>0, <1>1, <1>2 DEF ReduceInv
    <3>2. absorbed = [k \in 1..Len(cands) |-> absorbed[k]]
      BY <1>0, <3>1 DEF ReduceInv, IsList
    <3>3. into = [k \in 1..Len(cands) |-> into[k]]
      BY <1>2, <3>1, <3>2
    <3> QED BY <1>1, <3>1, <3>3, FunctionList
  <2>4. \A k \in DOMAIN cands : absorbed[k] <= i /\ absorbed[k] # j
    <3>1. \A k \in DOMAIN cands : absorbed[k] <= i /\ (absorbed[k] # 0 => absorbed[k] \in DOMAIN cands)
      BY <1>0 DEF PairInv, ReduceInv
    <3> QED BY <1>1, <3>1
  <2>5. ASSUME NEW k \in DOMAIN cands, into[k] # 0
        PROVE  into[k] \in DOMAIN cands /\ into[k] < k /\ into[into[k]] = 0 /\ into[k] <= i
    <3>1. CASE into = absorbed
      BY <1>0, <2>4, <2>5, <3>1 DEF ReduceInv
    <3>2. CASE into = [absorbed EXCEPT ![j] = i] /\ k = j
      <4>1. into[k] = i
        BY <1>0, <1>1, <3>2 DEF ReduceInv
      <4> QED BY <1>1, <2>1, <3>2, <4>1
    <3>3. CASE into = [absorbed EXCEPT ![j] = i] /\ k # j
      <4>1. into[k] = absorbed[k]
        BY <1>0, <3>3 DEF ReduceInv
      <4>2. absorbed[k] \in DOMAIN cands /\ absorbed[k] < k /\ absorbed[absorbed[k]] = 0
        BY <1>0, <2>5, <4>1 DEF ReduceInv
      <4>3. into[absorbed[k]] = absorbed[absorbed[k]]
        BY <1>0, <2>4, <3>3, <4>2 DEF ReduceInv
      <4> QED BY <2>4, <4>1, <4>2, <4>3
    <3> QED BY <1>2, <3>1, <3>2, <3>3
  <2>6. UNCHANGED <<request, phase, preamble, windows, held, cands>>
    BY <1>2 DEF keepInReduce
  <2>7. JobTypeInv'
    BY <1>0, <2>6 DEF JobTypeInv
  <2>8. ReduceInv'
    BY <1>0, <1>2, <2>3, <2>5, <2>6 DEF ReduceInv
  <2>9. \A k \in DOMAIN cands : into[k] <= pair'[1]
    <3>1. ASSUME NEW k \in DOMAIN cands, into[k] # 0 PROVE into[k] <= pair'[1]
      BY <1>1, <2>2, <2>5, <3>1
    <3>2. ASSUME NEW k \in DOMAIN cands, into[k] = 0 PROVE into[k] <= pair'[1]
      BY <2>2, <3>2
    <3> QED BY <3>1, <3>2
  <2>10. PairInv'
    BY <1>2, <2>2, <2>6, <2>9 DEF PairInv
  <2> QED BY <1>0, <2>6, <2>7, <2>8, <2>10 DEF CandidatesInv
<1>3. CASE Fail
  BY <1>3, DropCandidates DEF Fail
<1> QED BY <1>2, <1>3 DEF ComparePair

(* The synthesis adds candidates after the others. *)
LEMMA SynthesisStep ==
    ASSUME CandidatesInv, Synthesize
    PROVE  CandidatesInv'
<1>0. phase = "synthesis" /\ JobTypeInv /\ ReduceInv
  BY DEF Synthesize, CandidatesInv
<1>1. PICK n \in Nat : /\ cands' = cands \o [k \in 1..n |-> [from |-> 0, kind |-> "synthesis", nr |-> k]]
                       /\ absorbed' = absorbed \o [k \in 1..n |-> 0]
  <2>1. PICK answer \in SynthesisAnswers : \E m \in IF answer = "yes" THEN 1..MaxSynthesis ELSE {0} :
            /\ cands' = cands \o [k \in 1..m |-> [from |-> 0, kind |-> "synthesis", nr |-> k]]
            /\ absorbed' = absorbed \o [k \in 1..m |-> 0]
    BY DEF Synthesize
  <2>2. (IF answer = "yes" THEN 1..MaxSynthesis ELSE {0}) \subseteq Nat
    BY ExtractionAssumption
  <2> QED BY <2>1, <2>2, Zenon
<1>2. phase' = "write" /\ UNCHANGED <<request, preamble>>
  BY DEF Synthesize
<1> DEFINE new == [k \in 1..n |-> [from |-> 0, kind |-> "synthesis", nr |-> k]]
           zeros == [k \in 1..n |-> 0]
<1>3. DOMAIN new = 1..n /\ DOMAIN zeros = 1..n /\ \A k \in 1..n : zeros[k] = 0
  OBVIOUS
<1>4. IsList(new) /\ Len(new) = n /\ IsList(zeros) /\ Len(zeros) = n
  BY <1>3, FunctionList
<1> HIDE DEF new, zeros
<1>5. IsList(cands) /\ IsList(absorbed) /\ DOMAIN absorbed = DOMAIN cands
  BY <1>0 DEF JobTypeInv, ReduceInv
<1>6. /\ DOMAIN cands = 1..Len(cands) /\ Len(cands) \in Nat
      /\ DOMAIN absorbed = 1..Len(absorbed) /\ Len(absorbed) \in Nat
  BY <1>5, ListDomain
<1>7. Len(absorbed) = Len(cands)
  BY <1>5, <1>6
<1>8. /\ IsList(cands') /\ Len(cands') = Len(cands) + n
      /\ \A k \in DOMAIN cands : k \in DOMAIN cands' /\ cands'[k] = cands[k]
  BY <1>1, <1>4, <1>5, ConcatList, SMTT(15) DEF new
<1>9. /\ IsList(absorbed') /\ Len(absorbed') = Len(absorbed) + n
      /\ \A k \in DOMAIN absorbed : absorbed'[k] = absorbed[k]
      /\ \A k \in DOMAIN zeros : absorbed'[Len(absorbed) + k] = zeros[k]
      /\ \A k \in DOMAIN absorbed' : k \in DOMAIN absorbed \/ k - Len(absorbed) \in DOMAIN zeros
  BY <1>1, <1>4, <1>5, ConcatList DEF zeros
<1>10. DOMAIN cands' = 1..(Len(cands) + n) /\ DOMAIN absorbed' = DOMAIN cands'
  BY <1>7, <1>8, <1>9, ListDomain
<1>11. ASSUME NEW k \in DOMAIN cands', absorbed'[k] # 0
       PROVE  absorbed'[k] \in DOMAIN cands' /\ absorbed'[k] < k /\ absorbed'[absorbed'[k]] = 0
  <2>1. k \in DOMAIN cands
    <3>1. CASE k - Len(absorbed) \in DOMAIN zeros
      <4>1. absorbed'[Len(absorbed) + (k - Len(absorbed))] = 0
        BY <1>3, <1>9, <3>1
      <4>2. Len(absorbed) + (k - Len(absorbed)) = k
        BY <1>6, <1>10
      <4> QED BY <1>11, <4>1, <4>2
    <3> QED BY <1>5, <1>9, <1>10, <3>1
  <2>2. absorbed'[k] = absorbed[k]
    BY <1>5, <1>9, <2>1
  <2>3. absorbed[k] \in DOMAIN cands /\ absorbed[k] < k /\ absorbed[absorbed[k]] = 0
    BY <1>0, <1>11, <2>1, <2>2 DEF ReduceInv
  <2> QED BY <1>5, <1>8, <1>9, <2>2, <2>3
<1>12. ASSUME NEW k \in DOMAIN preamble'.preferences
       PROVE  \E c \in DOMAIN cands' : cands'[c].kind = "preference" /\ cands'[c].nr = k
  BY <1>0, <1>2, <1>8, <1>12 DEF ReduceInv
<1>13. ReduceInv'
  BY <1>9, <1>10, <1>11, <1>12 DEF ReduceInv
<1> QED BY <1>0, <1>2, <1>8, <1>13 DEF CandidatesInv, JobTypeInv

LEMMA InitCandidates == Init => CandidatesInv
BY EmptyList DEF Init, CandidatesInv, JobTypeInv, NoPreamble

LEMMA NextCandidates ==
    ASSUME CandidatesInv, [Next]_vars
    PROVE  CandidatesInv'
<1>1. CASE UNCHANGED jobVars
  BY <1>1 DEF jobVars, CandidatesInv, JobTypeInv, ReduceInv, PairInv
<1>2. CASE Fail
  BY <1>2, DropCandidates DEF Fail
<1>3. CASE Accept
  <2>1. CASE ~Fail
    BY <1>3, <2>1 DEF Accept, CandidatesInv, JobTypeInv
  <2> QED BY <1>2, <2>1
<1>4. CASE LoadSingleShot
  <2>1. CASE ~Fail
    BY <1>4, <2>1 DEF LoadSingleShot, CandidatesInv, JobTypeInv, ReduceInv, PairInv
  <2> QED BY <1>2, <2>1
<1>5. CASE ReduceDone
  BY <1>5 DEF ReduceDone, keepInReduce, CandidatesInv, JobTypeInv, ReduceInv
<1>6. CASE ReduceFails
  BY <1>2, <1>6 DEF ReduceFails
<1>7. CASE WriteDrafts
  BY <1>7, DropCandidates DEF WriteDrafts
<1>8. CASE \E w \in Writers : OtherBatch(w) \/ (WriterStep(w) /\ UNCHANGED jobVars)
  BY <1>1, <1>8 DEF OtherBatch
<1>9. CASE UNCHANGED vars
  BY <1>1, <1>9 DEF vars
<1> QED BY <1>1, <1>3, <1>4, <1>5, <1>6, <1>7, <1>8, <1>9, LoadStep, SingleShotStep, MapStep, JoinStep,
           CompareStep, SynthesisStep DEF Next

(* No candidate of a job is merged into one that was itself merged. *)
THEOREM CandidatesInvariant == Spec => []CandidatesInv
<1>1. Init => CandidatesInv
  BY InitCandidates
<1>2. CandidatesInv /\ [Next]_vars => CandidatesInv'
  BY NextCandidates
<1> QED BY <1>1, <1>2, PTL DEF Spec

(* The reduce step loses nothing: what is not written was merged into an
   earlier candidate that is, and every preference is a candidate
   (reduce_candidates, execute_job_orchestrated). *)
THEOREM NothingLostByReduce == Spec => []CandidatesCovered
<1>1. CandidatesInv => CandidatesCovered
  BY DEF CandidatesInv, ReduceInv, CandidatesCovered
<1> QED BY <1>1, CandidatesInvariant, PTL

-----------------------------------------------------------------------------
(* Recursive functions: what each step makes of the one before. *)

(* f follows the steps from v. *)
Follows(f, V, step, v, n) ==
    f \in [0..n -> V] /\ f[0] = v /\ \A k \in 1..n : f[k] = step[k][f[k - 1]]

(* A step taken n times from a first value. *)
LEMMA Recurrence ==
    ASSUME NEW V, NEW v \in V, NEW n \in Nat, NEW step \in [1..n -> [V -> V]]
    PROVE  \E f : Follows(f, V, step, v, n)
<1> DEFINE Steps(f, m) == f[0] = v /\ \A k \in 1..m : f[k] = step[k][f[k - 1]]
           T == {m \in 0..n : \A f \in [0..m -> V] : ~Steps(f, m)}
<1>1. SUFFICES n \notin T
  BY DEF T, Follows
<1>2. SUFFICES ASSUME T # {} PROVE FALSE
  OBVIOUS
<1>3. PICK m \in T : \A l \in T : m <= l
  <2>1. T \subseteq Nat
    OBVIOUS
  <2> HIDE DEF T
  <2> QED BY <1>2, <2>1, LeastNatural
<1>4. m # 0
  <2> DEFINE f == [k \in 0..0 |-> v]
  <2>1. f \in [0..0 -> V] /\ Steps(f, 0)
    OBVIOUS
  <2> QED BY <2>1
<1>5. m - 1 \in 0..n /\ m - 1 \notin T /\ m \in 1..n
  <2>1. m \in 0..n
    BY <1>3
  <2>2. m \in 1..n /\ m - 1 \in 0..n /\ ~(m <= m - 1)
    BY <1>4, <2>1
  <2> HIDE DEF T
  <2> QED BY <1>3, <2>2
<1>6. PICK f \in [0..(m - 1) -> V] : Steps(f, m - 1)
  BY <1>5
<1> DEFINE g == [k \in 0..m |-> IF k = m THEN step[m][f[m - 1]] ELSE f[k]]
<1>7. f[m - 1] \in V
  BY <1>5, <1>6
<1>8. g \in [0..m -> V]
  BY <1>5, <1>6, <1>7
<1>9. Steps(g, m)
  <2>1. g[0] = v
    BY <1>5, <1>6
  <2>2. ASSUME NEW k \in 1..m PROVE g[k] = step[k][g[k - 1]]
    <3>1. k - 1 \in 0..m /\ k - 1 # m /\ k \in 0..m /\ g[k - 1] = f[k - 1]
      BY <1>5
    <3>2. CASE k = m
      BY <3>1, <3>2
    <3>3. CASE k # m
      <4>1. k \in 1..(m - 1)
        BY <1>5, <3>3
      <4>2. f[k] = step[k][f[k - 1]]
        BY <1>6, <4>1
      <4> QED BY <3>1, <3>3, <4>2
    <3> QED BY <3>2, <3>3
  <2> QED BY <2>1, <2>2
<1>10. m \in T
  BY <1>3
<1> HIDE DEF g
<1> QED BY <1>8, <1>9, <1>10

-----------------------------------------------------------------------------
(* The windows of a session. *)

(* A set of numbers up to a bound has a greatest one, and a least one. *)
LEMMA MaxFacts ==
    ASSUME NEW m \in Nat, NEW T, T \subseteq 0..m, T # {}
    PROVE  Max(T) \in T /\ \A y \in T : y <= Max(T)
<1> DEFINE U == {m - y : y \in T}
<1>0. \A y \in T : y \in Int /\ y >= 0 /\ y <= m
  OBVIOUS
<1>1. U \subseteq Nat /\ U # {}
  <2>1. \A y \in T : m - y \in Nat
    BY <1>0
  <2> QED BY <2>1
<1>2. PICK u \in U : \A v \in U : u <= v
  <2> HIDE DEF U
  <2> QED BY <1>1, LeastNatural
<1>3. PICK x \in T : u = m - x
  BY <1>2
<1>4. ASSUME NEW y \in T PROVE x >= y
  <2>1. u <= m - y
    BY <1>2
  <2>2. x \in Int /\ y \in Int
    BY <1>0
  <2> QED BY <1>3, <2>1, <2>2
<1>5. \E z \in T : \A y \in T : z >= y
  BY <1>4
<1>6. Max(T) \in T /\ \A y \in T : Max(T) >= y
  BY <1>5 DEF Max
<1> QED BY <1>0, <1>6

LEMMA MinFacts ==
    ASSUME NEW T, T \subseteq Nat, T # {}
    PROVE  Min(T) \in T /\ \A y \in T : Min(T) <= y
<1>1. \E x \in T : \A y \in T : x <= y
  BY LeastNatural
<1> QED BY <1>1 DEF Min

(* A list of events, of length L. *)
Session(session, L) == L \in Nat \ {0} /\ Len(session) = L /\ DOMAIN session = 1..L

(* A window ends in the session, one of several events fits the budget, and it
   has as many events as fit. *)
LEMMA WindowLengthFacts ==
    ASSUME NEW session, NEW L, Session(session, L), NEW budget, NEW s \in 1..L
    PROVE  LET n == WindowLength(session, s, budget)
           IN  /\ n \in 1..(L - s + 1)
               /\ n = 1 \/ Tokens(SubSeq(session, s, s + n - 1)) <= budget
               /\ \A m \in 1..(L - s + 1) :
                     Tokens(SubSeq(session, s, s + m - 1)) <= budget => m <= n
<1> DEFINE T == {n \in 1..(L - s + 1) :
                    n = 1 \/ Tokens(SubSeq(session, s, s + n - 1)) <= budget}
<1>1. L \in Nat /\ L - s + 1 \in Nat /\ 1 \in 1..(L - s + 1) /\ 1..(L - s + 1) \subseteq 0..(L - s + 1)
  BY DEF Session
<1>2. T \subseteq 0..(L - s + 1) /\ T # {}
  BY <1>1
<1>3. WindowLength(session, s, budget) = Max(T)
  BY DEF WindowLength, Session
<1>4. Max(T) \in T /\ \A m \in T : m <= Max(T)
  <2> HIDE DEF T
  <2> QED BY <1>1, <1>2, MaxFacts
<1> QED BY <1>3, <1>4

(* The next window starts later, and no later than this one ends. *)
LEMMA NextStartFacts ==
    ASSUME NEW s \in Nat, NEW n \in Nat \ {0}, NEW overlap \in Nat
    PROVE  /\ NextStart(s, n, overlap) \in (s + 1)..(s + n)
           /\ overlap > 0 /\ n > overlap => NextStart(s, n, overlap) \in (s + 1)..(s + n - 1)
BY DEF NextStart

(* The loop over the windows: a new start for each, until one reaches the end. *)
Advances(start, session, L, budget, overlap) ==
    /\ start \in [0..L -> 1..L] /\ start[0] = 1
    /\ \A k \in 1..L :
          start[k] = IF start[k - 1] + WindowLength(session, start[k - 1], budget) > L THEN start[k - 1]
                     ELSE NextStart(start[k - 1], WindowLength(session, start[k - 1], budget), overlap)

LEMMA StartFacts ==
    ASSUME NEW session, NEW L, Session(session, L), NEW budget, NEW overlap \in Nat
    PROVE  Advances(WindowStart(session, budget, overlap), session, L, budget, overlap)
<1> DEFINE Move(s) == IF s + WindowLength(session, s, budget) > L THEN s
                      ELSE NextStart(s, WindowLength(session, s, budget), overlap)
           V == 1..L
           step == [k \in 1..L |-> [s \in V |-> Move(s)]]
<1>1. L \in Nat /\ 1 \in V
  BY DEF Session
<1>2. ASSUME NEW s \in V PROVE Move(s) \in V
  <2> DEFINE n == WindowLength(session, s, budget)
  <2>1. n \in 1..(L - s + 1)
    BY WindowLengthFacts
  <2> HIDE DEF n
  <2>2. s \in Nat /\ n \in Nat \ {0} /\ s >= 1
    BY <1>1, <2>1
  <2>3. NextStart(s, n, overlap) \in (s + 1)..(s + n)
    BY <2>2, NextStartFacts
  <2>4. ~(s + n > L) => NextStart(s, n, overlap) \in V
    BY <1>1, <2>2, <2>3
  <2>5. Move(s) = IF s + n > L THEN s ELSE NextStart(s, n, overlap)
    BY DEF n
  <2> HIDE DEF Move
  <2> QED BY <2>4, <2>5
<1> HIDE DEF Move
<1>3. step \in [1..L -> [V -> V]]
  BY <1>2
<1> HIDE DEF step, V
<1>4. PICK f : Follows(f, V, step, 1, L)
  BY <1>1, <1>3, Recurrence
<1> USE DEF step, V
<1>5. f \in [0..L -> V] /\ f[0] = 1 /\ \A k \in 1..L : f[k] = Move(f[k - 1])
  <2>1. f \in [0..L -> V] /\ f[0] = 1 /\ \A k \in 1..L : f[k] = step[k][f[k - 1]]
    BY <1>4 DEF Follows
  <2>2. \A k \in 1..L : k - 1 \in 0..L
    BY <1>1
  <2> QED BY <2>1, <2>2
<1> DEFINE Start(g) == [k \in 0..L |-> IF k = 0 THEN 1 ELSE Move(g[k - 1])]
           start == CHOOSE g : g = Start(g)
<1>6. f = Start(f)
  <2>1. \A k \in 0..L : f[k] = IF k = 0 THEN 1 ELSE Move(f[k - 1])
    BY <1>1, <1>5
  <2> QED BY <1>5, <2>1
<1>7. start = Start(start)
  BY <1>6
<1>8. WindowStart(session, budget, overlap) = start
  BY DEF WindowStart, Move, Session
<1> HIDE DEF start
<1>9. start[0] = 1 /\ DOMAIN start = 0..L /\ \A k \in 1..L : start[k] = Move(start[k - 1])
  BY <1>1, <1>7
<1>10. ASSUME NEW k \in 0..L PROVE start[k] \in V
  <2> DEFINE T == {j \in 0..L : start[j] \notin V}
  <2>1. SUFFICES ASSUME T # {} PROVE FALSE
    OBVIOUS
  <2>2. T \subseteq Nat
    BY <1>1
  <2>3. PICK j \in T : \A i \in T : j <= i
    <3> HIDE DEF T
    <3> QED BY <2>1, <2>2, LeastNatural
  <2>4. j # 0
    BY <1>1, <1>9, <2>3
  <2>5. j \in 1..L /\ j - 1 \in 0..L /\ ~(j <= j - 1)
    BY <1>1, <2>3, <2>4
  <2>6. start[j - 1] \in V
    BY <2>3, <2>5
  <2>7. start[j] \in V
    BY <1>2, <1>9, <2>5, <2>6
  <2> QED BY <2>3, <2>7
<1>11. start \in [0..L -> V]
  <2>1. start = [k \in 0..L |-> start[k]]
    BY <1>7
  <2> QED BY <1>10, <2>1
<1> HIDE DEF V
<1>12. \A k \in 1..L : start[k] =
          IF start[k - 1] + WindowLength(session, start[k - 1], budget) > L THEN start[k - 1]
          ELSE NextStart(start[k - 1], WindowLength(session, start[k - 1], budget), overlap)
  BY <1>9 DEF Move
<1> QED BY <1>8, <1>9, <1>11, <1>12 DEF Advances, V

(* The windows of a session: where each starts, and what follows it. *)
Cut(ws, session, L, budget, overlap, start, c) ==
    /\ c \in 1..(L + 1) /\ start \in [1..c -> 1..L] /\ start[1] = 1
    /\ ws = [k \in 1..c |-> WindowFrom(session, start[k], budget)]
    /\ \A k \in 1..(c - 1) :
          /\ start[k] + WindowLength(session, start[k], budget) <= L
          /\ start[k + 1] = NextStart(start[k], WindowLength(session, start[k], budget), overlap)
    /\ start[c] + WindowLength(session, start[c], budget) > L

LEMMA CutFacts ==
    ASSUME NEW session, NEW L, Session(session, L), NEW budget, NEW overlap \in Nat
    PROVE  \E start, c : Cut(SplitIntoOverlapWindows(session, budget, overlap), session, L, budget, overlap, start, c)
<1> DEFINE at == WindowStart(session, budget, overlap)
           End(k) == at[k] + WindowLength(session, at[k], budget)
           T == {k \in 0..L : End(k) > L}
           c == Min(T) + 1
           start == [k \in 1..c |-> at[k - 1]]
<1>1. L \in Nat /\ L # 0
  BY DEF Session
<1>2. /\ at \in [0..L -> 1..L] /\ at[0] = 1
      /\ \A k \in 1..L : at[k] = IF End(k - 1) > L THEN at[k - 1]
                                 ELSE NextStart(at[k - 1], WindowLength(session, at[k - 1], budget), overlap)
  BY StartFacts DEF Advances
<1> HIDE DEF at
<1>3. ASSUME NEW k \in 0..L PROVE End(k) \in Int /\ End(k) > at[k]
  <2>1. at[k] \in 1..L
    BY <1>2
  <2>2. WindowLength(session, at[k], budget) \in 1..(L - at[k] + 1)
    BY <2>1, WindowLengthFacts
  <2> QED BY <1>1, <2>1, <2>2
<1>4. ASSUME NEW k \in 1..L, ~(End(k - 1) > L) PROVE at[k] > at[k - 1]
  <2>0. k - 1 \in 0..L
    BY <1>1
  <2>1. at[k - 1] \in 1..L
    BY <1>2, <2>0
  <2>2. WindowLength(session, at[k - 1], budget) \in 1..(L - at[k - 1] + 1)
    BY <2>1, WindowLengthFacts
  <2> DEFINE n == WindowLength(session, at[k - 1], budget)
             s == at[k - 1]
  <2>3. at[k] = NextStart(s, n, overlap)
    BY <1>2, <1>4
  <2>4. s \in Nat /\ n \in Nat \ {0}
    BY <1>1, <2>1, <2>2
  <2>5. NextStart(s, n, overlap) \in (s + 1)..(s + n)
    <3> HIDE DEF s, n
    <3> QED BY <2>4, NextStartFacts
  <2> HIDE DEF s, n
  <2>6. at[k] > s
    BY <2>3, <2>4, <2>5
  <2> QED BY <2>6 DEF s
<1> HIDE DEF End
<1>5. T # {}
  <2>1. SUFFICES ASSUME T = {} PROVE FALSE
    OBVIOUS
  <2>2. \A k \in 0..L : ~(End(k) > L)
    BY <2>1
  <2> DEFINE U == {k \in 0..L : ~(at[k] > k)}
  <2>3. U = {}
    <3>1. SUFFICES ASSUME U # {} PROVE FALSE
      OBVIOUS
    <3>2. U \subseteq Nat
      BY <1>1
    <3>3. PICK j \in U : \A i \in U : j <= i
      <4> HIDE DEF U
      <4> QED BY <3>1, <3>2, LeastNatural
    <3>4. j \in 0..L /\ ~(at[j] > j)
      BY <3>3
    <3>5. j # 0
      BY <1>2, <3>4
    <3>6. j \in 1..L /\ j - 1 \in 0..L /\ ~(j <= j - 1)
      BY <1>1, <3>4, <3>5
    <3>7. at[j - 1] > j - 1
      BY <3>3, <3>6
    <3>8. at[j] > at[j - 1]
      BY <1>4, <2>2, <3>6
    <3>9. at[j] \in Int /\ at[j - 1] \in Int
      BY <1>2, <3>4, <3>6
    <3> HIDE DEF U
    <3> QED BY <3>4, <3>6, <3>7, <3>8, <3>9
  <2>4. L \in 0..L
    BY <1>1
  <2>5. at[L] > L
    BY <2>3, <2>4
  <2>6. at[L] \in 1..L
    BY <1>2, <2>4
  <2> QED BY <1>1, <2>5, <2>6
<1>6. T \subseteq Nat
  BY <1>1
<1>7. Min(T) \in T /\ \A y \in T : Min(T) <= y
  <2> HIDE DEF T
  <2> QED BY <1>5, <1>6, MinFacts
<1>8. Min(T) \in 0..L /\ End(Min(T)) > L /\ \A k \in 0..L : k < Min(T) => ~(End(k) > L)
  BY <1>1, <1>7
<1> DEFINE last == Min(T)
<1> HIDE DEF last
<1>9. last \in 0..L /\ End(last) > L /\ \A k \in 0..L : k < last => ~(End(k) > L)
  BY <1>8 DEF last
<1>10. SplitIntoOverlapWindows(session, budget, overlap) =
           [k \in 1..(last + 1) |-> WindowFrom(session, at[k - 1], budget)]
  BY DEF SplitIntoOverlapWindows, last, at, End, Session
<1>11. c = last + 1
  BY DEF last
<1> HIDE DEF c, T
<1>12. c \in 1..(L + 1) /\ c - 1 = last
  BY <1>1, <1>9, <1>11
<1>13. \A k \in 1..c : k - 1 \in 0..L /\ start[k] = at[k - 1]
  BY <1>1, <1>12
<1>14. start \in [1..c -> 1..L]
  BY <1>2, <1>13
<1>15. start[1] = 1
  <2>1. 1 \in 1..c /\ 1 - 1 = 0
    BY <1>1, <1>12
  <2> QED BY <1>2, <1>13, <2>1
<1> HIDE DEF start
<1>16. SplitIntoOverlapWindows(session, budget, overlap) = [k \in 1..c |-> WindowFrom(session, start[k], budget)]
  BY <1>10, <1>11, <1>13
<1>17. ASSUME NEW k \in 1..(c - 1)
       PROVE  /\ start[k] + WindowLength(session, start[k], budget) <= L
              /\ start[k + 1] = NextStart(start[k], WindowLength(session, start[k], budget), overlap)
  <2>1. k \in 1..c /\ k + 1 \in 1..c /\ k \in 1..L /\ k - 1 \in 0..L /\ k - 1 < last /\ (k + 1) - 1 = k
    BY <1>1, <1>9, <1>12
  <2>2. start[k] = at[k - 1] /\ start[k + 1] = at[k]
    BY <1>13, <2>1
  <2>3. ~(End(k - 1) > L)
    BY <1>9, <2>1
  <2>4. at[k] = NextStart(at[k - 1], WindowLength(session, at[k - 1], budget), overlap)
    BY <1>2, <2>1, <2>3
  <2>5. End(k - 1) <= L
    BY <1>1, <1>3, <2>1, <2>3
  <2> QED BY <2>2, <2>4, <2>5 DEF End
<1>18. start[c] + WindowLength(session, start[c], budget) > L
  <2>1. c \in 1..c /\ start[c] = at[last]
    BY <1>12, <1>13
  <2> QED BY <1>9, <2>1 DEF End
<1>19. Cut(SplitIntoOverlapWindows(session, budget, overlap), session, L, budget, overlap, start, c)
  BY <1>12, <1>14, <1>15, <1>16, <1>17, <1>18 DEF Cut
<1> QED BY <1>19

-----------------------------------------------------------------------------
(* What the windows promise. *)

(* The window from a start: its length and its lines. *)
LEMMA WindowFacts ==
    ASSUME NEW session, NEW L, Session(session, L), NEW budget, NEW s \in 1..L
    PROVE  LET n == WindowLength(session, s, budget)
               w == WindowFrom(session, s, budget)
           IN  /\ n \in 1..(L - s + 1) /\ Len(w) = n /\ DOMAIN w = 1..n
               /\ \A p \in s..(s + n - 1) : p \in 1..L /\ session[p].index \in ToSet(w)
<1> DEFINE n == WindowLength(session, s, budget)
           w == WindowFrom(session, s, budget)
<1>1. L \in Nat /\ n \in 1..(L - s + 1)
  BY WindowLengthFacts DEF Session
<1>2. w = [k \in 1..n |-> session[s + k - 1].index]
  BY DEF WindowFrom
<1> HIDE DEF n, w
<1>3. DOMAIN w = 1..n /\ n \in Nat
  BY <1>1, <1>2
<1>4. Len(w) = n
  <2> DEFINE S == {w[k] : k \in 1..n}
  <2>1. w \in [1..n -> S]
    BY <1>2
  <2> HIDE DEF S
  <2>2. w \in Seq(S)
    BY <1>3, <2>1, SeqDef
  <2>3. DOMAIN w = 1..Len(w) /\ Len(w) \in Nat
    BY <2>2, LenProperties
  <2> QED BY <1>3, <2>3
<1>5. ASSUME NEW p \in s..(s + n - 1) PROVE p \in 1..L /\ session[p].index \in ToSet(w)
  <2>1. p - s + 1 \in 1..n /\ s + (p - s + 1) - 1 = p /\ p \in 1..L
    BY <1>1
  <2>2. w[p - s + 1] = session[p].index
    BY <1>2, <2>1
  <2> QED BY <1>3, <2>1, <2>2 DEF ToSet
<1> QED BY <1>1, <1>3, <1>4, <1>5 DEF n, w

(* The lines of the session are in the windows, each in one at least. *)
LEMMA CoverFacts ==
    ASSUME NEW ws, NEW session, NEW L, Session(session, L), NEW budget, NEW overlap \in Nat,
           NEW start, NEW c, Cut(ws, session, L, budget, overlap, start, c), NEW p \in 1..L
    PROVE  \E n \in DOMAIN ws : session[p].index \in ToSet(ws[n])
<1> DEFINE T == {k \in 1..c : start[k] <= p}
           k == Max(T)
<1>1. L \in Nat /\ c \in Nat /\ c >= 1 /\ start \in [1..c -> 1..L] /\ start[1] = 1
  BY DEF Session, Cut
<1>2. T \subseteq 0..c /\ T # {}
  <2>1. 1 \in T
    BY <1>1
  <2>2. \A j \in T : j \in 0..c
    BY <1>1
  <2> QED BY <2>1, <2>2
<1>3. k \in T /\ \A j \in T : j <= k
  <2> HIDE DEF T
  <2> QED BY <1>1, <1>2, MaxFacts
<1> HIDE DEF k
<1>4. k \in 1..c /\ start[k] \in 1..L /\ start[k] <= p /\ \A j \in 1..c : start[j] <= p => j <= k
  BY <1>1, <1>3
<1> HIDE DEF T
<1> DEFINE n == WindowLength(session, start[k], budget)
           w == WindowFrom(session, start[k], budget)
<1>5. n \in 1..(L - start[k] + 1) /\ \A q \in start[k]..(start[k] + n - 1) : session[q].index \in ToSet(w)
  BY <1>4, WindowFacts
<1>6. ws[k] = w /\ k \in DOMAIN ws
  BY <1>4 DEF Cut
<1>7. p < start[k] + n
  <2>1. CASE k = c
    <3>1. start[c] + WindowLength(session, start[c], budget) > L
      BY DEF Cut
    <3>2. start[k] + n > L
      BY <2>1, <3>1
    <3> HIDE DEF n
    <3> QED BY <1>1, <1>4, <1>5, <3>2
  <2>2. CASE k # c
    <3>1. k \in 1..(c - 1) /\ k + 1 \in 1..c /\ ~(k + 1 <= k)
      BY <1>1, <1>4, <2>2
    <3>2. start[k + 1] = NextStart(start[k], n, overlap)
      BY <3>1 DEF Cut
    <3> HIDE DEF n
    <3>3. start[k] \in Nat /\ n \in Nat \ {0}
      BY <1>1, <1>4, <1>5
    <3>4. start[k + 1] \in (start[k] + 1)..(start[k] + n)
      BY <3>2, <3>3, NextStartFacts
    <3>5. ~(start[k + 1] <= p)
      BY <1>4, <3>1
    <3>6. p \in Int
      BY <1>1
    <3>7. start[k + 1] \in Int /\ start[k + 1] <= start[k] + n
      BY <3>3, <3>4
    <3> QED BY <3>3, <3>5, <3>6, <3>7
  <2> QED BY <2>1, <2>2
<1>8. p \in start[k]..(start[k] + n - 1)
  <2> HIDE DEF n
  <2> QED BY <1>1, <1>4, <1>5, <1>7
<1> QED BY <1>5, <1>6, <1>8

(* When every event has a line of its own the table of the map step gives a
   window its own events back, and then it fits the budget. *)
LEMMA OwnLines ==
    ASSUME NEW session, NEW L, Session(session, L),
           ~(Cardinality({session[p].index : p \in DOMAIN session}) < L),
           NEW p \in 1..L
    PROVE  EventByIndex(session, session[p].index) = session[p]
<1> DEFINE I == {session[j].index : j \in DOMAIN session}
           f == [j \in 1..L |-> session[j].index]
<1>1. L \in Nat /\ DOMAIN session = 1..L
  BY DEF Session
<1>2. IsFiniteSet(1..L) /\ Cardinality(1..L) = L
  BY <1>1, FS_Interval
<1>3. f \in Surjection(1..L, I)
  <2>1. f \in [1..L -> I] /\ \A x \in I : \E j \in 1..L : f[j] = x
    BY <1>1
  <2> HIDE DEF f, I
  <2> QED BY <2>1 DEF Surjection
<1>4. f \in Injection(1..L, I)
  <2> HIDE DEF f
  <2>0. ~(Cardinality(I) < L)
    OBVIOUS
  <2> HIDE DEF I
  <2>1. IsFiniteSet(I) /\ Cardinality(I) <= L
    BY <1>2, <1>3, FS_Surjection
  <2>2. Cardinality(I) \in Nat
    BY <2>1, FS_CardinalityType
  <2>3. Cardinality(I) = L
    BY <1>1, <2>0, <2>1, <2>2
  <2> QED BY <1>2, <1>3, <2>3, FS_Surjection
<1>5. \A j \in 1..L : session[j].index = session[p].index => j = p
  <2>1. \A j, k \in 1..L : f[j] = f[k] => j = k
    <3> HIDE DEF f, I
    <3> QED BY <1>4 DEF Injection, IsInjective
  <2> QED BY <2>1
<1> DEFINE T == {j \in DOMAIN session : session[j].index = session[p].index}
<1>6. T = {p}
  BY <1>1, <1>5
<1>7. Max({p}) = p
  <2>1. p \in Int
    BY <1>1
  <2> QED BY <2>1 DEF Max
<1>8. EventByIndex(session, session[p].index) = session[Max(T)]
  BY DEF EventByIndex
<1> HIDE DEF T
<1> QED BY <1>6, <1>7, <1>8

LEMMA BudgetFacts ==
    ASSUME NEW session, NEW L, Session(session, L), NEW budget, NEW s \in 1..L
    PROVE  LET w == WindowFrom(session, s, budget)
           IN  \/ Len(w) = 1 \/ Tokens(WindowEvents(session, w)) <= budget
               \/ Cardinality({session[p].index : p \in DOMAIN session}) < L
<1> DEFINE w == WindowFrom(session, s, budget)
           n == WindowLength(session, s, budget)
           sub == SubSeq(session, s, s + n - 1)
<1>0. SUFFICES ASSUME ~(Cardinality({session[p].index : p \in DOMAIN session}) < L)
               PROVE  Len(w) = 1 \/ Tokens(WindowEvents(session, w)) <= budget
  OBVIOUS
<1>1. L \in Nat /\ DOMAIN session = 1..L
  BY DEF Session
<1>2. /\ n \in 1..(L - s + 1) /\ Len(w) = n /\ DOMAIN w = 1..n
      /\ \A p \in s..(s + n - 1) : p \in 1..L
  BY WindowFacts
<1>3. n = 1 \/ Tokens(sub) <= budget
  BY WindowLengthFacts
<1>4. w = [k \in 1..n |-> session[s + k - 1].index]
  BY DEF WindowFrom
<1> HIDE DEF n, w
<1>5. WindowEvents(session, w) = [k \in 1..n |-> EventByIndex(session, w[k])]
  BY <1>2 DEF WindowEvents
<1>6. ASSUME NEW k \in 1..n PROVE EventByIndex(session, w[k]) = session[s + k - 1]
  <2>1. s + k - 1 \in 1..L
    BY <1>1, <1>2
  <2>2. w[k] = session[s + k - 1].index
    BY <1>4
  <2>3. EventByIndex(session, session[s + k - 1].index) = session[s + k - 1]
    BY <1>0, <2>1, OwnLines
  <2> QED BY <2>2, <2>3
<1>7. WindowEvents(session, w) = [k \in 1..n |-> session[s + k - 1]]
  BY <1>5, <1>6
<1>8. sub = [k \in 1..n |-> session[s + k - 1]]
  <2> DEFINE E == {session[i] : i \in 1..L}
  <2>1. \A i \in s..(s + n - 1) : session[i] \in E
    BY <1>2
  <2>2. s \in Int /\ s + n - 1 \in Int /\ s <= s + n - 1 /\ (s + n - 1) - s + 1 = n /\ n \in Nat
    BY <1>1, <1>2
  <2> HIDE DEF E
  <2>3. sub \in Seq(E) /\ Len(sub) = n /\ \A i \in 1..n : sub[i] = session[s + i - 1]
    <3>1. /\ sub \in Seq(E)
          /\ Len(sub) = IF s <= s + n - 1 THEN (s + n - 1) - s + 1 ELSE 0
          /\ \A i \in 1..((s + n - 1) - s + 1) : sub[i] = session[s + i - 1]
      BY <2>1, <2>2, SubSeqProperties
    <3> HIDE DEF sub
    <3> QED BY <2>2, <3>1
  <2> HIDE DEF sub
  <2>4. sub \in [1..n -> E]
    BY <2>3, LenProperties
  <2> QED BY <2>3, <2>4
<1> HIDE DEF sub
<1> QED BY <1>2, <1>3, <1>7, <1>8

-----------------------------------------------------------------------------
(* What a skeleton is made of. *)

(* Lists of events without two uses of one tool. *)
Steps(S) == {s \in Seq(S) : \A a, b \in DOMAIN s : s[a].id = s[b].id => a = b}

LEMMA OneMore ==
    ASSUME NEW S, NEW s \in Steps(S), NEW e \in S, \A n \in DOMAIN s : s[n].id # e.id
    PROVE  Append(s, e) \in Steps(S)
<1> DEFINE t == Append(s, e)
           m == Len(s)
<1>1. s \in Seq(S) /\ \A a, b \in DOMAIN s : s[a].id = s[b].id => a = b
  BY DEF Steps
<1>2. m \in Nat /\ DOMAIN s = 1..m
  BY <1>1, LenProperties
<1>3. t \in Seq(S) /\ Len(t) = m + 1 /\ (\A i \in 1..m : t[i] = s[i]) /\ t[m + 1] = e
  BY <1>1, AppendProperties
<1> HIDE DEF t, m
<1>4. DOMAIN t = 1..(m + 1)
  BY <1>3, LenProperties
<1>5. ASSUME NEW a \in 1..(m + 1), NEW b \in 1..(m + 1), t[a].id = t[b].id PROVE a = b
  <2>1. (a \in 1..m \/ a = m + 1) /\ (b \in 1..m \/ b = m + 1)
    BY <1>2
  <2>2. CASE a \in 1..m /\ b \in 1..m
    BY <1>1, <1>2, <1>3, <1>5, <2>2
  <2>3. CASE a \in 1..m /\ b = m + 1
    BY <1>2, <1>3, <1>5, <2>3
  <2>4. CASE a = m + 1 /\ b \in 1..m
    BY <1>2, <1>3, <1>5, <2>4
  <2> QED BY <2>1, <2>2, <2>3, <2>4
<1>6. t \in Steps(S)
  BY <1>3, <1>4, <1>5 DEF Steps
<1> QED BY <1>6 DEF t

LEMMA StepsFacts ==
    ASSUME NEW S, NEW arc \in Seq(S)
    PROVE  StepsDeduplicated(arc) \in Steps(S)
<1> DEFINE L == Len(arc)
           edited == {arc[p].id : p \in {p \in DOMAIN arc : arc[p].kind = "edit"}}
           usable(e) == e.kind = "edit" \/ (e.kind = "call" /\ e.id \notin edited)
           Move(k, s) == IF usable(arc[k]) /\ \A n \in DOMAIN s : s[n].id # arc[k].id
                         THEN Append(s, arc[k]) ELSE s
           V == Steps(S)
           step == [k \in 1..L |-> [s \in V |-> Move(k, s)]]
<1>1. L \in Nat /\ \A k \in 1..L : arc[k] \in S
  BY LenProperties
<1>2. <<>> \in V
  BY DEF Steps
<1>3. ASSUME NEW k \in 1..L, NEW s \in V PROVE Move(k, s) \in V
  <2>1. CASE usable(arc[k]) /\ \A n \in DOMAIN s : s[n].id # arc[k].id
    <3>1. Append(s, arc[k]) \in V
      BY <1>1, <2>1, OneMore
    <3> HIDE DEF V
    <3> QED BY <2>1, <3>1
  <2>2. CASE ~(usable(arc[k]) /\ \A n \in DOMAIN s : s[n].id # arc[k].id)
    <3> HIDE DEF V
    <3> QED BY <2>2
  <2> QED BY <2>1, <2>2
<1> HIDE DEF Move, V, L
<1>4. step \in [1..L -> [V -> V]]
  BY <1>3
<1> HIDE DEF step
<1>5. PICK f : Follows(f, V, step, <<>>, L)
  BY <1>1, <1>2, <1>4, Recurrence
<1>6. f \in [0..L -> V] /\ f[0] = <<>> /\ \A k \in 1..L : f[k] = Move(k, f[k - 1])
  <2>1. f \in [0..L -> V] /\ f[0] = <<>> /\ \A k \in 1..L : f[k] = step[k][f[k - 1]]
    BY <1>5 DEF Follows
  <2>2. \A k \in 1..L : k - 1 \in 0..L
    BY <1>1
  <2> QED BY <2>1, <2>2 DEF step
<1> DEFINE Rec(g) == [k \in 0..L |-> IF k = 0 THEN <<>> ELSE Move(k, g[k - 1])]
           steps == CHOOSE g : g = Rec(g)
<1>7. f = Rec(f)
  <2>1. \A k \in 0..L : f[k] = IF k = 0 THEN <<>> ELSE Move(k, f[k - 1])
    BY <1>1, <1>6
  <2> QED BY <1>6, <2>1
<1>8. steps = Rec(steps)
  BY <1>7
<1>9. StepsDeduplicated(arc) = steps[L]
  BY DEF StepsDeduplicated, Move, L
<1> HIDE DEF steps
<1>10. steps[0] = <<>> /\ \A k \in 1..L : steps[k] = Move(k, steps[k - 1])
  BY <1>1, <1>8
<1>11. ASSUME NEW k \in 0..L PROVE steps[k] \in V
  <2> DEFINE T == {j \in 0..L : steps[j] \notin V}
  <2>1. SUFFICES ASSUME T # {} PROVE FALSE
    OBVIOUS
  <2>2. T \subseteq Nat
    BY <1>1
  <2>3. PICK j \in T : \A i \in T : j <= i
    <3> HIDE DEF T
    <3> QED BY <2>1, <2>2, LeastNatural
  <2>4. j # 0
    BY <1>2, <1>10, <2>3
  <2>5. j \in 1..L /\ j - 1 \in 0..L /\ ~(j <= j - 1)
    BY <1>1, <2>3, <2>4
  <2>6. steps[j - 1] \in V
    BY <2>3, <2>5
  <2>7. steps[j] \in V
    BY <1>3, <1>10, <2>5, <2>6
  <2> QED BY <2>3, <2>7
<1>12. L \in 0..L
  BY <1>1
<1> QED BY <1>9, <1>11, <1>12 DEF V

(* A slice of a list. *)
LEMMA SliceFacts ==
    ASSUME NEW S, NEW s \in Seq(S), NEW i \in Nat \ {0}, NEW j \in 0..Len(s)
    PROVE  SubSeq(s, i, j) \in Seq(S)
<1>1. Len(s) \in Nat /\ \A k \in 1..Len(s) : s[k] \in S
  BY LenProperties
<1>2. \A k \in i..j : s[k] \in S
  BY <1>1
<1>3. i \in Int /\ j \in Int
  BY <1>1
<1> QED BY <1>2, <1>3, SubSeqProperties

(* The steps are events of the window, of different tool uses, and there are
   none without a failure. *)
LEMMA SkeletonFacts ==
    ASSUME NEW S, NEW es \in Seq(S)
    PROVE  MineSkeleton(es) \in Steps(S) /\ (MineSkeleton(es) # <<>> => NamedFailure(es))
<1> DEFINE failures == {p \in DOMAIN es : Failing(es[p])}
           arc == SubSeq(es, Min(failures) + 1, Len(es))
           end == ResolutionArcEnd(arc)
<1>1. Len(es) \in Nat /\ DOMAIN es = 1..Len(es)
  BY LenProperties
<1>2. MineSkeleton(es) = IF failures = {} THEN <<>> ELSE StepsDeduplicated(SubSeq(arc, 1, end))
  BY DEF MineSkeleton
<1>3. CASE failures = {}
  <2>1. <<>> \in Steps(S)
    BY DEF Steps
  <2> QED BY <1>2, <1>3, <2>1
<1>4. CASE failures # {}
  <2>1. NamedFailure(es)
    BY <1>4 DEF NamedFailure
  <2>2. failures \subseteq Nat
    BY <1>1
  <2>3. Min(failures) \in Nat
    <3> HIDE DEF failures
    <3> QED BY <1>4, <2>2, MinFacts
  <2> HIDE DEF failures
  <2>4. arc \in Seq(S)
    <3>1. Min(failures) + 1 \in Nat \ {0} /\ Len(es) \in 0..Len(es)
      BY <1>1, <2>3
    <3> QED BY <3>1, SliceFacts
  <2> HIDE DEF arc
  <2>5. end \in 0..Len(arc)
    <3> DEFINE lastFailure == Max({0} \cup {p \in DOMAIN arc : Failing(arc[p])})
               successes == {p \in DOMAIN arc : p > lastFailure /\ Passing(arc[p])}
    <3>1. end = IF successes = {} THEN Len(arc) ELSE Max(successes)
      BY DEF ResolutionArcEnd
    <3>2. Len(arc) \in Nat /\ DOMAIN arc = 1..Len(arc)
      BY <2>4, LenProperties
    <3>3. \A p \in successes : p \in 0..Len(arc)
      BY <3>2
    <3> HIDE DEF end, successes
    <3>4. CASE successes = {}
      BY <3>1, <3>2, <3>4
    <3>5. CASE successes # {}
      <4>1. Max(successes) \in successes
        BY <3>2, <3>3, <3>5, MaxFacts
      <4> QED BY <3>1, <3>3, <3>5, <4>1
    <3> QED BY <3>4, <3>5
  <2> HIDE DEF end
  <2>6. SubSeq(arc, 1, end) \in Seq(S)
    BY <2>4, <2>5, SliceFacts
  <2>7. StepsDeduplicated(SubSeq(arc, 1, end)) \in Steps(S)
    BY <2>6, StepsFacts
  <2> QED BY <1>2, <1>4, <2>1, <2>7
<1> QED BY <1>3, <1>4

-----------------------------------------------------------------------------
(* The overlap of two windows. *)

(* sum adds up the tokens of s, one event after the other. *)
Adds(sum, s, L) ==
    /\ sum \in [0..L -> Nat] /\ sum[0] = 0
    /\ \A k \in 1..L : sum[k] = sum[k - 1] + EstimateTokens(s[k])

(* A list of L events with a length each. *)
Measured(s, L) ==
    L \in Nat /\ Len(s) = L /\ DOMAIN s = 1..L /\ \A k \in 1..L : TextLength(s[k]) \in Nat

LEMMA EstimateFacts ==
    ASSUME NEW e, TextLength(e) \in Nat
    PROVE  EstimateTokens(e) \in Nat
<1> DEFINE x == TextLength(e) \div 4
<1>1. x \in Nat
  OBVIOUS
<1> HIDE DEF x
<1>2. {x, 1} \subseteq 0..(x + 1) /\ x + 1 \in Nat
  BY <1>1
<1>3. Max({x, 1}) \in {x, 1}
  BY <1>2, MaxFacts
<1> QED BY <1>1, <1>3 DEF EstimateTokens, x

LEMMA TokensFacts ==
    ASSUME NEW s, NEW L, Measured(s, L)
    PROVE  \E sum : Adds(sum, s, L) /\ Tokens(s) = sum[L]
<1> DEFINE est == [k \in 1..L |-> EstimateTokens(s[k])]
           step == [k \in 1..L |-> [n \in Nat |-> n + est[k]]]
<1>1. L \in Nat /\ Len(s) = L
  BY DEF Measured
<1>2. est \in [1..L -> Nat]
  BY EstimateFacts DEF Measured
<1>3. \A k \in 1..L : est[k] = EstimateTokens(s[k])
  OBVIOUS
<1> HIDE DEF est
<1>4. step \in [1..L -> [Nat -> Nat]]
  BY <1>2
<1> HIDE DEF step
<1>5. PICK f : Follows(f, Nat, step, 0, L)
  BY <1>1, <1>4, Recurrence
<1>6. f \in [0..L -> Nat] /\ f[0] = 0 /\ \A k \in 1..L : f[k] = f[k - 1] + EstimateTokens(s[k])
  <2>1. f \in [0..L -> Nat] /\ f[0] = 0 /\ \A k \in 1..L : f[k] = step[k][f[k - 1]]
    BY <1>5 DEF Follows
  <2>2. \A k \in 1..L : k - 1 \in 0..L
    BY <1>1
  <2>3. ASSUME NEW k \in 1..L PROVE f[k] = f[k - 1] + est[k]
    <3>1. f[k - 1] \in Nat
      BY <2>1, <2>2
    <3> QED BY <2>1, <3>1 DEF step
  <2> QED BY <1>3, <2>1, <2>3
<1> DEFINE Rec(g) == [k \in 0..L |-> IF k = 0 THEN 0 ELSE g[k - 1] + EstimateTokens(s[k])]
           sum == CHOOSE g : g = Rec(g)
<1>7. f = Rec(f)
  <2>1. \A k \in 0..L : f[k] = IF k = 0 THEN 0 ELSE f[k - 1] + EstimateTokens(s[k])
    BY <1>1, <1>6
  <2> QED BY <1>6, <2>1
<1>8. sum = Rec(sum)
  BY <1>7
<1>9. Tokens(s) = sum[L]
  BY <1>1 DEF Tokens
<1> HIDE DEF sum
<1>10. sum[0] = 0 /\ \A k \in 1..L : sum[k] = sum[k - 1] + EstimateTokens(s[k])
  BY <1>1, <1>8
<1>11. ASSUME NEW k \in 0..L PROVE sum[k] \in Nat
  <2> DEFINE T == {j \in 0..L : sum[j] \notin Nat}
  <2>1. SUFFICES ASSUME T # {} PROVE FALSE
    OBVIOUS
  <2>2. T \subseteq Nat
    BY <1>1
  <2>3. PICK j \in T : \A i \in T : j <= i
    <3> HIDE DEF T
    <3> QED BY <2>1, <2>2, LeastNatural
  <2>4. j # 0
    BY <1>10, <2>3
  <2>5. j \in 1..L /\ j - 1 \in 0..L /\ ~(j <= j - 1)
    BY <1>1, <2>3, <2>4
  <2>6. sum[j - 1] \in Nat
    BY <2>3, <2>5
  <2>7. EstimateTokens(s[j]) \in Nat
    BY <1>2, <1>3, <2>5
  <2>8. sum[j] \in Nat
    BY <1>10, <2>5, <2>6, <2>7
  <2> QED BY <2>3, <2>8
<1>12. sum \in [0..L -> Nat]
  <2>1. sum = [k \in 0..L |-> sum[k]]
    BY <1>8
  <2> QED BY <1>11, <2>1
<1>13. Adds(sum, s, L)
  BY <1>10, <1>12 DEF Adds
<1> QED BY <1>9, <1>13

(* The end of a list has no more tokens than the list. *)
LEMMA EndFacts ==
    ASSUME NEW s, NEW L, Measured(s, L), NEW t, NEW M, Measured(t, M), M <= L,
           \A k \in 1..M : t[k] = s[L - M + k]
    PROVE  Tokens(t) \in Nat /\ Tokens(s) \in Nat /\ Tokens(t) <= Tokens(s)
<1>1. L \in Nat /\ M \in Nat
  BY DEF Measured
<1>2. PICK f : Adds(f, s, L) /\ Tokens(s) = f[L]
  BY TokensFacts
<1>3. PICK g : Adds(g, t, M) /\ Tokens(t) = g[M]
  BY TokensFacts
<1>4. f \in [0..L -> Nat] /\ g \in [0..M -> Nat] /\ g[0] = 0
  BY <1>2, <1>3 DEF Adds
<1> DEFINE d == L - M
           U == {k \in 0..M : ~(g[k] <= f[d + k])}
<1>5. d \in Nat /\ L = d + M
  BY <1>1
<1> HIDE DEF d
<1>6. U = {}
  <2>1. SUFFICES ASSUME U # {} PROVE FALSE
    OBVIOUS
  <2>2. U \subseteq Nat
    BY <1>1
  <2>3. PICK j \in U : \A i \in U : j <= i
    <3> HIDE DEF U
    <3> QED BY <2>1, <2>2, LeastNatural
  <2>4. j \in 0..M /\ ~(g[j] <= f[d + j])
    BY <2>3
  <2>5. d + j \in 0..L
    BY <1>1, <1>5, <2>4
  <2>6. g[j] \in Nat /\ f[d + j] \in Nat
    BY <1>4, <2>4, <2>5
  <2>7. j # 0
    BY <1>4, <2>4, <2>6
  <2>8. j \in 1..M /\ j - 1 \in 0..M /\ ~(j <= j - 1) /\ d + j \in 1..L /\ d + (j - 1) = (d + j) - 1
        /\ d + (j - 1) \in 0..L
    BY <1>1, <1>5, <2>4, <2>7
  <2>9. g[j - 1] <= f[d + (j - 1)]
    BY <2>3, <2>8
  <2>10. g[j - 1] \in Nat /\ f[d + (j - 1)] \in Nat
    BY <1>4, <2>8
  <2>11. g[j] = g[j - 1] + EstimateTokens(t[j])
    BY <1>3, <2>8 DEF Adds
  <2>12. f[d + j] = f[d + (j - 1)] + EstimateTokens(s[d + j])
    BY <1>2, <2>8 DEF Adds
  <2>13. t[j] = s[d + j]
    BY <2>8 DEF d
  <2>14. EstimateTokens(t[j]) \in Nat
    BY <2>8, EstimateFacts DEF Measured
  <2> DEFINE e == EstimateTokens(t[j])
  <2>15. g[j] = g[j - 1] + e /\ f[d + j] = f[d + (j - 1)] + e /\ e \in Nat
    BY <2>11, <2>12, <2>13, <2>14
  <2> HIDE DEF e, U
  <2> QED BY <2>4, <2>9, <2>10, <2>15
<1>7. M \in 0..M /\ L \in 0..L /\ d + M = L
  BY <1>1, <1>5
<1>8. g[M] <= f[L]
  BY <1>6, <1>7
<1>9. g[M] \in Nat /\ f[L] \in Nat
  BY <1>4, <1>7
<1> QED BY <1>2, <1>3, <1>8, <1>9

(* A slice of a session, with its events. *)
LEMMA PartFacts ==
    ASSUME NEW session, NEW L, Measured(session, L), NEW s \in 1..L, NEW n \in Nat \ {0}, s + n - 1 <= L
    PROVE  LET part == SubSeq(session, s, s + n - 1)
           IN  Measured(part, n) /\ \A k \in 1..n : part[k] = session[s + k - 1]
<1> DEFINE part == SubSeq(session, s, s + n - 1)
           E == {session[i] : i \in 1..L}
<1>1. L \in Nat /\ DOMAIN session = 1..L
  BY DEF Measured
<1>2. s \in Int /\ s + n - 1 \in Int /\ s <= s + n - 1 /\ (s + n - 1) - s + 1 = n
      /\ \A i \in s..(s + n - 1) : i \in 1..L
  BY <1>1
<1>3. \A i \in s..(s + n - 1) : session[i] \in E
  BY <1>2
<1> HIDE DEF E
<1>4. part \in Seq(E) /\ Len(part) = n /\ \A i \in 1..n : part[i] = session[s + i - 1]
  <2>1. /\ part \in Seq(E)
        /\ Len(part) = IF s <= s + n - 1 THEN (s + n - 1) - s + 1 ELSE 0
        /\ \A i \in 1..((s + n - 1) - s + 1) : part[i] = session[s + i - 1]
    BY <1>2, <1>3, SubSeqProperties
  <2> HIDE DEF part
  <2> QED BY <1>2, <2>1
<1> HIDE DEF part
<1>5. DOMAIN part = 1..n
  BY <1>4, LenProperties
<1>6. ASSUME NEW k \in 1..n PROVE TextLength(part[k]) \in Nat
  <2>1. s + k - 1 \in 1..L
    BY <1>1
  <2> QED BY <1>4, <2>1 DEF Measured
<1>7. Measured(part, n)
  BY <1>4, <1>5, <1>6 DEF Measured
<1> QED BY <1>4, <1>7 DEF part

(* A window begins with the last events of the one before. *)
LEMMA OverlapFacts ==
    ASSUME NEW ws, NEW session, NEW L, Session(session, L), Measured(session, L),
           NEW budget \in Nat, NEW overlap \in Nat,
           NEW start, NEW c, Cut(ws, session, L, budget, overlap, start, c),
           NEW k \in 1..(c - 1), NEW j \in 1..overlap, Len(ws[k]) > overlap
    PROVE  j \in DOMAIN ws[k + 1] /\ ws[k + 1][j] = ws[k][Len(ws[k]) - overlap + j]
<1> DEFINE s == start[k]
           q == start[k + 1]
           n == WindowLength(session, s, budget)
           m == WindowLength(session, q, budget)
<1>1. L \in Nat /\ c \in Nat /\ c >= 1 /\ start \in [1..c -> 1..L]
  BY DEF Session, Cut
<1>2. k \in 1..c /\ k + 1 \in 1..c
  BY <1>1
<1>3. s \in 1..L /\ q \in 1..L
  BY <1>1, <1>2
<1>4. /\ ws[k] = WindowFrom(session, s, budget) /\ ws[k + 1] = WindowFrom(session, q, budget)
      /\ s + n <= L /\ q = NextStart(s, n, overlap)
  BY <1>2 DEF Cut
<1> HIDE DEF s, q
<1>5. n \in 1..(L - s + 1) /\ Len(ws[k]) = n
  BY <1>3, <1>4, WindowFacts
<1>6. m \in 1..(L - q + 1) /\ DOMAIN ws[k + 1] = 1..m
  BY <1>3, <1>4, WindowFacts
<1>7. n = 1 \/ Tokens(SubSeq(session, s, s + n - 1)) <= budget
  BY <1>3, WindowLengthFacts
<1>8. \A i \in 1..(L - q + 1) : Tokens(SubSeq(session, q, q + i - 1)) <= budget => i <= m
  BY <1>3, WindowLengthFacts
<1>9. ws[k] = [i \in 1..n |-> session[s + i - 1].index] /\ ws[k + 1] = [i \in 1..m |-> session[q + i - 1].index]
  BY <1>4 DEF WindowFrom
<1> HIDE DEF n, m
<1>10. n > overlap /\ overlap >= 1 /\ n \in Nat \ {0} /\ n # 1
  BY <1>1, <1>3, <1>5
<1>11. q = s + n - overlap
  BY <1>4, <1>3, <1>10 DEF NextStart
<1>a. overlap \in 1..(L - q + 1) /\ s + n - 1 <= L /\ q + overlap - 1 <= L /\ overlap <= n
  BY <1>1, <1>3, <1>4, <1>10, <1>11
<1>b. overlap \in Nat \ {0}
  BY <1>10
<1>12. \A i \in 1..overlap : n - overlap + i \in 1..n /\ s + (n - overlap + i) - 1 = q + i - 1
  BY <1>1, <1>3, <1>4, <1>10, <1>11
<1> DEFINE whole == SubSeq(session, s, s + n - 1)
           end == SubSeq(session, q, q + overlap - 1)
<1>13. Measured(whole, n) /\ \A i \in 1..n : whole[i] = session[s + i - 1]
  BY <1>3, <1>10, <1>a, PartFacts
<1>14. Measured(end, overlap) /\ \A i \in 1..overlap : end[i] = session[q + i - 1]
  BY <1>3, <1>a, <1>b, PartFacts
<1>15. Tokens(whole) <= budget
  BY <1>7, <1>10
<1> HIDE DEF whole, end
<1>16. \A i \in 1..overlap : end[i] = whole[n - overlap + i]
  BY <1>12, <1>13, <1>14
<1>17. Tokens(end) \in Nat /\ Tokens(whole) \in Nat /\ Tokens(end) <= Tokens(whole)
  BY <1>a, <1>13, <1>14, <1>16, EndFacts
<1>18. Tokens(end) <= budget
  BY <1>15, <1>17
<1>19. overlap <= m
  BY <1>8, <1>a, <1>18 DEF end
<1>20. j \in 1..m
  BY <1>1, <1>3, <1>6, <1>19
<1>21. ws[k + 1][j] = session[q + j - 1].index /\ ws[k][n - overlap + j] = session[q + j - 1].index
  <2>1. n - overlap + j \in 1..n /\ s + (n - overlap + j) - 1 = q + j - 1
    BY <1>12
  <2>2. ws[k][n - overlap + j] = session[s + (n - overlap + j) - 1].index
    BY <1>9, <2>1
  <2> QED BY <1>9, <1>20, <2>1, <2>2
<1> QED BY <1>5, <1>6, <1>20, <1>21

-----------------------------------------------------------------------------
(* The windows of a job in its map step are those of its transcript. *)

WindowInv ==
    phase = "map" =>
        /\ Session(events, Len(events)) /\ Measured(events, Len(events))
        /\ windows = SegmentSession(events, TokenBudget, Overlap)

(* A job that is past its map step, or has not reached it, holds no windows to
   speak of; only the load sets the windows, and no step of the map changes them. *)
LEMMA WindowStep ==
    ASSUME CandidatesInv, WindowInv, [Next]_vars
    PROVE  WindowInv'
<1> SUFFICES ASSUME phase' = "map" PROVE WindowInv'
  BY DEF WindowInv
<1>1. CASE phase = "map" /\ UNCHANGED <<events, windows>>
  BY <1>1 DEF WindowInv
<1>2. CASE LoadOrchestrated
  <2> DEFINE es == ParseSessionEvents(request.lines)
  <2>1. request \in Requests
    BY <1>2 DEF LoadOrchestrated, CandidatesInv, JobTypeInv
  <2>2. es # <<>> /\ events' = es /\ windows' = SegmentSession(es, TokenBudget, Overlap)
    BY <1>2 DEF LoadOrchestrated, Fail
  <2>3. es \in Seq(ToSet(es)) /\ \A n \in DOMAIN es : TextLength(es[n]) \in Nat
    BY <2>1, EventsAssumption
  <2> HIDE DEF es
  <2>4. Len(es) \in Nat /\ DOMAIN es = 1..Len(es) /\ Len(es) # 0
    BY <2>2, <2>3, EmptySeq, LenProperties
  <2>5. Session(es, Len(es)) /\ Measured(es, Len(es))
    BY <2>3, <2>4 DEF Session, Measured
  <2> QED BY <2>2, <2>5 DEF WindowInv
<1>3. CASE UNCHANGED jobVars
  BY <1>1, <1>3 DEF jobVars
<1>4. CASE \E n \in DOMAIN windows :
              StartWindow(n) \/ ExtractProseWindow(n) \/ MapEpisode(n) \/ WindowPanics(n)
  BY <1>1, <1>4 DEF StartWindow, ExtractProseWindow, MapEpisode, WindowPanics, keepInMap
<1>5. CASE \E w \in Writers : OtherBatch(w) \/ (WriterStep(w) /\ UNCHANGED jobVars)
  BY <1>3, <1>5 DEF OtherBatch
<1>6. ~Fail
  BY DEF Fail
<1>7. ~Accept /\ ~LoadSingleShot /\ ~ExtractWithRetry
  BY <1>6 DEF Accept, LoadSingleShot, ExtractWithRetry
<1>8. ~JoinWindows /\ ~ReduceFails /\ ~ReduceDone /\ ~Synthesize /\ ~WriteDrafts
  BY <1>6 DEF JoinWindows, ReduceFails, ReduceDone, Synthesize, WriteDrafts
<1>9. ~ComparePair
  BY <1>6 DEF ComparePair, keepInReduce
<1>10. CASE UNCHANGED vars
  BY <1>3, <1>10 DEF vars
<1> QED BY <1>2, <1>3, <1>4, <1>5, <1>7, <1>8, <1>9, <1>10 DEF Next

LEMMA BudgetType == TokenBudget \in Nat
<1>1. Tier \in {"local", "frontier"}
  BY DEF Tier
<1> QED BY <1>1, ExtractionAssumption DEF TokenBudget

(* The events of a window as a list. *)
LEMMA SeenList ==
    ASSUME NEW es, NEW n \in Nat, NEW w, DOMAIN w = 1..n
    PROVE  WindowEvents(es, w) \in Seq(ToSet(WindowEvents(es, w)))
<1> DEFINE t == WindowEvents(es, w)
<1>1. DOMAIN t = 1..n /\ t = [k \in 1..n |-> t[k]]
  BY DEF WindowEvents
<1> HIDE DEF t
<1>2. IsList(t)
  BY <1>1, FunctionList
<1> QED BY <1>2 DEF IsList, t

(* What is promised of one window, from its start. *)
LEMMA OneWindow ==
    ASSUME NEW L, Session(events, L), NEW s \in 1..L,
           NEW w, w = WindowFrom(events, s, TokenBudget)
    PROVE  LET seen == WindowEvents(events, w)
               skeleton == MineSkeleton(seen)
           IN  /\ \/ Len(w) = 1 \/ Tokens(seen) <= TokenBudget
                  \/ Cardinality({events[p].index : p \in DOMAIN events}) < Len(events)
               /\ ToSet(skeleton) \subseteq ToSet(seen)
               /\ \A a, b \in DOMAIN skeleton : skeleton[a].id = skeleton[b].id => a = b
               /\ skeleton # <<>> => NamedFailure(seen)
<1> DEFINE seen == WindowEvents(events, w)
           skeleton == MineSkeleton(seen)
           n == WindowLength(events, s, TokenBudget)
<1>1. L \in Nat /\ Len(events) = L
  BY DEF Session
<1>2. n \in 1..(L - s + 1) /\ DOMAIN w = 1..n
  BY WindowFacts
<1>3. n \in Nat
  BY <1>1, <1>2
<1>4. \/ Len(w) = 1 \/ Tokens(seen) <= TokenBudget
      \/ Cardinality({events[p].index : p \in DOMAIN events}) < L
  BY BudgetFacts
<1> HIDE DEF n
<1>5. seen \in Seq(ToSet(seen))
  BY <1>2, <1>3, SeenList
<1> HIDE DEF seen
<1>6. skeleton \in Steps(ToSet(seen)) /\ (skeleton # <<>> => NamedFailure(seen))
  BY <1>5, SkeletonFacts
<1> HIDE DEF skeleton
<1>7. skeleton \in Seq(ToSet(seen)) /\ \A a, b \in DOMAIN skeleton : skeleton[a].id = skeleton[b].id => a = b
  BY <1>6 DEF Steps
<1>8. ToSet(skeleton) \subseteq ToSet(seen)
  <2>1. \A k \in DOMAIN skeleton : skeleton[k] \in ToSet(seen)
    BY <1>7, LenProperties
  <2> QED BY <2>1 DEF ToSet
<1> QED BY <1>1, <1>4, <1>6, <1>7, <1>8 DEF seen, skeleton

LEMMA ContractsHold == WindowInv => WindowContracts
<1> SUFFICES ASSUME WindowInv, phase = "map" PROVE WindowContracts
  BY DEF WindowContracts
<1> DEFINE L == Len(events)
           seen(n) == WindowEvents(events, windows[n])
           skeleton(n) == MineSkeleton(seen(n))
<1>1. Session(events, L) /\ Measured(events, L) /\ windows = SegmentSession(events, TokenBudget, Overlap)
  BY DEF WindowInv
<1>2. L \in Nat /\ L # 0 /\ DOMAIN events = 1..L /\ events # <<>>
  BY <1>1, EmptySeq DEF Session
<1>3. windows = SplitIntoOverlapWindows(events, TokenBudget, Overlap)
  BY <1>1, <1>2 DEF SegmentSession
<1>4. Overlap \in Nat /\ TokenBudget \in Nat
  BY ExtractionAssumption, BudgetType
<1> HIDE DEF L
<1>5. PICK start, c : Cut(windows, events, L, TokenBudget, Overlap, start, c)
  BY <1>1, <1>3, <1>4, CutFacts
<1>6. /\ c \in 1..(L + 1) /\ start \in [1..c -> 1..L]
      /\ windows = [k \in 1..c |-> WindowFrom(events, start[k], TokenBudget)]
  BY <1>5 DEF Cut
<1>7. c \in Nat /\ DOMAIN windows = 1..c /\ windows = [k \in 1..c |-> windows[k]]
  BY <1>2, <1>6
<1>8. Len(windows) = c
  BY <1>7, FunctionList
<1>9. ASSUME NEW p \in DOMAIN events
      PROVE  \E n \in DOMAIN windows : events[p].index \in ToSet(windows[n])
  BY <1>1, <1>2, <1>4, <1>5, CoverFacts
<1>10. ASSUME NEW n \in 1..(Len(windows) - 1), NEW k \in 1..Overlap, Len(windows[n]) > Overlap
       PROVE  /\ k \in DOMAIN windows[n + 1]
              /\ windows[n + 1][k] = windows[n][Len(windows[n]) - Overlap + k]
  <2>1. n \in 1..(c - 1)
    BY <1>8
  <2>2. Session(events, L) /\ Measured(events, L)
    BY <1>1
  <2>3. Len(windows[n]) > Overlap
    BY <1>10
  <2> QED BY <1>4, <1>5, <2>1, <2>2, <2>3, OverlapFacts
<1>11. ASSUME NEW n \in DOMAIN windows
       PROVE  /\ \/ Len(windows[n]) = 1 \/ Tokens(seen(n)) <= TokenBudget
                 \/ Cardinality({events[p].index : p \in DOMAIN events}) < Len(events)
              /\ ToSet(skeleton(n)) \subseteq ToSet(seen(n))
              /\ \A a, b \in DOMAIN skeleton(n) : skeleton(n)[a].id = skeleton(n)[b].id => a = b
              /\ skeleton(n) # <<>> => NamedFailure(seen(n))
  <2>1. start[n] \in 1..L /\ windows[n] = WindowFrom(events, start[n], TokenBudget)
    BY <1>6, <1>7
  <2> QED BY <1>1, <2>1, OneWindow
<1>12. ASSUME NEW bound, NEW n \in DOMAIN windows, HardKeep(seen(n))
       PROVE  n \in GateEpisodes(windows, events, [kind |-> "top", bound |-> bound])
  BY <1>12 DEF GateEpisodes
<1> HIDE DEF seen, skeleton
<1> QED BY <1>9, <1>10, <1>11, <1>12 DEF WindowContracts, seen, skeleton

(* While a job maps its windows they are the cut of its own transcript. *)
THEOREM WindowsInvariant == Spec => []WindowInv
<1>1. Init => WindowInv
  BY DEF Init, WindowInv
<1>2. CandidatesInv /\ WindowInv /\ [Next]_vars => WindowInv'
  BY WindowStep
<1> QED BY <1>1, <1>2, CandidatesInvariant, PTL DEF Spec

(* The windows cover the session and overlap as configured, a window of several
   events fits the budget unless a line has two, the steps of a skeleton are
   tool uses of its window, each once, and the gate keeps every window with a
   preference or a resolved error (segment_session, mine_skeleton,
   gate_episodes): for every transcript, budget and overlap. *)
THEOREM WindowsKeepContracts == Spec => []WindowContracts
<1>1. WindowInv => WindowContracts
  BY ContractsHold
<1> QED BY <1>1, WindowsInvariant, PTL
=============================================================================

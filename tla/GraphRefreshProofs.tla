------------------------- MODULE GraphRefreshProofs -------------------------
(***************************************************************************)
(* Proofs about GraphRefresh, for any number of edits, faults and admin    *)
(* rebuilds and any kinds of fault.                                        *)
(***************************************************************************)
EXTENDS GraphRefresh, TLAPS

(* Places of the server where the version of the load has been read. *)
Loaded == {"load_skills", "load_subunits", "swap"}

(* What is served was committed, and a load is never behind it. *)
VersionsOrdered ==
    /\ online.ver =< pgVer
    /\ mpc \in Loaded => online.ver =< load.ver /\ load.ver =< pgVer

(* A load whose version is still current has read the tables of that version:
   a load torn by a commit carries an old label. *)
TornLoadIsOld ==
    /\ mpc \in {"load_subunits", "swap"} /\ load.ver = pgVer => load.skills = pgTree
    /\ mpc = "swap" /\ load.ver = pgVer => load.subunits = pgTree

LabelInv == VersionsOrdered /\ TornLoadIsOld /\ CurrentLabelIsExact

(* Only committed versions are announced. *)
AnnouncedWasCommitted ==
    /\ \A v \in entries \cup pel \cup batch \cup buffer : v =< pgVer
    /\ seen =< pgVer

(* The load of a batch is at least as new as all it announces, and what is
   served after the reload is, too. *)
BatchCovered ==
    \A v \in batch : /\ mpc \in Loaded /\ ~ booting => v =< load.ver
                     /\ mpc = "ack" /\ reloaded => v =< online.ver

UnservedIsNewer == \A v \in unserved : v > online.ver

StreamInv == AnnouncedWasCommitted /\ BatchCovered /\ UnservedIsNewer /\ AnnouncementNotLost

(* The inductive invariant. *)
RefreshInv == TypeOK /\ LabelInv /\ StreamInv

-----------------------------------------------------------------------------
(* Types of the helpers. *)
LEMMA FaultType ==
    ASSUME TypeOK, NEW kind, Fault(kind) PROVE faults' \in 0..MaxFaults
BY RefreshAssumption DEF TypeOK, Fault

LEMMA PublishType ==
    ASSUME TypeOK, NEW v \in Nat, Publish(v)
    PROVE  entries' \subseteq Nat /\ unserved' \subseteq Nat /\ pel' = pel /\ group' = group
BY DEF TypeOK, Publish

LEMMA NoSnapshotType == NoSnapshot \in Snapshots
BY RefreshAssumption DEF NoSnapshot, Snapshots, Trees

(* Every step preserves the types. *)
LEMMA TypeStep == ASSUME TypeOK, [Next]_vars PROVE TypeOK'
<1> USE RefreshAssumption
<1> USE DEF pg, redis, builder, server, admin, TypeOK, Trees
<1>0. CASE UNCHANGED vars
  BY <1>0 DEF vars
<1>1. CASE EditFiles
  BY <1>1 DEF EditFiles
<1>2. CASE OtherEvent
  BY <1>2 DEF OtherEvent, Other
<1>3. CASE RedisLosesData
  BY <1>3, FaultType DEF RedisLosesData
<1>4. CASE BuilderBoot
  BY <1>4 DEF BuilderBoot, Goto, EnsureGroup, NewGroupEntries, BuilderPlaces
<1>5. CASE ReplayCheck
  BY <1>5 DEF ReplayCheck, Goto, Fault, BuilderPlaces
<1>6. CASE ReplayPublish
  <2>1. CASE Publish(seen)
    BY <1>6, <2>1, PublishType, FaultType DEF ReplayPublish, Goto, BuilderPlaces
  <2>2. CASE UNCHANGED redis
    BY <1>6, <2>2, FaultType DEF ReplayPublish, Goto, BuilderPlaces
  <2> QED
    BY <1>6, <2>1, <2>2 DEF ReplayPublish
<1>7. CASE Scan
  BY <1>7 DEF Scan, Goto, BuilderPlaces
<1>8. CASE Build
  BY <1>8 DEF Build, Goto, Fault, BuilderPlaces
<1>9. CASE Persist
  BY <1>9 DEF Persist, Goto, CommitSnapshot, Fault, BuilderPlaces
<1>10. CASE Drain
  BY <1>10 DEF Drain, Goto, Fault, BuilderPlaces
<1>11. CASE Bump
  <2>1. CASE UNCHANGED <<pgVer, buffer>>
    BY <1>11, <2>1, FaultType DEF Bump, Goto, BuilderPlaces
  <2>2. CASE pgVer' = pgVer + 1 /\ buffer' = buffer \cup {pgVer + 1} /\ UNCHANGED faults
    <3>1. pgVer' \in Nat /\ buffer' \subseteq Nat
      BY <2>2
    <3> QED
      BY <1>11, <2>2, <3>1 DEF Bump, Goto, BuilderPlaces
  <2> QED
    BY <1>11, <2>1, <2>2 DEF Bump
<1>12. CASE PublishBuffered
  <2>1. PICK v \in buffer :
           \/ /\ Publish(v) /\ buffer' = buffer \ {v}
              /\ lastPub' = IF v > lastPub THEN v ELSE lastPub
              /\ UNCHANGED <<bpc, faults>>
           \/ /\ Fault("redis") /\ Goto("replay") /\ UNCHANGED <<buffer, lastPub>>
              /\ Publish(v) \/ UNCHANGED redis
    BY <1>12 DEF PublishBuffered
  <2>2. v \in Nat
    OBVIOUS
  <2>3. bpc' \in BuilderPlaces /\ faults' \in 0..MaxFaults /\ buffer' \subseteq Nat /\ lastPub' \in Nat
    BY <2>1, <2>2, FaultType DEF Goto, BuilderPlaces
  <2>4. entries' \subseteq Nat /\ unserved' \subseteq Nat /\ pel' = pel /\ group' = group
    BY <2>1, <2>2, PublishType
  <2> QED
    BY <1>12, <2>3, <2>4 DEF PublishBuffered
<1>13. CASE CycleDone
  BY <1>13 DEF CycleDone, Goto, BuilderPlaces
<1>14. CASE BuilderCrash
  BY <1>14 DEF BuilderCrash, Goto, Fault, BuilderPlaces
<1>15. CASE ServerBoot
  BY <1>15 DEF ServerBoot, EnsureGroup, NewGroupEntries, ServerPlaces
<1>16. CASE RecreateGroup
  BY <1>16 DEF RecreateGroup, EnsureGroup, NewGroupEntries, ServerPlaces
<1>17. CASE ReadGroup
  <2>1. PICK got \in SUBSET Nat, rest \in SUBSET Nat : Deliver(got, rest)
    BY <1>17 DEF ReadGroup
  <2>2. pel' \subseteq Nat /\ entries' \subseteq Nat /\ batch' \subseteq Nat
    BY <2>1 DEF Deliver
  <2>3. mpc' \in ServerPlaces /\ faults' \in 0..MaxFaults
    BY <2>1, FaultType DEF Deliver, ServerPlaces
  <2>4. reloaded' \in BOOLEAN
    BY <2>1 DEF Deliver
  <2> QED
    BY <2>1, <2>2, <2>3, <2>4 DEF Deliver
<1>18. CASE LoadVersion
  BY <1>18 DEF LoadVersion, ServerPlaces, Snapshots
<1>19. CASE LoadSkills
  BY <1>19 DEF LoadSkills, ServerPlaces, Snapshots
<1>20. CASE LoadSubunits
  BY <1>20 DEF LoadSubunits, ServerPlaces, Snapshots
<1>21. CASE Swap
  <2>1. online' \in Snapshots /\ load' \in Snapshots
    BY <1>21, NoSnapshotType DEF Swap
  <2>2. unserved' \subseteq Nat /\ mpc' \in ServerPlaces
    BY <1>21 DEF Swap, ServerPlaces
  <2>3. reloaded' \in BOOLEAN /\ booting' \in BOOLEAN
    BY <1>21 DEF Swap
  <2> QED
    BY <1>21, <2>1, <2>2, <2>3 DEF Swap
<1>22. CASE Ack
  BY <1>22, FaultType DEF Ack, ServerPlaces
<1>23. CASE ServerCrash
  <2>1. faults' \in 0..MaxFaults /\ mpc' \in ServerPlaces
    BY <1>23, FaultType DEF ServerCrash, ServerPlaces
  <2>2. booting' \in BOOLEAN /\ reloaded' \in BOOLEAN
    BY <1>23 DEF ServerCrash
  <2>3. load' \in Snapshots /\ abuilt' \in 0..MaxEdits /\ batch' \subseteq Nat
    BY <1>23, NoSnapshotType DEF ServerCrash
  <2> QED
    BY <1>23, <2>1, <2>2, <2>3 DEF ServerCrash
<1>24. CASE LoadFails
  BY <1>24, FaultType, NoSnapshotType DEF LoadFails, ServerPlaces
<1>25. CASE AdminBuild
  BY <1>25 DEF AdminBuild, Serving
<1>26. CASE AdminPersist
  BY <1>26 DEF AdminPersist, CommitSnapshot, Fault
<1> QED
  BY <1>0, <1>1, <1>2, <1>3, <1>4, <1>5, <1>6, <1>7, <1>8, <1>9, <1>10, <1>11, <1>12, <1>13,
     <1>14, <1>15, <1>16, <1>17, <1>18, <1>19, <1>20, <1>21, <1>22, <1>23, <1>24, <1>25,
     <1>26 DEF Next, BuilderStep, ServerStep, AdminStep

(* Every step preserves the agreement of labels and contents.  Steps that
   touch neither Postgres nor the server's snapshots are one case. *)
LEMMA LabelStep == ASSUME TypeOK, LabelInv, [Next]_vars PROVE LabelInv'
<1> USE RefreshAssumption
<1> USE DEF LabelInv, VersionsOrdered, TornLoadIsOld, CurrentLabelIsExact, Loaded, Serving,
            TypeOK, Trees, Snapshots
<1>1. CASE UNCHANGED <<pg, mpc, booting, load, online>>
  BY <1>1 DEF pg
<1>2. CASE Persist
  BY <1>2 DEF Persist, pg, server, CommitSnapshot, Fault
<1>3. CASE Bump
  BY <1>3 DEF Bump, server
<1>4. CASE ServerBoot
  BY <1>4 DEF ServerBoot, pg
<1>5. CASE ReadGroup
  <2>1. PICK got, rest : Deliver(got, rest)
    BY <1>5 DEF ReadGroup
  <2>2. UNCHANGED <<pg, booting, load, online>> /\ mpc' \in {"read", "ack", "load_version"}
    BY <1>5, <2>1 DEF ReadGroup, Deliver
  <2> QED
    BY <1>5, <2>2 DEF ReadGroup, pg
<1>6. CASE LoadVersion
  BY <1>6 DEF LoadVersion, pg
<1>7. CASE LoadSkills
  BY <1>7 DEF LoadSkills, pg
<1>8. CASE LoadSubunits
  BY <1>8 DEF LoadSubunits, pg
<1>9. CASE Swap
  BY <1>9 DEF Swap, pg, NoSnapshot
<1>10. CASE Ack
  BY <1>10 DEF Ack, pg
<1>11. CASE ServerCrash
  BY <1>11 DEF ServerCrash, pg, NoSnapshot
<1>12. CASE LoadFails
  BY <1>12 DEF LoadFails, pg, NoSnapshot
<1>13. CASE AdminPersist
  BY <1>13 DEF AdminPersist, pg, server, CommitSnapshot
<1>14. CASE EditFiles \/ OtherEvent \/ RedisLosesData \/ BuilderBoot \/ ReplayCheck \/ ReplayPublish
            \/ Scan \/ Build \/ Drain \/ PublishBuffered \/ CycleDone
            \/ BuilderCrash \/ RecreateGroup \/ AdminBuild
  <2>1. UNCHANGED <<pg, mpc, booting, load, online>>
    BY <1>14 DEF EditFiles, OtherEvent, RedisLosesData, BuilderBoot, ReplayCheck, ReplayPublish,
       Scan, Build, Drain, PublishBuffered, CycleDone, BuilderCrash, RecreateGroup, AdminBuild,
       server
  <2> QED
    BY <1>1, <2>1
<1>15. CASE UNCHANGED vars
  BY <1>1, <1>15 DEF vars, pg
<1> QED
  BY <1>1, <1>2, <1>3, <1>4, <1>5, <1>6, <1>7, <1>8, <1>9, <1>10, <1>11, <1>12, <1>13, <1>14,
     <1>15 DEF Next, BuilderStep, ServerStep, AdminStep

(* Every step preserves what is known of announcements. *)
LEMMA StreamStep == ASSUME TypeOK, LabelInv, StreamInv, [Next]_vars PROVE StreamInv'
<1> USE RefreshAssumption
<1> USE DEF LabelInv, VersionsOrdered, StreamInv, AnnouncedWasCommitted, BatchCovered,
            UnservedIsNewer, AnnouncementNotLost, Loaded, TypeOK, Trees, Snapshots
<1>1. CASE UNCHANGED <<pg, redis, seen, buffer, server>>
  BY <1>1 DEF pg, redis, server
<1>2. CASE OtherEvent
  BY <1>2 DEF OtherEvent, Other, pg, builder, server
<1>3. CASE RedisLosesData
  BY <1>3 DEF RedisLosesData, pg, builder, server
<1>4. CASE BuilderBoot
  BY <1>4 DEF BuilderBoot, EnsureGroup, NewGroupEntries, pg, server
<1>5. CASE ReplayCheck
  BY <1>5 DEF ReplayCheck, pg, redis, server
<1>6. CASE ReplayPublish
  <2>1. UNCHANGED <<pg, server, buffer>> /\ seen' = 0
    BY <1>6 DEF ReplayPublish
  <2>2. CASE Publish(seen)
    <3>1. seen \in entries' /\ entries' = entries \cup {seen} /\ pel' = pel
          /\ unserved' = {v \in unserved \cup {seen} : v > online.ver}
      BY <2>2 DEF Publish
    <3>2. AnnouncedWasCommitted'
      BY <2>1, <3>1 DEF pg, server
    <3>3. UnservedIsNewer' /\ AnnouncementNotLost'
      BY <2>1, <3>1 DEF server
    <3>4. BatchCovered'
      BY <2>1 DEF server
    <3> QED
      BY <3>2, <3>3, <3>4
  <2>3. CASE UNCHANGED redis
    BY <2>1, <2>3 DEF redis, pg, server
  <2> QED
    BY <1>6, <2>2, <2>3 DEF ReplayPublish
<1>7. CASE Persist
  BY <1>7 DEF Persist, pg, redis, server, CommitSnapshot
<1>8. CASE Bump
  BY <1>8 DEF Bump, redis, server
<1>9. CASE PublishBuffered
  BY <1>9 DEF PublishBuffered, Publish, pg, redis, server
<1>10. CASE BuilderCrash
  BY <1>10 DEF BuilderCrash, pg, redis, server
<1>11. CASE ServerBoot
  BY <1>11 DEF ServerBoot, EnsureGroup, NewGroupEntries, pg, builder
<1>12. CASE RecreateGroup
  BY <1>12 DEF RecreateGroup, EnsureGroup, NewGroupEntries, pg, builder, server
<1>13. CASE ReadGroup
  <2>1. PICK got, rest :
           /\ Deliver(got, rest)
           /\ \/ got = pel /\ rest = entries
              \/ got = entries /\ rest = {} /\ pel = {}
    BY <1>13 DEF ReadGroup
  <2>2. UNCHANGED <<pg, unserved, seen, buffer, online, load, booting>>
    BY <2>1 DEF Deliver, builder
  <2>3. entries' \cup pel' = entries \cup pel /\ batch' \subseteq entries \cup pel \cup batch
    BY <2>1 DEF Deliver
  <2>4. AnnouncedWasCommitted' /\ UnservedIsNewer' /\ AnnouncementNotLost'
    BY <2>2, <2>3 DEF pg
  <2>5. BatchCovered'
    <3>1. CASE batch' = got /\ reloaded' = (got = {Other})
               /\ mpc' = IF got = {Other} THEN "ack" ELSE "load_version"
      BY <3>1, <2>2 DEF Other
    <3>2. CASE UNCHANGED <<batch, mpc, reloaded>>
      BY <3>2, <2>2
    <3> QED
      BY <2>1, <3>1, <3>2 DEF Deliver
  <2> QED
    BY <2>4, <2>5
<1>14. CASE LoadVersion
  BY <1>14 DEF LoadVersion, pg, redis, builder
<1>15. CASE LoadSkills
  BY <1>15 DEF LoadSkills, pg, redis, builder
<1>16. CASE LoadSubunits
  BY <1>16 DEF LoadSubunits, pg, redis, builder
<1>17. CASE Swap
  <2>1. UNCHANGED <<pg, entries, pel, seen, buffer, batch>> /\ unserved' \subseteq unserved
        /\ unserved' = {v \in unserved : v > online'.ver}
    BY <1>17 DEF Swap, builder
  <2>2. AnnouncedWasCommitted' /\ UnservedIsNewer' /\ AnnouncementNotLost'
    BY <2>1 DEF pg
  <2>3. mpc' = (IF booting THEN "read" ELSE "ack") /\ (~ booting => load.ver =< online'.ver)
    BY <1>17 DEF Swap
  <2>4. BatchCovered'
    BY <1>17, <2>1, <2>3 DEF Swap
  <2> QED
    BY <2>2, <2>4
<1>18. CASE Ack
  BY <1>18 DEF Ack, Ackable, Other, pg, builder
<1>19. CASE ServerCrash
  BY <1>19 DEF ServerCrash, pg, redis, builder
<1>20. CASE LoadFails
  BY <1>20 DEF LoadFails, pg, redis, builder
<1>21. CASE AdminPersist
  BY <1>21 DEF AdminPersist, pg, redis, builder, server, CommitSnapshot
<1>22. CASE EditFiles \/ Scan \/ Build \/ Drain \/ CycleDone \/ AdminBuild
  <2>1. UNCHANGED <<pg, redis, seen, buffer, server>>
    BY <1>22 DEF EditFiles, Scan, Build, Drain, CycleDone, AdminBuild, builder
  <2> QED
    BY <1>1, <2>1
<1>23. CASE UNCHANGED vars
  BY <1>1, <1>23 DEF vars, pg, redis, server
<1> QED
  BY <1>1, <1>2, <1>3, <1>4, <1>5, <1>6, <1>7, <1>8, <1>9, <1>10, <1>11, <1>12, <1>13, <1>14,
     <1>15, <1>16, <1>17, <1>18, <1>19, <1>20, <1>21, <1>22, <1>23 DEF Next, BuilderStep,
     ServerStep, AdminStep

(* RefreshInv holds in every reachable state. *)
THEOREM RefreshInvariant == Spec => []RefreshInv
<1>1. Init => RefreshInv
  <2> SUFFICES ASSUME Init PROVE RefreshInv
    OBVIOUS
  <2>1. TypeOK
    <3>1. {tree, pgTree, watched, built, abuilt} \subseteq 0..MaxEdits
      BY RefreshAssumption DEF Init
    <3>2. {pgVer, seen, lastPub} \subseteq Nat /\ adminRuns \in 0..MaxAdmin
          /\ faults \in 0..MaxFaults
      BY RefreshAssumption DEF Init
    <3>3. bpc \in BuilderPlaces /\ mpc \in ServerPlaces /\ apc \in {"idle", "persist"}
      BY DEF Init, BuilderPlaces, ServerPlaces
    <3>4. group \in BOOLEAN /\ booting \in BOOLEAN /\ reloaded \in BOOLEAN
      BY DEF Init
    <3>5. load \in Snapshots /\ online \in Snapshots
      BY NoSnapshotType DEF Init
    <3>6. entries = {} /\ pel = {} /\ buffer = {} /\ batch = {} /\ unserved = {}
      BY DEF Init
    <3> QED
      BY <3>1, <3>2, <3>3, <3>4, <3>5, <3>6 DEF TypeOK, Trees
  <2>2. LabelInv
    BY DEF Init, NoSnapshot, LabelInv, VersionsOrdered, TornLoadIsOld, CurrentLabelIsExact,
       Loaded, Serving
  <2>3. StreamInv
    BY DEF Init, StreamInv, AnnouncedWasCommitted, BatchCovered, UnservedIsNewer,
       AnnouncementNotLost
  <2> QED
    BY <2>1, <2>2, <2>3 DEF RefreshInv
<1>2. RefreshInv /\ [Next]_vars => RefreshInv'
  BY TypeStep, LabelStep, StreamStep DEF RefreshInv
<1> QED
  BY <1>1, <1>2, PTL DEF Spec

(* The types of the pipeline's state. *)
THEOREM TypeCorrect == Spec => []TypeOK
BY RefreshInvariant, PTL DEF RefreshInv

(* build_graph_from_pg: a snapshot with the current label is that version. *)
THEOREM LabelsAreExact == Spec => []CurrentLabelIsExact
BY RefreshInvariant, PTL DEF RefreshInv, LabelInv

(* process_batch: no announcement of an unserved version is lost. *)
THEOREM AnnouncementsSurvive == Spec => []AnnouncementNotLost
BY RefreshInvariant, PTL DEF RefreshInv, StreamInv

(* The builder's last_published is served or still unserved and announced.
   It is not part of RefreshInv: a Redis that loses its data breaks it, for
   last_published is only forgotten when the builder restarts. *)
PublishedInv == lastPub > online.ver => lastPub \in unserved

(* Every step but the loss of Redis's data preserves it. *)
LEMMA PublishedStep ==
    ASSUME "flush" \notin Faults, RefreshInv, PublishedInv, [Next]_vars
    PROVE  PublishedInv'
<1> USE DEF PublishedInv
<1>0. /\ seen \in Nat /\ lastPub \in Nat /\ buffer \subseteq Nat
      /\ online.ver \in Nat /\ load.ver \in Nat
  BY DEF RefreshInv, TypeOK, Snapshots
<1>1. CASE UNCHANGED <<lastPub, online, unserved>>
  BY <1>1
<1>2. ~ RedisLosesData
  BY DEF RedisLosesData, Fault
<1>3. CASE BuilderCrash
  BY <1>0, <1>3 DEF BuilderCrash, server
<1>4. CASE ReplayPublish
  <2>1. online' = online
    BY <1>4 DEF ReplayPublish, server
  <2>2. CASE Publish(seen) /\ lastPub' = seen
    BY <1>0, <2>1, <2>2 DEF Publish
  <2>3. CASE lastPub' = lastPub /\ (Publish(seen) \/ UNCHANGED redis)
    BY <1>0, <2>1, <2>3 DEF Publish, redis
  <2> QED
    BY <1>4, <2>2, <2>3 DEF ReplayPublish
<1>5. CASE PublishBuffered
  <2>1. online' = online
    BY <1>5 DEF PublishBuffered, server
  <2>2. PICK v \in buffer :
           \/ Publish(v) /\ lastPub' = IF v > lastPub THEN v ELSE lastPub
           \/ lastPub' = lastPub /\ (Publish(v) \/ UNCHANGED redis)
    BY <1>5 DEF PublishBuffered
  <2> QED
    BY <1>0, <2>1, <2>2 DEF Publish, redis
<1>6. CASE Swap
  <2>1. /\ lastPub' = lastPub /\ unserved' = {v \in unserved : v > online'.ver}
        /\ online' = online \/ online' = load
    BY <1>6 DEF Swap, builder
  <2>2. online'.ver >= online.ver
    BY <1>0, <1>6, <2>1 DEF Swap, RefreshInv, LabelInv, VersionsOrdered, Loaded
  <2> QED
    BY <1>0, <2>1, <2>2
<1>7. CASE EditFiles \/ OtherEvent \/ BuilderBoot \/ ReplayCheck \/ Scan \/ Build \/ Persist
            \/ Drain \/ Bump \/ CycleDone
  BY <1>1, <1>7 DEF EditFiles, OtherEvent, BuilderBoot, EnsureGroup, ReplayCheck, Scan, Build,
     Persist, Drain, Bump, CycleDone, redis, builder, server
<1>8. CASE ServerBoot \/ RecreateGroup \/ ReadGroup \/ LoadVersion \/ LoadSkills
            \/ LoadSubunits \/ Ack \/ ServerCrash \/ LoadFails \/ AdminBuild \/ AdminPersist
  BY <1>1, <1>8 DEF ServerBoot, RecreateGroup, EnsureGroup, ReadGroup, Deliver, LoadVersion,
     LoadSkills, LoadSubunits, Ack, ServerCrash, LoadFails, AdminBuild, AdminPersist, redis,
     builder, server
<1>9. CASE UNCHANGED vars
  BY <1>1, <1>9 DEF vars
<1> QED
  BY <1>2, <1>3, <1>4, <1>5, <1>6, <1>7, <1>8, <1>9 DEF Next, BuilderStep, ServerStep, AdminStep

(* maybe_replay_graph_rebuilt: as long as Redis keeps its data, the version
   the builder takes for announced is served or still on its way. *)
THEOREM PublishedArrives ==
    ASSUME "flush" \notin Faults PROVE Spec => []PublishedIsDelivered
<1>1. Init => PublishedInv
  BY DEF Init, NoSnapshot, PublishedInv
<1>2. RefreshInv /\ PublishedInv /\ [Next]_vars => PublishedInv'
  BY PublishedStep
<1>3. RefreshInv /\ PublishedInv => PublishedIsDelivered
  BY DEF RefreshInv, StreamInv, AnnouncementNotLost, PublishedInv, PublishedIsDelivered
<1> QED
  BY <1>1, <1>2, <1>3, RefreshInvariant, PTL DEF Spec

(* What one step may do to the served snapshot and to the committed version. *)
LEMMA ServedStep ==
    ASSUME RefreshInv, [Next]_vars
    PROVE  \/ online' = online /\ pgVer' \in {pgVer, pgVer + 1}
           \/ /\ mpc = "swap" /\ pgVer' = pgVer /\ online' = load
              /\ booting \/ load.ver > online.ver
<1>1. CASE Swap
  BY <1>1 DEF Swap, pg
<1>2. CASE Persist \/ AdminPersist \/ Bump
  BY <1>2 DEF Persist, AdminPersist, Bump, CommitSnapshot, pg, server
<1>3. CASE EditFiles \/ OtherEvent \/ RedisLosesData \/ BuilderBoot \/ ReplayCheck
            \/ ReplayPublish \/ Scan \/ Build \/ Drain \/ PublishBuffered \/ CycleDone
            \/ BuilderCrash \/ AdminBuild
  BY <1>3 DEF EditFiles, OtherEvent, RedisLosesData, BuilderBoot, ReplayCheck, ReplayPublish,
     Scan, Build, Drain, PublishBuffered, CycleDone, BuilderCrash, AdminBuild, pg, server
<1>4. CASE ServerBoot \/ RecreateGroup \/ ReadGroup \/ LoadVersion \/ LoadSkills
            \/ LoadSubunits \/ Ack \/ ServerCrash \/ LoadFails
  BY <1>4 DEF ServerBoot, RecreateGroup, ReadGroup, Deliver, LoadVersion, LoadSkills,
     LoadSubunits, Ack, ServerCrash, LoadFails, pg, server
<1>5. CASE UNCHANGED vars
  BY <1>5 DEF vars
<1> QED
  BY <1>1, <1>2, <1>3, <1>4, <1>5 DEF Next, BuilderStep, ServerStep, AdminStep

(* swap_graph: the served version never goes back, and a running server never
   changes the content of the version it serves. *)
THEOREM ServedIsMonotonic == Spec => ServedNeverRegresses
<1> DEFINE Forward == /\ online'.ver >= online.ver
                      /\ Serving /\ Serving' /\ online'.ver = online.ver => online' = online
<1>1. RefreshInv /\ [Next]_vars => [Forward]_vars
  <2> SUFFICES ASSUME RefreshInv, [Next]_vars PROVE Forward
    OBVIOUS
  <2>1. CASE online' = online
    BY <2>1 DEF RefreshInv, TypeOK, Snapshots
  <2>2. CASE mpc = "swap" /\ online' = load /\ (booting \/ load.ver > online.ver)
    BY <2>2 DEF RefreshInv, LabelInv, VersionsOrdered, Loaded, TypeOK, Snapshots, Serving
  <2> QED
    BY <2>1, <2>2, ServedStep
<1> QED
  BY <1>1, RefreshInvariant, PTL DEF Spec, ServedNeverRegresses

(* The pipeline implements the abstract read model: every step commits one
   version, shows a newer committed one, or is invisible. *)
THEOREM RefinesReadModel == Spec => ImplementsReadModel
<1>1. Init => RM!Init
  BY DEF Init, RM!Init, NoSnapshot
<1>2. RefreshInv /\ [Next]_vars => [RM!Next]_(RM!vars)
  <2> SUFFICES ASSUME RefreshInv, [Next]_vars PROVE [RM!Next]_(RM!vars)
    OBVIOUS
  <2>1. CASE online' = online /\ pgVer' \in {pgVer, pgVer + 1}
    BY <2>1 DEF RM!Next, RM!Commit, RM!vars
  <2>2. CASE /\ mpc = "swap" /\ pgVer' = pgVer /\ online' = load
             /\ booting \/ load.ver > online.ver
    <3>1. online.ver \in Nat /\ load.ver \in Nat /\ pgVer \in Nat
      BY DEF RefreshInv, TypeOK, Snapshots
    <3>2. online.ver =< load.ver /\ load.ver =< pgVer
      BY <2>2 DEF RefreshInv, LabelInv, VersionsOrdered, Loaded
    <3>3. CASE load.ver = online.ver
      BY <2>2, <3>3 DEF RM!vars
    <3>4. CASE load.ver > online.ver
      <4>1. load.ver \in 1..pgVer
        BY <3>1, <3>2, <3>4
      <4> QED
        BY <2>2, <3>4, <4>1 DEF RM!Next, RM!Refresh
    <3> QED
      BY <3>1, <3>2, <3>3, <3>4
  <2> QED
    BY <2>1, <2>2, ServedStep
<1> QED
  BY <1>1, <1>2, RefreshInvariant, PTL DEF Spec, ImplementsReadModel, RM!Spec

=============================================================================

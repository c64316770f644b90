---------------------------- MODULE GraphRefresh ----------------------------
(***************************************************************************)
(* How an edited skill file reaches the running server.  The graph-builder *)
(* polls the scope roots, rebuilds the Postgres snapshot, drains the       *)
(* outbox, bumps graph_version and announces graph.rebuilt on a Redis      *)
(* stream; the mcp-server's subscriber reads the stream as a consumer      *)
(* group, reloads the snapshot, swaps it in and acknowledges; the admin    *)
(* tool rebuild_graph writes the same snapshot from inside the server.     *)
(*                                                                         *)
(* Sources: graph-builder/src/main.rs, watcher.rs, graph/rebuild.rs;       *)
(* infrastructure persistence/rebuild.rs and streaming/redis.rs;           *)
(* mcp-server graph_refresh_subscriber.rs and lib.rs; retrieval            *)
(* orchestrator.rs (swap_graph); admin tools.rs.                           *)
(*                                                                         *)
(* The files of all scope roots are one value, the number of edits made so *)
(* far.  A stream entry is the graph version it announces; Other stands    *)
(* for any event of another type on the shared stream.                     *)
(***************************************************************************)
EXTENDS Integers

CONSTANTS
    Faults,      \* kinds of fault that may happen
    MaxEdits,    \* bound: versions of the skill files
    MaxFaults,   \* bound: faults in one behaviour
    MaxAdmin,    \* bound: runs of the admin rebuild
    SharedStream \* whether other services publish on the stream

FaultKinds == {"pg", "redis", "embed", "outbox", "reload", "flush", "crash"}

ASSUME RefreshAssumption ==
    /\ Faults \subseteq FaultKinds
    /\ MaxEdits \in Nat \ {0}
    /\ MaxFaults \in Nat
    /\ MaxAdmin \in Nat
    /\ SharedStream \in BOOLEAN

Other == 0

VARIABLES
    tree,        \* the skill files on disk
    pgVer,       \* graph_state.graph_version
    pgTree,      \* the files the tables skills, subunits, communities come from
    entries,     \* stream entries not yet delivered to the consumer group
    pel,         \* delivered to the consumer and not acknowledged
    group,       \* the consumer group exists
    bpc, watched, built, seen, buffer, lastPub,     \* graph-builder
    mpc, booting, load, online, batch, reloaded,    \* mcp-server
    apc, abuilt, adminRuns,                         \* admin rebuild
    faults,      \* faults so far
    \* history
    unserved     \* versions announced, not lost by Redis and not yet served

pg       == <<pgVer, pgTree>>
redis    == <<entries, pel, group, unserved>>
builder  == <<bpc, watched, built, seen, buffer, lastPub>>
server   == <<mpc, booting, load, online, batch, reloaded>>
admin    == <<apc, abuilt, adminRuns>>
vars == <<tree, pgVer, pgTree, entries, pel, group, bpc, watched, built, seen,
          buffer, lastPub, mpc, booting, load, online, batch, reloaded,
          apc, abuilt, adminRuns, faults, unserved>>

NoSnapshot == [ver |-> 0, skills |-> 0, subunits |-> 0]

Init ==
    /\ tree = 1
    /\ pgVer = 0 /\ pgTree = 0
    /\ entries = {} /\ pel = {} /\ group = FALSE
    /\ bpc = "down" /\ watched = 0 /\ built = 0 /\ seen = 0
    /\ buffer = {} /\ lastPub = 0
    /\ mpc = "down" /\ booting = TRUE /\ load = NoSnapshot /\ online = NoSnapshot
    /\ batch = {} /\ reloaded = FALSE
    /\ apc = "idle" /\ abuilt = 0 /\ adminRuns = 0
    /\ faults = 0
    /\ unserved = {}

Fault(kind) ==
    /\ kind \in Faults
    /\ faults < MaxFaults
    /\ faults' = faults + 1

EditFiles ==
    /\ tree < MaxEdits
    /\ tree' = tree + 1
    /\ UNCHANGED <<pg, redis, builder, server, admin, faults>>

-----------------------------------------------------------------------------
(* Redis *)

(* XADD; the stream is created when it does not exist. *)
Publish(v) ==
    /\ entries' = entries \cup {v}
    /\ unserved' = {w \in unserved \cup {v} : w > online.ver}
    /\ UNCHANGED <<pel, group>>

(* Another service publishes an event of another type. *)
OtherEvent ==
    /\ SharedStream
    /\ Other \notin entries \cup pel
    /\ entries' = entries \cup {Other}
    /\ UNCHANGED <<tree, pg, pel, group, unserved, builder, server, admin, faults>>

(* Faulty variant: a new group starts at the end of the stream. *)
NewGroupEntriesFromEnd == {}

(* ensure_consumer_group creates the group at id 0: every entry that is still
   in the stream will be delivered to it. *)
NewGroupEntries == entries

EnsureGroup ==
    /\ group' = TRUE
    /\ entries' = IF group THEN entries ELSE NewGroupEntries
    /\ UNCHANGED <<pel, unserved>>

(* Failover to a fresh replica, FLUSHDB or eviction: stream and group vanish. *)
RedisLosesData ==
    /\ Fault("flush")
    /\ entries' = {} /\ pel' = {} /\ group' = FALSE
    /\ unserved' = {}
    /\ UNCHANGED <<tree, pg, builder, server, admin>>

-----------------------------------------------------------------------------
(* graph-builder *)

Goto(place) == bpc' = place

(* main: connect and ensure_consumer_group; the watcher's snapshot is empty. *)
BuilderBoot ==
    /\ bpc = "down"
    /\ Goto("replay")
    /\ EnsureGroup
    /\ UNCHANGED <<tree, pg, watched, built, seen, buffer, lastPub,
                   server, admin, faults>>

BuilderCrash ==
    /\ Fault("crash")
    /\ bpc # "down"
    /\ Goto("down")
    /\ watched' = 0 /\ built' = 0 /\ seen' = 0 /\ buffer' = {} /\ lastPub' = 0
    /\ UNCHANGED <<tree, pg, redis, server, admin>>

(* Faulty variant: no replay, as before bug #156 was fixed. *)
ReplayCheckSkipped ==
    /\ bpc = "replay"
    /\ Goto("scan")
    /\ UNCHANGED <<tree, pg, redis, watched, built, seen, buffer, lastPub, server, admin, faults>>

(* maybe_replay_graph_rebuilt: is Postgres ahead of what was announced? *)
ReplayCheck ==
    /\ bpc = "replay"
    /\ \/ /\ pgVer > lastPub
          /\ seen' = pgVer
          /\ Goto("announce")
          /\ UNCHANGED faults
       \/ /\ pgVer =< lastPub
          /\ Goto("scan")
          /\ UNCHANGED <<seen, faults>>
       \/ /\ Fault("pg")
          /\ Goto("scan")
          /\ UNCHANGED seen
    /\ UNCHANGED <<tree, pg, redis, watched, built, buffer, lastPub, server, admin>>

(* Faulty variant: the version counts as published whatever Redis answers. *)
ReplayPublishUnchecked ==
    /\ bpc = "announce"
    /\ Goto("scan")
    /\ seen' = 0
    /\ lastPub' = seen
    /\ \/ Publish(seen) /\ UNCHANGED faults
       \/ Fault("redis") /\ UNCHANGED redis
    /\ UNCHANGED <<tree, pg, watched, built, buffer, server, admin>>

(* A publish that fails may have reached the stream: its reply was lost. *)
ReplayPublish ==
    /\ bpc = "announce"
    /\ Goto("scan")
    /\ seen' = 0
    /\ \/ Publish(seen) /\ lastPub' = seen /\ UNCHANGED faults
       \/ Fault("redis") /\ UNCHANGED lastPub /\ (Publish(seen) \/ UNCHANGED redis)
    /\ UNCHANGED <<tree, pg, watched, built, buffer, server, admin>>

(* diff_skill_snapshots finds a change iff a skill file has another content
   hash or appeared or is gone; whether it is a creation, a deletion or one of
   the lifecycle renames is only recorded for the audit. *)
Changed == tree # watched

(* collect_file_changes: the watcher's snapshot moves forward at once. *)
Scan ==
    /\ bpc = "scan"
    /\ watched' = tree
    /\ Goto(IF Changed THEN "build" ELSE "publish")
    /\ UNCHANGED <<tree, pg, redis, built, seen, buffer, lastPub, server, admin, faults>>

(* build_skills_from_scope_roots reads the files again and embeds them. *)
Build ==
    /\ bpc = "build"
    /\ \/ built' = tree /\ Goto("persist") /\ UNCHANGED faults
       \/ Fault("embed") /\ Goto("publish") /\ UNCHANGED built
    /\ UNCHANGED <<tree, pg, redis, watched, seen, buffer, lastPub, server, admin>>

(* replace_snapshot_and_bump_version: one transaction. *)
CommitSnapshot(files) == pgTree' = files /\ pgVer' = pgVer + 1

Persist ==
    /\ bpc = "persist"
    /\ \/ CommitSnapshot(built) /\ Goto("drain") /\ UNCHANGED faults
       \/ Fault("pg") /\ Goto("publish") /\ UNCHANGED pg
    /\ UNCHANGED <<tree, redis, watched, built, seen, buffer, lastPub, server, admin>>

(* The outbox appends and mark_outbox_drained: module Outbox has the detail. *)
Drain ==
    /\ bpc = "drain"
    /\ \/ Goto("bump") /\ UNCHANGED faults
       \/ Fault("outbox") /\ Goto("publish")
    /\ UNCHANGED <<tree, pg, redis, watched, built, seen, buffer, lastPub, server, admin>>

(* bump_graph_version and the envelope pushed to published_events. *)
Bump ==
    /\ bpc = "bump"
    /\ Goto("publish")
    /\ \/ /\ pgVer' = pgVer + 1
          /\ buffer' = buffer \cup {pgVer + 1}
          /\ UNCHANGED faults
       \/ Fault("pg") /\ UNCHANGED <<pgVer, buffer>>
    /\ UNCHANGED <<tree, pgTree, redis, watched, built, seen, lastPub, server, admin>>

(* drain_published_events, one envelope at a time and in order; the first
   failure leaves the rest of the buffer for the next cycle. *)
PublishBuffered ==
    /\ bpc = "publish"
    /\ \E v \in buffer :
          /\ \A w \in buffer : v =< w
          /\ \/ /\ Publish(v)
                /\ buffer' = buffer \ {v}
                /\ lastPub' = IF v > lastPub THEN v ELSE lastPub
                /\ UNCHANGED <<bpc, faults>>
             \/ /\ Fault("redis")
                /\ Goto("replay")
                /\ UNCHANGED <<buffer, lastPub>>
                /\ Publish(v) \/ UNCHANGED redis
    /\ UNCHANGED <<tree, pg, watched, built, seen, server, admin>>

CycleDone ==
    /\ bpc = "publish"
    /\ buffer = {}
    /\ Goto("replay")
    /\ UNCHANGED <<tree, pg, redis, watched, built, seen, buffer, lastPub, server, admin, faults>>

-----------------------------------------------------------------------------
(* mcp-server *)

Serving == mpc # "down" /\ ~ booting

(* Faulty variant: the server starts with an empty graph. *)
ServerBootEmpty ==
    /\ mpc = "down"
    /\ mpc' = "read" /\ booting' = FALSE
    /\ online' = NoSnapshot
    /\ EnsureGroup
    /\ UNCHANGED <<tree, pg, builder, load, batch, reloaded, admin, faults>>

(* build_live_server: ensure_consumer_group, then the first load. *)
ServerBoot ==
    /\ mpc = "down"
    /\ mpc' = "load_version" /\ booting' = TRUE
    /\ EnsureGroup
    /\ UNCHANGED <<tree, pg, builder, load, online, batch, reloaded, admin, faults>>

(* The process dies, and a rebuild job it was running with it. *)
ServerCrash ==
    /\ Fault("crash")
    /\ mpc # "down"
    /\ mpc' = "down" /\ booting' = TRUE /\ batch' = {} /\ load' = NoSnapshot
    /\ reloaded' = FALSE /\ apc' = "idle" /\ abuilt' = 0
    /\ UNCHANGED <<tree, pg, redis, builder, online, adminRuns>>

(* read_group on NOGROUP: the group is created again, and the read retried. *)
RecreateGroup ==
    /\ mpc = "read"
    /\ ~ group
    /\ EnsureGroup
    /\ UNCHANGED <<tree, pg, builder, server, admin, faults>>

(* coalesced_reload: one reload for the whole batch, none when it holds no
   graph.rebuilt.  The reply to a read may be lost: then the entries are
   pending and nobody works on them. *)
Deliver(got, rest) ==
    /\ pel' = got
    /\ entries' = rest
    /\ \/ /\ batch' = got
          /\ mpc' = IF got = {Other} THEN "ack" ELSE "load_version"
          /\ reloaded' = (got = {Other})
          /\ UNCHANGED faults
       \/ Fault("redis") /\ UNCHANGED <<batch, mpc, reloaded>>
    /\ UNCHANGED <<tree, pg, group, unserved, builder, booting, load, online, admin>>

(* Faulty variant: only new entries are read, never the pending ones. *)
ReadGroupNewOnly ==
    /\ mpc = "read"
    /\ group
    /\ entries # {}
    /\ batch' = entries
    /\ pel' = pel \cup entries
    /\ entries' = {}
    /\ mpc' = IF entries = {Other} THEN "ack" ELSE "load_version"
    /\ reloaded' = (entries = {Other})
    /\ UNCHANGED <<tree, pg, group, unserved, builder, booting, load, online, admin, faults>>

(* read_group_once: pending entries first, else the undelivered ones.  A read
   that finds nothing changes nothing. *)
ReadGroup ==
    /\ mpc = "read"
    /\ group
    /\ \/ pel # {} /\ Deliver(pel, entries)
       \/ pel = {} /\ entries # {} /\ Deliver(entries, {})

(* Faulty variant: a missing graph_state row is reported as version -1. *)
LoadVersionSentinel ==
    /\ mpc = "load_version"
    /\ load' = [load EXCEPT !.ver = IF pgVer = 0 THEN -1 ELSE pgVer]
    /\ mpc' = "load_skills"
    /\ UNCHANGED <<tree, pg, redis, builder, booting, online, batch, reloaded, admin, faults>>

(* build_graph_from_pg: three queries, each with its own view of Postgres. *)
LoadVersion ==
    /\ mpc = "load_version"
    /\ load' = [load EXCEPT !.ver = pgVer]
    /\ mpc' = "load_skills"
    /\ UNCHANGED <<tree, pg, redis, builder, booting, online, batch, reloaded, admin, faults>>

LoadSkills ==
    /\ mpc = "load_skills"
    /\ load' = [load EXCEPT !.skills = pgTree]
    /\ mpc' = "load_subunits"
    /\ UNCHANGED <<tree, pg, redis, builder, booting, online, batch, reloaded, admin, faults>>

(* Faulty variant: the version is read after the content. *)
LoadSubunitsThenVersion ==
    /\ mpc = "load_subunits"
    /\ load' = [load EXCEPT !.subunits = pgTree, !.ver = pgVer]
    /\ mpc' = "swap"
    /\ UNCHANGED <<tree, pg, redis, builder, booting, online, batch, reloaded, admin, faults>>

LoadSubunits ==
    /\ mpc = "load_subunits"
    /\ load' = [load EXCEPT !.subunits = pgTree]
    /\ mpc' = "swap"
    /\ UNCHANGED <<tree, pg, redis, builder, booting, online, batch, reloaded, admin, faults>>

(* A query or the embedding fails: boot gives up, a reload leaves the
   announcements unacknowledged. *)
LoadFails ==
    /\ Fault("reload")
    /\ mpc \in {"load_version", "load_skills", "load_subunits"}
    /\ reloaded' = FALSE
    /\ load' = NoSnapshot
    /\ mpc' = IF booting THEN "down" ELSE "ack"
    /\ UNCHANGED <<tree, pg, redis, builder, booting, online, batch, admin>>

(* Faulty variant: whatever was loaded is swapped in. *)
SwapAlways ==
    /\ mpc = "swap"
    /\ online' = load
    /\ unserved' = {v \in unserved : v > online'.ver}
    /\ booting' = FALSE
    /\ load' = NoSnapshot
    /\ reloaded' = ~ booting
    /\ mpc' = IF booting THEN "read" ELSE "ack"
    /\ UNCHANGED <<tree, pg, entries, pel, group, builder, batch, admin, faults>>

(* swap_graph, or the snapshot the retriever is constructed with. *)
Swap ==
    /\ mpc = "swap"
    /\ online' = IF booting \/ load.ver > online.ver THEN load ELSE online
    /\ unserved' = {v \in unserved : v > online'.ver}
    /\ booting' = FALSE
    /\ load' = NoSnapshot
    /\ reloaded' = ~ booting
    /\ mpc' = IF booting THEN "read" ELSE "ack"
    /\ UNCHANGED <<tree, pg, entries, pel, group, builder, batch, admin, faults>>

(* Faulty variant: the whole batch is acknowledged after a failed reload. *)
AckableAlways == batch

(* The acknowledgement loop of process_batch; an XACK may fail. *)
Ackable == IF reloaded THEN batch ELSE batch \cap {Other}

Ack ==
    /\ mpc = "ack"
    /\ mpc' = "read"
    /\ batch' = {} /\ reloaded' = FALSE
    /\ \/ pel' = pel \ Ackable /\ UNCHANGED faults
       \/ Fault("redis") /\ \E lost \in SUBSET Ackable : pel' = pel \ (Ackable \ lost)
    /\ UNCHANGED <<tree, pg, entries, group, unserved, builder, booting, load, online,
                   admin>>

-----------------------------------------------------------------------------
(* The admin tool's trigger_full_rebuild: no lock, no outbox, no event. *)
AdminBuild ==
    /\ Serving /\ apc = "idle"
    /\ adminRuns < MaxAdmin
    /\ adminRuns' = adminRuns + 1
    /\ abuilt' = tree
    /\ apc' = "persist"
    /\ UNCHANGED <<tree, pg, redis, builder, server, faults>>

AdminPersist ==
    /\ apc = "persist"
    /\ apc' = "idle" /\ abuilt' = 0
    /\ \/ CommitSnapshot(abuilt) /\ UNCHANGED faults
       \/ Fault("pg") /\ UNCHANGED pg
    /\ UNCHANGED <<tree, redis, builder, server, adminRuns>>

-----------------------------------------------------------------------------
BuilderStep ==
    \/ BuilderBoot \/ ReplayCheck \/ ReplayPublish \/ Scan \/ Build \/ Persist
    \/ Drain \/ Bump \/ PublishBuffered \/ CycleDone
ServerStep ==
    \/ ServerBoot \/ RecreateGroup \/ ReadGroup \/ LoadVersion \/ LoadSkills \/ LoadSubunits
    \/ Swap \/ Ack
AdminStep == AdminPersist

Next ==
    \/ EditFiles \/ OtherEvent \/ RedisLosesData
    \/ BuilderStep \/ BuilderCrash
    \/ ServerStep \/ ServerCrash \/ LoadFails
    \/ AdminBuild \/ AdminStep

Spec == Init /\ [][Next]_vars

(* Each process runs its loop, and its container is restarted. *)
Fairness == WF_vars(BuilderStep) /\ WF_vars(ServerStep) /\ WF_vars(AdminStep)
FairSpec == Spec /\ Fairness

-----------------------------------------------------------------------------
BuilderPlaces ==
    {"down", "replay", "announce", "scan", "build", "persist", "drain", "bump", "publish"}
ServerPlaces == {"down", "read", "load_version", "load_skills", "load_subunits", "swap", "ack"}
Trees == 0..MaxEdits
Snapshots == [ver : Nat, skills : Trees, subunits : Trees]

(* Type invariant. *)
TypeOK ==
    /\ tree \in Trees
    /\ pgVer \in Nat /\ pgTree \in Trees
    /\ entries \subseteq Nat /\ pel \subseteq Nat /\ group \in BOOLEAN
    /\ bpc \in BuilderPlaces
    /\ watched \in Trees /\ built \in Trees /\ seen \in Nat
    /\ buffer \subseteq Nat /\ lastPub \in Nat
    /\ mpc \in ServerPlaces /\ booting \in BOOLEAN
    /\ load \in Snapshots /\ online \in Snapshots
    /\ batch \subseteq Nat /\ reloaded \in BOOLEAN
    /\ apc \in {"idle", "persist"} /\ abuilt \in Trees /\ adminRuns \in 0..MaxAdmin
    /\ faults \in 0..MaxFaults
    /\ unserved \subseteq Nat

(* A snapshot labelled with the current graph version is that version, skills
   and subunits alike, although build_graph_from_pg reads the label and the
   two tables in three separate queries while rebuilds commit: the label is
   read first, and no content changes without a new version. *)
CurrentLabelIsExact ==
    Serving /\ online.ver = pgVer => online.skills = pgTree /\ online.subunits = pgTree

(* "ACKs a message only AFTER the reload+swap succeeds": an announced version
   the server does not serve yet is still in the stream or the pending list,
   across crashes, failed reloads and lost acknowledgements. *)
AnnouncementNotLost == unserved \subseteq entries \cup pel

(* The replay check never concludes too early: the newest version the builder
   takes for announced is on its way to the server or already served, so the
   builder may stop replaying it (as long as Redis keeps its data). *)
PublishedIsDelivered ==
    bpc # "down" /\ lastPub > online.ver => lastPub \in entries \cup pel

(* The version requests are answered from never goes back, not even when the
   server restarts, and a served version never changes its content. *)
ServedNeverRegresses ==
    [][/\ online'.ver >= online.ver
       /\ Serving /\ Serving' /\ online'.ver = online.ver => online' = online]_vars

(* With finitely many edits and faults, and Redis keeping its data, the server
   ends up serving exactly what Postgres holds: replay, redelivery and restart
   leave no version behind, and a snapshot torn between two rebuilds is healed. *)
SnapshotConverges ==
    <>[](Serving /\ online = [ver |-> pgVer, skills |-> pgTree, subunits |-> pgTree])

(* GraphRefresh implements ReadModel, fairness included. *)
RM == INSTANCE ReadModel WITH committed <- pgVer, served <- online.ver
ImplementsReadModel == RM!Spec
CatchesUp == RM!FairSpec

=============================================================================

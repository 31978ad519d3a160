----------------------------- MODULE GraphPhase1 -----------------------------
(***************************************************************************)
(* graph-engine: the runs that promote a selection of candidate deltas     *)
(* into the live graph and then publish what they compute from it: Phase 1 *)
(* (graph and impact snapshots in an artifact that must be reloadable) and *)
(* the rollout canary (read-back and holdings algorithms as evidence).     *)
(* Beside them a cold reload rebuilds the graph from a published artifact. *)
(*                                                                         *)
(* The status row and the token are those of LiveGraph.  Here the advisory *)
(* lock has its queue: a status write waits for the readers, and whoever   *)
(* comes later waits behind it, readers included.  A live graph is a set   *)
(* of facts; its counts and checksum are the set itself.                   *)
(***************************************************************************)
EXTENDS Integers, Sequences, FiniteSets, SequencesExt, FiniteSetsExt

CONSTANTS
    Phase1Runs, CanaryRuns,     \* runs, as strings
    Selection,      \* run -> the candidate deltas it reads
    NodeEntity,     \* node -> canonical entity, for the nodes the registry maps
    Anchors,        \* the entities that exist
    Allowed,        \* the relationship types the canary may write
    FirstGraphs,    \* graphs the runs may start with
    Channels1,      \* the number of enabled channels
    MaxRuns, MaxReloads, MaxFaults  \* bounds: runs and reloads started, deaths of runs and timeouts of reloads

VARIABLES
    row,            \* the status row: [state, gen, sum, token]
    stored,         \* facts in Neo4j
    lockQueue,      \* who waits for the advisory lock, in order
    artifacts,      \* published snapshots: [by, gen, facts, reads, lands]
    layerA,         \* the canary's Layer A files: [records, manifest]
    run,            \* run -> its step and locals
    reload,         \* the cold reload: [pc, from, seen]
    late,           \* reload calls in flight after their timeout
    reloads, mishaps, \* reloads started; deaths and timeouts so far
    landed          \* history: the late reload calls that have landed

phase1Vars == <<row, stored, lockQueue, artifacts, layerA, run, reload, late, reloads, mishaps, landed>>
Runs == Phase1Runs \cup CanaryRuns
Reloader == "reloader"

ASSUME Phase1Assumption == Reloader \notin Runs /\ Channels1 \in Nat

-----------------------------------------------------------------------------
(* Candidate deltas to facts.  A delta has an id, a kind of change, a type *)
(* of relationship, two nodes, the nodes it upserts, an explicit edge id   *)
(* (0 for none), evidence, and perhaps a forbidden field.                  *)

Holdings == {"CO_HOLDING", "NORTHBOUND_HOLD"}
DeltaTypes == {"add", "add_edge", "edge_upsert", "upsert_edge", "upsert_relation"}
RelationTypes == Holdings \cup {"SUPPLY_CHAIN", "OWNERSHIP", "EVENT_IMPACT"}

NodeFact(n) == [key |-> <<"node", n, 0>>, value |-> 0, evidence |-> TRUE, readable |-> TRUE]
Ends(d) == {d.source, d.target}
Upserted(deltas) == UNION {d.upserts : d \in deltas}
Supported(deltas) == \A d \in deltas : d.change \in DeltaTypes /\ d.type \in RelationTypes

\* Upserts come with holdings only, for the delta's own ends, and agree with
\* each other and with the registry.
UpsertsFit(deltas) ==
    /\ \A d \in deltas : d.upserts # {} => d.type \in Holdings /\ {u.node : u \in d.upserts} \subseteq Ends(d)
    /\ \A u, v \in Upserted(deltas) : u.node = v.node => u.entity = v.entity
    /\ \A u \in Upserted(deltas) : u.node \in DOMAIN NodeEntity => NodeEntity[u.node] = u.entity
Resolved(deltas) == UNION {Ends(d) : d \in deltas} \subseteq DOMAIN NodeEntity \cup {u.node : u \in Upserted(deltas)}
Anchored(deltas) ==
    {NodeEntity[n] : n \in UNION {Ends(d) : d \in deltas} \cap DOMAIN NodeEntity}
        \cup {u.entity : u \in Upserted(deltas)} \subseteq Anchors
Clean(deltas) == \A d \in deltas : ~d.forbidden
Plannable(deltas) ==
    Supported(deltas) /\ UpsertsFit(deltas) /\ Resolved(deltas) /\ Anchored(deltas) /\ Clean(deltas)

\* A holding is known by its ends or its explicit id, any other edge by its delta.
EdgeId(d) ==
    IF d.type \notin Holdings THEN <<"delta", d.id, 0>>
    ELSE IF d.edge # 0 THEN <<"edge", d.edge, 0>>
    ELSE <<d.type, d.source, d.target>>
EdgeFact(d) == [key |-> EdgeId(d), value |-> d.id, evidence |-> d.evidence, readable |-> TRUE]

\* The plan is in the order of the ids, so the last delta of a key stays.
PlanOf(deltas) ==
    {NodeFact(u.node) : u \in Upserted(deltas)}
        \cup {EdgeFact(d) : d \in {x \in deltas : \A y \in deltas : EdgeId(y) = EdgeId(x) => y.id <= x.id}}
Put(facts, plan) == {f \in facts : \A p \in plan : p.key # f.key} \cup plan

\* The sync is one transaction that writes nothing when an end is missing.
EndsPresent(deltas) ==
    \A n \in UNION {Ends(d) : d \in deltas} : n \in {u.node : u \in Upserted(deltas)} \/ NodeFact(n) \in stored

-----------------------------------------------------------------------------
(* The lock.  Steps of a run in Excluding wait to change the row, those in *)
(* Sharing wait to read under the lock; Holding is inside the outer read.  *)

Excluding == {"begin", "finish", "marking"}
Sharing   == {"outer", "channel", "snapshot", "algorithm"}
\* Mutant: the lock is not released when the body of the read raises.
HoldingLeaks == {"channel", "snapshot", "publish", "failed"}
Holding   == {"channel", "snapshot", "publish"}

Holders == {r \in Runs : run[r].pc \in Holding}
Waits(w) == w \in ToSet(lockQueue)
Excludes(w) == w = Reloader \/ run[w].pc \in Excluding
Before1(w) == {lockQueue[i] : i \in {j \in DOMAIN lockQueue : \A k \in 1..j : lockQueue[k] # w}}
Granted(w) ==
    /\ Waits(w)
    /\ IF Excludes(w) THEN Before1(w) = {} /\ Holders = {} ELSE \A x \in Before1(w) : ~Excludes(x)

Ready == row.state = "ready" /\ ~row.token
Unqueued(w) ==
    IF Waits(w) THEN RemoveAt(lockQueue, CHOOSE i \in DOMAIN lockQueue : lockQueue[i] = w) ELSE lockQueue
AskLock(w) == ~Waits(w) /\ lockQueue' = Append(lockQueue, w)

\* The run goes on with the locals `next`; what it waited for is granted.
Go(r, next) ==
    /\ run' = [run EXCEPT ![r] = next]
    /\ lockQueue' = Unqueued(r)
Goto1(r, pc) == Go(r, [run[r] EXCEPT !.pc = pc])
Raise(r) == Goto1(r, "failed")
RunAsks(r) ==
    /\ run[r].pc \in Excluding \cup Sharing /\ AskLock(r)
    /\ UNCHANGED <<row, stored, artifacts, layerA, run, reload, late, reloads, mishaps, landed>>
others == <<reload, late, reloads, mishaps, landed>>

-----------------------------------------------------------------------------
(* Promotion, for both kinds of run.                                       *)

NoRun == [pc |-> "start", seen |-> [state |-> "none", gen |-> 0, sum |-> {}, token |-> FALSE],
          metrics |-> {}, want |-> 0, count |-> 0, paths |-> {}, reads |-> {}, last |-> {}, from |-> 0, checked |-> TRUE]

\* Phase 0 hands over a mapping of the row; the canary starts here as well.
GraphStatus(r) ==
    /\ run[r].pc = "start" /\ Cardinality({x \in Runs : run[x].pc # "start"}) < MaxRuns
    /\ Go(r, [run[r] EXCEPT !.pc = "phase0", !.seen = row])
    /\ UNCHANGED <<row, stored, artifacts, layerA, others>>

\* The mapping must say ready without a token.  It has a key too many (cycle_id) to
\* be parsed as a row, so the comparison with the present row is skipped.
Phase0Accepted(r) == run[r].seen.state = "ready" /\ ~run[r].seen.token
AllowedOnly(r) == r \in CanaryRuns => {d.type : d \in Selection[r]} \subseteq Allowed /\ Selection[r] # {}
PromoteGraph(r) ==
    /\ run[r].pc = "phase0"
    /\ IF (r \in Phase1Runs => Phase0Accepted(r)) /\ AllowedOnly(r) /\ Ready /\ Plannable(Selection[r])
       THEN Go(r, [run[r] EXCEPT !.pc = IF r \in CanaryRuns THEN "layerA" ELSE "written", !.checked = (row = run[r].seen)])
       ELSE Raise(r)
    /\ UNCHANGED <<row, stored, artifacts, layerA, others>>

\* The canary's canonical records are two files, each replaced atomically.
WriteRecords(r) ==
    /\ run[r].pc = "layerA"
    /\ layerA' = [layerA EXCEPT !.records = r]
    /\ Goto1(r, "manifest")
    /\ UNCHANGED <<row, stored, artifacts, others>>
WriteManifest(r) ==
    /\ run[r].pc = "manifest"
    /\ layerA' = [layerA EXCEPT !.manifest = r]
    /\ Goto1(r, "written")
    /\ UNCHANGED <<row, stored, artifacts, others>>

\* begin_sync reads the row, waits for the lock and writes if the row is unchanged.
ReadRow(r) ==
    /\ run[r].pc = "written"
    /\ IF Ready THEN Go(r, [run[r] EXCEPT !.pc = "begin", !.seen = row]) ELSE Raise(r)
    /\ UNCHANGED <<row, stored, artifacts, layerA, others>>
BeginPromotion(r) ==
    /\ run[r].pc = "begin" /\ Granted(r)
    /\ IF row = run[r].seen
       THEN /\ row' = [row EXCEPT !.token = TRUE]
            /\ Go(r, [run[r] EXCEPT !.pc = "locked", !.seen = row'])
       ELSE Raise(r) /\ UNCHANGED row
    /\ UNCHANGED <<stored, artifacts, layerA, others>>
SyncPromotion(r) ==
    /\ run[r].pc = "locked"
    /\ IF row = run[r].seen /\ EndsPresent(Selection[r])
       THEN stored' = Put(stored, PlanOf(Selection[r])) /\ Goto1(r, "synced")
       ELSE Goto1(r, "marking") /\ UNCHANGED stored
    /\ UNCHANGED <<row, artifacts, layerA, others>>
Measure(r) ==
    /\ run[r].pc = "synced"
    /\ IF row = run[r].seen
       THEN Go(r, [run[r] EXCEPT !.pc = "finish", !.metrics = stored])
       ELSE Goto1(r, "marking")
    /\ UNCHANGED <<row, stored, artifacts, layerA, others>>
FinishPromotion(r) ==
    /\ run[r].pc = "finish" /\ Granted(r)
    /\ IF row = run[r].seen
       THEN /\ row' = [state |-> "ready", gen |-> row.gen + 1, sum |-> run[r].metrics, token |-> FALSE]
            /\ Goto1(r, "promoted")
       ELSE Goto1(r, "marking") /\ UNCHANGED row
    /\ UNCHANGED <<stored, artifacts, layerA, others>>
MarkPromotionFailed(r) ==
    /\ run[r].pc = "marking" /\ Granted(r)
    /\ row' = IF row = run[r].seen THEN [state |-> "failed", gen |-> row.gen, sum |-> {}, token |-> FALSE] ELSE row
    /\ Raise(r)
    /\ UNCHANGED <<stored, artifacts, layerA, others>>

\* The generation a run asks for later is that of the row it finds now.
PromotionResult(r) ==
    /\ run[r].pc = "promoted"
    /\ IF Ready
       THEN Go(r, [run[r] EXCEPT !.pc = IF r \in CanaryRuns THEN "readback" ELSE "outer", !.want = row.gen])
       ELSE Raise(r)
    /\ UNCHANGED <<row, stored, artifacts, layerA, others>>

-----------------------------------------------------------------------------
(* Phase 1: compute_graph_snapshots and the proof of its artifact.         *)

MatchesGraph == stored = row.sum
HoldReady(r) ==
    /\ run[r].pc = "outer" /\ Granted(r)
    /\ IF Ready /\ row.gen = run[r].want /\ MatchesGraph
       THEN Go(r, [run[r] EXCEPT !.pc = IF Channels1 = 0 THEN "snapshot" ELSE "channel", !.seen = row,
                                 !.from = landed])
       ELSE Raise(r)
    /\ UNCHANGED <<row, stored, artifacts, layerA, others>>

\* Each channel, and the snapshot after them, reads under a shared lock of its own.
Edges(facts) == {f \in facts : f.key[1] \notin {"node", "assertion"}}
ReadUnderLock(r) ==
    /\ run[r].pc \in {"channel", "snapshot"} /\ Granted(r)
    /\ IF ~(Ready /\ row.gen = run[r].seen.gen) THEN Raise(r)
       ELSE IF run[r].pc = "channel"
       THEN Go(r, [run[r] EXCEPT !.reads = @ \cup {stored}, !.paths = @ \cup Edges(stored), !.count = @ + 1,
                                 !.pc = IF run[r].count + 1 < Channels1 THEN "channel" ELSE "snapshot"])
       ELSE Go(r, [run[r] EXCEPT !.reads = @ \cup {stored}, !.last = stored, !.pc = "publish"])
    /\ UNCHANGED <<row, stored, artifacts, layerA, others>>

\* build_graph_impact_snapshot: targets, and evidence for every activated path.
ImpactAccepted(paths) == paths # {} /\ \A f \in paths : f.evidence
\* Mutant: nothing is checked again before the snapshots are written.
PublicationUnchecked(r) == TRUE
PublicationAccepted(r) == row = run[r].seen /\ MatchesGraph
WriteSnapshots(r) ==
    /\ run[r].pc = "publish"
    /\ IF ImpactAccepted(run[r].paths) /\ PublicationAccepted(r)
       THEN /\ artifacts' = artifacts \cup {[by |-> r, gen |-> row.gen, facts |-> run[r].last, reads |-> run[r].reads,
                                             lands |-> landed - run[r].from]}
            /\ Goto1(r, "proving")
       ELSE Raise(r) /\ UNCHANGED artifacts
    /\ UNCHANGED <<row, stored, layerA, others>>

\* A graph with nodes that have no canonical entity writes an artifact nobody can read.
Readable(facts) == \A f \in facts : f.readable
ProveReload(r) ==
    /\ run[r].pc = "proving"
    /\ LET a == CHOOSE x \in artifacts : x.by = r
       IN  Goto1(r, IF Ready /\ Readable(a.facts) /\ a.gen = row.gen /\ a.facts = row.sum THEN "done" ELSE "failed")
    /\ UNCHANGED <<row, stored, artifacts, layerA, others>>

-----------------------------------------------------------------------------
(* The canary after its promotion.                                         *)

ReadBack(r) ==
    /\ run[r].pc = "readback"
    /\ Goto1(r, IF {EdgeId(d) : d \in Selection[r]} \subseteq {f.key : f \in stored} THEN "status" ELSE "failed")
    /\ UNCHANGED <<row, stored, artifacts, layerA, others>>
PostStatus(r) ==
    /\ run[r].pc = "status"
    /\ IF Ready THEN Go(r, [run[r] EXCEPT !.pc = "algorithm", !.want = row.gen]) ELSE Raise(r)
    /\ UNCHANGED <<row, stored, artifacts, layerA, others>>
ContextGeneration(r) == row.gen = run[r].want
CanaryAlgorithm(r) ==
    /\ run[r].pc = "algorithm" /\ Granted(r)
    /\ IF Ready /\ ContextGeneration(r)
       THEN Go(r, [run[r] EXCEPT !.reads = @ \cup {stored}, !.count = @ + 1,
                                 !.pc = IF run[r].count = 1 THEN "done" ELSE "algorithm"])
       ELSE Raise(r)
    /\ UNCHANGED <<row, stored, artifacts, layerA, others>>

-----------------------------------------------------------------------------
(* cold_reload from an artifact, and what fails.                           *)

NoReload == [pc |-> "idle", from |-> [by |-> "none", gen |-> 0, facts |-> {}, reads |-> {}, lands |-> 0],
             seen |-> NoRun.seen]
GoReload(pc, next) == reload' = [next EXCEPT !.pc = pc] /\ lockQueue' = Unqueued(Reloader)
ReloadAsks ==
    /\ reload.pc \in {"rebuilding", "readying", "failing"} /\ AskLock(Reloader)
    /\ UNCHANGED <<row, stored, artifacts, layerA, run, reload, late, reloads, mishaps, landed>>

ReloadBegin ==
    /\ reload.pc = "idle" /\ reloads < MaxReloads
    /\ row.state \in {"ready", "failed"} /\ ~row.token
    /\ GoReload("rebuilding", [reload EXCEPT !.seen = row])
    /\ reloads' = reloads + 1
    /\ UNCHANGED <<row, stored, artifacts, layerA, run, late, mishaps, landed>>
ReloadMarks(a) ==
    /\ reload.pc = "rebuilding" /\ Granted(Reloader)
    /\ IF row = reload.seen
       THEN /\ row' = [state |-> "rebuilding", gen |-> row.gen, sum |-> {}, token |-> FALSE]
            /\ GoReload("loading", [reload EXCEPT !.from = a, !.seen = row'])
       ELSE GoReload("idle", NoReload) /\ UNCHANGED row
    /\ UNCHANGED <<stored, artifacts, layerA, run, late, reloads, mishaps, landed>>
ReloadLoads ==
    /\ reload.pc = "loading"
    /\ IF Readable(reload.from.facts)
       THEN stored' = reload.from.facts /\ GoReload("verifying", reload)
       ELSE GoReload("failing", reload) /\ UNCHANGED stored
    /\ UNCHANGED <<row, artifacts, layerA, run, late, reloads, mishaps, landed>>
ReloadVerifies ==
    /\ reload.pc = "verifying"
    /\ GoReload(IF stored = reload.from.facts THEN "readying" ELSE "failing", reload)
    /\ UNCHANGED <<row, stored, artifacts, layerA, run, late, reloads, mishaps, landed>>
Reloaded(a) ==
    IF a.gen >= row.gen THEN [state |-> "ready", gen |-> a.gen, sum |-> a.facts, token |-> FALSE] ELSE row
ReloadPublishes ==
    /\ reload.pc = "readying" /\ Granted(Reloader)
    /\ IF Reloaded(reload.from) # row
       THEN row' = Reloaded(reload.from) /\ GoReload("idle", NoReload)
       ELSE GoReload("failing", reload) /\ UNCHANGED row
    /\ UNCHANGED <<stored, artifacts, layerA, run, late, reloads, mishaps, landed>>
ReloadFails ==
    /\ reload.pc = "failing" /\ Granted(Reloader)
    /\ row' = IF row.state \in {"rebuilding", "ready"} /\ ~row.token
              THEN [state |-> "failed", gen |-> row.gen, sum |-> {}, token |-> FALSE] ELSE row
    /\ GoReload("idle", NoReload)
    /\ UNCHANGED <<stored, artifacts, layerA, run, late, reloads, mishaps, landed>>

\* A stage times out; its call, a drop or a load, may still land whatever the row
\* says by then.
ReloadTimesOut(call) ==
    /\ reload.pc = "loading" /\ mishaps < MaxFaults
    /\ GoReload("failing", reload)
    /\ late' = late \cup {[call |-> call, facts |-> reload.from.facts]}
    /\ mishaps' = mishaps + 1
    /\ UNCHANGED <<row, stored, artifacts, layerA, run, reloads, landed>>
LateCallLands(x) ==
    /\ stored' = IF x.call = "drop" THEN {} ELSE Put(stored, x.facts)
    /\ late' = late \ {x} /\ landed' = landed + 1
    /\ UNCHANGED <<row, lockQueue, artifacts, layerA, run, reload, reloads, mishaps>>

\* The process dies: its connections close, a token it has set stays.
Die(r) ==
    /\ run[r].pc \notin {"start", "done", "failed"} /\ mishaps < MaxFaults
    /\ Raise(r)
    /\ mishaps' = mishaps + 1
    /\ UNCHANGED <<row, stored, artifacts, layerA, reload, late, reloads, landed>>

Phase1Init ==
    /\ stored \in FirstGraphs
    /\ row = [state |-> "ready", gen |-> 0, sum |-> stored, token |-> FALSE]
    /\ artifacts = {[by |-> "none", gen |-> 0, facts |-> stored, reads |-> {stored}, lands |-> 0]}
    /\ lockQueue = <<>>
    /\ layerA = [records |-> "none", manifest |-> "none"]
    /\ run = [r \in Runs |-> NoRun]
    /\ reload = NoReload
    /\ late = {} /\ reloads = 0 /\ mishaps = 0 /\ landed = 0

Step1(r) ==
    \/ RunAsks(r) \/ GraphStatus(r) \/ PromoteGraph(r) \/ WriteRecords(r) \/ WriteManifest(r) \/ ReadRow(r)
    \/ BeginPromotion(r) \/ SyncPromotion(r) \/ Measure(r) \/ FinishPromotion(r)
    \/ MarkPromotionFailed(r) \/ PromotionResult(r)
    \/ HoldReady(r) \/ ReadUnderLock(r) \/ WriteSnapshots(r) \/ ProveReload(r)
    \/ ReadBack(r) \/ PostStatus(r) \/ CanaryAlgorithm(r) \/ Die(r)
ReloadStep ==
    \/ ReloadAsks \/ ReloadBegin \/ (\E a \in artifacts : ReloadMarks(a)) \/ ReloadLoads \/ ReloadVerifies
    \/ ReloadPublishes \/ ReloadFails \/ (\E call \in {"drop", "load"} : ReloadTimesOut(call))
    \/ (\E x \in late : LateCallLands(x))
Phase1Next == (\E r \in Runs : Step1(r)) \/ ReloadStep
Phase1Spec == Phase1Init /\ [][Phase1Next]_phase1Vars

Plans == {PlanOf(Selection[r]) : r \in Runs}
Facts == UNION (FirstGraphs \cup Plans)
Rows == [state : {"none", "ready", "failed", "rebuilding"}, gen : Nat, sum : SUBSET Facts, token : BOOLEAN]
Promoting == {"locked", "synced", "finish", "marking"}
Reading == {"channel", "snapshot", "publish"}
BeforeReads ==
    Promoting \cup {"start", "phase0", "layerA", "manifest", "written", "begin", "promoted", "outer", "readback", "status"}
RunSteps == BeforeReads \cup Reading \cup {"algorithm", "proving", "done", "failed"}
RunStates ==
    [pc : RunSteps, seen : Rows, metrics : SUBSET Facts, want : Nat, count : Nat, paths : SUBSET Facts,
     reads : SUBSET SUBSET Facts, last : SUBSET Facts, from : Nat, checked : BOOLEAN]
Snapshots1 ==
    [by : Runs \cup {"none"}, gen : Nat, facts : SUBSET Facts, reads : SUBSET SUBSET Facts, lands : Nat]
ReloadStates ==
    [pc : {"idle", "rebuilding", "loading", "verifying", "readying", "failing"}, from : Snapshots1, seen : Rows]

Phase1TypeOK ==
    /\ row \in Rows /\ stored \subseteq Facts /\ landed \in Nat
    /\ lockQueue \in Seq(Runs \cup {Reloader})
    /\ artifacts \subseteq Snapshots1
    /\ run \in [Runs -> RunStates] /\ \A r \in Runs : run[r].from <= landed
    /\ reload \in ReloadStates
    /\ \A x \in late : x.facts \subseteq Facts

-----------------------------------------------------------------------------
\* What a run publishes was read from one graph: every channel and the snapshot of
\* an artifact (generator.py), whatever lands between the reads, for the checks at
\* both ends see a single late call, not two of which the second undoes the first;
\* both algorithms of a canary (canary.py), which checks nothing at the end, unless a
\* late call landed.
PublishedIsOneGraph ==
    /\ \A a \in artifacts : a.lands < 2 => a.reads = {a.facts}
    /\ \A r \in CanaryRuns : run[r].pc = "done" /\ landed = 0 => \E g \in run[r].reads : run[r].reads = {g}

\* A generation names one graph: artifacts of the same generation, and a ready row of
\* it, have the same facts, across promotions, failures, reloads and late calls
\* (generator.py and prove_cold_reload_artifact compare generations for that), as long
\* as no two late calls landed while one of the artifacts was read.
GenerationNamesOneGraph ==
    (\A a \in artifacts : a.lands < 2) =>
        /\ \A a, b \in artifacts : a.gen = b.gen => a.facts = b.facts
        /\ \A a \in artifacts : row.state = "ready" /\ row.gen = a.gen => row.sum = a.facts

\* Everyone waiting on everyone has one cause: a run inside the outer read of
\* compute_graph_snapshots waits for another shared lock behind a status write.
Stuck == lockQueue # <<>> /\ \A w \in ToSet(lockQueue) : ~Granted(w)
StuckOnlyByNesting ==
    Stuck => \/ \E r \in Holders : Waits(r) /\ \E x \in Before1(r) : Excludes(x)
             \/ \E r \in Runs : run[r].pc \in {"channel", "snapshot", "publish"} /\ ~Waits(r)

\* Phase 1 promotes on the graph that Phase 0 has checked ("Phase 0 graph_status
\* disagrees with runtime Neo4jGraphStatus", phase1.py).
PromotedOnCheckedGraph ==
    \A r \in Phase1Runs : run[r].pc \notin {"start", "phase0", "failed"} => run[r].checked

\* What Phase 1 publishes is one graph, and its generation id names no other.
Phase1Safe == PublishedIsOneGraph /\ GenerationNamesOneGraph
=============================================================================

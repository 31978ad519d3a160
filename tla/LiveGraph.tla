----------------------------- MODULE LiveGraph -----------------------------
(***************************************************************************)
(* graph-engine: the Neo4j live graph, which mirrors the canonical records *)
(* of the data platform, and the one status row in PostgreSQL that gates   *)
(* it.  Promotions add facts under a writer token, a cold reload rebuilds  *)
(* everything, readers hold a shared advisory lock.                        *)
(*                                                                         *)
(* Every status transition is a read of the row, a guard on what was read  *)
(* and a compare-and-set of the whole row under the exclusive advisory     *)
(* lock.  The written row is a function of the row read, so a transition   *)
(* that commits is one step at its commit; one that does not is an         *)
(* exception of its caller.  The counts and the checksum of a row are the  *)
(* set of facts they are computed from.                                    *)
(*                                                                         *)
(* The stages of a reload run in a worker thread.  When one times out the  *)
(* thread goes on: its next call is refused by the write barrier, a call   *)
(* that has passed the barrier is in flight and may land any time later.   *)
(***************************************************************************)
EXTENDS Naturals, FiniteSets

CONSTANTS
    Facts,          \* nodes, edges and assertions
    Promoters,      \* processes in promote_graph_deltas
    Reloaders,      \* processes in cold_reload
    Readers,        \* processes in ready_read
    Mortal,         \* the processes that may die
    MaxGen,         \* bound: graph_generation_id
    MaxFaults       \* bound: timeouts and deaths

ASSUME LiveGraphAssumption ==
    /\ MaxGen \in Nat /\ MaxFaults \in Nat
    /\ Promoters \cap Reloaders = {}

VARIABLES
    status,         \* the row of neo4j_graph_status
    graph,          \* facts in Neo4j
    canonical,      \* facts in the canonical tables
    reading,        \* readers that hold the shared lock in their read body
    ppc, mine, locked, metrics,     \* promoter -> step, its facts, locked_status, live metrics
    rpc, plan,      \* reloader -> step, its ColdReloadPlan
    late,           \* calls in flight whose caller has given up or died
    faults,         \* timeouts and deaths so far
    tainted,        \* history: a late graph write or mark_ready of a reload has landed
    unmarked        \* history: a reload could not mark its failure

promoteVars == <<ppc, mine, locked, metrics>>
reloadVars  == <<rpc, plan>>
vars == <<status, graph, canonical, reading, promoteVars, reloadVars, late, faults,
          tainted, unmarked>>

Gens     == 0..MaxGen
Statuses == [state : {"none", "ready", "rebuilding", "failed"}, gen : Gens,
             sum : SUBSET Facts, token : BOOLEAN]
Plans    == [content : SUBSET Facts, gen : Gens]
Calls    == [by : {"promotion", "reload"}, call : {"drop", "merge", "rebuild", "ready"},
             plan : Plans]
Syncing  == {"locked", "syncing", "mirrored", "measured"}
Staged   == {"planning", "dropping", "loading", "verifying", "readying"}

NoRow  == [state |-> "none", gen |-> 0, sum |-> {}, token |-> FALSE]
NoPlan == [content |-> {}, gen |-> 0]

TypeOK ==
    /\ status \in Statuses
    /\ graph \in SUBSET Facts
    /\ canonical \in SUBSET Facts
    /\ reading \in SUBSET Readers
    /\ ppc \in [Promoters -> {"idle", "checked", "written"} \cup Syncing]
    /\ mine \in [Promoters -> SUBSET Facts]
    /\ locked \in [Promoters -> Statuses]
    /\ metrics \in [Promoters -> SUBSET Facts]
    /\ rpc \in [Reloaders -> {"idle", "marking", "failing"} \cup Staged]
    /\ plan \in [Reloaders -> Plans]
    /\ late \in SUBSET Calls
    /\ faults \in 0..MaxFaults
    /\ tainted \in BOOLEAN
    /\ unmarked \in BOOLEAN

Init ==
    /\ status = NoRow
    /\ graph = {}
    /\ canonical \in SUBSET Facts
    /\ reading = {}
    /\ ppc = [p \in Promoters |-> "idle"]
    /\ mine = [p \in Promoters |-> {}]
    /\ locked = [p \in Promoters |-> NoRow]
    /\ metrics = [p \in Promoters |-> {}]
    /\ rpc = [r \in Reloaders |-> "idle"]
    /\ plan = [r \in Reloaders |-> NoPlan]
    /\ late = {}
    /\ faults = 0
    /\ tainted = FALSE
    /\ unmarked = FALSE

-----------------------------------------------------------------------------
(* GraphStatusManager                                                      *)

RequireReady == status.state = "ready" /\ ~status.token

\* Mutant: status writes do not wait for the readers.
ExclusiveLock_NoWait == TRUE

\* The exclusive advisory lock is granted when no reader holds the shared one.
ExclusiveLock == reading = {}

MayRebuild == ~status.token /\ status.state \in {"none", "ready", "failed"}

Rebuilding == [state |-> "rebuilding", gen |-> status.gen, sum |-> {}, token |-> FALSE]

Failed == [state |-> "failed", gen |-> status.gen, sum |-> {}, token |-> FALSE]

MayPublish(pl) == status.state = "rebuilding" /\ pl.gen >= status.gen

Published(pl) == [state |-> "ready", gen |-> pl.gen, sum |-> pl.content, token |-> FALSE]

\* Mutant: the writer token does not keep a failing reload from marking.
MayFail_AnyToken == status.state \in {"rebuilding", "ready"}

MayFail == ~status.token /\ status.state \in {"rebuilding", "ready"}

-----------------------------------------------------------------------------
(* ready_read                                                              *)

ReadBegin(d) ==
    /\ d \notin reading
    /\ RequireReady
    /\ reading' = reading \cup {d}
    /\ UNCHANGED <<status, graph, canonical, promoteVars, reloadVars, late, faults,
                   tainted, unmarked>>

ReadEnd(d) ==
    /\ d \in reading
    /\ reading' = reading \ {d}
    /\ UNCHANGED <<status, graph, canonical, promoteVars, reloadVars, late, faults,
                   tainted, unmarked>>

-----------------------------------------------------------------------------
(* promote_graph_deltas                                                    *)

PromoteEnds(p) ==
    /\ ppc' = [ppc EXCEPT ![p] = "idle"]
    /\ mine' = [mine EXCEPT ![p] = {}]
    /\ locked' = [locked EXCEPT ![p] = NoRow]
    /\ metrics' = [metrics EXCEPT ![p] = {}]

\* The frozen deltas are planned and the graph is ready.
PromoteStart(p, facts) ==
    /\ ppc[p] = "idle"
    /\ facts # {}
    /\ RequireReady
    /\ ppc' = [ppc EXCEPT ![p] = "checked"]
    /\ mine' = [mine EXCEPT ![p] = facts]
    /\ UNCHANGED <<status, graph, canonical, reading, locked, metrics, reloadVars, late,
                   faults, tainted, unmarked>>

WriteCanonicalRecords(p) ==
    /\ ppc[p] = "checked"
    /\ ppc' = [ppc EXCEPT ![p] = "written"]
    /\ canonical' = canonical \cup mine[p]
    /\ UNCHANGED <<status, graph, reading, mine, locked, metrics, reloadVars, late, faults,
                   tainted, unmarked>>

BeginSync(p) ==
    /\ ppc[p] = "written"
    /\ ExclusiveLock
    /\ RequireReady
    /\ status.gen < MaxGen
    /\ status' = [status EXCEPT !.token = TRUE]
    /\ locked' = [locked EXCEPT ![p] = status']
    /\ ppc' = [ppc EXCEPT ![p] = "locked"]
    /\ UNCHANGED <<graph, canonical, reading, mine, metrics, reloadVars, late, faults,
                   tainted, unmarked>>

\* The canonical write raised, or begin_sync did: not ready, or a stale row.
PromoteRaises(p) ==
    /\ ppc[p] \in {"checked", "written"}
    /\ PromoteEnds(p)
    /\ UNCHANGED <<status, graph, canonical, reading, reloadVars, late, faults, tainted,
                   unmarked>>

\* _require_status_token_unchanged before the sync.
CheckToken(p) ==
    /\ ppc[p] = "locked"
    /\ status = locked[p]
    /\ ppc' = [ppc EXCEPT ![p] = "syncing"]
    /\ UNCHANGED <<status, graph, canonical, reading, mine, locked, metrics, reloadVars,
                   late, faults, tainted, unmarked>>

\* One transaction merges the facts.
SyncLiveGraph(p) ==
    /\ ppc[p] = "syncing"
    /\ graph' = graph \cup mine[p]
    /\ ppc' = [ppc EXCEPT ![p] = "mirrored"]
    /\ UNCHANGED <<status, canonical, reading, mine, locked, metrics, reloadVars, late,
                   faults, tainted, unmarked>>

\* The token still holds after the sync; the metrics of the new status are read.
ReadLiveMetrics(p) ==
    /\ ppc[p] = "mirrored"
    /\ status = locked[p]
    /\ metrics' = [metrics EXCEPT ![p] = graph]
    /\ ppc' = [ppc EXCEPT ![p] = "measured"]
    /\ UNCHANGED <<status, graph, canonical, reading, mine, locked, reloadVars, late,
                   faults, tainted, unmarked>>

FinishSync(p) ==
    /\ ppc[p] = "measured"
    /\ ExclusiveLock
    /\ status = locked[p]
    /\ status' = [state |-> "ready", gen |-> status.gen + 1, sum |-> metrics[p],
                  token |-> FALSE]
    /\ PromoteEnds(p)
    /\ UNCHANGED <<graph, canonical, reading, reloadVars, late, faults, tainted, unmarked>>

\* An exception while the token is held; mark_sync_failed succeeds.
MarkSyncFailed(p) ==
    /\ ppc[p] \in Syncing
    /\ ExclusiveLock
    /\ status = locked[p]
    /\ status' = Failed
    /\ PromoteEnds(p)
    /\ UNCHANGED <<graph, canonical, reading, reloadVars, late, faults, tainted, unmarked>>

\* The same, and mark_sync_failed raises as well.
MarkSyncFailedRaises(p) ==
    /\ ppc[p] \in Syncing
    /\ PromoteEnds(p)
    /\ UNCHANGED <<status, graph, canonical, reading, reloadVars, late, faults, tainted,
                   unmarked>>

-----------------------------------------------------------------------------
(* cold_reload                                                             *)

Goto(r, step) == rpc' = [rpc EXCEPT ![r] = step]

ReloadEnds(r) == Goto(r, "idle") /\ plan' = [plan EXCEPT ![r] = NoPlan]

ReloadStart(r) ==
    /\ rpc[r] = "idle"
    /\ Goto(r, "marking")
    /\ UNCHANGED <<status, graph, canonical, reading, promoteVars, plan, late, faults,
                   tainted, unmarked>>

MarkRebuilding(r) ==
    /\ rpc[r] = "marking"
    /\ ExclusiveLock
    /\ MayRebuild
    /\ status' = Rebuilding
    /\ Goto(r, "planning")
    /\ UNCHANGED <<graph, canonical, reading, promoteVars, plan, late, faults, tainted,
                   unmarked>>

MarkRebuildingRaises(r) ==
    /\ rpc[r] = "marking"
    /\ ReloadEnds(r)
    /\ UNCHANGED <<status, graph, canonical, reading, promoteVars, late, faults, tainted,
                   unmarked>>

\* A snapshot of the canonical tables, of now or of an earlier time.
ReadColdReloadPlan(r, pl) ==
    /\ rpc[r] = "planning"
    /\ pl.content \subseteq canonical
    /\ plan' = [plan EXCEPT ![r] = pl]
    /\ Goto(r, "dropping")
    /\ UNCHANGED <<status, graph, canonical, reading, promoteVars, late, faults, tainted,
                   unmarked>>

DropAll(r) ==
    /\ rpc[r] = "dropping"
    /\ graph' = {}
    /\ Goto(r, "loading")
    /\ UNCHANGED <<status, canonical, reading, promoteVars, plan, late, faults, tainted,
                   unmarked>>

LoadPlan(r) ==
    /\ rpc[r] = "loading"
    /\ graph' = graph \cup plan[r].content
    /\ Goto(r, "verifying")
    /\ UNCHANGED <<status, canonical, reading, promoteVars, plan, late, faults, tainted,
                   unmarked>>

Consistent(r) == graph = plan[r].content

\* Schema and projection are rebuilt and the live metrics are compared.
CheckLiveGraphConsistency(r) ==
    /\ rpc[r] = "verifying"
    /\ Goto(r, IF Consistent(r) THEN "readying" ELSE "failing")
    /\ UNCHANGED <<status, graph, canonical, reading, promoteVars, plan, late, faults,
                   tainted, unmarked>>

MarkReady(r) ==
    /\ rpc[r] = "readying"
    /\ ExclusiveLock
    /\ MayPublish(plan[r])
    /\ status' = Published(plan[r])
    /\ ReloadEnds(r)
    /\ UNCHANGED <<graph, canonical, reading, promoteVars, late, faults, tainted, unmarked>>

StageRaises(r) ==
    /\ rpc[r] \in Staged
    /\ Goto(r, "failing")
    /\ UNCHANGED <<status, graph, canonical, reading, promoteVars, plan, late, faults,
                   tainted, unmarked>>

MarkFailed(r) ==
    /\ rpc[r] = "failing"
    /\ ExclusiveLock
    /\ MayFail
    /\ status' = Failed
    /\ ReloadEnds(r)
    /\ UNCHANGED <<graph, canonical, reading, promoteVars, late, faults, tainted, unmarked>>

\* _mark_failed_safely swallows the exception.
MarkFailedRaises(r) ==
    /\ rpc[r] = "failing"
    /\ ReloadEnds(r)
    /\ unmarked' = TRUE
    /\ UNCHANGED <<status, graph, canonical, reading, promoteVars, late, faults, tainted>>

-----------------------------------------------------------------------------
(* Timeouts, deaths and the calls they leave behind                        *)

\* The call of a stage that may have passed the barrier when the stage ends.
InFlight(r) ==
    LET Call(c) == {[by |-> "reload", call |-> c, plan |-> plan[r]]}
    IN  CASE rpc[r] = "marking"  -> Call("rebuild")
          [] rpc[r] = "dropping" -> Call("drop")
          [] rpc[r] = "loading"  -> Call("merge")
          [] rpc[r] = "readying" -> Call("ready")
          [] OTHER               -> {}

\* Only a reload that has entered rebuilding marks its failure.
StageTimesOut(r, calls) ==
    /\ rpc[r] \in Staged \cup {"marking"}
    /\ faults < MaxFaults
    /\ calls \subseteq InFlight(r)
    /\ late' = late \cup calls
    /\ faults' = faults + 1
    /\ IF rpc[r] = "marking" THEN ReloadEnds(r) ELSE Goto(r, "failing") /\ UNCHANGED plan
    /\ UNCHANGED <<status, graph, canonical, reading, promoteVars, tainted, unmarked>>

ReloaderDies(r, calls) ==
    /\ r \in Mortal
    /\ rpc[r] # "idle"
    /\ faults < MaxFaults
    /\ calls \subseteq InFlight(r)
    /\ late' = late \cup calls
    /\ faults' = faults + 1
    /\ ReloadEnds(r)
    /\ UNCHANGED <<status, graph, canonical, reading, promoteVars, tainted, unmarked>>

\* Neo4j may still commit the transaction of a promoter that died.
SyncInFlight(p) ==
    IF ppc[p] = "syncing"
    THEN {[by |-> "promotion", call |-> "merge", plan |-> [content |-> mine[p], gen |-> 0]]}
    ELSE {}

PromoterDies(p, calls) ==
    /\ p \in Mortal
    /\ ppc[p] # "idle"
    /\ faults < MaxFaults
    /\ calls \subseteq SyncInFlight(p)
    /\ late' = late \cup calls
    /\ faults' = faults + 1
    /\ PromoteEnds(p)
    /\ UNCHANGED <<status, graph, canonical, reading, reloadVars, tainted, unmarked>>

\* What a late call does to the graph.
LateEffect(c) ==
    CASE c.call = "drop"  -> {}
      [] c.call = "merge" -> graph \cup c.plan.content
      [] OTHER            -> graph

LateGraphWrite(c) ==
    /\ c \in late
    /\ c.call \in {"drop", "merge"}
    /\ late' = late \ {c}
    /\ graph' = LateEffect(c)
    /\ tainted' = (tainted \/ c.by = "reload")
    /\ UNCHANGED <<status, canonical, reading, promoteVars, reloadVars, faults, unmarked>>

LateStatusWrite(c) ==
    /\ c \in late
    /\ ExclusiveLock
    /\ late' = late \ {c}
    /\ \/ c.call = "rebuild" /\ MayRebuild /\ status' = Rebuilding
       \/ c.call = "ready" /\ MayPublish(c.plan) /\ status' = Published(c.plan)
    /\ tainted' = (tainted \/ c.call = "ready")
    /\ UNCHANGED <<graph, canonical, reading, promoteVars, reloadVars, faults, unmarked>>

ReadStep(d) == ReadBegin(d) \/ ReadEnd(d)

PromoteStep(p) ==
    \/ WriteCanonicalRecords(p) \/ BeginSync(p) \/ PromoteRaises(p)
    \/ CheckToken(p) \/ SyncLiveGraph(p) \/ ReadLiveMetrics(p) \/ FinishSync(p)
    \/ MarkSyncFailed(p) \/ MarkSyncFailedRaises(p)

ReloadStep(r) ==
    \/ MarkRebuilding(r) \/ MarkRebuildingRaises(r)
    \/ \E pl \in Plans : ReadColdReloadPlan(r, pl)
    \/ DropAll(r) \/ LoadPlan(r) \/ CheckLiveGraphConsistency(r) \/ MarkReady(r)
    \/ StageRaises(r) \/ MarkFailed(r) \/ MarkFailedRaises(r)

Next ==
    \/ \E d \in Readers : ReadStep(d)
    \/ \E p \in Promoters : PromoteStep(p) \/ \E facts \in SUBSET Facts : PromoteStart(p, facts)
    \/ \E r \in Reloaders : ReloadStep(r) \/ ReloadStart(r)
    \/ \E r \in Reloaders : \E calls \in SUBSET InFlight(r) :
            StageTimesOut(r, calls) \/ ReloaderDies(r, calls)
    \/ \E p \in Promoters : \E calls \in SUBSET SyncInFlight(p) : PromoterDies(p, calls)
    \/ \E c \in late : LateGraphWrite(c) \/ LateStatusWrite(c)

Spec == Init /\ [][Next]_vars

\* Processes that do not die go on, reads end, and a late call lands once the
\* status lock is free.
Fairness ==
    /\ \A d \in Readers : WF_vars(ReadEnd(d))
    /\ \A p \in Promoters : WF_vars(PromoteStep(p))
    /\ \A r \in Reloaders : WF_vars(ReloadStep(r))
    /\ WF_vars(\E c \in late : LateGraphWrite(c) \/ LateStatusWrite(c))

FairSpec == Spec /\ Fairness

-----------------------------------------------------------------------------
(* Properties                                                              *)

\* The writer token excludes everyone else: from begin_sync to finish_sync no
\* other process changes the status row, whatever fails, times out or dies, so
\* at most one promotion is writing and its final compare-and-set succeeds.
TokenExcludesOthers ==
    \A p \in Promoters : ppc[p] \in Syncing =>
        /\ status = locked[p]
        /\ \A q \in Promoters \ {p} : ppc[q] \notin Syncing

\* While a reader is in its ready_read body nobody changes the graph under it,
\* except a write of a timed-out or dead reload that lands late.
ReadsUndisturbed == [][reading # {} /\ graph' # graph => tainted']_vars

\* A status that admits readers describes the graph they find: its counts and
\* checksum are those of Neo4j, unless a late call of a reload has landed.
ReadyDescribesGraph == RequireReady => status.sum = graph \/ tainted

\* One writer at a time holds the status row, and a status that says ready
\* describes the graph unless a write of a timed-out reload came late.
LiveSafe == TokenExcludesOthers /\ ReadyDescribesGraph

\* graph_generation_id never moves backwards, and a graph that admits readers
\* before and after a promotion has a new generation.
GenerationForward ==
    [][/\ status'.gen >= status.gen
       /\ status.token /\ RequireReady' => status'.gen > status.gen]_vars

\* tests/unit/test_reload.py:568 says the "timeout barrier must block
\* post-timeout writes before Neo4j" and cold_reload that it publishes "ready
\* status only after verification": a ready graph is the verified one.
ReadyIsVerified == RequireReady => status.sum = graph

\* graph-engine.project-doc.md:725 wants no deviation between Neo4j and Iceberg
\* in the ready state: a promotion that has written its canonical records and
\* ends with the graph ready has mirrored them.
PromotionMirrored ==
    [][\A p \in Promoters :
         ppc[p] = "written" /\ ppc'[p] = "idle" /\ status'.state = "ready"
            => mine[p] \subseteq graph']_vars

\* graph-engine.project-doc.md:719 says a cold reload over its hard timeout has
\* failed: the graph does not stay in rebuilding (a reload that could not mark
\* its failure, which the code logs, apart).
RebuildingEnds == status.state = "rebuilding" ~> (status.state # "rebuilding" \/ unmarked)

=============================================================================

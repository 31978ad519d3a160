-------------------------- MODULE LiveGraphProofs --------------------------
(***************************************************************************)
(* Proofs about LiveGraph: the writer token excludes everyone else, a row  *)
(* that admits readers describes the graph, reads are undisturbed and the  *)
(* generation moves forward, for any number of processes, facts,           *)
(* generations, timeouts and deaths.                                       *)
(***************************************************************************)
EXTENDS LiveGraph, TLAPS

\* Whoever is in a read body is in front of a ready row.
ReadInv == reading # {} => RequireReady

\* The token marks a ready row, and every promotion between begin_sync and
\* finish_sync has it, with room for the next generation.
TokenInv ==
    /\ status.token => status.state = "ready"
    /\ \A p \in Promoters : ppc[p] \in Syncing => status.token /\ status.gen < MaxGen

\* The late merge of a promotion belongs to one that died with the token.
LateInv ==
    \A c \in late : c.by = "promotion" =>
        /\ c.call = "merge"
        /\ status.token
        /\ \A p \in Promoters : ppc[p] \notin Syncing

\* Past mark_rebuilding a reload owns the rebuilding state, alone.
Owning == Staged \cup {"failing"}

RebuildInv ==
    ~tainted => \A r \in Reloaders : rpc[r] \in Owning =>
        /\ status.state = "rebuilding"
        /\ \A q \in Reloaders \ {r} : rpc[q] \notin Owning

\* What was verified or measured is still what the graph holds.
VerifiedInv ==
    ~tainted =>
        /\ \A r \in Reloaders : rpc[r] = "readying" => graph = plan[r].content
        /\ \A p \in Promoters : ppc[p] = "measured" => metrics[p] = graph

GraphInv ==
    /\ TypeOK
    /\ ReadInv
    /\ TokenInv
    /\ TokenExcludesOthers
    /\ LateInv
    /\ RebuildInv
    /\ VerifiedInv
    /\ ReadyDescribesGraph

-----------------------------------------------------------------------------
(* Calls that outlive their caller                                         *)

\* The calls a reload has in flight are calls of a reload.
LEMMA InFlightFacts ==
  ASSUME TypeOK, NEW r \in Reloaders
  PROVE  \A c \in InFlight(r) : c \in Calls /\ c.by = "reload"
  <1>1. plan[r] \in Plans
    BY DEF TypeOK
  <1>2. \A c \in {"drop", "merge", "rebuild", "ready"} :
          [by |-> "reload", call |-> c, plan |-> plan[r]] \in Calls
    BY <1>1 DEF Calls
  <1> QED
    BY <1>2 DEF InFlight

\* The calls a promotion has in flight are merges of a promotion that is
\* syncing.
LEMMA SyncInFlightFacts ==
  ASSUME TypeOK, NEW p \in Promoters
  PROVE  \A c \in SyncInFlight(p) :
            c \in Calls /\ c.by = "promotion" /\ c.call = "merge" /\ ppc[p] = "syncing"
  <1>1. [content |-> mine[p], gen |-> 0] \in Plans
    BY LiveGraphAssumption DEF TypeOK, Plans, Gens
  <1>2. [by |-> "promotion", call |-> "merge", plan |-> [content |-> mine[p], gen |-> 0]]
          \in Calls
    BY <1>1 DEF Calls
  <1> QED
    BY <1>2 DEF SyncInFlight

-----------------------------------------------------------------------------
(* Types                                                                   *)

\* Every status the managers write is a status.
LEMMA RowsTyped ==
  ASSUME TypeOK
  PROVE  /\ NoRow \in Statuses
         /\ Rebuilding \in Statuses
         /\ Failed \in Statuses
         /\ NoPlan \in Plans
         /\ \A pl \in Plans : Published(pl) \in Statuses
         /\ [status EXCEPT !.token = TRUE] \in Statuses
  <1>1. 0 \in Gens
    BY LiveGraphAssumption DEF Gens
  <1>2. status \in [state : {"none", "ready", "rebuilding", "failed"}, gen : Gens,
                    sum : SUBSET Facts, token : BOOLEAN]
    BY DEF TypeOK, Statuses
  <1>3. NoRow \in Statuses /\ NoPlan \in Plans
    BY <1>1 DEF NoRow, NoPlan, Statuses, Plans
  <1>4. Rebuilding \in Statuses /\ Failed \in Statuses
    BY <1>2 DEF Rebuilding, Failed, Statuses
  <1>5. \A pl \in Plans : Published(pl) \in Statuses
    BY DEF Published, Statuses, Plans
  <1>6. [status EXCEPT !.token = TRUE] \in Statuses
    BY <1>2 DEF Statuses
  <1> QED
    BY <1>3, <1>4, <1>5, <1>6

\* Init is well typed.
LEMMA InitTyped ==
  ASSUME Init
  PROVE  TypeOK
  <1>1. NoRow \in Statuses /\ NoPlan \in Plans
    BY LiveGraphAssumption DEF NoRow, NoPlan, Statuses, Plans, Gens
  <1>2. tainted \in BOOLEAN /\ unmarked \in BOOLEAN
    BY Zenon DEF Init
  <1> QED
    BY <1>1, <1>2, LiveGraphAssumption DEF Init, TypeOK, Syncing

\* Every step of a promotion keeps the types.
LEMMA PromoteTyped ==
  ASSUME GraphInv, NEW p \in Promoters,
         PromoteStep(p) \/ \E facts \in SUBSET Facts : PromoteStart(p, facts)
  PROVE  TypeOK'
  <1> USE RowsTyped DEF TypeOK, GraphInv, reloadVars, Syncing
  <1>1. ASSUME NEW facts \in SUBSET Facts, PromoteStart(p, facts) PROVE TypeOK'
    BY <1>1 DEF PromoteStart
  <1>2. CASE WriteCanonicalRecords(p)
    BY <1>2 DEF WriteCanonicalRecords
  <1>3. CASE BeginSync(p)
    BY <1>3 DEF BeginSync
  <1>4. CASE PromoteRaises(p)
    BY <1>4 DEF PromoteRaises, PromoteEnds
  <1>5. CASE CheckToken(p)
    BY <1>5 DEF CheckToken
  <1>6. CASE SyncLiveGraph(p)
    BY <1>6 DEF SyncLiveGraph
  <1>7. CASE ReadLiveMetrics(p)
    BY <1>7 DEF ReadLiveMetrics
  <1>8. CASE FinishSync(p)
    <2>1. status.gen \in Gens /\ status.gen < MaxGen
      BY <1>8 DEF FinishSync, TokenInv, Statuses
    <2>2. status.gen + 1 \in Gens
      BY <2>1, LiveGraphAssumption DEF Gens
    <2>3. status' \in Statuses
      BY <1>8, <2>2 DEF FinishSync, Statuses
    <2> QED
      BY <1>8, <2>3 DEF FinishSync, PromoteEnds
  <1>9. CASE MarkSyncFailed(p)
    BY <1>9 DEF MarkSyncFailed, PromoteEnds
  <1>10. CASE MarkSyncFailedRaises(p)
    BY <1>10 DEF MarkSyncFailedRaises, PromoteEnds
  <1> QED
    BY <1>1, <1>2, <1>3, <1>4, <1>5, <1>6, <1>7, <1>8, <1>9, <1>10 DEF PromoteStep

\* Every step of a reload keeps the types.
LEMMA ReloadTyped ==
  ASSUME GraphInv, NEW r \in Reloaders, ReloadStep(r) \/ ReloadStart(r)
  PROVE  TypeOK'
  <1> USE RowsTyped DEF TypeOK, GraphInv, promoteVars, Staged, Goto, ReloadEnds
  <1>1. CASE ReloadStart(r) \/ MarkRebuilding(r) \/ MarkRebuildingRaises(r)
    BY <1>1 DEF ReloadStart, MarkRebuilding, MarkRebuildingRaises
  <1>2. ASSUME NEW pl \in Plans, ReadColdReloadPlan(r, pl) PROVE TypeOK'
    BY <1>2 DEF ReadColdReloadPlan
  <1>3. CASE DropAll(r)
    BY <1>3 DEF DropAll
  <1>4. CASE LoadPlan(r)
    <2>1. plan[r].content \in SUBSET Facts
      BY DEF Plans
    <2> QED
      BY <1>4, <2>1 DEF LoadPlan
  <1>5. CASE CheckLiveGraphConsistency(r)
    BY <1>5 DEF CheckLiveGraphConsistency
  <1>6. CASE MarkReady(r)
    BY <1>6 DEF MarkReady
  <1>7. CASE StageRaises(r)
    BY <1>7 DEF StageRaises
  <1>8. CASE MarkFailed(r) \/ MarkFailedRaises(r)
    BY <1>8 DEF MarkFailed, MarkFailedRaises
  <1> QED
    BY <1>1, <1>2, <1>3, <1>4, <1>5, <1>6, <1>7, <1>8 DEF ReloadStep

\* A timeout or a death keeps the types.
LEMMA FaultTyped ==
  ASSUME GraphInv,
         \/ \E r \in Reloaders : \E calls \in SUBSET InFlight(r) :
                StageTimesOut(r, calls) \/ ReloaderDies(r, calls)
         \/ \E p \in Promoters : \E calls \in SUBSET SyncInFlight(p) : PromoterDies(p, calls)
  PROVE  TypeOK'
  <1> USE RowsTyped, LiveGraphAssumption DEF TypeOK, GraphInv
  <1>1. ASSUME NEW r \in Reloaders, NEW calls \in SUBSET InFlight(r),
               StageTimesOut(r, calls) \/ ReloaderDies(r, calls)
        PROVE  TypeOK'
    <2>1. late' \in SUBSET Calls /\ faults' \in 0..MaxFaults
      BY <1>1, InFlightFacts DEF StageTimesOut, ReloaderDies
    <2>2. /\ rpc' \in [Reloaders -> {"idle", "marking", "failing"} \cup Staged]
          /\ plan' \in [Reloaders -> Plans]
      BY <1>1 DEF StageTimesOut, ReloaderDies, Goto, ReloadEnds
    <2> QED
      BY <1>1, <2>1, <2>2 DEF StageTimesOut, ReloaderDies, promoteVars
  <1>2. ASSUME NEW p \in Promoters, NEW calls \in SUBSET SyncInFlight(p), PromoterDies(p, calls)
        PROVE  TypeOK'
    <2>1. late' \in SUBSET Calls /\ faults' \in 0..MaxFaults
      BY <1>2, SyncInFlightFacts DEF PromoterDies
    <2> QED
      BY <1>2, <2>1 DEF PromoterDies, PromoteEnds, reloadVars
  <1> QED
    BY <1>1, <1>2

\* A late call that lands keeps the types.
LEMMA LateTyped ==
  ASSUME GraphInv, NEW c \in late, LateGraphWrite(c) \/ LateStatusWrite(c)
  PROVE  TypeOK'
  <1> USE RowsTyped DEF TypeOK, GraphInv
  <1>1. c \in Calls /\ c.plan \in Plans /\ c.plan.content \in SUBSET Facts
    BY DEF Calls, Plans
  <1>2. CASE LateGraphWrite(c)
    <2>1. graph' \in SUBSET Facts
      BY <1>1, <1>2 DEF LateGraphWrite, LateEffect
    <2>2. tainted' \in BOOLEAN
      BY <1>2, Zenon DEF LateGraphWrite
    <2> QED
      BY <1>2, <2>1, <2>2 DEF LateGraphWrite, promoteVars, reloadVars
  <1>3. CASE LateStatusWrite(c)
    <2>1. status' \in Statuses
      BY <1>1, <1>3 DEF LateStatusWrite
    <2>2. tainted' \in BOOLEAN
      BY <1>3, Zenon DEF LateStatusWrite
    <2> QED
      BY <1>3, <2>1, <2>2 DEF LateStatusWrite, promoteVars, reloadVars
  <1> QED
    BY <1>2, <1>3

\* Every step keeps the types.
LEMMA NextTyped ==
  ASSUME GraphInv, [Next]_vars
  PROVE  TypeOK'
  <1>1. ASSUME NEW d \in Readers, ReadStep(d) PROVE TypeOK'
    BY <1>1 DEF GraphInv, TypeOK, ReadStep, ReadBegin, ReadEnd, promoteVars, reloadVars
  <1>2. CASE UNCHANGED vars
    BY <1>2 DEF GraphInv, TypeOK, vars, promoteVars, reloadVars
  <1> QED
    BY <1>1, <1>2, PromoteTyped, ReloadTyped, FaultTyped, LateTyped DEF Next

-----------------------------------------------------------------------------
(* The invariant                                                           *)

\* Init establishes GraphInv.
LEMMA InitInv ==
  ASSUME Init
  PROVE  GraphInv
  <1>1. TypeOK
    BY InitTyped
  <1>2. ~RequireReady /\ ~status.token
    BY DEF Init, NoRow, RequireReady
  <1> QED
    BY <1>1, <1>2 DEF Init, GraphInv, ReadInv, TokenInv, TokenExcludesOthers, LateInv, RebuildInv,
       VerifiedInv, ReadyDescribesGraph, Syncing, Owning, Staged

SafeInv ==
    /\ ReadInv
    /\ TokenInv
    /\ TokenExcludesOthers
    /\ LateInv
    /\ RebuildInv
    /\ VerifiedInv
    /\ ReadyDescribesGraph

\* A step of a ready read keeps the safety part.
LEMMA ReadSafe ==
  ASSUME GraphInv, NEW d \in Readers, ReadStep(d)
  PROVE  SafeInv'
  <1> USE DEF GraphInv, SafeInv, TypeOK, ReadStep, ReadBegin, ReadEnd, promoteVars, reloadVars
  <1>1. ReadInv' /\ ReadyDescribesGraph'
    BY DEF ReadInv, RequireReady, ReadyDescribesGraph
  <1>2. TokenInv' /\ TokenExcludesOthers' /\ LateInv'
    BY DEF TokenInv, TokenExcludesOthers, LateInv
  <1>3. RebuildInv' /\ VerifiedInv'
    BY DEF RebuildInv, VerifiedInv
  <1> QED
    BY <1>1, <1>2, <1>3

\* The part of a promotion before begin_sync, and a promotion that ends
\* without touching the status row, leave the invariant alone.
LEMMA PromoteQuiet ==
  ASSUME GraphInv, NEW p \in Promoters,
         UNCHANGED <<status, graph, reading, reloadVars, late, tainted>>,
         ppc'[p] \notin Syncing,
         \A q \in Promoters \ {p} : ppc'[q] = ppc[q] /\ locked'[q] = locked[q]
                                       /\ metrics'[q] = metrics[q]
  PROVE  SafeInv'
  <1> USE DEF GraphInv, SafeInv, reloadVars
  <1>1. ReadInv' /\ ReadyDescribesGraph'
    BY DEF ReadInv, RequireReady, ReadyDescribesGraph
  <1>2. TokenInv'
    BY DEF TokenInv
  <1>3. TokenExcludesOthers'
    BY DEF TokenExcludesOthers
  <1>4. LateInv'
    BY DEF LateInv
  <1>5. RebuildInv'
    BY DEF RebuildInv
  <1>6. VerifiedInv'
    BY DEF VerifiedInv, Syncing
  <1> QED
    BY <1>1, <1>2, <1>3, <1>4, <1>5, <1>6

\* A step of a promotion keeps the safety part.
LEMMA PromoteSafe ==
  ASSUME GraphInv, NEW p \in Promoters,
         PromoteStep(p) \/ \E facts \in SUBSET Facts : PromoteStart(p, facts)
  PROVE  SafeInv'
  <1> USE DEF GraphInv
  <1>1. ASSUME \/ \E facts \in SUBSET Facts : PromoteStart(p, facts)
               \/ WriteCanonicalRecords(p) \/ PromoteRaises(p) \/ MarkSyncFailedRaises(p)
        PROVE  SafeInv'
    <2>1. /\ UNCHANGED <<status, graph, reading, reloadVars, late, tainted>>
          /\ ppc'[p] \notin Syncing
          /\ \A q \in Promoters \ {p} : ppc'[q] = ppc[q] /\ locked'[q] = locked[q]
                                           /\ metrics'[q] = metrics[q]
      BY <1>1 DEF PromoteStart, WriteCanonicalRecords, PromoteRaises, MarkSyncFailedRaises,
         PromoteEnds, TypeOK, Syncing
    <2> QED
      BY <2>1, PromoteQuiet
  <1>2. CASE BeginSync(p)
    <2> USE <1>2 DEF BeginSync, TypeOK, Statuses
    <2>1. /\ status.state = "ready" /\ ~status.token /\ status.gen < MaxGen /\ reading = {}
          /\ status'.state = "ready" /\ status'.token /\ status'.gen = status.gen
          /\ locked'[p] = status'
      BY DEF RequireReady, ExclusiveLock
    <2>2. \A q \in Promoters : ppc[q] \notin Syncing
      BY <2>1 DEF TokenInv
    <2>3. \A q \in Promoters \ {p} : ppc'[q] \notin Syncing
      BY <2>2
    <2>4. ReadInv' /\ ReadyDescribesGraph'
      BY <2>1 DEF ReadInv, ReadyDescribesGraph, RequireReady
    <2>5. TokenInv' /\ TokenExcludesOthers'
      BY <2>1, <2>3 DEF TokenInv, TokenExcludesOthers
    <2>6. LateInv'
      BY <2>1 DEF LateInv
    <2>7. RebuildInv' /\ VerifiedInv'
      BY <2>1, <2>3 DEF RebuildInv, VerifiedInv, reloadVars, Syncing
    <2> QED
      BY <2>4, <2>5, <2>6, <2>7 DEF SafeInv
  <1>3. CASE CheckToken(p) \/ ReadLiveMetrics(p)
    <2> USE <1>3 DEF CheckToken, ReadLiveMetrics, TypeOK, Syncing
    <2>1. ppc[p] \in Syncing /\ ppc'[p] \in Syncing
      OBVIOUS
    <2>2. ReadInv' /\ ReadyDescribesGraph'
      BY DEF ReadInv, ReadyDescribesGraph, RequireReady
    <2>3. TokenInv' /\ TokenExcludesOthers'
      BY DEF TokenInv, TokenExcludesOthers
    <2>4. LateInv'
      BY <2>1 DEF LateInv
    <2>5. RebuildInv' /\ VerifiedInv'
      BY DEF RebuildInv, VerifiedInv, reloadVars
    <2> QED
      BY <2>2, <2>3, <2>4, <2>5 DEF SafeInv
  <1>4. CASE SyncLiveGraph(p)
    <2> USE <1>4 DEF SyncLiveGraph, TypeOK
    <2>1. status.token /\ status.state = "ready" /\ ppc[p] \in Syncing /\ ppc'[p] = "mirrored"
      BY DEF TokenInv, Syncing
    <2>2. \A q \in Promoters \ {p} : ppc[q] \notin Syncing
      BY <2>1 DEF TokenExcludesOthers
    <2>3. ReadInv' /\ ReadyDescribesGraph'
      BY <2>1 DEF ReadInv, ReadyDescribesGraph, RequireReady
    <2>4. TokenInv' /\ TokenExcludesOthers'
      BY DEF TokenInv, TokenExcludesOthers, Syncing
    <2>5. LateInv'
      BY <2>1 DEF LateInv
    <2>6. RebuildInv' /\ VerifiedInv'
      BY <2>1, <2>2 DEF RebuildInv, VerifiedInv, reloadVars, Syncing, Owning, Staged
    <2> QED
      BY <2>3, <2>4, <2>5, <2>6 DEF SafeInv
  <1>5. CASE FinishSync(p) \/ MarkSyncFailed(p)
    <2> USE <1>5 DEF FinishSync, MarkSyncFailed, PromoteEnds, TypeOK
    <2>1. /\ status.token /\ status.state = "ready" /\ ppc[p] \in Syncing
          /\ reading' = {} /\ ~status'.token /\ ppc'[p] = "idle"
      BY DEF TokenInv, Syncing, ExclusiveLock, Failed
    <2>2. \A q \in Promoters \ {p} : ppc[q] \notin Syncing
      BY <2>1 DEF TokenExcludesOthers
    <2>3. \A q \in Promoters : ppc'[q] \notin Syncing
      BY <2>1, <2>2 DEF Syncing
    <2>4. ReadInv' /\ TokenInv' /\ TokenExcludesOthers'
      BY <2>1, <2>3 DEF ReadInv, TokenInv, TokenExcludesOthers
    <2>5. ReadyDescribesGraph'
      BY <2>1 DEF ReadyDescribesGraph, RequireReady, VerifiedInv, Failed
    <2>6. LateInv'
      BY <2>1 DEF LateInv
    <2>7. RebuildInv' /\ VerifiedInv'
      BY <2>1, <2>3 DEF RebuildInv, VerifiedInv, reloadVars, Syncing, Owning, Staged
    <2> QED
      BY <2>4, <2>5, <2>6, <2>7 DEF SafeInv
  <1> QED
    BY <1>1, <1>2, <1>3, <1>4, <1>5 DEF PromoteStep

\* A reload step that touches neither the row nor the graph, and after which
\* the reload owns the row only if it did before.
LEMMA ReloadQuiet ==
  ASSUME GraphInv, NEW r \in Reloaders,
         UNCHANGED <<status, graph, reading, promoteVars, tainted>>,
         \A c \in late' : c \in late \/ c.by = "reload",
         rpc'[r] \in Owning => rpc[r] \in Owning,
         rpc'[r] = "readying" => graph = plan'[r].content,
         \A q \in Reloaders \ {r} : rpc'[q] = rpc[q] /\ plan'[q] = plan[q]
  PROVE  SafeInv'
  <1> USE DEF GraphInv, SafeInv, promoteVars
  <1>1. ReadInv' /\ ReadyDescribesGraph'
    BY DEF ReadInv, RequireReady, ReadyDescribesGraph
  <1>2. TokenInv' /\ TokenExcludesOthers'
    BY DEF TokenInv, TokenExcludesOthers
  <1>3. LateInv'
    BY DEF LateInv
  <1>4. RebuildInv'
    BY DEF RebuildInv
  <1>5. VerifiedInv'
    BY DEF VerifiedInv
  <1> QED
    BY <1>1, <1>2, <1>3, <1>4, <1>5

\* A reload that owns the row may change the graph: nobody is admitted, no
\* promotion has the token and no other reload has verified anything.
LEMMA ReloadRewrites ==
  ASSUME GraphInv, NEW r \in Reloaders, rpc[r] \in Owning, rpc'[r] \in Owning,
         rpc'[r] # "readying",
         UNCHANGED <<status, reading, promoteVars, plan, late, tainted>>,
         \A q \in Reloaders \ {r} : rpc'[q] = rpc[q]
  PROVE  SafeInv'
  <1> USE DEF GraphInv, SafeInv, promoteVars
  <1>1. ~tainted => /\ status.state = "rebuilding"
                    /\ \A q \in Reloaders \ {r} : rpc[q] \notin Owning
    BY DEF RebuildInv
  <1>2. ReadInv' /\ ReadyDescribesGraph'
    BY <1>1 DEF ReadInv, RequireReady, ReadyDescribesGraph
  <1>3. TokenInv' /\ TokenExcludesOthers' /\ LateInv'
    BY DEF TokenInv, TokenExcludesOthers, LateInv
  <1>4. RebuildInv'
    BY <1>1 DEF RebuildInv
  <1>5. ~tainted => \A p \in Promoters : ppc[p] # "measured"
    BY <1>1 DEF TokenInv, Syncing
  <1>6. VerifiedInv'
    BY <1>1, <1>5 DEF VerifiedInv, Owning, Staged
  <1> QED
    BY <1>2, <1>3, <1>4, <1>6

\* A new row without the token, while no promotion has the token and no
\* reader is admitted.
LEMMA RowReplaced ==
  ASSUME GraphInv, ~status.token, ~status'.token, reading' = {},
         UNCHANGED <<graph, promoteVars>>, late' \subseteq late,
         ~tainted' => ~tainted,
         ~tainted' /\ status'.state = "ready" => status'.sum = graph,
         RebuildInv',
         ~tainted' => \A r \in Reloaders : rpc'[r] = "readying" => graph = plan'[r].content
  PROVE  SafeInv'
  <1> USE DEF GraphInv, SafeInv, promoteVars
  <1>1. \A p \in Promoters : ppc'[p] \notin Syncing
    BY DEF TokenInv
  <1>2. ReadInv' /\ TokenInv' /\ TokenExcludesOthers'
    BY <1>1 DEF ReadInv, TokenInv, TokenExcludesOthers
  <1>3. ReadyDescribesGraph'
    BY DEF ReadyDescribesGraph, RequireReady
  <1>4. LateInv'
    BY DEF LateInv
  <1>5. VerifiedInv'
    BY <1>1 DEF VerifiedInv, Syncing
  <1> QED
    BY <1>2, <1>3, <1>4, <1>5

\* A step of a cold reload keeps the safety part.
LEMMA ReloadSafe ==
  ASSUME GraphInv, NEW r \in Reloaders, ReloadStep(r) \/ ReloadStart(r)
  PROVE  SafeInv'
  <1> USE DEF GraphInv, TypeOK
  <1>1. ASSUME \/ ReloadStart(r) \/ MarkRebuildingRaises(r) \/ StageRaises(r)
               \/ MarkFailedRaises(r) \/ CheckLiveGraphConsistency(r)
               \/ \E pl \in Plans : ReadColdReloadPlan(r, pl)
        PROVE  SafeInv'
    <2> USE <1>1 DEF ReloadStart, MarkRebuildingRaises, StageRaises, MarkFailedRaises,
            CheckLiveGraphConsistency, Consistent, ReadColdReloadPlan, ReloadEnds, Goto
    <2>1. UNCHANGED <<status, graph, reading, promoteVars, late, tainted>>
      OBVIOUS
    <2>2. /\ rpc'[r] \in Owning => rpc[r] \in Owning
          /\ rpc'[r] = "readying" => graph = plan'[r].content
      BY DEF Owning, Staged
    <2>3. \A q \in Reloaders \ {r} : rpc'[q] = rpc[q] /\ plan'[q] = plan[q]
      OBVIOUS
    <2> QED
      BY <2>1, <2>2, <2>3, ReloadQuiet
  <1>2. CASE DropAll(r) \/ LoadPlan(r)
    <2>1. /\ rpc[r] \in Owning /\ rpc'[r] \in Owning /\ rpc'[r] # "readying"
          /\ UNCHANGED <<status, reading, promoteVars, plan, late, tainted>>
          /\ \A q \in Reloaders \ {r} : rpc'[q] = rpc[q]
      BY <1>2 DEF DropAll, LoadPlan, Goto, Owning, Staged
    <2> QED
      BY <2>1, ReloadRewrites
  <1>3. CASE MarkRebuilding(r)
    <2> USE <1>3 DEF MarkRebuilding
    <2>1. /\ ~status.token /\ status.state # "rebuilding" /\ reading' = {}
          /\ ~status'.token /\ status'.state = "rebuilding"
          /\ UNCHANGED <<graph, promoteVars, plan, late, tainted>>
      BY DEF MayRebuild, ExclusiveLock, Rebuilding
    <2>2. rpc'[r] = "planning" /\ \A q \in Reloaders \ {r} : rpc'[q] = rpc[q]
      BY DEF Goto, Staged
    <2>3. ~tainted => \A q \in Reloaders : rpc[q] \notin Owning
      BY <2>1 DEF RebuildInv
    <2>4. RebuildInv'
      BY <2>1, <2>2, <2>3 DEF RebuildInv
    <2>5. ~tainted => \A q \in Reloaders : rpc'[q] # "readying"
      BY <2>2, <2>3 DEF Owning, Staged
    <2> QED
      BY <2>1, <2>4, <2>5, RowReplaced
  <1>4. CASE MarkReady(r) \/ MarkFailed(r)
    <2> USE <1>4 DEF MarkReady, MarkFailed
    <2>1. rpc[r] \in Owning /\ rpc'[r] = "idle" /\ \A q \in Reloaders \ {r} : rpc'[q] = rpc[q]
      BY DEF Goto, ReloadEnds, Owning, Staged
    <2>2. ~tainted => \A q \in Reloaders : rpc'[q] \notin Owning
      BY <2>1 DEF RebuildInv, Owning, Staged
    <2>3. /\ ~status.token /\ ~status'.token /\ reading' = {}
          /\ UNCHANGED <<graph, promoteVars, late, tainted>>
      BY DEF MayPublish, MayFail, ExclusiveLock, Published, Failed, TokenInv
    <2>4. ~tainted /\ status'.state = "ready" => status'.sum = graph
      BY DEF Published, Failed, VerifiedInv
    <2>5. RebuildInv'
      BY <2>2, <2>3 DEF RebuildInv
    <2>6. ~tainted => \A q \in Reloaders : rpc'[q] # "readying"
      BY <2>2 DEF Owning, Staged
    <2> QED
      BY <2>3, <2>4, <2>5, <2>6, RowReplaced
  <1> QED
    BY <1>1, <1>2, <1>3, <1>4 DEF ReloadStep

\* A timeout or a death keeps the safety part.
LEMMA FaultSafe ==
  ASSUME GraphInv,
         \/ \E r \in Reloaders : \E calls \in SUBSET InFlight(r) :
                StageTimesOut(r, calls) \/ ReloaderDies(r, calls)
         \/ \E p \in Promoters : \E calls \in SUBSET SyncInFlight(p) : PromoterDies(p, calls)
  PROVE  SafeInv'
  <1> USE DEF GraphInv
  <1>1. ASSUME NEW r \in Reloaders, NEW calls \in SUBSET InFlight(r),
               StageTimesOut(r, calls) \/ ReloaderDies(r, calls)
        PROVE  SafeInv'
    <2> USE <1>1 DEF StageTimesOut, ReloaderDies
    <2>1. \A c \in late' : c \in late \/ c.by = "reload"
      BY InFlightFacts
    <2>2. /\ rpc'[r] \in Owning => rpc[r] \in Owning
          /\ rpc'[r] # "readying"
          /\ \A q \in Reloaders \ {r} : rpc'[q] = rpc[q] /\ plan'[q] = plan[q]
      BY DEF Goto, ReloadEnds, Owning, Staged, TypeOK
    <2> QED
      BY <2>1, <2>2, ReloadQuiet
  <1>2. ASSUME NEW p \in Promoters, NEW calls \in SUBSET SyncInFlight(p), PromoterDies(p, calls)
        PROVE  SafeInv'
    <2> USE <1>2 DEF PromoterDies, PromoteEnds, TypeOK, reloadVars
    <2>1. ppc'[p] = "idle" /\ \A q \in Promoters \ {p} :
             ppc'[q] = ppc[q] /\ locked'[q] = locked[q] /\ metrics'[q] = metrics[q]
      OBVIOUS
    <2>2. LateInv'
      <3>1. \A c \in calls : /\ c.call = "merge" /\ status.token
                             /\ \A q \in Promoters \ {p} : ppc[q] \notin Syncing
        BY SyncInFlightFacts DEF TokenInv, TokenExcludesOthers, Syncing
      <3> QED
        BY <2>1, <3>1 DEF LateInv, Syncing
    <2>3. ReadInv' /\ ReadyDescribesGraph'
      BY DEF ReadInv, RequireReady, ReadyDescribesGraph
    <2>4. TokenInv' /\ TokenExcludesOthers'
      BY <2>1 DEF TokenInv, TokenExcludesOthers, Syncing
    <2>5. RebuildInv' /\ VerifiedInv'
      BY <2>1 DEF RebuildInv, VerifiedInv
    <2> QED
      BY <2>2, <2>3, <2>4, <2>5 DEF SafeInv
  <1> QED
    BY <1>1, <1>2

\* A late call that lands keeps the safety part.
LEMMA LateSafe ==
  ASSUME GraphInv, NEW c \in late, LateGraphWrite(c) \/ LateStatusWrite(c)
  PROVE  SafeInv'
  <1> USE DEF GraphInv
  <1>1. CASE LateGraphWrite(c)
    <2> USE <1>1 DEF LateGraphWrite, promoteVars, reloadVars
    <2>1. ReadInv' /\ TokenInv' /\ TokenExcludesOthers' /\ LateInv'
      BY DEF ReadInv, RequireReady, TokenInv, TokenExcludesOthers, LateInv
    <2>2. c.by \in {"promotion", "reload"}
      BY DEF TypeOK, Calls
    <2>3. ~tainted' => /\ ~tainted /\ status.token /\ status.state = "ready"
                       /\ \A p \in Promoters : ppc[p] \notin Syncing
      BY <2>2 DEF LateInv, TokenInv
    <2>4. ReadyDescribesGraph' /\ RebuildInv'
      BY <2>3 DEF ReadyDescribesGraph, RequireReady, RebuildInv
    <2>5. VerifiedInv'
      BY <2>3 DEF VerifiedInv, RebuildInv, Syncing, Owning, Staged
    <2> QED
      BY <2>1, <2>4, <2>5 DEF SafeInv
  <1>2. CASE LateStatusWrite(c)
    <2> USE <1>2 DEF LateStatusWrite
    <2>1. /\ ~status.token /\ ~status'.token /\ reading' = {}
          /\ UNCHANGED <<graph, promoteVars, reloadVars>> /\ late' \subseteq late
      BY DEF MayRebuild, MayPublish, Rebuilding, Published, TokenInv, ExclusiveLock
    <2>2. ~tainted' => /\ ~tainted
                       /\ status.state # "rebuilding" /\ status'.state = "rebuilding"
      <3>1. ~tainted' => ~tainted /\ c.call # "ready"
        BY Zenon
      <3>2. c.call # "ready" => MayRebuild /\ status' = Rebuilding
        BY Zenon
      <3> QED
        BY <3>1, <3>2 DEF MayRebuild, Rebuilding
    <2>3. RebuildInv'
      BY <2>1, <2>2 DEF RebuildInv, reloadVars
    <2>4. ~tainted' => \A r \in Reloaders : rpc'[r] = "readying" => graph = plan'[r].content
      BY <2>1, <2>2 DEF VerifiedInv, reloadVars
    <2> QED
      BY <2>1, <2>2, <2>3, <2>4, RowReplaced
  <1> QED
    BY <1>1, <1>2

\* Every step keeps GraphInv.
LEMMA StepInv ==
  ASSUME GraphInv, [Next]_vars
  PROVE  GraphInv'
  <1>1. TypeOK'
    BY NextTyped
  <1>2. CASE UNCHANGED vars
    BY <1>2 DEF vars, promoteVars, reloadVars, GraphInv, SafeInv, TypeOK, ReadInv, TokenInv,
       TokenExcludesOthers, LateInv, RebuildInv, VerifiedInv, ReadyDescribesGraph, RequireReady
  <1>3. CASE Next
    <2>1. SafeInv'
      BY <1>3, ReadSafe, PromoteSafe, ReloadSafe, FaultSafe, LateSafe DEF Next
    <2> QED
      BY <1>1, <2>1 DEF GraphInv, SafeInv
  <1> QED
    BY <1>2, <1>3

-----------------------------------------------------------------------------
(* Theorems                                                                *)

\* Every reachable state of the graph engine satisfies the inductive invariant:
\* the status guards of GraphStatusManager are enough to maintain it.
THEOREM InvariantHolds == Spec => []GraphInv
  <1>1. Init => GraphInv
    BY InitInv
  <1>2. GraphInv /\ [Next]_vars => GraphInv'
    BY StepInv
  <1> QED
    BY <1>1, <1>2, PTL DEF Spec

\* The state of the graph engine is well typed.
THEOREM GraphTypeCorrect == Spec => []TypeOK
  <1>1. GraphInv => TypeOK
    BY DEF GraphInv
  <1> QED
    BY <1>1, InvariantHolds, PTL

\* From begin_sync to finish_sync nobody else changes the status row and no
\* other promotion is writing, whatever times out or dies.
THEOREM WriterIsAlone == Spec => []TokenExcludesOthers
  <1>1. GraphInv => TokenExcludesOthers
    BY DEF GraphInv
  <1> QED
    BY <1>1, InvariantHolds, PTL

\* A row that admits readers describes the graph, unless a late call of a
\* reload has landed.
THEOREM ReadyIsTrue == Spec => []ReadyDescribesGraph
  <1>1. GraphInv => ReadyDescribesGraph
    BY DEF GraphInv
  <1> QED
    BY <1>1, InvariantHolds, PTL

\* One writer at a time, and a status that is true of the graph it admits readers
\* to.
THEOREM LiveIsSafe == Spec => []LiveSafe
  BY WriterIsAlone, ReadyIsTrue, PTL DEF LiveSafe

\* No step changes the graph under a reader, except a late write of a reload.
THEOREM ReadersSeeOneGraph == Spec => ReadsUndisturbed
  <1>1. ASSUME GraphInv, [Next]_vars PROVE reading # {} /\ graph' # graph => tainted'
    <2> SUFFICES ASSUME reading # {}, graph' # graph PROVE tainted'
      OBVIOUS
    <2> USE <1>1 DEF GraphInv
    <2>1. ~status.token /\ status.state = "ready"
      BY DEF ReadInv, RequireReady
    <2>2. \A p \in Promoters : ~SyncLiveGraph(p)
      BY <2>1 DEF SyncLiveGraph, TokenInv, Syncing
    <2>3. ASSUME NEW r \in Reloaders, DropAll(r) \/ LoadPlan(r) PROVE tainted'
      BY <2>1, <2>3 DEF DropAll, LoadPlan, RebuildInv, Owning, Staged
    <2>4. ASSUME NEW c \in late, LateGraphWrite(c) PROVE tainted'
      <3>1. c.by = "reload"
        BY <2>1 DEF LateInv, TypeOK, Calls
      <3> QED
        BY <2>4, <3>1, Zenon DEF LateGraphWrite
    <2>5. \/ \E p \in Promoters : SyncLiveGraph(p)
          \/ \E r \in Reloaders : DropAll(r) \/ LoadPlan(r)
          \/ \E c \in late : LateGraphWrite(c)
      BY <1>1 DEF Next, vars, ReadStep, PromoteStep, ReloadStep, ReadBegin, ReadEnd,
         PromoteStart, WriteCanonicalRecords, BeginSync, PromoteRaises, CheckToken,
         ReadLiveMetrics, FinishSync, MarkSyncFailed, MarkSyncFailedRaises, ReloadStart,
         MarkRebuilding, MarkRebuildingRaises, ReadColdReloadPlan, CheckLiveGraphConsistency,
         MarkReady, StageRaises, MarkFailed, MarkFailedRaises, StageTimesOut, ReloaderDies,
         PromoterDies, LateStatusWrite
    <2> QED
      BY <2>2, <2>3, <2>4, <2>5
  <1> QED
    BY <1>1, InvariantHolds, PTL DEF Spec, ReadsUndisturbed

\* graph_generation_id never moves backwards and grows with every promotion.
THEOREM GenerationsGrow == Spec => GenerationForward
  <1> DEFINE Forward == /\ status'.gen >= status.gen
                        /\ status.token /\ RequireReady' => status'.gen > status.gen
  <1>1. ASSUME GraphInv, [Next]_vars PROVE Forward
    <2> USE <1>1 DEF GraphInv
    <2>1. status.gen \in Nat
      BY LiveGraphAssumption DEF TypeOK, Statuses, Gens
    <2>2. CASE status' = status
      BY <2>1, <2>2 DEF RequireReady
    <2>3. ASSUME NEW p \in Promoters, BeginSync(p) PROVE Forward
      BY <2>1, <2>3 DEF BeginSync, RequireReady, TypeOK, Statuses
    <2>4. ASSUME NEW p \in Promoters, FinishSync(p) PROVE Forward
      BY <2>1, <2>4 DEF FinishSync
    <2>5. CASE status' = Failed \/ status' = Rebuilding
      BY <2>1, <2>5 DEF Failed, Rebuilding, RequireReady
    <2>6. ASSUME NEW pl \in Plans, MayPublish(pl), status' = Published(pl) PROVE Forward
      <3>1. pl.gen \in Nat /\ ~status.token
        BY <2>6, LiveGraphAssumption DEF Plans, Gens, TokenInv, MayPublish
      <3> QED
        BY <2>1, <2>6, <3>1 DEF MayPublish, Published
    <2>7. \A r \in Reloaders : plan[r] \in Plans
      BY DEF TypeOK
    <2>8. \A c \in late : c.plan \in Plans
      BY DEF TypeOK, Calls
    <2>9. \/ status' = status \/ status' = Failed \/ status' = Rebuilding
          \/ \E p \in Promoters : BeginSync(p) \/ FinishSync(p)
          \/ \E pl \in Plans : MayPublish(pl) /\ status' = Published(pl)
      BY <1>1, <2>7, <2>8 DEF Next, vars, ReadStep, PromoteStep, ReloadStep, ReadBegin, ReadEnd,
         PromoteStart, WriteCanonicalRecords, PromoteRaises, CheckToken, SyncLiveGraph,
         ReadLiveMetrics, MarkSyncFailed, MarkSyncFailedRaises, ReloadStart,
         MarkRebuilding, MarkRebuildingRaises, ReadColdReloadPlan, CheckLiveGraphConsistency,
         DropAll, LoadPlan, MarkReady, StageRaises, MarkFailed, MarkFailedRaises, StageTimesOut,
         ReloaderDies, PromoterDies, LateGraphWrite, LateStatusWrite
    <2> QED
      BY <2>2, <2>3, <2>4, <2>5, <2>6, <2>9
  <1> QED
    BY <1>1, InvariantHolds, PTL DEF Spec, GenerationForward

=============================================================================

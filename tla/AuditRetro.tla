----------------------------- MODULE AuditRetro -----------------------------
(***************************************************************************)
(* audit-eval: the audit and replay rows of a cycle (audit/writer.py,      *)
(* audit/storage.py), their replay (audit/query.py), and what evaluates a  *)
(* cycle once the market has answered: the hook of retro/hook.py, which    *)
(* appends evaluations one at a time and its statuses at the end, and the  *)
(* backfill of retro/backfill.py, which writes what is missing by id.      *)
(* Both may run at any time, fail half-way and be run again.               *)
(*                                                                         *)
(* Cycles, objects, ids and horizons are numbers; a cycle is its date.  A  *)
(* row is its whole payload.  A deviation is kept as the alert score, the  *)
(* larger of the two.                                                      *)
(***************************************************************************)
EXTENDS Integers, FiniteSetsExt

CONSTANTS
    Workers,        \* processes that evaluate
    Bundles,        \* bundles a cycle may submit: [audits, replays]
    ManifestOf,     \* cycle -> object -> snapshot, as published
    RetroTargets,   \* <<cycle, object>> pairs the input gateway lists
    HookRequests,   \* [cycle, ids, objects, horizons, gateways]
    BackfillRequests,   \* [cycle, object, horizons], object 0 for all
    Outcomes,       \* realized scores
    Dates,          \* the days on which time is looked at
    MaxRows, MaxRetroJobs

AuditUniverse == UNION {b.audits : b \in Bundles}
ReplayUniverse == UNION {b.replays : b \in Bundles}

ASSUME RetroAssumption ==
    /\ \A b \in Bundles : IsFiniteSet(b.audits) /\ IsFiniteSet(b.replays)
    /\ \A a \in AuditUniverse : a.seed \in Int
    /\ \A r \in ReplayUniverse : r.id \in Nat
    /\ \A c \in DOMAIN ManifestOf : DOMAIN ManifestOf[c] \subseteq Nat
    /\ RetroTargets \subseteq Nat \X Nat
    /\ \A q \in HookRequests : /\ q.cycle \in Nat /\ q.ids \subseteq Nat
                               /\ q.objects \subseteq Nat /\ q.horizons \subseteq Nat
    /\ \A q \in BackfillRequests : q.cycle \in Nat /\ q.horizons \subseteq Nat
    /\ Outcomes \subseteq Int
    /\ Dates \subseteq Nat /\ Dates # {}

VARIABLES
    audits, replays,    \* stored rows
    manifests,          \* cycles that are published
    today,
    evaluations,        \* rows of the evaluation storage, each with the write that stored it
    writes,             \* writes to the evaluation storage so far
    statuses,           \* rows of the hook's status storage
    work,               \* worker -> its job
    jobs,               \* jobs started
    loose               \* history: replay rows persisted by themselves

retroVars == <<audits, replays, manifests, today, evaluations, writes, statuses, work, jobs, loose>>

NoScore == -1
NoAsk == [cycle |-> 0]
NoWork == [kind |-> "none", pc |-> "idle", request |-> NoAsk, ask |-> {}, todo |-> {}, found |-> {}, marks |-> {},
           made |-> {}, complete |-> FALSE, job |-> 0, asOf |-> 0]
Gateways == {"formal", "dagster", "graph", "storage", "outcome"}
----------------------------------------------------------------------------
(* Writing the rows of a cycle *)

\* AuditWriteBundle: ids are unique, one cycle, one replay row for an object,
\* the manifest of the bundle, which may be that of another cycle, in all of
\* them, and every audit row a replay row names is in the bundle.
BundleValid(b) ==
    /\ \A x, y \in b.audits : x.id = y.id => x = y
    /\ \A x, y \in b.replays : x.id = y.id \/ x.object = y.object => x = y
    /\ b.audits \cup b.replays # {} /\ \A x, y \in b.audits \cup b.replays : x.cycle = y.cycle
    /\ \A r \in b.replays : r.manifest = b.manifest /\ r.audits \subseteq {x.id : x \in b.audits}

\* A row that is there already must be the same row.
Conflict(table, rows) == \E x \in table, y \in rows : x.id = y.id /\ x # y

PersistAudits(b) ==
    /\ BundleValid(b) /\ ~Conflict(audits, b.audits) /\ Cardinality(audits) < MaxRows
    /\ audits' = audits \cup b.audits
    /\ UNCHANGED <<replays, manifests, today, evaluations, writes, statuses, work, jobs, loose>>

\* Checked against the bundle, not against the rows that are stored.
PersistReplays(b) ==
    /\ BundleValid(b) /\ ~Conflict(replays, b.replays) /\ Cardinality(replays) < MaxRows
    /\ replays' = replays \cup b.replays
    /\ loose' = loose \cup (b.replays \ replays)
    /\ UNCHANGED <<audits, manifests, today, evaluations, writes, statuses, work, jobs>>

\* Both tables in one transaction: a conflict in either keeps both as they were.
BundleKeepsReplays(b) == ~Conflict(replays, b.replays)
BundleCommits(b) == ~Conflict(audits, b.audits) /\ ~Conflict(replays, b.replays)

PersistBundle(b) ==
    /\ BundleValid(b) /\ BundleCommits(b) /\ Cardinality(audits) < MaxRows /\ Cardinality(replays) < MaxRows
    /\ audits' = IF Conflict(audits, b.audits) THEN audits ELSE audits \cup b.audits
    /\ replays' = replays \cup b.replays
    /\ UNCHANGED <<manifests, today, evaluations, writes, statuses, work, jobs, loose>>

PublishManifest(cycle) ==
    /\ cycle \notin manifests
    /\ manifests' = manifests \cup {cycle}
    /\ UNCHANGED <<audits, replays, today, evaluations, writes, statuses, work, jobs, loose>>

Tick ==
    /\ \E d \in Dates : d > today /\ today' = Min({x \in Dates : x > today})
    /\ UNCHANGED <<audits, replays, manifests, evaluations, writes, statuses, work, jobs, loose>>
----------------------------------------------------------------------------
(* Reading them back *)

ReplayRows(cycle, object) == {r \in replays : r.cycle = cycle /\ r.object = object}

AuditRows(ids) == {a \in audits : a.id \in ids}

\* The snapshots a replay row names are the published ones.
ManifestBinds(r) ==
    /\ r.manifest \in manifests
    /\ r.object \in DOMAIN r.refs
    /\ \A o \in DOMAIN r.refs : o \in DOMAIN ManifestOf[r.manifest] /\ ManifestOf[r.manifest][o] = r.refs[o]

\* The audit rows a replay row names are there and of its cycle.
AuditsBind(r) ==
    /\ r.audits \subseteq {a.id : a \in audits}
    /\ \A a \in AuditRows(r.audits) : a.cycle = r.cycle

\* replay_cycle_object succeeds: a single replay row, bound to the manifest
\* and to its audit rows, with the run's summary and its graph at hand.
Replayable(cycle, object, gateways) ==
    LET rows == ReplayRows(cycle, object)
    IN  /\ Cardinality(rows) = 1
        /\ \A r \in rows : /\ ManifestBinds(r) /\ AuditsBind(r)
                           /\ {"formal", "dagster"} \subseteq gateways
                           /\ r.graph => "graph" \in gateways

\* extract_retrospective_seed: what the audit rows of the object agree on.
SeedsOf(r) == {a.seed : a \in {x \in AuditRows(r.audits) : x.object = r.object /\ x.seed # NoScore}}

Deviation(seed, outcome) == IF seed > outcome THEN seed - outcome ELSE outcome - seed

Mature(date, horizon, asOf) == date + horizon <= asOf

EvaluationId(cycle, object, horizon) == <<cycle, object, horizon>>

\* The score compute_retrospective gives a target, as a set: empty when the
\* replay fails or its audit rows hold no seed or two.
Computed(cycle, object, outcome, gateways) ==
    IF ~Replayable(cycle, object, gateways) THEN {}
    ELSE LET seeds == UNION {SeedsOf(r) : r \in ReplayRows(cycle, object)}
         IN  IF Cardinality(seeds) = 1 THEN {Deviation(s, outcome) : s \in seeds} ELSE {}
----------------------------------------------------------------------------
(* Jobs *)

Pairs == Nat \X Nat

JobSteps == {"idle", "manifest", "replays", "evaluate", "existing", "compute", "report", "done", "failed"}

\* ask: what a hook has still to look up; todo: what is to be evaluated, with a
\* horizon; marks, made: what has become of it, for a hook and for a backfill.
Jobs ==
    [kind : {"none", "hook", "backfill"},
     pc : JobSteps,
     request : HookRequests \cup BackfillRequests \cup {NoAsk},
     ask : SUBSET Nat, todo : SUBSET Pairs, found : SUBSET ReplayUniverse,
     marks : SUBSET (Pairs \X {"pending", "completed"}), made : SUBSET (Pairs \X Int),
     complete : BOOLEAN, job : Nat, asOf : Nat]

RetroTypeOK ==
    /\ audits \subseteq AuditUniverse /\ replays \subseteq ReplayUniverse /\ loose \subseteq replays
    /\ manifests \subseteq DOMAIN ManifestOf /\ today \in Dates
    /\ \A e \in evaluations : e.at \in 1..writes
    /\ writes \in Nat /\ jobs \in Nat
    /\ work \in [Workers -> Jobs]
    /\ \A w \in Workers : /\ work[w].kind = "hook" => work[w].request \in HookRequests
                          /\ work[w].kind = "backfill" => work[w].request \in BackfillRequests

StartJob(w, kind, pc, q) ==
    /\ work[w].kind = "none" /\ jobs < MaxRetroJobs
    /\ work' = [work EXCEPT ![w] = [NoWork EXCEPT !.kind = kind, !.pc = pc, !.request = q,
                                                  !.job = jobs + 1, !.asOf = today]]
    /\ jobs' = jobs + 1
    /\ UNCHANGED <<audits, replays, manifests, today, evaluations, writes, statuses, loose>>

JobFails(w) == work' = [work EXCEPT ![w].pc = "failed"]

OnlyWork == UNCHANGED <<audits, replays, manifests, today, evaluations, writes, statuses, jobs, loose>>

\* The first of a set of pairs, in the order of the loops.
FirstPair(pairs) == CHOOSE p \in pairs : \A q \in pairs : p[1] < q[1] \/ (p[1] = q[1] /\ p[2] <= q[2])

StartHook(w, q) == StartJob(w, "hook", "manifest", q)

\* The manifest is loaded; replay rows are asked for by id or, without ids, by
\* object, without objects for every object of the manifest.
HookManifest(w) ==
    LET q == work[w].request
    IN  /\ work[w].kind = "hook" /\ work[w].pc = "manifest"
        /\ IF q.cycle \notin manifests THEN JobFails(w)
           ELSE work' = [work EXCEPT ![w].pc = "replays",
                                     ![w].ask = IF q.ids # {} THEN q.ids
                                                ELSE IF q.objects # {} THEN q.objects ELSE DOMAIN ManifestOf[q.cycle]]
        /\ OnlyWork

\* One replay row is looked up; two for the same object are an error.
HookReplay(w) ==
    LET q == work[w].request
        o == Min(work[w].ask)
        rows == IF q.ids # {} THEN {r \in replays : r.id = o} ELSE ReplayRows(q.cycle, o)
    IN  /\ work[w].kind = "hook" /\ work[w].pc = "replays" /\ work[w].ask # {}
        /\ IF Cardinality(rows) # 1 THEN JobFails(w)
           ELSE work' = [work EXCEPT ![w].ask = @ \ {o}, ![w].found = @ \cup rows]
        /\ OnlyWork

\* The lineage holds: replay rows of the cycle and of the objects asked for,
\* bound to the manifest of the cycle and to their audit rows, nothing marked as smoke,
\* fixture or historical.
LineageHolds(found, q) ==
    /\ found # {}
    /\ \A r \in found : /\ r.cycle = q.cycle /\ r.manifest = q.cycle /\ (q.objects # {} => r.object \in q.objects)
                         /\ ManifestBinds(r) /\ AuditsBind(r) /\ ~r.marked
    /\ \A r \in found : \A a \in AuditRows(r.audits) : ~a.marked

HookAudits(w) ==
    /\ work[w].kind = "hook" /\ work[w].pc = "replays" /\ work[w].ask = {}
    /\ IF ~LineageHolds(work[w].found, work[w].request) THEN JobFails(w)
       ELSE work' = [work EXCEPT ![w].pc = "evaluate",
                                 ![w].todo = {r.id : r \in work[w].found} \X work[w].request.horizons]
    /\ OnlyWork

\* _missing_compute_dependencies.
DependenciesMissing(r, gateways) ==
    ~({"formal", "dagster", "storage"} \cup (IF r.graph THEN {"graph"} ELSE {})) \subseteq gateways

Row(found, id) == CHOOSE r \in found : r.id = id

\* The evaluation that a job makes of a replay row and a horizon.
HookId(job, pair) == EvaluationId(job.request.cycle, Row(job.found, pair[1]).object, pair[2])

\* A replay row and a horizon are left pending: not mature, no gateway, no outcome yet, or a
\* dependency is missing.
MarkPending(w, pair) ==
    /\ work' = [work EXCEPT ![w].todo = @ \ {pair}, ![w].marks = @ \cup {<<pair, "pending">>}]
    /\ UNCHANGED <<evaluations, writes>>

\* They are evaluated and the row appended at once.
AppendEvaluation(w, pair, scores) ==
    /\ evaluations' = evaluations \cup
           {[at |-> writes + 1, id |-> HookId(work[w], pair), by |-> work[w].job, kind |-> "hook",
             score |-> CHOOSE s \in scores : TRUE]}
    /\ writes' = writes + 1
    /\ work' = [work EXCEPT ![w].todo = @ \ {pair}, ![w].marks = @ \cup {<<pair, "completed">>}]

EvaluationFails(w) == JobFails(w) /\ UNCHANGED <<evaluations, writes>>

\* What the outcome gateway gives: nothing yet, an error, or a score.
HookEvaluate(w) ==
    LET q == work[w].request
        pair == FirstPair(work[w].todo)
        r == Row(work[w].found, pair[1])
    IN  /\ work[w].kind = "hook" /\ work[w].pc = "evaluate" /\ work[w].todo # {}
        /\ IF ~Mature(q.cycle, pair[2], work[w].asOf) \/ "outcome" \notin q.gateways THEN MarkPending(w, pair)
           ELSE \/ MarkPending(w, pair)
                \/ EvaluationFails(w)
                \/ \E v \in Outcomes :
                     LET scores == Computed(q.cycle, r.object, v, q.gateways)
                     IN  IF DependenciesMissing(r, q.gateways) THEN MarkPending(w, pair)
                         ELSE IF scores = {} THEN EvaluationFails(w)
                         ELSE AppendEvaluation(w, pair, scores)
        /\ UNCHANGED <<audits, replays, manifests, today, statuses, jobs, loose>>

\* All statuses at the end, or none when their storage refuses.
HookRecord(w) ==
    /\ work[w].kind = "hook" /\ work[w].pc = "evaluate" /\ work[w].todo = {}
    /\ \/ /\ statuses' = statuses \cup
                 {[id |-> HookId(work[w], m[1]), state |-> m[2], by |-> work[w].job] : m \in work[w].marks}
          /\ work' = [work EXCEPT ![w].pc = "done"]
       \/ JobFails(w) /\ UNCHANGED statuses
    /\ UNCHANGED <<audits, replays, manifests, today, evaluations, writes, jobs, loose>>
----------------------------------------------------------------------------
(* The backfill *)

\* The targets of a request, for every horizon alike.
TargetsFor(q) == {t \in RetroTargets : t[1] = q.cycle /\ q.object \in {0, t[2]}}

StartBackfill(w, q) ==
    /\ \A h \in q.horizons : Mature(q.cycle, h, today)
    /\ StartJob(w, "backfill", "existing", q)

StoredIds == {e.id : e \in evaluations}

ExpectedIds(q) == {EvaluationId(t[1], t[2], h) : t \in TargetsFor(q), h \in q.horizons}

\* What is stored already is not computed again.
BackfillExisting(w) ==
    LET q == work[w].request
    IN  /\ work[w].kind = "backfill" /\ work[w].pc = "existing"
        /\ IF TargetsFor(q) = {} /\ q.object # 0 THEN JobFails(w)
           ELSE work' = [work EXCEPT ![w].pc = "compute",
                                     ![w].todo = {<<id[2], id[3]>> : id \in ExpectedIds(q) \ StoredIds}]
        /\ OnlyWork

\* The first horizon, and its first object.
NextTarget(todo) == LET p == FirstPair({<<t[2], t[1]>> : t \in todo}) IN <<p[2], p[1]>>

BackfillCompute(w) ==
    LET q == work[w].request
        pair == NextTarget(work[w].todo)
    IN  /\ work[w].kind = "backfill" /\ work[w].pc = "compute" /\ work[w].todo # {}
        /\ \/ JobFails(w)
           \/ \E v \in Outcomes :
                LET scores == Computed(q.cycle, pair[1], v, Gateways)
                IN  IF scores = {} THEN JobFails(w)
                    ELSE work' = [work EXCEPT ![w].todo = @ \ {pair},
                                              ![w].made = @ \cup {<<pair, CHOOSE s \in scores : TRUE>>}]
        /\ OnlyWork

\* The rows that a backfill has computed.
MadeRows(w) ==
    {[at |-> writes + 1, id |-> EvaluationId(work[w].request.cycle, m[1][1], m[1][2]), by |-> work[w].job,
      kind |-> "backfill", score |-> m[2]] : m \in work[w].made}

\* upsert_evaluations_by_id: under the storage's lock, an id that is there by
\* now is skipped.
UpsertedBlindly(rows) == rows
UpsertedRows(rows) == {e \in rows : e.id \notin StoredIds}

BackfillUpsert(w) ==
    /\ work[w].kind = "backfill" /\ work[w].pc = "compute" /\ work[w].todo = {}
    /\ evaluations' = evaluations \cup UpsertedRows(MadeRows(w))
    /\ writes' = writes + 1
    /\ work' = [work EXCEPT ![w].pc = "report"]
    /\ UNCHANGED <<audits, replays, manifests, today, statuses, jobs, loose>>

\* check_horizon_coverage over a second read.
BackfillReport(w) ==
    LET q == work[w].request
        stored == ExpectedIds(q) \cap StoredIds
    IN  /\ work[w].kind = "backfill" /\ work[w].pc = "report"
        /\ work' = [work EXCEPT ![w].pc = "done",
               ![w].complete = \A o \in {t[2] : t \in TargetsFor(q)}, h \in q.horizons :
                                  \E id \in stored : id[2] = o /\ id[3] = h]
        /\ OnlyWork

\* A job that ended is forgotten; one that dies leaves what it has written.
JobGone(w) ==
    /\ work[w].kind # "none"
    /\ work' = [work EXCEPT ![w] = NoWork]
    /\ OnlyWork
----------------------------------------------------------------------------
RetroInit ==
    /\ audits = {} /\ replays = {} /\ manifests = {} /\ today = Min(Dates)
    /\ evaluations = {} /\ writes = 0 /\ statuses = {} /\ loose = {}
    /\ work = [w \in Workers |-> NoWork] /\ jobs = 0

RetroNext ==
    \/ \E b \in Bundles : PersistAudits(b) \/ PersistReplays(b) \/ PersistBundle(b)
    \/ \E cycle \in DOMAIN ManifestOf : PublishManifest(cycle)
    \/ Tick
    \/ \E w \in Workers :
        \/ \E q \in HookRequests : StartHook(w, q)
        \/ \E q \in BackfillRequests : StartBackfill(w, q)
        \/ HookManifest(w) \/ HookReplay(w) \/ HookAudits(w) \/ HookEvaluate(w) \/ HookRecord(w)
        \/ BackfillExisting(w) \/ BackfillCompute(w) \/ BackfillUpsert(w) \/ BackfillReport(w) \/ JobGone(w)

RetroSpec == RetroInit /\ [][RetroNext]_retroVars
----------------------------------------------------------------------------
\* A second row of an evaluation id comes from a hook: two backfills, or a
\* backfill that overlaps a hook, never double an evaluation.
BackfillNeverDoubles ==
    \A x, y \in evaluations : x.id = y.id /\ x # y => x.at # y.at /\ (x.at < y.at => y.kind = "hook")

\* What persist_audit_write_bundle has stored for a published cycle can be
\* replayed from then on; a replay row that cannot was persisted by itself,
\* or has a second replay row of the same object next to it.
ReplayableUnlessDoubled ==
    \A r \in replays \ loose :
        ManifestBinds(r) /\ ~Replayable(r.cycle, r.object, Gateways) => Cardinality(ReplayRows(r.cycle, r.object)) > 1

\* A status says completed only of an evaluation that is stored, by the same
\* hook, and never of one that is not due by now.
CompletedIsStored ==
    \A s \in statuses : s.state = "completed" =>
        \E e \in evaluations : e.id = s.id /\ e.by = s.by /\ Mature(s.id[1], s.id[3], today)

\* Hooks and backfills together: only hooks double an evaluation, and a status
\* says completed only of a stored one.
EvaluationsAreSound == BackfillNeverDoubles /\ CompletedIsStored
=============================================================================

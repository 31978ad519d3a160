---------------------------- MODULE CycleControl ----------------------------
(***************************************************************************)
(* data_platform.cycle: the daily cycle's control rows.  create_cycle      *)
(* opens a cycle, freeze_cycle_candidates moves the accepted candidates    *)
(* into its selection, transition_cycle_status walks it through the phases *)
(* and publish_manifest publishes it.                                      *)
(*                                                                         *)
(* Every operation is one PostgreSQL transaction (READ COMMITTED).  Those  *)
(* whose effect depends on an interleaving (freeze, publish) are sessions  *)
(* with several steps; the others hold the cycle's row lock from their     *)
(* first read to their commit and are one step.  The candidate queue is    *)
(* its abstract specification, which CandidateQueue implements.            *)
(***************************************************************************)
EXTENDS Naturals, FiniteSets

CONSTANTS
    Sessions,       \* concurrent freezes and publishes
    Cycles,         \* cycle ids; naturals, ordered as their dates
    MaxSeq,         \* bound: candidates (ingest_seq 1..MaxSeq)
    Filters,        \* submitted_by / payload_type filters, as sets of candidates
    MaxClock        \* bound: distinct transaction start times of publishes

ASSUME CycleAssumption ==
    /\ Cycles \subseteq Nat \ {0}
    /\ MaxSeq \in Nat
    /\ MaxClock \in Nat \ {0}
    /\ Filters \subseteq SUBSET (1..MaxSeq)

VARIABLES
    queue,          \* candidate_queue: ingest_seq -> validation_status
    cycle,          \* cycle_metadata: cycle -> status
    frozen,         \* cycle_metadata: selection_frozen_at IS NOT NULL
    count,          \* cycle_metadata: candidate_count
    cutoff,         \* cycle_metadata: cutoff_ingest_seq (0: NULL)
    selection,      \* cycle_candidate_selection: set of <<cycle, candidate>>
    manifest,       \* cycle_publish_manifest: cycle -> published_at (0: no row)
    clock,          \* the time now() returns to the next transaction
    pc,             \* session -> where its transaction stands
    target,         \* session -> its cycle (0: none)
    filter,         \* session -> the candidates its filter admits
    snap,           \* session -> candidates the selecting statement can see
    cursor,         \* session -> last candidate the statement considered
    picked,         \* session -> candidates locked and inserted so far
    started,        \* session -> now() of its publish transaction
    boundary,       \* history: cycle -> candidates due to it when its freeze started
    skipped,        \* history: cycle -> candidates another open freeze held
    lastPublished   \* history: the cycle whose publish committed last

metaVars  == <<frozen, count, cutoff, selection>>
freezeVars == <<filter, snap, cursor, picked>>
histVars  == <<boundary, skipped, lastPublished>>
vars == <<queue, cycle, metaVars, manifest, clock, pc, target, freezeVars,
          started, histVars>>

Table == INSTANCE CandidateTable WITH status <- queue

Seqs          == 1..MaxSeq
CycleStatuses == {"pending", "phase0", "phase1", "phase2", "phase3",
                  "published", "failed"}
FreezePcs     == {"locked", "selecting"}

TypeOK ==
    /\ queue \in [Seqs -> {"absent", "pending", "accepted", "rejected"}]
    /\ cycle \in [Cycles -> CycleStatuses \cup {"absent"}]
    /\ frozen \in [Cycles -> BOOLEAN]
    /\ count \in [Cycles -> Nat]
    /\ cutoff \in [Cycles -> 0..MaxSeq]
    /\ selection \in SUBSET (Cycles \X Seqs)
    /\ manifest \in [Cycles -> 0..MaxClock]
    /\ clock \in 1..MaxClock
    /\ pc \in [Sessions -> {"idle", "publishing"} \cup FreezePcs]
    /\ target \in [Sessions -> Cycles \cup {0}]
    /\ filter \in [Sessions -> SUBSET Seqs]
    /\ snap \in [Sessions -> SUBSET Seqs]
    /\ cursor \in [Sessions -> 0..MaxSeq]
    /\ picked \in [Sessions -> SUBSET Seqs]
    /\ started \in [Sessions -> 0..MaxClock]
    /\ boundary \in [Cycles -> SUBSET Seqs]
    /\ skipped \in [Cycles -> SUBSET Seqs]
    /\ lastPublished \in Cycles \cup {0}

Init ==
    /\ queue = [i \in Seqs |-> "absent"]
    /\ cycle = [c \in Cycles |-> "absent"]
    /\ frozen = [c \in Cycles |-> FALSE]
    /\ count = [c \in Cycles |-> 0]
    /\ cutoff = [c \in Cycles |-> 0]
    /\ selection = {}
    /\ manifest = [c \in Cycles |-> 0]
    /\ clock = 1
    /\ pc = [s \in Sessions |-> "idle"]
    /\ target = [s \in Sessions |-> 0]
    /\ filter = [s \in Sessions |-> {}]
    /\ snap = [s \in Sessions |-> {}]
    /\ cursor = [s \in Sessions |-> 0]
    /\ picked = [s \in Sessions |-> {}]
    /\ started = [s \in Sessions |-> 0]
    /\ boundary = [c \in Cycles |-> {}]
    /\ skipped = [c \in Cycles |-> {}]
    /\ lastPublished = 0

Accepted == {i \in Seqs : queue[i] = "accepted"}
SelectedFor(c) == {i \in Seqs : <<c, i>> \in selection}

\* What a freeze with this filter owes its cycle: the accepted candidates that
\* no cycle has consumed.
Due(f) == {i \in f \cap Accepted : \A c \in Cycles : i \notin SelectedFor(c)}

-----------------------------------------------------------------------------
(* PostgreSQL, as the statements of the cycle repository use it.           *)

\* SELECT ... FOR UPDATE on the cycle row, held by an open transaction.
RowHeld(c) == \E t \in Sessions : pc[t] \in FreezePcs /\ target[t] = c

\* FOR UPDATE OF candidate_queue SKIP LOCKED passes over the row.
LockedElsewhere(s, i) == \E t \in Sessions \ {s} : i \in picked[t]

\* Mutant: cycle_candidate_selection has lost UNIQUE (candidate_id).
AlreadySelected_NoConstraint(i) == FALSE

\* UNIQUE (candidate_id) refuses a candidate that another cycle has.
AlreadySelected(i) == \E c \in Cycles : <<c, i>> \in selection

EndTransaction(s) ==
    /\ pc' = [pc EXCEPT ![s] = "idle"]
    /\ target' = [target EXCEPT ![s] = 0]
    /\ filter' = [filter EXCEPT ![s] = {}]
    /\ snap' = [snap EXCEPT ![s] = {}]
    /\ cursor' = [cursor EXCEPT ![s] = 0]
    /\ picked' = [picked EXCEPT ![s] = {}]
    /\ started' = [started EXCEPT ![s] = 0]

-----------------------------------------------------------------------------
\* Candidates arrive and are validated.
QueueStep ==
    /\ Table!Next
    /\ UNCHANGED <<cycle, metaVars, manifest, clock, pc, target, freezeVars,
                   started, histVars>>

\* create_cycle; a cycle that exists raises CycleAlreadyExists instead.
CreateCycle(c) ==
    /\ cycle[c] = "absent"
    /\ cycle' = [cycle EXCEPT ![c] = "pending"]
    /\ UNCHANGED <<queue, metaVars, manifest, clock, pc, target, freezeVars,
                   started, histVars>>

-----------------------------------------------------------------------------
(* freeze_cycle_candidates                                                 *)

\* Mutant: the freeze does not ask whether the cycle is frozen already.
CanFreeze_Always(c) == cycle[c] # "absent"

CanFreeze(c) == cycle[c] = "pending" /\ ~frozen[c]

\* For any other cycle CycleNotFound or CycleAlreadyFrozen is raised and the
\* transaction leaves no trace.
FreezeLock(s, c, f) ==
    /\ pc[s] = "idle"
    /\ ~RowHeld(c)
    /\ CanFreeze(c)
    /\ pc' = [pc EXCEPT ![s] = "locked"]
    /\ target' = [target EXCEPT ![s] = c]
    /\ filter' = [filter EXCEPT ![s] = f]
    /\ UNCHANGED <<queue, cycle, metaVars, manifest, clock, snap, cursor, picked,
                   started, histVars>>

\* The WHERE clause of locked_candidates.
Eligible(s) == {i \in filter[s] : queue[i] = "accepted" /\ ~AlreadySelected(i)}

\* The one INSERT ... SELECT statement starts: its snapshot is the boundary.
FreezeStatement(s) ==
    /\ pc[s] = "locked"
    /\ pc' = [pc EXCEPT ![s] = "selecting"]
    /\ snap' = [snap EXCEPT ![s] = Eligible(s)]
    /\ boundary' = [boundary EXCEPT ![target[s]] = Due(filter[s])]
    /\ skipped' = [skipped EXCEPT ![target[s]] = {}]
    /\ UNCHANGED <<queue, cycle, metaVars, manifest, clock, target, filter, cursor,
                   picked, started, lastPublished>>

Unseen(s) == {i \in snap[s] : i > cursor[s]}

\* The statement reaches its next candidate, in ingest_seq order.
NextCandidate(s, i) ==
    /\ pc[s] = "selecting"
    /\ i \in Unseen(s)
    /\ \A j \in Unseen(s) : i <= j

FreezeSkip(s, i) ==
    /\ NextCandidate(s, i)
    /\ LockedElsewhere(s, i)
    /\ cursor' = [cursor EXCEPT ![s] = i]
    /\ skipped' = [skipped EXCEPT ![target[s]] = @ \cup {i}]
    /\ UNCHANGED <<queue, cycle, metaVars, manifest, clock, pc, target, filter, snap,
                   picked, started, boundary, lastPublished>>

FreezePick(s, i) ==
    /\ NextCandidate(s, i)
    /\ ~LockedElsewhere(s, i)
    /\ ~AlreadySelected(i)
    /\ cursor' = [cursor EXCEPT ![s] = i]
    /\ picked' = [picked EXCEPT ![s] = @ \cup {i}]
    /\ UNCHANGED <<queue, cycle, metaVars, manifest, clock, pc, target, filter, snap,
                   started, histVars>>

\* Another freeze committed the candidate after this statement's snapshot: the
\* insert violates UNIQUE (candidate_id) and the whole freeze rolls back.
FreezeUniqueViolation(s, i) ==
    /\ NextCandidate(s, i)
    /\ ~LockedElsewhere(s, i)
    /\ AlreadySelected(i)
    /\ EndTransaction(s)
    /\ UNCHANGED <<queue, cycle, metaVars, manifest, clock, histVars>>

\* max(ingest_seq) over a set of candidates, NULL for none.
MaxIngestSeq(rows) ==
    IF rows = {} THEN 0 ELSE CHOOSE i \in rows : \A j \in rows : j <= i

\* The rows the inserted CTE returns.
Inserted(s) == picked[s]

FreezeCommit(s) ==
    /\ pc[s] = "selecting"
    /\ Unseen(s) = {}
    /\ selection' = selection \cup {<<target[s], i>> : i \in picked[s]}
    /\ count' = [count EXCEPT ![target[s]] = Cardinality(Inserted(s))]
    /\ cutoff' = [cutoff EXCEPT ![target[s]] = MaxIngestSeq(Inserted(s))]
    /\ frozen' = [frozen EXCEPT ![target[s]] = TRUE]
    /\ cycle' = [cycle EXCEPT ![target[s]] = "phase0"]
    /\ EndTransaction(s)
    /\ UNCHANGED <<queue, manifest, clock, histVars>>

-----------------------------------------------------------------------------
(* transition_cycle_status                                                 *)

ForwardTransitions ==
    {<<"pending", "phase0">>, <<"phase0", "phase1">>,
     <<"phase1", "phase2">>, <<"phase2", "phase3">>}

FailedSources == {"pending", "phase0", "phase1", "phase2", "phase3"}

\* _validate_transition
ValidTransition(from, to) ==
    \/ to = "failed" /\ from \in FailedSources
    \/ <<from, to>> \in ForwardTransitions

\* Every other target raises InvalidCycleTransition and changes nothing.
TransitionCycleStatus(c, to) ==
    /\ ~RowHeld(c)
    /\ ValidTransition(cycle[c], to)
    /\ cycle' = [cycle EXCEPT ![c] = to]
    /\ UNCHANGED <<queue, metaVars, manifest, clock, pc, target, freezeVars,
                   started, histVars>>

-----------------------------------------------------------------------------
(* publish_manifest                                                        *)

\* The transaction starts; published_at DEFAULT now() is the time of its start.
PublishBegin(s, c, now) ==
    /\ pc[s] = "idle"
    /\ now >= clock
    /\ clock' = now
    /\ pc' = [pc EXCEPT ![s] = "publishing"]
    /\ target' = [target EXCEPT ![s] = c]
    /\ started' = [started EXCEPT ![s] = now]
    /\ UNCHANGED <<queue, cycle, metaVars, manifest, freezeVars, histVars>>

CanPublish(c) == cycle[c] = "phase3" /\ manifest[c] = 0

PublishCommit(s) ==
    /\ pc[s] = "publishing"
    /\ ~RowHeld(target[s])
    /\ CanPublish(target[s])
    /\ manifest' = [manifest EXCEPT ![target[s]] = started[s]]
    /\ cycle' = [cycle EXCEPT ![target[s]] = "published"]
    /\ lastPublished' = target[s]
    /\ EndTransaction(s)
    /\ UNCHANGED <<queue, metaVars, clock, boundary, skipped>>

\* PublishManifestNotFound, ManifestAlreadyPublished or InvalidCycleTransition.
PublishRefused(s) ==
    /\ pc[s] = "publishing"
    /\ ~RowHeld(target[s])
    /\ ~CanPublish(target[s])
    /\ EndTransaction(s)
    /\ UNCHANGED <<queue, cycle, metaVars, manifest, clock, histVars>>

-----------------------------------------------------------------------------
\* A database error, or the process dies, before the commit.
Rollback(s) ==
    /\ pc[s] # "idle"
    /\ EndTransaction(s)
    /\ UNCHANGED <<queue, cycle, metaVars, manifest, clock, histVars>>

FreezeStep(s) ==
    \/ \E c \in Cycles, f \in Filters : FreezeLock(s, c, f)
    \/ FreezeStatement(s)
    \/ \E i \in Seqs : FreezeSkip(s, i) \/ FreezePick(s, i) \/ FreezeUniqueViolation(s, i)
    \/ FreezeCommit(s)

PublishStep(s) ==
    \/ \E c \in Cycles, now \in 1..MaxClock : PublishBegin(s, c, now)
    \/ PublishCommit(s)
    \/ PublishRefused(s)

CycleStep(c) ==
    \/ CreateCycle(c)
    \/ \E to \in CycleStatuses : TransitionCycleStatus(c, to)

Next ==
    \/ QueueStep
    \/ \E c \in Cycles : CycleStep(c)
    \/ \E s \in Sessions : FreezeStep(s) \/ PublishStep(s) \/ Rollback(s)

Spec == Init /\ [][Next]_vars

-----------------------------------------------------------------------------
(* Readers                                                                 *)

\* get_latest_publish_manifest: ORDER BY published_at DESC, cycle_id DESC.
LatestPublished ==
    LET published == {c \in Cycles : manifest[c] # 0}
    IN  IF published = {} THEN 0
        ELSE CHOOSE c \in published : \A d \in published :
                \/ manifest[d] < manifest[c]
                \/ manifest[d] = manifest[c] /\ d <= c

-----------------------------------------------------------------------------
(* Properties                                                              *)

\* No candidate is consumed by two cycles, however freezes overlap: locking
\* with SKIP LOCKED is not enough, since a freeze that committed after the
\* statement's snapshot has released its locks.
SelectedOnce ==
    \A p, q \in selection : p[2] = q[2] => p = q

\* candidate_count and cutoff_ingest_seq of a frozen cycle describe exactly the
\* rows of its selection; a cycle that is not frozen has none.
MetadataDescribesSelection ==
    \A c \in Cycles :
        /\ frozen[c] => /\ count[c] = Cardinality(SelectedFor(c))
                        /\ cutoff[c] = MaxIngestSeq(SelectedFor(c))
        /\ ~frozen[c] => SelectedFor(c) = {} /\ count[c] = 0

\* The selection of a frozen cycle is what was due when the freeze statement
\* started, less what an overlapping freeze held: a candidate accepted later is
\* not in it, and no candidate is passed over for any other reason.
SelectionIsBoundary ==
    /\ \A c \in Cycles : frozen[c] =>
         /\ SelectedFor(c) \subseteq boundary[c]
         /\ boundary[c] \ SelectedFor(c) \subseteq skipped[c]
    /\ \A p \in selection : p[2] \in Accepted

\* A cycle has a manifest exactly when its status is published: neither a
\* crash nor a racing transition separates the two.
ManifestIffPublished ==
    \A c \in Cycles : manifest[c] # 0 <=> cycle[c] = "published"

\* However freezes, publishes and transitions of cycles overlap: a candidate is
\* frozen into one cycle, the metadata of a cycle describes the candidates it
\* took, these are the ones the freeze statement saw, and a manifest is there
\* exactly for the published cycles.
CycleSafe == SelectedOnce /\ MetadataDescribesSelection /\ SelectionIsBoundary /\ ManifestIffPublished

\* Once frozen, a cycle's selection and metadata never change, and its status
\* never returns to pending.
FrozenForGood ==
    [][\A c \in Cycles : frozen[c] =>
         /\ frozen'[c] /\ count'[c] = count[c] /\ cutoff'[c] = cutoff[c]
         /\ SelectedFor(c)' = SelectedFor(c)
         /\ cycle'[c] # "pending"]_vars

Rank(st) == CASE st = "absent" -> 0 [] st = "pending" -> 1 [] st = "phase0" -> 2
              [] st = "phase1" -> 3 [] st = "phase2" -> 4 [] st = "phase3" -> 5
              [] st \in {"published", "failed"} -> 6

\* A cycle only moves forward, publishes from phase3 only, and published and
\* failed are final; a manifest is never rewritten.
CycleForward ==
    [][\A c \in Cycles :
         /\ cycle'[c] # cycle[c] => Rank(cycle[c]) < Rank(cycle'[c])
         /\ cycle'[c] = "published" => cycle[c] \in {"phase3", "published"}
         /\ manifest[c] # 0 => manifest'[c] = manifest[c]]_vars

\* data-platform.project-doc.md:510 says get_formal_latest reads the object
\* that was published last; ties of the clock are left to the cycle id.
LatestIsLastPublished ==
    lastPublished # 0 => manifest[LatestPublished] = manifest[lastPublished]

=============================================================================

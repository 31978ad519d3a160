---------------------------- MODULE CycleProofs -----------------------------
(***************************************************************************)
(* Proofs about CycleControl, for every set of sessions, cycles and        *)
(* filters, and about AuditRetro, for every set of jobs, days and bundles; *)
(* and for every bound of both.                                            *)
(***************************************************************************)
EXTENDS CycleControl, AuditRetro, FiniteSetTheorems, WellFoundedInduction, TLAPS

-----------------------------------------------------------------------------
(* The inductive invariant                                                 *)

\* A freeze in progress holds its cycle's row alone, and the cycle is still
\* pending and not frozen.
RowInv ==
    /\ \A s \in Sessions : pc[s] # "idle" => target[s] \in Cycles
    /\ \A s \in Sessions : pc[s] \in FreezePcs => CanFreeze(target[s])
    /\ \A s, t \in Sessions :
         pc[s] \in FreezePcs /\ pc[t] \in FreezePcs /\ s # t => target[s] # target[t]

\* The candidates an open freeze has inserted are accepted, in no committed
\* selection, and in no other open freeze.
PickInv ==
    /\ \A s \in Sessions : pc[s] # "selecting" => picked[s] = {} /\ cursor[s] = 0
    /\ \A s \in Sessions : \A i \in picked[s] :
         queue[i] = "accepted" /\ ~AlreadySelected(i)
    /\ \A s, t \in Sessions : s # t => picked[s] \cap picked[t] = {}

\* How far the selecting statement has come: each candidate of its snapshot up
\* to the cursor is either inserted or was held by another freeze.
ScanInv ==
    \A s \in Sessions : pc[s] = "selecting" =>
        /\ snap[s] = boundary[target[s]]
        /\ \A i \in snap[s] : queue[i] = "accepted"
        /\ picked[s] \subseteq snap[s]
        /\ \A i \in snap[s] : i <= cursor[s] => i \in picked[s] \cup skipped[target[s]]

\* A frozen cycle has left the pending state.
FrozenInv == \A c \in Cycles : frozen[c] => cycle[c] \notin {"absent", "pending"}

\* A publish in progress knows its time.
PublishInv == \A s \in Sessions : pc[s] = "publishing" => started[s] # 0

CycleInv ==
    /\ TypeOK
    /\ RowInv
    /\ PickInv
    /\ ScanInv
    /\ FrozenInv
    /\ PublishInv
    /\ SelectedOnce
    /\ MetadataDescribesSelection
    /\ SelectionIsBoundary
    /\ ManifestIffPublished

-----------------------------------------------------------------------------
(* Type correctness                                                        *)

\* Init is well typed.
LEMMA CycleTypeInit == Init => TypeOK
  BY CycleAssumption DEF Init, TypeOK, Seqs, CycleStatuses

\* A session that commits or rolls back is left with well-typed locals.
LEMMA EndTransactionType ==
  ASSUME TypeOK, NEW s \in Sessions, EndTransaction(s)
  PROVE  /\ pc' \in [Sessions -> {"idle", "publishing"} \cup FreezePcs]
         /\ target' \in [Sessions -> Cycles \cup {0}]
         /\ filter' \in [Sessions -> SUBSET Seqs]
         /\ snap' \in [Sessions -> SUBSET Seqs]
         /\ cursor' \in [Sessions -> 0..MaxSeq]
         /\ picked' \in [Sessions -> SUBSET Seqs]
         /\ started' \in [Sessions -> 0..MaxClock]
  BY CycleAssumption DEF TypeOK, EndTransaction

\* A non-empty set of candidates has a largest element.
LEMMA LargestCandidate ==
  ASSUME NEW rows \in SUBSET Seqs, rows # {}
  PROVE  \E i \in rows : \A j \in rows : j <= i
  <1> DEFINE gaps == {MaxSeq - i : i \in rows}
             less == OpToRel(<, Nat)
  <1>1. gaps \subseteq Nat /\ gaps # {}
    <2>1. \A i \in rows : MaxSeq - i \in Nat
      BY CycleAssumption DEF Seqs
    <2>2. PICK k : k \in rows
      OBVIOUS
    <2>3. MaxSeq - k \in gaps
      BY <2>2
    <2> QED
      BY <2>1, <2>3
  <1>2. \A m, n \in Nat : m < n => <<m, n>> \in less
    BY DEF OpToRel
  <1>3. IsWellFoundedOn(less, Nat)
    BY NatLessThanWellFounded
  <1> HIDE DEF gaps, less
  <1>4. PICK g \in gaps : \A h \in gaps : ~(<<h, g>> \in less)
    BY <1>1, <1>3, WFMin, Zenon
  <1>5. PICK i \in rows : g = MaxSeq - i
    BY DEF gaps
  <1>6. \A j \in rows : MaxSeq - j \in gaps
    BY DEF gaps
  <1>7. ASSUME NEW j \in rows PROVE j <= i
    <2>1. ~(MaxSeq - j < MaxSeq - i)
      BY <1>1, <1>2, <1>4, <1>5, <1>6
    <2> QED
      BY <2>1, CycleAssumption DEF Seqs
  <1> QED
    BY <1>7

\* The cutoff of a freeze is a candidate's ingest_seq or NULL.
LEMMA MaxIngestSeqType ==
  ASSUME NEW rows \in SUBSET Seqs
  PROVE  MaxIngestSeq(rows) \in 0..MaxSeq
  <1>1. CASE rows = {}
    BY <1>1, CycleAssumption DEF MaxIngestSeq
  <1>2. CASE rows # {}
    <2>1. \E i \in rows : \A j \in rows : j <= i
      BY <1>2, LargestCandidate
    <2>2. MaxIngestSeq(rows) = CHOOSE i \in rows : \A j \in rows : j <= i
      BY <1>2 DEF MaxIngestSeq
    <2>3. MaxIngestSeq(rows) \in rows
      BY <2>1, <2>2
    <2>4. \A i \in Seqs : i \in 0..MaxSeq
      BY CycleAssumption DEF Seqs
    <2> QED
      BY <2>3, <2>4
  <1> QED
    BY <1>1, <1>2

\* The queue only moves forward: an accepted candidate stays accepted.
LEMMA QueueStepFacts ==
  ASSUME TypeOK, QueueStep
  PROVE  /\ queue' \in [Seqs -> {"absent", "pending", "accepted", "rejected"}]
         /\ \A i \in Seqs : queue[i] = "accepted" => queue'[i] = "accepted"
  <1>1. CASE \E i \in Seqs : Table!Submit(i)
    BY <1>1 DEF TypeOK, Table!Submit
  <1>2. ASSUME NEW batch \in SUBSET Seqs, NEW verdict \in [batch -> Table!Decided],
               Table!Decide(batch, verdict)
        PROVE  /\ queue' \in [Seqs -> {"absent", "pending", "accepted", "rejected"}]
               /\ \A i \in Seqs : queue[i] = "accepted" => queue'[i] = "accepted"
    BY <1>2 DEF TypeOK, Table!Decide, Table!Decided, Table!Seqs, Seqs
  <1> QED
    BY <1>1, <1>2 DEF QueueStep, Table!Next, Table!Seqs, Seqs

\* Every step of cycle control keeps the types.
LEMMA CycleTypeStep == CycleInv /\ [Next]_vars => TypeOK'
  <1> SUFFICES ASSUME CycleInv, [Next]_vars PROVE TypeOK'
    OBVIOUS
  <1> USE CycleAssumption DEF CycleInv
  <1> DEFINE RowsTyped == /\ queue' \in [Seqs -> {"absent", "pending", "accepted", "rejected"}]
                          /\ cycle' \in [Cycles -> CycleStatuses \cup {"absent"}]
                          /\ count' \in [Cycles -> Nat]
                          /\ cutoff' \in [Cycles -> 0..MaxSeq]
                          /\ selection' \in SUBSET (Cycles \X Seqs)
                          /\ manifest' \in [Cycles -> 0..MaxClock]
                          /\ clock' \in 1..MaxClock
             HistoryTyped == /\ boundary' \in [Cycles -> SUBSET Seqs]
                             /\ skipped' \in [Cycles -> SUBSET Seqs]
                             /\ lastPublished' \in Cycles \cup {0}
  <1>1. CASE QueueStep
    BY <1>1, QueueStepFacts DEF QueueStep, TypeOK, metaVars, freezeVars, histVars
  <1>2. ASSUME NEW c \in Cycles, CycleStep(c) PROVE TypeOK'
    BY <1>2 DEF CycleStep, CreateCycle, TransitionCycleStatus, CycleStatuses, TypeOK,
       metaVars, freezeVars, histVars
  <1>3. ASSUME NEW s \in Sessions, NEW c \in Cycles, NEW f \in Filters, FreezeLock(s, c, f)
        PROVE  TypeOK'
    <2>1. f \in SUBSET Seqs
      BY DEF Seqs
    <2> QED
      BY <1>3, <2>1 DEF FreezeLock, TypeOK, FreezePcs, metaVars, histVars
  <1>4. ASSUME NEW s \in Sessions, FreezeStatement(s) PROVE TypeOK'
    <2>1. Eligible(s) \in SUBSET Seqs /\ Due(filter[s]) \in SUBSET Seqs
      BY DEF Eligible, Due, TypeOK, Accepted
    <2> QED
      BY <1>4, <2>1 DEF FreezeStatement, TypeOK, FreezePcs, metaVars, histVars
  <1>5. ASSUME NEW s \in Sessions, NEW i \in Seqs, FreezeSkip(s, i) PROVE TypeOK'
    <2>1. target[s] \in Cycles /\ i \in 0..MaxSeq
      BY <1>5 DEF FreezeSkip, NextCandidate, RowInv, FreezePcs, Seqs
    <2> QED
      BY <1>5, <2>1 DEF FreezeSkip, TypeOK, metaVars
  <1>5a. ASSUME NEW s \in Sessions, NEW i \in Seqs, FreezePick(s, i) PROVE TypeOK'
    <2>1. i \in 0..MaxSeq
      BY DEF Seqs
    <2> QED
      BY <1>5a, <2>1 DEF FreezePick, TypeOK, metaVars, histVars
  <1>6. ASSUME NEW s \in Sessions, FreezeCommit(s) PROVE TypeOK'
    <2>1. Cardinality(picked[s]) \in Nat
      <3>1. IsFiniteSet(1..MaxSeq)
        BY FS_Interval
      <3> QED
        BY <3>1, FS_Subset, FS_CardinalityType DEF TypeOK, Seqs
    <2>2. MaxIngestSeq(picked[s]) \in 0..MaxSeq
      BY MaxIngestSeqType DEF TypeOK
    <2>3. target[s] \in Cycles
      BY <1>6 DEF FreezeCommit, RowInv, FreezePcs
    <2>4. frozen' \in [Cycles -> BOOLEAN]
      BY <1>6, Zenon DEF FreezeCommit, TypeOK
    <2>5. RowsTyped
      BY <1>6, <2>1, <2>2, <2>3 DEF FreezeCommit, Inserted, TypeOK, CycleStatuses
    <2> QED
      BY <1>6, <2>4, <2>5, EndTransactionType DEF FreezeCommit, TypeOK, histVars
  <1>7. ASSUME NEW s \in Sessions, NEW c \in Cycles, NEW now \in 1..MaxClock,
               PublishBegin(s, c, now)
        PROVE  TypeOK'
    BY <1>7 DEF PublishBegin, TypeOK, metaVars, freezeVars, histVars
  <1>8. ASSUME NEW s \in Sessions, PublishCommit(s) PROVE TypeOK'
    <2>1. target[s] \in Cycles
      BY <1>8 DEF PublishCommit, RowInv
    <2>2. RowsTyped /\ HistoryTyped
      BY <1>8, <2>1 DEF PublishCommit, TypeOK, CycleStatuses, metaVars
    <2> QED
      BY <1>8, <2>2, EndTransactionType DEF PublishCommit, TypeOK, metaVars
  <1>9. ASSUME NEW s \in Sessions,
               \/ PublishRefused(s) \/ Rollback(s)
               \/ \E i \in Seqs : FreezeUniqueViolation(s, i)
        PROVE  TypeOK'
    <2>1. EndTransaction(s) /\ UNCHANGED <<queue, cycle, metaVars, manifest, clock, histVars>>
      BY <1>9 DEF PublishRefused, Rollback, FreezeUniqueViolation
    <2> QED
      BY <2>1, EndTransactionType DEF TypeOK, metaVars, histVars
  <1>10. CASE UNCHANGED vars
    BY <1>10 DEF vars, metaVars, freezeVars, histVars, TypeOK
  <1> QED
    BY <1>1, <1>2, <1>3, <1>4, <1>5, <1>5a, <1>6, <1>7, <1>8, <1>9, <1>10
       DEF Next, FreezeStep, PublishStep

-----------------------------------------------------------------------------
(* The invariant is inductive                                              *)

\* Init establishes CycleInv.
LEMMA CycleInit == Init => CycleInv
  <1> SUFFICES ASSUME Init PROVE CycleInv
    OBVIOUS
  <1>1. TypeOK
    BY CycleTypeInit
  <1>2. RowInv /\ PickInv /\ ScanInv /\ PublishInv
    BY DEF Init, RowInv, PickInv, ScanInv, PublishInv, FreezePcs
  <1>3. /\ SelectedOnce /\ MetadataDescribesSelection /\ SelectionIsBoundary
        /\ ManifestIffPublished /\ FrozenInv
    BY DEF Init, FrozenInv, SelectedOnce, MetadataDescribesSelection, SelectionIsBoundary,
       ManifestIffPublished, SelectedFor
  <1> QED
    BY <1>1, <1>2, <1>3 DEF CycleInv

\* The properties of the committed rows only depend on the committed rows.
LEMMA RowsUntouched ==
  ASSUME CycleInv, UNCHANGED <<queue, cycle, metaVars, manifest>>,
         \A c \in Cycles : frozen[c] => boundary'[c] = boundary[c] /\ skipped[c] \subseteq skipped'[c]
  PROVE  /\ SelectedOnce' /\ MetadataDescribesSelection' /\ SelectionIsBoundary'
         /\ ManifestIffPublished' /\ FrozenInv'
  <1>1. SelectedOnce' /\ MetadataDescribesSelection' /\ ManifestIffPublished' /\ FrozenInv'
    BY DEF CycleInv, FrozenInv, SelectedOnce, MetadataDescribesSelection, ManifestIffPublished,
       SelectedFor, metaVars
  <1>2. SelectionIsBoundary'
    BY DEF CycleInv, SelectionIsBoundary, SelectedFor, Accepted, metaVars
  <1> QED
    BY <1>1, <1>2

\* A session that ends disturbs no other session, whatever it commits, as long
\* as it leaves the rows of the others alone.
LEMMA SessionEnds ==
  ASSUME CycleInv, NEW s \in Sessions, EndTransaction(s),
         \A t \in Sessions : t # s /\ pc[t] \in FreezePcs => CanFreeze(target[t])',
         \A t \in Sessions : t # s => \A i \in picked[t] : ~AlreadySelected(i)',
         UNCHANGED <<queue, boundary, skipped>>
  PROVE  RowInv' /\ PickInv' /\ ScanInv' /\ PublishInv'
  <1> USE DEF CycleInv, EndTransaction
  <1>1. RowInv'
    <2>1. \A t \in Sessions : t # s => pc'[t] = pc[t] /\ target'[t] = target[t]
      BY DEF TypeOK
    <2>2. pc'[s] = "idle"
      BY DEF TypeOK
    <2> QED
      BY <2>1, <2>2 DEF RowInv, FreezePcs, CanFreeze
  <1>2. PickInv'
    BY DEF PickInv, TypeOK
  <1>3. ScanInv'
    BY DEF ScanInv, TypeOK
  <1>4. PublishInv'
    BY DEF PublishInv, TypeOK
  <1> QED
    BY <1>1, <1>2, <1>3, <1>4

\* Every step of cycle control keeps CycleInv.
LEMMA CycleInvStep == CycleInv /\ [Next]_vars => CycleInv'
  <1> SUFFICES ASSUME CycleInv, [Next]_vars PROVE CycleInv'
    OBVIOUS
  <1>0. TypeOK'
    BY CycleTypeStep
  <1> DEFINE SessionsOK == RowInv /\ PickInv /\ ScanInv /\ PublishInv
             RowsOK == /\ SelectedOnce /\ MetadataDescribesSelection
                       /\ SelectionIsBoundary /\ ManifestIffPublished /\ FrozenInv
  <1> SUFFICES SessionsOK' /\ RowsOK'
    BY <1>0 DEF CycleInv
  <1>1. CASE QueueStep
    <2> USE <1>1 DEF QueueStep, CycleInv, metaVars, freezeVars, histVars
    <2>1. \A i \in Seqs : queue[i] = "accepted" => queue'[i] = "accepted"
      BY QueueStepFacts
    <2>2. RowInv' /\ ScanInv' /\ PublishInv'
      BY <2>1 DEF RowInv, ScanInv, PublishInv, CanFreeze, TypeOK
    <2>3. PickInv'
      BY <2>1 DEF PickInv, AlreadySelected, TypeOK
    <2>4. SelectedOnce' /\ MetadataDescribesSelection' /\ ManifestIffPublished' /\ FrozenInv'
      BY DEF FrozenInv, SelectedOnce, MetadataDescribesSelection, ManifestIffPublished, SelectedFor
    <2>5. SelectionIsBoundary'
      BY <2>1 DEF SelectionIsBoundary, SelectedFor, Accepted, TypeOK
    <2> QED
      BY <2>2, <2>3, <2>4, <2>5
  <1>2. ASSUME NEW c \in Cycles, CycleStep(c) PROVE SessionsOK' /\ RowsOK'
    <2> USE DEF CycleInv
    <2>1. /\ UNCHANGED <<queue, metaVars, manifest, pc, target, freezeVars, started, histVars>>
          /\ ~RowHeld(c) \/ cycle[c] = "absent"
          /\ \A d \in Cycles \ {c} : cycle'[d] = cycle[d]
          /\ cycle[c] # "published" /\ cycle'[c] # "published"
      BY <1>2 DEF CycleStep, CreateCycle, TransitionCycleStatus, TypeOK, ValidTransition,
         FailedSources, ForwardTransitions
    <2>2. RowInv'
      <3>1. \A s \in Sessions : pc[s] \in FreezePcs => target[s] \in Cycles \ {c}
        BY <2>1 DEF RowInv, RowHeld, CanFreeze, FreezePcs
      <3>2. \A d \in Cycles \ {c} : CanFreeze(d)' <=> CanFreeze(d)
        BY <2>1 DEF CanFreeze, metaVars
      <3> QED
        BY <2>1, <3>1, <3>2 DEF RowInv
    <2>3. PickInv' /\ ScanInv' /\ PublishInv'
      BY <2>1 DEF PickInv, ScanInv, PublishInv, AlreadySelected, metaVars, freezeVars, histVars
    <2>4. SelectedOnce' /\ MetadataDescribesSelection' /\ SelectionIsBoundary'
      BY <2>1 DEF SelectedOnce, MetadataDescribesSelection, SelectionIsBoundary, SelectedFor,
         Accepted, metaVars, histVars
    <2>5. ManifestIffPublished'
      BY <2>1 DEF ManifestIffPublished
    <2>6. FrozenInv'
      BY <1>2, <2>1 DEF FrozenInv, CycleStep, CreateCycle, TransitionCycleStatus, ValidTransition,
         ForwardTransitions, metaVars, TypeOK
    <2> QED
      BY <2>2, <2>3, <2>4, <2>5, <2>6
  <1>3. ASSUME NEW s \in Sessions, NEW c \in Cycles, NEW f \in Filters, FreezeLock(s, c, f)
        PROVE  SessionsOK' /\ RowsOK'
    <2> USE <1>3 DEF FreezeLock, CycleInv
    <2>1. RowInv'
      BY DEF RowInv, RowHeld, CanFreeze, TypeOK, FreezePcs, metaVars
    <2>2. PickInv'
      BY DEF PickInv, AlreadySelected, TypeOK, metaVars
    <2>3. ScanInv' /\ PublishInv'
      BY DEF ScanInv, PublishInv, TypeOK, histVars
    <2> QED
      BY <2>1, <2>2, <2>3, RowsUntouched DEF histVars
  <1>5. ASSUME NEW s \in Sessions, FreezeStatement(s) PROVE SessionsOK' /\ RowsOK'
    <2> USE <1>5 DEF FreezeStatement, CycleInv
    <2>1. target[s] \in Cycles /\ ~frozen[target[s]]
      BY DEF RowInv, FreezePcs, CanFreeze
    <2>2. RowInv'
      BY DEF RowInv, CanFreeze, TypeOK, FreezePcs, metaVars
    <2>3. PickInv'
      BY DEF PickInv, AlreadySelected, TypeOK, metaVars
    <2>4. Eligible(s) = Due(filter[s])
      BY DEF Eligible, Due, AlreadySelected, SelectedFor, Accepted, TypeOK
    <2>5. ScanInv'
      <3> SUFFICES ASSUME NEW t \in Sessions, pc'[t] = "selecting"
                   PROVE  /\ snap'[t] = boundary'[target'[t]]
                          /\ \A i \in snap'[t] : queue[i] = "accepted"
                          /\ picked'[t] \subseteq snap'[t]
                          /\ \A i \in snap'[t] : i <= cursor'[t] =>
                                i \in picked'[t] \cup skipped'[target'[t]]
        BY DEF ScanInv
      <3>1. CASE t # s
        <4>1. pc[t] = "selecting" /\ target[t] # target[s] /\ target[t] \in Cycles
          BY <3>1 DEF RowInv, FreezePcs, TypeOK
        <4> QED
          BY <3>1, <4>1 DEF ScanInv, TypeOK
      <3>2. CASE t = s
        <4>1. snap'[t] = Due(filter[s]) /\ boundary'[target'[t]] = Due(filter[s])
          BY <2>1, <2>4, <3>2 DEF TypeOK
        <4>2. picked'[t] = {} /\ cursor'[t] = 0
          BY <3>2 DEF PickInv
        <4>3. \A i \in Due(filter[s]) : ~(i <= 0) /\ queue[i] = "accepted"
          BY CycleAssumption DEF Due, Accepted, Seqs
        <4> QED
          BY <4>1, <4>2, <4>3
      <3> QED
        BY <3>1, <3>2
    <2>6. PublishInv'
      BY DEF PublishInv, TypeOK
    <2>7. RowsOK'
      BY <2>1, RowsUntouched DEF TypeOK
    <2> QED
      BY <2>2, <2>3, <2>5, <2>6, <2>7
  <1>6. ASSUME NEW s \in Sessions, NEW i \in Seqs, FreezeSkip(s, i)
        PROVE  SessionsOK' /\ RowsOK'
    <2> USE <1>6 DEF FreezeSkip, NextCandidate, CycleInv
    <2>1. target[s] \in Cycles
      BY DEF RowInv
    <2>2. RowInv' /\ PublishInv'
      BY DEF RowInv, PublishInv, CanFreeze, metaVars
    <2>3. PickInv'
      BY DEF PickInv, AlreadySelected, TypeOK, metaVars
    <2>4. ScanInv'
      <3> SUFFICES ASSUME NEW t \in Sessions, pc[t] = "selecting", NEW j \in snap[t],
                          j <= cursor'[t]
                   PROVE  j \in picked[t] \cup skipped'[target[t]]
        BY DEF ScanInv
      <3>1. skipped[target[t]] \subseteq skipped'[target[t]]
        BY <2>1 DEF RowInv, TypeOK
      <3>2. CASE j <= cursor[t]
        BY <3>1, <3>2 DEF ScanInv
      <3>3. CASE ~(j <= cursor[t])
        <4>1. t = s /\ j \in Unseen(s) /\ j <= i
          BY <3>3 DEF Unseen, TypeOK, Seqs
        <4>2. j = i
          BY <4>1 DEF TypeOK, Seqs
        <4> QED
          BY <2>1, <4>1, <4>2 DEF TypeOK
      <3> QED
        BY <3>2, <3>3
    <2>5. RowsOK'
      BY <2>1, RowsUntouched DEF TypeOK
    <2> QED
      BY <2>2, <2>3, <2>4, <2>5
  <1>7. ASSUME NEW s \in Sessions, NEW i \in Seqs, FreezePick(s, i)
        PROVE  SessionsOK' /\ RowsOK'
    <2> USE <1>7 DEF FreezePick, NextCandidate, CycleInv
    <2>1. RowInv' /\ PublishInv'
      BY DEF RowInv, PublishInv, CanFreeze, metaVars
    <2>2. /\ picked'[s] = picked[s] \cup {i}
          /\ \A t \in Sessions : t # s => picked'[t] = picked[t] /\ cursor'[t] = cursor[t]
          /\ cursor'[s] = i
      BY DEF TypeOK
    <2>3. i \in snap[s]
      BY DEF Unseen
    <2>4. queue[i] = "accepted"
      BY <2>3 DEF ScanInv
    <2>5. PickInv'
      BY <2>2, <2>4 DEF PickInv, AlreadySelected, LockedElsewhere, metaVars
    <2>6. ScanInv'
      <3> SUFFICES ASSUME NEW t \in Sessions, pc[t] = "selecting"
                   PROVE  /\ picked'[t] \subseteq snap[t]
                          /\ \A j \in snap[t] : j <= cursor'[t] =>
                               j \in picked'[t] \cup skipped[target[t]]
        BY DEF ScanInv, histVars
      <3>1. CASE t # s
        BY <2>2, <3>1 DEF ScanInv
      <3>2. CASE t = s
        <4>1. picked'[s] \subseteq snap[s]
          BY <2>2, <2>3 DEF ScanInv
        <4>2. ASSUME NEW j \in snap[s], j <= i
              PROVE  j \in picked'[s] \cup skipped[target[s]]
          <5>1. CASE j <= cursor[s]
            BY <2>2, <5>1 DEF ScanInv
          <5>2. CASE ~(j <= cursor[s])
            <6>1. j \in Unseen(s)
              BY <5>2 DEF Unseen, TypeOK, Seqs
            <6>2. j = i
              BY <4>2, <6>1 DEF TypeOK, Seqs
            <6> QED
              BY <2>2, <6>2
          <5> QED
            BY <5>1, <5>2
        <4> QED
          BY <2>2, <3>2, <4>1, <4>2
      <3> QED
        BY <3>1, <3>2
    <2>7. RowsOK'
      BY RowsUntouched DEF histVars
    <2> QED
      BY <2>1, <2>5, <2>6, <2>7
  <1>8. ASSUME NEW s \in Sessions, FreezeCommit(s) PROVE SessionsOK' /\ RowsOK'
    <2> USE <1>8 DEF FreezeCommit, CycleInv
    <2>0. PICK c \in Cycles : c = target[s]
      BY DEF RowInv
    <2> USE <2>0
    <2>1. CanFreeze(c) /\ picked[s] \subseteq Seqs
      BY DEF RowInv, FreezePcs, TypeOK
    <2>2. \A d \in Cycles \ {c} :
             /\ cycle'[d] = cycle[d] /\ frozen'[d] = frozen[d] /\ count'[d] = count[d]
             /\ cutoff'[d] = cutoff[d] /\ SelectedFor(d)' = SelectedFor(d)
      BY DEF TypeOK, SelectedFor
    <2>3. /\ SelectedFor(c)' = picked[s]
          /\ frozen'[c] /\ count'[c] = Cardinality(picked[s])
          /\ cutoff'[c] = MaxIngestSeq(picked[s])
      <3>1. SelectedFor(c) = {}
        BY <2>1 DEF CanFreeze, MetadataDescribesSelection
      <3> QED
        BY <2>1, <3>1 DEF TypeOK, SelectedFor, Inserted
    <2>4. SessionsOK'
      <3>1. \A t \in Sessions : t # s /\ pc[t] \in FreezePcs => CanFreeze(target[t])'
        <4> SUFFICES ASSUME NEW t \in Sessions, t # s, pc[t] \in FreezePcs
                     PROVE  CanFreeze(target[t])'
          OBVIOUS
        <4>1. target[t] \in Cycles \ {c} /\ target'[t] = target[t] /\ CanFreeze(target[t])
          BY DEF RowInv, FreezePcs, EndTransaction, TypeOK
        <4> QED
          BY <2>2, <4>1 DEF CanFreeze
      <3>2. \A t \in Sessions : t # s => \A i \in picked[t] : ~AlreadySelected(i)'
        BY DEF PickInv, AlreadySelected
      <3> QED
        BY <3>1, <3>2, SessionEnds DEF histVars
    <2>5. SelectedOnce'
      <3>1. \A i \in picked[s] : ~AlreadySelected(i)
        BY DEF PickInv
      <3>2. \A p \in selection : p[1] \in Cycles /\ p = <<p[1], p[2]>>
        BY DEF TypeOK
      <3> QED
        BY <3>1, <3>2 DEF SelectedOnce, AlreadySelected
    <2>6. MetadataDescribesSelection'
      BY <2>2, <2>3 DEF MetadataDescribesSelection
    <2>7. SelectionIsBoundary'
      <3>1. picked[s] \subseteq boundary[c] /\ boundary[c] \ picked[s] \subseteq skipped[c]
        BY DEF ScanInv, Unseen, TypeOK, Seqs
      <3>2. \A p \in selection' : p[2] \in Accepted'
        BY DEF SelectionIsBoundary, PickInv, Accepted, TypeOK
      <3>3. ASSUME NEW d \in Cycles, frozen'[d]
            PROVE  /\ SelectedFor(d)' \subseteq boundary'[d]
                   /\ boundary'[d] \ SelectedFor(d)' \subseteq skipped'[d]
        BY <2>2, <2>3, <3>1, <3>3 DEF SelectionIsBoundary, histVars
      <3> QED
        BY <3>2, <3>3 DEF SelectionIsBoundary
    <2>8. ManifestIffPublished' /\ FrozenInv'
      BY <2>1, <2>2 DEF ManifestIffPublished, FrozenInv, CanFreeze, TypeOK
    <2> QED
      BY <2>4, <2>5, <2>6, <2>7, <2>8
  <1>9. ASSUME NEW s \in Sessions, NEW c \in Cycles, NEW now \in 1..MaxClock,
               PublishBegin(s, c, now)
        PROVE  SessionsOK' /\ RowsOK'
    <2> USE <1>9 DEF PublishBegin, CycleInv
    <2>1. RowInv'
      BY DEF RowInv, CanFreeze, TypeOK, FreezePcs, metaVars
    <2>2. PickInv' /\ ScanInv'
      <3>1. \A t \in Sessions : pc'[t] = "selecting" <=> pc[t] = "selecting"
        BY DEF TypeOK
      <3>2. \A t \in Sessions : pc'[t] = "selecting" => target'[t] = target[t]
        BY DEF TypeOK
      <3>3. PickInv'
        BY <3>1 DEF PickInv, AlreadySelected, metaVars, freezeVars
      <3>4. ScanInv'
        BY <3>1, <3>2 DEF ScanInv, freezeVars, histVars
      <3> QED
        BY <3>3, <3>4
    <2>3. PublishInv'
      BY CycleAssumption DEF PublishInv, TypeOK
    <2> QED
      BY <2>1, <2>2, <2>3, RowsUntouched DEF histVars
  <1>10. ASSUME NEW s \in Sessions, PublishCommit(s) PROVE SessionsOK' /\ RowsOK'
    <2> USE <1>10 DEF PublishCommit, CycleInv
    <2>1. target[s] \in Cycles /\ started[s] # 0
      BY DEF RowInv, PublishInv
    <2>2. SessionsOK'
      <3>1. ASSUME NEW t \in Sessions, t # s, pc[t] \in FreezePcs
            PROVE  CanFreeze(target[t])'
        <4>1. target[t] \in Cycles /\ target[t] # target[s] /\ target'[t] = target[t]
              /\ CanFreeze(target[t])
          BY <3>1 DEF RowInv, RowHeld, FreezePcs, EndTransaction, TypeOK
        <4> QED
          BY <4>1 DEF CanFreeze, TypeOK, metaVars
      <3>2. \A t \in Sessions : t # s => \A i \in picked[t] : ~AlreadySelected(i)'
        BY DEF PickInv, AlreadySelected, metaVars
      <3> QED
        BY <3>1, <3>2, SessionEnds
    <2>3. SelectedOnce' /\ MetadataDescribesSelection' /\ SelectionIsBoundary'
      BY DEF SelectedOnce, MetadataDescribesSelection, SelectionIsBoundary, SelectedFor,
         Accepted, metaVars
    <2>4. ManifestIffPublished' /\ FrozenInv'
      BY <2>1 DEF ManifestIffPublished, FrozenInv, TypeOK, metaVars
    <2> QED
      BY <2>2, <2>3, <2>4
  <1>11. ASSUME NEW s \in Sessions,
                \/ PublishRefused(s) \/ Rollback(s)
                \/ \E i \in Seqs : FreezeUniqueViolation(s, i)
         PROVE  SessionsOK' /\ RowsOK'
    <2>1. EndTransaction(s) /\ UNCHANGED <<queue, cycle, metaVars, manifest, clock, histVars>>
      BY <1>11 DEF PublishRefused, Rollback, FreezeUniqueViolation
    <2>2. \A t \in Sessions : t # s /\ pc[t] \in FreezePcs => CanFreeze(target[t])'
      BY <2>1 DEF CycleInv, RowInv, CanFreeze, EndTransaction, TypeOK, metaVars
    <2>3. \A t \in Sessions : t # s => \A i \in picked[t] : ~AlreadySelected(i)'
      BY <2>1 DEF CycleInv, PickInv, AlreadySelected, metaVars
    <2> QED
      BY <2>1, <2>2, <2>3, SessionEnds, RowsUntouched DEF histVars
  <1>12. CASE UNCHANGED vars
    <2>1. SessionsOK'
      BY <1>12 DEF vars, CycleInv, RowInv, PickInv, ScanInv, PublishInv, CanFreeze,
         AlreadySelected, metaVars, freezeVars, histVars
    <2> QED
      BY <1>12, <2>1, RowsUntouched DEF vars, histVars
  <1> QED
    BY <1>1, <1>2, <1>3, <1>5, <1>6, <1>7, <1>8, <1>9, <1>10, <1>11, <1>12
       DEF Next, FreezeStep, PublishStep

\* Cycle control satisfies CycleInv in every behaviour.
LEMMA CycleInvariant == Spec => []CycleInv
  BY CycleInit, CycleInvStep, PTL DEF Spec

-----------------------------------------------------------------------------
(* What follows from the invariant                                         *)

\* The control rows and the state of every session have their types.
THEOREM CycleTypeCorrect == Spec => []TypeOK
  BY CycleInvariant, PTL DEF CycleInv

\* No candidate is ever in the committed selection of two cycles.
THEOREM CandidateSelectedOnce == Spec => []SelectedOnce
  BY CycleInvariant, PTL DEF CycleInv

\* candidate_count and cutoff_ingest_seq always describe the selected rows.
THEOREM MetadataIsExact == Spec => []MetadataDescribesSelection
  BY CycleInvariant, PTL DEF CycleInv

\* A freeze takes what was due at its statement's snapshot, less what an
\* overlapping freeze held.
THEOREM FreezeTakesBoundary == Spec => []SelectionIsBoundary
  BY CycleInvariant, PTL DEF CycleInv

\* A cycle has a publish manifest exactly when its status is published.
THEOREM ManifestMatchesStatus == Spec => []ManifestIffPublished
  BY CycleInvariant, PTL DEF CycleInv

\* What the later phases of a cycle rely on: a candidate is theirs alone, the
\* metadata and the manifest are those of the selection that was frozen.
THEOREM CycleIsSafe == Spec => []CycleSafe
  BY CandidateSelectedOnce, MetadataIsExact, FreezeTakesBoundary, ManifestMatchesStatus, PTL DEF CycleSafe

\* A step that changes a cycle's row is its creation, its freeze, a
\* transition or its publication.
LEMMA CycleRowChanges ==
  ASSUME CycleInv, [Next]_vars, NEW c \in Cycles
  PROVE  \/ cycle'[c] = cycle[c] /\ manifest'[c] = manifest[c]
         \/ cycle[c] = "absent" /\ cycle'[c] = "pending" /\ manifest'[c] = manifest[c]
         \/ CanFreeze(c) /\ cycle'[c] = "phase0" /\ manifest'[c] = manifest[c]
         \/ /\ cycle'[c] \in CycleStatuses /\ ValidTransition(cycle[c], cycle'[c])
            /\ manifest'[c] = manifest[c]
         \/ CanPublish(c) /\ cycle'[c] = "published"
  <1> USE DEF CycleInv
  <1>1. ASSUME NEW d \in Cycles, CycleStep(d)
        PROVE  /\ manifest'[c] = manifest[c]
               /\ \/ cycle'[c] = cycle[c]
                  \/ cycle[c] = "absent" /\ cycle'[c] = "pending"
                  \/ cycle'[c] \in CycleStatuses /\ ValidTransition(cycle[c], cycle'[c])
    BY <1>1 DEF CycleStep, CreateCycle, TransitionCycleStatus, TypeOK
  <1>2. ASSUME NEW s \in Sessions, FreezeCommit(s)
        PROVE  /\ manifest'[c] = manifest[c]
               /\ \/ cycle'[c] = cycle[c]
                  \/ CanFreeze(c) /\ cycle'[c] = "phase0"
    <2>1. CanFreeze(target[s]) /\ target[s] \in Cycles
      BY <1>2 DEF FreezeCommit, RowInv, FreezePcs
    <2>2. CASE c = target[s]
      BY <1>2, <2>1, <2>2 DEF FreezeCommit, TypeOK
    <2>3. CASE c # target[s]
      BY <1>2, <2>3 DEF FreezeCommit, TypeOK
    <2> QED
      BY <2>2, <2>3
  <1>3. ASSUME NEW s \in Sessions, PublishCommit(s)
        PROVE  \/ cycle'[c] = cycle[c] /\ manifest'[c] = manifest[c]
               \/ CanPublish(c) /\ cycle'[c] = "published"
    BY <1>3 DEF PublishCommit, TypeOK, CanPublish
  <1>4. \/ \E d \in Cycles : CycleStep(d)
        \/ \E s \in Sessions : FreezeCommit(s) \/ PublishCommit(s)
        \/ cycle' = cycle /\ manifest' = manifest
    BY DEF Next, FreezeStep, PublishStep, QueueStep, FreezeLock, FreezeStatement,
       FreezeSkip, FreezePick, FreezeUniqueViolation, PublishBegin, PublishRefused, Rollback, vars
  <1> QED
    BY <1>1, <1>2, <1>3, <1>4

\* Only a freeze that commits changes metadata and selection, and only of a
\* cycle that is not frozen.
LEMMA SelectionChanges ==
  ASSUME CycleInv, [Next]_vars, NEW c \in Cycles, frozen[c]
  PROVE  /\ frozen'[c] /\ count'[c] = count[c] /\ cutoff'[c] = cutoff[c]
         /\ SelectedFor(c)' = SelectedFor(c)
  <1>1. ASSUME NEW s \in Sessions, FreezeCommit(s)
        PROVE  /\ frozen'[c] /\ count'[c] = count[c] /\ cutoff'[c] = cutoff[c]
               /\ SelectedFor(c)' = SelectedFor(c)
    <2>1. target[s] # c
      BY <1>1 DEF FreezeCommit, CycleInv, RowInv, FreezePcs, CanFreeze
    <2> QED
      BY <1>1, <2>1 DEF FreezeCommit, SelectedFor, CycleInv, TypeOK
  <1>2. (\E s \in Sessions : FreezeCommit(s)) \/ UNCHANGED metaVars
    BY DEF Next, FreezeStep, PublishStep, CycleStep, QueueStep, CreateCycle,
       TransitionCycleStatus, FreezeLock, FreezeStatement, FreezeSkip, FreezePick,
       FreezeUniqueViolation, PublishBegin, PublishCommit, PublishRefused, Rollback, vars
  <1> QED
    BY <1>1, <1>2 DEF metaVars, SelectedFor

\* A frozen cycle keeps its selection and metadata for ever and does not
\* become pending again.
THEOREM FreezeIsFinal == Spec => FrozenForGood
  <1>1. CycleInv /\ [Next]_vars =>
          [\A c \in Cycles : frozen[c] =>
             /\ frozen'[c] /\ count'[c] = count[c] /\ cutoff'[c] = cutoff[c]
             /\ SelectedFor(c)' = SelectedFor(c)
             /\ cycle'[c] # "pending"]_vars
    <2> SUFFICES ASSUME CycleInv, [Next]_vars, NEW c \in Cycles, frozen[c]
                 PROVE  /\ frozen'[c] /\ count'[c] = count[c] /\ cutoff'[c] = cutoff[c]
                        /\ SelectedFor(c)' = SelectedFor(c)
                        /\ cycle'[c] # "pending"
      OBVIOUS
    <2>1. CycleInv'
      BY CycleInvStep
    <2>2. frozen'[c] => cycle'[c] # "pending"
      BY <2>1 DEF CycleInv, FrozenInv
    <2> QED
      BY <2>2, SelectionChanges
  <1> QED
    BY <1>1, CycleInvariant, PTL DEF Spec, FrozenForGood

\* A cycle's status only moves forward, published and failed are final, and a
\* manifest is written once.
THEOREM CycleMovesForward == Spec => CycleForward
  <1>1. CycleInv /\ [Next]_vars =>
          [\A c \in Cycles :
             /\ cycle'[c] # cycle[c] => Rank(cycle[c]) < Rank(cycle'[c])
             /\ cycle'[c] = "published" => cycle[c] \in {"phase3", "published"}
             /\ manifest[c] # 0 => manifest'[c] = manifest[c]]_vars
    <2> SUFFICES ASSUME CycleInv, [Next]_vars, NEW c \in Cycles
                 PROVE  /\ cycle'[c] # cycle[c] => Rank(cycle[c]) < Rank(cycle'[c])
                        /\ cycle'[c] = "published" => cycle[c] \in {"phase3", "published"}
                        /\ manifest[c] # 0 => manifest'[c] = manifest[c]
      OBVIOUS
    <2>1. /\ cycle'[c] = "published" => cycle[c] \in {"phase3", "published"}
          /\ manifest[c] # 0 => manifest'[c] = manifest[c]
      BY CycleRowChanges DEF CanPublish, CanFreeze, ValidTransition, FailedSources,
         ForwardTransitions
    <2>2. cycle'[c] # cycle[c] => Rank(cycle[c]) < Rank(cycle'[c])
      <3>1. CASE cycle[c] = "absent" /\ cycle'[c] = "pending"
        BY <3>1 DEF Rank
      <3>2. CASE CanFreeze(c) /\ cycle'[c] = "phase0"
        BY <3>2 DEF Rank, CanFreeze
      <3>3. CASE ValidTransition(cycle[c], cycle'[c])
        BY <3>3 DEF Rank, ValidTransition, FailedSources, ForwardTransitions
      <3>4. CASE CanPublish(c) /\ cycle'[c] = "published"
        BY <3>4 DEF Rank, CanPublish
      <3> QED
        BY <3>1, <3>2, <3>3, <3>4, CycleRowChanges
    <2> QED
      BY <2>1, <2>2
  <1> QED
    BY <1>1, CycleInvariant, PTL DEF Spec, CycleForward

-----------------------------------------------------------------------------
(* audit-eval: the inductive invariant                                     *)

\* Stored rows agree with the bundles they came with.
RowsInv ==
    /\ IsFiniteSet(replays)
    /\ \A x, y \in audits : x.id = y.id => x = y
    /\ \A r \in replays \ loose : AuditsBind(r)

\* A hook marks as completed only what it has appended, of what was due.
HookSound(j, day, rows) ==
    j.kind = "hook" =>
        /\ j.asOf <= day
        /\ j.pc \in {"manifest", "replays"} => j.marks = {}
        /\ \A m \in j.marks : m[2] = "completed" =>
              /\ Mature(j.request.cycle, m[1][2], j.asOf)
              /\ \E e \in rows : e.id = HookId(j, m[1]) /\ e.by = j.job

\* A backfill computes every target once.
BackfillSound(j) ==
    j.kind = "backfill" =>
        /\ j.pc = "existing" => j.made = {}
        /\ \A m \in j.made : m[1] \notin j.todo
        /\ \A m, n \in j.made : m[1] = n[1] => m = n

JobsInv == \A w \in Workers : HookSound(work[w], today, evaluations) /\ BackfillSound(work[w])

\* A status is of a cycle and a horizon.
StatusInv == \A s \in statuses : s.id[1] \in Nat /\ s.id[3] \in Nat

RetroInv == RetroTypeOK /\ RowsInv /\ JobsInv /\ StatusInv /\ EvaluationsAreSound

-----------------------------------------------------------------------------
(* Least elements                                                          *)

\* A non-empty set of naturals has a least element.
LEMMA LeastNat == ASSUME NEW S \in SUBSET Nat, S # {} PROVE \E m \in S : \A k \in S : m <= k
  <1>1. PICK m \in S : \A k \in S : <<k, m>> \notin OpToRel(<, Nat)
    BY NatLessThanWellFounded, WFMin
  <1>2. \A k \in S : ~(k < m)
    BY <1>1 DEF OpToRel
  <1> QED
    BY <1>2

\* The first of a set of pairs is one of them.
LEMMA FirstPairIn == ASSUME NEW P \in SUBSET Pairs, P # {} PROVE FirstPair(P) \in P
  <1>1. PICK a \in {p[1] : p \in P} : \A k \in {p[1] : p \in P} : a <= k
    <2>1. {p[1] : p \in P} \subseteq Nat /\ {p[1] : p \in P} # {}
      BY DEF Pairs
    <2> QED
      BY <2>1, LeastNat
  <1>2. PICK b \in {p[2] : p \in {q \in P : q[1] = a}} : \A k \in {p[2] : p \in {q \in P : q[1] = a}} : b <= k
    <2>1. {p[2] : p \in {q \in P : q[1] = a}} \subseteq Nat /\ {p[2] : p \in {q \in P : q[1] = a}} # {}
      BY <1>1 DEF Pairs
    <2> QED
      BY <2>1, LeastNat
  <1>3. PICK p \in P : p[1] = a /\ p[2] = b
    BY <1>2
  <1>4. \A q \in P : p[1] < q[1] \/ (p[1] = q[1] /\ p[2] <= q[2])
    BY <1>1, <1>2, <1>3 DEF Pairs
  <1> QED
    BY <1>4 DEF FirstPair

\* The pair a job works on next is one of those it has left.
LEMMA NextTargetIn == ASSUME NEW T \in SUBSET Pairs, T # {} PROVE NextTarget(T) \in T
  <1> DEFINE P == {<<t[2], t[1]>> : t \in T}
  <1>1. P \in SUBSET Pairs /\ P # {}
    <2>1. \A t \in T : <<t[2], t[1]>> \in Pairs
      BY DEF Pairs
    <2> QED
      BY <2>1
  <1>2. PICK t \in T : FirstPair(P) = <<t[2], t[1]>>
    BY <1>1, FirstPairIn
  <1>3. t = <<t[1], t[2]>>
    BY DEF Pairs
  <1> QED
    BY <1>2, <1>3 DEF NextTarget

\* Time goes on.
LEMMA TickForward == ASSUME RetroTypeOK, Tick PROVE today' \in Dates /\ today <= today'
  <1> DEFINE S == {x \in Dates : x > today}
  <1>1. S \in SUBSET Nat /\ S # {} /\ today \in Nat
    BY RetroAssumption DEF RetroTypeOK, Tick
  <1>2. Min(S) \in S
    BY <1>1, LeastNat DEF Min
  <1> QED
    BY <1>1, <1>2 DEF Tick

\* Scores are numbers.
LEMMA ComputedType ==
    ASSUME RetroTypeOK, NEW c, NEW o, NEW v \in Outcomes, NEW g
    PROVE  Computed(c, o, v, g) \subseteq Int
  <1>1. \A r : SeedsOf(r) \subseteq Int
    BY RetroAssumption DEF SeedsOf, AuditRows, RetroTypeOK
  <1>2. \A s \in Int : Deviation(s, v) \in Int
    BY RetroAssumption DEF Deviation
  <1> QED
    BY <1>1, <1>2 DEF Computed

-----------------------------------------------------------------------------
(* Jobs                                                                    *)

\* A worker without a job is well typed.
LEMMA NoWorkType == NoWork \in Jobs /\ NoWork.kind = "none"
  BY DEF NoWork, Jobs, JobSteps

\* The fields of a job, and that changing one leaves a job.
LEMMA JobFields ==
    ASSUME NEW j \in Jobs
    PROVE  /\ j.ask \subseteq Nat /\ j.todo \subseteq Pairs /\ j.found \subseteq ReplayUniverse
           /\ j.marks \subseteq Pairs \X {"pending", "completed"} /\ j.made \subseteq Pairs \X Int
           /\ j.job \in Nat /\ j.asOf \in Nat
  BY DEF Jobs

\* A job stays well typed when one field is given a value of its type.
LEMMA JobChanges ==
    ASSUME NEW j \in Jobs
    PROVE  /\ \A p \in JobSteps : [j EXCEPT !.pc = p] \in Jobs
           /\ \A A \in SUBSET Nat : [j EXCEPT !.ask = A] \in Jobs
           /\ \A A \in SUBSET Pairs : [j EXCEPT !.todo = A] \in Jobs
           /\ \A A \in SUBSET ReplayUniverse : [j EXCEPT !.found = A] \in Jobs
           /\ \A A \in SUBSET (Pairs \X {"pending", "completed"}) : [j EXCEPT !.marks = A] \in Jobs
           /\ \A A \in SUBSET (Pairs \X Int) : [j EXCEPT !.made = A] \in Jobs
           /\ \A b \in BOOLEAN : [j EXCEPT !.complete = b] \in Jobs
  BY Zenon DEF Jobs, JobSteps

\* So does changing two.
LEMMA PcChange ==
    ASSUME NEW j \in Jobs, NEW p \in JobSteps, NEW k, k = [j EXCEPT !.pc = p]
    PROVE  k \in Jobs
  BY JobChanges

\* A job that moves on and notes whether it was complete is well typed.
LEMMA ReportChange ==
    ASSUME NEW j \in Jobs, NEW p \in JobSteps, NEW b \in BOOLEAN, NEW k, k = [j EXCEPT !.pc = p, !.complete = b]
    PROVE  k \in Jobs
  <1>1. k = [[j EXCEPT !.pc = p] EXCEPT !.complete = b]
    BY Z3 DEF Jobs
  <1>2. [j EXCEPT !.pc = p] \in Jobs
    BY JobChanges, Zenon
  <1> QED
    BY <1>1, <1>2, JobChanges, Zenon

\* A job that moves on with the cycles it asks for is well typed.
LEMMA AskChange ==
    ASSUME NEW j \in Jobs, NEW p \in JobSteps, NEW A \in SUBSET Nat, NEW k, k = [j EXCEPT !.pc = p, !.ask = A]
    PROVE  k \in Jobs
  <1>1. k = [[j EXCEPT !.pc = p] EXCEPT !.ask = A]
    BY Z3 DEF Jobs
  <1>2. [j EXCEPT !.pc = p] \in Jobs
    BY JobChanges, Zenon
  <1> QED
    BY <1>1, <1>2, JobChanges, Zenon

\* A job that has found replay rows is well typed.
LEMMA FoundChange ==
    ASSUME NEW j \in Jobs, NEW A \in SUBSET Nat, NEW F \in SUBSET ReplayUniverse, NEW k, k = [j EXCEPT !.ask = A, !.found = F]
    PROVE  k \in Jobs
  <1>1. k = [[j EXCEPT !.ask = A] EXCEPT !.found = F]
    BY Z3 DEF Jobs
  <1>2. [j EXCEPT !.ask = A] \in Jobs
    BY JobChanges, Zenon
  <1> QED
    BY <1>1, <1>2, JobChanges, Zenon

\* A job that moves on with pairs to do is well typed.
LEMMA TodoChange ==
    ASSUME NEW j \in Jobs, NEW p \in JobSteps, NEW T \in SUBSET Pairs, NEW k, k = [j EXCEPT !.pc = p, !.todo = T]
    PROVE  k \in Jobs
  <1>1. k = [[j EXCEPT !.pc = p] EXCEPT !.todo = T]
    BY Z3 DEF Jobs
  <1>2. [j EXCEPT !.pc = p] \in Jobs
    BY JobChanges, Zenon
  <1> QED
    BY <1>1, <1>2, JobChanges, Zenon

\* A job that has noted the status of a pair is well typed.
LEMMA MarksChange ==
    ASSUME NEW j \in Jobs, NEW T \in SUBSET Pairs, NEW M \in SUBSET (Pairs \X {"pending", "completed"}), NEW k, k = [j EXCEPT !.todo = T, !.marks = M]
    PROVE  k \in Jobs
  <1>1. k = [[j EXCEPT !.todo = T] EXCEPT !.marks = M]
    BY Z3 DEF Jobs
  <1>2. [j EXCEPT !.todo = T] \in Jobs
    BY JobChanges, Zenon
  <1> QED
    BY <1>1, <1>2, JobChanges, Zenon

\* A job that has stored the evaluation of a pair is well typed.
LEMMA MadeChange ==
    ASSUME NEW j \in Jobs, NEW T \in SUBSET Pairs, NEW M \in SUBSET (Pairs \X Int), NEW k, k = [j EXCEPT !.todo = T, !.made = M]
    PROVE  k \in Jobs
  <1>1. k = [[j EXCEPT !.todo = T] EXCEPT !.made = M]
    BY Z3 DEF Jobs
  <1>2. [j EXCEPT !.todo = T] \in Jobs
    BY JobChanges, Zenon
  <1> QED
    BY <1>1, <1>2, JobChanges, Zenon

\* The steps the proofs below name are steps of a job.
LEMMA StepNames ==
    {"replays", "evaluate", "compute", "report", "done", "failed"} \subseteq JobSteps
  BY DEF JobSteps

\* RetroInit establishes RetroInv.
LEMMA RetroInitInv == RetroInit => RetroInv
  <1> SUFFICES ASSUME RetroInit PROVE RetroInv
    OBVIOUS
  <1>1. today \in Dates
    BY RetroAssumption, LeastNat DEF RetroInit, Min
  <1>2. \A w \in Workers : work[w] = NoWork /\ NoWork.kind = "none"
    BY DEF RetroInit, NoWork
  <1>3. RetroTypeOK
    <2>1. work \in [Workers -> Jobs]
      BY NoWorkType DEF RetroInit
    <2> QED
      BY <1>1, <1>2, <2>1 DEF RetroInit, RetroTypeOK
  <1>4. RowsInv
    BY FS_EmptySet DEF RetroInit, RowsInv
  <1> QED
    BY <1>2, <1>3, <1>4 DEF RetroInv, JobsInv, HookSound, BackfillSound, StatusInv, EvaluationsAreSound, BackfillNeverDoubles, CompletedIsStored,
       RetroInit

\* Only the bundles change the audit and replay rows.
LEMMA RowsStep == RetroTypeOK /\ RowsInv /\ [RetroNext]_retroVars => RowsInv'
  <1> SUFFICES ASSUME RetroTypeOK, RowsInv, [RetroNext]_retroVars PROVE RowsInv'
    OBVIOUS
  <1>0. ASSUME UNCHANGED <<audits, replays, loose>> PROVE RowsInv'
    BY <1>0 DEF RowsInv, AuditsBind, AuditRows
  <1>1. ASSUME NEW b \in Bundles, BundleValid(b), ~Conflict(audits, b.audits)
        PROVE  \A x, y \in audits \cup b.audits : x.id = y.id => x = y
    BY <1>1 DEF RowsInv, BundleValid, Conflict
  <1>2. ASSUME NEW b \in Bundles, PersistAudits(b) PROVE RowsInv'
    <2>1. \A x, y \in audits' : x.id = y.id => x = y
      BY <1>1, <1>2 DEF PersistAudits
    <2>2. ASSUME NEW r \in replays \ loose PROVE AuditsBind(r)'
      <3>1. r.audits \subseteq {a.id : a \in audits'}
        BY <1>2, <2>2 DEF PersistAudits, RowsInv, AuditsBind
      <3>2. ASSUME NEW a \in audits', a.id \in r.audits PROVE a.cycle = r.cycle
        <4>1. PICK x \in audits : x.id = a.id
          BY <2>2, <3>2 DEF RowsInv, AuditsBind
        <4>2. x = a
          BY <1>2, <2>1, <3>2, <4>1 DEF PersistAudits
        <4> QED
          BY <2>2, <3>2, <4>1, <4>2 DEF RowsInv, AuditsBind, AuditRows
      <3> QED
        BY <3>1, <3>2 DEF AuditsBind, AuditRows
    <2> QED
      BY <1>2, <2>1, <2>2 DEF PersistAudits, RowsInv
  <1>3. ASSUME NEW b \in Bundles, PersistReplays(b) PROVE RowsInv'
    <2>1. IsFiniteSet(replays')
      BY <1>3, FS_Union, RetroAssumption DEF PersistReplays, RowsInv
    <2>2. replays' \ loose' \subseteq replays \ loose /\ audits' = audits
      BY <1>3 DEF PersistReplays
    <2> QED
      BY <2>1, <2>2 DEF RowsInv, AuditsBind, AuditRows
  <1>4. ASSUME NEW b \in Bundles, PersistBundle(b) PROVE RowsInv'
    <2>1. audits' = audits \cup b.audits /\ replays' = replays \cup b.replays /\ loose' = loose
      BY <1>4 DEF PersistBundle, BundleCommits
    <2>2. \A x, y \in audits' : x.id = y.id => x = y
      BY <1>1, <1>4, <2>1 DEF PersistBundle, BundleCommits
    <2>3. IsFiniteSet(replays')
      BY <2>1, FS_Union, RetroAssumption DEF RowsInv
    <2>4. ASSUME NEW r \in replays' \ loose' PROVE AuditsBind(r)'
      <3>1. CASE r \in replays \ loose
        <4>1. r.audits \subseteq {a.id : a \in audits'}
          BY <2>1, <3>1 DEF RowsInv, AuditsBind
        <4>2. ASSUME NEW a \in audits', a.id \in r.audits PROVE a.cycle = r.cycle
          <5>1. PICK x \in audits : x.id = a.id
            BY <3>1, <4>2 DEF RowsInv, AuditsBind
          <5>2. x = a
            BY <2>1, <2>2, <4>2, <5>1
          <5> QED
            BY <3>1, <4>2, <5>1, <5>2 DEF RowsInv, AuditsBind, AuditRows
        <4> QED
          BY <4>1, <4>2 DEF AuditsBind, AuditRows
      <3>2. CASE r \in b.replays
        <4>1. r.audits \subseteq {x.id : x \in b.audits}
          BY <1>4, <3>2 DEF PersistBundle, BundleValid
        <4>2. \A x \in b.audits : x.cycle = r.cycle
          BY <1>4, <3>2 DEF PersistBundle, BundleValid
        <4>3. ASSUME NEW a \in audits', a.id \in r.audits PROVE a.cycle = r.cycle
          <5>1. PICK x \in b.audits : x.id = a.id
            BY <4>1, <4>3
          <5>2. x = a
            BY <2>1, <2>2, <4>3, <5>1
          <5> QED
            BY <4>2, <5>2
        <4> QED
          BY <2>1, <4>1, <4>3 DEF AuditsBind, AuditRows
      <3> QED
        BY <2>1, <2>4, <3>1, <3>2
    <2> QED
      BY <2>2, <2>3, <2>4 DEF RowsInv
  <1>5. ASSUME NEW w \in Workers,
               \/ \E q \in HookRequests : StartHook(w, q)
               \/ \E q \in BackfillRequests : StartBackfill(w, q)
               \/ HookManifest(w) \/ HookReplay(w) \/ HookAudits(w) \/ HookEvaluate(w) \/ HookRecord(w)
               \/ BackfillExisting(w) \/ BackfillCompute(w) \/ BackfillUpsert(w) \/ BackfillReport(w) \/ JobGone(w)
        PROVE  UNCHANGED <<audits, replays, loose>>
    BY <1>5 DEF StartHook, StartBackfill, StartJob, HookManifest, HookReplay, HookAudits, HookEvaluate, HookRecord,
       BackfillExisting, BackfillCompute, BackfillUpsert, BackfillReport, JobGone, OnlyWork
  <1>6. ASSUME NEW c \in DOMAIN ManifestOf, PublishManifest(c) \/ Tick \/ UNCHANGED retroVars
        PROVE  UNCHANGED <<audits, replays, loose>>
    BY <1>6 DEF PublishManifest, Tick, retroVars
  <1>7. Tick \/ UNCHANGED retroVars => UNCHANGED <<audits, replays, loose>>
    BY DEF Tick, retroVars
  <1> HIDE DEF RowsInv
  <1> QED
    BY <1>0, <1>2, <1>3, <1>4, <1>5, <1>6, <1>7 DEF RetroNext


\* A job stays a job, and keeps what it was asked.
LEMMA RetroTypeStep == RetroTypeOK /\ [RetroNext]_retroVars => RetroTypeOK'
  <1> SUFFICES ASSUME RetroTypeOK, [RetroNext]_retroVars PROVE RetroTypeOK'
    OBVIOUS
  <1>0. ASSUME NEW w \in Workers, NEW j \in Jobs, j.kind = work[w].kind, j.request = work[w].request,
               work' = [work EXCEPT ![w] = j],
               UNCHANGED <<audits, replays, manifests, today, jobs, loose>>,
               writes' \in Nat, \A e \in evaluations' : e.at \in 1..writes'
        PROVE  RetroTypeOK'
    <2>1. work' \in [Workers -> Jobs]
      BY <1>0 DEF RetroTypeOK
    <2>2. \A x \in Workers : work'[x].kind = work[x].kind /\ work'[x].request = work[x].request
      BY <1>0 DEF RetroTypeOK
    <2> QED
      BY <1>0, <2>1, <2>2 DEF RetroTypeOK
  <1>1. ASSUME NEW w \in Workers PROVE work[w] \in Jobs /\ work \in [Workers -> Jobs]
    BY DEF RetroTypeOK
  <1>00. ASSUME UNCHANGED <<evaluations, writes>> PROVE writes' \in Nat /\ \A e \in evaluations' : e.at \in 1..writes'
    BY <1>00 DEF RetroTypeOK
  <1>2. ASSUME NEW w \in Workers, JobFails(w), UNCHANGED <<audits, replays, manifests, today, jobs, loose, evaluations, writes>>
        PROVE  RetroTypeOK'
    <2>1. PICK j \in Jobs : j = work[w]
      BY <1>1
    <2>2. PICK k : k = [j EXCEPT !.pc = "failed"]
      OBVIOUS
    <2>3. work' = [work EXCEPT ![w] = k]
      BY <1>1, <1>2, <2>1, <2>2 DEF JobFails
    <2>4. k \in Jobs
      BY <2>2, PcChange, StepNames
    <2>4a. k.kind = j.kind /\ k.request = j.request
      BY <2>2 DEF Jobs
    <2> QED
      BY <1>0, <1>00, <1>2, <2>1, <2>3, <2>4, <2>4a
  <1>3. ASSUME NEW b \in Bundles, PersistAudits(b) \/ PersistReplays(b) \/ PersistBundle(b) PROVE RetroTypeOK'
    BY <1>3 DEF PersistAudits, PersistReplays, PersistBundle, RetroTypeOK, AuditUniverse, ReplayUniverse
  <1>4. ASSUME NEW c \in DOMAIN ManifestOf, PublishManifest(c) PROVE RetroTypeOK'
    BY <1>4 DEF PublishManifest, RetroTypeOK
  <1>5. CASE Tick
    BY <1>5, TickForward DEF Tick, RetroTypeOK
  <1>6. CASE UNCHANGED retroVars
    BY <1>6 DEF retroVars, RetroTypeOK
  <1>7. ASSUME NEW w \in Workers, NEW q, NEW k, NEW p, StartJob(w, k, p, q),
               \/ k = "hook" /\ p = "manifest" /\ q \in HookRequests
               \/ k = "backfill" /\ p = "existing" /\ q \in BackfillRequests
        PROVE  RetroTypeOK'
    <2> DEFINE j == [NoWork EXCEPT !.kind = k, !.pc = p, !.request = q, !.job = jobs + 1, !.asOf = today]
    <2>1. jobs + 1 \in Nat /\ today \in Nat
      BY RetroAssumption DEF RetroTypeOK
    <2>2. j \in Jobs /\ j.kind = k /\ j.request = q
      BY <1>7, <2>1 DEF NoWork, Jobs, JobSteps
    <2>3. work' = [work EXCEPT ![w] = j]
      BY <1>7 DEF StartJob
    <2> HIDE DEF j
    <2>4. work' \in [Workers -> Jobs]
      BY <1>1, <2>2, <2>3
    <2>5. \A x \in Workers : /\ work'[x].kind = "hook" => work'[x].request \in HookRequests
                             /\ work'[x].kind = "backfill" => work'[x].request \in BackfillRequests
      BY <1>7, <2>2, <2>3 DEF RetroTypeOK
    <2> QED
      BY <1>7, <2>1, <2>4, <2>5 DEF StartJob, RetroTypeOK
  <1>8. ASSUME NEW w \in Workers, HookManifest(w) PROVE RetroTypeOK'
    <2> DEFINE q == work[w].request
    <2>1. CASE q.cycle \notin manifests
      BY <1>2, <1>8, <2>1 DEF HookManifest, OnlyWork
    <2>2. CASE q.cycle \in manifests
      <3>1. PICK A : A = IF q.ids # {} THEN q.ids
                         ELSE IF q.objects # {} THEN q.objects ELSE DOMAIN ManifestOf[q.cycle]
        OBVIOUS
      <3>2. A \in SUBSET Nat
        BY <1>8, <2>2, <3>1, RetroAssumption DEF HookManifest, RetroTypeOK
      <3>3. PICK j \in Jobs : j = work[w]
        BY <1>1
      <3>4. PICK k : k = [j EXCEPT !.pc = "replays", !.ask = A]
        OBVIOUS
      <3>5. work' = [work EXCEPT ![w] = k]
        BY <1>1, <1>8, <2>2, <3>1, <3>3, <3>4 DEF HookManifest
      <3>6. k \in Jobs
        BY <3>2, <3>4, AskChange, StepNames
      <3>6a. k.kind = j.kind /\ k.request = j.request
        BY <3>4 DEF Jobs
      <3> QED
        BY <1>0, <1>00, <1>8, <3>3, <3>5, <3>6, <3>6a DEF HookManifest, OnlyWork
    <2> QED
      BY <2>1, <2>2
  <1>9. ASSUME NEW w \in Workers, HookReplay(w) PROVE RetroTypeOK'
    <2> DEFINE q == work[w].request
               o == Min(work[w].ask)
               rows == IF q.ids # {} THEN {r \in replays : r.id = o} ELSE ReplayRows(q.cycle, o)
    <2>1. CASE Cardinality(rows) # 1
      BY <1>2, <1>9, <2>1 DEF HookReplay, OnlyWork
    <2>2. CASE Cardinality(rows) = 1
      <3>1. PICK j \in Jobs : j = work[w]
        BY <1>1
      <3>2. PICK A, F : A = j.ask \ {o} /\ F = j.found \cup rows
        OBVIOUS
      <3>3. A \in SUBSET Nat /\ F \in SUBSET ReplayUniverse
        BY <3>2, JobFields DEF ReplayRows, RetroTypeOK
      <3>4. PICK k : k = [j EXCEPT !.ask = A, !.found = F]
        OBVIOUS
      <3>5. work' = [work EXCEPT ![w] = k]
        BY <1>1, <1>9, <2>2, <3>1, <3>2, <3>4 DEF HookReplay
      <3>6. k \in Jobs
        BY <3>3, <3>4, FoundChange
      <3>6a. k.kind = j.kind /\ k.request = j.request
        BY <3>4 DEF Jobs
      <3> QED
        BY <1>0, <1>00, <1>9, <3>1, <3>5, <3>6, <3>6a DEF HookReplay, OnlyWork
    <2> QED
      BY <2>1, <2>2
  <1>10. ASSUME NEW w \in Workers, HookAudits(w) PROVE RetroTypeOK'
    <2>1. CASE ~LineageHolds(work[w].found, work[w].request)
      BY <1>2, <1>10, <2>1 DEF HookAudits, OnlyWork
    <2>2. CASE LineageHolds(work[w].found, work[w].request)
      <3>1. PICK j \in Jobs : j = work[w]
        BY <1>1
      <3>2. PICK T : T = {r.id : r \in work[w].found} \X work[w].request.horizons
        OBVIOUS
      <3>3. T \in SUBSET Pairs
        <4>1. work[w].found \subseteq ReplayUniverse /\ work[w].request \in HookRequests
          BY <1>10, <3>1, JobFields DEF HookAudits, RetroTypeOK
        <4> QED
          BY <3>2, <4>1, RetroAssumption DEF Pairs
      <3>4. PICK k : k = [j EXCEPT !.pc = "evaluate", !.todo = T]
        OBVIOUS
      <3>5. work' = [work EXCEPT ![w] = k]
        BY <1>1, <1>10, <2>2, <3>1, <3>2, <3>4 DEF HookAudits
      <3>6. k \in Jobs
        BY <3>3, <3>4, TodoChange, StepNames
      <3>6a. k.kind = j.kind /\ k.request = j.request
        BY <3>4 DEF Jobs
      <3> QED
        BY <1>0, <1>00, <1>10, <3>1, <3>5, <3>6, <3>6a DEF HookAudits, OnlyWork
    <2> QED
      BY <2>1, <2>2
  <1>11. ASSUME NEW w \in Workers, HookEvaluate(w) PROVE RetroTypeOK'
    <2>1. PICK pair : pair = FirstPair(work[w].todo)
      OBVIOUS
    <2>2. PICK j \in Jobs : j = work[w]
      BY <1>1
    <2>3. pair \in Pairs
      BY <1>11, <2>1, <2>2, FirstPairIn, JobFields DEF HookEvaluate
    <2>4. ASSUME NEW m \in {"pending", "completed"},
                 work' = [work EXCEPT ![w].todo = @ \ {pair}, ![w].marks = @ \cup {<<pair, m>>}],
                 writes' \in Nat, \A e \in evaluations' : e.at \in 1..writes'
          PROVE  RetroTypeOK'
      <3>1. PICK T, M : T = j.todo \ {pair} /\ M = j.marks \cup {<<pair, m>>}
        OBVIOUS
      <3>2. T \in SUBSET Pairs /\ M \in SUBSET (Pairs \X {"pending", "completed"})
        BY <2>3, <2>4, <3>1, JobFields
      <3>3. PICK k : k = [j EXCEPT !.todo = T, !.marks = M]
        OBVIOUS
      <3>4. work' = [work EXCEPT ![w] = k]
        BY <1>1, <2>2, <2>4, <3>1, <3>3
      <3>5. k \in Jobs
        BY <3>2, <3>3, MarksChange
      <3>5a. k.kind = j.kind /\ k.request = j.request
        BY <3>3 DEF Jobs
      <3> QED
        BY <1>0, <1>11, <2>2, <2>4, <3>4, <3>5, <3>5a DEF HookEvaluate
    <2>5. CASE MarkPending(w, pair)
      BY <1>00, <2>4, <2>5 DEF MarkPending
    <2>6. CASE EvaluationFails(w)
      BY <1>2, <1>11, <2>6 DEF EvaluationFails, HookEvaluate
    <2>7. ASSUME NEW scores, AppendEvaluation(w, pair, scores) PROVE RetroTypeOK'
      <3>1. writes' \in Nat /\ \A e \in evaluations' : e.at \in 1..writes'
        BY <2>7 DEF AppendEvaluation, RetroTypeOK
      <3> QED
        BY <2>4, <2>7, <3>1 DEF AppendEvaluation
    <2>8. MarkPending(w, pair) \/ EvaluationFails(w) \/ \E scores : AppendEvaluation(w, pair, scores)
      BY <1>11, <2>1 DEF HookEvaluate
    <2> QED
      BY <2>5, <2>6, <2>7, <2>8
  <1>12. ASSUME NEW w \in Workers, NEW p \in JobSteps, work' = [work EXCEPT ![w].pc = p],
                writes' \in Nat, \A e \in evaluations' : e.at \in 1..writes',
                UNCHANGED <<audits, replays, manifests, today, jobs, loose>>
         PROVE  RetroTypeOK'
    <2>1. PICK j \in Jobs : j = work[w]
      BY <1>1
    <2>2. PICK k : k = [j EXCEPT !.pc = p]
      OBVIOUS
    <2>3. work' = [work EXCEPT ![w] = k]
      BY <1>1, <1>12, <2>1, <2>2
    <2>4. k \in Jobs
      BY <2>2, PcChange
    <2>4a. k.kind = j.kind /\ k.request = j.request
      BY <2>2 DEF Jobs
    <2> QED
      BY <1>0, <1>12, <2>1, <2>3, <2>4, <2>4a
  <1>13. ASSUME NEW w \in Workers, HookRecord(w) PROVE RetroTypeOK'
    BY <1>00, <1>2, <1>12, <1>13 DEF HookRecord, JobSteps
  <1>14. ASSUME NEW w \in Workers, BackfillExisting(w) PROVE RetroTypeOK'
    <2> DEFINE q == work[w].request
    <2>1. CASE TargetsFor(q) = {} /\ q.object # 0
      BY <1>2, <1>14, <2>1 DEF BackfillExisting, OnlyWork
    <2>2. CASE ~(TargetsFor(q) = {} /\ q.object # 0)
      <3>1. PICK j \in Jobs : j = work[w]
        BY <1>1
      <3>2. PICK T : T = {<<id[2], id[3]>> : id \in ExpectedIds(q) \ StoredIds}
        OBVIOUS
      <3>3. T \in SUBSET Pairs
        <4>1. q \in BackfillRequests
          BY <1>14 DEF BackfillExisting, RetroTypeOK
        <4>2. \A id \in ExpectedIds(q) : id[2] \in Nat /\ id[3] \in Nat
          BY <4>1, RetroAssumption DEF ExpectedIds, EvaluationId, TargetsFor
        <4> QED
          BY <3>2, <4>2 DEF Pairs
      <3>4. PICK k : k = [j EXCEPT !.pc = "compute", !.todo = T]
        OBVIOUS
      <3>5. work' = [work EXCEPT ![w] = k]
        BY <1>1, <1>14, <2>2, <3>1, <3>2, <3>4 DEF BackfillExisting
      <3>6. k \in Jobs
        BY <3>3, <3>4, TodoChange, StepNames
      <3>6a. k.kind = j.kind /\ k.request = j.request
        BY <3>4 DEF Jobs
      <3> QED
        BY <1>0, <1>00, <1>14, <3>1, <3>5, <3>6, <3>6a DEF BackfillExisting, OnlyWork
    <2> QED
      BY <2>1, <2>2
  <1>15. ASSUME NEW w \in Workers, BackfillCompute(w) PROVE RetroTypeOK'
    <2>1. PICK pair : pair = NextTarget(work[w].todo)
      OBVIOUS
    <2>2. PICK j \in Jobs : j = work[w]
      BY <1>1
    <2>3. pair \in Pairs
      BY <1>15, <2>1, <2>2, NextTargetIn, JobFields DEF BackfillCompute
    <2>4. CASE JobFails(w)
      BY <1>2, <1>15, <2>4 DEF BackfillCompute, OnlyWork
    <2>5. ASSUME NEW s \in Int,
                 work' = [work EXCEPT ![w].todo = @ \ {pair}, ![w].made = @ \cup {<<pair, s>>}]
          PROVE  RetroTypeOK'
      <3>1. PICK T, M : T = j.todo \ {pair} /\ M = j.made \cup {<<pair, s>>}
        OBVIOUS
      <3>2. T \in SUBSET Pairs /\ M \in SUBSET (Pairs \X Int)
        BY <2>3, <2>5, <3>1, JobFields
      <3>3. PICK k : k = [j EXCEPT !.todo = T, !.made = M]
        OBVIOUS
      <3>4. work' = [work EXCEPT ![w] = k]
        BY <1>1, <2>2, <2>5, <3>1, <3>3
      <3>5. k \in Jobs
        BY <3>2, <3>3, MadeChange
      <3>5a. k.kind = j.kind /\ k.request = j.request
        BY <3>3 DEF Jobs
      <3> QED
        BY <1>0, <1>00, <1>15, <2>2, <3>4, <3>5, <3>5a DEF BackfillCompute, OnlyWork
    <2>6. ASSUME NEW v \in Outcomes, ~JobFails(w),
                 LET scores == Computed(work[w].request.cycle, pair[1], v, Gateways)
                 IN  IF scores = {} THEN JobFails(w)
                     ELSE work' = [work EXCEPT ![w].todo = @ \ {pair},
                                               ![w].made = @ \cup {<<pair, CHOOSE s \in scores : TRUE>>}]
          PROVE  RetroTypeOK'
      <3>1. PICK S : S = Computed(work[w].request.cycle, pair[1], v, Gateways)
        OBVIOUS
      <3>2. S \subseteq Int /\ S # {}
        BY <2>6, <3>1, ComputedType
      <3>3. (CHOOSE s \in S : TRUE) \in Int
        BY <3>2
      <3> QED
        BY <2>5, <2>6, <3>1, <3>2, <3>3
    <2> QED
      BY <1>15, <2>1, <2>4, <2>6 DEF BackfillCompute
  <1>16. ASSUME NEW w \in Workers, BackfillUpsert(w) PROVE RetroTypeOK'
    <2>1. writes' \in Nat /\ \A e \in evaluations' : e.at \in 1..writes'
      BY <1>16 DEF BackfillUpsert, UpsertedRows, MadeRows, RetroTypeOK
    <2> QED
      BY <1>12, <1>16, <2>1 DEF BackfillUpsert, JobSteps
  <1>17. ASSUME NEW w \in Workers, BackfillReport(w) PROVE RetroTypeOK'
    <2>1. PICK j \in Jobs : j = work[w]
      BY <1>1
    <2>2. PICK b \in BOOLEAN : work' = [work EXCEPT ![w].pc = "done", ![w].complete = b]
      BY <1>17 DEF BackfillReport
    <2>3. PICK k : k = [j EXCEPT !.pc = "done", !.complete = b]
      OBVIOUS
    <2>4. work' = [work EXCEPT ![w] = k]
      BY <1>1, <2>1, <2>2, <2>3
    <2>5. k \in Jobs
      BY <2>3, ReportChange, StepNames
    <2>5a. k.kind = j.kind /\ k.request = j.request
      BY <2>3 DEF Jobs
    <2> QED
      BY <1>0, <1>00, <1>17, <2>1, <2>4, <2>5, <2>5a DEF BackfillReport, OnlyWork
  <1>18. ASSUME NEW w \in Workers, JobGone(w) PROVE RetroTypeOK'
    <2>1. work' \in [Workers -> Jobs] /\ \A x \in Workers : work'[x] \in {work[x], NoWork}
      BY <1>1, <1>18, NoWorkType DEF JobGone
    <2> QED
      BY <1>18, <2>1, NoWorkType DEF JobGone, OnlyWork, RetroTypeOK
  <1> HIDE DEF RetroTypeOK
  <1> QED
    BY <1>3, <1>4, <1>5, <1>6, <1>7, <1>8, <1>9, <1>10, <1>11, <1>13, <1>14, <1>15, <1>16, <1>17, <1>18
       DEF RetroNext, StartHook, StartBackfill

-----------------------------------------------------------------------------
(* What jobs have done                                                     *)

\* What a hook knows stays true as long as it changes neither its request nor
\* its marks.
LEMMA HookKept ==
    ASSUME NEW j, NEW k, NEW day, NEW rows, HookSound(j, day, rows),
           k.kind = j.kind, k.request = j.request, k.job = j.job, k.asOf = j.asOf, k.marks = j.marks,
           k.found = j.found \/ j.pc \in {"manifest", "replays"},
           k.pc \in {"manifest", "replays"} => j.pc \in {"manifest", "replays"}
    PROVE  HookSound(k, day, rows)
  BY DEF HookSound, HookId

\* What a hook knows stays true while days pass and evaluations are added.
LEMMA HookMonotone ==
    ASSUME NEW j, j.asOf \in Nat, NEW d \in Nat, NEW e \in Nat, d <= e, NEW E, NEW F, E \subseteq F, HookSound(j, d, E)
    PROVE  HookSound(j, e, F)
  BY DEF HookSound

\* Every step keeps what each job knows.
LEMMA JobsStep == RetroTypeOK /\ JobsInv /\ [RetroNext]_retroVars => JobsInv'
  <1> SUFFICES ASSUME RetroTypeOK, JobsInv, [RetroNext]_retroVars PROVE JobsInv'
    OBVIOUS
  <1>1. ASSUME NEW w \in Workers PROVE /\ work[w] \in Jobs /\ work \in [Workers -> Jobs]
                                        /\ HookSound(work[w], today, evaluations) /\ BackfillSound(work[w])
    BY DEF RetroTypeOK, JobsInv
  <1>2. today \in Nat
    BY RetroAssumption DEF RetroTypeOK
  \* Of other workers, and when no job moves.
  <1>3. ASSUME NEW W \in SUBSET Workers, \A x \in W : work'[x] = work[x], today' \in Nat, today <= today',
               evaluations \subseteq evaluations'
        PROVE  \A x \in W : HookSound(work[x], today, evaluations)' /\ BackfillSound(work[x])'
    <2> SUFFICES ASSUME NEW x \in W PROVE HookSound(work'[x], today', evaluations') /\ BackfillSound(work'[x])
      OBVIOUS
    <2>1. work'[x] = work[x] /\ work[x] \in Jobs /\ HookSound(work[x], today, evaluations) /\ BackfillSound(work[x])
      BY <1>1, <1>3
    <2>2. work[x].asOf \in Nat
      BY <2>1, JobFields
    <2>3. HookSound(work[x], today', evaluations')
      BY <1>2, <1>3, <2>1, <2>2, HookMonotone
    <2> QED
      BY <2>1, <2>3
  <1>4. ASSUME NEW w \in Workers, NEW k, work' = [work EXCEPT ![w] = k], today' = today,
               evaluations \subseteq evaluations', HookSound(k, today, evaluations'), BackfillSound(k)
        PROVE  JobsInv'
    <2>1. work'[w] = k /\ \A x \in Workers \ {w} : work'[x] = work[x]
      BY <1>1, <1>4
    <2>2. PICK W \in SUBSET Workers : W = Workers \ {w}
      OBVIOUS
    <2>3. (\A x \in W : work'[x] = work[x]) /\ today' \in Nat /\ today <= today'
      BY <1>2, <1>4, <2>1, <2>2
    <2>4. \A x \in W : HookSound(work[x], today, evaluations)' /\ BackfillSound(work[x])'
      BY <1>3, <1>4, <2>3
    <2>5. HookSound(work[w], today, evaluations)' /\ BackfillSound(work[w])'
      BY <1>4, <2>1
    <2> QED
      BY <2>2, <2>4, <2>5 DEF JobsInv
  <1>5. ASSUME UNCHANGED work, today' \in Nat, today <= today', UNCHANGED evaluations PROVE JobsInv'
    BY <1>3, <1>5 DEF JobsInv
  \* A job that only moves on.
  <1>6. ASSUME NEW w \in Workers, NEW p \in JobSteps \ {"manifest", "replays", "existing"},
               work' = [work EXCEPT ![w].pc = p], today' = today, evaluations \subseteq evaluations'
        PROVE  JobsInv'
    <2>1. PICK j \in Jobs : j = work[w]
      BY <1>1
    <2>2. PICK k : k = [j EXCEPT !.pc = p]
      OBVIOUS
    <2>3. work' = [work EXCEPT ![w] = k]
      BY <1>1, <1>6, <2>1, <2>2
    <2>4. /\ k.pc = p /\ k.kind = j.kind /\ k.request = j.request /\ k.job = j.job /\ k.asOf = j.asOf
          /\ k.found = j.found /\ k.marks = j.marks /\ k.todo = j.todo /\ k.made = j.made
      BY <2>2 DEF Jobs
    <2>5. j.asOf \in Nat /\ HookSound(j, today, evaluations')
      BY <1>1, <1>2, <1>6, <2>1, JobFields, HookMonotone
    <2>6. HookSound(k, today, evaluations')
      BY <1>6, <2>4, <2>5, HookKept
    <2>7. BackfillSound(k)
      BY <1>1, <1>6, <2>1, <2>4 DEF BackfillSound
    <2> QED
      BY <1>4, <1>6, <2>3, <2>6, <2>7
  <1>7. ASSUME NEW w \in Workers, JobFails(w), UNCHANGED <<today, evaluations>> PROVE JobsInv'
    <2>1. "failed" \in JobSteps \ {"manifest", "replays", "existing"}
      BY StepNames
    <2> QED
      BY <1>6, <1>7, <2>1 DEF JobFails
  <1>8. ASSUME NEW w \in Workers, NEW q, NEW kind \in {"hook", "backfill"}, NEW p, StartJob(w, kind, p, q) PROVE JobsInv'
    <2>1. PICK k : k = [NoWork EXCEPT !.kind = kind, !.pc = p, !.request = q, !.job = jobs + 1, !.asOf = today]
      OBVIOUS
    <2>2. k.marks = {} /\ k.made = {} /\ k.asOf = today
      BY <2>1 DEF NoWork
    <2>3. HookSound(k, today, evaluations) /\ BackfillSound(k)
      BY <1>2, <2>2 DEF HookSound, BackfillSound
    <2> QED
      BY <1>4, <1>8, <2>1, <2>3 DEF StartJob
  <1>9. ASSUME NEW w \in Workers, HookManifest(w) PROVE JobsInv'
    <2> DEFINE q == work[w].request
    <2>1. CASE q.cycle \notin manifests
      BY <1>7, <1>9, <2>1 DEF HookManifest, OnlyWork
    <2>2. CASE q.cycle \in manifests
      <3>1. PICK A : A = IF q.ids # {} THEN q.ids
                         ELSE IF q.objects # {} THEN q.objects ELSE DOMAIN ManifestOf[q.cycle]
        OBVIOUS
      <3>2. PICK j \in Jobs : j = work[w]
        BY <1>1
      <3>3. PICK k : k = [j EXCEPT !.pc = "replays", !.ask = A]
        OBVIOUS
      <3>4. work' = [work EXCEPT ![w] = k]
        BY <1>1, <1>9, <2>2, <3>1, <3>2, <3>3 DEF HookManifest
      <3>5. /\ k.pc = "replays" /\ k.kind = j.kind /\ k.request = j.request /\ k.job = j.job /\ k.asOf = j.asOf
            /\ k.found = j.found /\ k.marks = j.marks
        BY <3>3 DEF Jobs
      <3>6. j.kind = "hook" /\ j.pc = "manifest"
        BY <1>9, <3>2 DEF HookManifest
      <3>7. HookSound(k, today, evaluations) /\ BackfillSound(k)
        BY <1>1, <3>2, <3>5, <3>6, HookKept DEF BackfillSound
      <3> QED
        BY <1>4, <1>9, <3>4, <3>7 DEF HookManifest, OnlyWork
    <2> QED
      BY <2>1, <2>2
  <1>10. ASSUME NEW w \in Workers, HookReplay(w) PROVE JobsInv'
    <2> DEFINE q == work[w].request
               o == Min(work[w].ask)
               rows == IF q.ids # {} THEN {r \in replays : r.id = o} ELSE ReplayRows(q.cycle, o)
    <2>1. CASE Cardinality(rows) # 1
      BY <1>7, <1>10, <2>1 DEF HookReplay, OnlyWork
    <2>2. CASE Cardinality(rows) = 1
      <3>1. PICK j \in Jobs : j = work[w]
        BY <1>1
      <3>2. PICK A, F : A = j.ask \ {o} /\ F = j.found \cup rows
        OBVIOUS
      <3>3. PICK k : k = [j EXCEPT !.ask = A, !.found = F]
        OBVIOUS
      <3>4. work' = [work EXCEPT ![w] = k]
        BY <1>1, <1>10, <2>2, <3>1, <3>2, <3>3 DEF HookReplay
      <3>5. /\ k.pc = j.pc /\ k.kind = j.kind /\ k.request = j.request /\ k.job = j.job /\ k.asOf = j.asOf
            /\ k.marks = j.marks
        BY <3>3 DEF Jobs
      <3>6. j.kind = "hook" /\ j.pc = "replays"
        BY <1>10, <3>1 DEF HookReplay
      <3>7. HookSound(k, today, evaluations) /\ BackfillSound(k)
        BY <1>1, <3>1, <3>5, <3>6, HookKept DEF BackfillSound
      <3> QED
        BY <1>4, <1>10, <3>4, <3>7 DEF HookReplay, OnlyWork
    <2> QED
      BY <2>1, <2>2
  <1>11. ASSUME NEW w \in Workers, HookAudits(w) PROVE JobsInv'
    <2>1. CASE ~LineageHolds(work[w].found, work[w].request)
      BY <1>7, <1>11, <2>1 DEF HookAudits, OnlyWork
    <2>2. CASE LineageHolds(work[w].found, work[w].request)
      <3>1. PICK j \in Jobs : j = work[w]
        BY <1>1
      <3>2. PICK T : T = {r.id : r \in work[w].found} \X work[w].request.horizons
        OBVIOUS
      <3>3. PICK k : k = [j EXCEPT !.pc = "evaluate", !.todo = T]
        OBVIOUS
      <3>4. work' = [work EXCEPT ![w] = k]
        BY <1>1, <1>11, <2>2, <3>1, <3>2, <3>3 DEF HookAudits
      <3>5. /\ k.pc = "evaluate" /\ k.kind = j.kind /\ k.request = j.request /\ k.job = j.job /\ k.asOf = j.asOf
            /\ k.found = j.found /\ k.marks = j.marks
        BY <3>3 DEF Jobs
      <3>6. j.kind = "hook"
        BY <1>11, <3>1 DEF HookAudits
      <3>7. HookSound(k, today, evaluations) /\ BackfillSound(k)
        BY <1>1, <3>1, <3>5, <3>6, HookKept DEF BackfillSound
      <3> QED
        BY <1>4, <1>11, <3>4, <3>7 DEF HookAudits, OnlyWork
    <2> QED
      BY <2>1, <2>2
  <1>12. ASSUME NEW w \in Workers, HookEvaluate(w) PROVE JobsInv'
    <2>1. PICK pair : pair = FirstPair(work[w].todo)
      OBVIOUS
    <2>2. PICK j \in Jobs : j = work[w]
      BY <1>1
    <2>3. j.kind = "hook" /\ j.pc = "evaluate" /\ today' = today
      BY <1>12, <2>2 DEF HookEvaluate
    <2>4. ASSUME NEW m \in {"pending", "completed"},
                 work' = [work EXCEPT ![w].todo = @ \ {pair}, ![w].marks = @ \cup {<<pair, m>>}],
                 evaluations \subseteq evaluations',
                 m = "completed" => /\ Mature(j.request.cycle, pair[2], j.asOf)
                                    /\ \E e \in evaluations' : e.id = HookId(j, pair) /\ e.by = j.job
          PROVE  JobsInv'
      <3>1. PICK T, M : T = j.todo \ {pair} /\ M = j.marks \cup {<<pair, m>>}
        OBVIOUS
      <3>2. PICK k : k = [j EXCEPT !.todo = T, !.marks = M]
        OBVIOUS
      <3>3. work' = [work EXCEPT ![w] = k]
        BY <1>1, <2>2, <2>4, <3>1, <3>2
      <3>4. /\ k.pc = j.pc /\ k.kind = j.kind /\ k.request = j.request /\ k.job = j.job /\ k.asOf = j.asOf
            /\ k.found = j.found /\ k.marks = M
        BY <3>2 DEF Jobs
      <3>5. HookSound(j, today, evaluations')
        BY <1>1, <1>2, <2>2, <2>4, JobFields, HookMonotone
      <3>6. \A x : HookId(k, x) = HookId(j, x)
        BY <3>4 DEF HookId
      <3>7. ASSUME NEW x \in M, x[2] = "completed"
            PROVE  Mature(k.request.cycle, x[1][2], k.asOf) /\ \E e \in evaluations' : e.id = HookId(k, x[1]) /\ e.by = k.job
        <4>1. CASE x \in j.marks
          BY <2>3, <3>4, <3>5, <3>6, <3>7, <4>1 DEF HookSound
        <4>2. CASE x = <<pair, m>>
          BY <2>4, <3>4, <3>6, <3>7, <4>2
        <4> QED
          BY <3>1, <3>7, <4>1, <4>2
      <3>8. HookSound(k, today, evaluations')
        BY <2>3, <3>4, <3>5, <3>7 DEF HookSound
      <3>9. BackfillSound(k)
        BY <2>3, <3>4 DEF BackfillSound
      <3> QED
        BY <1>4, <2>3, <2>4, <3>3, <3>8, <3>9
    <2>5. CASE MarkPending(w, pair)
      BY <2>4, <2>5 DEF MarkPending
    <2>6. CASE EvaluationFails(w)
      BY <1>7, <2>3, <2>6 DEF EvaluationFails
    <2>7. ASSUME NEW scores, AppendEvaluation(w, pair, scores), Mature(j.request.cycle, pair[2], j.asOf) PROVE JobsInv'
      <3>1. PICK e : e = [at |-> writes + 1, id |-> HookId(work[w], pair), by |-> work[w].job, kind |-> "hook",
                          score |-> CHOOSE s \in scores : TRUE]
        OBVIOUS
      <3>2. e \in evaluations' /\ e.id = HookId(j, pair) /\ e.by = j.job /\ evaluations \subseteq evaluations'
        BY <2>2, <2>7, <3>1 DEF AppendEvaluation
      <3> QED
        BY <2>4, <2>7, <3>2 DEF AppendEvaluation
    <2>8. \/ MarkPending(w, pair) \/ EvaluationFails(w)
          \/ (\E scores : AppendEvaluation(w, pair, scores)) /\ Mature(j.request.cycle, pair[2], j.asOf)
      BY <1>12, <2>1, <2>2 DEF HookEvaluate
    <2> QED
      BY <2>5, <2>6, <2>7, <2>8
  <1>13. ASSUME NEW w \in Workers, HookRecord(w) PROVE JobsInv'
    BY <1>6, <1>7, <1>13 DEF HookRecord, JobSteps
  <1>14. ASSUME NEW w \in Workers, BackfillExisting(w) PROVE JobsInv'
    <2> DEFINE q == work[w].request
    <2>1. CASE TargetsFor(q) = {} /\ q.object # 0
      BY <1>7, <1>14, <2>1 DEF BackfillExisting, OnlyWork
    <2>2. CASE ~(TargetsFor(q) = {} /\ q.object # 0)
      <3>1. PICK j \in Jobs : j = work[w]
        BY <1>1
      <3>2. PICK T : T = {<<id[2], id[3]>> : id \in ExpectedIds(q) \ StoredIds}
        OBVIOUS
      <3>3. PICK k : k = [j EXCEPT !.pc = "compute", !.todo = T]
        OBVIOUS
      <3>4. work' = [work EXCEPT ![w] = k]
        BY <1>1, <1>14, <2>2, <3>1, <3>2, <3>3 DEF BackfillExisting
      <3>5. k.kind = j.kind /\ k.made = j.made
        BY <3>3 DEF Jobs
      <3>6. j.kind = "backfill" /\ j.pc = "existing"
        BY <1>14, <3>1 DEF BackfillExisting
      <3>7. HookSound(k, today, evaluations) /\ BackfillSound(k)
        BY <1>1, <3>1, <3>5, <3>6 DEF BackfillSound, HookSound
      <3> QED
        BY <1>4, <1>14, <3>4, <3>7 DEF BackfillExisting, OnlyWork
    <2> QED
      BY <2>1, <2>2
  <1>15. ASSUME NEW w \in Workers, BackfillCompute(w) PROVE JobsInv'
    <2>1. PICK pair : pair = NextTarget(work[w].todo)
      OBVIOUS
    <2>2. PICK j \in Jobs : j = work[w]
      BY <1>1
    <2>3. j.kind = "backfill" /\ j.pc = "compute" /\ pair \in j.todo
      BY <1>15, <2>1, <2>2, NextTargetIn, JobFields DEF BackfillCompute
    <2>4. CASE JobFails(w)
      BY <1>7, <1>15, <2>4 DEF BackfillCompute, OnlyWork
    <2>5. ASSUME NEW s, work' = [work EXCEPT ![w].todo = @ \ {pair}, ![w].made = @ \cup {<<pair, s>>}]
          PROVE  JobsInv'
      <3>1. PICK T, M : T = j.todo \ {pair} /\ M = j.made \cup {<<pair, s>>}
        OBVIOUS
      <3>2. PICK k : k = [j EXCEPT !.todo = T, !.made = M]
        OBVIOUS
      <3>3. work' = [work EXCEPT ![w] = k]
        BY <1>1, <2>2, <2>5, <3>1, <3>2
      <3>4. k.pc = j.pc /\ k.kind = j.kind /\ k.todo = T /\ k.made = M
        BY <3>2 DEF Jobs
      <3>5. HookSound(k, today, evaluations)
        BY <2>3, <3>4 DEF HookSound
      <3>6. BackfillSound(j)
        BY <1>1, <2>2
      <3>7. BackfillSound(k)
        BY <2>3, <3>1, <3>4, <3>6 DEF BackfillSound
      <3> QED
        BY <1>4, <1>15, <3>3, <3>5, <3>7 DEF BackfillCompute, OnlyWork
    <2>6. JobFails(w) \/ \E s : work' = [work EXCEPT ![w].todo = @ \ {pair}, ![w].made = @ \cup {<<pair, s>>}]
      BY <1>15, <2>1 DEF BackfillCompute
    <2> QED
      BY <2>4, <2>5, <2>6
  <1>16. ASSUME NEW w \in Workers, BackfillUpsert(w) PROVE JobsInv'
    BY <1>6, <1>16 DEF BackfillUpsert, JobSteps
  <1>17. ASSUME NEW w \in Workers, BackfillReport(w) PROVE JobsInv'
    <2>1. PICK j \in Jobs : j = work[w]
      BY <1>1
    <2>2. PICK b \in BOOLEAN : work' = [work EXCEPT ![w].pc = "done", ![w].complete = b]
      BY <1>17 DEF BackfillReport
    <2>3. PICK k : k = [j EXCEPT !.pc = "done", !.complete = b]
      OBVIOUS
    <2>4. work' = [work EXCEPT ![w] = k]
      BY <1>1, <2>1, <2>2, <2>3
    <2>5. k.kind = j.kind /\ k.pc = "done" /\ k.todo = j.todo /\ k.made = j.made
      BY <2>3 DEF Jobs
    <2>6. HookSound(k, today, evaluations) /\ BackfillSound(k)
      BY <1>1, <1>17, <2>1, <2>5 DEF BackfillReport, HookSound, BackfillSound
    <2> QED
      BY <1>4, <1>17, <2>4, <2>6 DEF BackfillReport, OnlyWork
  <1>18. ASSUME NEW w \in Workers, JobGone(w) PROVE JobsInv'
    <2>1. HookSound(NoWork, today, evaluations) /\ BackfillSound(NoWork)
      BY NoWorkType DEF HookSound, BackfillSound
    <2> QED
      BY <1>4, <1>18, <2>1 DEF JobGone, OnlyWork
  <1>19. ASSUME NEW b \in Bundles, PersistAudits(b) \/ PersistReplays(b) \/ PersistBundle(b) PROVE JobsInv'
    BY <1>2, <1>5, <1>19 DEF PersistAudits, PersistReplays, PersistBundle
  <1>20. ASSUME NEW c \in DOMAIN ManifestOf, PublishManifest(c) PROVE JobsInv'
    BY <1>2, <1>5, <1>20 DEF PublishManifest
  <1>21. CASE Tick
    BY <1>5, <1>21, TickForward, RetroAssumption DEF Tick
  <1>22. CASE UNCHANGED retroVars
    BY <1>2, <1>5, <1>22 DEF retroVars
  <1> HIDE DEF JobsInv
  <1> QED
    BY <1>8, <1>9, <1>10, <1>11, <1>12, <1>13, <1>14, <1>15, <1>16, <1>17, <1>18, <1>19, <1>20, <1>21, <1>22
       DEF RetroNext, StartHook, StartBackfill

\* A new status is of a job's marks; a new evaluation is a hook's, or of an id
\* that is not stored.
LEMMA SoundStep == RetroInv /\ [RetroNext]_retroVars => StatusInv' /\ EvaluationsAreSound'
  <1> SUFFICES ASSUME RetroInv, [RetroNext]_retroVars PROVE StatusInv' /\ EvaluationsAreSound'
    OBVIOUS
  <1> USE DEF RetroInv
  <1>1. today \in Nat /\ \A w \in Workers : work[w] \in Jobs
    BY RetroAssumption DEF RetroTypeOK
  <1>2. ASSUME UNCHANGED <<evaluations, statuses>>, today' \in Nat, today <= today' PROVE StatusInv' /\ EvaluationsAreSound'
    <2>1. StatusInv' /\ BackfillNeverDoubles'
      BY <1>2 DEF StatusInv, EvaluationsAreSound, BackfillNeverDoubles
    <2>2. CompletedIsStored'
      BY <1>1, <1>2 DEF StatusInv, EvaluationsAreSound, CompletedIsStored, Mature
    <2> QED
      BY <2>1, <2>2 DEF EvaluationsAreSound
  <1>3. ASSUME evaluations \subseteq evaluations', UNCHANGED <<statuses, today>> PROVE StatusInv' /\ CompletedIsStored'
    BY <1>3 DEF StatusInv, EvaluationsAreSound, CompletedIsStored
  <1>4. ASSUME NEW w \in Workers, HookEvaluate(w), ~UNCHANGED evaluations PROVE StatusInv' /\ EvaluationsAreSound'
    <2>1. PICK e : /\ evaluations' = evaluations \cup {e} /\ e.at = writes + 1 /\ e.kind = "hook"
      <3>1. PICK pair, scores : AppendEvaluation(w, pair, scores)
        BY <1>4 DEF HookEvaluate, MarkPending, EvaluationFails
      <3>2. PICK e : e = [at |-> writes + 1, id |-> HookId(work[w], pair), by |-> work[w].job, kind |-> "hook",
                          score |-> CHOOSE s \in scores : TRUE]
        OBVIOUS
      <3>3. e.at = writes + 1 /\ e.kind = "hook"
        BY <3>2
      <3> QED
        BY <3>1, <3>2, <3>3 DEF AppendEvaluation
    <2>2. \A x \in evaluations : x.at \in Int /\ x.at < e.at
      <3>1. writes \in Nat /\ \A x \in evaluations : x.at \in 1..writes
        BY DEF RetroTypeOK
      <3> QED
        BY <2>1, <3>1
    <2>3. BackfillNeverDoubles'
      <3> SUFFICES ASSUME NEW x \in evaluations \cup {e}, NEW y \in evaluations \cup {e}, x.id = y.id, x # y
                   PROVE  x.at # y.at /\ (x.at < y.at => y.kind = "hook")
        BY <2>1 DEF BackfillNeverDoubles
      <3>0. e.at \in Int
        BY <2>1 DEF RetroTypeOK
      <3>1. CASE x \in evaluations /\ y \in evaluations
        BY <3>1 DEF EvaluationsAreSound, BackfillNeverDoubles
      <3>2. CASE x \in evaluations /\ y = e
        BY <2>1, <2>2, <3>0, <3>2
      <3>3. CASE x = e /\ y \in evaluations
        BY <2>1, <2>2, <3>0, <3>3
      <3> QED
        BY <3>1, <3>2, <3>3
    <2>4. StatusInv' /\ CompletedIsStored'
      BY <1>3, <1>4, <2>1 DEF HookEvaluate
    <2> QED
      BY <2>3, <2>4 DEF EvaluationsAreSound
  <1>5. ASSUME NEW w \in Workers, BackfillUpsert(w) PROVE StatusInv' /\ EvaluationsAreSound'
    <2>1. PICK N : N = UpsertedRows(MadeRows(w))
      OBVIOUS
    <2>2. PICK j \in Jobs : j = work[w]
      BY <1>1
    <2>3. j.made \subseteq Pairs \X Int /\ \A m, n \in j.made : m[1] = n[1] => m = n
      BY <1>5, <2>2, JobFields DEF BackfillUpsert, JobsInv, BackfillSound
    <2>4. \A x, y \in N : x.id = y.id => x = y
      <3> SUFFICES ASSUME NEW x \in N, NEW y \in N, x.id = y.id PROVE x = y
        OBVIOUS
      <3> DEFINE R(m) == [at |-> writes + 1, id |-> EvaluationId(j.request.cycle, m[1][1], m[1][2]), by |-> j.job,
                          kind |-> "backfill", score |-> m[2]]
      <3>1. PICK m \in j.made, n \in j.made : x = R(m) /\ y = R(n)
        BY <2>1, <2>2 DEF UpsertedRows, MadeRows
      <3>2. m[1] \in Pairs /\ n[1] \in Pairs
        BY <2>3
      <3>3. m[1][1] = n[1][1] /\ m[1][2] = n[1][2]
        BY <3>1 DEF EvaluationId
      <3>4. m[1] = n[1]
        BY <3>2, <3>3 DEF Pairs
      <3> QED
        BY <2>3, <3>1, <3>4
    <2>5. \A x \in N : x.at = writes + 1 /\ x.id \notin StoredIds
      BY <2>1 DEF UpsertedRows, MadeRows
    <2>6. \A x \in evaluations, y \in N : x.id # y.id
      BY <2>5 DEF StoredIds
    <2>7. evaluations' = evaluations \cup N
      BY <1>5, <2>1 DEF BackfillUpsert
    <2>8. BackfillNeverDoubles'
      BY <2>4, <2>6, <2>7 DEF EvaluationsAreSound, BackfillNeverDoubles
    <2>9. StatusInv' /\ CompletedIsStored'
      BY <1>3, <1>5, <2>7 DEF BackfillUpsert
    <2> QED
      BY <2>8, <2>9 DEF EvaluationsAreSound
  <1>6. ASSUME NEW w \in Workers, HookRecord(w), ~UNCHANGED statuses PROVE StatusInv' /\ EvaluationsAreSound'
    <2>1. PICK j \in Jobs : j = work[w]
      BY <1>1
    <2>2. /\ statuses' = statuses \cup {[id |-> HookId(j, m[1]), state |-> m[2], by |-> j.job] : m \in j.marks}
          /\ UNCHANGED <<today, evaluations>> /\ j.kind = "hook"
      BY <1>6, <2>1 DEF HookRecord
    <2>3. j.request.cycle \in Nat /\ j.asOf \in Nat /\ HookSound(j, today, evaluations)
      BY <2>1, <2>2, JobFields, RetroAssumption DEF RetroTypeOK, JobsInv
    <2>4. ASSUME NEW s \in statuses' \ statuses
          PROVE  \E m \in j.marks : /\ s.state = m[2] /\ s.by = j.job /\ s.id = HookId(j, m[1])
                                    /\ s.id[1] = j.request.cycle /\ s.id[3] = m[1][2] /\ m[1][2] \in Nat
      <3>1. PICK m \in j.marks : s = [id |-> HookId(j, m[1]), state |-> m[2], by |-> j.job]
        BY <2>2, <2>4
      <3>2. m[1] \in Pairs
        BY JobFields
      <3>3. m[1][2] \in Nat
        BY <3>2 DEF Pairs
      <3>4. HookId(j, m[1])[1] = j.request.cycle /\ HookId(j, m[1])[3] = m[1][2]
        BY DEF HookId, EvaluationId
      <3> QED
        BY <3>1, <3>3, <3>4
    <2>5. StatusInv'
      BY <2>3, <2>4 DEF StatusInv
    <2>6. ASSUME NEW s \in statuses' \ statuses, s.state = "completed"
          PROVE  \E e \in evaluations : e.id = s.id /\ e.by = s.by /\ Mature(s.id[1], s.id[3], today)
      <3>1. PICK m \in j.marks : /\ s.state = m[2] /\ s.by = j.job /\ s.id = HookId(j, m[1])
                                 /\ s.id[1] = j.request.cycle /\ s.id[3] = m[1][2] /\ m[1][2] \in Nat
        BY <2>4, <2>6
      <3>2. /\ j.asOf <= today /\ Mature(j.request.cycle, m[1][2], j.asOf)
            /\ \E e \in evaluations : e.id = HookId(j, m[1]) /\ e.by = j.job
        BY <2>2, <2>3, <2>6, <3>1 DEF HookSound
      <3>3. Mature(s.id[1], s.id[3], today)
        BY <1>1, <2>3, <3>1, <3>2 DEF Mature
      <3> QED
        BY <3>1, <3>2, <3>3
    <2>7. CompletedIsStored'
      BY <2>2, <2>6 DEF EvaluationsAreSound, CompletedIsStored
    <2>8. BackfillNeverDoubles'
      BY <2>2 DEF EvaluationsAreSound, BackfillNeverDoubles
    <2> QED
      BY <2>5, <2>7, <2>8 DEF EvaluationsAreSound
  <1>7. \/ UNCHANGED <<evaluations, statuses>> /\ (today' = today \/ Tick)
        \/ \E w \in Workers : \/ HookEvaluate(w) /\ ~UNCHANGED evaluations
                              \/ HookRecord(w) /\ ~UNCHANGED statuses
                              \/ BackfillUpsert(w)
    <2> DEFINE Q == UNCHANGED <<evaluations, statuses>> /\ (today' = today \/ Tick)
    <2>1. ASSUME NEW b \in Bundles, PersistAudits(b) \/ PersistReplays(b) \/ PersistBundle(b) PROVE Q
      BY <2>1 DEF PersistAudits, PersistReplays, PersistBundle
    <2>2. ASSUME NEW c \in DOMAIN ManifestOf, PublishManifest(c) PROVE Q
      BY <2>2 DEF PublishManifest
    <2>3. Tick => Q
      BY DEF Tick
    <2>4. ASSUME NEW w \in Workers,
                 \/ \E q \in HookRequests : StartHook(w, q)
                 \/ \E q \in BackfillRequests : StartBackfill(w, q)
          PROVE  Q
      BY <2>4 DEF StartHook, StartBackfill, StartJob
    <2>5. ASSUME NEW w \in Workers, HookManifest(w) \/ HookReplay(w) \/ HookAudits(w) PROVE Q
      BY <2>5 DEF HookManifest, HookReplay, HookAudits, OnlyWork
    <2>6. ASSUME NEW w \in Workers,
                 BackfillExisting(w) \/ BackfillCompute(w) \/ BackfillReport(w) \/ JobGone(w)
          PROVE  Q
      BY <2>6 DEF BackfillExisting, BackfillCompute, BackfillReport, JobGone, OnlyWork
    <2>7. ASSUME NEW w \in Workers, HookEvaluate(w) PROVE Q \/ (HookEvaluate(w) /\ ~UNCHANGED evaluations)
      BY <2>7 DEF HookEvaluate
    <2>8. ASSUME NEW w \in Workers, HookRecord(w) PROVE Q \/ (HookRecord(w) /\ ~UNCHANGED statuses)
      BY <2>8 DEF HookRecord
    <2>9. UNCHANGED retroVars => Q
      BY DEF retroVars
    <2> HIDE DEF Q
    <2>10. \/ Q
           \/ \E w \in Workers : \/ HookEvaluate(w) /\ ~UNCHANGED evaluations
                                 \/ HookRecord(w) /\ ~UNCHANGED statuses
                                 \/ BackfillUpsert(w)
      BY <2>1, <2>2, <2>3, <2>4, <2>5, <2>6, <2>7, <2>8, <2>9 DEF RetroNext
    <2> QED
      BY <2>10 DEF Q
  <1>8. Tick => today' \in Nat /\ today <= today'
    BY TickForward, RetroAssumption
  <1> QED
    BY <1>1, <1>2, <1>4, <1>5, <1>6, <1>7, <1>8

\* Every reachable state satisfies the inductive invariant.
THEOREM RetroInvariant == RetroSpec => []RetroInv
  <1>1. RetroInv /\ [RetroNext]_retroVars => RetroInv'
    BY RetroTypeStep, RowsStep, JobsStep, SoundStep DEF RetroInv
  <1> QED
    BY RetroInitInv, <1>1, PTL DEF RetroSpec

\* Hooks append and backfills write what is missing: no evaluation is doubled
\* but by a hook, and completed is said only of what is stored and was due.
THEOREM EvaluationsStaySound == RetroSpec => []EvaluationsAreSound
  <1>1. RetroInv => EvaluationsAreSound
    BY DEF RetroInv
  <1> QED
    BY RetroInvariant, <1>1, PTL

\* A stored bundle of a published cycle replays, unless its row was doubled.
THEOREM BundlesReplay == RetroSpec => []ReplayableUnlessDoubled
  <1>1. RetroInv => ReplayableUnlessDoubled
    <2> SUFFICES ASSUME RetroInv, NEW r \in replays \ loose, ManifestBinds(r), ~Replayable(r.cycle, r.object, Gateways)
                 PROVE  Cardinality(ReplayRows(r.cycle, r.object)) > 1
      BY DEF ReplayableUnlessDoubled
    <2>1. PICK rows : rows = ReplayRows(r.cycle, r.object)
      OBVIOUS
    <2>2. IsFiniteSet(rows) /\ r \in rows
      BY <2>1, FS_Subset DEF ReplayRows, RetroInv, RowsInv
    <2>3. Cardinality(rows) \in Nat /\ Cardinality(rows) # 0
      BY <2>2, FS_CardinalityType, FS_EmptySet
    <2>4. Cardinality(rows) # 1
      <3> SUFFICES ASSUME Cardinality(rows) = 1 PROVE FALSE
        OBVIOUS
      <3>1. \A x \in rows : x = r
        BY <2>2, FS_Singleton
      <3>2. AuditsBind(r)
        BY DEF RetroInv, RowsInv
      <3> QED
        BY <2>1, <3>1, <3>2 DEF Replayable, Gateways
    <2> QED
      BY <2>1, <2>3, <2>4
  <1> QED
    BY RetroInvariant, <1>1, PTL
=============================================================================

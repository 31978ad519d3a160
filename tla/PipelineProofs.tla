--------------------------- MODULE PipelineProofs ---------------------------
(***************************************************************************)
(* Proofs about the pipeline around the graph.  GraphPhase1, for any       *)
(* number of runs, facts and channels and of late calls of a reload: what  *)
(* Phase 1 publishes was read from one graph, and only nested readers keep *)
(* everyone waiting.  EntityRegistry, for any number of threads,           *)
(* references, snapshots and batches: no stored row names an entity that   *)
(* is not there, references and cases agree and items are decided once     *)
(* unless two jobs raced.  GraphReads, for any finite graph, seeds, depth  *)
(* and limit: a read that cut nothing off is exact, and an impact whose    *)
(* path was cut is reported only with a full list of paths.                *)
(***************************************************************************)
EXTENDS GraphPhase1, EntityRegistry, GraphReads, FiniteSetTheorems, SequenceTheorems,
        WellFoundedInduction, TLAPS

-----------------------------------------------------------------------------
(* graph-engine, Phase 1: the inductive invariant                          *)

\* What a canary has read is what a ready row of its generation names.
AlgorithmSound(j, rw, arts, n) ==
    j.pc = "algorithm" =>
        /\ j.want <= rw.gen
        /\ j.count = IF j.reads = {} THEN 0 ELSE 1
        /\ n = 0 /\ rw.gen = j.want =>
              \A g \in j.reads : /\ j.reads = {g} /\ (rw.state = "ready" => rw.sum = g)
                                 /\ \A a \in arts : a.gen = j.want => a.facts = g

\* A run that reads holds the lock: the row stays, and one late call that changes
\* the graph is seen at the end.
ReadingSound(j, rw, st, n) ==
    j.pc \in Reading =>
        /\ rw = j.seen /\ rw.state = "ready" /\ ~rw.token
        /\ n = j.from => st = rw.sum
        /\ n <= j.from + 1 /\ st = rw.sum => j.reads \subseteq {rw.sum}
        /\ j.pc = "publish" => j.last \in j.reads

\* A run that promotes has put the token in the row, and measures what it leaves.
PromotingSound(j, rw, st, n) ==
    /\ j.pc \in Promoting => rw = j.seen /\ rw.state = "ready" /\ rw.token
    /\ j.pc = "finish" /\ n = 0 => j.metrics = st
    /\ j.pc = "begin" => j.seen.state = "ready" /\ ~j.seen.token

RunSound(j, rw, st, arts, n) ==
    /\ AlgorithmSound(j, rw, arts, n)
    /\ ReadingSound(j, rw, st, n)
    /\ PromotingSound(j, rw, st, n)
    /\ j.pc \in BeforeReads => j.reads = {} /\ j.count = 0
    /\ j.pc \in {"proving", "done"} /\ n = 0 => \E g \in j.reads : j.reads = {g}

RunsInv ==
    /\ \A r \in Runs : RunSound(run[r], row, stored, artifacts, landed)
    /\ \A r, s \in Runs : run[r].pc \in Promoting /\ run[s].pc \in Promoting => r = s

\* A reload has the row to itself.
ReloadInv ==
    /\ reload.pc = "rebuilding" => ~reload.seen.token
    /\ reload.pc \in {"loading", "verifying", "readying", "failing"} =>
          row = reload.seen /\ row.state = "rebuilding" /\ ~row.token /\ reload.from \in artifacts
    /\ reload.pc = "readying" /\ landed = 0 => stored = reload.from.facts

\* A row that is ready names the graph, and generations only grow.
SnapshotsInv ==
    /\ row.state = "ready" /\ ~row.token /\ landed = 0 => stored = row.sum
    /\ \A a \in artifacts : a.gen <= row.gen /\ a.lands <= landed /\ (a.lands < 2 => a.reads = {a.facts})
    /\ GenerationNamesOneGraph

Phase1Inv == Phase1TypeOK /\ RunsInv /\ ReloadInv /\ SnapshotsInv

-----------------------------------------------------------------------------
(* Changes of a run                                                        *)

\* A run stays well typed when its step and one field are given values of
\* their types.
LEMMA RunChanges ==
    ASSUME NEW j \in RunStates, NEW p \in RunSteps
    PROVE  /\ [j EXCEPT !.pc = p] \in RunStates
           /\ \A s \in Rows : [j EXCEPT !.pc = p, !.seen = s] \in RunStates
           /\ \A c \in BOOLEAN : [j EXCEPT !.pc = p, !.checked = c] \in RunStates
           /\ \A m \in SUBSET Facts : [j EXCEPT !.pc = p, !.metrics = m] \in RunStates
           /\ \A m \in Nat : [j EXCEPT !.pc = p, !.want = m] \in RunStates
  BY DEF RunStates

\* The queue of the lock without one of its waiters is a queue.
LEMMA QueueType ==
    ASSUME Phase1TypeOK, NEW w
    PROVE  Unqueued(w) \in Seq(Runs \cup {Reloader})
  <1> DEFINE Q == Runs \cup {Reloader}
             i == CHOOSE i \in DOMAIN lockQueue : lockQueue[i] = w
  <1>1. lockQueue \in Seq(Q)
    BY DEF Phase1TypeOK
  <1>2. CASE Waits(w)
    <2>1. i \in 1..Len(lockQueue)
      BY <1>1, <1>2 DEF Waits, ToSet
    <2> HIDE DEF i
    <2>2. SubSeq(lockQueue, 1, i - 1) \in Seq(Q) /\ SubSeq(lockQueue, i + 1, Len(lockQueue)) \in Seq(Q)
      BY <1>1, <2>1, SubSeqProperties, LenProperties
    <2>3. SubSeq(lockQueue, 1, i - 1) \o SubSeq(lockQueue, i + 1, Len(lockQueue)) \in Seq(Q)
      BY <2>2, ConcatProperties
    <2> QED
      BY <1>2, <2>3 DEF Unqueued, RemoveAt, i
  <1>3. CASE ~Waits(w)
    BY <1>1, <1>3 DEF Unqueued
  <1> QED
    BY <1>2, <1>3

\* Queueing for the lock keeps the queue well typed.
LEMMA AskType ==
    ASSUME Phase1TypeOK, NEW w \in Runs \cup {Reloader}, AskLock(w)
    PROVE  lockQueue' \in Seq(Runs \cup {Reloader})
  BY AppendProperties DEF Phase1TypeOK, AskLock

\* What may change the row has no reader beside it.
LEMMA GrantedAlone ==
    ASSUME NEW w \in Runs \cup {Reloader}, Granted(w), Excludes(w), NEW r \in Runs
    PROVE  run[r].pc \notin Reading
  BY DEF Granted, Holders, Holding, Reading

\* A step of one run that changes row, graph and artifacts within their types
\* keeps the types and the other runs.
LEMMA GoType ==
    ASSUME Phase1TypeOK, NEW r \in Runs, NEW k \in RunStates, Go(r, k), k.from <= landed,
           row' \in Rows, stored' \subseteq Facts, artifacts' \subseteq Snapshots1, UNCHANGED <<reload, late, landed>>
    PROVE  Phase1TypeOK' /\ run'[r] = k /\ \A s \in Runs \ {r} : run'[s] = run[s]
  <1>1. lockQueue' \in Seq(Runs \cup {Reloader})
    BY QueueType DEF Go
  <1>2. /\ run' \in [Runs -> RunStates] /\ run'[r] = k /\ \A s \in Runs \ {r} : run'[s] = run[s]
        /\ \A s \in Runs : run'[s].from <= landed
    BY DEF Go, Phase1TypeOK
  <1> QED
    BY <1>1, <1>2 DEF Phase1TypeOK

\* A step of one run that changes nothing the others look at.
LEMMA QuietStep ==
    ASSUME Phase1Inv, NEW r \in Runs, NEW k \in RunStates, Go(r, k), k.from <= landed,
           UNCHANGED <<row, stored, artifacts, landed, reload, late>>,
           RunSound(k, row, stored, artifacts, landed), k.pc \in Promoting => run[r].pc \in Promoting
    PROVE  Phase1Inv'
  <1>1. Phase1TypeOK' /\ run'[r] = k /\ \A s \in Runs \ {r} : run'[s] = run[s]
    BY GoType DEF Phase1Inv, Phase1TypeOK
  <1>2. \A s \in Runs : RunSound(run[s], row, stored, artifacts, landed)'
    <2> SUFFICES ASSUME NEW s \in Runs PROVE RunSound(run'[s], row, stored, artifacts, landed)
      OBVIOUS
    <2> QED
      BY <1>1 DEF Phase1Inv, RunsInv
  <1>3. \A s, t \in Runs : run'[s].pc \in Promoting /\ run'[t].pc \in Promoting => s = t
    BY <1>1 DEF Phase1Inv, RunsInv
  <1>4. ReloadInv' /\ SnapshotsInv'
    BY DEF Phase1Inv, ReloadInv, SnapshotsInv, GenerationNamesOneGraph
  <1> QED
    BY <1>1, <1>2, <1>3, <1>4 DEF Phase1Inv, RunsInv

\* A failed run promises nothing.
LEMMA FailedSound ==
    ASSUME NEW k, k.pc = "failed", NEW rw, NEW st, NEW arts, NEW n
    PROVE  RunSound(k, rw, st, arts, n) /\ k.pc \notin Promoting
  BY DEF RunSound, AlgorithmSound, ReadingSound, PromotingSound, Reading, Promoting, BeforeReads

\* A run that raises keeps Phase1Inv.
LEMMA RaiseStep ==
    ASSUME Phase1Inv, NEW r \in Runs, Raise(r), UNCHANGED <<row, stored, artifacts, landed, reload, late>>
    PROVE  Phase1Inv'
  <1>1. PICK j \in RunStates : j = run[r] /\ j.from <= landed
    BY DEF Phase1Inv, Phase1TypeOK
  <1>2. PICK k : k = [j EXCEPT !.pc = "failed"]
    OBVIOUS
  <1>3. k \in RunStates /\ k.from = j.from /\ k.pc = "failed"
    BY <1>2 DEF RunStates, RunSteps
  <1>4. Go(r, k)
    BY <1>1, <1>2 DEF Raise, Goto1
  <1> QED
    BY <1>1, <1>3, <1>4, FailedSound, QuietStep

\* A step towards the promotion, or after it and before the first read.
LEMMA EarlySound ==
    ASSUME NEW k, NEW rw, NEW st, NEW arts, NEW n, k.pc \in BeforeReads \ Promoting, k.reads = {}, k.count = 0,
           k.pc = "begin" => k.seen.state = "ready" /\ ~k.seen.token
    PROVE  RunSound(k, rw, st, arts, n)
  BY DEF RunSound, AlgorithmSound, ReadingSound, PromotingSound, Reading, Promoting, BeforeReads

\* The steps of a run outside the lock keep Phase1Inv.
LEMMA EarlySteps ==
    ASSUME Phase1Inv, NEW r \in Runs,
           \/ GraphStatus(r) \/ PromoteGraph(r) \/ WriteRecords(r) \/ WriteManifest(r) \/ ReadRow(r)
           \/ PromotionResult(r) \/ ReadBack(r)
    PROVE  Phase1Inv'
  <1>1. PICK j \in RunStates : j = run[r] /\ j.from <= landed /\ RunSound(j, row, stored, artifacts, landed)
    BY DEF Phase1Inv, Phase1TypeOK, RunsInv
  <1>2. row \in Rows /\ row.gen \in Nat
    BY DEF Phase1Inv, Phase1TypeOK, Rows
  <1>3. UNCHANGED <<row, stored, artifacts, landed, reload, late>>
    BY DEF GraphStatus, PromoteGraph, WriteRecords, WriteManifest, ReadRow, PromotionResult, ReadBack, others
  <1>4. j.pc \in BeforeReads /\ j.reads = {} /\ j.count = 0
    BY <1>1 DEF GraphStatus, PromoteGraph, WriteRecords, WriteManifest, ReadRow, PromotionResult, ReadBack, BeforeReads, RunSound
  <1>5. ASSUME NEW k \in RunStates, Go(r, k), k.pc \in BeforeReads \ Promoting, k.reads = j.reads, k.count = j.count, k.from = j.from,
               k.pc = "begin" => k.seen = row /\ Ready
        PROVE  Phase1Inv'
    BY <1>1, <1>3, <1>4, <1>5, EarlySound, QuietStep DEF Ready
  <1>6. CASE Raise(r)
    BY <1>3, <1>6, RaiseStep
  <1>7. ASSUME NEW p \in BeforeReads \ (Promoting \cup {"begin"}), Goto1(r, p) PROVE Phase1Inv'
    <2>1. PICK k : k = [j EXCEPT !.pc = p]
      OBVIOUS
    <2>2. k \in RunStates /\ k.pc = p /\ k.reads = j.reads /\ k.count = j.count /\ k.from = j.from
      BY <2>1 DEF RunStates, RunSteps
    <2> QED
      BY <1>1, <1>5, <1>7, <2>1, <2>2 DEF Goto1
  <1>8. ASSUME NEW p \in BeforeReads \ Promoting, NEW k, Go(r, k), p = "begin" => k.seen = row /\ Ready,
               \/ k = [j EXCEPT !.pc = p, !.seen = row]
               \/ \E c \in BOOLEAN : k = [j EXCEPT !.pc = p, !.checked = c]
               \/ k = [j EXCEPT !.pc = p, !.want = row.gen]
        PROVE  Phase1Inv'
    <2>1. p \in RunSteps
      BY DEF RunSteps
    <2>2. k \in RunStates
      <3>1. CASE k = [j EXCEPT !.pc = p, !.seen = row]
        BY <1>2, <2>1, <3>1, RunChanges
      <3>2. ASSUME NEW c \in BOOLEAN, k = [j EXCEPT !.pc = p, !.checked = c] PROVE k \in RunStates
        BY <2>1, <3>2, RunChanges
      <3>3. CASE k = [j EXCEPT !.pc = p, !.want = row.gen]
        BY <1>2, <2>1, <3>3, RunChanges
      <3> QED
        BY <1>8, <3>1, <3>2, <3>3
    <2>3. k.pc = p /\ k.reads = j.reads /\ k.count = j.count /\ k.from = j.from
      BY <1>8 DEF RunStates
    <2> QED
      BY <1>5, <1>8, <2>2, <2>3
  <1>9. CASE GraphStatus(r)
    <2>1. "phase0" \in BeforeReads \ Promoting
      BY DEF BeforeReads, Promoting
    <2> QED
      BY <1>1, <1>8, <1>9, <2>1 DEF GraphStatus
  <1>10. CASE PromoteGraph(r)
    <2>1. PICK p \in {"layerA", "written"}, c \in BOOLEAN : Raise(r) \/ Go(r, [j EXCEPT !.pc = p, !.checked = c])
      BY <1>1, <1>10 DEF PromoteGraph
    <2>2. p \in BeforeReads \ Promoting
      BY DEF BeforeReads, Promoting
    <2> QED
      BY <1>6, <1>8, <2>1, <2>2
  <1>11. CASE WriteRecords(r)
    BY <1>7, <1>11 DEF WriteRecords, BeforeReads, Promoting
  <1>12. CASE WriteManifest(r)
    BY <1>7, <1>12 DEF WriteManifest, BeforeReads, Promoting
  <1>13. CASE ReadRow(r)
    <2>1. "begin" \in BeforeReads \ Promoting
      BY DEF BeforeReads, Promoting
    <2>2. [j EXCEPT !.pc = "begin", !.seen = row].seen = row
      BY DEF RunStates
    <2>3. Raise(r) \/ (Ready /\ Go(r, [j EXCEPT !.pc = "begin", !.seen = row]))
      BY <1>1, <1>13 DEF ReadRow
    <2> QED
      BY <1>6, <1>8, <2>1, <2>2, <2>3
  <1>14. CASE PromotionResult(r)
    <2>1. PICK p \in {"readback", "outer"} : Raise(r) \/ Go(r, [j EXCEPT !.pc = p, !.want = row.gen])
      BY <1>1, <1>14 DEF PromotionResult
    <2>2. p \in BeforeReads \ Promoting
      BY DEF BeforeReads, Promoting
    <2> QED
      BY <1>6, <1>8, <2>1, <2>2
  <1>15. CASE ReadBack(r)
    <2>1. PICK p \in {"status", "failed"} : Goto1(r, p)
      BY <1>15 DEF ReadBack
    <2>2. CASE p = "failed"
      BY <1>6, <2>1, <2>2 DEF Raise
    <2>3. CASE p = "status"
      BY <1>7, <2>1, <2>3 DEF BeforeReads, Promoting
    <2> QED
      BY <2>1, <2>2, <2>3
  <1> QED
    BY <1>9, <1>10, <1>11, <1>12, <1>13, <1>14, <1>15


-----------------------------------------------------------------------------
(* Promotion                                                               *)

\* A run that neither promotes nor reads stays sound when another changes row
\* and graph.
LEMMA OtherRun ==
    ASSUME NEW j, NEW rw, NEW st, NEW arts, NEW n, RunSound(j, rw, st, arts, n), j.pc \notin Promoting \cup Reading,
           NEW rw1, NEW st1, NEW arts1, AlgorithmSound(j, rw1, arts1, n)
    PROVE  RunSound(j, rw1, st1, arts1, n)
  BY DEF RunSound, ReadingSound, PromotingSound, Promoting

\* A step that changes the row, or the graph under the token, with nobody beside it.
LEMMA PromotionStep ==
    ASSUME Phase1Inv, NEW r \in Runs, NEW k \in RunStates, Go(r, k), k.from <= landed,
           row' \in Rows, stored' \subseteq Facts, UNCHANGED <<artifacts, landed, reload, late>>,
           row.state = "ready", row.gen <= row'.gen,
           \A s \in Runs \ {r} : run[s].pc \notin Promoting \cup Reading,
           \A s \in Runs \ {r} : AlgorithmSound(run[s], row', artifacts, landed),
           RunSound(k, row', stored', artifacts, landed),
           row'.state = "ready" /\ row'.gen = row.gen => row'.sum = row.sum,
           row'.state = "ready" /\ ~row'.token /\ landed = 0 => stored' = row'.sum
    PROVE  Phase1Inv'
  <1>1. Phase1TypeOK' /\ run'[r] = k /\ \A s \in Runs \ {r} : run'[s] = run[s]
    BY GoType DEF Phase1Inv, Phase1TypeOK
  <1>2. \A s \in Runs : RunSound(run[s], row, stored, artifacts, landed)'
    <2> SUFFICES ASSUME NEW s \in Runs PROVE RunSound(run'[s], row', stored', artifacts', landed')
      OBVIOUS
    <2>1. CASE s = r
      BY <1>1, <2>1
    <2>2. CASE s # r
      BY <1>1, <2>2, OtherRun DEF Phase1Inv, RunsInv
    <2> QED
      BY <2>1, <2>2
  <1>3. \A s, t \in Runs : run'[s].pc \in Promoting /\ run'[t].pc \in Promoting => s = t
    BY <1>1
  <1>4. ReloadInv'
    BY DEF Phase1Inv, ReloadInv
  <1>5. \A a \in artifacts : a.gen \in Nat /\ row.gen \in Nat /\ row'.gen \in Nat
    BY DEF Phase1Inv, Phase1TypeOK, Snapshots1, Rows
  <1>6. SnapshotsInv'
    BY <1>5 DEF Phase1Inv, SnapshotsInv, GenerationNamesOneGraph
  <1> QED
    BY <1>1, <1>2, <1>3, <1>4, <1>6 DEF Phase1Inv, RunsInv

\* A canary that has read keeps its graph when the generation stays, or goes on.
LEMMA AlgorithmKept ==
    ASSUME NEW j \in RunStates, NEW rw \in Rows, NEW rw1 \in Rows, NEW arts, NEW n, AlgorithmSound(j, rw, arts, n),
           \/ rw.gen < rw1.gen
           \/ rw.gen = rw1.gen /\ (rw1.state = "ready" => rw.state = "ready" /\ rw1.sum = rw.sum)
    PROVE  AlgorithmSound(j, rw1, arts, n)
  <1>1. j.want \in Nat /\ rw.gen \in Nat /\ rw1.gen \in Nat
    BY DEF RunStates, Rows
  <1> QED
    BY <1>1 DEF AlgorithmSound

\* The steps of a promotion keep Phase1Inv.
LEMMA LockedSteps ==
    ASSUME Phase1Inv, NEW r \in Runs,
           BeginPromotion(r) \/ SyncPromotion(r) \/ Measure(r) \/ FinishPromotion(r) \/ MarkPromotionFailed(r)
    PROVE  Phase1Inv'
  <1>1. PICK j \in RunStates : j = run[r] /\ j.from <= landed /\ RunSound(j, row, stored, artifacts, landed)
    BY DEF Phase1Inv, Phase1TypeOK, RunsInv
  <1>2. row \in Rows /\ row.gen \in Nat /\ stored \subseteq Facts /\ j.metrics \subseteq Facts
    BY DEF Phase1Inv, Phase1TypeOK, Rows, RunStates
  <1>3. UNCHANGED <<artifacts, landed, reload, late>>
    BY DEF BeginPromotion, SyncPromotion, Measure, FinishPromotion, MarkPromotionFailed, others
  <1>4. /\ j.pc \in BeforeReads /\ j.reads = {} /\ j.count = 0
        /\ j.pc = "begin" \/ (j.pc \in Promoting /\ row = j.seen /\ row.state = "ready" /\ row.token)
    BY <1>1 DEF BeginPromotion, SyncPromotion, Measure, FinishPromotion, MarkPromotionFailed, BeforeReads, Promoting,
       RunSound, PromotingSound
  <1>5. \A s \in Runs \ {r} : run[s] \in RunStates /\ AlgorithmSound(run[s], row, artifacts, landed)
    BY DEF Phase1Inv, Phase1TypeOK, RunsInv, RunSound
  \* A run under the token is alone with it.
  <1>6. ASSUME j.pc \in Promoting, NEW s \in Runs \ {r} PROVE run[s].pc \notin Promoting \cup Reading
    BY <1>1, <1>4, <1>6 DEF Phase1Inv, RunsInv, RunSound, ReadingSound, Promoting, BeforeReads
  <1>7. ASSUME NEW p \in {"locked", "synced", "marking"}, NEW k \in RunStates, k.pc = p, k.seen = row, row.state = "ready", row.token,
               NEW n
        PROVE  k.reads = {} /\ k.count = 0 => RunSound(k, row, stored', artifacts, n)
    BY <1>7 DEF RunSound, AlgorithmSound, ReadingSound, PromotingSound, Reading, Promoting
  <1>8. CASE BeginPromotion(r)
    <2>1. CASE row # j.seen
      BY <1>1, <1>3, <1>8, <2>1, RaiseStep DEF BeginPromotion
    <2>2. CASE row = j.seen
      <3>1. PICK rw : rw = [row EXCEPT !.token = TRUE]
        OBVIOUS
      <3>2. rw \in Rows /\ rw.state = row.state /\ rw.gen = row.gen /\ rw.sum = row.sum /\ rw.token
        BY <1>2, <3>1 DEF Rows
      <3>3. j.pc = "begin" /\ row.state = "ready" /\ ~row.token
        BY <1>1, <1>8, <2>2 DEF BeginPromotion, RunSound, PromotingSound
      <3>4. PICK k : k = [j EXCEPT !.pc = "locked", !.seen = rw]
        OBVIOUS
      <3>5. row' = rw /\ stored' = stored /\ Go(r, k)
        BY <1>1, <1>8, <2>2, <3>1, <3>4 DEF BeginPromotion
      <3>6. k \in RunStates
        BY <3>2, <3>4, RunChanges DEF RunSteps, BeforeReads, Promoting
      <3>7. k.pc = "locked" /\ k.seen = rw /\ k.reads = j.reads /\ k.count = j.count /\ k.from = j.from
        BY <3>4 DEF RunStates
      <3>8. RunSound(k, rw, stored, artifacts, landed)
        BY <1>4, <3>2, <3>3, <3>7 DEF RunSound, AlgorithmSound, ReadingSound, PromotingSound, Reading
      <3>9. ASSUME NEW s \in Runs \ {r} PROVE run[s].pc \notin Promoting \cup Reading /\ AlgorithmSound(run[s], rw, artifacts, landed)
        <4>1. run[s].pc \notin Promoting
          BY <3>3 DEF Phase1Inv, RunsInv, RunSound, PromotingSound
        <4>2. run[s].pc \notin Reading
          <5>1. Granted(r) /\ Excludes(r)
            BY <1>1, <1>8, <3>3 DEF BeginPromotion, Excludes, Excluding
          <5> QED
            BY <5>1, GrantedAlone
        <4>3. AlgorithmSound(run[s], rw, artifacts, landed)
          BY <1>2, <1>5, <3>2, AlgorithmKept
        <4> QED
          BY <4>1, <4>2, <4>3
      <3> QED
        BY <1>1, <1>2, <1>3, <3>2, <3>3, <3>5, <3>6, <3>7, <3>8, <3>9, PromotionStep
    <2> QED
      BY <2>1, <2>2
  <1>9. CASE SyncPromotion(r)
    <2>1. j.pc = "locked" /\ row = j.seen
      BY <1>1, <1>4, <1>9 DEF SyncPromotion, Promoting
    <2>2. CASE EndsPresent(Selection[r])
      <3>1. PICK k : k = [j EXCEPT !.pc = "synced"]
        OBVIOUS
      <3>2. row' = row /\ stored' = Put(stored, PlanOf(Selection[r])) /\ Go(r, k)
        BY <1>1, <1>9, <2>1, <2>2, <3>1 DEF SyncPromotion, Goto1
      <3>3. k \in RunStates
        BY <3>1, RunChanges DEF RunSteps, BeforeReads, Promoting
      <3>4. k.pc = "synced" /\ k.seen = j.seen /\ k.reads = j.reads /\ k.count = j.count /\ k.from = j.from
        BY <3>1 DEF RunStates
      <3>5. stored' \subseteq Facts
        <4>1. PlanOf(Selection[r]) \subseteq Facts
          <5>1. PICK P : P = PlanOf(Selection[r])
            OBVIOUS
          <5>2. P \in Plans
            BY <5>1 DEF Plans
          <5>3. P \subseteq Facts
            BY <5>2 DEF Facts
          <5> QED
            BY <5>1, <5>3
        <4> QED
          BY <1>2, <3>2, <4>1 DEF Put
      <3>6. RunSound(k, row, stored', artifacts, landed)
        BY <1>4, <1>7, <2>1, <3>3, <3>4 DEF Promoting
      <3>7. row.token /\ row.state = "ready"
        BY <1>4, <2>1
      <3>8. \A s \in Runs \ {r} : run[s].pc \notin Promoting \cup Reading
        BY <1>6, <2>1 DEF Promoting
      <3> QED
        BY <1>1, <1>2, <1>3, <1>5, <3>2, <3>3, <3>4, <3>5, <3>6, <3>7, <3>8, PromotionStep
    <2>3. CASE ~EndsPresent(Selection[r])
      <3>1. PICK k : k = [j EXCEPT !.pc = "marking"]
        OBVIOUS
      <3>2. row' = row /\ stored' = stored /\ Go(r, k)
        BY <1>1, <1>9, <2>3, <3>1 DEF SyncPromotion, Goto1
      <3>3. k \in RunStates
        BY <3>1, RunChanges DEF RunSteps, BeforeReads, Promoting
      <3>4. k.pc = "marking" /\ k.seen = j.seen /\ k.reads = j.reads /\ k.count = j.count /\ k.from = j.from
        BY <3>1 DEF RunStates
      <3>5. RunSound(k, row, stored, artifacts, landed)
        BY <1>4, <1>7, <2>1, <3>2, <3>3, <3>4 DEF Promoting
      <3> QED
        BY <1>1, <1>3, <2>1, <3>2, <3>3, <3>4, <3>5, QuietStep DEF Promoting
    <2> QED
      BY <2>2, <2>3
  <1>10. CASE Measure(r)
    <2>1. j.pc = "synced" /\ row = j.seen
      BY <1>1, <1>4, <1>10 DEF Measure, Promoting
    <2>2. PICK k : k = [j EXCEPT !.pc = "finish", !.metrics = stored]
      OBVIOUS
    <2>3. row' = row /\ stored' = stored /\ Go(r, k)
      BY <1>1, <1>10, <2>1, <2>2 DEF Measure
    <2>4. k \in RunStates
      <3>1. "finish" \in RunSteps
        BY DEF RunSteps, BeforeReads, Promoting
      <3> QED
        BY <1>2, <2>2, <3>1, RunChanges
    <2>5. /\ k.pc = "finish" /\ k.seen = j.seen /\ k.reads = j.reads /\ k.count = j.count /\ k.from = j.from
          /\ k.metrics = stored
      BY <2>2 DEF RunStates
    <2>6. RunSound(k, row, stored, artifacts, landed)
      BY <1>4, <2>1, <2>5 DEF RunSound, AlgorithmSound, ReadingSound, PromotingSound, Reading, Promoting
    <2> QED
      BY <1>1, <1>3, <2>1, <2>3, <2>4, <2>5, <2>6, QuietStep DEF Promoting
  <1>11. CASE FinishPromotion(r)
    <2>1. j.pc = "finish" /\ row = j.seen
      BY <1>1, <1>4, <1>11 DEF FinishPromotion, Promoting
    <2>2. PICK rw : rw = [state |-> "ready", gen |-> row.gen + 1, sum |-> j.metrics, token |-> FALSE]
      OBVIOUS
    <2>3. rw \in Rows /\ rw.gen = row.gen + 1 /\ rw.sum = j.metrics /\ rw.state = "ready"
      BY <1>2, <2>2 DEF Rows
    <2>4. PICK k : k = [j EXCEPT !.pc = "promoted"]
      OBVIOUS
    <2>5. row' = rw /\ stored' = stored /\ Go(r, k)
      BY <1>1, <1>11, <2>1, <2>2, <2>4 DEF FinishPromotion, Goto1
    <2>6. k \in RunStates
      BY <2>4, RunChanges DEF RunSteps, BeforeReads
    <2>7. k.pc = "promoted" /\ k.reads = j.reads /\ k.count = j.count /\ k.from = j.from
      BY <2>4 DEF RunStates
    <2>8. RunSound(k, rw, stored, artifacts, landed)
      BY <1>4, <2>7, EarlySound DEF BeforeReads, Promoting
    <2>9. \A s \in Runs \ {r} : run[s].pc \notin Promoting \cup Reading /\ AlgorithmSound(run[s], rw, artifacts, landed)
      <3>1. row.gen < rw.gen
        BY <1>2, <2>3
      <3> QED
        BY <1>2, <1>5, <1>6, <2>1, <2>3, <3>1, AlgorithmKept DEF Promoting
    <2>10. landed = 0 => stored = rw.sum
      BY <1>1, <2>1, <2>3 DEF RunSound, PromotingSound
    <2>11. row.state = "ready" /\ row.gen <= rw.gen /\ row.gen # rw.gen
      BY <1>2, <1>4, <2>1, <2>3
    <2> QED
      BY <1>1, <1>2, <1>3, <2>3, <2>5, <2>6, <2>7, <2>8, <2>9, <2>10, <2>11, PromotionStep
  <1>12. CASE MarkPromotionFailed(r)
    <2>1. j.pc = "marking" /\ row = j.seen
      BY <1>1, <1>4, <1>12 DEF MarkPromotionFailed, Promoting
    <2>2. PICK rw : rw = [state |-> "failed", gen |-> row.gen, sum |-> {}, token |-> FALSE]
      OBVIOUS
    <2>3. rw \in Rows /\ rw.gen = row.gen /\ rw.state = "failed"
      BY <1>2, <2>2 DEF Rows
    <2>4. PICK k : k = [j EXCEPT !.pc = "failed"]
      OBVIOUS
    <2>5. row' = rw /\ stored' = stored /\ Go(r, k)
      BY <1>1, <1>12, <2>1, <2>2, <2>4 DEF MarkPromotionFailed, Raise, Goto1
    <2>6. k \in RunStates
      BY <2>4, RunChanges DEF RunSteps
    <2>7. k.pc = "failed" /\ k.from = j.from
      BY <2>4 DEF RunStates
    <2>8. \A s \in Runs \ {r} : run[s].pc \notin Promoting \cup Reading /\ AlgorithmSound(run[s], rw, artifacts, landed)
      BY <1>2, <1>5, <1>6, <2>1, <2>3, AlgorithmKept DEF Promoting
    <2>9. row.state = "ready" /\ row.gen <= rw.gen
      BY <1>2, <1>4, <2>1, <2>3
    <2> QED
      BY <1>1, <1>2, <1>3, <2>3, <2>5, <2>6, <2>7, <2>8, <2>9, FailedSound, PromotionStep
  <1> QED
    BY <1>8, <1>9, <1>10, <1>11, <1>12


-----------------------------------------------------------------------------
(* Reading, publishing, and the canary's algorithms                        *)

\* The steps of a read under the lock keep Phase1Inv.
LEMMA ReadingSteps ==
    ASSUME Phase1Inv, NEW r \in Runs,
           \/ HoldReady(r) \/ ReadUnderLock(r) \/ ProveReload(r) \/ PostStatus(r) \/ CanaryAlgorithm(r)
    PROVE  Phase1Inv'
  <1>1. PICK j \in RunStates : j = run[r] /\ j.from <= landed /\ RunSound(j, row, stored, artifacts, landed)
    BY DEF Phase1Inv, Phase1TypeOK, RunsInv
  <1>2. row \in Rows /\ row.gen \in Nat /\ stored \subseteq Facts /\ landed \in Nat
    BY DEF Phase1Inv, Phase1TypeOK, Rows
  <1>3. UNCHANGED <<row, stored, artifacts, landed, reload, late>>
    BY DEF HoldReady, ReadUnderLock, ProveReload, PostStatus, CanaryAlgorithm, others
  <1>4. j.want \in Nat /\ j.count \in Nat /\ j.paths \subseteq Facts /\ j.reads \subseteq SUBSET Facts /\ j.from \in Nat
    BY DEF RunStates
  <1>5. ASSUME NEW k \in RunStates, Go(r, k), k.from <= landed, RunSound(k, row, stored, artifacts, landed), k.pc \notin Promoting
        PROVE  Phase1Inv'
    BY <1>3, <1>5, QuietStep
  <1>6. CASE Raise(r)
    BY <1>3, <1>6, RaiseStep
  <1>7. CASE HoldReady(r) /\ ~Raise(r)
    <2>1. PICK p \in {"channel", "snapshot"} : Go(r, [j EXCEPT !.pc = p, !.seen = row, !.from = landed])
      BY <1>1, <1>7 DEF HoldReady
    <2>2. PICK k : k = [j EXCEPT !.pc = p, !.seen = row, !.from = landed]
      OBVIOUS
    <2>3. k \in RunStates
      BY <1>2, <2>2 DEF RunStates, RunSteps, Reading
    <2>4. k.pc = p /\ k.seen = row /\ k.from = landed /\ k.reads = j.reads /\ k.count = j.count
      BY <2>2 DEF RunStates
    <2>5. Ready /\ stored = row.sum /\ j.reads = {}
      BY <1>1, <1>7 DEF HoldReady, MatchesGraph, RunSound, BeforeReads
    <2>6. RunSound(k, row, stored, artifacts, landed)
      BY <2>4, <2>5 DEF RunSound, AlgorithmSound, ReadingSound, PromotingSound, Reading, Promoting, BeforeReads, Ready
    <2>7. k.from <= landed /\ k.pc \notin Promoting
      BY <1>2, <2>4 DEF Promoting
    <2> QED
      BY <1>5, <2>1, <2>2, <2>3, <2>6, <2>7
  <1>8. CASE ReadUnderLock(r) /\ ~Raise(r)
    <2>1. j.pc \in {"channel", "snapshot"} /\ ReadingSound(j, row, stored, landed)
      BY <1>1, <1>8 DEF ReadUnderLock, RunSound
    <2>2. CASE j.pc = "channel"
      <3>1. PICK p, R, E, n :
               /\ p \in {"channel", "snapshot"} /\ R = j.reads \cup {stored} /\ E = j.paths \cup Edges(stored) /\ n = j.count + 1
               /\ Go(r, [j EXCEPT !.reads = R, !.paths = E, !.count = n, !.pc = p])
        BY <1>1, <1>8, <2>2 DEF ReadUnderLock
      <3>2. PICK k : k = [j EXCEPT !.reads = R, !.paths = E, !.count = n, !.pc = p]
        OBVIOUS
      <3>3. R \in SUBSET SUBSET Facts /\ E \in SUBSET Facts /\ n \in Nat /\ p \in RunSteps
        BY <1>2, <1>4, <3>1 DEF Edges, RunSteps, Reading
      <3>4. k \in RunStates
        BY <3>2, <3>3 DEF RunStates
      <3>5. k.pc = p /\ k.reads = R /\ k.seen = j.seen /\ k.from = j.from
        BY <3>2 DEF RunStates
      <3>6. RunSound(k, row, stored, artifacts, landed)
        BY <2>1, <3>1, <3>5 DEF RunSound, AlgorithmSound, ReadingSound, PromotingSound, Reading, Promoting, BeforeReads
      <3> QED
        BY <1>1, <1>5, <3>1, <3>2, <3>4, <3>5, <3>6 DEF Promoting
    <2>3. CASE j.pc = "snapshot"
      <3>1. PICK R : R = j.reads \cup {stored} /\ Go(r, [j EXCEPT !.reads = R, !.last = stored, !.pc = "publish"])
        BY <1>1, <1>8, <2>3 DEF ReadUnderLock
      <3>2. PICK k : k = [j EXCEPT !.reads = R, !.last = stored, !.pc = "publish"]
        OBVIOUS
      <3>3. R \in SUBSET SUBSET Facts /\ stored \in SUBSET Facts /\ "publish" \in RunSteps
        BY <1>2, <1>4, <3>1 DEF RunSteps, Reading
      <3>4. k \in RunStates
        BY <3>2, <3>3 DEF RunStates
      <3>5. k.pc = "publish" /\ k.reads = R /\ k.last = stored /\ k.seen = j.seen /\ k.from = j.from
        BY <3>2 DEF RunStates
      <3>6. RunSound(k, row, stored, artifacts, landed)
        BY <2>1, <3>1, <3>5 DEF RunSound, AlgorithmSound, ReadingSound, PromotingSound, Reading, Promoting, BeforeReads
      <3> QED
        BY <1>1, <1>5, <3>1, <3>2, <3>4, <3>5, <3>6 DEF Promoting
    <2> QED
      BY <2>1, <2>2, <2>3
  <1>9. CASE ProveReload(r) /\ ~Raise(r)
    <2>1. j.pc = "proving" /\ Goto1(r, "done")
      BY <1>1, <1>9 DEF ProveReload, Raise
    <2>2. PICK k : k = [j EXCEPT !.pc = "done"]
      OBVIOUS
    <2>3. k \in RunStates
      BY <2>2, RunChanges DEF RunSteps
    <2>4. k.pc = "done" /\ k.reads = j.reads /\ k.from = j.from
      BY <2>2 DEF RunStates
    <2>5. RunSound(k, row, stored, artifacts, landed)
      BY <1>1, <2>1, <2>4 DEF RunSound, AlgorithmSound, ReadingSound, PromotingSound, Reading, Promoting, BeforeReads
    <2> QED
      BY <1>1, <1>5, <2>1, <2>2, <2>3, <2>4, <2>5 DEF Goto1, Promoting
  <1>10. CASE PostStatus(r) /\ ~Raise(r)
    <2>1. j.pc = "status" /\ Go(r, [j EXCEPT !.pc = "algorithm", !.want = row.gen])
      BY <1>1, <1>10 DEF PostStatus
    <2>2. PICK k : k = [j EXCEPT !.pc = "algorithm", !.want = row.gen]
      OBVIOUS
    <2>3. k \in RunStates
      <3>1. "algorithm" \in RunSteps
        BY DEF RunSteps
      <3> QED
        BY <1>2, <2>2, <3>1, RunChanges
    <2>4. k.pc = "algorithm" /\ k.reads = j.reads /\ k.from = j.from /\ k.count = j.count /\ k.want = row.gen
      BY <2>2 DEF RunStates
    <2>5. j.reads = {} /\ j.count = 0
      BY <1>1, <2>1 DEF RunSound, BeforeReads
    <2>6. RunSound(k, row, stored, artifacts, landed)
      BY <1>2, <2>4, <2>5 DEF RunSound, AlgorithmSound, ReadingSound, PromotingSound, Reading, Promoting, BeforeReads
    <2> QED
      BY <1>1, <1>5, <2>1, <2>2, <2>3, <2>4, <2>6 DEF Promoting
  <1>11. CASE CanaryAlgorithm(r) /\ ~Raise(r)
    <2>1. j.pc = "algorithm" /\ Ready /\ row.gen = j.want /\ AlgorithmSound(j, row, artifacts, landed)
      BY <1>1, <1>11 DEF CanaryAlgorithm, ContextGeneration, RunSound
    <2>2. PICK p, R, n :
             /\ p \in {"algorithm", "done"} /\ R = j.reads \cup {stored} /\ n = j.count + 1 /\ p = (IF j.count = 1 THEN "done" ELSE "algorithm")
             /\ Go(r, [j EXCEPT !.reads = R, !.count = n, !.pc = p])
      BY <1>1, <1>11, <2>1 DEF CanaryAlgorithm
    <2>3. PICK k : k = [j EXCEPT !.reads = R, !.count = n, !.pc = p]
      OBVIOUS
    <2>4. R \in SUBSET SUBSET Facts /\ n \in Nat /\ p \in RunSteps
      BY <1>2, <1>4, <2>2 DEF RunSteps
    <2>5. k \in RunStates
      BY <2>3, <2>4 DEF RunStates
    <2>6. k.pc = p /\ k.reads = R /\ k.count = n /\ k.want = j.want /\ k.from = j.from
      BY <2>3 DEF RunStates
    <2>7. landed = 0 => /\ stored = row.sum /\ R = {stored}
                        /\ \A a \in artifacts : a.gen = j.want => a.facts = stored
      <3> SUFFICES ASSUME landed = 0 PROVE /\ stored = row.sum /\ R = {stored}
                                           /\ \A a \in artifacts : a.gen = j.want => a.facts = stored
        OBVIOUS
      <3>1. stored = row.sum
        BY <2>1 DEF Ready, Phase1Inv, SnapshotsInv
      <3>2. \A g \in j.reads : g = row.sum
        BY <2>1 DEF AlgorithmSound, Ready
      <3>3. \A a \in artifacts : a.lands \in Nat /\ a.lands <= 0
        BY DEF Phase1Inv, Phase1TypeOK, SnapshotsInv, Snapshots1
      <3>4. \A a \in artifacts : a.gen = row.gen => a.facts = row.sum
        BY <2>1, <3>3 DEF Ready, Phase1Inv, SnapshotsInv, GenerationNamesOneGraph
      <3> QED
        BY <2>1, <2>2, <3>1, <3>2, <3>4
    <2>8. j.reads = {} => j.count = 0
      BY <2>1 DEF AlgorithmSound
    <2>9. j.reads # {} => j.count = 1
      BY <2>1 DEF AlgorithmSound
    <2>10. RunSound(k, row, stored, artifacts, landed)
      <3>1. CASE p = "done"
        BY <2>2, <2>6, <2>7, <3>1 DEF RunSound, AlgorithmSound, ReadingSound, PromotingSound, Reading, Promoting, BeforeReads
      <3>2. CASE p = "algorithm"
        <4>1. n = 1 /\ R # {}
          BY <2>2, <2>8, <2>9, <3>2
        <4>2. AlgorithmSound(k, row, artifacts, landed)
          BY <1>2, <2>1, <2>6, <2>7, <4>1 DEF AlgorithmSound
        <4> QED
          BY <2>6, <3>2, <4>2 DEF RunSound, ReadingSound, PromotingSound, Reading, Promoting, BeforeReads
      <3> QED
        BY <2>2, <3>1, <3>2
    <2> QED
      BY <1>1, <1>5, <2>2, <2>3, <2>5, <2>6, <2>10 DEF Promoting
  <1> QED
    BY <1>6, <1>7, <1>8, <1>9, <1>10, <1>11

\* Writing the snapshots keeps Phase1Inv: one late call is seen by the check
\* before it.
LEMMA PublishStep ==
    ASSUME Phase1Inv, NEW r \in Runs, WriteSnapshots(r) PROVE Phase1Inv'
  <1>1. PICK j \in RunStates : j = run[r] /\ j.from <= landed /\ RunSound(j, row, stored, artifacts, landed)
    BY DEF Phase1Inv, Phase1TypeOK, RunsInv
  <1>2. row \in Rows /\ row.gen \in Nat /\ landed \in Nat /\ j.from \in Nat /\ artifacts \subseteq Snapshots1 /\ stored \subseteq Facts
    BY DEF Phase1Inv, Phase1TypeOK, Rows, RunStates
  <1>3. UNCHANGED <<row, stored, landed, reload, late>>
    BY DEF WriteSnapshots, others
  <1>4. CASE Raise(r) /\ UNCHANGED artifacts
    BY <1>3, <1>4, RaiseStep
  <1>5. CASE ~(Raise(r) /\ UNCHANGED artifacts)
    <2>1. PICK a : /\ a = [by |-> r, gen |-> row.gen, facts |-> j.last, reads |-> j.reads, lands |-> landed - j.from]
                   /\ artifacts' = artifacts \cup {a} /\ Goto1(r, "proving") /\ stored = row.sum /\ j.pc = "publish"
      BY <1>1, <1>5 DEF WriteSnapshots, PublicationAccepted, MatchesGraph
    <2>2. /\ a.gen = row.gen /\ a.facts = j.last /\ a.reads = j.reads /\ a.lands = landed - j.from
          /\ a.lands \in Nat /\ a.lands <= landed
      BY <1>1, <1>2, <2>1
    <2>3. a \in Snapshots1
      BY <1>1, <1>2, <2>1, <2>2 DEF Snapshots1, RunStates
    <2>4. /\ row.state = "ready" /\ ~row.token /\ j.last \in j.reads
          /\ landed <= j.from + 1 => j.reads \subseteq {row.sum}
      BY <1>1, <2>1 DEF RunSound, ReadingSound, Reading
    <2>5. a.lands < 2 => a.facts = row.sum /\ a.reads = {row.sum}
      BY <1>2, <2>2, <2>4
    <2>6. PICK k : k = [j EXCEPT !.pc = "proving"]
      OBVIOUS
    <2>7. k \in RunStates /\ Go(r, k)
      BY <1>1, <2>1, <2>6, RunChanges DEF RunSteps, Goto1
    <2>8. k.pc = "proving" /\ k.reads = j.reads /\ k.from = j.from
      BY <2>6 DEF RunStates
    <2>9. Phase1TypeOK' /\ run'[r] = k /\ \A s \in Runs \ {r} : run'[s] = run[s]
      <3>1. artifacts' \subseteq Snapshots1
        BY <1>2, <2>1, <2>3
      <3> QED
        BY <1>1, <1>2, <1>3, <2>7, <2>8, <3>1, GoType DEF Phase1Inv
    <2>10. landed = 0 => a.lands < 2 /\ \A b \in artifacts : b.lands < 2
      BY <1>2, <2>2 DEF Phase1Inv, SnapshotsInv, Snapshots1
    <2>11. RunSound(k, row, stored, artifacts', landed)
      <3>1. landed = 0 => j.reads = {row.sum}
        BY <2>2, <2>5, <2>10
      <3> QED
        BY <2>8, <3>1 DEF RunSound, AlgorithmSound, ReadingSound, PromotingSound, Reading, Promoting, BeforeReads
    <2>12. ASSUME NEW s \in Runs \ {r} PROVE RunSound(run[s], row, stored, artifacts', landed)
      <3>1. RunSound(run[s], row, stored, artifacts, landed)
        BY DEF Phase1Inv, RunsInv
      <3>2. AlgorithmSound(run[s], row, artifacts', landed)
        BY <2>1, <2>2, <2>4, <2>5, <2>10, <3>1 DEF RunSound, AlgorithmSound
      <3> QED
        BY <3>1, <3>2 DEF RunSound
    <2>13. RunsInv'
      <3>1. \A s \in Runs : RunSound(run[s], row, stored, artifacts, landed)'
        <4> SUFFICES ASSUME NEW s \in Runs PROVE RunSound(run'[s], row', stored', artifacts', landed')
          OBVIOUS
        <4> QED
          BY <1>3, <2>9, <2>11, <2>12
      <3>2. \A s, t \in Runs : run'[s].pc \in Promoting /\ run'[t].pc \in Promoting => s = t
        BY <2>8, <2>9 DEF Phase1Inv, RunsInv, Promoting
      <3> QED
        BY <3>1, <3>2 DEF RunsInv
    <2>14. ReloadInv'
      BY <1>3, <2>1 DEF Phase1Inv, ReloadInv
    <2>15. GenerationNamesOneGraph'
      <3> SUFFICES ASSUME \A x \in artifacts \cup {a} : x.lands < 2
                   PROVE  /\ \A x, y \in artifacts \cup {a} : x.gen = y.gen => x.facts = y.facts
                          /\ \A x \in artifacts \cup {a} : row.state = "ready" /\ row.gen = x.gen => row.sum = x.facts
        BY <1>3, <2>1 DEF GenerationNamesOneGraph
      <3>1. /\ \A x, y \in artifacts : x.gen = y.gen => x.facts = y.facts
            /\ \A x \in artifacts : row.gen = x.gen => row.sum = x.facts
        BY <2>4 DEF Phase1Inv, SnapshotsInv, GenerationNamesOneGraph
      <3>2. a.facts = row.sum /\ a.gen = row.gen
        BY <2>2, <2>5
      <3> QED
        BY <3>1, <3>2
    <2>16. SnapshotsInv'
      <3>1. \A x \in artifacts' : x.gen <= row.gen /\ x.lands <= landed /\ (x.lands < 2 => x.reads = {x.facts})
        BY <1>2, <2>1, <2>2, <2>5 DEF Phase1Inv, SnapshotsInv
      <3> QED
        BY <1>3, <2>15, <3>1 DEF Phase1Inv, SnapshotsInv
    <2> QED
      BY <2>9, <2>13, <2>14, <2>16 DEF Phase1Inv
  <1> QED
    BY <1>4, <1>5


\* Every step of a run keeps Phase1Inv.
LEMMA RunStep == ASSUME Phase1Inv, NEW r \in Runs, Step1(r) PROVE Phase1Inv'
  <1>1. CASE RunAsks(r)
    <2>1. Phase1TypeOK'
      BY <1>1, AskType DEF RunAsks, Phase1Inv, Phase1TypeOK
    <2> QED
      BY <1>1, <2>1 DEF RunAsks, Phase1Inv, RunsInv, ReloadInv, SnapshotsInv, GenerationNamesOneGraph
  <1>2. CASE Die(r)
    BY <1>2, RaiseStep DEF Die
  <1> QED
    BY <1>1, <1>2, EarlySteps, LockedSteps, ReadingSteps, PublishStep DEF Step1

-----------------------------------------------------------------------------
(* The cold reload and its late calls                                      *)

\* A step of the reload that changes row and graph within their types keeps
\* the types.
LEMMA ReloadType ==
    ASSUME Phase1TypeOK, NEW w \in ReloadStates, reload' = w, lockQueue' = Unqueued(Reloader), row' \in Rows, stored' \subseteq Facts,
           UNCHANGED <<artifacts, run, late, landed>>
    PROVE  Phase1TypeOK'
  BY QueueType DEF Phase1TypeOK

\* The row changes with no reader beside it and no token in it.
LEMMA RowByReload ==
    ASSUME Phase1Inv, Phase1TypeOK', UNCHANGED <<run, artifacts, landed>>,
           Granted(Reloader), ~row.token, row'.gen = row.gen, ReloadInv',
           row'.state = "ready" => \E a \in artifacts : a.gen = row.gen /\ row'.sum = a.facts,
           row'.state = "ready" /\ landed = 0 => stored' = row'.sum
    PROVE  Phase1Inv'
  <1>1. \A r \in Runs : run[r].pc \notin Promoting \cup Reading
    BY GrantedAlone DEF Excludes, Phase1Inv, RunsInv, RunSound, PromotingSound
  <1>2. \A a \in artifacts : a.gen \in Nat /\ a.lands \in Nat
    BY DEF Phase1Inv, Phase1TypeOK, Snapshots1
  <1>3. landed = 0 => \A a \in artifacts : a.lands < 2
    BY <1>2 DEF Phase1Inv, SnapshotsInv
  <1>4. ASSUME NEW r \in Runs PROVE RunSound(run[r], row', stored', artifacts, landed)
    <2>1. RunSound(run[r], row, stored, artifacts, landed)
      BY DEF Phase1Inv, RunsInv
    <2>2. AlgorithmSound(run[r], row', artifacts, landed)
      BY <2>1 DEF RunSound, AlgorithmSound
    <2> QED
      BY <1>1, <2>1, <2>2, OtherRun
  <1>5. RunsInv'
    BY <1>1, <1>4 DEF RunsInv
  <1>6. GenerationNamesOneGraph'
    BY <1>2 DEF Phase1Inv, SnapshotsInv, GenerationNamesOneGraph
  <1>7. SnapshotsInv'
    BY <1>6 DEF Phase1Inv, SnapshotsInv
  <1> QED
    BY <1>5, <1>7 DEF Phase1Inv

\* Every step of the reload, deaths and late calls included, keeps Phase1Inv.
LEMMA ReloadSteps == ASSUME Phase1Inv, ReloadStep PROVE Phase1Inv'
  <1>1. PICK w \in ReloadStates : w = reload
    BY DEF Phase1Inv, Phase1TypeOK
  <1>2. row \in Rows /\ row.gen \in Nat /\ stored \subseteq Facts /\ row.sum \subseteq Facts /\ artifacts \subseteq Snapshots1
    BY DEF Phase1Inv, Phase1TypeOK, Rows
  <1>3. w.from \in Snapshots1 /\ w.from.gen \in Nat /\ w.from.facts \subseteq Facts /\ w.seen \in Rows
    BY DEF ReloadStates, Snapshots1
  <1>4. NoReload \in ReloadStates /\ NoReload.pc = "idle"
    BY DEF NoReload, ReloadStates, Snapshots1, NoRun, Rows
  \* A reload that goes on, or ends, without changing the row or the graph.
  <1>5. ASSUME NEW v \in ReloadStates, GoReload(v.pc, v), UNCHANGED <<row, stored, artifacts, run, late, landed>>,
               \/ v.pc = "idle" \/ (v.pc = "rebuilding" /\ ~v.seen.token)
               \/ /\ w.pc \in {"loading", "verifying", "readying"} /\ v.from = w.from /\ v.seen = w.seen
                  /\ v.pc \in {"verifying", "readying", "failing"} /\ (v.pc = "readying" => stored = w.from.facts)
        PROVE  Phase1Inv'
    <2>1. reload' = v /\ lockQueue' = Unqueued(Reloader)
      BY <1>5 DEF GoReload, ReloadStates
    <2>2. Phase1TypeOK'
      BY <1>2, <1>5, <2>1, ReloadType DEF Phase1Inv
    <2>3. ReloadInv'
      BY <1>1, <1>5, <2>1 DEF Phase1Inv, ReloadInv
    <2>4. RunsInv' /\ SnapshotsInv'
      BY <1>5 DEF Phase1Inv, RunsInv, SnapshotsInv, GenerationNamesOneGraph
    <2> QED
      BY <2>2, <2>3, <2>4 DEF Phase1Inv
  <1>6. CASE ReloadAsks
    <2>1. Phase1TypeOK'
      BY <1>6, AskType DEF ReloadAsks, Phase1Inv, Phase1TypeOK
    <2> QED
      BY <1>6, <2>1 DEF ReloadAsks, Phase1Inv, RunsInv, ReloadInv, SnapshotsInv, GenerationNamesOneGraph
  <1>7. CASE ReloadBegin
    <2>1. PICK v : v = [w EXCEPT !.pc = "rebuilding", !.seen = row]
      OBVIOUS
    <2>2. v \in ReloadStates /\ v.pc = "rebuilding" /\ v = [[w EXCEPT !.seen = row] EXCEPT !.pc = "rebuilding"]
      BY <1>2, <2>1 DEF ReloadStates
    <2>3. GoReload(v.pc, v)
      BY <1>1, <1>7, <2>2 DEF ReloadBegin, GoReload, ReloadStates
    <2>4. v.seen = row
      BY <2>1 DEF ReloadStates
    <2> QED
      BY <1>5, <1>7, <2>2, <2>3, <2>4 DEF ReloadBegin
  <1>8. ASSUME NEW a \in artifacts, ReloadMarks(a) PROVE Phase1Inv'
    <2>1. CASE row # w.seen
      BY <1>1, <1>4, <1>5, <1>8, <2>1 DEF ReloadMarks, GoReload, NoReload
    <2>2. CASE row = w.seen
      <3>1. PICK rw : rw = [state |-> "rebuilding", gen |-> row.gen, sum |-> {}, token |-> FALSE]
        OBVIOUS
      <3>2. rw \in Rows /\ rw.state = "rebuilding" /\ rw.gen = row.gen /\ ~rw.token
        BY <1>2, <3>1 DEF Rows
      <3>3. PICK v : v = [w EXCEPT !.from = a, !.seen = rw, !.pc = "loading"]
        OBVIOUS
      <3>4. a \in Snapshots1
        BY <1>2
      <3>5. v \in ReloadStates /\ v.pc = "loading" /\ v.from = a /\ v.seen = rw
        BY <3>2, <3>3, <3>4 DEF ReloadStates
      <3>6. /\ row' = rw /\ reload' = v /\ lockQueue' = Unqueued(Reloader)
            /\ UNCHANGED <<stored, artifacts, run, late, landed>>
        BY <1>1, <1>8, <2>2, <3>1, <3>3 DEF ReloadMarks, GoReload
      <3>7. Phase1TypeOK'
        BY <1>2, <3>2, <3>5, <3>6, ReloadType DEF Phase1Inv
      <3>8. ReloadInv'
        BY <3>2, <3>5, <3>6 DEF ReloadInv
      <3>9. Granted(Reloader) /\ ~row.token
        BY <1>1, <1>8, <2>2 DEF ReloadMarks, Phase1Inv, ReloadInv
      <3> QED
        BY <3>2, <3>6, <3>7, <3>8, <3>9, RowByReload
    <2> QED
      BY <2>1, <2>2
  <1>9. CASE ReloadLoads
    <2>1. /\ w.pc = "loading" /\ row.state = "rebuilding" /\ ~row.token /\ w.from \in artifacts /\ row = w.seen
      BY <1>1, <1>9 DEF ReloadLoads, Phase1Inv, ReloadInv
    <2>2. CASE Readable(w.from.facts)
      <3>1. PICK v : v = [w EXCEPT !.pc = "verifying"]
        OBVIOUS
      <3>2. v \in ReloadStates /\ v.pc = "verifying" /\ v.from = w.from /\ v.seen = w.seen
        BY <3>1 DEF ReloadStates
      <3>3. /\ stored' = w.from.facts /\ reload' = v /\ lockQueue' = Unqueued(Reloader)
            /\ UNCHANGED <<row, artifacts, run, late, landed>>
        BY <1>1, <1>9, <2>2, <3>1 DEF ReloadLoads, GoReload
      <3>4. Phase1TypeOK'
        BY <1>2, <1>3, <3>2, <3>3, ReloadType DEF Phase1Inv
      <3>5. ReloadInv'
        BY <2>1, <3>2, <3>3 DEF ReloadInv
      <3>6. ASSUME NEW r \in Runs PROVE RunSound(run[r], row, stored', artifacts, landed)
        <4>1. RunSound(run[r], row, stored, artifacts, landed)
          BY DEF Phase1Inv, RunsInv
        <4>2. run[r].pc \notin Promoting \cup Reading
          BY <2>1, <4>1 DEF RunSound, ReadingSound, PromotingSound
        <4> QED
          BY <4>1, <4>2, OtherRun DEF RunSound
      <3>7. RunsInv'
        BY <3>3, <3>6 DEF Phase1Inv, RunsInv
      <3>8. SnapshotsInv'
        BY <2>1, <3>3 DEF Phase1Inv, SnapshotsInv, GenerationNamesOneGraph
      <3> QED
        BY <3>4, <3>5, <3>7, <3>8 DEF Phase1Inv
    <2>3. CASE ~Readable(w.from.facts)
      <3>1. PICK v : v = [w EXCEPT !.pc = "failing"]
        OBVIOUS
      <3>2. v \in ReloadStates /\ v.pc = "failing" /\ v.from = w.from /\ v.seen = w.seen /\ [v EXCEPT !.pc = "failing"] = v
        BY <3>1 DEF ReloadStates
      <3>3. GoReload(v.pc, v) /\ UNCHANGED <<row, stored, artifacts, run, late, landed>>
        BY <1>1, <1>9, <2>3, <3>1, <3>2 DEF ReloadLoads, GoReload
      <3> QED
        BY <1>5, <2>1, <3>2, <3>3
    <2> QED
      BY <2>2, <2>3
  <1>10. CASE ReloadVerifies
    <2>1. PICK p \in {"readying", "failing"} : GoReload(p, w) /\ (p = "readying" => stored = w.from.facts)
      BY <1>1, <1>10 DEF ReloadVerifies
    <2>2. PICK v : v = [w EXCEPT !.pc = p]
      OBVIOUS
    <2>3. v \in ReloadStates /\ v.pc = p /\ v.from = w.from /\ v.seen = w.seen /\ [v EXCEPT !.pc = p] = v
      BY <2>2 DEF ReloadStates
    <2>4. GoReload(v.pc, v)
      BY <2>1, <2>2, <2>3 DEF GoReload
    <2> QED
      BY <1>1, <1>5, <1>10, <2>1, <2>3, <2>4 DEF ReloadVerifies
  <1>11. CASE ReloadPublishes
    <2>1. /\ w.pc = "readying" /\ row.state = "rebuilding" /\ ~row.token /\ w.from \in artifacts /\ row = w.seen
          /\ landed = 0 => stored = w.from.facts
      BY <1>1, <1>11 DEF ReloadPublishes, Phase1Inv, ReloadInv
    <2>2. CASE Reloaded(w.from) # row
      <3>1. PICK rw : rw = [state |-> "ready", gen |-> w.from.gen, sum |-> w.from.facts, token |-> FALSE]
        OBVIOUS
      <3>2. rw \in Rows /\ rw.gen = w.from.gen /\ rw.sum = w.from.facts /\ ~rw.token
        BY <1>3, <3>1 DEF Rows
      <3>3. w.from.gen >= row.gen /\ Reloaded(w.from) = rw
        BY <2>2, <3>1 DEF Reloaded
      <3>4. w.from.gen = row.gen
        BY <1>2, <1>3, <2>1, <3>3 DEF Phase1Inv, SnapshotsInv
      <3>5. /\ row' = rw /\ reload' = NoReload /\ lockQueue' = Unqueued(Reloader)
            /\ UNCHANGED <<stored, artifacts, run, late, landed>>
        BY <1>1, <1>11, <2>2, <3>3 DEF ReloadPublishes, GoReload, NoReload
      <3>6. Phase1TypeOK'
        BY <1>2, <1>4, <3>2, <3>5, ReloadType DEF Phase1Inv
      <3>7. ReloadInv'
        BY <1>4, <3>5 DEF ReloadInv
      <3>8. Granted(Reloader)
        BY <1>11 DEF ReloadPublishes
      <3> QED
        BY <2>1, <3>2, <3>4, <3>5, <3>6, <3>7, <3>8, RowByReload
    <2>3. CASE Reloaded(w.from) = row
      <3>1. PICK v : v = [w EXCEPT !.pc = "failing"]
        OBVIOUS
      <3>2. v \in ReloadStates /\ v.pc = "failing" /\ v.from = w.from /\ v.seen = w.seen /\ [v EXCEPT !.pc = "failing"] = v
        BY <3>1 DEF ReloadStates
      <3>3. GoReload(v.pc, v) /\ UNCHANGED <<row, stored, artifacts, run, late, landed>>
        BY <1>1, <1>11, <2>3, <3>1, <3>2 DEF ReloadPublishes, GoReload
      <3> QED
        BY <1>5, <2>1, <3>2, <3>3
    <2> QED
      BY <2>2, <2>3
  <1>12. CASE ReloadFails
    <2>1. w.pc = "failing" /\ row.state = "rebuilding" /\ ~row.token
      BY <1>1, <1>12 DEF ReloadFails, Phase1Inv, ReloadInv
    <2>2. PICK rw : rw = [state |-> "failed", gen |-> row.gen, sum |-> {}, token |-> FALSE]
      OBVIOUS
    <2>3. rw \in Rows /\ rw.state = "failed" /\ rw.gen = row.gen
      BY <1>2, <2>2 DEF Rows
    <2>4. /\ row' = rw /\ reload' = NoReload /\ lockQueue' = Unqueued(Reloader)
          /\ UNCHANGED <<stored, artifacts, run, late, landed>>
      BY <1>1, <1>12, <2>1, <2>2 DEF ReloadFails, GoReload, NoReload
    <2>5. Phase1TypeOK'
      BY <1>2, <1>4, <2>3, <2>4, ReloadType DEF Phase1Inv
    <2>6. ReloadInv'
      BY <1>4, <2>4 DEF ReloadInv
    <2>7. Granted(Reloader)
      BY <1>12 DEF ReloadFails
    <2> QED
      BY <2>1, <2>3, <2>4, <2>5, <2>6, <2>7, RowByReload
  <1>13. ASSUME NEW call \in {"drop", "load"}, ReloadTimesOut(call) PROVE Phase1Inv'
    <2>1. w.pc = "loading" /\ row = w.seen /\ row.state = "rebuilding" /\ ~row.token /\ w.from \in artifacts
      BY <1>1, <1>13 DEF ReloadTimesOut, Phase1Inv, ReloadInv
    <2>2. PICK v : v = [w EXCEPT !.pc = "failing"]
      OBVIOUS
    <2>3. v \in ReloadStates /\ v.pc = "failing" /\ v.from = w.from /\ v.seen = w.seen
      BY <2>2 DEF ReloadStates
    <2>4. /\ reload' = v /\ lockQueue' = Unqueued(Reloader) /\ late' = late \cup {[call |-> call, facts |-> w.from.facts]}
          /\ UNCHANGED <<row, stored, artifacts, run, landed>>
      BY <1>1, <1>13, <2>2 DEF ReloadTimesOut, GoReload
    <2>5. lockQueue' \in Seq(Runs \cup {Reloader})
      BY <2>4, QueueType DEF Phase1Inv
    <2>6. \A x \in late' : x.facts \subseteq Facts
      BY <1>3, <2>4 DEF Phase1Inv, Phase1TypeOK
    <2>7. Phase1TypeOK'
      BY <2>3, <2>4, <2>5, <2>6 DEF Phase1Inv, Phase1TypeOK
    <2>8. ReloadInv'
      BY <2>1, <2>3, <2>4 DEF ReloadInv
    <2>9. RunsInv' /\ SnapshotsInv'
      BY <2>4 DEF Phase1Inv, RunsInv, SnapshotsInv, GenerationNamesOneGraph
    <2> QED
      BY <2>7, <2>8, <2>9 DEF Phase1Inv
  <1>14. ASSUME NEW x \in late, LateCallLands(x) PROVE Phase1Inv'
    <2>1. PICK n : n = landed + 1 /\ landed' = n /\ landed \in Nat
      BY <1>14 DEF LateCallLands, Phase1Inv, Phase1TypeOK
    <2>2. /\ late' = late \ {x} /\ UNCHANGED <<row, lockQueue, artifacts, run, reload>>
          /\ stored' = {} \/ stored' = Put(stored, x.facts)
      BY <1>14 DEF LateCallLands
    <2>3. stored' \subseteq Facts
      BY <1>2, <2>2 DEF Put, Phase1Inv, Phase1TypeOK
    <2>4. \A r \in Runs : run[r].from \in Nat /\ run[r].from <= landed
      BY DEF Phase1Inv, Phase1TypeOK, RunStates
    <2>5. Phase1TypeOK'
      BY <2>1, <2>2, <2>3, <2>4 DEF Phase1Inv, Phase1TypeOK
    <2>6. ASSUME NEW r \in Runs PROVE RunSound(run[r], row, stored', artifacts, n)
      <3>1. RunSound(run[r], row, stored, artifacts, landed)
        BY DEF Phase1Inv, RunsInv
      <3>2. AlgorithmSound(run[r], row, artifacts, n) /\ PromotingSound(run[r], row, stored', n)
        BY <2>1, <3>1 DEF RunSound, AlgorithmSound, PromotingSound
      <3>3. ReadingSound(run[r], row, stored', n)
        BY <2>1, <2>4, <3>1 DEF RunSound, ReadingSound
      <3> QED
        BY <2>1, <3>1, <3>2, <3>3 DEF RunSound
    <2>7. RunsInv'
      BY <2>1, <2>2, <2>6 DEF Phase1Inv, RunsInv
    <2>8. ReloadInv'
      BY <2>1, <2>2 DEF Phase1Inv, ReloadInv
    <2>9. \A a \in artifacts : a.lands \in Nat
      BY <1>2 DEF Snapshots1
    <2>10. SnapshotsInv'
      BY <2>1, <2>2, <2>9 DEF Phase1Inv, SnapshotsInv, GenerationNamesOneGraph
    <2> QED
      BY <2>5, <2>7, <2>8, <2>10 DEF Phase1Inv
  <1> QED
    BY <1>6, <1>7, <1>8, <1>9, <1>10, <1>11, <1>12, <1>13, <1>14 DEF ReloadStep

-----------------------------------------------------------------------------
(* The theorems                                                            *)

\* Phase1Init establishes Phase1Inv.
LEMMA Phase1Starts == Phase1Init => Phase1Inv
  <1> SUFFICES ASSUME Phase1Init PROVE Phase1Inv
    OBVIOUS
  <1>1. stored \subseteq Facts
    BY DEF Phase1Init, Facts
  <1>2. NoReload \in ReloadStates /\ NoReload.pc = "idle"
    BY DEF NoReload, ReloadStates, Snapshots1, NoRun, Rows
  <1>3. NoRun \in RunStates /\ NoRun.pc = "start" /\ NoRun.reads = {} /\ NoRun.count = 0 /\ NoRun.from = 0
    <2>1. "start" \in RunSteps
      BY DEF RunSteps, BeforeReads
    <2> QED
      BY <2>1 DEF NoRun, RunStates, Rows
  <1>4. row \in Rows /\ row.gen = 0 /\ row.sum = stored
    BY <1>1 DEF Phase1Init, Rows
  <1>5. PICK a : /\ artifacts = {a} /\ a = [by |-> "none", gen |-> 0, facts |-> stored, reads |-> {stored}, lands |-> 0]
    BY DEF Phase1Init
  <1>6. a \in Snapshots1 /\ a.gen = 0 /\ a.lands = 0 /\ a.reads = {a.facts} /\ a.facts = stored
    BY <1>1, <1>5 DEF Snapshots1
  <1>7. lockQueue \in Seq(Runs \cup {Reloader})
    BY DEF Phase1Init
  <1>8. Phase1TypeOK
    BY <1>1, <1>2, <1>3, <1>4, <1>5, <1>6, <1>7 DEF Phase1Init, Phase1TypeOK
  <1>9. \A r \in Runs : RunSound(run[r], row, stored, artifacts, landed)
    <2>1. NoRun.pc \in BeforeReads \ Promoting /\ NoRun.pc # "begin"
      BY <1>3 DEF BeforeReads, Promoting
    <2>2. RunSound(NoRun, row, stored, artifacts, landed)
      BY <1>3, <2>1, EarlySound
    <2> QED
      BY <2>2 DEF Phase1Init
  <1>10. RunsInv
    BY <1>3, <1>9 DEF Phase1Init, RunsInv, Promoting
  <1>11. ReloadInv /\ SnapshotsInv
    BY <1>2, <1>4, <1>5, <1>6 DEF Phase1Init, ReloadInv, SnapshotsInv, GenerationNamesOneGraph
  <1> QED
    BY <1>8, <1>10, <1>11 DEF Phase1Inv

\* Every reachable state of Phase 1, the canary and the reload satisfies the invariant.
THEOREM Phase1Invariant == Phase1Spec => []Phase1Inv
  <1>1. Phase1Inv /\ [Phase1Next]_phase1Vars => Phase1Inv'
    <2> SUFFICES ASSUME Phase1Inv, [Phase1Next]_phase1Vars PROVE Phase1Inv'
      OBVIOUS
    <2>1. CASE UNCHANGED phase1Vars
      BY <2>1 DEF phase1Vars, Phase1Inv, Phase1TypeOK, RunsInv, ReloadInv, SnapshotsInv, GenerationNamesOneGraph
    <2>2. CASE Phase1Next
      BY <2>2, RunStep, ReloadSteps DEF Phase1Next
    <2> QED
      BY <2>1, <2>2
  <1> QED
    BY <1>1, Phase1Starts, PTL DEF Phase1Spec

\* What Phase 1 publishes and what a canary reads is one graph, and a generation names
\* no other, for any number of runs, channels, reloads and late calls.
THEOREM Phase1IsSafe == Phase1Spec => []Phase1Safe
  <1>1. Phase1Inv => Phase1Safe
    BY DEF Phase1Inv, RunsInv, RunSound, SnapshotsInv, Phase1Safe, PublishedIsOneGraph, Runs
  <1> QED
    BY <1>1, Phase1Invariant, PTL

\* Everyone waits on everyone only when a run nests its shared lock behind a status write.
THEOREM StuckByNesting == Phase1Spec => []StuckOnlyByNesting
  <1>1. Phase1Inv => StuckOnlyByNesting
    <2> SUFFICES ASSUME Phase1Inv, Stuck PROVE StuckOnlyByNesting
      BY DEF StuckOnlyByNesting
    <2>1. lockQueue \in Seq(Runs \cup {Reloader}) /\ lockQueue # <<>>
      BY DEF Phase1Inv, Phase1TypeOK, Stuck
    <2>2. PICK h : h = lockQueue[1]
      OBVIOUS
    <2>3. 1 \in DOMAIN lockQueue /\ Waits(h)
      BY <2>1, <2>2 DEF Waits, ToSet
    <2>4. Before1(h) = {}
      BY <2>1, <2>2 DEF Before1
    <2>5. ~Granted(h)
      BY <2>3 DEF Stuck, Waits
    <2>6. PICK r \in Holders : TRUE
      BY <2>3, <2>4, <2>5 DEF Granted
    <2>7. CASE ~Waits(r)
      BY <2>6, <2>7 DEF StuckOnlyByNesting, Holders, Holding
    <2>8. CASE Waits(r)
      <3>1. ~Granted(r)
        BY <2>8 DEF Stuck, Waits
      <3>2. ~Excludes(r)
        BY <2>6, Phase1Assumption DEF Holders, Holding, Excludes, Excluding
      <3>3. \E x \in Before1(r) : Excludes(x)
        BY <2>8, <3>1, <3>2 DEF Granted
      <3> QED
        BY <2>6, <2>8, <3>3 DEF StuckOnlyByNesting
    <2> QED
      BY <2>7, <2>8
  <1> QED
    BY <1>1, Phase1Invariant, PTL

-----------------------------------------------------------------------------
(* Entity registry: the inductive invariant                                *)

Ids == EntityIds \cup {None}
Mentions == {Query(MentionOf[r]) : r \in References} \cup {MentionOf[r] : r \in References}
PromotedAliases ==
    {[entity |-> x[1], text |-> MentionOf[x[2]], type |-> "short_name"] : x \in EntityIds \X References}
AllAliases == (UNION {AliasesOf(r) : r \in UNION Snapshots}) \cup PromotedAliases
ScoreValues == {Max(T) : T \in (SUBSET {Similar[x[1]][x[2].text] : x \in Mentions \X AllAliases}) \ {{}}}
ScoreMaps == UNION {[D -> ScoreValues] : D \in SUBSET EntityIds}

Methods == {"absent", "unresolved", "deterministic", "fuzzy", "llm", "manual", "none"}
RefRows == [entity : Ids, method : Methods]
CaseRows == [stamp : Nat, selected : Ids, candidates : SUBSET Ids]
ItemRows == [status : {"absent", "pending", "claimed", "rejected", "promoted"}, candidates : SUBSET Ids]
FirstCopies == {<<x>> : x \in [References -> RefRows]}
Copies == [References -> RefRows] \X [References -> CaseRows] \X SUBSET AllAliases

Resolving == {"validate", "collect", "decide", "save"}
Queueing == {"enqueue", "find", "case", "queue"}
Reviewing ==
    {"copy", "audit", "alias", "terminal", "refill_aliases", "clear_references",
     "refill_references", "clear_cases", "refill_cases"}
Pcs == {"idle", "done", "entities", "aliases", "report", "answer"} \cup Resolving \cup Queueing \cup Reviewing

Jobs ==
    [pc : Pcs, todo : Seq(References \cup UNION Snapshots), found : SUBSET EntityIds, scores : ScoreMaps,
     failed : BOOLEAN, case : CaseRows, method : Methods, errors : SUBSET References,
     review : SUBSET References, groups : SUBSET SUBSET References, results : Seq(References \X Ids),
     public : BOOLEAN, status : {"none", "running", "failed", "completed"},
     promotes : {"none", "short_name"}, snapshot : {<<>>} \cup Snapshots \cup FirstCopies \cup Copies]

RegistryTypeOK ==
    /\ DOMAIN entities \subseteq EntityIds
    /\ aliases \subseteq AllAliases
    /\ refs \in [References -> RefRows]
    /\ cases \in [References -> CaseRows]
    /\ items \in [References -> ItemRows]
    /\ reviewLock \in Threads \cup {"free"}
    /\ job \in [Threads -> Jobs]
    /\ clock \in Nat /\ clock >= 1
    /\ raced \subseteq References

\* Three repositories, as they are or as a decision copied them: what they name
\* is there.
StoreSound(rs, cs, as, E, n) ==
    /\ \A a \in as : a.entity \in E
    /\ \A r \in References :
          /\ {rs[r].entity, cs[r].selected} \cup cs[r].candidates \subseteq E \cup {None}
          /\ cs[r].stamp <= n

\* A case about to be saved is older than the saved one only in a race.
Behind(j, cs, R) ==
    j.pc \in {"save", "copy", "audit"} /\ j.case.stamp < cs[Head(j.todo)].stamp => Head(j.todo) \in R

\* What a job names is there, and what it still has to do.
WorkSound(j, E, n) ==
    /\ j.found \cup DOMAIN j.scores \subseteq E
    /\ {j.case.selected} \cup j.case.candidates \subseteq E \cup {None}
    /\ j.case.stamp <= n
    /\ IsFiniteSet(j.review)
    /\ j.pc \in Resolving \cup Queueing \cup Reviewing => j.todo \in Seq(References) /\ j.todo # <<>>
    /\ j.pc = "report" => j.errors # {} \/ j.results # <<>>
    /\ j.pc = "answer" => j.results # <<>>
    /\ j.pc = "entities" => j.todo \in Seq(UNION Snapshots) /\ j.todo # <<>>
    /\ j.pc \in {"entities", "aliases"} =>
          /\ j.snapshot \in Snapshots
          /\ \A r \in j.snapshot :
                r.entity \in E \/ (j.pc = "entities" /\ \E i \in DOMAIN j.todo : j.todo[i].entity = r.entity)

\* What a job has left for review is queued or still on its list.
ReviewSound(j, it, R) ==
    /\ j.pc \in {"case", "queue"} /\ it[Head(j.todo)] # NoItem => Head(j.todo) \in R
    /\ j.pc = "done" => j.status = "completed"
    /\ j.pc \in Queueing \cup {"done"} =>
          /\ UNION j.groups = j.review
          /\ \A r \in j.review :
                it[r] # NoItem \/ (j.pc \in Queueing /\ \E i \in DOMAIN j.todo : j.todo[i] = r)

\* A decision has the review queue to itself and an item that is not decided.
DecisionSound(j, t, it, lock, E, n) ==
    j.pc \in Reviewing =>
        /\ lock = t
        /\ it[Head(j.todo)].status \in {"pending", "claimed"}
        /\ j.pc = "copy" =>
              /\ j.snapshot \in FirstCopies
              /\ \A r \in References : j.snapshot[1][r].entity \in E \cup {None}
        /\ j.pc # "copy" =>
              /\ j.snapshot \in Copies
              /\ StoreSound(j.snapshot[1], j.snapshot[2], j.snapshot[3], E, n)
        /\ j.promotes # "none" => j.case.selected \in E
        /\ j.pc = "alias" => j.promotes # "none"

StoresInv ==
    /\ StoreSound(refs, cases, aliases, DOMAIN entities, clock)
    /\ \A r \in References : items[r].candidates \subseteq DOMAIN entities \cup {None}

JobsInv ==
    \A t \in Threads :
        /\ WorkSound(job[t], DOMAIN entities, clock)
        /\ ReviewSound(job[t], items, raced)
        /\ DecisionSound(job[t], t, items, reviewLock, DOMAIN entities, clock)

BehindInv ==
    /\ \A u \in Threads : Behind(job[u], cases, raced)
    /\ \A t, u \in Threads : job[t].pc \in Reviewing \ {"copy"} => Behind(job[u], job[t].snapshot[2], raced)

RegistryInv == RegistryTypeOK /\ StoresInv /\ JobsInv /\ BehindInv

-----------------------------------------------------------------------------
(* What the operators promise                                              *)

\* SetToSeq lists every element of a finite set.
LEMMA SeqOfSet ==
    ASSUME NEW S, IsFiniteSet(S)
    PROVE  /\ SetToSeq(S) \in Seq(S)
           /\ \A x \in S : \E i \in DOMAIN SetToSeq(S) : SetToSeq(S)[i] = x
           /\ S # {} => SetToSeq(S) # <<>>
  <1> DEFINE n == Cardinality(S)
  <1>1. n \in Nat
    BY FS_CardinalityType
  <1>2. PICK f : f \in Bijection(1..n, S)
    BY FS_NatBijection, <1>1, FS_CountingElements DEF ExistsBijection
  <1>3. f \in [1..n -> S] /\ IsInjective(f)
    BY <1>2 DEF Bijection, Injection, IsInjective
  <1> DEFINE g == SetToSeq(S)
  <1>4. g \in [1..n -> S] /\ IsInjective(g)
    BY <1>3 DEF SetToSeq
  <1>5. g \in Injection(1..n, S)
    BY <1>4 DEF Injection, IsInjective
  <1>6. g \in Surjection(1..n, S)
    <2>1. IsFiniteSet(1..n) /\ Cardinality(1..n) = n
      BY <1>1, FS_Interval
    <2> HIDE DEF g
    <2> QED
      BY <1>5, <2>1, FS_Injection
  <1>7. g \in Seq(S) /\ DOMAIN g = 1..n
    BY <1>1, <1>4
  <1>8. \A x \in S : \E i \in 1..n : g[i] = x
    BY <1>6 DEF Surjection
  <1> HIDE DEF g, n
  <1>9. ASSUME S # {} PROVE g # <<>>
    <2>1. PICK i \in 1..n : TRUE
      BY <1>8, <1>9
    <2> QED
      BY <1>1, <1>7, <2>1
  <1> QED
    BY <1>7, <1>8, <1>9 DEF g

\* What is found for a mention is in the registry.
LEMMA HitsKnown == \A m : DeterministicHits(m) \subseteq DOMAIN entities
  BY DEF DeterministicHits

\* What the fuzzy stage scores is the entity of an alias that is there.
LEMMA FuzzyKnown ==
    ASSUME RegistryTypeOK, NEW m \in Mentions
    PROVE  /\ FuzzyScores(m) \in ScoreMaps
           /\ DOMAIN FuzzyScores(m) \subseteq DOMAIN entities
  <1> DEFINE fits == {a \in aliases : /\ a.entity \in DOMAIN entities
                                      /\ SameBlock[m][a.text] \/ Similar[m][a.text] = 1000
                                      /\ Similar[m][a.text] >= MinScore}
             T(e) == {Similar[m][a.text] : a \in {b \in fits : b.entity = e}}
             D == {a.entity : a \in fits}
             best == [e \in D |-> Max(T(e))]
             before(e) == {f \in DOMAIN best : best[f] > best[e] \/ (best[f] = best[e] /\ f < e)}
             K == {x \in DOMAIN best : Cardinality(before(x)) < Limit}
             V == {Similar[x[1]][x[2].text] : x \in Mentions \X AllAliases}
  <1>1. \A e \in D : T(e) \in (SUBSET V) \ {{}}
    <2> SUFFICES ASSUME NEW e \in D PROVE T(e) \subseteq V /\ T(e) # {}
      OBVIOUS
    <2>1. T(e) # {}
      <3>1. PICK a \in fits : a.entity = e
        OBVIOUS
      <3>2. Similar[m][a.text] \in T(e)
        BY <3>1
      <3> QED
        BY <3>2
    <2>2. \A a \in aliases : Similar[m][a.text] \in V
      <3> SUFFICES ASSUME NEW a \in aliases PROVE Similar[m][a.text] \in V
        OBVIOUS
      <3>1. <<m, a>> \in Mentions \X AllAliases
        BY DEF RegistryTypeOK
      <3> QED
        BY <3>1
    <2> QED
      BY <2>1, <2>2
  <1>2. \A e \in D : best[e] \in ScoreValues
    <2>1. ScoreValues = {Max(U) : U \in (SUBSET V) \ {{}}}
      BY DEF ScoreValues
    <2>2. \A e \in D : best[e] = Max(T(e))
      OBVIOUS
    <2> HIDE DEF V, T, D, best
    <2> QED
      BY <1>1, <2>1, <2>2
  <1>3. K \subseteq D /\ D \subseteq DOMAIN entities
    OBVIOUS
  <1>4. FuzzyScores(m) = [e \in K |-> best[e]]
    BY DEF FuzzyScores
  <1> HIDE DEF K, best, D
  <1>5. FuzzyScores(m) \in [K -> ScoreValues] /\ DOMAIN FuzzyScores(m) = K
    BY <1>2, <1>3, <1>4
  <1>6. K \in SUBSET EntityIds
    BY <1>3 DEF RegistryTypeOK
  <1> QED
    BY <1>3, <1>5, <1>6 DEF ScoreMaps

\* So is what a whole resolution scores, whichever stage fails.
LEMMA ScoresKnown ==
    ASSUME RegistryTypeOK, NEW r \in References, NEW fails
    PROVE  /\ Scores(MentionOf[r], fails) \in ScoreMaps
           /\ DOMAIN Scores(MentionOf[r], fails) \subseteq DOMAIN entities
  <1> DEFINE none == [e \in {} |-> 0]
  <1>1. none \in ScoreMaps /\ DOMAIN none = {}
    <2>1. none \in [{} -> ScoreValues] /\ {} \in SUBSET EntityIds
      OBVIOUS
    <2> QED
      BY <2>1 DEF ScoreMaps
  <1>2. Query(MentionOf[r]) \in Mentions
    BY DEF Mentions
  <1> QED
    BY <1>1, <1>2, FuzzyKnown DEF Scores

\* A decision selects one of the candidates, or nothing.
LEMMA DecisionKnown ==
    ASSUME NEW hits, NEW scores, NEW failed, NEW reply
    PROVE  /\ Decision(hits, scores, failed, reply).entity \in hits \cup DOMAIN scores \cup {None}
           /\ Decision(hits, scores, failed, reply).method \in Methods
  <1>1. Cardinality(hits) = 1 => hits # {}
    BY FS_EmptySet
  <1>2. Cardinality(DOMAIN scores) = 1 => DOMAIN scores # {}
    BY FS_EmptySet
  <1>3. /\ AutoDecision(hits, scores, failed).entity \in hits \cup DOMAIN scores \cup {None}
        /\ AutoDecision(hits, scores, failed).method \in Methods
    BY <1>1, <1>2 DEF AutoDecision, Methods
  <1>4. /\ Selected(reply, hits \cup DOMAIN scores).entity \in hits \cup DOMAIN scores \cup {None}
        /\ Selected(reply, hits \cup DOMAIN scores).method \in Methods
    BY DEF Selected, Methods
  <1> QED
    BY <1>3, <1>4 DEF Decision


-----------------------------------------------------------------------------
(* What a step of somebody else leaves of a job                            *)

\* Entities, the clock and the raced references only grow.
Grows(E, F, n, m, R, S) == E \subseteq F /\ n \in Nat /\ m \in Nat /\ n <= m /\ R \subseteq S

\* A store that names what is there still does when more is there.
LEMMA StoreGrows ==
    ASSUME NEW rs, NEW cs \in [References -> CaseRows], NEW as,
           NEW E, NEW F, NEW n, NEW m, NEW R, NEW S,
           Grows(E, F, n, m, R, S), StoreSound(rs, cs, as, E, n)
    PROVE  StoreSound(rs, cs, as, F, m)
  <1>1. \A r \in References : cs[r].stamp \in Nat
    BY DEF CaseRows
  <1>2. \A r \in References : cs[r].stamp <= m
    BY <1>1 DEF StoreSound, Grows
  <1> QED
    BY <1>2 DEF StoreSound, Grows

\* So does the work of a job.
LEMMA WorkGrows ==
    ASSUME NEW j \in Jobs, NEW E, NEW F, NEW n, NEW m, NEW R, NEW S,
           Grows(E, F, n, m, R, S), WorkSound(j, E, n)
    PROVE  WorkSound(j, F, m)
  <1>1. j.case.stamp \in Nat
    BY DEF Jobs, CaseRows
  <1>2. j.case.stamp <= m
    BY <1>1 DEF WorkSound, Grows
  <1> QED
    BY <1>2 DEF WorkSound, Grows

\* A decision keeps its lock and its item while others step.
LEMMA DecisionGrows ==
    ASSUME NEW j \in Jobs, NEW t, NEW it, NEW nt, NEW lock, NEW held,
           NEW E, NEW F, NEW n, NEW m, NEW R, NEW S, Grows(E, F, n, m, R, S),
           DecisionSound(j, t, it, lock, E, n),
           j.pc \in Reviewing /\ lock = t => held = t /\ nt[Head(j.todo)].status \in {"pending", "claimed"}
    PROVE  DecisionSound(j, t, nt, held, F, m)
  <1> SUFFICES ASSUME j.pc \in Reviewing PROVE DecisionSound(j, t, nt, held, F, m)
    BY DEF DecisionSound
  <1>1. CASE j.pc = "copy"
    BY <1>1 DEF DecisionSound, Grows
  <1>2. CASE j.pc # "copy"
    <2>1. j.snapshot \in Copies /\ StoreSound(j.snapshot[1], j.snapshot[2], j.snapshot[3], E, n)
      BY <1>2 DEF DecisionSound
    <2>2. j.snapshot[2] \in [References -> CaseRows]
      BY <2>1 DEF Copies
    <2>3. StoreSound(j.snapshot[1], j.snapshot[2], j.snapshot[3], F, m)
      BY <2>1, <2>2, StoreGrows
    <2> QED
      BY <1>2, <2>1, <2>3 DEF DecisionSound, Grows
  <1> QED
    BY <1>1, <1>2

\* A job keeps what it has queued while others queue more.
LEMMA ReviewGrows ==
    ASSUME NEW j \in Jobs, NEW it, NEW nt, NEW R, NEW S, R \subseteq S, ReviewSound(j, it, R),
           \A r \in References : it[r] # NoItem => nt[r] # NoItem,
           j.pc \in {"case", "queue"} => nt[Head(j.todo)] = it[Head(j.todo)] \/ Head(j.todo) \in S
    PROVE  ReviewSound(j, nt, S)
  <1>1. j.review \subseteq References
    BY DEF Jobs
  <1> QED
    BY <1>1 DEF ReviewSound

\* One job moves to j, the variables around it grow: the other jobs keep what
\* they have, if their items and their lock do.
LEMMA JobsStep ==
    ASSUME RegistryInv, NEW t \in Threads, NEW j \in Jobs, job' = [job EXCEPT ![t] = j],
           Grows(DOMAIN entities, DOMAIN entities', clock, clock', raced, raced'),
           WorkSound(j, DOMAIN entities', clock'), ReviewSound(j, items', raced'),
           DecisionSound(j, t, items', reviewLock', DOMAIN entities', clock'),
           \A r \in References : items[r] # NoItem => items'[r] # NoItem,
           \A u \in Threads \ {t} :
               /\ job[u].pc \in {"case", "queue"} =>
                     items'[Head(job[u].todo)] = items[Head(job[u].todo)] \/ Head(job[u].todo) \in raced'
               /\ job[u].pc \in Reviewing /\ reviewLock = u =>
                     reviewLock' = u /\ items'[Head(job[u].todo)].status \in {"pending", "claimed"}
    PROVE  JobsInv' /\ job' \in [Threads -> Jobs]
  <1>1. job \in [Threads -> Jobs] /\ job' \in [Threads -> Jobs] /\ job'[t] = j
    BY DEF RegistryInv, RegistryTypeOK
  <1>2. ASSUME NEW u \in Threads \ {t}
        PROVE  /\ WorkSound(job[u], DOMAIN entities', clock')
               /\ ReviewSound(job[u], items', raced')
               /\ DecisionSound(job[u], u, items', reviewLock', DOMAIN entities', clock')
    <2>1. /\ job[u] \in Jobs /\ WorkSound(job[u], DOMAIN entities, clock) /\ ReviewSound(job[u], items, raced)
          /\ DecisionSound(job[u], u, items, reviewLock, DOMAIN entities, clock)
      BY <1>1 DEF RegistryInv, JobsInv
    <2>2. WorkSound(job[u], DOMAIN entities', clock')
      BY <2>1, WorkGrows
    <2>3. ReviewSound(job[u], items', raced')
      <3>1. raced \subseteq raced'
        BY DEF Grows
      <3>2. job[u].pc \in {"case", "queue"} =>
                items'[Head(job[u].todo)] = items[Head(job[u].todo)] \/ Head(job[u].todo) \in raced'
        OBVIOUS
      <3> QED
        BY <2>1, <3>1, <3>2, ReviewGrows
    <2>4. DecisionSound(job[u], u, items', reviewLock', DOMAIN entities', clock')
      <3>1. job[u].pc \in Reviewing /\ reviewLock = u =>
                reviewLock' = u /\ items'[Head(job[u].todo)].status \in {"pending", "claimed"}
        OBVIOUS
      <3> QED
        BY <2>1, <3>1, DecisionGrows
    <2> QED
      BY <2>2, <2>3, <2>4
  <1>3. \A u \in Threads \ {t} : job'[u] = job[u]
    BY <1>1
  <1>4. ASSUME NEW u \in Threads
        PROVE  /\ WorkSound(job'[u], DOMAIN entities', clock')
               /\ ReviewSound(job'[u], items', raced')
               /\ DecisionSound(job'[u], u, items', reviewLock', DOMAIN entities', clock')
    <2>1. CASE u = t
      BY <1>1, <2>1
    <2>2. CASE u # t
      BY <1>2, <1>3, <2>2
    <2> QED
      BY <2>1, <2>2
  <1> QED
    BY <1>1, <1>4 DEF JobsInv

\* A job that only moves, and has built no case, keeps the invariant.
LEMMA RestingStep ==
    ASSUME RegistryInv, NEW t \in Threads, NEW j \in Jobs, job' = [job EXCEPT ![t] = j],
           UNCHANGED <<entities, aliases, refs, cases, items, reviewLock, clock, raced>>,
           j.pc \notin Reviewing \cup {"save"},
           WorkSound(j, DOMAIN entities, clock), ReviewSound(j, items, raced)
    PROVE  RegistryInv'
  <1>1. Grows(DOMAIN entities, DOMAIN entities', clock, clock', raced, raced')
    BY DEF Grows, RegistryInv, RegistryTypeOK
  <1>2. DecisionSound(j, t, items', reviewLock', DOMAIN entities', clock')
    BY DEF DecisionSound
  <1>3. \A u \in Threads \ {t} : job[u].pc \in Reviewing /\ reviewLock = u =>
             reviewLock' = u /\ items'[Head(job[u].todo)].status \in {"pending", "claimed"}
    BY DEF RegistryInv, JobsInv, DecisionSound
  <1>4. JobsInv' /\ job' \in [Threads -> Jobs]
    BY <1>1, <1>2, <1>3, JobsStep
  <1>5. RegistryTypeOK'
    BY <1>4 DEF RegistryInv, RegistryTypeOK
  <1>6. StoresInv'
    BY DEF RegistryInv, StoresInv
  <1>7. BehindInv'
    <2>1. \A u \in Threads : job'[u] = IF u = t THEN j ELSE job[u]
      BY DEF RegistryInv, RegistryTypeOK
    <2>2. \A cs : Behind(j, cs, raced)
      BY DEF Behind, Reviewing
    <2> QED
      BY <2>1, <2>2 DEF RegistryInv, BehindInv
  <1> QED
    BY <1>4, <1>5, <1>6, <1>7 DEF RegistryInv


-----------------------------------------------------------------------------
(* Jobs as they start and end                                              *)

\* The job of a thread that has none is a job.
LEMMA NoJobType ==
    NoJob \in Jobs /\ NoJob.pc = "idle" /\ NoJob.found = {} /\ DOMAIN NoJob.scores = {}
        /\ NoJob.case = NoCase /\ NoJob.review = {} /\ NoJob.todo = <<>>
  <1>1. <<>> \in ScoreMaps /\ DOMAIN <<>> = {}
    <2>1. <<>> \in [{} -> ScoreValues] /\ {} \in SUBSET EntityIds
      OBVIOUS
    <2> QED
      BY <2>1 DEF ScoreMaps
  <1>2. NoCase \in CaseRows
    BY DEF NoCase, CaseRows, Ids
  <1> QED
    BY <1>1, <1>2 DEF NoJob, Jobs, Pcs, Methods

\* A job that is over, however it ended.
LEMMA EndedSound ==
    ASSUME NEW st \in {"none", "running", "failed", "completed"}, NEW E, NEW n \in Nat, NEW it, NEW R
    PROVE  LET j == [NoJob EXCEPT !.status = st]
           IN  j \in Jobs /\ j.pc = "idle" /\ WorkSound(j, E, n) /\ ReviewSound(j, it, R)
  <1> DEFINE j == [NoJob EXCEPT !.status = st]
  <1>1. /\ j \in Jobs /\ j.pc = "idle" /\ j.found = {} /\ DOMAIN j.scores = {}
        /\ j.case = NoCase /\ j.review = {}
    BY NoJobType DEF Jobs
  <1>2. IsFiniteSet({})
    BY FS_EmptySet
  <1> HIDE DEF j
  <1>3. WorkSound(j, E, n)
    BY <1>1, <1>2 DEF WorkSound, NoCase, Resolving, Queueing, Reviewing
  <1>4. ReviewSound(j, it, R)
    BY <1>1 DEF ReviewSound, Queueing
  <1> QED
    BY <1>1, <1>3, <1>4 DEF j

\* It has nothing to do and names nothing.
LEMMA NoJobSound ==
    ASSUME NEW E, NEW n \in Nat, NEW it, NEW R
    PROVE  WorkSound(NoJob, E, n) /\ ReviewSound(NoJob, it, R)
  <1>1. IsFiniteSet({})
    BY FS_EmptySet
  <1> QED
    BY <1>1, NoJobType DEF WorkSound, ReviewSound, NoCase, Resolving, Queueing, Reviewing

\* A job starts with its list and nothing found.
LEMMA BusyType ==
    ASSUME NEW pc \in Pcs, NEW todo \in Seq(References \cup UNION Snapshots)
    PROVE  LET j == Busy(pc, todo)
           IN  /\ j \in Jobs /\ j.pc = pc /\ j.todo = todo /\ j.found = {} /\ DOMAIN j.scores = {}
               /\ j.case = NoCase /\ j.review = {}
  BY NoJobType DEF Busy, Jobs

\* An initialization has its whole snapshot to save.
LEMMA StartInitializationStep ==
    ASSUME RegistryInv, NEW t \in Threads, NEW records \in Snapshots, StartInitialization(t, records)
    PROVE  RegistryInv'
  <1> DEFINE todo == SetToSeq(records)
             pc == IF records = {} THEN "aliases" ELSE "entities"
             b == Busy(pc, todo)
             j == [b EXCEPT !.snapshot = records]
             ended == [NoJob EXCEPT !.status = "failed"]
  <1>1. /\ job' = [job EXCEPT ![t] = IF \E r \in records : ~r.valid THEN ended ELSE j]
        /\ UNCHANGED <<entities, aliases, refs, cases, items, reviewLock, clock, raced>>
    BY DEF StartInitialization
  <1>2. clock \in Nat
    BY DEF RegistryInv, RegistryTypeOK
  <1>3. CASE \E r \in records : ~r.valid
    <2>1. job' = [job EXCEPT ![t] = ended]
      BY <1>1, <1>3
    <2>2. /\ ended \in Jobs /\ ended.pc = "idle"
          /\ WorkSound(ended, DOMAIN entities, clock) /\ ReviewSound(ended, items, raced)
      BY <1>2, EndedSound
    <2> HIDE DEF ended
    <2> QED
      BY <1>1, <2>1, <2>2, RestingStep DEF Reviewing
  <1>4. CASE ~\E r \in records : ~r.valid
    <2>1. /\ todo \in Seq(records)
          /\ records # {} => todo # <<>>
          /\ \A x \in records : \E i \in DOMAIN todo : todo[i] = x
      BY SeqOfSet, RegistryAssumption
    <2> HIDE DEF todo
    <2>2. todo \in Seq(UNION Snapshots) /\ todo \in Seq(References \cup UNION Snapshots)
      <3>1. records \subseteq UNION Snapshots /\ records \subseteq References \cup UNION Snapshots
        OBVIOUS
      <3>2. todo \in Seq(records)
        BY <2>1
      <3> HIDE DEF pc
      <3> QED
        BY ONLY <3>1, <3>2, SeqMonotonic
    <2>3. pc \in {"entities", "aliases"} /\ pc \in Pcs
      BY DEF Pcs
    <2>4. /\ b \in Jobs /\ b.pc = pc /\ b.todo = todo /\ b.found = {} /\ DOMAIN b.scores = {}
          /\ b.case = NoCase /\ b.review = {}
      BY <2>2, <2>3, BusyType
    <2> HIDE DEF b
    <2>5. /\ j \in Jobs /\ j.pc = pc /\ j.todo = todo /\ j.found = {} /\ DOMAIN j.scores = {}
          /\ j.case = NoCase /\ j.review = {} /\ j.snapshot = records
      BY <2>4 DEF Jobs
    <2>6. job' = [job EXCEPT ![t] = j]
      BY <1>1, <1>4
    <2>7. IsFiniteSet({})
      BY FS_EmptySet
    <2> HIDE DEF j
    <2>8. WorkSound(j, DOMAIN entities, clock)
      <3>1. {j.case.selected} \cup j.case.candidates \subseteq DOMAIN entities \cup {None} /\ j.case.stamp <= clock
        BY <1>2, <2>5 DEF NoCase
      <3>2. \A r \in j.snapshot : r.entity \in DOMAIN entities \/
                (j.pc = "entities" /\ \E i \in DOMAIN j.todo : j.todo[i].entity = r.entity)
        BY <2>1, <2>5
      <3>3. j.pc = "entities" => j.todo \in Seq(UNION Snapshots) /\ j.todo # <<>>
        BY <2>1, <2>2, <2>5
      <3>4. j.pc \notin Resolving \cup Queueing \cup Reviewing
        BY <2>3, <2>5 DEF Resolving, Queueing, Reviewing
      <3> QED
        BY <2>5, <2>7, <3>1, <3>2, <3>3, <3>4 DEF WorkSound
    <2>9. ReviewSound(j, items, raced)
      BY <2>3, <2>5 DEF ReviewSound, Queueing
    <2>10. j.pc \notin Reviewing \cup {"save"}
      BY <2>3, <2>5 DEF Reviewing
    <2> QED
      BY <1>1, <2>5, <2>6, <2>8, <2>9, <2>10, RestingStep
  <1> QED
    BY <1>3, <1>4

\* A batch has its whole list to resolve.
LEMMA StartBatchStep ==
    ASSUME RegistryInv, NEW t \in Threads, NEW rs \in Batches, NEW public \in BOOLEAN, StartBatch(t, rs, public)
    PROVE  RegistryInv'
  <1> DEFINE b == Busy("validate", rs)
             j == [b EXCEPT !.status = "running", !.public = public]
  <1>1. /\ job' = [job EXCEPT ![t] = j] /\ rs # <<>>
        /\ UNCHANGED <<entities, aliases, refs, cases, items, reviewLock, clock, raced>>
    BY DEF StartBatch
  <1>2. rs \in Seq(References) /\ rs \in Seq(References \cup UNION Snapshots)
    BY RegistryAssumption
  <1>3. /\ b \in Jobs /\ b.pc = "validate" /\ b.todo = rs /\ b.found = {} /\ DOMAIN b.scores = {}
        /\ b.case = NoCase /\ b.review = {}
    BY <1>2, BusyType DEF Pcs, Resolving
  <1> HIDE DEF b
  <1>4. /\ j \in Jobs /\ j.pc = "validate" /\ j.todo = rs /\ j.found = {} /\ DOMAIN j.scores = {}
        /\ j.case = NoCase /\ j.review = {}
    BY <1>3 DEF Jobs
  <1>5. clock \in Nat
    BY DEF RegistryInv, RegistryTypeOK
  <1>6. IsFiniteSet({})
    BY FS_EmptySet
  <1> HIDE DEF j
  <1>7. WorkSound(j, DOMAIN entities, clock) /\ ReviewSound(j, items, raced)
    BY <1>1, <1>2, <1>4, <1>5, <1>6 DEF WorkSound, ReviewSound, NoCase, Queueing
  <1> QED
    BY <1>1, <1>4, <1>7, RestingStep DEF Reviewing


-----------------------------------------------------------------------------
(* The steps of a batch that change nothing but the job                    *)

\* A job of the invariant.
LEMMA JobFacts ==
    ASSUME RegistryInv, NEW t \in Threads
    PROVE  /\ job[t] \in Jobs /\ clock \in Nat
           /\ WorkSound(job[t], DOMAIN entities, clock) /\ ReviewSound(job[t], items, raced)
           /\ DecisionSound(job[t], t, items, reviewLock, DOMAIN entities, clock)
           /\ Behind(job[t], cases, raced)
  BY DEF RegistryInv, RegistryTypeOK, JobsInv, BehindInv

\* A sequence of references goes on.
LEMMA TailType ==
    ASSUME NEW S, NEW s \in Seq(S), s # <<>>
    PROVE  /\ Head(s) \in S /\ Tail(s) \in Seq(S) /\ Len(s) \in Nat
           /\ Len(s) # 1 => Tail(s) # <<>>
           /\ \A x \in S : (\E i \in DOMAIN s : s[i] = x) => x = Head(s) \/ \E i \in DOMAIN Tail(s) : Tail(s)[i] = x
  <1>1. Len(s) \in Nat \ {0} /\ DOMAIN s = 1..Len(s) /\ Head(s) = s[1]
    OBVIOUS
  <1>2. Tail(s) \in Seq(S) /\ Len(Tail(s)) = Len(s) - 1 /\ \A i \in 1..(Len(s) - 1) : Tail(s)[i] = s[i + 1]
    BY <1>1
  <1>3. ASSUME NEW i \in 1..Len(s), i # 1 PROVE Tail(s)[i - 1] = s[i] /\ i - 1 \in DOMAIN Tail(s)
    <2>1. i - 1 \in 1..(Len(s) - 1) /\ (i - 1) + 1 = i
      BY <1>1, <1>3
    <2>2. DOMAIN Tail(s) = 1..(Len(s) - 1)
      BY <1>1, <1>2
    <2> QED
      BY <1>2, <2>1, <2>2
  <1>4. Head(s) \in S
    BY <1>1
  <1>5. Len(s) # 1 => Tail(s) # <<>>
    <2>1. Len(<<>>) = 0
      OBVIOUS
    <2>2. Len(s) # 1 => Len(Tail(s)) # 0
      BY <1>1, <1>2
    <2> QED
      BY ONLY <2>1, <2>2
  <1> QED
    BY <1>1, <1>2, <1>3, <1>4, <1>5

\* A batch goes on to its next reference, or to its report.
LEMMA AdvanceType ==
    ASSUME NEW j \in Jobs, j.todo \in Seq(References), j.todo # <<>>
    PROVE  LET k == Advance(j)
           IN  /\ k \in Jobs /\ k.pc \in {"report", "validate"} /\ k.todo \in Seq(References)
               /\ k.pc = "validate" => k.todo # <<>>
               /\ k.found = {} /\ DOMAIN k.scores = {} /\ k.case = NoCase /\ k.review = j.review
               /\ k.errors = j.errors /\ k.results = j.results
  <1> DEFINE pc == IF Len(j.todo) = 1 THEN "report" ELSE "validate"
             todo == Tail(j.todo)
  <1>1. /\ pc \in {"report", "validate"} /\ pc \in Pcs
        /\ pc = "validate" => todo # <<>>
    BY TailType DEF Pcs, Resolving
  <1>2. todo \in Seq(References) /\ todo \in Seq(References \cup UNION Snapshots)
    <2>1. todo \in Seq(References)
      BY TailType
    <2>2. References \subseteq References \cup UNION Snapshots
      OBVIOUS
    <2> HIDE DEF todo
    <2> QED
      BY <2>1, <2>2, SeqMonotonic
  <1>3. Advance(j) = [NoJob EXCEPT !.pc = pc, !.todo = todo, !.errors = j.errors, !.review = j.review,
                                   !.results = j.results, !.public = j.public, !.status = j.status]
    BY DEF Advance
  <1> HIDE DEF pc, todo
  <1> DEFINE k == [NoJob EXCEPT !.pc = pc, !.todo = todo, !.errors = j.errors, !.review = j.review,
                                !.results = j.results, !.public = j.public, !.status = j.status]
  <1>4. NoJob \in Jobs /\ NoJob.found = {} /\ DOMAIN NoJob.scores = {} /\ NoJob.case = NoCase
    BY NoJobType
  <1>5. /\ j.errors \in SUBSET References /\ j.review \in SUBSET References /\ j.results \in Seq(References \X Ids)
        /\ j.public \in BOOLEAN /\ j.status \in {"none", "running", "failed", "completed"}
    BY DEF Jobs
  <1>6. /\ k.pc = pc /\ k.todo = todo /\ k.found = {} /\ DOMAIN k.scores = {} /\ k.case = NoCase
        /\ k.review = j.review /\ k.errors = j.errors /\ k.results = j.results
    BY <1>4 DEF Jobs
  <1>7. k \in Jobs
    BY <1>1, <1>2, <1>4, <1>5 DEF Jobs
  <1> HIDE DEF k
  <1>8. Advance(j) = k
    BY <1>3 DEF k
  <1> QED
    BY <1>1, <1>2, <1>6, <1>7, <1>8

\* A job that has built no case and goes on with the next reference.
LEMMA NextWork ==
    ASSUME NEW k \in Jobs, NEW E, NEW n \in Nat,
           k.pc \in {"report", "validate"}, k.todo \in Seq(References), k.pc = "validate" => k.todo # <<>>,
           k.found = {}, DOMAIN k.scores = {}, k.case = NoCase, IsFiniteSet(k.review),
           k.errors # {} \/ k.results # <<>>
    PROVE  WorkSound(k, E, n)
  BY DEF WorkSound, NoCase, Resolving, Queueing, Reviewing

\* A job that is not queueing owes the review queue nothing.
LEMMA NextReview ==
    ASSUME NEW k, NEW it, NEW R, k.pc \notin Queueing \cup {"done"}
    PROVE  ReviewSound(k, it, R)
  BY DEF ReviewSound, Queueing

\* A reference that fails validation is an error and goes to review.
LEMMA ValidateStep ==
    ASSUME RegistryInv, NEW t \in Threads, Validate(t)
    PROVE  RegistryInv'
  <1> DEFINE j == job[t]
             r == Head(j.todo)
             a == Advance(j)
             k == [a EXCEPT !.errors = @ \cup {r}, !.review = @ \cup {r}]
             c == [j EXCEPT !.pc = "collect"]
  <1>1. /\ j.pc = "validate"
        /\ UNCHANGED <<entities, aliases, refs, cases, items, reviewLock, clock, raced>>
    BY DEF Validate, At
  <1>0. job' = [job EXCEPT ![t] = IF refs[r].method \in {"absent", "unresolved"} THEN c ELSE k]
    BY DEF Validate, Current
  <1>2. /\ j \in Jobs /\ clock \in Nat
        /\ WorkSound(j, DOMAIN entities, clock) /\ ReviewSound(j, items, raced)
    BY JobFacts
  <1> HIDE DEF j
  <1>3. j.todo \in Seq(References) /\ j.todo # <<>> /\ IsFiniteSet(j.review)
    BY <1>1, <1>2 DEF WorkSound, Resolving
  <1>4. CASE refs[r].method \in {"absent", "unresolved"}
    <2>1. /\ c \in Jobs /\ c.pc = "collect" /\ c.todo = j.todo /\ c.found = j.found /\ c.scores = j.scores
          /\ c.case = j.case /\ c.review = j.review
      BY <1>2 DEF Jobs, Pcs, Resolving
    <2> HIDE DEF c
    <2>2. WorkSound(c, DOMAIN entities, clock)
      BY <1>1, <1>2, <2>1 DEF WorkSound, Resolving, Queueing, Reviewing
    <2>3. ReviewSound(c, items, raced)
      BY <2>1 DEF ReviewSound, Queueing
    <2>4. job' = [job EXCEPT ![t] = c]
      BY <1>0, <1>4
    <2> QED
      BY <1>1, <2>1, <2>2, <2>3, <2>4, RestingStep DEF Reviewing
  <1>5. CASE refs[r].method \notin {"absent", "unresolved"}
    <2>1. /\ a \in Jobs /\ a.pc \in {"report", "validate"} /\ a.todo \in Seq(References)
          /\ a.pc = "validate" => a.todo # <<>>
          /\ a.found = {} /\ DOMAIN a.scores = {} /\ a.case = NoCase /\ a.review = j.review
      BY <1>2, <1>3, AdvanceType
    <2>2. r \in References
      BY <1>3, TailType
    <2> HIDE DEF a, r
    <2>3. /\ k \in Jobs /\ k.pc = a.pc /\ k.todo = a.todo
          /\ k.found = {} /\ DOMAIN k.scores = {} /\ k.case = NoCase /\ k.review = j.review \cup {r}
          /\ k.errors # {}
      BY <2>1, <2>2 DEF Jobs
    <2>4. IsFiniteSet(j.review \cup {r})
      BY <1>3, FS_AddElement
    <2>5. job' = [job EXCEPT ![t] = k]
      BY <1>0, <1>5
    <2> HIDE DEF k
    <2>6. WorkSound(k, DOMAIN entities, clock) /\ ReviewSound(k, items, raced)
      <3>1. /\ k \in Jobs /\ k.pc \in {"report", "validate"} /\ k.todo \in Seq(References)
            /\ k.pc = "validate" => k.todo # <<>>
            /\ k.found = {} /\ DOMAIN k.scores = {} /\ k.case = NoCase /\ IsFiniteSet(k.review)
            /\ k.errors # {} \/ k.results # <<>>
        BY <2>1, <2>3, <2>4
      <3>2. clock \in Nat
        BY <1>2
      <3> QED
        BY ONLY <3>1, <3>2, NextWork, NextReview DEF Queueing
    <2> QED
      BY <1>1, <2>1, <2>3, <2>5, <2>6, RestingStep DEF Reviewing
  <1> QED
    BY <1>4, <1>5

\* What a resolution finds and scores is there.
LEMMA CollectStep ==
    ASSUME RegistryInv, NEW t \in Threads, NEW fails \in BOOLEAN, Collect(t, fails)
    PROVE  RegistryInv'
  <1> DEFINE j == job[t]
             r == Head(j.todo)
             hits == DeterministicHits(MentionOf[r])
             scores == Scores(MentionOf[r], fails)
             k == [j EXCEPT !.pc = "decide", !.found = hits, !.scores = scores, !.failed = fails]
  <1>1. /\ j \in Jobs /\ clock \in Nat
        /\ WorkSound(j, DOMAIN entities, clock) /\ ReviewSound(j, items, raced)
    BY JobFacts
  <1>2. /\ j.pc = "collect" /\ job' = [job EXCEPT ![t] = k]
        /\ UNCHANGED <<entities, aliases, refs, cases, items, reviewLock, clock, raced>>
    BY DEF Collect, At, Current
  <1>3. j.todo \in Seq(References) /\ j.todo # <<>>
    BY <1>1, <1>2 DEF WorkSound, Resolving
  <1>4. r \in References
    BY <1>3, TailType
  <1>5. RegistryTypeOK /\ DOMAIN entities \subseteq EntityIds
    BY DEF RegistryInv, RegistryTypeOK
  <1> HIDE DEF j, r
  <1>6. hits \subseteq DOMAIN entities /\ scores \in ScoreMaps /\ DOMAIN scores \subseteq DOMAIN entities
    BY <1>4, <1>5, HitsKnown, ScoresKnown
  <1> HIDE DEF hits, scores
  <1>7. /\ k \in Jobs /\ k.pc = "decide" /\ k.todo = j.todo /\ k.found = hits /\ k.scores = scores
        /\ k.case = j.case /\ k.review = j.review
    BY <1>1, <1>5, <1>6 DEF Jobs, Pcs, Resolving
  <1> HIDE DEF k
  <1>8. WorkSound(k, DOMAIN entities, clock)
    BY <1>1, <1>2, <1>6, <1>7 DEF WorkSound, Resolving, Queueing, Reviewing
  <1>9. ReviewSound(k, items, raced)
    BY <1>7 DEF ReviewSound, Queueing
  <1> QED
    BY <1>2, <1>7, <1>8, <1>9, RestingStep DEF Reviewing


\* The groups of a report are the references it reports, split up.
LEMMA ClustersSplit ==
    ASSUME NEW rs \in SUBSET References
    PROVE  Clusters(rs) \in SUBSET SUBSET References /\ UNION Clusters(rs) = rs
  BY DEF Clusters

\* The report of a batch hands over what it leaves for review.
LEMMA ReportStep ==
    ASSUME RegistryInv, NEW t \in Threads, NEW fails \in BOOLEAN, Report(t, fails)
    PROVE  RegistryInv'
  <1> DEFINE j == job[t]
             gs == Clusters(j.review)
             todo == SetToSeq(j.review)
             ended(st) == [NoJob EXCEPT !.status = st]
             a == [j EXCEPT !.pc = "answer", !.groups = gs]
             none == <<>>
             q == [j EXCEPT !.pc = "enqueue", !.groups = gs, !.todo = todo, !.results = none]
  <1>1. /\ j \in Jobs /\ clock \in Nat
        /\ WorkSound(j, DOMAIN entities, clock) /\ ReviewSound(j, items, raced)
    BY JobFacts
  <1>2. /\ j.pc = "report"
        /\ UNCHANGED <<entities, aliases, refs, cases, items, reviewLock, clock, raced>>
    BY DEF Report, At
  <1>3. \/ \E st \in {"running", "failed", "completed"} : job' = [job EXCEPT ![t] = ended(st)]
        \/ job' = [job EXCEPT ![t] = a] /\ j.errors = {}
        \/ job' = [job EXCEPT ![t] = q] /\ j.review # {}
    BY DEF Report
  <1> HIDE DEF j
  <1>4. j.review \in SUBSET References /\ IsFiniteSet(j.review)
    BY <1>1 DEF Jobs, WorkSound
  <1>5. gs \in SUBSET SUBSET References /\ UNION gs = j.review
    BY <1>4, ClustersSplit
  <1>6. ASSUME NEW st \in {"running", "failed", "completed"}, job' = [job EXCEPT ![t] = ended(st)]
        PROVE  RegistryInv'
    <2>1. /\ ended(st) \in Jobs /\ ended(st).pc = "idle"
          /\ WorkSound(ended(st), DOMAIN entities, clock) /\ ReviewSound(ended(st), items, raced)
      BY <1>1, EndedSound
    <2> HIDE DEF ended
    <2> QED
      BY <1>2, <1>6, <2>1, RestingStep DEF Reviewing
  <1>7. CASE job' = [job EXCEPT ![t] = a] /\ j.errors = {}
    <2> HIDE DEF gs
    <2>1. /\ a \in Jobs /\ a.pc = "answer" /\ a.found = j.found /\ a.scores = j.scores
          /\ a.case = j.case /\ a.review = j.review /\ a.results = j.results
      BY <1>1, <1>5 DEF Jobs, Pcs
    <2> HIDE DEF a
    <2>2. WorkSound(a, DOMAIN entities, clock)
      BY <1>1, <1>2, <1>7, <2>1 DEF WorkSound, Resolving, Queueing, Reviewing
    <2>3. ReviewSound(a, items, raced)
      BY <2>1, NextReview DEF Queueing
    <2> QED
      BY <1>2, <1>7, <2>1, <2>2, <2>3, RestingStep DEF Reviewing
  <1>8. CASE job' = [job EXCEPT ![t] = q] /\ j.review # {}
    <2>1. /\ todo \in Seq(j.review) /\ todo # <<>>
          /\ \A x \in j.review : \E i \in DOMAIN todo : todo[i] = x
      BY <1>4, <1>8, SeqOfSet
    <2> HIDE DEF gs, todo
    <2>2. todo \in Seq(References) /\ todo \in Seq(References \cup UNION Snapshots)
      <3>1. j.review \subseteq References /\ j.review \subseteq References \cup UNION Snapshots
        BY <1>4
      <3> QED
        BY <2>1, <3>1, SeqMonotonic
    <2>3. /\ q \in Jobs /\ q.pc = "enqueue" /\ q.found = j.found /\ q.scores = j.scores
          /\ q.case = j.case /\ q.review = j.review /\ q.todo = todo /\ q.groups = gs
      <3>1. none \in Seq(References \X Ids)
        OBVIOUS
      <3> HIDE DEF none
      <3>2. "enqueue" \in Pcs
        BY DEF Pcs, Queueing
      <3> QED
        BY <1>1, <1>5, <2>2, <3>1, <3>2 DEF Jobs
    <2> HIDE DEF q
    <2>4. WorkSound(q, DOMAIN entities, clock)
      BY <1>1, <1>2, <2>1, <2>2, <2>3 DEF WorkSound, Resolving, Queueing, Reviewing
    <2>5. ReviewSound(q, items, raced)
      BY <1>5, <2>1, <2>3 DEF ReviewSound, Queueing
    <2> QED
      BY <1>2, <1>8, <2>3, <2>4, <2>5, RestingStep DEF Reviewing
  <1> QED
    BY <1>3, <1>6, <1>7, <1>8

\* The answers are read one at a time from the stored rows.
LEMMA AnswerStep ==
    ASSUME RegistryInv, NEW t \in Threads, Answer(t)
    PROVE  RegistryInv'
  <1> DEFINE j == job[t]
             ended(st) == [NoJob EXCEPT !.status = st]
             a == [j EXCEPT !.results = Tail(@)]
  <1>1. /\ j \in Jobs /\ clock \in Nat
        /\ WorkSound(j, DOMAIN entities, clock) /\ ReviewSound(j, items, raced)
    BY JobFacts
  <1>2. /\ j.pc = "answer"
        /\ UNCHANGED <<entities, aliases, refs, cases, items, reviewLock, clock, raced>>
    BY DEF Answer, At
  <1>3. \/ \E st \in {"failed", "completed"} : job' = [job EXCEPT ![t] = ended(st)]
        \/ job' = [job EXCEPT ![t] = a] /\ Len(j.results) # 1
    BY DEF Answer
  <1> HIDE DEF j
  <1>4. ASSUME NEW st \in {"failed", "completed"}, job' = [job EXCEPT ![t] = ended(st)]
        PROVE  RegistryInv'
    <2>1. /\ ended(st) \in Jobs /\ ended(st).pc = "idle"
          /\ WorkSound(ended(st), DOMAIN entities, clock) /\ ReviewSound(ended(st), items, raced)
      BY <1>1, EndedSound
    <2> HIDE DEF ended
    <2> QED
      BY <1>2, <1>4, <2>1, RestingStep DEF Reviewing
  <1>5. CASE job' = [job EXCEPT ![t] = a] /\ Len(j.results) # 1
    <2> DEFINE left == Tail(j.results)
    <2>1. left \in Seq(References \X Ids) /\ left # <<>>
      <3>1. j.results \in Seq(References \X Ids) /\ j.results # <<>>
        BY <1>1, <1>2 DEF Jobs, WorkSound
      <3> HIDE DEF left
      <3> QED
        BY <1>5, <3>1, TailType DEF left
    <2> HIDE DEF left
    <2>2. a = [j EXCEPT !.results = left]
      BY DEF left
    <2>3. /\ a \in Jobs /\ a.pc = "answer" /\ a.found = j.found /\ a.scores = j.scores
          /\ a.case = j.case /\ a.review = j.review /\ a.results = left
      BY <1>1, <1>2, <2>1, <2>2 DEF Jobs
    <2> HIDE DEF a
    <2>4. WorkSound(a, DOMAIN entities, clock)
      BY <1>1, <1>2, <2>1, <2>3 DEF WorkSound, Resolving, Queueing, Reviewing
    <2>5. ReviewSound(a, items, raced)
      BY <2>3, NextReview DEF Queueing
    <2> QED
      BY <1>2, <1>5, <2>3, <2>4, <2>5, RestingStep DEF Reviewing
  <1> QED
    BY <1>3, <1>4, <1>5


-----------------------------------------------------------------------------
(* The review queue                                                        *)

\* The reference at hand is queued and the job goes on.
LEMMA QueuedSound ==
    ASSUME NEW j \in Jobs, NEW E, NEW n \in Nat, NEW it, NEW nt, NEW R, NEW S, j.pc \in Queueing,
           WorkSound(j, E, n), ReviewSound(j, it, R),
           \A r \in References : it[r] # NoItem => nt[r] # NoItem,
           nt[Head(j.todo)] # NoItem
    PROVE  LET k == Queued(j)
           IN  /\ k \in Jobs /\ k.pc \in {"done", "enqueue"}
               /\ WorkSound(k, E, n) /\ ReviewSound(k, nt, S)
  <1> DEFINE todo == Tail(j.todo)
             pc == IF Len(j.todo) = 1 THEN "done" ELSE "enqueue"
             st == IF Len(j.todo) = 1 THEN "completed" ELSE j.status
             k == [j EXCEPT !.todo = todo, !.pc = pc, !.case = NoCase, !.status = st]
  <1>1. j.todo \in Seq(References) /\ j.todo # <<>>
    BY DEF WorkSound
  <1>2. /\ todo \in Seq(References) /\ (Len(j.todo) # 1 => todo # <<>>)
        /\ \A x \in References :
              (\E i \in DOMAIN j.todo : j.todo[i] = x) => x = Head(j.todo) \/ \E i \in DOMAIN todo : todo[i] = x
    BY <1>1, TailType
  <1>3. todo \in Seq(References \cup UNION Snapshots)
    <2>1. References \subseteq References \cup UNION Snapshots
      OBVIOUS
    <2> HIDE DEF todo
    <2> QED
      BY <1>2, <2>1, SeqMonotonic
  <1>4. Len(j.todo) = 1 => todo = <<>>
    <2>1. todo \in Seq(References) /\ Len(todo) = Len(j.todo) - 1
      BY <1>1
    <2> HIDE DEF todo
    <2> QED
      BY <2>1, EmptySeq
  <1>5. Queued(j) = k
    BY DEF Queued
  <1>6. /\ pc \in {"done", "enqueue"} /\ pc \in Pcs /\ st \in {"none", "running", "failed", "completed"}
        /\ (pc = "done" => st = "completed" /\ todo = <<>>) /\ (pc = "enqueue" => todo # <<>>)
    BY <1>2, <1>4 DEF Pcs, Queueing, Jobs
  <1> HIDE DEF todo, pc, st
  <1>7. NoCase \in CaseRows
    BY DEF NoCase, CaseRows, Ids
  <1>8. /\ k \in Jobs /\ k.pc = pc /\ k.todo = todo /\ k.case = NoCase /\ k.status = st
        /\ k.found = j.found /\ k.scores = j.scores /\ k.review = j.review /\ k.groups = j.groups
    BY <1>3, <1>6, <1>7 DEF Jobs
  <1> HIDE DEF k
  <1>9. WorkSound(k, E, n)
    BY <1>2, <1>6, <1>8 DEF WorkSound, NoCase, Resolving, Queueing, Reviewing
  <1>10. ReviewSound(k, nt, S)
    <2>1. UNION k.groups = k.review
      BY <1>8 DEF ReviewSound
    <2>2. ASSUME NEW r \in k.review
          PROVE  nt[r] # NoItem \/ (k.pc \in Queueing /\ \E i \in DOMAIN k.todo : k.todo[i] = r)
      <3>1. r \in References /\ (it[r] # NoItem \/ \E i \in DOMAIN j.todo : j.todo[i] = r)
        BY <1>8, <2>2 DEF ReviewSound, Jobs
      <3>2. nt[r] # NoItem \/ \E i \in DOMAIN todo : todo[i] = r
        BY <1>2, <3>1
      <3>3. pc = "done" => ~ \E i \in DOMAIN todo : todo[i] = r
        <4>1. DOMAIN <<>> = {}
          OBVIOUS
        <4> QED
          BY <1>6, <4>1
      <3> QED
        BY <1>6, <1>8, <3>2, <3>3 DEF Queueing
    <2> QED
      BY <1>6, <1>8, <2>1, <2>2 DEF ReviewSound
  <1> QED
    BY <1>5, <1>6, <1>8, <1>9, <1>10

\* A job looks up the item of its next reference.
LEMMA EnqueueGetStep ==
    ASSUME RegistryInv, NEW t \in Threads, EnqueueGet(t)
    PROVE  RegistryInv'
  <1> DEFINE j == job[t]
             ended == [NoJob EXCEPT !.status = "failed"]
             k == [j EXCEPT !.pc = "find"]
  <1>1. /\ j \in Jobs /\ clock \in Nat
        /\ WorkSound(j, DOMAIN entities, clock) /\ ReviewSound(j, items, raced)
    BY JobFacts
  <1>2. /\ j.pc = "enqueue"
        /\ UNCHANGED <<entities, aliases, refs, cases, items, reviewLock, clock, raced>>
    BY DEF EnqueueGet, At
  <1>3. job' = [job EXCEPT ![t] = ended] \/ job' = [job EXCEPT ![t] = k]
    BY DEF EnqueueGet
  <1> HIDE DEF j
  <1>4. CASE job' = [job EXCEPT ![t] = ended]
    <2>1. /\ ended \in Jobs /\ ended.pc = "idle"
          /\ WorkSound(ended, DOMAIN entities, clock) /\ ReviewSound(ended, items, raced)
      BY <1>1, EndedSound
    <2> HIDE DEF ended
    <2> QED
      BY <1>2, <1>4, <2>1, RestingStep DEF Reviewing
  <1>5. CASE job' = [job EXCEPT ![t] = k]
    <2>1. /\ k \in Jobs /\ k.pc = "find" /\ k.todo = j.todo /\ k.found = j.found /\ k.scores = j.scores
          /\ k.case = j.case /\ k.review = j.review /\ k.groups = j.groups
      BY <1>1 DEF Jobs, Pcs, Queueing
    <2> HIDE DEF k
    <2>2. WorkSound(k, DOMAIN entities, clock)
      BY <1>1, <1>2, <2>1 DEF WorkSound, Resolving, Queueing, Reviewing
    <2>3. ReviewSound(k, items, raced)
      BY <1>1, <1>2, <2>1 DEF ReviewSound, Queueing
    <2> QED
      BY <1>2, <1>5, <2>1, <2>2, <2>3, RestingStep DEF Reviewing
  <1> QED
    BY <1>3, <1>4, <1>5

\* A job that finds no item goes on to the case.
LEMMA EnqueueFindStep ==
    ASSUME RegistryInv, NEW t \in Threads, EnqueueFind(t)
    PROVE  RegistryInv'
  <1> DEFINE j == job[t]
             r == Head(j.todo)
             q == Queued(j)
             k == [j EXCEPT !.pc = "case"]
  <1>1. /\ j \in Jobs /\ clock \in Nat
        /\ WorkSound(j, DOMAIN entities, clock) /\ ReviewSound(j, items, raced)
    BY JobFacts
  <1>2. /\ j.pc = "find"
        /\ UNCHANGED <<entities, aliases, refs, cases, items, reviewLock, clock, raced>>
    BY DEF EnqueueFind, At
  <1>3. \/ items[r] # NoItem /\ job' = [job EXCEPT ![t] = q]
        \/ items[r] = NoItem /\ job' = [job EXCEPT ![t] = k]
    BY DEF EnqueueFind, Current
  <1> HIDE DEF j
  <1>4. CASE items[r] # NoItem /\ job' = [job EXCEPT ![t] = q]
    <2>1. /\ q \in Jobs /\ q.pc \in {"done", "enqueue"}
          /\ WorkSound(q, DOMAIN entities, clock) /\ ReviewSound(q, items, raced)
      <3>1. j.pc \in Queueing
        BY <1>2 DEF Queueing
      <3>2. items[Head(j.todo)] # NoItem
        BY <1>4
      <3>3. \A x \in References : items[x] # NoItem => items[x] # NoItem
        OBVIOUS
      <3> HIDE DEF q
      <3> QED
        BY <1>1, <3>1, <3>2, <3>3, QueuedSound DEF q
    <2> HIDE DEF q
    <2> QED
      BY <1>2, <1>4, <2>1, RestingStep DEF Reviewing
  <1>5. CASE items[r] = NoItem /\ job' = [job EXCEPT ![t] = k]
    <2>1. r = Head(j.todo)
      OBVIOUS
    <2> HIDE DEF r
    <2>2. /\ k \in Jobs /\ k.pc = "case" /\ k.todo = j.todo /\ k.found = j.found /\ k.scores = j.scores
          /\ k.case = j.case /\ k.review = j.review /\ k.groups = j.groups
      BY <1>1 DEF Jobs, Pcs, Queueing
    <2> HIDE DEF k
    <2>3. WorkSound(k, DOMAIN entities, clock)
      BY <1>1, <1>2, <2>2 DEF WorkSound, Resolving, Queueing, Reviewing
    <2>4. ReviewSound(k, items, raced)
      BY <1>1, <1>2, <1>5, <2>1, <2>2 DEF ReviewSound, Queueing
    <2> QED
      BY <1>2, <1>5, <2>2, <2>3, <2>4, RestingStep DEF Reviewing
  <1> QED
    BY <1>3, <1>4, <1>5

\* The latest case goes into the item; a job without one is over.
LEMMA EnqueueCaseStep ==
    ASSUME RegistryInv, NEW t \in Threads, EnqueueCase(t)
    PROVE  RegistryInv'
  <1> DEFINE j == job[t]
             r == Head(j.todo)
             c == cases[r]
             ended == [NoJob EXCEPT !.status = "failed"]
             k == [j EXCEPT !.pc = "queue", !.case = c]
  <1>1. /\ j \in Jobs /\ clock \in Nat
        /\ WorkSound(j, DOMAIN entities, clock) /\ ReviewSound(j, items, raced)
    BY JobFacts
  <1>2. /\ j.pc = "case"
        /\ UNCHANGED <<entities, aliases, refs, cases, items, reviewLock, clock, raced>>
    BY DEF EnqueueCase, At
  <1>3. job' = [job EXCEPT ![t] = ended] \/ job' = [job EXCEPT ![t] = k]
    BY DEF EnqueueCase, Current
  <1> HIDE DEF j
  <1>4. CASE job' = [job EXCEPT ![t] = ended]
    <2>1. /\ ended \in Jobs /\ ended.pc = "idle"
          /\ WorkSound(ended, DOMAIN entities, clock) /\ ReviewSound(ended, items, raced)
      BY <1>1, EndedSound
    <2> HIDE DEF ended
    <2> QED
      BY <1>2, <1>4, <2>1, RestingStep DEF Reviewing
  <1>5. CASE job' = [job EXCEPT ![t] = k]
    <2>1. r \in References
      BY <1>1, <1>2, TailType DEF WorkSound, Queueing
    <2>2. /\ c \in CaseRows /\ c.stamp <= clock
          /\ {c.selected} \cup c.candidates \subseteq DOMAIN entities \cup {None}
      BY <2>1 DEF RegistryInv, RegistryTypeOK, StoresInv, StoreSound
    <2> HIDE DEF c, r
    <2>3. /\ k \in Jobs /\ k.pc = "queue" /\ k.todo = j.todo /\ k.found = j.found /\ k.scores = j.scores
          /\ k.case = c /\ k.review = j.review /\ k.groups = j.groups
      BY <1>1, <2>2 DEF Jobs, Pcs, Queueing
    <2> HIDE DEF k
    <2>4. WorkSound(k, DOMAIN entities, clock)
      BY <1>1, <1>2, <2>2, <2>3 DEF WorkSound, Resolving, Queueing, Reviewing
    <2>5. ReviewSound(k, items, raced)
      BY <1>1, <1>2, <2>3 DEF ReviewSound, Queueing
    <2> QED
      BY <1>2, <1>5, <2>3, <2>4, <2>5, RestingStep DEF Reviewing
  <1> QED
    BY <1>3, <1>4, <1>5


-----------------------------------------------------------------------------
(* Initialization                                                          *)

\* A job that has no case of its own leaves the race as it is.
LEMMA BehindStays ==
    ASSUME RegistryInv, NEW t \in Threads, NEW j \in Jobs, job' = [job EXCEPT ![t] = j],
           j.pc \notin Reviewing \cup {"save"}, cases' = cases, raced \subseteq raced'
    PROVE  BehindInv'
  <1>1. \A u \in Threads : job'[u] = IF u = t THEN j ELSE job[u]
    BY DEF RegistryInv, RegistryTypeOK
  <1>2. \A cs : Behind(j, cs, raced')
    BY DEF Behind, Reviewing
  <1>3. \A k, cs : Behind(k, cs, raced) => Behind(k, cs, raced')
    BY DEF Behind
  <1> QED
    BY <1>1, <1>2, <1>3 DEF RegistryInv, BehindInv

\* The others keep their items and their lock when neither changes.
LEMMA NothingTaken ==
    ASSUME RegistryInv, NEW t \in Threads, UNCHANGED <<items, reviewLock>>
    PROVE  /\ \A r \in References : items[r] # NoItem => items'[r] # NoItem
           /\ \A u \in Threads \ {t} :
                 /\ job[u].pc \in {"case", "queue"} =>
                       items'[Head(job[u].todo)] = items[Head(job[u].todo)] \/ Head(job[u].todo) \in raced'
                 /\ job[u].pc \in Reviewing /\ reviewLock = u =>
                       reviewLock' = u /\ items'[Head(job[u].todo)].status \in {"pending", "claimed"}
  BY DEF RegistryInv, JobsInv, DecisionSound

\* One entity of the snapshot is saved.
LEMMA SaveEntityStep ==
    ASSUME RegistryInv, NEW t \in Threads, SaveEntity(t)
    PROVE  RegistryInv'
  <1> DEFINE j == job[t]
             r == Head(j.todo)
             todo == Tail(j.todo)
             pc == IF Len(j.todo) = 1 THEN "aliases" ELSE "entities"
             k == [j EXCEPT !.todo = todo, !.pc = pc]
             F == DOMAIN entities \cup {r.entity}
  <1>1. /\ j \in Jobs /\ clock \in Nat
        /\ WorkSound(j, DOMAIN entities, clock) /\ ReviewSound(j, items, raced)
    BY JobFacts
  <1>2. /\ j.pc = "entities" /\ DOMAIN entities' = F
        /\ UNCHANGED <<aliases, refs, cases, items, reviewLock, clock, raced>>
    BY DEF SaveEntity, At, Current
  <1>3. job' = [job EXCEPT ![t] = k]
    <2>1. job' = [job EXCEPT ![t] = [job[t] EXCEPT !.todo = Tail(@), !.pc = IF Len(job[t].todo) = 1 THEN "aliases" ELSE @]]
      BY DEF SaveEntity
    <2>2. job[t].pc = "entities"
      BY <1>2
    <2> QED
      BY <2>1, <2>2
  <1> HIDE DEF j
  <1>4. j.todo \in Seq(UNION Snapshots) /\ j.todo # <<>>
    BY <1>1, <1>2 DEF WorkSound
  <1>5. /\ r \in UNION Snapshots /\ todo \in Seq(UNION Snapshots) /\ (Len(j.todo) # 1 => todo # <<>>)
        /\ \A x \in UNION Snapshots :
              (\E i \in DOMAIN j.todo : j.todo[i] = x) => x = r \/ \E i \in DOMAIN todo : todo[i] = x
    BY <1>4, TailType
  <1>6. Len(j.todo) = 1 => todo = <<>>
    <2>1. Len(todo) = Len(j.todo) - 1
      BY <1>4
    <2> HIDE DEF todo
    <2> QED
      BY <1>5, <2>1, EmptySeq
  <1>7. todo \in Seq(References \cup UNION Snapshots)
    <2>1. UNION Snapshots \subseteq References \cup UNION Snapshots
      OBVIOUS
    <2> HIDE DEF todo
    <2> QED
      BY <1>5, <2>1, SeqMonotonic
  <1>8. pc \in {"aliases", "entities"} /\ pc \in Pcs /\ (pc = "entities" => todo # <<>>) /\ (pc = "aliases" => todo = <<>>)
    BY <1>5, <1>6 DEF Pcs
  <1>9. F \subseteq EntityIds
    BY <1>5 DEF RegistryInv, RegistryTypeOK, EntityIds
  <1> HIDE DEF todo, pc
  <1>10. /\ k \in Jobs /\ k.pc = pc /\ k.todo = todo /\ k.found = j.found /\ k.scores = j.scores
         /\ k.case = j.case /\ k.review = j.review /\ k.snapshot = j.snapshot
    BY <1>1, <1>7, <1>8 DEF Jobs
  <1> HIDE DEF k
  <1>11. Grows(DOMAIN entities, DOMAIN entities', clock, clock', raced, raced')
    BY <1>1, <1>2 DEF Grows
  <1>12. WorkSound(k, F, clock)
    <2>1. k.snapshot \in Snapshots
      BY <1>1, <1>2, <1>10 DEF WorkSound
    <2>2. ASSUME NEW x \in k.snapshot
          PROVE  x.entity \in F \/ (k.pc = "entities" /\ \E i \in DOMAIN k.todo : k.todo[i].entity = x.entity)
      <3>1. x.entity \in DOMAIN entities \/ \E i \in DOMAIN j.todo : j.todo[i].entity = x.entity
        BY <1>1, <1>2, <1>10, <2>2 DEF WorkSound
      <3>2. CASE x.entity \in DOMAIN entities
        BY <3>2
      <3>3. CASE \E i \in DOMAIN j.todo : j.todo[i].entity = x.entity
        <4>1. PICK i \in DOMAIN j.todo : j.todo[i].entity = x.entity
          BY <3>3
        <4> DEFINE y == j.todo[i]
        <4>2. y \in UNION Snapshots
          BY <1>4, <4>1
        <4>3. y = r \/ \E n \in DOMAIN todo : todo[n] = y
          BY <1>5, <4>1, <4>2
        <4>4. (\E n \in DOMAIN todo : todo[n] = y) => pc = "entities"
          <5>1. DOMAIN <<>> = {}
            OBVIOUS
          <5> QED
            BY <1>8, <5>1
        <4> QED
          BY <1>10, <4>1, <4>3, <4>4
      <3> QED
        BY <3>1, <3>2, <3>3
    <2>3. /\ k.pc = "entities" => k.todo \in Seq(UNION Snapshots) /\ k.todo # <<>>
          /\ k.pc \notin Resolving \cup Queueing \cup Reviewing \cup {"report", "answer"}
      BY <1>5, <1>8, <1>10 DEF Resolving, Queueing, Reviewing
    <2>4. /\ k.found \cup DOMAIN k.scores \subseteq F /\ k.case.stamp <= clock
          /\ {k.case.selected} \cup k.case.candidates \subseteq F \cup {None} /\ IsFiniteSet(k.review)
      BY <1>1, <1>10 DEF WorkSound
    <2> HIDE DEF F
    <2> QED
      BY <2>1, <2>2, <2>3, <2>4 DEF WorkSound
  <1>13. ReviewSound(k, items', raced')
    BY <1>8, <1>10, NextReview DEF Queueing
  <1>14. DecisionSound(k, t, items', reviewLock', DOMAIN entities', clock')
    BY <1>8, <1>10 DEF DecisionSound, Reviewing
  <1>15. JobsInv' /\ job' \in [Threads -> Jobs]
    <2>1. WorkSound(k, DOMAIN entities', clock')
      BY <1>2, <1>12
    <2>2. UNCHANGED <<items, reviewLock>>
      BY <1>2
    <2> QED
      BY <1>3, <1>10, <1>11, <1>13, <1>14, <2>1, <2>2, NothingTaken, JobsStep
  <1>16. RegistryTypeOK'
    BY <1>2, <1>9, <1>15 DEF RegistryInv, RegistryTypeOK
  <1>17. StoresInv'
    <2>1. StoreSound(refs, cases, aliases, DOMAIN entities', clock')
      BY <1>11, StoreGrows DEF RegistryInv, RegistryTypeOK, StoresInv
    <2> QED
      BY <1>2, <2>1 DEF RegistryInv, StoresInv
  <1>18. BehindInv'
    BY <1>2, <1>3, <1>8, <1>10, BehindStays DEF Reviewing
  <1> QED
    BY <1>15, <1>16, <1>17, <1>18 DEF RegistryInv

\* The aliases come after every entity they name.
LEMMA SaveAliasesStep ==
    ASSUME RegistryInv, NEW t \in Threads, SaveAliases(t)
    PROVE  RegistryInv'
  <1> DEFINE j == job[t]
             new == UNION {AliasesOf(r) : r \in j.snapshot}
  <1>1. /\ j \in Jobs /\ clock \in Nat /\ WorkSound(j, DOMAIN entities, clock)
    BY JobFacts
  <1>2. /\ j.pc = "aliases" /\ aliases' = aliases \cup new /\ job' = [job EXCEPT ![t] = NoJob]
        /\ UNCHANGED <<entities, refs, cases, items, reviewLock, clock, raced>>
    BY DEF SaveAliases, At
  <1>3. j.snapshot \in Snapshots /\ \A r \in j.snapshot : r.entity \in DOMAIN entities
    BY <1>1, <1>2 DEF WorkSound
  <1>4. new \subseteq AllAliases /\ \A a \in new : a.entity \in DOMAIN entities
    <2> HIDE DEF j
    <2>1. new \subseteq AllAliases
      BY <1>3 DEF AllAliases
    <2>2. ASSUME NEW a \in new PROVE a.entity \in DOMAIN entities
      <3>1. PICK r \in j.snapshot : a \in AliasesOf(r)
        BY <2>2
      <3>2. a.entity = r.entity
        BY <3>1 DEF AliasesOf
      <3> QED
        BY <1>3, <3>1, <3>2
    <2> QED
      BY <2>1, <2>2
  <1> HIDE DEF j, new
  <1>5. Grows(DOMAIN entities, DOMAIN entities', clock, clock', raced, raced')
    BY <1>1, <1>2 DEF Grows
  <1>6. JobsInv' /\ job' \in [Threads -> Jobs]
    <2>1. WorkSound(NoJob, DOMAIN entities', clock') /\ ReviewSound(NoJob, items', raced')
      BY <1>1, <1>2, NoJobSound
    <2>2. DecisionSound(NoJob, t, items', reviewLock', DOMAIN entities', clock')
      BY NoJobType DEF DecisionSound, Reviewing
    <2>3. UNCHANGED <<items, reviewLock>>
      BY <1>2
    <2> QED
      BY <1>2, <1>5, <2>1, <2>2, <2>3, NoJobType, NothingTaken, JobsStep
  <1>7. RegistryTypeOK'
    BY <1>2, <1>4, <1>6 DEF RegistryInv, RegistryTypeOK
  <1>8. StoresInv'
    BY <1>2, <1>4 DEF RegistryInv, StoresInv, StoreSound
  <1>9. BehindInv'
    BY <1>2, NoJobType, BehindStays DEF Reviewing
  <1> QED
    BY <1>6, <1>7, <1>8, <1>9 DEF RegistryInv


-----------------------------------------------------------------------------
(* Cases are built and saved                                               *)

\* A case that carries the newest time is behind nothing that is saved.
LEMMA NewestNotBehind ==
    ASSUME NEW k, NEW R, NEW n \in Nat, NEW cs \in [References -> CaseRows],
           Head(k.todo) \in References, k.case.stamp = n + 1, \A r \in References : cs[r].stamp <= n
    PROVE  Behind(k, cs, R)
  <1>1. cs[Head(k.todo)].stamp \in Nat /\ cs[Head(k.todo)].stamp <= n
    BY DEF CaseRows
  <1>2. ~ (k.case.stamp < cs[Head(k.todo)].stamp)
    BY <1>1
  <1> QED
    BY <1>2 DEF Behind

\* The case of a reference names a found entity, or none.
LEMMA DecideStep ==
    ASSUME RegistryInv, NEW t \in Threads, NEW reply, Decide(t, reply)
    PROVE  RegistryInv'
  <1> DEFINE j == job[t]
             d == Decision(j.found, j.scores, j.failed, reply)
             c == [stamp |-> clock + 1, selected |-> d.entity, candidates |-> j.found \cup DOMAIN j.scores]
             k == [j EXCEPT !.pc = "save", !.method = d.method, !.case = c]
  <1>1. /\ j \in Jobs /\ clock \in Nat
        /\ WorkSound(j, DOMAIN entities, clock) /\ ReviewSound(j, items, raced)
    BY JobFacts
  <1>2. /\ j.pc = "decide" /\ clock' = clock + 1 /\ job' = [job EXCEPT ![t] = k]
        /\ UNCHANGED <<entities, aliases, refs, cases, items, reviewLock, raced>>
    BY DEF Decide, At
  <1> HIDE DEF j
  <1>3. /\ d.entity \in j.found \cup DOMAIN j.scores \cup {None} /\ d.method \in Methods
    BY DecisionKnown
  <1>4. /\ j.found \cup DOMAIN j.scores \subseteq DOMAIN entities
        /\ DOMAIN entities \subseteq EntityIds
        /\ j.todo \in Seq(References) /\ j.todo # <<>>
    BY <1>1, <1>2 DEF RegistryInv, RegistryTypeOK, WorkSound, Resolving
  <1>5. Head(j.todo) \in References
    BY <1>4, TailType
  <1> HIDE DEF d
  <1>6. c \in CaseRows /\ {c.selected} \cup c.candidates \subseteq DOMAIN entities \cup {None} /\ c.stamp = clock + 1
    BY <1>1, <1>3, <1>4 DEF CaseRows, Ids
  <1> HIDE DEF c
  <1>7. /\ k \in Jobs /\ k.pc = "save" /\ k.todo = j.todo /\ k.found = j.found /\ k.scores = j.scores
        /\ k.case = c /\ k.review = j.review
    BY <1>1, <1>3, <1>6 DEF Jobs, Pcs, Resolving
  <1> HIDE DEF k
  <1>8. Grows(DOMAIN entities, DOMAIN entities', clock, clock', raced, raced')
    BY <1>1, <1>2 DEF Grows
  <1>9. WorkSound(k, DOMAIN entities', clock')
    BY <1>1, <1>2, <1>4, <1>6, <1>7 DEF WorkSound, Resolving, Queueing, Reviewing
  <1>10. JobsInv' /\ job' \in [Threads -> Jobs]
    <2>1. ReviewSound(k, items', raced')
      BY <1>7, NextReview DEF Queueing
    <2>2. DecisionSound(k, t, items', reviewLock', DOMAIN entities', clock')
      BY <1>7 DEF DecisionSound, Reviewing
    <2>3. UNCHANGED <<items, reviewLock>>
      BY <1>2
    <2> QED
      BY <1>2, <1>7, <1>8, <1>9, <2>1, <2>2, <2>3, NothingTaken, JobsStep
  <1>11. RegistryTypeOK'
    BY <1>1, <1>2, <1>10 DEF RegistryInv, RegistryTypeOK
  <1>12. StoresInv'
    <2>1. StoreSound(refs, cases, aliases, DOMAIN entities', clock')
      BY <1>8, StoreGrows DEF RegistryInv, RegistryTypeOK, StoresInv
    <2> QED
      BY <1>2, <2>1 DEF RegistryInv, StoresInv
  <1>13. BehindInv'
    <2>1. \A u \in Threads : job'[u] = IF u = t THEN k ELSE job[u]
      BY <1>2 DEF RegistryInv, RegistryTypeOK
    <2>2. Behind(k, cases, raced)
      BY <1>1, <1>5, <1>6, <1>7, NewestNotBehind DEF RegistryInv, RegistryTypeOK, StoresInv, StoreSound
    <2>3. ASSUME NEW u \in Threads \ {t}, job[u].pc \in Reviewing \ {"copy"}
          PROVE  Behind(k, job[u].snapshot[2], raced)
      <3>1. job[u].snapshot[2] \in [References -> CaseRows]
        BY <2>3, JobFacts DEF DecisionSound, Copies
      <3>2. \A r \in References : job[u].snapshot[2][r].stamp <= clock
        BY <2>3, JobFacts DEF DecisionSound, StoreSound
      <3> QED
        BY <1>1, <1>5, <1>6, <1>7, <3>1, <3>2, NewestNotBehind
    <2>4. k.pc \notin Reviewing
      BY <1>7 DEF Reviewing
    <2> QED
      BY <1>2, <2>1, <2>2, <2>3, <2>4 DEF RegistryInv, BehindInv
  <1> QED
    BY <1>10, <1>11, <1>12, <1>13 DEF RegistryInv

\* A resolution is saved: the stores stay sound, and every other case still to be
\* saved is behind only in a race.
LEMMA SavedSound ==
    ASSUME RegistryInv, NEW t \in Threads, NEW r \in References, NEW case \in CaseRows, NEW method \in Methods,
           Saved(r, case, method), raced \subseteq raced', raced' \subseteq References,
           UNCHANGED <<entities, aliases>>, clock' \in Nat, clock <= clock', case.stamp <= clock',
           {case.selected} \cup case.candidates \subseteq DOMAIN entities \cup {None},
           case.stamp < cases[r].stamp => r \in raced',
           Overtakes(t, r, case) => r \in raced'
    PROVE  /\ refs' \in [References -> RefRows] /\ cases' \in [References -> CaseRows]
           /\ StoreSound(refs', cases', aliases', DOMAIN entities', clock')
           /\ \A u \in Threads \ {t} : Behind(job[u], cases', raced')
  <1> DEFINE entry == [entity |-> case.selected, method |-> method]
             new == IF cases[r].stamp > case.stamp THEN cases[r] ELSE case
  <1>1. /\ refs \in [References -> RefRows] /\ cases \in [References -> CaseRows]
        /\ StoreSound(refs, cases, aliases, DOMAIN entities, clock) /\ clock \in Nat
    BY DEF RegistryInv, RegistryTypeOK, StoresInv
  <1>2. refs' = [refs EXCEPT ![r] = entry] /\ cases' = [cases EXCEPT ![r] = new]
    BY DEF Saved
  <1>3. entry \in RefRows /\ new \in CaseRows /\ entry.entity = case.selected
    BY <1>1 DEF RefRows, CaseRows
  <1>4. new.stamp \in Nat /\ case.stamp \in Nat /\ cases[r].stamp \in Nat
    BY <1>1, <1>3 DEF CaseRows
  <1>5. new.stamp <= clock' /\ {new.selected} \cup new.candidates \subseteq DOMAIN entities \cup {None}
    <2>1. cases[r].stamp <= clock /\ {cases[r].selected} \cup cases[r].candidates \subseteq DOMAIN entities \cup {None}
      BY <1>1 DEF StoreSound
    <2>2. cases[r].stamp <= clock'
      BY <1>1, <1>4, <2>1
    <2> QED
      BY <2>1, <2>2
  <1> HIDE DEF entry, new
  <1>7. StoreSound(refs', cases', aliases', DOMAIN entities', clock')
    <2>1. Grows(DOMAIN entities, DOMAIN entities', clock, clock', raced, raced')
      BY <1>1 DEF Grows
    <2>2. StoreSound(refs, cases, aliases, DOMAIN entities', clock')
      BY <1>1, <2>1, StoreGrows
    <2>3. ASSUME NEW s \in References
          PROVE  /\ {refs'[s].entity, cases'[s].selected} \cup cases'[s].candidates \subseteq DOMAIN entities' \cup {None}
                 /\ cases'[s].stamp <= clock'
      <3>1. CASE s = r
        <4>1. refs'[s] = entry /\ cases'[s] = new
          BY <1>1, <1>2, <3>1
        <4> QED
          BY <1>3, <1>5, <4>1
      <3>2. CASE s # r
        <4>1. refs'[s] = refs[s] /\ cases'[s] = cases[s]
          BY <1>1, <1>2, <3>2
        <4> QED
          BY <2>2, <4>1 DEF StoreSound
      <3> QED
        BY <3>1, <3>2
    <2> QED
      BY <2>2, <2>3 DEF StoreSound
  <1>8. ASSUME NEW u \in Threads \ {t} PROVE Behind(job[u], cases', raced')
    <2> DEFINE s == Head(job[u].todo)
               x == job[u].case.stamp
    <2>1. SUFFICES ASSUME job[u].pc \in {"save", "copy", "audit"}, x < cases'[s].stamp PROVE s \in raced'
      BY DEF Behind
    <2>2. /\ job[u] \in Jobs /\ WorkSound(job[u], DOMAIN entities, clock) /\ Behind(job[u], cases, raced)
      BY JobFacts
    <2>3. s \in References /\ x \in Nat
      BY <2>1, <2>2, TailType DEF WorkSound, Resolving, Reviewing, Jobs, CaseRows
    <2>4. x < cases[s].stamp => s \in raced'
      BY <2>1, <2>2 DEF Behind
    <2> HIDE DEF s, x
    <2>5. CASE s # r
      BY <1>1, <1>2, <2>1, <2>3, <2>4, <2>5
    <2>6. CASE s = r
      <3>1. cases'[s] = new
        BY <1>1, <1>2, <2>6
      <3>2. x < cases[r].stamp \/ x < case.stamp
        BY <1>4, <2>1, <2>3, <3>1 DEF new
      <3>3. x < case.stamp => Overtakes(t, r, case)
        BY <2>1, <2>6 DEF Overtakes, s, x
      <3> QED
        BY <2>4, <2>6, <3>2, <3>3
    <2> QED
      BY <2>5, <2>6
  <1> QED
    BY <1>1, <1>2, <1>3, <1>7, <1>8


\* The entry and its case are saved; a save that overtakes a newer case is a race.
LEMMA SaveStep ==
    ASSUME RegistryInv, NEW t \in Threads, Save(t)
    PROVE  RegistryInv'
  <1> DEFINE j == job[t]
             r == Head(j.todo)
             a == Advance(j)
             results == Append(a.results, <<r, j.case.selected>>)
             review == IF j.case.selected = None THEN a.review \cup {r} ELSE a.review
             k == [a EXCEPT !.results = results, !.review = review]
  <1>1. /\ j \in Jobs /\ clock \in Nat
        /\ WorkSound(j, DOMAIN entities, clock) /\ ReviewSound(j, items, raced) /\ Behind(j, cases, raced)
    BY JobFacts
  <1>2. /\ j.pc = "save" /\ Saved(r, j.case, j.method)
        /\ raced' = IF Overtakes(t, r, j.case) THEN raced \cup {r} ELSE raced
        /\ UNCHANGED <<entities, aliases, items, reviewLock, clock>>
    BY DEF Save, At, Current
  <1>3. job' = [job EXCEPT ![t] = k]
    BY DEF Save, Current
  <1> HIDE DEF j
  <1>4. /\ j.todo \in Seq(References) /\ j.todo # <<>> /\ IsFiniteSet(j.review) /\ j.case.stamp <= clock
        /\ {j.case.selected} \cup j.case.candidates \subseteq DOMAIN entities \cup {None}
        /\ j.case \in CaseRows /\ j.method \in Methods
    BY <1>1, <1>2 DEF WorkSound, Resolving, Jobs
  <1>5. r \in References
    BY <1>4, TailType
  <1>6. /\ a \in Jobs /\ a.pc \in {"report", "validate"} /\ a.todo \in Seq(References)
        /\ a.pc = "validate" => a.todo # <<>>
        /\ a.found = {} /\ DOMAIN a.scores = {} /\ a.case = NoCase /\ a.review = j.review
    BY <1>1, <1>4, AdvanceType
  <1>7. raced \subseteq raced' /\ raced' \subseteq References /\ (Overtakes(t, r, j.case) => r \in raced')
    <2> HIDE DEF r
    <2> QED
      BY <1>2, <1>5 DEF RegistryInv, RegistryTypeOK
  <1>8. j.case.stamp < cases[r].stamp => r \in raced'
    BY <1>1, <1>2, <1>7 DEF Behind
  <1> HIDE DEF a, r
  <1>9. /\ review \in SUBSET References /\ IsFiniteSet(review)
        /\ results \in Seq(References \X Ids) /\ results # <<>>
    <2>1. a.results \in Seq(References \X Ids) /\ j.case.selected \in Ids /\ a.review \in SUBSET References
      BY <1>4, <1>6 DEF Jobs, CaseRows
    <2>2. IsFiniteSet(a.review \cup {r})
      BY <1>4, <1>6, FS_AddElement
    <2>3. <<r, j.case.selected>> \in References \X Ids
      BY <1>5, <2>1
    <2> DEFINE pair == <<r, j.case.selected>>
    <2> HIDE DEF pair
    <2>4. Append(a.results, pair) \in Seq(References \X Ids) /\ Append(a.results, pair) # <<>>
      <3>1. pair \in References \X Ids
        BY <2>3 DEF pair
      <3>2. a.results \in Seq(References \X Ids)
        BY <2>1
      <3> QED
        BY ONLY <3>1, <3>2, AppendProperties
    <2> QED
      BY <1>4, <1>5, <1>6, <2>1, <2>2, <2>4 DEF pair
  <1> HIDE DEF results, review
  <1>10. /\ k \in Jobs /\ k.pc = a.pc /\ k.todo = a.todo /\ k.found = {} /\ DOMAIN k.scores = {}
         /\ k.case = NoCase /\ k.review = review /\ k.results = results
    BY <1>6, <1>9 DEF Jobs
  <1> HIDE DEF k
  <1>11. Grows(DOMAIN entities, DOMAIN entities', clock, clock', raced, raced')
    BY <1>1, <1>2, <1>7 DEF Grows
  <1>12. JobsInv' /\ job' \in [Threads -> Jobs]
    <2>1. WorkSound(k, DOMAIN entities', clock')
      <3>1. /\ k \in Jobs /\ k.pc \in {"report", "validate"} /\ k.todo \in Seq(References)
            /\ k.pc = "validate" => k.todo # <<>>
            /\ k.found = {} /\ DOMAIN k.scores = {} /\ k.case = NoCase /\ IsFiniteSet(k.review)
            /\ k.errors # {} \/ k.results # <<>>
        BY <1>6, <1>9, <1>10
      <3>2. clock' \in Nat
        BY <1>1, <1>2
      <3> QED
        BY ONLY <3>1, <3>2, NextWork
    <2>2. ReviewSound(k, items', raced')
      BY <1>6, <1>10, NextReview DEF Queueing
    <2>3. DecisionSound(k, t, items', reviewLock', DOMAIN entities', clock')
      BY <1>6, <1>10 DEF DecisionSound, Reviewing
    <2>4. UNCHANGED <<items, reviewLock>>
      BY <1>2
    <2> QED
      BY <1>3, <1>10, <1>11, <2>1, <2>2, <2>3, <2>4, NothingTaken, JobsStep
  <1>13. /\ refs' \in [References -> RefRows] /\ cases' \in [References -> CaseRows]
         /\ StoreSound(refs', cases', aliases', DOMAIN entities', clock')
         /\ \A u \in Threads \ {t} : Behind(job[u], cases', raced')
    <2>1. clock' \in Nat /\ clock <= clock' /\ j.case.stamp <= clock' /\ UNCHANGED <<entities, aliases>>
      BY <1>1, <1>2, <1>4
    <2> QED
      BY <1>2, <1>4, <1>5, <1>7, <1>8, <2>1, SavedSound
  <1>14. RegistryTypeOK'
    BY <1>1, <1>2, <1>7, <1>12, <1>13 DEF RegistryInv, RegistryTypeOK
  <1>15. StoresInv'
    BY <1>2, <1>13 DEF RegistryInv, StoresInv
  <1>16. BehindInv'
    <2>1. \A u \in Threads : job'[u] = IF u = t THEN k ELSE job[u]
      BY <1>3 DEF RegistryInv, RegistryTypeOK
    <2>2. (\A cs : Behind(k, cs, raced')) /\ k.pc \notin Reviewing
      BY <1>6, <1>10 DEF Behind, Reviewing
    <2>3. \A u \in Threads : \A cs : Behind(job[u], cs, raced) => Behind(job[u], cs, raced')
      BY <1>7 DEF Behind
    <2> QED
      BY <1>13, <2>1, <2>2, <2>3 DEF RegistryInv, BehindInv
  <1> QED
    BY <1>12, <1>14, <1>15, <1>16 DEF RegistryInv

\* A reference is registered as unresolved.
LEMMA RegisterStep ==
    ASSUME RegistryInv, NEW t \in Threads, NEW r \in References, NEW old \in BOOLEAN, Register(t, r, old)
    PROVE  RegistryInv'
  <1> DEFINE s == IF old THEN 1 ELSE clock + 1
             c == [NoCase EXCEPT !.stamp = s]
  <1>1. /\ job[t].pc \in {"idle", "done"} /\ Saved(r, c, "unresolved")
        /\ clock' = (IF old THEN clock ELSE clock + 1)
        /\ raced' = IF c.stamp < cases[r].stamp \/ Overtakes(t, r, c) THEN raced \cup {r} ELSE raced
        /\ UNCHANGED <<entities, aliases, items, reviewLock, job>>
    BY DEF Register
  <1>2. clock \in Nat /\ clock >= 1 /\ raced \subseteq References
    BY DEF RegistryInv, RegistryTypeOK
  <1>3. clock' >= 1 /\ s \in Nat /\ s <= clock' /\ clock' \in Nat /\ clock <= clock'
    BY <1>1, <1>2
  <1> HIDE DEF s
  <1>4. c \in CaseRows /\ c.stamp = s /\ {c.selected} \cup c.candidates \subseteq DOMAIN entities \cup {None}
    BY <1>3 DEF NoCase, CaseRows, Ids
  <1> HIDE DEF c
  <1>5. /\ raced \subseteq raced' /\ raced' \subseteq References
        /\ (c.stamp < cases[r].stamp => r \in raced') /\ (Overtakes(t, r, c) => r \in raced')
    BY <1>1, <1>2
  <1>6. /\ refs' \in [References -> RefRows] /\ cases' \in [References -> CaseRows]
        /\ StoreSound(refs', cases', aliases', DOMAIN entities', clock')
        /\ \A u \in Threads \ {t} : Behind(job[u], cases', raced')
    <2>1. "unresolved" \in Methods /\ UNCHANGED <<entities, aliases>>
      BY <1>1 DEF Methods
    <2>2. c.stamp <= clock'
      BY <1>3, <1>4
    <2> QED
      BY <1>1, <1>3, <1>4, <1>5, <2>1, <2>2, SavedSound
  <1>7. Grows(DOMAIN entities, DOMAIN entities', clock, clock', raced, raced')
    BY <1>1, <1>2, <1>3, <1>5 DEF Grows
  <1>8. JobsInv'
    <2>1. job \in [Threads -> Jobs] /\ job' = [job EXCEPT ![t] = job[t]]
      BY <1>1 DEF RegistryInv, RegistryTypeOK
    <2>2. job[t] \in Jobs /\ WorkSound(job[t], DOMAIN entities, clock) /\ ReviewSound(job[t], items, raced)
      BY JobFacts
    <2>3. WorkSound(job[t], DOMAIN entities', clock')
      BY <1>7, <2>2, WorkGrows
    <2>4. ReviewSound(job[t], items', raced')
      BY <1>1, <2>2 DEF ReviewSound
    <2>5. DecisionSound(job[t], t, items', reviewLock', DOMAIN entities', clock')
      BY <1>1 DEF DecisionSound, Reviewing
    <2>6. UNCHANGED <<items, reviewLock>>
      BY <1>1
    <2> QED
      BY <1>7, <2>1, <2>2, <2>3, <2>4, <2>5, <2>6, NothingTaken, JobsStep
  <1>9. RegistryTypeOK'
    BY <1>1, <1>3, <1>5, <1>6 DEF RegistryInv, RegistryTypeOK
  <1>10. StoresInv'
    BY <1>1, <1>6 DEF RegistryInv, StoresInv
  <1>11. BehindInv'
    <2>1. \A cs : Behind(job[t], cs, raced')
      BY <1>1 DEF Behind
    <2>2. \A u \in Threads : \A cs : Behind(job[u], cs, raced) => Behind(job[u], cs, raced')
      BY <1>5 DEF Behind
    <2> QED
      BY <1>1, <1>6, <2>1, <2>2 DEF RegistryInv, BehindInv
  <1> QED
    BY <1>8, <1>9, <1>10, <1>11 DEF RegistryInv


-----------------------------------------------------------------------------
(* Items of the review queue                                               *)

\* Only who holds the lock of the review queue decides.
LEMMA DecidesAlone ==
    ASSUME RegistryInv, NEW u \in Threads, job[u].pc \in Reviewing
    PROVE  reviewLock = u /\ u # "free"
  BY RegistryAssumption DEF RegistryInv, JobsInv, DecisionSound

\* The item is saved; a save over another item is a race.
LEMMA EnqueueSaveStep ==
    ASSUME RegistryInv, NEW t \in Threads, EnqueueSave(t)
    PROVE  RegistryInv'
  <1> DEFINE j == job[t]
             r == Head(j.todo)
             entry == [status |-> "pending", candidates |-> j.case.candidates]
             k == Queued(j)
  <1>1. /\ j \in Jobs /\ clock \in Nat
        /\ WorkSound(j, DOMAIN entities, clock) /\ ReviewSound(j, items, raced)
    BY JobFacts
  <1>2. /\ j.pc = "queue" /\ reviewLock = "free"
        /\ items' = [items EXCEPT ![r] = entry] /\ job' = [job EXCEPT ![t] = k]
        /\ raced' = IF \E u \in Threads \ {t} : job[u].pc \in {"case", "queue"} /\ Current(u) = r
                    THEN raced \cup {r} ELSE raced
        /\ UNCHANGED <<entities, aliases, refs, cases, reviewLock, clock>>
    BY DEF EnqueueSave, At, Current
  <1>3. \A u \in Threads \ {t} : job[u].pc \in {"case", "queue"} /\ Head(job[u].todo) = r => r \in raced'
    BY <1>2 DEF At, Current
  <1> HIDE DEF j
  <1>4. r \in References /\ {j.case.selected} \cup j.case.candidates \subseteq DOMAIN entities \cup {None}
    BY <1>1, <1>2, TailType DEF WorkSound, Queueing
  <1>5. raced \subseteq raced' /\ raced' \subseteq References
    <2> HIDE DEF r
    <2> QED
      BY <1>2, <1>4 DEF RegistryInv, RegistryTypeOK
  <1>6. items \in [References -> ItemRows]
    BY DEF RegistryInv, RegistryTypeOK
  <1>7. entry \in ItemRows /\ entry # NoItem /\ entry.candidates = j.case.candidates
    <2>1. j.case.candidates \in SUBSET Ids
      BY <1>1 DEF Jobs, CaseRows
    <2>2. entry.status = "pending" /\ NoItem.status = "absent"
      BY DEF NoItem
    <2> QED
      BY <2>1, <2>2 DEF ItemRows
  <1> HIDE DEF r, entry
  <1>8. items' \in [References -> ItemRows] /\ \A s \in References : items'[s] = IF s = r THEN entry ELSE items[s]
    BY <1>2, <1>6, <1>7
  <1>9. \A s \in References : items[s] # NoItem => items'[s] # NoItem
    BY <1>7, <1>8
  <1>10. /\ k \in Jobs /\ k.pc \in {"done", "enqueue"}
         /\ WorkSound(k, DOMAIN entities, clock) /\ ReviewSound(k, items', raced')
    <2>1. j.pc \in Queueing
      BY <1>2 DEF Queueing
    <2>2. items'[Head(j.todo)] # NoItem
      BY <1>4, <1>7, <1>8 DEF r
    <2> HIDE DEF k
    <2> QED
      BY <1>1, <1>9, <2>1, <2>2, QueuedSound DEF k
  <1> HIDE DEF k
  <1>11. Grows(DOMAIN entities, DOMAIN entities', clock, clock', raced, raced')
    BY <1>1, <1>2, <1>5 DEF Grows
  <1>12. JobsInv' /\ job' \in [Threads -> Jobs]
    <2>1. ASSUME NEW u \in Threads \ {t}
          PROVE  /\ job[u].pc \in {"case", "queue"} =>
                       items'[Head(job[u].todo)] = items[Head(job[u].todo)] \/ Head(job[u].todo) \in raced'
                 /\ job[u].pc \in Reviewing /\ reviewLock = u =>
                       reviewLock' = u /\ items'[Head(job[u].todo)].status \in {"pending", "claimed"}
      <3>1. job[u].pc \notin Reviewing
        BY <1>2, DecidesAlone
      <3>2. ASSUME job[u].pc \in {"case", "queue"} PROVE Head(job[u].todo) \in References
        BY <3>2, JobFacts, TailType DEF WorkSound, Queueing
      <3> QED
        BY <1>3, <1>8, <3>1, <3>2
    <2>2. DecisionSound(k, t, items', reviewLock', DOMAIN entities', clock')
      BY <1>10 DEF DecisionSound, Reviewing
    <2>3. WorkSound(k, DOMAIN entities', clock')
      BY <1>2, <1>10
    <2> QED
      BY <1>2, <1>9, <1>10, <1>11, <2>1, <2>2, <2>3, JobsStep
  <1>13. RegistryTypeOK'
    BY <1>2, <1>5, <1>8, <1>12 DEF RegistryInv, RegistryTypeOK
  <1>14. StoresInv'
    <2>1. StoreSound(refs, cases, aliases, DOMAIN entities', clock')
      BY <1>11, StoreGrows DEF RegistryInv, RegistryTypeOK, StoresInv
    <2>2. \A s \in References : items'[s].candidates \subseteq DOMAIN entities \cup {None}
      BY <1>4, <1>7, <1>8 DEF RegistryInv, StoresInv
    <2> QED
      BY <1>2, <2>1, <2>2 DEF StoresInv
  <1>15. BehindInv'
    BY <1>2, <1>5, <1>10, BehindStays DEF Reviewing
  <1> QED
    BY <1>12, <1>13, <1>14, <1>15 DEF RegistryInv

\* An item changes its state while nobody holds the lock, or while t gives it up:
\* who has found no item before has been overtaken.
LEMMA ItemMoves ==
    ASSUME RegistryInv, NEW r \in References, NEW st \in {"claimed", "rejected", "promoted"},
           items[r].status \in {"pending", "claimed"}, items' = [items EXCEPT ![r].status = st]
    PROVE  /\ items' \in [References -> ItemRows]
           /\ \A s \in References : items'[s].candidates = items[s].candidates
           /\ \A s \in References : items[s] # NoItem => items'[s] # NoItem
           /\ \A u \in Threads : job[u].pc \in {"case", "queue"} =>
                 items'[Head(job[u].todo)] = items[Head(job[u].todo)] \/ Head(job[u].todo) \in raced
  <1>1. items \in [References -> ItemRows]
    BY DEF RegistryInv, RegistryTypeOK
  <1> DEFINE entry == [items[r] EXCEPT !.status = st]
  <1>2. entry \in ItemRows /\ entry.status = st /\ entry.candidates = items[r].candidates
    BY <1>1 DEF ItemRows
  <1>3. items' = [items EXCEPT ![r] = entry]
    OBVIOUS
  <1>4. NoItem.status = "absent"
    BY DEF NoItem
  <1>5. items[r] # NoItem /\ entry # NoItem
    BY <1>2, <1>4
  <1> HIDE DEF entry
  <1>6. items' \in [References -> ItemRows] /\ \A s \in References : items'[s] = IF s = r THEN entry ELSE items[s]
    BY <1>1, <1>2, <1>3
  <1>7. ASSUME NEW u \in Threads, job[u].pc \in {"case", "queue"}
        PROVE  items'[Head(job[u].todo)] = items[Head(job[u].todo)] \/ Head(job[u].todo) \in raced
    <2>1. Head(job[u].todo) \in References
      BY <1>7, JobFacts, TailType DEF WorkSound, Queueing
    <2>2. items[Head(job[u].todo)] # NoItem => Head(job[u].todo) \in raced
      BY <1>7, JobFacts DEF ReviewSound
    <2> QED
      BY <1>5, <1>6, <2>1, <2>2
  <1> QED
    BY <1>2, <1>5, <1>6, <1>7

\* A pending item is claimed.
LEMMA ClaimStep ==
    ASSUME RegistryInv, NEW r \in References, Claim(r)
    PROVE  RegistryInv'
  <1>1. /\ reviewLock = "free" /\ items[r].status = "pending"
        /\ items' = [items EXCEPT ![r].status = "claimed"]
        /\ UNCHANGED <<entities, aliases, refs, cases, reviewLock, job, clock, raced>>
    BY DEF Claim
  <1>2. /\ items' \in [References -> ItemRows]
        /\ \A s \in References : items'[s].candidates = items[s].candidates
        /\ \A s \in References : items[s] # NoItem => items'[s] # NoItem
        /\ \A u \in Threads : job[u].pc \in {"case", "queue"} =>
              items'[Head(job[u].todo)] = items[Head(job[u].todo)] \/ Head(job[u].todo) \in raced
    BY <1>1, ItemMoves
  <1>3. JobsInv'
    <2>1. ASSUME NEW u \in Threads
          PROVE  /\ WorkSound(job[u], DOMAIN entities, clock) /\ ReviewSound(job[u], items', raced)
                 /\ DecisionSound(job[u], u, items', reviewLock, DOMAIN entities, clock)
      <3>1. job[u] \in Jobs /\ WorkSound(job[u], DOMAIN entities, clock) /\ ReviewSound(job[u], items, raced)
        BY JobFacts
      <3>2. ReviewSound(job[u], items', raced)
        <4>1. job[u].pc \in {"case", "queue"} =>
                 items'[Head(job[u].todo)] = items[Head(job[u].todo)] \/ Head(job[u].todo) \in raced
          BY <1>2
        <4> QED
          BY <1>2, <3>1, <4>1, ReviewGrows
      <3>3. job[u].pc \notin Reviewing
        BY <1>1, DecidesAlone
      <3> QED
        BY <3>1, <3>2, <3>3 DEF DecisionSound
    <2> QED
      BY <1>1, <2>1 DEF JobsInv
  <1>4. RegistryTypeOK' /\ StoresInv' /\ BehindInv'
    BY <1>1, <1>2 DEF RegistryInv, RegistryTypeOK, StoresInv, BehindInv
  <1> QED
    BY <1>3, <1>4 DEF RegistryInv


-----------------------------------------------------------------------------
(* Decisions                                                               *)

\* While t decides, or nobody does, the others have nothing to lose but the lock.
LEMMA OthersIdle ==
    ASSUME RegistryInv, NEW t \in Threads, reviewLock \in {t, "free"}
    PROVE  \A u \in Threads \ {t} : job[u].pc \notin Reviewing
  BY DecidesAlone

\* A decision takes the lock and copies the references.
LEMMA SubmitStep ==
    ASSUME RegistryInv, NEW t \in Threads, NEW r \in References, NEW e \in EntityIds \cup {None},
           NEW promote \in {"none", "short_name"}, Submit(t, r, e, promote)
    PROVE  RegistryInv'
  <1> DEFINE todo == <<r>>
             b == Busy("copy", todo)
             method == IF e = None THEN "unresolved" ELSE "manual"
             c == [stamp |-> clock + 1, selected |-> e, candidates |-> items[r].candidates \cup ({e} \ {None})]
             copy == <<refs>>
             k == [b EXCEPT !.method = method, !.promotes = promote, !.case = c, !.snapshot = copy]
  <1>1. /\ reviewLock = "free" /\ reviewLock' = t /\ clock' = clock + 1 /\ job' = [job EXCEPT ![t] = k]
        /\ items[r].status \in {"pending", "claimed"}
        /\ e # None => e \in DOMAIN entities
        /\ promote # "none" => e # None
        /\ UNCHANGED <<entities, aliases, refs, cases, items, raced>>
    BY DEF Submit
  <1>2. clock \in Nat /\ DOMAIN entities \subseteq EntityIds /\ items \in [References -> ItemRows]
    BY DEF RegistryInv, RegistryTypeOK
  <1>3. copy \in FirstCopies /\ copy[1] = refs
    BY DEF RegistryInv, RegistryTypeOK, FirstCopies
  <1>4. /\ todo \in Seq(References) /\ todo # <<>> /\ Head(todo) = r /\ todo \in Seq(References \cup UNION Snapshots)
    OBVIOUS
  <1>5. c \in CaseRows /\ c.stamp = clock + 1 /\ c.selected = e
        /\ {c.selected} \cup c.candidates \subseteq DOMAIN entities \cup {None}
    <2>1. items[r].candidates \subseteq DOMAIN entities \cup {None}
      BY DEF RegistryInv, StoresInv
    <2> QED
      BY <1>1, <1>2, <2>1 DEF CaseRows, Ids
  <1>6. method \in Methods
    BY DEF Methods
  <1> HIDE DEF todo, method, c, copy
  <1>7. /\ b \in Jobs /\ b.pc = "copy" /\ b.todo = todo /\ b.found = {} /\ DOMAIN b.scores = {} /\ b.review = {}
    BY <1>4, BusyType DEF Pcs, Reviewing
  <1> HIDE DEF b
  <1>8. /\ k \in Jobs /\ k.pc = "copy" /\ k.todo = todo /\ k.found = {} /\ DOMAIN k.scores = {} /\ k.review = {}
        /\ k.case = c /\ k.promotes = promote /\ k.snapshot = copy
    BY <1>3, <1>5, <1>6, <1>7 DEF Jobs
  <1> HIDE DEF k
  <1>9. Grows(DOMAIN entities, DOMAIN entities', clock, clock', raced, raced')
    BY <1>1, <1>2 DEF Grows
  <1>10. StoreSound(refs, cases, aliases, DOMAIN entities', clock')
    BY <1>9, StoreGrows DEF RegistryInv, RegistryTypeOK, StoresInv
  <1>11. \A u \in Threads \ {t} : job[u].pc \notin Reviewing
    BY <1>1, OthersIdle
  <1>12. JobsInv' /\ job' \in [Threads -> Jobs]
    <2>1. WorkSound(k, DOMAIN entities', clock')
      <3>1. IsFiniteSet({}) /\ c.stamp <= clock'
        BY <1>1, <1>2, <1>5, FS_EmptySet
      <3> QED
        BY <1>1, <1>4, <1>5, <1>8, <3>1 DEF WorkSound, Reviewing
    <2>2. ReviewSound(k, items', raced')
      BY <1>8, NextReview DEF Queueing
    <2>3. DecisionSound(k, t, items', reviewLock', DOMAIN entities', clock')
      BY <1>1, <1>3, <1>4, <1>5, <1>8, <1>10 DEF DecisionSound, StoreSound
    <2>4. /\ \A s \in References : items[s] # NoItem => items'[s] # NoItem
          /\ \A u \in Threads \ {t} :
                /\ job[u].pc \in {"case", "queue"} =>
                      items'[Head(job[u].todo)] = items[Head(job[u].todo)] \/ Head(job[u].todo) \in raced'
                /\ job[u].pc \in Reviewing /\ reviewLock = u =>
                      reviewLock' = u /\ items'[Head(job[u].todo)].status \in {"pending", "claimed"}
      BY <1>1, <1>11
    <2> QED
      BY <1>1, <1>8, <1>9, <2>1, <2>2, <2>3, <2>4, JobsStep
  <1>13. RegistryTypeOK'
    BY <1>1, <1>2, <1>12 DEF RegistryInv, RegistryTypeOK
  <1>14. StoresInv'
    BY <1>1, <1>10 DEF RegistryInv, StoresInv
  <1>15. BehindInv'
    <2>1. \A u \in Threads : job'[u] = IF u = t THEN k ELSE job[u]
      BY <1>1 DEF RegistryInv, RegistryTypeOK
    <2>2. Behind(k, cases, raced)
      <3>1. Head(k.todo) \in References /\ k.case.stamp = clock + 1
        BY <1>4, <1>5, <1>8
      <3>2. cases \in [References -> CaseRows] /\ \A s \in References : cases[s].stamp <= clock
        BY DEF RegistryInv, RegistryTypeOK, StoresInv, StoreSound
      <3> QED
        BY <1>2, <3>1, <3>2, NewestNotBehind
    <2>3. \A u \in Threads : Behind(job'[u], cases, raced)
      BY <2>1, <2>2 DEF RegistryInv, BehindInv
    <2> QED
      BY <1>1, <1>3, <1>8, <1>11, <2>1, <2>3 DEF BehindInv
  <1> QED
    BY <1>12, <1>13, <1>14, <1>15 DEF RegistryInv

\* It copies the cases and the aliases.
LEMMA DecisionCopiesStep ==
    ASSUME RegistryInv, NEW t \in Threads, DecisionCopies(t)
    PROVE  RegistryInv'
  <1> DEFINE j == job[t]
             copy == <<j.snapshot[1], cases, aliases>>
             k == [j EXCEPT !.pc = "audit", !.snapshot = copy]
  <1>1. /\ j \in Jobs /\ clock \in Nat
        /\ WorkSound(j, DOMAIN entities, clock) /\ Behind(j, cases, raced)
        /\ DecisionSound(j, t, items, reviewLock, DOMAIN entities, clock)
    BY JobFacts
  <1>2. /\ j.pc = "copy" /\ job' = [job EXCEPT ![t] = k]
        /\ UNCHANGED <<entities, aliases, refs, cases, items, reviewLock, clock, raced>>
    BY DEF DecisionCopies, At
  <1> HIDE DEF j
  <1>3. j.snapshot[1] \in [References -> RefRows]
    BY <1>1, <1>2 DEF DecisionSound, Reviewing, FirstCopies
  <1>4. copy \in Copies /\ copy[1] = j.snapshot[1] /\ copy[2] = cases /\ copy[3] = aliases
    BY <1>3 DEF RegistryInv, RegistryTypeOK, Copies
  <1>5. StoreSound(copy[1], copy[2], copy[3], DOMAIN entities, clock)
    <2>1. \A r \in References : copy[1][r].entity \in DOMAIN entities \cup {None}
      BY <1>1, <1>2, <1>4 DEF DecisionSound, Reviewing
    <2> QED
      BY <1>4, <2>1 DEF RegistryInv, StoresInv, StoreSound
  <1> HIDE DEF copy
  <1>6. k \in Jobs /\ k.pc = "audit" /\ k.todo = j.todo /\ k.found = j.found /\ k.scores = j.scores
        /\ k.case = j.case /\ k.review = j.review /\ k.snapshot = copy /\ k.promotes = j.promotes
    BY <1>1, <1>4 DEF Jobs, Pcs, Reviewing
  <1> HIDE DEF k
  <1>7. Grows(DOMAIN entities, DOMAIN entities', clock, clock', raced, raced')
    BY <1>1, <1>2 DEF Grows
  <1>8. JobsInv' /\ job' \in [Threads -> Jobs]
    <2>1. WorkSound(k, DOMAIN entities', clock')
      BY <1>1, <1>2, <1>6 DEF WorkSound, Resolving, Queueing, Reviewing
    <2>2. ReviewSound(k, items', raced')
      BY <1>6, NextReview DEF Queueing
    <2>3. DecisionSound(k, t, items', reviewLock', DOMAIN entities', clock')
      BY <1>1, <1>2, <1>4, <1>5, <1>6 DEF DecisionSound, Reviewing
    <2>4. UNCHANGED <<items, reviewLock>>
      BY <1>2
    <2> QED
      BY <1>2, <1>6, <1>7, <2>1, <2>2, <2>3, <2>4, NothingTaken, JobsStep
  <1>9. RegistryTypeOK'
    BY <1>2, <1>8 DEF RegistryInv, RegistryTypeOK
  <1>10. StoresInv'
    BY <1>2 DEF RegistryInv, StoresInv
  <1>11. BehindInv'
    <2>1. \A u \in Threads : job'[u] = IF u = t THEN k ELSE job[u]
      BY <1>2 DEF RegistryInv, RegistryTypeOK
    <2>2. Behind(k, cases, raced)
      BY <1>1, <1>2, <1>6 DEF Behind
    <2>3. \A u \in Threads : Behind(job'[u], cases, raced)
      BY <2>1, <2>2 DEF RegistryInv, BehindInv
    <2>4. ASSUME NEW v \in Threads \ {t}, NEW u \in Threads, job[v].pc \in Reviewing \ {"copy"}
          PROVE  Behind(job'[u], job[v].snapshot[2], raced)
      BY <1>1, <1>2, <1>6, <2>1, <2>4, OthersIdle, DecidesAlone DEF Reviewing, j
    <2> QED
      BY <1>2, <1>4, <1>6, <2>1, <2>3, <2>4 DEF BehindInv
  <1> QED
    BY <1>8, <1>9, <1>10, <1>11 DEF RegistryInv

\* The decision saves its case, which is the latest.
LEMMA DecisionAuditStep ==
    ASSUME RegistryInv, NEW t \in Threads, DecisionAudit(t)
    PROVE  RegistryInv'
  <1> DEFINE j == job[t]
             r == Head(j.todo)
             pc == IF j.promotes = "none" THEN "terminal" ELSE "alias"
             k == [j EXCEPT !.pc = pc]
  <1>1. /\ j \in Jobs /\ clock \in Nat
        /\ WorkSound(j, DOMAIN entities, clock) /\ Behind(j, cases, raced)
        /\ DecisionSound(j, t, items, reviewLock, DOMAIN entities, clock)
    BY JobFacts
  <1>2. /\ j.pc = "audit" /\ Saved(r, j.case, j.method)
        /\ raced' = IF Overtakes(t, r, j.case) THEN raced \cup {r} ELSE raced
        /\ job' = [job EXCEPT ![t] = k]
        /\ UNCHANGED <<entities, aliases, items, reviewLock, clock>>
    BY DEF DecisionAudit, At, Current
  <1> HIDE DEF j
  <1>3. /\ j.todo \in Seq(References) /\ j.todo # <<>> /\ j.case.stamp <= clock
        /\ {j.case.selected} \cup j.case.candidates \subseteq DOMAIN entities \cup {None}
        /\ j.case \in CaseRows /\ j.method \in Methods
    BY <1>1, <1>2 DEF WorkSound, Reviewing, Jobs
  <1>4. r \in References
    BY <1>3, TailType
  <1>5. raced \subseteq raced' /\ raced' \subseteq References /\ (Overtakes(t, r, j.case) => r \in raced')
    <2> HIDE DEF r
    <2> QED
      BY <1>2, <1>4 DEF RegistryInv, RegistryTypeOK
  <1>6. j.case.stamp < cases[r].stamp => r \in raced'
    BY <1>1, <1>2, <1>5 DEF Behind
  <1>7. /\ refs' \in [References -> RefRows] /\ cases' \in [References -> CaseRows]
        /\ StoreSound(refs', cases', aliases', DOMAIN entities', clock')
        /\ \A u \in Threads \ {t} : Behind(job[u], cases', raced')
    <2> HIDE DEF r
    <2>1. clock' \in Nat /\ clock <= clock' /\ j.case.stamp <= clock' /\ UNCHANGED <<entities, aliases>>
      BY <1>1, <1>2, <1>3
    <2> QED
      BY <1>2, <1>3, <1>4, <1>5, <1>6, <2>1, SavedSound
  <1>8. Grows(DOMAIN entities, DOMAIN entities', clock, clock', raced, raced')
    BY <1>1, <1>2, <1>5 DEF Grows
  <1>9. pc \in {"alias", "terminal"} /\ pc \in Pcs /\ (pc = "alias" => j.promotes # "none")
    BY DEF Pcs, Reviewing
  <1> HIDE DEF pc
  <1>10. k \in Jobs /\ k = [j EXCEPT !.pc = pc] /\ k.pc = pc /\ k.todo = j.todo /\ k.found = j.found
         /\ k.scores = j.scores /\ k.case = j.case /\ k.review = j.review /\ k.snapshot = j.snapshot
         /\ k.promotes = j.promotes
    BY <1>1, <1>9 DEF Jobs
  <1> HIDE DEF k
  <1>11. JobsInv' /\ job' \in [Threads -> Jobs]
    <2>1. WorkSound(k, DOMAIN entities', clock')
      BY <1>1, <1>2, <1>3, <1>9, <1>10 DEF WorkSound, Resolving, Queueing, Reviewing
    <2>2. ReviewSound(k, items', raced')
      BY <1>9, <1>10, NextReview DEF Queueing
    <2>3. DecisionSound(k, t, items', reviewLock', DOMAIN entities', clock')
      <3>1. DecisionSound(k, t, items, reviewLock, DOMAIN entities, clock)
        BY <1>1, <1>2, <1>9, <1>10 DEF DecisionSound, Reviewing
      <3>2. k.pc \in Reviewing /\ reviewLock = t =>
                reviewLock' = t /\ items'[Head(k.todo)].status \in {"pending", "claimed"}
        BY <1>2, <3>1 DEF DecisionSound
      <3> QED
        BY <1>8, <1>10, <3>1, <3>2, DecisionGrows
    <2>4. UNCHANGED <<items, reviewLock>>
      BY <1>2
    <2> QED
      BY <1>2, <1>8, <1>10, <2>1, <2>2, <2>3, <2>4, NothingTaken, JobsStep
  <1>12. RegistryTypeOK'
    BY <1>1, <1>2, <1>5, <1>7, <1>11 DEF RegistryInv, RegistryTypeOK
  <1>13. StoresInv'
    BY <1>2, <1>7 DEF RegistryInv, StoresInv
  <1>14. BehindInv'
    <2>1. \A u \in Threads : job'[u] = IF u = t THEN k ELSE job[u]
      BY <1>2 DEF RegistryInv, RegistryTypeOK
    <2>2. \A cs : Behind(k, cs, raced')
      BY <1>9, <1>10 DEF Behind
    <2>3. \A u \in Threads : \A cs : Behind(job[u], cs, raced) => Behind(job[u], cs, raced')
      BY <1>5 DEF Behind
    <2>4. j.pc \in Reviewing \ {"copy"} /\ k.snapshot = job[t].snapshot
      BY <1>2, <1>10 DEF Reviewing, j
    <2> QED
      BY <1>7, <2>1, <2>2, <2>3, <2>4 DEF RegistryInv, BehindInv, j
  <1> QED
    BY <1>11, <1>12, <1>13, <1>14 DEF RegistryInv


\* A promotion saves an alias of an entity that is there.
LEMMA DecisionAliasStep ==
    ASSUME RegistryInv, NEW t \in Threads, DecisionAlias(t)
    PROVE  RegistryInv'
  <1> DEFINE j == job[t]
             a == [entity |-> j.case.selected, text |-> MentionOf[Head(j.todo)], type |-> j.promotes]
             k == [j EXCEPT !.pc = "terminal"]
  <1>1. /\ j \in Jobs /\ clock \in Nat /\ WorkSound(j, DOMAIN entities, clock)
        /\ DecisionSound(j, t, items, reviewLock, DOMAIN entities, clock)
    BY JobFacts
  <1>2. /\ j.pc = "alias" /\ aliases' = aliases \cup {a} /\ job' = [job EXCEPT ![t] = k]
        /\ UNCHANGED <<entities, refs, cases, items, reviewLock, clock, raced>>
    BY DEF DecisionAlias, At, Current
  <1> HIDE DEF j
  <1>3. j.promotes = "short_name" /\ j.case.selected \in DOMAIN entities
    BY <1>1, <1>2 DEF DecisionSound, Reviewing, Jobs
  <1>4. a \in AllAliases /\ a.entity \in DOMAIN entities
    <2>1. Head(j.todo) \in References
      BY <1>1, <1>2, TailType DEF WorkSound, Reviewing
    <2>2. j.case.selected \in EntityIds
      BY <1>3 DEF RegistryInv, RegistryTypeOK
    <2>3. <<j.case.selected, Head(j.todo)>> \in EntityIds \X References
      BY <2>1, <2>2
    <2>4. a \in PromotedAliases
      BY <1>3, <2>3 DEF PromotedAliases
    <2>5. a.entity = j.case.selected
      OBVIOUS
    <2> HIDE DEF a
    <2>6. a \in AllAliases
      BY <2>4 DEF AllAliases
    <2> QED
      BY <1>3, <2>5, <2>6
  <1> HIDE DEF a
  <1>5. Grows(DOMAIN entities, DOMAIN entities', clock, clock', raced, raced')
    BY <1>1, <1>2 DEF Grows
  <1>6. k \in Jobs /\ k.pc = "terminal" /\ k.todo = j.todo /\ k.found = j.found /\ k.scores = j.scores
        /\ k.case = j.case /\ k.review = j.review /\ k.snapshot = j.snapshot /\ k.promotes = j.promotes
    BY <1>1 DEF Jobs, Pcs, Reviewing
  <1> HIDE DEF k
  <1>7. JobsInv' /\ job' \in [Threads -> Jobs]
    <2>1. WorkSound(k, DOMAIN entities', clock')
      BY <1>1, <1>2, <1>6 DEF WorkSound, Resolving, Queueing, Reviewing
    <2>2. ReviewSound(k, items', raced')
      BY <1>6, NextReview DEF Queueing
    <2>3. DecisionSound(k, t, items', reviewLock', DOMAIN entities', clock')
      BY <1>1, <1>2, <1>6 DEF DecisionSound, Reviewing
    <2>4. UNCHANGED <<items, reviewLock>>
      BY <1>2
    <2> QED
      BY <1>2, <1>5, <1>6, <2>1, <2>2, <2>3, <2>4, NothingTaken, JobsStep
  <1>8. RegistryTypeOK'
    BY <1>2, <1>4, <1>7 DEF RegistryInv, RegistryTypeOK
  <1>9. StoresInv'
    BY <1>2, <1>4 DEF RegistryInv, StoresInv, StoreSound
  <1>10. BehindInv'
    <2>1. \A u \in Threads : job'[u] = IF u = t THEN k ELSE job[u]
      BY <1>2 DEF RegistryInv, RegistryTypeOK
    <2>2. \A cs : Behind(k, cs, raced)
      BY <1>6 DEF Behind
    <2>3. job[t].pc \in Reviewing \ {"copy"} /\ k.snapshot = job[t].snapshot
      BY <1>2, <1>6 DEF Reviewing, j
    <2> QED
      BY <1>2, <2>1, <2>2, <2>3 DEF RegistryInv, BehindInv
  <1> QED
    BY <1>7, <1>8, <1>9, <1>10 DEF RegistryInv

\* A decision is over: the lock is free and the job forgotten.
LEMMA DecisionLeaves ==
    ASSUME RegistryInv, NEW t \in Threads, job[t].pc \in Reviewing,
           job' = [job EXCEPT ![t] = NoJob], reviewLock' = "free",
           UNCHANGED <<entities, clock>>, raced \subseteq raced',
           \A s \in References : items[s] # NoItem => items'[s] # NoItem,
           \A u \in Threads \ {t} : job[u].pc \in {"case", "queue"} =>
               items'[Head(job[u].todo)] = items[Head(job[u].todo)] \/ Head(job[u].todo) \in raced'
    PROVE  JobsInv' /\ job' \in [Threads -> Jobs]
  <1>1. clock \in Nat
    BY DEF RegistryInv, RegistryTypeOK
  <1>2. Grows(DOMAIN entities, DOMAIN entities', clock, clock', raced, raced')
    BY <1>1 DEF Grows
  <1>3. WorkSound(NoJob, DOMAIN entities', clock') /\ ReviewSound(NoJob, items', raced')
    BY <1>1, NoJobSound
  <1>4. DecisionSound(NoJob, t, items', reviewLock', DOMAIN entities', clock')
    BY NoJobType DEF DecisionSound, Reviewing
  <1>5. reviewLock = t
    BY DecidesAlone
  <1>6. \A u \in Threads \ {t} : job[u].pc \notin Reviewing
    BY <1>5, OthersIdle
  <1> QED
    BY <1>2, <1>3, <1>4, <1>6, NoJobType, JobsStep

\* The item becomes terminal and the lock is free.
LEMMA DecisionEndsStep ==
    ASSUME RegistryInv, NEW t \in Threads, DecisionEnds(t)
    PROVE  RegistryInv'
  <1> DEFINE r == Head(job[t].todo)
             st == IF job[t].case.selected = None THEN "rejected" ELSE "promoted"
  <1>1. /\ job[t].pc = "terminal" /\ items' = [items EXCEPT ![r].status = st] /\ reviewLock' = "free"
        /\ job' = [job EXCEPT ![t] = NoJob]
        /\ UNCHANGED <<entities, aliases, refs, cases, clock, raced>>
    BY DEF DecisionEnds, At, Current
  <1>2. job[t].pc \in Reviewing
    BY <1>1 DEF Reviewing
  <1>3. r \in References /\ items[r].status \in {"pending", "claimed"}
    BY <1>2, JobFacts, TailType DEF WorkSound, DecisionSound
  <1>4. st \in {"claimed", "rejected", "promoted"}
    OBVIOUS
  <1> HIDE DEF r, st
  <1>5. /\ items' \in [References -> ItemRows]
        /\ \A s \in References : items'[s].candidates = items[s].candidates
        /\ \A s \in References : items[s] # NoItem => items'[s] # NoItem
        /\ \A u \in Threads : job[u].pc \in {"case", "queue"} =>
              items'[Head(job[u].todo)] = items[Head(job[u].todo)] \/ Head(job[u].todo) \in raced
    BY <1>1, <1>3, <1>4, ItemMoves
  <1>6. JobsInv' /\ job' \in [Threads -> Jobs]
    BY <1>1, <1>2, <1>5, DecisionLeaves
  <1>7. RegistryTypeOK' /\ StoresInv'
    BY <1>1, <1>5, <1>6 DEF RegistryInv, RegistryTypeOK, StoresInv
  <1>8. BehindInv'
    BY <1>1, NoJobType, BehindStays DEF Reviewing
  <1> QED
    BY <1>6, <1>7, <1>8 DEF RegistryInv

\* A decision that is being undone goes on, with its lock and its copies.
LEMMA UndoneSound ==
    ASSUME RegistryInv, NEW t \in Threads, job[t].pc \in Reviewing \ {"copy"},
           NEW pc \in Reviewing \ {"copy", "audit", "alias"}, Undone(t, pc),
           UNCHANGED <<entities, items, reviewLock, clock, raced>>,
           \A u \in Threads : Behind(job[u], cases', raced)
    PROVE  JobsInv' /\ BehindInv' /\ job' \in [Threads -> Jobs]
  <1> DEFINE j == job[t]
             k == [j EXCEPT !.pc = pc]
  <1>1. /\ j \in Jobs /\ clock \in Nat /\ WorkSound(j, DOMAIN entities, clock)
        /\ DecisionSound(j, t, items, reviewLock, DOMAIN entities, clock)
    BY JobFacts
  <1>2. job' = [job EXCEPT ![t] = k] /\ j.pc \in Reviewing \ {"copy"}
    BY DEF Undone
  <1> HIDE DEF j
  <1>3. pc \in Pcs
    BY DEF Pcs
  <1>4. k \in Jobs /\ k.pc = pc /\ k.todo = j.todo /\ k.found = j.found /\ k.scores = j.scores
        /\ k.case = j.case /\ k.review = j.review /\ k.snapshot = j.snapshot /\ k.promotes = j.promotes
    BY <1>1, <1>3 DEF Jobs
  <1> HIDE DEF k
  <1>5. Grows(DOMAIN entities, DOMAIN entities', clock, clock', raced, raced')
    BY <1>1 DEF Grows
  <1>6. JobsInv' /\ job' \in [Threads -> Jobs]
    <2>1. WorkSound(k, DOMAIN entities', clock')
      BY <1>1, <1>2, <1>4 DEF WorkSound, Resolving, Queueing, Reviewing
    <2>2. ReviewSound(k, items', raced')
      BY <1>4, NextReview DEF Queueing, Reviewing
    <2>3. DecisionSound(k, t, items', reviewLock', DOMAIN entities', clock')
      BY <1>1, <1>2, <1>4 DEF DecisionSound
    <2> QED
      BY <1>2, <1>4, <1>5, <2>1, <2>2, <2>3, NothingTaken, JobsStep
  <1>7. BehindInv'
    <2>1. \A u \in Threads : job'[u] = IF u = t THEN k ELSE job[u]
      BY <1>2 DEF RegistryInv, RegistryTypeOK
    <2>2. \A cs : Behind(k, cs, raced)
      BY <1>4 DEF Behind, Reviewing
    <2>3. k.snapshot = job[t].snapshot
      BY <1>4 DEF j
    <2> QED
      BY <2>1, <2>2, <2>3 DEF RegistryInv, BehindInv
  <1> QED
    BY <1>6, <1>7

\* Its copies are of the repositories, and name what is there.
LEMMA CopiesSound ==
    ASSUME RegistryInv, NEW t \in Threads, job[t].pc \in Reviewing \ {"copy"}
    PROVE  LET s == job[t].snapshot
           IN  /\ s[1] \in [References -> RefRows] /\ s[2] \in [References -> CaseRows] /\ s[3] \subseteq AllAliases
               /\ StoreSound(s[1], s[2], s[3], DOMAIN entities, clock)
  BY JobFacts DEF DecisionSound, Copies

\* The aliases are gone.
LEMMA ClearAliasesStep ==
    ASSUME RegistryInv, NEW t \in Threads, ClearAliases(t)
    PROVE  RegistryInv'
  <1>1. /\ job[t].pc \in Reviewing \ {"copy"} /\ aliases' = {} /\ Undone(t, "refill_aliases")
        /\ UNCHANGED <<entities, refs, cases, items, reviewLock, clock, raced>>
    BY DEF ClearAliases, Deciding, Reviewing
  <1>2. JobsInv' /\ BehindInv' /\ job' \in [Threads -> Jobs]
    BY <1>1, UndoneSound, JobFacts DEF Reviewing
  <1> QED
    BY <1>1, <1>2 DEF RegistryInv, RegistryTypeOK, StoresInv, StoreSound

\* The copied ones are back, beside what was saved meanwhile.
LEMMA RefillAliasesStep ==
    ASSUME RegistryInv, NEW t \in Threads, RefillAliases(t)
    PROVE  RegistryInv'
  <1>1. /\ job[t].pc \in Reviewing \ {"copy"} /\ Undone(t, "clear_references")
        /\ aliases' \subseteq job[t].snapshot[3] \cup aliases
        /\ UNCHANGED <<entities, refs, cases, items, reviewLock, clock, raced>>
    BY DEF RefillAliases, At, Reviewing
  <1>2. JobsInv' /\ BehindInv' /\ job' \in [Threads -> Jobs]
    BY <1>1, UndoneSound, JobFacts DEF Reviewing
  <1>3. aliases' \subseteq AllAliases /\ \A a \in aliases' : a.entity \in DOMAIN entities
    BY <1>1, CopiesSound DEF StoreSound, RegistryInv, RegistryTypeOK, StoresInv
  <1> QED
    BY <1>1, <1>2, <1>3 DEF RegistryInv, RegistryTypeOK, StoresInv, StoreSound

\* The references are gone.
LEMMA ClearReferencesStep ==
    ASSUME RegistryInv, NEW t \in Threads, ClearReferences(t)
    PROVE  RegistryInv'
  <1>1. /\ job[t].pc \in Reviewing \ {"copy"} /\ Undone(t, "refill_references")
        /\ refs' = [r \in References |-> NoRow]
        /\ UNCHANGED <<entities, aliases, cases, items, reviewLock, clock, raced>>
    BY DEF ClearReferences, At, Deciding, Reviewing
  <1>2. JobsInv' /\ BehindInv' /\ job' \in [Threads -> Jobs]
    BY <1>1, UndoneSound, JobFacts DEF Reviewing
  <1>3. NoRow \in RefRows /\ NoRow.entity = None
    BY DEF NoRow, RefRows, Methods, Ids
  <1> QED
    BY <1>1, <1>2, <1>3 DEF RegistryInv, RegistryTypeOK, StoresInv, StoreSound

\* The copied ones are back, beside what was saved meanwhile.
LEMMA RefillReferencesStep ==
    ASSUME RegistryInv, NEW t \in Threads, RefillReferences(t)
    PROVE  RegistryInv'
  <1> DEFINE copy == job[t].snapshot[1]
  <1>1. /\ job[t].pc \in Reviewing \ {"copy"} /\ Undone(t, "clear_cases")
        /\ refs' = [r \in References |-> IF copy[r] # NoRow THEN copy[r] ELSE refs[r]]
        /\ UNCHANGED <<entities, aliases, cases, items, reviewLock, clock, raced>>
    BY DEF RefillReferences, At, Reviewing
  <1>2. JobsInv' /\ BehindInv' /\ job' \in [Threads -> Jobs]
    BY <1>1, UndoneSound, JobFacts DEF Reviewing
  <1>3. /\ copy \in [References -> RefRows]
        /\ \A r \in References : copy[r].entity \in DOMAIN entities \cup {None}
    BY <1>1, CopiesSound DEF StoreSound
  <1> HIDE DEF copy
  <1>4. /\ refs' \in [References -> RefRows]
        /\ \A r \in References : refs'[r].entity \in DOMAIN entities \cup {None}
    BY <1>1, <1>3 DEF RegistryInv, RegistryTypeOK, StoresInv, StoreSound
  <1> QED
    BY <1>1, <1>2, <1>4 DEF RegistryInv, RegistryTypeOK, StoresInv, StoreSound

\* The cases are gone.
LEMMA ClearCasesStep ==
    ASSUME RegistryInv, NEW t \in Threads, ClearCases(t)
    PROVE  RegistryInv'
  <1>1. /\ job[t].pc \in Reviewing \ {"copy"} /\ Undone(t, "refill_cases")
        /\ cases' = [r \in References |-> NoCase]
        /\ UNCHANGED <<entities, aliases, refs, items, reviewLock, clock, raced>>
    BY DEF ClearCases, At, Reviewing
  <1>2. NoCase \in CaseRows /\ NoCase.stamp = 0 /\ NoCase.selected = None /\ NoCase.candidates = {}
    BY DEF NoCase, CaseRows, Ids
  <1>3. ASSUME NEW u \in Threads PROVE Behind(job[u], cases', raced)
    <2>1. SUFFICES ASSUME job[u].pc \in {"save", "copy", "audit"},
                          job[u].case.stamp < cases'[Head(job[u].todo)].stamp
                   PROVE  FALSE
      BY DEF Behind
    <2>2. Head(job[u].todo) \in References /\ job[u].case.stamp \in Nat
      BY <2>1, JobFacts, TailType DEF WorkSound, Resolving, Reviewing, Jobs, CaseRows
    <2> QED
      BY <1>1, <1>2, <2>1, <2>2
  <1>4. JobsInv' /\ BehindInv' /\ job' \in [Threads -> Jobs]
    BY <1>1, <1>3, UndoneSound DEF Reviewing
  <1>5. clock \in Nat
    BY DEF RegistryInv, RegistryTypeOK
  <1> QED
    BY <1>1, <1>2, <1>4, <1>5 DEF RegistryInv, RegistryTypeOK, StoresInv, StoreSound

\* The copied ones are back, beside what was saved meanwhile, and the lock is free.
LEMMA RefillCasesStep ==
    ASSUME RegistryInv, NEW t \in Threads, RefillCases(t)
    PROVE  RegistryInv'
  <1> DEFINE copy == job[t].snapshot[2]
  <1>1. /\ job[t].pc \in Reviewing \ {"copy"}
        /\ cases' = [r \in References |-> IF cases[r].stamp > copy[r].stamp THEN cases[r] ELSE copy[r]]
        /\ reviewLock' = "free" /\ job' = [job EXCEPT ![t] = NoJob]
        /\ UNCHANGED <<entities, aliases, refs, items, clock, raced>>
    BY DEF RefillCases, At, Reviewing
  <1>2. JobsInv' /\ job' \in [Threads -> Jobs]
    BY <1>1, DecisionLeaves
  <1>3. /\ copy \in [References -> CaseRows]
        /\ \A r \in References : /\ {copy[r].selected} \cup copy[r].candidates \subseteq DOMAIN entities \cup {None}
                                 /\ copy[r].stamp <= clock
    BY <1>1, CopiesSound DEF StoreSound
  <1>4. \A u \in Threads : Behind(job[u], cases, raced) /\ Behind(job[u], copy, raced)
    BY <1>1 DEF RegistryInv, BehindInv
  <1> HIDE DEF copy
  <1>5. /\ cases' \in [References -> CaseRows]
        /\ \A r \in References : cases'[r] \in {cases[r], copy[r]}
    BY <1>1, <1>3 DEF RegistryInv, RegistryTypeOK
  <1>6. ASSUME NEW u \in Threads PROVE Behind(job[u], cases', raced)
    <2>1. SUFFICES ASSUME job[u].pc \in {"save", "copy", "audit"},
                          job[u].case.stamp < cases'[Head(job[u].todo)].stamp
                   PROVE  Head(job[u].todo) \in raced
      BY DEF Behind
    <2>2. Head(job[u].todo) \in References
      BY <2>1, JobFacts, TailType DEF WorkSound, Resolving, Reviewing
    <2> QED
      BY <1>4, <1>5, <2>1, <2>2 DEF Behind
  <1>7. RegistryTypeOK' /\ StoresInv'
    BY <1>1, <1>2, <1>3, <1>5 DEF RegistryInv, RegistryTypeOK, StoresInv, StoreSound
  <1>8. BehindInv'
    <2>1. \A u \in Threads : job'[u] = IF u = t THEN NoJob ELSE job[u]
      BY <1>1 DEF RegistryInv, RegistryTypeOK
    <2>2. NoJob.pc \notin Reviewing /\ \A cs : Behind(NoJob, cs, raced)
      BY NoJobType DEF Behind, Reviewing
    <2> QED
      BY <1>1, <1>6, <2>1, <2>2 DEF RegistryInv, BehindInv
  <1> QED
    BY <1>2, <1>7, <1>8 DEF RegistryInv

-----------------------------------------------------------------------------
(* The theorems                                                            *)

\* Nothing is stored and every thread is idle at the start.
LEMMA RegistryStarts == RegistryInit => RegistryInv
  <1> SUFFICES ASSUME RegistryInit PROVE RegistryInv
    OBVIOUS
  <1>1. NoCase \in CaseRows /\ NoItem \in ItemRows
    BY DEF NoCase, NoItem, CaseRows, ItemRows, Ids
  <1>2. \A t \in Threads : job[t] = NoJob
    BY DEF RegistryInit
  <1>3. NoJob \in Jobs /\ NoJob.pc = "idle"
    BY NoJobType
  <1>4. RegistryTypeOK
    BY <1>1, <1>3 DEF RegistryInit, RegistryTypeOK, RefRows, NoRow, Methods, Ids
  <1>5. StoresInv
    BY DEF RegistryInit, StoresInv, StoreSound, NoRow, NoCase, NoItem
  <1>6. JobsInv
    <2>1. WorkSound(NoJob, DOMAIN entities, clock) /\ ReviewSound(NoJob, items, raced)
      BY <1>4, NoJobSound DEF RegistryTypeOK
    <2>2. \A t \in Threads : DecisionSound(NoJob, t, items, reviewLock, DOMAIN entities, clock)
      BY <1>3 DEF DecisionSound, Reviewing
    <2> QED
      BY <1>2, <2>1, <2>2 DEF JobsInv
  <1>7. BehindInv
    BY <1>2, <1>3 DEF BehindInv, Behind, Reviewing
  <1> QED
    BY <1>4, <1>5, <1>6, <1>7 DEF RegistryInv

\* Every step keeps the invariant.
LEMMA RegistryStep == RegistryInv /\ [RegistryNext]_evars => RegistryInv'
  <1> SUFFICES ASSUME RegistryInv, [RegistryNext]_evars PROVE RegistryInv'
    OBVIOUS
  <1>1. CASE UNCHANGED evars
    BY <1>1 DEF evars, RegistryInv, RegistryTypeOK, StoresInv, JobsInv, BehindInv
  <1>2. CASE \E t \in Threads, s \in Snapshots : StartInitialization(t, s)
    BY <1>2, StartInitializationStep
  <1>3. CASE \E t \in Threads : SaveEntity(t) \/ SaveAliases(t)
    BY <1>3, SaveEntityStep, SaveAliasesStep
  <1>4. CASE \E t \in Threads, rs \in Batches, p \in BOOLEAN : StartBatch(t, rs, p)
    BY <1>4, StartBatchStep
  <1>5. CASE \E t \in Threads : Validate(t) \/ (\E f \in BOOLEAN : Collect(t, f))
    BY <1>5, ValidateStep, CollectStep
  <1>6. CASE \E t \in Threads, a \in AllReplies : Decide(t, a)
    BY <1>6, DecideStep
  <1>7. CASE \E t \in Threads : Save(t) \/ Answer(t) \/ (\E f \in BOOLEAN : Report(t, f))
    BY <1>7, SaveStep, AnswerStep, ReportStep
  <1>8. CASE \E t \in Threads, r \in References, old \in BOOLEAN : Register(t, r, old)
    BY <1>8, RegisterStep
  <1>9. CASE \E t \in Threads : EnqueueGet(t) \/ EnqueueFind(t) \/ EnqueueCase(t) \/ EnqueueSave(t)
    BY <1>9, EnqueueGetStep, EnqueueFindStep, EnqueueCaseStep, EnqueueSaveStep
  <1>10. CASE \E r \in References : Claim(r)
    BY <1>10, ClaimStep
  <1>11. CASE \E t \in Threads, r \in References, e \in EntityIds \cup {None}, p \in {"none", "short_name"} :
                 Submit(t, r, e, p)
    BY <1>11, SubmitStep
  <1>12. CASE \E t \in Threads : DecisionCopies(t) \/ DecisionAudit(t) \/ DecisionAlias(t) \/ DecisionEnds(t)
    BY <1>12, DecisionCopiesStep, DecisionAuditStep, DecisionAliasStep, DecisionEndsStep
  <1>13. CASE \E t \in Threads : ClearAliases(t) \/ RefillAliases(t) \/ ClearReferences(t) \/ RefillReferences(t)
                                  \/ ClearCases(t) \/ RefillCases(t)
    BY <1>13, ClearAliasesStep, RefillAliasesStep, ClearReferencesStep, RefillReferencesStep, ClearCasesStep,
       RefillCasesStep
  <1> QED
    BY <1>1, <1>2, <1>3, <1>4, <1>5, <1>6, <1>7, <1>8, <1>9, <1>10, <1>11, <1>12, <1>13 DEF RegistryNext

\* The invariant holds, for any number of threads, references and snapshots.
THEOREM RegistryInvariant == RegistrySpec => []RegistryInv
  BY RegistryStarts, RegistryStep, PTL DEF RegistrySpec

\* Between initializations, batches, reviews and rollbacks in any number of threads
\* no row names an entity that is not there, and a job that reports success has
\* queued every reference it left for review (batch.py, review.py, storage.py).
THEOREM RegistryIsSafe == RegistrySpec => []RegistrySafe
  <1>1. RegistryInv => RegistrySafe
    <2> SUFFICES ASSUME RegistryInv PROVE RegistrySafe
      OBVIOUS
    <2>1. NothingDangles
      BY DEF RegistryInv, StoresInv, StoreSound, NothingDangles
    <2>2. ReviewsAreQueued
      BY DEF RegistryInv, JobsInv, ReviewSound, ReviewsAreQueued, At, Queueing
    <2> QED
      BY <2>1, <2>2 DEF RegistrySafe
  <1> QED
    BY <1>1, RegistryInvariant, PTL

-----------------------------------------------------------------------------
(* References and cases agree                                              *)

\* A reference has the resolution its latest case selected, those in R apart.
Agree(rs, cs, R) == \A r \in References \ R : cs[r] # NoCase => rs[r].entity = cs[r].selected

\* The pcs of a decision that has its copies and has not begun to empty the
\* references.
Copied == {"audit", "alias", "terminal", "refill_aliases", "clear_references"}

\* How far a decision has undone the two repositories.
UndoSound(j, rs, cs, R) ==
    /\ j.pc = "copy" => \A r \in References \ R : j.snapshot[1][r] = rs[r]
    /\ j.pc \in Copied \cup Emptied => Agree(j.snapshot[1], j.snapshot[2], R)
    /\ j.pc = "refill_references" => \A r \in References \ R : rs[r] = NoRow
    /\ j.pc \in {"clear_cases", "refill_cases"} => \A r \in References \ R : rs[r] = j.snapshot[1][r]
    /\ j.pc = "refill_cases" => \A r \in References \ R : cs[r] = NoCase

AgreeInv ==
    /\ ~Restoring => Agree(refs, cases, raced \cup torn)
    /\ \A t \in Threads : UndoSound(job[t], refs, cases, raced \cup torn)

\* More exceptions change nothing.
LEMMA AgreeGrows ==
    ASSUME NEW R, NEW S, R \subseteq S
    PROVE  /\ \A rs, cs : Agree(rs, cs, R) => Agree(rs, cs, S)
           /\ \A j, rs, cs : UndoSound(j, rs, cs, R) => UndoSound(j, rs, cs, S)
  <1>1. \A rs, cs : Agree(rs, cs, R) => Agree(rs, cs, S)
    BY DEF Agree
  <1> QED
    BY <1>1 DEF UndoSound

\* A step that saves neither, and takes and empties no copy.
LEMMA AgreeRests ==
    ASSUME RegistryInv, AgreeInv, NEW t \in Threads, NEW j, job' = [job EXCEPT ![t] = j],
           UNCHANGED <<refs, cases>>, raced \subseteq raced', torn \subseteq torn',
           job[t].pc \notin Emptied,
           \/ j.pc \notin Reviewing
           \/ job[t].pc \in Copied /\ j.pc \in Copied /\ j.snapshot = job[t].snapshot
    PROVE  AgreeInv'
  <1>1. /\ \A u \in Threads : job'[u] = IF u = t THEN j ELSE job[u]
        /\ raced \cup torn \subseteq raced' \cup torn'
    BY DEF RegistryInv, RegistryTypeOK
  <1>2. j.pc \notin Emptied
    BY DEF Reviewing, Copied, Emptied
  <1>3. Restoring' = Restoring
    BY <1>1, <1>2 DEF Restoring
  <1>4. UndoSound(j, refs, cases, raced \cup torn)
    <2>1. CASE j.pc \notin Reviewing
      BY <2>1 DEF UndoSound, Reviewing, Copied, Emptied
    <2>2. CASE job[t].pc \in Copied /\ j.pc \in Copied /\ j.snapshot = job[t].snapshot
      BY <2>2 DEF AgreeInv, UndoSound, Copied, Emptied
    <2> QED
      BY <2>1, <2>2
  <1>5. \A u \in Threads : UndoSound(job'[u], refs, cases, raced \cup torn)
    BY <1>1, <1>4 DEF AgreeInv
  <1> QED
    BY <1>1, <1>3, <1>5, AgreeGrows DEF AgreeInv

\* One reference is saved with its case: unless it is overtaken, the two agree.
LEMMA SavedAgrees ==
    ASSUME RegistryInv, NEW r \in References, NEW case, NEW method, NEW R, NEW S, R \subseteq S,
           Saved(r, case, method), case.stamp < cases[r].stamp => r \in S,
           case.stamp \in Nat, Agree(refs, cases, R)
    PROVE  Agree(refs', cases', S)
  <1>1. refs \in [References -> RefRows] /\ cases \in [References -> CaseRows] /\ cases[r].stamp \in Nat
    BY DEF RegistryInv, RegistryTypeOK, CaseRows
  <1>2. ASSUME NEW s \in References \ S, cases'[s] # NoCase PROVE refs'[s].entity = cases'[s].selected
    <2>1. CASE s = r
      <3>1. refs'[s].entity = case.selected
        BY <1>1, <2>1 DEF Saved
      <3>2. ~ (cases[r].stamp > case.stamp)
        BY <1>1, <1>2, <2>1
      <3>3. cases'[s] = case
        BY <1>1, <2>1, <3>2 DEF Saved
      <3> QED
        BY <3>1, <3>3
    <2>2. CASE s # r
      <3>1. refs'[s] = refs[s] /\ cases'[s] = cases[s]
        BY <1>1, <2>2 DEF Saved
      <3> QED
        BY <1>2, <3>1 DEF Agree
    <2> QED
      BY <2>1, <2>2
  <1> QED
    BY <1>2 DEF Agree

\* A save beside the decisions: where one copies or undoes, the reference is torn.
LEMMA SaveAgrees ==
    ASSUME RegistryInv, AgreeInv, NEW t \in Threads, NEW r \in References, NEW case, NEW method,
           NEW j, job' = [job EXCEPT ![t] = j], j.pc \notin Reviewing, job[t].pc \notin Reviewing,
           Saved(r, case, method), raced \subseteq raced', torn' = Torn(r), case.stamp \in Nat,
           case.stamp < cases[r].stamp => r \in raced'
    PROVE  AgreeInv'
  <1> DEFINE R == raced \cup torn
             S == raced' \cup torn'
  <1>1. \A u \in Threads : job'[u] = IF u = t THEN j ELSE job[u]
    BY DEF RegistryInv, RegistryTypeOK
  <1>2. R \subseteq S
    BY DEF Torn
  <1>3. Restoring' = Restoring
    BY <1>1 DEF Restoring, Reviewing, Emptied
  <1>4. (~Restoring => Agree(refs, cases, R)) /\ \A u \in Threads : UndoSound(job[u], refs, cases, R)
    BY DEF AgreeInv
  <1>5. /\ Restoring => r \in S
        /\ \A u \in Threads : job[u].pc = "copy" => r \in S
    BY DEF Torn
  <1>6. case.stamp < cases[r].stamp => r \in S
    OBVIOUS
  <1> HIDE DEF R, S
  <1>7. ~Restoring => Agree(refs', cases', S)
    BY <1>2, <1>4, <1>6, SavedAgrees
  <1>8. \A s \in References : s # r => refs'[s] = refs[s] /\ cases'[s] = cases[s]
    BY DEF Saved, RegistryInv, RegistryTypeOK
  <1>9. ASSUME NEW u \in Threads PROVE UndoSound(job'[u], refs', cases', S)
    <2>1. CASE u = t
      BY <1>1, <2>1 DEF UndoSound, Reviewing, Copied, Emptied
    <2>2. CASE u # t /\ job[u].pc \in {"copy"} \cup Emptied
      <3>1. r \in S
        BY <1>5, <2>2 DEF Restoring
      <3>2. \A s \in References \ S : refs'[s] = refs[s] /\ cases'[s] = cases[s]
        BY <1>8, <3>1
      <3>3. UndoSound(job[u], refs, cases, S)
        BY <1>2, <1>4, AgreeGrows
      <3> QED
        BY <1>1, <2>2, <3>2, <3>3 DEF UndoSound
    <2>3. CASE u # t /\ job[u].pc \notin {"copy"} \cup Emptied
      <3>1. UndoSound(job[u], refs, cases, S)
        BY <1>2, <1>4, AgreeGrows
      <3> QED
        BY <1>1, <2>3, <3>1 DEF UndoSound, Emptied
    <2> QED
      BY <2>2, <2>1, <2>3
  <1> QED
    BY <1>3, <1>7, <1>9 DEF AgreeInv, R, S

\* While t decides alone, everything depends on its job.
LEMMA AloneAgrees ==
    ASSUME RegistryInv, AgreeInv, NEW t \in Threads, reviewLock \in {t, "free"}, NEW j,
           job' = [job EXCEPT ![t] = j], NEW R, R = raced' \cup torn',
           UndoSound(j, refs', cases', R),
           j.pc \notin Emptied => Agree(refs', cases', R)
    PROVE  AgreeInv'
  <1>1. \A u \in Threads : job'[u] = IF u = t THEN j ELSE job[u]
    BY DEF RegistryInv, RegistryTypeOK
  <1>2. \A u \in Threads \ {t} : job[u].pc \notin Reviewing
    BY OthersIdle
  <1>3. \A u \in Threads \ {t} : UndoSound(job[u], refs', cases', R)
    BY <1>2 DEF UndoSound, Reviewing, Copied, Emptied
  <1>4. ~Restoring' => j.pc \notin Emptied
    BY <1>1 DEF Restoring
  <1> QED
    BY <1>1, <1>3, <1>4 DEF AgreeInv

\* Nobody undoes anything while t has not begun to.
LEMMA AloneRestores ==
    ASSUME RegistryInv, NEW t \in Threads, reviewLock \in {t, "free"}, job[t].pc \notin Emptied
    PROVE  ~Restoring
  BY OthersIdle DEF Restoring, Reviewing, Emptied

\* A decision that starts copies the references as they are.
LEMMA SubmitAgrees ==
    ASSUME RegistryInv, AgreeInv, NEW t \in Threads, NEW r \in References, NEW e \in EntityIds \cup {None},
           NEW promote \in {"none", "short_name"}, Submit(t, r, e, promote)
    PROVE  AgreeInv'
  <1> DEFINE b == Busy("copy", <<r>>)
             k == [b EXCEPT !.method = IF e = None THEN "unresolved" ELSE "manual",
                            !.promotes = promote,
                            !.case = [stamp |-> clock + 1, selected |-> e,
                                      candidates |-> items[r].candidates \cup ({e} \ {None})],
                            !.snapshot = <<refs>>]
  <1>1. /\ reviewLock = "free" /\ job[t].pc \in {"idle", "done"} /\ job' = [job EXCEPT ![t] = k]
        /\ UNCHANGED <<refs, cases, raced, torn>>
    BY DEF Submit
  <1>2. k.pc = "copy" /\ k.snapshot[1] = refs
    BY DEF Busy, NoJob
  <1> HIDE DEF k
  <1>3. UndoSound(k, refs', cases', raced' \cup torn')
    BY <1>1, <1>2 DEF UndoSound, Copied, Emptied
  <1>4. Agree(refs', cases', raced' \cup torn')
    BY <1>1, AloneRestores DEF AgreeInv, Emptied
  <1> QED
    BY <1>1, <1>3, <1>4, AloneAgrees

\* The cases it copies then agree with the references it has copied.
LEMMA DecisionCopiesAgrees ==
    ASSUME RegistryInv, AgreeInv, NEW t \in Threads, DecisionCopies(t)
    PROVE  AgreeInv'
  <1> DEFINE R == raced \cup torn
             k == [job[t] EXCEPT !.pc = "audit", !.snapshot = <<@[1], cases, aliases>>]
  <1>1. /\ job[t].pc = "copy" /\ job' = [job EXCEPT ![t] = k]
        /\ UNCHANGED <<refs, cases, raced, torn>>
    BY DEF DecisionCopies, At
  <1>2. reviewLock = t
    BY <1>1, DecidesAlone DEF Reviewing
  <1>3. k.pc = "audit" /\ k.snapshot[1] = job[t].snapshot[1] /\ k.snapshot[2] = cases
    BY JobFacts DEF Jobs
  <1> HIDE DEF k
  <1>4. Agree(refs, cases, R)
    BY <1>1, <1>2, AloneRestores DEF AgreeInv, Emptied
  <1>5. \A r \in References \ R : job[t].snapshot[1][r] = refs[r]
    BY <1>1 DEF AgreeInv, UndoSound
  <1>6. Agree(k.snapshot[1], k.snapshot[2], R)
    BY <1>3, <1>4, <1>5 DEF Agree
  <1> HIDE DEF R
  <1>7. UndoSound(k, refs, cases, R)
    BY <1>3, <1>6 DEF UndoSound, Copied, Emptied
  <1> QED
    BY <1>1, <1>2, <1>4, <1>7, AloneAgrees DEF R

\* It saves its own reference and case.
LEMMA DecisionAuditAgrees ==
    ASSUME RegistryInv, AgreeInv, NEW t \in Threads, DecisionAudit(t)
    PROVE  AgreeInv'
  <1> DEFINE j == job[t]
             r == Head(j.todo)
             pc == IF j.promotes = "none" THEN "terminal" ELSE "alias"
             k == [j EXCEPT !.pc = pc]
             S == raced' \cup torn'
  <1>1. j.pc = "audit" /\ Saved(r, j.case, j.method) /\ job' = [job EXCEPT ![t] = k] /\ torn' = torn
        /\ raced' = IF Overtakes(t, r, j.case) THEN raced \cup {r} ELSE raced
    BY DEF DecisionAudit, At, Current
  <1>2. reviewLock = t
    BY <1>1, DecidesAlone DEF Reviewing
  <1>3. r \in References /\ j.case.stamp \in Nat /\ j \in Jobs
    BY <1>1, JobFacts, TailType DEF WorkSound, Reviewing, Jobs, CaseRows
  <1>4. j.case.stamp < cases[r].stamp => r \in raced
    BY <1>1, JobFacts DEF Behind
  <1>5. ~Restoring
    BY <1>1, <1>2, AloneRestores DEF Emptied
  <1>6. Agree(refs, cases, raced \cup torn) /\ UndoSound(j, refs, cases, raced \cup torn)
    BY <1>5 DEF AgreeInv
  <1> HIDE DEF r
  <1>7. raced \cup torn \subseteq S /\ (j.case.stamp < cases[r].stamp => r \in S)
    BY <1>1, <1>4
  <1>8. k.pc = pc /\ k.snapshot = j.snapshot /\ pc \in Copied
    BY <1>3 DEF Jobs, Copied
  <1> HIDE DEF j, k, pc, S
  <1>9. Agree(refs', cases', S)
    BY <1>1, <1>3, <1>6, <1>7, SavedAgrees
  <1>10. UndoSound(k, refs', cases', S)
    <2>1. Agree(j.snapshot[1], j.snapshot[2], S)
      BY <1>1, <1>6, <1>7, AgreeGrows DEF UndoSound, Copied
    <2> QED
      BY <1>8, <2>1 DEF UndoSound, Copied, Emptied
  <1> QED
    BY <1>1, <1>2, <1>9, <1>10, AloneAgrees DEF S

\* The references are emptied.
LEMMA ClearReferencesAgrees ==
    ASSUME RegistryInv, AgreeInv, NEW t \in Threads, ClearReferences(t)
    PROVE  AgreeInv'
  <1> DEFINE R == raced \cup torn
             k == [job[t] EXCEPT !.pc = "refill_references"]
  <1>1. /\ job[t].pc \in Copied /\ job' = [job EXCEPT ![t] = k] /\ refs' = [r \in References |-> NoRow]
        /\ UNCHANGED <<cases, raced, torn>>
    BY DEF ClearReferences, Undone, At, Deciding, Copied
  <1>2. reviewLock = t
    BY <1>1, DecidesAlone DEF Reviewing, Copied
  <1>3. k.pc = "refill_references" /\ k.snapshot = job[t].snapshot
    BY JobFacts DEF Jobs
  <1> HIDE DEF k
  <1>4. Agree(k.snapshot[1], k.snapshot[2], R)
    BY <1>1, <1>3 DEF AgreeInv, UndoSound
  <1> HIDE DEF R
  <1>5. UndoSound(k, refs', cases', R)
    BY <1>1, <1>3, <1>4 DEF UndoSound, Copied, Emptied
  <1>6. k.pc \in Emptied
    BY <1>3 DEF Emptied
  <1> QED
    BY <1>1, <1>2, <1>5, <1>6, AloneAgrees DEF R

\* They are as they were copied again.
LEMMA RefillReferencesAgrees ==
    ASSUME RegistryInv, AgreeInv, NEW t \in Threads, RefillReferences(t)
    PROVE  AgreeInv'
  <1> DEFINE R == raced \cup torn
             copy == job[t].snapshot[1]
             k == [job[t] EXCEPT !.pc = "clear_cases"]
  <1>1. /\ job[t].pc = "refill_references" /\ job' = [job EXCEPT ![t] = k]
        /\ refs' = [r \in References |-> IF copy[r] # NoRow THEN copy[r] ELSE refs[r]]
        /\ UNCHANGED <<cases, raced, torn>>
    BY DEF RefillReferences, Undone, At
  <1>2. reviewLock = t
    BY <1>1, DecidesAlone DEF Reviewing
  <1>3. k.pc = "clear_cases" /\ k.snapshot = job[t].snapshot
    BY JobFacts DEF Jobs
  <1> HIDE DEF k
  <1>4. Agree(k.snapshot[1], k.snapshot[2], R) /\ \A r \in References \ R : refs[r] = NoRow
    BY <1>1, <1>3 DEF AgreeInv, UndoSound, Emptied
  <1>5. \A r \in References \ R : refs'[r] = copy[r]
    BY <1>1, <1>4
  <1> HIDE DEF R
  <1>6. UndoSound(k, refs', cases', R)
    BY <1>3, <1>4, <1>5 DEF UndoSound, Copied, Emptied
  <1>7. k.pc \in Emptied
    BY <1>3 DEF Emptied
  <1> QED
    BY <1>1, <1>2, <1>6, <1>7, AloneAgrees DEF R

\* The cases are emptied.
LEMMA ClearCasesAgrees ==
    ASSUME RegistryInv, AgreeInv, NEW t \in Threads, ClearCases(t)
    PROVE  AgreeInv'
  <1> DEFINE R == raced \cup torn
             k == [job[t] EXCEPT !.pc = "refill_cases"]
  <1>1. /\ job[t].pc = "clear_cases" /\ job' = [job EXCEPT ![t] = k]
        /\ cases' = [r \in References |-> NoCase]
        /\ UNCHANGED <<refs, raced, torn>>
    BY DEF ClearCases, Undone, At
  <1>2. reviewLock = t
    BY <1>1, DecidesAlone DEF Reviewing
  <1>3. k.pc = "refill_cases" /\ k.snapshot = job[t].snapshot
    BY JobFacts DEF Jobs
  <1> HIDE DEF k
  <1>4. /\ Agree(k.snapshot[1], k.snapshot[2], R)
        /\ \A r \in References \ R : refs[r] = k.snapshot[1][r]
    BY <1>1, <1>3 DEF AgreeInv, UndoSound, Emptied
  <1> HIDE DEF R
  <1>5. UndoSound(k, refs', cases', R)
    BY <1>1, <1>3, <1>4 DEF UndoSound, Copied, Emptied
  <1>6. k.pc \in Emptied
    BY <1>3 DEF Emptied
  <1> QED
    BY <1>1, <1>2, <1>5, <1>6, AloneAgrees DEF R

\* Both are as they were copied, and agree.
LEMMA RefillCasesAgrees ==
    ASSUME RegistryInv, AgreeInv, NEW t \in Threads, RefillCases(t)
    PROVE  AgreeInv'
  <1> DEFINE R == raced \cup torn
             first == job[t].snapshot[1]
             copy == job[t].snapshot[2]
  <1>1. /\ job[t].pc = "refill_cases" /\ job' = [job EXCEPT ![t] = NoJob]
        /\ cases' = [r \in References |-> IF cases[r].stamp > copy[r].stamp THEN cases[r] ELSE copy[r]]
        /\ UNCHANGED <<refs, raced, torn>>
    BY DEF RefillCases, At
  <1>2. reviewLock = t /\ copy \in [References -> CaseRows]
    BY <1>1, DecidesAlone, CopiesSound DEF Reviewing
  <1>3. /\ Agree(first, copy, R)
        /\ \A r \in References \ R : refs[r] = first[r] /\ cases[r] = NoCase
    BY <1>1 DEF AgreeInv, UndoSound, Emptied
  <1> HIDE DEF first, copy
  <1>4. \A r \in References \ R : cases'[r] = copy[r]
    BY <1>1, <1>2, <1>3 DEF CaseRows, NoCase
  <1>5. Agree(refs', cases', R)
    BY <1>1, <1>3, <1>4 DEF Agree
  <1> HIDE DEF R
  <1>6. UndoSound(NoJob, refs', cases', R)
    BY NoJobType DEF UndoSound, Copied, Emptied
  <1> QED
    BY <1>1, <1>2, <1>5, <1>6, AloneAgrees DEF R

\* The steps of initializations and batches that save no resolution.
LEMMA ResolvingAgrees ==
    ASSUME RegistryInv, AgreeInv, NEW t \in Threads,
           \/ \E s \in Snapshots : StartInitialization(t, s)
           \/ \E rs \in Batches, p \in BOOLEAN : StartBatch(t, rs, p)
           \/ SaveEntity(t) \/ SaveAliases(t) \/ Validate(t) \/ Answer(t)
           \/ \E f \in BOOLEAN : Collect(t, f) \/ Report(t, f)
           \/ \E a \in AllReplies : Decide(t, a)
    PROVE  AgreeInv'
  <1>1. /\ job[t].pc \in {"idle", "done", "entities", "aliases", "validate", "collect", "decide", "report", "answer"}
        /\ UNCHANGED <<refs, cases, raced, torn>>
    BY DEF StartInitialization, StartBatch, SaveEntity, SaveAliases, Validate, Answer, Collect, Report, Decide, At
  <1>2. /\ job[t] \in Jobs /\ NoJob.pc = "idle" /\ NoJob \in Jobs
    BY JobFacts, NoJobType
  <1>3. /\ NoJob.pc \notin Reviewing /\ Advance(job[t]).pc \notin Reviewing
        /\ \A st : [NoJob EXCEPT !.status = st].pc \notin Reviewing
        /\ \A todo : Busy("entities", todo).pc = "entities" /\ Busy("aliases", todo).pc = "aliases"
        /\ \A todo, st, p : [Busy("validate", todo) EXCEPT !.status = st, !.public = p].pc \notin Reviewing
    BY <1>2 DEF Busy, Advance, NoJob, Reviewing
  <1>4. \E j : job' = [job EXCEPT ![t] = j] /\ j.pc \notin Reviewing
    <2>1. ASSUME NEW s \in Snapshots, StartInitialization(t, s)
          PROVE  \E j : job' = [job EXCEPT ![t] = j] /\ j.pc \notin Reviewing
      <3> DEFINE b == Busy(IF s = {} THEN "aliases" ELSE "entities", SetToSeq(s))
                 k == [b EXCEPT !.snapshot = s]
      <3>1. job' = [job EXCEPT ![t] = [NoJob EXCEPT !.status = "failed"]] \/ job' = [job EXCEPT ![t] = k]
        BY <2>1 DEF StartInitialization
      <3>2. k.pc \in {"aliases", "entities"}
        BY DEF Busy, NoJob
      <3> HIDE DEF k
      <3> QED
        BY <1>3, <3>1, <3>2 DEF Reviewing
    <2>2. ASSUME NEW rs \in Batches, NEW p \in BOOLEAN, StartBatch(t, rs, p)
          PROVE  \E j : job' = [job EXCEPT ![t] = j] /\ j.pc \notin Reviewing
      BY <1>3, <2>2 DEF StartBatch
    <2>3. CASE SaveEntity(t)
      <3> DEFINE k == [job[t] EXCEPT !.todo = Tail(@), !.pc = IF Len(job[t].todo) = 1 THEN "aliases" ELSE @]
      <3>1. job' = [job EXCEPT ![t] = k] /\ job[t].pc = "entities"
        BY <2>3 DEF SaveEntity, At
      <3>2. k.pc \in {"aliases", "entities"}
        BY <1>2, <3>1 DEF Jobs
      <3> HIDE DEF k
      <3> QED
        BY <3>1, <3>2 DEF Reviewing
    <2>4. CASE SaveAliases(t)
      BY <1>3, <2>4 DEF SaveAliases
    <2>5. CASE Validate(t)
      <3> DEFINE a == Advance(job[t])
                 r == Current(t)
                 k == [job[t] EXCEPT !.pc = "collect"]
                 m == [a EXCEPT !.errors = @ \cup {r}, !.review = @ \cup {r}]
      <3>1. job' = [job EXCEPT ![t] = k] \/ job' = [job EXCEPT ![t] = m]
        BY <2>5 DEF Validate
      <3>2. k.pc = "collect" /\ m.pc = a.pc
        BY <1>2 DEF Jobs, Advance, NoJob
      <3> HIDE DEF k, m
      <3> QED
        BY <1>3, <3>1, <3>2 DEF Reviewing
    <2>6. CASE Answer(t)
      <3> DEFINE k == [job[t] EXCEPT !.results = Tail(@)]
      <3>1. \/ job' = [job EXCEPT ![t] = [NoJob EXCEPT !.status = "failed"]]
            \/ job' = [job EXCEPT ![t] = [NoJob EXCEPT !.status = "completed"]]
            \/ job' = [job EXCEPT ![t] = k]
        BY <2>6 DEF Answer
      <3>2. k.pc = "answer"
        BY <1>2, <2>6 DEF Answer, At, Jobs
      <3> HIDE DEF k
      <3> QED
        BY <1>3, <3>1, <3>2 DEF Reviewing
    <2>7. ASSUME NEW f \in BOOLEAN, Collect(t, f)
          PROVE  \E j : job' = [job EXCEPT ![t] = j] /\ j.pc \notin Reviewing
      <3> DEFINE m == MentionOf[Current(t)]
                 k == [job[t] EXCEPT !.pc = "decide", !.found = DeterministicHits(m), !.scores = Scores(m, f),
                                     !.failed = f]
      <3>1. job' = [job EXCEPT ![t] = k]
        BY <2>7 DEF Collect
      <3>2. k.pc = "decide"
        BY <1>2 DEF Jobs
      <3> HIDE DEF k
      <3> QED
        BY <3>1, <3>2 DEF Reviewing
    <2>8. ASSUME NEW f \in BOOLEAN, Report(t, f)
          PROVE  \E j : job' = [job EXCEPT ![t] = j] /\ j.pc \notin Reviewing
      <3> DEFINE gs == Clusters(job[t].review)
                 k == [job[t] EXCEPT !.pc = "answer", !.groups = gs]
                 m == [job[t] EXCEPT !.pc = "enqueue", !.groups = gs, !.todo = SetToSeq(job[t].review), !.results = <<>>]
      <3>1. \/ \E st : job' = [job EXCEPT ![t] = [NoJob EXCEPT !.status = st]]
            \/ job' = [job EXCEPT ![t] = k]
            \/ job' = [job EXCEPT ![t] = m]
        BY <2>8 DEF Report
      <3>2. k.pc = "answer" /\ m.pc = "enqueue"
        BY <1>2 DEF Jobs
      <3> HIDE DEF k, m
      <3> QED
        BY <1>3, <3>1, <3>2 DEF Reviewing
    <2>9. ASSUME NEW a \in AllReplies, Decide(t, a)
          PROVE  \E j : job' = [job EXCEPT ![t] = j] /\ j.pc \notin Reviewing
      <3> DEFINE d == Decision(job[t].found, job[t].scores, job[t].failed, a)
                 k == [job[t] EXCEPT !.pc = "save", !.method = d.method,
                          !.case = [stamp |-> clock + 1, selected |-> d.entity,
                                    candidates |-> job[t].found \cup DOMAIN job[t].scores]]
      <3>1. job' = [job EXCEPT ![t] = k]
        BY <2>9 DEF Decide
      <3>2. k.pc = "save"
        BY <1>2 DEF Jobs
      <3> HIDE DEF k
      <3> QED
        BY <3>1, <3>2 DEF Reviewing
    <2> QED
      BY <2>1, <2>2, <2>3, <2>4, <2>5, <2>6, <2>7, <2>8, <2>9
  <1>5. job[t].pc \notin Emptied
    BY <1>1 DEF Emptied
  <1> QED
    BY <1>1, <1>4, <1>5, AgreeRests

\* Those of the review queue, and the steps of a decision before it empties the
\* references.
LEMMA QueueingAgrees ==
    ASSUME RegistryInv, AgreeInv, NEW t \in Threads,
           EnqueueGet(t) \/ EnqueueFind(t) \/ EnqueueCase(t) \/ EnqueueSave(t) \/ DecisionEnds(t)
    PROVE  AgreeInv'
  <1>1. /\ job[t].pc \in {"enqueue", "find", "case", "queue", "terminal"}
        /\ UNCHANGED <<refs, cases, torn>> /\ raced \subseteq raced'
    BY DEF EnqueueGet, EnqueueFind, EnqueueCase, EnqueueSave, DecisionEnds, At
  <1>2. /\ job[t] \in Jobs /\ NoJob.pc = "idle" /\ NoJob \in Jobs
    BY JobFacts, NoJobType
  <1>3. /\ Queued(job[t]).pc \notin Reviewing
        /\ [NoJob EXCEPT !.status = "failed"].pc \notin Reviewing
        /\ [job[t] EXCEPT !.pc = "find"].pc \notin Reviewing
        /\ [job[t] EXCEPT !.pc = "case"].pc \notin Reviewing
        /\ \A c : [job[t] EXCEPT !.pc = "queue", !.case = c].pc \notin Reviewing
    BY <1>2 DEF Queued, Reviewing, Jobs
  <1>4. \E j : job' = [job EXCEPT ![t] = j] /\ j.pc \notin Reviewing
    <2>1. CASE EnqueueGet(t)
      BY <1>3, <2>1 DEF EnqueueGet
    <2>2. CASE EnqueueFind(t)
      BY <1>3, <2>2 DEF EnqueueFind
    <2>3. CASE EnqueueCase(t)
      BY <1>3, <2>3 DEF EnqueueCase
    <2>4. CASE EnqueueSave(t)
      BY <1>3, <2>4 DEF EnqueueSave
    <2>5. CASE DecisionEnds(t)
      BY <1>2, <2>5 DEF DecisionEnds, Reviewing
    <2> QED
      BY <2>1, <2>2, <2>3, <2>4, <2>5
  <1>5. job[t].pc \notin Emptied
    BY <1>1 DEF Emptied
  <1> QED
    BY <1>1, <1>4, <1>5, AgreeRests

\* A decision saves an alias, or begins to put the aliases back.
LEMMA AliasesAgree ==
    ASSUME RegistryInv, AgreeInv, NEW t \in Threads, DecisionAlias(t) \/ ClearAliases(t) \/ RefillAliases(t)
    PROVE  AgreeInv'
  <1>1. /\ job[t].pc \in Copied /\ UNCHANGED <<refs, cases, raced, torn>>
        /\ \E pc \in Copied : job' = [job EXCEPT ![t].pc = pc]
    BY DEF DecisionAlias, ClearAliases, RefillAliases, Undone, At, Deciding, Copied
  <1>2. PICK pc \in Copied : job' = [job EXCEPT ![t].pc = pc]
    BY <1>1
  <1> DEFINE k == [job[t] EXCEPT !.pc = pc]
  <1>3. k.pc = pc /\ k.snapshot = job[t].snapshot
    BY JobFacts DEF Jobs
  <1>4. job' = [job EXCEPT ![t] = k]
    BY <1>2
  <1>5. job[t].pc \notin Emptied
    BY <1>1 DEF Copied, Emptied
  <1> HIDE DEF k
  <1> QED
    BY <1>1, <1>3, <1>4, <1>5, AgreeRests

\* A batch saves a resolution, or a reference is registered.
LEMMA SavesAgree ==
    ASSUME RegistryInv, AgreeInv, NEW t \in Threads,
           Save(t) \/ \E r \in References, old \in BOOLEAN : Register(t, r, old)
    PROVE  AgreeInv'
  <1>1. CASE Save(t)
    <2> DEFINE r == Head(job[t].todo)
               k == [Advance(job[t]) EXCEPT !.results = Append(@, <<r, job[t].case.selected>>),
                                            !.review = IF job[t].case.selected = None THEN @ \cup {r} ELSE @]
    <2>1. /\ job[t].pc = "save" /\ Saved(r, job[t].case, job[t].method) /\ job' = [job EXCEPT ![t] = k]
          /\ raced \subseteq raced' /\ torn' = Torn(r)
      BY <1>1 DEF Save, At, Current
    <2>2. r \in References /\ job[t].case.stamp \in Nat
      BY <2>1, JobFacts, TailType DEF WorkSound, Resolving, Jobs, CaseRows
    <2>3. job[t].case.stamp < cases[r].stamp => r \in raced'
      BY <2>1, JobFacts DEF Behind
    <2>4. k.pc \notin Reviewing /\ job[t].pc \notin Reviewing
      BY <2>1 DEF Advance, NoJob, Reviewing
    <2> HIDE DEF k, r
    <2> QED
      BY <2>1, <2>2, <2>3, <2>4, SaveAgrees
  <1>2. ASSUME NEW r \in References, NEW old \in BOOLEAN, Register(t, r, old) PROVE AgreeInv'
    <2> DEFINE c == [NoCase EXCEPT !.stamp = IF old THEN 1 ELSE clock + 1]
    <2>1. /\ job[t].pc \in {"idle", "done"} /\ Saved(r, c, "unresolved") /\ job' = job /\ torn' = Torn(r)
          /\ raced' = IF c.stamp < cases[r].stamp \/ Overtakes(t, r, c) THEN raced \cup {r} ELSE raced
      BY <1>2 DEF Register
    <2>2. c.stamp \in Nat
      BY JobFacts DEF NoCase
    <2>3. job' = [job EXCEPT ![t] = job[t]] /\ job[t].pc \notin Reviewing
      BY <2>1 DEF RegistryInv, RegistryTypeOK, Reviewing
    <2> HIDE DEF c
    <2>4. raced \subseteq raced' /\ (c.stamp < cases[r].stamp => r \in raced')
      BY <2>1
    <2> QED
      BY <2>1, <2>2, <2>3, <2>4, SaveAgrees
  <1> QED
    BY <1>1, <1>2

\* Nothing is stored at the start.
LEMMA AgreeStarts == RegistryInit => AgreeInv
  <1> SUFFICES ASSUME RegistryInit PROVE AgreeInv
    OBVIOUS
  <1>1. Agree(refs, cases, raced \cup torn)
    BY DEF RegistryInit, Agree
  <1>2. \A t \in Threads : UndoSound(job[t], refs, cases, raced \cup torn)
    BY NoJobType DEF RegistryInit, UndoSound, Copied, Emptied
  <1> QED
    BY <1>1, <1>2 DEF AgreeInv

\* Every step keeps the agreement.
LEMMA AgreeStep == RegistryInv /\ AgreeInv /\ [RegistryNext]_evars => AgreeInv'
  <1> SUFFICES ASSUME RegistryInv, AgreeInv, [RegistryNext]_evars PROVE AgreeInv'
    OBVIOUS
  <1>1. CASE UNCHANGED evars
    BY <1>1 DEF evars, AgreeInv, Restoring
  <1>2. CASE \/ \E t \in Threads, s \in Snapshots : StartInitialization(t, s)
             \/ \E t \in Threads : SaveEntity(t) \/ SaveAliases(t)
             \/ \E t \in Threads, rs \in Batches, p \in BOOLEAN : StartBatch(t, rs, p)
             \/ \E t \in Threads : Validate(t) \/ (\E f \in BOOLEAN : Collect(t, f))
             \/ \E t \in Threads, a \in AllReplies : Decide(t, a)
             \/ \E t \in Threads : Answer(t) \/ (\E f \in BOOLEAN : Report(t, f))
    BY <1>2, ResolvingAgrees
  <1>3. CASE \/ \E t \in Threads : Save(t)
             \/ \E t \in Threads, r \in References, old \in BOOLEAN : Register(t, r, old)
    BY <1>3, SavesAgree
  <1>4. CASE \E t \in Threads : EnqueueGet(t) \/ EnqueueFind(t) \/ EnqueueCase(t) \/ EnqueueSave(t) \/ DecisionEnds(t)
    BY <1>4, QueueingAgrees
  <1>5. CASE \E r \in References : Claim(r)
    BY <1>5 DEF Claim, AgreeInv, Restoring
  <1>6. CASE \E t \in Threads, r \in References, e \in EntityIds \cup {None}, p \in {"none", "short_name"} :
                 Submit(t, r, e, p)
    BY <1>6, SubmitAgrees
  <1>7. CASE \E t \in Threads : DecisionCopies(t) \/ DecisionAudit(t)
    BY <1>7, DecisionCopiesAgrees, DecisionAuditAgrees
  <1>8. CASE \E t \in Threads : DecisionAlias(t) \/ ClearAliases(t) \/ RefillAliases(t)
    BY <1>8, AliasesAgree
  <1>9. CASE \E t \in Threads : ClearReferences(t) \/ RefillReferences(t) \/ ClearCases(t) \/ RefillCases(t)
    BY <1>9, ClearReferencesAgrees, RefillReferencesAgrees, ClearCasesAgrees, RefillCasesAgrees
  <1> QED
    BY <1>1, <1>2, <1>3, <1>4, <1>5, <1>6, <1>7, <1>8, <1>9 DEF RegistryNext

\* A reference has the resolution its latest case selected, whenever no decision
\* is being undone, unless one save has overtaken an older one, or came between
\* the steps of a decision that copied or restored the two repositories
\* (storage.py save_resolution, _decision_rollback).
THEOREM RecordsAgree == RegistrySpec => []RecordsAgreeUnlessRaced
  <1>1. RegistrySpec => []AgreeInv
    <2>1. RegistryInv /\ AgreeInv /\ [RegistryNext]_evars => AgreeInv'
      BY AgreeStep
    <2> QED
      BY <2>1, AgreeStarts, RegistryInvariant, PTL DEF RegistrySpec
  <1>2. AgreeInv => RecordsAgreeUnlessRaced
    BY DEF AgreeInv, Agree, RecordsAgreeUnlessRaced
  <1> QED
    BY <1>1, <1>2, PTL


\* Items change where one is queued, claimed or decided.
LEMMA ItemChanges ==
    ASSUME RegistryNext
    PROVE  \/ UNCHANGED items
           \/ \E t \in Threads : EnqueueSave(t) \/ DecisionEnds(t)
           \/ \E r \in References : Claim(r)
  BY DEF RegistryNext, StartInitialization, SaveEntity, SaveAliases, StartBatch, Validate, Collect, Decide,
         Save, Answer, Report, Register, EnqueueGet, EnqueueFind, EnqueueCase, Submit, DecisionCopies,
         DecisionAudit, DecisionAlias, ClearAliases, RefillAliases, ClearReferences, RefillReferences,
         ClearCases, RefillCases

\* A review item is decided once, unless two jobs queued its reference at once
\* (review.py enqueue_unresolved_reference, storage.py complete_decision).
THEOREM ItemsAreDecidedOnce == RegistrySpec => DecidedOnceUnlessRaced
  <1>1. RegistryInv /\ [RegistryNext]_evars =>
            [\A r \in References : items[r].status \in Terminal /\ r \notin raced' => items'[r] = items[r]]_evars
    <2> SUFFICES ASSUME RegistryInv, RegistryNext, NEW r \in References,
                        items[r].status \in Terminal, r \notin raced'
                 PROVE  items'[r] = items[r]
      OBVIOUS
    <2>1. items \in [References -> ItemRows]
      BY DEF RegistryInv, RegistryTypeOK
    <2>2. items[r] # NoItem
      BY DEF NoItem, Terminal
    <2>3. ASSUME NEW t \in Threads, EnqueueSave(t) PROVE items'[r] = items[r]
      <3>1. job[t].pc = "queue" /\ raced \subseteq raced'
        BY <2>3 DEF EnqueueSave, At
      <3>2. items[Head(job[t].todo)] # NoItem => Head(job[t].todo) \in raced
        BY <3>1, JobFacts DEF ReviewSound
      <3>3. Head(job[t].todo) # r
        BY <2>2, <3>1, <3>2
      <3> QED
        BY <2>1, <2>3, <3>3 DEF EnqueueSave, Current
    <2>4. ASSUME NEW t \in Threads, DecisionEnds(t) PROVE items'[r] = items[r]
      <3>1. job[t].pc \in Reviewing
        BY <2>4 DEF DecisionEnds, At, Reviewing
      <3>2. items[Head(job[t].todo)].status \in {"pending", "claimed"}
        BY <3>1, JobFacts DEF DecisionSound
      <3>3. Head(job[t].todo) # r
        BY <3>2 DEF Terminal
      <3> QED
        BY <2>1, <2>4, <3>3 DEF DecisionEnds, Current
    <2>5. ASSUME NEW s \in References, Claim(s) PROVE items'[r] = items[r]
      <3>1. s # r
        BY <2>5 DEF Claim, Terminal
      <3> QED
        BY <2>1, <2>5, <3>1 DEF Claim
    <2> QED
      BY <2>3, <2>4, <2>5, ItemChanges
  <1> QED
    BY <1>1, RegistryInvariant, PTL DEF RegistrySpec, DecidedOnceUnlessRaced

-----------------------------------------------------------------------------
(* Graph reads: the order of rows                                          *)

\* A set of naturals has a least one.
LEMMA LeastNat == ASSUME NEW S \in SUBSET Nat, S # {} PROVE \E m \in S : \A k \in S : m <= k
  <1>1. PICK m \in S : \A k \in S : <<k, m>> \notin OpToRel(<, Nat)
    BY NatLessThanWellFounded, WFMin
  <1>2. \A k \in S : ~(k < m)
    BY <1>1 DEF OpToRel
  <1> QED
    BY <1>2

\* What holds at 0 and goes on by one holds up to n.
LEMMA CountUp ==
    ASSUME NEW n \in Nat, NEW A, 0 \in A, \A i \in 1..n : i - 1 \in A => i \in A
    PROVE  \A i \in 0..n : i \in A
  <1> DEFINE S == {i \in 0..n : i \notin A}
  <1> SUFFICES ASSUME S # {} PROVE FALSE
    OBVIOUS
  <1>1. PICK m \in S : \A k \in S : m <= k
    <2>1. S \in SUBSET Nat
      OBVIOUS
    <2> HIDE DEF S
    <2> QED
      BY <2>1, LeastNat
  <1>2. m \in 1..n /\ m - 1 \notin S
    BY <1>1
  <1> QED
    BY <1>1, <1>2

\* Two different tuples of numbers are ordered, by the first place where they differ.
LEMMA BeforeTotal ==
    ASSUME NEW m \in Nat, NEW a \in [1..m -> Int], NEW b \in [1..m -> Int], a # b
    PROVE  Before(a, b) \/ Before(b, a)
  <1> DEFINE D == {i \in 1..m : a[i] # b[i]}
  <1>1. D # {} /\ D \in SUBSET Nat
    OBVIOUS
  <1> HIDE DEF D
  <1>2. PICK i \in D : \A k \in D : i <= k
    BY <1>1, LeastNat
  <1>3. i \in 1..m /\ a[i] # b[i] /\ a[i] \in Int /\ b[i] \in Int
    BY <1>2 DEF D
  <1>4. \A j \in 1..(i - 1) : a[j] = b[j]
    <2> SUFFICES ASSUME NEW j \in 1..(i - 1), a[j] # b[j] PROVE FALSE
      OBVIOUS
    <2>1. j \in 1..m /\ j < i
      BY <1>3
    <2>2. j \in D
      BY <2>1 DEF D
    <2> QED
      BY <1>2, <1>3, <2>1, <2>2
  <1>5. a[i] < b[i] \/ b[i] < a[i]
    BY <1>3
  <1> QED
    BY <1>3, <1>4, <1>5 DEF Before

\* Before is a strict order.
LEMMA BeforeTransitive ==
    ASSUME NEW m \in Nat, NEW a \in [1..m -> Int], NEW b \in [1..m -> Int], NEW c \in [1..m -> Int],
           Before(a, b), Before(b, c)
    PROVE  Before(a, c)
  <1>1. PICK i \in 1..m : a[i] < b[i] /\ \A j \in 1..(i - 1) : a[j] = b[j]
    BY DEF Before
  <1>2. PICK k \in 1..m : b[k] < c[k] /\ \A j \in 1..(k - 1) : b[j] = c[j]
    BY DEF Before
  <1> DEFINE l == IF i <= k THEN i ELSE k
  <1>3. l \in 1..m
    BY <1>1, <1>2
  <1>4. a[l] < c[l]
    <2>1. CASE i < k
      <3>1. i \in 1..(k - 1)
        BY <1>1, <1>2, <2>1
      <3> QED
        BY <1>1, <1>2, <2>1, <3>1
    <2>2. CASE i = k
      <3>1. a[i] \in Int /\ b[i] \in Int /\ c[i] \in Int
        BY <1>1
      <3> QED
        BY <1>1, <1>2, <2>2, <3>1
    <2>3. CASE k < i
      <3>1. k \in 1..(i - 1)
        BY <1>1, <1>2, <2>3
      <3> QED
        BY <1>1, <1>2, <2>3, <3>1
    <2> QED
      BY <1>1, <1>2, <2>1, <2>2, <2>3
  <1>5. ASSUME NEW j \in 1..(l - 1) PROVE a[j] = c[j]
    <2>1. j \in 1..(i - 1) /\ j \in 1..(k - 1)
      BY <1>1, <1>2
    <2> QED
      BY <1>1, <1>2, <2>1
  <1> HIDE DEF l
  <1> QED
    BY <1>3, <1>4, <1>5 DEF Before

\* A finite set with keys of its own is sorted into a sequence that holds each
\* member once.
LEMMA SortedIs ==
    ASSUME NEW S, IsFiniteSet(S), NEW m \in Nat, NEW key \in [S -> [1..m -> Int]],
           \A x, y \in S : key[x] = key[y] => x = y
    PROVE  /\ Sorted(S, key) \in Seq(S) /\ Len(Sorted(S, key)) = Cardinality(S)
           /\ Cardinality(S) \in Nat
           /\ ToSet(Sorted(S, key)) = S
  <1> DEFINE Below(t) == {u \in S : Before(key[u], key[t])}
             n == Cardinality(S)
             rank == [t \in S |-> Cardinality(Below(t)) + 1]
  <1>0. /\ \A t \in S : ~Before(key[t], key[t])
        /\ \A t, u \in S : t = u \/ Before(key[t], key[u]) \/ Before(key[u], key[t])
        /\ \A t, u, v \in S : Before(key[t], key[u]) /\ Before(key[u], key[v]) => Before(key[t], key[v])
    <2>1. \A t \in S : key[t] \in [1..m -> Int]
      OBVIOUS
    <2>2. \A t \in S : ~Before(key[t], key[t])
      <3> SUFFICES ASSUME NEW t \in S, Before(key[t], key[t]) PROVE FALSE
        OBVIOUS
      <3>1. PICK i \in 1..m : key[t][i] < key[t][i]
        BY <2>1 DEF Before
      <3>2. key[t][i] \in Int
        BY <2>1
      <3> QED
        BY <3>1, <3>2
    <2> QED
      BY <2>1, <2>2, BeforeTotal, BeforeTransitive
  <1>1. n \in Nat
    BY FS_CardinalityType
  <1>2. \A t \in S : IsFiniteSet(Below(t)) /\ Cardinality(Below(t)) \in Nat /\ Cardinality(Below(t)) < n
    <2> SUFFICES ASSUME NEW t \in S PROVE IsFiniteSet(Below(t)) /\ Cardinality(Below(t)) \in Nat /\ Cardinality(Below(t)) < n
      OBVIOUS
    <2>1. Below(t) \in SUBSET S /\ Below(t) # S
      BY <1>0
    <2>2. IsFiniteSet(Below(t)) /\ Cardinality(Below(t)) <= n /\ n # Cardinality(Below(t))
      BY <2>1, FS_Subset
    <2>3. Cardinality(Below(t)) \in Nat
      BY <2>2, FS_CardinalityType
    <2> QED
      BY <1>1, <2>2, <2>3
  <1>3. \A t, u \in S : Before(key[t], key[u]) => Cardinality(Below(t)) < Cardinality(Below(u))
    <2> SUFFICES ASSUME NEW t \in S, NEW u \in S, Before(key[t], key[u]) PROVE Cardinality(Below(t)) < Cardinality(Below(u))
      OBVIOUS
    <2>1. Below(t) \in SUBSET Below(u) /\ Below(t) # Below(u)
      BY <1>0
    <2>2. Cardinality(Below(t)) <= Cardinality(Below(u)) /\ Cardinality(Below(u)) # Cardinality(Below(t))
      BY <1>2, <2>1, FS_Subset
    <2>3. Cardinality(Below(t)) \in Nat /\ Cardinality(Below(u)) \in Nat
      BY <1>2
    <2> HIDE DEF Below
    <2> QED
      BY <2>2, <2>3
  <1>s. Sorted(S, key) = [i \in 1..n |-> CHOOSE x \in S : Cardinality(Below(x)) = i - 1]
    BY DEF Sorted
  <1> HIDE DEF Below
  <1>4. rank \in [S -> 1..n]
    BY <1>1, <1>2
  <1>5. \A t, u \in S : rank[t] = rank[u] => t = u
    <2> SUFFICES ASSUME NEW t \in S, NEW u \in S, rank[t] = rank[u], t # u PROVE FALSE
      OBVIOUS
    <2>1. Cardinality(Below(t)) \in Nat /\ Cardinality(Below(u)) \in Nat
      BY <1>2
    <2>2. Cardinality(Below(t)) = Cardinality(Below(u))
      BY <2>1
    <2>3. Cardinality(Below(t)) < Cardinality(Below(u)) \/ Cardinality(Below(u)) < Cardinality(Below(t))
      BY <1>0, <1>3
    <2> QED
      BY <2>1, <2>2, <2>3
  <1>6. rank \in Injection(S, 1..n)
    BY <1>4, <1>5 DEF Injection, IsInjective
  <1>7. IsFiniteSet(1..n) /\ Cardinality(1..n) = n
    BY <1>1, FS_Interval
  <1>8. rank \in Surjection(S, 1..n)
    <2> HIDE DEF rank
    <2> QED
      BY <1>6, <1>7, FS_Injection
  <1>9. \A i \in 1..n : \E t \in S : rank[t] = i
    BY <1>8 DEF Surjection
  <1>10. \A i \in 1..n : \E t \in S : Cardinality(Below(t)) = i - 1
    <2> SUFFICES ASSUME NEW i \in 1..n PROVE \E t \in S : Cardinality(Below(t)) = i - 1
      OBVIOUS
    <2>1. PICK t \in S : rank[t] = i
      BY <1>9
    <2>2. Cardinality(Below(t)) \in Nat
      BY <1>2
    <2> QED
      BY <2>1, <2>2
  <1> DEFINE s == Sorted(S, key)
  <1>11. DOMAIN s = 1..n /\ \A i \in 1..n : s[i] \in S /\ Cardinality(Below(s[i])) = i - 1
    BY <1>s, <1>10
  <1> HIDE DEF s
  <1>12. s \in [1..n -> S]
    BY <1>s, <1>11 DEF s
  <1>13. s \in Seq(S) /\ Len(s) = n
    BY <1>1, <1>12
  <1>14. ASSUME NEW x \in S PROVE x \in ToSet(s)
    <2> DEFINE i == rank[x]
    <2>1. i \in 1..n /\ Cardinality(Below(x)) \in Nat /\ i = Cardinality(Below(x)) + 1
      BY <1>2, <1>4
    <2>2. s[i] \in S /\ Cardinality(Below(s[i])) = i - 1
      BY <1>11, <2>1
    <2>3. rank[s[i]] = rank[x]
      BY <2>1, <2>2
    <2>4. s[i] = x
      BY <1>5, <2>2, <2>3
    <2> HIDE DEF i
    <2> QED
      BY <1>11, <2>1, <2>4 DEF ToSet
  <1>15. ToSet(s) \subseteq S
    BY <1>11 DEF ToSet
  <1> QED
    BY <1>1, <1>13, <1>14, <1>15 DEF s

\* The first n of a sequence, all of them when they are no more.
LEMMA TakeIs ==
    ASSUME NEW S, NEW s \in Seq(S), NEW n \in Nat
    PROVE  /\ Take(s, n) \in Seq(S) /\ Len(Take(s, n)) <= n /\ Len(Take(s, n)) \in Nat
           /\ Len(Take(s, n)) = IF n < Len(s) THEN n ELSE Len(s)
           /\ ToSet(Take(s, n)) \subseteq ToSet(s)
           /\ Len(s) <= n => Take(s, n) = s
  <1> DEFINE l == Len(s)
             k == IF n < l THEN n ELSE l
             t == Take(s, n)
  <1>1. l \in Nat /\ DOMAIN s = 1..l
    OBVIOUS
  <1> HIDE DEF l
  <1>2. k \in Nat /\ k <= n /\ k <= l /\ (l <= n => k = l)
    BY <1>1
  <1>3. t = SubSeq(s, 1, k)
    BY DEF Take, Smaller, l
  <1> HIDE DEF k, t, l
  <1>4. t \in Seq(S) /\ Len(t) = k /\ \A i \in 1..k : t[i] = s[i]
    <2>1. \A i \in 1..k : i \in 1..l /\ s[i] \in S
      BY <1>1, <1>2
    <2> DEFINE u == SubSeq(s, 1, k)
    <2>2. u \in Seq(S)
      BY <2>1, SubSeqProperties, <1>2
    <2>3. Len(u) = k /\ \A i \in 1..k : u[i] = s[i]
      BY <1>1, <1>2, <2>1, SubSeqProperties
    <2> QED
      BY <1>3, <2>2, <2>3
  <1>5. ToSet(t) \subseteq ToSet(s)
    <2> SUFFICES ASSUME NEW x \in ToSet(t) PROVE x \in ToSet(s)
      OBVIOUS
    <2>1. PICK i \in DOMAIN t : x = t[i]
      BY DEF ToSet
    <2>2. DOMAIN t = 1..k
      BY <1>4
    <2>3. i \in 1..k /\ i \in DOMAIN s
      BY <1>1, <1>2, <2>1, <2>2
    <2> QED
      BY <1>4, <2>1, <2>3 DEF ToSet
  <1>6. l <= n => t = s
    <2> SUFFICES ASSUME l <= n PROVE t = s
      OBVIOUS
    <2>1. k = l
      BY <1>1, <1>2
    <2>2. SubSeq(s, 1, Len(s)) = s
      OBVIOUS
    <2> QED
      BY <1>3, <2>1, <2>2 DEF l
  <1>7. k = (IF n < Len(s) THEN n ELSE Len(s)) /\ l = Len(s)
    BY DEF k, l
  <1> HIDE DEF k
  <1>8. Len(t) \in Nat
    BY <1>2, <1>4
  <1> QED
    BY <1>2, <1>4, <1>5, <1>6, <1>7, <1>8 DEF t

-----------------------------------------------------------------------------
(* Graph reads: a simulation classifies as a propagation does              *)

\* What a graph of the assumption is, for each relationship.
RelationOk(e) ==
    /\ {e.id, e.src, e.dst, e.weight, e.conf, e.decay, e.holders, e.jaccard, e.z} \subseteq Int
    /\ {EntityOf[e.src], EntityOf[e.dst]} \subseteq Int
    /\ e.type \in DOMAIN DefaultChannels /\ DOMAIN e.explicit \subseteq Nat
GraphOk(G) == IsFiniteSet(G) /\ (\A e, f \in G : e.id = f.id => e = f) /\ \A e \in G : RelationOk(e)

\* The graphs of the reads are as assumed.
LEMMA GraphsOk == \A G \in Graphs : GraphOk(G)
  BY GraphReadsAssumption DEF GraphReadsAssumption, GraphOk, RelationOk

\* Every part of a graph is one.
LEMMA PartOk == ASSUME NEW G, GraphOk(G), NEW E \in SUBSET G PROVE GraphOk(E)
  BY FS_Subset DEF GraphOk

\* FirstOf gives the first of a sequence that is in T.
LEMMA FirstIs ==
    ASSUME NEW s, DOMAIN s \subseteq Nat, NEW T
    PROVE  \/ FirstOf(s, T) = "none" /\ \A i \in DOMAIN s : s[i] \notin T
           \/ \E i \in DOMAIN s : /\ FirstOf(s, T) = s[i] /\ s[i] \in T
                                  /\ \A j \in DOMAIN s : s[j] \in T => i <= j
  <1> DEFINE hits == {i \in DOMAIN s : s[i] \in T}
  <1>1. CASE hits = {}
    BY <1>1 DEF FirstOf
  <1>2. CASE hits # {}
    <2>1. hits \in SUBSET Nat
      OBVIOUS
    <2>2. FirstOf(s, T) = s[Min(hits)]
      BY <1>2 DEF FirstOf
    <2> HIDE DEF hits
    <2>3. \E m \in hits : \A k \in hits : m <= k
      BY <1>2, <2>1, LeastNat
    <2>4. Min(hits) \in hits /\ \A k \in hits : Min(hits) <= k
      BY <2>3 DEF Min
    <2> QED
      BY <2>2, <2>4 DEF hits
  <1> QED
    BY <1>1, <1>2

\* The tables of channels: each type has defaults, which are channels.
LEMMA ChannelTables ==
    /\ ToSet(Channels) = {"fundamental", "event", "reflexive"}
    /\ DOMAIN ChannelRank = {"event", "fundamental", "other", "reflexive"}
    /\ \A t \in DOMAIN DefaultChannels :
          /\ DefaultChannels[t][1] \in ToSet(DefaultChannels[t])
          /\ ToSet(DefaultChannels[t]) \subseteq {"fundamental", "event", "reflexive"}
  BY DEF Channels, ChannelRank, DefaultChannels, ToSet

\* A relationship that propagates over a channel is listed under it.
LEMMA PropagatedIsListed ==
    ASSUME NEW e, RelationOk(e), NEW c \in ToSet(Channels), InChannel(e, c)
    PROVE  c \in EdgeChannels(e)
  <1>1. DOMAIN e.explicit \subseteq Nat /\ e.type \in DOMAIN DefaultChannels
    BY DEF RelationOk
  <1>2. "none" \notin DOMAIN ChannelRank /\ ToSet(Channels) \subseteq DOMAIN ChannelRank
    BY ChannelTables
  <1>3. CASE Explicit(e) = "none"
    <2>1. \A i \in DOMAIN e.explicit : e.explicit[i] \notin DOMAIN ChannelRank
      BY <1>1, <1>2, <1>3, FirstIs DEF Explicit
    <2>2. Known(e) = "none"
      BY <1>1, <1>2, <2>1, FirstIs DEF Known
    <2>3. EdgeChannels(e) = ToSet(DefaultChannels[e.type])
      BY <2>2 DEF EdgeChannels
    <2>4. c = DefaultChannels[e.type][1] \/ e.type \in TypesOf(c)
      BY <1>3 DEF InChannel, EffectiveChannel
    <2> QED
      BY <1>1, <2>3, <2>4, ChannelTables DEF TypesOf
  <1>4. CASE Explicit(e) # "none"
    <2>1. c = Explicit(e)
      BY <1>4 DEF InChannel, EffectiveChannel
    <2>2. PICK i \in DOMAIN e.explicit : /\ c = e.explicit[i]
                                         /\ \A j \in DOMAIN e.explicit : e.explicit[j] \in DOMAIN ChannelRank => i <= j
      BY <1>1, <1>4, <2>1, FirstIs DEF Explicit
    <2>3. PICK k \in DOMAIN e.explicit : /\ Known(e) = e.explicit[k] /\ e.explicit[k] \in ToSet(Channels)
                                         /\ \A j \in DOMAIN e.explicit : e.explicit[j] \in ToSet(Channels) => k <= j
      BY <1>1, <2>2, FirstIs DEF Known
    <2>4. k = i
      <3>1. k <= i /\ i <= k /\ i \in Nat /\ k \in Nat
        BY <1>1, <1>2, <2>2, <2>3
      <3> QED
        BY <3>1
    <2>5. Known(e) = c /\ Known(e) # "none"
      BY <1>2, <2>2, <2>3, <2>4
    <2> QED
      BY <2>5 DEF EdgeChannels
  <1> QED
    BY <1>3, <1>4

\* Scoping to the relationships listed under a channel loses nothing of it.
LEMMA ScopedIsWhole ==
    ASSUME NEW E, \A e \in E : RelationOk(e), NEW c \in ToSet(Channels), NEW limit
    PROVE  ScopedResult(E, c, limit) = ChannelResult(E, c, limit)
  <1> DEFINE part == {e \in E : c \in EdgeChannels(e)}
  <1>1. {x \in part : InChannel(x, c)} = {x \in E : InChannel(x, c)}
    BY PropagatedIsListed
  <1>2. ActivatedPaths(part, c, limit) = ActivatedPaths(E, c, limit)
    BY <1>1 DEF ActivatedPaths
  <1> HIDE DEF part
  <1>3. ChannelResult(part, c, limit) = ChannelResult(E, c, limit)
    BY <1>2 DEF ChannelResult
  <1> QED
    BY <1>3 DEF ScopedResult, part

\* The simulation of a part of the graph is the propagation over it.
LEMMA SimulationIs ==
    ASSUME NEW E, \A e \in E : RelationOk(e), NEW limit
    PROVE  Merge([i \in DOMAIN Channels |-> ScopedResult(E, Channels[i], limit)], limit) = FullPropagation(E, limit)
  <1> DEFINE R(c) == ChannelResult(E, c, limit)
             scoped == [i \in DOMAIN Channels |-> ScopedResult(E, Channels[i], limit)]
             whole == <<R("fundamental"), R("event"), R("reflexive")>>
  <1>1. DOMAIN Channels = 1..3 /\ Channels[1] = "fundamental" /\ Channels[2] = "event" /\ Channels[3] = "reflexive"
    BY DEF Channels
  <1>2. \A i \in 1..3 : ScopedResult(E, Channels[i], limit) = R(Channels[i])
    <2> SUFFICES ASSUME NEW i \in 1..3 PROVE ScopedResult(E, Channels[i], limit) = R(Channels[i])
      OBVIOUS
    <2>1. Channels[i] \in ToSet(Channels)
      BY <1>1 DEF ToSet
    <2> QED
      BY <2>1, ScopedIsWhole
  <1>3. scoped = [i \in 1..3 |-> R(Channels[i])]
    BY <1>1, <1>2
  <1> HIDE DEF R
  <1>4. [i \in 1..3 |-> R(Channels[i])] = whole
    BY <1>1
  <1> HIDE DEF scoped, whole
  <1>5. Merge(scoped, limit) = Merge(whole, limit)
    BY <1>3, <1>4
  <1> QED
    BY <1>5 DEF FullPropagation, FundamentalPropagation, EventPropagation, ReflexivePropagation, R, scoped, whole

-----------------------------------------------------------------------------
(* Graph reads: the numbers that rank, and the sequences they give         *)

\* What a function makes of a finite set is finite.
LEMMA ImageFinite ==
    ASSUME NEW S, IsFiniteSet(S), NEW V, NEW f \in [S -> V], NEW T \in SUBSET {f[x] : x \in S}
    PROVE  IsFiniteSet(T)
  <1> DEFINE I == {f[x] : x \in S}
  <1>1. f \in [S -> I] /\ \A y \in I : \E x \in S : f[x] = y
    OBVIOUS
  <1>2. f \in Surjection(S, I)
    BY <1>1 DEF Surjection
  <1> HIDE DEF I
  <1>3. IsFiniteSet(I)
    BY <1>2, FS_Surjection
  <1> QED
    BY <1>3, FS_Subset DEF I

\* A finite set of numbers has a greatest.
LEMMA GreatestIs ==
    ASSUME NEW S \in SUBSET Int, IsFiniteSet(S), S # {}
    PROVE  Max(S) \in S /\ \A y \in S : Max(S) >= y
  <1> DEFINE Above(x) == {y \in S : y > x}
             sizes == {Cardinality(Above(x)) : x \in S}
  <1>1. \A x \in S : IsFiniteSet(Above(x)) /\ Cardinality(Above(x)) \in Nat
    <2> SUFFICES ASSUME NEW x \in S PROVE IsFiniteSet(Above(x)) /\ Cardinality(Above(x)) \in Nat
      OBVIOUS
    <2>1. Above(x) \in SUBSET S
      OBVIOUS
    <2> HIDE DEF Above
    <2> QED
      BY <2>1, FS_Subset, FS_CardinalityType
  <1>2. sizes \in SUBSET Nat /\ sizes # {}
    BY <1>1
  <1>3. PICK s \in sizes : \A k \in sizes : s <= k
    <2> HIDE DEF sizes
    <2> QED
      BY <1>2, LeastNat
  <1>4. PICK x \in S : s = Cardinality(Above(x))
    BY <1>3
  <1>5. ASSUME NEW y \in S, y > x PROVE FALSE
    <2>0. x \in Int /\ y \in Int /\ y \in Above(x) /\ y \notin Above(y)
      BY <1>5
    <2>1. Above(y) \in SUBSET Above(x) /\ y \in Above(x) /\ y \notin Above(y)
      <3> SUFFICES ASSUME NEW z \in S, z > y PROVE z > x
        BY <2>0
      <3>1. z \in Int
        OBVIOUS
      <3> HIDE DEF Above, sizes
      <3> QED
        BY <1>5, <2>0, <3>1
    <2>2. Cardinality(Above(y)) \in sizes
      OBVIOUS
    <2> HIDE DEF Above, sizes
    <2>3. Cardinality(Above(y)) <= Cardinality(Above(x)) /\ Cardinality(Above(y)) # Cardinality(Above(x))
      BY <1>1, <2>1, FS_Subset
    <2>4. Cardinality(Above(x)) <= Cardinality(Above(y))
      BY <1>3, <1>4, <2>2
    <2> QED
      BY <1>1, <2>3, <2>4
  <1>6. \A y \in S : x >= y
    <2> SUFFICES ASSUME NEW y \in S PROVE x >= y
      OBVIOUS
    <2>1. x \in Int /\ y \in Int
      OBVIOUS
    <2> QED
      BY <1>5, <2>1
  <1> QED
    BY <1>6 DEF Max

\* The scores of a finite set add up to a number.
LEMMA TotalIsInt ==
    ASSUME NEW S, IsFiniteSet(S), \A x \in S : x.score \in Int
    PROVE  TotalScore(S) \in Int
  <1> DEFINE Some(s) == CHOOSE x \in s : TRUE
             Solves(g, D) == g = [s \in D |-> IF s = {} THEN 0 ELSE Some(s).score + g[s \ {Some(s)}]]
             Sized(k) == {s \in SUBSET S : Cardinality(s) <= k}
             A == {k \in Nat : \E g : Solves(g, Sized(k))}
             n == Cardinality(S)
  <1>1. n \in Nat /\ \A s \in SUBSET S : IsFiniteSet(s) /\ Cardinality(s) \in Nat /\ Cardinality(s) <= n
    BY FS_CardinalityType, FS_Subset
  <1>2. \A s \in SUBSET S : s # {} => /\ Some(s) \in s /\ s \ {Some(s)} \in SUBSET S
                                      /\ Cardinality(s \ {Some(s)}) = Cardinality(s) - 1
    <2> SUFFICES ASSUME NEW s \in SUBSET S, s # {}
                 PROVE  Some(s) \in s /\ s \ {Some(s)} \in SUBSET S /\ Cardinality(s \ {Some(s)}) = Cardinality(s) - 1
      OBVIOUS
    <2>1. Some(s) \in s
      OBVIOUS
    <2> HIDE DEF Some
    <2> QED
      BY <1>1, <2>1, FS_RemoveElement
  <1> HIDE DEF Some
  <1>3. \A s \in SUBSET S : Cardinality(s) = 0 <=> s = {}
    BY <1>1, FS_EmptySet
  <1>4. 0 \in A
    <2> DEFINE g == [s \in Sized(0) |-> 0]
    <2>1. \A s \in Sized(0) : s = {}
      BY <1>1, <1>3
    <2>2. Solves(g, Sized(0))
      BY <2>1
    <2> QED
      BY <2>2
  <1>5. ASSUME NEW k \in 1..n, k - 1 \in A PROVE k \in A
    <2>1. PICK g : Solves(g, Sized(k - 1))
      BY <1>5
    <2> DEFINE h == [s \in Sized(k) |-> IF Cardinality(s) < k THEN g[s] ELSE Some(s).score + g[s \ {Some(s)}]]
    <2>2. ASSUME NEW s \in Sized(k)
          PROVE  h[s] = IF s = {} THEN 0 ELSE Some(s).score + h[s \ {Some(s)}]
      <3>0. s \in SUBSET S /\ Cardinality(s) \in Nat /\ Cardinality(s) <= k
        BY <1>1
      <3>1. s # {} => /\ s \ {Some(s)} \in Sized(k) /\ s \ {Some(s)} \in Sized(k - 1)
                      /\ Cardinality(s \ {Some(s)}) < k
        BY <1>1, <1>2, <3>0
      <3>2. s # {} => h[s \ {Some(s)}] = g[s \ {Some(s)}]
        BY <3>1
      <3>3. CASE Cardinality(s) < k
        <4>1. s \in Sized(k - 1)
          BY <3>0, <3>3
        <4>2. g[s] = IF s = {} THEN 0 ELSE Some(s).score + g[s \ {Some(s)}]
          BY <2>1, <4>1
        <4>3. h[s] = g[s]
          BY <3>3
        <4> QED
          BY <3>2, <4>2, <4>3
      <3>4. CASE ~(Cardinality(s) < k)
        <4>1. s # {}
          BY <1>3, <3>0, <3>4
        <4>2. h[s] = Some(s).score + g[s \ {Some(s)}]
          BY <3>4
        <4> QED
          BY <3>2, <4>1, <4>2
      <3> QED
        BY <3>3, <3>4
    <2>3. Solves(h, Sized(k))
      BY <2>2
    <2> HIDE DEF h, Solves
    <2> QED
      BY <2>3
  <1>6. \E g : Solves(g, SUBSET S)
    <2>1. Sized(n) = SUBSET S
      BY <1>1
    <2>2. n \in A
      <3> HIDE DEF A, n
      <3> QED
        BY <1>1, <1>4, <1>5, CountUp
    <2> QED
      BY <2>1, <2>2
  <1> DEFINE f == CHOOSE g : Solves(g, SUBSET S)
  <1>7. Solves(f, SUBSET S)
    BY <1>6
  <1>8. TotalScore(S) = f[S]
    BY DEF TotalScore, MapThenSumSet, MapThenFoldSet, Some
  <1> HIDE DEF f
  <1> DEFINE B == {k \in Nat : \A s \in SUBSET S : Cardinality(s) <= k => f[s] \in Int}
  <1>9. 0 \in B
    BY <1>1, <1>3, <1>7
  <1>10. ASSUME NEW k \in 1..n, k - 1 \in B PROVE k \in B
    <2> SUFFICES ASSUME NEW s \in SUBSET S, Cardinality(s) <= k PROVE f[s] \in Int
      OBVIOUS
    <2>1. CASE s = {}
      BY <1>7, <2>1
    <2>2. CASE s # {}
      <3> DEFINE r == s \ {Some(s)}
      <3>1. r \in SUBSET S /\ Cardinality(r) <= k - 1 /\ Some(s) \in S
        BY <1>1, <1>2, <2>2
      <3>2. f[r] \in Int
        BY <1>10, <3>1
      <3>3. f[s] = Some(s).score + f[r]
        BY <1>7, <2>2
      <3> QED
        BY <3>1, <3>2, <3>3
    <2> QED
      BY <2>1, <2>2
  <1>11. n \in B
    <2> HIDE DEF B, n
    <2> QED
      BY <1>1, <1>9, <1>10, CountUp
  <1> QED
    BY <1>1, <1>8, <1>11

-----------------------------------------------------------------------------
(* Graph reads: ranked paths and impacts, and what a merge explains        *)

PathsOver(E) == [edge : E, channel : DOMAIN ChannelRank, score : Int]

\* Ranks are numbers, and the ranks of the channels differ.
LEMMA RanksAre ==
    /\ \A c \in DOMAIN ChannelRank : ChannelRank[c] \in Int
    /\ \A c, d \in DOMAIN ChannelRank : ChannelRank[c] = ChannelRank[d] => c = d
    /\ \A t \in DOMAIN DefaultChannels : TypeRank[t] \in Int
  BY DEF ChannelRank, DefaultChannels, TypeRank

\* Two paths over one graph that rank the same are the same.
LEMMA PathKeysAre ==
    ASSUME NEW G, GraphOk(G)
    PROVE  /\ \A p \in PathsOver(G) : PathKey(p) \in [1..6 -> Int]
           /\ \A p, q \in PathsOver(G) : PathKey(p) = PathKey(q) => p = q
  <1>1. ASSUME NEW p \in PathsOver(G)
        PROVE  /\ p = [edge |-> p.edge, channel |-> p.channel, score |-> p.score]
               /\ p.edge \in G /\ p.channel \in DOMAIN ChannelRank /\ p.score \in Int
               /\ ChannelRank[p.channel] \in Int /\ p.edge.src \in Int /\ TypeRank[p.edge.type] \in Int
               /\ p.edge.dst \in Int /\ p.edge.id \in Int
    <2>1. /\ p = [edge |-> p.edge, channel |-> p.channel, score |-> p.score]
          /\ p.edge \in G /\ p.channel \in DOMAIN ChannelRank /\ p.score \in Int
      BY DEF PathsOver
    <2>2. RelationOk(p.edge)
      BY <2>1 DEF GraphOk
    <2> QED
      BY <2>1, <2>2, RanksAre DEF RelationOk
  <1>2. ASSUME NEW p \in PathsOver(G) PROVE PathKey(p) \in [1..6 -> Int]
    <2> DEFINE a == 0 - p.score
               b == ChannelRank[p.channel]
               c == p.edge.src
               d == TypeRank[p.edge.type]
               e == p.edge.dst
               f == p.edge.id
    <2>1. a \in Int /\ b \in Int /\ c \in Int /\ d \in Int /\ e \in Int /\ f \in Int
      BY <1>1
    <2>2. PathKey(p) = <<a, b, c, d, e, f>>
      BY DEF PathKey
    <2> HIDE DEF a, b, c, d, e, f
    <2> QED
      BY <2>1, <2>2
  <1>3. ASSUME NEW p \in PathsOver(G), NEW q \in PathsOver(G), PathKey(p) = PathKey(q) PROVE p = q
    <2>1. 0 - p.score = 0 - q.score /\ ChannelRank[p.channel] = ChannelRank[q.channel] /\ p.edge.id = q.edge.id
      BY <1>3 DEF PathKey
    <2>2. p.score = q.score
      BY <1>1, <2>1
    <2>3. p.channel = q.channel
      BY <1>1, <2>1, RanksAre
    <2>4. p.edge = q.edge
      BY <1>1, <2>1 DEF GraphOk
    <2> QED
      BY <1>1, <2>2, <2>3, <2>4
  <1> QED
    BY <1>2, <1>3

\* A ranking holds the best paths, and all of them unless it is full.
LEMMA RankedPathsAre ==
    ASSUME NEW G, GraphOk(G), NEW P \in SUBSET PathsOver(G), IsFiniteSet(P), NEW limit \in Nat
    PROVE  /\ RankedPaths(P, limit) \in Seq(P)
           /\ Len(RankedPaths(P, limit)) = limit \/ ToSet(RankedPaths(P, limit)) = P
  <1> DEFINE key == [p \in P |-> PathKey(p)]
             s == Sorted(P, key)
  <1>1. key \in [P -> [1..6 -> Int]] /\ \A x, y \in P : key[x] = key[y] => x = y
    BY PathKeysAre
  <1>2. RankedPaths(P, limit) = Take(s, limit)
    BY DEF RankedPaths
  <1> HIDE DEF key
  <1>3. s \in Seq(P) /\ ToSet(s) = P
    BY <1>1, SortedIs
  <1> HIDE DEF s
  <1>4. /\ Take(s, limit) \in Seq(P)
        /\ Len(Take(s, limit)) = IF limit < Len(s) THEN limit ELSE Len(s)
        /\ Len(s) <= limit => Take(s, limit) = s
    BY <1>3, TakeIs
  <1>5. Len(s) \in Nat
    BY <1>3
  <1>6. limit < Len(s) \/ Len(s) <= limit
    BY <1>5
  <1> QED
    BY <1>2, <1>3, <1>4, <1>6

\* The elements of a sequence.
LEMMA ElementsOf == ASSUME NEW S, NEW s \in Seq(S) PROVE ToSet(s) \in SUBSET S /\ IsFiniteSet(ToSet(s))
  <1>1. s \in [1..Len(s) -> S] /\ Len(s) \in Nat /\ DOMAIN s = 1..Len(s)
    OBVIOUS
  <1>2. IsFiniteSet(1..Len(s))
    BY <1>1, FS_Interval
  <1>3. ToSet(s) = {s[i] : i \in 1..Len(s)}
    BY <1>1 DEF ToSet
  <1> DEFINE N == 1..Len(s)
  <1>4. s \in [N -> S] /\ IsFiniteSet(N) /\ ToSet(s) \in SUBSET {s[x] : x \in N}
    BY <1>1, <1>2, <1>3
  <1> HIDE DEF N
  <1>5. IsFiniteSet(ToSet(s))
    BY <1>4, ImageFinite
  <1> QED
    BY <1>1, <1>3, <1>5

ImpactsOver(N) == [node : N, channel : DOMAIN ChannelRank, score : Int, paths : Nat]

\* Impacts of different nodes, ranked.
LEMMA RankedImpactsAre ==
    ASSUME NEW I \in SUBSET ImpactsOver(Int), IsFiniteSet(I), \A x, y \in I : x.node = y.node => x = y, NEW limit \in Nat
    PROVE  RankedImpacts(I, limit) \in Seq(I)
  <1> DEFINE key == [i \in I |-> <<0 - i.score, i.node>>]
             s == Sorted(I, key)
  <1>1. \A i \in I : i.score \in Int /\ i.node \in Int
    BY DEF ImpactsOver
  <1>2. key \in [I -> [1..2 -> Int]] /\ \A x, y \in I : key[x] = key[y] => x = y
    <2>1. \A i \in I : <<0 - i.score, i.node>> \in [1..2 -> Int]
      BY <1>1
    <2>2. \A x, y \in I : key[x] = key[y] => x.node = y.node
      OBVIOUS
    <2> QED
      BY <2>1, <2>2
  <1>3. RankedImpacts(I, limit) = Take(s, limit)
    BY DEF RankedImpacts
  <1> HIDE DEF key
  <1>4. s \in Seq(I)
    BY <1>2, SortedIs
  <1> HIDE DEF s
  <1> QED
    BY <1>3, <1>4, TakeIs

\* What a single algorithm answers over a graph: each impact has a path.
ResultOk(G, r) ==
    /\ r.paths \in Seq(PathsOver(G))
    /\ r.impacts \in Seq(ImpactsOver(Int))
    /\ \A m \in ToSet(r.impacts) : \E p \in ToSet(r.paths) : p.edge.dst = m.node

\* The impacts of the nodes that paths lead to.
LEMMA ImpactsAre ==
    ASSUME NEW E, GraphOk(E), NEW paths \in Seq(PathsOver(E)), NEW c \in DOMAIN ChannelRank, NEW limit \in Nat,
           NEW f \in [Targets(paths) -> Int], NEW g \in [Targets(paths) -> Nat]
    PROVE  LET s == RankedImpacts({Impact(n, c, f[n], g[n]) : n \in Targets(paths)}, limit)
           IN  /\ s \in Seq(ImpactsOver(Int))
               /\ \A m \in ToSet(s) : \E p \in ToSet(paths) : p.edge.dst = m.node
  <1> DEFINE N == Targets(paths)
             I == {Impact(n, c, f[n], g[n]) : n \in N}
  <1>1. ToSet(paths) \in SUBSET PathsOver(E) /\ IsFiniteSet(ToSet(paths))
    BY ElementsOf
  <1>2. \A p \in ToSet(paths) : p.edge.dst \in Int
    BY <1>1 DEF PathsOver, GraphOk, RelationOk
  <1>3. N \in SUBSET Int /\ IsFiniteSet(N)
    <2> DEFINE P == ToSet(paths)
               h == [p \in P |-> p.edge.dst]
    <2>1. h \in [P -> Int] /\ N \in SUBSET {h[x] : x \in P}
      BY <1>2 DEF Targets
    <2>2. IsFiniteSet(P)
      BY <1>1
    <2> HIDE DEF P, h, N
    <2>3. IsFiniteSet(N)
      BY <2>1, <2>2, ImageFinite
    <2> QED
      BY <2>1, <2>3
  <1>4. I \in SUBSET ImpactsOver(Int) /\ \A x \in I : x.node \in N
    BY <1>3 DEF ImpactsOver, Impact
  <1>5. \A x, y \in I : x.node = y.node => x = y
    BY DEF Impact
  <1>6. IsFiniteSet(I)
    <2> DEFINE h == [n \in N |-> Impact(n, c, f[n], g[n])]
    <2>1. h \in [N -> I] /\ I \in SUBSET {h[x] : x \in N}
      OBVIOUS
    <2> HIDE DEF h, I, N
    <2> QED
      BY <1>3, <2>1, ImageFinite
  <1> DEFINE s == RankedImpacts(I, limit)
  <1> HIDE DEF I
  <1>7. s \in Seq(I)
    BY <1>4, <1>5, <1>6, RankedImpactsAre
  <1> HIDE DEF s
  <1>8. ToSet(s) \in SUBSET I
    BY <1>7, ElementsOf
  <1>9. s \in Seq(ImpactsOver(Int))
    BY <1>4, <1>7
  <1>10. ASSUME NEW m \in ToSet(s) PROVE \E p \in ToSet(paths) : p.edge.dst = m.node
    BY <1>4, <1>8, <1>10 DEF Targets
  <1> QED
    BY <1>9, <1>10 DEF s, I

\* The scores of the paths to a node.
LEMMA ToTargetAre ==
    ASSUME NEW E, NEW paths \in Seq(PathsOver(E)), NEW n
    PROVE  /\ TotalScore(ToTarget(paths, n)) \in Int /\ Cardinality(ToTarget(paths, n)) \in Nat
           /\ Max({0} \cup {p.score : p \in ToTarget(paths, n)}) \in Int
  <1> DEFINE T == ToTarget(paths, n)
             S == {p.score : p \in T}
  <1>1. T \in SUBSET ToSet(paths) /\ T \in SUBSET PathsOver(E) /\ IsFiniteSet(ToSet(paths))
    BY ElementsOf DEF ToTarget
  <1> HIDE DEF T
  <1>2. IsFiniteSet(T) /\ \A p \in T : p.score \in Int
    BY <1>1, FS_Subset DEF PathsOver
  <1>3. TotalScore(T) \in Int /\ Cardinality(T) \in Nat
    BY <1>2, TotalIsInt, FS_CardinalityType
  <1>4. IsFiniteSet(S) /\ S \in SUBSET Int
    <2> DEFINE h == [p \in T |-> p.score]
    <2>1. h \in [T -> Int] /\ S \in SUBSET {h[x] : x \in T}
      BY <1>2
    <2> HIDE DEF h, S
    <2>2. IsFiniteSet(S)
      BY <1>2, <2>1, ImageFinite
    <2> QED
      BY <2>1, <2>2
  <1> HIDE DEF S
  <1>5. {0} \cup S \in SUBSET Int /\ IsFiniteSet({0} \cup S) /\ {0} \cup S # {}
    <2>1. {0} \cup S = S \cup {0}
      OBVIOUS
    <2>2. IsFiniteSet(S \cup {0})
      BY <1>4, FS_AddElement
    <2>3. IsFiniteSet({0} \cup S)
      BY ONLY <2>1, <2>2, Zenon
    <2>4. {0} \cup S \in SUBSET Int /\ {0} \cup S # {}
      BY <1>4
    <2> QED
      BY <2>3, <2>4
  <1>6. Max({0} \cup S) \in Int
    BY <1>5, GreatestIs
  <1> QED
    BY <1>3, <1>6 DEF T, S

\* The numbers of a relationship and of a channel.
LEMMA ScoresAre ==
    ASSUME NEW e, RelationOk(e), NEW c
    PROVE  /\ PathScore(e, c) \in Int /\ RelationWeight(e) \in Int /\ Magnitude(e.z) \in Int
           /\ Multiplier(c) \in Int /\ Coalesce(e.conf, 1) \in Int /\ Coalesce(e.decay, 1) \in Int
           /\ Coalesce(e.weight, 1) \in Int
  <1>1. e.weight \in Int /\ e.conf \in Int /\ e.decay \in Int /\ e.jaccard \in Int /\ e.z \in Int
    BY DEF RelationOk
  <1>2. /\ Coalesce(e.weight, 1) \in Int /\ Coalesce(e.conf, 1) \in Int /\ Coalesce(e.decay, 1) \in Int
        /\ RelationWeight(e) \in Int /\ Magnitude(e.z) \in Int
    BY <1>1 DEF Coalesce, RelationWeight, Smaller, Magnitude, Unit
  <1>3. /\ ContextMultiplier("channel_multipliers", c) \in Int /\ ContextMultiplier("regime_multipliers", c) \in Int
    BY GraphReadsAssumption DEF GraphReadsAssumption, ContextMultiplier
  <1>4. \A x, y \in Int : x * y \in Int
    OBVIOUS
  <1>5. Multiplier(c) \in Int
    BY <1>3, <1>4 DEF Multiplier
  <1>6. PathScore(e, c) \in Int
    BY <1>2, <1>4, <1>5 DEF PathScore
  <1> QED
    BY <1>2, <1>5, <1>6

\* Paths made of relationships of a graph, one each.
LEMMA PathsMade ==
    ASSUME NEW E, GraphOk(E), NEW X \in SUBSET E, NEW c \in DOMAIN ChannelRank, NEW w \in [X -> Int]
    PROVE  /\ {Path(e, c, w[e]) : e \in X} \in SUBSET PathsOver(E)
           /\ IsFiniteSet({Path(e, c, w[e]) : e \in X})
  <1> DEFINE P == {Path(e, c, w[e]) : e \in X}
             h == [e \in X |-> Path(e, c, w[e])]
  <1>1. P \in SUBSET PathsOver(E)
    BY DEF PathsOver, Path
  <1>2. h \in [X -> P] /\ P \in SUBSET {h[x] : x \in X}
    OBVIOUS
  <1>3. IsFiniteSet(X)
    BY FS_Subset DEF GraphOk
  <1> HIDE DEF P, h
  <1>4. IsFiniteSet(P)
    BY <1>2, <1>3, ImageFinite
  <1> QED
    BY <1>1, <1>4 DEF P

\* Propagation over one channel explains its impacts.
LEMMA ChannelExplains ==
    ASSUME NEW E, GraphOk(E), NEW c \in ToSet(Channels), NEW limit \in Nat
    PROVE  ResultOk(E, ChannelResult(E, c, limit))
  <1> DEFINE X == {x \in E : InChannel(x, c)}
             w == [e \in X |-> PathScore(e, c)]
             P == {Path(e, c, w[e]) : e \in X}
             paths == RankedPaths(P, limit)
             f == [n \in Targets(paths) |-> TotalScore(ToTarget(paths, n))]
             g == [n \in Targets(paths) |-> Cardinality(ToTarget(paths, n))]
             s == RankedImpacts({Impact(n, c, f[n], g[n]) : n \in Targets(paths)}, limit)
  <1>1. c \in DOMAIN ChannelRank
    BY ChannelTables
  <1>2. X \in SUBSET E /\ w \in [X -> Int]
    BY ScoresAre DEF GraphOk
  <1>3. ActivatedPaths(E, c, limit) = paths
    BY DEF ActivatedPaths
  <1> HIDE DEF X, w
  <1>4. P \in SUBSET PathsOver(E) /\ IsFiniteSet(P)
    BY <1>1, <1>2, PathsMade
  <1> HIDE DEF P
  <1>5. paths \in Seq(P)
    BY <1>4, RankedPathsAre
  <1>6. paths \in Seq(PathsOver(E))
    BY <1>4, <1>5
  <1>7. ImpactedEntities(paths, c, limit) = s
    BY DEF ImpactedEntities
  <1> HIDE DEF paths
  <1>8. f \in [Targets(paths) -> Int] /\ g \in [Targets(paths) -> Nat]
    BY <1>6, ToTargetAre
  <1> HIDE DEF f, g
  <1>9. s \in Seq(ImpactsOver(Int)) /\ \A m \in ToSet(s) : \E p \in ToSet(paths) : p.edge.dst = m.node
    BY <1>1, <1>6, <1>8, ImpactsAre
  <1> HIDE DEF s
  <1>10. ChannelResult(E, c, limit) = [paths |-> paths, impacts |-> s]
    BY <1>3, <1>7 DEF ChannelResult
  <1> QED
    BY <1>6, <1>9, <1>10 DEF ResultOk

\* So do the two algorithms over holdings.
LEMMA CrowdingExplains ==
    ASSUME NEW E, GraphOk(E), NEW limit \in Nat
    PROVE  ResultOk(E, CoHoldingCrowding(E, limit))
  <1> DEFINE c == "reflexive"
             X == {x \in E : /\ x.type = "CO_HOLDING" /\ Scored(x)
                             /\ x.holders >= MinHolders
                             /\ IF x.jaccard # Null THEN x.jaccard >= 0 ELSE x.weight >= 0}
             w == [e \in X |-> RelationWeight(e) * Coalesce(e.conf, 1) * Multiplier("reflexive") * Coalesce(e.decay, 1)]
             P == {Path(e, c, w[e]) : e \in X}
             Q == {p \in P : CrowdingScore(P, p.edge.dst) >= Crowding * Normalization}
             paths == RankedPaths(Q, limit)
             f == [n \in Targets(paths) |-> CrowdingScore(P, n)]
             g == [n \in Targets(paths) |-> Cardinality(ToTarget(paths, n))]
             s == RankedImpacts({Impact(n, c, f[n], g[n]) : n \in Targets(paths)}, limit)
  <1>1. c \in DOMAIN ChannelRank
    BY ChannelTables
  <1>2. X \in SUBSET E /\ w \in [X -> Int]
    <2>1. \A x, y \in Int : x * y \in Int
      OBVIOUS
    <2>2. \A e \in X : w[e] \in Int
      <3> SUFFICES ASSUME NEW e \in X PROVE w[e] \in Int
        OBVIOUS
      <3>1. RelationOk(e)
        BY DEF GraphOk
      <3>2. /\ RelationWeight(e) \in Int /\ Coalesce(e.conf, 1) \in Int /\ Multiplier("reflexive") \in Int
            /\ Coalesce(e.decay, 1) \in Int
        BY <3>1, ScoresAre
      <3>3. w[e] = RelationWeight(e) * Coalesce(e.conf, 1) * Multiplier("reflexive") * Coalesce(e.decay, 1)
        OBVIOUS
      <3> QED
        BY <2>1, <3>2, <3>3
    <2>3. X \in SUBSET E /\ w = [e \in X |-> w[e]]
      OBVIOUS
    <2> HIDE DEF X, w
    <2> QED
      BY <2>2, <2>3
  <1>3. CoHoldingPaths(E) = P
    BY DEF CoHoldingPaths
  <1> HIDE DEF X, w
  <1>4. P \in SUBSET PathsOver(E) /\ IsFiniteSet(P)
    BY <1>1, <1>2, PathsMade
  <1> HIDE DEF P
  <1>5. Q \in SUBSET P /\ Q \in SUBSET PathsOver(E) /\ CrowdedPaths(P, limit) = paths
    BY <1>4 DEF CrowdedPaths
  <1> HIDE DEF Q
  <1>6. IsFiniteSet(Q)
    BY <1>4, <1>5, FS_Subset
  <1>7. paths \in Seq(Q)
    BY <1>5, <1>6, RankedPathsAre
  <1> HIDE DEF paths
  <1>8. paths \in Seq(PathsOver(E))
    BY <1>5, <1>7
  <1>9. \A n : CrowdingScore(P, n) \in Int
    <2> SUFFICES ASSUME NEW n PROVE CrowdingScore(P, n) \in Int
      OBVIOUS
    <2> DEFINE T == {p \in P : p.edge.dst = n}
    <2>1. T \in SUBSET P
      OBVIOUS
    <2>2. CrowdingScore(P, n) = Smaller(Unit * Normalization, TotalScore(T))
      BY DEF CrowdingScore
    <2> HIDE DEF T
    <2>3. IsFiniteSet(T) /\ \A p \in T : p.score \in Int
      BY <1>4, <2>1, FS_Subset DEF PathsOver
    <2>4. TotalScore(T) \in Int
      BY <2>3, TotalIsInt
    <2>5. Unit * Normalization \in Int
      BY GraphReadsAssumption DEF GraphReadsAssumption, Unit
    <2> QED
      BY <2>2, <2>4, <2>5 DEF Smaller
  <1>10. f \in [Targets(paths) -> Int] /\ g \in [Targets(paths) -> Nat]
    BY <1>8, <1>9, ToTargetAre
  <1>11. CoHoldingCrowding(E, limit) =
            [paths |-> paths,
             impacts |-> RankedImpacts({Impact(n, c, CrowdingScore(P, n), Cardinality(ToTarget(paths, n)))
                                          : n \in Targets(paths)}, limit)]
    BY <1>3, <1>5 DEF CoHoldingCrowding
  <1>12. CoHoldingCrowding(E, limit) = [paths |-> paths, impacts |-> s]
    BY <1>11
  <1> HIDE DEF f, g
  <1>13. s \in Seq(ImpactsOver(Int)) /\ \A m \in ToSet(s) : \E p \in ToSet(paths) : p.edge.dst = m.node
    BY <1>1, <1>8, <1>10, ImpactsAre
  <1> HIDE DEF s
  <1> QED
    BY <1>8, <1>12, <1>13 DEF ResultOk

\* The anomalous holdings explain their impacts: a path leads to each.
LEMMA AnomalyExplains ==
    ASSUME NEW E, GraphOk(E), NEW limit \in Nat
    PROVE  ResultOk(E, NorthboundAnomaly(E, limit))
  <1> DEFINE c == "event"
             X == {x \in E : /\ x.type = "NORTHBOUND_HOLD" /\ Scored(x)
                             /\ x.z # Null /\ Magnitude(x.z) >= MinZ}
             w == [e \in X |-> Magnitude(e.z) * Coalesce(e.conf, 1) * Multiplier("event") * Coalesce(e.decay, 1)]
             P == {Path(e, c, w[e]) : e \in X}
             paths == RankedPaths(P, limit)
             f == [n \in Targets(paths) |-> Max({0} \cup {p.score : p \in ToTarget(paths, n)})]
             g == [n \in Targets(paths) |-> Cardinality(ToTarget(paths, n))]
             s == RankedImpacts({Impact(n, c, f[n], g[n]) : n \in Targets(paths)}, limit)
  <1>1. c \in DOMAIN ChannelRank
    BY ChannelTables
  <1>2. X \in SUBSET E /\ w \in [X -> Int]
    <2>1. \A x, y \in Int : x * y \in Int
      OBVIOUS
    <2>2. \A e \in X : w[e] \in Int
      <3> SUFFICES ASSUME NEW e \in X PROVE w[e] \in Int
        OBVIOUS
      <3>1. RelationOk(e)
        BY DEF GraphOk
      <3>2. /\ Magnitude(e.z) \in Int /\ Coalesce(e.conf, 1) \in Int /\ Multiplier("event") \in Int
            /\ Coalesce(e.decay, 1) \in Int
        BY <3>1, ScoresAre
      <3>3. w[e] = Magnitude(e.z) * Coalesce(e.conf, 1) * Multiplier("event") * Coalesce(e.decay, 1)
        OBVIOUS
      <3> QED
        BY <2>1, <3>2, <3>3
    <2>3. X \in SUBSET E /\ w = [e \in X |-> w[e]]
      OBVIOUS
    <2> HIDE DEF X, w
    <2> QED
      BY <2>2, <2>3
  <1>3. NorthboundPaths(E) = P
    BY DEF NorthboundPaths
  <1> HIDE DEF X, w
  <1>4. P \in SUBSET PathsOver(E) /\ IsFiniteSet(P)
    BY <1>1, <1>2, PathsMade
  <1> HIDE DEF P
  <1>5. paths \in Seq(P)
    BY <1>4, RankedPathsAre
  <1>6. NorthboundAnomaly(E, limit) =
            [paths |-> paths,
             impacts |-> RankedImpacts({Impact(n, c, Max({0} \cup {p.score : p \in ToTarget(paths, n)}),
                                               Cardinality(ToTarget(paths, n))) : n \in Targets(paths)}, limit)]
    BY <1>3 DEF NorthboundAnomaly
  <1>7. paths \in Seq(PathsOver(E))
    BY <1>4, <1>5
  <1> HIDE DEF paths
  <1>8. f \in [Targets(paths) -> Int] /\ g \in [Targets(paths) -> Nat]
    BY <1>7, ToTargetAre
  <1>9. NorthboundAnomaly(E, limit) = [paths |-> paths, impacts |-> s]
    BY <1>6
  <1> HIDE DEF f, g
  <1>10. s \in Seq(ImpactsOver(Int)) /\ \A m \in ToSet(s) : \E p \in ToSet(paths) : p.edge.dst = m.node
    BY <1>1, <1>7, <1>8, ImpactsAre
  <1> HIDE DEF s
  <1> QED
    BY <1>7, <1>9, <1>10 DEF ResultOk

\* A merge of such results reports an entity without a path to it only when
\* the list of paths is full.
LEMMA MergeExplains ==
    ASSUME NEW E, GraphOk(E), NEW n \in Nat, NEW results, DOMAIN results = 1..n,
           \A i \in 1..n : ResultOk(E, results[i]), NEW limit \in Nat
    PROVE  LET r == Merge(results, limit)
           IN  \A i \in DOMAIN r.impacts :
                  \/ \E p \in ToSet(r.paths) : EntityOf[p.edge.dst] = r.impacts[i].entity
                  \/ Len(r.paths) = limit
  <1> DEFINE P == UNION {ToSet(results[i].paths) : i \in DOMAIN results}
             all == UNION {ToSet(results[i].impacts) : i \in DOMAIN results}
             paths == RankedPaths(P, limit)
             Of(x) == {m \in all : EntityOf[m.node] = x}
             Paths(x) == MapThenSumSet(LAMBDA m : m.paths, Of(x))
             X == {EntityOf[m.node] : m \in all}
             Entity(x) == [entity |-> x, node |-> Min({m.node : m \in Of(x)}), score |-> TotalScore(Of(x)),
                           paths |-> Paths(x), channels |-> {m.channel : m \in Of(x)}]
             whole == {Entity(x) : x \in X}
             key == [x \in whole |-> <<0 - x.score, x.entity>>]
             s == Take(Sorted(whole, key), limit)
             I == 1..n
  <1>1. Merge(results, limit) = [paths |-> paths, impacts |-> s]
    BY DEF Merge, MergedImpacts
  <1>2. IsFiniteSet(I)
    BY FS_Interval
  <1>3. \A i \in I : /\ ToSet(results[i].paths) \in SUBSET PathsOver(E) /\ IsFiniteSet(ToSet(results[i].paths))
                     /\ ToSet(results[i].impacts) \in SUBSET ImpactsOver(Int) /\ IsFiniteSet(ToSet(results[i].impacts))
    BY ElementsOf DEF ResultOk
  <1>4. P \in SUBSET PathsOver(E) /\ all \in SUBSET ImpactsOver(Int)
    BY <1>3
  <1>5. IsFiniteSet(P) /\ IsFiniteSet(all)
    <2> DEFINE f == [i \in I |-> ToSet(results[i].paths)]
               g == [i \in I |-> ToSet(results[i].impacts)]
               F == {f[x] : x \in I}
               H == {g[x] : x \in I}
               V == SUBSET PathsOver(E)
               W == SUBSET ImpactsOver(Int)
    <2>0. F \in SUBSET {f[x] : x \in I} /\ H \in SUBSET {g[x] : x \in I}
      OBVIOUS
    <2>1. P = UNION F /\ all = UNION H /\ f \in [I -> V] /\ g \in [I -> W]
      BY <1>3
    <2>2. (\A T \in F : IsFiniteSet(T)) /\ (\A T \in H : IsFiniteSet(T))
      BY <1>3
    <2> HIDE DEF P, all, f, g, I, F, H, V, W
    <2>i. f \in [I -> V] /\ g \in [I -> W] /\ IsFiniteSet(I)
      BY <1>2, <2>1
    <2>3. IsFiniteSet(F)
      BY ONLY <2>0, <2>i, ImageFinite
    <2>4. IsFiniteSet(H)
      BY ONLY <2>0, <2>i, ImageFinite
    <2> QED
      BY <2>1, <2>2, <2>3, <2>4, FS_UNION
  <1>6. ASSUME NEW m \in all
        PROVE  \E p \in P : p.edge.dst = m.node
    <2>1. PICK i \in I : m \in ToSet(results[i].impacts)
      BY <1>6
    <2>2. \E p \in ToSet(results[i].paths) : p.edge.dst = m.node
      BY <2>1 DEF ResultOk
    <2> QED
      BY <2>2
  <1> HIDE DEF P, all, I
  <1>7. ASSUME NEW m \in all PROVE EntityOf[m.node] \in Int /\ \E p \in P : p.edge.dst = m.node
    <2>1. PICK p \in P : p.edge.dst = m.node
      BY <1>6
    <2>2. RelationOk(p.edge)
      BY <1>4 DEF PathsOver, GraphOk
    <2> QED
      BY <2>1, <2>2 DEF RelationOk
  <1>8. IsFiniteSet(X) /\ X \in SUBSET Int
    <2> DEFINE h == [m \in all |-> EntityOf[m.node]]
    <2>1. h \in [all -> Int] /\ X \in SUBSET {h[x] : x \in all}
      BY <1>7
    <2> HIDE DEF h, X
    <2>2. IsFiniteSet(X)
      BY <1>5, <2>1, ImageFinite
    <2> QED
      BY <2>1, <2>2
  <1>9. ASSUME NEW x \in X PROVE TotalScore(Of(x)) \in Int
    <2> DEFINE T == Of(x)
    <2>1. T \in SUBSET all
      OBVIOUS
    <2> HIDE DEF T
    <2>2. IsFiniteSet(T) /\ \A m \in T : m.score \in Int
      BY <1>4, <1>5, <2>1, FS_Subset DEF ImpactsOver
    <2>3. TotalScore(T) \in Int
      BY <2>2, TotalIsInt
    <2> QED
      BY <2>3 DEF T
  <1> HIDE DEF Paths
  <1>10. /\ \A x \in whole : x.entity \in X /\ x.score \in Int
         /\ \A x, y \in whole : x.entity = y.entity => x = y
    <2>1. \A x \in X : Entity(x).entity = x /\ Entity(x).score \in Int
      BY <1>9
    <2> HIDE DEF Entity
    <2> QED
      BY <2>1
  <1> HIDE DEF Of
  <1>11. IsFiniteSet(whole)
    <2> DEFINE h == [x \in X |-> Entity(x)]
    <2>1. h \in [X -> whole] /\ whole \in SUBSET {h[x] : x \in X}
      OBVIOUS
    <2> HIDE DEF h, whole, X
    <2> QED
      BY <1>8, <2>1, ImageFinite
  <1> HIDE DEF whole, Entity
  <1>12. key \in [whole -> [1..2 -> Int]] /\ \A x, y \in whole : key[x] = key[y] => x = y
    <2>1. \A x \in whole : x.entity \in Int /\ x.score \in Int
      BY <1>8, <1>10
    <2>2. \A x \in whole : <<0 - x.score, x.entity>> \in [1..2 -> Int]
      BY <2>1
    <2>3. \A x, y \in whole : key[x] = key[y] => x.entity = y.entity
      OBVIOUS
    <2> QED
      BY <1>10, <2>2, <2>3
  <1> HIDE DEF key
  <1>13. Sorted(whole, key) \in Seq(whole)
    BY <1>11, <1>12, SortedIs
  <1>14. s \in Seq(whole)
    BY <1>13, TakeIs
  <1> HIDE DEF s
  <1>15. ToSet(s) \in SUBSET whole
    BY <1>14, ElementsOf
  <1>16. Len(paths) = limit \/ ToSet(paths) = P
    BY <1>4, <1>5, RankedPathsAre
  <1> HIDE DEF paths
  <1>17. ASSUME NEW i \in DOMAIN s, Len(paths) # limit
         PROVE  \E p \in ToSet(paths) : EntityOf[p.edge.dst] = s[i].entity
    <2>1. s[i] \in whole
      BY <1>15, <1>17 DEF ToSet
    <2>2. PICK m \in all : EntityOf[m.node] = s[i].entity
      BY <1>10, <2>1
    <2> QED
      BY <1>7, <1>16, <1>17, <2>2
  <1> QED
    BY <1>1, <1>17

-----------------------------------------------------------------------------
(* Graph reads: the ball around the seeds                                  *)

\* A set of nodes with what one step reaches.
Grown(S) == S \cup UNION {{e.src, e.dst} : e \in Touching(live, S)}

\* The ball grows by one step at a time.
LEMMA BallIs ==
    ASSUME NEW seeds
    PROVE  Ball(live, seeds, 0) = seeds /\ \A k \in Nat : Ball(live, seeds, k + 1) = Grown(Ball(live, seeds, k))
  <1> DEFINE Solves(f, k) == f = [i \in 0..k |-> IF i = 0 THEN seeds ELSE Grown(f[i - 1])]
             B(k) == CHOOSE f : Solves(f, k)
  <1>1. \A k : Ball(live, seeds, k) = B(k)[k]
    BY DEF Ball, Grown
  <1>2. ASSUME NEW n \in Nat PROVE \E f : Solves(f, n)
    <2> DEFINE A == {k \in Nat : \E f : Solves(f, k)}
    <2>1. 0 \in A
      <3>1. Solves([i \in 0..0 |-> seeds], 0)
        OBVIOUS
      <3> QED
        BY <3>1
    <2>2. ASSUME NEW k \in 1..n, k - 1 \in A PROVE k \in A
      <3>1. PICK g : Solves(g, k - 1)
        BY <2>2
      <3> DEFINE h == [i \in 0..k |-> IF i < k THEN g[i] ELSE Grown(g[i - 1])]
      <3>2. ASSUME NEW i \in 0..k PROVE h[i] = IF i = 0 THEN seeds ELSE Grown(h[i - 1])
        <4>1. CASE i < k
          <5>1. i \in 0..(k - 1) /\ (i # 0 => i - 1 \in 0..k /\ i - 1 < k)
            BY <4>1
          <5>2. g[i] = IF i = 0 THEN seeds ELSE Grown(g[i - 1])
            BY <3>1, <5>1
          <5> QED
            BY <4>1, <5>1, <5>2
        <4>2. CASE i = k
          <5>1. i - 1 \in 0..k /\ i - 1 < k /\ i # 0
            BY <4>2
          <5> QED
            BY <4>2, <5>1
        <4> QED
          BY <4>1, <4>2
      <3>3. Solves(h, k)
        BY <3>2
      <3> HIDE DEF h, Solves
      <3> QED
        BY <3>3
    <2> HIDE DEF A
    <2>3. n \in A
      BY <2>1, <2>2, CountUp
    <2> QED
      BY <2>3 DEF A
  <1>3. \A k \in Nat : Solves(B(k), k)
    <2> HIDE DEF Solves
    <2> QED
      BY <1>2
  <1> HIDE DEF B
  <1>4. ASSUME NEW n \in Nat PROVE \A i \in 0..n : B(n)[i] = B(n + 1)[i]
    <2> DEFINE A == {i \in Nat : i <= n => B(n)[i] = B(n + 1)[i]}
               f == B(n)
               g == B(n + 1)
    <2>1. f = [i \in 0..n |-> IF i = 0 THEN seeds ELSE Grown(f[i - 1])]
      BY <1>3
    <2>2. g = [i \in 0..(n + 1) |-> IF i = 0 THEN seeds ELSE Grown(g[i - 1])]
      <3>1. n + 1 \in Nat
        OBVIOUS
      <3> QED
        BY <1>3, <3>1
    <2> HIDE DEF f, g
    <2>3. 0 \in A
      <3>1. f[0] = seeds /\ g[0] = seeds
        BY <2>1, <2>2
      <3> QED
        BY <3>1 DEF f, g
    <2>4. ASSUME NEW i \in 1..n, i - 1 \in A PROVE i \in A
      <3>1. f[i - 1] = g[i - 1]
        BY <2>4 DEF f, g
      <3>2. f[i] = Grown(f[i - 1]) /\ g[i] = Grown(g[i - 1])
        BY <2>1, <2>2
      <3>3. f[i] = g[i]
        BY <3>1, <3>2
      <3> QED
        BY <3>3 DEF f, g
    <2>5. \A i \in 0..n : i \in A
      <3> HIDE DEF A
      <3> QED
        BY <2>3, <2>4, CountUp
    <2> QED
      BY <2>5
  <1>5. Ball(live, seeds, 0) = seeds
    BY <1>1, <1>3
  <1>6. ASSUME NEW k \in Nat PROVE Ball(live, seeds, k + 1) = Grown(Ball(live, seeds, k))
    <2> DEFINE g == B(k + 1)
    <2>1. k + 1 \in Nat /\ k + 1 \in 0..(k + 1) /\ k + 1 # 0 /\ (k + 1) - 1 = k /\ k \in 0..k
      OBVIOUS
    <2>2. g = [i \in 0..(k + 1) |-> IF i = 0 THEN seeds ELSE Grown(g[i - 1])]
      BY <1>3, <2>1
    <2>3. g[k + 1] = Grown(g[k])
      <3> HIDE DEF g
      <3> QED
        BY <2>1, <2>2
    <2>4. g[k] = B(k)[k]
      BY <1>4, <2>1
    <2> QED
      BY <1>1, <2>3, <2>4
  <1> QED
    BY <1>5, <1>6

\* A ball is within the next, and so is what touches it.
LEMMA ReachedGrows ==
    ASSUME NEW seeds, NEW n \in Nat
    PROVE  /\ Reached(live, seeds, n) \subseteq Touching(live, Ball(live, seeds, n))
           /\ Reached(live, seeds, n + 1) = Touching(live, Ball(live, seeds, n))
           /\ \A e \in Reached(live, seeds, n) : {e.src, e.dst} \subseteq Ball(live, seeds, n)
           /\ Reached(live, seeds, n) \subseteq live
  <1>1. Reached(live, seeds, n + 1) = Touching(live, Ball(live, seeds, n))
    <2>1. n + 1 # 0 /\ (n + 1) - 1 = n
      OBVIOUS
    <2> QED
      BY <2>1 DEF Reached
  <1>2. CASE n = 0
    BY <1>1, <1>2 DEF Reached
  <1>3. CASE n # 0
    <2>1. n - 1 \in Nat /\ (n - 1) + 1 = n
      BY <1>3
    <2>2. Ball(live, seeds, n) = Grown(Ball(live, seeds, n - 1))
      BY <2>1, BallIs
    <2>3. Reached(live, seeds, n) = Touching(live, Ball(live, seeds, n - 1))
      BY <1>3 DEF Reached
    <2> QED
      BY <1>1, <2>2, <2>3 DEF Grown, Touching
  <1> QED
    BY <1>2, <1>3

\* What is reached stays reached.
LEMMA ReachedKept ==
    ASSUME NEW seeds, NEW n \in Nat
    PROVE  \A k \in 0..n : Reached(live, seeds, k) \subseteq Reached(live, seeds, n)
  <1> DEFINE A == {i \in Nat : \A k \in 0..i : Reached(live, seeds, k) \subseteq Reached(live, seeds, i)}
  <1>1. 0 \in A
    OBVIOUS
  <1>2. ASSUME NEW i \in 1..n, i - 1 \in A PROVE i \in A
    <2>1. i - 1 \in Nat /\ (i - 1) + 1 = i
      OBVIOUS
    <2>2. Reached(live, seeds, i - 1) \subseteq Reached(live, seeds, i)
      BY <2>1, ReachedGrows
    <2>3. \A k \in 0..i : k = i \/ k \in 0..(i - 1)
      OBVIOUS
    <2> QED
      BY <1>2, <2>2, <2>3
  <1>3. n \in A
    <2> HIDE DEF A
    <2> QED
      BY <1>1, <1>2, CountUp
  <1> QED
    BY <1>3

\* A ball that does not grow once never grows again.
LEMMA ReachedAll ==
    ASSUME NEW seeds, NEW n \in Nat, NEW d \in Nat, n <= d, Touching(live, Ball(live, seeds, n)) \subseteq Reached(live, seeds, n)
    PROVE  Ball(live, seeds, d) = Ball(live, seeds, n) /\ Reached(live, seeds, d) = Reached(live, seeds, n)
  <1> DEFINE A == {i \in Nat : Ball(live, seeds, n + i) = Ball(live, seeds, n) /\ Reached(live, seeds, n + i) = Reached(live, seeds, n)}
  <1>1. 0 \in A
    OBVIOUS
  <1>2. ASSUME NEW i \in 1..(d - n), i - 1 \in A PROVE i \in A
    <2> DEFINE j == n + (i - 1)
    <2>1. j \in Nat /\ j + 1 = n + i
      OBVIOUS
    <2>2. Ball(live, seeds, j) = Ball(live, seeds, n) /\ Reached(live, seeds, j) = Reached(live, seeds, n)
      BY <1>2
    <2> HIDE DEF j
    <2>3. Reached(live, seeds, j + 1) = Touching(live, Ball(live, seeds, n))
      BY <2>1, <2>2, ReachedGrows
    <2>4. Reached(live, seeds, j + 1) = Reached(live, seeds, n)
      BY <2>3, ReachedGrows
    <2>5. Ball(live, seeds, j + 1) = Grown(Ball(live, seeds, n))
      BY <2>1, <2>2, BallIs
    <2>6. Grown(Ball(live, seeds, n)) = Ball(live, seeds, n)
      BY ReachedGrows DEF Grown
    <2> QED
      BY <2>1, <2>4, <2>5, <2>6
  <1>3. d - n \in Nat /\ n + (d - n) = d
    OBVIOUS
  <1> DEFINE m == d - n
  <1>4. \A i \in 1..m : i - 1 \in A => i \in A
    BY <1>2
  <1>5. m \in Nat /\ n + m = d
    BY <1>3
  <1>6. m \in A
    <2> HIDE DEF A, m
    <2> QED
      BY <1>1, <1>4, <1>5, CountUp
  <1> HIDE DEF m
  <1> QED
    BY <1>5, <1>6

-----------------------------------------------------------------------------
(* Graph reads: distances, and the paths within a distance                 *)

\* The distance of what is reached does not depend on how far one looks.
LEMMA DistanceKept ==
    ASSUME NEW seeds, NEW n \in Nat, NEW d \in Nat, n <= d, NEW e \in Reached(live, seeds, n)
    PROVE  Distance(live, seeds, d, e) = Distance(live, seeds, n, e) /\ Distance(live, seeds, n, e) \in 1..n
  <1> DEFINE T(k) == {i \in 1..k : e \in Reached(live, seeds, i)}
  <1>1. n # 0
    BY DEF Reached
  <1>2. n \in T(n) /\ T(n) \in SUBSET Nat /\ T(d) \in SUBSET Nat /\ T(n) \in SUBSET T(d)
    BY <1>1
  <1>3. \A i \in T(d) : i \in T(n) \/ i > n
    OBVIOUS
  <1>4. \A i \in T(n) : i <= n /\ i \in 1..n
    OBVIOUS
  <1>5. Distance(live, seeds, d, e) = Min(T(d)) /\ Distance(live, seeds, n, e) = Min(T(n))
    BY DEF Distance
  <1> HIDE DEF T
  <1>6. PICK m \in T(n) : \A k \in T(n) : m <= k
    BY <1>2, LeastNat
  <1>7. \A k \in T(d) : m <= k
    <2> SUFFICES ASSUME NEW k \in T(d) PROVE m <= k
      OBVIOUS
    <2>1. m \in Nat /\ k \in Nat /\ m <= n
      BY <1>2, <1>4
    <2> QED
      BY <1>3, <1>6, <2>1
  <1>8. Min(T(n)) = m
    <2>1. Min(T(n)) \in T(n) /\ \A k \in T(n) : Min(T(n)) <= k
      BY <1>6 DEF Min
    <2>2. Min(T(n)) <= m /\ m <= Min(T(n)) /\ m \in Nat /\ Min(T(n)) \in Nat
      BY <1>2, <1>6, <2>1
    <2> QED
      BY <2>2
  <1>9. Min(T(d)) = m
    <2>1. Min(T(d)) \in T(d) /\ \A k \in T(d) : Min(T(d)) <= k
      BY <1>2, <1>6, <1>7 DEF Min
    <2>2. Min(T(d)) <= m /\ m <= Min(T(d)) /\ m \in Nat /\ Min(T(d)) \in Nat
      BY <1>2, <1>6, <1>7, <2>1
    <2> QED
      BY <2>2
  <1> QED
    BY <1>4, <1>5, <1>8, <1>9

\* What the last step reaches first is that far away.
LEMMA DistanceNew ==
    ASSUME NEW seeds, NEW n \in Nat, NEW e \in Reached(live, seeds, n + 1), e \notin Reached(live, seeds, n)
    PROVE  Distance(live, seeds, n + 1, e) = n + 1
  <1>1. \A k \in 0..n : e \notin Reached(live, seeds, k)
    BY ReachedKept
  <1> DEFINE T == {i \in 1..(n + 1) : e \in Reached(live, seeds, i)}
  <1>2. \A i \in T : i = n + 1
    BY <1>1
  <1>3. n + 1 \in T
    OBVIOUS
  <1>4. Distance(live, seeds, n + 1, e) = Min(T)
    BY DEF Distance
  <1> HIDE DEF T
  <1>5. \E x \in T : \A y \in T : x <= y
    BY <1>2, <1>3
  <1>6. Min(T) \in T
    BY <1>5 DEF Min
  <1> QED
    BY <1>2, <1>4, <1>6

\* The rows that a set of relationships gives a path query.
ListedPaths(E, filter) == UNION {{Path(e, c, Coalesce(e.weight, 1)) : c \in Listed(e, filter)} : e \in E}

\* The paths within a distance grow by those of the relationships met at it.
LEMMA PathsWithinIs ==
    ASSUME NEW seeds, NEW n \in Nat, NEW filter
    PROVE  /\ PathsWithin(live, seeds, 0, filter) = {}
           /\ \A x \in PathsWithin(live, seeds, n, filter) : x.path.edge \in Reached(live, seeds, n)
           /\ PathsWithin(live, seeds, n + 1, filter) =
                 PathsWithin(live, seeds, n, filter) \cup
                 {[path |-> p, length |-> n + 1] : p \in ListedPaths(Reached(live, seeds, n + 1) \ Reached(live, seeds, n), filter)}
  <1> DEFINE P(E, k) == UNION {{[path |-> Path(e, c, Coalesce(e.weight, 1)), length |-> Distance(live, seeds, k, e)] : c \in Listed(e, filter)}
                                 : e \in E}
             old == Reached(live, seeds, n)
             new == Reached(live, seeds, n + 1) \ Reached(live, seeds, n)
  <1>1. \A k : PathsWithin(live, seeds, k, filter) = P(Reached(live, seeds, k), k)
    BY DEF PathsWithin
  <1>2. PathsWithin(live, seeds, 0, filter) = {}
    BY DEF PathsWithin, Reached
  <1>3. \A x \in PathsWithin(live, seeds, n, filter) : x.path.edge \in Reached(live, seeds, n)
    BY DEF PathsWithin, Path
  <1>4. PathsWithin(live, seeds, n + 1, filter) = P(old, n) \cup {[path |-> p, length |-> n + 1] : p \in ListedPaths(new, filter)}
    <2>1. Reached(live, seeds, n + 1) = old \cup new
      BY ReachedKept
    <2>2. PathsWithin(live, seeds, n + 1, filter) = P(old \cup new, n + 1)
      BY <1>1, <2>1
    <2>3. \A e \in old : Distance(live, seeds, n + 1, e) = Distance(live, seeds, n, e)
      <3>1. n + 1 \in Nat /\ n <= n + 1
        OBVIOUS
      <3> QED
        BY <3>1, DistanceKept
    <2>4. \A e \in new : Distance(live, seeds, n + 1, e) = n + 1
      BY DistanceNew
    <2> HIDE DEF old, new
    <2>5. P(old \cup new, n + 1) = P(old, n + 1) \cup P(new, n + 1)
      OBVIOUS
    <2>6. P(old, n + 1) = P(old, n)
      BY <2>3
    <2>7. P(new, n + 1) = {[path |-> p, length |-> n + 1] : p \in ListedPaths(new, filter)}
      BY <2>4 DEF ListedPaths
    <2> QED
      BY <2>2, <2>5, <2>6, <2>7
  <1>5. PathsWithin(live, seeds, n, filter) = P(old, n)
    BY <1>1
  <1> HIDE DEF P
  <1> QED
    BY <1>2, <1>3, <1>4, <1>5

\* Paths stay what they are where no relationship is added.
LEMMA PathsStay ==
    ASSUME NEW seeds, NEW n \in Nat, NEW filter, NEW d \in Nat, n <= d, Reached(live, seeds, d) = Reached(live, seeds, n)
    PROVE  PathsWithin(live, seeds, d, filter) = PathsWithin(live, seeds, n, filter)
  <1> DEFINE P(E, k) == UNION {{[path |-> Path(e, c, Coalesce(e.weight, 1)), length |-> Distance(live, seeds, k, e)] : c \in Listed(e, filter)}
                                 : e \in E}
             old == Reached(live, seeds, n)
  <1>1. PathsWithin(live, seeds, d, filter) = P(old, d) /\ PathsWithin(live, seeds, n, filter) = P(old, n)
    BY DEF PathsWithin
  <1>2. \A e \in old : Distance(live, seeds, d, e) = Distance(live, seeds, n, e)
    BY DistanceKept
  <1> HIDE DEF old
  <1> QED
    BY <1>1, <1>2

-----------------------------------------------------------------------------
(* Graph reads: folding a step over rows                                   *)

\* A recursion over the subsets of 1..n that takes the greatest away has a solution.
FoldSolves(g, n, V, base, op) ==
    /\ \A s \in SUBSET (1..n) : g[s] \in V
    /\ g = [s \in SUBSET (1..n) |-> IF s = {} THEN base ELSE op[<<g[s \ {Max(s)}], Max(s)>>]]

\* There is a fold over 1..n, whatever the step does.
LEMMA FoldExists ==
    ASSUME NEW n \in Nat, NEW V, NEW base \in V, NEW op \in [V \X (1..n) -> V]
    PROVE  \E g : FoldSolves(g, n, V, base, op)
  <1> DEFINE S == 1..n
             Term(g, s) == IF s = {} THEN base ELSE op[<<g[s \ {Max(s)}], Max(s)>>]
             Sized(k) == {s \in SUBSET S : Cardinality(s) <= k}
             Solves(g, D) == (\A s \in D : g[s] \in V) /\ g = [s \in D |-> Term(g, s)]
             A == {k \in Nat : \E g : Solves(g, Sized(k))}
  <1>1. /\ Cardinality(S) = n /\ IsFiniteSet(S)
        /\ \A s \in SUBSET S : IsFiniteSet(s) /\ Cardinality(s) \in Nat /\ Cardinality(s) <= n
    <2>1. IsFiniteSet(S) /\ Cardinality(S) = n
      BY FS_Interval
    <2> HIDE DEF S
    <2> QED
      BY <2>1, FS_CardinalityType, FS_Subset
  <1>2. \A s \in SUBSET S : s # {} => /\ Max(s) \in s /\ Max(s) \in S /\ s \ {Max(s)} \in SUBSET S
                                      /\ Cardinality(s \ {Max(s)}) = Cardinality(s) - 1
    <2> SUFFICES ASSUME NEW s \in SUBSET S, s # {}
                 PROVE  /\ Max(s) \in s /\ Max(s) \in S /\ s \ {Max(s)} \in SUBSET S
                        /\ Cardinality(s \ {Max(s)}) = Cardinality(s) - 1
      OBVIOUS
    <2>1. s \in SUBSET Int
      OBVIOUS
    <2> HIDE DEF S
    <2>2. Max(s) \in s
      BY <1>1, <2>1, GreatestIs
    <2> QED
      BY <1>1, <2>2, FS_RemoveElement
  <1>3. \A s \in SUBSET S : Cardinality(s) = 0 <=> s = {}
    BY <1>1, FS_EmptySet
  <1> HIDE DEF S
  <1>4. 0 \in A
    <2> DEFINE g == [s \in Sized(0) |-> base]
    <2>1. \A s \in Sized(0) : s = {}
      BY <1>1, <1>3
    <2>2. Solves(g, Sized(0))
      BY <2>1
    <2> QED
      BY <2>2
  <1>5. ASSUME NEW k \in 1..n, k - 1 \in A PROVE k \in A
    <2>1. PICK g : Solves(g, Sized(k - 1))
      BY <1>5
    <2> DEFINE h == [s \in Sized(k) |-> IF Cardinality(s) < k THEN g[s] ELSE op[<<g[s \ {Max(s)}], Max(s)>>]]
    <2>2. ASSUME NEW s \in Sized(k) PROVE h[s] = Term(h, s) /\ h[s] \in V
      <3>0. s \in SUBSET S /\ Cardinality(s) \in Nat /\ Cardinality(s) <= k
        BY <1>1
      <3> DEFINE r == s \ {Max(s)}
      <3>1. s # {} => r \in Sized(k) /\ r \in Sized(k - 1) /\ Cardinality(r) < k /\ Max(s) \in S
        BY <1>1, <1>2, <3>0
      <3>2. s # {} => h[r] = g[r] /\ g[r] \in V
        BY <2>1, <3>1
      <3>3. CASE Cardinality(s) < k
        <4>1. s \in Sized(k - 1)
          BY <3>0, <3>3
        <4>2. g[s] = Term(g, s) /\ g[s] \in V
          BY <2>1, <4>1
        <4>3. h[s] = g[s]
          BY <3>3
        <4> QED
          BY <3>2, <4>2, <4>3
      <3>4. CASE ~(Cardinality(s) < k)
        <4>1. s # {}
          BY <1>3, <3>0, <3>4
        <4>2. h[s] = op[<<g[r], Max(s)>>]
          BY <3>4
        <4> HIDE DEF h, r
        <4>3. <<g[r], Max(s)>> \in V \X S
          BY <3>1, <3>2, <4>1
        <4>4. h[s] \in V
          BY <4>2, <4>3 DEF S
        <4>5. h[s] = op[<<h[r], Max(s)>>]
          BY <3>2, <4>1, <4>2
        <4> QED
          BY <4>1, <4>4, <4>5 DEF r
      <3> QED
        BY <3>3, <3>4
    <2>3. Solves(h, Sized(k))
      <3>1. h = [s \in Sized(k) |-> h[s]]
        OBVIOUS
      <3> HIDE DEF h, Term, Sized
      <3> QED
        BY <2>2, <3>1
    <2> HIDE DEF h, Solves, Sized, Term
    <2>4. k \in Nat
      OBVIOUS
    <2>5. \E f : Solves(f, Sized(k))
      BY <2>3
    <2> QED
      BY <2>4, <2>5
  <1>6. n \in A
    <2> HIDE DEF A
    <2> QED
      BY <1>4, <1>5, CountUp
  <1>7. Sized(n) = SUBSET S
    BY <1>1
  <1>8. PICK g : Solves(g, SUBSET S)
    BY <1>6, <1>7
  <1> QED
    BY <1>8 DEF S, FoldSolves

\* The greatest of 1..i, and what is left without it.
LEMMA GreatestOfRange == ASSUME NEW i \in Nat, i > 0 PROVE Max(1..i) = i /\ (1..i) \ {Max(1..i)} = 1..(i - 1)
  <1>1. i \in 1..i /\ \A y \in 1..i : i >= y
    OBVIOUS
  <1>2. Max(1..i) \in 1..i /\ \A y \in 1..i : Max(1..i) >= y
    BY <1>1 DEF Max
  <1>3. Max(1..i) = i
    BY <1>1, <1>2
  <1> QED
    BY <1>3

-----------------------------------------------------------------------------
(* Graph reads: the rows of a subgraph                                     *)

FoundIn(G) == [path : PathsOver(G), length : Nat]
TraversalsOf(G) ==
    [kind : {"subgraph", "paths", "simulation"}, request : Requests, limit : Nat, at : Nat,
     nodes : SUBSET Int, frontier : SUBSET Int, known : SUBSET Int, next : SUBSET Int,
     rels : SUBSET G, visited : SUBSET G, paths : SUBSET FoundIn(G),
     stop : BOOLEAN, nodeCut : BOOLEAN, relCut : BOOLEAN, frontierCut : BOOLEAN, pathCut : BOOLEAN]

\* What the rows of a frontier leave alone.
SameDepth(d, q) ==
    /\ d.kind = q.kind /\ d.request = q.request /\ d.limit = q.limit /\ d.at = q.at
    /\ d.frontier = q.frontier /\ d.known = q.known /\ d.frontierCut = q.frontierCut

\* A traversal that has seen the relationships R.
BothEnds(R) == UNION {{e.src, e.dst} : e \in R}
Neighbors(R, frontier) == {Neighbor(e, frontier) : e \in R}

\* One row of the subgraph either raises a cut or takes its relationship and both ends.
LEMMA SubgraphRowIs ==
    ASSUME GraphOk(live), NEW q \in TraversalsOf(live), NEW e \in live
    PROVE  LET d == SubgraphRow(q, e)
           IN  /\ d \in TraversalsOf(live) /\ SameDepth(d, q) /\ d.paths = q.paths /\ d.pathCut = q.pathCut
               /\ q.nodeCut \/ q.relCut => d.nodeCut \/ d.relCut
               /\ ~q.stop => \/ d.nodeCut \/ d.relCut
                             \/ /\ ~d.stop
                                /\ d.nodes = q.nodes \cup {e.src, e.dst}
                                /\ d.visited = q.visited \cup {e} /\ d.rels = q.rels \cup {e}
                                /\ d.next = q.next \cup ({Neighbor(e, q.frontier)} \ q.known)
  <1> DEFINE d == SubgraphRow(q, e)
             first == IF HasRoom(q, q.nodes, e.src) THEN q.nodes \cup {e.src} ELSE q.nodes
             room  == HasRoom(q, q.nodes, e.src) /\ HasRoom(q, first, e.dst)
             full  == Cardinality(q.rels) >= q.limit
             n     == Neighbor(e, q.frontier)
  <1>1. e.src \in Int /\ e.dst \in Int /\ n \in Int
    BY DEF GraphOk, RelationOk, Neighbor
  <1>2. first \in SUBSET Int /\ (room => first = q.nodes \cup {e.src})
    BY <1>1 DEF TraversalsOf
  <1>3. d = IF q.stop THEN q
            ELSE IF ~room THEN [q EXCEPT !.visited = @ \cup {e}, !.nodes = first, !.nodeCut = TRUE]
            ELSE IF full  THEN [q EXCEPT !.visited = @ \cup {e}, !.nodes = first \cup {e.dst},
                                         !.relCut = TRUE, !.stop = TRUE]
            ELSE [q EXCEPT !.visited = @ \cup {e}, !.nodes = first \cup {e.dst}, !.rels = @ \cup {e},
                           !.next = @ \cup ({n} \ q.known)]
    BY DEF SubgraphRow
  <1> HIDE DEF d, first, room, full, n
  <1>4. CASE q.stop
    BY <1>3, <1>4 DEF SameDepth, d
  <1>5. CASE ~q.stop /\ ~room
    <2>1. d = [q EXCEPT !.visited = @ \cup {e}, !.nodes = first, !.nodeCut = TRUE]
      BY <1>3, <1>5
    <2>2. d \in TraversalsOf(live) /\ SameDepth(d, q) /\ d.paths = q.paths /\ d.pathCut = q.pathCut
      BY <1>2, <2>1 DEF SameDepth, TraversalsOf
    <2>3. d.nodeCut
      BY <2>1 DEF TraversalsOf
    <2> QED
      BY <2>2, <2>3 DEF d
  <1>6. CASE ~q.stop /\ room /\ full
    <2>1. d = [q EXCEPT !.visited = @ \cup {e}, !.nodes = first \cup {e.dst}, !.relCut = TRUE, !.stop = TRUE]
      BY <1>3, <1>6
    <2>2. d \in TraversalsOf(live) /\ SameDepth(d, q) /\ d.paths = q.paths /\ d.pathCut = q.pathCut
      BY <1>1, <1>2, <2>1 DEF SameDepth, TraversalsOf
    <2>3. d.relCut
      BY <2>1 DEF TraversalsOf
    <2> QED
      BY <2>2, <2>3 DEF d
  <1>7. CASE ~q.stop /\ room /\ ~full
    <2>1. d = [q EXCEPT !.visited = @ \cup {e}, !.nodes = first \cup {e.dst}, !.rels = @ \cup {e},
                        !.next = @ \cup ({n} \ q.known)]
      BY <1>3, <1>7
    <2>2. d \in TraversalsOf(live) /\ SameDepth(d, q) /\ d.paths = q.paths /\ d.pathCut = q.pathCut
      BY <1>1, <1>2, <2>1 DEF SameDepth, TraversalsOf
    <2>3. d.nodeCut = q.nodeCut /\ d.relCut = q.relCut /\ d.stop = q.stop
      BY <2>1 DEF TraversalsOf
    <2>4. d.nodes = q.nodes \cup {e.src, e.dst}
      BY <1>2, <1>7, <2>1 DEF TraversalsOf
    <2>5. d.visited = q.visited \cup {e} /\ d.rels = q.rels \cup {e} /\ d.next = q.next \cup ({n} \ q.known)
      BY <2>1 DEF TraversalsOf
    <2> QED
      BY <1>7, <2>2, <2>3, <2>4, <2>5 DEF d, n
  <1> QED
    BY <1>4, <1>5, <1>6, <1>7

\* The rows are taken one after the other.
LEMMA SubgraphRowsStep ==
    ASSUME GraphOk(live), NEW q \in TraversalsOf(live), NEW rows \in Seq(live)
    PROVE  \E f : /\ f[0] = q /\ SubgraphRows(q, rows) = f[Len(rows)]
                  /\ \A i \in 1..Len(rows) : f[i] = SubgraphRow(f[i - 1], rows[i])
  <1> DEFINE N == Len(rows)
             op == [x \in TraversalsOf(live) \X (1..N) |-> SubgraphRow(x[1], rows[x[2]])]
             Solves(g) == g = [s \in SUBSET (1..N) |-> IF s = {} THEN q ELSE SubgraphRow(g[s \ {Max(s)}], rows[Max(s)])]
             iter == CHOOSE g : Solves(g)
  <1>1. N \in Nat /\ DOMAIN rows = 1..N /\ \A i \in 1..N : rows[i] \in live
    OBVIOUS
  <1>2. SubgraphRows(q, rows) = iter[1..N]
    BY <1>1 DEF SubgraphRows, FoldLeft, MapThenFoldSet
  <1> HIDE DEF N
  <1>3. op \in [TraversalsOf(live) \X (1..N) -> TraversalsOf(live)]
    BY <1>1, SubgraphRowIs
  <1> HIDE DEF op
  <1>4. PICK g : FoldSolves(g, N, TraversalsOf(live), q, op)
    <2>1. N \in Nat /\ q \in TraversalsOf(live)
      BY <1>1
    <2> QED
      BY ONLY <2>1, <1>3, FoldExists
  <1>5. Solves(g)
    <2>1. ASSUME NEW s \in SUBSET (1..N), s # {}
          PROVE  op[<<g[s \ {Max(s)}], Max(s)>>] = SubgraphRow(g[s \ {Max(s)}], rows[Max(s)])
      <3>1. s \in SUBSET Int /\ IsFiniteSet(s)
        <4>1. IsFiniteSet(1..N)
          BY <1>1, FS_Interval
        <4>2. IsFiniteSet(s)
          BY <4>1, FS_Subset
        <4>3. 1..N \in SUBSET Int
          OBVIOUS
        <4> QED
          BY <4>2, <4>3
      <3>2. Max(s) \in s
        BY <2>1, <3>1, GreatestIs
      <3>3. s \ {Max(s)} \in SUBSET (1..N)
        OBVIOUS
      <3>4. g[s \ {Max(s)}] \in TraversalsOf(live)
        BY <1>4, <3>3 DEF FoldSolves
      <3>5. <<g[s \ {Max(s)}], Max(s)>> \in TraversalsOf(live) \X (1..N)
        BY <3>2, <3>4
      <3> QED
        BY <3>5 DEF op
    <2> QED
      BY <1>4, <2>1 DEF FoldSolves
  <1>6. Solves(iter)
    <2> HIDE DEF Solves
    <2> QED
      BY <1>5
  <1> HIDE DEF iter
  <1> DEFINE f == [i \in 0..N |-> iter[1..i]]
  <1>7. f[0] = q
    <2>1. 1..0 = {} /\ {} \in SUBSET (1..N) /\ 0 \in 0..N
      BY <1>1
    <2>2. iter[{}] = q
      BY <1>6, <2>1
    <2> QED
      BY <2>1, <2>2
  <1>8. ASSUME NEW i \in 1..N PROVE f[i] = SubgraphRow(f[i - 1], rows[i])
    <2>0. i \in Nat /\ i > 0 /\ i \in 0..N /\ i - 1 \in 0..N /\ i <= N
      BY <1>1
    <2>a. 1..i \in SUBSET (1..N) /\ 1..i # {}
      <3>1. i \in 1..i
        BY <2>0
      <3>2. \A j \in 1..i : j \in 1..N
        BY <1>1, <2>0
      <3> QED
        BY <3>1, <3>2
    <2>1. i \in Nat /\ i > 0 /\ i \in 0..N /\ i - 1 \in 0..N /\ 1..i \in SUBSET (1..N) /\ 1..i # {}
      BY <2>0, <2>a
    <2>2. Max(1..i) = i /\ (1..i) \ {Max(1..i)} = 1..(i - 1)
      BY <2>1, GreatestOfRange
    <2>3. iter[1..i] = SubgraphRow(iter[(1..i) \ {Max(1..i)}], rows[Max(1..i)])
      BY <1>6, <2>1
    <2>4. f[i] = iter[1..i] /\ f[i - 1] = iter[1..(i - 1)]
      BY <2>1
    <2> HIDE DEF f
    <2> QED
      BY <2>2, <2>3, <2>4
  <1>9. f[N] = iter[1..N]
    BY <1>1
  <1> HIDE DEF f
  <1>10. SubgraphRows(q, rows) = f[N]
    BY <1>2, <1>9
  <1> QED
    BY <1>7, <1>8, <1>10 DEF N

\* All the rows of a depth: without a cut, every one is seen.
LEMMA SubgraphRowsAre ==
    ASSUME GraphOk(live), NEW q \in TraversalsOf(live), ~q.stop, NEW rows \in Seq(live)
    PROVE  LET d == SubgraphRows(q, rows)
               R == ToSet(rows)
           IN  /\ d \in TraversalsOf(live) /\ SameDepth(d, q) /\ d.paths = q.paths /\ d.pathCut = q.pathCut
               /\ q.nodeCut \/ q.relCut => d.nodeCut \/ d.relCut
               /\ \/ d.nodeCut \/ d.relCut
                  \/ /\ ~d.stop
                     /\ d.nodes = q.nodes \cup BothEnds(R)
                     /\ d.visited = q.visited \cup R /\ d.rels = q.rels \cup R
                     /\ d.next = q.next \cup (Neighbors(R, q.frontier) \ q.known)
  <1>1. PICK f : /\ f[0] = q /\ SubgraphRows(q, rows) = f[Len(rows)]
                 /\ \A i \in 1..Len(rows) : f[i] = SubgraphRow(f[i - 1], rows[i])
    BY SubgraphRowsStep
  <1> DEFINE n == Len(rows)
             R(i) == {rows[j] : j \in 1..i}
             Sound(d, S) ==
                  /\ d \in TraversalsOf(live) /\ SameDepth(d, q) /\ d.paths = q.paths /\ d.pathCut = q.pathCut
                  /\ q.nodeCut \/ q.relCut => d.nodeCut \/ d.relCut
                  /\ \/ d.nodeCut \/ d.relCut
                     \/ /\ ~d.stop
                        /\ d.nodes = q.nodes \cup BothEnds(S)
                        /\ d.visited = q.visited \cup S /\ d.rels = q.rels \cup S
                        /\ d.next = q.next \cup (Neighbors(S, q.frontier) \ q.known)
             A == {i \in Nat : Sound(f[i], R(i))}
  <1>2. n \in Nat /\ DOMAIN rows = 1..n /\ \A i \in 1..n : rows[i] \in live
    OBVIOUS
  <1> HIDE DEF n
  <1>3. 0 \in A
    <2>1. R(0) = {}
      OBVIOUS
    <2>2. SameDepth(q, q)
      BY DEF SameDepth
    <2>3. Sound(q, {})
      BY <2>2 DEF BothEnds, Neighbors
    <2> HIDE DEF Sound, R
    <2> QED
      BY <1>1, <2>1, <2>3
  <1>4. ASSUME NEW i \in 1..n, i - 1 \in A PROVE i \in A
    <2> DEFINE b == f[i - 1]
               d == SubgraphRow(b, rows[i])
               S == R(i - 1)
               e == rows[i]
    <2>1. R(i) = S \cup {e}
      <3>1. \A j \in 1..i : j \in 1..(i - 1) \/ j = i
        OBVIOUS
      <3> QED
        BY <3>1
    <2>2. Sound(b, S) /\ e \in live /\ f[i] = d
      BY <1>1, <1>2, <1>4 DEF n
    <2> HIDE DEF b, d, S, e, R
    <2>3. /\ d \in TraversalsOf(live) /\ SameDepth(d, b) /\ d.paths = b.paths /\ d.pathCut = b.pathCut
          /\ b.nodeCut \/ b.relCut => d.nodeCut \/ d.relCut
          /\ ~b.stop => \/ d.nodeCut \/ d.relCut
                        \/ /\ ~d.stop
                           /\ d.nodes = b.nodes \cup {e.src, e.dst}
                           /\ d.visited = b.visited \cup {e} /\ d.rels = b.rels \cup {e}
                           /\ d.next = b.next \cup ({Neighbor(e, b.frontier)} \ b.known)
      BY <2>2, SubgraphRowIs DEF d, e
    <2>4. BothEnds(S \cup {e}) = BothEnds(S) \cup {e.src, e.dst}
          /\ Neighbors(S \cup {e}, q.frontier) = Neighbors(S, q.frontier) \cup {Neighbor(e, q.frontier)}
      BY DEF BothEnds, Neighbors
    <2>5. /\ d \in TraversalsOf(live) /\ SameDepth(d, q) /\ d.paths = q.paths /\ d.pathCut = q.pathCut
          /\ q.nodeCut \/ q.relCut => d.nodeCut \/ d.relCut
      BY <2>2, <2>3 DEF SameDepth
    <2>6. b.frontier = q.frontier /\ b.known = q.known
      BY <2>2 DEF SameDepth
    <2>7. \/ d.nodeCut \/ d.relCut
          \/ /\ ~d.stop
             /\ d.nodes = q.nodes \cup BothEnds(S \cup {e})
             /\ d.visited = q.visited \cup (S \cup {e}) /\ d.rels = q.rels \cup (S \cup {e})
             /\ d.next = q.next \cup (Neighbors(S \cup {e}, q.frontier) \ q.known)
      <3> SUFFICES ASSUME ~(d.nodeCut \/ d.relCut)
                   PROVE  /\ ~d.stop
                          /\ d.nodes = q.nodes \cup BothEnds(S \cup {e})
                          /\ d.visited = q.visited \cup (S \cup {e}) /\ d.rels = q.rels \cup (S \cup {e})
                          /\ d.next = q.next \cup (Neighbors(S \cup {e}, q.frontier) \ q.known)
        OBVIOUS
      <3>1. /\ ~b.stop
            /\ b.nodes = q.nodes \cup BothEnds(S)
            /\ b.visited = q.visited \cup S /\ b.rels = q.rels \cup S
            /\ b.next = q.next \cup (Neighbors(S, q.frontier) \ q.known)
        BY <2>2, <2>3
      <3>2. /\ ~d.stop
            /\ d.nodes = b.nodes \cup {e.src, e.dst}
            /\ d.visited = b.visited \cup {e} /\ d.rels = b.rels \cup {e}
            /\ d.next = b.next \cup ({Neighbor(e, b.frontier)} \ b.known)
        BY <2>3, <3>1
      <3> QED
        BY <2>4, <2>6, <3>1, <3>2
    <2>8. Sound(d, S \cup {e})
      BY <2>5, <2>7
    <2> HIDE DEF Sound
    <2>9. i \in Nat
      OBVIOUS
    <2> QED
      BY <2>1, <2>2, <2>8, <2>9
  <1>5. Sound(f[n], R(n))
    <2>1. n \in A
      <3> HIDE DEF A
      <3> QED
        BY <1>2, <1>3, <1>4, CountUp
    <2> QED
      BY <2>1
  <1>6. R(n) = ToSet(rows)
    BY <1>2 DEF ToSet
  <1> HIDE DEF R, Sound
  <1>7. Sound(SubgraphRows(q, rows), ToSet(rows))
    BY <1>1, <1>5, <1>6 DEF n
  <1> QED
    BY <1>7 DEF Sound

-----------------------------------------------------------------------------
(* Graph reads: the rows of a path query                                   *)

\* One row of the frontier either raises a cut or takes the neighbour.
LEMMA PathFrontierRowIs ==
    ASSUME GraphOk(live), NEW q \in TraversalsOf(live), NEW e \in live
    PROVE  LET d == PathFrontierRow(q, e)
           IN  /\ d \in TraversalsOf(live) /\ SameDepth(d, q) /\ d.paths = q.paths /\ d.pathCut = q.pathCut
               /\ d.rels = q.rels /\ d.stop = q.stop /\ d.relCut = q.relCut
               /\ q.nodeCut => d.nodeCut
               /\ d.visited = q.visited \cup {e}
               /\ d.nodeCut \/ /\ d.nodes = q.nodes \cup {Neighbor(e, q.frontier)}
                               /\ d.next = q.next \cup ({Neighbor(e, q.frontier)} \ q.known)
  <1> DEFINE d == PathFrontierRow(q, e)
             n == Neighbor(e, q.frontier)
             room == HasRoom(q, q.nodes, n)
  <1>1. n \in Int
    BY DEF GraphOk, RelationOk, Neighbor
  <1>2. d = [q EXCEPT !.visited = @ \cup {e},
                      !.nodes = IF room THEN @ \cup {n} ELSE @,
                      !.nodeCut = @ \/ ~room,
                      !.next = IF room THEN @ \cup ({n} \ q.known) ELSE @]
    BY DEF PathFrontierRow
  <1>3. room \in BOOLEAN
    BY DEF HasRoom
  <1> HIDE DEF d, n, room
  <1> DEFINE w == IF room THEN q.nodes \cup {n} ELSE q.nodes
             x == IF room THEN q.next \cup ({n} \ q.known) ELSE q.next
             c == q.nodeCut \/ ~room
  <1>4. d = [q EXCEPT !.visited = q.visited \cup {e}, !.nodes = w, !.nodeCut = c, !.next = x]
    BY <1>2
  <1>5. w \in SUBSET Int /\ x \in SUBSET Int /\ c \in BOOLEAN
    BY <1>1, <1>3 DEF TraversalsOf
  <1> HIDE DEF w, x, c
  <1>6. /\ d \in TraversalsOf(live) /\ SameDepth(d, q) /\ d.paths = q.paths /\ d.pathCut = q.pathCut
        /\ d.rels = q.rels /\ d.stop = q.stop /\ d.relCut = q.relCut
    BY <1>4, <1>5 DEF SameDepth, TraversalsOf
  <1>7. d.visited = q.visited \cup {e} /\ d.nodes = w /\ d.next = x /\ d.nodeCut = c
    BY <1>4 DEF TraversalsOf
  <1>8. (q.nodeCut => c) /\ (c \/ (w = q.nodes \cup {n} /\ x = q.next \cup ({n} \ q.known)))
    BY DEF w, x, c
  <1> QED
    BY <1>6, <1>7, <1>8 DEF d, n

\* The rows are taken one after the other.
LEMMA PathFrontierRowsStep ==
    ASSUME GraphOk(live), NEW q \in TraversalsOf(live), NEW rows \in Seq(live)
    PROVE  \E f : /\ f[0] = q /\ PathFrontierRows(q, rows) = f[Len(rows)]
                  /\ \A i \in 1..Len(rows) : f[i] = PathFrontierRow(f[i - 1], rows[i])
  <1> DEFINE N == Len(rows)
             op == [x \in TraversalsOf(live) \X (1..N) |-> PathFrontierRow(x[1], rows[x[2]])]
             Solves(g) == g = [s \in SUBSET (1..N) |-> IF s = {} THEN q ELSE PathFrontierRow(g[s \ {Max(s)}], rows[Max(s)])]
             iter == CHOOSE g : Solves(g)
  <1>1. N \in Nat /\ DOMAIN rows = 1..N /\ \A i \in 1..N : rows[i] \in live
    OBVIOUS
  <1>2. PathFrontierRows(q, rows) = iter[1..N]
    BY <1>1 DEF PathFrontierRows, FoldLeft, MapThenFoldSet
  <1> HIDE DEF N
  <1>3. op \in [TraversalsOf(live) \X (1..N) -> TraversalsOf(live)]
    BY <1>1, PathFrontierRowIs
  <1> HIDE DEF op
  <1>4. PICK g : FoldSolves(g, N, TraversalsOf(live), q, op)
    <2>1. N \in Nat /\ q \in TraversalsOf(live)
      BY <1>1
    <2> QED
      BY ONLY <2>1, <1>3, FoldExists
  <1>5. Solves(g)
    <2>1. ASSUME NEW s \in SUBSET (1..N), s # {}
          PROVE  op[<<g[s \ {Max(s)}], Max(s)>>] = PathFrontierRow(g[s \ {Max(s)}], rows[Max(s)])
      <3>1. s \in SUBSET Int /\ IsFiniteSet(s)
        <4>1. IsFiniteSet(1..N)
          BY <1>1, FS_Interval
        <4>2. IsFiniteSet(s)
          BY <4>1, FS_Subset
        <4>3. 1..N \in SUBSET Int
          OBVIOUS
        <4> QED
          BY <4>2, <4>3
      <3>2. Max(s) \in s
        BY <2>1, <3>1, GreatestIs
      <3>3. s \ {Max(s)} \in SUBSET (1..N)
        OBVIOUS
      <3>4. g[s \ {Max(s)}] \in TraversalsOf(live)
        BY <1>4, <3>3 DEF FoldSolves
      <3>5. <<g[s \ {Max(s)}], Max(s)>> \in TraversalsOf(live) \X (1..N)
        BY <3>2, <3>4
      <3> QED
        BY <3>5 DEF op
    <2> QED
      BY <1>4, <2>1 DEF FoldSolves
  <1>6. Solves(iter)
    <2> HIDE DEF Solves
    <2> QED
      BY <1>5
  <1> HIDE DEF iter
  <1> DEFINE f == [i \in 0..N |-> iter[1..i]]
  <1>7. f[0] = q
    <2>1. 1..0 = {} /\ {} \in SUBSET (1..N) /\ 0 \in 0..N
      BY <1>1
    <2>2. iter[{}] = q
      BY <1>6, <2>1
    <2> QED
      BY <2>1, <2>2
  <1>8. ASSUME NEW i \in 1..N PROVE f[i] = PathFrontierRow(f[i - 1], rows[i])
    <2>0. i \in Nat /\ i > 0 /\ i \in 0..N /\ i - 1 \in 0..N /\ i <= N
      BY <1>1
    <2>a. 1..i \in SUBSET (1..N) /\ 1..i # {}
      <3>1. i \in 1..i
        BY <2>0
      <3>2. \A j \in 1..i : j \in 1..N
        BY <1>1, <2>0
      <3> QED
        BY <3>1, <3>2
    <2>1. i \in Nat /\ i > 0 /\ i \in 0..N /\ i - 1 \in 0..N /\ 1..i \in SUBSET (1..N) /\ 1..i # {}
      BY <2>0, <2>a
    <2>2. Max(1..i) = i /\ (1..i) \ {Max(1..i)} = 1..(i - 1)
      BY <2>1, GreatestOfRange
    <2>3. iter[1..i] = PathFrontierRow(iter[(1..i) \ {Max(1..i)}], rows[Max(1..i)])
      BY <1>6, <2>1
    <2>4. f[i] = iter[1..i] /\ f[i - 1] = iter[1..(i - 1)]
      BY <2>1
    <2> HIDE DEF f
    <2> QED
      BY <2>2, <2>3, <2>4
  <1>9. f[N] = iter[1..N]
    BY <1>1
  <1> HIDE DEF f
  <1>10. PathFrontierRows(q, rows) = f[N]
    BY <1>2, <1>9
  <1> QED
    BY <1>7, <1>8, <1>10 DEF N

\* All the rows of a frontier: without a cut, every neighbour is taken.
LEMMA PathFrontierRowsAre ==
    ASSUME GraphOk(live), NEW q \in TraversalsOf(live), NEW rows \in Seq(live)
    PROVE  LET d == PathFrontierRows(q, rows)
               R == ToSet(rows)
           IN  /\ d \in TraversalsOf(live) /\ SameDepth(d, q) /\ d.paths = q.paths /\ d.pathCut = q.pathCut
               /\ d.rels = q.rels /\ d.stop = q.stop /\ d.relCut = q.relCut
               /\ q.nodeCut => d.nodeCut
               /\ d.visited = q.visited \cup R
               /\ d.nodeCut \/ /\ d.nodes = q.nodes \cup Neighbors(R, q.frontier)
                               /\ d.next = q.next \cup (Neighbors(R, q.frontier) \ q.known)
  <1>1. PICK f : /\ f[0] = q /\ PathFrontierRows(q, rows) = f[Len(rows)]
                 /\ \A i \in 1..Len(rows) : f[i] = PathFrontierRow(f[i - 1], rows[i])
    BY PathFrontierRowsStep
  <1> DEFINE n == Len(rows)
             R(i) == {rows[j] : j \in 1..i}
             Same(d) == /\ d \in TraversalsOf(live) /\ SameDepth(d, q) /\ d.paths = q.paths /\ d.pathCut = q.pathCut
                        /\ d.rels = q.rels /\ d.stop = q.stop /\ d.relCut = q.relCut
                        /\ q.nodeCut => d.nodeCut
             Sound(d, S) ==
                  /\ Same(d)
                  /\ d.visited = q.visited \cup S
                  /\ d.nodeCut \/ /\ d.nodes = q.nodes \cup Neighbors(S, q.frontier)
                                  /\ d.next = q.next \cup (Neighbors(S, q.frontier) \ q.known)
             A == {i \in Nat : Sound(f[i], R(i))}
  <1>2. n \in Nat /\ DOMAIN rows = 1..n /\ \A i \in 1..n : rows[i] \in live
    OBVIOUS
  <1> HIDE DEF n
  <1>3. 0 \in A
    <2>1. R(0) = {}
      OBVIOUS
    <2>2. SameDepth(q, q)
      BY DEF SameDepth
    <2>3. Sound(q, {})
      BY <2>2 DEF Neighbors
    <2> HIDE DEF Sound, R
    <2> QED
      BY <1>1, <2>1, <2>3
  <1>4. ASSUME NEW i \in 1..n, i - 1 \in A PROVE i \in A
    <2> DEFINE b == f[i - 1]
               d == PathFrontierRow(b, rows[i])
               S == R(i - 1)
               e == rows[i]
    <2>1. R(i) = S \cup {e}
      <3>1. \A j \in 1..i : j \in 1..(i - 1) \/ j = i
        OBVIOUS
      <3> QED
        BY <3>1
    <2>2. Sound(b, S) /\ e \in live /\ f[i] = d
      BY <1>1, <1>2, <1>4 DEF n
    <2> HIDE DEF b, d, S, e, R
    <2>3. /\ d \in TraversalsOf(live) /\ SameDepth(d, b) /\ d.paths = b.paths /\ d.pathCut = b.pathCut
          /\ d.rels = b.rels /\ d.stop = b.stop /\ d.relCut = b.relCut
          /\ b.nodeCut => d.nodeCut
          /\ d.visited = b.visited \cup {e}
          /\ d.nodeCut \/ /\ d.nodes = b.nodes \cup {Neighbor(e, b.frontier)}
                          /\ d.next = b.next \cup ({Neighbor(e, b.frontier)} \ b.known)
      BY <2>2, PathFrontierRowIs DEF d, e
    <2>4. Neighbors(S \cup {e}, q.frontier) = Neighbors(S, q.frontier) \cup {Neighbor(e, q.frontier)}
      BY DEF Neighbors
    <2>5. Same(d)
      BY <2>2, <2>3 DEF SameDepth
    <2>6. b.frontier = q.frontier /\ b.known = q.known
      BY <2>2 DEF SameDepth
    <2>7. d.visited = q.visited \cup (S \cup {e})
      BY <2>2, <2>3
    <2>8. d.nodeCut \/ /\ d.nodes = q.nodes \cup Neighbors(S \cup {e}, q.frontier)
                       /\ d.next = q.next \cup (Neighbors(S \cup {e}, q.frontier) \ q.known)
      <3> SUFFICES ASSUME ~d.nodeCut
                   PROVE  /\ d.nodes = q.nodes \cup Neighbors(S \cup {e}, q.frontier)
                          /\ d.next = q.next \cup (Neighbors(S \cup {e}, q.frontier) \ q.known)
        OBVIOUS
      <3>1. /\ b.nodes = q.nodes \cup Neighbors(S, q.frontier)
            /\ b.next = q.next \cup (Neighbors(S, q.frontier) \ q.known)
        BY <2>2, <2>3
      <3>2. /\ d.nodes = b.nodes \cup {Neighbor(e, b.frontier)}
            /\ d.next = b.next \cup ({Neighbor(e, b.frontier)} \ b.known)
        BY <2>3
      <3> QED
        BY <2>4, <2>6, <3>1, <3>2
    <2>9. Sound(d, S \cup {e})
      BY <2>5, <2>7, <2>8
    <2> HIDE DEF Sound
    <2>10. i \in Nat
      OBVIOUS
    <2> QED
      BY <2>1, <2>2, <2>9, <2>10
  <1>5. Sound(f[n], R(n))
    <2>1. n \in A
      <3> HIDE DEF A
      <3> QED
        BY <1>2, <1>3, <1>4, CountUp
    <2> QED
      BY <2>1
  <1>6. R(n) = ToSet(rows)
    BY <1>2 DEF ToSet
  <1> HIDE DEF R, Sound
  <1>7. Sound(PathFrontierRows(q, rows), ToSet(rows))
    BY <1>1, <1>5, <1>6 DEF n
  <1> QED
    BY <1>7 DEF Sound

\* A path that is found, unless there is no room or it is known.
LEMMA PathRowIs ==
    ASSUME GraphOk(live), NEW q \in TraversalsOf(live), NEW p \in PathsOver(live)
    PROVE  LET d == PathRow(q, p)
               x == [path |-> p, length |-> q.at]
           IN  /\ d \in TraversalsOf(live) /\ SameDepth(d, q) /\ d.nodes = q.nodes /\ d.next = q.next
               /\ d.visited = q.visited /\ d.rels = q.rels /\ d.stop = q.stop
               /\ d.nodeCut = q.nodeCut /\ d.relCut = q.relCut
               /\ q.pathCut => d.pathCut
               /\ d.paths \in {q.paths, q.paths \cup {x}}
               /\ \/ d.pathCut
                  \/ d.paths = q.paths \cup {x}
                  \/ d.paths = q.paths /\ \E y \in q.paths : y.path = p
  <1> DEFINE d == PathRow(q, p)
             x == [path |-> p, length |-> q.at]
             full == Cardinality(q.paths) >= q.limit * q.request.depth
  <1>1. x \in FoundIn(live)
    BY DEF FoundIn, TraversalsOf
  <1>2. d = IF full THEN [q EXCEPT !.pathCut = TRUE]
            ELSE IF \E y \in q.paths : y.path = p THEN q
            ELSE [q EXCEPT !.paths = q.paths \cup {x}]
    BY DEF PathRow
  <1> HIDE DEF d, x, full
  <1>3. CASE full
    <2>1. d = [q EXCEPT !.pathCut = TRUE]
      BY <1>2, <1>3
    <2>2. /\ d \in TraversalsOf(live) /\ SameDepth(d, q) /\ d.nodes = q.nodes /\ d.next = q.next
          /\ d.visited = q.visited /\ d.rels = q.rels /\ d.stop = q.stop
          /\ d.nodeCut = q.nodeCut /\ d.relCut = q.relCut
      BY <2>1 DEF SameDepth, TraversalsOf
    <2>3. d.pathCut /\ d.paths = q.paths
      BY <2>1 DEF TraversalsOf
    <2> QED
      BY <2>2, <2>3 DEF d
  <1>4. CASE ~full /\ \E y \in q.paths : y.path = p
    <2>1. d = q
      BY <1>2, <1>4
    <2> QED
      BY <1>4, <2>1 DEF SameDepth, d
  <1>5. CASE ~full /\ ~\E y \in q.paths : y.path = p
    <2>1. d = [q EXCEPT !.paths = q.paths \cup {x}]
      BY <1>2, <1>5
    <2>2. /\ d \in TraversalsOf(live) /\ SameDepth(d, q) /\ d.nodes = q.nodes /\ d.next = q.next
          /\ d.visited = q.visited /\ d.rels = q.rels /\ d.stop = q.stop
          /\ d.nodeCut = q.nodeCut /\ d.relCut = q.relCut /\ d.pathCut = q.pathCut
      BY <1>1, <2>1 DEF SameDepth, TraversalsOf
    <2>3. d.paths = q.paths \cup {x}
      BY <2>1 DEF TraversalsOf
    <2> QED
      BY <2>2, <2>3 DEF d, x
  <1> QED
    BY <1>3, <1>4, <1>5

\* The rows are taken one after the other.
LEMMA FoundRowsStep ==
    ASSUME GraphOk(live), NEW q \in TraversalsOf(live), NEW rows \in Seq(PathsOver(live))
    PROVE  \E f : /\ f[0] = q /\ FoundRows(q, rows) = f[Len(rows)]
                  /\ \A i \in 1..Len(rows) : f[i] = PathRow(f[i - 1], rows[i])
  <1> DEFINE N == Len(rows)
             op == [x \in TraversalsOf(live) \X (1..N) |-> PathRow(x[1], rows[x[2]])]
             Solves(g) == g = [s \in SUBSET (1..N) |-> IF s = {} THEN q ELSE PathRow(g[s \ {Max(s)}], rows[Max(s)])]
             iter == CHOOSE g : Solves(g)
  <1>1. N \in Nat /\ DOMAIN rows = 1..N /\ \A i \in 1..N : rows[i] \in PathsOver(live)
    OBVIOUS
  <1>2. FoundRows(q, rows) = iter[1..N]
    BY <1>1 DEF FoundRows, FoldLeft, MapThenFoldSet
  <1> HIDE DEF N
  <1>3. op \in [TraversalsOf(live) \X (1..N) -> TraversalsOf(live)]
    BY <1>1, PathRowIs
  <1> HIDE DEF op
  <1>4. PICK g : FoldSolves(g, N, TraversalsOf(live), q, op)
    <2>1. N \in Nat /\ q \in TraversalsOf(live)
      BY <1>1
    <2> QED
      BY ONLY <2>1, <1>3, FoldExists
  <1>5. Solves(g)
    <2>1. ASSUME NEW s \in SUBSET (1..N), s # {}
          PROVE  op[<<g[s \ {Max(s)}], Max(s)>>] = PathRow(g[s \ {Max(s)}], rows[Max(s)])
      <3>1. s \in SUBSET Int /\ IsFiniteSet(s)
        <4>1. IsFiniteSet(1..N)
          BY <1>1, FS_Interval
        <4>2. IsFiniteSet(s)
          BY <4>1, FS_Subset
        <4>3. 1..N \in SUBSET Int
          OBVIOUS
        <4> QED
          BY <4>2, <4>3
      <3>2. Max(s) \in s
        BY <2>1, <3>1, GreatestIs
      <3>3. s \ {Max(s)} \in SUBSET (1..N)
        OBVIOUS
      <3>4. g[s \ {Max(s)}] \in TraversalsOf(live)
        BY <1>4, <3>3 DEF FoldSolves
      <3>5. <<g[s \ {Max(s)}], Max(s)>> \in TraversalsOf(live) \X (1..N)
        BY <3>2, <3>4
      <3> QED
        BY <3>5 DEF op
    <2> QED
      BY <1>4, <2>1 DEF FoldSolves
  <1>6. Solves(iter)
    <2> HIDE DEF Solves
    <2> QED
      BY <1>5
  <1> HIDE DEF iter
  <1> DEFINE f == [i \in 0..N |-> iter[1..i]]
  <1>7. f[0] = q
    <2>1. 1..0 = {} /\ {} \in SUBSET (1..N) /\ 0 \in 0..N
      BY <1>1
    <2>2. iter[{}] = q
      BY <1>6, <2>1
    <2> QED
      BY <2>1, <2>2
  <1>8. ASSUME NEW i \in 1..N PROVE f[i] = PathRow(f[i - 1], rows[i])
    <2>0. i \in Nat /\ i > 0 /\ i \in 0..N /\ i - 1 \in 0..N /\ i <= N
      BY <1>1
    <2>a. 1..i \in SUBSET (1..N) /\ 1..i # {}
      <3>1. i \in 1..i
        BY <2>0
      <3>2. \A j \in 1..i : j \in 1..N
        BY <1>1, <2>0
      <3> QED
        BY <3>1, <3>2
    <2>1. i \in Nat /\ i > 0 /\ i \in 0..N /\ i - 1 \in 0..N /\ 1..i \in SUBSET (1..N) /\ 1..i # {}
      BY <2>0, <2>a
    <2>2. Max(1..i) = i /\ (1..i) \ {Max(1..i)} = 1..(i - 1)
      BY <2>1, GreatestOfRange
    <2>3. iter[1..i] = PathRow(iter[(1..i) \ {Max(1..i)}], rows[Max(1..i)])
      BY <1>6, <2>1
    <2>4. f[i] = iter[1..i] /\ f[i - 1] = iter[1..(i - 1)]
      BY <2>1
    <2> HIDE DEF f
    <2> QED
      BY <2>2, <2>3, <2>4
  <1>9. f[N] = iter[1..N]
    BY <1>1
  <1> HIDE DEF f
  <1>10. FoundRows(q, rows) = f[N]
    BY <1>2, <1>9
  <1> QED
    BY <1>7, <1>8, <1>10 DEF N
\* All the paths of a depth: without a cut, those not known before are added.
LEMMA FoundRowsAre ==
    ASSUME GraphOk(live), NEW q \in TraversalsOf(live), IsFiniteSet(q.paths), NEW rows \in Seq(PathsOver(live))
    PROVE  LET d == FoundRows(q, rows)
               new == {[path |-> p, length |-> q.at] : p \in ToSet(rows)}
           IN  /\ d \in TraversalsOf(live) /\ SameDepth(d, q) /\ d.nodes = q.nodes /\ d.next = q.next
               /\ d.visited = q.visited /\ d.rels = q.rels /\ d.stop = q.stop
               /\ d.nodeCut = q.nodeCut /\ d.relCut = q.relCut
               /\ q.pathCut => d.pathCut
               /\ IsFiniteSet(d.paths)
               /\ (\A x \in q.paths : x.path \notin ToSet(rows)) => d.pathCut \/ d.paths = q.paths \cup new
  <1>1. PICK f : /\ f[0] = q /\ FoundRows(q, rows) = f[Len(rows)]
                 /\ \A i \in 1..Len(rows) : f[i] = PathRow(f[i - 1], rows[i])
    BY FoundRowsStep
  <1> DEFINE n == Len(rows)
             R(i) == {rows[j] : j \in 1..i}
             New(S) == {[path |-> p, length |-> q.at] : p \in S}
             fresh == \A x \in q.paths : x.path \notin ToSet(rows)
             Same(d) == /\ d \in TraversalsOf(live) /\ SameDepth(d, q) /\ d.nodes = q.nodes /\ d.next = q.next
                        /\ d.visited = q.visited /\ d.rels = q.rels /\ d.stop = q.stop
                        /\ d.nodeCut = q.nodeCut /\ d.relCut = q.relCut
                        /\ q.pathCut => d.pathCut
             Sound(d, S) == /\ Same(d)
                            /\ IsFiniteSet(d.paths)
                            /\ fresh => d.pathCut \/ d.paths = q.paths \cup New(S)
             A == {i \in Nat : Sound(f[i], R(i))}
  <1>2. n \in Nat /\ DOMAIN rows = 1..n /\ \A i \in 1..n : rows[i] \in PathsOver(live) /\ rows[i] \in ToSet(rows)
    BY DEF ToSet
  <1> HIDE DEF n, fresh
  <1>3. 0 \in A
    <2>1. R(0) = {}
      OBVIOUS
    <2>2. SameDepth(q, q)
      BY DEF SameDepth
    <2>3. Sound(q, {})
      BY <2>2
    <2> HIDE DEF Sound, R
    <2> QED
      BY <1>1, <2>1, <2>3
  <1>4. ASSUME NEW i \in 1..n, i - 1 \in A PROVE i \in A
    <2> DEFINE b == f[i - 1]
               d == PathRow(b, rows[i])
               S == R(i - 1)
               p == rows[i]
               x == [path |-> p, length |-> b.at]
    <2>1. R(i) = S \cup {p}
      <3>1. \A j \in 1..i : j \in 1..(i - 1) \/ j = i
        OBVIOUS
      <3> QED
        BY <3>1
    <2>2. Sound(b, S) /\ p \in PathsOver(live) /\ p \in ToSet(rows) /\ f[i] = d
      BY <1>1, <1>2, <1>4 DEF n
    <2> HIDE DEF b, d, S, p, R, x
    <2>3. /\ d \in TraversalsOf(live) /\ SameDepth(d, b) /\ d.nodes = b.nodes /\ d.next = b.next
          /\ d.visited = b.visited /\ d.rels = b.rels /\ d.stop = b.stop
          /\ d.nodeCut = b.nodeCut /\ d.relCut = b.relCut
          /\ b.pathCut => d.pathCut
          /\ d.paths \in {b.paths, b.paths \cup {x}}
          /\ \/ d.pathCut
             \/ d.paths = b.paths \cup {x}
             \/ d.paths = b.paths /\ \E y \in b.paths : y.path = p
      BY <2>2, PathRowIs DEF d, p, x
    <2>4. x = [path |-> p, length |-> q.at]
      BY <2>2 DEF SameDepth, x
    <2>5. Same(d)
      BY <2>2, <2>3 DEF SameDepth
    <2>6. IsFiniteSet(d.paths)
      <3>1. IsFiniteSet(b.paths) /\ IsFiniteSet(b.paths \cup {x})
        BY <2>2, FS_AddElement
      <3> QED
        BY <2>3, <3>1
    <2>7. New(S \cup {p}) = New(S) \cup {x}
      BY <2>4
    <2>8. ASSUME fresh, ~d.pathCut PROVE d.paths = q.paths \cup New(S \cup {p})
      <3>1. b.paths = q.paths \cup New(S)
        BY <2>2, <2>3, <2>8
      <3>2. CASE d.paths = b.paths \cup {x}
        BY <2>7, <3>1, <3>2
      <3>3. CASE d.paths = b.paths /\ \E y \in b.paths : y.path = p
        <4>1. PICK y \in b.paths : y.path = p
          BY <3>3
        <4>2. y \in New(S)
          BY <2>2, <2>8, <3>1, <4>1 DEF fresh
        <4>3. y = x
          BY <2>4, <4>1, <4>2
        <4> QED
          BY <2>7, <3>1, <3>3, <4>2, <4>3
      <3> QED
        BY <2>3, <2>8, <3>2, <3>3
    <2>9. Sound(d, S \cup {p})
      BY <2>5, <2>6, <2>8
    <2> HIDE DEF Sound
    <2>10. i \in Nat
      OBVIOUS
    <2> QED
      BY <2>1, <2>2, <2>9, <2>10
  <1>5. Sound(f[n], R(n))
    <2>1. n \in A
      <3> HIDE DEF A
      <3>1. n \in Nat /\ \A i \in 1..n : i - 1 \in A => i \in A
        BY <1>2, <1>4
      <3> QED
        BY <1>3, <3>1, CountUp
    <2> QED
      BY <2>1
  <1>6. R(n) = ToSet(rows)
    BY <1>2 DEF ToSet
  <1> HIDE DEF R, Sound
  <1>7. Sound(FoundRows(q, rows), ToSet(rows))
    BY <1>1, <1>5, <1>6 DEF n
  <1> QED
    BY <1>7 DEF Sound, fresh

-----------------------------------------------------------------------------
(* Graph reads: the inductive invariant                                    *)

\* A traversal that cut nothing off has what its depth holds, and its frontier
\* touches whatever it has not visited.
ExactSoFar(q, G) ==
    LET seeds == q.request.seeds IN
    /\ q.nodes = Ball(G, seeds, q.at) /\ q.visited = Reached(G, seeds, q.at)
    /\ q.kind = "paths" => q.paths = PathsWithin(G, seeds, q.at, q.request.filter)
    /\ q.kind # "paths" => q.rels = q.visited
    /\ q.frontier \subseteq q.nodes
    /\ Touching(G, q.nodes) \ q.visited \subseteq Touching(G, q.frontier)

QueryOk(q, G) ==
    /\ q \in TraversalsOf(G)
    /\ q.limit = q.request.limit /\ q.at <= q.request.depth
    /\ IsFiniteSet(q.paths)
    /\ q.at = 0 => q.paths = {}
    /\ q.stop => Truncated(q)
    /\ Truncated(q) \/ ExactSoFar(q, G)

ReadInv ==
    /\ live \in Graphs
    /\ query = Idle \/ QueryOk(query, live)
    /\ ReadsAreExact /\ ImpactsAreExplained

\* One row more than the limit tells whether there is more.
LEMMA RowsAre ==
    ASSUME NEW S, IsFiniteSet(S), NEW m \in Nat, NEW key \in [S -> [1..m -> Int]],
           \A x, y \in S : key[x] = key[y] => x = y, NEW limit \in Nat
    PROVE  LET r == Take(Sorted(S, key), limit + 1)
           IN  /\ Take(r, limit) \in Seq(S) /\ (Len(r) > limit) \in BOOLEAN
               /\ Len(r) > limit \/ ToSet(Take(r, limit)) = S
  <1> DEFINE s == Sorted(S, key)
             r == Take(s, limit + 1)
  <1>1. s \in Seq(S) /\ ToSet(s) = S
    BY SortedIs
  <1> HIDE DEF s
  <1>2. limit + 1 \in Nat
    OBVIOUS
  <1>3. /\ r \in Seq(S) /\ Len(r) = IF limit + 1 < Len(s) THEN limit + 1 ELSE Len(s)
        /\ Len(s) <= limit + 1 => r = s
    BY <1>1, <1>2, TakeIs
  <1> HIDE DEF r
  <1>4. Take(r, limit) \in Seq(S) /\ (Len(r) <= limit => Take(r, limit) = r)
    BY <1>3, TakeIs
  <1>5. ASSUME ~(Len(r) > limit) PROVE ToSet(Take(r, limit)) = S
    <2> DEFINE a == Len(r)
               b == Len(s)
    <2>1. a \in Nat /\ b \in Nat
      BY <1>1, <1>3
    <2>2. a = (IF limit + 1 < b THEN limit + 1 ELSE b) /\ (b <= limit + 1 => r = s) /\ (a <= limit => Take(r, limit) = r)
          /\ ~(a > limit)
      BY <1>3, <1>4, <1>5
    <2> HIDE DEF a, b
    <2>3. a <= limit /\ b <= limit + 1
      BY <2>1, <2>2
    <2> QED
      BY <1>1, <2>2, <2>3
  <1> QED
    BY <1>4, <1>5 DEF r, s

\* The rows of a frontier, and those of its paths.
LEMMA FrontierRowsAre ==
    ASSUME GraphOk(live), NEW q \in TraversalsOf(live)
    PROVE  /\ Take(FrontierRows(q), q.limit) \in Seq(live) /\ (Len(FrontierRows(q)) > q.limit) \in BOOLEAN
           /\ Len(FrontierRows(q)) > q.limit \/ ToSet(Take(FrontierRows(q), q.limit)) = Unvisited(q)
  <1> DEFINE U == Unvisited(q)
             key == [e \in U |-> <<e.id>>]
  <1>1. U \in SUBSET live /\ q.limit \in Nat
    BY DEF Unvisited, Touching, TraversalsOf
  <1>2. FrontierRows(q) = Take(Sorted(U, key), q.limit + 1)
    BY DEF FrontierRows
  <1> HIDE DEF U
  <1>3. IsFiniteSet(U)
    BY <1>1, FS_Subset DEF GraphOk
  <1>4. key \in [U -> [1..1 -> Int]] /\ \A x, y \in U : key[x] = key[y] => x = y
    <2>1. \A e \in U : e.id \in Int
      BY <1>1 DEF GraphOk, RelationOk
    <2>2. \A e \in U : <<e.id>> \in [1..1 -> Int]
      BY <2>1
    <2>3. \A x, y \in U : key[x] = key[y] => x.id = y.id
      OBVIOUS
    <2> QED
      BY <1>1, <2>2, <2>3 DEF GraphOk
  <1> HIDE DEF key
  <1> DEFINE l == q.limit
             r == Take(Sorted(U, key), l + 1)
  <1>a. 1 \in Nat /\ l \in Nat /\ IsFiniteSet(U) /\ key \in [U -> [1..1 -> Int]] /\ \A x, y \in U : key[x] = key[y] => x = y
    BY <1>1, <1>3, <1>4
  <1> HIDE DEF l
  <1>b. Take(r, l) \in Seq(U) /\ (Len(r) > l) \in BOOLEAN /\ (Len(r) > l \/ ToSet(Take(r, l)) = U)
    BY ONLY <1>a, RowsAre
  <1> HIDE DEF r
  <1>c. r = FrontierRows(q) /\ l = q.limit
    BY <1>2 DEF r, l
  <1>5. /\ Take(FrontierRows(q), q.limit) \in Seq(U) /\ (Len(FrontierRows(q)) > q.limit) \in BOOLEAN
        /\ Len(FrontierRows(q)) > q.limit \/ ToSet(Take(FrontierRows(q), q.limit)) = U
    BY <1>b, <1>c
  <1> QED
    BY <1>1, <1>5 DEF U

\* The rows of finitely many relationships are finitely many paths over them.
LEMMA ListedPathsAre ==
    ASSUME NEW G, GraphOk(G), NEW U \in SUBSET G, NEW filter
    PROVE  /\ ListedPaths(U, filter) \in SUBSET PathsOver(G) /\ IsFiniteSet(ListedPaths(U, filter))
           /\ \A p \in ListedPaths(U, filter) : p.edge \in U /\ p.score = Coalesce(p.edge.weight, 1)
  <1> DEFINE C == DOMAIN ChannelRank
             L == ListedPaths(U, filter)
  <1>1. \A e \in U : Listed(e, filter) \subseteq C
    <2> SUFFICES ASSUME NEW e \in U PROVE ListedChannels(e) \subseteq C
      BY DEF Listed
    <2>1. RelationOk(e)
      BY DEF GraphOk
    <2>2. DOMAIN e.explicit \subseteq Nat /\ e.type \in DOMAIN DefaultChannels
      BY <2>1 DEF RelationOk
    <2>3. Explicit(e) = "none" \/ Explicit(e) \in C
      BY <2>2, FirstIs DEF Explicit
    <2>4. ToSet(DefaultChannels[e.type]) \subseteq C
      BY <2>2, ChannelTables
    <2> QED
      BY <2>3, <2>4 DEF ListedChannels
  <1>2. \A e \in U : Coalesce(e.weight, 1) \in Int
    BY ScoresAre DEF GraphOk
  <1>3. L \in SUBSET PathsOver(G)
    BY <1>1, <1>2 DEF ListedPaths, PathsOver, Path
  <1>4. \A p \in L : p.edge \in U /\ p.score = Coalesce(p.edge.weight, 1)
    BY DEF ListedPaths, Path
  <1>5. IsFiniteSet(L)
    <2> DEFINE P == U \X C
               h == [x \in P |-> Path(x[1], x[2], Coalesce(x[1].weight, 1))]
               V == {h[x] : x \in P}
    <2>1. IsFiniteSet(C)
      <3>1. C = (({"event"} \cup {"fundamental"}) \cup {"other"}) \cup {"reflexive"}
        BY ChannelTables
      <3> DEFINE c1 == {"event"}
                 c2 == c1 \cup {"fundamental"}
                 c3 == c2 \cup {"other"}
                 c4 == c3 \cup {"reflexive"}
      <3>2. C = c4 /\ IsFiniteSet(c1)
        BY <3>1, FS_Singleton
      <3> HIDE DEF c1
      <3>3. IsFiniteSet(c2)
        BY <3>2, FS_AddElement
      <3> HIDE DEF c2
      <3>4. IsFiniteSet(c3)
        BY <3>3, FS_AddElement
      <3> HIDE DEF c3
      <3>5. IsFiniteSet(c4)
        BY <3>4, FS_AddElement
      <3> QED
        BY <3>2, <3>5
    <2>2. IsFiniteSet(U)
      BY FS_Subset DEF GraphOk
    <2> HIDE DEF C
    <2>3. IsFiniteSet(P)
      BY <2>1, <2>2, FS_Product
    <2>4. h \in [P -> V]
      OBVIOUS
    <2>5. L \in SUBSET {h[x] : x \in P}
      <3> SUFFICES ASSUME NEW p \in L PROVE \E x \in P : h[x] = p
        OBVIOUS
      <3>0. PICK e \in U : p \in {Path(e, c, Coalesce(e.weight, 1)) : c \in Listed(e, filter)}
        BY DEF ListedPaths
      <3>1. PICK c \in Listed(e, filter) : p = Path(e, c, Coalesce(e.weight, 1))
        BY <3>0
      <3>2. <<e, c>> \in P
        BY <1>1, <3>1
      <3>3. h[<<e, c>>] = p
        BY <3>1, <3>2
      <3> QED
        BY <3>2, <3>3
    <2> HIDE DEF h, P, L, V
    <2> QED
      BY <2>3, <2>4, <2>5, ImageFinite
  <1> QED
    BY <1>3, <1>4, <1>5

\* What is fetched of the paths of a depth is all of them, or too many.
LEMMA PathRowsAre ==
    ASSUME GraphOk(live), NEW q \in TraversalsOf(live)
    PROVE  LET new == ListedPaths(Unvisited(q), q.request.filter)
           IN  /\ Take(PathRows(q), q.limit) \in Seq(PathsOver(live)) /\ (Len(PathRows(q)) > q.limit) \in BOOLEAN
               /\ ToSet(Take(PathRows(q), q.limit)) \subseteq new
               /\ Len(PathRows(q)) > q.limit \/ ToSet(Take(PathRows(q), q.limit)) = new
  <1> DEFINE U == Unvisited(q)
             P == ListedPaths(U, q.request.filter)
             key == [p \in P |-> PathRowKey(p)]
  <1>1. U \in SUBSET live /\ q.limit \in Nat
    BY DEF Unvisited, Touching, TraversalsOf
  <1>2. PathRows(q) = Take(Sorted(P, key), q.limit + 1)
    BY DEF PathRows, PathRowsOf, ListedPaths
  <1> HIDE DEF U
  <1>3. /\ P \in SUBSET PathsOver(live) /\ IsFiniteSet(P)
        /\ \A p \in P : p.edge \in U /\ p.score = Coalesce(p.edge.weight, 1)
    BY <1>1, ListedPathsAre
  <1> HIDE DEF P
  <1>4. ASSUME NEW p \in P
        PROVE  /\ p = [edge |-> p.edge, channel |-> p.channel, score |-> p.score]
               /\ p.edge \in live /\ p.channel \in DOMAIN ChannelRank /\ ChannelRank[p.channel] \in Int
               /\ p.edge.id \in Int /\ Coalesce(p.edge.weight, 1) \in Int
    <2>1. /\ p = [edge |-> p.edge, channel |-> p.channel, score |-> p.score]
          /\ p.edge \in live /\ p.channel \in DOMAIN ChannelRank
      BY <1>3 DEF PathsOver
    <2>2. RelationOk(p.edge)
      BY <2>1 DEF GraphOk
    <2> QED
      BY <2>1, <2>2, RanksAre, ScoresAre DEF RelationOk
  <1>5. key \in [P -> [1..3 -> Int]]
    <2> SUFFICES ASSUME NEW p \in P PROVE PathRowKey(p) \in [1..3 -> Int]
      OBVIOUS
    <2> DEFINE a == 0 - Coalesce(p.edge.weight, 1)
               b == p.edge.id
               c == ChannelRank[p.channel]
    <2>1. a \in Int /\ b \in Int /\ c \in Int
      BY <1>4
    <2>2. PathRowKey(p) = <<a, b, c>>
      BY DEF PathRowKey
    <2> HIDE DEF a, b, c
    <2> QED
      BY <2>1, <2>2
  <1>6. ASSUME NEW x \in P, NEW y \in P, key[x] = key[y] PROVE x = y
    <2>1. PathRowKey(x) = PathRowKey(y)
      BY <1>6
    <2>2. x.edge.id = y.edge.id /\ ChannelRank[x.channel] = ChannelRank[y.channel]
      BY <2>1 DEF PathRowKey
    <2>3. x.edge = y.edge
      BY <1>4, <2>2 DEF GraphOk
    <2>4. x.channel = y.channel
      BY <1>4, <2>2, RanksAre
    <2>5. x.score = y.score
      BY <1>3, <2>3
    <2> QED
      BY <1>4, <2>3, <2>4, <2>5
  <1> HIDE DEF key
  <1> DEFINE l == q.limit
             r == Take(Sorted(P, key), l + 1)
  <1>a. 3 \in Nat /\ l \in Nat /\ IsFiniteSet(P) /\ key \in [P -> [1..3 -> Int]] /\ \A x, y \in P : key[x] = key[y] => x = y
    BY <1>1, <1>3, <1>5, <1>6
  <1> HIDE DEF l
  <1>b. Take(r, l) \in Seq(P) /\ (Len(r) > l) \in BOOLEAN /\ (Len(r) > l \/ ToSet(Take(r, l)) = P)
    BY ONLY <1>a, RowsAre
  <1> HIDE DEF r
  <1>c. r = PathRows(q) /\ l = q.limit
    BY <1>2 DEF r, l
  <1>7. /\ Take(PathRows(q), q.limit) \in Seq(P) /\ (Len(PathRows(q)) > q.limit) \in BOOLEAN
        /\ Len(PathRows(q)) > q.limit \/ ToSet(Take(PathRows(q), q.limit)) = P
    BY <1>b, <1>c
  <1>8. ToSet(Take(PathRows(q), q.limit)) \subseteq P
    BY <1>7, ElementsOf
  <1> QED
    BY <1>3, <1>7, <1>8 DEF P, U

\* One step further: the frontier is all that can be seen.
LEMMA OneStepFurther ==
    ASSUME NEW seeds, NEW n \in Nat, NEW frontier \in SUBSET Ball(live, seeds, n),
           Touching(live, Ball(live, seeds, n)) \ Reached(live, seeds, n) \subseteq Touching(live, frontier)
    PROVE  LET nodes == Ball(live, seeds, n)
               R == Touching(live, frontier) \ Reached(live, seeds, n)
               next == Neighbors(R, frontier) \ nodes
           IN  /\ nodes \cup BothEnds(R) = Ball(live, seeds, n + 1)
               /\ nodes \cup Neighbors(R, frontier) = Ball(live, seeds, n + 1)
               /\ Reached(live, seeds, n) \cup R = Reached(live, seeds, n + 1)
               /\ R = Reached(live, seeds, n + 1) \ Reached(live, seeds, n)
               /\ next \subseteq Ball(live, seeds, n + 1)
               /\ Touching(live, Ball(live, seeds, n + 1)) \ Reached(live, seeds, n + 1) \subseteq Touching(live, next)
  <1> DEFINE B == Ball(live, seeds, n)
             V == Reached(live, seeds, n)
             B1 == Ball(live, seeds, n + 1)
             V1 == Reached(live, seeds, n + 1)
             R == Touching(live, frontier) \ V
             next == Neighbors(R, frontier) \ B
  <1>1. B1 = Grown(B) /\ V1 = Touching(live, B) /\ V \subseteq Touching(live, B) /\ \A e \in V : {e.src, e.dst} \subseteq B
    BY BallIs, ReachedGrows
  <1>2. frontier \subseteq B /\ Touching(live, B) \ V \subseteq Touching(live, frontier)
    OBVIOUS
  <1> HIDE DEF B, V, B1, V1
  <1>3. V \cup R = V1 /\ R = V1 \ V
    BY <1>1, <1>2 DEF Touching
  <1>4. B1 = B \cup BothEnds(V1)
    BY <1>1 DEF Grown, BothEnds
  <1>5. B \cup BothEnds(R) = B1
    BY <1>1, <1>3, <1>4 DEF BothEnds
  <1>6. \A e \in R : /\ {e.src, e.dst} \cup B = {Neighbor(e, frontier)} \cup B
                     /\ Neighbor(e, frontier) \in {e.src, e.dst}
    BY <1>2 DEF Neighbor, Touching
  <1>7. B \cup Neighbors(R, frontier) = B1
    BY <1>5, <1>6 DEF BothEnds, Neighbors
  <1>8. Touching(live, B1) \ V1 \subseteq Touching(live, next)
    <2> SUFFICES ASSUME NEW e \in Touching(live, B1), e \notin V1 PROVE e \in Touching(live, next)
      OBVIOUS
    <2>1. e \in live /\ e.src \notin B /\ e.dst \notin B
      BY <1>1 DEF Touching
    <2>2. B1 \ B \subseteq next
      BY <1>7
    <2> QED
      BY <2>1, <2>2 DEF Touching
  <1> QED
    BY <1>3, <1>5, <1>7, <1>8 DEF B, V, B1, V1

\* Entering a depth changes the depth, what is known and the frontier cut only.
LEMMA DeeperIs ==
    ASSUME GraphOk(live), NEW q \in TraversalsOf(live)
    PROVE  LET d == Deeper(q)
           IN  /\ d \in TraversalsOf(live)
               /\ d.kind = q.kind /\ d.request = q.request /\ d.limit = q.limit /\ d.at = q.at + 1
               /\ d.nodes = q.nodes /\ d.frontier = q.frontier /\ d.known = q.nodes /\ d.next = {}
               /\ d.rels = q.rels /\ d.visited = q.visited /\ d.paths = q.paths
               /\ d.stop = q.stop /\ d.nodeCut = q.nodeCut /\ d.relCut = q.relCut /\ d.pathCut = q.pathCut
               /\ d.frontierCut = (q.frontierCut \/ Len(FrontierRows(q)) > q.limit)
  <1> DEFINE d == Deeper(q)
             more == Len(FrontierRows(q)) > q.limit
  <1>1. more \in BOOLEAN
    BY FrontierRowsAre
  <1>2. d = [q EXCEPT !.at = @ + 1, !.known = q.nodes, !.next = {}, !.frontierCut = @ \/ more]
    BY DEF Deeper
  <1> HIDE DEF d, more
  <1> DEFINE c == q.frontierCut \/ more
             a == q.at + 1
  <1>3. d = [q EXCEPT !.at = a, !.known = q.nodes, !.next = {}, !.frontierCut = c]
    BY <1>2
  <1>4. a \in Nat /\ c \in BOOLEAN
    BY <1>1 DEF TraversalsOf
  <1> HIDE DEF a, c
  <1>5. d \in TraversalsOf(live)
    BY <1>3, <1>4 DEF TraversalsOf
  <1>6. /\ d.kind = q.kind /\ d.request = q.request /\ d.limit = q.limit /\ d.at = a
        /\ d.nodes = q.nodes /\ d.frontier = q.frontier /\ d.known = q.nodes /\ d.next = {}
        /\ d.rels = q.rels /\ d.visited = q.visited /\ d.paths = q.paths
        /\ d.stop = q.stop /\ d.nodeCut = q.nodeCut /\ d.relCut = q.relCut /\ d.pathCut = q.pathCut
        /\ d.frontierCut = c
    BY <1>3 DEF TraversalsOf
  <1> QED
    BY <1>5, <1>6 DEF d, a, c, more

\* The seeds are exact unless they were cut.
LEMMA StartOk == ASSUME ReadInv, NEW r \in Requests, Start(r) PROVE QueryOk(query', live)
  <1> DEFINE s == Sorted(r.seeds, [n \in r.seeds |-> <<n>>])
             S == ToSet(Seeds(r))
             cut == Cardinality(r.seeds) > r.limit
             q == [kind |-> r.kind, request |-> r, limit |-> r.limit, at |-> 0,
                   nodes |-> S, frontier |-> S, known |-> {}, next |-> {},
                   rels |-> {}, visited |-> {}, paths |-> {}, stop |-> FALSE,
                   nodeCut |-> cut, relCut |-> FALSE, frontierCut |-> FALSE, pathCut |-> FALSE]
  <1>1. query' = q /\ r.kind \in {"subgraph", "paths", "simulation"}
    BY DEF Start
  <1>2. r.limit \in Nat /\ r.depth \in Nat /\ r.seeds \in SUBSET Int /\ IsFiniteSet(r.seeds)
    BY GraphReadsAssumption DEF GraphReadsAssumption
  <1>3. s \in Seq(r.seeds) /\ Len(s) = Cardinality(r.seeds) /\ Cardinality(r.seeds) \in Nat /\ ToSet(s) = r.seeds
    <2> DEFINE T == r.seeds
               key == [n \in T |-> <<n>>]
    <2>1. 1 \in Nat /\ IsFiniteSet(T) /\ key \in [T -> [1..1 -> Int]] /\ \A x, y \in T : key[x] = key[y] => x = y
      BY <1>2
    <2>2. s = Sorted(T, key)
      OBVIOUS
    <2> HIDE DEF T, key, s
    <2>3. s \in Seq(T) /\ Len(s) = Cardinality(T) /\ Cardinality(T) \in Nat /\ ToSet(s) = T
      BY <2>1, <2>2, SortedIs
    <2> QED
      BY <2>3 DEF T
  <1>4. Seeds(r) = Take(s, r.limit)
    BY DEF Seeds
  <1> HIDE DEF s
  <1>5. Seeds(r) \in Seq(r.seeds) /\ (Len(s) <= r.limit => Seeds(r) = s)
    BY <1>2, <1>3, <1>4, TakeIs
  <1>6. S \in SUBSET r.seeds
    BY <1>5, ElementsOf
  <1>7. ~cut => S = r.seeds
    BY <1>2, <1>3, <1>5
  <1>8. cut \in BOOLEAN
    BY <1>2, <1>3
  <1> HIDE DEF S, cut
  <1>9. q \in TraversalsOf(live)
    <2>1. S \in SUBSET Int
      BY <1>2, <1>6
    <2> QED
      BY <1>1, <1>2, <1>8, <2>1 DEF TraversalsOf
  <1>10. /\ q.limit = q.request.limit /\ q.at <= q.request.depth /\ q.paths = {} /\ ~q.stop
         /\ (Truncated(q) <=> cut) /\ q.at = 0 /\ q.request = r /\ q.nodes = S /\ q.visited = {} /\ q.rels = {}
         /\ q.frontier = S
    BY <1>2, <1>8 DEF Truncated
  <1> HIDE DEF q
  <1>11. ASSUME ~cut PROVE ExactSoFar(q, live)
    <2>1. Ball(live, r.seeds, 0) = S
      BY <1>7, <1>11, BallIs
    <2>2. Reached(live, r.seeds, 0) = {} /\ PathsWithin(live, r.seeds, 0, r.filter) = {}
      BY PathsWithinIs DEF Reached
    <2> QED
      BY <1>10, <2>1, <2>2 DEF ExactSoFar
  <1>12. IsFiniteSet({})
    BY FS_EmptySet
  <1> QED
    BY <1>1, <1>9, <1>10, <1>11, <1>12 DEF QueryOk

\* A depth of a subgraph that cuts nothing off keeps it exact.
LEMMA ReadSubgraphOk == ASSUME ReadInv, ReadSubgraph PROVE QueryOk(query', live)
  <1> DEFINE q == query
             b == Deeper(q)
             rows == Take(FrontierRows(q), q.limit)
             d == SubgraphRows(b, rows)
             more == Len(FrontierRows(q)) > q.limit
             R == ToSet(rows)
             seeds == q.request.seeds
  <1>1. /\ q.kind \in {"subgraph", "simulation"} /\ q.at < q.request.depth /\ ~q.stop
        /\ query' = [d EXCEPT !.frontier = d.next, !.stop = d.nodeCut \/ d.relCut]
    BY DEF ReadSubgraph
  <1>2. GraphOk(live) /\ QueryOk(q, live)
    <2>1. query # Idle
      BY <1>1 DEF Idle
    <2> QED
      BY <2>1, GraphsOk DEF ReadInv
  <1>3. q \in TraversalsOf(live)
    BY <1>2 DEF QueryOk
  <1> HIDE DEF q, seeds
  <1>4. /\ b \in TraversalsOf(live)
        /\ b.kind = q.kind /\ b.request = q.request /\ b.limit = q.limit /\ b.at = q.at + 1
        /\ b.nodes = q.nodes /\ b.frontier = q.frontier /\ b.known = q.nodes /\ b.next = {}
        /\ b.rels = q.rels /\ b.visited = q.visited /\ b.paths = q.paths
        /\ b.stop = q.stop /\ b.nodeCut = q.nodeCut /\ b.relCut = q.relCut /\ b.pathCut = q.pathCut
        /\ b.frontierCut = (q.frontierCut \/ more)
    BY <1>2, <1>3, DeeperIs
  <1>5. rows \in Seq(live) /\ (more \/ R = Unvisited(q)) /\ more \in BOOLEAN
    BY <1>2, <1>3, FrontierRowsAre
  <1> HIDE DEF b, rows, more
  <1>6. /\ d \in TraversalsOf(live) /\ SameDepth(d, b) /\ d.paths = b.paths /\ d.pathCut = b.pathCut
        /\ b.nodeCut \/ b.relCut => d.nodeCut \/ d.relCut
        /\ \/ d.nodeCut \/ d.relCut
           \/ /\ ~d.stop
              /\ d.nodes = b.nodes \cup BothEnds(R)
              /\ d.visited = b.visited \cup R /\ d.rels = b.rels \cup R
              /\ d.next = b.next \cup (Neighbors(R, b.frontier) \ b.known)
    BY <1>1, <1>2, <1>4, <1>5, SubgraphRowsAre
  <1> HIDE DEF d, R
  <1> DEFINE stop == d.nodeCut \/ d.relCut
             p == [d EXCEPT !.frontier = d.next, !.stop = stop]
  <1>7. stop \in BOOLEAN /\ d.next \in SUBSET Int
    BY <1>6 DEF TraversalsOf
  <1>8. query' = p
    BY <1>1
  <1> HIDE DEF stop
  <1>9. /\ p \in TraversalsOf(live) /\ p.kind = d.kind /\ p.request = d.request /\ p.limit = d.limit /\ p.at = d.at
        /\ p.nodes = d.nodes /\ p.visited = d.visited /\ p.rels = d.rels /\ p.paths = d.paths
        /\ p.nodeCut = d.nodeCut /\ p.relCut = d.relCut /\ p.frontierCut = d.frontierCut /\ p.pathCut = d.pathCut
        /\ p.frontier = d.next /\ p.stop = stop
    BY <1>6, <1>7 DEF TraversalsOf
  <1> HIDE DEF p
  <1>10. /\ p.kind = q.kind /\ p.request = q.request /\ p.limit = q.limit /\ p.at = q.at + 1 /\ p.paths = q.paths
         /\ p.frontierCut = (q.frontierCut \/ more) /\ p.pathCut = q.pathCut
         /\ q.nodeCut \/ q.relCut => p.nodeCut \/ p.relCut
    BY <1>4, <1>6, <1>9 DEF SameDepth
  <1>11. q.at \in Nat /\ q.request.depth \in Nat
    BY <1>3, GraphReadsAssumption DEF TraversalsOf, GraphReadsAssumption
  <1>12. p.at <= p.request.depth /\ p.at # 0
    BY <1>1, <1>10, <1>11
  <1>13. p.stop => Truncated(p)
    BY <1>9 DEF Truncated, stop
  <1>14. Truncated(q) => Truncated(p)
    BY <1>10 DEF Truncated
  <1>15. ASSUME ~Truncated(p) PROVE ExactSoFar(p, live)
    <2>1. ExactSoFar(q, live)
      BY <1>2, <1>14, <1>15 DEF QueryOk
    <2>2. ~more /\ ~d.nodeCut /\ ~d.relCut
      BY <1>9, <1>10, <1>15 DEF Truncated
    <2> DEFINE n == q.at
               F == q.frontier
    <2>3. /\ q.nodes = Ball(live, seeds, n) /\ q.visited = Reached(live, seeds, n)
          /\ q.rels = q.visited /\ F \in SUBSET Ball(live, seeds, n) /\ n \in Nat
          /\ Touching(live, Ball(live, seeds, n)) \ Reached(live, seeds, n) \subseteq Touching(live, F)
      BY <1>1, <1>11, <2>1 DEF ExactSoFar, seeds
    <2>4. R = Touching(live, F) \ Reached(live, seeds, n)
      BY <1>5, <2>2, <2>3 DEF Unvisited
    <2>5. /\ p.nodes = Ball(live, seeds, n) \cup BothEnds(R)
          /\ p.visited = Reached(live, seeds, n) \cup R /\ p.rels = p.visited
          /\ p.frontier = Neighbors(R, F) \ Ball(live, seeds, n)
      <3>1. /\ d.nodes = b.nodes \cup BothEnds(R)
            /\ d.visited = b.visited \cup R /\ d.rels = b.rels \cup R
            /\ d.next = b.next \cup (Neighbors(R, b.frontier) \ b.known)
        BY <1>6, <2>2
      <3>2. b.nodes = q.nodes /\ b.visited = q.visited /\ b.rels = q.rels /\ b.next = {} /\ b.frontier = F /\ b.known = q.nodes
        BY <1>4
      <3>3. p.nodes = d.nodes /\ p.visited = d.visited /\ p.rels = d.rels /\ p.frontier = d.next
        BY <1>9
      <3> HIDE DEF n, F
      <3> QED
        BY <2>3, <3>1, <3>2, <3>3
    <2> HIDE DEF n, F
    <2> DEFINE nodes == Ball(live, seeds, n)
               next == Neighbors(R, F) \ nodes
    <2>6. /\ nodes \cup BothEnds(R) = Ball(live, seeds, n + 1)
          /\ Reached(live, seeds, n) \cup R = Reached(live, seeds, n + 1)
          /\ next \subseteq Ball(live, seeds, n + 1)
          /\ Touching(live, Ball(live, seeds, n + 1)) \ Reached(live, seeds, n + 1) \subseteq Touching(live, next)
      BY <2>3, <2>4, OneStepFurther
    <2>7. p.at = n + 1 /\ p.request.seeds = seeds /\ p.kind # "paths"
      BY <1>1, <1>10 DEF n, seeds
    <2> HIDE DEF R
    <2> QED
      BY <2>5, <2>6, <2>7 DEF ExactSoFar
  <1>16. IsFiniteSet(p.paths) /\ p.limit = p.request.limit
    BY <1>2, <1>10 DEF QueryOk
  <1>17. QueryOk(p, live)
    BY <1>9, <1>12, <1>13, <1>15, <1>16 DEF QueryOk
  <1> QED
    BY <1>8, <1>17

\* So does a depth of a path query.
LEMMA ReadPathsOk == ASSUME ReadInv, ReadPaths PROVE QueryOk(query', live)
  <1> DEFINE q == query
             b == Deeper(q)
             rows == Take(FrontierRows(q), q.limit)
             moved == PathFrontierRows(b, rows)
             more == Len(FrontierRows(q)) > q.limit
             R == ToSet(rows)
             found == PathRows(q)
             cut == Len(found) > q.limit
             m == [moved EXCEPT !.pathCut = @ \/ cut]
             d == FoundRows(m, Take(found, q.limit))
             N == ToSet(Take(found, q.limit))
             seeds == q.request.seeds
  <1>1. /\ q.kind = "paths" /\ q.at < q.request.depth
        /\ query' = [d EXCEPT !.frontier = d.next]
    BY DEF ReadPaths
  <1>2. GraphOk(live) /\ QueryOk(q, live)
    <2>1. query # Idle
      BY <1>1 DEF Idle
    <2> QED
      BY <2>1, GraphsOk DEF ReadInv
  <1>3. q \in TraversalsOf(live) /\ IsFiniteSet(q.paths)
    BY <1>2 DEF QueryOk
  <1> HIDE DEF q, seeds
  <1>4. /\ b \in TraversalsOf(live)
        /\ b.kind = q.kind /\ b.request = q.request /\ b.limit = q.limit /\ b.at = q.at + 1
        /\ b.nodes = q.nodes /\ b.frontier = q.frontier /\ b.known = q.nodes /\ b.next = {}
        /\ b.rels = q.rels /\ b.visited = q.visited /\ b.paths = q.paths
        /\ b.stop = q.stop /\ b.nodeCut = q.nodeCut /\ b.relCut = q.relCut /\ b.pathCut = q.pathCut
        /\ b.frontierCut = (q.frontierCut \/ more)
    BY <1>2, <1>3, DeeperIs
  <1>5. rows \in Seq(live) /\ (more \/ R = Unvisited(q)) /\ more \in BOOLEAN
    BY <1>2, <1>3, FrontierRowsAre
  <1>6. /\ Take(found, q.limit) \in Seq(PathsOver(live)) /\ cut \in BOOLEAN
        /\ N \subseteq ListedPaths(Unvisited(q), q.request.filter)
        /\ cut \/ N = ListedPaths(Unvisited(q), q.request.filter)
    BY <1>2, <1>3, PathRowsAre
  <1> HIDE DEF b, rows, more, cut
  <1>7. /\ moved \in TraversalsOf(live) /\ SameDepth(moved, b) /\ moved.paths = b.paths /\ moved.pathCut = b.pathCut
        /\ moved.rels = b.rels /\ moved.stop = b.stop /\ moved.relCut = b.relCut
        /\ b.nodeCut => moved.nodeCut
        /\ moved.visited = b.visited \cup R
        /\ moved.nodeCut \/ /\ moved.nodes = b.nodes \cup Neighbors(R, b.frontier)
                            /\ moved.next = b.next \cup (Neighbors(R, b.frontier) \ b.known)
    BY <1>2, <1>4, <1>5, PathFrontierRowsAre
  <1> HIDE DEF moved, R, found
  <1> DEFINE mc == moved.pathCut \/ cut
  <1>8. m = [moved EXCEPT !.pathCut = mc]
    OBVIOUS
  <1>9. mc \in BOOLEAN
    BY <1>6, <1>7 DEF TraversalsOf
  <1> HIDE DEF m, mc
  <1>10. /\ m \in TraversalsOf(live) /\ SameDepth(m, moved) /\ m.paths = moved.paths /\ m.pathCut = mc
         /\ m.rels = moved.rels /\ m.stop = moved.stop /\ m.relCut = moved.relCut /\ m.nodeCut = moved.nodeCut
         /\ m.visited = moved.visited /\ m.nodes = moved.nodes /\ m.next = moved.next
    BY <1>7, <1>8, <1>9 DEF TraversalsOf, SameDepth
  <1> DEFINE new == {[path |-> x, length |-> m.at] : x \in N}
  <1>11. IsFiniteSet(m.paths)
    BY <1>3, <1>4, <1>7, <1>10
  <1>12. /\ d \in TraversalsOf(live) /\ SameDepth(d, m) /\ d.nodes = m.nodes /\ d.next = m.next
         /\ d.visited = m.visited /\ d.rels = m.rels /\ d.stop = m.stop
         /\ d.nodeCut = m.nodeCut /\ d.relCut = m.relCut
         /\ m.pathCut => d.pathCut
         /\ IsFiniteSet(d.paths)
         /\ (\A x \in m.paths : x.path \notin N) => d.pathCut \/ d.paths = m.paths \cup new
    BY <1>2, <1>6, <1>10, <1>11, FoundRowsAre
  <1> HIDE DEF d, N
  <1> DEFINE p == [d EXCEPT !.frontier = d.next]
  <1>13. query' = p /\ d.next \in SUBSET Int
    BY <1>1, <1>12 DEF TraversalsOf
  <1>14. /\ p \in TraversalsOf(live) /\ p.kind = d.kind /\ p.request = d.request /\ p.limit = d.limit /\ p.at = d.at
         /\ p.nodes = d.nodes /\ p.visited = d.visited /\ p.rels = d.rels /\ p.paths = d.paths
         /\ p.nodeCut = d.nodeCut /\ p.relCut = d.relCut /\ p.frontierCut = d.frontierCut /\ p.pathCut = d.pathCut
         /\ p.frontier = d.next /\ p.stop = d.stop
    BY <1>12, <1>13 DEF TraversalsOf
  <1> HIDE DEF p
  <1>15. /\ p.kind = q.kind /\ p.request = q.request /\ p.limit = q.limit /\ p.at = q.at + 1
         /\ p.frontierCut = (q.frontierCut \/ more) /\ (q.pathCut \/ cut => p.pathCut)
         /\ (q.nodeCut => p.nodeCut) /\ p.relCut = q.relCut /\ p.stop = q.stop
         /\ m.at = q.at + 1 /\ m.paths = q.paths
    <2>1. /\ moved.kind = q.kind /\ moved.request = q.request /\ moved.limit = q.limit /\ moved.at = q.at + 1
          /\ moved.frontierCut = (q.frontierCut \/ more) /\ moved.pathCut = q.pathCut /\ (q.nodeCut => moved.nodeCut)
          /\ moved.relCut = q.relCut /\ moved.stop = q.stop /\ moved.paths = q.paths
      BY <1>4, <1>7 DEF SameDepth
    <2>2. /\ m.kind = q.kind /\ m.request = q.request /\ m.limit = q.limit /\ m.at = q.at + 1
          /\ m.frontierCut = (q.frontierCut \/ more) /\ (q.pathCut \/ cut => m.pathCut) /\ (q.nodeCut => m.nodeCut)
          /\ m.relCut = q.relCut /\ m.stop = q.stop /\ m.paths = q.paths
      BY <1>10, <2>1 DEF SameDepth, mc
    <2>3. /\ d.kind = m.kind /\ d.request = m.request /\ d.limit = m.limit /\ d.at = m.at
          /\ d.frontierCut = m.frontierCut /\ (m.pathCut => d.pathCut) /\ d.nodeCut = m.nodeCut
          /\ d.relCut = m.relCut /\ d.stop = m.stop
      BY <1>12 DEF SameDepth
    <2> QED
      BY <1>14, <2>2, <2>3
  <1>16. q.at \in Nat /\ q.request.depth \in Nat
    BY <1>3, GraphReadsAssumption DEF TraversalsOf, GraphReadsAssumption
  <1>17. p.at <= p.request.depth /\ p.at # 0
    BY <1>1, <1>15, <1>16
  <1>18. Truncated(q) => Truncated(p)
    BY <1>15 DEF Truncated
  <1>19. p.stop => Truncated(p)
    BY <1>2, <1>15, <1>18 DEF QueryOk
  <1>20. ASSUME ~Truncated(p) PROVE ExactSoFar(p, live)
    <2>1. ExactSoFar(q, live)
      BY <1>2, <1>18, <1>20 DEF QueryOk
    <2>2. ~more /\ ~cut /\ ~p.nodeCut /\ ~p.pathCut
      BY <1>15, <1>20 DEF Truncated
    <2> DEFINE n == q.at
               F == q.frontier
               filter == q.request.filter
    <2>3. /\ q.nodes = Ball(live, seeds, n) /\ q.visited = Reached(live, seeds, n)
          /\ q.paths = PathsWithin(live, seeds, n, filter) /\ F \in SUBSET Ball(live, seeds, n) /\ n \in Nat
          /\ Touching(live, Ball(live, seeds, n)) \ Reached(live, seeds, n) \subseteq Touching(live, F)
      BY <1>1, <1>16, <2>1 DEF ExactSoFar, seeds
    <2>4. R = Touching(live, F) \ Reached(live, seeds, n) /\ R = Unvisited(q)
      BY <1>5, <2>2, <2>3 DEF Unvisited
    <2>5. p.nodes = moved.nodes /\ p.visited = moved.visited /\ p.frontier = moved.next /\ p.nodeCut = moved.nodeCut
      BY <1>10, <1>12, <1>14
    <2>6. /\ p.nodes = Ball(live, seeds, n) \cup Neighbors(R, F)
          /\ p.visited = Reached(live, seeds, n) \cup R
          /\ p.frontier = Neighbors(R, F) \ Ball(live, seeds, n)
      BY <1>4, <1>7, <2>2, <2>3, <2>5
    <2>7. N = ListedPaths(R, filter)
      BY <1>6, <2>2, <2>4
    <2> HIDE DEF n, F, filter
    <2> DEFINE nodes == Ball(live, seeds, n)
               next == Neighbors(R, F) \ nodes
    <2>8. /\ nodes \cup Neighbors(R, F) = Ball(live, seeds, n + 1)
          /\ Reached(live, seeds, n) \cup R = Reached(live, seeds, n + 1)
          /\ R = Reached(live, seeds, n + 1) \ Reached(live, seeds, n)
          /\ next \subseteq Ball(live, seeds, n + 1)
          /\ Touching(live, Ball(live, seeds, n + 1)) \ Reached(live, seeds, n + 1) \subseteq Touching(live, next)
      <3>1. /\ n \in Nat /\ F \in SUBSET Ball(live, seeds, n)
            /\ Touching(live, Ball(live, seeds, n)) \ Reached(live, seeds, n) \subseteq Touching(live, F)
        BY <2>3
      <3>2. R = Touching(live, F) \ Reached(live, seeds, n)
        BY <2>4
      <3> QED
        BY ONLY <3>1, <3>2, OneStepFurther
    <2>9. p.at = n + 1 /\ p.request.seeds = seeds /\ p.kind = "paths" /\ p.request.filter = filter /\ m.at = n + 1
      BY <1>1, <1>15 DEF n, seeds, filter
    <2>10. p.paths = PathsWithin(live, seeds, n + 1, filter)
      <3>1. \A x \in PathsWithin(live, seeds, n, filter) : x.path.edge \in Reached(live, seeds, n)
        BY <2>3, PathsWithinIs
      <3>2. R \in SUBSET live
        BY <2>4 DEF Touching
      <3>3. \A x \in N : x.edge \in R
        BY <1>2, <2>7, <3>2, ListedPathsAre
      <3>4. \A x \in m.paths : x.path \notin N
        BY <1>15, <2>3, <2>4, <3>1, <3>3
      <3>5. p.paths = PathsWithin(live, seeds, n, filter) \cup new
        BY <1>12, <1>14, <1>15, <2>2, <2>3, <3>4
      <3>6. PathsWithin(live, seeds, n + 1, filter) =
               PathsWithin(live, seeds, n, filter) \cup {[path |-> x, length |-> n + 1] : x \in ListedPaths(R, filter)}
        BY <2>3, <2>8, PathsWithinIs
      <3> QED
        BY <2>7, <2>9, <3>5, <3>6
    <2> HIDE DEF R
    <2> QED
      BY <2>6, <2>8, <2>9, <2>10 DEF ExactSoFar
  <1>21. IsFiniteSet(p.paths) /\ p.limit = p.request.limit
    BY <1>2, <1>12, <1>14, <1>15 DEF QueryOk
  <1>22. QueryOk(p, live)
    BY <1>14, <1>17, <1>19, <1>20, <1>21 DEF QueryOk
  <1> QED
    BY <1>13, <1>22

\* A traversal that is finished untruncated has the whole ball.
LEMMA FinishedIsAll ==
    ASSUME NEW q, GraphOk(live), QueryOk(q, live), ~Truncated(q), Finished(q)
    PROVE  LET seeds == q.request.seeds
               depth == q.request.depth
           IN  /\ q.nodes = Ball(live, seeds, depth) /\ q.visited = Reached(live, seeds, depth)
               /\ q.kind # "paths" => q.rels = Reached(live, seeds, depth)
               /\ q.kind = "paths" => q.paths = PathsWithin(live, seeds, depth, q.request.filter)
  <1> DEFINE seeds == q.request.seeds
             depth == q.request.depth
             n == q.at
  <1>1. q \in TraversalsOf(live) /\ n <= depth /\ ~q.stop /\ ExactSoFar(q, live)
    BY DEF QueryOk
  <1>2. n \in Nat /\ depth \in Nat
    BY <1>1, GraphReadsAssumption DEF TraversalsOf, GraphReadsAssumption
  <1>3. /\ q.nodes = Ball(live, seeds, n) /\ q.visited = Reached(live, seeds, n)
        /\ q.kind = "paths" => q.paths = PathsWithin(live, seeds, n, q.request.filter)
        /\ q.kind # "paths" => q.rels = q.visited
        /\ Touching(live, q.nodes) \ q.visited \subseteq Touching(live, q.frontier)
    BY <1>1 DEF ExactSoFar
  <1>4. CASE n = depth
    BY <1>3, <1>4
  <1>5. CASE q.frontier = {}
    <2>1. Touching(live, Ball(live, seeds, n)) \subseteq Reached(live, seeds, n)
      BY <1>3, <1>5 DEF Touching
    <2>2. Ball(live, seeds, depth) = Ball(live, seeds, n) /\ Reached(live, seeds, depth) = Reached(live, seeds, n)
      <3> HIDE DEF seeds, depth, n
      <3> QED
        BY <1>1, <1>2, <2>1, ReachedAll
    <2>3. PathsWithin(live, seeds, depth, q.request.filter) = PathsWithin(live, seeds, n, q.request.filter)
      <3> DEFINE filter == q.request.filter
      <3> HIDE DEF seeds, depth, n, filter
      <3>0. n \in Nat /\ depth \in Nat /\ n <= depth /\ Reached(live, seeds, depth) = Reached(live, seeds, n)
        BY <1>1, <1>2, <2>2
      <3>1. PathsWithin(live, seeds, depth, filter) = PathsWithin(live, seeds, n, filter)
        BY ONLY <3>0, PathsStay
      <3> QED
        BY <3>1 DEF filter
    <2> QED
      BY <1>3, <2>2, <2>3
  <1> QED
    BY <1>1, <1>4, <1>5 DEF Finished

\* A subgraph is answered from an exact traversal, or says it is truncated.
LEMMA AnswerSubgraphOk == ASSUME ReadInv, AnswerSubgraph PROVE ReadInv'
  <1>1. /\ query.kind = "subgraph" /\ Finished(query)
        /\ answer' = [kind |-> "subgraph", request |-> query.request, truncated |-> Truncated(query),
                      nodes |-> query.nodes, rels |-> query.rels]
        /\ query' = Idle /\ live' = live
    BY DEF AnswerSubgraph
  <1>2. GraphOk(live) /\ QueryOk(query, live)
    BY <1>1, GraphsOk DEF ReadInv, Idle
  <1>3. UntruncatedIsExact'
    <2> SUFFICES ASSUME ~Truncated(query)
                 PROVE  /\ query.nodes = Ball(live, query.request.seeds, query.request.depth)
                        /\ query.rels = Reached(live, query.request.seeds, query.request.depth)
      BY <1>1 DEF UntruncatedIsExact
    <2> QED
      BY <1>1, <1>2, FinishedIsAll
  <1>4. SimulationAgrees' /\ ImpactsAreExplained'
    BY <1>1 DEF SimulationAgrees, ImpactsAreExplained
  <1> QED
    BY <1>1, <1>3, <1>4 DEF ReadInv, ReadsAreExact

\* The paths that are reported: all of them when they fit.
LEMMA RankedFoundAre ==
    ASSUME NEW G, GraphOk(G), NEW S \in SUBSET FoundIn(G), IsFiniteSet(S), NEW limit \in Nat,
           ~(Cardinality(S) > limit)
    PROVE  ToSet(RankedFound(S, limit)) = S
  <1> DEFINE Key(f) == <<0 - f.path.score, f.length, f.path.edge.id, ChannelRank[f.path.channel]>>
             key == [f \in S |-> Key(f)]
             s == Sorted(S, key)
  <1>1. ASSUME NEW f \in S
        PROVE  /\ f = [path |-> [edge |-> f.path.edge, channel |-> f.path.channel, score |-> f.path.score], length |-> f.length]
               /\ f.path.edge \in G /\ f.path.channel \in DOMAIN ChannelRank /\ f.path.score \in Int /\ f.length \in Int
               /\ f.path.edge.id \in Int /\ ChannelRank[f.path.channel] \in Int
    <2>1. f = [path |-> f.path, length |-> f.length] /\ f.path \in PathsOver(G) /\ f.length \in Nat
      BY DEF FoundIn
    <2>2. f.path = [edge |-> f.path.edge, channel |-> f.path.channel, score |-> f.path.score]
          /\ f.path.edge \in G /\ f.path.channel \in DOMAIN ChannelRank /\ f.path.score \in Int
      BY <2>1 DEF PathsOver
    <2>3. RelationOk(f.path.edge)
      BY <2>2 DEF GraphOk
    <2> QED
      BY <2>1, <2>2, <2>3, RanksAre DEF RelationOk
  <1>2. ASSUME NEW f \in S PROVE Key(f) \in [1..4 -> Int]
    <2> DEFINE a == 0 - f.path.score
               b == f.length
               c == f.path.edge.id
               d == ChannelRank[f.path.channel]
    <2>1. a \in Int /\ b \in Int /\ c \in Int /\ d \in Int
      BY <1>1
    <2>2. Key(f) = <<a, b, c, d>>
      OBVIOUS
    <2> HIDE DEF Key, a, b, c, d
    <2> QED
      BY <2>1, <2>2
  <1>3. ASSUME NEW f \in S, NEW g \in S, key[f] = key[g] PROVE f = g
    <2>1. /\ 0 - f.path.score = 0 - g.path.score /\ f.length = g.length /\ f.path.edge.id = g.path.edge.id
          /\ ChannelRank[f.path.channel] = ChannelRank[g.path.channel]
      BY <1>3
    <2>2. f.path.score = g.path.score
      BY <1>1, <2>1
    <2>3. f.path.edge = g.path.edge
      BY <1>1, <2>1 DEF GraphOk
    <2>4. f.path.channel = g.path.channel
      BY <1>1, <2>1, RanksAre
    <2> QED
      BY <1>1, <2>1, <2>2, <2>3, <2>4
  <1>4. key \in [S -> [1..4 -> Int]]
    BY <1>2
  <1>5. RankedFound(S, limit) = Take(s, limit)
    BY DEF RankedFound
  <1> HIDE DEF key, Key
  <1>6. s \in Seq(S) /\ Len(s) = Cardinality(S) /\ Cardinality(S) \in Nat /\ ToSet(s) = S
    <2>1. 4 \in Nat /\ key \in [S -> [1..4 -> Int]] /\ \A x, y \in S : key[x] = key[y] => x = y
      BY <1>3, <1>4
    <2> QED
      BY <2>1, SortedIs
  <1> HIDE DEF s
  <1>7. Len(s) <= limit
    BY <1>6
  <1>8. Take(s, limit) = s
    BY <1>6, <1>7, TakeIs
  <1> QED
    BY <1>5, <1>6, <1>8

\* So are the paths.
LEMMA AnswerPathsOk == ASSUME ReadInv, AnswerPaths PROVE ReadInv'
  <1> DEFINE q == query
             cut == q.request.depth > 0 /\ (Truncated(q) \/ Cardinality(q.paths) > q.limit)
  <1>1. /\ q.kind = "paths" /\ Finished(q)
        /\ answer' = [kind |-> "paths", request |-> q.request, truncated |-> cut,
                      paths |-> ToSet(RankedFound(q.paths, q.limit))]
        /\ query' = Idle /\ live' = live
    BY DEF AnswerPaths
  <1>2. GraphOk(live) /\ QueryOk(q, live)
    BY <1>1, GraphsOk DEF ReadInv, Idle
  <1>3. /\ q.paths \in SUBSET FoundIn(live) /\ IsFiniteSet(q.paths) /\ q.limit \in Nat /\ q.at \in Nat
        /\ q.request \in Requests /\ q.at <= q.request.depth /\ (q.at = 0 => q.paths = {})
    BY <1>2 DEF QueryOk, TraversalsOf
  <1>4. q.request.depth \in Nat
    BY <1>3, GraphReadsAssumption DEF GraphReadsAssumption
  <1> DEFINE paths == ToSet(RankedFound(q.paths, q.limit))
             within == PathsWithin(live, q.request.seeds, q.request.depth, q.request.filter)
  <1>5. ASSUME ~cut PROVE paths = within
    <2>1. CASE q.request.depth = 0
      <3>1. q.paths = {}
        BY <1>3, <2>1
      <3>2. Cardinality(q.paths) = 0
        BY <3>1, FS_EmptySet
      <3>3. ~(Cardinality(q.paths) > q.limit)
        BY <1>3, <3>2
      <3>4. paths = q.paths
        BY <1>2, <1>3, <3>3, RankedFoundAre
      <3>5. within = {}
        BY <2>1, PathsWithinIs
      <3> QED
        BY <3>1, <3>4, <3>5
    <2>2. CASE q.request.depth # 0
      <3>1. ~Truncated(q) /\ ~(Cardinality(q.paths) > q.limit)
        BY <1>4, <1>5, <2>2
      <3>2. q.paths = within
        BY <1>1, <1>2, <3>1, FinishedIsAll
      <3>3. paths = q.paths
        BY <1>2, <1>3, <3>1, RankedFoundAre
      <3> QED
        BY <3>2, <3>3
    <2> QED
      BY <2>1, <2>2
  <1>6. answer' = [kind |-> "paths", request |-> q.request, truncated |-> cut, paths |-> paths]
    BY <1>1
  <1> HIDE DEF cut, paths
  <1>7. UntruncatedIsExact'
    <2>1. answer.kind' = "paths" /\ answer.request' = q.request /\ answer.truncated' = cut /\ answer.paths' = paths
      BY <1>6
    <2> QED
      BY <1>1, <1>5, <2>1 DEF UntruncatedIsExact
  <1>8. SimulationAgrees' /\ ImpactsAreExplained'
    BY <1>6 DEF SimulationAgrees, ImpactsAreExplained
  <1> QED
    BY <1>1, <1>7, <1>8 DEF ReadInv, ReadsAreExact

\* A propagation explains its impacts unless its list of paths is full.
LEMMA FullExplains ==
    ASSUME NEW E, GraphOk(E), NEW limit \in Nat
    PROVE  LET r == FullPropagation(E, limit)
           IN  \A i \in DOMAIN r.impacts :
                  \/ \E p \in ToSet(r.paths) : EntityOf[p.edge.dst] = r.impacts[i].entity
                  \/ Len(r.paths) = limit
  <1> DEFINE R(c) == ChannelResult(E, c, limit)
             results == <<R("fundamental"), R("event"), R("reflexive")>>
  <1>1. ResultOk(E, R("fundamental")) /\ ResultOk(E, R("event")) /\ ResultOk(E, R("reflexive"))
    BY ChannelTables, ChannelExplains
  <1>2. FullPropagation(E, limit) = Merge(results, limit)
    BY DEF FullPropagation, FundamentalPropagation, EventPropagation, ReflexivePropagation
  <1> HIDE DEF R
  <1>3. DOMAIN results = 1..3 /\ \A i \in 1..3 : ResultOk(E, results[i])
    BY <1>1
  <1> HIDE DEF results
  <1>4. 3 \in Nat /\ limit \in Nat /\ GraphOk(E)
    OBVIOUS
  <1>5. LET r == Merge(results, limit)
        IN  \A i \in DOMAIN r.impacts :
               \/ \E p \in ToSet(r.paths) : EntityOf[p.edge.dst] = r.impacts[i].entity
               \/ Len(r.paths) = limit
    BY ONLY <1>3, <1>4, MergeExplains
  <1> QED
    BY <1>2, <1>5

\* So do the algorithms over holdings.
LEMMA HoldingsExplain ==
    ASSUME NEW E, GraphOk(E), NEW limit \in Nat
    PROVE  LET r == HoldingsAlgorithms(E, limit)
           IN  \A i \in DOMAIN r.impacts :
                  \/ \E p \in ToSet(r.paths) : EntityOf[p.edge.dst] = r.impacts[i].entity
                  \/ Len(r.paths) = limit
  <1> DEFINE a == CoHoldingCrowding(E, limit)
             b == NorthboundAnomaly(E, limit)
             results == <<a, b>>
  <1>1. ResultOk(E, a) /\ ResultOk(E, b)
    BY CrowdingExplains, AnomalyExplains
  <1>2. HoldingsAlgorithms(E, limit) = Merge(results, limit)
    BY DEF HoldingsAlgorithms
  <1> HIDE DEF a, b
  <1>3. DOMAIN results = 1..2 /\ \A i \in 1..2 : ResultOk(E, results[i])
    BY <1>1
  <1> HIDE DEF results
  <1>4. 2 \in Nat /\ limit \in Nat /\ GraphOk(E)
    OBVIOUS
  <1>5. LET r == Merge(results, limit)
        IN  \A i \in DOMAIN r.impacts :
               \/ \E p \in ToSet(r.paths) : EntityOf[p.edge.dst] = r.impacts[i].entity
               \/ Len(r.paths) = limit
    BY ONLY <1>3, <1>4, MergeExplains
  <1> QED
    BY <1>2, <1>5

\* A simulation is a propagation over an exact subgraph, or says it is truncated.
LEMMA AnswerSimulationOk == ASSUME ReadInv, AnswerSimulation PROVE ReadInv'
  <1> DEFINE q == query
             result == Merge([i \in DOMAIN Channels |-> ScopedResult(q.rels, Channels[i], q.limit)], q.limit)
  <1>1. /\ q.kind = "simulation" /\ Finished(q)
        /\ answer' = [kind |-> "simulation", request |-> q.request, truncated |-> Truncated(q),
                      nodes |-> q.nodes, rels |-> q.rels, result |-> result]
        /\ query' = Idle /\ live' = live
    BY DEF AnswerSimulation
  <1>2. GraphOk(live) /\ QueryOk(q, live)
    BY <1>1, GraphsOk DEF ReadInv, Idle
  <1>3. q.rels \in SUBSET live /\ q.limit \in Nat /\ q.limit = q.request.limit
    BY <1>2 DEF QueryOk, TraversalsOf
  <1>4. GraphOk(q.rels)
    BY <1>2, <1>3, PartOk
  <1>5. result = FullPropagation(q.rels, q.limit)
    BY <1>4, SimulationIs DEF GraphOk
  <1> HIDE DEF result
  <1>6. answer'.kind = "simulation" /\ answer'.request = q.request /\ answer'.truncated = Truncated(q)
        /\ answer'.nodes = q.nodes /\ answer'.rels = q.rels /\ answer'.result = result
    BY <1>1
  <1>7. UntruncatedIsExact'
    <2> SUFFICES ASSUME ~Truncated(q)
                 PROVE  /\ q.nodes = Ball(live, q.request.seeds, q.request.depth)
                        /\ q.rels = Reached(live, q.request.seeds, q.request.depth)
      BY <1>1, <1>6 DEF UntruncatedIsExact
    <2> QED
      BY <1>1, <1>2, FinishedIsAll
  <1>8. SimulationAgrees'
    BY <1>3, <1>5, <1>6 DEF SimulationAgrees
  <1>9. ImpactsAreExplained'
    <2> DEFINE r == FullPropagation(q.rels, q.limit)
    <2>1. \A i \in DOMAIN r.impacts :
             \/ \E p \in ToSet(r.paths) : EntityOf[p.edge.dst] = r.impacts[i].entity
             \/ Len(r.paths) = q.limit
      BY <1>3, <1>4, FullExplains
    <2> HIDE DEF r
    <2> QED
      BY <1>3, <1>5, <1>6, <2>1 DEF ImpactsAreExplained, r
  <1> QED
    BY <1>1, <1>7, <1>8, <1>9 DEF ReadInv, ReadsAreExact

\* A propagation over the graph answers at once.
LEMMA PropagateOk == ASSUME ReadInv, NEW r \in Requests, Propagate(r) PROVE ReadInv'
  <1>1. query' = query /\ live' = live
    BY DEF Propagate
  <1>2. GraphOk(live) /\ r.limit \in Nat
    BY GraphsOk, GraphReadsAssumption DEF ReadInv, GraphReadsAssumption
  <1> DEFINE Explained(x) == \A i \in DOMAIN x.impacts :
                                \/ \E p \in ToSet(x.paths) : EntityOf[p.edge.dst] = x.impacts[i].entity
                                \/ Len(x.paths) = r.limit
  <1>3. PICK x : /\ answer' = [kind |-> r.kind, request |-> r, result |-> x] /\ r.kind \in {"propagation", "holdings"}
                 /\ Explained(x)
    <2>1. CASE r.kind = "propagation" /\ answer' = [kind |-> r.kind, request |-> r, result |-> FullPropagation(live, r.limit)]
      <3>1. Explained(FullPropagation(live, r.limit))
        BY <1>2, FullExplains
      <3> QED
        BY <2>1, <3>1
    <2>2. CASE r.kind = "holdings" /\ answer' = [kind |-> r.kind, request |-> r, result |-> HoldingsAlgorithms(live, r.limit)]
      <3>1. Explained(HoldingsAlgorithms(live, r.limit))
        BY <1>2, HoldingsExplain
      <3> QED
        BY <2>2, <3>1
    <2> QED
      BY <2>1, <2>2 DEF Propagate
  <1>4. answer'.kind \in {"propagation", "holdings"} /\ answer'.request = r /\ answer'.result = x
    BY <1>3
  <1>5. UntruncatedIsExact' /\ SimulationAgrees'
    BY <1>4 DEF UntruncatedIsExact, SimulationAgrees
  <1>6. ImpactsAreExplained'
    BY <1>3, <1>4 DEF ImpactsAreExplained
  <1>7. query' = Idle \/ QueryOk(query', live')
    BY <1>1 DEF ReadInv
  <1> QED
    BY <1>1, <1>5, <1>6, <1>7 DEF ReadInv, ReadsAreExact

\* A traversal that moves leaves the answer alone.
LEMMA TraversalMoves == ASSUME ReadInv, QueryOk(query', live), UNCHANGED <<live, answer>> PROVE ReadInv'
  <1>1. QueryOk(query', live')
    BY DEF ReadInv
  <1>2. UntruncatedIsExact' /\ SimulationAgrees' /\ ImpactsAreExplained'
    BY DEF ReadInv, ReadsAreExact, UntruncatedIsExact, SimulationAgrees, ImpactsAreExplained
  <1> QED
    BY <1>1, <1>2 DEF ReadInv, ReadsAreExact

\* No read has begun at the start.
LEMMA ReadStarts == ReadInit => ReadInv
  BY DEF ReadInit, ReadInv, ReadsAreExact, UntruncatedIsExact, SimulationAgrees, ImpactsAreExplained, Idle

\* Every step of a read keeps the invariant.
LEMMA ReadStep == ReadInv /\ [ReadNext]_readVars => ReadInv'
  <1> SUFFICES ASSUME ReadInv, [ReadNext]_readVars PROVE ReadInv'
    OBVIOUS
  <1>1. ASSUME NEW r \in Requests, Start(r) PROVE ReadInv'
    BY <1>1, StartOk, TraversalMoves DEF Start
  <1>2. ASSUME NEW r \in Requests, Propagate(r) PROVE ReadInv'
    BY <1>2, PropagateOk
  <1>3. CASE ReadSubgraph
    BY <1>3, ReadSubgraphOk, TraversalMoves DEF ReadSubgraph
  <1>4. CASE ReadPaths
    BY <1>4, ReadPathsOk, TraversalMoves DEF ReadPaths
  <1>5. CASE AnswerSubgraph
    BY <1>5, AnswerSubgraphOk
  <1>6. CASE AnswerPaths
    BY <1>6, AnswerPathsOk
  <1>7. CASE AnswerSimulation
    BY <1>7, AnswerSimulationOk
  <1>8. CASE UNCHANGED readVars
    BY <1>8 DEF readVars, ReadInv, ReadsAreExact, UntruncatedIsExact, SimulationAgrees, ImpactsAreExplained
  <1> QED
    BY <1>1, <1>2, <1>3, <1>4, <1>5, <1>6, <1>7, <1>8 DEF ReadNext

\* The invariant of the reads: a traversal that cut nothing off is exact so far.
THEOREM ReadInvariant == ReadSpec => []ReadInv
  <1> QED
    BY ReadStarts, ReadStep, PTL DEF ReadSpec

\* A read that does not say it is truncated (query/service.py, simulation.py)
\* answers for the whole graph, whatever the graph, the depth and the limit.
THEOREM UntruncatedReadsAreExact == ReadSpec => []ReadsAreExact
  <1>1. ReadInv => ReadsAreExact
    BY DEF ReadInv
  <1> QED
    BY <1>1, ReadInvariant, PTL

\* An entity is reported without a path to it only when the list of paths is full
\* (propagation/merge.py), whatever the graph and the scores.
THEOREM ReportedImpactsAreExplained == ReadSpec => []ImpactsAreExplained
  <1>1. ReadInv => ImpactsAreExplained
    BY DEF ReadInv
  <1> QED
    BY <1>1, ReadInvariant, PTL
=============================================================================

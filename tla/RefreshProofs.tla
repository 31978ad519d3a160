--------------------------- MODULE RefreshProofs ---------------------------
(***************************************************************************)
(* Proofs about what fills the data platform.  The daily refresh: a run of *)
(* DailyRefresh is, for each of its parts, a behaviour of that part's own  *)
(* specification, and each part keeps its invariant for any sets of        *)
(* processes, dates, datasets, run ids and migrations.  The backfill of    *)
(* holdings: for any requests, rows and number of processes, what is       *)
(* staged is what the provider had and nothing is asked for too late.      *)
(***************************************************************************)
EXTENDS DailyRefresh, HoldingsBackfill, FiniteSetTheorems, SequenceTheorems, TLAPS

-----------------------------------------------------------------------------
(* The lock file                                                           *)

Owning == {"write", "held", "unlink"}
Running == {"new", "open", "found", "reclaim", "reopen"} \cup Owning

\* A run that is between the creation of the lock file and its removal finds its
\* own file at the path, unless the date was raced; a file belongs to a run of
\* the date that has not ended; only a dead owner is judged reclaimable.
LockInv ==
    /\ LockTypeOK
    /\ \A p \in Procs : lpc[p] \in Owning /\ date[p] \notin raced => lockFile[date[p]] = p
    /\ \A d \in Dates : lockFile[d] # NoProc =>
           date[lockFile[d]] = d /\ lpc[lockFile[d]] \in Owning \cup {"crashed"}
    /\ \A p \in Procs : lpc[p] \in Running => p \notin dead
    /\ \A p \in Procs : lpc[p] = "reclaim" => judged[p] \in dead
    /\ \A p \in Procs : lpc[p] \in {"held", "unlink"} => p \in written

\* Init establishes LockInv.
LEMMA LockInitInv == LockInit => LockInv
  BY LockAssumption DEF LockInit, LockInv, LockTypeOK, LockPhases, Owning, Running

\* Every step of every run keeps LockInv.
LEMMA LockStepInv == LockInv /\ [LockNext]_lockVars => LockInv'
  <1> SUFFICES ASSUME LockInv, [LockNext]_lockVars PROVE LockInv'
    OBVIOUS
  <1> USE LockAssumption DEF LockInv, LockTypeOK, LockPhases, Owning, Running
  <1>1. CASE UNCHANGED lockVars
    BY <1>1 DEF lockVars
  <1>2. ASSUME NEW p \in Procs, BeginAcquire(p) PROVE LockInv'
    BY <1>2 DEF BeginAcquire, Move
  <1>3. ASSUME NEW p \in Procs, OpenLock(p) PROVE LockInv'
    BY <1>3 DEF OpenLock, Move
  <1>4. ASSUME NEW p \in Procs, ReadOwner(p) PROVE LockInv'
    BY <1>4 DEF ReadOwner, Reclaimable, Move
  <1>5. ASSUME NEW p \in Procs, ReclaimLock(p) PROVE LockInv'
    BY <1>5 DEF ReclaimLock, Unlink, Move
  <1>6. ASSUME NEW p \in Procs, WriteOwner(p) PROVE LockInv'
    BY <1>6 DEF WriteOwner, Move
  <1>7. ASSUME NEW p \in Procs, WriteOwnerFails(p) PROVE LockInv'
    BY <1>7 DEF WriteOwnerFails, Unlink, Move
  <1>8. ASSUME NEW p \in Procs, ReleaseCheck(p) PROVE LockInv'
    BY <1>8 DEF ReleaseCheck, MatchesOwner, Move
  <1>9. ASSUME NEW p \in Procs, ReleaseUnlink(p) PROVE LockInv'
    BY <1>9 DEF ReleaseUnlink, Unlinked, Unlink, Move
  <1>10. ASSUME NEW p \in Procs, Exit(p) PROVE LockInv'
    BY <1>10 DEF Exit
  <1> QED
    BY <1>1, <1>2, <1>3, <1>4, <1>5, <1>6, <1>7, <1>8, <1>9, <1>10 DEF LockNext

\* Runs exclude each other but for the raced reclaim, and leave no lock behind.
LEMMA LockInvSafe == LockInv => LockSafe
  <1> SUFFICES ASSUME LockInv PROVE LockSafe
    OBVIOUS
  <1>1. ExclusiveUnlessRaced
    <2> SUFFICES ASSUME NEW d \in Dates, d \notin raced PROVE Cardinality(Holders(d)) <= 1
      BY DEF ExclusiveUnlessRaced
    <2>1. Holders(d) \subseteq {lockFile[d]}
      BY DEF LockInv, Holders, Owning
    <2>2. Cardinality({lockFile[d]}) = 1 /\ IsFiniteSet({lockFile[d]})
      BY FS_Singleton
    <2>3. Holders(d) = {} \/ Holders(d) = {lockFile[d]}
      BY <2>1
    <2> QED
      BY <2>2, <2>3, FS_EmptySet
  <1>2. EndedRunsLeaveNoLock
    BY DEF LockInv, EndedRunsLeaveNoLock, Owning
  <1> QED
    BY <1>1, <1>2 DEF LockSafe

\* A step of the system is a step of the lock file or leaves it alone.
LEMMA NextKeepsLock == [Next]_vars => [LockNext]_lockVars
  <1> SUFFICES ASSUME [Next]_vars PROVE [LockNext]_lockVars
    OBVIOUS
  <1>1. CASE UNCHANGED vars
    BY <1>1 DEF vars
  <1>2. ASSUME NEW p \in Procs, Run(p) PROVE [LockNext]_lockVars
    BY <1>2 DEF Run, Configure, ConfigFails, AcquireStep, LockDecided, FetchAndWrite, ListPartition,
         WriteStep, AdapterEnds, DbtStep, MigrateStep, PublishStep, CanonicalEnds, ComparePartition,
         HealthEnds, ReleaseStep, Terminate, LockNext
  <1>3. ASSUME NEW p \in Procs, Crash(p) PROVE [LockNext]_lockVars
    BY <1>3 DEF Crash, LockNext
  <1>4. ASSUME NEW w \in Writers, ToolStep(w) PROVE [LockNext]_lockVars
    BY <1>4 DEF ToolStep
  <1> QED
    BY <1>1, <1>2, <1>3, <1>4 DEF Next

\* What run_daily_refresh does with the lock file is the lock protocol, whatever
\* its other steps do.
THEOREM RefreshKeepsLockProtocol == Spec => LockSpec
  <1>1. Init => LockInit
    BY DEF Init
  <1> QED
    BY <1>1, NextKeepsLock, PTL DEF Spec, LockSpec

\* Two runs of a date refresh it at once only after a contender has unlinked a
\* lock other than the one it had judged, and a run that ends leaves no lock.
THEOREM RefreshLockIsSafe == Spec => []LockSafe
  <1>1. LockSpec => []LockInv
    BY LockInitInv, LockStepInv, PTL DEF LockSpec
  <1> QED
    BY <1>1, LockInvSafe, RefreshKeepsLockProtocol, PTL

-----------------------------------------------------------------------------
(* The raw zone                                                            *)

\* A writer between flock and its release holds the lock of its partition; from
\* os.link on the artifact is its own and not listed yet, and the entries it
\* read are still the manifest's; an unlisted artifact is such a writer's.
RawInv ==
    /\ RawTypeOK
    /\ \A w \in Writers : wpc[w] \in {"locked", "linked", "merging"} => flock[wpart[w]] = w
    /\ \A w \in Writers : wpc[w] \in {"linked", "merging"} =>
           files[wpart[w]][wrun[w]] = w /\ \A e \in manifest[wpart[w]] : e[1] # wrun[w]
    /\ \A w \in Writers : wpc[w] = "merging" => wseen[w] = manifest[wpart[w]]
    /\ \A q \in Parts : \A e, f \in manifest[q] : e[1] = f[1] => e = f
    /\ \A q \in Parts : \A e \in manifest[q] : files[q][e[1]] = e[2]
    /\ \A q \in Parts \ stranded, r \in Runs : files[q][r] # NoWriter =>
           \/ \E e \in manifest[q] : e[1] = r
           \/ /\ files[q][r] \in Writers
              /\ wpc[files[q][r]] \in {"linked", "merging"}
              /\ wpart[files[q][r]] = q /\ wrun[files[q][r]] = r

\* RawInit establishes RawInv.
LEMMA RawInitInv == RawInit => RawInv
  BY RawAssumption DEF RawInit, RawInv, RawTypeOK, WriterPhases

\* Every step of every writer keeps RawInv.
LEMMA RawStepInv == RawInv /\ [RawNext]_rawVars => RawInv'
  <1> SUFFICES ASSUME RawInv, [RawNext]_rawVars PROVE RawInv'
    OBVIOUS
  <1> USE RawAssumption DEF RawInv, RawTypeOK, WriterPhases
  <1>1. CASE UNCHANGED rawVars
    BY <1>1 DEF rawVars
  <1>2. ASSUME NEW w \in Writers, StartWrite(w) PROVE RawInv'
    BY <1>2 DEF StartWrite, WMove
  <1>3. ASSUME NEW w \in Writers, EnterPartition(w) PROVE RawInv'
    BY <1>3 DEF EnterPartition, MayEnter, WMove
  <1>4. ASSUME NEW w \in Writers, Materialize(w) PROVE RawInv'
    BY <1>4 DEF Materialize, RunIsTaken, Listed, WMove
  <1>5. ASSUME NEW w \in Writers, RefuseRun(w) PROVE RawInv'
    BY <1>5 DEF RefuseRun, Leave, WMove
  <1>6. ASSUME NEW w \in Writers, ReadEntries(w) PROVE RawInv'
    BY <1>6 DEF ReadEntries, WMove
  <1>7. ASSUME NEW w \in Writers, CommitManifest(w) PROVE RawInv'
    <2> DEFINE q == wpart[w]  r == wrun[w]
    <2>1. /\ wpc[w] = "merging" /\ q \in Parts /\ r \in Runs /\ flock[q] = w /\ wseen[w] = manifest[q]
          /\ files[q][r] = w /\ \A e \in manifest[q] : e[1] # r
      BY <1>7 DEF CommitManifest
    <2>2. manifest' = [manifest EXCEPT ![q] = manifest[q] \cup {<<r, w>>}]
      BY <1>7, <2>1 DEF CommitManifest
    <2>3. RawTypeOK'
      BY <1>7, <2>1, <2>2 DEF CommitManifest, Leave, Drop, WMove
    <2>4. \A v \in Writers : wpc'[v] \in {"locked", "linked", "merging"} =>
             wpc'[v] = wpc[v] /\ v # w /\ wpart[v] # q
      BY <1>7, <2>1 DEF CommitManifest, WMove
    <2>5. UNCHANGED <<files, wpart, wrun, stranded>>
      BY <1>7 DEF CommitManifest
    <2>6. \A v \in Writers : wpc'[v] \in {"locked", "linked", "merging"} => flock'[wpart'[v]] = v
      BY <1>7, <2>1, <2>4, <2>5 DEF CommitManifest, Leave
    <2>7. \A v \in Writers : v # w => wseen'[v] = wseen[v]
      BY <1>7 DEF CommitManifest, Drop
    <2>8. \A v \in Writers : wpart[v] # q => manifest'[wpart[v]] = manifest[wpart[v]]
      BY <2>1, <2>2
    <2>9. \A v \in Writers : wpc'[v] \in {"linked", "merging"} =>
             files'[wpart'[v]][wrun'[v]] = v /\ \A e \in manifest'[wpart'[v]] : e[1] # wrun'[v]
      BY <2>4, <2>5, <2>8
    <2>10. \A v \in Writers : wpc'[v] = "merging" => wseen'[v] = manifest'[wpart'[v]]
      BY <2>4, <2>5, <2>7, <2>8
    <2>11. \A x \in Parts : \A e \in manifest'[x] : e \in manifest[x] \/ (x = q /\ e = <<r, w>>)
      BY <2>1, <2>2
    <2>12. \A x \in Parts : \A e, f \in manifest'[x] : e[1] = f[1] => e = f
      <3>1. \A e \in manifest[q] : e[1] # r
        BY <2>1
      <3>2. <<r, w>>[1] = r
        OBVIOUS
      <3>3. \A x \in Parts : \A e, f \in manifest[x] : e[1] = f[1] => e = f
        OBVIOUS
      <3>4. ASSUME NEW x \in Parts, NEW e \in manifest'[x], NEW f \in manifest'[x], e[1] = f[1] PROVE e = f
        <4>1. e \in manifest[x] \/ (x = q /\ e = <<r, w>>)
          BY <2>11
        <4>2. f \in manifest[x] \/ (x = q /\ f = <<r, w>>)
          BY <2>11
        <4> QED
          BY <3>1, <3>2, <3>3, <3>4, <4>1, <4>2
      <3> QED
        BY <3>4
    <2>13. \A x \in Parts : \A e \in manifest'[x] : files'[x][e[1]] = e[2]
      BY <2>1, <2>5, <2>11
    <2>14. ASSUME NEW x \in Parts \ stranded', NEW y \in Runs, files'[x][y] # NoWriter
           PROVE  \/ \E e \in manifest'[x] : e[1] = y
                  \/ /\ files'[x][y] \in Writers
                     /\ wpc'[files'[x][y]] \in {"linked", "merging"}
                     /\ wpart'[files'[x][y]] = x /\ wrun'[files'[x][y]] = y
      <3>1. CASE \E e \in manifest[x] : e[1] = y
        BY <3>1, <2>1, <2>2
      <3>2. CASE x = q /\ y = r
        <4>1. <<r, w>> \in manifest'[x]
          BY <3>2, <2>1, <2>2
        <4> QED
          BY <4>1, <3>2
      <3>3. CASE ~(\E e \in manifest[x] : e[1] = y) /\ ~(x = q /\ y = r)
        <4>1. /\ files[x][y] \in Writers /\ wpc[files[x][y]] \in {"linked", "merging"}
              /\ wpart[files[x][y]] = x /\ wrun[files[x][y]] = y
          BY <2>14, <2>5, <3>3
        <4>2. files[x][y] # w
          BY <4>1, <3>3
        <4>3. wpc'[files[x][y]] = wpc[files[x][y]]
          BY <1>7, <4>1, <4>2 DEF CommitManifest, WMove
        <4> QED
          BY <4>1, <4>3, <2>5
      <3> QED
        BY <3>1, <3>2, <3>3
    <2> QED
      BY <2>3, <2>6, <2>9, <2>10, <2>12, <2>13, <2>14
  <1>8. ASSUME NEW w \in Writers, ManifestFails(w) PROVE RawInv'
    <2> DEFINE q == wpart[w]  r == wrun[w]
    <2>1. /\ wpc[w] \in {"linked", "merging"} /\ q \in Parts /\ r \in Runs /\ flock[q] = w
          /\ files[q][r] = w /\ \A e \in manifest[q] : e[1] # r
      BY <1>8 DEF ManifestFails
    <2>2. CASE files' = [files EXCEPT ![wpart[w]][wrun[w]] = NoWriter] /\ UNCHANGED stranded
      BY <1>8, <2>1, <2>2 DEF ManifestFails, Leave, Drop, WMove
    <2>3. CASE stranded' = stranded \cup {wpart[w]} /\ UNCHANGED files
      BY <1>8, <2>1, <2>3 DEF ManifestFails, Leave, Drop, WMove
    <2> QED
      BY <1>8, <2>2, <2>3 DEF ManifestFails, Undo
  <1>9. ASSUME NEW w \in Writers, TmpFails(w) PROVE RawInv'
    BY <1>9 DEF TmpFails, WMove
  <1>10. ASSUME NEW w \in Writers, WriterDies(w) PROVE RawInv'
    BY <1>10 DEF WriterDies, Drop, WMove
  <1> QED
    BY <1>1, <1>2, <1>3, <1>4, <1>5, <1>6, <1>7, <1>8, <1>9, <1>10 DEF RawNext

\* Manifests and artifacts agree.
LEMMA RawInvSafe == RawInv => RawSafe
  <1> SUFFICES ASSUME RawInv PROVE RawSafe
    OBVIOUS
  <1>1. ManifestIsExact
    BY DEF RawInv, ManifestIsExact, DuplicateRunIds, BrokenEntries
  <1>2. OrphansAreStranded
    <2> SUFFICES ASSUME NEW q \in Parts, OrphanArtifacts(q, manifest[q]) # {}, q \notin stranded
                 PROVE  \E w \in Writers : wpc[w] \in {"linked", "merging"} /\ wpart[w] = q
      BY DEF OrphansAreStranded
    <2>1. PICK r \in Runs : files[q][r] # NoWriter /\ ~\E e \in manifest[q] : e[1] = r
      BY DEF OrphanArtifacts
    <2> QED
      BY <2>1 DEF RawInv
  <1> QED
    BY <1>1, <1>2 DEF RawSafe

\* A step of the system is a step of the raw zone or leaves it alone.
LEMMA NextKeepsRaw == [Next]_vars => [RawNext]_rawVars
  <1> SUFFICES ASSUME [Next]_vars PROVE [RawNext]_rawVars
    OBVIOUS
  <1>1. CASE UNCHANGED vars
    BY <1>1 DEF vars
  <1>2. ASSUME NEW p \in Procs, NEW ds \in Datasets, FetchAndWrite(p, ds) PROVE [RawNext]_rawVars
    <2>1. <<p, ds>> \in Writers
      BY RefreshAssumption
    <2> QED
      BY <1>2, <2>1 DEF FetchAndWrite, RawNext
  <1>3. ASSUME NEW p \in Procs, WriteStep(p) PROVE [RawNext]_rawVars
    BY <1>3 DEF WriteStep, WritersOf, RawStep, RawNext
  <1>4. ASSUME NEW p \in Procs, Run(p) PROVE [RawNext]_rawVars
    BY <1>2, <1>3, <1>4 DEF Run, Configure, ConfigFails, AcquireStep, LockDecided, ListPartition,
         AdapterEnds, DbtStep, MigrateStep, PublishStep, CanonicalEnds, ComparePartition,
         HealthEnds, ReleaseStep, Terminate
  <1>5. ASSUME NEW p \in Procs, Crash(p) PROVE [RawNext]_rawVars
    BY <1>5 DEF Crash, WritersOf, RawNext
  <1>6. ASSUME NEW w \in Writers, ToolStep(w) PROVE [RawNext]_rawVars
    BY <1>6 DEF ToolStep, RawStep, RawNext
  <1> QED
    BY <1>1, <1>4, <1>5, <1>6 DEF Next

\* What the refresh runs and the tools do in the raw zone is the writers'
\* protocol.
THEOREM RefreshKeepsRawProtocol == Spec => RawSpec
  <1>1. Init => RawInit
    BY DEF Init
  <1> QED
    BY <1>1, NextKeepsRaw, PTL DEF Spec, RawSpec

\* The manifest of a partition lists exactly what is on disk, and an unlisted
\* artifact is the trace of a writer that died: for refreshes and tools together.
THEOREM RefreshRawIsSafe == Spec => []RawSafe
  <1>1. RawSpec => []RawInv
    BY RawInitInv, RawStepInv, PTL DEF RawSpec
  <1> QED
    BY <1>1, RawInvSafe, RefreshKeepsRawProtocol, PTL

\* No later write drops or replaces an entry of a manifest.
THEOREM RefreshEntriesArePermanent == Spec => EntriesArePermanent
  <1>1. RawInv /\ [RawNext]_rawVars => [\A q \in Parts : manifest[q] \subseteq manifest'[q]]_rawVars
    <2> SUFFICES ASSUME RawInv, RawNext, NEW q \in Parts PROVE manifest[q] \subseteq manifest'[q]
      OBVIOUS
    <2>1. ASSUME NEW w \in Writers, CommitManifest(w) PROVE manifest[q] \subseteq manifest'[q]
      BY <2>1 DEF CommitManifest, RawInv, RawTypeOK
    <2> QED
      BY <2>1 DEF RawNext, StartWrite, EnterPartition, Materialize, RefuseRun, ReadEntries, ManifestFails,
           TmpFails, WriterDies
  <1>2. RawSpec => []RawInv
    BY RawInitInv, RawStepInv, PTL DEF RawSpec
  <1> QED
    BY <1>1, <1>2, RefreshKeepsRawProtocol, PTL DEF RawSpec, EntriesArePermanent

-----------------------------------------------------------------------------
(* The migrations                                                          *)

\* The applied versions are the first k; the runner that applies has the advisory
\* lock and has the rest before it.
MigrationInv ==
    /\ MigrationTypeOK
    /\ \E k \in 0..Versions : applied = 1..k
    /\ \A v \in 1..Versions : executed[v] = IF v \in applied THEN 1 ELSE 0
    /\ \A g \in Runners : gpc[g] = "applying" =>
           advisory = g /\ pending[g] = (1..Versions) \ applied
    /\ \A g \in Runners : gpc[g] = "finished" => applied = 1..Versions

\* MigrationInit establishes MigrationInv.
LEMMA MigrationInitInv == MigrationInit => MigrationInv
  <1> SUFFICES ASSUME MigrationInit PROVE MigrationInv
    OBVIOUS
  <1>1. applied = 1..0 /\ 0 \in 0..Versions
    BY MigrationAssumption DEF MigrationInit
  <1> QED
    BY <1>1, MigrationAssumption DEF MigrationInit, MigrationInv, MigrationTypeOK, RunnerPhases

\* Every step of every runner keeps MigrationInv.
LEMMA MigrationStepInv == MigrationInv /\ [MigrationNext]_migrationVars => MigrationInv'
  <1> SUFFICES ASSUME MigrationInv, [MigrationNext]_migrationVars PROVE MigrationInv'
    OBVIOUS
  <1> USE MigrationAssumption DEF MigrationInv, MigrationTypeOK, RunnerPhases
  <1>1. CASE UNCHANGED migrationVars
    BY <1>1 DEF migrationVars
  <1>2. ASSUME NEW g \in Runners, LoadMigrations(g) PROVE MigrationInv'
    BY <1>2 DEF LoadMigrations, GMove
  <1>3. ASSUME NEW g \in Runners, FetchApplied(g) PROVE MigrationInv'
    BY <1>3 DEF FetchApplied, LockIsFree, GMove
  <1>4. ASSUME NEW g \in Runners, ApplyMigration(g) PROVE MigrationInv'
    <2>1. PICK k \in 0..Versions : applied = 1..k
      OBVIOUS
    <2>2. gpc[g] = "applying" /\ advisory = g /\ pending[g] = (1..Versions) \ applied /\ pending[g] # {}
      BY <1>4 DEF ApplyMigration
    <2>3. k + 1 \in pending[g] /\ \A u \in pending[g] : k + 1 <= u
      BY <2>1, <2>2
    <2>4. NextPending(g) = k + 1
      BY <2>3, <2>2 DEF NextPending
    <2>5. /\ applied' = applied \cup {k + 1} /\ executed' = [executed EXCEPT ![k + 1] = @ + 1]
          /\ pending' = [pending EXCEPT ![g] = @ \ {k + 1}] /\ UNCHANGED <<advisory, gpc>>
      BY <1>4, <2>4 DEF ApplyMigration
    <2>6. applied' = 1..(k + 1) /\ k + 1 \in 0..Versions
      BY <2>1, <2>2, <2>3, <2>5
    <2>7. MigrationTypeOK'
      BY <2>5, <2>6, <2>2
    <2>8. \A v \in 1..Versions : executed'[v] = IF v \in applied' THEN 1 ELSE 0
      BY <2>1, <2>5, <2>6
    <2>9. \A h \in Runners : gpc'[h] = "applying" => advisory' = h /\ pending'[h] = (1..Versions) \ applied'
      BY <2>2, <2>5
    <2>10. \A h \in Runners : gpc'[h] = "finished" => applied' = 1..Versions
      BY <2>1, <2>2, <2>5
    <2> QED
      BY <2>6, <2>7, <2>8, <2>9, <2>10
  <1>5. ASSUME NEW g \in Runners, FinishMigrations(g) PROVE MigrationInv'
    BY <1>5 DEF FinishMigrations, GMove
  <1>6. ASSUME NEW g \in Runners, MigrationFails(g) PROVE MigrationInv'
    BY <1>6 DEF MigrationFails, AfterFailure, GMove
  <1>7. ASSUME NEW g \in Runners, SessionLost(g) PROVE MigrationInv'
    BY <1>7 DEF SessionLost, GMove
  <1> QED
    BY <1>1, <1>2, <1>3, <1>4, <1>5, <1>6, <1>7 DEF MigrationNext

\* A step of the system is a step of the migrations or leaves it alone.
LEMMA NextKeepsMigration == [Next]_vars => [MigrationNext]_migrationVars
  <1> SUFFICES ASSUME [Next]_vars PROVE [MigrationNext]_migrationVars
    OBVIOUS
  <1> USE RefreshAssumption
  <1>1. CASE UNCHANGED vars
    BY <1>1 DEF vars
  <1>2. ASSUME NEW p \in Procs, MigrateStep(p) PROVE [MigrationNext]_migrationVars
    BY <1>2 DEF MigrateStep, MigrationNext
  <1>3. ASSUME NEW p \in Procs, Run(p) PROVE [MigrationNext]_migrationVars
    BY <1>2, <1>3 DEF Run, Configure, ConfigFails, AcquireStep, LockDecided, FetchAndWrite, ListPartition,
         WriteStep, AdapterEnds, DbtStep, PublishStep, CanonicalEnds, ComparePartition,
         HealthEnds, ReleaseStep, Terminate
  <1>4. ASSUME NEW p \in Procs, Crash(p) PROVE [MigrationNext]_migrationVars
    BY <1>4 DEF Crash, MigrationNext
  <1>5. ASSUME NEW w \in Writers, ToolStep(w) PROVE [MigrationNext]_migrationVars
    BY <1>5 DEF ToolStep
  <1> QED
    BY <1>1, <1>3, <1>4, <1>5 DEF Next

\* The refresh applies migrations by the runner's protocol.
THEOREM RefreshKeepsMigrationProtocol == Spec => MigrationSpec
  <1>1. Init => MigrationInit
    BY DEF Init
  <1> QED
    BY <1>1, NextKeepsMigration, PTL DEF Spec, MigrationSpec

\* The catalog's schema is a prefix of the migrations, each applied once, and a
\* runner that finished has them all: whatever fails or is killed.
THEOREM RefreshSchemaIsSafe == Spec => [](SchemaIsAPrefix /\ FinishedMeansMigrated)
  <1>1. MigrationSpec => []MigrationInv
    BY MigrationInitInv, MigrationStepInv, PTL DEF MigrationSpec
  <1>2. MigrationInv => SchemaIsAPrefix /\ FinishedMeansMigrated
    <2> SUFFICES ASSUME MigrationInv PROVE SchemaIsAPrefix /\ FinishedMeansMigrated
      OBVIOUS
    <2>1. PICK k \in 0..Versions : applied = 1..k
      BY DEF MigrationInv
    <2>2. \A v \in applied : 1..v \subseteq applied
      BY <2>1
    <2> QED
      BY <2>2 DEF MigrationInv, SchemaIsAPrefix, FinishedMeansMigrated
  <1> QED
    BY <1>1, <1>2, RefreshKeepsMigrationProtocol, PTL

-----------------------------------------------------------------------------
(* The marts                                                               *)

WrittenBy(l, x) == x \in 1..Len(loadOf) /\ loadOf[x] = l

\* What a load under way has done to the tables so far: those before at are read
\* back, those after it are as the load found them.
Underway(l) ==
    /\ at[l] \in Tables
    /\ \A t \in Tables :
          /\ t > at[l] => head[t] = base[l][t]
          /\ mpc[l] = "overwrite" /\ t = at[l] => head[t] = base[l][t]
          /\ mpc[l] = "readback" /\ t = at[l] => WrittenBy(l, head[t])
          /\ mpc[l] \in {"overwrite", "readback", "pin"} /\ t < at[l] =>
                 WrittenBy(l, head[t]) /\ seen[l][t] = head[t]
          /\ mpc[l] = "pin" => WrittenBy(l, head[t]) /\ seen[l][t] = head[t]

\* One load at a time, and it is where its progress says.
MartAlone    == \A k, l \in Loads : mpc[k] \in Active /\ mpc[l] \in Active => k = l
MartProgress == \A l \in Loads : mpc[l] \in Active => Underway(l)

\* The readers' set is empty or one published load's.
MartServed ==
    \/ setFile = NoSnapshots
    \/ \E k \in Loads : mpc[k] = "published" /\ \A t \in Tables : WrittenBy(k, setFile[t])

\* The heads, or what the load under way found as heads, are the set.
MartHeads ==
    /\ \A l \in Loads : mpc[l] \in Active => base[l] = setFile
    /\ (\A l \in Loads : mpc[l] \notin Active) => head = setFile

\* All this unless two loads have overlapped or a rollback was incomplete.
MartInv ==
    /\ MartTypeOK
    /\ ~overlapped =>
          /\ MartAlone /\ MartProgress /\ MartServed
          /\ ~unrestored /\ setFile # NoSnapshots => MartHeads

\* MartInit establishes MartInv.
LEMMA MartInitInv == MartInit => MartInv
  <1> SUFFICES ASSUME MartInit PROVE MartInv
    OBVIOUS
  <1>1. Len(loadOf) = 0 /\ loadOf \in Seq(Loads)
    BY DEF MartInit
  <1>2. overlapped \in BOOLEAN /\ unrestored \in BOOLEAN
    BY Zenon DEF MartInit
  <1> QED
    BY <1>1, <1>2, MartAssumption DEF MartInit, MartInv, MartTypeOK, MartAlone, MartProgress, MartServed, MartHeads,
         Snapshots, NoSnapshots, Tables, LoadPhases, Active

\* Every step of every load keeps the types.
LEMMA MartTypeStep == MartTypeOK /\ [MartNext]_martVars => MartTypeOK'
  <1> SUFFICES ASSUME MartTypeOK, [MartNext]_martVars PROVE MartTypeOK'
    OBVIOUS
  <1> USE DEF MartTypeOK, LoadPhases
  <1>0. NoSnapshots \in [Tables -> Snapshots] /\ {0, 1} \subseteq 0..(2 * Pairs)
    BY MartAssumption DEF NoSnapshots, Snapshots
  <1>a. loadOf' = loadOf => Snapshots' = Snapshots
    BY DEF Snapshots
  <1>1. CASE UNCHANGED martVars
    BY <1>1, <1>a DEF martVars
  <1>2. ASSUME NEW l \in Loads, PrepareLoad(l) PROVE MartTypeOK'
    <2>1. overlapped' \in BOOLEAN /\ unrestored' \in BOOLEAN
      BY <1>2, Zenon DEF PrepareLoad, MMove
    <2> QED
      BY <1>2, <2>1, <1>0, <1>a DEF PrepareLoad, MMove, Active
  <1>3. ASSUME NEW l \in Loads, RefuseLoad(l) PROVE MartTypeOK'
    <2>1. overlapped' \in BOOLEAN /\ unrestored' \in BOOLEAN
      BY <1>3, Zenon DEF RefuseLoad, MMove
    <2> QED
      BY <1>3, <2>1, <1>0, <1>a DEF RefuseLoad, MMove, Active
  <1>4. ASSUME NEW l \in Loads, Overwrite(l) PROVE MartTypeOK'
    <2>1. loadOf' \in Seq(Loads) /\ Len(loadOf') = Len(loadOf) + 1 /\ Len(loadOf) \in Nat
      BY <1>4 DEF Overwrite
    <2>a. Snapshots \subseteq Snapshots' /\ Len(loadOf') \in Snapshots'
      BY <2>1 DEF Snapshots
    <2>2. \A f \in [Tables -> Snapshots] : f \in [Tables -> Snapshots']
      BY <2>a
    <2>3. head' \in [Tables -> Snapshots']
      <3>1. head \in [Tables -> Snapshots']
        BY <2>2
      <3> QED
        BY <1>4, <2>a, <3>1 DEF Overwrite
    <2>4. setFile' \in [Tables -> Snapshots']
      BY <1>4, <2>2 DEF Overwrite
    <2>5. base' \in [Loads -> [Tables -> Snapshots']] /\ seen' \in [Loads -> [Tables -> Snapshots']]
      <3>1. UNCHANGED <<base, seen>>
        BY <1>4 DEF Overwrite
      <3> QED
        BY <3>1, <2>2
    <2>6. mpc' \in [Loads -> LoadPhases] /\ at' \in [Loads -> 0..(2 * Pairs)]
      BY <1>4 DEF Overwrite, MMove
    <2>7. overlapped' \in BOOLEAN /\ unrestored' \in BOOLEAN
      BY <1>4 DEF Overwrite
    <2> QED
      BY <2>1, <2>3, <2>4, <2>5, <2>6, <2>7
  <1>5. ASSUME NEW l \in Loads, ReadBack(l) PROVE MartTypeOK'
    <2>1. overlapped' \in BOOLEAN /\ unrestored' \in BOOLEAN
      BY <1>5, Zenon DEF ReadBack
    <2>2. at' \in [Loads -> 0..(2 * Pairs)] /\ mpc' \in [Loads -> LoadPhases]
      <3>1. at[l] < 2 * Pairs => at[l] + 1 \in 0..(2 * Pairs)
        BY MartAssumption
      <3> QED
        BY <1>5, <3>1 DEF ReadBack, MMove
    <2>3. seen' \in [Loads -> [Tables -> Snapshots]]
      <3>1. [seen[l] EXCEPT ![at[l]] = head[at[l]]] \in [Tables -> Snapshots]
        OBVIOUS
      <3>2. seen' = [seen EXCEPT ![l] = [seen[l] EXCEPT ![at[l]] = head[at[l]]]]
        BY <1>5 DEF ReadBack
      <3> QED
        BY <3>1, <3>2
    <2> QED
      BY <1>5, <2>1, <2>2, <2>3, <1>a DEF ReadBack
  <1>6. ASSUME NEW l \in Loads, PinSnapshots(l) PROVE MartTypeOK'
    <2>1. overlapped' \in BOOLEAN /\ unrestored' \in BOOLEAN
      BY <1>6, Zenon DEF PinSnapshots, Pinned, Return, MMove
    <2> QED
      BY <1>6, <2>1, <1>0, <1>a DEF PinSnapshots, Pinned, Return, MMove, Active
  <1>7. ASSUME NEW l \in Loads, LoadRaises(l) PROVE MartTypeOK'
    <2>1. overlapped' \in BOOLEAN /\ unrestored' \in BOOLEAN
      BY <1>7, Zenon DEF LoadRaises, Guarded, MMove
    <2> QED
      BY <1>7, <2>1, <1>0, <1>a DEF LoadRaises, Guarded, MMove, Active
  <1>8. ASSUME NEW l \in Loads, RollBack(l) PROVE MartTypeOK'
    <2>1. overlapped' \in BOOLEAN /\ unrestored' \in BOOLEAN
      BY <1>8, Zenon DEF RollBack
    <2>2. head' \in [Tables -> Snapshots]
      BY <1>8 DEF RollBack
    <2> QED
      BY <1>8, <2>1, <2>2, <1>0, <1>a DEF RollBack, Return, MMove
  <1>9. ASSUME NEW l \in Loads, LoaderDies(l) PROVE MartTypeOK'
    <2>1. overlapped' \in BOOLEAN /\ unrestored' \in BOOLEAN
      BY <1>9, Zenon DEF LoaderDies, Return, MMove
    <2> QED
      BY <1>9, <2>1, <1>0, <1>a DEF LoaderDies, Return, MMove, Active
  <1> QED
    BY <1>1, <1>2, <1>3, <1>4, <1>5, <1>6, <1>7, <1>8, <1>9 DEF MartNext

\* Every step of every load keeps MartInv.
LEMMA MartStepInv == MartInv /\ [MartNext]_martVars => MartInv'
  <1> SUFFICES ASSUME MartInv, [MartNext]_martVars PROVE MartInv'
    OBVIOUS
  <1>0. MartTypeOK /\ MartTypeOK'
    BY MartTypeStep DEF MartInv
  <1>1. CASE UNCHANGED martVars
    BY <1>1 DEF martVars, MartInv, MartTypeOK, MartAlone, MartProgress, MartServed, MartHeads, Underway, WrittenBy,
         Snapshots
  <1> SUFFICES ASSUME MartNext, ~overlapped'
               PROVE  /\ MartAlone' /\ MartProgress' /\ MartServed'
                      /\ ~unrestored' /\ setFile' # NoSnapshots => MartHeads'
    BY <1>0, <1>1 DEF MartInv
  <1> USE DEF LoadPhases, Active
  <1>a. ~overlapped
    BY Zenon DEF MartNext, PrepareLoad, RefuseLoad, Overwrite, ReadBack, PinSnapshots, LoadRaises, RollBack, LoaderDies
  <1>b. /\ MartAlone /\ MartProgress /\ MartServed
        /\ ~unrestored /\ setFile # NoSnapshots => MartHeads
    BY <1>a DEF MartInv
  <1>c. ~unrestored' => ~unrestored
    BY Zenon DEF MartNext, PrepareLoad, RefuseLoad, Overwrite, ReadBack, PinSnapshots, LoadRaises, RollBack, LoaderDies
  <1>d. 2 * Pairs \in Nat /\ 1 \in Tables /\ 2 * Pairs \in Tables
    BY MartAssumption DEF Tables
  <1>e. loadOf \in Seq(Loads)
    BY <1>0 DEF MartTypeOK
  <1>f. ASSUME UNCHANGED loadOf, NEW k, NEW x PROVE WrittenBy(k, x)' <=> WrittenBy(k, x)
    BY <1>f DEF WrittenBy
  <1>2. ASSUME NEW l \in Loads, PrepareLoad(l) PROVE MartAlone' /\ MartProgress' /\ MartServed'
                                                   /\ (~unrestored' /\ setFile' # NoSnapshots => MartHeads')
    <2>1. \A k \in Loads : mpc[k] \notin Active
      BY <1>2, Zenon DEF PrepareLoad
    <2>2. /\ mpc' = [mpc EXCEPT ![l] = "overwrite"] /\ at' = [at EXCEPT ![l] = 1] /\ base' = [base EXCEPT ![l] = head]
          /\ UNCHANGED <<head, loadOf, setFile, seen>>
      BY <1>2 DEF PrepareLoad, MMove
    <2>3. MartAlone'
      BY <2>1, <2>2, <1>0 DEF MartAlone, MartTypeOK
    <2>4. MartProgress'
      BY <2>1, <2>2, <1>0, <1>d DEF MartProgress, Underway, MartTypeOK, Tables
    <2>5. MartServed'
      BY <2>2, <1>0, <1>b, <1>2 DEF MartServed, WrittenBy, MartTypeOK, PrepareLoad
    <2>6. ~unrestored' /\ setFile' # NoSnapshots => MartHeads'
      BY <2>1, <2>2, <1>0, <1>b, <1>c DEF MartHeads, MartTypeOK
    <2> QED
      BY <2>3, <2>4, <2>5, <2>6
  <1>3. ASSUME NEW l \in Loads, RefuseLoad(l) PROVE MartAlone' /\ MartProgress' /\ MartServed'
                                                   /\ (~unrestored' /\ setFile' # NoSnapshots => MartHeads')
    <2>1. /\ mpc[l] = "idle" /\ mpc' = [mpc EXCEPT ![l] = "failed"]
          /\ UNCHANGED <<head, loadOf, setFile, at, base, seen>>
      BY <1>3 DEF RefuseLoad, MMove
    <2>2. \A k \in Loads : (mpc'[k] \in Active <=> mpc[k] \in Active) /\ (mpc[k] # "idle" => mpc'[k] = mpc[k])
      BY <2>1, <1>0 DEF MartTypeOK
    <2>3. MartAlone' /\ MartProgress'
      BY <2>1, <2>2, <1>b DEF MartAlone, MartProgress, Underway, WrittenBy
    <2>4. MartServed'
      BY <2>1, <2>2, <1>b DEF MartServed, WrittenBy
    <2>5. ~unrestored' /\ setFile' # NoSnapshots => MartHeads'
      BY <2>1, <2>2, <1>b, <1>c DEF MartHeads
    <2> QED
      BY <2>3, <2>4, <2>5
  <1>4. ASSUME NEW l \in Loads, Overwrite(l) PROVE MartAlone' /\ MartProgress' /\ MartServed'
                                                   /\ (~unrestored' /\ setFile' # NoSnapshots => MartHeads')
    <2>1. /\ mpc[l] = "overwrite" /\ mpc' = [mpc EXCEPT ![l] = "readback"] /\ loadOf' = Append(loadOf, l)
          /\ head' = [head EXCEPT ![at[l]] = Len(loadOf')] /\ UNCHANGED <<setFile, at, base, seen>>
      BY <1>4 DEF Overwrite, MMove
    <2>2. Len(loadOf') = Len(loadOf) + 1 /\ loadOf'[Len(loadOf')] = l /\ \A x \in 1..Len(loadOf) : loadOf'[x] = loadOf[x]
      BY <2>1, <1>e
    <2>3. \A k, x : WrittenBy(k, x) => WrittenBy(k, x)'
      BY <2>2, <1>e DEF WrittenBy
    <2>4. WrittenBy(l, Len(loadOf))'
      BY <2>2, <1>e DEF WrittenBy
    <2>5. \A k \in Loads : (mpc'[k] \in Active <=> mpc[k] \in Active) /\ (mpc[k] \in Active => k = l)
                           /\ (mpc[k] = "published" => mpc'[k] = "published")
      BY <2>1, <1>0, <1>b DEF MartTypeOK, MartAlone
    <2>6. MartAlone'
      BY <2>5 DEF MartAlone
    <2>7. MartProgress'
      <3>1. Underway(l)
        BY <2>1, <1>b DEF MartProgress
      <3>2. at[l] \in Tables /\ mpc'[l] = "readback" /\ at'[l] = at[l] /\ base'[l] = base[l] /\ seen'[l] = seen[l]
        BY <3>1, <2>1, <1>0 DEF Underway, MartTypeOK
      <3>3. \A t \in Tables : t # at[l] => head'[t] = head[t]
        BY <2>1, <1>0 DEF MartTypeOK
      <3>4. head'[at[l]] = Len(loadOf')
        BY <2>1, <3>2, <1>0 DEF MartTypeOK
      <3>5. Underway(l)'
        BY <3>1, <3>2, <3>3, <3>4, <2>1, <2>3, <2>4 DEF Underway, Tables
      <3> QED
        BY <3>5, <2>5 DEF MartProgress
    <2>8. MartServed'
      BY <2>1, <2>3, <2>5, <1>b DEF MartServed
    <2>9. ~unrestored' /\ setFile' # NoSnapshots => MartHeads'
      BY <2>1, <2>5, <1>b, <1>c DEF MartHeads
    <2> QED
      BY <2>6, <2>7, <2>8, <2>9
  <1>5. ASSUME NEW l \in Loads, ReadBack(l) PROVE MartAlone' /\ MartProgress' /\ MartServed'
                                                   /\ (~unrestored' /\ setFile' # NoSnapshots => MartHeads')
    <2>1. /\ mpc[l] = "readback" /\ seen' = [seen EXCEPT ![l][at[l]] = head[at[l]]]
          /\ UNCHANGED <<head, loadOf, setFile, base>>
      BY <1>5 DEF ReadBack
    <2>2. \/ at[l] < 2 * Pairs /\ at' = [at EXCEPT ![l] = at[l] + 1] /\ mpc' = [mpc EXCEPT ![l] = "overwrite"]
          \/ ~(at[l] < 2 * Pairs) /\ at' = at /\ mpc' = [mpc EXCEPT ![l] = "pin"]
      BY <1>5 DEF ReadBack, MMove
    <2>3. Underway(l)
      BY <2>1, <1>b DEF MartProgress
    <2>4. at[l] \in Tables /\ WrittenBy(l, head[at[l]])
      BY <2>1, <2>3 DEF Underway
    <2>5. \A k \in Loads : (mpc'[k] \in Active <=> mpc[k] \in Active) /\ (mpc[k] \in Active => k = l)
                           /\ (mpc[k] = "published" => mpc'[k] = "published")
      BY <2>1, <2>2, <1>0, <1>b DEF MartTypeOK, MartAlone
    <2>6. seen'[l][at[l]] = head[at[l]] /\ \A t \in Tables : t # at[l] => seen'[l][t] = seen[l][t]
      BY <2>1, <2>4, <1>0 DEF MartTypeOK
    <2>7. \A k, x : WrittenBy(k, x)' <=> WrittenBy(k, x)
      BY <2>1 DEF WrittenBy
    <2>8. MartProgress'
      <3>1. CASE at[l] < 2 * Pairs
        <4>1. at'[l] = at[l] + 1 /\ mpc'[l] = "overwrite"
          BY <2>2, <3>1, <1>0 DEF MartTypeOK
        <4>2. at'[l] \in Tables
          BY <4>1, <3>1, <2>4, <1>d DEF Tables
        <4>3. \A t \in Tables : (t >= at'[l] => t > at[l]) /\ (t < at'[l] => t < at[l] \/ t = at[l])
          BY <4>1, <2>4, <1>d DEF Tables
        <4>4. Underway(l)'
          BY <2>1, <2>3, <2>4, <2>6, <2>7, <4>1, <4>2, <4>3, <1>d DEF Underway, Tables
        <4> QED
          BY <4>4, <2>5 DEF MartProgress
      <3>2. CASE ~(at[l] < 2 * Pairs)
        <4>1. at'[l] = at[l] /\ mpc'[l] = "pin"
          BY <2>2, <3>2, <1>0 DEF MartTypeOK
        <4>2. \A t \in Tables : ~(t > at[l]) /\ (t < at[l] \/ t = at[l])
          BY <3>2, <2>4, <1>d DEF Tables
        <4>3. Underway(l)'
          BY <2>1, <2>3, <2>4, <2>6, <2>7, <4>1, <4>2 DEF Underway
        <4> QED
          BY <4>3, <2>5 DEF MartProgress
      <3> QED
        BY <3>1, <3>2
    <2>9. MartServed'
      BY <2>1, <2>5, <2>7, <1>b DEF MartServed
    <2>10. ~unrestored' /\ setFile' # NoSnapshots => MartHeads'
      BY <2>1, <2>5, <1>b, <1>c DEF MartHeads
    <2>11. MartAlone'
      BY <2>5 DEF MartAlone
    <2> QED
      BY <2>8, <2>9, <2>10, <2>11
  <1>6. ASSUME NEW l \in Loads, PinSnapshots(l) PROVE MartAlone' /\ MartProgress' /\ MartServed'
                                                   /\ (~unrestored' /\ setFile' # NoSnapshots => MartHeads')
    <2>1. /\ mpc[l] = "pin" /\ setFile' = seen[l] /\ mpc' = [mpc EXCEPT ![l] = "published"]
          /\ UNCHANGED <<head, loadOf>>
      BY <1>6 DEF PinSnapshots, Pinned, MMove
    <2>2. Underway(l)
      BY <2>1, <1>b DEF MartProgress
    <2>3. \A t \in Tables : WrittenBy(l, head[t]) /\ seen[l][t] = head[t]
      BY <2>1, <2>2 DEF Underway
    <2>4. mpc'[l] = "published" /\ \A k \in Loads : mpc'[k] \notin Active
      BY <2>1, <1>0, <1>b DEF MartTypeOK, MartAlone
    <2>5. setFile' = head'
      BY <2>1, <2>3, <1>0 DEF MartTypeOK
    <2>6. \A t \in Tables : WrittenBy(l, setFile[t])'
      BY <2>1, <2>3 DEF WrittenBy
    <2> QED
      BY <2>4, <2>5, <2>6 DEF MartAlone, MartProgress, MartServed, MartHeads
  <1>7. ASSUME NEW l \in Loads, LoadRaises(l) PROVE MartAlone' /\ MartProgress' /\ MartServed'
                                                   /\ (~unrestored' /\ setFile' # NoSnapshots => MartHeads')
    <2>1. /\ mpc[l] \in Active /\ mpc' = [mpc EXCEPT ![l] = "rollback"]
          /\ UNCHANGED <<head, loadOf, setFile, at, base, seen>>
      BY <1>7 DEF LoadRaises, Guarded, MMove
    <2>2. \A k \in Loads : (mpc'[k] \in Active <=> mpc[k] \in Active) /\ (mpc[k] \in Active => k = l)
                           /\ (mpc[k] = "published" => mpc'[k] = "published")
      BY <2>1, <1>0, <1>b DEF MartTypeOK, MartAlone
    <2>3. mpc'[l] = "rollback" /\ Underway(l)
      BY <2>1, <1>0, <1>b DEF MartTypeOK, MartProgress
    <2>4. Underway(l)'
      BY <2>1, <2>3 DEF Underway
    <2>5. MartAlone' /\ MartProgress'
      BY <2>2, <2>4 DEF MartAlone, MartProgress
    <2>6. MartServed'
      BY <2>1, <2>2, <1>b DEF MartServed, WrittenBy
    <2>7. ~unrestored' /\ setFile' # NoSnapshots => MartHeads'
      BY <2>1, <2>2, <1>b, <1>c DEF MartHeads
    <2> QED
      BY <2>5, <2>6, <2>7
  <1>8. ASSUME NEW l \in Loads, RollBack(l) PROVE MartAlone' /\ MartProgress' /\ MartServed'
                                                   /\ (~unrestored' /\ setFile' # NoSnapshots => MartHeads')
    <2>1. /\ mpc[l] = "rollback" /\ mpc' = [mpc EXCEPT ![l] = "failed"] /\ UNCHANGED <<loadOf, setFile>>
      BY <1>8 DEF RollBack, MMove
    <2>2. \A k \in Loads : mpc'[k] \notin Active /\ (mpc[k] = "published" => mpc'[k] = "published")
      BY <2>1, <1>0, <1>b DEF MartTypeOK, MartAlone
    <2>3. MartAlone' /\ MartProgress'
      BY <2>2 DEF MartAlone, MartProgress
    <2>4. MartServed'
      BY <2>1, <2>2, <1>b DEF MartServed, WrittenBy
    <2>5. ASSUME ~unrestored', setFile' # NoSnapshots PROVE MartHeads'
      <3>1. base[l] = setFile /\ Underway(l)
        BY <2>1, <2>5, <1>b, <1>c DEF MartHeads, MartProgress
      <3>2. \A t \in Tables : setFile[t] # 0
        BY <2>1, <2>5, <1>b DEF MartServed, WrittenBy
      <3>3. PICK failing \in SUBSET (1..at[l]) :
              /\ head' = [t \in Tables |-> IF t \in {u \in 1..at[l] : base[l][u] # 0} \ failing
                                           THEN base[l][t] ELSE head[t]]
              /\ unrestored' = (unrestored \/ failing # {})
        BY <1>8 DEF RollBack, RollbackFrom
      <3>4. failing = {}
        BY <3>3, <2>5, Zenon
      <3>5. \A t \in Tables : t \in 1..at[l] \/ t > at[l]
        BY <3>1, <1>d DEF Underway, Tables
      <3>6. \A t \in Tables : head'[t] = setFile[t]
        BY <3>1, <3>2, <3>3, <3>4, <3>5 DEF Underway
      <3>7. head' = setFile'
        BY <3>6, <3>3, <2>1, <1>0 DEF MartTypeOK
      <3> QED
        BY <3>7, <2>2 DEF MartHeads
    <2> QED
      BY <2>3, <2>4, <2>5
  <1>9. ASSUME NEW l \in Loads, LoaderDies(l) PROVE MartAlone' /\ MartProgress' /\ MartServed'
                                                   /\ (~unrestored' /\ setFile' # NoSnapshots => MartHeads')
    <2>1. /\ mpc[l] \in Active /\ mpc' = [mpc EXCEPT ![l] = "crashed"] /\ UNCHANGED <<loadOf, setFile>> /\ unrestored'
      BY <1>9, Zenon DEF LoaderDies, MMove
    <2>2. \A k \in Loads : mpc'[k] \notin Active /\ (mpc[k] = "published" => mpc'[k] = "published")
      BY <2>1, <1>0, <1>b DEF MartTypeOK, MartAlone
    <2> QED
      BY <2>1, <2>2, <1>b DEF MartAlone, MartProgress, MartServed, WrittenBy
  <1> QED
    BY <1>2, <1>3, <1>4, <1>5, <1>6, <1>7, <1>8, <1>9 DEF MartNext

\* MartInv is what MartSafe needs.
LEMMA MartInvIsSafe == MartInv => MartSafe
  <1> SUFFICES ASSUME MartInv, ~overlapped PROVE MartSafe
    BY DEF MartSafe, SetIsOneLoadUnlessOverlap, ServedLoadsArePublished, RollbackRestoresPublished
  <1>1. /\ MartTypeOK /\ MartServed
        /\ ~unrestored /\ setFile # NoSnapshots => MartHeads
    BY DEF MartInv
  <1>2. RollbackRestoresPublished
    BY <1>1 DEF RollbackRestoresPublished, MartHeads
  <1>3. CASE setFile = NoSnapshots
    <2>1. \A t \in Tables : ServedLoad(t) = NoLoad
      BY <1>3 DEF ServedLoad, NoSnapshots
    <2> QED
      BY <1>2, <2>1 DEF MartSafe, SetIsOneLoadUnlessOverlap, SetIsOneLoad, ServedLoadsArePublished
  <1>4. CASE setFile # NoSnapshots
    <2>1. PICK k \in Loads : mpc[k] = "published" /\ \A t \in Tables : WrittenBy(k, setFile[t])
      BY <1>1, <1>4 DEF MartServed
    <2>2. \A t \in Tables : ServedLoad(t) = k
      BY <2>1 DEF WrittenBy, ServedLoad
    <2> QED
      BY <1>2, <2>1, <2>2 DEF MartSafe, SetIsOneLoadUnlessOverlap, SetIsOneLoad, ServedLoadsArePublished
  <1> QED
    BY <1>3, <1>4

\* A run publishes by the steps of a load, and a run that is killed is a load
\* that dies.
LEMMA NextKeepsMart == [Next]_vars => [MartNext]_martVars
  <1> SUFFICES ASSUME Next PROVE [MartNext]_martVars
    BY DEF vars, martVars
  <1>0. Loads = Procs
    BY RefreshAssumption
  <1>1. ASSUME NEW p \in Procs, PublishStep(p) PROVE MartNext
    BY <1>1, <1>0, Zenon DEF PublishStep, MartNext
  <1>2. ASSUME NEW p \in Procs, Crash(p) PROVE [MartNext]_martVars
    <2>1. CASE mpc[p] \in Active
      BY <1>2, <2>1, <1>0, Zenon DEF Crash, MartNext
    <2>2. CASE mpc[p] \notin Active
      BY <1>2, <2>2, Zenon DEF Crash
    <2> QED
      BY <2>1, <2>2
  <1>3. ASSUME NEW p \in Procs, Run(p), ~PublishStep(p) PROVE UNCHANGED martVars
    BY <1>3, Zenon DEF Run, Configure, ConfigFails, AcquireStep, LockDecided, FetchAndWrite, ListPartition, WriteStep,
         AdapterEnds, DbtStep, MigrateStep, CanonicalEnds, ComparePartition, HealthEnds, ReleaseStep, Terminate
  <1>4. ASSUME NEW w \in Writers, ToolStep(w) PROVE UNCHANGED martVars
    BY <1>4, Zenon DEF ToolStep
  <1> QED
    BY <1>1, <1>2, <1>3, <1>4 DEF Next

\* Whatever the runs do, the marts are published by the protocol of one load
\* after the other or of overlapping loads: DailyRefresh implements MartPublish.
THEOREM RefreshKeepsMartProtocol == Spec => MartSpec
  <1>1. Init => MartInit
    BY DEF Init
  <1> QED
    BY <1>1, NextKeepsMart, PTL DEF Spec, MartSpec

\* For any number of runs, pairs of tables, crashes, failing commits and failing
\* rollbacks: unless two loads overlap, the readers of the marts are served one
\* published load, and a complete rollback brings the tables back to it.
THEOREM RefreshMartIsSafe == Spec => []MartSafe
  <1>1. MartSpec => []MartInv
    BY MartInitInv, MartStepInv, PTL DEF MartSpec
  <1> QED
    BY <1>1, RefreshKeepsMartProtocol, MartInvIsSafe, PTL
-----------------------------------------------------------------------------
(* The run as a whole                                                      *)

\* The steps a run has behind it when it is at s.
Before(s) == CASE s = "adapter"    -> {}
               [] s = "dbt_run"    -> {"adapter"}
               [] s = "dbt_test"   -> {"adapter", "dbt_run"}
               [] s = "canonical"  -> {"adapter", "dbt_run", "dbt_test"}
               [] s = "raw_health" -> {"adapter", "dbt_run", "dbt_test", "canonical"}

\* The run stopped at s: everything before it was ok, nothing after it was tried.
StoppedAt(p, s) ==
    /\ outcome[p][s] \in {"ok", "failed"}
    /\ outcome[p][s] = "ok" => s = "raw_health"
    /\ \A u \in Steps \ {s} : outcome[p][u] = IF u \in Before(s) THEN "ok" ELSE "none"

\* What the report of a run says at each of its steps.
Report(p) ==
    /\ step[p] \in {"config", "refresh_lock"} => \A u \in Steps : outcome[p][u] = "none"
    /\ step[p] \in Steps =>
          \A u \in Steps : outcome[p][u] = IF u \in Before(step[p]) THEN "ok" ELSE "none"
    /\ step[p] = "release" => \E s \in Steps : StoppedAt(p, s)
    /\ step[p] = "ended" =>
          \/ \E s \in Steps : StoppedAt(p, s)
          \/ lpc[p] # "released" /\ \A u, v \in Steps : /\ outcome[p][u] = outcome[p][v]
                                                       /\ outcome[p][u] \in {"none", "skipped"}

ReportInv == \A p \in Procs : Report(p)

\* A run has the lock from its first step to the finally clause.
HoldingInv ==
    \A p \in Procs :
        /\ step[p] = "config" => lpc[p] = "new" \/ p \in dead
        /\ step[p] = "refresh_lock" => lpc[p] # "released"
        /\ step[p] \in Steps => lpc[p] = "held"

\* An artifact that was written is listed under its own run id.
ListedInv ==
    \A w \in Writers :
        /\ wpc[w] = "done" => <<wrun[w], w>> \in manifest[wpart[w]]
        /\ w[1] \in Procs => wrun[w] = w /\ wpart[w] = <<date[w[1]], w[2]>>

\* A step that is ok has done its work.
Done(p) ==
    /\ outcome[p]["adapter"] = "ok" => \A ds \in plan[p] : wpc[<<p, ds>>] = "done"
    /\ outcome[p]["canonical"] = "ok" =>
          gpc[p] = "finished" /\ (plan[p] = Datasets => mpc[p] = "published")

DoneInv == \A p \in Procs : Done(p)

RefreshTypeOK ==
    /\ step \in [Procs -> Steps \cup {"config", "refresh_lock", "release", "ended"}]
    /\ plan \in [Procs -> SUBSET Datasets]
    /\ outcome \in [Procs -> [Steps \cup {"config", "refresh_lock"} ->
                                {"none", "ok", "failed", "skipped"}]]

PartsInv == LockInv /\ RawInv /\ MigrationInv /\ MartTypeOK

RunInv == RefreshTypeOK /\ ReportInv /\ HoldingInv /\ ListedInv /\ DoneInv

\* The names of the steps, and their order.
LEMMA StepFacts ==
    /\ Steps = {"adapter", "dbt_run", "dbt_test", "canonical", "raw_health"}
    /\ \A i \in 1..5 : StepNames[i] \in Steps
    /\ \A i, j \in 1..5 : i < j => StepNames[i] \in Before(StepNames[j])
  <1>1. /\ StepNames[1] = "adapter" /\ StepNames[2] = "dbt_run" /\ StepNames[3] = "dbt_test"
        /\ StepNames[4] = "canonical" /\ StepNames[5] = "raw_health"
    BY DEF StepNames
  <1>2. 1..5 = {1, 2, 3, 4, 5}
    OBVIOUS
  <1>3. Steps = {"adapter", "dbt_run", "dbt_test", "canonical", "raw_health"}
    BY <1>1, <1>2 DEF Steps
  <1>4. \A i, j \in 1..5 : i < j => StepNames[i] \in Before(StepNames[j])
    BY <1>1, <1>2 DEF Before
  <1> QED
    BY <1>1, <1>2, <1>3, <1>4

\* A step of the system, seen from the report: work inside a step, a step that
\* ends, and the steps around the lock.
Ends(p, s) ==
    /\ step[p] = s
    /\ \/ /\ StepOk(p, s)
          /\ s = "adapter" => Complete(p)
          /\ s = "canonical" => gpc[p] = "finished" /\ (plan[p] = Datasets => mpc[p] = "published")
       \/ StepFailed(p, s)
    /\ UNCHANGED <<lockVars, plan>>

\* A step of the refresh either leaves the runs alone or is one of these steps
\* of one run.
LEMMA RunCases ==
    ASSUME [Next]_vars
    PROVE  \/ UNCHANGED <<lockVars, step, plan, outcome>>
           \/ \E p \in Procs : \/ Configure(p) \/ ConfigFails(p) \/ AcquireStep(p) \/ LockDecided(p)
                               \/ \E s \in Steps : Ends(p, s)
                               \/ ReleaseStep(p)
                               \/ Exit(p) /\ Forget(p)
  <1>1. CASE UNCHANGED vars
    BY <1>1 DEF vars, refreshVars
  <1>2. ASSUME NEW w \in Writers, ToolStep(w) PROVE UNCHANGED <<lockVars, step, plan, outcome>>
    BY <1>2 DEF ToolStep, refreshVars
  <1>3. ASSUME NEW p \in Procs, Crash(p) PROVE Exit(p) /\ Forget(p)
    BY <1>3 DEF Crash
  <1>4. ASSUME NEW p \in Procs, AdapterEnds(p) PROVE \E s \in Steps : Ends(p, s)
    BY <1>4, StepFacts DEF AdapterEnds, Ends
  <1>5. ASSUME NEW p \in Procs, DbtStep(p) PROVE \E s \in Steps : Ends(p, s)
    BY <1>5, StepFacts DEF DbtStep, Ends
  <1>6. ASSUME NEW p \in Procs, CanonicalEnds(p) PROVE \E s \in Steps : Ends(p, s)
    BY <1>6, StepFacts DEF CanonicalEnds, Ends
  <1>7. ASSUME NEW p \in Procs, HealthEnds(p) PROVE \E s \in Steps : Ends(p, s)
    BY <1>7, StepFacts DEF HealthEnds, Ends
  <1>8. ASSUME NEW p \in Procs, Terminate(p) PROVE Exit(p) /\ Forget(p)
    BY <1>8 DEF Terminate
  <1>9. ASSUME NEW p \in Procs, WriteStep(p) \/ MigrateStep(p) \/ PublishStep(p) \/ ComparePartition(p)
                                \/ \E ds \in Datasets : FetchAndWrite(p, ds) \/ ListPartition(p, ds)
        PROVE  UNCHANGED <<lockVars, step, plan, outcome>>
    BY <1>9 DEF WriteStep, MigrateStep, PublishStep, ComparePartition, FetchAndWrite, ListPartition, refreshVars
  <1> QED
    BY <1>1, <1>2, <1>3, <1>4, <1>5, <1>6, <1>7, <1>8, <1>9 DEF Next, Run

\* Finished work stays finished.
LEMMA WorkStays ==
    ASSUME PartsInv, [Next]_vars
    PROVE  /\ \A w \in Writers : wpc[w] = "done" => wpc'[w] = "done"
           /\ \A p \in Procs : gpc[p] = "finished" => gpc'[p] = "finished"
           /\ \A p \in Procs : mpc[p] = "published" => mpc'[p] = "published"
  <1>0. wpc \in [Writers -> WriterPhases]
    BY DEF PartsInv, RawInv, RawTypeOK
  <1>1. \A w \in Writers : wpc[w] = "done" => wpc'[w] = "done"
    BY <1>0, NextKeepsRaw DEF RawNext, rawVars, StartWrite, EnterPartition, Materialize, RefuseRun,
       ReadEntries, CommitManifest, ManifestFails, TmpFails, WriterDies, WMove
  <1>2. \A p \in Procs : gpc[p] = "finished" => gpc'[p] = "finished"
    BY NextKeepsMigration, RefreshAssumption DEF PartsInv, MigrationInv, MigrationTypeOK, MigrationNext, migrationVars,
       LoadMigrations, FetchApplied, ApplyMigration, FinishMigrations, MigrationFails, AfterFailure, SessionLost, GMove
  <1>3. \A p \in Procs : mpc[p] = "published" => mpc'[p] = "published"
    BY NextKeepsMart, RefreshAssumption DEF PartsInv, MartTypeOK, MartNext, martVars, PrepareLoad, RefuseLoad, Overwrite,
       ReadBack, PinSnapshots, LoadRaises, Guarded, RollBack, LoaderDies, Active, MMove
  <1> QED
    BY <1>1, <1>2, <1>3

\* Every step keeps the types of the report.
LEMMA RefreshTypeStep ==
    ASSUME RefreshTypeOK, [Next]_vars PROVE RefreshTypeOK'
  <1> USE StepFacts DEF RefreshTypeOK
  <1>1. CASE UNCHANGED <<lockVars, step, plan, outcome>>
    BY <1>1
  <1>2. ASSUME NEW p \in Procs, Configure(p) PROVE RefreshTypeOK'
    BY <1>2 DEF Configure, Planned, Goto
  <1>3. ASSUME NEW p \in Procs, ConfigFails(p) PROVE RefreshTypeOK'
    BY <1>3 DEF ConfigFails, Record, Goto
  <1>4. ASSUME NEW p \in Procs, AcquireStep(p) PROVE RefreshTypeOK'
    BY <1>4 DEF AcquireStep, refreshVars
  <1>5. ASSUME NEW p \in Procs, LockDecided(p) PROVE RefreshTypeOK'
    BY <1>5 DEF LockDecided, Record, Goto
  <1>6. ASSUME NEW p \in Procs, NEW s \in Steps, Ends(p, s) PROVE RefreshTypeOK'
    <2>1. CASE StepOk(p, s)
      BY <1>6, <2>1 DEF Ends, StepOk, NextStep, Record, Goto
    <2>2. CASE StepFailed(p, s)
      BY <1>6, <2>2 DEF Ends, StepFailed, Record, Goto
    <2> QED
      BY <1>6, <2>1, <2>2 DEF Ends
  <1>7. ASSUME NEW p \in Procs, ReleaseStep(p) PROVE RefreshTypeOK'
    BY <1>7 DEF ReleaseStep, Goto
  <1>8. ASSUME NEW p \in Procs, Exit(p), Forget(p) PROVE RefreshTypeOK'
    BY <1>8 DEF Forget, NoOutcome
  <1> QED
    BY <1>1, <1>2, <1>3, <1>4, <1>5, <1>6, <1>7, <1>8, RunCases

\* The lock is held from the first step to the finally clause.
LEMMA HoldingStep ==
    ASSUME LockTypeOK, RefreshTypeOK, HoldingInv, [Next]_vars PROVE HoldingInv'
  <1> USE StepFacts DEF RefreshTypeOK, LockTypeOK, HoldingInv
  <1>1. CASE UNCHANGED <<lockVars, step, plan, outcome>>
    BY <1>1 DEF lockVars
  <1>2. ASSUME NEW p \in Procs, Configure(p) PROVE HoldingInv'
    BY <1>2 DEF Configure, Goto, BeginAcquire, Move, lockVars
  <1>3. ASSUME NEW p \in Procs, ConfigFails(p) PROVE HoldingInv'
    BY <1>3 DEF ConfigFails, Goto, lockVars
  <1>4. ASSUME NEW p \in Procs, AcquireStep(p) PROVE HoldingInv'
    BY <1>4 DEF AcquireStep, refreshVars, OpenLock, ReadOwner, ReclaimLock, WriteOwner, WriteOwnerFails, Move
  <1>5. ASSUME NEW p \in Procs, LockDecided(p) PROVE HoldingInv'
    BY <1>5 DEF LockDecided, Goto, lockVars
  <1>6. ASSUME NEW p \in Procs, NEW s \in Steps, Ends(p, s) PROVE HoldingInv'
    BY <1>6 DEF Ends, StepOk, StepFailed, NextStep, Goto, lockVars
  <1>7. ASSUME NEW p \in Procs, ReleaseStep(p) PROVE HoldingInv'
    BY <1>7 DEF ReleaseStep, ReleaseCheck, ReleaseUnlink, Move, Goto, lockVars
  <1>8. ASSUME NEW p \in Procs, Exit(p), Forget(p) PROVE HoldingInv'
    BY <1>8 DEF Forget, Exit
  <1> QED
    BY <1>1, <1>2, <1>3, <1>4, <1>5, <1>6, <1>7, <1>8, RunCases

\* The report follows the order of the steps.
LEMMA ReportStep ==
    ASSUME LockTypeOK, RefreshTypeOK, HoldingInv, ReportInv, [Next]_vars PROVE ReportInv'
  <1> USE StepFacts DEF RefreshTypeOK, LockTypeOK, ReportInv
  <1>0. ASSUME NEW q \in Procs, step'[q] = step[q], outcome'[q] = outcome[q],
               lpc'[q] = lpc[q] \/ step[q] # "ended"
        PROVE  Report(q)'
    BY <1>0 DEF Report, StoppedAt
  <1>1. CASE UNCHANGED <<lockVars, step, plan, outcome>>
    BY <1>0, <1>1 DEF lockVars
  <1>2. ASSUME NEW p \in Procs, Configure(p) PROVE ReportInv'
    <2>1. ASSUME NEW q \in Procs, q # p PROVE Report(q)'
      BY <1>0, <1>2, <2>1 DEF Configure, Goto, BeginAcquire, Move, lockVars
    <2>2. Report(p)'
      BY <1>2 DEF Configure, Goto, BeginAcquire, Move, lockVars, Report, HoldingInv, Alive
    <2> QED
      BY <2>1, <2>2
  <1>3. ASSUME NEW p \in Procs, ConfigFails(p) PROVE ReportInv'
    <2>1. ASSUME NEW q \in Procs, q # p PROVE Report(q)'
      BY <1>0, <1>3, <2>1 DEF ConfigFails, Goto, Record, lockVars
    <2>2. Report(p)'
      BY <1>3 DEF ConfigFails, Goto, Record, lockVars, Report, HoldingInv, Alive
    <2> QED
      BY <2>1, <2>2
  <1>4. ASSUME NEW p \in Procs, AcquireStep(p) PROVE ReportInv'
    <2>1. ASSUME NEW q \in Procs PROVE lpc'[q] = lpc[q] \/ step[q] # "ended"
      BY <1>4 DEF AcquireStep, OpenLock, ReadOwner, ReclaimLock, WriteOwner, WriteOwnerFails, Move
    <2> QED
      BY <1>0, <1>4, <2>1 DEF AcquireStep, refreshVars
  <1>5. ASSUME NEW p \in Procs, LockDecided(p) PROVE ReportInv'
    <2>1. ASSUME NEW q \in Procs, q # p PROVE Report(q)'
      BY <1>0, <1>5, <2>1 DEF LockDecided, Goto, Record, lockVars
    <2>2. Report(p)'
      BY <1>5 DEF LockDecided, Goto, Record, lockVars, Report, Before
    <2> QED
      BY <2>1, <2>2
  <1>6. ASSUME NEW p \in Procs, NEW s \in Steps, Ends(p, s) PROVE ReportInv'
    <2>1. ASSUME NEW q \in Procs, q # p PROVE Report(q)'
      BY <1>0, <1>6, <2>1 DEF Ends, StepOk, StepFailed, Goto, Record, lockVars
    <2>2. Report(p)'
      <3>1. CASE StepFailed(p, s)
        <4>1. StoppedAt(p, s)'
          BY <1>6, <3>1 DEF Ends, StepFailed, Goto, Record, Report, Before, StoppedAt
        <4> QED
          BY <4>1, <3>1 DEF StepFailed, Goto, Report
      <3>2. CASE StepOk(p, s) /\ s = "raw_health"
        <4>1. StoppedAt(p, s)'
          BY <1>6, <3>2 DEF Ends, StepOk, Goto, Record, Report, Before, StoppedAt
        <4> QED
          BY <4>1, <3>2 DEF StepOk, Goto, NextStep, Report
      <3>3. CASE StepOk(p, s) /\ s # "raw_health"
        BY <1>6, <3>3 DEF Ends, StepOk, NextStep, Goto, Record, Report, Before
      <3> QED
        BY <1>6, <3>1, <3>2, <3>3 DEF Ends
    <2> QED
      BY <2>1, <2>2
  <1>7. ASSUME NEW p \in Procs, ReleaseStep(p) PROVE ReportInv'
    <2>1. ASSUME NEW q \in Procs, q # p PROVE Report(q)'
      BY <1>0, <1>7, <2>1 DEF ReleaseStep, ReleaseCheck, ReleaseUnlink, Move, Goto, lockVars
    <2>2. Report(p)'
      BY <1>7 DEF ReleaseStep, Goto, Report, StoppedAt
    <2> QED
      BY <2>1, <2>2
  <1>8. ASSUME NEW p \in Procs, Exit(p), Forget(p) PROVE ReportInv'
    <2>1. ASSUME NEW q \in Procs, q # p PROVE Report(q)'
      BY <1>0, <1>8, <2>1 DEF Forget, Exit
    <2>2. Report(p)'
      BY <1>8 DEF Forget, NoOutcome, Report
    <2> QED
      BY <2>1, <2>2
  <1> QED
    BY <1>1, <1>2, <1>3, <1>4, <1>5, <1>6, <1>7, <1>8, RunCases

\* What is written stays listed under its own run id.
LEMMA ListedStep ==
    ASSUME PartsInv, ListedInv, [Next]_vars PROVE ListedInv'
  <1>0. RawInv
    BY DEF PartsInv
  <1>1. date' = date
    BY NextKeepsLock DEF LockNext, lockVars, BeginAcquire, OpenLock, ReadOwner, ReclaimLock, WriteOwner, WriteOwnerFails,
       ReleaseCheck, ReleaseUnlink, Exit
  <1>2. CASE UNCHANGED rawVars
    BY <1>1, <1>2 DEF rawVars, ListedInv
  <1>3. ASSUME NEW w \in Writers, CommitManifest(w) PROVE ListedInv'
    BY <1>0, <1>1, <1>3 DEF CommitManifest, WMove, RawInv, RawTypeOK, ListedInv
  <1>4. ASSUME NEW w \in Writers,
               \/ StartWrite(w) \/ EnterPartition(w) \/ Materialize(w) \/ RefuseRun(w)
               \/ ReadEntries(w) \/ ManifestFails(w) \/ TmpFails(w) \/ WriterDies(w)
        PROVE  ListedInv'
    BY <1>0, <1>1, <1>4 DEF StartWrite, EnterPartition, Materialize, RefuseRun, ReadEntries, ManifestFails, TmpFails,
       WriterDies, WMove, RawInv, RawTypeOK, ListedInv
  <1> QED
    BY <1>2, <1>3, <1>4, NextKeepsRaw DEF RawNext

\* A step that is reported ok has done its work, and the work stays done.
LEMMA DoneStep ==
    ASSUME PartsInv, RefreshTypeOK, ReportInv, HoldingInv, DoneInv, [Next]_vars PROVE DoneInv'
  <1> USE StepFacts, RefreshAssumption DEF RefreshTypeOK, DoneInv
  <1>0. ASSUME NEW q \in Procs, outcome'[q] = outcome[q], plan'[q] = plan[q] PROVE Done(q)'
    BY <1>0, WorkStays DEF Done
  <1>9. ASSUME NEW q \in Procs, outcome'[q]["adapter"] # "ok", outcome'[q]["canonical"] # "ok" PROVE Done(q)'
    BY <1>9 DEF Done
  <1>1. CASE UNCHANGED <<lockVars, step, plan, outcome>>
    BY <1>0, <1>1
  <1>2. ASSUME NEW p \in Procs, Configure(p) PROVE DoneInv'
    <2>1. ASSUME NEW q \in Procs, q # p PROVE Done(q)'
      BY <1>0, <1>2, <2>1 DEF Configure
    <2>2. outcome'[p]["adapter"] # "ok" /\ outcome'[p]["canonical"] # "ok"
      BY <1>2 DEF Configure, ReportInv, Report
    <2> QED
      BY <2>1, <2>2, <1>9
  <1>3. ASSUME NEW p \in Procs, ConfigFails(p) PROVE DoneInv'
    <2>1. ASSUME NEW q \in Procs, q # p PROVE Done(q)'
      BY <1>0, <1>3, <2>1 DEF ConfigFails, Record
    <2>2. outcome'[p]["adapter"] # "ok" /\ outcome'[p]["canonical"] # "ok"
      BY <1>3 DEF ConfigFails, Record, ReportInv, Report
    <2> QED
      BY <2>1, <2>2, <1>9
  <1>4. ASSUME NEW p \in Procs, AcquireStep(p) PROVE DoneInv'
    BY <1>0, <1>4 DEF AcquireStep, refreshVars
  <1>5. ASSUME NEW p \in Procs, LockDecided(p) PROVE DoneInv'
    <2>1. ASSUME NEW q \in Procs, q # p PROVE Done(q)'
      BY <1>0, <1>5, <2>1 DEF LockDecided, Record
    <2>2. outcome'[p]["adapter"] # "ok" /\ outcome'[p]["canonical"] # "ok"
      BY <1>5 DEF LockDecided, Record, ReportInv, Report
    <2> QED
      BY <2>1, <2>2, <1>9
  <1>6. ASSUME NEW p \in Procs, NEW s \in Steps, Ends(p, s) PROVE DoneInv'
    <2>1. ASSUME NEW q \in Procs, q # p PROVE Done(q)'
      BY <1>0, <1>6, <2>1 DEF Ends, StepOk, StepFailed, Record
    <2>2. /\ plan' = plan
          /\ \A u \in Steps \ {s} : outcome'[p][u] = outcome[p][u]
          /\ outcome'[p][s] \in {"ok", "failed"}
          /\ outcome'[p][s] = "ok" => /\ s = "adapter" => Complete(p)
                                      /\ s = "canonical" => /\ gpc[p] = "finished"
                                                            /\ plan[p] = Datasets => mpc[p] = "published"
      BY <1>6 DEF Ends, StepOk, StepFailed, Record
    <2>3. Done(p)
      OBVIOUS
    <2>4. \A ds \in plan[p] : <<p, ds>> \in Writers
      OBVIOUS
    <2>5. outcome'[p]["adapter"] = "ok" => \A ds \in plan'[p] : wpc'[<<p, ds>>] = "done"
      BY <2>2, <2>3, <2>4, WorkStays DEF Done, Complete
    <2>6. outcome'[p]["canonical"] = "ok" =>
              gpc'[p] = "finished" /\ (plan'[p] = Datasets => mpc'[p] = "published")
      BY <2>2, <2>3, WorkStays DEF Done
    <2> QED
      BY <2>1, <2>5, <2>6 DEF Done
  <1>7. ASSUME NEW p \in Procs, ReleaseStep(p) PROVE DoneInv'
    BY <1>0, <1>7 DEF ReleaseStep
  <1>8. ASSUME NEW p \in Procs, Exit(p), Forget(p) PROVE DoneInv'
    <2>1. ASSUME NEW q \in Procs, q # p PROVE Done(q)'
      BY <1>0, <1>8, <2>1 DEF Forget
    <2>2. outcome'[p]["adapter"] # "ok" /\ outcome'[p]["canonical"] # "ok"
      BY <1>8 DEF Forget, NoOutcome
    <2> QED
      BY <2>1, <2>2, <1>9
  <1> QED
    BY <1>1, <1>2, <1>3, <1>4, <1>5, <1>6, <1>7, <1>8, RunCases

\* Runs start with an empty report.
LEMMA RunInitInv == Init => RunInv
  <1> SUFFICES ASSUME Init PROVE RunInv
    OBVIOUS
  <1> USE StepFacts, RefreshAssumption DEF Init, NoOutcome
  <1>1. RefreshTypeOK
    BY DEF RefreshTypeOK
  <1>2. ReportInv /\ HoldingInv /\ DoneInv
    BY DEF ReportInv, Report, HoldingInv, DoneInv, Done, LockInit
  <1>3. ListedInv
    BY DEF ListedInv, RawInit
  <1> QED
    BY <1>1, <1>2, <1>3 DEF RunInv

\* What the invariant says of a run that has ended.
LEMMA RunInvSafe == PartsInv /\ RunInv => OkMeansDone /\ StepsInOrder
  <1> SUFFICES ASSUME PartsInv, RunInv PROVE OkMeansDone /\ StepsInOrder
    OBVIOUS
  <1> USE StepFacts, RefreshAssumption DEF RunInv, RefreshTypeOK
  <1>1. ASSUME NEW p \in Procs, ResultOk(p), lpc[p] = "released"
        PROVE  /\ \A ds \in plan[p] : <<p, ds>> \in Listed(<<date[p], ds>>)
               /\ applied = 1..Versions
               /\ plan[p] = Datasets => mpc[p] = "published"
    <2>1. PICK s \in Steps : StoppedAt(p, s)
      BY <1>1 DEF ReportInv, Report, ResultOk
    <2>2. outcome[p][s] # "failed" /\ outcome[p]["adapter"] \in {"ok", "none"}
      BY <1>1, <2>1 DEF ResultOk, StoppedAt
    <2>3. s = "raw_health"
      BY <2>1, <2>2 DEF StoppedAt
    <2>4. outcome[p]["adapter"] = "ok" /\ outcome[p]["canonical"] = "ok"
      BY <2>1, <2>3 DEF StoppedAt, Before
    <2>5. Done(p)
      BY DEF DoneInv
    <2>6. ASSUME NEW ds \in plan[p] PROVE <<p, ds>> \in Listed(<<date[p], ds>>)
      <3>1. <<p, ds>> \in Writers /\ wpc[<<p, ds>>] = "done"
        BY <2>4, <2>5 DEF Done
      <3>2. <<wrun[<<p, ds>>], <<p, ds>>>> \in manifest[wpart[<<p, ds>>]]
        BY <3>1 DEF ListedInv
      <3>3. wrun[<<p, ds>>] = <<p, ds>> /\ wpart[<<p, ds>>] = <<date[p], ds>>
        BY <3>1 DEF ListedInv
      <3> QED
        BY <3>2, <3>3 DEF Listed
    <2>7. applied = 1..Versions
      BY <2>4, <2>5 DEF Done, PartsInv, MigrationInv
    <2> QED
      BY <2>4, <2>5, <2>6, <2>7 DEF Done
  <1>2. ASSUME NEW p \in Procs, NEW u \in Steps, NEW v \in Steps, u \in Before(v), outcome[p][v] # "none"
        PROVE  outcome[p][u] \in {"ok", "skipped"}
    <2>1. u \in Before(v) /\ outcome[p][v] # "none"
      BY <1>2
    <2>2. Report(p)
      BY DEF ReportInv
    <2>3. step[p] \in Steps \cup {"config", "refresh_lock", "release", "ended"}
      OBVIOUS
    <2>4. CASE step[p] \in {"config", "refresh_lock"}
      BY <2>1, <2>2, <2>4 DEF Report
    <2>8. CASE step[p] \in Steps
      <3>1. v \in Before(step[p])
        BY <2>1, <2>2, <2>8 DEF Report
      <3>2. u \in Before(step[p])
        BY <2>1, <2>8, <3>1 DEF Before
      <3> QED
        BY <2>1, <2>2, <2>8, <3>2 DEF Report
    <2>5. ASSUME NEW s \in Steps, StoppedAt(p, s) PROVE outcome[p][u] \in {"ok", "skipped"}
      BY <2>1, <2>5 DEF StoppedAt, Before
    <2>6. CASE step[p] = "release" \/ step[p] = "ended"
      <3>1. \/ \E s \in Steps : StoppedAt(p, s)
            \/ outcome[p][u] = outcome[p][v] /\ outcome[p][u] \in {"none", "skipped"}
        BY <2>1, <2>2, <2>6 DEF Report
      <3> QED
        BY <2>1, <2>5, <3>1
    <2> QED
      BY <2>3, <2>4, <2>6, <2>8
  <1>3. OkMeansDone
    BY <1>1 DEF OkMeansDone
  <1>4. StepsInOrder
    BY <1>2 DEF StepsInOrder
  <1> QED
    BY <1>3, <1>4

\* For any number of runs and tools that interleave, fail and are killed: the
\* schema is a prefix of the migrations, every run reports its steps in order,
\* and a run that reports ok has its artifacts listed, the catalog migrated and
\* its marts published.
THEOREM RefreshIsSafe == Spec => []RefreshSafe
  <1>1. Spec => []PartsInv
    <2>1. MartInv => MartTypeOK
      BY DEF MartInv
    <2>2. LockSpec => []LockInv
      BY LockInitInv, LockStepInv, PTL DEF LockSpec
    <2>3. RawSpec => []RawInv
      BY RawInitInv, RawStepInv, PTL DEF RawSpec
    <2>4. MigrationSpec => []MigrationInv
      BY MigrationInitInv, MigrationStepInv, PTL DEF MigrationSpec
    <2>5. MartSpec => []MartTypeOK
      BY <2>1, MartInitInv, MartStepInv, PTL DEF MartSpec
    <2>6. LockInv /\ RawInv /\ MigrationInv /\ MartTypeOK => PartsInv
      BY DEF PartsInv
    <2> QED
      BY <2>2, <2>3, <2>4, <2>5, <2>6, RefreshKeepsLockProtocol, RefreshKeepsRawProtocol,
         RefreshKeepsMigrationProtocol, RefreshKeepsMartProtocol, PTL
  <1>2. PartsInv /\ RunInv /\ [Next]_vars => RunInv'
    BY RefreshTypeStep, HoldingStep, ReportStep, ListedStep, DoneStep DEF RunInv, PartsInv, LockInv
  <1>3. PartsInv /\ RunInv => OkMeansDone /\ StepsInOrder
    BY RunInvSafe
  <1>4. SchemaIsAPrefix /\ FinishedMeansMigrated /\ OkMeansDone /\ StepsInOrder => RefreshSafe
    BY DEF RefreshSafe
  <1> QED
    BY <1>1, <1>2, <1>3, <1>4, RunInitInv, RefreshSchemaIsSafe, PTL DEF Spec

-----------------------------------------------------------------------------
(* Sequences put together                                                  *)

\* A set of naturals has a least element.
LEMMA LeastOf == ASSUME NEW S \in SUBSET Nat, S # {} PROVE \E m \in S : \A k \in S : m <= k
  <1>1. PICK m \in S : \A k \in S : <<k, m>> \notin OpToRel(<, Nat)
    BY NatLessThanWellFounded, WFMin
  <1>2. \A k \in S : ~(k < m)
    BY <1>1 DEF OpToRel
  <1> QED
    BY <1>2

\* What holds at 0 and goes on by one holds up to n.
LEMMA UpTo ==
    ASSUME NEW n \in Nat, NEW A, 0 \in A, \A i \in 1..n : i - 1 \in A => i \in A
    PROVE  \A i \in 0..n : i \in A
  <1> DEFINE S == {i \in 0..n : i \notin A}
  <1> SUFFICES ASSUME S # {} PROVE FALSE
    OBVIOUS
  <1>1. PICK m \in S : \A k \in S : m <= k
    <2>1. S \in SUBSET Nat
      OBVIOUS
    <2> HIDE DEF S
    <2> QED
      BY <2>1, LeastOf
  <1>2. m \in 1..n /\ m - 1 \notin S
    BY <1>1
  <1> QED
    BY <1>1, <1>2

\* The recursion of FlattenSeq has a solution, and the CHOOSE takes one.
LEMMA FlattenIs ==
    ASSUME NEW ss, NEW n \in Nat \ {0}, Len(ss) = n
    PROVE  \E f : /\ f = [i \in 1..n |-> IF i = 1 THEN ss[i] ELSE f[i - 1] \o ss[i]]
                  /\ FlattenSeq(ss) = f[n]
  <1> DEFINE Solves(f, k) == f = [i \in 1..k |-> IF i = 1 THEN ss[i] ELSE f[i - 1] \o ss[i]]
             A == {k \in Nat : \E f : Solves(f, k)}
  <1>1. 0 \in A
    <2>1. Solves([i \in {} |-> 0], 0)
      OBVIOUS
    <2> QED
      BY <2>1
  <1>2. ASSUME NEW k \in 1..n, k - 1 \in A PROVE k \in A
    <2>1. PICK g : Solves(g, k - 1)
      BY <1>2
    <2> DEFINE h == [i \in 1..k |-> IF i < k THEN g[i] ELSE IF i = 1 THEN ss[i] ELSE g[i - 1] \o ss[i]]
    <2>2. ASSUME NEW i \in 1..k PROVE h[i] = IF i = 1 THEN ss[i] ELSE h[i - 1] \o ss[i]
      <3>1. CASE i < k
        <4>1. i \in 1..(k - 1) /\ (i # 1 => i - 1 \in 1..k /\ i - 1 < k)
          BY <3>1
        <4>2. g[i] = IF i = 1 THEN ss[i] ELSE g[i - 1] \o ss[i]
          BY <2>1, <4>1
        <4> QED
          BY <3>1, <4>1, <4>2
      <3>2. CASE i = k
        <4>1. i # 1 => i - 1 \in 1..k /\ i - 1 < k
          BY <3>2
        <4> QED
          BY <3>2, <4>1
      <3> QED
        BY <3>1, <3>2
    <2>3. Solves(h, k)
      BY <2>2
    <2> HIDE DEF h, Solves
    <2> QED
      BY <2>3
  <1>3. \E f : Solves(f, n)
    <2> HIDE DEF A
    <2>1. n \in A
      BY <1>1, <1>2, UpTo
    <2> QED
      BY <2>1 DEF A
  <1> DEFINE f == CHOOSE f : Solves(f, n)
  <1>4. Solves(f, n)
    BY <1>3
  <1>5. FlattenSeq(ss) = f[n]
    BY DEF FlattenSeq
  <1> HIDE DEF f
  <1> QED
    BY <1>4, <1>5

\* What two sequences have together is what each of them has.
LEMMA JoinHas ==
    ASSUME NEW S, NEW a \in Seq(S), NEW b \in Seq(S)
    PROVE  a \o b \in Seq(S) /\ ToSet(a \o b) = ToSet(a) \cup ToSet(b)
  <1>1. /\ a \o b \in Seq(S) /\ Len(a \o b) = Len(a) + Len(b)
        /\ \A i \in 1..Len(a) : (a \o b)[i] = a[i]
        /\ \A i \in 1..Len(b) : (a \o b)[Len(a) + i] = b[i]
    BY ConcatProperties
  <1>2. Len(a) \in Nat /\ Len(b) \in Nat /\ DOMAIN a = 1..Len(a) /\ DOMAIN b = 1..Len(b)
        /\ DOMAIN (a \o b) = 1..(Len(a) + Len(b))
    BY <1>1
  <1> DEFINE c == a \o b
  <1> HIDE DEF c
  <1>3. ASSUME NEW x \in ToSet(c) PROVE x \in ToSet(a) \cup ToSet(b)
    <2>1. PICK i \in 1..(Len(a) + Len(b)) : x = c[i]
      BY <1>2, <1>3 DEF c, ToSet
    <2>2. CASE i <= Len(a)
      <3>1. i \in 1..Len(a)
        BY <1>2, <2>2
      <3> QED
        BY <1>1, <1>2, <2>1, <3>1 DEF c, ToSet
    <2>3. CASE i > Len(a)
      <3>1. i - Len(a) \in 1..Len(b) /\ Len(a) + (i - Len(a)) = i
        BY <1>2, <2>3
      <3>2. c[i] = b[i - Len(a)]
        BY <1>1, <3>1 DEF c
      <3> QED
        BY <1>2, <2>1, <3>1, <3>2 DEF ToSet
    <2> QED
      BY <1>2, <2>2, <2>3
  <1>4. ASSUME NEW x \in ToSet(a) PROVE x \in ToSet(c)
    <2>1. PICK i \in 1..Len(a) : x = a[i]
      BY <1>2, <1>4 DEF ToSet
    <2>2. i \in 1..(Len(a) + Len(b))
      BY <1>2
    <2> QED
      BY <1>1, <1>2, <2>1, <2>2 DEF c, ToSet
  <1>5. ASSUME NEW x \in ToSet(b) PROVE x \in ToSet(c)
    <2>1. PICK i \in 1..Len(b) : x = b[i]
      BY <1>2, <1>5 DEF ToSet
    <2>2. Len(a) + i \in 1..(Len(a) + Len(b))
      BY <1>2
    <2> QED
      BY <1>1, <1>2, <2>1, <2>2 DEF c, ToSet
  <1> QED
    BY <1>1, <1>3, <1>4, <1>5 DEF c

\* FlattenSeq has what its parts have.
LEMMA FlattenHas ==
    ASSUME NEW S, NEW ss \in Seq(Seq(S))
    PROVE  /\ FlattenSeq(ss) \in Seq(S)
           /\ ToSet(FlattenSeq(ss)) = UNION {ToSet(ss[i]) : i \in DOMAIN ss}
  <1> DEFINE n == Len(ss)
  <1>1. n \in Nat /\ DOMAIN ss = 1..n /\ \A i \in 1..n : ss[i] \in Seq(S)
    OBVIOUS
  <1>2. CASE n = 0
    <2>1. FlattenSeq(ss) = <<>> /\ DOMAIN ss = {}
      BY <1>2 DEF FlattenSeq
    <2> QED
      BY <2>1 DEF ToSet
  <1>3. CASE n # 0
    <2> HIDE DEF n
    <2>1. PICK f : /\ f = [i \in 1..n |-> IF i = 1 THEN ss[i] ELSE f[i - 1] \o ss[i]]
                   /\ FlattenSeq(ss) = f[n]
      BY <1>1, <1>3, FlattenIs DEF n
    <2> DEFINE A == {k \in 0..n : k = 0 \/ (f[k] \in Seq(S) /\ ToSet(f[k]) = UNION {ToSet(ss[i]) : i \in 1..k})}
    <2>2. 0 \in A
      BY <1>1
    <2>3. ASSUME NEW k \in 1..n, k - 1 \in A PROVE k \in A
      <3>1. CASE k = 1
        <4>1. f[k] = ss[1] /\ 1..k = {1}
          BY <1>1, <2>1, <3>1
        <4> QED
          BY <1>1, <3>1, <4>1
      <3>2. CASE k # 1
        <4>1. f[k] = f[k - 1] \o ss[k]
          BY <1>1, <2>1, <3>2
        <4>2. f[k - 1] \in Seq(S) /\ ToSet(f[k - 1]) = UNION {ToSet(ss[i]) : i \in 1..(k - 1)}
          BY <2>3, <3>2
        <4>3. 1..k = 1..(k - 1) \cup {k}
          OBVIOUS
        <4>4. f[k] \in Seq(S) /\ ToSet(f[k]) = ToSet(f[k - 1]) \cup ToSet(ss[k])
          BY <1>1, <4>1, <4>2, JoinHas
        <4>5. UNION {ToSet(ss[i]) : i \in 1..k} = (UNION {ToSet(ss[i]) : i \in 1..(k - 1)}) \cup ToSet(ss[k])
          BY <4>3
        <4>6. f[k] \in Seq(S) /\ ToSet(f[k]) = UNION {ToSet(ss[i]) : i \in 1..k}
          BY <4>2, <4>4, <4>5
        <4> QED
          BY <4>6
      <3> QED
        BY <3>1, <3>2
    <2>4. n \in A
      <3>1. n \in Nat
        BY <1>1
      <3> HIDE DEF A
      <3>2. \A i \in 0..n : i \in A
        BY <2>2, <2>3, <3>1, UpTo
      <3> QED
        BY <3>1, <3>2
    <2> QED
      BY <1>1, <1>3, <2>1, <2>4 DEF A
  <1> QED
    BY <1>2, <1>3

\* Only keeps the elements of the set.
LEMMA OnlyHas ==
    ASSUME NEW S, NEW s \in Seq(S), NEW T
    PROVE  Only(s, T) \in Seq(S \cap T) /\ ToSet(Only(s, T)) = ToSet(s) \cap T
  <1> DEFINE ss == [i \in DOMAIN s |-> IF s[i] \in T THEN <<s[i]>> ELSE <<>>]
  <1>1. DOMAIN s = 1..Len(s) /\ Len(s) \in Nat /\ \A i \in DOMAIN s : s[i] \in S
    OBVIOUS
  <1>2. DOMAIN ss = DOMAIN s
    OBVIOUS
  <1>3. ASSUME NEW i \in DOMAIN s
        PROVE  ss[i] \in Seq(S \cap T) /\ ToSet(ss[i]) = {s[i]} \cap T
    <2>1. CASE s[i] \in T
      <3>1. ss[i] = <<s[i]>> /\ s[i] \in S \cap T
        BY <1>1, <2>1
      <3>2. ToSet(<<s[i]>>) = {s[i]} /\ <<s[i]>> \in Seq(S \cap T)
        BY <3>1 DEF ToSet
      <3> QED
        BY <2>1, <3>1, <3>2
    <2>2. CASE s[i] \notin T
      <3>1. ss[i] = <<>>
        BY <2>2
      <3>2. ToSet(<<>>) = {} /\ <<>> \in Seq(S \cap T)
        BY DEF ToSet
      <3> QED
        BY <2>2, <3>1, <3>2
    <2> QED
      BY <2>1, <2>2
  <1> HIDE DEF ss
  <1>4. ss \in Seq(Seq(S \cap T))
    <2>1. ss = [i \in 1..Len(s) |-> ss[i]]
      BY <1>1 DEF ss
    <2> QED
      BY <1>1, <1>2, <1>3, <2>1, IsASeq
  <1>5. Only(s, T) = FlattenSeq(ss)
    BY DEF Only, ss
  <1>6. ToSet(FlattenSeq(ss)) = ToSet(s) \cap T
    <2>1. ToSet(FlattenSeq(ss)) = UNION {ToSet(ss[i]) : i \in DOMAIN ss}
      BY <1>4, FlattenHas
    <2>2. \A i \in DOMAIN s : ToSet(ss[i]) = {s[i]} \cap T
      BY <1>3
    <2>3. ASSUME NEW x \in UNION {ToSet(ss[i]) : i \in DOMAIN s} PROVE x \in ToSet(s) \cap T
      <3>1. PICK i \in DOMAIN s : x \in ToSet(ss[i])
        BY <2>3
      <3> QED
        BY <2>2, <3>1 DEF ToSet
    <2>4. ASSUME NEW x \in ToSet(s) \cap T PROVE x \in UNION {ToSet(ss[i]) : i \in DOMAIN s}
      <3>1. PICK i \in DOMAIN s : x = s[i]
        BY <2>4 DEF ToSet
      <3>2. x \in ToSet(ss[i])
        BY <2>2, <2>4, <3>1
      <3> QED
        BY <3>1, <3>2
    <2> QED
      BY <1>2, <2>1, <2>3, <2>4
  <1> QED
    BY <1>4, <1>5, <1>6, FlattenHas

\* A sequence without its repetitions has what it had.
LEMMA DistinctHas ==
    ASSUME NEW S, NEW s \in Seq(S)
    PROVE  Distinct(s) \in Seq(S) /\ ToSet(Distinct(s)) = ToSet(s)
  <1> DEFINE ss == [i \in DOMAIN s |-> IF \E j \in 1..(i - 1) : s[j] = s[i] THEN <<>> ELSE <<s[i]>>]
  <1>1. DOMAIN s = 1..Len(s) /\ Len(s) \in Nat /\ \A i \in DOMAIN s : s[i] \in S
    OBVIOUS
  <1>2. DOMAIN ss = DOMAIN s
    OBVIOUS
  <1>3. ASSUME NEW i \in DOMAIN s
        PROVE  /\ ss[i] \in Seq(S)
               /\ ToSet(ss[i]) = IF \E j \in 1..(i - 1) : s[j] = s[i] THEN {} ELSE {s[i]}
    <2>1. CASE \E j \in 1..(i - 1) : s[j] = s[i]
      <3>1. ss[i] = <<>>
        BY <2>1
      <3>2. ToSet(<<>>) = {} /\ <<>> \in Seq(S)
        BY DEF ToSet
      <3> QED
        BY <2>1, <3>1, <3>2
    <2>2. CASE ~ \E j \in 1..(i - 1) : s[j] = s[i]
      <3>1. ss[i] = <<s[i]>> /\ s[i] \in S
        BY <1>1, <2>2
      <3>2. ToSet(<<s[i]>>) = {s[i]} /\ <<s[i]>> \in Seq(S)
        BY <3>1 DEF ToSet
      <3> QED
        BY <2>2, <3>1, <3>2
    <2> QED
      BY <2>1, <2>2
  <1> HIDE DEF ss
  <1>4. ss \in Seq(Seq(S))
    <2>1. ss = [i \in 1..Len(s) |-> ss[i]]
      BY <1>1 DEF ss
    <2> QED
      BY <1>1, <1>2, <1>3, <2>1, IsASeq
  <1>5. Distinct(s) = FlattenSeq(ss)
    BY DEF Distinct, ss
  <1>6. ToSet(FlattenSeq(ss)) = UNION {ToSet(ss[i]) : i \in DOMAIN ss}
    BY <1>4, FlattenHas
  <1>7. ASSUME NEW x \in ToSet(FlattenSeq(ss)) PROVE x \in ToSet(s)
    <2>1. PICK i \in DOMAIN s : x \in ToSet(ss[i])
      BY <1>2, <1>6, <1>7
    <2>2. x = s[i]
      BY <1>3, <2>1
    <2> QED
      BY <2>2 DEF ToSet
  <1>8. ASSUME NEW x \in ToSet(s) PROVE x \in ToSet(FlattenSeq(ss))
    <2> DEFINE I == {i \in 1..Len(s) : s[i] = x}
    <2>1. I \in SUBSET Nat /\ I # {}
      BY <1>1, <1>8 DEF ToSet
    <2>2. PICK i \in I : \A k \in I : i <= k
      <3> HIDE DEF I
      <3> QED
        BY <2>1, LeastOf
    <2>3. i \in DOMAIN s /\ s[i] = x /\ ~ \E j \in 1..(i - 1) : s[j] = s[i]
      BY <1>1, <2>2
    <2>4. x \in ToSet(ss[i])
      BY <1>3, <2>3
    <2> QED
      BY <1>2, <1>6, <2>3, <2>4
  <1> QED
    BY <1>4, <1>5, <1>7, <1>8, FlattenHas

\* So has a sequence of texts without its blanks.
LEMMA NonEmptyHas ==
    ASSUME NEW S, NEW s \in Seq(S)
    PROVE  NonEmpty(s) \in Seq(S \ {Blank}) /\ ToSet(NonEmpty(s)) = ToSet(s) \ {Blank}
  <1> DEFINE T == ToSet(s) \ {Blank}
             o == Only(s, T)
  <1>1. o \in Seq(S \cap T) /\ ToSet(o) = ToSet(s) \cap T
    BY OnlyHas
  <1>2. S \cap T \subseteq S \ {Blank} /\ ToSet(s) \cap T = ToSet(s) \ {Blank}
    OBVIOUS
  <1>3. NonEmpty(s) = Distinct(o)
    BY DEF NonEmpty
  <1> HIDE DEF o, T
  <1>4. o \in Seq(S \ {Blank})
    BY <1>1, <1>2, SeqMonotonic
  <1> QED
    BY <1>1, <1>2, <1>3, <1>4, DistinctHas

-----------------------------------------------------------------------------
(* Holdings: the items of plans                                            *)

\* The texts of requests, and those of the program.
Texts ==
    (UNION {UNION {ToSet(r.datasets), ToSet(r.stocks), ToSet(r.funds), ToSet(r.markets), ToSet(r.exchanges)} :
              r \in HoldingsRequests \cup DryRequests})
    \cup (UNION {ToSet(r.stocks) \cup ToSet(r.funds) : r \in WindowRequests})
    \cup HoldingsDatasets \cup {"holdings", Blank, "1", "3", "SH", "SZ"}

Codes == Texts \ {Blank}

Reasons ==
    {"missing_datasets", "unsupported_dataset", "invalid_period", "invalid_trade_date", "incomplete_date_range",
     "invalid_date_range", "missing_bounded_inputs", "post_publication_cutoff", "plan_item_limit_exceeded"}

\* What a planned item is made of: a dataset, a day, a code and a leg.
PlanKeys ==
    {x \in HoldingsDatasets \X Int \X Codes \X Texts :
        /\ x[1] \in HolderDatasets => x[4] = Blank
        /\ x[1] = "hsgt_hold_top10" => x[2] <= LastHoldDay}

Notes ==
    {NotedItem(x[1], x[4], x[2], x[3]) : x \in Texts \X Int \X Reasons \X {"skipped", "rejected"}}

PlanItems == {PlannedItem(x[1], x[2], x[3], x[4]) : x \in PlanKeys} \cup Notes

AssetItems ==
    {[PlannedItem(r.dataset, r.day, Blank, r.leg) EXCEPT !.codes = r.codes, !.path = "asset"] : r \in AssetRequests}

HoldingsItems == PlanItems \cup AssetItems

\* Neither a dataset nor an exchange leg is a blank text.
LEMMA NotBlank == "hsgt_hold_top10" # Blank /\ "SH" # Blank /\ "SZ" # Blank
  BY Zenon DEF Blank

\* A planned item is one of the plan's.
LEMMA PlannedIn ==
    ASSUME NEW d \in HoldingsDatasets, NEW day \in Int, NEW code \in Codes, NEW leg \in Texts,
           d \in HolderDatasets => leg = Blank, d = "hsgt_hold_top10" => day <= LastHoldDay
    PROVE  PlannedItem(d, day, code, leg) \in PlanItems
  <1> DEFINE x == <<d, day, code, leg>>
  <1>1. x \in PlanKeys
    BY DEF PlanKeys
  <1>2. x[1] = d /\ x[2] = day /\ x[3] = code /\ x[4] = leg
    OBVIOUS
  <1> HIDE DEF x
  <1>3. PlannedItem(x[1], x[2], x[3], x[4]) \in {PlannedItem(y[1], y[2], y[3], y[4]) : y \in PlanKeys}
    BY <1>1
  <1> QED
    BY <1>2, <1>3 DEF PlanItems

\* So is one that is skipped or rejected.
LEMMA NotedIn ==
    ASSUME NEW d \in Texts, NEW day \in Int, NEW reason \in Reasons, NEW status \in {"skipped", "rejected"}
    PROVE  NotedItem(d, status, day, reason) \in PlanItems
  <1> DEFINE K == Texts \X Int \X Reasons \X {"skipped", "rejected"}
             x == <<d, day, reason, status>>
  <1>1. x \in K /\ x[1] = d /\ x[2] = day /\ x[3] = reason /\ x[4] = status
    OBVIOUS
  <1>2. \A z \in K : NotedItem(z[1], z[4], z[2], z[3]) \in Notes
    BY DEF Notes
  <1> HIDE DEF x, K
  <1>3. NotedItem(x[1], x[4], x[2], x[3]) \in PlanItems
    BY <1>1, <1>2 DEF PlanItems
  <1> QED
    BY <1>1, <1>3

\* A rejected item is one of the plan's.
LEMMA RejectedIn == ASSUME NEW d \in Texts, NEW reason \in Reasons PROVE RejectedItem(d, reason) \in PlanItems
  BY NotedIn DEF RejectedItem

\* So is an item skipped for its date.
LEMMA SkippedIn ==
    ASSUME NEW d \in Texts, NEW day \in Int, NEW reason \in Reasons PROVE SkippedItem(d, day, reason) \in PlanItems
  BY NotedIn DEF SkippedItem

\* A list of one rejected item.
LEMMA OneRejected ==
    ASSUME NEW d \in Texts, NEW reason \in Reasons
    PROVE  <<RejectedItem(d, reason)>> \in Seq(PlanItems)
  <1>1. RejectedItem(d, reason) \in PlanItems
    BY RejectedIn
  <1> QED
    BY <1>1

\* The elements of a list.
LEMMA Element == ASSUME NEW S, NEW s \in Seq(S), NEW i \in DOMAIN s PROVE s[i] \in S
  OBVIOUS

\* A list that is not empty has a first element.
LEMMA NotEmpty == ASSUME NEW S, NEW s \in Seq(S), s # <<>> PROVE 1 \in DOMAIN s
  OBVIOUS

\* What is in a list is at one of its places.
LEMMA Elements == ASSUME NEW S, NEW s \in Seq(S), NEW x \in ToSet(s) PROVE x \in S /\ \E i \in DOMAIN s : x = s[i]
  BY DEF ToSet

\* A list made element by element from another.
LEMMA ListOf ==
    ASSUME NEW S, NEW T, NEW s \in Seq(T), NEW f \in [DOMAIN s -> S]
    PROVE  f \in Seq(S) /\ DOMAIN f = DOMAIN s
  <1> DEFINE n == Len(s)
  <1>1. DOMAIN s = 1..n /\ n \in Nat
    OBVIOUS
  <1> HIDE DEF n
  <1>2. f \in [1..n -> S] /\ DOMAIN f = 1..n
    BY <1>1
  <1> QED
    BY <1>1, <1>2, SeqDef

\* Holders and funds are planned by code and period.
LEMMA ByPeriod ==
    ASSUME NEW d \in HolderDatasets \cup {"fund_portfolio"},
           NEW codes \in Seq(Codes), NEW periods \in Seq(Int)
    PROVE  PlanByPeriod(d, codes, periods) \in Seq(PlanItems)
  <1> DEFINE ss == [k \in DOMAIN codes |-> [i \in DOMAIN periods |-> PlannedItem(d, periods[i], codes[k], Blank)]]
  <1>1. MissingInputs(d) \in Seq(PlanItems)
    BY OneRejected DEF MissingInputs, HolderDatasets, HoldingsDatasets, Texts, Reasons
  <1>2. ASSUME NEW k \in DOMAIN codes PROVE ss[k] \in Seq(PlanItems)
    <2> DEFINE f == [i \in DOMAIN periods |-> PlannedItem(d, periods[i], codes[k], Blank)]
    <2>1. ASSUME NEW i \in DOMAIN periods PROVE PlannedItem(d, periods[i], codes[k], Blank) \in PlanItems
      <3>1. periods[i] \in Int /\ codes[k] \in Codes
        BY Element
      <3>3. Blank \in Texts
        BY DEF Texts
      <3>2. d \in HoldingsDatasets /\ d # "hsgt_hold_top10"
        BY DEF HolderDatasets, HoldingsDatasets
      <3> QED
        BY <3>1, <3>2, <3>3, PlannedIn
    <2>2. f \in [DOMAIN periods -> PlanItems]
      BY <2>1
    <2>3. ss[k] = f
      OBVIOUS
    <2> HIDE DEF f, ss
    <2> QED
      BY <2>2, <2>3, ListOf
  <1>3. ss \in Seq(Seq(PlanItems))
    <2>1. ss \in [DOMAIN codes -> Seq(PlanItems)]
      BY <1>2
    <2> HIDE DEF ss
    <2> QED
      BY <2>1, ListOf
  <1>4. FlattenSeq(ss) \in Seq(PlanItems)
    BY <1>3, FlattenHas
  <1> QED
    BY <1>1, <1>4 DEF PlanByPeriod, Each

\* Trades of the leading stocks are planned by day, market and code.
LEMMA Top10Plan ==
    ASSUME NEW days \in Seq(Int), NEW markets \in Seq(Texts), NEW stocks \in Seq(Codes)
    PROVE  PlanTop10(days, markets, stocks) \in Seq(PlanItems)
  <1> DEFINE inner(d, m) == [i \in DOMAIN stocks |-> PlannedItem("hsgt_top10", d, stocks[i], m)]
             mid(d) == [e \in DOMAIN markets |-> inner(d, markets[e])]
             ss == [k \in DOMAIN days |-> FlattenSeq(mid(days[k]))]
  <1>1. MissingInputs("hsgt_top10") \in Seq(PlanItems)
    BY OneRejected DEF MissingInputs, HoldingsDatasets, Texts, Reasons
  <1>2. ASSUME NEW d \in Int, NEW m \in Texts PROVE inner(d, m) \in Seq(PlanItems)
    <2>1. ASSUME NEW i \in DOMAIN stocks PROVE PlannedItem("hsgt_top10", d, stocks[i], m) \in PlanItems
      <3>1. stocks[i] \in Codes
        BY Element
      <3>2. "hsgt_top10" \in HoldingsDatasets /\ "hsgt_top10" \notin HolderDatasets
        BY DEF HolderDatasets, HoldingsDatasets
      <3> QED
        BY <3>1, <3>2, PlannedIn
    <2>2. inner(d, m) \in [DOMAIN stocks -> PlanItems]
      BY <2>1
    <2> HIDE DEF inner
    <2> QED
      BY <2>2, ListOf
  <1>3. ASSUME NEW d \in Int PROVE FlattenSeq(mid(d)) \in Seq(PlanItems)
    <2>1. mid(d) \in [DOMAIN markets -> Seq(PlanItems)]
      <3> HIDE DEF inner
      <3> QED
        BY <1>2, Element
    <2> HIDE DEF mid
    <2>2. mid(d) \in Seq(Seq(PlanItems))
      BY <2>1, ListOf
    <2> QED
      BY <2>2, FlattenHas
  <1>4. FlattenSeq(ss) \in Seq(PlanItems)
    <2>1. ss \in [DOMAIN days -> Seq(PlanItems)]
      <3> HIDE DEF mid
      <3> QED
        BY <1>3, Element
    <2> HIDE DEF ss
    <2>2. ss \in Seq(Seq(PlanItems))
      BY <2>1, ListOf
    <2> QED
      BY <2>2, FlattenHas
  <1> QED
    BY <1>1, <1>4 DEF PlanTop10, Each

\* Northbound holdings are planned by day, exchange and code up to the last day.
LEMMA HoldPlan ==
    ASSUME NEW days \in Seq(Int), NEW exchanges \in Seq(Texts), NEW stocks \in Seq(Codes)
    PROVE  /\ PlanHold(days, exchanges, stocks) \in Seq(PlanItems)
           /\ stocks # <<>> =>
                 \A d \in ToSet(days), x \in ToSet(exchanges) : d <= LastHoldDay =>
                    \E c \in Texts : PlannedItem("hsgt_hold_top10", d, c, x)
                                        \in ToSet(PlanHold(days, exchanges, stocks))
  <1> DEFINE inner(d, x) ==
                 [i \in DOMAIN stocks |->
                    IF d > LastHoldDay THEN SkippedItem("hsgt_hold_top10", d, "post_publication_cutoff")
                    ELSE PlannedItem("hsgt_hold_top10", d, stocks[i], x)]
             mid(d) == [e \in DOMAIN exchanges |-> inner(d, exchanges[e])]
             ss == [k \in DOMAIN days |-> FlattenSeq(mid(days[k]))]
  <1>1. MissingInputs("hsgt_hold_top10") \in Seq(PlanItems)
    BY OneRejected DEF MissingInputs, HoldingsDatasets, Texts, Reasons
  <1>2. ASSUME NEW d \in Int, NEW x \in Texts PROVE inner(d, x) \in Seq(PlanItems)
    <2>1. ASSUME NEW i \in DOMAIN stocks PROVE inner(d, x)[i] \in PlanItems
      <3>1. stocks[i] \in Codes
        BY Element
      <3>2. "hsgt_hold_top10" \in HoldingsDatasets /\ "hsgt_hold_top10" \notin HolderDatasets
        BY DEF HolderDatasets, HoldingsDatasets
      <3>3. "hsgt_hold_top10" \in Texts /\ "post_publication_cutoff" \in Reasons
        BY <3>2 DEF Texts, Reasons
      <3>4. CASE d > LastHoldDay
        BY <3>3, <3>4, SkippedIn
      <3>5. CASE ~(d > LastHoldDay)
        <4>1. d <= LastHoldDay
          BY <3>5, HoldingsAssumption
        <4>2. PlannedItem("hsgt_hold_top10", d, stocks[i], x) \in PlanItems
          BY <3>1, <3>2, <4>1, PlannedIn
        <4> QED
          BY <3>5, <4>2
      <3> QED
        BY <3>4, <3>5
    <2>2. inner(d, x) \in [DOMAIN stocks -> PlanItems]
      BY <2>1
    <2> HIDE DEF inner
    <2> QED
      BY <2>2, ListOf
  <1>3. ASSUME NEW d \in Int
        PROVE  /\ FlattenSeq(mid(d)) \in Seq(PlanItems)
               /\ ToSet(FlattenSeq(mid(d))) = UNION {ToSet(inner(d, exchanges[e])) : e \in DOMAIN exchanges}
    <2>1. mid(d) \in [DOMAIN exchanges -> Seq(PlanItems)]
      <3> HIDE DEF inner
      <3> QED
        BY <1>2, Element
    <2>2. mid(d) \in Seq(Seq(PlanItems)) /\ DOMAIN mid(d) = DOMAIN exchanges
      <3> HIDE DEF mid
      <3> QED
        BY <2>1, ListOf
    <2>3. FlattenSeq(mid(d)) \in Seq(PlanItems)
          /\ ToSet(FlattenSeq(mid(d))) = UNION {ToSet(mid(d)[e]) : e \in DOMAIN mid(d)}
      <3> HIDE DEF mid
      <3> QED
        BY <2>2, FlattenHas
    <2> HIDE DEF inner
    <2> QED
      BY <2>2, <2>3
  <1>4. ss \in Seq(Seq(PlanItems)) /\ DOMAIN ss = DOMAIN days
    <2>1. ss \in [DOMAIN days -> Seq(PlanItems)]
      <3> HIDE DEF mid
      <3> QED
        BY <1>3, Element
    <2> HIDE DEF ss
    <2> QED
      BY <2>1, ListOf
  <1>5. FlattenSeq(ss) \in Seq(PlanItems) /\ ToSet(FlattenSeq(ss)) = UNION {ToSet(ss[k]) : k \in DOMAIN ss}
    <2> HIDE DEF ss
    <2> QED
      BY <1>4, FlattenHas
  <1>6. ASSUME stocks # <<>>, NEW d \in ToSet(days), NEW x \in ToSet(exchanges), d <= LastHoldDay
        PROVE  \E c \in Texts : PlannedItem("hsgt_hold_top10", d, c, x) \in ToSet(FlattenSeq(ss))
    <2>1. PICK k \in DOMAIN days, e \in DOMAIN exchanges : d = days[k] /\ x = exchanges[e]
      BY DEF ToSet
    <2>2. d \in Int /\ x \in Texts
      BY Elements
    <2>3. 1 \in DOMAIN stocks /\ stocks[1] \in Texts
      <3>1. 1 \in DOMAIN stocks
        BY <1>6, NotEmpty
      <3>2. stocks[1] \in Codes
        BY <3>1, Element
      <3> QED
        BY <3>1, <3>2 DEF Codes
    <2>4. ~(d > LastHoldDay)
      BY <1>6, <2>2, HoldingsAssumption
    <2>5. inner(d, x)[1] = PlannedItem("hsgt_hold_top10", d, stocks[1], x)
      BY <2>3, <2>4
    <2>6. inner(d, x)[1] \in ToSet(inner(d, x))
      BY <2>3 DEF ToSet
    <2>7. inner(d, x)[1] \in ToSet(FlattenSeq(mid(d)))
      <3> HIDE DEF inner, mid
      <3> QED
        BY <1>3, <2>1, <2>2, <2>6
    <2>8. ss[k] = FlattenSeq(mid(d))
      BY <2>1
    <2>9. inner(d, x)[1] \in ToSet(FlattenSeq(ss))
      <3> HIDE DEF inner, mid, ss
      <3> QED
        BY <1>4, <1>5, <2>1, <2>7, <2>8
    <2> HIDE DEF inner, mid, ss
    <2> QED
      BY <2>3, <2>5, <2>9
  <1>7. CASE <<>> \in {days, exchanges, stocks}
    <2>1. PlanHold(days, exchanges, stocks) = MissingInputs("hsgt_hold_top10")
      BY <1>7 DEF PlanHold
    <2>2. stocks # <<>> => ToSet(days) = {} \/ ToSet(exchanges) = {}
      BY <1>7 DEF ToSet
    <2> QED
      BY <1>1, <2>1, <2>2
  <1>8. CASE <<>> \notin {days, exchanges, stocks}
    <2>1. PlanHold(days, exchanges, stocks) = FlattenSeq(ss)
      BY <1>8 DEF PlanHold, Each
    <2> HIDE DEF ss
    <2> QED
      BY <1>5, <1>6, <2>1
  <1> QED
    BY <1>7, <1>8

\* A request for a plan.
PlanRequest(r) ==
    /\ r.datasets \in Seq(Texts) /\ r.stocks \in Seq(Texts) /\ r.funds \in Seq(Texts)
    /\ r.markets \in Seq(Texts) /\ r.exchanges \in Seq(Texts)
    /\ r.periods \in Seq(Int) /\ r.days \in Seq(Int) /\ r.range \in Seq(Int) /\ Len(r.range) <= 2

\* The items of a plan with one status are those of its items that have it.
LEMMA StatusHas ==
    ASSUME NEW S, NEW items \in Seq(S), NEW status
    PROVE  /\ WithStatus(items, status) \in Seq(S)
           /\ ToSet(WithStatus(items, status)) = {i \in ToSet(items) : i.status = status}
  <1> DEFINE T == {i \in ToSet(items) : i.status = status}
             o == Only(items, T)
  <1>1. o \in Seq(S \cap T) /\ ToSet(o) = ToSet(items) \cap T
    BY OnlyHas
  <1>2. WithStatus(items, status) = o
    BY DEF WithStatus
  <1>3. S \cap T \subseteq S /\ ToSet(items) \cap T = T
    OBVIOUS
  <1> HIDE DEF o
  <1>4. o \in Seq(S)
    <2> HIDE DEF T
    <2> QED
      BY <1>1, <1>3, SeqMonotonic
  <1> QED
    BY <1>1, <1>2, <1>3, <1>4

\* The texts of a request that are not blank are its codes.
LEMMA CodesOf == ASSUME NEW s \in Seq(Texts) PROVE NonEmpty(s) \in Seq(Codes) /\ ToSet(NonEmpty(s)) = ToSet(s) \ {Blank}
  BY NonEmptyHas DEF Codes

\* The datasets of a request are its known ones; the others are rejected.
LEMMA DatasetsOf ==
    ASSUME NEW datasets \in Seq(Texts)
    PROVE  LET n == NormalizeDatasets(datasets)
           IN  /\ n.ok \in Seq(HoldingsDatasets) /\ n.no \in Seq(PlanItems)
               /\ ToSet(n.ok) = (ToSet(datasets) \ {Blank}) \cap HoldingsDatasets
  <1> DEFINE given == NonEmpty(datasets)
             fit == Only(given, HoldingsDatasets)
             odd == Only(given, ToSet(given) \ HoldingsDatasets)
             no == IF given = <<>> THEN <<RejectedItem("holdings", "missing_datasets")>>
                   ELSE [i \in DOMAIN odd |-> RejectedItem(odd[i], "unsupported_dataset")]
  <1>1. given \in Seq(Codes) /\ ToSet(given) = ToSet(datasets) \ {Blank}
    BY CodesOf
  <1>2. NormalizeDatasets(datasets) = [ok |-> fit, no |-> no]
    BY DEF NormalizeDatasets
  <1> HIDE DEF given
  <1>3. fit \in Seq(Codes \cap HoldingsDatasets) /\ ToSet(fit) = ToSet(given) \cap HoldingsDatasets
    BY <1>1, OnlyHas
  <1>4. fit \in Seq(HoldingsDatasets)
    <2>1. Codes \cap HoldingsDatasets \subseteq HoldingsDatasets
      OBVIOUS
    <2> HIDE DEF fit
    <2> QED
      BY <1>3, <2>1, SeqMonotonic
  <1>5. odd \in Seq(Texts)
    <2>1. odd \in Seq(Codes \cap (ToSet(given) \ HoldingsDatasets))
      BY <1>1, OnlyHas
    <2>2. Codes \cap (ToSet(given) \ HoldingsDatasets) \subseteq Texts
      BY DEF Codes
    <2> HIDE DEF odd
    <2> QED
      BY <2>1, <2>2, SeqMonotonic
  <1> HIDE DEF fit, odd
  <1>6. no \in Seq(PlanItems)
    <2>1. <<RejectedItem("holdings", "missing_datasets")>> \in Seq(PlanItems)
      BY OneRejected DEF Texts, Reasons
    <2> DEFINE f == [i \in DOMAIN odd |-> RejectedItem(odd[i], "unsupported_dataset")]
    <2>2. f \in [DOMAIN odd -> PlanItems]
      <3>1. "unsupported_dataset" \in Reasons
        BY DEF Reasons
      <3> QED
        BY <1>5, <3>1, RejectedIn, Element
    <2> HIDE DEF f
    <2>3. f \in Seq(PlanItems)
      BY <1>5, <2>2, ListOf
    <2> QED
      BY <2>1, <2>3 DEF f
  <1> HIDE DEF no
  <1>7. NormalizeDatasets(datasets).ok = fit /\ NormalizeDatasets(datasets).no = no
    BY <1>2
  <1>8. ToSet(fit) = (ToSet(datasets) \ {Blank}) \cap HoldingsDatasets
    BY <1>1, <1>3
  <1> QED
    BY <1>4, <1>6, <1>7, <1>8

\* Dates are parsed: what is no date is rejected.
LEMMA DatesOf ==
    ASSUME NEW days \in Seq(Int), NEW reason \in {"invalid_period", "invalid_trade_date"}
    PROVE  LET d == ParseDates(days, reason)
           IN  d.ok \in Seq(Int) /\ d.no \in Seq(PlanItems) /\ ToSet(d.ok) = ToSet(days) \ {0}
  <1> DEFINE T == ToSet(days) \ {0}
             o == Only(days, T)
             ok == Distinct(o)
             no == IF 0 \in ToSet(days) THEN <<RejectedItem("holdings", reason)>> ELSE <<>>
  <1>1. o \in Seq(Int \cap T) /\ ToSet(o) = ToSet(days) \cap T
    BY OnlyHas
  <1>2. Int \cap T \subseteq Int /\ ToSet(days) \cap T = ToSet(days) \ {0}
    OBVIOUS
  <1>3. ParseDates(days, reason) = [ok |-> ok, no |-> no]
    BY DEF ParseDates
  <1>4. no \in Seq(PlanItems)
    <2>1. <<RejectedItem("holdings", reason)>> \in Seq(PlanItems)
      BY OneRejected DEF Texts, Reasons
    <2> QED
      BY <2>1
  <1> HIDE DEF o, T, no
  <1>5. o \in Seq(Int)
    BY <1>1, <1>2, SeqMonotonic
  <1>6. ok \in Seq(Int) /\ ToSet(ok) = ToSet(o)
    BY <1>5, DistinctHas
  <1> HIDE DEF ok
  <1> QED
    BY <1>1, <1>2, <1>3, <1>4, <1>6

\* The trade dates of a request are its own dates when it gives no range.
LEMMA TradeDatesOf ==
    ASSUME NEW days \in Seq(Int), NEW range \in Seq(Int), Len(range) <= 2
    PROVE  /\ ResolveTradeDates(days, range).ok \in Seq(Int)
           /\ ResolveTradeDates(days, range).no \in Seq(PlanItems)
           /\ range = <<>> => ToSet(ResolveTradeDates(days, range).ok) = ToSet(days) \ {0}
  <1> DEFINE given == ParseDates(days, "invalid_trade_date")
             a == given.ok
             b == given.no
             refused(reason) == [ok |-> a, no |-> Append(b, RejectedItem("holdings", reason))]
             n == range[2] - range[1] + 1
             all == a \o [i \in 1..n |-> range[1] + i - 1]
             res == ResolveTradeDates(days, range)
  <1>1. a \in Seq(Int) /\ b \in Seq(PlanItems) /\ ToSet(a) = ToSet(days) \ {0}
    BY DatesOf
  <1>2. given = [ok |-> a, no |-> b]
    BY DEF ParseDates
  <1>3. \A reason \in Reasons : RejectedItem("holdings", reason) \in PlanItems
    BY RejectedIn DEF Texts
  <1>4. ASSUME NEW reason \in Reasons
        PROVE  refused(reason).ok = a /\ refused(reason).no \in Seq(PlanItems)
    <2> HIDE DEF a, b, given
    <2>2. Append(b, RejectedItem("holdings", reason)) \in Seq(PlanItems)
      BY <1>1, <1>3, AppendProperties
    <2> QED
      BY <2>2
  <1>5. Len(range) \in Nat
    OBVIOUS
  <1>6. range = <<>> \/ Len(range) = 1 \/ Len(range) = 2
    <2> DEFINE m == Len(range)
    <2>1. m = 0 => range = <<>>
      BY EmptySeq
    <2>2. m \in Nat /\ m <= 2
      OBVIOUS
    <2> HIDE DEF m
    <2>3. m = 0 \/ m = 1 \/ m = 2
      BY <2>2
    <2> QED
      BY <2>1, <2>3 DEF m
  <1>7. CASE range = <<>>
    <2>1. res = given
      BY <1>7 DEF ResolveTradeDates
    <2> HIDE DEF given
    <2>2. res.ok = a /\ res.no = b
      BY <1>2, <2>1
    <2> HIDE DEF a, b
    <2> QED
      BY <1>1, <2>2
  <1>8. CASE range # <<>> /\ Len(range) = 1
    <2>1. res = refused("incomplete_date_range")
      BY <1>8 DEF ResolveTradeDates
    <2>2. "incomplete_date_range" \in Reasons
      BY DEF Reasons
    <2> HIDE DEF refused
    <2>3. res.ok = a /\ res.no \in Seq(PlanItems)
      BY <1>4, <2>1, <2>2
    <2> HIDE DEF a
    <2> QED
      BY <1>1, <1>8, <2>3
  <1>9. CASE range # <<>> /\ Len(range) = 2 /\ (0 \in ToSet(range) \/ range[1] > range[2])
    <2>1. res = refused("invalid_date_range")
      BY <1>9 DEF ResolveTradeDates
    <2>2. "invalid_date_range" \in Reasons
      BY DEF Reasons
    <2> HIDE DEF refused
    <2>3. res.ok = a /\ res.no \in Seq(PlanItems)
      BY <1>4, <2>1, <2>2
    <2> HIDE DEF a
    <2> QED
      BY <1>1, <1>9, <2>3
  <1>10. CASE range # <<>> /\ Len(range) = 2 /\ ~(0 \in ToSet(range) \/ range[1] > range[2])
    <2>1. res = [ok |-> Distinct(all), no |-> b]
      BY <1>10 DEF ResolveTradeDates
    <2>2. res.ok = Distinct(all) /\ res.no = b
      <3> HIDE DEF b, all, res
      <3> QED
        BY <2>1
    <2>3. range[1] \in Int /\ range[2] \in Int
      <3>1. 1 \in DOMAIN range /\ 2 \in DOMAIN range
        BY <1>10
      <3> QED
        BY <3>1, Element
    <2>4. n \in Nat
      BY <1>10, <2>3
    <2>5. [i \in 1..n |-> range[1] + i - 1] \in Seq(Int)
      <3> HIDE DEF n
      <3>1. [i \in 1..n |-> range[1] + i - 1] \in [1..n -> Int]
        BY <2>3, <2>4
      <3> QED
        BY <2>4, <3>1, SeqDef
    <2>6. all \in Seq(Int)
      BY <1>1, <2>5, ConcatProperties
    <2> HIDE DEF all
    <2>7. Distinct(all) \in Seq(Int)
      BY <2>6, DistinctHas
    <2> HIDE DEF a, b
    <2> QED
      BY <1>1, <1>10, <2>2, <2>7
  <1> QED
    BY <1>6, <1>7, <1>8, <1>9, <1>10

\* Whatever a dataset is asked for, its items are those of a plan.
LEMMA DatasetPlan ==
    ASSUME NEW d \in HoldingsDatasets, NEW r, PlanRequest(r), NEW periods \in Seq(Int), NEW days \in Seq(Int)
    PROVE  PlanDataset(d, r, periods, days) \in Seq(PlanItems)
  <1>1. /\ NonEmpty(r.stocks) \in Seq(Codes) /\ NonEmpty(r.funds) \in Seq(Codes)
        /\ NonEmpty(r.markets) \in Seq(Codes) /\ NonEmpty(r.exchanges) \in Seq(Codes)
    BY CodesOf DEF PlanRequest
  <1>2. NonEmpty(r.markets) \in Seq(Texts) /\ NonEmpty(r.exchanges) \in Seq(Texts)
    <2>1. Codes \subseteq Texts
      BY DEF Codes
    <2> QED
      BY <1>1, <2>1, SeqMonotonic
  <1>3. CASE d \in HolderDatasets
    BY <1>1, <1>3, ByPeriod DEF PlanDataset, HolderDatasets
  <1>4. CASE d = "fund_portfolio"
    BY <1>1, <1>4, ByPeriod DEF PlanDataset, HolderDatasets
  <1>5. CASE d = "hsgt_top10"
    BY <1>1, <1>2, <1>5, Top10Plan DEF PlanDataset, HolderDatasets
  <1>6. CASE d = "hsgt_hold_top10"
    BY <1>1, <1>2, <1>6, HoldPlan DEF PlanDataset, HolderDatasets
  <1> QED
    BY <1>3, <1>4, <1>5, <1>6 DEF HoldingsDatasets

\* Nothing is taken from a plan that is over its limit.
LEMMA LimitedHas ==
    ASSUME NEW items \in Seq(PlanItems), NEW limit
    PROVE  Limited(items, limit) \in Seq(PlanItems) /\ ToSet(items) \subseteq ToSet(Limited(items, limit))
  <1> DEFINE j == RejectedItem("holdings", "plan_item_limit_exceeded")
  <1>1. j \in PlanItems
    BY RejectedIn DEF Texts, Reasons
  <1> HIDE DEF j
  <1>2. Append(items, j) \in Seq(PlanItems) /\ ToSet(items) \subseteq ToSet(Append(items, j))
    <2>1. /\ Append(items, j) \in Seq(PlanItems) /\ Len(Append(items, j)) = Len(items) + 1
          /\ \A i \in 1..Len(items) : Append(items, j)[i] = items[i]
      BY <1>1, AppendProperties
    <2>2. DOMAIN items = 1..Len(items) /\ DOMAIN Append(items, j) = 1..(Len(items) + 1) /\ Len(items) \in Nat
      BY <2>1
    <2>3. ASSUME NEW x \in ToSet(items) PROVE x \in ToSet(Append(items, j))
      <3>1. PICK i \in DOMAIN items : x = items[i]
        BY DEF ToSet
      <3>2. i \in DOMAIN Append(items, j) /\ Append(items, j)[i] = x
        BY <2>1, <2>2, <3>1
      <3> QED
        BY <3>2 DEF ToSet
    <2> QED
      BY <2>1, <2>3
  <1>3. Limited(items, limit) \in {items, Append(items, j)}
    BY DEF Limited, j
  <1> QED
    BY <1>2, <1>3

\* A plan is a sequence of plan items and has those of each of its datasets.
LEMMA PlanHas ==
    ASSUME NEW r, PlanRequest(r)
    PROVE  /\ BuildPlan(r) \in Seq(PlanItems)
           /\ \A d \in (ToSet(r.datasets) \ {Blank}) \cap HoldingsDatasets :
                 ToSet(PlanDataset(d, r, ParseDates(r.periods, "invalid_period").ok,
                                   ResolveTradeDates(r.days, r.range).ok)) \subseteq ToSet(BuildPlan(r))
  <1> DEFINE sets == NormalizeDatasets(r.datasets)
             ok == sets.ok
             a == sets.no
             ps == ParseDates(r.periods, "invalid_period").ok
             b == ParseDates(r.periods, "invalid_period").no
             ds == ResolveTradeDates(r.days, r.range).ok
             c == ResolveTradeDates(r.days, r.range).no
             f == [i \in DOMAIN ok |-> PlanDataset(ok[i], r, ps, ds)]
             items == FlattenSeq(f)
             all == a \o b \o c \o items
  <1>1. /\ ok \in Seq(HoldingsDatasets) /\ a \in Seq(PlanItems)
        /\ ToSet(ok) = (ToSet(r.datasets) \ {Blank}) \cap HoldingsDatasets
    BY DatasetsOf DEF PlanRequest
  <1>2. ps \in Seq(Int) /\ b \in Seq(PlanItems)
    BY DatesOf DEF PlanRequest
  <1>3. ds \in Seq(Int) /\ c \in Seq(PlanItems)
    BY TradeDatesOf DEF PlanRequest
  <1>4. BuildPlan(r) = Limited(all, r.limit)
    BY DEF BuildPlan, Each
  <1> HIDE DEF sets, ok, a, b, c, ps, ds
  <1>5. f \in Seq(Seq(PlanItems)) /\ DOMAIN f = DOMAIN ok
    <2>1. f \in [DOMAIN ok -> Seq(PlanItems)]
      BY <1>1, <1>2, <1>3, DatasetPlan, Element
    <2> HIDE DEF f
    <2> QED
      BY <1>1, <2>1, ListOf
  <1>6. ASSUME NEW d \in ToSet(ok) PROVE ToSet(PlanDataset(d, r, ps, ds)) \subseteq ToSet(items)
    <2>1. PICK i \in DOMAIN ok : d = ok[i]
      BY <1>1, Elements
    <2>2. f[i] = PlanDataset(d, r, ps, ds)
      BY <2>1
    <2> HIDE DEF f
    <2>3. ToSet(items) = UNION {ToSet(f[k]) : k \in DOMAIN f}
      BY <1>5, FlattenHas
    <2> QED
      BY <1>5, <2>1, <2>2, <2>3
  <1>7. items \in Seq(PlanItems)
    <2> HIDE DEF f
    <2> QED
      BY <1>5, FlattenHas
  <1> HIDE DEF items
  <1>8. all \in Seq(PlanItems) /\ ToSet(items) \subseteq ToSet(all)
    <2> DEFINE ab == a \o b
               abc == ab \o c
    <2>1. ab \in Seq(PlanItems)
      BY <1>1, <1>2, JoinHas
    <2>2. abc \in Seq(PlanItems)
      <3> HIDE DEF ab
      <3> QED
        BY <1>3, <2>1, JoinHas
    <2>3. all = abc \o items
      OBVIOUS
    <2> HIDE DEF all, abc
    <2> QED
      BY <1>7, <2>2, <2>3, JoinHas
  <1> HIDE DEF all
  <1>9. Limited(all, r.limit) \in Seq(PlanItems) /\ ToSet(all) \subseteq ToSet(Limited(all, r.limit))
    BY <1>8, LimitedHas
  <1>10. \A d \in ToSet(ok) : ToSet(PlanDataset(d, r, ps, ds)) \subseteq ToSet(BuildPlan(r))
    BY <1>4, <1>6, <1>8, <1>9
  <1> QED
    BY <1>1, <1>4, <1>9, <1>10 DEF ps, ds

\* Northbound holdings are in the plan for every day up to the last and every exchange.
LEMMA PlanHasHolds ==
    ASSUME NEW r, PlanRequest(r), "hsgt_hold_top10" \in ToSet(r.datasets), r.range = <<>>,
           NonEmpty(r.stocks) # <<>>, NEW d \in ToSet(r.days), d # 0, d <= LastHoldDay,
           NEW x \in ToSet(r.exchanges), x # Blank
    PROVE  \E c \in Texts : PlannedItem("hsgt_hold_top10", d, c, x) \in ToSet(BuildPlan(r))
  <1> DEFINE ps == ParseDates(r.periods, "invalid_period").ok
             ds == ResolveTradeDates(r.days, r.range).ok
             xs == NonEmpty(r.exchanges)
             cs == NonEmpty(r.stocks)
             made == PlanHold(ds, xs, cs)
  <1>1. PlanDataset("hsgt_hold_top10", r, ps, ds) = made
    BY DEF PlanDataset, HolderDatasets
  <1>2. ToSet(made) \subseteq ToSet(BuildPlan(r))
    <2>1. "hsgt_hold_top10" \in (ToSet(r.datasets) \ {Blank}) \cap HoldingsDatasets
      BY NotBlank DEF HoldingsDatasets
    <2> HIDE DEF made, ps, ds
    <2> QED
      BY <1>1, <2>1, PlanHas DEF ps, ds
  <1>3. ds \in Seq(Int) /\ d \in ToSet(ds)
    BY TradeDatesOf DEF PlanRequest
  <1>4. xs \in Seq(Texts) /\ x \in ToSet(xs) /\ cs \in Seq(Codes)
    <2>1. xs \in Seq(Codes) /\ cs \in Seq(Codes) /\ ToSet(xs) = ToSet(r.exchanges) \ {Blank}
      BY CodesOf DEF PlanRequest
    <2>2. Codes \subseteq Texts
      BY DEF Codes
    <2> HIDE DEF xs, cs
    <2> QED
      BY <2>1, <2>2, SeqMonotonic
  <1> HIDE DEF ds, xs, cs
  <1>5. \E c \in Texts : PlannedItem("hsgt_hold_top10", d, c, x) \in ToSet(made)
    BY <1>3, <1>4, HoldPlan DEF cs
  <1> QED
    BY <1>2, <1>5

-----------------------------------------------------------------------------
(* Holdings: the window                                                    *)

\* A number lies between the multiples of the divisor around it.
LEMMA Quotient ==
    ASSUME NEW D \in Nat, D > 0, NEW a \in Int
    PROVE  a \div D \in Int /\ (a \div D) * D <= a /\ a < (a \div D + 1) * D
  OBVIOUS

\* Multiplying by a positive number keeps the order.
LEMMA Product ==
    ASSUME NEW D \in Nat, D > 0, NEW a \in Int, NEW b \in Int
    PROVE  (a <= b => a * D <= b * D) /\ (a < b => (a + 1) * D <= b * D)
  <1>1. ASSUME NEW u \in Int, NEW v \in Int, u <= v PROVE u * D <= v * D
    <2>1. v - u \in Nat
      BY <1>1
    <2>2. v * D - u * D = (v - u) * D /\ (v - u) * D >= 0 /\ v * D \in Int /\ u * D \in Int
      BY <2>1
    <2> QED
      BY <2>2
  <1>2. a < b => a + 1 <= b /\ a + 1 \in Int
    OBVIOUS
  <1> QED
    BY <1>1, <1>2

\* The days of a month, and the last published one.
LEMMA MonthFacts ==
    ASSUME NEW m \in Int
    PROVE  /\ MonthEnd(m) \in Int /\ MonthOf(MonthEnd(m)) = m /\ MonthEnd(m) # 0
           /\ m > MonthOf(LastHoldDay) => MonthEnd(m) > LastHoldDay
           /\ MonthEnd(m) > LastHoldDay => MonthOf(LastHoldDay) <= m
           /\ MonthOf(LastHoldDay) \in Int
  <1> DEFINE D == MonthDays
             L == LastHoldDay
             k == m + 1
             e == k * D - 1
             q == e \div D
             l == L \div D
  <1>1. D \in Nat /\ D >= 2 /\ L \in Nat
    BY HoldingsAssumption DEF HoldingsAssumption
  <1>2. k \in Int /\ k * D \in Int
    BY <1>1
  <1> HIDE DEF D, L
  <1>3. e \in Int
    BY <1>2
  <1> HIDE DEF e
  <1>4. q \in Int /\ q * D <= e /\ e < (q + 1) * D /\ q * D \in Int /\ (q + 1) * D \in Int
    BY <1>1, <1>3, Quotient
  <1>5. l \in Int /\ l * D <= L /\ L < (l + 1) * D /\ l * D \in Int /\ (l + 1) * D \in Int
    BY <1>1, Quotient
  <1> HIDE DEF q, l, k
  <1>6. q + 1 = k
    <2>1. ~(q + 1 < k)
      BY <1>1, <1>2, <1>3, <1>4, Product DEF e
    <2>2. ~(k < q + 1)
      <3>1. SUFFICES ASSUME k <= q PROVE FALSE
        BY <1>2, <1>4
      <3> QED
        BY <1>1, <1>2, <1>3, <1>4, <3>1, Product DEF e
    <2> QED
      BY <1>2, <1>4, <2>1, <2>2
  <1>7. e # 0
    <2>1. CASE k <= 0
      <3>1. k * D <= 0 * D
        BY <1>1, <1>2, <2>1, Product
      <3> QED
        BY <1>1, <1>2, <3>1 DEF e
    <2>2. CASE k >= 1
      <3>1. 1 * D <= k * D
        BY <1>1, <1>2, <2>2, Product
      <3> QED
        BY <1>1, <1>2, <3>1 DEF e
    <2> QED
      BY <1>2, <2>1, <2>2
  <1>8. l + 1 < k => e > L
    <2> SUFFICES ASSUME l + 1 < k PROVE e > L
      OBVIOUS
    <2>1. (l + 1 + 1) * D <= k * D /\ (l + 1 + 1) * D = (l + 1) * D + D
      BY <1>1, <1>2, <1>5, Product
    <2> QED
      BY <1>1, <1>2, <1>5, <2>1 DEF e
  <1>9. e > L => l < k
    <2> SUFFICES ASSUME e > L, k <= l PROVE FALSE
      BY <1>2, <1>5
    <2>1. k * D <= l * D
      BY <1>1, <1>2, <1>5, Product
    <2> QED
      BY <1>1, <1>2, <1>5, <2>1 DEF e
  <1>10. MonthEnd(m) = e /\ MonthOf(e) = q /\ MonthOf(L) = l
    BY DEF MonthEnd, MonthOf, e, q, l, k, D, L
  <1>11. q = m /\ (m > l => l + 1 < k) /\ (l < k => l <= m)
    BY <1>2, <1>4, <1>5, <1>6 DEF k
  <1> QED
    BY <1>3, <1>5, <1>7, <1>8, <1>9, <1>10, <1>11 DEF L

\* The days of a window: each month up to the last published day has one.
LEMMA HoldDaysHas ==
    ASSUME NEW months \in Seq(Int)
    PROVE  /\ HoldDays(months).days \in Seq(Int)
           /\ \A m \in ToSet(months) :
                 IF m > MonthOf(LastHoldDay) THEN "post_publication_cutoff" \in HoldDays(months).gaps
                 ELSE \E d \in ToSet(HoldDays(months).days) :
                         /\ d # 0 /\ d <= LastHoldDay /\ MonthOf(d) = m
                         /\ d # MonthEnd(m) => "partial_month_provider_cutoff" \in HoldDays(months).gaps
  <1> DEFINE late == {m \in ToSet(months) : MonthEnd(m) > LastHoldDay}
             capped == late \cap {MonthOf(LastHoldDay)}
             omitted == late \ capped
             T == ToSet(months) \ omitted
             kept == Only(months, T)
             f == [i \in DOMAIN kept |-> IF kept[i] \in capped THEN LastHoldDay ELSE MonthEnd(kept[i])]
             gaps == {g \in {"partial_month_provider_cutoff", "post_publication_cutoff"} :
                         IF g = "post_publication_cutoff" THEN omitted # {} ELSE capped # {}}
             days == Distinct(f)
  <1>1. HoldDays(months) = [days |-> days, gaps |-> gaps]
    BY DEF HoldDays
  <1>2. LastHoldDay \in Nat \ {0} /\ MonthOf(LastHoldDay) \in Int
    <2>1. 0 \in Int
      OBVIOUS
    <2> QED
      BY <2>1, HoldingsAssumption, MonthFacts DEF HoldingsAssumption
  <1>3. kept \in Seq(Int) /\ ToSet(kept) = T
    <2>1. kept \in Seq(Int \cap T) /\ ToSet(kept) = ToSet(months) \cap T
      BY OnlyHas
    <2>2. Int \cap T \subseteq Int /\ ToSet(months) \cap T = T
      OBVIOUS
    <2> HIDE DEF kept, T
    <2> QED
      BY <2>1, <2>2, SeqMonotonic
  <1> HIDE DEF kept
  <1>4. f \in [DOMAIN kept -> Int]
    <2>1. \A i \in DOMAIN kept : kept[i] \in Int
      BY <1>3, Element
    <2>2. \A m \in Int : MonthEnd(m) \in Int
      BY MonthFacts
    <2> HIDE DEF capped
    <2> QED
      BY <1>2, <2>1, <2>2
  <1>5. f \in Seq(Int) /\ DOMAIN f = DOMAIN kept
    <2> HIDE DEF f
    <2> QED
      BY <1>3, <1>4, ListOf
  <1>6. days \in Seq(Int) /\ ToSet(days) = ToSet(f)
    <2> HIDE DEF f
    <2> QED
      BY <1>5, DistinctHas
  <1> HIDE DEF days
  <1>7. ASSUME NEW m \in ToSet(months), m > MonthOf(LastHoldDay) PROVE "post_publication_cutoff" \in gaps
    <2>1. m \in Int
      BY Elements
    <2>2. m \in late
      BY <1>7, <2>1, MonthFacts
    <2>3. m \notin capped
      BY <1>2, <1>7, <2>1
    <2> QED
      BY <2>2, <2>3
  <1>8. ASSUME NEW m \in ToSet(months), ~(m > MonthOf(LastHoldDay))
        PROVE  \E d \in ToSet(days) :
                  /\ d # 0 /\ d <= LastHoldDay /\ MonthOf(d) = m
                  /\ d # MonthEnd(m) => "partial_month_provider_cutoff" \in gaps
    <2>1. m \in Int
      BY Elements
    <2>2. m \in late => m \in capped
      BY <1>2, <1>8, <2>1, MonthFacts
    <2>3. m \in T
      BY <2>2
    <2>4. PICK i \in DOMAIN kept : kept[i] = m
      BY <1>3, <2>3, Elements
    <2>5. f[i] \in ToSet(days)
      BY <1>5, <1>6, <2>4 DEF ToSet
    <2>6. CASE m \in capped
      <3>1. f[i] = LastHoldDay /\ MonthOf(LastHoldDay) = m
        BY <2>4, <2>6
      <3>2. "partial_month_provider_cutoff" \in gaps
        BY <2>6
      <3> HIDE DEF f, capped, gaps
      <3> QED
        BY <1>2, <2>5, <3>1, <3>2
    <2>7. CASE m \notin capped
      <3>1. f[i] = MonthEnd(m) /\ m \notin late
        BY <2>2, <2>4, <2>7
      <3>2. MonthEnd(m) \in Int /\ MonthOf(MonthEnd(m)) = m /\ MonthEnd(m) # 0
        BY <2>1, MonthFacts
      <3>3. MonthEnd(m) <= LastHoldDay
        BY <1>2, <3>1, <3>2
      <3> HIDE DEF f, capped, gaps
      <3> QED
        BY <2>5, <3>1, <3>2, <3>3
    <2> QED
      BY <2>6, <2>7
  <1> HIDE DEF gaps
  <1>9. HoldDays(months).days = days /\ HoldDays(months).gaps = gaps
    BY <1>1
  <1> QED
    BY <1>6, <1>7, <1>8, <1>9

\* A sequence whose elements are in a set is one of that set.
LEMMA InTexts == ASSUME NEW S, NEW s \in Seq(S), NEW T, ToSet(s) \subseteq T PROVE s \in Seq(T)
  <1>1. \A i \in DOMAIN s : s[i] \in T
    BY DEF ToSet
  <1>2. Len(s) \in Nat /\ s = [i \in 1..Len(s) |-> s[i]] /\ DOMAIN s = 1..Len(s)
    OBVIOUS
  <1> QED
    BY <1>1, <1>2, IsASeq

\* Requests ask in texts.
LEMMA RequestsAreAsked ==
    ASSUME NEW r \in HoldingsRequests \cup DryRequests
    PROVE  PlanRequest(r)
  <1>1. /\ r.datasets \in Seq(STRING) /\ r.stocks \in Seq(STRING) /\ r.funds \in Seq(STRING)
        /\ r.markets \in Seq(STRING) /\ r.exchanges \in Seq(STRING)
        /\ r.periods \in Seq(Nat) /\ r.days \in Seq(Nat) /\ r.range \in Seq(Nat) /\ Len(r.range) <= 2
    BY HoldingsAssumption, Zenon DEF HoldingsAssumption
  <1>2. /\ ToSet(r.datasets) \subseteq Texts /\ ToSet(r.stocks) \subseteq Texts /\ ToSet(r.funds) \subseteq Texts
        /\ ToSet(r.markets) \subseteq Texts /\ ToSet(r.exchanges) \subseteq Texts
    <2> DEFINE own(q) == UNION {ToSet(q.datasets), ToSet(q.stocks), ToSet(q.funds), ToSet(q.markets),
                                ToSet(q.exchanges)}
    <2>1. own(r) \subseteq UNION {own(q) : q \in HoldingsRequests \cup DryRequests}
      <3> HIDE DEF own
      <3> QED
        OBVIOUS
    <2> QED
      BY <2>1 DEF Texts
  <1>3. /\ r.datasets \in Seq(Texts) /\ r.stocks \in Seq(Texts) /\ r.funds \in Seq(Texts)
        /\ r.markets \in Seq(Texts) /\ r.exchanges \in Seq(Texts)
    BY ONLY <1>1, <1>2, InTexts, Zenon
  <1>4. Nat \subseteq Int
    OBVIOUS
  <1>5. r.periods \in Seq(Int) /\ r.days \in Seq(Int) /\ r.range \in Seq(Int)
    BY ONLY <1>1, <1>4, SeqMonotonic, Zenon
  <1> QED
    BY <1>1, <1>3, <1>5 DEF PlanRequest

\* A request for a window gives lists of texts.
LEMMA WindowsAreAsked ==
    ASSUME NEW r \in WindowRequests
    PROVE  r.stocks \in Seq(Texts) /\ r.funds \in Seq(Texts)
  <1>1. r.stocks \in Seq(STRING) /\ r.funds \in Seq(STRING)
    BY HoldingsAssumption, Zenon DEF HoldingsAssumption
  <1>2. ToSet(r.stocks) \subseteq Texts /\ ToSet(r.funds) \subseteq Texts
    <2> DEFINE own(q) == ToSet(q.stocks) \cup ToSet(q.funds)
    <2>1. own(r) \subseteq UNION {own(q) : q \in WindowRequests}
      <3> HIDE DEF own
      <3> QED
        OBVIOUS
    <2> QED
      BY <2>1 DEF Texts
  <1> QED
    BY ONLY <1>1, <1>2, InTexts, Zenon

\* A list of one element.
LEMMA OneOf == ASSUME NEW S, NEW a \in S PROVE <<a>> \in Seq(S) /\ ToSet(<<a>>) = {a}
  BY DEF ToSet

\* A list of two elements.
LEMMA TwoOf == ASSUME NEW S, NEW a \in S, NEW b \in S PROVE <<a, b>> \in Seq(S) /\ ToSet(<<a, b>>) = {a, b}
  BY DEF ToSet

\* The four requests of a window are requests for plans.
LEMMA WindowParts ==
    ASSUME NEW r \in WindowRequests, NEW datasets \in Seq(Texts), NEW periods \in Seq(Int), NEW days \in Seq(Int)
    PROVE  PlanRequest(WindowRequest(datasets, r, periods, days))
  <1> DEFINE q == WindowRequest(datasets, r, periods, days)
  <1>1. /\ q.datasets = datasets /\ q.stocks = r.stocks /\ q.funds = r.funds /\ q.periods = periods
        /\ q.days = days /\ q.range = <<>> /\ q.markets = <<"1", "3">> /\ q.exchanges = <<"SH", "SZ">>
    BY DEF WindowRequest, HoldExchanges
  <1>2. <<"1", "3">> \in Seq(Texts) /\ <<"SH", "SZ">> \in Seq(Texts)
    BY TwoOf DEF Texts
  <1>3. <<>> \in Seq(Int) /\ Len(<<>>) <= 2
    OBVIOUS
  <1>4. r.stocks \in Seq(Texts) /\ r.funds \in Seq(Texts)
    BY WindowsAreAsked
  <1> HIDE DEF q
  <1>5. PlanRequest(q)
    BY <1>1, <1>2, <1>3, <1>4 DEF PlanRequest
  <1> QED
    BY <1>5 DEF q

\* Every month of a window is planned for every exchange, or a gap stands for it.
LEMMA WindowHas ==
    ASSUME NEW r \in WindowRequests, WindowStocksFit(r.stocks)
    PROVE  /\ WindowPlan(r).items \in Seq(PlanItems)
           /\ \A m \in ToSet(WindowPlan(r).months), x \in ToSet(HoldExchanges) :
                 IF m > MonthOf(LastHoldDay) THEN "post_publication_cutoff" \in WindowPlan(r).gaps
                 ELSE \E c \in Texts, d \in Int :
                         /\ PlannedItem("hsgt_hold_top10", d, c, x) \in ToSet(WindowPlan(r).items)
                         /\ MonthOf(d) = m
                         /\ d # MonthEnd(m) => "partial_month_provider_cutoff" \in WindowPlan(r).gaps
  <1> DEFINE months == MonthWindow(EndMonth(r.end))
             LastDays(ms) == [i \in DOMAIN ms |-> MonthEnd(ms[i])]
             quarters == QuarterEnds(months)
             periods == LastDays(quarters)
             all == LastDays(months)
             hold == HoldDays(months)
             funded == NonEmpty(r.funds) # <<>>
             p1 == WindowRequest(<<"top10_holders", "top10_floatholders">>, r, periods, <<>>)
             p2 == WindowRequest(<<"hsgt_top10">>, r, <<>>, all)
             p3 == WindowRequest(<<"hsgt_hold_top10">>, r, <<>>, hold.days)
             p4 == WindowRequest(<<"fund_portfolio">>, r, periods, <<>>)
             parts == <<p1, p2, p3, p4>>
             Asked(part) ==
                 CASE part.datasets[1] = "hsgt_hold_top10" -> hold.days # <<>>
                   [] part.datasets[1] = "fund_portfolio" -> funded
                   [] OTHER -> TRUE
             T == {x \in ToSet(parts) : Asked(x)}
             asked == Only(parts, T)
             f == [i \in DOMAIN asked |-> BuildPlan(asked[i])]
             items == FlattenSeq(f)
             made == Limited(items, r.limit)
             gaps == hold.gaps \cup {"holder_identity_resolution_deferred"}
                     \cup (IF funded THEN {} ELSE {"related_fund_codes_unresolved_plan_only"})
  <1>1. WindowPlan(r) = [months |-> months, items |-> made, gaps |-> gaps]
    BY DEF WindowPlan, Each
  <1>2. months \in Seq(Int)
    <2>1. WindowMonths \in Nat /\ DefaultEndMonth \in Nat /\ r.end \in Int
      BY HoldingsAssumption, Zenon DEF HoldingsAssumption
    <2> DEFINE e == EndMonth(r.end)
    <2>2. e \in Int
      BY <2>1 DEF EndMonth
    <2> HIDE DEF e
    <2>3. [i \in 1..WindowMonths |-> e - WindowMonths + i] \in [1..WindowMonths -> Int]
      BY <2>1, <2>2
    <2>4. MonthWindow(e) \in Seq(Int)
      BY <2>1, <2>3, SeqDef DEF MonthWindow
    <2> QED
      BY <2>4 DEF e
  <1> HIDE DEF months
  <1>3. ASSUME NEW ms \in Seq(Int) PROVE LastDays(ms) \in Seq(Int)
    <2>1. LastDays(ms) \in [DOMAIN ms -> Int]
      BY MonthFacts, Element
    <2> HIDE DEF LastDays
    <2> QED
      BY <2>1, ListOf
  <1>4. quarters \in Seq(Int)
    <2> DEFINE Q == {m \in ToSet(months) : m % 3 = 2}
    <2>1. Only(months, Q) \in Seq(Int \cap Q)
      BY <1>2, OnlyHas
    <2>2. Int \cap Q \subseteq Int
      OBVIOUS
    <2>3. quarters = Only(months, Q)
      BY DEF QuarterEnds
    <2> HIDE DEF Q, quarters
    <2> QED
      BY <2>1, <2>2, <2>3, SeqMonotonic
  <1> HIDE DEF quarters
  <1>5. periods \in Seq(Int) /\ all \in Seq(Int) /\ <<>> \in Seq(Int)
    BY <1>2, <1>3, <1>4
  <1>6. hold.days \in Seq(Int)
    BY <1>2, HoldDaysHas
  <1> HIDE DEF periods, all, hold, LastDays
  <1>7. PlanRequest(p1) /\ PlanRequest(p2) /\ PlanRequest(p3) /\ PlanRequest(p4)
    <2>1. /\ <<"top10_holders", "top10_floatholders">> \in Seq(Texts) /\ <<"hsgt_top10">> \in Seq(Texts)
          /\ <<"hsgt_hold_top10">> \in Seq(Texts) /\ <<"fund_portfolio">> \in Seq(Texts)
      BY OneOf, TwoOf DEF Texts, HoldingsDatasets, HolderDatasets
    <2> QED
      BY <1>5, <1>6, <2>1, WindowParts
  <1>8. p3.datasets = <<"hsgt_hold_top10">> /\ p3.days = hold.days /\ p3.range = <<>>
        /\ p3.stocks = r.stocks /\ p3.exchanges = HoldExchanges
    BY DEF WindowRequest
  <1> HIDE DEF p1, p2, p3, p4, gaps
  <1>9. parts \in Seq({p1, p2, p3, p4}) /\ p3 \in ToSet(parts)
    <2>1. parts \in Seq({p1, p2, p3, p4}) /\ 3 \in DOMAIN parts /\ parts[3] = p3
      OBVIOUS
    <2> QED
      BY <2>1 DEF ToSet
  <1>10. hold.days # <<>> => p3 \in T
    BY <1>8, <1>9
  <1> HIDE DEF parts, T
  <1>11. asked \in Seq({p1, p2, p3, p4} \cap T) /\ (p3 \in T => p3 \in ToSet(asked))
    <2> DEFINE P == {p1, p2, p3, p4}
    <2>1. parts \in Seq(P) /\ p3 \in ToSet(parts)
      BY <1>9
    <2> HIDE DEF P
    <2>2. asked \in Seq(P \cap T) /\ ToSet(asked) = ToSet(parts) \cap T
      BY <2>1, OnlyHas
    <2> QED
      BY <2>1, <2>2 DEF P
  <1> HIDE DEF asked
  <1>12. f \in Seq(Seq(PlanItems)) /\ DOMAIN f = DOMAIN asked
    <2>1. f \in [DOMAIN asked -> Seq(PlanItems)]
      <3>1. \A i \in DOMAIN asked : PlanRequest(asked[i])
        BY <1>7, <1>11, Element
      <3> QED
        BY <3>1, PlanHas
    <2> HIDE DEF f
    <2> QED
      BY <1>11, <2>1, ListOf
  <1>13. items \in Seq(PlanItems) /\ (p3 \in T => ToSet(BuildPlan(p3)) \subseteq ToSet(items))
    <2>1. p3 \in T => \E i \in DOMAIN asked : f[i] = BuildPlan(p3)
      BY <1>11 DEF ToSet
    <2> HIDE DEF f
    <2>2. items \in Seq(PlanItems) /\ ToSet(items) = UNION {ToSet(f[k]) : k \in DOMAIN f}
      BY <1>12, FlattenHas
    <2> QED
      BY <1>12, <2>1, <2>2
  <1> HIDE DEF items
  <1>14. made \in Seq(PlanItems) /\ ToSet(items) \subseteq ToSet(made)
    BY <1>13, LimitedHas
  <1> HIDE DEF made, f
  <1>15. WindowPlan(r).months = months /\ WindowPlan(r).items = made /\ WindowPlan(r).gaps = gaps
    BY <1>1
  <1>16. hold.gaps \subseteq gaps
    BY DEF gaps
  <1>17. NonEmpty(p3.stocks) # <<>>
    <2>1. Len(NonEmpty(r.stocks)) = StockCount /\ StockCount \in Nat \ {0}
      BY HoldingsAssumption DEF HoldingsAssumption, WindowStocksFit
    <2> QED
      BY <1>8, <2>1
  <1>18. ASSUME NEW m \in ToSet(months), NEW x \in ToSet(HoldExchanges), ~(m > MonthOf(LastHoldDay))
         PROVE  \E c \in Texts, d \in Int :
                   /\ PlannedItem("hsgt_hold_top10", d, c, x) \in ToSet(made)
                   /\ MonthOf(d) = m
                   /\ d # MonthEnd(m) => "partial_month_provider_cutoff" \in gaps
    <2>1. PICK d \in ToSet(hold.days) :
             /\ d # 0 /\ d <= LastHoldDay /\ MonthOf(d) = m
             /\ d # MonthEnd(m) => "partial_month_provider_cutoff" \in hold.gaps
      BY <1>2, <1>18, HoldDaysHas DEF hold
    <2>2. hold.days # <<>> /\ d \in Int
      <3>1. d \in Int
        BY <1>6, Elements
      <3> QED
        BY <3>1, <2>1 DEF ToSet
    <2>3. x # Blank
      <3>1. ToSet(HoldExchanges) = {"SH", "SZ"}
        <4>1. "SH" \in {"SH", "SZ"} /\ "SZ" \in {"SH", "SZ"}
          OBVIOUS
        <4> QED
          BY <4>1, TwoOf DEF HoldExchanges
      <3> QED
        BY <3>1, NotBlank
    <2>4. \E c \in Texts : PlannedItem("hsgt_hold_top10", d, c, x) \in ToSet(BuildPlan(p3))
      <3>1. "hsgt_hold_top10" \in ToSet(p3.datasets)
        BY <1>8, OneOf
      <3> QED
        BY <1>7, <1>8, <1>17, <2>1, <2>3, <3>1, PlanHasHolds
    <2> QED
      BY <1>10, <1>13, <1>14, <1>16, <2>1, <2>2, <2>4
  <1>19. ASSUME NEW m \in ToSet(months), m > MonthOf(LastHoldDay)
         PROVE  "post_publication_cutoff" \in gaps
    BY <1>2, <1>16, <1>19, HoldDaysHas DEF hold
  <1> QED
    BY <1>14, <1>15, <1>18, <1>19

-----------------------------------------------------------------------------
(* Holdings: what the commands keep                                        *)

\* The rows that answer a call, and those of them a set of rows has, in the service's order.
Fits(n, item, piece) ==
    /\ ServiceRows[n].dataset = item.dataset /\ ServiceRows[n].day = item.fetchDay
    /\ piece.code \in {Blank, ServiceRows[n].code}
    /\ piece.leg \in {Blank, ServiceRows[n].leg}

Found(item, piece, rows) == Only([n \in DOMAIN ServiceRows |-> n], {n \in rows : Fits(n, item, piece)})

HoldingsWindows ==
    {<<>>} \cup {<<WindowPlan(r)>> : r \in {q \in WindowRequests : WindowStocksFit(q.stocks)}}

HoldingsCommands ==
    [pc : {"idle", "fetch", "write", "skip", "done"}, items : Seq(HoldingsItems), at : Nat, piece : Nat,
     offset : Nat, got : SUBSET DOMAIN ServiceRows, tries : Nat, steady : SUBSET DOMAIN ServiceRows,
     withdrawn : BOOLEAN, exit : {"none", "ok", "failed", "planned", "rejected"},
     window : HoldingsWindows]

Artifacts ==
    [dataset : {i.dataset : i \in HoldingsItems}, day : {i.day : i \in HoldingsItems},
     scope : {ScopeOf(i) : i \in HoldingsItems}, rows : SUBSET DOMAIN ServiceRows,
     missed : SUBSET DOMAIN ServiceRows, withdrawn : BOOLEAN]

\* The artifact of an item is there.
ListedIn(arts, item) ==
    \E k \in DOMAIN arts : /\ arts[k].dataset = item.dataset /\ arts[k].day = item.day
                           /\ arts[k].scope = ScopeOf(item)

ItemDone(arts, item) ==
    item.status = "planned" /\ item.dataset \in HolderDatasets => ListedIn(arts, item)

\* The steady rows of the calls that were answered are there, and those of the
\* call under way are there or still to come.
InOrder(c, item, rows) ==
    /\ c.steady \subseteq rows
    /\ \A n \in c.steady : \E k \in DOMAIN Pieces(item) : Fits(n, item, Pieces(item)[k])
    /\ \A n \in c.steady, k \in 1..(c.piece - 1) : Fits(n, item, Pieces(item)[k]) => n \in c.got
    /\ \A j \in DOMAIN Found(item, Pieces(item)[c.piece], rows) :
          Found(item, Pieces(item)[c.piece], rows)[j] \in c.steady =>
             j > c.offset \/ Found(item, Pieces(item)[c.piece], rows)[j] \in c.got

FetchSound(c, item, rows) ==
    /\ c.piece \in DOMAIN Pieces(item)
    /\ c.withdrawn \/ InOrder(c, item, rows)

CommandSound(c, arts, rows) ==
    /\ c.pc # "done" => c.exit = "none"
    /\ c.exit = "ok" => \A i \in DOMAIN c.items : ItemDone(arts, c.items[i])
    /\ c.window # <<>> => c.items = c.window[1].items
    /\ c.pc \in {"fetch", "write", "skip"} =>
          /\ c.at \in DOMAIN c.items
          /\ (c.pc = "skip") = (c.items[c.at].status # "planned")
          /\ \A i \in 1..(c.at - 1) : ItemDone(arts, c.items[i])
    /\ c.pc \in {"fetch", "write"} =>
          \A n \in c.got : \E k \in DOMAIN Pieces(c.items[c.at]) : Fits(n, c.items[c.at], Pieces(c.items[c.at])[k])
    /\ c.pc = "fetch" => FetchSound(c, c.items[c.at], rows)
    /\ c.pc = "write" => c.withdrawn \/ c.steady \subseteq c.got

\* An artifact has the rows it should, and that of a backfill item of the holder
\* tables is of one code.
ArtifactSound(a) ==
    /\ a.withdrawn \/ a.missed = {}
    /\ a.scope.path \in {"asset", "backfill"}
    /\ (a.scope.path = "backfill" /\ a.dataset \in HolderDatasets) =>
          \E c \in Codes : /\ a.scope = [path |-> "backfill", day |-> a.day, codes |-> <<c>>, leg |-> Blank]
                           /\ \A n \in a.rows : ServiceRows[n].code = c

\* The commands are what they can be, and each has read and written what it
\* should so far.
HoldingsInv ==
    /\ holding \in [HoldingsProcs -> HoldingsCommands]
    /\ zone \in Seq(Artifacts) /\ service \subseteq DOMAIN ServiceRows
    /\ \A k \in DOMAIN zone : ArtifactSound(zone[k])
    /\ \A p \in HoldingsProcs : CommandSound(holding[p], zone, service)

Ascending(s) == \A i, j \in DOMAIN s : i < j => s[i] < s[j]

\* Some of the first numbers, in their order.
LEMMA OnlyAscends ==
    ASSUME NEW N \in Nat, NEW T
    PROVE  Ascending(Only([k \in 1..N |-> k], T))
  <1> DEFINE s == [k \in 1..N |-> k]
             ss == [k \in DOMAIN s |-> IF s[k] \in T THEN <<s[k]>> ELSE <<>>]
             Good(w, k) == w \in Seq(1..k) /\ Ascending(w)
  <1>1. DOMAIN s = 1..N /\ Only(s, T) = FlattenSeq(ss) /\ DOMAIN ss = 1..N /\ Len(ss) = N
    BY DEF Only
  <1>2. CASE N = 0
    <2>1. FlattenSeq(ss) = <<>>
      BY <1>1, <1>2 DEF FlattenSeq
    <2> QED
      BY <1>1, <2>1 DEF Ascending
  <1>3. CASE N # 0
    <2>1. \A k \in 1..N : ss[k] = IF k \in T THEN <<k>> ELSE <<>>
      BY <1>1
    <2> HIDE DEF ss, s
    <2>2. PICK f : /\ f = [i \in 1..N |-> IF i = 1 THEN ss[i] ELSE f[i - 1] \o ss[i]]
                   /\ FlattenSeq(ss) = f[N]
      BY <1>1, <1>3, FlattenIs
    <2> DEFINE A == {k \in 0..N : k = 0 \/ Good(f[k], k)}
    <2>3. 0 \in A
      OBVIOUS
    <2>4. ASSUME NEW k \in 1..N, k - 1 \in A PROVE k \in A
      <3>1. ss[k] \in Seq(1..k) /\ (ss[k] = <<k>> \/ ss[k] = <<>>)
        <4>1. <<k>> \in Seq(1..k) /\ <<>> \in Seq(1..k)
          BY OneOf
        <4>2. ss[k] = <<k>> \/ ss[k] = <<>>
          BY <2>1
        <4> QED
          BY <4>1, <4>2
      <3>2. CASE k = 1
        <4>1. f[k] = ss[k]
          BY <2>2, <3>2
        <4>2. Ascending(f[k])
          BY <3>1, <4>1 DEF Ascending
        <4> QED
          BY <3>1, <4>1, <4>2
      <3>3. CASE k # 1
        <4> DEFINE a == f[k - 1]
        <4>1. f[k] = a \o ss[k]
          BY <2>2, <3>3
        <4>2. a \in Seq(1..(k - 1)) /\ Ascending(a)
          BY <2>4, <3>3
        <4> HIDE DEF a
        <4>3. a \in Seq(1..k)
          <5>1. 1..(k - 1) \subseteq 1..k
            OBVIOUS
          <5> QED
            BY <4>2, <5>1, SeqMonotonic
        <4>4. CASE ss[k] = <<>>
          <5>1. f[k] = a
            BY <4>1, <4>3, <4>4
          <5> QED
            BY <4>2, <4>3, <5>1
        <4>5. CASE ss[k] = <<k>>
          <5> DEFINE b == a \o <<k>>
          <5>1. /\ b \in Seq(1..k) /\ Len(b) = Len(a) + 1 /\ Len(a) \in Nat
                /\ \A i \in 1..Len(a) : b[i] = a[i]
                /\ b[Len(a) + 1] = k
            <6>1. <<k>> \in Seq(1..k) /\ Len(<<k>>) = 1 /\ <<k>>[1] = k
              OBVIOUS
            <6> QED
              BY <4>3, <6>1, ConcatProperties
          <5>2. DOMAIN b = 1..(Len(a) + 1) /\ DOMAIN a = 1..Len(a)
            BY <4>3, <5>1
          <5> HIDE DEF b
          <5>3. ASSUME NEW i \in DOMAIN b, NEW j \in DOMAIN b, i < j PROVE b[i] < b[j]
            <6>1. i \in 1..Len(a) /\ b[i] = a[i] /\ a[i] \in 1..(k - 1)
              BY <4>2, <5>1, <5>2, <5>3, Element
            <6>2. CASE j \in 1..Len(a)
              BY <4>2, <5>1, <5>2, <5>3, <6>1, <6>2 DEF Ascending
            <6>3. CASE j \notin 1..Len(a)
              <7>1. j = Len(a) + 1
                BY <5>1, <5>2, <6>3
              <7> QED
                BY <5>1, <6>1, <7>1
            <6> QED
              BY <6>2, <6>3
          <5>4. Ascending(b)
            BY <5>3 DEF Ascending
          <5>5. f[k] = b
            BY <4>1, <4>5 DEF b
          <5>6. Good(f[k], k)
            BY <5>1, <5>4, <5>5
          <5> HIDE DEF Good
          <5> QED
            BY <5>6
        <4> QED
          BY <3>1, <4>4, <4>5
      <3> QED
        BY <3>2, <3>3
    <2>5. N \in A
      <3> HIDE DEF A
      <3>1. \A k \in 0..N : k \in A
        BY <2>3, <2>4, UpTo
      <3> QED
        BY <3>1
    <2>6. Ascending(f[N])
      BY <1>3, <2>5
    <2> QED
      BY <1>1, <2>2, <2>6 DEF s
  <1> QED
    BY <1>2, <1>3

\* With more rows, a row stands no earlier.
LEMMA PositionGrows ==
    ASSUME NEW a \in Seq(Nat), NEW b \in Seq(Nat), Ascending(a), Ascending(b), ToSet(a) \subseteq ToSet(b),
           NEW i \in DOMAIN a, NEW j \in DOMAIN b, a[i] = b[j]
    PROVE  i <= j
  <1> DEFINE n == Len(a)
             m == Len(b)
             A == {k \in 0..n : \A l \in 1..m : k # 0 /\ a[k] = b[l] => k <= l}
  <1>1. n \in Nat /\ m \in Nat /\ DOMAIN a = 1..n /\ DOMAIN b = 1..m
    OBVIOUS
  <1>2. \A k \in 1..n : a[k] \in Nat
    OBVIOUS
  <1>3. \A k \in 1..m : b[k] \in Nat
    OBVIOUS
  <1> HIDE DEF n, m
  <1>4. 0 \in A
    BY <1>1
  <1>5. ASSUME NEW k \in 1..n, k - 1 \in A PROVE k \in A
    <2>1. ASSUME NEW l \in 1..m, a[k] = b[l] PROVE k <= l
      <3>1. CASE k = 1
        BY <3>1
      <3>2. CASE k # 1
        <4>1. k - 1 \in 1..n /\ a[k - 1] < a[k]
          <5>1. k - 1 \in DOMAIN a /\ k \in DOMAIN a /\ k - 1 < k
            BY <1>1, <3>2
          <5> QED
            BY <1>1, <5>1 DEF Ascending
        <4>2. PICK h \in 1..m : a[k - 1] = b[h]
          <5>1. a[k - 1] \in ToSet(a)
            BY <1>1, <4>1 DEF ToSet
          <5> QED
            BY <1>1, <5>1 DEF ToSet
        <4>3. k - 1 <= h
          BY <1>5, <3>2, <4>2
        <4>4. ~(l <= h)
          <5>1. l < h => b[l] < b[h]
            BY <1>1 DEF Ascending
          <5> QED
            BY <1>3, <2>1, <4>1, <4>2, <5>1
        <4> QED
          BY <4>3, <4>4
      <3> QED
        BY <3>1, <3>2
    <2> QED
      BY <2>1
  <1>6. i \in A
    <2> HIDE DEF A
    <2>1. \A k \in 0..n : k \in A
      BY <1>1, <1>4, <1>5, UpTo
    <2> QED
      BY <1>1, <2>1
  <1> QED
    BY <1>1, <1>6

\* The answer to a call: the fitting rows, in their order.
LEMMA FoundHas ==
    ASSUME NEW item, NEW piece, NEW rows \in SUBSET DOMAIN ServiceRows
    PROVE  /\ Found(item, piece, rows) \in Seq(DOMAIN ServiceRows) /\ Found(item, piece, rows) \in Seq(Nat)
           /\ ToSet(Found(item, piece, rows)) = {n \in rows : Fits(n, item, piece)}
           /\ Ascending(Found(item, piece, rows))
  <1> DEFINE N == Len(ServiceRows)
             s == [n \in DOMAIN ServiceRows |-> n]
             T == {n \in rows : Fits(n, item, piece)}
             o == Only(s, T)
  <1>1. DOMAIN ServiceRows = 1..N /\ N \in Nat
    BY HoldingsAssumption DEF HoldingsAssumption
  <1>2. Found(item, piece, rows) = o
    BY DEF Found
  <1> HIDE DEF N
  <1>3. s \in Seq(1..N) /\ ToSet(s) = 1..N /\ s = [n \in 1..N |-> n]
    <2>1. s \in [1..N -> 1..N] /\ DOMAIN s = 1..N
      BY <1>1
    <2>2. s \in Seq(1..N)
      BY <1>1, <2>1, SeqDef
    <2> QED
      BY <1>1, <2>1, <2>2 DEF ToSet
  <1>4. T \subseteq 1..N
    BY <1>1
  <1> DEFINE R == 1..N
  <1> HIDE DEF T, s, R
  <1>5. o \in Seq(R \cap T) /\ ToSet(o) = R \cap T
    <2>1. s \in Seq(R)
      BY <1>3 DEF R
    <2> HIDE DEF o
    <2>2. o = Only(s, T)
      BY DEF o
    <2>3. Only(s, T) \in Seq(R \cap T) /\ ToSet(Only(s, T)) = R \cap T
      <3>1. ToSet(s) = R
        BY <1>3 DEF R
      <3>2. Only(s, T) \in Seq(R \cap T) /\ ToSet(Only(s, T)) = ToSet(s) \cap T
        BY ONLY <2>1, OnlyHas, Zenon
      <3> QED
        BY <3>1, <3>2
    <2> QED
      BY <2>2, <2>3
  <1>6. Ascending(o)
    BY <1>1, <1>3, OnlyAscends
  <1>7. R \cap T = T /\ T \subseteq R /\ R \subseteq Nat
    <2>1. R \subseteq Nat
      BY <1>1 DEF R
    <2>2. T \subseteq R
      BY <1>4 DEF R
    <2> QED
      BY <2>1, <2>2
  <1> HIDE DEF o
  <1>8. o \in Seq(R) /\ o \in Seq(Nat)
    <2>1. o \in Seq(R)
      BY <1>5, <1>7, SeqMonotonic
    <2> QED
      BY <1>7, <2>1, SeqMonotonic
  <1> QED
    BY <1>1, <1>2, <1>5, <1>6, <1>7, <1>8 DEF T, R

\* The smaller of two numbers is one of them.
LEMMA LeastOfTwo ==
    ASSUME NEW a \in Int, NEW b \in Int
    PROVE  Min({a, b}) \in {a, b} /\ Min({a, b}) <= a /\ Min({a, b}) <= b
  <1>1. \E x \in {a, b} : \A y \in {a, b} : x <= y
    <2>1. CASE a <= b
      BY <2>1
    <2>2. CASE b <= a
      BY <2>2
    <2> QED
      BY <2>1, <2>2
  <1> QED
    BY <1>1 DEF Min

\* A page has what follows the offset, as far as it goes.
LEMMA PageHas ==
    ASSUME NEW S, NEW found \in Seq(S), NEW offset \in Nat
    PROVE  LET page == SubSeq(found, offset + 1, Min({offset + PageLimit, Len(found)}))
           IN  /\ page \in Seq(S) /\ ToSet(page) \subseteq ToSet(found)
               /\ \A j \in DOMAIN found : j > offset => found[j] \in ToSet(page) \/ j > offset + Len(page)
               /\ Len(page) < PageLimit =>
                     \A j \in DOMAIN found : j > offset => found[j] \in ToSet(page)
  <1> DEFINE n == Len(found)
             e == Min({offset + PageLimit, n})
             page == SubSeq(found, offset + 1, e)
  <1>1. n \in Nat /\ DOMAIN found = 1..n /\ PageLimit \in Nat /\ PageLimit > 0
    BY HoldingsAssumption DEF HoldingsAssumption
  <1>2. e \in {offset + PageLimit, n} /\ e <= offset + PageLimit /\ e <= n /\ e \in Int
    <2> HIDE DEF n
    <2>1. offset + PageLimit \in Int /\ n \in Int
      BY <1>1
    <2> QED
      BY <2>1, LeastOfTwo
  <1> HIDE DEF e
  <1>3. CASE e < offset
    <2>1. page = <<>>
      BY <1>2, <1>3, SubSeqEmpty
    <2>2. e = n
      <3> HIDE DEF n
      <3> QED
        BY <1>1, <1>2, <1>3
    <2>3. ToSet(<<>>) = {} /\ <<>> \in Seq(S) /\ Len(<<>>) = 0
      BY DEF ToSet
    <2> HIDE DEF page, n
    <2>4. ~ \E j \in DOMAIN found : j > offset
      BY <1>1, <1>3, <2>2
    <2>5. /\ page \in Seq(S) /\ ToSet(page) \subseteq ToSet(found)
          /\ \A j \in DOMAIN found : ~(j > offset)
      BY <2>1, <2>3, <2>4
    <2> QED
      BY <2>5 DEF page, n, e
  <1>4. CASE e >= offset
    <2>1. /\ page \in Seq(S) /\ Len(page) = e - offset
          /\ \A i \in 1..(e - offset) : page[i] = found[offset + i]
      <3> HIDE DEF n
      <3>1. offset + 1 \in 1..(n + 1) /\ e \in (offset + 1) - 1..n
        BY <1>1, <1>2, <1>4
      <3>2. /\ page \in Seq(S) /\ Len(page) = e - (offset + 1) + 1
            /\ \A i \in 1..(e - (offset + 1) + 1) : page[i] = found[(offset + 1) + i - 1]
        BY <3>1, SubSeqProperties DEF n
      <3>3. e - (offset + 1) + 1 = e - offset /\ \A i \in Int : (offset + 1) + i - 1 = offset + i
        BY <1>2
      <3> HIDE DEF page
      <3> QED
        BY <3>2, <3>3
    <2> HIDE DEF n
    <2>2. DOMAIN page = 1..(e - offset)
      BY <1>2, <1>4, <2>1
    <2> HIDE DEF page
    <2>3. ASSUME NEW x \in ToSet(page) PROVE x \in ToSet(found)
      <3>1. PICK i \in 1..(e - offset) : x = page[i]
        BY <2>2, <2>3 DEF ToSet
      <3>2. x = found[offset + i] /\ offset + i \in DOMAIN found
        BY <1>1, <1>2, <2>1, <3>1
      <3> QED
        BY <3>2 DEF ToSet
    <2>4. ASSUME NEW j \in DOMAIN found, j > offset, j <= e PROVE found[j] \in ToSet(page)
      <3>1. j - offset \in 1..(e - offset) /\ offset + (j - offset) = j
        BY <1>1, <1>2, <2>4
      <3>2. page[j - offset] = found[j]
        BY <2>1, <3>1
      <3> QED
        BY <2>2, <3>1, <3>2 DEF ToSet
    <2>5. \A j \in DOMAIN found : j <= e \/ j > offset + Len(page)
      BY <1>1, <1>2, <2>1
    <2>6. Len(page) < PageLimit => e = n
      BY <1>1, <1>2, <2>1
    <2>7. \A j \in DOMAIN found : j <= n
      BY <1>1
    <2>8. /\ page \in Seq(S) /\ ToSet(page) \subseteq ToSet(found)
          /\ \A j \in DOMAIN found : j > offset => found[j] \in ToSet(page) \/ j > offset + Len(page)
          /\ Len(page) < PageLimit =>
                \A j \in DOMAIN found : j > offset => found[j] \in ToSet(page)
      BY <2>1, <2>3, <2>4, <2>5, <2>6, <2>7
    <2> QED
      BY <2>8 DEF page, n, e
  <1>5. e < offset \/ e >= offset
    BY <1>2
  <1> HIDE DEF n, page
  <1> QED
    BY <1>3, <1>4, <1>5

\* An item has at least one call.
LEMMA PiecesHas ==
    ASSUME NEW item, NEW S, item.codes \in Seq(S)
    PROVE  /\ Len(Pieces(item)) \in Nat \ {0} /\ DOMAIN Pieces(item) = 1..Len(Pieces(item))
           /\ Len(item.codes) = 1 /\ item.dataset # "hsgt_hold_top10" =>
                 Pieces(item) = <<[code |-> item.codes[1], leg |-> item.leg]>>
  <1> DEFINE code == IF item.codes = <<>> THEN Blank ELSE item.codes[1]
             many == [k \in DOMAIN item.codes |-> [code |-> item.codes[k], leg |-> item.leg]]
             legs == [k \in DOMAIN HoldExchanges |-> [code |-> code, leg |-> HoldExchanges[k]]]
             one == <<[code |-> code, leg |-> item.leg]>>
  <1>1. Pieces(item) = IF Len(item.codes) > 1 THEN many
                       ELSE IF item.dataset = "hsgt_hold_top10" /\ item.leg = Blank THEN legs ELSE one
    BY DEF Pieces
  <1>2. DOMAIN item.codes = 1..Len(item.codes) /\ Len(item.codes) \in Nat
    OBVIOUS
  <1>3. Len(one) = 1 /\ DOMAIN one = 1..1
    OBVIOUS
  <1>4. Len(legs) = 2 /\ DOMAIN legs = 1..2
    <2>1. HoldExchanges \in Seq({"SH", "SZ"}) /\ DOMAIN HoldExchanges = 1..2
      BY DEF HoldExchanges
    <2> DEFINE R == {legs[k] : k \in DOMAIN legs}
    <2>2. legs \in [DOMAIN HoldExchanges -> R]
      OBVIOUS
    <2> HIDE DEF legs, R
    <2>3. legs \in Seq(R) /\ DOMAIN legs = DOMAIN HoldExchanges
      BY <2>1, <2>2, ListOf
    <2> QED
      BY <2>1, <2>3
  <1>5. Len(many) = Len(item.codes) /\ DOMAIN many = DOMAIN item.codes
    <2> DEFINE R == {many[k] : k \in DOMAIN many}
    <2>2. many \in [DOMAIN item.codes -> R]
      OBVIOUS
    <2> HIDE DEF many, R
    <2>3. many \in Seq(R) /\ DOMAIN many = DOMAIN item.codes
      BY <2>2, ListOf
    <2> QED
      BY <1>2, <2>3
  <1>6. Len(item.codes) = 1 => code = item.codes[1]
    <2>1. Len(<<>>) = 0
      OBVIOUS
    <2>2. Len(item.codes) = 1 => item.codes # <<>>
      BY <2>1
    <2> QED
      BY <2>2
  <1> HIDE DEF many, legs, one
  <1>7. Len(Pieces(item)) \in Nat \ {0} /\ DOMAIN Pieces(item) = 1..Len(Pieces(item))
    <2> DEFINE Good(x) == Len(x) \in Nat \ {0} /\ DOMAIN x = 1..Len(x)
    <2>1. CASE Len(item.codes) > 1
      <3>1. Good(many)
        BY <1>2, <1>5, <2>1
      <3>2. Pieces(item) = many
        BY <1>1, <2>1
      <3> HIDE DEF Good
      <3>3. Good(Pieces(item))
        BY <3>1, <3>2
      <3> QED
        BY <3>3 DEF Good
    <2>2. CASE ~(Len(item.codes) > 1)
      <3>1. Good(legs) /\ Good(one)
        BY <1>3, <1>4
      <3>2. Pieces(item) = legs \/ Pieces(item) = one
        BY <1>1, <2>2
      <3> HIDE DEF Good
      <3>3. Good(Pieces(item))
        BY <3>1, <3>2
      <3> QED
        BY <3>3 DEF Good
    <2> QED
      BY <2>1, <2>2
  <1>8. Len(item.codes) = 1 /\ item.dataset # "hsgt_hold_top10" => Pieces(item) = one
    BY <1>1
  <1> QED
    BY <1>6, <1>7, <1>8 DEF one

\* What a planned item of a backfill is made of.
LEMMA PlannedHas ==
    ASSUME NEW i \in PlanItems, i.status = "planned"
    PROVE  /\ i.dataset \in HoldingsDatasets /\ i.day \in Int /\ i.fetchDay = i.day /\ i.path = "backfill"
           /\ \E c \in Codes : i.codes = <<c>>
           /\ i.dataset \in HolderDatasets => i.leg = Blank
           /\ i.dataset = "hsgt_hold_top10" => i.day <= LastHoldDay
  <1>1. ASSUME i \in Notes PROVE FALSE
    <2> DEFINE K == Texts \X Int \X Reasons \X {"skipped", "rejected"}
    <2>1. \A x \in K : x[4] \in {"skipped", "rejected"}
      OBVIOUS
    <2>2. PICK x \in K : i = NotedItem(x[1], x[4], x[2], x[3])
      BY <1>1 DEF Notes
    <2> HIDE DEF K
    <2>3. i.status = x[4]
      BY <2>2 DEF NotedItem
    <2> QED
      BY <2>1, <2>3
  <1>2. PICK x \in PlanKeys : i = PlannedItem(x[1], x[2], x[3], x[4])
    BY <1>1 DEF PlanItems
  <1>3. /\ x[1] \in HoldingsDatasets /\ x[2] \in Int /\ x[3] \in Codes
        /\ x[1] \in HolderDatasets => x[4] = Blank
        /\ x[1] = "hsgt_hold_top10" => x[2] <= LastHoldDay
    BY DEF PlanKeys
  <1>4. /\ i.dataset = x[1] /\ i.day = x[2] /\ i.fetchDay = x[2] /\ i.path = "backfill"
        /\ i.codes = <<x[3]>> /\ i.leg = x[4]
    BY <1>2 DEF PlannedItem
  <1> QED
    BY <1>3, <1>4

\* An item has a list of codes, and comes from a plan or from an asset.
LEMMA ItemHas ==
    ASSUME NEW i \in HoldingsItems
    PROVE  /\ \E S : i.codes \in Seq(S)
           /\ i.path \in {"asset", "backfill"}
           /\ i.path = "backfill" => i \in PlanItems
  <1>1. CASE i \in AssetItems
    <2>1. PICK r \in AssetRequests :
             i = [PlannedItem(r.dataset, r.day, Blank, r.leg) EXCEPT !.codes = r.codes, !.path = "asset"]
      BY <1>1 DEF AssetItems
    <2>2. i.codes = r.codes /\ i.path = "asset"
      BY <2>1 DEF PlannedItem
    <2>3. r.codes \in Seq(STRING)
      BY HoldingsAssumption, Zenon DEF HoldingsAssumption
    <2>4. i.codes \in Seq(STRING)
      BY <2>2, <2>3
    <2>5. \E S : i.codes \in Seq(S)
      BY <2>4, Zenon
    <2> QED
      BY <2>2, <2>5
  <1>2. CASE i \in Notes
    <2>1. PICK x \in Texts \X Int \X Reasons \X {"skipped", "rejected"} : i = NotedItem(x[1], x[4], x[2], x[3])
      BY <1>2 DEF Notes
    <2>2. i.codes = <<>> /\ i.path = "backfill"
      BY <2>1 DEF NotedItem
    <2>3. i.codes \in Seq(Int)
      BY <2>2
    <2> QED
      BY <1>2, <2>2, <2>3 DEF PlanItems
  <1>3. CASE i \in PlanItems /\ i \notin Notes
    <2>1. PICK x \in PlanKeys : i = PlannedItem(x[1], x[2], x[3], x[4])
      BY <1>3 DEF PlanItems
    <2>2. i.codes = <<x[3]>> /\ i.path = "backfill"
      BY <2>1 DEF PlannedItem
    <2>3. i.codes \in Seq(Codes)
      BY <2>2, OneOf DEF PlanKeys
    <2> QED
      BY <1>3, <2>2, <2>3
  <1> QED
    BY <1>1, <1>2, <1>3 DEF HoldingsItems, PlanItems

\* The item of an asset request is an item a command may have.
LEMMA AssetIn ==
    ASSUME NEW r \in AssetRequests
    PROVE  [PlannedItem(r.dataset, r.day, Blank, r.leg) EXCEPT !.codes = r.codes, !.path = "asset"] \in HoldingsItems
  BY DEF HoldingsItems, AssetItems

\* The rows of an item, by its calls.
LEMMA AnswerHas ==
    ASSUME NEW item, service \subseteq DOMAIN ServiceRows
    PROVE  /\ \A piece : RowsFor(item, piece) = Found(item, piece, service)
           /\ AnsweredRows(item) \subseteq service
           /\ \A n \in AnsweredRows(item) : \E k \in DOMAIN Pieces(item) : Fits(n, item, Pieces(item)[k])
  <1>1. \A piece : RowsFor(item, piece) = Found(item, piece, service)
    BY DEF RowsFor, Found, Fits
  <1>2. \A piece : ToSet(Found(item, piece, service)) = {n \in service : Fits(n, item, piece)}
    BY FoundHas
  <1>3. AnsweredRows(item) = UNION {ToSet(RowsFor(item, Pieces(item)[k])) : k \in DOMAIN Pieces(item)}
    BY DEF AnsweredRows
  <1>4. ASSUME NEW n \in AnsweredRows(item)
        PROVE  n \in service /\ \E k \in DOMAIN Pieces(item) : Fits(n, item, Pieces(item)[k])
    <2>1. PICK k \in DOMAIN Pieces(item) : n \in ToSet(RowsFor(item, Pieces(item)[k]))
      BY <1>3, <1>4
    <2>2. n \in {m \in service : Fits(m, item, Pieces(item)[k])}
      BY <1>1, <1>2, <2>1
    <2> QED
      BY <2>2
  <1> QED
    BY <1>1, <1>4

\* The command of an idle process is a command with nothing to do.
LEMMA IdleHas == NoAsset \in HoldingsCommands /\ NoAsset.pc = "idle" /\ NoAsset.exit = "none" /\ NoAsset.window = <<>>
                 /\ NoAsset.items = <<>>
  <1>1. <<>> \in Seq(HoldingsItems)
    OBVIOUS
  <1> QED
    BY <1>1 DEF NoAsset, HoldingsCommands, HoldingsWindows

\* A command that has ended.
LEMMA EndedHas ==
    ASSUME NEW c, c.items \in Seq(HoldingsItems), c.window \in HoldingsWindows,
           NEW exit \in {"ok", "failed", "planned", "rejected"}
    PROVE  /\ CommandEnded(c, exit) \in HoldingsCommands
           /\ CommandEnded(c, exit).pc = "done" /\ CommandEnded(c, exit).exit = exit
           /\ CommandEnded(c, exit).items = c.items /\ CommandEnded(c, exit).window = c.window
  <1>1. NoAsset \in HoldingsCommands
    BY IdleHas
  <1> QED
    BY <1>1 DEF CommandEnded, HoldingsCommands

\* So is the command of a process that failed.
LEMMA FailedHas == Failed \in HoldingsCommands /\ Failed.pc = "done" /\ Failed.exit = "failed" /\ Failed.window = <<>>
  <1>1. NoAsset.items \in Seq(HoldingsItems) /\ NoAsset.window \in HoldingsWindows /\ NoAsset.window = <<>>
    BY IdleHas DEF HoldingsCommands
  <1>2. "failed" \in {"ok", "failed", "planned", "rejected"}
    OBVIOUS
  <1> QED
    BY <1>1, <1>2, EndedHas DEF Failed

\* A command that goes on with item k.
LEMMA GoOnHas ==
    ASSUME NEW c \in HoldingsCommands, NEW k \in Nat \ {0}, service \subseteq DOMAIN ServiceRows
    PROVE  /\ GoOn(c, k) \in HoldingsCommands
           /\ k > Len(c.items) => GoOn(c, k) = CommandEnded(c, "ok")
           /\ k <= Len(c.items) =>
                 /\ GoOn(c, k).pc = (IF c.items[k].status = "planned" THEN "fetch" ELSE "skip")
                 /\ GoOn(c, k).steady = (IF c.items[k].status = "planned" THEN AnsweredRows(c.items[k]) ELSE {})
                 /\ GoOn(c, k).items = c.items /\ GoOn(c, k).at = k /\ GoOn(c, k).piece = 1
                 /\ GoOn(c, k).offset = 0 /\ GoOn(c, k).got = {} /\ GoOn(c, k).withdrawn = FALSE
                 /\ GoOn(c, k).exit = c.exit /\ GoOn(c, k).window = c.window
  <1> DEFINE pc == IF c.items[k].status = "planned" THEN "fetch" ELSE "skip"
             steady == IF c.items[k].status = "planned" THEN AnsweredRows(c.items[k]) ELSE {}
             e == [c EXCEPT !.pc = pc, !.at = k, !.piece = 1, !.offset = 0, !.got = {}, !.tries = 0,
                            !.withdrawn = FALSE, !.steady = steady]
  <1>1. /\ c.items \in Seq(HoldingsItems) /\ c.window \in HoldingsWindows
        /\ c.exit \in {"none", "ok", "failed", "planned", "rejected"}
    BY DEF HoldingsCommands
  <1>2. Len(c.items) \in Nat
    BY <1>1
  <1>3. CASE k > Len(c.items)
    <2>1. GoOn(c, k) = CommandEnded(c, "ok")
      BY <1>3 DEF GoOn
    <2>2. CommandEnded(c, "ok") \in HoldingsCommands
      BY <1>1, EndedHas
    <2> QED
      BY <1>2, <1>3, <2>1, <2>2
  <1>4. CASE ~(k > Len(c.items))
    <2>1. GoOn(c, k) = e
      BY <1>4 DEF GoOn
    <2>2. steady \subseteq DOMAIN ServiceRows
      BY AnswerHas
    <2>3. pc \in {"idle", "fetch", "write", "skip", "done"}
      OBVIOUS
    <2> HIDE DEF pc, steady
    <2>4. /\ e \in HoldingsCommands
          /\ e.pc = pc /\ e.steady = steady /\ e.items = c.items /\ e.at = k /\ e.piece = 1
          /\ e.offset = 0 /\ e.got = {} /\ e.withdrawn = FALSE /\ e.exit = c.exit /\ e.window = c.window
      BY <2>2, <2>3 DEF HoldingsCommands
    <2> HIDE DEF e
    <2> QED
      BY <1>2, <1>4, <2>1, <2>4 DEF pc, steady
  <1> QED
    BY <1>3, <1>4

\* It is sound if the items before k are done.
LEMMA GoOnSound ==
    ASSUME NEW c \in HoldingsCommands, NEW k \in Nat \ {0}, service \subseteq DOMAIN ServiceRows, NEW arts,
           c.exit = "none", c.window # <<>> => c.items = c.window[1].items, k <= Len(c.items) + 1,
           \A i \in 1..(k - 1) : ItemDone(arts, c.items[i])
    PROVE  CommandSound(GoOn(c, k), arts, service)
  <1> DEFINE d == GoOn(c, k)
             item == c.items[k]
  <1>1. c.items \in Seq(HoldingsItems) /\ c.window \in HoldingsWindows
    BY DEF HoldingsCommands
  <1>2. Len(c.items) \in Nat /\ DOMAIN c.items = 1..Len(c.items)
    BY <1>1
  <1>3. CASE k > Len(c.items)
    <2>1. d = CommandEnded(c, "ok")
      BY <1>3, GoOnHas
    <2>2. d.pc = "done" /\ d.exit = "ok" /\ d.items = c.items /\ d.window = c.window
      BY <1>1, <2>1, EndedHas
    <2>3. k - 1 = Len(c.items)
      BY <1>2, <1>3
    <2>4. \A i \in DOMAIN c.items : ItemDone(arts, c.items[i])
      BY <1>2, <2>3
    <2> HIDE DEF d
    <2> QED
      BY <2>2, <2>4 DEF CommandSound, d
  <1>4. CASE ~(k > Len(c.items))
    <2>1. k <= Len(c.items) /\ k \in DOMAIN c.items
      BY <1>2, <1>4
    <2>2. /\ d.pc = (IF item.status = "planned" THEN "fetch" ELSE "skip")
          /\ d.items = c.items /\ d.at = k /\ d.piece = 1 /\ d.offset = 0 /\ d.got = {}
          /\ d.steady = (IF item.status = "planned" THEN AnsweredRows(item) ELSE {})
          /\ d.withdrawn = FALSE /\ d.exit = "none" /\ d.window = c.window
      BY <2>1, GoOnHas
    <2> HIDE DEF d
    <2>3. item \in HoldingsItems
      BY <1>1, <2>1, Element
    <2> HIDE DEF item
    <2>4. d.items[d.at] = item
      BY <2>2 DEF item
    <2>5. item.status = "planned" => FetchSound(d, item, service)
      <3> SUFFICES ASSUME item.status = "planned" PROVE FetchSound(d, item, service)
        OBVIOUS
      <3>1. 1 \in DOMAIN Pieces(item)
        <4>1. PICK S : item.codes \in Seq(S)
          BY <2>3, ItemHas
        <4>2. Len(Pieces(item)) \in Nat \ {0} /\ DOMAIN Pieces(item) = 1..Len(Pieces(item))
          BY <4>1, PiecesHas
        <4> QED
          BY <4>2
      <3>2. d.steady = AnsweredRows(item)
        BY <2>2
      <3>3. d.steady \subseteq service /\ \A n \in d.steady : \E j \in DOMAIN Pieces(item) : Fits(n, item, Pieces(item)[j])
        BY <3>2, AnswerHas
      <3>4. \A j \in DOMAIN Found(item, Pieces(item)[d.piece], service) : j > d.offset
        <4>1. Found(item, Pieces(item)[d.piece], service) \in Seq(Nat)
          BY FoundHas
        <4> DEFINE f == Found(item, Pieces(item)[d.piece], service)
        <4> HIDE DEF f
        <4>2. DOMAIN f = 1..Len(f)
          BY <4>1 DEF f
        <4>3. \A j \in DOMAIN f : j > 0
          BY <4>2
        <4> QED
          BY <2>2, <4>3 DEF f
      <3>5. 1..(d.piece - 1) = {}
        BY <2>2
      <3>6. InOrder(d, item, service)
        BY <3>3, <3>4, <3>5 DEF InOrder
      <3> QED
        BY <2>2, <3>1, <3>6 DEF FetchSound
    <2>6. \A i \in 1..(d.at - 1) : ItemDone(arts, d.items[i])
      BY <2>2
    <2>7. d.window # <<>> => d.items = d.window[1].items
      BY <2>2
    <2>8. d.at \in DOMAIN d.items
      BY <2>1, <2>2
    <2>9. CASE item.status = "planned"
      <3>1. d.pc = "fetch" /\ FetchSound(d, item, service)
        BY <2>2, <2>5, <2>9
      <3> QED
        BY <2>2, <2>4, <2>6, <2>7, <2>8, <2>9, <3>1 DEF CommandSound, d
    <2>10. CASE item.status # "planned"
      <3>1. d.pc = "skip"
        BY <2>2, <2>10
      <3> QED
        BY <2>2, <2>4, <2>6, <2>7, <2>8, <2>10, <3>1 DEF CommandSound, d
    <2> QED
      BY <2>9, <2>10
  <1> QED
    BY <1>3, <1>4

-----------------------------------------------------------------------------
(* Holdings: one step of a command                                         *)

\* A command that does nothing is sound.
LEMMA RestSound ==
    ASSUME NEW c, NEW arts, NEW rows, c.pc \in {"idle", "done"}, c.exit # "ok", c.pc = "idle" => c.exit = "none",
           c.window # <<>> => c.items = c.window[1].items
    PROVE  CommandSound(c, arts, rows)
  BY DEF CommandSound

\* The steady rows of a command whose service only grew are still to come.
LEMMA InOrderGrows ==
    ASSUME NEW c, NEW item, NEW rows \in SUBSET DOMAIN ServiceRows, NEW more \in SUBSET DOMAIN ServiceRows,
           rows \subseteq more, c.offset \in Nat, InOrder(c, item, rows)
    PROVE  InOrder(c, item, more)
  <1> DEFINE piece == Pieces(item)[c.piece]
             a == Found(item, piece, rows)
             b == Found(item, piece, more)
  <1>1. a \in Seq(Nat) /\ Ascending(a) /\ ToSet(a) = {n \in rows : Fits(n, item, piece)}
    BY FoundHas
  <1>2. b \in Seq(Nat) /\ Ascending(b) /\ ToSet(b) = {n \in more : Fits(n, item, piece)}
    BY FoundHas
  <1>3. \A j \in DOMAIN a : a[j] \in c.steady => j > c.offset \/ a[j] \in c.got
    BY DEF InOrder
  <1>4. c.steady \subseteq rows
    BY DEF InOrder
  <1> HIDE DEF a, b
  <1>5. ASSUME NEW j \in DOMAIN b, b[j] \in c.steady PROVE j > c.offset \/ b[j] \in c.got
    <2>1. b[j] \in ToSet(b)
      BY DEF ToSet
    <2>2. b[j] \in ToSet(a)
      BY <1>1, <1>2, <1>4, <1>5, <2>1
    <2>3. PICK i \in DOMAIN a : a[i] = b[j]
      BY <1>1, <2>2, Elements
    <2>4. ToSet(a) \subseteq ToSet(b)
      BY <1>1, <1>2
    <2>5. i <= j
      BY <1>1, <1>2, <2>3, <2>4, PositionGrows
    <2>6. i \in Nat /\ j \in Nat
      BY <1>1, <1>2
    <2> QED
      BY <1>3, <1>5, <2>3, <2>5, <2>6
  <1> QED
    BY <1>4, <1>5 DEF InOrder, b, piece

\* A new artifact takes nothing from the others.
LEMMA ListedStays ==
    ASSUME NEW S, NEW arts \in Seq(S), NEW a \in S, NEW item, ItemDone(arts, item)
    PROVE  ItemDone(Append(arts, a), item)
  <1>1. /\ Append(arts, a) \in Seq(S) /\ Len(Append(arts, a)) = Len(arts) + 1
        /\ \A i \in 1..Len(arts) : Append(arts, a)[i] = arts[i]
    BY AppendProperties
  <1>2. DOMAIN arts = 1..Len(arts) /\ DOMAIN Append(arts, a) = 1..(Len(arts) + 1) /\ Len(arts) \in Nat
    BY <1>1
  <1>3. ASSUME ListedIn(arts, item) PROVE ListedIn(Append(arts, a), item)
    <2>1. PICK k \in DOMAIN arts : /\ arts[k].dataset = item.dataset /\ arts[k].day = item.day
                                   /\ arts[k].scope = ScopeOf(item)
      BY <1>3 DEF ListedIn
    <2>2. k \in DOMAIN Append(arts, a) /\ Append(arts, a)[k] = arts[k]
      BY <1>1, <1>2
    <2> QED
      BY <2>1, <2>2 DEF ListedIn
  <1> QED
    BY <1>3 DEF ItemDone

\* Another artifact leaves what a command has read as it was.
LEMMA SoundStays ==
    ASSUME NEW S, NEW arts \in Seq(S), NEW a \in S, NEW c \in HoldingsCommands, NEW rows, CommandSound(c, arts, rows)
    PROVE  CommandSound(c, Append(arts, a), rows)
  <1>1. \A item : ItemDone(arts, item) => ItemDone(Append(arts, a), item)
    BY ListedStays
  <1> QED
    BY <1>1 DEF CommandSound

\* What a command under way has to do with its item.
LEMMA UnderWay ==
    ASSUME NEW c \in HoldingsCommands, NEW arts, NEW rows, CommandSound(c, arts, rows),
           c.pc \in {"fetch", "write", "skip"}
    PROVE  /\ c.at \in Nat \ {0} /\ c.at <= Len(c.items) /\ c.items[c.at] \in HoldingsItems
           /\ c.items \in Seq(HoldingsItems) /\ Len(c.items) \in Nat /\ c.exit = "none"
           /\ c.window # <<>> => c.items = c.window[1].items
           /\ \A i \in 1..(c.at - 1) : ItemDone(arts, c.items[i])
           /\ c.pc # "skip" => c.items[c.at].status = "planned"
  <1>1. c.items \in Seq(HoldingsItems)
    BY DEF HoldingsCommands
  <1>2. c.at \in DOMAIN c.items /\ c.pc # "done"
    BY DEF CommandSound
  <1>3. DOMAIN c.items = 1..Len(c.items) /\ Len(c.items) \in Nat
    BY <1>1
  <1>4. c.items[c.at] \in HoldingsItems
    BY <1>1, <1>2, Element
  <1>5. c.at \in Nat \ {0} /\ c.at <= Len(c.items)
    BY <1>2, <1>3
  <1>6. /\ c.exit = "none"
        /\ c.window # <<>> => c.items = c.window[1].items
    BY <1>2 DEF CommandSound
  <1>7. /\ \A i \in 1..(c.at - 1) : ItemDone(arts, c.items[i])
        /\ c.pc # "skip" => c.items[c.at].status = "planned"
    BY DEF CommandSound
  <1> QED
    BY <1>1, <1>3, <1>4, <1>5, <1>6, <1>7

\* The next item of a command whose item is done.
LEMMA NextSound ==
    ASSUME NEW c \in HoldingsCommands, NEW arts, NEW rows, CommandSound(c, arts, rows),
           c.pc \in {"fetch", "write", "skip"}, service \subseteq DOMAIN ServiceRows, NEW more,
           \A item : ItemDone(arts, item) => ItemDone(more, item), ItemDone(more, c.items[c.at])
    PROVE  GoOn(c, c.at + 1) \in HoldingsCommands /\ CommandSound(GoOn(c, c.at + 1), more, service)
  <1>1. /\ c.at \in Nat \ {0} /\ c.at <= Len(c.items) /\ Len(c.items) \in Nat /\ c.exit = "none"
        /\ c.window # <<>> => c.items = c.window[1].items
        /\ \A i \in 1..(c.at - 1) : ItemDone(arts, c.items[i])
    BY UnderWay
  <1> DEFINE k == c.at + 1
  <1>2. k \in Nat \ {0} /\ k <= Len(c.items) + 1
    BY <1>1
  <1>3. \A i \in 1..(k - 1) : ItemDone(more, c.items[i])
    <2>1. \A i \in 1..(k - 1) : i \in 1..(c.at - 1) \/ i = c.at
      BY <1>1
    <2> QED
      BY <1>1, <2>1
  <1> HIDE DEF k
  <1>4. GoOn(c, k) \in HoldingsCommands
    BY <1>2, GoOnHas
  <1>5. CommandSound(GoOn(c, k), more, service)
    BY <1>1, <1>2, <1>3, GoOnSound
  <1> QED
    BY <1>4, <1>5 DEF k

\* The steady rows of a call that has its last page are there.
LEMMA CallEnds ==
    ASSUME NEW c, NEW item, NEW rows \in SUBSET DOMAIN ServiceRows, InOrder(c, item, rows), NEW page,
           \A j \in DOMAIN Found(item, Pieces(item)[c.piece], rows) :
              j > c.offset => Found(item, Pieces(item)[c.piece], rows)[j] \in page
    PROVE  \A n \in c.steady : Fits(n, item, Pieces(item)[c.piece]) => n \in c.got \cup page
  <1> DEFINE f == Found(item, Pieces(item)[c.piece], rows)
  <1>1. f \in Seq(Nat) /\ ToSet(f) = {n \in rows : Fits(n, item, Pieces(item)[c.piece])}
    BY FoundHas
  <1>2. c.steady \subseteq rows /\ \A j \in DOMAIN f : f[j] \in c.steady => j > c.offset \/ f[j] \in c.got
    BY DEF InOrder
  <1>3. \A j \in DOMAIN f : j > c.offset => f[j] \in page
    OBVIOUS
  <1> HIDE DEF f
  <1>4. ASSUME NEW n \in c.steady, Fits(n, item, Pieces(item)[c.piece]) PROVE n \in c.got \cup page
    <2>1. n \in ToSet(f)
      BY <1>1, <1>2, <1>4
    <2>2. PICK j \in DOMAIN f : n = f[j]
      BY <1>1, <2>1, Elements
    <2> QED
      BY <1>2, <1>3, <2>2
  <1> QED
    BY <1>4

\* The page of a call: what the service has past the offset.
PageOf(c, item, rows) ==
    LET found == Found(item, Pieces(item)[c.piece], rows)
    IN  IF item.dataset \in PagedDatasets
        THEN SubSeq(found, c.offset + 1, Min({c.offset + PageLimit, Len(found)})) ELSE found

\* A page has rows of its call only, and all the rows of the answer up to its end.
LEMMA PageOfHas ==
    ASSUME NEW c, c.offset \in Nat, NEW item, NEW rows \in SUBSET DOMAIN ServiceRows
    PROVE  LET found == Found(item, Pieces(item)[c.piece], rows)
               page == PageOf(c, item, rows)
           IN  /\ page \in Seq(DOMAIN ServiceRows) /\ Len(page) \in Nat
               /\ \A n \in ToSet(page) : Fits(n, item, Pieces(item)[c.piece])
               /\ \A j \in DOMAIN found : j > c.offset => found[j] \in ToSet(page) \/ j > c.offset + Len(page)
               /\ item.dataset \notin PagedDatasets \/ Len(page) < PageLimit =>
                     \A j \in DOMAIN found : j > c.offset => found[j] \in ToSet(page)
  <1> DEFINE found == Found(item, Pieces(item)[c.piece], rows)
             page == PageOf(c, item, rows)
             part == SubSeq(found, c.offset + 1, Min({c.offset + PageLimit, Len(found)}))
  <1>1. found \in Seq(DOMAIN ServiceRows) /\ ToSet(found) = {n \in rows : Fits(n, item, Pieces(item)[c.piece])}
    BY FoundHas
  <1>2. page = IF item.dataset \in PagedDatasets THEN part ELSE found
    BY DEF PageOf
  <1> HIDE DEF found, page
  <1>3. /\ part \in Seq(DOMAIN ServiceRows) /\ ToSet(part) \subseteq ToSet(found)
        /\ \A j \in DOMAIN found : j > c.offset => found[j] \in ToSet(part) \/ j > c.offset + Len(part)
        /\ Len(part) < PageLimit => \A j \in DOMAIN found : j > c.offset => found[j] \in ToSet(part)
    BY <1>1, PageHas
  <1>4. \A j \in DOMAIN found : found[j] \in ToSet(found)
    BY DEF ToSet
  <1> HIDE DEF part
  <1>5. /\ page \in Seq(DOMAIN ServiceRows) /\ ToSet(page) \subseteq ToSet(found)
        /\ \A j \in DOMAIN found : j > c.offset => found[j] \in ToSet(page) \/ j > c.offset + Len(page)
        /\ item.dataset \notin PagedDatasets \/ Len(page) < PageLimit =>
              \A j \in DOMAIN found : j > c.offset => found[j] \in ToSet(page)
    <2>1. CASE item.dataset \in PagedDatasets
      BY <1>2, <1>3, <2>1
    <2>2. CASE item.dataset \notin PagedDatasets
      BY <1>1, <1>2, <1>4, <2>2
    <2> QED
      BY <2>1, <2>2
  <1>6. Len(page) \in Nat
    BY <1>5
  <1>7. \A n \in ToSet(page) : Fits(n, item, Pieces(item)[c.piece])
    BY <1>1, <1>5
  <1> QED
    BY <1>5, <1>6, <1>7 DEF found, page

\* A command whose call has answered a page.
LEMMA PageSound ==
    ASSUME NEW c \in HoldingsCommands, NEW arts, NEW rows \in SUBSET DOMAIN ServiceRows, CommandSound(c, arts, rows),
           c.pc = "fetch", NEW item, item = c.items[c.at], NEW page, page = PageOf(c, item, rows),
           NEW ends, ends \in BOOLEAN, ends => item.dataset \notin PagedDatasets \/ Len(page) < PageLimit,
           NEW d, d.items = c.items, d.at = c.at, d.exit = c.exit, d.window = c.window,
           d.withdrawn = c.withdrawn, d.steady = c.steady, d.got = c.got \cup ToSet(page),
           \/ d.pc = "write" /\ ends /\ c.piece = Len(Pieces(item))
           \/ d.pc = "fetch" /\ ends /\ c.piece # Len(Pieces(item)) /\ d.piece = c.piece + 1 /\ d.offset = 0
           \/ d.pc = "fetch" /\ d.piece = c.piece /\ d.offset = c.offset + Len(page)
    PROVE  CommandSound(d, arts, rows)
  <1> DEFINE pieces == Pieces(item)
             now == pieces[c.piece]
             found == Found(item, now, rows)
  <1>1. /\ c.at \in Nat \ {0} /\ c.at <= Len(c.items) /\ item \in HoldingsItems /\ c.exit = "none"
        /\ c.items \in Seq(HoldingsItems)
        /\ c.window # <<>> => c.items = c.window[1].items
        /\ \A i \in 1..(c.at - 1) : ItemDone(arts, c.items[i])
        /\ item.status = "planned"
    BY UnderWay
  <1>2. c.at \in DOMAIN c.items
    BY <1>1
  <1>3. Len(pieces) \in Nat \ {0} /\ DOMAIN pieces = 1..Len(pieces)
    <2>1. PICK S : item.codes \in Seq(S)
      BY <1>1, ItemHas
    <2> QED
      BY <2>1, PiecesHas
  <1>4. c.piece \in DOMAIN pieces /\ c.piece \in Nat /\ c.offset \in Nat
    BY DEF CommandSound, FetchSound, HoldingsCommands
  <1>5. \A n \in c.got : \E k \in DOMAIN pieces : Fits(n, item, pieces[k])
    BY DEF CommandSound
  <1>6. c.withdrawn \/ InOrder(c, item, rows)
    BY DEF CommandSound, FetchSound
  <1>7. /\ Len(page) \in Nat
        /\ \A n \in ToSet(page) : Fits(n, item, now)
        /\ \A j \in DOMAIN found : j > c.offset => found[j] \in ToSet(page) \/ j > c.offset + Len(page)
        /\ ends => \A j \in DOMAIN found : j > c.offset => found[j] \in ToSet(page)
    BY <1>4, PageOfHas
  <1>8. \A n \in d.got : \E k \in DOMAIN pieces : Fits(n, item, pieces[k])
    BY <1>4, <1>5, <1>7
  <1> DEFINE Order == InOrder(c, item, rows)
  <1>9. Order => /\ c.steady \subseteq rows
                 /\ \A n \in c.steady : \E k \in DOMAIN pieces : Fits(n, item, pieces[k])
                 /\ \A n \in c.steady, k \in 1..(c.piece - 1) : Fits(n, item, pieces[k]) => n \in c.got
                 /\ \A j \in DOMAIN found : found[j] \in c.steady => j > c.offset \/ found[j] \in c.got
    BY DEF InOrder
  <1>10. ASSUME Order, ends
         PROVE  \A n \in c.steady, k \in 1..c.piece : Fits(n, item, pieces[k]) => n \in d.got
    <2>1. \A n \in c.steady : Fits(n, item, now) => n \in c.got \cup ToSet(page)
      BY <1>7, <1>10, CallEnds
    <2>2. \A k \in 1..c.piece : k = c.piece \/ k \in 1..(c.piece - 1)
      BY <1>4
    <2> HIDE DEF pieces
    <2> QED
      BY <1>9, <1>10, <2>1, <2>2
  <1>11. /\ d.exit = "none" /\ d.at \in DOMAIN d.items /\ d.items[d.at] = item
         /\ d.window # <<>> => d.items = d.window[1].items
         /\ \A i \in 1..(d.at - 1) : ItemDone(arts, d.items[i])
    BY <1>1, <1>2
  <1>12. CASE d.pc = "write" /\ ends /\ c.piece = Len(pieces)
    <2>1. d.withdrawn \/ d.steady \subseteq d.got
      <3> SUFFICES ASSUME Order, NEW n \in c.steady PROVE n \in d.got
        BY <1>6
      <3>1. PICK k \in DOMAIN pieces : Fits(n, item, pieces[k])
        BY <1>9
      <3> QED
        BY <1>3, <1>10, <1>12, <3>1
    <2> HIDE DEF pieces
    <2> QED
      BY <1>1, <1>8, <1>11, <1>12, <2>1 DEF CommandSound, pieces
  <1>13. ASSUME d.pc = "fetch", d.piece \in DOMAIN pieces, Order => InOrder(d, item, rows)
         PROVE  CommandSound(d, arts, rows)
    <2>1. FetchSound(d, item, rows)
      BY <1>6, <1>13 DEF FetchSound
    <2> HIDE DEF pieces, Order
    <2> QED
      BY <1>1, <1>8, <1>11, <1>13, <2>1 DEF CommandSound, pieces
  <1>14. CASE d.pc = "fetch" /\ ends /\ c.piece # Len(pieces) /\ d.piece = c.piece + 1 /\ d.offset = 0
    <2>1. d.piece \in DOMAIN pieces /\ d.piece - 1 = c.piece
      BY <1>3, <1>4, <1>14
    <2>2. ASSUME Order PROVE InOrder(d, item, rows)
      <3>1. \A j \in DOMAIN Found(item, pieces[d.piece], rows) : j > d.offset
        <4>1. Found(item, pieces[d.piece], rows) \in Seq(Nat)
          BY FoundHas
        <4> DEFINE f == Found(item, pieces[d.piece], rows)
        <4> HIDE DEF f
        <4>2. \A j \in DOMAIN f : j > 0
          BY <4>1 DEF f
        <4> QED
          BY <1>14, <4>2 DEF f
      <3> HIDE DEF pieces
      <3>2. \A n \in d.steady, k \in 1..(d.piece - 1) : Fits(n, item, pieces[k]) => n \in d.got
        BY <1>10, <1>14, <2>1, <2>2
      <3> QED
        BY <1>9, <2>2, <3>1, <3>2 DEF InOrder, pieces
    <2> QED
      BY <1>13, <1>14, <2>1, <2>2
  <1>15. CASE d.pc = "fetch" /\ d.piece = c.piece /\ d.offset = c.offset + Len(page)
    <2>1. ASSUME Order PROVE InOrder(d, item, rows)
      <3>1. \A j \in DOMAIN found : found[j] \in d.steady => j > d.offset \/ found[j] \in d.got
        <4> HIDE DEF found
        <4> QED
          BY <1>7, <1>9, <1>15, <2>1
      <3> HIDE DEF pieces
      <3>2. \A n \in d.steady, k \in 1..(d.piece - 1) : Fits(n, item, pieces[k]) => n \in d.got
        BY <1>9, <1>15, <2>1
      <3> QED
        BY <1>9, <1>15, <2>1, <3>1, <3>2 DEF InOrder, pieces
    <2> QED
      BY <1>4, <1>13, <1>15, <2>1
  <1> QED
    BY <1>12, <1>14, <1>15

\* A plan that has begun.
LEMMA BegunSound ==
    ASSUME NEW r, NEW items \in Seq(HoldingsItems), service \subseteq DOMAIN ServiceRows, NEW arts
    PROVE  Begun(r, items) \in HoldingsCommands /\ CommandSound(Begun(r, items), arts, service)
  <1> DEFINE planned == WithStatus(items, "planned")
             c == [NoAsset EXCEPT !.items = items]
             Good(d) == d \in HoldingsCommands /\ CommandSound(d, arts, service)
  <1>1. /\ c \in HoldingsCommands /\ c.items = items /\ c.window = <<>> /\ c.window \in HoldingsWindows
        /\ c.exit = "none"
    <2>1. NoAsset \in HoldingsCommands /\ NoAsset.exit = "none" /\ NoAsset.window = <<>>
      BY IdleHas
    <2> QED
      BY <2>1 DEF HoldingsCommands
  <1> HIDE DEF c
  <1>2. Good(Failed)
    BY FailedHas, RestSound
  <1>3. \A exit \in {"rejected", "planned"} : Good(CommandEnded(c, exit))
    <2> SUFFICES ASSUME NEW exit \in {"rejected", "planned"} PROVE Good(CommandEnded(c, exit))
      OBVIOUS
    <2> DEFINE d == CommandEnded(c, exit)
    <2>1. d \in HoldingsCommands /\ d.pc = "done" /\ d.exit = exit /\ d.window = <<>>
      BY <1>1, EndedHas
    <2> HIDE DEF d
    <2>2. CommandSound(d, arts, service)
      BY <2>1, RestSound
    <2> QED
      BY <2>1, <2>2 DEF d
  <1>4. Good(GoOn(c, 1))
    <2>0. 1 \in Nat \ {0}
      OBVIOUS
    <2>1. GoOn(c, 1) \in HoldingsCommands
      BY <1>1, <2>0, GoOnHas
    <2>2. Len(c.items) \in Nat
      BY <1>1
    <2>3. \A i \in 1..(1 - 1) : ItemDone(arts, c.items[i])
      OBVIOUS
    <2>4. CommandSound(GoOn(c, 1), arts, service)
      BY <1>1, <2>2, <2>3, GoOnSound
    <2> QED
      BY <2>1, <2>4
  <1>5. \/ Begun(r, items) = Failed
        \/ Begun(r, items) = CommandEnded(c, "rejected")
        \/ Begun(r, items) = CommandEnded(c, "planned")
        \/ Begun(r, items) = GoOn(c, 1)
    BY DEF Begun, c
  <1> HIDE DEF Good
  <1>6. Good(Begun(r, items))
    BY <1>2, <1>3, <1>4, <1>5
  <1> QED
    BY <1>6 DEF Good

\* A window that is printed.
LEMMA WindowSound ==
    ASSUME NEW r \in WindowRequests, WindowStocksFit(r.stocks), NEW arts, NEW rows
    PROVE  WindowEnded(WindowPlan(r)) \in HoldingsCommands /\ CommandSound(WindowEnded(WindowPlan(r)), arts, rows)
  <1> DEFINE w == WindowPlan(r)
             c == [NoAsset EXCEPT !.items = w.items, !.window = <<w>>]
             exit == IF WithStatus(w.items, "rejected") # <<>> THEN "rejected" ELSE "planned"
             d == CommandEnded(c, exit)
  <1>1. w.items \in Seq(HoldingsItems)
    <2>1. w.items \in Seq(PlanItems)
      BY WindowHas
    <2>2. PlanItems \subseteq HoldingsItems
      BY DEF HoldingsItems
    <2> HIDE DEF w
    <2> QED
      BY <2>1, <2>2, SeqMonotonic
  <1>2. <<w>> \in HoldingsWindows
    BY DEF HoldingsWindows
  <1> HIDE DEF w
  <1>3. c.items = w.items /\ c.window = <<w>>
    <2>1. NoAsset \in HoldingsCommands
      BY IdleHas
    <2> QED
      BY <2>1 DEF HoldingsCommands
  <1>4. exit \in {"ok", "failed", "planned", "rejected"} /\ exit # "ok"
    OBVIOUS
  <1> HIDE DEF c, exit
  <1>5. d \in HoldingsCommands /\ d.pc = "done" /\ d.exit = exit /\ d.items = w.items /\ d.window = <<w>>
    BY <1>1, <1>2, <1>3, <1>4, EndedHas
  <1> HIDE DEF d
  <1>6. d.window[1] = w
    BY <1>5
  <1>7. CommandSound(d, arts, rows)
    BY <1>4, <1>5, <1>6, RestSound
  <1>8. WindowEnded(w) = d
    BY DEF WindowEnded, d, c, exit
  <1> QED
    BY <1>5, <1>7, <1>8 DEF w

\* The artifact of an item.
LEMMA ArtifactHas ==
    ASSUME NEW c \in HoldingsCommands, NEW arts \in Seq(Artifacts), NEW rows, CommandSound(c, arts, rows),
           c.pc = "write", NEW item, item = c.items[c.at], NEW a,
           a = [dataset |-> item.dataset, day |-> item.day, scope |-> ScopeOf(item), rows |-> c.got,
                missed |-> c.steady \ c.got, withdrawn |-> c.withdrawn]
    PROVE  a \in Artifacts /\ ArtifactSound(a) /\ ItemDone(Append(arts, a), item)
  <1>1. item \in HoldingsItems /\ item.status = "planned"
    BY UnderWay
  <1>2. c.got \subseteq DOMAIN ServiceRows /\ c.steady \subseteq DOMAIN ServiceRows /\ c.withdrawn \in BOOLEAN
    BY DEF HoldingsCommands
  <1>3. a \in Artifacts
    BY <1>1, <1>2 DEF Artifacts
  <1>4. /\ a.dataset = item.dataset /\ a.day = item.day /\ a.scope = ScopeOf(item) /\ a.rows = c.got
        /\ a.missed = c.steady \ c.got /\ a.withdrawn = c.withdrawn
    OBVIOUS
  <1>5. a.withdrawn \/ a.missed = {}
    BY <1>4 DEF CommandSound
  <1>6. a.scope = [path |-> item.path, day |-> item.fetchDay, codes |-> item.codes, leg |-> item.leg]
    BY <1>4 DEF ScopeOf
  <1>7. a.scope.path = item.path /\ item.path \in {"asset", "backfill"}
    BY <1>1, <1>6, ItemHas
  <1>8. ASSUME item.path = "backfill", item.dataset \in HolderDatasets
        PROVE  \E code \in Codes :
                  /\ a.scope = [path |-> "backfill", day |-> a.day, codes |-> <<code>>, leg |-> Blank]
                  /\ \A n \in a.rows : ServiceRows[n].code = code
    <2>1. item \in PlanItems
      BY <1>1, <1>8, ItemHas
    <2>2. item.fetchDay = item.day /\ item.leg = Blank
      BY <1>1, <1>8, <2>1, PlannedHas
    <2>3. PICK code \in Codes : item.codes = <<code>>
      BY <1>1, <2>1, PlannedHas
    <2>4. a.scope = [path |-> "backfill", day |-> a.day, codes |-> <<code>>, leg |-> Blank]
      BY <1>4, <1>6, <1>8, <2>2, <2>3
    <2>5. Pieces(item) = <<[code |-> code, leg |-> item.leg]>>
      <3>1. item.codes \in Seq(Codes) /\ Len(item.codes) = 1 /\ item.codes[1] = code
        BY <2>3
      <3>2. item.dataset # "hsgt_hold_top10"
        BY <1>8 DEF HolderDatasets
      <3> QED
        BY <3>1, <3>2, PiecesHas
    <2>6. ASSUME NEW n \in c.got PROVE ServiceRows[n].code = code
      <3>1. PICK k \in DOMAIN Pieces(item) : Fits(n, item, Pieces(item)[k])
        BY DEF CommandSound
      <3>2. Pieces(item)[k].code = code
        BY <2>5
      <3>3. code # Blank
        BY DEF Codes
      <3>4. Pieces(item)[k].code \in {Blank, ServiceRows[n].code}
        BY <3>1 DEF Fits
      <3> QED
        BY <3>2, <3>3, <3>4
    <2> QED
      BY <1>4, <2>4, <2>6
  <1>9. ArtifactSound(a)
    BY <1>4, <1>5, <1>7, <1>8 DEF ArtifactSound
  <1>10. ListedIn(Append(arts, a), item)
    <2> HIDE DEF Artifacts
    <2>1. /\ Append(arts, a) \in Seq(Artifacts) /\ Len(Append(arts, a)) = Len(arts) + 1
          /\ Append(arts, a)[Len(arts) + 1] = a
      BY <1>3, AppendProperties
    <2>2. Len(arts) + 1 \in DOMAIN Append(arts, a)
      BY <2>1
    <2> QED
      BY <1>4, <2>1, <2>2 DEF ListedIn
  <1> QED
    BY <1>3, <1>9, <1>10 DEF ItemDone

\* One command moves, the others stay.
LEMMA OneMoves ==
    ASSUME HoldingsInv, NEW p \in HoldingsProcs, NEW d \in HoldingsCommands, CommandSound(d, zone, service),
           holding' = [holding EXCEPT ![p] = d], UNCHANGED <<zone, service>>
    PROVE  HoldingsInv'
  <1>1. holding' \in [HoldingsProcs -> HoldingsCommands]
    BY DEF HoldingsInv
  <1>2. ASSUME NEW q \in HoldingsProcs PROVE CommandSound(holding'[q], zone, service)
    <2>1. holding'[q] = IF q = p THEN d ELSE holding[q]
      BY DEF HoldingsInv
    <2>2. CommandSound(holding[q], zone, service)
      BY DEF HoldingsInv
    <2> QED
      BY <2>1, <2>2
  <1>3. zone' = zone /\ service' = service
    OBVIOUS
  <1>4. \A q \in HoldingsProcs : CommandSound(holding'[q], zone', service')
    BY <1>2, <1>3
  <1>5. /\ zone' \in Seq(Artifacts) /\ service' \subseteq DOMAIN ServiceRows
        /\ \A k \in DOMAIN zone' : ArtifactSound(zone'[k])
    BY <1>3 DEF HoldingsInv
  <1> QED
    BY <1>1, <1>4, <1>5 DEF HoldingsInv

\* A backfill starts with the items of its plan, nothing asked.
LEMMA HoldingsStarts ==
    ASSUME HoldingsInv, NEW p \in HoldingsProcs, NEW r \in HoldingsRequests \cup DryRequests, StartHoldings(p, r)
    PROVE  HoldingsInv'
  <1> DEFINE d == Begun(r, BuildPlan(r))
  <1>1. BuildPlan(r) \in Seq(HoldingsItems)
    <2>1. BuildPlan(r) \in Seq(PlanItems)
      BY RequestsAreAsked, PlanHas
    <2>2. PlanItems \subseteq HoldingsItems
      BY DEF HoldingsItems
    <2> QED
      BY <2>1, <2>2, SeqMonotonic
  <1>2. service \subseteq DOMAIN ServiceRows
    BY DEF HoldingsInv
  <1>3. d \in HoldingsCommands /\ CommandSound(d, zone, service)
    BY <1>1, <1>2, BegunSound
  <1>4. holding' = [holding EXCEPT ![p] = d] /\ UNCHANGED <<zone, service>>
    BY DEF StartHoldings
  <1> HIDE DEF d
  <1> QED
    BY <1>3, <1>4, OneMoves

\* A command that failed has nothing to keep.
LEMMA FailedSound == ASSUME NEW arts, NEW rows PROVE Failed \in HoldingsCommands /\ CommandSound(Failed, arts, rows)
  BY FailedHas, RestSound

\* A bounded window starts with its plan; nothing in it is later than what the provider serves.
LEMMA WindowStarts ==
    ASSUME HoldingsInv, NEW p \in HoldingsProcs, NEW r \in WindowRequests, StartWindow(p, r)
    PROVE  HoldingsInv'
  <1> DEFINE odd == ~WindowStocksFit(r.stocks) \/ r.end = -1 \/ r.limit < 1
             d == IF odd THEN Failed ELSE WindowEnded(WindowPlan(r))
  <1>1. d \in HoldingsCommands /\ CommandSound(d, zone, service)
    <2>1. CASE odd
      <3>1. d = Failed
        BY <2>1
      <3> HIDE DEF d
      <3> QED
        BY <3>1, FailedSound
    <2>2. CASE ~odd
      <3>1. d = WindowEnded(WindowPlan(r)) /\ WindowStocksFit(r.stocks)
        BY <2>2
      <3> HIDE DEF d
      <3> QED
        BY <3>1, WindowSound
    <2> QED
      BY <2>1, <2>2
  <1>2. holding' = [holding EXCEPT ![p] = d] /\ UNCHANGED <<zone, service>>
    BY DEF StartWindow
  <1> HIDE DEF d
  <1> QED
    BY <1>1, <1>2, OneMoves

\* An asset starts with its one item, or fails.
LEMMA AssetStarts ==
    ASSUME HoldingsInv, NEW p \in HoldingsProcs, NEW r \in AssetRequests, StartAsset(p, r)
    PROVE  HoldingsInv'
  <1> DEFINE item == [PlannedItem(r.dataset, r.day, Blank, r.leg) EXCEPT !.codes = r.codes, !.path = "asset"]
             c == [NoAsset EXCEPT !.items = <<item>>]
             d == IF AssetFits(r) THEN GoOn(c, 1) ELSE Failed
  <1>1. holding' = [holding EXCEPT ![p] = d] /\ UNCHANGED <<zone, service>>
    BY DEF StartAsset
  <1>2. item \in HoldingsItems
    BY AssetIn
  <1> HIDE DEF item
  <1>3. <<item>> \in Seq(HoldingsItems) /\ Len(<<item>>) \in Nat
    BY <1>2
  <1>4. service \subseteq DOMAIN ServiceRows
    BY DEF HoldingsInv
  <1>5. c \in HoldingsCommands /\ c.items = <<item>> /\ c.window = <<>> /\ c.exit = "none"
    <2>1. NoAsset \in HoldingsCommands /\ NoAsset.exit = "none" /\ NoAsset.window = <<>>
      BY IdleHas
    <2> QED
      BY <1>3, <2>1 DEF HoldingsCommands
  <1> HIDE DEF c
  <1>6. GoOn(c, 1) \in HoldingsCommands /\ CommandSound(GoOn(c, 1), zone, service)
    <2>1. 1 \in Nat \ {0} /\ 1 <= Len(c.items) + 1
      BY <1>3, <1>5
    <2>2. \A i \in 1..(1 - 1) : ItemDone(zone, c.items[i])
      OBVIOUS
    <2> QED
      BY <1>4, <1>5, <2>1, <2>2, GoOnHas, GoOnSound
  <1>7. d \in HoldingsCommands /\ CommandSound(d, zone, service)
    <2>1. d = GoOn(c, 1) \/ d = Failed
      OBVIOUS
    <2> HIDE DEF d
    <2> QED
      BY <1>6, <2>1, FailedSound
  <1> HIDE DEF d
  <1> QED
    BY <1>1, <1>7, OneMoves

\* An item that is not to be executed is counted and left.
LEMMA ItemSkipped ==
    ASSUME HoldingsInv, NEW p \in HoldingsProcs, SkipItem(p)
    PROVE  HoldingsInv'
  <1> DEFINE c == holding[p]
             d == GoOn(c, c.at + 1)
  <1>1. c.pc = "skip" /\ holding' = [holding EXCEPT ![p] = d] /\ UNCHANGED <<zone, service>>
    BY DEF SkipItem, HoldingsInv
  <1>2. c \in HoldingsCommands /\ CommandSound(c, zone, service) /\ service \subseteq DOMAIN ServiceRows
    BY DEF HoldingsInv
  <1> HIDE DEF c
  <1>3. ItemDone(zone, c.items[c.at])
    BY <1>1, <1>2 DEF CommandSound, ItemDone
  <1>4. d \in HoldingsCommands /\ CommandSound(d, zone, service)
    BY <1>1, <1>2, <1>3, NextSound
  <1> HIDE DEF d
  <1> QED
    BY <1>1, <1>4, OneMoves

\* A page adds its rows to what its call has read: every row that was there all along, up to the page's end.
LEMMA PageFetched ==
    ASSUME HoldingsInv, NEW p \in HoldingsProcs, FetchPage(p)
    PROVE  HoldingsInv'
  <1> DEFINE c == holding[p]
             item == ItemOf(p)
             pieces == Pieces(item)
             paged == item.dataset \in PagedDatasets
             page == PageOf(c, item, service)
             pieceEnds == ~paged \/ LastPage(page)
             itemEnds == pieceEnds /\ c.piece = Len(pieces)
             next == [c EXCEPT !.got = @ \cup ToSet(page)]
             d1 == [next EXCEPT !.pc = "write"]
             d2 == [next EXCEPT !.piece = @ + 1, !.offset = 0, !.tries = IF paged THEN @ ELSE 0]
             d3 == [next EXCEPT !.offset = @ + Len(page)]
  <1>1. service \subseteq DOMAIN ServiceRows /\ c \in HoldingsCommands /\ CommandSound(c, zone, service)
    BY DEF HoldingsInv
  <1>2. /\ c.pc = "fetch" /\ UNCHANGED <<zone, service>>
        /\ \/ holding' = [holding EXCEPT ![p] = Failed]
           \/ itemEnds /\ holding' = [holding EXCEPT ![p] = d1]
           \/ pieceEnds /\ ~itemEnds /\ holding' = [holding EXCEPT ![p] = d2]
           \/ ~pieceEnds /\ holding' = [holding EXCEPT ![p] = d3]
    <2>1. RowsFor(item, pieces[c.piece]) = Found(item, pieces[c.piece], service)
      BY <1>1, AnswerHas
    <2>2. page = IF paged THEN SubSeq(RowsFor(item, pieces[c.piece]), c.offset + 1,
                                      Min({c.offset + PageLimit, Len(RowsFor(item, pieces[c.piece]))}))
                 ELSE RowsFor(item, pieces[c.piece])
      BY <2>1 DEF PageOf
    <2> HIDE DEF page
    <2> DEFINE raises == \/ ~paged /\ page = <<>>
                         \/ paged /\ ToSet(page) \cap c.got # {}
                         \/ paged /\ itemEnds /\ c.got \cup ToSet(page) = {}
    <2>3. /\ c.pc = "fetch" /\ UNCHANGED <<zone, service>>
          /\ holding' = [holding EXCEPT ![p] =
                CASE raises -> Failed
                  [] ~raises /\ itemEnds -> d1
                  [] ~raises /\ pieceEnds /\ ~itemEnds -> d2
                  [] ~raises /\ ~pieceEnds -> d3]
      BY <2>2, Zenon DEF FetchPage
    <2> HIDE DEF raises, d1, d2, d3, pieceEnds
    <2> QED
      BY <2>3
  <1>3. c.offset \in Nat /\ c.piece \in Nat /\ c.tries \in Nat /\ c.got \subseteq DOMAIN ServiceRows
    BY <1>1 DEF HoldingsCommands
  <1>4. page \in Seq(DOMAIN ServiceRows) /\ Len(page) \in Nat
    BY <1>1, <1>3, PageOfHas
  <1> HIDE DEF c, page
  <1>5. ToSet(page) \subseteq DOMAIN ServiceRows
    BY <1>4, Elements
  <1>6. /\ next \in HoldingsCommands /\ next.got = c.got \cup ToSet(page)
        /\ next.pc = c.pc /\ next.items = c.items /\ next.at = c.at /\ next.piece = c.piece
        /\ next.offset = c.offset /\ next.tries = c.tries /\ next.steady = c.steady
        /\ next.withdrawn = c.withdrawn /\ next.exit = c.exit /\ next.window = c.window
    BY <1>1, <1>3, <1>5 DEF HoldingsCommands
  <1> HIDE DEF next
  <1>7. /\ d1 \in HoldingsCommands /\ d1.got = next.got /\ d1.pc = "write" /\ d1.items = next.items
        /\ d1.at = next.at /\ d1.steady = next.steady /\ d1.withdrawn = next.withdrawn
        /\ d1.exit = next.exit /\ d1.window = next.window
    BY <1>6 DEF HoldingsCommands
  <1>8. /\ d2 \in HoldingsCommands /\ d2.got = next.got /\ d2.pc = next.pc /\ d2.items = next.items
        /\ d2.at = next.at /\ d2.steady = next.steady /\ d2.withdrawn = next.withdrawn
        /\ d2.exit = next.exit /\ d2.window = next.window /\ d2.piece = next.piece + 1 /\ d2.offset = 0
    <2> HIDE DEF paged
    <2>1. next.piece + 1 \in Nat /\ (IF paged THEN next.tries ELSE 0) \in Nat
      BY <1>3, <1>6
    <2> QED
      BY <1>6, <2>1 DEF HoldingsCommands
  <1>9. /\ d3 \in HoldingsCommands /\ d3.got = next.got /\ d3.pc = next.pc /\ d3.items = next.items
        /\ d3.at = next.at /\ d3.steady = next.steady /\ d3.withdrawn = next.withdrawn
        /\ d3.exit = next.exit /\ d3.window = next.window /\ d3.piece = next.piece
        /\ d3.offset = next.offset + Len(page)
    <2>1. next.offset + Len(page) \in Nat
      BY <1>3, <1>4, <1>6
    <2> QED
      BY <1>6, <2>1 DEF HoldingsCommands
  <1> HIDE DEF d1, d2, d3
  <1>10. item = c.items[c.at] /\ page = PageOf(c, item, service)
    BY DEF ItemOf, c, page
  <1> HIDE DEF item
  <1>11. pieceEnds \in BOOLEAN /\ (pieceEnds => item.dataset \notin PagedDatasets \/ Len(page) < PageLimit)
    BY DEF LastPage
  <1> HIDE DEF pieceEnds
  <1>12. CASE holding' = [holding EXCEPT ![p] = Failed]
    BY <1>2, <1>12, FailedSound, OneMoves
  <1>13. CASE itemEnds /\ holding' = [holding EXCEPT ![p] = d1]
    <2> DEFINE ends == pieceEnds
    <2>0. /\ d1.items = c.items /\ d1.at = c.at /\ d1.exit = c.exit /\ d1.window = c.window
          /\ d1.withdrawn = c.withdrawn /\ d1.steady = c.steady /\ d1.got = c.got \cup ToSet(page)
          /\ d1.pc = "write" /\ ends /\ c.piece = Len(Pieces(item))
          /\ ends \in BOOLEAN /\ (ends => item.dataset \notin PagedDatasets \/ Len(page) < PageLimit)
      BY <1>2, <1>6, <1>7, <1>11, <1>13
    <2> HIDE DEF ends, paged, pieces
    <2>1. CommandSound(d1, zone, service)
      BY <1>1, <1>2, <1>10, <2>0, PageSound
    <2> QED
      BY <1>2, <1>7, <1>13, <2>1, OneMoves
  <1>14. CASE pieceEnds /\ ~itemEnds /\ holding' = [holding EXCEPT ![p] = d2]
    <2> DEFINE ends == pieceEnds
    <2>0. /\ d2.items = c.items /\ d2.at = c.at /\ d2.exit = c.exit /\ d2.window = c.window
          /\ d2.withdrawn = c.withdrawn /\ d2.steady = c.steady /\ d2.got = c.got \cup ToSet(page)
          /\ d2.pc = "fetch" /\ ends /\ c.piece # Len(Pieces(item)) /\ d2.piece = c.piece + 1 /\ d2.offset = 0
          /\ ends \in BOOLEAN /\ (ends => item.dataset \notin PagedDatasets \/ Len(page) < PageLimit)
      BY <1>2, <1>6, <1>8, <1>11, <1>14
    <2> HIDE DEF ends, paged, pieces
    <2>1. CommandSound(d2, zone, service)
      BY <1>1, <1>2, <1>10, <2>0, PageSound
    <2> QED
      BY <1>2, <1>8, <1>14, <2>1, OneMoves
  <1>15. CASE ~pieceEnds /\ holding' = [holding EXCEPT ![p] = d3]
    <2>1. CommandSound(d3, zone, service)
      BY <1>1, <1>2, <1>6, <1>9, <1>10, <1>11, <1>15, PageSound
    <2> QED
      BY <1>2, <1>9, <1>15, <2>1, OneMoves
  <1> QED
    BY <1>2, <1>12, <1>13, <1>14, <1>15

\* How often a call was repeated says nothing of what it has.
LEMMA TriesAside ==
    ASSUME NEW c \in HoldingsCommands, NEW n \in Nat, NEW arts, NEW rows, CommandSound(c, arts, rows)
    PROVE  [c EXCEPT !.tries = n] \in HoldingsCommands /\ CommandSound([c EXCEPT !.tries = n], arts, rows)
  <1> DEFINE d == [c EXCEPT !.tries = n]
  <1>1. /\ d \in HoldingsCommands /\ d.pc = c.pc /\ d.items = c.items /\ d.at = c.at /\ d.piece = c.piece
        /\ d.offset = c.offset /\ d.got = c.got /\ d.steady = c.steady /\ d.withdrawn = c.withdrawn
        /\ d.exit = c.exit /\ d.window = c.window
    BY DEF HoldingsCommands
  <1> HIDE DEF d
  <1>2. FetchSound(c, c.items[c.at], rows) => FetchSound(d, c.items[c.at], rows)
    BY <1>1 DEF FetchSound, InOrder
  <1>3. CommandSound(d, arts, rows)
    BY <1>1, <1>2 DEF CommandSound
  <1> QED
    BY <1>1, <1>3 DEF d

\* A refused call is tried again, from the first page when it is paged.
LEMMA AnswerRefused ==
    ASSUME HoldingsInv, NEW p \in HoldingsProcs, RateLimited(p)
    PROVE  HoldingsInv'
  <1> DEFINE c == holding[p]
             again == IF ItemOf(p).dataset \in PagedDatasets THEN GoOn(c, c.at) ELSE c
             n == c.tries + 1
             d == [again EXCEPT !.tries = n]
  <1>1. service \subseteq DOMAIN ServiceRows /\ c \in HoldingsCommands /\ CommandSound(c, zone, service)
    BY DEF HoldingsInv
  <1>2. c.pc = "fetch" /\ UNCHANGED <<zone, service>> /\ holding' = [holding EXCEPT ![p] = d]
    BY DEF RateLimited
  <1> HIDE DEF c
  <1>3. n \in Nat
    BY <1>1 DEF HoldingsCommands
  <1>4. GoOn(c, c.at) \in HoldingsCommands /\ CommandSound(GoOn(c, c.at), zone, service)
    <2>1. /\ c.at \in Nat \ {0} /\ c.at <= Len(c.items) /\ Len(c.items) \in Nat /\ c.exit = "none"
          /\ c.window # <<>> => c.items = c.window[1].items
          /\ \A i \in 1..(c.at - 1) : ItemDone(zone, c.items[i])
      BY <1>1, <1>2, UnderWay
    <2>2. c.at <= Len(c.items) + 1
      BY <2>1
    <2> QED
      BY <1>1, <2>1, <2>2, GoOnHas, GoOnSound
  <1>5. again \in HoldingsCommands /\ CommandSound(again, zone, service)
    BY <1>1, <1>4
  <1> HIDE DEF again, n
  <1>6. d \in HoldingsCommands /\ CommandSound(d, zone, service)
    BY <1>3, <1>5, TriesAside
  <1> HIDE DEF d
  <1> QED
    BY <1>2, <1>6, OneMoves

\* A command that raises or dies keeps only what is written.
LEMMA CommandFails ==
    ASSUME HoldingsInv, NEW p \in HoldingsProcs, FetchRaises(p) \/ HoldingsDies(p)
    PROVE  HoldingsInv'
  <1>1. holding' = [holding EXCEPT ![p] = Failed] /\ UNCHANGED <<zone, service>>
    BY DEF FetchRaises, HoldingsDies
  <1> QED
    BY <1>1, FailedSound, OneMoves

\* A process that is done takes its next command.
LEMMA CommandRests ==
    ASSUME HoldingsInv, NEW p \in HoldingsProcs, NextHoldings(p)
    PROVE  HoldingsInv'
  <1>1. holding' = [holding EXCEPT ![p] = NoAsset] /\ UNCHANGED <<zone, service>>
    BY DEF NextHoldings
  <1>2. NoAsset \in HoldingsCommands /\ CommandSound(NoAsset, zone, service)
    BY IdleHas, RestSound
  <1> QED
    BY <1>1, <1>2, OneMoves

\* The artifact of an item has every row that was there while it was read.
LEMMA ItemWritten ==
    ASSUME HoldingsInv, NEW p \in HoldingsProcs, WriteHoldings(p)
    PROVE  HoldingsInv'
  <1> DEFINE c == holding[p]
             item == ItemOf(p)
             a == [dataset |-> item.dataset, day |-> item.day, scope |-> ScopeOf(item), rows |-> c.got,
                   missed |-> c.steady \ c.got, withdrawn |-> c.withdrawn]
             d == GoOn(c, c.at + 1)
             arts == Append(zone, a)
  <1>1. /\ service \subseteq DOMAIN ServiceRows /\ c \in HoldingsCommands /\ CommandSound(c, zone, service)
        /\ holding \in [HoldingsProcs -> HoldingsCommands] /\ zone \in Seq(Artifacts)
        /\ \A k \in DOMAIN zone : ArtifactSound(zone[k])
        /\ \A q \in HoldingsProcs : CommandSound(holding[q], zone, service)
    BY DEF HoldingsInv
  <1>2. c.pc = "write" /\ zone' = arts /\ service' = service /\ holding' = [holding EXCEPT ![p] = d]
    BY DEF WriteHoldings
  <1>3. item = c.items[c.at]
    BY DEF ItemOf
  <1> HIDE DEF c, item
  <1>4. a \in Artifacts /\ ArtifactSound(a) /\ ItemDone(arts, item)
    BY <1>1, <1>2, <1>3, ArtifactHas
  <1> HIDE DEF a
  <1>5. \A i : ItemDone(zone, i) => ItemDone(arts, i)
    BY <1>1, <1>4, ListedStays
  <1>6. /\ arts \in Seq(Artifacts) /\ Len(arts) = Len(zone) + 1 /\ arts[Len(zone) + 1] = a
        /\ \A k \in 1..Len(zone) : arts[k] = zone[k]
    BY <1>1, <1>4, AppendProperties
  <1>7. \A k \in DOMAIN arts : ArtifactSound(arts[k])
    <2>1. DOMAIN zone = 1..Len(zone) /\ DOMAIN arts = 1..(Len(zone) + 1) /\ Len(zone) \in Nat
      BY <1>1, <1>6
    <2> HIDE DEF arts
    <2> QED
      BY <1>1, <1>4, <1>6, <2>1
  <1> HIDE DEF arts
  <1>8. d \in HoldingsCommands /\ CommandSound(d, arts, service)
    BY <1>1, <1>2, <1>3, <1>4, <1>5, NextSound
  <1>9. \A q \in HoldingsProcs : CommandSound(holding[q], arts, service)
    BY <1>1, <1>4, SoundStays DEF arts
  <1> HIDE DEF d
  <1>10. holding' \in [HoldingsProcs -> HoldingsCommands]
    BY <1>1, <1>2, <1>8
  <1>11. \A q \in HoldingsProcs : CommandSound(holding'[q], arts, service)
    <2> SUFFICES ASSUME NEW q \in HoldingsProcs PROVE CommandSound(holding'[q], arts, service)
      OBVIOUS
    <2>1. holding'[q] = IF q = p THEN d ELSE holding[q]
      BY <1>1, <1>2
    <2> QED
      BY <1>8, <1>9, <2>1
  <1> QED
    BY <1>1, <1>2, <1>6, <1>7, <1>10, <1>11 DEF HoldingsInv

\* The provider adds or withdraws rows of a day that is not settled.
LEMMA RowsChange ==
    ASSUME HoldingsInv, NEW n \in Unsteady, ServiceChanges(n)
    PROVE  HoldingsInv'
  <1> DEFINE late(p) == [holding[p] EXCEPT !.steady = @ \ {n}, !.withdrawn = TRUE]
  <1>1. /\ service \subseteq DOMAIN ServiceRows /\ holding \in [HoldingsProcs -> HoldingsCommands]
        /\ zone \in Seq(Artifacts) /\ \A k \in DOMAIN zone : ArtifactSound(zone[k])
        /\ \A q \in HoldingsProcs : CommandSound(holding[q], zone, service)
    BY DEF HoldingsInv
  <1>2. /\ zone' = zone /\ service' = (IF n \in service THEN service \ {n} ELSE service \cup {n})
        /\ holding' = [p \in HoldingsProcs |->
              IF holding[p].pc = "fetch" /\ n \in service THEN late(p) ELSE holding[p]]
    BY DEF ServiceChanges
  <1>3. service' \subseteq DOMAIN ServiceRows
    <2>1. n \in DOMAIN ServiceRows
      BY HoldingsAssumption DEF HoldingsAssumption
    <2> QED
      BY <1>1, <1>2, <2>1
  <1>4. ASSUME NEW p \in HoldingsProcs
        PROVE  holding'[p] \in HoldingsCommands /\ CommandSound(holding'[p], zone, service')
    <2> DEFINE c == holding[p]
               d == holding'[p]
    <2>1. c \in HoldingsCommands /\ CommandSound(c, zone, service)
      BY <1>1
    <2>2. CASE c.pc = "fetch" /\ n \in service
      <3>1. d = late(p)
        BY <1>2, <2>2
      <3>2. /\ d \in HoldingsCommands /\ d.pc = c.pc /\ d.items = c.items /\ d.at = c.at /\ d.piece = c.piece
            /\ d.got = c.got /\ d.withdrawn = TRUE /\ d.exit = c.exit /\ d.window = c.window
        <4>1. late(p) = [c EXCEPT !.steady = c.steady \ {n}, !.withdrawn = TRUE]
          OBVIOUS
        <4>2. c.steady \ {n} \subseteq DOMAIN ServiceRows
          BY <2>1 DEF HoldingsCommands
        <4> HIDE DEF c, d
        <4> QED
          BY <2>1, <3>1, <4>1, <4>2 DEF HoldingsCommands
      <3> HIDE DEF c, d
      <3>3. FetchSound(d, d.items[d.at], service')
        BY <2>1, <2>2, <3>2 DEF CommandSound, FetchSound
      <3>4. CommandSound(d, zone, service')
        BY <2>1, <2>2, <3>2, <3>3 DEF CommandSound
      <3> QED
        BY <3>2, <3>4 DEF d
    <2>3. CASE ~(c.pc = "fetch" /\ n \in service)
      <3>1. d = c
        BY <1>2, <2>3
      <3> HIDE DEF c, d
      <3>2. c.pc = "fetch" => FetchSound(c, c.items[c.at], service')
        <4> SUFFICES ASSUME c.pc = "fetch" PROVE FetchSound(c, c.items[c.at], service')
          OBVIOUS
        <4>1. service \subseteq service'
          BY <1>2, <2>3
        <4>2. FetchSound(c, c.items[c.at], service) /\ c.offset \in Nat
          BY <2>1 DEF CommandSound, HoldingsCommands
        <4>3. InOrder(c, c.items[c.at], service) => InOrder(c, c.items[c.at], service')
          BY <1>1, <1>3, <4>1, <4>2, InOrderGrows
        <4> QED
          BY <4>2, <4>3 DEF FetchSound
      <3>3. CommandSound(c, zone, service')
        BY <2>1, <3>2 DEF CommandSound
      <3> QED
        BY <2>1, <3>1, <3>3 DEF d
    <2> QED
      BY <2>2, <2>3
  <1>5. holding' \in [HoldingsProcs -> HoldingsCommands]
    <2>1. DOMAIN holding' = HoldingsProcs /\ holding' = [p \in HoldingsProcs |-> holding'[p]]
      BY <1>2
    <2> QED
      BY <1>4, <2>1
  <1> QED
    BY <1>1, <1>2, <1>3, <1>4, <1>5 DEF HoldingsInv

\* Nothing is written and every process is idle at the start.
LEMMA HoldingsBegin == HoldingsInit => HoldingsInv
  <1> SUFFICES ASSUME HoldingsInit PROVE HoldingsInv
    OBVIOUS
  <1>1. \A p \in HoldingsProcs : holding[p] = NoAsset
    BY DEF HoldingsInit
  <1>2. holding \in [HoldingsProcs -> HoldingsCommands]
    BY IdleHas DEF HoldingsInit
  <1>3. service \subseteq DOMAIN ServiceRows
    BY HoldingsAssumption DEF HoldingsInit, HoldingsAssumption
  <1>4. zone \in Seq(Artifacts) /\ DOMAIN zone = {}
    BY DEF HoldingsInit
  <1>5. \A p \in HoldingsProcs : CommandSound(holding[p], zone, service)
    BY <1>1, IdleHas, RestSound
  <1> QED
    BY <1>2, <1>3, <1>4, <1>5 DEF HoldingsInv

\* Every step keeps the invariant.
LEMMA HoldingsGoOn == HoldingsInv /\ [HoldingsNext \/ PlanNext]_holdingsVars => HoldingsInv'
  <1> SUFFICES ASSUME HoldingsInv, [HoldingsNext \/ PlanNext]_holdingsVars PROVE HoldingsInv'
    OBVIOUS
  <1>1. ASSUME NEW p \in HoldingsProcs, NEW r \in HoldingsRequests, StartHoldings(p, r) PROVE HoldingsInv'
    BY <1>1, HoldingsStarts
  <1>2. ASSUME NEW p \in HoldingsProcs, NEW r \in DryRequests, StartHoldings(p, r) PROVE HoldingsInv'
    BY <1>2, HoldingsStarts
  <1>3. ASSUME NEW p \in HoldingsProcs, NEW r \in WindowRequests, StartWindow(p, r) PROVE HoldingsInv'
    BY <1>3, WindowStarts
  <1>4. ASSUME NEW p \in HoldingsProcs, NEW r \in AssetRequests, StartAsset(p, r) PROVE HoldingsInv'
    BY <1>4, AssetStarts
  <1>5. ASSUME NEW p \in HoldingsProcs, SkipItem(p) PROVE HoldingsInv'
    BY <1>5, ItemSkipped
  <1>6. ASSUME NEW p \in HoldingsProcs, FetchPage(p) PROVE HoldingsInv'
    BY <1>6, PageFetched
  <1>7. ASSUME NEW p \in HoldingsProcs, RateLimited(p) PROVE HoldingsInv'
    BY <1>7, AnswerRefused
  <1>8. ASSUME NEW p \in HoldingsProcs, FetchRaises(p) \/ HoldingsDies(p) PROVE HoldingsInv'
    BY <1>8, CommandFails
  <1>9. ASSUME NEW p \in HoldingsProcs, WriteHoldings(p) PROVE HoldingsInv'
    BY <1>9, ItemWritten
  <1>10. ASSUME NEW p \in HoldingsProcs, NextHoldings(p) PROVE HoldingsInv'
    BY <1>10, CommandRests
  <1>11. ASSUME NEW n \in Unsteady, ServiceChanges(n) PROVE HoldingsInv'
    BY <1>11, RowsChange
  <1>12. CASE UNCHANGED holdingsVars
    BY <1>12 DEF holdingsVars, HoldingsInv
  <1> QED
    BY <1>1, <1>2, <1>3, <1>4, <1>5, <1>6, <1>7, <1>8, <1>9, <1>10, <1>11, <1>12, Zenon DEF HoldingsNext, PlanNext

\* What is listed is staged: the last artifact of its request.
LEMMA ListedIsStaged ==
    ASSUME zone \in Seq(Artifacts), NEW item, ListedIn(zone, item), item.dataset \in HolderDatasets
    PROVE  \E k \in Staged(item.dataset, item.day) : zone[k].scope = ScopeOf(item)
  <1> DEFINE n == Len(zone)
             K == {k \in DOMAIN zone : zone[k].dataset = item.dataset /\ zone[k].day = item.day
                                       /\ zone[k].scope = ScopeOf(item)}
             S == {i \in 0..n : n - i \in K}
  <1>1. DOMAIN zone = 1..n /\ n \in Nat
    OBVIOUS
  <1>2. PICK k \in K : TRUE
    BY DEF ListedIn
  <1> HIDE DEF n
  <1>3. n - k \in S /\ S \in SUBSET Nat
    BY <1>1, <1>2
  <1>4. PICK m \in S : \A i \in S : m <= i
    <2> HIDE DEF S
    <2> QED
      BY <1>3, LeastOf
  <1> DEFINE l == n - m
  <1>5. l \in K /\ \A j \in K : j <= l
    <2>1. ASSUME NEW j \in K PROVE j <= l
      <3>1. j \in 1..n
        BY <1>1
      <3>2. n - j \in S
        BY <1>1, <3>1
      <3>3. m <= n - j
        BY <1>4, <3>2
      <3> QED
        BY <1>1, <1>3, <1>4, <3>1, <3>3
    <2> QED
      BY <1>4, <2>1
  <1> HIDE DEF l, S
  <1>6. l \in Staged(item.dataset, item.day)
    BY <1>5 DEF Staged
  <1> QED
    BY <1>5, <1>6

\* The invariant is as strong as what the run checks.
LEMMA HoldingsKept == HoldingsInv => BackfillSafe
  <1> SUFFICES ASSUME HoldingsInv PROVE BackfillSafe
    OBVIOUS
  <1>1. /\ zone \in Seq(Artifacts) /\ \A k \in DOMAIN zone : ArtifactSound(zone[k])
        /\ \A p \in HoldingsProcs : CommandSound(holding[p], zone, service) /\ holding[p] \in HoldingsCommands
    BY DEF HoldingsInv
  <1>2. FinishedIsStaged
    <2> SUFFICES ASSUME NEW p \in HoldingsProcs, holding[p].exit = "ok",
                        NEW i \in ToSet(WithStatus(holding[p].items, "planned")), i.dataset \in HolderDatasets
                 PROVE  \E k \in Staged(i.dataset, i.day) : zone[k].scope = ScopeOf(i)
      BY DEF FinishedIsStaged
    <2> DEFINE c == holding[p]
    <2>1. c.items \in Seq(HoldingsItems) /\ \A j \in DOMAIN c.items : ItemDone(zone, c.items[j])
      BY <1>1 DEF HoldingsCommands, CommandSound
    <2> HIDE DEF c
    <2>2. i \in ToSet(c.items) /\ i.status = "planned"
      BY <2>1, StatusHas DEF c
    <2>3. ItemDone(zone, i)
      BY <2>1, <2>2, Elements
    <2> QED
      BY <1>1, <2>2, <2>3, ListedIsStaged DEF ItemDone
  <1>3. StagedOnceUnlessMixed
    <2> SUFFICES ASSUME NEW j \in DOMAIN zone, NEW k \in DOMAIN zone,
                        zone[j].dataset = zone[k].dataset, zone[j].day = zone[k].day,
                        {j, k} \subseteq Staged(zone[j].dataset, zone[j].day),
                        zone[j].rows \cap zone[k].rows # {}, j # k,
                        "asset" \notin {zone[j].scope.path, zone[k].scope.path}
                 PROVE  FALSE
      BY DEF StagedOnceUnlessMixed
    <2> DEFINE d == zone[j].dataset
               here == {i \in DOMAIN zone : zone[i].dataset = d /\ zone[i].day = zone[j].day}
    <2>1. j \in Nat /\ k \in Nat /\ j \in here /\ k \in here
      BY <1>1
    <2>2. ~(d \notin HolderDatasets \/ zone[j].scope = zone[k].scope)
      <3> SUFFICES ASSUME d \notin HolderDatasets \/ zone[j].scope = zone[k].scope PROVE FALSE
        OBVIOUS
      <3>1. j <= k /\ k <= j
        BY <2>1 DEF Staged
      <3> QED
        BY <2>1, <3>1
    <2>3. zone[j].scope.path = "backfill" /\ zone[k].scope.path = "backfill"
      BY <1>1 DEF ArtifactSound
    <2>4. PICK c \in Codes :
             /\ zone[j].scope = [path |-> "backfill", day |-> zone[j].day, codes |-> <<c>>, leg |-> Blank]
             /\ \A n \in zone[j].rows : ServiceRows[n].code = c
      BY <1>1, <2>2, <2>3 DEF ArtifactSound
    <2>5. PICK e \in Codes :
             /\ zone[k].scope = [path |-> "backfill", day |-> zone[k].day, codes |-> <<e>>, leg |-> Blank]
             /\ \A n \in zone[k].rows : ServiceRows[n].code = e
      BY <1>1, <2>2, <2>3 DEF ArtifactSound
    <2>6. c = e
      BY <2>4, <2>5
    <2> QED
      BY <2>2, <2>4, <2>5, <2>6
  <1>4. SteadyRowsKept
    BY <1>1 DEF SteadyRowsKept, ArtifactSound
  <1>5. WindowIsExplained
    <2> SUFFICES ASSUME NEW p \in HoldingsProcs
                 PROVE  LET items == ToSet(WithStatus(holding[p].items, "planned"))
                            holds == {i \in items : i.dataset = "hsgt_hold_top10" /\ i.path = "backfill"}
                        IN  /\ \A i \in holds : i.day <= LastHoldDay
                            /\ holding[p].window # <<>> =>
                                 LET w == holding[p].window[1]
                                 IN  \A m \in ToSet(w.months), x \in ToSet(HoldExchanges) :
                                        IF m > MonthOf(LastHoldDay) THEN "post_publication_cutoff" \in w.gaps
                                        ELSE \E i \in holds :
                                                /\ MonthOf(i.day) = m /\ i.leg = x
                                                /\ i.day # MonthEnd(m) => "partial_month_provider_cutoff" \in w.gaps
      BY DEF WindowIsExplained
    <2> DEFINE c == holding[p]
               items == ToSet(WithStatus(c.items, "planned"))
               holds == {i \in items : i.dataset = "hsgt_hold_top10" /\ i.path = "backfill"}
               w == c.window[1]
    <2>1. c.items \in Seq(HoldingsItems) /\ c.window \in HoldingsWindows /\ (c.window # <<>> => c.items = w.items)
      BY <1>1 DEF HoldingsCommands, CommandSound
    <2> HIDE DEF c
    <2>2. items = {i \in ToSet(c.items) : i.status = "planned"}
      BY <2>1, StatusHas
    <2>3. ASSUME NEW i \in holds PROVE i.day <= LastHoldDay
      <3>1. i \in HoldingsItems /\ i.status = "planned" /\ i.path = "backfill" /\ i.dataset = "hsgt_hold_top10"
        BY <2>1, <2>2, Elements
      <3> QED
        BY <3>1, ItemHas, PlannedHas
    <2>4. ASSUME c.window # <<>>, NEW m \in ToSet(w.months), NEW x \in ToSet(HoldExchanges)
          PROVE  IF m > MonthOf(LastHoldDay) THEN "post_publication_cutoff" \in w.gaps
                 ELSE \E i \in holds :
                         /\ MonthOf(i.day) = m /\ i.leg = x
                         /\ i.day # MonthEnd(m) => "partial_month_provider_cutoff" \in w.gaps
      <3>1. PICK r \in WindowRequests : WindowStocksFit(r.stocks) /\ c.window = <<WindowPlan(r)>>
        BY <2>1, <2>4 DEF HoldingsWindows
      <3>2. w = WindowPlan(r) /\ c.items = w.items
        BY <2>1, <2>4, <3>1
      <3> HIDE DEF w, holds, items
      <3>3. IF m > MonthOf(LastHoldDay) THEN "post_publication_cutoff" \in w.gaps
            ELSE \E code \in Texts, d \in Int :
                    /\ PlannedItem("hsgt_hold_top10", d, code, x) \in ToSet(w.items)
                    /\ MonthOf(d) = m
                    /\ d # MonthEnd(m) => "partial_month_provider_cutoff" \in w.gaps
        BY <2>4, <3>1, <3>2, WindowHas
      <3>4. CASE m > MonthOf(LastHoldDay)
        BY <3>3, <3>4
      <3>5. CASE ~(m > MonthOf(LastHoldDay))
        <4>1. PICK code \in Texts, d \in Int :
                 /\ PlannedItem("hsgt_hold_top10", d, code, x) \in ToSet(w.items)
                 /\ MonthOf(d) = m
                 /\ d # MonthEnd(m) => "partial_month_provider_cutoff" \in w.gaps
          BY <3>3, <3>5
        <4> DEFINE i == PlannedItem("hsgt_hold_top10", d, code, x)
        <4>2. /\ i.dataset = "hsgt_hold_top10" /\ i.path = "backfill" /\ i.status = "planned"
              /\ i.day = d /\ i.leg = x
          BY DEF PlannedItem
        <4> HIDE DEF i
        <4>3. i \in ToSet(c.items)
          BY <3>2, <4>1 DEF i
        <4>4. i \in holds
          BY <2>2, <4>2, <4>3 DEF holds
        <4> QED
          BY <3>5, <4>1, <4>2, <4>4
      <3> QED
        BY <3>4, <3>5
    <2> QED
      BY <2>3, <2>4 DEF c
  <1> QED
    BY <1>2, <1>3, <1>4, <1>5 DEF BackfillSafe

\* The backfill of holdings keeps its promises to staging: what a finished one
\* planned is staged, nothing is staged twice but by two ways of writing, no
\* steady row is lost and a window is explained (run_holdings_backfill).
THEOREM HoldingsAreSafe == HoldingsSpec => []BackfillSafe
  <1>1. HoldingsInit => HoldingsInv
    BY HoldingsBegin
  <1>2. HoldingsInv /\ [HoldingsNext \/ PlanNext]_holdingsVars => HoldingsInv'
    BY HoldingsGoOn
  <1>3. HoldingsInv => BackfillSafe
    BY HoldingsKept
  <1> QED
    BY <1>1, <1>2, <1>3, PTL DEF HoldingsSpec

=============================================================================

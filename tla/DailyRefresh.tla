---------------------------- MODULE DailyRefresh ----------------------------
(***************************************************************************)
(* data_platform/daily_refresh.py, run_daily_refresh: one run selects its  *)
(* assets, takes the lock of its date (RefreshLock) and then fetches and   *)
(* writes the raw artifacts (RawZone), runs dbt, migrates the catalog      *)
(* database (Migrations), publishes the canonical marts (MartPublish) and  *)
(* checks the raw zone.  The first failing step ends the run; the lock is  *)
(* released in a finally clause.  Other tools (adapters/tushare CLI, the   *)
(* holdings backfill) write raw artifacts without that lock.  Any process  *)
(* may be killed between two steps.                                        *)
(***************************************************************************)
EXTENDS RefreshLock, RawZone, MartPublish, Migrations

CONSTANTS
    Tools,          \* processes that write one raw artifact and nothing else
    ToolRuns,       \* the run ids they use
    Datasets,       \* datasets of the adapter's assets
    Discontinued    \* datasets whose daily publication has ended

ASSUME RefreshAssumption ==
    /\ Procs \cap Tools = {}
    /\ Discontinued \subseteq Datasets
    /\ Writers = (Procs \cup Tools) \X Datasets
    /\ Runs = Writers /\ ToolRuns \subseteq Runs
    /\ Parts = Dates \X Datasets
    /\ Loads = Procs
    /\ Runners = Procs

VARIABLES
    step,           \* the step a run is at
    plan,           \* the datasets it refreshes
    outcome,        \* step -> status in the run's result
    listing,        \* raw_health: <<dataset, entries>> read and not yet compared
    checked,        \* raw_health: datasets done
    unhealthy       \* raw_health: an issue was found

refreshVars == <<step, plan, outcome, listing, checked, unhealthy>>
vars == <<lockVars, rawVars, martVars, migrationVars, refreshVars>>

StepNames == <<"adapter", "dbt_run", "dbt_test", "canonical", "raw_health">>
Steps     == {StepNames[i] : i \in 1..5}
NoListing == <<>>
NoOutcome == [s \in Steps \cup {"config", "refresh_lock"} |-> "none"]

TypeOK ==
    /\ LockTypeOK /\ RawTypeOK /\ MartTypeOK /\ MigrationTypeOK
    /\ step \in [Procs -> Steps \cup {"config", "refresh_lock", "release", "ended"}]
    /\ plan \in [Procs -> SUBSET Datasets]
    /\ outcome \in [Procs -> [Steps \cup {"config", "refresh_lock"} ->
                                {"none", "ok", "failed", "skipped"}]]
    /\ listing \in [Procs -> {NoListing} \cup (Datasets \X SUBSET (Runs \X Writers))]
    /\ checked \in [Procs -> SUBSET Datasets]
    /\ unhealthy \in [Procs -> BOOLEAN]

\* A run gives every artifact a new uuid4; another caller of the raw writer passes
\* the run id it likes, one that is in use included.
Init ==
    /\ LockInit /\ RawInit /\ MartInit /\ MigrationInit
    /\ \A w \in Writers : w[1] \in Procs =>
          wrun[w] = w /\ wpart[w] = <<date[w[1]], w[2]>>
    /\ \A w \in Writers : w[1] \in Tools => wrun[w] \in ToolRuns /\ wpart[w][2] = w[2]
    /\ step = [p \in Procs |-> "config"]
    /\ plan = [p \in Procs |-> {}]
    /\ outcome = [p \in Procs |-> NoOutcome]
    /\ listing = [p \in Procs |-> NoListing]
    /\ checked = [p \in Procs |-> {}]
    /\ unhealthy = [p \in Procs |-> FALSE]

Alive(p) == p \notin dead
Goto(p, s) == step' = [step EXCEPT ![p] = s]
Record(p, s, status) == outcome' = [outcome EXCEPT ![p][s] = status]
HealthVars == <<listing, checked, unhealthy>>

-----------------------------------------------------------------------------
(* Configuration and selection                                             *)

\* _select_assets and _refresh_asset_plan: the selected assets without the ones
\* whose daily publication has ended, unless the run is mocked.
Planned(selected, mock) == IF mock THEN selected ELSE selected \ Discontinued

Configure(p) ==
    /\ Alive(p) /\ step[p] = "config"
    /\ \E selected \in SUBSET Datasets \ {{}}, mock \in BOOLEAN :
          LET todo == Planned(selected, mock)
          IN  /\ plan' = [plan EXCEPT ![p] = todo]
              /\ IF todo = {}
                 THEN /\ outcome' = [outcome EXCEPT ![p] =
                                       [s \in DOMAIN @ |-> IF s \in Steps THEN "skipped" ELSE @[s]]]
                      /\ Goto(p, "ended")
                      /\ UNCHANGED lockVars
                 ELSE /\ Goto(p, "refresh_lock")
                      /\ BeginAcquire(p)
                      /\ UNCHANGED outcome
    /\ UNCHANGED <<rawVars, martVars, migrationVars, HealthVars>>

\* Settings are missing, a selector is unknown, ...
ConfigFails(p) ==
    /\ Alive(p) /\ step[p] = "config"
    /\ Record(p, "config", "failed")
    /\ Goto(p, "ended")
    /\ UNCHANGED <<lockVars, rawVars, martVars, migrationVars, plan, HealthVars>>

AcquireStep(p) ==
    /\ Alive(p) /\ step[p] = "refresh_lock"
    /\ \/ OpenLock(p) \/ ReadOwner(p) \/ ReclaimLock(p) \/ WriteOwner(p) \/ WriteOwnerFails(p)
    /\ UNCHANGED <<rawVars, martVars, migrationVars, refreshVars>>

\* DailyRefreshLockError is a failed step; any other error leaves the program.
LockDecided(p) ==
    /\ Alive(p) /\ step[p] = "refresh_lock"
    /\ \/ lpc[p] = "held" /\ Goto(p, "adapter") /\ UNCHANGED outcome
       \/ lpc[p] = "refused" /\ Goto(p, "ended") /\ Record(p, "refresh_lock", "failed")
       \/ lpc[p] = "raised" /\ Goto(p, "ended") /\ UNCHANGED outcome
    /\ UNCHANGED <<lockVars, rawVars, martVars, migrationVars, plan, HealthVars>>

-----------------------------------------------------------------------------
(* _append_step: the callback's return or exception decides what is next.  *)

NextStep(s) == CASE s = "adapter" -> "dbt_run"
                 [] s = "dbt_run" -> "dbt_test"
                 [] s = "dbt_test" -> "canonical"
                 [] s = "canonical" -> "raw_health"
                 [] s = "raw_health" -> "release"

StepOk(p, s)     == Record(p, s, "ok") /\ Goto(p, NextStep(s))
StepFailed(p, s) == Record(p, s, "failed") /\ Goto(p, "release")

-----------------------------------------------------------------------------
(* adapter: fetch and write, asset by asset                                *)

WritersOf(p) == {w \in Writers : w[1] = p}
Writing(p)   == \E w \in WritersOf(p) : wpc[w] \in {"tmp", "locked", "linked", "merging"}

FetchAndWrite(p, ds) ==
    /\ Alive(p) /\ step[p] = "adapter"
    /\ ds \in plan[p]
    /\ ~Writing(p)
    /\ \A w \in WritersOf(p) : wpc[w] # "failed"
    /\ StartWrite(<<p, ds>>) \/ TmpFails(<<p, ds>>)
    /\ UNCHANGED <<lockVars, martVars, migrationVars, refreshVars>>

RawStep(w) ==
    \/ EnterPartition(w) \/ Materialize(w) \/ RefuseRun(w) \/ ReadEntries(w)
    \/ CommitManifest(w) \/ ManifestFails(w)

WriteStep(p) ==
    /\ Alive(p)
    /\ \E w \in WritersOf(p) : RawStep(w)
    /\ UNCHANGED <<lockVars, martVars, migrationVars, refreshVars>>

\* Every asset of the loop has its artifact.
Complete(p) == \A ds \in plan[p] : wpc[<<p, ds>>] = "done"

AdapterEnds(p) ==
    /\ Alive(p) /\ step[p] = "adapter"
    /\ ~Writing(p)
    /\ \/ /\ Complete(p)
          /\ StepOk(p, "adapter")
       \/ /\ \E ds \in plan[p] : wpc[<<p, ds>>] \in {"idle", "failed"} \* the fetch or the write raised
          /\ StepFailed(p, "adapter")
    /\ UNCHANGED <<lockVars, rawVars, martVars, migrationVars, plan, HealthVars>>

\* A tool writes its artifact; it takes no refresh lock.
ToolStep(w) ==
    /\ w[1] \in Tools
    /\ StartWrite(w) \/ TmpFails(w) \/ RawStep(w) \/ WriterDies(w)
    /\ UNCHANGED <<lockVars, martVars, migrationVars, refreshVars>>

-----------------------------------------------------------------------------
(* dbt_run, dbt_test, canonical                                            *)

\* The dbt command exits with 0, or not, or runs into its timeout.
DbtStep(p) ==
    /\ Alive(p)
    /\ \E s \in {"dbt_run", "dbt_test"} :
          step[p] = s /\ (StepOk(p, s) \/ StepFailed(p, s))
    /\ UNCHANGED <<lockVars, rawVars, martVars, migrationVars, plan, HealthVars>>

MigrateStep(p) ==
    /\ Alive(p) /\ step[p] = "canonical"
    /\ LoadMigrations(p) \/ FetchApplied(p) \/ ApplyMigration(p) \/ FinishMigrations(p)
       \/ MigrationFails(p)
    /\ UNCHANGED <<lockVars, rawVars, martVars, refreshVars>>

\* The marts are loaded after the migrations, and only by a run that refreshed
\* every dataset there is.
PublishStep(p) ==
    /\ Alive(p) /\ step[p] = "canonical"
    /\ gpc[p] = "finished"
    /\ plan[p] = Datasets
    /\ PrepareLoad(p) \/ RefuseLoad(p) \/ Overwrite(p) \/ ReadBack(p) \/ PinSnapshots(p)
       \/ LoadRaises(p) \/ RollBack(p)
    /\ UNCHANGED <<lockVars, rawVars, migrationVars, refreshVars>>

CanonicalEnds(p) ==
    /\ Alive(p) /\ step[p] = "canonical"
    /\ \/ /\ gpc[p] = "finished"
          /\ IF plan[p] = Datasets THEN mpc[p] = "published" ELSE TRUE
          /\ StepOk(p, "canonical")
       \/ /\ gpc[p] = "raised" \/ mpc[p] = "failed"
          /\ StepFailed(p, "canonical")
    /\ UNCHANGED <<lockVars, rawVars, martVars, migrationVars, plan, HealthVars>>

-----------------------------------------------------------------------------
(* raw_health                                                              *)

ListPartition(p, ds) ==
    /\ Alive(p) /\ step[p] = "raw_health"
    /\ listing[p] = NoListing
    /\ ds \in plan[p] \ checked[p]
    /\ listing' = [listing EXCEPT ![p] = <<ds, manifest[<<date[p], ds>>]>>]
    /\ UNCHANGED <<lockVars, rawVars, martVars, migrationVars, step, plan, outcome, checked,
                   unhealthy>>

ComparePartition(p) ==
    LET ds == listing[p][1]
        issues == HealthIssues(<<date[p], ds>>, listing[p][2])
    IN  /\ Alive(p) /\ step[p] = "raw_health"
        /\ listing[p] # NoListing
        /\ unhealthy' = [unhealthy EXCEPT ![p] = @ \/ issues # {}]
        /\ checked' = [checked EXCEPT ![p] = @ \cup {ds}]
        /\ listing' = [listing EXCEPT ![p] = NoListing]
        /\ UNCHANGED <<lockVars, rawVars, martVars, migrationVars, step, plan, outcome>>

HealthEnds(p) ==
    /\ Alive(p) /\ step[p] = "raw_health"
    /\ checked[p] = plan[p]
    /\ IF unhealthy[p] THEN StepFailed(p, "raw_health") ELSE StepOk(p, "raw_health")
    /\ UNCHANGED <<lockVars, rawVars, martVars, migrationVars, plan, HealthVars>>

-----------------------------------------------------------------------------
\* The finally clause, then the end of the program.
ReleaseStep(p) ==
    /\ Alive(p) /\ step[p] = "release"
    /\ \/ ReleaseCheck(p) /\ UNCHANGED step
       \/ ReleaseUnlink(p) /\ UNCHANGED step
       \/ lpc[p] = "released" /\ Goto(p, "ended") /\ UNCHANGED lockVars
    /\ UNCHANGED <<rawVars, martVars, migrationVars, plan, outcome, HealthVars>>

\* What a run keeps in memory is gone with it.
Forget(p) ==
    /\ step' = [step EXCEPT ![p] = "config"]
    /\ plan' = [plan EXCEPT ![p] = {}]
    /\ outcome' = [outcome EXCEPT ![p] = NoOutcome]
    /\ listing' = [listing EXCEPT ![p] = NoListing]
    /\ checked' = [checked EXCEPT ![p] = {}]
    /\ unhealthy' = [unhealthy EXCEPT ![p] = FALSE]

Terminate(p) ==
    /\ step[p] = "ended"
    /\ Exit(p)
    /\ Forget(p)
    /\ UNCHANGED <<rawVars, martVars, migrationVars>>

\* The process is killed: its flock, its session and its half-done load go.
Crash(p) ==
    /\ step[p] # "ended"
    /\ Exit(p)
    /\ IF Writing(p)
       THEN \E w \in WritersOf(p) : WriterDies(w)
       ELSE UNCHANGED rawVars
    /\ IF mpc[p] \in Active THEN LoaderDies(p) ELSE UNCHANGED martVars
    /\ IF gpc[p] \in {"locking", "applying"} THEN SessionLost(p) ELSE UNCHANGED migrationVars
    /\ Forget(p)

Run(p) ==
    \/ Configure(p) \/ ConfigFails(p) \/ AcquireStep(p) \/ LockDecided(p)
    \/ \E ds \in Datasets : FetchAndWrite(p, ds) \/ ListPartition(p, ds)
    \/ WriteStep(p) \/ AdapterEnds(p) \/ DbtStep(p)
    \/ MigrateStep(p) \/ PublishStep(p) \/ CanonicalEnds(p)
    \/ ComparePartition(p) \/ HealthEnds(p) \/ ReleaseStep(p) \/ Terminate(p)

Next ==
    \/ \E p \in Procs : Run(p) \/ Crash(p)
    \/ \E w \in Writers : ToolStep(w)

Spec == Init /\ [][Next]_vars

\* A process that is not killed keeps running: dbt has a timeout, the fetches
\* are bounded, flock and the advisory lock pass to a waiter.
Fairness ==
    /\ \A p \in Procs : WF_vars(Run(p))
    /\ \A w \in Writers : WF_vars(ToolStep(w))

FairSpec == Spec /\ Fairness

-----------------------------------------------------------------------------
(* Properties                                                              *)

ResultOk(p) == step[p] = "ended" /\ \A s \in DOMAIN outcome[p] : outcome[p][s] # "failed"

\* A complete run that reports ok has its artifacts listed, the catalog
\* migrated and, when it covered every dataset, its marts served or replaced
\* by a later load.
OkMeansDone ==
    \A p \in Procs : ResultOk(p) /\ lpc[p] = "released" =>
        /\ \A ds \in plan[p] : <<p, ds>> \in Listed(<<date[p], ds>>)
        /\ applied = 1..Versions
        /\ plan[p] = Datasets => mpc[p] = "published"

\* The marts are never overwritten from a refresh whose earlier steps failed,
\* and the step order of a run is never left.
StepsInOrder ==
    \A p \in Procs, i, j \in 1..5 : i < j /\ outcome[p][StepNames[j]] # "none" =>
        outcome[p][StepNames[i]] \in {"ok", "skipped"}

\* Whatever run is killed where: the catalog's schema is a prefix of the
\* migrations, the steps of a run are taken in order, and a run that says ok has
\* done all it was asked for.
RefreshSafe == SchemaIsAPrefix /\ FinishedMeansMigrated /\ OkMeansDone /\ StepsInOrder

\* A run that was not killed ends, and its date is free for the next one.
RunsEnd == \A p \in Procs : step[p] # "config" ~> step[p] = "ended" \/ p \in dead

=============================================================================

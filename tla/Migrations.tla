----------------------------- MODULE Migrations -----------------------------
(***************************************************************************)
(* data_platform/ddl/runner.py: MigrationRunner.apply_pending applies the  *)
(* SQL files in version order, each in a transaction of its own together   *)
(* with its row of dp_schema_migrations, under a session-level advisory    *)
(* lock of PostgreSQL.  Migrations are numbered in version order.          *)
(***************************************************************************)
EXTENDS Naturals

CONSTANTS
    Runners,        \* sessions that call apply_pending
    Versions,       \* number of migration files
    NoRunner

ASSUME MigrationAssumption == Versions \in Nat /\ NoRunner \notin Runners

VARIABLES
    applied,        \* rows of dp_schema_migrations
    executed,       \* migration -> how often its SQL was committed
    advisory,       \* holder of pg_advisory_lock
    gpc,            \* where a runner is
    pending         \* the versions a runner found missing

migrationVars == <<applied, executed, advisory, gpc, pending>>

RunnerPhases == {"idle", "locking", "applying", "finished", "raised", "lost"}

MigrationTypeOK ==
    /\ applied \in SUBSET (1..Versions)
    /\ executed \in [1..Versions -> Nat]
    /\ advisory \in Runners \cup {NoRunner}
    /\ gpc \in [Runners -> RunnerPhases]
    /\ pending \in [Runners -> SUBSET (1..Versions)]

MigrationInit ==
    /\ applied = {}
    /\ executed = [v \in 1..Versions |-> 0]
    /\ advisory = NoRunner
    /\ gpc = [g \in Runners |-> "idle"]
    /\ pending = [g \in Runners |-> {}]

GMove(g, phase) == gpc' = [gpc EXCEPT ![g] = phase]

LoadMigrations(g) ==
    /\ gpc[g] = "idle"
    /\ GMove(g, "locking")
    /\ UNCHANGED <<applied, executed, advisory, pending>>

\* pg_advisory_lock blocks while another session has the lock.
LockIsFree(g) == advisory = NoRunner

\* With the lock the applied versions are read and the rest is pending.
FetchApplied(g) ==
    /\ gpc[g] = "locking"
    /\ LockIsFree(g)
    /\ advisory' = g
    /\ pending' = [pending EXCEPT ![g] = (1..Versions) \ applied]
    /\ GMove(g, "applying")
    /\ UNCHANGED <<applied, executed>>

NextPending(g) == CHOOSE v \in pending[g] : \A u \in pending[g] : v <= u

\* One migration commits: its SQL and its row.  The row's primary key refuses a
\* version that is there already, and the SQL is undone with it.
ApplyMigration(g) ==
    LET v == NextPending(g)
    IN  /\ gpc[g] = "applying"
        /\ pending[g] # {}
        /\ v \notin applied
        /\ applied' = applied \cup {v}
        /\ executed' = [executed EXCEPT ![v] = @ + 1]
        /\ pending' = [pending EXCEPT ![g] = @ \ {v}]
        /\ UNCHANGED <<advisory, gpc>>

\* _release_lock in the finally clause.
FinishMigrations(g) ==
    /\ gpc[g] = "applying"
    /\ pending[g] = {}
    /\ advisory' = NoRunner
    /\ GMove(g, "finished")
    /\ UNCHANGED <<applied, executed, pending>>

\* Mutant: the versions after the failing one are still applied.
AfterFailure_Continues(g) == pending' = [pending EXCEPT ![g] = @ \ {NextPending(g)}]
                             /\ UNCHANGED <<advisory, gpc>>

\* MigrationError leaves apply_pending; the lock is released.
AfterFailure(g) == advisory' = NoRunner /\ GMove(g, "raised") /\ UNCHANGED pending

MigrationFails(g) ==
    /\ gpc[g] = "applying"
    /\ pending[g] # {}
    /\ AfterFailure(g)
    /\ UNCHANGED <<applied, executed>>

\* The session is lost and PostgreSQL drops its advisory lock.
SessionLost(g) ==
    /\ gpc[g] \in {"locking", "applying"}
    /\ advisory' = IF advisory = g THEN NoRunner ELSE advisory
    /\ GMove(g, "lost")
    /\ pending' = [pending EXCEPT ![g] = {}]
    /\ UNCHANGED <<applied, executed>>

MigrationNext ==
    \E g \in Runners :
        \/ LoadMigrations(g) \/ FetchApplied(g) \/ ApplyMigration(g) \/ FinishMigrations(g)
        \/ MigrationFails(g) \/ SessionLost(g)

MigrationSpec == MigrationInit /\ [][MigrationNext]_migrationVars

-----------------------------------------------------------------------------
(* Properties                                                              *)

\* The schema is always the result of a prefix of the migrations, each run
\* once: a migration that fails or a runner that dies never lets a later one
\* through, and two runners never apply the same one.
SchemaIsAPrefix ==
    /\ \A v \in applied : 1..v \subseteq applied
    /\ \A v \in 1..Versions : executed[v] = IF v \in applied THEN 1 ELSE 0

\* A runner that finished has seen every migration applied.
FinishedMeansMigrated ==
    (\E g \in Runners : gpc[g] = "finished") => applied = 1..Versions

=============================================================================

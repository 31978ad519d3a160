---------------------------- MODULE MartPublish ----------------------------
(***************************************************************************)
(* data_platform/serving/canonical_writer.py, load_canonical_v2_marts: the *)
(* canonical_v2 tables and their lineage siblings are overwritten one by   *)
(* one in the Iceberg catalog, the snapshot of each is read back, and the  *)
(* snapshot-set file that pins them comes last; an exception rolls the     *)
(* attempted tables back.  Readers (serving/reader.py) resolve a mart      *)
(* through the set file and never through a table's head.                  *)
(*                                                                         *)
(* Tables are numbered in the order of the loop: 2i-1 is the v2 table of   *)
(* pair i, 2i its lineage table.  A snapshot is numbered when it is        *)
(* created and remembers its load.  A commit of the catalog (external)     *)
(* succeeds when the table is as the writer loaded it.                     *)
(***************************************************************************)
EXTENDS Naturals, Sequences

CONSTANTS
    Loads,          \* calls of load_canonical_v2_marts
    Pairs,          \* number of v2/lineage pairs
    NoLoad

ASSUME MartAssumption == Pairs \in Nat \ {0} /\ NoLoad \notin Loads

VARIABLES
    head,           \* table -> current snapshot (0: none)
    loadOf,         \* the snapshots created, each the load that wrote it
    setFile,        \* _mart_snapshot_set.json: table -> pinned snapshot (0: none)
    mpc,            \* where a load is
    at,             \* the table it is at
    base,           \* table -> head when the load prepared it
    seen,           \* table -> snapshot read back after the overwrite
    overlapped,     \* history: two loads were under way at once
    unrestored      \* history: a load died half-way or a rollback failed

martVars == <<head, loadOf, setFile, mpc, at, base, seen, overlapped, unrestored>>

Tables    == 1..(2 * Pairs)
Snapshots == 0..Len(loadOf)
LoadPhases == {"idle", "overwrite", "readback", "pin", "rollback", "published", "failed",
               "crashed"}
Active == {"overwrite", "readback", "pin", "rollback"}

MartTypeOK ==
    /\ head \in [Tables -> Snapshots]
    /\ loadOf \in Seq(Loads)
    /\ setFile \in [Tables -> Snapshots]
    /\ mpc \in [Loads -> LoadPhases]
    /\ at \in [Loads -> 0..(2 * Pairs)]
    /\ base \in [Loads -> [Tables -> Snapshots]]
    /\ seen \in [Loads -> [Tables -> Snapshots]]
    /\ overlapped \in BOOLEAN
    /\ unrestored \in BOOLEAN

NoSnapshots == [t \in Tables |-> 0]

MartInit ==
    /\ head = NoSnapshots
    /\ loadOf = <<>>
    /\ setFile = NoSnapshots
    /\ mpc = [l \in Loads |-> "idle"]
    /\ at = [l \in Loads |-> 0]
    /\ base = [l \in Loads |-> NoSnapshots]
    /\ seen = [l \in Loads |-> NoSnapshots]
    /\ overlapped = FALSE
    /\ unrestored = FALSE

MMove(l, phase) == mpc' = [mpc EXCEPT ![l] = phase]

\* The locals of the call go.
Return(l) ==
    /\ at' = [at EXCEPT ![l] = 0]
    /\ base' = [base EXCEPT ![l] = NoSnapshots]
    /\ seen' = [seen EXCEPT ![l] = NoSnapshots]

\* Every table is loaded, its relation read and validated, and the v2 rows are
\* paired with the lineage rows; then the first overwrite is next.
PrepareLoad(l) ==
    /\ mpc[l] = "idle"
    /\ base' = [base EXCEPT ![l] = head]
    /\ at' = [at EXCEPT ![l] = 1]
    /\ MMove(l, "overwrite")
    /\ overlapped' = (overlapped \/ \E k \in Loads : mpc[k] \in Active)
    /\ UNCHANGED <<head, loadOf, setFile, seen, unrestored>>

\* An empty relation, a field set or a pairing that does not match: nothing is
\* written.
RefuseLoad(l) ==
    /\ mpc[l] = "idle"
    /\ MMove(l, "failed")
    /\ UNCHANGED <<head, loadOf, setFile, at, base, seen, overlapped, unrestored>>

Overwrite(l) ==
    LET t == at[l]
    IN  /\ mpc[l] = "overwrite"
        /\ head[t] = base[l][t]
        /\ loadOf' = Append(loadOf, l)
        /\ head' = [head EXCEPT ![t] = Len(loadOf')]
        /\ MMove(l, "readback")
        /\ UNCHANGED <<setFile, at, base, seen, overlapped, unrestored>>

\* refresh() and current_snapshot(): whatever the head of the table is now.
ReadBack(l) ==
    LET t == at[l]
    IN  /\ mpc[l] = "readback"
        /\ seen' = [seen EXCEPT ![l][t] = head[t]]
        /\ IF t < 2 * Pairs
           THEN at' = [at EXCEPT ![l] = t + 1] /\ MMove(l, "overwrite")
           ELSE MMove(l, "pin") /\ UNCHANGED at
        /\ UNCHANGED <<head, loadOf, setFile, base, overlapped, unrestored>>

\* Mutant: the set is extended table by table.
Pinned_AsSeen(l) == [t \in Tables |-> IF t < at[l] THEN seen[l][t] ELSE setFile[t]]

\* The set file names every table of the load.
Pinned(l) == seen[l]

PinSnapshots(l) ==
    /\ mpc[l] = "pin"
    /\ setFile' = Pinned(l)
    /\ MMove(l, "published")
    /\ Return(l)
    /\ UNCHANGED <<head, loadOf, overlapped, unrestored>>

\* The steps inside the try.
Guarded == {"overwrite", "readback", "pin"}

\* An exception of any step between the first overwrite and the set file, a
\* commit refused because the table has moved on included.
LoadRaises(l) ==
    /\ mpc[l] \in Guarded
    /\ MMove(l, "rollback")
    /\ UNCHANGED <<head, loadOf, setFile, at, base, seen, overlapped, unrestored>>

RollbackFrom(l) == at[l]

\* _rollback_attempted_overwrites, in reverse: a table with a snapshot of
\* before gets it back, unless the catalog refuses, which is only logged.
RollBack(l) ==
    /\ mpc[l] = "rollback"
    /\ \E failing \in SUBSET (1..RollbackFrom(l)) :
          LET restored == {t \in 1..RollbackFrom(l) : base[l][t] # 0} \ failing
          IN  /\ head' = [t \in Tables |-> IF t \in restored THEN base[l][t] ELSE head[t]]
              /\ unrestored' = (unrestored \/ failing # {})
    /\ MMove(l, "failed")
    /\ Return(l)
    /\ UNCHANGED <<loadOf, setFile, overlapped>>

LoaderDies(l) ==
    /\ mpc[l] \in Active
    /\ MMove(l, "crashed")
    /\ unrestored' = TRUE
    /\ Return(l)
    /\ UNCHANGED <<head, loadOf, setFile, overlapped>>

MartNext ==
    \E l \in Loads :
        \/ PrepareLoad(l) \/ RefuseLoad(l) \/ Overwrite(l) \/ ReadBack(l) \/ PinSnapshots(l)
        \/ LoadRaises(l) \/ RollBack(l) \/ LoaderDies(l)

MartSpec == MartInit /\ [][MartNext]_martVars

-----------------------------------------------------------------------------
(* Properties                                                              *)

\* The load a reader of table t gets its rows from.
ServedLoad(t) == IF setFile[t] = 0 THEN NoLoad ELSE loadOf[setFile[t]]

\* The set pins tables of one and the same load, so that every v2 row served
\* has its lineage row, as the docstring of load_canonical_v2_marts promises
\* (canonical_writer.py:769, "pins them as a co-published pair").
SetIsOneLoad == \A t, u \in Tables : ServedLoad(t) = ServedLoad(u)

\* The same whenever no two loads have run at once: crashes, failing commits,
\* failing rollbacks and retries do not mix loads.
SetIsOneLoadUnlessOverlap == ~overlapped => SetIsOneLoad

\* Rows of a load that failed are never served.
ServedLoadsArePublished ==
    ~overlapped => \A t \in Tables : ServedLoad(t) # NoLoad => mpc[ServedLoad(t)] = "published"

\* Once a failed load is rolled back, the heads of the tables are again what
\* the readers see, so that the next load starts from the published state.
RollbackRestoresPublished ==
    ( /\ ~overlapped /\ ~unrestored
      /\ \A l \in Loads : mpc[l] \notin Active
      /\ setFile # NoSnapshots ) => head = setFile

\* Without overlapping loads the readers are served one published load, before,
\* during and after a load that fails.
MartSafe == SetIsOneLoadUnlessOverlap /\ ServedLoadsArePublished /\ RollbackRestoresPublished
=============================================================================

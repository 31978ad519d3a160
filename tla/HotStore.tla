------------------------------ MODULE HotStore ------------------------------
(***************************************************************************)
(* mvp20's realtime path: scripts/collector.py fetches the data sources in *)
(* turn and upserts the rows into runtime/hot.sqlite, mvp20/sse.py streams *)
(* them to browsers as a snapshot followed by deltas.                      *)
(*                                                                         *)
(* One stock is followed.  A row <<origin, dp>> of realtime_current belongs*)
(* to the stock itself or to a sentinel (its industries, its market).  Of  *)
(* a value the model keeps the collection cycle that fetched it and the    *)
(* second it was stamped with.  The connections are in autocommit mode, so *)
(* every upserted row is a commit of its own.                              *)
(***************************************************************************)
EXTENDS Naturals, Sequences, FiniteSets

CONSTANTS
    Dps,            \* data point ids
    Emits,          \* sequence of sources, each the set of rows it can emit
    Clients,        \* open EventSource connections
    MaxTime,        \* bound: seconds
    MaxCycle        \* bound: collection cycles

Origins == <<"stock", "industry", "market">>
Rows    == {Origins[i] : i \in 1..3} \X Dps
Own     == {"stock"} \X Dps

ASSUME HotStoreAssumption ==
    /\ Emits \in Seq(SUBSET Rows)
    /\ MaxTime \in Nat \ {0}
    /\ MaxCycle \in Nat

VARIABLES
    clock,          \* int(time.time())
    ver,            \* row -> cycle whose value is stored (0: no row)
    at,             \* row -> updated_at
    fullSync,       \* freshness_meta.last_full_sync_at of layer realtime (0: none)
    pc,             \* collector: "down", "fetching", "writing", "sleeping"
    source,         \* collector: index of the next source to call
    tick,           \* collector: its loop counter, 0 again in a new process
    cycle,          \* history: cycles started so far by all processes
    batch,          \* collector: rows fetched and not yet upserted
    stamp,          \* collector: row -> updated_at of the fetched row
    emitted,        \* history: cycle -> rows it fetched
    covered,        \* history: cycles whose freshness stamp was written
    spc,            \* client -> "closed", "greeted", "polling", "reading"
    view,           \* client -> dp -> what the stream has sent it last
    lastCheck,      \* client -> last_check
    now,            \* client -> now of the current poll
    ahead           \* history: client -> own rows committed with a stamp past last_check

storeVars  == <<ver, at>>
batchVars  == <<batch, stamp, emitted>>
streamVars == <<spc, view, lastCheck, now>>
vars == <<clock, storeVars, fullSync, pc, source, tick, cycle, batchVars, covered,
          streamVars, ahead>>

Times  == 0..MaxTime
Cycles == 0..MaxCycle
Nothing == [from |-> "none", ver |-> 0]
Values == [from : {Origins[i] : i \in 1..3}, ver : Cycles] \cup {Nothing}

TypeOK ==
    /\ clock \in Times
    /\ ver \in [Rows -> Cycles]
    /\ at \in [Rows -> Times]
    /\ fullSync \in Times
    /\ pc \in {"down", "fetching", "writing", "sleeping"}
    /\ source \in 1..(Len(Emits) + 1)
    /\ tick \in Cycles
    /\ cycle \in Cycles /\ tick <= cycle
    /\ batch \in SUBSET Rows
    /\ stamp \in [Rows -> Times]
    /\ emitted \in [Cycles -> SUBSET Rows]
    /\ covered \in SUBSET Cycles
    /\ spc \in [Clients -> {"closed", "greeted", "polling", "reading"}]
    /\ view \in [Clients -> [Dps -> Values]]
    /\ lastCheck \in [Clients -> Times]
    /\ now \in [Clients -> Times]
    /\ ahead \in [Clients -> SUBSET Own]

Init ==
    /\ clock = 1
    /\ ver = [r \in Rows |-> 0]
    /\ at = [r \in Rows |-> 0]
    /\ fullSync = 0
    /\ pc = "down"
    /\ source = 1
    /\ tick = 0
    /\ cycle = 0
    /\ batch = {}
    /\ stamp = [r \in Rows |-> 0]
    /\ emitted = [k \in Cycles |-> {}]
    /\ covered = {}
    /\ spc = [c \in Clients |-> "closed"]
    /\ view = [c \in Clients |-> [d \in Dps |-> Nothing]]
    /\ lastCheck = [c \in Clients |-> 0]
    /\ now = [c \in Clients |-> 0]
    /\ ahead = [c \in Clients |-> {}]

Second ==
    /\ clock < MaxTime
    /\ clock' = clock + 1
    /\ UNCHANGED <<storeVars, fullSync, pc, source, tick, cycle, batchVars, covered,
                   streamVars, ahead>>

-----------------------------------------------------------------------------
(* The collector                                                           *)

\* A process starts (or is respawned) or goes round its loop.
CycleBegin ==
    /\ pc \in {"down", "sleeping"}
    /\ cycle < MaxCycle
    /\ pc' = "fetching"
    /\ source' = 1
    /\ cycle' = cycle + 1
    /\ UNCHANGED <<clock, storeVars, fullSync, tick, batchVars, covered, streamVars, ahead>>

NextTick == tick + 1

\* Mutant: the rows are stamped with the start of the process, worked out from
\* its loop counter and a nominal interval.
FetchStamp_ProcessStart == clock - 2 * tick

\* now = int(time.time()), taken when the source starts to fetch.
FetchStamp == clock

\* One source is called; it returns rows, or none when it has none to offer
\* or fails, which fetch_real_batch swallows.
FetchSource(rows) ==
    /\ pc = "fetching"
    /\ source <= Len(Emits)
    /\ rows \subseteq Emits[source]
    /\ source' = source + 1
    /\ batch' = batch \cup rows
    /\ stamp' = [r \in Rows |-> IF r \in rows THEN FetchStamp ELSE stamp[r]]
    /\ emitted' = [emitted EXCEPT ![cycle] = @ \cup rows]
    /\ UNCHANGED <<clock, storeVars, fullSync, pc, tick, cycle, covered, streamVars, ahead>>

FetchDone ==
    /\ pc = "fetching"
    /\ source > Len(Emits)
    /\ pc' = IF batch = {} THEN "sleeping" ELSE "writing"
    /\ tick' = IF batch = {} THEN NextTick ELSE tick
    /\ UNCHANGED <<clock, storeVars, fullSync, source, cycle, batchVars, covered,
                   streamVars, ahead>>

\* upsert_realtime commits one row of the batch.
UpsertRow(r) ==
    /\ pc = "writing"
    /\ r \in batch
    /\ batch' = batch \ {r}
    /\ ver' = [ver EXCEPT ![r] = cycle]
    /\ at' = [at EXCEPT ![r] = stamp[r]]
    /\ stamp' = [stamp EXCEPT ![r] = 0]
    /\ ahead' = [c \in Clients |->
                    IF r \in Own /\ stamp[r] > lastCheck[c]
                    THEN ahead[c] \cup {r} ELSE ahead[c] \ {r}]
    /\ UNCHANGED <<clock, fullSync, pc, source, tick, cycle, emitted, covered, streamVars>>

\* Mutant: the freshness stamp is written before the rows.
BatchWritten_Early == TRUE

BatchWritten == batch = {}

\* update_freshness(is_full=True), after which the collector sleeps.
StampFreshness ==
    /\ pc = "writing"
    /\ BatchWritten
    /\ fullSync' = clock
    /\ covered' = covered \cup {cycle}
    /\ batch' = {}
    /\ stamp' = [r \in Rows |-> 0]
    /\ tick' = NextTick
    /\ pc' = "sleeping"
    /\ UNCHANGED <<clock, storeVars, source, cycle, emitted, streamVars, ahead>>

\* The process is stopped or dies: an exception outside a source ("database is
\* locked"), SIGKILL.  What it had fetched and not written is gone.
CollectorExit ==
    /\ pc # "down"
    /\ pc' = "down"
    /\ batch' = {}
    /\ stamp' = [r \in Rows |-> 0]
    /\ source' = 1
    /\ tick' = 0
    /\ UNCHANGED <<clock, storeVars, fullSync, cycle, emitted, covered, streamVars, ahead>>

-----------------------------------------------------------------------------
(* The streams                                                             *)

\* read_hot_snapshot: per data point the row of the first origin that has one.
Snapshot(d) ==
    LET present == {i \in 1..3 : ver[<<Origins[i], d>>] # 0}
    IN  IF present = {} THEN Nothing
        ELSE LET first == CHOOSE i \in present : \A j \in present : i <= j
             IN  [from |-> Origins[first], ver |-> ver[<<Origins[first], d>>]]

StreamOpen(c) ==
    /\ spc[c] = "closed"
    /\ spc' = [spc EXCEPT ![c] = "greeted"]
    /\ view' = [view EXCEPT ![c] = [d \in Dps |-> Snapshot(d)]]
    /\ lastCheck' = [lastCheck EXCEPT ![c] = 0]
    /\ ahead' = [ahead EXCEPT ![c] = {}]
    /\ UNCHANGED <<clock, storeVars, fullSync, pc, source, tick, cycle, batchVars,
                   covered, now>>

\* The snapshot was written; only now does last_check start.
StreamArm(c) ==
    /\ spc[c] = "greeted"
    /\ spc' = [spc EXCEPT ![c] = "polling"]
    /\ lastCheck' = [lastCheck EXCEPT ![c] = clock]
    /\ ahead' = [ahead EXCEPT ![c] = {r \in @ : at[r] > clock}]
    /\ UNCHANGED <<clock, storeVars, fullSync, pc, source, tick, cycle, batchVars,
                   covered, view, now>>

\* sleep(poll_interval_seconds), at least a second, and now is taken.
PollBegin(c) ==
    /\ spc[c] = "polling"
    /\ clock > lastCheck[c]
    /\ spc' = [spc EXCEPT ![c] = "reading"]
    /\ now' = [now EXCEPT ![c] = clock]
    /\ UNCHANGED <<clock, storeVars, fullSync, pc, source, tick, cycle, batchVars,
                   covered, view, lastCheck, ahead>>

\* The since_unix argument of read_hot_snapshot_changed_since.
Since(c) == lastCheck[c]

\* Rows of the stock itself with updated_at > last_check.
Delta(c) == {d \in Dps : ver[<<"stock", d>>] # 0 /\ at[<<"stock", d>>] > Since(c)}

PollRead(c) ==
    /\ spc[c] = "reading"
    /\ spc' = [spc EXCEPT ![c] = "polling"]
    /\ view' = [view EXCEPT ![c] = [d \in Dps |->
                    IF d \in Delta(c)
                    THEN [from |-> "stock", ver |-> ver[<<"stock", d>>]] ELSE @[d]]]
    /\ lastCheck' = [lastCheck EXCEPT ![c] = now[c]]
    /\ UNCHANGED <<clock, storeVars, fullSync, pc, source, tick, cycle, batchVars,
                   covered, now, ahead>>

\* The client is gone, the stream reached its maximal duration, or a read or a
\* write failed; an EventSource reconnects with StreamOpen.
StreamClose(c) ==
    /\ spc[c] # "closed"
    /\ spc' = [spc EXCEPT ![c] = "closed"]
    /\ view' = [view EXCEPT ![c] = [d \in Dps |-> Nothing]]
    /\ lastCheck' = [lastCheck EXCEPT ![c] = 0]
    /\ now' = [now EXCEPT ![c] = 0]
    /\ ahead' = [ahead EXCEPT ![c] = {}]
    /\ UNCHANGED <<clock, storeVars, fullSync, pc, source, tick, cycle, batchVars, covered>>

CollectorStep ==
    \/ CycleBegin
    \/ \E rows \in SUBSET Rows : FetchSource(rows)
    \/ FetchDone
    \/ \E r \in Rows : UpsertRow(r)
    \/ StampFreshness
    \/ CollectorExit

StreamStep(c) ==
    StreamOpen(c) \/ StreamArm(c) \/ PollBegin(c) \/ PollRead(c) \/ StreamClose(c)

Next == Second \/ CollectorStep \/ \E c \in Clients : StreamStep(c)

Spec == Init /\ [][Next]_vars

-----------------------------------------------------------------------------
(* Properties                                                              *)

\* A freshness stamp vouches for its whole batch: when freshness_meta was
\* stamped for a cycle, every row the cycle fetched is stored or has been
\* replaced by a later cycle, although the rows are committed one by one and
\* the process may die between any two of them.
FreshnessCoversBatch ==
    \A k \in covered : \A r \in emitted[k] : ver[r] >= k

\* updated_at of a stored row never goes back and its value is never replaced
\* by one of an earlier cycle, across respawned collectors too.
RowsNeverOlder ==
    [][\A r \in Rows : at'[r] >= at[r] /\ ver'[r] >= ver[r]]_vars

Missing(c, r) == view[c][r[2]] # [from |-> "stock", ver |-> ver[r]]

\* A row of the stock that was committed with a stamp past the stream's
\* last_check is delivered before last_check passes the stamp: a delta poll
\* loses none of the rows that its condition was written for.
AheadRowsPending ==
    \A c \in Clients : \A r \in ahead[c] :
        spc[c] \in {"polling", "reading"} /\ Missing(c, r) => at[r] > lastCheck[c]

\* A stamped layer holds the whole batch the stamp speaks of, and a row that is
\* ahead of what a stream has sent is still going to be sent.
HotSafe == FreshnessCoversBatch /\ AheadRowsPending

\* sse.py:72 says the loop queries "the hot snapshot for rows changed since the
\* last cycle, emit them as one event": after a poll the client knows the
\* current value of every row of its stock.
ChangedRowsDelivered ==
    [][\A c \in Clients :
         spc[c] = "reading" /\ spc'[c] = "polling"
            => \A r \in Own : ver[r] # 0 => ~Missing(c, r)']_vars

=============================================================================

--------------------------- MODULE HotStoreProofs ---------------------------
(***************************************************************************)
(* Proofs about HotStore: the freshness stamp covers its batch, stored     *)
(* rows never get older and a poll loses no row stamped past its boundary, *)
(* for any sources, data points, clients, times and numbers of cycles.     *)
(***************************************************************************)
EXTENDS HotStore, TLAPS

\* The cycle in progress is the newest, has not been stamped, and its number
\* is ahead of the loop counter.
CycleInv ==
    /\ pc \in {"fetching", "writing"} => cycle \notin covered /\ tick < cycle
    /\ \A k \in Cycles : k > cycle => k \notin covered /\ emitted[k] = {}
    /\ \A r \in Rows : ver[r] <= cycle

\* What the cycle in progress has fetched is in the batch or in the store.
BatchInv ==
    /\ pc = "fetching" => emitted[cycle] \subseteq batch
    /\ pc = "writing" => \A r \in emitted[cycle] : r \in batch \/ ver[r] = cycle
    /\ pc \in {"down", "sleeping"} => batch = {}

\* Stored stamps are not in the future, and a fetched row is no older than
\* the row it will replace.
StampInv ==
    /\ \A r \in Rows : at[r] <= clock /\ stamp[r] <= clock
    /\ \A r \in batch : at[r] <= stamp[r]

\* Rows a stream has to deliver are stored.
AheadInv == \A c \in Clients : \A r \in ahead[c] : ver[r] # 0

StoreInv ==
    /\ TypeOK
    /\ CycleInv
    /\ BatchInv
    /\ StampInv
    /\ AheadInv
    /\ FreshnessCoversBatch
    /\ AheadRowsPending

-----------------------------------------------------------------------------
(* Types                                                                   *)

\* The rows of the sources are rows of the realtime table.
LEMMA OwnRows == Own \subseteq Rows
  <1>1. Origins[1] = "stock"
    BY DEF Origins
  <1> QED
    BY <1>1 DEF Own, Rows

\* What a collector can put in a cell is a value.
LEMMA ValuesTyped ==
  ASSUME TypeOK
  PROVE  /\ Nothing \in Values
         /\ \A d \in Dps : Snapshot(d) \in Values
         /\ \A d \in Dps : [from |-> "stock", ver |-> ver[<<"stock", d>>]] \in Values
  <1>1. Nothing \in Values
    BY DEF Values
  <1>2. ASSUME NEW i \in 1..3, NEW d \in Dps
        PROVE  [from |-> Origins[i], ver |-> ver[<<Origins[i], d>>]] \in Values
    <2>1. <<Origins[i], d>> \in Rows
      BY DEF Rows
    <2> QED
      BY <2>1 DEF Values, TypeOK
  <1>3. ASSUME NEW d \in Dps PROVE Snapshot(d) \in Values
    <2> DEFINE present == {i \in 1..3 : ver[<<Origins[i], d>>] # 0}
               first == CHOOSE i \in present : \A j \in present : i <= j
    <2>1. CASE present = {}
      BY <1>1, <2>1 DEF Snapshot
    <2>2. CASE present # {}
      <3>1. \E i \in present : \A j \in present : i <= j
        <4>1. \A j \in present : j = 1 \/ j = 2 \/ j = 3
          OBVIOUS
        <4> HIDE DEF present
        <4> QED
          BY <2>2, <4>1
      <3>2. first \in present
        BY <3>1
      <3> QED
        BY <1>2, <2>2, <3>2 DEF Snapshot
    <2> QED
      BY <2>1, <2>2
  <1>4. Origins[1] = "stock"
    BY DEF Origins
  <1> QED
    BY <1>1, <1>2, <1>3, <1>4

\* Init is well typed.
LEMMA InitTyped ==
  ASSUME Init
  PROVE  TypeOK
  <1>1. Len(Emits) \in Nat
    BY HotStoreAssumption
  <1>2. Nothing \in Values
    BY DEF Values
  <1> QED
    BY <1>1, <1>2, HotStoreAssumption DEF Init, TypeOK, Times, Cycles

\* Every step of the collector keeps the types.
LEMMA CollectorTyped ==
  ASSUME StoreInv, CollectorStep
  PROVE  TypeOK'
  <1> USE HotStoreAssumption DEF StoreInv, TypeOK, Cycles, Times
  <1>1. Len(Emits) \in Nat
    OBVIOUS
  <1>2. CASE CycleBegin
    BY <1>1, <1>2 DEF CycleBegin, storeVars, batchVars, streamVars
  <1>3. ASSUME NEW rows \in SUBSET Rows, FetchSource(rows) PROVE TypeOK'
    <2>1. /\ stamp' \in [Rows -> Times]
          /\ emitted' \in [Cycles -> SUBSET Rows]
          /\ source' \in 1..(Len(Emits) + 1)
      BY <1>1, <1>3 DEF FetchSource, FetchStamp
    <2> QED
      BY <1>3, <2>1 DEF FetchSource, storeVars, streamVars
  <1>4. CASE FetchDone
    BY <1>4 DEF FetchDone, NextTick, CycleInv, storeVars, batchVars, streamVars
  <1>5. ASSUME NEW r \in Rows, UpsertRow(r) PROVE TypeOK'
    <2>1. ver' \in [Rows -> Cycles] /\ at' \in [Rows -> Times] /\ stamp' \in [Rows -> Times]
      BY <1>5 DEF UpsertRow
    <2>2. ahead' \in [Clients -> SUBSET Own]
      BY <1>5 DEF UpsertRow
    <2> QED
      BY <1>5, <2>1, <2>2 DEF UpsertRow, streamVars
  <1>6. CASE StampFreshness
    BY <1>6 DEF StampFreshness, NextTick, CycleInv, storeVars, streamVars
  <1>7. CASE CollectorExit
    BY <1>1, <1>7 DEF CollectorExit, storeVars, streamVars
  <1> QED
    BY <1>2, <1>3, <1>4, <1>5, <1>6, <1>7 DEF CollectorStep

\* Every step of a stream keeps the types.
LEMMA StreamTyped ==
  ASSUME StoreInv, NEW c \in Clients, StreamStep(c)
  PROVE  TypeOK'
  <1> USE ValuesTyped, HotStoreAssumption DEF StoreInv, TypeOK, storeVars, batchVars
  <1>0. 0 \in Times
    BY DEF Times
  <1>1. CASE StreamOpen(c)
    BY <1>0, <1>1 DEF StreamOpen
  <1>2. CASE StreamArm(c)
    BY <1>2 DEF StreamArm
  <1>3. CASE PollBegin(c)
    BY <1>3 DEF PollBegin
  <1>4. CASE PollRead(c)
    <2>1. view' \in [Clients -> [Dps -> Values]]
      BY <1>4 DEF PollRead
    <2> QED
      BY <1>4, <2>1 DEF PollRead
  <1>5. CASE StreamClose(c)
    BY <1>0, <1>5 DEF StreamClose
  <1> QED
    BY <1>1, <1>2, <1>3, <1>4, <1>5 DEF StreamStep

\* Every step keeps the types.
LEMMA NextTyped ==
  ASSUME StoreInv, [Next]_vars
  PROVE  TypeOK'
  <1>1. CASE Second
    BY <1>1, HotStoreAssumption DEF StoreInv, TypeOK, Second, Times, storeVars, batchVars, streamVars
  <1>2. CASE UNCHANGED vars
    BY <1>2 DEF StoreInv, TypeOK, vars, storeVars, batchVars, streamVars
  <1> QED
    BY <1>1, <1>2, CollectorTyped, StreamTyped DEF Next

-----------------------------------------------------------------------------
(* The invariant                                                           *)

\* Init establishes StoreInv.
LEMMA InitInv ==
  ASSUME Init
  PROVE  StoreInv
  <1>1. TypeOK
    BY InitTyped
  <1>2. CycleInv /\ BatchInv /\ StampInv
    BY <1>1, HotStoreAssumption DEF Init, TypeOK, Cycles, CycleInv, BatchInv, StampInv
  <1>3. AheadInv /\ FreshnessCoversBatch /\ AheadRowsPending
    BY DEF Init, AheadInv, FreshnessCoversBatch, AheadRowsPending
  <1> QED
    BY <1>1, <1>2, <1>3 DEF StoreInv

CollectorInv == CycleInv /\ BatchInv /\ StampInv /\ FreshnessCoversBatch
StreamInv    == AheadInv /\ AheadRowsPending

\* What the streams rely on is left alone by all but the upsert.
LEMMA StreamsUntouched ==
  ASSUME StoreInv, UNCHANGED <<storeVars, streamVars, ahead>>
  PROVE  StreamInv'
  BY DEF StoreInv, StreamInv, AheadInv, AheadRowsPending, Missing, storeVars, streamVars

\* A step of the collector keeps what the stamps and the streams promise.
LEMMA CollectorSafe ==
  ASSUME StoreInv, CollectorStep
  PROVE  CollectorInv' /\ StreamInv'
  <1> USE DEF StoreInv, TypeOK, Cycles, Times
  <1>1. CASE CycleBegin
    <2> USE <1>1 DEF CycleBegin, storeVars, batchVars
    <2>1. CycleInv'
      BY DEF CycleInv
    <2>2. BatchInv'
      <3>1. emitted[cycle + 1] = {}
        BY HotStoreAssumption DEF CycleInv
      <3> QED
        BY <3>1 DEF BatchInv
    <2>3. StampInv' /\ FreshnessCoversBatch'
      BY DEF StampInv, FreshnessCoversBatch
    <2> QED
      BY <2>1, <2>2, <2>3, StreamsUntouched DEF CollectorInv
  <1>2. ASSUME NEW rows \in SUBSET Rows, FetchSource(rows)
        PROVE  CollectorInv' /\ StreamInv'
    <2> USE <1>2 DEF FetchSource, storeVars
    <2>1. /\ emitted'[cycle] = emitted[cycle] \cup rows
          /\ \A k \in Cycles : k # cycle => emitted'[k] = emitted[k]
      OBVIOUS
    <2>2. CycleInv'
      BY <2>1 DEF CycleInv
    <2>3. BatchInv'
      BY <2>1 DEF BatchInv
    <2>4. StampInv'
      BY DEF StampInv, FetchStamp
    <2>5. FreshnessCoversBatch'
      BY <2>1 DEF FreshnessCoversBatch, CycleInv
    <2> QED
      BY <2>2, <2>3, <2>4, <2>5, StreamsUntouched DEF CollectorInv
  <1>3. CASE FetchDone
    <2> USE <1>3 DEF FetchDone, storeVars, batchVars, NextTick
    <2>1. CycleInv' /\ BatchInv'
      BY DEF CycleInv, BatchInv
    <2>2. StampInv' /\ FreshnessCoversBatch'
      BY DEF StampInv, FreshnessCoversBatch
    <2> QED
      BY <2>1, <2>2, StreamsUntouched DEF CollectorInv
  <1>4. ASSUME NEW r \in Rows, UpsertRow(r) PROVE CollectorInv' /\ StreamInv'
    <2> USE <1>4 DEF UpsertRow
    <2>1. /\ ver'[r] = cycle /\ at'[r] = stamp[r] /\ stamp'[r] = 0
          /\ \A q \in Rows : q # r => ver'[q] = ver[q] /\ at'[q] = at[q] /\ stamp'[q] = stamp[q]
      OBVIOUS
    <2>2. CycleInv'
      BY <2>1 DEF CycleInv
    <2>3. BatchInv'
      BY <2>1 DEF BatchInv
    <2>4. StampInv'
      BY <2>1 DEF StampInv
    <2>5. FreshnessCoversBatch'
      BY <2>1 DEF FreshnessCoversBatch, CycleInv
    <2>6. cycle # 0
      BY DEF CycleInv
    <2>7. \A c \in Clients : \A q \in ahead'[c] :
            /\ q \in Own /\ q \in Rows
            /\ q = r => stamp[r] > lastCheck[c]
            /\ q # r => q \in ahead[c]
      BY OwnRows
    <2>8. AheadInv'
      BY <2>1, <2>6, <2>7 DEF AheadInv
    <2>9. AheadRowsPending'
      BY <2>1, <2>7 DEF AheadRowsPending, Missing, streamVars
    <2> QED
      BY <2>2, <2>3, <2>4, <2>5, <2>8, <2>9 DEF CollectorInv, StreamInv
  <1>5. CASE StampFreshness
    <2> USE <1>5 DEF StampFreshness, storeVars, NextTick
    <2>1. CycleInv' /\ BatchInv'
      BY DEF CycleInv, BatchInv
    <2>2. StampInv'
      BY DEF StampInv
    <2>3. FreshnessCoversBatch'
      BY DEF FreshnessCoversBatch, BatchInv, BatchWritten
    <2> QED
      BY <2>1, <2>2, <2>3, StreamsUntouched DEF CollectorInv
  <1>6. CASE CollectorExit
    <2> USE <1>6 DEF CollectorExit, storeVars
    <2>1. CycleInv' /\ BatchInv'
      BY DEF CycleInv, BatchInv
    <2>2. StampInv' /\ FreshnessCoversBatch'
      BY DEF StampInv, FreshnessCoversBatch
    <2> QED
      BY <2>1, <2>2, StreamsUntouched DEF CollectorInv
  <1> QED
    BY <1>1, <1>2, <1>3, <1>4, <1>5, <1>6 DEF CollectorStep

\* A step of a stream keeps what its boundary promises.
LEMMA StreamSafe ==
  ASSUME StoreInv, NEW c \in Clients, StreamStep(c)
  PROVE  StreamInv'
  <1> USE DEF StoreInv, TypeOK, storeVars
  <1>1. \A e \in Clients \ {c} : /\ spc'[e] = spc[e] /\ view'[e] = view[e]
                                 /\ lastCheck'[e] = lastCheck[e] /\ ahead'[e] = ahead[e]
    BY DEF StreamStep, StreamOpen, StreamArm, PollBegin, PollRead, StreamClose
  <1>2. UNCHANGED <<ver, at>> /\ ahead'[c] \subseteq ahead[c]
    BY DEF StreamStep, StreamOpen, StreamArm, PollBegin, PollRead, StreamClose
  <1>3. AheadInv'
    BY <1>1, <1>2 DEF AheadInv
  <1> DEFINE Pending(e) == \A r \in ahead[e] :
                 spc[e] \in {"polling", "reading"} /\ Missing(e, r) => at[r] > lastCheck[e]
  <1>4. \A e \in Clients \ {c} : Pending(e)'
    BY <1>1, <1>2 DEF AheadRowsPending, Missing
  <1>5. Pending(c)'
    <2>1. CASE StreamOpen(c) \/ StreamClose(c)
      BY <2>1 DEF StreamOpen, StreamClose
    <2>2. CASE StreamArm(c)
      BY <2>2 DEF StreamArm
    <2>3. CASE PollBegin(c)
      BY <2>3 DEF PollBegin, AheadRowsPending, Missing
    <2>4. CASE PollRead(c)
      <3>1. ASSUME NEW r \in ahead[c] PROVE ~Missing(c, r)'
        <4>1. r \in Own /\ ver[r] # 0
          BY <3>1 DEF AheadInv
        <4>2. PICK d \in Dps : r = <<"stock", d>>
          BY <4>1 DEF Own
        <4>3. view'[c][d] = IF d \in Delta(c) THEN [from |-> "stock", ver |-> ver[r]]
                            ELSE view[c][d]
          BY <2>4, <4>2 DEF PollRead
        <4>4. d \in Delta(c) \/ ~Missing(c, r)
          BY <2>4, <3>1, <4>1, <4>2 DEF Delta, Since, AheadRowsPending, PollRead
        <4> QED
          BY <1>2, <4>2, <4>3, <4>4 DEF Missing
      <3> QED
        BY <2>4, <3>1 DEF PollRead
    <2> QED
      BY <2>1, <2>2, <2>3, <2>4 DEF StreamStep
  <1> QED
    BY <1>3, <1>4, <1>5 DEF StreamInv, AheadRowsPending

\* Every step keeps StoreInv.
LEMMA StepInv ==
  ASSUME StoreInv, [Next]_vars
  PROVE  StoreInv'
  <1>1. TypeOK'
    BY NextTyped
  <1>2. CASE CollectorStep
    BY <1>1, <1>2, CollectorSafe DEF StoreInv, CollectorInv, StreamInv
  <1>3. ASSUME NEW c \in Clients, StreamStep(c) PROVE StoreInv'
    <2>1. CollectorInv'
      BY <1>3 DEF StoreInv, CollectorInv, CycleInv, BatchInv, StampInv, FreshnessCoversBatch,
         StreamStep, StreamOpen, StreamArm, PollBegin, PollRead, StreamClose, storeVars, batchVars
    <2> QED
      BY <1>1, <1>3, <2>1, StreamSafe DEF StoreInv, CollectorInv, StreamInv
  <1>4. CASE Second \/ UNCHANGED vars
    <2>1. CycleInv' /\ BatchInv' /\ FreshnessCoversBatch'
      BY <1>4 DEF StoreInv, CycleInv, BatchInv, FreshnessCoversBatch, Second, vars,
         storeVars, batchVars
    <2>2. StampInv'
      BY <1>4 DEF StoreInv, TypeOK, Times, StampInv, Second, vars, storeVars, batchVars
    <2>3. StreamInv'
      BY <1>4, StreamsUntouched DEF Second, vars
    <2> QED
      BY <1>1, <2>1, <2>2, <2>3 DEF StoreInv, StreamInv
  <1> QED
    BY <1>2, <1>3, <1>4 DEF Next

-----------------------------------------------------------------------------
(* Theorems                                                                *)

\* Every reachable state of collector, store and streams satisfies the
\* inductive invariant.
THEOREM InvariantHolds == Spec => []StoreInv
  <1>1. Init => StoreInv
    BY InitInv
  <1>2. StoreInv /\ [Next]_vars => StoreInv'
    BY StepInv
  <1> QED
    BY <1>1, <1>2, PTL DEF Spec

\* The state of collector, store and streams is well typed; the loop counter
\* of a process never passes the number of cycles.
THEOREM HotTypeCorrect == Spec => []TypeOK
  <1>1. StoreInv => TypeOK
    BY DEF StoreInv
  <1> QED
    BY <1>1, InvariantHolds, PTL

\* When update_freshness has run for a cycle, every row it fetched is stored
\* or replaced by a later one, wherever collectors die.
THEOREM FreshnessIsHonest == Spec => []FreshnessCoversBatch
  <1>1. StoreInv => FreshnessCoversBatch
    BY DEF StoreInv
  <1> QED
    BY <1>1, InvariantHolds, PTL

\* A row committed with a stamp past a stream's last_check is sent before
\* last_check passes the stamp.
THEOREM NoAheadRowLost == Spec => []AheadRowsPending
  <1>1. StoreInv => AheadRowsPending
    BY DEF StoreInv
  <1> QED
    BY <1>1, InvariantHolds, PTL

\* Freshness stamps and stream boundaries are honest, wherever collectors die.
THEOREM HotIsSafe == Spec => []HotSafe
  BY FreshnessIsHonest, NoAheadRowLost, PTL DEF HotSafe

\* No step makes a stored row older, neither by its stamp nor by the cycle
\* that fetched it.
THEOREM RowsOnlyRenewed == Spec => RowsNeverOlder
  <1> DEFINE NoOlder == \A r \in Rows : at'[r] >= at[r] /\ ver'[r] >= ver[r]
  <1>1. ASSUME StoreInv, [Next]_vars PROVE NoOlder
    <2> USE <1>1 DEF StoreInv, TypeOK, Times, Cycles
    <2>1. ASSUME NEW q \in Rows, UpsertRow(q) PROVE NoOlder
      BY <2>1 DEF UpsertRow, StampInv, CycleInv
    <2>2. CASE UNCHANGED storeVars
      BY <2>2, HotStoreAssumption DEF storeVars
    <2>3. UNCHANGED storeVars \/ \E q \in Rows : UpsertRow(q)
      BY DEF Next, vars, Second, CollectorStep, StreamStep, CycleBegin, FetchSource, FetchDone,
         StampFreshness, CollectorExit, StreamOpen, StreamArm, PollBegin, PollRead, StreamClose
    <2> QED
      BY <2>1, <2>2, <2>3
  <1> QED
    BY <1>1, InvariantHolds, PTL DEF Spec, RowsNeverOlder

=============================================================================

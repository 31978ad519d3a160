------------------------ MODULE CandidateQueueProofs ------------------------
(***************************************************************************)
(* Proofs about CandidateQueue: type correctness, the invariants of        *)
(* submission and of validation, finality of decisions, and that the queue *)
(* implements CandidateTable, for every set of sessions and keys and every *)
(* bound.  Proofs about CycleInputs, which share no state with the queue:  *)
(* that what is called ready can be frozen, that a frozen day is reported  *)
(* to one caller, and that the rows of a cycle's inputs can be traced to   *)
(* the versions they name.                                                 *)
(***************************************************************************)
EXTENDS CandidateQueue, CycleInputs, FiniteSetTheorems, WellFoundedInduction, TLAPS

-----------------------------------------------------------------------------
(* The inductive invariant                                                 *)

\* An insert in progress owns a serial number nobody else has used.
SerialInv ==
    /\ \A i \in Seqs : i >= nextSeq => status[i] = "absent"
    /\ \A s \in Sessions : pc[s] \in SubmitPcs =>
         mine[s] \in Seqs /\ mine[s] < nextSeq /\ status[mine[s]] = "absent"
    /\ \A s, t \in Sessions :
         pc[s] \in SubmitPcs /\ pc[t] \in SubmitPcs /\ s # t => mine[s] # mine[t]

\* An uncommitted row is the only holder of its key.
KeyInv ==
    \A s \in Sessions : pc[s] = "inserted" /\ myKey[s] # NoKey =>
        /\ \A i \in Present : key[i] # myKey[s]
        /\ \A t \in Sessions \ {s} : pc[t] = "inserted" => myKey[t] # myKey[s]

\* Only the validation phase of a pass holds results, and only for rows it
\* has locked.
VerdictInv ==
    \A s \in Sessions :
        /\ pc[s] \notin WorkerPcs => locked[s] = {}
        /\ \A i \in Seqs : verdict[s][i] # "none" => i \in locked[s]

\* Rows locked by open passes are pending, and locked once.
LockInv ==
    \A s \in Sessions :
        /\ \A i \in locked[s] : status[i] = "pending"
        /\ \A t \in Sessions : s # t => locked[s] \cap locked[t] = {}

\* What a receipt says is in the table.
ReceiptInv == \A r \in receipts : r[2] \in Present /\ key[r[2]] = r[1]

QueueInv ==
    /\ TypeOK
    /\ SerialInv
    /\ KeyInv
    /\ KeyNamesOneRow
    /\ ReplayFindsRow
    /\ VerdictInv
    /\ LockInv
    /\ ReceiptInv

-----------------------------------------------------------------------------
(* Type correctness                                                        *)

\* Init is well typed.
LEMMA TypeInit == Init => TypeOK
  BY QueueAssumption DEF Init, TypeOK, Seqs, AllKeys, Statuses, NoVerdicts

\* Ending a transaction keeps the types of the session's state.
LEMMA EndTransactionType ==
  ASSUME TypeOK, NEW s \in Sessions, EndTransaction(s)
  PROVE  /\ pc' \in [Sessions -> {"idle"} \cup SubmitPcs \cup WorkerPcs]
         /\ mine' \in [Sessions -> 0..MaxSeq]
         /\ myKey' \in [Sessions -> AllKeys]
         /\ idem' \in [Sessions -> BOOLEAN]
         /\ snap' \in [Sessions -> SUBSET Seqs]
         /\ cursor' \in [Sessions -> 0..MaxSeq]
         /\ limit' \in [Sessions -> 0..MaxLimit]
         /\ locked' \in [Sessions -> SUBSET Seqs]
         /\ verdict' \in [Sessions -> [Seqs -> {"none"} \cup Decided]]
  <1>1. /\ 0 \in 0..MaxSeq /\ 0 \in 0..MaxLimit
    BY QueueAssumption
  <1>2. NoVerdicts \in [Seqs -> {"none"} \cup Decided]
    BY DEF NoVerdicts
  <1>3. idem' \in [Sessions -> BOOLEAN]
    BY Zenon DEF EndTransaction, TypeOK
  <1> QED
    BY <1>1, <1>2, <1>3 DEF EndTransaction, TypeOK, AllKeys

\* Every transaction step of a session keeps the types; SerialInv bounds the
\* id an insert takes.
LEMMA TypeStep == TypeOK /\ SerialInv /\ [Next]_vars => TypeOK'
  <1> SUFFICES ASSUME TypeOK, SerialInv, [Next]_vars PROVE TypeOK'
    OBVIOUS
  <1> USE QueueAssumption
  <1>1. ASSUME NEW s \in Sessions, NEW k \in AllKeys, NEW i \in BOOLEAN,
               SubmitBegin(s, k, i)
        PROVE  TypeOK'
    <2>1. idem' \in [Sessions -> BOOLEAN]
      BY <1>1, Zenon DEF SubmitBegin, TypeOK
    <2> QED
      BY <1>1, <2>1 DEF SubmitBegin, TypeOK, SubmitPcs, Seqs, rowVars, workerVars
  <1>2. ASSUME NEW s \in Sessions, SubmitInsert(s) PROVE TypeOK'
    BY <1>2 DEF SubmitInsert, TypeOK, SubmitPcs, rowVars, submitVars, workerVars
  <1>3. ASSUME NEW s \in Sessions, SubmitConflict(s) PROVE TypeOK'
    BY <1>3 DEF SubmitConflict, TypeOK, SubmitPcs, rowVars, submitVars, workerVars
  <1>4. ASSUME NEW s \in Sessions, SubmitUniqueViolation(s) PROVE TypeOK'
    BY <1>4, EndTransactionType DEF SubmitUniqueViolation, TypeOK, rowVars
  <1>5. ASSUME NEW s \in Sessions, SubmitCommit(s) PROVE TypeOK'
    <2>1. mine[s] \in Seqs
      BY <1>5 DEF SubmitCommit, SerialInv, SubmitPcs
    <2> QED
      BY <1>5, <2>1, EndTransactionType DEF SubmitCommit, TypeOK, Statuses
  <1>6. ASSUME NEW s \in Sessions, SubmitReplay(s) PROVE TypeOK'
    <2>1. receipts' \in SUBSET (AllKeys \X Seqs)
      BY <1>6 DEF SubmitReplay, TypeOK, IndexedUnder, Present
    <2> QED
      BY <1>6, <2>1, EndTransactionType DEF SubmitReplay, TypeOK, rowVars
  <1>7. ASSUME NEW s \in Sessions, NEW n \in 1..MaxLimit, WorkerBegin(s, n)
        PROVE  TypeOK'
    BY <1>7 DEF WorkerBegin, TypeOK, WorkerPcs, Pending, rowVars, submitVars
  <1>8. ASSUME NEW s \in Sessions, WorkerScanRow(s) PROVE TypeOK'
    BY <1>8 DEF WorkerScanRow, ScanRest, TypeOK, Seqs, rowVars, submitVars
  <1>9. ASSUME NEW s \in Sessions, WorkerFetched(s) PROVE TypeOK'
    BY <1>9 DEF WorkerFetched, TypeOK, WorkerPcs, rowVars, submitVars
  <1>10. ASSUME NEW s \in Sessions, WorkerValidate(s) PROVE TypeOK'
    BY <1>10 DEF WorkerValidate, Unvalidated, TypeOK, rowVars, submitVars
  <1>11. ASSUME NEW s \in Sessions, WorkerCommit(s) PROVE TypeOK'
    <2>1. StatusAfter(s) \in [Seqs -> Statuses]
      BY DEF TypeOK, StatusAfter, Statuses, Decided
    <2> QED
      BY <1>11, <2>1, EndTransactionType DEF WorkerCommit, TypeOK
  <1>12. ASSUME NEW s \in Sessions, Rollback(s) PROVE TypeOK'
    BY <1>12, EndTransactionType DEF Rollback, TypeOK, rowVars
  <1>13. CASE UNCHANGED vars
    BY <1>13 DEF vars, TypeOK
  <1> QED
    BY <1>1, <1>2, <1>3, <1>4, <1>5, <1>6, <1>7, <1>8, <1>9, <1>10, <1>11,
       <1>12, <1>13 DEF Next, SubmitStep, WorkerStep

-----------------------------------------------------------------------------
(* The invariant is inductive                                              *)

\* Init establishes the inductive invariant.
LEMMA QueueInit == Init => QueueInv
  <1> SUFFICES ASSUME Init PROVE QueueInv
    OBVIOUS
  <1> QED
    BY TypeInit DEF Init, QueueInv, SerialInv, KeyInv, KeyNamesOneRow,
       ReplayFindsRow, VerdictInv, LockInv, ReceiptInv, Present, NoVerdicts,
       SubmitPcs, WorkerPcs

\* A transaction that ends without writing keeps the invariant.
LEMMA EndTransactionInv ==
  ASSUME QueueInv, TypeOK', NEW s \in Sessions, EndTransaction(s),
         UNCHANGED <<status, key, nextSeq>>,
         \A r \in receipts' : r \in receipts \/ (r[2] \in Present /\ key[r[2]] = r[1])
  PROVE  QueueInv'
  <1> USE DEF QueueInv, TypeOK, EndTransaction
  <1>1. SerialInv'
    BY DEF SerialInv, SubmitPcs
  <1>2. KeyInv'
    BY DEF KeyInv, Present
  <1>3. KeyNamesOneRow' /\ ReceiptInv'
    BY DEF KeyNamesOneRow, ReceiptInv, Present
  <1>4. ReplayFindsRow'
    BY DEF ReplayFindsRow, IndexedUnder, Present
  <1>5. VerdictInv' /\ LockInv'
    BY DEF VerdictInv, LockInv, WorkerPcs, NoVerdicts
  <1> QED
    BY <1>1, <1>2, <1>3, <1>4, <1>5

\* Every step of a session keeps the inductive invariant.
LEMMA QueueStep == QueueInv /\ [Next]_vars => QueueInv'
  <1> SUFFICES ASSUME QueueInv, [Next]_vars PROVE QueueInv'
    OBVIOUS
  <1>0. TypeOK /\ TypeOK'
    BY TypeStep DEF QueueInv
  <1> USE QueueAssumption, <1>0 DEF QueueInv
  <1>1. ASSUME NEW s \in Sessions, NEW k \in AllKeys, NEW i \in BOOLEAN,
               SubmitBegin(s, k, i)
        PROVE  QueueInv'
    <2> USE <1>1 DEF SubmitBegin, TypeOK, rowVars, workerVars
    <2>1. SerialInv'
      BY DEF SerialInv, SubmitPcs, Seqs
    <2>2. KeyInv' /\ KeyNamesOneRow' /\ ReceiptInv'
      BY DEF KeyInv, KeyNamesOneRow, ReceiptInv, Present
    <2>3. ReplayFindsRow'
      BY DEF ReplayFindsRow, IndexedUnder, Present
    <2>4. VerdictInv' /\ LockInv'
      BY DEF VerdictInv, LockInv, WorkerPcs
    <2> QED
      BY <2>1, <2>2, <2>3, <2>4
  <1>2. ASSUME NEW s \in Sessions, SubmitInsert(s) PROVE QueueInv'
    <2> USE <1>2 DEF SubmitInsert, TypeOK, rowVars, submitVars, workerVars
    <2>1. SerialInv'
      BY DEF SerialInv, SubmitPcs
    <2>2. KeyInv'
      BY DEF KeyInv, Present, KeyInFlight, IndexedUnder
    <2>3. KeyNamesOneRow' /\ ReceiptInv'
      BY DEF KeyNamesOneRow, ReceiptInv, Present
    <2>4. ReplayFindsRow'
      BY DEF ReplayFindsRow, IndexedUnder, Present
    <2>5. VerdictInv' /\ LockInv'
      BY DEF VerdictInv, LockInv, WorkerPcs
    <2> QED
      BY <2>1, <2>2, <2>3, <2>4, <2>5
  <1>3. ASSUME NEW s \in Sessions, SubmitConflict(s) PROVE QueueInv'
    <2> USE <1>3 DEF SubmitConflict, TypeOK, rowVars, submitVars, workerVars
    <2>1. SerialInv'
      BY DEF SerialInv, SubmitPcs
    <2>2. KeyInv' /\ KeyNamesOneRow' /\ ReceiptInv'
      BY DEF KeyInv, KeyNamesOneRow, ReceiptInv, Present
    <2>3. ReplayFindsRow'
      BY DEF ReplayFindsRow, IndexedUnder, Present
    <2>4. VerdictInv' /\ LockInv'
      BY DEF VerdictInv, LockInv, WorkerPcs
    <2> QED
      BY <2>1, <2>2, <2>3, <2>4
  <1>4. ASSUME NEW s \in Sessions, SubmitUniqueViolation(s) PROVE QueueInv'
    BY <1>4, EndTransactionInv DEF SubmitUniqueViolation, rowVars
  <1>5. ASSUME NEW s \in Sessions, SubmitCommit(s) PROVE QueueInv'
    <2> USE <1>5 DEF SubmitCommit, EndTransaction
    <2>1. mine[s] \in Seqs /\ mine[s] < nextSeq /\ status[mine[s]] = "absent"
      BY DEF SerialInv, SubmitPcs
    <2>2. /\ Present' = Present \cup {mine[s]}
          /\ mine[s] \notin Present
          /\ key'[mine[s]] = myKey[s]
          /\ \A i \in Present : key'[i] = key[i]
      BY <2>1 DEF Present, TypeOK
    <2>3. SerialInv'
      <3>1. \A i \in Seqs : i >= nextSeq' => status'[i] = "absent"
        BY <2>1 DEF SerialInv, TypeOK, Seqs
      <3>2. \A t \in Sessions \ {s} : pc[t] \in SubmitPcs => mine[t] # mine[s]
        BY DEF SerialInv, SubmitPcs
      <3> QED
        BY <2>1, <3>1, <3>2 DEF SerialInv, TypeOK, SubmitPcs
    <2>4. KeyInv'
      BY <2>2 DEF KeyInv, TypeOK
    <2>5. KeyNamesOneRow'
      BY <2>2 DEF KeyNamesOneRow, KeyInv
    <2>6. ReplayFindsRow'
      <3> SUFFICES ASSUME NEW t \in Sessions, pc'[t] = "conflict"
                   PROVE  IndexedUnder(myKey[t])' # {}
        BY DEF ReplayFindsRow
      <3>1. t # s /\ pc[t] = "conflict" /\ myKey'[t] = myKey[t]
        BY DEF TypeOK
      <3>2. PICK i \in Present : key[i] = myKey[t] /\ myKey[t] # NoKey
        BY <3>1 DEF ReplayFindsRow, IndexedUnder
      <3> QED
        BY <2>2, <3>1, <3>2 DEF IndexedUnder
    <2>7. VerdictInv'
      BY DEF VerdictInv, TypeOK, WorkerPcs, NoVerdicts
    <2>8. LockInv'
      BY <2>1 DEF LockInv, TypeOK
    <2>9. ReceiptInv'
      BY <2>2 DEF ReceiptInv
    <2> QED
      BY <2>3, <2>4, <2>5, <2>6, <2>7, <2>8, <2>9
  <1>6. ASSUME NEW s \in Sessions, SubmitReplay(s) PROVE QueueInv'
    <2>1. \A r \in receipts' : r \in receipts \/ (r[2] \in Present /\ key[r[2]] = r[1])
      BY <1>6 DEF SubmitReplay, IndexedUnder
    <2> QED
      BY <1>6, <2>1, EndTransactionInv DEF SubmitReplay, rowVars
  <1>7. ASSUME NEW s \in Sessions, NEW n \in 1..MaxLimit, WorkerBegin(s, n)
        PROVE  QueueInv'
    <2> USE <1>7 DEF WorkerBegin, TypeOK, rowVars, submitVars
    <2>1. SerialInv'
      BY DEF SerialInv, SubmitPcs
    <2>2. KeyInv' /\ KeyNamesOneRow' /\ ReceiptInv'
      BY DEF KeyInv, KeyNamesOneRow, ReceiptInv, Present
    <2>3. ReplayFindsRow'
      BY DEF ReplayFindsRow, IndexedUnder, Present
    <2>4. VerdictInv' /\ LockInv'
      BY DEF VerdictInv, LockInv, WorkerPcs
    <2> QED
      BY <2>1, <2>2, <2>3, <2>4
  <1>8. ASSUME NEW s \in Sessions, WorkerScanRow(s) PROVE QueueInv'
    <2> USE <1>8 DEF WorkerScanRow, rowVars, submitVars
    <2>1. SerialInv' /\ KeyInv' /\ KeyNamesOneRow' /\ ReceiptInv'
      BY DEF SerialInv, KeyInv, KeyNamesOneRow, ReceiptInv, Present
    <2>2. ReplayFindsRow'
      BY DEF ReplayFindsRow, IndexedUnder, Present
    <2>3. PICK i \in Seqs :
             \/ locked' = locked
             \/ /\ ~LockedElsewhere(s, i) /\ StillPending(i)
                /\ locked' = [locked EXCEPT ![s] = @ \cup {i}]
      BY DEF ScanRest, TypeOK
    <2>4. VerdictInv'
      BY <2>3 DEF VerdictInv, TypeOK, WorkerPcs
    <2>5. LockInv'
      BY <2>3 DEF LockInv, TypeOK, LockedElsewhere, StillPending
    <2> QED
      BY <2>1, <2>2, <2>4, <2>5
  <1>9. ASSUME NEW s \in Sessions, WorkerFetched(s) PROVE QueueInv'
    <2> USE <1>9 DEF WorkerFetched, TypeOK, rowVars, submitVars
    <2>1. SerialInv'
      BY DEF SerialInv, SubmitPcs
    <2>2. KeyInv' /\ KeyNamesOneRow' /\ ReceiptInv'
      BY DEF KeyInv, KeyNamesOneRow, ReceiptInv, Present
    <2>3. ReplayFindsRow'
      BY DEF ReplayFindsRow, IndexedUnder, Present
    <2>4. VerdictInv' /\ LockInv'
      BY DEF VerdictInv, LockInv, WorkerPcs
    <2> QED
      BY <2>1, <2>2, <2>3, <2>4
  <1>10. ASSUME NEW s \in Sessions, WorkerValidate(s) PROVE QueueInv'
    <2> USE <1>10 DEF WorkerValidate, rowVars, submitVars
    <2>1. SerialInv' /\ KeyInv' /\ KeyNamesOneRow' /\ ReceiptInv' /\ LockInv'
      BY DEF SerialInv, KeyInv, KeyNamesOneRow, ReceiptInv, LockInv, Present
    <2>2. ReplayFindsRow'
      BY DEF ReplayFindsRow, IndexedUnder, Present
    <2>3. VerdictInv'
      BY DEF VerdictInv, TypeOK, Unvalidated
    <2> QED
      BY <2>1, <2>2, <2>3
  <1>11. ASSUME NEW s \in Sessions, WorkerCommit(s) PROVE QueueInv'
    <2> USE <1>11 DEF WorkerCommit, EndTransaction
    <2>1. \A i \in Seqs : verdict[s][i] # "none" => status[i] = "pending"
      BY DEF VerdictInv, LockInv
    <2>2. \A i \in Seqs :
             /\ status[i] = "absent" <=> status'[i] = "absent"
             /\ i \notin locked[s] => status'[i] = status[i]
      <3> TAKE i \in Seqs
      <3>1. verdict[s][i] \in {"none", "accepted", "rejected"}
        BY DEF TypeOK, Decided
      <3>2. status'[i] = IF verdict[s][i] # "none" THEN verdict[s][i] ELSE status[i]
        BY <2>1 DEF StatusAfter, StillPending
      <3>3. verdict[s][i] # "none" => i \in locked[s]
        BY DEF VerdictInv
      <3> QED
        BY <2>1, <3>1, <3>2, <3>3
    <2>3. Present' = Present
      BY <2>2 DEF Present
    <2>4. SerialInv'
      BY <2>2 DEF SerialInv, TypeOK, SubmitPcs
    <2>5. KeyInv' /\ KeyNamesOneRow' /\ ReceiptInv'
      BY <2>3 DEF KeyInv, KeyNamesOneRow, ReceiptInv, TypeOK
    <2>6. ReplayFindsRow'
      <3> SUFFICES ASSUME NEW t \in Sessions, pc'[t] = "conflict"
                   PROVE  IndexedUnder(myKey[t])' # {}
        BY DEF ReplayFindsRow
      <3>1. t # s /\ pc[t] = "conflict" /\ myKey'[t] = myKey[t]
        BY DEF TypeOK
      <3>2. PICK i \in Present : key[i] = myKey[t] /\ myKey[t] # NoKey
        BY <3>1 DEF ReplayFindsRow, IndexedUnder
      <3> QED
        BY <2>3, <3>1, <3>2 DEF IndexedUnder
    <2>7. VerdictInv'
      BY DEF VerdictInv, TypeOK, WorkerPcs, NoVerdicts
    <2>8. LockInv'
      BY <2>2 DEF LockInv, TypeOK
    <2> QED
      BY <2>4, <2>5, <2>6, <2>7, <2>8
  <1>12. ASSUME NEW s \in Sessions, Rollback(s) PROVE QueueInv'
    BY <1>12, EndTransactionInv DEF Rollback, rowVars
  <1>13. CASE UNCHANGED vars
    BY <1>13 DEF vars, SerialInv, KeyInv, KeyNamesOneRow, ReplayFindsRow,
       IndexedUnder, VerdictInv, LockInv, ReceiptInv, Present
  <1> QED
    BY <1>1, <1>2, <1>3, <1>4, <1>5, <1>6, <1>7, <1>8, <1>9, <1>10, <1>11,
       <1>12, <1>13 DEF Next, SubmitStep, WorkerStep

\* The queue satisfies the inductive invariant in every behaviour.
LEMMA QueueInvariant == Spec => []QueueInv
  BY QueueInit, QueueStep, PTL DEF Spec

-----------------------------------------------------------------------------
(* The theorems                                                            *)

\* Every reachable state of the queue has the declared types.
THEOREM TypeCorrect == Spec => []TypeOK
  <1>1. QueueInv => TypeOK
    BY DEF QueueInv
  <1> QED
    BY <1>1, QueueInvariant, PTL

\* An Ex-3 idempotency key names at most one committed candidate, whatever
\* submissions, retries and rollbacks interleave.
THEOREM IdempotencyKeyUnique == Spec => []KeyNamesOneRow
  <1>1. QueueInv => KeyNamesOneRow
    BY DEF QueueInv
  <1> QED
    BY <1>1, QueueInvariant, PTL

\* All receipts for one key name the same committed row.
THEOREM ReceiptsConsistent == Spec => []ReceiptsAgree
  <1>1. QueueInv => ReceiptsAgree
    BY DEF QueueInv, ReceiptInv, KeyNamesOneRow, ReceiptsAgree
  <1> QED
    BY <1>1, QueueInvariant, PTL

\* The replay statement of insert_candidate_idempotent always finds its row.
THEOREM ReplayTotal == Spec => []ReplayFindsRow
  <1>1. QueueInv => ReplayFindsRow
    BY DEF QueueInv
  <1> QED
    BY <1>1, QueueInvariant, PTL

\* A candidate is decided at most once.
THEOREM DecisionsAreFinal == Spec => DecisionsFinal
  <1>1. QueueInv /\ [Next]_vars =>
          [\A i \in Seqs :
             /\ status[i] \in Decided => status'[i] = status[i]
             /\ status[i] = "pending" => status'[i] \in {"pending"} \cup Decided]_status
    <2> SUFFICES ASSUME QueueInv, [Next]_vars, status' # status, NEW i \in Seqs
                 PROVE  /\ status[i] \in Decided => status'[i] = status[i]
                        /\ status[i] = "pending" => status'[i] \in {"pending"} \cup Decided
      OBVIOUS
    <2>1. \/ \E s \in Sessions : SubmitCommit(s)
          \/ \E s \in Sessions : WorkerCommit(s)
      BY DEF Next, SubmitStep, WorkerStep, vars, rowVars, SubmitBegin, SubmitInsert,
         SubmitConflict, SubmitUniqueViolation, SubmitReplay, WorkerBegin,
         WorkerScanRow, WorkerFetched, WorkerValidate, Rollback
    <2>2. ASSUME NEW s \in Sessions, SubmitCommit(s)
          PROVE  /\ status[i] \in Decided => status'[i] = status[i]
                 /\ status[i] = "pending" => status'[i] \in {"pending"} \cup Decided
      <3>1. status[mine[s]] = "absent"
        BY <2>2 DEF SubmitCommit, QueueInv, SerialInv, SubmitPcs
      <3> QED
        BY <2>2, <3>1 DEF SubmitCommit, QueueInv, TypeOK, Decided
    <2>3. ASSUME NEW s \in Sessions, WorkerCommit(s)
          PROVE  /\ status[i] \in Decided => status'[i] = status[i]
                 /\ status[i] = "pending" => status'[i] \in {"pending"} \cup Decided
      <3>1. verdict[s][i] # "none" => status[i] = "pending" /\ verdict[s][i] \in Decided
        BY DEF QueueInv, VerdictInv, LockInv, TypeOK
      <3> QED
        BY <2>3, <3>1 DEF WorkerCommit, StatusAfter, StillPending, Decided
    <2> QED
      BY <2>1, <2>2, <2>3
  <1> QED
    BY <1>1, QueueInvariant, PTL DEF Spec, DecisionsFinal

-----------------------------------------------------------------------------
(* A pass never holds more rows than its limit                             *)

LimitInv == \A s \in Sessions : Cardinality(locked[s]) <= limit[s]

\* The rows a session has locked are finitely many: they are ids up to MaxSeq.
LEMMA LockedFinite ==
  ASSUME TypeOK, NEW s \in Sessions
  PROVE  IsFiniteSet(locked[s]) /\ Cardinality(locked[s]) \in Nat
  <1>1. locked[s] \subseteq 1..MaxSeq
    BY DEF TypeOK, Seqs
  <1>2. IsFiniteSet(1..MaxSeq)
    BY FS_Interval, QueueAssumption
  <1> QED
    BY <1>1, <1>2, FS_Subset, FS_CardinalityType

\* No step takes a validation pass past its limit.
LEMMA LimitStep == QueueInv /\ LimitInv /\ [Next]_vars => LimitInv'
  <1> SUFFICES ASSUME QueueInv, LimitInv, [Next]_vars, NEW t \in Sessions
               PROVE  Cardinality(locked'[t]) <= limit'[t]
    BY DEF LimitInv
  <1>0. Cardinality(locked[t]) <= limit[t] /\ Cardinality({}) = 0
    BY FS_EmptySet DEF LimitInv
  <1>1. CASE locked'[t] = locked[t] /\ limit'[t] = limit[t]
    BY <1>0, <1>1
  <1>2. CASE locked'[t] = {} /\ limit'[t] \in 0..MaxLimit
    BY <1>0, <1>2, QueueAssumption
  <1>3. CASE WorkerScanRow(t)
    <2>1. /\ Cardinality(locked[t]) < limit[t]
          /\ limit'[t] = limit[t]
      <3>1. limit[t] \in Nat /\ Cardinality(locked[t]) \in Nat
        BY LockedFinite, QueueAssumption DEF QueueInv, TypeOK
      <3> QED
        BY <1>3, <3>1 DEF WorkerScanRow, ScanDone
    <2>2. PICK i : locked' \in {locked, [locked EXCEPT ![t] = @ \cup {i}]}
      BY <1>3 DEF WorkerScanRow
    <2>3. locked'[t] \in {locked[t], locked[t] \cup {i}}
      BY <2>2 DEF QueueInv, TypeOK
    <2>4. IsFiniteSet(locked[t]) /\ Cardinality(locked[t]) \in Nat
      BY LockedFinite DEF QueueInv
    <2>5. \/ Cardinality(locked[t] \cup {i}) = Cardinality(locked[t])
          \/ Cardinality(locked[t] \cup {i}) = Cardinality(locked[t]) + 1
      BY <2>4, FS_AddElement
    <2>6. limit[t] \in Nat
      BY QueueAssumption DEF QueueInv, TypeOK
    <2>7. CASE locked'[t] = locked[t]
      BY <2>1, <2>4, <2>6, <2>7
    <2>8. CASE locked'[t] = locked[t] \cup {i}
      BY <2>1, <2>4, <2>5, <2>6, <2>8
    <2> QED
      BY <2>3, <2>7, <2>8
  <1>4. \/ locked'[t] = locked[t] /\ limit'[t] = limit[t]
        \/ locked'[t] = {} /\ limit'[t] \in 0..MaxLimit
        \/ WorkerScanRow(t)
    <2> USE QueueAssumption DEF QueueInv, TypeOK
    <2>1. ASSUME NEW s \in Sessions, EndTransaction(s)
          PROVE  \/ locked'[t] = locked[t] /\ limit'[t] = limit[t]
                 \/ locked'[t] = {} /\ limit'[t] \in 0..MaxLimit
      BY <2>1 DEF EndTransaction
    <2>2. ASSUME NEW s \in Sessions, NEW n \in 1..MaxLimit, WorkerBegin(s, n)
          PROVE  \/ locked'[t] = locked[t] /\ limit'[t] = limit[t]
                 \/ locked'[t] = {} /\ limit'[t] \in 0..MaxLimit
      BY <2>2 DEF WorkerBegin, VerdictInv, WorkerPcs
    <2>3. ASSUME NEW s \in Sessions, WorkerScanRow(s)
          PROVE  \/ locked'[t] = locked[t] /\ limit'[t] = limit[t]
                 \/ WorkerScanRow(t)
      BY <2>3 DEF WorkerScanRow
    <2> QED
      BY <2>1, <2>2, <2>3 DEF Next, SubmitStep, WorkerStep, vars, workerVars,
         SubmitBegin, SubmitInsert, SubmitConflict, SubmitUniqueViolation,
         SubmitCommit, SubmitReplay, WorkerFetched, WorkerValidate,
         WorkerCommit, Rollback
  <1> QED
    BY <1>1, <1>2, <1>3, <1>4

\* Overlapping validation passes hold disjoint sets of pending candidates,
\* none larger than its limit.
THEOREM PassesAreDisjoint == Spec => []BatchesDisjoint
  <1>1. Init => LimitInv
    BY FS_EmptySet DEF Init, LimitInv
  <1>2. QueueInv /\ LimitInv => BatchesDisjoint
    BY DEF QueueInv, TypeOK, LockInv, LimitInv, BatchesDisjoint, Pending
  <1> QED
    BY <1>1, <1>2, LimitStep, QueueInvariant, PTL DEF Spec

\* What producers and validation passes rely on: idempotency keys name one row,
\* receipts agree, a replay finds its row, and passes do not share rows.
THEOREM QueueIsSafe == Spec => []QueueSafe
  BY IdempotencyKeyUnique, ReceiptsConsistent, ReplayTotal, PassesAreDisjoint, PTL DEF QueueSafe

-----------------------------------------------------------------------------
(* The queue implements the candidate table                                *)

\* Every behaviour of the queue is, on the committed statuses, a behaviour
\* of CandidateTable: rows appear pending and whole batches are decided once.
THEOREM QueueImplementsTable == Spec => TableSpec
  <1>1. Init => Table!Init
    BY DEF Init, Table!Init, Seqs, Table!Seqs
  <1>2. QueueInv /\ [Next]_vars => [Table!Next]_status
    <2> SUFFICES ASSUME QueueInv, [Next]_vars, status' # status
                 PROVE  Table!Next
      OBVIOUS
    <2>1. \/ \E s \in Sessions : SubmitCommit(s)
          \/ \E s \in Sessions : WorkerCommit(s)
      BY DEF Next, SubmitStep, WorkerStep, vars, rowVars, SubmitBegin, SubmitInsert,
         SubmitConflict, SubmitUniqueViolation, SubmitReplay, WorkerBegin,
         WorkerScanRow, WorkerFetched, WorkerValidate, Rollback
    <2>2. ASSUME NEW s \in Sessions, SubmitCommit(s) PROVE Table!Next
      <3>1. mine[s] \in Seqs /\ status[mine[s]] = "absent"
        BY <2>2 DEF SubmitCommit, QueueInv, SerialInv, SubmitPcs
      <3>2. Table!Submit(mine[s])
        BY <2>2, <3>1 DEF SubmitCommit, Table!Submit
      <3> QED
        BY <3>1, <3>2 DEF Table!Next, Table!Seqs, Seqs
    <2>3. ASSUME NEW s \in Sessions, WorkerCommit(s) PROVE Table!Next
      <3> DEFINE v == [i \in locked[s] |-> verdict[s][i]]
      <3>1. locked[s] \in SUBSET Seqs /\ \A i \in locked[s] : status[i] = "pending"
        BY DEF QueueInv, TypeOK, LockInv
      <3>2. \A i \in Seqs : verdict[s][i] # "none" <=> i \in locked[s]
        BY <2>3, <3>1 DEF WorkerCommit, Unvalidated, QueueInv, VerdictInv
      <3>3. v \in [locked[s] -> Decided]
        BY <3>1, <3>2 DEF QueueInv, TypeOK
      <3>4. status' = [i \in Seqs |-> IF i \in locked[s] THEN v[i] ELSE status[i]]
        BY <2>3, <3>1, <3>2 DEF WorkerCommit, StatusAfter, StillPending
      <3>5. Table!Decide(locked[s], v)
        BY <3>1, <3>4 DEF Table!Decide, Table!Seqs, Seqs
      <3> HIDE DEF v
      <3> QED
        BY <3>1, <3>3, <3>5 DEF Table!Next, Table!Seqs, Seqs, Table!Decided, Decided
    <2> QED
      BY <2>1, <2>2, <2>3
  <1> QED
    BY <1>1, <1>2, QueueInvariant, PTL DEF Spec, TableSpec, Table!Spec

-----------------------------------------------------------------------------
(* Records that grow, and tables                                           *)

\* Replaced values are the new ones, the others stay.
LEMMA WithIs ==
    ASSUME NEW fields, NEW f
    PROVE  /\ DOMAIN With(fields, f) = DOMAIN fields \cup DOMAIN f
           /\ \A x \in DOMAIN fields : With(fields, f)[x] = fields[x]
           /\ \A x \in DOMAIN f \ DOMAIN fields : With(fields, f)[x] = f[x]
  BY DEF With

\* A field that is put has its value, and the others theirs.
LEMMA PutIs ==
    ASSUME NEW x, NEW value, NEW f
    PROVE  DOMAIN Place(x, value, f) = {x} \cup DOMAIN f /\ Place(x, value, f)[x] = value
  BY DEF Place, With

\* Every other field keeps its value.
LEMMA PutKeeps ==
    ASSUME NEW x, NEW value, NEW f
    PROVE  \A y \in DOMAIN f : y # x => Place(x, value, f)[y] = f[y]
  BY DEF Place, With

\* An appended sequence keeps what it had.
LEMMA SequenceGrows ==
    ASSUME NEW s, IsSequence(s), NEW e
    PROVE  /\ IsSequence(Append(s, e)) /\ Len(s) \in Nat /\ Len(Append(s, e)) = Len(s) + 1
           /\ \A v \in 1..Len(s) : Append(s, e)[v] = s[v]
  <1> DEFINE R == Range(s) \cup {e}
             m == Append(s, e)
  <1>1. s \in Seq(R) /\ e \in R
    <2>1. s \in Seq(Range(s))
      BY DEF IsSequence
    <2> DEFINE Q == Range(s)
    <2> HIDE DEF Q
    <2>2. s \in Seq(Q) /\ Q \subseteq R
      BY <2>1 DEF Q
    <2> HIDE DEF R
    <2>3. s \in Seq(R)
      BY <2>2
    <2> QED
      BY <2>3 DEF R
  <1> HIDE DEF R
  <1>2. /\ Len(s) \in Nat /\ Len(m) = Len(s) + 1 /\ DOMAIN m = 1..Len(m) /\ m \in Seq(R)
        /\ \A v \in 1..Len(s) : m[v] = s[v]
    BY <1>1
  <1> HIDE DEF m
  <1>3. IsSequence(m)
    <2>1. m \in [1..Len(m) -> Range(m)] /\ Len(m) \in Nat
      <3>1. m = [i \in DOMAIN m |-> m[i]]
        BY <1>2
      <3> QED
        BY <1>2, <3>1 DEF Range
    <2> DEFINE Q == Range(m)
    <2> HIDE DEF Q
    <2>2. m \in [1..Len(m) -> Q]
      BY <2>1 DEF Q
    <2>3. m \in Seq(Q)
      BY <2>1, <2>2
    <2> QED
      BY <2>3 DEF Q, IsSequence
  <1> QED
    BY <1>2, <1>3 DEF m

TablesInv == DOMAIN tables = Versions /\ \A t \in Versions : IsSequence(tables[t])

\* A publication only adds versions.
Grows == \A t \in Versions :
    /\ Len(tables[t]) \in Nat /\ Len(tables'[t]) \in Nat /\ Len(tables[t]) <= Len(tables'[t])
    /\ \A v \in 1..Len(tables[t]) : tables'[t][v] = tables[t][v]

\* A publication appends to the tables it names and leaves the others.
LEMMA PublishGrows == ASSUME TablesInv, NEW tabs, Publish(tabs) PROVE TablesInv' /\ Grows
  <1>1. tables' = [t \in Versions |-> IF t \in DOMAIN tabs THEN Append(tables[t], tabs[t]) ELSE tables[t]]
    BY DEF Publish
  <1>2. \A t \in Versions : /\ IsSequence(Append(tables[t], tabs[t])) /\ Len(tables[t]) \in Nat
                            /\ Len(Append(tables[t], tabs[t])) = Len(tables[t]) + 1
                            /\ \A v \in 1..Len(tables[t]) : Append(tables[t], tabs[t])[v] = tables[t][v]
    BY SequenceGrows DEF TablesInv
  <1>3. TablesInv'
    BY <1>1, <1>2 DEF TablesInv
  <1>4. Grows
    BY <1>1, <1>2 DEF Grows
  <1> QED
    BY <1>3, <1>4

\* Tables that stay have grown by nothing.
LEMMA SameGrows == ASSUME TablesInv, UNCHANGED tables PROVE TablesInv' /\ Grows
  <1>1. \A t \in Versions : Len(tables[t]) \in Nat
    BY SequenceGrows DEF TablesInv
  <1> QED
    BY <1>1 DEF TablesInv, Grows

-----------------------------------------------------------------------------
(* Input rows                                                              *)

\* What is returned for pinned snapshots is what the tables hold there.
ReturnedInv ==
    \A x \in returned : /\ \A t \in Versions : x[1][t] \in 1..Len(tables[t])
                        /\ x[3] = InputRows(x[1], x[2])

\* Versions that are there give the same rows later.
LEMMA RowsStay ==
    ASSUME Grows, NEW f, \A t \in Versions : f[t] \in 1..Len(tables[t]), NEW ids
    PROVE  /\ InputRows(f, ids)' = InputRows(f, ids)
           /\ \A t \in Versions : f[t] \in 1..Len(tables'[t])
  <1>1. \A t \in Versions : tables'[t][f[t]] = tables[t][f[t]] /\ f[t] \in 1..Len(tables'[t])
    BY DEF Grows
  <1>2. "entity" \in Versions /\ "alias" \in Versions /\ "security" \in Versions /\ "price" \in Versions
    BY DEF Versions, Marts
  <1>3. InputRows(f, ids) = RowsFrom(tables["entity"][f["entity"]], tables["alias"][f["alias"]],
                                     tables["security"][f["security"]], tables["price"][f["price"]], ids)
    BY DEF InputRows
  <1>4. InputRows(f, ids)' = RowsFrom(tables'["entity"][f["entity"]], tables'["alias"][f["alias"]],
                                      tables'["security"][f["security"]], tables'["price"][f["price"]], ids)
    BY DEF InputRows
  <1> HIDE DEF InputRows
  <1> QED
    BY <1>1, <1>2, <1>3, <1>4

\* Rows follow from the versions read.
LEMMA RowsOfVersions ==
    ASSUME NEW f, NEW g, \A t \in Versions : f[t] = g[t], NEW ids
    PROVE  InputRows(f, ids) = InputRows(g, ids)
  <1>1. f["entity"] = g["entity"] /\ f["alias"] = g["alias"] /\ f["security"] = g["security"] /\ f["price"] = g["price"]
    BY DEF Versions, Marts
  <1>2. \A h : InputRows(h, ids) = RowsFrom(tables["entity"][h["entity"]], tables["alias"][h["alias"]],
                                            tables["security"][h["security"]], tables["price"][h["price"]], ids)
    BY DEF InputRows
  <1> QED
    BY <1>1, <1>2

Elements(todo) == {todo[i] : i \in DOMAIN todo}

\* The tables still to be read.
TablesLeft == {<<"entity", "alias", "security", "price">>, <<"alias", "security", "price">>,
             <<"security", "price">>, <<"price">>, <<>>}

\* The reader works off the tables in one order.
LEMMA SuffixIs ==
    ASSUME NEW todo \in TablesLeft
    PROVE  /\ todo = <<>> => Elements(todo) = {}
           /\ todo # <<>> => /\ Tail(todo) \in TablesLeft /\ Head(todo) \in Versions
                             /\ Elements(todo) = {Head(todo)} \cup Elements(Tail(todo))
           /\ todo = <<"entity", "alias", "security", "price">> => Elements(todo) = Versions
  <1>1. CASE todo = <<"entity", "alias", "security", "price">>
    BY <1>1 DEF TablesLeft, Elements, Versions, Marts
  <1>2. CASE todo = <<"alias", "security", "price">>
    BY <1>2 DEF TablesLeft, Elements, Versions, Marts
  <1>3. CASE todo = <<"security", "price">>
    BY <1>3 DEF TablesLeft, Elements, Versions, Marts
  <1>4. CASE todo = <<"price">>
    BY <1>4 DEF TablesLeft, Elements, Versions, Marts
  <1>5. CASE todo = <<>>
    BY <1>5 DEF TablesLeft, Elements, Versions, Marts
  <1> QED
    BY <1>1, <1>2, <1>3, <1>4, <1>5 DEF TablesLeft

InputFields == {"kind", "pc", "todo", "spec", "candidates", "ids", "read", "calm"}

\* A table was read at the version asked for, or at the current one.
ReadAt(k, t, tabs) ==
    /\ t \in DOMAIN k.read /\ k.read[t] \in 1..Len(tabs[t])
    /\ t \in DOMAIN k.spec => k.read[t] = k.spec[t]
    /\ t \notin DOMAIN k.spec /\ k.calm => k.read[t] = Len(tabs[t])

\* What is known of a call for the inputs.
InputSound(k, tabs) ==
    /\ InputFields \subseteq DOMAIN k
    /\ k.pc \in {"ids", "read", "done", "failed"}
    /\ k.pc = "ids" =>
         \/ k.todo = <<"price", "security">>
         \/ /\ k.todo = <<"security">> /\ k.spec = <<>> /\ "price" \in DOMAIN k.ids
            /\ k.calm => k.ids["price"] = Len(tabs["price"])
    /\ k.pc \in {"read", "done"} =>
         /\ k.spec # <<>> => Marts \subseteq DOMAIN k.spec /\ \A m \in Marts : k.ids[m] = k.spec[m]
         /\ k.spec = <<>> /\ k.calm => \A m \in Marts : k.ids[m] = Len(tabs[m])
         /\ k.todo \in TablesLeft
         /\ k.pc = "done" => k.todo = <<>>
         /\ \A t \in Versions \ Elements(k.todo) : ReadAt(k, t, tabs)

\* The versions read are those named, unless something was published.
LEMMA SoundMeans ==
    ASSUME NEW k, InputSound(k, tables), k.pc = "done", k.calm \/ k.spec # <<>>, NEW m \in Marts
    PROVE  k.ids[m] = k.read[m]
  <1>1. k.todo = <<>> /\ Elements(k.todo) = {} /\ m \in Versions
    BY SuffixIs DEF InputSound, Versions
  <1>2. ReadAt(k, m, tables)
    BY <1>1 DEF InputSound
  <1>3. CASE k.spec # <<>>
    BY <1>2, <1>3 DEF InputSound, ReadAt
  <1>4. CASE k.spec = <<>>
    <2>1. DOMAIN k.spec = {}
      BY <1>4
    <2> QED
      BY <1>2, <1>4, <2>1 DEF InputSound, ReadAt
  <1> QED
    BY <1>3, <1>4

-----------------------------------------------------------------------------
(* What a selection reads                                                  *)

PartsIn(z, dataset) == {a.part : a \in {b \in z : b.dataset = dataset}}

LatestIn(z, dataset, day) ==
    LET listed == {a \in z : a.dataset = dataset /\ a.part = day}
    IN  IF listed = {} THEN {} ELSE {Newest(listed)}

ScannedIn(z, dataset, todo) == UNION {LatestIn(z, dataset, d) : d \in PartsIn(z, dataset) \ todo}

\* The day a selection from a zone chooses, and whether it is complete.
CalendarIn(z) == ScannedIn(z, "trade_cal", {})
DayIn(z) == Max(OpenDates(CalendarIn(z)))
CompleteIn(z) == SelectionComplete(LatestIn(z, "daily", DayIn(z)), ScannedIn(z, "stock_basic", {}), DayIn(z))

ZoneInv == IsFiniteSet(zone) /\ \A a \in zone : Filed(a) /\ a.at \in 1..Cardinality(zone)

\* A set of naturals has a least element.
LEMMA LeastDay == ASSUME NEW S \in SUBSET Nat, S # {} PROVE \E m \in S : \A k \in S : m <= k
  <1>1. PICK m \in S : \A k \in S : <<k, m>> \notin OpToRel(<, Nat)
    BY NatLessThanWellFounded, WFMin
  <1>2. \A k \in S : ~(k < m)
    BY <1>1 DEF OpToRel
  <1> QED
    BY <1>2

\* A bounded set of naturals has a greatest element.
LEMMA GreatestNumber ==
    ASSUME NEW S \in SUBSET Nat, S # {}, NEW n \in Nat, \A k \in S : k <= n
    PROVE  \E m \in S : \A k \in S : m >= k
  <1> DEFINE D == {n - k : k \in S}
  <1>1. D \subseteq Nat /\ D # {}
    <2>1. \A k \in S : k \in Nat /\ n - k \in Nat
      OBVIOUS
    <2> QED
      BY <2>1
  <1>2. PICK d \in D : \A e \in D : d <= e
    BY <1>1, LeastDay
  <1>3. PICK m \in S : d = n - m
    BY <1>2
  <1>4. \A k \in S : d <= n - k
    BY <1>2
  <1> QED
    BY <1>3, <1>4

\* The last of some days is one of them (the trade date is an open date).
LEMMA MaxIs == ASSUME NEW S \in SUBSET Days, S # {} PROVE Max(S) \in S
  <1>1. PICK n \in Nat : Days = 1..n
    BY InputsAssumption, FS_CardinalityType
  <1>2. \E m \in S : \A k \in S : m >= k
    <2>1. S \subseteq Nat /\ \A k \in S : k <= n
      BY <1>1
    <2> QED
      BY <2>1, GreatestNumber
  <1> QED
    BY <1>2 DEF Max

\* The first of some days is one of them (partitions are scanned in order).
LEMMA MinIs == ASSUME NEW S \in SUBSET Days, S # {} PROVE Min(S) \in S
  <1>1. PICK n \in Nat : Days = 1..n
    BY InputsAssumption, FS_CardinalityType
  <1>2. \E m \in S : \A k \in S : m <= k
    BY <1>1, LeastDay
  <1> QED
    BY <1>2 DEF Min

\* Numbered artifacts have a newest one.
LEMMA NewestIs ==
    ASSUME NEW S, S # {}, NEW n \in Nat, \A a \in S : a.at \in 1..n
    PROVE  Newest(S) \in S
  <1> DEFINE T == {a.at : a \in S}
  <1>1. T \subseteq Nat /\ T # {} /\ \A k \in T : k <= n
    OBVIOUS
  <1>2. \E m \in T : \A k \in T : m >= k
    BY <1>1, GreatestNumber
  <1>3. \E a \in S : \A b \in S : b.at <= a.at
    BY <1>2
  <1> QED
    BY <1>3 DEF Newest

\* A scan reads artifacts of its dataset.
LEMMA LatestIs ==
    ASSUME ZoneInv, NEW dataset, NEW day
    PROVE  /\ LatestIn(zone, dataset, day) \subseteq zone
           /\ \A a \in LatestIn(zone, dataset, day) : a.dataset = dataset
  <1> DEFINE listed == {a \in zone : a.dataset = dataset /\ a.part = day}
  <1>1. listed # {} => Newest(listed) \in listed
    <2>1. Cardinality(zone) \in Nat
      BY FS_CardinalityType DEF ZoneInv
    <2> QED
      BY <2>1, NewestIs DEF ZoneInv
  <1> QED
    BY <1>1 DEF LatestIn

\* What a scan has read is in the zone and of its dataset, and before the first
\* partition it is nothing.
LEMMA ScannedIs ==
    ASSUME ZoneInv, NEW dataset, NEW todo
    PROVE  /\ \A a \in ScannedIn(zone, dataset, todo) : a \in zone /\ a.dataset = dataset
           /\ PartsIn(zone, dataset) \subseteq Days
           /\ ScannedIn(zone, dataset, PartsIn(zone, dataset)) = {}
  <1>1. PartsIn(zone, dataset) \subseteq Days
    BY DEF PartsIn, ZoneInv, Filed
  <1> QED
    BY <1>1, LatestIs DEF ScannedIn

\* One more partition.
LEMMA ScanStep ==
    ASSUME NEW z, NEW dataset, NEW todo, NEW day \in todo, todo \subseteq PartsIn(z, dataset)
    PROVE  ScannedIn(z, dataset, todo \ {day}) = ScannedIn(z, dataset, todo) \cup LatestIn(z, dataset, day)
  <1>1. PartsIn(z, dataset) \ (todo \ {day}) = (PartsIn(z, dataset) \ todo) \cup {day}
    OBVIOUS
  <1> HIDE DEF PartsIn, LatestIn
  <1> QED
    BY <1>1 DEF ScannedIn

\* Calendars speak of days.
LEMMA OpenDays ==
    ASSUME ZoneInv, NEW S, \A a \in S : a \in zone /\ a.dataset = "trade_cal"
    PROVE  OpenDates(S) \subseteq Days
  BY DEF OpenDates, ZoneInv, Filed

-----------------------------------------------------------------------------
(* Calls                                                                   *)

SelectionFields == {"kind", "pc", "pg", "day", "daily", "todo", "got", "dataset", "next", "calm", "promise"}

\* The day has been chosen.
Chosen(k) == k.pc \in {"basic", "validate", "ready", "freeze"} \/ (k.pc = "scan" /\ k.next = "select")

\* What is known of a call that selects: while nothing has changed, it has read
\* what is there, and what was promised holds.
SelectionSound(k, z, cyc, prom) ==
    /\ SelectionFields \subseteq DOMAIN k
    /\ k.kind = "freeze" => k.pg
    /\ k.pc \in {"scan", "basic", "validate", "ready", "freeze", "load", "done", "failed"}
    /\ k.pc = "scan" =>
         /\ \/ k.dataset = "trade_cal" /\ k.next = "choose" /\ \A a \in k.got : a \in z /\ a.dataset = "trade_cal"
            \/ k.dataset = "stock_basic" /\ k.next = "select"
         /\ k.todo \subseteq Days
         /\ k.calm => k.todo \subseteq PartsIn(z, k.dataset) /\ k.got = ScannedIn(z, k.dataset, k.todo)
    /\ Chosen(k) =>
         /\ k.day \in Days
         /\ k.calm => /\ OpenDates(CalendarIn(z)) # {} /\ k.day = DayIn(z)
                      /\ k.daily = LatestIn(z, "daily", DayIn(z))
    /\ k.pc \in {"validate", "ready", "freeze"} /\ k.calm => CompleteIn(z)
    /\ k.pc \in {"ready", "freeze"} /\ k.pg /\ k.calm => Freezable(cyc[k.day])
    /\ k.pc \in {"freeze", "load"} => k.kind = "freeze"
    /\ k.pc = "load" => k.day \in Days
    /\ k.kind = "freeze" /\ k.calm /\ k.promise # 0 =>
         IF k.pc \in {"load", "done", "failed"}
         THEN k.day = k.promise /\ (k.pc = "failed" => k.why = "ids unavailable")
         ELSE k.promise = prom

CallSound(k, z, cyc, prom, tabs) ==
    /\ "kind" \in DOMAIN k
    /\ k.kind \in {"none", "readiness", "freeze", "inputs"}
    /\ k.kind = "inputs" => InputSound(k, tabs)
    /\ k.kind \in {"readiness", "freeze"} => SelectionSound(k, z, cyc, prom)

CallsInv ==
    /\ DOMAIN call = Callers
    /\ \A c \in Callers : CallSound(call[c], zone, cycles, promise, tables)

\* A promise names the day a selection would choose now, and it can be frozen.
PromiseInv ==
    promise # 0 => /\ OpenDates(CalendarIn(zone)) # {} /\ DayIn(zone) = promise
                   /\ CompleteIn(zone) /\ Freezable(cycles[promise])

\* A call that is no longer calm knows less.
LEMMA CalmLost ==
    ASSUME NEW k, NEW z, NEW z2, z \subseteq z2, NEW cyc, NEW cyc2, NEW prom, NEW prom2, Grows,
           CallSound(k, z, cyc, prom, tables), k.kind # "none",
           NEW j, j = [k EXCEPT !.calm = FALSE]
    PROVE  CallSound(j, z2, cyc2, prom2, tables')
  <1>1. DOMAIN j = DOMAIN k /\ \A x \in DOMAIN k \ {"calm"} : j[x] = k[x]
    OBVIOUS
  <1>2. j.kind = k.kind /\ "kind" \in DOMAIN j /\ j.kind \in {"readiness", "freeze", "inputs"}
    BY <1>1 DEF CallSound
  <1>3. CASE k.kind = "inputs"
    <2>1. InputSound(k, tables)
      BY <1>3 DEF CallSound
    <2>2. /\ j.pc = k.pc /\ j.todo = k.todo /\ j.spec = k.spec /\ j.ids = k.ids /\ j.read = k.read /\ ~j.calm
          /\ InputFields \subseteq DOMAIN j
      BY <1>1, <2>1 DEF InputSound, InputFields
    <2>3. \A t \in Versions : ReadAt(k, t, tables) => ReadAt(j, t, tables')
      BY <2>2 DEF ReadAt, Grows
    <2> HIDE DEF InputFields
    <2>4. InputSound(j, tables')
      BY <2>1, <2>2, <2>3 DEF InputSound
    <2> QED
      BY <1>2, <1>3, <2>4 DEF CallSound
  <1>4. CASE k.kind \in {"readiness", "freeze"}
    <2>1. SelectionSound(k, z, cyc, prom)
      BY <1>4 DEF CallSound
    <2>2. /\ j.pc = k.pc /\ j.pg = k.pg /\ j.day = k.day /\ j.todo = k.todo /\ j.got = k.got
          /\ j.dataset = k.dataset /\ j.next = k.next /\ ~j.calm /\ SelectionFields \subseteq DOMAIN j
      BY <1>1, <2>1 DEF SelectionSound, SelectionFields
    <2> HIDE DEF SelectionFields
    <2>3. SelectionSound(j, z2, cyc2, prom2)
      BY <1>2, <2>1, <2>2 DEF SelectionSound, Chosen
    <2> QED
      BY <1>2, <1>4, <2>3 DEF CallSound
  <1> QED
    BY <1>2, <1>3, <1>4 DEF CallSound


-----------------------------------------------------------------------------
(* Reports                                                                 *)

CycleRows == [status : {"none", "pending", "phase0"}, frozen : SUBSET Callers]

\* A day is frozen for one caller at a time, and what was reported of it was
\* frozen; a caller that is about to load the ids of a day is the only one
\* that can report it.
ReportsInv ==
    /\ cycles \in [Days -> CycleRows]
    /\ reports \in Seq(Days \X SUBSET Callers)
    /\ \A i \in DOMAIN reports : reports[i][2] # {} /\ reports[i][2] = cycles[reports[i][1]].frozen
    /\ \A c \in Callers : call[c].kind = "freeze" /\ call[c].pc = "load" =>
         /\ cycles[call[c].day].frozen = {c}
         /\ \A i \in DOMAIN reports : reports[i][1] # call[c].day
    /\ FrozenIsReportedOnce

\* What every reachable state of CycleInputs satisfies.
InputsInv == ZoneInv /\ TablesInv /\ ReturnedInv /\ CallsInv /\ PromiseInv /\ ReportsInv


-----------------------------------------------------------------------------
(* Steps                                                                   *)

\* A call that loses its calm, or one whose state is sound, is sound.
LEMMA Disturbing ==
    ASSUME CallsInv, Grows, zone \subseteq zone', DOMAIN call' = Callers,
           \A x \in Callers : \/ call'[x] = Disturbed(call)[x]
                              \/ CallSound(call'[x], zone', cycles', promise', tables')
    PROVE  CallsInv'
  <1>1. ASSUME NEW x \in Callers, call'[x] = Disturbed(call)[x]
        PROVE  CallSound(call'[x], zone', cycles', promise', tables')
    <2>1. CallSound(call[x], zone, cycles, promise, tables)
      BY DEF CallsInv
    <2>2. CASE call[x].kind = "none"
      <3>1. call'[x] = call[x]
        BY <1>1, <2>2 DEF Disturbed
      <3> QED
        BY <2>1, <2>2, <3>1 DEF CallSound
    <2>3. CASE call[x].kind # "none"
      <3>1. call'[x] = [call[x] EXCEPT !.calm = FALSE]
        BY <1>1, <2>3 DEF Disturbed
      <3> QED
        BY <2>1, <2>3, <3>1, CalmLost
    <2> QED
      BY <2>2, <2>3
  <1> QED
    BY <1>1 DEF CallsInv

\* What one process changes makes every call uneasy.
LEMMA AllDisturbed ==
    ASSUME CallsInv, Grows, zone \subseteq zone', call' = Disturbed(call)
    PROVE  CallsInv'
  <1>1. DOMAIN call' = Callers
    BY DEF Disturbed
  <1> QED
    BY <1>1, Disturbing

\* A call does not notice a promise that is made again or for the first time.
LEMMA PromiseKept ==
    ASSUME NEW k, NEW z, NEW cyc, NEW tabs, NEW prom, NEW prom2, prom2 = prom \/ prom = 0,
           CallSound(k, z, cyc, prom, tabs)
    PROVE  CallSound(k, z, cyc, prom2, tabs)
  <1>1. ASSUME SelectionSound(k, z, cyc, prom) PROVE SelectionSound(k, z, cyc, prom2)
    BY <1>1 DEF SelectionSound
  <1> QED
    BY <1>1 DEF CallSound

\* One call moves.
LEMMA OneCall ==
    ASSUME CallsInv, NEW c \in Callers, NEW k, call' = [call EXCEPT ![c] = k],
           UNCHANGED <<zone, cycles, tables>>, promise' = promise \/ promise = 0,
           CallSound(k, zone, cycles, promise', tables)
    PROVE  CallsInv'
  <1>1. DOMAIN call' = Callers /\ call'[c] = k /\ \A x \in Callers \ {c} : call'[x] = call[x]
    BY DEF CallsInv
  <1>2. \A x \in Callers \ {c} : CallSound(call[x], zone, cycles, promise', tables)
    BY PromiseKept DEF CallsInv
  <1>3. \A x \in Callers : CallSound(call'[x], zone, cycles, promise', tables)
    BY <1>1, <1>2
  <1> QED
    BY <1>1, <1>3 DEF CallsInv

\* A call of either kind gives up.
LEMMA Refusing ==
    ASSUME NEW K, NEW z, NEW cyc, NEW prom, NEW tabs, CallSound(K, z, cyc, prom, tabs), NEW why,
           NEW k, k = With([pc |-> "failed", why |-> why], K), K.kind \in {"readiness", "freeze", "inputs"},
           K.kind = "freeze" /\ K.calm /\ K.promise # 0 => K.day = K.promise /\ why = "ids unavailable"
    PROVE  CallSound(k, z, cyc, prom, tabs)
  <1>1. /\ DOMAIN k = {"pc", "why"} \cup DOMAIN K /\ k.pc = "failed" /\ k.why = why
        /\ \A x \in DOMAIN K \ {"pc", "why"} : k[x] = K[x]
    <2> DEFINE f == [pc |-> "failed", why |-> why]
    <2>1. DOMAIN f = {"pc", "why"} /\ f.pc = "failed" /\ f.why = why
      OBVIOUS
    <2> HIDE DEF f
    <2>2. k = With(f, K)
      BY DEF f
    <2>3. /\ DOMAIN With(f, K) = DOMAIN f \cup DOMAIN K /\ \A x \in DOMAIN f : With(f, K)[x] = f[x]
          /\ \A x \in DOMAIN K \ DOMAIN f : With(f, K)[x] = K[x]
      BY ONLY WithIs
    <2> QED
      BY <2>1, <2>2, <2>3
  <1>2. k.kind = K.kind /\ "kind" \in DOMAIN k
    BY <1>1 DEF CallSound
  <1>3. ASSUME K.kind = "inputs" PROVE CallSound(k, z, cyc, prom, tabs)
    <2>1. InputFields \subseteq DOMAIN k
      BY <1>1, <1>3 DEF CallSound, InputSound
    <2>2. k.pc = "failed"
      BY <1>1
    <2>3. InputSound(k, tabs)
      BY <2>1, <2>2 DEF InputSound
    <2> QED
      BY <1>2, <1>3, <2>3 DEF CallSound
  <1>4. ASSUME K.kind \in {"readiness", "freeze"} PROVE CallSound(k, z, cyc, prom, tabs)
    <2>1. SelectionSound(K, z, cyc, prom)
      BY <1>4 DEF CallSound
    <2>2. SelectionFields \subseteq DOMAIN k /\ k.pg = K.pg /\ k.calm = K.calm /\ k.promise = K.promise /\ k.day = K.day
      BY <1>1, <2>1 DEF SelectionSound, SelectionFields
    <2>3. SelectionSound(k, z, cyc, prom)
      BY <1>1, <1>2, <1>4, <2>1, <2>2 DEF SelectionSound, Chosen
    <2>4. k.kind \in {"none", "readiness", "freeze", "inputs"} /\ k.kind # "inputs"
      BY <1>2, <1>4
    <2> QED
      BY <1>2, <2>3, <2>4 DEF CallSound
  <1> QED
    BY <1>3, <1>4

\* The same for a step: a call that selects gives up only for reasons that a
\* kept promise excludes.
LEMMA Refused ==
    ASSUME CallsInv, NEW c \in Callers, NEW why, Refuse(c, why), UNCHANGED <<zone, cycles, tables, promise>>,
           call[c].kind \in {"readiness", "freeze", "inputs"},
           call[c].kind = "freeze" /\ call[c].calm /\ call[c].promise # 0 =>
               call[c].day = call[c].promise /\ why = "ids unavailable"
    PROVE  CallsInv'
  <1> DEFINE K == call[c]
             k == With([pc |-> "failed", why |-> why], K)
  <1>1. CallSound(K, zone, cycles, promise, tables)
    BY DEF CallsInv
  <1>2. call' = [call EXCEPT ![c] = k]
    BY DEF Refuse, On
  <1>3. CallSound(k, zone, cycles, promise, tables)
    <2>1. /\ K.kind \in {"readiness", "freeze", "inputs"}
          /\ K.kind = "freeze" /\ K.calm /\ K.promise # 0 => K.day = K.promise /\ why = "ids unavailable"
      OBVIOUS
    <2>2. k = With([pc |-> "failed", why |-> why], K)
      OBVIOUS
    <2> HIDE DEF K, k
    <2> QED
      BY <1>1, <2>1, <2>2, Refusing
  <1> HIDE DEF k
  <1> QED
    BY <1>2, <1>3, OneCall

\* A new call.
LEMMA Starting ==
    ASSUME CallsInv, NEW c \in Callers, NEW record, NEW kind, record.kind = kind, Begin(c, record),
           CallSound(With(record, [calm |-> TRUE, promise |-> promise]), zone, cycles, promise, tables)
    PROVE  CallsInv'
  <1>1. call' = [call EXCEPT ![c] = With(record, [calm |-> TRUE, promise |-> promise])]
        /\ UNCHANGED <<zone, cycles, tables>> /\ promise' = promise
    BY DEF Begin
  <1> QED
    BY <1>1, OneCall


\* A moved call that selects keeps what makes it what it is.
LEMMA SelectionMoves ==
    ASSUME NEW K, NEW z, NEW cyc, NEW prom, NEW tabs, CallSound(K, z, cyc, prom, tabs),
           K.kind \in {"readiness", "freeze"}, NEW f, NEW k, k = With(f, K),
           DOMAIN f \cap {"kind", "pg", "calm", "promise"} = {}
    PROVE  /\ SelectionSound(K, z, cyc, prom) /\ SelectionFields \subseteq DOMAIN k
           /\ "kind" \in DOMAIN k /\ k.kind = K.kind
           /\ k.pg = K.pg /\ k.calm = K.calm /\ k.promise = K.promise
           /\ \A x \in DOMAIN f : k[x] = f[x]
           /\ \A x \in SelectionFields \ DOMAIN f : k[x] = K[x]
  <1>1. SelectionSound(K, z, cyc, prom) /\ SelectionFields \subseteq DOMAIN K
    BY DEF CallSound, SelectionSound
  <1>2. /\ DOMAIN k = DOMAIN f \cup DOMAIN K /\ \A x \in DOMAIN f : k[x] = f[x]
        /\ \A x \in DOMAIN K \ DOMAIN f : k[x] = K[x]
    <2>1. /\ DOMAIN With(f, K) = DOMAIN f \cup DOMAIN K /\ \A x \in DOMAIN f : With(f, K)[x] = f[x]
          /\ \A x \in DOMAIN K \ DOMAIN f : With(f, K)[x] = K[x]
      BY ONLY WithIs
    <2> QED
      BY <2>1
  <1>3. {"kind", "pg", "calm", "promise"} \subseteq SelectionFields
    BY DEF SelectionFields
  <1> HIDE DEF SelectionFields
  <1> QED
    BY <1>1, <1>2, <1>3

\* A selection in progress is a call of its kind.
LEMMA Selecting ==
    ASSUME NEW k, NEW z, NEW cyc, NEW prom, NEW tabs, "kind" \in DOMAIN k,
           k.kind \in {"readiness", "freeze"}, SelectionSound(k, z, cyc, prom)
    PROVE  CallSound(k, z, cyc, prom, tabs)
  <1>1. k.kind # "inputs" /\ k.kind \in {"none", "readiness", "freeze", "inputs"}
    OBVIOUS
  <1> QED
    BY <1>1 DEF CallSound

\* The calendar's partitions are listed when a selection starts.
LEMMA ScanStarted ==
    ASSUME ZoneInv, CallsInv, NEW c \in Callers, NEW kind \in {"readiness", "freeze"}, NEW pg \in BOOLEAN,
           kind = "freeze" => pg, StartSelection(c, kind, pg)
    PROVE  /\ CallsInv' /\ UNCHANGED <<zone, cycles, tables, promise>>
           /\ \E k : call' = [call EXCEPT ![c] = k] /\ k.pc = "scan"
  <1> DEFINE g == StartScan("trade_cal", "choose")
             h == [kind |-> kind, pg |-> pg, day |-> 0, cal |-> {}, daily |-> {}, basic |-> {}]
             e == [calm |-> TRUE, promise |-> promise]
             k == With(With(h, g), e)
  <1>1. /\ DOMAIN g = {"pc", "dataset", "todo", "got", "next"} /\ g.pc = "scan" /\ g.dataset = "trade_cal"
        /\ g.todo = PartsIn(zone, "trade_cal") /\ g.got = {} /\ g.next = "choose"
    BY DEF StartScan, Partitions, PartsIn
  <1>2. /\ DOMAIN h = {"kind", "pg", "day", "cal", "daily", "basic"} /\ h.kind = kind /\ h.pg = pg
        /\ DOMAIN e = {"calm", "promise"} /\ e.calm = TRUE /\ e.promise = promise
    OBVIOUS
  <1>3. /\ call' = [call EXCEPT ![c] = k]
        /\ UNCHANGED <<zone, cycles, tables, promise>>
    BY DEF StartSelection, Begin
  <1> HIDE DEF g, h, e
  <1>4. /\ DOMAIN With(h, g) = DOMAIN h \cup DOMAIN g /\ \A x \in DOMAIN h : With(h, g)[x] = h[x]
        /\ \A x \in DOMAIN g \ DOMAIN h : With(h, g)[x] = g[x]
    BY WithIs
  <1>5. /\ DOMAIN k = DOMAIN With(h, g) \cup DOMAIN e
        /\ \A x \in DOMAIN With(h, g) : k[x] = With(h, g)[x]
        /\ \A x \in DOMAIN e \ DOMAIN With(h, g) : k[x] = e[x]
    BY WithIs
  <1> HIDE DEF k
  <1>6. /\ k.pc = "scan" /\ k.dataset = "trade_cal" /\ k.todo = PartsIn(zone, "trade_cal") /\ k.got = {} /\ k.next = "choose"
        /\ k.kind = kind /\ k.pg = pg /\ k.calm = TRUE /\ k.promise = promise
        /\ SelectionFields \subseteq DOMAIN k /\ "kind" \in DOMAIN k
    BY <1>1, <1>2, <1>4, <1>5 DEF SelectionFields
  <1>7. SelectionSound(k, zone, cycles, promise)
    BY <1>6, ScannedIs DEF SelectionSound, Chosen
  <1>8. CallSound(k, zone, cycles, promise', tables)
    BY <1>3, <1>6, <1>7, Selecting
  <1> QED
    BY <1>3, <1>6, <1>8, OneCall

\* A partition scanned is a partition read.
LEMMA PartitionScanned ==
    ASSUME ZoneInv, CallsInv, NEW c \in Callers, ScanPartition(c)
    PROVE  CallsInv' /\ UNCHANGED <<zone, cycles, tables, promise>>
  <1> DEFINE K == call[c]
             day == Min(K.todo)
             f == [todo |-> K.todo \ {day}, got |-> K.got \cup LatestArtifact(K.dataset, day)]
             k == With(f, K)
  <1>1. /\ call' = [call EXCEPT ![c] = k] /\ UNCHANGED <<zone, cycles, tables, promise>>
        /\ K.kind \in {"readiness", "freeze"} /\ K.pc = "scan" /\ K.todo # {}
    BY DEF ScanPartition, On, ReadsOnly
  <1>2. CallSound(K, zone, cycles, promise, tables)
    BY DEF CallsInv
  <1>3. /\ DOMAIN f = {"todo", "got"} /\ f.todo = K.todo \ {day}
        /\ f.got = K.got \cup LatestIn(zone, K.dataset, day)
    BY DEF LatestArtifact, LatestIn
  <1> HIDE DEF K, f
  <1>4. /\ SelectionSound(K, zone, cycles, promise) /\ SelectionFields \subseteq DOMAIN k
        /\ "kind" \in DOMAIN k /\ k.kind = K.kind /\ k.pg = K.pg /\ k.calm = K.calm /\ k.promise = K.promise
        /\ \A x \in DOMAIN f : k[x] = f[x]
        /\ \A x \in SelectionFields \ DOMAIN f : k[x] = K[x]
    BY <1>1, <1>2, <1>3, SelectionMoves
  <1> HIDE DEF k
  <1>5. /\ k.pc = "scan" /\ k.dataset = K.dataset /\ k.next = K.next /\ k.todo = K.todo \ {day} /\ k.day = K.day
        /\ k.daily = K.daily /\ k.got = K.got \cup LatestIn(zone, K.dataset, day)
    BY <1>1, <1>3, <1>4 DEF SelectionFields
  <1>6. K.todo \subseteq Days /\ day \in K.todo
    BY <1>1, <1>4, MinIs DEF SelectionSound
  <1> HIDE DEF day
  <1>7. K.calm => k.todo \subseteq PartsIn(zone, K.dataset) /\ k.got = ScannedIn(zone, K.dataset, k.todo)
    BY <1>1, <1>4, <1>5, <1>6, ScanStep DEF SelectionSound
  <1>8. \A a \in LatestIn(zone, K.dataset, day) : a \in zone /\ a.dataset = K.dataset
    BY LatestIs
  <1>9. SelectionSound(k, zone, cycles, promise)
    BY <1>1, <1>4, <1>5, <1>6, <1>7, <1>8 DEF SelectionSound, Chosen
  <1>10. CallSound(k, zone, cycles, promise', tables)
    BY <1>1, <1>4, <1>9, Selecting
  <1> QED
    BY <1>1, <1>10, OneCall

\* The day chosen is the last open day of what was scanned; with a promise
\* there is one.
LEMMA DateChosen ==
    ASSUME ZoneInv, CallsInv, PromiseInv, NEW c \in Callers, ChooseDate(c)
    PROVE  CallsInv' /\ UNCHANGED <<zone, cycles, tables, promise>>
  <1> DEFINE K == call[c]
             open == OpenDates(K.got)
             day == Max(open)
             f == [day |-> day, cal |-> {a \in K.got : day \in OpenDates({a})},
                   daily |-> LatestArtifact("daily", day), pc |-> "basic"]
             k == With(f, K)
  <1>1. /\ K.kind \in {"readiness", "freeze"} /\ K.pc = "scan" /\ K.todo = {} /\ K.next = "choose"
        /\ UNCHANGED <<zone, cycles, tables, promise>>
        /\ IF open = {} THEN Refuse(c, "no open date") ELSE call' = [call EXCEPT ![c] = k]
    BY DEF ChooseDate, On, ReadsOnly
  <1>2. CallSound(K, zone, cycles, promise, tables)
    BY DEF CallsInv
  <1>3. SelectionSound(K, zone, cycles, promise)
    BY <1>1, <1>2 DEF CallSound
  <1>4. /\ \A a \in K.got : a \in zone /\ a.dataset = "trade_cal"
        /\ K.calm => K.got = CalendarIn(zone)
    BY <1>1, <1>3 DEF SelectionSound, CalendarIn
  <1>5. CASE open = {}
    <2>1. K.kind = "freeze" /\ K.calm /\ K.promise # 0 => FALSE
      BY <1>1, <1>3, <1>4, <1>5 DEF SelectionSound, PromiseInv
    <2>2. Refuse(c, "no open date")
      BY <1>1, <1>5
    <2> QED
      BY <1>1, <2>1, <2>2, Refused
  <1>6. CASE open # {}
    <2>1. /\ DOMAIN f = {"day", "cal", "daily", "pc"} /\ f.day = day /\ f.pc = "basic"
          /\ f.daily = LatestIn(zone, "daily", day)
      BY DEF LatestArtifact, LatestIn
    <2>2. open \subseteq Days
      BY <1>4, OpenDays
    <2>3. day \in Days
      BY <1>6, <2>2, MaxIs
    <2>4. K.calm => OpenDates(CalendarIn(zone)) # {} /\ day = DayIn(zone)
      BY <1>4, <1>6 DEF DayIn
    <2> HIDE DEF K, f, day, open
    <2>9. k = With(f, K)
      OBVIOUS
    <2>11. K.kind \in {"readiness", "freeze"}
      BY <1>1
    <2>10. DOMAIN f \cap {"kind", "pg", "calm", "promise"} = {}
      BY <2>1
    <2> HIDE DEF k
    <2>5. /\ SelectionFields \subseteq DOMAIN k
          /\ "kind" \in DOMAIN k /\ k.kind = K.kind /\ k.pg = K.pg /\ k.calm = K.calm /\ k.promise = K.promise
          /\ \A x \in DOMAIN f : k[x] = f[x]
      BY ONLY <1>2, <2>9, <2>10, <2>11, SelectionMoves
    <2>6. k.pc = "basic" /\ k.day = day /\ k.daily = LatestIn(zone, "daily", day) /\ call' = [call EXCEPT ![c] = k]
      BY <1>1, <1>6, <2>1, <2>5
    <2>7. SelectionSound(k, zone, cycles, promise)
      BY <1>1, <1>3, <2>3, <2>4, <2>5, <2>6 DEF SelectionSound, Chosen
    <2>8. CallSound(k, zone, cycles, promise', tables)
      BY <1>1, <2>5, <2>7, Selecting
    <2> QED
      BY <1>1, <2>6, <2>8, OneCall
  <1> QED
    BY <1>5, <1>6


\* The stock list's partitions are listed when the day has been chosen.
LEMMA BasicScanStarted ==
    ASSUME ZoneInv, CallsInv, NEW c \in Callers, ScanBasic(c)
    PROVE  CallsInv' /\ UNCHANGED <<zone, cycles, tables, promise>>
  <1> DEFINE K == call[c]
             f == StartScan("stock_basic", "select")
             k == With(f, K)
  <1>1. /\ call' = [call EXCEPT ![c] = k] /\ UNCHANGED <<zone, cycles, tables, promise>>
        /\ K.kind \in {"readiness", "freeze"} /\ K.pc = "basic"
    BY DEF ScanBasic, On, ReadsOnly
  <1>2. CallSound(K, zone, cycles, promise, tables)
    BY DEF CallsInv
  <1>3. /\ DOMAIN f = {"pc", "dataset", "todo", "got", "next"} /\ f.pc = "scan" /\ f.dataset = "stock_basic"
        /\ f.todo = PartsIn(zone, "stock_basic") /\ f.got = {} /\ f.next = "select"
    BY DEF StartScan, Partitions, PartsIn
  <1>4. K.kind \in {"readiness", "freeze"} /\ k = With(f, K) /\ DOMAIN f \cap {"kind", "pg", "calm", "promise"} = {}
    BY <1>1, <1>3
  <1> HIDE DEF K, f, k
  <1>5. /\ SelectionSound(K, zone, cycles, promise) /\ SelectionFields \subseteq DOMAIN k
        /\ "kind" \in DOMAIN k /\ k.kind = K.kind /\ k.pg = K.pg /\ k.calm = K.calm /\ k.promise = K.promise
        /\ \A x \in DOMAIN f : k[x] = f[x]
        /\ \A x \in SelectionFields \ DOMAIN f : k[x] = K[x]
    BY ONLY <1>2, <1>4, SelectionMoves
  <1>6. /\ k.pc = "scan" /\ k.dataset = "stock_basic" /\ k.next = "select" /\ k.todo = PartsIn(zone, "stock_basic")
        /\ k.got = {} /\ k.day = K.day /\ k.daily = K.daily
    BY <1>3, <1>5 DEF SelectionFields
  <1>7. SelectionSound(k, zone, cycles, promise)
    BY <1>1, <1>5, <1>6, ScannedIs DEF SelectionSound, Chosen
  <1>8. CallSound(k, zone, cycles, promise', tables)
    BY <1>1, <1>5, <1>7, Selecting
  <1> QED
    BY <1>1, <1>8, OneCall

\* A calm selection is complete when the day's own is.
LEMMA CompleteMeans ==
    ASSUME NEW K, SelectionSound(K, zone, cycles, promise), K.pc = "scan", K.todo = {}, K.next = "select"
    PROVE  /\ K.day \in Days
           /\ K.calm => /\ OpenDates(CalendarIn(zone)) # {} /\ K.day = DayIn(zone)
                        /\ K.daily = LatestIn(zone, "daily", DayIn(zone))
                        /\ SelectionComplete(K.daily, K.got, K.day) <=> CompleteIn(zone)
  <1>1. K.dataset = "stock_basic" /\ K.day \in Days
        /\ (K.calm => /\ OpenDates(CalendarIn(zone)) # {} /\ K.day = DayIn(zone)
                      /\ K.daily = LatestIn(zone, "daily", DayIn(zone))
                      /\ K.got = ScannedIn(zone, "stock_basic", {}))
    BY DEF SelectionSound, Chosen
  <1> QED
    BY <1>1 DEF CompleteIn

\* A selection that finds its day complete goes on; with a promise it does.
LEMMA Selected ==
    ASSUME ZoneInv, CallsInv, PromiseInv, NEW c \in Callers, Select(c)
    PROVE  CallsInv' /\ UNCHANGED <<zone, cycles, tables, promise>>
  <1> DEFINE K == call[c]
             f == [basic |-> {Newest(K.got)}, pc |-> AfterSelection(c)]
             k == With(f, K)
  <1>1. /\ K.kind \in {"readiness", "freeze"} /\ K.pc = "scan" /\ K.todo = {} /\ K.next = "select"
        /\ UNCHANGED <<zone, cycles, tables, promise>>
        /\ IF SelectionComplete(K.daily, K.got, K.day) THEN call' = [call EXCEPT ![c] = k] ELSE Refuse(c, "incomplete")
    BY DEF Select, On, ReadsOnly
  <1>2. CallSound(K, zone, cycles, promise, tables)
    BY DEF CallsInv
  <1>3. SelectionSound(K, zone, cycles, promise)
    BY <1>1, <1>2 DEF CallSound
  <1>4. /\ K.day \in Days
        /\ K.calm => /\ OpenDates(CalendarIn(zone)) # {} /\ K.day = DayIn(zone)
                     /\ K.daily = LatestIn(zone, "daily", DayIn(zone))
                     /\ SelectionComplete(K.daily, K.got, K.day) <=> CompleteIn(zone)
    BY <1>1, <1>3, CompleteMeans
  <1>5. CASE ~SelectionComplete(K.daily, K.got, K.day)
    <2>1. K.kind = "freeze" /\ K.calm /\ K.promise # 0 => FALSE
      <3>1. K.kind = "freeze" /\ K.calm /\ K.promise # 0 => promise # 0
        BY <1>1, <1>3 DEF SelectionSound
      <3> QED
        BY <1>4, <1>5, <3>1 DEF PromiseInv
    <2>2. Refuse(c, "incomplete")
      BY <1>1, <1>5
    <2> QED
      BY <1>1, <2>1, <2>2, Refused
  <1>6. CASE SelectionComplete(K.daily, K.got, K.day)
    <2>1. /\ DOMAIN f = {"basic", "pc"} /\ f.pc = (IF K.pg THEN "validate" ELSE "ready")
      BY DEF AfterSelection
    <2>2. K.kind \in {"readiness", "freeze"} /\ k = With(f, K) /\ DOMAIN f \cap {"kind", "pg", "calm", "promise"} = {}
      BY <1>1, <2>1
    <2>3. call' = [call EXCEPT ![c] = k] /\ (K.calm => CompleteIn(zone))
      BY <1>1, <1>4, <1>6
    <2> HIDE DEF K, f, k
    <2>4. /\ SelectionFields \subseteq DOMAIN k
          /\ "kind" \in DOMAIN k /\ k.kind = K.kind /\ k.pg = K.pg /\ k.calm = K.calm /\ k.promise = K.promise
          /\ \A x \in DOMAIN f : k[x] = f[x]
          /\ \A x \in SelectionFields \ DOMAIN f : k[x] = K[x]
      BY ONLY <1>2, <2>2, SelectionMoves
    <2>5. k.pc = (IF K.pg THEN "validate" ELSE "ready") /\ k.day = K.day /\ k.daily = K.daily
      BY <2>1, <2>4 DEF SelectionFields
    <2>6. K.kind = "freeze" => K.pg
      BY <1>3 DEF SelectionSound
    <2>7. K.kind = "freeze" /\ K.calm /\ K.promise # 0 => K.promise = promise
      BY <1>1, <1>3 DEF SelectionSound
    <2>8. SelectionSound(k, zone, cycles, promise)
      <3>1. CASE K.pg
        <4>1. k.pc = "validate"
          BY <2>5, <3>1
        <4> QED
          BY <1>4, <2>3, <2>4, <2>5, <2>6, <2>7, <3>1, <4>1 DEF SelectionSound, Chosen
      <3>2. CASE ~K.pg
        <4>1. k.pc = "ready" /\ K.kind # "freeze"
          BY <2>5, <2>6, <3>2
        <4> QED
          BY <1>4, <2>3, <2>4, <2>5, <3>2, <4>1 DEF SelectionSound, Chosen
      <3> QED
        BY <3>1, <3>2
    <2>9. CallSound(k, zone, cycles, promise', tables)
      BY <1>1, <2>2, <2>4, <2>8, Selecting
    <2> QED
      BY <1>1, <2>3, <2>9, OneCall
  <1> QED
    BY <1>5, <1>6

\* The cycle of the day can be frozen when its row is checked; with a promise
\* it can.
LEMMA Validated ==
    ASSUME ZoneInv, CallsInv, PromiseInv, NEW c \in Callers, ValidateConditions(c)
    PROVE  CallsInv' /\ UNCHANGED <<zone, cycles, tables, promise>>
  <1> DEFINE K == call[c]
             f == [pc |-> IF K.kind = "freeze" THEN "freeze" ELSE "ready"]
             k == With(f, K)
  <1>1. /\ K.kind \in {"readiness", "freeze"} /\ K.pc = "validate"
        /\ UNCHANGED <<zone, cycles, tables, promise>>
        /\ IF Freezable(cycles[K.day]) THEN call' = [call EXCEPT ![c] = k] ELSE Refuse(c, "not ready")
    BY DEF ValidateConditions, On, ReadsOnly
  <1>2. CallSound(K, zone, cycles, promise, tables)
    BY DEF CallsInv
  <1>3. SelectionSound(K, zone, cycles, promise)
    BY <1>1, <1>2 DEF CallSound
  <1>4. /\ K.day \in Days
        /\ K.calm => /\ OpenDates(CalendarIn(zone)) # {} /\ K.day = DayIn(zone)
                     /\ K.daily = LatestIn(zone, "daily", DayIn(zone)) /\ CompleteIn(zone)
        /\ K.kind = "freeze" /\ K.calm /\ K.promise # 0 => K.promise = promise
        /\ K.kind = "freeze" => K.pg
    BY <1>1, <1>3 DEF SelectionSound, Chosen
  <1>5. CASE ~Freezable(cycles[K.day])
    <2>1. K.kind = "freeze" /\ K.calm /\ K.promise # 0 => FALSE
      BY <1>4, <1>5 DEF PromiseInv
    <2>2. Refuse(c, "not ready")
      BY <1>1, <1>5
    <2> QED
      BY <1>1, <2>1, <2>2, Refused
  <1>6. CASE Freezable(cycles[K.day])
    <2>1. /\ DOMAIN f = {"pc"} /\ f.pc = (IF K.kind = "freeze" THEN "freeze" ELSE "ready")
      OBVIOUS
    <2>2. K.kind \in {"readiness", "freeze"} /\ k = With(f, K) /\ DOMAIN f \cap {"kind", "pg", "calm", "promise"} = {}
      BY <1>1, <2>1
    <2>3. call' = [call EXCEPT ![c] = k]
      BY <1>1, <1>6
    <2> HIDE DEF K, f, k
    <2>4. /\ SelectionFields \subseteq DOMAIN k
          /\ "kind" \in DOMAIN k /\ k.kind = K.kind /\ k.pg = K.pg /\ k.calm = K.calm /\ k.promise = K.promise
          /\ \A x \in DOMAIN f : k[x] = f[x]
          /\ \A x \in SelectionFields \ DOMAIN f : k[x] = K[x]
      BY ONLY <1>2, <2>2, SelectionMoves
    <2>5. /\ k.pc = (IF K.kind = "freeze" THEN "freeze" ELSE "ready") /\ k.day = K.day /\ k.daily = K.daily
          /\ Freezable(cycles[k.day])
      BY <1>6, <2>1, <2>4 DEF SelectionFields
    <2>6. SelectionSound(k, zone, cycles, promise)
      <3>1. CASE K.kind = "freeze"
        <4>1. k.pc = "freeze"
          BY <2>5, <3>1
        <4> QED
          BY <1>4, <2>4, <2>5, <3>1, <4>1 DEF SelectionSound, Chosen
      <3>2. CASE K.kind # "freeze"
        <4>1. k.pc = "ready"
          BY <2>5, <3>2
        <4> QED
          BY <1>4, <2>4, <2>5, <3>2, <4>1 DEF SelectionSound, Chosen
      <3> QED
        BY <3>1, <3>2
    <2>7. CallSound(k, zone, cycles, promise', tables)
      BY <1>1, <2>2, <2>4, <2>6, Selecting
    <2> QED
      BY <1>1, <2>3, <2>7, OneCall
  <1> QED
    BY <1>5, <1>6


\* What is promised can be frozen.
LEMMA Promised ==
    ASSUME ZoneInv, CallsInv, PromiseInv, NEW c \in Callers, AnswerReady(c)
    PROVE  CallsInv' /\ PromiseInv' /\ UNCHANGED <<zone, cycles, tables>>
  <1> DEFINE K == call[c]
             f == [pc |-> "done"]
             k == With(f, K)
  <1>1. /\ K.kind = "readiness" /\ K.pc = "ready" /\ call' = [call EXCEPT ![c] = k]
        /\ promise' = (IF K.calm /\ K.pg THEN K.day ELSE promise) /\ UNCHANGED <<zone, cycles, tables>>
    BY DEF AnswerReady, On
  <1>2. CallSound(K, zone, cycles, promise, tables)
    BY DEF CallsInv
  <1>3. /\ DOMAIN f = {"pc"} /\ f.pc = "done"
    OBVIOUS
  <1>4. K.kind \in {"readiness", "freeze"} /\ k = With(f, K) /\ DOMAIN f \cap {"kind", "pg", "calm", "promise"} = {}
    BY <1>1, <1>3
  <1> HIDE DEF K, f, k
  <1>5. /\ SelectionSound(K, zone, cycles, promise) /\ SelectionFields \subseteq DOMAIN k
        /\ "kind" \in DOMAIN k /\ k.kind = K.kind /\ k.pg = K.pg /\ k.calm = K.calm /\ k.promise = K.promise
        /\ \A x \in DOMAIN f : k[x] = f[x]
        /\ \A x \in SelectionFields \ DOMAIN f : k[x] = K[x]
    BY ONLY <1>2, <1>4, SelectionMoves
  <1>6. k.pc = "done"
    BY <1>3, <1>5
  <1>7. K.calm /\ K.pg => /\ OpenDates(CalendarIn(zone)) # {} /\ K.day = DayIn(zone)
                          /\ CompleteIn(zone) /\ Freezable(cycles[K.day])
    BY <1>1, <1>5 DEF SelectionSound, Chosen
  <1>8. PromiseInv'
    <2>1. CASE K.calm /\ K.pg
      <3>1. promise' = K.day /\ zone' = zone /\ cycles' = cycles
        BY <1>1, <2>1
      <3> QED
        BY <1>7, <2>1, <3>1 DEF PromiseInv, CompleteIn, DayIn, CalendarIn
    <2>2. CASE ~(K.calm /\ K.pg)
      <3>1. promise' = promise /\ zone' = zone /\ cycles' = cycles
        BY <1>1, <2>2
      <3> QED
        BY <3>1 DEF PromiseInv
    <2> QED
      BY <2>1, <2>2
  <1>9. promise' = promise \/ promise = 0
    BY <1>1, <1>7 DEF PromiseInv
  <1>10. SelectionSound(k, zone, cycles, promise')
    BY <1>1, <1>5, <1>6 DEF SelectionSound, Chosen
  <1>11. CallSound(k, zone, cycles, promise', tables)
    BY <1>1, <1>5, <1>10, Selecting
  <1> QED
    BY <1>1, <1>8, <1>9, <1>11, OneCall

\* A freeze takes its day, and everything else has changed under the others.
LEMMA Frozen ==
    ASSUME ZoneInv, TablesInv, CallsInv, PromiseInv, NEW c \in Callers, FreezeCycle(c)
    PROVE  CallsInv' /\ PromiseInv'
  <1> DEFINE K == call[c]
             f == [pc |-> "load"]
             k == With(f, K)
  <1>1. /\ K.kind = "freeze" /\ K.pc = "freeze" /\ UNCHANGED <<zone, tables>>
        /\ IF Freezable(cycles[K.day])
           THEN /\ cycles' = [cycles EXCEPT ![K.day] = [status |-> "phase0", frozen |-> {c}]]
                /\ call' = [Disturbed(call) EXCEPT ![c] = k] /\ promise' = 0
           ELSE Refuse(c, "not ready") /\ UNCHANGED <<cycles, promise>>
    BY DEF FreezeCycle
  <1>2. CallSound(K, zone, cycles, promise, tables)
    BY DEF CallsInv
  <1>3. SelectionSound(K, zone, cycles, promise)
    BY <1>1, <1>2 DEF CallSound
  <1>4. /\ K.day \in Days
        /\ K.calm => K.day = DayIn(zone) /\ Freezable(cycles[K.day])
        /\ K.calm /\ K.promise # 0 => K.promise = promise
    BY <1>1, <1>3 DEF SelectionSound, Chosen
  <1>5. CASE ~Freezable(cycles[K.day])
    <2>1. K.kind = "freeze" /\ K.calm /\ K.promise # 0 => FALSE
      BY <1>4, <1>5
    <2>2. Refuse(c, "not ready") /\ UNCHANGED <<zone, cycles, tables, promise>>
      BY <1>1, <1>5
    <2>3. PromiseInv'
      BY <2>2 DEF PromiseInv
    <2> QED
      BY <1>1, <2>1, <2>2, <2>3, Refused
  <1>6. CASE Freezable(cycles[K.day])
    <2>1. /\ DOMAIN f = {"pc"} /\ f.pc = "load"
      OBVIOUS
    <2>2. K.kind \in {"readiness", "freeze"} /\ k = With(f, K) /\ DOMAIN f \cap {"kind", "pg", "calm", "promise"} = {}
      BY <1>1, <2>1
    <2>3. call' = [Disturbed(call) EXCEPT ![c] = k] /\ promise' = 0 /\ UNCHANGED <<zone, tables>>
      BY <1>1, <1>6
    <2>4. promise # 0 => DayIn(zone) = promise
      BY DEF PromiseInv
    <2> HIDE DEF K, f, k
    <2>5. /\ SelectionFields \subseteq DOMAIN k
          /\ "kind" \in DOMAIN k /\ k.kind = K.kind /\ k.pg = K.pg /\ k.calm = K.calm /\ k.promise = K.promise
          /\ \A x \in DOMAIN f : k[x] = f[x]
          /\ \A x \in SelectionFields \ DOMAIN f : k[x] = K[x]
      BY ONLY <1>2, <2>2, SelectionMoves
    <2>6. k.pc = "load" /\ k.day = K.day
      BY <2>1, <2>5 DEF SelectionFields
    <2>7. SelectionSound(k, zone, cycles', promise')
      BY <1>1, <1>3, <1>4, <2>4, <2>5, <2>6 DEF SelectionSound, Chosen
    <2>8. CallSound(k, zone', cycles', promise', tables')
      BY <2>2, <2>3, <2>5, <2>7, Selecting
    <2>9. DOMAIN call' = Callers /\ call'[c] = k /\ \A x \in Callers \ {c} : call'[x] = Disturbed(call)[x]
      BY <2>3 DEF Disturbed
    <2>10. Grows
      BY <2>3, SameGrows
    <2>11. CallsInv'
      BY <2>3, <2>8, <2>9, <2>10, Disturbing
    <2> QED
      BY <2>3, <2>11 DEF PromiseInv
  <1> QED
    BY <1>5, <1>6

\* A freeze that has loaded its ids is done with the day it was promised.
LEMMA Loaded ==
    ASSUME CallsInv, NEW c \in Callers, LoadFrozen(c)
    PROVE  CallsInv' /\ UNCHANGED <<zone, cycles, tables, promise>>
  <1> DEFINE K == call[c]
             f == [pc |-> "done"]
             k == With(f, K)
  <1>1. /\ K.kind = "freeze" /\ K.pc = "load" /\ call' = [call EXCEPT ![c] = k]
        /\ UNCHANGED <<zone, cycles, tables, promise>>
    BY DEF LoadFrozen, On
  <1>2. CallSound(K, zone, cycles, promise, tables)
    BY DEF CallsInv
  <1>3. /\ DOMAIN f = {"pc"} /\ f.pc = "done"
    OBVIOUS
  <1>4. K.kind \in {"readiness", "freeze"} /\ k = With(f, K) /\ DOMAIN f \cap {"kind", "pg", "calm", "promise"} = {}
    BY <1>1, <1>3
  <1> HIDE DEF K, f, k
  <1>5. /\ SelectionSound(K, zone, cycles, promise) /\ SelectionFields \subseteq DOMAIN k
        /\ "kind" \in DOMAIN k /\ k.kind = K.kind /\ k.pg = K.pg /\ k.calm = K.calm /\ k.promise = K.promise
        /\ \A x \in DOMAIN f : k[x] = f[x]
        /\ \A x \in SelectionFields \ DOMAIN f : k[x] = K[x]
    BY ONLY <1>2, <1>4, SelectionMoves
  <1>6. k.pc = "done" /\ k.day = K.day
    BY <1>3, <1>5 DEF SelectionFields
  <1>7. SelectionSound(k, zone, cycles, promise)
    BY <1>1, <1>5, <1>6 DEF SelectionSound, Chosen
  <1>8. CallSound(k, zone, cycles, promise', tables)
    BY <1>1, <1>5, <1>7, Selecting
  <1> QED
    BY <1>1, <1>8, OneCall

\* The load of the ids is the one thing that can still fail.
LEMMA NotLoaded ==
    ASSUME CallsInv, NEW c \in Callers, LoadFails(c)
    PROVE  CallsInv' /\ UNCHANGED <<zone, cycles, tables, promise>>
  <1>1. /\ call[c].kind = "freeze" /\ call[c].pc = "load" /\ Refuse(c, "ids unavailable")
        /\ UNCHANGED <<zone, cycles, tables, promise>>
    BY DEF LoadFails
  <1>2. CallSound(call[c], zone, cycles, promise, tables)
    BY DEF CallsInv
  <1>3. call[c].calm /\ call[c].promise # 0 => call[c].day = call[c].promise
    BY <1>1, <1>2 DEF CallSound, SelectionSound
  <1> QED
    BY <1>1, <1>3, Refused

\* A call that has ended leaves no trace.
LEMMA Returned ==
    ASSUME CallsInv, NEW c \in Callers, Return(c)
    PROVE  CallsInv' /\ UNCHANGED <<zone, cycles, tables, promise>>
  <1>1. call' = [call EXCEPT ![c] = NoCall] /\ UNCHANGED <<zone, cycles, tables, promise>>
    BY DEF Return, ReadsOnly
  <1>2. CallSound(NoCall, zone, cycles, promise', tables)
    BY DEF CallSound, NoCall
  <1> QED
    BY <1>1, <1>2, OneCall


-----------------------------------------------------------------------------
(* Steps of a call for inputs                                              *)

\* A moved call for the inputs keeps what makes it what it is.
LEMMA InputMoves ==
    ASSUME NEW K, NEW z, NEW cyc, NEW prom, NEW tabs, CallSound(K, z, cyc, prom, tabs),
           K.kind = "inputs", NEW f, NEW k, k = With(f, K),
           DOMAIN f \cap {"kind", "spec", "candidates", "calm"} = {}
    PROVE  /\ InputSound(K, tabs) /\ InputFields \subseteq DOMAIN k
           /\ "kind" \in DOMAIN k /\ k.kind = "inputs" /\ k.spec = K.spec /\ k.calm = K.calm
           /\ \A x \in DOMAIN f : k[x] = f[x]
           /\ \A x \in InputFields \ DOMAIN f : k[x] = K[x]
  <1>1. InputSound(K, tabs) /\ InputFields \subseteq DOMAIN K
    BY DEF CallSound, InputSound
  <1>2. /\ DOMAIN k = DOMAIN f \cup DOMAIN K /\ \A x \in DOMAIN f : k[x] = f[x]
        /\ \A x \in DOMAIN K \ DOMAIN f : k[x] = K[x]
    <2>1. /\ DOMAIN With(f, K) = DOMAIN f \cup DOMAIN K /\ \A x \in DOMAIN f : With(f, K)[x] = f[x]
          /\ \A x \in DOMAIN K \ DOMAIN f : With(f, K)[x] = K[x]
      BY ONLY WithIs
    <2> QED
      BY <2>1
  <1>3. {"kind", "spec", "candidates", "calm"} \subseteq InputFields
    BY DEF InputFields
  <1> HIDE DEF InputFields
  <1> QED
    BY <1>1, <1>2, <1>3

\* A call for inputs in progress is a call of its kind.
LEMMA Asking ==
    ASSUME NEW k, NEW z, NEW cyc, NEW prom, NEW tabs, "kind" \in DOMAIN k, k.kind = "inputs", InputSound(k, tabs)
    PROVE  CallSound(k, z, cyc, prom, tabs)
  BY DEF CallSound

\* A call for inputs starts with the ids of two marts to find.
LEMMA InputsStarted ==
    ASSUME CallsInv, NEW c \in Callers, NEW spec, NEW candidates, StartInputs(c, spec, candidates)
    PROVE  /\ CallsInv' /\ UNCHANGED <<zone, cycles, tables, promise>>
           /\ \E k : call' = [call EXCEPT ![c] = k] /\ k.kind = "inputs"
  <1> DEFINE h == [kind |-> "inputs", pc |-> "ids", todo |-> <<"price", "security">>, spec |-> spec,
                   candidates |-> candidates, ids |-> <<>>, read |-> <<>>, rows |-> {}]
             e == [calm |-> TRUE, promise |-> promise]
             k == With(h, e)
  <1>1. /\ DOMAIN h = {"kind", "pc", "todo", "spec", "candidates", "ids", "read", "rows"} /\ h.kind = "inputs"
        /\ h.pc = "ids" /\ h.todo = <<"price", "security">>
        /\ DOMAIN e = {"calm", "promise"}
    OBVIOUS
  <1>2. call' = [call EXCEPT ![c] = k] /\ UNCHANGED <<zone, cycles, tables, promise>>
    BY DEF StartInputs, Begin
  <1> HIDE DEF h, e
  <1>3. /\ DOMAIN k = DOMAIN h \cup DOMAIN e /\ \A x \in DOMAIN h : k[x] = h[x]
    BY ONLY WithIs
  <1> HIDE DEF k
  <1>4. /\ k.pc = "ids" /\ k.todo = <<"price", "security">> /\ k.kind = "inputs" /\ "kind" \in DOMAIN k
        /\ InputFields \subseteq DOMAIN k
    BY <1>1, <1>3 DEF InputFields
  <1>5. InputSound(k, tables)
    BY <1>4 DEF InputSound
  <1>6. CallSound(k, zone, cycles, promise', tables)
    BY <1>4, <1>5, Asking
  <1> QED
    BY <1>2, <1>4, <1>6, OneCall

\* All tables are left to read.
LEMMA ReadingStarted ==
    ASSUME NEW k, NEW tabs, InputFields \subseteq DOMAIN k, k.pc = "read",
           k.todo = <<"entity", "alias", "security", "price">>,
           k.spec # <<>> => Marts \subseteq DOMAIN k.spec /\ \A m \in Marts : k.ids[m] = k.spec[m],
           k.spec = <<>> /\ k.calm => \A m \in Marts : k.ids[m] = Len(tabs[m])
    PROVE  InputSound(k, tabs)
  <1>1. k.todo \in TablesLeft /\ Versions \ Elements(k.todo) = {}
    BY SuffixIs DEF TablesLeft
  <1>2. k.pc \in {"ids", "read", "done", "failed"} /\ k.pc # "ids" /\ k.pc # "done"
    OBVIOUS
  <1> QED
    BY <1>1, <1>2 DEF InputSound

\* What reading the ids leaves a call with.
IdsSound(f, spec, calm, tabs) ==
    \/ /\ f.pc = "read" /\ f.todo = <<"entity", "alias", "security", "price">>
       /\ spec # <<>> => Marts \subseteq DOMAIN spec /\ \A m \in Marts : f.ids[m] = spec[m]
       /\ spec = <<>> /\ calm => \A m \in Marts : f.ids[m] = Len(tabs[m])
    \/ /\ f.pc = "ids" /\ f.todo = <<"security">> /\ spec = <<>> /\ "price" \in DOMAIN f.ids
       /\ calm => f.ids["price"] = Len(tabs["price"])

\* A call whose ids have been filed soundly is sound.
LEMMA IdsFiled ==
    ASSUME CallsInv, NEW c \in Callers, NEW K, K = call[c], K.kind = "inputs", UNCHANGED <<zone, cycles, tables, promise>>,
           NEW f, call' = [call EXCEPT ![c] = With(f, K)], DOMAIN f = {"ids", "todo", "pc"},
           IdsSound(f, K.spec, K.calm, tables)
    PROVE  CallsInv'
  <1> DEFINE k == With(f, K)
  <1>1. k = With(f, K) /\ DOMAIN f \cap {"kind", "spec", "candidates", "calm"} = {} /\ call' = [call EXCEPT ![c] = k]
    OBVIOUS
  <1>2. CallSound(K, zone, cycles, promise, tables) /\ K.kind = "inputs"
    BY DEF CallsInv
  <1> HIDE DEF k
  <1>3. /\ InputFields \subseteq DOMAIN k
        /\ "kind" \in DOMAIN k /\ k.kind = "inputs" /\ k.spec = K.spec /\ k.calm = K.calm
        /\ \A x \in DOMAIN f : k[x] = f[x]
    BY ONLY <1>1, <1>2, InputMoves
  <1>4. k.ids = f.ids /\ k.todo = f.todo /\ k.pc = f.pc
    BY <1>3
  <1>5. InputSound(k, tables)
    <2>1. CASE f.pc = "read"
      BY <1>3, <1>4, <2>1, ReadingStarted DEF IdsSound
    <2>2. CASE f.pc = "ids"
      BY <1>3, <1>4, <2>2 DEF IdsSound, InputSound
    <2> QED
      BY <2>1, <2>2 DEF IdsSound
  <1>6. CallSound(k, zone, cycles, promise', tables)
    BY <1>3, <1>5, Asking
  <1> QED
    BY <1>1, <1>6, OneCall

\* Ids are the caller's, or the current versions as long as nothing is
\* published.
LEMMA IdsRead ==
    ASSUME CallsInv, NEW c \in Callers, ReadIds(c)
    PROVE  CallsInv' /\ UNCHANGED <<zone, cycles, tables, promise>>
  <1> DEFINE all == <<"entity", "alias", "security", "price">>
             current(t) == Place(t, CurrentVersion(t), call[c].ids)
             fixed == [pc |-> "read", todo |-> all, ids |-> [m \in Marts |-> call[c].spec[m]]]
             one == [ids |-> current("price"), todo |-> <<"security">>, pc |-> "ids"]
             two == [ids |-> current("security"), todo |-> all, pc |-> "read"]
  <1>1. call[c].kind = "inputs" /\ call[c].pc = "ids" /\ UNCHANGED <<zone, cycles, tables, promise>>
    BY DEF ReadIds, ReadsOnly
  <1>2. InputSound(call[c], tables)
    BY <1>1 DEF CallsInv, CallSound
  <1>3. /\ Head(<<"price", "security">>) = "price" /\ Tail(<<"price", "security">>) = <<"security">>
        /\ Head(<<"security">>) = "security" /\ Tail(<<"security">>) = <<>> /\ <<"security">> # <<>>
    OBVIOUS
  <1>4. \A t : current(t) = Place(t, Len(tables[t]), call[c].ids)
    BY DEF CurrentVersion
  <1>5. \/ Refuse(c, "snapshot missing")
        \/ call[c].spec # <<>> /\ Marts \subseteq DOMAIN call[c].spec /\ On(c, fixed)
        \/ call[c].spec = <<>> /\ call[c].todo = <<"price", "security">> /\ On(c, one)
        \/ call[c].spec = <<>> /\ call[c].todo = <<"security">> /\ On(c, two)
    <2>1. CASE call[c].todo = <<"price", "security">>
      BY <1>3, <2>1 DEF ReadIds
    <2>2. CASE call[c].todo = <<"security">> /\ call[c].spec = <<>>
      BY <1>3, <2>2 DEF ReadIds
    <2> QED
      BY <1>1, <1>2, <2>1, <2>2 DEF InputSound
  <1>6. CASE Refuse(c, "snapshot missing")
    BY <1>1, <1>6, Refused
  <1>7. CASE call[c].spec # <<>> /\ Marts \subseteq DOMAIN call[c].spec /\ On(c, fixed)
    <2>1. DOMAIN fixed = {"ids", "todo", "pc"} /\ fixed.pc = "read" /\ fixed.todo = all
          /\ \A m \in Marts : fixed.ids[m] = call[c].spec[m]
      OBVIOUS
    <2>2. call' = [call EXCEPT ![c] = With(fixed, call[c])]
      BY <1>7 DEF On
    <2> HIDE DEF fixed
    <2>3. IdsSound(fixed, call[c].spec, call[c].calm, tables)
      BY <1>7, <2>1 DEF IdsSound
    <2> QED
      BY <1>1, <2>1, <2>2, <2>3, IdsFiled
  <1>8. CASE call[c].spec = <<>> /\ call[c].todo = <<"price", "security">> /\ On(c, one)
    <2>1. DOMAIN one = {"ids", "todo", "pc"} /\ one.pc = "ids" /\ one.todo = <<"security">>
          /\ one.ids = current("price")
      OBVIOUS
    <2>2. call' = [call EXCEPT ![c] = With(one, call[c])]
      BY <1>8 DEF On
    <2> HIDE DEF one, current
    <2>3. "price" \in DOMAIN one.ids /\ one.ids["price"] = Len(tables["price"])
      <3>1. one.ids = Place("price", Len(tables["price"]), call[c].ids)
        BY <1>4, <2>1
      <3>2. /\ DOMAIN Place("price", Len(tables["price"]), call[c].ids) = {"price"} \cup DOMAIN call[c].ids
            /\ Place("price", Len(tables["price"]), call[c].ids)["price"] = Len(tables["price"])
        BY ONLY PutIs
      <3> QED
        BY <3>1, <3>2
    <2>4. IdsSound(one, call[c].spec, call[c].calm, tables)
      BY <1>8, <2>1, <2>3 DEF IdsSound
    <2> QED
      BY <1>1, <2>1, <2>2, <2>4, IdsFiled
  <1>9. CASE call[c].spec = <<>> /\ call[c].todo = <<"security">> /\ On(c, two)
    <2>1. DOMAIN two = {"ids", "todo", "pc"} /\ two.pc = "read" /\ two.todo = all
          /\ two.ids = current("security")
      OBVIOUS
    <2>2. call' = [call EXCEPT ![c] = With(two, call[c])]
      BY <1>9 DEF On
    <2>3. "price" \in DOMAIN call[c].ids /\ (call[c].calm => call[c].ids["price"] = Len(tables["price"]))
      <3>1. call[c].todo # <<"price", "security">>
        <4>1. <<"price", "security">>[1] # <<"security">>[1]
          OBVIOUS
        <4> QED
          BY <1>9, <4>1
      <3> QED
        BY <1>1, <1>2, <3>1 DEF InputSound
    <2> HIDE DEF two, current
    <2>4. /\ two.ids["security"] = Len(tables["security"])
          /\ two.ids["price"] = call[c].ids["price"]
      <3>1. two.ids = Place("security", Len(tables["security"]), call[c].ids)
        BY <1>4, <2>1
      <3>2. Place("security", Len(tables["security"]), call[c].ids)["security"] = Len(tables["security"])
        BY ONLY PutIs
      <3>3. Place("security", Len(tables["security"]), call[c].ids)["price"] = call[c].ids["price"]
        <4>1. "price" \in DOMAIN call[c].ids /\ "price" # "security"
          BY <2>3
        <4> QED
          BY ONLY <4>1, PutKeeps
      <3> QED
        BY <3>1, <3>2, <3>3
    <2>5. IdsSound(two, call[c].spec, call[c].calm, tables)
      BY <1>9, <2>1, <2>3, <2>4 DEF IdsSound, Marts
    <2> QED
      BY <1>1, <2>1, <2>2, <2>5, IdsFiled
  <1> QED
    BY <1>1, <1>5, <1>6, <1>7, <1>8, <1>9

\* A table is read at the caller's version, or at the current one.
LEMMA TableRead ==
    ASSUME TablesInv, CallsInv, NEW c \in Callers, ReadTable(c)
    PROVE  CallsInv' /\ UNCHANGED <<zone, cycles, tables, promise>>
  <1> DEFINE K == call[c]
             t == Head(K.todo)
             v == VersionRead(t, K.spec)
             f == [read |-> Place(t, v, K.read), todo |-> Tail(K.todo)]
             k == With(f, K)
  <1>1. /\ K.kind = "inputs" /\ K.pc = "read" /\ K.todo # <<>> /\ UNCHANGED <<zone, cycles, tables, promise>>
        /\ IF Exists(t, v) THEN call' = [call EXCEPT ![c] = k] ELSE Refuse(c, "read failed")
    BY DEF ReadTable, On, ReadsOnly
  <1>2. CallSound(K, zone, cycles, promise, tables)
    BY DEF CallsInv
  <1>3. CASE ~Exists(t, v)
    <2>1. Refuse(c, "read failed")
      BY <1>1, <1>3
    <2> QED
      BY <1>1, <2>1, Refused
  <1>4. CASE Exists(t, v)
    <2>1. /\ DOMAIN f = {"read", "todo"} /\ f.read = Place(t, v, K.read) /\ f.todo = Tail(K.todo)
      OBVIOUS
    <2>2. k = With(f, K) /\ DOMAIN f \cap {"kind", "spec", "candidates", "calm"} = {} /\ call' = [call EXCEPT ![c] = k]
      BY <1>1, <1>4, <2>1
    <2>3. v \in 1..Len(tables[t]) /\ (t \in DOMAIN K.spec => v = K.spec[t])
          /\ (t \notin DOMAIN K.spec => v = Len(tables[t]))
      BY <1>4 DEF Exists, VersionRead, CurrentVersion
    <2>4. K.kind = "inputs"
      BY <1>1
    <2> HIDE DEF K, t, v, f, k
    <2>5. /\ InputSound(K, tables) /\ InputFields \subseteq DOMAIN k
          /\ "kind" \in DOMAIN k /\ k.kind = "inputs" /\ k.spec = K.spec /\ k.calm = K.calm
          /\ \A x \in DOMAIN f : k[x] = f[x]
          /\ \A x \in InputFields \ DOMAIN f : k[x] = K[x]
      BY ONLY <1>2, <2>2, <2>4, InputMoves
    <2>6. k.read = Place(t, v, K.read) /\ k.todo = Tail(K.todo) /\ k.pc = "read" /\ k.ids = K.ids
      BY <1>1, <2>1, <2>5 DEF InputFields
    <2>7. K.todo \in TablesLeft
      BY <1>1, <2>5 DEF InputSound
    <2>13. K.todo # <<>>
      BY <1>1
    <2>14. /\ Tail(K.todo) \in TablesLeft /\ Head(K.todo) \in Versions
           /\ Elements(K.todo) = {Head(K.todo)} \cup Elements(Tail(K.todo))
      BY ONLY <2>7, <2>13, SuffixIs
    <2>8. /\ k.todo \in TablesLeft /\ t \in Versions /\ Elements(K.todo) = {t} \cup Elements(k.todo)
      BY <2>6, <2>14 DEF t
    <2>9. /\ DOMAIN k.read = {t} \cup DOMAIN K.read /\ k.read[t] = v
          /\ \A y \in DOMAIN K.read \ {t} : k.read[y] = K.read[y]
      <3>1. DOMAIN Place(t, v, K.read) = {t} \cup DOMAIN K.read /\ Place(t, v, K.read)[t] = v
        BY ONLY PutIs
      <3>2. ASSUME NEW y \in DOMAIN K.read, y # t PROVE Place(t, v, K.read)[y] = K.read[y]
        BY ONLY <3>2, PutKeeps
      <3>3. \A y \in DOMAIN K.read \ {t} : Place(t, v, K.read)[y] = K.read[y]
        BY <3>2
      <3> QED
        BY <2>6, <3>1, <3>3
    <2>10. \A x \in Versions \ Elements(k.todo) : ReadAt(k, x, tables)
      <3>1. ReadAt(k, t, tables)
        BY <2>3, <2>5, <2>9 DEF ReadAt
      <3>2. ASSUME NEW x \in Versions \ Elements(k.todo), x # t PROVE ReadAt(k, x, tables)
        <4>1. ReadAt(K, x, tables)
          BY <1>1, <2>5, <2>8, <3>2 DEF InputSound
        <4> QED
          BY <2>5, <2>9, <3>2, <4>1 DEF ReadAt
      <3> QED
        BY <3>1, <3>2
    <2>11. InputSound(k, tables)
      BY <1>1, <2>5, <2>6, <2>8, <2>10 DEF InputSound
    <2>12. CallSound(k, zone, cycles, promise', tables)
      BY <2>5, <2>11, Asking
    <2> QED
      BY <1>1, <2>2, <2>12, OneCall
  <1> QED
    BY <1>3, <1>4

\* Rows are those of the versions read, which are the pinned ones.
LEMMA InputsAnswered ==
    ASSUME TablesInv, CallsInv, ReturnedInv, NEW c \in Callers, AnswerInputs(c)
    PROVE  CallsInv' /\ ReturnedInv' /\ UNCHANGED <<zone, cycles, tables, promise>>
  <1> DEFINE K == call[c]
             rows == InputRows(K.read, K.candidates)
             f == [pc |-> "done", rows |-> rows]
             k == With(f, K)
  <1>1. /\ K.kind = "inputs" /\ K.pc = "read" /\ K.todo = <<>> /\ UNCHANGED <<zone, cycles, tables, promise>>
        /\ IF rows = {} THEN Refuse(c, "rows missing") ELSE call' = [call EXCEPT ![c] = k]
        /\ returned' = (IF Versions \subseteq DOMAIN K.spec THEN returned \cup {<<K.spec, K.candidates, rows>>} ELSE returned)
    BY DEF AnswerInputs, On
  <1>2. CallSound(K, zone, cycles, promise, tables)
    BY DEF CallsInv
  <1>3. InputSound(K, tables)
    BY <1>1, <1>2 DEF CallSound
  <1>4. \A x \in Versions : ReadAt(K, x, tables)
    <2>1. Elements(K.todo) = {}
      BY <1>1, SuffixIs DEF TablesLeft
    <2> QED
      BY <1>1, <1>3, <2>1 DEF InputSound
  <1>5. CallsInv'
    <2>1. CASE rows = {}
      <3>1. Refuse(c, "rows missing")
        BY <1>1, <2>1
      <3> QED
        BY <1>1, <3>1, Refused
    <2>2. CASE rows # {}
      <3>1. DOMAIN f = {"pc", "rows"} /\ f.pc = "done"
        OBVIOUS
      <3>2. k = With(f, K) /\ DOMAIN f \cap {"kind", "spec", "candidates", "calm"} = {} /\ call' = [call EXCEPT ![c] = k]
        BY <1>1, <2>2, <3>1
      <3>3. K.kind = "inputs"
        BY <1>1
      <3> HIDE DEF K, f, k, rows
      <3>4. /\ InputFields \subseteq DOMAIN k
            /\ "kind" \in DOMAIN k /\ k.kind = "inputs" /\ k.spec = K.spec /\ k.calm = K.calm
            /\ \A x \in DOMAIN f : k[x] = f[x]
            /\ \A x \in InputFields \ DOMAIN f : k[x] = K[x]
        BY ONLY <1>2, <3>2, <3>3, InputMoves
      <3>5. k.read = K.read /\ k.todo = K.todo /\ k.pc = "done" /\ k.ids = K.ids
        BY <3>1, <3>4 DEF InputFields
      <3>6. \A x \in Versions : ReadAt(k, x, tables)
        BY <1>4, <3>4, <3>5 DEF ReadAt
      <3>7. InputSound(k, tables)
        BY <1>1, <1>3, <3>4, <3>5, <3>6 DEF InputSound
      <3>8. CallSound(k, zone, cycles, promise', tables)
        BY <3>4, <3>7, Asking
      <3> QED
        BY <1>1, <3>2, <3>8, OneCall
    <2> QED
      BY <2>1, <2>2
  <1>6. Grows
    BY <1>1, SameGrows
  <1>7. ReturnedInv'
    <2>1. ASSUME NEW x \in returned'
          PROVE  (\A t \in Versions : x[1][t] \in 1..Len(tables[t])) /\ x[3] = InputRows(x[1], x[2])
      <3>1. CASE x \in returned
        BY <3>1 DEF ReturnedInv
      <3>2. CASE x \notin returned
        <4>1. Versions \subseteq DOMAIN K.spec /\ x = <<K.spec, K.candidates, rows>>
          BY <1>1, <3>2
        <4>2. \A t \in Versions : K.read[t] = K.spec[t] /\ K.spec[t] \in 1..Len(tables[t])
          BY <1>4, <4>1 DEF ReadAt
        <4>3. rows = InputRows(K.spec, K.candidates)
          BY <4>2, RowsOfVersions
        <4>4. x[1] = K.spec /\ x[2] = K.candidates /\ x[3] = rows
          BY <4>1
        <4> HIDE DEF K, rows
        <4> QED
          BY <4>2, <4>3, <4>4
      <3> QED
        BY <3>1, <3>2
    <2>2. \A x \in returned' : (\A t \in Versions : x[1][t] \in 1..Len(tables'[t])) /\ x[3] = InputRows(x[1], x[2])'
      BY <1>6, <2>1, RowsStay
    <2> QED
      BY <2>2 DEF ReturnedInv
  <1> QED
    BY <1>1, <1>5, <1>7


-----------------------------------------------------------------------------
(* Steps and reports                                                       *)

\* About to load the ids it has frozen.
AtLoad(k) == k.kind = "freeze" /\ k.pc = "load"

LoadsStay == \A x \in Callers : /\ AtLoad(call'[x]) <=> AtLoad(call[x])
                                /\ AtLoad(call[x]) => call'[x].day = call[x].day

\* Reports hold when callers at the load stay there or leave their day
\* unreported.
LEMMA ReportsStay ==
    ASSUME ReportsInv, UNCHANGED reports, unreported \subseteq unreported',
           cycles' \in [Days -> CycleRows],
           \A d \in Days : cycles'[d].frozen = cycles[d].frozen,
           \A x \in Callers : AtLoad(call'[x]) => AtLoad(call[x]) /\ call'[x].day = call[x].day /\ call[x].day \in Days,
           \A x \in Callers : AtLoad(call[x]) => \/ AtLoad(call'[x]) /\ call'[x].day = call[x].day
                                                 \/ call[x].day \in unreported'
    PROVE  ReportsInv'
  <1>1. \A i \in DOMAIN reports : reports[i][1] \in Days
    BY DEF ReportsInv
  <1>2. \A i \in DOMAIN reports' : reports'[i][2] # {} /\ reports'[i][2] = cycles'[reports'[i][1]].frozen
    BY <1>1 DEF ReportsInv
  <1>3. \A c \in Callers : call'[c].kind = "freeze" /\ call'[c].pc = "load" =>
         /\ cycles'[call'[c].day].frozen = {c}
         /\ \A i \in DOMAIN reports' : reports'[i][1] # call'[c].day
    BY DEF ReportsInv, AtLoad
  <1>4. FrozenIsReportedOnce'
    <2>1. \A i, j \in DOMAIN reports' : reports'[i][1] = reports'[j][1] => i = j
      BY DEF ReportsInv, FrozenIsReportedOnce
    <2>2. ASSUME NEW d \in Days, cycles'[d].frozen # {}
          PROVE  \/ \E i \in DOMAIN reports' : reports'[i] = <<d, cycles'[d].frozen>>
                 \/ d \in unreported'
                 \/ \E c \in cycles'[d].frozen : call'[c].kind = "freeze" /\ call'[c].pc = "load" /\ call'[c].day = d
      <3>1. cycles'[d].frozen = cycles[d].frozen /\ cycles[d].frozen \subseteq Callers
        BY DEF ReportsInv, CycleRows
      <3>2. CASE \E i \in DOMAIN reports : reports[i] = <<d, cycles[d].frozen>>
        BY <3>1, <3>2
      <3>3. CASE d \in unreported
        BY <3>3
      <3>4. CASE \E c \in cycles[d].frozen : call[c].kind = "freeze" /\ call[c].pc = "load" /\ call[c].day = d
        BY <3>1, <3>4 DEF AtLoad
      <3> QED
        BY <2>2, <3>1, <3>2, <3>3, <3>4 DEF ReportsInv, FrozenIsReportedOnce
    <2> QED
      BY <2>1, <2>2 DEF FrozenIsReportedOnce
  <1> QED
    BY <1>2, <1>3, <1>4 DEF ReportsInv

\* A day that is about to be loaded is a day.
LEMMA LoadDays == ASSUME CallsInv, NEW x \in Callers, AtLoad(call[x])
                  PROVE call[x].day \in Days /\ SelectionFields \subseteq DOMAIN call[x]
  BY DEF CallsInv, CallSound, SelectionSound, AtLoad

\* Reports hold when nobody comes to the load or leaves it.
LEMMA LoadsKeepReports ==
    ASSUME CallsInv, ReportsInv, LoadsStay, UNCHANGED <<cycles, reports, unreported>>
    PROVE  ReportsInv'
  <1>1. cycles' \in [Days -> CycleRows]
    BY DEF ReportsInv
  <1> QED
    BY <1>1, LoadDays, ReportsStay DEF LoadsStay

\* A call that loses its calm stays at its place.
LEMMA DisturbedLoad ==
    ASSUME CallsInv, NEW x \in Callers, call'[x] = Disturbed(call)[x]
    PROVE  /\ AtLoad(call'[x]) <=> AtLoad(call[x])
           /\ AtLoad(call[x]) => call'[x].day = call[x].day
  <1>1. "kind" \in DOMAIN call[x] /\ call[x].kind \in {"none", "readiness", "freeze", "inputs"}
    BY DEF CallsInv, CallSound
  <1>2. CASE call[x].kind = "none"
    BY <1>2 DEF Disturbed
  <1>3. CASE call[x].kind # "none"
    <2>1. call'[x] = [call[x] EXCEPT !.calm = FALSE]
      BY <1>3 DEF Disturbed
    <2>2. call'[x].kind = call[x].kind
      BY <1>1, <2>1
    <2>3. CASE call[x].kind # "freeze"
      BY <2>2, <2>3 DEF AtLoad
    <2>4. CASE call[x].kind = "freeze"
      <3>1. {"pc", "day"} \subseteq DOMAIN call[x]
        BY <2>4 DEF CallsInv, CallSound, SelectionSound, SelectionFields
      <3> QED
        BY <2>1, <2>2, <3>1 DEF AtLoad
    <2> QED
      BY <2>3, <2>4
  <1> QED
    BY <1>2, <1>3

\* Nobody comes to the load when all lose their calm.
LEMMA DisturbedLoads == ASSUME CallsInv, call' = Disturbed(call) PROVE LoadsStay
  BY DisturbedLoad DEF LoadsStay

\* A call that is elsewhere, and moves elsewhere, is not about to load.
LEMMA OneLoad ==
    ASSUME CallsInv, NEW c \in Callers, NEW k, call' = [call EXCEPT ![c] = k], ~AtLoad(call[c]), ~AtLoad(k)
    PROVE  LoadsStay
  BY DEF LoadsStay, CallsInv

\* The same for a step that replaces fields of the call.
LEMMA OtherLoad ==
    ASSUME CallsInv, NEW c \in Callers, NEW f, On(c, f), ~AtLoad(call[c]),
           "kind" \notin DOMAIN f, "pc" \in DOMAIN f => f.pc # "load"
    PROVE  LoadsStay
  <1> DEFINE K == call[c]
             k == With(f, K)
  <1>1. call' = [call EXCEPT ![c] = k]
    BY DEF On
  <1>2. CallSound(K, zone, cycles, promise, tables)
    BY DEF CallsInv
  <1>3. ~AtLoad(K) /\ k = With(f, K)
    OBVIOUS
  <1>4. /\ DOMAIN With(f, K) = DOMAIN f \cup DOMAIN K /\ \A x \in DOMAIN f : With(f, K)[x] = f[x]
        /\ \A x \in DOMAIN K \ DOMAIN f : With(f, K)[x] = K[x]
    BY ONLY WithIs
  <1> HIDE DEF K, k
  <1>5. k.kind = K.kind
    BY <1>2, <1>3, <1>4 DEF CallSound
  <1>6. K.kind = "freeze" => "pc" \in DOMAIN K
    BY <1>2 DEF CallSound, SelectionSound, SelectionFields
  <1>7. ~AtLoad(k)
    BY <1>3, <1>4, <1>5, <1>6 DEF AtLoad
  <1>8. ~AtLoad(call[c])
    OBVIOUS
  <1> QED
    BY <1>1, <1>7, <1>8, OneLoad


\* The same for a refusal.
LEMMA RefusalLoads ==
    ASSUME CallsInv, NEW c \in Callers, NEW why, Refuse(c, why), ~AtLoad(call[c])
    PROVE  LoadsStay
  <1> DEFINE f == [pc |-> "failed", why |-> why]
  <1>1. On(c, f) /\ "kind" \notin DOMAIN f /\ f.pc # "load"
    BY DEF Refuse
  <1> HIDE DEF f
  <1> QED
    BY <1>1, OtherLoad

\* A freeze makes its caller the one that can report the day.
LEMMA FreezeReports ==
    ASSUME CallsInv, ReportsInv, NEW c \in Callers, FreezeCycle(c)
    PROVE  ReportsInv'
  <1> DEFINE K == call[c]
             k == With([pc |-> "load"], K)
  <1>1. /\ K.kind = "freeze" /\ K.pc = "freeze" /\ UNCHANGED <<reports, unreported>>
        /\ IF Freezable(cycles[K.day])
           THEN /\ cycles' = [cycles EXCEPT ![K.day] = [status |-> "phase0", frozen |-> {c}]]
                /\ call' = [Disturbed(call) EXCEPT ![c] = k]
           ELSE Refuse(c, "not ready") /\ UNCHANGED cycles
    BY DEF FreezeCycle
  <1>2. SelectionSound(K, zone, cycles, promise)
    BY <1>1 DEF CallsInv, CallSound
  <1>3. K.day \in Days /\ ~AtLoad(K) /\ {"kind", "pc", "day"} \subseteq DOMAIN K
    BY <1>1, <1>2 DEF SelectionSound, Chosen, AtLoad, SelectionFields
  <1>4. CASE ~Freezable(cycles[K.day])
    <2>1. Refuse(c, "not ready") /\ UNCHANGED <<cycles, reports, unreported>>
      BY <1>1, <1>4
    <2>2. LoadsStay
      BY <1>3, <2>1, RefusalLoads
    <2> QED
      BY <2>1, <2>2, LoadsKeepReports
  <1>5. CASE Freezable(cycles[K.day])
    <2> DEFINE d0 == K.day
    <2>1. /\ k.kind = "freeze" /\ k.pc = "load" /\ k.day = d0
      <3> DEFINE f == [pc |-> "load"]
      <3>1. DOMAIN f = {"pc"} /\ f.pc = "load" /\ k = With(f, K)
        OBVIOUS
      <3> HIDE DEF f, K, k
      <3>2. /\ \A x \in DOMAIN f : With(f, K)[x] = f[x]
            /\ \A x \in DOMAIN K \ DOMAIN f : With(f, K)[x] = K[x]
        BY ONLY WithIs
      <3> QED
        BY <1>1, <1>3, <3>1, <3>2
    <2>2. call' = [Disturbed(call) EXCEPT ![c] = k] /\ cycles' = [cycles EXCEPT ![d0] = [status |-> "phase0", frozen |-> {c}]]
      BY <1>1, <1>5
    <2>3. cycles[d0].frozen = {}
      BY <1>5 DEF Freezable
    <2>4. d0 \in Days
      BY <1>3
    <2> HIDE DEF k, d0
    <2>5. call'[c] = k /\ \A x \in Callers \ {c} : call'[x] = Disturbed(call)[x]
      BY <2>2 DEF Disturbed
    <2>6. /\ cycles' \in [Days -> CycleRows]
          /\ cycles'[d0].frozen = {c} /\ \A d \in Days \ {d0} : cycles'[d] = cycles[d]
      <3> DEFINE T == CycleRows
                 row == [status |-> "phase0", frozen |-> {c}]
      <3>1. row \in T /\ row.frozen = {c} /\ cycles \in [Days -> T] /\ cycles' = [cycles EXCEPT ![d0] = row]
        <4>1. row \in T /\ row.frozen = {c}
          BY DEF CycleRows
        <4>2. cycles \in [Days -> T]
          BY DEF ReportsInv
        <4> QED
          BY <2>2, <4>1, <4>2
      <3> HIDE DEF T, row
      <3>2. cycles' \in [Days -> T] /\ cycles'[d0] = row /\ \A d \in Days \ {d0} : cycles'[d] = cycles[d]
        BY <2>4, <3>1
      <3> QED
        BY <3>1, <3>2 DEF T
    <2>7. \A x \in Callers \ {c} : /\ AtLoad(call'[x]) <=> AtLoad(call[x])
                                   /\ AtLoad(call[x]) => call'[x].day = call[x].day
      BY <2>5, DisturbedLoad
    <2>8. \A x \in Callers : AtLoad(call[x]) =>
            /\ x # c /\ call[x].day \in Days /\ call[x].day # d0 /\ cycles[call[x].day].frozen = {x}
            /\ \A i \in DOMAIN reports : reports[i][1] # call[x].day
      BY <1>3, <2>3, LoadDays DEF ReportsInv, AtLoad
    <2>9. \A i \in DOMAIN reports : /\ reports[i][1] \in Days /\ reports[i][1] # d0
                                    /\ reports[i][2] # {} /\ reports[i][2] = cycles[reports[i][1]].frozen
      BY <2>3 DEF ReportsInv
    <2>10. UNCHANGED <<reports, unreported>>
      BY <1>1
    <2>11. \A x \in Callers : call'[x].kind = "freeze" /\ call'[x].pc = "load" =>
             /\ cycles'[call'[x].day].frozen = {x}
             /\ \A i \in DOMAIN reports' : reports'[i][1] # call'[x].day
      <3>1. ASSUME NEW x \in Callers, AtLoad(call'[x]), x # c
            PROVE  /\ cycles'[call'[x].day].frozen = {x}
                   /\ \A i \in DOMAIN reports' : reports'[i][1] # call'[x].day
        <4>1. AtLoad(call[x]) /\ call'[x].day = call[x].day
          BY <2>7, <3>1
        <4> QED
          BY <2>6, <2>8, <2>10, <4>1
      <3>2. /\ cycles'[call'[c].day].frozen = {c}
            /\ \A i \in DOMAIN reports' : reports'[i][1] # call'[c].day
        BY <2>1, <2>5, <2>6, <2>9, <2>10
      <3> QED
        BY <3>1, <3>2 DEF AtLoad
    <2>12. FrozenIsReportedOnce'
      <3>1. \A i, j \in DOMAIN reports' : reports'[i][1] = reports'[j][1] => i = j
        BY <2>10 DEF ReportsInv, FrozenIsReportedOnce
      <3>2. ASSUME NEW d \in Days, cycles'[d].frozen # {}
            PROVE  \/ \E i \in DOMAIN reports' : reports'[i] = <<d, cycles'[d].frozen>>
                   \/ d \in unreported'
                   \/ \E x \in cycles'[d].frozen : call'[x].kind = "freeze" /\ call'[x].pc = "load" /\ call'[x].day = d
        <4>1. CASE d = d0
          BY <2>1, <2>5, <2>6, <4>1
        <4>2. CASE d # d0
          <5>1. cycles'[d] = cycles[d] /\ cycles[d].frozen \subseteq Callers
            BY <2>6, <4>2 DEF ReportsInv, CycleRows
          <5>2. CASE \E i \in DOMAIN reports : reports[i] = <<d, cycles[d].frozen>>
            BY <2>10, <5>1, <5>2
          <5>3. CASE d \in unreported
            BY <2>10, <5>3
          <5>4. CASE \E x \in cycles[d].frozen : call[x].kind = "freeze" /\ call[x].pc = "load" /\ call[x].day = d
            <6>1. PICK x \in cycles[d].frozen : AtLoad(call[x]) /\ call[x].day = d
              BY <5>4 DEF AtLoad
            <6>2. x \in Callers \ {c}
              BY <2>8, <5>1, <6>1
            <6>3. AtLoad(call'[x]) /\ call'[x].day = d
              BY <2>7, <6>1, <6>2
            <6> QED
              BY <5>1, <6>1, <6>3 DEF AtLoad
          <5> QED
            BY <3>2, <5>1, <5>2, <5>3, <5>4 DEF ReportsInv, FrozenIsReportedOnce
        <4> QED
          BY <4>1, <4>2
      <3> QED
        BY <3>1, <3>2 DEF FrozenIsReportedOnce
    <2>13. \A i \in DOMAIN reports' : reports'[i][2] # {} /\ reports'[i][2] = cycles'[reports'[i][1]].frozen
      BY <2>6, <2>9, <2>10
    <2>14. reports' \in Seq(Days \X SUBSET Callers)
      BY <2>10 DEF ReportsInv
    <2> QED
      BY <2>6, <2>11, <2>12, <2>13, <2>14 DEF ReportsInv
  <1> QED
    BY <1>4, <1>5

\* The only caller that can report a day reports it.
LEMMA LoadReports ==
    ASSUME CallsInv, ReportsInv, NEW c \in Callers, LoadFrozen(c)
    PROVE  ReportsInv'
  <1> DEFINE d0 == call[c].day
             entry == <<d0, cycles[d0].frozen>>
  <1>1. /\ AtLoad(call[c]) /\ On(c, [pc |-> "done"]) /\ reports' = Append(reports, entry)
        /\ UNCHANGED <<cycles, unreported>>
    BY DEF LoadFrozen, AtLoad
  <1>2. d0 \in Days /\ cycles[d0].frozen = {c} /\ \A i \in DOMAIN reports : reports[i][1] # d0
    BY <1>1, LoadDays DEF ReportsInv, AtLoad
  <1>3. entry \in Days \X SUBSET Callers /\ entry[1] = d0 /\ entry[2] = {c}
    BY <1>2
  <1>4. call'[c].pc # "load" /\ \A x \in Callers \ {c} : call'[x] = call[x]
    <2> DEFINE f == [pc |-> "done"]
               K == call[c]
    <2>1. DOMAIN f = {"pc"} /\ f.pc = "done" /\ call' = [call EXCEPT ![c] = With(f, K)]
      BY <1>1 DEF On
    <2> HIDE DEF f, K
    <2>2. \A x \in DOMAIN f : With(f, K)[x] = f[x]
      BY ONLY WithIs
    <2>3. With(f, K).pc # "load"
      BY <2>1, <2>2
    <2> QED
      BY <2>1, <2>3 DEF CallsInv
  <1> HIDE DEF entry, d0
  <1>5. /\ reports' \in Seq(Days \X SUBSET Callers) /\ Len(reports) \in Nat /\ DOMAIN reports = 1..Len(reports)
        /\ DOMAIN reports' = 1..(Len(reports) + 1)
        /\ reports'[Len(reports) + 1] = entry /\ \A i \in DOMAIN reports : reports'[i] = reports[i]
    <2> DEFINE T == Days \X SUBSET Callers
    <2>1. entry \in T /\ reports \in Seq(T)
      BY <1>3 DEF ReportsInv
    <2> HIDE DEF T
    <2>2. /\ reports' \in Seq(T) /\ Len(reports) \in Nat /\ DOMAIN reports = 1..Len(reports)
          /\ DOMAIN reports' = 1..(Len(reports) + 1)
          /\ reports'[Len(reports) + 1] = entry /\ \A i \in DOMAIN reports : reports'[i] = reports[i]
      BY <1>1, <2>1
    <2> QED
      BY <2>2 DEF T
  <1>6. \A i \in DOMAIN reports' : i \in DOMAIN reports \/ i = Len(reports) + 1
    BY <1>5
  <1>7. \A i \in DOMAIN reports' : reports'[i][2] # {} /\ reports'[i][2] = cycles'[reports'[i][1]].frozen
    <2>1. ASSUME NEW i \in DOMAIN reports PROVE reports'[i][2] # {} /\ reports'[i][2] = cycles'[reports'[i][1]].frozen
      BY <1>1, <1>5 DEF ReportsInv
    <2>2. ASSUME NEW i \in DOMAIN reports', i = Len(reports) + 1
          PROVE reports'[i][2] # {} /\ reports'[i][2] = cycles'[reports'[i][1]].frozen
      BY <1>1, <1>2, <1>3, <1>5, <2>2
    <2> QED
      BY <1>6, <2>1, <2>2
  <1>8. \A x \in Callers : call'[x].kind = "freeze" /\ call'[x].pc = "load" =>
             /\ cycles'[call'[x].day].frozen = {x}
             /\ \A i \in DOMAIN reports' : reports'[i][1] # call'[x].day
    <2>1. ASSUME NEW x \in Callers, AtLoad(call'[x])
          PROVE  /\ cycles'[call'[x].day].frozen = {x}
                 /\ \A i \in DOMAIN reports' : reports'[i][1] # call'[x].day
      <3>1. x # c /\ call'[x] = call[x] /\ AtLoad(call[x])
        BY <1>4, <2>1 DEF AtLoad
      <3>2. cycles[call[x].day].frozen = {x} /\ \A i \in DOMAIN reports : reports[i][1] # call[x].day
        BY <3>1 DEF ReportsInv, AtLoad
      <3>3. call[x].day # d0
        BY <1>2, <3>1, <3>2
      <3> QED
        BY <1>1, <1>3, <1>5, <1>6, <3>1, <3>2, <3>3
    <2> QED
      BY <2>1 DEF AtLoad
  <1>9. FrozenIsReportedOnce'
    <2>1. ASSUME NEW i \in DOMAIN reports', NEW j \in DOMAIN reports', reports'[i][1] = reports'[j][1] PROVE i = j
      <3>1. CASE i \in DOMAIN reports /\ j \in DOMAIN reports
        BY <1>5, <2>1, <3>1 DEF ReportsInv, FrozenIsReportedOnce
      <3>2. CASE i \in DOMAIN reports /\ j = Len(reports) + 1
        BY <1>2, <1>3, <1>5, <2>1, <3>2
      <3>3. CASE j \in DOMAIN reports /\ i = Len(reports) + 1
        BY <1>2, <1>3, <1>5, <2>1, <3>3
      <3> QED
        BY <1>6, <3>1, <3>2, <3>3
    <2>2. ASSUME NEW d \in Days, cycles'[d].frozen # {}
          PROVE  \/ \E i \in DOMAIN reports' : reports'[i] = <<d, cycles'[d].frozen>>
                 \/ d \in unreported'
                 \/ \E x \in cycles'[d].frozen : call'[x].kind = "freeze" /\ call'[x].pc = "load" /\ call'[x].day = d
      <3>1. cycles'[d] = cycles[d] /\ cycles[d].frozen \subseteq Callers
        BY <1>1 DEF ReportsInv, CycleRows
      <3>2. CASE d = d0
        <4>1. entry = <<d, cycles'[d].frozen>>
          BY <3>1, <3>2 DEF entry
        <4>2. Len(reports) + 1 \in DOMAIN reports'
          BY <1>5
        <4> QED
          BY <1>5, <4>1, <4>2
      <3>3. CASE d # d0
        <4>1. CASE \E i \in DOMAIN reports : reports[i] = <<d, cycles[d].frozen>>
          <5>1. DOMAIN reports \subseteq DOMAIN reports'
            BY <1>5
          <5> QED
            BY <1>5, <3>1, <4>1, <5>1
        <4>2. CASE d \in unreported
          BY <1>1, <4>2
        <4>3. CASE \E x \in cycles[d].frozen : call[x].kind = "freeze" /\ call[x].pc = "load" /\ call[x].day = d
          <5>1. PICK x \in cycles[d].frozen : AtLoad(call[x]) /\ call[x].day = d
            BY <4>3 DEF AtLoad
          <5>2. x \in Callers \ {c}
            BY <3>1, <3>3, <5>1 DEF d0
          <5> QED
            BY <1>4, <3>1, <5>1, <5>2 DEF AtLoad
        <4> QED
          BY <2>2, <3>1, <4>1, <4>2, <4>3 DEF ReportsInv, FrozenIsReportedOnce
      <3> QED
        BY <3>2, <3>3
    <2> QED
      BY <2>1, <2>2 DEF FrozenIsReportedOnce
  <1>10. cycles' \in [Days -> CycleRows]
    BY <1>1 DEF ReportsInv
  <1> QED
    BY <1>5, <1>7, <1>8, <1>9, <1>10 DEF ReportsInv

\* A day whose ids could not be loaded is left unreported.
LEMMA FailedLoadReports ==
    ASSUME CallsInv, ReportsInv, NEW c \in Callers, LoadFails(c)
    PROVE  ReportsInv'
  <1> DEFINE f == [pc |-> "failed", why |-> "ids unavailable"]
             K == call[c]
  <1>1. /\ AtLoad(call[c]) /\ call' = [call EXCEPT ![c] = With(f, K)]
        /\ unreported' = unreported \cup {call[c].day} /\ UNCHANGED <<cycles, reports>>
    BY DEF LoadFails, AtLoad, Refuse, On
  <1>2. DOMAIN f = {"pc", "why"} /\ f.pc = "failed"
    OBVIOUS
  <1>3. \A x \in DOMAIN f : With(f, K)[x] = f[x]
    <2> HIDE DEF f, K
    <2> QED
      BY ONLY WithIs
  <1> HIDE DEF f, K
  <1>4. With(f, K).pc # "load"
    BY <1>2, <1>3
  <1>5. call'[c].pc # "load" /\ \A x \in Callers \ {c} : call'[x] = call[x]
    BY <1>1, <1>4 DEF CallsInv
  <1>6. \A x \in Callers : AtLoad(call'[x]) => AtLoad(call[x]) /\ call'[x].day = call[x].day /\ call[x].day \in Days
    BY <1>5, LoadDays DEF AtLoad
  <1>7. \A x \in Callers : AtLoad(call[x]) => \/ AtLoad(call'[x]) /\ call'[x].day = call[x].day
                                              \/ call[x].day \in unreported'
    BY <1>1, <1>5
  <1>8. /\ UNCHANGED reports /\ unreported \subseteq unreported'
        /\ cycles' \in [Days -> CycleRows]
        /\ \A d \in Days : cycles'[d].frozen = cycles[d].frozen
    BY <1>1 DEF ReportsInv
  <1> QED
    BY <1>6, <1>7, <1>8, ReportsStay


-----------------------------------------------------------------------------
(* The invariant                                                           *)

\* A new artifact is the newest.
LEMMA ZoneGrows ==
    ASSUME ZoneInv, NEW w \in Writes, WriteArtifact(w)
    PROVE  ZoneInv' /\ zone \subseteq zone'
  <1> DEFINE n == Cardinality(zone)
             g == [at |-> n + 1]
             new == With(w, g)
  <1>1. zone' = zone \cup {new} /\ IsFiniteSet(zone) /\ n \in Nat
    BY FS_CardinalityType DEF WriteArtifact, ZoneInv
  <1>2. Filed(new) /\ new.at = n + 1
    <2>1. DOMAIN g = {"at"} /\ g.at = n + 1
      OBVIOUS
    <2>2. Filed(w) /\ "at" \notin DOMAIN w
      BY InputsAssumption
    <2> HIDE DEF g
    <2>3. /\ DOMAIN new = DOMAIN w \cup DOMAIN g /\ \A x \in DOMAIN w : new[x] = w[x]
          /\ \A x \in DOMAIN g \ DOMAIN w : new[x] = g[x]
      BY ONLY WithIs
    <2> HIDE DEF new
    <2>4. new.at = n + 1
      BY <2>1, <2>2, <2>3
    <2>5. Filed(new)
      BY <2>2, <2>3 DEF Filed
    <2> QED
      BY <2>4, <2>5
  <1> HIDE DEF new
  <1>3. new \notin zone
    BY <1>1, <1>2 DEF ZoneInv
  <1>4. IsFiniteSet(zone') /\ Cardinality(zone') = n + 1
    BY <1>1, <1>3, FS_AddElement
  <1>5. \A a \in zone' : Filed(a) /\ a.at \in 1..Cardinality(zone')
    <2>1. \A a \in zone : Filed(a) /\ a.at \in 1..n
      BY DEF ZoneInv
    <2> HIDE DEF n
    <2> QED
      BY <1>1, <1>2, <1>4, <2>1
  <1> QED
    BY <1>1, <1>4, <1>5 DEF ZoneInv

\* A cycle created, or moved on without a freeze, keeps the invariant: it makes
\* no promise true and reports nothing.
LEMMA CycleChanges ==
    ASSUME InputsInv, NEW day \in Days, NEW newStatus \in {"pending", "phase0"}, ChangeCycle(day, newStatus)
    PROVE  InputsInv'
  <1>1. /\ cycles' = [cycles EXCEPT ![day].status = newStatus] /\ call' = Disturbed(call) /\ promise' = 0
        /\ UNCHANGED <<zone, tables, reports, returned, unreported>>
    BY DEF ChangeCycle
  <1>2. Grows /\ TablesInv' /\ ZoneInv' /\ PromiseInv'
    BY <1>1, SameGrows DEF InputsInv, ZoneInv, PromiseInv
  <1>3. CallsInv'
    BY <1>1, <1>2, AllDisturbed DEF InputsInv
  <1>4. ReturnedInv'
    BY <1>1, <1>2, RowsStay DEF InputsInv, ReturnedInv
  <1>5. ReportsInv'
    <2>1. LoadsStay
      BY <1>1, DisturbedLoads DEF InputsInv
    <2>2. cycles' \in [Days -> CycleRows] /\ \A d \in Days : cycles'[d].frozen = cycles[d].frozen
      <3> DEFINE T == CycleRows
      <3>1. cycles \in [Days -> T] /\ cycles' = [cycles EXCEPT ![day] = [cycles[day] EXCEPT !.status = newStatus]]
        BY <1>1 DEF InputsInv, ReportsInv
      <3>2. \A r \in T : [r EXCEPT !.status = newStatus] \in T /\ [r EXCEPT !.status = newStatus].frozen = r.frozen
        BY DEF CycleRows
      <3> HIDE DEF T
      <3>3. cycles' \in [Days -> T] /\ \A d \in Days : cycles'[d].frozen = cycles[d].frozen
        BY <3>1, <3>2
      <3> QED
        BY <3>3 DEF T
    <2> QED
      BY <1>1, <2>1, <2>2, LoadDays, ReportsStay DEF LoadsStay, InputsInv
  <1> QED
    BY <1>2, <1>3, <1>4, <1>5 DEF InputsInv

\* A new artifact keeps the invariant.
LEMMA Written ==
    ASSUME InputsInv, NEW w \in Writes, WriteArtifact(w)
    PROVE  InputsInv'
  <1>1. /\ call' = Disturbed(call) /\ promise' = 0
        /\ UNCHANGED <<cycles, tables, reports, returned, unreported>>
    BY DEF WriteArtifact
  <1>2. Grows /\ TablesInv' /\ ZoneInv' /\ zone \subseteq zone' /\ PromiseInv'
    BY <1>1, SameGrows, ZoneGrows DEF InputsInv, PromiseInv
  <1>3. CallsInv'
    BY <1>1, <1>2, AllDisturbed DEF InputsInv
  <1>4. ReturnedInv'
    BY <1>1, <1>2, RowsStay DEF InputsInv, ReturnedInv
  <1>5. ReportsInv'
    BY <1>1, DisturbedLoads, LoadsKeepReports DEF InputsInv
  <1> QED
    BY <1>2, <1>3, <1>4, <1>5 DEF InputsInv

\* A publication keeps the invariant: pinned rows stay what they were.
LEMMA Published ==
    ASSUME InputsInv, NEW tabs, Publish(tabs)
    PROVE  InputsInv'
  <1>1. /\ call' = Disturbed(call)
        /\ UNCHANGED <<zone, cycles, promise, reports, returned, unreported>>
    BY DEF Publish
  <1>2. Grows /\ TablesInv' /\ ZoneInv' /\ PromiseInv'
    BY <1>1, PublishGrows DEF InputsInv, ZoneInv, PromiseInv
  <1>3. CallsInv'
    BY <1>1, <1>2, AllDisturbed DEF InputsInv
  <1>4. ReturnedInv'
    BY <1>1, <1>2, RowsStay DEF InputsInv, ReturnedInv
  <1>5. ReportsInv'
    BY <1>1, DisturbedLoads, LoadsKeepReports DEF InputsInv
  <1> QED
    BY <1>2, <1>3, <1>4, <1>5 DEF InputsInv

\* A step that only reads, and moves one call.
LEMMA ReadKeeps ==
    ASSUME InputsInv, CallsInv', UNCHANGED <<zone, cycles, tables, promise, reports, returned, unreported>>, LoadsStay
    PROVE  InputsInv'
  <1>1. Grows /\ TablesInv' /\ ZoneInv' /\ PromiseInv'
    BY SameGrows DEF InputsInv, ZoneInv, PromiseInv
  <1>2. ReturnedInv'
    BY <1>1, RowsStay DEF InputsInv, ReturnedInv
  <1>3. ReportsInv'
    BY LoadsKeepReports DEF InputsInv
  <1> QED
    BY <1>1, <1>2, <1>3 DEF InputsInv


\* Every step of the platform keeps the invariant.
LEMMA StepKeeps == ASSUME InputsInv, [SelectionNext \/ InputsNext]_inputVars PROVE InputsInv'
  <1>1. ZoneInv /\ TablesInv /\ ReturnedInv /\ CallsInv /\ PromiseInv /\ ReportsInv
    BY DEF InputsInv
  <1>2. ASSUME NEW c \in Callers, NEW kind \in {"readiness", "freeze"}, NEW pg \in BOOLEAN, kind = "freeze" => pg,
               StartSelection(c, kind, pg)
        PROVE  InputsInv'
    <2>1. PICK k : call' = [call EXCEPT ![c] = k] /\ k.pc = "scan"
      BY <1>1, <1>2, ScanStarted
    <2>2. CallsInv' /\ UNCHANGED <<zone, cycles, tables, promise, reports, returned, unreported>>
          /\ ~AtLoad(call[c]) /\ ~AtLoad(k)
      BY <1>1, <1>2, <2>1, ScanStarted DEF StartSelection, Begin, AtLoad
    <2>3. LoadsStay
      BY <1>1, <2>1, <2>2, OneLoad
    <2> QED
      BY <2>2, <2>3, ReadKeeps
  <1>3. ASSUME NEW c \in Callers, NEW spec, NEW x, StartInputs(c, spec, x) PROVE InputsInv'
    <2>1. PICK k : call' = [call EXCEPT ![c] = k] /\ k.kind = "inputs"
      BY <1>1, <1>3, InputsStarted
    <2>2. CallsInv' /\ UNCHANGED <<zone, cycles, tables, promise, reports, returned, unreported>>
          /\ ~AtLoad(call[c]) /\ ~AtLoad(k)
      BY <1>1, <1>3, <2>1, InputsStarted DEF StartInputs, Begin, AtLoad
    <2>3. LoadsStay
      BY <1>1, <2>1, <2>2, OneLoad
    <2> QED
      BY <2>2, <2>3, ReadKeeps
  <1>4. ASSUME NEW c \in Callers, ScanPartition(c) PROVE InputsInv'
    <2> DEFINE day == Min(call[c].todo)
               f == [todo |-> call[c].todo \ {day}, got |-> call[c].got \cup LatestArtifact(call[c].dataset, day)]
    <2>1. On(c, f) /\ ReadsOnly /\ ~AtLoad(call[c]) /\ DOMAIN f = {"todo", "got"}
      BY <1>4 DEF ScanPartition, AtLoad
    <2> HIDE DEF f
    <2>2. CallsInv' /\ LoadsStay
      BY <1>1, <1>4, <2>1, PartitionScanned, OtherLoad
    <2> QED
      BY <2>1, <2>2, ReadKeeps DEF ReadsOnly
  <1>5. ASSUME NEW c \in Callers, ChooseDate(c) PROVE InputsInv'
    <2> DEFINE open == OpenDates(call[c].got)
               f == [day |-> Max(open), cal |-> {a \in call[c].got : Max(open) \in OpenDates({a})},
                     daily |-> LatestArtifact("daily", Max(open)), pc |-> "basic"]
    <2>1. (Refuse(c, "no open date") \/ On(c, f)) /\ ReadsOnly /\ ~AtLoad(call[c])
      BY <1>5 DEF ChooseDate, AtLoad
    <2>2. "kind" \notin DOMAIN f /\ f.pc = "basic"
      OBVIOUS
    <2> HIDE DEF f
    <2>3. CallsInv' /\ LoadsStay
      BY <1>1, <1>5, <2>1, <2>2, DateChosen, OtherLoad, RefusalLoads
    <2> QED
      BY <2>1, <2>3, ReadKeeps DEF ReadsOnly
  <1>6. ASSUME NEW c \in Callers, ScanBasic(c) PROVE InputsInv'
    <2> DEFINE f == StartScan("stock_basic", "select")
    <2>1. On(c, f) /\ ReadsOnly /\ ~AtLoad(call[c]) /\ "kind" \notin DOMAIN f /\ f.pc = "scan"
      BY <1>6 DEF ScanBasic, AtLoad, StartScan
    <2> HIDE DEF f
    <2>2. CallsInv' /\ LoadsStay
      BY <1>1, <1>6, <2>1, BasicScanStarted, OtherLoad
    <2> QED
      BY <2>1, <2>2, ReadKeeps DEF ReadsOnly
  <1>7. ASSUME NEW c \in Callers, Select(c) PROVE InputsInv'
    <2> DEFINE f == [basic |-> {Newest(call[c].got)}, pc |-> AfterSelection(c)]
    <2>1. (Refuse(c, "incomplete") \/ On(c, f)) /\ ReadsOnly /\ ~AtLoad(call[c])
      BY <1>7 DEF Select, AtLoad
    <2>2. "kind" \notin DOMAIN f /\ f.pc # "load"
      BY DEF AfterSelection
    <2> HIDE DEF f
    <2>3. CallsInv' /\ LoadsStay
      BY <1>1, <1>7, <2>1, <2>2, Selected, OtherLoad, RefusalLoads
    <2> QED
      BY <2>1, <2>3, ReadKeeps DEF ReadsOnly
  <1>8. ASSUME NEW c \in Callers, ValidateConditions(c) PROVE InputsInv'
    <2> DEFINE f == [pc |-> IF call[c].kind = "freeze" THEN "freeze" ELSE "ready"]
    <2>1. (Refuse(c, "not ready") \/ On(c, f)) /\ ReadsOnly /\ ~AtLoad(call[c])
      BY <1>8 DEF ValidateConditions, AtLoad
    <2>2. "kind" \notin DOMAIN f /\ f.pc # "load"
      OBVIOUS
    <2> HIDE DEF f
    <2>3. CallsInv' /\ LoadsStay
      BY <1>1, <1>8, <2>1, <2>2, Validated, OtherLoad, RefusalLoads
    <2> QED
      BY <2>1, <2>3, ReadKeeps DEF ReadsOnly
  <1>9. ASSUME NEW c \in Callers, AnswerReady(c) PROVE InputsInv'
    <2> DEFINE f == [pc |-> "done"]
    <2>1. On(c, f) /\ ~AtLoad(call[c]) /\ UNCHANGED <<zone, cycles, tables, reports, returned, unreported>>
      BY <1>9 DEF AnswerReady, AtLoad
    <2>2. "kind" \notin DOMAIN f /\ f.pc # "load"
      OBVIOUS
    <2> HIDE DEF f
    <2>3. CallsInv' /\ PromiseInv' /\ LoadsStay
      BY <1>1, <1>9, <2>1, <2>2, Promised, OtherLoad
    <2>4. ReportsInv'
      BY <1>1, <2>1, <2>3, LoadsKeepReports
    <2>5. Grows /\ TablesInv' /\ ZoneInv'
      BY <1>1, <2>1, SameGrows DEF ZoneInv
    <2>6. ReturnedInv'
      BY <1>1, <2>1, <2>5, RowsStay DEF ReturnedInv
    <2> QED
      BY <2>3, <2>4, <2>5, <2>6 DEF InputsInv
  <1>10. ASSUME NEW c \in Callers, FreezeCycle(c) PROVE InputsInv'
    <2>1. UNCHANGED <<zone, tables, returned>>
      BY <1>10 DEF FreezeCycle
    <2>2. Grows /\ TablesInv' /\ ZoneInv'
      BY <1>1, <2>1, SameGrows DEF ZoneInv
    <2>3. ReturnedInv'
      BY <1>1, <2>1, <2>2, RowsStay DEF ReturnedInv
    <2> QED
      BY <1>1, <1>10, <2>2, <2>3, Frozen, FreezeReports DEF InputsInv
  <1>11. ASSUME NEW c \in Callers, LoadFrozen(c) \/ LoadFails(c) PROVE InputsInv'
    <2>1. UNCHANGED <<zone, cycles, tables, promise, returned>> /\ CallsInv' /\ ReportsInv'
      BY <1>1, <1>11, Loaded, NotLoaded, LoadReports, FailedLoadReports DEF LoadFrozen, LoadFails
    <2>2. Grows /\ TablesInv' /\ ZoneInv' /\ PromiseInv'
      BY <1>1, <2>1, SameGrows DEF ZoneInv, PromiseInv
    <2>3. ReturnedInv'
      BY <1>1, <2>1, <2>2, RowsStay DEF ReturnedInv
    <2> QED
      BY <2>1, <2>2, <2>3 DEF InputsInv
  <1>12. ASSUME NEW c \in Callers, Return(c) PROVE InputsInv'
    <2>1. CallsInv' /\ ReadsOnly /\ call' = [call EXCEPT ![c] = NoCall] /\ ~AtLoad(call[c]) /\ ~AtLoad(NoCall)
      BY <1>1, <1>12, Returned DEF Return, AtLoad, NoCall
    <2>2. LoadsStay
      BY <1>1, <2>1, OneLoad
    <2> QED
      BY <2>1, <2>2, ReadKeeps DEF ReadsOnly
  <1>13. ASSUME NEW c \in Callers, ReadIds(c) \/ ReadTable(c) \/ AnswerInputs(c) PROVE LoadsStay
    <2>1. call[c].kind = "inputs"
      BY <1>13 DEF ReadIds, ReadTable, AnswerInputs
    <2>2. ~AtLoad(call[c])
      BY <2>1 DEF AtLoad
    <2>3. CASE ReadIds(c)
      <3> DEFINE all == <<"entity", "alias", "security", "price">>
                 t == Head(call[c].todo)
                 more == Tail(call[c].todo)
                 f == [pc |-> "read", todo |-> all, ids |-> [m \in Marts |-> call[c].spec[m]]]
                 g == [ids |-> Place(t, CurrentVersion(t), call[c].ids),
                       todo |-> IF more = <<>> THEN all ELSE more,
                       pc |-> IF more = <<>> THEN "read" ELSE "ids"]
      <3>1. Refuse(c, "snapshot missing") \/ On(c, f) \/ On(c, g)
        BY <2>3 DEF ReadIds
      <3>2. "kind" \notin DOMAIN f /\ f.pc # "load" /\ "kind" \notin DOMAIN g /\ g.pc # "load"
        OBVIOUS
      <3> HIDE DEF f, g
      <3> QED
        BY <1>1, <2>2, <3>1, <3>2, OtherLoad, RefusalLoads
    <2>4. CASE ReadTable(c)
      <3> DEFINE t == Head(call[c].todo)
                 v == VersionRead(t, call[c].spec)
                 f == [read |-> Place(t, v, call[c].read), todo |-> Tail(call[c].todo)]
      <3>1. Refuse(c, "read failed") \/ On(c, f)
        BY <2>4 DEF ReadTable
      <3>2. "kind" \notin DOMAIN f /\ "pc" \notin DOMAIN f
        OBVIOUS
      <3> HIDE DEF f
      <3> QED
        BY <1>1, <2>2, <3>1, <3>2, OtherLoad, RefusalLoads
    <2>5. CASE AnswerInputs(c)
      <3> DEFINE f == [pc |-> "done", rows |-> InputRows(call[c].read, call[c].candidates)]
      <3>1. Refuse(c, "rows missing") \/ On(c, f)
        BY <2>5 DEF AnswerInputs
      <3>2. "kind" \notin DOMAIN f /\ f.pc # "load"
        OBVIOUS
      <3> HIDE DEF f
      <3> QED
        BY <1>1, <2>2, <3>1, <3>2, OtherLoad, RefusalLoads
    <2> QED
      BY <1>13, <2>3, <2>4, <2>5
  <1>14. ASSUME NEW c \in Callers, ReadIds(c) \/ ReadTable(c) PROVE InputsInv'
    <2>1. CallsInv' /\ LoadsStay /\ ReadsOnly
      BY <1>1, <1>13, <1>14, IdsRead, TableRead DEF ReadIds, ReadTable
    <2> QED
      BY <2>1, ReadKeeps DEF ReadsOnly
  <1>15. ASSUME NEW c \in Callers, AnswerInputs(c) PROVE InputsInv'
    <2>1. UNCHANGED <<zone, cycles, tables, promise, reports, unreported>> /\ CallsInv' /\ ReturnedInv' /\ LoadsStay
      BY <1>1, <1>13, <1>15, InputsAnswered DEF AnswerInputs
    <2>2. TablesInv' /\ ZoneInv' /\ PromiseInv' /\ ReportsInv'
      BY <1>1, <2>1, SameGrows, LoadsKeepReports DEF ZoneInv, PromiseInv
    <2> QED
      BY <2>1, <2>2 DEF InputsInv
  <1>16. ASSUME UNCHANGED inputVars PROVE InputsInv'
    BY <1>16, <1>1, ReadKeeps DEF inputVars, CallsInv, LoadsStay
  <1>17. ASSUME SelectionNext PROVE InputsInv'
    <2>1. ASSUME NEW c \in Callers, NEW pg \in BOOLEAN, StartSelection(c, "readiness", pg) PROVE InputsInv'
      BY <1>2, <2>1
    <2>2. ASSUME NEW c \in Callers, StartSelection(c, "freeze", TRUE) PROVE InputsInv'
      BY <1>2, <2>2
    <2> QED
      BY <1>4, <1>5, <1>6, <1>7, <1>8, <1>9, <1>10, <1>11, <1>12, <1>17, <2>1, <2>2, Written, CycleChanges DEF SelectionNext
  <1>18. ASSUME InputsNext PROVE InputsInv'
    BY <1>3, <1>12, <1>14, <1>15, <1>18, Published DEF InputsNext
  <1> QED
    BY <1>16, <1>17, <1>18

\* The platform starts with the invariant.
LEMMA StartKeeps == InputsInit => InputsInv
  <1> SUFFICES ASSUME InputsInit PROVE InputsInv
    OBVIOUS
  <1>1. ZoneInv
    BY InputsAssumption DEF InputsInit, ZoneInv
  <1>2. TablesInv
    BY InputsAssumption DEF InputsInit, TablesInv, Versions, Marts
  <1>3. ReturnedInv /\ PromiseInv
    BY DEF InputsInit, ReturnedInv, PromiseInv
  <1>4. CallsInv
    BY DEF InputsInit, CallsInv, CallSound, NoCall
  <1>5. ReportsInv
    <2>1. cycles \in [Days -> CycleRows] /\ \A d \in Days : cycles[d].frozen = {}
      BY DEF InputsInit, CycleRows
    <2>2. reports = <<>> /\ \A c \in Callers : call[c].kind = "none"
      BY DEF InputsInit, NoCall
    <2>3. reports \in Seq(Days \X SUBSET Callers) /\ DOMAIN reports = {}
      BY <2>2
    <2> QED
      BY <2>1, <2>2, <2>3 DEF ReportsInv, FrozenIsReportedOnce
  <1> QED
    BY <1>1, <1>2, <1>3, <1>4, <1>5 DEF InputsInv

\* The invariant holds of every behaviour.
THEOREM InputsInvariant == InputsSpec => []InputsInv
  BY StartKeeps, StepKeeps, PTL DEF InputsSpec

\* A day called ready is the day a freeze takes when nothing has changed, and a
\* frozen day is reported to one caller.
THEOREM SelectionIsSafe == InputsSpec => []SelectionSafe
  <1>1. InputsInv => SelectionSafe
    <2>1. ASSUME InputsInv PROVE ReadyMeansFreezable
      <3>1. ASSUME NEW c \in Callers, call[c].kind = "freeze", call[c].calm, call[c].promise # 0,
                   call[c].pc \in {"failed", "done", "load"}
            PROVE  call[c].day = call[c].promise /\ (call[c].pc = "failed" => call[c].why = "ids unavailable")
        BY <2>1, <3>1 DEF InputsInv, CallsInv, CallSound, SelectionSound
      <3> QED
        BY <3>1 DEF ReadyMeansFreezable
    <2> QED
      BY <2>1 DEF SelectionSafe, InputsInv, ReportsInv
  <1> QED
    BY <1>1, InputsInvariant, PTL

\* Rows can be traced to the snapshots they name, and pinned ones read again.
THEOREM InputsStayTraceable == InputsSpec => []InputsAreTraceable
  <1>1. InputsInv => InputsAreTraceable
    <2>1. ASSUME InputsInv PROVE LineageIsTrueUnlessPublished
      <3>1. ASSUME NEW c \in Callers, call[c].kind = "inputs", call[c].pc = "done", call[c].calm \/ call[c].spec # <<>>,
                   NEW m \in Marts
            PROVE  call[c].ids[m] = call[c].read[m]
        BY <2>1, <3>1, SoundMeans DEF InputsInv, CallsInv, CallSound
      <3> QED
        BY <3>1 DEF LineageIsTrueUnlessPublished
    <2>2. ASSUME InputsInv PROVE PinnedInputsAreReproducible
      BY <2>2 DEF InputsInv, ReturnedInv, PinnedInputsAreReproducible
    <2> QED
      BY <2>1, <2>2 DEF InputsAreTraceable
  <1> QED
    BY <1>1, InputsInvariant, PTL

=============================================================================

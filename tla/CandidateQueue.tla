--------------------------- MODULE CandidateQueue ---------------------------
(***************************************************************************)
(* data_platform.queue: producers submit candidates into the PostgreSQL    *)
(* table candidate_queue, validation passes decide the pending ones.       *)
(*                                                                         *)
(* A session is one call of the Python API with its own connection and     *)
(* transaction (READ COMMITTED).  A committed row is identified by its     *)
(* ingest_seq; id is a second serial of the same insert and carries no     *)
(* other information.  Of a payload the model keeps the idempotency key    *)
(* (submitted_by, delta_id) of the partial unique index, NoKey standing    *)
(* for every payload outside the index.                                    *)
(***************************************************************************)
EXTENDS Naturals, FiniteSets

CONSTANTS
    Sessions,       \* concurrent callers of the queue API
    Keys,           \* idempotency keys of Ex-3 payloads
    NoKey,          \* a payload that the unique index does not cover
    MaxSeq,         \* bound: inserts attempted (the serial is never reused)
    MaxLimit        \* bound: the largest "limit" of a validation pass

ASSUME QueueAssumption ==
    /\ NoKey \notin Keys
    /\ MaxSeq \in Nat
    /\ MaxLimit \in Nat

VARIABLES
    status,         \* committed rows: ingest_seq -> validation_status
    key,            \* committed rows: ingest_seq -> idempotency key
    nextSeq,        \* the ingest_seq sequence, which no rollback rewinds
    pc,             \* session -> where its transaction stands
    mine,           \* session -> ingest_seq its insert was given (0: none)
    myKey,          \* session -> key of the payload it submits
    idem,           \* session -> submit_candidate_idempotent, not submit_candidate
    snap,           \* session -> pending rows its fetch statement can see
    cursor,         \* session -> last row its fetch has considered
    limit,          \* session -> limit of its validation pass
    locked,         \* session -> rows it holds FOR UPDATE
    verdict,        \* session -> validation results not yet committed
    receipts        \* history: <<key, ingest_seq>> of every receipt returned

vars == <<status, key, nextSeq, pc, mine, myKey, idem, snap, cursor, limit,
          locked, verdict, receipts>>

rowVars    == <<status, key>>
submitVars == <<mine, myKey, idem>>
workerVars == <<snap, cursor, limit, locked, verdict>>

Seqs     == 1..MaxSeq
AllKeys  == Keys \cup {NoKey}
Statuses == {"absent", "pending", "accepted", "rejected"}
Decided  == {"accepted", "rejected"}

SubmitPcs == {"inserting", "inserted", "conflict"}
WorkerPcs == {"scanning", "validating"}

Present  == {i \in Seqs : status[i] # "absent"}
Pending  == {i \in Seqs : status[i] = "pending"}

TypeOK ==
    /\ status \in [Seqs -> Statuses]
    /\ key \in [Seqs -> AllKeys]
    /\ nextSeq \in 1..(MaxSeq + 1)
    /\ pc \in [Sessions -> {"idle"} \cup SubmitPcs \cup WorkerPcs]
    /\ mine \in [Sessions -> 0..MaxSeq]
    /\ myKey \in [Sessions -> AllKeys]
    /\ idem \in [Sessions -> BOOLEAN]
    /\ snap \in [Sessions -> SUBSET Seqs]
    /\ cursor \in [Sessions -> 0..MaxSeq]
    /\ limit \in [Sessions -> 0..MaxLimit]
    /\ locked \in [Sessions -> SUBSET Seqs]
    /\ verdict \in [Sessions -> [Seqs -> {"none"} \cup Decided]]
    /\ receipts \in SUBSET (AllKeys \X Seqs)

NoVerdicts == [i \in Seqs |-> "none"]

Init ==
    /\ status = [i \in Seqs |-> "absent"]
    /\ key = [i \in Seqs |-> NoKey]
    /\ nextSeq = 1
    /\ pc = [s \in Sessions |-> "idle"]
    /\ mine = [s \in Sessions |-> 0]
    /\ myKey = [s \in Sessions |-> NoKey]
    /\ idem = [s \in Sessions |-> FALSE]
    /\ snap = [s \in Sessions |-> {}]
    /\ cursor = [s \in Sessions |-> 0]
    /\ limit = [s \in Sessions |-> 0]
    /\ locked = [s \in Sessions |-> {}]
    /\ verdict = [s \in Sessions |-> NoVerdicts]
    /\ receipts = {}

-----------------------------------------------------------------------------
(* PostgreSQL, as the statements of the queue use it.                      *)

\* Mutant: the partial unique index of migration 0006 is missing.
IndexedUnder_NoIndex(k) == {}

\* Committed rows the partial unique index holds under k.
IndexedUnder(k) == {i \in Present : key[i] = k /\ k # NoKey}

\* Some other open transaction has an uncommitted row with the same key: an
\* insert waits for that transaction to end.
KeyInFlight(s, k) ==
    /\ k # NoKey
    /\ \E t \in Sessions \ {s} : pc[t] = "inserted" /\ myKey[t] = k

\* SKIP LOCKED: another transaction holds the row.
LockedElsewhere(s, i) == \E t \in Sessions \ {s} : i \in locked[t]

\* The condition validation_status = 'pending' of the fetch and of the update,
\* which READ COMMITTED evaluates on the latest committed version of a row.
StillPending(i) == status[i] = "pending"

\* The end of a transaction: locks and uncommitted work are gone.
EndTransaction(s) ==
    /\ pc' = [pc EXCEPT ![s] = "idle"]
    /\ mine' = [mine EXCEPT ![s] = 0]
    /\ myKey' = [myKey EXCEPT ![s] = NoKey]
    /\ idem' = [idem EXCEPT ![s] = FALSE]
    /\ snap' = [snap EXCEPT ![s] = {}]
    /\ cursor' = [cursor EXCEPT ![s] = 0]
    /\ limit' = [limit EXCEPT ![s] = 0]
    /\ locked' = [locked EXCEPT ![s] = {}]
    /\ verdict' = [verdict EXCEPT ![s] = NoVerdicts]

-----------------------------------------------------------------------------
(* submit_candidate and submit_candidate_idempotent                        *)

\* The insert statement starts: the sequence hands out the next value before
\* the unique index is consulted.
SubmitBegin(s, k, i) ==
    /\ pc[s] = "idle"
    /\ nextSeq <= MaxSeq
    /\ nextSeq' = nextSeq + 1
    /\ pc' = [pc EXCEPT ![s] = "inserting"]
    /\ mine' = [mine EXCEPT ![s] = nextSeq]
    /\ myKey' = [myKey EXCEPT ![s] = k]
    /\ idem' = [idem EXCEPT ![s] = i]
    /\ UNCHANGED <<rowVars, workerVars, receipts>>

\* No row under the key: the row is inserted, invisible until the commit.
SubmitInsert(s) ==
    /\ pc[s] = "inserting"
    /\ ~KeyInFlight(s, myKey[s])
    /\ IndexedUnder(myKey[s]) = {}
    /\ pc' = [pc EXCEPT ![s] = "inserted"]
    /\ UNCHANGED <<rowVars, nextSeq, submitVars, workerVars, receipts>>

\* ON CONFLICT DO NOTHING: the idempotent insert returns no row.
SubmitConflict(s) ==
    /\ pc[s] = "inserting"
    /\ idem[s]
    /\ ~KeyInFlight(s, myKey[s])
    /\ IndexedUnder(myKey[s]) # {}
    /\ pc' = [pc EXCEPT ![s] = "conflict"]
    /\ UNCHANGED <<rowVars, nextSeq, submitVars, workerVars, receipts>>

\* The plain insert of an indexed key raises CandidateQueueWriteError.
SubmitUniqueViolation(s) ==
    /\ pc[s] = "inserting"
    /\ ~idem[s]
    /\ ~KeyInFlight(s, myKey[s])
    /\ IndexedUnder(myKey[s]) # {}
    /\ EndTransaction(s)
    /\ UNCHANGED <<rowVars, nextSeq, receipts>>

\* Mutant: the row is inserted as accepted, past the validator.
SubmitCommit_Accepted(s) ==
    /\ pc[s] = "inserted"
    /\ status' = [status EXCEPT ![mine[s]] = "accepted"]
    /\ key' = [key EXCEPT ![mine[s]] = myKey[s]]
    /\ receipts' = receipts \cup {<<myKey[s], mine[s]>>}
    /\ EndTransaction(s)
    /\ UNCHANGED nextSeq

\* The insert commits and its receipt is returned (replayed = False).
SubmitCommit(s) ==
    /\ pc[s] = "inserted"
    /\ status' = [status EXCEPT ![mine[s]] = "pending"]
    /\ key' = [key EXCEPT ![mine[s]] = myKey[s]]
    /\ receipts' = receipts \cup {<<myKey[s], mine[s]>>}
    /\ EndTransaction(s)
    /\ UNCHANGED nextSeq

\* The second statement of the idempotent insert reads, with a fresh
\* snapshot, the oldest row under the key; its receipt has replayed = True.
SubmitReplay(s) ==
    /\ pc[s] = "conflict"
    /\ \E i \in IndexedUnder(myKey[s]) :
        /\ \A j \in IndexedUnder(myKey[s]) : i <= j
        /\ receipts' = receipts \cup {<<myKey[s], i>>}
    /\ EndTransaction(s)
    /\ UNCHANGED <<rowVars, nextSeq>>

-----------------------------------------------------------------------------
(* validate_pending_candidates                                             *)

\* The fetch statement starts: its snapshot fixes the rows it will consider.
WorkerBegin(s, n) ==
    /\ pc[s] = "idle"
    /\ n >= 1
    /\ pc' = [pc EXCEPT ![s] = "scanning"]
    /\ snap' = [snap EXCEPT ![s] = Pending]
    /\ limit' = [limit EXCEPT ![s] = n]
    /\ UNCHANGED <<rowVars, nextSeq, submitVars, cursor, locked, verdict, receipts>>

ScanRest(s) == {i \in snap[s] : i > cursor[s]}

ScanDone(s) == ScanRest(s) = {} \/ Cardinality(locked[s]) >= limit[s]

\* FOR UPDATE SKIP LOCKED considers one row, in ingest_seq order.
WorkerScanRow(s) ==
    /\ pc[s] = "scanning"
    /\ ~ScanDone(s)
    /\ \E i \in ScanRest(s) :
        /\ \A j \in ScanRest(s) : i <= j
        /\ cursor' = [cursor EXCEPT ![s] = i]
        /\ locked' = IF LockedElsewhere(s, i) \/ ~StillPending(i)
                     THEN locked
                     ELSE [locked EXCEPT ![s] = @ \cup {i}]
    /\ UNCHANGED <<rowVars, nextSeq, pc, submitVars, snap, limit, verdict, receipts>>

WorkerFetched(s) ==
    /\ pc[s] = "scanning"
    /\ ScanDone(s)
    /\ pc' = [pc EXCEPT ![s] = "validating"]
    /\ snap' = [snap EXCEPT ![s] = {}]
    /\ cursor' = [cursor EXCEPT ![s] = 0]
    /\ UNCHANGED <<rowVars, nextSeq, submitVars, limit, locked, verdict, receipts>>

Unvalidated(s) == {i \in locked[s] : verdict[s][i] = "none"}

\* The validator accepts or rejects the next fetched candidate, and the
\* result is written in the transaction.  The validator's verdict is external.
WorkerValidate(s) ==
    /\ pc[s] = "validating"
    /\ \E i \in Unvalidated(s), v \in Decided :
        /\ \A j \in Unvalidated(s) : i <= j
        /\ verdict' = [verdict EXCEPT ![s][i] = v]
    /\ UNCHANGED <<rowVars, nextSeq, pc, submitVars, snap, cursor, limit, locked, receipts>>

\* The rows the committed transaction leaves: the results of the pass for the
\* rows that are still pending, over the rest.
StatusAfter(s) ==
    [i \in Seqs |-> IF verdict[s][i] # "none" /\ StillPending(i)
                    THEN verdict[s][i] ELSE status[i]]

WorkerCommit(s) ==
    /\ pc[s] = "validating"
    /\ Unvalidated(s) = {}
    /\ status' = StatusAfter(s)
    /\ EndTransaction(s)
    /\ UNCHANGED <<key, nextSeq, receipts>>

-----------------------------------------------------------------------------
\* A transaction that does not commit: an unexpected validator exception, a
\* database error, or the process dying.
Rollback(s) ==
    /\ pc[s] # "idle"
    /\ EndTransaction(s)
    /\ UNCHANGED <<rowVars, nextSeq, receipts>>

SubmitStep(s) ==
    \/ \E k \in AllKeys, i \in BOOLEAN : SubmitBegin(s, k, i)
    \/ SubmitInsert(s)
    \/ SubmitConflict(s)
    \/ SubmitUniqueViolation(s)
    \/ SubmitCommit(s)
    \/ SubmitReplay(s)

WorkerStep(s) ==
    \/ \E n \in 1..MaxLimit : WorkerBegin(s, n)
    \/ WorkerScanRow(s)
    \/ WorkerFetched(s)
    \/ WorkerValidate(s)
    \/ WorkerCommit(s)

Next == \E s \in Sessions : SubmitStep(s) \/ WorkerStep(s) \/ Rollback(s)

Spec == Init /\ [][Next]_vars

-----------------------------------------------------------------------------
(* Properties                                                              *)

\* Two committed candidates never share an Ex-3 idempotency key, however the
\* retries of submit_candidate and submit_candidate_idempotent interleave.
KeyNamesOneRow ==
    \A i, j \in Present : key[i] = key[j] /\ key[i] # NoKey => i = j

\* Every receipt an idempotent producer was ever given for a key, first
\* submission or replay, names the same committed row: a retry after a lost
\* answer is told what its first attempt achieved.
ReceiptsAgree ==
    \A r \in receipts :
        /\ r[2] \in Present /\ key[r[2]] = r[1]
        /\ r[1] # NoKey => \A q \in receipts : q[1] = r[1] => q[2] = r[2]

\* After ON CONFLICT DO NOTHING returned no row, the second statement of
\* insert_candidate_idempotent finds the row it must replay, so .one() cannot raise.
ReplayFindsRow ==
    \A s \in Sessions : pc[s] = "conflict" => IndexedUnder(myKey[s]) # {}

\* Two validation passes that overlap never work on the same candidate, and
\* what a pass works on stays undecided until it commits.
BatchesDisjoint ==
    \A s, t \in Sessions :
        /\ s # t => locked[s] \cap locked[t] = {}
        /\ locked[s] \subseteq Pending
        /\ Cardinality(locked[s]) <= limit[s]

\* Two producers with the same key, or one and its own retry, share one row and
\* its receipt; a conflicting insert finds the row it lost to; overlapping
\* passes of validate_pending_candidates hold different rows.
QueueSafe == KeyNamesOneRow /\ ReceiptsAgree /\ ReplayFindsRow /\ BatchesDisjoint

\* A decision on a candidate is final: no later or overlapping pass of
\* validate_pending_candidates overwrites it, and no row disappears.
DecisionsFinal ==
    [][\A i \in Seqs :
         /\ status[i] \in Decided => status'[i] = status[i]
         /\ status[i] = "pending" => status'[i] \in {"pending"} \cup Decided]_status

\* The queue implements the abstract candidate table.
Table == INSTANCE CandidateTable
TableSpec == Table!Spec

=============================================================================

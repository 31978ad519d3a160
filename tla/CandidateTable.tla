--------------------------- MODULE CandidateTable ---------------------------
(***************************************************************************)
(* What the candidate queue promises to the rest of the platform: a table  *)
(* of candidates, each of which appears once as "pending" and is decided   *)
(* at most once, for ever, by a validation pass that decides its whole     *)
(* batch in one step or nothing at all.  CandidateQueue, the model of the  *)
(* code, implements this specification.                                    *)
(***************************************************************************)
EXTENDS Naturals

CONSTANT MaxSeq         \* bound: the largest ingest_seq handed out

VARIABLE status         \* ingest_seq -> validation_status

Seqs == 1..MaxSeq

Decided == {"accepted", "rejected"}

Init == status = [i \in Seqs |-> "absent"]

\* A candidate becomes visible, undecided.
Submit(i) ==
    /\ status[i] = "absent"
    /\ status' = [status EXCEPT ![i] = "pending"]

\* One validation pass decides a set of pending candidates.
Decide(batch, verdict) ==
    /\ \A i \in batch : status[i] = "pending"
    /\ status' = [i \in Seqs |-> IF i \in batch THEN verdict[i] ELSE status[i]]

Next ==
    \/ \E i \in Seqs : Submit(i)
    \/ \E batch \in SUBSET Seqs : \E verdict \in [batch -> Decided] :
            Decide(batch, verdict)

Spec == Init /\ [][Next]_status

=============================================================================

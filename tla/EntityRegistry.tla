--------------------------- MODULE EntityRegistry ---------------------------
(***************************************************************************)
(* The entity registry (upstream/entity-registry): canonical entities and  *)
(* their aliases, the resolution of mentions by batch jobs, and the manual *)
(* review of what stays unresolved.  Jobs run in threads over shared       *)
(* repositories; every repository call is atomic under its own lock, a job *)
(* is not.                                                                 *)
(*                                                                         *)
(* Entities are numbers (0 for none), texts and references model values.   *)
(* A case carries the time it was built, so the latest case of a reference *)
(* is the one with the greatest stamp, whatever was saved last.            *)
(***************************************************************************)
EXTENDS Integers, Sequences, FiniteSets, SequencesExt, FiniteSetsExt

CONSTANTS
    Threads,      \* threads that run jobs and decisions
    References,   \* reference ids
    MentionOf,    \* MentionOf[r]: the mention text of a reference
    Snapshots,    \* stock_basic snapshots: sets of records
    Batches,      \* the inputs of batch jobs: sequences of references
    RuleEntity,   \* RuleEntity[m]: the entity whose id or ts_code m spells, or 0
    Extracts,     \* Extracts[m]: the mentions the NER extractor finds in m
    Similar,      \* Similar[m][text]: the similarity in thousandths
    SameBlock,    \* SameBlock[m][text]: their blocking keys agree or one is empty
    MinScore, AutoScore, Limit, \* the fuzzy matcher's settings
    MaxJobs       \* bound: initializations, batches and decisions started in a behaviour

\* Batches name references, and a snapshot is finite.
ASSUME RegistryAssumption ==
    /\ "free" \notin Threads
    /\ Batches \subseteq Seq(References)
    /\ \A s \in Snapshots : IsFiniteSet(s)

VARIABLES
    entities,     \* entities[e]: the cross-listing group of a saved entity
    aliases,      \* saved aliases: [entity, text, type]
    refs,         \* refs[r]: [entity, method], method "absent" for none
    cases,        \* cases[r]: the latest case by stamp: [stamp, selected, candidates]
    items,        \* items[r]: the review queue item: [status, candidates]
    reviewLock,   \* the thread inside complete_decision
    job,          \* job[t]: what a thread is doing
    clock,        \* the latest stamp; 1 is that of a reference from before
    started,      \* the initializations, batches and decisions started so far
    raced,        \* references where one save overtook an older one, or one
                  \* enqueue another
    torn          \* references saved while a decision copied or restored the two
                  \* repositories that save_resolution writes together

evars == <<entities, aliases, refs, cases, items, reviewLock, job, clock, started, raced, torn>>

None == 0
NoRow == [entity |-> None, method |-> "absent"]
NoCase == [stamp |-> 0, selected |-> None, candidates |-> {}]
NoItem == [status |-> "absent", candidates |-> {}]
NoJob == [pc |-> "idle", todo |-> <<>>, found |-> {}, scores |-> <<>>, failed |-> FALSE,
          case |-> NoCase, method |-> "none", errors |-> {}, review |-> {}, groups |-> {}, results |-> <<>>, public |-> FALSE,
          status |-> "none",
          promotes |-> "none", snapshot |-> <<>>]

RegistryInit ==
    /\ entities = [e \in {} |-> "none"]
    /\ aliases = {}
    /\ refs = [r \in References |-> NoRow]
    /\ cases = [r \in References |-> NoCase]
    /\ items = [r \in References |-> NoItem]
    /\ reviewLock = "free"
    /\ job = [t \in Threads |-> NoJob]
    /\ clock = 1
    /\ started = 0
    /\ raced = {}
    /\ torn = {}

At(t, pc) == job[t].pc = pc
Current(t) == Head(job[t].todo)

-----------------------------------------------------------------------------
(* Initialization from stock_basic. *)

\* detect_cross_listing_groups: the companies with a mainland and an H listing.
CrossListed(records) ==
    {r.company : r \in {x \in records : x.market = "mainland"}}
        \cap {r.company : r \in {x \in records : x.market = "H"}}

GroupOf(records, r) == IF r.company \in CrossListed(records) THEN r.company ELSE "none"

\* generate_aliases_from_stock_basic: the names and the code of a record.
AliasesOf(r) == {[entity |-> r.entity, text |-> n.text, type |-> n.type] : n \in r.names}

Busy(pc, todo) == [NoJob EXCEPT !.pc = pc, !.todo = todo]

\* One invalid record and nothing is written.
StartInitialization(t, records) ==
    /\ job[t].pc \in {"idle", "done"} /\ started < MaxJobs
    /\ started' = started + 1
    /\ job' = [job EXCEPT ![t] =
                  IF \E r \in records : ~r.valid THEN [NoJob EXCEPT !.status = "failed"]
                  ELSE [Busy(IF records = {} THEN "aliases" ELSE "entities", SetToSeq(records))
                            EXCEPT !.snapshot = records]]
    /\ UNCHANGED <<entities, aliases, refs, cases, items, reviewLock, clock, raced, torn>>

\* Mutant: the aliases are written before the entities they belong to.
SaveEntityLate(t) ==
    /\ At(t, "entities")
    /\ aliases' = aliases \cup UNION {AliasesOf(r) : r \in job[t].snapshot}
    /\ entities' = [e \in DOMAIN entities \cup {Current(t).entity} |-> "none"]
    /\ job' = [job EXCEPT ![t].todo = Tail(@), ![t].pc = IF Len(job[t].todo) = 1 THEN "aliases" ELSE @]
    /\ UNCHANGED <<refs, cases, items, reviewLock, clock, raced, torn, started>>

\* save_if_absent keeps the entity, and the group, an earlier snapshot left.
SaveEntity(t) ==
    /\ At(t, "entities")
    /\ LET r == Current(t)
       IN  entities' = [e \in DOMAIN entities \cup {r.entity} |->
                           IF e \in DOMAIN entities THEN entities[e]
                           ELSE GroupOf(job[t].snapshot, r)]
    /\ job' = [job EXCEPT ![t].todo = Tail(@),
                          ![t].pc = IF Len(job[t].todo) = 1 THEN "aliases" ELSE @]
    /\ UNCHANGED <<aliases, refs, cases, items, reviewLock, clock, raced, torn, started>>

SaveAliases(t) ==
    /\ At(t, "aliases")
    /\ aliases' = aliases \cup UNION {AliasesOf(r) : r \in job[t].snapshot}
    /\ job' = [job EXCEPT ![t] = NoJob]
    /\ UNCHANGED <<entities, refs, cases, items, reviewLock, clock, raced, torn, started>>

-----------------------------------------------------------------------------
(* Candidates and decisions (resolution.py, fuzzy.py). *)

\* _collect_deterministic_candidates: the rule, else the code aliases, else all.
DeterministicHits(m) ==
    LET named == {a \in aliases : a.text = m}
        code == {a \in named : a.type = "code"}
        hits == {a.entity : a \in IF code # {} THEN code ELSE named}
    IN  IF RuleEntity[m] \in DOMAIN entities THEN {RuleEntity[m]} ELSE hits \cap DOMAIN entities

\* SimpleFuzzyMatcher.generate_candidates: the best score per entity, the first
\* Limit of them by score and id.
FuzzyScores(m) ==
    LET fits == {a \in aliases : /\ a.entity \in DOMAIN entities
                                 /\ SameBlock[m][a.text] \/ Similar[m][a.text] = 1000
                                 /\ Similar[m][a.text] >= MinScore}
        best == [e \in {a.entity : a \in fits} |->
                    Max({Similar[m][a.text] : a \in {b \in fits : b.entity = e}})]
        before(e) == {f \in DOMAIN best : best[f] > best[e] \/ (best[f] = best[e] /\ f < e)}
    IN  [e \in {x \in DOMAIN best : Cardinality(before(x)) < Limit} |-> best[e]]

\* _fuzzy_query_text: a single extracted mention replaces the text.
Query(m) == IF Len(Extracts[m]) = 1 THEN Head(Extracts[m]) ELSE m

\* One deterministic hit ends the search before the fuzzy matcher is asked.
Scores(m, fails) ==
    IF Cardinality(DeterministicHits(m)) = 1 \/ fails THEN [e \in {} |-> 0]
    ELSE FuzzyScores(Query(m))

\* _decision_from_candidate_set: what needs nobody's judgement.
AutoDecision(hits, scores, failed) ==
    IF failed THEN [entity |-> None, method |-> "unresolved"]
    ELSE IF Cardinality(hits) = 1
    THEN [entity |-> CHOOSE e \in hits : TRUE, method |-> "deterministic"]
    ELSE IF hits = {} /\ Cardinality(DOMAIN scores) = 1 /\ Min(Range(scores)) >= AutoScore
    THEN [entity |-> CHOOSE e \in DOMAIN scores : TRUE, method |-> "fuzzy"]
    ELSE [entity |-> None, method |-> "unresolved"]

\* _candidate_status: whether the reasoner is asked.
NeedsReasoner(hits, scores) ==
    /\ Cardinality(hits) # 1
    /\ ~(hits = {} /\ Cardinality(DOMAIN scores) = 1 /\ Min(Range(scores)) >= AutoScore)
    /\ hits \cup DOMAIN scores # {}

\* What a reasoner may do: nothing configured, an error, no selection, one it is
\* not sure of, or a selection.  A selection outside the candidates is refused.
Replies == {"none", "error", "declined", "unsure"}
Selected(reply, candidates) ==
    IF reply.kind = "picked" /\ reply.entity \in candidates
    THEN [entity |-> reply.entity, method |-> "llm"]
    ELSE [entity |-> None, method |-> "unresolved"]

\* _resolve_candidate_set_decision.
Decision(hits, scores, failed, reply) ==
    LET auto == AutoDecision(hits, scores, failed)
    IN  IF auto.entity # None \/ ~NeedsReasoner(hits, scores) THEN auto
        ELSE Selected(reply, hits \cup DOMAIN scores)

-----------------------------------------------------------------------------
(* The batch job. *)

Advance(j) ==
    [NoJob EXCEPT !.pc = IF Len(j.todo) = 1 THEN "report" ELSE "validate", !.todo = Tail(j.todo),
                  !.errors = j.errors, !.review = j.review, !.results = j.results,
                  !.public = j.public, !.status = j.status]

\* Both entrances, batch_resolve of the package and batch_resolve_with_report,
\* refuse a reference named twice.
StartBatch(t, rs, public) ==
    /\ job[t].pc \in {"idle", "done"} /\ rs # <<>> /\ IsInjective(rs)
    /\ started < MaxJobs /\ started' = started + 1
    /\ job' = [job EXCEPT ![t] = [Busy("validate", rs) EXCEPT !.status = "running", !.public = public]]
    /\ UNCHANGED <<entities, aliases, refs, cases, items, reviewLock, clock, raced, torn>>

\* _validate_existing_reference_for_update: an error for one that is resolved.
Validate(t) ==
    /\ At(t, "validate")
    /\ LET r == Current(t)
       IN  job' = [job EXCEPT ![t] =
                      IF refs[r].method \in {"absent", "unresolved"} THEN [@ EXCEPT !.pc = "collect"]
                      ELSE [Advance(job[t]) EXCEPT !.errors = @ \cup {r}, !.review = @ \cup {r}]]
    /\ UNCHANGED <<entities, aliases, refs, cases, items, reviewLock, clock, raced, torn, started>>

\* The matcher, or the extractor before it, may fail: the failure is recorded.
Collect(t, fails) ==
    /\ At(t, "collect")
    /\ LET m == MentionOf[Current(t)]
           hits == DeterministicHits(m)
       IN  /\ fails => Cardinality(hits) # 1
           /\ job' = [job EXCEPT ![t].pc = "decide", ![t].found = hits,
                                 ![t].scores = Scores(m, fails), ![t].failed = fails]
    /\ UNCHANGED <<entities, aliases, refs, cases, items, reviewLock, clock, raced, torn, started>>

\* The answer arrives and the reference and its case are built.
Decide(t, reply) ==
    /\ At(t, "decide")
    /\ LET j == job[t]
           d == Decision(j.found, j.scores, j.failed, reply)
       IN  /\ reply.kind # "none" => NeedsReasoner(j.found, j.scores)
           /\ job' = [job EXCEPT ![t].pc = "save", ![t].method = d.method,
                          ![t].case = [stamp |-> clock + 1, selected |-> d.entity,
                                       candidates |-> j.found \cup DOMAIN j.scores]]
    /\ clock' = clock + 1
    /\ UNCHANGED <<entities, aliases, refs, cases, items, reviewLock, raced, torn, started>>

\* Mutant: the case is appended and the reference kept when it was resolved.
SavedUnlessResolved(r, case, method) ==
    /\ refs' = [refs EXCEPT ![r] = IF @.entity # None THEN @
                                   ELSE [entity |-> case.selected, method |-> method]]
    /\ cases' = [cases EXCEPT ![r] = IF @.stamp > case.stamp THEN @ ELSE case]

\* save_resolution: the reference and the case under one lock.
Saved(r, case, method) ==
    /\ refs' = [refs EXCEPT ![r] = [entity |-> case.selected, method |-> method]]
    /\ cases' = [cases EXCEPT ![r] = IF @.stamp > case.stamp THEN @ ELSE case]

\* Another thread has built an older case of r that it is still to save.
Overtakes(t, r, case) ==
    \E u \in Threads \ {t} : /\ job[u].pc \in {"save", "copy", "audit"} /\ Head(job[u].todo) = r
                             /\ job[u].case.stamp < case.stamp

\* The rollback of a decision, from the first repository it empties to the last
\* it fills again.
Emptied == {"refill_references", "clear_cases", "refill_cases"}
Restoring == \E u \in Threads : job[u].pc \in Emptied
Torn(r) == IF Restoring \/ \E u \in Threads : job[u].pc = "copy" THEN torn \cup {r} ELSE torn

Save(t) ==
    /\ At(t, "save")
    /\ LET r == Current(t)
       IN  /\ Saved(r, job[t].case, job[t].method)
           /\ raced' = IF Overtakes(t, r, job[t].case) THEN raced \cup {r} ELSE raced
           /\ torn' = Torn(r)
           /\ job' = [job EXCEPT ![t] =
                         [Advance(job[t]) EXCEPT !.results = Append(@, <<r, job[t].case.selected>>),
                                            !.review = IF job[t].case.selected = None
                                                       THEN @ \cup {r} ELSE @]]
    /\ UNCHANGED <<entities, aliases, items, reviewLock, clock, started>>

\* cluster_unresolved_references: same text, same blocking key, same candidates.
GroupKey(r) == <<MentionOf[r], DOMAIN FuzzyScores(MentionOf[r])>>
Clusters(rs) == {{x \in rs : GroupKey(x) = GroupKey(r)} : r \in rs}

\* The matcher is asked once more, for the groups: if it raises, the job is left
\* running with everything saved.  One error and the whole batch fails, with
\* nothing queued for review.
Report(t, fails) ==
    /\ At(t, "report")
    /\ fails => job[t].review # {}
    /\ job' = [job EXCEPT ![t] =
                  IF fails THEN [NoJob EXCEPT !.status = "running"]
                  ELSE IF @.errors # {} THEN [NoJob EXCEPT !.status = "failed"]
                  ELSE IF @.public
                  THEN [@ EXCEPT !.pc = "answer", !.groups = Clusters(job[t].review)]
                  ELSE IF @.review = {} THEN [NoJob EXCEPT !.status = "completed"]
                  ELSE [@ EXCEPT !.pc = "enqueue", !.groups = Clusters(job[t].review),
                                 !.todo = SetToSeq(job[t].review), !.results = <<>>]]
    /\ UNCHANGED <<entities, aliases, refs, cases, items, reviewLock, clock, raced, torn, started>>

\* to_contract_resolution_case: the answer joins this job's result with the
\* latest case, which may by now be somebody else's, or gone.
AnswerRaises(entity, case) ==
    \/ case = NoCase
    \/ (entity = None) # (case.selected = None)
    \/ case.selected # None /\ case.selected \notin case.candidates \cap DOMAIN entities

Answer(t) ==
    /\ At(t, "answer")
    /\ LET next == Head(job[t].results)
       IN  job' = [job EXCEPT ![t] =
                      IF AnswerRaises(next[2], cases[next[1]]) THEN [NoJob EXCEPT !.status = "failed"]
                      ELSE IF Len(@.results) = 1 THEN [NoJob EXCEPT !.status = "completed"]
                      ELSE [job[t] EXCEPT !.results = Tail(@)]]
    /\ UNCHANGED <<entities, aliases, refs, cases, items, reviewLock, clock, raced, torn, started>>

\* register_unresolved_reference: whatever the reference was resolved to is
\* forgotten.  The case takes the reference's time, which may be an old one.
Register(t, r, old) ==
    /\ job[t].pc \in {"idle", "done"} /\ started < MaxJobs
    /\ started' = started + 1
    /\ LET case == [NoCase EXCEPT !.stamp = IF old THEN 1 ELSE clock + 1]
       IN  /\ Saved(r, case, "unresolved")
           /\ torn' = Torn(r)
           /\ clock' = IF old THEN clock ELSE clock + 1
           /\ raced' = IF case.stamp < cases[r].stamp \/ Overtakes(t, r, case)
                       THEN raced \cup {r} ELSE raced
    /\ UNCHANGED <<entities, aliases, items, reviewLock, job>>

-----------------------------------------------------------------------------
(* The review queue (review.py). *)

Queued(j) ==
    [j EXCEPT !.todo = Tail(@), !.pc = IF Len(j.todo) = 1 THEN "done" ELSE "enqueue",
              !.case = NoCase, !.status = IF Len(j.todo) = 1 THEN "completed" ELSE @]

\* A reference somebody has resolved since fails the job, and so does one that a
\* rollback has just taken out.
EnqueueGet(t) ==
    /\ At(t, "enqueue")
    /\ job' = [job EXCEPT ![t] =
                  IF refs[Current(t)].method = "unresolved" THEN [@ EXCEPT !.pc = "find"]
                  ELSE [NoJob EXCEPT !.status = "failed"]]
    /\ UNCHANGED <<entities, aliases, refs, cases, items, reviewLock, clock, raced, torn, started>>

\* Mutant: only a pending item counts as already queued.
EnqueueFindPending(t) ==
    /\ At(t, "find") /\ reviewLock = "free"
    /\ LET r == Current(t)
       IN  job' = [job EXCEPT ![t] = IF items[r].status = "pending" THEN Queued(@)
                                     ELSE [@ EXCEPT !.pc = "case"]]
    /\ UNCHANGED <<entities, aliases, refs, cases, items, reviewLock, clock, raced, torn, started>>

EnqueueFind(t) ==
    /\ At(t, "find") /\ reviewLock = "free"
    /\ LET r == Current(t)
       IN  job' = [job EXCEPT ![t] = IF items[r] # NoItem THEN Queued(@)
                                     ELSE [@ EXCEPT !.pc = "case"]]
    /\ UNCHANGED <<entities, aliases, refs, cases, items, reviewLock, clock, raced, torn, started>>

\* _latest_case_for_reference: without a case the job fails.
EnqueueCase(t) ==
    /\ At(t, "case")
    /\ LET case == cases[Current(t)]
       IN  job' = [job EXCEPT ![t] = IF case = NoCase THEN [NoJob EXCEPT !.status = "failed"]
                                     ELSE [@ EXCEPT !.pc = "queue", !.case = case]]
    /\ UNCHANGED <<entities, aliases, refs, cases, items, reviewLock, clock, raced, torn, started>>

\* The item's id follows from the reference: a second save replaces the first.
EnqueueSave(t) ==
    /\ At(t, "queue") /\ reviewLock = "free"
    /\ LET r == Current(t)
       IN  /\ items' = [items EXCEPT ![r] = [status |-> "pending",
                                             candidates |-> job[t].case.candidates]]
           /\ raced' = IF \E u \in Threads \ {t} : job[u].pc \in {"case", "queue"} /\ Current(u) = r
                       THEN raced \cup {r} ELSE raced
    /\ job' = [job EXCEPT ![t] = Queued(@)]
    /\ UNCHANGED <<entities, aliases, refs, cases, reviewLock, clock, started, torn>>

Claim(r) ==
    /\ reviewLock = "free" /\ items[r].status = "pending"
    /\ items' = [items EXCEPT ![r].status = "claimed"]
    /\ UNCHANGED <<entities, aliases, refs, cases, reviewLock, job, clock, raced, torn, started>>

\* submit_manual_review_decision: whoever submits, a pending item and one that
\* somebody else has claimed can both be decided.  The records are built under
\* the lock of the review queue, and the references copied for a rollback.
Submit(t, r, e, promote) ==
    /\ job[t].pc \in {"idle", "done"} /\ reviewLock = "free" /\ started < MaxJobs
    /\ started' = started + 1
    /\ items[r].status \in {"pending", "claimed"}
    /\ e # None => e \in DOMAIN entities
    /\ promote # "none" => e # None
    /\ reviewLock' = t
    /\ clock' = clock + 1
    /\ job' = [job EXCEPT ![t] =
                  [Busy("copy", <<r>>) EXCEPT
                      !.method = IF e = None THEN "unresolved" ELSE "manual",
                      !.promotes = promote,
                      !.case = [stamp |-> clock + 1, selected |-> e,
                                candidates |-> items[r].candidates \cup ({e} \ {None})],
                      !.snapshot = <<refs>>]]
    /\ UNCHANGED <<entities, aliases, refs, cases, items, raced, torn>>

\* Then the cases, and the aliases; the lock of the repositories is not taken.
DecisionCopies(t) ==
    /\ At(t, "copy")
    /\ job' = [job EXCEPT ![t].pc = "audit", ![t].snapshot = <<@[1], cases, aliases>>]
    /\ UNCHANGED <<entities, aliases, refs, cases, items, reviewLock, clock, raced, torn, started>>

DecisionAudit(t) ==
    /\ At(t, "audit")
    /\ Saved(Current(t), job[t].case, job[t].method)
    /\ raced' = IF Overtakes(t, Current(t), job[t].case) THEN raced \cup {Current(t)} ELSE raced
    /\ job' = [job EXCEPT ![t].pc = IF job[t].promotes = "none" THEN "terminal" ELSE "alias"]
    /\ UNCHANGED <<entities, aliases, items, reviewLock, clock, started, torn>>

DecisionAlias(t) ==
    /\ At(t, "alias")
    /\ aliases' = aliases \cup {[entity |-> job[t].case.selected, text |-> MentionOf[Current(t)],
                                 type |-> job[t].promotes]}
    /\ job' = [job EXCEPT ![t].pc = "terminal"]
    /\ UNCHANGED <<entities, refs, cases, items, reviewLock, clock, raced, torn, started>>

DecisionEnds(t) ==
    /\ At(t, "terminal")
    /\ items' = [items EXCEPT ![Current(t)].status =
                    IF job[t].case.selected = None THEN "rejected" ELSE "promoted"]
    /\ reviewLock' = "free"
    /\ job' = [job EXCEPT ![t] = NoJob]
    /\ UNCHANGED <<entities, aliases, refs, cases, clock, raced, torn, started>>

\* A repository raises: each copy goes back over what others have saved since,
\* in two steps, clear and update, that take no lock but that of the review
\* queue.  What is saved in between stays where the copy does not have it.  The
\* three indexes of the alias repository are taken for one.
Deciding == {"audit", "alias", "terminal"}
Undone(t, pc) == job' = [job EXCEPT ![t].pc = pc]

ClearAliases(t) ==
    /\ job[t].pc \in Deciding /\ job[t].promotes # "none"
    /\ aliases' = {}
    /\ Undone(t, "refill_aliases")
    /\ UNCHANGED <<entities, refs, cases, items, reviewLock, clock, raced, torn, started>>

RefillAliases(t) ==
    /\ At(t, "refill_aliases")
    /\ LET copy == job[t].snapshot[3]
       IN  aliases' = copy \cup {a \in aliases : \A c \in copy : c.text # a.text}
    /\ Undone(t, "clear_references")
    /\ UNCHANGED <<entities, refs, cases, items, reviewLock, clock, raced, torn, started>>

ClearReferences(t) ==
    /\ At(t, "clear_references") \/ (job[t].pc \in Deciding /\ job[t].promotes = "none")
    /\ refs' = [r \in References |-> NoRow]
    /\ Undone(t, "refill_references")
    /\ UNCHANGED <<entities, aliases, cases, items, reviewLock, clock, raced, torn, started>>

RefillReferences(t) ==
    /\ At(t, "refill_references")
    /\ LET copy == job[t].snapshot[1]
       IN  refs' = [r \in References |-> IF copy[r] # NoRow THEN copy[r] ELSE refs[r]]
    /\ Undone(t, "clear_cases")
    /\ UNCHANGED <<entities, aliases, cases, items, reviewLock, clock, raced, torn, started>>

ClearCases(t) ==
    /\ At(t, "clear_cases")
    /\ cases' = [r \in References |-> NoCase]
    /\ Undone(t, "refill_cases")
    /\ UNCHANGED <<entities, aliases, refs, items, reviewLock, clock, raced, torn, started>>

RefillCases(t) ==
    /\ At(t, "refill_cases")
    /\ LET copy == job[t].snapshot[2]
       IN  cases' = [r \in References |-> IF cases[r].stamp > copy[r].stamp THEN cases[r] ELSE copy[r]]
    /\ reviewLock' = "free"
    /\ job' = [job EXCEPT ![t] = NoJob]
    /\ UNCHANGED <<entities, aliases, refs, items, clock, raced, torn, started>>

-----------------------------------------------------------------------------
EntityIds == {r.entity : r \in UNION Snapshots}
AllReplies == [kind : Replies, entity : {None}] \cup [kind : {"picked"}, entity : EntityIds]

RegistryNext ==
    \/ \E t \in Threads, s \in Snapshots : StartInitialization(t, s)
    \/ \E t \in Threads : SaveEntity(t) \/ SaveAliases(t)
    \/ \E t \in Threads, rs \in Batches, p \in BOOLEAN : StartBatch(t, rs, p)
    \/ \E t \in Threads : Validate(t) \/ (\E f \in BOOLEAN : Collect(t, f))
    \/ \E t \in Threads, a \in AllReplies : Decide(t, a)
    \/ \E t \in Threads : Save(t) \/ Answer(t) \/ (\E f \in BOOLEAN : Report(t, f))
    \/ \E t \in Threads, r \in References, old \in BOOLEAN : Register(t, r, old)
    \/ \E t \in Threads : EnqueueGet(t) \/ EnqueueFind(t) \/ EnqueueCase(t) \/ EnqueueSave(t)
    \/ \E r \in References : Claim(r)
    \/ \E t \in Threads, r \in References, e \in EntityIds \cup {None}, p \in {"none", "short_name"} :
           Submit(t, r, e, p)
    \/ \E t \in Threads : DecisionCopies(t) \/ DecisionAudit(t) \/ DecisionAlias(t) \/ DecisionEnds(t)
    \/ \E t \in Threads : ClearAliases(t) \/ RefillAliases(t) \/ ClearReferences(t) \/ RefillReferences(t)
                          \/ ClearCases(t) \/ RefillCases(t)

RegistrySpec == RegistryInit /\ [][RegistryNext]_evars

-----------------------------------------------------------------------------
Terminal == {"rejected", "promoted"}

(* Nothing names an entity the registry does not have, although entities,   *)
(* aliases, references, cases and review items are saved by different calls *)
(* of different threads and a rollback puts back old copies of three of     *)
(* the repositories.                                                        *)
NothingDangles ==
    /\ \A a \in aliases : a.entity \in DOMAIN entities
    /\ \A r \in References :
           {refs[r].entity, cases[r].selected} \cup cases[r].candidates \cup items[r].candidates
               \subseteq DOMAIN entities \cup {None}

(* A reference and its latest case agree: the resolution the reference has  *)
(* is the one the case selected, whatever jobs, reviews and rollbacks did   *)
(* before.  They differ while a rollback empties and fills the two          *)
(* repositories, and after it where something was saved meanwhile, or while *)
(* the decision took its copies of the two; and after one thread saved a    *)
(* case over an older one another had built and not saved, or registered    *)
(* the reference anew with an old time.  (An audit payload reads the two in *)
(* two calls: what is saved in between shows in the case only.)             *)
RecordsAgreeUnlessRaced ==
    ~Restoring =>
        \A r \in References \ (raced \cup torn) :
            cases[r] # NoCase => refs[r].entity = cases[r].selected

(* A review item is decided once: a decided item never changes again,       *)
(* unless two jobs queued the same reference at once, each finding no item. *)
DecidedOnceUnlessRaced ==
    [][\A r \in References : items[r].status \in Terminal /\ r \notin raced' =>
           items'[r] = items[r]]_evars

(* A job that reports success has put every reference it left for manual    *)
(* review into the review queue, each in one of the report's groups.        *)
ReviewsAreQueued ==
    \A t \in Threads : At(t, "done") =>
        /\ job[t].status = "completed"
        /\ \A r \in job[t].review : items[r] # NoItem
        /\ UNION job[t].groups = job[t].review

\* Between initializations, batches, reviews and their rollbacks no row names
\* what is not there, and no reference that needs a review is forgotten.
RegistrySafe == NothingDangles /\ ReviewsAreQueued
=============================================================================

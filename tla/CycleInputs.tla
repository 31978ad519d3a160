---------------------------- MODULE CycleInputs ----------------------------
(***************************************************************************)
(* data_platform/cycle/current_selection.py and current_cycle_inputs.py    *)
(* over serving/reader.py: how a cycle is chosen from the Raw Zone, found  *)
(* ready, frozen and reported, and how the input rows of its candidates    *)
(* are read from the canonical tables.  None of it takes a lock: the Raw   *)
(* Zone grows, cycles change and marts are published between any two       *)
(* reads of a call.                                                        *)
(*                                                                         *)
(* A day stands for a date, its partition and its cycle.  Artifact files   *)
(* never change once listed, so a call's reads of an artifact it has found *)
(* are one step with the finding; what it has found can be superseded.     *)
(* Candidates and aliases are numbers, which also order them.              *)
(***************************************************************************)
EXTENDS FiniteSetsExt, SequencesExt

CONSTANTS
    Callers,        \* processes that call the platform
    Days,           \* 1..n
    Symbols,        \* the requested symbols, DP_CURRENT_CYCLE_SYMBOLS
    Writes,         \* what the raw writer may add: [dataset, part, rows]
    MartLoads,      \* what a publication may hold: [price, security], row sequences
    EntityTables, AliasTables,  \* what the two unpublished tables may hold
    FirstZones, FirstTables,    \* what is there when the platform starts
    AsOf,           \* the snapshots callers may ask for, <<>> for none
    CandidateIds, InputDay,
    MaxWrites, MaxCalls, MaxLoads, MaxFailures

\* What is filed is filed under a day, and a calendar speaks of days.
Filed(a) ==
    /\ {"dataset", "part", "rows"} \subseteq DOMAIN a /\ a.part \in Days
    /\ a.dataset = "trade_cal" => \A r \in a.rows : r.open => r.date \in Days

IsSequence(s) == s \in Seq(Range(s))

ASSUME InputsAssumption ==
    /\ IsFiniteSet(Days) /\ Days = 1..Cardinality(Days)
    /\ \A w \in Writes : Filed(w) /\ "at" \notin DOMAIN w
    /\ \A z \in FirstZones : IsFiniteSet(z) /\ \A a \in z : Filed(a) /\ "at" \in DOMAIN a /\ a.at \in 1..Cardinality(z)
    /\ \A f \in FirstTables : /\ DOMAIN f = {"price", "security", "entity", "alias"}
                              /\ \A t \in DOMAIN f : IsSequence(f[t])

VARIABLES
    zone,           \* listed artifacts: [dataset, part, rows, at]
    cycles,         \* day -> [status, frozen], status "none" without a row
    tables,         \* dataset -> its versions, oldest first
    call,           \* caller -> its call
    promise,        \* history: the day last found ready, 0 once anything changed
    reports,        \* history: sequence of <<day, ids>> that freezes returned
    returned,       \* history: what pinned input calls returned
    unreported,     \* history: days whose frozen ids could not be loaded
    spent           \* [calls, failures] used so far

inputVars == <<zone, cycles, tables, call, promise, reports, returned, unreported, spent>>

Absent == -1
Marts == {"price", "security"}
Versions == Marts \cup {"entity", "alias"}
NoCall == [kind |-> "none"]

\* A record, or a function, with some of its values replaced or added.
With(fields, f) ==
    [x \in DOMAIN fields \cup DOMAIN f |-> IF x \in DOMAIN fields THEN fields[x] ELSE f[x]]
Place(x, value, f) == With([y \in {x} |-> value], f)

\* Anything a call in progress may have read has changed.
Disturbed(calls) == [c \in Callers |-> IF calls[c].kind = "none" THEN calls[c] ELSE [calls[c] EXCEPT !.calm = FALSE]]
----------------------------------------------------------------------------
(* The Raw Zone *)

\* An artifact becomes visible when the writer has listed it (RawZone).
WriteArtifact(w) ==
    /\ Cardinality(zone) < MaxWrites
    /\ zone' = zone \cup {With(w, [at |-> Cardinality(zone) + 1])}
    /\ call' = Disturbed(call) /\ promise' = 0
    /\ UNCHANGED <<cycles, tables, reports, returned, unreported, spent>>

Partitions(dataset) == {a.part : a \in {b \in zone : b.dataset = dataset}}

\* The newest artifact in a set, by written_at.
Newest(artifacts) == CHOOSE a \in artifacts : \A b \in artifacts : b.at <= a.at

LatestArtifact(dataset, day) ==
    LET listed == {a \in zone : a.dataset = dataset /\ a.part = day}
    IN  IF listed = {} THEN {} ELSE {Newest(listed)}

OpenDates(artifacts) == UNION {{r.date : r \in {q \in a.rows : q.open}} : a \in artifacts}

SymbolsWithDaily(a, day) == {r.symbol : r \in {q \in a.rows : q.date = day}} \cap Symbols

SymbolsWithBasic(a) == {r.symbol : r \in a.rows} \cap Symbols
----------------------------------------------------------------------------
(* Calls *)

Begin(c, record) ==
    /\ call[c].kind = "none"
    /\ spent.calls < MaxCalls
    /\ call' = [call EXCEPT ![c] = With(record, [calm |-> TRUE, promise |-> promise])]
    /\ spent' = [spent EXCEPT !.calls = @ + 1]
    /\ UNCHANGED <<zone, cycles, tables, promise, reports, returned, unreported>>

\* A call moves on; records are extended, not replaced.
On(c, fields) == call' = [call EXCEPT ![c] = With(fields, @)]

\* Only call' and history are touched by a step that reads.
ReadsOnly == UNCHANGED <<zone, cycles, tables, promise, reports, returned, unreported, spent>>

Refuse(c, why) == On(c, [pc |-> "failed", why |-> why])

\* select_current_cycle lists the partitions of a dataset, then reads the
\* manifest of one after another, oldest day first.
StartScan(dataset, next) == [pc |-> "scan", dataset |-> dataset, todo |-> Partitions(dataset), got |-> {}, next |-> next]

StartSelection(c, kind, pg) ==
    Begin(c, With([kind |-> kind, pg |-> pg, day |-> 0, cal |-> {}, daily |-> {}, basic |-> {}],
                  StartScan("trade_cal", "choose")))

ScanPartition(c) ==
    /\ call[c].kind \in {"readiness", "freeze"} /\ call[c].pc = "scan" /\ call[c].todo # {}
    /\ LET day == Min(call[c].todo)
       IN  On(c, [todo |-> call[c].todo \ {day}, got |-> call[c].got \cup LatestArtifact(call[c].dataset, day)])
    /\ ReadsOnly

\* The last open date of the calendar, wherever it lies, is the trade date;
\* its daily partition is read next.
ChooseDate(c) ==
    /\ call[c].kind \in {"readiness", "freeze"} /\ call[c].pc = "scan" /\ call[c].todo = {} /\ call[c].next = "choose"
    /\ LET open == OpenDates(call[c].got)
       IN  IF open = {} THEN Refuse(c, "no open date")
           ELSE On(c, [day |-> Max(open), cal |-> {a \in call[c].got : Max(open) \in OpenDates({a})},
                       daily |-> LatestArtifact("daily", Max(open)), pc |-> "basic"])
    /\ ReadsOnly

ScanBasic(c) ==
    /\ call[c].kind \in {"readiness", "freeze"} /\ call[c].pc = "basic"
    /\ On(c, StartScan("stock_basic", "select"))
    /\ ReadsOnly

\* Both artifacts are there and hold every requested symbol.
SelectionComplete(daily, basic, day) ==
    /\ daily # {} /\ basic # {}
    /\ Symbols \subseteq SymbolsWithDaily(Newest(daily), day)
    /\ Symbols \subseteq SymbolsWithBasic(Newest(basic))

AfterSelection(c) == IF call[c].pg THEN "validate" ELSE "ready"

Select(c) ==
    /\ call[c].kind \in {"readiness", "freeze"} /\ call[c].pc = "scan" /\ call[c].todo = {} /\ call[c].next = "select"
    /\ IF SelectionComplete(call[c].daily, call[c].got, call[c].day)
       THEN On(c, [basic |-> {Newest(call[c].got)}, pc |-> AfterSelection(c)])
       ELSE Refuse(c, "incomplete")
    /\ ReadsOnly

Freezable(row) == row.status = "pending" /\ row.frozen = {}

ValidateLater(c) ==
    /\ call[c].kind \in {"readiness", "freeze"} /\ call[c].pc = "validate"
    /\ On(c, [pc |-> IF call[c].kind = "freeze" THEN "freeze" ELSE "ready"])
    /\ ReadsOnly
ValidateConditions(c) ==
    /\ call[c].kind \in {"readiness", "freeze"} /\ call[c].pc = "validate"
    /\ IF Freezable(cycles[call[c].day]) THEN On(c, [pc |-> IF call[c].kind = "freeze" THEN "freeze" ELSE "ready"])
       ELSE Refuse(c, "not ready")
    /\ ReadsOnly

\* The readiness provider answers; a later freeze call selects again.
AnswerReady(c) ==
    /\ call[c].kind = "readiness" /\ call[c].pc = "ready"
    /\ On(c, [pc |-> "done"])
    /\ promise' = IF call[c].calm /\ call[c].pg THEN call[c].day ELSE promise
    /\ UNCHANGED <<zone, cycles, tables, reports, returned, unreported, spent>>

\* freeze_cycle_candidates (CycleControl): one transaction, which checks again.
FreezeCycle(c) ==
    /\ call[c].kind = "freeze" /\ call[c].pc = "freeze"
    /\ LET day == call[c].day
       IN  IF Freezable(cycles[day])
           THEN /\ cycles' = [cycles EXCEPT ![day] = [status |-> "phase0", frozen |-> {c}]]
                /\ call' = [Disturbed(call) EXCEPT ![c] = With([pc |-> "load"], call[c])]
                /\ promise' = 0
           ELSE Refuse(c, "not ready") /\ UNCHANGED <<cycles, promise>>
    /\ UNCHANGED <<zone, tables, reports, returned, unreported, spent>>

\* The frozen ids are read in a transaction of their own.
LoadFrozen(c) ==
    /\ call[c].kind = "freeze" /\ call[c].pc = "load"
    /\ On(c, [pc |-> "done"])
    /\ reports' = Append(reports, <<call[c].day, cycles[call[c].day].frozen>>)
    /\ UNCHANGED <<zone, cycles, tables, promise, returned, unreported, spent>>

\* The database refuses the load: the cycle stays frozen and unreported.
LoadFails(c) ==
    /\ call[c].kind = "freeze" /\ call[c].pc = "load" /\ spent.failures < MaxFailures
    /\ Refuse(c, "ids unavailable")
    /\ unreported' = unreported \cup {call[c].day}
    /\ spent' = [spent EXCEPT !.failures = @ + 1]
    /\ UNCHANGED <<zone, cycles, tables, promise, reports, returned>>

\* The row of a cycle is created, or moved on without a freeze: pending to
\* phase0 is a legal transition (pending to failed has the same effect here).
ChangeCycle(day, status) ==
    /\ cycles[day].status = IF status = "pending" THEN "none" ELSE "pending"
    /\ cycles' = [cycles EXCEPT ![day].status = status]
    /\ call' = Disturbed(call) /\ promise' = 0
    /\ UNCHANGED <<zone, tables, reports, returned, unreported, spent>>
----------------------------------------------------------------------------
(* The canonical tables *)

\* A publication replaces the mart snapshot set, which names all marts at
\* once (MartPublish); the two entity tables are overwritten one by one.
Publish(tabs) ==
    /\ \A t \in DOMAIN tabs : Len(tables[t]) < MaxLoads
    /\ tables' = [t \in Versions |-> IF t \in DOMAIN tabs THEN Append(tables[t], tabs[t]) ELSE tables[t]]
    /\ call' = Disturbed(call)
    /\ UNCHANGED <<zone, cycles, promise, reports, returned, unreported, spent>>

\* The version a read without a snapshot id finds: the entry of the snapshot
\* set for a mart, the last metadata file for another table; 0 for none.
CurrentVersion(table) == Len(tables[table])

\* The version a read finds under the caller's snapshots: pinned if the key
\* is there.
ReadAlwaysCurrent(table, spec) == CurrentVersion(table)
VersionRead(table, spec) == IF table \in DOMAIN spec THEN spec[table] ELSE CurrentVersion(table)

\* A snapshot the table does not have cannot be read.
Exists(table, version) == version \in 1..Len(tables[table])

StartInputs(c, spec, candidates) ==
    Begin(c, [kind |-> "inputs", pc |-> "ids", todo |-> <<"price", "security">>, spec |-> spec, candidates |-> candidates,
              ids |-> <<>>, read |-> <<>>, rows |-> {}])

\* The snapshot ids of the required datasets come first: the caller's, which
\* must name both, or the current ones, one dataset after the other.
ReadIds(c) ==
    /\ call[c].kind = "inputs" /\ call[c].pc = "ids"
    /\ LET spec == call[c].spec
           t == Head(call[c].todo)
           more == Tail(call[c].todo)
       IN  IF spec # <<>> /\ ~Marts \subseteq DOMAIN spec THEN Refuse(c, "snapshot missing")
           ELSE IF spec # <<>> THEN On(c, [pc |-> "read", todo |-> <<"entity", "alias", "security", "price">>,
                                           ids |-> [m \in Marts |-> spec[m]]])
           ELSE IF CurrentVersion(t) = 0 THEN Refuse(c, "snapshot missing")
           ELSE On(c, [ids |-> Place(t, CurrentVersion(t), call[c].ids),
                       todo |-> IF more = <<>> THEN <<"entity", "alias", "security", "price">> ELSE more,
                       pc |-> IF more = <<>> THEN "read" ELSE "ids"])
    /\ ReadsOnly

\* One table is read.
ReadTable(c) ==
    /\ call[c].kind = "inputs" /\ call[c].pc = "read" /\ call[c].todo # <<>>
    /\ LET t == Head(call[c].todo)
           v == VersionRead(t, call[c].spec)
       IN  IF Exists(t, v) THEN On(c, [read |-> Place(t, v, call[c].read), todo |-> Tail(call[c].todo)])
           ELSE Refuse(c, "read failed")
    /\ ReadsOnly

\* The last row at one of the places, as a set of at most one.
LastRow(rows, places) == IF places = {} THEN {} ELSE {rows[Max(places)]}

PriceOf(rows, alias) ==
    LastRow(rows, {i \in DOMAIN rows : /\ rows[i].alias = alias
                                       /\ rows[i].date = InputDay /\ rows[i].daily})
SecurityOf(rows, alias) == LastRow(rows, {i \in DOMAIN rows : rows[i].alias = alias})

\* _EntityResolver: the entity of a candidate, an entity id or an alias of
\* one; the last alias row of a text counts.
EntityOfCandidate(entities, pairs, candidate) ==
    IF candidate \in entities THEN {candidate}
    ELSE {p.entity : p \in LastRow(pairs, {i \in DOMAIN pairs : pairs[i].alias = candidate})} \cap entities

AliasesFor(entities, pairs, candidate) ==
    LET known(e) == {p.alias : p \in {q \in ToSet(pairs) : q.entity = e}}
    IN  IF candidate \in entities THEN known(candidate)
        ELSE {candidate} \cup UNION {known(e) : e \in EntityOfCandidate(entities, pairs, candidate)}

\* The candidate's own text first, then the other aliases in order.
SelectAlias(candidate, names, prices, securities) ==
    LET usable == {x \in names \cup {candidate} : PriceOf(prices, x) # {} /\ SecurityOf(securities, x) # {}}
    IN  IF candidate \in usable THEN {candidate} ELSE IF usable = {} THEN {} ELSE {Min(usable)}

\* Percent: the stored change, or the one the two prices give.
Return1d(row) ==
    IF row.pct # Absent THEN row.pct
    ELSE IF row.close = Absent \/ row.pre \in {Absent, 0} THEN Absent
    ELSE ((row.close - row.pre) * 100) \div row.pre

InputRow(x, e, s, p) == [candidate |-> x, entity |-> e, market |-> s.market, close |-> p.close, return_1d |-> Return1d(p)]

\* The rows the contents of the four tables give.
RowsFrom(entities, pairs, securities, prices, candidates) ==
    LET entity(x) == EntityOfCandidate(entities, pairs, x)
        names(x) == AliasesFor(entities, pairs, x)
        alias(x) == SelectAlias(x, names(x), prices, securities)
        resolved == \A x \in candidates : entity(x) # {} /\ names(x) # {}
        complete == \A x \in candidates : alias(x) # {}
    IN  IF ~resolved \/ ~complete THEN {}
        ELSE UNION {{InputRow(x, e, s, p) : e \in entity(x),
                       s \in UNION {SecurityOf(securities, y) : y \in alias(x)},
                       p \in UNION {PriceOf(prices, y) : y \in alias(x)}} : x \in candidates}

InputRows(read, candidates) ==
    LET content(t) == tables[t][read[t]]
    IN  RowsFrom(content("entity"), content("alias"), content("security"), content("price"), candidates)

\* One row for each candidate, or nothing at all.
AnswerInputs(c) ==
    /\ call[c].kind = "inputs" /\ call[c].pc = "read" /\ call[c].todo = <<>>
    /\ LET rows == InputRows(call[c].read, call[c].candidates)
           pinned == Versions \subseteq DOMAIN call[c].spec
       IN  /\ IF rows = {} THEN Refuse(c, "rows missing") ELSE On(c, [pc |-> "done", rows |-> rows])
           /\ returned' = IF pinned THEN returned \cup {<<call[c].spec, call[c].candidates, rows>>} ELSE returned
    /\ UNCHANGED <<zone, cycles, tables, promise, reports, unreported, spent>>

\* A finished call is forgotten.
Return(c) ==
    /\ call[c].kind # "none" /\ call[c].pc \in {"done", "failed"}
    /\ call' = [call EXCEPT ![c] = NoCall]
    /\ ReadsOnly
----------------------------------------------------------------------------
InputsInit ==
    /\ zone \in FirstZones /\ cycles = [d \in Days |-> [status |-> "none", frozen |-> {}]]
    /\ tables \in FirstTables
    /\ call = [c \in Callers |-> NoCall]
    /\ promise = 0 /\ reports = <<>> /\ returned = {} /\ unreported = {}
    /\ spent = [calls |-> 0, failures |-> 0]

\* Choosing and freezing cycles, and everything that changes under it.
SelectionNext ==
    \/ \E w \in Writes : WriteArtifact(w)
    \/ \E d \in Days, s \in {"pending", "phase0"} : ChangeCycle(d, s)
    \/ \E c \in Callers :
        \/ \E pg \in BOOLEAN : StartSelection(c, "readiness", pg)
        \/ StartSelection(c, "freeze", TRUE)
        \/ ScanPartition(c) \/ ChooseDate(c) \/ ScanBasic(c) \/ Select(c) \/ ValidateConditions(c)
        \/ AnswerReady(c) \/ FreezeCycle(c) \/ LoadFrozen(c) \/ LoadFails(c) \/ Return(c)

\* Reading the inputs of a cycle, and the publications under it.
InputsNext ==
    \/ \E l \in MartLoads : Publish(l)
    \/ \E x \in EntityTables : Publish([entity |-> x])
    \/ \E x \in AliasTables : Publish([alias |-> x])
    \/ \E c \in Callers :
        \/ \E spec \in AsOf, x \in CandidateIds : StartInputs(c, spec, x)
        \/ ReadIds(c) \/ ReadTable(c) \/ AnswerInputs(c) \/ Return(c)

\* The platform alone; the run moves one half at a time.
InputsSpec == InputsInit /\ [][SelectionNext \/ InputsNext]_inputVars
----------------------------------------------------------------------------
\* What get_current_cycle_readiness answers is a promise: a freeze that runs
\* after it, with nothing changed in between, freezes the very day it named;
\* only the load of the frozen ids can still fail.
ReadyMeansFreezable ==
    \A c \in Callers : LET k == call[c] IN
        (k.kind = "freeze" /\ k.calm /\ k.promise # 0 /\ k.pc \in {"failed", "done", "load"})
            => k.day = k.promise /\ (k.pc = "failed" => k.why = "ids unavailable")

\* freeze_current_cycle_candidates returns a frozen cycle to one caller, with
\* the ids that were frozen; a frozen cycle no caller holds or was given is
\* one whose ids could not be loaded, and that stays so for good: a retry is
\* refused.
FrozenIsReportedOnce ==
    /\ \A i, j \in DOMAIN reports : reports[i][1] = reports[j][1] => i = j
    /\ \A d \in Days : cycles[d].frozen # {} =>
        \/ \E i \in DOMAIN reports : reports[i] = <<d, cycles[d].frozen>>
        \/ d \in unreported
        \/ \E c \in cycles[d].frozen : call[c].kind = "freeze" /\ call[c].pc = "load" /\ call[c].day = d

\* The current-selection freeze keeps both: a day it calls ready can be
\* frozen, and a frozen day is reported to exactly one caller.
SelectionSafe == ReadyMeansFreezable /\ FrozenIsReportedOnce

\* current_cycle_inputs puts snapshot ids on its rows that it did not read
\* through: they are the versions read when nothing was published during the
\* call, and always when the caller gave them.
LineageIsTrueUnlessPublished ==
    \A c \in Callers : LET k == call[c] IN
        (k.kind = "inputs" /\ k.pc = "done" /\ (k.calm \/ k.spec # <<>>))
            => \A m \in Marts : k.ids[m] = k.read[m]

\* Input rows asked for at given snapshots of all four tables are the same
\* whenever they are asked for.
PinnedInputsAreReproducible ==
    \A x, y \in returned : x[1] = y[1] /\ x[2] = y[2] => x[3] = y[3]

\* The rows of a cycle's inputs can be traced to the snapshots they name and,
\* when all tables are pinned, read again.
InputsAreTraceable == LineageIsTrueUnlessPublished /\ PinnedInputsAreReproducible
=============================================================================

---------------------------- MODULE MCPipeline ----------------------------
(***************************************************************************)
(* The packages behind the cycle, for TLC.  They share no state, so one    *)
(* behaviour moves one of them: side says which.                           *)
(***************************************************************************)
EXTENDS EntityRegistry, GraphReads, GraphPhase1, CycleInputs, TLC

CONSTANTS Sides, t1, t2, r1, r2, mA, mB, c1, c2

VARIABLE side

-----------------------------------------------------------------------------
(* Entity registry: two references, one ambiguous mention. *)

MCMention == r1 :> mA @@ r2 :> mB
Stock(e, m, names) == [entity |-> e, company |-> "c", market |-> m, valid |-> TRUE, names |-> names]
MCSnapshots ==
    {{Stock(1, "mainland", {[text |-> mA, type |-> "short_name"]}), Stock(2, "H", {[text |-> mA, type |-> "short_name"]})},
     {[Stock(1, "mainland", {}) EXCEPT !.valid = FALSE]}}
MCBatches == {<<r1, r2>>}
MCExtracts == mA :> <<>> @@ mB :> <<mA>>
MCRule == mA :> 0 @@ mB :> 0
MCSimilar == [m \in {mA, mB} |-> [x \in {mA, mB} |-> IF m = x THEN 1000 ELSE 900]]
MCSameBlock == [m \in {mA, mB} |-> [x \in {mA, mB} |-> TRUE]]

-----------------------------------------------------------------------------
(* Graph reads: every subset of seven relationships over four nodes. *)

Relation(id, s, d, t, x, w) ==
    [id |-> id, src |-> s, dst |-> d, type |-> t, explicit |-> x, weight |-> w,
     conf |-> Null, decay |-> Null, evidence |-> TRUE, holders |-> 3, jaccard |-> Null, z |-> Null]
None3 == <<"", "", "">>
MCRelations ==
    {Relation(1, 1, 2, "SUPPLY_CHAIN", None3, 2), Relation(2, 2, 3, "NORTHBOUND_HOLD", None3, Null),
     [Relation(3, 3, 1, "CO_HOLDING", None3, 5) EXCEPT !.holders = 4],
     Relation(4, 3, 4, "OWNERSHIP", <<"other", "event", "">>, 3),
     Relation(5, 1, 1, "EVENT_IMPACT", <<"", "", "reflexive">>, 0),
     [Relation(6, 4, 3, "CO_HOLDING", <<"", "fundamental", "event">>, 4) EXCEPT !.jaccard = 12],
     [Relation(7, 2, 3, "NORTHBOUND_HOLD", None3, 1) EXCEPT !.z = -3]}
MCGraphs == SUBSET MCRelations
MCEntityOf == <<1, 2, 3, 2>>
MCRegimeContext == [channel_multipliers |-> [event |-> 2], regime_multipliers |-> [fundamental |-> 1, reflexive |-> 1]]
MCRequests ==
    [kind : {"subgraph", "simulation"}, seeds : {{1}, {1, 4}}, depth : {0, 1, 2, 3}, limit : {1, 2, 3, 9}, filter : {{}}]
    \cup [kind : {"paths"}, seeds : {{1}, {1, 4}}, depth : {0, 1, 2, 3}, limit : {1, 2, 3, 9}, filter : {{}, {"event"}}]
    \cup [kind : {"propagation", "holdings"}, seeds : {{}}, depth : {0}, limit : {1, 2, 9}, filter : {{}}]

-----------------------------------------------------------------------------
(* Phase 1: two runs and a canary, of which two run at most; two reloads. *)

Delta(id, t, s, d) ==
    [id |-> id, change |-> "add", type |-> t, source |-> s, target |-> d, upserts |-> {}, edge |-> 0,
     evidence |-> TRUE, forbidden |-> FALSE]
MCSelection ==
    "p" :> {Delta(1, "SUPPLY_CHAIN", 1, 2)} @@ "q" :> {Delta(2, "OWNERSHIP", 1, 2)} @@
    "c" :> {[Delta(3, "CO_HOLDING", 1, 3) EXCEPT !.upserts = {[node |-> 3, entity |-> 3]}], Delta(4, "CO_HOLDING", 1, 3)}
MCNodeEntity == <<1, 2>>
Assertion == [key |-> <<"assertion", 1, 0>>, value |-> 0, evidence |-> TRUE, readable |-> FALSE]
MCFirst == {{NodeFact(1), NodeFact(2)}}

-----------------------------------------------------------------------------
(* Cycle inputs: day 1 complete, day 2 with half of its symbols. *)

Cal(day, dates, open) == [dataset |-> "trade_cal", part |-> day, rows |-> {[date |-> d, open |-> d \in open] : d \in dates}]
Daily(day, syms) == [dataset |-> "daily", part |-> day, rows |-> {[symbol |-> s, date |-> day] : s \in syms}]
Basic(day, syms) == [dataset |-> "stock_basic", part |-> day, rows |-> {[symbol |-> s] : s \in syms}]
MCWrites == {Cal(2, {1, 2}, {2}), Daily(2, {"x", "y"})}
MCFirstZones ==
    {{Cal(1, {1}, {1}) @@ [at |-> 1], Daily(1, {"x", "y"}) @@ [at |-> 2], Basic(1, {"x", "y"}) @@ [at |-> 3],
      Daily(2, {"x"}) @@ [at |-> 4]}}
Price(a, d, p, c, b) == [alias |-> a, date |-> d, daily |-> TRUE, pct |-> p, close |-> c, pre |-> b]
Price1 == <<Price(11, 1, 2, 5, 5), Price(12, 1, -1, 6, 4)>>
Security1 == <<[alias |-> 11, market |-> "SH"], [alias |-> 12, market |-> "SZ"]>>
Alias1 == <<[alias |-> 11, entity |-> 1], [alias |-> 12, entity |-> 2]>>
MCMartLoads ==
    {[price |-> <<Price(11, 1, -1, 5, 0), Price(11, 2, -1, 5, 4), Price(12, 1, 3, 7, 6)>>,
      security |-> <<[alias |-> 12, market |-> "SZ"], [alias |-> 11, market |-> "BJ"]>>]}
MCEntityTables == {{1}}
MCAliasTables == {<<[alias |-> 11, entity |-> 2], [alias |-> 12, entity |-> 1], [alias |-> 11, entity |-> 1]>>}
MCFirstTables ==
    {[price |-> p, security |-> IF p = <<>> THEN <<>> ELSE <<Security1>>, entity |-> <<{1, 2}>>, alias |-> <<Alias1>>] :
        p \in {<<>>, <<Price1>>}}
MCAsOf == {<<>>, [price |-> 1, security |-> 1, entity |-> 1, alias |-> 1], [price |-> 1]}
MCCandidateIds == {{1}, {11, 2}}

-----------------------------------------------------------------------------
pipelineVars == <<side, evars, readVars, phase1Vars, inputVars>>

Init ==
    /\ side \in Sides
    /\ RegistryInit
    /\ ReadInit /\ (side # "reads" => live = {} /\ query = Idle)
    /\ Phase1Init /\ (side # "phase1" => Assertion \notin stored)
    /\ InputsInit /\ (side # "inputs" => tables["price"] # <<>>)

Next ==
    /\ UNCHANGED side
    /\ \/ side = "registry" /\ RegistryNext /\ UNCHANGED <<readVars, phase1Vars, inputVars>>
       \/ side = "reads" /\ ReadNext /\ UNCHANGED <<evars, phase1Vars, inputVars>>
       \/ side = "phase1" /\ Phase1Next /\ UNCHANGED <<evars, readVars, inputVars>>
       \/ side = "selection" /\ SelectionNext /\ UNCHANGED <<evars, readVars, phase1Vars>>
       \/ side = "inputs" /\ InputsNext /\ UNCHANGED <<evars, readVars, phase1Vars>>

Spec == Init /\ [][Next]_pipelineVars
=============================================================================

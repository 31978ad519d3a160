----------------------------- MODULE MCServices -----------------------------
(***************************************************************************)
(* The processes around the stores, for TLC: the history archive, the      *)
(* collector's supervisor, the provider calls of the reasoner runtime and  *)
(* the backfill of holdings, whose commands that only plan are a side of   *)
(* their own.  They share no state, so one behaviour moves one of them:    *)
(* side says which.                                                        *)
(***************************************************************************)
EXTENDS HistoryStore, CollectorSupervisor, ReasonerRuntime, HoldingsBackfill, TLC

CONSTANTS t1, t2, t3, r1, r2

VARIABLE side

\* No profile, one, several with equal and unequal priorities, and two profiles
\* of the same target.
P(t, n) == [target |-> t, priority |-> n]
Input(ps, t, n) == [profiles |-> ps, configured |-> t, retries |-> n]
Three == <<P(t2, 1), P(t1, 1), P(t3, 0)>>
Twice == <<P(t1, 2), P(t2, 1), P(t1, 0)>>
\* The second request makes few calls of its own: it is there to wait for the lock.
Short == {Input(<<>>, t1, 0), Input(<<P(t1, 0)>>, t1, 1)}
MCInputs ==
    Short \cup {Input(Three, t1, 0), Input(Twice, t2, 1), Input(Twice, t3, 0)}

-----------------------------------------------------------------------------
\* Months have three days: month 6 ends with day 20, 22 is the middle of
\* month 7 and the last day with northbound holdings.
Holder(code) == [dataset |-> "top10_holders", day |-> 20, code |-> code, leg |-> ""]
Fund == [dataset |-> "fund_portfolio", day |-> 20, code |-> "f", leg |-> ""]
Hold(code, leg) == [dataset |-> "hsgt_hold_top10", day |-> 22, code |-> code, leg |-> leg]

MCServiceRows ==
    <<Holder("a"), Holder("b"), Fund, Fund, Fund, Fund,
      Hold("a", "SH"), Hold("b", "SH"), Hold("c", "SZ")>>

\* The first row of the fund is published late.
MCFirstService == {{1, 2} \cup 4..9}

Order(ds, live) ==
    [datasets |-> ds, stocks |-> <<"a", "b", "a">>, funds |-> <<"f", "">>, periods |-> <<20>>,
     days |-> <<>>, range |-> <<22, 23>>, markets |-> <<"1">>, exchanges |-> <<"SH">>,
     limit |-> 4, live |-> live]

MCHoldingsRequests ==
    {Order(<<"top10_holders">>, "yes"), Order(<<"fund_portfolio">>, "yes"),
     Order(<<"hsgt_hold_top10">>, "yes")}

MCDryRequests ==
    {Order(<<"top10_floatholders">>, "ungated"), Order(<<"hsgt_top10">>, "no"),
     Order(<<"hsgt_top10", "daily", "fund_portfolio">>, "yes"),
     [Order(<<>>, "yes") EXCEPT !.periods = <<0>>, !.range = <<22>>],
     [Order(<<"hsgt_top10", "fund_portfolio">>, "yes") EXCEPT !.range = <<23, 22>>, !.funds = <<>>],
     [Order(<<"hsgt_hold_top10">>, "yes") EXCEPT !.range = <<20, 24>>],
     [Order(<<"hsgt_top10">>, "no") EXCEPT !.limit = 0]}

MCWindowRequests ==
    [stocks : {<<"a", "b">>, <<"a">>}, funds : {<<>>, <<"f">>}, end : {0, 6, 8, 10, -1},
     limit : {100, 20}]

Asset(ds, day, codes, leg) == [dataset |-> ds, day |-> day, codes |-> codes, leg |-> leg]

MCAssetRequests ==
    {Asset("top10_holders", 20, <<"a", "b">>, ""), Asset("hsgt_hold_top10", 22, <<>>, ""),
     Asset("hsgt_hold_top10", 22, <<"a", "b">>, "")}

-----------------------------------------------------------------------------
serviceVars == <<side, vars, supervisorVars, reasonerVars, holdingsVars>>

ServicesInit ==
    /\ side \in {"history", "supervisor", "reasoner", "holdings", "plans"}
    /\ Init /\ HoldingsInit
    /\ SupervisorInit /\ (side # "supervisor" => todo = [c \in Cmds |-> "start"])
    /\ ReasonerInit /\ input[r2] \in Short
    /\ side # "reasoner" => input = [r \in Requests |-> Input(<<>>, t1, 0)]

ServicesNext ==
    /\ UNCHANGED side
    /\ \/ side = "history" /\ Next /\ UNCHANGED <<supervisorVars, reasonerVars, holdingsVars>>
       \/ side = "supervisor" /\ SupervisorNext /\ UNCHANGED <<vars, reasonerVars, holdingsVars>>
       \/ side = "reasoner" /\ ReasonerNext /\ UNCHANGED <<vars, supervisorVars, holdingsVars>>
       \/ side = "holdings" /\ HoldingsNext /\ UNCHANGED <<vars, supervisorVars, reasonerVars>>
       \/ side = "plans" /\ PlanNext /\ UNCHANGED <<vars, supervisorVars, reasonerVars>>

ServicesFairness ==
    /\ \A c \in Cmds : /\ WF_serviceVars(side = "supervisor" /\ Command(c) /\ UNCHANGED <<side, vars, reasonerVars, holdingsVars>>)
                       /\ WF_serviceVars(side = "supervisor" /\ LoopStep(c) /\ UNCHANGED <<side, vars, reasonerVars, holdingsVars>>)
    /\ \A r \in Requests : WF_serviceVars(side = "reasoner" /\ Step(r) /\ UNCHANGED <<side, vars, supervisorVars, holdingsVars>>)

ServicesSpec == ServicesInit /\ [][ServicesNext]_serviceVars /\ ServicesFairness
=============================================================================

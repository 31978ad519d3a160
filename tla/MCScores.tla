------------------------------ MODULE MCScores ------------------------------
(* The derive commands and the scoring requests of mvp20 for TLC.  They     *)
(* share no state: a behaviour exercises one of the two sides, chosen at    *)
(* the start.                                                               *)
EXTENDS Derive, Scoring, TLC

VARIABLE side

svars == <<dvars, ovars, side>>

MCCodes == <<"stock">>
MCLookup == [c \in {"stock"} |-> <<"stock", "INDUSTRY", "MARKET">>]
Known(v, c) == [status |-> "Known", value |-> v, conf |-> c]
Gone == [status |-> "Unavailable", value |-> NoFields, conf |-> 0]

MCFeed ==
    {[owner |-> "stock", dp |-> "L7.flow.active_inflow", row |-> Gone]}
    \cup {[owner |-> "MARKET", dp |-> "L9.macro.rates", row |-> Known([lpr_1y_pct |-> 34], 950)]}
    \cup {[owner |-> "stock", dp |-> "L11.short.technical", row |-> Known([score |-> 900], 700)]}

MCHistories ==
    {[close |-> <<>>, turnover |-> <<>>, pe |-> <<>>, pb |-> <<>>],
     [close |-> [i \in 1 .. 61 |-> IF i <= 20 THEN 140 ELSE 100], turnover |-> <<1, 2, 3>>,
      pe |-> <<10, 12, 14>>, pb |-> <<0>>]}

MCNeutral ==
    [dp \in {Registry[i].out : i \in DOMAIN Registry} |->
        IF dp = "L7.env.risk_appetite" THEN One ELSE 0]

\* Within the rows of derive, before the price, and between mode and signal.
MCStops == {"L6.priced.run_up", "L8.industry.price_war", "L11.mode"}

MCInitial ==
    [stock |-> ("L7.flow.active_inflow" :> Known([main_net |-> 120000], 800)
                @@ "L6.mult.pe" :> Known([scalar |-> 20], 900)
                @@ "L7.trade.volume_turnover" :> Known([turnover_rate_pct |-> 4], 900)
                @@ "L5.fina.gross_margin" :> Known([value |-> 26], 900)
                @@ "L5.fina.revenue_yoy" :> Known([value |-> 40], 900)
                @@ "L5.fina.roe" :> Known([value |-> 30], 900)),
     INDUSTRY |-> ("L0.demand.terminal" :> Known([growth_pct |-> 12], 500)),
     MARKET |-> ("L9.macro.liquidity" :> Known([m2_yoy_pct |-> 9], 500)
                 @@ "L10.industry.pmi" :> Known([manufacturing_pmi |-> 550], 500))]

-----------------------------------------------------------------------------
Node(id, dp, parent, role, target, dir) ==
    [id |-> id, dp |-> dp, parent |-> parent, kids |-> {}, status |-> "Known", policy |-> "",
     value |-> NoFields, conf |-> <<800>>, base |-> <<>>, active |-> <<>>, mat |-> <<>>,
     quality |-> <<>>, dir |-> dir, fresh |-> <<>>, words |-> {}, inherit |-> FALSE,
     role |-> role, target |-> target, takes |-> <<>>, proxies |-> <<>>, penalty |-> <<>>,
     neutral |-> <<>>, floor |-> <<>>, layer |-> "company", share |-> <<>>, lever |-> <<>>]

\* A company with a demand branch, a moat branch with one scoring node, and a
\* risk leaf.  Under demand two nodes may take a lighter sibling's value.
MCTemplate == <<
    [Node("co", "L4.co", "", "aggregation", "parent_score", 0) EXCEPT !.kids = {"trust"}],
    [Node("demand", "L0.demand", "co", "aggregation", "fundamental_score", 0)
        EXCEPT !.status = "Unknown"],
    [Node("orders", "L3.orders", "demand", "score_component", "fundamental_score", 1)
        EXCEPT !.value = [score |-> 900], !.words = {"medium", "long"}, !.base = <<200>>],
    [Node("price", "L3.price", "demand", "score_component", "fundamental_score", 1)
        EXCEPT !.inherit = TRUE, !.status = "Unknown", !.conf = <<>>, !.base = <<500>>],
    [Node("volume", "L3.volume", "demand", "raw_input", "none", 1)
        EXCEPT !.value = [yoy_pct |-> 30], !.status = "Unavailable", !.takes = <<TRUE>>,
               !.proxies = <<"L3.orders">>, !.neutral = <<100>>, !.base = <<600>>],
    [Node("risk", "L8.risk", "co", "discount", "risk_discount", -1)
        EXCEPT !.value = [magnitude |-> "high"], !.words = {"short"}, !.mat = <<600>>],
    [Node("trust", "L2.trust", "", "confidence", "confidence_multiplier", 1)
        EXCEPT !.value = [trend |-> "up"], !.active = <<400>>],
    [Node("backlog", "L3.backlog", "demand", "score_component", "fundamental_score", 1)
        EXCEPT !.status = "Unavailable", !.proxies = <<"L3.orders">>, !.base = <<500>>],
    Node("moat", "L2.moat", "co", "aggregation", "fundamental_score", 0),
    [Node("brand", "L2.brand", "moat", "score_component", "fundamental_score", 1)
        EXCEPT !.value = [score |-> 500]],
    [Node("note", "L2.note", "moat", "evidence", "none", 0)
        EXCEPT !.value = [score |-> 100]]>>

Set(s, v) == [status |-> s, value |-> v]
MCEdits ==
    (3 :> {Set("Known", [score |-> 900]), Set("Unknown", NoFields), Set("NA", NoFields),
           Set("Inactive", NoFields)}
     @@ 4 :> {Set("Unknown", NoFields), Set("Known", [strength |-> 700]), Set("NA", NoFields)}
     @@ 5 :> {Set("Unavailable", NoFields), Set("Known", [yoy_pct |-> 30])}
     @@ 6 :> {Set("Known", [magnitude |-> "high"]), Set("Unknown", NoFields), Set("NA", NoFields),
              Set("Optionality", [future_option_value |-> 400])}
     @@ 7 :> {Set("Known", [trend |-> "up"]), Set("Unavailable", NoFields)}
     @@ 10 :> {Set("Known", [score |-> 500]), Set("NA", NoFields)})

MCIndustries ==
    {<<>>} \cup {<<[Node("p", "L3.price", "", "", "", 1) EXCEPT !.value = v, !.fresh = <<500>>]>> :
                     v \in {[intensity |-> 600], Null}}

MCMarket ==
    [kappa |-> [short |-> 800, mid |-> 450, long |-> 250],
     targets |-> [participant |-> {"funding_score", "funding_multiplier"},
                  theme |-> {"theme_multiplier", "reflexivity_multiplier"}],
     weight |-> [h \in {"short", "mid", "long"} |-> [participant |-> 170, theme |-> 250]],
     beta |-> [participant |-> One, theme |-> 1200],
     local |-> {{"funding_score", "sentiment_score"}, {"expectation_gap"}},
     discounts |-> {{"risk_discount"}}]

MCRules == "L3.volume" :> [role |-> "score_component", target |-> "fundamental_score",
                           penalty |-> 600]

-----------------------------------------------------------------------------
MCInit ==
    /\ side \in {"derive", "score"}
    /\ DeriveInit
    /\ ScoringInit
    /\ side = "derive" => industry = <<>>

MCNext ==
    \/ side = "derive" /\ DeriveNext /\ UNCHANGED <<ovars, side>>
    \/ side = "score" /\ ScoringNext /\ UNCHANGED <<dvars, side>>

MCSpec == MCInit /\ [][MCNext]_svars
=============================================================================

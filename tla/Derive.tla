------------------------------ MODULE Derive ------------------------------
(***************************************************************************)
(* The formulas of the derived layer (mvp20/derive.py): what each derived  *)
(* data point is computed from and how.  A formula takes u, the usable     *)
(* payloads of one stock, a function from data points to payloads, and     *)
(* returns <<payload>>, or <<>> where the code returns None.               *)
(*                                                                         *)
(* Units.  Scores, multipliers, percentiles and price changes (d20_pct,    *)
(* d60_pct) are thousandths, rates and the PMI tenths of a percent,        *)
(* everything else (percent values, counts, amounts in 10,000 yuan) plain  *)
(* integers.  The lists of drivers and rationales are left out.            *)
(*                                                                         *)
(* The second half has the two derive commands over the hot store: derive  *)
(* (Tier 0, derive_all) and derive-snapshot (DeriveRunner.run_all).  Each  *)
(* reads the store stock by stock and computes; at the end one upsert      *)
(* writes everything, every row with a commit of its own.  The collector   *)
(* and readers come in between, and a command may be killed at any time.   *)
(* A row is [status, value, conf].  Owners are the stocks and the          *)
(* MARKET: and INDUSTRY: sentinels whose rows a stock's snapshot includes. *)
(***************************************************************************)
EXTENDS Fixed

CONSTANTS
    Codes,      \* the stocks, in the order both commands walk through them
    Lookup,     \* Lookup[c]: the owners of a snapshot, the nearest first
    Feed,       \* the rows the collector may write: [owner, dp, row]
    Histories,  \* what the price history service may answer
    Neutral,    \* Neutral[dp]: the neutral value of the governance file
    Initial,    \* the store at the start: Initial[owner][dp]
    Stops       \* bound: the points behind whose row another process may come
                \* in while an upsert is under way (every point in the code)

VARIABLES
    rows,       \* realtime_current: rows[owner][dp]
    runner,     \* a derive-snapshot run: the stocks left to compute, the rows to write
    tier0,      \* a derive run, in the same form
    quiet,      \* completed derive-snapshot runs since the inputs changed
    torn        \* the stocks that have one run's scores or mode, another's signal

\* The payload of a data point; an empty dict where there is none.
Of(u, dp) == IF dp \in DOMAIN u THEN u[dp] ELSE NoFields

\* any(x for x in inputs): None and an empty dict are both false.
Filled(u, dp) == DOMAIN Of(u, dp) # {}
AnyOf(u, dps) == \E d \in dps : Filled(u, d)

\* What a formula returns when one of its inputs is there, None otherwise.
IfAny(u, dps, payload) == IF AnyOf(u, dps) THEN <<payload>> ELSE <<>>

-----------------------------------------------------------------------------
(* Tier 0: multi-day windows of prices, turnover and multiples.            *)

\* Newest price first; a window that is longer than the history, or that
\* starts at a zero price, is missing from the payload.
RunUp(close) ==
    LET there == {w \in {5, 20, 60} : Len(close) > w /\ close[w + 1] # 0}
        name(w) == IF w = 5 THEN "d5_pct" ELSE IF w = 20 THEN "d20_pct" ELSE "d60_pct"
        change(w) == ((close[1] - close[w + 1]) * One) \div close[w + 1]
    IN  IF Len(close) < 6 THEN <<>>
        ELSE <<[f \in {name(w) : w \in there} \cup {"latest_close"} |->
                   IF f = "latest_close" THEN close[1]
                   ELSE change(CHOOSE w \in there : name(w) = f)]>>

\* The share of the history that lies strictly below the current value.
PercentileRank(current, history) ==
    (Cardinality({i \in DOMAIN history : history[i] < current}) * One) \div Len(history)

Crowdedness(rate, history) ==
    IF rate = <<>> \/ history = <<>> THEN <<>>
    ELSE LET pct == PercentileRank(rate[1], history)
         IN  <<[percentile |-> pct,
                label |-> Band(pct, <<900, 750, 500>>,
                               <<"extreme", "crowded", "elevated", "neutral">>)]>>

\* Percentiles among the positive multiples only; None (absent here) for a
\* multiple whose history has no positive entry.
HistoricalQuantile(pe, peHistory, pb, pbHistory) ==
    LET positive(h) == SelectSeq(h, LAMBDA x : x > 0)
        pair == [pe_percentile |-> <<pe, peHistory>>, pb_percentile |-> <<pb, pbHistory>>]
        asked == {f \in DOMAIN pair : pair[f][1] # <<>> /\ pair[f][2] # <<>>}
        set == {f \in asked : positive(pair[f][2]) # <<>>}
    IN  IF asked = {} THEN <<>>
        ELSE <<[f \in set \cup {"history_window_days"} |->
                   IF f \in set THEN PercentileRank(pair[f][1][1], positive(pair[f][2]))
                   ELSE Greatest({Len(peHistory), Len(pbHistory)})]>>

Overvalued(quantile) ==
    LET pcts == {quantile[f] : f \in DOMAIN quantile \cap {"pe_percentile", "pb_percentile"}}
    IN  IF pcts = {} THEN <<>>
        ELSE <<[max_percentile |-> Greatest(pcts),
                severity |-> Band(Greatest(pcts), <<950, 800, 600>>,
                                  <<"extreme", "high", "elevated", "normal">>)]>>

-----------------------------------------------------------------------------
(* Tiers 1 and 2: mood, industry balance, valuation path.                  *)

RiskAppetite(u) ==
    LET trend == Of(u, "L7.env.market_trend")
        regime == Get(trend, "regime", "none")
        regimeFactor == IF regime = "bull" THEN 1150 ELSE IF regime = "bear" THEN 850 ELSE One
        trendFactor == One + Clip(Get(trend, "scalar", 0), -300, 300) \div 4
        style == One + Clip(GetOr(Of(u, "L7.env.style"), <<"growth_minus_value", "scalar">>, 0),
                            -300, 300) \div 10
        m2 == Get(Of(u, "L9.macro.liquidity"), "m2_yoy_pct", 8)
        lpr == Get(Of(u, "L9.macro.rates"), "lpr_1y_pct", 30)
        raw == Times(Times(Times(Times(regimeFactor, trendFactor), style),
                           One + Clip(10 * (m2 - 8), -100, 100)),
                     One - Clip(10 * (lpr - 30), -100, 100))
        multiplier == Clip(raw, 700, 1300)
    IN  IfAny(u, {"L7.env.market_trend", "L7.env.style", "L9.macro.liquidity",
                  "L9.macro.rates"},
              [multiplier |-> multiplier,
               label |-> IF multiplier > 1080 THEN "risk_on"
                         ELSE IF multiplier < 920 THEN "risk_off" ELSE "neutral"])

Fomo(u) ==
    LET media == Of(u, "L7.mood.media_social")
        net == Get(Of(u, "L7.flow.active_inflow"), "main_net", 0)
        concepts == Get(Of(u, "L7.mood.theme"), "concept_count", 0)
        score == (IF Get(media, "in_top_100", FALSE) THEN 250 ELSE 0)
                 + (IF Get(media, "concept_tag_count", 0) >= 10 THEN 150 ELSE 0)
                 + Band(net, <<50000, 10000>>, <<300, 150, 0>>)
                 + Band(concepts, <<9, 4>>, <<200, 100, 0>>)
    IN  IfAny(u, {"L7.mood.media_social", "L7.flow.active_inflow", "L7.mood.theme"},
              [score |-> Clip(score, 0, One),
               label |-> Band(score, <<700, 400, 150>>,
                              <<"extreme", "elevated", "moderate", "calm">>)])

\* A mirror of another data point.
ExpansionCompression(u) ==
    IF "L6.state.expansion_compression" \in DOMAIN u
    THEN <<u["L6.state.expansion_compression"]>> ELSE <<>>

DemandSupply(u) ==
    LET demand == Of(u, "L0.demand.terminal")
        cycle == Of(u, "L0.demand.replacement")
        capacity == GetOr(Of(u, "L0.supply.capacity"), <<"utilization_pct", "scalar">>, 75)
        days == GetOr(Of(u, "L0.supply.inventory"), <<"days_on_hand", "scalar">>, 60)
        demandScore == Clip(50 * GetOr(demand, <<"growth_pct", "scalar">>, 0), -One, One)
                       + Clip(GetOr(cycle, <<"cycle_position", "scalar">>, 0), -One, One) \div 2
        supplyScore == (IF "L0.supply.capacity" \in DOMAIN u
                        THEN Clip(50 * (85 - capacity), -One, One) ELSE 0)
                       + Clip(((days - 60) * One) \div 60, -500, 500)
        imbalance == Clip(supplyScore - demandScore, -One, One)
    IN  IfAny(u, {"L0.demand.terminal", "L0.supply.capacity", "L0.supply.inventory",
                  "L0.demand.replacement"},
              [score |-> imbalance,
               severity |-> Band(imbalance, <<600, 300, -301, -600>>,
                                 <<"severe_glut", "soft_demand", "balanced", "tight_supply",
                                   "strong_demand">>)])

\* Without a payload of the pricing power the code adds nothing; with one that
\* has no scalar it takes 0.5.
PriceWar(u) ==
    LET discount == GetOr(Of(u, "L0.price.discount"), <<"discount_pct", "scalar">>, 0)
        war == GetOr(Of(u, "L0.compete.price_war"), <<"intensity", "scalar">>, 0)
        power == Get(Of(u, "L0.price.pricing_power"), "scalar", 500)
        score == Band(discount, <<10, 5>>, <<400, 200, 0>>)
                 + (Clip(war, 0, One) * 4) \div 10
                 + (IF "L0.price.pricing_power" \notin DOMAIN u THEN 0
                    ELSE IF power < 400 THEN 250 ELSE IF power < 600 THEN 100 ELSE 0)
    IN  IfAny(u, {"L0.price.discount", "L0.compete.price_war", "L0.price.pricing_power"},
              [score |-> Clip(score, 0, One),
               severity |-> Band(Clip(score, 0, One), <<700, 400, 150>>,
                                 <<"severe", "active", "muted", "none">>)])

\* How much of the good news the price already holds.  The registry puts this
\* formula before the one of L11.short.score, which it reads.
PricedIn(u) ==
    LET severity == Get(Of(u, "L8.val.overvalued"), "severity", "none")
        score == Band(Get(Of(u, "L6.priced.run_up"), "d60_pct", 0), <<300, 150>>,
                      <<400, 200, 0>>)
                 + (IF severity \in {"extreme", "high"} THEN 350
                    ELSE IF severity = "elevated" THEN 150 ELSE 0)
                 + (IF Get(Of(u, "L11.short.score"), "score", 0) > 400 THEN 200 ELSE 0)
    IN  IfAny(u, {"L6.priced.run_up", "L11.short.score", "L8.val.overvalued"},
              [priced_in_score |-> Clip(score, 0, One),
               label |-> Band(Clip(score, 0, One), <<699, 399, 199>>,
                              <<"fully_priced_in", "priced_in", "partial", "fresh">>)])

\* The tag of the source where it has one, else the band of the percentile.
PathTag(u) ==
    LET state == Of(u, "L6.state.expansion_compression")
        pct == Get(Of(u, "L6.state.historical_percentile"), "pe_percentile",
                   Get(Of(u, "L10.val.historical_quantile"), "pe_percentile", -One))
    IN  IfAny(u, {"L6.mult.pe", "L6.state.historical_percentile",
                  "L10.val.historical_quantile", "L6.state.expansion_compression"},
              [label |-> IF "path_tag" \in DOMAIN state THEN state.path_tag
                         ELSE IF pct < 0 THEN "flat"
                         ELSE IF pct > 750 THEN "expansion"
                         ELSE IF pct < 250 THEN "repair"
                         ELSE IF pct < 400 THEN "compression" ELSE "flat"])

\* In hundred-thousandths per day.
SecondDerivative(u) ==
    LET run == Of(u, "L6.priced.run_up")
        bend == (Get(run, "d20_pct", 0) * 100) \div 20 - (Get(run, "d60_pct", 0) * 100) \div 60
    IN  IF DOMAIN run \cap {"d20_pct", "d60_pct"} = {} THEN <<>>
        ELSE <<[second_derivative |-> bend,
                label |-> IF bend > 200 THEN "accelerating"
                          ELSE IF bend < -200 THEN "decelerating" ELSE "stable"]>>

-----------------------------------------------------------------------------
(* Sensitivity multipliers.                                                *)

\* One input's factor: 1 + clip((v - neutral) / neutral, -0.5, 0.5) * 0.5.
SensFactor(u, dp, neutral) ==
    LET v == GetOr(Of(u, dp), <<"scalar", "value", "score">>, neutral)
    IN  One + Clip(((v - neutral) * One) \div neutral, -500, 500) \div 2

GrowthMargin(u) ==
    IfAny(u, {"L5.fina.gross_margin", "L5.fina.revenue_yoy"},
          [multiplier |-> Clip(Times(SensFactor(u, "L5.fina.gross_margin", 25),
                                     SensFactor(u, "L5.fina.revenue_yoy", 10)), 500, 1500)])

Cashflow(u) ==
    LET quality == Get(Of(u, "L5.fina.ocf_quality"), "value", 50)
        fcf == Get(Of(u, "L5.cf.fcf"), "scalar", 0)
        factor == Times(One + Clip(10 * (quality - 50), -200, 200),
                        IF fcf > 0 THEN 1050 ELSE IF fcf < 0 THEN 950 ELSE One)
    IN  IF {"L5.fina.ocf_quality", "L5.cf.fcf"} \cap DOMAIN u = {} THEN <<>>
        ELSE <<[multiplier |-> Clip(factor, 500, 1500)]>>

\* env_rates or macro_rates: an empty first payload falls through to the second.
Rates(u) ==
    LET rates == IF Filled(u, "L7.env.rates") THEN Of(u, "L7.env.rates")
                 ELSE Of(u, "L9.macro.rates")
    IN  IF ~Filled(u, "L7.env.rates") /\ "L9.macro.rates" \notin DOMAIN u THEN <<>>
        ELSE <<[multiplier |-> One - Clip(10 * (Get(rates, "lpr_1y_pct", 30) - 30), -200, 200)]>>

RiskNarrative(u) ==
    LET reports == Get(Of(u, "L9.media.report"), "count_24h", 0)
        news == GetOr(Of(u, "L9.event.intraday_news"), <<"count_24h", "count_recent">>, 0)
        buys == Get(Of(u, "L5.surprise.sell_side"), "buys", 0)
        sells == Get(Of(u, "L5.surprise.sell_side"), "sells", 0)
        factor == Times(Times(IF reports > 5 THEN 950 ELSE One, IF news > 10 THEN 950 ELSE One),
                        IF buys > sells * 3 /\ buys > 5 THEN 1100
                        ELSE IF sells > buys THEN 900 ELSE One)
    IN  IfAny(u, {"L9.media.report", "L9.event.intraday_news", "L5.surprise.sell_side"},
              [multiplier |-> Clip(factor, 500, 1500)])

-----------------------------------------------------------------------------
(* Tiers 3 and 4: the composite scores, the mode and the trade signal.     *)

\* The weighted mean of the parts that are there: the sum over all of them,
\* scaled up by the weight of the non-empty ones when it is not the whole.
Weighted(u, weight, part(_)) ==
    LET there == {d \in DOMAIN weight : d \in DOMAIN u}
        full == SumOver({d \in DOMAIN weight : Filled(u, d)}, weight)
        sum == SumOver(there, [d \in there |-> part(d) * weight[d]])
    IN  Clip(IF full \in 1 .. (One - 1) THEN sum \div full ELSE sum \div One, -One, One)

Composite(u, weight, part(_)) ==
    LET score == Weighted(u, weight, part)
    IN  IfAny(u, DOMAIN weight,
              [score |-> score,
               label |-> IF score > 300 THEN "bullish"
                         ELSE IF score < -300 THEN "bearish" ELSE "neutral"])

ShortWeights == [d \in {"L11.short.event_impact", "L11.short.flow_boost",
                        "L11.short.sentiment_shift", "L11.short.technical"} |->
                    IF d \in {"L11.short.event_impact", "L11.short.flow_boost"} THEN 300 ELSE 200]

ShortScore(u) ==
    LET part(d) == Get(u[d], "score", 0) IN Composite(u, ShortWeights, part)

MidWeights == [d \in {"L11.mid.orders_revenue", "L11.mid.margin_guidance",
                      "L11.mid.eps_upward"} |->
                  IF d = "L11.mid.orders_revenue" THEN 400 ELSE 300]

\* A zero score of the orders or the EPS is replaced by one from their growth.
MidScore(u) ==
    LET guided(p) == Get(p, "change_pct_min", 0) + Get(p, "change_pct_max", 0)
        part(d) ==
            IF Get(u[d], "score", 0) # 0 THEN u[d].score
            ELSE IF d = "L11.mid.orders_revenue"
            THEN Clip(20 * Get(u[d], "yoy_pct", 0), -One, One)
            ELSE IF d = "L11.mid.eps_upward" THEN Clip(5 * guided(u[d]), -One, One) ELSE 0
    IN  Composite(u, MidWeights, part)

LongWeights == [d \in {"L11.long.industry_space", "L11.long.compete_moat",
                       "L11.long.business_model", "L11.long.margin"} |->
                   IF d = "L11.long.industry_space" THEN 250
                   ELSE IF d = "L11.long.compete_moat" THEN 350 ELSE 200]

LongScore(u) ==
    LET part(d) == GetOr(u[d], <<"score", "scalar">>, 0) IN Composite(u, LongWeights, part)

ScoreOf(u, dp) == Get(Of(u, dp), "score", 0)

\* The first mode whose rule holds; its confidence is the least one its input
\* payloads carry, 0.5 for a payload without one.
Mode(u) ==
    LET inputs == {"L11.short.score", "L11.mid.score", "L11.long.score",
                   "L8.val.overvalued", "L7.flow.active_inflow"}
        short == ScoreOf(u, "L11.short.score")
        mid == ScoreOf(u, "L11.mid.score")
        long == ScoreOf(u, "L11.long.score")
        severity == Get(Of(u, "L8.val.overvalued"), "severity", "none")
        pressure == IF severity = "extreme" THEN 950 ELSE IF severity = "high" THEN 800
                    ELSE IF severity = "elevated" THEN 600
                    ELSE IF severity = "normal" THEN 200 ELSE 0
        flow == Clip(Get(Of(u, "L7.flow.active_inflow"), "main_net", 0) \div 100, -One, One)
        rules == <<
            [mode |-> "trend_reversal", holds |-> long <= -300 /\ mid <= -200 /\ flow <= -200],
            [mode |-> "de_rating", holds |-> pressure >= 600 /\ flow <= -200 /\ mid < 200],
            [mode |-> "strong_bull",
             holds |-> long >= 400 /\ mid >= 200 /\ pressure < 600 /\ flow >= 200],
            [mode |-> "structural_divergence", holds |-> long >= 200 /\ short < 200],
            [mode |-> "digestion",
             holds |-> short < 300 /\ Magnitude(mid) < 200 /\ Magnitude(flow) < 300],
            [mode |-> "moderate_bull",
             holds |-> long >= 200 /\ mid >= 0 /\ pressure < 800 /\ flow >= 0],
            [mode |-> "trend_reversal", holds |-> (short + mid + long) \div 3 <= -200],
            [mode |-> "wait_for_confirmation", holds |-> TRUE]>>
        conf == {Get(u[d], "confidence", 500) : d \in inputs \cap DOMAIN u}
    IN  IfAny(u, {"L11.short.score", "L11.mid.score", "L11.long.score"},
              [mode |-> rules[Least({i \in DOMAIN rules : rules[i].holds})].mode,
               confidence |-> IF conf = {} THEN 500 ELSE Least(conf)])

TradeSignal(u) ==
    LET mix == Times(ScoreOf(u, "L11.short.score"), 250)
               + Times(ScoreOf(u, "L11.mid.score"), 450)
               + Times(ScoreOf(u, "L11.long.score"), 300)
        mode == Get(Of(u, "L11.mode"), "mode", "none")
    IN  IfAny(u, {"L11.short.score", "L11.mid.score", "L11.long.score"},
              [signal |-> IF mode \in {"trend_reversal", "de_rating"} THEN "AVOID"
                          ELSE IF mode = "wait_for_confirmation" THEN "WATCH"
                          ELSE Band(mix, <<449, 99, -201>>,
                                    <<"BUY", "HOLD", "WATCH", "AVOID">>),
               mode_label |-> mode])

-----------------------------------------------------------------------------
(* The sub-scores of L11, computed before the formulas from the hard data. *)

\* _bootstrap_l11_subscores: every sub-score is always there; what has no data
\* is scored from the defaults of the lookups.
Value(u, dp, default) == Get(Of(u, dp), "value", default)
EventImpact(u) ==
    LET events == Get(Of(u, "L9.event.intraday_news"), "count_24h", 0)
                  + Get(Of(u, "L9.event.intraday_announcement"), "count_recent", 0)
    IN  Clip(25 * events - 250, -500, 800)
FlowBoost(u) ==
    Clip(Get(Of(u, "L7.flow.active_inflow"), "main_net", 0) \div 100
         + Get(Of(u, "L7.flow.block_trade"), "total_amount", 0) \div 50, -One, One)
SentimentShift(u) ==
    (IF Get(Of(u, "L7.mood.media_social"), "in_top_100", FALSE) THEN 300 ELSE 0)
    + (IF Get(Of(u, "L9.media.social_buzz"), "in_xq_top_buzz", FALSE) THEN 200 ELSE 0)
Technical(u) ==
    LET crowd == Get(Of(u, "L6.priced.crowdedness"), "percentile", 0)
    IN  Clip(Get(Of(u, "L6.priced.run_up"), "d20_pct", 0) - ((crowd - 500) * 3) \div 10, -One, One)
MarginGuidance(u) == Clip(40 * (Value(u, "L5.fina.gross_margin", 25) - 25), -One, One)
EpsUpward(u) ==
    LET guided == Of(u, "L9.company.earnings_guidance")
    IN  Clip(5 * (Get(guided, "change_pct_min", 0) + Get(guided, "change_pct_max", 0)), -One, One)
IndustrySpace(u) == Clip(20 * (Get(Of(u, "L10.industry.pmi"), "manufacturing_pmi", 500) - 500), -One, One)
CompeteMoat(u) ==
    LET margin == Value(u, "L5.fina.gross_margin", 25)
    IN  Clip(((margin - 30) * One) \div 30 + 50 * (Value(u, "L5.fina.roe", 0) - 10), -One, One) \div 2
BootstrapSubscores(u) ==
    LET yoy == Value(u, "L5.fina.revenue_yoy", 0) IN
    [d \in DOMAIN ShortWeights \cup DOMAIN MidWeights \cup DOMAIN LongWeights |->
        CASE d = "L11.short.event_impact"    -> [score |-> EventImpact(u)]
          [] d = "L11.short.flow_boost"      -> [score |-> FlowBoost(u)]
          [] d = "L11.short.sentiment_shift" -> [score |-> SentimentShift(u)]
          [] d = "L11.short.technical"       -> [score |-> Technical(u)]
          [] d = "L11.mid.orders_revenue"    -> [score |-> Clip(20 * yoy, -One, One), yoy_pct |-> yoy]
          [] d = "L11.mid.margin_guidance"   -> [score |-> MarginGuidance(u)]
          [] d = "L11.mid.eps_upward"        -> [score |-> EpsUpward(u)]
          [] d = "L11.long.industry_space"   -> [score |-> IndustrySpace(u)]
          [] d = "L11.long.compete_moat"     -> [score |-> CompeteMoat(u)]
          [] d = "L11.long.business_model" ->
                 [score |-> Clip(10 * (Value(u, "L5.fina.ocf_quality", 0) - 50), -One, One)]
          [] d = "L11.long.margin" ->
                 [score |-> Clip(50 * (Value(u, "L5.fina.net_margin", 0) - 10), -One, One)]]

-----------------------------------------------------------------------------
(* The commands over the store.                                            *)

dvars == <<rows, runner, tier0, quiet, torn>>

\* batch has the computed stocks that are not written yet, at counts the rows of
\* the first one that are.  clean: no input has changed since the run began.
NoCommand == [on |-> FALSE, left |-> <<>>, batch |-> <<>>, at |-> 0, clean |-> TRUE]

-----------------------------------------------------------------------------
\* read_hot_snapshot: per data point the row of the nearest owner.
Snapshot(store, c) ==
    LET has(dp) == {i \in DOMAIN Lookup[c] : dp \in DOMAIN store[Lookup[c][i]]}
        dps == UNION {DOMAIN store[Lookup[c][i]] : i \in DOMAIN Lookup[c]}
    IN  [dp \in dps |-> store[Lookup[c][Least(has(dp))]][dp]]

Usable(snap) ==
    {dp \in DOMAIN snap : snap[dp].status \notin {"Unknown", "Unavailable", "Inactive"}}

\* The order of the formulas and what each one reads.
Registry == <<
    [out |-> "L7.env.risk_appetite", in |-> {"L7.env.market_trend", "L7.env.style",
        "L9.macro.liquidity", "L9.macro.rates"}],
    [out |-> "L7.mood.fomo", in |-> {"L7.mood.media_social", "L7.flow.active_inflow",
        "L7.mood.theme"}],
    [out |-> "L10.val.expansion_compression", in |-> {"L6.state.expansion_compression"}],
    [out |-> "L8.industry.demand_supply", in |-> {"L0.demand.terminal", "L0.supply.capacity",
        "L0.supply.inventory", "L0.demand.replacement"}],
    [out |-> "L8.industry.price_war", in |-> {"L0.price.discount", "L0.compete.price_war",
        "L0.price.pricing_power"}],
    [out |-> "L8.val.priced_in", in |-> {"L6.priced.run_up", "L11.short.score",
        "L8.val.overvalued"}],
    [out |-> "L6.path.tag", in |-> {"L6.mult.pe", "L6.state.historical_percentile",
        "L10.val.historical_quantile", "L6.state.expansion_compression"}],
    [out |-> "L6.path.second_derivative", in |-> {"L6.state.historical_percentile",
        "L6.priced.run_up"}],
    [out |-> "L6.sens.growth_margin", in |-> {"L5.fina.gross_margin", "L5.fina.revenue_yoy"}],
    [out |-> "L6.sens.cashflow", in |-> {"L5.fina.ocf_quality", "L5.cf.fcf"}],
    [out |-> "L6.sens.rates", in |-> {"L7.env.rates", "L9.macro.rates"}],
    [out |-> "L6.sens.risk_narrative", in |-> {"L9.media.report", "L9.event.intraday_news",
        "L5.surprise.sell_side"}],
    [out |-> "L11.short.score", in |-> DOMAIN ShortWeights],
    [out |-> "L11.mid.score", in |-> DOMAIN MidWeights],
    [out |-> "L11.long.score", in |-> DOMAIN LongWeights],
    [out |-> "L11.mode", in |-> {"L11.short.score", "L11.mid.score", "L11.long.score",
        "L8.val.overvalued", "L7.flow.active_inflow"}],
    [out |-> "L11.trade.signal", in |-> {"L11.short.score", "L11.mid.score",
        "L11.long.score", "L11.mode"}]>>

\* What the formulas emit, and with the sub-scores all that derive-snapshot writes.
Outs == {Registry[i].out : i \in DOMAIN Registry}
Derived == Outs \cup DOMAIN ShortWeights \cup DOMAIN MidWeights \cup DOMAIN LongWeights

(* A stock is its own nearest owner; the collector writes what the sources  *)
(* answer, and no source knows what a formula emits (one writes a sub-score *)
(* of its own, UsRows.ShortTechnical).                                      *)
ASSUME DeriveAssumption ==
    /\ Codes \in Seq(DOMAIN Initial)
    /\ \A i \in DOMAIN Codes :
          /\ Lookup[Codes[i]] \in Seq(DOMAIN Initial) /\ Len(Lookup[Codes[i]]) > 0
          /\ Lookup[Codes[i]][1] = Codes[i]
    /\ \A w \in Feed : w.owner \in DOMAIN Initial /\ w.dp \notin Outs
    /\ \A o \in DOMAIN Initial : DOMAIN Initial[o] \cap Outs = {}

Formula(dp, u) ==
    CASE dp = "L7.env.risk_appetite" -> RiskAppetite(u)
      [] dp = "L7.mood.fomo" -> Fomo(u)
      [] dp = "L10.val.expansion_compression" -> ExpansionCompression(u)
      [] dp = "L8.industry.demand_supply" -> DemandSupply(u)
      [] dp = "L8.industry.price_war" -> PriceWar(u)
      [] dp = "L8.val.priced_in" -> PricedIn(u)
      [] dp = "L6.path.tag" -> PathTag(u)
      [] dp = "L6.path.second_derivative" -> SecondDerivative(u)
      [] dp = "L6.sens.growth_margin" -> GrowthMargin(u)
      [] dp = "L6.sens.cashflow" -> Cashflow(u)
      [] dp = "L6.sens.rates" -> Rates(u)
      [] dp = "L6.sens.risk_narrative" -> RiskNarrative(u)
      [] dp = "L11.short.score" -> ShortScore(u)
      [] dp = "L11.mid.score" -> MidScore(u)
      [] dp = "L11.long.score" -> LongScore(u)
      [] dp = "L11.mode" -> Mode(u)
      [] dp = "L11.trade.signal" -> TradeSignal(u)

\* Mutant of Seen: the row of the snapshot hides what this run emitted.
SeenStale(usable, emitted, dp) ==
    IF dp \in DOMAIN usable THEN usable[dp] ELSE emitted[dp]

\* What a formula sees of a data point: what an earlier formula of this run
\* emitted, else the row of the snapshot.  base is the confidence the next
\* formula takes over: the undecayed one for an emitted point.
Seen(usable, emitted, dp) ==
    IF dp \in DOMAIN emitted THEN emitted[dp] ELSE usable[dp]

\* The inputs of a formula that are there.
Visible(usable, emitted, f) ==
    [dp \in f.in \cap (DOMAIN usable \cup DOMAIN emitted) |-> Seen(usable, emitted, dp)]

\* One formula of the loop.  A formula without a result leaves the neutral
\* value, marked inactive; a result keeps its own confidence if it has one,
\* else gets the least one of its inputs less a tenth.
Entry(f, seen, result) ==
    LET base == IF DOMAIN seen = {} THEN 500 ELSE Least({seen[dp].base : dp \in DOMAIN seen})
        conf == Clip((base * 9) \div 10, 0, One)
        value == With(result[1], "confidence", Get(result[1], "confidence", conf))
    IN  IF result = <<>>
        THEN [status |-> "Inactive", value |-> [value |-> Neutral[f.out]], conf |-> 500,
              base |-> 500]
        ELSE [status |-> "Known", value |-> value, conf |-> value.confidence, base |-> base]
Outcome(f, seen) == Entry(f, seen, Formula(f.out, [dp \in DOMAIN seen |-> seen[dp].value]))
Step(usable, emitted, f) == Outcome(f, Visible(usable, emitted, f))
Extended(usable, emitted, f) == With(emitted, f.out, Step(usable, emitted, f))

\* What the formulas may read of a snapshot.  The sub-scores of L11 replace
\* whatever the snapshot holds for them.
Subscores(snap) == BootstrapSubscores([dp \in Usable(snap) |-> snap[dp].value])
Inputs(snap) ==
    LET sub == Subscores(snap)
    IN  [dp \in Usable(snap) \cup DOMAIN sub |->
            IF dp \in DOMAIN sub THEN [value |-> sub[dp], base |-> 500]
            ELSE [value |-> snap[dp].value, base |-> snap[dp].conf]]

\* The loop over the registry: what its first n formulas have emitted.
Emitted(usable, n) ==
    LET upTo[k \in 0..n] ==
            IF k = 0 THEN NoFields ELSE Extended(usable, upTo[k - 1], Registry[k])
    IN  upTo[n]

\* _run_one: the rows of one stock.  The sub-scores are always written as Known.
RowsOf(sub, emitted) ==
    LET row(e) == [status |-> e.status, value |-> e.value, conf |-> e.conf]
    IN  [dp \in DOMAIN sub \cup DOMAIN emitted |->
            IF dp \in DOMAIN sub THEN [status |-> "Known", value |-> sub[dp], conf |-> 500]
            ELSE row(emitted[dp])]
RunOne(snap) == RowsOf(Subscores(snap), Emitted(Inputs(snap), Len(Registry)))

\* derive_all's rows of one stock: only what has a result, always Known.
TierZero(c, h) ==
    LET value(dp) == Of([d \in DOMAIN rows[c] |-> rows[c][d].value], dp)
        field(dp, f) == IF f \in DOMAIN value(dp) THEN <<value(dp)[f]>> ELSE <<>>
        quantile == HistoricalQuantile(field("L6.mult.pe", "scalar"), h.pe,
                                       field("L6.mult.pb", "scalar"), h.pb)
        out == [dp \in {"L6.priced.run_up", "L6.priced.crowdedness",
                        "L10.val.historical_quantile", "L8.val.overvalued"} |->
                   CASE dp = "L6.priced.run_up" -> RunUp(h.close)
                     [] dp = "L6.priced.crowdedness" ->
                            Crowdedness(field("L7.trade.volume_turnover", "turnover_rate_pct"),
                                        h.turnover)
                     [] dp = "L10.val.historical_quantile" -> quantile
                     [] dp = "L8.val.overvalued" ->
                            Overvalued(IF quantile = <<>> THEN NoFields ELSE quantile[1])]
    IN  [dp \in {d \in DOMAIN out : out[d] # <<>>} |->
            [status |-> "Known", value |-> out[dp][1], conf |-> 600]]

-----------------------------------------------------------------------------
DeriveInit ==
    /\ rows = Initial
    /\ runner = NoCommand
    /\ tier0 = NoCommand
    /\ quiet = 0
    /\ torn = {}

\* The order in which the rows of a stock are written.
SubOrder ==
    <<"L11.short.event_impact", "L11.short.flow_boost", "L11.short.sentiment_shift",
      "L11.short.technical", "L11.mid.orders_revenue", "L11.mid.margin_guidance",
      "L11.mid.eps_upward", "L11.long.industry_space", "L11.long.compete_moat",
      "L11.long.business_model", "L11.long.margin">>
RunOrder == SubOrder \o [i \in DOMAIN Registry |-> Registry[i].out]
TierZeroOrder ==
    <<"L6.priced.run_up", "L6.priced.crowdedness", "L10.val.historical_quantile",
      "L8.val.overvalued">>

\* A run with the rows of one stock more.
Load(job, entry) == [job EXCEPT !.left = Tail(@), !.batch = Append(@, entry)]

\* The run goes on to the n-th row of the first stock to be written.
WritesTo(job, order, n) ==
    /\ job.on /\ job.left = <<>> /\ job.batch # <<>>
    /\ n > job.at /\ (order[n] \in Stops \/ n = Len(order))

\* upsert_realtime: row by row, each one committed before the next.  The store
\* after the rows of the first stock up to the n-th.
Upsert(job, order, n) ==
    LET entry == Head(job.batch)
        now == {order[i] : i \in (job.at + 1) .. n} \cap DOMAIN entry.rows
    IN  [rows EXCEPT ![entry.owner] =
            [dp \in DOMAIN @ \cup now |-> IF dp \in now THEN entry.rows[dp] ELSE @[dp]]]
Written(job, order, n) ==
    IF n = Len(order) THEN [job EXCEPT !.batch = Tail(@), !.at = 0] ELSE [job EXCEPT !.at = n]

Dirty(job) == [job EXCEPT !.clean = FALSE]

\* The collector writes a row.
Collect(w) ==
    /\ ~(w.dp \in DOMAIN rows[w.owner] /\ rows[w.owner][w.dp] = w.row)
    /\ rows' = [rows EXCEPT ![w.owner] = With(@, w.dp, w.row)]
    /\ runner' = Dirty(runner)
    /\ quiet' = 0
    /\ UNCHANGED <<tier0, torn>>

StartRunner ==
    /\ ~runner.on
    /\ runner' = [NoCommand EXCEPT !.on = TRUE, !.left = Codes]
    /\ UNCHANGED <<rows, tier0, quiet, torn>>

RunnerLoads ==
    /\ runner.on /\ runner.left # <<>>
    /\ LET c == Head(runner.left)
       IN  runner' = Load(runner, [owner |-> c, rows |-> RunOne(Snapshot(rows, c))])
    /\ UNCHANGED <<rows, tier0, quiet, torn>>

\* The points a reader combines, and those of them among the first n rows.
SignalPoints == {"L11.short.score", "L11.mid.score", "L11.long.score", "L11.mode", "L11.trade.signal"}
Shown(n) == SignalPoints \cap {RunOrder[i] : i \in 1..n}

RunnerWrites(n) ==
    /\ WritesTo(runner, RunOrder, n)
    /\ rows' = Upsert(runner, RunOrder, n)
    /\ runner' = Written(runner, RunOrder, n)
    /\ torn' = IF Shown(n) = {} THEN torn
               ELSE IF Shown(n) = SignalPoints THEN torn \ {Head(runner.batch).owner}
               ELSE torn \cup {Head(runner.batch).owner}
    /\ UNCHANGED <<tier0, quiet>>

RunnerEnds ==
    /\ runner.on /\ runner.left = <<>> /\ runner.batch = <<>>
    /\ runner' = NoCommand
    /\ quiet' = IF ~runner.clean THEN 0 ELSE IF quiet = 2 THEN 2 ELSE quiet + 1
    /\ UNCHANGED <<rows, tier0, torn>>

\* Killed: what is written stays.
RunnerDies ==
    /\ runner.on
    /\ runner' = NoCommand
    /\ UNCHANGED <<rows, tier0, quiet, torn>>

StartTierZero ==
    /\ ~tier0.on
    /\ tier0' = [NoCommand EXCEPT !.on = TRUE, !.left = Codes]
    /\ UNCHANGED <<rows, runner, quiet, torn>>

\* The service answers with a history, or with nothing when it fails.
TierZeroLoads(h) ==
    /\ tier0.on /\ tier0.left # <<>>
    /\ LET c == Head(tier0.left)
       IN  tier0' = Load(tier0, [owner |-> c, rows |-> TierZero(c, h)])
    /\ UNCHANGED <<rows, runner, quiet, torn>>

TierZeroWrites(n) ==
    /\ WritesTo(tier0, TierZeroOrder, n)
    /\ rows' = Upsert(tier0, TierZeroOrder, n)
    /\ tier0' = Written(tier0, TierZeroOrder, n)
    /\ runner' = Dirty(runner)
    /\ quiet' = 0
    /\ UNCHANGED torn

\* All is written, or the command is killed.
TierZeroEnds ==
    /\ tier0.on
    /\ tier0' = NoCommand
    /\ UNCHANGED <<rows, runner, quiet, torn>>

DeriveNext ==
    \/ \E w \in Feed : Collect(w)
    \/ StartRunner \/ RunnerLoads
    \/ (\E n \in DOMAIN RunOrder : RunnerWrites(n)) \/ RunnerEnds \/ RunnerDies
    \/ StartTierZero \/ (\E h \in Histories : TierZeroLoads(h))
    \/ (\E n \in DOMAIN TierZeroOrder : TierZeroWrites(n)) \/ TierZeroEnds

DeriveSpec == DeriveInit /\ [][DeriveNext]_dvars

-----------------------------------------------------------------------------
(* The priced-in formula reads the short score the previous run left, so    *)
(* one run over new inputs does not settle the store.  Two do: after two    *)
(* complete runs over unchanged inputs, a third run of any stock would      *)
(* write exactly what the store holds, Inactive rows of vanished inputs     *)
(* included; runs that are under way or were killed anywhere since change   *)
(* nothing of that.                                                         *)
TwoRunsSettle ==
    quiet = 2 =>
        \A i \in DOMAIN Codes :
            LET c == Codes[i]
                again == RunOne(Snapshot(rows, c))
            IN  \A dp \in DOMAIN again : dp \in DOMAIN rows[c] /\ rows[c][dp] = again[dp]

(* The mode and the trade signal a reader finds in the store come from one  *)
(* run and from the scores beside them: the signal is the one the stored    *)
(* mode and the stored scores give, whatever the collector and the other    *)
(* command write in between, and so never BUY or HOLD in a trend reversal   *)
(* or a de-rating.  The one exception is a stock whose upsert has written   *)
(* some of the scores or the mode and not yet the signal, or was killed     *)
(* there: it lasts until a run, whichever, has written the signal.          *)
SignalFollowsMode(table) ==
    LET stored == [dp \in DOMAIN table |-> table[dp].value]
        signal == stored["L11.trade.signal"]
    IN  "L11.trade.signal" \in DOMAIN stored =>
        /\ signal.mode_label = stored["L11.mode"].mode
        /\ signal.signal = TradeSignal(stored)[1].signal
        /\ stored["L11.mode"].mode \in {"trend_reversal", "de_rating"} => signal.signal = "AVOID"
StoredSignalFollowsStoredMode ==
    \A i \in DOMAIN Codes : Codes[i] \notin torn => SignalFollowsMode(rows[Codes[i]])
=============================================================================

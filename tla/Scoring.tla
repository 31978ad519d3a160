------------------------------ MODULE Scoring ------------------------------
(***************************************************************************)
(* Company scoring (mvp20/scoring.py) and the market adapter behind it     *)
(* (mvp20/market_adapter.py).  Input are an overlay, its aggregation (a    *)
(* function from node ids to results) and its coverage report.  A node     *)
(* adds to the fields of Aggregation: layer, share (revenue_share) and     *)
(* lever (the product of exposure, elasticity and sensitivities).          *)
(*                                                                         *)
(* Requests (mvp20/server.py handle_aggregate, handle_coverage,            *)
(* handle_score; mvp20/cli.py score-company, aggregate-graph) read the     *)
(* stock overlay, then the industry overlay, then answer; the files may be *)
(* rewritten in between.                                                   *)
(***************************************************************************)
EXTENDS Aggregation

-----------------------------------------------------------------------------
(* The role components: sums over the nodes that carry a score target.     *)

\* _role_participates, of the aggregated node.
RoleParticipates(n) == ScoreEnabled(n) /\ n.role \notin NonScoringRoles

SumRoleTargets(o, agg, targets, absolute) ==
    LET ids == {n.id : n \in {m \in Nodes(o) : m.target \in targets /\ RoleParticipates(m)}}
    IN  SumOver(ids, [i \in ids |->
            Times(IF absolute THEN Magnitude(agg[i].score) ELSE agg[i].score, agg[i].conf)])

\* 1 + clip(signal, -0.5, 1).
MultiplierFactor(o, agg, targets) ==
    One + Clip(SumRoleTargets(o, agg, targets, FALSE), -500, One)

\* The mean confidence of the confidence_multiplier nodes, each times its
\* coverage; one without any.
ConfidenceMultiplier(o, agg) ==
    LET ids == {n.id : n \in {m \in Nodes(o) : /\ m.target = "confidence_multiplier"
                                               /\ RoleParticipates(m)}}
    IN  IF ids = {} THEN One
        ELSE SumOver(ids, [i \in ids |-> Times(Clip(agg[i].conf, 0, One),
                                               Clip(agg[i].coverage, 0, One))])
             \div Cardinality(ids)

HasRoleGovernance(o) == \E n \in Nodes(o) : n.role # "" \/ n.target # ""

\* _role_components_from_flat; empty without governance.
RoleComponents(o, agg) ==
    LET sum(T) == SumRoleTargets(o, agg, T, FALSE)
        cost(T) == SumRoleTargets(o, agg, T, TRUE)
        factor(T) == MultiplierFactor(o, agg, T)
    IN  IF ~HasRoleGovernance(o) THEN NoFields
        ELSE [expectation_gap |-> sum({"expectation_gap"}),
              valuation_rerating |-> sum({"valuation_rerating"}),
              funding_score |-> sum({"funding_score"}),
              sentiment_score |-> sum({"sentiment_score"}),
              capital_sentiment |-> sum({"capital_sentiment", "funding_score",
                                         "sentiment_score"}),
              risk_discount |-> cost({"risk_discount", "uncertainty_discount",
                                      "volatility_risk", "overheat_risk"}),
              valuation_pressure |-> cost({"valuation_pressure"}),
              priced_in_discount |-> cost({"priced_in_discount", "option_priced_in",
                                           "time_decay"}),
              funding_multiplier |-> factor({"funding_multiplier"}),
              theme_multiplier |-> factor({"theme_multiplier"}),
              policy_sensitivity_multiplier |-> factor({"policy_sensitivity_multiplier"}),
              market_regime_multiplier |-> factor({"market_regime_multiplier"}),
              reflexivity_multiplier |-> factor({"reflexivity_multiplier"}),
              valuation_sensitivity_multiplier |->
                  factor({"valuation_sensitivity_multiplier", "rate_sensitivity_multiplier",
                          "narrative_sensitivity_multiplier"}),
              multiplier_stack |-> factor(MultiplierTargets),
              confidence_multiplier |-> ConfidenceMultiplier(o, agg)]

\* _industry_variables_from_flat: with governance by target and role, without
\* it by the layer of the node.
IndustryVariables(o, agg) ==
    {n \in Nodes(o) :
        IF HasRoleGovernance(o)
        THEN /\ RoleParticipates(n)
             /\ n.target \in {"fundamental_score", "base_score", "node_score", "parent_score",
                              "optionality_score"}
             /\ n.role \in {"score_component", "derived_metric", "gate", "aggregation"}
        ELSE n.layer \in {"industry", "company_position"}}

-----------------------------------------------------------------------------
(* Company score and final score.                                          *)

\* compute_company_score: its industry part.
IndustryContribution(o, agg) ==
    LET ids == {n.id : n \in IndustryVariables(o, agg)}
        share(n) == NonZero(n.share, Opt(n.mat, One))
    IN  SumOver(ids, [i \in ids |->
            Times(Times(agg[i].score, Opt(NodeOf(o, i).lever, One)), share(NodeOf(o, i)))])

\* compute_final_score without horizon weights: the three totals are one number.
ComputeFinalScore(fundamental, gap, rerating, capital, risk, priced) ==
    fundamental + gap + rerating + capital - risk - priced

-----------------------------------------------------------------------------
(* The market adapter.  m is the rule set of a market: kappa and weights   *)
(* per horizon, targets per factor, local scores, discounts, and the betas *)
(* of the stock.                                                           *)

\* e^x in thousandths for x in -2 .. 2.
Exp(x) ==
    LET c == Clip(x, -2000, 2000)
        pow2 == (c * c) \div One
        pow3 == (pow2 * c) \div One
        pow4 == (pow3 * c) \div One
    IN  One + c + pow2 \div 2 + pow3 \div 6 + pow4 \div 24

IsMultiplierName(t) == t \in MultiplierTargets
ComponentSignal(comp, t) == IF IsMultiplierName(t) THEN comp[t] - One ELSE comp[t]
TargetSignal(comp, targets) ==
    LET there == targets \cap DOMAIN comp
    IN  SumOver(there, [t \in there |-> ComponentSignal(comp, t)])

\* tanh(raw / 2), scaled by the clipped beta of the stock.
FactorScore(m, comp, f) ==
    Times(Tanh(TargetSignal(comp, m.targets[f]) \div 2), Clip(m.beta[f], 0, 2 * One))

HorizonMultiplier(m, comp, h) ==
    LET sum == SumOver(DOMAIN m.targets,
                       [f \in DOMAIN m.targets |-> Times(m.weight[h][f], FactorScore(m, comp, f))])
    IN  Greatest({200, Exp(Times(m.kappa[h], sum))})

\* Each horizon: base * multiplier + local scores - discounts.  base_score has
\* the multiplier of the middle horizon.
ApplyMarketAdapter(m, final, comp) ==
    LET local == SumOver(m.local, [T \in m.local |-> TargetSignal(comp, T)])
        off == SumOver(m.discounts, [T \in m.discounts |-> Magnitude(TargetSignal(comp, T))])
        at(h) == Times(final, HorizonMultiplier(m, comp, h)) + local - off
    IN  [short |-> at("short"), medium |-> at("mid"), long |-> at("long"), base |-> at("mid")]

-----------------------------------------------------------------------------
(* Mode and trading signal.                                                *)

Unit(x) == Clip(x, 0, One)
Signed(x) == Clip(x, -One, One)

\* _signals_from_inputs for an aggregation keyed by node ids: every lookup by
\* name misses and falls back to the company score and the coverage.
SignalsFromInputs(parts, coverage) ==
    [industry_trend |-> Signed(parts.industry), exposure |-> Unit(coverage),
     financial_revision |-> 0, valuation_pressure |-> Unit(parts.pressure),
     capital_flow |-> Signed(parts.capital), expectation_gap |-> 0,
     priced_in |-> Unit(parts.priced),
     event_present |-> IF parts.event # 0 THEN One ELSE 0,
     new_catalyst |-> IF parts.event # 0 THEN One ELSE 0,
     operating_confirmed |-> Unit(coverage)]

\* classify_mode: the first rule that holds.
ClassifyMode(final, s) ==
    LET central == (final.short + final.medium + final.long) \div 3
        rules == <<
            [mode |-> "trend_reversal",
             holds |-> s.industry_trend <= -300 /\ s.financial_revision <= -200
                       /\ s.capital_flow <= -200],
            [mode |-> "de_rating",
             holds |-> s.valuation_pressure >= 600 /\ s.capital_flow <= -200
                       /\ s.financial_revision < 200],
            [mode |-> "wait_for_confirmation",
             holds |-> s.event_present >= 500 /\ s.operating_confirmed < 400
                       /\ Magnitude(s.expectation_gap) < 400],
            [mode |-> "strong_bull",
             holds |-> s.industry_trend >= 400 /\ s.exposure >= 500
                       /\ s.financial_revision >= 200 /\ s.valuation_pressure < 600
                       /\ s.capital_flow >= 200],
            [mode |-> "structural_divergence",
             holds |-> s.industry_trend >= 200 /\ s.exposure < 500],
            [mode |-> "digestion",
             holds |-> s.priced_in >= 500 /\ s.new_catalyst < 300
                       /\ Magnitude(s.financial_revision) < 200
                       /\ Magnitude(s.capital_flow) < 300],
            [mode |-> "moderate_bull",
             holds |-> s.industry_trend >= 200 /\ s.financial_revision >= 0
                       /\ s.valuation_pressure < 800 /\ s.capital_flow >= 0
                       /\ s.expectation_gap < 400],
            [mode |-> "trend_reversal", holds |-> central <= -200],
            [mode |-> "wait_for_confirmation", holds |-> TRUE]>>
    IN  rules[Least({i \in DOMAIN rules : rules[i].holds})].mode

\* _trading_signal_from_mix with the default horizon mix.
TradingSignal(final) ==
    Band((final.short * 300 + final.medium * 450 + final.long * 250) \div One,
         <<499, 149, -101>>, <<"BUY", "HOLD", "WATCH", "AVOID">>)

\* score_company.  The aggregation's discounts are always zero, so the role
\* components supply them; what the aggregation has no name for is zero.
ScoreCompany(m, o, agg, coverage) ==
    LET comp == RoleComponents(o, agg)
        part(f) == Get(comp, f, 0)
        industry == IndustryContribution(o, agg)
        fundamental == Times(industry, Get(comp, "multiplier_stack", One))
        core == ComputeFinalScore(fundamental, part("expectation_gap"),
                                  part("valuation_rerating"), part("capital_sentiment"),
                                  part("risk_discount"), part("priced_in_discount"))
        trust == Get(comp, "confidence_multiplier", One)
        final == ApplyMarketAdapter(m, IF trust < One THEN Times(core, trust) ELSE core, comp)
        signals == SignalsFromInputs([industry |-> industry, event |-> 0,
                                      capital |-> part("capital_sentiment"),
                                      pressure |-> part("valuation_pressure"),
                                      priced |-> part("priced_in_discount")], coverage)
    IN  [final |-> final, company |-> industry + part("capital_sentiment")
                                      - part("risk_discount") - part("valuation_pressure")
                                      - part("priced_in_discount"),
         mode |-> ClassifyMode(final, signals), signal |-> TradingSignal(final)]

-----------------------------------------------------------------------------
(* Scoring requests over overlay files that change                         *)

CONSTANTS
    Template,     \* the stock overlay at the start: a sequence of nodes
    Edits,        \* Edits[i]: the [status, value] a rewrite may give node i
    Industries,   \* the industry overlays that may be on disk
    Market,       \* the market adapter's rules for the stock
    Rules,        \* the governance file: data point -> mapping
    MaxEdits      \* bound: rewrites of the overlay files in a behaviour

VARIABLES
    stock,        \* the stock overlay file, <<>> where it is missing
    industry,     \* the industry overlay file
    request,      \* the request under way: its kind, what it read, its answer
    edits         \* the rewrites so far

ovars == <<stock, industry, request, edits>>

Kinds == {"score", "aggregate", "coverage", "cli_score", "cli_aggregate"}
NoRequest == [kind |-> "none", pc |-> "idle", overlay |-> <<>>, answer |-> NoFields]

ScoringInit ==
    /\ stock = Template
    /\ industry \in Industries
    /\ request = NoRequest
    /\ edits = 0

\* A script or a person rewrites one node.
Edit(i, e) ==
    /\ <<stock[i].status, stock[i].value>> # <<e.status, e.value>>
    /\ stock' = [stock EXCEPT ![i].status = e.status, ![i].value = e.value]
    /\ edits < MaxEdits /\ edits' = edits + 1
    /\ UNCHANGED <<industry, request>>

EditIndustry(o) ==
    /\ industry # o
    /\ industry' = o
    /\ edits < MaxEdits /\ edits' = edits + 1
    /\ UNCHANGED <<stock, request>>

\* The request reads the stock overlay.  Three of the five read the industry
\* overlay next; the coverage handler and score-company never do.
ReadStock(k) ==
    /\ request.pc # "read"
    /\ request' = [kind |-> k, pc |-> "read", overlay |-> stock, answer |-> NoFields]
    /\ UNCHANGED <<stock, industry, edits>>

\* aggregate_from_paths alone passes the governance rules.
Governed(o) == [i \in DOMAIN o |-> ApplyToNode([dp \in DOMAIN Rules |-> GovernanceRule(Rules[dp])],
                                               o[i])]

\* What a request answers about overlay o next to industry overlay ind.
AnswerTo(k, o, ind) ==
    LET agg == AggregateCompanyGraph(o, IF k = "cli_score" THEN <<>> ELSE ind)
        coverage == SummaryForOverlay(o).data_coverage
    IN  CASE k = "coverage" -> [coverage |-> coverage]
          [] k = "aggregate" -> agg
          [] k = "cli_aggregate" -> AggregateCompanyGraph(Governed(o), ind)
          [] k \in {"score", "cli_score"} -> ScoreCompany(Market, o, agg, coverage)

Respond ==
    /\ request.pc = "read"
    /\ request' = [request EXCEPT !.pc = "done", !.overlay = <<>>,
                       !.answer = AnswerTo(request.kind, request.overlay, industry)]
    /\ UNCHANGED <<stock, industry, edits>>

ScoringNext ==
    \/ \E i \in DOMAIN Edits : \E e \in Edits[i] : Edit(i, e)
    \/ \E o \in Industries : EditIndustry(o)
    \/ \E k \in Kinds : ReadStock(k)
    \/ Respond

-----------------------------------------------------------------------------
Leaf(o, i) == ~\E n \in Nodes(o) : n.parent = o[i].id
Without(o, i) == SubSeq(o, 1, i - 1) \o SubSeq(o, i + 1, Len(o))

\* The overlay a request aggregates: inheritance, then proxies.
Proxied(o, ind) == ApplyProxies([i \in DOMAIN o |-> InheritNode(ind, o[i])])

\* The scoring siblings of node i that stand in with a proxy in overlay o and
\* are left without one in overlay o2, and what they weigh.
Bereft(o, o2, i) ==
    {k \in DOMAIN o : /\ o[k].parent = o[i].parent /\ ScoreEnabled(o[k])
                      /\ o[k].status = "Proxy" /\ o2[k].status = "Unavailable"}
BereftWeight(o, o2, i) ==
    SumOver(Bereft(o, o2, i), [k \in Bereft(o, o2, i) |-> EffectiveWeight(o[k])])

\* What node i itself adds to its parent's confidence.
Standing(n) == IF ScoreEnabled(n) THEN Times(EffectiveWeight(n), Penalty(n)) ELSE 0

(* Losing data never looks like gaining it: a rewrite that turns a known     *)
(* leaf into an unknown one and changes nothing else raises neither the      *)
(* coverage of its parent in the aggregation, nor the parent's or the        *)
(* overlay's coverage in the coverage report.  Nor does it raise the         *)
(* parent's confidence, with one exception: siblings that had its value as   *)
(* their proxy go back to Unavailable, which costs a parent up to a quarter  *)
(* of their weight less than a proxy does; where that is more than the lost  *)
(* leaf itself brought, the confidence does rise.                            *)
LosingAValueNeverHelps ==
    [][\A i \in DOMAIN stock :
          (/\ Leaf(stock, i) /\ stock[i].parent \in Ids(stock)
           /\ stock[i].status = "Known" /\ stock'[i].status = "Unknown"
           /\ ~stock[i].inherit
           /\ industry' = industry)
          => LET p == stock[i].parent
                 before == AggregateCompanyGraph(stock, industry)[p]
                 after == AggregateCompanyGraph(stock', industry)[p]
                 report == SummaryForOverlay(stock)
                 report2 == SummaryForOverlay(stock')
             IN  /\ after.coverage <= before.coverage
                 /\ \/ after.conf <= before.conf
                    \/ BereftWeight(Proxied(stock, industry), Proxied(stock', industry), i)
                           > 4 * Standing(stock[i])
                 /\ report2.per_node[p].data_coverage <= report.per_node[p].data_coverage
                 /\ report2.data_coverage <= report.data_coverage]_ovars

(* A node that does not apply counts as if it were not in the overlay: while *)
(* one of its siblings both applies and takes part in the score, or it takes *)
(* no part itself, taking it out of the file changes no other node's         *)
(* aggregated score, confidence or coverage, and no share of its siblings in *)
(* the coverage report.  (Without such a sibling it is what makes its parent *)
(* not applicable.)                                                          *)
NotApplicableIsRemoval ==
    \A i \in DOMAIN stock :
        (/\ Leaf(stock, i) /\ stock[i].status = "NA"
         /\ ScoreEnabled(stock[i]) =>
                \E n \in Nodes(stock) : /\ n.parent = stock[i].parent
                                        /\ n.status # "NA" /\ ScoreEnabled(n))
        => LET short == Without(stock, i)
               full == AggregateCompanyGraph(stock, industry)
               less == AggregateCompanyGraph(short, industry)
               reportFull == SummaryForOverlay(stock).per_node
               reportLess == SummaryForOverlay(short).per_node
           IN  /\ \A id \in DOMAIN less : less[id] = full[id]
               /\ \A id \in DOMAIN reportLess : reportLess[id].weights = reportFull[id].weights

=============================================================================

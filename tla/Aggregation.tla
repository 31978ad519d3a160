---------------------------- MODULE Aggregation -----------------------------
(***************************************************************************)
(* Data coverage of an overlay (mvp20/coverage.py) and the aggregation of  *)
(* the company graph (mvp20/aggregator.py) with the field governance it    *)
(* applies (mvp20/field_governance.py).  An overlay is a sequence of       *)
(* nodes; a node is a record whose optional numbers are sequences, <<>>    *)
(* where the YAML has none: id, dp, parent ("" for none), kids (the        *)
(* explicit child_nodes), status, policy (missing_policy), value (a        *)
(* payload), conf, base, active, mat (weights and materiality), evidence,  *)
(* dir (-1, 0, 1), fresh (the recency factor of last_updated), words (the  *)
(* keyword families its name matches), inherit, role, target ("" for       *)
(* none), takes (participates_in_score), proxies (the data points of       *)
(* proxy_candidates), penalty, neutral, floor (min_required_coverage).     *)
(***************************************************************************)
EXTENDS Fixed, SequencesExt

-----------------------------------------------------------------------------
(* Coverage.                                                              *)

Opt(o, d) == IF o = <<>> THEN d ELSE o[1]
Nodes(o) == ToSet(o)
Ids(o) == {n.id : n \in Nodes(o)}
NodeOf(o, id) == CHOOSE n \in Nodes(o) : n.id = id

\* active_weight, else base_weight, else one.
NodeWeight(n) == Opt(n.active, Opt(n.base, One))

Buckets == {"Known", "NA", "Unknown", "Inactive", "Optionality", "LowMateriality"}

PolicyBucket(policy) ==
    CASE policy = "not_applicable_remove" -> "NA"
      [] policy = "unknown_reduce_confidence" -> "Unknown"
      [] policy = "inactive_zero_weight" -> "Inactive"
      [] policy = "optionality_track" -> "Optionality"
      [] policy = "low_materiality_fold" -> "LowMateriality"
      [] policy = "known" -> "Known"
      [] OTHER -> "none"

\* A status of the six wins, then the missing policy, then the materiality.
\* Proxy and Unavailable are not among the six: they are read off the policy.
ClassifyMissingState(n) ==
    LET light == Opt(n.mat, One) < 50
        fold(s) == IF s = "Known" /\ light THEN "LowMateriality" ELSE s
    IN  IF n.status \in Buckets THEN fold(n.status)
        ELSE IF PolicyBucket(n.policy) # "none" THEN fold(PolicyBucket(n.policy))
        ELSE IF light THEN "LowMateriality" ELSE "Unknown"

Applicable(kids) == {n \in kids : ClassifyMissingState(n) # "NA"}
WeightSum(S) == SumOver({n.id : n \in S},
                        [i \in {n.id : n \in S} |-> NodeWeight(CHOOSE n \in S : n.id = i)])

\* Shares of the applicable siblings; none where their weights add up to zero.
RenormalizeWeights(kids) ==
    LET total == WeightSum(Applicable(kids))
    IN  IF total <= 0 THEN NoFields
        ELSE [i \in {n.id : n \in Applicable(kids)} |->
                 (NodeWeight(CHOOSE n \in kids : n.id = i) * One) \div total]

\* An inactive node, and one folded for its low materiality that is known or
\* inactive underneath, count as known.
ComputeDataCoverage(kids) ==
    LET applicable == Applicable(kids)
        known == {n \in applicable : \/ ClassifyMissingState(n) \in {"Known", "Inactive"}
                                     \/ n.status \in {"Known", "Inactive"}}
        total == WeightSum(applicable)
    IN  IF total <= 0 THEN 0 ELSE Clip((WeightSum(known) * One) \div total, 0, One)

WarningLevel(coverage) ==
    IF coverage < 300 THEN "no_strong_conclusion"
    ELSE IF coverage < 500 THEN "low_confidence" ELSE "ok"

\* The children of a node: those that name it as parent, and the explicit ones
\* that exist.  A parent that is not in the overlay still has children.
CoverageChildren(o, id) ==
    {n \in Nodes(o) : n.parent = id}
        \cup {n \in Nodes(o) : \E p \in Nodes(o) : p.id = id /\ n.id \in p.kids}

SummaryForNode(kids) ==
    [data_coverage |-> ComputeDataCoverage(kids),
     warning_level |-> WarningLevel(ComputeDataCoverage(kids)),
     count |-> [b \in Buckets |-> Cardinality({n \in kids : ClassifyMissingState(n) = b})],
     weights |-> RenormalizeWeights(kids),
     n_applicable |-> Cardinality(Applicable(kids))]

\* coverage_summary_for_overlay: per parent, overall (parents weighted by the
\* number of their applicable children), and the alerts.
SummaryForOverlay(o) ==
    LET parents == {id \in ({n.parent : n \in Nodes(o)} \ {""}) \cup Ids(o) :
                        CoverageChildren(o, id) # {}}
        per == [id \in parents |-> SummaryForNode(CoverageChildren(o, id))]
        weight == [id \in parents |-> per[id].n_applicable]
        num == SumOver(parents, [id \in parents |-> per[id].data_coverage * weight[id]])
        den == SumOver(parents, weight)
        overall == IF den > 0 THEN num \div den ELSE 0
    IN  [per_node |-> per, data_coverage |-> overall, warning_level |-> WarningLevel(overall),
         alerts |-> {id \in parents : per[id].warning_level # "ok"}]

-----------------------------------------------------------------------------
(* Aggregation.                                                           *)

NonScoringRoles ==
    {"identity", "structure", "raw_input", "missing_control", "evidence", "display", "audit"}

MultiplierTargets ==
    {"multiplier_stack", "funding_multiplier", "theme_multiplier", "sentiment_multiplier",
     "policy_sensitivity_multiplier", "market_regime_multiplier", "reflexivity_multiplier",
     "liquidity_multiplier", "options_momentum_multiplier", "gamma_multiplier",
     "valuation_sensitivity_multiplier", "rate_sensitivity_multiplier",
     "narrative_sensitivity_multiplier"}

\* DataPointGovernance.from_mapping: the rule of a data point; a rule that does
\* not say whether it takes part follows from its role.
GovernanceRule(mapping) ==
    LET role == Get(mapping, "role", "raw_input")
    IN  [role |-> role, target |-> Get(mapping, "target", "none"),
         policy |-> Get(mapping, "policy", "unknown_reduce_confidence"),
         proxies |-> Get(mapping, "proxies", <<>>),
         floor |-> <<Get(mapping, "floor", 500)>>,
         neutral |-> <<Get(mapping, "neutral", 0)>>,
         penalty |-> <<Get(mapping, "penalty", One)>>,
         takes |-> <<Get(mapping, "takes", role \notin NonScoringRoles)>>]

\* apply_to_node fills what the node leaves open and overwrites nothing.
ApplyToNode(rules, n) ==
    LET r == rules[n.dp]
        open(f) == n[f] = ""
        none(f) == n[f] = <<>>
    IN  IF n.dp \notin DOMAIN rules THEN n
        ELSE [n EXCEPT !.role = IF open("role") THEN r.role ELSE @,
                       !.target = IF open("target") THEN r.target ELSE @,
                       !.policy = IF open("policy") THEN r.policy ELSE @,
                       !.proxies = IF none("proxies") THEN r.proxies ELSE @,
                       !.floor = IF none("floor") THEN r.floor ELSE @,
                       !.neutral = IF none("neutral") THEN r.neutral ELSE @,
                       !.penalty = IF none("penalty") THEN r.penalty ELSE @,
                       !.takes = IF none("takes") THEN r.takes ELSE @]

\* validate_against_spec: the rules that load_field_governance refuses.
RuleErrors(rules, expected) ==
    {dp \in DOMAIN rules :
        \/ ~(rules[dp].floor[1] \in 0 .. One /\ rules[dp].penalty[1] \in 0 .. One)
        \/ /\ rules[dp].role = "raw_input"
           /\ rules[dp].takes[1] \/ rules[dp].target \notin {"none", "audit_only"}}
        \cup (expected \ DOMAIN rules) \cup (DOMAIN rules \ expected)

-----------------------------------------------------------------------------
\* tanh, to a few thousandths on -3 .. 3.
Tanh(x) ==
    LET c == Clip(x, -3000, 3000)
        q == (c * c) \div One
    IN  (c * (27000 + q)) \div (27000 + 9 * q)

MagnitudeTable == [strong |-> 800, moderate |-> 500, weak |-> 300, none |-> 0,
                   low |-> 300, medium |-> 500, high |-> 800]
TrendSign == [up |-> One, up_moderate |-> 600, mixed |-> 300, flat |-> 0, stable |-> 0,
              down |-> -One, down_moderate |-> -600]

\* _to_scalar: the magnitude of a value, from the first field it has.
ToScalar(v) ==
    LET first == {f \in {"score", "intensity", "strength"} : f \in DOMAIN v}
        unit(x) == Magnitude(Clip(x, -One, One))
    IN  IF "score" \in first THEN unit(v.score)
        ELSE IF first # {} THEN unit(v[CHOOSE f \in first : TRUE])
        ELSE IF "yoy_pct" \in DOMAIN v THEN unit(Tanh(20 * v.yoy_pct))
        ELSE IF "magnitude" \in DOMAIN v /\ v.magnitude \in DOMAIN MagnitudeTable
        THEN MagnitudeTable[v.magnitude]
        ELSE IF "trend" \in DOMAIN v /\ v.trend \in DOMAIN TrendSign
        THEN Magnitude(TrendSign[v.trend])
        ELSE unit(Get(v, "future_option_value", Get(v, "current_contribution", 0)))

\* _classify_horizon: the families are tried short, long, medium.
HorizonMix(words) ==
    IF "short" \in words THEN [short |-> 500, medium |-> 300, long |-> 200]
    ELSE IF "long" \in words THEN [short |-> 100, medium |-> 300, long |-> 600]
    ELSE IF "medium" \in words THEN [short |-> 200, medium |-> 500, long |-> 300]
    ELSE [short |-> 330, medium |-> 340, long |-> 330]

ScoreEnabled(n) ==
    IF n.takes # <<>> THEN n.takes[1] ELSE n.role = "" \/ n.role \notin NonScoringRoles

IsMultiplier(n) == n.role = "multiplier" \/ n.target \in MultiplierTargets

\* x.get(f) or d: zero is taken for missing.
NonZero(o, d) == IF o = <<>> \/ o = <<0>> THEN d ELSE o[1]
Penalty(n) == NonZero(n.penalty, One)

\* Two payloads hold nothing: null, and the mapping without fields, NoFields.
Null == [null |-> TRUE]
Empty(v) == v = Null \/ DOMAIN v = {}

-----------------------------------------------------------------------------
\* A node without a value takes that of the industry's last node for its data
\* point; an Unknown one becomes Known, by an empty mapping too but not by null.
InheritNode(industry, n) ==
    LET from == {i \in DOMAIN industry : industry[i].dp = n.dp}
        src == industry[Greatest(from)]
    IN  IF ~n.inherit \/ ~Empty(n.value) \/ from = {} THEN n
        ELSE [n EXCEPT !.value = src.value,
                       !.conf = IF @ = <<>> THEN src.conf ELSE @,
                       !.fresh = IF @ = <<>> THEN src.fresh ELSE @,
                       !.status = IF @ = "Unknown" /\ src.value # Null THEN "Known" ELSE @]

\* One round of _apply_proxy_candidates: node i, if Unavailable, takes the value
\* of its first candidate that is Known or already a Proxy.
ProxyStep(o, i) ==
    LET n == o[i]
        fits(j, dp) == /\ j # i /\ o[j].dp = dp
                       /\ o[j].status \in {"Known", "Proxy"} /\ ~Empty(o[j].value)
        usable == {k \in DOMAIN n.proxies : \E j \in DOMAIN o : fits(j, n.proxies[k])}
        j == Least({x \in DOMAIN o : fits(x, n.proxies[Least(usable)])})
    IN  IF n.status # "Unavailable" \/ usable = {} THEN o
        ELSE [o EXCEPT ![i].value = o[j].value, ![i].status = "Proxy",
                       ![i].penalty = <<Least({Penalty(n), 750})>>]

ApplyProxies(o) == FoldLeft(ProxyStep, o, [i \in DOMAIN o |-> i])

-----------------------------------------------------------------------------
\* The score a leaf contributes: none for what takes no part, is inactive, not
\* applicable or unknown; the neutral value for what is unavailable.
LeafScore(n) ==
    LET base == Opt(n.conf, 500)
        fresh == Opt(n.fresh, One)
        neutral == NonZero(n.neutral, 0)
        valued == n.dir * Times(ToScalar(n.value), fresh)
        score == IF ~ScoreEnabled(n) \/ n.status \in {"Inactive", "NA", "Unknown"} THEN 0
                 ELSE IF n.status = "Unavailable"
                 THEN IF IsMultiplier(n) THEN Times(Clip(neutral - One, -One, One), fresh)
                      ELSE n.dir * Times(Magnitude(neutral), fresh)
                 ELSE valued
        option == IF n.status = "Optionality"
                  THEN n.dir * Times(Magnitude(Clip(Get(n.value, "future_option_value", 0),
                                                    -One, One)), fresh)
                  ELSE 0
        conf == IF ~ScoreEnabled(n) \/ n.status \in {"Inactive", "NA"} THEN base
                ELSE IF n.status = "Unknown" THEN Least({base, 300})
                ELSE IF n.status \in {"Unavailable", "Proxy"} THEN Times(base, Penalty(n))
                ELSE base
        mix == HorizonMix(n.words)
    IN  [score |-> score, short |-> Times(score, mix.short), medium |-> Times(score, mix.medium),
         long |-> Times(score, mix.long) + option, conf |-> conf, base |-> base,
         status |-> n.status, enabled |-> ScoreEnabled(n), penalty |-> Penalty(n),
         coverage |-> IF n.status \in {"Unknown", "NA"} THEN 0 ELSE One]

EffectiveWeight(n) == Times(Times(Opt(n.base, One), Opt(n.active, One)), Opt(n.mat, One))

\* Mutants of Counted: what is not applicable counts, or what is unknown does
\* not.
CountedNA(kids) == {c \in DOMAIN kids : kids[c].enabled /\ kids[c].status # "Inactive"}
CountedKnown(kids) ==
    {c \in DOMAIN kids : kids[c].enabled /\ kids[c].status \notin {"NA", "Inactive", "Unknown"}}

\* kids: what the children hand up, [node id -> payload].  Non-scoring, not
\* applicable and inactive ones are left out, unknown ones weigh in the
\* denominator only.
Counted(kids) ==
    {c \in DOMAIN kids : kids[c].enabled /\ kids[c].status \notin {"NA", "Inactive"}}

AggregateParent(n, kids) ==
    LET counted == Counted(kids)
        usable == {c \in counted : kids[c].status # "Unknown"}
        weight == [c \in counted |-> kids[c].weight]
        total == SumOver(counted, weight)
        held == SumOver(usable, weight)
        sum(f) == IF total <= 0 THEN 0
                  ELSE SumOver(counted, [c \in counted |->
                           Times(kids[c][f] * weight[c], kids[c].conf)]) \div total
        base == IF counted = {} THEN NonZero(n.conf, 500)
                ELSE SumOver(counted, [c \in counted |-> kids[c].base]) \div Cardinality(counted)
        coverage == IF total > 0 THEN (held * One) \div total ELSE 0
        penalty == IF held > 0
                   THEN SumOver(usable, [c \in usable |-> weight[c] * kids[c].penalty]) \div held
                   ELSE One
    IN  [score |-> sum("score"), short |-> sum("short"), medium |-> sum("medium"),
         long |-> sum("long"),
         conf |-> Times(Times(base, coverage), Times(Opt(n.quality, One), penalty)),
         coverage |-> coverage,
         warning |-> IF coverage < NonZero(n.floor, 500) THEN "low_confidence" ELSE "normal",
         enabled |-> ScoreEnabled(n)]

\* What a parent hands up: its own status unless it has nothing but children
\* that are not applicable or inactive; a confidence of zero becomes one half.
ParentPayload(n, kids, agg) ==
    LET scoring == {c \in DOMAIN kids : kids[c].enabled}
        some(s) == \E c \in scoring : kids[c].status = s
    IN  [score |-> agg.score, short |-> agg.short, medium |-> agg.medium, long |-> agg.long,
         conf |-> IF agg.conf = 0 THEN 500 ELSE agg.conf, base |-> NonZero(n.conf, 500),
         weight |-> EffectiveWeight(n), enabled |-> agg.enabled, penalty |-> Penalty(n),
         status |-> IF Counted(kids) # {} THEN n.status
                    ELSE IF some("Inactive") THEN "Inactive"
                    ELSE IF some("NA") THEN "NA" ELSE n.status]

\* The depth-first order of the nodes, children before parents; a node on a
\* cycle is visited once.
RECURSIVE PostOrder(_, _, _)
PostOrder(o, seen, id) ==
    LET kids == SelectSeq(o, LAMBDA n : n.parent = id)
        below == FoldLeft(LAMBDA acc, n : PostOrder(o, acc, n.id),
                          [seen EXCEPT !.visited = @ \cup {id}], kids)
    IN  IF id \in seen.visited THEN seen
        ELSE [below EXCEPT !.order = Append(@, id)]

\* aggregate_company_graph, after inheritance and proxies.
AggregateCompanyGraph(stock, industry) ==
    LET o == ApplyProxies([i \in DOMAIN stock |-> InheritNode(industry, stock[i])])
        order == FoldLeft(LAMBDA acc, n : PostOrder(o, acc, n.id),
                          [visited |-> {}, order |-> <<>>], o).order
        one(acc, id) ==
            LET n == NodeOf(o, id)
                kids == {k \in Nodes(o) : k.parent = id}
                up == [c \in {k.id : k \in kids} \cap DOMAIN acc.up |-> acc.up[c]]
                leaf == LeafScore(n)
                agg == AggregateParent(n, up)
            IN  IF kids = {}
                THEN [out |-> With(acc.out, id, With(leaf, "warning",
                                 IF n.status = "Unknown" /\ NonZero(n.floor, 500) > 0
                                 THEN "low_confidence" ELSE "normal")),
                      up |-> With(acc.up, id, With(leaf, "weight", EffectiveWeight(n)))]
                ELSE [out |-> With(acc.out, id, agg),
                      up |-> With(acc.up, id, ParentPayload(n, up, agg))]
    IN  FoldLeft(one, [out |-> NoFields, up |-> NoFields], order).out
=============================================================================

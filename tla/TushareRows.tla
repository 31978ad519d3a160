----------------------------- MODULE TushareRows -----------------------------
(***************************************************************************)
(* What mvp20/sources/tushare_source.py makes of the answers of Tushare: the*)
(* rows of an A share, of the Chinese market and of its industry.           *)
(***************************************************************************)
EXTENDS SourceRows

StockEndpoints ==
  {"daily_basic", "moneyflow", "hk_hold", "margin_detail", "top_list", "block_trade",
   "income", "cashflow", "balancesheet", "dividend", "fina_indicator", "stk_holdertrade",
   "forecast", "stk_managers", "report_rc", "irm_qa", "stock_company", "fina_mainbz",
   "express", "daily", "top10_holders"}

MarketEndpoints ==
  {"cn_pmi", "shibor_lpr", "cn_m", "cn_cpi", "cn_ppi", "moneyflow_ind_ths",
   "moneyflow_hsgt", "fund_basic", "fund_share", "dc_hot", "ths_hot"}

TushareEndpoints == StockEndpoints \cup MarketEndpoints

Known(dp, src) == Row("stock", dp, "Known", src)

-----------------------------------------------------------------------------
(* The batch endpoints of fetch_batch: one query per day, walked back until *)
(* a day has rows of the constituents.                                      *)

DailyBasic(w) ==
  Rows("stock", Records(w, "daily_basic"),
       {<<"L6.mult.pe", {{"pe_ttm"}}>>, <<"L6.mult.pb", {{"pb"}}>>, <<"L6.mult.ps", {{"ps_ttm"}}>>,
        <<"L7.trade.volume_turnover", {{"turnover_rate"}, {"volume_ratio"}}>>}, {"daily_basic"})

\* The net amount is optional: the row is written with None in its place.
MoneyFlow(w) ==
  Rows("stock", Records(w, "moneyflow"), {<<"L7.flow.active_inflow", {{}}>>}, {"moneyflow"})

HkHold(w) ==
  Rows("stock", Records(w, "hk_hold"), {<<"L7.flow.passive_northbound", {{}}>>}, {"hk_hold"})

CapitalEvents(w) ==
  UNION {Rows("stock", Records(w, "margin_detail"), {<<"L7.trade.margin_short", {{}}>>}, {"margin_detail"}),
         Rows("stock", Records(w, "top_list"), {<<"L9.capital.inst_buy_sell", {{}}>>}, {"top_list"}),
         Rows("stock", Records(w, "block_trade"), {<<"L7.flow.block_trade", {{}}>>}, {"block_trade"})}

-----------------------------------------------------------------------------
(* Financial statements, one call per stock and statement, each in a try of *)
(* its own.                                                                 *)

Income(w) ==
  Rows("stock", Records(w, "income"),
       {<<"L5.is.revenue", {{"total_revenue"}}>>,
        <<"L5.is.gross_profit", {{"total_revenue", "oper_cost"}}>>,
        <<"L5.is.gross_margin", {{"total_revenue", "oper_cost"}}>>,
        <<"L5.is.operating_profit", {{"operate_profit"}}>>,
        <<"L5.is.net_profit", {{"n_income"}}>>,
        <<"L5.is.eps", {{"basic_eps"}}>>,
        <<"L5.is.margins", {{"total_revenue", "operate_profit"}, {"total_revenue", "n_income"}}>>,
        <<"L5.is.sga_rd", {{"expenses"}}>>,
        <<"L5.is.revenue_growth", {{"total_revenue", "four_periods"}}>>}, {"income"})

Cashflow(w) ==
  Rows("stock", Records(w, "cashflow"),
       {<<"L5.cf.ocf", {{"n_cashflow_act"}}>>,
        <<"L5.cf.fcf", {{"free_cashflow"}}>>,
        <<"L5.cf.capex", {{"capex"}}>>,
        <<"L5.cf.icf_fcf", {{"investing"}, {"financing"}}>>,
        <<"L5.cf.buyback_dividend", {{"dividend_paid"}, {"buyback_paid"}}>>}, {"cashflow"})

\* The trailing free cash flow needs the latest period only: without the two
\* comparison periods the annual or year-to-date number stands in.
MarketCapToCash(w) ==
  IF "free_cashflow" \in Records(w, "cashflow") /\ "total_mv" \in Records(w, "daily_basic")
  THEN {Known("L6.mult.mcap_fcf", {"daily_basic", "cashflow"})} ELSE {}

BalanceSheet(w) ==
  Rows("stock", Records(w, "balancesheet"),
       {<<"L5.bs.cash_debt", {{"money_cap"}, {"borrowings"}}>>,
        <<"L5.bs.leverage", {{"total_assets", "total_liab"}}>>,
        <<"L5.bs.inventory", {{"inventories"}}>>,
        <<"L5.bs.ar_ap", {{"accounts_receiv"}, {"accounts_pay"}}>>,
        <<"L5.bs.goodwill_ppe", {{"goodwill"}, {"fix_assets"}}>>}, {"balancesheet"})

Dividend(w) ==
  Rows("stock", Records(w, "dividend"), {<<"L9.company.buyback_dividend", {{}}>>}, {"dividend"})

Financials(w) ==
  UNION {Income(w), Cashflow(w), MarketCapToCash(w), BalanceSheet(w), Dividend(w)}

FinaColumns ==
  {"roe", "roa", "net_margin", "gross_margin", "debt_ratio", "asset_turnover", "revenue_yoy_q",
   "profit_yoy_q", "ocf_quality", "working_capital", "bps", "eps", "cfps", "revenue_yoy",
   "total_revenue_yoy", "net_profit_yoy"}

\* The data point of column c is L5.fina.c.
FinaIndicator(w) ==
  Rows("stock", Records(w, "fina_indicator"), {<<c, {{c}}>> : c \in FinaColumns}, {"fina_indicator"})

-----------------------------------------------------------------------------
(* Event endpoints, one call per stock: an answer without records is the    *)
(* claim that nothing happened (Inactive), a call that raises says nothing  *)
(* and leaves the stored row alone.  The third denial ends the loop over    *)
(* the stocks.                                                              *)

\* Mutant: a failed call counts as the answer that nothing happened.
Event_FailureIsEmpty(w, e, dp, fires) == {Signal("stock", dp, fires, {e})}

Event(w, e, dp, fires) ==
  IF Answered(w, e) THEN {Signal("stock", dp, fires, {e})} ELSE {}

HolderTrade(w) ==
  LET recs == Records(w, "stk_holdertrade") IN
  UNION {Event(w, "stk_holdertrade", "L9.event.holder_trade_signal", "rows" \in recs),
         Event(w, "stk_holdertrade", "L9.event.major_holder_increase", "in" \in recs),
         Event(w, "stk_holdertrade", "L9.event.major_holder_decrease", "de" \in recs)}

Forecast(w) ==
  Event(w, "forecast", "L9.company.earnings_guidance", "rows" \in Records(w, "forecast"))

MgmtLitigation(w) ==
  Event(w, "stk_managers", "L9.company.mgmt_litigation", "recent" \in Records(w, "stk_managers"))

ReportRc(w) ==
  Event(w, "report_rc", "L5.surprise.sell_side", "rows" \in Records(w, "report_rc"))

\* At least two positive samples of one of the two ratios.
HistoricalPercentile(w) ==
  Rows("stock", Records(w, "daily_basic"),
       {<<"L6.state.historical_percentile", {{"pe_history"}, {"pb_history"}}>>}, {"daily_basic"})

-----------------------------------------------------------------------------
(* Market-wide and industry rows, fetched together by                       *)
(* fetch_macro_china_batch; each emitter swallows its own failures.         *)

Market(dp, src) == Row("market", dp, "Known", src)

Pmi(w) == {Market("L10.industry.pmi", {"cn_pmi"}) : r \in Records(w, "cn_pmi") \cap {"rows"}}

Rates(w) ==
  LET recs == Records(w, "shibor_lpr") IN
  {Market("L7.env.rates", {"shibor_lpr"}) : r \in recs \cap {"rows"}}
    \cup {Signal("market", "L9.macro.rates", "lpr_moved" \in recs, {"shibor_lpr"}) : r \in recs \cap {"rows"}}

MoneySupply(w) ==
  LET recs == Records(w, "cn_m") IN
  {Market("L7.env.liquidity", {"cn_m"}) : r \in recs \cap {"rows"}}
    \cup {Signal("market", "L9.macro.liquidity", "m2_shift" \in recs, {"cn_m"}) : r \in recs \cap {"rows"}}

\* One of the two indices is enough.
CpiPpi(w) ==
  IF "cpi_yoy" \in Records(w, "cn_cpi") \/ "ppi_yoy" \in Records(w, "cn_ppi")
  THEN {Market("L9.macro.cpi_employment", {"cn_cpi", "cn_ppi"})} ELSE {}

\* A cross section of fewer than 100 positive ratios is not a quantile.
MarketPeQuantile(w) ==
  IF "hundred_pe" \in Records(w, "daily_basic")
  THEN {Market("L10.val.historical_quantile", {"daily_basic"})} ELSE {}

IndustryFundFlow(w) ==
  IF "mapped_industry" \in Records(w, "moneyflow_ind_ths")
  THEN {Row("industry", "L10.industry.fund_flow", "Known", {"moneyflow_ind_ths"})} ELSE {}

PassiveNorthbound(w) ==
  {Market("L7.flow.passive_northbound", {"moneyflow_hsgt"}) : r \in Records(w, "moneyflow_hsgt") \cap {"rows"}}

EtfInflow(w) ==
  IF "listed_etf" \in Records(w, "fund_basic") /\ "two_shares" \in Records(w, "fund_share")
  THEN {Market("L7.flow.etf_inflow", {"fund_share"})} ELSE {}

MacroRows(w) ==
  UNION {Pmi(w), Rates(w), MoneySupply(w), CpiPpi(w), MarketPeQuantile(w), IndustryFundFlow(w),
         PassiveNorthbound(w), EtfInflow(w)}

-----------------------------------------------------------------------------
(* The derivations of fetch_a_share_derived_metrics read records that       *)
(* getters may have cached: r[e] are the records of endpoint e in use.  An  *)
(* Inactive row is written whenever the inputs do not suffice.              *)

Derived(dp, fires, src) == {Signal("stock", dp, fires, src)}

Present(r, e) == "rows" \in r[e]

LaborCost(r) ==
  Derived("L4.cost.labor", "total_revenue" \in r["income"] /\ "paid_to_employees" \in r["cashflow"],
          {"income", "cashflow"})

\* The labour part is taken out when the cash flow tells it, otherwise the
\* whole operating cost is the answer.
RawMaterial(r) ==
  LET known == {"total_revenue", "oper_cost"} \subseteq r["income"]
  IN  {Using(q, "cashflow", known /\ "paid_to_employees" \in r["cashflow"]) :
         q \in Derived("L4.cost.raw_material", known, {"income"})}

TurnoverOk(r) ==
  /\ {"total_revenue", "oper_cost"} \subseteq r["income"]
  /\ r["balancesheet"] \cap {"inventories", "accounts_receiv", "accounts_pay"} # {}

Turnover(r) == Derived("L4.eff.turnover", TurnoverOk(r), {"balancesheet", "income"})

Cycle(r) ==
  Derived("L4.eff.cycle",
          TurnoverOk(r) /\ {"inventories", "accounts_receiv", "accounts_pay"} \subseteq r["balancesheet"],
          {"balancesheet", "income"})

\* Known is the alert: weak operating cash, or receivables up on the year.
CashAr(r) ==
  Derived("L8.fin.cash_ar",
          /\ Present(r, "income") /\ Present(r, "cashflow")
          /\ \/ "n_income" \in r["income"] /\ {"n_cashflow_act", "ocf_weak"} \subseteq r["cashflow"]
             \/ {"accounts_receiv", "year_before", "ar_up"} \subseteq r["balancesheet"],
          {"cashflow", "income", "balancesheet"})

\* An earlier period's EBITDA stands in for a missing one.
DebtPressure(r) ==
  Derived("L8.fin.debt_pressure",
          Present(r, "balancesheet") /\ "borrowings" \in r["balancesheet"] /\ {"ebitda", "high_debt"} \subseteq r["fina_indicator"],
          {"balancesheet", "fina_indicator"})

InventoryGlut(r) ==
  Derived("L8.op.inventory_glut",
          /\ Present(r, "income")
          /\ {"inventories", "year_before", "inventory_up"} \subseteq r["balancesheet"]
          /\ {"turn_days", "slower"} \subseteq r["fina_indicator"],
          {"balancesheet", "fina_indicator"})

DerivedMetrics(r) ==
  UNION {LaborCost(r), RawMaterial(r), Turnover(r), Cycle(r), CashAr(r), DebtPressure(r), InventoryGlut(r)}

-----------------------------------------------------------------------------
(* Spec-canonical aliases of rows already in the batch, in the order in     *)
(* which they are appended: of several aliases of one data point the store  *)
(* keeps the last.                                                          *)

Aliases ==
  << <<"L9.event.major_holder_increase", "L8.gov.insider_sell">>,
     <<"L9.event.major_holder_decrease", "L8.gov.insider_sell">>,
     <<"L9.event.holder_trade_signal", "L8.gov.insider_sell">>,
     <<"L9.capital.inst_buy_sell", "L7.flow.institutional">>,
     <<"L9.company.mgmt_litigation", "L8.gov.management_change">> >>

AliasRows(rows, a) ==
  {[row EXCEPT !.dp = a[2]] : row \in {q \in rows : q.dp = a[1]}}

-----------------------------------------------------------------------------
(* Disclosure texts, cached for ten minutes.  The getters of this part do   *)
(* not cache a failure; text(e) says how the call went when nothing is      *)
(* cached.  Only the third stock on sees the threshold of denials, for      *)
(* which irm_qa writes Inactive rows and the other two write nothing.       *)

DenialLimit == 3

IrmQa(ans, recs, pos) ==
  IF ans \in {"rows", "empty"} THEN Derived("L9.disclosure.qa_recent", "rows" \in recs, {"irm_qa"})
  ELSE IF ans = "denied" /\ pos >= DenialLimit THEN Derived("L9.disclosure.qa_recent", FALSE, {"irm_qa"})
  ELSE {}

StockCompany(ans, recs) ==
  IF ans \in {"rows", "empty"}
  THEN Derived("L1.company.main_business", "text" \in recs, {"stock_company"}) ELSE {}

ManagersTable(ans, recs) ==
  IF ans \in {"rows", "empty"}
  THEN Derived("L8.gov.management_table", "rows" \in recs, {"stk_managers"}) ELSE {}

-----------------------------------------------------------------------------
(* Bucket A: hard data per stock, and one industry row.                     *)

Segments(r) ==
  UNION {Derived("L2.segment.revenue_share", "bz_sales" \in r["fina_mainbz"], {"fina_mainbz"}),
         Derived("L2.segment.gross_margin", {"bz_sales", "bz_cost"} \subseteq r["fina_mainbz"], {"fina_mainbz"}),
         Derived("L2.segment.growth", {"bz_sales", "year_before"} \subseteq r["fina_mainbz"], {"fina_mainbz"})}

\* A first forecast counts as a change: initiated.
GuidanceChange(r) == Derived("L5.fcst.guidance_change", Present(r, "forecast"), {"forecast"})

Compared(r) == "yoy_sales" \in r["express"] /\ "range" \in r["forecast"]

BeatMiss(r) == Derived("L5.surprise.beat_miss", Compared(r), {"express", "forecast"})

EpsDownward(r) ==
  Derived("L8.fin.eps_downward", {"two_forecasts", "range", "cut"} \subseteq r["forecast"], {"forecast"})

RevenueProfitMiss(r) ==
  Derived("L8.fin.revenue_profit_miss", Compared(r) /\ "below_range" \in r["express"], {"express", "forecast"})

\* The cached balance sheets do not carry goodwill (the query does not ask for
\* the column): the records in use never have it.
GoodwillColumns(recs) == recs \ {"goodwill"}

GoodwillImpairment(r) ==
  Derived("L8.fin.goodwill_impairment",
          {"goodwill", "goodwill_drop"} \subseteq GoodwillColumns(r["balancesheet"]), {"balancesheet"})

\* The day's money flow is part of the value and raises the severity of a
\* crowded trade, the status is that of the turnover alone.
Crowdedness(r, flow) ==
  {Using(q, "moneyflow", "turnover_history" \in r["daily_basic"] /\ "rows" \in flow) :
     q \in Derived("L8.cap.crowdedness", {"turnover_history", "crowded"} \subseteq r["daily_basic"], {"daily_basic"})}

ShortIncrease(r) ==
  Derived("L8.cap.short_increase", {"rqye_history", "shorts_up"} \subseteq r["margin_detail"], {"margin_detail"})

MarginAnomaly(r) ==
  Derived("L9.capital.margin_anomaly", {"rzmre_history", "margin_surge"} \subseteq r["margin_detail"], {"margin_detail"})

\* A thin market alone does not fire: a dive on volume is needed as well.
LiquidityShort(r) ==
  Derived("L8.cap.liquidity_short", {"amount_history", "dive"} \subseteq r["daily"], {"daily"})

CostOverrun(r) ==
  Derived("L8.op.cost_overrun",
          {"total_revenue", "oper_cost", "year_before", "cost_gap"} \subseteq r["income"], {"income"})

\* The samples are of every A share of the batch, whichever the industry.
ValuationCompression(r) ==
  {Signal("industry", "L8.industry.valuation_compression",
          {"pe_history", "compressed"} \subseteq r["daily_basic"], {"daily_basic"})}

BucketA(r, flow) ==
  UNION {Segments(r), GuidanceChange(r), BeatMiss(r), EpsDownward(r), RevenueProfitMiss(r),
         GoodwillImpairment(r), Crowdedness(r, flow), ShortIncrease(r), MarginAnomaly(r), LiquidityShort(r),
         CostOverrun(r), ValuationCompression(r)}

-----------------------------------------------------------------------------
(* Bucket B: valuation, sell-side research, industry sentiment and peers.   *)

CostCapital(r) == {Signal("market", "L0.cost.capital", "lpr_1y" \in r["shibor_lpr"], {"shibor_lpr"})}

SentimentInstitutional(r) ==
  {Signal("industry", "L0.sentiment.institutional", "hold_ratio" \in r["top10_holders"], {"top10_holders"})}

SentimentLeaderDrag(r) ==
  {Signal("industry", "L0.sentiment.leader_drag", {"total_mv", "two_members"} \subseteq r["daily_basic"], {"daily_basic"})}

SentimentSocial(r) ==
  {Signal("industry", "L0.sentiment.social", "member" \in r["dc_hot"] \/ "member" \in r["ths_hot"], {"dc_hot", "ths_hot"})}

CenterOk(r) == "two_members" \in r["daily_basic"] /\ r["daily_basic"] \cap {"pe_ttm", "pb", "ps_ttm"} # {}

IndustryCenter(r) == {Signal("industry", "L6.state.industry_center", CenterOk(r), {"daily_basic"})}

AnalystRevision(r) == Derived("L6.priced.analyst_revision", "rated" \in r["report_rc"], {"report_rc"})

AnalystRating(r) == Derived("L7.mood.analyst_rating", "rated" \in r["report_rc"], {"report_rc"})

AnalystAction(r) ==
  Derived("L9.media.analyst_action", {"rated", "changed_7d"} \subseteq r["report_rc"], {"report_rc"})

Discussion(r) ==
  Derived("L6.priced.discussion", "member" \in r["dc_hot"] \/ "member" \in r["ths_hot"], {"dc_hot", "ths_hot"})

ExpansionCompression(r) ==
  Derived("L6.state.expansion_compression", "sixty_days" \in r["daily_basic"], {"daily_basic"})

\* Both rows share the status; the industry's median is missing when no member
\* has a positive ratio.
PeerCompare(r) ==
  UNION {Derived(dp, CenterOk(r) /\ "pe_ttm" \in r["daily_basic"], {"daily_basic"}) :
           dp \in {"L6.state.peer_compare", "L10.val.peer"}}

BucketB(r) ==
  UNION {CostCapital(r), SentimentInstitutional(r), SentimentLeaderDrag(r), SentimentSocial(r),
         IndustryCenter(r), AnalystRevision(r), AnalystRating(r), AnalystAction(r), Discussion(r),
         ExpansionCompression(r), PeerCompare(r)}
=============================================================================

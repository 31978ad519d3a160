------------------------------- MODULE UsRows -------------------------------
(***************************************************************************)
(* The rows of US stocks and of the US market: what mvp20/sources/         *)
(* fmp_source.py makes of the answers of Financial Modeling Prep, and      *)
(* futu_source.py of those of Futu OpenD, the gateway for quotes (of Hong  *)
(* Kong stocks too).                                                       *)
(*                                                                         *)
(* FMP: _get_json turns an HTTP error, an unreachable host or a timeout    *)
(* into None and lets everything else through: a body that is not JSON     *)
(* raises. Futu: "fails" is a return code other than RET_OK, "garbled" a   *)
(* call that raises.                                                       *)
(***************************************************************************)
EXTENDS SourceRows

StatementEndpoints ==
  {"income_statement", "ratios", "key_metrics", "balance_sheet", "cash_flow_statement"}

FmpEndpoints ==
  StatementEndpoints \cup
  {"sec_filings", "news", "ownership", "insider", "estimates", "dcf", "growth", "earnings",
   "stock_prices", "index_prices", "treasury", "calendar", "fx_prices", "quotes"}

Garbled(w, e) == w.ans[e] = "garbled"

\* A fetcher whose call raises loses its rows, all of them.
Guarded(w, endpoints, rows) == IF \E e \in endpoints : Garbled(w, e) THEN {} ELSE rows

-----------------------------------------------------------------------------
(* The statements of fetch_batch itself.  Nothing guards them.             *)

IncomeStatement(w) ==
  Rows("us_stock", Records(w, "income_statement"),
       {<<"L5.is.revenue", {{"revenue"}}>>, <<"L5.is.gross_profit", {{"gross_profit"}}>>,
        <<"L5.is.gross_margin", {{"gross_profit", "revenue"}}>>,
        <<"L5.is.operating_profit", {{"op_income"}}>>, <<"L5.is.net_profit", {{"net_income"}}>>,
        <<"L5.is.eps", {{"eps"}}>>, <<"L5.is.cogs", {{"cogs"}}>>,
        <<"L5.is.margins", {{"op_income", "revenue"}, {"net_income", "revenue"}}>>,
        <<"L5.is.sga_rd", {{"sga"}, {"rd"}}>>}, {"income_statement"})

RatiosTtm(w) ==
  Rows("us_stock", Records(w, "ratios"),
       {<<"L6.mult.pe", {{"pe"}}>>, <<"L6.mult.pb", {{"pb"}}>>, <<"L6.mult.ps", {{"ps"}}>>,
        <<"L6.mult.mcap_fcf", {{"pfcf"}}>>, <<"L6.mult.peg", {{"peg"}}>>}, {"ratios"})

KeyMetrics(w) ==
  Rows("us_stock", Records(w, "key_metrics"), {<<"L6.mult.ev_ebitda", {{"ev_ebitda"}}>>}, {"key_metrics"})

\* The debt is the total, or the sum of short and long term debt.
BalanceSheetStatement(w) ==
  Rows("us_stock", Records(w, "balance_sheet"),
       {<<"L5.bs.cash_debt", {{"cash"}, {"total_debt"}, {"term_debt"}}>>,
        <<"L5.bs.leverage", {{"total_assets", "total_liab"}}>>, <<"L5.bs.inventory", {{"inventory"}}>>,
        <<"L5.bs.ar_ap", {{"receivables"}, {"payables"}}>>,
        <<"L5.bs.goodwill_ppe", {{"goodwill"}, {"ppe"}}>>}, {"balance_sheet"})

CashFlowStatement(w) ==
  Rows("us_stock", Records(w, "cash_flow_statement"),
       {<<"L5.cf.ocf", {{"ocf"}}>>, <<"L5.cf.fcf", {{"fcf"}}>>, <<"L5.cf.capex", {{"capex"}}>>,
        <<"L5.cf.icf_fcf", {{"investing"}, {"financing"}}>>,
        <<"L5.cf.buyback_dividend", {{"buyback"}, {"dividends"}}>>}, {"cash_flow_statement"})

\* An undecodable statement ends the batch of the whole source.
BatchRaises(w) == \E e \in StatementEndpoints : Garbled(w, e)

Statements(w) ==
  UNION {IncomeStatement(w), RatiosTtm(w), KeyMetrics(w), BalanceSheetStatement(w), CashFlowStatement(w)}

-----------------------------------------------------------------------------
(* Events and estimates.  None is skipped; an empty list is the claim that *)
(* nothing was found, stored as Unknown.                                   *)

Found(w, e, dp, fact) ==
  IF Answered(w, e)
  THEN {Row("us_stock", dp, IF fact \in Records(w, e) THEN "Known" ELSE "Unknown", {e})} ELSE {}

SecFilings(w) == Found(w, "sec_filings", "L9.event.recent_filings", "rows")

News(w) == Found(w, "news", "L9.event.news_flow", "rows")

\* Rows whose reporting person is not a name do not count.
InstitutionalHolders(w) == Found(w, "ownership", "L7.holders.institutional", "named")

InsiderTrades(w) == Found(w, "insider", "L9.event.insider_trades", "recent")

AnalystEstimates(w) ==
  Rows("us_stock", Records(w, "estimates"),
       {<<"L5.fcst.revenue_margin", {{"rev_avg"}}>>,
        <<"L5.fcst.eps_cf", {{"eps_avg"}, {"eps_low"}, {"eps_high"}}>>,
        <<"L5.fcst.revisions", {{"two_eps"}}>>,
        <<"L5.surprise.sell_side", {{"eps_avg", "eps_low", "eps_high"}}>>}, {"estimates"})

Dcf(w) == Rows("us_stock", Records(w, "dcf"), {<<"L6.mult.dcf", {{"dcf"}}>>}, {"dcf"})

FinancialGrowth(w) ==
  Rows("us_stock", Records(w, "growth"),
       {<<"L5.is.revenue_growth", {{"revenue_growth"}, {"eps_growth"}, {"income_growth"}}>>}, {"growth"})

-----------------------------------------------------------------------------
(* Derived from a price history that is cached for five minutes, prices    *)
(* being the bars in use; these write Inactive for want of data.           *)

\* The bars of a fetch; one that raises is not cached.
Bars(w, e) == IF Garbled(w, e) THEN {"garbled"} ELSE Records(w, e)

\* The index bars only fill a part of the value, yet they are fetched first;
\* the bars of the stock are not asked for without a dated announcement.
PrepriceSurprise(w, prices, index) ==
  LET dated == "dated" \in Records(w, "earnings")
      known == dated /\ {"bars_21", "anchor"} \subseteq prices
  IN  IF Garbled(w, "earnings") \/ "garbled" \in index \/ (dated /\ "garbled" \in prices) THEN {}
      ELSE {Using(Signal("us_stock", "L5.surprise.preprice", known, {"earnings"}),
                  "index_prices", known /\ "rows" \in index)}

NewsAge(w) ==
  Guarded(w, {"news"}, {Signal("us_stock", "L6.priced.news_age", "rows" \in Records(w, "news"), {"news"})})

\* The source label names no endpoint.
ShortTechnical(prices) ==
  IF "garbled" \in prices THEN {}
  ELSE {Signal("us_stock", "L11.short.technical", "bars_50" \in prices, {})}

-----------------------------------------------------------------------------
(* The US market.                                                          *)

UsMarket(dp, status, src) == Row("us_market", dp, status, src)

\* One of the three indices is enough.
MarketTrend(w) ==
  Guarded(w, {"index_prices"},
          {Signal("us_market", "L7.env.market_trend", "index_closes" \in Records(w, "index_prices"), {"index_prices"})})

Treasury(w) ==
  LET recs == Records(w, "treasury") IN
  Guarded(w, {"treasury"},
          {Signal("us_market", "L7.env.rates", "rows" \in recs, {"treasury"}),
           UsMarket("L9.macro.rates",
                    CASE recs = {} -> "Inactive" [] "moved_5bp" \in recs -> "Known" [] OTHER -> "Unknown",
                    {"treasury"})})

\* An empty calendar is an answer: Unknown.
CpiEmployment(w) ==
  Guarded(w, {"calendar"},
          {UsMarket("L9.macro.cpi_employment",
                    CASE ~Answered(w, "calendar") -> "Inactive"
                      [] "us_event" \in Records(w, "calendar") -> "Known"
                      [] OTHER -> "Unknown", {"calendar"})})

\* EURUSD and UUP stand in for the dollar index.
Fx(w) ==
  LET recs == Records(w, "fx_prices") IN
  Guarded(w, {"fx_prices"},
          {UsMarket("L7.env.fx", IF "fx_closes" \in recs THEN "Proxy" ELSE "Inactive", {"fx_prices"}),
           UsMarket("L9.macro.fx",
                    CASE "fx_closes" \notin recs -> "Inactive"
                      [] "uup_moved" \in recs -> "Proxy" [] OTHER -> "Unknown", {"fx_prices"})})

\* Both quotes are needed.
Style(w) ==
  Guarded(w, {"quotes"}, {Signal("us_market", "L7.env.style", "both_prices" \in Records(w, "quotes"), {"quotes"})})

MacroUs(w) == UNION {MarketTrend(w), Treasury(w), CpiEmployment(w), Fx(w), Style(w)}

-----------------------------------------------------------------------------
(* Futu OpenD.                                                            *)

FutuEndpoints == {"opend", "snapshot", "capital_flow", "option_chain"}

\* The label of the quote names the gateway and no call of it.
MarketSnapshot(w) ==
  Rows("us_stock", Records(w, "snapshot"),
       {<<"L6.mult.pe", {{"pe"}}>>, <<"L6.mult.pb", {{"pb"}}>>,
        <<"L7.trade.volume_turnover", {{"turnover"}, {"turnover_rate"}}>>}, {"snapshot"})
    \cup Rows("us_stock", Records(w, "snapshot"), {<<"L7.market.l2_quote", {{"quote"}}>>}, {})

CapitalFlow(w) ==
  Rows("us_stock", Records(w, "capital_flow"),
       {<<"L7.flow.active_inflow", {{"main_net"}, {"total_net"}}>>}, {"capital_flow"})

\* The gateway is down, or a call of the quote loop raises.
FutuRaises(w) ==
  w.ans["opend"] # "rows" \/ \E e \in {"snapshot", "capital_flow"} : w.ans[e] = "garbled"

\* The at-the-money options, their implied volatility and the totals of the
\* chain; whatever goes wrong is no data.
AtmOptionSnapshot(w) ==
  IF "last_price" \in Records(w, "snapshot") /\ {"expiry", "both_sides"} \subseteq Records(w, "option_chain")
  THEN Records(w, "option_chain") ELSE {}

-----------------------------------------------------------------------------
(* The option rows, chain being the option snapshot in use.                *)

PricedIv(chain) == {Signal("us_stock", "L6.priced.iv", "iv" \in chain, {"option_chain"})}

\* Known is the event: a volatility outside the normal band.
TradeIv(chain) == {Signal("us_stock", "L7.trade.iv", {"iv", "iv_extreme"} \subseteq chain, {"option_chain"})}

OptionsCp(chain) == {Signal("us_stock", "L7.trade.options_cp", "traded" \in chain, {"option_chain"})}

FutuBatch(w, chain) ==
  IF FutuRaises(w) THEN {}
  ELSE UNION {MarketSnapshot(w), CapitalFlow(w), PricedIv(chain), TradeIv(chain), OptionsCp(chain)}
=============================================================================

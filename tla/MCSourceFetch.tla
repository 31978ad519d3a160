---------------------------- MODULE MCSourceFetch ----------------------------
(***************************************************************************)
(* SourceFetch for TLC: services that know everything, services without any*)
(* event to report, and services whose optional columns are all missing.   *)
(* Every endpoint fails in every way, before, between and after the ticks  *)
(* that fill the caches.                                                   *)
(***************************************************************************)
EXTENDS SourceFetch

\* Columns and periods that a complete answer has.
MCData ==
  ({"daily_basic"} \X {"pe_ttm", "pb", "ps_ttm", "turnover_rate", "volume_ratio", "total_mv", "pe_history", "pb_history", "hundred_pe", "turnover_history", "two_members", "sixty_days"}) \cup
  ({"income"} \X {"total_revenue", "oper_cost", "operate_profit", "n_income", "basic_eps", "expenses", "four_periods", "year_before"}) \cup
  ({"cashflow"} \X {"n_cashflow_act", "free_cashflow", "capex", "investing", "financing", "dividend_paid", "buyback_paid", "paid_to_employees"}) \cup
  ({"balancesheet"} \X {"money_cap", "borrowings", "total_assets", "total_liab", "inventories", "accounts_receiv", "accounts_pay", "goodwill", "fix_assets", "year_before"}) \cup
  ({"fina_indicator"} \X {"roe", "roa", "net_margin", "gross_margin", "debt_ratio", "asset_turnover", "revenue_yoy_q", "profit_yoy_q", "ocf_quality", "working_capital", "bps", "eps", "cfps", "revenue_yoy", "total_revenue_yoy", "net_profit_yoy", "ebitda", "turn_days"}) \cup
  ({"shibor_lpr"} \X {"lpr_1y"}) \cup
  ({"cn_cpi"} \X {"cpi_yoy"}) \cup
  ({"cn_ppi"} \X {"ppi_yoy"}) \cup
  ({"moneyflow_ind_ths"} \X {"mapped_industry"}) \cup
  ({"fund_basic"} \X {"listed_etf"}) \cup
  ({"fund_share"} \X {"two_shares"}) \cup
  ({"stock_company"} \X {"text"}) \cup
  ({"fina_mainbz"} \X {"bz_sales", "bz_cost", "year_before"}) \cup
  ({"forecast"} \X {"range", "two_forecasts"}) \cup
  ({"express"} \X {"yoy_sales"}) \cup
  ({"margin_detail"} \X {"rqye_history", "rzmre_history"}) \cup
  ({"daily"} \X {"amount_history"}) \cup
  ({"top10_holders"} \X {"hold_ratio"}) \cup
  ({"report_rc"} \X {"rated"}) \cup
  ({"income_statement"} \X {"revenue", "gross_profit", "op_income", "net_income", "eps", "cogs", "sga", "rd"}) \cup
  ({"ratios"} \X {"pe", "pb", "ps", "pfcf", "peg"}) \cup
  ({"key_metrics"} \X {"ev_ebitda"}) \cup
  ({"balance_sheet"} \X {"cash", "total_debt", "term_debt", "total_assets", "total_liab", "inventory", "receivables", "payables", "goodwill", "ppe"}) \cup
  ({"cash_flow_statement"} \X {"ocf", "fcf", "capex", "investing", "financing", "buyback", "dividends"}) \cup
  ({"ownership"} \X {"named"}) \cup
  ({"estimates"} \X {"rev_avg", "eps_avg", "eps_low", "eps_high", "two_eps"}) \cup
  ({"dcf"} \X {"dcf"}) \cup
  ({"growth"} \X {"revenue_growth", "eps_growth", "income_growth"}) \cup
  ({"earnings"} \X {"dated"}) \cup
  ({"stock_prices"} \X {"bars_21", "anchor", "bars_50"}) \cup
  ({"index_prices"} \X {"index_closes"}) \cup
  ({"calendar"} \X {"us_event"}) \cup
  ({"fx_prices"} \X {"fx_closes"}) \cup
  ({"quotes"} \X {"both_prices"}) \cup
  ({"snapshot"} \X {"pe", "pb", "turnover", "turnover_rate", "quote", "last_price"}) \cup
  ({"capital_flow"} \X {"main_net", "total_net"}) \cup
  ({"option_chain"} \X {"expiry", "both_sides", "iv", "traded"}) \cup
  ({"cls"} \X {"recent"}) \cup
  ({"futures"} \X {"two_closes", "crude"}) \cup
  ({"shipping"} \X {"two_values"}) \cup
  ({"boards"} \X {"mapped"})

\* Thresholds and events.
MCEvents ==
  ({"daily_basic"} \X {"crowded", "compressed"}) \cup
  ({"income"} \X {"cost_gap"}) \cup
  ({"cashflow"} \X {"ocf_weak"}) \cup
  ({"balancesheet"} \X {"ar_up", "inventory_up", "goodwill_drop"}) \cup
  ({"fina_indicator"} \X {"high_debt", "slower"}) \cup
  ({"stk_holdertrade"} \X {"in", "de"}) \cup
  ({"stk_managers"} \X {"recent"}) \cup
  ({"shibor_lpr"} \X {"lpr_moved"}) \cup
  ({"cn_m"} \X {"m2_shift"}) \cup
  ({"forecast"} \X {"cut"}) \cup
  ({"express"} \X {"below_range"}) \cup
  ({"margin_detail"} \X {"shorts_up", "margin_surge"}) \cup
  ({"daily"} \X {"dive"}) \cup
  ({"dc_hot"} \X {"member"}) \cup
  ({"ths_hot"} \X {"member"}) \cup
  ({"report_rc"} \X {"changed_7d"}) \cup
  ({"insider"} \X {"recent"}) \cup
  ({"treasury"} \X {"moved_5bp"}) \cup
  ({"fx_prices"} \X {"uup_moved"}) \cup
  ({"option_chain"} \X {"iv_extreme"}) \cup
  ({"hot_rank"} \X {"listed"}) \cup
  ({"xq_hot"} \X {"listed"}) \cup
  ({"fund_flow_5d"} \X {"outflow"}) \cup
  ({"block_deals"} \X {"dealt"}) \cup
  ({"cls"} \X {"policy", "risk"})

MCFacts == MCData \cup MCEvents

MCFactSets == {MCFacts, MCData, {}}

MCFaults == Endpoints
=============================================================================

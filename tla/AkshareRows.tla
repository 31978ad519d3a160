----------------------------- MODULE AkshareRows -----------------------------
(***************************************************************************)
(* What mvp20/sources/akshare_source.py makes of the public web services   *)
(* behind AKShare: news, mood and capital rows of an A share, rows of the  *)
(* Chinese market and of its industries.  Every call is guarded, an        *)
(* undecodable answer counts as a failed one.                              *)
(***************************************************************************)
EXTENDS SourceRows

AkshareEndpoints ==
  {"em_news", "notices", "hot_rank", "hot_keyword", "xq_hot", "fund_flow_5d", "block_deals",
   "cls", "futures", "shipping", "boards"}

IntradayNews(w) ==
  Rows("stock", Records(w, "em_news"), {<<"L9.event.intraday_news", {{}}>>}, {"em_news"})

IntradayAnnouncement(w) ==
  Rows("stock", Records(w, "notices"), {<<"L9.event.intraday_announcement", {{}}>>}, {"notices"})

\* Two rows in any case: a list that could not be fetched does not have the
\* stock on it.
MediaSocialAndTheme(w) ==
  {Signal("stock", "L7.mood.media_social",
          "listed" \in Records(w, "hot_rank") \/ "rows" \in Records(w, "hot_keyword"), {"hot_rank", "hot_keyword"}),
   Signal("stock", "L7.mood.theme", "rows" \in Records(w, "hot_keyword"), {"hot_keyword"})}

\* Without the two rankings there is no row.
SocialBuzz(w) ==
  {Signal("stock", "L9.media.social_buzz", "listed" \in Records(w, "xq_hot"), {"xq_hot"}) :
     r \in Records(w, "xq_hot") \cap {"rows"}}

-----------------------------------------------------------------------------
(* Row batches that are cached for ten minutes.                            *)

\* A failed ranking is an empty one, whose rows are cached like any other.
OutflowCut(w) ==
  {Signal("stock", "L8.cap.outflow_cut", "outflow" \in Records(w, "fund_flow_5d"), {"fund_flow_5d"})}

EtfBlock(w) ==
  {Signal("stock", "L9.capital.etf_block", "dealt" \in Records(w, "block_deals"), {"block_deals"})}

\* The telegraph: headlines of the last day, and those with a policy or a risk
\* keyword.
ClsTelegraph(w) ==
  LET recs == Records(w, "cls") IN
  {Signal("market", "L9.media.report", "recent" \in recs, {"cls"}),
   Signal("market", "L9.industry.policy_change", {"recent", "policy"} \subseteq recs, {"cls"}),
   Signal("market", "L9.industry.compete_risk", {"recent", "risk"} \subseteq recs, {"cls"})}

RawMaterialBatch(w) ==
  Rows("industry", Records(w, "futures"), {<<"L0.cost.raw_material", {{"two_closes"}}>>}, {"futures"})

\* Crude oil or the freight index: one is enough.
EnergyLogistics(w) ==
  IF "crude" \in Records(w, "futures") \/ "two_values" \in Records(w, "shipping")
  THEN {Row("market", "L0.cost.energy_logistics", "Known", {"futures", "shipping"})} ELSE {}

SectorHeat(w) ==
  Rows("industry", Records(w, "boards"), {<<"L0.sentiment.sector_heat", {{"mapped"}}>>}, {"boards"})

AkshareBatch(w, cached) ==
  UNION {IntradayNews(w), IntradayAnnouncement(w), MediaSocialAndTheme(w), SocialBuzz(w), cached}
=============================================================================

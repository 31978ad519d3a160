----------------------------- MODULE SourceFetch -----------------------------
(***************************************************************************)
(* The collector's loop over its data sources: scripts/collector.py calls  *)
(* tushare, futu, fmp and akshare once a minute and upserts what they      *)
(* return.  The process keeps answers in memory caches whose entries expire*)
(* after five or ten minutes, so what a service said in one tick shows in  *)
(* the rows of later ticks.                                                *)
(*                                                                         *)
(* Endpoints fail and recover while the loop runs.  The services have the  *)
(* same facts to tell all along (facts), so that a row that differs from   *)
(* the one a healthy tick writes differs because of a fault.               *)
(***************************************************************************)
EXTENDS Sequences, TushareRows, UsRows, AkshareRows

CONSTANTS
    Facts,          \* the pairs <<endpoint, fact>> the services may know of
    FactSets,       \* the sets of facts to start from
    Faults,         \* endpoints that may fail
    Positions,      \* places of the A share among the constituents
    MaxFaults,      \* bound: faults per behaviour
    ShortTTL,       \* ticks: _FINA_CACHE_TTL_S, _PRICE_HIST_TTL_S
    LongTTL         \* ticks: _MACRO_CACHE_TTL_S, _DISCLOSURE_CACHE_TTL_S, _X2_CACHE_TTL_S, ...

Endpoints == TushareEndpoints \cup FutuEndpoints \cup FmpEndpoints \cup AkshareEndpoints

ASSUME SourceFetchAssumption ==
    /\ FactSets \subseteq SUBSET Facts
    /\ Facts \subseteq Endpoints \X STRING
    /\ Faults \subseteq Endpoints
    /\ Positions \subseteq Nat
    /\ MaxFaults \in Nat
    /\ ShortTTL \in Nat \ {0} /\ LongTTL \in Nat \ {0} /\ ShortTTL <= LongTTL

VARIABLES
    pc,             \* "fetching" or "sleeping"
    facts,          \* what the services know, fixed
    pos,            \* the place of the A share, fixed
    faults,         \* how many faults there have been
    fault,          \* the endpoint that does not answer properly, and how
    cache,          \* entry -> [age |-> ticks since it was put, val |-> records or rows]
    store,          \* rows of realtime_current
    sick            \* history: [e |-> endpoint, left |-> ticks its last fault may still show]

vars == <<pc, facts, pos, faults, fault, cache, store, sick>>

NoFault == [e |-> "none", kind |-> "rows"]

\* The world of this tick.
World(f, known, place) ==
  [ans |-> [e \in Endpoints |-> IF e = f.e THEN f.kind ELSE "rows"], has |-> known, pos |-> place]

-----------------------------------------------------------------------------
(* The caches                                                              *)

\* Records of the statement getters, of the reports and the daily histories of
\* bucket A, of the research, ranking and market snapshots of bucket B.
StatementEntries == {"income", "cashflow", "balancesheet", "fina_indicator"}
ReportEntries    == {"fina_mainbz", "forecast", "express"}
HistoryEntries   == {"daily_basic", "daily", "margin_detail"}
ResearchEntries  == {"report_rc", "dc_hot", "ths_hot", "top10_holders"}
SnapshotEntries  == {"daily_basic"}

RecordEntries ==
  UNION {StatementEntries, ReportEntries, HistoryEntries, ResearchEntries, SnapshotEntries, {"shibor_lpr"}}

PriceEntries == {"stock_prices", "index_prices"}

DisclosureEntries == {"irm_qa", "stock_company", "stk_managers"}

RowEntries == {"macro_cn", "macro_us", "outflow", "block", "cls", "raw_material", "energy", "heat"}

Entries == RecordEntries \cup PriceEntries \cup DisclosureEntries \cup {"options"} \cup RowEntries

TTL(k) == IF k \in RecordEntries \cup PriceEntries THEN ShortTTL ELSE LongTTL

\* Mutant: an entry is taken as long as it is there.
Hit_Forever(c, k) == c[k].age <= TTL(k) /\ c[k].val # {}

\* An entry that is used without a call.  Batches of rows are asked for again
\* when the last one was empty, and so are the policy rates.
Hit(c, k) ==
  /\ c[k].age < TTL(k)
  /\ k \in RowEntries \cup {"shibor_lpr"} => c[k].val # {}

\* What the call behind an entry returns.
Answer(w, k) ==
  CASE k \in PriceEntries -> Bars(w, k)
    [] k = "options" -> AtmOptionSnapshot(w)
    [] k = "macro_cn" -> MacroRows(w)
    [] k = "macro_us" -> MacroUs(w)
    [] k = "outflow" -> OutflowCut(w)
    [] k = "block" -> EtfBlock(w)
    [] k = "cls" -> ClsTelegraph(w)
    [] k = "raw_material" -> RawMaterialBatch(w)
    [] k = "energy" -> EnergyLogistics(w)
    [] k = "heat" -> SectorHeat(w)
    [] OTHER -> Records(w, k)

\* The entries put after a call: a failed call of a record getter is cached as
\* an empty answer, a failed disclosure call or telegraph is not cached.
Put(w, k) ==
  CASE k \in PriceEntries -> ~BatchRaises(w) /\ ~Garbled(w, k)
    [] k = "macro_us" -> ~BatchRaises(w)
    [] k = "options" -> ~FutuRaises(w)
    [] k \in DisclosureEntries -> Answered(w, k)
    [] k = "cls" -> "rows" \in Records(w, k)
    [] OTHER -> TRUE

InUse(c, w) == [k \in Entries |-> IF Hit(c, k) THEN c[k].val ELSE Answer(w, k)]

Refreshed(c, w) ==
  [k \in Entries |-> IF ~Hit(c, k) /\ Put(w, k) THEN [age |-> 0, val |-> Answer(w, k)] ELSE c[k]]

-----------------------------------------------------------------------------
(* The batches, in the order in which the sources append their rows.       *)

\* A disclosure answer taken from the cache counts as an answer.
Reply(c, w, k) == IF Hit(c, k) THEN "rows" ELSE w.ans[k]

Disclosure(c, w, u) ==
  UNION {IrmQa(Reply(c, w, "irm_qa"), u["irm_qa"], w.pos),
         StockCompany(Reply(c, w, "stock_company"), u["stock_company"]),
         ManagersTable(Reply(c, w, "stk_managers"), u["stk_managers"])}

\* The rows of the batch that aliases are made of.
DirectRows(w) ==
  UNION {DailyBasic(w), MoneyFlow(w), HkHold(w), CapitalEvents(w), Financials(w), FinaIndicator(w),
         HolderTrade(w), Forecast(w), MgmtLitigation(w), ReportRc(w), HistoricalPercentile(w)}

WithAliases(rows) ==
  LET after[i \in 0..Len(Aliases)] ==
        IF i = 0 THEN rows ELSE Upsert(after[i - 1], AliasRows(rows, Aliases[i]))
  IN  after[Len(Aliases)]

TushareBatch(c, w, u) ==
  UNION {WithAliases(DirectRows(w) \cup u["macro_cn"] \cup DerivedMetrics(u)),
         Disclosure(c, w, u), BucketA(u, Records(w, "moneyflow")), BucketB(u)}

FmpBatch(w, u) ==
  IF BatchRaises(w) THEN {}
  ELSE UNION {Statements(w), SecFilings(w), News(w), InstitutionalHolders(w), InsiderTrades(w),
              AnalystEstimates(w), Dcf(w), FinancialGrowth(w),
              PrepriceSurprise(w, u["stock_prices"], u["index_prices"]), NewsAge(w),
              ShortTechnical(u["stock_prices"]), u["macro_us"]}

AkshareCached(u) ==
  UNION {u["outflow"], u["block"], u["cls"], u["raw_material"], u["energy"], u["heat"]}

\* fetch_real_batch: one source after the other, the last row of a key stays.
RealBatch(c, w) ==
  LET u == InUse(c, w) IN
  Upsert(Upsert(Upsert(TushareBatch(c, w, u), FutuBatch(w, u["options"])), FmpBatch(w, u)),
         AkshareBatch(w, AkshareCached(u)))

-----------------------------------------------------------------------------

Cold == [k \in Entries |-> [age |-> TTL(k), val |-> {}]]

Init ==
    /\ pc = "fetching"
    /\ facts \in FactSets
    /\ pos \in Positions
    /\ faults = 0
    /\ fault = NoFault
    /\ cache = Cold
    /\ store = {}
    /\ sick = {}

\* One cycle of the loop: fetch from the four sources, upsert the batch.
Collect ==
    /\ pc = "fetching"
    /\ LET w == World(fault, facts, pos) IN
         /\ store' = Upsert(store, RealBatch(cache, w))
         /\ cache' = Refreshed(cache, w)
    /\ sick' = {[e |-> s.e, left |-> s.left - 1] : s \in {t \in sick : t.left > 1 /\ t.e # fault.e}}
                 \cup (IF fault = NoFault THEN {} ELSE {[e |-> fault.e, left |-> LongTTL]})
    /\ pc' = "sleeping"
    /\ UNCHANGED <<facts, pos, faults, fault>>

\* The rest of the minute passes.
Sleep ==
    /\ pc = "sleeping"
    /\ cache' = [k \in Entries |-> [cache[k] EXCEPT !.age = IF @ < TTL(k) THEN @ + 1 ELSE @]]
    /\ pc' = "fetching"
    /\ UNCHANGED <<facts, pos, faults, fault, store, sick>>

\* An endpoint stops answering properly.
Fail(e, kind) ==
    /\ pc = "fetching"
    /\ fault = NoFault
    /\ faults < MaxFaults
    /\ faults' = faults + 1
    /\ fault' = [e |-> e, kind |-> kind]
    /\ UNCHANGED <<pc, facts, pos, cache, store, sick>>

Recover ==
    /\ pc = "fetching"
    /\ fault # NoFault
    /\ fault' = NoFault
    /\ UNCHANGED <<pc, facts, pos, faults, cache, store, sick>>

Next ==
    \/ Collect
    \/ Sleep
    \/ \E e \in Faults, kind \in Answers \ {"rows"} : Fail(e, kind)
    \/ Recover

Spec == Init /\ [][Next]_vars

-----------------------------------------------------------------------------
(* Properties                                                              *)

Calm(known, place) == World(NoFault, known, place)

\* What a tick writes when every endpoint answers and nothing is cached.
HealthyOf == [known \in FactSets, place \in Positions |-> RealBatch(Cold, Calm(known, place))]

Healthy == HealthyOf[facts, pos]

\* Data points that depend, in status or value, on an endpoint their source
\* label does not name.
Unlabelled ==
  {<<"L8.op.inventory_glut", "income">>, <<"L4.cost.raw_material", "cashflow">>,
   <<"L8.cap.crowdedness", "moneyflow">>, <<"L11.short.technical", "stock_prices">>,
   <<"L5.surprise.preprice", "stock_prices">>, <<"L5.surprise.preprice", "index_prices">>}
    \cup ({"L6.priced.iv", "L7.trade.iv", "L7.trade.options_cp"} \X {"snapshot"})

\* The endpoints named by a row's source label or by that of the row a healthy
\* tick writes in its place (a US multiple of Futu shows where FMP has none).
Blamed(q) == q.src \cup UNION {h.src : h \in {g \in Healthy : Key(g) = Key(q)}}

\* A fault stays where it belongs: a stored row that is not, in status and value,
\* the one a healthy tick writes can be traced to an endpoint that failed no longer than the
\* longest cache lifetime ago, named by the source labels.  The exceptions are
\* the data points of Unlabelled and an undecodable statement, which takes the
\* whole FMP batch with it so that Futu's multiples show.  Caches, shared getters and the order in which the
\* sources overwrite each other must not carry it anywhere else.
FaultsStayLocal ==
  pc = "sleeping" =>
    \A q \in store \ Healthy : \E s \in sick :
      \/ s.e \in Blamed(q)
      \/ <<q.dp, s.e>> \in Unlabelled
      \/ s.e \in StatementEndpoints /\ Blamed(q) \cap StatementEndpoints # {}

\* Once a fault is over for as long as the longest cache lifetime the store is
\* the one an unfailing collector would have: no row is missing, none is left
\* over.
StoreRecovers == (pc = "sleeping" /\ sick = {}) => store = Healthy

\* A fault of an endpoint is confined to the rows that name it while it lasts,
\* and leaves nothing behind when it is over.
FaultsPass == FaultsStayLocal /\ StoreRecovers

\* Rows that a failed call turns into the claim that there is nothing: their
\* fetchers take no answer for an empty one.
Optimistic ==
  LET w == Calm({}, 1)
      u == InUse(Cold, w)
  IN  {Key(q) : q \in UNION {DerivedMetrics(u), BucketA(u, {}), BucketB(u), PricedIv({}), TradeIv({}),
                            OptionsCp({}), MediaSocialAndTheme(w), OutflowCut(w), EtfBlock(w),
                            ClsTelegraph(w), MacroUs(w), NewsAge(w), ShortTechnical({}),
                            PrepriceSurprise(w, {}, {})}}

\* A call that fails is not the answer that nothing happened: outside those
\* rows a stored value is only replaced by Inactive when the service did answer
\* (or denied a third stock in a row, irm_qa).
ErrorsAreNotAbsence ==
  [][\A r \in store' \ store :
       r.status = "Inactive" /\ (\E q \in store : Key(q) = Key(r) /\ q.status # "Inactive")
         => \/ fault.kind = "empty"
            \/ Key(r) \in Optimistic
            \/ fault = [e |-> "irm_qa", kind |-> "denied"] /\ pos >= DenialLimit]_vars
=============================================================================

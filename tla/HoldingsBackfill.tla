-------------------------- MODULE HoldingsBackfill --------------------------
(***************************************************************************)
(* data_platform/holdings_backfill.py: a request is turned into a plan of  *)
(* items, the items are fetched and written one by one as raw artifacts,   *)
(* each under a fresh run id.  The raw asset command and the daily refresh *)
(* (adapters/tushare) write artifacts of the same partitions.  What counts *)
(* is what staging makes of a partition: the dbt macro stg_latest_raw      *)
(* keeps the last artifact of a partition or, for the two holder tables,   *)
(* of each request.                                                        *)
(*                                                                         *)
(* Texts are strings, Blank an empty one; splitting at commas is left out. *)
(* A day is a number, 0 a text that is no date; a month is a block of      *)
(* MonthDays days, month m being month m % 12 + 1 of its year.  Writing an *)
(* artifact is one step here and has its steps in RawZone.                 *)
(***************************************************************************)
EXTENDS Integers, FiniteSetsExt, SequencesExt

CONSTANTS
    HoldingsProcs,      \* runs of the commands
    HoldingsRequests,   \* arguments of scripts/holdings_backfill.py; live is "no",
                        \* "ungated" (--execute-live without the environment) or "yes"
    DryRequests,        \* those that end with their plan
    WindowRequests,     \* arguments of its plan-only MVP20 mode
    AssetRequests,      \* arguments of the raw asset command and of the refresh
    ServiceRows,        \* the rows the service may have, in the order it lists them
    FirstService,       \* those it has at first
    Unsteady,           \* those it publishes late or withdraws
    MonthDays, LastHoldDay, DefaultEndMonth, WindowMonths, StockCount, AShares,
    PageLimit, MaxRetries, MaxAssets, MaxChanges

(* Requests are lists of texts and of days; a month has more than a day,   *)
(* a plan takes at least one stock and a page at least one row.            *)
ASSUME HoldingsAssumption ==
    /\ \A r \in HoldingsRequests \cup DryRequests :
          /\ {r.datasets, r.stocks, r.funds, r.markets, r.exchanges} \subseteq Seq(STRING)
          /\ {r.periods, r.days, r.range} \subseteq Seq(Nat) /\ Len(r.range) <= 2
    /\ \A r \in WindowRequests : {r.stocks, r.funds} \subseteq Seq(STRING) /\ r.end \in Int
    /\ \A r \in AssetRequests : r.codes \in Seq(STRING) /\ r.day \in Nat
    /\ DOMAIN ServiceRows = 1..Len(ServiceRows) /\ Len(ServiceRows) \in Nat
    /\ FirstService \subseteq SUBSET DOMAIN ServiceRows /\ Unsteady \subseteq DOMAIN ServiceRows
    /\ {MonthDays, LastHoldDay, StockCount, PageLimit} \subseteq Nat \ {0} /\ MonthDays > 1
    /\ {DefaultEndMonth, WindowMonths, MaxRetries} \subseteq Nat

VARIABLES holding,      \* the command of each process
          zone,         \* the artifacts in the order they were written
          service,      \* the rows the service has
          changes       \* how often it changed (bounded by MaxChanges)

holdingsVars == <<holding, zone, service, changes>>

Blank == ""

HolderDatasets == {"top10_holders", "top10_floatholders"}
HoldingsDatasets == HolderDatasets \cup {"fund_portfolio", "hsgt_top10", "hsgt_hold_top10"}
PagedDatasets == {"fund_portfolio", "hsgt_hold_top10"}
HoldExchanges == <<"SH", "SZ">>

-----------------------------------------------------------------------------
(* Planning *)

Each(s, Op(_)) == FlattenSeq([i \in DOMAIN s |-> Op(s[i])])

(* The elements of s that are in T, in their order. *)
Only(s, T) == FlattenSeq([i \in DOMAIN s |-> IF s[i] \in T THEN <<s[i]>> ELSE <<>>])

Distinct(s) == FlattenSeq([i \in DOMAIN s |-> IF \E j \in 1..(i - 1) : s[j] = s[i] THEN <<>> ELSE <<s[i]>>])

NonEmpty(s) == Distinct(Only(s, ToSet(s) \ {Blank}))

PlannedItem(dataset, day, code, leg) ==
    [dataset |-> dataset, status |-> "planned", day |-> day, fetchDay |-> day,
     codes |-> <<code>>, leg |-> leg, path |-> "backfill", reason |-> Blank]

(* An item that is only noted in the plan. *)
NotedItem(dataset, status, day, reason) ==
    [dataset |-> dataset, status |-> status, day |-> day, fetchDay |-> 0,
     codes |-> <<>>, leg |-> Blank, path |-> "backfill", reason |-> reason]

SkippedItem(dataset, day, reason) == NotedItem(dataset, "skipped", day, reason)

RejectedItem(dataset, reason) == NotedItem(dataset, "rejected", 0, reason)

WithStatus(items, status) == Only(items, {i \in ToSet(items) : i.status = status})

NormalizeDatasets(datasets) ==
    LET given == NonEmpty(datasets)
        odd == Only(given, ToSet(given) \ HoldingsDatasets)
    IN  [ok |-> Only(given, HoldingsDatasets),
         no |-> IF given = <<>> THEN <<RejectedItem("holdings", "missing_datasets")>>
                ELSE [i \in DOMAIN odd |-> RejectedItem(odd[i], "unsupported_dataset")]]

ParseDates(days, reason) ==
    [ok |-> Distinct(Only(days, ToSet(days) \ {0})),
     no |-> IF 0 \in ToSet(days) THEN <<RejectedItem("holdings", reason)>> ELSE <<>>]

(* range: the given ones of start_date and end_date *)
ResolveTradeDates(days, range) ==
    LET given == ParseDates(days, "invalid_trade_date")
        Refused(reason) == [ok |-> given.ok, no |-> Append(given.no, RejectedItem("holdings", reason))]
    IN  CASE range = <<>> -> given
          [] Len(range) = 1 -> Refused("incomplete_date_range")
          [] Len(range) = 2 /\ (0 \in ToSet(range) \/ range[1] > range[2]) -> Refused("invalid_date_range")
          [] OTHER -> [ok |-> Distinct(given.ok \o [i \in 1..(range[2] - range[1] + 1) |-> range[1] + i - 1]),
                       no |-> given.no]

MissingInputs(dataset) == <<RejectedItem(dataset, "missing_bounded_inputs")>>

PlanByPeriod(dataset, codes, periods) ==
    IF <<>> \in {codes, periods} THEN MissingInputs(dataset)
    ELSE Each(codes, LAMBDA c : [i \in DOMAIN periods |-> PlannedItem(dataset, periods[i], c, Blank)])

PlanTop10(days, markets, stocks) ==
    IF <<>> \in {days, markets, stocks} THEN MissingInputs("hsgt_top10")
    ELSE Each(days, LAMBDA d : Each(markets, LAMBDA m :
            [i \in DOMAIN stocks |-> PlannedItem("hsgt_top10", d, stocks[i], m)]))

PlanHoldUncut(days, exchanges, stocks) ==
    IF <<>> \in {days, exchanges, stocks} THEN MissingInputs("hsgt_hold_top10")
    ELSE Each(days, LAMBDA d : Each(exchanges, LAMBDA x :
            [i \in DOMAIN stocks |-> PlannedItem("hsgt_hold_top10", d, stocks[i], x)]))

PlanHold(days, exchanges, stocks) ==
    IF <<>> \in {days, exchanges, stocks} THEN MissingInputs("hsgt_hold_top10")
    ELSE Each(days, LAMBDA d : Each(exchanges, LAMBDA x :
            [i \in DOMAIN stocks |->
                IF d > LastHoldDay THEN SkippedItem("hsgt_hold_top10", d, "post_publication_cutoff")
                ELSE PlannedItem("hsgt_hold_top10", d, stocks[i], x)]))

PlanDataset(dataset, r, periods, days) ==
    CASE dataset \in HolderDatasets -> PlanByPeriod(dataset, NonEmpty(r.stocks), periods)
      [] dataset = "fund_portfolio" -> PlanByPeriod(dataset, NonEmpty(r.funds), periods)
      [] dataset = "hsgt_top10" -> PlanTop10(days, NonEmpty(r.markets), NonEmpty(r.stocks))
      [] dataset = "hsgt_hold_top10" -> PlanHold(days, NonEmpty(r.exchanges), NonEmpty(r.stocks))

Limited(items, limit) ==
    IF Len(WithStatus(items, "planned")) <= limit THEN items
    ELSE Append(items, RejectedItem("holdings", "plan_item_limit_exceeded"))

BuildPlan(r) ==
    LET sets == NormalizeDatasets(r.datasets)
        periods == ParseDates(r.periods, "invalid_period")
        days == ResolveTradeDates(r.days, r.range)
        items == Each(sets.ok, LAMBDA d : PlanDataset(d, r, periods.ok, days.ok))
    IN  Limited(sets.no \o periods.no \o days.no \o items, r.limit)

-----------------------------------------------------------------------------
(* The MVP20 window: fixed numbers of stocks and of months, plan only. *)

MonthOf(day) == day \div MonthDays
MonthEnd(month) == (month + 1) * MonthDays - 1
QuarterEnds(months) == Only(months, {m \in ToSet(months) : m % 3 = 2})

(* 0 for no text, -1 for one that is no month *)
EndMonth(text) == IF text = 0 THEN DefaultEndMonth ELSE text

MonthWindow(end) == [i \in 1..WindowMonths |-> end - WindowMonths + i]

HoldDays(months) ==
    LET late == {m \in ToSet(months) : MonthEnd(m) > LastHoldDay}
        capped == late \cap {MonthOf(LastHoldDay)}
        omitted == late \ capped
        kept == Only(months, ToSet(months) \ omitted)
    IN  [days |-> Distinct([i \in DOMAIN kept |->
                    IF kept[i] \in capped THEN LastHoldDay ELSE MonthEnd(kept[i])]),
         gaps |-> {g \in {"partial_month_provider_cutoff", "post_publication_cutoff"} :
                    IF g = "post_publication_cutoff" THEN omitted # {} ELSE capped # {}}]

WindowStocksFit(stocks) ==
    /\ Len(NonEmpty(stocks)) = StockCount
    /\ ToSet(NonEmpty(stocks)) \subseteq AShares

WindowRequest(datasets, r, periods, days) ==
    [datasets |-> datasets, stocks |-> r.stocks, funds |-> r.funds, periods |-> periods, days |-> days,
     range |-> <<>>, markets |-> <<"1", "3">>, exchanges |-> HoldExchanges, limit |-> r.limit, live |-> "no"]

WindowPlan(r) ==
    LET months == MonthWindow(EndMonth(r.end))
        Ends(ms) == [i \in DOMAIN ms |-> MonthEnd(ms[i])]
        periods == Ends(QuarterEnds(months))
        hold == HoldDays(months)
        funded == NonEmpty(r.funds) # <<>>
        parts == <<WindowRequest(<<"top10_holders", "top10_floatholders">>, r, periods, <<>>),
                   WindowRequest(<<"hsgt_top10">>, r, <<>>, Ends(months)),
                   WindowRequest(<<"hsgt_hold_top10">>, r, <<>>, hold.days),
                   WindowRequest(<<"fund_portfolio">>, r, periods, <<>>)>>
        Asked(part) ==
            CASE part.datasets[1] = "hsgt_hold_top10" -> hold.days # <<>>
              [] part.datasets[1] = "fund_portfolio" -> funded
              [] OTHER -> TRUE
    IN  [months |-> months,
         items |-> Limited(Each(Only(parts, {x \in ToSet(parts) : Asked(x)}), BuildPlan), r.limit),
         gaps |-> hold.gaps \cup {"holder_identity_resolution_deferred"}
                  \cup (IF funded THEN {} ELSE {"related_fund_codes_unresolved_plan_only"})]

-----------------------------------------------------------------------------
(* Execution *)

NoAsset == [pc |-> "idle", items |-> <<>>, at |-> 0, piece |-> 1, offset |-> 0, got |-> {}, tries |-> 0,
            steady |-> {}, withdrawn |-> FALSE, exit |-> "none", window |-> <<>>]

HoldingsInit ==
    /\ holding = [p \in HoldingsProcs |-> NoAsset]
    /\ zone = <<>>
    /\ service \in FirstService
    /\ changes = 0

(* _validate_planned_item_for_execution: items are checked again, since a  *)
(* plan may come from elsewhere.                                           *)
Executable(item) ==
    /\ item.day # 0 /\ item.fetchDay = item.day
    /\ item.codes # <<>> /\ Blank \notin ToSet(item.codes)
    /\ item.dataset \in {"hsgt_top10", "hsgt_hold_top10"} => item.leg # Blank
    /\ item.dataset = "hsgt_hold_top10" => item.day <= LastHoldDay
    /\ item.dataset \in HoldingsDatasets

(* The calls of the adapter that answer an item: one per code of a list,   *)
(* one series of pages per exchange when hk_hold is asked for without one. *)
Pieces(item) ==
    LET code == IF item.codes = <<>> THEN Blank ELSE item.codes[1]
    IN  IF Len(item.codes) > 1 THEN [k \in DOMAIN item.codes |-> [code |-> item.codes[k], leg |-> item.leg]]
        ELSE IF item.dataset = "hsgt_hold_top10" /\ item.leg = Blank
        THEN [k \in DOMAIN HoldExchanges |-> [code |-> code, leg |-> HoldExchanges[k]]]
        ELSE <<[code |-> code, leg |-> item.leg]>>

(* The numbers of the rows the service has for a call, in its order. *)
RowsFor(item, piece) ==
    LET answer == {n \in service : /\ ServiceRows[n].dataset = item.dataset /\ ServiceRows[n].day = item.fetchDay
                                   /\ piece.code \in {Blank, ServiceRows[n].code}
                                   /\ piece.leg \in {Blank, ServiceRows[n].leg}}
    IN  Only([n \in DOMAIN ServiceRows |-> n], answer)

AnsweredRows(item) == UNION {ToSet(RowsFor(item, Pieces(item)[k])) : k \in DOMAIN Pieces(item)}

CommandEnded(c, exit) == [NoAsset EXCEPT !.pc = "done", !.exit = exit, !.items = c.items, !.window = c.window]

Failed == CommandEnded(NoAsset, "failed")

(* The command goes on with item k of its plan; past the last it is done. *)
GoOn(c, k) ==
    IF k > Len(c.items) THEN CommandEnded(c, "ok")
    ELSE [c EXCEPT !.pc = IF c.items[k].status = "planned" THEN "fetch" ELSE "skip",
                   !.at = k, !.piece = 1, !.offset = 0, !.got = {}, !.tries = 0, !.withdrawn = FALSE,
                   !.steady = IF c.items[k].status = "planned" THEN AnsweredRows(c.items[k]) ELSE {}]

(* What becomes of a plan: it is printed, refused, or executed. *)
Begun(r, items) ==
    LET planned == WithStatus(items, "planned")
        c == [NoAsset EXCEPT !.items = items]
    IN  IF r.limit < 1 THEN Failed
        ELSE IF WithStatus(items, "rejected") # <<>> THEN CommandEnded(c, "rejected")
        ELSE IF r.live = "no" THEN CommandEnded(c, "planned")
        ELSE IF r.live = "ungated" \/ \E i \in DOMAIN planned : ~Executable(planned[i]) THEN Failed
        ELSE GoOn(c, 1)

StartHoldings(p, r) ==
    /\ holding[p].pc = "idle"
    /\ holding' = [holding EXCEPT ![p] = Begun(r, BuildPlan(r))]
    /\ UNCHANGED <<zone, service, changes>>

WindowEnded(w) ==
    CommandEnded([NoAsset EXCEPT !.items = w.items, !.window = <<w>>],
                 IF WithStatus(w.items, "rejected") # <<>> THEN "rejected" ELSE "planned")

StartWindow(p, r) ==
    /\ holding[p].pc = "idle"
    /\ holding' = [holding EXCEPT ![p] =
           IF ~WindowStocksFit(r.stocks) \/ r.end = -1 \/ r.limit < 1 THEN Failed
           ELSE WindowEnded(WindowPlan(r))]
    /\ UNCHANGED <<zone, service, changes>>

(* A list of codes is for the holder tables only, which need at least one. *)
AssetFits(r) ==
    /\ r.dataset \in HolderDatasets => r.codes # <<>>
    /\ Len(r.codes) > 1 => r.dataset \in HolderDatasets

StartAsset(p, r) ==
    LET item == [PlannedItem(r.dataset, r.day, Blank, r.leg) EXCEPT !.codes = r.codes, !.path = "asset"]
        c == [NoAsset EXCEPT !.items = <<item>>]
    IN  /\ holding[p].pc = "idle"
        /\ holding' = [holding EXCEPT ![p] = IF AssetFits(r) THEN GoOn(c, 1) ELSE Failed]
        /\ UNCHANGED <<zone, service, changes>>

SkipItem(p) ==
    /\ holding[p].pc = "skip"
    /\ holding' = [holding EXCEPT ![p] = GoOn(@, @.at + 1)]
    /\ UNCHANGED <<zone, service, changes>>

ItemOf(p) == holding[p].items[holding[p].at]

LastPageOrFull(page) == Len(page) <= PageLimit

LastPage(page) == Len(page) < PageLimit

(* One call of the service.  A table without rows is an error, and so is a *)
(* page that repeats a row: the offset did not advance.                    *)
FetchPage(p) ==
    LET c == holding[p]
        item == ItemOf(p)
        pieces == Pieces(item)
        paged == item.dataset \in PagedDatasets
        found == RowsFor(item, pieces[c.piece])
        page == IF paged THEN SubSeq(found, c.offset + 1, Min({c.offset + PageLimit, Len(found)})) ELSE found
        pieceEnds == ~paged \/ LastPage(page)
        itemEnds == pieceEnds /\ c.piece = Len(pieces)
        raises == \/ ~paged /\ page = <<>>
                  \/ paged /\ ToSet(page) \cap c.got # {}
                  \/ paged /\ itemEnds /\ c.got \cup ToSet(page) = {}
        next == [c EXCEPT !.got = @ \cup ToSet(page)]
    IN  /\ c.pc = "fetch"
        /\ holding' = [holding EXCEPT ![p] =
               CASE raises -> Failed
                 [] ~raises /\ itemEnds -> [next EXCEPT !.pc = "write"]
                 [] ~raises /\ pieceEnds /\ ~itemEnds ->
                        [next EXCEPT !.piece = @ + 1, !.offset = 0, !.tries = IF paged THEN @ ELSE 0]
                 [] ~raises /\ ~pieceEnds -> [next EXCEPT !.offset = @ + Len(page)]]
        /\ UNCHANGED <<zone, service, changes>>

(* Answer 429: BaseAdapter.fetch calls _fetch again, from its first page. *)
RateLimited(p) ==
    LET c == holding[p]
        again == IF ItemOf(p).dataset \in PagedDatasets THEN GoOn(c, c.at) ELSE c
    IN  /\ c.pc = "fetch" /\ c.tries < MaxRetries
        /\ holding' = [holding EXCEPT ![p] = [again EXCEPT !.tries = c.tries + 1]]
        /\ UNCHANGED <<zone, service, changes>>

(* Any other exception of the call, the last 429 included. *)
FetchRaises(p) ==
    /\ holding[p].pc = "fetch"
    /\ holding' = [holding EXCEPT ![p] = Failed]
    /\ UNCHANGED <<zone, service, changes>>

(* request_params_hash; the asset command adds the list of fields to it. *)
ScopeOf(item) == [path |-> item.path, day |-> item.fetchDay, codes |-> item.codes, leg |-> item.leg]

(* missed and withdrawn record how the artifact came about. *)
WriteHoldings(p) ==
    LET c == holding[p]
        item == ItemOf(p)
    IN  /\ c.pc = "write"
        /\ zone' = Append(zone, [dataset |-> item.dataset, day |-> item.day, scope |-> ScopeOf(item), rows |-> c.got,
                                 missed |-> c.steady \ c.got, withdrawn |-> c.withdrawn])
        /\ holding' = [holding EXCEPT ![p] = GoOn(@, @.at + 1)]
        /\ UNCHANGED <<service, changes>>

HoldingsDies(p) ==
    /\ holding[p].pc \in {"fetch", "write", "skip"}
    /\ holding' = [holding EXCEPT ![p] = Failed]
    /\ UNCHANGED <<zone, service, changes>>

(* The operator starts the next command; the artifacts stay. *)
NextHoldings(p) ==
    /\ holding[p].pc = "done" /\ Len(zone) < MaxAssets
    /\ holding' = [holding EXCEPT ![p] = NoAsset]
    /\ UNCHANGED <<zone, service, changes>>

(* The service publishes a row late or withdraws one. *)
ServiceChanges(n) ==
    /\ changes < MaxChanges
    /\ changes' = changes + 1
    /\ service' = IF n \in service THEN service \ {n} ELSE service \cup {n}
    /\ holding' = [p \in HoldingsProcs |->
          IF holding[p].pc = "fetch" /\ n \in service
          THEN [holding[p] EXCEPT !.steady = @ \ {n}, !.withdrawn = TRUE] ELSE holding[p]]
    /\ UNCHANGED zone

(* A plan that is not executed reads and writes nothing, so these commands *)
(* are explored apart from the others.                                     *)
PlanNext ==
    \E p \in HoldingsProcs :
        \/ \E r \in DryRequests : StartHoldings(p, r)
        \/ \E r \in WindowRequests : StartWindow(p, r)
        \/ NextHoldings(p)

HoldingsNext ==
    \/ \E p \in HoldingsProcs :
          \/ \E r \in HoldingsRequests : StartHoldings(p, r)
          \/ \E r \in AssetRequests : StartAsset(p, r)
          \/ SkipItem(p) \/ FetchPage(p) \/ RateLimited(p) \/ FetchRaises(p) \/ WriteHoldings(p)
          \/ HoldingsDies(p) \/ NextHoldings(p)
    \/ \E n \in Unsteady : ServiceChanges(n)

HoldingsSpec == HoldingsInit /\ [][HoldingsNext \/ PlanNext]_holdingsVars

-----------------------------------------------------------------------------
(* Staging: the artifacts of a partition whose rows the view shows. *)

StagedUnscoped(dataset, day) ==
    LET here == {k \in DOMAIN zone : zone[k].dataset = dataset /\ zone[k].day = day}
    IN  {k \in here : \A j \in here : j <= k}

Staged(dataset, day) ==
    LET here == {k \in DOMAIN zone : zone[k].dataset = dataset /\ zone[k].day = day}
    IN  {k \in here : \A j \in here :
            (dataset \notin HolderDatasets \/ zone[j].scope = zone[k].scope) => j <= k}

-----------------------------------------------------------------------------
(* Properties *)

(* A backfill that ends with 0 has every planned request of the holder     *)
(* tables on stage, whoever else wrote into its partitions before, between *)
(* or after its items (stg_latest_raw with request_scoped).                *)
FinishedIsStaged ==
    \A p \in HoldingsProcs : holding[p].exit = "ok" =>
        \A i \in ToSet(WithStatus(holding[p].items, "planned")) : i.dataset \in HolderDatasets =>
            \E k \in Staged(i.dataset, i.day) : zone[k].scope = ScopeOf(i)

(* Retries, reruns after a death and overlapping commands do not put a row *)
(* on stage twice; only the two ways of writing do, a backfill item and an *)
(* asset command, or two lists that share a code, whose request hashes     *)
(* differ.                                                                 *)
StagedOnceUnlessMixed ==
    \A j, k \in DOMAIN zone :
        (/\ zone[j].dataset = zone[k].dataset /\ zone[j].day = zone[k].day
         /\ {j, k} \subseteq Staged(zone[j].dataset, zone[j].day)
         /\ zone[j].rows \cap zone[k].rows # {} /\ j # k)
            => "asset" \in {zone[j].scope.path, zone[k].scope.path}

(* A row that the service had during the whole of a fetch is in the        *)
(* artifact, however its answer was cut into pages and repeated, unless a  *)
(* row was withdrawn in between and the offsets moved over another one.    *)
SteadyRowsKept == \A k \in DOMAIN zone : zone[k].withdrawn \/ zone[k].missed = {}

(* No backfill asks for northbound holdings past the last published day,   *)
(* and every month of an MVP20 window is planned for every stock and       *)
(* exchange or is one of those a recorded gap stands for.                  *)
WindowIsExplained ==
    \A p \in HoldingsProcs :
        LET items == ToSet(WithStatus(holding[p].items, "planned"))
            holds == {i \in items : i.dataset = "hsgt_hold_top10" /\ i.path = "backfill"}
        IN  /\ \A i \in holds : i.day <= LastHoldDay
            /\ holding[p].window # <<>> =>
                 LET w == holding[p].window[1]
                 IN  \A m \in ToSet(w.months), x \in ToSet(HoldExchanges) :
                        IF m > MonthOf(LastHoldDay) THEN "post_publication_cutoff" \in w.gaps
                        ELSE \E i \in holds :
                                /\ MonthOf(i.day) = m /\ i.leg = x
                                /\ i.day # MonthEnd(m) => "partial_month_provider_cutoff" \in w.gaps

(* The backfill of holdings keeps its promises to staging (above). *)
BackfillSafe == FinishedIsStaged /\ StagedOnceUnlessMixed /\ SteadyRowsKept /\ WindowIsExplained
=============================================================================

---------------------------- MODULE WorkerMarket ----------------------------
(***************************************************************************)
(* The worker's own copies of what module Market models of the api: they   *)
(* "mirror" the formulas, "the two must stay in sync", and they share no   *)
(* code.  Taken from Market are the data and plain arithmetic.             *)
(***************************************************************************)
EXTENDS Market, FiniteSets

-----------------------------------------------------------------------------
(***************************************************************************)
(* Signals                                                                 *)
(***************************************************************************)
WorkerPrimary(card) ==
  IF card.sell # <<>> THEN card.sell ELSE IF card.floor # <<>> THEN card.floor ELSE card.buy

\* The earliest of the earlier observations that are nearest to so many days
\* before the latest.
WorkerBaseline(series, days) ==
  LET n == Len(series)
      off == [i \in 1 .. n - 1 |-> LET d == series[i].age - series[n].age IN IF d < days THEN days - d ELSE d - days]
      nearest == {i \in DOMAIN off : \A j \in DOMAIN off : off[i] <= off[j]} IN
  series[CHOOSE i \in nearest : \A j \in nearest : i <= j].price

WorkerMovement(card) ==
  LET series == WorkerPrimary(card)
      window(days, threshold, up, down) ==
        LET base == WorkerBaseline(series, days)
            pct == Pct(Latest(series) - base, base) IN
        CASE base # 0 /\ pct >= threshold -> <<Signal(up, None, "monitor_momentum", pct)>>
          [] base # 0 /\ pct <= -threshold -> <<Signal(down, None, "monitor_drop", pct)>>
          [] OTHER -> <<>> IN
  IF Len(series) <= 1 THEN <<>>
  ELSE window(7, 1000, "price_up_7d", "price_down_7d") \o window(30, 2000, "price_up_30d", "price_down_30d")

\* Mutant: the spread is a share of the buying price.
WorkerSpread_OfBuy(card) ==
  LET sell == Latest(card.sell)  buy == Latest(card.buy) IN
  IF sell = None \/ buy = None \/ sell = 0 \/ buy = 0 THEN <<>>
  ELSE LET pct == Pct(sell - buy, buy) IN
       CASE pct <= 2000 -> <<Signal("yuyutei_buy_sell_spread_compressed", None, "review_sell_opportunity", pct)>>
         [] pct >= 4500 -> <<Signal("yuyutei_buy_sell_spread_wide", None, "none", pct)>>
         [] OTHER -> <<>>

WorkerSpread(card) ==
  LET sell == Latest(card.sell)  buy == Latest(card.buy) IN
  IF sell = None \/ buy = None \/ sell = 0 THEN <<>>
  ELSE LET pct == Pct(sell - buy, sell) IN
       CASE pct <= 2000 -> <<Signal("yuyutei_buy_sell_spread_compressed", None, "review_sell_opportunity", pct)>>
         [] pct >= 4500 -> <<Signal("yuyutei_buy_sell_spread_wide", None, "none", pct)>>
         [] OTHER -> <<>>

WorkerGap(card) ==
  LET sell == Latest(card.sell)  floor == Latest(card.floor) IN
  IF sell = None \/ floor = None \/ sell = 0 THEN <<>>
  ELSE LET pct == Pct(floor - sell, sell) IN
       CASE pct <= -1000 -> <<Signal("snkrdunk_floor_below_yuyutei_sell", None, "review_buy_opportunity", pct)>>
         [] pct >= 1000 -> <<Signal("snkrdunk_floor_above_yuyutei_sell", None, "review_sell_opportunity", pct)>>
         [] OTHER -> <<>>

WorkerOwned(card) ==
  LET value == IF Latest(card.floor) # None THEN Latest(card.floor) ELSE Latest(card.sell)
      above(item, i) ==
        IF item.target = None \/ value < item.target THEN <<>>
        ELSE <<Signal("owned_above_target_sell", i, "review_sell_opportunity", 0)>>
      below(item, i) ==
        IF item.cost = None \/ value >= item.cost THEN <<>>
        ELSE <<Signal("owned_below_cost_basis", i, "monitor_drop", Pct(value - item.cost, item.cost))>> IN
  IF value = None THEN <<>>
  ELSE FlattenSeq([i \in DOMAIN card.items |-> above(card.items[i], i) \o below(card.items[i], i)])

WorkerDataQuality(card) ==
  LET prices == [yuyutei |-> card.sell \o card.buy, snkrdunk |-> card.floor]
      limit == [yuyutei |-> 1, snkrdunk |-> 7]
      missing == {s \in card.mapped : prices[s] = <<>>}
      stale == {s \in card.mapped \ missing : {prices[s][i].age : i \in DOMAIN prices[s]} \intersect 0..limit[s] = {}} IN
  (IF missing = {} THEN <<>> ELSE <<Signal("missing_recent_price", None, "review_mapping", 0)>>)
    \o IF stale = {} THEN <<>> ELSE <<Signal("stale_mapping_price", None, "update_prices", 0)>>

\* compute_all_signals: there is no wishlist_target_hit.
WorkerSignals(card) ==
  WorkerMovement(card) \o WorkerSpread(card) \o WorkerGap(card) \o WorkerOwned(card) \o WorkerDataQuality(card)

-----------------------------------------------------------------------------
(***************************************************************************)
(* The value of a collection and the ranking of events                     *)
(***************************************************************************)
\* create_portfolio_valuation_snapshot and _portfolio_snapshot: no item is
\* taken by its grade.
WorkerValuation(items) ==
  LET Add(sum, item) ==
        LET value(price) == IF price = None THEN 0 ELSE price * item.quantity
            one(condition) == IF condition THEN 1 ELSE 0
            sell == Latest(item.card.sell)  buy == Latest(item.card.buy)  floor == Latest(item.card.floor) IN
        [cost |-> sum.cost + value(item.cost), retail |-> sum.retail + value(sell),
         liquidation |-> sum.liquidation + value(buy), floor |-> sum.floor + value(floor),
         no_sell |-> sum.no_sell + one(sell = None), no_buy |-> sum.no_buy + one(buy = None),
         no_floor |-> sum.no_floor + one(floor = None), no_cost |-> sum.no_cost + one(item.cost = None),
         no_price |-> sum.no_price + one(sell = None /\ buy = None /\ floor = None),
         above |-> sum.above + one(item.target # None /\ floor # None /\ floor >= item.target)] IN
  FoldLeft(Add, [cost |-> 0, retail |-> 0, liquidation |-> 0, floor |-> 0, no_sell |-> 0, no_buy |-> 0,
                 no_floor |-> 0, no_cost |-> 0, no_price |-> 0, above |-> 0], items)

\* _score_and_build: the wishlist counts for nothing.
WorkerScore(event) ==
  LET base == [review_buy_opportunity |-> 60, review_sell_opportunity |-> 65, monitor_momentum |-> 50,
               monitor_drop |-> 45, review_mapping |-> 30, update_prices |-> 25, add_collection_target |-> 20]
      by_type == [snkrdunk_floor_below_yuyutei_sell |-> 20, snkrdunk_floor_above_yuyutei_sell |-> 15,
                  yuyutei_buy_sell_spread_compressed |-> 15, yuyutei_buy_sell_spread_wide |-> 10,
                  price_up_7d |-> 12, price_up_30d |-> 10, price_down_7d |-> 8, price_down_30d |-> 8,
                  owned_above_target_sell |-> 25, owned_below_cost_basis |-> 15,
                  missing_recent_price |-> -10, stale_mapping_price |-> -5]
      size == IF event.metric < 0 THEN -event.metric ELSE event.metric
      metric == IF event.metric = None \/ size < 1000 THEN 0 ELSE IF size < 2000 THEN 5 ELSE IF size < 4000 THEN 10 ELSE 15
      often == IF event.seen >= 7 THEN 10 ELSE IF event.seen >= 3 THEN 5 ELSE 0
      severe == CASE event.severity = "critical" -> 10 [] event.severity = "warning" -> 5 [] OTHER -> 0
      score == (IF event.action \in DOMAIN base THEN base[event.action] ELSE 10)
                 + (IF event.type \in DOMAIN by_type THEN by_type[event.type] ELSE 0)
                 + (IF event.owned THEN 10 ELSE 0) + often
                 + (IF event.status = "watching" THEN 10 ELSE 0) + severe + metric IN
  CHOOSE n \in 0..100 : (n = score) \/ (score < 0 /\ n = 0) \/ (score > 100 /\ n = 100)

WorkerCategory(event) ==
  LET by_action == [review_buy_opportunity |-> "buy", review_sell_opportunity |-> "sell", monitor_momentum |-> "momentum",
                    monitor_drop |-> "drop", review_mapping |-> "data_quality", update_prices |-> "data_quality"] IN
  IF event.action \in DOMAIN by_action THEN by_action[event.action]
  ELSE IF event.owned \/ event.type \in {"owned_above_target_sell", "owned_below_cost_basis"} THEN "owned" ELSE "other"

-----------------------------------------------------------------------------
(***************************************************************************)
(* The report, which "looks identical regardless of which side generated   *)
(* it"                                                                     *)
(***************************************************************************)
WorkerCategories == <<"buy", "sell", "momentum", "drop", "data_quality", "owned">>

\* get_opportunities as the report asks for them, without a filter: sorted by
\* (score, last seen), the greatest first, equal ones in the order of the rows.
WorkerRanked(events) ==
  LET Before(d, e) == WorkerScore(d) > WorkerScore(e) \/ (WorkerScore(d) = WorkerScore(e) /\ d.last >= e.last)
      Insert(sorted, e) == SelectSeq(sorted, LAMBDA d : Before(d, e)) \o <<e>> \o SelectSeq(sorted, LAMBDA d : ~Before(d, e)) IN
  FoldLeft(Insert, <<>>, SelectSeq(events, LAMBDA e : e.status \in {"open", "watching"}))

WorkerOpportunities(scored) ==
  LET score == [i \in DOMAIN scored |-> WorkerScore(scored[i])] IN
  [opportunities |-> scored, total |-> Len(scored),
   by_category |-> [c \in {WorkerCategories[i] : i \in DOMAIN WorkerCategories} |->
                      Cardinality({i \in DOMAIN scored : WorkerCategory(scored[i]) = c})],
   highest |-> FoldLeft(LAMBDA m, s : IF s > m THEN s ELSE m, 0, score),
   average |-> IF scored = <<>> THEN 0 ELSE (20 * FoldLeft(+, 0, score) + Len(scored)) \div (2 * Len(scored))]

\* _portfolio_snapshot, which has gains besides the sums of WorkerValuation.
WorkerPortfolio(items) ==
  LET sums == WorkerValuation(items)
      gain == sums.floor - sums.cost IN
  [sums |-> sums, vs_floor |-> gain, pct |-> IF sums.cost = 0 THEN 0 ELSE Pct(gain, sums.cost)]

WorkerQuality(items) ==
  LET missing(Is(_)) == Cardinality({i \in DOMAIN items : Is(items[i])})
      no_price == missing(LAMBDA item : item.cost = None)
      no_condition == missing(LAMBDA item : ~item.labelled)
      no_target == missing(LAMBDA item : item.target = None) IN
  [no_price |-> no_price, no_condition |-> no_condition, no_target |-> no_target,
   total |-> no_price + no_condition + no_target]

\* max() of a dict takes the first of its greatest, in the order of insertion.
WorkerEventSummary(events) ==
  LET having(status) == Cardinality({i \in DOMAIN events : events[i].status = status})
      common(of) ==
        LET times == [i \in DOMAIN of |-> Cardinality({j \in DOMAIN of : of[j] = of[i]})] IN
        FoldLeft(LAMBDA best, i : IF best = 0 \/ times[i] > times[best] THEN i ELSE best, 0, [i \in DOMAIN of |-> i])
      type == common([i \in DOMAIN events |-> events[i].type])
      action == common([i \in DOMAIN events |-> events[i].action]) IN
  [open |-> having("open"), watching |-> having("watching"), dismissed |-> having("dismissed"),
   resolved |-> having("resolved"), type |-> IF type = 0 THEN "none" ELSE events[type].type,
   action |-> IF action = 0 THEN "none" ELSE events[action].action]

WorkerLines(top, portfolio, items, by_category) ==
  (IF top = <<>> THEN <<<<"no opportunity", 0>>>> ELSE <<<<"best score", WorkerScore(top[1])>>>>)
    \o (IF items = <<>> THEN <<>> ELSE <<<<"floor value", portfolio.sums.floor>>>>)
    \o (IF portfolio.sums.above = 0 THEN <<>> ELSE <<<<"above target", portfolio.sums.above>>>>)
    \o (IF by_category.data_quality = 0 THEN <<>> ELSE <<<<"data quality", by_category.data_quality>>>>)

\* build_report_payload and the columns that generate_market_report fills, of
\* the opportunities found.
WorkerReportOn(found, portfolio, events, items) ==
  LET top == SubSeq(found.opportunities, 1, IF found.total > 5 THEN 5 ELSE found.total)
      first(category) ==
        LET of == SelectSeq(found.opportunities, LAMBDA e : WorkerCategory(e) = category) IN
        IF of = <<>> THEN <<>> ELSE <<of[1]>> IN
  [total |-> found.total, highest |-> IF found.total = 0 THEN None ELSE found.highest,
   average |-> IF found.total = 0 THEN None ELSE found.average,
   count |-> found.by_category, top |-> top, first |-> [c \in DOMAIN found.by_category |-> first(c)],
   portfolio |-> portfolio, quality |-> WorkerQuality(items), events |-> WorkerEventSummary(events),
   lines |-> WorkerLines(top, portfolio, items, found.by_category)]
WorkerReportOf(events, items) ==
  WorkerReportOn(WorkerOpportunities(WorkerRanked(events)), WorkerPortfolio(items), events, items)

-----------------------------------------------------------------------------
(***************************************************************************)
(* Properties: the copies agree on everything but the wishlist and grades  *)
(***************************************************************************)
SignalsAgree(card) == WorkerSignals(card) \o WishSignals(card) = Signals(card)

ValuationsAgree(items) ==
  \A f \in DOMAIN WorkerValuation(items) : WorkerValuation(items)[f] = Valuation(items)[f]

ScoresAgree(event) ==
  /\ WorkerCategory(event) = Category(event)
  /\ event.wish \notin {"grail", "high"} /\ event.type # "wishlist_target_hit" => WorkerScore(event) = EventScore(event)

\* The two reports are the same, but for the wishes and the values by grade
\* that the worker leaves out.
ReportsAgree(events, items) ==
  \A mine \in {WorkerReportOf(events, items)}, theirs \in {Report(events, items)} :
  (\A i \in DOMAIN events : events[i].wish \notin {"grail", "high"} /\ events[i].type # "wishlist_target_hit") =>
    /\ \A f \in DOMAIN mine \ {"portfolio"} : mine[f] = theirs[f]
    /\ \A f \in DOMAIN mine.portfolio.sums : mine.portfolio.sums[f] = theirs.portfolio[f]
    /\ mine.portfolio.vs_floor = theirs.portfolio.vs_floor /\ mine.portfolio.pct = theirs.portfolio.pct
=============================================================================

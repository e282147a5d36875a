------------------------------- MODULE Market -------------------------------
(***************************************************************************)
(* What the api makes of prices: the signals of a card, the value of a     *)
(* collection, the score of an event and the report on all of them.        *)
(*                                                                         *)
(* A card has a series of prices in every shop, oldest first, each with    *)
(* its age in days, the sources it is mapped to, collection items and      *)
(* wishes (in the order of their ids).  Amounts are in yen, percentages in *)
(* hundredths; None is NULL.  Messages are left out but for the percentage *)
(* that they print.                                                        *)
(***************************************************************************)
EXTENDS Integers, Sequences, SequencesExt

None == -1000000

\* round(n / d * 100, 2), as the code computes it of d # 0.
Pct(n, d) == (20000 * n + d) \div (2 * d)

Latest(series) == IF series = <<>> THEN None ELSE Last(series).price
When(condition, this) == IF condition THEN <<this>> ELSE <<>>
Total(numbers) == FoldLeft(+, 0, numbers)
Known(number) == IF number = None THEN 0 ELSE number

-----------------------------------------------------------------------------
(***************************************************************************)
(* Signals                                                                 *)
(***************************************************************************)
Signal(type, item, action, printed) == [type |-> type, item |-> item, action |-> action, printed |-> printed]

\* PRIMARY_SIGNAL_PAIRS.
Primary(card) ==
  LET pairs == <<card.sell, card.floor, card.buy>>
      given == {i \in 1..3 : pairs[i] # <<>>} IN
  IF given = {} THEN <<>> ELSE pairs[CHOOSE i \in given : \A j \in given : i <= j]

\* _closest_observation, by index.
Closest(series, days) ==
  LET n == Len(series)
      Distance(i) == LET d == series[i].age - series[n].age - days IN IF d < 0 THEN -d ELSE d IN
  CHOOSE i \in 1 .. n - 1 :
    \A j \in 1 .. n - 1 : Distance(i) < Distance(j) \/ (Distance(i) = Distance(j) /\ i <= j)

Movement(card, days, threshold, up, down) ==
  LET series == Primary(card)
      base == series[Closest(series, days)].price
      pct == Pct(Latest(series) - base, base) IN
  IF Len(series) < 2 \/ base = 0 THEN <<>>
  ELSE When(pct >= threshold, Signal(up, None, "monitor_momentum", pct))
         \o When(pct <= -threshold, Signal(down, None, "monitor_drop", pct))

Spread(card) ==
  LET sell == Latest(card.sell)
      pct == Pct(sell - Latest(card.buy), sell) IN
  IF None \in {sell, Latest(card.buy)} \/ sell = 0 THEN <<>>
  ELSE When(pct <= 2000, Signal("yuyutei_buy_sell_spread_compressed", None, "review_sell_opportunity", pct))
         \o When(pct >= 4500, Signal("yuyutei_buy_sell_spread_wide", None, "none", pct))

Gap(card) ==
  LET sell == Latest(card.sell)
      pct == Pct(Latest(card.floor) - sell, sell) IN
  IF None \in {sell, Latest(card.floor)} \/ sell = 0 THEN <<>>
  ELSE When(pct <= -1000, Signal("snkrdunk_floor_below_yuyutei_sell", None, "review_buy_opportunity", pct))
         \o When(pct >= 1000, Signal("snkrdunk_floor_above_yuyutei_sell", None, "review_sell_opportunity", pct))

\* _resolve_current_value.
Value(card) == IF card.floor # <<>> THEN Latest(card.floor) ELSE Latest(card.sell)

OwnedSignals(card) ==
  LET value == Value(card)
      signals(i) ==
        LET item == card.items[i] IN
        When(item.target # None /\ value >= item.target, Signal("owned_above_target_sell", i, "review_sell_opportunity", 0))
          \o When(item.cost # None /\ value < item.cost,
                  Signal("owned_below_cost_basis", i, "monitor_drop",
                         IF item.cost = 0 THEN None ELSE Pct(value - item.cost, item.cost))) IN
  IF value = None THEN <<>> ELSE FlattenSeq([i \in DOMAIN card.items |-> signals(i)])

\* The observations of a source; the oldest age that is not stale.
Observed(card, source) == IF source = "snkrdunk" THEN card.floor ELSE card.sell \o card.buy
Fresh(source) == IF source = "snkrdunk" THEN 7 ELSE 1

Stale(card, source) == \A i \in DOMAIN Observed(card, source) : Observed(card, source)[i].age > Fresh(source)

\* Mutant: one signal for every source.
DataQuality_EachSource(card) ==
  LET of(source) ==
        IF source \notin card.mapped THEN <<>>
        ELSE IF Observed(card, source) = <<>> THEN <<Signal("missing_recent_price", None, "review_mapping", 0)>>
        ELSE When(Stale(card, source), Signal("stale_mapping_price", None, "update_prices", 0)) IN
  of("snkrdunk") \o of("yuyutei")

DataQuality(card) ==
  LET missing == {source \in card.mapped : Observed(card, source) = <<>>} IN
  When(missing # {}, Signal("missing_recent_price", None, "review_mapping", 0))
    \o When(\E source \in card.mapped \ missing : Stale(card, source),
            Signal("stale_mapping_price", None, "update_prices", 0))

\* resolve_preferred_current_price.
PreferredPrice(card, source) ==
  CASE source = "snkrdunk" -> Latest(card.floor) [] source = "yuyutei" -> Latest(card.sell) [] OTHER -> Value(card)

WishSignals(card) ==
  When(\E i \in DOMAIN card.wishes :
         LET wish == card.wishes[i]
             price == PreferredPrice(card, wish.source) IN
         /\ wish.status \in {"watching", "target_hit"} /\ None \notin {wish.target, price} /\ price <= wish.target,
       Signal("wishlist_target_hit", None, "review_buy_opportunity", 0))

Signals(card) ==
  Movement(card, 7, 1000, "price_up_7d", "price_down_7d") \o Movement(card, 30, 2000, "price_up_30d", "price_down_30d")
    \o Spread(card) \o Gap(card) \o OwnedSignals(card) \o DataQuality(card) \o WishSignals(card)

-----------------------------------------------------------------------------
(***************************************************************************)
(* The value of a collection: a sequence of items, each with its card and  *)
(* its grading submissions, the one updated last first                     *)
(***************************************************************************)
Worth(item, price) == IF price = None THEN None ELSE price * item.quantity

\* received_grading_cost_jpy.
GradingCost(item) ==
  Total([i \in DOMAIN item.graded |-> IF item.graded[i].status = "received" THEN item.graded[i].fee ELSE 0])

\* _compute_graded_adjusted: the value of an item; the graded value is taken
\* as that of all its copies.
Adjusted(item) ==
  IF item.graded # <<>> /\ Head(item.graded).status = "received" /\ Head(item.graded).value # None
  THEN Head(item.graded).value ELSE Worth(item, Value(item.card))

Cost(item) == Worth(item, item.cost)
AdjustedCost(item) == IF item.cost = None THEN None ELSE Cost(item) + GradingCost(item)

AboveTarget(item) == None \notin {item.target, Latest(item.card.floor)} /\ Latest(item.card.floor) >= item.target

\* get_portfolio_valuation's summary.
Valuation(items) ==
  LET sum(Of(_)) == Total([i \in DOMAIN items |-> Known(Of(items[i]))])
      count(Is(_)) == Len(SelectSeq(items, Is))
      cost == sum(Cost)
      retail == sum(LAMBDA item : Worth(item, Latest(item.card.sell)))
      liquidation == sum(LAMBDA item : Worth(item, Latest(item.card.buy)))
      floor == sum(LAMBDA item : Worth(item, Latest(item.card.floor))) IN
  [cost |-> cost, retail |-> retail, liquidation |-> liquidation, floor |-> floor,
   vs_retail |-> retail - cost, vs_liquidation |-> liquidation - cost, vs_floor |-> floor - cost,
   pct |-> IF cost = 0 THEN 0 ELSE Pct(floor - cost, cost),
   adjusted |-> sum(Adjusted), vs_adjusted |-> sum(Adjusted) - sum(AdjustedCost),
   no_sell |-> count(LAMBDA item : item.card.sell = <<>>), no_buy |-> count(LAMBDA item : item.card.buy = <<>>),
   no_floor |-> count(LAMBDA item : item.card.floor = <<>>), no_cost |-> count(LAMBDA item : item.cost = None),
   no_price |-> count(LAMBDA item : item.card.sell = <<>> /\ item.card.buy = <<>> /\ item.card.floor = <<>>),
   above |-> count(AboveTarget)]

-----------------------------------------------------------------------------
(***************************************************************************)
(* Opportunities: events with what is known of their cards                 *)
(***************************************************************************)
BaseScore(action) ==
  CASE action = "review_buy_opportunity" -> 60 [] action = "review_sell_opportunity" -> 65
    [] action = "monitor_momentum" -> 50 [] action = "monitor_drop" -> 45 [] action = "review_mapping" -> 30
    [] action = "update_prices" -> 25 [] action = "add_collection_target" -> 20 [] OTHER -> 10

TypeModifier(type) ==
  CASE type = "snkrdunk_floor_below_yuyutei_sell" -> 20
    [] type \in {"snkrdunk_floor_above_yuyutei_sell", "yuyutei_buy_sell_spread_compressed", "owned_below_cost_basis"} -> 15
    [] type \in {"yuyutei_buy_sell_spread_wide", "price_up_30d"} -> 10 [] type = "price_up_7d" -> 12
    [] type \in {"price_down_7d", "price_down_30d"} -> 8 [] type = "owned_above_target_sell" -> 25
    [] type = "missing_recent_price" -> -10 [] type = "stale_mapping_price" -> -5
    [] type = "wishlist_target_hit" -> 30 [] OTHER -> 0

WishModifier(priority) == CASE priority = "grail" -> 20 [] priority = "high" -> 10 [] OTHER -> 0

\* Of the metric gap_pct or change_pct in the last payload.
MetricModifier(metric) ==
  LET size == IF metric < 0 THEN -metric ELSE metric IN
  CASE metric = None -> 0 [] metric # None /\ size >= 4000 -> 15 [] metric # None /\ size \in 2000..3999 -> 10
    [] metric # None /\ size \in 1000..1999 -> 5 [] OTHER -> 0

Points(condition, points) == IF condition THEN points ELSE 0
Clamped(score) == IF score < 0 THEN 0 ELSE IF score > 100 THEN 100 ELSE score

EventScore(event) ==
  Clamped(BaseScore(event.action) + TypeModifier(event.type) + WishModifier(event.wish)
            + Points(event.owned, 10) + Points(event.seen >= 7, 10) + Points(event.seen \in 3..6, 5)
            + Points(event.status = "watching", 10)
            + Points(event.severity = "critical", 10) + Points(event.severity = "warning", 5)
            + MetricModifier(event.metric))

Category(event) ==
  CASE event.action = "review_buy_opportunity" -> "buy" [] event.action = "review_sell_opportunity" -> "sell"
    [] event.action = "monitor_momentum" -> "momentum" [] event.action = "monitor_drop" -> "drop"
    [] event.action \in {"review_mapping", "update_prices"} -> "data_quality"
    [] OTHER -> IF event.owned \/ event.type \in {"owned_above_target_sell", "owned_below_cost_basis"} THEN "owned" ELSE "other"

Categories == {"buy", "sell", "momentum", "drop", "data_quality", "owned"}

\* get_opportunities, best and latest first.
Opportunities(events) ==
  SortSeq(SelectSeq(events, LAMBDA e : e.status \in {"open", "watching"}),
          LAMBDA d, e : EventScore(d) > EventScore(e) \/ (EventScore(d) = EventScore(e) /\ d.last > e.last))

\* The first of the most frequent.
MostCommon(values) ==
  LET Times(v) == Len(SelectSeq(values, LAMBDA w : w = v)) IN
  IF values = <<>> THEN "none"
  ELSE values[CHOOSE i \in DOMAIN values :
                \A j \in DOMAIN values :
                  Times(values[i]) > Times(values[j]) \/ (Times(values[i]) = Times(values[j]) /\ i <= j)]

EventSummary(events) ==
  LET having(status) == Len(SelectSeq(events, LAMBDA e : e.status = status)) IN
  [open |-> having("open"), watching |-> having("watching"), dismissed |-> having("dismissed"), resolved |-> having("resolved"),
   type |-> MostCommon([i \in DOMAIN events |-> events[i].type]),
   action |-> MostCommon([i \in DOMAIN events |-> events[i].action])]

\* _collection_quality, of items with their condition labelled or not.
Quality(items) ==
  LET price == Len(SelectSeq(items, LAMBDA item : item.cost = None))
      condition == Len(SelectSeq(items, LAMBDA item : ~item.labelled))
      target == Len(SelectSeq(items, LAMBDA item : item.target = None)) IN
  [no_price |-> price, no_condition |-> condition, no_target |-> target, total |-> price + condition + target]

\* The lines of text, each with its number.
SummaryLines(ranked, items, portfolio, data_quality) ==
  <<IF ranked = <<>> THEN <<"no opportunity", 0>> ELSE <<"best score", EventScore(Head(ranked))>>>>
    \o When(items # <<>>, <<"floor value", portfolio.floor>>)
    \o When(portfolio.above > 0, <<"above target", portfolio.above>>)
    \o When(data_quality > 0, <<"data quality", data_quality>>)

\* build_report_payload and the columns that generate_market_report fills, of
\* the ranked opportunities among the events.
ReportOn(ranked, events, items) ==
  LET scores == [i \in DOMAIN ranked |-> EventScore(ranked[i])]
      of(category) == SelectSeq(ranked, LAMBDA e : Category(e) = category) IN
  [top |-> SubSeq(ranked, 1, IF Len(ranked) < 5 THEN Len(ranked) ELSE 5),
   first |-> [category \in Categories |-> SubSeq(of(category), 1, IF of(category) = <<>> THEN 0 ELSE 1)],
   count |-> [category \in Categories |-> Len(of(category))], total |-> Len(ranked), scores |-> scores,
   highest |-> IF ranked = <<>> THEN None ELSE Head(scores),
   average |-> IF ranked = <<>> THEN None ELSE (20 * Total(scores) + Len(ranked)) \div (2 * Len(ranked)),
   hits |-> Len(SelectSeq(ranked, LAMBDA e : e.type = "wishlist_target_hit")),
   portfolio |-> Valuation(items), quality |-> Quality(items), events |-> EventSummary(events),
   lines |-> SummaryLines(ranked, items, Valuation(items), Len(of("data_quality")))]
Report(events, items) == ReportOn(Opportunities(events), events, items)

-----------------------------------------------------------------------------
(***************************************************************************)
(* Properties                                                              *)
(***************************************************************************)

\* A snapshot finds every dedupe key (type, subject and action) once: a card
\* "must not produce more than one row of each type, or upserting would hit
\* the same dedupe_key twice".
KeysDiffer(card) ==
  \A signals \in {Signals(card)} : \A i, j \in DOMAIN signals :
    signals[i].type = signals[j].type /\ signals[i].item = signals[j].item /\ signals[i].action = signals[j].action
      => i = j

\* The message that formats a percentage has one.
Printable(card) == \A signals \in {Signals(card)} : \A i \in DOMAIN signals : signals[i].printed # None

\* The report loses none of the best: a category's first opportunity is no
\* worse than any other of the category, and all that beat it are among the
\* top five, or there are five.
ReportIsRanked(events) ==
  \A report \in {Report(events, <<>>)}, category \in Categories :
    LET of == {i \in DOMAIN events : events[i].status \in {"open", "watching"} /\ Category(events[i]) = category} IN
    IF of = {} THEN report.first[category] = <<>>
    ELSE /\ \A i \in of : EventScore(events[i]) <= EventScore(report.first[category][1])
         /\ Len(report.top) < 5 => \E n \in DOMAIN report.top : report.top[n] = report.first[category][1]

\* No valuation counts an item twice or loses one: joined collections are
\* worth what their parts are.
ValuationAdds(items, more) ==
  LET all == Valuation(items \o more) IN
  \A f \in DOMAIN all \ {"pct"} : all[f] = Valuation(items)[f] + Valuation(more)[f]
=============================================================================

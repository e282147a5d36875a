---------------------------- MODULE PortfolioRisk ----------------------------
(***************************************************************************)
(* The risk of what is held, scored in five components, and the digest     *)
(* that puts it beside the other pages.  Risk takes its own copies of the  *)
(* weights and breakdowns that the collection's page computes.             *)
(***************************************************************************)
EXTENDS Analytics

Maximum == [concentration |-> 30, data_quality |-> 25, liquidity |-> 20, grading |-> 15, wishlist |-> 10]
Capped(score, maximum) == IF score > maximum THEN maximum ELSE score

Level(score, maximum) ==
  CASE 4 * score >= 3 * maximum -> "critical" [] 4 * score \in 2 * maximum .. 3 * maximum - 1 -> "high"
    [] 4 * score \in maximum .. 2 * maximum - 1 -> "medium" [] OTHER -> "low"

\* _build_exposure.
Exposure(items, mode, dimension, total) ==
  LET Enter(buckets, h) ==
        [key \in DOMAIN buckets \union KeysOf(h, dimension) |->
           LET old == IF key \in DOMAIN buckets THEN buckets[key] ELSE [quantity |-> 0, cost |-> 0, value |-> 0]
               new == [quantity |-> old.quantity + h.quantity, cost |-> old.cost + Known(Cost(h)),
                       value |-> old.value + Known(Selected(h, mode))] IN
           IF key \in KeysOf(h, dimension) THEN new ELSE old]
      buckets == FoldLeft(Enter, [key \in {} |-> 0], items) IN
  [key \in DOMAIN buckets |->
     LET weight == Weight(buckets[key].value, total)
         gain == buckets[key].value - buckets[key].cost IN
     [quantity |-> buckets[key].quantity, cost |-> buckets[key].cost, value |-> buckets[key].value, weight |-> weight,
      gain |-> gain, pct |-> Ratio(gain, buckets[key].cost),
      flag |-> CASE weight >= 5000 -> "high" [] weight \in 2500..4999 -> "moderate" [] OTHER -> "none"]]

\* Any of the last prices is older than its source's limit.
HasStalePrice(h) ==
  LET old(series, source) == series # <<>> /\ Last(series).age > Fresh(source) IN
  old(h.card.sell, "yuyutei") \/ old(h.card.buy, "yuyutei") \/ old(h.card.floor, "snkrdunk")

WideSpread(h) == SpreadPct(h.card) # None /\ SpreadPct(h.card) >= 4500

Share(part, whole) == Known(Ratio(part, whole))

-----------------------------------------------------------------------------
(***************************************************************************)
(* What the scores and flags rest on                                       *)
(***************************************************************************)
Concentrated(items, mode, total) ==
  LET exposure == [d \in Dimensions \ {"status", "grading"} |-> Exposure(items, mode, d, total)]
      largest(d) == Greatest({exposure[d][k].weight : k \in DOMAIN exposure[d]}) IN
  [exposure |-> exposure, card |-> Weight(TopValue(items, mode, 1), total),
   top_5 |-> Weight(TopValue(items, mode, 5), total), set |-> largest("set"), rarity |-> largest("rarity")]

Lacking(items, mode) ==
  [no_price |-> CountOf(items, LAMBDA h : Selected(h, mode) = None), no_cost |-> CountOf(items, LAMBDA h : h.cost = None),
   stale |-> CountOf(items, HasStalePrice)]

Illiquid(items) ==
  LET thin == CountOf(items, LAMBDA h : h.card.floor # <<>> /\ ~h.card.listed)
      wide == CountOf(items, WideSpread) IN
  [wide |-> wide, wide_share |-> Share(wide, CountOf(items, LAMBDA h : h.card.sell # <<>> /\ h.card.buy # <<>>)),
   thin |-> thin, thin_share |-> Share(thin, CountOf(items, LAMBDA h : h.card.floor # <<>>)),
   no_floor |-> CountOf(items, LAMBDA h : h.card.floor = <<>> /\ h.card.sell # <<>>)]

Graded(items) ==
  LET graded == SelectSeq(items, LAMBDA h : h.graded # <<>>)
      active == SelectSeq(graded, LAMBDA h : LatestStatus(h) \in Underway) IN
  [active |-> Len(active), active_share |-> Share(SumOf(active, Cost), SumOf(items, Cost)),
   overdue |-> CountOf(graded, LAMBDA h : Overdue(h.graded[h.newest]))]

\* What is owned and still hunted, and what is complete and still watched.
Overlap(list, items) ==
  LET owned == {items[i].key : i \in DOMAIN items} IN
  [hunted |-> {i \in DOMAIN list : /\ list[i].wish.key \in owned /\ list[i].wish.priority \in {"grail", "high"}
                                   /\ list[i].wish.status \notin {"purchased", "removed"}},
   complete |-> {i \in DOMAIN list : /\ list[i].wish.acquired >= list[i].wish.desired
                                     /\ list[i].wish.status \in {"watching", "target_hit"}}]

RiskFacts(user, mode, with_sold) ==
  LET items == Shown(user, with_sold)
      total == SumOf(items, LAMBDA h : Selected(h, mode)) IN
  [items |-> Len(items), total |-> total, cost |-> SumOf(items, Cost)]
    @@ Concentrated(items, mode, total) @@ Lacking(items, mode) @@ Illiquid(items) @@ Graded(items) @@ Overlap(Wishlist(user), items)

-----------------------------------------------------------------------------
(***************************************************************************)
(* Scores and flags                                                        *)
(***************************************************************************)
\* Mutant: the largest set counts from a quarter on, when no flag is shown.
ConcentrationScore_EarlySet(f) == Points(f.card >= 2500, 15) + Points(f.set >= 2500, 5)

ConcentrationScore(f) ==
  Points(f.card >= 4000, 15) + Points(f.card \in 2500..3999, 10) + Points(f.top_5 >= 8000, 15)
    + Points(f.top_5 \in 6000..7999, 10) + Points(f.set >= 5000, 5) + Points(f.rarity >= 5000, 5)

DataQualityScore(f) ==
  LET part(n) == Share(n, f.items) IN
  Points(part(f.no_price) >= 4000, 15) + Points(part(f.no_price) \in 2000..3999, 10)
    + Points(part(f.no_cost) >= 4000, 10) + Points(part(f.no_cost) \in 2000..3999, 5) + Points(part(f.stale) >= 2000, 5)

LiquidityScore(f) ==
  Points(f.wide_share >= 2000, 10) + Points(f.thin_share >= 3000, 5) + Points(Share(f.no_floor, f.items) >= 3000, 5)

GradingScore(f) == Points(f.active_share >= 2000, 10) + Points(f.overdue > 0, 5)
WishlistScore(f) == Points(f.hunted # {}, 5) + Points(f.complete # {}, 5)

RiskScores(f) ==
  LET score == [concentration |-> ConcentrationScore(f), data_quality |-> DataQualityScore(f),
                liquidity |-> LiquidityScore(f), grading |-> GradingScore(f), wishlist |-> WishlistScore(f)] IN
  [c \in DOMAIN Maximum |-> IF f.items = 0 THEN 0 ELSE Capped(score[c], Maximum[c])]

RiskFlags(f) ==
  LET flag(condition, type, component, critical) ==
        When(f.items > 0 /\ condition,
             [type |-> type, component |-> component, severity |-> IF critical THEN "critical" ELSE "warning"]) IN
  flag(f.card >= 2500, "high_concentration", "concentration", f.card >= 4000)
    \o flag(f.top_5 >= 6000, "high_concentration", "concentration", f.top_5 >= 8000)
    \o flag(f.set >= 5000, "high_set_concentration", "concentration", FALSE)
    \o flag(f.rarity >= 5000, "high_rarity_concentration", "concentration", FALSE)
    \o flag(f.no_price > 0, "missing_prices", "data_quality", Share(f.no_price, f.items) >= 4000)
    \o flag(f.no_cost > 0, "missing_cost_basis", "data_quality", Share(f.no_cost, f.items) >= 4000)
    \o flag(f.stale > 0, "stale_prices", "data_quality", FALSE)
    \o flag(f.wide > 0, "wide_spread", "liquidity", FALSE)
    \o flag(f.thin + f.no_floor > 0, "low_liquidity", "liquidity", FALSE)
    \o flag(f.active_share >= 2000, "grading_exposure", "grading", f.active_share >= 4000)
    \o flag(f.overdue > 0, "overdue_grading", "grading", FALSE)
    \o flag(f.hunted \union f.complete # {}, "wishlist_overlap", "wishlist", FALSE)

Overall(scores) ==
  LET score == Capped(FoldFunction(+, 0, scores), 100) IN [score |-> score, level |-> Level(score, 100)]

\* get_portfolio_risk, of what it rests on.
RiskOf(f) ==
  LET scores == RiskScores(f) IN
  [facts |-> f, scores |-> scores, levels |-> [c \in DOMAIN scores |-> Level(scores[c], Maximum[c])],
   flags |-> RiskFlags(f)] @@ Overall(scores)
Risk(user, mode, with_sold) == RiskOf(RiskFacts(user, mode, with_sold))

-----------------------------------------------------------------------------
(***************************************************************************)
(* The digest, of every page with its defaults                             *)
(***************************************************************************)
Buys(user) ==
  LET list == SelectSeq(Wishlist(user), LAMBDA w : Listed(w.wish, FALSE, FALSE)) IN
  [i \in DOMAIN list |->
     [action |-> BuyAction(list[i].card, list[i].wish, user.events[list[i].wish.key], "auto", FALSE, FALSE),
      hit |-> list[i].hit, wish |-> list[i].wish]]

\* Nothing but the level of risk is said.
Quiet(digest) ==
  0 = digest.hits + digest.sell + digest.buy + digest.active + digest.overdue + digest.no_cost + digest.no_price

\* build_analytics_digest.
Digest(collection, wishes, buys, sales, grading, risk) ==
  LET critical == SelectSeq(risk.flags, LAMBDA f : f.severity = "critical")
      flags == critical \o SelectSeq(risk.flags, LAMBDA f : f.severity # "critical")
      buy == CountOf(buys, LAMBDA b : b.action = "review_buy") IN
  [value |-> collection.raw, adjusted |-> collection.adjusted, score |-> risk.score, level |-> risk.level,
   hits |-> wishes.sums.hits, buy |-> buy, sell |-> sales.sell, gain |-> grading.totals.gain,
   active |-> grading.totals.active, overdue |-> grading.overdue, no_cost |-> risk.facts.no_cost,
   no_price |-> risk.facts.no_price, flags |-> SubSeq(flags, 1, IF Len(flags) < 5 THEN Len(flags) ELSE 5)]

-----------------------------------------------------------------------------
(***************************************************************************)
(* Properties                                                              *)
(***************************************************************************)

\* Every point of the score is explained by a recommendation of the same
\* component, and a critical recommendation by points; the components' caps
\* leave the sum below the total's.
RiskIsExplained(user) ==
  \A mode \in {"raw_market", "graded_adjusted"}, with \in BOOLEAN :
    \A risk \in {Risk(user, mode, with)} :
    LET flagged(c) == {i \in DOMAIN risk.flags : risk.flags[i].component = c} IN
    /\ \A c \in DOMAIN Maximum : risk.scores[c] > 0 => flagged(c) # {}
    /\ \A c \in DOMAIN Maximum : (\E i \in flagged(c) : risk.flags[i].severity = "critical") => risk.scores[c] >= 10
    /\ risk.score = FoldFunction(+, 0, risk.scores)
    /\ risk.level = "critical" => \E i \in DOMAIN risk.flags : risk.flags[i].severity = "critical"

\* The weights "stay consistent with collection analytics' own", and the
\* thresholds with the signals: a card with the signal of a wide spread or of
\* a stale price is an item counted so.
RiskAgrees(user) ==
  \A mode \in {"raw_market", "graded_adjusted"}, with \in BOOLEAN :
    \A f \in {RiskFacts(user, mode, with)}, page \in {CollectionAnalytics(user, mode, with)}, items \in {Shown(user, with)} :
    LET signals(h) == Spread(h.card) \o DataQuality([h.card EXCEPT !.mapped = {"yuyutei", "snkrdunk"}])
        signalled(h, type) == \E i \in DOMAIN signals(h) : signals(h)[i].type = type IN
    /\ \A d \in DOMAIN f.exposure : \A key \in DOMAIN page.by[d] :
         \A field \in {"quantity", "cost", "value", "gain", "pct", "weight"} : f.exposure[d][key][field] = page.by[d][key][field]
    /\ f.card = page.largest /\ f.set = page.largest_of.set /\ f.rarity = page.largest_of.rarity
    /\ f.no_cost = page.no_cost /\ f.no_price = page.no_price
    /\ f.wide = CountOf(items, LAMBDA h : signalled(h, "yuyutei_buy_sell_spread_wide"))
    /\ CountOf(items, LAMBDA h : signalled(h, "stale_mapping_price")) <= f.stale

\* The pages that the digest puts side by side do not contradict each other:
\* what is on target is advised, what is in grading in one page is in the
\* other, data missing for a sale is missing for risk; and the line that there
\* is nothing urgent appears only if no page has anything.
DigestAgrees(user) ==
  \A mode \in {"raw_market", "graded_adjusted"} :
    \A collection \in {CollectionAnalytics(user, mode, FALSE)},
       wishes \in {WishlistAnalytics(WishesShown(user, FALSE, FALSE))}, buys \in {Buys(user)},
       sales \in {SellSummary(Shown(user, FALSE), mode)}, grading \in {GradingAnalytics(SubmissionsShown(user, FALSE))},
       risk \in {Risk(user, mode, FALSE)} :
    \A digest \in {Digest(collection, wishes, buys, sales, grading, risk)} :
    /\ CountOf(buys, LAMBDA b : b.hit /\ b.wish.status # "passed") <= digest.buy
    /\ CountOf(buys, LAMBDA b : b.hit) <= digest.hits
    /\ risk.facts.active <= digest.active /\ risk.facts.overdue <= digest.overdue
    /\ collection.grading <= risk.facts.active /\ sales.grade <= risk.facts.active
    /\ sales.missing <= digest.no_cost + digest.no_price
    /\ Quiet(digest) => /\ digest.sell + digest.buy + digest.active = 0 /\ sales.missing = 0 /\ sales.grade = 0
                       /\ risk.scores.grading = 0
                       /\ \A i \in DOMAIN risk.flags : risk.flags[i].type \notin {"missing_prices", "missing_cost_basis"}
    /\ (\E i \in DOMAIN risk.flags : risk.flags[i].severity = "critical") => Head(digest.flags).severity = "critical"
=============================================================================

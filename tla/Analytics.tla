------------------------------ MODULE Analytics ------------------------------
(***************************************************************************)
(* What the pages on the collection, the wishlist and grading add up.      *)
(*                                                                         *)
(* A user has the cards by their keys (each with its prices, set, rarity   *)
(* and whether the last floor has listings), the events of each card, the  *)
(* holdings and the wishes, both in the order of their ids and with the    *)
(* key of their card.  Labels, paging and the ranked lists, which pick     *)
(* rows and count nothing, are left out.                                   *)
(***************************************************************************)
EXTENDS Decisions

Waiting == {"submitted", "grading", "shipped_back"}
Underway == {"planned", "preparing"} \union Waiting

SumOf(sequence, Of(_)) == Total([i \in DOMAIN sequence |-> Known(Of(sequence[i]))])
CountOf(sequence, Is(_)) == Len(SelectSeq(sequence, Is))
Mean(numbers) == IF numbers = <<>> THEN None ELSE (2 * Total(numbers) + Len(numbers)) \div (2 * Len(numbers))
Weight(value, total) == IF total = 0 THEN 0 ELSE Pct(value, total)
Greatest(numbers) == IF numbers = {} THEN 0 ELSE CHOOSE n \in numbers : \A m \in numbers : m <= n

\* The holdings with their cards, in the form of Decisions.
Portfolio(user) ==
  [i \in DOMAIN user.holdings |->
     LET held == user.holdings[i] IN
     [key |-> held.key, cost |-> held.cost, target |-> held.target, quantity |-> held.quantity, status |-> held.status,
      graded |-> held.graded, newest |-> held.newest, tags |-> held.tags, groups |-> {},
      card |-> user.cards[held.key], events |-> user.events[held.key],
      wishes |-> SelectSeq(user.wishes, LAMBDA wish : wish.key = held.key)]]

Shown(user, with_sold) == SelectSeq(Portfolio(user), LAMBDA h : with_sold \/ h.status # "sold")

\* _selected_value_jpy: without a floor, what is not graded has no value.
Selected(h, mode) == IF mode = "graded_adjusted" THEN Adjusted(h) ELSE Worth(h, Latest(h.card.floor))

LatestStatus(h) == IF h.graded = <<>> THEN "none" ELSE h.graded[h.newest].status

-----------------------------------------------------------------------------
(***************************************************************************)
(* The collection                                                          *)
(***************************************************************************)
Dimensions == {"set", "rarity", "status", "tag", "grading"}

\* The keys that an item is counted under.
KeysOf(h, dimension) ==
  CASE dimension = "set" -> {h.card.set} [] dimension = "rarity" -> {h.card.rarity} [] dimension = "status" -> {h.status}
    [] dimension = "tag" -> h.tags [] OTHER -> {LatestStatus(h)}

\* Mutant: an item counts under one of its keys only.
Breakdown_OneKey(items, mode, dimension) ==
  LET total == SumOf(items, LAMBDA h : Selected(h, mode))
      bucket(key) ==
        LET of == SelectSeq(items, LAMBDA h : KeysOf(h, dimension) # {} /\ key = CHOOSE k \in KeysOf(h, dimension) : TRUE)
            value == SumOf(of, LAMBDA h : Selected(h, mode)) IN
        [count |-> Len(of), quantity |-> SumOf(of, LAMBDA h : h.quantity), cost |-> SumOf(of, Cost), value |-> value,
         gain |-> value - SumOf(of, Cost), pct |-> Ratio(value - SumOf(of, Cost), SumOf(of, Cost)),
         weight |-> Weight(value, total)] IN
  [key \in UNION {KeysOf(items[i], dimension) : i \in DOMAIN items} |-> bucket(key)]

Breakdown(items, mode, dimension) ==
  LET total == SumOf(items, LAMBDA h : Selected(h, mode))
      bucket(key) ==
        LET of == SelectSeq(items, LAMBDA h : key \in KeysOf(h, dimension))
            value == SumOf(of, LAMBDA h : Selected(h, mode)) IN
        [count |-> Len(of), quantity |-> SumOf(of, LAMBDA h : h.quantity), cost |-> SumOf(of, Cost), value |-> value,
         gain |-> value - SumOf(of, Cost), pct |-> Ratio(value - SumOf(of, Cost), SumOf(of, Cost)),
         weight |-> Weight(value, total)] IN
  [key \in UNION {KeysOf(items[i], dimension) : i \in DOMAIN items} |-> bucket(key)]

\* The sum of the greatest values.
TopValue(items, mode, n) ==
  LET values == SortSeq([i \in DOMAIN items |-> Known(Selected(items[i], mode))], LAMBDA v, w : v > w) IN
  Total(SubSeq(values, 1, IF Len(values) < n THEN Len(values) ELSE n))

Concentration(items, mode) ==
  LET by(dimension) == Breakdown(items, mode, dimension)
      total == SumOf(items, LAMBDA h : Selected(h, mode)) IN
  [largest |-> Weight(TopValue(items, mode, 1), total), top_10 |-> Weight(TopValue(items, mode, 10), total),
   largest_of |-> [d \in {"set", "rarity"} |-> Greatest({by(d)[k].weight : k \in DOMAIN by(d)})]]

CostBasis(items) ==
  LET costs == SelectSeq([i \in DOMAIN items |-> Cost(items[i])], LAMBDA c : c # None) IN
  [with_cost |-> Len(costs), average |-> Known(Mean(costs))]

PriceCoverage(items, missing) ==
  [with_sell |-> CountOf(items, LAMBDA h : h.card.sell # <<>>), with_buy |-> CountOf(items, LAMBDA h : h.card.buy # <<>>),
   with_floor |-> CountOf(items, LAMBDA h : h.card.floor # <<>>), covered |-> Known(Ratio(Len(items) - missing, Len(items)))]

CollectionAnalytics(user, mode, with_sold) ==
  LET items == Shown(user, with_sold)
      value(m) == SumOf(items, LAMBDA h : Selected(h, m))
      cost == SumOf(items, Cost)
      missing == CountOf(items, LAMBDA h : Selected(h, mode) = None) IN
  [total |-> Len(items), quantity |-> SumOf(items, LAMBDA h : h.quantity), cost |-> cost,
   raw |-> value("raw_market"), adjusted |-> value("graded_adjusted"), gain |-> value(mode) - cost,
   pct |-> Known(Ratio(value(mode) - cost, cost)),
   no_cost |-> CountOf(items, LAMBDA h : h.cost = None), no_price |-> missing,
   cards |-> Cardinality({items[i].key : i \in DOMAIN items}),
   wished |-> Cardinality({user.wishes[i].key : i \in {j \in DOMAIN user.wishes : user.wishes[j].status # "removed"}}),
   grading |-> CountOf(items, LAMBDA h : LatestStatus(h) \in Waiting),
   by |-> [d \in Dimensions |-> Breakdown(items, mode, d)]]
    @@ Concentration(items, mode) @@ CostBasis(items) @@ PriceCoverage(items, missing)

-----------------------------------------------------------------------------
(***************************************************************************)
(* The wishlist                                                            *)
(***************************************************************************)
\* get_owned_quantities_by_card, which counts what is sold as well.
Owned(user, key) == SumOf(SelectSeq(user.holdings, LAMBDA h : h.key = key), LAMBDA h : h.quantity)

\* build_wishlist_item_out: a wish with its card's prices and owned copies.
Wishlist(user) ==
  [i \in DOMAIN user.wishes |->
     LET wish == [user.wishes[i] EXCEPT !.owned = Owned(user, user.wishes[i].key)]
         card == user.cards[wish.key]
         price == CurrentPrice(card, wish, "auto") IN
     [wish |-> wish, card |-> card, price |-> price, hit |-> TargetHit(card, wish, "auto"),
      gap |-> Difference(price, wish.target)]]

\* _remaining_quantity: what is owned does not count here.
LeftToBuy(w) == IF w.wish.desired > w.wish.acquired THEN w.wish.desired - w.wish.acquired ELSE 0

Times(price, n) == IF price = None THEN 0 ELSE price * n
Budgets(list) ==
  [target |-> SumOf(list, LAMBDA w : Times(w.wish.target, LeftToBuy(w))),
   max |-> SumOf(list, LAMBDA w : Times(w.wish.max, LeftToBuy(w))),
   current |-> SumOf(list, LAMBDA w : Times(w.price, LeftToBuy(w))),
   count |-> Len(list), hits |-> CountOf(list, LAMBDA w : w.hit), owned |-> CountOf(list, LAMBDA w : w.wish.owned > 0)]

WishKey(w, dimension) ==
  CASE dimension = "priority" -> w.wish.priority [] dimension = "status" -> w.wish.status
    [] dimension = "set" -> w.card.set [] OTHER -> w.wish.source

WishesShown(user, with_removed, with_purchased) ==
  SelectSeq(Wishlist(user),
            LAMBDA w : (with_removed \/ w.wish.status # "removed") /\ (with_purchased \/ w.wish.status # "purchased"))

\* get_wishlist_analytics, of the wishes shown.
WishlistAnalytics(list) ==
  LET status(s) == CountOf(list, LAMBDA w : w.wish.status = s)
      priority(p) == CountOf(list, LAMBDA w : w.wish.priority = p)
      targets == SelectSeq([i \in DOMAIN list |-> list[i].wish.target], LAMBDA t : t # None)
      sums == Budgets(list) IN
  [sums |-> sums, to_target |-> sums.current - sums.target, to_max |-> sums.current - sums.max,
   watching |-> status("watching"), purchased |-> status("purchased"), passed |-> status("passed"),
   grail |-> priority("grail"), high |-> priority("high"), average |-> Known(Mean(targets)),
   by |-> [d \in {"priority", "status", "set", "source"} |->
             [key \in {WishKey(list[i], d) : i \in DOMAIN list} |-> Budgets(SelectSeq(list, LAMBDA w : WishKey(w, d) = key))]],
   priced |-> CountOf(list, LAMBDA w : w.price # None)]

\* get_wishlist_summary, of all wishes: budgets for one copy each, whatever is
\* acquired.
WishlistSummary(all) ==
  LET status(s) == CountOf(all, LAMBDA w : w.wish.status = s)
      listed == SelectSeq(all, LAMBDA w : w.wish.status # "removed")
      active == SelectSeq(all, LAMBDA w : w.wish.status \in {"watching", "target_hit"}) IN
  [total |-> Len(all), watching |-> status("watching"), target_hit |-> status("target_hit"),
   purchased |-> status("purchased"), passed |-> status("passed"), removed |-> status("removed"),
   grail |-> CountOf(listed, LAMBDA w : w.wish.priority = "grail"),
   high |-> CountOf(listed, LAMBDA w : w.wish.priority = "high"),
   target |-> SumOf(active, LAMBDA w : w.wish.target), max |-> SumOf(active, LAMBDA w : w.wish.max),
   owned |-> CountOf(listed, LAMBDA w : w.wish.owned > 0), hits |-> CountOf(active, LAMBDA w : w.hit)]

-----------------------------------------------------------------------------
(***************************************************************************)
(* Grading                                                                 *)
(***************************************************************************)
\* Every submission with its item, of sold items too.
Submissions(user) ==
  LET items == Portfolio(user) IN
  FlattenSeq([i \in DOMAIN items |-> [j \in DOMAIN items[i].graded |-> [of |-> items[i], sent |-> items[i].graded[j]]]])

\* compute_total_cost_jpy, as a row keeps it: unknown until a fee is entered.
StoredCost(sent) == IF sent.billed THEN sent.fee ELSE None

Return(s) ==
  IF None \in {s.sent.value, Cost(s.of)} THEN None ELSE s.sent.value - Cost(s.of) - s.sent.fee

Overdue(sent) == sent.due = "past" /\ sent.status \notin {"received", "cancelled"}
DueSoon(sent) == sent.due = "soon" /\ sent.status \notin {"received", "cancelled"}

\* Totals of submissions and of a bucket: the cost of an item counts once for
\* each of its submissions, valued or not.
GradingTotals(list) ==
  LET fees == SumOf(list, LAMBDA s : s.sent.fee)
      worth == SumOf(list, LAMBDA s : s.sent.value)
      cost == SumOf(list, LAMBDA s : Cost(s.of)) IN
  [count |-> Len(list), received |-> CountOf(list, LAMBDA s : s.sent.status = "received"),
   active |-> CountOf(list, LAMBDA s : s.sent.status \in Underway), fees |-> fees, worth |-> worth,
   gain |-> worth - cost - fees, pct |-> Ratio(worth - cost - fees, cost + fees)]

SubmissionsShown(user, with_cancelled) ==
  SelectSeq(Submissions(user), LAMBDA s : with_cancelled \/ s.sent.status # "cancelled")

\* get_grading_analytics, of the submissions shown.
GradingAnalytics(list) ==
  LET returns == SelectSeq([i \in DOMAIN list |-> Return(list[i])], LAMBDA r : r # None)
      grades == SelectSeq([i \in DOMAIN list |-> list[i].sent.grade], LAMBDA g : g # None)
      key(s, d) == IF d = "status" THEN s.sent.status ELSE s.of.card.set IN
  [totals |-> GradingTotals(list), cancelled |-> CountOf(list, LAMBDA s : s.sent.status = "cancelled"),
   grade |-> Mean(grades), profitable |-> CountOf(returns, LAMBDA r : r > 0),
   unprofitable |-> CountOf(returns, LAMBDA r : r <= 0), no_value |-> CountOf(list, LAMBDA s : s.sent.value = None),
   no_cost |-> CountOf(list, LAMBDA s : s.of.cost = None), waiting |-> CountOf(list, LAMBDA s : s.sent.status \in Waiting),
   returns |-> Total(returns), overdue |-> CountOf(list, LAMBDA s : Overdue(s.sent)),
   soon |-> CountOf(list, LAMBDA s : DueSoon(s.sent)),
   by |-> [d \in {"status", "set"} |->
             [k \in {key(list[i], d) : i \in DOMAIN list} |-> GradingTotals(SelectSeq(list, LAMBDA s : key(s, d) = k))]]]

\* build_grading_summary, of all submissions.
GradingSummary(list) ==
  LET gain(s) == IF None \in {s.sent.value, Cost(s.of)} THEN 0 ELSE s.sent.value - Cost(s.of) - Known(StoredCost(s.sent)) IN
  [count |-> Len(list), fees |-> SumOf(list, LAMBDA s : StoredCost(s.sent)), worth |-> SumOf(list, LAMBDA s : s.sent.value),
   by_status |-> [t \in Underway \union {"received", "cancelled"} |-> CountOf(list, LAMBDA s : s.sent.status = t)],
   gain |-> SumOf(list, gain), waiting |-> CountOf(list, LAMBDA s : s.sent.status \in Waiting),
   grade |-> Mean(SelectSeq([i \in DOMAIN list |-> list[i].sent.grade], LAMBDA g : g # None))]

-----------------------------------------------------------------------------
(***************************************************************************)
(* Properties                                                              *)
(***************************************************************************)
SumBy(by, field) == FoldFunction(+, 0, [key \in DOMAIN by |-> by[key][field]])

\* No breakdown loses a row or counts it twice: what all buckets hold is the
\* page's total, and by tags an item counts in every one of its own.
PagesAddUp(user) ==
  \A mode \in {"raw_market", "graded_adjusted"}, with \in BOOLEAN :
    \A page \in {CollectionAnalytics(user, mode, with)}, items \in {Shown(user, with)} :
    /\ \A d \in Dimensions \ {"tag"} :
         SumBy(page.by[d], "count") = page.total /\ SumBy(page.by[d], "cost") = page.cost
           /\ SumBy(page.by[d], "gain") = page.gain
    /\ SumBy(page.by["tag"], "count") = SumOf(items, LAMBDA h : Cardinality(h.tags))
    /\ page.with_cost = page.total - page.no_cost
    /\ page.largest <= page.top_10 /\ \A d \in {"set", "rarity"} : page.largest <= page.largest_of[d]
    /\ with => page.adjusted = Valuation(items).adjusted /\ page.raw = Valuation(items).floor
                 /\ page.no_cost = Valuation(items).no_cost

\* Wishes and submissions are counted alike by the pages and the summaries
\* beside them: a page that shows all of them has the summary's numbers.
PagesAgree(user) ==
  \A wishes \in {WishlistAnalytics(WishesShown(user, TRUE, TRUE))},
     buys \in {WishlistAnalytics(WishesShown(user, FALSE, FALSE))}, wished \in {WishlistSummary(Wishlist(user))},
     all \in {GradingAnalytics(SubmissionsShown(user, TRUE))}, graded \in {GradingSummary(Submissions(user))} :
  /\ wishes.sums.count = wished.total /\ wishes.watching = wished.watching /\ wishes.passed = wished.passed
  /\ buys.sums.count = wished.total - wished.removed - wished.purchased
  /\ wished.hits <= buys.sums.hits /\ buys.sums.hits <= wished.hits + wished.passed
  /\ \A d \in DOMAIN wishes.by : \A f \in DOMAIN wishes.sums : SumBy(wishes.by[d], f) = wishes.sums[f]
  /\ all.totals.count = graded.count /\ all.totals.fees = graded.fees /\ all.totals.worth = graded.worth
  /\ all.waiting = graded.waiting /\ all.grade = graded.grade /\ all.returns = graded.gain
  /\ \A d \in DOMAIN all.by : \A f \in DOMAIN all.totals \ {"pct"} : SumBy(all.by[d], f) = all.totals[f]
  /\ \A t \in DOMAIN all.by.status : all.by.status[t].count = graded.by_status[t]
=============================================================================

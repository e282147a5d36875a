------------------------------ MODULE Decisions ------------------------------
(***************************************************************************)
(* The advice to sell what is held and to buy what is wished for.          *)
(*                                                                         *)
(* A holding is an item of Market with the user's status of it, its tags   *)
(* and groups as far as their names say "sell" or "hold", the index of the *)
(* grading submission with the greatest id, the wishes for its card and    *)
(* the card's events.  A wish has besides Market's fields a priority, a    *)
(* maximum, quantities and the words "grail" and "avoid" of its tags and   *)
(* groups; where it is looked at, its card and events come with it.        *)
(***************************************************************************)
EXTENDS Market, FiniteSets

\* The percentages that both pages compute; None of no price or of zero.
Ratio(n, d) == IF None \in {n, d} \/ d = 0 THEN None ELSE Pct(n, d)
Difference(a, b) == IF None \in {a, b} THEN None ELSE a - b
Change(to, from, of) == IF None \in {to, from, of} \/ of = 0 THEN None ELSE Pct(to - from, of)
GapPct(card) == Change(Latest(card.floor), Latest(card.sell), Latest(card.sell))
SpreadPct(card) == Change(Latest(card.sell), Latest(card.buy), Latest(card.sell))

Best(opportunities) ==
  IF opportunities = <<>> THEN None
  ELSE CHOOSE s \in {EventScore(opportunities[i]) : i \in DOMAIN opportunities} :
         \A i \in DOMAIN opportunities : EventScore(opportunities[i]) <= s

-----------------------------------------------------------------------------
(***************************************************************************)
(* Selling                                                                 *)
(***************************************************************************)
Rank(priority) == CASE priority = "grail" -> 3 [] priority = "high" -> 2 [] priority = "medium" -> 1 [] OTHER -> 0

\* _best_wishlist_item_by_card: the priority of the wish shown, or "none".
BestWish(wishes) ==
  LET listed == {i \in DOMAIN wishes : wishes[i].status # "removed"} IN
  IF listed = {} THEN "none"
  ELSE wishes[CHOOSE i \in listed :
                \A j \in listed : Rank(wishes[j].priority) < Rank(wishes[i].priority)
                                    \/ (Rank(wishes[j].priority) = Rank(wishes[i].priority) /\ i <= j)].priority

\* Mutant: the retail price first.
CurrentValue_RetailFirst(holding, mode) ==
  IF mode = "graded_adjusted" THEN Adjusted(holding)
  ELSE Worth(holding, IF holding.card.sell # <<>> THEN Latest(holding.card.sell) ELSE Latest(holding.card.floor))

\* _current_value_and_basis.
CurrentValue(holding, mode) ==
  IF mode = "graded_adjusted" THEN Adjusted(holding) ELSE Worth(holding, Value(holding.card))

Gain(holding, mode) == Difference(CurrentValue(holding, mode), Cost(holding))

InGrading(holding) ==
  /\ holding.graded # <<>>
  /\ holding.graded[holding.newest].status \in {"planned", "preparing", "submitted", "grading", "shipped_back"}

HighlyWished(holding) == BestWish(holding.wishes) \in {"grail", "high"}

OwnedOpportunities(holding) == Opportunities(SelectSeq(holding.events, LAMBDA e : e.owned))

SellScore(holding, mode) ==
  LET gain == Change(CurrentValue(holding, mode), Cost(holding), Cost(holding))
      spread == SpreadPct(holding.card)
      opportunities == OwnedOpportunities(holding)
      newest == holding.graded[holding.newest] IN
  Clamped(Points(AboveTarget(holding), 35) + Points(gain >= 5000, 20) + Points(gain >= 10000, 30)
            + Points(GapPct(holding.card) >= 1000, 15) + Points(spread # None /\ spread <= 2000, 15)
            + Points(\E i \in DOMAIN opportunities : opportunities[i].action = "review_sell_opportunity", 25)
            + Points(Best(opportunities) >= 70, 15)
            + Points(holding.status = "sell", 20) + Points("sell" \in holding.tags, 10)
            - Points(InGrading(holding), 25)
            + Points(holding.graded # <<>> /\ newest.status = "received" /\ newest.value # None, 10)
            - Points(holding.cost = None, 20) - Points(CurrentValue(holding, mode) = None, 30)
            - Points(HighlyWished(holding), 10)
            - Points("hold" \in holding.tags \union holding.groups, 15))

SellAdvice(holding, mode, score) ==
  IF None \in {CurrentValue(holding, mode), holding.cost} THEN "missing_data"
  ELSE IF InGrading(holding) THEN "grade_first"
  ELSE IF AboveTarget(holding) \/ score >= 70 THEN "review_sell"
  ELSE IF "hold" \in holding.tags \union holding.groups \/ HighlyWished(holding) \/ score < 35 THEN "hold"
  ELSE "monitor"

SellAction(holding, mode) == SellAdvice(holding, mode, SellScore(holding, mode))

\* get_sell_decision_support, of the holdings shown and the action of each.
SellCounts(holdings, mode, actions) ==
  LET is(action) == {i \in DOMAIN holdings : actions[i] = action}
      value(i) == IF i \in is("review_sell") THEN Known(CurrentValue(holdings[i], mode)) ELSE 0 IN
  [total |-> Len(holdings), sell |-> Cardinality(is("review_sell")), hold |-> Cardinality(is("hold")),
   grade |-> Cardinality(is("grade_first")), missing |-> Cardinality(is("missing_data")),
   monitor |-> Cardinality(is("monitor")), value |-> Total([i \in DOMAIN holdings |-> value(i)]),
   gain |-> Total([i \in DOMAIN holdings |-> Known(Gain(holdings[i], mode))])]
SellSummary(holdings, mode) == SellCounts(holdings, mode, [i \in DOMAIN holdings |-> SellAction(holdings[i], mode)])

-----------------------------------------------------------------------------
(***************************************************************************)
(* Buying                                                                  *)
(***************************************************************************)
CurrentPrice(card, wish, preference) ==
  PreferredPrice(card, IF preference = "auto" THEN wish.source ELSE preference)

TargetHit(card, wish, preference) ==
  LET price == CurrentPrice(card, wish, preference) IN None \notin {price, wish.target} /\ price <= wish.target

Fulfilled(wish) == wish.owned >= wish.desired

Listed(wish, with_owned, with_purchased) ==
  /\ wish.status # "removed" /\ (with_purchased \/ wish.status # "purchased")
  /\ with_owned \/ ~Fulfilled(wish)

BuyOpportunities(events) == SelectSeq(Opportunities(events), LAMBDA e : e.action = "review_buy_opportunity")

BuyScore(card, wish, events, preference) ==
  LET gap == GapPct(card)
      spread == SpreadPct(card)
      opportunities == Opportunities(events)
      seen(type) == \E i \in DOMAIN opportunities : opportunities[i].type = type IN
  Clamped(Points(TargetHit(card, wish, preference), 40)
            + Points(wish.priority = "grail", 25) + Points(wish.priority = "high", 15) + Points(wish.priority = "medium", 5)
            + Points(gap # None /\ gap <= -1000, 20) + Points(spread # None /\ spread <= 2000, 10)
            + Points(seen("price_down_7d"), 10) + Points(seen("price_down_30d"), 15) + Points(Best(BuyOpportunities(events)) >= 70, 15)
            - Points(Fulfilled(wish), 30) - Points(wish.status = "purchased", 40) - Points(wish.status = "passed", 20)
            - Points(CurrentPrice(card, wish, preference) = None, 35) - Points(wish.target = None, 10)
            + Points("grail" \in wish.words, 10) - Points("avoid" \in wish.words, 25))

BuyAction(card, wish, events, preference, with_owned, with_purchased) ==
  LET price == CurrentPrice(card, wish, preference) IN
  IF price = None THEN "missing_data"
  ELSE IF \/ wish.status = "passed" \/ (wish.status = "purchased" /\ with_purchased)
          \/ Fulfilled(wish) /\ ~with_owned THEN "skip"
  ELSE IF TargetHit(card, wish, preference) \/ BuyScore(card, wish, events, preference) >= 70 THEN "review_buy"
  ELSE IF wish.max # None /\ price > wish.max THEN "wait" ELSE "monitor"

\* What is left to buy, which counts a copy both acquired and owned twice.
Remaining(wish) == LET n == wish.desired - wish.acquired - wish.owned IN IF n < 0 THEN 0 ELSE n

-----------------------------------------------------------------------------
(***************************************************************************)
(* Properties                                                              *)
(***************************************************************************)
Advice == [hold |-> 1, wait |-> 1, monitor |-> 2, review_sell |-> 3, review_buy |-> 3]

\* A price that rises never turns advice to sell into advice to keep, and one
\* that falls never advice to buy into advice to wait: of two floors, all else
\* the same.  (The opportunities are not: they come from the last refresh.)
AdviceIsMonotone(holding, wish, events, low, high) ==
  LET at(price) == [holding EXCEPT !.card.floor = <<[price |-> price, age |-> 0]>>] IN
  low < high =>
    /\ \A mode \in {"raw_market", "graded_adjusted"} :
         /\ SellScore(at(low), mode) <= SellScore(at(high), mode)
         /\ SellAction(at(low), mode) \in DOMAIN Advice /\ SellAction(at(high), mode) \in DOMAIN Advice
              => Advice[SellAction(at(low), mode)] <= Advice[SellAction(at(high), mode)]
    /\ \A preference \in {"auto", "snkrdunk", "yuyutei"} :
         LET action(price) == BuyAction(at(price).card, wish, events, preference, TRUE, TRUE) IN
         /\ BuyScore(at(low).card, wish, events, preference) >= BuyScore(at(high).card, wish, events, preference)
         /\ action(low) \in DOMAIN Advice /\ action(high) \in DOMAIN Advice => Advice[action(low)] >= Advice[action(high)]

\* The thresholds and formulas that the pages share with the signals are the
\* same: what the advice rests on is what a signal of the same prices says.
AdviceFollowsSignals(holding, wish) ==
  LET card == holding.card
      signals == Signals([sell |-> card.sell, buy |-> card.buy, floor |-> card.floor, mapped |-> card.mapped,
                          items |-> <<holding>>, wishes |-> <<wish>>])
      loss == Gain(holding, "raw_market") IN
  \A types \in {{signals[i].type : i \in DOMAIN signals}} :
  /\ (SpreadPct(card) # None /\ SpreadPct(card) <= 2000) <=> "yuyutei_buy_sell_spread_compressed" \in types
  /\ GapPct(holding.card) >= 1000 <=> "snkrdunk_floor_above_yuyutei_sell" \in types
  /\ (GapPct(card) # None /\ GapPct(holding.card) <= -1000) <=> "snkrdunk_floor_below_yuyutei_sell" \in types
  /\ (loss # None /\ loss < 0) <=> "owned_below_cost_basis" \in types
  /\ AboveTarget(holding) => "owned_above_target_sell" \in types
  /\ wish.status \in {"watching", "target_hit"} =>
       (TargetHit(holding.card, wish, "auto") <=> "wishlist_target_hit" \in types)

\* The page of what is held adds up to the portfolio that shows the same items,
\* and every holding is counted in one of its actions.
SalesAddUp(holdings) ==
  LET value(mode) == Total([i \in DOMAIN holdings |-> Known(CurrentValue(holdings[i], mode))]) IN
  \A of \in {SellSummary(holdings, "graded_adjusted")} :
  /\ value("graded_adjusted") = Valuation(holdings).adjusted
  /\ of.sell + of.hold + of.grade + of.missing + of.monitor = of.total
  /\ of.value <= value("graded_adjusted")
=============================================================================

------------------------- MODULE CalculationsProofs -------------------------
(***************************************************************************)
(* Theorems about Calculations, for any inputs that its assumption admits, *)
(* and, last, about SignalEvents, for any numbers of keys, of snapshots of *)
(* either program and of requests.                                         *)
(***************************************************************************)
EXTENDS Calculations, SignalEvents, FiniteSetTheorems, SequenceTheorems, WellFoundedInduction, TLAPS

-----------------------------------------------------------------------------
(***************************************************************************)
(* The scores of two cards                                                 *)
(***************************************************************************)
\* What a capped score is: the smallest of a sum and of caps.
Least(S) == CHOOSE n \in S : \A k \in S : n <= k

LEMMA LeastIsLeast ==
  ASSUME NEW sum \in Int, NEW S, 100 \in S, sum \in S, S \subseteq {100, 75, 74, 70, 60, sum}
  PROVE  Least(S) \in S /\ Least(S) \in Int /\ \A k \in S : Least(S) <= k
<1>1. PICK n \in S : \A k \in S : n <= k
  OBVIOUS
<1>2. Least(S) \in S /\ \A k \in S : Least(S) <= k
  BY <1>1 DEF Least
<1>3. S \subseteq Int
  OBVIOUS
<1>4. QED
  BY <1>2, <1>3

LEMMA DuplicateSumTyped == \A p \in Duplicates!Pairs : Duplicates!Sum(p) \in Int
BY DEF Duplicates!Pairs, Duplicates!Sum, Duplicates!CodePoints, Duplicates!NamePoints, Duplicates!When, Duplicates!Either

\* No score is above what the pair adds up to or a cap of it, but for 0.
LEMMA DuplicateScoreBound ==
  ASSUME NEW p \in Duplicates!Pairs
  PROVE  /\ Duplicates!Score(p) \in Nat
         /\ \A k \in Duplicates!Caps(p) \union {Duplicates!Sum(p)} : Duplicates!Score(p) > 0 => Duplicates!Score(p) <= k
<1> DEFINE S == Duplicates!Caps(p) \union {Duplicates!Sum(p)}
<1>1. 100 \in S /\ Duplicates!Sum(p) \in S /\ S \subseteq {100, 75, 74, 70, 60, Duplicates!Sum(p)}
  BY DEF Duplicates!Caps
<1>2. Duplicates!Sum(p) \in Int
  BY DuplicateSumTyped
<1>3. Duplicates!Score(p) = IF Least(S) < 0 THEN 0 ELSE Least(S)
  BY DEF Duplicates!Score, Least
<1> HIDE DEF S
<1>4. Least(S) \in Int /\ \A k \in S : Least(S) <= k
  BY ONLY <1>1, <1>2, LeastIsLeast
<1>5. QED
  BY <1>3, <1>4 DEF S

\* A pair of CardIdentity is merged without a person only if it is the same card.
LEMMA DuplicatesAreSame == \A p \in Duplicates!Pairs : Duplicates!SureIsSame(p)
<1> SUFFICES ASSUME NEW p \in Duplicates!Pairs, Duplicates!Score(p) >= 75
             PROVE  /\ p.variant
                    /\ p.language # "other"
                    /\ p.set = "other" => p.code = "exact"
                    /\ p.code = "other" => p.en = "exact" /\ p.jp = "exact" /\ p.set # "other" /\ p.language = "same"
  BY DEF Duplicates!SureIsSame, Duplicates!MinMergeScore
<1>1. Duplicates!Sum(p) >= 75 /\ Duplicates!Sum(p) \in Int
  BY DuplicateScoreBound, DuplicateSumTyped
<1>2. 60 \notin Duplicates!Caps(p) /\ 74 \notin Duplicates!Caps(p)
  BY DuplicateScoreBound
<1>3. p.set = "other" => p.code = "exact"
  BY <1>2 DEF Duplicates!Caps
<1>4. p.code = "other" \/ (p.variant /\ p.language # "other")
  BY <1>2 DEF Duplicates!Caps
<1>5. p.code = "other" => p.variant /\ p.en = "exact" /\ p.jp = "exact" /\ p.set # "other" /\ p.language = "same"
  BY <1>1 DEF Duplicates!Pairs, Duplicates!Sum, Duplicates!CodePoints, Duplicates!NamePoints, Duplicates!When, Duplicates!Either
<1>6. QED
  BY <1>3, <1>4, <1>5

LEMMA DuplicatesAreListed == \A p \in Duplicates!Pairs : Duplicates!SureIsListed(p)
<1> SUFFICES ASSUME NEW p \in Duplicates!Pairs, Duplicates!Score(p) >= 75, ~(p.set = "alike" /\ p.rarity = "alike")
             PROVE  Duplicates!Bucketed(p) /\ Duplicates!Score(p) >= 55
  BY DEF Duplicates!SureIsListed, Duplicates!MinMergeScore, Duplicates!MinListedScore, Duplicates!Listed
<1>1. Duplicates!Sum(p) >= 75 /\ Duplicates!Sum(p) \in Int /\ Duplicates!Score(p) \in Nat
  BY DuplicateScoreBound, DuplicateSumTyped
<1>2. p.code = "other" => p.en = "exact" /\ "exact" \in {p.set, p.rarity}
  BY <1>1 DEF Duplicates!Pairs, Duplicates!Sum, Duplicates!CodePoints, Duplicates!NamePoints, Duplicates!When, Duplicates!Either
<1>3. QED
  BY <1>1, <1>2 DEF Duplicates!Bucketed

LEMMA FieldsLoseNothing ==
  \A strategy \in Duplicates!Strategies, source, target \in Duplicates!Values :
    Duplicates!NothingLost(strategy, source, target)
BY DEF Duplicates!Strategies, Duplicates!Values, Duplicates!NothingLost, Duplicates!Merged

-----------------------------------------------------------------------------
(***************************************************************************)
(* The scores of a listing and a card                                      *)
(***************************************************************************)
LEMMA ListingSumTyped == \A p \in Listing!Pairs : Listing!Sum(p) \in Int
BY DEF Listing!Pairs, Listing!Compared, Listing!Sum, Listing!CodePoints, Listing!NamePoints, Listing!When, Listing!Signal

LEMMA ListingScoreBound ==
  ASSUME NEW p \in Listing!Pairs
  PROVE  /\ Listing!Score(p) \in Nat
         /\ \A k \in Listing!Caps(p) \union {Listing!Sum(p)} : Listing!Score(p) > 0 => Listing!Score(p) <= k
<1> DEFINE S == Listing!Caps(p) \union {Listing!Sum(p)}
<1>1. 100 \in S /\ Listing!Sum(p) \in S /\ S \subseteq {100, 75, 74, 70, 60, Listing!Sum(p)}
  BY DEF Listing!Caps
<1>2. Listing!Sum(p) \in Int
  BY ListingSumTyped
<1>3. Listing!Score(p) = IF Least(S) < 0 THEN 0 ELSE Least(S)
  BY DEF Listing!Score, Least
<1> HIDE DEF S
<1>4. Least(S) \in Int /\ \A k \in S : Least(S) <= k
  BY ONLY <1>1, <1>2, LeastIsLeast
<1>5. QED
  BY <1>3, <1>4 DEF S

LEMMA SuggestionsAreAlike == \A p \in Listing!Pairs : Listing!SuggestedIsAlike(p)
<1> SUFFICES ASSUME NEW p \in Listing!Pairs, Listing!Score(p) >= 75
             PROVE  /\ p.set = "other" => p.code = "detected"
                    /\ p.code = "none" => "exact" \in {p.en, p.jp} /\ p.set # "other"
  BY DEF Listing!SuggestedIsAlike, Listing!SuggestedScore
<1>1. Listing!Sum(p) >= 75 /\ Listing!Sum(p) \in Int /\ 70 \notin Listing!Caps(p)
  BY ListingScoreBound, ListingSumTyped
<1>2. p.set = "other" => p.code = "detected"
  BY <1>1 DEF Listing!Caps
<1>3. p.code = "none" => "exact" \in {p.en, p.jp}
  BY <1>1 DEF Listing!Pairs, Listing!Compared, Listing!Sum, Listing!CodePoints, Listing!NamePoints, Listing!When, Listing!Signal
<1>4. QED
  BY <1>2, <1>3

\* A mapping that names its card in no way scores too low to be "ok".
LEMMA MappingsAreSure ==
  ASSUME NEW m, IsMapping(m)
  PROVE  Listing!OkIsSure(m)
<1> DEFINE issues == Listing!Issues(m)
<1> SUFFICES ASSUME Listing!RiskLevel(m) = "ok"
             PROVE  /\ m.pair.set # "other" /\ m.pair.variant # "other"
                    /\ m.pair.code # "none" \/ "exact" \in {m.pair.en, m.pair.jp} \/ "none" \notin {m.pair.en, m.pair.jp}
                    /\ m.active <=> m.price \in 0..30
  BY DEF Listing!OkIsSure, Listing!RecentDays
<1>1. {"low_confidence", "set_code_mismatch", "variant_mismatch", "inactive_with_recent_price",
       "active_without_recent_price"} \intersect issues = {}
  BY DEF Listing!RiskLevel
<1>2. /\ Listing!Score(m.pair) >= 55
      /\ m.pair.set # "other" /\ m.pair.variant # "other"
      /\ m.active \/ ~(m.price \in 0..30)
      /\ ~m.active \/ m.price \in 0..30
  <2>1. m.pair.set # "other" /\ m.pair.variant # "other"
    BY <1>1 DEF Listing!Issues
  <2>2. ~(Listing!Score(m.pair) < 55)
    BY <1>1 DEF Listing!Issues, Listing!LowScore
  <2>3. (m.active \/ ~(m.price \in 0..30)) /\ (~m.active \/ m.price \in 0..30)
    BY <1>1 DEF Listing!Issues, Listing!RecentDays
  <2>4. Listing!Score(m.pair) \in Nat
    BY ListingScoreBound DEF IsMapping
  <2>5. QED
    BY <2>1, <2>2, <2>3, <2>4
<1>3. Listing!Sum(m.pair) >= 55 /\ m.pair \in Listing!Pairs
  BY <1>2, ListingScoreBound, ListingSumTyped DEF IsMapping
<1>4. m.pair.code = "none" => "exact" \in {m.pair.en, m.pair.jp} \/ "none" \notin {m.pair.en, m.pair.jp}
  BY <1>3 DEF Listing!Pairs, Listing!Compared, Listing!Sum, Listing!CodePoints, Listing!NamePoints, Listing!When, Listing!Signal
<1>5. QED
  BY <1>2, <1>4 DEF IsMapping

LEMMA SameCardinality == \A S : Listing!Cardinality(S) = Cardinality(S)
BY Zenon DEF Listing!Cardinality, Cardinality

\* Two best cards are ambiguous, whichever comes first.
LEMMA RankingsAreIdle ==
  ASSUME NEW pairs \in Seq(Listing!Pairs)
  PROVE  Listing!OrderIsIdle(pairs)
<1> DEFINE tops == Listing!Tops(pairs)
<1> SUFFICES ASSUME \A top \in tops : pairs[top].code # "detected", NEW x \in tops, NEW y \in tops, x # y,
                    NEW r \in Listing!Resolutions(pairs)
             PROVE  r.status = "ambiguous"
  <2>1. (\A x, y \in tops : x = y) => Cardinality(tops) <= 1
    <3>1. SUFFICES ASSUME \A x, y \in tops : x = y PROVE Cardinality(tops) <= 1
      OBVIOUS
    <3>2. CASE tops = {}
      BY <3>2, FS_EmptySet
    <3>3. ASSUME NEW x \in tops PROVE Cardinality(tops) <= 1
      <4>1. tops = {x}
        BY <3>1
      <4>2. Cardinality({x}) = 1
        BY FS_Singleton
      <4>3. QED
        BY <4>1, <4>2
    <3>4. QED
      BY <3>2, <3>3
  <2>2. QED
    BY <2>1, SameCardinality DEF Listing!OrderIsIdle
<1>1. \A card \in Listing!Scored(pairs) : Listing!Score(pairs[card]) \in Nat
  BY ListingScoreBound, ElementOfSeq DEF Listing!Scored
<1>2. PICK top \in tops : r = IF Listing!Ambiguous(pairs, top) THEN [status |-> "ambiguous", best |-> {top}]
                             ELSE IF Listing!Score(pairs[top]) >= 75 THEN [status |-> "suggested", best |-> {top}]
                             ELSE [status |-> "unmatched", best |-> {}]
  BY DEF Listing!Resolutions, Listing!Tops, Listing!SuggestedScore
<1>3. PICK other \in tops : other # top
  OBVIOUS
<1>4. Listing!Score(pairs[top]) = Listing!Score(pairs[other]) /\ Listing!Score(pairs[top]) \in Nat
  BY <1>1 DEF Listing!Tops
<1>5. Listing!Ambiguous(pairs, top)
  BY <1>3, <1>4 DEF Listing!Ambiguous, Listing!Tops, Listing!TieMargin
<1>6. QED
  BY <1>2, <1>5

-----------------------------------------------------------------------------
(***************************************************************************)
(* The worker's tiers                                                      *)
(***************************************************************************)
\* Of fewer cards a tier finds what it finds of all, as far as it is there.
LEMMA FoundOfFewer ==
  ASSUME NEW cards, NEW fewer \in SUBSET DOMAIN cards, NEW tier \in {1, 2, 3}
  PROVE  Listing!Found([card \in fewer |-> cards[card]], tier) = Listing!Found(cards, tier) \intersect fewer
BY DEF Listing!Found

\* What tier 1 or 2 decides does not depend on the cards it does not find.
LEMMA MatchesAreCertain ==
  ASSUME NEW m, IsMatch(m)
  PROVE  Listing!MatchIsCertain(m.cards, m.graded, m.fuzzy)
<1> DEFINE cards == m.cards  graded == m.graded  fuzzy == m.fuzzy
           first == Listing!Found(cards, 1)  second == Listing!Found(cards, 2)
           match == Listing!Match(cards, graded, fuzzy)
<1> SUFFICES ASSUME match.status = "matched"
             PROVE  /\ Cardinality(match.cards) = 1 /\ ~graded
                    /\ \A fewer \in SUBSET DOMAIN cards :
                         match.cards \subseteq fewer =>
                           Listing!Match([card \in fewer |-> cards[card]], graded, fuzzy \intersect fewer) = match
  BY SameCardinality DEF Listing!MatchIsCertain
<1>1. Cardinality({}) = 0 /\ Cardinality({}) # 1
  BY FS_EmptySet
<1>2. CASE Cardinality(first) = 1
  <2>1. match = Listing!Finalized(first, 1, graded)
    BY <1>2, SameCardinality DEF Listing!Match, Listing!Decided
  <2>2. match = [status |-> "matched", cards |-> first] /\ ~graded
    BY <2>1 DEF Listing!Finalized, Listing!Result
  <2>3. ASSUME NEW fewer \in SUBSET DOMAIN cards, first \subseteq fewer
        PROVE  Listing!Match([card \in fewer |-> cards[card]], graded, fuzzy \intersect fewer) = match
    <3>1. Listing!Found([card \in fewer |-> cards[card]], 1) = first
      BY <2>3, FoundOfFewer
    <3>2. QED
      BY <1>2, <2>1, <3>1, SameCardinality DEF Listing!Match, Listing!Decided
  <2>4. QED
    BY <1>2, <2>2, <2>3
<1>3. CASE Cardinality(first) # 1
  <2>1. first = {} /\ Cardinality(second) = 1
    BY <1>3, SameCardinality
       DEF Listing!Match, Listing!Decided, Listing!Result, Listing!Unmatched, Listing!Finalized
  <2>2. match = Listing!Finalized(second, 2, graded)
    BY <1>3, <2>1, SameCardinality DEF Listing!Match, Listing!Decided
  <2>3. match = [status |-> "matched", cards |-> second] /\ ~graded
    BY <2>2 DEF Listing!Finalized, Listing!Result
  <2>4. ASSUME NEW fewer \in SUBSET DOMAIN cards, second \subseteq fewer
        PROVE  Listing!Match([card \in fewer |-> cards[card]], graded, fuzzy \intersect fewer) = match
    <3>1. /\ Listing!Found([card \in fewer |-> cards[card]], 1) = {}
          /\ Listing!Found([card \in fewer |-> cards[card]], 2) = second
      <4>1. \A tier \in {1, 2} :
              Listing!Found([card \in fewer |-> cards[card]], tier) = Listing!Found(cards, tier) \intersect fewer
        BY FoundOfFewer
      <4>2. QED
        BY <2>1, <2>4, <4>1
    <3>2. QED
      BY <1>1, <2>1, <2>2, <3>1, SameCardinality DEF Listing!Match, Listing!Decided
  <2>5. QED
    BY <2>1, <2>3, <2>4
<1>4. QED
  BY <1>2, <1>3

-----------------------------------------------------------------------------
(***************************************************************************)
(* Copies: the scores of events                                            *)
(***************************************************************************)
LEMMA CategoriesAgree == \A e : Copy!WorkerCategory(e) = Copy!Category(e)
BY DEF Copy!WorkerCategory, Copy!Category

LEMMA ClampedIsChosen ==
  ASSUME NEW score \in Int
  PROVE  (CHOOSE n \in 0..100 : (n = score) \/ (score < 0 /\ n = 0) \/ (score > 100 /\ n = 100)) = Copy!Clamped(score)
<1> DEFINE Is(n) == (n = score) \/ (score < 0 /\ n = 0) \/ (score > 100 /\ n = 100)
<1>1. Copy!Clamped(score) \in 0..100 /\ Is(Copy!Clamped(score))
  BY DEF Copy!Clamped
<1>2. \A n \in 0..100 : Is(n) => n = Copy!Clamped(score)
  BY DEF Copy!Clamped
<1>3. QED
  BY <1>1, <1>2

\* The parts of a score.
ByAction(e) ==
  LET base == [review_buy_opportunity |-> 60, review_sell_opportunity |-> 65, monitor_momentum |-> 50,
               monitor_drop |-> 45, review_mapping |-> 30, update_prices |-> 25, add_collection_target |-> 20] IN
  IF e.action \in DOMAIN base THEN base[e.action] ELSE 10
ByType(e) ==
  LET by_type == [snkrdunk_floor_below_yuyutei_sell |-> 20, snkrdunk_floor_above_yuyutei_sell |-> 15,
                  yuyutei_buy_sell_spread_compressed |-> 15, yuyutei_buy_sell_spread_wide |-> 10,
                  price_up_7d |-> 12, price_up_30d |-> 10, price_down_7d |-> 8, price_down_30d |-> 8,
                  owned_above_target_sell |-> 25, owned_below_cost_basis |-> 15,
                  missing_recent_price |-> -10, stale_mapping_price |-> -5] IN
  IF e.type \in DOMAIN by_type THEN by_type[e.type] ELSE 0
MetricPoints(metric) ==
  LET size == IF metric < 0 THEN -metric ELSE metric IN
  IF metric = Copy!None \/ size < 1000 THEN 0 ELSE IF size < 2000 THEN 5 ELSE IF size < 4000 THEN 10 ELSE 15
ByMetric(e) == MetricPoints(e.metric)
BySeen(e) == IF e.seen >= 7 THEN 10 ELSE IF e.seen >= 3 THEN 5 ELSE 0
BySeverity(e) == CASE e.severity = "critical" -> 10 [] e.severity = "warning" -> 5 [] OTHER -> 0

LEMMA WorkerScoreParts ==
  ASSUME NEW e
  PROVE  LET score == ByAction(e) + ByType(e) + (IF e.owned THEN 10 ELSE 0) + BySeen(e)
                        + (IF e.status = "watching" THEN 10 ELSE 0) + BySeverity(e) + ByMetric(e) IN
         Copy!WorkerScore(e) =
           CHOOSE n \in 0..100 : (n = score) \/ (score < 0 /\ n = 0) \/ (score > 100 /\ n = 100)
BY DEF Copy!WorkerScore, ByAction, ByType, ByMetric, MetricPoints, BySeen, BySeverity

LEMMA MetricsAgree ==
  ASSUME NEW metric \in Int
  PROVE  MetricPoints(metric) = Copy!MetricModifier(metric) /\ Copy!MetricModifier(metric) \in Int
<1> DEFINE size == IF metric < 0 THEN -metric ELSE metric
<1>1. Copy!MetricModifier(metric) =
        CASE metric = Copy!None -> 0 [] metric # Copy!None /\ size >= 4000 -> 15
          [] metric # Copy!None /\ size \in 2000..3999 -> 10 [] metric # Copy!None /\ size \in 1000..1999 -> 5
          [] OTHER -> 0
  BY DEF Copy!MetricModifier
<1>2. MetricPoints(metric) =
        IF metric = Copy!None \/ size < 1000 THEN 0 ELSE IF size < 2000 THEN 5 ELSE IF size < 4000 THEN 10 ELSE 15
  BY DEF MetricPoints
<1>3. size \in Nat
  OBVIOUS
<1> HIDE DEF size
<1>4. CASE metric = Copy!None
  BY <1>1, <1>2, <1>4
<1>5. CASE metric # Copy!None /\ size < 1000
  <2>1. size \notin 1000..1999 /\ size \notin 2000..3999 /\ ~(size >= 4000)
    BY ONLY SMTT(30), <1>3, <1>5
  <2>2. Copy!MetricModifier(metric) = 0
    BY ONLY <1>1, <1>5, <2>1
  <2>3. MetricPoints(metric) = 0
    BY ONLY <1>2, <1>5, <2>1
  <2>4. QED
    BY <2>2, <2>3
<1>6. CASE metric # Copy!None /\ size >= 1000 /\ size < 2000
  <2>1. size \in 1000..1999 /\ size \notin 2000..3999 /\ ~(size >= 4000) /\ ~(size < 1000)
    BY <1>3, <1>6
  <2>2. Copy!MetricModifier(metric) = 5
    BY ONLY <1>1, <1>6, <2>1
  <2>3. MetricPoints(metric) = 5
    BY ONLY <1>2, <1>6, <2>1
  <2>4. QED
    BY <2>2, <2>3
<1>7. CASE metric # Copy!None /\ size >= 2000 /\ size < 4000
  <2>1. size \in 2000..3999 /\ size \notin 1000..1999 /\ ~(size >= 4000) /\ ~(size < 1000) /\ ~(size < 2000)
    BY ONLY <1>3, <1>7
  <2>2. Copy!MetricModifier(metric) = 10
    BY ONLY <1>1, <1>7, <2>1
  <2>3. MetricPoints(metric) = 10
    BY ONLY <1>2, <1>7, <2>1
  <2>4. QED
    BY <2>2, <2>3
<1>8. CASE metric # Copy!None /\ size >= 4000
  <2>1. size \notin 1000..1999 /\ size \notin 2000..3999 /\ ~(size < 1000) /\ ~(size < 2000) /\ ~(size < 4000)
    BY ONLY SMTT(30), <1>3, <1>8
  <2>2. Copy!MetricModifier(metric) = 15
    BY ONLY <1>1, <1>8, <2>1
  <2>3. MetricPoints(metric) = 15
    BY ONLY <1>2, <1>8, <2>1
  <2>4. QED
    BY <2>2, <2>3
<1>9. QED
  BY <1>3, <1>4, <1>5, <1>6, <1>7, <1>8

LEMMA ScorePartsAgree ==
  ASSUME NEW e, IsEvent(e)
  PROVE  /\ ByAction(e) = Copy!BaseScore(e.action) /\ Copy!BaseScore(e.action) \in Int
         /\ e.type # "wishlist_target_hit" => ByType(e) = Copy!TypeModifier(e.type)
         /\ Copy!TypeModifier(e.type) \in Int
         /\ ByMetric(e) = Copy!MetricModifier(e.metric) /\ Copy!MetricModifier(e.metric) \in Int
         /\ BySeen(e) = Copy!Points(e.seen >= 7, 10) + Copy!Points(e.seen \in 3..6, 5) /\ BySeen(e) \in Int
         /\ BySeverity(e) = Copy!Points(e.severity = "critical", 10) + Copy!Points(e.severity = "warning", 5)
         /\ BySeverity(e) \in Int
<1>1. ByAction(e) = Copy!BaseScore(e.action) /\ Copy!BaseScore(e.action) \in Int
  BY DEF ByAction, Copy!BaseScore
<1>2. Copy!TypeModifier(e.type) \in Int /\ (e.type # "wishlist_target_hit" => ByType(e) = Copy!TypeModifier(e.type))
  BY DEF ByType, Copy!TypeModifier
<1>3. ByMetric(e) = Copy!MetricModifier(e.metric) /\ Copy!MetricModifier(e.metric) \in Int
  <2>1. e.metric \in Int
    BY DEF IsEvent, Known, Copy!None
  <2>2. QED
    BY <2>1, MetricsAgree DEF ByMetric
<1>4. BySeen(e) = Copy!Points(e.seen >= 7, 10) + Copy!Points(e.seen \in 3..6, 5) /\ BySeen(e) \in Int
  BY DEF BySeen, Copy!Points, IsEvent
<1>5. /\ BySeverity(e) = Copy!Points(e.severity = "critical", 10) + Copy!Points(e.severity = "warning", 5)
      /\ BySeverity(e) \in Int
  BY DEF BySeverity, Copy!Points
<1>6. QED
  BY <1>1, <1>2, <1>3, <1>4, <1>5

LEMMA EventScoresAgree ==
  ASSUME NEW e, IsEvent(e)
  PROVE  Copy!ScoresAgree(e)
<1> SUFFICES ASSUME e.wish \notin {"grail", "high"}, e.type # "wishlist_target_hit"
             PROVE  Copy!WorkerScore(e) = Copy!EventScore(e)
  BY CategoriesAgree DEF Copy!ScoresAgree
<1> DEFINE score == ByAction(e) + ByType(e) + (IF e.owned THEN 10 ELSE 0) + BySeen(e)
                      + (IF e.status = "watching" THEN 10 ELSE 0) + BySeverity(e) + ByMetric(e)
           points == Copy!BaseScore(e.action) + Copy!TypeModifier(e.type) + Copy!WishModifier(e.wish)
                       + Copy!Points(e.owned, 10) + Copy!Points(e.seen >= 7, 10) + Copy!Points(e.seen \in 3..6, 5)
                       + Copy!Points(e.status = "watching", 10)
                       + Copy!Points(e.severity = "critical", 10) + Copy!Points(e.severity = "warning", 5)
                       + Copy!MetricModifier(e.metric)
<1>1. Copy!WishModifier(e.wish) = 0
  BY DEF Copy!WishModifier
<1>2. \A condition : Copy!Points(condition, 10) \in {0, 10} /\ Copy!Points(condition, 5) \in {0, 5}
  BY DEF Copy!Points
<1>3. /\ Copy!Points(e.owned, 10) = IF e.owned THEN 10 ELSE 0
      /\ Copy!Points(e.status = "watching", 10) = IF e.status = "watching" THEN 10 ELSE 0
  BY DEF Copy!Points
<1>4. score = points /\ score \in Int
  BY <1>1, <1>2, <1>3, ScorePartsAgree
<1>5. Copy!WorkerScore(e) = Copy!Clamped(score)
  <2>1. Copy!WorkerScore(e) = CHOOSE n \in 0..100 : (n = score) \/ (score < 0 /\ n = 0) \/ (score > 100 /\ n = 100)
    BY WorkerScoreParts
  <2> HIDE DEF score
  <2>2. QED
    BY <1>4, <2>1, ClampedIsChosen
<1>6. QED
  BY <1>4, <1>5 DEF Copy!EventScore

-----------------------------------------------------------------------------
(***************************************************************************)
(* Copies: the sweeps over the environment                                 *)
(***************************************************************************)
LEMMA EnvironmentTyped ==
  ASSUME NEW env, IsEnvironment(env)
  PROVE  /\ env["ENVIRONMENT"] \in {"production", "Production", "development", "staging", "unset", "", "  "}
         /\ env["APP_ENV"] \in {"production", "Production", "development", "staging", "unset", "", "  "}
         /\ env["DATABASE_URL"] \in {"default", "safe", "unset", "", "  "}
         /\ env["REDIS_URL"] \in {"given", "unset", "", "  "}
         /\ env["ADMIN_TOKEN"] \in {"default", "short", "long", "unset", "", "  "}
         /\ env["SCRAPING_MODE"] \in {"mock", "live", "Live", "other", "unset", "", "  "}
         /\ env["MARKET_WORKFLOW_SOURCE"] \in {"yuyutei", "other", "unset", "", "  "}
         /\ \A v \in Startup!Delays \union Startup!Times \union {"MARKET_WORKFLOW_LIMIT"} :
              env[v] \in {"word", "zero", "small", "large", "unset", "", "  "}
         /\ \A v \in Startup!Flags \union {"RATE_LIMIT_ENABLED"} :
              env[v] \in {"true", "false", "y", "maybe", "unset", "", "  "}
<1>1. \A v \in Startup!Variables : env[v] \in Startup!Kinds(v) \union {"unset", "", "  "}
  BY DEF IsEnvironment, Startup!Values, Startup!Unset, Startup!Blank, Startup!Spaces
<1>2. /\ {"ENVIRONMENT", "APP_ENV", "DATABASE_URL", "REDIS_URL", "ADMIN_TOKEN", "SCRAPING_MODE",
          "MARKET_WORKFLOW_SOURCE"} \subseteq Startup!Variables
      /\ Startup!Delays \union Startup!Times \union {"MARKET_WORKFLOW_LIMIT"} \subseteq Startup!Variables
      /\ Startup!Flags \union {"RATE_LIMIT_ENABLED"} \subseteq Startup!Variables
  BY DEF Startup!Variables
<1>3. /\ Startup!Kinds("ENVIRONMENT") = {"production", "Production", "development", "staging"}
      /\ Startup!Kinds("APP_ENV") = {"production", "Production", "development", "staging"}
      /\ Startup!Kinds("DATABASE_URL") = {"default", "safe"}
      /\ Startup!Kinds("REDIS_URL") = {"given"}
      /\ Startup!Kinds("ADMIN_TOKEN") = {"default", "short", "long"}
      /\ Startup!Kinds("SCRAPING_MODE") = {"mock", "live", "Live", "other"}
      /\ Startup!Kinds("MARKET_WORKFLOW_SOURCE") = {"yuyutei", "other"}
  BY DEF Startup!Kinds, Startup!Delays, Startup!Times, Startup!Flags
<1>4. \A v \in Startup!Delays \union Startup!Times \union {"MARKET_WORKFLOW_LIMIT"} :
        Startup!Kinds(v) = {"word", "zero", "small", "large"}
  BY DEF Startup!Kinds, Startup!Delays, Startup!Times, Startup!Flags, Startup!Numbers
<1>5. \A v \in Startup!Flags \union {"RATE_LIMIT_ENABLED"} : Startup!Kinds(v) = {"true", "false", "y", "maybe"}
  BY DEF Startup!Kinds, Startup!Delays, Startup!Times, Startup!Flags, Startup!Switches
<1>6. /\ env["ENVIRONMENT"] \in {"production", "Production", "development", "staging", "unset", "", "  "}
      /\ env["APP_ENV"] \in {"production", "Production", "development", "staging", "unset", "", "  "}
      /\ env["DATABASE_URL"] \in {"default", "safe", "unset", "", "  "}
      /\ env["REDIS_URL"] \in {"given", "unset", "", "  "}
      /\ env["ADMIN_TOKEN"] \in {"default", "short", "long", "unset", "", "  "}
      /\ env["SCRAPING_MODE"] \in {"mock", "live", "Live", "other", "unset", "", "  "}
      /\ env["MARKET_WORKFLOW_SOURCE"] \in {"yuyutei", "other", "unset", "", "  "}
  <2>1. env["ENVIRONMENT"] \in {"production", "Production", "development", "staging", "unset", "", "  "}
    BY ONLY <1>1, <1>2, <1>3
  <2>2. env["APP_ENV"] \in {"production", "Production", "development", "staging", "unset", "", "  "}
    BY ONLY <1>1, <1>2, <1>3
  <2>3. env["DATABASE_URL"] \in {"default", "safe", "unset", "", "  "}
    BY ONLY <1>1, <1>2, <1>3
  <2>4. env["REDIS_URL"] \in {"given", "unset", "", "  "}
    BY ONLY <1>1, <1>2, <1>3
  <2>5. env["ADMIN_TOKEN"] \in {"default", "short", "long", "unset", "", "  "}
    BY ONLY <1>1, <1>2, <1>3
  <2>6. env["SCRAPING_MODE"] \in {"mock", "live", "Live", "other", "unset", "", "  "}
    BY ONLY <1>1, <1>2, <1>3
  <2>7. env["MARKET_WORKFLOW_SOURCE"] \in {"yuyutei", "other", "unset", "", "  "}
    BY ONLY <1>1, <1>2, <1>3
  <2>8. QED
    BY ONLY <2>1, <2>2, <2>3, <2>4, <2>5, <2>6, <2>7
<1>7. \A v \in Startup!Delays \union Startup!Times \union {"MARKET_WORKFLOW_LIMIT"} :
        env[v] \in {"word", "zero", "small", "large", "unset", "", "  "}
  BY ONLY <1>1, <1>2, <1>4
<1>8. \A v \in Startup!Flags \union {"RATE_LIMIT_ENABLED"} :
        env[v] \in {"true", "false", "y", "maybe", "unset", "", "  "}
  BY ONLY <1>1, <1>2, <1>5
<1>9. QED
  BY ONLY <1>6, <1>7, <1>8

\* Of a set of two names, exactly one is chosen.
LEMMA OneOfTwo ==
  ASSUME NEW a, NEW b, a # b, NEW S \in SUBSET {a, b}
  PROVE  Startup!Cardinality(S) = 1 <=> (a \in S) # (b \in S)
<1>1. Startup!Cardinality(S) = Cardinality(S)
  BY Zenon DEF Startup!Cardinality, Cardinality
<1>2. S \in {{}, {a}, {b}, {a, b}}
  OBVIOUS
<1>3. Cardinality({}) = 0 /\ Cardinality({a}) = 1 /\ Cardinality({b}) = 1
  BY FS_EmptySet, FS_Singleton
<1>4. Cardinality({a, b}) = 2
  <2>1. IsFiniteSet({b}) /\ Cardinality({b}) = 1
    BY FS_Singleton
  <2>2. Cardinality({b} \union {a}) = 2
    BY <2>1, FS_AddElement
  <2>3. {b} \union {a} = {a, b}
    OBVIOUS
  <2>4. QED
    BY <2>2, <2>3
<1>5. QED
  BY <1>1, <1>2, <1>3, <1>4

LEMMA SweepPartsAgree ==
  ASSUME NEW env, IsEnvironment(env)
  PROVE  /\ Startup!WorkerRequired(env) = Startup!Required(env)
         /\ Startup!WorkerScraping(env) = Startup!Scraping(env)
         /\ Startup!WorkerWorkflow(env) = Startup!Workflow(env)
         /\ Startup!WorkerTelegram(env) = Startup!Telegram(env)
<1> USE DEF Startup!Unset, Startup!Blank, Startup!Spaces
<1>1. Startup!WorkerRequired(env) = Startup!Required(env)
  BY ZenonT(60), EnvironmentTyped DEF Startup!WorkerRequired, Startup!Required, Startup!Given
<1>2. Startup!WorkerScraping(env) = Startup!Scraping(env)
  <2>1. \A v \in Startup!Delays : Startup!Values(v) = {"word", "zero", "small", "large", "unset", "", "  "}
    BY DEF Startup!Values, Startup!Kinds, Startup!Delays, Startup!Times, Startup!Flags, Startup!Numbers
  <2>2. QED
    BY ZenonT(60), <2>1, EnvironmentTyped DEF Startup!WorkerScraping, Startup!Scraping, Startup!Live
<1>3. Startup!WorkerWorkflow(env) = Startup!Workflow(env)
  BY ZenonT(90), EnvironmentTyped DEF Startup!WorkerWorkflow, Startup!Workflow, Startup!Written, Startup!Times, Startup!Flags
<1>4. Startup!WorkerTelegram(env) = Startup!Telegram(env)
  <2> DEFINE given == {v \in {"TELEGRAM_BOT_TOKEN", "TELEGRAM_CHAT_ID"} : Startup!Given(env, v)}
  <2>1. Startup!Cardinality(given) = 1
          <=> Startup!Given(env, "TELEGRAM_BOT_TOKEN") # Startup!Given(env, "TELEGRAM_CHAT_ID")
    <3>1. given \in SUBSET {"TELEGRAM_BOT_TOKEN", "TELEGRAM_CHAT_ID"}
      OBVIOUS
    <3>2. /\ "TELEGRAM_BOT_TOKEN" \in given <=> Startup!Given(env, "TELEGRAM_BOT_TOKEN")
          /\ "TELEGRAM_CHAT_ID" \in given <=> Startup!Given(env, "TELEGRAM_CHAT_ID")
      OBVIOUS
    <3> HIDE DEF given
    <3>3. Startup!Cardinality(given) = 1 <=> ("TELEGRAM_BOT_TOKEN" \in given) # ("TELEGRAM_CHAT_ID" \in given)
      BY <3>1, OneOfTwo
    <3>4. Startup!Given(env, "TELEGRAM_BOT_TOKEN") \in BOOLEAN /\ Startup!Given(env, "TELEGRAM_CHAT_ID") \in BOOLEAN
      BY DEF Startup!Given
    <3>5. QED
      BY <3>2, <3>3, <3>4
  <2>2. given = {} <=> ~Startup!Given(env, "TELEGRAM_BOT_TOKEN") /\ ~Startup!Given(env, "TELEGRAM_CHAT_ID")
    OBVIOUS
  <2>3. QED
    BY <2>1, <2>2 DEF Startup!WorkerTelegram, Startup!Telegram, Startup!Given
<1>5. QED
  BY <1>1, <1>2, <1>3, <1>4

LEMMA AllSweepsAgree ==
  ASSUME NEW env, IsEnvironment(env)
  PROVE  Startup!SweepsAgree(env)
BY SweepPartsAgree DEF Startup!SweepsAgree, Startup!WorkerProblems, Startup!Problems

\* What an environment is that the sweep has nothing to say of.
LEMMA SweptIs ==
  ASSUME NEW env, IsEnvironment(env), Startup!Problems(env) = {}
  PROVE  /\ env["DATABASE_URL"] \in {"safe", "  "} /\ env["REDIS_URL"] \in {"given", "  "} /\ env["ADMIN_TOKEN"] = "long"
         /\ env["SCRAPING_MODE"] \in {"mock", "live", "Live", "unset", ""}
         /\ env["SCRAPING_MODE"] \in {"live", "Live"} => \A v \in Startup!Delays : env[v] = "large"
         /\ env["MARKET_WORKFLOW_SOURCE"] \in {"yuyutei", "unset", "", "  "}
         /\ env["MARKET_WORKFLOW_LIMIT"] \in {"small", "large", "unset", "", "  "}
         /\ \A v \in Startup!Times : env[v] \in {"zero", "small", "unset", "", "  "}
         /\ \A v \in Startup!Flags : env[v] \in {"true", "false", "unset", "", "  "}
         /\ env["MARKET_WORKFLOW_SEND_TELEGRAM"] = "true" =>
              Startup!Given(env, "TELEGRAM_BOT_TOKEN") /\ Startup!Given(env, "TELEGRAM_CHAT_ID")
<1> USE DEF Startup!Unset, Startup!Blank, Startup!Spaces
<1>1. Startup!Required(env) = {} /\ Startup!Scraping(env) = {} /\ Startup!Workflow(env) = {} /\ Startup!WorkerTelegram(env) = {}
  BY SweepPartsAgree DEF Startup!Problems
<1>2. env["DATABASE_URL"] \in {"safe", "  "} /\ env["REDIS_URL"] \in {"given", "  "} /\ env["ADMIN_TOKEN"] = "long"
  <2>1. \A v \in {"DATABASE_URL", "REDIS_URL", "ADMIN_TOKEN"} : env[v] \notin {"unset", ""}
    BY <1>1 DEF Startup!Required, Startup!Given
  <2>2. \A v \in {"DATABASE_URL", "ADMIN_TOKEN"} : env[v] \notin {"default", "short"}
    BY <1>1 DEF Startup!Required
  <2>3. env["ADMIN_TOKEN"] # "  "
    BY <1>1 DEF Startup!Required
  <2>4. QED
    BY <2>1, <2>2, <2>3, EnvironmentTyped
<1>3. /\ env["SCRAPING_MODE"] \in {"mock", "live", "Live", "unset", ""}
      /\ env["SCRAPING_MODE"] \in {"live", "Live"} => \A v \in Startup!Delays : env[v] = "large"
  BY <1>1, EnvironmentTyped DEF Startup!Scraping, Startup!Live
<1>4. /\ env["MARKET_WORKFLOW_SOURCE"] \in {"yuyutei", "unset", "", "  "}
      /\ env["MARKET_WORKFLOW_LIMIT"] \in {"small", "large", "unset", "", "  "}
      /\ \A v \in Startup!Times : env[v] \in {"zero", "small", "unset", "", "  "}
      /\ \A v \in Startup!Flags : env[v] \in {"true", "false", "unset", "", "  "}
  <2>1. /\ env["MARKET_WORKFLOW_SOURCE"] # "other" /\ env["MARKET_WORKFLOW_LIMIT"] \notin {"word", "zero"}
        /\ \A v \in Startup!Times : env[v] \notin {"word", "large"}
        /\ \A v \in Startup!Flags : env[v] \notin {"y", "maybe"}
    BY ONLY <1>1 DEF Startup!Workflow
  <2>2. /\ env["MARKET_WORKFLOW_SOURCE"] \in {"yuyutei", "other", "unset", "", "  "}
        /\ \A v \in Startup!Times \union {"MARKET_WORKFLOW_LIMIT"} :
             env[v] \in {"word", "zero", "small", "large", "unset", "", "  "}
        /\ \A v \in Startup!Flags : env[v] \in {"true", "false", "y", "maybe", "unset", "", "  "}
    BY EnvironmentTyped
  <2>3. env["MARKET_WORKFLOW_SOURCE"] \in {"yuyutei", "unset", "", "  "}
    BY ONLY <2>1, <2>2
  <2>4. env["MARKET_WORKFLOW_LIMIT"] \in {"small", "large", "unset", "", "  "}
    BY ONLY <2>1, <2>2
  <2>5. \A v \in Startup!Times : env[v] \in {"zero", "small", "unset", "", "  "}
    BY ONLY <2>1, <2>2
  <2>6. \A v \in Startup!Flags : env[v] \in {"true", "false", "unset", "", "  "}
    BY ONLY <2>1, <2>2
  <2>7. QED
    BY ONLY <2>3, <2>4, <2>5, <2>6
<1>5. env["MARKET_WORKFLOW_SEND_TELEGRAM"] = "true" =>
        Startup!Given(env, "TELEGRAM_BOT_TOKEN") /\ Startup!Given(env, "TELEGRAM_CHAT_ID")
  BY <1>1 DEF Startup!WorkerTelegram, Startup!Given
<1>6. QED
  BY ONLY <1>2, <1>3, <1>4, <1>5

LEMMA AllStartedIsSafe ==
  ASSUME NEW env, IsEnvironment(env)
  PROVE  Startup!StartedIsSafe(env)
<1> USE DEF Startup!Unset, Startup!Blank, Startup!Spaces
<1> SUFFICES ASSUME Startup!Production(env)
             PROVE  /\ Startup!ApiStarts(env) \/ Startup!WorkerStarts(env) =>
                         env["DATABASE_URL"] = "safe" /\ Startup!Written(env, "REDIS_URL") /\ env["ADMIN_TOKEN"] = "long"
                    /\ Startup!WorkerStarts(env) =>
                         /\ env["SCRAPING_MODE"] = "live" => \A v \in Startup!Delays : env[v] = "large"
                         /\ Startup!Sends(env) =>
                              Startup!Given(env, "TELEGRAM_BOT_TOKEN") /\ Startup!Given(env, "TELEGRAM_CHAT_ID")
  BY DEF Startup!StartedIsSafe
<1>1. Startup!ApiStarts(env) \/ Startup!WorkerStarts(env) => Startup!Problems(env) = {}
  BY AllSweepsAgree DEF Startup!ApiStarts, Startup!WorkerStarts, Startup!SweepsAgree
<1>2. Startup!ApiStarts(env) \/ Startup!WorkerStarts(env) => env["DATABASE_URL"] # "  " /\ env["REDIS_URL"] # "  "
  <2>1. \A v \in {"DATABASE_URL", "REDIS_URL"} : Startup!Parses(env, v) <=> env[v] \notin {"", "  "}
    BY DEF Startup!Parses, Startup!Times, Startup!Flags
  <2>2. {"DATABASE_URL", "REDIS_URL"} \subseteq Startup!Variables \ {"RATE_LIMIT_ENABLED"}
    BY DEF Startup!Variables
  <2>3. QED
    BY <2>1, <2>2 DEF Startup!ApiStarts, Startup!WorkerStarts
<1>3. ASSUME Startup!ApiStarts(env) \/ Startup!WorkerStarts(env)
      PROVE  env["DATABASE_URL"] = "safe" /\ Startup!Written(env, "REDIS_URL") /\ env["ADMIN_TOKEN"] = "long"
  <2>1. env["DATABASE_URL"] \in {"safe", "  "} /\ env["REDIS_URL"] \in {"given", "  "} /\ env["ADMIN_TOKEN"] = "long"
    BY <1>1, <1>3, SweptIs
  <2>2. QED
    BY <1>2, <1>3, <2>1 DEF Startup!Written
<1>4. ASSUME Startup!WorkerStarts(env)
      PROVE  /\ env["SCRAPING_MODE"] = "live" => \A v \in Startup!Delays : env[v] = "large"
             /\ Startup!Sends(env) => Startup!Given(env, "TELEGRAM_BOT_TOKEN") /\ Startup!Given(env, "TELEGRAM_CHAT_ID")
  <2>1. env["SCRAPING_MODE"] \in {"live", "Live"} => \A v \in Startup!Delays : env[v] = "large"
    BY <1>1, <1>4, SweptIs
  <2>2. env["MARKET_WORKFLOW_SEND_TELEGRAM"] # "y"
    <3>1. \A v \in Startup!Flags : env[v] \in {"true", "false", "unset", "", "  "}
      BY <1>1, <1>4, SweptIs
    <3>2. QED
      BY <3>1 DEF Startup!Flags
  <2>3. Startup!Sends(env) => env["MARKET_WORKFLOW_SEND_TELEGRAM"] = "true"
    BY <2>2 DEF Startup!Sends, Startup!On
  <2>4. env["MARKET_WORKFLOW_SEND_TELEGRAM"] = "true" =>
          Startup!Given(env, "TELEGRAM_BOT_TOKEN") /\ Startup!Given(env, "TELEGRAM_CHAT_ID")
    BY <1>1, <1>4, SweptIs
  <2>5. QED
    BY <2>1, <2>3, <2>4
<1>5. QED
  BY <1>3, <1>4

LEMMA AllPassedStart ==
  ASSUME NEW env, IsEnvironment(env)
  PROVE  Startup!PassedStarts(env)
<1> USE DEF Startup!Unset, Startup!Blank, Startup!Spaces
<1> SUFFICES ASSUME Startup!Problems(env) = {}, \A v \in Startup!Variables : env[v] \notin {"", "  ", "Live"},
                    \A v \in Startup!Delays : Startup!Parses(env, v)
             PROVE  /\ Startup!WorkerStarts(env)
                    /\ Startup!Given(env, "API_JWT_SECRET") /\ Startup!Parses(env, "RATE_LIMIT_ENABLED") =>
                         Startup!ApiStarts(env)
  BY DEF Startup!PassedStarts
<1>1. /\ {"DATABASE_URL", "REDIS_URL", "ADMIN_TOKEN", "SCRAPING_MODE", "MARKET_WORKFLOW_SOURCE",
          "MARKET_WORKFLOW_LIMIT"} \subseteq Startup!Variables
      /\ Startup!Times \subseteq Startup!Variables /\ Startup!Flags \subseteq Startup!Variables
  BY DEF Startup!Variables
<1>2. Startup!Parses(env, "DATABASE_URL") /\ Startup!Parses(env, "REDIS_URL")
  BY <1>1 DEF Startup!Parses, Startup!Times, Startup!Flags
<1>3. Startup!Parses(env, "SCRAPING_MODE")
  <2>1. env["SCRAPING_MODE"] \in {"mock", "live", "unset"}
    BY <1>1, SweptIs
  <2>2. QED
    BY <2>1 DEF Startup!Parses, Startup!Times, Startup!Flags
<1>4. Startup!Parses(env, "MARKET_WORKFLOW_SOURCE")
  <2>1. env["MARKET_WORKFLOW_SOURCE"] \in {"yuyutei", "unset"}
    BY <1>1, SweptIs
  <2>2. QED
    BY <2>1 DEF Startup!Parses, Startup!Times, Startup!Flags
<1>5. Startup!Parses(env, "MARKET_WORKFLOW_LIMIT")
  <2>1. env["MARKET_WORKFLOW_LIMIT"] \in {"small", "large", "unset"}
    BY <1>1, SweptIs
  <2>2. QED
    BY <2>1 DEF Startup!Parses, Startup!Times, Startup!Flags
<1>6. \A v \in Startup!Times : Startup!Parses(env, v)
  <2>1. \A v \in Startup!Times : env[v] \in {"zero", "small", "unset"}
    BY ZenonT(60), <1>1, SweptIs
  <2>2. QED
    BY <2>1 DEF Startup!Parses, Startup!Times, Startup!Flags
<1>7. \A v \in Startup!Flags : Startup!Parses(env, v)
  <2>1. \A v \in Startup!Flags : env[v] \in {"true", "false", "unset"}
    BY ZenonT(60), <1>1, SweptIs
  <2>2. QED
    BY <2>1 DEF Startup!Parses, Startup!Times, Startup!Flags
<1>8. \A v \in {"ENVIRONMENT", "APP_ENV", "ADMIN_TOKEN", "API_JWT_SECRET", "TELEGRAM_BOT_TOKEN", "TELEGRAM_CHAT_ID"} :
        Startup!Parses(env, v)
  BY DEF Startup!Parses, Startup!Times, Startup!Flags
<1>9. \A v \in Startup!Variables \ {"RATE_LIMIT_ENABLED"} : Startup!Parses(env, v)
  BY <1>2, <1>3, <1>4, <1>5, <1>6, <1>7, <1>8 DEF Startup!Variables
<1>10. Startup!WorkerStarts(env)
  BY <1>9, AllSweepsAgree DEF Startup!WorkerStarts, Startup!SweepsAgree
<1>11. Startup!Given(env, "ADMIN_TOKEN")
  BY SweptIs DEF Startup!Given
<1>12. QED
  BY <1>2, <1>10, <1>11 DEF Startup!ApiStarts

-----------------------------------------------------------------------------
(***************************************************************************)
(* Copies: the signals of a card                                           *)
(***************************************************************************)
LEMMA PrimaryAgrees == \A card : Copy!Primary(card) = Copy!WorkerPrimary(card)
<1> SUFFICES ASSUME NEW card PROVE Copy!Primary(card) = Copy!WorkerPrimary(card)
  OBVIOUS
<1> DEFINE pairs == <<card.sell, card.floor, card.buy>>
           given == {i \in 1..3 : pairs[i] # <<>>}
           Earliest(i) == i \in given /\ \A j \in given : i <= j
<1>1. Copy!Primary(card) = IF given = {} THEN <<>> ELSE pairs[CHOOSE i \in given : \A j \in given : i <= j]
  BY DEF Copy!Primary
<1>2. pairs[1] = card.sell /\ pairs[2] = card.floor /\ pairs[3] = card.buy
  OBVIOUS
<1>3. \A i : Earliest(i) => (CHOOSE k \in given : \A j \in given : k <= j) = i
  OBVIOUS
<1>4. \A i \in given : i = 1 \/ i = 2 \/ i = 3
  OBVIOUS
<1>5. CASE card.sell # <<>>
  <2>1. Earliest(1)
    BY <1>2, <1>4, <1>5
  <2>2. QED
    BY <1>1, <1>2, <1>3, <1>5, <2>1 DEF Copy!WorkerPrimary
<1>6. CASE card.sell = <<>> /\ card.floor # <<>>
  <2>1. Earliest(2)
    BY <1>2, <1>4, <1>6
  <2>2. QED
    BY <1>1, <1>2, <1>3, <1>6, <2>1 DEF Copy!WorkerPrimary
<1>7. CASE card.sell = <<>> /\ card.floor = <<>> /\ card.buy # <<>>
  <2>1. Earliest(3)
    BY <1>2, <1>4, <1>7
  <2>2. QED
    BY <1>1, <1>2, <1>3, <1>7, <2>1 DEF Copy!WorkerPrimary
<1>8. CASE card.sell = <<>> /\ card.floor = <<>> /\ card.buy = <<>>
  <2>1. given = {}
    BY <1>2, <1>4, <1>8
  <2>2. QED
    BY <1>1, <1>8, <2>1 DEF Copy!WorkerPrimary
<1>9. QED
  BY <1>5, <1>6, <1>7, <1>8

LEMMA SmallestOf ==
  ASSUME NEW S \in SUBSET Nat, S # {}
  PROVE  \E x \in S : \A y \in S : x <= y
<1> DEFINE R == OpToRel(<, Nat)
<1>1. IsWellFoundedOn(R, Nat)
  BY NatLessThanWellFounded
<1>2. \A x, y \in Nat : <<x, y>> \in R <=> x < y
  BY DEF OpToRel
<1> HIDE DEF R
<1>3. PICK x \in S : \A y \in S : ~ (<<y, x>> \in R)
  BY <1>1, WFMin
<1>4. ASSUME NEW y \in S PROVE x <= y
  <2>1. x \in Nat /\ y \in Nat /\ ~(y < x)
    BY <1>2, <1>3
  <2>2. QED
    BY <2>1
<1>5. QED
  BY <1>4

Nearest(f, n) == {i \in 1..n : \A j \in 1..n : f[i] <= f[j]}

\* The first of the least values of a function on numbers is the only one.
LEMMA FirstOfLeast ==
  ASSUME NEW n \in Nat \ {0}, NEW f \in [1..n -> Nat]
  PROVE  \E x \in 1..n :
           /\ \A i \in 1..n : f[x] <= f[i] /\ (f[i] = f[x] => x <= i)
           /\ (CHOOSE i \in Nearest(f, n) : \A j \in Nearest(f, n) : i <= j) = x
<1> DEFINE nearest == Nearest(f, n)
           values == {f[i] : i \in 1..n}
<1>1. PICK least \in values : \A y \in values : least <= y
  <2>1. values \subseteq Nat /\ f[1] \in values
    OBVIOUS
  <2>2. QED
    BY <2>1, SmallestOf
<1>2. PICK k \in 1..n : f[k] = least
  BY <1>1
<1>3. k \in nearest /\ nearest \subseteq Nat
  BY <1>1, <1>2 DEF Nearest
<1>4. PICK x \in nearest : \A y \in nearest : x <= y
  BY <1>3, SmallestOf
<1>5. x \in 1..n /\ \A i \in 1..n : f[x] <= f[i] /\ (f[i] = f[x] => x <= i)
  BY <1>4 DEF Nearest
<1>6. (CHOOSE i \in nearest : \A j \in nearest : i <= j) = x
  <2>1. \A i \in nearest : (\A j \in nearest : i <= j) => i = x
    BY <1>3, <1>4
  <2>2. QED
    BY <1>4, <2>1
<1>7. QED
  BY <1>5, <1>6

Observation == [price : Nat, age : Nat]

LEMMA BaselinesAgree ==
  ASSUME NEW series \in Seq(Observation), Len(series) >= 2, NEW days \in Nat
  PROVE  /\ Copy!WorkerBaseline(series, days) = series[Copy!Closest(series, days)].price
         /\ Copy!WorkerBaseline(series, days) \in Nat
<1> DEFINE n == Len(series)
           off == [i \in 1 .. n - 1 |-> LET d == series[i].age - series[n].age IN IF d < days THEN days - d ELSE d - days]
           nearest == {i \in DOMAIN off : \A j \in DOMAIN off : off[i] <= off[j]}
           Distance(i) == LET d == series[i].age - series[n].age - days IN IF d < 0 THEN -d ELSE d
<1>1. Len(series) \in Nat /\ DOMAIN series = 1 .. Len(series)
  BY LenProperties
<1>2. PICK m \in Nat \ {0} : m = n - 1
  <2>1. n - 1 \in Nat \ {0}
    BY <1>1
  <2>2. QED
    BY <2>1
<1>3. 1..m \subseteq 1..n /\ n \in 1..n
  BY <1>1, <1>2
<1>4. \A i \in 1..n : series[i].age \in Nat /\ series[i].price \in Nat
  <2> SUFFICES ASSUME NEW i \in 1..n PROVE series[i] \in Observation
    BY DEF Observation
  <2>1. QED
    BY ElementOfSeq
<1>5. off \in [1..m -> Nat] /\ \A i \in 1..m : off[i] = Distance(i) /\ off[i] \in Nat
  <2>1. off = [i \in 1..m |-> LET d == series[i].age - series[n].age IN IF d < days THEN days - d ELSE d - days]
    BY <1>2
  <2> SUFFICES ASSUME NEW i \in 1..m PROVE off[i] \in Nat /\ off[i] = Distance(i)
    BY <2>1
  <2>2. PICK a \in Nat, b \in Nat : a = series[i].age /\ b = series[n].age
    BY <1>3, <1>4
  <2>3. /\ off[i] = LET d == a - b IN IF d < days THEN days - d ELSE d - days
        /\ Distance(i) = LET d == a - b - days IN IF d < 0 THEN -d ELSE d
    BY <2>1, <2>2
  <2> HIDE DEF off, Distance
  <2>4. QED
    BY <2>3
<1>6. Copy!Closest(series, days) =
        CHOOSE i \in 1..m : \A j \in 1..m : Distance(i) < Distance(j) \/ (Distance(i) = Distance(j) /\ i <= j)
  BY <1>2 DEF Copy!Closest
<1>7. Copy!WorkerBaseline(series, days) = series[CHOOSE i \in nearest : \A j \in nearest : i <= j].price
  BY DEF Copy!WorkerBaseline
<1> HIDE DEF off, n
<1>8. PICK x \in 1..m :
        /\ \A i \in 1..m : off[x] <= off[i] /\ (off[i] = off[x] => x <= i)
        /\ (CHOOSE i \in Nearest(off, m) : \A j \in Nearest(off, m) : i <= j) = x
  BY <1>5, FirstOfLeast
<1>9. nearest = Nearest(off, m)
  BY <1>5 DEF Nearest
<1> HIDE DEF Distance
<1>10. Copy!Closest(series, days) = x
  <2> DEFINE First(i) == \A j \in 1..m : Distance(i) < Distance(j) \/ (Distance(i) = Distance(j) /\ i <= j)
  <2>1. First(x)
    BY <1>5, <1>8
  <2>2. \A i \in 1..m : First(i) => i = x
    BY <1>5, <1>8
  <2>3. Copy!Closest(series, days) = CHOOSE i \in 1..m : First(i)
    BY <1>6
  <2> HIDE DEF First
  <2>4. QED
    BY <2>1, <2>2, <2>3
<1>11. Copy!WorkerBaseline(series, days) = series[x].price
  BY <1>7, <1>8, <1>9
<1>12. series[x].price \in Nat
  BY <1>3, <1>4
<1>13. QED
  BY <1>10, <1>11, <1>12

LEMMA PctTyped ==
  ASSUME NEW n \in Int, NEW d \in Nat \ {0}
  PROVE  Copy!Pct(n, d) \in Int
<1>1. 20000 * n + d \in Int /\ 2 * d \in Nat \ {0}
  OBVIOUS
<1>2. QED
  BY <1>1 DEF Copy!Pct

LEMMA OneOrNone ==
  \A this : <<this>> \o <<>> = <<this>> /\ <<>> \o <<this>> = <<this>> /\ <<>> \o <<>> = <<>>
<1> SUFFICES ASSUME NEW this PROVE <<this>> \o <<>> = <<this>> /\ <<>> \o <<this>> = <<this>> /\ <<>> \o <<>> = <<>>
  OBVIOUS
<1>1. <<this>> \in Seq({this}) /\ <<>> \in Seq({this})
  OBVIOUS
<1>2. QED
  BY <1>1, ConcatEmptySeq

LEMMA LatestIs ==
  ASSUME NEW series \in Seq(Observation)
  PROVE  /\ series = <<>> => Copy!Latest(series) = Copy!None
         /\ series # <<>> => Copy!Latest(series) \in Nat
         /\ Copy!Latest(series) # Copy!None <=> series # <<>>
         /\ Copy!None \in Int /\ Copy!None \notin Nat
<1>1. Copy!None \in Int /\ Copy!None \notin Nat
  BY DEF Copy!None
<1>2. ASSUME series # <<>> PROVE Copy!Latest(series) \in Nat
  <2>1. Len(series) \in 1 .. Len(series) /\ Len(series) \in Nat
    BY <1>2, LenProperties, EmptySeq
  <2>2. series[Len(series)] \in Observation
    BY <2>1, ElementOfSeq
  <2>3. QED
    BY <1>2, <2>2 DEF Copy!Latest, Copy!Last, Observation
<1>3. QED
  BY <1>1, <1>2 DEF Copy!Latest

LEMMA SpreadsAgree ==
  ASSUME NEW card, IsCard(card)
  PROVE  Copy!WorkerSpread(card) = Copy!Spread(card)
<1> DEFINE sell == Copy!Latest(card.sell)  buy == Copy!Latest(card.buy)  pct == Copy!Pct(sell - buy, sell)
           narrow == Copy!Signal("yuyutei_buy_sell_spread_compressed", Copy!None, "review_sell_opportunity", pct)
           wide == Copy!Signal("yuyutei_buy_sell_spread_wide", Copy!None, "none", pct)
<1>1. sell \in Nat \union {Copy!None} /\ buy \in Nat \union {Copy!None}
  BY LatestIs DEF IsCard, Observation
<1>2. CASE sell = Copy!None \/ buy = Copy!None \/ sell = 0
  BY <1>2 DEF Copy!WorkerSpread, Copy!Spread
<1>3. CASE ~(sell = Copy!None \/ buy = Copy!None \/ sell = 0)
  <2>1. pct \in Int
    BY <1>1, <1>3, PctTyped
  <2>2. Copy!Spread(card) = Copy!When(pct <= 2000, narrow) \o Copy!When(pct >= 4500, wide)
    BY <1>3 DEF Copy!Spread
  <2>3. Copy!WorkerSpread(card) = CASE pct <= 2000 -> <<narrow>> [] pct >= 4500 -> <<wide>> [] OTHER -> <<>>
    BY <1>3 DEF Copy!WorkerSpread
  <2> HIDE DEF pct, narrow, wide
  <2>4. ~(pct <= 2000 /\ pct >= 4500) /\ (pct <= 2000) \in BOOLEAN /\ (pct >= 4500) \in BOOLEAN
    BY <2>1
  <2>5. Copy!Spread(card) = IF pct <= 2000 THEN <<narrow>> ELSE IF pct >= 4500 THEN <<wide>> ELSE <<>>
    BY <2>2, <2>4, OneOrNone DEF Copy!When
  <2>6. QED
    BY <2>3, <2>4, <2>5
<1>4. QED
  BY <1>2, <1>3

LEMMA GapsAgree ==
  ASSUME NEW card, IsCard(card)
  PROVE  Copy!WorkerGap(card) = Copy!Gap(card)
<1> DEFINE sell == Copy!Latest(card.sell)  floor == Copy!Latest(card.floor)  pct == Copy!Pct(floor - sell, sell)
           under == Copy!Signal("snkrdunk_floor_below_yuyutei_sell", Copy!None, "review_buy_opportunity", pct)
           over == Copy!Signal("snkrdunk_floor_above_yuyutei_sell", Copy!None, "review_sell_opportunity", pct)
<1>1. sell \in Nat \union {Copy!None} /\ floor \in Nat \union {Copy!None}
  BY LatestIs DEF IsCard, Observation
<1>2. CASE sell = Copy!None \/ floor = Copy!None \/ sell = 0
  BY <1>2 DEF Copy!WorkerGap, Copy!Gap
<1>3. CASE ~(sell = Copy!None \/ floor = Copy!None \/ sell = 0)
  <2>1. pct \in Int
    BY <1>1, <1>3, PctTyped
  <2>2. Copy!Gap(card) = Copy!When(pct <= -1000, under) \o Copy!When(pct >= 1000, over)
    BY <1>3 DEF Copy!Gap
  <2>3. Copy!WorkerGap(card) = CASE pct <= -1000 -> <<under>> [] pct >= 1000 -> <<over>> [] OTHER -> <<>>
    BY <1>3 DEF Copy!WorkerGap
  <2> HIDE DEF pct, under, over
  <2>4. ~(pct <= -1000 /\ pct >= 1000) /\ (pct <= -1000) \in BOOLEAN /\ (pct >= 1000) \in BOOLEAN
    BY <2>1
  <2>5. Copy!Gap(card) = IF pct <= -1000 THEN <<under>> ELSE IF pct >= 1000 THEN <<over>> ELSE <<>>
    BY <2>2, <2>4, OneOrNone DEF Copy!When
  <2>6. QED
    BY <2>3, <2>4, <2>5
<1>4. QED
  BY <1>2, <1>3

\* A window of the worker's movements, as WorkerMovement has it.
Window(series, days, threshold, up, down) ==
  LET base == Copy!WorkerBaseline(series, days)
      pct == Copy!Pct(Copy!Latest(series) - base, base) IN
  CASE base # 0 /\ pct >= threshold -> <<Copy!Signal(up, Copy!None, "monitor_momentum", pct)>>
    [] base # 0 /\ pct <= -threshold -> <<Copy!Signal(down, Copy!None, "monitor_drop", pct)>>
    [] OTHER -> <<>>

LEMMA WindowsAgree ==
  ASSUME NEW card, Copy!Primary(card) \in Seq(Observation), Len(Copy!Primary(card)) >= 2,
         NEW days \in Nat, NEW threshold \in Nat \ {0}, NEW up, NEW down
  PROVE  Window(Copy!Primary(card), days, threshold, up, down) = Copy!Movement(card, days, threshold, up, down)
<1> DEFINE series == Copy!Primary(card)
           base == Copy!WorkerBaseline(series, days)
           latest == Copy!Latest(series)
           pct == Copy!Pct(latest - base, base)
           rise == Copy!Signal(up, Copy!None, "monitor_momentum", pct)
           fall == Copy!Signal(down, Copy!None, "monitor_drop", pct)
<1>1. base = series[Copy!Closest(series, days)].price /\ base \in Nat
  BY BaselinesAgree
<1>2. latest \in Nat
  BY LatestIs, EmptySeq
<1>3. Window(series, days, threshold, up, down) =
        CASE base # 0 /\ pct >= threshold -> <<rise>> [] base # 0 /\ pct <= -threshold -> <<fall>> [] OTHER -> <<>>
  BY DEF Window
<1>4. Copy!Movement(card, days, threshold, up, down) =
        IF Len(series) < 2 \/ base = 0 THEN <<>>
        ELSE Copy!When(pct >= threshold, rise) \o Copy!When(pct <= -threshold, fall)
  BY <1>1 DEF Copy!Movement
<1>5. Len(series) \in Nat /\ ~(Len(series) < 2)
  BY LenProperties
<1>6. CASE base = 0
  BY <1>3, <1>4, <1>6
<1>7. CASE base # 0
  <2>1. pct \in Int
    <3> HIDE DEF base, latest
    <3>1. latest - base \in Int /\ base \in Nat \ {0}
      BY <1>1, <1>2, <1>7
    <3>2. QED
      BY <3>1, PctTyped
  <2> HIDE DEF pct, rise, fall, base, series
  <2>2. ~(pct >= threshold /\ pct <= -threshold)
    BY <2>1
  <2>3. Copy!Movement(card, days, threshold, up, down) =
          IF pct >= threshold THEN <<rise>> ELSE IF pct <= -threshold THEN <<fall>> ELSE <<>>
    BY <1>4, <1>5, <1>7, <2>2, OneOrNone DEF Copy!When
  <2>4. Window(series, days, threshold, up, down) =
          IF pct >= threshold THEN <<rise>> ELSE IF pct <= -threshold THEN <<fall>> ELSE <<>>
    BY ONLY <1>3, <1>7, <2>2
  <2>5. QED
    BY <2>3, <2>4 DEF series
<1>8. QED
  BY <1>6, <1>7

LEMMA MovementsAgree ==
  ASSUME NEW card, IsCard(card)
  PROVE  Copy!WorkerMovement(card) =
           Copy!Movement(card, 7, 1000, "price_up_7d", "price_down_7d")
             \o Copy!Movement(card, 30, 2000, "price_up_30d", "price_down_30d")
<1> DEFINE series == Copy!Primary(card)
<1>1. series = Copy!WorkerPrimary(card)
  BY PrimaryAgrees
<1>2. series \in Seq(Observation)
  BY <1>1 DEF IsCard, Observation, Copy!WorkerPrimary
<1>3. Len(series) \in Nat
  BY <1>2, LenProperties
<1>4. Copy!WorkerMovement(card) =
        IF Len(series) <= 1 THEN <<>>
        ELSE Window(series, 7, 1000, "price_up_7d", "price_down_7d")
               \o Window(series, 30, 2000, "price_up_30d", "price_down_30d")
  BY <1>1 DEF Copy!WorkerMovement, Window
<1>5. CASE Len(series) <= 1
  <2>1. Len(series) < 2
    BY <1>3, <1>5
  <2>2. /\ Copy!Movement(card, 7, 1000, "price_up_7d", "price_down_7d") = <<>>
        /\ Copy!Movement(card, 30, 2000, "price_up_30d", "price_down_30d") = <<>>
    BY <2>1 DEF Copy!Movement
  <2>3. QED
    BY <1>4, <1>5, <2>2, OneOrNone
<1>6. CASE ~(Len(series) <= 1)
  <2>1. Len(series) >= 2
    BY <1>3, <1>6
  <2>2. /\ Window(series, 7, 1000, "price_up_7d", "price_down_7d")
             = Copy!Movement(card, 7, 1000, "price_up_7d", "price_down_7d")
        /\ Window(series, 30, 2000, "price_up_30d", "price_down_30d")
             = Copy!Movement(card, 30, 2000, "price_up_30d", "price_down_30d")
    BY <1>2, <2>1, WindowsAgree
  <2>3. QED
    BY <1>4, <1>6, <2>2
<1>7. QED
  BY <1>5, <1>6

LEMMA OwnedAgree ==
  ASSUME NEW card, IsCard(card)
  PROVE  Copy!WorkerOwned(card) = Copy!OwnedSignals(card)
<1> DEFINE value == Copy!Value(card)
           above(i) ==
             LET item == card.items[i] IN
             IF item.target = Copy!None \/ value < item.target THEN <<>>
             ELSE <<Copy!Signal("owned_above_target_sell", i, "review_sell_opportunity", 0)>>
           below(i) ==
             LET item == card.items[i] IN
             IF item.cost = Copy!None \/ value >= item.cost THEN <<>>
             ELSE <<Copy!Signal("owned_below_cost_basis", i, "monitor_drop", Copy!Pct(value - item.cost, item.cost))>>
           signals(i) ==
             LET item == card.items[i] IN
             Copy!When(item.target # Copy!None /\ value >= item.target,
                       Copy!Signal("owned_above_target_sell", i, "review_sell_opportunity", 0))
               \o Copy!When(item.cost # Copy!None /\ value < item.cost,
                            Copy!Signal("owned_below_cost_basis", i, "monitor_drop",
                                        IF item.cost = 0 THEN Copy!None ELSE Copy!Pct(value - item.cost, item.cost)))
<1>1. value = (IF Copy!Latest(card.floor) # Copy!None THEN Copy!Latest(card.floor) ELSE Copy!Latest(card.sell))
      /\ value \in Nat \union {Copy!None}
  BY LatestIs DEF IsCard, Observation, Copy!Value
<1>2. Copy!WorkerOwned(card) =
        IF value = Copy!None THEN <<>> ELSE Copy!FlattenSeq([i \in DOMAIN card.items |-> above(i) \o below(i)])
  BY <1>1 DEF Copy!WorkerOwned
<1>3. Copy!OwnedSignals(card) =
        IF value = Copy!None THEN <<>> ELSE Copy!FlattenSeq([i \in DOMAIN card.items |-> signals(i)])
  BY DEF Copy!OwnedSignals
<1>4. ASSUME value \in Nat, NEW i \in DOMAIN card.items PROVE above(i) \o below(i) = signals(i)
  <2> DEFINE cost == card.items[i].cost  target == card.items[i].target
             reached == Copy!Signal("owned_above_target_sell", i, "review_sell_opportunity", 0)
             lost(printed) == Copy!Signal("owned_below_cost_basis", i, "monitor_drop", printed)
  <2>1. cost \in Int /\ target \in Int /\ (cost = Copy!None \/ cost \in Nat)
    BY DEF IsCard, Known, Copy!None
  <2>2. /\ above(i) = IF target = Copy!None \/ value < target THEN <<>> ELSE <<reached>>
        /\ below(i) = IF cost = Copy!None \/ value >= cost THEN <<>> ELSE <<lost(Copy!Pct(value - cost, cost))>>
    OBVIOUS
  <2>3. signals(i) = Copy!When(target # Copy!None /\ value >= target, reached)
                       \o Copy!When(cost # Copy!None /\ value < cost,
                                    lost(IF cost = 0 THEN Copy!None ELSE Copy!Pct(value - cost, cost)))
    OBVIOUS
  <2> HIDE DEF value, cost, target, above, below, signals, reached, lost
  <2>4. above(i) = Copy!When(target # Copy!None /\ value >= target, reached)
    BY <1>4, <2>1, <2>2 DEF Copy!When
  <2>5. below(i) = Copy!When(cost # Copy!None /\ value < cost,
                             lost(IF cost = 0 THEN Copy!None ELSE Copy!Pct(value - cost, cost)))
    <3>1. CASE cost # Copy!None /\ value < cost
      <4>1. cost # 0 /\ ~(value >= cost)
        BY <1>4, <2>1, <3>1
      <4>2. QED
        BY <2>2, <3>1, <4>1 DEF Copy!When
    <3>2. CASE ~(cost # Copy!None /\ value < cost)
      <4>1. cost = Copy!None \/ value >= cost
        BY <1>4, <2>1, <3>2
      <4>2. QED
        BY <2>2, <3>2, <4>1 DEF Copy!When
    <3>3. QED
      BY <3>1, <3>2
  <2>6. QED
    BY <2>3, <2>4, <2>5
<1> HIDE DEF value, above, below, signals
<1>5. CASE value = Copy!None
  BY <1>2, <1>3, <1>5
<1>6. CASE value # Copy!None
  <2>1. [i \in DOMAIN card.items |-> above(i) \o below(i)] = [i \in DOMAIN card.items |-> signals(i)]
    BY <1>1, <1>4, <1>6
  <2>2. QED
    BY <1>2, <1>3, <1>6, <2>1
<1>7. QED
  BY <1>5, <1>6

LEMMA DataQualityAgrees ==
  ASSUME NEW card, IsCard(card)
  PROVE  Copy!WorkerDataQuality(card) = Copy!DataQuality(card)
<1> DEFINE prices == [yuyutei |-> card.sell \o card.buy, snkrdunk |-> card.floor]
           limit == [yuyutei |-> 1, snkrdunk |-> 7]
           missing == {s \in card.mapped : prices[s] = <<>>}
           stale == {s \in card.mapped \ missing : {prices[s][i].age : i \in DOMAIN prices[s]} \intersect 0..limit[s] = {}}
<1>1. \A s \in card.mapped : prices[s] = Copy!Observed(card, s) /\ limit[s] = Copy!Fresh(s)
  <2>1. prices["snkrdunk"] = card.floor /\ prices["yuyutei"] = card.sell \o card.buy
    OBVIOUS
  <2>2. /\ Copy!Observed(card, "snkrdunk") = card.floor /\ Copy!Fresh("snkrdunk") = 7
        /\ Copy!Observed(card, "yuyutei") = card.sell \o card.buy /\ Copy!Fresh("yuyutei") = 1
    BY DEF Copy!Observed, Copy!Fresh
  <2>3. limit["snkrdunk"] = 7 /\ limit["yuyutei"] = 1
    OBVIOUS
  <2>4. \A s \in card.mapped : s = "yuyutei" \/ s = "snkrdunk"
    BY DEF IsCard
  <2> HIDE DEF prices, limit
  <2>5. QED
    BY <2>1, <2>2, <2>3, <2>4
<1>2. missing = {s \in card.mapped : Copy!Observed(card, s) = <<>>}
  BY <1>1
<1>3. ASSUME NEW s \in card.mapped
      PROVE  {prices[s][i].age : i \in DOMAIN prices[s]} \intersect 0..limit[s] = {} <=> Copy!Stale(card, s)
  <2> DEFINE series == Copy!Observed(card, s)
  <2>1. series \in Seq(Observation)
    <3>1. card.sell \in Seq(Observation) /\ card.buy \in Seq(Observation) /\ card.floor \in Seq(Observation)
      BY DEF IsCard, Observation
    <3>2. card.sell \o card.buy \in Seq(Observation)
      BY <3>1, ConcatProperties
    <3>3. QED
      BY <3>1, <3>2 DEF Copy!Observed
  <2>2. \A i \in DOMAIN series : series[i].age \in Nat
    <3> SUFFICES ASSUME NEW i \in DOMAIN series PROVE series[i] \in Observation
      BY DEF Observation
    <3>1. i \in 1 .. Len(series)
      BY <2>1, LenProperties
    <3>2. QED
      BY <2>1, <3>1, ElementOfSeq
  <2>3. Copy!Fresh(s) \in Nat
    BY DEF Copy!Fresh
  <2> HIDE DEF series
  <2>4. {series[i].age : i \in DOMAIN series} \intersect 0..Copy!Fresh(s) = {}
          <=> \A i \in DOMAIN series : series[i].age > Copy!Fresh(s)
    BY <2>2, <2>3
  <2>5. QED
    BY <1>1, <2>4 DEF Copy!Stale, series
<1>4. stale # {} <=> \E s \in card.mapped \ missing : Copy!Stale(card, s)
  BY <1>3
<1>5. Copy!WorkerDataQuality(card) =
        (IF missing = {} THEN <<>> ELSE <<Copy!Signal("missing_recent_price", Copy!None, "review_mapping", 0)>>)
          \o IF stale = {} THEN <<>> ELSE <<Copy!Signal("stale_mapping_price", Copy!None, "update_prices", 0)>>
  BY DEF Copy!WorkerDataQuality
<1>6. Copy!DataQuality(card) =
        Copy!When(missing # {}, Copy!Signal("missing_recent_price", Copy!None, "review_mapping", 0))
          \o Copy!When(\E s \in card.mapped \ missing : Copy!Stale(card, s),
                       Copy!Signal("stale_mapping_price", Copy!None, "update_prices", 0))
  BY <1>2 DEF Copy!DataQuality
<1> HIDE DEF missing, stale
<1>7. QED
  BY <1>4, <1>5, <1>6 DEF Copy!When

LEMMA AllSignalsAgree ==
  ASSUME NEW card, IsCard(card)
  PROVE  Copy!SignalsAgree(card)
<1>1. Copy!WorkerSignals(card) =
        Copy!Movement(card, 7, 1000, "price_up_7d", "price_down_7d")
          \o Copy!Movement(card, 30, 2000, "price_up_30d", "price_down_30d")
          \o Copy!Spread(card) \o Copy!Gap(card) \o Copy!OwnedSignals(card) \o Copy!DataQuality(card)
  <2>1. /\ Copy!WorkerSpread(card) = Copy!Spread(card) /\ Copy!WorkerGap(card) = Copy!Gap(card)
        /\ Copy!WorkerOwned(card) = Copy!OwnedSignals(card) /\ Copy!WorkerDataQuality(card) = Copy!DataQuality(card)
    BY SpreadsAgree, GapsAgree, OwnedAgree, DataQualityAgrees
  <2>2. Copy!WorkerMovement(card) =
          Copy!Movement(card, 7, 1000, "price_up_7d", "price_down_7d")
            \o Copy!Movement(card, 30, 2000, "price_up_30d", "price_down_30d")
    BY MovementsAgree
  <2>3. QED
    BY SMT, <2>1, <2>2 DEF Copy!WorkerSignals
<1>2. QED
  BY SMT, <1>1 DEF Copy!SignalsAgree, Copy!Signals

-----------------------------------------------------------------------------
(***************************************************************************)
(* Copies: what is fresh                                                   *)
(***************************************************************************)
\* The signal of data quality for a card with one mapping, of a source whose
\* latest price is so old (or not there).
LEMMA SignalledQuality ==
  ASSUME NEW source \in Review!Prices!Sources, NEW age \in Nat \union {Copy!None}, NEW card,
         LET series(s) == IF s = source /\ age # Review!Prices!None THEN <<[price |-> 1, age |-> age]>> ELSE <<>> IN
         card = [sell |-> series("yuyutei"), buy |-> <<>>, floor |-> series("snkrdunk"), mapped |-> {source}]
  PROVE  Review!Prices!DataQuality(card) =
           IF age = Review!Prices!None THEN <<Review!Prices!Signal("missing_recent_price", Review!Prices!None, "review_mapping", 0)>>
           ELSE IF age > Review!Prices!RecentPriceWindow(source)
                THEN <<Review!Prices!Signal("stale_mapping_price", Review!Prices!None, "update_prices", 0)>> ELSE <<>>
<1> DEFINE missing == {s \in card.mapped : Review!Prices!Observed(card, s) = <<>>}
           lost == Review!Prices!Signal("missing_recent_price", Review!Prices!None, "review_mapping", 0)
           old == Review!Prices!Signal("stale_mapping_price", Review!Prices!None, "update_prices", 0)
           price == <<[price |-> 1, age |-> age]>>
<1>1. price # <<>> /\ DOMAIN price = {1} /\ price[1].age = age
  OBVIOUS
<1>2. Review!Prices!Observed(card, source) = IF age = Review!Prices!None THEN <<>> ELSE price
  <2>1. CASE source = "snkrdunk"
    BY <2>1 DEF Review!Prices!Observed
  <2>2. CASE source = "yuyutei"
    <3>1. card.sell = (IF age = Review!Prices!None THEN <<>> ELSE price) /\ card.buy = <<>>
      BY <2>2
    <3>2. Review!Prices!Observed(card, source) = card.sell \o card.buy
      BY <2>2 DEF Review!Prices!Observed
    <3>3. QED
      BY <3>1, <3>2, OneOrNone
  <2>3. QED
    BY <2>1, <2>2 DEF Review!Prices!Sources
<1>3. card.mapped = {source} /\ Review!Prices!Fresh(source) = Review!Prices!RecentPriceWindow(source)
  BY DEF Review!Prices!Fresh, Review!Prices!RecentPriceWindow
<1>4. Review!Prices!DataQuality(card) =
        Review!Prices!When(missing # {}, lost)
          \o Review!Prices!When(\E s \in card.mapped \ missing : Review!Prices!Stale(card, s), old)
  BY DEF Review!Prices!DataQuality
<1> HIDE DEF price, lost, old
<1>5. CASE age = Review!Prices!None
  <2>1. missing = {source}
    BY <1>2, <1>3, <1>5
  <2>2. Review!Prices!DataQuality(card) = <<lost>> \o <<>>
    BY <1>3, <1>4, <2>1 DEF Review!Prices!When
  <2>3. QED
    BY <1>5, <2>2, OneOrNone DEF lost
<1>6. CASE age # Review!Prices!None
  <2>1. missing = {}
    BY <1>1, <1>2, <1>3, <1>6
  <2>2. Review!Prices!Stale(card, source) <=> age > Review!Prices!RecentPriceWindow(source)
    BY <1>1, <1>2, <1>3, <1>6 DEF Review!Prices!Stale
  <2>3. Review!Prices!DataQuality(card) =
          <<>> \o IF age > Review!Prices!RecentPriceWindow(source) THEN <<old>> ELSE <<>>
    BY <1>3, <1>4, <2>1, <2>2 DEF Review!Prices!When
  <2>4. QED
    BY <1>6, <2>3, OneOrNone DEF old
<1>7. QED
  BY <1>5, <1>6

LEMMA MappingTyped ==
  ASSUME NEW w, IsWorld(w), NEW i \in DOMAIN w.mappings
  PROVE  /\ w.mappings[i].source \in Review!Prices!Sources /\ w.mappings[i].card \in DOMAIN w.cards
         /\ Review!Prices!Age(w, i) \in Nat \union {Copy!None}
<1>1. w.mappings \in Seq([card : DOMAIN w.cards, source : Review!Prices!Sources, active : BOOLEAN])
  BY DEF IsWorld
<1>2. DOMAIN w.mappings = 1..Len(w.mappings)
  BY <1>1
<1>3. w.mappings[i] \in [card : DOMAIN w.cards, source : Review!Prices!Sources, active : BOOLEAN]
  BY <1>1, <1>2, ElementOfSeq
<1>4. QED
  BY <1>3 DEF IsWorld, Known, Review!Prices!Age

LEMMA AllFreshnessAgrees ==
  ASSUME NEW world, IsWorld(world)
  PROVE  Review!Prices!FreshnessAgrees(world)
<1> SUFFICES ASSUME NEW i \in Review!Prices!Facts(world, FALSE)
             PROVE  LET mapping == world.mappings[i]
                        age == Review!Prices!Age(world, i)
                        series(source) ==
                          IF source = mapping.source /\ age # Review!Prices!None THEN <<[price |-> 1, age |-> age]>> ELSE <<>>
                        card == [sell |-> series("yuyutei"), buy |-> <<>>, floor |-> series("snkrdunk"),
                                 mapped |-> {mapping.source}]
                        signals == Review!Prices!DataQuality(card)
                        signalled(type) == \E n \in DOMAIN signals : signals[n].type = type IN
                    /\ i \in Review!Prices!PriceGaps(world).stale <=> signalled("stale_mapping_price")
                    /\ i \in Review!Prices!PriceGaps(world).missing <=> signalled("missing_recent_price")
                    /\ Review!Prices!IsRecent(world, i) <=> mapping.source \in Review!Prices!RecentSources(world, mapping.card)
  BY DEF Review!Prices!FreshnessAgrees
<1> DEFINE source == world.mappings[i].source
           age == Review!Prices!Age(world, i)
           series(s) == IF s = source /\ age # Review!Prices!None THEN <<[price |-> 1, age |-> age]>> ELSE <<>>
           card == [sell |-> series("yuyutei"), buy |-> <<>>, floor |-> series("snkrdunk"), mapped |-> {source}]
           signals == Review!Prices!DataQuality(card)
           signalled(type) == \E n \in DOMAIN signals : signals[n].type = type
<1>1. source \in Review!Prices!Sources /\ age \in Nat \union {Copy!None} /\ i \in DOMAIN world.mappings
  BY MappingTyped DEF Review!Prices!Facts
<1>2. age = world.cards[world.mappings[i].card].age[source]
  BY DEF Review!Prices!Age
<1>3. Review!Prices!None \in Int /\ Review!Prices!None \notin Nat /\ Review!Prices!None = Copy!None
  BY DEF Review!Prices!None, Copy!None
<1>4. Review!Prices!RecentPriceWindow(source) \in Nat
  BY DEF Review!Prices!RecentPriceWindow
<1>5. signals = IF age = Review!Prices!None
                THEN <<Review!Prices!Signal("missing_recent_price", Review!Prices!None, "review_mapping", 0)>>
                ELSE IF age > Review!Prices!RecentPriceWindow(source)
                     THEN <<Review!Prices!Signal("stale_mapping_price", Review!Prices!None, "update_prices", 0)>> ELSE <<>>
  BY ZenonT(60), <1>1, SignalledQuality
<1>6. /\ i \in Review!Prices!PriceGaps(world).stale <=> Review!Prices!IsStale(world, i)
      /\ i \in Review!Prices!PriceGaps(world).missing <=> Review!Prices!IsMissing(world, i)
  BY DEF Review!Prices!PriceGaps
<1>7. Review!Prices!IsRecent(world, i) <=> source \in Review!Prices!RecentSources(world, world.mappings[i].card)
  BY <1>1, <1>2 DEF Review!Prices!IsRecent, Review!Prices!IsMissing, Review!Prices!RecentSources
<1>8. /\ Review!Prices!IsMissing(world, i) <=> age = Review!Prices!None
      /\ Review!Prices!IsStale(world, i) <=> age # Review!Prices!None /\ ~(age <= Review!Prices!RecentPriceWindow(source))
  BY DEF Review!Prices!IsStale, Review!Prices!IsRecent, Review!Prices!IsMissing
<1> HIDE DEF age, card, signals, source
<1>9. /\ signalled("stale_mapping_price") <=> age # Review!Prices!None /\ age > Review!Prices!RecentPriceWindow(source)
      /\ signalled("missing_recent_price") <=> age = Review!Prices!None
  <2>1. \A that : DOMAIN <<that>> = {1} /\ <<that>>[1] = that
    OBVIOUS
  <2>2. DOMAIN <<>> = {}
    OBVIOUS
  <2>3. CASE age = Review!Prices!None
    BY <1>5, <2>1, <2>3 DEF Review!Prices!Signal
  <2>4. CASE age # Review!Prices!None /\ age > Review!Prices!RecentPriceWindow(source)
    BY <1>5, <2>1, <2>4 DEF Review!Prices!Signal
  <2>5. CASE age # Review!Prices!None /\ ~(age > Review!Prices!RecentPriceWindow(source))
    BY <1>5, <2>2, <2>5
  <2>6. QED
    BY <2>3, <2>4, <2>5
<1>10. age # Review!Prices!None => (~(age <= Review!Prices!RecentPriceWindow(source)) <=> age > Review!Prices!RecentPriceWindow(source))
  BY <1>1, <1>3, <1>4
<1>11. QED
  BY <1>6, <1>7, <1>8, <1>9, <1>10 DEF age, card, signals, source

-----------------------------------------------------------------------------
(***************************************************************************)
(* The audit of the catalog                                                *)
(***************************************************************************)
LEMMA QualityScoreIs == \A p : Review!Quality!Score(p) = Listing!Score(p)
BY DEF Review!Quality!Score, Listing!Score, Review!Quality!Caps, Listing!Caps, Review!Quality!Sum, Listing!Sum,
       Review!Quality!CodePoints, Listing!CodePoints, Review!Quality!NamePoints, Listing!NamePoints,
       Review!Quality!When, Listing!When, Review!Quality!Signal, Listing!Signal

LEMMA IdentityScoreIs == \A p : Review!Identities!Score(p) = Duplicates!Score(p)
BY DEF Review!Identities!Score, Duplicates!Score, Review!Identities!Caps, Duplicates!Caps, Review!Identities!Sum, Duplicates!Sum,
       Review!Identities!CodePoints, Duplicates!CodePoints, Review!Identities!NamePoints, Duplicates!NamePoints,
       Review!Identities!When, Duplicates!When, Review!Identities!Either, Duplicates!Either

LEMMA PairsOfCards == \A c, d : Review!PairOf(c, d) \in Duplicates!Pairs
BY DEF Review!PairOf, Review!Compared, Duplicates!Pairs

LEMMA QualityTyped ==
  ASSUME NEW c, IsCatalog(c), NEW i \in DOMAIN c.mappings
  PROVE  /\ Review!QualityOf(c, i).pair \in Listing!Pairs
         /\ Review!Quality!Score(Review!QualityOf(c, i).pair) \in Nat
<1>1. Review!QualityOf(c, i).pair \in Listing!Pairs
  BY DEF IsCatalog, Review!QualityOf, Listing!Pairs, Listing!Compared
<1>2. QED
  BY <1>1, QualityScoreIs, ListingScoreBound

\* A recheck writes hundredths that read as the score again, but for 1.
LEMMA RechecksAgree ==
  ASSUME NEW c, IsCatalog(c)
  PROVE  Review!RecheckAgrees(c)
<1> SUFFICES ASSUME NEW i \in DOMAIN c.mappings, Review!Quality!Score(Review!QualityOf(c, i).pair) # 1
             PROVE  i \in Review!LowConfidences(Review!Rechecked(c)) <=> i \in Review!WithIssue(c, "low_confidence")
  BY DEF Review!RecheckAgrees
<1> DEFINE score == Review!Quality!Score(Review!QualityOf(c, i).pair)
<1>1. score \in Nat /\ score # 1
  BY QualityTyped
<1>2. Review!Rechecked(c).mappings[i].confidence = 100 * score /\ i \in DOMAIN Review!Rechecked(c).mappings
  BY DEF Review!Rechecked, IsCatalog
<1>3. 100 * score # Null
  BY <1>1, CalculationsAssumption
<1>4. i \in Review!LowConfidences(Review!Rechecked(c)) <=> Review!ConfidenceScore(100 * score) < 55
  BY <1>2, <1>3 DEF Review!LowConfidences, Review!LowConfidence
<1>5. i \in Review!WithIssue(c, "low_confidence") <=> score < 55
  BY DEF Review!WithIssue, Review!Quality!Issues, Review!Quality!LowScore
<1> HIDE DEF score
<1>6. Review!ConfidenceScore(100 * score) < 55 <=> score < 55
  BY <1>1 DEF Review!ConfidenceScore
<1>7. QED
  BY <1>4, <1>5, <1>6

\* What a merge writes.
IsMerge(c, s, t, new) ==
  /\ DOMAIN new.cards = DOMAIN c.cards /\ DOMAIN new.mappings = DOMAIN c.mappings
  /\ new.cards[s].active = FALSE /\ new.cards[s].into = t /\ new.cards[s].priced = c.cards[s].priced
  /\ \A i \in DOMAIN c.cards \ {s} : new.cards[i] = c.cards[i]
  /\ \A i \in DOMAIN c.mappings :
       /\ new.mappings[i].card = IF c.mappings[i].card = s THEN t ELSE c.mappings[i].card
       /\ new.mappings[i].active = c.mappings[i].active
       /\ new.mappings[i].source = c.mappings[i].source /\ new.mappings[i].url = c.mappings[i].url

LEMMA MergeWrites ==
  ASSUME NEW c, IsCatalog(c), NEW s \in DOMAIN c.cards, NEW t \in DOMAIN c.cards, Review!MayMerge(c.cards, s, t)
  PROVE  /\ IsMerge(c, s, t, Review!MergedInto(c, s, t))
         /\ s # t /\ t # 0 /\ c.cards[t].active
         /\ \A i \in DOMAIN c.mappings : c.mappings[i].card \in DOMAIN c.cards
BY DEF Review!MergedInto, IsCatalog, IsMerge, Review!MayMerge

LEMMA MergesKeepCards ==
  ASSUME NEW c, IsCatalog(c), NEW s \in DOMAIN c.cards, NEW t \in DOMAIN c.cards, Review!MayMerge(c.cards, s, t)
  PROVE  LET old == Review!MergeIssues(c.cards)  new == Review!MergeIssues(Review!MergedInto(c, s, t).cards) IN
         \A type \in DOMAIN new : new[type] \subseteq old[type] \ {s}
<1> DEFINE old == c.cards  new == Review!MergedInto(c, s, t).cards
<1>1. /\ s # t /\ t # 0 /\ DOMAIN new = DOMAIN old
      /\ new[s].active = FALSE /\ new[s].into = t
      /\ \A i \in DOMAIN old \ {s} : new[i] = old[i]
  <2>1. IsMerge(c, s, t, Review!MergedInto(c, s, t))
    BY MergeWrites
  <2>2. s # t /\ t # 0
    BY MergeWrites
  <2>3. QED
    BY ONLY <2>1, <2>2 DEF IsMerge
<1> HIDE DEF old, new
<1>2. \A p \in Review!DuplicatePairs(new, Review!Identities!MinMergeScore) :
        s \notin {p[1], p[2]} /\ p \in Review!DuplicatePairs(old, Review!Identities!MinMergeScore)
  BY <1>1 DEF Review!DuplicatePairs
<1>3. Review!MergeIssues(new).duplicate_identity \subseteq Review!MergeIssues(old).duplicate_identity \ {s}
  BY <1>2 DEF Review!MergeIssues
<1>4. Review!MergeIssues(new).inactive_without_target \subseteq Review!MergeIssues(old).inactive_without_target \ {s}
  BY <1>1 DEF Review!MergeIssues, Review!Such
<1>5. Review!MergeIssues(new).active_but_merged \subseteq Review!MergeIssues(old).active_but_merged \ {s}
  BY <1>1 DEF Review!MergeIssues, Review!Such
<1>6. DOMAIN Review!MergeIssues(new) = {"duplicate_identity", "inactive_without_target", "active_but_merged"}
  BY DEF Review!MergeIssues
<1>7. QED
  BY <1>3, <1>4, <1>5, <1>6 DEF old, new

LEMMA MergesKeepMappings ==
  ASSUME NEW c, IsCatalog(c), NEW s \in DOMAIN c.cards, NEW t \in DOMAIN c.cards, Review!MayMerge(c.cards, s, t)
  PROVE  LET new == Review!MergedInto(c, s, t) IN
         /\ Review!ActiveOfMerged(new) \subseteq Review!ActiveOfMerged(c)
         /\ Review!DuplicateUrls(new.mappings) = Review!DuplicateUrls(c.mappings)
         /\ \A active \in BOOLEAN :
              Review!Mapped(new, active) =
                IF s \in Review!Mapped(c, active) THEN (Review!Mapped(c, active) \ {s}) \union {t} ELSE Review!Mapped(c, active)
<1> DEFINE new == Review!MergedInto(c, s, t)
<1>1. /\ s # t /\ c.cards[t].active /\ DOMAIN new.cards = DOMAIN c.cards /\ DOMAIN new.mappings = DOMAIN c.mappings
      /\ \A i \in DOMAIN c.cards \ {s} : new.cards[i] = c.cards[i]
      /\ \A i \in DOMAIN c.mappings :
           /\ c.mappings[i].card \in DOMAIN c.cards
           /\ new.mappings[i].card = IF c.mappings[i].card = s THEN t ELSE c.mappings[i].card
           /\ new.mappings[i].active = c.mappings[i].active
           /\ new.mappings[i].source = c.mappings[i].source /\ new.mappings[i].url = c.mappings[i].url
  <2>1. IsMerge(c, s, t, Review!MergedInto(c, s, t))
    BY MergeWrites
  <2>2. s # t /\ c.cards[t].active /\ \A i \in DOMAIN c.mappings : c.mappings[i].card \in DOMAIN c.cards
    BY MergeWrites
  <2>3. QED
    BY ONLY <2>1, <2>2 DEF IsMerge
<1> HIDE DEF new
<1>2. Review!ActiveOfMerged(new) \subseteq Review!ActiveOfMerged(c)
  <2> SUFFICES ASSUME NEW i \in Review!ActiveOfMerged(new) PROVE i \in Review!ActiveOfMerged(c)
    OBVIOUS
  <2>1. /\ i \in DOMAIN c.mappings /\ new.mappings[i].active
        /\ ~new.cards[new.mappings[i].card].active /\ new.cards[new.mappings[i].card].into # 0
    BY <1>1 DEF Review!ActiveOfMerged, Review!CardOf
  <2>2. new.mappings[i].card # t /\ c.mappings[i].card # s
    BY <1>1, <2>1
  <2>3. new.mappings[i].card = c.mappings[i].card /\ new.cards[c.mappings[i].card] = c.cards[c.mappings[i].card]
    BY <1>1, <2>1, <2>2
  <2>4. QED
    BY <1>1, <2>1, <2>3 DEF Review!ActiveOfMerged, Review!CardOf
<1>3. Review!DuplicateUrls(new.mappings) = Review!DuplicateUrls(c.mappings)
  <2>1. \A i \in DOMAIN c.mappings : Review!SameUrl(new.mappings, i) = Review!SameUrl(c.mappings, i)
    BY <1>1 DEF Review!SameUrl
  <2>2. QED
    BY <1>1, <2>1 DEF Review!DuplicateUrls
<1>4. ASSUME NEW active \in BOOLEAN
      PROVE  Review!Mapped(new, active) =
               IF s \in Review!Mapped(c, active) THEN (Review!Mapped(c, active) \ {s}) \union {t} ELSE Review!Mapped(c, active)
  <2>1. Review!Mapped(c, active) = {c.mappings[i].card : i \in {j \in DOMAIN c.mappings : active => c.mappings[j].active}}
    BY DEF Review!Mapped
  <2>2. Review!Mapped(new, active) = {new.mappings[i].card : i \in {j \in DOMAIN c.mappings : active => c.mappings[j].active}}
    BY <1>1 DEF Review!Mapped
  <2>3. QED
    BY <1>1, <2>1, <2>2
<1>5. QED
  BY <1>2, <1>3, <1>4 DEF new

LEMMA MergesPass ==
  ASSUME NEW c, IsCatalog(c)
  PROVE  Review!MergesPassAudit(c)
<1> SUFFICES ASSUME NEW s \in DOMAIN c.cards, NEW t \in DOMAIN c.cards, Review!MayMerge(c.cards, s, t)
             PROVE  LET old == Review!Audit(c)  new == Review!Audit(Review!MergedInto(c, s, t)) IN
                    /\ \A type \in DOMAIN new.card.merge : new.card.merge[type] \subseteq old.card.merge[type] \ {s}
                    /\ new.mapping.active_of_merged \subseteq old.mapping.active_of_merged
                    /\ new.mapping.duplicate_url = old.mapping.duplicate_url
                    /\ new.gap.priced_unmapped \subseteq old.gap.priced_unmapped \union {s}
                    /\ s \in new.gap.priced_unmapped <=> c.cards[s].priced
                    /\ t \in new.gap.unmapped <=> {s, t} \subseteq old.gap.unmapped
  BY DEF Review!MergesPassAudit
<1> DEFINE after == Review!MergedInto(c, s, t)  old == Review!Audit(c)  new == Review!Audit(after)
<1>1. /\ old.card.merge = Review!MergeIssues(c.cards) /\ new.card.merge = Review!MergeIssues(after.cards)
      /\ old.mapping.active_of_merged = Review!ActiveOfMerged(c) /\ new.mapping.active_of_merged = Review!ActiveOfMerged(after)
      /\ old.mapping.duplicate_url = Review!DuplicateUrls(c.mappings)
      /\ new.mapping.duplicate_url = Review!DuplicateUrls(after.mappings)
      /\ old.gap = Review!GapIssues(c) /\ new.gap = Review!GapIssues(after)
  BY DEF Review!Audit, Review!CardIssues, Review!MappingIssues
<1>2. /\ s # t /\ DOMAIN after.cards = DOMAIN c.cards /\ after.cards[s].priced = c.cards[s].priced
      /\ \A i \in DOMAIN c.cards \ {s} : after.cards[i] = c.cards[i]
  <2>1. IsMerge(c, s, t, Review!MergedInto(c, s, t))
    BY MergeWrites
  <2>2. s # t
    BY MergeWrites
  <2>3. QED
    BY ONLY <2>1, <2>2 DEF IsMerge
<1>3. \A active \in BOOLEAN :
        Review!Mapped(after, active) =
          IF s \in Review!Mapped(c, active) THEN (Review!Mapped(c, active) \ {s}) \union {t} ELSE Review!Mapped(c, active)
  BY MergesKeepMappings
<1>4. /\ \A type \in DOMAIN new.card.merge : new.card.merge[type] \subseteq old.card.merge[type] \ {s}
      /\ new.mapping.active_of_merged \subseteq old.mapping.active_of_merged
      /\ new.mapping.duplicate_url = old.mapping.duplicate_url
  <2>1. \A type \in DOMAIN Review!MergeIssues(after.cards) :
          Review!MergeIssues(after.cards)[type] \subseteq Review!MergeIssues(c.cards)[type] \ {s}
    BY MergesKeepCards
  <2>2. Review!ActiveOfMerged(after) \subseteq Review!ActiveOfMerged(c)
    BY MergesKeepMappings
  <2>3. Review!DuplicateUrls(after.mappings) = Review!DuplicateUrls(c.mappings)
    BY MergesKeepMappings
  <2> HIDE DEF after, old, new
  <2>4. QED
    BY ONLY <1>1, <2>1, <2>2, <2>3
<1>5. /\ old.gap.unmapped = DOMAIN c.cards \ Review!Mapped(c, FALSE)
      /\ new.gap.unmapped = DOMAIN c.cards \ Review!Mapped(after, FALSE)
      /\ old.gap.priced_unmapped = {i \in DOMAIN c.cards : c.cards[i].priced} \ Review!Mapped(c, TRUE)
      /\ new.gap.priced_unmapped = {i \in DOMAIN c.cards : after.cards[i].priced} \ Review!Mapped(after, TRUE)
  <2> HIDE DEF after, old, new
  <2>1. QED
    BY <1>1, <1>2 DEF Review!GapIssues
<1> HIDE DEF after, old, new
<1>6. new.gap.priced_unmapped \subseteq old.gap.priced_unmapped \union {s} /\ (s \in new.gap.priced_unmapped <=> c.cards[s].priced)
  <2>1. Review!Mapped(after, TRUE) =
          IF s \in Review!Mapped(c, TRUE) THEN (Review!Mapped(c, TRUE) \ {s}) \union {t} ELSE Review!Mapped(c, TRUE)
    BY <1>3
  <2>2. QED
    BY ONLY <1>2, <1>5, <2>1, s \in DOMAIN c.cards, t \in DOMAIN c.cards
<1>7. t \in new.gap.unmapped <=> {s, t} \subseteq old.gap.unmapped
  <2>1. Review!Mapped(after, FALSE) =
          IF s \in Review!Mapped(c, FALSE) THEN (Review!Mapped(c, FALSE) \ {s}) \union {t} ELSE Review!Mapped(c, FALSE)
    BY <1>3
  <2>2. QED
    BY ONLY <1>2, <1>5, <2>1, s \in DOMAIN c.cards, t \in DOMAIN c.cards
<1>8. QED
  BY <1>4, <1>6, <1>7 DEF after, old, new

\* The labels speak of duplicates that may be merged, and of all of these.
LEMMA LabelsTellDuplicates ==
  ASSUME NEW cards
  PROVE  Review!Labels(cards) \intersect {"exact_duplicate", "likely_duplicate"} # {}
           <=> Review!MergeIssues(cards).duplicate_identity # {}
<1> DEFINE score(p) == Review!Identities!Score(Review!PairOf(cards[p[1]], cards[p[2]]))
           min == Review!DuplicatePairs(cards, 75)
           listed == Review!DuplicatePairs(cards, 55)
<1>1. \A p : score(p) \in Nat
  BY PairsOfCards, IdentityScoreIs, DuplicateScoreBound
<1>2. Review!Labels(cards) = {Review!DuplicateLabel(score(p)) : p \in listed}
  BY DEF Review!Labels, Review!Identities!MinListedScore
<1>3. \A p : p \in min <=> p \in listed /\ score(p) >= 75
  BY <1>1 DEF Review!DuplicatePairs, Review!Identities!Listed
<1>4. Review!MergeIssues(cards).duplicate_identity = UNION {{p[1], p[2]} : p \in min}
  BY DEF Review!MergeIssues, Review!Identities!MinMergeScore
<1>5. Review!MergeIssues(cards).duplicate_identity # {} <=> min # {}
  <2>1. ASSUME NEW p \in min PROVE p[1] \in UNION {{q[1], q[2]} : q \in min}
    OBVIOUS
  <2>2. ASSUME NEW x \in UNION {{q[1], q[2]} : q \in min} PROVE min # {}
    OBVIOUS
  <2> HIDE DEF min
  <2>3. QED
    BY <1>4, <2>1, <2>2
<1> HIDE DEF score, min, listed
<1>6. \A p \in listed : Review!DuplicateLabel(score(p)) \in {"exact_duplicate", "likely_duplicate"} <=> score(p) >= 75
  <2> SUFFICES ASSUME NEW n \in Nat
               PROVE  Review!DuplicateLabel(n) \in {"exact_duplicate", "likely_duplicate"} <=> n >= 75
    BY <1>1
  <2>1. QED
    BY DEF Review!DuplicateLabel
<1>7. Review!Labels(cards) \intersect {"exact_duplicate", "likely_duplicate"} # {} <=> min # {}
  <2>1. ASSUME NEW p \in min PROVE Review!DuplicateLabel(score(p)) \in Review!Labels(cards) \intersect {"exact_duplicate", "likely_duplicate"}
    BY ONLY <1>2, <1>3, <1>6, p \in min
  <2>2. ASSUME NEW x \in Review!Labels(cards), x \in {"exact_duplicate", "likely_duplicate"} PROVE min # {}
    <3>1. PICK p \in listed : x = Review!DuplicateLabel(score(p))
      BY <1>2
    <3>2. QED
      BY <1>3, <1>6, <2>2, <3>1
  <2>3. QED
    BY ONLY <2>1, <2>2
<1>8. QED
  BY ONLY <1>5, <1>7

\* A mapping's quality, of what the audit and the system check look at.
LEMMA QualityTells ==
  ASSUME NEW c, NEW i \in DOMAIN c.mappings
  PROVE  /\ i \in Review!DuplicateUrls(c.mappings) =>
              i \in Review!WithIssue(c, "duplicate_source_url") /\ i \in Review!AtRisk(c, "critical")
         /\ i \in Review!WithIssue(c, "card_code_mismatch") => i \in Review!CodeMismatches(c)
         /\ i \in Review!WithIssue(c, "duplicate_source_url") => i \in Review!DuplicateUrls(c.mappings)
<1> DEFINE m == Review!QualityOf(c, i)
<1>1. m.url = "duplicate" <=> i \in Review!DuplicateUrls(c.mappings)
  BY DEF Review!QualityOf
<1>2. m.id = "other code" => ~Review!SameCode(c.mappings[i], c.cards[c.mappings[i].card])
  BY DEF Review!QualityOf
<1>3. i \in Review!WithIssue(c, "duplicate_source_url") <=> m.url = "duplicate"
  BY DEF Review!WithIssue, Review!Quality!Issues
<1>4. i \in Review!WithIssue(c, "card_code_mismatch") <=> m.id = "other code"
  BY DEF Review!WithIssue, Review!Quality!Issues
<1>5. i \in Review!WithIssue(c, "duplicate_source_url") => i \in Review!AtRisk(c, "critical")
  <2>1. i \in Review!WithIssue(c, "duplicate_source_url") => "duplicate_source_url" \in Review!Quality!Issues(m)
    BY DEF Review!WithIssue
  <2>2. "duplicate_source_url" \in Review!Quality!Issues(m) => Review!Quality!RiskLevel(m) = "critical"
    BY DEF Review!Quality!RiskLevel
  <2>3. QED
    BY <2>1, <2>2 DEF Review!AtRisk
<1>6. i \in Review!WithIssue(c, "card_code_mismatch") => i \in Review!CodeMismatches(c)
  <2> HIDE DEF m
  <2>1. QED
    BY <1>2, <1>4 DEF Review!SameCode, Review!CodeMismatches, Review!CardOf
<1>7. QED
  BY <1>1, <1>3, <1>5, <1>6

\* What the system check warns of is what the audit raises, and the operations
\* page is critical for nothing else.
LEMMA AuditsAreShown ==
  ASSUME NEW c, NEW others
  PROVE  Review!AuditIsShown(c, others)
<1> DEFINE issues == Review!Audit(c)
           warned == Review!CatalogWarnings(c)
           critical == Review!AtRisk(c, "critical")
           labels == Review!Labels(c.cards)
           raised == Review!Raised(issues.mapping) \union Review!Raised(issues.card.merge)
           shown == labels \intersect {"exact_duplicate", "likely_duplicate"} # {}
<1>1. /\ "low_confidence" \in raised <=> Review!LowConfidences(c) # {}
      /\ "critical_quality" \in raised <=> critical # {}
      /\ "duplicate_url" \in raised <=> Review!DuplicateUrls(c.mappings) # {}
      /\ "duplicate_identity" \in raised <=> Review!MergeIssues(c.cards).duplicate_identity # {}
      /\ "inactive_without_target" \in raised <=> Review!MergeIssues(c.cards).inactive_without_target # {}
  <2>1. /\ issues.mapping = Review!MappingIssues(c) /\ issues.card.merge = Review!MergeIssues(c.cards)
        /\ issues.mapping.code_mismatch = Review!CodeMismatches(c)
    BY DEF Review!Audit, Review!CardIssues, Review!MappingIssues
  <2>2. \A type : type \in Review!Raised(Review!MappingIssues(c)) <=>
          \/ type = "duplicate_url" /\ Review!DuplicateUrls(c.mappings) # {}
          \/ type = "code_mismatch" /\ Review!CodeMismatches(c) # {}
          \/ type = "low_confidence" /\ Review!LowConfidences(c) # {}
          \/ type = "critical_quality" /\ critical # {}
          \/ type = "active_of_merged" /\ Review!ActiveOfMerged(c) # {}
    BY DEF Review!Raised, Review!MappingIssues
  <2>3. DOMAIN Review!MergeIssues(c.cards) = {"duplicate_identity", "inactive_without_target", "active_but_merged"}
    BY DEF Review!MergeIssues
  <2>4. \A type : type \in Review!Raised(Review!MergeIssues(c.cards)) <=>
          type \in {"duplicate_identity", "inactive_without_target", "active_but_merged"} /\ Review!MergeIssues(c.cards)[type] # {}
    BY <2>3 DEF Review!Raised
  <2>5. QED
    BY ONLY <2>1, <2>2, <2>4
<1>2. /\ "low_confidence" \in warned <=> Review!LowConfidences(c) # {}
      /\ "mapping_quality" \in warned <=> \/ critical # {}
                                         \/ Review!Cardinality(Review!WithIssue(c, "low_confidence")) > 5
                                         \/ Review!WithIssue(c, "duplicate_source_url") # {}
      /\ "duplicate_cards" \in warned <=> shown
      /\ "inactive_without_target" \in warned <=> \E i \in DOMAIN c.cards : ~c.cards[i].active /\ c.cards[i].into = 0
  BY DEF Review!CatalogWarnings
<1>3. Review!MergeIssues(c.cards).inactive_without_target # {} <=> \E i \in DOMAIN c.cards : ~c.cards[i].active /\ c.cards[i].into = 0
  BY DEF Review!MergeIssues, Review!Such
<1>4. shown <=> Review!MergeIssues(c.cards).duplicate_identity # {}
  BY LabelsTellDuplicates
<1>5. Review!DuplicateUrls(c.mappings) # {} => Review!WithIssue(c, "duplicate_source_url") # {} /\ critical # {}
  BY QualityTells DEF Review!DuplicateUrls
<1>6. Review!WithIssue(c, "card_code_mismatch") \subseteq issues.mapping.code_mismatch
  <2>1. issues.mapping.code_mismatch = Review!CodeMismatches(c)
    BY DEF Review!Audit, Review!MappingIssues
  <2>2. Review!WithIssue(c, "card_code_mismatch") \subseteq Review!CodeMismatches(c)
    BY QualityTells DEF Review!WithIssue
  <2>3. QED
    BY <2>1, <2>2
<1> HIDE DEF issues, warned, critical, labels, raised
<1>7. ASSUME NEW o \in others, NEW status, status = Review!OperationsStatus(critical, labels, o.world, o.reports)
      PROVE  /\ status = "critical" => {"critical_quality", "duplicate_identity"} \intersect raised # {}
             /\ "critical_quality" \in raised => status = "critical"
             /\ status # "ok" => Review!SystemWarns(warned, o.world, o.backlog, o.reports)
  <2>1. status = "critical" <=> critical # {} \/ "exact_duplicate" \in labels
    BY <1>7 DEF Review!OperationsStatus
  <2>2. "exact_duplicate" \in labels \/ "likely_duplicate" \in labels => shown
    OBVIOUS
  <2>3. status # "ok" => \/ critical # {} \/ shown
                         \/ Review!LowShares(o.world) # {} \/ Review!Degraded(o.world) \/ Review!ReportsWarn(o.reports)
    BY <1>7, <2>2 DEF Review!OperationsStatus, Review!ReportsWarn
  <2>4. Review!LowShares(o.world) # {} \/ Review!Degraded(o.world) => Review!WorldWarnings(o.world) # {}
    <3>1. Review!LowShares(o.world) # {} => "coverage" \in Review!WorldWarnings(o.world)
      BY ZenonT(30) DEF Review!WorldWarnings
    <3>2. Review!Degraded(o.world) => "price_health" \in Review!WorldWarnings(o.world)
      BY DEF Review!WorldWarnings
    <3>3. QED
      BY <3>1, <3>2
  <2>5. critical # {} \/ shown => warned # {}
    BY <1>2
  <2>6. status # "ok" => Review!SystemWarns(warned, o.world, o.backlog, o.reports)
    BY <2>3, <2>4, <2>5 DEF Review!SystemWarns
  <2>7. QED
    BY <1>1, <1>4, <2>1, <2>2, <2>6
<1>8. QED
  <2>1. /\ \A type \in {"low_confidence", "inactive_without_target"} : type \in warned <=> type \in raised
        /\ "duplicate_cards" \in warned <=> "duplicate_identity" \in raised
        /\ {"critical_quality", "duplicate_url"} \intersect raised # {} => "mapping_quality" \in warned
        /\ "duplicate_url" \in raised => "critical_quality" \in raised
    BY ONLY <1>1, <1>2, <1>3, <1>4, <1>5
  <2>2. QED
    BY <1>6, <1>7, <2>1 DEF Review!AuditIsShown, issues, warned, critical, labels, raised

-----------------------------------------------------------------------------
(***************************************************************************)
(* The health of the sources and the gaps of the mappings                  *)
(***************************************************************************)
LEMMA PricesCardinality == \A S : Review!Prices!Cardinality(S) = Cardinality(S)
BY Zenon DEF Review!Prices!Cardinality, Cardinality

\* A quotient reaches a threshold with what is divided.
LEMMA QuotientReaches ==
  ASSUME NEW x \in Nat, NEW y \in Nat \ {0}, NEW t \in Nat
  PROVE  x \div y \in Nat /\ (x \div y >= t <=> x >= t * y)
<1>1. PICK q \in Nat : q = x \div y /\ q * y <= x /\ x < q * y + y
  OBVIOUS
<1>2. q >= t => q * y >= t * y
  BY ONLY q \in Nat, y \in Nat \ {0}, t \in Nat
<1>3. q + 1 <= t => (q + 1) * y <= t * y
  BY ONLY q \in Nat, y \in Nat \ {0}, t \in Nat
<1>4. (q + 1) * y = q * y + y
  BY ONLY q \in Nat, y \in Nat \ {0}
<1>5. PICK z \in Nat, v \in Nat : z = q * y /\ v = t * y
  OBVIOUS
<1>6. z <= x /\ x < z + y /\ (q >= t => z >= v) /\ (q + 1 <= t => z + y <= v)
  BY <1>1, <1>2, <1>3, <1>4, <1>5
<1>7. q >= t <=> x >= v
  BY ONLY <1>6, q \in Nat, x \in Nat, t \in Nat, z \in Nat, v \in Nat, y \in Nat \ {0}
<1>8. QED
  BY <1>1, <1>5, <1>7

\* A share of a threshold or more, without the rounding.
LEMMA ShareReaches ==
  ASSUME NEW n \in Nat, NEW d \in Nat, NEW t \in Nat \ {0}
  PROVE  /\ Review!Prices!Share(n, d) \in Nat
         /\ Review!Prices!Share(n, d) >= t <=> d # 0 /\ 20000 * n + d >= t * (2 * d)
<1>1. CASE d = 0
  BY <1>1 DEF Review!Prices!Share
<1>2. CASE d # 0
  <2>1. Review!Prices!Share(n, d) = (20000 * n + d) \div (2 * d)
    BY <1>2 DEF Review!Prices!Share, Review!Prices!Pct
  <2>2. 20000 * n + d \in Nat /\ 2 * d \in Nat \ {0}
    BY <1>2
  <2>3. QED
    BY <1>2, <2>1, <2>2, QuotientReaches
<1>3. QED
  BY <1>1, <1>2

LEMMA ShareTyped ==
  ASSUME NEW n \in Nat, NEW d \in Nat
  PROVE  Review!Prices!Share(n, d) \in Nat
<1>1. CASE d = 0
  BY <1>1 DEF Review!Prices!Share
<1>2. CASE d # 0
  <2>1. Review!Prices!Share(n, d) = (20000 * n + d) \div (2 * d)
    BY <1>2 DEF Review!Prices!Share, Review!Prices!Pct
  <2>2. PICK x \in Nat, y \in Nat \ {0} : x = 20000 * n + d /\ y = 2 * d
    BY <1>2
  <2>3. x \div y \in Nat
    BY QuotientReaches
  <2>4. QED
    BY <2>1, <2>2, <2>3
<1>3. QED
  BY <1>1, <1>2

LEMMA ShareIs ==
  ASSUME NEW n \in Nat, NEW d \in Nat
  PROVE  Review!Prices!Share(n, d) > 2000 <=> d # 0 /\ 20000 * n >= 4001 * d
<1>1. /\ Review!Prices!Share(n, d) \in Nat
      /\ Review!Prices!Share(n, d) >= 2001 <=> d # 0 /\ 20000 * n + d >= 2001 * (2 * d)
  BY ShareReaches
<1>2. QED
  BY <1>1

\* The active mappings of a source, those of them with a price of some age, and
\* what is said of the source.
MappingsOf(w, s) == {i \in Review!Prices!Facts(w, FALSE) : w.mappings[i].source = s}
RecentOf(w, s) == {i \in MappingsOf(w, s) : Review!Prices!IsRecent(w, i)}
StaleOf(w, s) == {i \in MappingsOf(w, s) : Review!Prices!IsStale(w, i)}
MissingOf(w, s) == {i \in MappingsOf(w, s) : Review!Prices!IsMissing(w, i)}
Health(w, s) == Review!Prices!SourceHealth(w, s, FALSE)

LEMMA HealthIs ==
  ASSUME NEW w, NEW s
  PROVE  /\ Health(w, s).active = Cardinality(MappingsOf(w, s)) /\ Health(w, s).recent = Cardinality(RecentOf(w, s))
         /\ Health(w, s).stale = Cardinality(StaleOf(w, s)) /\ Health(w, s).missing = Cardinality(MissingOf(w, s))
         /\ Health(w, s).refresh = Review!Prices!LatestStatus(w, Review!Prices!RunsOf(w, s))
         /\ Health(w, s).status =
              Review!Prices!HealthStatus(w, s, Health(w, s).active, Health(w, s).stale, Health(w, s).missing)
BY PricesCardinality DEF Health, Review!Prices!SourceHealth, MappingsOf, RecentOf, StaleOf, MissingOf

\* Every mapping is recent, stale or without a price.
LEMMA MappingsTallied ==
  ASSUME NEW w, IsWorld(w), NEW s
  PROVE  /\ IsFiniteSet(MappingsOf(w, s)) /\ IsFiniteSet(RecentOf(w, s)) /\ IsFiniteSet(StaleOf(w, s)) /\ IsFiniteSet(MissingOf(w, s))
         /\ {Health(w, s).active, Health(w, s).recent, Health(w, s).stale, Health(w, s).missing} \subseteq Nat
         /\ Health(w, s).active = Health(w, s).recent + Health(w, s).stale + Health(w, s).missing
<1>1. IsFiniteSet(DOMAIN w.mappings)
  <2>1. w.mappings \in Seq([card : DOMAIN w.cards, source : Review!Prices!Sources, active : BOOLEAN])
    BY DEF IsWorld
  <2>2. Len(w.mappings) \in Nat /\ DOMAIN w.mappings = 1..Len(w.mappings)
    BY <2>1
  <2>3. QED
    BY <2>2, FS_Interval
<1>2. MappingsOf(w, s) \subseteq DOMAIN w.mappings
  BY DEF MappingsOf, Review!Prices!Facts
<1>3. /\ RecentOf(w, s) \subseteq MappingsOf(w, s) /\ StaleOf(w, s) \subseteq MappingsOf(w, s)
      /\ MissingOf(w, s) \subseteq MappingsOf(w, s)
  BY DEF RecentOf, StaleOf, MissingOf
<1>4. IsFiniteSet(MappingsOf(w, s)) /\ IsFiniteSet(RecentOf(w, s)) /\ IsFiniteSet(StaleOf(w, s)) /\ IsFiniteSet(MissingOf(w, s))
  BY <1>1, <1>2, <1>3, FS_Subset
<1>5. /\ MappingsOf(w, s) = (RecentOf(w, s) \union StaleOf(w, s)) \union MissingOf(w, s)
      /\ RecentOf(w, s) \intersect StaleOf(w, s) = {} /\ (RecentOf(w, s) \union StaleOf(w, s)) \intersect MissingOf(w, s) = {}
  BY DEF RecentOf, StaleOf, MissingOf, Review!Prices!IsRecent, Review!Prices!IsStale
<1>6. /\ IsFiniteSet(RecentOf(w, s) \union StaleOf(w, s))
      /\ Cardinality(RecentOf(w, s) \union StaleOf(w, s)) = Cardinality(RecentOf(w, s)) + Cardinality(StaleOf(w, s)) - Cardinality({})
  BY <1>4, <1>5, FS_Union
<1>7. Cardinality(MappingsOf(w, s))
        = Cardinality(RecentOf(w, s) \union StaleOf(w, s)) + Cardinality(MissingOf(w, s)) - Cardinality({})
  BY <1>4, <1>5, <1>6, FS_Union
<1>8. /\ Cardinality({}) = 0 /\ Cardinality(MappingsOf(w, s)) \in Nat /\ Cardinality(RecentOf(w, s)) \in Nat
      /\ Cardinality(StaleOf(w, s)) \in Nat /\ Cardinality(MissingOf(w, s)) \in Nat
  BY <1>4, FS_EmptySet, FS_CardinalityType
<1>9. QED
  BY <1>4, <1>6, <1>7, <1>8, HealthIs

\* A source whose latest refresh failed is in error or blocked.
LEMMA FailureShows ==
  ASSUME NEW w, NEW s, Health(w, s).refresh = "failed"
  PROVE  Health(w, s).status \in {"blocked", "error"}
<1> DEFINE runs == Review!Prices!RunsOf(w, s)
<1>1. Review!Prices!LatestStatus(w, runs) = "failed"
  BY HealthIs
<1>2. runs # {}
  BY <1>1 DEF Review!Prices!LatestStatus
<1> HIDE DEF runs
<1>3. \A active, stale, missing : Review!Prices!HealthStatus(w, s, active, stale, missing) \in {"blocked", "error"}
  BY <1>1, <1>2 DEF Review!Prices!HealthStatus, runs
<1>4. QED
  BY <1>3, HealthIs

\* What the summary counts of both sources.
LEMMA SummaryIs ==
  ASSUME NEW w
  PROVE  LET sums == Review!Prices!PriceSummary(w) IN
         /\ sums.active = Health(w, "yuyutei").active + Health(w, "snkrdunk").active
         /\ sums.recent = Health(w, "yuyutei").recent + Health(w, "snkrdunk").recent
         /\ sums.stale = Health(w, "yuyutei").stale + Health(w, "snkrdunk").stale
         /\ sums.missing = Health(w, "yuyutei").missing + Health(w, "snkrdunk").missing
         /\ sums.without_recent = sums.active - sums.recent
         /\ {sums.blocked, sums.error} \subseteq Nat
         /\ sums.blocked > 0 <=> \E s \in Review!Prices!Sources : Health(w, s).status = "blocked"
         /\ sums.error > 0 <=> \E s \in Review!Prices!Sources : Health(w, s).status = "error"
<1> DEFINE health == [s \in Review!Prices!Sources |-> Health(w, s)]
           with(status) == {s \in Review!Prices!Sources : Health(w, s).status = status}
           sums == Review!Prices!PriceSummary(w)
<1>1. sums = Review!Prices!PriceSums(health, Review!Prices!SuccessRate(w, DOMAIN w.runs))
  BY DEF Review!Prices!PriceSummary, Health
<1>2. health["yuyutei"] = Health(w, "yuyutei") /\ health["snkrdunk"] = Health(w, "snkrdunk")
  BY DEF Review!Prices!Sources
<1>3. sums.blocked = Cardinality(with("blocked")) /\ sums.error = Cardinality(with("error"))
  <2>1. \A status : {s \in Review!Prices!Sources : health[s].status = status} = with(status)
    OBVIOUS
  <2>2. /\ sums.blocked = Review!Prices!Cardinality({s \in Review!Prices!Sources : health[s].status = "blocked"})
        /\ sums.error = Review!Prices!Cardinality({s \in Review!Prices!Sources : health[s].status = "error"})
    BY <1>1 DEF Review!Prices!PriceSums
  <2> HIDE DEF health, with, sums
  <2>3. QED
    BY <2>1, <2>2, PricesCardinality
<1>4. IsFiniteSet(Review!Prices!Sources)
  <2>1. Review!Prices!Sources = {"yuyutei"} \union {"snkrdunk"}
    BY DEF Review!Prices!Sources
  <2>2. QED
    BY <2>1, FS_Singleton, FS_Union
<1>5. \A status : IsFiniteSet(with(status))
  BY <1>4, FS_Subset
<1>6. \A status : Cardinality(with(status)) \in Nat /\ (Cardinality(with(status)) = 0 <=> with(status) = {})
  BY <1>5, FS_CardinalityType, FS_EmptySet
<1>7. \A status : with(status) # {} <=> \E s \in Review!Prices!Sources : Health(w, s).status = status
  OBVIOUS
<1> HIDE DEF health, with
<1>8. /\ sums.active = Health(w, "yuyutei").active + Health(w, "snkrdunk").active
      /\ sums.recent = Health(w, "yuyutei").recent + Health(w, "snkrdunk").recent
      /\ sums.stale = Health(w, "yuyutei").stale + Health(w, "snkrdunk").stale
      /\ sums.missing = Health(w, "yuyutei").missing + Health(w, "snkrdunk").missing
      /\ sums.without_recent = sums.active - sums.recent
  BY <1>1, <1>2 DEF Review!Prices!PriceSums
<1> HIDE DEF sums
<1>9. \A status : Cardinality(with(status)) > 0 <=> \E s \in Review!Prices!Sources : Health(w, s).status = status
  <2> SUFFICES ASSUME NEW status
               PROVE  Cardinality(with(status)) > 0 <=> \E s \in Review!Prices!Sources : Health(w, s).status = status
    OBVIOUS
  <2>1. Cardinality(with(status)) \in Nat /\ (Cardinality(with(status)) = 0 <=> with(status) = {})
    BY <1>6
  <2>2. with(status) # {} <=> \E s \in Review!Prices!Sources : Health(w, s).status = status
    BY <1>7
  <2>3. QED
    BY ONLY <2>1, <2>2
<1>10. QED
  BY <1>3, <1>6, <1>8, <1>9 DEF sums

\* No source that the audit finds failed, or of both without prices, is passed
\* by the system check.
LEMMA AllSourcesShown ==
  ASSUME NEW w, IsWorld(w)
  PROVE  Review!SourcesAreShown(w)
<1> DEFINE sums == Review!Prices!PriceSummary(w)
           issues == Review!SourceIssues(w)
           warned == Review!WorldWarnings(w)
           status == Review!OperationsStatus({}, {}, w, <<>>)
<1>1. Review!Degraded(w) <=> sums.blocked > 0 \/ sums.error > 0 \/ sums.rate < 8000
  BY DEF Review!Degraded
<1>2. /\ "price_health" \in warned <=> \/ Review!Degraded(w)
                                      \/ Review!Prices!Share(sums.without_recent, sums.active) > 2000
                                      \/ Review!Prices!Share(sums.stale, sums.active) > 2000
                                      \/ \A s \in Review!Prices!Sources : Health(w, s).refresh \notin {"completed", "completed_with_warnings"}
      /\ Review!LowShares(w) # {} => "coverage" \in warned
  <2> DEFINE low == \/ Review!LowShares(w) # {}
                    \/ Review!Prices!CatalogSummary(w, FALSE).counts.duplicate > 0
                    \/ Review!Prices!CatalogSummary(w, FALSE).counts.risk > 0
             bad == \/ Review!Degraded(w)
                    \/ Review!Prices!Share(sums.without_recent, sums.active) > 2000
                    \/ Review!Prices!Share(sums.stale, sums.active) > 2000
                    \/ \A s \in Review!Prices!Sources :
                         Review!Prices!SourceHealth(w, s, FALSE).refresh \notin {"completed", "completed_with_warnings"}
  <2>1. warned = {x \in {"coverage", "price_health"} : CASE x = "coverage" -> low [] x = "price_health" -> bad}
    BY DEF Review!WorldWarnings
  <2>2. low \in BOOLEAN /\ bad \in BOOLEAN
    OBVIOUS
  <2>3. (bad <=> \/ Review!Degraded(w)
                 \/ Review!Prices!Share(sums.without_recent, sums.active) > 2000
                 \/ Review!Prices!Share(sums.stale, sums.active) > 2000
                 \/ \A s \in Review!Prices!Sources : Health(w, s).refresh \notin {"completed", "completed_with_warnings"})
        /\ (Review!LowShares(w) # {} => low)
    BY ZenonT(30) DEF Health
  <2> HIDE DEF low, bad, warned
  <2>4. ("price_health" \in warned <=> bad) /\ ("coverage" \in warned <=> low)
    BY ONLY <2>1, <2>2
  <2>5. QED
    BY <2>3, <2>4
<1>3. status # "ok" <=> Review!LowShares(w) # {} \/ Review!Degraded(w)
  BY DEF Review!OperationsStatus
<1>4. /\ issues.refresh_failed # {} => \E s \in Review!Prices!Sources : Health(w, s).refresh = "failed"
      /\ issues.price_missing = Review!Prices!Sources =>
           \A s \in Review!Prices!Sources : Review!Prices!Share(Health(w, s).missing, Health(w, s).active) > 2000
  <2>1. /\ issues.refresh_failed = {s \in Review!Prices!Sources : Health(w, s).refresh = "failed"}
        /\ issues.price_missing =
             {s \in Review!Prices!Sources : Review!Prices!Share(Health(w, s).missing, Health(w, s).active) > 2000}
    BY DEF Review!SourceIssues, Health
  <2> HIDE DEF issues
  <2>2. QED
    BY <2>1
<1>5. /\ {sums.blocked, sums.error} \subseteq Nat
      /\ sums.blocked > 0 <=> \E s \in Review!Prices!Sources : Health(w, s).status = "blocked"
      /\ sums.error > 0 <=> \E s \in Review!Prices!Sources : Health(w, s).status = "error"
  BY SummaryIs
<1>6. /\ sums.active = Health(w, "yuyutei").active + Health(w, "snkrdunk").active
      /\ sums.recent = Health(w, "yuyutei").recent + Health(w, "snkrdunk").recent
      /\ sums.without_recent = sums.active - sums.recent
  BY SummaryIs
<1> HIDE DEF sums, issues, warned, status
<1>7. (\E s \in Review!Prices!Sources : Health(w, s).status \in {"blocked", "error"}) => Review!Degraded(w)
  BY <1>1, <1>5
<1>8. issues.refresh_failed # {} => Review!Degraded(w)
  BY <1>4, <1>7, FailureShows
<1>9. ASSUME \A s \in Review!Prices!Sources : Review!Prices!Share(Health(w, s).missing, Health(w, s).active) > 2000
      PROVE  Review!Prices!Share(sums.without_recent, sums.active) > 2000
  <2>1. ASSUME NEW s \in Review!Prices!Sources
        PROVE  /\ {Health(w, s).active, Health(w, s).recent, Health(w, s).stale, Health(w, s).missing} \subseteq Nat
               /\ Health(w, s).active = Health(w, s).recent + Health(w, s).stale + Health(w, s).missing
               /\ Health(w, s).active # 0 /\ 20000 * Health(w, s).missing >= 4001 * Health(w, s).active
    BY <1>9, MappingsTallied, ShareIs
  <2>2. "yuyutei" \in Review!Prices!Sources /\ "snkrdunk" \in Review!Prices!Sources
    BY DEF Review!Prices!Sources
  <2>3. sums.without_recent \in Nat /\ sums.active \in Nat /\ sums.active # 0 /\ 20000 * sums.without_recent >= 4001 * sums.active
    BY ONLY <1>6, <2>1, <2>2
  <2>4. QED
    BY <2>3, ShareIs
<1>10. status = "ok" => {Health(w, s).status : s \in Review!Prices!Sources} \intersect {"blocked", "error"} = {}
  BY <1>3, <1>7
<1>11. warned = {} => status = "ok"
  BY <1>2, <1>3
<1>12. /\ issues.refresh_failed # {} => "price_health" \in warned /\ status # "ok"
       /\ issues.price_missing = Review!Prices!Sources => "price_health" \in warned
  BY <1>2, <1>3, <1>4, <1>8, <1>9
<1>13. QED
  BY <1>10, <1>11, <1>12 DEF Review!SourcesAreShown, issues, warned, status, Health

\* The lists of gaps are the numbers of the summary.
LEMMA AllGapsAddUp ==
  ASSUME NEW w, IsWorld(w)
  PROVE  Review!Prices!GapsAddUp(w)
<1> DEFINE gaps == Review!Prices!PriceGaps(w)
           sums == Review!Prices!PriceSummary(w)
           cards == Review!Prices!MappedCards(w, DOMAIN w.cards)
<1>1. /\ gaps.stale = {i \in Review!Prices!Facts(w, FALSE) : Review!Prices!IsStale(w, i)}
      /\ gaps.missing = {i \in Review!Prices!Facts(w, FALSE) : Review!Prices!IsMissing(w, i)}
      /\ gaps.failed_refresh = {i \in Review!Prices!Facts(w, FALSE) : Health(w, w.mappings[i].source).refresh = "failed"}
      /\ gaps.blocked = {i \in Review!Prices!Facts(w, FALSE) : Health(w, w.mappings[i].source).status = "blocked"}
  BY DEF Review!Prices!PriceGaps, Health
<1>2. \A i \in Review!Prices!Facts(w, FALSE) : i \in DOMAIN w.mappings /\ w.mappings[i].source \in Review!Prices!Sources /\ w.mappings[i].card \in DOMAIN w.cards
  BY MappingTyped DEF Review!Prices!Facts
<1>3. gaps.stale \intersect gaps.missing = {}
  BY <1>1 DEF Review!Prices!IsStale
<1> HIDE DEF gaps
<1>4. /\ gaps.stale = StaleOf(w, "yuyutei") \union StaleOf(w, "snkrdunk") /\ StaleOf(w, "yuyutei") \intersect StaleOf(w, "snkrdunk") = {}
      /\ gaps.missing = MissingOf(w, "yuyutei") \union MissingOf(w, "snkrdunk") /\ MissingOf(w, "yuyutei") \intersect MissingOf(w, "snkrdunk") = {}
  BY <1>1, <1>2 DEF StaleOf, MissingOf, MappingsOf, Review!Prices!Sources
<1>5. /\ IsFiniteSet(gaps.stale) /\ Cardinality(gaps.stale) = Cardinality(StaleOf(w, "yuyutei")) + Cardinality(StaleOf(w, "snkrdunk")) - Cardinality({})
      /\ IsFiniteSet(gaps.missing) /\ Cardinality(gaps.missing) = Cardinality(MissingOf(w, "yuyutei")) + Cardinality(MissingOf(w, "snkrdunk")) - Cardinality({})
  <2>1. /\ IsFiniteSet(StaleOf(w, "yuyutei")) /\ IsFiniteSet(StaleOf(w, "snkrdunk"))
        /\ IsFiniteSet(MissingOf(w, "yuyutei")) /\ IsFiniteSet(MissingOf(w, "snkrdunk"))
    BY MappingsTallied
  <2>2. QED
    BY ONLY <1>4, <2>1, FS_Union
<1>6. Cardinality(gaps.stale \union gaps.missing) = Cardinality(gaps.stale) + Cardinality(gaps.missing) - Cardinality({})
  BY <1>3, <1>5, FS_Union
<1>7. \A s : /\ {Health(w, s).active, Health(w, s).recent, Health(w, s).stale, Health(w, s).missing} \subseteq Nat
             /\ Health(w, s).active = Health(w, s).recent + Health(w, s).stale + Health(w, s).missing
             /\ Health(w, s).stale = Cardinality(StaleOf(w, s)) /\ Health(w, s).missing = Cardinality(MissingOf(w, s))
  BY MappingsTallied, HealthIs
<1>8. /\ sums.active = Health(w, "yuyutei").active + Health(w, "snkrdunk").active
      /\ sums.recent = Health(w, "yuyutei").recent + Health(w, "snkrdunk").recent
      /\ sums.stale = Health(w, "yuyutei").stale + Health(w, "snkrdunk").stale
      /\ sums.missing = Health(w, "yuyutei").missing + Health(w, "snkrdunk").missing
      /\ sums.without_recent = sums.active - sums.recent
      /\ (\E s \in Review!Prices!Sources : Health(w, s).status = "blocked") => sums.blocked > 0
  BY SummaryIs
<1> HIDE DEF sums
<1>9. /\ sums.without_recent = Cardinality(gaps.stale \union gaps.missing)
      /\ Cardinality(gaps.stale) = sums.stale /\ Cardinality(gaps.missing) = sums.missing
  <2>1. Cardinality({}) = 0
    BY FS_EmptySet
  <2>2. QED
    BY ONLY <1>5, <1>6, <1>7, <1>8, <2>1
<1>10. \A i \in gaps.failed_refresh \union gaps.blocked : Health(w, w.mappings[i].source).status \in {"blocked", "error"}
  BY <1>1, FailureShows
<1>11. gaps.blocked # {} => sums.blocked > 0
  BY <1>1, <1>2, <1>8
<1>12. cards.missing = {} <=> \A i \in gaps.missing : \E j \in Review!Prices!Facts(w, FALSE) :
                                w.mappings[j].card = w.mappings[i].card /\ ~Review!Prices!IsMissing(w, j)
  <2> DEFINE facts == Review!Prices!Facts(w, FALSE)
             priced(c) == \E j \in facts : w.mappings[j].card = c /\ ~Review!Prices!IsMissing(w, j)
  <2>1. \A j : ~Review!Prices!IsMissing(w, j) <=> Review!Prices!IsRecent(w, j) \/ Review!Prices!IsStale(w, j)
    BY DEF Review!Prices!IsRecent, Review!Prices!IsStale
  <2> DEFINE mapped == {c \in DOMAIN w.cards : \E i \in facts : w.mappings[i].card = c}
             recent == {c \in mapped : \E i \in facts : w.mappings[i].card = c /\ Review!Prices!IsRecent(w, i)}
             stale == {c \in mapped \ recent : \E i \in facts : w.mappings[i].card = c /\ Review!Prices!IsStale(w, i)}
  <2>2. cards.missing = mapped \ (recent \union stale)
    BY DEF Review!Prices!MappedCards
  <2> HIDE DEF facts, cards
  <2>3. \A c : c \in cards.missing <=> c \in DOMAIN w.cards /\ (\E i \in facts : w.mappings[i].card = c) /\ ~priced(c)
    BY <2>1, <2>2
  <2> HIDE DEF priced
  <2>4. ASSUME cards.missing = {}, NEW i \in gaps.missing PROVE priced(w.mappings[i].card)
    BY <1>1, <1>2, <2>3, <2>4 DEF facts
  <2>5. ASSUME \A i \in gaps.missing : priced(w.mappings[i].card), NEW c \in cards.missing PROVE FALSE
    <3>1. PICK i \in facts : w.mappings[i].card = c
      BY <2>3
    <3>2. ~Review!Prices!IsMissing(w, i)
      BY <1>1, <2>3, <2>5, <3>1 DEF facts
    <3>3. priced(c)
      BY <3>1, <3>2 DEF priced
    <3>4. QED
      BY <2>3, <3>3
  <2>6. QED
    BY <2>4, <2>5 DEF priced, facts
<1>13. QED
  BY <1>3, <1>9, <1>10, <1>11, <1>12, PricesCardinality DEF Review!Prices!GapsAddUp, gaps, sums, Health

LEMMA LargestOf ==
  ASSUME NEW S \in SUBSET Nat, S # {}, NEW n \in Nat, \A i \in S : i <= n
  PROVE  \E x \in S : \A y \in S : y <= x
<1> DEFINE T == {n - i : i \in S}
<1>1. T \subseteq Nat /\ T # {}
  <2>1. \A i \in S : i \in Nat /\ i <= n /\ n - i \in Nat
    OBVIOUS
  <2>2. QED
    BY <2>1
<1>2. PICK t \in T : \A y \in T : t <= y
  BY <1>1, SmallestOf
<1>3. PICK x \in S : t = n - x
  BY <1>2
<1>4. ASSUME NEW y \in S PROVE y <= x
  <2>1. n - x <= n - y
    BY <1>2, <1>3
  <2>2. QED
    BY <2>1
<1>5. QED
  BY <1>4

\* A world in which a refresh of a source has just succeeded.
LEMMA RefreshedIs ==
  ASSUME NEW w, IsWorld(w), NEW source \in Review!Prices!Sources
  PROVE  LET r == Review!Prices!Refreshed(w, source)
             n == Len(w.runs) + 1 IN
         /\ r.mappings = w.mappings /\ r.discoveries = w.discoveries
         /\ \A s : Review!Prices!DiscoveryStatus(r, s) = Review!Prices!DiscoveryStatus(w, s)
         /\ n \in Nat /\ n \notin DOMAIN w.runs /\ DOMAIN w.runs \subseteq 1..n /\ DOMAIN r.runs = DOMAIN w.runs \union {n}
         /\ \A i \in DOMAIN w.runs : r.runs[i] = w.runs[i]
         /\ r.runs[n] = [filter |-> source, status |-> "completed", recent |-> TRUE]
         /\ \A c \in DOMAIN w.cards, s \in Review!Prices!Sources :
              r.cards[c].age[s] = IF s = source THEN 0 ELSE w.cards[c].age[s]
<1> DEFINE r == Review!Prices!Refreshed(w, source)
           n == Len(w.runs) + 1
           run == [filter |-> source, status |-> "completed", recent |-> TRUE]
<1>1. /\ {"cards", "mappings", "runs", "discoveries"} \subseteq DOMAIN w
      /\ w.runs \in Seq([filter : STRING, status : STRING, recent : BOOLEAN])
      /\ \A c \in DOMAIN w.cards : "age" \in DOMAIN w.cards[c] /\ w.cards[c].age \in [Review!Prices!Sources -> Known(Nat)]
  BY DEF IsWorld
<1>2. /\ r.mappings = w.mappings /\ r.discoveries = w.discoveries /\ r.runs = Append(w.runs, run)
      /\ r.cards = [c \in DOMAIN w.cards |-> [w.cards[c] EXCEPT !.age[source] = 0]]
  BY <1>1 DEF Review!Prices!Refreshed
<1>3. \A s : Review!Prices!DiscoveryStatus(r, s) = Review!Prices!DiscoveryStatus(w, s)
  BY <1>2 DEF Review!Prices!DiscoveryStatus
<1>4. \A c \in DOMAIN w.cards, s \in Review!Prices!Sources :
        r.cards[c].age[s] = IF s = source THEN 0 ELSE w.cards[c].age[s]
  BY <1>1, <1>2
<1>5. /\ n \in Nat /\ n \notin DOMAIN w.runs /\ DOMAIN w.runs \subseteq 1..n /\ DOMAIN r.runs = DOMAIN w.runs \union {n}
      /\ \A i \in DOMAIN w.runs : r.runs[i] = w.runs[i]
      /\ r.runs[n] = run
  <2>1. PICK runs \in Seq([filter : STRING, status : STRING, recent : BOOLEAN]) : runs = w.runs
    BY <1>1
  <2>2. Len(runs) \in Nat /\ DOMAIN runs = 1..Len(runs)
    BY <2>1
  <2>3. /\ DOMAIN Append(runs, run) = 1..Len(runs) + 1
        /\ \A i \in 1..Len(runs) : Append(runs, run)[i] = runs[i]
        /\ Append(runs, run)[Len(runs) + 1] = run
    BY <2>1, <2>2
  <2> HIDE DEF run, r
  <2>4. QED
    BY <1>2, <2>1, <2>2, <2>3
<1>6. QED
  BY <1>2, <1>3, <1>4, <1>5

\* What a refresh changes for its own source: it is the latest run and one more
\* that has completed.
LEMMA RunsRefreshed ==
  ASSUME NEW w, IsWorld(w), NEW source \in Review!Prices!Sources
  PROVE  LET r == Review!Prices!Refreshed(w, source)
             before == Review!Prices!RunsOf(w, source)
             after == Review!Prices!RunsOf(r, source) IN
         /\ after # {} /\ Review!Prices!LatestStatus(r, after) = "completed"
         /\ Review!Prices!Resolved(r, after) # {}
         /\ IsFiniteSet(Review!Prices!Resolved(w, before)) /\ IsFiniteSet(Review!Prices!Completed(w, before))
         /\ Cardinality(Review!Prices!Resolved(r, after)) = Cardinality(Review!Prices!Resolved(w, before)) + 1
         /\ Cardinality(Review!Prices!Completed(r, after)) = Cardinality(Review!Prices!Completed(w, before)) + 1
<1> DEFINE r == Review!Prices!Refreshed(w, source)
           n == Len(w.runs) + 1
           before == Review!Prices!RunsOf(w, source)
           after == Review!Prices!RunsOf(r, source)
<1>1. /\ n \in Nat /\ n \notin DOMAIN w.runs /\ DOMAIN w.runs \subseteq 1..n /\ DOMAIN r.runs = DOMAIN w.runs \union {n}
      /\ \A i \in DOMAIN w.runs : r.runs[i] = w.runs[i]
      /\ r.runs[n] = [filter |-> source, status |-> "completed", recent |-> TRUE]
  BY RefreshedIs
<1> HIDE DEF r, n
<1>2. before \subseteq DOMAIN w.runs /\ after = before \union {n}
  BY <1>1 DEF Review!Prices!RunsOf
<1> HIDE DEF before, after
<1>3. Review!Prices!LatestStatus(r, after) = "completed"
  <2>1. \A j \in after : j <= n /\ j \in Nat
    BY <1>1, <1>2
  <2>2. (CHOOSE i \in after : \A j \in after : j <= i) = n
    <3>1. n \in after /\ n \in Nat
      BY <1>1, <1>2
    <3>2. \A i \in after : (\A j \in after : j <= i) => i = n
      BY <1>1, <2>1, <3>1
    <3>3. QED
      BY <2>1, <3>1, <3>2
  <2>3. QED
    BY <1>1, <1>2, <2>2 DEF Review!Prices!LatestStatus
<1>4. Review!Prices!Resolved(r, after) = Review!Prices!Resolved(w, before) \union {n}
  BY <1>1, <1>2 DEF Review!Prices!Resolved, Review!Prices!Succeeded
<1>5. Review!Prices!Completed(r, after) = Review!Prices!Completed(w, before) \union {n}
  BY <1>1, <1>2 DEF Review!Prices!Completed, Review!Prices!Resolved, Review!Prices!Succeeded
<1>6. Review!Prices!Resolved(w, before) \subseteq DOMAIN w.runs /\ Review!Prices!Completed(w, before) \subseteq DOMAIN w.runs
  BY <1>2 DEF Review!Prices!Completed, Review!Prices!Resolved
<1>7. IsFiniteSet(DOMAIN w.runs)
  BY <1>1, FS_Interval, FS_Subset
<1>8. IsFiniteSet(Review!Prices!Resolved(w, before)) /\ IsFiniteSet(Review!Prices!Completed(w, before))
  BY <1>6, <1>7, FS_Subset
<1>9. n \notin Review!Prices!Resolved(w, before) /\ n \notin Review!Prices!Completed(w, before)
  BY <1>1, <1>6
<1>10. /\ Cardinality(Review!Prices!Resolved(r, after)) = Cardinality(Review!Prices!Resolved(w, before)) + 1
       /\ Cardinality(Review!Prices!Completed(r, after)) = Cardinality(Review!Prices!Completed(w, before)) + 1
  BY <1>4, <1>5, <1>8, <1>9, FS_AddElement
<1>11. after # {} /\ Review!Prices!Resolved(r, after) # {}
  BY <1>2, <1>4
<1>12. QED
  BY <1>3, <1>8, <1>10, <1>11 DEF r, before, after

\* What it leaves of other sources: their runs and their prices.
LEMMA OthersRefreshed ==
  ASSUME NEW w, IsWorld(w), NEW source \in Review!Prices!Sources, NEW other \in Review!Prices!Sources \ {source}
  PROVE  LET r == Review!Prices!Refreshed(w, other) IN Health(r, source).status = Health(w, source).status
<1> DEFINE r == Review!Prices!Refreshed(w, other)
           n == Len(w.runs) + 1
           runs == Review!Prices!RunsOf(w, source)
<1>1. /\ r.mappings = w.mappings /\ r.discoveries = w.discoveries
      /\ Review!Prices!DiscoveryStatus(r, source) = Review!Prices!DiscoveryStatus(w, source)
      /\ n \in Nat /\ n \notin DOMAIN w.runs /\ DOMAIN w.runs \subseteq 1..n /\ DOMAIN r.runs = DOMAIN w.runs \union {n}
      /\ \A i \in DOMAIN w.runs : r.runs[i] = w.runs[i]
      /\ r.runs[n] = [filter |-> other, status |-> "completed", recent |-> TRUE]
      /\ \A c \in DOMAIN w.cards, s \in Review!Prices!Sources :
           r.cards[c].age[s] = IF s = other THEN 0 ELSE w.cards[c].age[s]
  BY RefreshedIs
<1> HIDE DEF r, n
<1>2. Review!Prices!RunsOf(r, source) = runs /\ runs \subseteq DOMAIN w.runs
  <2>1. other # "null" /\ other # source
    BY DEF Review!Prices!Sources
  <2>2. QED
    BY <1>1, <2>1 DEF Review!Prices!RunsOf
<1> HIDE DEF runs
<1>3. Review!Prices!LatestStatus(r, runs) = Review!Prices!LatestStatus(w, runs)
  <2>1. CASE runs = {}
    BY <2>1 DEF Review!Prices!LatestStatus
  <2>2. CASE runs # {}
    <3>1. \E k \in runs : \A j \in runs : j <= k
      <4>1. runs \subseteq Nat /\ \A i \in runs : i <= n
        BY <1>1, <1>2
      <4>2. QED
        BY <1>1, <2>2, <4>1, LargestOf
    <3>2. PICK i \in runs : i = CHOOSE k \in runs : \A j \in runs : j <= k
      BY <3>1
    <3>3. QED
      BY <1>1, <1>2, <2>2, <3>2 DEF Review!Prices!LatestStatus
  <2>3. QED
    BY <2>1, <2>2
<1>4. Review!Prices!Resolved(r, runs) = Review!Prices!Resolved(w, runs)
  BY <1>1, <1>2 DEF Review!Prices!Resolved
<1>5. Review!Prices!Completed(r, runs) = Review!Prices!Completed(w, runs)
  BY <1>1, <1>2, <1>4 DEF Review!Prices!Completed, Review!Prices!Resolved
<1>6. Review!Prices!SuccessRate(r, runs) = Review!Prices!SuccessRate(w, runs)
  BY <1>4, <1>5 DEF Review!Prices!SuccessRate
<1>7. Health(r, source).active = Health(w, source).active
  <2>1. MappingsOf(r, source) = MappingsOf(w, source)
    BY <1>1 DEF MappingsOf, Review!Prices!Facts
  <2>2. QED
    BY <2>1, HealthIs
<1>8. \A i \in MappingsOf(w, source) : Review!Prices!Age(r, i) = Review!Prices!Age(w, i)
  BY <1>1, MappingTyped DEF MappingsOf, Review!Prices!Facts, Review!Prices!Age
<1>9. StaleOf(r, source) = StaleOf(w, source) /\ MissingOf(r, source) = MissingOf(w, source)
  <2>1. MappingsOf(r, source) = MappingsOf(w, source)
    BY <1>1 DEF MappingsOf, Review!Prices!Facts
  <2>2. \A i \in MappingsOf(w, source) :
          /\ Review!Prices!IsStale(r, i) <=> Review!Prices!IsStale(w, i)
          /\ Review!Prices!IsMissing(r, i) <=> Review!Prices!IsMissing(w, i)
    BY <1>1, <1>8 DEF Review!Prices!IsStale, Review!Prices!IsRecent, Review!Prices!IsMissing
  <2>3. QED
    BY <2>1, <2>2 DEF StaleOf, MissingOf
<1>10. Health(r, source).stale = Health(w, source).stale /\ Health(r, source).missing = Health(w, source).missing
  BY <1>9, HealthIs
<1>11. \A active, stale, missing :
         Review!Prices!HealthStatus(r, source, active, stale, missing) = Review!Prices!HealthStatus(w, source, active, stale, missing)
  BY <1>1, <1>2, <1>3, <1>4, <1>6 DEF Review!Prices!HealthStatus, runs
<1>12. QED
  BY <1>7, <1>10, <1>11, HealthIs DEF r

\* Nothing of a source that was refreshed is stale or missing; it is blocked,
\* or as good as its rate of success.
LEMMA SourceRefreshed ==
  ASSUME NEW w, IsWorld(w), NEW source \in Review!Prices!Sources
  PROVE  LET r == Review!Prices!Refreshed(w, source)
             runs == Review!Prices!RunsOf(r, source) IN
         Health(r, source).status = IF Review!Prices!DiscoveryStatus(w, source) = "blocked" THEN "blocked"
                                    ELSE IF Review!Prices!SuccessRate(r, runs) < 8000 THEN "degraded" ELSE "healthy"
<1> DEFINE r == Review!Prices!Refreshed(w, source)
           runs == Review!Prices!RunsOf(r, source)
<1>1. /\ r.mappings = w.mappings
      /\ Review!Prices!DiscoveryStatus(r, source) = Review!Prices!DiscoveryStatus(w, source)
      /\ \A c \in DOMAIN w.cards : r.cards[c].age[source] = 0
  <2>1. /\ r.mappings = w.mappings
        /\ Review!Prices!DiscoveryStatus(r, source) = Review!Prices!DiscoveryStatus(w, source)
        /\ r.runs[Len(w.runs) + 1] = [filter |-> source, status |-> "completed", recent |-> TRUE]
        /\ \A c \in DOMAIN w.cards, s \in Review!Prices!Sources :
             r.cards[c].age[s] = IF s = source THEN 0 ELSE w.cards[c].age[s]
    BY RefreshedIs
  <2> HIDE DEF r
  <2>2. QED
    BY <2>1
<1>2. runs # {} /\ Review!Prices!LatestStatus(r, runs) = "completed" /\ Review!Prices!Resolved(r, runs) # {}
  BY RunsRefreshed
<1> HIDE DEF r
<1>3. MappingsOf(r, source) = MappingsOf(w, source)
  BY <1>1 DEF MappingsOf, Review!Prices!Facts
<1>4. \A i \in MappingsOf(r, source) : Review!Prices!Age(r, i) = 0
  BY <1>1, <1>3, MappingTyped DEF MappingsOf, Review!Prices!Facts, Review!Prices!Age
<1>5. StaleOf(r, source) = {} /\ MissingOf(r, source) = {}
  <2>1. ASSUME NEW i \in MappingsOf(r, source) PROVE ~Review!Prices!IsStale(r, i) /\ ~Review!Prices!IsMissing(r, i)
    <3>1. Review!Prices!Age(r, i) = 0
      BY <1>4, <2>1
    <3>2. QED
      BY <3>1 DEF Review!Prices!IsStale, Review!Prices!IsRecent, Review!Prices!IsMissing, Review!Prices!RecentPriceWindow,
                  Review!Prices!None
  <2>2. QED
    BY <2>1 DEF StaleOf, MissingOf
<1>6. Health(r, source).stale = 0 /\ Health(r, source).missing = 0 /\ Health(r, source).active \in Nat
  <2>1. IsFiniteSet(MappingsOf(r, source))
    BY <1>3, MappingsTallied
  <2>2. QED
    BY <1>5, <2>1, HealthIs, FS_EmptySet, FS_CardinalityType
<1>7. Review!Prices!Share(0, Health(r, source).active) = 0
  <2>1. PICK d \in Nat : d = Health(r, source).active
    BY <1>6
  <2>2. (20000 * 0 + d) \div (2 * d) = 0 \/ d = 0
    OBVIOUS
  <2>3. QED
    BY <2>1, <2>2 DEF Review!Prices!Share, Review!Prices!Pct
<1>8. Health(r, source).status = Review!Prices!HealthStatus(r, source, Health(r, source).active, 0, 0)
  BY <1>6, HealthIs
<1>9. \A active : Review!Prices!Share(0, active) = 0 =>
        Review!Prices!HealthStatus(r, source, active, 0, 0) =
          IF Review!Prices!DiscoveryStatus(w, source) = "blocked" THEN "blocked"
          ELSE IF Review!Prices!SuccessRate(r, runs) < 8000 THEN "degraded" ELSE "healthy"
  BY <1>1, <1>2 DEF Review!Prices!HealthStatus
<1>10. QED
  BY <1>7, <1>8, <1>9 DEF r

\* A source that was healthy stays so: one more success does not lower its rate.
LEMMA RatesGrow ==
  ASSUME NEW w, IsWorld(w), NEW source \in Review!Prices!Sources, Health(w, source).status = "healthy"
  PROVE  LET r == Review!Prices!Refreshed(w, source) IN Review!Prices!SuccessRate(r, Review!Prices!RunsOf(r, source)) >= 8000
<1> DEFINE r == Review!Prices!Refreshed(w, source)
           before == Review!Prices!RunsOf(w, source)
           after == Review!Prices!RunsOf(r, source)
           n == Cardinality(Review!Prices!Completed(w, before))
           d == Cardinality(Review!Prices!Resolved(w, before))
<1>1. /\ IsFiniteSet(Review!Prices!Resolved(w, before)) /\ IsFiniteSet(Review!Prices!Completed(w, before))
      /\ Cardinality(Review!Prices!Resolved(r, after)) = d + 1 /\ Cardinality(Review!Prices!Completed(r, after)) = n + 1
  BY RunsRefreshed
<1>2. n \in Nat /\ d \in Nat /\ n <= d
  <2>1. Review!Prices!Completed(w, before) \subseteq Review!Prices!Resolved(w, before)
    BY DEF Review!Prices!Completed
  <2>2. QED
    BY <1>1, <2>1, FS_Subset, FS_CardinalityType
<1>3. d = 0 \/ Review!Prices!Share(n, d) >= 8000
  <2>1. \A active, stale, missing : Review!Prices!HealthStatus(w, source, active, stale, missing) = "healthy" =>
          Review!Prices!Resolved(w, before) = {} \/ ~(Review!Prices!SuccessRate(w, before) < 8000)
    BY DEF Review!Prices!HealthStatus
  <2>2. Review!Prices!Resolved(w, before) = {} \/ ~(Review!Prices!SuccessRate(w, before) < 8000)
    BY <2>1, HealthIs
  <2>3. Review!Prices!SuccessRate(w, before) = Review!Prices!Share(n, d)
    BY PricesCardinality DEF Review!Prices!SuccessRate
  <2>4. Review!Prices!Share(n, d) \in Nat
    BY <1>2, ShareReaches
  <2>5. QED
    BY <2>2, <2>3, <2>4, FS_EmptySet
<1>4. Review!Prices!SuccessRate(r, after) = Review!Prices!Share(n + 1, d + 1)
  BY <1>1, PricesCardinality DEF Review!Prices!SuccessRate
<1> HIDE DEF n, d, r, before, after
<1>5. d = 0 \/ 20000 * n + d >= 8000 * (2 * d)
  BY <1>2, <1>3, ShareReaches
<1>6. 20000 * (n + 1) + (d + 1) >= 8000 * (2 * (d + 1)) /\ n + 1 \in Nat /\ d + 1 \in Nat /\ d + 1 # 0
  BY <1>2, <1>5
<1>7. Review!Prices!Share(n + 1, d + 1) >= 8000
  BY <1>6, ShareReaches
<1>8. QED
  BY <1>4, <1>7 DEF r, after

\* A source is called healthy only if its latest run has not failed and no more
\* than a fifth of its mappings are without a fresh price.
LEMMA HealthyIsFresh ==
  ASSUME NEW w, IsWorld(w), NEW source \in Review!Prices!Sources, Health(w, source).status = "healthy"
  PROVE  /\ Health(w, source).refresh # "failed"
         /\ Review!Prices!Share(Health(w, source).active - Health(w, source).recent, Health(w, source).active) <= 2000
<1> DEFINE h == Health(w, source)
<1>1. h.refresh # "failed"
  BY FailureShows
<1>2. h.stale + h.missing = h.active - h.recent /\ h.stale + h.missing \in Nat /\ h.active \in Nat
  BY MappingsTallied
<1>3. \A active, stale, missing : Review!Prices!HealthStatus(w, source, active, stale, missing) = "healthy" =>
        ~(Review!Prices!Share(stale + missing, active) > 2000)
  BY DEF Review!Prices!HealthStatus
<1>4. ~(Review!Prices!Share(h.stale + h.missing, h.active) > 2000)
  BY <1>3, HealthIs
<1>5. Review!Prices!Share(h.stale + h.missing, h.active) \in Nat
  BY <1>2, ShareTyped
<1>6. QED
  BY <1>1, <1>2, <1>4, <1>5

LEMMA AllHealthEarned ==
  ASSUME NEW w, IsWorld(w)
  PROVE  Review!Prices!HealthIsEarned(w)
<1>1. ASSUME NEW source \in Review!Prices!Sources
      PROVE  LET after == Health(Review!Prices!Refreshed(w, source), source).status IN
             /\ Review!Prices!Better[Health(w, source).status] <= Review!Prices!Better[after]
             /\ after \in {"blocked", "degraded", "healthy"}
  <2> DEFINE r == Review!Prices!Refreshed(w, source)
             now == Health(w, source).status
             after == Health(r, source).status
             rate == Review!Prices!SuccessRate(r, Review!Prices!RunsOf(r, source))
  <2>1. after = IF Review!Prices!DiscoveryStatus(w, source) = "blocked" THEN "blocked"
                ELSE IF rate < 8000 THEN "degraded" ELSE "healthy"
    BY SourceRefreshed
  <2>2. /\ now \in {"unknown", "blocked", "error", "stale", "degraded", "healthy"}
        /\ Review!Prices!DiscoveryStatus(w, source) = "blocked" => now \in {"unknown", "blocked"}
    <3>1. \A active, stale, missing :
            LET status == Review!Prices!HealthStatus(w, source, active, stale, missing) IN
            /\ status \in {"unknown", "blocked", "error", "stale", "degraded", "healthy"}
            /\ Review!Prices!DiscoveryStatus(w, source) = "blocked" => status \in {"unknown", "blocked"}
      BY DEF Review!Prices!HealthStatus
    <3>2. QED
      BY <3>1, HealthIs
  <2>3. now = "healthy" => rate >= 8000
    BY RatesGrow
  <2>4. rate \in Nat
    <3>1. /\ Cardinality(Review!Prices!Completed(r, Review!Prices!RunsOf(r, source))) \in Nat
          /\ Cardinality(Review!Prices!Resolved(r, Review!Prices!RunsOf(r, source))) \in Nat
      BY RunsRefreshed, FS_CardinalityType
    <3>2. QED
      BY <3>1, ShareTyped, PricesCardinality DEF Review!Prices!SuccessRate
  <2> HIDE DEF r, now, after, rate
  <2>5. /\ Review!Prices!Better["unknown"] = 0 /\ Review!Prices!Better["blocked"] = 1 /\ Review!Prices!Better["error"] = 2
        /\ Review!Prices!Better["stale"] = 3 /\ Review!Prices!Better["degraded"] = 4 /\ Review!Prices!Better["healthy"] = 5
    BY DEF Review!Prices!Better
  <2>6. CASE Review!Prices!DiscoveryStatus(w, source) = "blocked"
    BY <2>1, <2>2, <2>5, <2>6 DEF r, now, after
  <2>7. CASE Review!Prices!DiscoveryStatus(w, source) # "blocked"
    <3>1. after \in {"degraded", "healthy"} /\ (now = "healthy" => after = "healthy")
      BY <2>1, <2>3, <2>4, <2>7
    <3>2. QED
      BY <2>2, <2>5, <3>1 DEF r, now, after
  <2>8. QED
    BY <2>6, <2>7
<1>2. \A source \in Review!Prices!Sources : \A other \in Review!Prices!Sources \ {source} :
        Health(Review!Prices!Refreshed(w, other), source).status = Health(w, source).status
  BY OthersRefreshed
<1>3. \A source \in Review!Prices!Sources : Health(w, source).status = "healthy" =>
        /\ Health(w, source).refresh # "failed"
        /\ Review!Prices!Share(Health(w, source).active - Health(w, source).recent, Health(w, source).active) <= 2000
  BY HealthyIsFresh
<1>4. ASSUME NEW source \in Review!Prices!Sources
      PROVE  LET status(v) == Health(v, source).status
                 now == Health(w, source) IN
             /\ Review!Prices!Better[status(w)] <= Review!Prices!Better[status(Review!Prices!Refreshed(w, source))]
             /\ status(Review!Prices!Refreshed(w, source)) \in {"blocked", "degraded", "healthy"}
             /\ \A other \in Review!Prices!Sources \ {source} : status(Review!Prices!Refreshed(w, other)) = status(w)
             /\ now.status = "healthy" => now.refresh # "failed" /\ Review!Prices!Share(now.active - now.recent, now.active) <= 2000
  BY <1>1, <1>2, <1>3
<1>5. QED
  BY ZenonT(30), <1>4 DEF Review!Prices!HealthIsEarned, Health

\* What is counted as covered is what has no gap.
LEMMA AllCountsAreGaps ==
  ASSUME NEW w, IsWorld(w), NEW inactive_too
  PROVE  Review!Prices!CountsAreGaps(w, inactive_too)
<1> DEFINE cards == Review!Prices!Shown(w, inactive_too)
           counts == Review!Prices!CatalogSummary(w, inactive_too).counts
           priced == {c \in cards : Review!Prices!RecentSources(w, c) # {}}
<1>1. /\ counts.total = Review!Prices!Cardinality(cards)
      /\ counts.unmapped = Review!Prices!Cardinality({c \in cards : Review!Prices!MappedSources(w, c) = {}})
      /\ counts.recent = Review!Prices!Cardinality(priced)
      /\ counts.duplicate = Review!Prices!Cardinality({c \in cards : w.cards[c].labels # {}})
      /\ counts.risk = Review!Prices!Cardinality({c \in cards : Review!Prices!MappingRisk(w.cards[c].risks).level # "none"})
  BY ZenonT(30) DEF Review!Prices!CatalogSummary, Review!Prices!CardCounts
<1>2. \A c : /\ Review!Prices!CardGaps(w, c).metadata = Review!Prices!MetadataSeverity(w.cards[c].misses)
             /\ Review!Prices!CardGaps(w, c).mapping
                  = Review!Prices!SourceSeverity(Review!Prices!Sources \ Review!Prices!MappedSources(w, c))
             /\ Review!Prices!CardGaps(w, c).price
                  = Review!Prices!SourceSeverity(Review!Prices!Sources \ Review!Prices!RecentSources(w, c))
             /\ Review!Prices!CardGaps(w, c).duplicate = Review!Prices!DuplicateSeverity(w.cards[c].labels)
             /\ Review!Prices!CardGaps(w, c).mapping_quality = Review!Prices!MappingRisk(w.cards[c].risks).level
  BY DEF Review!Prices!CardGaps
<1>3. \A S \in SUBSET Review!Prices!Sources :
        Review!Prices!SourceSeverity(Review!Prices!Sources \ S) = "critical" <=> S = {}
  <2>1. "yuyutei" # "snkrdunk"
    OBVIOUS
  <2>2. QED
    BY <2>1 DEF Review!Prices!SourceSeverity, Review!Prices!Sources
<1>4. \A c : /\ Review!Prices!MappedSources(w, c) \subseteq Review!Prices!Sources
             /\ Review!Prices!RecentSources(w, c) \subseteq Review!Prices!Sources
  BY MappingTyped DEF Review!Prices!MappedSources, Review!Prices!RecentSources
<1>5. \A c : /\ Review!Prices!CardGaps(w, c).mapping = "critical" <=> Review!Prices!MappedSources(w, c) = {}
             /\ Review!Prices!CardGaps(w, c).price = "critical" <=> Review!Prices!RecentSources(w, c) = {}
  BY <1>2, <1>3, <1>4
<1>6. \A labels : Review!Prices!DuplicateSeverity(labels) # "none" <=> labels # {}
  BY DEF Review!Prices!DuplicateSeverity
<1>7. \A card : Review!Prices!Incomplete(card) => Review!Prices!MetadataSeverity(card.misses) # "none"
  <2>1. SUFFICES ASSUME NEW misses, misses \ {"code"} # {}
                 PROVE  Review!Prices!MetadataSeverity(misses) # "none"
    BY DEF Review!Prices!Incomplete
  <2>2. CASE misses \cap {"code", "name"} # {}
    BY <2>2 DEF Review!Prices!MetadataSeverity
  <2>3. CASE misses \cap {"code", "name"} = {} /\ "set" \in misses
    BY <2>3 DEF Review!Prices!MetadataSeverity
  <2>4. CASE misses \cap {"code", "name", "set"} = {} /\ misses # {}
    BY <2>4 DEF Review!Prices!MetadataSeverity
  <2>5. QED
    BY <2>1, <2>2, <2>3, <2>4
<1>8. Cardinality(cards) - Cardinality(priced) = Cardinality({c \in cards : Review!Prices!RecentSources(w, c) = {}})
  <2>1. cards \subseteq DOMAIN w.cards
    BY DEF Review!Prices!Shown
  <2> HIDE DEF cards
  <2>2. IsFiniteSet(cards)
    BY <2>1, FS_Subset DEF IsWorld
  <2>3. priced \subseteq cards /\ cards \ priced = {c \in cards : Review!Prices!RecentSources(w, c) = {}}
    OBVIOUS
  <2> HIDE DEF priced
  <2>4. IsFiniteSet(priced) /\ IsFiniteSet(cards \ priced)
    BY <2>2, <2>3, FS_Subset
  <2>5. Cardinality(cards) = Cardinality(priced) + Cardinality(cards \ priced) - Cardinality(priced \cap (cards \ priced))
    <3>1. priced \union (cards \ priced) = cards
      BY <2>3
    <3>2. QED
      BY <2>4, <3>1, FS_Union
  <2>6. Cardinality(priced \cap (cards \ priced)) = 0
    <3>1. priced \cap (cards \ priced) = {}
      OBVIOUS
    <3>2. QED
      BY <3>1, FS_EmptySet
  <2>7. /\ Cardinality(priced) \in Nat /\ Cardinality(cards \ priced) \in Nat
    BY <2>4, FS_CardinalityType
  <2>8. Cardinality(cards) - Cardinality(priced) = Cardinality(cards \ priced)
    BY ONLY <2>5, <2>6, <2>7
  <2>9. QED
    BY <2>3, <2>8
<1> HIDE DEF cards, counts, priced
<1>9. /\ {c \in cards : Review!Prices!MappedSources(w, c) = {}}
           = {c \in cards : Review!Prices!CardGaps(w, c).mapping = "critical"}
      /\ {c \in cards : Review!Prices!RecentSources(w, c) = {}}
           = {c \in cards : Review!Prices!CardGaps(w, c).price = "critical"}
      /\ {c \in cards : w.cards[c].labels # {}}
           = {c \in cards : Review!Prices!CardGaps(w, c).duplicate # "none"}
      /\ {c \in cards : Review!Prices!MappingRisk(w.cards[c].risks).level # "none"}
           = {c \in cards : Review!Prices!CardGaps(w, c).mapping_quality # "none"}
  BY <1>2, <1>5, <1>6
<1>10. counts.total - counts.recent
         = Review!Prices!Cardinality({c \in cards : Review!Prices!CardGaps(w, c).price = "critical"})
  BY <1>1, <1>8, <1>9, PricesCardinality
<1>11. \A c \in cards : Review!Prices!Incomplete(w.cards[c]) => Review!Prices!CardGaps(w, c).metadata # "none"
  BY <1>2, <1>7
<1>12. QED
  BY <1>1, <1>9, <1>10, <1>11 DEF Review!Prices!CountsAreGaps, cards, counts

-----------------------------------------------------------------------------
(***************************************************************************)
(* Advice and prices                                                       *)
(***************************************************************************)
\* A division by a positive number grows with what is divided.
LEMMA QuotientsGrow ==
  ASSUME NEW m \in Int, NEW n \in Int, NEW d \in Nat \ {0}, m <= n
  PROVE  m \div d <= n \div d
<1>1. PICK q \in Int : q = m \div d /\ q * d <= m
  OBVIOUS
<1>2. PICK r \in Int : r = n \div d /\ n < r * d + d
  OBVIOUS
<1>3. q >= r + 1 => q * d >= (r + 1) * d
  BY ONLY <1>1, <1>2
<1>4. (r + 1) * d = r * d + d
  BY ONLY <1>2
<1>5. ~(q >= r + 1)
  <2>1. PICK x \in Int, y \in Int : x = q * d /\ y = r * d
    BY <1>1, <1>2
  <2>2. x <= m /\ n < y + d /\ (q >= r + 1 => x >= y + d)
    BY <1>1, <1>2, <1>3, <1>4, <2>1
  <2>3. QED
    BY ONLY <2>1, <2>2, m <= n, m \in Int, n \in Int, d \in Nat
<1>6. QED
  BY ONLY <1>1, <1>2, <1>5

LEMMA PctsGrow ==
  ASSUME NEW m \in Int, NEW n \in Int, NEW d \in Nat \ {0}, m <= n, -d <= m
  PROVE  /\ Advice!Pct(m, d) \in Int /\ Advice!Pct(n, d) \in Int
         /\ Advice!Pct(m, d) <= Advice!Pct(n, d) /\ -10000 <= Advice!Pct(m, d)
<1>1. 20000 * m + d \in Int /\ 20000 * n + d \in Int /\ 2 * d \in Nat \ {0} /\ 20000 * m + d <= 20000 * n + d
  OBVIOUS
<1>2. (20000 * m + d) \div (2 * d) <= (20000 * n + d) \div (2 * d)
  BY ONLY <1>1, QuotientsGrow
<1>3. (-20000 * d) \div (2 * d) = -10000
  <2>1. PICK q \in Int : q = (-20000 * d) \div (2 * d) /\ q * (2 * d) <= -20000 * d /\ -20000 * d < q * (2 * d) + 2 * d
    BY <1>1
  <2>2. q * (2 * d) = 2 * (q * d)
    BY ONLY <2>1
  <2>3. (q >= -9999 => q * d >= -9999 * d) /\ (q <= -10001 => q * d <= -10001 * d)
    BY ONLY <2>1
  <2>4. PICK z \in Int : z = q * d
    BY <2>1
  <2>5. ~(q >= -9999) /\ ~(q <= -10001)
    BY ONLY <2>1, <2>2, <2>3, <2>4
  <2>6. QED
    BY ONLY <2>1, <2>5
<1>4. (-20000 * d) \div (2 * d) <= (20000 * m + d) \div (2 * d)
  <2>1. -20000 * d \in Int /\ -20000 * d <= 20000 * m + d
    OBVIOUS
  <2>2. QED
    BY ONLY <1>1, <2>1, QuotientsGrow
<1>5. QED
  BY <1>1, <1>2, <1>3, <1>4 DEF Advice!Pct

LEMMA ChangesGrow ==
  ASSUME NEW m \in Nat, NEW n \in Nat, m <= n, NEW of \in Known(Nat)
  PROVE  LET less == Advice!Change(m, of, of)
             more == Advice!Change(n, of, of) IN
         /\ less \in Int /\ more \in Int /\ less <= more
         /\ less = Advice!None <=> more = Advice!None
<1>1. Advice!None = -1000000 /\ Copy!None = -1000000
  BY DEF Advice!None, Copy!None
<1>2. CASE of = Advice!None \/ of = 0
  BY <1>1, <1>2 DEF Advice!Change
<1>3. CASE of # Advice!None /\ of # 0
  <2>1. of \in Nat \ {0}
    BY <1>1, <1>3 DEF Known
  <2>2. Advice!Change(m, of, of) = Advice!Pct(m - of, of) /\ Advice!Change(n, of, of) = Advice!Pct(n - of, of)
    BY <1>1, <2>1 DEF Advice!Change
  <2>3. m - of \in Int /\ n - of \in Int /\ m - of <= n - of /\ -of <= m - of
    BY <2>1
  <2>4. QED
    BY ONLY <1>1, <2>1, <2>2, <2>3, PctsGrow
<1>4. QED
  BY <1>2, <1>3

\* A holding, or the card of a wish, at a floor price.
At(holding, price) == [holding EXCEPT !.card.floor = <<[price |-> price, age |-> 0]>>]

LEMMA OnlyTheFloor ==
  ASSUME NEW d, IsDecision(d), NEW p
  PROVE  LET h == At(d.holding, p) IN
         /\ h.card.floor = <<[price |-> p, age |-> 0]>> /\ h.card.sell = d.holding.card.sell /\ h.card.buy = d.holding.card.buy
         /\ h.cost = d.holding.cost /\ h.target = d.holding.target /\ h.quantity = d.holding.quantity
         /\ h.status = d.holding.status /\ h.graded = d.holding.graded /\ h.newest = d.holding.newest
         /\ h.wishes = d.holding.wishes /\ h.events = d.holding.events /\ h.tags = d.holding.tags
         /\ h.groups = d.holding.groups
BY DEF At, IsDecision

LEMMA LatestFloor ==
  ASSUME NEW d, IsDecision(d), NEW p \in Nat
  PROVE  LET card == At(d.holding, p).card IN
         /\ card.floor # <<>> /\ Advice!Latest(card.floor) = p /\ Advice!Value(card) = p
<1>1. At(d.holding, p).card.floor = <<[price |-> p, age |-> 0]>>
  BY OnlyTheFloor
<1>2. Advice!Last(<<[price |-> p, age |-> 0]>>) = [price |-> p, age |-> 0]
  BY DEF Advice!Last
<1>3. QED
  BY <1>1, <1>2 DEF Advice!Latest, Advice!Value

\* A holding is worth no less at a higher floor, or the same if a grading gave
\* it its value, and it cost what it cost.
LEMMA ValuesGrow ==
  ASSUME NEW d, IsDecision(d), NEW low \in Nat, NEW high \in Nat, low <= high, NEW mode
  PROVE  LET h == At(d.holding, low)
             more == At(d.holding, high) IN
         /\ Advice!AboveTarget(h) => Advice!AboveTarget(more)
         /\ Advice!Cost(h) = Advice!Cost(more) /\ Advice!Cost(h) \in Known(Nat)
         /\ Advice!None \notin {Advice!CurrentValue(h, mode), Advice!CurrentValue(more, mode)}
         /\ \/ Advice!CurrentValue(h, mode) = Advice!CurrentValue(more, mode)
            \/ /\ Advice!CurrentValue(h, mode) \in Nat /\ Advice!CurrentValue(more, mode) \in Nat
               /\ Advice!CurrentValue(h, mode) <= Advice!CurrentValue(more, mode)
<1> DEFINE h == At(d.holding, low)
           more == At(d.holding, high)
<1>1. Advice!None = -1000000 /\ Copy!None = -1000000
  BY DEF Advice!None, Copy!None
<1>2. /\ h.cost = d.holding.cost /\ h.target = d.holding.target /\ h.quantity = d.holding.quantity /\ h.graded = d.holding.graded
      /\ more.cost = d.holding.cost /\ more.target = d.holding.target /\ more.quantity = d.holding.quantity
      /\ more.graded = d.holding.graded
  BY ZenonT(30), OnlyTheFloor
<1>3. /\ Advice!Latest(h.card.floor) = low /\ Advice!Value(h.card) = low
      /\ Advice!Latest(more.card.floor) = high /\ Advice!Value(more.card) = high
  BY LatestFloor
<1>4. d.holding.quantity \in Nat /\ d.holding.cost \in Known(Nat) /\ d.holding.target \in Known(Nat)
  BY DEF IsDecision
<1> HIDE DEF h, more
<1>5. Advice!AboveTarget(h) => Advice!AboveTarget(more)
  BY <1>1, <1>2, <1>3, <1>4 DEF Advice!AboveTarget, Known
<1>6. Advice!Cost(h) = Advice!Cost(more) /\ Advice!Cost(h) \in Known(Nat)
  <2>1. \A a, b \in Nat : a * b \in Nat
    OBVIOUS
  <2>2. QED
    BY <1>1, <1>2, <1>4, <2>1 DEF Advice!Cost, Advice!Worth, Known
<1>7. /\ Advice!Worth(h, low) \in Nat /\ Advice!Worth(more, high) \in Nat
      /\ Advice!Worth(h, low) <= Advice!Worth(more, high)
  <2>1. \A q \in Nat : low * q \in Nat /\ high * q \in Nat /\ low * q <= high * q
    OBVIOUS
  <2>2. Advice!Worth(h, low) = low * d.holding.quantity /\ Advice!Worth(more, high) = high * d.holding.quantity
    BY <1>1, <1>2 DEF Advice!Worth
  <2>3. QED
    BY <1>4, <2>1, <2>2
<1>8. CASE mode = "graded_adjusted" /\ h.graded # <<>> /\ Head(h.graded).status = "received" /\ Head(h.graded).value # Advice!None
  <2>1. /\ Advice!CurrentValue(h, mode) = Head(d.holding.graded).value
        /\ Advice!CurrentValue(more, mode) = Head(d.holding.graded).value
    BY <1>2, <1>8 DEF Advice!CurrentValue, Advice!Adjusted
  <2>2. QED
    BY <1>2, <1>5, <1>6, <1>8, <2>1 DEF h, more
<1>9. CASE ~(mode = "graded_adjusted" /\ h.graded # <<>> /\ Head(h.graded).status = "received" /\ Head(h.graded).value # Advice!None)
  <2>1. Advice!CurrentValue(h, mode) = Advice!Worth(h, low) /\ Advice!CurrentValue(more, mode) = Advice!Worth(more, high)
    BY <1>2, <1>3, <1>9 DEF Advice!CurrentValue, Advice!Adjusted
  <2>2. QED
    BY <1>1, <1>5, <1>6, <1>7, <2>1 DEF h, more
<1>10. QED
  BY <1>8, <1>9

\* The percentages that the scores look at.
LEMMA GainsGrow ==
  ASSUME NEW d, IsDecision(d), NEW low \in Nat, NEW high \in Nat, low <= high, NEW mode
  PROVE  LET gain(h) == Advice!Change(Advice!CurrentValue(h, mode), Advice!Cost(h), Advice!Cost(h))
             less == gain(At(d.holding, low))
             more == gain(At(d.holding, high)) IN
         less = more \/ (less \in Int /\ more \in Int /\ less <= more)
BY ValuesGrow, ChangesGrow

LEMMA GapsGrow ==
  ASSUME NEW d, IsDecision(d), NEW low \in Nat, NEW high \in Nat, low <= high
  PROVE  LET less == Advice!GapPct(At(d.holding, low).card)
             more == Advice!GapPct(At(d.holding, high).card) IN
         less \in Int /\ more \in Int /\ less <= more /\ (less = Advice!None <=> more = Advice!None)
<1> DEFINE h == At(d.holding, low)
           more == At(d.holding, high)
<1>1. h.card.sell = d.holding.card.sell /\ more.card.sell = d.holding.card.sell
  BY OnlyTheFloor
<1>2. Advice!Latest(h.card.floor) = low /\ Advice!Latest(more.card.floor) = high
  BY LatestFloor
<1>3. Advice!Latest(d.holding.card.sell) \in Known(Nat)
  <2>1. d.holding.card.sell \in Seq([price : Nat, age : Nat])
    BY DEF IsDecision
  <2>2. CASE d.holding.card.sell = <<>>
    BY <2>2 DEF Advice!Latest, Known, Advice!None, Copy!None
  <2>3. CASE d.holding.card.sell # <<>>
    <3>1. PICK s \in Seq([price : Nat, age : Nat]) : s = d.holding.card.sell
      BY <2>1
    <3>2. Len(s) \in 1..Len(s)
      BY <2>3, <3>1
    <3>3. s[Len(s)] \in [price : Nat, age : Nat]
      BY <3>1, <3>2, ElementOfSeq
    <3>4. Advice!Latest(s) = s[Len(s)].price
      BY <2>3, <3>1 DEF Advice!Latest, Advice!Last
    <3>5. QED
      BY <3>1, <3>3, <3>4 DEF Known
  <2>4. QED
    BY <2>2, <2>3
<1> HIDE DEF h, more
<1>4. /\ Advice!GapPct(h.card) = Advice!Change(low, Advice!Latest(d.holding.card.sell), Advice!Latest(d.holding.card.sell))
      /\ Advice!GapPct(more.card) = Advice!Change(high, Advice!Latest(d.holding.card.sell), Advice!Latest(d.holding.card.sell))
  BY <1>1, <1>2 DEF Advice!GapPct
<1>5. QED
  BY <1>3, <1>4, ChangesGrow DEF h, more

\* All else the same, nothing is worth less to sell at a higher floor.
LEMMA SellScoresGrow ==
  ASSUME NEW d, IsDecision(d), NEW low \in Nat, NEW high \in Nat, low <= high, NEW mode
  PROVE  LET less == Advice!SellScore(At(d.holding, low), mode)
             more == Advice!SellScore(At(d.holding, high), mode) IN
         less \in Nat /\ more \in Nat /\ less <= more
<1> DEFINE h == At(d.holding, low)
           k == At(d.holding, high)
           gain(i) == Advice!Change(Advice!CurrentValue(i, mode), Advice!Cost(i), Advice!Cost(i))
           sum(i) == Advice!Points(Advice!AboveTarget(i), 35) + Advice!Points(gain(i) >= 5000, 20)
                       + Advice!Points(gain(i) >= 10000, 30) + Advice!Points(Advice!GapPct(i.card) >= 1000, 15)
<1>1. /\ h.cost = d.holding.cost /\ h.status = d.holding.status /\ h.tags = d.holding.tags /\ h.groups = d.holding.groups
      /\ h.graded = d.holding.graded /\ h.newest = d.holding.newest /\ h.wishes = d.holding.wishes
      /\ h.events = d.holding.events /\ h.card.sell = d.holding.card.sell /\ h.card.buy = d.holding.card.buy
  BY OnlyTheFloor
<1>2. /\ k.cost = d.holding.cost /\ k.status = d.holding.status /\ k.tags = d.holding.tags /\ k.groups = d.holding.groups
      /\ k.graded = d.holding.graded /\ k.newest = d.holding.newest /\ k.wishes = d.holding.wishes
      /\ k.events = d.holding.events /\ k.card.sell = d.holding.card.sell /\ k.card.buy = d.holding.card.buy
  BY OnlyTheFloor
<1> HIDE DEF h, k
<1>3. Advice!OwnedOpportunities(h) = Advice!OwnedOpportunities(k)
  BY <1>1, <1>2 DEF Advice!OwnedOpportunities
<1>4. Advice!SpreadPct(h.card) = Advice!SpreadPct(k.card)
  BY <1>1, <1>2 DEF Advice!SpreadPct
<1>5. (Advice!InGrading(h) <=> Advice!InGrading(k)) /\ (Advice!HighlyWished(h) <=> Advice!HighlyWished(k))
  BY <1>1, <1>2 DEF Advice!InGrading, Advice!HighlyWished
<1>6. Advice!CurrentValue(h, mode) # Advice!None /\ Advice!CurrentValue(k, mode) # Advice!None
  BY ValuesGrow DEF h, k
<1>7. sum(h) \in Nat /\ sum(k) \in Nat /\ sum(h) <= sum(k)
  <2>1. Advice!AboveTarget(h) => Advice!AboveTarget(k)
    BY ValuesGrow DEF h, k
  <2>2. gain(h) = gain(k) \/ (gain(h) \in Int /\ gain(k) \in Int /\ gain(h) <= gain(k))
    BY GainsGrow DEF h, k
  <2>3. /\ Advice!GapPct(h.card) \in Int /\ Advice!GapPct(k.card) \in Int
        /\ Advice!GapPct(h.card) <= Advice!GapPct(k.card)
    BY GapsGrow DEF h, k
  <2> HIDE DEF gain
  <2>4. (gain(h) >= 5000 => gain(k) >= 5000) /\ (gain(h) >= 10000 => gain(k) >= 10000)
    BY <2>2
  <2>5. Advice!GapPct(h.card) >= 1000 => Advice!GapPct(k.card) >= 1000
    BY <2>3
  <2>6. QED
    BY <2>1, <2>4, <2>5 DEF Advice!Points
<1> DEFINE rest(i) ==
             Advice!Points(Advice!SpreadPct(i.card) # Advice!None /\ Advice!SpreadPct(i.card) <= 2000, 15)
             + Advice!Points(\E n \in DOMAIN Advice!OwnedOpportunities(i) :
                               Advice!OwnedOpportunities(i)[n].action = "review_sell_opportunity", 25)
             + Advice!Points(Advice!Best(Advice!OwnedOpportunities(i)) >= 70, 15)
             + Advice!Points(i.status = "sell", 20) + Advice!Points("sell" \in i.tags, 10)
             - Advice!Points(Advice!InGrading(i), 25)
             + Advice!Points(i.graded # <<>> /\ i.graded[i.newest].status = "received" /\ i.graded[i.newest].value # Advice!None, 10)
             - Advice!Points(i.cost = Advice!None, 20) - Advice!Points(Advice!CurrentValue(i, mode) = Advice!None, 30)
             - Advice!Points(Advice!HighlyWished(i), 10)
             - Advice!Points("hold" \in i.tags \union i.groups, 15)
<1>8. rest(h) \in Int /\ rest(h) = rest(k)
  BY <1>1, <1>2, <1>3, <1>4, <1>5, <1>6 DEF Advice!Points
<1>9. \A i : /\ sum(i) \in Int /\ rest(i) \in Int
             /\ Advice!SellScore(i, mode) = Advice!Clamped(sum(i) + rest(i))
  BY DEF Advice!SellScore, Advice!Points
<1> HIDE DEF sum, rest
<1>10. /\ Advice!SellScore(h, mode) = Advice!Clamped(sum(h) + rest(h))
       /\ Advice!SellScore(k, mode) = Advice!Clamped(sum(k) + rest(k))
  BY <1>9
<1>11. QED
  BY <1>7, <1>8, <1>10 DEF Advice!Clamped, h, k

\* Advice to sell is not withdrawn at a higher floor.
LEMMA SellAdviceGrows ==
  ASSUME NEW d, IsDecision(d), NEW low \in Nat, NEW high \in Nat, low <= high, NEW mode
  PROVE  LET less == Advice!SellAction(At(d.holding, low), mode)
             more == Advice!SellAction(At(d.holding, high), mode) IN
         less \in DOMAIN Advice!Advice /\ more \in DOMAIN Advice!Advice => Advice!Advice[less] <= Advice!Advice[more]
<1> DEFINE h == At(d.holding, low)
           k == At(d.holding, high)
<1>1. /\ h.cost = k.cost /\ h.tags = k.tags /\ h.groups = k.groups
      /\ h.graded = k.graded /\ h.newest = k.newest /\ h.wishes = k.wishes
  <2>1. /\ h.cost = d.holding.cost /\ h.tags = d.holding.tags /\ h.groups = d.holding.groups
        /\ h.graded = d.holding.graded /\ h.newest = d.holding.newest /\ h.wishes = d.holding.wishes
    BY OnlyTheFloor
  <2>2. /\ k.cost = d.holding.cost /\ k.tags = d.holding.tags /\ k.groups = d.holding.groups
        /\ k.graded = d.holding.graded /\ k.newest = d.holding.newest /\ k.wishes = d.holding.wishes
    BY OnlyTheFloor
  <2>3. QED
    BY ONLY <2>1, <2>2
<1>2. (Advice!AboveTarget(h) => Advice!AboveTarget(k)) /\ Advice!None \notin {Advice!CurrentValue(h, mode), Advice!CurrentValue(k, mode)}
  BY ValuesGrow
<1>3. /\ Advice!SellScore(h, mode) \in Nat /\ Advice!SellScore(k, mode) \in Nat
      /\ Advice!SellScore(h, mode) <= Advice!SellScore(k, mode)
  BY SellScoresGrow
<1> HIDE DEF h, k
<1>4. (Advice!InGrading(h) <=> Advice!InGrading(k)) /\ (Advice!HighlyWished(h) <=> Advice!HighlyWished(k))
  BY <1>1 DEF Advice!InGrading, Advice!HighlyWished
<1>5. /\ Advice!Advice["hold"] = 1 /\ Advice!Advice["monitor"] = 2 /\ Advice!Advice["review_sell"] = 3
      /\ "missing_data" \notin DOMAIN Advice!Advice /\ "grade_first" \notin DOMAIN Advice!Advice
  BY DEF Advice!Advice
<1>6. QED
  BY <1>1, <1>2, <1>3, <1>4, <1>5 DEF Advice!SellAction, Advice!SellAdvice, h, k

\* The price that a wish looks at is no lower at a higher floor.
LEMMA PreferredGrows ==
  ASSUME NEW d, IsDecision(d), NEW low \in Nat, NEW high \in Nat, low <= high, NEW wish, NEW preference
  PROVE  LET less == Advice!CurrentPrice(At(d.holding, low).card, wish, preference)
             more == Advice!CurrentPrice(At(d.holding, high).card, wish, preference) IN
         less = more \/ (less \in Nat /\ more \in Nat /\ less <= more)
<1> DEFINE h == At(d.holding, low)
           k == At(d.holding, high)
<1>1. h.card.sell = k.card.sell
  <2>1. \A p : At(d.holding, p).card.sell = d.holding.card.sell
    BY OnlyTheFloor
  <2>2. QED
    BY <2>1
<1>2. /\ Advice!Latest(h.card.floor) = low /\ Advice!Value(h.card) = low
      /\ Advice!Latest(k.card.floor) = high /\ Advice!Value(k.card) = high
  BY LatestFloor
<1> HIDE DEF h, k
<1>3. \A source : LET less == Advice!PreferredPrice(h.card, source)
                      more == Advice!PreferredPrice(k.card, source) IN
                  less = more \/ (less \in Nat /\ more \in Nat /\ less <= more)
  BY <1>1, <1>2 DEF Advice!PreferredPrice
<1>4. QED
  BY <1>3 DEF Advice!CurrentPrice, h, k

LEMMA BuyPartsShrink ==
  ASSUME NEW d, IsDecision(d), NEW low \in Nat, NEW high \in Nat, low <= high, NEW preference
  PROVE  LET h == At(d.holding, low).card
             k == At(d.holding, high).card
             price(card) == Advice!CurrentPrice(card, d.wish, preference) IN
         /\ price(h) = Advice!None <=> price(k) = Advice!None
         /\ price(h) # Advice!None /\ d.wish.max # Advice!None /\ price(h) > d.wish.max => price(k) > d.wish.max
         /\ Advice!TargetHit(k, d.wish, preference) => Advice!TargetHit(h, d.wish, preference)
<1> DEFINE h == At(d.holding, low).card
           k == At(d.holding, high).card
           price(card) == Advice!CurrentPrice(card, d.wish, preference)
<1>1. Advice!None = -1000000 /\ Copy!None = -1000000
  BY DEF Advice!None, Copy!None
<1>2. price(h) = price(k) \/ (price(h) \in Nat /\ price(k) \in Nat /\ price(h) <= price(k))
  BY PreferredGrows
<1>3. d.wish.target \in Known(Nat) /\ d.wish.max \in Known(Nat)
  BY DEF IsDecision
<1>4. \A card : Advice!TargetHit(card, d.wish, preference)
                  <=> Advice!None \notin {price(card), d.wish.target} /\ price(card) <= d.wish.target
  BY DEF Advice!TargetHit
<1> HIDE DEF h, k, price
<1>5. /\ price(h) = Advice!None <=> price(k) = Advice!None
      /\ price(h) # Advice!None /\ d.wish.max # Advice!None /\ price(h) > d.wish.max => price(k) > d.wish.max
  BY <1>1, <1>2, <1>3 DEF Known
<1>6. Advice!TargetHit(k, d.wish, preference) => Advice!TargetHit(h, d.wish, preference)
  BY <1>1, <1>2, <1>3, <1>4 DEF Known
<1>7. QED
  BY <1>5, <1>6 DEF h, k, price

\* All else the same, nothing is more worth buying at a higher floor.
LEMMA BuyScoresShrink ==
  ASSUME NEW d, IsDecision(d), NEW low \in Nat, NEW high \in Nat, low <= high, NEW events, NEW preference
  PROVE  LET more == Advice!BuyScore(At(d.holding, low).card, d.wish, events, preference)
             less == Advice!BuyScore(At(d.holding, high).card, d.wish, events, preference) IN
         less \in Nat /\ more \in Nat /\ less <= more
<1> DEFINE h == At(d.holding, low).card
           k == At(d.holding, high).card
           seen(type) == \E i \in DOMAIN Advice!Opportunities(events) : Advice!Opportunities(events)[i].type = type
           sum(card) == Advice!Points(Advice!TargetHit(card, d.wish, preference), 40)
                        + Advice!Points(Advice!GapPct(card) # Advice!None /\ Advice!GapPct(card) <= -1000, 20)
           rest(card) == Advice!Points(d.wish.priority = "grail", 25) + Advice!Points(d.wish.priority = "high", 15)
                         + Advice!Points(d.wish.priority = "medium", 5)
                         + Advice!Points(Advice!SpreadPct(card) # Advice!None /\ Advice!SpreadPct(card) <= 2000, 10)
                         + Advice!Points(seen("price_down_7d"), 10) + Advice!Points(seen("price_down_30d"), 15)
                         + Advice!Points(Advice!Best(Advice!BuyOpportunities(events)) >= 70, 15)
                         - Advice!Points(Advice!Fulfilled(d.wish), 30) - Advice!Points(d.wish.status = "purchased", 40)
                         - Advice!Points(d.wish.status = "passed", 20)
                         - Advice!Points(Advice!CurrentPrice(card, d.wish, preference) = Advice!None, 35)
                         - Advice!Points(d.wish.target = Advice!None, 10)
                         + Advice!Points("grail" \in d.wish.words, 10) - Advice!Points("avoid" \in d.wish.words, 25)
<1>1. Advice!SpreadPct(h) = Advice!SpreadPct(k)
  <2>1. h.sell = d.holding.card.sell /\ h.buy = d.holding.card.buy
    BY OnlyTheFloor
  <2>2. k.sell = d.holding.card.sell /\ k.buy = d.holding.card.buy
    BY OnlyTheFloor
  <2>3. QED
    BY ONLY <2>1, <2>2 DEF Advice!SpreadPct
<1>2. /\ Advice!CurrentPrice(h, d.wish, preference) = Advice!None <=> Advice!CurrentPrice(k, d.wish, preference) = Advice!None
      /\ Advice!TargetHit(k, d.wish, preference) => Advice!TargetHit(h, d.wish, preference)
  BY BuyPartsShrink
<1>3. /\ Advice!GapPct(h) \in Int /\ Advice!GapPct(k) \in Int /\ Advice!GapPct(h) <= Advice!GapPct(k)
      /\ Advice!GapPct(h) = Advice!None <=> Advice!GapPct(k) = Advice!None
  BY GapsGrow
<1> HIDE DEF h, k, seen
<1>4. sum(h) \in Nat /\ sum(k) \in Nat /\ sum(k) <= sum(h)
  BY <1>2, <1>3 DEF Advice!Points
<1>5. rest(h) \in Int /\ rest(h) = rest(k)
  BY <1>1, <1>2 DEF Advice!Points
<1>6. \A card : Advice!BuyScore(card, d.wish, events, preference) = Advice!Clamped(sum(card) + rest(card))
  BY DEF Advice!BuyScore, Advice!Points, seen
<1> HIDE DEF sum, rest
<1>7. /\ Advice!BuyScore(h, d.wish, events, preference) = Advice!Clamped(sum(h) + rest(h))
      /\ Advice!BuyScore(k, d.wish, events, preference) = Advice!Clamped(sum(k) + rest(k))
  BY <1>6
<1>8. QED
  BY <1>4, <1>5, <1>7 DEF Advice!Clamped, h, k

\* Advice to buy is not given at a higher floor if it was to wait or watch.
LEMMA BuyAdviceShrinks ==
  ASSUME NEW d, IsDecision(d), NEW low \in Nat, NEW high \in Nat, low <= high, NEW events, NEW preference
  PROVE  LET more == Advice!BuyAction(At(d.holding, low).card, d.wish, events, preference, TRUE, TRUE)
             less == Advice!BuyAction(At(d.holding, high).card, d.wish, events, preference, TRUE, TRUE) IN
         more \in DOMAIN Advice!Advice /\ less \in DOMAIN Advice!Advice => Advice!Advice[more] >= Advice!Advice[less]
<1> DEFINE h == At(d.holding, low).card
           k == At(d.holding, high).card
           price(card) == Advice!CurrentPrice(card, d.wish, preference)
           score(card) == Advice!BuyScore(card, d.wish, events, preference)
           hit(card) == Advice!TargetHit(card, d.wish, preference)
<1>1. /\ price(h) = Advice!None <=> price(k) = Advice!None
      /\ price(h) # Advice!None /\ d.wish.max # Advice!None /\ price(h) > d.wish.max => price(k) > d.wish.max
      /\ hit(k) => hit(h)
  BY BuyPartsShrink
<1>2. score(h) \in Nat /\ score(k) \in Nat /\ score(k) <= score(h)
  BY BuyScoresShrink
<1>3. \A card : Advice!BuyAction(card, d.wish, events, preference, TRUE, TRUE) =
                  IF price(card) = Advice!None THEN "missing_data"
                  ELSE IF d.wish.status = "passed" \/ d.wish.status = "purchased" THEN "skip"
                  ELSE IF hit(card) \/ score(card) >= 70 THEN "review_buy"
                  ELSE IF d.wish.max # Advice!None /\ price(card) > d.wish.max THEN "wait" ELSE "monitor"
  BY DEF Advice!BuyAction
<1> DEFINE action(card) == Advice!BuyAction(card, d.wish, events, preference, TRUE, TRUE)
           rank(card) == Advice!Advice[action(card)]
<1>4. \A card : action(card) \in DOMAIN Advice!Advice =>
                  \/ (hit(card) \/ score(card) >= 70) /\ rank(card) = 3
                  \/ ~(hit(card) \/ score(card) >= 70) /\ d.wish.max # Advice!None /\ price(card) > d.wish.max /\ rank(card) = 1
                  \/ ~(hit(card) \/ score(card) >= 70) /\ ~(d.wish.max # Advice!None /\ price(card) > d.wish.max) /\ rank(card) = 2
  <2>1. /\ Advice!Advice["wait"] = 1 /\ Advice!Advice["monitor"] = 2 /\ Advice!Advice["review_buy"] = 3
        /\ "missing_data" \notin DOMAIN Advice!Advice /\ "skip" \notin DOMAIN Advice!Advice
    BY DEF Advice!Advice
  <2> HIDE DEF price, score, hit
  <2>2. QED
    BY <1>3, <2>1
<1>5. \A card : price(card) = Advice!None => action(card) \notin DOMAIN Advice!Advice
  <2>1. "missing_data" \notin DOMAIN Advice!Advice
    BY DEF Advice!Advice
  <2>2. QED
    BY <1>3, <2>1
<1> HIDE DEF h, k, price, score, hit, action, rank
<1>6. action(h) \in DOMAIN Advice!Advice /\ action(k) \in DOMAIN Advice!Advice => rank(h) >= rank(k)
  BY <1>1, <1>2, <1>4, <1>5
<1>7. QED
  BY <1>6 DEF h, k, action, rank

LEMMA AdviceFollowsPrices ==
  ASSUME NEW d, IsDecision(d)
  PROVE  Advice!AdviceIsMonotone(d.holding, d.wish, d.holding.events, d.low, d.high)
<1>1. d.low \in Nat /\ d.high \in Nat
  BY DEF IsDecision
<1>2. \A price : At(d.holding, price) = [d.holding EXCEPT !.card.floor = <<[price |-> price, age |-> 0]>>]
  BY DEF At
<1>3. ASSUME d.low < d.high
      PROVE  /\ \A mode \in {"raw_market", "graded_adjusted"} :
                  /\ Advice!SellScore(At(d.holding, d.low), mode) <= Advice!SellScore(At(d.holding, d.high), mode)
                  /\ LET action(price) == Advice!SellAction(At(d.holding, price), mode) IN
                     action(d.low) \in DOMAIN Advice!Advice /\ action(d.high) \in DOMAIN Advice!Advice
                       => Advice!Advice[action(d.low)] <= Advice!Advice[action(d.high)]
             /\ \A preference \in {"auto", "snkrdunk", "yuyutei"} :
                  LET action(price) ==
                        Advice!BuyAction(At(d.holding, price).card, d.wish, d.holding.events, preference, TRUE, TRUE) IN
                  /\ Advice!BuyScore(At(d.holding, d.low).card, d.wish, d.holding.events, preference)
                       >= Advice!BuyScore(At(d.holding, d.high).card, d.wish, d.holding.events, preference)
                  /\ action(d.low) \in DOMAIN Advice!Advice /\ action(d.high) \in DOMAIN Advice!Advice
                       => Advice!Advice[action(d.low)] >= Advice!Advice[action(d.high)]
  <2>1. d.low <= d.high
    BY <1>1, <1>3
  <2>2. \A mode : /\ Advice!SellScore(At(d.holding, d.low), mode) \in Nat /\ Advice!SellScore(At(d.holding, d.high), mode) \in Nat
                  /\ Advice!SellScore(At(d.holding, d.low), mode) <= Advice!SellScore(At(d.holding, d.high), mode)
    BY <1>1, <2>1, SellScoresGrow
  <2>3. \A preference :
          /\ Advice!BuyScore(At(d.holding, d.low).card, d.wish, d.holding.events, preference) \in Nat
          /\ Advice!BuyScore(At(d.holding, d.high).card, d.wish, d.holding.events, preference) \in Nat
          /\ Advice!BuyScore(At(d.holding, d.high).card, d.wish, d.holding.events, preference)
               <= Advice!BuyScore(At(d.holding, d.low).card, d.wish, d.holding.events, preference)
    BY <1>1, <2>1, BuyScoresShrink
  <2>4. \A mode :
          LET action(price) == Advice!SellAction(At(d.holding, price), mode) IN
          action(d.low) \in DOMAIN Advice!Advice /\ action(d.high) \in DOMAIN Advice!Advice
            => Advice!Advice[action(d.low)] <= Advice!Advice[action(d.high)]
    BY <1>1, <2>1, SellAdviceGrows
  <2>5. \A preference :
          LET action(price) ==
                Advice!BuyAction(At(d.holding, price).card, d.wish, d.holding.events, preference, TRUE, TRUE) IN
          action(d.low) \in DOMAIN Advice!Advice /\ action(d.high) \in DOMAIN Advice!Advice
            => Advice!Advice[action(d.low)] >= Advice!Advice[action(d.high)]
    BY <1>1, <2>1, BuyAdviceShrinks
  <2>6. QED
    BY <2>2, <2>3, <2>4, <2>5
<1>4. QED
  BY <1>2, <1>3 DEF Advice!AdviceIsMonotone

-----------------------------------------------------------------------------
(***************************************************************************)
(* Behaviours                                                              *)
(***************************************************************************)
Picked == input = Null \/ (kind \in DOMAIN Inputs /\ input \in Inputs[kind])

LEMMA AlwaysPicked == CalculationsSpec => []Picked
<1> DEFINE Open == kind \in DOMAIN Inputs /\ (input = Null \/ input \in Inputs[kind])
<1>1. CalculationsInit => Open
  BY DEF CalculationsInit
<1>2. Open /\ [CalculationsNext]_<<kind, input>> => Open'
  BY DEF CalculationsNext
<1>3. Open => Picked
  BY DEF Picked
<1>4. QED
  BY <1>1, <1>2, <1>3, PTL DEF CalculationsSpec

LEMMA GivenIsPicked ==
  ASSUME Picked, NEW k, Given(k)
  PROVE  kind = k /\ input \in Inputs[k]
BY DEF Picked, Given

\* No score merges, lists or suggests what is not the same card, no merge loses
\* text, no order of the database decides, no tier matches what another card
\* could have been, and no mapping is "ok" that does not name its card: for all
\* pairs, rankings of any length, catalogs of any size and all mappings.
THEOREM SureAlwaysMeansSame == CalculationsSpec => []SureMeansSame
<1> USE CalculationsAssumption
<1>1. Picked => SureMeansSame
  <2> SUFFICES ASSUME Picked PROVE SureMeansSame
    OBVIOUS
  <2>1. Given("pair") => Duplicates!SureIsSame(input) /\ Duplicates!SureIsListed(input)
    BY GivenIsPicked, DuplicatesAreSame, DuplicatesAreListed
  <2>2. Given("field") =>
          \A strategy \in Duplicates!Strategies : Duplicates!NothingLost(strategy, input.source, input.target)
    BY GivenIsPicked, FieldsLoseNothing
  <2>3. Given("listing") => Listing!SuggestedIsAlike(input)
    BY GivenIsPicked, SuggestionsAreAlike
  <2>4. Given("ranking") => Listing!OrderIsIdle(input)
    BY GivenIsPicked, RankingsAreIdle
  <2>5. Given("match") => Listing!MatchIsCertain(input.cards, input.graded, input.fuzzy)
    BY GivenIsPicked, MatchesAreCertain
  <2>6. Given("mapping") => Listing!OkIsSure(input)
    BY GivenIsPicked, MappingsAreSure
  <2>7. QED
    BY <2>1, <2>2, <2>3, <2>4, <2>5, <2>6 DEF SureMeansSame
<1>2. QED
  BY <1>1, AlwaysPicked, PTL

\* Related answers stay in agreement: for a card with price series, items and
\* mappings of any number and any amounts and ages, an event of any metric,
\* every environment, a holding advised at any two floors, and a catalog of any
\* size with mappings, prices and runs of any number.
THEOREM AnswersAlwaysAgree == CalculationsSpec => []AnswersAgree
<1> USE CalculationsAssumption
<1>1. Picked => AnswersAgree
  <2> SUFFICES ASSUME Picked PROVE AnswersAgree
    OBVIOUS
  <2>1. Given("market") => Copy!SignalsAgree(input)
    BY GivenIsPicked, AllSignalsAgree
  <2>2. Given("event") => Copy!ScoresAgree(input)
    BY GivenIsPicked, EventScoresAgree
  <2>3. Given("environment") => Startup!SweepsAgree(input) /\ Startup!StartedIsSafe(input) /\ Startup!PassedStarts(input)
    BY GivenIsPicked, AllSweepsAgree, AllStartedIsSafe, AllPassedStart
  <2>4. Given("decision") =>
          Advice!AdviceIsMonotone(input.holding, input.wish, input.holding.events, input.low, input.high)
    BY GivenIsPicked, AdviceFollowsPrices
  <2>5. Given("world") =>
          /\ Review!Prices!FreshnessAgrees(input) /\ Review!Prices!GapsAddUp(input)
          /\ \A inactive_too \in BOOLEAN : Review!Prices!CountsAreGaps(input, inactive_too)
          /\ Review!Prices!HealthIsEarned(input) /\ Review!SourcesAreShown(input)
    BY GivenIsPicked, AllFreshnessAgrees, AllGapsAddUp, AllCountsAreGaps, AllHealthEarned, AllSourcesShown
  <2>6. Given("audit") =>
          Review!AuditIsShown(input, Surroundings) /\ Review!RecheckAgrees(input) /\ Review!MergesPassAudit(input)
    BY GivenIsPicked, AuditsAreShown, RechecksAgree, MergesPass
  <2>7. QED
    BY <2>1, <2>2, <2>3, <2>4, <2>5, <2>6 DEF AnswersAgree
<1>2. QED
  BY <1>1, AlwaysPicked, PTL

-----------------------------------------------------------------------------
(***************************************************************************)
(* SignalEvents: types                                                     *)
(***************************************************************************)
Snapshots ==
  [step : {"idle", "reading", "flushed", "deciding"}, keys : SUBSET Keys,
   todo : SUBSET Keys, read : [Keys -> Events], gone : SUBSET Keys]

Asked == [key : Keys \union {NoKey}, req : Requests \union {NoRequest.req}, seen : Events]

\* A snapshot that is typed and consistent, as TypeOK asks of every one.
Tidy(x) == x \in Snapshots /\ x.todo \subseteq x.keys /\ x.gone \intersect x.keys = {}

LEMMA EventConstants == NoEvent \in Events /\ NewEvent \in Events /\ Tidy(Idle) /\ NoRequest \in Asked
<1>1. NoEvent \in Events /\ NewEvent \in Events
  BY DEF NoEvent, NewEvent, Events, Statuses
<1>2. Tidy(Idle)
  BY <1>1 DEF Tidy, Idle, Snapshots
<1>3. NoRequest \in Asked
  BY <1>1 DEF NoRequest, Asked
<1>4. QED
  BY <1>1, <1>2, <1>3

LEMMA TypeOKParts ==
  TypeOK <=>
    /\ event \in [Keys -> Events]
    /\ present \in SUBSET Keys
    /\ snap \in [Snappers -> Snapshots] /\ \A s \in Snappers : Tidy(snap[s])
    /\ user \in [Users -> Asked]
    /\ doomed \in SUBSET Keys
    /\ quiet \in SUBSET Keys
  BY DEF TypeOK, Tidy, Snapshots, Asked

\* What a snapshot or a request writes is an event.
LEMMA SeenTyped ==
  ASSUME NEW row \in Events, NEW read \in Events
  PROVE  Seen(row, read) \in Events
<1>1. CASE read = NoEvent
  BY <1>1, EventConstants DEF Seen
<1>2. CASE read # NoEvent
  <2>1. Seen(row, read) =
          [row EXCEPT !.old = FALSE,
                      !.status = IF read.status = "resolved" THEN "open" ELSE row.status,
                      !.resolved = row.resolved /\ ~(read.status = "resolved" /\ read.resolved)]
    BY <1>2 DEF Seen
  <2>2. (row.resolved /\ ~(read.status = "resolved" /\ read.resolved)) \in BOOLEAN
    BY DEF Events
  <2>3. QED
    BY <2>1, <2>2 DEF Events, Statuses
<1>3. QED
  BY <1>1, <1>2

LEMMA WrittenTyped ==
  ASSUME NEW row \in Events, NEW seen \in Events, NEW req \in Requests \union {NoRequest.req}
  PROVE  Written(row, seen, req) \in Events
<1>1. CASE row = NoEvent
  BY <1>1 DEF Written
<1>2. CASE row # NoEvent
  <2> DEFINE d == Stamp(row.dismissed, seen.dismissed, req, "dismissed", "resolved")
             r == Stamp(row.resolved, seen.resolved, req, "resolved", "dismissed")
             t == IF seen.status = req.status THEN row.status ELSE req.status
  <2>1. /\ row.dismissed \in BOOLEAN /\ row.resolved \in BOOLEAN
        /\ seen.dismissed \in BOOLEAN /\ seen.resolved \in BOOLEAN
    BY DEF Events
  <2>2. d \in BOOLEAN
    BY <2>1, Zenon DEF Stamp
  <2>3. r \in BOOLEAN
    BY <2>1, Zenon DEF Stamp
  <2>4. t \in Statuses \union {"none"}
    <3>1. CASE req \in Requests
      <4>1. req.status \in Statuses
        BY <3>1, SignalEventsAssumption DEF Requests, Statuses
      <4>2. QED
        BY <4>1 DEF Events
    <3>2. CASE req = NoRequest.req
      <4>1. req.status = "dismissed"
        BY <3>2 DEF NoRequest
      <4>2. QED
        BY <4>1 DEF Events, Statuses
    <3>3. QED
      BY <3>1, <3>2
  <2>5. Written(row, seen, req) =
          [row EXCEPT !.status = t, !.dismissed = d, !.resolved = r]
    BY <1>2, Zenon DEF Written
  <2> HIDE DEF d, r, t
  <2>6. QED
    BY <2>2, <2>3, <2>4, <2>5 DEF Events
<1>3. QED
  BY <1>1, <1>2

\* Every reachable state is well typed; no snapshot resolves what it has seen.
THEOREM EventsTypeCorrect == Spec => []TypeOK
<1>1. Init => TypeOK
  BY EventConstants, TypeOKParts DEF Init, Tidy
<1>2. TypeOK /\ [Next]_vars => TypeOK'
  <2> SUFFICES ASSUME TypeOK, [Next]_vars PROVE TypeOK'
    OBVIOUS
  <2>0. /\ event \in [Keys -> Events] /\ present \in SUBSET Keys
        /\ snap \in [Snappers -> Snapshots] /\ \A s \in Snappers : Tidy(snap[s])
        /\ user \in [Users -> Asked] /\ doomed \in SUBSET Keys /\ quiet \in SUBSET Keys
    BY TypeOKParts
  <2>1. ASSUME /\ event' \in [Keys -> Events] /\ present' \in SUBSET Keys
               /\ snap' \in [Snappers -> Snapshots] /\ \A s \in Snappers : Tidy(snap'[s])
               /\ user' \in [Users -> Asked] /\ doomed' \in SUBSET Keys /\ quiet' \in SUBSET Keys
        PROVE  TypeOK'
    BY <2>1 DEF TypeOK, Tidy, Snapshots, Asked
  <2>2. ASSUME NEW s \in Snappers, NEW x, Tidy(x), snap' = [snap EXCEPT ![s] = x]
        PROVE  snap' \in [Snappers -> Snapshots] /\ \A t \in Snappers : Tidy(snap'[t])
    BY <2>0, <2>2 DEF Tidy
  <2>3. \A k \in Keys : Loaded(k) \in Events
    BY <2>0 DEF Loaded, Events
  <2>4. ASSUME NEW s \in Snappers, Start(s) PROVE TypeOK'
    <3> DEFINE x == [Idle EXCEPT !.step = "reading", !.keys = Computed(s), !.todo = Computed(s)]
    <3>0. Computed(s) \in SUBSET Keys
      BY <2>0 DEF Computed
    <3>1. Tidy(x)
      BY <2>0, <3>0, EventConstants DEF Tidy, Snapshots, Idle
    <3>2. snap' = [snap EXCEPT ![s] = x]
      BY <2>4 DEF Start
    <3> HIDE DEF x
    <3>3. QED
      BY <2>0, <2>1, <2>2, <2>4, <3>1, <3>2 DEF Start
  <2>5. ASSUME NEW s \in Snappers, NEW k \in Keys, Read(s, k) PROVE TypeOK'
    <3> DEFINE x == [snap[s] EXCEPT !.todo = @ \ {k}, !.read[k] = Loaded(k)]
    <3>1. Tidy(x)
      BY <2>0, <2>3 DEF Tidy, Snapshots
    <3>2. snap' = [snap EXCEPT ![s] = x]
      BY <2>0, <2>5 DEF Read
    <3> HIDE DEF x
    <3>3. QED
      BY <2>0, <2>1, <2>2, <2>5, <3>1, <3>2 DEF Read
  <2>6. ASSUME NEW s \in Snappers, Flush(s) PROVE TypeOK'
    <3> DEFINE x == IF Applies(s) THEN [snap[s] EXCEPT !.step = "flushed"] ELSE Idle
    <3>1. Tidy([snap[s] EXCEPT !.step = "flushed"])
      BY <2>0 DEF Tidy, Snapshots
    <3>2. Tidy(x)
      BY <3>1, EventConstants
    <3>3. snap' = [snap EXCEPT ![s] = x]
      BY <2>6 DEF Flush
    <3> HIDE DEF x
    <3>4. QED
      BY <2>0, <2>1, <2>2, <2>6, <3>2, <3>3 DEF Flush
  <2>7. ASSUME NEW s \in Snappers, ResolveMissing(s) PROVE TypeOK'
    <3> DEFINE g == {k \in Keys \ snap[s].keys : event[k].status \in {"open", "watching"}}
               x == [snap[s] EXCEPT !.step = "deciding", !.gone = g]
    <3>1. g \in SUBSET Keys /\ g \intersect snap[s].keys = {}
      OBVIOUS
    <3>2. snap' = [snap EXCEPT ![s] = x]
      BY <2>0, <2>7 DEF ResolveMissing
    <3> HIDE DEF g
    <3>3. Tidy(x)
      BY <2>0, <3>1 DEF Tidy, Snapshots
    <3> HIDE DEF x
    <3>4. QED
      BY <2>0, <2>1, <2>2, <2>7, <3>2, <3>3 DEF ResolveMissing
  <2>8. ASSUME NEW s \in Snappers, Commit(s) PROVE TypeOK'
    <3>1. \A k \in Keys : snap[s].read[k] \in Events
      BY <2>0 DEF Tidy, Snapshots
    <3>2. ASSUME NEW k \in Keys PROVE Seen(event[k], snap[s].read[k]) \in Events
      BY <2>0, <3>1, SeenTyped
    <3>3. \A k \in Keys : [event[k] EXCEPT !.status = "resolved", !.resolved = TRUE] \in Events
      BY <2>0 DEF Events, Statuses
    <3>4. event' \in [Keys -> Events]
      BY <2>0, <2>8, <3>2, <3>3 DEF Commit
    <3>5. snap' = [snap EXCEPT ![s] = Idle]
      BY <2>8 DEF Commit
    <3>6. QED
      BY <2>0, <2>1, <2>2, <2>8, <3>4, <3>5, EventConstants DEF Commit
  <2>9. ASSUME NEW s \in Snappers, Abort(s) PROVE TypeOK'
    BY <2>0, <2>1, <2>2, <2>9, EventConstants DEF Abort
  <2>10. ASSUME NEW u \in Users, NEW k \in Keys, NEW req \in Requests, RequestRead(u, k, req)
         PROVE  TypeOK'
    <3>1. [key |-> k, req |-> req, seen |-> Loaded(k)] \in Asked
      BY <2>3 DEF Asked
    <3>2. user' \in [Users -> Asked]
      BY <2>0, <2>10, <3>1 DEF RequestRead
    <3>3. QED
      BY <2>0, <2>1, <2>10, <3>2 DEF RequestRead
  <2>11. ASSUME NEW u \in Users, RequestWrite(u) PROVE TypeOK'
    <3>1. /\ user[u].key \in Keys \union {NoKey} /\ user[u].seen \in Events
          /\ user[u].req \in Requests \union {NoRequest.req}
      BY <2>0 DEF Asked
    <3>2. \A i \in Keys : event'[i] = IF i = user[u].key
                                      THEN Written(event[i], user[u].seen, user[u].req)
                                      ELSE event[i]
      BY <2>0, <2>11 DEF RequestWrite
    <3>3. ASSUME NEW i \in Keys PROVE event'[i] \in Events
      <4>1. Written(event[i], user[u].seen, user[u].req) \in Events
        BY <2>0, <3>1, WrittenTyped
      <4>2. QED
        BY <2>0, <3>2, <4>1
    <3>4. event' = [i \in Keys |-> event'[i]]
      BY <2>0, <2>11 DEF RequestWrite
    <3>5. event' \in [Keys -> Events]
      BY <3>3, <3>4
    <3>6. user' \in [Users -> Asked]
      BY <2>0, <2>11, EventConstants DEF RequestWrite
    <3>7. QED
      BY <2>0, <2>1, <2>11, <3>5, <3>6 DEF RequestWrite
  <2>12. CASE PruneSelect
    BY <2>0, <2>1, <2>12 DEF PruneSelect
  <2>13. CASE PruneDelete
    <3>1. event' \in [Keys -> Events]
      BY <2>0, <2>13, EventConstants DEF PruneDelete
    <3>2. QED
      BY <2>0, <2>1, <2>13, <3>1 DEF PruneDelete
  <2>14. ASSUME NEW k \in Keys, Change(k) PROVE TypeOK'
    BY <2>0, <2>1, <2>14 DEF Change
  <2>15. ASSUME NEW k \in Keys, Age(k) PROVE TypeOK'
    <3>1. [event[k] EXCEPT !.old = TRUE] \in Events
      BY <2>0 DEF Events
    <3>2. event' \in [Keys -> Events]
      BY <2>0, <2>15, <3>1 DEF Age
    <3>3. QED
      BY <2>0, <2>1, <2>15, <3>2 DEF Age
  <2>16. CASE UNCHANGED vars
    BY <2>0, <2>1, <2>16 DEF vars
  <2>17. QED
    BY <2>4, <2>5, <2>6, <2>7, <2>8, <2>9, <2>10, <2>11, <2>12, <2>13, <2>14, <2>15, <2>16 DEF Next
<1>3. QED
  BY <1>1, <1>2, PTL DEF Spec

-----------------------------------------------------------------------------
(***************************************************************************)
(* A quiet dismissal stays because no snapshot under way remembers the     *)
(* event as anything but dismissed, nor has found it open or watched.      *)
(***************************************************************************)
Undisturbed(k) ==
  /\ event[k].status = "dismissed"
  /\ \A s \in Snappers : Running(s) =>
       /\ k \in snap[s].keys \ snap[s].todo => snap[s].read[k].status = "dismissed"
       /\ k \notin snap[s].gone

QuietInv ==
  /\ \A k \in quiet : Undisturbed(k)
  /\ \A s \in Snappers : snap[s].step \in {"flushed", "deciding"} => snap[s].todo = {}

\* What one step of a snapshot may do without disturbing the dismissed event k.
LEMMA SnapshotStep ==
  ASSUME TypeOK, NEW k \in Keys, Undisturbed(k), NEW s \in Snappers,
         event'[k].status = "dismissed",
         \A t \in Snappers \ {s} : snap'[t] = snap[t],
         Running(s)' =>
           /\ k \in snap'[s].keys \ snap'[s].todo => snap'[s].read[k].status = "dismissed"
           /\ k \notin snap'[s].gone
  PROVE  Undisturbed(k)'
  BY DEF Undisturbed, Running

LEMMA QuietInvStep == TypeOK /\ QuietInv /\ [Next]_vars => QuietInv'
<1> SUFFICES ASSUME TypeOK, QuietInv, [Next]_vars PROVE QuietInv'
  OBVIOUS
<1>0. /\ event \in [Keys -> Events] /\ snap \in [Snappers -> Snapshots]
      /\ \A s \in Snappers : Tidy(snap[s])
      /\ user \in [Users -> Asked] /\ quiet \in SUBSET Keys
  BY TypeOKParts
<1>1. ASSUME \A k \in quiet' : Undisturbed(k)',
             \A s \in Snappers : snap'[s].step \in {"flushed", "deciding"} => snap'[s].todo = {}
      PROVE  QuietInv'
  BY <1>1 DEF QuietInv
<1>2. \A k \in Keys : Loaded(k).status = event[k].status
  BY <1>0 DEF Loaded, Events
<1>3. ASSUME NEW s \in Snappers, Start(s) PROVE QuietInv'
  <2>1. snap'[s].step = "reading" /\ snap'[s].keys = snap'[s].todo /\ snap'[s].gone = {}
    BY <1>0, <1>3 DEF Start, Idle
  <2>2. event' = event /\ quiet' = quiet /\ \A t \in Snappers \ {s} : snap'[t] = snap[t]
    BY <1>0, <1>3 DEF Start
  <2>3. ASSUME NEW k \in quiet PROVE Undisturbed(k)'
    BY <1>0, <2>1, <2>2, SnapshotStep DEF QuietInv, Undisturbed
  <2>4. QED
    BY <1>1, <2>1, <2>2, <2>3 DEF QuietInv
<1>4. ASSUME NEW s \in Snappers, NEW i \in Keys, Read(s, i) PROVE QuietInv'
  <2>1. /\ snap[s].step = "reading" /\ i \in snap[s].todo
        /\ snap'[s] = [snap[s] EXCEPT !.todo = @ \ {i}, !.read[i] = Loaded(i)]
        /\ event' = event /\ quiet' = quiet
        /\ \A t \in Snappers \ {s} : snap'[t] = snap[t]
    BY <1>0, <1>4 DEF Read
  <2>2. /\ snap'[s].step = "reading" /\ snap'[s].keys = snap[s].keys
        /\ snap'[s].todo = snap[s].todo \ {i} /\ snap'[s].gone = snap[s].gone
        /\ \A k \in Keys : snap'[s].read[k] = IF k = i THEN Loaded(i) ELSE snap[s].read[k]
    BY <1>0, <2>1 DEF Snapshots
  <2>3. ASSUME NEW k \in quiet PROVE Undisturbed(k)'
    <3>1. k \in Keys /\ Undisturbed(k)
      BY <1>0 DEF QuietInv
    <3>2. k \in snap'[s].keys \ snap'[s].todo => snap'[s].read[k].status = "dismissed"
      BY <1>2, <2>1, <2>2, <3>1 DEF Undisturbed, Running
    <3>3. k \notin snap'[s].gone
      BY <2>1, <2>2, <3>1 DEF Undisturbed, Running
    <3>4. QED
      BY <2>1, <3>1, <3>2, <3>3, SnapshotStep DEF Undisturbed
  <2>4. QED
    BY <1>1, <2>1, <2>2, <2>3 DEF QuietInv
<1>5. ASSUME NEW s \in Snappers, snap' = [snap EXCEPT ![s] = Idle], quiet' = quiet,
             \A k \in quiet : event'[k].status = "dismissed"
      PROVE  QuietInv'
  <2>1. snap'[s].step = "idle" /\ \A t \in Snappers \ {s} : snap'[t] = snap[t]
    BY <1>0, <1>5 DEF Idle
  <2>2. ASSUME NEW k \in quiet PROVE Undisturbed(k)'
    BY <1>0, <1>5, <2>1, <2>2, SnapshotStep DEF QuietInv, Running
  <2>3. QED
    BY <1>1, <1>5, <2>1, <2>2 DEF QuietInv
<1>6. ASSUME NEW s \in Snappers, Flush(s) PROVE QuietInv'
  <2>1. CASE ~Applies(s)
    BY <1>0, <1>5, <1>6, <2>1 DEF Flush, QuietInv, Undisturbed
  <2>2. CASE Applies(s)
    <3>1. /\ snap[s].step = "reading" /\ snap[s].todo = {}
          /\ snap'[s] = [snap[s] EXCEPT !.step = "flushed"]
          /\ event' = event /\ quiet' = quiet
          /\ \A t \in Snappers \ {s} : snap'[t] = snap[t]
      BY <1>0, <1>6, <2>2 DEF Flush
    <3>2. /\ snap'[s].keys = snap[s].keys /\ snap'[s].todo = snap[s].todo
          /\ snap'[s].read = snap[s].read /\ snap'[s].gone = snap[s].gone
      BY <1>0, <3>1 DEF Snapshots
    <3>3. ASSUME NEW k \in quiet PROVE Undisturbed(k)'
      <4>1. k \in Keys /\ Undisturbed(k)
        BY <1>0 DEF QuietInv
      <4>2. /\ k \in snap'[s].keys \ snap'[s].todo => snap'[s].read[k].status = "dismissed"
            /\ k \notin snap'[s].gone
        BY <3>1, <3>2, <4>1 DEF Undisturbed, Running
      <4>3. QED
        BY <3>1, <4>1, <4>2, SnapshotStep DEF Undisturbed
    <3>4. QED
      BY <1>1, <3>1, <3>2, <3>3 DEF QuietInv
  <2>3. QED
    BY <2>1, <2>2
<1>7. ASSUME NEW s \in Snappers, ResolveMissing(s) PROVE QuietInv'
  <2> DEFINE g == {k \in Keys \ snap[s].keys : event[k].status \in {"open", "watching"}}
  <2>1. /\ snap[s].step = "flushed"
        /\ snap'[s] = [snap[s] EXCEPT !.step = "deciding", !.gone = g]
        /\ event' = event /\ quiet' = quiet
        /\ \A t \in Snappers \ {s} : snap'[t] = snap[t]
    BY <1>0, <1>7 DEF ResolveMissing
  <2>2. \A k \in g : event[k].status # "dismissed"
    OBVIOUS
  <2> HIDE DEF g
  <2>3. /\ snap'[s].keys = snap[s].keys /\ snap'[s].todo = snap[s].todo
        /\ snap'[s].read = snap[s].read /\ snap'[s].gone = g
    BY <1>0, <2>1 DEF Snapshots
  <2>4. ASSUME NEW k \in quiet PROVE Undisturbed(k)'
    <3>1. k \in Keys /\ Undisturbed(k)
      BY <1>0 DEF QuietInv
    <3>2. /\ k \in snap'[s].keys \ snap'[s].todo => snap'[s].read[k].status = "dismissed"
          /\ k \notin snap'[s].gone
      BY <2>1, <2>2, <2>3, <3>1 DEF Undisturbed, Running
    <3>3. QED
      BY <2>1, <3>1, <3>2, SnapshotStep DEF Undisturbed
  <2>5. QED
    BY <1>1, <2>1, <2>3, <2>4 DEF QuietInv
<1>8. ASSUME NEW s \in Snappers, Commit(s) PROVE QuietInv'
  <2>1. snap[s].step = "deciding" /\ snap[s].todo = {} /\ quiet' = quiet
        /\ snap' = [snap EXCEPT ![s] = Idle]
    BY <1>8 DEF Commit, QuietInv
  <2>2. ASSUME NEW k \in quiet PROVE event'[k].status = "dismissed"
    <3>1. k \in Keys /\ event[k].status = "dismissed" /\ k \notin snap[s].gone
          /\ (k \in snap[s].keys => snap[s].read[k].status = "dismissed")
      BY <1>0, <2>1 DEF QuietInv, Undisturbed, Running
    <3>2. ASSUME k \in snap[s].keys
          PROVE  Seen(event[k], snap[s].read[k]).status = "dismissed"
      <4>1. snap[s].read[k] # NoEvent
        BY <3>1, <3>2 DEF NoEvent
      <4>2. QED
        BY <1>0, <3>1, <3>2, <4>1 DEF Seen, Events
    <3>3. event'[k] \in {event[k], Seen(event[k], snap[s].read[k])}
          /\ (event'[k] # event[k] => k \in snap[s].keys)
      BY <1>0, <1>8, <3>1 DEF Commit
    <3>4. QED
      BY <3>1, <3>2, <3>3
  <2>3. QED
    BY <1>5, <2>1, <2>2
<1>9. ASSUME NEW s \in Snappers, Abort(s) PROVE QuietInv'
  BY <1>0, <1>5, <1>9 DEF Abort, QuietInv, Undisturbed
<1>10. ASSUME snap' = snap, \A k \in quiet' : event'[k].status = "dismissed",
              \A k \in quiet' : k \in quiet \/ \A s \in Snappers : ~Running(s)
       PROVE  QuietInv'
  BY <1>0, <1>10 DEF QuietInv, Undisturbed, Running
<1>11. ASSUME NEW u \in Users, NEW k \in Keys, NEW req \in Requests, RequestRead(u, k, req)
       PROVE  QuietInv'
  BY <1>10, <1>11 DEF RequestRead, QuietInv, Undisturbed
<1>12. ASSUME NEW u \in Users, RequestWrite(u) PROVE QuietInv'
  <2> DEFINE k == user[u].key
  <2>1. \A i \in Keys : i # k => event'[i] = event[i]
    BY <1>0, <1>12 DEF RequestWrite
  <2>2. /\ quiet' \subseteq quiet \union {k}
        /\ k \in quiet' => event'[k].status = "dismissed"
        /\ k \in quiet' => k \in quiet \/ \A s \in Snappers : ~Running(s)
    BY <1>12 DEF RequestWrite
  <2>3. snap' = snap
    BY <1>12 DEF RequestWrite
  <2> HIDE DEF k
  <2>4. QED
    BY <1>0, <1>10, <2>1, <2>2, <2>3 DEF QuietInv, Undisturbed
<1>13. CASE PruneSelect
  BY <1>10, <1>13 DEF PruneSelect, QuietInv, Undisturbed
<1>14. CASE PruneDelete
  BY <1>0, <1>10, <1>14 DEF PruneDelete, QuietInv, Undisturbed
<1>15. ASSUME NEW k \in Keys, Change(k) PROVE QuietInv'
  BY <1>10, <1>15 DEF Change, QuietInv, Undisturbed
<1>16. ASSUME NEW k \in Keys, Age(k) PROVE QuietInv'
  <2>1. \A i \in Keys : event'[i].status = event[i].status
    BY <1>0, <1>16 DEF Age, Events
  <2>2. QED
    BY <1>0, <1>10, <1>16, <2>1 DEF Age, QuietInv, Undisturbed
<1>17. CASE UNCHANGED vars
  BY <1>10, <1>17 DEF vars, QuietInv, Undisturbed
<1>18. QED
  BY <1>3, <1>4, <1>6, <1>7, <1>8, <1>9, <1>11, <1>12, <1>13, <1>14, <1>15, <1>16, <1>17 DEF Next

\* A dismissal made while no snapshot is under way is never undone by one,
\* however many snapshots of both programs follow.
THEOREM DismissalLasts == Spec => []DismissalKept
<1>1. Init => QuietInv
  BY DEF Init, QuietInv, Idle
<1>2. QuietInv => DismissalKept
  BY DEF QuietInv, Undisturbed, DismissalKept
<1>3. QED
  BY <1>1, <1>2, QuietInvStep, EventsTypeCorrect, PTL DEF Spec
=============================================================================

------------------------------ MODULE Matching ------------------------------
(***************************************************************************)
(* Which card a SNKRDUNK listing shows: the score and the ranking that the *)
(* review tools use, the tiers that the worker's runs use, and the quality *)
(* of the mappings that exist.                                             *)
(*                                                                         *)
(* A pair is what a comparison of a listing and a card finds.  code is     *)
(* "detected", "text" (in the listing's text only) or "none"; an exact     *)
(* name is the whole title, a partial one part of the text.                *)
(***************************************************************************)
EXTENDS Integers, Sequences, FiniteSets

Compared == {"same", "other", "unknown"}

Pairs == [code : {"detected", "text", "none"}, set : Compared, rarity : Compared, variant : Compared,
          language : Compared, en : {"exact", "partial", "none"}, jp : {"exact", "partial", "none"},
          character : BOOLEAN, type : BOOLEAN, colour : BOOLEAN]

SuggestedScore == 75
LowScore == 55
TieMargin == 5

When(condition, points) == IF condition THEN points ELSE 0
Signal(compared, same, other) == CASE compared = "same" -> same [] compared = "other" -> other [] compared = "unknown" -> 0
CodePoints(code) == CASE code = "detected" -> 60 [] code = "text" -> 50 [] code = "none" -> 0
NamePoints(name) == CASE name = "exact" -> 25 [] name = "partial" -> 10 [] name = "none" -> 0

Sum(p) ==
  CodePoints(p.code) + Signal(p.set, 10, -25) + Signal(p.rarity, 5, -10) + NamePoints(p.en) + NamePoints(p.jp)
    + When(p.character, 8) + Signal(p.variant, 12, -20) + When(p.type, 5) + When(p.colour, 3)
    + Signal(p.language, 0, -10)

\* Mutant: a listing of another set is capped under its own code only.
Caps_SameCode(p) ==
  {100}
    \union (IF p.set = "other" /\ p.code = "detected" THEN {70} ELSE {})
    \union (IF p.variant = "other" THEN {75} ELSE {})

Caps(p) ==
  {100}
    \union (IF p.set = "other" /\ p.code # "detected" THEN {70} ELSE {})
    \union (IF p.variant = "other" THEN {75} ELSE {})

\* calculate_candidate_match.
Score(p) ==
  LET capped == CHOOSE n \in Caps(p) \union {Sum(p)} : \A k \in Caps(p) \union {Sum(p)} : n <= k IN
  IF capped < 0 THEN 0 ELSE capped

ConfidenceLabel(score) ==
  CASE score >= 90 -> "exact" [] score \in 75..89 -> "high" [] score \in 55..74 -> "medium"
    [] score \in 35..54 -> "low" [] OTHER -> "very_low"

-----------------------------------------------------------------------------
(***************************************************************************)
(* Ranking: pairs maps every card to its pair; cards of one score and code *)
(* come in any order                                                       *)
(***************************************************************************)
Scored(pairs) == {card \in DOMAIN pairs : Score(pairs[card]) > 0}
Tops(pairs) == {card \in Scored(pairs) : \A other \in Scored(pairs) : Score(pairs[other]) <= Score(pairs[card])}

Ambiguous(pairs, top) ==
  /\ pairs[top].code # "detected"
  /\ \E other \in Scored(pairs) \ {top} : Score(pairs[top]) - Score(pairs[other]) <= TieMargin

\* _resolve_new_status with the best match it may keep.
Resolutions(pairs) ==
  IF Scored(pairs) = {} THEN {[status |-> "unmatched", best |-> {}]}
  ELSE {IF Ambiguous(pairs, top) THEN [status |-> "ambiguous", best |-> {top}]
        ELSE IF Score(pairs[top]) >= SuggestedScore THEN [status |-> "suggested", best |-> {top}]
        ELSE [status |-> "unmatched", best |-> {}] : top \in Tops(pairs)}

-----------------------------------------------------------------------------
(***************************************************************************)
(* The worker's tiers, for a listing of which code, set and rarity are     *)
(* detected; a card matches it by "code" and "set" and "rarity" (with the  *)
(* variant) as texts, has its Japanese "name" in the title, or is "fuzzy": *)
(* its names are nearest the title, and near enough.                       *)
(***************************************************************************)
MatchesBy == SUBSET {"code", "set", "rarity", "name"}

Result(status, cards) == [status |-> status, cards |-> cards]
Unmatched == Result("unmatched", {})

\* _finalize with the default threshold, which only tiers 1 and 2 reach.
Finalized(cards, tier, graded) ==
  IF tier \in {1, 2} /\ ~graded THEN Result("matched", cards) ELSE Result("suggested", cards)

\* The cards that a tier finds.
Found(cards, tier) ==
  LET keys == CASE tier = 1 -> {"code"} [] tier = 2 -> {"name", "set"} [] tier = 3 -> {"name", "rarity"} IN
  {card \in DOMAIN cards : keys \subseteq cards[card]}

\* Mutant: the first of several cards of a code is taken.
Decided_First(cards, tier) == Found(cards, tier) # {}

Decided(cards, tier) == Cardinality(Found(cards, tier)) = 1

\* match_candidate; fuzzy is the set of the nearest card, or empty.
Match(cards, graded, fuzzy) ==
  IF Decided(cards, 1) THEN Finalized(Found(cards, 1), 1, graded)
  ELSE IF Found(cards, 1) # {} THEN Result("ambiguous", {})
  ELSE IF Decided(cards, 2) THEN Finalized(Found(cards, 2), 2, graded)
  ELSE IF Decided(cards, 3) THEN Finalized(Found(cards, 3), 3, graded)
  ELSE IF fuzzy # {} THEN Finalized(fuzzy, 4, graded)
  ELSE Unmatched

-----------------------------------------------------------------------------
(***************************************************************************)
(* The quality of a mapping: ages are in days, None is never               *)
(***************************************************************************)
None == -1
StaleDays == 90
RecentDays == 30

\* A mapping's own text is its source_card_id (id: the card's code, another
\* code, another text, or blank) and its url; pair compares them to the card.
Issues(m) ==
  LET recent == m.price \in 0..RecentDays
      checked == IF m.verified_age # None THEN m.verified_age ELSE m.age IN
  {issue \in {"low_confidence", "card_code_mismatch", "set_code_mismatch", "variant_mismatch", "missing_source_url",
              "duplicate_source_url", "inactive_with_recent_price", "active_without_recent_price",
              "stale_mapping", "unverified_mapping"} :
     CASE issue = "low_confidence" -> Score(m.pair) < LowScore
       [] issue = "card_code_mismatch" -> m.id = "other code"
       [] issue = "set_code_mismatch" -> m.pair.set = "other"
       [] issue = "variant_mismatch" -> m.pair.variant = "other"
       [] issue = "missing_source_url" -> m.url = "none"
       [] issue = "duplicate_source_url" -> m.url = "duplicate"
       [] issue = "inactive_with_recent_price" -> ~m.active /\ recent
       [] issue = "active_without_recent_price" -> m.active /\ ~recent
       [] issue = "stale_mapping" -> checked > StaleDays
       [] issue = "unverified_mapping" -> ~m.verified}

RiskLevel(m) ==
  LET has(issues) == Issues(m) \intersect issues # {} IN
  CASE ConfidenceLabel(Score(m.pair)) = "very_low" \/ has({"card_code_mismatch", "duplicate_source_url"}) -> "critical"
    [] OTHER ->
       IF has({"low_confidence", "set_code_mismatch", "variant_mismatch", "inactive_with_recent_price",
               "active_without_recent_price"}) THEN "warning"
       ELSE IF has({"stale_mapping", "unverified_mapping", "missing_source_url"}) THEN "review" ELSE "ok"
-----------------------------------------------------------------------------
(***************************************************************************)
(* Properties                                                              *)
(***************************************************************************)

\* No card of another set is suggested unless the listing's own code names
\* it, and none without a code unless the title is one of its names.
SuggestedIsAlike(p) ==
  Score(p) >= SuggestedScore =>
    /\ p.set = "other" => p.code = "detected"
    /\ p.code = "none" => "exact" \in {p.en, p.jp} /\ p.set # "other"

\* Of a ranking, the order in which the database returns cards of one score
\* decides nothing, unless they share the listing's code.
OrderIsIdle(pairs) ==
  (\A top \in Tops(pairs) : pairs[top].code # "detected") =>
    \/ Cardinality(Tops(pairs)) <= 1
    \/ \A r \in Resolutions(pairs) : r.status = "ambiguous"

\* A match that a run makes by itself is certain: no card that it left out
\* could have been matched to the listing, so it stands in every catalog that
\* has fewer cards.
MatchIsCertain(cards, graded, fuzzy) ==
  LET match == Match(cards, graded, fuzzy) IN
  match.status = "matched" =>
    /\ Cardinality(match.cards) = 1 /\ ~graded
    /\ \A fewer \in SUBSET DOMAIN cards :
         match.cards \subseteq fewer =>
           Match([card \in fewer |-> cards[card]], graded, fuzzy \intersect fewer) = match

\* A mapping that needs no attention names its card: its text holds the code
\* or both names, or its id is one of the names.  It has a price of the last
\* RecentDays if it is active, and none if not.
OkIsSure(m) ==
  RiskLevel(m) = "ok" =>
    /\ m.pair.set # "other" /\ m.pair.variant # "other"
    /\ m.pair.code # "none" \/ "exact" \in {m.pair.en, m.pair.jp} \/ "none" \notin {m.pair.en, m.pair.jp}
    /\ m.active <=> m.price \in 0..RecentDays
=============================================================================

---------------------------- MODULE CardIdentity ----------------------------
(***************************************************************************)
(* Which cards are duplicates: the score of two cards, the buckets that    *)
(* choose the pairs to score, and what a merge does with their metadata.   *)
(*                                                                         *)
(* A pair is what a comparison of two cards finds.  code, set and rarity   *)
(* are "exact", "alike" (they differ in case or spaces only) or "other";   *)
(* language is "same", "other" (both known), or "unknown" (they differ and *)
(* one is neither en nor jp); a name is "exact", "partial" or "none".  The *)
(* four columns behind the first three and language are never NULL.        *)
(***************************************************************************)
EXTENDS Integers

Pairs == [code : {"exact", "alike", "other"}, set : {"exact", "alike", "other"},
          rarity : {"exact", "alike", "other"}, variant : BOOLEAN, language : {"same", "other", "unknown"},
          en : {"exact", "partial", "none"}, jp : {"exact", "partial", "none"},
          character : BOOLEAN, type : BOOLEAN]

MinMergeScore == 75
MinListedScore == 55

When(condition, points) == IF condition THEN points ELSE 0
Either(condition, points, otherwise) == IF condition THEN points ELSE otherwise
CodePoints(code) == CASE code = "exact" -> 55 [] code = "alike" -> 50 [] code = "other" -> 0
NamePoints(name) == CASE name = "exact" -> 20 [] name = "partial" -> 8 [] name = "none" -> 0

Sum(p) ==
  CodePoints(p.code) + Either(p.set # "other", 10, -30) + Either(p.rarity # "other", 5, -10) + Either(p.variant, 10, -25)
    + Either(p.language = "same", 5, -10) + NamePoints(p.en) + NamePoints(p.jp)
    + When(p.character, 5) + When(p.type, 5)

\* Mutant: a variant that differs caps no score.
Caps_AnyVariant(p) ==
  {100}
    \union (IF p.set = "other" /\ p.code # "exact" THEN {60} ELSE {})
    \union (IF p.code # "other" /\ p.language = "other" THEN {74} ELSE {})

\* The highest scores that what the pair differs in allows.
Caps(p) ==
  {100}
    \union (IF p.set = "other" /\ p.code # "exact" THEN {60} ELSE {})
    \union (IF p.code # "other" /\ (~p.variant \/ p.language = "other") THEN {74} ELSE {})

Score(p) ==
  LET capped == CHOOSE n \in Caps(p) \union {Sum(p)} : \A k \in Caps(p) \union {Sum(p)} : n <= k IN
  IF capped < 0 THEN 0 ELSE capped

\* The cards share a bucket: a code, or a name and the set_code or rarity.
Bucketed(p) ==
  \/ p.code # "other"
  \/ "exact" \in {p.en, p.jp} /\ "exact" \in {p.set, p.rarity}

Listed(p, min) == Bucketed(p) /\ Score(p) >= min

-----------------------------------------------------------------------------
(***************************************************************************)
(* Metadata: a text is as good as its length, of a number only whether it  *)
(* is given counts; Null < "" < shorter < longer                           *)
(***************************************************************************)
Strategies == {"keep_target", "fill_missing_target_fields", "overwrite_target_empty_or_shorter_text"}
Values == [type : {"text"}, length : -1 .. 2] \union [type : {"number"}, length : {-1, 1}]

\* _field_action and _apply_field_changes: a target of spaces is taken as
\* empty, too.
Merged(strategy, source, target) ==
  IF \/ strategy # "keep_target" /\ target.length <= 0 /\ source.length >= 0
     \/ /\ strategy = "overwrite_target_empty_or_shorter_text"
        /\ target.type = "text" /\ target.length >= 0 /\ source.length > target.length
  THEN source ELSE target

-----------------------------------------------------------------------------
(***************************************************************************)
(* Properties                                                              *)
(***************************************************************************)

\* A pair that is merged without approve_low_confidence is the same card but
\* for how it was entered: "a merge is only ever auto-eligible once the score
\* clears that bar".  Other variants or known languages never are, other sets
\* only under the same code, and other codes only if both names, the set, the
\* variant and the language agree.
SureIsSame(p) ==
  Score(p) >= MinMergeScore =>
    /\ p.variant
    /\ p.language # "other"
    /\ p.set = "other" => p.code = "exact"
    /\ p.code = "other" => p.en = "exact" /\ p.jp = "exact" /\ p.set # "other" /\ p.language = "same"

\* The buckets miss no pair that may be merged, unless set_code and rarity are
\* both spelt differently.
SureIsListed(p) ==
  Score(p) >= MinMergeScore /\ ~(p.set = "alike" /\ p.rarity = "alike") => Listed(p, MinListedScore)

\* No merge takes a text for a shorter one, or a given number for another.
NothingLost(strategy, source, target) ==
  LET after == Merged(strategy, source, target) IN
  /\ after.length >= target.length
  /\ target.type = "number" /\ target.length >= 0 => after = target
=============================================================================

----------------------------- MODULE CardAudit ------------------------------
(***************************************************************************)
(* The audit of the catalog, and the parts of the system check that sum up *)
(* the same data: what of it needs a person's attention.                   *)
(*                                                                         *)
(* A catalog has cards and mappings.  A card has the columns of module     *)
(* CardImports (name is name_en, artist stands for all enrichment), and    *)
(* whether it is active, merged into which card (0 is none), has a         *)
(* negative number and a price.  A mapping has its card, source, url and   *)
(* source_card_id, whether it is active, its match_confidence (in          *)
(* hundredths, or Null), and what else its quality depends on.  Rows of    *)
(* missing cards, which the foreign keys forbid, and the recorded          *)
(* explanations of candidates are left out.                                *)
(***************************************************************************)
EXTENDS CardImports, Integers

Identities == INSTANCE CardIdentity
Quality == INSTANCE Matching
Prices == INSTANCE Coverage

\* LOW_MATCH_CONFIDENCE_THRESHOLD.
LowConfidence == 55

CanonicalLanguage(text) == CASE text \in {"en", "english"} -> "en" [] text \in {"jp", "japanese"} -> "jp" [] OTHER -> Null
KnownVariants == {"base", "parallel"}
VagueVariants == {"base", "normal"}
Lower(text) == IF text = "Base" THEN "base" ELSE text
IsBlank(text) == text \in {Null, "blank"}

\* The codes that have a hyphen, and so imply a set.
ImpliesSet(code) == code # "odd"

-----------------------------------------------------------------------------
(***************************************************************************)
(* Cards: the cards that each check flags                                  *)
(***************************************************************************)
Twins(cards, Alike(_, _)) == {i \in DOMAIN cards : \E j \in DOMAIN cards \ {i} : Alike(cards[i], cards[j])}
SamePrint(c, d) == c.code = d.code /\ c.language = d.language /\ c.variant = d.variant
OtherName(c, d) == c.code = d.code /\ c.name # d.name
OtherCase(c, d) == ~IsBlank(c.variant) /\ c.variant # d.variant /\ Lower(c.variant) = Lower(d.variant)

\* calculate_duplicate_score's view of two cards of no Japanese name, which
\* takes no variant for the base one.
Edition(card) == IF IsBlank(card.variant) THEN "base" ELSE Lower(card.variant)
Compared(a, b) == IF a = b THEN "exact" ELSE IF Upper(a) = Upper(b) THEN "alike" ELSE "other"
PairOf(c, d) ==
  [code |-> Compared(c.code, d.code), set |-> Compared(c.set, d.set), rarity |-> Compared(c.rarity, d.rarity),
   variant |-> Edition(c) = Edition(d),
   language |-> IF c.language = d.language THEN "same"
                ELSE IF {c.language, d.language} = {"en", "jp"} THEN "other" ELSE "unknown",
   en |-> IF c.name = d.name /\ c.name # Null THEN "exact" ELSE "none", jp |-> "none",
   character |-> FALSE, type |-> FALSE]

\* duplicate_pairs_at_or_above: pairs of active cards, by index.
DuplicatePairs(cards, min) ==
  {p \in (DOMAIN cards) \X (DOMAIN cards) :
     /\ p[1] < p[2] /\ cards[p[1]].active /\ cards[p[2]].active
     /\ Identities!Listed(PairOf(cards[p[1]], cards[p[2]]), min)}

\* The cards that satisfy a condition.
Such(cards, Is(_)) == {i \in DOMAIN cards : Is(cards[i])}

TextIssues(cards) ==
  [conflicting_names |-> Twins(cards, OtherName),
   inconsistent_language |-> Such(cards, LAMBDA c : CanonicalLanguage(c.language) \notin {Null, c.language}),
   blank_variant |-> Such(cards, LAMBDA c : c.variant = "blank"),
   variant_casing |-> Twins(cards, OtherCase),
   vague_variant |-> Such(cards, LAMBDA c : Lower(c.variant) \in VagueVariants)]

IdentityIssues(cards) ==
  [missing_set |-> Such(cards, LAMBDA c : c.set = Null),
   set_mismatch |-> Such(cards, LAMBDA c : c.set # Null /\ ImpliesSet(c.code) /\ c.set # "set of " \o c.code),
   missing_name |-> Such(cards, LAMBDA c : c.name = Null),
   same_print |-> Twins(cards, SamePrint)]

ValueIssues(cards) ==
  LET enriched == Such(cards, LAMBDA c : c.artist # Null) IN
  [invalid_language |-> Such(cards, LAMBDA c : c.language \notin {"en", "jp"}),
   invalid_variant |-> Such(cards, LAMBDA c : c.variant \notin KnownVariants \union {Null}),
   empty_metadata |-> IF enriched = {} THEN {} ELSE DOMAIN cards \ enriched,
   invalid_numbers |-> Such(cards, LAMBDA c : c.negative)]

MergeIssues(cards) ==
  [duplicate_identity |-> UNION {{p[1], p[2]} : p \in DuplicatePairs(cards, Identities!MinMergeScore)},
   inactive_without_target |-> Such(cards, LAMBDA c : ~c.active /\ c.into = 0),
   active_but_merged |-> Such(cards, LAMBDA c : c.active /\ c.into # 0)]

CardIssues(cards) ==
  [text |-> TextIssues(cards), identity |-> IdentityIssues(cards), value |-> ValueIssues(cards), merge |-> MergeIssues(cards)]

-----------------------------------------------------------------------------
(***************************************************************************)
(* Mappings, and the cards that lack them                                  *)
(***************************************************************************)
\* _check_duplicate_source_url, and _duplicate_mapping_ids, which mirrors it.
SameUrl(mappings, i) ==
  {j \in DOMAIN mappings : mappings[j].source = mappings[i].source /\ mappings[i].url # Null
                             /\ Upper(mappings[j].url) = Upper(mappings[i].url)}
DuplicateUrls(mappings) == {i \in DOMAIN mappings : Cardinality(SameUrl(mappings, i)) > 1}

SameCode(m, c) == Upper(m.id) = Upper(c.code)

\* _adapt_mapping: the source_card_id stands for the code of a listing.
QualityOf(catalog, i) ==
  LET m == catalog.mappings[i]
      same == SameCode(m, catalog.cards[m.card]) IN
  [pair |-> [m.pair EXCEPT !.code = IF same THEN "detected" ELSE @],
   id |-> IF same THEN "code" ELSE IF m.id = "listing" THEN "other text" ELSE "other code",
   url |-> IF i \in DuplicateUrls(catalog.mappings) THEN "duplicate" ELSE IF m.url = Null THEN "none" ELSE "url",
   active |-> m.active, price |-> m.price, verified |-> TRUE, age |-> 0, verified_age |-> 0]

\* evaluate_source_mappings and summarize_mapping_quality.
AtRisk(catalog, level) == {i \in DOMAIN catalog.mappings : Quality!RiskLevel(QualityOf(catalog, i)) = level}
WithIssue(catalog, issue) == {i \in DOMAIN catalog.mappings : issue \in Quality!Issues(QualityOf(catalog, i))}

\* _match_confidence_as_score: up to 1.0 it is a fraction.
ConfidenceScore(confidence) == IF confidence <= 100 THEN confidence ELSE confidence \div 100

CardOf(catalog, i) == catalog.cards[catalog.mappings[i].card]

CodeMismatches(catalog) == {i \in DOMAIN catalog.mappings : catalog.mappings[i].id # CardOf(catalog, i).code}
LowConfidences(catalog) ==
  {i \in DOMAIN catalog.mappings :
     catalog.mappings[i].confidence # Null /\ ConfidenceScore(catalog.mappings[i].confidence) < LowConfidence}
ActiveOfMerged(catalog) ==
  {i \in DOMAIN catalog.mappings :
     catalog.mappings[i].active /\ ~CardOf(catalog, i).active /\ CardOf(catalog, i).into # 0}

MappingIssues(catalog) ==
  [duplicate_url |-> DuplicateUrls(catalog.mappings), code_mismatch |-> CodeMismatches(catalog),
   low_confidence |-> LowConfidences(catalog), critical_quality |-> AtRisk(catalog, "critical"),
   active_of_merged |-> ActiveOfMerged(catalog)]

Mapped(catalog, active) == {m.card : m \in {catalog.mappings[i] : i \in {j \in DOMAIN catalog.mappings : active => catalog.mappings[j].active}}}

GapIssues(catalog) ==
  [unmapped |-> DOMAIN catalog.cards \ Mapped(catalog, FALSE),
   priced_unmapped |-> {i \in DOMAIN catalog.cards : catalog.cards[i].priced} \ Mapped(catalog, TRUE)]

\* run_card_audit, but for the sources.
Audit(catalog) == [card |-> CardIssues(catalog.cards), mapping |-> MappingIssues(catalog), gap |-> GapIssues(catalog)]
Raised(issues) == {type \in DOMAIN issues : issues[type] # {}}

\* _check_source_price_health: the sources that are flagged.
SourceIssues(world) ==
  LET such(Is(_)) == {s \in Prices!Sources : Is(Prices!SourceHealth(world, s, FALSE))} IN
  [refresh_failed |-> such(LAMBDA h : h.refresh = "failed"),
   price_stale |-> such(LAMBDA h : h.active > 0 /\ h.status \in {"stale", "degraded"} /\ h.stale > 0),
   price_missing |-> such(LAMBDA h : Prices!Share(h.missing, h.active) > 2000)]

-----------------------------------------------------------------------------
(***************************************************************************)
(* The system check: what it warns of.  backlog is the counts of all and   *)
(* of the undecided candidates; reports are the results of the week's      *)
(* import validations, the newest first.                                   *)
(***************************************************************************)
DuplicateLabel(score) ==
  CASE score >= 90 -> "exact_duplicate" [] score \in 75..89 -> "likely_duplicate"
    [] score \in 55..74 -> "possible_duplicate" [] OTHER -> "not_listed"
Labels(cards) ==
  {DuplicateLabel(Identities!Score(PairOf(cards[p[1]], cards[p[2]]))) :
     p \in DuplicatePairs(cards, Identities!MinListedScore)}

CatalogWarnings(catalog) ==
  {w \in {"low_confidence", "mapping_quality", "duplicate_cards", "inactive_without_target"} :
     CASE w = "low_confidence" -> LowConfidences(catalog) # {}
       [] w = "mapping_quality" -> \/ AtRisk(catalog, "critical") # {}
                                   \/ Cardinality(WithIssue(catalog, "low_confidence")) > 5
                                   \/ WithIssue(catalog, "duplicate_source_url") # {}
       [] w = "duplicate_cards" -> Labels(catalog.cards) \cap {"exact_duplicate", "likely_duplicate"} # {}
       [] w = "inactive_without_target" -> \E i \in DOMAIN catalog.cards : ~catalog.cards[i].active /\ catalog.cards[i].into = 0}

\* _check_catalog_coverage_summary's and the operations' percentages.
LowShares(world) ==
  LET summary == Prices!CatalogSummary(world, FALSE) IN
  {f \in {"mapping", "price", "completion"} : summary[f] < IF f = "completion" THEN 7000 ELSE 5000}

\* price_source_health_degraded; a rate of 0 is that of no runs, too.
Degraded(world) ==
  LET summary == Prices!PriceSummary(world) IN
  summary.blocked > 0 \/ summary.error > 0 \/ summary.rate < 8000

WorldWarnings(world) ==
  LET counts == Prices!CatalogSummary(world, FALSE).counts
      summary == Prices!PriceSummary(world)
      latest(s) == Prices!SourceHealth(world, s, FALSE).refresh IN
  {w \in {"coverage", "price_health"} :
     CASE w = "coverage" -> LowShares(world) # {} \/ counts.duplicate > 0 \/ counts.risk > 0
       [] w = "price_health" ->
            \/ Degraded(world)
            \/ Prices!Share(summary.without_recent, summary.active) > 2000
            \/ Prices!Share(summary.stale, summary.active) > 2000
            \/ \A s \in Prices!Sources : latest(s) \notin {"completed", "completed_with_warnings"}}

BacklogWarns(backlog) == backlog.all >= 10 /\ 2 * backlog.undecided >= backlog.all
ReportsWarn(reports) ==
  \/ reports # <<>> /\ ~Head(reports)
  \/ Len(SelectSeq(reports, LAMBDA valid : ~valid)) >= 3

\* overall_status, of these checks.
SystemWarns(warned, world, backlog, reports) ==
  warned # {} \/ WorldWarnings(world) # {} \/ BacklogWarns(backlog) \/ ReportsWarn(reports)

\* build_catalog_operations_summary, of the critical mappings and the labels of
\* the duplicates.
OperationsStatus(critical, labels, world, reports) ==
  IF critical # {} \/ "exact_duplicate" \in labels THEN "critical"
  ELSE IF \/ "likely_duplicate" \in labels
          \/ LowShares(world) # {} \/ Degraded(world)
          \/ reports # <<>> /\ ~Head(reports) THEN "warning"
  ELSE "ok"

-----------------------------------------------------------------------------
(***************************************************************************)
(* What a recheck and a merge make of a catalog                            *)
(***************************************************************************)
\* bulk_recheck_source_mappings writes whole points.
Rechecked(catalog) ==
  [catalog EXCEPT !.mappings =
     [i \in DOMAIN @ |-> [@[i] EXCEPT !.confidence = 100 * Quality!Score(QualityOf(catalog, i).pair)]]]

\* Mutant: a retired card is taken as a target.
MayMerge_AnyTarget(cards, s, t) == s # t /\ cards[s].into \in {0, t}

\* execute_card_merge, with what of it the audit sees; prices stay.
MayMerge(cards, s, t) == s # t /\ cards[t].active /\ cards[t].into = 0 /\ cards[s].into \in {0, t}
MergedInto(catalog, s, t) ==
  [cards |-> [catalog.cards EXCEPT ![s].active = FALSE, ![s].into = t],
   mappings |-> [i \in DOMAIN catalog.mappings |-> [catalog.mappings[i] EXCEPT !.card = IF @ = s THEN t ELSE @]]]

-----------------------------------------------------------------------------
(***************************************************************************)
(* Properties                                                              *)
(***************************************************************************)
Stored(cards) ==
  [i \in DOMAIN cards |-> cards[i] @@ [active |-> TRUE, into |-> 0, negative |-> FALSE, priced |-> FALSE]]

\* "The importer normalizes to exactly these values and the audit flags
\* anything outside them": an import brings no issue of a language, a name or
\* a number, and of variants only the unknown ones that its file has.  What it
\* enters twice, up to case and NULL for the base print, the audit sees, and
\* in a catalog where it sees no print twice no row is ambiguous.
ImportsPassAudit(overwrite, cards, file) ==
  LET after == Import(FALSE, overwrite, cards, file).cards
      old == CardIssues(Stored(cards))
      new == CardIssues(Stored(after))
      texts == {file[n].variant : n \in DOMAIN file}
      twice(c, d) ==
        /\ Upper(c.code) = Upper(d.code) /\ Upper(c.set) = Upper(d.set) /\ c.language = d.language
        /\ Edition(c) = Edition(d) /\ (c.rarity = d.rarity \/ c.name = d.name) IN
  /\ \A type \in {"inconsistent_language", "variant_casing", "blank_variant"} : new.text[type] \subseteq old.text[type]
  /\ \A type \in {"missing_name", "missing_set"} : new.identity[type] \subseteq old.identity[type]
  /\ \A type \in {"invalid_language", "invalid_numbers"} : new.value[type] \subseteq old.value[type]
  /\ \A i \in new.value.invalid_variant \ old.value.invalid_variant : after[i].variant \in texts
  /\ Twins(after, twice) \subseteq new.merge.duplicate_identity
  /\ old.identity.same_print = {} => \A n \in DOMAIN file : Cardinality(Matches(cards, file[n])) <= 1

\* The system check, which sums up what the audit lists, warns of it whenever
\* the audit has it and of nothing else; the operations page says "critical"
\* for an issue of the audit only, and a critical mapping that the quality page
\* finds by its code is one that the audit finds by itself.  What is not ok for
\* the operations page is not for the system check.
AuditIsShown(catalog, others) ==
  \A issues \in {Audit(catalog)}, warned \in {CatalogWarnings(catalog)},
     critical \in {AtRisk(catalog, "critical")}, labels \in {Labels(catalog.cards)} :
  \A raised \in {Raised(issues.mapping) \union Raised(issues.card.merge)} :
  /\ \A type \in {"low_confidence", "inactive_without_target"} : type \in warned <=> type \in raised
  /\ "duplicate_cards" \in warned <=> "duplicate_identity" \in raised
  /\ {"critical_quality", "duplicate_url"} \cap raised # {} => "mapping_quality" \in warned
  /\ \A o \in others : \A status \in {OperationsStatus(critical, labels, o.world, o.reports)} :
       /\ status = "critical" => {"critical_quality", "duplicate_identity"} \cap raised # {}
       /\ "critical_quality" \in raised => status = "critical"
       /\ status # "ok" => SystemWarns(warned, o.world, o.backlog, o.reports)
  /\ "duplicate_url" \in raised => "critical_quality" \in raised
  /\ WithIssue(catalog, "card_code_mismatch") \subseteq issues.mapping.code_mismatch

\* A recheck makes the audit's list of mappings of low confidence that of the
\* quality page, but for a score of 1, which reads as a whole.
RecheckAgrees(catalog) ==
  LET low == LowConfidences(Rechecked(catalog))
      unlike == WithIssue(catalog, "low_confidence") IN
  \A i \in DOMAIN catalog.mappings :
    Quality!Score(QualityOf(catalog, i).pair) # 1 =>
      (i \in low <=> i \in unlike)

\* A merge leaves the pair and its source in no list of duplicates or of merge
\* states, makes no mapping a duplicate and no target a card without one; only
\* the source's prices, which stay with it, are now of a card without mapping.
MergesPassAudit(catalog) ==
  \A old \in {Audit(catalog)}, s, t \in DOMAIN catalog.cards :
    MayMerge(catalog.cards, s, t) =>
      \A new \in {Audit(MergedInto(catalog, s, t))} :
      /\ \A type \in DOMAIN new.card.merge : new.card.merge[type] \subseteq old.card.merge[type] \ {s}
      /\ new.mapping.active_of_merged \subseteq old.mapping.active_of_merged
      /\ new.mapping.duplicate_url = old.mapping.duplicate_url
      /\ new.gap.priced_unmapped \subseteq old.gap.priced_unmapped \union {s}
      /\ s \in new.gap.priced_unmapped <=> catalog.cards[s].priced
      /\ t \in new.gap.unmapped <=> {s, t} \subseteq old.gap.unmapped

\* The system check passes no source that the audit finds failed or without
\* prices for a fifth of all mappings, and the operations page calls nothing ok
\* while one is in error.
SourcesAreShown(world) ==
  \A issues \in {SourceIssues(world)}, warned \in {WorldWarnings(world)}, status \in {OperationsStatus({}, {}, world, <<>>)} :
  /\ issues.refresh_failed # {} => "price_health" \in warned /\ status # "ok"
  /\ issues.price_missing = Prices!Sources => "price_health" \in warned
  /\ status = "ok" => {Prices!SourceHealth(world, s, FALSE).status : s \in Prices!Sources} \cap {"blocked", "error"} = {}
  /\ warned = {} => status = "ok"
=============================================================================

------------------------------ MODULE Coverage -------------------------------
(***************************************************************************)
(* How well the catalog is covered: the health of the price sources and    *)
(* the gaps of the cards.                                                  *)
(*                                                                         *)
(* A world has cards, mappings, and refresh and discovery runs, the oldest *)
(* first.  A card has the age in days of its latest price at each source   *)
(* (or None), the fields it misses, the labels of the pairs of duplicates  *)
(* it is in, the risks of its mappings, and whether it is active, owned    *)
(* and wished for.  A run's filter is a source, "all", or "null" for NULL; *)
(* it is recent if it started in the last seven days.                      *)
(***************************************************************************)
EXTENDS Market, FiniteSets

Sources == {"yuyutei", "snkrdunk"}

\* RECENT_PRICE_WINDOWS, in both services.
RecentPriceWindow(source) == IF source = "snkrdunk" THEN 7 ELSE 1

\* Percentages in hundredths, 0 of nothing.
Share(n, d) == IF d = 0 THEN 0 ELSE Pct(n, d)

-----------------------------------------------------------------------------
(***************************************************************************)
(* Price source health                                                     *)
(***************************************************************************)
\* The mappings in play, of active cards or not.
Facts(world, inactive_too) == {i \in DOMAIN world.mappings : inactive_too \/ world.mappings[i].active}

Age(world, i) == world.cards[world.mappings[i].card].age[world.mappings[i].source]
IsMissing(world, i) == Age(world, i) = None
IsRecent(world, i) == ~IsMissing(world, i) /\ Age(world, i) <= RecentPriceWindow(world.mappings[i].source)
IsStale(world, i) == ~IsMissing(world, i) /\ ~IsRecent(world, i)

\* _latest_refresh_runs_by_source and _refresh_run_for_source; a run of "all"
\* sources is no source's.
RunsOf(world, source) == {i \in DOMAIN world.runs : world.runs[i].filter \in {source, "null"}}
LatestStatus(world, runs) ==
  IF runs = {} THEN "none" ELSE world.runs[CHOOSE i \in runs : \A j \in runs : j <= i].status
DiscoveryStatus(world, source) ==
  IF source # "snkrdunk" \/ world.discoveries = <<>> THEN "none" ELSE Last(world.discoveries).status

\* _recent_refresh_stats.
Succeeded(run) == run.status \in {"completed", "completed_with_warnings"}
Resolved(world, runs) ==
  {i \in runs : world.runs[i].recent /\ (Succeeded(world.runs[i]) \/ world.runs[i].status = "failed")}
Completed(world, runs) == {i \in Resolved(world, runs) : Succeeded(world.runs[i])}
SuccessRate(world, runs) == Share(Cardinality(Completed(world, runs)), Cardinality(Resolved(world, runs)))

\* Mutant: the prices are looked at before the runs.
HealthStatus_PricesFirst(world, source, active, stale, missing) ==
  LET runs == RunsOf(world, source) IN
  IF active > 0 /\ Share(stale, active) > 5000 THEN "stale"
  ELSE IF LatestStatus(world, runs) = "failed" THEN "error"
  ELSE IF DiscoveryStatus(world, source) = "blocked" THEN "blocked"
  ELSE IF active > 0 /\ Share(stale + missing, active) > 2000 THEN "degraded" ELSE "healthy"

HealthStatus(world, source, active, stale, missing) ==
  LET runs == RunsOf(world, source)
      latest == LatestStatus(world, runs)
      discovery == DiscoveryStatus(world, source) IN
  IF runs = {} /\ world.discoveries = <<>> /\ active = 0 THEN "unknown"
  ELSE IF discovery = "blocked" THEN "blocked"
  ELSE IF latest = "failed" \/ (latest = "none" /\ discovery = "failed") THEN "error"
  ELSE IF Share(stale, active) > 5000 THEN "stale"
  ELSE IF Share(stale + missing, active) > 2000 THEN "degraded"
  ELSE IF Resolved(world, runs) # {} /\ SuccessRate(world, runs) < 8000 THEN "degraded" ELSE "healthy"

\* _build_sources, of one source.
SourceHealth(world, source, inactive_too) ==
  LET facts == {i \in Facts(world, inactive_too) : world.mappings[i].source = source}
      count(Is(_, _)) == Cardinality({i \in facts : Is(world, i)})
      runs == RunsOf(world, source) IN
  [active |-> Cardinality(facts), recent |-> count(IsRecent), stale |-> count(IsStale), missing |-> count(IsMissing),
   refresh |-> LatestStatus(world, runs), rate |-> SuccessRate(world, runs),
   errors |-> Cardinality(Resolved(world, runs) \ Completed(world, runs)),
   blocked |-> Cardinality({i \in DOMAIN world.discoveries : source = "snkrdunk" /\ world.discoveries[i].recent
                                                              /\ world.discoveries[i].status = "blocked"}),
   status |-> HealthStatus(world, source, Cardinality(facts), count(IsStale), count(IsMissing))]

\* _build_breakdown, of one group of cards: every mapped card is recent, stale
\* or missing by the best of its mappings.
MappedCards(world, group) ==
  LET mapped == {c \in group : \E i \in Facts(world, FALSE) : world.mappings[i].card = c}
      some(Is(_, _), c) == \E i \in Facts(world, FALSE) : world.mappings[i].card = c /\ Is(world, i)
      recent == {c \in mapped : some(IsRecent, c)}
      stale == {c \in mapped \ recent : some(IsStale, c)} IN
  [mapped |-> mapped, recent |-> recent, stale |-> stale, missing |-> mapped \ (recent \union stale)]

LowCoverage(world, group) ==
  LET of == MappedCards(world, group) IN
  of.mapped # {} /\ Share(Cardinality(of.recent), Cardinality(of.mapped)) < 5000

Group(world, key) == {c \in DOMAIN world.cards : world.cards[c].set = key}

\* _build_gaps: the mappings in each list, one dimension of groups standing
\* for both.
PriceGaps(world) ==
  LET facts == Facts(world, FALSE)
      health(i) == SourceHealth(world, world.mappings[i].source, FALSE) IN
  [stale |-> {i \in facts : IsStale(world, i)}, missing |-> {i \in facts : IsMissing(world, i)},
   failed_refresh |-> {i \in facts : health(i).refresh = "failed"},
   blocked |-> {i \in facts : health(i).status = "blocked"},
   low_coverage |-> {i \in facts : LowCoverage(world, Group(world, world.cards[world.mappings[i].card].set))}]

\* _build_summary, of the health of the sources and the rate of all runs.
PriceSums(health, rate) ==
  LET sum(f) == health["yuyutei"][f] + health["snkrdunk"][f]
      with(status) == Cardinality({s \in Sources : health[s].status = status}) IN
  [active |-> sum("active"), recent |-> sum("recent"), without_recent |-> sum("active") - sum("recent"),
   stale |-> sum("stale"), missing |-> sum("missing"), rate |-> rate,
   blocked |-> with("blocked"), error |-> with("error")]
PriceSummary(world) == PriceSums([s \in Sources |-> SourceHealth(world, s, FALSE)], SuccessRate(world, DOMAIN world.runs))

-----------------------------------------------------------------------------
(***************************************************************************)
(* Catalog coverage                                                        *)
(***************************************************************************)
MappedSources(world, c) ==
  {world.mappings[i].source : i \in {j \in DOMAIN world.mappings : world.mappings[j].card = c /\ world.mappings[j].active}}
RecentSources(world, c) == {s \in Sources : world.cards[c].age[s] # None /\ world.cards[c].age[s] <= RecentPriceWindow(s)}

\* Fields by what missing them means; only "code" is not part of completeness.
MetadataSeverity(missing) ==
  CASE missing \cap {"code", "name"} # {} -> "critical"
    [] missing \cap {"code", "name"} = {} /\ "set" \in missing -> "warning"
    [] missing \cap {"code", "name", "set"} = {} /\ missing # {} -> "review"
    [] OTHER -> "none"
Incomplete(card) == card.misses \ {"code"} # {}

LabelRank(label) ==
  CASE label = "exact_duplicate" -> 3 [] label = "likely_duplicate" -> 2 [] label = "possible_duplicate" -> 1 [] OTHER -> 0
DuplicateSeverity(labels) ==
  IF labels = {} THEN "none"
  ELSE LET worst == CHOOSE l \in labels : \A k \in labels : LabelRank(k) <= LabelRank(l) IN
       IF LabelRank(worst) >= 2 THEN "critical" ELSE IF LabelRank(worst) = 1 THEN "warning" ELSE "review"

\* The worst level of a card's mappings, and the issues of all that are risks.
MappingRisk(risks) ==
  LET bad == {i \in DOMAIN risks : risks[i].level \in {"critical", "warning"}} IN
  [level |-> IF \E i \in bad : risks[i].level = "critical" THEN "critical" ELSE IF bad # {} THEN "warning" ELSE "none",
   issues |-> UNION {risks[i].issues : i \in bad}]

SourceSeverity(sources) == IF sources = Sources THEN "critical" ELSE IF sources # {} THEN "warning" ELSE "none"

\* _build_gaps: the severity of each gap of a card, "none" if it has it not.
CardGaps(world, c) ==
  [metadata |-> MetadataSeverity(world.cards[c].misses), mapping |-> SourceSeverity(Sources \ MappedSources(world, c)),
   price |-> SourceSeverity(Sources \ RecentSources(world, c)), duplicate |-> DuplicateSeverity(world.cards[c].labels),
   mapping_quality |-> MappingRisk(world.cards[c].risks).level]

Shown(world, inactive_too) == {c \in DOMAIN world.cards : inactive_too \/ world.cards[c].active}

\* A group of the breakdown; the summary is that of all cards.
CardCounts(world, cards) ==
  [total |-> Cardinality(cards), active |-> Cardinality({c \in cards : world.cards[c].active}),
   mapped |-> Cardinality({c \in cards : MappedSources(world, c) # {}}),
   unmapped |-> Cardinality({c \in cards : MappedSources(world, c) = {}}),
   recent |-> Cardinality({c \in cards : RecentSources(world, c) # {}}),
   owned |-> Cardinality({c \in cards : world.cards[c].owned}), wished |-> Cardinality({c \in cards : world.cards[c].wished}),
   incomplete |-> Cardinality({c \in cards : Incomplete(world.cards[c])}),
   duplicate |-> Cardinality({c \in cards : world.cards[c].labels # {}}),
   risk |-> Cardinality({c \in cards : MappingRisk(world.cards[c].risks).level # "none"})]

CatalogSummary(world, inactive_too) ==
  LET cards == Shown(world, inactive_too)
      of == CardCounts(world, cards) IN
  [counts |-> of, retired |-> of.total - of.active,
   completion |-> Share(of.total - of.incomplete, of.total), mapping |-> Share(of.total - of.unmapped, of.total),
   price |-> Share(of.recent, of.total)]

-----------------------------------------------------------------------------
(***************************************************************************)
(* Properties                                                              *)
(***************************************************************************)

\* What is fresh is fresh for all: the windows of the two services, which are
\* to be kept in sync, and that of the data quality signals call the same
\* prices recent, stale and missing.
FreshnessAgrees(world) ==
  \A i \in Facts(world, FALSE) :
    LET mapping == world.mappings[i]
        age == Age(world, i)
        series(source) == IF source = mapping.source /\ age # None THEN <<[price |-> 1, age |-> age]>> ELSE <<>>
        card == [sell |-> series("yuyutei"), buy |-> <<>>, floor |-> series("snkrdunk"), mapped |-> {mapping.source}]
        signals == DataQuality(card)
        signalled(type) == \E n \in DOMAIN signals : signals[n].type = type IN
    /\ i \in PriceGaps(world).stale <=> signalled("stale_mapping_price")
    /\ i \in PriceGaps(world).missing <=> signalled("missing_recent_price")
    /\ IsRecent(world, i) <=> mapping.source \in RecentSources(world, mapping.card)

Better == [unknown |-> 0, blocked |-> 1, error |-> 2, stale |-> 3, degraded |-> 4, healthy |-> 5]
Refreshed(world, source) ==
  [world EXCEPT !.runs = Append(@, [filter |-> source, status |-> "completed", recent |-> TRUE]),
                !.cards = [c \in DOMAIN @ |-> [@[c] EXCEPT !.age[source] = 0]]]

\* A source is no worse for a refresh of it that succeeds, and then neither in
\* error nor stale, nor for one of the other source; it is not called healthy
\* while its latest run stands failed or a fifth of its mappings has no fresh
\* price.
HealthIsEarned(world) ==
  \A source \in Sources :
    LET status(w) == SourceHealth(w, source, FALSE).status
        now == SourceHealth(world, source, FALSE) IN
    /\ Better[status(world)] <= Better[status(Refreshed(world, source))]
    /\ status(Refreshed(world, source)) \in {"blocked", "degraded", "healthy"}
    /\ \A other \in Sources \ {source} : status(Refreshed(world, other)) = status(world)
    /\ now.status = "healthy" => now.refresh # "failed" /\ Share(now.active - now.recent, now.active) <= 2000

\* The lists say what the numbers do: every mapping is recent or in one list
\* of prices, and only a source that is blocked or in error has critical gaps.
GapsAddUp(world) ==
  \A gaps \in {PriceGaps(world)}, summary \in {PriceSummary(world)}, cards \in {MappedCards(world, DOMAIN world.cards)} :
  /\ gaps.stale \cap gaps.missing = {}
  /\ summary.without_recent = Cardinality(gaps.stale \union gaps.missing)
  /\ Cardinality(gaps.stale) = summary.stale /\ Cardinality(gaps.missing) = summary.missing
  /\ \A i \in gaps.failed_refresh \union gaps.blocked :
       SourceHealth(world, world.mappings[i].source, FALSE).status \in {"blocked", "error"}
  /\ gaps.blocked # {} => summary.blocked > 0
  /\ cards.missing = {} <=> \A i \in gaps.missing : \E j \in Facts(world, FALSE) :
                               world.mappings[j].card = world.mappings[i].card /\ ~IsMissing(world, j)

\* A card that has no gap of a kind is one that the counts call covered.
CountsAreGaps(world, inactive_too) ==
  LET cards == Shown(world, inactive_too)
      counts == CatalogSummary(world, inactive_too).counts IN
  /\ counts.unmapped = Cardinality({c \in cards : CardGaps(world, c).mapping = "critical"})
  /\ counts.total - counts.recent = Cardinality({c \in cards : CardGaps(world, c).price = "critical"})
  /\ counts.duplicate = Cardinality({c \in cards : CardGaps(world, c).duplicate # "none"})
  /\ counts.risk = Cardinality({c \in cards : CardGaps(world, c).mapping_quality # "none"})
  /\ \A c \in cards : Incomplete(world.cards[c]) => CardGaps(world, c).metadata # "none"

\* The coverage of the groups adds up to the catalog's.
GroupsAddUp(world) ==
  \A inactive_too \in BOOLEAN :
    LET cards == Shown(world, inactive_too)
        keys == {world.cards[c].set : c \in cards}
        of(key) == CardCounts(world, cards \cap Group(world, key)) IN
    \A counts \in {CatalogSummary(world, inactive_too).counts} : \A f \in DOMAIN counts :
      counts[f] = FoldLeft(LAMBDA n, key : n + of(key)[f], 0, SetToSeq(keys))
=============================================================================

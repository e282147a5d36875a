---------------------------- MODULE Calculations ----------------------------
(***************************************************************************)
(* The pure calculations side by side: a behaviour picks one of the inputs *)
(* of one kind.                                                            *)
(***************************************************************************)
EXTENDS Integers, Sequences, FiniteSets

CONSTANTS Inputs,       \* of every kind, the inputs
          Surroundings, \* what else there is when a catalog is audited
          Null

VARIABLES kind, input

Items == INSTANCE ItemImports
Catalog == INSTANCE CardImports
Duplicates == INSTANCE CardIdentity
Listing == INSTANCE Matching
Copy == INSTANCE WorkerMarket
Startup == INSTANCE Environment
Advice == INSTANCE Decisions
Pages == INSTANCE PortfolioRisk
Review == INSTANCE CardAudit

-----------------------------------------------------------------------------
(***************************************************************************)
(* What the program computes from, of the kinds that theorems speak of     *)
(***************************************************************************)
IsMatch(m) == m.cards \in Seq(Listing!MatchesBy) /\ m.graded \in BOOLEAN /\ m.fuzzy \in SUBSET DOMAIN m.cards
IsMapping(m) == m.pair \in Listing!Pairs /\ m.active \in BOOLEAN

Known(values) == values \union {Copy!None}
IsCard(card) ==
  /\ {card.sell, card.buy, card.floor} \subseteq Seq([price : Nat, age : Nat])
  /\ card.mapped \subseteq {"yuyutei", "snkrdunk"}
  /\ \A i \in DOMAIN card.items : {card.items[i].cost, card.items[i].target} \subseteq Known(Nat)
IsEvent(e) == e.owned \in BOOLEAN /\ e.seen \in Nat /\ e.metric \in Known(Int)

IsEnvironment(env) == DOMAIN env = Startup!Variables /\ \A v \in Startup!Variables : env[v] \in Startup!Values(v)

IsDecision(d) ==
  LET holding == d.holding IN
  /\ {"card", "cost", "target", "quantity", "status", "graded", "newest", "wishes", "events", "tags", "groups"} \subseteq DOMAIN holding
  /\ {"sell", "buy", "floor"} \subseteq DOMAIN holding.card /\ holding.card.sell \in Seq([price : Nat, age : Nat])
  /\ holding.quantity \in Nat /\ {holding.cost, holding.target, d.wish.target, d.wish.max} \subseteq Known(Nat)
  /\ {d.low, d.high} \subseteq Nat

IsWorld(w) ==
  /\ {"cards", "mappings", "runs", "discoveries"} \subseteq DOMAIN w /\ IsFiniteSet(DOMAIN w.cards)
  /\ w.runs \in Seq([filter : STRING, status : STRING, recent : BOOLEAN])
  /\ w.mappings \in Seq([card : DOMAIN w.cards, source : Review!Prices!Sources, active : BOOLEAN])
  /\ \A c \in DOMAIN w.cards : "age" \in DOMAIN w.cards[c] /\ w.cards[c].age \in [Review!Prices!Sources -> Known(Nat)]

IsCatalog(c) ==
  /\ DOMAIN c.cards \subseteq Nat \ {0}
  /\ \A i \in DOMAIN c.cards : {"active", "into"} \subseteq DOMAIN c.cards[i] /\ c.cards[i].active \in BOOLEAN
  /\ \A i \in DOMAIN c.mappings :
       /\ {"card", "confidence"} \subseteq DOMAIN c.mappings[i] /\ c.mappings[i].card \in DOMAIN c.cards
       /\ c.mappings[i].pair \in Listing!Pairs

ASSUME CalculationsAssumption ==
  /\ \A k \in DOMAIN Inputs : Null \notin Inputs[k]
  /\ Inputs["pair"] \subseteq Duplicates!Pairs
  /\ Inputs["field"] \subseteq [source : Duplicates!Values, target : Duplicates!Values]
  /\ Inputs["listing"] \subseteq Listing!Pairs
  /\ Inputs["ranking"] \subseteq Seq(Listing!Pairs)
  /\ \A m \in Inputs["match"] : IsMatch(m)
  /\ \A m \in Inputs["mapping"] : IsMapping(m)
  /\ \A card \in Inputs["market"] : IsCard(card)
  /\ \A e \in Inputs["event"] : IsEvent(e)
  /\ \A env \in Inputs["environment"] : IsEnvironment(env)
  /\ \A d \in Inputs["decision"] : IsDecision(d)
  /\ \A w \in Inputs["world"] : IsWorld(w)
  /\ \A c \in Inputs["audit"] : IsCatalog(c)
  /\ Null \notin Int

-----------------------------------------------------------------------------
CalculationsInit == kind \in DOMAIN Inputs /\ input = Null
CalculationsNext ==
  /\ input = Null
  /\ input' \in Inputs[kind]
  /\ UNCHANGED kind
CalculationsSpec == CalculationsInit /\ [][CalculationsNext]_<<kind, input>>

Given(k) == kind = k /\ input # Null

-----------------------------------------------------------------------------
(***************************************************************************)
(* Properties                                                              *)
(***************************************************************************)

\* Files: what the validation and a dry run say of a file of items or cards is
\* what its import does; a repeated import changes nothing, and none makes two
\* rows of one key or brings the catalog an issue that the audit does not see.
ImportsAsForecast ==
  /\ Given("items") =>
       LET i == input IN
       /\ Items!DryRunIsTrue(i.kind, i.cards, i.mode, i.items, i.file)
       /\ Items!ForecastIsTrue(i.kind, i.cards, i.items, i.file)
       /\ Items!RepeatIsIdle(i.kind, i.cards, i.items, i.file)
       /\ Items!OneEntryKept(i.kind, i.cards, i.items, i.file)
  /\ Given("catalog") =>
       LET i == input IN
       /\ Catalog!DryRunIsTrue(i.overwrite, i.cards, i.file)
       /\ Catalog!ForecastIsTrue(i.overwrite, i.cards, i.file)
       /\ Catalog!RepeatIsIdle(i.overwrite, i.cards, i.file)
       /\ Catalog!IdentityKept(i.overwrite, i.cards, i.file)
       /\ Review!ImportsPassAudit(i.overwrite, i.cards, i.file)

\* Scores: what is merged, matched or left alone without a person's decision
\* is the same card, whatever the two texts differ in.
SureMeansSame ==
  /\ Given("pair") => Duplicates!SureIsSame(input) /\ Duplicates!SureIsListed(input)
  /\ Given("field") => \A strategy \in Duplicates!Strategies : Duplicates!NothingLost(strategy, input.source, input.target)
  /\ Given("listing") => Listing!SuggestedIsAlike(input)
  /\ Given("ranking") => Listing!OrderIsIdle(input)
  /\ Given("match") => Listing!MatchIsCertain(input.cards, input.graded, input.fuzzy)
  /\ Given("mapping") => Listing!OkIsSure(input)

\* Answers: what two parts of the code, or one of them before and after a
\* change, say of related data agrees.  The worker's copies of the api's signals
\* and scores give what the api's do, but for the wishlist; its sweep over the
\* environment finds what the api's finds and what the settings parsed from it
\* would do; a higher floor never turns advice to sell into advice to keep, nor
\* to wait into to buy; the services of coverage and the signals call the same
\* prices fresh, the gaps add up to the summary and to the counts, and a refresh
\* that succeeds makes its source no worse and no other source different; the
\* system check shows what the audit and the sources' health find, and a recheck
\* of mappings or a merge of duplicates leaves what the audit then passes.
AnswersAgree ==
  /\ Given("market") => Copy!SignalsAgree(input)
  /\ Given("event") => Copy!ScoresAgree(input)
  /\ Given("environment") => Startup!SweepsAgree(input) /\ Startup!StartedIsSafe(input) /\ Startup!PassedStarts(input)
  /\ Given("decision") =>
       Advice!AdviceIsMonotone(input.holding, input.wish, input.holding.events, input.low, input.high)
  /\ Given("world") =>
       /\ Review!Prices!FreshnessAgrees(input) /\ Review!Prices!GapsAddUp(input)
       /\ \A inactive_too \in BOOLEAN : Review!Prices!CountsAreGaps(input, inactive_too)
       /\ Review!Prices!HealthIsEarned(input) /\ Review!SourcesAreShown(input)
  /\ Given("audit") => Review!AuditIsShown(input, Surroundings) /\ Review!RecheckAgrees(input) /\ Review!MergesPassAudit(input)

\* Reports: a snapshot finds no event twice, a report keeps the best of every
\* category, a valuation counts every item once, and the worker's reports and
\* valuations are the api's but for wishes and grades; advice follows signals;
\* what a page of sales, coverage or analytics lists adds up to what it sums up
\* and to what the risk report and the digest say, and a risk flag has its
\* reason in what it is computed from.
ReportsHold ==
  /\ Given("market") => Copy!KeysDiffer(input) /\ Copy!Printable(input)
  /\ Given("report") => Copy!ReportIsRanked(input) /\ Copy!ReportsAgree(input, <<>>)
  /\ Given("valuation") =>
       LET all == input.items \o input.more IN
       Copy!ValuationAdds(input.items, input.more) /\ Copy!ValuationsAgree(all) /\ Copy!ReportsAgree(<<>>, all)
  /\ Given("decision") => Advice!AdviceFollowsSignals(input.holding, input.wish)
  /\ Given("holdings") => Advice!SalesAddUp(input)
  /\ Given("user") =>
       /\ Pages!PagesAddUp(input) /\ Pages!PagesAgree(input) /\ Pages!DigestAgrees(input)
       /\ Pages!RiskAgrees(input) /\ Pages!RiskIsExplained(input)
  /\ Given("world") => Review!Prices!GroupsAddUp(input)
=============================================================================

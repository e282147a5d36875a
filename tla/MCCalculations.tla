--------------------------- MODULE MCCalculations ---------------------------
(* Instances of Calculations for TLC: the inputs of every kind. *)
EXTENDS Calculations, FiniteSets, TLC

-----------------------------------------------------------------------------
(***************************************************************************)
(* Files of items                                                          *)
(***************************************************************************)
cell(code, bin, quantity, price, date, status, unchecked) ==
  [code |-> code, bin |-> bin, quantity |-> quantity, price |-> price, date |-> date, status |-> status,
   unchecked |-> unchecked]

counts == [active : 0..2, retired : 0..1]
oddRows ==
  {cell(c, "x", q, p, d, s, u) : c \in {"blank", "k"}, q \in {"blank", "word", "zero", "one"},
     p \in {"blank", "word", "negative", "zero"}, d \in {"blank", "bad"}, s \in {"blank", "good", "unknown", "removed"},
     u \in {"blank", "word", "one"}}
plainRows ==
  {cell(c, b, "one", p, "blank", s, "blank") : c \in {"blank", "k", "l"}, b \in {"x", "y"}, p \in {"zero", "one"},
     s \in {"good", "removed"}}
storedItems ==
  LET row(s) == cell("k", "x", "one", "zero", "blank", s, "blank") IN
  {<<>>, <<row("good")>>, <<row("removed")>>, <<row("removed"), row("good")>>, <<row("good"), row("good")>>}

itemFiles ==
  [kind : {"collection", "wishlist"}, cards : [{"k"} -> counts], mode : {"upsert", "append"},
   items : {of \in storedItems : Len(of) # 1}, file : {<<row>> : row \in oddRows}]
  \union
  [kind : {"collection", "wishlist"}, cards : {[k |-> [active |-> 1, retired |-> r], l |-> [active |-> 1, retired |-> 0]] : r \in 0..1},
   mode : {"upsert", "append"}, items : storedItems, file : {<<one, two>> : one \in {row \in plainRows : row.price = "zero"}, two \in plainRows}]

-----------------------------------------------------------------------------
(***************************************************************************)
(* Files of cards                                                          *)
(***************************************************************************)
card(rarity, variant, name) ==
  [code |-> "OP", set |-> "set of OP", rarity |-> rarity, variant |-> variant, language |-> "jp", name |-> name,
   artist |-> Null]
catalogs ==
  {<<>>, <<card("unknown", Null, "A")>>, <<card("R", "base", "B")>>,
   <<card("R", Null, "A"), card("unknown", Null, "A")>>}

cardRows(codes, sets, variants, languages, names, numbers) ==
  [code : codes, set : sets, rarity : {Null, "R"}, variant : variants, language : languages, name : names,
   artist : {Null, "A"}, number : numbers]
cardFiles ==
  {<<row>> : row \in cardRows({Null, "OP", "op", "odd"}, {Null}, {Null, "base", "normal", "foil"}, {Null, "english", "french"},
                              {Null, "A", "B"}, {Null, "word"})}
    \union {<<one, two>> : one, two \in cardRows({"OP", "op"}, {Null}, {Null, "base"}, {Null}, {"A", "B"}, {Null})}
catalogFiles == [cards : catalogs, overwrite : BOOLEAN, file : cardFiles]

-----------------------------------------------------------------------------
(***************************************************************************)
(* Listings, mappings and the market                                       *)
(***************************************************************************)
nothing == [code |-> "none", set |-> "unknown", rarity |-> "unknown", variant |-> "unknown", language |-> "unknown",
            en |-> "none", jp |-> "none", character |-> FALSE, type |-> FALSE, colour |-> FALSE]
somePairs ==
  {[nothing EXCEPT !.code = c, !.set = s, !.en = e, !.rarity = r] :
     c \in {"detected", "text", "none"}, s \in {"same", "other"}, e \in {"exact", "partial"}, r \in {"unknown", "same"}}
rankings == [1..2 -> somePairs] \union [1..3 -> {p \in somePairs : p.en = "exact" /\ p.rarity = "unknown"}]

matches ==
  {m \in [cards : UNION {[1..n -> Listing!MatchesBy] : n \in 0..3}, graded : BOOLEAN, fuzzy : {{}, {1}}] :
     m.fuzzy \subseteq DOMAIN m.cards}

\* The id of a mapping is its detected code, if it has a hyphen.
mappings ==
  {[pair |-> p, id |-> i, url |-> u, active |-> a, price |-> t, verified |-> v, age |-> o, verified_age |-> w] :
     p \in [code : {"detected", "text", "none"}, set : Listing!Compared, rarity : {"unknown"},
                   variant : Listing!Compared, language : Listing!Compared, en : {"exact", "partial", "none"},
                   jp : {"partial", "none"}, character : {TRUE}, type : {TRUE}, colour : {TRUE}],
     i \in {"code", "other code", "other text"}, u \in {"none", "duplicate"}, a \in BOOLEAN,
     t \in {Listing!None, 30, 31}, v \in {TRUE}, o \in {91}, w \in {Listing!None, 90}}

price(p, a) == [price |-> p, age |-> a]
sells ==
  {<<>>} \union {<<price(p, a)>> : p \in {0, 100, 125}, a \in {0, 2}}
    \union {<<price(p, 9), price(q, a)>> : p, q \in {0, 100, 110, 125}, a \in {0, 2}}
    \union {<<price(p, 40), price(q, 8), price(100, 0)>> : p, q \in {0, 80, 90, 125}}
floors == {<<>>, <<price(90, 8)>>, <<price(110, 0)>>, <<price(0, 40), price(90, 7)>>}
buys == {<<>>, <<price(55, 2)>>, <<price(80, 0)>>, <<price(55, 3), price(80, 1)>>}
owned(cost, target) == [cost |-> cost, target |-> target, quantity |-> 1, graded |-> <<>>]
collections == {<<>>, <<owned(Copy!None, 90), owned(100, Copy!None)>>, <<owned(0, 110), owned(200, 80)>>}
wish(status, target, source) == [status |-> status, target |-> target, source |-> source]
wishlists ==
  {<<>>, <<wish("watching", 100, "yuyutei"), wish("target_hit", 100, "any")>>, <<wish("purchased", 200, "any")>>,
   <<wish("watching", Copy!None, "any"), wish("watching", 90, "snkrdunk")>>}
marketCards ==
  [sell : sells, buy : buys, floor : floors, mapped : SUBSET {"yuyutei", "snkrdunk"}, items : collections, wishes : wishlists]

kinds ==
  {<<"price_up_7d", "monitor_momentum">>, <<"price_down_30d", "monitor_drop">>,
   <<"yuyutei_buy_sell_spread_wide", "none">>, <<"snkrdunk_floor_below_yuyutei_sell", "review_buy_opportunity">>,
   <<"owned_above_target_sell", "review_sell_opportunity">>, <<"owned_below_cost_basis", "monitor_drop">>,
   <<"missing_recent_price", "review_mapping">>, <<"stale_mapping_price", "update_prices">>,
   <<"wishlist_target_hit", "review_buy_opportunity">>}
event(type, status, seen, severity, metric, priority, isOwned, last) ==
  [type |-> type[1], action |-> type[2], status |-> status, seen |-> seen, severity |-> severity, metric |-> metric,
   wish |-> priority, owned |-> isOwned, last |-> last]
events ==
  {event(k, s, n, v, x, w, o, 1) :
     k \in kinds, s \in {"open", "watching"}, n \in {1, 3, 7}, v \in {"info", "warning", "critical"},
     x \in {Copy!None, 999, -2000, 4000}, w \in {"none", "grail"}, o \in BOOLEAN}
fewEvents ==
  {event(k, s, 1, "info", Copy!None, "none", FALSE, t) :
     k \in kinds, s \in {"open", "dismissed"}, t \in 1..2}
reports ==
  [1..2 -> fewEvents]
    \union {[n \in 1..7 |-> IF n < 4 THEN e ELSE IF n < 7 THEN f ELSE g] : e, f, g \in {x \in fewEvents : x.status = "open" /\ x.last = 1}}

stock == [sell : {<<>>, <<price(100, 0)>>}, buy : {<<>>, <<price(80, 0)>>}, floor : {<<>>, <<price(90, 0)>>}]
submissions ==
  {<<>>, <<[status |-> "received", value |-> 500, fee |-> 20]>>,
   <<[status |-> "sent", value |-> Copy!None, fee |-> 30], [status |-> "received", value |-> 500, fee |-> 20]>>}
held == [quantity : 1..2, cost : {Copy!None, 0, 70}, target : {Copy!None, 90}, card : stock, graded : submissions, labelled : BOOLEAN]
few == {item \in held : item.quantity = 2 /\ item.target = 90 /\ item.cost = 70 /\ item.labelled /\ item.card.sell # <<>>}
valuations == [items : {<<item>> : item \in held}, more : {<<>>} \union {<<item>> : item \in few}]

-----------------------------------------------------------------------------
(***************************************************************************)
(* Environments: a sound one with any two variables changed, and every way *)
(* to ask for the digest                                                   *)
(***************************************************************************)
soundEnvironment ==
  [v \in Startup!Variables |->
     CASE v \in Startup!Delays -> "large"
       [] v \in Startup!Times -> "zero"
       [] v \in Startup!Flags \union {"RATE_LIMIT_ENABLED"} -> "true"
       [] v = "APP_ENV" -> "production"
       [] v = "ENVIRONMENT" -> Startup!Unset
       [] v = "DATABASE_URL" -> "safe"
       [] v = "ADMIN_TOKEN" -> "long"
       [] v = "SCRAPING_MODE" -> "live"
       [] v = "MARKET_WORKFLOW_SOURCE" -> "yuyutei"
       [] v = "MARKET_WORKFLOW_LIMIT" -> "small"
       [] OTHER -> "given"]

changed(v, w) ==
  {[soundEnvironment EXCEPT ![v] = x, ![w] = y] : x \in Startup!Values(v), y \in Startup!Values(w)}
digests ==
  {[soundEnvironment EXCEPT !["MARKET_WORKFLOW_ENABLED"] = e, !["MARKET_WORKFLOW_SEND_TELEGRAM"] = s,
                            !["TELEGRAM_BOT_TOKEN"] = b, !["TELEGRAM_CHAT_ID"] = c, !["APP_ENV"] = a] :
     e, s \in Startup!Values("MARKET_WORKFLOW_ENABLED"), b, c \in Startup!Values("TELEGRAM_CHAT_ID"),
     a \in {"production", "Production", Startup!Unset}}
environments == digests \union UNION {changed(v, w) : v, w \in Startup!Variables}

-----------------------------------------------------------------------------
(***************************************************************************)
(* Holdings and wishes for one card                                        *)
(***************************************************************************)
at(prices) == [i \in DOMAIN prices |-> [price |-> prices[i], age |-> 0]]
tradedCards ==
  {[sell |-> at(s), buy |-> at(b), floor |-> at(f), mapped |-> {}] :
     s \in {<<>>, <<0>>, <<100>>}, b \in {<<>>, <<55>>, <<80>>}, f \in {<<>>, <<0>>, <<90>>, <<110>>}}

submission(status, value) == [status |-> status, value |-> value, fee |-> 20]
gradings ==
  {<<>>, <<submission("grading", Advice!None)>>, <<submission("received", 300)>>,
   <<submission("received", 300), submission("planned", Advice!None)>>}

wished(status, target, source, priority, copies, words) ==
  [status |-> status, target |-> target, source |-> source, priority |-> priority, max |-> 95, desired |-> 1,
   owned |-> copies, acquired |-> 0, words |-> words]
wishedFor ==
  {wished(s, t, o, p, n, {}) : s \in {"watching", "target_hit", "passed"}, t \in {Advice!None, 80, 100},
     o \in {"any", "yuyutei", "snkrdunk"}, p \in {"low", "grail"}, n \in {0, 1}}
someWishes ==
  {<<>>, <<wished("removed", 80, "any", "grail", 0, {})>>,
   <<wished("watching", 80, "any", "medium", 0, {}), wished("purchased", 80, "any", "high", 0, {})>>}

opportunity(type, action, isOwned) ==
  [type |-> type, action |-> action, status |-> "open", seen |-> 1, severity |-> "info", metric |-> Advice!None,
   wish |-> "none", owned |-> isOwned, last |-> 1]
cardEvents ==
  {<<>>, <<opportunity("snkrdunk_floor_above_yuyutei_sell", "review_sell_opportunity", TRUE)>>,
   <<opportunity("wishlist_target_hit", "review_buy_opportunity", FALSE), opportunity("price_down_7d", "monitor_drop", TRUE)>>}

holding(prices, cost, target, status, graded, newest, wishes, signalled, tags) ==
  [card |-> prices, cost |-> cost, target |-> target, quantity |-> 2, status |-> status, graded |-> graded,
   newest |-> newest, wishes |-> wishes, events |-> signalled, tags |-> tags, groups |-> {}]
holdings ==
  {holding(c, p, t, "holding", g, n, <<>>, <<>>, {}) :
     c \in tradedCards, p \in {Advice!None, 0, 40, 70, 100}, t \in {Advice!None, 105}, g \in gradings, n \in {1}}
    \union
  {holding(c, 60, Advice!None, s, g, Len(g), w, e, k) :
     c \in {x \in tradedCards : x.sell # <<>> /\ x.buy # <<>> /\ x.floor # <<>>}, s \in {"holding", "sell"}, g \in gradings,
     w \in someWishes, e \in cardEvents, k \in {{}, {"sell"}, {"hold"}}}

\* Every holding with a wish, and a few holdings with every wish.
decisions ==
  LET anyWish == wished("watching", 100, "any", "low", 0, {}) IN
  [holding : {h \in holdings : h.cost = 60}, wish : {anyWish}, low : {80, 99}, high : {100, 140}]
    \union [holding : {h \in holdings : h.cost \in {70, 100}}, wish : {anyWish}, low : {80}, high : {100}]
    \union [holding : {h \in holdings : h.cost = 60 /\ h.graded = <<>> /\ h.wishes = <<>> /\ h.tags = {}},
            wish : wishedFor, low : {80}, high : {100}]

-----------------------------------------------------------------------------
(***************************************************************************)
(* Catalogs with their mappings and runs                                   *)
(***************************************************************************)
covered(y, k, set, active, misses, labels, risks) ==
  [age |-> [yuyutei |-> y, snkrdunk |-> k], set |-> set, active |-> active, misses |-> misses, labels |-> labels,
   risks |-> risks, owned |-> active, wished |-> ~active]
pricedCards ==
  {<<covered(y, k, "A", TRUE, {}, {}, <<>>), covered(z, k, "B", FALSE, {}, {}, <<>>)>> :
     y, z \in {1, 2, Review!Prices!None}, k \in {7, 8, Review!Prices!None}}
risk(level) == [level |-> level, issues |-> {level}]
describedCards ==
  {<<covered(0, 9, s, a, m, l, r), covered(3, 3, "B", TRUE, {"artist"}, {}, <<risk("ok")>>)>> :
     s \in {"A", "B"}, a \in BOOLEAN, m \in SUBSET {"code", "name", "set", "artist"},
     l \in SUBSET {"exact_duplicate", "possible_duplicate", "weak_match"},
     r \in {<<>>, <<risk("ok")>>, <<risk("warning"), risk("critical")>>, <<risk("critical"), risk("warning")>>}}

mapped(c, source, active) == [card |-> c, source |-> source, active |-> active]
mappingsOf ==
  {<<>>, <<mapped(1, "yuyutei", TRUE)>>, <<mapped(1, "snkrdunk", TRUE), mapped(2, "snkrdunk", FALSE)>>,
   <<mapped(1, "yuyutei", TRUE), mapped(2, "yuyutei", TRUE), mapped(1, "snkrdunk", TRUE)>>,
   <<mapped(1, "snkrdunk", TRUE), mapped(1, "snkrdunk", TRUE), mapped(2, "yuyutei", TRUE), mapped(2, "snkrdunk", TRUE)>>}

run(filter, status, recent) == [filter |-> filter, status |-> status, recent |-> recent]
refreshes ==
  {<<>>} \union {<<run(f, s, r)>> : f \in {"yuyutei", "snkrdunk", "all", "null"}, s \in {"completed", "failed", "running"}, r \in BOOLEAN}
    \union {<<run("yuyutei", "completed", TRUE), run("yuyutei", t, TRUE), run("snkrdunk", s, TRUE), run(f, "running", TRUE)>> :
              f \in {"yuyutei", "null"}, s, t \in {"completed_with_warnings", "failed"}}
    \union {[n \in 1..k |-> run("null", "completed", TRUE)] \o <<run("null", s, TRUE)>> : s \in {"completed", "failed"}, k \in 3..5}
searches == {<<>>} \union {<<[status |-> s, recent |-> r]>> : s \in {"completed", "blocked", "failed"}, r \in BOOLEAN}

fewPriced == {c \in pricedCards : c[1].age.yuyutei = 1 /\ c[1].age.snkrdunk = 8 /\ c[2].age.snkrdunk # 7}
worlds ==
  [cards : pricedCards, mappings : {m \in mappingsOf : Len(m) # 1}, runs : {<<>>, <<run("all", "failed", TRUE)>>}, discoveries : {<<>>}]
    \union [cards : fewPriced, mappings : mappingsOf, runs : refreshes, discoveries : searches]
    \union [cards : describedCards, mappings : mappingsOf, runs : {<<>>}, discoveries : {<<>>}]

-----------------------------------------------------------------------------
(***************************************************************************)
(* Catalogs to audit: two cards that differ anyhow, or three with mappings *)
(***************************************************************************)
audited(code, set, rarity, variant, language, name, artist, active, into, negative, priced) ==
  [code |-> code, set |-> set, rarity |-> rarity, variant |-> variant, language |-> language, name |-> name,
   artist |-> artist, active |-> active, into |-> into, negative |-> negative, priced |-> priced]
kept(code, priced) == audited(code, "set of OP", "R", Null, "jp", "A", Null, TRUE, 0, FALSE, priced)
differing ==
  {audited(c, s, r, v, l, n, a, TRUE, 0, FALSE, a = Null) :
     c \in {"OP", "op", "odd"}, s \in {"set of OP", "set of op", Null}, r \in {"R", "unknown"},
     v \in {Null, "base", "Base", "foil", "blank"}, l \in {"jp", "japanese", "en", "other"}, n \in {"A", "B", Null},
     a \in {Null, "A"}}
states ==
  {audited("OP", "set of OP", "unknown", "base", "jp", "A", Null, a, i, g, p) : a, g, p \in BOOLEAN, i \in {0, 1}}

link(c, source, id, url, active, confidence, comparison, age) ==
  [card |-> c, source |-> source, id |-> id, url |-> url, active |-> active, confidence |-> confidence,
   pair |-> comparison, price |-> age]
comparisons ==
  {nothing, [nothing EXCEPT !.code = "text", !.set = "same"], [nothing EXCEPT !.character = TRUE, !.colour = TRUE, !.rarity = "other"]}
links(c) ==
  {link(c, s, i, u, a, n, p, 0) :
     s \in {1, 2}, i \in {"OP", "op", "listing"}, u \in {"op", Null}, a \in BOOLEAN, n \in {Null, 0, 54, 100, 5400, 5500},
     p \in comparisons}
plainLink(c, a) == link(c, 1, "OP", "OP", a, 9000, [nothing EXCEPT !.set = "same"], 0)

catalogsToAudit ==
  [cards : {<<kept("OP", FALSE), c>> : c \in differing}, mappings : {<<>>}]
    \union [cards : {<<kept("OP", p), c, kept("op", FALSE)>> : c \in states, p \in BOOLEAN},
            mappings : {<<>>} \union {<<plainLink(c, a), plainLink(d, TRUE)>> : c, d \in 1..3, a \in BOOLEAN}]
    \union [cards : {<<kept("OP", FALSE), kept("Q", TRUE)>>}, mappings : {<<plainLink(1, TRUE), k>> : k \in links(1) \union links(2)}]

wellCovered ==
  [cards |-> <<covered(0, 0, "A", TRUE, {}, {}, <<>>)>>, mappings |-> <<mapped(1, "yuyutei", TRUE)>>,
   runs |-> <<run("null", "completed", TRUE)>>, discoveries |-> <<>>]
MCSurroundings ==
  {[world |-> wellCovered, backlog |-> [all |-> 9, undecided |-> 9], reports |-> <<TRUE, FALSE>>],
   [world |-> wellCovered, backlog |-> [all |-> 10, undecided |-> 4], reports |-> <<FALSE>>],
   [world |-> [wellCovered EXCEPT !.runs = <<>>], backlog |-> [all |-> 0, undecided |-> 0], reports |-> <<>>]}

-----------------------------------------------------------------------------
(***************************************************************************)
(* Users with two cards, or with nine so different that nothing weighs     *)
(* much                                                                    *)
(***************************************************************************)
aged(prices, days) == [i \in DOMAIN prices |-> [price |-> prices[i], age |-> days]]
printed(s, b, f, days, listed, set, rarity) ==
  [sell |-> aged(s, days), buy |-> aged(b, days), floor |-> aged(f, days), mapped |-> {}, set |-> set, rarity |-> rarity,
   listed |-> listed]
usual(set) == printed(<<100>>, <<80>>, <<100>>, 0, TRUE, set, set)
oddCards ==
  {usual(1), printed(<<100>>, <<55>>, <<110>>, 2, TRUE, 2, 1), printed(<<100>>, <<>>, <<>>, 0, TRUE, 2, 1),
   printed(<<>>, <<>>, <<>>, 0, FALSE, 1, 1), printed(<<>>, <<80>>, <<60>>, 8, FALSE, 1, 2)}

sentTo(status, value, fee, billed, due, grade) ==
  [status |-> status, value |-> value, fee |-> fee, billed |-> billed, due |-> due, grade |-> grade]
back == sentTo("received", 300, 20, TRUE, "past", 10)
away == sentTo("grading", Pages!None, 0, FALSE, "past", Pages!None)
dropped == sentTo("cancelled", Pages!None, 5, TRUE, "soon", 9)

copy(key, cost, target, status, graded, newest, tags) ==
  [key |-> key, cost |-> cost, target |-> target, quantity |-> 2, status |-> status, graded |-> graded, newest |-> newest,
   tags |-> tags]
plainCopies(key) ==
  {copy(key, 90, Pages!None, "holding", <<>>, 1, {}), copy(key, Pages!None, 105, "holding", <<>>, 1, {"sell"}),
   copy(key, 40, Pages!None, "sold", <<>>, 1, {}), copy(key, 60, Pages!None, "holding", <<away, back>>, 1, {"hold", "sell"})}
gradedCopies(key) ==
  {copy(key, 90, 100, "holding", <<back>>, 1, {"hold"}), copy(key, 0, Pages!None, "holding", <<back, away>>, 2, {}),
   copy(key, Pages!None, Pages!None, "sell", <<dropped>>, 1, {}), copy(key, 30, Pages!None, "sold", <<back, dropped>>, 2, {})}

wishOf(key, status, target, source, priority, desired, acquired) ==
  [key |-> key, status |-> status, target |-> target, source |-> source, priority |-> priority, max |-> 95,
   desired |-> desired, owned |-> 0, acquired |-> acquired, words |-> {}]
lists ==
  {<<>>, <<wishOf(1, "watching", 100, "any", "grail", 3, 0), wishOf(2, "passed", 100, "yuyutei", "low", 5, 0)>>,
   <<wishOf(2, "removed", 80, "any", "high", 1, 0), wishOf(1, "purchased", 120, "any", "high", 1, 1),
     wishOf(2, "target_hit", 60, "snkrdunk", "medium", 1, 1)>>,
   <<wishOf(1, "watching", Pages!None, "any", "low", 3, 0), wishOf(2, "watching", 200, "any", "high", 9, 1)>>}

silent(keys) == [key \in keys |-> <<>>]
twoCards ==
  [cards : {<<usual(1), c>> : c \in oddCards} \union {<<c, printed(<<100>>, <<55>>, <<110>>, 2, TRUE, 2, 1)>> : c \in oddCards}, events : {silent(1..2)},
   holdings : {<<>>} \union {<<h>> : h \in plainCopies(1)} \union {<<h, i>> : h \in plainCopies(2) \union gradedCopies(1), i \in plainCopies(1)},
   wishes : {w \in lists : Len(w) # 0}]
nineCards ==
  [cards : {[key \in 1..9 |-> IF key = 9 THEN c ELSE usual(key)] : c \in oddCards}, events : {silent(1..9)},
   holdings : {[i \in 1..9 |-> IF i = 9 THEN h ELSE copy(i, 90, Pages!None, "holding", <<>>, 1, {})] :
                 h \in plainCopies(9) \union gradedCopies(9)},
   wishes : {w \in lists : Len(w) # 2}]

-----------------------------------------------------------------------------
MCInputs ==
  [items |-> itemFiles, catalog |-> catalogFiles, pair |-> Duplicates!Pairs,
   field |-> {[source |-> s, target |-> t] : s, t \in Duplicates!Values}, listing |-> Listing!Pairs,
   ranking |-> rankings, match |-> matches, mapping |-> mappings, market |-> marketCards, event |-> events,
   audit |-> catalogsToAudit, report |-> reports, valuation |-> valuations, environment |-> environments,
   decision |-> decisions, world |-> worlds, user |-> twoCards \union nineCards,
   holdings |-> {<<h>> \o more : h \in holdings, more \in {<<>>, <<CHOOSE k \in holdings : k.cost = 60>>}}]
=============================================================================

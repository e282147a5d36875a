---------------------------- MODULE MCOperations ----------------------------
(* Instances of Operations for TLC. *)
EXTENDS Operations, TLC

CONSTANTS c1, c2, i1, i2, p1, p2   \* checks, ingestions and prunes

rule(type, threshold) == [type |-> type, source |-> Null, price_type |-> Null, threshold |-> threshold]
MCRules ==
  {rule("price_change_pct", 10), rule("price_change_pct", -5), rule("yuyutei_buy_change_pct", 5),
   rule("stock_status_change", Null), rule("refresh_failed", Null), rule("owned_card_above_target_sell", Null),
   rule("owned_card_below_cost_basis", 10), rule("portfolio_value_change_pct", 10)}

prices(floor, sell, buy) == (<<"snkrdunk", "floor">> :> floor) @@ (<<"yuyutei", "sell">> :> sell) @@ (<<"yuyutei", "buy">> :> buy)
quiet ==
  [prices |-> prices(<<>>, <<80>>, <<0, 50>>), stock |-> [yuyutei |-> <<"in_stock">>], failed |-> {},
   items |-> [item |-> [target |-> Null, cost |-> 100]], snapshots |-> <<100, Null>>]
busy ==
  [prices |-> prices(<<100, 110>>, <<100, 90>>, <<50, 60>>), stock |-> [yuyutei |-> <<"in_stock", "out_of_stock">>],
   failed |-> {"run"}, items |-> [item |-> [target |-> 110, cost |-> 150]], snapshots |-> <<100, 90>>]

MCRuleSets == {{r} : r \in MCRules} \union {{rule("price_change_pct", 10), rule("refresh_failed", Null)}}
MCMarkets == {quiet, busy}

MCDayOf == <<"today", "today">>

MCKeep ==
  [price_observations |-> 3, portfolio_valuation_snapshots |-> 4, app_log_events |-> 2, raw_snapshots |-> 1]

groups == {"public_read", "collection_write", "admin", "import_export", "search"}
route(path, prefix, method) == [path |-> path, prefix |-> prefix, method |-> method]

MCRoutes ==
  {route("/admin/backup/export", "/admin", "GET"), route("/search", "/search", "GET"),
   route("/market/signals", "/market", "PATCH")}
MCLimit == [g \in groups |-> IF g = "import_export" THEN 1 ELSE 2]
MCWindow == [g \in groups |-> 2]

ASSUME MCAssumption == OperationsAssumption

Alike == Permutations({c1, c2}) \union Permutations({i1, i2}) \union Permutations({p1, p2})
=============================================================================

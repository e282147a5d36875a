---------------------------- MODULE BackupTables ----------------------------
(***************************************************************************)
(* The tables as backup.py lists them, and the database's foreign keys     *)
(* between them.                                                           *)
(***************************************************************************)
EXTENDS Naturals, Sequences

\* MODEL_BY_TABLE: "parents before children".
InsertOrder ==
  <<"users", "cards", "card_aliases", "sources", "collector_tags", "collector_groups", "alert_rules",
    "portfolio_valuation_snapshots", "price_refresh_runs", "raw_snapshots", "source_card_mappings",
    "collection_items", "wishlist_items", "card_tags", "collection_item_tags", "collection_item_groups",
    "grading_submissions", "price_observations", "market_intelligence_reports", "market_signal_events",
    "market_report_digest_sends", "market_workflow_runs", "analytics_digest_reports", "collector_notes",
    "collector_activity_events", "dashboard_preferences", "search_history", "app_log_events",
    "import_validation_reports", "saved_views">>

Known == {InsertOrder[i] : i \in DOMAIN InsertOrder}

\* The tables that are written before a table.
Earlier == [t \in Known |-> {InsertOrder[i] : i \in {i \in DOMAIN InsertOrder :
                              \E j \in DOMAIN InsertOrder : i < j /\ InsertOrder[j] = t}}]

OptionalTables ==
  {"price_observations", "raw_snapshots", "price_refresh_runs", "app_log_events", "import_validation_reports"}

RequiredTables == Known \ OptionalTables

\* Mutant: raw_snapshots is forgotten.
CascadeRisk_Less == {"price_observations", "price_refresh_runs"}

CascadeRisk == {"price_observations", "raw_snapshots", "price_refresh_runs"}

\* Tables with references to the others that no backup has.
Others == {"alert_events", "snkrdunk_candidates"}

\* <<child, parent>> of the foreign keys with ON DELETE CASCADE ...
Required ==
  {<<"card_aliases", "cards">>, <<"card_tags", "cards">>, <<"card_tags", "collector_tags">>,
   <<"collection_items", "users">>, <<"collection_items", "cards">>,
   <<"collection_item_groups", "collection_items">>, <<"collection_item_groups", "collector_groups">>,
   <<"collection_item_tags", "collection_items">>, <<"collection_item_tags", "collector_tags">>,
   <<"collector_groups", "users">>, <<"collector_tags", "users">>,
   <<"grading_submissions", "collection_items">>,
   <<"market_report_digest_sends", "market_intelligence_reports">>,
   <<"price_observations", "cards">>, <<"price_observations", "sources">>, <<"raw_snapshots", "sources">>,
   <<"source_card_mappings", "cards">>, <<"source_card_mappings", "sources">>,
   <<"wishlist_items", "users">>, <<"wishlist_items", "cards">>}

\* ... and of those with ON DELETE SET NULL.
Nullable ==
  {<<"cards", "cards">>} \union
  ({"collector_activity_events", "collector_notes"} \X
     {"cards", "collection_items", "wishlist_items", "grading_submissions", "market_signal_events",
      "market_intelligence_reports"}) \union
  {<<"collector_activity_events", "market_workflow_runs">>,
   <<"alert_events", "cards">>, <<"alert_events", "sources">>, <<"alert_events", "price_observations">>,
   <<"alert_events", "price_refresh_runs">>, <<"snkrdunk_candidates", "cards">>,
   <<"market_signal_events", "cards">>, <<"market_signal_events", "collection_items">>,
   <<"market_workflow_runs", "price_refresh_runs">>,
   <<"market_workflow_runs", "portfolio_valuation_snapshots">>,
   <<"market_workflow_runs", "market_intelligence_reports">>,
   <<"price_observations", "raw_snapshots">>, <<"price_observations", "snkrdunk_candidates">>,
   <<"wishlist_items", "collection_items">>}

\* What validate_backup looks up.
Checked ==
  {<<"collection_items", "cards">>, <<"source_card_mappings", "cards">>,
   <<"source_card_mappings", "sources">>, <<"market_signal_events", "cards">>,
   <<"card_aliases", "cards">>, <<"cards", "cards">>}

Tables == Known \union Others
=============================================================================

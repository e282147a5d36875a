----------------------------- MODULE MCEditing ------------------------------
(* Instances of Editing for TLC. *)
EXTENDS Editing, TLC

CONSTANTS a, b, c,      \* cards, or wishlist entries
          g1, g2,       \* tags, or keys
          m1, m2,       \* merges, or sessions
          v1, v2, v3, p, q  \* saved views and pages

MCTables == <<"collection_items">>
MCLeft == {"price_observations", "card_aliases", "snkrdunk_candidates"}
MCTableOf == ("item" :> "collection_items") @@ ("alias" :> "card_aliases")
MCTagOf == (g1 :> "tag") @@ (g2 :> "tag")

MCPageOf == (v1 :> p) @@ (v2 :> p) @@ (v3 :> q)

row(key, status) == [key |-> key, status |-> status]
MCFiles ==
  {<<row(k, status)>> : k \in {g1, g2}, status \in {"watching", "purchased", "removed"}}
    \union {<<row(k, s), row(l, t)>> : k, l \in {g1, g2}, s, t \in {"watching", "removed"}}

MCFlags ==
  {{}, {"price_observations"}, {"price_observations", "raw_snapshots"}, {"price_refresh_runs"},
   {"price_observations", "raw_snapshots", "price_refresh_runs", "app_log_events",
    "import_validation_reports"}}

Table == INSTANCE BackupTables

\* Contents in which one table has a row, or one optional reference is there,
\* with all they need; an empty one and a full one.
Needs(ts) == ts \union {e[2] : e \in {d \in Table!Required : d[1] \in ts}}
MCContents ==
  {[rows |-> Needs(Needs({t})), refs |-> {}] : t \in Table!Tables}
    \union {[rows |-> Needs(Needs({e[1], e[2]})), refs |-> {e}] : e \in Table!Nullable}
    \union {[rows |-> {}, refs |-> {}], [rows |-> Table!Tables, refs |-> Table!Nullable]}

ASSUME MCAssumption == EditingAssumption

Alike == Permutations({a, b, c}) \union Permutations({m1, m2}) \union Permutations({g1, g2})
=============================================================================

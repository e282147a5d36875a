---------------------------- MODULE ItemImports -----------------------------
(***************************************************************************)
(* CSV files of collection and wishlist items: what validate_import_csv    *)
(* forecasts of a row, and what import_collection_csv and                  *)
(* import_wishlist_csv do with a file, in a dry run and in a real one.     *)
(*                                                                         *)
(* A row has one cell of every kind that is checked; a cell holds the kind *)
(* of its text.  cards maps a card_code to the numbers of its active and   *)
(* retired cards; items are the stored rows of one user, in the order in   *)
(* which a query without ORDER BY is taken to return them.  Tags, groups   *)
(* and column headers are left out.                                        *)
(***************************************************************************)
EXTENDS Naturals, Sequences, FiniteSets, SequencesExt

Numbers == {"negative", "zero", "one"}

Key(row) == <<row.code, row.bin>>   \* card, condition and source

\* What both sides check alike: quantity (desired_quantity of a wishlist item
\* may be blank), prices, date, status and priority.
Checked(kind, row) ==
  /\ row.quantity \in IF kind = "collection" THEN {"one"} ELSE {"blank", "one"}
  /\ row.price \in {"blank", "zero", "one"}
  /\ kind = "collection" => row.date \in {"blank", "good"}
  /\ row.status # "unknown"

Removed(kind, row) == kind = "wishlist" /\ row.status = "removed"

\* The stored items that an import may update, by index.
Existing(kind, items, key) ==
  {i \in DOMAIN items : Key(items[i]) = key /\ ~Removed(kind, items[i])}

-----------------------------------------------------------------------------
(***************************************************************************)
(* Validation                                                              *)
(***************************************************************************)

\* Exactly one active card has the code.
Known(cards, row) == row.code # "blank" /\ cards[row.code].active = 1

\* _validate_collection_row and _validate_wishlist_row.
Forecast(kind, cards, items, row) ==
  IF ~Known(cards, row) \/ ~Checked(kind, row) THEN "invalid"
  ELSE IF Existing(kind, items, Key(row)) = {} THEN "create" ELSE "update"

-----------------------------------------------------------------------------
(***************************************************************************)
(* Import                                                                  *)
(***************************************************************************)

\* _parse_row: the one card with the code may be retired; row.unchecked
\* stands for target_sell_price_jpy or acquired_quantity.
Parsed(kind, cards, row) ==
  /\ row.code # "blank" /\ cards[row.code].active + cards[row.code].retired = 1
  /\ Checked(kind, row)
  /\ row.unchecked \in {"blank", "zero", "one"}

Created(acc, row, key, dry) ==
  [items   |-> IF dry THEN acc.items ELSE Append(acc.items, row),
   batch   |-> [k \in DOMAIN acc.batch \union key |->
                  IF k \in key THEN Len(acc.items) + 1 ELSE acc.batch[k]],
   actions |-> Append(acc.actions, "create")]

Updated(acc, row, i, dry) ==
  [items   |-> IF dry THEN acc.items ELSE [acc.items EXCEPT ![i] = row],
   batch   |-> [k \in DOMAIN acc.batch \union {Key(row)} |-> IF k = Key(row) THEN i ELSE acc.batch[k]],
   actions |-> Append(acc.actions, "update")]

\* Mutant: a dry run forgets the file's earlier rows.
Claimed_Real(acc, row, dry) == ~dry /\ Key(row) \in DOMAIN acc.batch

\* batch_upsert_targets has the row's key.
Claimed(acc, row, dry) == Key(row) \in DOMAIN acc.batch

Step(kind, cards, mode, dry, acc, row) ==
  LET found == Existing(kind, acc.items, Key(row)) IN
  IF ~Parsed(kind, cards, row) THEN [acc EXCEPT !.actions = Append(@, "invalid")]
  ELSE IF mode = "append" THEN Created(acc, row, {}, dry)
  ELSE IF Claimed(acc, row, dry) THEN Updated(acc, row, acc.batch[Key(row)], dry)
  ELSE IF found # {} THEN Updated(acc, row, CHOOSE i \in found : \A j \in found : i <= j, dry)
  ELSE Created(acc, row, {Key(row)}, dry)

Import(kind, cards, mode, dry, items, file) ==
  FoldLeft(LAMBDA acc, row : Step(kind, cards, mode, dry, acc, row),
           [items |-> items, batch |-> <<>>, actions |-> <<>>], file)

-----------------------------------------------------------------------------
(***************************************************************************)
(* Properties                                                              *)
(***************************************************************************)

\* A dry run reports what the real run does with every row of the file, the
\* rows after the first of their key included.
DryRunIsTrue(kind, cards, mode, items, file) ==
  Import(kind, cards, mode, TRUE, items, file).actions = Import(kind, cards, mode, FALSE, items, file).actions

\* The validation "can never desync from what a real import does": the first
\* row of its key gets the forecast action, if no retired card has its code
\* and the cell that only the importer checks is fine.
ForecastIsTrue(kind, cards, items, file) ==
  \A n \in DOMAIN file :
    LET row == file[n] IN
    (/\ row.code # "blank" => cards[row.code].retired = 0
     /\ row.unchecked \in {"blank", "zero", "one"}
     /\ \A m \in 1..(n - 1) : Key(file[m]) # Key(row))
    => Import(kind, cards, "upsert", FALSE, items, file).actions[n] = Forecast(kind, cards, items, row)

\* A second upsert of the same file changes nothing; one that removes wishlist
\* entries would create them again.
RepeatIsIdle(kind, cards, items, file) ==
  LET once == Import(kind, cards, "upsert", FALSE, items, file).items IN
  (\A n \in DOMAIN file : ~Removed(kind, file[n]))
    => Import(kind, cards, "upsert", FALSE, once, file).items = once

\* An upsert never makes a second entry of a key ("one non-removed wishlist
\* entry per (card, preferred_condition, preferred_source)").
OneEntryKept(kind, cards, items, file) ==
  LET entries(stored) == \A k \in {Key(stored[i]) : i \in DOMAIN stored} : Cardinality(Existing(kind, stored, k)) <= 1 IN
  entries(items) => entries(Import(kind, cards, "upsert", FALSE, items, file).items)
=============================================================================

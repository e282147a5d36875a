---------------------------- MODULE CardImports -----------------------------
(***************************************************************************)
(* The card catalog's CSV file: what validate_import_csv forecasts of a    *)
(* row, and what import_cards_csv does with a file.                        *)
(*                                                                         *)
(* A card has its five identity columns and two metadata columns, name and *)
(* artist (a column that need not be given); Null is NULL and a blank      *)
(* cell.  A code's set is inferred unless it is given, texts differ in     *)
(* case only between "OP" and "op".  Warnings other than that of a         *)
(* duplicate row, which no decision depends on, are left out.              *)
(***************************************************************************)
EXTENDS Naturals, Sequences, FiniteSets, SequencesExt

CONSTANT Null

Upper(text) == CASE text = "op" -> "OP" [] text = "set of op" -> "set of OP" [] OTHER -> text
Language(text) == CASE text \in {Null, "japanese", "jp"} -> "jp" [] text \in {"english", "en"} -> "en" [] OTHER -> Null
Variant(text) == IF text = "normal" THEN "base" ELSE text
SetCode(row) == IF row.set = Null THEN "set of " \o row.code ELSE row.set
Rarity(row) == IF row.rarity = Null THEN "unknown" ELSE row.rarity

\* _validate_card_catalog_row and _parse_row check the same cells ...
Readable(row) ==
  /\ row.code # Null /\ row.name # Null
  /\ Language(row.language) # Null
  /\ row.number \in {Null, "one"}       \* cost, power, counter, release_date

\* ... and the validation the format of the code, too.
WellFormed(row) == row.code # "odd"

\* Mutant: any rarity is left out of the match.
Matches_AnyRarity(cards, row) ==
  {i \in DOMAIN cards :
     /\ cards[i].code = row.code /\ cards[i].set = SetCode(row)
     /\ cards[i].language = Language(row.language) /\ cards[i].variant = Variant(row.variant)}

\* _find_existing_card, by index.  A blank rarity matches any, a blank variant NULL.
Matches(cards, row) ==
  {i \in DOMAIN cards :
     /\ cards[i].code = row.code /\ cards[i].set = SetCode(row)
     /\ cards[i].language = Language(row.language) /\ cards[i].variant = Variant(row.variant)
     /\ row.rarity \in {Null, cards[i].rarity}}

-----------------------------------------------------------------------------
(***************************************************************************)
(* Validation                                                              *)
(***************************************************************************)

Differs(card, row) ==
  \/ row.name # card.name
  \/ row.artist \notin {Null, card.artist}

Forecast(cards, row) ==
  LET found == Matches(cards, row) IN
  IF ~Readable(row) \/ ~WellFormed(row) \/ Cardinality(found) > 1 THEN "invalid"
  ELSE IF found = {} THEN "create"
  ELSE IF \E i \in found : Differs(cards[i], row) THEN "update" ELSE "skip"

DedupeKey(row) ==
  <<Upper(row.code), Upper(SetCode(row)), IF row.variant = Null THEN "base" ELSE Variant(row.variant),
    Language(row.language)>>

\* No row gets the warning duplicate_row.
NoDuplicates(file) ==
  \A m, n \in DOMAIN file :
    m # n /\ Null \notin {file[m].code, file[m].name, file[n].code, file[n].name}
      => DedupeKey(file[m]) # DedupeKey(file[n])

-----------------------------------------------------------------------------
(***************************************************************************)
(* Import                                                                  *)
(***************************************************************************)

\* _resolve_field.
Resolved(old, new, overwrite) ==
  IF new = Null \/ (old # Null /\ ~overwrite) THEN old ELSE new

\* _identity_changes leave a card as it is that matches.
Changed(card, row, overwrite) ==
  [card EXCEPT !.rarity = IF row.rarity = Null THEN @ ELSE row.rarity,
               !.name = Resolved(@, row.name, overwrite), !.artist = Resolved(@, row.artist, overwrite)]

Created(row) ==
  [code |-> row.code, set |-> SetCode(row), rarity |-> Rarity(row), variant |-> Variant(row.variant),
   language |-> Language(row.language), name |-> row.name, artist |-> row.artist]

Step(dry, overwrite, acc, row) ==
  LET found == Matches(acc.cards, row)
      i == CHOOSE j \in found : TRUE
      new == Changed(acc.cards[i], row, overwrite)
      does(action, cards) == [cards |-> IF dry THEN acc.cards ELSE cards, actions |-> Append(acc.actions, action)] IN
  IF ~Readable(row) \/ Cardinality(found) > 1 THEN does("invalid", acc.cards)
  ELSE IF found = {} THEN does("create", Append(acc.cards, Created(row)))
  ELSE IF new # acc.cards[i] THEN does("update", [acc.cards EXCEPT ![i] = new])
  ELSE does("skip", acc.cards)

Import(dry, overwrite, cards, file) ==
  FoldLeft(LAMBDA acc, row : Step(dry, overwrite, acc, row), [cards |-> cards, actions |-> <<>>], file)

-----------------------------------------------------------------------------
(***************************************************************************)
(* Properties                                                              *)
(***************************************************************************)

\* A dry run, which does not see the cards that the file's earlier rows
\* create, reports what the real run does, if the validation finds no
\* duplicate rows.
DryRunIsTrue(overwrite, cards, file) ==
  NoDuplicates(file) =>
    Import(TRUE, overwrite, cards, file).actions = Import(FALSE, overwrite, cards, file).actions

\* A row of a well-formed code gets the forecast action; without overwrite an
\* update that was forecast may be skipped.
ForecastIsTrue(overwrite, cards, file) ==
  \A n \in DOMAIN file :
    LET does == Import(TRUE, overwrite, cards, file).actions[n]
        forecast == Forecast(cards, file[n]) IN
    file[n].code = Null \/ WellFormed(file[n]) =>
      \/ does = forecast
      \/ ~overwrite /\ forecast = "update" /\ does = "skip"

\* "Safe to call repeatedly": a second import of the same file creates no
\* card, and without overwrite it changes nothing.
RepeatIsIdle(overwrite, cards, file) ==
  LET once == Import(FALSE, overwrite, cards, file).cards
      twice == Import(FALSE, overwrite, once, file).cards IN
  /\ Len(twice) = Len(once)
  /\ ~overwrite => twice = once

\* No import makes two cards of one identity, NULL variants included, which
\* the unique constraint takes to differ.
Identity(card) == <<card.code, card.set, card.rarity, card.variant, card.language>>
IdentityKept(overwrite, cards, file) ==
  LET unique(stored) == \A i, j \in DOMAIN stored : Identity(stored[i]) = Identity(stored[j]) => i = j IN
  unique(cards) => unique(Import(FALSE, overwrite, cards, file).cards)
=============================================================================

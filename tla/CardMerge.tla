----------------------------- MODULE CardMerge ------------------------------
(***************************************************************************)
(* Merging of duplicate cards: POST /admin/cards/merge.  A merge reads its *)
(* two cards without a lock, gives the source's rows in some tables to the *)
(* target, one UPDATE a table, and retires the source in its one commit.   *)
(* The rows that name the source in other tables it leaves as they are.    *)
(* Which pairs score high enough is free here (a request may approve any   *)
(* score); the score is module CardIdentity's.                             *)
(*                                                                         *)
(* An UPDATE that has to wait for another merge's row locks is taken to    *)
(* begin when they are gone.                                               *)
(***************************************************************************)
EXTENDS Naturals, FiniteSets, Sequences

CONSTANTS Cards,
          MovedTables,   \* the tables that a merge UPDATEs, in that order
          LeftTables,    \* the tables that name a card and that no merge touches, but to
                         \* add aliases: price_observations, card_aliases, snkrdunk_candidates
          Rows,          \* rows of both ...
          TableOf,       \* ... and the table of each
          TagRows,       \* rows of card_tags ...
          TagOf,         \* ... and the tag of each
          Merges,        \* requests
          NoCard

CardMergeAssumption ==
  /\ NoCard \notin Cards
  /\ MovedTables \in Seq({MovedTables[i] : i \in DOMAIN MovedTables})
  /\ \A i \in DOMAIN MovedTables : MovedTables[i] \notin LeftTables
  /\ "card_aliases" \in LeftTables
  /\ TableOf \in [Rows -> {MovedTables[i] : i \in DOMAIN MovedTables} \union LeftTables]
  /\ Rows \intersect TagRows = {}

VARIABLES
  cards,  \* the cards: are they active, and merged into which
  at,     \* the card of every row, NoCard if there is no such row
  merge,  \* every request, with what its transaction has written so far
  raced,  \* history: cards that two merges had in their hands at once
  late    \* history: rows that merges move, put on a card that was retired or
          \* about to be, and tags that the target had already

vars == <<cards, at, merge, raced, late>>

AllRows == Rows \union TagRows

CardStates == [active : BOOLEAN, into : Cards \union {NoCard}]
Idle == [open |-> FALSE, source |-> NoCard, target |-> NoCard, into |-> NoCard, was |-> TRUE,
         done |-> 0, moved |-> {}, tagged |-> FALSE]

MergeStates ==
  [open : BOOLEAN, source : Cards \union {NoCard}, target : Cards \union {NoCard},
   into : Cards \union {NoCard}, was : BOOLEAN,     \* the source as it was loaded
   done : Nat, moved : SUBSET AllRows, tagged : BOOLEAN]

TypeOK ==
  /\ cards \in [Cards -> CardStates]
  /\ at \in [AllRows -> Cards \union {NoCard}]
  /\ merge \in [Merges -> MergeStates]
  /\ raced \subseteq Cards /\ late \subseteq AllRows

Init ==
  /\ cards = [k \in Cards |-> [active |-> TRUE, into |-> NoCard]]
  /\ at = [r \in AllRows |-> NoCard]
  /\ merge = [m \in Merges |-> Idle]
  /\ raced = {} /\ late = {}

-----------------------------------------------------------------------------
Open == {m \in Merges : merge[m].open}
InHand(m) == {merge[m].source, merge[m].target}
Leaving == {merge[m].source : m \in Open}
Held(r) == \E m \in Open : r \in merge[m].moved \intersect Rows
Stays(r) == r \in Rows /\ TableOf[r] \in LeftTables

\* Mutant: a retired card is taken as a target.
MayMerge_AnyTarget(source, target) ==
  /\ source # target
  /\ cards[source].into \in {NoCard, target}

\* execute_card_merge's checks.  A card that is merged already may be merged
\* into the same target again.
MayMerge(source, target) ==
  /\ source # target
  /\ cards[target].active /\ cards[target].into = NoCard
  /\ cards[source].into \in {NoCard, target}

Begin(m, source, target) ==
  /\ ~merge[m].open /\ MayMerge(source, target)
  /\ merge' = [merge EXCEPT ![m] =
       [Idle EXCEPT !.open = TRUE, !.source = source, !.target = target,
                    !.into = cards[source].into, !.was = cards[source].active]]
  /\ raced' = raced \union UNION {InHand(n) \intersect {source, target} : n \in Open}
  /\ UNCHANGED <<cards, at, late>>

\* Mutant: the last table is forgotten.
LastTable_Less == Len(MovedTables) - 1

LastTable == Len(MovedTables)

\* UPDATE ... SET card_id = target WHERE card_id = source, for the next table.
MoveTable(m) ==
  LET rows == {r \in Rows : TableOf[r] = MovedTables[merge[m].done + 1] /\ at[r] = merge[m].source} IN
  /\ merge[m].open /\ merge[m].done < LastTable
  /\ \A r \in rows : ~Held(r)
  /\ merge' = [merge EXCEPT ![m].done = @ + 1, ![m].moved = @ \union rows]
  /\ UNCHANGED <<cards, at, raced, late>>

\* _reassign_card_tags: a tag that the target has stays where it is.
MoveTags(m) ==
  LET has == {TagOf[r] : r \in {g \in TagRows : at[g] = merge[m].target}}
      rows == {r \in TagRows : at[r] = merge[m].source} IN
  /\ merge[m].open /\ merge[m].done = LastTable /\ ~merge[m].tagged
  /\ merge' = [merge EXCEPT ![m].tagged = TRUE,
                            ![m].moved = @ \union {r \in rows : TagOf[r] \notin has}]
  /\ late' = late \union {r \in rows : TagOf[r] \in has}
  /\ UNCHANGED <<cards, at, raced>>

\* The ORM's UPDATEs of card_tags find their rows, and no tag is twice on a card.
Accepted(m) ==
  \A r \in merge[m].moved \intersect TagRows :
    /\ at[r] # NoCard
    /\ \A g \in TagRows : at[g] = merge[m].target /\ TagOf[g] = TagOf[r] => g \in merge[m].moved

\* The ORM writes what differs from what it has loaded.
Retired(card, m) ==
  [active |-> IF merge[m].was THEN FALSE ELSE card.active,
   into   |-> IF merge[m].into = merge[m].target THEN card.into ELSE merge[m].target]

\* _create_merge_aliases: the target gets an alias for each name of the source
\* that it does not have itself.
NewAliases == SUBSET {r \in Rows : TableOf[r] = "card_aliases" /\ at[r] = NoCard}

Commit(m) ==
  /\ merge[m].open /\ merge[m].tagged /\ Accepted(m)
  /\ cards' = [cards EXCEPT ![merge[m].source] = Retired(@, m)]
  /\ \E added \in NewAliases :
       at' = [r \in AllRows |-> IF r \in merge[m].moved \union added THEN merge[m].target ELSE at[r]]
  /\ merge' = [merge EXCEPT ![m] = Idle]
  /\ UNCHANGED <<raced, late>>

\* A statement raises, or the process dies.
Abort(m) ==
  /\ merge[m].open
  /\ merge' = [merge EXCEPT ![m] = Idle]
  /\ UNCHANGED <<cards, at, raced, late>>

\* The rest of the system adds rows to a card and deletes them.
Add(r, k) ==
  /\ at[r] = NoCard
  /\ r \in TagRows => \A g \in TagRows : ~(at[g] = k /\ TagOf[g] = TagOf[r])
  /\ at' = [at EXCEPT ![r] = k]
  /\ late' = IF ~Stays(r) /\ (~cards[k].active \/ k \in Leaving) THEN late \union {r} ELSE late \ {r}
  /\ UNCHANGED <<cards, merge, raced>>

Remove(r) ==
  /\ at[r] # NoCard /\ ~Held(r)
  /\ at' = [at EXCEPT ![r] = NoCard]
  /\ UNCHANGED <<cards, merge, raced, late>>

Next ==
  \/ \E m \in Merges :
       \/ \E s, t \in Cards : Begin(m, s, t)
       \/ MoveTable(m) \/ MoveTags(m) \/ Commit(m) \/ Abort(m)
  \/ \E r \in AllRows : Remove(r) \/ \E k \in Cards : Add(r, k)

Spec == Init /\ [][Next]_vars

-----------------------------------------------------------------------------
(***************************************************************************)
(* Properties                                                              *)
(***************************************************************************)

\* What a merge moves follows its card through any chain of merges: a row is on
\* a retired card only if it came too late, or if two merges met there.  The
\* exception are the tables that execute_card_merge leaves out: the docstring
\* says that "every other table's card_id foreign keys are reassigned", but the
\* prices, the aliases and the matched candidates of a card stay with it.
RowsFollow ==
  \A r \in AllRows :
    at[r] # NoCard /\ ~cards[at[r]].active => at[r] \in raced \/ r \in late \/ Stays(r)

\* Merges make no cycle of retired cards, whatever their order: of any set of
\* retired cards one was merged into a card outside of it, unless two merges
\* met in the set.  (Two merges in opposite directions do make one.)
MergesEnd ==
  \A ks \in (SUBSET {k \in Cards : ~cards[k].active /\ k \notin raced}) \ {{}} :
    \E k \in ks : cards[k].into \notin ks
=============================================================================

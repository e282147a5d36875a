------------------------------ MODULE Wishlist ------------------------------
(***************************************************************************)
(* The wishlist entries of one user.  A key stands for a card with the     *)
(* preferred condition and source.  Requests look for a conflicting entry  *)
(* and write in one transaction that locks nothing but the rows it writes; *)
(* requests that look for none are one step.  No constraint of the         *)
(* database helps: the columns may be NULL.                                *)
(***************************************************************************)
EXTENDS Naturals, Sequences

CONSTANTS Entries,   \* ids
          Keys, Sessions,
          Files,     \* imported CSV files: sequences of rows, each a key and a status
          None       \* no such entry, or a column that is not written

\* "target_hit" and "passed" are as "watching" and "purchased" here.
Statuses == {"watching", "purchased", "removed"}

VARIABLES
  entry,    \* the stored entries
  session,  \* requests between their look and their commit
  excused   \* history: entries that were appended by a file, taken back from
            \* "removed" by a purchase, or written after a look that another
            \* commit has made stale

vars == <<entry, session, excused>>

Items == [key : Keys, status : Statuses]

WishlistAssumption ==
  /\ None \notin Keys \union Statuses \union Items
  /\ Files \subseteq Seq(Items)

\* The columns of some entries that a request is to write.
Writes == UNION {[es -> [key : Keys \union {None}, status : Statuses \union {None}]] : es \in SUBSET Entries}

SessionStates == [open : BOOLEAN, fresh : BOOLEAN, appends : BOOLEAN, writes : Writes]

Idle == [open |-> FALSE, fresh |-> TRUE, appends |-> FALSE, writes |-> <<>>]

TypeOK ==
  /\ entry \in [Entries -> Items \union {None}]
  /\ session \in [Sessions -> SessionStates]
  /\ excused \subseteq Entries

Init ==
  /\ entry = [e \in Entries |-> None]
  /\ session = [s \in Sessions |-> Idle]
  /\ excused = {}

-----------------------------------------------------------------------------
Stored == {e \in Entries : entry[e] # None}
Staged == UNION {DOMAIN session[s].writes : s \in Sessions}
Spare == Entries \ (Stored \union Staged)

\* find_conflicting_wishlist_item.
Conflicts(key, but) ==
  {e \in Stored \ but : entry[e].key = key /\ entry[e].status # "removed"}

Opened(s, writes, appends) ==
  session' = [session EXCEPT ![s] = [open |-> TRUE, fresh |-> TRUE, appends |-> appends, writes |-> writes]]

\* The ORM writes the columns that differ from what it has loaded.
Write(e, key, status) ==
  IF e \notin Stored THEN [key |-> key, status |-> status]
  ELSE [key    |-> IF key = entry[e].key THEN None ELSE key,
        status |-> IF status = entry[e].status THEN None ELSE status]

WriteOne(e, key, status) == [f \in {e} |-> Write(e, key, status)]

\* POST /wishlist.  The client may give any status.
Create(s, e, key, status) ==
  /\ ~session[s].open /\ e \in Spare /\ Conflicts(key, {}) = {}
  /\ Opened(s, WriteOne(e, key, status), FALSE)
  /\ UNCHANGED <<entry, excused>>

\* Mutant: only a new condition or source is looked at.
Free_KeyOnly(e, key, status) == key # entry[e].key => Conflicts(key, {e}) = {}

Free(e, key, status) == status # "removed" => Conflicts(key, {e}) = {}

\* PATCH /wishlist/{id}, with any of the two columns.
Update(s, e, key, status) ==
  /\ ~session[s].open /\ e \in Stored /\ Free(e, key, status)
  /\ Opened(s, WriteOne(e, key, status), FALSE)
  /\ UNCHANGED <<entry, excused>>

\* The entry of each row of a file.  An upsert takes a conflicting one, that
\* which the query returns, and one entry for all rows of a key
\* (batch_upsert_targets).
Targets(mode, file) ==
  LET found == [k \in Keys |-> IF mode = "upsert" THEN Conflicts(k, {}) ELSE {}]
      open == [k \in Keys |-> IF found[k] # {} THEN found[k] ELSE Spare]
      Same(m, n) == m = n \/ (mode = "upsert" /\ file[m].key = file[n].key) IN
  {to \in [DOMAIN file -> Entries] :
     /\ \A n \in DOMAIN file : to[n] \in open[file[n].key]
     /\ \A m, n \in DOMAIN file : to[m] = to[n] <=> Same(m, n)}

\* import_wishlist_csv, in real runs: of the rows of one entry the last counts.
Import(s, mode, file) ==
  /\ ~session[s].open
  /\ \E to \in Targets(mode, file) :
       LET last(e) == CHOOSE n \in DOMAIN file : to[n] = e /\ \A m \in DOMAIN file : to[m] = e => m <= n IN
       Opened(s, [e \in {to[n] : n \in DOMAIN file} |-> Write(e, file[last(e)].key, file[last(e)].status)],
              mode = "append")
  /\ UNCHANGED <<entry, excused>>

\* What is stored once the columns are written.
Written(writes) ==
  [e \in Entries |->
     IF e \notin DOMAIN writes THEN entry[e]
     ELSE [key    |-> IF writes[e].key = None THEN entry[e].key ELSE writes[e].key,
           status |-> IF writes[e].status = None THEN entry[e].status ELSE writes[e].status]]

Commit(s) ==
  LET writes == session[s].writes IN
  /\ session[s].open
  /\ entry' = Written(writes)
  /\ session' = [t \in Sessions |-> IF t = s THEN Idle ELSE [session[t] EXCEPT !.fresh = ~session[t].open]]
  /\ excused' = IF session[s].fresh /\ ~session[s].appends THEN excused
                ELSE excused \union DOMAIN writes

\* A 404 or 500, or the process dies.
Abort(s) ==
  /\ session[s].open
  /\ session' = [session EXCEPT ![s] = Idle]
  /\ UNCHANGED <<entry, excused>>

\* Requests that look for no conflict.
Set(e, status) ==
  /\ entry' = [entry EXCEPT ![e].status = status]
  /\ session' = [t \in Sessions |-> [session[t] EXCEPT !.fresh = ~session[t].open]]

\* DELETE /wishlist/{id}.
Delete(e) == e \in Stored /\ Set(e, "removed") /\ UNCHANGED excused

\* POST mark-purchased and convert-to-collection, of a removed entry, too.
Purchase(e) ==
  /\ e \in Stored /\ Set(e, "purchased")
  /\ excused' = IF entry[e].status = "removed" THEN excused \union {e} ELSE excused

Next ==
  \/ \E s \in Sessions :
       \/ \E e \in Entries, key \in Keys, status \in Statuses : Create(s, e, key, status) \/ Update(s, e, key, status)
       \/ \E mode \in {"upsert", "append"}, file \in Files : Import(s, mode, file)
       \/ Commit(s) \/ Abort(s)
  \/ \E e \in Entries : Delete(e) \/ Purchase(e)

Spec == Init /\ [][Next]_vars

-----------------------------------------------------------------------------
(***************************************************************************)
(* Properties                                                              *)
(***************************************************************************)

\* "One non-removed wishlist entry per (card, preferred_condition,
\* preferred_source)", through edits, removals, returns and upserts of whole
\* files; the exceptions are entries that a file appended, that a purchase
\* took back from "removed", or that were written although another request
\* committed after the look.  (A merge of two cards, which moves the entries of
\* one to the other without a look, is no step of this module.)
OneEntry ==
  \A e, f \in Stored \ excused :
    /\ e # f /\ entry[e].key = entry[f].key
    => "removed" \in {entry[e].status, entry[f].status}
=============================================================================

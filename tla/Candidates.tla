----------------------------- MODULE Candidates -----------------------------
(***************************************************************************)
(* SNKRDUNK listings and the cards they are matched to: the tables         *)
(* snkrdunk_candidates and source_card_mappings, the worker's discovery    *)
(* and import runs, the automatic rematch, the two review APIs of          *)
(* candidates and the review of mappings.                                  *)
(*                                                                         *)
(* A candidate is named by its source_url.  Every writer is a session: it  *)
(* loads rows, changes its copies, and its commit writes the columns that  *)
(* differ from what it loaded.  A run's early flushes lock rows that its   *)
(* commit writes anyway; the model lets others go on in between, which     *)
(* only adds behaviours.  best_match_* are advice that no write reads.     *)
(***************************************************************************)
EXTENDS Naturals, FiniteSets

CONSTANTS Cands,       \* candidates, by source_url
          Cards,
          Runs,        \* discovery and import runs of the worker
          Discoveries, \* those of them that discover
          Rematches,   \* rematch and rematch-all requests
          Users,       \* requests of people
          Ranks,       \* what a ranking of a candidate may come to
          Edits,       \* the review actions that people use on one mapping ...
          BulkEdits,   \* ... and on several
          MaxMaps,     \* bound: rows of source_card_mappings
          MaxOpen,     \* bound: sessions at a time
          NoCard, NoUrl

AutoSettable == {"unmatched", "suggested", "ambiguous"}

AllEdits == {"approve", "replace", "replace_approve", "patch_url"}
AllBulkEdits == {"bulk_approve", "reject", "deactivate", "activate", "mark_verified", "mark_pending"}

ASSUME CandidatesAssumption ==
  /\ Discoveries \subseteq Runs /\ Ranks \subseteq AutoSettable /\ Edits \subseteq AllEdits
  /\ BulkEdits \subseteq AllBulkEdits /\ MaxMaps \in Nat /\ MaxOpen \in Nat
  /\ NoCard \notin Cards /\ NoUrl \notin Cands
  /\ Runs \intersect Rematches = {} /\ Runs \intersect Users = {} /\ Rematches \intersect Users = {}

VARIABLES
  cand,     \* the candidates
  maps,     \* the mappings
  sess,     \* every session: its copies of the rows, as loaded and as changed
  decision, \* history: what a person last decided of a candidate, unless
            \* another session met theirs
  human     \* history: a mapping as a person last left it, likewise

vars == <<cand, maps, sess, decision, human>>

-----------------------------------------------------------------------------
Statuses == {"unmatched", "suggested", "ambiguous", "matched", "rejected"}
Candidates == [status : Statuses \union {"absent"}, card : Cards \union {NoCard}]
Absent == [status |-> "absent", card |-> NoCard]

MapIds == 1 .. MaxMaps
Mappings == [card : Cards \union {NoCard}, url : Cands \union {NoUrl}, verified : BOOLEAN,
             active : BOOLEAN, review : {"none", "approved", "needs_review", "rejected"}]
NoMapping == [card |-> NoCard, url |-> NoUrl, verified |-> FALSE, active |-> FALSE, review |-> "none"]

\* History: a person changed the mapping, and another session met theirs.
Raced == [NoMapping EXCEPT !.active = TRUE]

Sessions == Runs \union Rematches \union Users
Automatic == Runs \union Rematches

Idle == [open |-> FALSE, over |-> FALSE,
         loaded |-> [c \in Cands |-> Absent], want |-> [c \in Cands |-> Absent],
         had |-> [m \in MapIds |-> NoMapping], put |-> [m \in MapIds |-> NoMapping],
         new |-> {}, flushed |-> {}]

SessionStates ==
  [open : BOOLEAN, over : BOOLEAN,
   loaded : [Cands -> Candidates], want : [Cands -> Candidates],
   had : [MapIds -> Mappings], put : [MapIds -> Mappings],
   new : SUBSET Mappings, flushed : SUBSET Mappings]

TypeOK ==
  /\ cand \in [Cands -> Candidates]
  /\ maps \in [MapIds -> Mappings]
  /\ sess \in [Sessions -> SessionStates]
  /\ decision \in [Cands -> Candidates]
  /\ human \in [MapIds -> Mappings]

Init ==
  /\ cand = [c \in Cands |-> Absent]
  /\ maps = [m \in MapIds |-> NoMapping]
  /\ sess = [s \in Sessions |-> Idle]
  /\ decision = [c \in Cands |-> Absent]
  /\ human = [m \in MapIds |-> NoMapping]

-----------------------------------------------------------------------------
(***************************************************************************)
(* Sessions                                                                *)
(***************************************************************************)

\* What a commit makes of a row: it writes the columns that were changed.
Column(now, loaded, want) == IF want = loaded THEN now ELSE want

Written(row, loaded, want) ==
  [status |-> Column(row.status, loaded.status, want.status),
   card   |-> Column(row.card, loaded.card, want.card)]

WrittenMap(row, had, put) ==
  [card     |-> Column(row.card, had.card, put.card),
   url      |-> Column(row.url, had.url, put.url),
   verified |-> Column(row.verified, had.verified, put.verified),
   active   |-> Column(row.active, had.active, put.active),
   review   |-> Column(row.review, had.review, put.review)]

MayOpen(s) == ~sess[s].open /\ Cardinality({t \in Sessions : sess[t].open}) < MaxOpen

\* A session's own copy of a mapping.
CopyMap(s, m) == IF sess[s].put[m] = NoMapping THEN maps[m] ELSE sess[s].put[m]

\* The session state after it has given a mapping the value v.
WithMap(st, m, v) ==
  [st EXCEPT !.had[m] = IF @ = NoMapping THEN maps[m] ELSE @, !.put[m] = v]

\* The mappings a query finds: its session's unflushed rows are not there.
MappingsOf(k) == {m \in MapIds : maps[m].card = k /\ maps[m] # NoMapping}
MappingAt(c) == {m \in MapIds : maps[m].url = c}

Free == {m \in MapIds : maps[m] = NoMapping}

\* The ids that the new rows of a session in state st may get: the next ones.
Places(st) ==
  {at \in [st.new \union st.flushed -> Free] :
     /\ \A r, q \in DOMAIN at : at[r] = at[q] => r = q
     /\ \A r \in DOMAIN at, m \in Free : m < at[r] => \E q \in DOMAIN at : at[q] = m}

\* The table after its commit.
Stored(st, at) ==
  [m \in MapIds |-> IF \E r \in DOMAIN at : at[r] = m THEN CHOOSE r \in DOMAIN at : at[r] = m
                    ELSE WrittenMap(maps[m], st.had[m], st.put[m])]

\* The constraints of the database: one candidate and one mapping a URL.
Accepted(st, table) ==
  /\ \A c \in Cands : st.loaded[c] = Absent /\ st.want[c] # Absent => cand[c] = Absent
  /\ \A m, n \in MapIds : table[m].url = table[n].url /\ table[m].url # NoUrl => m = n

Rollback(s) == sess' = [sess EXCEPT ![s] = Idle] /\ UNCHANGED <<cand, maps, decision, human>>

\* A person's session s meets another one on a row: an automatic session has
\* it in its hands, or it has changed since s has loaded it.
Met(s, c) == \/ \E a \in Automatic : sess[a].loaded[c] # Absent \/ sess[a].want[c] # Absent
             \/ cand[c] # sess[s].loaded[c]
MetMap(s, m) == \/ \E a \in Automatic : sess[a].had[m] # NoMapping
                \/ maps[m] # sess[s].had[m]

CommitAs(s, st) ==
  /\ st.open
  /\ \E at \in Places(st) :
       \/ ~Accepted(st, Stored(st, at)) /\ Rollback(s)
       \/ /\ Accepted(st, Stored(st, at))
          /\ cand' = [c \in Cands |-> Written(cand[c], st.loaded[c], st.want[c])]
          /\ maps' = Stored(st, at)
          /\ sess' = [sess EXCEPT ![s] = Idle]
          /\ decision' = [c \in Cands |->
                            IF s \notin Users \/ st.want[c] = Absent THEN decision[c]
                            ELSE IF Met(s, c) THEN Absent ELSE cand'[c]]
          /\ human' = [m \in MapIds |->
                         IF s \notin Users \/ (maps'[m] = maps[m] /\ st.put[m] = NoMapping) THEN human[m]
                         ELSE IF MetMap(s, m) THEN Raced ELSE maps'[m]]

Commit(s) == s \notin Rematches /\ CommitAs(s, sess[s])

\* A statement raises, a process stops, or it was a dry run.
Abort(s) == sess[s].open /\ Rollback(s)

-----------------------------------------------------------------------------
(***************************************************************************)
(* Discovery and import runs                                               *)
(***************************************************************************)

\* match_candidate: a card that is the only one with the listing's code or
\* with its name and set is matched, unless the listing is of a graded card;
\* any other likeness is a suggestion.
Unmatched == [status |-> "unmatched", card |-> NoCard]
Ambiguous == [status |-> "ambiguous", card |-> NoCard]
Found(status, k) == [status |-> status, card |-> k]
Outcomes == {Unmatched, Ambiguous} \union {Found(st, k) : st \in {"matched", "suggested"}, k \in Cards}

AutoMapping(k, c) ==
  [card |-> k, url |-> c, verified |-> FALSE, active |-> TRUE, review |-> "needs_review"]

\* Mutant: a retargeted mapping keeps its approval.
Retargeted_Approved(row, c) == [row EXCEPT !.url = c, !.verified = FALSE]

Retargeted(row, c) == [row EXCEPT !.url = c, !.verified = FALSE, !.review = "needs_review"]

\* apply_match's part in the mappings: with one row for the card.
WithMapping(s, st, k, c) ==
  LET own == {r \in st.flushed : r.card = k} IN
  IF own # {} THEN [st EXCEPT !.flushed = (@ \ own) \union {Retargeted(r, c) : r \in own}]
  ELSE IF MappingsOf(k) # {}
  THEN LET m == CHOOSE m \in MappingsOf(k) : TRUE IN
       IF CopyMap(s, m).verified THEN st ELSE WithMap(st, m, Retargeted(CopyMap(s, m), c))
  ELSE [st EXCEPT !.new = @ \union {AutoMapping(k, c)}]

\* one_or_none raises.
TwoMappings(st, k) == Cardinality(MappingsOf(k)) + Cardinality({r \in st.flushed : r.card = k}) > 1

\* Mutant: the matcher runs for every candidate.
Open_All(row) == TRUE

Open(row) == row.status \in {"absent", "unmatched"}

\* One listing: it is stored or refreshed (an INSERT flushes what is pending,
\* and waits for another run's INSERT of it), then matched.  An error ends an
\* import; a discovery stops and commits what it has.
Row(s, c, found) ==
  LET st0 == [sess[s] EXCEPT !.open = TRUE]
      row == cand[c]
      st1 == IF row = Absent THEN [st0 EXCEPT !.new = {}, !.flushed = @ \union st0.new] ELSE st0
      st2 == [st1 EXCEPT !.loaded[c] = row, !.want[c] = IF Open(row) THEN found ELSE row] IN
  /\ s \in Runs /\ (MayOpen(s) \/ sess[s].open) /\ ~st0.over /\ st0.want[c] = Absent
  /\ row = Absent => \A t \in Runs \ {s} : sess[t].loaded[c] = Absent => sess[t].want[c] = Absent
  /\ \/ /\ ~Open(row) \/ found.status # "matched"
        /\ sess' = [sess EXCEPT ![s] = st2]
     \/ /\ Open(row) /\ found.status = "matched" /\ ~TwoMappings(st1, found.card)
        /\ sess' = [sess EXCEPT ![s] = WithMapping(s, st2, found.card, c)]
     \/ /\ Open(row) /\ found.status = "matched" /\ TwoMappings(st1, found.card)
        /\ sess' = [sess EXCEPT ![s] = IF s \in Discoveries THEN [st2 EXCEPT !.over = TRUE] ELSE Idle]
  /\ UNCHANGED <<cand, maps, decision, human>>

\* The snapshot of the next page is flushed, and all that is pending.
NextPage(s) ==
  /\ s \in Discoveries /\ sess[s].new # {}
  /\ sess' = [sess EXCEPT ![s].new = {}, ![s].flushed = @ \union sess[s].new]
  /\ UNCHANGED <<cand, maps, decision, human>>

-----------------------------------------------------------------------------
(***************************************************************************)
(* rematch, rematch-all                                                    *)
(***************************************************************************)

\* Mutant: any status is settable.
Rematched_Any(row, status) == [row EXCEPT !.status = status]

Rematched(row, status) == IF row.status \in AutoSettable THEN [row EXCEPT !.status = status] ELSE row

\* The candidates cs are loaded at once, ranked, and written.
Rematch(s, cs) ==
  /\ s \in Rematches /\ MayOpen(s)
  /\ \/ \E c \in Cands : cs = {c} /\ cand[c] # Absent
     \/ \A c \in cs : cand[c].status \in AutoSettable
  /\ sess' = [sess EXCEPT ![s] =
       [Idle EXCEPT !.open = TRUE, !.loaded = [c \in Cands |-> IF c \in cs THEN cand[c] ELSE Absent]]]
  /\ UNCHANGED <<cand, maps, decision, human>>

Ranked(s, rank) ==
  /\ s \in Rematches
  /\ CommitAs(s, [sess[s] EXCEPT !.want = [c \in Cands |-> IF sess[s].loaded[c] = Absent THEN Absent
                                                           ELSE Rematched(sess[s].loaded[c], rank[c])]])

-----------------------------------------------------------------------------
(***************************************************************************)
(* Requests of people                                                      *)
(***************************************************************************)
Ask(s, st) ==
  /\ s \in Users /\ MayOpen(s)
  /\ sess' = [sess EXCEPT ![s] = st]
  /\ UNCHANGED <<cand, maps, decision, human>>

Asking(c, v) == [Idle EXCEPT !.open = TRUE, !.loaded[c] = cand[c], !.want[c] = v]

\* The one mapping of ms, if any, becomes row; else row is new.
Mapped(st, ms, row) ==
  IF ms = {} THEN [st EXCEPT !.new = {row}] ELSE WithMap(st, CHOOSE m \in ms : TRUE, row)

\* POST /snkrdunk/candidates/{id}/match: the mapping is looked up by card.
Match(s, c, k, verified) ==
  /\ cand[c] # Absent /\ Cardinality(MappingsOf(k)) <= 1
  /\ Ask(s, Mapped(Asking(c, Found("matched", k)), MappingsOf(k),
                   [card |-> k, url |-> c, verified |-> verified, active |-> TRUE,
                    review |-> IF verified THEN "approved" ELSE "needs_review"]))

\* POST .../approve-match: the mapping is looked up by URL.
ApproveMatch(s, c, k) ==
  /\ cand[c] # Absent
  /\ Ask(s, Mapped(Asking(c, Found("matched", k)), MappingAt(c),
                   [card |-> k, url |-> c, verified |-> TRUE, active |-> TRUE, review |-> "approved"]))

\* Both endpoints that reject a candidate.
Reject(s, c) ==
  /\ cand[c] # Absent
  /\ Ask(s, Asking(c, [cand[c] EXCEPT !.status = "rejected"]))

\* What a review action may make of a mapping: approve of /source-mappings,
\* replace-card with or without approval, a PATCH of the URL ...
Edited(edit, row) ==
  CASE edit = "approve"         -> {[row EXCEPT !.active = TRUE, !.review = "approved"]}
    [] edit = "replace"         -> {[row EXCEPT !.card = k, !.review = "needs_review", !.verified = FALSE] : k \in Cards}
    [] edit = "replace_approve" -> {[row EXCEPT !.card = k, !.review = "approved", !.verified = TRUE] : k \in Cards}
    [] edit = "patch_url"       -> {[row EXCEPT !.url = c] : c \in Cands \union {NoUrl}}

Review(s, m, edit) ==
  /\ maps[m] # NoMapping
  /\ \E row \in Edited(edit, maps[m]) : Ask(s, WithMap([Idle EXCEPT !.open = TRUE], m, row))

\* ... and the actions that are applied to one mapping or to several at once.
BulkEdited(edit, row) ==
  CASE edit = "bulk_approve"  -> [row EXCEPT !.active = TRUE, !.review = "approved", !.verified = TRUE]
    [] edit = "reject"        -> [row EXCEPT !.active = FALSE, !.review = "rejected"]
    [] edit = "deactivate"    -> [row EXCEPT !.active = FALSE]
    [] edit = "activate"      -> [row EXCEPT !.active = TRUE]
    [] edit = "mark_verified" -> [row EXCEPT !.verified = TRUE]
    [] edit = "mark_pending"  -> [row EXCEPT !.review = "needs_review"]

BulkReview(s, ms, edit) ==
  /\ \A m \in ms : maps[m] # NoMapping
  /\ Ask(s, [Idle EXCEPT !.open = TRUE,
               !.had = [m \in MapIds |-> IF m \in ms THEN maps[m] ELSE NoMapping],
               !.put = [m \in MapIds |-> IF m \in ms THEN BulkEdited(edit, maps[m]) ELSE NoMapping]])

-----------------------------------------------------------------------------
Next ==
  \/ \E s \in Sessions : Commit(s) \/ Abort(s)
  \/ \E s \in Runs : \/ \E c \in Cands, found \in Outcomes : Row(s, c, found)
                     \/ NextPage(s)
  \/ \E s \in Rematches : \/ \E cs \in (SUBSET Cands) \ {{}} : Rematch(s, cs)
                          \/ \E rank \in [Cands -> Ranks] : Ranked(s, rank)
  \/ \E s \in Users : \/ \E c \in Cands, k \in Cards : \/ ApproveMatch(s, c, k)
                                                       \/ \E v \in BOOLEAN : Match(s, c, k, v)
                      \/ \E c \in Cands : Reject(s, c)
                      \/ \E m \in MapIds, edit \in Edits : Review(s, m, edit)
                      \/ \E ms \in (SUBSET MapIds) \ {{}}, edit \in BulkEdits : BulkReview(s, ms, edit)

Spec == Init /\ [][Next]_vars

-----------------------------------------------------------------------------
(***************************************************************************)
(* Properties                                                              *)
(***************************************************************************)

\* What a person decides of a candidate that no automatic session has in its
\* hands is never undone by one: neither runs nor rematches change a matched
\* or rejected candidate ("never overwritten here").
DecisionKept == \A c \in Cands : decision[c] # Absent => cand[c] = decision[c]

\* A mapping is as a person last left it, or it says that it needs review: the
\* worker repoints a mapping only if it is not verified, and flags it
\* ("flagged for admin review rather than silently trusted").
UnreviewedIsFlagged ==
  \A m \in MapIds :
    \/ maps[m] = human[m] \/ human[m] = Raced
    \/ /\ ~human[m].verified
       /\ maps[m].review = "needs_review" /\ ~maps[m].verified

\* A matched candidate has a mapping (the comment at MATCH_STATUSES).
MatchedHasMapping ==
  \A c \in Cands : cand[c].status = "matched" => MappingAt(c) # {}

\* A card has one mapping in a source (the constraint in the worker's model).
OneMappingPerCard == \A k \in Cards : Cardinality(MappingsOf(k)) <= 1
=============================================================================

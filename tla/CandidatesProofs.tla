-------------------------- MODULE CandidatesProofs --------------------------
(***************************************************************************)
(* Theorems about Candidates, for any candidates, cards, mappings, runs,   *)
(* rematches and requests.                                                 *)
(***************************************************************************)
EXTENDS Candidates, TLAPS

LEMMA NothingTyped ==
  /\ Absent \in Candidates /\ NoMapping \in Mappings /\ Raced \in Mappings /\ Raced # NoMapping
  /\ Idle \in SessionStates
  /\ Idle.new = {} /\ Idle.flushed = {}
  /\ \A c \in Cands : Idle.loaded[c] = Absent /\ Idle.want[c] = Absent
  /\ \A m \in MapIds : Idle.had[m] = NoMapping /\ Idle.put[m] = NoMapping
<1>1. Absent \in Candidates
  BY DEF Absent, Candidates, Statuses
<1>2. NoMapping \in Mappings /\ Raced \in Mappings /\ Raced # NoMapping
  BY DEF NoMapping, Mappings, Raced
<1>3. QED
  BY <1>1, <1>2 DEF Idle, SessionStates

\* A commit leaves a row as it is that its session has not changed.
LEMMA UnchangedRow ==
  /\ \A row, same \in Candidates : Written(row, same, same) = row
  /\ \A row, same \in Mappings : WrittenMap(row, same, same) = row
  BY DEF Candidates, Mappings, Written, WrittenMap, Column

LEMMA WrittenTyped ==
  /\ \A row, loaded, want \in Candidates : Written(row, loaded, want) \in Candidates
  /\ \A row, had, put \in Mappings : WrittenMap(row, had, put) \in Mappings
  BY DEF Candidates, Mappings, Written, WrittenMap, Column

\* WithMap changes the copies of one mapping.
LEMMA WithMapFields ==
  ASSUME TypeOK, NEW st \in SessionStates, NEW m \in MapIds, NEW v \in Mappings
  PROVE  /\ WithMap(st, m, v) \in SessionStates
         /\ WithMap(st, m, v).put = [st.put EXCEPT ![m] = v]
         /\ WithMap(st, m, v).had = [st.had EXCEPT ![m] = IF st.had[m] = NoMapping THEN maps[m] ELSE st.had[m]]
         /\ WithMap(st, m, v).loaded = st.loaded /\ WithMap(st, m, v).want = st.want
         /\ WithMap(st, m, v).new = st.new /\ WithMap(st, m, v).flushed = st.flushed
<1> DEFINE h == [st.had EXCEPT ![m] = IF st.had[m] = NoMapping THEN maps[m] ELSE st.had[m]]
           p == [st.put EXCEPT ![m] = v]
<1>1. h \in [MapIds -> Mappings] /\ p \in [MapIds -> Mappings]
  BY DEF TypeOK, SessionStates
<1>2. WithMap(st, m, v) = [st EXCEPT !.had = h, !.put = p]
  BY DEF WithMap, SessionStates
<1> HIDE DEF h, p
<1>3. [st EXCEPT !.had = h, !.put = p] \in SessionStates
  BY <1>1 DEF SessionStates
<1>4. QED
  BY <1>2, <1>3 DEF SessionStates, h, p

LEMMA WithMapKeeps ==
  ASSUME TypeOK, NEW st \in SessionStates, NEW m \in MapIds, NEW v \in Mappings
  PROVE  /\ WithMap(st, m, v) \in SessionStates
         /\ WithMap(st, m, v).loaded = st.loaded /\ WithMap(st, m, v).want = st.want
<1> DEFINE after == WithMap(st, m, v)
<1>1. after \in SessionStates /\ after.loaded = st.loaded /\ after.want = st.want
  <2> HIDE DEF after
  <2>1. /\ after \in SessionStates
        /\ after.put = [st.put EXCEPT ![m] = v]
        /\ after.had = [st.had EXCEPT ![m] = IF st.had[m] = NoMapping THEN maps[m] ELSE st.had[m]]
        /\ after.loaded = st.loaded /\ after.want = st.want
        /\ after.new = st.new /\ after.flushed = st.flushed
    BY WithMapFields DEF after
  <2>2. QED
    BY <2>1
<1>2. QED
  BY <1>1

LEMMA CopyTyped ==
  ASSUME TypeOK, NEW s \in Sessions, NEW m \in MapIds
  PROVE  CopyMap(s, m) \in Mappings
  BY DEF TypeOK, SessionStates, CopyMap

\* What a run's find makes of its session.
LEMMA WithMappingFields ==
  ASSUME TypeOK, NEW s \in Runs, NEW st \in SessionStates, NEW k \in Cards, NEW c \in Cands
  PROVE  LET after == WithMapping(s, st, k, c) IN
         /\ after \in SessionStates
         /\ after.loaded = st.loaded /\ after.want = st.want
         /\ \A r \in after.new \union after.flushed :
              r \in st.new \union st.flushed \/ (r.review = "needs_review" /\ ~r.verified)
         /\ \A m \in MapIds :
              \/ after.had[m] = st.had[m] /\ after.put[m] = st.put[m]
              \/ /\ ~CopyMap(s, m).verified
                 /\ after.had[m] = (IF st.had[m] = NoMapping THEN maps[m] ELSE st.had[m])
                 /\ after.put[m] = Retargeted(CopyMap(s, m), c) /\ maps[m] # NoMapping
<1> DEFINE own == {r \in st.flushed : r.card = k}
           after == WithMapping(s, st, k, c)
<1>1. \A row \in Mappings : LET new == Retargeted(row, c) IN
        new \in Mappings /\ new.review = "needs_review" /\ ~new.verified
  BY DEF Retargeted, Mappings
<1>2. CASE own # {}
  <2> DEFINE flushed == (st.flushed \ own) \union {Retargeted(r, c) : r \in own}
  <2>1. after = [st EXCEPT !.flushed = flushed]
    BY <1>2 DEF WithMapping
  <2>2. flushed \subseteq Mappings
    BY <1>1 DEF SessionStates
  <2>3. \A r \in flushed : r \in st.flushed \/ (r.review = "needs_review" /\ ~r.verified)
    BY <1>1 DEF SessionStates
  <2> HIDE DEF after, flushed, own
  <2>4. after \in SessionStates /\ after.flushed = flushed
        /\ after.loaded = st.loaded /\ after.want = st.want /\ after.new = st.new
        /\ after.had = st.had /\ after.put = st.put
    BY <2>1, <2>2 DEF SessionStates
  <2>5. QED
    BY <2>3, <2>4 DEF after
<1>3. CASE own = {} /\ MappingsOf(k) # {}
  <2> DEFINE m == CHOOSE m \in MappingsOf(k) : TRUE
  <2>1. m \in MapIds /\ maps[m] # NoMapping
    BY <1>3 DEF MappingsOf
  <2>2. after = IF CopyMap(s, m).verified THEN st ELSE WithMap(st, m, Retargeted(CopyMap(s, m), c))
    BY <1>3 DEF WithMapping
  <2> HIDE DEF m, after
  <2>3. Retargeted(CopyMap(s, m), c) \in Mappings
    BY <1>1, <2>1, CopyTyped DEF Sessions
  <2>4. CASE CopyMap(s, m).verified
    BY <2>2, <2>4 DEF after
  <2>5. CASE ~CopyMap(s, m).verified
    <3>1. after = WithMap(st, m, Retargeted(CopyMap(s, m), c))
      BY <2>2, <2>5
    <3>2. /\ after \in SessionStates /\ after.loaded = st.loaded /\ after.want = st.want
          /\ after.new = st.new /\ after.flushed = st.flushed
          /\ after.put = [st.put EXCEPT ![m] = Retargeted(CopyMap(s, m), c)]
          /\ after.had = [st.had EXCEPT ![m] = IF st.had[m] = NoMapping THEN maps[m] ELSE st.had[m]]
      BY <2>1, <2>3, <3>1, WithMapFields
    <3>3. ASSUME NEW n \in MapIds, n # m PROVE after.had[n] = st.had[n] /\ after.put[n] = st.put[n]
      BY <3>2, <3>3 DEF SessionStates
    <3>4. /\ after.had[m] = (IF st.had[m] = NoMapping THEN maps[m] ELSE st.had[m])
          /\ after.put[m] = Retargeted(CopyMap(s, m), c)
      BY <2>1, <3>2 DEF SessionStates
    <3>5. QED
      BY <2>1, <2>5, <3>2, <3>3, <3>4 DEF after
  <2>6. QED
    BY <2>4, <2>5
<1>4. CASE own = {} /\ MappingsOf(k) = {}
  <2>1. after = [st EXCEPT !.new = st.new \union {AutoMapping(k, c)}]
    BY <1>4 DEF WithMapping
  <2>2. AutoMapping(k, c) \in Mappings /\ AutoMapping(k, c).review = "needs_review" /\ ~AutoMapping(k, c).verified
    BY DEF AutoMapping, Mappings
  <2> HIDE DEF after
  <2>3. /\ after \in SessionStates /\ after.new = st.new \union {AutoMapping(k, c)}
        /\ after.loaded = st.loaded /\ after.want = st.want /\ after.flushed = st.flushed
        /\ after.had = st.had /\ after.put = st.put
    BY <2>1, <2>2 DEF SessionStates
  <2>4. QED
    BY <2>2, <2>3 DEF after
<1>5. QED
  BY <1>2, <1>3, <1>4

\* What a listing makes of its run's session, unless it ends it.
RowEffect(s, c, found, after) ==
  /\ after \in SessionStates
  /\ after.loaded = [sess[s].loaded EXCEPT ![c] = cand[c]]
  /\ after.want = [sess[s].want EXCEPT ![c] = IF Open(cand[c]) THEN found ELSE cand[c]]
  /\ \A r \in after.new \union after.flushed :
       r \in sess[s].new \union sess[s].flushed \/ (r.review = "needs_review" /\ ~r.verified)
  /\ \A m \in MapIds :
       \/ after.had[m] = sess[s].had[m] /\ after.put[m] = sess[s].put[m]
       \/ /\ ~CopyMap(s, m).verified
          /\ after.had[m] = (IF sess[s].had[m] = NoMapping THEN maps[m] ELSE sess[s].had[m])
          /\ after.put[m] = Retargeted(CopyMap(s, m), c) /\ maps[m] # NoMapping

LEMMA RowFields ==
  ASSUME TypeOK, NEW s \in Runs, NEW c \in Cands, NEW found \in Outcomes, Row(s, c, found)
  PROVE  /\ UNCHANGED <<cand, maps, decision, human>>
         /\ \E after \in SessionStates :
              sess' = [sess EXCEPT ![s] = after] /\ (after = Idle \/ RowEffect(s, c, found, after))
<1> DEFINE st0 == [sess[s] EXCEPT !.open = TRUE]
           st1 == IF cand[c] = Absent THEN [st0 EXCEPT !.new = {}, !.flushed = st0.flushed \union st0.new] ELSE st0
           want == IF Open(cand[c]) THEN found ELSE cand[c]
           st2 == [st1 EXCEPT !.loaded = [st1.loaded EXCEPT ![c] = cand[c]], !.want = [st1.want EXCEPT ![c] = want]]
<1>1. sess[s] \in SessionStates /\ cand[c] \in Candidates /\ found \in Candidates
  BY DEF TypeOK, Sessions, Outcomes, Unmatched, Ambiguous, Found, Candidates, Statuses
<1>2. want \in Candidates
  BY <1>1
<1> HIDE DEF want
<1>3. /\ st1 \in SessionStates /\ st1.loaded = sess[s].loaded /\ st1.want = sess[s].want
      /\ st1.had = sess[s].had /\ st1.put = sess[s].put
      /\ st1.new \union st1.flushed = sess[s].new \union sess[s].flushed
  <2>1. st0 \in SessionStates /\ st0.loaded = sess[s].loaded /\ st0.want = sess[s].want
        /\ st0.had = sess[s].had /\ st0.put = sess[s].put /\ st0.new = sess[s].new /\ st0.flushed = sess[s].flushed
    BY <1>1 DEF SessionStates
  <2> HIDE DEF st0
  <2>2. CASE cand[c] = Absent
    BY <2>1, <2>2 DEF SessionStates
  <2>3. CASE cand[c] # Absent
    BY <2>1, <2>3
  <2>4. QED
    BY <2>2, <2>3
<1> HIDE DEF st0, st1
<1>4. /\ st2 \in SessionStates
      /\ st2.loaded = [st1.loaded EXCEPT ![c] = cand[c]] /\ st2.want = [st1.want EXCEPT ![c] = want]
      /\ st2.had = st1.had /\ st2.put = st1.put /\ st2.new = st1.new /\ st2.flushed = st1.flushed
  <2>1. [st1.loaded EXCEPT ![c] = cand[c]] \in [Cands -> Candidates] /\ [st1.want EXCEPT ![c] = want] \in [Cands -> Candidates]
    BY <1>1, <1>2, <1>3 DEF SessionStates
  <2>2. QED
    BY <1>3, <2>1 DEF SessionStates
<1>5. st2 = [st1 EXCEPT !.loaded[c] = cand[c], !.want[c] = want]
  BY <1>3 DEF SessionStates
<1>6. /\ UNCHANGED <<cand, maps, decision, human>>
      /\ \/ sess' = [sess EXCEPT ![s] = st2]
         \/ found.status = "matched" /\ sess' = [sess EXCEPT ![s] = WithMapping(s, st2, found.card, c)]
         \/ sess' = [sess EXCEPT ![s] = [st2 EXCEPT !.over = TRUE]]
         \/ sess' = [sess EXCEPT ![s] = Idle]
  BY <1>5 DEF Row, st0, st1, want
<1> HIDE DEF st2
<1>7. CASE sess' = [sess EXCEPT ![s] = st2]
  BY <1>3, <1>4, <1>6, <1>7 DEF RowEffect, want
<1>8. CASE found.status = "matched" /\ sess' = [sess EXCEPT ![s] = WithMapping(s, st2, found.card, c)]
  <2>1. found.card \in Cards
    BY <1>8 DEF Outcomes, Unmatched, Ambiguous, Found
  <2>2. RowEffect(s, c, found, WithMapping(s, st2, found.card, c))
    BY <1>3, <1>4, <2>1, WithMappingFields DEF RowEffect, want
  <2>3. QED
    BY <1>6, <1>8, <2>2 DEF RowEffect
<1>9. CASE sess' = [sess EXCEPT ![s] = [st2 EXCEPT !.over = TRUE]]
  <2> DEFINE st3 == [st2 EXCEPT !.over = TRUE]
  <2>1. st3 \in SessionStates /\ st3.loaded = st2.loaded /\ st3.want = st2.want
        /\ st3.had = st2.had /\ st3.put = st2.put /\ st3.new = st2.new /\ st3.flushed = st2.flushed
    BY <1>4 DEF SessionStates
  <2>2. sess' = [sess EXCEPT ![s] = st3]
    BY <1>9
  <2> HIDE DEF st3
  <2>3. RowEffect(s, c, found, st3)
    BY <1>3, <1>4, <2>1 DEF RowEffect, want
  <2>4. QED
    BY <1>6, <2>1, <2>2, <2>3
<1>10. CASE sess' = [sess EXCEPT ![s] = Idle]
  BY <1>6, <1>10, NothingTyped
<1>11. QED
  BY <1>6, <1>7, <1>8, <1>9, <1>10

\* What the commit of a session in state st makes of the tables.
CommitEffect(s, st) ==
  /\ cand' = [c \in Cands |-> Written(cand[c], st.loaded[c], st.want[c])]
  /\ maps' \in [MapIds -> Mappings]
  /\ \A m \in MapIds :
       \/ maps'[m] = WrittenMap(maps[m], st.had[m], st.put[m])
       \/ maps[m] = NoMapping /\ maps'[m] \in st.new \union st.flushed
  /\ decision' = [c \in Cands |->
                    IF s \notin Users \/ st.want[c] = Absent THEN decision[c]
                    ELSE IF Met(s, c) THEN Absent ELSE cand'[c]]
  /\ human' = [m \in MapIds |->
                 IF s \notin Users \/ (maps'[m] = maps[m] /\ st.put[m] = NoMapping) THEN human[m]
                 ELSE IF MetMap(s, m) THEN Raced ELSE maps'[m]]

LEMMA CommitFields ==
  ASSUME TypeOK, NEW s \in Sessions, NEW st \in SessionStates, CommitAs(s, st)
  PROVE  /\ sess' = [sess EXCEPT ![s] = Idle]
         /\ UNCHANGED <<cand, maps, decision, human>> \/ CommitEffect(s, st)
<1>1. CASE Rollback(s)
  BY <1>1 DEF Rollback
<1>2. ASSUME NEW at \in Places(st), maps' = Stored(st, at)
      PROVE  /\ maps' \in [MapIds -> Mappings]
             /\ \A m \in MapIds :
                  \/ maps'[m] = WrittenMap(maps[m], st.had[m], st.put[m])
                  \/ maps[m] = NoMapping /\ maps'[m] \in st.new \union st.flushed
  <2>1. at \in [st.new \union st.flushed -> Free] /\ st.new \union st.flushed \subseteq Mappings
    BY <1>2 DEF Places, SessionStates
  <2> SUFFICES ASSUME NEW m \in MapIds
               PROVE  /\ Stored(st, at)[m] \in Mappings
                      /\ \/ Stored(st, at)[m] = WrittenMap(maps[m], st.had[m], st.put[m])
                         \/ maps[m] = NoMapping /\ Stored(st, at)[m] \in st.new \union st.flushed
    BY <1>2 DEF Stored
  <2>2. CASE \E r \in DOMAIN at : at[r] = m
    <3>1. PICK r \in DOMAIN at : at[r] = m /\ Stored(st, at)[m] = r
      BY <2>2 DEF Stored
    <3>2. QED
      BY <2>1, <3>1 DEF Free
  <2>3. CASE ~\E r \in DOMAIN at : at[r] = m
    BY <2>3, WrittenTyped DEF Stored, TypeOK, SessionStates
  <2>4. QED
    BY <2>2, <2>3
<1>3. QED
  BY <1>1, <1>2 DEF CommitAs, CommitEffect

\* A request's session: what it wants of a candidate is a decision.
Decides(st) ==
  \A c \in Cands :
    \/ st.want[c] = Absent /\ st.loaded[c] = Absent
    \/ st.want[c].status \in {"matched", "rejected"}

Asked(s, st) == sess' = [sess EXCEPT ![s] = st] /\ UNCHANGED <<cand, maps, decision, human>>

Asks(s) ==
  \/ \E c \in Cands, k \in Cards : \/ ApproveMatch(s, c, k)
                                \/ \E v \in BOOLEAN : Match(s, c, k, v)
  \/ \E c \in Cands : Reject(s, c)
  \/ \E m \in MapIds, edit \in Edits : Review(s, m, edit)
  \/ \E ms \in (SUBSET MapIds) \ {{}}, edit \in BulkEdits : BulkReview(s, ms, edit)

LEMMA AskFields ==
  ASSUME TypeOK, NEW s \in Users, Asks(s)
  PROVE  \E st \in SessionStates : Asked(s, st) /\ Decides(st)
<1> USE DEF Asked
<1>1. ASSUME NEW c \in Cands, NEW v \in Candidates, v.status \in {"matched", "rejected"}
      PROVE  Asking(c, v) \in SessionStates /\ Decides(Asking(c, v))
  <2> DEFINE l == [Idle.loaded EXCEPT ![c] = cand[c]]
             w == [Idle.want EXCEPT ![c] = v]
  <2>1. l \in [Cands -> Candidates] /\ w \in [Cands -> Candidates]
    BY <1>1, NothingTyped DEF TypeOK, SessionStates
  <2>2. Asking(c, v) = [Idle EXCEPT !.open = TRUE, !.loaded = l, !.want = w]
    BY DEF Asking, Idle
  <2>3. \A d \in Cands : (d = c /\ w[d] = v) \/ (w[d] = Absent /\ l[d] = Absent)
    BY NothingTyped DEF SessionStates
  <2> HIDE DEF l, w
  <2>4. Asking(c, v) \in SessionStates /\ Asking(c, v).want = w /\ Asking(c, v).loaded = l
    BY <2>1, <2>2, NothingTyped DEF SessionStates
  <2>5. QED
    BY <1>1, <2>3, <2>4 DEF Decides
<1>2. ASSUME NEW st \in SessionStates, Decides(st), NEW ms \in SUBSET MapIds, NEW row \in Mappings
      PROVE  Mapped(st, ms, row) \in SessionStates /\ Decides(Mapped(st, ms, row))
  <2>1. CASE ms = {}
    <3>1. [st EXCEPT !.new = {row}] \in SessionStates
      BY DEF SessionStates
    <3>2. [st EXCEPT !.new = {row}].want = st.want /\ [st EXCEPT !.new = {row}].loaded = st.loaded
      BY DEF SessionStates
    <3>3. QED
      BY <1>2, <2>1, <3>1, <3>2 DEF Mapped, Decides
  <2>2. CASE ms # {}
    <3>1. PICK m \in MapIds : Mapped(st, ms, row) = WithMap(st, m, row)
      BY <2>2 DEF Mapped
    <3>2. /\ WithMap(st, m, row) \in SessionStates
          /\ WithMap(st, m, row).loaded = st.loaded /\ WithMap(st, m, row).want = st.want
      BY WithMapKeeps
    <3>3. Decides(WithMap(st, m, row))
      BY <1>2, <3>2, Zenon DEF Decides
    <3>4. QED
      BY <3>1, <3>2, <3>3
  <2>3. QED
    BY <2>1, <2>2
<1>3. ASSUME NEW c \in Cands, NEW k \in Cards, NEW v \in BOOLEAN, ApproveMatch(s, c, k) \/ Match(s, c, k, v)
      PROVE  \E st \in SessionStates : Asked(s, st) /\ Decides(st)
  <2> DEFINE row == [card |-> k, url |-> c, verified |-> v, active |-> TRUE,
                     review |-> IF v THEN "approved" ELSE "needs_review"]
             approved == [card |-> k, url |-> c, verified |-> TRUE, active |-> TRUE, review |-> "approved"]
             begun == Asking(c, Found("matched", k))
  <2>1. row \in Mappings /\ approved \in Mappings
    BY DEF Mappings
  <2>2. Found("matched", k) \in Candidates /\ Found("matched", k).status = "matched"
    BY DEF Found, Candidates, Statuses
  <2>3. begun \in SessionStates /\ Decides(begun)
    BY <1>1, <2>2
  <2>4. Asked(s, Mapped(begun, MappingAt(c), approved)) \/ Asked(s, Mapped(begun, MappingsOf(k), row))
    BY <1>3 DEF ApproveMatch, Match, Ask
  <2>5. MappingAt(c) \in SUBSET MapIds /\ MappingsOf(k) \in SUBSET MapIds
    BY DEF MappingAt, MappingsOf
  <2> HIDE DEF begun, row, approved
  <2>6. QED
    BY <1>2, <2>1, <2>3, <2>4, <2>5
<1>4. ASSUME NEW c \in Cands, Reject(s, c) PROVE \E st \in SessionStates : Asked(s, st) /\ Decides(st)
  <2> DEFINE v == [cand[c] EXCEPT !.status = "rejected"]
  <2>1. v \in Candidates /\ v.status = "rejected"
    BY DEF TypeOK, Candidates, Statuses
  <2>2. Asked(s, Asking(c, v))
    BY <1>4 DEF Reject, Ask
  <2> HIDE DEF v
  <2>3. QED
    BY <1>1, <2>1, <2>2
<1>5. [Idle EXCEPT !.open = TRUE] \in SessionStates /\ Decides([Idle EXCEPT !.open = TRUE])
  <2> DEFINE o == [Idle EXCEPT !.open = TRUE]
  <2>1. o \in SessionStates /\ o.want = Idle.want /\ o.loaded = Idle.loaded
    BY NothingTyped DEF SessionStates
  <2>2. QED
    BY <2>1, NothingTyped DEF Decides
<1>6. ASSUME NEW m \in MapIds, NEW edit \in Edits, Review(s, m, edit)
      PROVE  \E st \in SessionStates : Asked(s, st) /\ Decides(st)
  <2>1. PICK row \in Edited(edit, maps[m]) : Asked(s, WithMap([Idle EXCEPT !.open = TRUE], m, row))
    BY <1>6 DEF Review, Ask
  <2>2. maps[m] \in Mappings /\ edit \in {"approve", "replace", "replace_approve", "patch_url"}
    BY CandidatesAssumption DEF TypeOK, AllEdits
  <2>3. row \in Mappings
    <3>1. CASE edit = "approve"
      BY <2>1, <2>2, <3>1 DEF Edited, Mappings
    <3>2. CASE edit = "replace"
      <4>1. PICK k \in Cards : row = [maps[m] EXCEPT !.card = k, !.review = "needs_review", !.verified = FALSE]
        BY <2>1, <3>2 DEF Edited
      <4>2. QED
        BY <2>2, <4>1 DEF Mappings
    <3>3. CASE edit = "replace_approve"
      <4>1. PICK k \in Cards : row = [maps[m] EXCEPT !.card = k, !.review = "approved", !.verified = TRUE]
        BY <2>1, <3>3 DEF Edited
      <4>2. QED
        BY <2>2, <4>1 DEF Mappings
    <3>4. CASE edit = "patch_url"
      BY <2>1, <2>2, <3>4 DEF Edited, Mappings
    <3>5. QED
      BY <2>2, <3>1, <3>2, <3>3, <3>4
  <2> DEFINE begun == [Idle EXCEPT !.open = TRUE]
  <2> HIDE DEF begun
  <2>4. begun \in SessionStates /\ Decides(begun) /\ Asked(s, WithMap(begun, m, row))
    BY <1>5, <2>1 DEF begun
  <2>5. /\ WithMap(begun, m, row) \in SessionStates
        /\ WithMap(begun, m, row).loaded = begun.loaded /\ WithMap(begun, m, row).want = begun.want
    BY <2>3, <2>4, WithMapKeeps
  <2>6. Decides(WithMap(begun, m, row))
    BY <2>4, <2>5, Zenon DEF Decides
  <2>7. QED
    BY <2>4, <2>5, <2>6
<1>7. ASSUME NEW ms \in SUBSET MapIds, NEW edit \in BulkEdits, BulkReview(s, ms, edit)
      PROVE  \E st \in SessionStates : Asked(s, st) /\ Decides(st)
  <2> DEFINE h == [m \in MapIds |-> IF m \in ms THEN maps[m] ELSE NoMapping]
             p == [m \in MapIds |-> IF m \in ms THEN BulkEdited(edit, maps[m]) ELSE NoMapping]
             st == [Idle EXCEPT !.open = TRUE, !.had = h, !.put = p]
  <2>1. ASSUME NEW row \in Mappings PROVE BulkEdited(edit, row) \in Mappings
    <3>1. edit \in {"bulk_approve", "reject", "deactivate", "activate", "mark_verified", "mark_pending"}
      BY CandidatesAssumption DEF AllBulkEdits
    <3>2. QED
      BY <2>1, <3>1 DEF BulkEdited, Mappings
  <2>2. h \in [MapIds -> Mappings] /\ p \in [MapIds -> Mappings]
    BY <2>1, NothingTyped DEF TypeOK
  <2>3. Asked(s, st)
    BY <1>7 DEF BulkReview, Ask
  <2> HIDE DEF h, p
  <2>4. st \in SessionStates /\ st.want = Idle.want /\ st.loaded = Idle.loaded
    BY <2>2, NothingTyped DEF SessionStates
  <2> HIDE DEF st
  <2>5. QED
    BY <2>3, <2>4, NothingTyped DEF Decides
<1>8. QED
  BY <1>3, <1>4, <1>6, <1>7 DEF Asks

\* Every action is a commit, an end without one, a listing, a page, a rematch
\* that begins, or a request that begins.
LEMMA Steps ==
  ASSUME TypeOK, Next
  PROVE  \/ \E s \in Sessions : Rollback(s)
         \/ \E s \in Runs \union Users : CommitAs(s, sess[s])
         \/ \E s \in Rematches, rank \in [Cands -> Ranks] : Ranked(s, rank)
         \/ \E s \in Runs, c \in Cands, found \in Outcomes : Row(s, c, found)
         \/ \E s \in Runs : NextPage(s)
         \/ \E s \in Rematches, cs \in SUBSET Cands : Rematch(s, cs)
         \/ \E s \in Users : Asks(s)
<1>1. ASSUME NEW s \in Sessions, Commit(s) \/ Abort(s)
      PROVE  Rollback(s) \/ (s \in Runs \union Users /\ CommitAs(s, sess[s]))
  BY <1>1 DEF Commit, Abort, Sessions
<1>2. QED
  BY <1>1 DEF Next, Asks

NextPageState(s) == [sess[s] EXCEPT !.new = {}, !.flushed = sess[s].flushed \union sess[s].new]

LEMMA NextPageFields ==
  ASSUME TypeOK, NEW s \in Runs, NextPage(s)
  PROVE  LET after == NextPageState(s) IN
         /\ after \in SessionStates /\ Asked(s, after)
         /\ after.loaded = sess[s].loaded /\ after.want = sess[s].want
         /\ after.had = sess[s].had /\ after.put = sess[s].put
         /\ after.new \union after.flushed = sess[s].new \union sess[s].flushed
<1>1. sess[s] \in SessionStates
  BY DEF TypeOK, Sessions
<1>2. Asked(s, NextPageState(s))
  BY DEF NextPage, NextPageState, Asked
<1>3. QED
  BY <1>1, <1>2 DEF NextPageState, SessionStates

RematchState(cs) == [Idle EXCEPT !.open = TRUE, !.loaded = [c \in Cands |-> IF c \in cs THEN cand[c] ELSE Absent]]

LEMMA RematchFields ==
  ASSUME TypeOK, NEW s \in Rematches, NEW cs \in SUBSET Cands, Rematch(s, cs)
  PROVE  LET after == RematchState(cs) IN
         /\ after \in SessionStates /\ Asked(s, after)
         /\ \A c \in Cands : after.loaded[c] \in {Absent, cand[c]} /\ after.want[c] = Absent
         /\ after.had = Idle.had /\ after.put = Idle.put /\ after.new = {} /\ after.flushed = {}
<1> DEFINE l == [c \in Cands |-> IF c \in cs THEN cand[c] ELSE Absent]
<1>1. l \in [Cands -> Candidates] /\ \A c \in Cands : l[c] \in {Absent, cand[c]}
  BY NothingTyped DEF TypeOK
<1>2. Asked(s, RematchState(cs))
  BY DEF Rematch, RematchState, Asked
<1>3. RematchState(cs) = [Idle EXCEPT !.open = TRUE, !.loaded = l]
  BY DEF RematchState
<1> HIDE DEF l
<1>4. QED
  BY <1>1, <1>2, <1>3, NothingTyped DEF SessionStates

RankedState(s, rank) ==
  [sess[s] EXCEPT !.want = [c \in Cands |-> IF sess[s].loaded[c] = Absent THEN Absent
                                            ELSE Rematched(sess[s].loaded[c], rank[c])]]

LEMMA RankedFields ==
  ASSUME TypeOK, NEW s \in Rematches, NEW rank \in [Cands -> Ranks], Ranked(s, rank)
  PROVE  LET after == RankedState(s, rank) IN
         /\ after \in SessionStates /\ CommitAs(s, after)
         /\ after.loaded = sess[s].loaded /\ after.had = sess[s].had /\ after.put = sess[s].put
         /\ after.new = sess[s].new /\ after.flushed = sess[s].flushed
         /\ \A c \in Cands : after.want[c] = IF sess[s].loaded[c] = Absent THEN Absent
                                              ELSE Rematched(sess[s].loaded[c], rank[c])
<1> DEFINE w == [c \in Cands |-> IF sess[s].loaded[c] = Absent THEN Absent ELSE Rematched(sess[s].loaded[c], rank[c])]
<1>1. sess[s] \in SessionStates
  BY DEF TypeOK, Sessions
<1>2. \A row \in Candidates, rk \in Ranks : Rematched(row, rk) \in Candidates
  BY CandidatesAssumption DEF Rematched, Candidates, Statuses, AutoSettable
<1>3. w \in [Cands -> Candidates]
  BY <1>1, <1>2, NothingTyped DEF SessionStates
<1>4. RankedState(s, rank) = [sess[s] EXCEPT !.want = w] /\ CommitAs(s, RankedState(s, rank))
  BY DEF Ranked, RankedState
<1>5. \A c \in Cands : w[c] = IF sess[s].loaded[c] = Absent THEN Absent ELSE Rematched(sess[s].loaded[c], rank[c])
  OBVIOUS
<1> HIDE DEF w
<1>6. QED
  BY <1>1, <1>3, <1>4, <1>5 DEF SessionStates

\* Every reachable state is well typed.
THEOREM TypeCorrect == Spec => []TypeOK
<1>1. Init => TypeOK
  BY NothingTyped DEF Init, TypeOK
<1>2. TypeOK /\ [Next]_vars => TypeOK'
  <2> SUFFICES ASSUME TypeOK, [Next]_vars PROVE TypeOK'
    OBVIOUS
  <2>1. ASSUME NEW s \in Sessions, NEW after \in SessionStates, sess' = [sess EXCEPT ![s] = after],
               UNCHANGED <<cand, maps, decision, human>>
        PROVE  TypeOK'
    BY <2>1 DEF TypeOK
  <2>2. ASSUME NEW s \in Sessions, NEW st \in SessionStates, CommitAs(s, st) PROVE TypeOK'
    <3>1. CASE UNCHANGED <<cand, maps, decision, human>>
      BY <2>1, <2>2, <3>1, CommitFields, NothingTyped
    <3>2. CASE CommitEffect(s, st)
      <4>1. \A c \in Cands : cand'[c] \in Candidates
        BY <3>2, WrittenTyped DEF CommitEffect, TypeOK, SessionStates
      <4>2. cand' \in [Cands -> Candidates]
        BY <3>2, <4>1 DEF CommitEffect
      <4>3. decision' \in [Cands -> Candidates]
        BY <3>2, <4>1, NothingTyped DEF CommitEffect, TypeOK
      <4>4. human' \in [MapIds -> Mappings] /\ maps' \in [MapIds -> Mappings]
        BY <3>2, NothingTyped DEF CommitEffect, TypeOK
      <4>5. sess' \in [Sessions -> SessionStates]
        BY <2>2, CommitFields, NothingTyped DEF TypeOK
      <4>6. QED
        BY <4>2, <4>3, <4>4, <4>5 DEF TypeOK
    <3>3. QED
      BY <2>2, <3>1, <3>2, CommitFields
  <2>3. CASE Next
    <3>1. ASSUME NEW s \in Sessions, Rollback(s) PROVE TypeOK'
      BY <2>1, <3>1, NothingTyped DEF Rollback
    <3>2. ASSUME NEW s \in Runs \union Users, CommitAs(s, sess[s]) PROVE TypeOK'
      BY <2>2, <3>2 DEF TypeOK, Sessions
    <3>3. ASSUME NEW s \in Rematches, NEW rank \in [Cands -> Ranks], Ranked(s, rank) PROVE TypeOK'
      BY <2>2, <3>3, RankedFields DEF Sessions
    <3>4. ASSUME NEW s \in Runs, NEW c \in Cands, NEW found \in Outcomes, Row(s, c, found) PROVE TypeOK'
      BY <2>1, <3>4, RowFields DEF Sessions
    <3>5. ASSUME NEW s \in Runs, NextPage(s) PROVE TypeOK'
      BY <2>1, <3>5, NextPageFields DEF Sessions, Asked
    <3>6. ASSUME NEW s \in Rematches, NEW cs \in SUBSET Cands, Rematch(s, cs) PROVE TypeOK'
      BY <2>1, <3>6, RematchFields DEF Sessions, Asked
    <3>7. ASSUME NEW s \in Users, Asks(s) PROVE TypeOK'
      BY <2>1, <3>7, AskFields DEF Sessions, Asked
    <3>8. QED
      BY <2>3, <3>1, <3>2, <3>3, <3>4, <3>5, <3>6, <3>7, Steps
  <2>4. CASE UNCHANGED vars
    BY <2>4 DEF vars, TypeOK
  <2>5. QED
    BY <2>3, <2>4
<1>3. QED
  BY <1>1, <1>2, PTL DEF Spec
-----------------------------------------------------------------------------
(***************************************************************************)
(* Decisions: while one stands, automatic sessions hold it or nothing      *)
(***************************************************************************)
Respects(s, st) ==
  /\ s \in Users => Decides(st)
  /\ s \in Automatic => \A c \in Cands : decision[c] # Absent => st.loaded[c] \in {Absent, decision[c]}
  /\ s \in Runs => \A c \in Cands : decision[c] # Absent => st.want[c] = st.loaded[c]

DecisionsStand ==
  /\ \A c \in Cands : decision[c] # Absent => cand[c] = decision[c] /\ decision[c].status \in {"matched", "rejected"}
  /\ \A s \in Sessions : Respects(s, sess[s])

LEMMA IdleRespects == \A s \in Sessions : Respects(s, Idle) /\ Respects(s, Idle)'
  BY NothingTyped DEF Respects, Decides

LEMMA SessionKeepsDecisions ==
  ASSUME TypeOK, DecisionsStand, NEW s \in Sessions, NEW after \in SessionStates, Asked(s, after), Respects(s, after)
  PROVE  DecisionsStand'
<1>1. \A t \in Sessions : sess'[t] = IF t = s THEN after ELSE sess[t]
  BY DEF Asked, TypeOK
<1>2. UNCHANGED <<cand, decision>>
  BY DEF Asked
<1>3. \A t \in Sessions : Respects(t, sess'[t])
  BY <1>1 DEF DecisionsStand
<1>4. QED
  BY <1>2, <1>3 DEF DecisionsStand, Respects

LEMMA CommitKeepsDecisions ==
  ASSUME TypeOK, DecisionsStand, NEW s \in Sessions, NEW st \in SessionStates,
         sess' = [sess EXCEPT ![s] = Idle], CommitEffect(s, st),
         s \in Users => st = sess[s],
         s \in Automatic => \A c \in Cands : decision[c] # Absent => st.want[c] = st.loaded[c]
  PROVE  DecisionsStand'
<1>1. \A t \in Sessions : sess'[t] = IF t = s THEN Idle ELSE sess[t]
  BY DEF TypeOK
<1>2. ASSUME NEW c \in Cands, decision'[c] # Absent
      PROVE  /\ cand'[c] = decision'[c] /\ decision'[c].status \in {"matched", "rejected"}
             /\ \/ decision'[c] = decision[c]
                \/ \A a \in Automatic : sess[a].loaded[c] = Absent /\ sess[a].want[c] = Absent
  <2>1. /\ cand[c] \in Candidates /\ st.loaded[c] \in Candidates /\ st.want[c] \in Candidates
        /\ cand'[c] = Written(cand[c], st.loaded[c], st.want[c])
    BY DEF TypeOK, SessionStates, CommitEffect
  <2>2. CASE s \notin Users
    <3>1. decision'[c] = decision[c] /\ st.want[c] = st.loaded[c]
      BY <1>2, <2>2 DEF CommitEffect, Sessions, Automatic
    <3>2. QED
      BY <1>2, <2>1, <3>1, UnchangedRow DEF DecisionsStand
  <2>3. CASE s \in Users /\ st.want[c] = Absent
    <3>1. st.loaded[c] = Absent
      BY <2>3 DEF DecisionsStand, Respects, Decides, Absent
    <3>2. decision'[c] = decision[c]
      BY <2>3 DEF CommitEffect
    <3>3. QED
      BY <1>2, <2>1, <2>3, <3>1, <3>2, UnchangedRow DEF DecisionsStand
  <2>4. CASE s \in Users /\ st.want[c] # Absent
    <3>1. ~Met(s, c) /\ decision'[c] = cand'[c]
      BY <1>2, <2>4 DEF CommitEffect
    <3>2. st.want[c].status \in {"matched", "rejected"}
      BY <2>4 DEF DecisionsStand, Respects, Decides
    <3>3. cand[c] = st.loaded[c] /\ \A a \in Automatic : sess[a].loaded[c] = Absent /\ sess[a].want[c] = Absent
      BY <2>4, <3>1 DEF Met
    <3>4. cand'[c].status = st.want[c].status
      BY <2>1, <3>3 DEF Written, Column
    <3>5. QED
      BY <3>1, <3>2, <3>3, <3>4
  <2>5. QED
    BY <2>2, <2>3, <2>4
<1>3. ASSUME NEW t \in Sessions PROVE Respects(t, sess[t])' \/ sess'[t] = Idle
  <2>1. CASE t = s
    BY <1>1, <2>1
  <2>2. CASE t # s
    <3>1. sess'[t] = sess[t] /\ Respects(t, sess[t])
      BY <1>1, <2>2 DEF DecisionsStand
    <3>2. ASSUME NEW c \in Cands, decision'[c] # Absent, t \in Automatic
          PROVE  /\ sess[t].loaded[c] \in {Absent, decision'[c]}
                 /\ t \in Runs => sess[t].want[c] = sess[t].loaded[c]
      BY <1>2, <3>1, <3>2 DEF Respects
    <3>3. QED
      BY <3>1, <3>2 DEF Respects, Automatic, Decides
  <2>3. QED
    BY <2>1, <2>2
<1>4. \A t \in Sessions : Respects(t, sess[t])'
  BY <1>3, IdleRespects DEF Respects, Decides
<1>5. QED
  BY <1>2, <1>4 DEF DecisionsStand

\* What a person decides lasts, whatever runs and rematches do meanwhile: a
\* matched or rejected candidate is "never overwritten here".
THEOREM DecisionsLast == Spec => []DecisionKept
<1>1. Init => DecisionsStand
  BY IdleRespects DEF Init, DecisionsStand
<1>2. TypeOK /\ DecisionsStand /\ [Next]_vars => DecisionsStand'
  <2> SUFFICES ASSUME TypeOK, DecisionsStand, [Next]_vars PROVE DecisionsStand'
    OBVIOUS
  <2>1. ASSUME NEW s \in Sessions, Rollback(s) PROVE DecisionsStand'
    BY <2>1, SessionKeepsDecisions, IdleRespects, NothingTyped DEF Rollback, Asked
  <2>2. ASSUME NEW s \in Runs \union Users, CommitAs(s, sess[s]) PROVE DecisionsStand'
    <3>1. sess[s] \in SessionStates /\ s \in Sessions
      BY DEF TypeOK, Sessions
    <3>2. s \in Automatic => \A c \in Cands : decision[c] # Absent => sess[s].want[c] = sess[s].loaded[c]
      BY <3>1, CandidatesAssumption DEF DecisionsStand, Respects, Automatic
    <3>3. CASE UNCHANGED <<cand, maps, decision, human>>
      BY <2>2, <3>1, <3>3, CommitFields, SessionKeepsDecisions, IdleRespects, NothingTyped DEF Asked
    <3>4. CASE CommitEffect(s, sess[s])
      BY <2>2, <3>1, <3>2, <3>4, CommitFields, CommitKeepsDecisions
    <3>5. QED
      BY <2>2, <3>1, <3>3, <3>4, CommitFields
  <2>3. ASSUME NEW s \in Rematches, NEW rank \in [Cands -> Ranks], Ranked(s, rank) PROVE DecisionsStand'
    <3> DEFINE after == RankedState(s, rank)
    <3>1. s \in Sessions /\ s \in Automatic /\ s \notin Users
      BY CandidatesAssumption DEF Sessions, Automatic
    <3>2. /\ after \in SessionStates /\ CommitAs(s, after) /\ after.loaded = sess[s].loaded
          /\ \A c \in Cands : after.want[c] = IF sess[s].loaded[c] = Absent THEN Absent
                                               ELSE Rematched(sess[s].loaded[c], rank[c])
      BY <2>3, RankedFields
    <3> HIDE DEF after
    <3>3. ASSUME NEW c \in Cands, decision[c] # Absent PROVE after.want[c] = after.loaded[c]
      <4>1. sess[s].loaded[c] \in {Absent, decision[c]} /\ decision[c].status \notin AutoSettable
        BY <3>1, <3>3 DEF DecisionsStand, Respects, AutoSettable
      <4>2. QED
        BY <3>2, <4>1 DEF Rematched
    <3>4. CASE UNCHANGED <<cand, maps, decision, human>>
      BY <3>1, <3>2, <3>4, CommitFields, SessionKeepsDecisions, IdleRespects, NothingTyped DEF Asked
    <3>5. CASE CommitEffect(s, after)
      BY <3>1, <3>2, <3>3, <3>5, CommitFields, CommitKeepsDecisions
    <3>6. QED
      BY <3>1, <3>2, <3>4, <3>5, CommitFields
  <2>4. ASSUME NEW s \in Runs, NEW c \in Cands, NEW found \in Outcomes, Row(s, c, found) PROVE DecisionsStand'
    <3>1. PICK after \in SessionStates : Asked(s, after) /\ (after = Idle \/ RowEffect(s, c, found, after))
      BY <2>4, RowFields DEF Asked
    <3>2. s \in Sessions /\ s \notin Users
      BY CandidatesAssumption DEF Sessions
    <3>3. ASSUME RowEffect(s, c, found, after), NEW d \in Cands, decision[d] # Absent
          PROVE  after.loaded[d] \in {Absent, decision[d]} /\ after.want[d] = after.loaded[d]
      <4>1. /\ sess[s].loaded[d] \in {Absent, decision[d]} /\ sess[s].want[d] = sess[s].loaded[d]
            /\ cand[d] = decision[d] /\ decision[d].status \in {"matched", "rejected"}
        BY <3>2, <3>3 DEF DecisionsStand, Respects, Automatic
      <4>2. sess[s].loaded \in [Cands -> Candidates] /\ sess[s].want \in [Cands -> Candidates]
        BY <3>2 DEF TypeOK, SessionStates
      <4>3. CASE d = c
        BY <3>3, <4>1, <4>2, <4>3 DEF RowEffect, Open
      <4>4. CASE d # c
        BY <3>3, <4>1, <4>2, <4>4 DEF RowEffect
      <4>5. QED
        BY <4>3, <4>4
    <3>4. Respects(s, after)
      BY <3>1, <3>2, <3>3, IdleRespects DEF Respects
    <3>5. QED
      BY <3>1, <3>2, <3>4, SessionKeepsDecisions
  <2>5. ASSUME NEW s \in Runs, NextPage(s) PROVE DecisionsStand'
    <3> DEFINE after == NextPageState(s)
    <3>1. s \in Sessions /\ s \notin Users /\ Respects(s, sess[s])
      BY CandidatesAssumption DEF Sessions, DecisionsStand
    <3>2. after \in SessionStates /\ Asked(s, after) /\ after.loaded = sess[s].loaded /\ after.want = sess[s].want
      BY <2>5, NextPageFields
    <3> HIDE DEF after
    <3>3. QED
      BY <3>1, <3>2, SessionKeepsDecisions DEF Respects
  <2>6. ASSUME NEW s \in Rematches, NEW cs \in SUBSET Cands, Rematch(s, cs) PROVE DecisionsStand'
    <3> DEFINE after == RematchState(cs)
    <3>1. s \in Sessions /\ s \notin Users /\ s \notin Runs
      BY CandidatesAssumption DEF Sessions
    <3>2. after \in SessionStates /\ Asked(s, after) /\ \A c \in Cands : after.loaded[c] \in {Absent, cand[c]}
      BY <2>6, RematchFields
    <3> HIDE DEF after
    <3>3. Respects(s, after)
      BY <3>1, <3>2 DEF Respects, DecisionsStand
    <3>4. QED
      BY <3>1, <3>2, <3>3, SessionKeepsDecisions
  <2>7. ASSUME NEW s \in Users, Asks(s) PROVE DecisionsStand'
    <3>1. PICK after \in SessionStates : Asked(s, after) /\ Decides(after)
      BY <2>7, AskFields
    <3>2. s \in Sessions /\ s \notin Automatic /\ s \notin Runs
      BY CandidatesAssumption DEF Sessions, Automatic
    <3>3. QED
      BY <3>1, <3>2, SessionKeepsDecisions DEF Respects
  <2>8. CASE UNCHANGED vars
    BY <2>8 DEF vars, DecisionsStand, Respects
  <2>9. QED
    BY <2>1, <2>2, <2>3, <2>4, <2>5, <2>6, <2>7, <2>8, Steps
<1>3. DecisionsStand => DecisionKept
  BY DEF DecisionsStand, DecisionKept
<1>4. QED
  BY <1>1, <1>2, <1>3, TypeCorrect, PTL DEF Spec
-----------------------------------------------------------------------------
(***************************************************************************)
(* Mappings: what a run has in its hands is flagged already, and was not   *)
(* verified by a person who did not meet it                                *)
(***************************************************************************)
Flagged(row) == row.review = "needs_review" /\ ~row.verified

\* The copies that a run has of mapping m.
Marked(st, m) ==
  \/ st.had[m] = NoMapping /\ st.put[m] = NoMapping
  \/ /\ st.had[m] # NoMapping /\ st.put[m] # NoMapping
     /\ ~st.had[m].verified /\ Flagged(st.put[m])
     /\ \/ human[m] = Raced
        \/ /\ ~human[m].verified /\ ~maps[m].verified
           /\ st.had[m].review = "needs_review" => maps[m].review = "needs_review"

Marks(s, st) ==
  /\ s \in Rematches => /\ st.new = {} /\ st.flushed = {}
                        /\ \A m \in MapIds : st.had[m] = NoMapping /\ st.put[m] = NoMapping
  /\ s \in Runs => /\ \A r \in st.new \union st.flushed : Flagged(r)
                   /\ \A m \in MapIds : Marked(st, m)

FlagsStand == UnreviewedIsFlagged /\ \A s \in Sessions : Marks(s, sess[s])

LEMMA IdleMarks == \A s \in Sessions : Marks(s, Idle)
  BY NothingTyped DEF Marks, Marked

LEMMA SessionKeepsFlags ==
  ASSUME TypeOK, FlagsStand, NEW s \in Sessions, NEW after \in SessionStates, Asked(s, after), Marks(s, after)
  PROVE  FlagsStand'
<1>1. \A t \in Sessions : sess'[t] = IF t = s THEN after ELSE sess[t]
  BY DEF Asked, TypeOK
<1>2. UNCHANGED <<maps, human>>
  BY DEF Asked
<1>3. \A t \in Sessions : Marks(t, sess'[t])
  BY <1>1 DEF FlagsStand
<1>4. QED
  BY <1>2, <1>3 DEF FlagsStand, UnreviewedIsFlagged, Marks, Marked

\* After a commit a mapping is as it was, flagged, or a person's.
LEMMA CommitKeepsFlags ==
  ASSUME TypeOK, FlagsStand, NEW s \in Sessions, NEW st \in SessionStates,
         sess' = [sess EXCEPT ![s] = Idle], CommitEffect(s, st), Marks(s, st)
  PROVE  FlagsStand'
<1>1. \A t \in Sessions : sess'[t] = IF t = s THEN Idle ELSE sess[t]
  BY DEF TypeOK
<1>2. ASSUME NEW m \in MapIds
      PROVE  \/ maps'[m] = maps[m] /\ human'[m] = human[m]
             \/ human'[m] = human[m] /\ Flagged(maps'[m]) /\ (human[m] = Raced \/ ~human[m].verified)
             \/ human'[m] = Raced
             \/ human'[m] = maps'[m] /\ \A a \in Automatic : sess[a].had[m] = NoMapping
  <2>1. /\ maps[m] \in Mappings /\ maps'[m] \in Mappings /\ st.had[m] \in Mappings /\ st.put[m] \in Mappings
    BY DEF TypeOK, SessionStates, CommitEffect
  <2>2. CASE s \in Users
    BY <2>2 DEF CommitEffect, MetMap
  <2>3. CASE s \in Rematches
    <3>1. maps'[m] = WrittenMap(maps[m], NoMapping, NoMapping)
      BY <2>3 DEF CommitEffect, Marks
    <3>2. human'[m] = human[m]
      BY <2>3, CandidatesAssumption DEF CommitEffect
    <3>3. QED
      BY <2>1, <3>1, <3>2, UnchangedRow, NothingTyped
  <2>4. CASE s \in Runs
    <3>1. human'[m] = human[m]
      BY <2>4, CandidatesAssumption DEF CommitEffect
    <3>2. CASE maps[m] = NoMapping /\ maps'[m] \in st.new \union st.flushed
      <4>1. Flagged(maps'[m])
        BY <2>4, <3>2 DEF Marks
      <4>2. human[m] = Raced \/ ~human[m].verified
        BY <3>2 DEF FlagsStand, UnreviewedIsFlagged, NoMapping
      <4>3. QED
        BY <3>1, <4>1, <4>2
    <3>3. CASE maps'[m] = WrittenMap(maps[m], st.had[m], st.put[m]) /\ st.had[m] = NoMapping /\ st.put[m] = NoMapping
      BY <2>1, <3>1, <3>3, UnchangedRow, NothingTyped
    <3>4. CASE maps'[m] = WrittenMap(maps[m], st.had[m], st.put[m]) /\ st.had[m] # NoMapping /\ human[m] # Raced
      <4>1. /\ ~st.had[m].verified /\ Flagged(st.put[m]) /\ ~human[m].verified /\ ~maps[m].verified
            /\ st.had[m].review = "needs_review" => maps[m].review = "needs_review"
        BY <2>4, <3>4 DEF Marks, Marked
      <4>2. maps'[m].review = "needs_review"
        BY <3>4, <4>1 DEF Flagged, WrittenMap, Column
      <4>3. maps'[m].verified = IF st.put[m].verified = st.had[m].verified THEN maps[m].verified ELSE st.put[m].verified
        BY <3>4 DEF WrittenMap, Column
      <4>4. ~maps'[m].verified
        <5>1. maps[m].verified = FALSE /\ st.put[m].verified = FALSE
          BY <2>1, <4>1 DEF Flagged, Mappings
        <5>2. QED
          BY <4>3, <5>1
      <4>5. QED
        BY <3>1, <4>1, <4>2, <4>4 DEF Flagged
    <3>5. QED
      BY <2>4, <3>1, <3>2, <3>3, <3>4 DEF CommitEffect, Marks, Marked
  <2>5. QED
    BY <2>2, <2>3, <2>4 DEF Sessions
<1>3. UnreviewedIsFlagged'
  BY <1>2 DEF FlagsStand, UnreviewedIsFlagged, Flagged
<1>4. ASSUME NEW t \in Sessions PROVE Marks(t, sess[t])'
  <2>1. CASE t = s
    BY <1>1, <2>1, NothingTyped DEF Marks, Marked
  <2>2. CASE t # s
    <3>1. sess'[t] = sess[t] /\ Marks(t, sess[t])
      BY <1>1, <2>2 DEF FlagsStand
    <3>2. ASSUME t \in Runs, NEW m \in MapIds PROVE Marked(sess[t], m)'
      <4>1. Marked(sess[t], m) /\ t \in Automatic
        BY <3>1, <3>2 DEF Marks, Automatic
      <4>2. CASE maps'[m] = maps[m] /\ human'[m] = human[m]
        BY <3>1, <4>1, <4>2 DEF Marked
      <4>3. CASE human'[m] = human[m] /\ Flagged(maps'[m]) /\ (human[m] = Raced \/ ~human[m].verified)
        BY <3>1, <4>1, <4>3 DEF Marked, Flagged
      <4>4. CASE human'[m] = Raced
        BY <3>1, <4>1, <4>4 DEF Marked
      <4>5. CASE human'[m] = maps'[m] /\ \A a \in Automatic : sess[a].had[m] = NoMapping
        BY <3>1, <4>1, <4>5 DEF Marked
      <4>6. QED
        BY <1>2, <4>2, <4>3, <4>4, <4>5
    <3>3. QED
      BY <3>1, <3>2 DEF Marks
  <2>3. QED
    BY <2>1, <2>2
<1>5. QED
  BY <1>3, <1>4 DEF FlagsStand

\* What no person has left as it is says so: a mapping that a run has made or
\* repointed needs review, and no run repoints one that a person verified.
THEOREM ReviewsLast == Spec => []UnreviewedIsFlagged
<1>1. Init => FlagsStand
  BY IdleMarks DEF Init, FlagsStand, UnreviewedIsFlagged
<1>2. TypeOK /\ FlagsStand /\ [Next]_vars => FlagsStand'
  <2> SUFFICES ASSUME TypeOK, FlagsStand, [Next]_vars PROVE FlagsStand'
    OBVIOUS
  <2>1. ASSUME NEW s \in Sessions, Rollback(s) PROVE FlagsStand'
    BY <2>1, SessionKeepsFlags, IdleMarks, NothingTyped DEF Rollback, Asked
  <2>2. ASSUME NEW s \in Sessions, NEW st \in SessionStates, CommitAs(s, st), Marks(s, st) PROVE FlagsStand'
    <3>1. CASE UNCHANGED <<cand, maps, decision, human>>
      BY <2>2, <3>1, CommitFields, SessionKeepsFlags, IdleMarks, NothingTyped DEF Asked
    <3>2. CASE CommitEffect(s, st)
      BY <2>2, <3>2, CommitFields, CommitKeepsFlags
    <3>3. QED
      BY <2>2, <3>1, <3>2, CommitFields
  <2>3. ASSUME NEW s \in Runs \union Users, CommitAs(s, sess[s]) PROVE FlagsStand'
    BY <2>2, <2>3 DEF TypeOK, Sessions, FlagsStand
  <2>4. ASSUME NEW s \in Rematches, NEW rank \in [Cands -> Ranks], Ranked(s, rank) PROVE FlagsStand'
    <3> DEFINE after == RankedState(s, rank)
    <3>1. s \in Sessions /\ s \notin Runs /\ Marks(s, sess[s])
      BY CandidatesAssumption DEF Sessions, FlagsStand
    <3>2. /\ after \in SessionStates /\ CommitAs(s, after) /\ after.had = sess[s].had /\ after.put = sess[s].put
          /\ after.new = sess[s].new /\ after.flushed = sess[s].flushed
      BY <2>4, RankedFields
    <3> HIDE DEF after
    <3>3. Marks(s, after)
      BY <3>1, <3>2 DEF Marks
    <3>4. QED
      BY <2>2, <3>1, <3>2, <3>3
  <2>5. ASSUME NEW s \in Runs, NEW c \in Cands, NEW found \in Outcomes, Row(s, c, found) PROVE FlagsStand'
    <3>1. PICK after \in SessionStates : Asked(s, after) /\ (after = Idle \/ RowEffect(s, c, found, after))
      BY <2>5, RowFields DEF Asked
    <3>2. s \in Sessions /\ s \notin Rematches /\ Marks(s, sess[s])
      BY CandidatesAssumption DEF Sessions, FlagsStand
    <3>3. ASSUME RowEffect(s, c, found, after), NEW m \in MapIds PROVE Marked(after, m)
      <4>1. Marked(sess[s], m) /\ CopyMap(s, m) \in Mappings
        BY <3>2, CopyTyped DEF Marks
      <4>2. CASE after.had[m] = sess[s].had[m] /\ after.put[m] = sess[s].put[m]
        BY <4>1, <4>2 DEF Marked
      <4>3. CASE /\ ~CopyMap(s, m).verified
                 /\ after.had[m] = (IF sess[s].had[m] = NoMapping THEN maps[m] ELSE sess[s].had[m])
                 /\ after.put[m] = Retargeted(CopyMap(s, m), c) /\ maps[m] # NoMapping
        <5>1. Flagged(after.put[m]) /\ after.put[m] # NoMapping
          <6>1. \A row \in Mappings : Flagged(Retargeted(row, c))
            BY DEF Retargeted, Flagged, Mappings
          <6>2. ~Flagged(NoMapping)
            BY DEF Flagged, NoMapping
          <6>3. QED
            BY <4>1, <4>3, <6>1, <6>2
        <5>2. CASE sess[s].had[m] = NoMapping
          <6>1. CopyMap(s, m) = maps[m]
            BY <4>1, <5>2 DEF Marked, CopyMap
          <6>2. human[m] = Raced \/ ~human[m].verified
            BY <4>3, <6>1 DEF FlagsStand, UnreviewedIsFlagged
          <6>3. after.had[m] = maps[m] /\ after.had[m] # NoMapping /\ ~maps[m].verified
            BY <4>3, <5>2, <6>1
          <6>4. QED
            BY <5>1, <6>2, <6>3 DEF Marked
        <5>3. CASE sess[s].had[m] # NoMapping
          BY <4>1, <4>3, <5>1, <5>3 DEF Marked
        <5>4. QED
          BY <5>2, <5>3
      <4>4. QED
        BY <3>3, <4>2, <4>3 DEF RowEffect
    <3>4. ASSUME RowEffect(s, c, found, after), NEW r \in after.new \union after.flushed PROVE Flagged(r)
      BY <3>2, <3>4 DEF RowEffect, Marks, Flagged
    <3>5. Marks(s, after)
      BY <3>1, <3>2, <3>3, <3>4, IdleMarks DEF Marks
    <3>6. QED
      BY <3>1, <3>2, <3>5, SessionKeepsFlags
  <2>6. ASSUME NEW s \in Runs, NextPage(s) PROVE FlagsStand'
    <3> DEFINE after == NextPageState(s)
    <3>1. s \in Sessions /\ s \notin Rematches /\ Marks(s, sess[s])
      BY CandidatesAssumption DEF Sessions, FlagsStand
    <3>2. /\ after \in SessionStates /\ Asked(s, after) /\ after.had = sess[s].had /\ after.put = sess[s].put
          /\ after.new \union after.flushed = sess[s].new \union sess[s].flushed
      BY <2>6, NextPageFields
    <3> HIDE DEF after
    <3>3. Marks(s, after)
      BY <3>1, <3>2 DEF Marks, Marked
    <3>4. QED
      BY <3>1, <3>2, <3>3, SessionKeepsFlags
  <2>7. ASSUME NEW s \in Rematches, NEW cs \in SUBSET Cands, Rematch(s, cs) PROVE FlagsStand'
    <3> DEFINE after == RematchState(cs)
    <3>1. s \in Sessions /\ s \notin Runs
      BY CandidatesAssumption DEF Sessions
    <3>2. /\ after \in SessionStates /\ Asked(s, after) /\ after.had = Idle.had /\ after.put = Idle.put
          /\ after.new = {} /\ after.flushed = {}
      BY <2>7, RematchFields
    <3> HIDE DEF after
    <3>3. Marks(s, after)
      BY <3>1, <3>2, NothingTyped DEF Marks
    <3>4. QED
      BY <3>1, <3>2, <3>3, SessionKeepsFlags
  <2>8. ASSUME NEW s \in Users, Asks(s) PROVE FlagsStand'
    <3>1. s \in Sessions /\ s \notin Runs /\ s \notin Rematches
      BY CandidatesAssumption DEF Sessions
    <3>2. QED
      BY <2>8, <3>1, AskFields, SessionKeepsFlags DEF Marks
  <2>9. CASE UNCHANGED vars
    BY <2>9 DEF vars, FlagsStand, UnreviewedIsFlagged, Marks, Marked
  <2>10. QED
    BY <2>1, <2>3, <2>4, <2>5, <2>6, <2>7, <2>8, <2>9, Steps
<1>3. FlagsStand => UnreviewedIsFlagged
  BY DEF FlagsStand
<1>4. QED
  BY <1>1, <1>2, <1>3, TypeCorrect, PTL DEF Spec
=============================================================================

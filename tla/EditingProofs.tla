---------------------------- MODULE EditingProofs ----------------------------
(***************************************************************************)
(* Theorems about Editing, for any constants: first about card merges, for *)
(* any number of cards, rows, tables and overlapping merges, then on saved *)
(* views, the wishlist, and backups of any database.                       *)
(***************************************************************************)
EXTENDS Editing, Integers, WellFoundedInduction, TLAPS

\* Bounded sets of numbers have their ends.
LEMMA SmallestOf ==
  ASSUME NEW S \in SUBSET Nat, S # {}
  PROVE  \E x \in S : \A y \in S : x <= y
<1> DEFINE R == OpToRel(<, Nat)
<1>1. IsWellFoundedOn(R, Nat)
  BY NatLessThanWellFounded
<1>2. \A x, y \in Nat : <<x, y>> \in R <=> x < y
  BY DEF OpToRel
<1> HIDE DEF R
<1>3. PICK x \in S : \A y \in S : ~ (<<y, x>> \in R)
  BY <1>1, WFMin
<1>4. ASSUME NEW y \in S PROVE x <= y
  <2>1. x \in Nat /\ y \in Nat /\ ~(y < x)
    BY <1>2, <1>3
  <2>2. QED
    BY <2>1
<1>5. QED
  BY <1>4

LEMMA LargestOf ==
  ASSUME NEW n \in Nat, NEW S \in SUBSET (1..n), S # {}
  PROVE  \E x \in S : \A y \in S : y <= x
<1> DEFINE T == {m \in Nat : n - m \in S}
<1>1. \A x \in S : x \in Nat /\ n - x \in T
  <2> SUFFICES ASSUME NEW x \in S PROVE x \in Nat /\ n - x \in T
    OBVIOUS
  <2>1. x \in 1..n
    OBVIOUS
  <2>2. x \in Nat /\ n - x \in Nat /\ n - (n - x) = x
    BY <2>1
  <2>3. QED
    BY <2>2
<1>2. PICK t \in T : \A u \in T : t <= u
  BY <1>1, SmallestOf
<1>3. ASSUME NEW y \in S PROVE y <= n - t
  <2>1. y \in Nat /\ t \in Nat /\ t <= n - y
    BY <1>1, <1>2
  <2>2. QED
    BY <2>1
<1>4. QED
  BY <1>3
LEMMA IdleTyped == Idle \in MergeStates /\ ~Idle.open
  BY DEF Idle, MergeStates

LEMMA LengthOfTables ==
  ASSUME CardMergeAssumption
  PROVE  Len(MovedTables) \in Nat /\ DOMAIN MovedTables = 1..Len(MovedTables)
  BY DEF CardMergeAssumption

\* Every reachable state is well typed.
THEOREM TypeCorrect ==
  ASSUME CardMergeAssumption
  PROVE  Spec => []TypeOK
<1>1. Init => TypeOK
  BY IdleTyped DEF Init, TypeOK, CardStates
<1>2. TypeOK /\ [Next]_vars => TypeOK'
  <2> SUFFICES ASSUME TypeOK, [Next]_vars PROVE TypeOK'
    OBVIOUS
  <2> USE DEF TypeOK
  <2>1. ASSUME NEW m \in Merges, NEW s \in Cards, NEW t \in Cards, Begin(m, s, t) PROVE TypeOK'
    <3> DEFINE begun == [Idle EXCEPT !.open = TRUE, !.source = s, !.target = t,
                                     !.into = cards[s].into, !.was = cards[s].active]
    <3>1. cards[s] \in CardStates
      OBVIOUS
    <3>2. begun \in MergeStates
      BY <3>1 DEF Idle, MergeStates, CardStates
    <3>3. merge' = [merge EXCEPT ![m] = begun]
      BY <2>1 DEF Begin
    <3> HIDE DEF begun
    <3>4. merge' \in [Merges -> MergeStates]
      BY <3>2, <3>3
    <3>5. raced' \subseteq Cards
      <4>1. \A n \in Open : InHand(n) \intersect {s, t} \subseteq Cards
        OBVIOUS
      <4>2. QED
        BY <2>1, <4>1 DEF Begin
    <3>6. QED
      BY <2>1, <3>4, <3>5 DEF Begin
  <2>2. ASSUME NEW m \in Merges, MoveTable(m) PROVE TypeOK'
    <3> DEFINE rows == {r \in Rows : TableOf[r] = MovedTables[merge[m].done + 1] /\ at[r] = merge[m].source}
               after == [merge[m] EXCEPT !.done = merge[m].done + 1, !.moved = merge[m].moved \union rows]
    <3>1. merge[m] \in MergeStates /\ rows \subseteq AllRows
      BY DEF AllRows
    <3> HIDE DEF rows
    <3>2. after \in MergeStates
      <4>1. merge[m].done + 1 \in Nat /\ merge[m].moved \union rows \in SUBSET AllRows
        BY <3>1 DEF MergeStates
      <4>2. QED
        BY <3>1, <4>1 DEF MergeStates
    <3>3. merge' = [merge EXCEPT ![m] = after]
      BY <2>2 DEF MoveTable, rows
    <3> HIDE DEF after
    <3>4. QED
      BY <2>2, <3>2, <3>3 DEF MoveTable
  <2>3. ASSUME NEW m \in Merges, MoveTags(m) PROVE TypeOK'
    <3> DEFINE has == {TagOf[r] : r \in {g \in TagRows : at[g] = merge[m].target}}
               rows == {r \in TagRows : at[r] = merge[m].source}
               fresh == {r \in rows : TagOf[r] \notin has}
               after == [merge[m] EXCEPT !.tagged = TRUE, !.moved = merge[m].moved \union fresh]
    <3>1. merge[m] \in MergeStates /\ fresh \subseteq AllRows /\ rows \subseteq AllRows
      BY DEF AllRows
    <3>2. merge' = [merge EXCEPT ![m] = after] /\ late' \subseteq late \union rows
      BY <2>3 DEF MoveTags
    <3> HIDE DEF fresh
    <3>3. after \in MergeStates
      BY <3>1 DEF MergeStates
    <3> HIDE DEF after, rows, has
    <3>4. QED
      BY <2>3, <3>1, <3>2, <3>3 DEF MoveTags
  <2>4. ASSUME NEW m \in Merges, Commit(m) PROVE TypeOK'
    <3>1. merge[m] \in MergeStates
      OBVIOUS
    <3>2. ASSUME NEW k \in Cards PROVE Retired(cards[k], m) \in CardStates
      BY <3>1 DEF Retired, CardStates, MergeStates
    <3>3. cards' \in [Cards -> CardStates]
      BY <2>4, <3>2 DEF Commit
    <3>4. at' \in [AllRows -> Cards \union {NoCard}]
      <4>1. PICK added \in NewAliases :
              at' = [r \in AllRows |-> IF r \in merge[m].moved \union added THEN merge[m].target ELSE at[r]]
        BY <2>4 DEF Commit
      <4>2. QED
        BY <3>1, <4>1 DEF MergeStates
    <3>5. QED
      BY <2>4, <3>3, <3>4, IdleTyped DEF Commit
  <2>5. ASSUME NEW m \in Merges, Abort(m) PROVE TypeOK'
    BY <2>5, IdleTyped DEF Abort
  <2>6. ASSUME NEW r \in AllRows, NEW k \in Cards, Add(r, k) PROVE TypeOK'
    BY <2>6 DEF Add
  <2>7. ASSUME NEW r \in AllRows, Remove(r) PROVE TypeOK'
    BY <2>7 DEF Remove
  <2>8. CASE UNCHANGED vars
    BY <2>8 DEF vars
  <2>9. QED
    BY <2>1, <2>2, <2>3, <2>4, <2>5, <2>6, <2>7, <2>8 DEF Next
<1>3. QED
  BY <1>1, <1>2, PTL DEF Spec
-----------------------------------------------------------------------------
(***************************************************************************)
(* The inductive invariant: what an open merge may rely on                 *)
(***************************************************************************)
Given == \A m \in Open : merge[m].source \in Cards /\ merge[m].target \in Cards /\ merge[m].source # merge[m].target

\* Two merges with a card in common have raced for it.
Met == \A m, n \in Open : m # n => InHand(m) \intersect InHand(n) \subseteq raced

\* The two cards of a merge are as it has loaded them, unless it has raced.
Loaded(m) ==
  /\ merge[m].target \notin raced => cards[merge[m].target].active
  /\ merge[m].source \notin raced =>
       cards[merge[m].source].into = merge[m].into /\ merge[m].into \in {NoCard, merge[m].target}

Passed(m, r) == IF r \in Rows THEN \E i \in 1..merge[m].done : TableOf[r] = MovedTables[i] ELSE merge[m].tagged

\* Rows of the source that a merge's UPDATEs have passed are its own, or late.
Taken(m) ==
  /\ merge[m].done <= Len(MovedTables) /\ (merge[m].tagged => merge[m].done = Len(MovedTables))
  /\ \A r \in merge[m].moved \intersect Rows : at[r] = merge[m].source
  /\ merge[m].source \notin raced =>
       \A r \in AllRows : at[r] = merge[m].source /\ Passed(m, r) => r \in merge[m].moved \union late

Apart == \A m, n \in Open : m # n => merge[m].moved \intersect merge[n].moved \intersect Rows = {}

Ready == Given /\ Met /\ Apart /\ \A m \in Open : Loaded(m) /\ Taken(m)

IInv == TypeOK /\ Ready /\ RowsFollow /\ MergesEnd

LEMMA BeginKeeps ==
  ASSUME CardMergeAssumption, IInv, NEW m \in Merges, NEW s \in Cards, NEW t \in Cards, Begin(m, s, t)
  PROVE  Ready' /\ RowsFollow' /\ MergesEnd'
<1> USE DEF IInv, Ready
<1> DEFINE begun == [Idle EXCEPT !.open = TRUE, !.source = s, !.target = t,
                                 !.into = cards[s].into, !.was = cards[s].active]
<1>1. /\ begun.source = s /\ begun.target = t /\ begun.into = cards[s].into
      /\ begun.done = 0 /\ begun.moved = {} /\ begun.tagged = FALSE
  BY DEF Idle
<1>2. merge' = [merge EXCEPT ![m] = begun] /\ m \notin Open
  BY DEF Begin, Open
<1> HIDE DEF begun
<1>3. merge'[m] = begun /\ \A n \in Merges \ {m} : merge'[n] = merge[n]
  BY <1>2 DEF TypeOK
<1>4. \A n \in Open' : n \in Merges /\ (n # m => n \in Open)
  BY <1>3 DEF Open
<1>5. /\ raced \subseteq raced' /\ UNCHANGED <<cards, at, late>>
      /\ \A n \in Open : InHand(n) \intersect {s, t} \subseteq raced'
  BY DEF Begin
<1>6. s # t /\ cards[t].active /\ cards[s].into \in {NoCard, t}
  BY DEF Begin, MayMerge
<1>7. Given'
  BY <1>1, <1>3, <1>4, <1>6 DEF Given
<1>8. Met'
  <2> SUFFICES ASSUME NEW n \in Open', NEW o \in Open', n # o
               PROVE  InHand(n)' \intersect InHand(o)' \subseteq raced'
    BY DEF Met
  <2>1. CASE n = m
    BY <1>1, <1>3, <1>4, <1>5, <2>1 DEF InHand
  <2>2. CASE o = m
    BY <1>1, <1>3, <1>4, <1>5, <2>2 DEF InHand
  <2>3. CASE n # m /\ o # m
    BY <1>3, <1>4, <1>5, <2>3 DEF InHand, Met
  <2>4. QED
    BY <2>1, <2>2, <2>3
<1>9. Apart'
  BY <1>1, <1>3, <1>4 DEF Apart
<1>10. ASSUME NEW n \in Open' PROVE Loaded(n)' /\ Taken(n)'
  <2>1. CASE n = m
    <3>1. \A r \in AllRows : ~Passed(m, r)'
      BY <1>1, <1>3 DEF Passed
    <3>2. QED
      BY <1>1, <1>3, <1>5, <1>6, <2>1, <3>1, LengthOfTables DEF Loaded, Taken
  <2>2. CASE n # m
    BY <1>3, <1>4, <1>5, <2>2 DEF Loaded, Taken, Passed
  <2>3. QED
    BY <2>1, <2>2
<1>11. RowsFollow' /\ MergesEnd'
  BY <1>5 DEF RowsFollow, Stays, MergesEnd
<1>12. QED
  BY <1>7, <1>8, <1>9, <1>10, <1>11

LEMMA MoveTableKeeps ==
  ASSUME CardMergeAssumption, IInv, NEW m \in Merges, MoveTable(m)
  PROVE  Ready' /\ RowsFollow' /\ MergesEnd'
<1> USE DEF IInv, Ready
<1> DEFINE rows == {r \in Rows : TableOf[r] = MovedTables[merge[m].done + 1] /\ at[r] = merge[m].source}
           after == [merge[m] EXCEPT !.done = merge[m].done + 1, !.moved = merge[m].moved \union rows]
<1>1. merge[m] \in MergeStates /\ m \in Open /\ merge[m].done < Len(MovedTables)
  BY DEF MoveTable, Open, TypeOK, LastTable
<1>2. /\ after.source = merge[m].source /\ after.target = merge[m].target /\ after.into = merge[m].into
      /\ after.done = merge[m].done + 1 /\ after.tagged = merge[m].tagged /\ after.open = merge[m].open
      /\ after.moved = merge[m].moved \union rows
  BY <1>1 DEF MergeStates
<1>3. merge' = [merge EXCEPT ![m] = after] /\ UNCHANGED <<cards, at, raced, late>>
  BY DEF MoveTable
<1> HIDE DEF after
<1>4. merge'[m] = after /\ \A n \in Merges \ {m} : merge'[n] = merge[n]
  BY <1>3 DEF TypeOK
<1>5. Open' = Open /\ \A n \in Open : n \in Merges
  BY <1>1, <1>2, <1>4 DEF Open
<1>6. Given' /\ Met'
  <2>1. \A n \in Open : merge'[n].source = merge[n].source /\ merge'[n].target = merge[n].target
    BY <1>2, <1>4, <1>5
  <2>2. QED
    BY <1>3, <1>5, <2>1 DEF Given, Met, InHand
<1>7. \A r \in rows, n \in Open : r \in Rows /\ r \notin merge[n].moved
  BY DEF MoveTable, Held
<1>8. Apart'
  <2> SUFFICES ASSUME NEW n \in Open, NEW o \in Open, n # o
               PROVE  merge'[n].moved \intersect merge'[o].moved \intersect Rows = {}
    BY <1>5 DEF Apart
  <2> HIDE DEF rows
  <2>1. CASE n = m
    BY <1>2, <1>4, <1>5, <1>7, <2>1 DEF Apart
  <2>2. CASE o = m
    BY <1>2, <1>4, <1>5, <1>7, <2>2 DEF Apart
  <2>3. CASE n # m /\ o # m
    BY <1>4, <1>5, <2>3 DEF Apart
  <2>4. QED
    BY <2>1, <2>2, <2>3
<1>9. ASSUME NEW n \in Open PROVE Loaded(n)' /\ Taken(n)'
  <2>1. CASE n # m
    BY <1>3, <1>4, <1>5, <2>1 DEF Loaded, Taken, Passed
  <2>2. CASE n = m
    <3>1. Loaded(m)'
      BY <1>1, <1>2, <1>3, <1>4 DEF Loaded
    <3>2. merge[m].tagged = FALSE /\ merge[m].done + 1 <= Len(MovedTables)
      BY <1>1, LengthOfTables DEF Taken, MergeStates
    <3>3. \A r \in after.moved \intersect Rows : at[r] = merge[m].source
      BY <1>1, <1>2 DEF Taken
    <3>4. ASSUME merge[m].source \notin raced, NEW r \in AllRows, at[r] = merge[m].source, Passed(m, r)'
          PROVE  r \in after.moved \union late
      <4>1. r \in Rows
        BY <1>2, <1>4, <3>2, <3>4 DEF Passed
      <4>2. PICK i \in 1..(merge[m].done + 1) : TableOf[r] = MovedTables[i]
        BY <1>2, <1>4, <3>4, <4>1 DEF Passed
      <4>3. CASE i = merge[m].done + 1
        BY <1>2, <3>4, <4>1, <4>2, <4>3
      <4>4. CASE i \in 1..merge[m].done
        BY <1>1, <1>2, <3>4, <4>1, <4>2, <4>4 DEF Taken, Passed
      <4>5. QED
        BY <1>1, <4>3, <4>4 DEF MergeStates
    <3>5. QED
      BY <1>2, <1>3, <1>4, <2>2, <3>1, <3>2, <3>3, <3>4 DEF Taken
  <2>3. QED
    BY <2>1, <2>2
<1>10. RowsFollow' /\ MergesEnd'
  BY <1>3 DEF RowsFollow, Stays, MergesEnd
<1>11. QED
  BY <1>5, <1>6, <1>8, <1>9, <1>10

LEMMA MoveTagsKeeps ==
  ASSUME CardMergeAssumption, IInv, NEW m \in Merges, MoveTags(m)
  PROVE  Ready' /\ RowsFollow' /\ MergesEnd'
<1> USE DEF IInv, Ready
<1> DEFINE has == {TagOf[r] : r \in {g \in TagRows : at[g] = merge[m].target}}
           rows == {r \in TagRows : at[r] = merge[m].source}
           fresh == {r \in rows : TagOf[r] \notin has}
           after == [merge[m] EXCEPT !.tagged = TRUE, !.moved = merge[m].moved \union fresh]
<1>1. merge[m] \in MergeStates /\ m \in Open /\ merge[m].done = Len(MovedTables)
  BY DEF MoveTags, Open, TypeOK, LastTable
<1>2. /\ after.source = merge[m].source /\ after.target = merge[m].target /\ after.into = merge[m].into
      /\ after.done = merge[m].done /\ after.tagged = TRUE /\ after.open = merge[m].open
      /\ after.moved = merge[m].moved \union fresh
  BY <1>1 DEF MergeStates
<1>3. /\ merge' = [merge EXCEPT ![m] = after] /\ UNCHANGED <<cards, at, raced>>
      /\ late' = late \union {r \in rows : TagOf[r] \in has}
  BY DEF MoveTags
<1> HIDE DEF after, has
<1>4. merge'[m] = after /\ \A n \in Merges \ {m} : merge'[n] = merge[n]
  BY <1>3 DEF TypeOK
<1>5. Open' = Open /\ \A n \in Open : n \in Merges
  BY <1>1, <1>2, <1>4 DEF Open
<1>6. \A n \in Open : /\ merge'[n].source = merge[n].source /\ merge'[n].target = merge[n].target
                       /\ merge'[n].moved \intersect Rows = merge[n].moved \intersect Rows
  <2>1. fresh \intersect Rows = {}
    BY DEF CardMergeAssumption
  <2> HIDE DEF fresh
  <2>2. QED
    BY <1>2, <1>4, <1>5, <2>1
<1>7. Given' /\ Met' /\ Apart'
  BY <1>3, <1>5, <1>6 DEF Given, Met, InHand, Apart
<1>8. ASSUME NEW n \in Open PROVE Loaded(n)' /\ Taken(n)'
  <2>1. CASE n # m
    BY <1>3, <1>4, <1>5, <2>1 DEF Loaded, Taken, Passed
  <2>2. CASE n = m
    <3>1. Loaded(m)'
      BY <1>1, <1>2, <1>3, <1>4 DEF Loaded
    <3>2. \A r \in after.moved \intersect Rows : at[r] = merge[m].source
      BY <1>1, <1>4, <1>6 DEF Taken
    <3>3. ASSUME merge[m].source \notin raced, NEW r \in AllRows, at[r] = merge[m].source, Passed(m, r)'
          PROVE  r \in after.moved \union late'
      <4>1. CASE r \in Rows
        BY <1>1, <1>2, <1>3, <1>4, <3>3, <4>1 DEF Taken, Passed
      <4>2. CASE r \in TagRows
        BY <1>2, <1>3, <3>3, <4>2
      <4>3. QED
        BY <4>1, <4>2 DEF AllRows
    <3>4. QED
      BY <1>1, <1>2, <1>3, <1>4, <2>2, <3>1, <3>2, <3>3 DEF Taken
  <2>3. QED
    BY <2>1, <2>2
<1>9. RowsFollow' /\ MergesEnd'
  BY <1>3 DEF RowsFollow, Stays, MergesEnd
<1>10. QED
  BY <1>5, <1>7, <1>8, <1>9

\* An end of a merge changes no other.
LEMMA EndOfMerge ==
  ASSUME IInv, NEW m \in Open, merge' = [merge EXCEPT ![m] = Idle], raced' = raced
  PROVE  /\ Open' = Open \ {m}
         /\ \A n \in Open' : n \in Merges /\ merge'[n] = merge[n]
         /\ Given' /\ Met' /\ Apart'
<1>1. merge'[m] = Idle /\ \A n \in Merges \ {m} : merge'[n] = merge[n]
  BY DEF IInv, TypeOK, Open
<1>2. Open' = Open \ {m} /\ \A n \in Open' : n \in Merges /\ merge'[n] = merge[n]
  BY <1>1, IdleTyped DEF Open
<1>3. QED
  BY <1>2 DEF IInv, Ready, Given, Met, InHand, Apart

LEMMA CommitKeeps ==
  ASSUME CardMergeAssumption, IInv, NEW m \in Merges, Commit(m)
  PROVE  Ready' /\ RowsFollow' /\ MergesEnd'
<1> USE DEF IInv, Ready
<1> DEFINE s == merge[m].source
           t == merge[m].target
<1>1. m \in Open /\ merge[m] \in MergeStates /\ merge[m].done = Len(MovedTables) /\ merge[m].tagged
  BY DEF Commit, Open, TypeOK, Taken
<1>0. PICK added \in NewAliases :
        at' = [r \in AllRows |-> IF r \in merge[m].moved \union added THEN t ELSE at[r]]
  BY DEF Commit
<1> DEFINE put == merge[m].moved \union added
<1>2. /\ cards' = [cards EXCEPT ![s] = Retired(cards[s], m)]
      /\ at' = [r \in AllRows |-> IF r \in put THEN t ELSE at[r]]
      /\ merge' = [merge EXCEPT ![m] = Idle] /\ raced' = raced /\ late' = late
      /\ \A r \in added : r \in Rows /\ at[r] = NoCard
  BY <1>0 DEF Commit, NewAliases
<1> HIDE DEF put
<1>3. /\ Open' = Open \ {m}
      /\ \A n \in Open' : n \in Merges /\ n \in Open /\ n # m /\ merge'[n] = merge[n]
      /\ Given' /\ Met' /\ Apart'
  BY <1>1, <1>2, EndOfMerge
<1>4. s \in Cards /\ t \in Cards /\ s # t
  BY <1>1 DEF Given
<1>5. /\ \A k \in Cards \ {s} : cards'[k] = cards[k]
      /\ s \notin raced => cards'[s].into = t
      /\ cards'[s].active => cards[s].active
  <2>1. cards'[s] = Retired(cards[s], m) /\ \A k \in Cards \ {s} : cards'[k] = cards[k]
    BY <1>2, <1>4 DEF TypeOK
  <2>2. Retired(cards[s], m).active => cards[s].active
    BY DEF Retired
  <2>3. s \notin raced => Retired(cards[s], m).into = t
    BY <1>1 DEF Retired, Loaded
  <2>4. QED
    BY <2>1, <2>2, <2>3
<1>6. ASSUME NEW n \in Open' PROVE Loaded(n)' /\ Taken(n)'
  <2>1. /\ s \in {merge[n].source, merge[n].target} => s \in raced
        /\ t \in {merge[n].source, merge[n].target} => t \in raced
    BY <1>1, <1>3 DEF Met, InHand
  <2>2. merge[n].source \in Cards /\ merge[n].target \in Cards /\ n \in Open /\ merge'[n] = merge[n]
    BY <1>3 DEF Given
  <2>3. Loaded(n)'
    BY <1>2, <1>5, <2>1, <2>2 DEF Loaded
  <2>4. \A r \in merge[n].moved \intersect Rows : at'[r] = merge[n].source
    <3> SUFFICES ASSUME NEW r \in merge[n].moved \intersect Rows PROVE at'[r] = merge[n].source
      OBVIOUS
    <3>1. r \notin put
      BY <1>1, <1>2, <1>3, <2>2 DEF put, Apart, Taken, CardMergeAssumption
    <3>2. QED
      BY <1>2, <2>2, <3>1 DEF AllRows, Taken
  <2>5. ASSUME merge[n].source \notin raced, NEW r \in AllRows, at'[r] = merge[n].source, Passed(n, r)
        PROVE  r \in merge[n].moved \union late
    <3>1. at'[r] = at[r]
      BY <1>2, <2>1, <2>5
    <3>2. QED
      BY <2>2, <2>5, <3>1 DEF Taken
  <2>6. QED
    BY <1>2, <2>2, <2>3, <2>4, <2>5 DEF Taken, Passed
<1>7. RowsFollow'
  <2> SUFFICES ASSUME NEW r \in AllRows, at'[r] # NoCard, ~cards'[at'[r]].active,
                      at'[r] \notin raced, r \notin late, ~Stays(r)
               PROVE  FALSE
    BY <1>2 DEF RowsFollow, Stays
  <2>1. at[r] \in Cards \union {NoCard}
    BY DEF TypeOK
  <2>2. CASE r \in put
    BY <1>1, <1>2, <1>4, <1>5, <2>2 DEF Loaded
  <2>3. CASE r \notin put /\ at[r] = s
    <3>1. Passed(m, r)
      BY <1>1, LengthOfTables DEF Passed, Stays, CardMergeAssumption
    <3>2. r \notin merge[m].moved
      BY <2>3 DEF put
    <3>3. QED
      BY <1>1, <1>2, <2>3, <3>1, <3>2 DEF Taken
  <2>4. CASE r \notin put /\ at[r] # s
    BY <1>2, <1>5, <2>1, <2>4 DEF RowsFollow, Stays
  <2>5. QED
    BY <2>2, <2>3, <2>4
<1>8. MergesEnd'
  <2> SUFFICES ASSUME NEW ks \in SUBSET {k \in Cards : ~cards'[k].active /\ k \notin raced}, ks # {}
               PROVE  \E k \in ks : cards'[k].into \notin ks
    BY <1>2 DEF MergesEnd
  <2>1. CASE s \in ks
    <3>1. t \notin ks
      BY <1>1, <1>4, <1>5 DEF Loaded
    <3>2. QED
      BY <1>5, <2>1, <3>1
  <2>2. CASE s \notin ks
    <3>1. \A k \in ks : cards'[k] = cards[k]
      BY <1>5, <2>2
    <3>2. ks \in SUBSET {k \in Cards : ~cards[k].active /\ k \notin raced}
      BY <3>1
    <3>3. QED
      BY <3>1, <3>2 DEF MergesEnd
  <2>3. QED
    BY <2>1, <2>2
<1>9. QED
  BY <1>3, <1>6, <1>7, <1>8

LEMMA AbortKeeps ==
  ASSUME IInv, NEW m \in Merges, Abort(m)
  PROVE  Ready' /\ RowsFollow' /\ MergesEnd'
<1>1. m \in Open /\ UNCHANGED <<cards, at, raced, late>> /\ merge' = [merge EXCEPT ![m] = Idle]
  BY DEF Abort, Open
<1>2. \A n \in Open' : n \in Open /\ merge'[n] = merge[n]
  BY <1>1, EndOfMerge
<1>3. ASSUME NEW n \in Open' PROVE Loaded(n)' /\ Taken(n)'
  BY <1>1, <1>2 DEF IInv, Ready, Loaded, Taken, Passed
<1>4. QED
  BY <1>1, <1>3, EndOfMerge DEF IInv, Ready, RowsFollow, Stays, MergesEnd

\* Of a row that comes or goes only its place changes: it is not held, and
\* where it comes to a card that is leaving it is late, or no merge moves it.
LEMMA RowKeeps ==
  ASSUME CardMergeAssumption, IInv, NEW r \in AllRows, Remove(r) \/ \E k \in Cards : Add(r, k)
  PROVE  Ready' /\ RowsFollow' /\ MergesEnd'
<1> USE DEF IInv, Ready
<1>1. UNCHANGED <<cards, merge, raced>> /\ Open' = Open /\ \A n \in Open : merge[n].source \in Cards
  BY DEF Remove, Add, Open, Given
<1>2. /\ \A g \in AllRows \ {r} : at'[g] = at[g] /\ (g \in late => g \in late')
      /\ \/ at'[r] = NoCard
         \/ at'[r] \in Cards /\ (Stays(r) \/ r \in late' \/ (cards[at'[r]].active /\ at'[r] \notin Leaving))
  <2>1. CASE Remove(r)
    BY <2>1 DEF Remove, TypeOK
  <2>2. ASSUME NEW k \in Cards, Add(r, k)
        PROVE  /\ \A g \in AllRows \ {r} : at'[g] = at[g] /\ (g \in late => g \in late')
               /\ at'[r] \in Cards /\ (Stays(r) \/ r \in late' \/ (cards[at'[r]].active /\ at'[r] \notin Leaving))
    BY <2>2 DEF Add, TypeOK
  <2>3. QED
    BY <2>1, <2>2
<1>3. r \in Rows => \A n \in Open : r \notin merge[n].moved
  <2>1. CASE Remove(r)
    BY <2>1 DEF Remove, Held
  <2>2. ASSUME NEW k \in Cards, Add(r, k), r \in Rows, NEW n \in Open PROVE r \notin merge[n].moved
    BY <1>1, <2>2 DEF Add, Taken, CardMergeAssumption
  <2>3. QED
    BY <2>1, <2>2
<1>4. ASSUME NEW n \in Open' PROVE Loaded(n)' /\ Taken(n)'
  <2>1. Loaded(n)'
    BY <1>1 DEF Loaded
  <2>2. \A g \in merge[n].moved \intersect Rows : at'[g] = merge[n].source
    BY <1>1, <1>2, <1>3 DEF Taken, AllRows
  <2>3. ASSUME merge[n].source \notin raced, NEW g \in AllRows, at'[g] = merge[n].source, Passed(n, g)
        PROVE  g \in merge[n].moved \union late'
    <3>1. CASE g = r
      <4>1. ~Stays(r)
        BY <1>4, <2>3, <3>1, LengthOfTables, <1>1 DEF Stays, Passed, Taken, CardMergeAssumption, TypeOK, MergeStates, Open
      <4>2. QED
        BY <1>1, <1>2, <2>3, <3>1, <4>1 DEF Leaving, CardMergeAssumption
    <3>2. CASE g # r
      BY <1>1, <1>2, <2>3, <3>2 DEF Taken
    <3>3. QED
      BY <3>1, <3>2
  <2>4. QED
    BY <1>1, <2>1, <2>2, <2>3 DEF Taken, Passed
<1>5. Given' /\ Met' /\ Apart' /\ MergesEnd'
  BY <1>1 DEF Given, Met, InHand, Apart, MergesEnd
<1>6. RowsFollow'
  BY <1>1, <1>2 DEF RowsFollow, Stays
<1>7. QED
  BY <1>1, <1>4, <1>5, <1>6

LEMMA InvariantHolds ==
  ASSUME CardMergeAssumption
  PROVE  Spec => []IInv
<1>1. Init => Ready /\ RowsFollow /\ MergesEnd
  <2> SUFFICES ASSUME Init PROVE Ready /\ RowsFollow /\ MergesEnd
    OBVIOUS
  <2>1. Open = {}
    BY IdleTyped DEF Init, Open
  <2>2. Ready /\ RowsFollow
    BY <2>1 DEF Init, Ready, Given, Met, Apart, RowsFollow
  <2>3. {k \in Cards : ~cards[k].active /\ k \notin raced} = {}
    BY DEF Init
  <2>4. MergesEnd
    <3> SUFFICES ASSUME NEW ks \in SUBSET {k \in Cards : ~cards[k].active /\ k \notin raced}, ks # {}
                 PROVE  \E k \in ks : cards[k].into \notin ks
      BY DEF MergesEnd
    <3>1. QED
      BY <2>3
  <2>5. QED
    BY <2>2, <2>4
<1>2. IInv /\ [Next]_vars => Ready' /\ RowsFollow' /\ MergesEnd'
  <2> SUFFICES ASSUME IInv, [Next]_vars PROVE Ready' /\ RowsFollow' /\ MergesEnd'
    OBVIOUS
  <2>1. CASE UNCHANGED vars
    BY <2>1 DEF vars, IInv, Ready, Given, Met, Apart, Open, InHand, Loaded, Taken, Passed, RowsFollow,
                   Stays, MergesEnd
  <2>2. QED
    BY <2>1, BeginKeeps, MoveTableKeeps, MoveTagsKeeps, CommitKeeps, AbortKeeps, RowKeeps DEF Next
<1>3. Spec => []TypeOK
  BY TypeCorrect
<1>4. QED
  BY <1>1, <1>2, <1>3, PTL DEF Spec, IInv

\* The rows that execute_card_merge moves follow their card through every
\* chain of merges, however they overlap, but for those that come late and for
\* cards that two merges raced for.  Of the rows in LeftTables (prices, aliases,
\* matched candidates) it says nothing: they stay, against the docstring.
THEOREM RowsAlwaysFollow ==
  ASSUME CardMergeAssumption
  PROVE  Spec => []RowsFollow
<1>1. IInv => RowsFollow
  BY DEF IInv
<1>2. QED
  BY <1>1, InvariantHolds, PTL

\* No order of merges makes a cycle of retired cards without a race.
THEOREM MergesAlwaysEnd ==
  ASSUME CardMergeAssumption
  PROVE  Spec => []MergesEnd
<1>1. IInv => MergesEnd
  BY DEF IInv
<1>2. QED
  BY <1>1, InvariantHolds, PTL

-----------------------------------------------------------------------------
(***************************************************************************)
(* Saved views                                                             *)
(***************************************************************************)

ViewSessions ==
  {SavedView!Idle} \union [at : {"asked"}, view : Views]
    \union [at : {"loaded"}, view : Views, was : BOOLEAN]
    \union [at : {"cleared"}, view : Views, was : BOOLEAN, wrote : SUBSET Views]

Page(s) == PageOf[session[s].view]
Asking(s) == session[s].at # "idle"

\* A request that nobody races with has loaded the flag that its view still
\* has, if it has not gone, and unsets just the other defaults there are.
Informed(s) ==
  /\ \A t \in Sessions \ {s} : Asking(t) => Page(t) # Page(s)
  /\ session[s].at \in {"loaded", "cleared"} =>
       default[session[s].view] \in {IF session[s].was THEN "default" ELSE "plain", "deleted"}
  /\ session[s].at = "cleared" => session[s].wrote = SavedView!Defaults(Page(s)) \ {session[s].view}

ViewsReady ==
  /\ session \in [Sessions -> ViewSessions]
  /\ \A s \in Sessions :
       /\ session[s].at = "cleared" => session[s].wrote \subseteq SavedView!On(Page(s))
       /\ Asking(s) /\ Page(s) \notin clashed => Informed(s)

ViewsInv == SavedView!TypeOK /\ ViewsReady /\ SavedView!DefaultIsChosen

\* The fields of a request, by how far it is.
LEMMA ViewSessionFields ==
  ASSUME NEW x \in ViewSessions
  PROVE  /\ x.at \in {"idle", "asked", "loaded", "cleared"}
         /\ x = SavedView!Idle <=> x.at = "idle"
         /\ x.at # "idle" => x.view \in Views
         /\ x.at = "loaded" => x.was \in BOOLEAN
         /\ x.at = "cleared" => x.was \in BOOLEAN /\ x.wrote \subseteq Views
  BY DEF ViewSessions, SavedView!Idle

LEMMA ViewsStart ==
  ASSUME SavedView!Init
  PROVE  ViewsInv
<1>1. SavedView!Idle \in ViewSessions /\ SavedView!Idle.at = "idle"
  BY DEF ViewSessions, SavedView!Idle
<1>2. SavedView!TypeOK
  BY <1>1 DEF SavedView!Init, SavedView!TypeOK
<1>3. ViewsReady
  BY <1>1 DEF SavedView!Init, ViewsReady, Asking
<1>4. SavedView!DefaultIsChosen
  BY DEF SavedView!Init, SavedView!DefaultIsChosen, SavedView!Defaults, SavedView!On
<1>5. QED
  BY <1>2, <1>3, <1>4 DEF ViewsInv

\* A request that goes on or ends, while the views stay as they are, disturbs
\* no other.
LEMMA ViewRequestMoves ==
  ASSUME ViewsInv, NEW s \in Sessions, NEW x \in ViewSessions,
         session' = [session EXCEPT ![s] = x], UNCHANGED <<default, picked, clashed>>,
         x.at = "idle" \/ (Asking(s) /\ x.view = session[s].view),
         x.at = "cleared" => x.wrote \subseteq SavedView!On(PageOf[x.view]),
         x.at \in {"loaded", "cleared"} /\ PageOf[x.view] \notin clashed =>
           default[x.view] \in {IF x.was THEN "default" ELSE "plain", "deleted"},
         x.at = "cleared" /\ PageOf[x.view] \notin clashed =>
           x.wrote = SavedView!Defaults(PageOf[x.view]) \ {x.view}
  PROVE  ViewsInv'
<1> USE DEF ViewsInv, ViewsReady
<1>1. /\ session' \in [Sessions -> ViewSessions]
      /\ session'[s] = x /\ \A t \in Sessions \ {s} : session'[t] = session[t]
  OBVIOUS
<1>2. \A p : SavedView!Defaults(p)' = SavedView!Defaults(p) /\ SavedView!On(p)' = SavedView!On(p)
  BY DEF SavedView!Defaults, SavedView!On
<1>3. SavedView!TypeOK'
  BY <1>1, ViewSessionFields DEF SavedView!TypeOK
<1>4. \A t \in Sessions : Asking(t)' => Asking(t) /\ Page(t)' = Page(t)
  BY <1>1 DEF Asking, Page
<1>5. ASSUME NEW t \in Sessions
      PROVE  /\ session'[t].at = "cleared" => session'[t].wrote \subseteq SavedView!On(Page(t)')
             /\ Asking(t)' /\ Page(t)' \notin clashed => Informed(t)'
  <2>1. CASE t = s
    BY <1>1, <1>2, <1>4, <2>1 DEF Informed, Asking, Page
  <2>2. CASE t # s
    BY <1>1, <1>2, <1>4, <2>2 DEF Informed, Asking, Page
  <2>3. QED
    BY <2>1, <2>2
<1>6. SavedView!DefaultIsChosen'
  BY <1>2 DEF SavedView!DefaultIsChosen
<1>7. QED
  BY <1>1, <1>2, <1>3, <1>5, <1>6

LEMMA ViewLoadKeeps ==
  ASSUME ViewsInv, NEW s \in Sessions, SavedView!Load(s)
  PROVE  ViewsInv'
<1>1. session[s] \in ViewSessions /\ session[s].at = "asked"
  BY DEF ViewsInv, ViewsReady, SavedView!Load
<1> DEFINE v == session[s].view
           x == IF v \in SavedView!Stored THEN [at |-> "loaded", view |-> v, was |-> default[v] = "default"]
                ELSE SavedView!Idle
<1>2. v \in Views
  BY <1>1, ViewSessionFields
<1>3. x \in ViewSessions
  BY <1>2 DEF ViewSessions
<1>4. session' = [session EXCEPT ![s] = x] /\ UNCHANGED <<default, picked, clashed>>
  BY DEF SavedView!Load
<1>5. x.at = "idle" \/ (x.at = "loaded" /\ x.view = v /\ x.was = (default[v] = "default") /\ v \in SavedView!Stored)
  BY DEF SavedView!Idle
<1>6. v \in SavedView!Stored => default[v] \in {"plain", "default"}
  BY DEF SavedView!Stored
<1> HIDE DEF x, v
<1>7. QED
  BY <1>1, <1>3, <1>4, <1>5, <1>6, ViewRequestMoves DEF Asking, v

LEMMA ViewClearOthersKeeps ==
  ASSUME ViewsInv, NEW s \in Sessions, SavedView!ClearOthers(s)
  PROVE  ViewsInv'
<1>1. session[s] \in ViewSessions /\ session[s].at = "loaded"
  BY DEF ViewsInv, ViewsReady, SavedView!ClearOthers
<1> DEFINE v == session[s].view
           x == [at |-> "cleared", view |-> v, was |-> session[s].was, wrote |-> SavedView!Others(v)]
<1>2. v \in Views /\ session[s].was \in BOOLEAN
  BY <1>1, ViewSessionFields
<1>3. /\ SavedView!Others(v) = SavedView!Defaults(PageOf[v]) \ {v}
      /\ SavedView!Others(v) \subseteq SavedView!On(PageOf[v]) /\ SavedView!Others(v) \subseteq Views
  BY DEF SavedView!Others, SavedView!Defaults, SavedView!On
<1>4. x \in ViewSessions
  BY <1>2, <1>3 DEF ViewSessions
<1>5. session' = [session EXCEPT ![s] = x] /\ UNCHANGED <<default, picked, clashed>>
  BY DEF SavedView!ClearOthers
<1>6. x.at = "cleared" /\ x.view = v /\ x.was = session[s].was /\ x.wrote = SavedView!Others(v)
  OBVIOUS
<1>7. Asking(s) /\ (PageOf[v] \notin clashed =>
                      default[v] \in {IF session[s].was THEN "default" ELSE "plain", "deleted"})
  BY <1>1 DEF ViewsInv, ViewsReady, Asking, Informed, Page
<1> HIDE DEF x, v
<1>8. QED
  BY <1>3, <1>4, <1>5, <1>6, <1>7, ViewRequestMoves DEF v

LEMMA ViewAbortKeeps ==
  ASSUME ViewsInv, NEW s \in Sessions, SavedView!Abort(s)
  PROVE  ViewsInv'
<1>1. SavedView!Idle \in ViewSessions /\ SavedView!Idle.at = "idle"
  BY DEF ViewSessions, SavedView!Idle
<1>2. session' = [session EXCEPT ![s] = SavedView!Idle] /\ UNCHANGED <<default, picked, clashed>>
  BY DEF SavedView!Abort
<1>3. QED
  BY <1>1, <1>2, ViewRequestMoves

\* A request that begins, and a view that is created, are nothing to others but
\* for a race.
LEMMA ViewRequestBegins ==
  ASSUME ViewsInv, NEW s \in Sessions, NEW v \in Views, session[s] = SavedView!Idle,
         session' = [session EXCEPT ![s] = [at |-> "asked", view |-> v]],
         SavedView!Race(PageOf[v], SavedView!Busy(PageOf[v])),
         default' = default \/ (default[v] = "absent" /\ default' = [default EXCEPT ![v] = "plain"]),
         UNCHANGED picked
  PROVE  ViewsInv'
<1> USE DEF ViewsInv, ViewsReady
<1> DEFINE x == [at |-> "asked", view |-> v]
<1>1. x \in ViewSessions /\ x.at = "asked" /\ x.view = v
  BY DEF ViewSessions
<1>2. session' = [session EXCEPT ![s] = x]
  OBVIOUS
<1> HIDE DEF x
<1>3. /\ session' \in [Sessions -> ViewSessions]
      /\ session'[s] = x /\ \A t \in Sessions \ {s} : session'[t] = session[t]
  BY <1>1, <1>2
<1>4. \A p : SavedView!Defaults(p)' = SavedView!Defaults(p) /\ SavedView!On(p)' = SavedView!On(p)
  BY DEF SavedView!Defaults, SavedView!On, SavedView!TypeOK
<1>5. clashed \subseteq clashed' /\ clashed' \subseteq SavedView!Pages
  BY DEF SavedView!Race, SavedView!TypeOK, SavedView!Pages
<1>6. SavedView!TypeOK'
  BY <1>1, <1>3, <1>5, ViewSessionFields DEF SavedView!TypeOK
<1>7. ASSUME NEW t \in Sessions \ {s}, Asking(t), Page(t) = PageOf[v]
      PROVE  PageOf[v] \in clashed'
  <2>1. t \in SavedView!Busy(PageOf[v])
    BY <1>7, ViewSessionFields DEF SavedView!Busy, Asking, Page
  <2>2. QED
    BY <2>1 DEF SavedView!Race
<1>8. \A w \in Views : default[w] # "absent" => default'[w] = default[w]
  BY DEF SavedView!TypeOK
<1>9. ASSUME NEW t \in Sessions
      PROVE  /\ session'[t].at = "cleared" => session'[t].wrote \subseteq SavedView!On(Page(t)')
             /\ Asking(t)' /\ Page(t)' \notin clashed' => Informed(t)'
  <2>1. CASE t = s
    <3>1. \A u \in Sessions \ {s} : Asking(u)' => Asking(u) /\ Page(u)' = Page(u)
      BY <1>3 DEF Asking, Page
    <3>2. QED
      BY <1>1, <1>3, <1>7, <2>1, <3>1 DEF Informed, Asking, Page
  <2>2. CASE t # s
    <3>1. session'[t] = session[t] /\ session[t] \in ViewSessions
      BY <1>3, <2>2
    <3>2. Asking(t)' /\ Page(t)' \notin clashed' =>
            \A u \in Sessions \ {t} : Asking(u)' => Page(u)' # Page(t)'
      BY <1>1, <1>3, <1>5, <1>7, <2>2 DEF Informed, Asking, Page
    <3>3. QED
      BY <1>4, <1>5, <1>8, <3>1, <3>2, ViewSessionFields DEF Informed, Asking, Page
  <2>3. QED
    BY <2>1, <2>2
<1>10. SavedView!DefaultIsChosen'
  BY <1>4, <1>5 DEF SavedView!DefaultIsChosen
<1>11. QED
  BY <1>3, <1>4, <1>6, <1>9, <1>10

LEMMA ViewCommitKeeps ==
  ASSUME ViewsInv, NEW s \in Sessions, SavedView!Commit(s)
  PROVE  ViewsInv'
<1> USE DEF ViewsInv, ViewsReady
<1>1. session[s] \in ViewSessions /\ session[s].at = "cleared" /\ Asking(s)
  BY DEF SavedView!Commit, Asking
<1>2. PICK v \in Views : v = session[s].view
  BY <1>1, ViewSessionFields
<1> DEFINE p == PageOf[v]
           writes == ~session[s].was
<1>3. v = session[s].view /\ p \in SavedView!Pages /\ session[s].wrote \subseteq SavedView!On(p)
  BY <1>2, <1>1, ViewSessionFields DEF SavedView!Pages, Page
<1>4. SavedView!Idle \in ViewSessions /\ SavedView!Idle.at = "idle"
  BY DEF ViewSessions, SavedView!Idle
<1>5. /\ session' \in [Sessions -> ViewSessions] /\ clashed' = clashed
      /\ session'[s] = SavedView!Idle /\ \A t \in Sessions \ {s} : session'[t] = session[t]
  BY <1>4 DEF SavedView!Commit
<1>6. \A t \in Sessions : Asking(t)' => t # s /\ Asking(t) /\ Page(t)' = Page(t)
  BY <1>4, <1>5 DEF Asking, Page
<1>7. CASE writes /\ v \notin SavedView!Stored
  <2>1. UNCHANGED <<default, picked, clashed>> /\ session' = [session EXCEPT ![s] = SavedView!Idle]
    BY <1>3, <1>7 DEF SavedView!Commit
  <2>2. QED
    BY <1>4, <2>1, ViewRequestMoves
<1>8. CASE ~(writes /\ v \notin SavedView!Stored)
  <2>1. /\ default' = [w \in Views |-> IF w = v /\ writes THEN "default"
                                       ELSE IF w \in session[s].wrote THEN "plain" ELSE default[w]]
        /\ picked' = [picked EXCEPT ![p] = {v} \intersect SavedView!Stored]
    BY <1>3, <1>8 DEF SavedView!Commit
  <2>2. \A w \in Views : PageOf[w] # p => default'[w] = default[w]
    BY <1>3, <2>1 DEF SavedView!On
  <2>3. \A q : q # p => SavedView!Defaults(q)' = SavedView!Defaults(q)
    BY <2>2 DEF SavedView!Defaults, SavedView!On
  <2>4. SavedView!TypeOK'
    <3>1. default' \in [Views -> {"absent", "plain", "default", "deleted"}]
      BY <2>1 DEF SavedView!TypeOK
    <3>2. picked' \in [SavedView!Pages -> SUBSET Views]
      BY <1>3, <2>1 DEF SavedView!TypeOK
    <3>3. QED
      BY <1>5, <3>1, <3>2, ViewSessionFields DEF SavedView!TypeOK, SavedView!Pages
  <2>5. ASSUME NEW t \in Sessions
        PROVE  /\ session'[t].at = "cleared" => session'[t].wrote \subseteq SavedView!On(Page(t)')
               /\ Asking(t)' /\ Page(t)' \notin clashed' => Informed(t)'
    <3>1. session'[t].at = "cleared" => Asking(t)'
      BY DEF Asking
    <3>2. ASSUME Asking(t)' PROVE session'[t] = session[t] /\ session[t].view \in Views
      BY <1>5, <1>6, <3>2, ViewSessionFields DEF Asking
    <3>3. session'[t].at = "cleared" => session'[t].wrote \subseteq SavedView!On(Page(t)')
      BY <1>6, <3>1, <3>2 DEF SavedView!On
    <3>4. ASSUME Asking(t)', Page(t)' \notin clashed' PROVE Informed(t)'
      <4>1. Informed(t) /\ Page(t) # p
        BY <1>1, <1>3, <1>5, <1>6, <3>4 DEF Informed, Page
      <4>2. QED
        BY <1>6, <2>2, <2>3, <3>2, <3>4, <4>1 DEF Informed, Page
    <3>5. QED
      BY <3>3, <3>4
  <2>6. p \notin clashed => SavedView!Defaults(p)' = picked'[p]
    <3>1. picked'[p] = {v} \intersect SavedView!Stored
      BY <1>3, <2>1 DEF SavedView!TypeOK
    <3>2. p \notin clashed => /\ session[s].wrote = SavedView!Defaults(p) \ {v}
                              /\ default[v] \in {IF session[s].was THEN "default" ELSE "plain", "deleted"}
      BY <1>1, <1>3 DEF Informed, Page
    <3>3. p \notin clashed => \A w \in SavedView!On(p) : default'[w] = "default" <=> w \in {v} \intersect SavedView!Stored
      BY <1>3, <1>8, <2>1, <3>2 DEF SavedView!Defaults, SavedView!On, SavedView!Stored
    <3>4. v \in SavedView!On(p)
      BY <1>3 DEF SavedView!On
    <3>5. SavedView!Defaults(p)' = {w \in SavedView!On(p) : default'[w] = "default"}
      BY DEF SavedView!Defaults, SavedView!On
    <3>6. QED
      BY <3>1, <3>3, <3>4, <3>5
  <2>7. SavedView!DefaultIsChosen'
    <3>1. \A q \in SavedView!Pages : q # p => picked'[q] = picked[q]
      BY <1>3, <2>1 DEF SavedView!TypeOK
    <3>2. ASSUME NEW q \in SavedView!Pages \ clashed PROVE SavedView!Defaults(q)' = picked'[q]
      BY <2>3, <2>6, <3>1 DEF SavedView!DefaultIsChosen
    <3>3. QED
      BY <1>5, <3>2 DEF SavedView!DefaultIsChosen, SavedView!Pages
  <2>8. QED
    BY <1>5, <2>4, <2>5, <2>7
<1>9. QED
  BY <1>7, <1>8

\* Views that lose their flag or go while no request for the page is under way
\* that has not been raced, or that no request has written.
LEMMA ViewsChange ==
  ASSUME ViewsInv, UNCHANGED session,
         default' \in [Views -> {"absent", "plain", "default", "deleted"}],
         picked' \in [SavedView!Pages -> SUBSET Views],
         clashed \subseteq clashed', clashed' \subseteq SavedView!Pages,
         \A t \in Sessions, p \in SavedView!Pages \ clashed' : Asking(t) /\ Page(t) = p =>
           /\ session[t].at \in {"loaded", "cleared"} =>
                default'[session[t].view] \in {default[session[t].view], "deleted"}
           /\ session[t].at = "cleared" =>
                SavedView!Defaults(p)' \ {session[t].view} = SavedView!Defaults(p) \ {session[t].view},
         \A p \in SavedView!Pages \ clashed' : SavedView!Defaults(p) = picked[p] => SavedView!Defaults(p)' = picked'[p]
  PROVE  ViewsInv'
<1> USE DEF ViewsInv, ViewsReady
<1>1. SavedView!TypeOK'
  BY DEF SavedView!TypeOK, SavedView!Idle, SavedView!Pages
<1>2. \A t \in Sessions : Asking(t)' = Asking(t) /\ Page(t)' = Page(t)
  BY DEF Asking, Page
<1>3. ASSUME NEW t \in Sessions
      PROVE  /\ session'[t].at = "cleared" => session'[t].wrote \subseteq SavedView!On(Page(t)')
             /\ Asking(t)' /\ Page(t)' \notin clashed' => Informed(t)'
  <2>1. session'[t].at = "cleared" => session'[t].wrote \subseteq SavedView!On(Page(t)')
    BY <1>2 DEF SavedView!On
  <2>2. ASSUME Asking(t), Page(t) \notin clashed' PROVE Informed(t)'
    <3>1. PICK p \in SavedView!Pages : p = Page(t)
      BY <2>2, ViewSessionFields DEF SavedView!Pages, Page, Asking
    <3>2. Informed(t) /\ p \notin clashed' /\ p = Page(t)'
      BY <1>2, <2>2, <3>1
    <3>3. QED
      BY <1>2, <2>2, <3>1, <3>2 DEF Informed
  <2>3. QED
    BY <1>2, <2>1, <2>2
<1>4. SavedView!DefaultIsChosen'
  BY DEF SavedView!DefaultIsChosen, SavedView!Pages
<1>5. QED
  BY <1>1, <1>3, <1>4

LEMMA ViewCreateKeeps ==
  ASSUME ViewsInv, NEW s \in Sessions, NEW v \in Views, NEW make \in BOOLEAN, SavedView!Create(s, v, make)
  PROVE  ViewsInv'
<1>1. CASE make
  BY <1>1, ViewRequestBegins DEF SavedView!Create
<1>2. CASE ~make
  <2>1. /\ UNCHANGED <<session, picked, clashed>>
        /\ default[v] = "absent" /\ default' = [default EXCEPT ![v] = "plain"]
    BY <1>2 DEF SavedView!Create
  <2>2. \A p : SavedView!Defaults(p)' = SavedView!Defaults(p)
    BY <2>1 DEF SavedView!Defaults, SavedView!On, ViewsInv, SavedView!TypeOK
  <2>3. ASSUME NEW t \in Sessions, session[t].at \in {"loaded", "cleared"}, Page(t) \notin clashed
        PROVE  default'[session[t].view] = default[session[t].view]
    <3>1. session[t].view \in Views /\ default[session[t].view] # "absent"
      BY <2>3, ViewSessionFields DEF ViewsInv, ViewsReady, Informed, Asking
    <3>2. QED
      BY <2>1, <3>1 DEF ViewsInv, SavedView!TypeOK
  <2>4. QED
    BY <2>1, <2>2, <2>3, ViewsChange DEF ViewsInv, SavedView!TypeOK
<1>3. QED
  BY <1>1, <1>2

\* What Unset, Clear and Delete have in common: of the page's views some lose
\* their flag, none of them in the hands of an open transaction.
LEMMA ViewsLoseFlag ==
  ASSUME ViewsInv, UNCHANGED session, NEW p \in SavedView!Pages, NEW vs \in SUBSET SavedView!On(p),
         default' \in [Views -> {"absent", "plain", "default", "deleted"}],
         \A w \in Views : IF w \in vs THEN default'[w] # "default" ELSE default'[w] = default[w],
         picked' = [picked EXCEPT ![p] = @ \ vs]
           \/ (vs = SavedView!Defaults(p) /\ picked' = [picked EXCEPT ![p] = {}]),
         SavedView!Race(p, SavedView!Busy(p))
           \/ (/\ UNCHANGED clashed /\ vs \intersect SavedView!Locked = {}
               /\ \A w \in vs : default'[w] = "deleted")
  PROVE  ViewsInv'
<1>1. clashed \subseteq clashed' /\ clashed' \subseteq SavedView!Pages
  BY DEF SavedView!Race, ViewsInv, SavedView!TypeOK
<1>2. picked' \in [SavedView!Pages -> SUBSET Views]
  BY DEF ViewsInv, SavedView!TypeOK
<1>3. \A q : SavedView!Defaults(q)' = IF q = p THEN SavedView!Defaults(q) \ vs ELSE SavedView!Defaults(q)
  BY DEF SavedView!Defaults, SavedView!On
<1>4. ASSUME NEW q \in SavedView!Pages \ clashed', SavedView!Defaults(q) = picked[q]
      PROVE  SavedView!Defaults(q)' = picked'[q]
  BY <1>3, <1>4 DEF ViewsInv, SavedView!TypeOK
<1>5. ASSUME NEW t \in Sessions, NEW q \in SavedView!Pages \ clashed', Asking(t), Page(t) = q,
             session[t].at \in {"loaded", "cleared"}
      PROVE  /\ default'[session[t].view] \in {default[session[t].view], "deleted"}
             /\ session[t].at = "cleared" =>
                  SavedView!Defaults(q)' \ {session[t].view} = SavedView!Defaults(q) \ {session[t].view}
  <2>1. session[t] \in ViewSessions /\ session[t].view \in Views
    BY <1>5, ViewSessionFields DEF ViewsInv, ViewsReady, Asking
  <2>2. CASE q # p
    BY <1>3, <1>5, <2>1, <2>2 DEF Page, SavedView!On
  <2>3. CASE q = p
    <3>1. t \in SavedView!Busy(p)
      BY <1>5, <2>1, <2>3, ViewSessionFields DEF SavedView!Busy, Asking, Page
    <3>2. /\ vs \intersect SavedView!Locked = {}
          /\ \A w \in vs : default'[w] = "deleted"
      BY <1>5, <2>3, <3>1 DEF SavedView!Race
    <3>3. session[t].at = "cleared" => vs \intersect session[t].wrote = {}
      BY <3>2 DEF SavedView!Locked
    <3>4. session[t].at = "cleared" => session[t].wrote = SavedView!Defaults(q) \ {session[t].view}
      BY <1>1, <1>5 DEF ViewsInv, ViewsReady, Informed
    <3>5. QED
      BY <1>3, <2>1, <2>3, <3>2, <3>3, <3>4
  <2>4. QED
    BY <2>2, <2>3
<1>6. QED
  BY <1>1, <1>2, <1>4, <1>5, ViewsChange

LEMMA ViewUnsetKeeps ==
  ASSUME ViewsInv, NEW v \in Views, SavedView!Unset(v)
  PROVE  ViewsInv'
<1>1. PageOf[v] \in SavedView!Pages /\ {v} \in SUBSET SavedView!On(PageOf[v])
  BY DEF SavedView!Pages, SavedView!On
<1>2. /\ default' = [default EXCEPT ![v] = "plain"] /\ UNCHANGED session
      /\ picked' = [picked EXCEPT ![PageOf[v]] = @ \ {v}]
      /\ SavedView!Race(PageOf[v], SavedView!Busy(PageOf[v]))
  BY DEF SavedView!Unset
<1>3. /\ default' \in [Views -> {"absent", "plain", "default", "deleted"}]
      /\ \A w \in Views : IF w \in {v} THEN default'[w] # "default" ELSE default'[w] = default[w]
  BY <1>2 DEF ViewsInv, SavedView!TypeOK
<1>4. QED
  BY <1>1, <1>2, <1>3, ViewsLoseFlag

LEMMA ViewClearKeeps ==
  ASSUME ViewsInv, NEW p \in SavedView!Pages, SavedView!Clear(p)
  PROVE  ViewsInv'
<1>1. SavedView!Defaults(p) \in SUBSET SavedView!On(p)
  BY DEF SavedView!Defaults
<1>2. /\ UNCHANGED session /\ picked' = [picked EXCEPT ![p] = {}]
      /\ SavedView!Race(p, SavedView!Busy(p))
  BY DEF SavedView!Clear
<1>3. /\ default' \in [Views -> {"absent", "plain", "default", "deleted"}]
      /\ \A w \in Views : IF w \in SavedView!Defaults(p) THEN default'[w] # "default" ELSE default'[w] = default[w]
  BY DEF SavedView!Clear, ViewsInv, SavedView!TypeOK
<1>4. QED
  BY <1>1, <1>2, <1>3, ViewsLoseFlag

LEMMA ViewDeleteKeeps ==
  ASSUME ViewsInv, NEW v \in Views, SavedView!Delete(v)
  PROVE  ViewsInv'
<1>1. PageOf[v] \in SavedView!Pages /\ {v} \in SUBSET SavedView!On(PageOf[v])
  BY DEF SavedView!Pages, SavedView!On
<1>2. /\ default' = [default EXCEPT ![v] = "deleted"] /\ UNCHANGED <<session, clashed>>
      /\ picked' = [picked EXCEPT ![PageOf[v]] = @ \ {v}]
      /\ {v} \intersect SavedView!Locked = {}
  BY DEF SavedView!Delete
<1>3. /\ default' \in [Views -> {"absent", "plain", "default", "deleted"}]
      /\ \A w \in Views : IF w \in {v} THEN default'[w] # "default" ELSE default'[w] = default[w]
      /\ \A w \in {v} : default'[w] = "deleted"
  BY <1>2 DEF ViewsInv, SavedView!TypeOK
<1>4. QED
  BY <1>1, <1>2, <1>3, ViewsLoseFlag

LEMMA ViewsKeep ==
  ASSUME ViewsInv, SavedView!Next
  PROVE  ViewsInv'
<1>1. ASSUME NEW s \in Sessions, NEW v \in Views, SavedView!Ask(s, v)
      PROVE  ViewsInv'
  BY <1>1, ViewRequestBegins DEF SavedView!Ask
<1>2. QED
  BY <1>1, ViewCreateKeeps, ViewLoadKeeps, ViewClearOthersKeeps, ViewCommitKeeps, ViewAbortKeeps,
     ViewUnsetKeeps, ViewClearKeeps, ViewDeleteKeeps DEF SavedView!Next

\* In every behaviour of any number of requests, pages and views that the
\* locks of the rows and the reads before them allow, a page whose choices did
\* not overlap has the default chosen last and no other.
THEOREM DefaultAlwaysChosen ==
  EditingSpec => []DefaultIsChosen
<1> DEFINE Inv == part = "views" => ViewsInv
<1>1. EditingInit => Inv
  BY ViewsStart DEF EditingInit
<1>2. Inv /\ [EditingNext]_editing => Inv'
  <2> SUFFICES ASSUME Inv, [EditingNext]_editing, part' = "views" PROVE ViewsInv'
    OBVIOUS
  <2>1. part = "views" /\ ViewsInv
    BY DEF EditingNext, editing
  <2>2. CASE SavedView!Next
    BY <2>1, <2>2, ViewsKeep
  <2>3. CASE UNCHANGED views
    <3>1. UNCHANGED <<default, session, picked, clashed>>
      BY <2>3 DEF views
    <3>2. \A p : SavedView!Defaults(p)' = SavedView!Defaults(p)
      BY <3>1 DEF SavedView!Defaults, SavedView!On
    <3>3. QED
      BY <2>1, <3>1, <3>2, ViewsChange DEF ViewsInv, SavedView!TypeOK
  <2>4. QED
    BY <2>1, <2>2, <2>3 DEF EditingNext, editing
<1>3. Inv => DefaultIsChosen
  BY DEF DefaultIsChosen, ViewsInv
<1>4. QED
  BY <1>1, <1>2, <1>3, PTL DEF EditingSpec

-----------------------------------------------------------------------------
(***************************************************************************)
(* The wishlist                                                            *)
(***************************************************************************)

\* OneEntry, of other entries and exceptions.
OneEach(stored, but) ==
  \A e, f \in Entries \ but :
    /\ stored[e] # None /\ stored[f] # None
    /\ e # f /\ stored[e].key = stored[f].key
    => "removed" \in {stored[e].status, stored[f].status}

\* What a request is to write gives every new entry all its columns and, if
\* nobody else has written since it looked, leaves one entry of each key.
WishesReady ==
  \A s \in Sessions :
    /\ \A e \in DOMAIN request[s].writes \ Wish!Stored :
         None \notin {request[s].writes[e].key, request[s].writes[e].status}
    /\ request[s].open /\ request[s].fresh /\ ~request[s].appends
         => OneEach(Wish!Written(request[s].writes), excused)

WishesInv == Wish!TypeOK /\ WishesReady /\ OneEach(entry, excused)

\* Columns to write, None where there is nothing to write.
Columns == [key : Keys \union {None}, status : Wish!Statuses \union {None}]

\* What a request that is given the columns of an entry is to write, and what
\* it will leave there.
LEMMA ColumnsGiven ==
  ASSUME Wish!WishlistAssumption, Wish!TypeOK,
         NEW e \in Entries, NEW key \in Keys, NEW status \in Wish!Statuses
  PROVE  /\ Wish!Write(e, key, status) \in Columns
         /\ e \notin Wish!Stored => Wish!Write(e, key, status) = [key |-> key, status |-> status]
  BY DEF Wish!Write, Columns

LEMMA ColumnsTake ==
  ASSUME Wish!WishlistAssumption, Wish!TypeOK,
         NEW e \in Entries, NEW key \in Keys, NEW status \in Wish!Statuses,
         NEW w, e \in DOMAIN w, w[e] = Wish!Write(e, key, status)
  PROVE  Wish!Written(w)[e] = [key |-> key, status |-> status]
<1>1. None \notin Keys /\ None \notin Wish!Statuses
  BY DEF Wish!WishlistAssumption
<1>2. Wish!Written(w)[e] = [key    |-> IF w[e].key = None THEN entry[e].key ELSE w[e].key,
                            status |-> IF w[e].status = None THEN entry[e].status ELSE w[e].status]
  BY DEF Wish!Written
<1>3. CASE e \notin Wish!Stored
  <2>1. w[e] = [key |-> key, status |-> status]
    BY <1>3 DEF Wish!Write
  <2>2. QED
    BY <1>1, <1>2, <2>1
<1>4. CASE e \in Wish!Stored
  <2>1. w[e] = [key    |-> IF key = entry[e].key THEN None ELSE key,
                status |-> IF status = entry[e].status THEN None ELSE status]
    BY <1>4 DEF Wish!Write
  <2>2. QED
    BY <1>1, <1>2, <2>1
<1>5. QED
  BY <1>3, <1>4

\* A request that opens is harmless if it has all columns of new entries and,
\* unless it appends, would leave one entry of each key.
LEMMA WishOpens ==
  ASSUME Wish!WishlistAssumption, WishesInv, NEW s \in Sessions, NEW es \in SUBSET Entries,
         NEW w, w \in [es -> Columns], NEW appends \in BOOLEAN,
         Wish!Opened(s, w, appends), UNCHANGED <<entry, excused>>,
         \A e \in es : \E key \in Keys, status \in Wish!Statuses : w[e] = Wish!Write(e, key, status),
         ~appends => OneEach(Wish!Written(w), excused)
  PROVE  WishesInv'
<1> USE DEF WishesInv
<1> DEFINE x == [open |-> TRUE, fresh |-> TRUE, appends |-> appends, writes |-> w]
<1>1. DOMAIN w = es
  OBVIOUS
<1>2. \A e \in es \ Wish!Stored : None \notin {w[e].key, w[e].status}
  <2> SUFFICES ASSUME NEW e \in es \ Wish!Stored PROVE None \notin {w[e].key, w[e].status}
    OBVIOUS
  <2>1. PICK key \in Keys, status \in Wish!Statuses : w[e] = Wish!Write(e, key, status)
    OBVIOUS
  <2>2. w[e] = [key |-> key, status |-> status]
    BY <2>1, ColumnsGiven
  <2>3. QED
    BY <2>2 DEF Wish!WishlistAssumption
<1>3. x \in Wish!SessionStates
  <2>1. w \in Wish!Writes
    BY DEF Wish!Writes, Columns
  <2>2. QED
    BY <2>1 DEF Wish!SessionStates
<1>4. request' = [request EXCEPT ![s] = x]
  BY DEF Wish!Opened
<1>5. x.writes = w /\ x.open = TRUE /\ x.appends = appends
  OBVIOUS
<1> HIDE DEF x
<1>6. request' \in [Sessions -> Wish!SessionStates]
      /\ request'[s] = x /\ \A t \in Sessions \ {s} : request'[t] = request[t]
  BY <1>3, <1>4 DEF Wish!TypeOK
<1>7. Wish!TypeOK'
  BY <1>6 DEF Wish!TypeOK
<1>8. Wish!Stored' = Wish!Stored /\ \A v : Wish!Written(v)' = Wish!Written(v)
  BY DEF Wish!Stored, Wish!Written
<1>9. WishesReady'
  <2> SUFFICES ASSUME NEW t \in Sessions
               PROVE  /\ \A e \in DOMAIN request'[t].writes \ Wish!Stored :
                           None \notin {request'[t].writes[e].key, request'[t].writes[e].status}
                      /\ request'[t].open /\ request'[t].fresh /\ ~request'[t].appends
                           => OneEach(Wish!Written(request'[t].writes), excused)
    BY <1>8 DEF WishesReady
  <2>1. CASE t = s
    BY <1>1, <1>2, <1>5, <1>6, <2>1
  <2>2. CASE t # s
    BY <1>6, <2>2 DEF WishesReady
  <2>3. QED
    BY <2>1, <2>2
<1>10. QED
  BY <1>7, <1>9

\* A request that has looked for a conflict of the one entry that it writes.
LEMMA WishWritesOne ==
  ASSUME Wish!WishlistAssumption, WishesInv, NEW s \in Sessions,
         NEW e \in Entries, NEW key \in Keys, NEW status \in Wish!Statuses,
         status # "removed" => Wish!Conflicts(key, {e}) = {},
         Wish!Opened(s, Wish!WriteOne(e, key, status), FALSE), UNCHANGED <<entry, excused>>
  PROVE  WishesInv'
<1> DEFINE w == Wish!WriteOne(e, key, status)
<1>1. w[e] = Wish!Write(e, key, status) /\ DOMAIN w = {e} /\ w \in [{e} -> {w[e]}]
  BY DEF Wish!WriteOne
<1> HIDE DEF w
<1>2. /\ Wish!Written(w)[e] = [key |-> key, status |-> status]
      /\ \A f \in Entries \ {e} : Wish!Written(w)[f] = entry[f]
  <2>1. \A f \in Entries \ {e} : Wish!Written(w)[f] = entry[f]
    BY <1>1 DEF Wish!Written
  <2>2. QED
    BY <1>1, <2>1, ColumnsTake DEF WishesInv
<1>3. OneEach(Wish!Written(w), excused)
  <2> SUFFICES ASSUME NEW f \in Entries \ excused, NEW g \in Entries \ excused, f # g,
                      Wish!Written(w)[f] # None, Wish!Written(w)[g] # None,
                      Wish!Written(w)[f].key = Wish!Written(w)[g].key,
                      Wish!Written(w)[f].status # "removed", Wish!Written(w)[g].status # "removed"
               PROVE  FALSE
    BY DEF OneEach
  <2>1. CASE f # e /\ g # e
    BY <1>2, <2>1 DEF WishesInv, OneEach
  <2>2. ASSUME NEW h \in Entries \ {e}, entry[h] # None, entry[h].key = key, entry[h].status # "removed",
               status # "removed"
        PROVE  FALSE
    <3>1. h \in Wish!Conflicts(key, {e})
      BY <2>2 DEF Wish!Conflicts, Wish!Stored
    <3>2. QED
      BY <2>2, <3>1
  <2>3. CASE f = e
    BY <1>2, <2>2, <2>3
  <2>4. CASE g = e
    BY <1>2, <2>2, <2>4
  <2>5. QED
    BY <2>1, <2>3, <2>4
<1>4. Wish!Opened(s, w, FALSE)
  BY DEF w
<1>5. \A f \in {e} : \E k \in Keys, st \in Wish!Statuses : w[f] = Wish!Write(f, k, st)
  BY <1>1
<1>6. {e} \in SUBSET Entries /\ w \in [{e} -> Columns] /\ FALSE \in BOOLEAN
  BY <1>1, ColumnsGiven DEF WishesInv
<1>7. QED
  BY <1>1, <1>3, <1>4, <1>5, <1>6, WishOpens

\* A request that is not under way writes nothing.
LEMMA NoColumns ==
  Wish!Idle.writes \in Wish!Writes /\ DOMAIN Wish!Idle.writes = {}
<1>1. Wish!Idle.writes = <<>> /\ DOMAIN <<>> = {}
  BY DEF Wish!Idle
<1>2. <<>> \in [{} -> Columns]
  OBVIOUS
<1>3. QED
  BY <1>1, <1>2 DEF Wish!Writes, Columns

LEMMA WishImportKeeps ==
  ASSUME Wish!WishlistAssumption, WishesInv, NEW s \in Sessions, NEW mode \in {"upsert", "append"},
         NEW file \in Files, Wish!Import(s, mode, file)
  PROVE  WishesInv'
<1>1. PICK to \in Wish!Targets(mode, file) :
        Wish!Opened(s, [e \in {to[n] : n \in DOMAIN file} |->
                          Wish!Write(e, file[CHOOSE n \in DOMAIN file : to[n] = e /\ \A m \in DOMAIN file : to[m] = e => m <= n].key,
                                        file[CHOOSE n \in DOMAIN file : to[n] = e /\ \A m \in DOMAIN file : to[m] = e => m <= n].status)],
                    mode = "append")
  BY DEF Wish!Import
<1> DEFINE last(e) == CHOOSE n \in DOMAIN file : to[n] = e /\ \A m \in DOMAIN file : to[m] = e => m <= n
           es == {to[n] : n \in DOMAIN file}
           w == [e \in es |-> Wish!Write(e, file[last(e)].key, file[last(e)].status)]
<1>2. Wish!Opened(s, w, mode = "append")
  BY <1>1
<1>3. /\ Len(file) \in Nat /\ DOMAIN file = 1..Len(file)
      /\ \A n \in DOMAIN file : file[n].key \in Keys /\ file[n].status \in Wish!Statuses
  <2>1. file \in Seq(Wish!Items)
    BY DEF Wish!WishlistAssumption
  <2>2. Len(file) \in Nat /\ DOMAIN file = 1..Len(file) /\ \A n \in DOMAIN file : file[n] \in Wish!Items
    BY <2>1
  <2>3. QED
    BY <2>2 DEF Wish!Items
<1>4. /\ \A n \in DOMAIN file : to[n] \in Entries
      /\ \A m, n \in DOMAIN file : to[m] = to[n] <=> (m = n \/ (mode = "upsert" /\ file[m].key = file[n].key))
      /\ mode = "upsert" => \A n \in DOMAIN file : \/ Wish!Conflicts(file[n].key, {}) = {}
                                                   \/ to[n] \in Wish!Conflicts(file[n].key, {})
  BY <1>3 DEF Wish!Targets
<1>5. ASSUME NEW e \in es PROVE last(e) \in DOMAIN file /\ to[last(e)] = e
  <2> DEFINE ns == {n \in DOMAIN file : to[n] = e}
  <2>1. ns \in SUBSET (1..Len(file)) /\ ns # {}
    BY <1>3
  <2>2. PICK n \in ns : \A m \in ns : m <= n
    BY <1>3, <2>1, LargestOf
  <2>3. \E k \in DOMAIN file : to[k] = e /\ \A m \in DOMAIN file : to[m] = e => m <= k
    BY <2>2
  <2>4. QED
    BY <2>3
<1>6. DOMAIN w = es /\ \A e \in es : w[e] = Wish!Write(e, file[last(e)].key, file[last(e)].status)
  OBVIOUS
<1>7. w \in [es -> {w[e] : e \in es}]
  OBVIOUS
<1> HIDE DEF last, w
<1>8. es \in SUBSET Entries
  BY <1>4
<1> HIDE DEF es
<1>9. ASSUME NEW e \in es
      PROVE  /\ e \in Entries /\ last(e) \in DOMAIN file /\ to[last(e)] = e
             /\ file[last(e)].key \in Keys /\ file[last(e)].status \in Wish!Statuses
             /\ w[e] \in Columns
             /\ Wish!Written(w)[e].key = file[last(e)].key
  <2>1. e \in Entries /\ last(e) \in DOMAIN file /\ to[last(e)] = e
    BY <1>5, <1>8
  <2>2. file[last(e)].key \in Keys /\ file[last(e)].status \in Wish!Statuses
    BY <1>3, <2>1
  <2>3. PICK key \in Keys, status \in Wish!Statuses : key = file[last(e)].key /\ status = file[last(e)].status
    BY <2>2
  <2>4. w[e] = Wish!Write(e, key, status) /\ e \in DOMAIN w /\ Wish!TypeOK
    BY <1>6, <2>3 DEF WishesInv
  <2>5. w[e] \in Columns
    BY <2>1, <2>4, ColumnsGiven
  <2>6. Wish!Written(w)[e] = [key |-> key, status |-> status]
    BY <2>1, <2>4, ColumnsTake
  <2>7. QED
    BY <2>1, <2>2, <2>3, <2>5, <2>6
<1>10. \A f \in Entries \ es : Wish!Written(w)[f] = entry[f]
  BY <1>6 DEF Wish!Written
<1>11. ASSUME mode = "upsert" PROVE OneEach(Wish!Written(w), excused)
  <2> SUFFICES ASSUME NEW e \in Entries \ excused, NEW f \in Entries \ excused, e # f,
                      Wish!Written(w)[e] # None, Wish!Written(w)[f] # None,
                      Wish!Written(w)[e].key = Wish!Written(w)[f].key,
                      Wish!Written(w)[e].status # "removed", Wish!Written(w)[f].status # "removed"
               PROVE  FALSE
    BY DEF OneEach
  <2>1. CASE e \notin es /\ f \notin es
    BY <1>10, <2>1 DEF WishesInv, OneEach
  <2>2. CASE e \in es /\ f \in es
    <3>1. file[last(e)].key = file[last(f)].key
      BY <1>9, <2>2
    <3>2. to[last(e)] = to[last(f)]
      BY <1>4, <1>9, <1>11, <2>2, <3>1
    <3>3. QED
      BY <1>9, <2>2, <3>2
  \* An entry of the file's key that the file does not write is a conflicting
  \* one, like that which the file does write.
  <2>3. ASSUME NEW g \in (Entries \ excused) \intersect es, NEW h \in (Entries \ excused) \ es,
               entry[h] # None, entry[h].key = file[last(g)].key, entry[h].status # "removed"
        PROVE  FALSE
    <3>1. h \in Wish!Conflicts(file[last(g)].key, {})
      BY <2>3 DEF Wish!Conflicts, Wish!Stored
    <3>2. g \in Wish!Conflicts(file[last(g)].key, {})
      BY <1>4, <1>9, <1>11, <3>1
    <3>3. entry[g] # None /\ entry[g].key = entry[h].key /\ entry[g].status # "removed" /\ g # h
      BY <2>3, <3>2 DEF Wish!Conflicts, Wish!Stored
    <3>4. QED
      BY <2>3, <3>3 DEF WishesInv, OneEach
  <2>4. CASE e \in es /\ f \notin es
    <3>1. Wish!Written(w)[f] = entry[f] /\ entry[f].key = file[last(e)].key
      BY <1>9, <1>10, <2>4
    <3>2. QED
      BY <2>3, <2>4, <3>1
  <2>5. CASE e \notin es /\ f \in es
    <3>1. Wish!Written(w)[e] = entry[e] /\ entry[e].key = file[last(f)].key
      BY <1>9, <1>10, <2>5
    <3>2. QED
      BY <2>3, <2>5, <3>1
  <2>6. QED
    BY <2>1, <2>2, <2>4, <2>5
<1>12. w \in [es -> Columns]
  BY <1>7, <1>9
<1>13. \A e \in es : \E k \in Keys, st \in Wish!Statuses : w[e] = Wish!Write(e, k, st)
  BY <1>6, <1>9
<1>14. UNCHANGED <<entry, excused>> /\ (mode = "append") \in BOOLEAN
  BY DEF Wish!Import
<1>15. PICK appends \in BOOLEAN : appends = (mode = "append")
  BY <1>14
<1>16. Wish!Opened(s, w, appends) /\ (~appends => OneEach(Wish!Written(w), excused))
  BY <1>2, <1>11, <1>15
<1>17. QED
  BY <1>8, <1>12, <1>13, <1>14, <1>16, WishOpens

\* The others' looks are stale once a request has written.
LEMMA WishCommitKeeps ==
  ASSUME Wish!WishlistAssumption, WishesInv, NEW s \in Sessions, Wish!Commit(s)
  PROVE  WishesInv'
<1> USE DEF WishesInv
<1>1. PICK w \in Wish!Writes : w = request[s].writes
  BY DEF Wish!TypeOK, Wish!SessionStates
<1>2. /\ entry' = Wish!Written(w) /\ excused \subseteq excused' /\ excused' \subseteq excused \union DOMAIN w
      /\ \/ excused' = excused /\ request[s].open /\ request[s].fresh /\ ~request[s].appends
         \/ DOMAIN w \subseteq excused'
  BY <1>1 DEF Wish!Commit
<1>3. DOMAIN w \subseteq Entries /\ \A e \in DOMAIN w : w[e] \in Columns
  BY <1>1 DEF Wish!Writes, Columns
<1>4. ASSUME NEW e \in Entries
      PROVE  /\ entry'[e] \in Wish!Items \union {None}
             /\ entry[e] # None => entry'[e] # None
             /\ e \notin DOMAIN w => entry'[e] = entry[e]
  <2>1. CASE e \notin DOMAIN w
    BY <1>2, <2>1 DEF Wish!Written, Wish!TypeOK
  <2>2. CASE e \in DOMAIN w
    <3>1. entry'[e] = [key    |-> IF w[e].key = None THEN entry[e].key ELSE w[e].key,
                       status |-> IF w[e].status = None THEN entry[e].status ELSE w[e].status]
      BY <1>2, <2>2 DEF Wish!Written
    <3>2. entry[e] # None => entry[e] \in Wish!Items
      BY DEF Wish!TypeOK
    <3>3. entry[e] = None => w[e].key # None /\ w[e].status # None
      BY <1>1, <2>2 DEF WishesReady, Wish!Stored
    <3>4. entry'[e] \in Wish!Items
      BY <1>3, <2>2, <3>1, <3>2, <3>3 DEF Wish!Items, Columns
    <3>5. QED
      BY <2>2, <3>4 DEF Wish!WishlistAssumption
  <2>3. QED
    BY <2>1, <2>2
<1>5. entry' \in [Entries -> Wish!Items \union {None}]
  <2>1. entry' = [e \in Entries |-> entry'[e]]
    BY <1>2 DEF Wish!Written
  <2>2. QED
    BY <1>4, <2>1
<1>6. ASSUME NEW t \in Sessions
      PROVE  /\ request'[t] \in Wish!SessionStates
             /\ request'[t].open => ~request'[t].fresh
             /\ request'[t].writes = request[t].writes \/ DOMAIN request'[t].writes = {}
  <2>1. request'[t] = IF t = s THEN Wish!Idle ELSE [request[t] EXCEPT !.fresh = ~request[t].open]
    BY DEF Wish!Commit
  <2>2. CASE t = s
    <3>1. Wish!Idle.writes \in Wish!Writes /\ DOMAIN Wish!Idle.writes = {}
      BY NoColumns
    <3>2. QED
      BY <2>1, <2>2, <3>1 DEF Wish!Idle, Wish!SessionStates
  <2>3. CASE t # s
    BY <2>1, <2>3 DEF Wish!TypeOK, Wish!SessionStates
  <2>4. QED
    BY <2>2, <2>3
<1>7. Wish!TypeOK'
  <2>1. request' = [t \in Sessions |-> request'[t]]
    BY DEF Wish!Commit
  <2>2. request' \in [Sessions -> Wish!SessionStates]
    BY <1>6, <2>1
  <2>3. QED
    BY <1>2, <1>3, <1>5, <2>2 DEF Wish!TypeOK
<1>8. WishesReady'
  BY <1>4, <1>6 DEF WishesReady, Wish!Stored
<1>9. OneEach(entry', excused')
  <2>1. CASE DOMAIN w \subseteq excused'
    BY <1>2, <1>4, <2>1 DEF OneEach
  <2>2. CASE excused' = excused /\ request[s].open /\ request[s].fresh /\ ~request[s].appends
    BY <1>1, <1>2, <2>2 DEF WishesReady
  <2>3. QED
    BY <1>2, <2>1, <2>2
<1>10. QED
  BY <1>7, <1>8, <1>9

LEMMA WishAbortKeeps ==
  ASSUME Wish!WishlistAssumption, WishesInv, NEW s \in Sessions, Wish!Abort(s)
  PROVE  WishesInv'
<1> USE DEF WishesInv
<1>1. Wish!Idle \in Wish!SessionStates /\ DOMAIN Wish!Idle.writes = {} /\ Wish!Idle.open = FALSE
  BY NoColumns DEF Wish!Idle, Wish!SessionStates
<1>2. UNCHANGED <<entry, excused>> /\ request' = [request EXCEPT ![s] = Wish!Idle]
  BY DEF Wish!Abort
<1>3. Wish!TypeOK'
  BY <1>1, <1>2 DEF Wish!TypeOK
<1>4. \A v : Wish!Written(v)' = Wish!Written(v)
  BY <1>2 DEF Wish!Written
<1>5. Wish!Stored' = Wish!Stored
  BY <1>2 DEF Wish!Stored
<1>6. \A t \in Sessions : request'[t] = IF t = s THEN Wish!Idle ELSE request[t]
  BY <1>2 DEF Wish!TypeOK
<1>7. WishesReady'
  <2> SUFFICES ASSUME NEW t \in Sessions
               PROVE  /\ \A e \in DOMAIN request'[t].writes \ Wish!Stored :
                           None \notin {request'[t].writes[e].key, request'[t].writes[e].status}
                      /\ request'[t].open /\ request'[t].fresh /\ ~request'[t].appends
                           => OneEach(Wish!Written(request'[t].writes), excused)
    BY <1>2, <1>4, <1>5 DEF WishesReady
  <2>1. CASE t = s
    BY <1>1, <1>6, <2>1
  <2>2. CASE t # s
    BY <1>6, <2>2 DEF WishesReady
  <2>3. QED
    BY <2>1, <2>2
<1>8. QED
  BY <1>2, <1>3, <1>7

\* A write that looks at no other entry: it makes all looks stale, and an
\* entry that it takes back from "removed" an exception.
LEMMA WishSetKeeps ==
  ASSUME Wish!WishlistAssumption, WishesInv,
         NEW e \in Wish!Stored, NEW status \in Wish!Statuses, Wish!Set(e, status),
         excused' \subseteq Entries, excused \subseteq excused',
         status = "removed" \/ entry[e].status # "removed" \/ e \in excused'
  PROVE  WishesInv'
<1> USE DEF WishesInv
<1>1. e \in Entries /\ entry[e] \in Wish!Items
  BY DEF Wish!Stored, Wish!TypeOK
<1>2. /\ entry' = [entry EXCEPT ![e].status = status]
      /\ request' = [t \in Sessions |-> [request[t] EXCEPT !.fresh = ~request[t].open]]
  BY DEF Wish!Set
<1>3. \A f \in Entries : f # e => entry'[f] = entry[f]
  BY <1>2 DEF Wish!TypeOK
<1>4. entry'[e] = [key |-> entry[e].key, status |-> status]
  BY <1>1, <1>2 DEF Wish!TypeOK, Wish!Items
<1>5. entry'[e] \in Wish!Items /\ entry'[e] # None
  <2>1. entry'[e] \in Wish!Items
    BY <1>1, <1>4 DEF Wish!Items
  <2>2. QED
    BY <2>1 DEF Wish!WishlistAssumption
<1>6. entry' \in [Entries -> Wish!Items \union {None}]
  BY <1>2, <1>3, <1>5 DEF Wish!TypeOK
<1>7. ASSUME NEW t \in Sessions
      PROVE  /\ request'[t] \in Wish!SessionStates
             /\ request'[t].open => ~request'[t].fresh
             /\ request'[t].writes = request[t].writes
  BY <1>2 DEF Wish!TypeOK, Wish!SessionStates
<1>8. request' \in [Sessions -> Wish!SessionStates]
  BY <1>2, <1>7
<1>9. Wish!TypeOK'
  BY <1>6, <1>8 DEF Wish!TypeOK
<1>10. \A f \in Entries : entry[f] # None => entry'[f] # None
  BY <1>3, <1>5
<1>11. WishesReady'
  BY <1>7, <1>10 DEF WishesReady, Wish!Stored
<1>12. OneEach(entry', excused')
  <2> SUFFICES ASSUME NEW f \in Entries \ excused', NEW g \in Entries \ excused', f # g,
                      entry'[f] # None, entry'[g] # None, entry'[f].key = entry'[g].key,
                      entry'[f].status # "removed", entry'[g].status # "removed"
               PROVE  FALSE
    BY DEF OneEach
  <2>1. \A h \in {f, g} : entry[h] # None /\ entry[h].key = entry'[h].key /\ entry[h].status # "removed"
    <3> SUFFICES ASSUME NEW h \in {f, g}
                 PROVE  entry[h] # None /\ entry[h].key = entry'[h].key /\ entry[h].status # "removed"
      OBVIOUS
    <3>1. CASE h = e
      BY <1>1, <1>4, <3>1 DEF Wish!Stored
    <3>2. CASE h # e
      BY <1>3, <3>2
    <3>3. QED
      BY <3>1, <3>2
  <2>2. QED
    BY <2>1 DEF OneEach
<1>13. QED
  BY <1>9, <1>11, <1>12

LEMMA WishStart ==
  ASSUME Wish!WishlistAssumption, Wish!Init
  PROVE  WishesInv
<1>1. Wish!Idle \in Wish!SessionStates /\ DOMAIN Wish!Idle.writes = {} /\ Wish!Idle.open = FALSE
  BY NoColumns DEF Wish!Idle, Wish!SessionStates
<1>2. QED
  BY <1>1 DEF Wish!Init, WishesInv, Wish!TypeOK, WishesReady, OneEach

LEMMA WishesKeep ==
  ASSUME Wish!WishlistAssumption, WishesInv, Wish!Next
  PROVE  WishesInv'
<1>1. ASSUME NEW s \in Sessions, NEW e \in Entries, NEW key \in Keys, NEW status \in Wish!Statuses,
             Wish!Create(s, e, key, status)
      PROVE  WishesInv'
  <2>1. Wish!Conflicts(key, {e}) = {}
    BY <1>1 DEF Wish!Create, Wish!Conflicts
  <2>2. QED
    BY <1>1, <2>1, WishWritesOne DEF Wish!Create
<1>2. ASSUME NEW s \in Sessions, NEW e \in Entries, NEW key \in Keys, NEW status \in Wish!Statuses,
             Wish!Update(s, e, key, status)
      PROVE  WishesInv'
  BY <1>2, WishWritesOne DEF Wish!Update, Wish!Free
<1>3. ASSUME NEW e \in Entries, Wish!Delete(e) PROVE WishesInv'
  <2>1. "removed" \in Wish!Statuses /\ excused \subseteq Entries
    BY DEF Wish!Statuses, WishesInv, Wish!TypeOK
  <2>2. QED
    BY <1>3, <2>1, WishSetKeeps DEF Wish!Delete
<1>4. ASSUME NEW e \in Entries, Wish!Purchase(e) PROVE WishesInv'
  <2>1. "purchased" \in Wish!Statuses /\ excused \subseteq Entries
    BY DEF Wish!Statuses, WishesInv, Wish!TypeOK
  <2>2. e \in Wish!Stored /\ Wish!Set(e, "purchased")
    BY <1>4 DEF Wish!Purchase
  <2>3. /\ excused' \subseteq Entries /\ excused \subseteq excused'
        /\ entry[e].status # "removed" \/ e \in excused'
    BY <1>4, <2>1 DEF Wish!Purchase
  <2>4. QED
    BY <2>1, <2>2, <2>3, WishSetKeeps
<1>5. QED
  BY <1>1, <1>2, <1>3, <1>4, WishImportKeeps, WishCommitKeeps, WishAbortKeeps DEF Wish!Next

\* Whatever is created, edited, imported, deleted or purchased in whatever
\* order, a key has one wish that is not removed, but for the exceptions that
\* Wishlist names: every request that is to write has looked for a conflict,
\* and its look holds until somebody else writes.
THEOREM OneEntryAlways ==
  ASSUME EditingAssumption
  PROVE  EditingSpec => []OneEntry
<1> DEFINE Inv == part = "wishlist" => WishesInv
<1>1. EditingInit => Inv
  BY WishStart DEF EditingInit, EditingAssumption
<1>2. Inv /\ [EditingNext]_editing => Inv'
  <2> SUFFICES ASSUME Inv, [EditingNext]_editing, part' = "wishlist" PROVE WishesInv'
    OBVIOUS
  <2>1. WishesInv /\ Wish!WishlistAssumption
    BY DEF EditingNext, editing, EditingAssumption
  <2>2. CASE Wish!Next
    BY <2>1, <2>2, WishesKeep
  <2>3. CASE UNCHANGED wishes
    <3>1. UNCHANGED <<entry, request, excused>>
      BY <2>3 DEF wishes
    <3>2. \A v : Wish!Written(v)' = Wish!Written(v)
      BY <3>1 DEF Wish!Written
    <3>3. QED
      BY <2>1, <3>1, <3>2 DEF WishesInv, Wish!TypeOK, WishesReady, Wish!Stored
  <2>4. QED
    BY <2>2, <2>3 DEF EditingNext, editing
<1>3. Inv => OneEntry
  BY DEF OneEntry, WishesInv, OneEach, Wish!OneEntry, Wish!Stored
<1>4. QED
  BY <1>1, <1>2, <1>3, PTL DEF EditingSpec

(***************************************************************************)
(* Backups: the tables and their references                                *)
(***************************************************************************)
LEMMA TablesInOrder ==
  /\ DOMAIN Copy!InsertOrder = 1..30
  /\ Copy!InsertOrder[1] = "users" /\ Copy!InsertOrder[2] = "cards"
  /\ Copy!InsertOrder[3] = "card_aliases" /\ Copy!InsertOrder[4] = "sources"
  /\ Copy!InsertOrder[5] = "collector_tags" /\ Copy!InsertOrder[6] = "collector_groups"
  /\ Copy!InsertOrder[8] = "portfolio_valuation_snapshots" /\ Copy!InsertOrder[9] = "price_refresh_runs"
  /\ Copy!InsertOrder[10] = "raw_snapshots" /\ Copy!InsertOrder[11] = "source_card_mappings"
  /\ Copy!InsertOrder[12] = "collection_items" /\ Copy!InsertOrder[13] = "wishlist_items"
  /\ Copy!InsertOrder[14] = "card_tags" /\ Copy!InsertOrder[15] = "collection_item_tags"
  /\ Copy!InsertOrder[16] = "collection_item_groups" /\ Copy!InsertOrder[17] = "grading_submissions"
  /\ Copy!InsertOrder[18] = "price_observations" /\ Copy!InsertOrder[19] = "market_intelligence_reports"
  /\ Copy!InsertOrder[20] = "market_signal_events" /\ Copy!InsertOrder[21] = "market_report_digest_sends"
  /\ Copy!InsertOrder[22] = "market_workflow_runs" /\ Copy!InsertOrder[24] = "collector_notes"
  /\ Copy!InsertOrder[25] = "collector_activity_events"
  BY DEF Copy!InsertOrder

LEMMA EarlierTables ==
  ASSUME NEW i \in 1..30, NEW j \in 1..30, i < j
  PROVE  Copy!InsertOrder[i] \in Copy!Earlier[Copy!InsertOrder[j]]
<1>1. DOMAIN Copy!InsertOrder = 1..30
  BY TablesInOrder
<1>2. QED
  BY <1>1 DEF Copy!Earlier, Copy!Known

LEMMA OutsideTables ==
  "alert_events" \notin Copy!Known /\ "snkrdunk_candidates" \notin Copy!Known
  BY DEF Copy!Known, Copy!InsertOrder

\* Parents before children, table by table.
LEMMA ParentsComeFirst ==
  /\ {"cards"} \subseteq Copy!Earlier["card_aliases"]
  /\ {"users"} \subseteq Copy!Earlier["collector_tags"]
  /\ {"users"} \subseteq Copy!Earlier["collector_groups"]
  /\ {"sources"} \subseteq Copy!Earlier["raw_snapshots"]
  /\ {"cards", "sources"} \subseteq Copy!Earlier["source_card_mappings"]
  /\ {"users", "cards"} \subseteq Copy!Earlier["collection_items"]
  /\ {"users", "cards", "collection_items"} \subseteq Copy!Earlier["wishlist_items"]
  /\ {"cards", "collector_tags"} \subseteq Copy!Earlier["card_tags"]
  /\ {"collection_items", "collector_tags"} \subseteq Copy!Earlier["collection_item_tags"]
  /\ {"collection_items", "collector_groups"} \subseteq Copy!Earlier["collection_item_groups"]
  /\ {"collection_items"} \subseteq Copy!Earlier["grading_submissions"]
  /\ {"cards", "sources", "raw_snapshots"} \subseteq Copy!Earlier["price_observations"]
  /\ {"cards", "collection_items"} \subseteq Copy!Earlier["market_signal_events"]
  /\ {"market_intelligence_reports"} \subseteq Copy!Earlier["market_report_digest_sends"]
  /\ {"price_refresh_runs", "portfolio_valuation_snapshots",
      "market_intelligence_reports"} \subseteq Copy!Earlier["market_workflow_runs"]
  /\ {"cards", "collection_items", "wishlist_items", "grading_submissions",
      "market_signal_events", "market_intelligence_reports"} \subseteq Copy!Earlier["collector_notes"]
  /\ {"market_workflow_runs", "cards", "collection_items", "wishlist_items", "grading_submissions",
      "market_signal_events", "market_intelligence_reports"} \subseteq Copy!Earlier["collector_activity_events"]
  BY TablesInOrder, EarlierTables

\* A reference leads to a table that is written before, or from a card to a card.
LEMMA ReferencesGoBack ==
  ASSUME NEW e \in Copy!Required \union Copy!Nullable
  PROVE  /\ e[1] = e[2] => e[1] = "cards"
         /\ e[1] # e[2] /\ {e[1], e[2]} \subseteq Copy!Known => e[2] \in Copy!Earlier[e[1]]
<1>1. CASE e \in Copy!Required
  BY <1>1, ParentsComeFirst DEF Copy!Required
<1>2. CASE e \in Copy!Nullable
  BY <1>2, ParentsComeFirst, OutsideTables DEF Copy!Nullable
<1>3. QED
  BY <1>1, <1>2

\* What cannot be without something that goes, goes as well.
LEMMA CascadesEnd ==
  ASSUME NEW ts, NEW d \in Copy!Required, d[2] \in Copy!Cascade(ts)
  PROVE  d[1] \in Copy!Cascade(ts)
<1> DEFINE near == ts \union {e[1] : e \in {f \in Copy!Required : f[2] \in ts}}
<1>1. Copy!Cascade(ts) = near \union {e[1] : e \in {f \in Copy!Required : f[2] \in near}}
  BY DEF Copy!Cascade
<1>2. CASE d[2] \in near
  BY <1>1, <1>2
<1>3. CASE d[2] \notin near
  <2>1. PICK e \in Copy!Required : e[1] = d[2] /\ e[2] \in near
    BY <1>1, <1>3
  <2>2. PICK f \in Copy!Required : f[1] = e[2]
    BY <1>3, <2>1
  <2>3. e[2] \in {"users", "cards"}
    BY <2>1 DEF Copy!Required
  <2>4. f[1] \notin {"users", "cards"}
    BY DEF Copy!Required
  <2>5. QED
    BY <2>2, <2>3, <2>4
<1>4. QED
  BY <1>2, <1>3

\* Tables that refer to none as children go only if they are emptied.
LEMMA RootsStay ==
  ASSUME NEW ts,
         NEW t \in {"app_log_events", "import_validation_reports", "alert_events", "snkrdunk_candidates"},
         t \notin ts
  PROVE  t \notin Copy!Cascade(ts)
<1>1. \A d \in Copy!Required : d[1] # t
  BY DEF Copy!Required
<1>2. QED
  BY <1>1 DEF Copy!Cascade

LEMMA DeletedIsConsistent ==
  ASSUME NEW content, NEW ts, Copy!Consistent(content)
  PROVE  /\ Copy!Consistent(Copy!Deleted(content, ts))
         /\ Copy!Deleted(content, ts).rows \intersect ts = {}
         /\ \A e \in Copy!Deleted(content, ts).refs : e[1] \notin ts
<1> DEFINE gone == Copy!Cascade(ts)
<1>1. ts \subseteq gone
  BY DEF Copy!Cascade
<1>2. \A d \in Copy!Required : d[2] \in gone => d[1] \in gone
  BY CascadesEnd
<1> DEFINE rest == Copy!Deleted(content, ts)
<1>3. /\ rest = [rows |-> content.rows \ gone,
                 refs |-> {e \in content.refs : {e[1], e[2]} \intersect gone = {}}]
  BY DEF Copy!Deleted
<1>4. rest = [rows |-> rest.rows, refs |-> rest.refs]
  BY <1>3
<1>5. /\ rest.rows = content.rows \ gone
      /\ rest.refs = {e \in content.refs : {e[1], e[2]} \intersect gone = {}}
  BY <1>3
<1> HIDE DEF gone, rest
<1>6. /\ rest.rows \subseteq Copy!Tables /\ rest.refs \subseteq Copy!Nullable
      /\ \A e \in rest.refs : e[1] \in rest.rows /\ e[2] \in rest.rows
      /\ \A e \in Copy!Required : e[1] \in rest.rows => e[2] \in rest.rows
  BY <1>2, <1>5 DEF Copy!Consistent
<1>7. Copy!Consistent(rest)
  BY <1>4, <1>6 DEF Copy!Consistent
<1>8. rest.rows \intersect ts = {} /\ \A e \in rest.refs : e[1] \notin ts
  BY <1>1, <1>5
<1>9. QED
  BY <1>7, <1>8 DEF rest

(***************************************************************************)
(* The inductive invariant of backups                                      *)
(***************************************************************************)
BackupInv ==
  /\ Copy!TypeOK
  /\ backup = [tables |-> backup.tables, rows |-> backup.rows, refs |-> backup.refs]
  /\ \A e \in backup.refs : e[1] \in backup.rows
  /\ backup # Copy!NoBackup => Copy!RequiredTables \subseteq backup.tables
  /\ result # Copy!NoResult => backup # Copy!NoBackup
  /\ Copy!ClosedBackupRestores /\ Copy!LossIsWarned

LEMMA BackupStart ==
  ASSUME Copy!BackupAssumption, Copy!Init
  PROVE  BackupInv
<1>1. Copy!Consistent(db)
  BY DEF Copy!BackupAssumption, Copy!Init
<1>2. QED
  BY <1>1 DEF Copy!Init, BackupInv, Copy!TypeOK, Copy!NoBackup, Copy!NoResult,
              Copy!ClosedBackupRestores, Copy!LossIsWarned

\* Before a restore the properties say nothing.
LEMMA NothingRestored ==
  ASSUME result = Copy!NoResult, UNCHANGED result
  PROVE  /\ Copy!ClosedBackupRestores' /\ Copy!LossIsWarned'
         /\ result'.mode \in {"none", "merge", "replace"}
  BY DEF Copy!NoResult, Copy!ClosedBackupRestores, Copy!LossIsWarned

LEMMA BackupExport ==
  ASSUME BackupInv, Copy!BackupAssumption, NEW flags \in Flags, Copy!Export(flags)
  PROVE  BackupInv'
<1>1. result = Copy!NoResult /\ UNCHANGED <<db, result>>
  BY DEF BackupInv, Copy!Export
<1>2. /\ Copy!ClosedBackupRestores' /\ Copy!LossIsWarned'
      /\ result'.mode \in {"none", "merge", "replace"}
  BY <1>1, NothingRestored
<1> DEFINE tables == Copy!RequiredTables \union flags
<1>3. backup' = [tables |-> tables, rows |-> db.rows \intersect tables,
                 refs |-> {e \in db.refs : e[1] \in tables}]
  BY DEF Copy!Export
<1>4. tables \subseteq Copy!Known
  BY DEF Copy!BackupAssumption, Copy!RequiredTables, Copy!OptionalTables, Copy!Known, Copy!InsertOrder
<1>5. Copy!RequiredTables \subseteq tables
  OBVIOUS
<1>6. Copy!Consistent(db) /\ Copy!Consistent(db)'
  BY <1>1 DEF BackupInv, Copy!TypeOK, Copy!Consistent
<1> HIDE DEF tables
<1>7. /\ backup'.tables = tables /\ backup'.rows = db.rows \intersect tables
      /\ backup'.refs = {e \in db.refs : e[1] \in tables}
      /\ backup' = [tables |-> backup'.tables, rows |-> backup'.rows, refs |-> backup'.refs]
  BY <1>3
<1>8. Copy!TypeOK'
  BY <1>2, <1>4, <1>6, <1>7 DEF Copy!TypeOK, Copy!Consistent
<1>9. \A e \in backup'.refs : e[1] \in backup'.rows
  BY <1>6, <1>7 DEF Copy!Consistent
<1>10. QED
  BY <1>1, <1>2, <1>5, <1>7, <1>8, <1>9 DEF BackupInv

LEMMA BackupEdit ==
  ASSUME BackupInv, NEW t, Copy!Edit(t)
  PROVE  BackupInv'
<1>1. result = Copy!NoResult /\ UNCHANGED <<db, result>>
  BY DEF Copy!Edit
<1>2. /\ Copy!ClosedBackupRestores' /\ Copy!LossIsWarned'
      /\ result'.mode \in {"none", "merge", "replace"}
  BY <1>1, NothingRestored
<1>3. /\ backup'.tables = backup.tables /\ backup'.rows = backup.rows \ {t}
      /\ backup'.refs = {e \in backup.refs : e[1] # t}
      /\ backup' = [tables |-> backup'.tables, rows |-> backup'.rows, refs |-> backup'.refs]
  BY DEF BackupInv, Copy!Edit
<1>4. backup # Copy!NoBackup
  BY DEF Copy!Edit, Copy!NoBackup
<1>5. Copy!TypeOK'
  BY <1>1, <1>2, <1>3 DEF BackupInv, Copy!TypeOK, Copy!Consistent
<1>6. QED
  BY <1>1, <1>2, <1>3, <1>4, <1>5 DEF BackupInv

LEMMA BackupChange ==
  ASSUME BackupInv, Copy!BackupAssumption, Copy!Change
  PROVE  BackupInv'
<1>1. result = Copy!NoResult /\ UNCHANGED <<backup, result>>
  BY DEF Copy!Change
<1>2. /\ Copy!ClosedBackupRestores' /\ Copy!LossIsWarned'
      /\ result'.mode \in {"none", "merge", "replace"}
  BY <1>1, NothingRestored
<1>3. Copy!Consistent(db')
  <2>1. CASE db' \in Contents
    BY <2>1 DEF Copy!BackupAssumption
  <2>2. ASSUME NEW t \in db.rows, db' = Copy!Deleted(db, {t}) PROVE Copy!Consistent(db')
    BY <2>2, DeletedIsConsistent DEF BackupInv, Copy!TypeOK
  <2>3. QED
    BY <2>1, <2>2 DEF Copy!Change
<1>4. Copy!TypeOK'
  BY <1>1, <1>2, <1>3 DEF BackupInv, Copy!TypeOK, Copy!Consistent
<1>5. QED
  BY <1>1, <1>2, <1>4 DEF BackupInv

\* What a restore starts from.
LEMMA StartIsConsistent ==
  ASSUME BackupInv, NEW mode
  PROVE  /\ Copy!Consistent(Copy!Start(mode))
         /\ mode = "replace" => /\ Copy!Start(mode).rows \intersect backup.tables = {}
                                /\ \A e \in Copy!Start(mode).refs : e[1] \notin backup.tables
  BY DeletedIsConsistent DEF BackupInv, Copy!TypeOK, Copy!Start

\* A backup whose references lead to its own rows is valid and accepted, table
\* by table, whatever is there.
LEMMA ClosedIsAccepted ==
  ASSUME BackupInv, Copy!RequiredTables \subseteq backup.tables, Copy!Closed(backup), NEW content
  PROVE  /\ Copy!Valid(backup)
         /\ \A t \in backup.tables : Copy!Accepted(content, backup, t)
<1>1. Copy!Valid(backup)
  BY DEF Copy!Valid, Copy!Closed
<1>2. ASSUME NEW t \in backup.tables PROVE Copy!Accepted(content, backup, t)
  <2>1. ASSUME NEW p \in Copy!Parents(backup, t)
        PROVE  IF p = t THEN t = "cards" ELSE p \in backup.rows \intersect Copy!Earlier[t]
    <3>1. PICK e \in Copy!Required \union Copy!Nullable :
            /\ e[1] = t /\ e[2] = p
            /\ (e \in Copy!Required /\ t \in backup.rows) \/ e \in backup.refs
      BY <2>1 DEF Copy!Parents, BackupInv, Copy!TypeOK
    <3>2. p \in backup.rows
      BY <3>1 DEF Copy!Closed
    <3>3. {t, p} \subseteq Copy!Known
      BY <3>2 DEF BackupInv, Copy!TypeOK
    <3>4. QED
      BY <3>1, <3>2, <3>3, ReferencesGoBack
  <2>2. QED
    BY <2>1 DEF Copy!Accepted, Copy!Deferred
<1>3. QED
  BY <1>1, <1>2

\* Whatever is accepted leaves no reference that leads nowhere.
LEMMA FilledIsConsistent ==
  ASSUME BackupInv, NEW content, Copy!Consistent(content),
         \A t \in backup.tables : Copy!Accepted(content, backup, t)
  PROVE  Copy!Consistent(Copy!Filled(content, backup))
<1> DEFINE full == Copy!Filled(content, backup)
<1>1. /\ full.rows = content.rows \union backup.rows
      /\ full.refs = {e \in content.refs : e[1] \notin backup.rows} \union backup.refs
      /\ full = [rows |-> full.rows, refs |-> full.refs]
  BY DEF Copy!Filled
<1> HIDE DEF full
<1>2. ASSUME NEW e, e[1] \in backup.rows, e \in Copy!Required \/ e \in backup.refs
      PROVE  e[2] \in full.rows
  <2>1. e[1] \in backup.tables /\ Copy!Accepted(content, backup, e[1])
    BY <1>2 DEF BackupInv, Copy!TypeOK
  <2>2. e[2] \in Copy!Parents(backup, e[1])
    BY <1>2 DEF Copy!Parents
  <2>3. QED
    BY <1>1, <1>2, <2>1, <2>2 DEF Copy!Accepted
<1>3. full.rows \subseteq Copy!Tables /\ full.refs \subseteq Copy!Nullable
  BY <1>1 DEF BackupInv, Copy!TypeOK, Copy!Consistent, Copy!Tables
<1>4. \A e \in full.refs : e[1] \in full.rows /\ e[2] \in full.rows
  BY <1>1, <1>2 DEF BackupInv, Copy!Consistent
<1>5. \A e \in Copy!Required : e[1] \in full.rows => e[2] \in full.rows
  BY <1>1, <1>2 DEF Copy!Consistent
<1>6. Copy!Consistent(full)
  BY <1>1, <1>3, <1>4, <1>5 DEF Copy!Consistent
<1>7. QED
  BY <1>6 DEF full

\* A valid backup has all but the optional tables, so that what a replacement
\* empties beyond it are those that it warns of.
LEMMA LossesAreNamed ==
  ASSUME BackupInv, Copy!Valid(backup), NEW t \in db.rows, t \notin backup.tables,
         t \notin Copy!CascadeRisk
  PROVE  t \in Copy!Deleted(db, backup.tables).rows
<1>1. t \in Copy!Tables /\ t \notin Copy!RequiredTables
  BY DEF BackupInv, Copy!TypeOK, Copy!Consistent, Copy!Valid
<1>2. t \in {"app_log_events", "import_validation_reports", "alert_events", "snkrdunk_candidates"}
  BY <1>1 DEF Copy!Tables, Copy!RequiredTables, Copy!OptionalTables, Copy!Others, Copy!CascadeRisk
<1>3. QED
  BY <1>2, RootsStay DEF Copy!Deleted

LEMMA BackupRestore ==
  ASSUME BackupInv, NEW mode \in {"merge", "replace"}, Copy!Restore(mode)
  PROVE  BackupInv'
<1> DEFINE start == Copy!Start(mode)
           done == Copy!Valid(backup) /\ \A t \in backup.tables : Copy!Accepted(start, backup, t)
<1>1. /\ backup # Copy!NoBackup /\ UNCHANGED backup
      /\ result' = [mode |-> mode, ok |-> done, valid |-> Copy!Valid(backup), before |-> db.rows,
                    warned |-> IF mode = "replace" THEN Copy!CascadeRisk \ backup.tables ELSE {}]
      /\ db' = IF done THEN Copy!Filled(start, backup) ELSE db
  BY DEF Copy!Restore
<1>2. /\ Copy!Consistent(start)
      /\ mode = "replace" => /\ start.rows \intersect backup.tables = {}
                             /\ \A e \in start.refs : e[1] \notin backup.tables
  BY StartIsConsistent
<1>3. /\ result'.mode = mode /\ (result'.ok <=> done) /\ result'.before = db.rows
      /\ result'.warned = IF mode = "replace" THEN Copy!CascadeRisk \ backup.tables ELSE {}
  BY <1>1
<1>4. done => /\ db'.rows = start.rows \union backup.rows
              /\ db'.refs = {e \in start.refs : e[1] \notin backup.rows} \union backup.refs
  BY <1>1 DEF Copy!Filled
<1>5. Copy!Consistent(db')
  <2>1. CASE done
    BY <1>1, <1>2, <2>1, FilledIsConsistent
  <2>2. CASE ~done
    BY <1>1, <2>2 DEF BackupInv, Copy!TypeOK
  <2>3. QED
    BY <2>1, <2>2
<1>6. Copy!TypeOK'
  BY <1>1, <1>3, <1>5 DEF BackupInv, Copy!TypeOK, Copy!Consistent
<1>7. Copy!ClosedBackupRestores'
  <2> SUFFICES ASSUME Copy!RequiredTables \subseteq backup.tables, Copy!Closed(backup)
               PROVE  /\ result'.ok
                      /\ backup.rows \subseteq db'.rows
                      /\ {e \in db'.refs : e[1] \in backup.rows} = backup.refs
                      /\ result'.mode = "replace" => db'.rows \intersect backup.tables = backup.rows
    BY <1>1 DEF Copy!ClosedBackupRestores, Copy!Closed
  <2>1. done
    BY ClosedIsAccepted
  <2>2. /\ backup.rows \subseteq backup.tables
        /\ \A e \in backup.refs : e[1] \in backup.rows
    BY DEF BackupInv, Copy!TypeOK
  <2>3. {e \in db'.refs : e[1] \in backup.rows} = backup.refs
    BY <1>4, <2>1, <2>2
  <2>4. mode = "replace" => db'.rows \intersect backup.tables = backup.rows
    BY <1>2, <1>4, <2>1, <2>2
  <2>5. QED
    BY <1>3, <1>4, <2>1, <2>3, <2>4
<1>8. Copy!LossIsWarned'
  <2> SUFFICES ASSUME done, NEW t \in db.rows, t \notin backup.tables, t \notin result'.warned
               PROVE  t \in db'.rows
    BY <1>1, <1>3 DEF Copy!LossIsWarned
  <2>1. CASE mode = "merge"
    BY <1>4, <2>1 DEF Copy!Start
  <2>2. CASE mode = "replace"
    <3>1. t \in Copy!Deleted(db, backup.tables).rows
      BY <1>3, <2>2, LossesAreNamed
    <3>2. QED
      BY <1>4, <2>2, <3>1 DEF Copy!Start
  <2>3. QED
    BY <2>1, <2>2
<1>9. QED
  BY <1>1, <1>6, <1>7, <1>8 DEF BackupInv, Copy!Closed

LEMMA BackupsKeep ==
  ASSUME EditingAssumption
  PROVE  EditingSpec => [](part = "backup" => BackupInv)
<1> DEFINE Inv == part = "backup" => BackupInv
<1>1. EditingInit => Inv
  BY BackupStart DEF EditingInit, EditingAssumption
<1>2. Inv /\ [EditingNext]_editing => Inv'
  <2> SUFFICES ASSUME Inv, [EditingNext]_editing, part' = "backup" PROVE BackupInv'
    OBVIOUS
  <2>1. BackupInv /\ Copy!BackupAssumption
    BY DEF EditingNext, editing, EditingAssumption
  <2>2. CASE Copy!Next
    BY <2>1, <2>2, BackupExport, BackupEdit, BackupChange, BackupRestore DEF Copy!Next
  <2>3. CASE UNCHANGED copies
    BY <2>1, <2>3 DEF copies, BackupInv, Copy!TypeOK, Copy!Consistent, Copy!ClosedBackupRestores, Copy!Closed,
                      Copy!LossIsWarned
  <2>4. QED
    BY <2>2, <2>3 DEF EditingNext, editing
<1>3. QED
  BY <1>1, <1>2, PTL DEF EditingSpec

\* A backup whose references lead to its own rows is restored, whatever tables
\* were asked for, into any database and in both modes: the tables are written
\* in an order that suits all foreign keys, and validation refuses none.
THEOREM BackupsAlwaysRestore ==
  ASSUME EditingAssumption
  PROVE  EditingSpec => []ClosedBackupRestores
<1>1. (part = "backup" => BackupInv) => ClosedBackupRestores
  BY DEF BackupInv, ClosedBackupRestores
<1>2. QED
  BY <1>1, BackupsKeep, PTL

\* Whatever rows a restore loses that the backup does not speak of, it warned
\* of, for any database and any choice of tables.
THEOREM LossAlwaysWarned ==
  ASSUME EditingAssumption
  PROVE  EditingSpec => []LossIsWarned
<1>1. (part = "backup" => BackupInv) => LossIsWarned
  BY DEF BackupInv, LossIsWarned
<1>2. QED
  BY <1>1, BackupsKeep, PTL
=============================================================================

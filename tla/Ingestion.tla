----------------------------- MODULE Ingestion ------------------------------
(***************************************************************************)
(* Price observations from SNKRDUNK candidates: the job                    *)
(* ingest_snkrdunk_candidate_prices, which holds no lock and commits once. *)
(* Discovery changes a candidate's price and people its match meanwhile.   *)
(* All candidates have the same condition; Days are those of created_at.   *)
(***************************************************************************)
EXTENDS Naturals, FiniteSets

CONSTANTS Ids,       \* ids of candidates, in the order in which they are loaded
          DayOf,     \* the day on which each was created
          Cards, Prices,
          Jobs,      \* ingestions: processes that take one after another
          Limit,     \* --limit
          MaxEdits,  \* bound: changes of candidates
          None

IngestionAssumption == Ids \subseteq Nat /\ Limit \in Nat

VARIABLES
  candidate,    \* status, matched card and price of every candidate
  observations, \* the committed ones
  job,          \* ingestions under way: candidates as loaded, rows written
  edits,
  overlapped    \* history: candidates that two ingestions had loaded at once

vars == <<candidate, observations, job, edits, overlapped>>

CandidateStates ==
  [status : {"matched", "suggested"}, card : Cards \union {None}, price : Prices \union {None}]

NoJob == [open |-> FALSE, only_matched |-> TRUE, todo |-> {}, loaded |-> <<>>, added |-> {}]

TypeOK ==
  /\ candidate \in [Ids -> CandidateStates]
  /\ \A o \in observations : o.candidate \in Ids /\ o.card \in Cards /\ o.price \in Prices
  /\ \A j \in Jobs : job[j].todo \subseteq Ids
  /\ overlapped \subseteq Ids

Init ==
  /\ candidate \in [Ids -> CandidateStates]
  /\ observations = {} /\ job = [j \in Jobs |-> NoJob]
  /\ edits = 0 /\ overlapped = {}

-----------------------------------------------------------------------------
Edit(c, new) ==
  /\ edits < MaxEdits /\ edits' = edits + 1
  /\ candidate' = [candidate EXCEPT ![c] = new]
  /\ UNCHANGED <<observations, job, overlapped>>

\* The first Limit candidates, observed or not.
Batch == {c \in Ids : Cardinality({d \in Ids : d < c}) < Limit}

InWork == UNION {IF job[j].open THEN DOMAIN job[j].loaded ELSE {} : j \in Jobs}

Start(j, only_matched) ==
  /\ ~job[j].open
  /\ job' = [job EXCEPT ![j] =
       [open |-> TRUE, only_matched |-> only_matched, todo |-> Batch,
        loaded |-> [c \in Batch |-> candidate[c]], added |-> {}]]
  /\ overlapped' = overlapped \union (Batch \intersect InWork)
  /\ UNCHANGED <<candidate, observations, edits>>

Eligible(row, only_matched) ==
  /\ row.status = "matched" \/ ~only_matched
  /\ row.card # None /\ row.price # None

\* Mutant: the fallback alone, without candidate_id.
Duplicate_SameDay(c, row, seen) ==
  \E o \in seen : o.card = row.card /\ o.price = row.price /\ o.day = DayOf[c]

\* _is_duplicate: among the committed rows and the job's own.
Duplicate(c, row, seen) ==
  \E o \in seen :
    \/ o.candidate = c
    \/ o.card = row.card /\ o.price = row.price /\ o.day = DayOf[c]

Take(j) ==
  LET c == CHOOSE d \in job[j].todo : \A e \in job[j].todo : d <= e
      row == job[j].loaded[c]
      seen == observations \union job[j].added
      new == [by |-> j, after |-> Cardinality(seen),
              candidate |-> c, card |-> row.card, price |-> row.price, day |-> DayOf[c]]
      adds == Eligible(row, job[j].only_matched) /\ ~Duplicate(c, row, seen) IN
  /\ job[j].open /\ job[j].todo # {}
  /\ job' = [job EXCEPT ![j].todo = @ \ {c}, ![j].added = IF adds THEN @ \union {new} ELSE @]
  /\ UNCHANGED <<candidate, observations, edits, overlapped>>

\* The commit, or the end of a dry run or of the process.
Finish(j, commits) ==
  /\ job[j].open /\ (commits => job[j].todo = {})
  /\ observations' = IF commits THEN observations \union job[j].added ELSE observations
  /\ job' = [job EXCEPT ![j] = NoJob]
  /\ UNCHANGED <<candidate, edits, overlapped>>

Next ==
  \/ \E c \in Ids, new \in CandidateStates : Edit(c, new)
  \/ \E j \in Jobs : Take(j) \/ \E b \in BOOLEAN : Start(j, b) \/ Finish(j, b)

Spec == Init /\ [][Next]_vars

-----------------------------------------------------------------------------
(***************************************************************************)
(* Properties                                                              *)
(***************************************************************************)

\* A candidate is observed once, whatever happens to its price and match
\* between ingestions, and a price of a card on a day is observed once; two
\* ingestions at the same time may observe both again (no constraint forbids
\* it).
ObservedOnce ==
  \A o, p \in observations :
    /\ o # p
    /\ {o.candidate, p.candidate} \intersect overlapped = {}
    => /\ o.candidate # p.candidate
       /\ <<o.card, o.price, o.day>> # <<p.card, p.price, p.day>>
=============================================================================

----------------------------- MODULE Retention ------------------------------
(***************************************************************************)
(* Pruning by age, one table at a time (each is a transaction of its own): *)
(* rows older than the table's retention go; of price observations older   *)
(* than the fresh window one a day stays, of valuation snapshots one an    *)
(* ISO week; a series' latest price always stays.  Time is in ticks; the   *)
(* rows are those of one series, at most one for every tick.               *)
(*                                                                         *)
(* Prunes exclude each other by a job lock; as its lease may lapse, and as *)
(* there is a way to skip it, they may overlap here.  Every statement of a *)
(* prune reads what is committed by then.                                  *)
(*                                                                         *)
(* market_signal_events, whose rows change, is pruned in SignalEvents.     *)
(***************************************************************************)
EXTENDS Integers, FiniteSets

CONSTANTS Day, Week,      \* ticks
          Keep,           \* retention of the tables, in ticks
          KeepImportant,  \* ... and of logs at level error and critical
          Fresh,          \* THINNING_FRESH_WINDOW_DAYS
          Pruners,        \* prunes that may overlap
          MaxTime         \* bound

Tables == {"price_observations", "portfolio_valuation_snapshots", "app_log_events", "raw_snapshots"}

RetentionAssumption ==
  /\ Day \in Nat \ {0} /\ Week \in Nat \ {0}
  /\ Keep \in [Tables -> Nat] /\ KeepImportant \in Nat /\ Fresh \in Nat /\ MaxTime \in Nat
  /\ \A t \in {"price_observations", "portfolio_valuation_snapshots"} : Fresh <= Keep[t]

VARIABLES
  table,    \* the table that is looked at
  now,
  rows,     \* the rows that are there, by their time ...
  written,  \* ... and all there ever were
  prune,    \* each prune: its time, and the rows that are protected from it,
            \* or that it has chosen and is about to delete
  raced     \* rows older than the fresh window that came between the reading
            \* of the protected rows and the choice of some prune

vars == <<table, now, rows, written, prune, raced>>

Times == 0..MaxTime
NoPrune == [phase |-> "idle", at |-> 0, ids |-> {}]

TypeOK ==
  /\ table \in Tables /\ now \in Times
  /\ rows \subseteq written /\ written \subseteq Times
  /\ prune \in [Pruners -> [phase : {"idle", "reading", "chosen"}, at : 0..now, ids : SUBSET Times]]
  /\ raced \subseteq written

Init ==
  /\ table \in Tables
  /\ now = 0 /\ rows = {} /\ written = {} /\ raced = {}
  /\ prune = [p \in Pruners |-> NoPrune]

-----------------------------------------------------------------------------
Tick ==
  /\ now < MaxTime
  /\ now' = now + 1
  /\ UNCHANGED <<table, rows, written, prune, raced>>

\* A row is written now; an observation may bear any earlier time, that of the
\* candidate it comes from, and is written anew when an ingestion finds it
\* pruned.  It has another id than the row before it, which a prune may know.
Write(t) ==
  /\ t \in IF table = "price_observations" THEN 0..now ELSE {now}
  /\ t \notin rows
  /\ rows' = rows \union {t} /\ written' = written \union {t}
  /\ raced' = IF t < now - Fresh /\ (\E p \in Pruners : prune[p].phase = "reading")
              THEN raced \union {t} ELSE raced \ {t}
  /\ prune' = [p \in Pruners |-> [prune[p] EXCEPT !.ids = @ \ {t}]]
  /\ UNCHANGED <<table, now>>

Older(at, age) == {t \in rows : t < at - age}

\* Every other tick's log is one of IMPORTANT_LOG_LEVELS.
Important(t) == t % 2 = 0

\* Mutant: groups are counted back from now.
Group_ByAge(t, at) == IF table = "price_observations" THEN (at - t) \div Day ELSE (at - t) \div Week

\* The day, or the ISO week, of a row.
Group(t, at) == IF table = "price_observations" THEN t \div Day ELSE t \div Week

\* Mutant: age alone counts.
Protected_None == {}

\* _protected_price_observation_ids.
Protected ==
  IF table = "price_observations" THEN {t \in rows : \A u \in rows : u <= t} ELSE {}

\* All but the earliest of every group in the zone.
Thinned(at) ==
  LET zone == Older(at, Fresh) \ Older(at, Keep[table]) IN
  {t \in zone : \E u \in zone : u < t /\ Group(u, at) = Group(t, at)}

Candidates(at, protected) ==
  CASE table = "app_log_events" ->
         {t \in Older(at, Keep[table]) : Important(t) => t \in Older(at, KeepImportant)}
    [] table = "raw_snapshots" -> Older(at, Keep[table])
    [] OTHER -> (Older(at, Keep[table]) \union Thinned(at)) \ protected

\* A prune takes the time; that of price observations first reads which rows
\* are protected.
Begin(p) ==
  /\ prune[p].phase = "idle"
  /\ prune' = [prune EXCEPT ![p] = [phase |-> "reading", at |-> now, ids |-> Protected]]
  /\ UNCHANGED <<table, now, rows, written, raced>>

\* The rows past the retention and those to be thinned out are read one after
\* the other; as no row is among both, that is one step.
Select(p) ==
  /\ prune[p].phase = "reading"
  /\ prune' = [prune EXCEPT ![p] = [phase |-> "chosen", at |-> @.at, ids |-> Candidates(@.at, @.ids)]]
  /\ UNCHANGED <<table, now, rows, written, raced>>

Delete(p) ==
  /\ prune[p].phase = "chosen"
  /\ rows' = rows \ prune[p].ids
  /\ prune' = [prune EXCEPT ![p] = NoPrune]
  /\ UNCHANGED <<table, now, written, raced>>

\* A dry run, or an exception: the table's transaction is rolled back.
Leave(p) ==
  /\ prune[p].phase # "idle"
  /\ prune' = [prune EXCEPT ![p] = NoPrune]
  /\ UNCHANGED <<table, now, rows, written, raced>>

Next ==
  \/ Tick
  \/ \E t \in Times : Write(t)
  \/ \E p \in Pruners : Begin(p) \/ Select(p) \/ Delete(p) \/ Leave(p)

Spec == Init /\ [][Next]_vars

-----------------------------------------------------------------------------
(***************************************************************************)
(* Properties                                                              *)
(***************************************************************************)

\* The latest price ever observed stays, however old it gets ("a card that
\* stopped getting price updates keeps its last known price forever"), with
\* one exception: a row that is late by more than the fresh window and comes
\* between the two readings of a prune, which then takes it for an ordinary one.
LatestSurvives ==
  table = "price_observations" =>
    \A t \in written : (\A u \in written : u <= t) => t \in rows \union raced

\* Prunes repeated at any times, overlapping, while rows come however late, do
\* not eat up the history: what is younger than the fresh window (logs and raw
\* snapshots: than their retention, which errors have longer) is all there, and
\* every day (week) all of whose rows are within the retention keeps one of
\* them.  A day that the end of the retention divides may lose all its rows.
HistoryStays ==
  \A t \in written :
    CASE table = "app_log_events" -> now - t <= (IF Important(t) THEN KeepImportant ELSE Keep[table]) => t \in rows
      [] table = "raw_snapshots" -> now - t <= Keep[table] => t \in rows
      [] OTHER ->
           /\ now - t <= Fresh => t \in rows
           /\ (\A u \in written : Group(u, now) = Group(t, now) => now - u <= Keep[table])
                => \E u \in rows : Group(u, now) = Group(t, now)
=============================================================================

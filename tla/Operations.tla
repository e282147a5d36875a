----------------------------- MODULE Operations -----------------------------
(***************************************************************************)
(* Jobs and guards that go on for years, side by side: alerts, ingestion,  *)
(* retention and the rate limit.  They share no state that any of them     *)
(* depends on, so that a behaviour is one of one part, the variables of    *)
(* the others are Unused.                                                  *)
(***************************************************************************)
EXTENDS Integers

CONSTANTS Rules, RuleSets, Markets, Checks, DedupeWindow, AlertTime, MaxCalls,
          Ids, DayOf, Cards, Prices, Jobs, BatchLimit, MaxEdits,
          Day, Week, Keep, KeepImportant, Fresh, Pruners, RetentionTime,
          Clients, Routes, Limit, Window, LimitTime, MaxRequests,
          Null, Unused

VARIABLES part, active, market, now, calls, events, check, told, lost,
          candidate, observations, job, edits, overlapped,
          table, day, rows, written, prune, raced,
          time, state, logged, asked, answers

Alert == INSTANCE Alerts WITH Window <- DedupeWindow, MaxTime <- AlertTime, Unset <- Null

Ingest == INSTANCE Ingestion WITH Limit <- BatchLimit, None <- Null

Prune == INSTANCE Retention WITH now <- day, MaxTime <- RetentionTime

Throttle == INSTANCE RateLimit WITH now <- time, MaxTime <- LimitTime

OperationsAssumption ==
  /\ Alert!AlertsAssumption
  /\ Ingest!IngestionAssumption
  /\ Prune!RetentionAssumption
  /\ Throttle!RateLimitAssumption

alerts == <<active, market, now, calls, events, check, told, lost>>
ingestions == <<candidate, observations, job, edits, overlapped>>
prunes == <<table, day, rows, written, prune, raced>>
limits == <<time, state, logged, asked, answers>>

NoAlerts == /\ active = Unused /\ market = Unused /\ now = Unused /\ calls = Unused
            /\ events = Unused /\ check = Unused /\ told = Unused /\ lost = Unused
NoIngestions == candidate = Unused /\ observations = Unused /\ job = Unused /\ edits = Unused /\ overlapped = Unused
NoPrunes == /\ table = Unused /\ day = Unused /\ rows = Unused /\ written = Unused
            /\ prune = Unused /\ raced = Unused
NoLimits == time = Unused /\ state = Unused /\ logged = Unused /\ asked = Unused /\ answers = Unused

OperationsInit ==
  \/ part = "alerts" /\ Alert!Init /\ NoIngestions /\ NoPrunes /\ NoLimits
  \/ part = "ingestion" /\ Ingest!Init /\ NoAlerts /\ NoPrunes /\ NoLimits
  \/ part = "retention" /\ Prune!Init /\ NoAlerts /\ NoIngestions /\ NoLimits
  \/ part = "limit" /\ Throttle!Init /\ NoAlerts /\ NoIngestions /\ NoPrunes

OperationsNext ==
  \/ part = "alerts" /\ Alert!Next /\ UNCHANGED <<part, ingestions, prunes, limits>>
  \/ part = "ingestion" /\ Ingest!Next /\ UNCHANGED <<part, alerts, prunes, limits>>
  \/ part = "retention" /\ Prune!Next /\ UNCHANGED <<part, alerts, ingestions, limits>>
  \/ part = "limit" /\ Throttle!Next /\ UNCHANGED <<part, alerts, ingestions, prunes>>

operations == <<part, alerts, ingestions, prunes, limits>>

OperationsSpec == OperationsInit /\ [][OperationsNext]_operations

-----------------------------------------------------------------------------
(***************************************************************************)
(* Properties: those of the parts, with their type invariants              *)
(***************************************************************************)

\* check_alerts tells nobody the same twice within its window, but for what
\* Alerts excepts.
NoRepeat == part = "alerts" => Alert!TypeOK /\ Alert!NoRepeat

\* ingest_snkrdunk_candidate_prices observes no candidate and no price of a
\* day twice, unless two ingestions overlapped.
ObservedOnce == part = "ingestion" => Ingest!TypeOK /\ Ingest!ObservedOnce

\* No prune takes a series' latest price, but for one that comes late and
\* between the readings of a prune.
LatestSurvives == part = "retention" => Prune!LatestSurvives

\* No prunes, one after the other or overlapping, take what is fresh, or all of
\* a day or week that is wholly within the retention.
HistoryStays == part = "retention" => Prune!TypeOK /\ Prune!HistoryStays

\* The limit of a window is what is let through and turned away by.
WindowsHold == part = "limit" => Throttle!TypeOK /\ Throttle!WindowsHold
=============================================================================

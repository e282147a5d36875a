----------------------------- MODULE DigestSend -----------------------------
(***************************************************************************)
(* The Telegram digest of the latest market report:                        *)
(* send_market_report_digest of the api, which takes the lock              *)
(* telegram_market_digest, and its copy in the worker, which the market    *)
(* workflow calls without it.  Both look up the one send row of a report,  *)
(* send, and write the row: three steps with nothing to tie them together. *)
(* Dry runs change nothing and are left out.  A report that is deleted     *)
(* takes its send row along; reports are not deleted here.                 *)
(***************************************************************************)
EXTENDS Integers

CONSTANTS Senders,     \* executions of send_market_report_digest
          Guarded,     \* those of the api
          MaxReport    \* bound: number of reports generated

Reports == 1..MaxReport

ASSUME DigestSendAssumption == Guarded \subseteq Senders /\ MaxReport \in Nat

VARIABLES
  latest,     \* the newest report, 0 before the first
  row,        \* status of the send row of each report
  sender,     \* what each execution is doing
  delivered,  \* messages that reached the chat, 2 standing for several
  excused     \* history: reports for which something went on that the code
              \* cannot keep from repeating a message

vars == <<latest, row, sender, delivered, excused>>

-----------------------------------------------------------------------------
Statuses == {"none", "sent", "skipped", "failed"}

\* seen: the row's status when the execution looked;  next: what it will write.
SenderStates == [step : {"idle", "looking", "sending", "writing"}, report : 0..MaxReport,
             force : BOOLEAN, seen : Statuses, next : Statuses]

Idle == [step |-> "idle", report |-> 0, force |-> FALSE, seen |-> "none", next |-> "none"]

TypeOK ==
  /\ latest \in 0..MaxReport
  /\ row \in [Reports -> Statuses]
  /\ sender \in [Senders -> SenderStates]
  /\ \A s \in Senders : \/ sender[s] = Idle
                        \/ sender[s].step # "idle" /\ sender[s].report \in 1..latest
  /\ \A s, t \in Guarded : s # t => sender[s] = Idle \/ sender[t] = Idle
  /\ delivered \in [Reports -> 0..2]
  /\ excused \in SUBSET Reports

Init ==
  /\ latest = 0
  /\ row = [r \in Reports |-> "none"]
  /\ sender = [s \in Senders |-> Idle]
  /\ delivered = [r \in Reports |-> 0]
  /\ excused = {}

-----------------------------------------------------------------------------
Generate ==
  /\ latest < MaxReport
  /\ latest' = latest + 1
  /\ UNCHANGED <<row, sender, delivered, excused>>

\* A message may be repeated if it is a forced one, or if an execution that no
\* lock holds back is busy with the same report.
Excuse(s, force) ==
  excused' = IF \/ force
                \/ \E t \in Senders : sender[t].report = latest /\ ~({s, t} \subseteq Guarded)
             THEN excused \union {latest} ELSE excused

\* The lock, and the latest report.
Begin(s, force) ==
  /\ sender[s] = Idle /\ latest > 0
  /\ s \in Guarded => \A t \in Guarded : sender[t] = Idle
  /\ sender' = [sender EXCEPT ![s] = [Idle EXCEPT !.step = "looking", !.report = latest, !.force = force]]
  /\ Excuse(s, force)
  /\ UNCHANGED <<latest, row, delivered>>

\* Mutant: a row of any status holds a send back.
AlreadySent_AnyRow(s) == row[sender[s].report] # "none" /\ ~sender[s].force

\* Mutant: the row of an earlier send is not looked at.
AlreadySent_Never(s) == FALSE

AlreadySent(s) == row[sender[s].report] = "sent" /\ ~sender[s].force

\* The existing row; then Telegram, if this process has it configured.
Look(s) ==
  LET seen == row[sender[s].report] IN
  /\ sender[s].step = "looking"
  /\ \/ /\ AlreadySent(s)
        /\ sender' = [sender EXCEPT ![s] = Idle]
     \/ /\ ~AlreadySent(s)
        /\ sender' = [sender EXCEPT ![s].step = "sending", ![s].seen = seen]
  /\ UNCHANGED <<latest, row, delivered, excused>>

LookUnconfigured(s) ==
  /\ sender[s].step = "looking" /\ ~AlreadySent(s)
  /\ sender' = [sender EXCEPT ![s].step = "writing", ![s].seen = row[sender[s].report],
                              ![s].next = "skipped"]
  /\ UNCHANGED <<latest, row, delivered, excused>>

Arrive(r) == delivered' = [delivered EXCEPT ![r] = IF @ < 2 THEN @ + 1 ELSE @]

Deliver(s) ==
  /\ sender[s].step = "sending"
  /\ Arrive(sender[s].report)
  /\ sender' = [sender EXCEPT ![s].step = "writing", ![s].next = "sent"]
  /\ UNCHANGED <<latest, row, excused>>

\* The message arrived but its answer did not: recorded as a failure.
LoseAnswer(s) ==
  /\ sender[s].step = "sending"
  /\ Arrive(sender[s].report)
  /\ excused' = excused \union {sender[s].report}
  /\ sender' = [sender EXCEPT ![s].step = "writing", ![s].next = "failed"]
  /\ UNCHANGED <<latest, row>>

\* Mutant: a message that could not be sent is recorded as sent.
FailToSend_AsSent(s) ==
  /\ sender[s].step = "sending"
  /\ sender' = [sender EXCEPT ![s].step = "writing", ![s].next = "sent"]
  /\ UNCHANGED <<latest, row, delivered, excused>>

FailToSend(s) ==
  /\ sender[s].step = "sending"
  /\ sender' = [sender EXCEPT ![s].step = "writing", ![s].next = "failed"]
  /\ UNCHANGED <<latest, row, delivered, excused>>

\* _upsert_send_row: an INSERT that meets the unique constraint raises; an
\* UPDATE writes the status if it is another than the one that was read.
Upserted(current, seen, next) ==
  IF seen = "none" THEN IF current = "none" THEN next ELSE current
  ELSE IF seen = next THEN current ELSE next

Write(s) ==
  LET r == sender[s].report IN
  /\ sender[s].step = "writing"
  /\ row' = [row EXCEPT ![r] = Upserted(@, sender[s].seen, sender[s].next)]
  /\ sender' = [sender EXCEPT ![s] = Idle]
  /\ UNCHANGED <<latest, delivered, excused>>

\* A process stops, or a statement raises; its lock lapses.
Crash(s) ==
  /\ sender[s] # Idle
  /\ excused' = IF sender[s].next = "sent" THEN excused \union {sender[s].report} ELSE excused
  /\ sender' = [sender EXCEPT ![s] = Idle]
  /\ UNCHANGED <<latest, row, delivered>>

Next ==
  \/ Generate
  \/ \E s \in Senders :
       \/ \E force \in BOOLEAN : Begin(s, force)
       \/ Look(s) \/ LookUnconfigured(s)
       \/ Deliver(s) \/ LoseAnswer(s) \/ FailToSend(s)
       \/ Write(s) \/ Crash(s)

Spec == Init /\ [][Next]_vars

\* The schedule asks for ever, processes go on, and Telegram is neither
\* unconfigured nor out of reach for ever.
FairSpec ==
  /\ Spec
  /\ \A s \in Senders : /\ WF_vars(\E force \in BOOLEAN : Begin(s, force)) /\ WF_vars(Write(s))
                         /\ SF_vars(Look(s)) /\ SF_vars(Deliver(s))

-----------------------------------------------------------------------------
(***************************************************************************)
(* Properties                                                              *)
(***************************************************************************)

\* A row says "sent" only of a report whose digest did reach the chat, whoever
\* wrote the row last (send_market_report_digest skips such reports for good).
SentWasDelivered == \A r \in Reports : row[r] = "sent" => delivered[r] > 0

\* The digest of a report arrives once, but for what the code leaves open: a
\* forced send, two overlapping executions (the worker's takes no lock), a lost
\* answer of Telegram, or a crash between the message and its row.
OnceUnlessExcused == \A r \in Reports : delivered[r] > 1 => r \in excused

\* Once it is asked for again and again, the latest report's digest arrives.
LatestArrives == \A r \in Reports : (latest = r) ~> (latest # r \/ delivered[r] > 0)
=============================================================================

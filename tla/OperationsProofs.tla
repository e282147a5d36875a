-------------------------- MODULE OperationsProofs --------------------------
(***************************************************************************)
(* Theorems about what goes on without anybody watching: first the digests *)
(* of DigestSend, for any number of executions of the api and of the       *)
(* worker and any number of reports, then the parts of Operations, for any *)
(* constants that its assumption admits.                                   *)
(***************************************************************************)
EXTENDS Operations, DigestSend, FiniteSetTheorems, WellFoundedInduction, Sequences, TLAPS

\* The states of one execution, as a step may set them.
LEMMA SenderStateFields ==
  ASSUME NEW x \in SenderStates
  PROVE  /\ x.step \in {"idle", "looking", "sending", "writing"}
         /\ x.report \in 0..MaxReport /\ x.force \in BOOLEAN
         /\ x.seen \in Statuses /\ x.next \in Statuses
  BY DEF SenderStates

\* Every reachable state is well typed, and at most one guarded execution is
\* under way.
THEOREM TypeCorrect == Spec => []TypeOK
<1> USE DigestSendAssumption
<1>0. Idle \in SenderStates
  BY DEF Idle, SenderStates, Statuses
<1>1. Init => TypeOK
  BY <1>0 DEF Init, TypeOK, Statuses, Reports
<1>2. TypeOK /\ [Next]_vars => TypeOK'
  <2> SUFFICES ASSUME TypeOK, [Next]_vars PROVE TypeOK'
    OBVIOUS
  <2> USE DEF TypeOK, Reports
  <2>1. CASE Generate
    BY <2>1 DEF Generate, SenderStates
  <2>2. ASSUME NEW s \in Senders, NEW force \in BOOLEAN, Begin(s, force) PROVE TypeOK'
    <3>1. sender'[s] \in SenderStates /\ sender'[s].report = latest
      BY <2>2 DEF Begin, Idle, SenderStates, Statuses
    <3>2. sender' \in [Senders -> SenderStates]
      BY <2>2, <3>1 DEF Begin
    <3>3. QED
      BY <2>2, <3>1, <3>2 DEF Begin, Excuse
  <2>3. ASSUME NEW s \in Senders, NEW x \in SenderStates,
               sender' = [sender EXCEPT ![s] = x], x = Idle \/ x.report = sender[s].report,
               x = Idle \/ (x.step # "idle" /\ sender[s].step # "idle"),
               UNCHANGED latest, row' \in [Reports -> Statuses],
               delivered' \in [Reports -> 0..2], excused' \in SUBSET Reports
        PROVE  TypeOK'
    <3>1. sender' \in [Senders -> SenderStates]
      BY <2>3
    <3>2. \A t \in Senders : \/ sender'[t] = Idle
                             \/ sender'[t].step # "idle" /\ sender'[t].report \in 1..latest'
      <4>1. x = Idle \/ (x.step # "idle" /\ x.report \in 1..latest)
        BY <2>3 DEF Idle
      <4>2. \A t \in Senders : sender'[t] = IF t = s THEN x ELSE sender[t]
        BY <2>3
      <4>3. QED
        BY <2>3, <4>1, <4>2
    <3>3. \A t, u \in Guarded : t # u => sender'[t] = Idle \/ sender'[u] = Idle
      <4>1. x = Idle \/ sender[s] # Idle
        BY <2>3 DEF Idle
      <4>2. QED
        BY <2>3, <4>1
    <3>4. QED
      BY <2>3, <3>1, <3>2, <3>3
  <2>4. ASSUME NEW s \in Senders, Look(s) PROVE TypeOK'
    <3>1. CASE sender' = [sender EXCEPT ![s] = Idle]
      BY <1>0, <2>3, <2>4, <3>1 DEF Look
    <3>2. CASE sender' = [sender EXCEPT ![s].step = "sending", ![s].seen = row[sender[s].report]]
      <4> DEFINE x == [sender[s] EXCEPT !.step = "sending", !.seen = row[sender[s].report]]
      <4>1. sender[s].step # "idle" /\ sender[s].report \in Reports
        BY <2>4 DEF Look, Idle
      <4>2. x \in SenderStates /\ x.report = sender[s].report /\ x.step # "idle"
        BY <4>1 DEF SenderStates
      <4>3. sender' = [sender EXCEPT ![s] = x]
        BY <3>2
      <4>4. QED
        BY <2>3, <2>4, <4>1, <4>2, <4>3 DEF Look
    <3>3. QED
      BY <2>4, <3>1, <3>2 DEF Look
  <2>5. ASSUME NEW s \in Senders, LookUnconfigured(s) PROVE TypeOK'
    <3> DEFINE x == [sender[s] EXCEPT !.step = "writing", !.seen = row[sender[s].report],
                                      !.next = "skipped"]
    <3>1. sender[s].step # "idle" /\ sender[s].report \in Reports
      BY <2>5 DEF LookUnconfigured, Idle
    <3>2. x \in SenderStates /\ x.report = sender[s].report /\ x.step # "idle"
      BY <3>1 DEF SenderStates, Statuses
    <3>3. sender' = [sender EXCEPT ![s] = x]
      BY <2>5 DEF LookUnconfigured
    <3>4. QED
      BY <2>3, <2>5, <3>1, <3>2, <3>3 DEF LookUnconfigured
  <2>6. ASSUME NEW s \in Senders, Deliver(s) \/ LoseAnswer(s) \/ FailToSend(s) PROVE TypeOK'
    <3>1. PICK status \in {"sent", "failed"} :
            sender' = [sender EXCEPT ![s].step = "writing", ![s].next = status]
      BY <2>6 DEF Deliver, LoseAnswer, FailToSend
    <3> DEFINE x == [sender[s] EXCEPT !.step = "writing", !.next = status]
    <3>2. x \in SenderStates /\ x.report = sender[s].report /\ x.step # "idle"
      BY DEF SenderStates, Statuses
    <3>3. sender' = [sender EXCEPT ![s] = x]
      BY <3>1
    <3>4. sender[s] # Idle /\ sender[s].step # "idle" /\ sender[s].report \in Reports
      BY <2>6 DEF Deliver, LoseAnswer, FailToSend, Idle
    <3>5. delivered' \in [Reports -> 0..2] /\ excused' \in SUBSET Reports /\ UNCHANGED <<latest, row>>
      BY <2>6, <3>4 DEF Deliver, LoseAnswer, FailToSend, Arrive
    <3>6. QED
      BY <2>3, <3>2, <3>3, <3>4, <3>5
  <2>7. ASSUME NEW s \in Senders, Write(s) PROVE TypeOK'
    <3>1. row' \in [Reports -> Statuses]
      BY <2>7, SenderStateFields DEF Write, Upserted
    <3>2. QED
      BY <1>0, <2>3, <2>7, <3>1 DEF Write
  <2>8. ASSUME NEW s \in Senders, Crash(s) PROVE TypeOK'
    <3>1. excused' \in SUBSET Reports
      <4>1. sender[s].report \in Reports
        BY <2>8 DEF Crash
      <4>2. QED
        BY <2>8, <4>1 DEF Crash
    <3>2. QED
      BY <1>0, <2>3, <2>8, <3>1 DEF Crash
  <2>9. CASE UNCHANGED vars
    BY <2>9 DEF vars
  <2>10. QED
    BY <2>1, <2>2, <2>4, <2>5, <2>6, <2>7, <2>8, <2>9 DEF Next
<1>3. QED
  BY <1>1, <1>2, PTL DEF Spec

-----------------------------------------------------------------------------
\* Behind every "sent", in a row or about to be written, is a message.
SentInv ==
  /\ SentWasDelivered
  /\ \A s \in Senders : sender[s].step = "writing" /\ sender[s].next = "sent" =>
                         delivered[sender[s].report] > 0

\* A row that an execution writes keeps its status or takes the one that the
\* execution decided on.
LEMMA UpsertedIsEither ==
  ASSUME NEW current, NEW seen, NEW next
  PROVE  Upserted(current, seen, next) \in {current, next}
  BY DEF Upserted

\* No message is ever taken back.
LEMMA ArriveAdds ==
  ASSUME TypeOK, NEW q \in Reports, Arrive(q)
  PROVE  /\ delivered'[q] > 0
         /\ \A r \in Reports : delivered'[r] \in Nat /\ delivered'[r] >= delivered[r]
         /\ \A r \in Reports : r # q => delivered'[r] = delivered[r]
         /\ delivered[q] = 0 => delivered'[q] = 1
  BY DEF TypeOK, Arrive

\* A report recorded as sent has been delivered, whatever the executions of
\* both programs overwrite.
THEOREM SentDelivered == Spec => []SentWasDelivered
<1> USE DigestSendAssumption
<1>1. Init => SentInv
  BY DEF Init, SentInv, SentWasDelivered, Idle
<1>2. TypeOK /\ SentInv /\ [Next]_vars => SentInv'
  <2> SUFFICES ASSUME TypeOK, SentInv, [Next]_vars PROVE SentInv'
    OBVIOUS
  <2> USE DEF TypeOK, SentInv, SentWasDelivered
  <2>1. CASE Generate
    BY <2>1 DEF Generate
  <2>2. ASSUME NEW s \in Senders, NEW force \in BOOLEAN, Begin(s, force) PROVE SentInv'
    BY <2>2 DEF Begin, Idle
  <2>3. ASSUME NEW s \in Senders, Look(s) \/ LookUnconfigured(s) PROVE SentInv'
    BY <2>3 DEF Look, LookUnconfigured, Idle, SenderStates
  <2>4. ASSUME NEW s \in Senders, Deliver(s) \/ LoseAnswer(s) PROVE SentInv'
    <3>1. sender[s].report \in Reports /\ Arrive(sender[s].report) /\ UNCHANGED row
      BY <2>4 DEF Deliver, LoseAnswer, Idle, Reports
    <3>2. /\ delivered'[sender[s].report] > 0
          /\ \A r \in Reports : delivered'[r] \in Nat /\ delivered'[r] >= delivered[r]
      BY <3>1, ArriveAdds
    <3>3. SentWasDelivered'
      BY <3>1, <3>2
    <3>4. ASSUME NEW t \in Senders, sender'[t].step = "writing", sender'[t].next = "sent"
          PROVE  delivered'[sender'[t].report] > 0
      <4>1. CASE t = s
        BY <2>4, <3>2, <4>1 DEF Deliver, LoseAnswer, SenderStates
      <4>2. CASE t # s
        <5>1. sender'[t] = sender[t] /\ sender[t].report \in Reports
          BY <2>4, <3>4, <4>2 DEF Deliver, LoseAnswer, Idle, Reports
        <5>2. QED
          BY <3>2, <3>4, <5>1
      <4>3. QED
        BY <4>1, <4>2
    <3>5. QED
      BY <3>3, <3>4
  <2>5. ASSUME NEW s \in Senders, FailToSend(s) PROVE SentInv'
    BY <2>5 DEF FailToSend, SenderStates
  <2>6. ASSUME NEW s \in Senders, Write(s) PROVE SentInv'
    <3>1. sender' = [sender EXCEPT ![s] = Idle] /\ UNCHANGED delivered
      BY <2>6 DEF Write
    <3>2. \A r \in Reports : row'[r] = "sent" => delivered[r] > 0
      BY <2>6, UpsertedIsEither DEF Write
    <3>3. QED
      BY <3>1, <3>2 DEF Idle
  <2>7. ASSUME NEW s \in Senders, Crash(s) PROVE SentInv'
    BY <2>7 DEF Crash, Idle
  <2>8. CASE UNCHANGED vars
    BY <2>8 DEF vars
  <2>9. QED
    BY <2>1, <2>2, <2>3, <2>4, <2>5, <2>6, <2>7, <2>8 DEF Next
<1>3. SentInv => SentWasDelivered
  BY DEF SentInv
<1>4. QED
  BY <1>1, <1>2, <1>3, TypeCorrect, PTL DEF Spec

-----------------------------------------------------------------------------
\* The executions that are busy with report r.
Busy(r) == {s \in Senders : sender[s].report = r}

\* What holds of a report as long as nothing excuses a repetition: one
\* execution at most is busy with it, the row that it has read is the row that
\* is there, and a message that has arrived is on record or about to be.
Orderly(r) ==
  /\ delivered[r] <= 1
  /\ \A s, t \in Busy(r) : s = t
  /\ (\A s \in Busy(r) : sender[s].step = "looking") /\ delivered[r] = 1 => row[r] = "sent"
  /\ \A s \in Busy(r) :
       /\ ~sender[s].force
       /\ sender[s].step \in {"sending", "writing"} =>
            row[r] # "sent" /\ sender[s].seen = row[r]
       /\ sender[s].step = "sending" => delivered[r] = 0
       /\ sender[s].step = "writing" =>
            sender[s].next # "none" /\ (delivered[r] = 1 <=> sender[s].next = "sent")

OnceInv == \A r \in Reports \ excused : Orderly(r)

\* A step that concerns another report, if any, leaves a report in order.
LEMMA OthersStayOrderly ==
  ASSUME TypeOK, NEW r \in Reports, Orderly(r),
         row'[r] = row[r], delivered'[r] = delivered[r],
         \A t \in Senders : sender'[t] = sender[t] \/ (sender[t].report # r /\ sender'[t].report # r)
  PROVE  Orderly(r)'
<1>1. Busy(r)' = Busy(r) /\ \A t \in Busy(r) : sender'[t] = sender[t]
  BY DEF Busy
<1>2. QED
  BY <1>1 DEF Orderly

\* The step of the one execution that is busy with a report in order.
LEMMA OneStaysOrderly ==
  ASSUME TypeOK, NEW r \in Reports, NEW s \in Busy(r), \A t \in Busy(r) : t = s,
         NEW x \in SenderStates, x.report = r, sender' = [sender EXCEPT ![s] = x],
         ~x.force, row'[r] = row[r], delivered'[r] \in {0, 1},
         x.step = "looking" => (delivered'[r] = 1 => row[r] = "sent"),
         x.step \in {"sending", "writing"} => row[r] # "sent" /\ x.seen = row[r],
         x.step \in {"looking", "sending", "writing"},
         x.step = "sending" => delivered'[r] = 0,
         x.step = "writing" => x.next # "none" /\ (delivered'[r] = 1 <=> x.next = "sent")
  PROVE  Orderly(r)'
<1>1. Busy(r)' = {s} /\ sender'[s] = x
  BY DEF Busy, TypeOK
<1>2. QED
  BY <1>1 DEF Orderly

\* The end of the one execution that is busy with a report in order.
LEMMA EndStaysOrderly ==
  ASSUME TypeOK, NEW r \in Reports, NEW s \in Busy(r), \A t \in Busy(r) : t = s,
         sender' = [sender EXCEPT ![s] = Idle],
         delivered'[r] \in {0, 1}, delivered'[r] = 1 => row'[r] = "sent"
  PROVE  Orderly(r)'
<1>1. Busy(r)' = {}
  BY DEF Busy, TypeOK, Idle, Reports
<1>2. QED
  BY <1>1 DEF Orderly

\* Reports stay in order until something excuses a repetition.
LEMMA OnceInvStep == TypeOK /\ OnceInv /\ [Next]_vars => OnceInv'
<1> USE DigestSendAssumption
<1> SUFFICES ASSUME TypeOK, OnceInv, [Next]_vars, NEW r \in Reports, r \notin excused'
             PROVE  Orderly(r)'
  BY DEF OnceInv
<1>1. r \notin excused
  BY DEF Next, vars, Generate, Begin, Excuse, Look, LookUnconfigured, Deliver, LoseAnswer,
         FailToSend, Write, Crash
<1>2. Orderly(r)
  BY <1>1 DEF OnceInv
<1>3. delivered[r] \in {0, 1}
  BY <1>2 DEF Orderly, TypeOK
<1>4. ASSUME NEW s \in Senders, sender[s].report # r, row'[r] = row[r], delivered'[r] = delivered[r],
             \A t \in Senders : t # s => sender'[t] = sender[t], sender'[s].report # r
      PROVE  Orderly(r)'
  BY <1>2, <1>4, OthersStayOrderly
<1>5. ASSUME NEW s \in Senders, NEW force \in BOOLEAN, Begin(s, force) PROVE Orderly(r)'
  <2> DEFINE x == [Idle EXCEPT !.step = "looking", !.report = latest, !.force = force]
  <2>1. /\ sender' = [sender EXCEPT ![s] = x] /\ UNCHANGED <<row, delivered>>
        /\ sender[s] = Idle /\ latest \in Reports
    BY <1>5 DEF Begin, Reports, TypeOK
  <2>2. sender'[s].report = latest /\ sender[s].report = 0 /\ \A t \in Senders : t # s => sender'[t] = sender[t]
    BY <2>1 DEF TypeOK, Idle
  <2>3. CASE latest # r
    BY <1>4, <2>1, <2>2, <2>3 DEF Reports
  <2>4. CASE latest = r
    <3>1. ~force /\ \A t \in Senders : sender[t].report = r => {s, t} \subseteq Guarded
      BY <1>5, <2>4 DEF Begin, Excuse
    <3>2. Busy(r) = {}
      <4>1. SUFFICES ASSUME NEW t \in Busy(r) PROVE FALSE
        OBVIOUS
      <4>2. sender[t] = Idle
        BY <1>5, <3>1, <4>1 DEF Begin, Busy
      <4>3. QED
        BY <4>1, <4>2 DEF Busy, Idle, Reports
    <3>3. Busy(r)' = {s} /\ sender'[s] = x
      BY <2>1, <2>2, <2>4, <3>2 DEF Busy, TypeOK
    <3>4. x.step = "looking" /\ ~x.force
      BY <3>1 DEF Idle
    <3>5. delivered[r] = 1 => row[r] = "sent"
      BY <1>2, <3>2 DEF Orderly
    <3> HIDE DEF x
    <3>6. QED
      BY <1>3, <2>1, <3>3, <3>4, <3>5 DEF Orderly
  <2>5. QED
    BY <2>3, <2>4
<1>6. ASSUME NEW s \in Busy(r)
      PROVE  /\ s \in Senders /\ \A t \in Busy(r) : t = s
             /\ ~sender[s].force /\ sender[s] \in SenderStates /\ sender[s].report = r
  BY <1>2 DEF Busy, Orderly, TypeOK
<1>7. ASSUME NEW s \in Senders, Look(s) PROVE Orderly(r)'
  <2>1. CASE s \notin Busy(r)
    <3>1. sender'[s].report \in {0, sender[s].report}
      BY <1>7 DEF Look, Idle, TypeOK, SenderStates
    <3>2. \A t \in Senders : t # s => sender'[t] = sender[t]
      BY <1>7 DEF Look, TypeOK
    <3>3. QED
      BY <1>4, <1>7, <2>1, <3>1, <3>2 DEF Look, Busy, Reports
  <2>2. CASE s \in Busy(r) /\ AlreadySent(s)
    BY <1>2, <1>3, <1>6, <1>7, <2>2, EndStaysOrderly DEF Look, AlreadySent
  <2>3. CASE s \in Busy(r) /\ ~AlreadySent(s)
    <3> DEFINE x == [sender[s] EXCEPT !.step = "sending", !.seen = row[sender[s].report]]
    <3>1. x \in SenderStates /\ x.step = "sending" /\ x.report = r /\ x.seen = row[r] /\ ~x.force
      BY <1>6, <2>3 DEF SenderStates, TypeOK
    <3>2. row[r] # "sent" /\ delivered[r] = 0
      BY <1>2, <1>3, <1>6, <1>7, <2>3 DEF AlreadySent, Look, Orderly
    <3>3. sender' = [sender EXCEPT ![s] = x] /\ UNCHANGED <<row, delivered>>
      BY <1>7, <2>3 DEF Look
    <3>4. QED
      BY <1>6, <2>3, <3>1, <3>2, <3>3, OneStaysOrderly
  <2>4. QED
    BY <2>1, <2>2, <2>3
<1>8. ASSUME NEW s \in Senders, LookUnconfigured(s) PROVE Orderly(r)'
  <2>1. CASE s \notin Busy(r)
    BY <1>4, <1>8, <2>1 DEF LookUnconfigured, Busy, TypeOK
  <2>2. CASE s \in Busy(r)
    <3> DEFINE x == [sender[s] EXCEPT !.step = "writing", !.seen = row[sender[s].report],
                                      !.next = "skipped"]
    <3>1. /\ x \in SenderStates /\ x.step = "writing" /\ x.report = r /\ x.seen = row[r]
          /\ x.next = "skipped" /\ ~x.force
      BY <1>6, <2>2 DEF SenderStates, TypeOK, Statuses
    <3>2. row[r] # "sent" /\ delivered[r] = 0
      BY <1>2, <1>3, <1>6, <1>8, <2>2 DEF AlreadySent, LookUnconfigured, Orderly
    <3>3. sender' = [sender EXCEPT ![s] = x] /\ UNCHANGED <<row, delivered>>
      BY <1>8 DEF LookUnconfigured
    <3>4. /\ row'[r] = row[r] /\ delivered'[r] = 0 /\ x.next # "none"
          /\ delivered'[r] = 1 <=> x.next = "sent"
      BY <3>1, <3>2, <3>3
    <3> HIDE DEF x
    <3>5. QED
      BY <1>6, <2>2, <3>1, <3>2, <3>3, <3>4, OneStaysOrderly
  <2>3. QED
    BY <2>1, <2>2
<1>9. ASSUME NEW s \in Senders, Deliver(s) \/ FailToSend(s) \/ LoseAnswer(s) PROVE Orderly(r)'
  <2>1. sender[s].step = "sending" /\ UNCHANGED row /\ sender[s].report \in Reports
    BY <1>9 DEF Deliver, FailToSend, LoseAnswer, TypeOK, Idle, Reports
  <2>2. CASE s \notin Busy(r)
    <3>1. delivered'[r] = delivered[r]
      BY <1>9, <2>1, <2>2, ArriveAdds DEF Deliver, FailToSend, LoseAnswer, Busy
    <3>2. sender'[s].report = sender[s].report
      BY <1>9 DEF Deliver, FailToSend, LoseAnswer, TypeOK, SenderStates
    <3>3. \A t \in Senders : t # s => sender'[t] = sender[t]
      BY <1>9 DEF Deliver, FailToSend, LoseAnswer, TypeOK
    <3>4. QED
      BY <1>4, <2>1, <2>2, <3>1, <3>2, <3>3 DEF Busy
  <2>3. CASE s \in Busy(r)
    <3>1. PICK status \in {"sent", "failed"} :
            /\ sender' = [sender EXCEPT ![s].step = "writing", ![s].next = status]
            /\ IF status = "sent" THEN Arrive(r) ELSE UNCHANGED delivered
      BY <1>6, <1>9, <2>3 DEF Deliver, FailToSend, LoseAnswer
    <3> DEFINE x == [sender[s] EXCEPT !.step = "writing", !.next = status]
    <3>2. /\ x \in SenderStates /\ x.step = "writing" /\ x.report = r /\ x.seen = sender[s].seen
          /\ x.next = status /\ ~x.force
      BY <1>6, <2>3 DEF SenderStates, Statuses
    <3>3. row[r] # "sent" /\ sender[s].seen = row[r] /\ delivered[r] = 0
      BY <1>2, <2>1, <2>3 DEF Orderly
    <3>4. delivered'[r] = IF status = "sent" THEN 1 ELSE 0
      BY <3>1, <3>3, ArriveAdds
    <3>5. sender' = [sender EXCEPT ![s] = x]
      BY <3>1
    <3>6. /\ row'[r] = row[r] /\ delivered'[r] \in {0, 1} /\ x.next # "none"
          /\ delivered'[r] = 1 <=> x.next = "sent"
      BY <2>1, <3>2, <3>4
    <3> HIDE DEF x
    <3>7. QED
      BY <1>6, <2>3, <3>2, <3>3, <3>5, <3>6, OneStaysOrderly
  <2>4. QED
    BY <2>2, <2>3
<1>10. ASSUME NEW s \in Senders, Write(s) PROVE Orderly(r)'
  <2>1. CASE s \notin Busy(r)
    BY <1>4, <1>10, <2>1 DEF Write, Busy, Idle, TypeOK, Reports
  <2>2. CASE s \in Busy(r)
    <3>1. /\ row[r] # "sent" /\ sender[s].seen = row[r] /\ sender[s].step = "writing"
          /\ delivered[r] = 1 <=> sender[s].next = "sent"
      BY <1>2, <1>10, <2>2 DEF Orderly, Write
    <3>2. sender[s].next = "sent" => row'[r] = "sent"
      BY <1>6, <1>10, <2>2, <3>1 DEF Write, Upserted, TypeOK
    <3>3. QED
      BY <1>3, <1>6, <1>10, <2>2, <3>1, <3>2, EndStaysOrderly DEF Write
  <2>3. QED
    BY <2>1, <2>2
<1>11. ASSUME NEW s \in Senders, Crash(s) PROVE Orderly(r)'
  <2>1. CASE s \notin Busy(r)
    BY <1>4, <1>11, <2>1 DEF Crash, Busy, Idle, TypeOK, Reports
  <2>2. CASE s \in Busy(r)
    <3>1. sender[s].next # "sent" /\ UNCHANGED <<row, delivered>>
      BY <1>6, <1>11, <2>2 DEF Crash
    <3>2. sender[s].step \in {"looking", "sending", "writing"}
      BY <1>6, <1>11, <2>2 DEF Crash, TypeOK, SenderStates
    <3>3. delivered[r] = 1 => row[r] = "sent"
      <4>1. CASE sender[s].step = "looking"
        BY <1>2, <1>6, <2>2, <4>1 DEF Orderly
      <4>2. CASE sender[s].step \in {"sending", "writing"}
        BY <1>2, <2>2, <3>1, <4>2 DEF Orderly
      <4>3. QED
        BY <3>2, <4>1, <4>2
    <3>4. QED
      BY <1>3, <1>6, <1>11, <2>2, <3>1, <3>3, EndStaysOrderly DEF Crash
  <2>3. QED
    BY <2>1, <2>2
<1>12. CASE Generate \/ UNCHANGED vars
  BY <1>2, <1>12, OthersStayOrderly DEF Generate, vars
<1>13. QED
  BY <1>5, <1>7, <1>8, <1>9, <1>10, <1>11, <1>12 DEF Next

\* A report's digest reaches the chat once at most, unless a forced send, an
\* overlap that no lock prevents, a lost answer or a crash excuses another.
THEOREM SentOnce == Spec => []OnceUnlessExcused
<1>1. Init => OnceInv
  BY DEF Init, OnceInv, Orderly, Busy, Idle, Reports
<1>2. TypeOK /\ OnceInv => OnceUnlessExcused
  BY DEF TypeOK, OnceInv, Orderly, OnceUnlessExcused
<1>3. QED
  BY <1>1, <1>2, OnceInvStep, TypeCorrect, PTL DEF Spec

-----------------------------------------------------------------------------
(***************************************************************************)
(* Numbers                                                                 *)
(***************************************************************************)

LEMMA SmallestOf ==
  ASSUME NEW S \in SUBSET Nat, S # {}
  PROVE  \E x \in S : \A y \in S : x <= y
<1> DEFINE R == OpToRel(<, Nat)
<1>1. IsWellFoundedOn(R, Nat)
  BY NatLessThanWellFounded
<1>2. \A x, y \in Nat : <<x, y>> \in R <=> x < y
  BY DEF OpToRel
<1> HIDE DEF R
<1>3. PICK x \in S : \A y \in S : ~ (<<y, x>> \in R)
  BY <1>1, WFMin
<1>4. \A y \in S : x \in Nat /\ y \in Nat /\ ~ (y < x)
  BY <1>2, <1>3
<1>5. \A y \in S : x <= y
  BY <1>4
<1>6. QED
  BY <1>5

-----------------------------------------------------------------------------
(***************************************************************************)
(* Retention                                                               *)
(***************************************************************************)

\* The rows that no prune is about to delete.
Chosen(p) == IF prune[p].phase = "chosen" THEN prune[p].ids ELSE {}

Staying == {t \in rows : \A p \in Pruners : t \notin Chosen(p)}

\* The latest row is not even chosen: a prune that has yet to choose has it
\* among the protected ones, or finds it fresh.
LatestStays ==
  table = "price_observations" =>
    \A t \in written \ raced : (\A u \in written : u <= t) =>
      /\ t \in Staying
      /\ \A p \in Pruners : prune[p].phase = "reading" =>
           t \in prune[p].ids \/ t >= prune[p].at - Fresh

\* What has gone, or is chosen to go, is older than its age.
OldGoes ==
  \A t \in written \ Staying :
    CASE table = "app_log_events" -> day - t > (IF Prune!Important(t) THEN KeepImportant ELSE Keep[table])
      [] table = "raw_snapshots" -> day - t > Keep[table]
      [] OTHER -> day - t > Fresh

\* The first row there ever was of a group that is within the retention stays.
Thinnable == {"price_observations", "portfolio_valuation_snapshots"}

FirstStays ==
  table \in Thinnable =>
    \A t \in written :
      /\ day - t <= Keep[table]
      /\ \A u \in written : Prune!Group(u, 0) = Prune!Group(t, 0) => t <= u
      => t \in Staying

PruneInv ==
  /\ Prune!TypeOK
  /\ \A p \in Pruners : Chosen(p) \subseteq written
  /\ LatestStays /\ OldGoes /\ FirstStays

\* Groups do not depend on the time of the prune.
LEMMA GroupIsFixed ==
  \A t, at : Prune!Group(t, at) = Prune!Group(t, 0)
  BY DEF Prune!Group

\* What the types give in numbers.
LEMMA PruneNumbers ==
  ASSUME Prune!TypeOK, Prune!RetentionAssumption
  PROVE  /\ day \in Nat /\ written \subseteq Nat /\ rows \subseteq written /\ table \in Prune!Tables
         /\ KeepImportant \in Nat /\ Fresh \in Nat /\ \A x \in Prune!Tables : Keep[x] \in Nat
         /\ \A x \in Thinnable : x \in Prune!Tables /\ Fresh <= Keep[x]
         /\ \A p \in Pruners : prune[p].at \in Nat /\ prune[p].at <= day
  BY DEF Prune!TypeOK, Prune!RetentionAssumption, Prune!Times, Prune!Tables, Thinnable

\* A step that keeps the rows that stay, writes none, begins no prune, and does
\* not take time back.
LEMMA PruneWaits ==
  ASSUME PruneInv, Prune!RetentionAssumption, UNCHANGED <<table, written, raced>>,
         Staying \subseteq Staying', day' \in Nat, day' >= day,
         \A p \in Pruners : prune'[p].phase = "reading" => prune'[p] = prune[p]
  PROVE  LatestStays' /\ OldGoes' /\ FirstStays'
<1> USE PruneNumbers DEF PruneInv
<1>2. LatestStays'
  BY DEF LatestStays
<1>3. OldGoes'
  <2>1. \A t \in written : Prune!Important(t)' = Prune!Important(t)
    BY DEF Prune!Important
  <2>2. SUFFICES ASSUME NEW t \in written \ Staying'
                 PROVE  CASE table = "app_log_events" -> day' - t > (IF Prune!Important(t) THEN KeepImportant ELSE Keep[table])
                          [] table = "raw_snapshots" -> day' - t > Keep[table]
                          [] OTHER -> day' - t > Fresh
    BY <2>1 DEF OldGoes
  <2>3. t \in Nat /\ day' - t >= day - t
    OBVIOUS
  <2>4. QED
    BY <2>3 DEF OldGoes
<1>4. FirstStays'
  <2>1. \A u : Prune!Group(u, 0)' = Prune!Group(u, 0)
    BY DEF Prune!Group
  <2>2. SUFFICES ASSUME table \in Thinnable, NEW t \in written, day' - t <= Keep[table],
                        \A u \in written : Prune!Group(u, 0) = Prune!Group(t, 0) => t <= u
                 PROVE  t \in Staying
    BY <2>1 DEF FirstStays
  <2>3. day - t <= Keep[table]
    BY <2>2
  <2>4. QED
    BY <2>2, <2>3 DEF FirstStays
<1>5. QED
  BY <1>2, <1>3, <1>4

LEMMA PruneEndKeeps ==
  ASSUME PruneInv, Prune!RetentionAssumption,
         Prune!Tick \/ \E p \in Pruners : Prune!Leave(p) \/ Prune!Delete(p)
  PROVE  PruneInv'
<1> USE DEF PruneInv
<1>1. UNCHANGED <<table, written, raced>> /\ day' \in Prune!Times /\ day' >= day /\ day' \in Nat /\ day \in Nat
  BY PruneNumbers
     DEF Prune!TypeOK, Prune!RetentionAssumption, Prune!Times, Prune!Tick, Prune!Leave, Prune!Delete
<1>2. /\ prune' \in [Pruners -> [phase : {"idle", "reading", "chosen"}, at : 0..day', ids : SUBSET Prune!Times]]
      /\ \A p \in Pruners : prune'[p] = prune[p] \/ prune'[p].phase = "idle"
      /\ rows' \subseteq rows /\ Staying \subseteq Staying'
  <2>1. 0 \in 0..day' /\ 0..day \subseteq 0..day'
    BY <1>1
  <2>2. prune \in [Pruners -> [phase : {"idle", "reading", "chosen"}, at : 0..day', ids : SUBSET Prune!Times]]
    BY <2>1 DEF Prune!TypeOK
  <2>3. CASE Prune!Tick
    BY <2>2, <2>3 DEF Prune!Tick, Staying, Chosen
  <2>4. ASSUME NEW p \in Pruners, Prune!Leave(p) \/ Prune!Delete(p) PROVE <1>2
    <3>1. prune' = [prune EXCEPT ![p] = Prune!NoPrune] /\ Prune!NoPrune.phase = "idle"
          /\ Prune!NoPrune \in [phase : {"idle", "reading", "chosen"}, at : 0..day', ids : SUBSET Prune!Times]
      BY <2>1, <2>4 DEF Prune!Leave, Prune!Delete, Prune!NoPrune
    <3>2. /\ prune'[p].phase = "idle" /\ \A q \in Pruners \ {p} : prune'[q] = prune[q]
          /\ prune' \in [Pruners -> [phase : {"idle", "reading", "chosen"}, at : 0..day', ids : SUBSET Prune!Times]]
      BY <2>2, <3>1
    <3>3. \A q \in Pruners : Chosen(q)' \subseteq Chosen(q)
      BY <3>2 DEF Chosen
    <3>4. rows' \subseteq rows /\ rows \ Chosen(p) \subseteq rows'
      BY <2>4 DEF Prune!Leave, Prune!Delete, Chosen
    <3>5. QED
      BY <3>2, <3>3, <3>4 DEF Staying
  <2>5. QED
    BY <2>3, <2>4
<1>3. LatestStays' /\ OldGoes' /\ FirstStays'
  BY <1>1, <1>2, PruneWaits
<1>4. \A p \in Pruners : Chosen(p)' \subseteq written'
  BY <1>1, <1>2 DEF Chosen
<1>5. Prune!TypeOK'
  BY <1>1, <1>2 DEF Prune!TypeOK, Prune!Times
<1>6. QED
  BY <1>3, <1>4, <1>5

\* A new row, however late, is chosen by no prune; as the latest it is fresh, or
\* one of those that raced a prune.
LEMMA PruneWriteKeeps ==
  ASSUME PruneInv, Prune!RetentionAssumption, NEW t \in Prune!Times, Prune!Write(t)
  PROVE  PruneInv'
<1> USE PruneNumbers DEF PruneInv
<1>1. /\ written' = written \union {t} /\ rows' = rows \union {t} /\ UNCHANGED <<table, day>>
      /\ raced \ {t} \subseteq raced' /\ raced' \subseteq raced \union {t} /\ t \in Nat
      /\ prune' = [p \in Pruners |-> [prune[p] EXCEPT !.ids = @ \ {t}]]
  BY DEF Prune!Write, Prune!Times
<1>2. \A p \in Pruners : /\ prune'[p].phase = prune[p].phase /\ prune'[p].at = prune[p].at
                         /\ prune'[p].ids = prune[p].ids \ {t} /\ Chosen(p)' = Chosen(p) \ {t}
                         /\ prune'[p] \in [phase : {"idle", "reading", "chosen"}, at : 0..day,
                                           ids : SUBSET Prune!Times]
  <2> SUFFICES ASSUME NEW p \in Pruners
               PROVE  /\ prune'[p].phase = prune[p].phase /\ prune'[p].at = prune[p].at
                      /\ prune'[p].ids = prune[p].ids \ {t} /\ Chosen(p)' = Chosen(p) \ {t}
                      /\ prune'[p] \in [phase : {"idle", "reading", "chosen"}, at : 0..day,
                                        ids : SUBSET Prune!Times]
    OBVIOUS
  <2>1. prune[p] \in [phase : {"idle", "reading", "chosen"}, at : 0..day, ids : SUBSET Prune!Times]
    BY DEF Prune!TypeOK
  <2>2. prune'[p] = [prune[p] EXCEPT !.ids = prune[p].ids \ {t}]
    BY <1>1
  <2>3. QED
    BY <2>1, <2>2 DEF Chosen
<1>3. Staying' = Staying \union {t} /\ Prune!TypeOK' /\ \A p \in Pruners : Chosen(p)' \subseteq written'
  <2>1. Staying' = Staying \union {t}
    BY <1>1, <1>2 DEF Staying
  <2>2. prune' \in [Pruners -> [phase : {"idle", "reading", "chosen"}, at : 0..day, ids : SUBSET Prune!Times]]
    BY <1>1, <1>2
  <2>3. QED
    BY <1>1, <1>2, <2>1, <2>2 DEF Prune!TypeOK
<1>4. LatestStays'
  <2> SUFFICES ASSUME table = "price_observations", NEW x \in written' \ raced', \A u \in written' : u <= x
               PROVE  /\ x \in Staying'
                      /\ \A p \in Pruners : prune'[p].phase = "reading" =>
                           x \in prune'[p].ids \/ x >= prune'[p].at - Fresh
    BY <1>1 DEF LatestStays
  <2>1. CASE x = t
    <3>1. ~ (t < day - Fresh) \/ \A p \in Pruners : prune[p].phase # "reading"
      BY <1>1, <2>1 DEF Prune!Write
    <3>2. \A p \in Pruners : t < prune[p].at - Fresh => t < day - Fresh
      BY <1>1
    <3>3. \A p \in Pruners : t < prune[p].at - Fresh \/ t >= prune[p].at - Fresh
      BY <1>1
    <3>4. QED
      BY <1>2, <1>3, <2>1, <3>1, <3>2, <3>3
  <2>2. CASE x # t
    BY <1>1, <1>2, <1>3, <2>2 DEF LatestStays
  <2>3. QED
    BY <2>1, <2>2
<1>5. OldGoes'
  <2>1. written' \ Staying' \subseteq written \ Staying
    BY <1>1, <1>3
  <2>2. \A u : Prune!Important(u)' = Prune!Important(u)
    BY DEF Prune!Important
  <2>3. QED
    BY <1>1, <2>1, <2>2 DEF OldGoes
<1>6. FirstStays'
  <2>1. \A u : Prune!Group(u, 0)' = Prune!Group(u, 0)
    BY <1>1 DEF Prune!Group
  <2>2. QED
    BY <1>1, <1>3, <2>1 DEF FirstStays
<1>7. QED
  BY <1>1, <1>3, <1>4, <1>5, <1>6

\* At its first reading a prune finds the latest row.
LEMMA PruneBeginKeeps ==
  ASSUME PruneInv, Prune!RetentionAssumption, NEW p \in Pruners, Prune!Begin(p)
  PROVE  PruneInv'
<1> USE PruneNumbers DEF PruneInv
<1> DEFINE begun == [phase |-> "reading", at |-> day, ids |-> Prune!Protected]
<1>1. /\ prune' = [prune EXCEPT ![p] = begun] /\ prune[p].phase = "idle"
      /\ UNCHANGED <<table, day, rows, written, raced>>
  BY DEF Prune!Begin
<1>2. begun \in [phase : {"idle", "reading", "chosen"}, at : 0..day, ids : SUBSET Prune!Times]
  BY DEF Prune!Protected, Prune!TypeOK
<1>3. Prune!TypeOK'
  BY <1>1, <1>2 DEF Prune!TypeOK
<1>4. prune'[p] = begun /\ \A q \in Pruners \ {p} : prune'[q] = prune[q]
  BY <1>1 DEF Prune!TypeOK
<1>5. (\A q \in Pruners : Chosen(q)' = Chosen(q)) /\ Staying' = Staying
  <2>1. \A q \in Pruners : Chosen(q)' = Chosen(q)
    BY <1>1, <1>4 DEF Chosen
  <2>2. QED
    BY <1>1, <2>1 DEF Staying
<1>6. LatestStays'
  <2> SUFFICES ASSUME table = "price_observations", NEW t \in written \ raced, \A u \in written : u <= t
               PROVE  /\ t \in Staying
                      /\ \A q \in Pruners : prune'[q].phase = "reading" =>
                           t \in prune'[q].ids \/ t >= prune'[q].at - Fresh
    BY <1>1, <1>5 DEF LatestStays
  <2>1. t \in Staying
    BY DEF LatestStays
  <2>2. t \in Prune!Protected
    BY <2>1 DEF Prune!Protected, Staying
  <2>3. ASSUME NEW q \in Pruners, prune'[q].phase = "reading"
        PROVE  t \in prune'[q].ids \/ t >= prune'[q].at - Fresh
    BY <1>4, <2>2, <2>3 DEF LatestStays
  <2>4. QED
    BY <2>1, <2>3
<1>7. OldGoes'
  BY <1>1, <1>5 DEF OldGoes, Prune!Important
<1>8. FirstStays'
  BY <1>1, <1>5 DEF FirstStays, Prune!Group
<1>9. QED
  BY <1>1, <1>3, <1>5, <1>6, <1>7, <1>8

\* A choice takes neither the latest row nor the first of a group that is within
\* the retention.
LEMMA PruneSelectKeeps ==
  ASSUME PruneInv, Prune!RetentionAssumption, NEW p \in Pruners, Prune!Select(p)
  PROVE  PruneInv'
<1> USE PruneNumbers DEF PruneInv
<1> DEFINE ids == Prune!Candidates(prune[p].at, prune[p].ids)
           made == [phase |-> "chosen", at |-> prune[p].at, ids |-> ids]
<1>1. /\ UNCHANGED <<table, day, rows, written, raced>> /\ prune[p].phase = "reading"
      /\ prune' = [prune EXCEPT ![p] = made]
  BY DEF Prune!Select
<1>2. ids \subseteq rows
  BY DEF Prune!Candidates, Prune!Older, Prune!Thinned
<1>3. \A t \in ids : table = "price_observations" =>
        /\ t \in Prune!Older(prune[p].at, Keep[table]) \union Prune!Thinned(prune[p].at)
        /\ t \notin prune[p].ids
  BY DEF Prune!Candidates
<1>4. made \in [phase : {"idle", "reading", "chosen"}, at : 0..day, ids : SUBSET Prune!Times]
  BY <1>2 DEF Prune!TypeOK
<1>5. prune'[p] = made /\ \A q \in Pruners \ {p} : prune'[q] = prune[q]
  BY <1>1 DEF Prune!TypeOK
<1>6. Prune!TypeOK'
  BY <1>1, <1>4 DEF Prune!TypeOK
<1> HIDE DEF ids
<1>7. /\ Chosen(p)' = ids /\ Chosen(p) = {}
      /\ \A q \in Pruners \ {p} : Chosen(q)' = Chosen(q)
  BY <1>1, <1>5 DEF Chosen
<1>8. Staying' = Staying \ ids
  BY <1>1, <1>7 DEF Staying
<1>9. \A q \in Pruners : Chosen(q)' \subseteq written'
  BY <1>1, <1>2, <1>7
<1>10. LatestStays'
  <2> SUFFICES ASSUME table = "price_observations", NEW t \in written \ raced, \A u \in written : u <= t
               PROVE  /\ t \in Staying \ ids
                      /\ \A q \in Pruners : prune'[q].phase = "reading" =>
                           t \in prune'[q].ids \/ t >= prune'[q].at - Fresh
    BY <1>1, <1>8 DEF LatestStays
  <2>1. t \in Staying /\ (t \in prune[p].ids \/ t >= prune[p].at - Fresh)
    BY <1>1 DEF LatestStays
  <2>2. ASSUME t \in prune[p].ids PROVE t \notin ids
    BY <1>3, <2>2
  <2>3. ASSUME t >= prune[p].at - Fresh PROVE t \notin ids
    <3>1. t >= prune[p].at - Keep[table] /\ t \in Nat /\ Keep[table] \in Nat
      BY <2>3 DEF Thinnable
    <3>2. t \notin Prune!Older(prune[p].at, Fresh) /\ t \notin Prune!Older(prune[p].at, Keep[table])
      BY <2>3, <3>1 DEF Prune!Older
    <3>3. QED
      BY <1>3, <3>2 DEF Prune!Thinned
  <2>4. t \notin ids
    BY <2>1, <2>2, <2>3
  <2>5. ASSUME NEW q \in Pruners, prune'[q].phase = "reading"
        PROVE  t \in prune'[q].ids \/ t >= prune'[q].at - Fresh
    BY <1>5, <2>5 DEF LatestStays
  <2>6. QED
    BY <2>1, <2>4, <2>5
<1>11. OldGoes'
  <2> SUFFICES ASSUME NEW t \in written \ (Staying \ ids)
               PROVE  CASE table = "app_log_events" -> day - t > (IF Prune!Important(t) THEN KeepImportant ELSE Keep[table])
                        [] table = "raw_snapshots" -> day - t > Keep[table]
                        [] OTHER -> day - t > Fresh
    BY <1>1, <1>8 DEF OldGoes, Prune!Important
  <2> DEFINE at == prune[p].at
  <2>1. CASE t \notin Staying
    BY <1>1, <2>1 DEF OldGoes
  <2>2. CASE t \in ids
    <3>1. CASE table = "app_log_events"
      BY <2>2, <3>1 DEF ids, Prune!Candidates, Prune!Older, Prune!Tables
    <3>2. CASE table = "raw_snapshots"
      BY <2>2, <3>2 DEF ids, Prune!Candidates, Prune!Older, Prune!Tables
    <3>3. CASE table \in Thinnable
      <4>1. t < at - Keep[table] \/ t < at - Fresh
        BY <2>2, <3>3 DEF ids, Prune!Candidates, Prune!Older, Prune!Thinned, Thinnable
      <4>2. day - t > Fresh
        BY <3>3, <4>1
      <4>3. QED
        BY <3>3, <4>2 DEF Thinnable
    <3>4. QED
      BY <3>1, <3>2, <3>3 DEF Prune!Tables, Thinnable
  <2>3. QED
    BY <2>1, <2>2
<1>12. FirstStays'
  <2> SUFFICES ASSUME table \in Thinnable, NEW t \in written, day - t <= Keep[table],
                      \A u \in written : Prune!Group(u, 0) = Prune!Group(t, 0) => t <= u
               PROVE  t \in Staying \ ids
    BY <1>1, <1>8 DEF FirstStays, Prune!Group
  <2>1. t \in Staying
    BY DEF FirstStays
  <2>2. t \notin Prune!Older(prune[p].at, Keep[table])
    BY DEF Prune!Older
  <2>3. t \notin Prune!Thinned(prune[p].at)
    <3> SUFFICES ASSUME NEW u \in rows, u < t,
                        Prune!Group(u, prune[p].at) = Prune!Group(t, prune[p].at)
                 PROVE  FALSE
      BY DEF Prune!Thinned, Prune!Older
    <3>1. Prune!Group(u, 0) = Prune!Group(t, 0)
      BY GroupIsFixed
    <3>2. QED
      BY <3>1
  <2>4. t \notin ids
    BY <2>2, <2>3 DEF ids, Prune!Candidates, Thinnable
  <2>5. QED
    BY <2>1, <2>4
<1>13. QED
  BY <1>6, <1>9, <1>10, <1>11, <1>12

LEMMA PruneHolds ==
  ASSUME OperationsAssumption
  PROVE  OperationsSpec => [](part = "retention" => PruneInv)
<1> DEFINE Inv == part = "retention" => PruneInv
<1>1. OperationsInit => Inv
  <2>1. Prune!RetentionAssumption /\ Prune!Init => PruneInv
    BY DEF PruneInv, Prune!RetentionAssumption, Prune!Init, Prune!NoPrune, Prune!TypeOK, Prune!Times,
           LatestStays, OldGoes, FirstStays, Chosen
  <2>2. QED
    BY <2>1 DEF OperationsInit, OperationsAssumption
<1>2. Inv /\ [OperationsNext]_operations => Inv'
  <2> SUFFICES ASSUME Inv, [OperationsNext]_operations, part' = "retention" PROVE PruneInv'
    OBVIOUS
  <2>1. PruneInv /\ Prune!RetentionAssumption
    BY DEF OperationsNext, operations, OperationsAssumption
  <2>2. CASE Prune!Next
    BY <2>1, <2>2, PruneEndKeeps, PruneWriteKeeps, PruneBeginKeeps, PruneSelectKeeps DEF Prune!Next
  <2>3. CASE UNCHANGED prunes
    <3>1. UNCHANGED <<table, day, rows, written, prune, raced>> /\ Staying' = Staying /\ day \in Nat
      BY <2>1, <2>3, PruneNumbers DEF prunes, Staying, Chosen, PruneInv
    <3>2. LatestStays' /\ OldGoes' /\ FirstStays'
      BY <2>1, <3>1, PruneWaits
    <3>3. QED
      BY <2>1, <3>1, <3>2 DEF PruneInv, Prune!TypeOK, Chosen
  <2>4. QED
    BY <2>2, <2>3 DEF OperationsNext, operations
<1>3. QED
  BY <1>1, <1>2, PTL DEF OperationsSpec

\* However late observations come, and however prunes repeat and overlap, the
\* latest price of a series is there, unless it is one of those that came, late
\* by more than the fresh window, between the two readings of a prune.
THEOREM LatestAlwaysSurvives ==
  ASSUME OperationsAssumption
  PROVE  OperationsSpec => []LatestSurvives
<1>1. (part = "retention" => PruneInv) => LatestSurvives
  BY DEF PruneInv, LatestStays, LatestSurvives, Prune!LatestSurvives, Staying
<1>2. QED
  BY <1>1, PruneHolds, PTL

\* However late rows come, and however prunes repeat and overlap, what is fresh
\* is all there, and of a day or week that is wholly within the retention the
\* first row stays.
THEOREM HistoryAlwaysStays ==
  ASSUME OperationsAssumption
  PROVE  OperationsSpec => []HistoryStays
<1>1. Prune!RetentionAssumption /\ PruneInv => Prune!HistoryStays
  <2> SUFFICES ASSUME Prune!RetentionAssumption, PruneInv PROVE Prune!HistoryStays
    OBVIOUS
  <2> USE PruneNumbers DEF PruneInv
  <2> SUFFICES ASSUME NEW t \in written
               PROVE  CASE table = "app_log_events" -> day - t <= (IF Prune!Important(t) THEN KeepImportant ELSE Keep[table]) => t \in rows
                        [] table = "raw_snapshots" -> day - t <= Keep[table] => t \in rows
                        [] OTHER ->
                             /\ day - t <= Fresh => t \in rows
                             /\ (\A u \in written : Prune!Group(u, day) = Prune!Group(t, day) => day - u <= Keep[table])
                                  => \E u \in rows : Prune!Group(u, day) = Prune!Group(t, day)
    BY DEF Prune!HistoryStays
  <2>2. t \in Nat /\ (t \notin rows => t \in written \ Staying)
    BY DEF Staying
  <2>3. CASE table = "app_log_events"
    BY <2>2, <2>3 DEF OldGoes
  <2>4. CASE table = "raw_snapshots"
    BY <2>2, <2>4 DEF OldGoes
  <2>5. CASE table \in Thinnable
    <3>1. day - t <= Fresh => t \in rows
      BY <2>2, <2>5 DEF OldGoes, Thinnable
    <3>2. ASSUME \A u \in written : Prune!Group(u, day) = Prune!Group(t, day) => day - u <= Keep[table]
          PROVE  \E u \in rows : Prune!Group(u, day) = Prune!Group(t, day)
      <4> DEFINE group == {u \in written : Prune!Group(u, 0) = Prune!Group(t, 0)}
      <4>1. group \in SUBSET Nat /\ t \in group
        OBVIOUS
      <4>2. PICK first \in group : \A u \in group : first <= u
        BY <4>1, SmallestOf
      <4>3. /\ first \in written /\ Prune!Group(first, 0) = Prune!Group(t, 0)
            /\ \A u \in written : Prune!Group(u, 0) = Prune!Group(first, 0) => first <= u
        BY <4>2
      <4>4. Prune!Group(first, day) = Prune!Group(t, day)
        BY <4>3, GroupIsFixed
      <4>5. first \in Staying
        BY <2>5, <3>2, <4>3, <4>4 DEF FirstStays
      <4>6. QED
        BY <4>4, <4>5 DEF Staying
    <3>3. QED
      BY <2>5, <3>1, <3>2 DEF Thinnable
  <2>6. QED
    BY <2>3, <2>4, <2>5 DEF Prune!Tables, Thinnable
<1>2. (part = "retention" => PruneInv) => HistoryStays
  BY <1>1 DEF HistoryStays, OperationsAssumption, PruneInv
<1>3. QED
  BY <1>2, PruneHolds, PTL

-----------------------------------------------------------------------------
(***************************************************************************)
(* Ingestion                                                               *)
(***************************************************************************)

JobFields == {"open", "only_matched", "todo", "loaded", "added"}

\* ObservedOnce, of other observations and exceptions.
OnceEach(seen, but) ==
  \A o, p \in seen :
    /\ o # p
    /\ {o.candidate, p.candidate} \intersect but = {}
    => /\ o.candidate # p.candidate
       /\ <<o.card, o.price, o.day>> # <<p.card, p.price, p.day>>

\* An ingestion that is under way works on what it has loaded, and what it is
\* to commit repeats nothing that is there.
JobTyped(j) ==
  /\ job[j].loaded \in [Ingest!Batch -> Ingest!CandidateStates]
  /\ job[j].todo \subseteq Ingest!Batch
  /\ \A o \in job[j].added : o.candidate \in Ingest!Batch /\ o.card \in Cards /\ o.price \in Prices

JobsRepeatNothing ==
  \A j \in Jobs : job[j].open => OnceEach(observations \union job[j].added, overlapped)

\* Two ingestions at once have loaded the same candidates.
OverlapsAreKnown ==
  \A i, j \in Jobs : i # j /\ job[i].open /\ job[j].open => Ingest!Batch \subseteq overlapped

IngestInv ==
  /\ Ingest!TypeOK
  /\ job = [j \in Jobs |-> job[j]] /\ \A j \in Jobs : DOMAIN job[j] = JobFields
  /\ \A j \in Jobs : job[j].open => JobTyped(j)
  /\ OverlapsAreKnown /\ JobsRepeatNothing
  /\ OnceEach(observations, overlapped)

LEMMA BatchIsFixed == Ingest!Batch' = Ingest!Batch /\ Ingest!Batch \subseteq Ids
  BY DEF Ingest!Batch

\* More exceptions excuse more.
LEMMA OnceEachOfMore ==
  ASSUME NEW seen, NEW but, NEW more, but \subseteq more, OnceEach(seen, but)
  PROVE  OnceEach(seen, more)
  BY DEF OnceEach

\* What two sets of observations repeat, they repeat within one or between the
\* parts that they do not share.
LEMMA OnceEachOfBoth ==
  ASSUME NEW seen, NEW some, NEW others, NEW but,
         OnceEach(seen \union some, but), OnceEach(seen \union others, but),
         \A o \in some : o.candidate \in but
  PROVE  OnceEach((seen \union some) \union others, but)
  BY DEF OnceEach

LEMMA IngestEditKeeps ==
  ASSUME IngestInv, NEW c \in Ids, NEW new \in Ingest!CandidateStates, Ingest!Edit(c, new)
  PROVE  IngestInv'
<1>1. UNCHANGED <<observations, job, overlapped>> /\ candidate' = [candidate EXCEPT ![c] = new]
  BY DEF Ingest!Edit
<1>2. Ingest!TypeOK'
  BY <1>1 DEF IngestInv, Ingest!TypeOK, Ingest!CandidateStates
<1>3. QED
  BY <1>1, <1>2, BatchIsFixed DEF IngestInv, JobTyped, OverlapsAreKnown, JobsRepeatNothing, Ingest!CandidateStates

LEMMA IngestStartKeeps ==
  ASSUME IngestInv, NEW j \in Jobs, NEW only_matched \in BOOLEAN, Ingest!Start(j, only_matched)
  PROVE  IngestInv'
<1> USE DEF IngestInv
<1> DEFINE x == [open |-> TRUE, only_matched |-> only_matched, todo |-> Ingest!Batch,
                 loaded |-> [c \in Ingest!Batch |-> candidate[c]], added |-> {}]
<1>1. /\ ~job[j].open /\ job' = [job EXCEPT ![j] = x]
      /\ overlapped' = overlapped \union (Ingest!Batch \intersect Ingest!InWork)
      /\ UNCHANGED <<candidate, observations>>
  BY DEF Ingest!Start
<1>2. /\ x.open = TRUE /\ x.todo = Ingest!Batch /\ x.added = {} /\ DOMAIN x = JobFields
      /\ x.loaded \in [Ingest!Batch -> Ingest!CandidateStates]
  BY BatchIsFixed DEF JobFields, Ingest!TypeOK
<1> HIDE DEF x
<1>3. /\ job' = [i \in Jobs |-> job'[i]]
      /\ \A i \in Jobs : job'[i] = IF i = j THEN x ELSE job[i]
  BY <1>1
<1>4. Ingest!TypeOK'
  BY <1>1, <1>2, <1>3, BatchIsFixed DEF Ingest!TypeOK, Ingest!CandidateStates
<1>5. \A i \in Jobs : DOMAIN job'[i] = JobFields /\ (job'[i].open => JobTyped(i)')
  <2> SUFFICES ASSUME NEW i \in Jobs PROVE DOMAIN job'[i] = JobFields /\ (job'[i].open => JobTyped(i)')
    OBVIOUS
  <2>1. CASE i = j
    BY <1>2, <1>3, <2>1, BatchIsFixed DEF JobTyped, Ingest!CandidateStates
  <2>2. CASE i # j
    BY <1>3, <2>2, BatchIsFixed DEF JobTyped, Ingest!CandidateStates
  <2>3. QED
    BY <2>1, <2>2
<1>6. OverlapsAreKnown'
  <2>1. ASSUME NEW i \in Jobs, job[i].open PROVE Ingest!Batch \subseteq overlapped'
    <3>1. DOMAIN job[i].loaded = Ingest!Batch
      BY <2>1 DEF JobTyped
    <3>2. Ingest!Batch \subseteq Ingest!InWork
      BY <2>1, <3>1 DEF Ingest!InWork
    <3>3. QED
      BY <1>1, <3>2
  <2>2. QED
    BY <1>3, <2>1, BatchIsFixed DEF OverlapsAreKnown
<1>7. OnceEach(observations, overlapped') /\ overlapped \subseteq overlapped'
  BY <1>1, OnceEachOfMore
<1>8. JobsRepeatNothing'
  <2> SUFFICES ASSUME NEW i \in Jobs, job'[i].open PROVE OnceEach(observations \union job'[i].added, overlapped')
    BY <1>1 DEF JobsRepeatNothing
  <2>1. CASE i = j
    <3>1. observations \union job'[i].added = observations
      BY <1>2, <1>3, <2>1
    <3>2. QED
      BY <1>7, <3>1
  <2>2. CASE i # j
    <3>1. job'[i] = job[i]
      BY <1>3, <2>2
    <3>2. OnceEach(observations \union job[i].added, overlapped)
      BY <3>1 DEF JobsRepeatNothing
    <3>3. QED
      BY <1>7, <3>1, <3>2, OnceEachOfMore
  <2>3. QED
    BY <2>1, <2>2
<1>9. QED
  BY <1>1, <1>3, <1>4, <1>5, <1>6, <1>7, <1>8

LEMMA IngestTakeKeeps ==
  ASSUME Ingest!IngestionAssumption, IngestInv, NEW j \in Jobs, Ingest!Take(j)
  PROVE  IngestInv'
<1> USE DEF IngestInv
<1> DEFINE c == CHOOSE d \in job[j].todo : \A e \in job[j].todo : d <= e
           r == job[j].loaded[c]
           seen == observations \union job[j].added
           new == [by |-> j, after |-> Ingest!Cardinality(seen),
                   candidate |-> c, card |-> r.card, price |-> r.price, day |-> DayOf[c]]
           adds == Ingest!Eligible(r, job[j].only_matched) /\ ~Ingest!Duplicate(c, r, seen)
           added == IF adds THEN job[j].added \union {new} ELSE job[j].added
<1>1. /\ job[j].open /\ job[j].todo # {}
      /\ job' = [job EXCEPT ![j].todo = @ \ {c}, ![j].added = IF adds THEN @ \union {new} ELSE @]
      /\ UNCHANGED <<candidate, observations, overlapped>>
  BY DEF Ingest!Take
<1>2. c \in job[j].todo
  <2>1. job[j].todo \in SUBSET Nat
    BY <1>1, BatchIsFixed DEF JobTyped, Ingest!IngestionAssumption
  <2>2. \E d \in job[j].todo : \A e \in job[j].todo : d <= e
    BY <1>1, <2>1, SmallestOf
  <2>3. QED
    BY <2>2
<1> HIDE DEF c
<1>3. c \in Ingest!Batch /\ c \in Ids /\ r \in Ingest!CandidateStates
  BY <1>1, <1>2, BatchIsFixed DEF JobTyped
<1>4. /\ new.candidate = c /\ new.card = r.card /\ new.price = r.price /\ new.day = DayOf[c]
      /\ adds => new.card \in Cards /\ new.price \in Prices
  BY <1>3 DEF Ingest!CandidateStates, Ingest!Eligible
<1>5. adds => \A o \in seen : /\ o.candidate # c
                              /\ <<o.card, o.price, o.day>> # <<r.card, r.price, DayOf[c]>>
  BY DEF Ingest!Duplicate
<1>6. OnceEach(observations \union added, overlapped)
  <2>1. OnceEach(seen, overlapped)
    BY <1>1 DEF JobsRepeatNothing
  <2> HIDE DEF new
  <2>2. CASE adds
    <3>1. observations \union added = seen \union {new}
      BY <2>2
    <3>2. QED
      BY <1>4, <1>5, <2>1, <2>2, <3>1 DEF OnceEach
  <2>3. CASE ~adds
    BY <2>1, <2>3
  <2>4. QED
    BY <2>2, <2>3
<1>7. \A o \in added : o.candidate \in Ingest!Batch /\ o.card \in Cards /\ o.price \in Prices
  <2> HIDE DEF new
  <2>1. QED
    BY <1>1, <1>3, <1>4 DEF JobTyped
<1>a. job'[j].added = added
  <2> HIDE DEF new, adds
  <2>1. QED
    BY <1>1 DEF JobFields
<1> HIDE DEF added
<1>8. /\ job' = [i \in Jobs |-> job'[i]]
      /\ \A i \in Jobs \ {j} : job'[i] = job[i]
      /\ job'[j].open = job[j].open /\ job'[j].loaded = job[j].loaded
      /\ job'[j].todo \subseteq job[j].todo /\ job'[j].added = added
      /\ DOMAIN job'[j] = JobFields
  BY <1>1, <1>a DEF JobFields
<1>9. Ingest!TypeOK'
  BY <1>1, <1>8 DEF Ingest!TypeOK, Ingest!CandidateStates
<1>10. \A i \in Jobs : DOMAIN job'[i] = JobFields /\ (job'[i].open => JobTyped(i)')
  <2> SUFFICES ASSUME NEW i \in Jobs PROVE DOMAIN job'[i] = JobFields /\ (job'[i].open => JobTyped(i)')
    OBVIOUS
  <2>1. CASE i = j
    BY <1>1, <1>7, <1>8, <2>1, BatchIsFixed DEF JobTyped, Ingest!CandidateStates
  <2>2. CASE i # j
    BY <1>8, <2>2, BatchIsFixed DEF JobTyped, Ingest!CandidateStates
  <2>3. QED
    BY <2>1, <2>2
<1>11. OverlapsAreKnown'
  BY <1>1, <1>8, BatchIsFixed DEF OverlapsAreKnown
<1>12. JobsRepeatNothing'
  BY <1>1, <1>6, <1>8 DEF JobsRepeatNothing
<1>13. QED
  BY <1>1, <1>8, <1>9, <1>10, <1>11, <1>12

LEMMA IngestFinishKeeps ==
  ASSUME IngestInv, NEW j \in Jobs, NEW commits \in BOOLEAN, Ingest!Finish(j, commits)
  PROVE  IngestInv'
<1> USE DEF IngestInv
<1>1. /\ job[j].open /\ job' = [job EXCEPT ![j] = Ingest!NoJob]
      /\ observations' = IF commits THEN observations \union job[j].added ELSE observations
      /\ UNCHANGED <<candidate, overlapped>>
  BY DEF Ingest!Finish
<1>2. Ingest!NoJob.open = FALSE /\ Ingest!NoJob.todo = {} /\ DOMAIN Ingest!NoJob = JobFields
  BY DEF Ingest!NoJob, JobFields
<1>3. /\ job' = [i \in Jobs |-> job'[i]]
      /\ \A i \in Jobs : job'[i] = IF i = j THEN Ingest!NoJob ELSE job[i]
  BY <1>1
<1>4. \A o \in job[j].added : o.candidate \in Ids /\ o.card \in Cards /\ o.price \in Prices
  BY <1>1, BatchIsFixed DEF JobTyped
<1>5. Ingest!TypeOK'
  BY <1>1, <1>2, <1>3, <1>4 DEF Ingest!TypeOK, Ingest!CandidateStates
<1>6. \A i \in Jobs : DOMAIN job'[i] = JobFields /\ (job'[i].open => i # j /\ JobTyped(i)')
  BY <1>2, <1>3, BatchIsFixed DEF JobTyped, Ingest!CandidateStates
<1>7. OverlapsAreKnown'
  BY <1>1, <1>2, <1>3, BatchIsFixed DEF OverlapsAreKnown
<1>8. OnceEach(observations', overlapped)
  BY <1>1 DEF JobsRepeatNothing
<1>9. JobsRepeatNothing'
  <2> SUFFICES ASSUME NEW i \in Jobs, i # j, job[i].open
               PROVE  OnceEach(observations' \union job[i].added, overlapped)
    BY <1>1, <1>3, <1>6 DEF JobsRepeatNothing
  <2>1. OnceEach(observations \union job[i].added, overlapped) /\ OnceEach(observations \union job[j].added, overlapped)
    BY <1>1 DEF JobsRepeatNothing
  <2>2. \A o \in job[j].added : o.candidate \in overlapped
    BY <1>1 DEF JobTyped, OverlapsAreKnown
  <2>3. OnceEach((observations \union job[j].added) \union job[i].added, overlapped)
    BY <2>1, <2>2, OnceEachOfBoth
  <2>4. QED
    BY <1>1, <2>1, <2>3
<1>10. QED
  BY <1>1, <1>3, <1>5, <1>6, <1>7, <1>8, <1>9

\* No candidate and no price of a day is observed twice, unless two ingestions
\* had the candidate in their hands at once: what an ingestion has added
\* repeats nothing of the table or of its own, and nothing joins the table
\* meanwhile but what an overlapping ingestion adds.
THEOREM ObservedOnceAlways ==
  ASSUME OperationsAssumption
  PROVE  OperationsSpec => []ObservedOnce
<1> DEFINE Inv == part = "ingestion" => IngestInv
<1>1. OperationsInit => Inv
  <2>1. Ingest!Init => IngestInv
    <3> SUFFICES ASSUME Ingest!Init PROVE IngestInv
      OBVIOUS
    <3>1. /\ Ingest!NoJob.open = FALSE /\ Ingest!NoJob.todo = {} /\ DOMAIN Ingest!NoJob = JobFields
      BY DEF Ingest!NoJob, JobFields
    <3>2. \A j \in Jobs : job[j] = Ingest!NoJob
      BY DEF Ingest!Init
    <3>3. QED
      BY <3>1, <3>2 DEF Ingest!Init, IngestInv, Ingest!TypeOK, OverlapsAreKnown, JobsRepeatNothing, OnceEach
  <2>2. QED
    BY <2>1 DEF OperationsInit
<1>2. Inv /\ [OperationsNext]_operations => Inv'
  <2> SUFFICES ASSUME Inv, [OperationsNext]_operations, part' = "ingestion" PROVE IngestInv'
    OBVIOUS
  <2>1. IngestInv /\ Ingest!IngestionAssumption
    BY DEF OperationsNext, operations, OperationsAssumption
  <2>2. CASE Ingest!Next
    BY <2>1, <2>2, IngestEditKeeps, IngestStartKeeps, IngestTakeKeeps, IngestFinishKeeps DEF Ingest!Next
  <2>3. CASE UNCHANGED ingestions
    BY <2>1, <2>3, BatchIsFixed
    DEF ingestions, IngestInv, Ingest!TypeOK, Ingest!CandidateStates, JobTyped, OverlapsAreKnown, JobsRepeatNothing
  <2>4. QED
    BY <2>2, <2>3 DEF OperationsNext, operations
<1>3. Inv => ObservedOnce
  BY DEF ObservedOnce, IngestInv, OnceEach, Ingest!ObservedOnce
<1>4. QED
  BY <1>1, <1>2, <1>3, PTL DEF OperationsSpec

-----------------------------------------------------------------------------
(***************************************************************************)
(* Alerts                                                                  *)
(***************************************************************************)

CheckFields == {"open", "dry", "at", "rules", "stage", "todo", "rows", "alone"}

CheckTyped(c) ==
  /\ DOMAIN check[c] = CheckFields
  /\ check[c].open \in BOOLEAN /\ check[c].alone \in BOOLEAN /\ check[c].at \in 0..AlertTime
  /\ \A key \in check[c].todo : key[1] \in Rules
  /\ \A e \in check[c].rows :
       /\ e.key[1] \in Rules /\ e.at \in 0..AlertTime /\ e.status \in Alert!Statuses
       /\ ~check[c].dry => e.status # "pending"

ChecksTyped ==
  /\ check = [c \in Checks |-> check[c]] /\ \A c \in Checks : CheckTyped(c)
  /\ \A t \in told : t.at \in 0..AlertTime

\* A check that takes itself to be alone is.
AloneIsAlone ==
  \A c, d \in Checks : c # d /\ check[c].open /\ check[d].open => ~check[c].alone

\* A message that was delivered is on record, in the table or with the check
\* that is to commit it.
ToldIsRecorded ==
  \A t \in told :
    \/ t.key \in lost
    \/ \E e \in events : e.key = t.key /\ e.at = t.at
    \/ \E c \in Checks : /\ check[c].open /\ ~check[c].dry
                         /\ \E e \in check[c].rows : e.key = t.key /\ e.at = t.at

\* Of the failed runs that a lone check has to tell of nothing is on record.
FailuresAreNews ==
  \A c \in Checks : check[c].open /\ check[c].alone =>
    \A key \in check[c].todo : key[1].type = "refresh_failed" =>
      \A e \in events \union check[c].rows : e.key # key

AlertsInv ==
  Alert!TypeOK /\ ChecksTyped /\ AloneIsAlone /\ ToldIsRecorded /\ FailuresAreNews /\ Alert!NoRepeat

LEMMA IdleCheck ==
  ASSUME Alert!AlertsAssumption
  PROVE  /\ Alert!Idle.open = FALSE /\ Alert!Idle.at \in 0..AlertTime /\ Alert!Idle.alone = TRUE
         /\ Alert!Idle.stage \in 0..Len(Alert!Stages) /\ Alert!Idle.rules = {}
         /\ Alert!Idle.todo = {} /\ Alert!Idle.rows = {} /\ DOMAIN Alert!Idle = CheckFields
  BY DEF Alert!Idle, CheckFields, Alert!Stages, Alert!AlertsAssumption

LEMMA AlertsBegin ==
  ASSUME Alert!AlertsAssumption, AlertsInv, NEW c \in Checks, NEW dry \in BOOLEAN, Alert!Begin(c, dry)
  PROVE  AlertsInv'
<1> USE DEF AlertsInv
<1>1. /\ ~check[c].open /\ UNCHANGED <<active, market, now, events, told, lost>>
      /\ check' = [d \in Checks |-> check'[d]]
      /\ check'[c] = [Alert!Idle EXCEPT !.open = TRUE, !.dry = dry, !.at = now, !.rules = active,
                                        !.alone = Alert!Open = {}]
      /\ \A d \in Checks \ {c} : check'[d] = [check[d] EXCEPT !.alone = @ /\ ~check[d].open]
  BY DEF Alert!Begin
<1>2. /\ DOMAIN check'[c] = CheckFields /\ check'[c].open = TRUE /\ check'[c].at = now
      /\ check'[c].rules = active /\ check'[c].alone = (Alert!Open = {})
      /\ check'[c].stage = Alert!Idle.stage /\ check'[c].todo = {} /\ check'[c].rows = {}
  BY <1>1, IdleCheck DEF CheckFields
<1>3. \A d \in Checks \ {c} :
        /\ DOMAIN check'[d] = CheckFields /\ check'[d].open = check[d].open /\ check'[d].dry = check[d].dry
        /\ check'[d].at = check[d].at /\ check'[d].rules = check[d].rules
        /\ check'[d].alone = (check[d].alone /\ ~check[d].open)
        /\ check'[d].stage = check[d].stage /\ check'[d].todo = check[d].todo /\ check'[d].rows = check[d].rows
  BY <1>1 DEF ChecksTyped, CheckTyped, CheckFields
<1>4. Alert!TypeOK'
  BY <1>1, <1>2, <1>3, IdleCheck DEF Alert!TypeOK
<1>5. ChecksTyped'
  <2>1. CheckTyped(c)'
    BY <1>2 DEF CheckTyped, Alert!TypeOK
  <2>2. \A d \in Checks \ {c} : CheckTyped(d)'
    BY <1>3 DEF CheckTyped, ChecksTyped
  <2>3. QED
    BY <1>1, <2>1, <2>2 DEF ChecksTyped
<1>6. AloneIsAlone'
  <2> SUFFICES ASSUME NEW d \in Checks, NEW e \in Checks, d # e, check'[d].open, check'[e].open
               PROVE  ~check'[d].alone
    BY DEF AloneIsAlone
  <2>1. CASE d = c
    <3>1. e \in Alert!Open
      BY <1>3, <2>1 DEF Alert!Open
    <3>2. QED
      BY <1>2, <2>1, <3>1
  <2>2. CASE d # c
    BY <1>3, <2>2
  <2>3. QED
    BY <2>1, <2>2
<1>7. ToldIsRecorded'
  BY <1>1, <1>3 DEF ToldIsRecorded
<1>8. FailuresAreNews'
  BY <1>2, <1>3 DEF FailuresAreNews
<1>9. Alert!NoRepeat'
  BY <1>1 DEF Alert!NoRepeat
<1>10. QED
  BY <1>4, <1>5, <1>6, <1>7, <1>8, <1>9

LEMMA AlertsExamine ==
  ASSUME Alert!AlertsAssumption, AlertsInv, NEW c \in Checks, Alert!Examine(c)
  PROVE  AlertsInv'
<1> USE DEF AlertsInv
<1> DEFINE Due(stage) == UNION {{<<r, about>> : about \in Alert!Fires(r, events \union check[c].rows)}
                                : r \in {q \in check[c].rules : q.type = Alert!Stages[stage]}}
<1>1. PICK stage \in Alert!Ahead(c) :
        /\ check' = [check EXCEPT ![c].stage = stage, ![c].todo = Due(stage)]
        /\ UNCHANGED <<active, market, now, calls, events, told, lost>>
  BY DEF Alert!Examine
<1>2. PICK due : due = Due(stage)
  OBVIOUS
<1>3. stage \in 0..Len(Alert!Stages)
  BY DEF Alert!Ahead, Alert!Stages
<1>4. ASSUME NEW key \in due
      PROVE  /\ key[1] \in check[c].rules
             /\ key[1].type = "refresh_failed" => \A e \in events \union check[c].rows : e.key # key
  <2>1. PICK r \in check[c].rules : \E about \in Alert!Fires(r, events \union check[c].rows) : key = <<r, about>>
    BY <1>2
  <2>2. PICK about \in Alert!Fires(r, events \union check[c].rows) : key = <<r, about>>
    BY <2>1
  <2>3. key[1] = r /\ key[2] = about
    BY <2>2
  <2>4. ASSUME r.type = "refresh_failed", NEW e \in events \union check[c].rows, e.key = key
        PROVE  FALSE
    <3>1. about \in Alert!Unalerted(events \union check[c].rows)
      BY <2>2, <2>4 DEF Alert!Fires
    <3>2. e.key[1].type = "refresh_failed" /\ e.key[2] = about
      BY <2>3, <2>4
    <3>3. QED
      BY <2>4, <3>1, <3>2 DEF Alert!Unalerted
  <2>5. QED
    BY <2>3, <2>4
<1> HIDE DEF Due
<1>5. check' = [check EXCEPT ![c].stage = stage, ![c].todo = due]
  BY <1>1, <1>2
<1>6. /\ check' = [d \in Checks |-> check'[d]]
      /\ \A d \in Checks \ {c} : check'[d] = check[d]
      /\ DOMAIN check'[c] = CheckFields /\ check'[c].open = check[c].open /\ check'[c].dry = check[c].dry
      /\ check'[c].at = check[c].at /\ check'[c].rules = check[c].rules /\ check'[c].alone = check[c].alone
      /\ check'[c].stage = stage /\ check'[c].todo = due /\ check'[c].rows = check[c].rows
  BY <1>5 DEF ChecksTyped, CheckTyped, CheckFields
<1>7. Alert!TypeOK'
  BY <1>1, <1>3, <1>6 DEF Alert!TypeOK
<1>8. ChecksTyped'
  <2>1. CheckTyped(c)'
    BY <1>4, <1>6 DEF CheckTyped, ChecksTyped, Alert!TypeOK
  <2>2. \A d \in Checks \ {c} : CheckTyped(d)'
    BY <1>6 DEF CheckTyped, ChecksTyped
  <2>3. QED
    BY <1>1, <1>6, <2>1, <2>2 DEF ChecksTyped
<1>9. AloneIsAlone'
  BY <1>6 DEF AloneIsAlone
<1>10. ToldIsRecorded'
  <2>1. \A d \in Checks : check'[d].open = check[d].open /\ check'[d].dry = check[d].dry /\ check'[d].rows = check[d].rows
    BY <1>6
  <2> SUFFICES ASSUME NEW t \in told, t.key \notin lost, ~ \E e \in events : e.key = t.key /\ e.at = t.at
               PROVE  \E d \in Checks : /\ check'[d].open /\ ~check'[d].dry
                                        /\ \E e \in check'[d].rows : e.key = t.key /\ e.at = t.at
    BY <1>1 DEF ToldIsRecorded
  <2>2. PICK d \in Checks : /\ check[d].open /\ ~check[d].dry
                            /\ \E e \in check[d].rows : e.key = t.key /\ e.at = t.at
    BY DEF ToldIsRecorded
  <2>3. QED
    BY <2>1, <2>2
<1>11. FailuresAreNews'
  <2>1. ASSUME NEW d \in Checks, check'[d].open, check'[d].alone, NEW key \in check'[d].todo,
               key[1].type = "refresh_failed", NEW e \in events \union check'[d].rows
        PROVE  e.key # key
    <3>1. CASE d = c
      BY <1>4, <1>6, <2>1, <3>1
    <3>2. CASE d # c
      BY <1>6, <2>1, <3>2 DEF FailuresAreNews
    <3>3. QED
      BY <3>1, <3>2
  <2>2. QED
    BY <1>1, <2>1 DEF FailuresAreNews
<1>12. Alert!NoRepeat'
  BY <1>1 DEF Alert!NoRepeat
<1>13. QED
  BY <1>7, <1>8, <1>9, <1>10, <1>11, <1>12

\* A lone check sends nothing that was told within the window before it, and
\* of a failed run nothing that ever was.
LEMMA SendsAreNew ==
  ASSUME Alert!AlertsAssumption, AlertsInv, NEW c \in Checks, NEW t \in told,
         check[c].open, check[c].alone, ~Alert!Recent(c, t.key), t.key \in check[c].todo, t.key \notin lost
  PROVE  t.at < check[c].at - DedupeWindow /\ t.key[1].type # "refresh_failed"
<1> USE DEF AlertsInv
<1>1. PICK e \in events \union check[c].rows : e.key = t.key /\ e.at = t.at
  BY DEF ToldIsRecorded, AloneIsAlone
<1>2. ~(e.at >= check[c].at - DedupeWindow)
  BY <1>1 DEF Alert!Recent
<1>3. e.at \in Int /\ check[c].at \in Int /\ DedupeWindow \in Int
  BY <1>1 DEF ChecksTyped, CheckTyped, Alert!AlertsAssumption
<1>4. t.key[1].type # "refresh_failed"
  BY <1>1 DEF FailuresAreNews
<1>5. QED
  BY <1>1, <1>2, <1>3, <1>4

LEMMA AlertsRecord ==
  ASSUME Alert!AlertsAssumption, AlertsInv, NEW c \in Checks, NEW key \in check[c].todo,
         NEW raised \in BOOLEAN, NEW arrived \in BOOLEAN, Alert!Record(c, key, raised, arrived)
  PROVE  AlertsInv'
<1> USE DEF AlertsInv
<1> DEFINE status == IF Alert!Recent(c, key) THEN "skipped_duplicate"
                     ELSE IF check[c].dry THEN "pending" ELSE IF raised THEN "failed" ELSE "sent"
           new == [key |-> key, at |-> check[c].at, status |-> status]
           message == [key |-> key, at |-> check[c].at, nth |-> Alert!Cardinality(told)]
<1>1. /\ check[c].open /\ UNCHANGED <<active, market, now, calls, events>>
      /\ arrived => ~Alert!Recent(c, key) /\ ~check[c].dry
      /\ told' = IF arrived THEN told \union {message} ELSE told
      /\ lost' = IF arrived /\ ~check[c].alone THEN lost \union {key} ELSE lost
  BY DEF Alert!Record
<1>2. check' = [check EXCEPT ![c].todo = @ \ {key}, ![c].rows = @ \union {new}]
  BY DEF Alert!Record
<1>3. /\ new.key = key /\ new.at = check[c].at /\ new.status \in Alert!Statuses
      /\ ~check[c].dry => new.status # "pending"
  BY DEF Alert!Statuses
<1>4. message.key = key /\ message.at = check[c].at
  OBVIOUS
<1> HIDE DEF new, message
<1>5. /\ check' = [d \in Checks |-> check'[d]]
      /\ \A d \in Checks \ {c} : check'[d] = check[d]
      /\ DOMAIN check'[c] = CheckFields /\ check'[c].open = check[c].open /\ check'[c].dry = check[c].dry
      /\ check'[c].at = check[c].at /\ check'[c].rules = check[c].rules /\ check'[c].alone = check[c].alone
      /\ check'[c].stage = check[c].stage /\ check'[c].todo = check[c].todo \ {key}
      /\ check'[c].rows = check[c].rows \union {new}
  BY <1>2 DEF ChecksTyped, CheckTyped, CheckFields
<1>6. Alert!TypeOK'
  BY <1>1, <1>5 DEF Alert!TypeOK
<1>7. ChecksTyped'
  <2>1. CheckTyped(c)'
    BY <1>3, <1>5 DEF CheckTyped, ChecksTyped
  <2>2. \A d \in Checks \ {c} : CheckTyped(d)'
    BY <1>5 DEF CheckTyped, ChecksTyped
  <2>3. \A t \in told' : t.at \in 0..AlertTime
    BY <1>1, <1>4 DEF ChecksTyped, CheckTyped
  <2>4. QED
    BY <1>5, <2>1, <2>2, <2>3 DEF ChecksTyped
<1>8. AloneIsAlone'
  BY <1>5 DEF AloneIsAlone
<1>9. ToldIsRecorded'
  <2> SUFFICES ASSUME NEW t \in told', t.key \notin lost', ~ \E e \in events : e.key = t.key /\ e.at = t.at
               PROVE  \E d \in Checks : /\ check'[d].open /\ ~check'[d].dry
                                        /\ \E e \in check'[d].rows : e.key = t.key /\ e.at = t.at
    BY <1>1 DEF ToldIsRecorded
  <2>1. CASE t \in told
    <3>1. PICK d \in Checks : /\ check[d].open /\ ~check[d].dry
                              /\ \E e \in check[d].rows : e.key = t.key /\ e.at = t.at
      BY <1>1, <2>1 DEF ToldIsRecorded
    <3>2. check'[d].open /\ ~check'[d].dry /\ check[d].rows \subseteq check'[d].rows
      BY <1>5, <3>1
    <3>3. QED
      BY <3>1, <3>2
  <2>2. CASE t \notin told
    <3>1. arrived /\ t = message
      BY <1>1, <2>2
    <3>2. new \in check'[c].rows /\ check'[c].open /\ ~check'[c].dry
      BY <1>1, <1>5, <3>1
    <3>3. QED
      BY <1>3, <1>4, <3>1, <3>2
  <2>3. QED
    BY <2>1, <2>2
<1>10. FailuresAreNews'
  BY <1>1, <1>3, <1>5 DEF FailuresAreNews
<1>11. ASSUME NEW t \in told, arrived, t.key = key, key \notin lost'
       PROVE  t.at < check[c].at - DedupeWindow /\ key[1].type # "refresh_failed"
  BY <1>1, <1>11, SendsAreNew
<1>12. Alert!NoRepeat'
  <2> SUFFICES ASSUME NEW s \in told', NEW t \in told', s # t, s.key = t.key, s.key \notin lost'
               PROVE  s.at - t.at \notin -DedupeWindow..DedupeWindow /\ s.key[1].type # "refresh_failed"
    BY DEF Alert!NoRepeat
  <2>1. check[c].at \in Int /\ DedupeWindow \in Nat /\ \A u \in told : u.at \in Int
    BY DEF ChecksTyped, CheckTyped, Alert!AlertsAssumption
  <2>2. CASE s \in told /\ t \in told
    BY <1>1, <2>2 DEF Alert!NoRepeat
  <2>3. CASE s \notin told
    <3>1. arrived /\ s = message /\ t \in told
      BY <1>1, <2>3
    <3>2. t.at < check[c].at - DedupeWindow /\ key[1].type # "refresh_failed"
      BY <1>4, <1>11, <3>1
    <3>3. QED
      BY <1>4, <2>1, <3>1, <3>2
  <2>4. CASE t \notin told
    <3>1. arrived /\ t = message /\ s \in told
      BY <1>1, <2>4
    <3>2. s.at < check[c].at - DedupeWindow /\ key[1].type # "refresh_failed"
      BY <1>4, <1>11, <3>1
    <3>3. QED
      BY <1>4, <2>1, <3>1, <3>2
  <2>5. QED
    BY <2>2, <2>3, <2>4
<1>13. QED
  BY <1>6, <1>7, <1>8, <1>9, <1>10, <1>12

LEMMA AlertsEnd ==
  ASSUME Alert!AlertsAssumption, AlertsInv, NEW c \in Checks, Alert!Finish(c) \/ Alert!Crash(c)
  PROVE  AlertsInv'
<1> USE DEF AlertsInv
<1>1. /\ check[c].open /\ check' = [check EXCEPT ![c] = Alert!Idle] /\ lost \subseteq lost'
      /\ UNCHANGED <<active, market, now, told>> /\ events \subseteq events'
      /\ events' \subseteq events \union check[c].rows
      /\ check[c].dry => events' = events
      /\ ~check[c].dry => \/ check[c].rows \subseteq events'
                          \/ {e.key : e \in check[c].rows} \subseteq lost'
  BY DEF Alert!Finish, Alert!Crash
<1>2. /\ check' = [d \in Checks |-> check'[d]]
      /\ \A d \in Checks : check'[d] = IF d = c THEN Alert!Idle ELSE check[d]
  BY <1>1 DEF ChecksTyped
<1>3. ChecksTyped'
  BY <1>1, <1>2, IdleCheck DEF ChecksTyped, CheckTyped
<1>4. Alert!TypeOK'
  BY <1>1, <1>2, IdleCheck DEF Alert!TypeOK, ChecksTyped, CheckTyped
<1>5. AloneIsAlone'
  BY <1>2, IdleCheck DEF AloneIsAlone
<1>6. ToldIsRecorded'
  <2> SUFFICES ASSUME NEW t \in told, t.key \notin lost', ~ \E e \in events' : e.key = t.key /\ e.at = t.at
               PROVE  \E d \in Checks : /\ check'[d].open /\ ~check'[d].dry
                                        /\ \E e \in check'[d].rows : e.key = t.key /\ e.at = t.at
    BY <1>1 DEF ToldIsRecorded
  <2>1. PICK d \in Checks : /\ check[d].open /\ ~check[d].dry
                            /\ \E e \in check[d].rows : e.key = t.key /\ e.at = t.at
    BY <1>1 DEF ToldIsRecorded
  <2>2. d # c
    BY <1>1, <2>1
  <2>3. QED
    BY <1>2, <2>1, <2>2
<1>7. FailuresAreNews'
  BY <1>1, <1>2, IdleCheck DEF FailuresAreNews, AloneIsAlone
<1>8. Alert!NoRepeat'
  BY <1>1 DEF Alert!NoRepeat
<1>9. QED
  BY <1>3, <1>4, <1>5, <1>6, <1>7, <1>8

\* Nobody is told the same twice within the window, nor of a failed run ever,
\* but for the exceptions that Alerts names: what was delivered is on record
\* where the next lone check looks.
THEOREM NothingRepeated ==
  ASSUME OperationsAssumption
  PROVE  OperationsSpec => []NoRepeat
<1> DEFINE Inv == part = "alerts" => AlertsInv
<1>1. OperationsInit => Inv
  <2>1. Alert!AlertsAssumption /\ Alert!Init => AlertsInv
    <3> SUFFICES ASSUME Alert!AlertsAssumption, Alert!Init PROVE AlertsInv
      OBVIOUS
    <3>1. \A c \in Checks : check[c] = Alert!Idle
      BY DEF Alert!Init
    <3>2. Alert!TypeOK
      <4>1. active \subseteq Rules /\ market \in Markets /\ now \in 0..AlertTime /\ events = {}
        BY DEF Alert!Init, Alert!AlertsAssumption
      <4>2. QED
        BY <3>1, <4>1, IdleCheck DEF Alert!TypeOK
    <3>3. ChecksTyped /\ AloneIsAlone /\ ToldIsRecorded /\ FailuresAreNews /\ Alert!NoRepeat
      BY <3>1, IdleCheck DEF Alert!Init, ChecksTyped, CheckTyped, AloneIsAlone, ToldIsRecorded,
         FailuresAreNews, Alert!NoRepeat
    <3>4. QED
      BY <3>2, <3>3 DEF AlertsInv
  <2>2. QED
    BY <2>1 DEF OperationsInit, OperationsAssumption
<1>2. Inv /\ [OperationsNext]_operations => Inv'
  <2> SUFFICES ASSUME Inv, [OperationsNext]_operations, part' = "alerts" PROVE AlertsInv'
    OBVIOUS
  <2>1. AlertsInv /\ Alert!AlertsAssumption
    BY DEF OperationsNext, operations, OperationsAssumption
  <2>2. ASSUME active' \subseteq Rules, market' \in Markets, now' \in 0..AlertTime,
               UNCHANGED <<events, check, told, lost>>
        PROVE  AlertsInv'
    BY <2>1, <2>2 DEF AlertsInv, Alert!TypeOK, ChecksTyped, CheckTyped, AloneIsAlone, ToldIsRecorded,
       FailuresAreNews, Alert!NoRepeat
  <2>3. CASE Alert!Tick \/ Alert!Change
    BY <2>1, <2>2, <2>3 DEF Alert!Tick, Alert!Change, AlertsInv, Alert!TypeOK, Alert!AlertsAssumption
  <2>4. CASE UNCHANGED alerts
    BY <2>1, <2>2, <2>4 DEF alerts, AlertsInv, Alert!TypeOK
  <2>5. CASE Alert!Next
    BY <2>1, <2>3, <2>5, AlertsBegin, AlertsExamine, AlertsRecord, AlertsEnd DEF Alert!Next
  <2>6. QED
    BY <2>4, <2>5 DEF OperationsNext, operations
<1>3. Inv => NoRepeat
  BY DEF NoRepeat, AlertsInv
<1>4. QED
  BY <1>1, <1>2, <1>3, PTL DEF OperationsSpec

-----------------------------------------------------------------------------
(***************************************************************************)
(* The rate limit                                                          *)
(***************************************************************************)

LEMMA DivBounds ==
  ASSUME NEW n \in Nat, NEW w \in Nat \ {0}
  PROVE  n \div w \in Nat /\ n \div w <= n /\ (n \div w) * w <= n /\ n < (n \div w) * w + w
  OBVIOUS

LEMMA TimesGrows ==
  ASSUME NEW a \in Nat, NEW b \in Nat, NEW w \in Nat, a <= b
  PROVE  a * w <= b * w
  OBVIOUS

\* Windows follow each other.
LEMMA DivGrows ==
  ASSUME NEW m \in Nat, NEW n \in Nat, m <= n, NEW w \in Nat \ {0}
  PROVE  m \div w <= n \div w
<1>1. PICK p \in Nat : p = m \div w
  BY DivBounds
<1>2. PICK q \in Nat : q = n \div w
  BY DivBounds
<1>3. p * w <= m /\ n < q * w + w /\ p * w \in Nat /\ q * w \in Nat
  BY <1>1, <1>2, DivBounds
<1>4. SUFFICES ASSUME q + 1 <= p PROVE FALSE
  BY <1>1, <1>2
<1>5. (q + 1) * w <= p * w /\ (q + 1) * w = q * w + w
  BY <1>4, TimesGrows
<1>6. QED
  BY <1>3, <1>5

\* A span as long as a window lies in two of them at most.
LEMMA DivSpans ==
  ASSUME NEW t \in Nat, NEW u \in Nat, NEW w \in Nat \ {0}, t <= u, u < t + w
  PROVE  u \div w \in {t \div w, t \div w + 1}
<1>1. PICK p \in Nat : p = t \div w
  BY DivBounds
<1>2. PICK q \in Nat : q = u \div w
  BY DivBounds
<1>3. t < p * w + w /\ q * w <= u /\ p * w \in Nat /\ q * w \in Nat
  BY <1>1, <1>2, DivBounds
<1>4. p <= q
  BY <1>1, <1>2, DivGrows
<1>5. ASSUME p + 2 <= q PROVE FALSE
  <2>1. (p + 2) * w <= q * w /\ (p + 2) * w = p * w + w + w
    BY <1>5, TimesGrows
  <2>2. QED
    BY <1>3, <2>1
<1>6. QED
  BY <1>1, <1>2, <1>4, <1>5

\* RateLimit counts as FiniteSets does.
LEMMA SameCardinality ==
  ASSUME NEW S
  PROVE  Throttle!Cardinality(S) = Cardinality(S)
  BY Zenon DEF Throttle!Cardinality, Cardinality

\* The requests of a key, in windows of w ticks: those of window i.
AnsweredIn(s, w, i) == {n \in DOMAIN s : s[n].at \div w = i}
ThroughIn(s, w, i) == {n \in AnsweredIn(s, w, i) : s[n].through}

Answer == [at : 0..LimitTime, through : BOOLEAN, logged : BOOLEAN]
Counters == [window : 0..(LimitTime + 1), count : Nat]

\* A count of window i says what was let through and turned away in it.
Counts(s, w, i, limit, count) ==
  /\ count <= limit => Cardinality(ThroughIn(s, w, i)) = count /\ ThroughIn(s, w, i) = AnsweredIn(s, w, i)
  /\ count > limit => Cardinality(ThroughIn(s, w, i)) = limit

IsFull(s, w, i, limit) ==
  /\ Cardinality(ThroughIn(s, w, i)) <= limit
  /\ ThroughIn(s, w, i) # AnsweredIn(s, w, i) => Cardinality(ThroughIn(s, w, i)) = limit

\* The answers s that a key has had by time t, its counter and its last window
\* in the log.
CounterCounts(s, counter, t, w, limit) ==
  /\ counter.window = t \div w => Counts(s, w, t \div w, limit, counter.count)
  /\ counter.window # t \div w => AnsweredIn(s, w, t \div w) = {}
  /\ counter.window <= t \div w \/ counter.window = LimitTime + 1

LogIsKnown(s, last, t, w) ==
  /\ \A n \in AnsweredIn(s, w, t \div w) : s[n].logged => last = t \div w
  /\ \A i \in Nat : \A m, n \in AnsweredIn(s, w, i) : s[m].logged /\ s[n].logged => m = n

KeyInv(s, counter, last, t, w, limit) ==
  /\ \A n \in DOMAIN s : s[n].at <= t
  /\ CounterCounts(s, counter, t, w, limit)
  /\ \A i \in Nat : IsFull(s, w, i, limit)
  /\ LogIsKnown(s, last, t, w)

LimitsInv ==
  /\ time \in 0..LimitTime /\ asked \in 0..MaxRequests
  /\ state \in [Throttle!Keys -> Counters]
  /\ logged \in [Throttle!Keys -> 0..(LimitTime + 1)]
  /\ answers \in [Throttle!Keys -> Seq(Answer)]
  /\ \A k \in Throttle!Keys :
       state[k].count <= asked /\ KeyInv(answers[k], state[k], logged[k], time, Window[k[1]], Limit[k[1]])

LEMMA WindowOf ==
  ASSUME NEW s \in Seq(Answer), NEW t \in Nat, NEW w \in Nat \ {0}, LimitTime \in Nat,
         \A n \in DOMAIN s : s[n].at <= t
  PROVE  /\ t \div w \in Nat /\ t \div w <= t
         /\ \A n \in DOMAIN s : /\ s[n] \in Answer /\ s[n].at \in Nat
                                /\ s[n].at \div w \in Nat /\ s[n].at \div w <= t \div w
<1>1. t \div w \in Nat /\ t \div w <= t
  BY DivBounds
<1>2. ASSUME NEW n \in DOMAIN s
      PROVE  s[n] \in Answer /\ s[n].at \in Nat /\ s[n].at \div w \in Nat /\ s[n].at \div w <= t \div w
  <2>1. s[n] \in Answer
    OBVIOUS
  <2>2. s[n].at \in Nat /\ s[n].at <= t
    BY <2>1 DEF Answer
  <2>3. QED
    BY <2>1, <2>2, DivBounds, DivGrows
<1>3. QED
  BY <1>1, <1>2

LEMMA AnsweredFinite ==
  ASSUME NEW s \in Seq(Answer), NEW w, NEW i
  PROVE  /\ IsFiniteSet(AnsweredIn(s, w, i)) /\ IsFiniteSet(ThroughIn(s, w, i))
         /\ Cardinality(ThroughIn(s, w, i)) \in Nat
<1>1. Len(s) \in Nat /\ DOMAIN s = 1..Len(s)
  OBVIOUS
<1>2. IsFiniteSet(1..Len(s))
  BY <1>1, FS_Interval
<1>3. AnsweredIn(s, w, i) \subseteq 1..Len(s) /\ ThroughIn(s, w, i) \subseteq 1..Len(s)
  BY <1>1 DEF AnsweredIn, ThroughIn
<1>4. QED
  BY <1>2, <1>3, FS_Subset, FS_CardinalityType

LEMMA NothingAsked ==
  ASSUME NEW s, NEW w, NEW i, NEW limit \in Nat, AnsweredIn(s, w, i) = {}
  PROVE  Counts(s, w, i, limit, 0) /\ IsFull(s, w, i, limit)
<1>1. ThroughIn(s, w, i) = {}
  BY DEF ThroughIn
<1>2. QED
  BY <1>1, FS_EmptySet DEF Counts, IsFull

\* How a request at t is answered, a, counted and put into the log.
IsAnswered(counter, last, t, w, limit, before, a, new, logs) ==
  /\ before = IF counter.window = t \div w THEN counter.count ELSE 0
  /\ a.at = t /\ (a.through <=> before + 1 <= limit)
  /\ a.logged <=> ~ (before + 1 <= limit) /\ last # t \div w
  /\ new.window = t \div w /\ new.count = before + 1
  /\ logs = IF before + 1 <= limit THEN last ELSE t \div w

\* A request is one more of the current window.
LEMMA KeyAsked ==
  ASSUME NEW s \in Seq(Answer), NEW counter \in Counters, NEW last, NEW t \in 0..LimitTime,
         NEW w \in Nat \ {0}, NEW limit \in Nat, LimitTime \in Nat,
         KeyInv(s, counter, last, t, w, limit),
         NEW before \in Nat, NEW a \in Answer, NEW new \in Counters, NEW logs,
         IsAnswered(counter, last, t, w, limit, before, a, new, logs)
  PROVE  KeyInv(Append(s, a), new, logs, t, w, limit)
<1> USE DEF IsAnswered
<1>1. PICK i \in Nat : i = t \div w
  BY WindowOf DEF KeyInv
<1>2. Append(s, a) \in Seq(Answer) /\ Len(s) \in Nat /\ DOMAIN s = 1..Len(s)
      /\ Len(Append(s, a)) = Len(s) + 1
  OBVIOUS
<1> DEFINE u == Append(s, a)
<1>3. PICK n : /\ n \notin DOMAIN s /\ DOMAIN u = DOMAIN s \union {n} /\ u[n] = a
               /\ \A m \in DOMAIN s : u[m] = s[m]
  <2>1. /\ Len(s) + 1 \notin DOMAIN s /\ DOMAIN u = DOMAIN s \union {Len(s) + 1} /\ u[Len(s) + 1] = a
        /\ \A m \in DOMAIN s : u[m] = s[m]
    BY <1>2
  <2>2. QED
    BY <2>1
<1> HIDE DEF u
<1>4. /\ \A h : h # i => AnsweredIn(u, w, h) = AnsweredIn(s, w, h) /\ ThroughIn(u, w, h) = ThroughIn(s, w, h)
      /\ AnsweredIn(u, w, i) = AnsweredIn(s, w, i) \union {n}
      /\ a.through => ThroughIn(u, w, i) = ThroughIn(s, w, i) \union {n}
      /\ ~a.through => ThroughIn(u, w, i) = ThroughIn(s, w, i)
      /\ n \notin AnsweredIn(s, w, i) /\ n \notin ThroughIn(s, w, i)
  BY <1>1, <1>3 DEF AnsweredIn, ThroughIn
<1>5. Counts(s, w, i, limit, before)
  <2>1. CASE counter.window = i
    BY <1>1, <2>1 DEF KeyInv, CounterCounts
  <2>2. CASE counter.window # i
    BY <1>1, <2>2, NothingAsked DEF KeyInv, CounterCounts
  <2>3. QED
    BY <2>1, <2>2
<1>6. Counts(u, w, i, limit, before + 1) /\ IsFull(u, w, i, limit)
  <2>1. IsFiniteSet(ThroughIn(s, w, i)) /\ Cardinality(ThroughIn(s, w, i)) \in Nat
    BY AnsweredFinite
  <2>2. CASE before + 1 <= limit
    <3>1. Cardinality(ThroughIn(s, w, i)) = before /\ ThroughIn(s, w, i) = AnsweredIn(s, w, i)
      BY <1>5, <2>2 DEF Counts
    <3>2. ThroughIn(u, w, i) = ThroughIn(s, w, i) \union {n} /\ ThroughIn(u, w, i) = AnsweredIn(u, w, i)
      BY <1>4, <2>2, <3>1
    <3>3. Cardinality(ThroughIn(s, w, i) \union {n}) = Cardinality(ThroughIn(s, w, i)) + 1
      BY <1>4, <2>1, FS_AddElement
    <3>4. QED
      BY <2>2, <3>1, <3>2, <3>3 DEF Counts, IsFull
  <2>3. CASE ~ (before + 1 <= limit)
    <3>1. Cardinality(ThroughIn(s, w, i)) = limit
      BY <1>5, <2>3 DEF Counts
    <3>2. Cardinality(ThroughIn(u, w, i)) = limit
      BY <1>4, <2>3, <3>1
    <3>3. QED
      BY <2>3, <3>2 DEF Counts, IsFull
  <2>4. QED
    BY <2>2, <2>3
<1>7. CounterCounts(u, new, t, w, limit)
  BY <1>1, <1>6 DEF CounterCounts
<1>8. \A h \in Nat : IsFull(u, w, h, limit)
  BY <1>4, <1>6 DEF KeyInv, IsFull
<1>9. LogIsKnown(u, logs, t, w)
  <2>1. \A m \in AnsweredIn(s, w, i) : u[m] = s[m] /\ (s[m].logged => last = i)
    BY <1>1, <1>3 DEF AnsweredIn, KeyInv, LogIsKnown
  <2>2. a.logged => last # i /\ logs = i
    BY <1>1
  <2>3. \A m \in AnsweredIn(u, w, i) : u[m].logged => logs = i
    BY <1>1, <1>3, <1>4, <2>1, <2>2
  <2>4. ASSUME NEW h \in Nat, NEW l \in AnsweredIn(u, w, h), NEW m \in AnsweredIn(u, w, h),
               u[l].logged, u[m].logged
        PROVE  l = m
    <3>1. CASE h = i /\ n \in {l, m}
      BY <1>3, <1>4, <2>1, <2>2, <2>4, <3>1
    <3>2. CASE ~ (h = i /\ n \in {l, m})
      <4>1. l \in AnsweredIn(s, w, h) /\ m \in AnsweredIn(s, w, h)
        BY <1>4, <2>4, <3>2
      <4>2. u[l] = s[l] /\ u[m] = s[m]
        BY <1>3, <4>1 DEF AnsweredIn
      <4>3. QED
        BY <2>4, <4>1, <4>2 DEF KeyInv, LogIsKnown
    <3>3. QED
      BY <3>1, <3>2
  <2>5. QED
    BY <1>1, <2>3, <2>4 DEF LogIsKnown
<1>10. \A m \in DOMAIN u : u[m].at <= t
  BY <1>3 DEF KeyInv
<1>11. QED
  BY <1>7, <1>8, <1>9, <1>10 DEF KeyInv, u

\* A new window starts with nothing asked.
LEMMA KeyWaits ==
  ASSUME NEW s \in Seq(Answer), NEW counter \in Counters, NEW last, NEW t \in Nat, t + 1 \in 0..LimitTime,
         NEW w \in Nat \ {0}, NEW limit, LimitTime \in Nat,
         KeyInv(s, counter, last, t, w, limit)
  PROVE  KeyInv(s, counter, last, t + 1, w, limit)
<1>1. PICK i \in Nat, j \in Nat : i = t \div w /\ j = (t + 1) \div w /\ i <= j /\ j <= LimitTime
  <2>1. t + 1 \in Nat /\ t <= t + 1 /\ t + 1 <= LimitTime
    OBVIOUS
  <2>2. t \div w \in Nat /\ (t + 1) \div w \in Nat /\ (t + 1) \div w <= t + 1 /\ t \div w <= (t + 1) \div w
    BY <2>1, DivBounds, DivGrows
  <2>3. QED
    BY <2>1, <2>2
<1>2. \A n \in DOMAIN s : s[n].at \in Nat /\ s[n].at <= t /\ s[n].at \div w <= i
  BY <1>1, WindowOf DEF KeyInv
<1>3. \A n \in DOMAIN s : s[n].at <= t + 1
  BY <1>2
<1>4. CASE i = j
  BY <1>1, <1>3, <1>4 DEF KeyInv, CounterCounts, LogIsKnown
<1>5. CASE i < j
  <2>1. AnsweredIn(s, w, j) = {}
    BY <1>2, <1>5, WindowOf DEF AnsweredIn, KeyInv
  <2>2. counter.window # j /\ (counter.window <= j \/ counter.window = LimitTime + 1)
    BY <1>1, <1>5 DEF KeyInv, CounterCounts, Counters
  <2>3. QED
    BY <1>1, <1>3, <2>1, <2>2 DEF KeyInv, CounterCounts, LogIsKnown
<1>6. QED
  BY <1>1, <1>4, <1>5

\* An empty counter stands for one of any window but the current.
LEMMA KeyDropped ==
  ASSUME NEW s, NEW counter \in Counters, NEW last, NEW t \in Nat, t <= LimitTime,
         NEW w \in Nat \ {0}, NEW limit \in Nat, LimitTime \in Nat,
         \/ KeyInv(s, counter, last, t, w, limit) /\ counter.window # t \div w
         \/ s = <<>>,
         NEW new \in Counters, new.window = LimitTime + 1
  PROVE  KeyInv(s, new, last, t, w, limit)
<1>1. t \div w \in Nat /\ new.window # t \div w
  BY DivBounds
<1>2. CASE s = <<>>
  <2>1. DOMAIN s = {} /\ \A i : AnsweredIn(s, w, i) = {}
    BY <1>2 DEF AnsweredIn
  <2>2. \A i : IsFull(s, w, i, limit)
    BY <2>1, NothingAsked
  <2>3. QED
    BY <1>1, <2>1, <2>2 DEF KeyInv, CounterCounts, LogIsKnown
<1>3. CASE KeyInv(s, counter, last, t, w, limit) /\ counter.window # t \div w
  BY <1>1, <1>3 DEF KeyInv, CounterCounts
<1>4. QED
  BY <1>2, <1>3

LEMMA KeysHaveLimits ==
  ASSUME Throttle!RateLimitAssumption, NEW k \in Throttle!Keys
  PROVE  Limit[k[1]] \in Nat \ {0} /\ Window[k[1]] \in Nat \ {0}
<1>1. \A route \in Routes : Throttle!Group(route) \subseteq Throttle!Groups
  BY DEF Throttle!Group, Throttle!Groups
<1>2. k[1] \in Throttle!Groups
  BY <1>1 DEF Throttle!Keys
<1>3. QED
  BY <1>2 DEF Throttle!RateLimitAssumption

LEMMA EmptyCounter ==
  ASSUME Throttle!RateLimitAssumption
  PROVE  /\ LimitTime \in Nat /\ MaxRequests \in Nat
         /\ Throttle!NoState \in Counters /\ Throttle!NoState.window = LimitTime + 1
         /\ Throttle!NoState.count = 0 /\ Throttle!None = LimitTime + 1
  BY DEF Throttle!RateLimitAssumption, Throttle!NoState, Throttle!None, Counters

\* A process that has just started.
LimitsFresh ==
  /\ time \in 0..LimitTime /\ asked \in 0..MaxRequests
  /\ state = [k \in Throttle!Keys |-> Throttle!NoState] /\ logged = [k \in Throttle!Keys |-> Throttle!None]
  /\ answers = Throttle!NoAnswers

LEMMA LimitsStart == Throttle!RateLimitAssumption /\ LimitsFresh => LimitsInv
<1> SUFFICES ASSUME Throttle!RateLimitAssumption, LimitsFresh PROVE LimitsInv
  OBVIOUS
<1> USE DEF LimitsFresh
<1>1. /\ state \in [Throttle!Keys -> Counters] /\ logged \in [Throttle!Keys -> 0..(LimitTime + 1)]
      /\ answers \in [Throttle!Keys -> Seq(Answer)]
  BY EmptyCounter DEF Throttle!NoAnswers
<1>2. ASSUME NEW k \in Throttle!Keys
      PROVE  state[k].count <= asked /\ KeyInv(answers[k], state[k], logged[k], time, Window[k[1]], Limit[k[1]])
  <2>1. state[k] = Throttle!NoState /\ answers[k] = <<>> /\ time \in Nat /\ time <= LimitTime
    BY EmptyCounter DEF Throttle!NoAnswers
  <2>2. QED
    BY <2>1, EmptyCounter, KeysHaveLimits, KeyDropped
<1>3. QED
  BY <1>1, <1>2 DEF LimitsInv

LEMMA LimitsRequest ==
  ASSUME Throttle!RateLimitAssumption, LimitsInv, NEW client \in Clients, NEW route \in Routes,
         Throttle!Request(client, route)
  PROVE  LimitsInv'
<1> USE DEF LimitsInv
<1>1. PICK g \in Throttle!Group(route) :
        LET k == <<g, client>>
            count == Throttle!Counter(k).count + 1
            window == time \div Window[g]
            allowed == count <= Limit[g] IN
        /\ state' = [state EXCEPT ![k] = [window |-> window, count |-> count]]
        /\ logged' = IF allowed THEN logged ELSE [logged EXCEPT ![k] = window]
        /\ answers' = [answers EXCEPT ![k] =
             Append(@, [at |-> time, through |-> allowed, logged |-> ~allowed /\ logged[k] # window])]
  BY DEF Throttle!Request
<1>2. asked < MaxRequests /\ asked' = asked + 1 /\ time' = time
  BY DEF Throttle!Request
<1>3. PICK k \in Throttle!Keys : k = <<g, client>> /\ k[1] = g
  <2>1. g \in UNION {Throttle!Group(r) : r \in Routes}
    OBVIOUS
  <2>2. <<g, client>> \in Throttle!Keys
    BY <2>1 DEF Throttle!Keys
  <2>3. QED
    BY <2>2
<1>4. PICK limit \in Nat, w \in Nat \ {0} : limit = Limit[g] /\ w = Window[g]
  BY <1>3, KeysHaveLimits
<1>5. /\ LimitTime \in Nat /\ MaxRequests \in Nat /\ asked \in Nat /\ time \in Nat /\ time <= LimitTime
      /\ state[k] \in Counters /\ state[k].count <= asked
  BY EmptyCounter
<1>6. time \div w \in 0..LimitTime
  <2>1. time \div w \in Nat /\ time \div w <= time
    BY <1>5, DivBounds
  <2>2. QED
    BY <1>5, <2>1
<1>7. PICK before \in 0..asked : /\ before = Throttle!Counter(k).count
                                 /\ before = IF state[k].window = time \div w THEN state[k].count ELSE 0
  BY <1>3, <1>4, <1>5 DEF Throttle!Counter, Counters
<1> DEFINE allowed == before + 1 <= limit
           a == [at |-> time, through |-> allowed, logged |-> ~allowed /\ logged[k] # time \div w]
           new == [window |-> time \div w, count |-> before + 1]
           logs == IF allowed THEN logged[k] ELSE time \div w
<1>8. /\ a \in Answer /\ a.at = time /\ (a.through <=> before + 1 <= limit)
      /\ a.logged <=> ~ (before + 1 <= limit) /\ logged[k] # time \div w
  <2>1. a.at = time /\ (a.through <=> before + 1 <= limit)
    OBVIOUS
  <2>2. a.logged <=> ~ (before + 1 <= limit) /\ logged[k] # time \div w
    OBVIOUS
  <2>3. time \in 0..LimitTime /\ allowed \in BOOLEAN /\ (~allowed /\ logged[k] # time \div w) \in BOOLEAN
    BY <1>5
  <2>4. a \in Answer
    BY <2>3, Zenon DEF Answer
  <2>5. QED
    BY <2>1, <2>2, <2>4
<1>9. new \in Counters /\ new.window = time \div w /\ new.count = before + 1
  BY <1>5, <1>6 DEF Counters
<1>10. /\ state' = [state EXCEPT ![k] = new]
       /\ logged' = IF allowed THEN logged ELSE [logged EXCEPT ![k] = time \div w]
       /\ answers' = [answers EXCEPT ![k] = Append(answers[k], a)]
  BY <1>1, <1>3, <1>4, <1>7
<1>11. /\ logs \in 0..(LimitTime + 1) /\ logs = IF before + 1 <= limit THEN logged[k] ELSE time \div w
       /\ logged' \in [Throttle!Keys -> 0..(LimitTime + 1)] /\ logged'[k] = logs
       /\ \A j \in Throttle!Keys \ {k} : logged'[j] = logged[j]
  BY <1>5, <1>6, <1>10
<1> HIDE DEF a, new, logs
<1>12. Append(answers[k], a) \in Seq(Answer) /\ answers[k] \in Seq(Answer)
  BY <1>8
<1>13. /\ state' \in [Throttle!Keys -> Counters] /\ answers' \in [Throttle!Keys -> Seq(Answer)]
       /\ state'[k] = new /\ answers'[k] = Append(answers[k], a)
       /\ \A j \in Throttle!Keys \ {k} : state'[j] = state[j] /\ answers'[j] = answers[j]
  BY <1>9, <1>10, <1>12
<1>14. KeyInv(Append(answers[k], a), new, logs, time, w, limit)
  <2>1. KeyInv(answers[k], state[k], logged[k], time, w, limit)
    BY <1>3, <1>4
  <2>2. before \in Nat /\ time \in 0..LimitTime
    BY <1>5
  <2>3. IsAnswered(state[k], logged[k], time, w, limit, before, a, new, logs)
    BY <1>7, <1>8, <1>9, <1>11 DEF IsAnswered
  <2>4. QED
    BY <1>5, <1>8, <1>9, <1>12, <2>1, <2>2, <2>3, KeyAsked
<1>15. ASSUME NEW j \in Throttle!Keys
       PROVE  /\ state'[j].count <= asked'
              /\ KeyInv(answers'[j], state'[j], logged'[j], time', Window[j[1]], Limit[j[1]])
  <2>1. CASE j = k
    <3>1. state'[j].count <= asked'
      BY <1>2, <1>5, <1>7, <1>9, <1>13, <2>1
    <3>2. QED
      BY <1>2, <1>3, <1>4, <1>11, <1>13, <1>14, <2>1, <3>1
  <2>2. CASE j # k
    <3>1. state'[j].count <= asked'
      BY <1>2, <1>5, <1>13, <2>2 DEF Counters
    <3>2. QED
      BY <1>2, <1>11, <1>13, <2>2, <3>1
  <2>3. QED
    BY <2>1, <2>2
<1>16. Throttle!Keys' = Throttle!Keys /\ asked' \in 0..MaxRequests
  BY <1>2, <1>5 DEF Throttle!Keys
<1>17. QED
  BY <1>2, <1>11, <1>13, <1>15, <1>16

LEMMA LimitsStatus ==
  ASSUME Throttle!RateLimitAssumption, LimitsInv, Throttle!Status
  PROVE  LimitsInv'
<1> USE DEF LimitsInv
<1>1. /\ UNCHANGED <<time, logged, asked, answers>>
      /\ state' = [k \in Throttle!Keys |-> IF state[k].window = time \div Window[k[1]] THEN state[k]
                                           ELSE Throttle!NoState]
  BY DEF Throttle!Status
<1>2. state' \in [Throttle!Keys -> Counters]
  BY <1>1, EmptyCounter
<1>3. ASSUME NEW k \in Throttle!Keys
      PROVE  state'[k].count <= asked /\ KeyInv(answers[k], state'[k], logged[k], time, Window[k[1]], Limit[k[1]])
  <2>1. CASE state'[k] = state[k]
    BY <2>1
  <2>2. CASE state[k].window # time \div Window[k[1]] /\ state'[k] = Throttle!NoState
    <3>1. time \in Nat /\ time <= LimitTime /\ asked \in Nat /\ state[k] \in Counters
      BY EmptyCounter
    <3>2. QED
      BY <2>2, <3>1, EmptyCounter, KeysHaveLimits, KeyDropped
  <2>3. QED
    BY <1>1, <2>1, <2>2
<1>4. QED
  BY <1>1, <1>2, <1>3 DEF Throttle!Keys

LEMMA LimitsTick ==
  ASSUME Throttle!RateLimitAssumption, LimitsInv, Throttle!Tick
  PROVE  LimitsInv'
<1> USE DEF LimitsInv
<1>1. UNCHANGED <<state, logged, asked, answers>> /\ time' = time + 1 /\ time < LimitTime
  BY DEF Throttle!Tick
<1>2. time \in Nat /\ time + 1 \in 0..LimitTime /\ LimitTime \in Nat
  BY <1>1, EmptyCounter
<1>3. ASSUME NEW k \in Throttle!Keys
      PROVE  KeyInv(answers[k], state[k], logged[k], time + 1, Window[k[1]], Limit[k[1]])
  BY <1>2, KeysHaveLimits, KeyWaits
<1>4. QED
  BY <1>1, <1>2, <1>3 DEF Throttle!Keys

\* What the invariant says of a key, in the words of the property.
LEMMA KeyHolds ==
  ASSUME Throttle!RateLimitAssumption, LimitsInv, NEW k \in Throttle!Keys, NEW t \in 0..LimitTime
  PROVE  LET w == Window[k[1]]
             window == {u \in 0..LimitTime : u \div w = t \div w}
             span == {u \in 0..LimitTime : t <= u /\ u < t + w} IN
         /\ Cardinality(Throttle!Through(k, window)) <= Limit[k[1]]
         /\ Throttle!Through(k, window) # Throttle!Answered(k, window)
              => Cardinality(Throttle!Through(k, window)) = Limit[k[1]]
         /\ Cardinality(Throttle!Through(k, span)) <= 2 * Limit[k[1]]
         /\ \A m, n \in Throttle!Answered(k, window) : answers[k][m].logged /\ answers[k][n].logged => m = n
<1> USE DEF LimitsInv
<1>1. PICK w \in Nat \ {0}, limit \in Nat : w = Window[k[1]] /\ limit = Limit[k[1]]
  BY KeysHaveLimits
<1>2. PICK s \in Seq(Answer) : s = answers[k]
  OBVIOUS
<1>3. LimitTime \in Nat /\ time \in Nat /\ t \in Nat
  BY EmptyCounter
<1>4. KeyInv(s, state[k], logged[k], time, w, limit)
  BY <1>1, <1>2
<1>5. \A n \in DOMAIN s : s[n].at \in 0..LimitTime
  <2>1. \A n \in DOMAIN s : s[n] \in Answer
    OBVIOUS
  <2>2. QED
    BY <2>1 DEF Answer
<1>6. PICK i \in Nat : i = t \div w
  BY <1>3, DivBounds
<1> DEFINE window == {u \in 0..LimitTime : u \div w = i}
           span == {u \in 0..LimitTime : t <= u /\ u < t + w}
<1>7. Throttle!Answered(k, window) = AnsweredIn(s, w, i) /\ Throttle!Through(k, window) = ThroughIn(s, w, i)
  BY <1>2, <1>5 DEF Throttle!Answered, Throttle!Through, AnsweredIn, ThroughIn
<1>8. IsFull(s, w, i, limit) /\ IsFull(s, w, i + 1, limit)
  BY <1>4 DEF KeyInv
<1>9. Throttle!Through(k, span) \subseteq ThroughIn(s, w, i) \union ThroughIn(s, w, i + 1)
  <2> SUFFICES ASSUME NEW n \in DOMAIN s, s[n].at \in span, s[n].through
               PROVE  n \in ThroughIn(s, w, i) \union ThroughIn(s, w, i + 1)
    BY <1>2 DEF Throttle!Through, Throttle!Answered
  <2>1. PICK u \in Nat : u = s[n].at /\ t <= u /\ u < t + w
    BY <1>3, <1>5
  <2>2. u \div w \in {i, i + 1}
    BY <1>3, <1>6, <2>1, DivSpans
  <2>3. QED
    BY <2>1, <2>2 DEF AnsweredIn, ThroughIn
<1>10. Cardinality(Throttle!Through(k, span)) <= 2 * limit
  <2> DEFINE A == ThroughIn(s, w, i)
             B == ThroughIn(s, w, i + 1)
  <2>1. IsFiniteSet(A) /\ IsFiniteSet(B) /\ Cardinality(A) \in Nat /\ Cardinality(B) \in Nat
        /\ Cardinality(A) <= limit /\ Cardinality(B) <= limit
    BY <1>8, AnsweredFinite DEF IsFull
  <2> HIDE DEF A, B
  <2>2. IsFiniteSet(A \union B) /\ Cardinality(A \union B) = Cardinality(A) + Cardinality(B) - Cardinality(A \intersect B)
    BY <2>1, FS_Union
  <2>3. Cardinality(A \intersect B) \in Nat
    <3>1. IsFiniteSet(A \intersect B)
      BY <2>1, FS_Subset
    <3>2. QED
      BY <3>1, FS_CardinalityType
  <2>4. PICK S : S = Throttle!Through(k, span) /\ S \in SUBSET (A \union B)
    BY <1>9 DEF A, B
  <2>5. Cardinality(S) <= Cardinality(A \union B) /\ Cardinality(S) \in Nat
    BY <2>2, <2>4, FS_Subset, FS_CardinalityType
  <2>6. QED
    BY <2>1, <2>2, <2>3, <2>4, <2>5
<1>11. \A m, n \in AnsweredIn(s, w, i) : s[m].logged /\ s[n].logged => m = n
  BY <1>4 DEF KeyInv, LogIsKnown
<1>12. QED
  BY <1>1, <1>2, <1>6, <1>7, <1>8, <1>10, <1>11 DEF IsFull

\* Nobody is turned away before the limit has been let through in the window,
\* and nobody gets more than twice the limit in any span as long: the counter
\* of the current window says at all times what was let through in it.
THEOREM WindowsAlwaysHold ==
  ASSUME OperationsAssumption
  PROVE  OperationsSpec => []WindowsHold
<1> DEFINE Inv == part = "limit" => LimitsInv
<1>1. OperationsInit => Inv
  <2>1. Throttle!RateLimitAssumption /\ Throttle!Init => LimitsInv
    <3> SUFFICES ASSUME Throttle!RateLimitAssumption, Throttle!Init PROVE LimitsInv
      OBVIOUS
    <3>1. time \in 0..LimitTime /\ asked \in 0..MaxRequests
      BY EmptyCounter DEF Throttle!Init
    <3>2. QED
      BY <3>1, LimitsStart DEF Throttle!Init, LimitsFresh
  <2>2. QED
    BY <2>1 DEF OperationsInit, OperationsAssumption
<1>2. Inv /\ [OperationsNext]_operations => Inv'
  <2> SUFFICES ASSUME Inv, [OperationsNext]_operations, part' = "limit" PROVE LimitsInv'
    OBVIOUS
  <2>1. LimitsInv /\ Throttle!RateLimitAssumption
    BY DEF OperationsNext, operations, OperationsAssumption
  <2>2. CASE Throttle!Restart
    <3>1. Throttle!RateLimitAssumption' /\ LimitsFresh'
      BY <2>1, <2>2 DEF Throttle!Restart, LimitsInv, LimitsFresh, Throttle!RateLimitAssumption, Throttle!Keys,
         Throttle!NoState, Throttle!None, Throttle!NoAnswers
    <3>2. QED
      BY <3>1, LimitsStart, PTL
  <2>3. CASE Throttle!Next
    BY <2>1, <2>2, <2>3, LimitsRequest, LimitsStatus, LimitsTick DEF Throttle!Next
  <2>4. CASE UNCHANGED limits
    BY <2>1, <2>4 DEF limits, LimitsInv, Throttle!Keys
  <2>5. QED
    BY <2>3, <2>4 DEF OperationsNext, operations
<1>3. OperationsAssumption /\ Inv => WindowsHold
  <2> SUFFICES ASSUME OperationsAssumption, LimitsInv PROVE Throttle!TypeOK /\ Throttle!WindowsHold
    BY DEF WindowsHold
  <2>1. Throttle!RateLimitAssumption
    BY DEF OperationsAssumption
  <2>2. Throttle!TypeOK
    BY <2>1, EmptyCounter DEF LimitsInv, Throttle!TypeOK, Counters
  <2>3. Throttle!WindowsHold
    BY <2>1, KeyHolds, SameCardinality DEF Throttle!WindowsHold
  <2>4. QED
    BY <2>2, <2>3
<1>4. QED
  BY <1>1, <1>2, <1>3, PTL DEF OperationsSpec
=============================================================================

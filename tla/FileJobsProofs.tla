--------------------------- MODULE FileJobsProofs ---------------------------
(***************************************************************************)
(* Theorems about FileJobs, for any number of jobs of every kind and any   *)
(* number of concurrent cancel requests, with or without restarts.         *)
(***************************************************************************)
EXTENDS FileJobs, TLAPS

\* A row that is consistent in itself, as TypeOK asks of every row.
Sound(r) ==
  /\ r \in Rows
  /\ r.status \in Terminal => r.finished
  /\ r.aged => r.finished

LEMMA NoRowSound == Sound(NoRow) /\ Gone(NoRow)
  BY DEF Sound, NoRow, Rows, Terminal, Gone

\* The writes of the code keep a row sound.
LEMMA FinishedSound ==
  ASSUME NEW r, r \in Rows, NEW status \in Terminal
  PROVE  Sound(Finished(r, status)) /\ Finished(r, status).status = status
  BY DEF Sound, Finished, Rows, Terminal

LEMMA SucceededSound ==
  ASSUME NEW r, r \in Rows, NEW j \in Jobs
  PROVE  Sound(Succeeded(r, j)) /\ Succeeded(r, j).status = "success"
<1> DEFINE f == Finished(r, "success")
<1>1. f \in Rows /\ f.finished = TRUE /\ f.aged = FALSE /\ f.status = "success"
  BY DEF Finished, Rows, Terminal
<1>2. Succeeded(r, j) = [f EXCEPT !.flag = FALSE, !.body = "result", !.out = Kind[j] # "import"]
  BY DEF Succeeded
<1> HIDE DEF f
<1>3. QED
  BY <1>1, <1>2 DEF Sound, Rows, Terminal

LEMMA CancelledSound ==
  ASSUME NEW r, Sound(r), NEW seen \in Rows
  PROVE  /\ Sound(Cancelled(r, seen))
         /\ Cancelled(r, seen).status \in {r.status, "cancelled"}
<1>1. CASE Gone(r)
  BY <1>1 DEF Cancelled
<1>2. CASE ~Gone(r) /\ seen.status = "queued"
  BY <1>2, FinishedSound DEF Cancelled, Sound, Terminal
<1>3. CASE ~Gone(r) /\ seen.status # "queued"
  <2>1. Cancelled(r, seen) = [r EXCEPT !.flag = TRUE, !.body = seen.body]
    BY <1>3 DEF Cancelled
  <2>2. QED
    BY <2>1 DEF Sound, Rows
<1>4. QED
  BY <1>1, <1>2, <1>3

\* What TypeOK says of the table.
LEMMA TypeOKRows ==
  TypeOK <=>
    /\ row \in [Jobs -> Rows] /\ \A j \in Jobs : Sound(row[j])
    /\ proc \in [Jobs -> Steps]
    /\ input \in SUBSET Jobs
    /\ output \in [Jobs -> {"none", "partial", "whole"}]
    /\ applied \in SUBSET Jobs
    /\ cancel \in [Cancellers -> [job : Jobs \union {NoJob}, seen : Rows]]
    /\ cleanup \in [phase : {"idle", "selected", "unlinked"}, rows : SUBSET Jobs, outs : SUBSET Jobs]
  BY DEF TypeOK, Sound

\* Every reachable state is well typed; a row in a final status has its end.
THEOREM TypeCorrect == Spec => []TypeOK
<1>1. Init => TypeOK
  BY NoRowSound, FileJobsAssumption DEF Init, TypeOK, Sound, Steps, Ended, NoRequest, NoCleanup
<1>2. TypeOK /\ [Next]_vars => TypeOK'
  <2> SUFFICES ASSUME TypeOK, [Next]_vars PROVE TypeOK'
    OBVIOUS
  <2> USE DEF Ended
  <2>0. /\ row \in [Jobs -> Rows] /\ \A j \in Jobs : Sound(row[j])
        /\ proc \in [Jobs -> Steps] /\ input \in SUBSET Jobs
        /\ output \in [Jobs -> {"none", "partial", "whole"}] /\ applied \in SUBSET Jobs
        /\ cancel \in [Cancellers -> [job : Jobs \union {NoJob}, seen : Rows]]
        /\ cleanup \in [phase : {"idle", "selected", "unlinked"}, rows : SUBSET Jobs,
                        outs : SUBSET Jobs]
    BY TypeOKRows
  <2>1. ASSUME /\ row' \in [Jobs -> Rows] /\ \A j \in Jobs : Sound(row'[j])
               /\ proc' \in [Jobs -> Steps] /\ input' \in SUBSET Jobs
               /\ output' \in [Jobs -> {"none", "partial", "whole"}] /\ applied' \in SUBSET Jobs
               /\ cancel' \in [Cancellers -> [job : Jobs \union {NoJob}, seen : Rows]]
               /\ cleanup' \in [phase : {"idle", "selected", "unlinked"}, rows : SUBSET Jobs,
                                outs : SUBSET Jobs]
        PROVE  TypeOK'
    BY <2>1 DEF TypeOK, Sound
  <2>2. ASSUME NEW j \in Jobs, NEW r, Sound(r), row' = [row EXCEPT ![j] = r]
        PROVE  row' \in [Jobs -> Rows] /\ \A i \in Jobs : Sound(row'[i])
    BY <2>0, <2>2 DEF Sound
  <2>3. ASSUME NEW j \in Jobs, NEW from, NEW to \in Steps, Proc(j, from, to)
        PROVE  proc' \in [Jobs -> Steps]
    BY <2>0, <2>3 DEF Proc
  <2>4. ASSUME NEW j \in Jobs, SaveUpload(j) PROVE TypeOK'
    BY <2>0, <2>1, <2>4 DEF SaveUpload
  <2>5. ASSUME NEW j \in Jobs, Create(j) PROVE TypeOK'
    <3> DEFINE r == [NoRow EXCEPT !.status = "queued",
                                  !.body = IF Kind[j] = "backup" THEN "params" ELSE "none"]
    <3>1. Sound(r)
      BY DEF Sound, NoRow, Rows, Terminal
    <3>2. row' = [row EXCEPT ![j] = r] /\ proc' \in [Jobs -> Steps]
      BY <2>0, <2>5 DEF Create, Steps
    <3> HIDE DEF r
    <3>3. QED
      BY <2>0, <2>1, <2>2, <2>5, <3>1, <3>2 DEF Create
  <2>6. ASSUME NEW j \in Jobs, \/ Load(j) \/ FirstCheck(j) \/ ChunkCheck(j) \/ MoreChunks(j)
                              \/ Return(j) \/ Break(j)
        PROVE  TypeOK'
    <3>1. proc' \in [Jobs -> Steps]
      BY <2>0, <2>6 DEF Load, FirstCheck, ChunkCheck, MoreChunks, Return, Break, Proc, Steps
    <3>2. QED
      BY <2>0, <2>1, <2>6, <3>1 DEF Load, FirstCheck, ChunkCheck, MoreChunks, Return, Break
  <2>7. ASSUME NEW j \in Jobs, Start(j) PROVE TypeOK'
    <3> DEFINE r == [row[j] EXCEPT !.status = IF Gone(row[j]) THEN row[j].status ELSE "running"]
    <3>1. Sound(r)
      BY <2>0 DEF Sound, Rows, Terminal
    <3>2. row' = [row EXCEPT ![j] = r] /\ proc' \in [Jobs -> Steps]
      BY <2>0, <2>7 DEF Start, Proc, Steps
    <3> HIDE DEF r
    <3>3. QED
      BY <2>0, <2>1, <2>2, <2>7, <3>1, <3>2 DEF Start
  <2>8. ASSUME NEW j \in Jobs, ImportCommit(j) \/ OpenOutput(j) \/ CloseOutput(j) PROVE TypeOK'
    <3>1. proc' \in [Jobs -> Steps]
      BY <2>0, <2>8 DEF ImportCommit, OpenOutput, CloseOutput, Proc, Steps
    <3>2. QED
      BY <2>0, <2>1, <2>8, <3>1 DEF ImportCommit, OpenOutput, CloseOutput
  <2>9. ASSUME NEW j \in Jobs, NEW from, NEW to \in {"off", "recorded"},
               NEW newRow, Sound(newRow), EndProc(j, from, to, newRow)
        PROVE  TypeOK'
    <3>1. proc' \in [Jobs -> Steps]
      BY <2>0, <2>9 DEF EndProc, Proc, Steps
    <3>2. row' \in [Jobs -> Rows] /\ \A i \in Jobs : Sound(row'[i])
      BY <2>0, <2>9 DEF EndProc, Sound
    <3>3. QED
      BY <2>0, <2>1, <2>9, <3>1, <3>2 DEF EndProc
  <2>10. ASSUME NEW j \in Jobs, Complete(j) \/ MarkCancelled(j) \/ FailRead(j) \/ Fail(j)
         PROVE  TypeOK'
    <3>1. /\ Sound(Succeeded(row[j], j))
          /\ Sound(Finished(row[j], "cancelled")) /\ Sound(Finished(row[j], "failed"))
      BY <2>0, SucceededSound, FinishedSound DEF Terminal
    <3>2. CASE Complete(j)
      BY <2>9, <3>1, <3>2 DEF Complete
    <3>3. CASE MarkCancelled(j)
      BY <2>9, <3>1, <3>3 DEF MarkCancelled
    <3>4. CASE FailRead(j)
      BY <2>9, <3>1, <3>4 DEF FailRead
    <3>5. CASE Fail(j)
      BY <2>9, <3>1, <3>5 DEF Fail
    <3>6. QED
      BY <2>10, <3>2, <3>3, <3>4, <3>5
  <2>11. ASSUME NEW c \in Cancellers, NEW j \in Jobs, CancelRead(c, j) PROVE TypeOK'
    BY <2>0, <2>1, <2>11 DEF CancelRead
  <2>12. ASSUME NEW c \in Cancellers, CancelWrite(c) PROVE TypeOK'
    <3>1. cancel[c].job \in Jobs \union {NoJob} /\ cancel[c].seen \in Rows
      BY <2>0
    <3>2. \A i \in Jobs : row'[i] = IF i = cancel[c].job THEN Cancelled(row[i], cancel[c].seen)
                                    ELSE row[i]
      BY <2>0, <2>12 DEF CancelWrite
    <3>3. row' = [i \in Jobs |-> row'[i]]
      BY <2>0, <2>12 DEF CancelWrite
    <3>4. ASSUME NEW i \in Jobs PROVE Sound(row'[i])
      <4>1. Sound(row[i]) /\ Sound(Cancelled(row[i], cancel[c].seen))
        BY <2>0, <3>1, CancelledSound
      <4>2. CASE i = cancel[c].job
        BY <3>2, <4>1, <4>2
      <4>3. CASE i # cancel[c].job
        BY <3>2, <4>1, <4>3
      <4>4. QED
        BY <4>2, <4>3
    <3>5. row' \in [Jobs -> Rows]
      BY <3>3, <3>4 DEF Sound
    <3>6. NoRequest \in [job : Jobs \union {NoJob}, seen : Rows]
      BY NoRowSound DEF NoRequest, Sound
    <3>7. cancel' \in [Cancellers -> [job : Jobs \union {NoJob}, seen : Rows]]
      BY <2>0, <2>12, <3>6 DEF CancelWrite
    <3>8. QED
      BY <2>0, <2>1, <2>12, <3>4, <3>5, <3>7 DEF CancelWrite
  <2>13. ASSUME NEW j \in Jobs, Age(j) PROVE TypeOK'
    <3> DEFINE r == [row[j] EXCEPT !.aged = TRUE]
    <3>1. Sound(r)
      <4>1. row[j] \in Rows /\ row[j].finished = TRUE
        BY <2>0, <2>13 DEF Age, Rows
      <4>2. QED
        BY <4>1 DEF Sound, Rows
    <3>2. row' = [row EXCEPT ![j] = r]
      BY <2>13 DEF Age
    <3> HIDE DEF r
    <3>3. QED
      BY <2>0, <2>1, <2>2, <2>13, <3>1, <3>2 DEF Age
  <2>14. CASE CleanupSelect \/ CleanupFiles
    <3>1. NoCleanup \in [phase : {"idle", "selected", "unlinked"}, rows : SUBSET Jobs, outs : SUBSET Jobs]
      BY DEF NoCleanup
    <3>2. cleanup' \in [phase : {"idle", "selected", "unlinked"}, rows : SUBSET Jobs, outs : SUBSET Jobs]
      BY <2>0, <2>14 DEF CleanupSelect, CleanupFiles
    <3>3. QED
      BY <2>0, <2>1, <2>14, <3>2 DEF CleanupSelect, CleanupFiles
  <2>15. CASE CleanupRows
    <3>1. Sound([NoRow EXCEPT !.status = "deleted"])
      BY DEF Sound, NoRow, Rows, Terminal
    <3>2. row' \in [Jobs -> Rows] /\ \A i \in Jobs : Sound(row'[i])
      BY <2>0, <2>15, <3>1 DEF CleanupRows, Sound
    <3>3. QED
      BY <2>0, <2>1, <2>15, <3>2 DEF CleanupRows, NoCleanup
  <2>16. CASE Restart
    <3>1. NoRequest \in [job : Jobs \union {NoJob}, seen : Rows]
      BY NoRowSound DEF NoRequest, Sound
    <3>2. QED
      BY <2>0, <2>1, <2>16, <3>1 DEF Restart, NoCleanup, Steps
  <2>17. CASE UNCHANGED vars
    BY <2>0, <2>1, <2>17 DEF vars
  <2>18. QED
    BY <2>4, <2>5, <2>6, <2>7, <2>8, <2>10, <2>11, <2>12, <2>13, <2>14, <2>15, <2>16, <2>17
       DEF Next, Work
<1>3. QED
  BY <1>1, <1>2, PTL DEF Spec

-----------------------------------------------------------------------------
(***************************************************************************)
(* What SuccessIsBacked needs to be inductive: a job's work has left its   *)
(* result behind by the time the process is about to record it, and nothing *)
(* of the work runs after the row says success.                            *)
(***************************************************************************)
ResultThere(j) ==
  /\ Kind[j] = "import" => j \in applied
  /\ Kind[j] # "import" => output[j] # "partial"

Backed(j) ==
  /\ row[j].status = "success" => proc[j] \in Ended \union {"recorded"} /\ ResultThere(j)
  /\ proc[j] \in {"chunk", "tail"} => Kind[j] # "import"
  /\ proc[j] = "written" => ResultThere(j)

LEMMA BackedStep ==
  ASSUME TypeOK, TypeOK', [Next]_vars, NEW i \in Jobs, Backed(i)
  PROVE  Backed(i)'
<1>0. /\ row \in [Jobs -> Rows] /\ proc \in [Jobs -> Steps]
      /\ output \in [Jobs -> {"none", "partial", "whole"}] /\ Kind \in [Jobs -> {"import", "export", "backup"}]
  BY DEF TypeOK, Kind
<1> USE DEF Backed, ResultThere, Ended
<1>1. ASSUME NEW j \in Jobs, SaveUpload(j) PROVE Backed(i)'
  BY <1>1 DEF SaveUpload
<1>2. ASSUME NEW j \in Jobs, Create(j) PROVE Backed(i)'
  BY <1>0, <1>2 DEF Create, NoRow
<1>3. ASSUME NEW j \in Jobs, \/ Load(j) \/ FirstCheck(j) \/ ChunkCheck(j) \/ MoreChunks(j)
                            \/ Return(j) \/ Break(j)
      PROVE  Backed(i)'
  BY <1>0, <1>3 DEF Load, FirstCheck, ChunkCheck, MoreChunks, Return, Break, Proc
<1>4. ASSUME NEW j \in Jobs, Start(j) PROVE Backed(i)'
  <2>1. row'[i].status \in {row[i].status, "running"}
    BY <1>0, <1>4 DEF Start, Rows
  <2>2. proc'[i] \in {proc[i], "broken", "started"} /\ (i = j => proc[i] = "loaded")
    BY <1>0, <1>4 DEF Start, Proc
  <2>3. i # j => proc'[i] = proc[i]
    BY <1>0, <1>4 DEF Start, Proc
  <2>4. QED
    BY <1>4, <2>1, <2>2, <2>3 DEF Start
<1>5. ASSUME NEW j \in Jobs, ImportCommit(j) \/ OpenOutput(j) \/ CloseOutput(j)
      PROVE  Backed(i)'
  BY <1>0, <1>5 DEF ImportCommit, OpenOutput, CloseOutput, Proc
<1>6. ASSUME NEW j \in Jobs, NEW from, NEW to \in {"off", "recorded"}, NEW newRow,
             EndProc(j, from, to, newRow),
             newRow.status = "success" => from = "written"
      PROVE  Backed(i)'
  <2>1. row'[i] = IF i = j /\ ~Gone(row[i]) THEN newRow ELSE row[i]
    BY <1>0, <1>6 DEF EndProc
  <2>2. /\ i # j => proc'[i] = proc[i]
        /\ i = j => proc[i] = from /\ proc'[i] \in {"off", "recorded", "broken"}
    BY <1>0, <1>6 DEF EndProc, Proc
  <2>3. QED
    BY <1>6, <2>1, <2>2 DEF EndProc
<1>7. ASSUME NEW j \in Jobs, Complete(j) \/ MarkCancelled(j) \/ FailRead(j) \/ Fail(j)
      PROVE  Backed(i)'
  <2>1. /\ Finished(row[j], "cancelled").status = "cancelled"
        /\ Finished(row[j], "failed").status = "failed"
    BY <1>0, FinishedSound DEF Terminal
  <2>2. CASE Complete(j)
    BY <1>6, <2>2 DEF Complete
  <2>3. CASE MarkCancelled(j)
    BY <1>6, <2>1, <2>3 DEF MarkCancelled
  <2>4. CASE FailRead(j)
    BY <1>6, <2>1, <2>4 DEF FailRead
  <2>5. CASE Fail(j)
    BY <1>6, <2>1, <2>5 DEF Fail
  <2>6. QED
    BY <1>7, <2>2, <2>3, <2>4, <2>5
<1>8. ASSUME NEW c \in Cancellers, CancelWrite(c) PROVE Backed(i)'
  <2>1. cancel[c].seen \in Rows /\ Sound(row[i])
    BY DEF TypeOK, Sound
  <2>2. Cancelled(row[i], cancel[c].seen).status \in {row[i].status, "cancelled"}
    BY <2>1, CancelledSound
  <2>3. row'[i] = IF i = cancel[c].job THEN Cancelled(row[i], cancel[c].seen) ELSE row[i]
    BY <1>0, <1>8 DEF CancelWrite
  <2>4. row'[i].status \in {row[i].status, "cancelled"}
    BY <2>2, <2>3
  <2>5. QED
    BY <1>8, <2>4 DEF CancelWrite
<1>9. ASSUME NEW j \in Jobs, Age(j) PROVE Backed(i)'
  <2>1. row'[i].status = row[i].status
    BY <1>0, <1>9 DEF Age, Rows
  <2>2. QED
    BY <1>9, <2>1 DEF Age
<1>10. ASSUME NEW j \in Jobs, NEW c \in Cancellers, CancelRead(c, j) PROVE Backed(i)'
  BY <1>10 DEF CancelRead
<1>11. CASE CleanupSelect
  BY <1>11 DEF CleanupSelect
<1>12. CASE CleanupFiles
  BY <1>0, <1>12 DEF CleanupFiles
<1>13. CASE CleanupRows
  BY <1>0, <1>13 DEF CleanupRows, NoRow
<1>14. CASE Restart
  BY <1>0, <1>14 DEF Restart
<1>15. CASE UNCHANGED vars
  BY <1>15 DEF vars
<1>16. QED
  BY <1>1, <1>2, <1>3, <1>4, <1>5, <1>7, <1>8, <1>9, <1>10, <1>11, <1>12, <1>13, <1>14, <1>15
     DEF Next, Work

\* Whatever is cancelled, cleaned up or restarted meanwhile, a job that says
\* success has its rows committed and its file complete (or cleaned up).
THEOREM SuccessBacked == Spec => []SuccessIsBacked
<1> DEFINE Inv == \A j \in Jobs : Backed(j)
<1>1. Init => Inv
  <2> SUFFICES ASSUME Init, NEW j \in Jobs PROVE Backed(j)
    OBVIOUS
  <2>1. row[j].status = "absent" /\ proc[j] = "off"
    BY DEF Init, NoRow
  <2>2. QED
    BY <2>1 DEF Backed, Ended
<1>2. TypeOK /\ TypeOK' /\ Inv /\ [Next]_vars => Inv'
  BY BackedStep
<1>3. Inv => SuccessIsBacked
  BY DEF Backed, ResultThere, SuccessIsBacked
<1> HIDE DEF Inv
<1>4. QED
  BY <1>1, <1>2, <1>3, TypeCorrect, PTL DEF Spec

-----------------------------------------------------------------------------
\* What a step does to a job that is cancelled.
StaysCancelled(i) ==
  /\ proc[i] = "waiting" => proc'[i] \in Ended \union {"waiting"}
  /\ proc[i] \in Ended \union {"waiting"} => row'[i].status \in {"cancelled", "deleted"}

LEMMA CancelledStep ==
  ASSUME TypeOK, [Next]_vars, NEW i \in Jobs, row[i].status = "cancelled"
  PROVE  StaysCancelled(i)
<1>0. row \in [Jobs -> Rows] /\ proc \in [Jobs -> Steps]
  BY DEF TypeOK
<1> USE DEF StaysCancelled, Ended
<1>1. ASSUME NEW j \in Jobs, SaveUpload(j) PROVE StaysCancelled(i)
  BY <1>1 DEF SaveUpload
<1>2. ASSUME NEW j \in Jobs, Create(j) PROVE StaysCancelled(i)
  BY <1>0, <1>2 DEF Create
<1>3. ASSUME NEW j \in Jobs, \/ FirstCheck(j) \/ ChunkCheck(j) \/ MoreChunks(j)
                            \/ Return(j) \/ Break(j)
      PROVE  StaysCancelled(i)
  BY <1>0, <1>3 DEF FirstCheck, ChunkCheck, MoreChunks, Return, Break, Proc
<1>4. ASSUME NEW j \in Jobs, Load(j) PROVE StaysCancelled(i)
  BY <1>0, <1>4 DEF Load, Proc
\* start_file_job writes over any status, for a task that has read its job.
<1>5. ASSUME NEW j \in Jobs, Start(j) PROVE StaysCancelled(i)
  <2>1. CASE i = j
    BY <1>5, <2>1 DEF Start, Proc
  <2>2. CASE i # j
    <3>1. row'[i] = row[i] /\ proc'[i] = proc[i]
      BY <1>0, <1>5, <2>2 DEF Start, Proc
    <3>2. QED
      BY <3>1
  <2>3. QED
    BY <2>1, <2>2
<1>6. ASSUME NEW j \in Jobs, ImportCommit(j) \/ OpenOutput(j) \/ CloseOutput(j)
      PROVE  StaysCancelled(i)
  BY <1>0, <1>6 DEF ImportCommit, OpenOutput, CloseOutput, Proc
<1>7. ASSUME NEW j \in Jobs, NEW from \in Steps \ (Ended \union {"waiting"}), NEW to,
             NEW newRow, EndProc(j, from, to, newRow)
      PROVE  StaysCancelled(i)
  <2>1. CASE i = j
    BY <1>7, <2>1 DEF EndProc, Proc
  <2>2. CASE i # j
    BY <1>0, <1>7, <2>2 DEF EndProc, Proc
  <2>3. QED
    BY <2>1, <2>2
<1>8. ASSUME NEW j \in Jobs, Complete(j) \/ MarkCancelled(j) \/ FailRead(j) \/ Fail(j)
      PROVE  StaysCancelled(i)
  <2>1. PICK from \in Steps \ (Ended \union {"waiting"}) : \E to, newRow :
          EndProc(j, from, to, newRow)
    BY <1>8 DEF Complete, MarkCancelled, FailRead, Fail, Steps
  <2>2. QED
    BY <1>7, <2>1
<1>9. ASSUME NEW c \in Cancellers, CancelWrite(c) PROVE StaysCancelled(i)
  <2>1. cancel[c].seen \in Rows /\ Sound(row[i])
    BY DEF TypeOK, Sound
  <2>2. Cancelled(row[i], cancel[c].seen).status = "cancelled"
    BY <2>1, CancelledSound
  <2>3. row'[i] = IF i = cancel[c].job THEN Cancelled(row[i], cancel[c].seen) ELSE row[i]
    BY <1>0, <1>9 DEF CancelWrite
  <2>4. row'[i].status = "cancelled"
    BY <2>2, <2>3
  <2>5. QED
    BY <1>9, <2>4 DEF CancelWrite
<1>10. ASSUME NEW j \in Jobs, Age(j) PROVE StaysCancelled(i)
  <2>1. row'[i].status = row[i].status
    BY <1>0, <1>10 DEF Age, Rows
  <2>2. QED
    BY <1>10, <2>1 DEF Age
<1>11. ASSUME NEW j \in Jobs, NEW c \in Cancellers, CancelRead(c, j) PROVE StaysCancelled(i)
  BY <1>11 DEF CancelRead
<1>12. CASE CleanupSelect \/ CleanupFiles
  BY <1>12 DEF CleanupSelect, CleanupFiles
<1>13. CASE CleanupRows
  BY <1>0, <1>13 DEF CleanupRows, NoRow
<1>14. CASE Restart
  BY <1>0, <1>14 DEF Restart
<1>15. CASE UNCHANGED vars
  BY <1>15 DEF vars
<1>16. QED
  BY <1>1, <1>2, <1>3, <1>4, <1>5, <1>6, <1>8, <1>9, <1>10, <1>11, <1>12, <1>13, <1>14, <1>15
     DEF Next, Work

\* A task that has yet to read its cancelled job never works on it, and a
\* cancelled row is only ever written over by a task that had read it before.
THEOREM CancelHolds == Spec => CancelledIsNotTakenUp
<1>1. TypeOK /\ [Next]_vars =>
        [\A j \in Jobs : row[j].status = "cancelled" =>
            /\ proc[j] = "waiting" => proc'[j] \in Ended \union {"waiting"}
            /\ proc[j] \in Ended \union {"waiting"} =>
                 row'[j].status \in {"cancelled", "deleted"}]_vars
  BY CancelledStep DEF StaysCancelled
<1>2. QED
  BY <1>1, TypeCorrect, PTL DEF Spec, CancelledIsNotTakenUp
=============================================================================

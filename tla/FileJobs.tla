------------------------------ MODULE FileJobs ------------------------------
(***************************************************************************)
(* Background import, export and backup jobs: app.services.file_jobs over  *)
(* the file_jobs table and the files of app.services.file_job_storage.     *)
(*                                                                         *)
(* One API process runs everything: the requests that create and cancel    *)
(* jobs, the deferred process_file_job of each job, and the cleanup.  Each *)
(* reads and writes the table through a session of its own; a step ends    *)
(* where a session commits or reads what another session may have changed. *)
(* The ORM writes only the columns that a step assigns, and it writes them *)
(* by primary key from what the session read earlier.                      *)
(***************************************************************************)
CONSTANTS Imports, Exports, Backups,  \* the jobs of every kind
          Cancellers,  \* concurrent cancel requests
          MayRestart,  \* whether the process may stop and start again
          NoJob

Jobs == Imports \union Exports \union Backups
Kind == [j \in Jobs |-> IF j \in Imports THEN "import" ELSE IF j \in Exports THEN "export" ELSE "backup"]

ASSUME FileJobsAssumption ==
  /\ Imports \intersect Exports = {} /\ Backups \intersect (Imports \union Exports) = {}
  /\ NoJob \notin Jobs /\ MayRestart \in BOOLEAN

VARIABLES
  row,       \* the table
  proc,      \* where process_file_job of each job is
  input,     \* jobs whose uploaded file is on disk
  output,    \* each job's generated file
  applied,   \* jobs whose imported rows are committed
  cancel,    \* each cancel request: the job and the row it has read
  cleanup    \* the running cleanup: the rows it selected, and those of them
             \* with an output path

vars == <<row, proc, input, output, applied, cancel, cleanup>>

-----------------------------------------------------------------------------
Terminal == {"success", "failed", "cancelled"}

\* flag: summary_json["cancel_requested"];  body: the rest of summary_json;
\* aged: finished_at lies before the cutoff of the cleanup;  out: whether
\* output_file_path is set.
Rows == [status : {"absent", "deleted", "queued", "running"} \union Terminal,
         flag : BOOLEAN, body : {"none", "params", "result"},
         finished : BOOLEAN, aged : BOOLEAN, out : BOOLEAN]

NoRow == [status |-> "absent", flag |-> FALSE, body |-> "none",
          finished |-> FALSE, aged |-> FALSE, out |-> FALSE]

Gone(r) == r.status \in {"absent", "deleted"}

\* "off": not dispatched, or returned;  "lost": it died with the process;
\* "broken": an exception that no handler caught ended it in a live process.
Ended == {"off", "lost", "broken"}

Steps == Ended \union {"waiting", "loaded", "started", "working", "chunk", "tail",
                       "written", "recorded", "cancelling"}

TypeOK ==
  /\ row \in [Jobs -> Rows]
  /\ \A j \in Jobs : row[j].status \in Terminal => row[j].finished
  /\ \A j \in Jobs : row[j].aged => row[j].finished
  /\ proc \in [Jobs -> Steps]
  /\ input \in SUBSET Jobs
  /\ output \in [Jobs -> {"none", "partial", "whole"}]
  /\ applied \in SUBSET Jobs
  /\ cancel \in [Cancellers -> [job : Jobs \union {NoJob}, seen : Rows]]
  /\ cleanup \in [phase : {"idle", "selected", "unlinked"}, rows : SUBSET Jobs, outs : SUBSET Jobs]

NoCleanup == [phase |-> "idle", rows |-> {}, outs |-> {}]

NoRequest == [job |-> NoJob, seen |-> NoRow]

Init ==
  /\ row = [j \in Jobs |-> NoRow]
  /\ proc = [j \in Jobs |-> "off"]
  /\ input = {}
  /\ output = [j \in Jobs |-> "none"]
  /\ applied = {}
  /\ cancel = [c \in Cancellers |-> NoRequest]
  /\ cleanup = NoCleanup

-----------------------------------------------------------------------------
(***************************************************************************)
(* Creation: an import saves its upload first, then the row is committed   *)
(* and process_file_job is scheduled in the same process.                  *)
(***************************************************************************)
SaveUpload(j) ==
  /\ Kind[j] = "import" /\ row[j].status = "absent" /\ j \notin input
  /\ input' = input \union {j}
  /\ UNCHANGED <<row, proc, output, applied, cancel, cleanup>>

Create(j) ==
  /\ row[j].status = "absent"
  /\ Kind[j] = "import" => j \in input
  /\ row' = [row EXCEPT ![j] = [NoRow EXCEPT !.status = "queued",
                                  !.body = IF Kind[j] = "backup" THEN "params" ELSE "none"]]
  /\ proc' = [proc EXCEPT ![j] = "waiting"]
  /\ UNCHANGED <<input, output, applied, cancel, cleanup>>

-----------------------------------------------------------------------------
(***************************************************************************)
(* process_file_job                                                        *)
(***************************************************************************)
Proc(j, from, to) == proc[j] = from /\ proc' = [proc EXCEPT ![j] = to]

\* Mutant: the queued job is not looked at again before it runs.
Load_NoCheck(j) ==
  /\ Proc(j, "waiting", "loaded")
  /\ UNCHANGED <<row, input, output, applied, cancel, cleanup>>

Load(j) ==
  /\ Proc(j, "waiting", IF Gone(row[j]) \/ row[j].status = "cancelled"
                      THEN "off" ELSE "loaded")
  /\ UNCHANGED <<row, input, output, applied, cancel, cleanup>>

\* start_file_job assigns the status whatever it is by now; an UPDATE that
\* meets no row raises, outside the handler that records failures.
Start(j) ==
  /\ Proc(j, "loaded", IF Gone(row[j]) THEN "broken" ELSE "started")
  /\ row' = [row EXCEPT ![j].status = IF Gone(row[j]) THEN @ ELSE "running"]
  /\ UNCHANGED <<input, output, applied, cancel, cleanup>>

\* Mutant: only an immediate cancellation is seen, not a recorded request.
CancelRequested_StatusOnly(j) == Gone(row[j]) \/ row[j].status = "cancelled"

CancelRequested(j) == Gone(row[j]) \/ row[j].status = "cancelled" \/ row[j].flag

\* The checkpoint before the work of every job type.
FirstCheck(j) ==
  /\ Proc(j, "started", IF CancelRequested(j) THEN "cancelling" ELSE "working")
  /\ UNCHANGED <<row, input, output, applied, cancel, cleanup>>

\* One committed batch of collection or wishlist rows.
ImportCommit(j) ==
  /\ Kind[j] = "import" /\ j \in input
  /\ Proc(j, "working", "written")
  /\ applied' = applied \union {j}
  /\ UNCHANGED <<row, input, output, cancel, cleanup>>

\* The output file is opened under a fresh name.
OpenOutput(j) ==
  /\ Kind[j] # "import"
  /\ Proc(j, "working", IF Kind[j] = "export" THEN "chunk" ELSE "tail")
  /\ output' = [output EXCEPT ![j] = "partial"]
  /\ UNCHANGED <<row, input, applied, cancel, cleanup>>

\* The checkpoint every CANCEL_CHECK_INTERVAL_ROWS rows of an export.
ChunkCheck(j) ==
  /\ Proc(j, "chunk", IF CancelRequested(j) THEN "cancelling" ELSE "tail")
  /\ UNCHANGED <<row, input, output, applied, cancel, cleanup>>

MoreChunks(j) ==
  /\ Kind[j] = "export" /\ Proc(j, "tail", "chunk")
  /\ UNCHANGED <<row, input, output, applied, cancel, cleanup>>

CloseOutput(j) ==
  /\ Proc(j, "tail", "written")
  /\ output' = [output EXCEPT ![j] = "whole"]
  /\ UNCHANGED <<row, input, applied, cancel, cleanup>>

\* Every write of a final status finds the row by its key and sets these.
Finished(r, status) ==
  [r EXCEPT !.status = status, !.finished = TRUE, !.aged = FALSE]

Succeeded(r, j) ==
  [Finished(r, "success") EXCEPT !.flag = FALSE, !.body = "result",
                                 !.out = Kind[j] # "import"]

\* The commit of a final status; with the row gone it raises, and so does the
\* handler that looks for the row to record the failure.
EndProc(j, from, to, newRow) ==
  /\ Proc(j, from, IF Gone(row[j]) THEN "broken" ELSE to)
  /\ row' = [row EXCEPT ![j] = IF Gone(@) THEN @ ELSE newRow]
  /\ UNCHANGED <<input, output, applied, cancel, cleanup>>

\* Mutant: the result is recorded while the file is still being written.
Complete_Early(j) ==
  EndProc(j, IF Kind[j] = "import" THEN "written" ELSE "tail", "recorded",
          Succeeded(row[j], j))

\* complete_file_job: the whole of summary_json is replaced, and the row is read
\* once more after the commit.
Complete(j) == EndProc(j, "written", "recorded", Succeeded(row[j], j))

Return(j) ==
  /\ Proc(j, "recorded", "off")
  /\ UNCHANGED <<row, input, output, applied, cancel, cleanup>>

\* Mutant: the handler returns at the checkpoint without recording anything.
MarkCancelled_Unrecorded(j) ==
  /\ Proc(j, "cancelling", "off")
  /\ UNCHANGED <<row, input, output, applied, cancel, cleanup>>

MarkCancelled(j) == EndProc(j, "cancelling", "off", Finished(row[j], "cancelled"))

\* read_input_text raises when the upload is gone.
FailRead(j) ==
  /\ Kind[j] = "import" /\ j \notin input
  /\ EndProc(j, "working", "off", Finished(row[j], "failed"))

\* An exception inside the try around the work, recorded by its handler: also one
\* of the read after a success was committed, which the failure then replaces.
Fail(j) ==
  \E from \in {"started", "working", "chunk", "tail", "written", "recorded"} :
    EndProc(j, from, "off", Finished(row[j], "failed"))

\* An exception that nothing records: of the reads and of the start before that
\* try, or of the handlers themselves (their rollback, _mark_cancelled,
\* fail_file_job).  The row stays as it is.
Break(j) ==
  /\ \E from \in Steps \ Ended : Proc(j, from, "broken")
  /\ UNCHANGED <<row, input, output, applied, cancel, cleanup>>

-----------------------------------------------------------------------------
(***************************************************************************)
(* Cancellation: the request reads the row, then writes what follows from  *)
(* that reading.                                                           *)
(***************************************************************************)
CancelRead(c, j) ==
  /\ cancel[c] = NoRequest
  /\ row[j].status \in {"queued", "running"}
  /\ cancel' = [cancel EXCEPT ![c] = [job |-> j, seen |-> row[j]]]
  /\ UNCHANGED <<row, proc, input, output, applied, cleanup>>

Cancelled(r, seen) ==
  IF Gone(r) THEN r
  ELSE IF seen.status = "queued" THEN Finished(r, "cancelled")
  ELSE [r EXCEPT !.flag = TRUE, !.body = seen.body]

CancelWrite(c) ==
  /\ cancel[c] # NoRequest
  /\ row' = [row EXCEPT ![cancel[c].job] = Cancelled(@, cancel[c].seen)]
  /\ cancel' = [cancel EXCEPT ![c] = NoRequest]
  /\ UNCHANGED <<proc, input, output, applied, cleanup>>

-----------------------------------------------------------------------------
(***************************************************************************)
(* Cleanup of old jobs: rows are selected, their files deleted, and the    *)
(* rows deleted in one commit at the end.  older_than_days may be zero.    *)
(***************************************************************************)
Age(j) ==
  /\ row[j].finished /\ ~row[j].aged
  /\ row' = [row EXCEPT ![j].aged = TRUE]
  /\ UNCHANGED <<proc, input, output, applied, cancel, cleanup>>

CleanupSelect ==
  /\ cleanup.phase = "idle"
  /\ LET old == {j \in Jobs : row[j].status \in Terminal /\ row[j].finished /\ row[j].aged} IN
       /\ old # {}
       /\ cleanup' = [phase |-> "selected", rows |-> old, outs |-> {j \in old : row[j].out}]
  /\ UNCHANGED <<row, proc, input, output, applied, cancel>>

CleanupFiles ==
  /\ cleanup.phase = "selected"
  /\ input' = input \ cleanup.rows
  /\ output' = [j \in Jobs |-> IF j \in cleanup.outs THEN "none" ELSE output[j]]
  /\ cleanup' = [cleanup EXCEPT !.phase = "unlinked"]
  /\ UNCHANGED <<row, proc, applied, cancel>>

CleanupRows ==
  /\ cleanup.phase = "unlinked"
  /\ row' = [j \in Jobs |-> IF j \in cleanup.rows THEN [NoRow EXCEPT !.status = "deleted"]
                            ELSE row[j]]
  /\ cleanup' = NoCleanup
  /\ UNCHANGED <<proc, input, output, applied, cancel>>

\* The process stops and starts again: deferred work and requests are lost.
Restart ==
  /\ MayRestart
  /\ proc' = [j \in Jobs |-> IF proc[j] \in Ended THEN proc[j] ELSE "lost"]
  /\ cancel' = [c \in Cancellers |-> NoRequest]
  /\ cleanup' = NoCleanup
  /\ UNCHANGED <<row, input, output, applied>>

-----------------------------------------------------------------------------
Work(j) == \/ Load(j) \/ Start(j) \/ FirstCheck(j)
           \/ ImportCommit(j) \/ FailRead(j) \/ OpenOutput(j) \/ ChunkCheck(j)
           \/ CloseOutput(j) \/ Complete(j) \/ Return(j) \/ MarkCancelled(j)

Next ==
  \/ \E j \in Jobs : \/ SaveUpload(j) \/ Create(j) \/ Work(j) \/ MoreChunks(j)
                     \/ Fail(j) \/ Break(j) \/ Age(j)
                     \/ \E c \in Cancellers : CancelRead(c, j)
  \/ \E c \in Cancellers : CancelWrite(c)
  \/ CleanupSelect \/ CleanupFiles \/ CleanupRows
  \/ Restart

Spec == Init /\ [][Next]_vars

\* A task that was scheduled runs, and an export has finitely many rows.
FairSpec == /\ Spec
            /\ \A j \in Jobs : WF_vars(Work(j)) /\ SF_vars(CloseOutput(j))

-----------------------------------------------------------------------------
(***************************************************************************)
(* Properties                                                              *)
(***************************************************************************)

\* A job that reports success has done its work: an import's rows are
\* committed, and the file a download would serve is never a partial one.
SuccessIsBacked ==
  \A j \in Jobs : row[j].status = "success" =>
    /\ Kind[j] = "import" => j \in applied
    /\ Kind[j] # "import" => output[j] # "partial"

\* A cancelled job is not taken up: a task that has yet to read the row ends
\* without working on it, and only a task that had read the row before the
\* cancellation was committed takes it out of "cancelled" (start_file_job,
\* complete_file_job and fail_file_job assign the status without looking at it).
CancelledIsNotTakenUp ==
  [][\A j \in Jobs : row[j].status = "cancelled" =>
       /\ proc[j] = "waiting" => proc'[j] \in Ended \union {"waiting"}
       /\ proc[j] \in Ended \union {"waiting"} =>
            row'[j].status \in {"cancelled", "deleted"}]_vars

\* A recorded request that is there at a checkpoint stops the job, unless the
\* process stops first or the task breaks off.
RequestHonoured ==
  \A j \in Jobs :
    (row[j].flag /\ proc[j] \in {"started", "chunk"}) ~>
      (proc[j] \in {"lost", "broken"} \/ row[j].status \in {"cancelled", "failed", "deleted"})

\* A task that returns leaves its job in a final status, and every dispatched
\* task returns.  The exceptions: its process stops ("lost"), or an exception
\* outside the handlers breaks it off ("broken"); both leave the row as it is,
\* and nothing looks at it again.
EveryJobEnds ==
  \A j \in Jobs :
    (proc[j] = "waiting") ~>
      \/ proc[j] \in {"lost", "broken"}
      \/ proc[j] = "off" /\ row[j].status \in Terminal \union {"deleted"}

=============================================================================

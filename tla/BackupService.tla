---------------------------- MODULE BackupService ----------------------------
(***************************************************************************)
(* Backups and restores of one database: modules/backup/backup.service.ts  *)
(* on top of the JobManager, the backups table, the backup files and the   *)
(* external tools.                                                         *)
(*                                                                         *)
(* Every step is the code between two awaits, or one event of a child      *)
(* process.  A backup and its job have one identity b.  Tools (pg_dump,    *)
(* pg_restore, psql) exit with any code at any time, for instance killed   *)
(* by the system, and outlive the server when it dies without them.        *)
(***************************************************************************)
EXTENDS JobManager, Naturals

CONSTANTS
  Backups,    \* backups, each with the job that makes it
  Restores,   \* restore jobs
  MaxBoots    \* bound: process starts

ASSUME JobsAssumption == Jobs = Backups \cup Restores /\ Backups \cap Restores = {}

VARIABLES
  server,     \* "up", "closing" (shutdown() waits for app.close()) or "down"
  rec,        \* status of the row of the backups table
  file,       \* the backup file, see Files
  proc,       \* the tool of a job, see Procs
  signal,     \* the strongest signal sent to the tool
  timer,      \* the kill timer of armTimeout()
  req,        \* where the request that starts the job is, see Requests
  source,     \* the backup a restore reads
  handler,    \* where the close handler of a backup is
  remover,    \* where deleteBackup(b) is
  unlinked,   \* auxiliary: the backups deleteBackup() was called for
  boots       \* counter behind MaxBoots

storage == <<rec, file>>
tools   == <<proc, signal, timer>>
calls   == <<req, source, handler, remover>>
vars    == <<jobVars, server, storage, tools, calls, unlinked, boots>>

(* A tool: not started; spawn failed; running; exited with a code (or a
   signal, code null) that Node has yet to report; reported; running or
   exited while no server listens. *)
Codes == {"zero", "nonzero", "null"}
Procs == Codes \cup {"none", "enoent", "running", "closed", "orphan"}

(* A file: not created yet; being written; whole; unlinked, which a tool that
   still has it open does not notice. *)
Files == {"none", "partial", "complete", "unlinked"}
OnDisk(b) == file[b] \in {"partial", "complete"}

(* A request: not made; waiting for mkdir or stat; for CREATE DATABASE;
   started; rejected. *)
Requests == {"none", "waiting", "creating", "started", "rejected"}

Records == Statuses \cup {"deleted"}
Listed(b) == rec[b] \notin {"none", "deleted"}

TypeOK ==
  /\ JobTypeOK
  /\ server \in {"up", "closing", "down"}
  /\ rec \in [Backups -> Records]
  /\ file \in [Backups -> Files]
  /\ proc \in [Jobs -> Procs]
  /\ signal \in [Jobs -> {"none", "TERM", "KILL"}]
  /\ timer \in [Jobs -> BOOLEAN]
  /\ req \in [Jobs -> Requests]
  /\ source \in [Restores -> Backups \cup {"none"}]
  /\ handler \in [Backups -> {"none", "stat", "unlink", "done"}]
  /\ remover \in [Backups -> {"none", "closing", "unlinking"}]
  /\ unlinked \in SUBSET Backups
  /\ boots \in Nat

Init ==
  /\ JobInit
  /\ server = "up" /\ boots = 1
  /\ rec = [b \in Backups |-> "none"]
  /\ file = [b \in Backups |-> "none"]
  /\ proc = [j \in Jobs |-> "none"]
  /\ signal = [j \in Jobs |-> "none"]
  /\ timer = [j \in Jobs |-> FALSE]
  /\ req = [j \in Jobs |-> "none"]
  /\ source = [r \in Restores |-> "none"]
  /\ handler = [b \in Backups |-> "none"]
  /\ remover = [b \in Backups |-> "none"]
  /\ unlinked = {}

-----------------------------------------------------------------------------
(* External tools *)

(* spawn(), attachProcess() and armTimeout(); the tool may be missing. *)
Spawn(j) ==
  /\ \E p \in {"running", "enoent"} : proc' = [proc EXCEPT ![j] = p]
  /\ timer' = [timer EXCEPT ![j] = TRUE]

(* ChildProcess.kill(): a tool that is gone hears nothing. *)
Signaled(j, sig) == IF proc[j] = "running" /\ signal[j] # "KILL" THEN sig ELSE signal[j]

(* pg_dump creates its output file. *)
OpenFile(b) ==
  /\ proc[b] \in {"running", "orphan"}
  /\ file[b] = "none"
  /\ file' = [file EXCEPT ![b] = "partial"]
  /\ UNCHANGED <<jobVars, server, rec, tools, calls, unlinked, boots>>

(* A tool exits.  Code 0 from pg_dump means that all of the file is written. *)
Exit(j) ==
  /\ proc[j] \in {"running", "orphan"}
  /\ \E code \in Codes :
       /\ code = "zero" /\ j \in Backups => file[j] # "none"
       /\ proc' = [proc EXCEPT ![j] = IF @ = "running" THEN code ELSE "closed"]
       /\ file' = IF code = "zero" /\ j \in Backups /\ file[j] = "partial"
                    THEN [file EXCEPT ![j] = "complete"] ELSE file
  /\ UNCHANGED <<jobVars, server, rec, signal, timer, calls, unlinked, boots>>

(* The 'error' event of a tool that could not be spawned. *)
SpawnError(j) ==
  /\ proc[j] = "enoent" /\ server # "down"
  /\ FinishJob(j, "failed")
  /\ proc' = [proc EXCEPT ![j] = "nonzero"]
  /\ UNCHANGED <<server, storage, signal, timer, calls, unlinked, boots>>

(* Fault: the timer asks the tool to end instead of killing it. *)
TimeoutAsksNicely(j) ==
  /\ timer[j] /\ server # "down"
  /\ timer' = [timer EXCEPT ![j] = FALSE]
  /\ FinishJob(j, "failed")
  /\ signal' = [signal EXCEPT ![j] = Signaled(j, "TERM")]
  /\ UNCHANGED <<server, storage, proc, calls, unlinked, boots>>

(* Fault: the timer writes its verdict without asking for the job's status. *)
TimeoutOverwrites(j) ==
  /\ timer[j] /\ server # "down"
  /\ timer' = [timer EXCEPT ![j] = FALSE]
  /\ live' = [live EXCEPT ![j] = "failed"] /\ row' = [row EXCEPT ![j] = "failed"]
  /\ signal' = [signal EXCEPT ![j] = Signaled(j, "KILL")]
  /\ UNCHANGED <<server, storage, proc, calls, unlinked, boots>>

(* The kill timer fires: the job fails, the tool is killed. *)
Timeout(j) ==
  /\ timer[j] /\ server # "down"
  /\ timer' = [timer EXCEPT ![j] = FALSE]
  /\ FinishJob(j, "failed")
  /\ signal' = [signal EXCEPT ![j] = Signaled(j, "KILL")]
  /\ UNCHANGED <<server, storage, proc, calls, unlinked, boots>>

-----------------------------------------------------------------------------
(* createBackup() *)

(* A request or a schedule, up to `await mkdir'. *)
RequestBackup(b) ==
  /\ server = "up" /\ req[b] = "none"
  /\ req' = [req EXCEPT ![b] = "waiting"]
  /\ UNCHANGED <<jobVars, server, storage, tools, source, handler, remover,
                 unlinked, boots>>

(* The rest: job, record and pg_dump.  Shutdown may have begun. *)
StartBackup(b) ==
  /\ server # "down" /\ req[b] = "waiting"
  /\ req' = [req EXCEPT ![b] = "started"]
  /\ CreateJob(b)
  /\ rec' = [rec EXCEPT ![b] = "running"]
  /\ Spawn(b)
  /\ UNCHANGED <<server, file, signal, source, handler, remover, unlinked, boots>>

(* markFinished(): an UPDATE, without effect when the row was deleted. *)
MarkFinished(b, status) ==
  rec' = IF Listed(b) THEN [rec EXCEPT ![b] = status] ELSE rec

(* The 'close' event of pg_dump; the kill timer is cleared first. *)
CloseReported(j) ==
  /\ server # "down"
  /\ proc[j] \in Codes
  /\ proc' = [proc EXCEPT ![j] = "closed"]
  /\ timer' = [timer EXCEPT ![j] = FALSE]

(* Fault: a dump that was killed counts as a success. *)
DumpSucceededAnyhow(b) ==
  /\ proc[b] \in {"zero", "null"} /\ CloseReported(b)
  /\ handler' = [handler EXCEPT ![b] = "stat"]
  /\ UNCHANGED <<jobVars, server, storage, signal, req, source, remover,
                 unlinked, boots>>

(* Code 0: the end is recorded only after `await stat'. *)
DumpSucceeded(b) ==
  /\ proc[b] = "zero" /\ CloseReported(b)
  /\ handler' = [handler EXCEPT ![b] = "stat"]
  /\ UNCHANGED <<jobVars, server, storage, signal, req, source, remover,
                 unlinked, boots>>

RecordSuccess(b) ==
  /\ server # "down" /\ handler[b] = "stat"
  /\ FinishJob(b, "success")
  /\ MarkFinished(b, "success")
  /\ handler' = [handler EXCEPT ![b] = "done"]
  /\ UNCHANGED <<server, file, tools, req, source, remover, unlinked, boots>>

(* Fault: a failed dump ends its record but not its job. *)
DumpFailedForgetsJob(b) ==
  /\ proc[b] \in {"nonzero", "null"} /\ CloseReported(b)
  /\ MarkFinished(b, IF proc[b] = "null" THEN "canceled" ELSE "failed")
  /\ handler' = [handler EXCEPT ![b] = "unlink"]
  /\ UNCHANGED <<jobVars, server, file, signal, req, source, remover, unlinked, boots>>

(* Any other code, null included: recorded at once, then `await unlink'. *)
DumpFailed(b) ==
  /\ proc[b] \in {"nonzero", "null"} /\ CloseReported(b)
  /\ LET status == IF proc[b] = "null" THEN "canceled" ELSE "failed"
     IN  FinishJob(b, status) /\ MarkFinished(b, status)
  /\ handler' = [handler EXCEPT ![b] = "unlink"]
  /\ UNCHANGED <<server, file, signal, req, source, remover, unlinked, boots>>

Unlink(b) == file' = IF OnDisk(b) THEN [file EXCEPT ![b] = "unlinked"] ELSE file

(* Fault: a partial file stays. *)
PartialStays(b) ==
  /\ server # "down" /\ handler[b] = "unlink"
  /\ handler' = [handler EXCEPT ![b] = "done"]
  /\ UNCHANGED <<jobVars, server, storage, tools, req, source, remover, unlinked, boots>>

RemovePartial(b) ==
  /\ server # "down" /\ handler[b] = "unlink"
  /\ Unlink(b)
  /\ handler' = [handler EXCEPT ![b] = "done"]
  /\ UNCHANGED <<jobVars, server, rec, tools, req, source, remover, unlinked, boots>>

-----------------------------------------------------------------------------
(* restoreBackup() and startRestore() *)

(* Up to `await stat'. *)
RequestRestore(r, b) ==
  /\ server = "up" /\ req[r] = "none"
  /\ Listed(b) /\ rec[b] = "success"
  /\ req' = [req EXCEPT ![r] = "waiting"]
  /\ source' = [source EXCEPT ![r] = b]
  /\ UNCHANGED <<jobVars, server, storage, tools, handler, remover, unlinked, boots>>

(* The file is there: on to createDatabaseIfRequested(). *)
SourceFound(r) ==
  /\ server # "down" /\ req[r] = "waiting"
  /\ OnDisk(source[r])
  /\ req' = [req EXCEPT ![r] = "creating"]
  /\ UNCHANGED <<jobVars, server, storage, tools, source, handler, remover,
                 unlinked, boots>>

(* "Backup file is missing from disk", or the database cannot be created. *)
RejectRestore(r) ==
  /\ server # "down"
  /\ \/ req[r] = "waiting" /\ ~OnDisk(source[r])
     \/ req[r] = "creating"
  /\ req' = [req EXCEPT ![r] = "rejected"]
  /\ UNCHANGED <<jobVars, server, storage, tools, source, handler, remover,
                 unlinked, boots>>

(* Nobody asks for the file again before the tool is started on it. *)
StartRestore(r) ==
  /\ server # "down" /\ req[r] = "creating"
  /\ req' = [req EXCEPT ![r] = "started"]
  /\ CreateJob(r)
  /\ Spawn(r)
  /\ UNCHANGED <<server, storage, signal, source, handler, remover, unlinked, boots>>

(* Fault: a restore that was killed does not end its job. *)
RestoreClosedIgnoresKill(r) ==
  /\ CloseReported(r)
  /\ IF proc[r] = "null" THEN UNCHANGED jobVars
     ELSE FinishJob(r, IF proc[r] = "zero" THEN "success" ELSE "failed")
  /\ UNCHANGED <<server, storage, signal, calls, unlinked, boots>>

RestoreClosed(r) ==
  /\ CloseReported(r)
  /\ FinishJob(r, CASE proc[r] = "zero" -> "success"
                    [] proc[r] = "null" -> "canceled"
                    [] OTHER            -> "failed")
  /\ UNCHANGED <<server, storage, signal, calls, unlinked, boots>>

-----------------------------------------------------------------------------
(* cancel(), deleteBackup(), and the entry that is released *)

Cancel(j) ==
  /\ server # "down" /\ Running(j)
  /\ signal' = [signal EXCEPT ![j] = Signaled(j, "TERM")]
  /\ FinishJob(j, "canceled")
  /\ UNCHANGED <<server, storage, proc, timer, calls, unlinked, boots>>

Release(j) ==
  /\ server # "down"
  /\ ReleaseJob(j)
  /\ UNCHANGED <<server, storage, tools, calls, unlinked, boots>>

(* byId(), then `await closeInspection'.  Nothing asks whether the backup is
   still running. *)
RequestDelete(b) ==
  /\ server = "up" /\ remover[b] = "none" /\ Listed(b)
  /\ remover' = [remover EXCEPT ![b] = "closing"]
  /\ unlinked' = unlinked \cup {b}
  /\ UNCHANGED <<jobVars, server, storage, tools, req, source, handler, boots>>

DeleteFile(b) ==
  /\ server # "down" /\ remover[b] = "closing"
  /\ Unlink(b)
  /\ remover' = [remover EXCEPT ![b] = "unlinking"]
  /\ UNCHANGED <<jobVars, server, rec, tools, req, source, handler, unlinked, boots>>

DeleteRecord(b) ==
  /\ server # "down" /\ remover[b] = "unlinking"
  /\ rec' = [rec EXCEPT ![b] = "deleted"]
  /\ remover' = [remover EXCEPT ![b] = "none"]
  /\ UNCHANGED <<jobVars, server, file, tools, req, source, handler, unlinked, boots>>

-----------------------------------------------------------------------------
(* Shutdown, crash, restart *)

(* shutdown(): jobs.shutdown() kills and cancels, then `await app.close()'. *)
Shutdown ==
  /\ server = "up"
  /\ server' = "closing"
  /\ signal' = [j \in Jobs |-> IF Running(j) THEN Signaled(j, "TERM") ELSE signal[j]]
  /\ CancelRunning
  /\ UNCHANGED <<storage, proc, timer, calls, unlinked, boots>>

(* process.exit(), or a crash: the tools that still run are orphans, the
   events of the others are never handled. *)
Stop ==
  /\ server # "down"
  /\ server' = "down"
  /\ ForgetLive
  /\ proc' = [j \in Jobs |-> CASE proc[j] = "running" -> "orphan"
                               [] proc[j] \in Codes \cup {"enoent"} -> "closed"
                               [] OTHER -> proc[j]]
  /\ timer' = [j \in Jobs |-> FALSE]
  /\ req' = [j \in Jobs |-> IF req[j] \in {"waiting", "creating"} THEN "rejected"
                            ELSE req[j]]
  /\ handler' = [b \in Backups |-> IF handler[b] = "done" THEN "done" ELSE "none"]
  /\ remover' = [b \in Backups |-> "none"]
  /\ UNCHANGED <<storage, signal, source, unlinked, boots>>

Boot ==
  /\ server = "down" /\ boots < MaxBoots
  /\ server' = "up"
  /\ boots' = boots + 1
  /\ FailInterrupted
  /\ UNCHANGED <<storage, tools, calls, unlinked>>

Tool(j) == Exit(j) \/ SpawnError(j) \/ Timeout(j)

Backup(b) ==
  \/ OpenFile(b) \/ RequestBackup(b) \/ StartBackup(b)
  \/ DumpSucceeded(b) \/ RecordSuccess(b) \/ DumpFailed(b) \/ RemovePartial(b)
  \/ RequestDelete(b) \/ DeleteFile(b) \/ DeleteRecord(b)

Restore(r) ==
  \/ \E b \in Backups : RequestRestore(r, b)
  \/ SourceFound(r) \/ RejectRestore(r) \/ StartRestore(r) \/ RestoreClosed(r)

Next ==
  \/ \E j \in Jobs : Tool(j) \/ Cancel(j) \/ Release(j)
  \/ \E b \in Backups : Backup(b)
  \/ \E r \in Restores : Restore(r)
  \/ Shutdown \/ Stop \/ Boot

Spec == Init /\ [][Next]_vars

(***************************************************************************)
(* Node reports what has happened and timers fire, while the server lives; *)
(* a tool that is sent SIGKILL exits.  A tool left alone may hang for ever,*)
(* and nobody has to cancel, delete, stop or restart anything.             *)
(***************************************************************************)
Fairness ==
  /\ \A j \in Jobs : /\ WF_vars(SpawnError(j) \/ Timeout(j))
                     /\ WF_vars(signal[j] = "KILL" /\ Exit(j))
  /\ \A b \in Backups : WF_vars(\/ DumpSucceeded(b) \/ RecordSuccess(b)
                                \/ DumpFailed(b) \/ RemovePartial(b))
  /\ \A r \in Restores : WF_vars(RestoreClosed(r))

FairSpec == Spec /\ Fairness

-----------------------------------------------------------------------------
(* Properties *)

(* Exit codes, the kill timer, cancel, shutdown and restart all end jobs;
   together they drive each job through the life JobManager allows. *)
ImplementsJobManager == JobSpec

(* A backup that failed or was canceled leaves no file behind once its close
   handler has run (backup.service.ts:124-136), whatever was deleted or
   canceled meanwhile. *)
FailureLeavesNoFile ==
  \A b \in Backups :
    rec[b] \in {"failed", "canceled"} /\ handler[b] = "done" => ~OnDisk(b)

(* A backup listed as a success has its whole file, unless somebody asked to
   delete it (backup.service.ts:116-119, 242-247). *)
SuccessHasFile ==
  \A b \in Backups : rec[b] = "success" /\ b \notin unlinked => file[b] = "complete"

(* Rows and files follow each other, whatever ends the job. *)
FilesFollowRows == FailureLeavesNoFile /\ SuccessHasFile

(* The job and the record of a backup are written by different events; they
   may call a failure by different names, but one never says success where
   the other says failure, except for a cancel or a timeout that comes while
   the end of a good dump is being recorded. *)
RecordAgreesWithJob ==
  \A b \in Backups :
    /\ row[b] = "success" => rec[b] \in {"success", "deleted"}
    /\ rec[b] \in {"failed", "canceled"} => row[b] \in {"failed", "canceled"}
    /\ rec[b] = "success" => row[b] \in Ended

(* A job that runs has something that will end it: a tool, an event Node has
   yet to report, or a close handler waiting for stat. *)
RunningJobIsDriven ==
  \A j \in Jobs :
    Running(j) => \/ proc[j] \in Codes \cup {"running", "enoent"}
                  \/ j \in Backups /\ handler[j] = "stat"

(* Jobs are ended by what becomes of their tools, and records with them. *)
JobsFollowTools == RecordAgreesWithJob /\ RunningJobIsDriven

(* The inductive invariant behind them: how far rows, events and processes of
   a job can be apart, and who may have taken a file away. *)
RowsFollowTools ==
  /\ \A j \in Jobs :
       /\ row[j] = "none" => proc[j] = "none"
       /\ row[j] = "running" /\ server # "down" => Running(j)
       /\ proc[j] = "orphan" => ~Running(j)
  /\ \A b \in Backups :
       /\ (rec[b] = "none") <=> (row[b] = "none")
       /\ row[b] = "success" => handler[b] = "done"
       /\ rec[b] \in Ended \/ handler[b] # "none" => proc[b] = "closed"
       /\ handler[b] = "stat" => rec[b] \in {"running", "deleted"}
       /\ handler[b] = "unlink" => rec[b] # "success"

FilesFollowTools ==
  \A b \in Backups :
    /\ proc[b] = "zero" \/ handler[b] = "stat" => file[b] \in {"complete", "unlinked"}
    /\ file[b] = "unlinked" =>
         b \in unlinked \/ (handler[b] = "done" /\ rec[b] # "success")
    /\ remover[b] # "none" => b \in unlinked /\ rec[b] # "none"

IInv ==
  /\ TypeOK /\ LiveAgreesWithRow /\ RowsFollowTools /\ FilesFollowTools
  /\ RecordAgreesWithJob /\ SuccessHasFile /\ FailureLeavesNoFile
  /\ RunningJobIsDriven

(* "A hung dump/restore must never survive forever" (backup.service.ts:375):
   the tool of every job ends, and its record with it, if the server lives. *)
HungToolsEnd ==
  /\ \A j \in Jobs : (proc[j] = "running") ~> (proc[j] # "running")
  /\ \A b \in Backups :
       (proc[b] = "running") ~> (rec[b] # "running" \/ server = "down")
=============================================================================

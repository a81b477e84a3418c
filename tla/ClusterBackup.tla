---------------------------- MODULE ClusterBackup ----------------------------
(***************************************************************************)
(* Whole-server backups and their restores: the pipelines of               *)
(* modules/backup/cluster.service.ts on top of the JobManager, the         *)
(* cluster_backups table and the bundle files.                             *)
(*                                                                         *)
(* A pipeline is one async function that runs tools one after another:     *)
(* tool 0 is for the globals (pg_dumpall, or psql on a restore), tools     *)
(* 1..Databases dump or restore one database each.  Every step is the code *)
(* between two awaits; cancel, delete, shutdown and crash come in between. *)
(***************************************************************************)
EXTENDS JobManager, Naturals

CONSTANTS
  Bundles,     \* whole-server backups, each with the job that makes it
  Restores,    \* restore jobs
  Databases,   \* number of databases of the server
  MaxBoots     \* bound: process starts

ASSUME PipelinesAssumption ==
  /\ Jobs = Bundles \cup Restores /\ Bundles \cap Restores = {}
  /\ Databases \in Nat \ {0}

VARIABLES
  server,     \* "up", "closing" (shutdown() waits for app.close()) or "down"
  rec,        \* status of the row of cluster_backups
  captured,   \* globalsCaptured, and then the manifest's includesGlobals
  file,       \* the bundle, see Files
  work,       \* the work directory of a pipeline exists
  stage,      \* the await at which a pipeline is, see Stages
  tool,       \* the tool that runs, or the next one
  globals,    \* the request asks for the globals
  source,     \* the bundle a restore reads
  proc,       \* the process attached to a job, see Procs
  timer,      \* the kill timer of that process
  remover,    \* deleteBackup(b) has unlinked the file, the row is next
  unlinked,   \* auxiliary: the bundles deleteBackup() was called for
  boots       \* counter behind MaxBoots

bundle  == <<rec, captured>>
process == <<proc, timer>>
request == <<globals, source>>
delete  == <<remover, unlinked>>
vars    == <<jobVars, server, bundle, file, work, stage, tool, request, process,
             delete, boots>>

(* The attached process: none yet; spawn failed; running; killed by the timer
   but not gone; exited with a code that Node has yet to report; reported. *)
Codes == {"zero", "nonzero", "null"}
Procs == Codes \cup {"none", "enoent", "running", "killed", "closed"}

Files == {"none", "partial", "complete", "unlinked"}
OnDisk(b) == file[b] \in {"partial", "complete"}

(* listDatabases or contents() of the request; the first awaits of the
   pipeline; run(); the files between two tools; the manifest; packTar();
   the unlink of a failed bundle; the removal of the work directory.  A
   pipeline is lost with the process that runs it. *)
Active == {"preparing", "tool", "between", "packing", "writing"}
Ending == {"unlinking", "sweeping"}
Stages == Active \cup Ending \cup {"none", "asking", "rejected", "done", "lost"}

Listed(b) == rec[b] \notin {"none", "deleted"}

TypeOK ==
  /\ JobTypeOK
  /\ server \in {"up", "closing", "down"}
  /\ rec \in [Bundles -> Statuses \cup {"deleted"}]
  /\ captured \in [Bundles -> BOOLEAN]
  /\ file \in [Bundles -> Files]
  /\ work \in [Jobs -> BOOLEAN]
  /\ stage \in [Jobs -> Stages]
  /\ tool \in [Jobs -> Nat]
  /\ globals \in [Jobs -> BOOLEAN]
  /\ source \in [Restores -> Bundles \cup {"none"}]
  /\ proc \in [Jobs -> Procs]
  /\ timer \in [Jobs -> BOOLEAN]
  /\ remover \in [Bundles -> BOOLEAN]
  /\ unlinked \in SUBSET Bundles
  /\ boots \in Nat

Init ==
  /\ JobInit
  /\ server = "up" /\ boots = 1
  /\ rec = [b \in Bundles |-> "none"]
  /\ captured = [b \in Bundles |-> FALSE]
  /\ file = [b \in Bundles |-> "none"]
  /\ work = [j \in Jobs |-> FALSE]
  /\ stage = [j \in Jobs |-> "none"]
  /\ tool = [j \in Jobs |-> 0]
  /\ globals = [j \in Jobs |-> FALSE]
  /\ source = [r \in Restores |-> "none"]
  /\ proc = [j \in Jobs |-> "none"]
  /\ timer = [j \in Jobs |-> FALSE]
  /\ remover = [b \in Bundles |-> FALSE]
  /\ unlinked = {}

-----------------------------------------------------------------------------
(* run() and the pipelines' ends *)

At(j, s) == server # "down" /\ stage[j] = s
Go(j, s) == stage' = [stage EXCEPT ![j] = s]

(* run(): the tool is spawned and attached to the job, whatever the job's
   status is by now. *)
Run(j, i) ==
  /\ tool' = [tool EXCEPT ![j] = i]
  /\ \E p \in {"running", "enoent"} : proc' = [proc EXCEPT ![j] = p]
  /\ timer' = [timer EXCEPT ![j] = TRUE]
  /\ Go(j, "tool")

(* The head of the loop over the databases. *)
Loop(b, i) ==
  IF i \in 0 .. Databases
    THEN Run(b, i)
    ELSE Go(b, "packing") /\ UNCHANGED <<tool, process>>

(* markFinished(): an UPDATE, without effect when the row was deleted. *)
MarkFinished(b, status) ==
  rec' = IF Listed(b) THEN [rec EXCEPT ![b] = status] ELSE rec

(* Fault: a failure ends the row of the bundle but not its job. *)
FailForgetsJob(j, status) ==
  /\ UNCHANGED jobVars
  /\ IF j \in Bundles THEN MarkFinished(j, status) /\ Go(j, "unlinking")
                      ELSE Go(j, "sweeping") /\ UNCHANGED rec

(* The catch block of runBackup() and runRestore(). *)
Fail(j, status) ==
  /\ FinishJob(j, status)
  /\ IF j \in Bundles THEN MarkFinished(j, status) /\ Go(j, "unlinking")
                      ELSE Go(j, "sweeping") /\ UNCHANGED rec

(* A tool exits with any code: a tool that is sent SIGTERM may catch it. *)
Exit(j) ==
  /\ proc[j] \in {"running", "killed"}
  /\ \E code \in Codes :
       /\ proc[j] = "killed" => code = "null"
       /\ proc' = [proc EXCEPT ![j] = code]
  /\ UNCHANGED <<jobVars, server, bundle, file, work, stage, tool, request, timer,
                 delete, boots>>

(* Fault: the timer kills nothing. *)
TimeoutHarmless(j) ==
  /\ timer[j] /\ server # "down"
  /\ timer' = [timer EXCEPT ![j] = FALSE]
  /\ UNCHANGED <<jobVars, server, bundle, file, work, stage, tool, request, proc, delete,
                 boots>>

(* The kill timer: SIGKILL, and nothing is written down. *)
Timeout(j) ==
  /\ timer[j] /\ server # "down"
  /\ timer' = [timer EXCEPT ![j] = FALSE]
  /\ proc' = [proc EXCEPT ![j] = IF @ = "running" THEN "killed" ELSE @]
  /\ UNCHANGED <<jobVars, server, bundle, file, work, stage, tool, request, delete,
                 boots>>

(* The 'error' event of a tool that could not be spawned rejects run(). *)
SpawnError(j) ==
  /\ At(j, "tool") /\ proc[j] = "enoent"
  /\ proc' = [proc EXCEPT ![j] = "closed"]
  /\ timer' = [timer EXCEPT ![j] = FALSE]
  /\ Fail(j, "failed")
  /\ UNCHANGED <<server, captured, file, work, tool, request, delete, boots>>

(* The finally block. *)
Sweep(j) ==
  /\ At(j, "sweeping")
  /\ work' = [work EXCEPT ![j] = FALSE]
  /\ Go(j, "done")
  /\ UNCHANGED <<jobVars, server, bundle, file, tool, request, process, delete, boots>>

-----------------------------------------------------------------------------
(* createBackup() and runBackup() *)

(* Up to `await listDatabases', then `await mkdir'. *)
RequestBackup(b) ==
  /\ server = "up" /\ stage[b] = "none"
  /\ \E g \in BOOLEAN : globals' = [globals EXCEPT ![b] = g]
  /\ Go(b, "asking")
  /\ UNCHANGED <<jobVars, server, bundle, file, work, tool, source, process, delete,
                 boots>>

(* The server cannot be asked, or lets this role into no database; the
   bundle a restore asks for cannot be read. *)
Reject(j) ==
  /\ At(j, "asking")
  /\ Go(j, "rejected")
  /\ UNCHANGED <<jobVars, server, bundle, file, work, tool, request, process, delete,
                 boots>>

StartBackup(b) ==
  /\ At(b, "asking")
  /\ CreateJob(b)
  /\ rec' = [rec EXCEPT ![b] = "running"]
  /\ Go(b, "preparing")
  /\ UNCHANGED <<server, captured, file, work, tool, request, process, delete, boots>>

BackupPrepared(b) ==
  /\ At(b, "preparing")
  /\ work' = [work EXCEPT ![b] = TRUE]
  /\ Loop(b, IF globals[b] THEN 0 ELSE 1)
  /\ UNCHANGED <<jobVars, server, bundle, file, request, delete, boots>>

(* 'close' of the tool the pipeline waits for; its timer is cleared. *)
Exited(j) == At(j, "tool") /\ proc[j] \in Codes

CloseReported(j) ==
  /\ Exited(j)
  /\ proc' = [proc EXCEPT ![j] = "closed"]
  /\ timer' = [timer EXCEPT ![j] = FALSE]

(* pg_dumpall: any code but 0, null included, skips the globals; the first
   pg_dump starts at once. *)
GlobalsDumped(b) ==
  /\ tool[b] = 0 /\ Exited(b)
  /\ captured' = [captured EXCEPT ![b] = proc[b] = "zero"]
  /\ Run(b, 1)
  /\ UNCHANGED <<jobVars, server, rec, file, work, request, delete, boots>>

(* pg_dump with code 0: `await stat', then the next database. *)
DatabaseDumped(b) ==
  /\ tool[b] > 0 /\ proc[b] = "zero" /\ CloseReported(b)
  /\ tool' = [tool EXCEPT ![b] = @ + 1]
  /\ Go(b, "between")
  /\ UNCHANGED <<jobVars, server, bundle, file, work, request, delete, boots>>

DumpFailed(b) ==
  /\ tool[b] > 0 /\ proc[b] # "zero" /\ CloseReported(b)
  /\ Fail(b, IF proc[b] = "null" THEN "canceled" ELSE "failed")
  /\ UNCHANGED <<server, captured, file, work, tool, request, delete, boots>>

NextDatabase(b) ==
  /\ At(b, "between")
  /\ Loop(b, tool[b])
  /\ UNCHANGED <<jobVars, server, bundle, file, work, request, delete, boots>>

(* Fault: packTar() is not awaited. *)
OpenBundleUnawaited(b) ==
  /\ At(b, "packing")
  /\ file' = [file EXCEPT ![b] = "partial"]
  /\ FinishJob(b, "success")
  /\ MarkFinished(b, "success")
  /\ Go(b, "sweeping")
  /\ UNCHANGED <<server, captured, work, tool, request, process, delete, boots>>

(* packTar() creates the bundle... *)
OpenBundle(b) ==
  /\ At(b, "packing")
  /\ file' = [file EXCEPT ![b] = "partial"]
  /\ Go(b, "writing")
  /\ UNCHANGED <<jobVars, server, bundle, work, tool, request, process, delete, boots>>

(* Fault: success overwrites a cancel. *)
PackedOverwrites(b) ==
  /\ At(b, "writing")
  /\ file' = [file EXCEPT ![b] = IF @ = "partial" THEN "complete" ELSE @]
  /\ live' = [live EXCEPT ![b] = "success"] /\ row' = [row EXCEPT ![b] = "success"]
  /\ MarkFinished(b, "success")
  /\ Go(b, "sweeping")
  /\ UNCHANGED <<server, captured, work, tool, request, process, delete, boots>>

(* ...and writes it; job and row are ended in one go. *)
Packed(b) ==
  /\ At(b, "writing")
  /\ file' = [file EXCEPT ![b] = IF @ = "partial" THEN "complete" ELSE @]
  /\ FinishJob(b, "success")
  /\ MarkFinished(b, "success")
  /\ Go(b, "sweeping")
  /\ UNCHANGED <<server, captured, work, tool, request, process, delete, boots>>

(* A file operation of the pipeline fails, or CREATE DATABASE. *)
FilesFail(j) ==
  /\ server # "down"
  /\ \/ stage[j] \in {"preparing", "packing", "writing"}
     \/ stage[j] = "between" /\ j \in Restores /\ tool[j] <= Databases
  /\ Fail(j, "failed")
  /\ UNCHANGED <<server, captured, file, work, tool, request, process, delete, boots>>

Unlink(b) == file' = IF OnDisk(b) THEN [file EXCEPT ![b] = "unlinked"] ELSE file

(* Fault: a partial bundle stays. *)
PartialStays(b) ==
  /\ At(b, "unlinking")
  /\ Go(b, "sweeping")
  /\ UNCHANGED <<jobVars, server, bundle, file, work, tool, request, process, delete, boots>>

RemovePartial(b) ==
  /\ At(b, "unlinking")
  /\ Unlink(b)
  /\ Go(b, "sweeping")
  /\ UNCHANGED <<jobVars, server, bundle, work, tool, request, process, delete, boots>>

-----------------------------------------------------------------------------
(* restore() and runRestore() *)

(* Up to `await contents'. *)
RequestRestore(r, b) ==
  /\ server = "up" /\ stage[r] = "none"
  /\ rec[b] = "success"
  /\ source' = [source EXCEPT ![r] = b]
  /\ \E g \in BOOLEAN : globals' = [globals EXCEPT ![r] = g]
  /\ Go(r, "asking")
  /\ UNCHANGED <<jobVars, server, bundle, file, work, tool, process, delete, boots>>

StartRestore(r) ==
  /\ At(r, "asking") /\ OnDisk(source[r])
  /\ CreateJob(r)
  /\ Go(r, "preparing")
  /\ UNCHANGED <<server, bundle, file, work, tool, request, process, delete, boots>>

RestorePrepared(r) ==
  /\ At(r, "preparing") /\ OnDisk(source[r])
  /\ work' = [work EXCEPT ![r] = TRUE]
  /\ tool' = [tool EXCEPT ![r] = IF globals[r] /\ captured[source[r]] THEN 0 ELSE 1]
  /\ Go(r, "between")
  /\ UNCHANGED <<jobVars, server, bundle, file, request, process, delete, boots>>

(* extractEntry() reads the bundle again for every tool; FilesFail is what
   happens when it is gone. *)
RestoreNext(r) ==
  /\ At(r, "between") /\ tool[r] <= Databases
  /\ OnDisk(source[r])
  /\ Run(r, tool[r])
  /\ UNCHANGED <<jobVars, server, bundle, file, work, request, delete, boots>>

(* Any exit code lets the restore go on; only null stops it. *)
ToolRestored(r) ==
  /\ proc[r] # "null" /\ CloseReported(r)
  /\ tool' = [tool EXCEPT ![r] = @ + 1]
  /\ Go(r, "between")
  /\ UNCHANGED <<jobVars, server, bundle, file, work, request, delete, boots>>

RestoreCanceled(r) ==
  /\ proc[r] = "null" /\ CloseReported(r)
  /\ Fail(r, "canceled")
  /\ UNCHANGED <<server, captured, file, work, tool, request, delete, boots>>

RestoreEnds(r) ==
  /\ At(r, "between") /\ tool[r] > Databases
  /\ FinishJob(r, "success")
  /\ Go(r, "sweeping")
  /\ UNCHANGED <<server, bundle, file, work, tool, request, process, delete, boots>>

-----------------------------------------------------------------------------
(* cancel(), deleteBackup(), the released entry *)

(* SIGTERM to the attached process, which Exit lets end in any way, and the
   end of the job. *)
Cancel(j) ==
  /\ server # "down" /\ Running(j)
  /\ FinishJob(j, "canceled")
  /\ UNCHANGED <<server, bundle, file, work, stage, tool, request, process, delete,
                 boots>>

Release(j) ==
  /\ server # "down"
  /\ ReleaseJob(j)
  /\ UNCHANGED <<server, bundle, file, work, stage, tool, request, process, delete,
                 boots>>

(* byId() and `await unlink', then the row; the status is not looked at. *)
DeleteFile(b) ==
  /\ server = "up" /\ Listed(b) /\ ~remover[b]
  /\ Unlink(b)
  /\ remover' = [remover EXCEPT ![b] = TRUE]
  /\ unlinked' = unlinked \cup {b}
  /\ UNCHANGED <<jobVars, server, bundle, work, stage, tool, request, process, boots>>

DeleteRecord(b) ==
  /\ server # "down" /\ remover[b]
  /\ rec' = [rec EXCEPT ![b] = "deleted"]
  /\ remover' = [remover EXCEPT ![b] = FALSE]
  /\ UNCHANGED <<jobVars, server, captured, file, work, stage, tool, request, process,
                 unlinked, boots>>

-----------------------------------------------------------------------------
(* Shutdown, crash, restart *)

Shutdown ==
  /\ server = "up"
  /\ server' = "closing"
  /\ CancelRunning
  /\ UNCHANGED <<bundle, file, work, stage, tool, request, process, delete, boots>>

(* The pipelines are gone; a tool that still runs writes to a work directory
   nothing will read. *)
Stop ==
  /\ server # "down"
  /\ server' = "down"
  /\ ForgetLive
  /\ stage' = [j \in Jobs |-> IF stage[j] \in Active \cup Ending THEN "lost"
                             ELSE IF stage[j] = "asking" THEN "rejected" ELSE stage[j]]
  /\ proc' = [j \in Jobs |-> "none"]
  /\ timer' = [j \in Jobs |-> FALSE]
  /\ remover' = [b \in Bundles |-> FALSE]
  /\ UNCHANGED <<bundle, file, work, tool, request, unlinked, boots>>

Boot ==
  /\ server = "down" /\ boots < MaxBoots
  /\ server' = "up"
  /\ boots' = boots + 1
  /\ FailInterrupted
  /\ UNCHANGED <<bundle, file, work, stage, tool, request, process, delete>>

-----------------------------------------------------------------------------
Backup(b) ==
  \/ StartBackup(b) \/ BackupPrepared(b)
  \/ GlobalsDumped(b) \/ DatabaseDumped(b) \/ DumpFailed(b) \/ NextDatabase(b)
  \/ OpenBundle(b) \/ Packed(b) \/ RemovePartial(b)

Restore(r) ==
  \/ StartRestore(r) \/ RestorePrepared(r)
  \/ RestoreNext(r) \/ ToolRestored(r) \/ RestoreCanceled(r) \/ RestoreEnds(r)

Pipeline(j) ==
  \/ j \in Bundles /\ Backup(j)
  \/ j \in Restores /\ Restore(j)
  \/ SpawnError(j) \/ Reject(j) \/ FilesFail(j) \/ Sweep(j)

Operator ==
  \/ \E b \in Bundles : RequestBackup(b) \/ DeleteFile(b) \/ DeleteRecord(b)
  \/ \E r \in Restores, b \in Bundles : RequestRestore(r, b)
  \/ \E j \in Jobs : Cancel(j)

Next ==
  \/ \E j \in Jobs : Pipeline(j) \/ Exit(j) \/ Timeout(j) \/ Release(j)
  \/ Operator \/ Shutdown \/ Stop \/ Boot

Spec == Init /\ [][Next]_vars

(***************************************************************************)
(* Awaits return, timers fire, a tool that was sent SIGKILL exits.  A tool *)
(* left alone may hang for ever.                                           *)
(***************************************************************************)
Fairness ==
  \A j \in Jobs : /\ WF_vars(Pipeline(j))
                  /\ WF_vars(Timeout(j))
                  /\ WF_vars(proc[j] = "killed" /\ Exit(j))

FairSpec == Spec /\ Fairness

-----------------------------------------------------------------------------
(* Properties *)

ImplementsJobManager == JobSpec

(* A bundle listed as a success is whole on disk, unless somebody asked to
   delete it (cluster.service.ts:250-262). *)
SuccessHasBundle ==
  \A b \in Bundles : rec[b] = "success" => b \in unlinked \/ file[b] = "complete"

(* A pipeline that failed or was canceled leaves neither a bundle nor its
   work directory, in whatever order cancel, delete and exits came, when the
   server lived through it (cluster.service.ts:263-279). *)
FailureLeavesNothing ==
  \A b \in Bundles :
    rec[b] \in {"failed", "canceled"} /\ stage[b] = "done" => ~OnDisk(b) /\ ~work[b]

(* Rows, bundles and work directories follow each other. *)
BundlesFollowRows == SuccessHasBundle /\ FailureLeavesNothing

(* Job and row are ended by different events.  The row may end a success
   after the job was canceled, and the two may name a failure differently,
   but a job never succeeds with a row that failed. *)
RecordAgreesWithJob ==
  \A b \in Bundles :
    /\ row[b] = "success" => rec[b] \in {"success", "deleted"}
    /\ rec[b] \in {"failed", "canceled"} => row[b] \in {"failed", "canceled"}

(* What the two rest on: where a pipeline is tells what its job and its row may
   be. *)
Early == {"none", "asking", "rejected"}

StagesFollowJobs ==
  \A j \in Jobs :
    /\ stage[j] \in Early => row[j] = "none"
    /\ stage[j] \in Active => row[j] = "canceled" \/ (row[j] = "running" /\ Running(j))
    /\ stage[j] = "done" => ~work[j]

StagesFollowRows ==
  \A b \in Bundles :
    /\ stage[b] \in Early => rec[b] = "none" /\ ~remover[b]
    /\ stage[b] \in Active => rec[b] \in {"running", "deleted"}
    /\ rec[b] = "success" => stage[b] \in {"sweeping", "done", "lost"}
    /\ stage[b] = "writing" => b \in unlinked \/ file[b] = "partial"
    /\ rec[b] \in {"failed", "canceled"} /\ stage[b] = "sweeping" => ~OnDisk(b)

IInv ==
  /\ TypeOK /\ LiveAgreesWithRow /\ StagesFollowJobs /\ StagesFollowRows
  /\ RecordAgreesWithJob /\ BundlesFollowRows

(* Every tool that hangs is killed and every pipeline ends, whatever its
   tools do, if the server lives (cluster.service.ts:472-489). *)
PipelinesEnd ==
  \A j \in Jobs : (stage[j] \in Active) ~> (stage[j] \in {"done", "lost"})
=============================================================================

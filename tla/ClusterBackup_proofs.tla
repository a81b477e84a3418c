------------------------ MODULE ClusterBackup_proofs ------------------------
(***************************************************************************)
(* A whole-server backup implements the life of a job, and its row, its    *)
(* bundle and its job follow each other, for any number of backups,        *)
(* restores, databases and restarts.                                       *)
(***************************************************************************)
EXTENDS ClusterBackup, TLAPS

-----------------------------------------------------------------------------
(* The registry of jobs *)

JobInv == JobTypeOK /\ LiveAgreesWithRow

(* Every operation of the JobManager writes memory and table alike. *)
LEMMA JobStep == JobInv /\ [JobNext]_jobVars => JobInv'
<1> SUFFICES ASSUME JobInv, [JobNext]_jobVars PROVE JobInv'
    OBVIOUS
<1> USE DEF JobInv, JobTypeOK, LiveAgreesWithRow, StatusOf, Ended, Statuses
<1>1. CASE \E j \in Jobs : CreateJob(j)
  BY <1>1 DEF CreateJob
<1>2. CASE \E j \in Jobs : ReleaseJob(j)
  BY <1>2 DEF ReleaseJob
<1>3. CASE \E j \in Jobs, status \in Ended : FinishJob(j, status)
  BY <1>3 DEF FinishJob, Running, jobVars
<1>4. CASE CancelRunning
  BY <1>4 DEF CancelRunning, Running
<1>5. CASE ForgetLive
  BY <1>5 DEF ForgetLive
<1>6. CASE FailInterrupted
  BY <1>6 DEF FailInterrupted
<1>7. CASE RestartJobs
  BY <1>7 DEF RestartJobs
<1>8. CASE UNCHANGED jobVars
  BY <1>8 DEF jobVars
<1> QED
  BY <1>1, <1>2, <1>3, <1>4, <1>5, <1>6, <1>7, <1>8 DEF JobNext

-----------------------------------------------------------------------------
(* The refinement: every step of a pipeline is a step of its jobs. *)

(* Failing a job is a step of the registry. *)
LEMMA FailIsJobStep ==
  ASSUME NEW j \in Jobs, NEW status \in {"failed", "canceled"}, Fail(j, status)
  PROVE  [JobNext]_jobVars
BY DEF Fail, JobNext, Ended

(* Each step of a bundle touches the registry by its operations only. *)
LEMMA BackupIsJobStep ==
  ASSUME NEW b \in Bundles, Backup(b)
  PROVE  [JobNext]_jobVars
<1>0. b \in Jobs
  BY PipelinesAssumption
<1>1. CASE StartBackup(b)
  BY <1>0, <1>1 DEF StartBackup, JobNext
<1>2. CASE DumpFailed(b)
  <2>1. PICK status \in {"failed", "canceled"} : Fail(b, status)
    BY <1>2 DEF DumpFailed
  <2> QED
    BY <1>0, <2>1, FailIsJobStep
<1>3. CASE Packed(b)
  BY <1>0, <1>3 DEF Packed, JobNext, Ended
<1>4. CASE BackupPrepared(b) \/ GlobalsDumped(b) \/ DatabaseDumped(b) \/ NextDatabase(b)
           \/ OpenBundle(b) \/ RemovePartial(b)
  BY <1>4 DEF BackupPrepared, GlobalsDumped, DatabaseDumped, NextDatabase, OpenBundle,
              RemovePartial
<1> QED
  BY <1>1, <1>2, <1>3, <1>4 DEF Backup

(* So does each step of a restore. *)
LEMMA RestoreIsJobStep ==
  ASSUME NEW r \in Restores, Restore(r)
  PROVE  [JobNext]_jobVars
<1>0. r \in Jobs
  BY PipelinesAssumption
<1>1. CASE StartRestore(r)
  BY <1>0, <1>1 DEF StartRestore, JobNext
<1>2. CASE RestoreCanceled(r)
  BY <1>0, <1>2, FailIsJobStep DEF RestoreCanceled
<1>3. CASE RestoreEnds(r)
  BY <1>0, <1>3 DEF RestoreEnds, JobNext, Ended
<1>4. CASE RestorePrepared(r) \/ RestoreNext(r) \/ ToolRestored(r)
  BY <1>4 DEF RestorePrepared, RestoreNext, ToolRestored
<1> QED
  BY <1>1, <1>2, <1>3, <1>4 DEF Restore

(* The steps of any pipeline and its tools. *)
LEMMA JobIsJobStep ==
  ASSUME NEW j \in Jobs,
         \/ SpawnError(j) \/ Reject(j) \/ FilesFail(j) \/ Sweep(j)
         \/ Exit(j) \/ Timeout(j) \/ Release(j) \/ Cancel(j)
  PROVE  [JobNext]_jobVars
<1>1. CASE SpawnError(j)
  BY <1>1, FailIsJobStep DEF SpawnError
<1>2. CASE FilesFail(j)
  BY <1>2, FailIsJobStep DEF FilesFail
<1>3. CASE Reject(j) \/ Sweep(j) \/ Exit(j) \/ Timeout(j)
  BY <1>3 DEF Reject, Sweep, Exit, Timeout
<1>4. CASE Release(j) \/ Cancel(j)
  BY <1>4 DEF Release, Cancel, JobNext, Ended
<1> QED
  BY <1>1, <1>2, <1>3, <1>4

(* Whole-server backups use the registry only through its operations. *)
LEMMA StepIsJobStep == [Next]_vars => [JobNext]_jobVars
<1> SUFFICES ASSUME [Next]_vars PROVE [JobNext]_jobVars
    OBVIOUS
<1>1. CASE \E b \in Bundles : Backup(b)
  BY <1>1, BackupIsJobStep
<1>2. CASE \E r \in Restores : Restore(r)
  BY <1>2, RestoreIsJobStep
<1>3. CASE \E j \in Jobs : \/ SpawnError(j) \/ Reject(j) \/ FilesFail(j) \/ Sweep(j)
                           \/ Exit(j) \/ Timeout(j) \/ Release(j) \/ Cancel(j)
  BY <1>3, JobIsJobStep
<1>4. CASE \/ \E b \in Bundles : RequestBackup(b) \/ DeleteFile(b) \/ DeleteRecord(b)
           \/ \E r \in Restores, b \in Bundles : RequestRestore(r, b)
  BY <1>4 DEF RequestBackup, DeleteFile, DeleteRecord, RequestRestore
<1>5. CASE Shutdown \/ Stop \/ Boot
  BY <1>5 DEF Shutdown, Stop, Boot, JobNext
<1>6. CASE UNCHANGED vars
  BY <1>6 DEF vars, jobVars
<1> QED
  BY <1>1, <1>2, <1>3, <1>4, <1>5, <1>6 DEF Next, Operator, Pipeline

(* Whichever of exit code, cancel, shutdown and restart comes first ends the
   job of a whole-server backup or restore, and only once. *)
THEOREM ClusterImplementsJobManager == Spec => ImplementsJobManager
<1>1. Init => JobInit
  BY DEF Init
<1> QED
  BY <1>1, StepIsJobStep, PTL DEF Spec, ImplementsJobManager, JobSpec

-----------------------------------------------------------------------------
(* The types *)

(* Each way on from the loop over databases keeps the types. *)
LEMMA LoopTypes ==
  ASSUME TypeOK, NEW b \in Jobs, NEW i \in Nat, Loop(b, i)
  PROVE  /\ tool' \in [Jobs -> Nat] /\ proc' \in [Jobs -> Procs]
         /\ timer' \in [Jobs -> BOOLEAN] /\ stage' \in [Jobs -> Stages]
<1> USE DEF TypeOK, Go, Stages, Active
<1>1. CASE Run(b, i)
  BY <1>1 DEF Run, Procs
<1>2. CASE Go(b, "packing") /\ UNCHANGED <<tool, process>>
  BY <1>2 DEF process
<1> QED
  BY <1>1, <1>2 DEF Loop

(* Every step keeps the types. *)
LEMMA TypeStep == TypeOK /\ [Next]_vars => TypeOK'
<1> SUFFICES ASSUME TypeOK, [Next]_vars PROVE TypeOK'
    OBVIOUS
<1> USE PipelinesAssumption
    DEF TypeOK, JobTypeOK, Statuses, Ended, Stages, Active, Ending, Procs, Codes, Files, jobVars,
        bundle, process, request, delete, Go
<1>1. ASSUME NEW b \in Bundles, Backup(b) PROVE TypeOK'
  <2> USE DEF CreateJob, FinishJob, MarkFinished, Unlink, Run
  <2>1. CASE StartBackup(b)
    BY <2>1 DEF StartBackup
  <2>2. CASE BackupPrepared(b)
    <3>1. PICK i \in {0, 1} : Loop(b, i)
      BY <2>2 DEF BackupPrepared
    <3> QED
      BY <2>2, <3>1, LoopTypes DEF BackupPrepared
  <2>3. CASE GlobalsDumped(b)
    BY <2>3 DEF GlobalsDumped
  <2>4. CASE DatabaseDumped(b)
    BY <2>4 DEF DatabaseDumped, CloseReported
  <2>5. CASE DumpFailed(b)
    BY <2>5 DEF DumpFailed, CloseReported, Fail
  <2>6. CASE NextDatabase(b)
    BY <2>6, LoopTypes DEF NextDatabase
  <2>7. CASE OpenBundle(b)
    BY <2>7 DEF OpenBundle
  <2>8. CASE Packed(b)
    BY <2>8 DEF Packed
  <2>9. CASE RemovePartial(b)
    BY <2>9 DEF RemovePartial
  <2> QED
    BY <1>1, <2>1, <2>2, <2>3, <2>4, <2>5, <2>6, <2>7, <2>8, <2>9 DEF Backup
<1>2. ASSUME NEW r \in Restores, Restore(r) PROVE TypeOK'
  <2> USE DEF CreateJob, FinishJob, Run
  <2>1. CASE StartRestore(r)
    BY <2>1 DEF StartRestore
  <2>2. CASE RestorePrepared(r)
    BY <2>2 DEF RestorePrepared
  <2>3. CASE RestoreNext(r)
    BY <2>3 DEF RestoreNext
  <2>4. CASE ToolRestored(r)
    BY <2>4 DEF ToolRestored, CloseReported
  <2>5. CASE RestoreCanceled(r)
    BY <2>5 DEF RestoreCanceled, CloseReported, Fail
  <2>6. CASE RestoreEnds(r)
    BY <2>6 DEF RestoreEnds
  <2> QED
    BY <1>2, <2>1, <2>2, <2>3, <2>4, <2>5, <2>6 DEF Restore
<1>3. ASSUME NEW j \in Jobs, NEW status \in {"failed", "canceled"}, Fail(j, status)
      PROVE  JobTypeOK' /\ rec' \in [Bundles -> Statuses \cup {"deleted"}]
             /\ stage' \in [Jobs -> Stages]
  BY <1>3 DEF Fail, FinishJob, MarkFinished
<1>4. ASSUME NEW j \in Jobs,
             \/ SpawnError(j) \/ FilesFail(j) \/ Reject(j) \/ Sweep(j)
             \/ Exit(j) \/ Timeout(j) \/ Release(j) \/ Cancel(j)
      PROVE  TypeOK'
  <2>1. CASE SpawnError(j)
    BY <1>3, <2>1 DEF SpawnError
  <2>2. CASE FilesFail(j)
    BY <1>3, <2>2 DEF FilesFail
  <2>3. CASE Reject(j)
    BY <2>3 DEF Reject
  <2>4. CASE Exit(j)
    BY <2>4 DEF Exit
  <2>5. CASE Timeout(j)
    BY <2>5 DEF Timeout
  <2>6. CASE Release(j)
    BY <2>6 DEF Release, ReleaseJob
  <2>7. CASE Cancel(j)
    BY <2>7 DEF Cancel, FinishJob
  <2>8. CASE Sweep(j)
    <3>1. work' \in [Jobs -> BOOLEAN]
      BY <2>8 DEF Sweep
    <3> QED
      BY <2>8, <3>1 DEF Sweep
  <2> QED
    BY <1>4, <2>1, <2>2, <2>3, <2>4, <2>5, <2>6, <2>7, <2>8
<1>5. ASSUME NEW b \in Bundles, RequestBackup(b) \/ DeleteFile(b) \/ DeleteRecord(b)
      PROVE  TypeOK'
  <2>1. CASE RequestBackup(b)
    BY <2>1 DEF RequestBackup
  <2>2. CASE DeleteFile(b)
    BY <2>2 DEF DeleteFile, Unlink
  <2>3. CASE DeleteRecord(b)
    BY <2>3 DEF DeleteRecord
  <2> QED
    BY <1>5, <2>1, <2>2, <2>3
<1>6. ASSUME NEW r \in Restores, NEW b \in Bundles, RequestRestore(r, b) PROVE TypeOK'
  BY <1>6 DEF RequestRestore
<1>7. CASE Shutdown
  BY <1>7 DEF Shutdown, CancelRunning
<1>8. CASE Stop
  BY <1>8 DEF Stop, ForgetLive
<1>9. CASE Boot
  BY <1>9 DEF Boot, FailInterrupted
<1>10. CASE UNCHANGED vars
  BY <1>10 DEF vars
<1> QED
  BY <1>1, <1>2, <1>3, <1>4, <1>5, <1>6, <1>7, <1>8, <1>9, <1>10 DEF Next, Operator, Pipeline

-----------------------------------------------------------------------------
(* What the invariant says besides the types and the registry. *)
Sound == StagesFollowJobs /\ StagesFollowRows /\ RecordAgreesWithJob /\ BundlesFollowRows

(* A step of a pipeline from one await to the next. *)
LEMMA MoveStep ==
  ASSUME TypeOK, Sound, NEW j \in Jobs, NEW s \in Stages, Go(j, s),
         UNCHANGED <<live, row, rec, file, remover, unlinked>>,
         \/ stage[j] \in Early /\ s \in Early
         \/ stage[j] \in Active /\ s \in Active \ {"writing"},
         \A k \in Jobs : k # j => work'[k] = work[k]
  PROVE  Sound'
<1> USE PipelinesAssumption DEF TypeOK, Sound, Go, Early, Active
<1>1. StagesFollowJobs'
  BY DEF StagesFollowJobs, Running
<1>2. StagesFollowRows'
  BY DEF StagesFollowRows, OnDisk
<1>3. RecordAgreesWithJob'
  BY DEF RecordAgreesWithJob
<1>4. BundlesFollowRows'
  BY DEF BundlesFollowRows, SuccessHasBundle, FailureLeavesNothing, OnDisk
<1> QED
  BY <1>1, <1>2, <1>3, <1>4

(* A job that is created has no bundle yet. *)
LEMMA StartStep ==
  ASSUME TypeOK, Sound, NEW j \in Jobs, At(j, "asking"), CreateJob(j), Go(j, "preparing"),
         UNCHANGED <<file, remover, unlinked, work>>,
         rec' = IF j \in Bundles THEN [rec EXCEPT ![j] = "running"] ELSE rec
  PROVE  Sound'
<1> USE PipelinesAssumption DEF TypeOK, JobTypeOK, Sound, Go, At, CreateJob, Early, Active
<1>1. StagesFollowJobs'
  BY DEF StagesFollowJobs, Running
<1>2. StagesFollowRows'
  BY DEF StagesFollowRows, OnDisk
<1>3. RecordAgreesWithJob'
  BY DEF RecordAgreesWithJob, StagesFollowRows
<1>4. BundlesFollowRows'
  BY DEF BundlesFollowRows, SuccessHasBundle, FailureLeavesNothing, OnDisk
<1> QED
  BY <1>1, <1>2, <1>3, <1>4

(* The catch block. *)
LEMMA FailStep ==
  ASSUME TypeOK, LiveAgreesWithRow, Sound, NEW j \in Jobs, NEW status \in {"failed", "canceled"},
         Fail(j, status), stage[j] \in Active, UNCHANGED <<file, remover, unlinked, work>>
  PROVE  Sound'
<1> USE PipelinesAssumption
    DEF TypeOK, JobTypeOK, Sound, Fail, FinishJob, MarkFinished, Go, jobVars, Active, Running
<1>1. StagesFollowJobs'
  BY DEF StagesFollowJobs, Early
<1>2. StagesFollowRows'
  BY DEF StagesFollowRows, OnDisk, Early, Listed
<1>3. RecordAgreesWithJob'
  BY DEF RecordAgreesWithJob, StagesFollowJobs, StagesFollowRows, Listed
<1>4. BundlesFollowRows'
  BY DEF BundlesFollowRows, SuccessHasBundle, FailureLeavesNothing, OnDisk
<1> QED
  BY <1>1, <1>2, <1>3, <1>4

(* Opening the bundle makes a partial file for a job that still works. *)
LEMMA OpenStep ==
  ASSUME TypeOK, Sound, NEW b \in Bundles, OpenBundle(b)
  PROVE  Sound'
<1> USE PipelinesAssumption
    DEF TypeOK, JobTypeOK, Sound, jobVars, bundle, process, request, delete, Go, At, Active, Ending,
        Running, OpenBundle
<1>1. StagesFollowJobs'
  BY DEF StagesFollowJobs, Early
<1>2. StagesFollowRows'
  BY DEF StagesFollowRows, OnDisk, Early
<1>3. RecordAgreesWithJob'
  BY DEF RecordAgreesWithJob
<1>4. BundlesFollowRows'
  BY DEF BundlesFollowRows, SuccessHasBundle, FailureLeavesNothing, OnDisk, StagesFollowRows
<1> QED
  BY <1>1, <1>2, <1>3, <1>4

(* The bundle is whole when job and row are ended. *)
LEMMA PackedStep ==
  ASSUME TypeOK, LiveAgreesWithRow, Sound, NEW b \in Bundles, Packed(b)
  PROVE  Sound'
<1> USE PipelinesAssumption
    DEF TypeOK, JobTypeOK, Sound, jobVars, bundle, process, request, delete, Go, At, Active, Ending,
        Running, Packed, FinishJob, MarkFinished, Listed
<1>1. StagesFollowJobs'
  BY DEF StagesFollowJobs, Early
<1>2. StagesFollowRows'
  BY DEF StagesFollowRows, OnDisk, Early
<1>3. RecordAgreesWithJob'
  BY DEF RecordAgreesWithJob, StagesFollowRows, StagesFollowJobs
<1>4. BundlesFollowRows'
  BY DEF BundlesFollowRows, SuccessHasBundle, FailureLeavesNothing, OnDisk, StagesFollowRows
<1> QED
  BY <1>1, <1>2, <1>3, <1>4

(* Removing the partial bundle keeps the bundles sound. *)
LEMMA RemoveStep ==
  ASSUME TypeOK, Sound, NEW b \in Bundles, RemovePartial(b)
  PROVE  Sound'
<1> USE PipelinesAssumption
    DEF TypeOK, JobTypeOK, Sound, jobVars, bundle, process, request, delete, Go, At, Active, Ending,
        Running, RemovePartial, Unlink
<1>1. StagesFollowJobs'
  BY DEF StagesFollowJobs, Early
<1>2. StagesFollowRows'
  BY DEF StagesFollowRows, OnDisk, Early
<1>3. RecordAgreesWithJob'
  BY DEF RecordAgreesWithJob
<1>4. BundlesFollowRows'
  BY DEF BundlesFollowRows, SuccessHasBundle, FailureLeavesNothing, OnDisk, StagesFollowRows
<1> QED
  BY <1>1, <1>2, <1>3, <1>4

(* The sweep of a working directory ends a pipeline and touches no bundle. *)
LEMMA SweepStep ==
  ASSUME TypeOK, Sound, NEW j \in Jobs, Sweep(j)
  PROVE  Sound'
<1> USE PipelinesAssumption
    DEF TypeOK, JobTypeOK, Sound, jobVars, bundle, process, request, delete, Go, At, Active, Ending,
        Running, Sweep
<1>1. StagesFollowJobs'
  BY DEF StagesFollowJobs, Early
<1>2. StagesFollowRows'
  BY DEF StagesFollowRows, OnDisk, Early
<1>3. RecordAgreesWithJob'
  BY DEF RecordAgreesWithJob
<1>4. BundlesFollowRows'
  BY DEF BundlesFollowRows, SuccessHasBundle, FailureLeavesNothing, OnDisk, StagesFollowRows
<1> QED
  BY <1>1, <1>2, <1>3, <1>4

(* A restore that ends changes its own row only. *)
LEMMA RestoreEndsStep ==
  ASSUME TypeOK, LiveAgreesWithRow, Sound, NEW j \in Restores, RestoreEnds(j)
  PROVE  Sound'
<1> USE PipelinesAssumption
    DEF TypeOK, JobTypeOK, Sound, jobVars, bundle, process, request, delete, Go, At, Active, Ending,
        Running, RestoreEnds, FinishJob
<1>1. StagesFollowJobs'
  BY DEF StagesFollowJobs, Early
<1>2. StagesFollowRows'
  BY DEF StagesFollowRows, OnDisk, Early
<1>3. RecordAgreesWithJob'
  BY DEF RecordAgreesWithJob
<1>4. BundlesFollowRows'
  BY DEF BundlesFollowRows, SuccessHasBundle, FailureLeavesNothing, OnDisk
<1> QED
  BY <1>1, <1>2, <1>3, <1>4

(* A cancel reaches the job and leaves the pipeline to its tool. *)
LEMMA CancelStep ==
  ASSUME TypeOK, LiveAgreesWithRow, Sound, NEW j \in Jobs, Cancel(j) \/ Release(j)
  PROVE  Sound'
<1> USE PipelinesAssumption
    DEF TypeOK, JobTypeOK, Sound, jobVars, bundle, process, request, delete, Go, At, Active, Ending,
        Running, Cancel, Release,
        FinishJob, ReleaseJob, LiveAgreesWithRow, StatusOf, Ended
<1>1. StagesFollowJobs'
  BY DEF StagesFollowJobs, Early
<1>2. StagesFollowRows'
  BY DEF StagesFollowRows, OnDisk, Early
<1>3. RecordAgreesWithJob'
  BY DEF RecordAgreesWithJob
<1>4. BundlesFollowRows'
  BY DEF BundlesFollowRows, SuccessHasBundle, FailureLeavesNothing, OnDisk
<1> QED
  BY <1>1, <1>2, <1>3, <1>4

(* So do both halves of a deletion, the file and then the record. *)
LEMMA DeleteStep ==
  ASSUME TypeOK, Sound, NEW b \in Bundles, DeleteFile(b) \/ DeleteRecord(b)
  PROVE  Sound'
<1> USE PipelinesAssumption DEF TypeOK, JobTypeOK, Sound, jobVars, bundle, process, request, Running
<1>1. CASE DeleteFile(b)
  <2> USE <1>1 DEF DeleteFile, Unlink, Listed
  <2>1. StagesFollowJobs' /\ RecordAgreesWithJob'
    BY DEF StagesFollowJobs, RecordAgreesWithJob
  <2>2. StagesFollowRows'
    BY DEF StagesFollowRows, OnDisk
  <2>3. BundlesFollowRows'
    BY DEF BundlesFollowRows, SuccessHasBundle, FailureLeavesNothing, OnDisk
  <2> QED
    BY <2>1, <2>2, <2>3
<1>2. CASE DeleteRecord(b)
  <2> USE <1>2 DEF DeleteRecord
  <2>1. StagesFollowJobs' /\ RecordAgreesWithJob'
    BY DEF StagesFollowJobs, RecordAgreesWithJob
  <2>2. StagesFollowRows'
    BY DEF StagesFollowRows, OnDisk
  <2>3. BundlesFollowRows'
    BY DEF BundlesFollowRows, SuccessHasBundle, FailureLeavesNothing, OnDisk
  <2> QED
    BY <2>1, <2>2, <2>3
<1> QED
  BY <1>1, <1>2

(* The process shuts down, ends and starts again. *)
LEMMA ProcessStep ==
  ASSUME TypeOK, LiveAgreesWithRow, Sound, Shutdown \/ Stop \/ Boot
  PROVE  Sound'
<1> USE PipelinesAssumption
    DEF TypeOK, JobTypeOK, Sound, jobVars, bundle, process, request, delete, Go, At, Active, Ending,
        Running, Shutdown,
        CancelRunning, Stop, ForgetLive, Boot, FailInterrupted, LiveAgreesWithRow, StatusOf
<1>1. StagesFollowJobs'
  BY DEF StagesFollowJobs, Early
<1>2. StagesFollowRows'
  BY DEF StagesFollowRows, OnDisk, Early
<1>3. RecordAgreesWithJob'
  BY DEF RecordAgreesWithJob
<1>4. BundlesFollowRows'
  BY DEF BundlesFollowRows, SuccessHasBundle, FailureLeavesNothing, OnDisk
<1> QED
  BY <1>1, <1>2, <1>3, <1>4

(* Every step of a bundle keeps the bundles sound. *)
LEMMA BackupSound ==
  ASSUME TypeOK, LiveAgreesWithRow, Sound, NEW b \in Bundles, Backup(b)
  PROVE  Sound'
<1>0. b \in Jobs
  BY PipelinesAssumption
<1> USE <1>0 DEF bundle, process, request, delete, jobVars, At
<1>1. CASE StartBackup(b)
  BY <1>1, StartStep DEF StartBackup
<1>2. CASE BackupPrepared(b)
  <2>1. PICK s \in {"tool", "packing"} : Go(b, s)
    BY <1>2 DEF BackupPrepared, Loop, Run
  <2> QED
    BY <1>2, <2>1, MoveStep DEF BackupPrepared, Active, Stages, TypeOK
<1>3. CASE GlobalsDumped(b)
  BY <1>3, MoveStep DEF GlobalsDumped, Exited, Run, Active, Stages
<1>4. CASE DatabaseDumped(b)
  BY <1>4, MoveStep DEF DatabaseDumped, CloseReported, Exited, Active, Stages
<1>5. CASE DumpFailed(b)
  <2>1. PICK status \in {"failed", "canceled"} : Fail(b, status)
    BY <1>5 DEF DumpFailed
  <2> QED
    BY <1>5, <2>1, FailStep DEF DumpFailed, CloseReported, Exited, Active
<1>6. CASE NextDatabase(b)
  <2>1. PICK s \in {"tool", "packing"} : Go(b, s)
    BY <1>6 DEF NextDatabase, Loop, Run
  <2> QED
    BY <1>6, <2>1, MoveStep DEF NextDatabase, Active, Stages
<1> QED
  BY <1>1, <1>2, <1>3, <1>4, <1>5, <1>6, OpenStep, PackedStep, RemoveStep DEF Backup

(* Every step of a restore does. *)
LEMMA RestoreSound ==
  ASSUME TypeOK, LiveAgreesWithRow, Sound, NEW r \in Restores, Restore(r)
  PROVE  Sound'
<1>0. r \in Jobs /\ r \notin Bundles
  BY PipelinesAssumption
<1> USE <1>0 DEF bundle, process, request, delete, jobVars, At
<1>1. CASE StartRestore(r)
  BY <1>1, StartStep DEF StartRestore
<1>2. CASE RestorePrepared(r)
  BY <1>2, MoveStep DEF RestorePrepared, Active, Stages, TypeOK
<1>3. CASE RestoreNext(r)
  BY <1>3, MoveStep DEF RestoreNext, Run, Active, Stages
<1>4. CASE ToolRestored(r)
  BY <1>4, MoveStep DEF ToolRestored, CloseReported, Exited, Active, Stages
<1>5. CASE RestoreCanceled(r)
  BY <1>5, FailStep DEF RestoreCanceled, CloseReported, Exited, Active
<1> QED
  BY <1>1, <1>2, <1>3, <1>4, <1>5, RestoreEndsStep DEF Restore

(* Every answer of a tool, exit, timeout and cancellation does. *)
LEMMA JobSound ==
  ASSUME TypeOK, LiveAgreesWithRow, Sound, NEW j \in Jobs,
         SpawnError(j) \/ FilesFail(j) \/ Reject(j) \/ Exit(j) \/ Timeout(j)
  PROVE  Sound'
<1> USE DEF bundle, process, request, delete, jobVars, At
<1>1. CASE SpawnError(j)
  BY <1>1, FailStep DEF SpawnError, Active
<1>2. CASE FilesFail(j)
  BY <1>2, FailStep DEF FilesFail, Active
<1>3. CASE Reject(j)
  BY <1>3, MoveStep DEF Reject, Early, Stages
<1>4. CASE Exit(j) \/ Timeout(j)
  BY <1>4 DEF Exit, Timeout, Sound, StagesFollowJobs, StagesFollowRows, RecordAgreesWithJob,
              BundlesFollowRows, SuccessHasBundle, FailureLeavesNothing, OnDisk, Running
<1> QED
  BY <1>1, <1>2, <1>3, <1>4

(* Every request to start, cancel or delete does. *)
LEMMA RequestSound ==
  ASSUME TypeOK, Sound, NEW j \in Jobs,
         \/ j \in Bundles /\ RequestBackup(j)
         \/ j \in Restores /\ \E b \in Bundles : RequestRestore(j, b)
  PROVE  Sound'
<1>1. /\ stage[j] = "none" /\ Go(j, "asking")
      /\ UNCHANGED <<live, row, rec, file, remover, unlinked, work>>
  BY DEF RequestBackup, RequestRestore, bundle, process, request, delete, jobVars
<1> QED
  BY <1>1, MoveStep DEF Early, Stages

-----------------------------------------------------------------------------
(* The inductive invariant. *)
THEOREM ClusterInvariance == Spec => []IInv
<1>1. Init => IInv
  <2> SUFFICES ASSUME Init PROVE IInv
      OBVIOUS
  <2> USE DEF Init, JobInit
  <2>1. TypeOK
    BY DEF TypeOK, JobTypeOK, Statuses, Stages, Procs, Files
  <2>2. LiveAgreesWithRow /\ StagesFollowJobs
    BY DEF LiveAgreesWithRow, StatusOf, StagesFollowJobs, Active
  <2>3. StagesFollowRows
    BY PipelinesAssumption DEF StagesFollowRows, Active
  <2>4. RecordAgreesWithJob /\ BundlesFollowRows
    BY PipelinesAssumption
       DEF RecordAgreesWithJob, BundlesFollowRows, SuccessHasBundle, FailureLeavesNothing
  <2> QED
    BY <2>1, <2>2, <2>3, <2>4 DEF IInv
<1>2. IInv /\ [Next]_vars => IInv'
  <2> SUFFICES ASSUME IInv, [Next]_vars PROVE IInv'
      OBVIOUS
  <2>0. TypeOK /\ LiveAgreesWithRow /\ Sound
    BY DEF IInv, Sound
  <2>1. TypeOK'
    BY <2>0, TypeStep
  <2>2. LiveAgreesWithRow'
    BY <2>0, StepIsJobStep, JobStep DEF JobInv, TypeOK
  <2>3. Sound'
    <3>1. CASE \E b \in Bundles : Backup(b)
      BY <2>0, <3>1, BackupSound
    <3>2. CASE \E r \in Restores : Restore(r)
      BY <2>0, <3>2, RestoreSound
    <3>3. CASE \E j \in Jobs : SpawnError(j) \/ FilesFail(j) \/ Reject(j) \/ Exit(j) \/ Timeout(j)
      BY <2>0, <3>3, JobSound
    <3>4. CASE \E j \in Jobs : Sweep(j) \/ Cancel(j) \/ Release(j)
      BY <2>0, <3>4, SweepStep, CancelStep
    <3>5. CASE \/ \E b \in Bundles : RequestBackup(b)
               \/ \E r \in Restores, b \in Bundles : RequestRestore(r, b)
      BY <2>0, <3>5, RequestSound, PipelinesAssumption
    <3>6. CASE \E b \in Bundles : DeleteFile(b) \/ DeleteRecord(b)
      BY <2>0, <3>6, DeleteStep
    <3>7. CASE Shutdown \/ Stop \/ Boot
      BY <2>0, <3>7, ProcessStep
    <3>8. CASE UNCHANGED vars
      BY <2>0, <3>8
         DEF vars, jobVars, bundle, delete, Sound, StagesFollowJobs, StagesFollowRows,
             RecordAgreesWithJob, BundlesFollowRows, SuccessHasBundle, FailureLeavesNothing,
             OnDisk, Running
    <3> QED
      BY <3>1, <3>2, <3>3, <3>4, <3>5, <3>6, <3>7, <3>8 DEF Next, Operator, Pipeline
  <2> QED
    BY <2>1, <2>2, <2>3 DEF IInv, Sound
<1> QED
  BY <1>1, <1>2, PTL DEF Spec

(* A whole-server backup listed as a success has its whole bundle until somebody
   asks to delete it, and one that failed or was canceled leaves neither a bundle
   nor a work directory (cluster.service.ts:250-279). *)
THEOREM BundlesFollow == Spec => []BundlesFollowRows
<1>1. IInv => BundlesFollowRows
  BY DEF IInv
<1> QED
  BY <1>1, ClusterInvariance, PTL

(* A job succeeds only with its row, unless the row was deleted, and a row fails
   only with its job, unless that was canceled (cluster.service.ts:252-275). *)
THEOREM RecordsAgree == Spec => []RecordAgreesWithJob
<1>1. IInv => RecordAgreesWithJob
  BY DEF IInv
<1> QED
  BY <1>1, ClusterInvariance, PTL
=============================================================================

------------------------ MODULE BackupService_proofs ------------------------
(***************************************************************************)
(* The backup service implements the life of a job, and keeps the record,  *)
(* the job and the file of every backup in agreement, for any number of    *)
(* backups, restores and restarts; and what a request may do, what it does *)
(* and what the log says of it agree, for every route of the server.       *)
(***************************************************************************)
EXTENDS MCBackupService, TLAPS

-----------------------------------------------------------------------------
(* The registry of jobs: what holds of a job whoever drives it.  A service
   that implements JobSpec inherits these theorems. *)

JobInv == JobTypeOK /\ LiveAgreesWithRow

(* Every operation of the JobManager writes memory and table alike. *)
LEMMA JobStep == JobInv /\ [JobNext]_jobVars => JobInv'
<1> SUFFICES ASSUME JobInv, [JobNext]_jobVars PROVE JobInv'
    OBVIOUS
<1> USE DEF JobInv, JobTypeOK, LiveAgreesWithRow, StatusOf, Ended, Statuses
<1>1. CASE \E j \in Jobs : CreateJob(j)
  BY <1>1 DEF CreateJob
<1>2. CASE \E j \in Jobs : ReleaseJob(j)
  BY <1>2 DEF ReleaseJob
<1>3. CASE \E j \in Jobs, status \in Ended : FinishJob(j, status)
  BY <1>3 DEF FinishJob, Running, jobVars
<1>4. CASE CancelRunning
  BY <1>4 DEF CancelRunning, Running
<1>5. CASE ForgetLive
  BY <1>5 DEF ForgetLive
<1>6. CASE FailInterrupted
  BY <1>6 DEF FailInterrupted
<1>7. CASE RestartJobs
  BY <1>7 DEF RestartJobs
<1>8. CASE UNCHANGED jobVars
  BY <1>8 DEF jobVars
<1> QED
  BY <1>1, <1>2, <1>3, <1>4, <1>5, <1>6, <1>7, <1>8 DEF JobNext

(* The registry alone keeps a live handle and its row in agreement. *)
LEMMA JobInvariance == JobSpec => []JobInv
<1>1. JobInit => JobInv
  BY DEF JobInit, JobInv, JobTypeOK, LiveAgreesWithRow, StatusOf, Statuses, Ended
<1> QED
  BY <1>1, JobStep, PTL DEF JobSpec

(* What get() answers is what the table says: an entry in memory never
   disagrees with its row, so releasing it changes no answer. *)
THEOREM MemoryAgreesWithTable == JobSpec => []LiveAgreesWithRow
<1>1. JobInv => LiveAgreesWithRow
  BY DEF JobInv
<1> QED
  BY <1>1, JobInvariance, PTL

(* No exit code, timeout, cancel, shutdown or restart rewrites the end of a
   job. *)
THEOREM EndsAreFinal == JobSpec => EndIsFinal
<1>1. JobInv /\ [JobNext]_jobVars =>
        [\A j \in Jobs : row[j] \in Ended => row'[j] = row[j]]_jobVars
  <2> SUFFICES ASSUME JobInv, JobNext, NEW k \in Jobs, row[k] \in Ended
               PROVE  row'[k] = row[k]
      OBVIOUS
  <2> USE DEF JobInv, JobTypeOK, LiveAgreesWithRow, StatusOf, Ended, Statuses
  <2>1. CASE \E j \in Jobs : CreateJob(j)
    BY <2>1 DEF CreateJob
  <2>2. CASE \E j \in Jobs : ReleaseJob(j)
    BY <2>2 DEF ReleaseJob
  <2>3. CASE \E j \in Jobs, status \in Ended : FinishJob(j, status)
    BY <2>3 DEF FinishJob, Running, jobVars
  <2>4. CASE CancelRunning
    BY <2>4 DEF CancelRunning, Running
  <2>5. CASE ForgetLive
    BY <2>5 DEF ForgetLive
  <2>6. CASE FailInterrupted
    BY <2>6 DEF FailInterrupted
  <2>7. CASE RestartJobs
    BY <2>7 DEF RestartJobs
  <2> QED
    BY <2>1, <2>2, <2>3, <2>4, <2>5, <2>6, <2>7 DEF JobNext
<1> QED
  BY <1>1, JobInvariance, PTL DEF JobSpec, EndIsFinal

-----------------------------------------------------------------------------
(* The refinement: every step of the service is a step of its jobs. *)

(* Whoever ends a job calls finish(). *)
LEMMA FinishIsJobStep ==
  ASSUME NEW j \in Jobs, NEW status \in Ended, FinishJob(j, status)
  PROVE  [JobNext]_jobVars
BY DEF JobNext

(* The steps of a backup, request by request and event by event. *)
LEMMA BackupStepIsJobStep ==
  ASSUME NEW b \in Backups, Backup(b)
  PROVE  [JobNext]_jobVars
<1>0. b \in Jobs
  BY JobsAssumption
<1>1. CASE StartBackup(b)
  BY <1>0, <1>1 DEF StartBackup, JobNext
<1>2. CASE RecordSuccess(b)
  BY <1>0, <1>2, FinishIsJobStep DEF RecordSuccess, Ended
<1>3. CASE DumpFailed(b)
  <2>1. PICK status \in {"canceled", "failed"} : FinishJob(b, status)
    BY <1>3 DEF DumpFailed
  <2> QED
    BY <1>0, <2>1, FinishIsJobStep DEF Ended
<1>4. CASE OpenFile(b) \/ RequestBackup(b) \/ DumpSucceeded(b) \/ RemovePartial(b)
  BY <1>4 DEF OpenFile, RequestBackup, DumpSucceeded, RemovePartial
<1>5. CASE RequestDelete(b) \/ DeleteFile(b) \/ DeleteRecord(b)
  BY <1>5 DEF RequestDelete, DeleteFile, DeleteRecord
<1> QED
  BY <1>1, <1>2, <1>3, <1>4, <1>5 DEF Backup

(* The steps of a restore. *)
LEMMA RestoreStepIsJobStep ==
  ASSUME NEW r \in Restores, Restore(r)
  PROVE  [JobNext]_jobVars
<1>0. r \in Jobs
  BY JobsAssumption
<1>1. CASE StartRestore(r)
  BY <1>0, <1>1 DEF StartRestore, JobNext
<1>2. CASE RestoreClosed(r)
  <2>1. PICK status \in Ended : FinishJob(r, status)
    BY <1>2 DEF RestoreClosed, Ended
  <2> QED
    BY <1>0, <2>1, FinishIsJobStep
<1>3. CASE SourceFound(r) \/ RejectRestore(r) \/ \E b \in Backups : RequestRestore(r, b)
  BY <1>3 DEF SourceFound, RejectRestore, RequestRestore
<1> QED
  BY <1>1, <1>2, <1>3 DEF Restore

(* The events of a tool, cancel, and the release of an entry. *)
LEMMA ToolStepIsJobStep ==
  ASSUME NEW j \in Jobs, Tool(j) \/ Cancel(j) \/ Release(j)
  PROVE  [JobNext]_jobVars
<1>1. CASE Exit(j)
  BY <1>1 DEF Exit
<1>2. CASE SpawnError(j)
  BY <1>2, FinishIsJobStep DEF SpawnError, Ended
<1>3. CASE Timeout(j)
  BY <1>3, FinishIsJobStep DEF Timeout, Ended
<1>4. CASE Cancel(j)
  BY <1>4, FinishIsJobStep DEF Cancel, Ended
<1>5. CASE Release(j)
  BY <1>5 DEF Release, JobNext
<1> QED
  BY <1>1, <1>2, <1>3, <1>4, <1>5 DEF Tool

(* The backup service implements JobManager: whichever of exit code, timeout,
   cancel, shutdown and restart comes first ends a job, and only once. *)
THEOREM ServiceImplementsJobManager == Spec => ImplementsJobManager
<1>1. Init => JobInit
  BY DEF Init
<1>2. [Next]_vars => [JobNext]_jobVars
  <2> SUFFICES ASSUME [Next]_vars PROVE [JobNext]_jobVars
      OBVIOUS
  <2>1. CASE \E j \in Jobs : Tool(j) \/ Cancel(j) \/ Release(j)
    BY <2>1, ToolStepIsJobStep
  <2>2. CASE \E b \in Backups : Backup(b)
    BY <2>2, BackupStepIsJobStep
  <2>3. CASE \E r \in Restores : Restore(r)
    BY <2>3, RestoreStepIsJobStep
  <2>4. CASE Shutdown \/ Stop \/ Boot
    BY <2>4 DEF Shutdown, Stop, Boot, JobNext
  <2>5. CASE UNCHANGED vars
    BY <2>5 DEF vars, jobVars
  <2> QED
    BY <2>1, <2>2, <2>3, <2>4, <2>5 DEF Next
<1> QED
  BY <1>1, <1>2, PTL DEF Spec, ImplementsJobManager, JobSpec

(* The end of the job of a backup or a restore is never rewritten. *)
THEOREM ServiceEndsAreFinal == Spec => EndIsFinal
BY ServiceImplementsJobManager, EndsAreFinal, PTL DEF ImplementsJobManager

(* Memory and table agree about every backup and restore. *)
THEOREM ServiceMemoryAgrees == Spec => []LiveAgreesWithRow
BY ServiceImplementsJobManager, MemoryAgreesWithTable, PTL DEF ImplementsJobManager

-----------------------------------------------------------------------------
(* The safety invariant: one step per action, and under it one per part of
   IInv.  <1>0 is what a leaf may use of the state before the step. *)

(* Every step of the service, of its tools and of its users preserves IInv. *)
LEMMA BackupStep == IInv /\ [Next]_vars => IInv'
<1> SUFFICES ASSUME IInv, [Next]_vars PROVE IInv'
    OBVIOUS
<1> USE JobsAssumption DEF TypeOK, JobTypeOK, LiveAgreesWithRow, StatusOf, Running, Ended, storage, tools,
        calls, jobVars
<1>0. /\ TypeOK /\ JobTypeOK /\ LiveAgreesWithRow /\ RowsFollowTools /\ FilesFollowTools
     /\ RecordAgreesWithJob /\ SuccessHasFile /\ FailureLeavesNoFile /\ RunningJobIsDriven
  BY DEF IInv
<1>1. ASSUME NEW j \in Jobs, Exit(j) PROVE IInv'
  <2>1. TypeOK' /\ LiveAgreesWithRow'
    BY <1>0, <1>1 DEF Exit, Codes, Procs, Files, Records, Requests, Statuses
  <2>2. RowsFollowTools'
    BY <1>0, <1>1 DEF Exit, Codes, RowsFollowTools
  <2>3. RunningJobIsDriven'
    BY <1>0, <1>1 DEF Exit, Codes, RunningJobIsDriven, RowsFollowTools
  <2>4. FilesFollowTools' /\ SuccessHasFile'
    BY <1>0, <1>1 DEF Exit, Codes, Files, FilesFollowTools, SuccessHasFile,
         RowsFollowTools
  <2>5. FailureLeavesNoFile'
    BY <1>0, <1>1 DEF Exit, Codes, FailureLeavesNoFile, OnDisk, RowsFollowTools
  <2>6. RecordAgreesWithJob'
    BY <1>0, <1>1 DEF Exit, Codes, RecordAgreesWithJob, RowsFollowTools
  <2> QED
    BY <2>1, <2>2, <2>3, <2>4, <2>5, <2>6 DEF IInv
<1>2. ASSUME NEW j \in Jobs, SpawnError(j) PROVE IInv'
  <2>1. TypeOK' /\ LiveAgreesWithRow'
    BY <1>0, <1>2 DEF SpawnError, FinishJob, Procs, Codes, Files, Records, Requests,
         Statuses
  <2>2. RowsFollowTools'
    BY <1>0, <1>2 DEF SpawnError, FinishJob, RowsFollowTools
  <2>3. RunningJobIsDriven'
    BY <1>0, <1>2 DEF SpawnError, FinishJob, RunningJobIsDriven, RowsFollowTools, Codes
  <2>4. FilesFollowTools' /\ SuccessHasFile'
    BY <1>0, <1>2 DEF SpawnError, FinishJob, FilesFollowTools, SuccessHasFile,
         RowsFollowTools
  <2>5. FailureLeavesNoFile'
    BY <1>0, <1>2 DEF SpawnError, FinishJob, FailureLeavesNoFile, OnDisk, RowsFollowTools
  <2>6. RecordAgreesWithJob'
    BY <1>0, <1>2 DEF SpawnError, FinishJob, Records, Statuses, RecordAgreesWithJob,
         RowsFollowTools
  <2> QED
    BY <2>1, <2>2, <2>3, <2>4, <2>5, <2>6 DEF IInv
<1>3. ASSUME NEW j \in Jobs, Timeout(j) PROVE IInv'
  <2>1. TypeOK' /\ LiveAgreesWithRow'
    BY <1>0, <1>3 DEF Timeout, Signaled, FinishJob, Procs, Codes, Files, Records,
         Requests, Statuses
  <2>2. RowsFollowTools'
    BY <1>0, <1>3 DEF Timeout, Signaled, FinishJob, RowsFollowTools
  <2>3. RunningJobIsDriven'
    BY <1>0, <1>3 DEF Timeout, Signaled, FinishJob, RunningJobIsDriven,
         RowsFollowTools, Codes
  <2>4. FilesFollowTools' /\ SuccessHasFile'
    BY <1>0, <1>3 DEF Timeout, Signaled, FinishJob, FilesFollowTools,
         SuccessHasFile, RowsFollowTools
  <2>5. FailureLeavesNoFile'
    BY <1>0, <1>3 DEF Timeout, Signaled, FinishJob, FailureLeavesNoFile, OnDisk,
         RowsFollowTools
  <2>6. RecordAgreesWithJob'
    BY <1>0, <1>3 DEF Timeout, Signaled, FinishJob, Records, Statuses,
         RecordAgreesWithJob,
         RowsFollowTools
  <2> QED
    BY <2>1, <2>2, <2>3, <2>4, <2>5, <2>6 DEF IInv
<1>4. ASSUME NEW j \in Jobs, Cancel(j) PROVE IInv'
  <2>1. TypeOK' /\ LiveAgreesWithRow'
    BY <1>0, <1>4 DEF Cancel, Signaled, FinishJob, Procs, Codes, Files, Records,
         Requests, Statuses
  <2>2. RowsFollowTools'
    BY <1>0, <1>4 DEF Cancel, Signaled, FinishJob, RowsFollowTools
  <2>3. RunningJobIsDriven'
    BY <1>0, <1>4 DEF Cancel, Signaled, FinishJob, RunningJobIsDriven,
         RowsFollowTools, Codes
  <2>4. FilesFollowTools' /\ SuccessHasFile'
    BY <1>0, <1>4 DEF Cancel, Signaled, FinishJob, FilesFollowTools, SuccessHasFile,
         RowsFollowTools
  <2>5. FailureLeavesNoFile'
    BY <1>0, <1>4 DEF Cancel, Signaled, FinishJob, FailureLeavesNoFile, OnDisk,
         RowsFollowTools
  <2>6. RecordAgreesWithJob'
    BY <1>0, <1>4 DEF Cancel, Signaled, FinishJob, Records, Statuses, RecordAgreesWithJob,
         RowsFollowTools
  <2> QED
    BY <2>1, <2>2, <2>3, <2>4, <2>5, <2>6 DEF IInv
<1>5. ASSUME NEW j \in Jobs, Release(j) PROVE IInv'
  <2>1. TypeOK' /\ LiveAgreesWithRow'
    BY <1>0, <1>5 DEF Release, ReleaseJob, Procs, Codes, Files, Records, Requests,
         Statuses
  <2>2. RowsFollowTools'
    BY <1>0, <1>5 DEF Release, ReleaseJob, RowsFollowTools
  <2>3. RunningJobIsDriven'
    BY <1>0, <1>5 DEF Release, ReleaseJob, RunningJobIsDriven, RowsFollowTools, Codes
  <2>4. FilesFollowTools' /\ SuccessHasFile'
    BY <1>0, <1>5 DEF Release, ReleaseJob, FilesFollowTools, SuccessHasFile,
         RowsFollowTools
  <2>5. FailureLeavesNoFile'
    BY <1>0, <1>5 DEF Release, ReleaseJob, FailureLeavesNoFile, OnDisk, RowsFollowTools
  <2>6. RecordAgreesWithJob'
    BY <1>0, <1>5 DEF Release, ReleaseJob, RecordAgreesWithJob, RowsFollowTools
  <2> QED
    BY <2>1, <2>2, <2>3, <2>4, <2>5, <2>6 DEF IInv
<1>6. ASSUME NEW b \in Backups, OpenFile(b) PROVE IInv'
  <2>1. TypeOK' /\ LiveAgreesWithRow'
    BY <1>0, <1>6 DEF OpenFile, Procs, Codes, Files, Records, Requests, Statuses
  <2>2. RowsFollowTools'
    BY <1>0, <1>6 DEF OpenFile, RowsFollowTools
  <2>3. RunningJobIsDriven'
    BY <1>0, <1>6 DEF OpenFile, RunningJobIsDriven, RowsFollowTools, Codes
  <2>4. FilesFollowTools' /\ SuccessHasFile'
    BY <1>0, <1>6 DEF OpenFile, FilesFollowTools, SuccessHasFile, RowsFollowTools
  <2>5. FailureLeavesNoFile'
    BY <1>0, <1>6 DEF OpenFile, FailureLeavesNoFile, OnDisk, RowsFollowTools
  <2>6. RecordAgreesWithJob'
    BY <1>0, <1>6 DEF OpenFile, RecordAgreesWithJob, RowsFollowTools
  <2> QED
    BY <2>1, <2>2, <2>3, <2>4, <2>5, <2>6 DEF IInv
<1>7. ASSUME NEW b \in Backups, RequestBackup(b) PROVE IInv'
  <2>1. TypeOK' /\ LiveAgreesWithRow'
    BY <1>0, <1>7 DEF RequestBackup, Procs, Codes, Files, Records, Requests, Statuses
  <2>2. RowsFollowTools'
    BY <1>0, <1>7 DEF RequestBackup, RowsFollowTools
  <2>3. RunningJobIsDriven'
    BY <1>0, <1>7 DEF RequestBackup, RunningJobIsDriven, RowsFollowTools, Codes
  <2>4. FilesFollowTools' /\ SuccessHasFile'
    BY <1>0, <1>7 DEF RequestBackup, FilesFollowTools, SuccessHasFile, RowsFollowTools
  <2>5. FailureLeavesNoFile'
    BY <1>0, <1>7 DEF RequestBackup, FailureLeavesNoFile, OnDisk, RowsFollowTools
  <2>6. RecordAgreesWithJob'
    BY <1>0, <1>7 DEF RequestBackup, RecordAgreesWithJob, RowsFollowTools
  <2> QED
    BY <2>1, <2>2, <2>3, <2>4, <2>5, <2>6 DEF IInv
<1>8. ASSUME NEW b \in Backups, StartBackup(b) PROVE IInv'
  <2>1. TypeOK' /\ LiveAgreesWithRow'
    BY <1>0, <1>8 DEF StartBackup, CreateJob, Spawn, Procs, Codes, Files, Records,
         Requests, Statuses
  <2>2. RowsFollowTools'
    BY <1>0, <1>8 DEF StartBackup, CreateJob, Spawn, RowsFollowTools
  <2>3. RunningJobIsDriven'
    BY <1>0, <1>8 DEF StartBackup, CreateJob, Spawn, RunningJobIsDriven,
         RowsFollowTools, Codes
  <2>4. FilesFollowTools' /\ SuccessHasFile'
    BY <1>0, <1>8 DEF StartBackup, CreateJob, Spawn, FilesFollowTools,
         SuccessHasFile, RowsFollowTools
  <2>5. FailureLeavesNoFile'
    BY <1>0, <1>8 DEF StartBackup, CreateJob, Spawn, FailureLeavesNoFile, OnDisk,
         RowsFollowTools
  <2>6. RecordAgreesWithJob'
    BY <1>0, <1>8 DEF StartBackup, CreateJob, Spawn, RecordAgreesWithJob, RowsFollowTools
  <2> QED
    BY <2>1, <2>2, <2>3, <2>4, <2>5, <2>6 DEF IInv
<1>9. ASSUME NEW b \in Backups, DumpSucceeded(b) PROVE IInv'
  <2>1. TypeOK' /\ LiveAgreesWithRow'
    BY <1>0, <1>9 DEF DumpSucceeded, CloseReported, Codes, Procs, Files, Records,
         Requests, Statuses
  <2>2. RowsFollowTools'
    BY <1>0, <1>9 DEF DumpSucceeded, CloseReported, Codes, Records, Statuses,
         RowsFollowTools
  <2>3. RunningJobIsDriven'
    BY <1>0, <1>9 DEF DumpSucceeded, CloseReported, Codes, RunningJobIsDriven,
         RowsFollowTools
  <2>4. FilesFollowTools' /\ SuccessHasFile'
    BY <1>0, <1>9 DEF DumpSucceeded, CloseReported, Codes, FilesFollowTools,
         SuccessHasFile, RowsFollowTools
  <2>5. FailureLeavesNoFile'
    BY <1>0, <1>9 DEF DumpSucceeded, CloseReported, Codes, FailureLeavesNoFile,
         OnDisk, RowsFollowTools
  <2>6. RecordAgreesWithJob'
    BY <1>0, <1>9 DEF DumpSucceeded, CloseReported, Codes, RecordAgreesWithJob,
         RowsFollowTools
  <2> QED
    BY <2>1, <2>2, <2>3, <2>4, <2>5, <2>6 DEF IInv
<1>10. ASSUME NEW b \in Backups, RecordSuccess(b) PROVE IInv'
  <2>1. TypeOK' /\ LiveAgreesWithRow'
    BY <1>0, <1>10 DEF RecordSuccess, MarkFinished, Listed, FinishJob, Procs, Codes,
         Files, Records, Requests, Statuses
  <2>2. RowsFollowTools'
    BY <1>0, <1>10 DEF RecordSuccess, MarkFinished, Listed, FinishJob, RowsFollowTools
  <2>3. RunningJobIsDriven'
    BY <1>0, <1>10 DEF RecordSuccess, MarkFinished, Listed, FinishJob,
         RunningJobIsDriven, RowsFollowTools, Codes
  <2>4. FilesFollowTools' /\ SuccessHasFile'
    BY <1>0, <1>10 DEF RecordSuccess, MarkFinished, Listed, FinishJob,
         FilesFollowTools, SuccessHasFile, RowsFollowTools
  <2>5. FailureLeavesNoFile'
    BY <1>0, <1>10 DEF RecordSuccess, MarkFinished, Listed, FinishJob,
         FailureLeavesNoFile, OnDisk, RowsFollowTools
  <2>6. RecordAgreesWithJob'
    BY <1>0, <1>10 DEF RecordSuccess, MarkFinished, Listed, FinishJob, Records,
         Statuses, RecordAgreesWithJob,
         RowsFollowTools
  <2> QED
    BY <2>1, <2>2, <2>3, <2>4, <2>5, <2>6 DEF IInv
<1>11. ASSUME NEW b \in Backups, DumpFailed(b) PROVE IInv'
  <2>1. TypeOK' /\ LiveAgreesWithRow'
    BY <1>0, <1>11 DEF DumpFailed, CloseReported, Codes, MarkFinished, Listed,
         FinishJob, Procs, Files, Records, Requests, Statuses
  <2>2. RowsFollowTools'
    BY <1>0, <1>11 DEF DumpFailed, CloseReported, Codes, MarkFinished, Listed,
         FinishJob, RowsFollowTools
  <2>3. RunningJobIsDriven'
    BY <1>0, <1>11 DEF DumpFailed, CloseReported, Codes, MarkFinished, Listed,
         FinishJob, RunningJobIsDriven, RowsFollowTools
  <2>4. FilesFollowTools' /\ SuccessHasFile'
    BY <1>0, <1>11 DEF DumpFailed, CloseReported, Codes, MarkFinished, Listed,
         FinishJob, FilesFollowTools, SuccessHasFile, RowsFollowTools
  <2>5. FailureLeavesNoFile'
    BY <1>0, <1>11 DEF DumpFailed, CloseReported, Codes, MarkFinished, Listed,
         FinishJob, FailureLeavesNoFile, OnDisk, RowsFollowTools
  <2>6. RecordAgreesWithJob'
    BY <1>0, <1>11 DEF DumpFailed, CloseReported, Codes, MarkFinished, Listed,
         FinishJob, Records, Statuses, RecordAgreesWithJob,
         RowsFollowTools
  <2> QED
    BY <2>1, <2>2, <2>3, <2>4, <2>5, <2>6 DEF IInv
<1>12. ASSUME NEW b \in Backups, RemovePartial(b) PROVE IInv'
  <2>1. TypeOK' /\ LiveAgreesWithRow'
    BY <1>0, <1>12 DEF RemovePartial, Unlink, OnDisk, Procs, Codes, Files, Records,
         Requests, Statuses
  <2>2. RowsFollowTools'
    BY <1>0, <1>12 DEF RemovePartial, Unlink, OnDisk, RowsFollowTools
  <2>3. RunningJobIsDriven'
    BY <1>0, <1>12 DEF RemovePartial, Unlink, OnDisk, RunningJobIsDriven,
         RowsFollowTools, Codes
  <2>4. FilesFollowTools' /\ SuccessHasFile'
    BY <1>0, <1>12 DEF RemovePartial, Unlink, OnDisk, FilesFollowTools,
         SuccessHasFile, RowsFollowTools
  <2>5. FailureLeavesNoFile'
    BY <1>0, <1>12 DEF RemovePartial, Unlink, OnDisk, FailureLeavesNoFile, RowsFollowTools
  <2>6. RecordAgreesWithJob'
    BY <1>0, <1>12 DEF RemovePartial, Unlink, OnDisk, RecordAgreesWithJob, RowsFollowTools
  <2> QED
    BY <2>1, <2>2, <2>3, <2>4, <2>5, <2>6 DEF IInv
<1>13. ASSUME NEW b \in Backups, RequestDelete(b) PROVE IInv'
  <2>1. TypeOK' /\ LiveAgreesWithRow'
    BY <1>0, <1>13 DEF RequestDelete, Listed, Procs, Codes, Files, Records,
         Requests, Statuses
  <2>2. RowsFollowTools'
    BY <1>0, <1>13 DEF RequestDelete, Listed, RowsFollowTools
  <2>3. RunningJobIsDriven'
    BY <1>0, <1>13 DEF RequestDelete, Listed, RunningJobIsDriven, RowsFollowTools, Codes
  <2>4. FilesFollowTools' /\ SuccessHasFile'
    BY <1>0, <1>13 DEF RequestDelete, Listed, FilesFollowTools, SuccessHasFile,
         RowsFollowTools
  <2>5. FailureLeavesNoFile'
    BY <1>0, <1>13 DEF RequestDelete, Listed, FailureLeavesNoFile, OnDisk, RowsFollowTools
  <2>6. RecordAgreesWithJob'
    BY <1>0, <1>13 DEF RequestDelete, Listed, RecordAgreesWithJob, RowsFollowTools
  <2> QED
    BY <2>1, <2>2, <2>3, <2>4, <2>5, <2>6 DEF IInv
<1>14. ASSUME NEW b \in Backups, DeleteFile(b) PROVE IInv'
  <2>1. TypeOK' /\ LiveAgreesWithRow'
    BY <1>0, <1>14 DEF DeleteFile, Unlink, OnDisk, Procs, Codes, Files, Records,
         Requests, Statuses
  <2>2. RowsFollowTools'
    BY <1>0, <1>14 DEF DeleteFile, Unlink, OnDisk, RowsFollowTools
  <2>3. RunningJobIsDriven'
    BY <1>0, <1>14 DEF DeleteFile, Unlink, OnDisk, RunningJobIsDriven,
         RowsFollowTools, Codes
  <2>4. FilesFollowTools' /\ SuccessHasFile'
    BY <1>0, <1>14 DEF DeleteFile, Unlink, OnDisk, FilesFollowTools, SuccessHasFile,
         RowsFollowTools
  <2>5. FailureLeavesNoFile'
    BY <1>0, <1>14 DEF DeleteFile, Unlink, OnDisk, FailureLeavesNoFile, RowsFollowTools
  <2>6. RecordAgreesWithJob'
    BY <1>0, <1>14 DEF DeleteFile, Unlink, OnDisk, RecordAgreesWithJob, RowsFollowTools
  <2> QED
    BY <2>1, <2>2, <2>3, <2>4, <2>5, <2>6 DEF IInv
<1>15. ASSUME NEW b \in Backups, DeleteRecord(b) PROVE IInv'
  <2>1. TypeOK' /\ LiveAgreesWithRow'
    BY <1>0, <1>15 DEF DeleteRecord, Procs, Codes, Files, Records, Requests, Statuses
  <2>2. RowsFollowTools'
    BY <1>0, <1>15 DEF DeleteRecord, RowsFollowTools, FilesFollowTools
  <2>3. RunningJobIsDriven'
    BY <1>0, <1>15 DEF DeleteRecord, RunningJobIsDriven, RowsFollowTools, Codes
  <2>4. FilesFollowTools' /\ SuccessHasFile'
    BY <1>0, <1>15 DEF DeleteRecord, FilesFollowTools, SuccessHasFile, RowsFollowTools
  <2>5. FailureLeavesNoFile'
    BY <1>0, <1>15 DEF DeleteRecord, FailureLeavesNoFile, OnDisk, RowsFollowTools
  <2>6. RecordAgreesWithJob'
    BY <1>0, <1>15 DEF DeleteRecord, RecordAgreesWithJob, RowsFollowTools
  <2> QED
    BY <2>1, <2>2, <2>3, <2>4, <2>5, <2>6 DEF IInv
<1>16. ASSUME NEW r \in Restores, NEW b \in Backups, RequestRestore(r, b) PROVE IInv'
  <2>1. TypeOK' /\ LiveAgreesWithRow'
    BY <1>0, <1>16 DEF RequestRestore, Procs, Codes, Files, Records, Requests, Statuses
  <2>2. RowsFollowTools'
    BY <1>0, <1>16 DEF RequestRestore, RowsFollowTools
  <2>3. RunningJobIsDriven'
    BY <1>0, <1>16 DEF RequestRestore, RunningJobIsDriven, RowsFollowTools, Codes
  <2>4. FilesFollowTools' /\ SuccessHasFile'
    BY <1>0, <1>16 DEF RequestRestore, FilesFollowTools, SuccessHasFile, RowsFollowTools
  <2>5. FailureLeavesNoFile'
    BY <1>0, <1>16 DEF RequestRestore, FailureLeavesNoFile, OnDisk, RowsFollowTools
  <2>6. RecordAgreesWithJob'
    BY <1>0, <1>16 DEF RequestRestore, RecordAgreesWithJob, RowsFollowTools
  <2> QED
    BY <2>1, <2>2, <2>3, <2>4, <2>5, <2>6 DEF IInv
<1>17. ASSUME NEW r \in Restores, StartRestore(r) PROVE IInv'
  <2>1. TypeOK' /\ LiveAgreesWithRow'
    BY <1>0, <1>17 DEF StartRestore, CreateJob, Spawn, Procs, Codes, Files, Records,
         Requests, Statuses
  <2>2. RowsFollowTools'
    BY <1>0, <1>17 DEF StartRestore, CreateJob, Spawn, RowsFollowTools
  <2>3. RunningJobIsDriven'
    BY <1>0, <1>17 DEF StartRestore, CreateJob, Spawn, RunningJobIsDriven,
         RowsFollowTools, Codes
  <2>4. FilesFollowTools' /\ SuccessHasFile'
    BY <1>0, <1>17 DEF StartRestore, CreateJob, Spawn, FilesFollowTools,
         SuccessHasFile, RowsFollowTools
  <2>5. FailureLeavesNoFile'
    BY <1>0, <1>17 DEF StartRestore, CreateJob, Spawn, FailureLeavesNoFile, OnDisk,
         RowsFollowTools
  <2>6. RecordAgreesWithJob'
    BY <1>0, <1>17 DEF StartRestore, CreateJob, Spawn, RecordAgreesWithJob,
         RowsFollowTools
  <2> QED
    BY <2>1, <2>2, <2>3, <2>4, <2>5, <2>6 DEF IInv
<1>18. ASSUME NEW r \in Restores, RejectRestore(r) PROVE IInv'
  <2>1. TypeOK' /\ LiveAgreesWithRow'
    BY <1>0, <1>18 DEF RejectRestore, Procs, Codes, Files, Records, Requests, Statuses
  <2>2. RowsFollowTools'
    BY <1>0, <1>18 DEF RejectRestore, RowsFollowTools
  <2>3. RunningJobIsDriven'
    BY <1>0, <1>18 DEF RejectRestore, RunningJobIsDriven, RowsFollowTools, Codes
  <2>4. FilesFollowTools' /\ SuccessHasFile'
    BY <1>0, <1>18 DEF RejectRestore, FilesFollowTools, SuccessHasFile, RowsFollowTools
  <2>5. FailureLeavesNoFile'
    BY <1>0, <1>18 DEF RejectRestore, FailureLeavesNoFile, OnDisk, RowsFollowTools
  <2>6. RecordAgreesWithJob'
    BY <1>0, <1>18 DEF RejectRestore, RecordAgreesWithJob, RowsFollowTools
  <2> QED
    BY <2>1, <2>2, <2>3, <2>4, <2>5, <2>6 DEF IInv
<1>19. ASSUME NEW r \in Restores, RestoreClosed(r) PROVE IInv'
  <2>1. TypeOK' /\ LiveAgreesWithRow'
    BY <1>0, <1>19 DEF RestoreClosed, CloseReported, Codes, FinishJob, Procs, Files,
         Records, Requests, Statuses
  <2>2. RowsFollowTools'
    BY <1>0, <1>19 DEF RestoreClosed, CloseReported, Codes, FinishJob, RowsFollowTools
  <2>3. RunningJobIsDriven'
    BY <1>0, <1>19 DEF RestoreClosed, CloseReported, Codes, FinishJob,
         RunningJobIsDriven, RowsFollowTools
  <2>4. FilesFollowTools' /\ SuccessHasFile'
    BY <1>0, <1>19 DEF RestoreClosed, CloseReported, Codes, FinishJob,
         FilesFollowTools, SuccessHasFile, RowsFollowTools
  <2>5. FailureLeavesNoFile'
    BY <1>0, <1>19 DEF RestoreClosed, CloseReported, Codes, FinishJob,
         FailureLeavesNoFile, OnDisk, RowsFollowTools
  <2>6. RecordAgreesWithJob'
    BY <1>0, <1>19 DEF RestoreClosed, CloseReported, Codes, FinishJob, Records,
         Statuses, RecordAgreesWithJob,
         RowsFollowTools
  <2> QED
    BY <2>1, <2>2, <2>3, <2>4, <2>5, <2>6 DEF IInv
<1>20. ASSUME Shutdown PROVE IInv'
  <2>1. TypeOK' /\ LiveAgreesWithRow'
    BY <1>0, <1>20 DEF Shutdown, CancelRunning, Signaled, Procs, Codes, Files,
         Records, Requests, Statuses
  <2>2. RowsFollowTools'
    BY <1>0, <1>20 DEF Shutdown, CancelRunning, Signaled, RowsFollowTools
  <2>3. RunningJobIsDriven'
    BY <1>0, <1>20 DEF Shutdown, CancelRunning, Signaled, RunningJobIsDriven,
         RowsFollowTools, Codes
  <2>4. FilesFollowTools' /\ SuccessHasFile'
    BY <1>0, <1>20 DEF Shutdown, CancelRunning, Signaled, FilesFollowTools,
         SuccessHasFile, RowsFollowTools
  <2>5. FailureLeavesNoFile'
    BY <1>0, <1>20 DEF Shutdown, CancelRunning, Signaled, FailureLeavesNoFile,
         OnDisk, RowsFollowTools
  <2>6. RecordAgreesWithJob'
    BY <1>0, <1>20 DEF Shutdown, CancelRunning, Signaled, RecordAgreesWithJob,
         RowsFollowTools
  <2> QED
    BY <2>1, <2>2, <2>3, <2>4, <2>5, <2>6 DEF IInv
<1>21. ASSUME Stop PROVE IInv'
  <2>1. TypeOK' /\ LiveAgreesWithRow'
    BY <1>0, <1>21 DEF Stop, ForgetLive, Codes, Procs, Files, Records, Requests, Statuses
  <2>2. RowsFollowTools'
    BY <1>0, <1>21 DEF Stop, ForgetLive, Codes, RowsFollowTools
  <2>3. RunningJobIsDriven'
    BY <1>0, <1>21 DEF Stop, ForgetLive, Codes, RunningJobIsDriven, RowsFollowTools
  <2>4. FilesFollowTools' /\ SuccessHasFile'
    BY <1>0, <1>21 DEF Stop, ForgetLive, Codes, FilesFollowTools, SuccessHasFile,
         RowsFollowTools
  <2>5. FailureLeavesNoFile'
    BY <1>0, <1>21 DEF Stop, ForgetLive, Codes, FailureLeavesNoFile, OnDisk,
         RowsFollowTools
  <2>6. RecordAgreesWithJob'
    BY <1>0, <1>21 DEF Stop, ForgetLive, Codes, RecordAgreesWithJob, RowsFollowTools
  <2> QED
    BY <2>1, <2>2, <2>3, <2>4, <2>5, <2>6 DEF IInv
<1>22. ASSUME Boot PROVE IInv'
  <2>1. TypeOK' /\ LiveAgreesWithRow'
    BY <1>0, <1>22 DEF Boot, FailInterrupted, Procs, Codes, Files, Records,
         Requests, Statuses
  <2>2. RowsFollowTools'
    BY <1>0, <1>22 DEF Boot, FailInterrupted, RowsFollowTools
  <2>3. RunningJobIsDriven'
    BY <1>0, <1>22 DEF Boot, FailInterrupted, RunningJobIsDriven, RowsFollowTools, Codes
  <2>4. FilesFollowTools' /\ SuccessHasFile'
    BY <1>0, <1>22 DEF Boot, FailInterrupted, FilesFollowTools, SuccessHasFile,
         RowsFollowTools
  <2>5. FailureLeavesNoFile'
    BY <1>0, <1>22 DEF Boot, FailInterrupted, FailureLeavesNoFile, OnDisk, RowsFollowTools
  <2>6. RecordAgreesWithJob'
    BY <1>0, <1>22 DEF Boot, FailInterrupted, RecordAgreesWithJob, RowsFollowTools
  <2> QED
    BY <2>1, <2>2, <2>3, <2>4, <2>5, <2>6 DEF IInv
<1>23. ASSUME NEW r \in Restores, SourceFound(r) PROVE IInv'
  <2>1. TypeOK' /\ LiveAgreesWithRow'
    BY <1>0, <1>23 DEF SourceFound, Procs, Codes, Files, Records, Requests, Statuses
  <2>2. RowsFollowTools'
    BY <1>0, <1>23 DEF SourceFound, RowsFollowTools
  <2>3. RunningJobIsDriven'
    BY <1>0, <1>23 DEF SourceFound, RunningJobIsDriven, RowsFollowTools, Codes
  <2>4. FilesFollowTools' /\ SuccessHasFile'
    BY <1>0, <1>23 DEF SourceFound, FilesFollowTools, SuccessHasFile, RowsFollowTools
  <2>5. FailureLeavesNoFile'
    BY <1>0, <1>23 DEF SourceFound, FailureLeavesNoFile, OnDisk, RowsFollowTools
  <2>6. RecordAgreesWithJob'
    BY <1>0, <1>23 DEF SourceFound, RecordAgreesWithJob, RowsFollowTools
  <2> QED
    BY <2>1, <2>2, <2>3, <2>4, <2>5, <2>6 DEF IInv
<1>24. CASE UNCHANGED vars
  BY <1>0, <1>24 DEF vars, IInv, RowsFollowTools, FilesFollowTools, RecordAgreesWithJob,
       SuccessHasFile, FailureLeavesNoFile, RunningJobIsDriven, OnDisk
<1> QED
  BY <1>1, <1>2, <1>3, <1>4, <1>5, <1>6, <1>7, <1>8, <1>9, <1>10, <1>11, <1>12, <1>13,
     <1>14, <1>15, <1>16, <1>17, <1>18, <1>19, <1>20, <1>21, <1>22, <1>23, <1>24
     DEF Next, Tool, Backup, Restore

(* The inductive invariant holds of every behaviour of the service. *)
THEOREM BackupInvariance == Spec => []IInv
<1>1. Init => IInv
  BY JobsAssumption DEF Init, JobInit, IInv, TypeOK, JobTypeOK, LiveAgreesWithRow, StatusOf,
     RowsFollowTools, FilesFollowTools, RecordAgreesWithJob, SuccessHasFile,
     FailureLeavesNoFile, RunningJobIsDriven, OnDisk, Running, Ended, Statuses, Records,
     Files, Procs, Codes, Requests
<1> QED
  BY <1>1, BackupStep, PTL DEF Spec

(* A backup that failed leaves no file behind, and one listed as a success has
   its whole file until somebody asks to delete it, whatever was canceled,
   deleted or restarted while it ran. *)
THEOREM FilesFollow == Spec => []FilesFollowRows
<1>1. IInv => FilesFollowRows
  BY DEF IInv, FilesFollowRows
<1> QED
  BY <1>1, BackupInvariance, PTL

(* Job and record never contradict each other about success, but for the one
   way round RecordAgreesWithJob allows, and no job of a server that is up runs
   with nothing left to end it. *)
THEOREM JobsFollow == Spec => []JobsFollowTools
<1>1. IInv => JobsFollowTools
  BY DEF IInv, JobsFollowTools
<1> QED
  BY <1>1, BackupInvariance, PTL

-----------------------------------------------------------------------------
(* The way of a request: the route tables (Access.tla) *)

Asked(needs, gate, does, where, steps, log, turns) ==
  [needs |-> needs, gate |-> gate, does |-> does, where |-> where,
   steps |-> steps, log |-> log, turns |-> turns]

(* What the routes of all files have in common: nobody is let in whose role does
   not promise what the route does; who writes on the server asks the connection,
   but for the routes known by name; who does not log is known by name too. *)
Sane(route) ==
  /\ route.needs \in A!Roles /\ route.does \in DOMAIN A!Promised
  /\ route.steps \in Nat \ {0}
  /\ A!HasRole(IF route.gate = "transaction" THEN "editor" ELSE route.needs,
               A!Promised[route.does])
  /\ route.where # "home" /\ route.gate \notin {"assert", "transaction"} => route \in A!Unasked
  /\ route.log = "none" /\ route.does # "read" =>
       route \in {A!SystemRoutes.flush, A!SqlRoutes.explain, A!SqlRoutes.clearHistory}
  /\ route.log = "anonymous" => route = A!JobRoutes.runSchedule

(* What the words of the route tables say of a route. *)
LEMMA Altered ==
  ASSUME NEW n, NEW g, NEW d, NEW v, NEW s, NEW l, NEW t, NEW x
  PROVE  /\ A!For(x, Asked(n, g, d, v, s, l, t))    = Asked(x, g, d, v, s, l, t)
         /\ A!Gated(x, Asked(n, g, d, v, s, l, t))  = Asked(n, x, d, v, s, l, t)
         /\ A!Doing(x, Asked(n, g, d, v, s, l, t))  = Asked(n, g, x, v, s, l, t)
         /\ A!Logged(x, Asked(n, g, d, v, s, l, t)) = Asked(n, g, d, v, s, x, t)
         /\ A!Turns(x, Asked(n, g, d, v, s, l, t))  = Asked(n, g, d, v, s, l, x)
<1> SUFFICES ASSUME NEW e, NEW f, e = Asked(n, g, d, v, s, l, t)
             PROVE  /\ f = A!For(x, e) => f = Asked(x, g, d, v, s, l, t)
                    /\ f = A!Gated(x, e) => f = Asked(n, x, d, v, s, l, t)
                    /\ f = A!Doing(x, e) => f = Asked(n, g, x, v, s, l, t)
                    /\ f = A!Logged(x, e) => f = Asked(n, g, d, v, s, x, t)
                    /\ f = A!Turns(x, e) => f = Asked(n, g, d, v, s, l, x)
    BY Zenon
<1> QED
  BY Zenon DEF Asked, A!For, A!Gated, A!Doing, A!Logged, A!Turns

(* An altered route differs in the altered field and in no other. *)
LEMMA AlteredPlace ==
  ASSUME NEW n, NEW g, NEW d, NEW v, NEW s, NEW l, NEW t, NEW x
  PROVE  /\ A!Changing(x, Asked(n, g, d, v, s, l, t)) = Asked(n, g, d, x, s, l, t)
         /\ A!InTwoSteps(Asked(n, g, d, v, s, l, t)) = Asked(n, g, d, v, 2, l, t)
<1> SUFFICES ASSUME NEW e, NEW f, e = Asked(n, g, d, v, s, l, t)
             PROVE  /\ f = A!Changing(x, e) => f = Asked(n, g, d, x, s, l, t)
                    /\ f = A!InTwoSteps(e) => f = Asked(n, g, d, v, 2, l, t)
    BY Zenon
<1> QED
  BY Zenon DEF Asked, A!Changing, A!InTwoSteps

(* The kinds of route most tables are made of. *)
LEMMA RouteKinds ==
  /\ A!Editing  = Asked("editor", "assert", "write", "server", 1, "after", "nothing")
  /\ A!Granting = Asked("admin", "assert", "write", "server", 1, "after", "nothing")
  /\ A!Keeping  = Asked("editor", "none", "write", "home", 1, "after", "nothing")
  /\ A!Dropping = Asked("editor", "none", "write", "scratch", 1, "after", "nothing")
  /\ A!Managing = Asked("admin", "none", "manage", "home", 1, "after", "nothing")
  /\ A!Personal = Asked("viewer", "none", "own", "home", 1, "after", "nothing")
  /\ A!Reading  = Asked("viewer", "none", "read", "home", 1, "none", "nothing")
<1>1. A!Editing = Asked("editor", "assert", "write", "server", 1, "after", "nothing")
  BY DEF A!Editing, Asked
<1>2. A!Granting = Asked("admin", "assert", "write", "server", 1, "after", "nothing")
  BY <1>1, Altered DEF A!Granting
<1>3. A!Keeping = Asked("editor", "none", "write", "home", 1, "after", "nothing")
  <2>1. A!Gated("none", A!Editing) = Asked("editor", "none", "write", "server", 1, "after", "nothing")
    BY <1>1, Altered
  <2> QED
    BY <2>1, AlteredPlace DEF A!Keeping
<1>4. A!Managing = Asked("admin", "none", "manage", "home", 1, "after", "nothing")
  BY <1>3, Altered DEF A!Managing
<1>5. A!Personal = Asked("viewer", "none", "own", "home", 1, "after", "nothing")
  BY <1>3, Altered DEF A!Personal
<1>6. A!Reading  = Asked("viewer", "none", "read", "home", 1, "none", "nothing")
  BY <1>5, Altered DEF A!Reading
<1>7. A!Dropping = Asked("editor", "none", "write", "scratch", 1, "after", "nothing")
  BY <1>3, AlteredPlace DEF A!Dropping
<1> QED
  BY <1>1, <1>2, <1>3, <1>4, <1>5, <1>6, <1>7

(* The forms of route the tables use. *)
LEMMA RouteForms ==
  /\ A!Logged("after", A!Reading) = Asked("viewer", "none", "read", "home", 1, "after", "nothing")
  /\ A!For("admin", A!Reading) = Asked("admin", "none", "read", "home", 1, "none", "nothing")
  /\ A!Logged("after", A!For("admin", A!Reading))
       = Asked("admin", "none", "read", "home", 1, "after", "nothing")
  /\ A!Logged("always", A!Gated("transaction", A!For("viewer", A!Editing)))
       = Asked("viewer", "transaction", "write", "server", 1, "always", "nothing")
  /\ A!Logged("none", A!Gated("transaction", A!For("viewer", A!Editing)))
       = Asked("viewer", "transaction", "write", "server", 1, "none", "nothing")
  /\ A!Logged("none", A!Personal) = Asked("viewer", "none", "own", "home", 1, "none", "nothing")
  /\ A!Gated("author", A!Personal) = Asked("viewer", "author", "own", "home", 1, "after", "nothing")
  /\ A!InTwoSteps(A!Granting) = Asked("admin", "assert", "write", "server", 2, "after", "nothing")
  /\ A!InTwoSteps(A!Editing) = Asked("editor", "assert", "write", "server", 2, "after", "nothing")
  /\ A!Gated("none", A!Editing) = Asked("editor", "none", "write", "server", 1, "after", "nothing")
  /\ A!For("admin", A!Keeping) = Asked("admin", "none", "write", "home", 1, "after", "nothing")
  /\ A!Gated("assert", A!Keeping) = Asked("editor", "assert", "write", "home", 1, "after", "nothing")
  /\ A!Logged("anonymous", A!Keeping)
       = Asked("editor", "none", "write", "home", 1, "anonymous", "nothing")
  /\ A!Turns("readOnly", A!Managing) = Asked("admin", "none", "manage", "home", 1, "after", "readOnly")
  /\ A!Turns("role", A!Managing) = Asked("admin", "none", "manage", "home", 1, "after", "role")
  /\ A!Logged("always", A!Managing) = Asked("admin", "none", "manage", "home", 1, "always", "nothing")
  /\ A!Logged("none", A!Managing) = Asked("admin", "none", "manage", "home", 1, "none", "nothing")
<1> USE RouteKinds
<1>1. /\ A!InTwoSteps(A!Granting) = Asked("admin", "assert", "write", "server", 2, "after", "nothing")
      /\ A!InTwoSteps(A!Editing) = Asked("editor", "assert", "write", "server", 2, "after", "nothing")
  BY AlteredPlace
<1>2. A!For("admin", A!Reading) = Asked("admin", "none", "read", "home", 1, "none", "nothing")
      /\ A!For("viewer", A!Editing) = Asked("viewer", "assert", "write", "server", 1, "after", "nothing")
  BY Altered
<1>3. A!Gated("transaction", A!For("viewer", A!Editing))
        = Asked("viewer", "transaction", "write", "server", 1, "after", "nothing")
  BY <1>2, Altered
<1> QED
  BY <1>1, <1>2, <1>3, Altered

(* The form of a cancel. *)
LEMMA CancelForm ==
  A!Logged("effect", A!Keeping) = Asked("editor", "none", "write", "home", 1, "effect", "nothing")
BY Altered, RouteKinds

(* The routes the properties call by name. *)
LEMMA NamedRoutes ==
  /\ A!Unasked = {A!Gated("none", A!Editing), A!Dropping}
  /\ A!ClusterRoutes.restore    = A!Gated("none", A!Editing)
  /\ A!SystemRoutes.flush       = A!Logged("none", A!Managing)
  /\ A!SqlRoutes.explain        = A!Logged("none", A!Gated("transaction", A!For("viewer", A!Editing)))
  /\ A!SqlRoutes.clearHistory   = A!Logged("none", A!Personal)
  /\ A!JobRoutes.runSchedule    = A!Logged("anonymous", A!Keeping)
BY DEF A!Unasked, A!ClusterRoutes, A!BackupRoutes, A!SystemRoutes, A!SqlRoutes, A!JobRoutes

(* Each form is sane; the tables are read off these. *)
LEMMA SaneForms ==
  /\ Sane(A!Editing) /\ Sane(A!Granting) /\ Sane(A!Keeping) /\ Sane(A!Managing)
  /\ Sane(A!Personal) /\ Sane(A!Reading)
  /\ Sane(A!Logged("after", A!Reading)) /\ Sane(A!For("admin", A!Reading))
  /\ Sane(A!Logged("after", A!For("admin", A!Reading)))
  /\ Sane(A!Logged("always", A!Gated("transaction", A!For("viewer", A!Editing))))
  /\ Sane(A!Logged("none", A!Gated("transaction", A!For("viewer", A!Editing))))
  /\ Sane(A!Logged("none", A!Personal)) /\ Sane(A!Gated("author", A!Personal))
  /\ Sane(A!InTwoSteps(A!Granting)) /\ Sane(A!InTwoSteps(A!Editing))
  /\ Sane(A!Gated("none", A!Editing)) /\ Sane(A!For("admin", A!Keeping))
  /\ Sane(A!Gated("assert", A!Keeping)) /\ Sane(A!Logged("anonymous", A!Keeping))
  /\ Sane(A!Dropping) /\ Sane(A!Logged("effect", A!Keeping))
  /\ Sane(A!Turns("readOnly", A!Managing)) /\ Sane(A!Turns("role", A!Managing))
  /\ Sane(A!Logged("always", A!Managing)) /\ Sane(A!Logged("none", A!Managing))
<1> USE RouteKinds, RouteForms, CancelForm, NamedRoutes
    DEF Asked, Sane, A!Roles, A!Promised, A!HasRole, A!Level
<1>1. Sane(A!Editing) /\ Sane(A!Granting) /\ Sane(A!Keeping) /\ Sane(A!Managing)
  OBVIOUS
<1>2. Sane(A!Personal) /\ Sane(A!Reading) /\ Sane(A!Logged("after", A!Reading))
  OBVIOUS
<1>3. Sane(A!For("admin", A!Reading)) /\ Sane(A!Logged("after", A!For("admin", A!Reading)))
  OBVIOUS
<1>4. /\ Sane(A!Logged("always", A!Gated("transaction", A!For("viewer", A!Editing))))
      /\ Sane(A!Logged("none", A!Gated("transaction", A!For("viewer", A!Editing))))
  OBVIOUS
<1>5. Sane(A!Logged("none", A!Personal)) /\ Sane(A!Gated("author", A!Personal))
  OBVIOUS
<1>6. Sane(A!InTwoSteps(A!Granting)) /\ Sane(A!InTwoSteps(A!Editing)) /\ Sane(A!Gated("none", A!Editing))
  OBVIOUS
<1>7. /\ Sane(A!For("admin", A!Keeping)) /\ Sane(A!Gated("assert", A!Keeping))
      /\ Sane(A!Logged("anonymous", A!Keeping))
  OBVIOUS
<1>8. /\ Sane(A!Turns("readOnly", A!Managing)) /\ Sane(A!Turns("role", A!Managing))
      /\ Sane(A!Logged("always", A!Managing)) /\ Sane(A!Logged("none", A!Managing))
  OBVIOUS
<1>9. Sane(A!Dropping) /\ Sane(A!Logged("effect", A!Keeping))
  OBVIOUS
<1> QED
  BY <1>1, <1>2, <1>3, <1>4, <1>5, <1>6, <1>7, <1>8, <1>9

(* Every route of the server. *)
LEMMA RoutesAreSane == \A route \in A!Routes : Sane(route)
<1> USE SaneForms DEF A!Range
<1>1. \A route \in A!Range(A!CatalogRoutes) \cup A!Range(A!DefinitionRoutes)
                     \cup A!Range(A!DataRoutes) : Sane(route)
  BY DEF A!CatalogRoutes, A!DefinitionRoutes, A!DataRoutes
<1>2. \A route \in A!Range(A!SqlRoutes) : Sane(route)
  BY DEF A!SqlRoutes
<1>3. \A route \in A!Range(A!RoleRoutes) \cup A!Range(A!MonitorRoutes) : Sane(route)
  BY DEF A!RoleRoutes, A!MonitorRoutes
<1>4. \A route \in A!Range(A!BackupRoutes) \cup A!Range(A!JobRoutes) : Sane(route)
  BY DEF A!BackupRoutes, A!JobRoutes
<1>5. \A route \in A!Range(A!ClusterRoutes) \cup A!Range(A!ConnectionRoutes) : Sane(route)
  BY DEF A!ClusterRoutes, A!ConnectionRoutes
<1>6. \A route \in A!Range(A!UserRoutes) \cup A!Range(A!InvitationRoutes)
                     \cup A!Range(A!DeliveryRoutes) : Sane(route)
  BY DEF A!UserRoutes, A!InvitationRoutes, A!DeliveryRoutes
<1>7. \A route \in A!Range(A!SystemRoutes) : Sane(route)
  BY DEF A!SystemRoutes
<1>8. \A route \in A!Range(A!AuditRoutes) \cup A!Range(A!SearchRoutes)
                     \cup A!Range(A!DiagramRoutes) : Sane(route)
  BY DEF A!AuditRoutes, A!SearchRoutes, A!DiagramRoutes
<1> QED
  <2> SUFFICES ASSUME NEW route \in A!Routes PROVE Sane(route)
      OBVIOUS
  <2> HIDE DEF A!Range
  <2> QED
  BY <1>1, <1>2, <1>3, <1>4, <1>5, <1>6, <1>7, <1>8 DEF A!Routes

-----------------------------------------------------------------------------
(* The way of a request *)

(* A request was let in: the role its token carried is enough for its route, and
   so is what the handler found marked. *)
Passed(q) ==
  /\ A!HasRole(q.by, q.route.needs)
  /\ q.route.gate = "assert"      => ~q.marked
  /\ q.route.gate = "transaction" => ~q.marked /\ q.by # "viewer"
  /\ q.route.gate = "author"      => q.mine \/ q.by = "admin"

Ats == A!Ended \cup A!Running

Queries ==
  [at : Ats, by : A!Roles, route : A!Routes, mine : BOOLEAN, might : SUBSET A!Roles,
   marked : BOOLEAN, did : Nat, entry : {"none", "anonymous", "named"}]

(* What a request says of itself at the await it is at. *)
Progress(q) ==
  /\ q.by \in q.might
  /\ q.at \in {"accepted", "refused"} => q.did = 0
  /\ q.at \in {"working", "done"} \/ q.did > 0 => Passed(q)
  /\ q.at \in {"done", "answered"} =>
       q.did = q.route.steps \/ (q.did = 0 /\ q.route.log = "effect")
  /\ q.at \in A!Running \cup {"refused", "cut"} => q.entry = "none"
  /\ q.at = "failed" /\ q.entry # "none" => q.route.log = "always"
  /\ q.at = "answered" => q.entry = A!Entry(q)

AccessInv ==
  /\ role \in [Users -> A!Roles \cup {A!Deleted}]
  /\ token \in [Users -> [role : A!Roles, live : BOOLEAN]]
  /\ lately \in [Users -> SUBSET A!Roles]
  /\ readOnly \in BOOLEAN
  /\ \A u \in Users : token[u].live => token[u].role \in lately[u]
  /\ asks \in [Callers -> {A!Nothing} \cup Queries]
  /\ \A r \in Callers : asks[r] # A!Nothing => Progress(asks[r])

(* No request has been made, and every token carries the role of its account. *)
LEMMA AccessInit == A!Init => AccessInv
BY DEF A!Init, AccessInv, A!Roles

(* A step of one request, which may change a role. *)
LEMMA RequestMoves ==
  ASSUME AccessInv, NEW r \in Callers, NEW q \in Queries, Progress(q),
         asks' = [asks EXCEPT ![r] = q], UNCHANGED token, readOnly' \in BOOLEAN,
         role' \in [Users -> A!Roles \cup {A!Deleted}], lately' \in [Users -> SUBSET A!Roles],
         \A u \in Users : lately[u] \subseteq lately'[u]
  PROVE  AccessInv'
BY DEF AccessInv

(* What a step writes in a request. *)
LEMMA MarkedAt ==
  ASSUME NEW p \in Queries, NEW x, NEW y
  PROVE  [p EXCEPT !.at = x, !.marked = y]
           = [at |-> x, by |-> p.by, route |-> p.route, mine |-> p.mine, might |-> p.might,
              marked |-> y, did |-> p.did, entry |-> p.entry]
<1>1. ASSUME NEW f, f = [p EXCEPT !.at = x, !.marked = y]
      PROVE  f = [at |-> x, by |-> p.by, route |-> p.route, mine |-> p.mine, might |-> p.might,
                  marked |-> y, did |-> p.did, entry |-> p.entry]
  BY <1>1 DEF Queries
<1> QED
  BY <1>1, Zenon

(* A request that worked on keeps its type and who asked. *)
LEMMA WorkedTo ==
  ASSUME NEW p \in Queries, NEW x, NEW y
  PROVE  [p EXCEPT !.did = x, !.at = y]
           = [at |-> y, by |-> p.by, route |-> p.route, mine |-> p.mine, might |-> p.might,
              marked |-> p.marked, did |-> x, entry |-> p.entry]
<1>1. ASSUME NEW f, f = [p EXCEPT !.did = x, !.at = y]
      PROVE  f = [at |-> y, by |-> p.by, route |-> p.route, mine |-> p.mine, might |-> p.might,
                  marked |-> p.marked, did |-> x, entry |-> p.entry]
  BY <1>1 DEF Queries
<1> QED
  BY <1>1, Zenon

(* A request that left its entry keeps its type and who asked. *)
LEMMA ClosedAt ==
  ASSUME NEW p \in Queries, NEW x, NEW y
  PROVE  [p EXCEPT !.at = x, !.entry = y]
           = [at |-> x, by |-> p.by, route |-> p.route, mine |-> p.mine, might |-> p.might,
              marked |-> p.marked, did |-> p.did, entry |-> y]
<1>1. ASSUME NEW f, f = [p EXCEPT !.at = x, !.entry = y]
      PROVE  f = [at |-> x, by |-> p.by, route |-> p.route, mine |-> p.mine, might |-> p.might,
                  marked |-> p.marked, did |-> p.did, entry |-> y]
  BY <1>1 DEF Queries
<1> QED
  BY <1>1, Zenon

(* A request that is cut short, or finds nothing to do, keeps all but its place. *)
LEMMA CutAt ==
  ASSUME NEW p \in Queries, NEW x
  PROVE  [p EXCEPT !.at = x]
           = [at |-> x, by |-> p.by, route |-> p.route, mine |-> p.mine, might |-> p.might,
              marked |-> p.marked, did |-> p.did, entry |-> p.entry]
<1>1. ASSUME NEW f, f = [p EXCEPT !.at = x]
      PROVE  f = [at |-> x, by |-> p.by, route |-> p.route, mine |-> p.mine, might |-> p.might,
                  marked |-> p.marked, did |-> p.did, entry |-> p.entry]
  BY <1>1 DEF Queries
<1> QED
  BY <1>1, Zenon

(* requireRole, and what the handler asks before its work. *)
LEMMA HandleStep ==
  ASSUME AccessInv, NEW r \in Callers, A!Handle(r)
  PROVE  AccessInv'
<1>1. asks[r] \in Queries /\ Progress(asks[r]) /\ asks[r].at = "accepted"
  BY DEF AccessInv, A!Handle, A!Nothing
<1>2. PICK x \in {"working", "refused"} :
        /\ asks' = [asks EXCEPT ![r] = [asks[r] EXCEPT !.at = x, !.marked = readOnly]]
        /\ x = "working" => A!HasRole(asks[r].by, asks[r].route.needs) /\ A!Admitted(asks[r])
  BY DEF A!Handle, AccessInv
<1>3. PICK q : q = [asks[r] EXCEPT !.at = x, !.marked = readOnly]
  OBVIOUS
<1>4. q = [at |-> x, by |-> asks[r].by, route |-> asks[r].route, mine |-> asks[r].mine,
           might |-> asks[r].might, marked |-> readOnly, did |-> asks[r].did,
           entry |-> asks[r].entry]
  BY <1>1, <1>3, MarkedAt, Zenon
<1>5. q \in Queries /\ Progress(q)
  BY <1>1, <1>2, <1>4 DEF AccessInv, Queries, Progress, Passed, A!Admitted, Ats, A!Running, A!Ended
<1>6. asks' = [asks EXCEPT ![r] = q]
  BY <1>2, <1>3
<1> QED
  BY <1>5, <1>6, RequestMoves DEF A!Handle, AccessInv

(* What a step of the service may change of the accounts: one role, or the mark. *)
LEMMA TurnMoves ==
  ASSUME AccessInv, NEW kind, A!Turn(kind)
  PROVE  /\ role' \in [Users -> A!Roles \cup {A!Deleted}] /\ lately' \in [Users -> SUBSET A!Roles]
         /\ \A u \in Users : lately[u] \subseteq lately'[u]
         /\ readOnly' \in BOOLEAN
<1>0. /\ role \in [Users -> A!Roles \cup {A!Deleted}] /\ lately \in [Users -> SUBSET A!Roles]
      /\ readOnly \in BOOLEAN
  BY DEF AccessInv
<1>1. CASE kind = "role"
  <2>1. PICK u \in Users, new \in A!Roles \cup {A!Deleted} :
          /\ role' = [role EXCEPT ![u] = new]
          /\ lately' = [lately EXCEPT ![u] = @ \cup ({new} \ {A!Deleted})]
    BY <1>1 DEF A!Turn
  <2>2. readOnly' = readOnly
    BY <1>1 DEF A!Turn
  <2>3. {new} \ {A!Deleted} \subseteq A!Roles
    OBVIOUS
  <2> QED
    BY <1>0, <2>1, <2>2, <2>3
<1>2. CASE kind # "role"
  <2>1. role' = role /\ lately' = lately /\ readOnly' \in {readOnly, ~readOnly}
    BY <1>2 DEF A!Turn
  <2> QED
    BY <1>0, <2>1
<1> QED
  BY <1>1, <1>2

(* A step of the service, which may change a role or the mark. *)
LEMMA WorkStep ==
  ASSUME AccessInv, NEW r \in Callers, A!Work(r)
  PROVE  AccessInv'
<1> DEFINE did == asks[r].did + 1
           at  == IF did = asks[r].route.steps THEN "done" ELSE "working"
<1>1. asks[r] \in Queries /\ Progress(asks[r]) /\ asks[r].at = "working"
  BY DEF AccessInv, A!Work, A!Nothing
<1>2. asks' = [asks EXCEPT ![r] = [asks[r] EXCEPT !.did = did, !.at = at]]
  BY DEF A!Work, AccessInv
<1>3. PICK q : q = [asks[r] EXCEPT !.did = did, !.at = at]
  OBVIOUS
<1> HIDE DEF did, at
<1>4. q = [at |-> at, by |-> asks[r].by, route |-> asks[r].route, mine |-> asks[r].mine,
           might |-> asks[r].might, marked |-> asks[r].marked, did |-> did,
           entry |-> asks[r].entry]
  BY <1>1, <1>3, WorkedTo, Zenon
<1>5. q \in Queries /\ Progress(q)
  BY <1>1, <1>4 DEF Queries, Progress, Passed, Ats, A!Running, A!Ended, did, at
<1>6. asks' = [asks EXCEPT ![r] = q]
  BY <1>2, <1>3
<1>7. /\ role' \in [Users -> A!Roles \cup {A!Deleted}] /\ lately' \in [Users -> SUBSET A!Roles]
      /\ \A u \in Users : lately[u] \subseteq lately'[u]
  BY TurnMoves DEF A!Work
<1>8. readOnly' \in BOOLEAN
  BY TurnMoves DEF A!Work
<1> QED
  BY <1>5, <1>6, <1>7, <1>8, RequestMoves DEF A!Work

(* The service throws, or the work is logged. *)
LEMMA AnswerStep ==
  ASSUME AccessInv, NEW r \in Callers, A!Fail(r) \/ A!Log(r)
  PROVE  AccessInv'
<1>1. asks[r] \in Queries /\ Progress(asks[r]) /\ asks[r].at \in {"working", "done"}
  BY DEF AccessInv, A!Fail, A!Log, A!Nothing
<1>2. PICK x \in {"failed", "answered"}, y \in {"none", "anonymous", "named"} :
        /\ asks' = [asks EXCEPT ![r] = [asks[r] EXCEPT !.at = x, !.entry = y]]
        /\ x = "failed" /\ y # "none" => asks[r].route.log = "always"
        /\ x = "answered" =>
             /\ asks[r].at = "done"
             /\ y = A!Entry(asks[r])
  BY DEF A!Fail, A!Log, A!Entry, AccessInv
<1>3. PICK q : q = [asks[r] EXCEPT !.at = x, !.entry = y]
  OBVIOUS
<1>4. q = [at |-> x, by |-> asks[r].by, route |-> asks[r].route, mine |-> asks[r].mine,
           might |-> asks[r].might, marked |-> asks[r].marked, did |-> asks[r].did,
           entry |-> y]
  BY <1>1, <1>3, ClosedAt, Zenon
<1>5. q \in Queries /\ Progress(q)
  BY <1>1, <1>2, <1>4 DEF Queries, Progress, Passed, Ats, A!Running, A!Ended, A!Entry
<1>6. asks' = [asks EXCEPT ![r] = q]
  BY <1>2, <1>3
<1> QED
  BY <1>5, <1>6, RequestMoves DEF A!Fail, A!Log, AccessInv

(* A cancel that finds no job is done without having done anything. *)
LEMMA MissStep ==
  ASSUME AccessInv, NEW r \in Callers, A!Miss(r)
  PROVE  AccessInv'
<1>1. /\ asks[r] \in Queries /\ Progress(asks[r])
      /\ asks[r].at = "working" /\ asks[r].did = 0 /\ asks[r].route.log = "effect"
  BY DEF AccessInv, A!Miss, A!Nothing
<1>2. PICK q : q = [asks[r] EXCEPT !.at = "done"]
  OBVIOUS
<1>3. q = [at |-> "done", by |-> asks[r].by, route |-> asks[r].route, mine |-> asks[r].mine,
           might |-> asks[r].might, marked |-> asks[r].marked, did |-> asks[r].did,
           entry |-> asks[r].entry]
  BY <1>1, <1>2, CutAt, Zenon
<1>4. q \in Queries /\ Progress(q)
  BY <1>1, <1>3 DEF Queries, Progress, Passed, Ats, A!Running, A!Ended
<1>5. asks' = [asks EXCEPT ![r] = q]
  BY <1>2 DEF A!Miss
<1> QED
  BY <1>4, <1>5, RequestMoves DEF A!Miss, AccessInv

(* The caller is who the token says, and has been that since it was issued. *)
LEMMA AuthenticateStep ==
  ASSUME AccessInv, NEW r \in Callers, NEW u \in Users, NEW route \in A!Routes,
         NEW mine \in BOOLEAN, A!Authenticate(r, u, route, mine)
  PROVE  AccessInv'
<1> DEFINE q == [at |-> "accepted", by |-> token[u].role, route |-> route, mine |-> mine,
                 might |-> lately[u], marked |-> FALSE, did |-> 0, entry |-> "none"]
<1>1. q \in Queries /\ Progress(q)
  BY DEF AccessInv, A!Authenticate, Queries, Progress, Ats, A!Running, A!Ended
<1>2. asks' = [asks EXCEPT ![r] = q] /\ UNCHANGED <<role, token, lately, readOnly>>
  BY DEF A!Authenticate
<1> HIDE DEF q
<1> QED
  BY <1>1, <1>2, RequestMoves DEF AccessInv

(* What was under way when the process ended is cut off where it was. *)
LEMMA AccessRestart == AccessInv /\ A!Restart => AccessInv'
<1> SUFFICES ASSUME AccessInv, A!Restart PROVE AccessInv'
    OBVIOUS
<1>1. ASSUME NEW r \in Callers
      PROVE  asks'[r] \in {A!Nothing} \cup Queries /\ (asks'[r] # A!Nothing => Progress(asks'[r]))
  <2>1. CASE asks[r].at \notin A!Running
    BY <2>1 DEF A!Restart, AccessInv
  <2>2. CASE asks[r].at \in A!Running
    <3>1. asks[r] \in Queries /\ Progress(asks[r])
      BY <2>2 DEF AccessInv, A!Nothing, A!Running
    <3>2. asks'[r] = [asks[r] EXCEPT !.at = "cut"]
      BY <2>2 DEF A!Restart
    <3>3. asks'[r] = [at |-> "cut", by |-> asks[r].by, route |-> asks[r].route,
                      mine |-> asks[r].mine, might |-> asks[r].might, marked |-> asks[r].marked,
                      did |-> asks[r].did, entry |-> asks[r].entry]
      BY <3>1, <3>2, CutAt, Zenon
    <3> QED
      BY <2>2, <3>1, <3>3 DEF Queries, Progress, Passed, Ats, A!Running, A!Ended
  <2> QED
    BY <2>1, <2>2
<1>2. asks' = [r \in Callers |-> asks'[r]]
  BY DEF A!Restart
<1>3. UNCHANGED <<role, token, lately, readOnly>>
  BY DEF A!Restart
<1> QED
  BY <1>1, <1>2, <1>3 DEF AccessInv

(* Tokens expire, and are signed with the role of the moment. *)
LEMMA TokenStep ==
  ASSUME AccessInv, NEW u \in Users, A!Expire(u) \/ A!SignAccessToken(u)
  PROVE  AccessInv'
<1>1. UNCHANGED <<role, readOnly, asks>>
  BY DEF A!Expire, A!SignAccessToken
<1>2. lately' \in [Users -> SUBSET A!Roles]
  BY DEF A!Expire, A!SignAccessToken, AccessInv, A!Roles, A!Deleted
<1>3. token' \in [Users -> [role : A!Roles, live : BOOLEAN]]
  <2> DEFINE Token == [role : A!Roles, live : BOOLEAN]
  <2>1. PICK t \in Token : token' = [token EXCEPT ![u] = t]
    <3>1. CASE A!SignAccessToken(u)
      <4>1. role[u] \in A!Roles
        BY <3>1 DEF A!SignAccessToken, AccessInv
      <4> QED
        BY <3>1, <4>1 DEF A!SignAccessToken
    <3>2. CASE A!Expire(u)
      <4>1. token[u] \in Token
        BY DEF AccessInv
      <4>2. [token[u] EXCEPT !.live = FALSE] \in Token
        BY <4>1
      <4> QED
        BY <3>2, <4>2 DEF A!Expire
    <3> QED
      BY <3>1, <3>2
  <2> HIDE DEF Token
  <2>2. token \in [Users -> Token]
    BY DEF AccessInv, Token
  <2> QED
    BY <2>1, <2>2 DEF Token
<1>4. \A v \in Users : token'[v].live => token'[v].role \in lately'[v]
  BY DEF A!Expire, A!SignAccessToken, AccessInv
<1> QED
  BY <1>1, <1>2, <1>3, <1>4 DEF AccessInv

(* Every step keeps the invariant. *)
LEMMA AccessStep == AccessInv /\ [A!Next]_(A!vars) => AccessInv'
<1> SUFFICES ASSUME AccessInv, [A!Next]_(A!vars) PROVE AccessInv'
    OBVIOUS
<1>1. CASE UNCHANGED A!vars
  BY <1>1 DEF A!vars, AccessInv
<1>2. CASE A!Next
  BY <1>2, TokenStep, AuthenticateStep, HandleStep, WorkStep, MissStep, AnswerStep,
     AccessRestart DEF A!Next
<1> QED
  BY <1>1, <1>2

-----------------------------------------------------------------------------
(* Theorems about the requests *)

(* A token that is good carries a role the account has had since it was issued,
   and a request is where its checks let it be (plugins/auth.ts:38-62). *)
THEOREM AccessInvariance == A!Spec => []AccessInv
BY AccessInit, AccessStep, PTL DEF A!Spec

(* For any users, requests, changes of roles and marks, expiries and restarts: what
   happens is within a role its caller has had, nothing is written through a
   connection that the handler found read-only but by the restore of a whole
   server and by dropping the database of an inspection, and the log agrees with
   what was done (plugins/auth.ts:38-62,
   connections.service.ts:168, audit.service.ts:52). *)
THEOREM RequestsAreKept == A!Spec => []RequestsAreSound
<1> SUFFICES AccessInv => RequestsAreSound
    BY AccessInvariance, PTL
<1> SUFFICES ASSUME AccessInv PROVE A!RolesAreKept /\ A!ReadOnlyIsKept /\ A!LogIsTrue
    BY DEF RequestsAreSound, A!RequestsAreSound
<1>1. \A r \in A!Effective : /\ r \in Callers /\ asks[r] \in Queries /\ Progress(asks[r])
                             /\ Passed(asks[r]) /\ Sane(asks[r].route)
  BY RoutesAreSane DEF A!Effective, AccessInv, Queries, Progress
<1>2. A!RolesAreKept
  <2> SUFFICES ASSUME NEW r \in A!Effective
               PROVE  /\ A!HasRole(asks[r].by, A!Promised[asks[r].route.does])
                      /\ asks[r].route.gate = "author" => asks[r].mine \/ "admin" \in asks[r].might
    BY <1>1 DEF A!RolesAreKept, Progress
  <2>1. asks[r].by \in A!Roles /\ asks[r].by \in asks[r].might
    BY <1>1 DEF Queries, Progress
  <2> QED
    BY <1>1, <2>1 DEF Sane, Passed, A!HasRole, A!Level, A!Roles, A!Promised
<1>3. A!ReadOnlyIsKept
  BY <1>1 DEF A!ReadOnlyIsKept, Passed, Sane
<1>4. A!LogIsTrue
  <2> SUFFICES ASSUME NEW r \in Callers, asks[r] # A!Nothing
               PROVE  /\ /\ asks[r].at = "answered" /\ asks[r].did > 0
                         /\ asks[r].route.does # "read"
                         /\ asks[r].route \notin {A!SystemRoutes.flush, A!SqlRoutes.explain,
                                                  A!SqlRoutes.clearHistory}
                         => asks[r].entry = "named" \/ asks[r].route = A!JobRoutes.runSchedule
                      /\ asks[r].entry # "none" /\ asks[r].route.log # "always" =>
                           asks[r].did = asks[r].route.steps
    BY DEF A!LogIsTrue
  <2>1. asks[r] \in Queries /\ Progress(asks[r]) /\ Sane(asks[r].route)
    BY RoutesAreSane DEF AccessInv, Queries
  <2> QED
    BY <2>1 DEF Progress, Sane, Queries, Ats, A!Running, A!Ended, A!Entry
<1> QED
  BY <1>2, <1>3, <1>4
=============================================================================

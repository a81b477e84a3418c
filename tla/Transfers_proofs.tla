--------------------------- MODULE Transfers_proofs ---------------------------
(***************************************************************************)
(* What the page shows of an inspection is true and no scratch database is *)
(* left behind; a migration is a success on a whole dump only; no prune    *)
(* deletes one of the newest backups, and the one that started last leaves *)
(* no more than the retention it read: for any number of calls, backups,   *)
(* prunes, migrations and restarts.                                        *)
(***************************************************************************)
EXTENDS MCTransfers, MCRetention, FiniteSetTheorems, NaturalsInduction, TLAPS

-----------------------------------------------------------------------------
(* The invariant of the inspections *)

(* A start that is not over has no job, no tool and, until it creates one, no
   database; and nobody has read its job in the row. *)
FreshStarts ==
  \A s \in Starts : call[s] # "done" =>
    /\ tool[s] = "none" /\ row[s] = "none" /\ live[s] = "none"
    /\ s \notin restored /\ record # s
    /\ \A x \in Calls : closes[x] # s
    /\ call[s] \notin {"looking", "stat"} => scratch # s
    /\ call[s] = "idle" => s \notin alone

(* Memory and table agree, and no job is a success without all of the file. *)
JobsAreTrue ==
  \A s \in Starts :
    /\ live[s] \in {"none", row[s]}
    /\ row[s] = "running" => live[s] = "running"
    /\ row[s] = "success" \/ tool[s] = "zero" => s \in restored

(* A start that has the backup for itself works between no two others, without a
   row, in its own database or in none. *)
AloneStarts ==
  \A s \in alone :
    /\ s \in InProgress => \A t \in Starts \cap InProgress : t = s
    /\ call[s] \in Preparing => record = Nobody
    /\ call[s] \in {"looking", "stat"} => scratch \in {s, Nobody}

(* While its job is open or a success nobody else starts, and what it restored is
   there until a call has dropped it. *)
ShownStarts ==
  \A s \in alone :
    record = s /\ row[s] \in {"running", "success"} =>
      /\ InProgress \cap Starts = {} /\ scratch \in {s, Nobody}
      /\ s \in restored =>
           \/ scratch = s \/ s \in excused
           \/ \E x \in Calls : call[x] = "forgetting"

(* Whose database is there either is about to start its job, or the row names it;
   a call that is about to remove a row has dropped its database. *)
KeptDatabases ==
  /\ scratch \in alone \ excused => call[scratch] \in {"looking", "stat"} \/ record = scratch
  /\ \A x \in Calls :
       call[x] = "forgetting" /\ closes[x] = scratch /\ scratch # Nobody => scratch \in excused

InspectionInv ==
  TypeOK /\ FreshStarts /\ JobsAreTrue /\ AloneStarts /\ ShownStarts /\ KeptDatabases


(* No call has been made. *)
LEMMA InspectionInit == Init => InspectionInv
<1> SUFFICES ASSUME Init PROVE InspectionInv
    OBVIOUS
<1> USE InspectionsAssumption DEF Init, JobInit
<1>1. TypeOK
  BY DEF TypeOK, JobTypeOK, Statuses, Steps, Tools
<1>2. FreshStarts
  BY DEF FreshStarts, Calls
<1>3. JobsAreTrue
  BY DEF JobsAreTrue
<1>4. AloneStarts /\ ShownStarts /\ KeptDatabases
  BY DEF AloneStarts, ShownStarts, KeptDatabases
<1> QED
  BY <1>1, <1>2, <1>3, <1>4 DEF InspectionInv

-----------------------------------------------------------------------------
(* The steps of the inspections *)

(* DROP DATABASE, and the row. *)
LEMMA CloseStep ==
  ASSUME InspectionInv, NEW x \in Calls, Close(x)
  PROVE  InspectionInv'
<1> USE InspectionsAssumption
    DEF InspectionInv, TypeOK, JobTypeOK, jobVars, files, toolVars, aux, InProgress, Preparing,
        Closing, Steps, Tools, Codes, GoTo, Calls,
        Close, Drop, Forget, AfterClose
<1>1. TypeOK'
  BY DEF Statuses, Ended
<1>2. FreshStarts'
  BY DEF FreshStarts
<1>3. JobsAreTrue'
  BY DEF JobsAreTrue, FreshStarts
<1>4. AloneStarts'
  BY DEF AloneStarts, FreshStarts
<1>5. ShownStarts'
  BY DEF ShownStarts, AloneStarts, FreshStarts, JobsAreTrue
<1>6. KeptDatabases'
  BY DEF KeptDatabases, FreshStarts, AloneStarts
<1> QED
  BY <1>1, <1>2, <1>3, <1>4, <1>5, <1>6

(* The way of a start to its job. *)
LEMMA PrepareStep ==
  ASSUME InspectionInv, NEW n \in Starts,
         Clear(n) \/ CreateDatabase(n) \/ PrepareFails(n) \/ BackupMissing(n) \/ BackupListed(n)
  PROVE  InspectionInv'
<1> USE InspectionsAssumption
    DEF InspectionInv, TypeOK, JobTypeOK, jobVars, files, toolVars, aux, InProgress, Preparing,
        Closing, Steps, Tools, Codes, GoTo, Calls,
        Clear, CreateDatabase, PrepareFails, BackupMissing,
        BackupListed
<1>1. TypeOK'
  BY DEF Statuses, Ended
<1>2. FreshStarts'
  BY DEF FreshStarts
<1>3. JobsAreTrue'
  BY DEF JobsAreTrue, FreshStarts
<1>4. AloneStarts'
  BY DEF AloneStarts, FreshStarts
<1>5. ShownStarts'
  BY DEF ShownStarts, AloneStarts, FreshStarts, JobsAreTrue
<1>6. KeptDatabases'
  BY DEF KeptDatabases, FreshStarts, AloneStarts
<1> QED
  BY <1>1, <1>2, <1>3, <1>4, <1>5, <1>6

(* The job of an inspection begins, in the row and in the registry. *)
LEMMA RestoreStep ==
  ASSUME InspectionInv, NEW n \in Starts, StartRestore(n)
  PROVE  InspectionInv'
<1> USE InspectionsAssumption
    DEF InspectionInv, TypeOK, JobTypeOK, jobVars, files, toolVars, aux, InProgress, Preparing,
        Closing, Steps, Tools, Codes, GoTo, Calls,
        StartRestore, CreateJob
<1>1. TypeOK'
  BY DEF Statuses, Ended
<1>2. FreshStarts'
  BY DEF FreshStarts
<1>3. JobsAreTrue'
  BY DEF JobsAreTrue, FreshStarts
<1>4. AloneStarts'
  BY DEF AloneStarts, FreshStarts
<1>5. ShownStarts'
  BY DEF ShownStarts, AloneStarts, FreshStarts, JobsAreTrue
<1>6. KeptDatabases'
  BY DEF KeptDatabases, FreshStarts, AloneStarts
<1> QED
  BY <1>1, <1>2, <1>3, <1>4, <1>5, <1>6

(* pg_restore connects, finishes its work and exits. *)
LEMMA ToolStep ==
  ASSUME InspectionInv, NEW n \in Starts, Connect(n) \/ Finish(n) \/ Exit(n)
  PROVE  InspectionInv'
<1> USE InspectionsAssumption
    DEF InspectionInv, TypeOK, JobTypeOK, jobVars, files, toolVars, aux, InProgress, Preparing,
        Closing, Steps, Tools, Codes, GoTo, Calls,
        Connect, Finish, Exit
<1>1. TypeOK'
  BY DEF Statuses, Ended
<1>2. FreshStarts'
  BY DEF FreshStarts
<1>3. JobsAreTrue'
  BY DEF JobsAreTrue, FreshStarts
<1>4. AloneStarts'
  BY DEF AloneStarts, FreshStarts
<1>5. ShownStarts'
  BY DEF ShownStarts, AloneStarts, FreshStarts, JobsAreTrue
<1>6. KeptDatabases'
  BY DEF KeptDatabases, FreshStarts, AloneStarts
<1> QED
  BY <1>1, <1>2, <1>3, <1>4, <1>5, <1>6

(* The job ends: killed, canceled, timed out, or with the close of pg_restore. *)
LEMMA EndStep ==
  ASSUME InspectionInv, NEW n \in Starts, EndEarly(n) \/ RestoreClosed(n)
  PROVE  InspectionInv'
<1> USE InspectionsAssumption
    DEF InspectionInv, TypeOK, JobTypeOK, jobVars, files, toolVars, aux, InProgress, Preparing,
        Closing, Steps, Tools, Codes, GoTo, Calls,
        EndEarly, RestoreClosed, FinishJob, Running
<1>1. TypeOK'
  BY DEF Statuses, Ended
<1>2. FreshStarts'
  BY DEF FreshStarts
<1>3. JobsAreTrue'
  BY DEF JobsAreTrue, FreshStarts
<1>4. AloneStarts'
  BY DEF AloneStarts, FreshStarts
<1>5. ShownStarts'
  BY DEF ShownStarts, AloneStarts, FreshStarts, JobsAreTrue
<1>6. KeptDatabases'
  BY DEF KeptDatabases, FreshStarts, AloneStarts
<1> QED
  BY <1>1, <1>2, <1>3, <1>4, <1>5, <1>6

(* A start arrives: alone, while another works, or where there is nothing to open. *)
LEMMA RequestStartStep ==
  ASSUME InspectionInv, NEW n \in Starts, RequestStart(n)
  PROVE  InspectionInv'
<1> USE InspectionsAssumption
    DEF InspectionInv, TypeOK, JobTypeOK, jobVars, files, toolVars, aux, InProgress, Preparing,
        Closing, Steps, Tools, Codes, GoTo, Calls,
        RequestStart, Enter, Inspection, StatusOf
<1>1. TypeOK'
  BY DEF Statuses, Ended
<1>2. FreshStarts'
  BY DEF FreshStarts
<1>3. JobsAreTrue'
  BY DEF JobsAreTrue, FreshStarts
<1>4. AloneStarts'
  BY DEF AloneStarts, FreshStarts
<1>5. ShownStarts'
  BY DEF ShownStarts, AloneStarts, FreshStarts, JobsAreTrue
<1>6. KeptDatabases'
  BY DEF KeptDatabases, FreshStarts, AloneStarts
<1> QED
  BY <1>1, <1>2, <1>3, <1>4, <1>5, <1>6

(* The other calls: they begin to close, or delete the backup afterwards. *)
LEMMA OtherCallStep ==
  ASSUME InspectionInv, NEW d \in Closers \cup Deleters,
         NEW st \in {"dropping", "unlinking", "deleting", "done"},
         call[d] \notin Closing, call' = [call EXCEPT ![d] = st],
         closes' = closes \/ (st = "dropping" /\ closes' = [closes EXCEPT ![d] = record])
                   \/ closes' = [closes EXCEPT ![d] = Nobody],
         listed' \in BOOLEAN, onDisk' \in BOOLEAN,
         UNCHANGED <<jobVars, record, scratch, toolVars, restarts, aux>>
  PROVE  InspectionInv'
<1> USE InspectionsAssumption
    DEF InspectionInv, TypeOK, JobTypeOK, jobVars, toolVars, aux, InProgress, Preparing,
        Closing, Steps, Tools, Codes, Calls
<1>1. TypeOK'
  BY DEF Statuses, Ended
<1>2. FreshStarts'
  BY DEF FreshStarts
<1>3. JobsAreTrue'
  BY DEF JobsAreTrue, FreshStarts
<1>4. AloneStarts'
  BY DEF AloneStarts, FreshStarts
<1>5. ShownStarts'
  BY DEF ShownStarts, AloneStarts, FreshStarts, JobsAreTrue
<1>6. KeptDatabases'
  BY DEF KeptDatabases, FreshStarts, AloneStarts
<1> QED
  BY <1>1, <1>2, <1>3, <1>4, <1>5, <1>6

(* A close or a deletion of the backup arrives. *)
LEMMA RequestCloseStep ==
  ASSUME InspectionInv, NEW c \in Closers \cup Deleters, RequestClose(c)
  PROVE  InspectionInv'
<1>1. c \in Calls /\ c \notin Starts /\ call[c] = "idle"
  BY InspectionsAssumption DEF Calls, RequestClose, Enter
<1>2. PICK st \in {"dropping", "unlinking", "done"} : Enter(c, st)
  BY <1>1 DEF RequestClose, AfterClose
<1>3. closes' = IF st = "dropping" THEN [closes EXCEPT ![c] = record]
                ELSE [closes EXCEPT ![c] = Nobody]
  BY <1>2 DEF Enter
<1>4. call' = [call EXCEPT ![c] = st] /\ listed' \in BOOLEAN /\ onDisk' \in BOOLEAN
      /\ UNCHANGED <<jobVars, record, scratch, toolVars, restarts, aux>>
  BY <1>1, <1>2 DEF Enter, files, aux, InspectionInv, TypeOK
<1> QED
  BY <1>1, <1>3, <1>4, OtherCallStep DEF Closing

(* The file and the row of the backup are deleted. *)
LEMMA DeleteStep ==
  ASSUME InspectionInv, NEW d \in Deleters, DeleteFile(d) \/ DeleteBackup(d)
  PROVE  InspectionInv'
<1>1. d \in Closers \cup Deleters /\ call[d] \notin Closing
      /\ UNCHANGED <<jobVars, record, scratch, toolVars, closes, restarts, aux>>
  BY DEF DeleteFile, DeleteBackup, Closing
<1>2. \E st \in {"deleting", "done"} : call' = [call EXCEPT ![d] = st]
  BY DEF DeleteFile, DeleteBackup, GoTo
<1>3. listed' \in BOOLEAN /\ onDisk' \in BOOLEAN
  BY DEF DeleteFile, DeleteBackup, InspectionInv, TypeOK
<1> QED
  BY <1>1, <1>2, <1>3, OtherCallStep

(* The process ends in the middle of whatever it did. *)
LEMMA RestartStep ==
  ASSUME InspectionInv, Restart
  PROVE  InspectionInv'
<1> USE InspectionsAssumption
    DEF InspectionInv, TypeOK, JobTypeOK, jobVars, files, toolVars, aux, InProgress, Preparing,
        Closing, Steps, Tools, Codes
<1>1. PICK status \in {"failed", "canceled"} :
        row' = [j \in Jobs |-> IF row[j] = "running" THEN status ELSE row[j]]
  BY DEF Restart, RestartJobs
<1>2. live' = [j \in Jobs |-> "none"] /\ UNCHANGED <<files, record, scratch, inside, restored, alone>>
      /\ call' = [x \in Calls |-> IF call[x] = "idle" THEN "idle" ELSE "done"]
      /\ closes' = [x \in Calls |-> Nobody]
  BY DEF Restart, RestartJobs
<1>3. \A s \in Starts : /\ tool[s] = "none" => tool'[s] = "none"
                        /\ tool'[s] = "zero" => tool[s] = "zero"
                        /\ tool'[s] \in Tools
  BY DEF Restart
<1>4. TypeOK'
  <2>1. restarts' \in 0 .. MaxRestarts
    BY DEF Restart
  <2>2. tool' \in [Starts -> Tools]
    BY <1>3 DEF Restart
  <2>3. row' \in [Jobs -> Statuses] /\ live' \in [Jobs -> Statuses]
    BY <1>1, <1>2 DEF Statuses, Ended
  <2>4. call' \in [Calls -> Steps] /\ closes' \in [Calls -> Starts \cup {Nobody}]
    BY <1>2
  <2>5. excused' \subseteq Starts
    BY DEF Restart
  <2> QED
    BY <1>2, <2>1, <2>2, <2>3, <2>4, <2>5
<1>5. \A s \in Starts : s \in Calls
  BY DEF Calls
<1>6. FreshStarts'
  BY <1>1, <1>2, <1>3, <1>5 DEF FreshStarts
<1>7. JobsAreTrue'
  BY <1>1, <1>2, <1>3 DEF JobsAreTrue
<1>8. AloneStarts'
  BY <1>2, <1>5 DEF AloneStarts
<1>9. ShownStarts'
  <2> SUFFICES ASSUME NEW s \in alone, record = s, row'[s] \in {"running", "success"}
               PROVE  /\ InProgress' \cap Starts = {} /\ scratch \in {s, Nobody}
                      /\ s \in restored => scratch = s \/ s \in excused'
    BY <1>2 DEF ShownStarts
  <2>1. row[s] = "success" /\ s \in Starts
    BY <1>1
  <2>2. InProgress' = {}
    BY <1>2
  <2>3. excused' = excused \cup {q \in Starts :
                      \/ scratch = q /\ q \in InProgress
                      \/ record = q /\ \E x \in Calls : call[x] = "forgetting"}
    BY DEF Restart
  <2> QED
    BY <2>1, <2>2, <2>3 DEF ShownStarts
<1>10. KeptDatabases'
  <2>1. excused' = excused \cup {q \in Starts :
                      \/ scratch = q /\ q \in InProgress
                      \/ record = q /\ \E x \in Calls : call[x] = "forgetting"}
    BY DEF Restart
  <2>2. \A x \in Calls : call'[x] # "forgetting"
    BY <1>2
  <2>3. scratch \in alone /\ call[scratch] \in {"looking", "stat"} => scratch \in excused'
    BY <1>5, <2>1
  <2> QED
    BY <1>2, <2>1, <2>2, <2>3 DEF KeptDatabases
<1> QED
  BY <1>4, <1>6, <1>7, <1>8, <1>9, <1>10

(* Every step keeps the invariant. *)
LEMMA InspectionStepInv ==
  ASSUME InspectionInv, [Next]_vars
  PROVE  InspectionInv'
<1>1. CASE UNCHANGED vars
  BY <1>1 DEF vars, jobVars, files, toolVars, aux, InspectionInv, TypeOK, JobTypeOK, FreshStarts,
     JobsAreTrue, AloneStarts, ShownStarts, KeptDatabases, InProgress
<1>2. CASE Next
  BY <1>2, CloseStep, PrepareStep, RestoreStep, ToolStep, EndStep, RequestStartStep,
     RequestCloseStep, DeleteStep, RestartStep DEF Next, Start, Tool
<1> QED
  BY <1>1, <1>2

-----------------------------------------------------------------------------
(* Theorems about the inspections *)

(* Between two starts that do not overlap a scratch database has one owner: the
   invariant that the two theorems below rest on (backup.service.ts:255-321). *)
THEOREM InspectionInvariance == Spec => []InspectionInv
  BY InspectionInit, InspectionStepInv, PTL DEF Spec

(* What the page shows as ready is all of the backup, in a database that is there
   (backup.service.ts:255-296). *)
THEOREM ReadyInspectionsAreWhole == Spec => []ReadyIsWhole
<1>1. InspectionInv => ReadyIsWhole
  <2> SUFFICES ASSUME InspectionInv, Inspection = "ready", record \in alone \ excused
               PROVE  \/ scratch = record /\ record \in restored
                      \/ \E x \in Calls : call[x] = "forgetting"
    BY DEF ReadyIsWhole
  <2>1. record \in Starts /\ StatusOf(record) = "success"
    BY DEF Inspection, InspectionInv, TypeOK
  <2>2. row[record] = "success" /\ record \in restored
    BY <2>1 DEF StatusOf, InspectionInv, JobsAreTrue
  <2> QED
    BY <2>1, <2>2 DEF InspectionInv, ShownStarts
<1> QED
  BY <1>1, InspectionInvariance, PTL

(* With nothing in progress no scratch database is there without a row
   (backup.service.ts:282-296, 310-321). *)
THEOREM NoDatabaseLeftBehind == Spec => []NothingLeftBehind
<1>1. InspectionInv => NothingLeftBehind
  BY DEF InspectionInv, NothingLeftBehind, KeptDatabases, TypeOK, InProgress, Calls
<1> QED
  BY <1>1, InspectionInvariance, PTL

(* The restore of an inspection is a job like any other, ended once by whatever
   comes first: its tool, the timer, a cancel or a restart; starts and closes that
   overlap it leave its end alone (backup.service.ts:285, jobs.ts:90-92). *)
THEOREM InspectionsImplementJobManager == Spec => JobSpec
<1>1. Init => JobInit
  BY DEF Init
<1>2. [Next]_vars => [JobNext]_jobVars
  <2> SUFFICES ASSUME [Next]_vars PROVE [JobNext]_jobVars
      OBVIOUS
  <2>1. ASSUME NEW x \in Calls, Close(x) PROVE UNCHANGED jobVars
    BY <2>1 DEF Close, Drop, Forget
  <2>2. ASSUME NEW s \in Starts, Start(s) PROVE [JobNext]_jobVars
    <3>0. s \in Jobs
      BY InspectionsAssumption
    <3>1. CASE StartRestore(s)
      BY <3>0, <3>1 DEF StartRestore, JobNext
    <3>2. CASE \/ RequestStart(s) \/ Clear(s) \/ CreateDatabase(s) \/ PrepareFails(s)
               \/ BackupMissing(s) \/ BackupListed(s)
      BY <3>2 DEF RequestStart, Enter, Clear, CreateDatabase, PrepareFails, BackupMissing, BackupListed
    <3> QED
      BY <2>2, <3>1, <3>2 DEF Start
  <2>3. ASSUME NEW s \in Starts, Tool(s) PROVE [JobNext]_jobVars
    <3>0. s \in Jobs
      BY InspectionsAssumption
    <3>1. CASE EndEarly(s) \/ RestoreClosed(s)
      <4>1. PICK status \in Ended : FinishJob(s, status)
        BY <3>1 DEF EndEarly, RestoreClosed, Ended
      <4> QED
        BY <3>0, <4>1 DEF JobNext
    <3>2. CASE Connect(s) \/ Finish(s) \/ Exit(s)
      BY <3>2 DEF Connect, Finish, Exit
    <3> QED
      BY <2>3, <3>1, <3>2 DEF Tool
  <2>4. ASSUME NEW c \in Closers \cup Deleters, RequestClose(c) PROVE UNCHANGED jobVars
    BY <2>4 DEF RequestClose, Enter
  <2>5. ASSUME NEW d \in Deleters, DeleteFile(d) \/ DeleteBackup(d) PROVE UNCHANGED jobVars
    BY <2>5 DEF DeleteFile, DeleteBackup
  <2>6. CASE Restart
    BY <2>6 DEF Restart, JobNext
  <2>7. CASE UNCHANGED vars
    BY <2>7 DEF vars, jobVars
  <2> QED
    BY <2>1, <2>2, <2>3, <2>4, <2>5, <2>6, <2>7 DEF Next
<1> QED
  BY <1>1, <1>2, PTL DEF Spec, JobSpec

-----------------------------------------------------------------------------
(* The steps of the migrations *)

(* No migration has been asked for. *)
LEMMA MigrationInit == M!Init => M!IInv
BY DEF M!Init, M!IInv, M!TypeOK, M!ExitsFollowPipe, M!MigrationIsSound, M!SuccessIsWhole, M!ToolsAreTimed,
       M!JobInit, M!JobTypeOK, M!Statuses, M!Ended, M!Running, M!Codes, M!Tools

(* A request makes the job, checks its two ends and starts both tools. *)
LEMMA MigrationRequestStep ==
  ASSUME M!IInv, NEW n \in Migrations,
         M!RequestMigration(n) \/ M!CreateFails(n) \/ M!StartMigration(n)
  PROVE  M!IInv'
<1> USE DEF M!IInv, M!TypeOK, M!ExitsFollowPipe, M!MigrationIsSound, M!SuccessIsWhole, M!ToolsAreTimed,
            M!JobTypeOK, M!Statuses, M!Ended, M!Running, M!Codes, M!Tools, M!jobVars
<1>1. CASE M!RequestMigration(n)
  BY <1>1 DEF M!RequestMigration
<1>2. CASE M!CreateFails(n)
  BY <1>2 DEF M!CreateFails
<1>3. CASE M!StartMigration(n)
  BY <1>3 DEF M!StartMigration, M!CreateJob
<1> QED
  BY <1>1, <1>2, <1>3

(* pg_dump and pg_restore work, exit and are killed. *)
LEMMA MigrationToolStep ==
  ASSUME M!IInv, NEW n \in Migrations,
         M!WriteArchive(n) \/ M!Deliver(n) \/ M!DumpExits(n) \/ M!RestoreExits(n)
  PROVE  M!IInv'
<1> USE DEF M!IInv, M!TypeOK, M!ExitsFollowPipe, M!MigrationIsSound, M!SuccessIsWhole, M!ToolsAreTimed,
            M!JobTypeOK, M!Statuses, M!Ended, M!Running, M!Codes, M!Tools, M!jobVars
<1>1. CASE M!WriteArchive(n)
  BY <1>1 DEF M!WriteArchive
<1>2. CASE M!Deliver(n)
  BY <1>2 DEF M!Deliver
<1>3. CASE M!DumpExits(n)
  BY <1>3 DEF M!DumpExits
<1>4. CASE M!RestoreExits(n)
  BY <1>4 DEF M!RestoreExits
<1> QED
  BY <1>1, <1>2, <1>3, <1>4

(* The server hears of the exits. *)
LEMMA MigrationEventStep ==
  ASSUME M!IInv, NEW n \in Migrations, M!Events(n)
  PROVE  M!IInv'
<1> USE DEF M!IInv, M!TypeOK, M!ExitsFollowPipe, M!MigrationIsSound, M!SuccessIsWhole, M!ToolsAreTimed,
            M!JobTypeOK, M!Statuses, M!Ended, M!Running, M!Codes, M!Tools, M!jobVars
<1>1. CASE M!DumpClosed(n)
  BY <1>1 DEF M!DumpClosed, M!FinishJob
<1>2. CASE M!RestoreClosed(n)
  BY <1>2 DEF M!RestoreClosed, M!FinishJob
<1>3. CASE M!DumpNotFound(n)
  BY <1>3 DEF M!DumpNotFound, M!FinishJob
<1>4. CASE M!RestoreNotFound(n)
  BY <1>4 DEF M!RestoreNotFound, M!FinishJob
<1> QED
  BY <1>1, <1>2, <1>3, <1>4 DEF M!Events

(* The timer and a cancel end the job before its tools are gone. *)
LEMMA MigrationEndingStep ==
  ASSUME M!IInv, NEW n \in Migrations, M!Timeout(n) \/ M!Cancel(n)
  PROVE  M!IInv'
<1> USE DEF M!IInv, M!TypeOK, M!ExitsFollowPipe, M!MigrationIsSound, M!SuccessIsWhole, M!ToolsAreTimed,
            M!JobTypeOK, M!Statuses, M!Ended, M!Running, M!Codes, M!Tools, M!jobVars
<1>1. CASE M!Timeout(n)
  BY <1>1 DEF M!Timeout, M!FinishJob
<1>2. CASE M!Cancel(n)
  BY <1>2 DEF M!Cancel, M!FinishJob
<1> QED
  BY <1>1, <1>2

(* The process ends, and its jobs are interrupted at the next boot. *)
LEMMA MigrationRestartStep == M!IInv /\ M!Restart => M!IInv'
BY DEF M!Restart, M!RestartJobs, M!IInv, M!TypeOK, M!ExitsFollowPipe, M!MigrationIsSound, M!SuccessIsWhole, M!ToolsAreTimed,
       M!JobTypeOK, M!Statuses, M!Ended, M!Running, M!Codes, M!Tools

-----------------------------------------------------------------------------
(* The inductive invariant of the migrations. *)
THEOREM MigrationInvariance == M!Spec => []M!IInv
<1>1. M!IInv /\ [M!Next]_(M!vars) => M!IInv'
  <2> SUFFICES ASSUME M!IInv, [M!Next]_(M!vars) PROVE M!IInv'
      OBVIOUS
  <2>1. CASE UNCHANGED M!vars
    BY <2>1 DEF M!vars, M!jobVars, M!IInv, M!TypeOK, M!ExitsFollowPipe, M!MigrationIsSound, M!SuccessIsWhole,
                M!ToolsAreTimed, M!JobTypeOK, M!Running
  <2>2. CASE M!Next
    BY <2>2, MigrationRequestStep, MigrationToolStep, MigrationEventStep, MigrationEndingStep,
       MigrationRestartStep DEF M!Next
  <2> QED
    BY <2>1, <2>2
<1> QED
  BY <1>1, MigrationInit, PTL DEF M!Spec

(* Whatever exits first, fails, is killed or canceled: the job ends as a success
   only after the target got all of a whole dump, something that will end it is
   always to come, and the timer covers both tools until pg_restore has closed
   (backup.service.ts:217-239, 378-388). *)
THEOREM MigrationsAreSound == M!Spec => []MigrationIsSound
<1>1. M!IInv => MigrationIsSound
  BY DEF M!IInv, MigrationIsSound
<1> QED
  BY <1>1, MigrationInvariance, PTL

(* Two tools, a timer and a cancel may each end the one job of a migration, and the
   first does: it is a job like any other (backup.service.ts:217-239, jobs.ts:90-92). *)
THEOREM MigrationsImplementJobManager == M!Spec => M!JobSpec
<1>1. M!Init => M!JobInit
  BY DEF M!Init
<1>2. [M!Next]_(M!vars) => [M!JobNext]_(M!jobVars)
  <2> SUFFICES ASSUME [M!Next]_(M!vars) PROVE [M!JobNext]_(M!jobVars)
      OBVIOUS
  <2>1. ASSUME NEW m \in Migrations, M!RequestMigration(m) \/ M!CreateFails(m)
        PROVE  UNCHANGED M!jobVars
    BY <2>1 DEF M!RequestMigration, M!CreateFails
  <2>2. ASSUME NEW m \in Migrations, M!StartMigration(m) PROVE M!JobNext
    BY <2>2 DEF M!StartMigration, M!JobNext
  <2>3. ASSUME NEW m \in Migrations,
               M!WriteArchive(m) \/ M!Deliver(m) \/ M!DumpExits(m) \/ M!RestoreExits(m)
        PROVE  UNCHANGED M!jobVars
    BY <2>3 DEF M!WriteArchive, M!Deliver, M!DumpExits, M!RestoreExits
  <2>4. ASSUME NEW m \in Migrations, M!Events(m) \/ M!Timeout(m) \/ M!Cancel(m)
        PROVE  [M!JobNext]_(M!jobVars)
    <3>1. (\E status \in M!Ended : M!FinishJob(m, status)) \/ UNCHANGED M!jobVars
      BY <2>4 DEF M!Events, M!DumpClosed, M!RestoreClosed, M!DumpNotFound, M!RestoreNotFound,
                  M!Timeout, M!Cancel, M!Ended
    <3> QED
      BY <3>1 DEF M!JobNext
  <2>5. CASE M!Restart
    BY <2>5 DEF M!Restart, M!JobNext
  <2>6. CASE UNCHANGED M!vars
    BY <2>6 DEF M!vars, M!jobVars
  <2> QED
    BY <2>1, <2>2, <2>3, <2>4, <2>5, <2>6 DEF M!Next
<1> QED
  BY <1>1, <1>2, PTL DEF M!Spec, M!JobSpec

-----------------------------------------------------------------------------
(* The retention *)

(* Retention counts with the operators the facts about finite sets are about. *)
LEMMA SameSize ==
  \A X : R!Cardinality(X) = Cardinality(X) /\ R!IsFiniteSet(X) = IsFiniteSet(X)
BY DEF R!Cardinality, Cardinality, R!IsFiniteSet, IsFiniteSet

(* Facts about sets of backups *)

(* A set of naturals that is not empty has a least element... *)
LEMMA LeastThere ==
  ASSUME NEW T \in SUBSET Nat, T # {}
  PROVE  \E x \in T : \A y \in T : x <= y
<1> DEFINE Less == {p \in Nat \X Nat : p[1] < p[2]}
<1>1. IsWellFoundedOn(Less, Nat)
  BY NatLessThanWellFounded DEF OpToRel
<1> HIDE DEF Less
<1>2. PICK x \in T : \A y \in T : <<y, x>> \notin Less
  BY <1>1, WFMin
<1>3. ASSUME NEW y \in T PROVE x <= y
  <2>1. y < x => <<y, x>> \in Less
    BY DEF Less
  <2> QED
    BY <1>2, <2>1
<1> QED
  BY <1>3

(* ...and Min finds it. *)
LEMMA MinIn ==
  ASSUME NEW T \in SUBSET Nat, T # {}
  PROVE  R!Min(T) \in T
BY LeastThere DEF R!Min

(* The backups of a set that are newer than b are counted. *)
LEMMA NewerCounted ==
  ASSUME NEW S \in SUBSET R!Backups, NEW b
  PROVE  /\ R!IsFiniteSet({c \in S : c > b})
         /\ R!Cardinality({c \in S : c > b}) \in Nat
<1>1. R!IsFiniteSet(R!Backups)
  BY SameSize, FS_Interval, ScheduleAssumption DEF R!Backups
<1>2. R!IsFiniteSet({c \in S : c > b})
  BY SameSize, <1>1, FS_Subset
<1> QED
  BY SameSize, <1>2, FS_CardinalityType

(* There are no fewer of them in a larger set. *)
LEMMA NewerGrow ==
  ASSUME NEW T \in SUBSET R!Backups, NEW S \in SUBSET T, NEW b
  PROVE  R!Cardinality({c \in S : c > b}) <= R!Cardinality({c \in T : c > b})
<1>1. R!IsFiniteSet({c \in T : c > b})
  BY NewerCounted
<1>2. {c \in S : c > b} \in SUBSET {c \in T : c > b}
  OBVIOUS
<1> QED
  BY SameSize, <1>1, <1>2, FS_Subset

(* What is in excess has at least as many newer backups as are kept. *)
LEMMA ExcessIsOld ==
  ASSUME NEW T \in SUBSET R!Backups, NEW S \in SUBSET T, NEW kept \in Nat,
         NEW low \in Nat, low <= kept, NEW b \in R!Excess(S, kept)
  PROVE  /\ b \in S
         /\ ~(R!Cardinality({c \in T : c > b}) < low)
<1>1. b \in S /\ R!Cardinality({c \in S : c > b}) >= kept
  BY DEF R!Excess
<1>2. R!Cardinality({c \in S : c > b}) <= R!Cardinality({c \in T : c > b})
  BY NewerGrow
<1>3. /\ R!Cardinality({c \in S : c > b}) \in Nat
      /\ R!Cardinality({c \in T : c > b}) \in Nat
  BY NewerCounted
<1> QED
  BY <1>1, <1>2, <1>3

(* The end of a prune deletes rows of failures, and nothing else. *)
LEMMA OnlyFailuresDropped ==
  ASSUME NEW r, NEW c \in R!Backups
  PROVE  R!DropFailures(r)[c] = r[c] \/ (r[c] = "failed" /\ R!DropFailures(r)[c] = "deleted")
BY DEF R!DropFailures, R!Excess

(* A success, and an editor who keeps fewer, make a backup old but never new
   again. *)
LEMMA OldStayOld ==
  ASSUME succeeded' \subseteq R!Backups, succeeded \subseteq succeeded',
         lowest \in Nat, lowest' \in Nat, lowest' <= lowest
  PROVE  R!Newest' \cap succeeded \subseteq R!Newest
<1> SUFFICES ASSUME NEW b \in succeeded, b \in R!Newest'
             PROVE  b \in R!Newest
    OBVIOUS
<1> DEFINE Newer(S) == {c \in S : c > b}
<1>1. R!Cardinality(Newer(succeeded')) < lowest'
  BY DEF R!Newest
<1>2. R!Cardinality(Newer(succeeded)) <= R!Cardinality(Newer(succeeded'))
  BY NewerGrow
<1>3. R!Cardinality(Newer(succeeded)) \in Nat /\ R!Cardinality(Newer(succeeded')) \in Nat
  BY NewerCounted
<1>4. R!Cardinality(Newer(succeeded)) < lowest
  BY <1>1, <1>2, <1>3
<1> QED
  BY <1>4 DEF R!Newest

-----------------------------------------------------------------------------
(* The inductive step: one step per action, and under it one per part of IInv *)

(* Any step of the schedule, of the handlers, of an operator or of the process
   preserves IInv. *)
LEMMA RetentionStep == R!IInv /\ [R!Next]_R!vars => R!IInv'
<1> SUFFICES ASSUME R!IInv, [R!Next]_R!vars PROVE R!IInv'
    OBVIOUS
<1> USE ScheduleAssumption DEF R!TypeOK, R!settings, R!storage, R!handlers, R!deletes, R!ghosts
<1>0. /\ R!TypeOK /\ R!HandlersFollowRows /\ R!PrunesSpareNewest
      /\ R!NewestSurvive /\ R!NewestDelivered
  BY DEF R!IInv
<1>a. R!Newest \subseteq succeeded /\ succeeded \subseteq R!Backups
  BY <1>0 DEF R!Newest
<1>b. ASSUME UNCHANGED <<succeeded, lowest>> PROVE R!Newest' = R!Newest
  BY <1>b DEF R!Newest
<1>c. ASSUME NEW b \in R!Backups, todo[b] # {}
      PROVE  R!Min(todo[b]) \in todo[b] /\ R!Min(todo[b]) \in succeeded \ R!Newest
  <2>1. todo[b] \in SUBSET Nat
    BY <1>0 DEF R!Backups
  <2> QED
    BY <1>0, <1>c, <2>1, MinIn DEF R!PrunesSpareNewest
<1>1. ASSUME R!Trigger PROVE R!IInv'
  <2>1. R!Newest' = R!Newest
    BY <1>b, <1>1 DEF R!Trigger
  <2>2. R!TypeOK'
    BY <1>0, <1>1 DEF R!Trigger, R!Handlers, R!Statuses
  <2>3. R!HandlersFollowRows'
    BY <1>0, <1>1 DEF R!Trigger, R!HandlersFollowRows
  <2>4. R!PrunesSpareNewest'
    BY <1>0, <1>1, <2>1 DEF R!Trigger, R!PrunesSpareNewest
  <2>5. R!NewestSurvive'
    BY <1>0, <1>a, <1>1, <2>1 DEF R!Trigger, R!NewestSurvive, R!HandlersFollowRows
  <2>6. R!NewestDelivered'
    BY <1>0, <1>a, <1>1, <2>1 DEF R!Trigger, R!NewestDelivered, R!HandlersFollowRows,
         R!NewestSurvive
  <2> QED
    BY <2>2, <2>3, <2>4, <2>5, <2>6 DEF R!IInv
<1>2. ASSUME R!StartBackup PROVE R!IInv'
  <2>1. R!Newest' = R!Newest
    BY <1>b, <1>2 DEF R!StartBackup
  <2>2. R!TypeOK'
    BY <1>0, <1>2 DEF R!StartBackup, R!Backups, R!Handlers, R!Statuses
  <2>3. R!HandlersFollowRows'
    BY <1>0, <1>2 DEF R!StartBackup, R!Backups, R!HandlersFollowRows
  <2>4. R!PrunesSpareNewest'
    BY <1>0, <1>2, <2>1 DEF R!StartBackup, R!Backups, R!PrunesSpareNewest
  <2>5. R!NewestSurvive'
    BY <1>0, <1>a, <1>2, <2>1 DEF R!StartBackup, R!Backups, R!NewestSurvive,
         R!HandlersFollowRows
  <2>6. R!NewestDelivered'
    BY <1>0, <1>a, <1>2, <2>1 DEF R!StartBackup, R!Backups, R!NewestDelivered,
         R!HandlersFollowRows, R!NewestSurvive
  <2> QED
    BY <2>2, <2>3, <2>4, <2>5, <2>6 DEF R!IInv
<1>3. ASSUME R!UpdateSchedule PROVE R!IInv'
  <2>1. R!Newest' \subseteq R!Newest
    BY <1>0, <1>a, <1>3, OldStayOld DEF R!UpdateSchedule, R!HandlersFollowRows, R!Newest
  <2>2. R!TypeOK'
    BY <1>0, <1>3 DEF R!UpdateSchedule, R!Handlers, R!Statuses
  <2>3. R!HandlersFollowRows'
    BY <1>0, <1>a, <1>3 DEF R!UpdateSchedule, R!HandlersFollowRows
  <2>4. R!PrunesSpareNewest'
    BY <1>0, <1>3, <2>1 DEF R!UpdateSchedule, R!PrunesSpareNewest
  <2>5. R!NewestSurvive'
    BY <1>0, <1>a, <1>3, <2>1 DEF R!UpdateSchedule, R!NewestSurvive, R!HandlersFollowRows
  <2>6. R!NewestDelivered'
    BY <1>0, <1>a, <1>3, <2>1 DEF R!UpdateSchedule, R!NewestDelivered,
         R!HandlersFollowRows, R!NewestSurvive
  <2> QED
    BY <2>2, <2>3, <2>4, <2>5, <2>6 DEF R!IInv
<1>4. ASSUME R!DeleteSchedule PROVE R!IInv'
  <2>1. R!Newest' = R!Newest
    BY <1>b, <1>4 DEF R!DeleteSchedule
  <2>2. R!TypeOK'
    BY <1>0, <1>4 DEF R!DeleteSchedule, R!Handlers, R!Statuses
  <2>3. R!HandlersFollowRows'
    BY <1>0, <1>4 DEF R!DeleteSchedule, R!HandlersFollowRows
  <2>4. R!PrunesSpareNewest'
    BY <1>0, <1>4, <2>1 DEF R!DeleteSchedule, R!PrunesSpareNewest
  <2>5. R!NewestSurvive'
    BY <1>0, <1>a, <1>4, <2>1 DEF R!DeleteSchedule, R!NewestSurvive, R!HandlersFollowRows
  <2>6. R!NewestDelivered'
    BY <1>0, <1>a, <1>4, <2>1 DEF R!DeleteSchedule, R!NewestDelivered,
         R!HandlersFollowRows, R!NewestSurvive
  <2> QED
    BY <2>2, <2>3, <2>4, <2>5, <2>6 DEF R!IInv
<1>5. ASSUME NEW b \in R!Backups, R!RecordSuccess(b) PROVE R!IInv'
  <2> DEFINE found == rec[b] = "running"
             r     == IF found THEN [rec EXCEPT ![b] = "success"] ELSE rec
             list  == R!Excess({c \in R!Backups : r[c] = "success"}, retention)
             next  == IF schedule = "deleted" THEN {} ELSE list
  <2>1. /\ R!Newest' \subseteq R!Newest \cup {b}
        /\ succeeded' = IF found THEN succeeded \cup {b} ELSE succeeded
    BY <1>0, <1>a, <1>5, OldStayOld DEF R!RecordSuccess, R!Newest
  <2>2. list \subseteq succeeded' \ R!Newest'
    <3>1. {c \in R!Backups : r[c] = "success"} \subseteq succeeded'
      BY <1>0, <2>1 DEF R!HandlersFollowRows
    <3>2. succeeded' \subseteq R!Backups /\ retention \in Nat /\ lowest \in Nat
      BY <1>0, <1>a, <2>1
    <3>3. lowest <= retention /\ lowest' = lowest
      BY <1>0, <1>5 DEF R!HandlersFollowRows, R!RecordSuccess
    <3>4. ASSUME NEW x \in list PROVE x \in succeeded' /\ x \notin R!Newest'
      <4>1. ~(R!Cardinality({c \in succeeded' : c > x}) < lowest)
        <5> DEFINE T == succeeded'
                   S == {c \in R!Backups : r[c] = "success"}
        <5>1. T \in SUBSET R!Backups /\ S \in SUBSET T /\ x \in R!Excess(S, retention)
          BY <3>1, <3>2, <3>4
        <5> HIDE DEF T, S
        <5>2. ~(R!Cardinality({c \in T : c > x}) < lowest)
          BY <3>2, <3>3, <5>1, ExcessIsOld
        <5> QED
          BY <5>2 DEF T
      <4>2. x \in succeeded'
        BY <3>1 DEF R!Excess
      <4> QED
        BY <3>3, <4>1, <4>2 DEF R!Newest
    <3> QED
      BY <3>4
  <2>3. /\ r \in [R!Backups -> R!Statuses]
        /\ list \subseteq R!Backups
    BY <1>0 DEF R!Excess, R!Statuses
  <2>4. /\ rec' \in [R!Backups -> R!Statuses]
        /\ \A c \in R!Backups : rec'[c] = r[c] \/ (r[c] = "failed" /\ rec'[c] = "deleted")
    <3>1. rec' = r \/ rec' = R!DropFailures(r)
      BY <1>5 DEF R!RecordSuccess, R!ContinuePrune
    <3>2. R!DropFailures(r) \in [R!Backups -> R!Statuses]
      BY <2>3 DEF R!DropFailures, R!Statuses
    <3> HIDE DEF r
    <3> QED
      BY <2>3, <3>1, <3>2, OnlyFailuresDropped
  <2>5. /\ todo' = [todo EXCEPT ![b] = next]
        /\ handler' = [handler EXCEPT ![b] = IF next = {} THEN "hook" ELSE "closing"]
    BY <1>0, <1>5 DEF R!RecordSuccess, R!ContinuePrune, R!HandlersFollowRows
  <2>6. next \subseteq succeeded' \ R!Newest' /\ next \subseteq R!Backups
    BY <2>2, <2>3
  <2>7. /\ UNCHANGED <<server, R!settings, waiting, created, sent, R!deletes, boots>>
        /\ handler[b] = "none" /\ rec[b] \in {"running", "deleted"}
        /\ \/ file' = [file EXCEPT ![b] = "whole"]
           \/ file[b] = "gone" /\ file' = [file EXCEPT ![b] = "gone"]
        /\ lastPrune' \in {lastPrune, [by |-> b, read |-> retention]}
    BY <1>5 DEF R!RecordSuccess
  <2>8. R!TypeOK'
    <3> HIDE DEF next
    <3>1. succeeded' \subseteq R!Backups /\ rec' \in [R!Backups -> R!Statuses]
      BY <1>0, <2>1, <2>4
    <3>2. todo' \in [R!Backups -> SUBSET R!Backups] /\ handler' \in [R!Backups -> R!Handlers]
      BY <1>0, <2>5, <2>6 DEF R!Handlers
    <3>3. lastPrune' \in [by : 0 .. MaxBackups, read : Nat]
      BY <1>0, <2>7 DEF R!Backups
    <3> QED
      BY <1>0, <2>7, <3>1, <3>2, <3>3
  <2>9. R!HandlersFollowRows'
    <3> HIDE DEF next
    <3> QED
      BY <1>0, <2>1, <2>4, <2>5, <2>7 DEF R!HandlersFollowRows
  <2>10. R!PrunesSpareNewest'
    <3> HIDE DEF next
    <3> QED
      BY <1>0, <2>1, <2>5, <2>6, <2>7 DEF R!PrunesSpareNewest, R!HandlersFollowRows
  <2>11. R!NewestSurvive'
    BY <1>0, <1>a, <2>1, <2>4, <2>7 DEF R!NewestSurvive, R!HandlersFollowRows
  <2>12. R!NewestDelivered'
    <3> HIDE DEF next
    <3> QED
      BY <1>0, <1>a, <2>1, <2>5, <2>7 DEF R!NewestDelivered
  <2> QED
    BY <2>8, <2>9, <2>10, <2>11, <2>12 DEF R!IInv
<1>6. ASSUME NEW b \in R!Backups, R!RecordFailure(b) PROVE R!IInv'
  <2>1. R!Newest' = R!Newest
    BY <1>b, <1>6 DEF R!RecordFailure
  <2>2. R!TypeOK'
    BY <1>0, <1>6 DEF R!RecordFailure, R!Listed, R!Handlers, R!Statuses
  <2>3. R!HandlersFollowRows'
    BY <1>0, <1>6 DEF R!RecordFailure, R!Listed, R!HandlersFollowRows
  <2>4. R!PrunesSpareNewest'
    BY <1>0, <1>6, <2>1 DEF R!RecordFailure, R!Listed, R!PrunesSpareNewest
  <2>5. R!NewestSurvive'
    BY <1>0, <1>a, <1>6, <2>1 DEF R!RecordFailure, R!Listed, R!NewestSurvive,
         R!HandlersFollowRows
  <2>6. R!NewestDelivered'
    BY <1>0, <1>a, <1>6, <2>1 DEF R!RecordFailure, R!Listed, R!NewestDelivered,
         R!HandlersFollowRows, R!NewestSurvive
  <2> QED
    BY <2>2, <2>3, <2>4, <2>5, <2>6 DEF R!IInv
<1>7. ASSUME NEW b \in R!Backups, R!PruneFile(b) PROVE R!IInv'
  <2>1. R!Newest' = R!Newest
    BY <1>b, <1>7 DEF R!PruneFile
  <2>2. R!TypeOK'
    BY <1>0, <1>a, <1>c, <1>7 DEF R!PruneFile, R!Handlers, R!Statuses
  <2>3. R!HandlersFollowRows'
    BY <1>0, <1>a, <1>c, <1>7 DEF R!PruneFile, R!HandlersFollowRows
  <2>4. R!PrunesSpareNewest'
    BY <1>0, <1>7, <2>1 DEF R!PruneFile, R!PrunesSpareNewest
  <2>5. R!NewestSurvive'
    BY <1>0, <1>a, <1>c, <1>7, <2>1 DEF R!PruneFile, R!NewestSurvive, R!HandlersFollowRows
  <2>6. R!NewestDelivered'
    BY <1>0, <1>a, <1>c, <1>7, <2>1 DEF R!PruneFile, R!NewestDelivered,
         R!HandlersFollowRows, R!NewestSurvive
  <2> QED
    BY <2>2, <2>3, <2>4, <2>5, <2>6 DEF R!IInv
<1>8. ASSUME NEW b \in R!Backups, R!PruneRecord(b) PROVE R!IInv'
  <2> DEFINE old  == R!Min(todo[b])
             rest == todo[b] \ {old}
             r    == [rec EXCEPT ![old] = "deleted"]
  <2>1. R!Newest' = R!Newest
    BY <1>b, <1>8 DEF R!PruneRecord
  <2>2. todo[b] # {} /\ old \in succeeded \ R!Newest /\ old \in R!Backups
    BY <1>0, <1>a, <1>c, <1>8 DEF R!PruneRecord, R!HandlersFollowRows
  <2>3. r \in [R!Backups -> R!Statuses]
    BY <1>0 DEF R!Statuses
  <2>4. /\ rec' \in [R!Backups -> R!Statuses]
        /\ \A c \in R!Backups : rec'[c] = r[c] \/ (r[c] = "failed" /\ rec'[c] = "deleted")
    <3>1. rec' = r \/ rec' = R!DropFailures(r)
      BY <1>8 DEF R!PruneRecord, R!ContinuePrune
    <3>2. R!DropFailures(r) \in [R!Backups -> R!Statuses]
      BY <2>3 DEF R!DropFailures, R!Statuses
    <3> HIDE DEF r
    <3> QED
      BY <2>3, <3>1, <3>2, OnlyFailuresDropped
  <2>5. /\ todo' = [todo EXCEPT ![b] = rest]
        /\ handler' = [handler EXCEPT ![b] = IF rest = {} THEN "hook" ELSE "closing"]
        /\ handler[b] = "unlinking"
        /\ UNCHANGED <<server, R!settings, waiting, created, file, sent, R!deletes, boots,
                       R!ghosts>>
    BY <1>8 DEF R!PruneRecord, R!ContinuePrune
  <2> HIDE DEF old, rest
  <2>6. rest \subseteq todo[b]
    BY DEF rest
  <2>7. R!TypeOK'
    BY <1>0, <2>4, <2>5, <2>6 DEF R!Handlers
  <2>8. R!HandlersFollowRows'
    BY <1>0, <1>a, <2>2, <2>4, <2>5 DEF R!HandlersFollowRows
  <2>9. R!PrunesSpareNewest'
    BY <1>0, <2>1, <2>5, <2>6 DEF R!PrunesSpareNewest
  <2>10. R!NewestSurvive'
    BY <1>0, <1>a, <2>1, <2>2, <2>4, <2>5 DEF R!NewestSurvive
  <2>11. R!NewestDelivered'
    BY <1>0, <1>a, <2>1, <2>5 DEF R!NewestDelivered
  <2> QED
    BY <2>7, <2>8, <2>9, <2>10, <2>11 DEF R!IInv
<1>9. ASSUME NEW b \in R!Backups, R!PruneThrows(b) PROVE R!IInv'
  <2>1. R!Newest' = R!Newest
    BY <1>b, <1>9 DEF R!PruneThrows, R!Die
  <2>2. R!TypeOK'
    BY <1>0, <1>a, <1>c, <1>9 DEF R!PruneThrows, R!Die, R!Listed, R!Handlers, R!Statuses
  <2>3. R!HandlersFollowRows'
    BY <1>0, <1>a, <1>c, <1>9 DEF R!PruneThrows, R!Die, R!Listed, R!HandlersFollowRows
  <2>4. R!PrunesSpareNewest'
    BY <1>0, <1>9, <2>1 DEF R!PruneThrows, R!Die, R!Listed, R!PrunesSpareNewest
  <2>5. R!NewestSurvive'
    BY <1>0, <1>a, <1>c, <1>9, <2>1 DEF R!PruneThrows, R!Die, R!Listed, R!NewestSurvive,
         R!HandlersFollowRows
  <2>6. R!NewestDelivered'
    BY <1>0, <1>a, <1>c, <1>9, <2>1 DEF R!PruneThrows, R!Die, R!Listed, R!NewestDelivered,
         R!HandlersFollowRows, R!NewestSurvive
  <2> QED
    BY <2>2, <2>3, <2>4, <2>5, <2>6 DEF R!IInv
<1>10. ASSUME NEW b \in R!Backups, R!Hook(b) PROVE R!IInv'
  <2>1. R!Newest' = R!Newest
    BY <1>b, <1>10 DEF R!Hook
  <2>2. R!TypeOK'
    BY <1>0, <1>10 DEF R!Hook, R!Handlers, R!Statuses
  <2>3. R!HandlersFollowRows'
    BY <1>0, <1>10 DEF R!Hook, R!HandlersFollowRows
  <2>4. R!PrunesSpareNewest'
    BY <1>0, <1>10, <2>1 DEF R!Hook, R!PrunesSpareNewest
  <2>5. R!NewestSurvive'
    BY <1>0, <1>a, <1>10, <2>1 DEF R!Hook, R!NewestSurvive, R!HandlersFollowRows
  <2>6. R!NewestDelivered'
    BY <1>0, <1>a, <1>10, <2>1 DEF R!Hook, R!NewestDelivered, R!HandlersFollowRows,
         R!NewestSurvive
  <2> QED
    BY <2>2, <2>3, <2>4, <2>5, <2>6 DEF R!IInv
<1>11. ASSUME NEW b \in R!Backups, R!Deliver(b) PROVE R!IInv'
  <2>1. R!Newest' = R!Newest
    BY <1>b, <1>11 DEF R!Deliver
  <2>2. R!TypeOK'
    BY <1>0, <1>11 DEF R!Deliver, R!Handlers, R!Statuses
  <2>3. R!HandlersFollowRows'
    BY <1>0, <1>11 DEF R!Deliver, R!HandlersFollowRows
  <2>4. R!PrunesSpareNewest'
    BY <1>0, <1>11, <2>1 DEF R!Deliver, R!PrunesSpareNewest
  <2>5. R!NewestSurvive'
    BY <1>0, <1>a, <1>11, <2>1 DEF R!Deliver, R!NewestSurvive, R!HandlersFollowRows
  <2>6. R!NewestDelivered'
    BY <1>0, <1>a, <1>11, <2>1 DEF R!Deliver, R!NewestDelivered, R!HandlersFollowRows,
         R!NewestSurvive
  <2> QED
    BY <2>2, <2>3, <2>4, <2>5, <2>6 DEF R!IInv
<1>12. ASSUME NEW b \in R!Backups, R!RequestDelete(b) PROVE R!IInv'
  <2>1. R!Newest' = R!Newest
    BY <1>b, <1>12 DEF R!RequestDelete
  <2>2. R!TypeOK'
    BY <1>0, <1>12 DEF R!RequestDelete, R!Listed, R!Handlers, R!Statuses
  <2>3. R!HandlersFollowRows'
    BY <1>0, <1>12 DEF R!RequestDelete, R!Listed, R!HandlersFollowRows
  <2>4. R!PrunesSpareNewest'
    BY <1>0, <1>12, <2>1 DEF R!RequestDelete, R!Listed, R!PrunesSpareNewest
  <2>5. R!NewestSurvive'
    BY <1>0, <1>a, <1>12, <2>1 DEF R!RequestDelete, R!Listed, R!NewestSurvive,
         R!HandlersFollowRows
  <2>6. R!NewestDelivered'
    BY <1>0, <1>a, <1>12, <2>1 DEF R!RequestDelete, R!Listed, R!NewestDelivered,
         R!HandlersFollowRows, R!NewestSurvive
  <2> QED
    BY <2>2, <2>3, <2>4, <2>5, <2>6 DEF R!IInv
<1>13. ASSUME NEW b \in R!Backups, R!DeleteFile(b) PROVE R!IInv'
  <2>1. R!Newest' = R!Newest
    BY <1>b, <1>13 DEF R!DeleteFile
  <2>2. R!TypeOK'
    BY <1>0, <1>13 DEF R!DeleteFile, R!Handlers, R!Statuses
  <2>3. R!HandlersFollowRows'
    BY <1>0, <1>13 DEF R!DeleteFile, R!HandlersFollowRows
  <2>4. R!PrunesSpareNewest'
    BY <1>0, <1>13, <2>1 DEF R!DeleteFile, R!PrunesSpareNewest
  <2>5. R!NewestSurvive'
    BY <1>0, <1>a, <1>13, <2>1 DEF R!DeleteFile, R!NewestSurvive, R!HandlersFollowRows
  <2>6. R!NewestDelivered'
    BY <1>0, <1>a, <1>13, <2>1 DEF R!DeleteFile, R!NewestDelivered, R!HandlersFollowRows,
         R!NewestSurvive
  <2> QED
    BY <2>2, <2>3, <2>4, <2>5, <2>6 DEF R!IInv
<1>14. ASSUME NEW b \in R!Backups, R!DeleteRecord(b) PROVE R!IInv'
  <2>1. R!Newest' = R!Newest
    BY <1>b, <1>14 DEF R!DeleteRecord
  <2>2. R!TypeOK'
    BY <1>0, <1>14 DEF R!DeleteRecord, R!Handlers, R!Statuses
  <2>3. R!HandlersFollowRows'
    BY <1>0, <1>14 DEF R!DeleteRecord, R!HandlersFollowRows
  <2>4. R!PrunesSpareNewest'
    BY <1>0, <1>14, <2>1 DEF R!DeleteRecord, R!PrunesSpareNewest
  <2>5. R!NewestSurvive'
    BY <1>0, <1>a, <1>14, <2>1 DEF R!DeleteRecord, R!NewestSurvive, R!HandlersFollowRows
  <2>6. R!NewestDelivered'
    BY <1>0, <1>a, <1>14, <2>1 DEF R!DeleteRecord, R!NewestDelivered,
         R!HandlersFollowRows, R!NewestSurvive
  <2> QED
    BY <2>2, <2>3, <2>4, <2>5, <2>6 DEF R!IInv
<1>15. ASSUME R!Crash PROVE R!IInv'
  <2>1. R!Newest' = R!Newest
    BY <1>b, <1>15 DEF R!Crash, R!Die
  <2>2. R!TypeOK'
    BY <1>0, <1>15 DEF R!Crash, R!Die, R!Handlers, R!Statuses
  <2>3. R!HandlersFollowRows'
    BY <1>0, <1>15 DEF R!Crash, R!Die, R!HandlersFollowRows
  <2>4. R!PrunesSpareNewest'
    BY <1>0, <1>15, <2>1 DEF R!Crash, R!Die, R!PrunesSpareNewest
  <2>5. R!NewestSurvive'
    BY <1>0, <1>a, <1>15, <2>1 DEF R!Crash, R!Die, R!NewestSurvive, R!HandlersFollowRows
  <2>6. R!NewestDelivered'
    BY <1>0, <1>a, <1>15, <2>1 DEF R!Crash, R!Die, R!NewestDelivered, R!HandlersFollowRows,
         R!NewestSurvive
  <2> QED
    BY <2>2, <2>3, <2>4, <2>5, <2>6 DEF R!IInv
<1>16. ASSUME R!Boot PROVE R!IInv'
  <2>1. R!Newest' = R!Newest
    BY <1>b, <1>16 DEF R!Boot
  <2>2. R!TypeOK'
    BY <1>0, <1>16 DEF R!Boot, R!Handlers, R!Statuses
  <2>3. R!HandlersFollowRows'
    BY <1>0, <1>16 DEF R!Boot, R!HandlersFollowRows
  <2>4. R!PrunesSpareNewest'
    BY <1>0, <1>16, <2>1 DEF R!Boot, R!PrunesSpareNewest
  <2>5. R!NewestSurvive'
    BY <1>0, <1>a, <1>16, <2>1 DEF R!Boot, R!NewestSurvive, R!HandlersFollowRows
  <2>6. R!NewestDelivered'
    BY <1>0, <1>a, <1>16, <2>1 DEF R!Boot, R!NewestDelivered, R!HandlersFollowRows,
         R!NewestSurvive
  <2> QED
    BY <2>2, <2>3, <2>4, <2>5, <2>6 DEF R!IInv
<1>17. CASE UNCHANGED R!vars
  <2>1. R!Newest' = R!Newest
    BY <1>b, <1>17 DEF R!vars
  <2> QED
    BY <1>0, <1>17, <2>1 DEF R!vars, R!IInv, R!HandlersFollowRows, R!PrunesSpareNewest,
         R!NewestSurvive, R!NewestDelivered
<1> QED
  BY <1>1, <1>2, <1>3, <1>4, <1>5, <1>6, <1>7, <1>8, <1>9, <1>10, <1>11, <1>12, <1>13,
     <1>14, <1>15, <1>16, <1>17 DEF R!Next, R!Handler

(* The first start of the server. *)
LEMMA RetentionInit == R!Init => R!IInv
<1> SUFFICES ASSUME R!Init PROVE R!IInv
    OBVIOUS
<1> USE ScheduleAssumption DEF R!Init
<1>1. R!TypeOK
  BY DEF R!TypeOK, R!Handlers, R!Statuses
<1>2. R!HandlersFollowRows
  BY DEF R!HandlersFollowRows, R!Backups
<1>3. R!PrunesSpareNewest /\ R!NewestSurvive /\ R!NewestDelivered
  BY DEF R!PrunesSpareNewest, R!NewestSurvive, R!NewestDelivered, R!Newest
<1> QED
  BY <1>1, <1>2, <1>3 DEF R!IInv

(* Prunes, hooks, rows and files stay in step: what a prune has yet to delete
   is never among the newest. *)
THEOREM RetentionInvariance == R!Spec => []R!IInv
BY RetentionInit, RetentionStep, PTL DEF R!Spec

(* The newest backups survive every prune, row and file, and are delivered by
   the time their handlers are done. *)
THEOREM NewestBackupsKept == R!Spec => []NewestKept
<1>1. R!IInv => NewestKept
  BY DEF R!IInv, NewestKept, R!NewestKept
<1> QED
  BY <1>1, RetentionInvariance, PTL

-----------------------------------------------------------------------------
(* What a prune leaves *)

(* The prune that started last has started, and unless its process died, what it does not
   mean to delete is no more than the retention it read. *)
PruneSettles ==
  lastPrune.by > 0 =>
    /\ handler[lastPrune.by] # "none"
    /\ schedule # "deleted" /\ handler[lastPrune.by] # "lost" =>
         R!Cardinality(R!Successes \ todo[lastPrune.by]) <= lastPrune.read

(* Of any set of backups, no more than the retention are not in excess: all of them are the
   oldest of them or newer, and fewer than the retention are newer. *)
LEMMA KeptAreFew ==
  ASSUME NEW S \in SUBSET R!Backups, NEW kept \in Nat
  PROVE  R!Cardinality(S \ R!Excess(S, kept)) <= kept
<1> DEFINE K == S \ R!Excess(S, kept)
           N(b) == {c \in S : c > b}
<1>1. CASE K = {}
  BY SameSize, <1>1, FS_EmptySet
<1>2. CASE K # {}
  <2>1. K \in SUBSET Nat
    <3>1. S \in SUBSET Nat
      BY ScheduleAssumption DEF R!Backups
    <3> QED
      BY <3>1
  <2>2. PICK m \in K : \A y \in K : m <= y
    BY <1>2, <2>1, LeastThere
  <2> HIDE DEF K
  <2>3. R!IsFiniteSet(N(m)) /\ R!Cardinality(N(m)) \in Nat
    BY NewerCounted
  <2>4. R!Cardinality(N(m)) < kept
    BY <2>2, <2>3 DEF K, R!Excess
  <2>5. /\ R!IsFiniteSet(N(m) \cup {m})
        /\ R!Cardinality(N(m) \cup {m}) = R!Cardinality(N(m)) + 1
    <3>1. m \notin N(m)
      BY <2>1, <2>2
    <3> QED
      BY SameSize, <2>3, <3>1, FS_AddElement
  <2>6. K \subseteq N(m) \cup {m}
    BY <2>1, <2>2 DEF K
  <2>7. R!Cardinality(K) <= R!Cardinality(N(m) \cup {m})
    BY SameSize, <2>5, <2>6, FS_Subset
  <2>8. R!Cardinality(K) \in Nat
    BY SameSize, <2>5, <2>6, FS_Subset, FS_CardinalityType
  <2> QED
    BY <2>3, <2>4, <2>5, <2>7, <2>8 DEF K
<1> QED
  BY <1>1, <1>2

(* Any step that starts no prune of a living schedule, and brings nothing back that the
   last one meant to keep away. *)
LEMMA SettledStays ==
  ASSUME R!TypeOK, PruneSettles, UNCHANGED lastPrune,
         schedule = "deleted" => schedule' = "deleted",
         lastPrune.by > 0 =>
           /\ handler[lastPrune.by] # "none" => handler'[lastPrune.by] # "none"
           /\ handler'[lastPrune.by] # "lost" /\ schedule' # "deleted" =>
                /\ handler[lastPrune.by] # "lost"
                /\ R!Successes' \ todo'[lastPrune.by] \subseteq R!Successes \ todo[lastPrune.by]
  PROVE  PruneSettles'
<1> SUFFICES ASSUME lastPrune.by > 0, handler'[lastPrune.by] # "lost", schedule' # "deleted"
             PROVE  R!Cardinality(R!Successes' \ todo'[lastPrune.by]) <= lastPrune.read
    BY DEF PruneSettles
<1> DEFINE new == R!Successes' \ todo'[lastPrune.by]
           old == R!Successes \ todo[lastPrune.by]
<1>1. new \subseteq old
  OBVIOUS
<1>2. R!IsFiniteSet(R!Backups)
  BY SameSize, FS_Interval, ScheduleAssumption DEF R!Backups
<1>3. old \subseteq R!Backups
  BY DEF R!Successes
<1> HIDE DEF new, old
<1>4. R!IsFiniteSet(old) /\ R!IsFiniteSet(new)
  BY SameSize, <1>1, <1>2, <1>3, FS_Subset
<1>5. R!Cardinality(new) <= R!Cardinality(old) /\ R!Cardinality(new) \in Nat /\ R!Cardinality(old) \in Nat
  BY SameSize, <1>1, <1>4, FS_Subset, FS_CardinalityType
<1>6. R!Cardinality(old) <= lastPrune.read
  BY DEF PruneSettles, old
<1>7. lastPrune.read \in Nat
  BY DEF R!TypeOK
<1> QED
  BY <1>5, <1>6, <1>7 DEF new

(* Any step preserves it: between two prunes successes only disappear, and each backup a
   prune no longer has to delete is deleted. *)
LEMMA PruneStep == R!IInv /\ PruneSettles /\ [R!Next]_R!vars => PruneSettles'
<1> SUFFICES ASSUME R!IInv, PruneSettles, [R!Next]_R!vars PROVE PruneSettles'
    OBVIOUS
<1> USE ScheduleAssumption DEF R!settings, R!storage, R!handlers, R!deletes, R!ghosts
<1>1. R!TypeOK /\ R!HandlersFollowRows
  BY DEF R!IInv
<1> DEFINE by == lastPrune.by
<1>2. by > 0 => by \in R!Backups /\ handler[by] # "none"
  BY <1>1 DEF R!TypeOK, R!Backups, PruneSettles
<1>3. CASE R!Trigger \/ R!UpdateSchedule \/ R!DeleteSchedule \/ R!Boot \/ UNCHANGED R!vars
  BY <1>1, <1>3, SettledStays
     DEF R!Trigger, R!UpdateSchedule, R!DeleteSchedule, R!Boot, R!vars, R!Successes
<1>4. CASE R!StartBackup
  <2>1. R!Successes' \subseteq R!Successes
    BY <1>1, <1>4 DEF R!StartBackup, R!Successes, R!TypeOK
  <2> QED
    BY <1>1, <1>4, <2>1, SettledStays DEF R!StartBackup
<1>5. ASSUME NEW b \in R!Backups, R!RecordSuccess(b) PROVE PruneSettles'
  <2> DEFINE r    == IF rec[b] = "running" THEN [rec EXCEPT ![b] = "success"] ELSE rec
             S    == {c \in R!Backups : r[c] = "success"}
             list == R!Excess(S, retention)
  <2>1. CASE schedule = "deleted"
    <3>1. schedule' = "deleted" /\ UNCHANGED lastPrune /\ handler' = [handler EXCEPT ![b] = "hook"]
      BY <1>5, <2>1 DEF R!RecordSuccess
    <3> QED
      BY <1>1, <1>2, <3>1, SettledStays DEF R!TypeOK
  <2>2. CASE schedule # "deleted"
    <3>1. /\ todo' = [todo EXCEPT ![b] = list] /\ rec' \in {r, R!DropFailures(r)}
          /\ handler' \in {[handler EXCEPT ![b] = "hook"], [handler EXCEPT ![b] = "closing"]}
          /\ lastPrune' = [by |-> b, read |-> retention]
      BY <1>5, <2>2 DEF R!RecordSuccess, R!ContinuePrune
    <3>2. R!Successes' \subseteq S
      <4> HIDE DEF r
      <4> QED
        BY <3>1, OnlyFailuresDropped DEF R!Successes
    <3>3. R!Successes' \ todo'[b] \subseteq S \ list
      BY <1>1, <3>1, <3>2 DEF R!TypeOK
    <3>4. retention \in Nat /\ S \in SUBSET R!Backups
      BY <1>1 DEF R!TypeOK
    <3>5. R!Cardinality(S \ list) <= retention
      BY <3>4, KeptAreFew
    <3> HIDE DEF S, list
    <3>6. R!IsFiniteSet(S \ list)
      <4>1. R!IsFiniteSet(R!Backups)
        BY SameSize, FS_Interval DEF R!Backups
      <4>2. S \ list \subseteq R!Backups
        BY <3>4
      <4> QED
        BY SameSize, <4>1, <4>2, FS_Subset
    <3>7. R!Cardinality(R!Successes' \ todo'[b]) <= R!Cardinality(S \ list)
      BY SameSize, <3>3, <3>6, FS_Subset
    <3>8. R!Cardinality(R!Successes' \ todo'[b]) \in Nat /\ R!Cardinality(S \ list) \in Nat
      BY SameSize, <3>3, <3>6, FS_Subset, FS_CardinalityType
    <3>9. R!Cardinality(R!Successes' \ todo'[b]) <= retention
      BY <3>4, <3>5, <3>7, <3>8
    <3>10. lastPrune'.by = b /\ lastPrune'.read = retention /\ handler'[b] # "none"
      BY <1>1, <3>1 DEF R!TypeOK
    <3> QED
      BY <3>9, <3>10 DEF PruneSettles
  <2> QED
    BY <2>1, <2>2
<1>6. ASSUME NEW b \in R!Backups, R!RecordFailure(b) PROVE PruneSettles'
  <2>1. R!Successes' \subseteq R!Successes
    BY <1>1, <1>6 DEF R!RecordFailure, R!Successes, R!TypeOK, R!Listed
  <2>2. /\ handler[b] = "none" /\ handler' = [handler EXCEPT ![b] = "done"]
        /\ UNCHANGED <<lastPrune, schedule, todo>>
    BY <1>6 DEF R!RecordFailure
  <2> QED
    BY <1>1, <1>2, <2>1, <2>2, SettledStays DEF R!TypeOK
<1>7. ASSUME NEW b \in R!Backups, R!PruneRecord(b) PROVE PruneSettles'
  <2> DEFINE old  == R!Min(todo[b])
             rest == todo[b] \ {old}
             r    == [rec EXCEPT ![old] = "deleted"]
  <2>1. /\ todo' = [todo EXCEPT ![b] = rest] /\ rec' \in {r, R!DropFailures(r)}
        /\ handler' \in {[handler EXCEPT ![b] = "hook"], [handler EXCEPT ![b] = "closing"]}
        /\ handler[b] = "unlinking" /\ UNCHANGED <<lastPrune, schedule>>
    BY <1>7 DEF R!PruneRecord, R!ContinuePrune
  <2>2. old \in R!Backups
    <3>1. todo[b] \in SUBSET Nat /\ todo[b] \subseteq R!Backups /\ todo[b] # {}
      BY <1>1, <2>1 DEF R!HandlersFollowRows, R!TypeOK, R!Backups
    <3> QED
      BY <3>1, MinIn
  <2>3. R!Successes' \subseteq R!Successes \ {old}
    <3>1. \A c \in R!Backups : r[c] = "success" => rec[c] = "success" /\ c # old
      BY <1>1, <2>2 DEF R!TypeOK
    <3> HIDE DEF r
    <3> QED
      BY <2>1, <3>1, OnlyFailuresDropped DEF R!Successes
  <2> HIDE DEF old
  <2> QED
    BY <1>1, <1>2, <2>1, <2>3, SettledStays DEF R!TypeOK
<1>8. ASSUME NEW b \in R!Backups, R!PruneFile(b) \/ R!Hook(b) \/ R!Deliver(b) PROVE PruneSettles'
  <2>1. UNCHANGED <<lastPrune, schedule, todo, rec>> /\ handler[b] \in {"closing", "hook", "stat"}
    BY <1>8 DEF R!PruneFile, R!Hook, R!Deliver
  <2>2. PICK h \in R!Handlers \ {"none", "lost"} : handler' = [handler EXCEPT ![b] = h]
    BY <1>8 DEF R!PruneFile, R!Hook, R!Deliver, R!Handlers
  <2> QED
    BY <1>1, <1>2, <2>1, <2>2, SettledStays DEF R!TypeOK, R!Successes
<1>9. ASSUME NEW b \in R!Backups, R!RequestDelete(b) \/ R!DeleteFile(b) \/ R!DeleteRecord(b)
      PROVE  PruneSettles'
  <2>1. R!Successes' \subseteq R!Successes
    BY <1>1, <1>9 DEF R!RequestDelete, R!DeleteFile, R!DeleteRecord, R!Successes, R!TypeOK
  <2>2. UNCHANGED <<lastPrune, schedule, todo, handler>>
    BY <1>9 DEF R!RequestDelete, R!DeleteFile, R!DeleteRecord
  <2> QED
    BY <1>1, <2>1, <2>2, SettledStays
<1>10. ASSUME R!Die, R!Successes' \subseteq R!Successes PROVE PruneSettles'
  <2>1. UNCHANGED <<lastPrune, schedule>> /\ todo' = [c \in R!Backups |-> {}]
    BY <1>10 DEF R!Die
  <2>2. by > 0 =>
          /\ handler'[by] # "none"
          /\ handler'[by] # "lost" => handler[by] = "done" /\ todo[by] = {}
    BY <1>1, <1>2, <1>10 DEF R!Die, R!HandlersFollowRows
  <2> QED
    BY <1>1, <1>2, <1>10, <2>1, <2>2, SettledStays
<1>11. CASE R!Crash
  BY <1>10, <1>11 DEF R!Crash, R!Successes
<1>12. ASSUME NEW b \in R!Backups, R!PruneThrows(b) PROVE PruneSettles'
  <2>1. R!Successes' \subseteq R!Successes
    BY <1>1, <1>12 DEF R!PruneThrows, R!Successes, R!TypeOK
  <2> QED
    BY <1>10, <1>12, <2>1 DEF R!PruneThrows
<1> QED
  BY <1>3, <1>4, <1>5, <1>6, <1>7, <1>8, <1>9, <1>11, <1>12 DEF R!Next, R!Handler

(* Once the prune that started last is through, no more backups are left than the retention
   it read allows (backup.service.ts:327-330), whatever the other prunes and the operators
   delete meanwhile. *)
THEOREM RetentionIsReached == R!Spec => []RetentionReached
<1>1. R!Init => PruneSettles
  BY DEF R!Init, PruneSettles
<1>2. R!IInv /\ PruneSettles => RetentionReached
  <2> SUFFICES ASSUME R!IInv, PruneSettles, lastPrune.by > 0,
                      handler[lastPrune.by] \in {"hook", "stat", "done"}, schedule # "deleted"
               PROVE  R!Cardinality(R!Successes) <= lastPrune.read
    BY DEF RetentionReached, R!RetentionReached
  <2>1. lastPrune.by \in R!Backups
    BY DEF R!IInv, R!TypeOK, R!Backups
  <2>2. todo[lastPrune.by] = {}
    BY <2>1 DEF R!IInv, R!HandlersFollowRows
  <2>3. R!Cardinality(R!Successes \ todo[lastPrune.by]) <= lastPrune.read
    BY DEF PruneSettles
  <2> QED
    BY <2>2, <2>3
<1> QED
  BY <1>1, <1>2, PruneStep, RetentionInvariance, PTL DEF R!Spec
=============================================================================

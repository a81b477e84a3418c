----------------------------- MODULE Inspections -----------------------------
(***************************************************************************)
(* Looking into a backup: backup.service.ts restores it into a scratch     *)
(* database, whose name comes from the backup, and keeps a row of          *)
(* backup_inspections that names the restore job.  One backup; calls of    *)
(* startInspection(), closeInspection() and deleteBackup() overlap at their*)
(* awaits, while tools of earlier attempts are still at work.              *)
(***************************************************************************)
EXTENDS JobManager, Naturals

CONSTANTS
  Starts,     \* calls of startInspection(), each with the job it may create
  Closers,    \* calls of closeInspection()
  Deleters,   \* calls of deleteBackup()
  Nobody,
  MaxRestarts \* bound: ends of the process

ASSUME InspectionsAssumption ==
  /\ Jobs = Starts /\ Nobody \notin Starts
  /\ Starts \cap (Closers \cup Deleters) = {} /\ Closers \cap Deleters = {}
  /\ MaxRestarts \in Nat

Calls == Starts \cup Closers \cup Deleters

VARIABLES
  listed,     \* the backup has its row
  onDisk,     \* and its file
  record,     \* the job the row of backup_inspections names, or Nobody
  scratch,    \* the call that created the scratch database, or Nobody
  call,       \* where each call is, see Steps
  closes,     \* the row each call of closeInspection() has read
  tool,       \* the pg_restore or psql of a job, see Tools
  inside,     \* the scratch database it has connected to
  restored,   \* the tools that have restored all of the file
  restarts,   \* counter behind MaxRestarts
  alone,      \* auxiliary: starts no other call overlapped
  excused     \* auxiliary: databases left by a failure nobody retries

files    == <<listed, onDisk>>
toolVars == <<tool, inside, restored>>
aux      == <<alone, excused>>
vars     == <<jobVars, files, record, scratch, call, closes, toolVars, restarts, aux>>

(* closeInspection: the end of the pools and DROP, then the row.
   startInspection: DROP, CREATE, byId, stat.  deleteBackup: the file, then
   the row. *)
Closing   == {"dropping", "forgetting"}
Preparing == {"clearing", "creating", "looking", "stat"}
Steps     == Closing \cup Preparing \cup {"idle", "unlinking", "deleting", "done"}

Codes == {"zero", "nonzero", "null"}
Tools == Codes \cup {"none", "running", "closed", "orphan"}

InProgress == {x \in Calls : call[x] \notin {"idle", "done"}}

TypeOK ==
  /\ JobTypeOK
  /\ listed \in BOOLEAN /\ onDisk \in BOOLEAN
  /\ record \in Starts \cup {Nobody} /\ scratch \in Starts \cup {Nobody}
  /\ call \in [Calls -> Steps]
  /\ closes \in [Calls -> Starts \cup {Nobody}]
  /\ tool \in [Starts -> Tools]
  /\ inside \in [Starts -> Starts \cup {Nobody}]
  /\ restored \subseteq Starts
  /\ restarts \in 0 .. MaxRestarts
  /\ alone \subseteq Starts /\ excused \subseteq Starts

(* The backup is a success.  Its file may be gone: files are lost with a
   container whose rows come back. *)
Init ==
  /\ JobInit
  /\ listed = TRUE /\ onDisk \in BOOLEAN
  /\ record = Nobody /\ scratch = Nobody
  /\ call = [x \in Calls |-> "idle"]
  /\ closes = [x \in Calls |-> Nobody]
  /\ tool = [s \in Starts |-> "none"]
  /\ inside = [s \in Starts |-> Nobody]
  /\ restored = {} /\ restarts = 0
  /\ alone = {} /\ excused = {}

-----------------------------------------------------------------------------
(* closeInspection() *)

(* getInspection() *)
Inspection ==
  IF record = Nobody THEN "none"
  ELSE CASE StatusOf(record) = "success" -> "ready"
         [] StatusOf(record) = "running" -> "preparing"
         [] OTHER                        -> "failed"

Enter(x, step) ==
  /\ call[x] = "idle" /\ listed
  /\ call' = [call EXCEPT ![x] = step]
  /\ closes' = [closes EXCEPT ![x] = IF step = "dropping" THEN record ELSE Nobody]
  /\ alone' = IF x \notin Starts THEN alone
              ELSE IF InProgress \cap Starts = {} THEN alone \cup {x}
              ELSE alone \ InProgress
  /\ UNCHANGED <<jobVars, files, record, scratch, toolVars, restarts, excused>>

GoTo(x, step) == call' = [call EXCEPT ![x] = step]

(* What a call does once there is no inspection left to close. *)
AfterClose(x) ==
  CASE x \in Starts   -> "clearing"
    [] x \in Deleters -> "unlinking"
    [] OTHER          -> "done"

RequestClose(c) == Enter(c, IF record = Nobody THEN AfterClose(c) ELSE "dropping")

(* Fault: DROP DATABASE without FORCE, refused while a tool is connected. *)
DropRefused(x) ==
  /\ call[x] = "dropping"
  /\ GoTo(x, "forgetting")
  /\ \/ /\ scratch' = IF \E s \in Starts : tool[s] \in {"running", "orphan"}
                                             /\ inside[s] = scratch
                        THEN scratch ELSE Nobody
        /\ UNCHANGED excused
     \/ excused' = excused \cup ({scratch} \ {Nobody}) /\ UNCHANGED scratch
  /\ UNCHANGED <<jobVars, files, record, toolVars, closes, restarts, alone>>

(* DROP DATABASE WITH (FORCE); that it fails is ignored. *)
Drop(x) ==
  /\ call[x] = "dropping"
  /\ GoTo(x, "forgetting")
  /\ \/ scratch' = Nobody /\ UNCHANGED excused
     \/ excused' = excused \cup ({scratch} \ {Nobody}) /\ UNCHANGED scratch
  /\ UNCHANGED <<jobVars, files, record, toolVars, closes, restarts, alone>>

(* The row goes by the backup's name, whoever wrote it meanwhile. *)
Forget(x) ==
  /\ call[x] = "forgetting"
  /\ record' = Nobody
  /\ closes' = [closes EXCEPT ![x] = Nobody]
  /\ excused' = excused \cup ({record} \ {closes[x], Nobody})
  /\ GoTo(x, AfterClose(x))
  /\ UNCHANGED <<jobVars, files, scratch, toolVars, restarts, alone>>

(* The rest of deleteBackup(); that the file stays is ignored too. *)
DeleteFile(d) ==
  /\ call[d] = "unlinking"
  /\ onDisk' \in {onDisk, FALSE}
  /\ GoTo(d, "deleting")
  /\ UNCHANGED <<jobVars, listed, record, scratch, toolVars, closes, restarts, aux>>

DeleteBackup(d) ==
  /\ call[d] = "deleting"
  /\ listed' = FALSE
  /\ GoTo(d, "done")
  /\ UNCHANGED <<jobVars, onDisk, record, scratch, toolVars, closes, restarts, aux>>

-----------------------------------------------------------------------------
(* startInspection() *)

(* A failed attempt is closed first; a ready or running one is returned. *)
RequestStart(s) ==
  Enter(s, CASE Inspection = "none"   -> "clearing"
             [] Inspection = "failed" -> "dropping"
             [] OTHER                 -> "done")

Clear(s) ==
  /\ call[s] = "clearing"
  /\ scratch' = Nobody /\ GoTo(s, "creating")
  /\ UNCHANGED <<jobVars, files, record, toolVars, closes, restarts, aux>>

(* Refused when another call has just created it. *)
CreateDatabase(s) ==
  /\ call[s] = "creating"
  /\ scratch = Nobody
  /\ scratch' = s /\ GoTo(s, "looking")
  /\ UNCHANGED <<jobVars, files, record, toolVars, closes, restarts, aux>>

(* The server cannot be reached, or a statement is refused. *)
PrepareFails(s) ==
  /\ call[s] \in {"clearing", "creating"}
  /\ GoTo(s, "done")
  /\ excused' = excused \cup ({scratch} \ {Nobody})
  /\ UNCHANGED <<jobVars, files, record, scratch, toolVars, closes, restarts, alone>>

(* restoreBackup(): byId() and, after `await stat', the file.  When either is
   missing the call fails and the empty database stays. *)
BackupMissing(s) ==
  /\ \/ call[s] = "looking" /\ ~listed
     \/ call[s] = "stat" /\ ~onDisk
  /\ GoTo(s, "done")
  /\ excused' = excused \cup {s}
  /\ UNCHANGED <<jobVars, files, record, scratch, toolVars, closes, restarts, alone>>

BackupListed(s) ==
  /\ call[s] = "looking" /\ listed
  /\ GoTo(s, "stat")
  /\ UNCHANGED <<jobVars, files, record, scratch, toolVars, closes, restarts, aux>>

(* The job, its tool and insertInspection(), which fails when there is a row;
   the job runs then all the same. *)
StartRestore(s) ==
  /\ call[s] = "stat" /\ onDisk
  /\ CreateJob(s)
  /\ tool' = [tool EXCEPT ![s] = "running"]
  /\ record' = IF record = Nobody THEN s ELSE record
  /\ GoTo(s, "done")
  /\ UNCHANGED <<files, scratch, inside, restored, closes, restarts, aux>>

-----------------------------------------------------------------------------
(* The tool of a restore and its events *)

(* It connects once, to the database that has the name at that time. *)
Connect(s) ==
  /\ tool[s] \in {"running", "orphan"} /\ inside[s] = Nobody /\ scratch # Nobody
  /\ inside' = [inside EXCEPT ![s] = scratch]
  /\ UNCHANGED <<jobVars, files, record, scratch, call, tool, restored,
                 closes, restarts, aux>>

(* All of the file is restored; a database that is dropped ends it before. *)
Finish(s) ==
  /\ tool[s] \in {"running", "orphan"} /\ inside[s] = scratch /\ scratch # Nobody
  /\ restored' = restored \cup {s}
  /\ UNCHANGED <<jobVars, files, record, scratch, call, tool, inside,
                 closes, restarts, aux>>

Exit(s) ==
  /\ tool[s] \in {"running", "orphan"}
  /\ \E code \in Codes :
       /\ code = "zero" => s \in restored
       /\ tool' = [tool EXCEPT ![s] = IF @ = "running" THEN code ELSE "closed"]
  /\ UNCHANGED <<jobVars, files, record, scratch, call, inside, restored,
                 closes, restarts, aux>>

(* The kill timer, armed from spawn to 'close', a cancel, or the 'error' event
   of a tool that is not there: they end the job before its tool, which may
   exit at any time anyway. *)
EndEarly(s) ==
  /\ tool[s] \in Codes \cup {"running"} /\ Running(s)
  /\ \E status \in {"failed", "canceled"} : FinishJob(s, status)
  /\ UNCHANGED <<files, record, scratch, call, toolVars, closes, restarts, aux>>

(* 'close' *)
RestoreClosed(s) ==
  /\ tool[s] \in Codes
  /\ FinishJob(s, CASE tool[s] = "zero" -> "success"
                    [] tool[s] = "null" -> "canceled"
                    [] OTHER            -> "failed")
  /\ tool' = [tool EXCEPT ![s] = "closed"]
  /\ UNCHANGED <<files, record, scratch, call, inside, restored, closes, restarts, aux>>

-----------------------------------------------------------------------------
(* The process ends, by shutdown(), which cancels what runs, or without it, and
   starts again.  A start leaves the database it has created, and a call that
   has dropped one leaves its row, which goes on saying "ready". *)
Restart ==
  /\ restarts < MaxRestarts /\ restarts' = restarts + 1
  /\ RestartJobs
  /\ tool' = [s \in Starts |-> CASE tool[s] = "running" -> "orphan"
                                 [] tool[s] \in Codes   -> "closed"
                                 [] OTHER -> tool[s]]
  /\ call' = [x \in Calls |-> IF call[x] = "idle" THEN "idle" ELSE "done"]
  /\ closes' = [x \in Calls |-> Nobody]
  /\ excused' = excused \cup {s \in Starts :
                   \/ scratch = s /\ s \in InProgress
                   \/ record = s /\ \E x \in Calls : call[x] = "forgetting"}
  /\ UNCHANGED <<files, record, scratch, inside, restored, alone>>

(* Fault: the row goes first. *)
CloseRowFirst(x) ==
  /\ \/ call[x] = "dropping" /\ GoTo(x, "forgetting") /\ record' = Nobody
        /\ UNCHANGED <<scratch, closes>>
     \/ call[x] = "forgetting" /\ GoTo(x, AfterClose(x)) /\ scratch' = Nobody
        /\ closes' = [closes EXCEPT ![x] = Nobody] /\ UNCHANGED record
  /\ UNCHANGED <<jobVars, files, toolVars, restarts, aux>>

Close(x) == Drop(x) \/ Forget(x)

Start(s) ==
  \/ RequestStart(s) \/ Clear(s) \/ CreateDatabase(s) \/ PrepareFails(s)
  \/ BackupMissing(s) \/ BackupListed(s) \/ StartRestore(s)

Tool(s) ==
  \/ Connect(s) \/ Finish(s) \/ Exit(s)
  \/ EndEarly(s) \/ RestoreClosed(s)

Next ==
  \/ \E x \in Calls : Close(x)
  \/ \E s \in Starts : Start(s) \/ Tool(s)
  \/ \E c \in Closers \cup Deleters : RequestClose(c)
  \/ \E d \in Deleters : DeleteFile(d) \/ DeleteBackup(d)
  \/ Restart

Spec == Init /\ [][Next]_vars

-----------------------------------------------------------------------------
(* Properties *)

(* What the page shows as ready is all of the backup, in a database that is
   there: none of the failures, kills, restarts and later calls make a start
   that had the backup for itself lie (backup.service.ts:255-296).  Until the
   row is gone, a call that closes has dropped the database under it. *)
ReadyIsWhole ==
  Inspection = "ready" /\ record \in alone \ excused =>
    \/ scratch = record /\ record \in restored
    \/ \E x \in Calls : call[x] = "forgetting"

(* A scratch database without a row is one no call will look for any more:
   with nothing in progress there is none, but for a DROP that failed, a file
   that was missing and a server that died (backup.service.ts:282-296,
   310-321). *)
NothingLeftBehind ==
  scratch # Nobody /\ record = Nobody /\ InProgress = {} =>
    scratch \in excused \/ scratch \notin alone
=============================================================================

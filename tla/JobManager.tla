----------------------------- MODULE JobManager -----------------------------
(***************************************************************************)
(* The registry of long-running tasks, infra/jobs.ts: an entry in memory   *)
(* for each job of this server run, polled by the UI, and a row of the     *)
(* jobs table that outlives it.  The services that run external tools use  *)
(* the operators below; taken alone, JobSpec is the life of a job whoever  *)
(* drives it, and what every service has to implement.                     *)
(***************************************************************************)
CONSTANT Jobs

VARIABLES live,   \* status of the entry in JobManager.live, "none" without one
          row     \* status of the row of the jobs table, "none" without one

jobVars == <<live, row>>

Ended    == {"success", "failed", "canceled"}
Statuses == Ended \cup {"none", "running"}

JobTypeOK == live \in [Jobs -> Statuses] /\ row \in [Jobs -> Statuses]

JobInit == live = [j \in Jobs |-> "none"] /\ row = [j \in Jobs |-> "none"]

Running(j) == live[j] = "running"

(* What get(j) answers: the entry while there is one, then the row. *)
StatusOf(j) == IF live[j] # "none" THEN live[j] ELSE row[j]

CreateJob(j) ==
  /\ row[j] = "none" /\ live[j] = "none"
  /\ row' = [row EXCEPT ![j] = "running"]
  /\ live' = [live EXCEPT ![j] = "running"]

(* finish(): the first call decides, the others do nothing. *)
FinishJob(j, status) ==
  IF Running(j)
    THEN /\ live' = [live EXCEPT ![j] = status]
         /\ row' = [row EXCEPT ![j] = status]
    ELSE UNCHANGED jobVars

(* cancelAll(), but for the signals sent to the processes. *)
CancelRunning ==
  /\ live' = [j \in Jobs |-> IF Running(j) THEN "canceled" ELSE live[j]]
  /\ row'  = [j \in Jobs |-> IF Running(j) THEN "canceled" ELSE row[j]]

(* Ten minutes after its end the entry is dropped. *)
ReleaseJob(j) ==
  /\ live[j] \in Ended
  /\ live' = [live EXCEPT ![j] = "none"]
  /\ UNCHANGED row

(* The process ends: memory goes, rows stay. *)
ForgetLive == live' = [j \in Jobs |-> "none"] /\ UNCHANGED row

(* The constructor, on the next start. *)
FailInterrupted ==
  /\ \A j \in Jobs : live[j] = "none"
  /\ row' = [j \in Jobs |-> IF row[j] = "running" THEN "failed" ELSE row[j]]
  /\ UNCHANGED live

(* A whole restart, for the services whose calls end with the process: what ran
   was canceled by cancelAll(), or is failed by the constructor. *)
RestartJobs ==
  /\ live' = [j \in Jobs |-> "none"]
  /\ \E status \in {"failed", "canceled"} :
       row' = [j \in Jobs |-> IF row[j] = "running" THEN status ELSE row[j]]

JobNext ==
  \/ \E j \in Jobs : CreateJob(j) \/ ReleaseJob(j)
  \/ \E j \in Jobs, status \in Ended : FinishJob(j, status)
  \/ CancelRunning \/ ForgetLive \/ FailInterrupted \/ RestartJobs

JobSpec == JobInit /\ [][JobNext]_jobVars

-----------------------------------------------------------------------------
(* Properties *)

(* What get() answers does not change when the entry is released
   (jobs.ts:108-112): memory and table never disagree. *)
LiveAgreesWithRow == \A j \in Jobs : StatusOf(j) = row[j]

(* The first end of a job is its last: no later exit code, timeout, cancel,
   shutdown or restart rewrites it (jobs.ts:90-92). *)
EndIsFinal == [][\A j \in Jobs : row[j] \in Ended => row'[j] = row[j]]_jobVars
=============================================================================

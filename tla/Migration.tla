------------------------------ MODULE Migration ------------------------------
(***************************************************************************)
(* Server-to-server migration: migrate() of backup.service.ts, a pg_dump   *)
(* on one server piped through Node into a pg_restore on another.  Only the*)
(* pg_restore is attached to the job; one kill timer kills both tools.     *)
(*                                                                         *)
(* Tools exit with any code at any time.  A write to a pg_restore that is  *)
(* gone raises EPIPE on a stream nobody listens to, which may end the      *)
(* process: one of the ways Restart happens.                               *)
(***************************************************************************)
EXTENDS JobManager, Naturals

CONSTANT MaxRestarts   \* bound: ends of the process

VARIABLES
  req,        \* the request: "none", "creating" the database, "started", "rejected"
  dump,       \* pg_dump, see Tools
  restore,    \* pg_restore
  written,    \* migrations whose pg_dump has written its archive
  got,        \* migrations whose pg_restore has been given all of it
  killed,     \* the tools that were sent SIGKILL, as <<tool, migration>>
  timer,      \* the kill timer
  restarts    \* counter behind MaxRestarts

vars == <<jobVars, req, dump, restore, written, got, killed, timer, restarts>>

Codes == {"zero", "nonzero", "null"}
Tools == Codes \cup {"none", "enoent", "running", "closed", "orphan"}

TypeOK ==
  /\ JobTypeOK
  /\ req \in [Jobs -> {"none", "creating", "started", "rejected"}]
  /\ dump \in [Jobs -> Tools] /\ restore \in [Jobs -> Tools]
  /\ got \subseteq written /\ written \subseteq Jobs
  /\ killed \subseteq {"dump", "restore"} \X Jobs
  /\ timer \in [Jobs -> BOOLEAN]
  /\ restarts \in Nat

Init ==
  /\ JobInit
  /\ req = [m \in Jobs |-> "none"]
  /\ dump = [m \in Jobs |-> "none"] /\ restore = [m \in Jobs |-> "none"]
  /\ written = {} /\ got = {} /\ killed = {}
  /\ timer = [m \in Jobs |-> FALSE]
  /\ restarts = 0

(* With createDatabase the target database is made first. *)
RequestMigration(m) ==
  /\ req[m] = "none"
  /\ req' = [req EXCEPT ![m] = "creating"]
  /\ UNCHANGED <<jobVars, dump, restore, written, got, killed, timer, restarts>>

CreateFails(m) ==
  /\ req[m] = "creating"
  /\ req' = [req EXCEPT ![m] = "rejected"]
  /\ UNCHANGED <<jobVars, dump, restore, written, got, killed, timer, restarts>>

StartMigration(m) ==
  /\ req[m] \in {"none", "creating"}
  /\ req' = [req EXCEPT ![m] = "started"]
  /\ CreateJob(m)
  /\ \E d, r \in {"running", "enoent"} :
       dump' = [dump EXCEPT ![m] = d] /\ restore' = [restore EXCEPT ![m] = r]
  /\ timer' = [timer EXCEPT ![m] = TRUE]
  /\ UNCHANGED <<written, got, killed, restarts>>

-----------------------------------------------------------------------------
(* The tools and the pipe *)

WriteArchive(m) ==
  /\ dump[m] \in {"running", "orphan"}
  /\ written' = written \cup {m}
  /\ UNCHANGED <<jobVars, req, dump, restore, got, killed, timer, restarts>>

(* The pipe runs through this process. *)
Deliver(m) ==
  /\ m \in written /\ restore[m] = "running"
  /\ got' = got \cup {m}
  /\ UNCHANGED <<jobVars, req, dump, restore, written, killed, timer, restarts>>

(* Neither succeeds on part of the archive. *)
DumpExits(m) ==
  /\ dump[m] \in {"running", "orphan"}
  /\ \E code \in Codes :
       /\ code = "zero" => m \in written
       /\ dump' = [dump EXCEPT ![m] = IF @ = "running" THEN code ELSE "closed"]
  /\ UNCHANGED <<jobVars, req, restore, written, got, killed, timer, restarts>>

RestoreExits(m) ==
  /\ restore[m] \in {"running", "orphan"}
  /\ \E code \in Codes :
       /\ code = "zero" => m \in got
       /\ restore' = [restore EXCEPT ![m] = IF @ = "running" THEN code ELSE "closed"]
  /\ UNCHANGED <<jobVars, req, dump, written, got, killed, timer, restarts>>

(* 'error': a tool is not there. *)
DumpNotFound(m) ==
  /\ dump[m] = "enoent"
  /\ dump' = [dump EXCEPT ![m] = "nonzero"]
  /\ FinishJob(m, "failed")
  /\ UNCHANGED <<req, restore, written, got, killed, timer, restarts>>

RestoreNotFound(m) ==
  /\ restore[m] = "enoent"
  /\ restore' = [restore EXCEPT ![m] = "nonzero"]
  /\ FinishJob(m, "failed")
  /\ UNCHANGED <<req, dump, written, got, killed, timer, restarts>>

(* Fault: the end of pg_dump ends the job, whatever pg_restore still does. *)
DumpClosedEndsJob(m) ==
  /\ dump[m] \in Codes
  /\ dump' = [dump EXCEPT ![m] = "closed"]
  /\ FinishJob(m, IF dump[m] = "zero" THEN "success" ELSE "failed")
  /\ UNCHANGED <<req, restore, written, got, killed, timer, restarts>>

(* 'close' of pg_dump: a bad code fails the job and asks pg_restore to end;
   null, which is a kill, is left to pg_restore to find out. *)
DumpClosed(m) ==
  /\ dump[m] \in Codes
  /\ dump' = [dump EXCEPT ![m] = "closed"]
  /\ IF dump[m] = "nonzero" THEN FinishJob(m, "failed") ELSE UNCHANGED jobVars
  /\ UNCHANGED <<req, restore, written, got, killed, timer, restarts>>

(* 'close' of pg_restore; only then is the timer cleared. *)
RestoreClosed(m) ==
  /\ restore[m] \in Codes
  /\ restore' = [restore EXCEPT ![m] = "closed"]
  /\ timer' = [timer EXCEPT ![m] = FALSE]
  /\ FinishJob(m, CASE restore[m] = "zero" -> "success"
                    [] restore[m] = "null" -> "canceled"
                    [] OTHER               -> "failed")
  /\ UNCHANGED <<req, dump, written, got, killed, restarts>>

(* Fault: the timer kills the attached process only. *)
TimeoutSparesDump(m) ==
  /\ timer[m]
  /\ timer' = [timer EXCEPT ![m] = FALSE]
  /\ FinishJob(m, "failed")
  /\ killed' = killed \cup {<<"restore", m>>}
  /\ UNCHANGED <<req, dump, restore, written, got, restarts>>

Timeout(m) ==
  /\ timer[m]
  /\ timer' = [timer EXCEPT ![m] = FALSE]
  /\ FinishJob(m, "failed")
  /\ killed' = killed \cup {<<"dump", m>>, <<"restore", m>>}
  /\ UNCHANGED <<req, dump, restore, written, got, restarts>>

(* cancel(): SIGTERM to pg_restore. *)
Cancel(m) ==
  /\ Running(m)
  /\ FinishJob(m, "canceled")
  /\ UNCHANGED <<req, dump, restore, written, got, killed, timer, restarts>>

(* The process ends, by shutdown(), which cancels what runs, or without it, and
   starts again. *)
Restart ==
  /\ restarts < MaxRestarts /\ restarts' = restarts + 1
  /\ RestartJobs
  /\ LET Left(t) == CASE t = "running"                -> "orphan"
                      [] t \in Codes \cup {"enoent"} -> "closed"
                      [] OTHER                        -> t
     IN  /\ dump' = [m \in Jobs |-> Left(dump[m])]
         /\ restore' = [m \in Jobs |-> Left(restore[m])]
  /\ req' = [m \in Jobs |-> IF req[m] = "creating" THEN "rejected" ELSE req[m]]
  /\ timer' = [m \in Jobs |-> FALSE]
  /\ UNCHANGED <<written, got, killed>>

Events(m) == DumpClosed(m) \/ RestoreClosed(m) \/ DumpNotFound(m) \/ RestoreNotFound(m)

Next ==
  \/ \E m \in Jobs :
       \/ RequestMigration(m) \/ CreateFails(m) \/ StartMigration(m)
       \/ WriteArchive(m) \/ Deliver(m) \/ DumpExits(m) \/ RestoreExits(m)
       \/ Events(m) \/ Timeout(m) \/ Cancel(m)
  \/ Restart

(* Node reports what has happened, timers fire, and a tool that is sent
   SIGKILL exits. *)
Fairness ==
  \A m \in Jobs :
    /\ WF_vars(Events(m)) /\ WF_vars(Timeout(m))
    /\ WF_vars(<<"dump", m>> \in killed /\ DumpExits(m))
    /\ WF_vars(<<"restore", m>> \in killed /\ RestoreExits(m))

Spec == Init /\ [][Next]_vars
FairSpec == Spec /\ Fairness

-----------------------------------------------------------------------------
(* Properties *)

(* A migration is a success when the target has been given all of a dump that
   was written to its end, never because one of the two tools ended well; and
   until the job has an end, one of the exits that will decide is still to come
   (backup.service.ts:217-239). *)
SuccessIsWhole ==
  \A m \in Jobs :
    /\ row[m] = "success" => m \in got /\ restore[m] = "closed"
    /\ Running(m) => timer[m] /\ restore[m] \in Codes \cup {"running", "enoent"}

(* Both tools are under the timer until they are killed, but for a pg_dump
   whose pg_restore has closed (backup.service.ts:214-215, 378-388). *)
ToolsAreTimed ==
  \A m \in Jobs :
    /\ restore[m] = "running" => timer[m] \/ <<"restore", m>> \in killed
    /\ dump[m] = "running" =>
         timer[m] \/ <<"dump", m>> \in killed \/ restore[m] = "closed"

(* A migration succeeds on a whole dump only, its job is always on the way to an
   end, and its tools are under the timer, but for a pg_dump whose pg_restore
   has closed (backup.service.ts:217-239, 378-388). *)
MigrationIsSound == SuccessIsWhole /\ ToolsAreTimed

(* What this rests on: a job is open in the table while it is in memory, and no
   pg_restore ends well on a part of the dump. *)
ExitsFollowPipe ==
  \A m \in Jobs : /\ Running(m) => row[m] = "running"
                  /\ restore[m] = "zero" => m \in got

IInv == TypeOK /\ ExitsFollowPipe /\ MigrationIsSound

(* "A hung dump/restore must never survive forever" (backup.service.ts:375). *)
HungToolsEnd ==
  \A m \in Jobs : /\ dump[m] = "running" ~> dump[m] # "running"
                  /\ restore[m] = "running" ~> restore[m] # "running"
=============================================================================

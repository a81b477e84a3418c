-------------------------- MODULE MCBackupService --------------------------
(***************************************************************************)
(* Instances of BackupService and of Access for TLC: the service, and the  *)
(* way of a request to any service.  They share no state; a behaviour is   *)
(* about one of them.                                                      *)
(***************************************************************************)
EXTENDS BackupService, TLC

CONSTANTS Users, Root, Callers, Turning, MaxEvents, MaxChanges

VARIABLES about, role, token, lately, readOnly, asks, changes, events

A == INSTANCE Access WITH Requests <- Callers, req <- asks

accessVars == <<role, token, lately, readOnly, asks, changes, events>>

ServedInit ==
  /\ about \in {"backups", "requests"}
  /\ Init
  /\ A!Init
  /\ about # "requests" => role = [u \in Users |-> "admin"] /\ ~readOnly

ServedNext ==
  /\ \/ about = "backups" /\ Next /\ UNCHANGED accessVars
     \/ about = "requests" /\ A!Next /\ UNCHANGED vars
  /\ UNCHANGED about

ServedSpec == ServedInit /\ [][ServedNext]_<<about, vars, accessVars>> /\ Fairness

(* What happens is within a role that its caller has had since the token was
   issued; nothing is written through a connection that was read-only when the
   handler began, but by the restore of a whole server and by dropping the database
   of an inspection; and the log agrees with what was done (plugins/auth.ts:38-62, connections.service.ts:168, audit.service.ts:52). *)
RequestsAreSound == A!RequestsAreSound
=============================================================================

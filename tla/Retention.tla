------------------------------ MODULE Retention ------------------------------
(***************************************************************************)
(* One backup schedule: modules/backup/scheduler.ts, and in                *)
(* backup.service.ts what the end of a scheduled backup sets going, the    *)
(* pruning of older backups and the automatic delivery of the new one.     *)
(*                                                                         *)
(* The dumps themselves are BackupService; here one runs and then succeeds *)
(* or fails.  Backups are numbered in the order of created_at.  Every step *)
(* is the code between two awaits.                                         *)
(***************************************************************************)
EXTENDS Naturals, FiniteSets, FiniteSetsExt

CONSTANTS
  MaxBackups,   \* bound: backups of the schedule
  Retentions,   \* values an editor may give to `retention'
  KeptFailed,   \* records of failures that are kept, 10 in the code
  MaxEdits,     \* bound: edits and deletions of the schedule
  MaxDeletes,   \* bound: backups deleted by an operator
  MaxBoots      \* bound: process starts

VARIABLES
  server,     \* "up" or "down"
  schedule,   \* the row: "enabled", "disabled" or "deleted"
  retention,  \* its column retention
  waiting,    \* createBackup() calls waiting for mkdir
  created,    \* backups created so far
  rec,        \* status of each row of the backups table
  file,       \* file of each backup: "none", "whole" or "gone"
  handler,    \* where the close handler of each backup is, see Handlers
  todo,       \* the backups its prune has yet to delete
  sent,       \* what the delivery hook came to
  remover,    \* where an operator's deleteBackup(b) is
  edits, boots,   \* counters behind the bounds
  succeeded,  \* auxiliary: backups that ever were recorded as a success
  manual,     \* auxiliary: backups operators deleted
  lowest,     \* auxiliary: the lowest retention so far
  lastPrune   \* auxiliary: handler of the last prune to start, and what it read

settings == <<schedule, retention, edits, lowest>>
storage  == <<created, rec, file>>
handlers == <<handler, todo, sent>>
deletes  == <<remover, manual>>
ghosts   == <<succeeded, lastPrune>>
vars     == <<server, settings, waiting, storage, handlers, deletes, boots, ghosts>>

Backups == 1 .. MaxBackups

(* A close handler: the dump has not ended; the prune waits for
   closeInspection() of the next backup, or for its unlink; the hook is next;
   it waits for stat; done; gone with its process. *)
Handlers == {"none", "closing", "unlinking", "hook", "stat", "done", "lost"}

Statuses == {"none", "running", "success", "failed", "deleted"}

Successes == {b \in Backups : rec[b] = "success"}
Failures  == {b \in Backups : rec[b] = "failed"}
Listed(b) == rec[b] \notin {"none", "deleted"}

TypeOK ==
  /\ server \in {"up", "down"}
  /\ schedule \in {"enabled", "disabled", "deleted"}
  /\ retention \in Retentions /\ lowest \in Retentions
  /\ created \in 0 .. MaxBackups /\ waiting \in 0 .. MaxBackups - created
  /\ rec \in [Backups -> Statuses]
  /\ file \in [Backups -> {"none", "whole", "gone"}]
  /\ handler \in [Backups -> Handlers]
  /\ todo \in [Backups -> SUBSET Backups]
  /\ sent \in [Backups -> {"none", "sent", "refused"}]
  /\ remover \in [Backups -> {"none", "closing", "unlinking"}]
  /\ edits \in Nat /\ boots \in Nat
  /\ succeeded \subseteq Backups /\ manual \subseteq Backups
  /\ lastPrune \in [by : 0 .. MaxBackups, read : Nat]

Init ==
  /\ server = "up" /\ boots = 1
  /\ schedule = "enabled" /\ edits = 0
  /\ retention \in Retentions /\ lowest = retention
  /\ waiting = 0 /\ created = 0
  /\ rec = [b \in Backups |-> "none"] /\ file = [b \in Backups |-> "none"]
  /\ handler = [b \in Backups |-> "none"] /\ todo = [b \in Backups |-> {}]
  /\ sent = [b \in Backups |-> "none"] /\ remover = [b \in Backups |-> "none"]
  /\ succeeded = {} /\ manual = {}
  /\ lastPrune = [by |-> 0, read |-> 0]

-----------------------------------------------------------------------------
(* The scheduler *)

(* trigger(), by the cron or by "run now", up to `await mkdir'.  It reads the
   row again, so that a cron armed for an earlier state of the row does no
   harm: which crons are armed is left out, the clock may be anywhere. *)
Trigger ==
  /\ server = "up"
  /\ schedule = "enabled"
  /\ waiting < MaxBackups - created
  /\ waiting' = waiting + 1
  /\ UNCHANGED <<server, settings, storage, handlers, deletes, boots, ghosts>>

(* createBackup() goes on: the row, and the dump. *)
StartBackup ==
  /\ server = "up" /\ waiting > 0
  /\ waiting' = waiting - 1
  /\ created' = created + 1
  /\ rec' = [rec EXCEPT ![created + 1] = "running"]
  /\ UNCHANGED <<server, settings, file, handlers, deletes, boots, ghosts>>

(* PUT: the row is written (and the cron armed again). *)
UpdateSchedule ==
  /\ server = "up" /\ schedule # "deleted" /\ edits < MaxEdits
  /\ edits' = edits + 1
  /\ schedule' \in {"enabled", "disabled"}
  /\ retention' \in Retentions
  /\ lowest' = IF retention' < lowest THEN retention' ELSE lowest
  /\ UNCHANGED <<server, waiting, storage, handlers, deletes, boots, ghosts>>

(* DELETE of the schedule, or of its connection. *)
DeleteSchedule ==
  /\ server = "up" /\ schedule # "deleted" /\ edits < MaxEdits
  /\ edits' = edits + 1
  /\ schedule' = "deleted"
  /\ UNCHANGED <<server, retention, lowest, waiting, storage, handlers, deletes,
                 boots, ghosts>>

-----------------------------------------------------------------------------
(* The close handler of a scheduled backup *)

(* Fault: one backup too many is pruned. *)
ExcessOffByOne(set, kept) ==
  {b \in set : Cardinality({c \in set : c > b}) + 1 >= kept}

(* Fault: the newest are pruned. *)
ExcessNewest(set, kept) ==
  {b \in set : Cardinality({c \in set : c < b}) >= kept}

(* Fault: one backup too few is pruned. *)
ExcessTooFew(set, kept) ==
  {b \in set : Cardinality({c \in set : c > b}) > kept}

(* The rows that are in excess: all but the `kept' newest of the set. *)
Excess(set, kept) == {b \in set : Cardinality({c \in set : c > b}) >= kept}

(* What follows the loop of a prune: old failures lose their rows. *)
DropFailures(r) ==
  [b \in Backups |-> IF b \in Excess({c \in Backups : r[c] = "failed"}, KeptFailed)
                       THEN "deleted" ELSE r[b]]

(* The loop of pruneSchedule(): on to the next backup of the list, which
   byId() must find. *)
ContinuePrune(b, list, r) ==
  /\ todo' = [todo EXCEPT ![b] = list]
  /\ IF list = {}
       THEN /\ rec' = DropFailures(r)
            /\ handler' = [handler EXCEPT ![b] = "hook"]
       ELSE /\ rec' = r
            /\ handler' = [handler EXCEPT ![b] = "closing"]

(* Code 0: the row ends, and the prune begins with the list of this moment. *)
RecordSuccess(b) ==
  /\ server = "up" /\ handler[b] = "none" /\ rec[b] \in {"running", "deleted"}
  /\ file' \in {[file EXCEPT ![b] = f] :
                  f \in IF file[b] = "gone" THEN {"gone", "whole"} ELSE {"whole"}}
  /\ LET found == rec[b] = "running"
         r     == IF found THEN [rec EXCEPT ![b] = "success"] ELSE rec
         list  == Excess({c \in Backups : r[c] = "success"}, retention)
     IN  /\ succeeded' = IF found THEN succeeded \cup {b} ELSE succeeded
         /\ IF schedule = "deleted"
              THEN /\ rec' = r
                   /\ handler' = [handler EXCEPT ![b] = "hook"]
                   /\ UNCHANGED <<todo, lastPrune>>
              ELSE /\ ContinuePrune(b, list, r)
                   /\ lastPrune' = [by |-> b, read |-> retention]
  /\ UNCHANGED <<server, settings, waiting, created, sent, deletes, boots>>

(* Any other code: the row ends as failed (or canceled, which the prune treats
   alike), and the file goes; nothing is pruned. *)
RecordFailure(b) ==
  /\ server = "up" /\ handler[b] = "none" /\ rec[b] \in {"running", "deleted"}
  /\ rec' = IF Listed(b) THEN [rec EXCEPT ![b] = "failed"] ELSE rec
  /\ file' = [file EXCEPT ![b] = "gone"]
  /\ handler' = [handler EXCEPT ![b] = "done"]
  /\ UNCHANGED <<server, settings, waiting, created, todo, sent, deletes, boots, ghosts>>

(* deleteBackup() of the oldest backup of the list: the file... *)
PruneFile(b) ==
  /\ server = "up" /\ handler[b] = "closing"
  /\ file' = [file EXCEPT ![Min(todo[b])] = "gone"]
  /\ handler' = [handler EXCEPT ![b] = "unlinking"]
  /\ UNCHANGED <<server, settings, waiting, created, rec, todo, sent, deletes, boots,
                 ghosts>>

(* ...and the row, as long as byId() finds the next one. *)
PruneRecord(b) ==
  /\ server = "up" /\ handler[b] = "unlinking"
  /\ LET rest == todo[b] \ {Min(todo[b])}
     IN  /\ rest # {} => Listed(Min(rest))
         /\ ContinuePrune(b, rest, [rec EXCEPT ![Min(todo[b])] = "deleted"])
  /\ UNCHANGED <<server, settings, waiting, created, file, sent, deletes, boots, ghosts>>

(* Fault: the hook does nothing for a schedule that was deleted meanwhile. *)
HookAsksSchedule(b) ==
  /\ server = "up" /\ handler[b] = "hook"
  /\ IF schedule # "deleted" /\ rec[b] = "success"
       THEN handler' = [handler EXCEPT ![b] = "stat"] /\ UNCHANGED sent
       ELSE /\ handler' = [handler EXCEPT ![b] = "done"]
            /\ sent' = [sent EXCEPT ![b] = IF schedule = "deleted" THEN sent[b] ELSE "refused"]
  /\ UNCHANGED <<server, settings, waiting, storage, todo, deletes, boots, ghosts>>

(* autoDeliveryHook(): sendBackup() up to `await stat'. *)
Hook(b) ==
  /\ server = "up" /\ handler[b] = "hook"
  /\ IF rec[b] = "success"
       THEN handler' = [handler EXCEPT ![b] = "stat"] /\ UNCHANGED sent
       ELSE /\ handler' = [handler EXCEPT ![b] = "done"]
            /\ sent' = [sent EXCEPT ![b] = "refused"]
  /\ UNCHANGED <<server, settings, waiting, storage, todo, deletes, boots, ghosts>>

Deliver(b) ==
  /\ server = "up" /\ handler[b] = "stat"
  /\ handler' = [handler EXCEPT ![b] = "done"]
  /\ sent' = [sent EXCEPT ![b] = IF file[b] = "whole" THEN "sent" ELSE "refused"]
  /\ UNCHANGED <<server, settings, waiting, storage, todo, deletes, boots, ghosts>>

-----------------------------------------------------------------------------
(* deleteBackup() by an operator *)

RequestDelete(b) ==
  /\ server = "up" /\ Listed(b) /\ remover[b] = "none"
  /\ b \in manual \/ Cardinality(manual) < MaxDeletes
  /\ remover' = [remover EXCEPT ![b] = "closing"]
  /\ manual' = manual \cup {b}
  /\ UNCHANGED <<server, settings, waiting, storage, handlers, boots, ghosts>>

DeleteFile(b) ==
  /\ server = "up" /\ remover[b] = "closing"
  /\ file' = [file EXCEPT ![b] = "gone"]
  /\ remover' = [remover EXCEPT ![b] = "unlinking"]
  /\ UNCHANGED <<server, settings, waiting, created, rec, handlers, manual, boots, ghosts>>

DeleteRecord(b) ==
  /\ server = "up" /\ remover[b] = "unlinking"
  /\ rec' = [rec EXCEPT ![b] = "deleted"]
  /\ remover' = [remover EXCEPT ![b] = "none"]
  /\ UNCHANGED <<server, settings, waiting, created, file, handlers, manual, boots, ghosts>>

-----------------------------------------------------------------------------
(* The process *)

Die ==
  /\ server' = "down"
  /\ waiting' = 0
  /\ handler' = [b \in Backups |->
                   IF handler[b] = "done" \/ rec[b] = "none" THEN handler[b] ELSE "lost"]
  /\ todo' = [b \in Backups |-> {}]
  /\ remover' = [b \in Backups |-> "none"]
  /\ UNCHANGED <<schedule, retention, edits, lowest, created, file, sent, manual,
                 boots, ghosts>>

Crash == server = "up" /\ Die /\ UNCHANGED rec

(* byId() throws for a backup that was deleted meanwhile.  Nothing catches it
   in the close handler: an unhandled rejection ends the process. *)
PruneThrows(b) ==
  /\ server = "up" /\ handler[b] = "unlinking"
  /\ LET rest == todo[b] \ {Min(todo[b])}
     IN  rest # {} /\ ~Listed(Min(rest))
  /\ rec' = [rec EXCEPT ![Min(todo[b])] = "deleted"]
  /\ Die

(* start() arms the crons again; rows left running stay so. *)
Boot ==
  /\ server = "down" /\ boots < MaxBoots
  /\ server' = "up"
  /\ boots' = boots + 1
  /\ UNCHANGED <<schedule, retention, edits, lowest, waiting, storage, handlers,
                 deletes, ghosts>>

-----------------------------------------------------------------------------
Handler(b) ==
  \/ PruneFile(b) \/ PruneRecord(b) \/ PruneThrows(b)
  \/ Hook(b) \/ Deliver(b)

Next ==
  \/ Trigger \/ StartBackup \/ UpdateSchedule \/ DeleteSchedule
  \/ \E b \in Backups :
       \/ RecordSuccess(b) \/ RecordFailure(b)
       \/ Handler(b)
       \/ RequestDelete(b) \/ DeleteFile(b) \/ DeleteRecord(b)
  \/ Crash \/ Boot

Spec == Init /\ [][Next]_vars

(* Awaits return while the server lives. *)
Fairness == \A b \in Backups : WF_vars(Handler(b))

FairSpec == Spec /\ Fairness

-----------------------------------------------------------------------------
(* Properties *)

(* The backups nothing may prune: the newest that ever succeeded, as many as
   the lowest retention an editor ever asked for. *)
Newest == {b \in succeeded : Cardinality({c \in succeeded : c > b}) < lowest}

(* Unless an operator deletes something, the newest backups are there, row and
   file, however many prunes work at the same time from lists they read
   earlier, and whatever becomes of the schedule (backup.service.ts:326-330). *)
NewestSurvive ==
  manual = {} => \A b \in Newest : rec[b] = "success" /\ file[b] = "whole"

(* ...and once their handlers are done they have been delivered
   (delivery.service.ts:508). *)
NewestDelivered ==
  manual = {} => \A b \in Newest : handler[b] = "done" => sent[b] = "sent"

(* Neither prunes nor deliveries lose one of the newest backups. *)
NewestKept == NewestSurvive /\ NewestDelivered

(* How handlers, rows and files go together. *)
HandlersFollowRows ==
  /\ lowest <= retention
  /\ \A b \in Backups :
       /\ b > created => rec[b] = "none"
       /\ rec[b] = "none" => b > created /\ handler[b] = "none"
       /\ todo[b] # {} <=> handler[b] \in {"closing", "unlinking"}
       /\ rec[b] = "success" => b \in succeeded
       /\ rec[b] = "failed" => handler[b] # "none"
       /\ b \in succeeded => rec[b] \in {"success", "deleted"} /\ handler[b] # "none"
       /\ handler[b] \in {"closing", "unlinking", "hook", "stat"} /\ manual = {} => b \in succeeded
       /\ remover[b] # "none" => b \in manual /\ rec[b] # "none"
       /\ manual = {} =>
            /\ rec[b] \in {"none", "running"} => file[b] = "none"
            /\ rec[b] = "deleted" => handler[b] # "none"

(* The reason for it: what a prune has yet to delete succeeded, and as many
   newer backups as anyone ever asked to keep succeeded before the prune read
   its list. *)
PrunesSpareNewest == \A b \in Backups : todo[b] \subseteq succeeded \ Newest

(* The strengthening of NewestSurvive and NewestDelivered that every step
   preserves. *)
IInv ==
  /\ TypeOK
  /\ HandlersFollowRows /\ PrunesSpareNewest
  /\ NewestSurvive /\ NewestDelivered

(* Once the prune that started last has come to its end, no more backups are
   left than the retention it read allows, although other prunes and operators
   deleted some of those it meant to delete (backup.service.ts:327-330). *)
RetentionReached ==
  /\ lastPrune.by > 0 /\ handler[lastPrune.by] \in {"hook", "stat", "done"}
  /\ schedule # "deleted"
  => Cardinality(Successes) <= lastPrune.read

(* A scheduled backup that ends well is offered for delivery, after any prune,
   if the server lives (backup.service.ts:120-123). *)
OfferedForDelivery ==
  \A b \in Backups :
    (handler[b] \in {"closing", "hook"}) ~> (sent[b] # "none" \/ server = "down")
=============================================================================

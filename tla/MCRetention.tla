----------------------------- MODULE MCRetention -----------------------------
(***************************************************************************)
(* An instance of Retention for TLC, under a name, so that its theorems    *)
(* can stand beside those of what else is made of a backup.                *)
(***************************************************************************)
EXTENDS Naturals

CONSTANTS MaxBackups, Retentions, KeptFailed, MaxEdits, MaxDeletes, MaxBoots

(* A schedule keeps at least one backup (backups.routes.ts). *)
ASSUME ScheduleAssumption ==
  /\ MaxBackups \in Nat /\ KeptFailed \in Nat
  /\ Retentions # {} /\ Retentions \subseteq Nat \ {0}

VARIABLES server, schedule, retention, waiting, created, rec, file, handler, todo, sent,
          remover, edits, boots, succeeded, manual, lowest, lastPrune

R == INSTANCE Retention

RetentionSpec == R!FairSpec

(* Neither prunes nor deliveries lose one of the newest backups, as many as the
   lowest retention anyone asked for (backup.service.ts:326-330,
   delivery.service.ts:508). *)
NewestKept == R!NewestKept

(* Once the prune that started last is through, no more backups are left than the
   retention it read allows (backup.service.ts:327-330). *)
RetentionReached == R!RetentionReached

(* A scheduled backup that ends well is offered for delivery, after any prune, if the
   server lives (backup.service.ts:120-123). *)
OfferedForDelivery == R!OfferedForDelivery
=============================================================================

---------------------------- MODULE MCMetadataHome ----------------------------
(***************************************************************************)
(* Instances of MetadataHome and of Delivery for TLC: what is configured   *)
(* in .env files and what in saved settings.  They share no state; a       *)
(* behaviour is about one of them, and the other stays as it is.           *)
(***************************************************************************)
EXTENDS MetadataHome, TLC

CONSTANTS Deliveries, Chats, EnvSecret, Longest, MaxRestarts

VARIABLES about,
          live, jobRow, listed, onDisk, stored, host, chatId,
          list, at, step, left, sent, failed, got, given, dSaves, restarts

D == INSTANCE Delivery WITH Jobs <- Deliveries, row <- jobRow, saves <- dSaves

homeVars     == <<disk, rows, env, process, written, aux>>
deliveryVars == <<live, jobRow, listed, onDisk, stored, host, chatId,
                  list, at, step, left, sent, failed, got, given, dSaves, restarts>>

ConfiguredInit ==
  /\ about \in {"home", "delivery"}
  /\ Init /\ (about # "home" => held = {} /\ env = [f \in Files |-> None])
  /\ D!Init

ConfiguredNext ==
  /\ \/ about = "home" /\ Next /\ UNCHANGED deliveryVars
     \/ about = "delivery" /\ D!Next /\ UNCHANGED homeVars
  /\ UNCHANGED about

ConfiguredSpec == ConfiguredInit /\ [][ConfiguredNext]_<<about, homeVars, deliveryVars>>

(* A delivery is a success only if the backup has arrived by every channel, and
   the secrets it is sent with are those typed last, whatever else was saved
   since (delivery.service.ts:126, 185-217, 476-508). *)
DeliveriesAreSound == D!DeliveriesAreSound

Interchangeable == Permutations(Writes) \cup Permutations(Targets)
=============================================================================

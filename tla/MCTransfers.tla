---------------------------- MODULE MCTransfers ----------------------------
(***************************************************************************)
(* Instances of Inspections and of Migration for TLC.  The two share no    *)
(* state but the registry of jobs, where each has its own jobs; so a       *)
(* behaviour is about one of them.                                         *)
(***************************************************************************)
EXTENDS Inspections, TLC

CONSTANT Migrations

VARIABLES about, mLive, mRow, req, dump, restore, written, got, killed, timer, mRestarts

M == INSTANCE Migration WITH Jobs <- Migrations, live <- mLive, row <- mRow,
                             restarts <- mRestarts

migrationVars == <<mLive, mRow, req, dump, restore, written, got, killed, timer, mRestarts>>

TransfersInit == about \in {"inspections", "migrations"} /\ Init /\ M!Init

TransfersNext ==
  /\ \/ about = "inspections" /\ Next /\ UNCHANGED migrationVars
     \/ about = "migrations" /\ M!Next /\ UNCHANGED vars
  /\ UNCHANGED about

TransfersSpec == TransfersInit /\ [][TransfersNext]_<<about, vars, migrationVars>>

(* A migration succeeds on a whole dump only, its job is always on the way to an
   end, and its tools are under the timer, but for a pg_dump whose pg_restore
   has closed (backup.service.ts:217-239, 378-388). *)
MigrationIsSound == M!MigrationIsSound

Interchangeable == Permutations(Starts)
=============================================================================

---------------------------- MODULE MCMigration ----------------------------
(* An instance of Migration for TLC. *)
EXTENDS Migration

CONSTANT m1
=============================================================================

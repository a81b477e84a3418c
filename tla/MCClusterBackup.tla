-------------------------- MODULE MCClusterBackup --------------------------
(***************************************************************************)
(* Instances of ClusterBackup and of Codecs for TLC: bundles, and the      *)
(* formats of what is stored, exported and split.  They share no state; a  *)
(* behaviour is about one of them.                                         *)
(***************************************************************************)
EXTENDS ClusterBackup

VARIABLES about, kind, text

C == INSTANCE Codecs WITH Block <- 6, Width <- 3, Base <- 2

PackedInit ==
  /\ about \in {"bundles", "texts"}
  /\ Init
  /\ C!Init /\ (about # "texts" => kind = "cron")

PackedNext ==
  /\ \/ about = "bundles" /\ Next /\ UNCHANGED <<kind, text>>
     \/ about = "texts" /\ C!Next /\ UNCHANGED vars
  /\ UNCHANGED about

PackedSpec == PackedInit /\ [][PackedNext]_<<about, vars, kind, text>> /\ Fairness

(* A script is cut into statements where PostgreSQL ends them, and a statement is
   judged by its first word, for every nesting of strings, comments and dollar
   quotes (sql-split.ts:24-99). *)
SplitsLikePostgres == C!SplitsLikePostgres

(* Rows, bundles and settings that are written and read again are what they were
   (csv.ts:23, tar.ts:43, 119, env-file.ts:57, 105, dsn.ts:12, filters.ts:28,
   cron-builder.ts:70). *)
FormatsComeBack == C!FormatsComeBack
=============================================================================

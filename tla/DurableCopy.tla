---------------------------- MODULE DurableCopy ----------------------------
(***************************************************************************)
(* What replication of the metadata store promises, with no trace of       *)
(* timers, promises or files.  The platform has a content (the writes its  *)
(* users and jobs have made) and a durable copy of it.  The copy holds     *)
(* nothing the platform does not, it only moves forward, and a restart     *)
(* brings back at least the copy.  The promise is suspended, until the     *)
(* next restart, when uploads stop being serialized ("disorder").          *)
(***************************************************************************)
CONSTANT Writes

VARIABLES store,     \* the writes the platform holds, or would boot with
          copy,      \* the writes in the durable copy
          orderly    \* uploads have been serialized since the last boot

vars == <<store, copy, orderly>>

Init == store = {} /\ copy = {} /\ orderly = TRUE

(* A write of the platform, replication not involved. *)
Change ==
  /\ store' \in SUBSET Writes
  /\ store \subseteq store'
  /\ UNCHANGED <<copy, orderly>>

(* A copy of the store lands; an older one only after a disorder. *)
Publish ==
  /\ copy' \in SUBSET store
  /\ orderly => copy \subseteq copy'
  /\ UNCHANGED <<store, orderly>>

(* The process dies: what is not in the copy may be lost, the rest is not. *)
Lose ==
  /\ copy' \in SUBSET store
  /\ orderly => copy \subseteq copy'
  /\ store' \in SUBSET store
  /\ copy' \subseteq store'
  /\ orderly' = TRUE

Disorder == orderly' = FALSE /\ UNCHANGED <<store, copy>>

Next == Change \/ Publish \/ Lose \/ Disorder

Spec == Init /\ [][Next]_vars
=============================================================================

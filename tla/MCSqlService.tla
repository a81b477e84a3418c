----------------------------- MODULE MCSqlService -----------------------------
(* Instances of SqlService for TLC. *)
EXTENDS SqlService, TLC

(* Requests and backends are interchangeable, where no liveness is checked. *)
Interchangeable == Permutations(Requests) \cup Permutations(Backends)
=============================================================================

------------------------------ MODULE MCDataGrid ------------------------------
(* An instance of DataGrid for TLC. *)
EXTENDS DataGrid, TLC

(* Requests are interchangeable. *)
Interchangeable == Permutations(Calls)
=============================================================================

--------------------------- MODULE MCMetadataSync ---------------------------
(* Instances of MetadataSync for TLC. *)
EXTENDS MetadataSync
=============================================================================

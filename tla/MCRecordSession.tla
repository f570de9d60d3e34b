-------------------------- MODULE MCRecordSession --------------------------
(* Instances of RecordSession for TLC. *)
EXTENDS RecordSession
=============================================================================

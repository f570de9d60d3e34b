--------------------------- MODULE MCRecordStore ---------------------------
(* Instances of RecordStore for TLC.                                       *)
EXTENDS RecordStore
=============================================================================

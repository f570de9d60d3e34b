--------------------------- MODULE MCDBThreadPool ---------------------------
(* Instances of DBThreadPool for TLC. *)
EXTENDS DBThreadPool
=============================================================================

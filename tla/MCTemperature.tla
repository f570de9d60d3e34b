--------------------------- MODULE MCTemperature ---------------------------
(* Instances of Temperature for TLC. *)
EXTENDS Temperature

MCReadings == {-1400, 400, 20700}
=============================================================================

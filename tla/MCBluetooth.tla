---------------------------- MODULE MCBluetooth ----------------------------
(* Instances of Bluetooth for TLC. *)
EXTENDS Bluetooth
=============================================================================

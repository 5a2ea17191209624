-------------------------- MODULE MCServerDevice ---------------------------
(* Instances of ServerDevice for TLC. *)
EXTENDS ServerDevice
=============================================================================

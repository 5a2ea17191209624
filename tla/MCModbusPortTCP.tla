-------------------------- MODULE MCModbusPortTCP ---------------------------
(* Instances of ModbusPortTCP for TLC. *)
EXTENDS ModbusPortTCP

CONSTANTS c1, c2, small
=============================================================================

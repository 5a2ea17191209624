------------------------ MODULE MCModbusPortSerial -------------------------
(* Instances of ModbusPortSerial for TLC. *)
EXTENDS ModbusPortSerial

CONSTANTS c1, c2, q1
=============================================================================

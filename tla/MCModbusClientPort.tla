------------------------ MODULE MCModbusClientPort --------------------------
(* Instances of ModbusClientPort for TLC. *)
EXTENDS ModbusClientPort, TLC

CONSTANTS c1, c2, c3, small, large, huge

\* The clients of a port are interchangeable for the safety properties.
Symmetry == Permutations(Clients)
=============================================================================

-------------------------- MODULE MCServerRuntime ---------------------------
(* Instances of ServerRuntime for TLC. *)
EXTENDS ServerRuntime, TLC

CONSTANTS s1, k1, k2, d1, slow, other

\* A unit of a device with a delay, and one of somebody else.
UnitMap == slow :> d1 @@ other :> NoDevice
Delays == d1 :> 1

R(u, o, v) == [unit |-> u, op |-> o, value |-> v]
SerialAsks == {R(slow, "write", 1), R(other, "excess", 0), R(slow, "garbled", 0), R(other, "read", 0)}
TcpAsks == {R(slow, "read", 0)}
Asked == SerialAsks \union TcpAsks
AskedOn == s1 :> SerialAsks @@ k1 :> TcpAsks @@ k2 :> TcpAsks
=============================================================================

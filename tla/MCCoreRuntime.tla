--------------------------- MODULE MCCoreRuntime ----------------------------
(* Instances of CoreRuntime for TLC. *)
EXTENDS CoreRuntime

CONSTANTS task, p1, p2, p3, A, B
=============================================================================

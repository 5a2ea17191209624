-------------------------- MODULE MCClientPolling ---------------------------
(* An instance of ClientPolling for TLC. *)
EXTENDS ClientPolling

CONSTANTS a, b

\* Two devices, the second without items in any data view.
TwoAndNone == <<<<a, b>>, <<>>>>
=============================================================================

----------------------- MODULE MCClientPollingTurns -------------------------
(* An instance of ClientPollingTurns for TLC. *)
EXTENDS ClientPollingTurns

CONSTANTS a, b

\* Three devices: one with two groups of items, two without items.
OneBusy == <<<<a, b>>, <<>>, <<>>>>
=============================================================================

--------------------------- MODULE MCClientMessages ---------------------------
(* Data view items for TLC.                                                *)
EXTENDS ClientMessages

Item(offset, count, period) == [offset |-> offset, count |-> count, period |-> period]

\* Neighbours, an overlap, a long item and two periods; two neighbours are edited.
Neighbours == {Item(0, 1, 1), Item(1, 1, 1), Item(1, 2, 1), Item(2, 1, 2)}
Short == {Item(0, 1, 1), Item(1, 1, 1)}

\* The theorems of ClientMessages_proofs speak of these items.
ASSUME HypothesesHold ==
    FitsBuffer /\ BelowTop /\ NoneReachesOver /\ EditsApart /\ EditsAdjoin
=============================================================================

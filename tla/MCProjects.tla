----------------------------- MODULE MCProjects -----------------------------
(* Small projects for TLC.                                                 *)
EXTENDS Projects

SomeUnits == {{1}, {1, 2}}
AllUnits == 0..2
Bounds(c, s) == [client |-> c, server |-> s]
ViewsOfEach == Bounds(1, 0)
RowsOfEach == Bounds(2, 1)

\* A command may ask for any name: together they may give any that is free, and
\* which of them FreeName chooses is never seen of ports and devices.
Symmetry == Permutations(PortNames) \union Permutations(DeviceNames)
            \union Permutations(Devices)
=============================================================================

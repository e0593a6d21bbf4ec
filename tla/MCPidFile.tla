------------------------------ MODULE MCPidFile ------------------------------
(* Three instances start on one path, with a file to spare. *)
EXTENDS PidFile, TLC

CONSTANTS p1, p2, p3, i1, i2, i3, i4

MCProcs == {p1, p2, p3}
MCInodes == {i1, i2, i3, i4}
Symmetry == Permutations(MCProcs) \union Permutations(MCInodes)
=============================================================================

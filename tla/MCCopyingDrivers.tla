------------------------- MODULE MCCopyingDrivers -------------------------
(* CopyingDrivers on a server with two clients and two tables, neither of   *)
(* which the code tells from the other.                                     *)
EXTENDS CopyingDrivers
CONSTANTS hook, cli, t1, t2

MCClient == {hook, cli}
MCTable  == {t1, t2}
Symmetry == Permutations(MCClient) \cup Permutations(MCTable)
=============================================================================

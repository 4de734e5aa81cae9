---------------------------- MODULE MCConsoleReads ----------------------------
(* Model-checking definitions for LakebasePublish and ConsoleReads. *)
EXTENDS ConsoleReads, TLC

CONSTANTS rows, pointer

MCOrder == <<rows, pointer>>
Symmetry == Permutations(Requests) \cup Permutations(Connections) \cup Permutations(Snapshots)
=============================================================================

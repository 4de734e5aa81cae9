--------------------------- MODULE MCUsecasePlanner ---------------------------
(* Model-checking definitions for UsecasePlanner and WorkspaceKG. *)
EXTENDS UsecasePlanner, TLC

\* Of the snapshots, those that are anchored are alike.
Symmetry == Permutations(Tables) \cup Permutations(Requests) \cup Permutations(Anchored)
=============================================================================

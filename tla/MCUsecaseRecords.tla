--------------------------- MODULE MCUsecaseRecords ---------------------------
(* Model-checking definitions for UsecaseRecords. *)
EXTENDS UsecaseRecords, TLC

\* A change of strategy, one row of everything else.
SmallTables == [t \in Tables |-> IF t = "strategy" THEN 2 ELSE 1]

\* A second plan after the first.
SecondPlan == [t \in Tables |-> IF t = "plan" THEN 2 ELSE 1]

Symmetry == Permutations(Workers)
=============================================================================

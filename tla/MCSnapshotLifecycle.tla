------------------------- MODULE MCSnapshotLifecycle -------------------------
(* Model-checking definitions for SnapshotLifecycle. *)
EXTENDS SnapshotLifecycle, TLC

\* The ledger as the sweep's SELECT needs it: the declared columns and run_id.
ColumnsWithRunId == DeclaredColumns \cup {"run_id"}

\* Retries only where a retry finds the work of the attempt before it.
OnlyPromoteRetries ==
    [t \in DOMAIN DeployedRetries |-> IF t = "promote" THEN 1 ELSE 0]

Symmetry == Permutations(Snapshots) \cup Permutations(Operators)
=============================================================================

--------------------------- MODULE MCMigrationRuns ---------------------------
(* Model-checking definitions for MigrationRuns. *)
EXTENDS MigrationRuns, TLC

CONSTANTS r1, r2

MCRuns == {r1, r2}
MCWorkflow == r1 :> "assessment" @@ r2 :> "sql_transpile"

\* Everything is there, or Lakebridge is not installed.
MCFound ==
    {[installed |-> [cli |-> TRUE, listed |-> TRUE, answers |-> there, package |-> FALSE,
                     job |-> TRUE, namesRun |-> TRUE,
                     assesses |-> IF there THEN "this system" ELSE "no resources"],
      bound |-> [sql |-> FALSE, source |-> "folder", output |-> "none",
                 technology |-> "teradata", configured |-> FALSE,
                 workspaceFolder |-> TRUE, credentials |-> TRUE]] : there \in BOOLEAN}
=============================================================================

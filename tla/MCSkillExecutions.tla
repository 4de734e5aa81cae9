--------------------------- MODULE MCSkillExecutions ---------------------------
(* Model-checking definitions for SkillExecutions. *)
EXTENDS SkillExecutions, TLC

Symmetry == Permutations(Executions) \cup Permutations(Callers)

\* accepted, customer_id, monthly_spend, notes, order_date, returned_ts: the last
\* is a string, yet its name says time.
MCTags == <<{"response"}, {"key", "text"}, {"measure", "number"}, {"text"},
            {"time name", "time type"}, {"time name", "text"}>>
MCHints == <<1, 0, 1, 0, 0, 0>>

Facts(words, columns) ==
    [words |-> words, columns |-> columns, rows |-> TRUE, candidate |-> NoColumn,
     target |-> NoColumn, problem |-> "", key |-> FALSE, time |-> FALSE]

\* What _prepare_ml_training_inputs fills in where nothing is bound.
Prepared ==
    [model |-> "three parts", metric |-> "rmse", surface |-> "serverless_jobs",
     evidence |-> {"mlflow", "jobs"}, handAuthored |-> FALSE, probed |-> {},
     operations |-> TRUE, body |-> FALSE, readback |-> TRUE, complete |-> TRUE]

\* Nothing to predict, a spend to predict, an acceptance to classify.
MCMLUsecases ==
    {[facts |-> Facts({}, cs), bindings |-> Prepared] : cs \in {{2, 4}, {2, 3, 5}, {1, 2, 4}}}

\* Everything is installed; the command names the run it starts, or does not.
MCConversions ==
    {[installed |-> [cli |-> TRUE, listed |-> TRUE, answers |-> TRUE, package |-> FALSE,
                     job |-> TRUE, assesses |-> "this system", namesRun |-> named],
      bound |-> [sql |-> TRUE, source |-> "none", output |-> "none",
                 technology |-> "other", configured |-> FALSE,
                 workspaceFolder |-> TRUE, credentials |-> TRUE]] : named \in BOOLEAN}
=============================================================================

------------------------------ MODULE MLReadiness ------------------------------
(***************************************************************************)
(* The decisions an ML execution takes before anything is submitted:       *)
(* which problem the usecase's words and columns point to, whether its     *)
(* evidence suffices, which backend could train it, and which API plan, if *)
(* any, passes the training gate.  Columns are numbers in the order of     *)
(* their names; what the heuristics see in a name or a type is its tags.   *)
(***************************************************************************)
EXTENDS Integers, FiniteSets, FiniteSetsExt

CONSTANTS
    Tags,       \* [column -> what its name and type say]
    Hints       \* [column -> how many of _TARGET_HINTS its name holds]

Columns == DOMAIN Tags
NoColumn == 0
TagNames == {"key", "time name", "time type", "text", "measure", "number", "response"}

ASSUME ColumnsAssumption ==
    /\ Columns \subseteq Nat \ {NoColumn} /\ IsFiniteSet(Columns)
    /\ Tags \in [Columns -> SUBSET TagNames]
    /\ Hints \in [Columns -> Nat]

\* In the order _problem_and_strategy tries them.
ProblemTypes ==
    <<"forecasting", "ranking", "segmentation", "anomaly_detection",
      "text_or_genai", "regression", "classification", "no_ml_yet">>
Trainable == {ProblemTypes[i] : i \in 1..7}
Words == {"forecast", "rank", "segment", "anomaly", "text"}

\* What is known of a usecase: the words of its title and objective, the columns
\* of its profiles, whether they count 100 rows, a target proposed for it, and
\* what its bindings say in place of what would be inferred; NoColumn, "" and
\* FALSE say nothing.
UsecaseFacts ==
    [words : SUBSET Words, columns : SUBSET Columns, rows : BOOLEAN,
     candidate : Columns \cup {NoColumn}, target : Columns \cup {NoColumn},
     problem : {"", "recommendation"} \cup Trainable, key : BOOLEAN, time : BOOLEAN]

Inferred ==
    [words : SUBSET Words, columns : SUBSET Columns, rows : BOOLEAN,
     candidate : Columns \cup {NoColumn}, target : {NoColumn},
     problem : {""}, key : {FALSE}, time : {FALSE}]

-----------------------------------------------------------------------------
(* select_ml_problem. *)

Keys(cs) == {c \in cs : "key" \in Tags[c] /\ "time name" \notin Tags[c]}
Times(cs) == {c \in cs : Tags[c] \cap {"time name", "time type"} # {}}

\* The column with the most hints, the first by name among them.
CandidateTarget(cs) ==
    LET hinted == {c \in cs : Hints[c] > 0 /\ \A d \in cs : Hints[d] <= Hints[c]}
    IN  IF hinted = {} THEN NoColumn ELSE Min(hinted)

Target(u) == IF u.candidate # NoColumn THEN u.candidate ELSE CandidateTarget(u.columns)

\* _column_type looks the type up in the profiles; a name counts without them.
Numeric(c, cs) == "measure" \in Tags[c] \/ (c \in cs /\ "number" \in Tags[c])

PointsTo(u, type) ==
    CASE type = "forecasting" -> "forecast" \in u.words /\ Times(u.columns) # {}
      [] type = "ranking" -> "rank" \in u.words
      [] type = "segmentation" -> "segment" \in u.words
      [] type = "anomaly_detection" -> "anomaly" \in u.words
      [] type = "text_or_genai" ->
           "text" \in u.words /\ \E c \in u.columns : "text" \in Tags[c]
      [] type = "regression" -> Target(u) # NoColumn /\ Numeric(Target(u), u.columns)
      [] type = "classification" -> Target(u) # NoColumn
      [] OTHER -> TRUE

ProblemType(u) ==
    ProblemTypes[Min({i \in DOMAIN ProblemTypes : PointsTo(u, ProblemTypes[i])})]

\* No finding of _base_findings blocks.
BaseReady(u) == u.rows /\ u.columns # {}

Supervised == {"classification", "regression", "ranking", "forecasting"}
Response(c) == c # NoColumn /\ "response" \in Tags[c]

ProblemReady(u) ==
    LET type == ProblemType(u) IN
    /\ BaseReady(u)
    /\ type # "no_ml_yet"
    /\ type \in Supervised => Target(u) # NoColumn
    /\ type = "ranking" => u.candidate # NoColumn /\ Response(Target(u))
    /\ type \in {"ranking", "forecasting"} => Keys(u.columns) # {}
    /\ type = "forecasting" => Times(u.columns) # {}

-----------------------------------------------------------------------------
(* assess_feature_readiness and plan_ml_strategy. *)

JudgedType(u) == IF u.problem # "" THEN u.problem ELSE ProblemType(u)
JudgedTarget(u) == IF u.target # NoColumn THEN u.target ELSE Target(u)

FeatureReady_Strict(u) ==               \* mutant: every problem needs a label
    /\ BaseReady(u)
    /\ JudgedTarget(u) # NoColumn
    /\ JudgedType(u) \in {"ranking", "recommendation"} => Response(JudgedTarget(u))
    /\ JudgedType(u) \in {"ranking", "recommendation", "forecasting"} =>
         u.key \/ Keys(u.columns) # {}
    /\ JudgedType(u) = "forecasting" => u.time \/ Times(u.columns) # {}

FeatureReady(u) ==
    /\ BaseReady(u)
    /\ JudgedType(u) \in Supervised => JudgedTarget(u) # NoColumn
    /\ JudgedType(u) \in {"ranking", "recommendation"} => Response(JudgedTarget(u))
    /\ JudgedType(u) \in {"ranking", "recommendation", "forecasting"} =>
         u.key \/ Keys(u.columns) # {}
    /\ JudgedType(u) = "forecasting" => u.time \/ Times(u.columns) # {}

StrategyReady(u, b) ==
    ProblemReady(u) /\ FeatureReady(u) /\ b.model # "not three parts"

Metrics(type) ==
    CASE type = "classification" -> {"roc_auc", "f1", "accuracy", "log_loss"}
      [] type = "regression" -> {"rmse", "mae", "r2"}
      [] type = "forecasting" -> {"rmse", "mae", "mape"}
      [] type = "ranking" -> {"ndcg_at_k", "map_at_k", "precision_at_k"}
      [] type = "segmentation" -> {"silhouette", "cluster_stability"}
      [] type = "anomaly_detection" -> {"precision_at_k", "recall_at_k", "false_positive_rate"}
      [] type = "text_or_genai" -> {"answer_correctness", "groundedness", "retrieval_recall"}
      [] OTHER -> {}

-----------------------------------------------------------------------------
(* The bindings of the usecase's step, after _prepare_ml_training_inputs, and *)
(* what the skills of the chain make of them.                                 *)

References == {"mlflow", "jobs", "automl", "spark", "mosaic"}
Bindings ==
    [model : {"three parts", "not three parts"},
     metric : {"rmse", "roc_auc"},
     surface : {"serverless_jobs", "classic_job_cluster", "other"},
     evidence : SUBSET References,      \* what the cited, indexed capabilities name
     handAuthored : BOOLEAN,            \* some of the evidence is a skill's own word
     probed : SUBSET {"databricks_automl_available", "spark_ml_allowed", "no mosaic"},
     operations : BOOLEAN,              \* api_operations hold a job and a readback
     body : BOOLEAN,                    \* a job_submit_body of its own
     readback : BOOLEAN,                \* a valid audit_readback_operation
     complete : BOOLEAN]                \* rows, columns and the rest are bound

\* _mlflow_flavor_job_backend, _automl_backend, _spark_ml_backend and
\* _mosaic_ai_backend; every trainable type has a model family.
Supports(backend, type, b) ==
    CASE backend = "databricks_mlflow_flavor_job" ->
           /\ type \in {"classification", "regression", "anomaly_detection"}
           /\ b.surface # "other"
           /\ {"mlflow", "jobs"} \subseteq b.evidence
      [] backend = "databricks_automl" ->
           /\ type \in {"classification", "regression", "forecasting"}
           /\ "automl" \in b.evidence
           /\ b.surface = "serverless_jobs" => "databricks_automl_available" \in b.probed
      [] backend = "spark_ml" ->
           /\ type \in {"classification", "regression", "forecasting", "clustering"}
           /\ "spark" \in b.evidence
           /\ b.surface = "serverless_jobs" => "spark_ml_allowed" \in b.probed
      [] backend = "mosaic_ai" ->
           /\ type \in {"text_or_genai", "rag", "embedding"}
           /\ "mosaic" \in b.evidence
           /\ "no mosaic" \notin b.probed

Backends == {"databricks_mlflow_flavor_job", "databricks_automl", "spark_ml", "mosaic_ai"}
Grounded(b) == b.evidence # {} /\ ~b.handAuthored

BackendSelected(type, b) == Grounded(b) /\ \E k \in Backends : Supports(k, type, b)

TaskPlanned(type, b) == BackendSelected(type, b) /\ b.complete /\ b.metric \in Metrics(type)

JobBound(type, b) == Grounded(b) /\ (b.body \/ TaskPlanned(type, b))

PlanBound(type, b) == Grounded(b) /\ JobBound(type, b) /\ b.readback

\* The API plan the strategy brings itself, which a bound plan replaces.
OwnPlan(b) == b.evidence # {} /\ b.operations

\* _ml_training_gate asks for a plan and not for whose it is.
TrainingOutcome(u, b) ==
    LET type == ProblemType(u) IN
    IF ~StrategyReady(u, b) \/ ~b.complete THEN "blocked"
    ELSE IF PlanBound(type, b) THEN "planned"
    ELSE IF OwnPlan(b) THEN "unplanned"
    ELSE "blocked"

-----------------------------------------------------------------------------
(* The three heuristics judge the same evidence by rules of their own.  A     *)
(* usecase whose problem is ready, with no binding that overrides what was    *)
(* inferred, is ready for training in each of them: its features pass, and    *)
(* there is evidence with which a backend takes its problem type, unless it   *)
(* is a ranking or a segmentation: no backend takes those, and spark_ml waits *)
(* for a "clustering" the selection never recommends.                         *)
JudgementsAgree ==
    \A u \in Inferred :
        ProblemReady(u) =>
            /\ FeatureReady(u)
            /\ \/ ProblemType(u) \in {"ranking", "segmentation"}
               \/ \E b \in Bindings : BackendSelected(ProblemType(u), b)
=============================================================================

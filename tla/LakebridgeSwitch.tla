---------------------------- MODULE LakebridgeSwitch ----------------------------
(***************************************************************************)
(* What a Lakebridge workflow finds around it and what becomes of it: SQL  *)
(* transpilation and code conversion hand the work to Switch, by its job   *)
(* in the workspace where there is a configuration for it and by the       *)
(* command line where there is none; assessment only looks at what is      *)
(* installed and bound.  Each of the three judges by checks of its own.    *)
(***************************************************************************)
EXTENDS Integers, FiniteSets

\* Paths: a file of this machine, there or not, a volume's folder, the volume
\* itself, a folder with the "dbfs:" of its URI.
Paths == {"none", "local file", "no file", "folder", "volume", "dbfs folder"}

\* What is installed: the databricks command, its Lakebridge extension (listed,
\* with a help text that answers), the Switch package, the job Lakebridge_Switch;
\* what Lakebridge says of the systems it assesses; and whether what the command
\* prints names the run it started.
Installed ==
    [cli : BOOLEAN, listed : BOOLEAN, answers : BOOLEAN, package : BOOLEAN, job : BOOLEAN,
     assesses : {"no resources", "nothing", "others", "this system"},
     namesRun : BOOLEAN]

\* What the inputs and the environment bind.  A code conversion has a workspace
\* folder and a model endpoint by default.
Bound ==
    [sql : BOOLEAN,             \* SQL text in the inputs
     source : Paths, output : Paths,
     technology : {"teradata", "python", "pyspark", "other"},
     configured : BOOLEAN,      \* a switch configuration of the environment's own
     workspaceFolder : BOOLEAN, credentials : BOOLEAN]

Settings == [installed : Installed, bound : Bound]

-----------------------------------------------------------------------------
(* SQL transpilation. *)

\* _migration_source_sql.
SourceStatus(b) ==
    CASE b.sql \/ b.source = "local file"                    -> "bound"
      [] ~b.sql /\ b.source \in {"folder", "volume", "dbfs folder"} -> "bound_external"
      [] ~b.sql /\ b.source = "none"                         -> "not_bound"
      [] OTHER                                               -> "bound_unreadable"

SourceBound(b) == SourceStatus(b) \in {"bound", "bound_external"}

\* _lakebridge_sql_cli asks the help text alone.
TranspilerFound(i) == i.cli /\ i.answers

\* The missing list of _migration_live_transpile_blocked: the runner is always on it.
TranspileMissing(s) ==
    {"lakebridge_switch_sql_runner"}
        \cup (IF SourceBound(s.bound) THEN {} ELSE {"readable_source_sql"})
        \cup (IF TranspilerFound(s.installed) THEN {} ELSE {"lakebridge_sql_cli"})

\* _ensure_sql_switch_config_path: only Teradata comes with a prompt.
TranspileConfig(b) == b.configured \/ b.technology = "teradata"

\* _lakebridge_switch_job_id raises where the job is not installed; run-now is
\* given to a run that is waited for.
ByJob(i) == IF i.job THEN "waited" ELSE "fails"

\* The command starts a job of its own, waited for if its text names the run.
ByCommand(i) ==
    IF i.cli /\ i.answers THEN IF i.namesRun THEN "waited" ELSE "unwaited" ELSE "fails"

\* execute_migration_skill_for_usecase.
TranspileOutcome(s) ==
    CASE ~SourceBound(s.bound) \/ ~TranspilerFound(s.installed) -> "blocked"
      [] OTHER -> IF TranspileConfig(s.bound) THEN ByJob(s.installed)
                  ELSE ByCommand(s.installed)

-----------------------------------------------------------------------------
(* Code conversion. *)

\* _code_convert_volume_path.
OrDefault(path) == IF path = "none" THEN "folder" ELSE path

\* _ensure_code_convert_switch_config_path: one is written to the volume for
\* Python and PySpark, before anything has been checked.
ConvertConfig(b) ==
    CASE b.configured -> "configured"
      [] ~b.configured /\ b.technology \in {"python", "pyspark"}
                       /\ OrDefault(b.output) \in {"folder", "volume", "dbfs folder"} -> "uploaded"
      [] OTHER -> "none"

\* _lakebridge_switch_cli also wants the extension listed.
SwitchFound(i) == i.package \/ (i.cli /\ i.listed /\ i.answers)

\* The checks of the preflight that do not pass.  A model endpoint there always is.
ConvertMissing(s) ==
    LET passed ==
            [switch_package          |-> SwitchFound(s.installed),
             databricks_cli          |-> s.installed.cli,
             source_path             |-> OrDefault(s.bound.source) = "folder",
             output_path             |-> OrDefault(s.bound.output) = "folder",
             workspace_credentials   |-> s.bound.credentials,
             model_endpoint          |-> TRUE,
             workspace_output_folder |-> s.bound.workspaceFolder]
    IN  {check \in DOMAIN passed : ~passed[check]}

\* execute_migration_code_convert_skill_for_usecase: without the command the
\* upload raises, and the preflight is not seen.
ConvertOutcome(s) ==
    CASE ConvertConfig(s.bound) = "uploaded" /\ ~s.installed.cli -> "fails"
      [] ConvertMissing(s) = {} ->
           IF ConvertConfig(s.bound) # "none" THEN ByJob(s.installed)
           ELSE ByCommand(s.installed)
      [] OTHER -> "blocked"

-----------------------------------------------------------------------------
(* Assessment. *)

AssessmentMissing(s) ==
    LET i == s.installed
        b == s.bound
    IN  {check \in {"lakebridge_package", "assessment_resources", "source_system",
                    "source_path", "assessment_output_path"} :
            CASE check = "lakebridge_package"   -> i.assesses = "no resources"
              [] check = "assessment_resources" -> i.assesses \in {"no resources", "nothing"}
              [] check = "source_system"        -> i.assesses = "others"
              [] check = "source_path"          -> b.source \notin {"folder", "volume"}
              [] OTHER -> b.output \notin {"none", "folder", "volume"}}

AssessmentOutcome(s) == IF AssessmentMissing(s) = {} THEN "ready" ELSE "blocked"

-----------------------------------------------------------------------------
\* What becomes of a workflow, by the name of its skill family.
Outcome(f, s) ==
    CASE f = "Migration"    -> TranspileOutcome(s)
      [] f = "Code Convert" -> ConvertOutcome(s)
      [] f = "Assessment"   -> AssessmentOutcome(s)
=============================================================================

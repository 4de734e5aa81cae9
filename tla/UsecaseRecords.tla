---------------------------- MODULE UsecaseRecords ----------------------------
(***************************************************************************)
(* One usecase of the console, from its creation to the go/no-go decision. *)
(* Its tables are append-only: a handler reads the newest row of each one  *)
(* it needs, query after query, then appends a row of its own stamped with *)
(* the time it was composed.  Handlers run concurrently, and a query that  *)
(* fails reads as an empty table.                                          *)
(***************************************************************************)
EXTENDS Integers, FiniteSets

CONSTANTS
    Workers,      \* request threads of the console
    Strategies,   \* the strategy kinds a user may select
    Unset,        \* no strategy row
    MaxRows,      \* bound: rows composed for each table
    MaxLate       \* bound: INSERTs outstanding at a time

Tables == {"strategy", "binding", "plan", "validation", "decision"}
StrategyKinds == {"sql_only", "pyspark_pipeline", "ml_workflow", "ai_agent",
                  "migration_assessment", "composite"}

ASSUME StrategiesAssumption == Strategies \subseteq StrategyKinds
ASSUME UnsetAssumption == Unset \notin StrategyKinds
ASSUME MaxRowsAssumption == MaxRows \in [Tables -> Nat]
ASSUME MaxLateAssumption == MaxLate \in Nat

VARIABLES
    created,      \* the usecase has its workspace_usecases row
    tables,       \* the rows of each append-only table
    lateRows,     \* INSERTs the console gave up on that may still land
    clock,        \* created_at_ms of the latest row composed
    composed,     \* how many rows have been composed for each table
    req           \* what each worker is doing

vars == <<created, tables, lateRows, clock, composed, req>>

-----------------------------------------------------------------------------
(* What a strategy asks for and allows. *)

Families == {"SQL", "PySpark", "ML", "AI", "Migration", "Deploy"}

StrategySkillFamilies(kind) ==
    CASE kind = "sql_only"             -> {"SQL", "Deploy"}
      [] kind = "pyspark_pipeline"     -> {"SQL", "PySpark", "Deploy"}
      [] kind = "ml_workflow"          -> {"SQL", "PySpark", "ML", "Deploy"}
      [] kind = "ai_agent"             -> {"SQL", "AI", "Deploy"}
      [] kind = "migration_assessment" -> {"SQL", "Migration", "PySpark", "Deploy"}
      [] kind = "composite"            -> Families

\* Families the resolver has no skill for.
Gaps(kind) == StrategySkillFamilies(kind) \cap {"AI", "Migration"}

\* Deployment is part of the transform itself.
Covered(kind) == IF kind \in {"sql_only", "pyspark_pipeline"} THEN {"Deploy"} ELSE {}

Requirements(kind) == StrategySkillFamilies(kind) \ Gaps(kind)
RequiredBindings(kind) == Requirements(kind) \ Covered(kind)

\* What a user may bind to a family: no fields, some, or all a deployment needs.
Inputs == {"empty", "some", "all"}
Steps == [family : Families, inputs : Inputs \cup {"unbound"}, skill : BOOLEAN]

\* The resolver names no skill for the deployment of a strategy of several families.
HasSkill(kind, f) == f = "Deploy" => kind \in {"sql_only", "pyspark_pipeline", "ml_workflow"}

\* One step per requirement, with what is bound to it; a deployment only when
\* something is.
ArtifactSteps(kind, bound) ==
    {s \in {[family |-> f, inputs |-> bound[f], skill |-> HasSkill(kind, f)] :
                f \in Requirements(kind)} :
        s.family = "Deploy" => s.inputs \notin {"empty", "unbound"}}

AllowedFamilies(kind) ==
    CASE kind = "sql_only"         -> {"SQL"}
      [] kind = "pyspark_pipeline" -> {"SQL", "PySpark"}
      [] kind \in {"ml_workflow", "composite"} -> {"SQL", "PySpark", "ML", "Deploy"}
      [] OTHER                     -> {}

StepsPass_Unbound(steps, kind) ==       \* mutant: inputs are not looked at
    /\ steps # {}
    /\ \A s \in steps : s.skill /\ s.family \in AllowedFamilies(kind)

StepsPass(steps, kind) ==
    /\ steps # {}
    /\ \A s \in steps :
        /\ s.skill
        /\ s.family \in AllowedFamilies(kind)
        /\ s.inputs \in {"some", "all"}
        /\ s.family = "Deploy" => s.inputs = "all"

-----------------------------------------------------------------------------
(* The tables. *)

Strategy(at, kind)     == [table |-> "strategy", at |-> at, kind |-> kind]
Binding(at, f, inputs) == [table |-> "binding", at |-> at, family |-> f, inputs |-> inputs]
Plan(at, kind, steps)  == [table |-> "plan", at |-> at, kind |-> kind, steps |-> steps]
Validation(at, plan, ok) == [table |-> "validation", at |-> at, plan |-> plan, ok |-> ok]
Decision(at, ready)    == [table |-> "decision", at |-> at, ready |-> ready]

Of(name) == {r \in tables : r.table = name}

\* ORDER BY created_at_ms DESC LIMIT 1, as the set of at most one row.
Newest(rows) == {r \in rows : \A q \in rows : q.at <= r.at}

\* A _load_latest_ query: an exception in it is caught and reads as no row.
Reads(rows) == {Newest(rows), {}}

KindOf(rows) == IF rows = {} THEN Unset ELSE (CHOOSE r \in rows : TRUE).kind

BoundInputs(rows) ==
    [f \in Families |->
        LET mine == Newest({r \in rows : r.family = f})     \* ROW_NUMBER() per family
        IN  IF mine = {} THEN "unbound" ELSE (CHOOSE r \in mine : TRUE).inputs]

-----------------------------------------------------------------------------
(* The handlers. *)

Idle == [pc |-> "idle"]
Does(w, step) == req[w].pc = step
GoesTo(w, local) == req' = [req EXCEPT ![w] = local]

\* The row is stamped and composed; the INSERT follows.
Composes(w, row) ==
    /\ composed[row.table] < MaxRows[row.table]
    /\ composed' = [composed EXCEPT ![row.table] = @ + 1]
    /\ clock' = clock + 1
    /\ GoesTo(w, [pc |-> "insert", row |-> row])

\* create_usecase_from_candidate; creating it again adds a row like the first.
CreateUsecase ==
    /\ ~created
    /\ created' = TRUE
    /\ UNCHANGED <<tables, lateRows, clock, composed, req>>

SaveStrategy(w) ==
    /\ created /\ Does(w, "idle")
    /\ \E kind \in Strategies : Composes(w, Strategy(clock + 1, kind))
    /\ UNCHANGED <<created, tables, lateRows>>

SaveSkillInputs(w) ==
    /\ created /\ Does(w, "idle")
    /\ \E k \in Strategies : \E f \in Requirements(k), i \in Inputs :
         Composes(w, Binding(clock + 1, f, i))
    /\ UNCHANGED <<created, tables, lateRows>>

\* generate_usecase_artifact_plan reads the strategy, and reads it again to
\* resolve the skills, then the bindings.  A handler that is blocked ends.
GenerateBegin(w) ==
    /\ created /\ Does(w, "idle")
    /\ \E rows \in Reads(Of("strategy")) :
         GoesTo(w, [pc |-> "resolve", kind |-> KindOf(rows)])
    /\ UNCHANGED <<created, tables, lateRows, clock, composed>>

GenerateResolve(w) ==
    /\ Does(w, "resolve")
    /\ \E rows \in Reads(Of("strategy")) :
         IF rows = {}
         THEN GoesTo(w, Idle)
         ELSE GoesTo(w, [pc |-> "bind", kind |-> req[w].kind, resolved |-> KindOf(rows)])
    /\ UNCHANGED <<created, tables, lateRows, clock, composed>>

ReadyToPlan_Always(kind, bound) == TRUE                     \* mutant
ReadyToPlan(kind, bound) == \A f \in RequiredBindings(kind) : bound[f] # "unbound"

GeneratePlan(w) ==
    /\ Does(w, "bind")
    /\ \E rows \in {Of("binding"), {}} :
        LET bound == BoundInputs(rows)
        IN  IF ReadyToPlan(req[w].resolved, bound)
            THEN Composes(w, Plan(clock + 1, req[w].kind,
                                  ArtifactSteps(req[w].resolved, bound)))
            ELSE GoesTo(w, Idle) /\ UNCHANGED <<clock, composed>>
    /\ UNCHANGED <<created, tables, lateRows>>

\* validate_usecase_artifact_plan reads the strategy before the plan; without a
\* plan it answers so and stores nothing.
ValidateBegin(w) ==
    /\ created /\ Does(w, "idle")
    /\ \E rows \in Reads(Of("strategy")) :
         GoesTo(w, [pc |-> "validate", kind |-> KindOf(rows)])
    /\ UNCHANGED <<created, tables, lateRows, clock, composed>>

ValidatePlan(w) ==
    /\ Does(w, "validate")
    /\ \E rows \in Reads(Of("plan")) :
        IF rows = {}
        THEN GoesTo(w, Idle) /\ UNCHANGED <<clock, composed>>
        ELSE \E p \in rows :
               Composes(w, Validation(clock + 1, p.at, StepsPass(p.steps, req[w].kind)))
    /\ UNCHANGED <<created, tables, lateRows>>

\* evaluate_usecase_go_no_go reads the newest validation, whichever plan it is
\* of, and the strategy after it; a strategy it cannot read has no gaps.
EvaluateBegin(w) ==
    /\ created /\ Does(w, "idle")
    /\ \E rows \in Reads(Of("validation")) :
         GoesTo(w, [pc |-> "decide", passed |-> \E v \in rows : v.ok])
    /\ UNCHANGED <<created, tables, lateRows, clock, composed>>

ReadyForExecution(passed, rows) == passed /\ \A r \in rows : Gaps(r.kind) = {}

EvaluateDecide(w) ==
    /\ Does(w, "decide")
    /\ \E rows \in Reads(Of("strategy")) :
         Composes(w, Decision(clock + 1, ReadyForExecution(req[w].passed, rows)))
    /\ UNCHANGED <<created, tables, lateRows>>

\* The INSERT: done, or it raised, which ends the request and may leave the
\* statement with the warehouse.
Insert(w) ==
    /\ Does(w, "insert")
    /\ \/ /\ tables' = tables \cup {req[w].row}
          /\ UNCHANGED lateRows
       \/ /\ \/ UNCHANGED lateRows
             \/ /\ Cardinality(lateRows) < MaxLate
                /\ lateRows' = lateRows \cup {req[w].row}
          /\ UNCHANGED tables
    /\ GoesTo(w, Idle)
    /\ UNCHANGED <<created, clock, composed>>

LandRow ==
    \E r \in lateRows :
        /\ tables' = tables \cup {r}
        /\ lateRows' = lateRows \ {r}
        /\ UNCHANGED <<created, clock, composed, req>>

\* A query that nothing catches raises.
RequestRaises(w) ==
    /\ req[w].pc \in {"resolve", "bind", "validate", "decide"}
    /\ GoesTo(w, Idle)
    /\ UNCHANGED <<created, tables, lateRows, clock, composed>>

Init ==
    /\ created = FALSE
    /\ tables = {}
    /\ lateRows = {}
    /\ clock = 0
    /\ composed = [t \in Tables |-> 0]
    /\ req = [w \in Workers |-> Idle]

WorkerStep(w) ==
    \/ SaveStrategy(w) \/ SaveSkillInputs(w)
    \/ GenerateBegin(w) \/ GenerateResolve(w) \/ GeneratePlan(w)
    \/ ValidateBegin(w) \/ ValidatePlan(w)
    \/ EvaluateBegin(w) \/ EvaluateDecide(w)
    \/ Insert(w) \/ RequestRaises(w)

Next ==
    \/ CreateUsecase
    \/ \E w \in Workers : WorkerStep(w)
    \/ LandRow

Spec == Init /\ [][Next]_vars

-----------------------------------------------------------------------------
(* Properties. *)

Times == Nat \ {0}
Kinds == StrategyKinds \cup {Unset}
Rows ==
    [table : {"strategy"}, at : Times, kind : StrategyKinds]
    \cup [table : {"binding"}, at : Times, family : Families, inputs : Inputs]
    \cup [table : {"plan"}, at : Times, kind : Kinds, steps : SUBSET Steps]
    \cup [table : {"validation"}, at : Times, plan : Times, ok : BOOLEAN]
    \cup [table : {"decision"}, at : Times, ready : BOOLEAN]
Locals ==
    {Idle}
    \cup [pc : {"resolve", "validate"}, kind : Kinds]
    \cup [pc : {"bind"}, kind : Kinds, resolved : StrategyKinds]
    \cup [pc : {"decide"}, passed : BOOLEAN]
    \cup [pc : {"insert"}, row : Rows]

\* Every variable keeps to its domain.
TypeOK ==
    /\ created \in BOOLEAN
    /\ tables \in SUBSET Rows
    /\ lateRows \in SUBSET Rows
    /\ clock \in Nat
    /\ composed \in [Tables -> Nat]
    /\ req \in [Workers -> Locals]

\* Nothing a plan binds is made up: what a step of a stored plan carries was
\* saved for its family before the plan was composed, whichever handlers ran
\* in between and whichever queries failed.
PlanInputsWereSaved ==
    \A p \in Of("plan") : \A s \in p.steps :
        \E b \in Of("binding") :
            b.family = s.family /\ b.inputs = s.inputs /\ b.at < p.at

\* "Persist an execution go/no-go decision for a validated usecase plan": behind
\* every ready decision there is, in the order of time, a passed validation of a
\* stored plan each of whose steps has inputs.
ReadyWasValidated ==
    \A d \in Of("decision") : d.ready =>
        \E v \in Of("validation"), p \in Of("plan") :
            /\ v.ok /\ v.plan = p.at
            /\ p.at < v.at /\ v.at < d.at
            /\ p.steps # {}
            /\ \A s \in p.steps : s.inputs \in {"some", "all"}

\* The same of the plan the decision is about: the newest one of its time.
ReadyIsForNewestPlan ==
    \A d \in Of("decision") : d.ready =>
        \A p \in Newest({q \in Of("plan") : q.at < d.at}) :
            \E v \in Of("validation") : v.ok /\ v.plan = p.at /\ v.at < d.at
=============================================================================

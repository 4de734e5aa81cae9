----------------------------- MODULE WorkspaceKG -----------------------------
(***************************************************************************)
(* The workspace knowledge graph: the two-task job that profiles the       *)
(* tables of the workspace, appends what it saw to workspace_claims, merges *)
(* it into workspace_claims_current, and starts the pipeline that copies    *)
(* that table into Lakebase, where the console reads it.                    *)
(*                                                                         *)
(* A claim is what one table's profile said: the pair of a table and the   *)
(* value profiled.  The claim id hashes the value with the subject, so two *)
(* values of one table are two claims.  Claims whose value never varies    *)
(* (EXISTS, BELONGS_TO) are left out.  The tables change while the job     *)
(* runs; the job's statements may outlive the attempt that sent them.      *)
(***************************************************************************)
EXTENDS Integers, FiniteSets

CONSTANTS
    Tables,            \* the user tables of one schema of the workspace
    Values,            \* what a profile can say of a table
    Absent,            \* no such table, or no profile of it
    ProfileMax,        \* BV_WORKSPACE_KG_PROFILE_MAX_TABLES
    MaxRetries,        \* max_retries of both tasks
    MaxObservations,   \* bound: attempts to observe the workspace
    MaxChanges         \* bound: changes to the workspace

ASSUME AbsentAssumption == Absent \notin Values
ASSUME ProfileAssumption == ProfileMax \in Nat
ASSUME KGRetriesAssumption == MaxRetries \in Nat

VARIABLES
    world,       \* what a profile of each table would say now
    changes,     \* how often the workspace has changed
    claims,      \* workspace_claims, append-only; repeated rows are merged
    current,     \* workspace_claims_current: observed_at_ms per claim id
    synced,      \* workspace_claims_current_synced, in Lakebase
    pipeline,    \* the Lakeflow pipeline of the synced table
    late,        \* statements whose client gave up but the warehouse did not
    kgPc,        \* where the job is; "idle" between runs
    kgAttempt,   \* which attempt of the current task this is
    toProfile,   \* tables listed, still to profile
    found,       \* what the profiles of this attempt said
    observed,    \* observed_at_ms of this attempt's claims
    unsent,      \* tables whose batch of the current statement kind is to come
    clock        \* the latest observed_at_ms handed out

warehouseVars == <<claims, current, late>>
taskVars == <<kgPc, kgAttempt, toProfile, found, observed, unsent>>
kgVars == <<world, changes, warehouseVars, synced, pipeline, taskVars, clock>>

Profiles == [Tables -> Values \cup {Absent}]
NoProfiles == [t \in Tables |-> Absent]
Never == 0                                  \* no row for the claim
NoRows == [t \in Tables |-> [v \in Values |-> Never]]

-----------------------------------------------------------------------------
(* The warehouse. *)

Claims == [table : Tables, value : Values, at : Nat]
Statements == [op : {"insert", "merge"}, claim : Claims]
Insert(c) == [op |-> "insert", claim |-> c]
Merge(c)  == [op |-> "merge",  claim |-> c]

\* INSERT appends to the audit table; MERGE updates or inserts the claim's row.
Effect(st) ==
    /\ claims' = IF st.op = "insert" THEN claims \cup {st.claim} ELSE claims
    /\ current' = IF st.op = "merge"
                  THEN [current EXCEPT ![st.claim.table][st.claim.value] = st.claim.at]
                  ELSE current

Succeeds(st) == Effect(st) /\ UNCHANGED late

\* execute_statement returned another state than SUCCEEDED: the statement has
\* failed, or is still to finish.
Raises(st) ==
    /\ late' \in {late, late \cup {st}}
    /\ UNCHANGED <<claims, current>>

LandLate ==
    \E st \in late :
        /\ Effect(st)
        /\ late' = late \ {st}
        /\ UNCHANGED <<world, changes, synced, pipeline, taskVars, clock>>

-----------------------------------------------------------------------------
(* The job. *)

\* The task starts over, or its retries are spent and the run is over.
Finish ==
    /\ kgPc' = "idle" /\ kgAttempt' = 0
    /\ toProfile' = {} /\ found' = NoProfiles /\ observed' = Never /\ unsent' = {}

Relaunch(task) ==
    IF kgAttempt <= MaxRetries
    THEN /\ kgPc' = task /\ kgAttempt' = kgAttempt + 1
         /\ toProfile' = {} /\ found' = NoProfiles /\ observed' = Never /\ unsent' = {}
    ELSE Finish

\* What is over is over: by the next run the statements of this one are done with.
StartRefresh ==
    /\ kgPc = "idle"
    /\ late = {}
    /\ clock + MaxRetries < MaxObservations
    /\ kgPc' = "list" /\ kgAttempt' = 1
    /\ UNCHANGED <<world, changes, warehouseVars, synced, pipeline, toProfile,
                   found, observed, unsent, clock>>

Smaller(n, m) == IF n < m THEN n ELSE m

\* list_tables, then tables[:max_profile_tables] of a list in no order.
ListTables ==
    /\ kgPc = "list"
    /\ LET listed == {t \in Tables : world[t] # Absent}
       IN  \E some \in SUBSET listed :
            /\ Cardinality(some) = Smaller(Cardinality(listed), ProfileMax)
            /\ toProfile' = some
    /\ kgPc' = "profile"
    /\ UNCHANGED <<world, changes, warehouseVars, synced, pipeline, kgAttempt,
                   found, observed, unsent, clock>>

\* profile_table of one table, as it is now; an exception means no profile.
ProfileTable ==
    /\ kgPc = "profile"
    /\ \E t \in toProfile :
        /\ \E seen \in {world[t], Absent} : found' = [found EXCEPT ![t] = seen]
        /\ toProfile' = toProfile \ {t}
    /\ UNCHANGED <<world, changes, warehouseVars, synced, pipeline, kgPc,
                   kgAttempt, observed, unsent, clock>>

Profiled == {t \in Tables : found[t] # Absent}
ClaimOf(t) == [table |-> t, value |-> found[t], at |-> observed]

\* _build_claims and the head of emit_claims: one observed_at_ms for all the
\* claims, taken when the last profile is in; without claims nothing is sent.
BuildClaims ==
    /\ kgPc = "profile"
    /\ toProfile = {}
    /\ clock' = clock + 1
    /\ observed' = clock + 1
    /\ unsent' = Profiled
    /\ IF Profiled = {} THEN kgPc' = "publish" /\ kgAttempt' = 1
                        ELSE kgPc' = "insert" /\ UNCHANGED kgAttempt
    /\ UNCHANGED <<world, changes, warehouseVars, synced, pipeline, toProfile, found>>

InsertBatch_Careless ==     \* mutant: a failed INSERT does not stop the task
    /\ kgPc = "insert"
    /\ \E t \in unsent :
        /\ Succeeds(Insert(ClaimOf(t))) \/ Raises(Insert(ClaimOf(t)))
        /\ IF unsent = {t} THEN kgPc' = "merge" /\ unsent' = Profiled
                           ELSE kgPc' = kgPc /\ unsent' = unsent \ {t}
    /\ UNCHANGED <<world, changes, synced, pipeline, kgAttempt, toProfile, found,
                   observed, clock>>

\* All the INSERT statements come before the first MERGE.
InsertBatch ==
    /\ kgPc = "insert"
    /\ \E t \in unsent :
        \/ /\ Succeeds(Insert(ClaimOf(t)))
           /\ IF unsent = {t} THEN kgPc' = "merge" /\ unsent' = Profiled
                              ELSE kgPc' = kgPc /\ unsent' = unsent \ {t}
           /\ UNCHANGED <<kgAttempt, toProfile, found, observed>>
        \/ /\ Raises(Insert(ClaimOf(t)))
           /\ Relaunch("list")
    /\ UNCHANGED <<world, changes, synced, pipeline, clock>>

MergeBatch_Short ==         \* mutant: the last batch is left out
    /\ kgPc = "merge"
    /\ \E t \in unsent :
        /\ Succeeds(Merge(ClaimOf(t)))
        /\ IF Cardinality(unsent) <= 2
           THEN kgPc' = "publish" /\ unsent' = {} /\ kgAttempt' = 1
           ELSE kgPc' = kgPc /\ unsent' = unsent \ {t} /\ UNCHANGED kgAttempt
        /\ UNCHANGED <<toProfile, found, observed>>
    /\ UNCHANGED <<world, changes, synced, pipeline, clock>>

MergeBatch ==
    /\ kgPc = "merge"
    /\ \E t \in unsent :
        \/ /\ Succeeds(Merge(ClaimOf(t)))
           /\ IF unsent = {t} THEN kgPc' = "publish" /\ unsent' = {} /\ kgAttempt' = 1
                              ELSE /\ kgPc' = kgPc /\ unsent' = unsent \ {t}
                                   /\ UNCHANGED kgAttempt
           /\ UNCHANGED <<toProfile, found, observed>>
        \/ /\ Raises(Merge(ClaimOf(t)))
           /\ Relaunch("list")
    /\ UNCHANGED <<world, changes, synced, pipeline, clock>>

\* Create the synced table, or start an update of its pipeline, and do not wait
\* for either; the task may find the pipeline busy, or the call may fail.
Publish ==
    /\ kgPc = "publish"
    /\ \/ /\ pipeline' = "updating"
          /\ Finish
       \/ /\ Relaunch("publish")
          /\ UNCHANGED pipeline
    /\ UNCHANGED <<world, changes, warehouseVars, synced, clock>>

\* The process dies between two of its steps.
CrashRefresh ==
    /\ kgPc # "idle"
    /\ Relaunch(IF kgPc = "publish" THEN "publish" ELSE "list")
    /\ UNCHANGED <<world, changes, warehouseVars, synced, pipeline, clock>>

\* The pipeline copies the table as it is, or fails and leaves the old copy.
PipelineRuns ==
    /\ pipeline = "updating"
    /\ pipeline' = "idle"
    /\ synced' \in {synced, current}
    /\ UNCHANGED <<world, changes, warehouseVars, taskVars, clock>>

\* Somebody loads, creates or drops a table.
WorldChanges ==
    /\ changes < MaxChanges
    /\ changes' = changes + 1
    /\ \E t \in Tables, v \in Values \cup {Absent} :
        /\ v # world[t]
        /\ world' = [world EXCEPT ![t] = v]
    /\ UNCHANGED <<warehouseVars, synced, pipeline, taskVars, clock>>

KGInit ==
    /\ world \in Profiles
    /\ changes = 0
    /\ claims = {}
    /\ current = NoRows
    /\ synced = NoRows
    /\ pipeline = "none"
    /\ late = {}
    /\ kgPc = "idle"
    /\ kgAttempt = 0
    /\ toProfile = {}
    /\ found = NoProfiles
    /\ observed = Never
    /\ unsent = {}
    /\ clock = 0

RefreshStep ==
    \/ ListTables \/ ProfileTable \/ BuildClaims
    \/ InsertBatch \/ MergeBatch \/ Publish \/ CrashRefresh

KGNext ==
    \/ StartRefresh
    \/ RefreshStep
    \/ LandLate
    \/ PipelineRuns
    \/ WorldChanges

-----------------------------------------------------------------------------
(* Properties. *)

\* Every variable keeps to its domain.
KGTypeOK ==
    /\ world \in Profiles
    /\ changes \in Nat
    /\ claims \in SUBSET Claims
    /\ current \in [Tables -> [Values -> Nat]]
    /\ synced \in [Tables -> [Values -> Nat]]
    /\ pipeline \in {"none", "idle", "updating"}
    /\ late \in SUBSET Statements
    /\ kgPc \in {"idle", "list", "profile", "insert", "merge", "publish"}
    /\ kgAttempt \in Nat
    /\ toProfile \in SUBSET Tables
    /\ found \in Profiles
    /\ observed \in Nat
    /\ unsent \in SUBSET Tables
    /\ clock \in Nat

Audited(rows) ==
    \A t \in Tables, v \in Values :
        rows[t][v] # Never => [table |-> t, value |-> v, at |-> rows[t][v]] \in claims

\* "workspace_claims is append-only audit history": whatever the console can
\* read, in Delta or in Lakebase, is a row of that history, through retries and
\* statements that land late.
ReadModelAudited == Audited(current) /\ Audited(synced)

\* A refresh that got past its MERGEs has left every profile it took in the
\* current table, even if statements of an earlier attempt land in between.
RefreshIsComplete ==
    kgPc = "publish" => \A t \in Profiled : current[t][found[t]] # Never
=============================================================================

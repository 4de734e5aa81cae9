-------------------------- MODULE SnapshotLifecycle --------------------------
(***************************************************************************)
(* The life of a capability-graph snapshot: the tail of the indexer job    *)
(* (persist, vs_upsert, smoke, promote, retention) and the operator's      *)
(* rollback command, which share two Delta tables through the SQL          *)
(* warehouse -- the ledger corpus_snapshots and the one-row pointer        *)
(* active_snapshot_id -- and the staging directory of each run.            *)
(*                                                                         *)
(* The job runs one at a time and its tasks run in order, each restarted   *)
(* from its beginning when its process dies, at most MaxRetries times.     *)
(* Operators run at any moment.  A statement sent to the warehouse can     *)
(* succeed, fail, or be given up on after wait_timeout while the warehouse *)
(* carries on with it (it "lingers" and may land later).                   *)
(***************************************************************************)
EXTENDS Integers, FiniteSets

CONSTANTS
    Snapshots,        \* the snapshot ids runs may produce; one run each
    NoSnapshot,       \* the pointer table is empty
    Null,             \* SQL NULL in a timestamp column
    Operators,        \* people running `brickvision indexer rollback`
    RetentionWindow,  \* BV_INDEXER_RETENTION_DAYS, read by the job
    RollbackWindow,   \* BV_INDEXER_SNAPSHOT_RETENTION_DAYS, read by the CLI
    LedgerColumns,    \* columns of the deployed corpus_snapshots table
    MaxRetries,       \* task -> how often it is retried
    MaxClock          \* bound: the clock stops here

ASSUME SnapshotAssumption == NoSnapshot \notin Snapshots
ASSUME WindowAssumption ==
    /\ RetentionWindow \in Nat \ {0}
    /\ RollbackWindow \in Nat
ASSUME RetriesAssumption ==
    MaxRetries \in [{"persist", "vs_upsert", "smoke", "promote", "retention"} -> Nat]
ASSUME ClockAssumption == MaxClock \in Nat
ASSUME NullAssumption == Null \notin Nat

VARIABLES
    clock,        \* wall clock, in days
    ledger,       \* corpus_snapshots, one row per snapshot
    active,       \* the active_snapshot_id row
    inflight,     \* statements the client gave up on that may still land
    persisted,    \* how much of a snapshot's typed rows is in Delta
    staged,       \* the task results in each run's staging directory
    pc,           \* where the job is; "idle" between runs
    attempt,      \* which attempt of the current task this is
    runSnap,      \* the snapshot of the current run
    runStart,     \* when the current run started
    now,          \* started_at_ms of the current task
    sweepActive,  \* retention: the pointer as the task read it
    sweepTodo,    \* retention: listed snapshots not yet handled
    sweepDone,    \* retention: snapshots this sweep deactivated
    sweepFault,   \* retention: the warehouse failed one of its statements
    opPc,         \* where each operator is
    opTarget,     \* --to
    opNow,        \* rolled_back_at_ms
    everActive,   \* history: snapshots the pointer has named
    overlapped    \* history: rollback targets whose command overlapped a sweep

warehouseVars == <<ledger, active, inflight, everActive>>
runVars   == <<runSnap, runStart>>
jobVars   == <<pc, attempt, now, runVars, persisted, staged>>
sweepVars == <<sweepActive, sweepTodo, sweepDone, sweepFault>>
opVars    == <<opPc, opTarget, opNow>>
vars == <<clock, warehouseVars, jobVars, sweepVars, opVars, overlapped>>

-----------------------------------------------------------------------------
(* Data. *)

Times == Nat \cup {Null}

\* A corpus_snapshots row; an absent row never has timestamps.
LedgerRow == [present : BOOLEAN, promotedAt : Times, deactivatedAt : Times]
NoRow    == [present |-> FALSE, promotedAt |-> Null, deactivatedAt |-> Null]
FreshRow == [present |-> TRUE,  promotedAt |-> Null, deactivatedAt |-> Null]

\* The results the tasks of one run leave in its staging directory.
Results == [persist   : {"none", "ok", "errors"},
            vs_upsert : {"none", "ok", "errors"},
            smoke     : {"none", "passed", "failed"},
            promote   : {"none", "promoted", "refused"}]
NoResults == [persist |-> "none", vs_upsert |-> "none",
              smoke |-> "none", promote |-> "none"]

\* The columns CORPUS_SNAPSHOTS_DDL declares.
DeclaredColumns ==
    {"snapshot_id", "corpus_hash", "refresh_plan_id", "planned_at_ms",
     "partial_sources", "signed_by", "signature", "promoted_at_ms",
     "deactivated_at_ms", "task_durations_ms_json"}

\* The columns _list_eligible_snapshots names.
ListedColumns ==
    {"snapshot_id", "run_id", "deactivated_at_ms", "promoted_at_ms"}

-----------------------------------------------------------------------------
(* The warehouse. *)

Statements == [op : {"point", "stamp", "deactivate"},
               snap : Snapshots, at : Nat]
Point(s, t)      == [op |-> "point",      snap |-> s, at |-> t]
Stamp_NoTime(s, t) == [op |-> "stamp", snap |-> s, at |-> Null]  \* mutant
Stamp(s, t)      == [op |-> "stamp",      snap |-> s, at |-> t]
Deactivate(s, t) == [op |-> "deactivate", snap |-> s, at |-> t]

\* What a statement does to the two tables when the warehouse runs it: MERGE
\* the pointer, or UPDATE the rows WHERE snapshot_id matches.
Effect(st) ==
    /\ active' = IF st.op = "point" THEN st.snap ELSE active
    /\ everActive' = IF st.op = "point" THEN everActive \cup {st.snap}
                                        ELSE everActive
    /\ ledger' =
         IF ~ledger[st.snap].present THEN ledger
         ELSE CASE st.op = "point" -> ledger
                [] st.op = "stamp" -> [ledger EXCEPT ![st.snap].promotedAt = st.at]
                [] st.op = "deactivate" ->
                     [ledger EXCEPT ![st.snap].deactivatedAt = st.at]

\* The statement succeeded within wait_timeout.
Succeeds(st) == Effect(st) /\ UNCHANGED inflight

\* The client raises: the statement failed, or it is still queued or running.
Raises(st) ==
    /\ inflight' \in {inflight, inflight \cup {st}}
    /\ UNCHANGED <<ledger, active, everActive>>

\* The warehouse finishes a statement whose client has given up on it.
Land ==
    \E st \in inflight :
        /\ Effect(st)
        /\ inflight' = inflight \ {st}
        /\ UNCHANGED <<clock, jobVars, sweepVars, opVars, overlapped>>

-----------------------------------------------------------------------------
(* The indexer job. *)

TaskOf(p) ==
    CASE p = "persist"   -> "persist"
      [] p = "vs_upsert" -> "vs_upsert"
      [] p = "smoke"     -> "smoke"
      [] p \in {"promote", "promote_point", "promote_stamp", "promote_emit"}
             -> "promote"
      [] p \in {"retention", "sweep_list", "sweep_deactivate", "sweep_staging"}
             -> "retention"

JobSteps == {"persist", "vs_upsert", "smoke",
             "promote", "promote_point", "promote_stamp", "promote_emit",
             "retention", "sweep_list", "sweep_deactivate", "sweep_staging"}

\* max_retries of each task in databricks.yml.
DeployedRetries == [persist |-> 1, vs_upsert |-> 2, smoke |-> 1,
                    promote |-> 1, retention |-> 2]

\* The scheduler launches the first attempt of a task.
Launch(task) ==
    /\ pc' = task
    /\ attempt' = 1
    /\ now' = clock

\* The run is over and its processes are gone.
EndRun ==
    /\ pc' = "idle"
    /\ attempt' = 0 /\ now' = 0
    /\ runSnap' = NoSnapshot /\ runStart' = 0
    /\ sweepActive' = NoSnapshot
    /\ sweepTodo' = {} /\ sweepDone' = {} /\ sweepFault' = FALSE

\* The current task goes on to its next step.
Continue(p) == pc' = p /\ UNCHANGED <<attempt, now>>

Unused_Rerun(s) == staged[s].promote = "none"   \* mutant: an id is used again
Unused(s) == staged[s] = NoResults /\ persisted[s] = "none" /\ ledger[s] = NoRow

\* max_concurrent_runs is 1: a run starts when the previous one is over, by
\* when the warehouse has disposed of its statements one way or the other.
StartRun ==
    /\ pc = "idle"
    /\ inflight = {}
    /\ \E s \in Snapshots :
        /\ Unused(s)
        /\ runSnap' = s
    /\ runStart' = clock
    /\ Launch("persist")
    /\ UNCHANGED <<clock, warehouseVars, persisted, staged, sweepVars, opVars,
                   overlapped>>

Restart_Forgets ==      \* mutant: attempts are not counted
    \/ pc' = TaskOf(pc) /\ now' = clock /\ UNCHANGED <<attempt, runVars, sweepVars>>
    \/ clock > runStart /\ EndRun

\* A task's process dies (or raises): the task starts over from its beginning,
\* or the run is over, its retries spent or its timeout_seconds elapsed.
Restart ==
    \/ /\ attempt <= MaxRetries[TaskOf(pc)]
       /\ pc' = TaskOf(pc) /\ attempt' = attempt + 1 /\ now' = clock
       /\ UNCHANGED <<runVars, sweepVars>>
    \/ /\ attempt > MaxRetries[TaskOf(pc)] \/ clock > runStart
       /\ EndRun

\* What a persist attempt leaves behind: the rows of every table replaced, or
\* some table failed and its siblings went on; the ledger row is one of them.
PersistRows(full) ==
    /\ persisted' = [persisted EXCEPT ![runSnap] = IF full THEN "full" ELSE "partial"]
    /\ \E row \in (IF full THEN {FreshRow} ELSE {NoRow, FreshRow}) :
         ledger' = [ledger EXCEPT ![runSnap] = row]
    /\ UNCHANGED <<active, inflight, everActive>>

Persist ==
    /\ pc = "persist"
    /\ \E full \in BOOLEAN :
        /\ PersistRows(full)
        /\ staged' = [staged EXCEPT ![runSnap].persist =
                        IF full THEN "ok" ELSE "errors"]
    /\ Launch("vs_upsert")
    /\ UNCHANGED <<clock, runVars, sweepVars, opVars, overlapped>>

\* Every batch got into the index, or at least one ran out of retries; the
\* task reports either and succeeds.
VsUpsert ==
    /\ pc = "vs_upsert"
    /\ \E r \in {"ok", "errors"} :
         staged' = [staged EXCEPT ![runSnap].vs_upsert = r]
    /\ Launch("smoke")
    /\ UNCHANGED <<clock, warehouseVars, persisted, runVars, sweepVars, opVars,
                   overlapped>>

Smoke ==
    /\ pc = "smoke"
    /\ \E r \in {"passed", "failed"} :
         staged' = [staged EXCEPT ![runSnap].smoke = r]
    /\ Launch("promote")
    /\ UNCHANGED <<clock, warehouseVars, persisted, runVars, sweepVars, opVars,
                   overlapped>>

GatesPass_NoPersist(s) ==     \* mutant: the persist gate is not consulted
    staged[s].vs_upsert = "ok" /\ staged[s].smoke = "passed"

GatesPass(s) == /\ staged[s].persist = "ok"
                /\ staged[s].vs_upsert = "ok"
                /\ staged[s].smoke = "passed"

AlreadyPromoted(s) == ledger[s].present /\ ledger[s].promotedAt # Null

MayPromote_Again(s) == GatesPass(s)     \* mutant: no idempotency guard
MayPromote(s) == GatesPass(s) /\ ~AlreadyPromoted(s)

\* The promote task ends with exit code 0 whatever its result says.
ReportPromote(result) ==
    /\ staged' = [staged EXCEPT ![runSnap].promote = result]
    /\ Launch("retention")

\* promote_snapshot up to the write: the three gates, then the probe of the
\* ledger, which may itself fail.
PromoteGates ==
    /\ pc = "promote"
    /\ \/ /\ ~MayPromote(runSnap)
          /\ ReportPromote("refused")
       \/ /\ GatesPass(runSnap)               \* the probe raised
          /\ ReportPromote("refused")
       \/ /\ MayPromote(runSnap)
          /\ Continue("promote_point")
          /\ UNCHANGED staged
    /\ UNCHANGED <<clock, warehouseVars, persisted, runVars, sweepVars, opVars,
                   overlapped>>

\* The first of the two statements: MERGE the pointer.
PromotePoint ==
    /\ pc = "promote_point"
    /\ \/ /\ Succeeds(Point(runSnap, now))
          /\ Continue("promote_stamp")
          /\ UNCHANGED staged
       \/ /\ Raises(Point(runSnap, now))
          /\ ReportPromote("refused")
    /\ UNCHANGED <<clock, persisted, runVars, sweepVars, opVars, overlapped>>

\* The second, a transaction of its own: stamp promoted_at_ms and signature.
PromoteStamp ==
    /\ pc = "promote_stamp"
    /\ \/ /\ Succeeds(Stamp(runSnap, now))
          /\ Continue("promote_emit")
          /\ UNCHANGED staged
       \/ /\ Raises(Stamp(runSnap, now))
          /\ ReportPromote("refused")
    /\ UNCHANGED <<clock, persisted, runVars, sweepVars, opVars, overlapped>>

\* The task writes promote.json.
PromoteEmit ==
    /\ pc = "promote_emit"
    /\ ReportPromote("promoted")
    /\ UNCHANGED <<clock, warehouseVars, persisted, runVars, sweepVars, opVars,
                   overlapped>>

-----------------------------------------------------------------------------
(* The retention task. *)

\* Targets of the rollback commands under way, lingering statements included.
RollingBack ==
    {opTarget[o] : o \in {p \in Operators : opPc[p] # "idle"}}
        \cup {st.snap : st \in {x \in inflight : x.op = "point"}}

\* run_retention of the job: the pointer is read first, through Spark.
RetentionReadActive ==
    /\ pc = "retention"
    /\ sweepActive' = IF active = NoSnapshot THEN runSnap ELSE active
    /\ sweepTodo' = {}
    /\ sweepDone' = {}
    /\ sweepFault' = FALSE
    /\ overlapped' = overlapped \cup RollingBack
    /\ Continue("sweep_list")
    /\ UNCHANGED <<clock, warehouseVars, persisted, staged, runVars, opVars>>

\* A live, promoted row: what both retention and rollback look for.
Live(s) == /\ ledger[s].present
           /\ ledger[s].deactivatedAt = Null
           /\ ledger[s].promotedAt # Null

AgedOut(s, at) == Live(s) /\ ledger[s].promotedAt < at - RetentionWindow

Eligible_Cutoff(s, activeId, at) ==     \* mutant: at the cutoff rather than past it
    Live(s) /\ ledger[s].promotedAt <= at - RetentionWindow /\ s # activeId
Eligible_Active(s, activeId, at) == AgedOut(s, at)                  \* mutant
Eligible(s, activeId, at) == AgedOut(s, at) /\ s # activeId

\* The SELECT fails when the table lacks a column it names, or for any other
\* reason; the sweep then goes on with nothing to deactivate.
SweepList ==
    /\ pc = "sweep_list"
    /\ \/ /\ ListedColumns \subseteq LedgerColumns
          /\ sweepTodo' = {s \in Snapshots : Eligible(s, sweepActive, now)}
          /\ UNCHANGED sweepFault
       \/ /\ ~(ListedColumns \subseteq LedgerColumns)
          /\ UNCHANGED <<sweepTodo, sweepFault>>
       \/ /\ sweepFault' = TRUE
          /\ UNCHANGED sweepTodo
    /\ Continue("sweep_deactivate")
    /\ UNCHANGED <<clock, warehouseVars, persisted, staged, runVars,
                   sweepActive, sweepDone, opVars, overlapped>>

\* One UPDATE per listed snapshot; a failure is noted and the rest go on.
SweepDeactivate ==
    /\ pc = "sweep_deactivate"
    /\ \E s \in sweepTodo :
        /\ sweepTodo' = sweepTodo \ {s}
        /\ \/ /\ Succeeds(Deactivate(s, now))
              /\ sweepDone' = sweepDone \cup {s}
              /\ UNCHANGED sweepFault
           \/ /\ Raises(Deactivate(s, now))
              /\ sweepFault' = TRUE
              /\ UNCHANGED sweepDone
    /\ UNCHANGED <<clock, jobVars, sweepActive, opVars, overlapped>>

SweepDeactivated_Early ==     \* mutant: the loop may stop before the list's end
    /\ pc = "sweep_deactivate"
    /\ Continue("sweep_staging")
    /\ UNCHANGED <<clock, warehouseVars, persisted, staged, runVars, sweepVars,
                   opVars, overlapped>>

SweepDeactivated ==
    /\ pc = "sweep_deactivate"
    /\ sweepTodo = {}
    /\ Continue("sweep_staging")
    /\ UNCHANGED <<clock, warehouseVars, persisted, staged, runVars, sweepVars,
                   opVars, overlapped>>

\* The staging directories of the snapshots this sweep deactivated go, each
\* unless its delete fails; then the run is over.
SweepStaging ==
    /\ pc = "sweep_staging"
    /\ \E gone \in SUBSET sweepDone :
         staged' = [s \in Snapshots |-> IF s \in gone THEN NoResults ELSE staged[s]]
    /\ EndRun
    /\ UNCHANGED <<clock, warehouseVars, persisted, opVars, overlapped>>

\* The process of the current task dies between two of its steps; a persist
\* that dies half-way has replaced some of the rows.
CrashTask ==
    /\ pc \in JobSteps
    /\ Restart
    /\ \/ /\ pc = "persist"
          /\ \E full \in BOOLEAN : PersistRows(full)
       \/ UNCHANGED <<warehouseVars, persisted>>
    /\ UNCHANGED <<clock, staged, opVars, overlapped>>

-----------------------------------------------------------------------------
(* brickvision indexer rollback --to <snapshot_id>. *)

Sweeping == pc \in {"sweep_list", "sweep_deactivate"}

\* A sweep is under way, or an UPDATE that one sent for this row still lingers.
MeetsSweep(s) ==
    Sweeping \/ \E st \in inflight : st.op = "deactivate" /\ st.snap = s

\* The command ends.
Exits(o) == /\ opPc' = [opPc EXCEPT ![o] = "idle"]
            /\ opTarget' = [opTarget EXCEPT ![o] = NoSnapshot]
            /\ opNow' = [opNow EXCEPT ![o] = 0]

\* The rate limit is read from a log that only a dry run writes, so in
\* production it never refuses.
RollbackBegin(o) ==
    /\ opPc[o] = "idle"
    /\ \E s \in Snapshots :
        /\ opTarget' = [opTarget EXCEPT ![o] = s]
        /\ overlapped' = IF MeetsSweep(s) THEN overlapped \cup {s} ELSE overlapped
    /\ opNow' = [opNow EXCEPT ![o] = clock]
    /\ opPc' = [opPc EXCEPT ![o] = "check"]
    /\ UNCHANGED <<clock, warehouseVars, jobVars, sweepVars>>

RollbackAllowed(s, at) ==
    /\ Live(s)
    /\ at - ledger[s].promotedAt <= RollbackWindow

\* The target must be in the ledger, promoted, not deactivated and inside the
\* window; a failed query counts as a missing target.
RollbackCheck(o) ==
    /\ opPc[o] = "check"
    /\ \/ /\ RollbackAllowed(opTarget[o], opNow[o])
          /\ opPc' = [opPc EXCEPT ![o] = "point"]
          /\ UNCHANGED <<opTarget, opNow>>
       \/ Exits(o)
    /\ UNCHANGED <<clock, warehouseVars, jobVars, sweepVars, overlapped>>

\* The MERGE; the ledger is left as it is.
RollbackPoint(o) ==
    /\ opPc[o] = "point"
    /\ \/ Succeeds(Point(opTarget[o], opNow[o]))
       \/ Raises(Point(opTarget[o], opNow[o]))
    /\ Exits(o)
    /\ UNCHANGED <<clock, jobVars, sweepVars, overlapped>>

-----------------------------------------------------------------------------

\* The job's timeout (two hours) lets a run cross at most one day boundary.
Tick ==
    /\ clock < MaxClock
    /\ pc # "idle" => clock = runStart
    /\ clock' = clock + 1
    /\ UNCHANGED <<warehouseVars, jobVars, sweepVars, opVars, overlapped>>

Init ==
    /\ clock = 0
    /\ ledger = [s \in Snapshots |-> NoRow]
    /\ active = NoSnapshot
    /\ inflight = {}
    /\ persisted = [s \in Snapshots |-> "none"]
    /\ staged = [s \in Snapshots |-> NoResults]
    /\ pc = "idle"
    /\ attempt = 0
    /\ runSnap = NoSnapshot
    /\ runStart = 0
    /\ now = 0
    /\ sweepActive = NoSnapshot
    /\ sweepTodo = {}
    /\ sweepDone = {}
    /\ sweepFault = FALSE
    /\ opPc = [o \in Operators |-> "idle"]
    /\ opTarget = [o \in Operators |-> NoSnapshot]
    /\ opNow = [o \in Operators |-> 0]
    /\ everActive = {}
    /\ overlapped = {}

JobStep ==
    \/ Persist \/ VsUpsert \/ Smoke
    \/ PromoteGates \/ PromotePoint \/ PromoteStamp \/ PromoteEmit
    \/ RetentionReadActive \/ SweepList \/ SweepDeactivate
    \/ SweepDeactivated \/ SweepStaging
    \/ CrashTask

OperatorStep(o) == RollbackBegin(o) \/ RollbackCheck(o) \/ RollbackPoint(o)

Next ==
    \/ Tick
    \/ Land
    \/ StartRun
    \/ JobStep
    \/ \E o \in Operators : OperatorStep(o)

Spec == Init /\ [][Next]_vars

\* The job scheduler keeps a run moving; nothing obliges anybody else.
FairSpec == Spec /\ WF_vars(JobStep)

-----------------------------------------------------------------------------
(* Properties. *)

\* Every variable keeps to its domain: timestamps are numbers or NULL, results
\* are the ones the tasks write.
TypeOK ==
    /\ clock \in Nat /\ now \in Nat /\ runStart \in Nat /\ attempt \in Nat
    /\ ledger \in [Snapshots -> LedgerRow]
    /\ active \in Snapshots \cup {NoSnapshot}
    /\ inflight \in SUBSET Statements
    /\ persisted \in [Snapshots -> {"none", "partial", "full"}]
    /\ staged \in [Snapshots -> Results]
    /\ pc \in JobSteps \cup {"idle"}
    /\ runSnap \in Snapshots \cup {NoSnapshot}
    /\ sweepActive \in Snapshots \cup {NoSnapshot}
    /\ sweepTodo \in SUBSET Snapshots
    /\ sweepDone \in SUBSET Snapshots
    /\ sweepFault \in BOOLEAN
    /\ opPc \in [Operators -> {"idle", "check", "point"}]
    /\ opTarget \in [Operators -> Snapshots \cup {NoSnapshot}]
    /\ opNow \in [Operators -> Nat]
    /\ everActive \in SUBSET Snapshots
    /\ overlapped \in SUBSET Snapshots

\* Whoever writes the pointer and however late the write lands, the snapshot it
\* names has all its rows in Delta and, while its results are still staged,
\* those results pass the three gates of promote_snapshot.
ActiveWasValidated ==
    active # NoSnapshot =>
        /\ persisted[active] = "full"
        /\ staged[active] # NoResults => GatesPass(active)

\* A ledger stamp is never ahead of the pointer: a snapshot recorded as promoted
\* has been the active one.
StampedWasActive ==
    \A s \in Snapshots : AlreadyPromoted(s) => s \in everActive

\* promoted_at_ms, the age retention and rollback go by, is written once:
\* neither a retried promote task nor a rollback restamps it.
StampWrittenOnce ==
    [][\A s \in Snapshots :
         AlreadyPromoted(s) => ledger'[s].promotedAt = ledger[s].promotedAt]_vars

\* "rollback to any snapshot promoted in the last 30 days is always available":
\* retention never deactivates a snapshot still inside the window.
RollbackAlwaysAvailable ==
    \A s \in Snapshots :
        AlreadyPromoted(s) /\ clock - ledger[s].promotedAt <= RetentionWindow
            => ledger[s].deactivatedAt = Null

\* The active snapshot is deactivated only when a rollback to it overlapped a
\* sweep or its lingering statements: apart from that race retention spares
\* whatever is serving, the two windows being set apart or not.
ActiveDeactivatedOnlyByOverlap ==
    active # NoSnapshot /\ ledger[active].deactivatedAt # Null
        => active \in overlapped

\* "Scans corpus_snapshots for snapshots older than the retention window AND not
\* currently the active snapshot, marking them deactivated": a sweep whose
\* statements all worked leaves no such snapshot behind.
SweepIsThorough ==
    pc = "sweep_staging" /\ ~sweepFault
        => \A s \in Snapshots : ~Eligible(s, sweepActive, now)

\* "both writes either commit together or both roll back": once a run is over
\* and the warehouse is quiet, the pointer never names an unstamped snapshot.
PromotionIsAtomic ==
    pc = "idle" /\ inflight = {} /\ active # NoSnapshot => AlreadyPromoted(active)

\* A run ends, whatever fails in it: retries are finite and no step waits.
RunTerminates == pc # "idle" ~> pc = "idle"

-----------------------------------------------------------------------------
(* What the readers of the graph may rely on.  The mapping forgets the job,  *)
(* the operators and the lingering statements and keeps the two tables.      *)

Registry == INSTANCE SnapshotRegistry WITH
    complete <- {s \in Snapshots : persisted[s] = "full"},
    served   <- everActive,
    stamped  <- {s \in Snapshots : AlreadyPromoted(s)},
    retired  <- {s \in Snapshots : ledger[s].deactivatedAt # Null}

\* Every step of the job, of an operator or of the warehouse is a step of the
\* abstract registry or none: the pointer moves only to a complete snapshot, whose
\* rows nobody touches any more, the ledger records only what has been served and
\* retires only what it recorded.
ImplementsRegistry == Registry!Spec
=============================================================================

--------------------------- MODULE UsecaseExecutions ---------------------------
(***************************************************************************)
(* The execution monitor of the console: start_usecase_execution puts a    *)
(* run in the memory of the sidecar process and a job in its thread pool,  *)
(* and the job runs the family's skill, then stores what it proved.  The   *)
(* check for a run already active and the insertion of a new one are two   *)
(* critical sections.  A request may also ask for a tool proof directly:   *)
(* its thread does what a job does and the monitor knows nothing of it.    *)
(* One usecase; its runs differ by family.                                 *)
(***************************************************************************)
EXTENDS Integers, Sequences, FiniteSets

CONSTANTS
    Executions,     \* the execution ids that may be handed out
    Callers,        \* request threads that start executions
    ToolFamilies,   \* families executed
    NoFamily,
    PoolSize,       \* max_workers
    MaxAsked        \* bound on the tool proofs asked for directly

\* Families run_usecase_tool_proof returns early for, and the one it answers
\* from the runtime registry.
Unrecorded == {"Migration", "Code Convert"}
Registry == {"AI"}

ASSUME ToolFamiliesAssumption ==
    /\ ToolFamilies \subseteq {"SQL", "PySpark", "ML", "AI"} \cup Unrecorded
    /\ NoFamily \notin ToolFamilies
ASSUME PoolSizeAssumption == PoolSize \in Nat \ {0}
ASSUME MaxAskedAssumption == MaxAsked \in Nat

VARIABLES
    status,      \* of each run in _RUNS; "none" if it is not there
    family,      \* what the run proves
    persist,     \* status of its proof_persist step
    stage,       \* how far its job has come
    queue,       \* jobs waiting for a thread
    starting,    \* per caller: the family of the start under way
    skillRuns,   \* executions with a row in workspace_skill_execution_runs
    proofs,      \* executions with a row in workspace_usecase_tool_proofs
    issued,      \* history: execution ids handed out
    asked,       \* history: executions that are tool proofs asked for directly
    overtaken,   \* history: callers that another start of their family overtook
    raced        \* history: executions whose caller was overtaken

runVars == <<status, family, persist, stage>>
storeVars == <<skillRuns, proofs>>
historyVars == <<issued, asked, overtaken, raced>>
vars == <<runVars, queue, starting, storeVars, historyVars>>

Active == {e \in Executions : status[e] \in {"queued", "running"}}
Busy == {e \in Executions : stage[e] # "none" /\ e \notin asked}

\* Ids carry no meaning: the least of those left is the next, and
\* nothing more is started when none is left.
Fresh == {e \in Executions \ issued : \A d \in Executions \ issued : e <= d}

-----------------------------------------------------------------------------
(* start_usecase_execution. *)

\* Under the lock: a run of the family that is queued or running is the answer,
\* and nothing is started.
StartCheck_Running(c) ==                \* mutant: a queued run does not count
    /\ starting[c] = NoFamily /\ Fresh # {}
    /\ \E f \in ToolFamilies :
        /\ ~\E e \in Active : family[e] = f /\ status[e] = "running"
        /\ starting' = [starting EXCEPT ![c] = f]
    /\ UNCHANGED <<runVars, queue, storeVars, historyVars>>

StartCheck(c) ==
    /\ starting[c] = NoFamily /\ Fresh # {}
    /\ \E f \in ToolFamilies :
        /\ ~\E e \in Active : family[e] = f
        /\ starting' = [starting EXCEPT ![c] = f]
    /\ UNCHANGED <<runVars, queue, storeVars, historyVars>>

\* Under the lock again: the new run goes in, then its job to the pool.
StartInsert(c) ==
    /\ starting[c] # NoFamily
    /\ \E e \in Fresh :
        /\ status' = [status EXCEPT ![e] = "queued"]
        /\ family' = [family EXCEPT ![e] = starting[c]]
        /\ persist' = [persist EXCEPT ![e] = "pending"]
        /\ queue' = Append(queue, e)
        /\ issued' = issued \cup {e}
        /\ raced' = IF c \in overtaken THEN raced \cup {e} ELSE raced
    /\ overtaken' = (overtaken \cup {d \in Callers : starting[d] = starting[c]}) \ {c}
    /\ starting' = [starting EXCEPT ![c] = NoFamily]
    /\ UNCHANGED <<stage, storeVars, asked>>

\* run_tool_proof: the thread of the request does the work, outside the pool and
\* without a look at what is active.
AskProof(f) ==
    /\ Cardinality(asked) < MaxAsked
    /\ \E e \in Fresh :
        /\ family' = [family EXCEPT ![e] = f]
        /\ stage' = [stage EXCEPT ![e] = "execute"]
        /\ issued' = issued \cup {e}
        /\ asked' = asked \cup {e}
    /\ UNCHANGED <<status, persist, queue, starting, storeVars, overtaken, raced>>

-----------------------------------------------------------------------------
(* The job of a run, or of a request. *)

\* A thread of the pool takes the next job.
Begin_Unpooled ==                       \* mutant: a thread per run
    /\ queue # <<>>
    /\ status' = [status EXCEPT ![Head(queue)] = "running"]
    /\ stage' = [stage EXCEPT ![Head(queue)] = "execute"]
    /\ queue' = Tail(queue)
    /\ UNCHANGED <<family, persist, starting, storeVars, historyVars>>

Begin ==
    /\ queue # <<>>
    /\ Cardinality(Busy) < PoolSize
    /\ status' = [status EXCEPT ![Head(queue)] = "running"]
    /\ stage' = [stage EXCEPT ![Head(queue)] = "execute"]
    /\ queue' = Tail(queue)
    /\ UNCHANGED <<family, persist, starting, storeVars, historyVars>>

Continue(e, next) ==
    /\ stage' = [stage EXCEPT ![e] = next]
    /\ UNCHANGED <<status, family, persist>>

\* A request has its answer; the monitor shows the end of its own runs.
End(e, outcome, proofStep) ==
    /\ stage' = [stage EXCEPT ![e] = "none"]
    /\ \/ /\ e \notin asked
          /\ status' = [status EXCEPT ![e] = outcome]
          /\ persist' = [persist EXCEPT ![e] = proofStep]
       \/ e \in asked /\ UNCHANGED <<status, persist>>
    /\ UNCHANGED family

\* An exception reached the job.
Fails_Unreported(e) == Continue(e, "none")     \* mutant: nothing catches it
Fails(e) == End(e, "failed", "skipped")

\* An answer reached the job, which takes its proof for persisted.
Reports(e, outcome) == End(e, outcome, "completed")

\* The row is stored and the job goes on; or the INSERT raised, and the
\* warehouse has it or not.
Stores_Careless(e, rows, next) ==              \* mutant: the INSERT may raise unnoticed
    /\ rows' \in {rows, rows \cup {e}}
    /\ Continue(e, next)

Stores(e, rows, next) ==
    \/ rows' = rows \cup {e} /\ Continue(e, next)
    \/ rows' \in {rows, rows \cup {e}} /\ Fails(e)

\* The skill came to a verdict, which is stored.
Verdict(e, verdict) ==
    /\ stage[e] = "execute" /\ family[e] \notin Unrecorded \cup Registry
    /\ Stores(e, skillRuns, verdict)
    /\ UNCHANGED <<queue, starting, proofs, historyVars>>

\* No skill ran, or none whose run is stored: it was blocked before it could, or
\* the family has no such record, or there is no such usecase.
TurnedAway(e) ==
    /\ stage[e] = "execute"
    /\ \/ family[e] \notin Unrecorded /\ Continue(e, "unproven")
       \/ family[e] \in Unrecorded /\ Reports(e, "completed")
       \/ Reports(e, "blocked")
       \/ Fails(e)
    /\ UNCHANGED <<queue, starting, storeVars, historyVars>>

Execute(e) == TurnedAway(e) \/ \E verdict \in {"proven", "unproven"} : Verdict(e, verdict)

\* _persist_tool_proof: the row of the proof, whatever its verdict.
PersistProof(e) ==
    /\ \/ stage[e] = "proven" /\ Stores(e, proofs, "report proven")
       \/ stage[e] = "unproven" /\ Stores(e, proofs, "report unproven")
    /\ UNCHANGED <<queue, starting, skillRuns, historyVars>>

ReportProof(e) ==
    /\ \/ stage[e] = "report proven" /\ Reports(e, "completed")
       \/ stage[e] = "report unproven" /\ Reports(e, "blocked")
    /\ UNCHANGED <<queue, starting, storeVars, historyVars>>

\* The sidecar process is replaced: what it had in memory is gone.
Restart ==
    /\ status' = [e \in Executions |-> "none"]
    /\ family' = [e \in Executions |-> NoFamily]
    /\ persist' = [e \in Executions |-> "none"]
    /\ stage' = [e \in Executions |-> "none"]
    /\ queue' = <<>>
    /\ starting' = [c \in Callers |-> NoFamily]
    /\ overtaken' = {}
    /\ UNCHANGED <<storeVars, issued, asked, raced>>

Init ==
    /\ status = [e \in Executions |-> "none"]
    /\ family = [e \in Executions |-> NoFamily]
    /\ persist = [e \in Executions |-> "none"]
    /\ stage = [e \in Executions |-> "none"]
    /\ queue = <<>>
    /\ starting = [c \in Callers |-> NoFamily]
    /\ skillRuns = {} /\ proofs = {}
    /\ issued = {} /\ asked = {} /\ overtaken = {} /\ raced = {}

JobStep(e) == Execute(e) \/ PersistProof(e) \/ ReportProof(e)

Next ==
    \/ \E c \in Callers : StartCheck(c) \/ StartInsert(c)
    \/ \E f \in ToolFamilies : AskProof(f)
    \/ Begin
    \/ \E e \in Executions : JobStep(e)
    \/ Restart

Spec == Init /\ [][Next]_vars

-----------------------------------------------------------------------------
(* Properties. *)

\* Every variable keeps to its domain, and no more jobs run than the pool has
\* threads.
TypeOK ==
    /\ status \in [Executions -> {"none", "queued", "running", "completed",
                                  "blocked", "failed"}]
    /\ family \in [Executions -> ToolFamilies \cup {NoFamily}]
    /\ persist \in [Executions -> {"none", "pending", "completed", "skipped"}]
    /\ stage \in [Executions -> {"none", "execute", "proven", "unproven",
                                 "report proven", "report unproven"}]
    /\ queue \in Seq(Executions)
    /\ starting \in [Callers -> ToolFamilies \cup {NoFamily}]
    /\ skillRuns \in SUBSET Executions
    /\ proofs \in SUBSET Executions
    /\ issued \in SUBSET Executions
    /\ asked \in SUBSET Executions
    /\ overtaken \in SUBSET Callers
    /\ raced \in SUBSET Executions
    /\ Cardinality(Busy) <= PoolSize

\* Two runs of one family are active together only when their starts overlapped:
\* the one put in later had made its check before the other was in, the window
\* the two critical sections of start_usecase_execution leave.
DuplicatesOnlyByRace ==
    \A e, f \in Active :
        e # f /\ family[e] = family[f] => e \in raced \/ f \in raced

\* A completed run of a recorded family has its rows in both tables, whichever
\* INSERTs raised and however the jobs interleaved.
CompletedIsRecorded ==
    \A e \in Executions :
        status[e] = "completed" /\ family[e] \notin Unrecorded
            => e \in proofs /\ e \in skillRuns

\* No run stays active for good, so its family can be started again: it ends, or
\* the process is replaced.
ExecutionsEnd == \A e \in Executions : []<>(e \notin Active)
=============================================================================

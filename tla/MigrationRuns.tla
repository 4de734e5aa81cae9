---------------------------- MODULE MigrationRuns ----------------------------
(***************************************************************************)
(* Migration workflow runs: each is a record in the memory of the sidecar  *)
(* process, changed under a lock, and after every change a row appended to *)
(* workspace_migration_runs outside it.  Storing a row may fail without    *)
(* anyone noticing, or succeed long after; the process may be replaced.    *)
(* The console shows a run from both: what is in memory, and otherwise its *)
(* newest row, as interrupted if that row is of an unfinished run.         *)
(***************************************************************************)
EXTENDS Integers, Sequences, FiniteSets, LakebridgeSwitch

CONSTANTS
    Runs,        \* migration run ids
    Workflow,    \* [run -> what it is for]
    Found,       \* what a run may find installed and bound
    Pollers,     \* consoles asking for them
    PoolSize,    \* max_workers
    MaxLate      \* bound: INSERTs outstanding after their client gave up

ASSUME PoolSizeAssumption == PoolSize \in Nat \ {0}
ASSUME MaxLateAssumption == MaxLate \in Nat
ASSUME WorkflowAssumption == Workflow \in [Runs -> {"assessment", "sql_transpile", "code_convert"}]
ASSUME FoundAssumption == Found \subseteq Settings

Final == {"completed", "blocked", "failed"}
Statuses == {"queued", "running"} \cup Final

VARIABLES
    memory,      \* status of each run in _RUNS; "none" if it is not there
    stage,       \* where the thread that has the run in hand is
    queue,       \* runs waiting for a thread of the pool
    rows,        \* workspace_migration_runs
    lateRows,    \* INSERTs the warehouse may still carry out
    poll,        \* what each console's request has read so far
    answer,      \* the status each console shows of each run
    settled,     \* history: runs whose final row was there when the request read
    lost         \* history: runs the process had in memory when it was replaced

processVars == <<memory, stage, queue>>
tableVars == <<rows, lateRows>>
consoleVars == <<poll, answer, settled>>
vars == <<processVars, tableVars, consoleVars, lost>>

Row(r, status) == [run |-> r, status |-> status]

\* updated_at_ms grows from one status to the next, and so orders the rows.
Rank(status) ==
    CASE status = "none"    -> 0
      [] status = "queued"  -> 1
      [] status = "running" -> 2
      [] OTHER              -> 3

-----------------------------------------------------------------------------
(* The life of a run. *)

StartRun(r) ==
    /\ memory[r] = "none" /\ r \notin lost
    /\ memory' = [memory EXCEPT ![r] = "queued"]
    /\ stage' = [stage EXCEPT ![r] = "persist"]
    /\ UNCHANGED <<queue, tableVars, consoleVars, lost>>

\* _safe_persist_run, after which a new run goes to the pool, a running one
\* does its work, and a finished one is done with.
Proceeds(r) ==
    /\ stage' = [stage EXCEPT ![r] = IF memory[r] = "running" THEN "execute" ELSE "none"]
    /\ queue' = IF memory[r] = "queued" THEN Append(queue, r) ELSE queue

PersistRun_Raises(r) ==                 \* mutant: the exception ends the thread
    /\ stage[r] = "persist"
    /\ \/ rows' = rows \cup {Row(r, memory[r])} /\ Proceeds(r)
       \/ UNCHANGED rows /\ stage' = [stage EXCEPT ![r] = "none"] /\ UNCHANGED queue
    /\ UNCHANGED <<memory, lateRows, consoleVars, lost>>

PersistRun(r) ==
    /\ stage[r] = "persist"
    /\ LET row == Row(r, memory[r])
       IN  \/ rows' = rows \cup {row} /\ UNCHANGED lateRows
           \/ UNCHANGED tableVars
           \/ /\ Cardinality(lateRows) < MaxLate
              /\ lateRows' = lateRows \cup {row}
              /\ UNCHANGED rows
    /\ Proceeds(r)
    /\ UNCHANGED <<memory, consoleVars, lost>>

Busy == {r \in Runs : memory[r] \notin {"none", "queued"} /\ stage[r] # "none"}

\* A thread of the pool takes the next run and marks it running.
TakeRun ==
    /\ queue # <<>>
    /\ Cardinality(Busy) < PoolSize
    /\ memory' = [memory EXCEPT ![Head(queue)] = "running"]
    /\ stage' = [stage EXCEPT ![Head(queue)] = "persist"]
    /\ queue' = Tail(queue)
    /\ UNCHANGED <<tableVars, consoleVars, lost>>

FamilyOf(workflow) ==
    CASE workflow = "assessment"    -> "Assessment"
      [] workflow = "sql_transpile" -> "Migration"
      [] workflow = "code_convert"  -> "Code Convert"

\* What the skill answers; a conversion that was started may still go wrong.
Answers(outcome) ==
    CASE outcome = "ready"                  -> {"completed"}
      [] outcome \in {"waited", "unwaited"} -> {"completed", "blocked"}
      [] OTHER                              -> {"blocked"}

\* The skill answered, or an exception reached the thread.
FinishRun(r) ==
    /\ stage[r] = "execute"
    /\ \E s \in Found :
         \E status \in Answers(Outcome(FamilyOf(Workflow[r]), s)) \cup {"failed"} :
            memory' = [memory EXCEPT ![r] = status]
    /\ stage' = [stage EXCEPT ![r] = "persist"]
    /\ UNCHANGED <<queue, tableVars, consoleVars, lost>>

LandRow ==
    \E row \in lateRows :
        /\ rows' = rows \cup {row}
        /\ lateRows' = lateRows \ {row}
        /\ UNCHANGED <<processVars, consoleVars, lost>>

-----------------------------------------------------------------------------
(* The console. *)

Idle == [pc |-> "idle"]

\* ORDER BY updated_at_ms DESC, the first row of each run.
Latest_Oldest(table) ==                                \* mutant: no DESC
    [r \in Runs |->
        LET mine == {s \in Statuses : Row(r, s) \in table}
        IN  IF mine = {} THEN "none"
            ELSE CHOOSE s \in mine : \A t \in mine : Rank(s) <= Rank(t)]

Latest(table) ==
    [r \in Runs |->
        LET mine == {s \in Statuses : Row(r, s) \in table}
        IN  IF mine = {} THEN "none"
            ELSE CHOOSE s \in mine : \A t \in mine : Rank(t) <= Rank(s)]

SettledIn(table) == {r \in Runs : \E s \in Final : Row(r, s) \in table}

\* _load_persisted_runs: whatever goes wrong reads as no rows.
Loads(p, pc) ==
    \E table \in {rows, {}} :
        poll' = [poll EXCEPT ![p] = [pc |-> pc, latest |-> Latest(table),
                                     settled |-> SettledIn(table)]]

\* _with_local_liveness.
LocalLiveness(status, active) ==
    IF status \in {"queued", "running"} /\ ~active THEN "interrupted" ELSE status

ListBegin(p) ==
    /\ poll[p] = Idle
    /\ Loads(p, "list")
    /\ UNCHANGED <<processVars, tableVars, answer, settled, lost>>

\* What is in memory takes the place of what was read before.
InMemory_Started(r) == memory[r] \notin {"none", "queued"}   \* mutant
InMemory(r) == memory[r] # "none"

Merged_RowsWin(r, stored) ==                           \* mutant: the update the other way
    IF stored # "none" THEN LocalLiveness(stored, InMemory(r)) ELSE memory[r]

Merged(r, stored) ==
    IF InMemory(r) THEN memory[r] ELSE LocalLiveness(stored, FALSE)

ListAnswer(p) ==
    /\ poll[p].pc = "list"
    /\ answer' = [answer EXCEPT ![p] = [r \in Runs |-> Merged(r, poll[p].latest[r])]]
    /\ settled' = [settled EXCEPT ![p] = poll[p].settled]
    /\ poll' = [poll EXCEPT ![p] = Idle]
    /\ UNCHANGED <<processVars, tableVars, lost>>

\* get_migration_run looks at the rows only of a run that is not in memory; the
\* console keeps what it showed of the others.
GetAnswer(p, r) ==
    /\ poll[p] = Idle
    /\ \/ /\ memory[r] # "none"
          /\ answer' = [answer EXCEPT ![p][r] = memory[r]]
          /\ settled' = [settled EXCEPT ![p] = @ \ {r}]
       \/ /\ memory[r] = "none"
          /\ \E table \in {rows, {}} :
              /\ answer' = [answer EXCEPT ![p][r] = LocalLiveness(Latest(table)[r], FALSE)]
              /\ settled' = [settled EXCEPT ![p] = (@ \ {r}) \cup (SettledIn(table) \cap {r})]
    /\ UNCHANGED <<processVars, tableVars, poll, lost>>

\* The sidecar process is replaced; an INSERT it had sent may still be done.
Restart ==
    /\ \E sent \in SUBSET {Row(r, memory[r]) : r \in {q \in Runs : stage[q] = "persist"}} :
        /\ Cardinality(lateRows \cup sent) <= MaxLate
        /\ lateRows' = lateRows \cup sent
    /\ lost' = lost \cup {r \in Runs : memory[r] # "none"}
    /\ memory' = [r \in Runs |-> "none"]
    /\ stage' = [r \in Runs |-> "none"]
    /\ queue' = <<>>
    /\ poll' = [p \in Pollers |-> Idle]
    /\ UNCHANGED <<rows, answer, settled>>

Init ==
    /\ memory = [r \in Runs |-> "none"]
    /\ stage = [r \in Runs |-> "none"]
    /\ queue = <<>>
    /\ rows = {} /\ lateRows = {}
    /\ poll = [p \in Pollers |-> Idle]
    /\ answer = [p \in Pollers |-> [r \in Runs |-> "none"]]
    /\ settled = [p \in Pollers |-> {}]
    /\ lost = {}

RunStep(r) == PersistRun(r) \/ FinishRun(r)

Next ==
    \/ \E r \in Runs : StartRun(r) \/ RunStep(r)
    \/ TakeRun
    \/ LandRow
    \/ \E p \in Pollers : ListBegin(p) \/ ListAnswer(p) \/ \E r \in Runs : GetAnswer(p, r)
    \/ Restart

Spec == Init /\ [][Next]_vars

\* Threads of the pool run, and whatever they wait for answers or times out.
FairSpec ==
    /\ Spec
    /\ WF_vars(TakeRun)
    /\ \A r \in Runs : WF_vars(RunStep(r))

-----------------------------------------------------------------------------
(* Properties. *)

\* Every variable keeps to its domain, and the pool is not exceeded.
TypeOK ==
    /\ memory \in [Runs -> Statuses \cup {"none"}]
    /\ stage \in [Runs -> {"none", "persist", "execute"}]
    /\ queue \in Seq(Runs)
    /\ rows \in SUBSET [run : Runs, status : Statuses]
    /\ lateRows \in SUBSET [run : Runs, status : Statuses]
    /\ poll \in [Pollers -> {Idle} \cup [pc : {"list"},
                                         latest : [Runs -> Statuses \cup {"none"}],
                                         settled : SUBSET Runs]]
    /\ answer \in [Pollers -> [Runs -> Final \cup {"none", "queued", "running",
                                                   "interrupted"}]]
    /\ settled \in [Pollers -> SUBSET Runs]
    /\ lost \in SUBSET Runs
    /\ Cardinality(Busy) <= PoolSize

\* A run shown as interrupted was lost with the process that had it: no request
\* takes a run that has just been started, or is under way, for one.
InterruptedMeansLost ==
    \A p \in Pollers, r \in Runs : answer[p][r] = "interrupted" => r \in lost

\* Once the row of a run's result could be read, no row that is older, or that
\* lands later, hides it.
ResultsNotHidden ==
    \A p \in Pollers : \A r \in settled[p] : answer[p][r] \in Final

\* What a console shows of a run goes back, to an earlier status or to nothing,
\* only for a run that was lost.
AnswersMoveForward ==
    [][\A p \in Pollers, r \in Runs :
         Rank(answer'[p][r]) < Rank(answer[p][r]) => r \in lost']_vars

\* An accepted run does not stay unfinished, even if none of its rows can be
\* stored: it ends, or the process is replaced.
RunsEnd == \A r \in Runs : memory[r] = "queued" ~> memory[r] \notin {"queued", "running"}
=============================================================================

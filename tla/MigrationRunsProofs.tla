-------------------------- MODULE MigrationRunsProofs --------------------------
(***************************************************************************)
(* What holds of MigrationRuns for any runs, consoles and size of the pool, *)
(* and any number of INSERTs outstanding.                                  *)
(***************************************************************************)
EXTENDS MigrationRuns, FiniteSetTheorems, TLAPS

-----------------------------------------------------------------------------
(* Ranks and rows. *)

LEMMA Ranks ==
  /\ Rank("none") = 0 /\ Rank("queued") = 1 /\ Rank("running") = 2
  /\ \A s \in Final \cup {"interrupted"} : Rank(s) = 3
  /\ \A s \in Statuses \cup {"none", "interrupted"} : Rank(s) \in 0..3
  /\ \A s \in Statuses \cup {"none"} : Rank(s) = 3 => s \in Final
BY DEF Rank, Final, Statuses

\* The newest row of a run is one of its rows, and a final one if there is any.
LEMMA LatestRow ==
  ASSUME NEW table, NEW r \in Runs
  PROVE  /\ Latest(table)[r] \in Statuses \cup {"none"}
         /\ Latest(table)[r] # "none" => Row(r, Latest(table)[r]) \in table
         /\ r \in SettledIn(table) => Latest(table)[r] \in Final
<1> DEFINE mine == {s \in Statuses : Row(r, s) \in table}
           newest == CHOOSE s \in mine : \A t \in mine : Rank(t) <= Rank(s)
<1>1. Latest(table)[r] = IF mine = {} THEN "none" ELSE newest
  BY DEF Latest
<1>2. ASSUME mine # {}
      PROVE  newest \in mine /\ \A t \in mine : Rank(t) <= Rank(newest)
  <2>1. \E s \in mine : \A t \in mine : Rank(t) <= Rank(s)
    <3>1. CASE \E s \in mine : s \in Final BY <3>1, Ranks DEF Statuses
    <3>2. CASE ~(\E s \in mine : s \in Final) /\ "running" \in mine
      BY <3>2, Ranks DEF Statuses
    <3>3. CASE ~(\E s \in mine : s \in Final) /\ "running" \notin mine
      <4>1. mine = {"queued"} BY <1>2, <3>3 DEF Statuses
      <4> QED BY <4>1, Ranks
    <3> QED BY <3>1, <3>2, <3>3
  <2> QED BY <2>1
<1>3. ASSUME r \in SettledIn(table) PROVE mine # {} /\ newest \in Final
  <2>1. PICK s \in Final : s \in mine BY <1>3 DEF SettledIn, Statuses
  <2>2. newest \in mine /\ Rank(s) <= Rank(newest) BY <2>1, <1>2
  <2>3. Rank(s) = 3 /\ Rank(newest) \in 0..3 BY <2>1, <2>2, Ranks DEF Statuses
  <2>4. Rank(newest) = 3 BY <2>2, <2>3
  <2> QED BY <2>1, <2>2, <2>4, Ranks
<1> QED BY <1>1, <1>2, <1>3 DEF Statuses

\* What a request may read is no newer than the rows.
LEMMA NoRows == \A r \in Runs : r \notin SettledIn({}) /\ Latest({})[r] = "none"
BY DEF SettledIn, Latest

-----------------------------------------------------------------------------
(* The inductive invariant. *)

TypeInv == TypeOK /\ IsFiniteSet(Busy)

\* A waiting run is queued, waits once, and no thread has it; what a thread has in
\* hand says which status it has.  What was lost does not come back.
Placed ==
    /\ \A i \in 1..Len(queue) : memory[queue[i]] = "queued" /\ stage[queue[i]] = "none"
    /\ \A i, j \in 1..Len(queue) : queue[i] = queue[j] => i = j
    /\ \A r \in Runs :
          /\ stage[r] = "execute" => memory[r] = "running"
          /\ stage[r] = "persist" => memory[r] # "none"
          /\ r \in lost => memory[r] = "none"

\* Memory is ahead of whatever was read or shown of a run, unless it is lost.
Behind(r, status) == r \in lost \/ Rank(status) <= Rank(memory[r])

RowsTrail ==
    \A r \in Runs, s \in Statuses : Row(r, s) \in rows \cup lateRows => Behind(r, s)

ReadsTrail ==
    \A p \in Pollers : poll[p].pc = "list" =>
        \A r \in Runs :
            /\ Behind(r, poll[p].latest[r])
            /\ r \in poll[p].settled => poll[p].latest[r] \in Final

AnswersTrail ==
    \A p \in Pollers, r \in Runs :
        /\ Behind(r, answer[p][r])
        /\ r \in lost \/ answer[p][r] # "interrupted"

Facts == Placed /\ RowsTrail /\ ReadsTrail /\ AnswersTrail /\ ResultsNotHidden
IInv == TypeInv /\ Facts

-----------------------------------------------------------------------------
(* Types. *)

LEMMA BusyShrinks ==
  ASSUME TypeInv, Busy' \subseteq Busy
  PROVE  IsFiniteSet(Busy') /\ Cardinality(Busy') <= PoolSize
<1>1. IsFiniteSet(Busy') /\ Cardinality(Busy') <= Cardinality(Busy)
  BY FS_Subset DEF TypeInv
<1>2. Cardinality(Busy) \in Nat /\ Cardinality(Busy') \in Nat
  BY <1>1, FS_CardinalityType DEF TypeInv
<1> QED BY <1>1, <1>2, PoolSizeAssumption DEF TypeInv, TypeOK

\* A free thread takes one more run.
LEMMA BusyGrows ==
  ASSUME TypeInv, NEW r, Cardinality(Busy) < PoolSize, Busy' \subseteq Busy \cup {r}
  PROVE  IsFiniteSet(Busy') /\ Cardinality(Busy') <= PoolSize
<1>1. /\ IsFiniteSet(Busy \cup {r}) /\ Cardinality(Busy) \in Nat
      /\ Cardinality(Busy \cup {r}) = Cardinality(Busy)
         \/ Cardinality(Busy \cup {r}) = Cardinality(Busy) + 1
  BY FS_AddElement, FS_CardinalityType DEF TypeInv
<1>2. IsFiniteSet(Busy') /\ Cardinality(Busy') <= Cardinality(Busy \cup {r})
  BY <1>1, FS_Subset
<1>3. Cardinality(Busy') \in Nat BY <1>2, FS_CardinalityType
<1> QED BY <1>1, <1>2, <1>3, PoolSizeAssumption

LEMMA QueueTypes ==
  ASSUME queue \in Seq(Runs)
  PROVE  /\ \A r \in Runs : Append(queue, r) \in Seq(Runs)
         /\ queue # <<>> => Head(queue) \in Runs /\ Tail(queue) \in Seq(Runs)
         /\ <<>> \in Seq(Runs)
OBVIOUS

LEMMA InitInv == Init => IInv
<1> SUFFICES ASSUME Init PROVE IInv OBVIOUS
<1>1. Busy = {} BY DEF Init, Busy
<1>2. IsFiniteSet(Busy) /\ Cardinality(Busy) = 0 BY <1>1, FS_EmptySet
<1>3. queue \in Seq(Runs) BY DEF Init
<1>4. TypeInv BY <1>2, <1>3, PoolSizeAssumption DEF Init, TypeInv, TypeOK
<1>5. Len(queue) = 0 BY DEF Init
<1>6. Placed BY <1>5 DEF Init, Placed
<1>7. RowsTrail /\ ReadsTrail /\ AnswersTrail /\ ResultsNotHidden
  BY Ranks DEF Init, RowsTrail, ReadsTrail, AnswersTrail, ResultsNotHidden, Behind, Idle
<1> QED BY <1>4, <1>6, <1>7 DEF IInv, Facts

-----------------------------------------------------------------------------
(* The runs. *)

\* A run only moves forward, and what was read or shown stays behind it.
LEMMA MemoryGrows ==
  ASSUME IInv, UNCHANGED <<consoleVars, lost>>,
         \A r \in Runs : Rank(memory[r]) <= Rank(memory'[r]),
         memory' \in [Runs -> Statuses \cup {"none"}],
         \A r \in Runs, s \in Statuses :
            Row(r, s) \in rows' \cup lateRows' => Row(r, s) \in rows \cup lateRows \/ s = memory[r]
  PROVE  RowsTrail' /\ ReadsTrail' /\ AnswersTrail' /\ ResultsNotHidden'
<1> USE DEF consoleVars
<1>1. \A r \in Runs, s \in Statuses \cup {"none", "interrupted"} : Behind(r, s) => Behind(r, s)'
  <2> SUFFICES ASSUME NEW r \in Runs, NEW s \in Statuses \cup {"none", "interrupted"},
                      Rank(s) <= Rank(memory[r])
               PROVE  Rank(s) <= Rank(memory'[r])
    BY DEF Behind
  <2>1. memory[r] \in Statuses \cup {"none"} /\ memory'[r] \in Statuses \cup {"none"}
    BY DEF IInv, TypeInv, TypeOK
  <2>2. Rank(s) \in 0..3 /\ Rank(memory[r]) \in 0..3 /\ Rank(memory'[r]) \in 0..3
    BY <2>1, Ranks
  <2> QED BY <2>2
<1>2. \A r \in Runs : memory[r] \in Statuses => Behind(r, memory[r])
  BY Ranks DEF Behind
<1>3. RowsTrail' BY <1>1, <1>2 DEF IInv, Facts, RowsTrail
<1>4. ReadsTrail'
  <2>1. \A p \in Pollers, r \in Runs :
           poll[p].pc = "list" => poll[p].latest[r] \in Statuses \cup {"none"}
    BY DEF IInv, TypeInv, TypeOK, Idle
  <2> QED BY <1>1, <2>1 DEF IInv, Facts, ReadsTrail
<1>5. AnswersTrail'
  <2>1. \A p \in Pollers, r \in Runs : answer[p][r] \in Statuses \cup {"none", "interrupted"}
    BY DEF IInv, TypeInv, TypeOK, Statuses
  <2> QED BY <1>1, <2>1 DEF IInv, Facts, AnswersTrail
<1>6. ResultsNotHidden' BY DEF IInv, Facts, ResultsNotHidden
<1> QED BY <1>3, <1>4, <1>5, <1>6

LEMMA StepForward ==
  ASSUME IInv, NEW r \in Runs, NEW status \in Statuses, memory' = [memory EXCEPT ![r] = status],
         Rank(memory[r]) <= Rank(status)
  PROVE  \A x \in Runs : Rank(memory[x]) <= Rank(memory'[x])
<1> SUFFICES ASSUME NEW x \in Runs, x # r PROVE Rank(memory[x]) <= Rank(memory'[x])
  BY DEF IInv, TypeInv, TypeOK
<1>1. memory'[x] = memory[x] /\ memory[x] \in Statuses \cup {"none"}
  BY DEF IInv, TypeInv, TypeOK
<1>2. Rank(memory[x]) \in 0..3 BY <1>1, Ranks
<1> QED BY <1>1, <1>2

LEMMA StartInv == ASSUME IInv, NEW r \in Runs, StartRun(r) PROVE IInv'
<1> USE DEF IInv, TypeInv, TypeOK
<1>1. /\ memory[r] = "none" /\ r \notin lost
      /\ memory' = [memory EXCEPT ![r] = "queued"]
      /\ stage' = [stage EXCEPT ![r] = "persist"]
      /\ UNCHANGED <<queue, rows, lateRows, consoleVars, lost>>
  BY DEF StartRun, tableVars
<1>2. Busy' \subseteq Busy BY <1>1 DEF Busy
<1>3. TypeInv'
  <2>1. memory' \in [Runs -> Statuses \cup {"none"}] BY <1>1 DEF Statuses
  <2>2. stage' \in [Runs -> {"none", "persist", "execute"}] BY <1>1
  <2> QED BY <1>1, <1>2, <2>1, <2>2, BusyShrinks DEF consoleVars
<1>4. Placed'
  <2>1. \A i \in 1..Len(queue) : queue[i] \in Runs /\ queue[i] # r
    BY <1>1 DEF Facts, Placed
  <2> QED BY <1>1, <2>1 DEF Facts, Placed
<1>5. \A x \in Runs : Rank(memory[x]) <= Rank(memory'[x])
  BY <1>1, Ranks, StepForward DEF Statuses
<1> QED BY <1>1, <1>3, <1>4, <1>5, MemoryGrows DEF Facts

LEMMA PersistInv == ASSUME IInv, NEW r \in Runs, PersistRun(r) PROVE IInv'
<1> USE DEF IInv, TypeInv, TypeOK
<1>1. /\ stage[r] = "persist" /\ UNCHANGED <<memory, consoleVars, lost>>
      /\ rows' \in {rows, rows \cup {Row(r, memory[r])}}
      /\ lateRows' \in {lateRows, lateRows \cup {Row(r, memory[r])}}
      /\ stage' = [stage EXCEPT ![r] = IF memory[r] = "running" THEN "execute" ELSE "none"]
      /\ queue' = IF memory[r] = "queued" THEN Append(queue, r) ELSE queue
  BY DEF PersistRun, Proceeds, tableVars
<1>2. memory[r] \in Statuses BY <1>1 DEF Facts, Placed
<1>3. Row(r, memory[r]) \in [run : Runs, status : Statuses] BY <1>2 DEF Row
<1>4. Busy' \subseteq Busy BY <1>1 DEF Busy
<1>5. TypeInv'
  <2>1. stage' \in [Runs -> {"none", "persist", "execute"}] BY <1>1
  <2>2. queue' \in Seq(Runs) BY <1>1, QueueTypes
  <2>3. /\ rows' \in SUBSET [run : Runs, status : Statuses]
        /\ lateRows' \in SUBSET [run : Runs, status : Statuses]
    BY <1>1, <1>3
  <2> QED BY <1>1, <1>4, <2>1, <2>2, <2>3, BusyShrinks DEF consoleVars
<1>6. \A i \in 1..Len(queue) : queue[i] # r /\ queue[i] \in Runs
  BY <1>1 DEF Facts, Placed
<1>7. Placed'
  <2>1. \A x \in Runs :
           /\ stage'[x] = "execute" => memory'[x] = "running"
           /\ stage'[x] = "persist" => memory'[x] # "none"
           /\ x \in lost' => memory'[x] = "none"
    BY <1>1 DEF Facts, Placed
  <2>2. CASE memory[r] # "queued"
    BY <1>1, <1>6, <2>1, <2>2 DEF Facts, Placed
  <2>3. CASE memory[r] = "queued"
    <3>1. /\ Len(queue) \in Nat /\ Len(queue') = Len(queue) + 1 /\ queue'[Len(queue) + 1] = r
          /\ \A i \in 1..Len(queue) : queue'[i] = queue[i]
      BY <1>1, <2>3
    <3>2. \A i \in 1..Len(queue') :
             \/ i \in 1..Len(queue) /\ queue'[i] = queue[i]
             \/ i = Len(queue) + 1 /\ queue'[i] = r
      BY <3>1
    <3>3. \A i, j \in 1..Len(queue') : queue'[i] = queue'[j] => i = j
      BY <1>6, <3>2 DEF Facts, Placed
    <3>4. \A i \in 1..Len(queue') : memory'[queue'[i]] = "queued" /\ stage'[queue'[i]] = "none"
      BY <1>1, <1>6, <2>3, <3>2 DEF Facts, Placed
    <3> QED BY <2>1, <3>3, <3>4 DEF Placed
  <2> QED BY <2>2, <2>3
<1>8. \A x \in Runs : Rank(memory[x]) <= Rank(memory'[x])
  BY <1>1, Ranks
<1>9. \A x \in Runs, s \in Statuses :
         Row(x, s) \in rows' \cup lateRows' => Row(x, s) \in rows \cup lateRows \/ s = memory[x]
  BY <1>1 DEF Row
<1> QED BY <1>1, <1>5, <1>7, <1>8, <1>9, MemoryGrows DEF Facts

LEMMA TakeInv == ASSUME IInv, TakeRun PROVE IInv'
<1> USE DEF IInv, TypeInv, TypeOK
<1> DEFINE r == Head(queue)
<1>1. /\ queue # <<>> /\ Cardinality(Busy) < PoolSize
      /\ memory' = [memory EXCEPT ![r] = "running"]
      /\ stage' = [stage EXCEPT ![r] = "persist"]
      /\ queue' = Tail(queue)
      /\ UNCHANGED <<rows, lateRows, consoleVars, lost>>
  BY DEF TakeRun, tableVars
<1>2. /\ Len(queue) \in Nat \ {0} /\ r = queue[1] /\ Len(queue') = Len(queue) - 1
      /\ \A i \in 1..Len(queue') : queue'[i] = queue[i + 1] /\ i + 1 \in 1..Len(queue) /\ i + 1 # 1
  BY <1>1
<1>3. r \in Runs /\ queue' \in Seq(Runs) BY <1>1, QueueTypes
<1> HIDE DEF r
<1>4. memory[r] = "queued" /\ r \notin lost
  BY <1>2, <1>3 DEF Facts, Placed
<1>5. Busy' \subseteq Busy \cup {r} BY <1>1 DEF Busy
<1>6. TypeInv'
  <2>1. memory' \in [Runs -> Statuses \cup {"none"}] BY <1>1 DEF Statuses
  <2>2. stage' \in [Runs -> {"none", "persist", "execute"}] BY <1>1
  <2> QED BY <1>1, <1>3, <1>5, <2>1, <2>2, BusyGrows DEF consoleVars
<1>7. Placed'
  <2>1. \A i \in 1..Len(queue') : queue'[i] # r /\ queue'[i] \in Runs
    <3> SUFFICES ASSUME NEW i \in 1..Len(queue') PROVE queue'[i] # r
      BY <1>3
    <3>1. 1 \in 1..Len(queue) /\ i + 1 \in 1..Len(queue) /\ i + 1 # 1 /\ queue'[i] = queue[i + 1]
      BY <1>2
    <3> QED BY <3>1, <1>2 DEF Facts, Placed
  <2>2. \A i \in 1..Len(queue') : memory[queue'[i]] = "queued" /\ stage[queue'[i]] = "none"
    BY <1>2 DEF Facts, Placed
  <2>3. \A i, j \in 1..Len(queue') : queue'[i] = queue'[j] => i = j
    <3> SUFFICES ASSUME NEW i \in 1..Len(queue'), NEW j \in 1..Len(queue'),
                        queue'[i] = queue'[j]
                 PROVE  i = j
      OBVIOUS
    <3>1. i + 1 = j + 1 BY <1>2 DEF Facts, Placed
    <3> QED BY <3>1
  <2>4. \A x \in Runs :
           /\ stage'[x] = "execute" => memory'[x] = "running"
           /\ stage'[x] = "persist" => memory'[x] # "none"
           /\ x \in lost' => memory'[x] = "none"
    BY <1>1, <1>4 DEF Facts, Placed
  <2>5. \A i \in 1..Len(queue') : memory'[queue'[i]] = "queued" /\ stage'[queue'[i]] = "none"
    BY <1>1, <2>1, <2>2
  <2> QED BY <2>3, <2>4, <2>5 DEF Placed
<1>8. \A x \in Runs : Rank(memory[x]) <= Rank(memory'[x])
  BY <1>1, <1>3, <1>4, Ranks, StepForward DEF Statuses
<1> QED BY <1>1, <1>6, <1>7, <1>8, MemoryGrows DEF Facts

LEMMA FinishInv == ASSUME IInv, NEW r \in Runs, FinishRun(r) PROVE IInv'
<1> USE DEF IInv, TypeInv, TypeOK
<1>1. \A outcome : Answers(outcome) \subseteq Final
  BY DEF Answers, Final
<1>2. /\ stage[r] = "execute" /\ stage' = [stage EXCEPT ![r] = "persist"]
      /\ \E status \in Final : memory' = [memory EXCEPT ![r] = status]
      /\ UNCHANGED <<queue, rows, lateRows, consoleVars, lost>>
  BY <1>1 DEF FinishRun, tableVars, Final
<1>3. memory[r] = "running" /\ r \notin lost BY <1>2 DEF Facts, Placed
<1>4. Busy' \subseteq Busy BY <1>2, <1>3 DEF Busy
<1>5. TypeInv'
  <2>1. memory' \in [Runs -> Statuses \cup {"none"}] BY <1>2 DEF Statuses
  <2>2. stage' \in [Runs -> {"none", "persist", "execute"}] BY <1>2
  <2> QED BY <1>2, <1>4, <2>1, <2>2, BusyShrinks DEF consoleVars
<1>6. Placed'
  <2>1. \A i \in 1..Len(queue) : queue[i] \in Runs /\ queue[i] # r
    BY <1>2 DEF Facts, Placed
  <2> QED BY <1>2, <1>3, <2>1 DEF Facts, Placed, Final
<1>7. \A x \in Runs : Rank(memory[x]) <= Rank(memory'[x])
  BY <1>2, <1>3, Ranks DEF Statuses
<1> QED BY <1>2, <1>5, <1>6, <1>7, MemoryGrows DEF Facts

LEMMA LandInv == ASSUME IInv, LandRow PROVE IInv'
<1> USE DEF IInv, TypeInv, TypeOK
<1>1. /\ UNCHANGED <<memory, stage, queue, consoleVars, lost>>
      /\ rows' \cup lateRows' \subseteq rows \cup lateRows
      /\ rows' \in SUBSET [run : Runs, status : Statuses]
      /\ lateRows' \in SUBSET [run : Runs, status : Statuses]
  BY DEF LandRow, processVars
<1>2. Busy' \subseteq Busy BY <1>1 DEF Busy
<1>3. TypeInv' BY <1>1, <1>2, BusyShrinks DEF consoleVars
<1>4. Placed' BY <1>1 DEF Facts, Placed
<1>5. \A x \in Runs : Rank(memory[x]) <= Rank(memory'[x])
  BY <1>1, Ranks
<1> QED BY <1>1, <1>3, <1>4, <1>5, MemoryGrows DEF Facts

\* What was in memory is lost, and nothing is being read any more.
LEMMA RestartInv == ASSUME IInv, Restart PROVE IInv'
<1> USE DEF IInv, TypeInv, TypeOK
<1>1. /\ lost' = lost \cup {r \in Runs : memory[r] # "none"}
      /\ memory' = [r \in Runs |-> "none"] /\ stage' = [r \in Runs |-> "none"]
      /\ queue' = <<>> /\ poll' = [p \in Pollers |-> Idle]
      /\ UNCHANGED <<rows, answer, settled>>
      /\ \E sent \in SUBSET {Row(r, memory[r]) : r \in {q \in Runs : stage[q] = "persist"}} :
            lateRows' = lateRows \cup sent
  BY DEF Restart
<1>2. \A r \in Runs : stage[r] = "persist" => memory[r] \in Statuses
  BY DEF Facts, Placed
<1>3. lateRows' \in SUBSET [run : Runs, status : Statuses]
  BY <1>1, <1>2 DEF Row
<1>4. Busy' \subseteq Busy BY <1>1 DEF Busy
<1>5. TypeInv' BY <1>1, <1>3, <1>4, BusyShrinks, QueueTypes
<1>6. Len(queue') = 0 BY <1>1
<1>7. Placed' BY <1>1, <1>6 DEF Placed
<1>8. \A r \in Runs, s \in Statuses \cup {"none", "interrupted"} : Behind(r, s) => Behind(r, s)'
  BY <1>1, Ranks DEF Behind
<1>9. RowsTrail'
  <2>1. \A r \in Runs, s \in Statuses :
           Row(r, s) \in rows' \cup lateRows' => Row(r, s) \in rows \cup lateRows \/ s = memory[r]
    BY <1>1 DEF Row
  <2>2. \A r \in Runs : memory[r] \in Statuses => r \in lost' BY <1>1 DEF Statuses, Final
  <2> QED BY <1>8, <2>1, <2>2 DEF Facts, RowsTrail, Behind
<1>10. ReadsTrail' BY <1>1 DEF ReadsTrail, Idle
<1>11. AnswersTrail'
  <2>1. \A p \in Pollers, r \in Runs : answer[p][r] \in Statuses \cup {"none", "interrupted"}
    BY DEF Statuses
  <2> QED BY <1>1, <1>8, <2>1 DEF Facts, AnswersTrail
<1>12. ResultsNotHidden' BY <1>1 DEF Facts, ResultsNotHidden
<1> QED BY <1>5, <1>7, <1>9, <1>10, <1>11, <1>12 DEF Facts

-----------------------------------------------------------------------------
(* The console. *)

\* What is read in a request is behind memory, as the rows are.
LEMMA ReadsRows ==
  ASSUME IInv, NEW table \in {rows, {}}, NEW r \in Runs
  PROVE  /\ Latest(table)[r] \in Statuses \cup {"none"}
         /\ Behind(r, Latest(table)[r])
         /\ r \in SettledIn(table) => Latest(table)[r] \in Final
<1>1. CASE table = rows
  <2>1. CASE Latest(table)[r] = "none"
    <3>1. memory[r] \in Statuses \cup {"none"} BY DEF IInv, TypeInv, TypeOK
    <3>2. Rank(memory[r]) \in 0..3 BY <3>1, Ranks
    <3> QED BY <2>1, <3>2, LatestRow, Ranks DEF Behind
  <2>2. CASE Latest(table)[r] # "none"
    BY <1>1, <2>2, LatestRow DEF IInv, Facts, RowsTrail
  <2> QED BY <2>1, <2>2, LatestRow
<1>2. CASE table = {}
  <2>1. memory[r] \in Statuses \cup {"none"} BY DEF IInv, TypeInv, TypeOK
  <2>2. Rank(memory[r]) \in 0..3 BY <2>1, Ranks
  <2> QED BY <1>2, <2>2, NoRows, Ranks DEF Behind
<1> QED BY <1>1, <1>2

\* A request changes nothing but what its console reads and shows.
LEMMA ConsoleKeeps ==
  ASSUME IInv, UNCHANGED <<processVars, tableVars, lost>>,
         poll' \in [Pollers -> {Idle} \cup [pc : {"list"}, latest : [Runs -> Statuses \cup {"none"}],
                                            settled : SUBSET Runs]],
         answer' \in [Pollers -> [Runs -> Final \cup {"none", "queued", "running", "interrupted"}]],
         settled' \in [Pollers -> SUBSET Runs],
         ReadsTrail', AnswersTrail', ResultsNotHidden'
  PROVE  IInv'
<1> USE DEF processVars, tableVars
<1>1. Busy' = Busy BY DEF Busy
<1>2. TypeInv' BY <1>1 DEF IInv, TypeInv, TypeOK
<1>3. Placed' /\ RowsTrail' BY DEF IInv, Facts, Placed, RowsTrail, Behind
<1> QED BY <1>2, <1>3 DEF IInv, Facts

LEMMA ListBeginInv == ASSUME IInv, NEW p \in Pollers, ListBegin(p) PROVE IInv'
<1> USE DEF IInv, TypeInv, TypeOK
<1>1. PICK table \in {rows, {}} :
        poll' = [poll EXCEPT ![p] = [pc |-> "list", latest |-> Latest(table),
                                     settled |-> SettledIn(table)]]
  BY DEF ListBegin, Loads
<1>2. UNCHANGED <<processVars, tableVars, answer, settled, lost>> BY DEF ListBegin
<1>3. Latest(table) \in [Runs -> Statuses \cup {"none"}] /\ SettledIn(table) \in SUBSET Runs
  <2>1. \A r \in Runs : Latest(table)[r] \in Statuses \cup {"none"} BY ReadsRows
  <2>2. Latest(table) = [r \in Runs |-> Latest(table)[r]] BY DEF Latest
  <2> QED BY <2>1, <2>2 DEF SettledIn
<1>4. poll' \in [Pollers -> {Idle} \cup [pc : {"list"}, latest : [Runs -> Statuses \cup {"none"}],
                                         settled : SUBSET Runs]]
  BY <1>1, <1>3
<1>5. ReadsTrail'
  <2> SUFFICES ASSUME NEW q \in Pollers, poll'[q].pc = "list", NEW r \in Runs
               PROVE  /\ Behind(r, poll'[q].latest[r])
                      /\ r \in poll'[q].settled => poll'[q].latest[r] \in Final
    BY <1>2 DEF ReadsTrail, Behind, processVars
  <2>1. CASE q = p
    <3>1. poll'[q].latest = Latest(table) /\ poll'[q].settled = SettledIn(table)
      BY <1>1, <2>1
    <3> QED BY <3>1, ReadsRows
  <2>2. CASE q # p BY <1>1, <2>2 DEF Facts, ReadsTrail
  <2> QED BY <2>1, <2>2
<1>6. AnswersTrail' /\ ResultsNotHidden'
  BY <1>2 DEF Facts, AnswersTrail, ResultsNotHidden, Behind, processVars
<1> QED BY <1>2, <1>4, <1>5, <1>6, ConsoleKeeps

\* What is shown of a run: its status in memory, or else what its row says.
LEMMA Shows ==
  ASSUME IInv, NEW r \in Runs, NEW stored \in Statuses \cup {"none"}, Behind(r, stored)
  PROVE  /\ Merged(r, stored) \in Final \cup {"none", "queued", "running", "interrupted"}
         /\ Behind(r, Merged(r, stored))
         /\ r \in lost \/ Merged(r, stored) # "interrupted"
         /\ stored \in Final => Merged(r, stored) \in Final
         /\ r \in lost \/ Rank(memory[r]) <= Rank(Merged(r, stored))
<1>1. memory[r] \in Statuses \cup {"none"} /\ Rank(memory[r]) \in 0..3 /\ Rank(stored) \in 0..3
  BY Ranks DEF IInv, TypeInv, TypeOK
<1>2. CASE memory[r] # "none"
  <2>1. Merged(r, stored) = memory[r] BY <1>2 DEF Merged, InMemory
  <2>2. r \notin lost BY <1>2 DEF IInv, Facts, Placed
  <2>3. stored \in Final => Rank(memory[r]) = 3
    BY <1>1, <2>2, Ranks DEF Behind
  <2>4. stored \in Final => memory[r] \in Final BY <1>1, <2>3, Ranks
  <2>5. memory[r] \in Statuses BY <1>1, <1>2
  <2>6. Behind(r, memory[r]) /\ Rank(memory[r]) <= Rank(memory[r]) BY <1>1 DEF Behind
  <2> QED BY <2>1, <2>4, <2>5, <2>6 DEF Statuses, Final
<1>3. CASE memory[r] = "none"
  <2>1. Merged(r, stored) = IF stored \in {"queued", "running"} THEN "interrupted" ELSE stored
    BY <1>3 DEF Merged, InMemory, LocalLiveness
  <2>2. CASE r \notin lost
    <3>1. Rank(stored) = 0 BY <1>1, <1>3, <2>2, Ranks DEF Behind
    <3>2. stored = "none" BY <3>1, Ranks DEF Statuses
    <3>3. Merged(r, stored) = "none" /\ stored \notin Final BY <2>1, <3>2 DEF Final
    <3> QED BY <1>3, <3>3, Ranks DEF Behind
  <2>3. CASE r \in lost
    BY <2>1, <2>3 DEF Behind, Statuses, Final
  <2> QED BY <2>2, <2>3
<1> QED BY <1>2, <1>3

\* What a step shows anew of a run that is not lost is not behind memory.
ShowsMore ==
    \A p \in Pollers, r \in Runs :
        r \in lost' \/ answer'[p][r] = answer[p][r] \/ Rank(memory[r]) <= Rank(answer'[p][r])

LEMMA ListAnswerInv ==
  ASSUME IInv, NEW p \in Pollers, ListAnswer(p) PROVE IInv' /\ ShowsMore
<1> USE DEF IInv, TypeInv, TypeOK
<1>1. /\ poll[p].pc = "list" /\ UNCHANGED <<processVars, tableVars, lost>>
      /\ answer' = [answer EXCEPT ![p] = [r \in Runs |-> Merged(r, poll[p].latest[r])]]
      /\ settled' = [settled EXCEPT ![p] = poll[p].settled]
      /\ poll' = [poll EXCEPT ![p] = Idle]
  BY DEF ListAnswer
<1>2. poll[p] # Idle BY <1>1 DEF Idle
<1>3. /\ poll[p].settled \in SUBSET Runs
      /\ \A r \in Runs : poll[p].latest[r] \in Statuses \cup {"none"}
  BY <1>2
<1>4. \A r \in Runs : /\ Behind(r, poll[p].latest[r])
                      /\ r \in poll[p].settled => poll[p].latest[r] \in Final
  BY <1>1 DEF Facts, ReadsTrail
<1>5. \A r \in Runs : LET m == Merged(r, poll[p].latest[r]) IN
         /\ m \in Final \cup {"none", "queued", "running", "interrupted"}
         /\ Behind(r, m) /\ (r \in lost \/ m # "interrupted")
         /\ r \in poll[p].settled => m \in Final
         /\ r \in lost \/ Rank(memory[r]) <= Rank(m)
  BY <1>3, <1>4, Shows
<1>6. ReadsTrail' BY <1>1 DEF Facts, ReadsTrail, Behind, processVars, Idle
<1>7. AnswersTrail'
  BY <1>1, <1>5 DEF Facts, AnswersTrail, Behind, processVars
<1>8. ResultsNotHidden' BY <1>1, <1>3, <1>5 DEF Facts, ResultsNotHidden
<1>9. /\ poll' \in [Pollers -> {Idle} \cup [pc : {"list"}, latest : [Runs -> Statuses \cup {"none"}],
                                            settled : SUBSET Runs]]
      /\ settled' \in [Pollers -> SUBSET Runs]
      /\ answer' \in [Pollers -> [Runs -> Final \cup {"none", "queued", "running", "interrupted"}]]
  BY <1>1, <1>3, <1>5
<1>10. ShowsMore
  <2>1. \A q \in Pollers, r \in Runs :
           answer'[q][r] = IF q = p THEN Merged(r, poll[p].latest[r]) ELSE answer[q][r]
    BY <1>1
  <2> QED BY <1>1, <1>5, <2>1 DEF ShowsMore
<1> QED BY <1>1, <1>6, <1>7, <1>8, <1>9, <1>10, ConsoleKeeps

LEMMA GetAnswerInv ==
  ASSUME IInv, NEW p \in Pollers, NEW r \in Runs, GetAnswer(p, r)
  PROVE  IInv' /\ ShowsMore
<1> USE DEF IInv, TypeInv, TypeOK
<1>1. UNCHANGED <<processVars, tableVars, poll, lost>> BY DEF GetAnswer
<1>2. PICK shown, now :
        /\ answer' = [answer EXCEPT ![p][r] = shown] /\ settled' = [settled EXCEPT ![p] = now]
        /\ shown \in Final \cup {"none", "queued", "running", "interrupted"}
        /\ Behind(r, shown) /\ (r \in lost \/ shown # "interrupted")
        /\ now \in SUBSET Runs /\ now \ {r} \subseteq settled[p]
        /\ r \in now => shown \in Final
        /\ r \in lost \/ Rank(memory[r]) <= Rank(shown)
  <2>1. CASE memory[r] # "none"
    <3>1. answer' = [answer EXCEPT ![p][r] = memory[r]]
          /\ settled' = [settled EXCEPT ![p] = settled[p] \ {r}]
      BY <2>1 DEF GetAnswer
    <3>2. Merged(r, "none") = memory[r] BY <2>1 DEF Merged, InMemory
    <3>3. Behind(r, "none") BY ReadsRows, NoRows
    <3>4. /\ memory[r] \in Final \cup {"none", "queued", "running", "interrupted"}
          /\ Behind(r, memory[r]) /\ (r \in lost \/ memory[r] # "interrupted")
      BY <3>2, <3>3, Shows
    <3>5. memory[r] \in Statuses \cup {"none"} OBVIOUS
    <3> DEFINE now == settled[p] \ {r}
    <3>6. now \in SUBSET Runs /\ now \ {r} \subseteq settled[p] /\ r \notin now OBVIOUS
    <3>7. Rank(memory[r]) <= Rank(memory[r]) BY <3>5, Ranks
    <3> HIDE DEF now
    <3> QED BY <3>1, <3>4, <3>6, <3>7 DEF now
  <2>2. CASE memory[r] = "none"
    <3>1. PICK table \in {rows, {}} :
             /\ answer' = [answer EXCEPT ![p][r] = LocalLiveness(Latest(table)[r], FALSE)]
             /\ settled' = [settled EXCEPT ![p] = (settled[p] \ {r}) \cup (SettledIn(table) \cap {r})]
      BY <2>2 DEF GetAnswer
    <3>2. Merged(r, Latest(table)[r]) = LocalLiveness(Latest(table)[r], FALSE)
      BY <2>2 DEF Merged, InMemory
    <3> DEFINE shown == LocalLiveness(Latest(table)[r], FALSE)
               now == (settled[p] \ {r}) \cup (SettledIn(table) \cap {r})
    <3>3. /\ shown \in Final \cup {"none", "queued", "running", "interrupted"}
          /\ Behind(r, shown) /\ (r \in lost \/ shown # "interrupted")
          /\ r \in SettledIn(table) => shown \in Final
          /\ r \in lost \/ Rank(memory[r]) <= Rank(shown)
      <4>1. /\ Latest(table)[r] \in Statuses \cup {"none"}
            /\ Behind(r, Latest(table)[r])
            /\ r \in SettledIn(table) => Latest(table)[r] \in Final
        BY ReadsRows
      <4>2. LET m == Merged(r, Latest(table)[r]) IN
               /\ m \in Final \cup {"none", "queued", "running", "interrupted"}
               /\ Behind(r, m) /\ (r \in lost \/ m # "interrupted")
               /\ Latest(table)[r] \in Final => m \in Final
               /\ r \in lost \/ Rank(memory[r]) <= Rank(m)
        BY <4>1, Shows
      <4> QED BY <3>2, <4>1, <4>2
    <3>4. now \in SUBSET Runs /\ now \ {r} \subseteq settled[p] /\ (r \in now => r \in SettledIn(table))
      OBVIOUS
    <3> HIDE DEF shown, now
    <3> QED BY <3>1, <3>3, <3>4 DEF shown, now
  <2> QED BY <2>1, <2>2
<1>3. /\ settled' \in [Pollers -> SUBSET Runs]
      /\ answer' \in [Pollers -> [Runs -> Final \cup {"none", "queued", "running", "interrupted"}]]
  BY <1>2
<1>4. \A q \in Pollers, x \in Runs : answer'[q][x] = IF q = p /\ x = r THEN shown ELSE answer[q][x]
  BY <1>2
<1>5. \A q \in Pollers : settled'[q] = IF q = p THEN now ELSE settled[q]
  BY <1>2
<1>6. ReadsTrail' BY <1>1 DEF Facts, ReadsTrail, Behind, processVars
<1>7. AnswersTrail' BY <1>1, <1>2, <1>4 DEF Facts, AnswersTrail, Behind, processVars
<1>8. ResultsNotHidden'
  <2> SUFFICES ASSUME NEW q \in Pollers, NEW x \in Runs, x \in settled'[q]
               PROVE  answer'[q][x] \in Final
    BY <1>3 DEF ResultsNotHidden
  <2>1. q # p \/ x # r => x \in settled[q] BY <1>2, <1>5
  <2> QED BY <1>2, <1>4, <1>5, <2>1 DEF Facts, ResultsNotHidden
<1>9. ShowsMore BY <1>1, <1>2, <1>4 DEF ShowsMore
<1> QED BY <1>1, <1>3, <1>6, <1>7, <1>8, <1>9, ConsoleKeeps

LEMMA NextInv == IInv /\ [Next]_vars => IInv'
<1> SUFFICES ASSUME IInv, [Next]_vars PROVE IInv' OBVIOUS
<1>1. CASE UNCHANGED vars
  <2>1. UNCHANGED <<processVars, tableVars, consoleVars, lost>> BY <1>1 DEF vars
  <2>2. ReadsTrail' /\ AnswersTrail' /\ ResultsNotHidden'
    BY <2>1 DEF IInv, Facts, ReadsTrail, AnswersTrail, ResultsNotHidden, Behind, processVars,
                consoleVars
  <2> QED BY <2>1, <2>2, ConsoleKeeps DEF consoleVars, IInv, TypeInv, TypeOK
<1>2. CASE Next
  BY <1>2, StartInv, PersistInv, FinishInv, TakeInv, LandInv, ListBeginInv, ListAnswerInv,
     GetAnswerInv, RestartInv DEF Next, RunStep
<1> QED BY <1>1, <1>2

-----------------------------------------------------------------------------
(* What the console can rely on. *)

\* The pool of migration_service is not exceeded, and every variable keeps to its
\* domain.
THEOREM TypeCorrect == Spec => []TypeOK
<1>1. IInv => TypeOK BY DEF IInv, TypeInv
<1> QED BY <1>1, InitInv, NextInv, PTL DEF Spec

\* list_migration_runs and get_migration_run take no run for interrupted that the
\* process still has, however rows and memory are read apart.
THEOREM InterruptedIsLost == Spec => []InterruptedMeansLost
<1>1. IInv => InterruptedMeansLost BY DEF IInv, Facts, AnswersTrail, InterruptedMeansLost
<1> QED BY <1>1, InitInv, NextInv, PTL DEF Spec

\* A result that could be read is shown, whichever of its rows land late or never.
THEOREM ResultsShow == Spec => []ResultsNotHidden
<1>1. IInv => ResultsNotHidden BY DEF IInv, Facts
<1> QED BY <1>1, InitInv, NextInv, PTL DEF Spec

\* No console sees a run go back, except one whose process was replaced.
THEOREM AnswersForward == Spec => AnswersMoveForward
<1> DEFINE Forward == \A p \in Pollers, r \in Runs :
                         Rank(answer'[p][r]) < Rank(answer[p][r]) => r \in lost'
<1>1. ASSUME IInv, IInv', [Next]_vars PROVE Forward
  <2>1. ShowsMore /\ lost \subseteq lost'
    <3> USE DEF processVars, tableVars, consoleVars
    <3>1. CASE UNCHANGED vars BY <3>1 DEF vars, ShowsMore
    <3>2. CASE Restart BY <3>2 DEF Restart, ShowsMore
    <3>3. ASSUME NEW p \in Pollers, ListAnswer(p) \/ \E r \in Runs : GetAnswer(p, r)
          PROVE  ShowsMore /\ lost \subseteq lost'
      BY <1>1, <3>3, ListAnswerInv, GetAnswerInv DEF ListAnswer, GetAnswer
    <3>4. ASSUME NEW p \in Pollers, ListBegin(p) PROVE ShowsMore /\ lost \subseteq lost'
      BY <3>4 DEF ListBegin, ShowsMore
    <3>5. ASSUME NEW r \in Runs, StartRun(r) \/ PersistRun(r) \/ FinishRun(r)
          PROVE  ShowsMore /\ lost \subseteq lost'
      BY <3>5 DEF StartRun, PersistRun, FinishRun, ShowsMore
    <3>6. CASE TakeRun \/ LandRow BY <3>6 DEF TakeRun, LandRow, ShowsMore
    <3> QED BY <1>1, <3>1, <3>2, <3>3, <3>4, <3>5, <3>6 DEF Next, RunStep
  <2> SUFFICES ASSUME NEW p \in Pollers, NEW r \in Runs, r \notin lost'
               PROVE  ~(Rank(answer'[p][r]) < Rank(answer[p][r]))
    OBVIOUS
  <2>2. Rank(answer[p][r]) <= Rank(memory[r])
    BY <1>1, <2>1 DEF IInv, Facts, AnswersTrail, Behind
  <2>3. /\ answer[p][r] \in Statuses \cup {"none", "interrupted"}
        /\ memory[r] \in Statuses \cup {"none", "interrupted"}
    BY <1>1 DEF IInv, TypeInv, TypeOK, Statuses
  <2>4. answer'[p][r] \in Statuses \cup {"none", "interrupted"}
    BY <1>1 DEF IInv, TypeInv, TypeOK, Statuses
  <2>5. /\ Rank(answer[p][r]) \in 0..3 /\ Rank(memory[r]) \in 0..3
        /\ Rank(answer'[p][r]) \in 0..3
    BY <2>3, <2>4, Ranks
  <2>6. answer'[p][r] = answer[p][r] \/ Rank(memory[r]) <= Rank(answer'[p][r])
    BY <2>1 DEF ShowsMore
  <2> QED BY <2>2, <2>5, <2>6
<1>2. Spec => [][Forward]_vars BY <1>1, InitInv, NextInv, PTL DEF Spec
<1> QED BY <1>2 DEF AnswersMoveForward
=============================================================================

------------------------- MODULE SkillExecutionsProofs -------------------------
(***************************************************************************)
(* What holds of UsecaseExecutions for every set of executions, callers    *)
(* and families and every size of the pool; and an execution with its work *)
(* in the workspace is an execution of the monitor, so that it holds of    *)
(* SkillExecutions too.                                                    *)
(***************************************************************************)
EXTENDS SkillExecutions, FiniteSetTheorems, TLAPS

-----------------------------------------------------------------------------
(* Types.  The pool bound counts the busy runs, which are finitely many     *)
(* because each took a thread.                                              *)

TypeInv == TypeOK /\ IsFiniteSet(Busy)

\* A set of busy runs that lost members is as finite, and no larger.
LEMMA BusyShrinks ==
  ASSUME IsFiniteSet(Busy), Cardinality(Busy) <= PoolSize, Busy' \subseteq Busy
  PROVE  IsFiniteSet(Busy') /\ Cardinality(Busy') <= PoolSize
<1>1. IsFiniteSet(Busy') /\ Cardinality(Busy') <= Cardinality(Busy)
  BY FS_Subset
<1>2. Cardinality(Busy) \in Nat /\ Cardinality(Busy') \in Nat
  BY <1>1, FS_CardinalityType
<1> QED BY <1>1, <1>2, PoolSizeAssumption

\* A free thread takes one more run.
LEMMA BusyGrows ==
  ASSUME IsFiniteSet(Busy), Cardinality(Busy) < PoolSize, NEW e, Busy' \subseteq Busy \cup {e}
  PROVE  IsFiniteSet(Busy') /\ Cardinality(Busy') <= PoolSize
<1>1. IsFiniteSet(Busy \cup {e}) /\ Cardinality(Busy \cup {e}) <= Cardinality(Busy) + 1
  <2>1. Cardinality(Busy) \in Nat BY FS_CardinalityType
  <2>2. /\ IsFiniteSet(Busy \cup {e})
        /\ Cardinality(Busy \cup {e})
             = IF e \in Busy THEN Cardinality(Busy) ELSE Cardinality(Busy) + 1
    BY FS_AddElement
  <2>3. CASE e \in Busy BY <2>1, <2>2, <2>3
  <2>4. CASE e \notin Busy BY <2>1, <2>2, <2>4
  <2> QED BY <2>3, <2>4
<1>2. IsFiniteSet(Busy') /\ Cardinality(Busy') <= Cardinality(Busy \cup {e})
  BY <1>1, FS_Subset
<1>3. /\ Cardinality(Busy) \in Nat
      /\ Cardinality(Busy \cup {e}) \in Nat
      /\ Cardinality(Busy') \in Nat
  BY <1>1, <1>2, FS_CardinalityType
<1> QED BY <1>1, <1>2, <1>3, PoolSizeAssumption

LEMMA InitType == Init => TypeInv
<1> SUFFICES ASSUME Init PROVE TypeInv OBVIOUS
<1>1. Busy = {} BY DEF Init, Busy
<1>2. IsFiniteSet(Busy) /\ Cardinality(Busy) = 0 BY <1>1, FS_EmptySet
<1>3. queue \in Seq(Executions) BY DEF Init
<1> QED BY <1>2, <1>3, PoolSizeAssumption DEF Init, TypeInv, TypeOK

\* What a job step does to the types: Continue and End are all it does to a run.
LEMMA JobType ==
  ASSUME TypeInv, NEW e \in Executions, stage[e] # "none",
         \/ \E next \in {"none", "proven", "unproven", "report proven",
                         "report unproven"} : Continue(e, next)
         \/ \E outcome \in {"completed", "blocked", "failed"},
               p \in {"completed", "skipped"} : End(e, outcome, p),
         UNCHANGED asked
  PROVE  /\ status' \in [Executions -> {"none", "queued", "running", "completed",
                                        "blocked", "failed"}]
         /\ family' \in [Executions -> ToolFamilies \cup {NoFamily}]
         /\ persist' \in [Executions -> {"none", "pending", "completed", "skipped"}]
         /\ stage' \in [Executions -> {"none", "execute", "proven", "unproven",
                                       "report proven", "report unproven"}]
         /\ IsFiniteSet(Busy') /\ Cardinality(Busy') <= PoolSize
<1>1. Busy' \subseteq Busy
  BY DEF TypeInv, TypeOK, Continue, End, Busy
<1>2. IsFiniteSet(Busy') /\ Cardinality(Busy') <= PoolSize
  BY <1>1, BusyShrinks DEF TypeInv, TypeOK
<1>3. ASSUME NEW next \in {"none", "proven", "unproven", "report proven", "report unproven"},
             Continue(e, next)
      PROVE  /\ UNCHANGED <<status, family, persist>>
             /\ stage' \in [Executions -> {"none", "execute", "proven", "unproven",
                                           "report proven", "report unproven"}]
  BY <1>3 DEF TypeInv, TypeOK, Continue
<1>4. ASSUME NEW outcome \in {"completed", "blocked", "failed"},
             NEW p \in {"completed", "skipped"}, End(e, outcome, p)
      PROVE  /\ UNCHANGED family
             /\ status' \in [Executions -> {"none", "queued", "running", "completed",
                                            "blocked", "failed"}]
             /\ persist' \in [Executions -> {"none", "pending", "completed", "skipped"}]
             /\ stage' \in [Executions -> {"none", "execute", "proven", "unproven",
                                           "report proven", "report unproven"}]
  <2>1. stage' = [stage EXCEPT ![e] = "none"] /\ UNCHANGED family
    BY <1>4 DEF End
  <2>2. CASE e \in asked
    BY <2>1, <2>2, <1>4 DEF TypeInv, TypeOK, End
  <2>3. CASE e \notin asked
    <3>1. /\ status' = [status EXCEPT ![e] = outcome]
          /\ persist' = [persist EXCEPT ![e] = p]
      BY <2>3, <1>4 DEF End
    <3> QED BY <2>1, <3>1 DEF TypeInv, TypeOK
  <2> QED BY <2>2, <2>3
<1> QED BY <1>2, <1>3, <1>4 DEF TypeInv, TypeOK

\* What the queue does.
LEMMA QueueTypes ==
  ASSUME queue \in Seq(Executions)
  PROVE  /\ \A e \in Executions : Append(queue, e) \in Seq(Executions)
         /\ queue # <<>> => Head(queue) \in Executions /\ Tail(queue) \in Seq(Executions)
         /\ <<>> \in Seq(Executions)
OBVIOUS

LEMMA NextType == TypeInv /\ [Next]_vars => TypeInv'
<1> SUFFICES ASSUME TypeInv, [Next]_vars PROVE TypeInv'
  OBVIOUS
<1> USE DEF TypeInv, TypeOK
<1>1. ASSUME NEW c \in Callers, StartCheck(c) PROVE TypeInv'
  <2>1. Busy' = Busy BY <1>1 DEF StartCheck, runVars, historyVars, Busy
  <2> QED BY <2>1, <1>1 DEF StartCheck, runVars, storeVars, historyVars
<1>2. ASSUME NEW c \in Callers, StartInsert(c) PROVE TypeInv'
  <2>1. stage' = stage BY <1>2 DEF StartInsert
  <2>2. PICK e \in Executions : queue' = Append(queue, e) /\ issued' = issued \cup {e}
                /\ status' = [status EXCEPT ![e] = "queued"]
                /\ family' = [family EXCEPT ![e] = starting[c]]
                /\ persist' = [persist EXCEPT ![e] = "pending"]
                /\ raced' = IF c \in overtaken THEN raced \cup {e} ELSE raced
    BY <1>2 DEF StartInsert, Fresh
  <2>3. Busy' = Busy BY <2>1, <1>2 DEF StartInsert, Busy
  <2>4. queue' \in Seq(Executions) BY <2>2, QueueTypes
  <2>5. /\ starting' = [starting EXCEPT ![c] = NoFamily]
        /\ overtaken' \in SUBSET Callers
        /\ UNCHANGED <<skillRuns, proofs, asked>>
    BY <1>2 DEF StartInsert, storeVars
  <2>6. status' \in [Executions -> {"none", "queued", "running", "completed",
                                    "blocked", "failed"}]
    BY <2>2
  <2>7. /\ family' \in [Executions -> ToolFamilies \cup {NoFamily}]
        /\ persist' \in [Executions -> {"none", "pending", "completed", "skipped"}]
        /\ issued' \in SUBSET Executions /\ raced' \in SUBSET Executions
    BY <2>2
  <2> QED BY <2>1, <2>3, <2>4, <2>5, <2>6, <2>7
<1>3. ASSUME Begin PROVE TypeInv'
  <2>1. Head(queue) \in Executions /\ Tail(queue) \in Seq(Executions)
    BY <1>3, QueueTypes DEF Begin
  <2>2. Busy' \subseteq Busy \cup {Head(queue)} BY <1>3, <2>1 DEF Begin, historyVars, Busy
  <2>3. IsFiniteSet(Busy') /\ Cardinality(Busy') <= PoolSize
    BY <2>2, <1>3, BusyGrows DEF Begin
  <2> QED BY <2>1, <2>3, <1>3 DEF Begin, storeVars, historyVars
<1>4. ASSUME NEW e \in Executions, Execute(e) PROVE TypeInv'
  <2>1. /\ skillRuns' \in SUBSET Executions
        /\ stage[e] = "execute" /\ UNCHANGED <<queue, starting, proofs, historyVars>>
        /\ \/ \E next \in {"proven", "unproven"} : Continue(e, next)
           \/ \E outcome \in {"completed", "blocked", "failed"},
                 p \in {"completed", "skipped"} : End(e, outcome, p)
    <3>1. CASE TurnedAway(e) BY <3>1 DEF TurnedAway, Reports, Fails, storeVars
    <3>2. CASE \E verdict \in {"proven", "unproven"} : Verdict(e, verdict)
      BY <3>2 DEF Verdict, Stores, Fails
    <3> QED BY <1>4, <3>1, <3>2 DEF Execute
  <2> HIDE DEF TypeInv, TypeOK
  <2> QED BY <2>1, JobType DEF historyVars, TypeInv, TypeOK
<1>5. ASSUME NEW e \in Executions, PersistProof(e) PROVE TypeInv'
  <2>1. /\ proofs' \in SUBSET Executions
        /\ \/ \E next \in {"report proven", "report unproven"} : Continue(e, next)
           \/ \E outcome \in {"completed", "blocked", "failed"},
                 p \in {"completed", "skipped"} : End(e, outcome, p)
    BY <1>5 DEF PersistProof, Stores, Fails
  <2> HIDE DEF TypeInv, TypeOK
  <2>2. stage[e] # "none" BY <1>5 DEF PersistProof
  <2> QED BY <2>1, <2>2, <1>5, JobType DEF PersistProof, historyVars, TypeInv, TypeOK
<1>6. ASSUME NEW e \in Executions, ReportProof(e) PROVE TypeInv'
  <2>1. \E outcome \in {"completed", "blocked", "failed"},
           p \in {"completed", "skipped"} : End(e, outcome, p)
    BY <1>6 DEF ReportProof, Reports
  <2> HIDE DEF TypeInv, TypeOK
  <2>2. stage[e] # "none" BY <1>6 DEF ReportProof
  <2> QED BY <2>1, <2>2, <1>6, JobType DEF ReportProof, storeVars, historyVars, TypeInv, TypeOK
<1>7. CASE Restart
  <2>1. Busy' = {} BY <1>7 DEF Restart, Busy
  <2>2. IsFiniteSet(Busy') /\ Cardinality(Busy') <= PoolSize BY <2>1, BusyShrinks
  <2>3. queue' \in Seq(Executions) BY <1>7, QueueTypes DEF Restart
  <2>4. /\ status' = [x \in Executions |-> "none"]
        /\ family' = [x \in Executions |-> NoFamily]
        /\ persist' = [x \in Executions |-> "none"]
        /\ stage' = [x \in Executions |-> "none"]
        /\ starting' = [c \in Callers |-> NoFamily]
        /\ overtaken' = {}
        /\ UNCHANGED <<skillRuns, proofs, issued, asked, raced>>
    BY <1>7 DEF Restart, storeVars
  <2>5. /\ status' \in [Executions -> {"none", "queued", "running", "completed",
                                       "blocked", "failed"}]
        /\ family' \in [Executions -> ToolFamilies \cup {NoFamily}]
        /\ persist' \in [Executions -> {"none", "pending", "completed", "skipped"}]
        /\ stage' \in [Executions -> {"none", "execute", "proven", "unproven",
                                      "report proven", "report unproven"}]
    BY <2>4
  <2>6. starting' \in [Callers -> ToolFamilies \cup {NoFamily}] /\ overtaken' \in SUBSET Callers
    BY <2>4
  <2> QED BY <2>2, <2>3, <2>4, <2>5, <2>6
<1>8. CASE UNCHANGED vars
  <2>1. Busy' = Busy BY <1>8 DEF vars, runVars, historyVars, Busy
  <2> QED BY <2>1, <1>8 DEF vars, runVars, storeVars, historyVars
<1>9. ASSUME NEW f \in ToolFamilies, AskProof(f) PROVE TypeInv'
  <2>1. PICK e \in Executions : /\ family' = [family EXCEPT ![e] = f]
                                /\ stage' = [stage EXCEPT ![e] = "execute"]
                                /\ issued' = issued \cup {e}
                                /\ asked' = asked \cup {e}
    BY <1>9 DEF AskProof, Fresh
  <2>2. UNCHANGED <<status, persist, queue, starting, skillRuns, proofs, overtaken, raced>>
    BY <1>9 DEF AskProof, storeVars
  <2>3. Busy' \subseteq Busy BY <2>1 DEF Busy
  <2>4. IsFiniteSet(Busy') /\ Cardinality(Busy') <= PoolSize BY <2>3, BusyShrinks
  <2> QED BY <2>1, <2>2, <2>4
<1> QED BY <1>1, <1>2, <1>3, <1>4, <1>5, <1>6, <1>7, <1>8, <1>9 DEF Next, JobStep

\* Every variable of the monitor keeps to its domain and the pool of
\* usecase_executions is never exceeded.
THEOREM TypeCorrect == Spec => []TypeOK
<1>1. TypeInv => TypeOK BY DEF TypeInv
<1> QED BY <1>1, InitType, NextType, PTL DEF Spec

-----------------------------------------------------------------------------
(* What a run's place in the process says of its status, and what a start    *)
(* under way knows of the runs that overtook it.                             *)

\* The ids in a queue, and that none is in it twice.
In(q) == {q[i] : i \in 1..Len(q)}
Once(q) == \A i, j \in 1..Len(q) : q[i] = q[j] => i = j

\* A run in memory was issued; a waiting one is queued, and waits once; one
\* with a job under way is running.  The monitor knows nothing of what was asked
\* for directly.
Placed ==
    /\ \A e \in Executions : status[e] # "none" => e \in issued
    /\ \A e \in asked : e \in issued /\ status[e] = "none"
    /\ \A e \in In(queue) : status[e] = "queued"
    /\ Once(queue)
    /\ \A e \in Busy : status[e] = "running"

\* A start whose family has an active run was overtaken by that run's start.
StartsKnow ==
    \A c \in Callers, e \in Active :
        starting[c] # NoFamily /\ family[e] = starting[c] => c \in overtaken

\* A verdict on its way has its row of the skill's run behind it, and a proof to
\* report its row too.
RowsFollow ==
    \A e \in Executions :
        /\ stage[e] \in {"proven", "report proven"} => e \in skillRuns
        /\ stage[e] = "report proven" => e \in proofs

IInv ==
    /\ TypeInv /\ Placed /\ StartsKnow /\ DuplicatesOnlyByRace
    /\ RowsFollow /\ CompletedIsRecorded

LEMMA QueueEmpty == In(<<>>) = {} /\ Once(<<>>)
BY DEF In, Once

LEMMA QueueIn == queue \in Seq(Executions) => In(queue) \subseteq Executions
BY DEF In

\* The queue loses its head, or gains an id that was not in it.
LEMMA QueueTail ==
  ASSUME queue \in Seq(Executions), queue # <<>>, Once(queue)
  PROVE  /\ Head(queue) \in In(queue)
         /\ In(Tail(queue)) \subseteq In(queue) \ {Head(queue)}
         /\ Once(Tail(queue))
<1>1. Len(queue) \in Nat \ {0} /\ Head(queue) = queue[1] /\ Len(Tail(queue)) = Len(queue) - 1
  OBVIOUS
<1>2. \A i \in 1..Len(Tail(queue)) : /\ Tail(queue)[i] = queue[i + 1]
                                    /\ i + 1 \in 1..Len(queue) /\ i + 1 # 1
  BY <1>1
<1>3. Head(queue) \in In(queue) BY <1>1 DEF In
<1>4. In(Tail(queue)) \subseteq In(queue) \ {Head(queue)}
  <2> SUFFICES ASSUME NEW i \in 1..Len(Tail(queue))
               PROVE  Tail(queue)[i] \in In(queue) \ {queue[1]}
    BY <1>1 DEF In
  <2>1. queue[i + 1] \in In(queue) BY <1>2 DEF In
  <2>2. queue[i + 1] # queue[1] BY <1>1, <1>2 DEF Once
  <2> QED BY <1>2, <2>1, <2>2
<1>5. Once(Tail(queue))
  <2> SUFFICES ASSUME NEW i \in 1..Len(Tail(queue)), NEW j \in 1..Len(Tail(queue)),
                      Tail(queue)[i] = Tail(queue)[j]
               PROVE  i = j
    BY DEF Once
  <2>1. i + 1 = j + 1 BY <1>2 DEF Once
  <2> QED BY <2>1
<1> QED BY <1>3, <1>4, <1>5

LEMMA QueueAppend ==
  ASSUME queue \in Seq(Executions), NEW e \in Executions, e \notin In(queue), Once(queue)
  PROVE  In(Append(queue, e)) \subseteq In(queue) \cup {e} /\ Once(Append(queue, e))
<1> DEFINE q == Append(queue, e)
<1>0. Len(queue) \in Nat /\ Len(q) = Len(queue) + 1 /\ q[Len(queue) + 1] = e
  OBVIOUS
<1>a. \A i \in 1..Len(queue) : q[i] = queue[i]
  OBVIOUS
<1> HIDE DEF q
<1>1. \A i \in 1..Len(q) : \/ i \in 1..Len(queue) /\ q[i] = queue[i]
                           \/ i = Len(queue) + 1 /\ q[i] = e
  BY <1>0, <1>a
<1>2. \A i \in 1..Len(queue) : queue[i] # e BY DEF In
<1>3. In(q) \subseteq In(queue) \cup {e} BY <1>1 DEF In
<1>4. Once(q) BY <1>1, <1>2 DEF Once
<1> QED BY <1>3, <1>4 DEF q

LEMMA InitInv == Init => IInv
<1> SUFFICES ASSUME Init PROVE IInv OBVIOUS
<1>1. TypeInv BY InitType
<1>2. Active = {} /\ Busy = {} /\ queue = <<>> BY DEF Init, Active, Busy
<1>3. Placed /\ StartsKnow /\ DuplicatesOnlyByRace
  BY <1>2, QueueEmpty DEF Init, Placed, StartsKnow, DuplicatesOnlyByRace
<1>4. RowsFollow /\ CompletedIsRecorded
  BY DEF Init, RowsFollow, CompletedIsRecorded
<1> QED BY <1>1, <1>3, <1>4 DEF IInv

\* A step of a job's own: it goes on, keeping what its stage promises, or it
\* ends, completed only if both rows are there.
JobOutcome(e) ==
    \/ \E next \in {"proven", "unproven", "report proven", "report unproven"} :
         /\ Continue(e, next)
         /\ next \in {"proven", "report proven"} => e \in skillRuns'
         /\ next = "report proven" => e \in proofs'
    \/ \E outcome \in {"completed", "blocked", "failed"}, p \in {"completed", "skipped"} :
         /\ End(e, outcome, p)
         /\ outcome = "completed" =>
              family[e] \in Unrecorded \/ (e \in skillRuns' /\ e \in proofs')

LEMMA JobInv ==
  ASSUME IInv, NEW e \in Executions, stage[e] # "none", JobOutcome(e),
         UNCHANGED <<queue, starting, historyVars>>,
         skillRuns \subseteq skillRuns', proofs \subseteq proofs'
  PROVE  Placed' /\ StartsKnow' /\ DuplicatesOnlyByRace' /\ RowsFollow' /\ CompletedIsRecorded'
<1> USE DEF IInv, TypeInv, TypeOK, historyVars
<1>0. e \notin asked => status[e] = "running" /\ e \in Active /\ e \in Busy
  BY DEF Placed, Busy, Active
<1>1. ASSUME NEW next \in {"proven", "unproven", "report proven", "report unproven"},
             Continue(e, next),
             next \in {"proven", "report proven"} => e \in skillRuns',
             next = "report proven" => e \in proofs'
      PROVE  Placed' /\ StartsKnow' /\ DuplicatesOnlyByRace' /\ RowsFollow' /\ CompletedIsRecorded'
  <2>1. UNCHANGED <<status, family>> /\ stage' = [stage EXCEPT ![e] = next]
    BY <1>1 DEF Continue
  <2>2. Active' = Active /\ Busy' \subseteq Busy
    BY <2>1 DEF Active, Busy
  <2>3. Placed' BY <2>1, <2>2 DEF Placed
  <2>4. StartsKnow' /\ DuplicatesOnlyByRace'
    BY <2>1, <2>2 DEF StartsKnow, DuplicatesOnlyByRace
  <2>5. RowsFollow' BY <2>1, <1>1 DEF RowsFollow
  <2>6. CompletedIsRecorded' BY <2>1 DEF CompletedIsRecorded
  <2> QED BY <2>3, <2>4, <2>5, <2>6
<1>2. ASSUME NEW outcome \in {"completed", "blocked", "failed"},
             NEW p \in {"completed", "skipped"}, End(e, outcome, p),
             outcome = "completed" =>
                family[e] \in Unrecorded \/ (e \in skillRuns' /\ e \in proofs')
      PROVE  Placed' /\ StartsKnow' /\ DuplicatesOnlyByRace' /\ RowsFollow' /\ CompletedIsRecorded'
  <2>0. stage' = [stage EXCEPT ![e] = "none"] /\ UNCHANGED family
    BY <1>2 DEF End
  <2>1. CASE e \notin asked
    <3>1. status' = [status EXCEPT ![e] = outcome]
      BY <1>2, <2>1 DEF End
    <3>2. Active' = Active \ {e} /\ Busy' = Busy \ {e}
      BY <2>0, <3>1 DEF Active, Busy
    <3>3. e \notin In(queue)
      BY <1>0, <2>1 DEF Placed
    <3>4. Placed'
      <4>1. \A x \in Executions : status'[x] # "none" => x \in issued'
        BY <3>1, <1>0, <2>1 DEF Placed
      <4>2. \A x \in In(queue') : status'[x] = "queued"
        BY <3>1, <3>3, QueueIn DEF Placed
      <4>3. \A x \in Busy' : status'[x] = "running"
        <5>1. Busy \subseteq Executions BY DEF Busy
        <5> QED BY <3>1, <3>2, <5>1 DEF Placed
      <4>4. \A x \in asked' : x \in issued' /\ status'[x] = "none"
        BY <3>1, <2>1 DEF Placed
      <4>5. Once(queue') BY DEF Placed
      <4> QED BY <4>1, <4>2, <4>3, <4>4, <4>5 DEF Placed
    <3>5. StartsKnow' /\ DuplicatesOnlyByRace'
      BY <2>0, <3>2 DEF StartsKnow, DuplicatesOnlyByRace
    <3>6. RowsFollow' BY <2>0 DEF RowsFollow
    <3>7. CompletedIsRecorded' BY <2>0, <3>1, <1>2 DEF CompletedIsRecorded
    <3> QED BY <3>4, <3>5, <3>6, <3>7
  <2>2. CASE e \in asked
    <3>1. UNCHANGED status
      BY <1>2, <2>2 DEF End
    <3>2. Active' = Active /\ Busy' \subseteq Busy
      BY <2>0, <3>1 DEF Active, Busy
    <3>3. Placed' BY <3>1, <3>2 DEF Placed
    <3>4. StartsKnow' /\ DuplicatesOnlyByRace'
      BY <2>0, <3>2 DEF StartsKnow, DuplicatesOnlyByRace
    <3>5. RowsFollow' BY <2>0 DEF RowsFollow
    <3>6. CompletedIsRecorded' BY <2>0, <3>1 DEF CompletedIsRecorded
    <3> QED BY <3>3, <3>4, <3>5, <3>6
  <2> QED BY <2>1, <2>2
<1> QED BY <1>1, <1>2 DEF JobOutcome

LEMMA StartCheckInv ==
  ASSUME IInv, NEW c \in Callers, StartCheck(c)
  PROVE  Placed' /\ StartsKnow' /\ DuplicatesOnlyByRace' /\ RowsFollow' /\ CompletedIsRecorded'
<1> USE DEF IInv, TypeInv, TypeOK
<1>1. PICK f \in ToolFamilies : /\ \A e \in Active : family[e] # f
                                /\ starting' = [starting EXCEPT ![c] = f]
  BY DEF StartCheck
<1>2. UNCHANGED <<status, family, persist, stage, queue, skillRuns, proofs, issued,
                  asked, overtaken, raced>>
  BY DEF StartCheck, runVars, storeVars, historyVars
<1>3. Active' = Active /\ Busy' = Busy
  BY <1>2 DEF Active, Busy
<1>4. Placed' BY <1>2, <1>3 DEF Placed
<1>5. StartsKnow' BY <1>1, <1>2, <1>3 DEF StartsKnow
<1>6. DuplicatesOnlyByRace' BY <1>2, <1>3 DEF DuplicatesOnlyByRace
<1>7. RowsFollow' /\ CompletedIsRecorded' BY <1>2 DEF RowsFollow, CompletedIsRecorded
<1> QED BY <1>4, <1>5, <1>6, <1>7

LEMMA StartInsertInv ==
  ASSUME IInv, NEW c \in Callers, StartInsert(c)
  PROVE  Placed' /\ StartsKnow' /\ DuplicatesOnlyByRace' /\ RowsFollow' /\ CompletedIsRecorded'
<1> USE DEF IInv, TypeInv, TypeOK
<1>1. PICK e \in Executions \ issued :
        /\ status' = [status EXCEPT ![e] = "queued"]
        /\ family' = [family EXCEPT ![e] = starting[c]]
        /\ queue' = Append(queue, e)
        /\ issued' = issued \cup {e}
        /\ raced' = IF c \in overtaken THEN raced \cup {e} ELSE raced
  BY DEF StartInsert, Fresh
<1>2. /\ starting[c] # NoFamily
      /\ overtaken' = (overtaken \cup {d \in Callers : starting[d] = starting[c]}) \ {c}
      /\ starting' = [starting EXCEPT ![c] = NoFamily]
      /\ UNCHANGED <<stage, skillRuns, proofs, asked>>
  BY DEF StartInsert, storeVars
<1>3. status[e] = "none" /\ e \notin Active /\ e \notin Busy /\ e \notin asked
  BY <1>1 DEF Placed, Active, Busy
<1>4. Active' = Active \cup {e} /\ Busy' = Busy
  BY <1>1, <1>2, <1>3 DEF Active, Busy
<1>6. Placed'
  <2>1. \A x \in Executions : status'[x] # "none" => x \in issued'
    BY <1>1 DEF Placed
  <2>2. e \notin In(queue) /\ In(queue) \subseteq Executions
    BY <1>3, QueueIn DEF Placed
  <2>3. In(queue') \subseteq In(queue) \cup {e} /\ Once(queue')
    BY <1>1, <2>2, QueueAppend DEF Placed
  <2>4. \A x \in In(queue') : status'[x] = "queued"
    <3>1. \A x \in In(queue) : status[x] = "queued" BY DEF Placed
    <3> QED BY <3>1, <2>2, <2>3, <1>1
  <2>5. \A x \in Busy' : status'[x] = "running"
    BY <1>1, <1>3, <1>4 DEF Placed, Busy
  <2>6. \A x \in asked' : x \in issued' /\ status'[x] = "none"
    BY <1>1, <1>2, <1>3 DEF Placed
  <2> QED BY <2>1, <2>3, <2>4, <2>5, <2>6 DEF Placed
<1>7. StartsKnow'
  <2> SUFFICES ASSUME NEW d \in Callers, NEW x \in Active',
                      starting'[d] # NoFamily, family'[x] = starting'[d]
               PROVE  d \in overtaken'
    BY DEF StartsKnow
  <2>1. x \in Executions /\ d # c
    BY <1>2 DEF Active
  <2>2. CASE x = e BY <2>1, <2>2, <1>1, <1>2
  <2>3. CASE x # e
    <3>1. family[x] = starting[d] /\ x \in Active /\ starting[d] # NoFamily
      BY <2>1, <2>3, <1>1, <1>2, <1>4
    <3> QED BY <3>1, <2>1, <1>2 DEF StartsKnow
  <2> QED BY <2>2, <2>3
<1>8. DuplicatesOnlyByRace'
  <2> SUFFICES ASSUME NEW x \in Active', NEW y \in Active', x # y, family'[x] = family'[y]
               PROVE  x \in raced' \/ y \in raced'
    BY DEF DuplicatesOnlyByRace
  <2>1. x \in Executions /\ y \in Executions /\ raced \subseteq raced'
    BY <1>1 DEF Active
  <2>2. ASSUME NEW z \in Active, z # e, family'[z] = family'[e] PROVE e \in raced'
    <3>1. z \in Executions /\ family[z] = starting[c]
      BY <2>2, <1>1 DEF Active
    <3>2. c \in overtaken BY <3>1, <2>2, <1>2 DEF StartsKnow
    <3> QED BY <3>2, <1>1
  <2>3. CASE x = e BY <2>2, <2>3, <1>4
  <2>4. CASE y = e BY <2>2, <2>4, <1>4
  <2>5. CASE x # e /\ y # e
    <3>1. x \in Active /\ y \in Active /\ family[x] = family[y]
      BY <2>5, <2>1, <1>1, <1>4
    <3> QED BY <3>1, <2>1 DEF DuplicatesOnlyByRace
  <2> QED BY <2>3, <2>4, <2>5
<1>9. RowsFollow' BY <1>2 DEF RowsFollow
<1>10. CompletedIsRecorded' BY <1>1, <1>2 DEF CompletedIsRecorded
<1> QED BY <1>6, <1>7, <1>8, <1>9, <1>10

LEMMA AskProofInv ==
  ASSUME IInv, NEW f \in ToolFamilies, AskProof(f)
  PROVE  Placed' /\ StartsKnow' /\ DuplicatesOnlyByRace' /\ RowsFollow' /\ CompletedIsRecorded'
<1> USE DEF IInv, TypeInv, TypeOK
<1>1. PICK e \in Executions \ issued :
        /\ family' = [family EXCEPT ![e] = f]
        /\ stage' = [stage EXCEPT ![e] = "execute"]
        /\ issued' = issued \cup {e}
        /\ asked' = asked \cup {e}
  BY DEF AskProof, Fresh
<1>2. UNCHANGED <<status, persist, queue, starting, skillRuns, proofs, overtaken, raced>>
  BY DEF AskProof, storeVars
<1>3. status[e] = "none" /\ e \notin Active
  BY <1>1 DEF Placed, Active
<1>4. Active' = Active /\ Busy' \subseteq Busy
  BY <1>1, <1>2 DEF Active, Busy
<1>5. Placed' BY <1>1, <1>2, <1>3, <1>4 DEF Placed
<1>6. \A x \in Active : family'[x] = family[x]
  BY <1>1, <1>3 DEF Active
<1>7. StartsKnow' /\ DuplicatesOnlyByRace'
  BY <1>2, <1>4, <1>6 DEF StartsKnow, DuplicatesOnlyByRace
<1>8. RowsFollow' BY <1>1, <1>2 DEF RowsFollow
<1>9. CompletedIsRecorded'
  BY <1>1, <1>2, <1>3 DEF CompletedIsRecorded
<1> QED BY <1>5, <1>7, <1>8, <1>9

LEMMA BeginInv ==
  ASSUME IInv, Begin
  PROVE  Placed' /\ StartsKnow' /\ DuplicatesOnlyByRace' /\ RowsFollow' /\ CompletedIsRecorded'
<1> USE DEF IInv, TypeInv, TypeOK
<1> DEFINE e == Head(queue)
<1>1. /\ queue # <<>>
      /\ status' = [status EXCEPT ![e] = "running"]
      /\ stage' = [stage EXCEPT ![e] = "execute"]
      /\ queue' = Tail(queue)
      /\ UNCHANGED <<family, starting, skillRuns, proofs, issued, asked, overtaken, raced>>
  BY DEF Begin, storeVars, historyVars
<1>2. /\ e \in In(queue)
      /\ In(queue') \subseteq In(queue) \ {e}
      /\ Once(queue')
  BY <1>1, QueueTail DEF Placed
<1>3. e \in Executions /\ status[e] = "queued" /\ e \notin asked
  BY <1>2, QueueIn DEF Placed
<1> HIDE DEF e
<1>4. Active' = Active /\ Busy' = Busy \cup {e}
  BY <1>1, <1>3 DEF Active, Busy
<1>5. Placed'
  <2>1. \A x \in Executions : status'[x] # "none" => x \in issued'
    BY <1>1, <1>3 DEF Placed
  <2>2. \A x \in In(queue') : status'[x] = "queued"
    <3>1. \A x \in In(queue) : x \in Executions /\ status[x] = "queued"
      BY QueueIn DEF Placed
    <3> QED BY <3>1, <1>1, <1>2
  <2>3. \A x \in Busy' : status'[x] = "running"
    <3>1. Busy \subseteq Executions BY DEF Busy
    <3> QED BY <3>1, <1>1, <1>3, <1>4 DEF Placed
  <2>4. \A x \in asked' : x \in issued' /\ status'[x] = "none"
    BY <1>1, <1>3 DEF Placed
  <2> QED BY <2>1, <2>2, <2>3, <2>4, <1>2 DEF Placed
<1>6. StartsKnow' /\ DuplicatesOnlyByRace'
  BY <1>1, <1>4 DEF StartsKnow, DuplicatesOnlyByRace
<1>7. RowsFollow' /\ CompletedIsRecorded'
  BY <1>1, <1>3 DEF RowsFollow, CompletedIsRecorded
<1> QED BY <1>5, <1>6, <1>7

LEMMA ExecuteInv ==
  ASSUME IInv, NEW e \in Executions, Execute(e)
  PROVE  Placed' /\ StartsKnow' /\ DuplicatesOnlyByRace' /\ RowsFollow' /\ CompletedIsRecorded'
<1>1. CASE TurnedAway(e)
  <2>1. JobOutcome(e)
    BY <1>1 DEF TurnedAway, Reports, Fails, JobOutcome
  <2> QED BY <2>1, <1>1, JobInv DEF TurnedAway, storeVars
<1>2. ASSUME NEW verdict \in {"proven", "unproven"}, Verdict(e, verdict)
      PROVE  Placed' /\ StartsKnow' /\ DuplicatesOnlyByRace' /\ RowsFollow' /\ CompletedIsRecorded'
  <2>1. skillRuns \subseteq skillRuns' /\ JobOutcome(e)
    BY <1>2 DEF Verdict, Stores, Fails, JobOutcome
  <2> QED BY <2>1, <1>2, JobInv DEF Verdict
<1> QED BY <1>1, <1>2 DEF Execute

LEMMA PersistProofInv ==
  ASSUME IInv, NEW e \in Executions, PersistProof(e)
  PROVE  Placed' /\ StartsKnow' /\ DuplicatesOnlyByRace' /\ RowsFollow' /\ CompletedIsRecorded'
<1>1. stage[e] \in {"proven", "unproven"} /\ UNCHANGED <<queue, starting, historyVars>>
      /\ UNCHANGED skillRuns
  BY DEF PersistProof
<1>2. proofs \subseteq proofs'
  BY DEF PersistProof, Stores
<1>3. JobOutcome(e)
  BY <1>1 DEF PersistProof, Stores, Fails, JobOutcome, IInv, RowsFollow
<1> QED BY <1>1, <1>2, <1>3, JobInv

LEMMA ReportProofInv ==
  ASSUME IInv, NEW e \in Executions, ReportProof(e)
  PROVE  Placed' /\ StartsKnow' /\ DuplicatesOnlyByRace' /\ RowsFollow' /\ CompletedIsRecorded'
<1>1. stage[e] \in {"report proven", "report unproven"}
      /\ UNCHANGED <<queue, starting, historyVars>> /\ UNCHANGED <<skillRuns, proofs>>
  BY DEF ReportProof, storeVars
<1>2. JobOutcome(e)
  BY <1>1 DEF ReportProof, Reports, JobOutcome, IInv, RowsFollow
<1> QED BY <1>1, <1>2, JobInv

LEMMA RestartInv ==
  ASSUME IInv, Restart
  PROVE  Placed' /\ StartsKnow' /\ DuplicatesOnlyByRace' /\ RowsFollow' /\ CompletedIsRecorded'
<1>1. /\ \A e \in Executions : status'[e] = "none" /\ stage'[e] = "none"
      /\ queue' = <<>> /\ UNCHANGED <<issued, asked>>
  BY DEF Restart
<1>2. Active' = {} /\ Busy' = {}
  BY <1>1 DEF Active, Busy
<1>3. Placed' BY <1>1, <1>2, QueueEmpty DEF Placed, IInv, TypeInv, TypeOK
<1>4. StartsKnow' /\ DuplicatesOnlyByRace'
  BY <1>2 DEF StartsKnow, DuplicatesOnlyByRace
<1>5. RowsFollow' /\ CompletedIsRecorded'
  BY <1>1 DEF RowsFollow, CompletedIsRecorded
<1> QED BY <1>3, <1>4, <1>5

LEMMA NextInv == IInv /\ [Next]_vars => IInv'
<1> SUFFICES ASSUME IInv, [Next]_vars PROVE IInv' OBVIOUS
<1>1. TypeInv' BY NextType DEF IInv
<1>2. Placed' /\ StartsKnow' /\ DuplicatesOnlyByRace' /\ RowsFollow' /\ CompletedIsRecorded'
  <2>1. CASE UNCHANGED vars
    <3>1. Active' = Active /\ Busy' = Busy
      BY <2>1 DEF vars, runVars, historyVars, Active, Busy
    <3> QED BY <2>1, <3>1 DEF vars, runVars, storeVars, historyVars, IInv, Placed,
             StartsKnow, DuplicatesOnlyByRace, RowsFollow, CompletedIsRecorded
  <2>2. CASE Next
    BY <2>2, StartCheckInv, StartInsertInv, AskProofInv, BeginInv, ExecuteInv, PersistProofInv,
       ReportProofInv, RestartInv DEF Next, JobStep
  <2> QED BY <2>1, <2>2
<1> QED BY <1>1, <1>2 DEF IInv

\* One family runs twice only if its starts overlapped between the check and the
\* insertion of start_usecase_execution, for any number of requests.
THEOREM Duplicates == Spec => []DuplicatesOnlyByRace
<1>1. IInv => DuplicatesOnlyByRace BY DEF IInv
<1> QED BY <1>1, InitInv, NextInv, PTL DEF Spec

\* What the monitor shows as completed is in both tables, whichever INSERTs of
\* _persist_skill_execution and _persist_tool_proof raised.
THEOREM Recorded == Spec => []CompletedIsRecorded
<1>1. IInv => CompletedIsRecorded BY DEF IInv
<1> QED BY <1>1, InitInv, NextInv, PTL DEF Spec

-----------------------------------------------------------------------------
(* The work in the workspace.                                               *)

\* What a skill does to its run.
LEMMA SkillStepRefines ==
  ASSUME NEW e \in Executions, SkillStep(e)
  PROVE  [Next]_vars
<1>1. CASE \/ SubmitText(e) \/ SubmitDriver(e) \/ SubmitUnplanned(e)
           \/ SubmitSwitch(e) \/ SubmitUnnamed(e)
  BY <1>1 DEF SubmitText, SubmitDriver, SubmitUnplanned, SubmitSwitch, SubmitUnnamed, HandOver,
              Submits
<1>2. CASE \/ Wait(e) \/ Read(e) \/ Count(e)
           \/ WaitForSwitch(e) \/ ExportFolder(e) \/ CopyToVolume(e)
  BY <1>2 DEF Wait, Read, Count, WaitForSwitch, ExportFolder, CopyToVolume, Succeeds
<1>3. CASE Conclude(e)
  <2>1. TurnedAway(e) \/ \E verdict \in {"proven", "unproven"} : Verdict(e, verdict)
    BY <1>3 DEF Conclude
  <2> QED BY <2>1 DEF Next, JobStep, Execute
<1>4. CASE PersistProof(e) \/ ReportProof(e)
  BY <1>4 DEF Next, JobStep
<1> QED BY <1>1, <1>2, <1>3, <1>4 DEF SkillStep

LEMMA SkillNextRefines == [SkillNext]_allVars => [Next]_vars
<1> SUFFICES ASSUME [SkillNext]_allVars PROVE [Next]_vars OBVIOUS
<1>1. CASE UNCHANGED allVars BY <1>1 DEF allVars
<1>2. ASSUME NEW c \in Callers, StartCheck(c) \/ StartInsert(c) PROVE [Next]_vars
  BY <1>2 DEF Next
<1>3. ASSUME NEW f \in ToolFamilies, AskProof(f) PROVE [Next]_vars
  BY <1>3 DEF Next
<1>4. CASE Work
  <2>1. CASE Begin BY <2>1 DEF Next
  <2>2. ASSUME NEW e \in Executions, SkillStep(e) PROVE [Next]_vars
    BY <2>2, SkillStepRefines
  <2> QED BY <1>4, <2>1, <2>2 DEF Work
<1>5. ASSUME NEW e \in Executions, RemoteEnds(e) PROVE [Next]_vars
  BY <1>5 DEF RemoteEnds
<1>6. CASE Replace BY <1>6 DEF Replace, Next
<1> QED BY <1>1, <1>2, <1>3, <1>4, <1>5, <1>6 DEF SkillNext

\* With their statements, jobs and transpilations, and whatever these do after
\* their thread has gone, executions are executions of the monitor.
THEOREM SkillsImplement == SkillSpec => Spec
<1>1. SkillInit => Init BY DEF SkillInit
<1> QED BY <1>1, SkillNextRefines, PTL DEF SkillSpec, Spec

-----------------------------------------------------------------------------
(* What an execution rests on.  Its own output is what it reads, as long as *)
(* nobody else writes that place: the other executions of its family that  *)
(* are under way started in its race window or were asked for directly, and *)
(* what writes later than its thread waits is late.                         *)

Phases == {"idle", "wait", "read", "count", "answer", "export", "copy", "uncopied", "proven"}

SkillTypeOK ==
    /\ phase \in [Executions -> Phases]
    /\ remote \in [Executions -> {"none", "running", "good", "failed"}]
    /\ place \in [Executions -> ToolFamilies \cup {NoFamily}]
    /\ output \in [ToolFamilies -> SUBSET Executions]
    /\ seen \in [Executions -> SUBSET Executions]
    /\ volume \in SUBSET Executions
    /\ unnamed \in SUBSET Executions
    /\ late \in SUBSET Executions

\* An execution whose job has not begun, or not submitted anything, has nothing in
\* the workspace and has read nothing.
Unbegun(e) == stage[e] = "none" /\ (e \notin issued \/ e \in In(queue))
Untouched ==
    \A e \in Executions :
        Unbegun(e) \/ (stage[e] = "execute" /\ phase[e] = "idle")
            => phase[e] = "idle" /\ remote[e] = "none" /\ place[e] = NoFamily /\ seen[e] = {}

\* A family is known of every run the process has in memory.
Assigned ==
    \A e \in Executions :
        status[e] # "none" \/ stage[e] # "none" => family[e] \in ToolFamilies

\* Where the work of a job under way writes, and what its phase and stage say.
Proceeds ==
    \A e \in Executions :
        /\ stage[e] = "none" => phase[e] = "idle"
        /\ stage[e] # "none" =>
            /\ place[e] \in {NoFamily, family[e]}
            /\ phase[e] = "answer" => place[e] = NoFamily
            /\ phase[e] = "export" => family[e] \in Unrecorded
            /\ phase[e] = "copy" => family[e] = "Code Convert"
            /\ phase[e] \in {"read", "count", "answer"} => family[e] \notin Unrecorded
            /\ stage[e] \in {"proven", "report proven"} => phase[e] = "proven"
            /\ stage[e] # "execute" => family[e] \notin Unrecorded

\* The executions ProvenByOwnWork is about, while their job is under way, and whom
\* they may meet.
Alone(e) ==
    /\ stage[e] # "none" /\ family[e] \in Working \ Unrecorded
    /\ place[e] = family[e] /\ e \notin raced \cup asked
Excused(e) == {e} \cup raced \cup asked \cup late

\* From the end of its work to its last look, the place holds nothing else.
OwnOutput ==
    \A e \in Executions :
        /\ Alone(e) /\ stage[e] = "execute"
        /\ phase[e] \in {"read", "count"} \/ (phase[e] = "wait" /\ remote[e] = "good")
        => output[family[e]] \subseteq Excused(e)

OwnSeen ==
    \A e \in Executions :
        Alone(e) => /\ seen[e] \subseteq Excused(e)
                    /\ phase[e] \in {"count", "proven"} => seen[e] # {}

\* What was let run together was once handed out.
RacedIssued == raced \subseteq issued

\* Nothing more comes of a conversion that was waited for.
RunOver ==
    \A e \in Executions :
        /\ NamedConversion(e)
        /\ \/ status[e] = "completed"
           \/ stage[e] = "execute" /\ phase[e] \in {"export", "copy", "proven"}
        => remote[e] # "running"

\* What is about to be copied to the volume holds its conversion's files, and those
\* of every conversion completed before: all that the folder still has of them.
Exported ==
    \A e \in Executions :
        stage[e] = "execute" /\ phase[e] = "copy" /\ OneByOne
            => \A d \in Executions :
                  /\ NamedConversion(d) /\ d \in output[family[d]]
                  /\ d = e \/ status[d] = "completed"
                  => d \in seen[e]

Copied ==
    \A e \in Executions :
        /\ stage[e] = "execute" /\ phase[e] = "proven"
        /\ NamedConversion(e) /\ OneByOne /\ e \in output[family[e]]
        => e \in volume

SkillFacts ==
    /\ SkillTypeOK /\ Untouched /\ Assigned /\ Proceeds
    /\ OwnOutput /\ OwnSeen
    /\ RacedIssued /\ RunOver /\ Exported /\ Copied /\ CompletedIsDelivered

SkillInv == IInv /\ SkillFacts

LEMMA SkillInitInv == SkillInit => SkillInv
<1> SUFFICES ASSUME SkillInit PROVE SkillInv OBVIOUS
<1>1. IInv BY InitInv DEF SkillInit
<1>2. \A e \in Executions : stage[e] = "none" /\ status[e] = "none"
  BY DEF SkillInit, Init
<1>3. SkillTypeOK /\ Untouched
  BY DEF SkillInit, SkillTypeOK, Phases, Untouched
<1>4. Proceeds BY <1>2 DEF SkillInit, Proceeds
<1>5. Assigned /\ OwnOutput /\ OwnSeen
  BY <1>2 DEF Assigned, Alone, OwnOutput, OwnSeen
<1>6. RacedIssued /\ RunOver /\ Exported /\ Copied /\ CompletedIsDelivered
  BY <1>2 DEF SkillInit, Init, RacedIssued, RunOver, Exported, Copied, CompletedIsDelivered
<1> QED BY <1>1, <1>3, <1>4, <1>5, <1>6 DEF SkillInv, SkillFacts

\* A job under way was issued and waits no longer; two of one family that are, are
\* a race or a direct request.
LEMMA UnderWay ==
  ASSUME IInv
  PROVE  /\ \A e \in Executions : stage[e] # "none" =>
               e \in issued /\ e \notin In(queue) /\ status[e] # "completed"
         /\ \A d, e \in Executions :
               /\ d # e /\ stage[d] # "none" /\ stage[e] # "none" /\ family[d] = family[e]
               /\ e \notin raced \cup asked
               => d \in raced \cup asked
<1>1. \A e \in Executions : stage[e] # "none" /\ e \notin asked => e \in Busy /\ status[e] = "running"
  BY DEF IInv, Placed, Busy
<1>2. \A e \in Executions : stage[e] # "none" =>
         e \in issued /\ e \notin In(queue) /\ status[e] # "completed"
  BY <1>1 DEF IInv, Placed
<1>3. \A e \in Executions : stage[e] # "none" /\ e \notin asked => e \in Active
  BY <1>1 DEF Active
<1> QED BY <1>2, <1>3 DEF IInv, DuplicatesOnlyByRace

\* The monitor hands out and begins executions; what is in the workspace stays.
LEMMA MonitorKeeps ==
  ASSUME SkillInv, UNCHANGED skillVars,
         raced \subseteq raced', asked \subseteq asked', raced' \subseteq issued',
         \A d \in Executions : family'[d] = family[d] \/ d \notin issued,
         \A d \in Executions :
            /\ Unbegun(d)' => Unbegun(d)
            /\ \/ stage'[d] = stage[d] /\ status'[d] = status[d] /\ family'[d] = family[d]
               \/ /\ Unbegun(d) /\ stage'[d] \in {"none", "execute"}
                  /\ status'[d] # "completed" /\ family'[d] \in ToolFamilies
  PROVE  SkillFacts'
<1>1. \A d \in Executions : Unbegun(d) => phase[d] = "idle" /\ place[d] = NoFamily /\ seen[d] = {}
  BY DEF SkillInv, SkillFacts, Untouched
<1>2. SkillTypeOK' BY DEF SkillInv, SkillFacts, SkillTypeOK, skillVars
<1>3. Untouched' BY <1>1 DEF SkillInv, SkillFacts, Untouched, skillVars
<1>4. Assigned' BY <1>1 DEF SkillInv, SkillFacts, Assigned
<1>5. Proceeds' BY <1>1 DEF SkillInv, SkillFacts, Proceeds, skillVars
<1>6. \A d \in Executions : Alone(d)' => Alone(d) /\ stage'[d] = stage[d] /\ family'[d] = family[d]
  BY <1>1, ToolFamiliesAssumption DEF SkillInv, SkillFacts, Alone, skillVars
<1>7. \A d \in Executions : Excused(d) \subseteq Excused(d)'
  BY DEF Excused, skillVars
<1>8. OwnOutput' BY <1>6, <1>7 DEF SkillInv, SkillFacts, OwnOutput, skillVars
<1>9. OwnSeen' BY <1>6, <1>7 DEF SkillInv, SkillFacts, OwnSeen, skillVars
<1>10. RacedIssued' BY DEF RacedIssued
<1>11. raced \cup asked \subseteq issued /\ raced \cup asked \subseteq Executions
  BY DEF SkillInv, SkillFacts, RacedIssued, IInv, Placed, TypeInv, TypeOK
<1>12. OneByOne' => OneByOne
  BY <1>11 DEF OneByOne
<1>13. \A d \in Executions : (stage'[d] = "execute" /\ phase[d] # "idle") \/ status'[d] = "completed" =>
          stage'[d] = stage[d] /\ status'[d] = status[d] /\ family'[d] = family[d]
  BY <1>1
<1>14. RunOver'
  BY <1>13 DEF SkillInv, SkillFacts, RunOver, NamedConversion, skillVars
<1>15. Exported'
  <2> SUFFICES ASSUME NEW e \in Executions, stage'[e] = "execute", phase[e] = "copy", OneByOne',
                      NEW d \in Executions, NamedConversion(d)', d \in output[family'[d]],
                      d = e \/ status'[d] = "completed"
               PROVE  d \in seen[e]
    BY DEF Exported, skillVars
  <2>1. /\ stage[e] = "execute" /\ NamedConversion(d) /\ d \in output[family[d]]
        /\ d = e \/ status[d] = "completed"
    BY <1>13 DEF NamedConversion, skillVars
  <2> QED BY <1>12, <2>1 DEF SkillInv, SkillFacts, Exported
<1>16. Copied'
  BY <1>12, <1>13 DEF SkillInv, SkillFacts, Copied, NamedConversion, skillVars
<1>17. CompletedIsDelivered'
  BY <1>12, <1>13 DEF SkillInv, SkillFacts, CompletedIsDelivered, NamedConversion, skillVars
<1> QED BY <1>2, <1>3, <1>4, <1>5, <1>8, <1>9, <1>10, <1>14, <1>15, <1>16, <1>17 DEF SkillFacts

LEMMA MonitorInv ==
  ASSUME SkillInv, UNCHANGED skillVars,
         \/ \E c \in Callers : StartCheck(c) \/ StartInsert(c)
         \/ \E f \in ToolFamilies : AskProof(f)
         \/ Begin
  PROVE  SkillFacts'
<1> USE DEF SkillInv
<1>0. IInv /\ TypeInv /\ TypeOK /\ raced \subseteq issued
  BY DEF IInv, TypeInv, SkillFacts, RacedIssued
<1>1. ASSUME NEW c \in Callers, StartCheck(c) PROVE SkillFacts'
  BY <1>0, <1>1, MonitorKeeps DEF StartCheck, runVars, historyVars, Unbegun, In
<1>2. ASSUME NEW c \in Callers, StartInsert(c) PROVE SkillFacts'
  <2>1. PICK e \in Executions \ issued :
           /\ queue' = Append(queue, e) /\ issued' = issued \cup {e}
           /\ status' = [status EXCEPT ![e] = "queued"]
           /\ family' = [family EXCEPT ![e] = starting[c]]
    BY <1>2 DEF StartInsert, Fresh
  <2>2. /\ starting[c] \in ToolFamilies /\ UNCHANGED <<stage, asked>> /\ raced \subseteq raced'
        /\ raced' \subseteq issued'
    <3>1. PICK i \in Fresh : issued' = issued \cup {i} /\ raced' \subseteq raced \cup {i}
      BY <1>2 DEF StartInsert
    <3> QED BY <1>2, <1>0, <3>1 DEF StartInsert, TypeOK
  <2>3. stage[e] = "none" /\ Unbegun(e) BY <2>1, <1>0, UnderWay DEF Unbegun
  <2>4. In(queue') \subseteq In(queue) \cup {e}
    <3>1. queue \in Seq(Executions) /\ Once(queue) /\ e \notin In(queue)
      BY <1>0, <2>1 DEF TypeOK, IInv, Placed
    <3> QED BY <3>1, <2>1, QueueAppend
  <2>5. \A d \in Executions : Unbegun(d)' => Unbegun(d)
    BY <2>1, <2>2, <2>3, <2>4 DEF Unbegun
  <2>6. \A d \in Executions : d # e =>
           stage'[d] = stage[d] /\ status'[d] = status[d] /\ family'[d] = family[d]
    BY <2>1, <2>2, <1>0 DEF TypeOK
  <2>7. /\ stage'[e] \in {"none", "execute"} /\ status'[e] # "completed"
        /\ family'[e] \in ToolFamilies
    BY <2>1, <2>2, <2>3, <1>0 DEF TypeOK
  <2>8. \A d \in Executions : family'[d] = family[d] \/ d \notin issued
    BY <2>1, <2>6
  <2> QED BY <2>2, <2>3, <2>5, <2>6, <2>7, <2>8, MonitorKeeps
<1>3. ASSUME NEW f \in ToolFamilies, AskProof(f) PROVE SkillFacts'
  <2>1. PICK e \in Executions \ issued :
           /\ family' = [family EXCEPT ![e] = f]
           /\ stage' = [stage EXCEPT ![e] = "execute"]
           /\ issued' = issued \cup {e} /\ asked' = asked \cup {e}
    BY <1>3 DEF AskProof, Fresh
  <2>2. UNCHANGED <<status, queue, raced>> BY <1>3 DEF AskProof
  <2>3. stage[e] = "none" /\ Unbegun(e) BY <2>1, <1>0, UnderWay DEF Unbegun
  <2>4. status[e] = "none" BY <2>1, <1>0 DEF IInv, Placed
  <2>5. \A d \in Executions : Unbegun(d)' => Unbegun(d)
    BY <2>1, <2>2, <2>3, <1>0 DEF Unbegun, In, TypeOK
  <2>6. \A d \in Executions : d # e =>
           stage'[d] = stage[d] /\ status'[d] = status[d] /\ family'[d] = family[d]
    BY <2>1, <2>2, <1>0 DEF TypeOK
  <2>7. /\ stage'[e] \in {"none", "execute"} /\ status'[e] # "completed"
        /\ family'[e] \in ToolFamilies
    BY <2>1, <2>2, <2>4, <1>0 DEF TypeOK
  <2>8. /\ \A d \in Executions : family'[d] = family[d] \/ d \notin issued
        /\ raced' \subseteq issued'
    BY <2>1, <2>2, <2>6, <1>0
  <2> QED BY <2>1, <2>2, <2>3, <2>5, <2>6, <2>7, <2>8, MonitorKeeps
<1>4. CASE Begin
  <2> DEFINE e == Head(queue)
  <2>1. /\ queue # <<>> /\ queue' = Tail(queue)
        /\ status' = [status EXCEPT ![e] = "running"]
        /\ stage' = [stage EXCEPT ![e] = "execute"]
        /\ UNCHANGED <<family, issued, asked, raced>>
    BY <1>4 DEF Begin, historyVars
  <2>2. e \in In(queue) /\ In(queue') \subseteq In(queue) \ {e}
    BY <2>1, <1>0, QueueTail DEF IInv, Placed, TypeOK
  <2>3. e \in Executions /\ status[e] = "queued"
    BY <2>2, <1>0, QueueIn DEF IInv, Placed, TypeOK
  <2> HIDE DEF e
  <2>4. stage[e] = "none" /\ Unbegun(e) BY <2>2, <2>3, <1>0, UnderWay DEF Unbegun
  <2>5. \A d \in Executions : Unbegun(d)' => Unbegun(d)
    BY <2>1, <2>2, <2>3, <2>4, <1>0 DEF Unbegun, TypeOK
  <2>6. \A d \in Executions : d # e =>
           stage'[d] = stage[d] /\ status'[d] = status[d] /\ family'[d] = family[d]
    BY <2>1, <2>3, <1>0 DEF TypeOK
  <2>7. family[e] \in ToolFamilies BY <2>3 DEF SkillFacts, Assigned
  <2>8. /\ stage'[e] \in {"none", "execute"} /\ status'[e] # "completed"
        /\ family'[e] \in ToolFamilies
    BY <2>1, <2>3, <2>7, <1>0 DEF TypeOK
  <2> QED BY <1>0, <2>1, <2>4, <2>5, <2>6, <2>8, MonitorKeeps
<1> QED BY <1>1, <1>2, <1>3, <1>4

\* A job ends or goes on, and a thread that ends takes along what it knew.
LEMMA LocalsKeep ==
  ASSUME SkillInv, Locals, NEW d \in Executions
  PROVE  /\ stage'[d] # "none" => /\ phase'[d] = phase[d] /\ remote'[d] = remote[d]
                                  /\ place'[d] = place[d] /\ seen'[d] = seen[d]
         /\ phase[d] = "idle" /\ remote[d] = "none" /\ place[d] = NoFamily /\ seen[d] = {}
            => /\ phase'[d] = "idle" /\ remote'[d] = "none"
               /\ place'[d] = NoFamily /\ seen'[d] = {}
BY DEF Locals

LEMMA LocalsType ==
  ASSUME SkillTypeOK, Locals
  PROVE  SkillTypeOK'
<1>1. phase' \in [Executions -> Phases] /\ seen' \in [Executions -> SUBSET Executions]
  BY DEF Locals, SkillTypeOK, Phases
<1>2. /\ remote' \in [Executions -> {"none", "running", "good", "failed"}]
      /\ place' \in [Executions -> ToolFamilies \cup {NoFamily}]
  BY DEF Locals, SkillTypeOK
<1> QED BY <1>1, <1>2 DEF Locals, SkillTypeOK

LEMMA JobKeeps ==
  ASSUME SkillInv, Locals, NEW e \in Executions, stage[e] # "none",
         UNCHANGED <<queue, historyVars, family>>,
         \A d \in Executions : d # e => stage'[d] = stage[d] /\ status'[d] = status[d],
         stage'[e] # "execute",
         stage'[e] \in {"proven", "report proven"} => phase[e] = "proven",
         stage'[e] # "none" => family[e] \notin Unrecorded,
         status'[e] = "completed" /\ family[e] \in Unrecorded
            => stage[e] = "execute" /\ phase[e] = "proven"
  PROVE  SkillFacts'
<1> USE DEF historyVars
<1>1. SkillTypeOK' BY LocalsType DEF SkillInv, SkillFacts
<1>2. \A d \in Executions : Unbegun(d)' => Unbegun(d)
  BY UnderWay DEF Unbegun, SkillInv, In
<1>3. \A d \in Executions : stage'[d] # "none" => stage[d] # "none"
  OBVIOUS
<1>4. Untouched' BY <1>2, LocalsKeep DEF SkillInv, SkillFacts, Untouched
<1>5. Assigned' BY DEF SkillInv, SkillFacts, Assigned
<1>a. \A d \in Executions : stage'[d] # "none" =>
         /\ stage[d] # "none" /\ family'[d] = family[d] /\ (d # e => stage'[d] = stage[d])
         /\ phase'[d] = phase[d] /\ remote'[d] = remote[d]
         /\ place'[d] = place[d] /\ seen'[d] = seen[d]
  BY <1>3, LocalsKeep
<1>6. Proceeds' BY <1>a DEF SkillInv, SkillFacts, Proceeds, Locals
<1>7. \A d \in Executions : Alone(d)' => Alone(d)
  BY <1>a DEF Alone
<1>8. output' = output /\ late' = late BY DEF Locals
<1>9. \A d \in Executions : Excused(d)' = Excused(d) BY <1>8 DEF Excused
<1>10. OwnOutput' BY <1>7, <1>8, <1>9, <1>a DEF SkillInv, SkillFacts, OwnOutput
<1>11. OwnSeen' BY <1>7, <1>9, <1>a DEF SkillInv, SkillFacts, OwnSeen, Alone
<1>12. UNCHANGED <<volume, unnamed>> /\ OneByOne' = OneByOne
       /\ \A d \in Executions : NamedConversion(d)' = NamedConversion(d)
  BY DEF Locals, OneByOne, NamedConversion
<1>13. \A d \in Executions : remote'[d] = "running" => remote[d] = "running"
  BY DEF Locals
<1>b. \A d \in Executions : status'[d] = "completed" /\ family[d] \in Unrecorded =>
         \/ status[d] = "completed"
         \/ d = e /\ stage[d] = "execute" /\ phase[d] = "proven"
  OBVIOUS
<1>c. \A d \in Executions : NamedConversion(d) => family[d] \in Unrecorded
  BY DEF NamedConversion, Unrecorded
<1>14. RacedIssued' BY DEF SkillInv, SkillFacts, RacedIssued
<1>15. RunOver'
  BY <1>a, <1>b, <1>c, <1>12, <1>13 DEF SkillInv, SkillFacts, RunOver
<1>16. Exported'
  <2> SUFFICES ASSUME NEW c \in Executions, stage'[c] = "execute", phase'[c] = "copy", OneByOne,
                      NEW d \in Executions, NamedConversion(d), d \in output[family[d]],
                      d = c \/ status'[d] = "completed"
               PROVE  d \in seen'[c]
    BY <1>8, <1>12 DEF Exported
  <2>1. stage[c] = "execute" /\ phase[c] = "copy" /\ seen'[c] = seen[c] /\ c # e
    BY <1>a
  <2>2. CASE d = c \/ status[d] = "completed"
    BY <2>1, <2>2 DEF SkillInv, SkillFacts, Exported
  <2>3. CASE d = e /\ stage[e] = "execute"
    <3>1. family[d] = "Code Convert" /\ family[c] = "Code Convert"
      BY <2>1 DEF NamedConversion, SkillInv, SkillFacts, Proceeds
    <3>2. d \in raced \cup asked \/ c \in raced \cup asked
      BY <2>1, <2>3, <3>1, UnderWay DEF SkillInv
    <3> QED BY <3>1, <3>2 DEF OneByOne
  <2> QED BY <2>2, <2>3, <1>b, <1>c
<1>17. Copied' BY <1>8, <1>12, <1>a DEF SkillInv, SkillFacts, Copied
<1>18. CompletedIsDelivered'
  BY <1>8, <1>12, <1>b, <1>c DEF SkillInv, SkillFacts, Copied, CompletedIsDelivered
<1> QED BY <1>1, <1>4, <1>5, <1>6, <1>10, <1>11, <1>14, <1>15, <1>16, <1>17, <1>18 DEF SkillFacts

\* What Continue and End change besides the stage.
LEMMA JobChanges ==
  ASSUME TypeOK, NEW e \in Executions,
         \/ \E next \in {"none", "proven", "unproven", "report proven", "report unproven"} :
               Continue(e, next)
         \/ \E outcome \in {"completed", "blocked", "failed"}, p \in {"completed", "skipped"} :
               End(e, outcome, p)
  PROVE  /\ UNCHANGED family
         /\ \A d \in Executions : d # e => stage'[d] = stage[d] /\ status'[d] = status[d]
         /\ stage'[e] # "execute"
BY DEF TypeOK, Continue, End

LEMMA ConcludeInv ==
  ASSUME SkillInv, NEW e \in Executions, Conclude(e)
  PROVE  SkillFacts'
<1>0. TypeOK /\ Locals BY DEF SkillInv, IInv, TypeInv, Conclude
<1>1. CASE TurnedAway(e)
  <2>1. /\ stage[e] = "execute" /\ UNCHANGED <<queue, historyVars>>
        /\ \/ family[e] \notin Unrecorded /\ Continue(e, "unproven")
           \/ family[e] \in Unrecorded /\ End(e, "completed", "completed")
           \/ End(e, "blocked", "completed")
           \/ End(e, "failed", "skipped")
    BY <1>1 DEF TurnedAway, Reports, Fails
  <2>2. /\ UNCHANGED family
        /\ \A d \in Executions : d # e => stage'[d] = stage[d] /\ status'[d] = status[d]
        /\ stage'[e] # "execute"
    BY <1>0, <2>1, JobChanges
  <2>3. stage'[e] = "none" \/ (stage'[e] = "unproven" /\ family[e] \notin Unrecorded)
    BY <1>0, <2>1 DEF Continue, End, TypeOK
  <2>4. status'[e] = "completed" /\ family[e] \in Unrecorded => phase[e] = "proven"
    BY DEF Conclude, Verdict
  <2> QED BY <1>0, <2>1, <2>2, <2>3, <2>4, JobKeeps
<1>2. ASSUME NEW verdict \in {"proven", "unproven"}, Verdict(e, verdict),
             verdict = "proven" => phase[e] = "proven"
      PROVE  SkillFacts'
  <2>1. /\ stage[e] = "execute" /\ family[e] \notin Unrecorded
        /\ UNCHANGED <<queue, historyVars>>
        /\ Continue(e, verdict) \/ End(e, "failed", "skipped")
    BY <1>2 DEF Verdict, Stores, Fails
  <2>2. /\ UNCHANGED family
        /\ \A d \in Executions : d # e => stage'[d] = stage[d] /\ status'[d] = status[d]
        /\ stage'[e] # "execute"
    BY <1>0, <2>1, JobChanges
  <2>3. stage'[e] \in {verdict, "none"}
    BY <1>0, <2>1 DEF Continue, End, TypeOK
  <2> QED BY <1>0, <1>2, <2>1, <2>2, <2>3, JobKeeps
<1> QED BY <1>1, <1>2 DEF Conclude

LEMMA RowInv ==
  ASSUME SkillInv, NEW e \in Executions, PersistProof(e) \/ ReportProof(e), Locals
  PROVE  SkillFacts'
<1>0. TypeOK BY DEF SkillInv, IInv, TypeInv
<1>1. /\ \/ stage[e] = "proven" /\ (Continue(e, "report proven") \/ End(e, "failed", "skipped"))
         \/ stage[e] = "unproven" /\ (Continue(e, "report unproven") \/ End(e, "failed", "skipped"))
         \/ stage[e] = "report proven" /\ End(e, "completed", "completed")
         \/ stage[e] = "report unproven" /\ End(e, "blocked", "completed")
      /\ UNCHANGED <<queue, historyVars>>
  BY DEF PersistProof, ReportProof, Stores, Fails, Reports
<1>2. /\ UNCHANGED family
      /\ \A d \in Executions : d # e => stage'[d] = stage[d] /\ status'[d] = status[d]
      /\ stage'[e] # "execute"
  BY <1>0, <1>1, JobChanges
<1>3. /\ stage'[e] \in {"none", "report proven", "report unproven"}
      /\ stage'[e] = "report proven" => stage[e] = "proven"
  BY <1>0, <1>1 DEF Continue, End, TypeOK
<1>4. /\ family[e] \notin Unrecorded
      /\ stage[e] = "proven" => phase[e] = "proven"
  BY <1>1 DEF SkillInv, SkillFacts, Proceeds
<1> QED BY <1>1, <1>2, <1>3, <1>4, JobKeeps

LEMMA ReplaceInv ==
  ASSUME SkillInv, Replace
  PROVE  SkillFacts'
<1>1. /\ \A e \in Executions : stage'[e] = "none" /\ status'[e] = "none"
      /\ queue' = <<>> /\ UNCHANGED issued /\ Locals
  BY DEF Replace, Restart
<1>2. \A d \in Executions : Unbegun(d)' => d \notin issued
  BY <1>1, QueueEmpty DEF Unbegun
<1>3. \A d \in Executions : Unbegun(d)' => Unbegun(d)
  BY <1>2, UnderWay DEF Unbegun, SkillInv
<1>4. SkillTypeOK' BY <1>1, LocalsType DEF SkillInv, SkillFacts
<1>5. Untouched' BY <1>1, <1>3, LocalsKeep DEF SkillInv, SkillFacts, Untouched
<1>6. Proceeds' BY <1>1 DEF Proceeds, Locals
<1>7. Assigned' /\ OwnOutput' /\ OwnSeen'
  BY <1>1 DEF Assigned, Alone, OwnOutput, OwnSeen
<1>8. RacedIssued' BY DEF Replace, Restart, SkillInv, SkillFacts, RacedIssued
<1>9. RunOver' /\ Exported' /\ Copied' /\ CompletedIsDelivered'
  BY <1>1 DEF RunOver, Exported, Copied, CompletedIsDelivered
<1> QED BY <1>4, <1>5, <1>6, <1>7, <1>8, <1>9 DEF SkillFacts

-----------------------------------------------------------------------------
(* What a skill does, and what the workspace does to it. *)

\* A step of a skill touches nothing but its own execution, and no output.
LEMMA SkillKeeps ==
  ASSUME SkillInv, NEW e \in Executions, stage[e] = "execute",
         UNCHANGED <<vars, output, volume>>, SkillTypeOK',
         late \subseteq late', unnamed \subseteq unnamed',
         \A d \in Executions : d # e => /\ phase'[d] = phase[d] /\ remote'[d] = remote[d]
                                        /\ place'[d] = place[d] /\ seen'[d] = seen[d],
         phase'[e] # "idle",
         place'[e] \in {NoFamily, family[e]},
         phase'[e] = "answer" => place'[e] = NoFamily,
         phase'[e] = "export" => family[e] \in Unrecorded,
         phase'[e] \in {"read", "count", "answer"} => family[e] \notin Unrecorded,
         phase'[e] = "copy" => /\ family[e] = "Code Convert"
                               /\ output[family[e]] \subseteq seen'[e],
         phase'[e] = "proven" => family[e] # "Code Convert",
         /\ phase'[e] \in {"export", "copy", "proven"} /\ remote'[e] = "running"
         => e \in unnamed' \/ family[e] # "Code Convert",
         Alone(e)' => /\ \/ phase'[e] \in {"read", "count"}
                         \/ phase'[e] = "wait" /\ remote'[e] = "good"
                         => output[family[e]] \subseteq Excused(e)
                      /\ seen'[e] \subseteq Excused(e)
                      /\ phase'[e] \in {"count", "proven"} => seen'[e] # {}
  PROVE  SkillFacts'
<1> USE DEF vars, runVars, historyVars, storeVars
<1>1. Untouched' BY DEF SkillInv, SkillFacts, Untouched, Unbegun, In
<1>2. Assigned' BY DEF SkillInv, SkillFacts, Assigned
<1>3. Proceeds' BY DEF SkillInv, SkillFacts, Proceeds
<1>4. \A d \in Executions : Excused(d) \subseteq Excused(d)' BY DEF Excused
<1>5. \A d \in Executions : d # e => Alone(d)' = Alone(d) BY DEF Alone
<1>6. OwnOutput' BY <1>4, <1>5 DEF SkillInv, SkillFacts, OwnOutput
<1>7. OwnSeen' BY <1>4, <1>5 DEF SkillInv, SkillFacts, OwnSeen
<1>8. /\ OneByOne' = OneByOne /\ status[e] # "completed"
      /\ \A d \in Executions : NamedConversion(d)' => NamedConversion(d)
  BY UnderWay DEF SkillInv, OneByOne, NamedConversion
<1>9. RacedIssued' BY DEF SkillInv, SkillFacts, RacedIssued
<1>10. RunOver'
  <2> SUFFICES ASSUME NEW d \in Executions, NamedConversion(d)',
                      \/ status[d] = "completed"
                      \/ stage[d] = "execute" /\ phase'[d] \in {"export", "copy", "proven"}
               PROVE  remote'[d] # "running"
    BY DEF RunOver
  <2>1. CASE d = e BY <1>8, <2>1 DEF NamedConversion
  <2>2. CASE d # e BY <1>8, <2>2 DEF SkillInv, SkillFacts, RunOver
  <2> QED BY <2>1, <2>2
<1>11. Exported'
  <2> SUFFICES ASSUME NEW c \in Executions, stage[c] = "execute", phase'[c] = "copy", OneByOne,
                      NEW d \in Executions, NamedConversion(d), d \in output[family[d]],
                      d = c \/ status[d] = "completed"
               PROVE  d \in seen'[c]
    BY <1>8 DEF Exported
  <2>1. CASE c = e BY <2>1 DEF NamedConversion
  <2>2. CASE c # e BY <2>2 DEF SkillInv, SkillFacts, Exported
  <2> QED BY <2>1, <2>2
<1>12. Copied' BY <1>8 DEF SkillInv, SkillFacts, Copied, NamedConversion
<1>13. CompletedIsDelivered' BY <1>8 DEF SkillInv, SkillFacts, CompletedIsDelivered
<1> QED BY <1>1, <1>2, <1>3, <1>6, <1>7, <1>9, <1>10, <1>11, <1>12, <1>13 DEF SkillFacts

\* What is submitted runs, and nothing of it has been read.
LEMMA SubmitInv ==
  ASSUME SkillInv, NEW e \in Executions,
         \/ SubmitText(e) \/ SubmitDriver(e) \/ SubmitUnplanned(e)
         \/ SubmitSwitch(e) \/ SubmitUnnamed(e)
  PROVE  SkillFacts'
<1>0. SkillTypeOK BY DEF SkillInv, SkillFacts
<1>1. /\ stage[e] = "execute" /\ phase[e] = "idle" /\ UNCHANGED <<vars, output, seen, volume, late>>
      /\ remote' = [remote EXCEPT ![e] = "running"]
      /\ \E next \in {"wait", "export", "answer"} : phase' = [phase EXCEPT ![e] = next]
  BY DEF SubmitText, SubmitDriver, SubmitUnplanned, SubmitSwitch, SubmitUnnamed, HandOver,
         Submits, Moves, At
<1>2. place[e] = NoFamily /\ seen[e] = {} /\ family[e] \in ToolFamilies
  BY <1>1 DEF SkillInv, SkillFacts, Untouched, Assigned
<1>3. \/ place' = place
      \/ place' = [place EXCEPT ![e] = family[e]]
  BY DEF SubmitText, SubmitDriver, SubmitUnplanned, SubmitSwitch, SubmitUnnamed, HandOver
<1>4. unnamed' = unnamed \/ unnamed' = unnamed \cup {e}
  BY DEF SubmitText, SubmitDriver, SubmitUnplanned, SubmitSwitch, SubmitUnnamed
<1>5. SkillTypeOK' BY <1>0, <1>1, <1>2, <1>3, <1>4 DEF SkillTypeOK, Phases
<1>6. \A d \in Executions : d # e => /\ phase'[d] = phase[d] /\ remote'[d] = remote[d]
                                     /\ place'[d] = place[d] /\ seen'[d] = seen[d]
  BY <1>0, <1>1, <1>3 DEF SkillTypeOK
<1>7. /\ place'[e] \in {NoFamily, family[e]} /\ seen'[e] = {} /\ remote'[e] = "running"
      /\ phase'[e] \in {"wait", "export", "answer"}
  BY <1>0, <1>1, <1>2, <1>3 DEF SkillTypeOK
<1>8. /\ phase'[e] = "answer" => place'[e] = NoFamily /\ family[e] \notin Unrecorded
      /\ phase'[e] = "export" => family[e] \in Unrecorded /\ e \in unnamed'
  BY <1>0, <1>1, <1>2 DEF SkillTypeOK, SubmitText, SubmitDriver, SubmitUnplanned, SubmitSwitch,
     SubmitUnnamed, HandOver, Submits, Moves, Unrecorded
<1> QED BY <1>1, <1>4, <1>5, <1>6, <1>7, <1>8, SkillKeeps

\* What ended well may be read.
LEMMA WaitInv ==
  ASSUME SkillInv, NEW e \in Executions, Wait(e) \/ WaitForSwitch(e)
  PROVE  SkillFacts'
<1>0. SkillTypeOK BY DEF SkillInv, SkillFacts
<1>1. /\ stage[e] = "execute" /\ phase[e] = "wait" /\ remote[e] \in {"good", "failed"}
      /\ family[e] \notin Unrecorded => remote[e] = "good"
      /\ UNCHANGED <<vars, place, output, seen, volume, unnamed, late>>
      /\ remote' = [remote EXCEPT ![e] = "none"]
      /\ \/ phase' = [phase EXCEPT ![e] = "read"] /\ family[e] \notin Unrecorded
         \/ phase' = [phase EXCEPT ![e] = "export"] /\ family[e] \in Unrecorded
  BY DEF Wait, WaitForSwitch, Succeeds, Moves, At
<1>2. SkillTypeOK' BY <1>0, <1>1 DEF SkillTypeOK, Phases
<1>3. \A d \in Executions : d # e => /\ phase'[d] = phase[d] /\ remote'[d] = remote[d]
                                     /\ place'[d] = place[d] /\ seen'[d] = seen[d]
  BY <1>0, <1>1 DEF SkillTypeOK
<1>4. /\ \/ phase'[e] = "read" /\ family[e] \notin Unrecorded
         \/ phase'[e] = "export" /\ family[e] \in Unrecorded
      /\ place'[e] = place[e] /\ seen'[e] = seen[e] /\ remote'[e] = "none"
  BY <1>0, <1>1 DEF SkillTypeOK
<1>5. /\ place[e] \in {NoFamily, family[e]}
      /\ Alone(e) => /\ output[family[e]] \subseteq Excused(e)
                     /\ seen[e] \subseteq Excused(e)
  BY <1>1 DEF SkillInv, SkillFacts, Proceeds, OwnOutput, OwnSeen, Alone
<1>6. Alone(e)' = Alone(e) /\ UNCHANGED late
  BY <1>1 DEF Alone, vars, runVars, historyVars
<1> QED BY <1>1, <1>2, <1>3, <1>4, <1>5, <1>6, SkillKeeps

\* What is read is what is there.
LEMMA LookInv ==
  ASSUME SkillInv, NEW e \in Executions, Read(e) \/ Count(e)
  PROVE  SkillFacts'
<1>0. SkillTypeOK BY DEF SkillInv, SkillFacts
<1>1. /\ stage[e] = "execute" /\ UNCHANGED <<vars, remote, place, output, volume, unnamed, late>>
      /\ phase[e] \in {"read", "count", "answer"}
      /\ \/ phase' = [phase EXCEPT ![e] = "count"] /\ phase[e] = "read" /\ Sees(e)
         \/ /\ phase' = [phase EXCEPT ![e] = "proven"]
            /\ phase[e] \in {"read", "count"} => Sees(e)
      /\ Sees(e) \/ seen' = seen
  BY DEF Read, Count, Moves, At
<1>2. /\ place[e] \in {NoFamily, family[e]} /\ family[e] \in ToolFamilies
      /\ phase[e] = "answer" => place[e] = NoFamily
      /\ family[e] \notin Unrecorded
  BY <1>1 DEF SkillInv, SkillFacts, Proceeds, Assigned
<1>3. Sees(e) => \E w \in output[family[e]] : /\ w \in Executions
                                              /\ seen' = [seen EXCEPT ![e] = seen[e] \cup {w}]
  BY <1>0, <1>2 DEF Sees, SkillTypeOK
<1>4. SkillTypeOK'
  <2>1. seen' \in [Executions -> SUBSET Executions]
    BY <1>0, <1>1, <1>3 DEF SkillTypeOK
  <2> QED BY <1>0, <1>1, <2>1 DEF SkillTypeOK, Phases
<1>5. \A d \in Executions : d # e => /\ phase'[d] = phase[d] /\ remote'[d] = remote[d]
                                     /\ place'[d] = place[d] /\ seen'[d] = seen[d]
  BY <1>0, <1>1, <1>3 DEF SkillTypeOK
<1>6. /\ phase'[e] = "proven" \/ (phase'[e] = "count" /\ phase[e] = "read")
      /\ place'[e] = place[e]
      /\ seen'[e] = seen[e] \/ \E w \in output[family[e]] : seen'[e] = seen[e] \cup {w}
      /\ phase[e] \in {"read", "count"} => \E w \in output[family[e]] : seen'[e] = seen[e] \cup {w}
  BY <1>0, <1>1, <1>3 DEF SkillTypeOK
<1>7. Alone(e)' = Alone(e) /\ UNCHANGED late
  BY <1>1 DEF Alone, vars, runVars, historyVars
<1>8. Alone(e) => /\ phase[e] \in {"read", "count"}
                  /\ output[family[e]] \subseteq Excused(e) /\ seen[e] \subseteq Excused(e)
  BY <1>1, <1>2, ToolFamiliesAssumption DEF SkillInv, SkillFacts, OwnOutput, OwnSeen, Alone
<1>9. family[e] # "Code Convert" BY <1>2 DEF Unrecorded
<1> QED BY <1>1, <1>2, <1>4, <1>5, <1>6, <1>7, <1>8, <1>9, SkillKeeps

\* What is exported is all there is, or for a transpilation one file of it.
LEMMA ExportInv ==
  ASSUME SkillInv, NEW e \in Executions, ExportFolder(e)
  PROVE  SkillFacts'
<1>0. SkillTypeOK BY DEF SkillInv, SkillFacts
<1>1. /\ stage[e] = "execute" /\ phase[e] = "export"
      /\ UNCHANGED <<vars, remote, place, output, volume, unnamed, late>>
      /\ phase' = [phase EXCEPT ![e] = IF family[e] = "Code Convert" THEN "copy" ELSE "proven"]
  BY DEF ExportFolder, Moves, At
<1>2. PICK files \in Exports(e) : seen' = [seen EXCEPT ![e] = files]
  BY DEF ExportFolder
<1>3. /\ place[e] \in {NoFamily, family[e]} /\ family[e] \in ToolFamilies
      /\ family[e] \in Unrecorded
  BY <1>1 DEF SkillInv, SkillFacts, Proceeds, Assigned
<1>4. /\ files \in SUBSET Executions
      /\ family[e] = "Code Convert" => files = output[family[e]]
  <2>1. output[family[e]] \subseteq Executions BY <1>0, <1>3 DEF SkillTypeOK
  <2>2. CASE family[e] = "Code Convert" BY <1>2, <2>1, <2>2 DEF Exports
  <2>3. CASE family[e] # "Code Convert"
    <3>1. \E w \in output[family[e]] : files = {w} BY <1>2, <2>3 DEF Exports
    <3> QED BY <2>1, <2>3, <3>1
  <2> QED BY <2>2, <2>3
<1>5. SkillTypeOK'
  <2>1. seen' \in [Executions -> SUBSET Executions]
    BY <1>0, <1>2, <1>4 DEF SkillTypeOK
  <2> QED BY <1>0, <1>1, <2>1 DEF SkillTypeOK, Phases
<1>6. \A d \in Executions : d # e => /\ phase'[d] = phase[d] /\ remote'[d] = remote[d]
                                     /\ place'[d] = place[d] /\ seen'[d] = seen[d]
  BY <1>0, <1>1, <1>2 DEF SkillTypeOK
<1>7. /\ \/ phase'[e] = "copy" /\ family[e] = "Code Convert"
         \/ phase'[e] = "proven" /\ family[e] # "Code Convert"
      /\ place'[e] = place[e] /\ seen'[e] = files /\ remote'[e] = remote[e]
  BY <1>0, <1>1, <1>2 DEF SkillTypeOK
<1>8. ~Alone(e)' BY <1>1, <1>3 DEF Alone, vars, runVars
<1>9. remote[e] = "running" => e \in unnamed \/ family[e] # "Code Convert"
  BY <1>1 DEF SkillInv, SkillFacts, RunOver, NamedConversion
<1> QED BY <1>1, <1>3, <1>4, <1>5, <1>6, <1>7, <1>8, <1>9, SkillKeeps

\* A copy overwrites nothing of what was exported, and so nothing of a conversion
\* completed before that the folder still had.
LEMMA CopyInv ==
  ASSUME SkillInv, NEW e \in Executions, CopyToVolume(e)
  PROVE  SkillFacts'
<1> USE DEF vars, runVars, historyVars, storeVars
<1>0. SkillTypeOK BY DEF SkillInv, SkillFacts
<1>1. /\ stage[e] = "execute" /\ phase[e] = "copy"
      /\ UNCHANGED <<vars, remote, place, output, seen, unnamed, late>>
  BY DEF CopyToVolume, At
<1>2. PICK kept \in SUBSET volume, copied \in SUBSET seen[e] :
         /\ volume \cap seen[e] \subseteq kept /\ volume' = kept \cup copied
         /\ \/ phase' = [phase EXCEPT ![e] = "uncopied"]
            \/ copied = seen[e] /\ phase' = [phase EXCEPT ![e] = "proven"]
  BY DEF CopyToVolume, Moves
<1>3. family[e] = "Code Convert" /\ family[e] \in Unrecorded /\ status[e] # "completed"
  BY <1>1, UnderWay DEF SkillInv, SkillFacts, Proceeds, Unrecorded
<1>4. SkillTypeOK'
  <2>1. volume' \subseteq Executions BY <1>0, <1>2 DEF SkillTypeOK
  <2> QED BY <1>0, <1>1, <1>2, <2>1 DEF SkillTypeOK, Phases
<1>5. \A d \in Executions : d # e => phase'[d] = phase[d]
  BY <1>0, <1>2 DEF SkillTypeOK
<1>6. \/ phase'[e] = "uncopied"
      \/ phase'[e] = "proven" /\ copied = seen[e]
  BY <1>0, <1>2 DEF SkillTypeOK
<1>7. Untouched' BY <1>1, <1>5, <1>6 DEF SkillInv, SkillFacts, Untouched, Unbegun, In
<1>8. Assigned' BY <1>1 DEF SkillInv, SkillFacts, Assigned
<1>9. Proceeds' BY <1>1, <1>5, <1>6 DEF SkillInv, SkillFacts, Proceeds
<1>10. /\ \A d \in Executions : Alone(d)' => Alone(d) /\ d # e
       /\ \A d \in Executions : Excused(d)' = Excused(d)
  BY <1>1, <1>3 DEF Alone, Excused
<1>11. OwnOutput' BY <1>1, <1>5, <1>10 DEF SkillInv, SkillFacts, OwnOutput
<1>12. OwnSeen' BY <1>1, <1>5, <1>10 DEF SkillInv, SkillFacts, OwnSeen
<1>13. OneByOne' = OneByOne /\ \A d \in Executions : NamedConversion(d)' = NamedConversion(d)
  BY <1>1 DEF OneByOne, NamedConversion
<1>14. RacedIssued' BY <1>1 DEF SkillInv, SkillFacts, RacedIssued
<1>15. RunOver'
  BY <1>1, <1>5, <1>13 DEF SkillInv, SkillFacts, RunOver
<1>16. Exported' BY <1>1, <1>5, <1>6, <1>13 DEF SkillInv, SkillFacts, Exported
<1>17. Copied'
  <2> SUFFICES ASSUME NEW d \in Executions, stage[d] = "execute", phase'[d] = "proven",
                      NamedConversion(d), OneByOne, d \in output[family[d]]
               PROVE  d \in volume'
    BY <1>1, <1>13 DEF Copied
  <2>1. CASE d = e
    <3>1. d \in seen[e] BY <1>1, <2>1 DEF SkillInv, SkillFacts, Exported
    <3> QED BY <1>2, <1>6, <2>1, <3>1
  <2>2. CASE d # e
    <3>1. family[d] = "Code Convert" BY DEF NamedConversion
    <3>2. d \in raced \cup asked \/ e \in raced \cup asked
      BY <1>1, <1>3, <2>2, <3>1, UnderWay DEF SkillInv
    <3> QED BY <1>3, <3>1, <3>2 DEF OneByOne
  <2> QED BY <2>1, <2>2
<1>18. CompletedIsDelivered'
  <2> SUFFICES ASSUME NEW d \in Executions, status[d] = "completed", NamedConversion(d),
                      OneByOne, d \in output[family[d]]
               PROVE  d \in volume'
    BY <1>1, <1>13 DEF CompletedIsDelivered
  <2>1. d \in volume BY DEF SkillInv, SkillFacts, CompletedIsDelivered
  <2>2. d \in seen[e] BY <1>1 DEF SkillInv, SkillFacts, Exported
  <2> QED BY <1>2, <2>1, <2>2
<1> QED BY <1>4, <1>7, <1>8, <1>9, <1>11, <1>12, <1>14, <1>15, <1>16, <1>17, <1>18 DEF SkillFacts

\* Work that ends in time writes the place of its own execution only; what else
\* writes there is of a race, asked for directly, or late.
LEMMA RemoteInv ==
  ASSUME SkillInv, NEW e \in Executions, RemoteEnds(e)
  PROVE  SkillFacts'
<1> USE DEF vars, runVars, historyVars, storeVars
<1>0. SkillTypeOK BY DEF SkillInv, SkillFacts
<1>1. /\ remote[e] = "running" /\ UNCHANGED <<vars, phase, seen, volume, unnamed>>
      /\ \E ending \in {"good", "failed"} :
            /\ remote' = [remote EXCEPT ![e] = IF phase[e] = "wait" THEN ending ELSE "none"]
            /\ \/ output' \in Written(e)
               \/ output' = output /\ (ending = "failed" \/ place[e] \in Unrecorded)
      /\ late' = IF phase[e] = "wait" \/ output' = output THEN late ELSE late \cup {e}
      /\ place' = place \/ (place' = [place EXCEPT ![e] = NoFamily] /\ stage[e] = "none")
  <2>1. place' = [place EXCEPT ![e] = IF stage[e] = "none" THEN NoFamily ELSE place[e]]
    BY DEF RemoteEnds
  <2>2. place' = place \/ (place' = [place EXCEPT ![e] = NoFamily] /\ stage[e] = "none")
    BY <1>0, <2>1 DEF SkillTypeOK
  <2> QED BY <2>2 DEF RemoteEnds
<1>2. \A w \in Written(e) :
         /\ w \in [ToolFamilies -> SUBSET Executions]
         /\ \A f \in ToolFamilies :
               /\ f # place[e] => w[f] = output[f]
               /\ f = place[e] /\ f \notin Unrecorded => w[f] = {e}
               /\ w[f] \subseteq output[f] \cup {e}
  BY <1>0, ToolFamiliesAssumption DEF SkillTypeOK, Written
<1>3. SkillTypeOK'
  <2>1. output' \in [ToolFamilies -> SUBSET Executions] BY <1>0, <1>1, <1>2 DEF SkillTypeOK
  <2>2. place' \in [Executions -> ToolFamilies \cup {NoFamily}] BY <1>0, <1>1 DEF SkillTypeOK
  <2>3. /\ remote' \in [Executions -> {"none", "running", "good", "failed"}]
        /\ late' \in SUBSET Executions /\ UNCHANGED <<phase, seen, volume, unnamed>>
    BY <1>0, <1>1 DEF SkillTypeOK
  <2> QED BY <1>0, <2>1, <2>2, <2>3 DEF SkillTypeOK
<1>4. \A d \in Executions : d # e => remote'[d] = remote[d] /\ place'[d] = place[d]
  BY <1>0, <1>1 DEF SkillTypeOK
<1>5. \A d \in Executions : stage[d] # "none" => place'[d] = place[d]
  BY <1>0, <1>1 DEF SkillTypeOK
<1>6. Untouched' BY <1>1, <1>4 DEF SkillInv, SkillFacts, Untouched, Unbegun, In
<1>7. Assigned' BY <1>1 DEF SkillInv, SkillFacts, Assigned
<1>8. Proceeds' BY <1>1, <1>5 DEF SkillInv, SkillFacts, Proceeds
<1>9. \A d \in Executions : Alone(d)' => Alone(d)
  BY <1>1, <1>5 DEF Alone
<1>10. late \subseteq late' /\ \A d \in Executions : Excused(d) \subseteq Excused(d)'
  BY <1>1 DEF Excused
<1>11. \A f \in ToolFamilies :
          /\ f # place[e] => output'[f] = output[f]
          /\ f \notin Unrecorded => output'[f] = output[f] \/ (f = place[e] /\ output'[f] = {e})
          /\ output'[f] \subseteq output[f] \cup {e}
  BY <1>1, <1>2
<1>12. OwnOutput'
  <2> SUFFICES ASSUME NEW d \in Executions, Alone(d)', stage[d] = "execute",
                      \/ phase[d] \in {"read", "count"}
                      \/ phase[d] = "wait" /\ remote'[d] = "good"
               PROVE  output'[family[d]] \subseteq Excused(d)'
    BY <1>1 DEF OwnOutput
  <2>1. Alone(d) /\ family[d] \in ToolFamilies /\ family[d] \notin Unrecorded
    BY <1>9 DEF Alone, SkillInv, SkillFacts, Assigned
  <2>2. CASE output'[family[d]] = output[family[d]] /\ d # e
    BY <2>1, <2>2, <1>4, <1>10 DEF SkillInv, SkillFacts, OwnOutput
  <2>3. CASE d = e
    <3>1. place[e] = family[d] BY <2>1, <2>3 DEF Alone
    <3>2. CASE output'[family[d]] = {e} BY <2>3, <3>2 DEF Excused
    <3>3. CASE output'[family[d]] # {e}
      <4>1. phase[e] # "wait"
        BY <2>1, <2>3, <3>1, <3>3, <1>0, <1>1, <1>2 DEF SkillTypeOK
      <4>2. output'[family[d]] = output[family[d]] BY <2>1, <3>3, <1>11
      <4> QED BY <4>1, <4>2, <2>1, <2>3, <1>10 DEF SkillInv, SkillFacts, OwnOutput
    <3> QED BY <3>2, <3>3
  <2>4. CASE output'[family[d]] # output[family[d]] /\ d # e
    <3>1. place[e] = family[d] /\ output' # output /\ output'[family[d]] = {e}
      BY <2>1, <2>4, <1>11
    <3>2. CASE phase[e] = "wait"
      <4>1. stage[e] # "none" /\ place[e] \in {NoFamily, family[e]}
        BY <3>2 DEF SkillInv, SkillFacts, Proceeds
      <4>2. family[e] = family[d] BY <4>1, <3>1, <2>1, ToolFamiliesAssumption
      <4>3. e \in raced \cup asked
        BY <4>1, <4>2, <2>1, <2>4, UnderWay DEF Alone, SkillInv
      <4> QED BY <4>3, <3>1, <1>10 DEF Excused
    <3>3. CASE phase[e] # "wait"
      BY <3>1, <3>3, <1>1 DEF Excused
    <3> QED BY <3>2, <3>3
  <2> QED BY <2>2, <2>3, <2>4
<1>13. OwnSeen' BY <1>1, <1>9, <1>10 DEF SkillInv, SkillFacts, OwnSeen, Alone
<1>14. RacedIssued' BY <1>1 DEF SkillInv, SkillFacts, RacedIssued
<1>15. OneByOne' = OneByOne /\ \A d \in Executions : NamedConversion(d)' = NamedConversion(d)
  BY <1>1 DEF OneByOne, NamedConversion
<1>16. RunOver'
  <2>1. remote'[e] # "running" BY <1>0, <1>1 DEF SkillTypeOK
  <2> QED BY <1>1, <1>4, <1>15, <2>1 DEF SkillInv, SkillFacts, RunOver
<1>17. ASSUME NEW d \in Executions, NamedConversion(d),
              \/ status[d] = "completed"
              \/ stage[d] = "execute" /\ phase[d] \in {"copy", "proven"},
              d \in output'[family[d]]
       PROVE  d \in output[family[d]]
  <2>1. family[d] \in ToolFamilies BY <1>17 DEF SkillInv, SkillFacts, Assigned
  <2>2. d # e BY <1>1, <1>17 DEF SkillInv, SkillFacts, RunOver
  <2> QED BY <1>11, <1>17, <2>1, <2>2
<1>18. Exported' BY <1>1, <1>15, <1>17 DEF SkillInv, SkillFacts, Exported
<1>19. Copied' BY <1>1, <1>15, <1>17 DEF SkillInv, SkillFacts, Copied
<1>20. CompletedIsDelivered' BY <1>1, <1>15, <1>17 DEF SkillInv, SkillFacts, CompletedIsDelivered
<1> QED BY <1>3, <1>6, <1>7, <1>8, <1>12, <1>13, <1>14, <1>16, <1>18, <1>19, <1>20 DEF SkillFacts

LEMMA SkillNextInv == SkillInv /\ [SkillNext]_allVars => SkillInv'
<1> SUFFICES ASSUME SkillInv, [SkillNext]_allVars PROVE SkillInv' OBVIOUS
<1>1. IInv' BY SkillNextRefines, NextInv DEF SkillInv
<1>2. SkillFacts'
  <2>1. CASE UNCHANGED allVars
    <3>1. UNCHANGED <<vars, skillVars>> /\ raced \subseteq issued
      BY <2>1 DEF allVars, SkillInv, SkillFacts, RacedIssued
    <3> QED BY <3>1, MonitorKeeps DEF vars, runVars, historyVars, storeVars, Unbegun, In
  <2>2. CASE Work
    <3>1. ASSUME NEW e \in Executions, SkillStep(e) PROVE SkillFacts'
      BY <3>1, ConcludeInv, RowInv, SubmitInv, WaitInv, LookInv, ExportInv, CopyInv
         DEF SkillStep
    <3> QED BY <2>2, <3>1, MonitorInv DEF Work
  <2>3. CASE \E e \in Executions : RemoteEnds(e) BY <2>3, RemoteInv
  <2>4. CASE Replace BY <2>4, ReplaceInv
  <2>5. CASE \/ \E c \in Callers : (StartCheck(c) \/ StartInsert(c)) /\ UNCHANGED skillVars
             \/ \E f \in ToolFamilies : AskProof(f) /\ UNCHANGED skillVars
    BY <2>5, MonitorInv
  <2> QED BY <2>1, <2>2, <2>3, <2>4, <2>5 DEF SkillNext
<1> QED BY <1>1, <1>2 DEF SkillInv

\* For any number of executions, callers and threads: what proves an execution was
\* written by it, unless another of its family raced it, was asked for directly, or
\* wrote when nobody waited any more.
THEOREM OwnWorkProves == SkillSpec => []ProvenByOwnWork
<1>1. SkillInv => ProvenByOwnWork
  BY DEF SkillInv, SkillFacts, Proceeds, OwnSeen, Alone, Excused, ProvenByOwnWork
<1> QED BY <1>1, SkillInitInv, SkillNextInv, PTL DEF SkillSpec

\* A completed code conversion whose run was known has in the volume what it has in
\* the folder, for any number of executions, callers and threads, unless two ran
\* together.
THEOREM ConversionsDelivered == SkillSpec => []CompletedIsDelivered
<1>1. SkillInv => CompletedIsDelivered BY DEF SkillInv, SkillFacts
<1> QED BY <1>1, SkillInitInv, SkillNextInv, PTL DEF SkillSpec

-----------------------------------------------------------------------------
(* What an ML execution decides before it submits anything.                 *)

\* Some problem type is always pointed to, "no_ml_yet" at the least, and the
\* first that is is the one chosen.
LEMMA ProblemTypeChosen ==
  ASSUME NEW u
  PROVE  /\ ProblemType(u) \in Trainable \cup {"no_ml_yet"}
         /\ PointsTo(u, ProblemType(u))
<1> DEFINE Pointed == {i \in DOMAIN ProblemTypes : PointsTo(u, ProblemTypes[i])}
<1>1. DOMAIN ProblemTypes = 1..8
  BY DEF ProblemTypes
<1>2. 8 \in Pointed
  BY <1>1 DEF PointsTo, ProblemTypes
<1>3. \E i \in Pointed : \A j \in Pointed : i <= j
  <2> HIDE DEF Pointed
  <2>1. Pointed \subseteq 1..8 BY <1>1 DEF Pointed
  <2> QED BY <1>2, <2>1, SMTT(30)
<1>4. Min(Pointed) \in Pointed
  BY <1>3 DEF Min
<1>5. Min(Pointed) \in 1..8 /\ PointsTo(u, ProblemTypes[Min(Pointed)])
  BY <1>1, <1>4
<1> HIDE DEF Pointed
<1>6. ProblemType(u) = ProblemTypes[Min(Pointed)]
  BY DEF ProblemType, Pointed
<1>7. \A i \in 1..8 : ProblemTypes[i] \in Trainable \cup {"no_ml_yet"}
  BY DEF ProblemTypes, Trainable
<1> QED BY <1>5, <1>6, <1>7

\* The three heuristics agree on whatever columns a usecase has.
LEMMA HeuristicsAgree == JudgementsAgree
<1> SUFFICES ASSUME NEW u \in Inferred, ProblemReady(u)
             PROVE  /\ FeatureReady(u)
                    /\ \/ ProblemType(u) \in {"ranking", "segmentation"}
                       \/ \E b \in Bindings : BackendSelected(ProblemType(u), b)
  BY DEF JudgementsAgree
<1>0. u.problem = "" /\ u.target = NoColumn
  BY DEF Inferred
<1>1. FeatureReady(u)
  <2>1. JudgedType(u) = ProblemType(u) /\ JudgedTarget(u) = Target(u)
    BY <1>0 DEF JudgedType, JudgedTarget
  <2>2. ProblemType(u) # "recommendation"
    BY ProblemTypeChosen DEF Trainable, ProblemTypes
  <2> HIDE DEF ProblemType
  <2> QED BY <2>1, <2>2 DEF FeatureReady, ProblemReady, Supervised
<1>2. ASSUME ProblemType(u) \notin {"ranking", "segmentation"}
      PROVE  \E b \in Bindings : BackendSelected(ProblemType(u), b)
  <2> DEFINE b == [model |-> "three parts", metric |-> "rmse", surface |-> "serverless_jobs",
                   evidence |-> References, handAuthored |-> FALSE,
                   probed |-> {"databricks_automl_available"}, operations |-> TRUE,
                   body |-> FALSE, readback |-> TRUE, complete |-> TRUE]
  <2>1. b \in Bindings BY DEF Bindings, References
  <2>2. ProblemType(u) \in {"forecasting", "anomaly_detection", "text_or_genai",
                            "regression", "classification"}
    BY <1>2, ProblemTypeChosen DEF Trainable, ProblemTypes, ProblemReady
  <2>3. Grounded(b) BY DEF Grounded, References
  <2>4. \/ Supports("databricks_mlflow_flavor_job", ProblemType(u), b)
        \/ Supports("databricks_automl", ProblemType(u), b)
        \/ Supports("mosaic_ai", ProblemType(u), b)
    BY <2>2 DEF Supports, References
  <2> QED BY <2>1, <2>3, <2>4 DEF BackendSelected, Backends
<1> QED BY <1>1, <1>2

\* An ML execution whose problem is ready is not then refused for its features,
\* nor left without a backend for its problem, rankings and segmentations apart:
\* for every set of columns, whatever their names and types say.
THEOREM ApprovedTrainable == SkillSpec => []ApprovedIsTrainable
<1>1. ApprovedIsTrainable BY HeuristicsAgree DEF ApprovedIsTrainable
<1> QED BY <1>1, PTL
=============================================================================

--------------------------- MODULE EvaluationProofs ---------------------------
(***************************************************************************)
(* What holds of Evaluation for every set of questions and askers, every   *)
(* manifest whose floors are those of the shipped one or stricter, every   *)
(* retry policy and every number of failures.                              *)
(***************************************************************************)
EXTENDS Evaluation, FiniteSetTheorems, TLAPS

-----------------------------------------------------------------------------
(* The registry of datasets.                                                *)

\* What a sync has registered stays registered until a later one takes it up, or a
\* DELETE that was given up on lands.
THEOREM SyncRegisters == Spec => []RegisteredAfterSync
<1>1. Init => RegisteredAfterSync
  BY DEF Init, RegisteredAfterSync
<1>2. RegisteredAfterSync /\ [Next]_vars => RegisteredAfterSync'
  <2> SUFFICES ASSUME RegisteredAfterSync, [Next]_vars PROVE RegisteredAfterSync'
    OBVIOUS
  <2>1. CASE UNCHANGED <<registry, synced>>
    BY <2>1 DEF RegisteredAfterSync
  <2>2. CASE Register
    <3>1. /\ registry' = Apply(job.step, Dataset)
          /\ \/ job.step = "delete" /\ synced' = synced \ {Dataset}
             \/ job.step = "insert" /\ synced' = synced \cup {Dataset}
       \/ UNCHANGED <<registry, synced>>
      BY <2>2 DEF Register, RegisterFirst, RegisterOrder
    <3> QED BY <2>1, <3>1 DEF Apply, RegisteredAfterSync
  <2>3. CASE \E s \in late : LandLate(s)
    BY <2>3 DEF LandLate, Apply, RegisteredAfterSync
  <2> QED BY <2>1, <2>2, <2>3
          DEF Next, vars, jobVars, BlankRequest, Search, AnswerWithoutHits, Answer, Land,
              StartJob, Score, Persist, Sample, JobStops, LandRun, PageOpens,
              PageAnswers, DayPasses
<1> QED BY <1>1, <1>2, PTL DEF Spec

-----------------------------------------------------------------------------
(* Types.                                                                   *)

Stores == {"no", "yes", "late", "landed"}
EventRow == [kind : {"rag_search", "rag_answer"}, q : Questions \cup {Blank},
             status : {"observed", "failed", "blocked"},
             rank : {"first", "lower", "absent"}, says : BOOLEAN,
             completed : BOOLEAN, traced : BOOLEAN, stored : Stores]
RunRow == [wf : STRING, status : {"passed", "failed"}, observed : BOOLEAN,
           at : Nat, stored : Stores]
Request == [step : {"answer"}, q : Questions, rank : Ranked]

Steps == {"", "delete", "insert", "read", "persist"}
JobRecord == [task : {"idle", "sync", "score", "sample"}, at : Nat, step : Steps,
              attempt : Nat, failed : BOOLEAN, row : SUBSET RunRow]

JobTypes ==
    /\ job \in JobRecord
    /\ job.task \in {"sync", "score"} => job.at \in InOrder
    /\ job.step = "persist" => job.task = "score" /\ job.row # {}
    /\ job.task = "idle" => job.step = ""

AskTypes == /\ ask \in [Askers -> {Idle} \cup Request]
            /\ events \in Seq(EventRow)
            /\ window \in Nat
TypeInv == AskTypes /\ JobTypes /\ runs \in Seq(RunRow)

\* Rows are only added, and only how they are stored can change: one given up on
\* lands.
Lands(was, is) == is = was \/ (was = "late" /\ is = "landed")
KeepsEvents ==
    /\ Len(events) <= Len(events')
    /\ \A i \in 1..Len(events) :
         /\ events'[i] = [events[i] EXCEPT !.stored = events'[i].stored]
         /\ Lands(events[i].stored, events'[i].stored)
KeepsRuns ==
    /\ Len(runs) <= Len(runs')
    /\ \A k \in 1..Len(runs) :
         /\ runs'[k] = [runs[k] EXCEPT !.stored = runs'[k].stored]
         /\ Lands(runs[k].stored, runs'[k].stored)

LEMMA EventsAppend ==
  ASSUME events \in Seq(EventRow), NEW e \in EventRow, NEW how \in Stores,
         events' = Append(events, [e EXCEPT !.stored = how])
  PROVE  events' \in Seq(EventRow) /\ KeepsEvents
<1>1. [e EXCEPT !.stored = how] \in EventRow BY DEF EventRow
<1>2. events' \in Seq(EventRow) BY <1>1
<1>3. \A i \in 1..Len(events) : events'[i] = events[i] /\ events[i] \in EventRow
  OBVIOUS
<1>4. \A r \in EventRow : r = [r EXCEPT !.stored = r.stored] BY DEF EventRow
<1>5. Len(events) <= Len(events') OBVIOUS
<1> QED BY <1>2, <1>3, <1>4, <1>5 DEF KeepsEvents, Lands

LEMMA EventsSame ==
  ASSUME events \in Seq(EventRow), events' = events
  PROVE  events' \in Seq(EventRow) /\ KeepsEvents
<1>1. \A i \in 1..Len(events) : events[i] \in EventRow OBVIOUS
<1>2. \A r \in EventRow : r = [r EXCEPT !.stored = r.stored] BY DEF EventRow
<1>3. Len(events) <= Len(events') OBVIOUS
<1> QED BY <1>1, <1>2, <1>3 DEF KeepsEvents, Lands

LEMMA EmitEvents ==
  ASSUME events \in Seq(EventRow), NEW e \in EventRow, Emit(e)
  PROVE  events' \in Seq(EventRow) /\ KeepsEvents
<1>1. \/ events' = events
      \/ events' = Append(events, [e EXCEPT !.stored = "yes"])
      \/ events' = Append(events, [e EXCEPT !.stored = "late"])
  BY DEF Emit
<1> QED BY <1>1, EventsAppend, EventsSame DEF Stores

LEMMA LandEvents ==
  ASSUME events \in Seq(EventRow), NEW i \in 1..Len(events), Land(i)
  PROVE  events' \in Seq(EventRow) /\ KeepsEvents
<1>1. /\ events' = [events EXCEPT ![i].stored = "landed"]
      /\ events[i].stored = "late"
  BY DEF Land
<1>2. \A j \in 1..Len(events) : events[j] \in EventRow OBVIOUS
<1>3. \A r \in EventRow : /\ r = [r EXCEPT !.stored = r.stored]
                          /\ [r EXCEPT !.stored = "landed"] \in EventRow
                          /\ [r EXCEPT !.stored = "landed"].stored = "landed"
  BY DEF EventRow, Stores
<1>4. events' \in Seq(EventRow) /\ Len(events') = Len(events)
  BY <1>1, <1>2, <1>3
<1>5. \A j \in 1..Len(events) :
        events'[j] = IF j = i THEN [events[i] EXCEPT !.stored = "landed"] ELSE events[j]
  BY <1>1
<1>6. ASSUME NEW j \in 1..Len(events)
      PROVE  /\ events'[j] = [events[j] EXCEPT !.stored = events'[j].stored]
             /\ Lands(events[j].stored, events'[j].stored)
  <2>1. CASE j = i
    <3>1. events'[j] = [events[j] EXCEPT !.stored = "landed"] BY <1>5, <2>1
    <3>2. events'[j].stored = "landed" BY <1>2, <1>3, <3>1
    <3> QED BY <1>1, <2>1, <3>1, <3>2 DEF Lands
  <2>2. CASE j # i
    <3>1. events'[j] = events[j] BY <1>5, <2>2
    <3> QED BY <1>2, <1>3, <3>1 DEF Lands
  <2> QED BY <2>1, <2>2
<1> QED BY <1>4, <1>6 DEF KeepsEvents

\* Every row the console leaves is an event.
LEMMA EventType ==
  ASSUME NEW kind \in {"rag_search", "rag_answer"}, NEW q \in Questions \cup {Blank},
         NEW status \in {"observed", "failed", "blocked"},
         NEW rank \in {"first", "lower", "absent"}, NEW says \in BOOLEAN,
         NEW completed \in BOOLEAN, NEW traced \in BOOLEAN
  PROVE  Event(kind, q, status, rank, says, completed, traced) \in EventRow
BY DEF Event, EventRow, Stores

LEMMA EvidenceType ==
  ASSUME NEW rank \in Ranked
  PROVE  Evidence(rank) \in {"first", "lower", "absent"}
BY DEF Evidence, Ranked

LEMMA AnswerEventType ==
  ASSUME NEW a, ask[a].q \in Questions, NEW grounding \in Grounding,
         NEW generated \in {"text", "empty", "error"}, NEW says \in BOOLEAN,
         NEW traced \in BOOLEAN
  PROVE  AnswerEvent(a, grounding, generated, says, traced) \in EventRow
<1>1. HasAnswer(generated) \in BOOLEAN BY DEF HasAnswer
<1> QED BY <1>1, EventType DEF AnswerEvent, Grounding

LEMMA AskStep == AskTypes /\ [Next]_vars => AskTypes' /\ KeepsEvents
<1> SUFFICES ASSUME AskTypes, [Next]_vars PROVE AskTypes' /\ KeepsEvents
  OBVIOUS
<1>0. /\ ask \in [Askers -> {Idle} \cup Request] /\ events \in Seq(EventRow) /\ window \in Nat
      /\ \A a \in Askers : ask[a].step = "answer" => ask[a].q \in Questions /\ ask[a].rank \in Ranked
  BY DEF AskTypes, Idle, Request
<1>1. CASE UNCHANGED <<window, askVars>>
  BY <1>0, <1>1, EventsSame DEF AskTypes, askVars
<1>2. CASE BlankRequest
  <2>1. Event("rag_answer", Blank, "blocked", "absent", FALSE, FALSE, FALSE) \in EventRow
    BY EventType
  <2> QED BY <1>0, <1>2, <2>1, EmitEvents DEF BlankRequest, AskTypes
<1>3. ASSUME NEW a \in Askers, NEW q \in Questions, NEW ranked \in Ranked,
             NEW wanted \in {"hits", "answer"}, Search(a, q, ranked, wanted)
      PROVE  AskTypes' /\ KeepsEvents
  <2>1. Event("rag_search", q, "observed", Evidence(ranked), FALSE, FALSE, FALSE) \in EventRow
    BY EventType, EvidenceType
  <2>2. ask' \in [Askers -> {Idle} \cup Request]
    BY <1>0, <1>3 DEF Search, Request
  <2> QED BY <1>0, <1>3, <2>1, <2>2, EmitEvents DEF Search, AskTypes
<1>4. ASSUME NEW a \in Askers, AnswerWithoutHits(a) PROVE AskTypes' /\ KeepsEvents
  <2>1. Event("rag_answer", ask[a].q, "failed", "absent", FALSE, TRUE, FALSE) \in EventRow
    BY <1>0, <1>4, EventType DEF AnswerWithoutHits
  <2> QED BY <1>0, <1>4, <2>1, EmitEvents DEF AnswerWithoutHits, Answered, AskTypes
<1>5. ASSUME NEW a \in Askers, NEW grounding \in Grounding,
             NEW says \in BOOLEAN, Answer(a, grounding, says)
      PROVE  AskTypes' /\ KeepsEvents
  <2>1. \A generated \in {"text", "empty", "error"} : \A s, traced \in BOOLEAN :
          AnswerEvent(a, grounding, generated, s, traced) \in EventRow
    BY <1>0, <1>5, AnswerEventType DEF Answer
  <2>2. events' \in Seq(EventRow) /\ KeepsEvents
    <3>1. CASE Emit(AnswerEvent(a, grounding, "text", says, TRUE))
      BY <1>0, <2>1, <3>1, EmitEvents
    <3>2. CASE \E e \in EventRow : events' = Append(events, [e EXCEPT !.stored = "yes"])
      BY <1>0, <3>2, EventsAppend DEF Stores
    <3> QED BY <1>5, <2>1, <3>1, <3>2 DEF Answer, Untraced
  <2>3. ask' \in [Askers -> {Idle} \cup Request]
    BY <1>0, <1>5 DEF Answer, Answered
  <2> QED BY <1>0, <1>5, <2>2, <2>3 DEF Answer, AskTypes
<1>6. CASE \E i \in 1..Len(events) : Land(i)
  BY <1>0, <1>6, LandEvents DEF Land, AskTypes
<1>7. CASE DayPasses
  BY <1>0, <1>7, EventsSame DEF DayPasses, AskTypes, askVars
<1> QED BY <1>1, <1>2, <1>3, <1>4, <1>5, <1>6, <1>7
        DEF Next, vars, StartJob, Register, Score, Persist, Sample, JobStops, LandLate,
            LandRun, PageOpens, PageAnswers
-----------------------------------------------------------------------------
(* The job and the rows it leaves.                                          *)

LEMMA TaskType ==
  ASSUME NEW t \in {"sync", "score", "sample"}, NEW n \in Nat
  PROVE  /\ Task(t, 1, FirstStep(t), n) \in JobRecord
         /\ Task(t, 1, FirstStep(t), n).at \in InOrder
         /\ Task(t, 1, FirstStep(t), n).step # "persist"
<1>1. FirstStep(t) \in {"delete", "read"}
  BY DEF FirstStep, RegisterFirst, RegisterOrder
<1>2. 1 \in InOrder
  <2>1. Len(Manifest) \in Nat /\ Len(Manifest) # 0 BY ManifestAssumption
  <2> QED BY <2>1 DEF InOrder
<1> QED BY <1>1, <1>2 DEF Task, JobRecord, Steps

LEMMA NoJobType == NoJob \in JobRecord /\ NoJob.task = "idle" /\ NoJob.step = ""
BY DEF NoJob, Task, JobRecord, Steps

LEMMA JobEnds ==
  ASSUME JobTypes, job.task # "idle"
  PROVE  /\ TaskFails => JobTypes' /\ job'.row = {}
         /\ TaskEnds => JobTypes' /\ job'.row = {}
<1>0. job \in JobRecord BY DEF JobTypes, JobRecord
<1>1. job.task \in {"sync", "score", "sample"} /\ job.attempt \in Nat
      /\ job.attempt + 1 \in Nat
  BY <1>0 DEF JobRecord
<1>2. \A t \in {"sync", "score", "sample"} : \A n \in Nat :
        job' = Task(t, 1, FirstStep(t), n) => JobTypes' /\ job'.row = {}
  <2> SUFFICES ASSUME NEW t \in {"sync", "score", "sample"}, NEW n \in Nat,
                      job' = Task(t, 1, FirstStep(t), n)
               PROVE  JobTypes' /\ job'.row = {}
    OBVIOUS
  <2>1. job'.row = {} BY DEF Task
  <2>2. job'.task = t BY DEF Task
  <2> QED BY <2>1, <2>2, TaskType DEF JobTypes
<1>3. job' = NoJob => JobTypes' /\ job'.row = {}
  <2>1. NoJob.row = {} BY DEF NoJob, Task
  <2> QED BY <2>1, NoJobType DEF JobTypes
<1>4. TaskFails => JobTypes' /\ job'.row = {}
  BY <1>1, <1>2, <1>3 DEF TaskFails
<1>5. TaskEnds => JobTypes' /\ job'.row = {}
  <2>1. FirstStep("score") = "read" /\ FirstStep("sample") = "read"
    BY DEF FirstStep
  <2>2. TaskEnds => \/ job' = Task("score", 1, FirstStep("score"), 0)
                    \/ job' = Task("sample", 1, FirstStep("sample"), 0)
                    \/ job' = NoJob
    BY <2>1 DEF TaskEnds
  <2> QED BY <1>2, <1>3, <2>2
<1> QED BY <1>4, <1>5

LEMMA NextDatasetType ==
  ASSUME JobTypes, job.task # "idle", NextDataset
  PROVE  JobTypes' /\ job'.row \subseteq job.row
<1>1. CASE TaskEnds BY <1>1, JobEnds
<1>2. CASE /\ job.task # "sample" /\ job.at < Len(Manifest)
           /\ job' = [job EXCEPT !.at = @ + 1, !.step = FirstStep(job.task)]
  <2>0. /\ job \in JobRecord /\ job.task \in {"sync", "score"}
        /\ job.at \in InOrder /\ job.at \in Nat
    BY <1>2 DEF JobTypes, JobRecord
  <2>1. FirstStep(job.task) \in Steps /\ FirstStep(job.task) # "persist"
    BY DEF FirstStep, RegisterFirst, RegisterOrder, Steps
  <2>2. job.at + 1 \in InOrder
    <3>1. Len(Manifest) \in Nat BY ManifestAssumption
    <3> QED BY <1>2, <2>0, <3>1 DEF InOrder
  <2>3. job.at + 1 \in Nat BY <2>0
  <2> QED BY <1>2, <2>0, <2>1, <2>2, <2>3 DEF JobTypes, JobRecord
<1> QED BY <1>1, <1>2 DEF NextDataset

\* A run of a scorer as it is about to be persisted.
LEMMA ScorerRunType ==
  ASSUME events \in Seq(EventRow), NEW w \in STRING, NEW floors, NEW m, NEW judge
  PROVE  /\ ScorerRun(w, floors, m, judge) \in RunRow
         /\ ScorerRun(w, floors, m, judge).at <= Len(events)
<1> DEFINE bad == Reasons(w, floors, m) \/ judge = "failed"
           seen == ~bad /\ "observed" \in ResultsOf(w, floors, m, bad)
<1>1. ScorerRun(w, floors, m, judge) =
        [wf |-> w, status |-> IF bad THEN "failed" ELSE "passed", observed |-> seen,
         at |-> IF bad THEN 0 ELSE Len(events), stored |-> "no"]
  BY Zenon DEF ScorerRun
<1>2. seen \in BOOLEAN BY Zenon
<1>3. Len(events) \in Nat OBVIOUS
<1> HIDE DEF bad, seen
<1> QED BY <1>1, <1>2, <1>3 DEF RunRow, Stores

\* What Score puts into the job's hands.
LEMMA ScoreRow ==
  ASSUME AskTypes, JobTypes, Score
  PROVE  \/ JobTypes' /\ job'.row = {}
         \/ \E w \in STRING, floors \in GateChoices, judge \in {"skipped", "failed"} :
            \E m \in {NoMetrics} \cup
                     (IF w \in Retrieval THEN {RuntimeMetrics(LatestEvents(KindOf(w)))}
                                         ELSE {}) :
              job' = [job EXCEPT !.step = "persist",
                                 !.row = {ScorerRun(w, floors[w], m, judge)}]
<1>1. job.task = "score" BY DEF Score
<1>2. TaskFails => JobTypes' /\ job'.row = {} BY <1>1, JobEnds
<1>3. Manifest[job.at] \in STRING
  BY <1>1, ManifestAssumption DEF JobTypes, InOrder
<1> DEFINE w == Manifest[job.at]
           metrics == IF w \in Retrieval THEN RuntimeMetrics(LatestEvents(KindOf(w)))
                      ELSE NoMetrics
           scored(m, judge) ==
             \E manifest \in GateChoices :
               job' = [job EXCEPT !.step = "persist",
                                  !.row = {ScorerRun(w, manifest[w], m, judge)}]
<1>4. \/ scored(metrics, "skipped")
      \/ w = "hipporag2_retrieval" /\ scored(metrics, "failed")
      \/ w \in Retrieval /\ scored(NoMetrics, "skipped")
      \/ TaskFails
  BY DEF Score
<1>5. metrics \in {NoMetrics} \cup (IF w \in Retrieval THEN {RuntimeMetrics(LatestEvents(KindOf(w)))}
                                                       ELSE {})
  OBVIOUS
<1> HIDE DEF metrics
<1> QED BY <1>2, <1>3, <1>4, <1>5

\* Adding a row to the runs, or landing one.
LEMMA RunsAppend ==
  ASSUME runs \in Seq(RunRow), NEW r \in RunRow, NEW how \in Stores,
         runs' = Append(runs, [r EXCEPT !.stored = how])
  PROVE  runs' \in Seq(RunRow) /\ KeepsRuns
<1>1. [r EXCEPT !.stored = how] \in RunRow BY DEF RunRow
<1>2. runs' \in Seq(RunRow) BY <1>1
<1>3. \A i \in 1..Len(runs) : runs'[i] = runs[i] /\ runs[i] \in RunRow
  OBVIOUS
<1>4. \A x \in RunRow : x = [x EXCEPT !.stored = x.stored] BY DEF RunRow
<1>5. Len(runs) <= Len(runs') OBVIOUS
<1> QED BY <1>2, <1>3, <1>4, <1>5 DEF KeepsRuns, Lands

LEMMA RunsSame ==
  ASSUME runs \in Seq(RunRow), runs' = runs
  PROVE  runs' \in Seq(RunRow) /\ KeepsRuns
<1>1. \A i \in 1..Len(runs) : runs[i] \in RunRow OBVIOUS
<1>2. \A r \in RunRow : r = [r EXCEPT !.stored = r.stored] BY DEF RunRow
<1>3. Len(runs) <= Len(runs') OBVIOUS
<1> QED BY <1>1, <1>2, <1>3 DEF KeepsRuns, Lands

LEMMA LandRunRuns ==
  ASSUME runs \in Seq(RunRow), NEW i \in 1..Len(runs), LandRun(i)
  PROVE  runs' \in Seq(RunRow) /\ KeepsRuns /\ Len(runs') = Len(runs)
<1>1. /\ runs' = [runs EXCEPT ![i].stored = "landed"]
      /\ runs[i].stored = "late"
  BY DEF LandRun
<1>2. \A j \in 1..Len(runs) : runs[j] \in RunRow OBVIOUS
<1>3. \A r \in RunRow : /\ r = [r EXCEPT !.stored = r.stored]
                        /\ [r EXCEPT !.stored = "landed"] \in RunRow
                        /\ [r EXCEPT !.stored = "landed"].stored = "landed"
  BY DEF RunRow, Stores
<1>4. runs' \in Seq(RunRow) /\ Len(runs') = Len(runs)
  BY <1>1, <1>2, <1>3
<1>5. \A j \in 1..Len(runs) :
        runs'[j] = IF j = i THEN [runs[i] EXCEPT !.stored = "landed"] ELSE runs[j]
  BY <1>1
<1>6. ASSUME NEW j \in 1..Len(runs)
      PROVE  /\ runs'[j] = [runs[j] EXCEPT !.stored = runs'[j].stored]
             /\ Lands(runs[j].stored, runs'[j].stored)
  <2>1. CASE j = i
    <3>1. runs'[j] = [runs[j] EXCEPT !.stored = "landed"] BY <1>5, <2>1
    <3>2. runs'[j].stored = "landed" BY <1>2, <1>3, <3>1
    <3> QED BY <1>1, <2>1, <3>1, <3>2 DEF Lands
  <2>2. CASE j # i
    <3>1. runs'[j] = runs[j] BY <1>5, <2>2
    <3> QED BY <1>2, <1>3, <3>1 DEF Lands
  <2> QED BY <2>1, <2>2
<1> QED BY <1>4, <1>6 DEF KeepsRuns

\* The rows come from the job's hands, and the job's hands from Score.
PersistedRow ==
    \E r \in job.row, how \in Stores : runs' = Append(runs, [r EXCEPT !.stored = how])

LEMMA PersistStep ==
  ASSUME JobTypes, Persist
  PROVE  /\ runs' = runs \/ PersistedRow
         /\ JobTypes' /\ job'.row \subseteq job.row
<1> DEFINE r == CHOOSE x \in job.row : TRUE
           failed == job.failed \/ r.status = "failed"
<1>0. job.row # {} /\ job.step = "persist" BY DEF Persist, JobTypes
<1>1. r \in job.row BY <1>0
<1>2. failed \in BOOLEAN BY Zenon
<1>3. job.task = "score" /\ job \in JobRecord BY <1>0 DEF JobTypes
<1> HIDE DEF r, failed
<1>4. \/ /\ runs' = Append(runs, [r EXCEPT !.stored = "yes"])
         /\ IF job.at < Len(Manifest)
            THEN job' = [job EXCEPT !.at = @ + 1, !.step = "read", !.row = {},
                                    !.failed = failed]
            ELSE IF failed THEN TaskFails ELSE TaskEnds
      \/ /\ TaskFails
         /\ runs' \in {runs, Append(runs, [r EXCEPT !.stored = "late"])}
  BY DEF Persist, r, failed
<1>5. runs' = runs \/ PersistedRow
  BY <1>1, <1>4 DEF PersistedRow, Stores
<1>6. CASE TaskFails \/ TaskEnds
  BY <1>3, <1>5, <1>6, JobEnds
<1>7. CASE /\ job.at < Len(Manifest)
           /\ job' = [job EXCEPT !.at = @ + 1, !.step = "read", !.row = {},
                                  !.failed = failed]
  <2>1. job.at + 1 \in InOrder /\ job.at + 1 \in Nat
    <3>1. job.at \in InOrder BY <1>3 DEF JobTypes
    <3>2. Len(Manifest) \in Nat BY ManifestAssumption
    <3> QED BY <1>7, <3>1, <3>2 DEF InOrder
  <2>2. JobTypes' /\ job'.row = {}
    BY <1>2, <1>3, <1>7, <2>1 DEF JobTypes, JobRecord, Steps
  <2> QED BY <1>5, <2>2
<1> QED BY <1>4, <1>6, <1>7
-----------------------------------------------------------------------------
(* A run that passed on retrieval.                                          *)

Backed(r) ==
    r.wf \in Retrieval /\ r.status = "passed" =>
        \E i \in 1..r.at :
            /\ events[i].kind = KindOf(r.wf) /\ events[i].q \in Questions
            /\ Shows(r.wf, events[i])
            /\ \A j \in i + 1..r.at :
                 (/\ events[j].kind = events[i].kind /\ events[j].q = events[i].q
                  /\ events[j].stored = "yes") => Shows(r.wf, events[j])

\* A rate of nothing is no rate; every rate is a number.
LEMMA RateFacts ==
  ASSUME NEW part, NEW all, part \subseteq all, IsFiniteSet(all)
  PROVE  /\ RateOf(part, all) \in Int
         /\ part = {} => RateOf(part, all) = 0
<1>1. IsFiniteSet(part) BY FS_Subset
<1>2. Cardinality(part) \in Nat /\ Cardinality(all) \in Nat
  BY <1>1, FS_CardinalityType
<1>3. \A n, d \in Nat : Rate(n, d) \in Int
  BY DEF Rate
<1>4. \A d \in Nat : Rate(0, d) = 0
  <2>1. \A d \in Nat \ {0} : (100 * 0) \div d = 0 BY SMTT(30)
  <2> QED BY <2>1 DEF Rate
<1>5. part = {} => Cardinality(part) = 0 BY FS_EmptySet
<1> QED BY <1>2, <1>3, <1>4, <1>5 DEF RateOf

LEMMA LatestFinite ==
  ASSUME events \in Seq(EventRow), NEW kind
  PROVE  LatestEvents(kind) \subseteq 1..Len(events) /\ IsFiniteSet(LatestEvents(kind))
<1>1. LatestEvents(kind) \subseteq 1..Len(events) BY DEF LatestEvents
<1>2. IsFiniteSet(1..Len(events)) BY FS_Interval
<1> QED BY <1>1, <1>2, FS_Subset

\* The newest row of its question speaks for all that were stored in time.
LEMMA NewestSpeaks ==
  ASSUME events \in Seq(EventRow), NEW w \in Retrieval,
         NEW i \in LatestEvents(KindOf(w)), Shows(w, events[i])
  PROVE  /\ i \in 1..Len(events)
         /\ events[i].kind = KindOf(w) /\ events[i].q \in Questions
         /\ \A j \in i + 1..Len(events) :
              ~(/\ events[j].kind = events[i].kind /\ events[j].q = events[i].q
                /\ events[j].stored = "yes")
<1>1. /\ i \in 1..Len(events) /\ events[i].kind = KindOf(w) /\ events[i].q \in Questions
      /\ \A j \in 1..Len(events) :
           (/\ events[j].kind = KindOf(w) /\ events[j].q \in Questions /\ Readable(events[j])
            /\ events[j].q = events[i].q) => j <= i
  BY DEF LatestEvents
<1>2. ASSUME NEW j \in i + 1..Len(events), events[j].kind = events[i].kind,
             events[j].q = events[i].q, events[j].stored = "yes"
      PROVE  FALSE
  <2>1. j \in 1..Len(events) /\ ~(j <= i) BY <1>1
  <2>2. Readable(events[j]) BY <1>2 DEF Readable
  <2> QED BY <1>1, <1>2, <2>1, <2>2
<1> QED BY <1>1, <1>2

LEMMA ScoredBacked ==
  ASSUME events \in Seq(EventRow), NEW w \in STRING, NEW floors, NEW judge,
         w = "capability_graph" => "top_1" \in floors,
         w = "hipporag2_retrieval" => {"recall", "grounded"} \cap floors # {},
         NEW m \in {NoMetrics} \cup
                   (IF w \in Retrieval THEN {RuntimeMetrics(LatestEvents(KindOf(w)))} ELSE {})
  PROVE  Backed(ScorerRun(w, floors, m, judge))
<1> DEFINE r == ScorerRun(w, floors, m, judge)
           bad == Reasons(w, floors, m) \/ judge = "failed"
           observed == ~bad /\ "observed" \in ResultsOf(w, floors, m, bad)
           seen == LatestEvents(KindOf(w))
           first == {i \in seen : ContextFirst(events[i])}
           present == {i \in seen : ContextPresent(events[i])}
           completed == {i \in seen : AnswerCompleted(events[i])}
<1>1. r = [wf |-> w, status |-> IF bad THEN "failed" ELSE "passed", observed |-> observed,
           at |-> IF bad THEN 0 ELSE Len(events), stored |-> "no"]
  BY Zenon DEF ScorerRun
<1> HIDE DEF r, bad, observed
<1> SUFFICES ASSUME w \in Retrieval, ~bad
             PROVE  \E i \in seen : Shows(w, events[i])
  <2>1. CASE w \in Retrieval /\ ~bad
    <3>1. PICK i \in seen : Shows(w, events[i]) BY <2>1
    <3>2. r.wf = w /\ r.at = Len(events) BY <1>1, <2>1
    <3> QED BY <2>1, <3>1, <3>2, NewestSpeaks DEF Backed, r
  <2>2. CASE ~(w \in Retrieval /\ ~bad)
    <3>1. ~(r.wf \in Retrieval /\ r.status = "passed") BY <1>1, <2>2
    <3> QED BY <3>1 DEF Backed, r
  <2> QED BY <2>1, <2>2
<1>2. ~EventsMissing(w, m) /\ ~BelowFloor(floors, m)
  BY DEF bad, Reasons
<1>3. m = RuntimeMetrics(seen)
  BY <1>2 DEF EventsMissing, NoMetrics
<1> HIDE DEF seen
<1>4. IsFiniteSet(seen) BY LatestFinite DEF seen
<1>5. m = [scored |-> Cardinality(seen), top_1 |-> RateOf(first, seen),
           recall |-> RateOf(present, seen),
           grounded |-> MinOf(RateOf(present, seen), RateOf(completed, seen))]
  BY <1>3, Zenon DEF RuntimeMetrics
<1>6. first \subseteq seen /\ present \subseteq seen /\ completed \subseteq seen
  OBVIOUS
<1> HIDE DEF first, present, completed
<1>7. /\ RateOf(first, seen) \in Int /\ RateOf(present, seen) \in Int
      /\ RateOf(completed, seen) \in Int
      /\ first = {} => RateOf(first, seen) = 0
      /\ present = {} => RateOf(present, seen) = 0
  BY <1>4, <1>6, RateFacts
<1>8. CASE w = "capability_graph"
  <2>1. ~(RateOf(first, seen) < 80)
    BY <1>2, <1>5, <1>8 DEF BelowFloor, Floor
  <2>2. PICK i \in first : TRUE BY <1>7, <2>1
  <2> QED BY <1>8, <2>2 DEF first, Shows
<1>9. CASE w = "hipporag2_retrieval"
  <2>1. \/ ~(RateOf(present, seen) < 85)
        \/ ~(MinOf(RateOf(present, seen), RateOf(completed, seen)) < 90)
    BY <1>2, <1>5, <1>9 DEF BelowFloor, Floor
  <2>2. present # {} BY <1>7, <2>1 DEF MinOf
  <2>3. PICK i \in present : TRUE BY <2>2
  <2> QED BY <1>9, <2>3 DEF present, Shows
<1> QED BY <1>8, <1>9 DEF Retrieval

\* What later rows and landings do to a run that was backed: nothing.
LEMMA BackedStays ==
  ASSUME events \in Seq(EventRow), KeepsEvents, NEW r, r.at \in Nat,
         r.at <= Len(events), Backed(r)
  PROVE  Backed(r)'
<1> SUFFICES ASSUME r.wf \in Retrieval, r.status = "passed"
             PROVE  \E i \in 1..r.at :
                      /\ events'[i].kind = KindOf(r.wf) /\ events'[i].q \in Questions
                      /\ Shows(r.wf, events'[i])
                      /\ \A j \in i + 1..r.at :
                           (/\ events'[j].kind = events'[i].kind /\ events'[j].q = events'[i].q
                            /\ events'[j].stored = "yes") => Shows(r.wf, events'[j])
  BY DEF Backed
<1>1. ASSUME NEW i \in 1..r.at
      PROVE  /\ events'[i].kind = events[i].kind /\ events'[i].q = events[i].q
             /\ Shows(r.wf, events'[i]) = Shows(r.wf, events[i])
             /\ events'[i].stored = "yes" => events[i].stored = "yes"
  <2>1. i \in 1..Len(events) OBVIOUS
  <2>2. events[i] \in EventRow BY <2>1
  <2>3. /\ events'[i] = [events[i] EXCEPT !.stored = events'[i].stored]
        /\ Lands(events[i].stored, events'[i].stored)
    BY <2>1 DEF KeepsEvents
  <2>4. /\ events'[i].kind = events[i].kind /\ events'[i].q = events[i].q
        /\ events'[i].rank = events[i].rank /\ events'[i].says = events[i].says
    BY <2>2, <2>3 DEF EventRow
  <2> QED BY <2>3, <2>4 DEF Shows, ContextFirst, ContextPresent, Lands
<1>2. PICK i \in 1..r.at :
        /\ events[i].kind = KindOf(r.wf) /\ events[i].q \in Questions
        /\ Shows(r.wf, events[i])
        /\ \A j \in i + 1..r.at :
             (/\ events[j].kind = events[i].kind /\ events[j].q = events[i].q
              /\ events[j].stored = "yes") => Shows(r.wf, events[j])
  BY DEF Backed
<1>3. \A j \in i + 1..r.at : j \in 1..r.at OBVIOUS
<1> QED BY <1>1, <1>2, <1>3

-----------------------------------------------------------------------------
(* The rows of the job, step by step.                                       *)

RowsBacked ==
    /\ \A k \in 1..Len(runs) : Backed(runs[k]) /\ runs[k].at <= Len(events)
    /\ \A r \in job.row : Backed(r) /\ r.at <= Len(events)

\* A row handed to the job is either one it had or one just scored.
LEMMA JobMoves ==
  ASSUME TypeInv, [Next]_vars
  PROVE  /\ JobTypes'
         /\ \/ job'.row \subseteq job.row
            \/ /\ UNCHANGED <<events, runs>>
               /\ \A r \in job'.row : Backed(r) /\ r.at <= Len(events)
<1>0. AskTypes /\ JobTypes /\ job \in JobRecord /\ events \in Seq(EventRow)
  BY DEF TypeInv, JobTypes, AskTypes
<1>1. CASE job' = job BY <1>0, <1>1 DEF JobTypes
<1>2. CASE StartJob
  <2>1. job' = Task("sync", 1, FirstStep("sync"), 0)
    BY <1>2 DEF StartJob, FirstStep
  <2>2. job'.row = {} /\ job'.task = "sync" BY <2>1 DEF Task
  <2> QED BY <2>1, <2>2, TaskType DEF JobTypes
<1>3. CASE Register
  <2>1. job.task # "idle" BY <1>0, <1>3 DEF Register, JobTypes
  <2>2. CASE NextDataset \/ TaskFails BY <1>0, <2>1, <2>2, NextDatasetType, JobEnds
  <2>3. CASE job' = [job EXCEPT !.step = RegisterThen]
    <3>1. RegisterThen \in Steps /\ RegisterThen # "persist"
      BY DEF RegisterThen, RegisterOrder, Steps
    <3> QED BY <1>0, <2>1, <2>3, <3>1 DEF JobTypes, JobRecord
  <2> QED BY <1>3, <2>2, <2>3 DEF Register
<1>4. CASE Score
  <2>0. UNCHANGED <<events, runs>> /\ job.task = "score" BY <1>4 DEF Score, askVars
  <2>1. CASE JobTypes' /\ job'.row = {} BY <2>1
  <2>2. CASE \E w \in STRING, floors \in GateChoices, judge \in {"skipped", "failed"} :
               \E m \in {NoMetrics} \cup
                        (IF w \in Retrieval THEN {RuntimeMetrics(LatestEvents(KindOf(w)))}
                                            ELSE {}) :
                 job' = [job EXCEPT !.step = "persist",
                                    !.row = {ScorerRun(w, floors[w], m, judge)}]
    <3>1. PICK w \in STRING, floors \in GateChoices, judge \in {"skipped", "failed"} :
            \E m \in {NoMetrics} \cup
                     (IF w \in Retrieval THEN {RuntimeMetrics(LatestEvents(KindOf(w)))}
                                         ELSE {}) :
              job' = [job EXCEPT !.step = "persist",
                                 !.row = {ScorerRun(w, floors[w], m, judge)}]
      BY <2>2
    <3>2. PICK m \in {NoMetrics} \cup
                     (IF w \in Retrieval THEN {RuntimeMetrics(LatestEvents(KindOf(w)))}
                                         ELSE {}) :
              job' = [job EXCEPT !.step = "persist",
                                 !.row = {ScorerRun(w, floors[w], m, judge)}]
      BY <3>1
    <3> DEFINE r == ScorerRun(w, floors[w], m, judge)
    <3>3. r \in RunRow /\ r.at <= Len(events) BY <1>0, ScorerRunType
    <3>4. Backed(r)
      BY <1>0, ScoredBacked, ManifestAssumption
    <3> HIDE DEF r
    <3>5. job' = [job EXCEPT !.step = "persist", !.row = {r}] BY <3>2 DEF r
    <3>6. job'.row = {r} /\ job'.step = "persist" /\ job'.task = "score"
      BY <1>0, <2>0, <3>5 DEF JobRecord
    <3>7. JobTypes'
      BY <1>0, <2>0, <3>3, <3>5, <3>6 DEF JobTypes, JobRecord, Steps
    <3> QED BY <2>0, <3>3, <3>4, <3>6, <3>7
  <2> QED BY <1>0, <1>4, <2>1, <2>2, ScoreRow
<1>5. CASE Persist BY <1>0, <1>5, PersistStep
<1>6. CASE Sample
  <2>1. job.task = "sample" BY <1>6 DEF Sample
  <2>2. CASE TaskEnds \/ TaskFails BY <1>0, <2>1, <2>2, JobEnds
  <2>3. CASE job' = [job EXCEPT !.step = RegisterFirst]
    <3>1. RegisterFirst \in Steps /\ RegisterFirst # "persist"
      BY DEF RegisterFirst, RegisterOrder, Steps
    <3> QED BY <1>0, <2>1, <2>3, <3>1 DEF JobTypes, JobRecord
  <2> QED BY <1>6, <2>2, <2>3 DEF Sample
<1>7. CASE JobStops
  <2>1. job' = NoJob BY <1>7 DEF JobStops
  <2>2. NoJob.row = {} BY DEF NoJob, Task
  <2> QED BY <2>1, <2>2, NoJobType DEF JobTypes
<1> QED BY <1>1, <1>2, <1>3, <1>4, <1>5, <1>6, <1>7
        DEF Next, vars, jobVars, BlankRequest, Search, AnswerWithoutHits, Answer, Land,
            LandLate, LandRun, PageOpens, PageAnswers, DayPasses

LEMMA RunsMoves ==
  ASSUME TypeInv, [Next]_vars
  PROVE  /\ runs' \in Seq(RunRow) /\ KeepsRuns
         /\ \/ Len(runs') = Len(runs)
            \/ PersistedRow
<1>0. runs \in Seq(RunRow) /\ JobTypes /\ job.row \subseteq RunRow
  BY DEF TypeInv, JobTypes, JobRecord
<1>1. CASE runs' = runs BY <1>0, <1>1, RunsSame
<1>2. CASE Persist
  <2>1. CASE PersistedRow
    <3>1. runs' \in Seq(RunRow) /\ KeepsRuns BY <1>0, <2>1, RunsAppend DEF PersistedRow
    <3> QED BY <2>1, <3>1
  <2> QED BY <1>0, <1>1, <1>2, <2>1, PersistStep
<1>3. CASE \E k \in 1..Len(runs) : LandRun(k)
  BY <1>0, <1>3, LandRunRuns
<1> QED BY <1>1, <1>2, <1>3
        DEF Next, vars, jobVars, BlankRequest, Search, AnswerWithoutHits, Answer, Land,
            StartJob, Register, Score, Sample, JobStops, LandLate, PageOpens,
            PageAnswers, DayPasses

LEMMA TypeStep == TypeInv /\ [Next]_vars => TypeInv'
BY AskStep, JobMoves, RunsMoves DEF TypeInv

LEMMA BackedStep == TypeInv /\ RowsBacked /\ [Next]_vars => RowsBacked'
<1> SUFFICES ASSUME TypeInv, RowsBacked, [Next]_vars PROVE RowsBacked'
  OBVIOUS
<1>0. /\ events \in Seq(EventRow) /\ runs \in Seq(RunRow) /\ job.row \subseteq RunRow
      /\ KeepsEvents /\ KeepsRuns /\ Len(events) <= Len(events')
      /\ events' \in Seq(EventRow) /\ runs' \in Seq(RunRow)
      /\ \A r \in RunRow : r.at \in Nat
  BY AskStep, RunsMoves DEF TypeInv, AskTypes, JobTypes, JobRecord, KeepsEvents, RunRow
<1>1. ASSUME NEW r \in RunRow, Backed(r), r.at <= Len(events)
      PROVE  Backed(r)' /\ r.at <= Len(events')
  BY <1>0, <1>1, BackedStays
<1>2. ASSUME NEW r \in job'.row PROVE Backed(r)' /\ r.at <= Len(events')
  <2>1. job'.row \subseteq RunRow BY JobMoves DEF JobTypes, JobRecord
  <2>2. Backed(r) /\ r.at <= Len(events) BY <1>2, JobMoves DEF RowsBacked
  <2> QED BY <1>1, <1>2, <2>1, <2>2
<1>3. ASSUME NEW k \in 1..Len(runs')
      PROVE  Backed(runs[k])' /\ runs'[k].at <= Len(events')
  <2>1. CASE k \in 1..Len(runs)
    <3>1. runs[k] \in RunRow /\ Backed(runs[k]) /\ runs[k].at <= Len(events)
      BY <1>0, <2>1 DEF RowsBacked
    <3>2. runs'[k] = [runs[k] EXCEPT !.stored = runs'[k].stored]
      BY <2>1, <1>0 DEF KeepsRuns
    <3>3. /\ runs'[k].wf = runs[k].wf /\ runs'[k].status = runs[k].status
          /\ runs'[k].at = runs[k].at
      BY <3>1, <3>2 DEF RunRow
    <3>4. runs'[k] \in RunRow BY <1>0
    <3>5. Backed(runs'[k]) /\ runs'[k].at <= Len(events) BY <3>1, <3>3 DEF Backed
    <3> QED BY <1>1, <3>4, <3>5
  <2>2. CASE k \notin 1..Len(runs)
    <3>1. PICK r \in job.row, how \in Stores : runs' = Append(runs, [r EXCEPT !.stored = how])
      BY <1>0, <1>3, <2>2, RunsMoves DEF PersistedRow
    <3>2. runs'[k] = [r EXCEPT !.stored = how] BY <1>0, <1>3, <2>2, <3>1
    <3>3. /\ runs'[k].wf = r.wf /\ runs'[k].status = r.status /\ runs'[k].at = r.at
      BY <1>0, <3>2 DEF RunRow
    <3>4. runs'[k] \in RunRow BY <1>0, <1>3
    <3>5. Backed(runs'[k]) /\ runs'[k].at <= Len(events)
      BY <3>3 DEF Backed, RowsBacked
    <3> QED BY <1>1, <3>4, <3>5
  <2> QED BY <2>1, <2>2
<1> QED BY <1>2, <1>3 DEF RowsBacked
-----------------------------------------------------------------------------
(* The page.                                                                *)

\* What the page remembers is there, and a green page is earned by it.
PageRecord == [step : {"none", "live", "answered"}, shown : SUBSET Nat, overall : {"", "passed"},
               from : Nat, upto : Nat]
PageSound ==
    /\ page \in PageRecord
    /\ page.shown \subseteq 1..Len(runs) /\ page.upto <= Len(events)
    /\ GreenIsEarned

Day(from, upto) == {i \in from + 1..upto : events[i].kind = "rag_answer"}
Kept(from, upto) == {i \in Day(from, upto) : Readable(events[i])}

\* A green page, in terms of the runs and the answers it was put together of.
GreenRuns(shown) ==
    \A i \in InOrder : \E k \in shown :
        runs[k].wf = Manifest[i] /\ runs[k].status = "passed" /\ ~runs[k].observed
GreenDay(from, upto) ==
    /\ Cardinality(Kept(from, upto)) >= MinLive
    /\ \E i \in Kept(from, upto) : events[i].traced
    /\ \A i \in Day(from, upto) : events[i].stored = "yes" => events[i].status = "observed"

LEMMA GreenParts ==
  GreenIsEarned <=> (page.step = "answered" /\ page.overall = "passed" =>
                       GreenRuns(page.shown) /\ GreenDay(page.from, page.upto))
BY DEF GreenIsEarned, GreenRuns, GreenDay, Kept, Day

LEMMA GreenPartsNext ==
  GreenIsEarned' <=> (page'.step = "answered" /\ page'.overall = "passed" =>
                        GreenRuns(page.shown)' /\ GreenDay(page.from, page.upto)')
BY DEF GreenIsEarned, GreenRuns, GreenDay, Kept, Day

\* Rows that were read stay read: more of the day's answers may land, none goes.
LEMMA GreenDayStays ==
  ASSUME events \in Seq(EventRow), events' \in Seq(EventRow), KeepsEvents,
         NEW from \in Nat, NEW upto \in Nat, upto <= Len(events), GreenDay(from, upto)
  PROVE  GreenDay(from, upto)'
<1>1. ASSUME NEW i \in from + 1..upto
      PROVE  /\ events'[i].kind = events[i].kind /\ events'[i].traced = events[i].traced
             /\ events'[i].status = events[i].status
             /\ Readable(events[i]) => Readable(events'[i])
             /\ events'[i].stored = "yes" => events[i].stored = "yes"
  <2>1. i \in 1..Len(events) OBVIOUS
  <2>2. events[i] \in EventRow BY <2>1
  <2>3. /\ events'[i] = [events[i] EXCEPT !.stored = events'[i].stored]
        /\ Lands(events[i].stored, events'[i].stored)
    BY <2>1 DEF KeepsEvents
  <2>4. /\ events'[i].kind = events[i].kind /\ events'[i].traced = events[i].traced
        /\ events'[i].status = events[i].status
    BY <2>2, <2>3 DEF EventRow
  <2> QED BY <2>3, <2>4 DEF Lands, Readable
<1>2. Day(from, upto)' = Day(from, upto) BY <1>1 DEF Day
<1>3. Kept(from, upto) \subseteq Kept(from, upto)' BY <1>1 DEF Kept, Day
<1>4. IsFiniteSet(Kept(from, upto)')
  <2>1. IsFiniteSet(from + 1..upto) BY FS_Interval
  <2>2. Kept(from, upto)' \subseteq from + 1..upto BY DEF Kept, Day
  <2> QED BY <2>1, <2>2, FS_Subset
<1>5. /\ IsFiniteSet(Kept(from, upto))
      /\ Cardinality(Kept(from, upto)) <= Cardinality(Kept(from, upto)')
  BY <1>3, <1>4, FS_Subset
<1>6. /\ Cardinality(Kept(from, upto)) \in Nat /\ Cardinality(Kept(from, upto)') \in Nat
      /\ MinLive \in Nat
  BY <1>4, <1>5, FS_CardinalityType, EvaluationAssumption
<1>7. Cardinality(Kept(from, upto)') >= MinLive BY <1>5, <1>6 DEF GreenDay
<1>8. PICK i \in Kept(from, upto) : events[i].traced BY DEF GreenDay
<1>9. i \in Kept(from, upto)' /\ events'[i].traced
  BY <1>1, <1>3, <1>8 DEF Kept, Day
<1>10. \A j \in Day(from, upto)' : events'[j].stored = "yes" => events'[j].status = "observed"
  BY <1>1, <1>2 DEF GreenDay, Day
<1> QED BY <1>7, <1>9, <1>10 DEF GreenDay

LEMMA GreenRunsStay ==
  ASSUME runs \in Seq(RunRow), KeepsRuns, NEW shown \in SUBSET (1..Len(runs)),
         GreenRuns(shown)
  PROVE  GreenRuns(shown)'
<1>1. ASSUME NEW k \in shown
      PROVE  /\ runs'[k].wf = runs[k].wf /\ runs'[k].status = runs[k].status
             /\ runs'[k].observed = runs[k].observed
  <2>1. k \in 1..Len(runs) OBVIOUS
  <2>2. runs[k] \in RunRow BY <2>1
  <2>3. runs'[k] = [runs[k] EXCEPT !.stored = runs'[k].stored] BY <2>1 DEF KeepsRuns
  <2> QED BY <2>2, <2>3 DEF RunRow
<1> QED BY <1>1 DEF GreenRuns

\* Nothing but green workflows and a green day makes the page green.
LEMMA CategoryPassed ==
  ASSUME runs \in Seq(RunRow), NEW w, NEW shown \in SUBSET (1..Len(runs)),
         ScorerCategory(w, shown) = "passed"
  PROVE  \E k \in shown : runs[k].wf = w /\ runs[k].status = "passed" /\ ~runs[k].observed
<1> DEFINE of == {k \in shown : runs[k].wf = w}
           k == CHOOSE x \in of : TRUE
<1>1. of # {} BY DEF ScorerCategory
<1>2. k \in of BY <1>1
<1>3. ScorerCategory(w, shown) =
        IF runs[k].status = "passed" /\ runs[k].observed THEN "warning" ELSE runs[k].status
  BY <1>1, Zenon DEF ScorerCategory
<1> HIDE DEF of, k
<1>4. runs[k].status = "passed" /\ ~runs[k].observed BY <1>3
<1> QED BY <1>2, <1>4 DEF of

LEMMA LivePassed ==
  ASSUME events \in Seq(EventRow), window \in Nat, LiveCategory(InWindow) = "passed"
  PROVE  GreenDay(window, Len(events))
<1> DEFINE rows == InWindow
           traced == {i \in rows : events[i].traced}
           failures == {i \in rows : events[i].status \in {"failed", "blocked"}}
<1>1. rows = Kept(window, Len(events))
  BY DEF InWindow, Kept, Day
<1>2. IsFiniteSet(rows) /\ rows \subseteq 1..Len(events)
  <2>1. rows \subseteq 1..Len(events)
    <3>1. Len(events) \in Nat OBVIOUS
    <3>2. rows \subseteq window + 1..Len(events) BY DEF InWindow
    <3> QED BY <3>1, <3>2
  <2>2. IsFiniteSet(1..Len(events)) BY FS_Interval
  <2> QED BY <2>1, <2>2, FS_Subset
<1>3. Cardinality(rows) \in Nat /\ MinLive \in Nat
  BY <1>2, FS_CardinalityType, EvaluationAssumption
<1> HIDE DEF rows
<1>4. LiveCategory(rows) = "passed" BY DEF rows
<1>5. /\ failures = {} /\ Cardinality(rows) >= MinLive
      /\ ~(RateOf(traced, rows) < 80)
  <2>1. LiveCategory(rows) =
          CASE rows = {} -> "not_scored"
            [] failures # {} -> "failed"
            [] failures = {} /\ rows # {} /\ Cardinality(rows) < MinLive -> "warning"
            [] OTHER -> IF RateOf(traced, rows) < 80 THEN "warning" ELSE "passed"
    BY Zenon DEF LiveCategory
  <2> HIDE DEF traced, failures
  <2> QED BY <1>3, <1>4, <2>1
<1>6. traced # {}
  <2>1. traced \subseteq rows OBVIOUS
  <2> HIDE DEF traced
  <2> QED BY <1>2, <1>5, <2>1, RateFacts
<1>7. ASSUME NEW i \in Day(window, Len(events)), events[i].stored = "yes"
      PROVE  events[i].status = "observed"
  <2>1. i \in rows BY <1>1, <1>7 DEF Kept, Readable
  <2>2. events[i] \in EventRow BY <1>2, <2>1
  <2> QED BY <1>5, <2>1, <2>2 DEF EventRow
<1> QED BY <1>1, <1>5, <1>6, <1>7 DEF GreenDay

LEMMA NoPageType ==
  /\ NoPage \in PageRecord /\ NoPage.shown = {} /\ NoPage.upto = 0
  /\ NoPage.step = "none" /\ NoPage.overall = ""
BY DEF NoPage, PageRecord

LEMMA PageStep == TypeInv /\ PageSound /\ [Next]_vars => PageSound'
<1> SUFFICES ASSUME TypeInv, PageSound, [Next]_vars PROVE PageSound'
  OBVIOUS
<1>0. /\ events \in Seq(EventRow) /\ runs \in Seq(RunRow) /\ window \in Nat
      /\ KeepsEvents /\ KeepsRuns /\ Len(events) <= Len(events')
      /\ Len(runs) <= Len(runs')
      /\ events' \in Seq(EventRow) /\ runs' \in Seq(RunRow)
      /\ Len(events) \in Nat /\ Len(runs) \in Nat
      /\ Len(events') \in Nat /\ Len(runs') \in Nat
  BY AskStep, RunsMoves DEF TypeInv, AskTypes, KeepsEvents, KeepsRuns
<1>1. CASE page' = page
  <2>1. page.shown \subseteq 1..Len(runs') /\ page.upto <= Len(events')
    <3>1. page.shown \subseteq 1..Len(runs) /\ page.upto <= Len(events) /\ page.upto \in Nat
      BY DEF PageSound, PageRecord
    <3> QED BY <1>0, <3>1
  <2>2. GreenIsEarned'
    BY <1>0, <1>1, GreenParts, GreenPartsNext, GreenDayStays, GreenRunsStay
       DEF PageSound, PageRecord
  <2> QED BY <1>1, <2>1, <2>2 DEF PageSound
<1>2. CASE PageOpens
  <2> DEFINE opened(shown) ==
               [step |-> "live", shown |-> shown, overall |-> "", from |-> 0, upto |-> 0]
  <2>1. LatestRuns \subseteq 1..Len(runs) BY DEF LatestRuns
  <2>2. (page' = opened(LatestRuns) \/ page' = opened({})) /\ UNCHANGED <<events, runs>>
    <3> HIDE DEF LatestRuns
    <3> QED BY <1>2 DEF PageOpens, NoPage, askVars, jobVars
  <2>3. \A shown \in SUBSET (1..Len(runs)) :
          /\ opened(shown) \in PageRecord /\ opened(shown).step = "live"
          /\ opened(shown).upto = 0 /\ opened(shown).shown = shown
    <3>1. 1..Len(runs) \subseteq Nat BY <1>0
    <3> QED BY <3>1 DEF PageRecord
  <2>4. /\ page' \in PageRecord /\ page'.step = "live" /\ page'.upto = 0
        /\ page'.shown \subseteq 1..Len(runs)
    <3> HIDE DEF opened
    <3>1. CASE page' = opened(LatestRuns) BY <2>1, <2>3, <3>1
    <3>2. CASE page' = opened({}) BY <2>3, <3>2
    <3> QED BY <2>2, <3>1, <3>2
  <2>5. page'.upto <= Len(events') BY <1>0, <2>4
  <2>6. page'.shown \subseteq 1..Len(runs') BY <2>2, <2>4
  <2>7. GreenIsEarned' BY <2>4, GreenPartsNext
  <2> QED BY <2>4, <2>5, <2>6, <2>7 DEF PageSound
<1>3. CASE PageAnswers
  <2>0. UNCHANGED <<events, runs, window>> BY <1>3 DEF PageAnswers, askVars, jobVars
  <2> DEFINE overall(rows) ==
               OverallStatus({ScorerCategory(Manifest[i], page.shown) : i \in InOrder}
                               \cup {LiveCategory(rows)})
  <2>1. PICK rows \in {InWindow, {}} :
          page' = IF overall(rows) # "passed"
                  THEN [NoPage EXCEPT !.step = "answered"]
                  ELSE [page EXCEPT !.step = "answered", !.overall = overall(rows),
                                    !.from = window, !.upto = Len(events)]
    BY <1>3 DEF PageAnswers
  <2>2. CASE overall(rows) # "passed"
    <3>1. page' = [NoPage EXCEPT !.step = "answered"] BY <2>1, <2>2
    <3>2. /\ page' \in PageRecord /\ page'.overall = "" /\ page'.shown = {} /\ page'.upto = 0
      BY <3>1 DEF NoPage, PageRecord
    <3>3. GreenIsEarned' BY <3>2, GreenPartsNext
    <3>4. page'.shown \subseteq 1..Len(runs') BY <3>2
    <3>5. page'.upto <= Len(events')
      <4>1. Len(events') >= 0 BY <1>0
      <4>2. page'.upto = 0 BY <3>2
      <4> QED BY <4>1, <4>2
    <3> QED BY <3>2, <3>3, <3>4, <3>5 DEF PageSound
  <2>3. CASE overall(rows) = "passed"
    <3>1. \A c \in {ScorerCategory(Manifest[i], page.shown) : i \in InOrder}
                     \cup {LiveCategory(rows)} : c = "passed"
      BY <2>3 DEF OverallStatus
    <3>2. GreenRuns(page.shown)
      <4>1. page.shown \in SUBSET (1..Len(runs)) BY DEF PageSound
      <4>2. \A i \in InOrder : ScorerCategory(Manifest[i], page.shown) = "passed" BY <3>1
      <4> QED BY <1>0, <4>1, <4>2, CategoryPassed DEF GreenRuns
    <3>3. rows = InWindow
      BY <2>1, <3>1 DEF LiveCategory
    <3>4. GreenDay(window, Len(events)) BY <1>0, <3>1, <3>3, LivePassed
    <3>5. /\ page'.shown = page.shown /\ page'.from = window /\ page'.upto = Len(events)
          /\ page' \in PageRecord
      BY <1>0, <2>1, <2>3 DEF PageSound, PageRecord
    <3>6. GreenRuns(page.shown)' BY <2>0, <3>2, <3>5 DEF GreenRuns
    <3>7. GreenDay(page.from, page.upto)' BY <2>0, <3>4, <3>5 DEF GreenDay, Kept, Day
    <3>8. GreenIsEarned' BY <3>6, <3>7, GreenPartsNext
    <3>9. page'.shown \subseteq 1..Len(runs') /\ page'.upto <= Len(events')
      BY <1>0, <2>0, <3>5 DEF PageSound
    <3> QED BY <3>5, <3>8, <3>9 DEF PageSound
  <2> QED BY <2>2, <2>3
<1> QED BY <1>1, <1>2, <1>3
        DEF Next, vars, pageVars, BlankRequest, Search, AnswerWithoutHits, Answer, Land,
            StartJob, Register, Score, Persist, Sample, JobStops, LandLate, LandRun,
            DayPasses

-----------------------------------------------------------------------------
(* The theorems.                                                            *)

EInv == TypeInv /\ RowsBacked /\ PageSound

LEMMA Invariance == Spec => []EInv
<1>1. Init => EInv
  <2> SUFFICES ASSUME Init PROVE EInv OBVIOUS
  <2>1. /\ events = <<>> /\ runs = <<>> /\ job = NoJob /\ page = NoPage
        /\ ask = [a \in Askers |-> Idle] /\ window = 0
    BY DEF Init
  <2>2. Len(events) = 0 /\ Len(runs) = 0 BY <2>1
  <2>3. NoJob.row = {} BY DEF NoJob, Task
  <2>4. TypeInv
    <3>1. AskTypes BY <2>1 DEF AskTypes
    <3>2. JobTypes BY <2>1, NoJobType DEF JobTypes
    <3> QED BY <2>1, <3>1, <3>2 DEF TypeInv
  <2>5. RowsBacked BY <2>1, <2>2, <2>3 DEF RowsBacked
  <2>6. PageSound
    <3>1. GreenIsEarned BY <2>1, NoPageType, GreenParts
    <3>2. page.shown \subseteq 1..Len(runs) BY <2>1, NoPageType
    <3>3. page.upto <= Len(events)
      <4>1. page.upto = 0 BY <2>1, NoPageType
      <4> QED BY <2>2, <4>1
    <3>4. page \in PageRecord BY <2>1, NoPageType
    <3> QED BY <3>1, <3>2, <3>3, <3>4 DEF PageSound
  <2> QED BY <2>4, <2>5, <2>6 DEF EInv
<1>2. EInv /\ [Next]_vars => EInv'
  BY TypeStep, BackedStep, PageStep DEF EInv
<1> QED BY <1>1, <1>2, PTL DEF Spec

\* Whatever was lost, late or retried on the way: a run that passed on retrieval
\* rests on a curated question whose context was found, and on the newest answer
\* to it that had been stored in time.
THEOREM PassesBacked == Spec => []PassIsBacked
<1>1. EInv => PassIsBacked
  BY DEF EInv, RowsBacked, Backed, PassIsBacked
<1> QED BY <1>1, Invariance, PTL

\* A green page shows a passed run of every workflow, none of whose floors was left
\* out, over a day of enough answers, traced and none of them known to have failed.
THEOREM GreensEarned == Spec => []GreenIsEarned
<1>1. EInv => GreenIsEarned
  BY DEF EInv, PageSound
<1> QED BY <1>1, Invariance, PTL
=============================================================================

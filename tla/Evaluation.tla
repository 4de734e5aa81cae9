---- MODULE Evaluation ----
(* How the quality of retrieval is measured.  Searching and asking leave      *)
(* evaluation events (capability_rag_service.py, evaluation_events.py); the   *)
(* daily job bv_evaluation_scorers (databricks.yml; scripts/) syncs the       *)
(* curated datasets, scores them against the newest events and samples live   *)
(* traces; the Evaluation page (evaluation_service.py) reads datasets, newest *)
(* scorer runs and live quality with a query each and sums them up.           *)
(*                                                                            *)
(* Statements go to a SQL warehouse and are given up on after 50 s: the one   *)
(* given up on may still land ("late"), whatever its author did next.         *)
EXTENDS Integers, FiniteSets, Sequences

CONSTANTS
    Questions,      \* curated questions with an expected context
    Blank,          \* a question of white space
    Askers,         \* requests of the console in flight at a time
    Manifest,       \* workflows of config/evaluation/evalsets.json, in order
    GateChoices,    \* floors the manifest deployed with the job may declare
    MinLive,        \* minimum_live_events (10 in the code)
    JobRetries,     \* max_retries of each task (1 as deployed)
    Judged,         \* --mlflow-genai-evaluate, an opt-in
    MaxEvents, MaxJobs, MaxPages, MaxFaults   \* bounds of the model

ASSUME EvaluationAssumption ==
    /\ Blank \notin Questions
    /\ MinLive \in Nat \ {0} /\ JobRetries \in Nat

\* evalsets.json, as shipped, holds some workflow and sets a floor for the first hit
\* of the one retrieval and for the recall or the grounding of the other.
ASSUME ManifestAssumption ==
    /\ Manifest \in Seq(STRING) /\ Manifest # <<>>
    /\ \A floors \in GateChoices :
         /\ "top_1" \in floors["capability_graph"]
         /\ {"recall", "grounded"} \cap floors["hipporag2_retrieval"] # {}

VARIABLES
    ask,       \* asker -> the request it serves
    events,    \* rag_search and rag_answer rows, in the order of created_at_ms
    window,    \* events up to this one are older than 24 hours
    job,       \* the run of bv_evaluation_scorers in flight
    runs,      \* scorer_run rows, in the order of created_at_ms
    registry,  \* datasets with a row in evaluation_datasets
    late,      \* registry statements given up on that may still land
    synced,    \* datasets the last sync that succeeded registered
    page,      \* the Evaluation page being put together, then answered
    jobs, pages, faults                       \* counters of the bounds

askVars == <<ask, events>>
jobVars == <<job, runs, registry, late, synced, jobs>>
pageVars == <<page, pages>>
vars == <<window, askVars, jobVars, pageVars, faults>>

Retrieval == {"capability_graph", "hipporag2_retrieval"}
Live == "live"     \* the dataset the sampler makes of the day's traces
Idle == [step |-> "idle"]
Fault == faults < MaxFaults /\ faults' = faults + 1
InOrder == 1..Len(Manifest)

(* -------------------------------- asking -------------------------------- *)

\* The index is the world's: a promotion, an edit of the corpus or an empty
\* index changes what a question finds between any two searches, and only the
\* first `limit` hits count: a narrow request loses one that is ranked low.
Ranked == {"first", "lower", "absent", "none"}

Event(kind, q, status, rank, says, completed, traced) ==
    [kind |-> kind, q |-> q, status |-> status, rank |-> rank, says |-> says,
     completed |-> completed, traced |-> traced, stored |-> "no"]

\* What the row shows of the hits.
Evidence(rank) == IF rank = "none" THEN "absent" ELSE rank

\* emit_evaluation_event fails open: the row is stored, lost, or its INSERT is
\* given up on and lands later, and the caller goes on in any case.
Emit(e) ==
    /\ Len(events) < MaxEvents
    /\ \/ /\ events' = Append(events, [e EXCEPT !.stored = "yes"])
          /\ UNCHANGED faults
       \/ /\ Fault
          /\ events' \in {events, Append(events, [e EXCEPT !.stored = "late"])}

Land(i) ==
    /\ events[i].stored = "late"
    /\ events' = [events EXCEPT ![i].stored = "landed"]
    /\ UNCHANGED <<window, ask, jobVars, pageVars, faults>>

\* search_capability_graph, by itself or as the first step of an answer.  A
\* blank question leaves one "blocked" row (that of a blank search is counted
\* nowhere); a failure of the embedding or of the index is raised to the user
\* and leaves none.
BlankRequest ==
    /\ Emit(Event("rag_answer", Blank, "blocked", "absent", FALSE, FALSE, FALSE))
    /\ UNCHANGED <<window, ask, jobVars, pageVars>>

Search(a, q, ranked, wanted) ==
    /\ ask[a].step = "idle"
    /\ Emit(Event("rag_search", q, "observed", Evidence(ranked),
                  FALSE, FALSE, FALSE))
    /\ ask' = IF wanted = "hits" THEN ask
              ELSE [ask EXCEPT ![a] =
                      [step |-> "answer", q |-> q, rank |-> ranked]]
    /\ UNCHANGED <<window, jobVars, pageVars>>

Answered(a) == ask' = [ask EXCEPT ![a] = Idle]

\* What is left of the hits grounds the answer: those without a text, or with that of
\* a mere relation, and all behind the twelfth do not.  Its row shows how each text
\* starts, that of the search none of it, so what was asked for may be in either row
\* alone.  The walk over the graph adds nothing behind the hits (it imports a module
\* that does not exist, and swallows that); when its own query raises, no row is left.
Grounding == {"first", "lower", "absent"}

\* A response that is empty, or nothing but code, leaves no answer behind.
HasAnswer(generated) == generated = "text"

AnswerEvent(a, grounding, generated, says, traced) ==
    Event("rag_answer", ask[a].q, IF generated = "error" THEN "failed" ELSE "observed",
          grounding, says, HasAnswer(generated), traced)

\* The MLflow trace of an answer is best effort.
Untraced(a, grounding, says) == AnswerEvent(a, grounding, "text", says, FALSE)

\* ask_capability_graph after its search.  Without a hit the row says failed,
\* with a fixed sentence for an answer.
AnswerWithoutHits(a) ==
    /\ ask[a].step = "answer" /\ ask[a].rank = "none"
    /\ Emit(Event("rag_answer", ask[a].q, "failed", "absent", FALSE, TRUE, FALSE))
    /\ Answered(a)
    /\ UNCHANGED <<window, jobVars, pageVars>>

\* The model may fail, which the answer then says, or return nothing; an answer
\* may name the expected content whether or not it was retrieved.
Answer(a, grounding, says) ==
    /\ ask[a].step = "answer" /\ ask[a].rank # "none"
    /\ says => grounding = "absent"     \* it matters only then
    /\ \/ Emit(AnswerEvent(a, grounding, "text", says, TRUE))
       \/ /\ Fault /\ Len(events) < MaxEvents
          /\ \E e \in {Untraced(a, grounding, says)}
                   \cup {AnswerEvent(a, grounding, bad, FALSE, TRUE) : bad \in {"empty", "error"}} :
                events' = Append(events, [e EXCEPT !.stored = "yes"])
    /\ Answered(a)
    /\ UNCHANGED <<window, jobVars, pageVars>>

(* ------------------------------ the scorers ------------------------------ *)

KindOf(w) == IF w = "capability_graph" THEN "rag_search" ELSE "rag_answer"
Readable(e) == e.stored \in {"yes", "landed"}

\* _load_latest_events: the newest row of each curated question, of any age.
LatestEvents(kind) ==
    LET found == {i \in 1..Len(events) : /\ events[i].kind = kind
                                         /\ events[i].q \in Questions
                                         /\ Readable(events[i])}
    IN {i \in found : \A j \in found : events[j].q = events[i].q => j <= i}

\* _expected_context_present: over the whole row, the question and the answer
\* with it, or over its first evidence only.
ContextPresent(e) == e.rank \in {"first", "lower"} \/ e.says
ContextFirst(e) == e.rank = "first"
AnswerCompleted(e) == e.completed

\* Rates in percent; 0 of 0 is 0.
Rate(n, d) == IF d = 0 THEN 0 ELSE (100 * n) \div d
MinOf(a, b) == IF a <= b THEN a ELSE b

RateOf(part, all) == Rate(Cardinality(part), Cardinality(all))

RuntimeMetrics(seen) ==
    LET first == RateOf({i \in seen : ContextFirst(events[i])}, seen)
        present == RateOf({i \in seen : ContextPresent(events[i])}, seen)
        completed == RateOf({i \in seen : AnswerCompleted(events[i])}, seen)
    IN [scored |-> Cardinality(seen), top_1 |-> first, recall |-> present,
        grounded |-> MinOf(present, completed)]

\* A query that fails leaves only "nothing scored"; the floors of metrics that
\* are not there are not applied.
NoMetrics == [scored |-> 0]

Floor == [top_1 |-> 80, recall |-> 85, grounded |-> 90]
GatesOf(w) ==    \* what a run reports on, per workflow
    IF w = "capability_graph" THEN {"top_1", "recall"} ELSE {"recall", "grounded"}

EventsMissing_Ignored(w, m) == FALSE    \* mutant: no EVAL_RUNTIME_EVENTS_MISSING
EventsMissing(w, m) == w \in Retrieval /\ m.scored = 0
BelowFloor(floors, m) == \E g \in floors \cap DOMAIN m : m[g] < Floor[g]
Reasons(w, floors, m) == EventsMissing(w, m) \/ BelowFloor(floors, m)

\* _scorer_results: a metric with no floor is only observed, one without a
\* value was not run, and no gate passes in a run with a reason to fail.
ResultsOf(w, floors, m, bad) ==
    IF w \notin Retrieval THEN {IF bad THEN "failed" ELSE "passed"}
    ELSE {CASE g \notin DOMAIN m -> "not_run"
            [] g \in DOMAIN m /\ g \notin floors -> "observed"
            [] OTHER -> IF m[g] < Floor[g] \/ bad THEN "failed" ELSE "passed"
          : g \in GatesOf(w)}

ScorerRun(w, floors, m, judge) ==
    LET bad == Reasons(w, floors, m) \/ judge = "failed"
    IN [wf |-> w, status |-> IF bad THEN "failed" ELSE "passed",
        observed |-> ~bad /\ "observed" \in ResultsOf(w, floors, m, bad),
        at |-> IF bad THEN 0 ELSE Len(events), stored |-> "no"]

(* -------------------------------- the job -------------------------------- *)

Task(t, i, step, attempt) == [task |-> t, at |-> i, step |-> step, attempt |-> attempt,
                              failed |-> FALSE, row |-> {}]
RegisterOrder_InsertFirst == <<"insert", "delete">>    \* mutant: the old row goes last
RegisterOrder == <<"delete", "insert">>
RegisterFirst == RegisterOrder[1]
RegisterThen == RegisterOrder[2]
FirstStep(t) == IF t = "sync" THEN RegisterFirst ELSE "read"
NoJob == Task("idle", 0, "", 0)

\* A failed attempt is tried again from the start of the task; then the run of
\* the job is over, and the tasks behind it never run.
TaskFails ==
    job' = IF job.attempt < JobRetries
           THEN Task(job.task, 1, FirstStep(job.task), job.attempt + 1) ELSE NoJob

TaskEnds ==
    job' = CASE job.task = "sync" -> Task("score", 1, "read", 0)
             [] job.task = "score" -> Task("sample", 1, "read", 0)
             [] OTHER -> NoJob

Dataset == IF job.task = "sample" THEN Live ELSE Manifest[job.at]
NextDataset ==
    IF job.task # "sample" /\ job.at < Len(Manifest)
    THEN job' = [job EXCEPT !.at = @ + 1, !.step = FirstStep(job.task)]
    ELSE TaskEnds

\* By the schedule or by `brickvision evaluation run`; max_concurrent_runs is 1.
StartJob ==
    /\ job = NoJob /\ jobs < MaxJobs
    /\ jobs' = jobs + 1 /\ job' = Task("sync", 1, RegisterFirst, 0)
    /\ UNCHANGED <<window, askVars, runs, registry, late, synced,
                   pageVars, faults>>

\* _sync_dataset: get_or_create_dataset and merge_records, which may fail, then
\* register_dataset deletes the row of the dataset and inserts it anew: two
\* statements, each of which may fail or be given up on.
Apply(what, d) == IF what = "delete" THEN registry \ {d} ELSE registry \cup {d}

\* A statement fails, or is still running when its 50 s are over.
GivesUp(s) == late' \in {late, late \cup {s}}

Register ==
    /\ job.step \in {"delete", "insert"}
    /\ \/ /\ registry' = Apply(job.step, Dataset)
          /\ IF job.step = RegisterFirst
             THEN /\ job' = [job EXCEPT !.step = RegisterThen]
                  /\ synced' = synced \ {Dataset}
             ELSE NextDataset /\ synced' = synced \cup {Dataset}
          /\ UNCHANGED <<late, faults>>
       \/ /\ Fault /\ TaskFails
          /\ GivesUp(<<job.step, Dataset>>)
          /\ UNCHANGED <<registry, synced>>
    /\ UNCHANGED <<window, askVars, runs, jobs, pageVars>>

\* A DELETE given up on takes the row of a later sync with it.
LandLate(s) ==
    /\ s \in late
    /\ registry' = Apply(s[1], s[2])
    /\ late' = late \ {s}
    /\ synced' = IF s[1] = "delete" THEN synced \ {s[2]} ELSE synced
    /\ UNCHANGED <<window, askVars, job, runs, jobs, pageVars, faults>>

\* _score_dataset up to its row.  A failed query of events leaves nothing to
\* score; the one the judge makes for itself is not caught and ends the attempt.
Score ==
    /\ job.task = "score" /\ job.step = "read"
    /\ LET w == Manifest[job.at]
           scored(m, judge) ==
               \E manifest \in GateChoices :
                   job' = [job EXCEPT !.step = "persist",
                                      !.row = {ScorerRun(w, manifest[w], m, judge)}]
           metrics == IF w \in Retrieval THEN RuntimeMetrics(LatestEvents(KindOf(w)))
                      ELSE NoMetrics
       IN \/ scored(metrics, "skipped") /\ UNCHANGED faults
          \/ /\ w = "hipporag2_retrieval" /\ Judged /\ metrics.scored > 0
             /\ Fault /\ scored(metrics, "failed")
          \/ /\ w \in Retrieval
             /\ Fault /\ scored(NoMetrics, "skipped")
          \/ /\ w \in Retrieval /\ Judged
             /\ Fault /\ TaskFails
    /\ UNCHANGED <<window, askVars, runs, registry, late, synced, jobs,
                   pageVars>>

\* _persist_scorer_event; after the last dataset the script exits 1 when any
\* run of this attempt failed.
Persist ==
    /\ job.step = "persist"
    /\ LET r == CHOOSE x \in job.row : TRUE
           failed == job.failed \/ r.status = "failed"
       IN \/ /\ runs' = Append(runs, [r EXCEPT !.stored = "yes"])
             /\ IF job.at < Len(Manifest)
                THEN job' = [job EXCEPT !.at = @ + 1, !.step = "read", !.row = {},
                                        !.failed = failed]
                ELSE IF failed THEN TaskFails ELSE TaskEnds
             /\ UNCHANGED faults
          \/ /\ Fault /\ TaskFails
             /\ runs' \in {runs, Append(runs, [r EXCEPT !.stored = "late"])}
    /\ UNCHANGED <<window, askVars, registry, late, synced, jobs, pageVars>>

LandRun(k) ==
    /\ runs[k].stored = "late"
    /\ runs' = [runs EXCEPT ![k].stored = "landed"]
    /\ UNCHANGED <<window, askVars, job, registry, late, synced, jobs,
                   pageVars, faults>>

\* The sampler looks for the traced answers of the day; with none it is done.
InWindow == {i \in window + 1..Len(events) :
               events[i].kind = "rag_answer" /\ Readable(events[i])}

Sample ==
    /\ job.task = "sample" /\ job.step = "read"
    /\ \/ /\ IF \E i \in InWindow : events[i].traced
             THEN job' = [job EXCEPT !.step = RegisterFirst] ELSE TaskEnds
          /\ UNCHANGED faults
       \/ Fault /\ TaskFails
    /\ UNCHANGED <<window, askVars, runs, registry, late, synced, jobs,
                   pageVars>>

\* timeout_seconds of the job, or a cancellation: no retry, and the statement
\* in flight may still land.
JobStops ==
    /\ job # NoJob /\ Fault /\ job' = NoJob
    /\ IF job.step \in {"delete", "insert"} THEN GivesUp(<<job.step, Dataset>>)
       ELSE UNCHANGED late
    /\ UNCHANGED <<window, askVars, runs, registry, synced, jobs, pageVars>>

(* -------------------------- the Evaluation page -------------------------- *)

NoPage == [step |-> "none", shown |-> {}, overall |-> "", from |-> 0, upto |-> 0]

\* _safe_latest_scorer_runs: the newest row per workflow; a failure shows none.
\* (The datasets read before it change no verdict: a workflow never scored is
\* never "passed", with records or without.)
LatestRuns == {k \in 1..Len(runs) :
                 /\ Readable(runs[k])
                 /\ \A l \in k + 1..Len(runs) :
                      ~(runs[l].wf = runs[k].wf /\ Readable(runs[l]))}

PageOpens ==
    /\ page.step \in {"none", "answered"} /\ pages < MaxPages /\ pages' = pages + 1
    /\ \/ page' = [NoPage EXCEPT !.step = "live", !.shown = LatestRuns] /\ UNCHANGED faults
       \/ Fault /\ page' = [NoPage EXCEPT !.step = "live"]
    /\ UNCHANGED <<window, askVars, jobVars>>

\* _scorer_category.  A workflow never scored waits or warns.
ScorerCategory(w, shown) ==
    LET of == {k \in shown : runs[k].wf = w}
    IN IF of = {} THEN "not_scored"
       ELSE LET r == runs[CHOOSE k \in of : TRUE]
            IN IF r.status = "passed" /\ r.observed THEN "warning" ELSE r.status

\* _live_category over the answers of the last 24 hours.
LiveCategory(rows) ==
    LET failures == {i \in rows : events[i].status \in {"failed", "blocked"}}
        traced == {i \in rows : events[i].traced}
    IN CASE rows = {} -> "not_scored"
         [] failures # {} -> "failed"
         [] failures = {} /\ rows # {} /\ Cardinality(rows) < MinLive -> "warning"
         [] OTHER -> IF RateOf(traced, rows) < 80 THEN "warning" ELSE "passed"

\* mutant: what is not scored does not count
OverallStatus_Lenient(categories) ==
    IF categories \subseteq {"passed", "not_scored"} THEN "passed" ELSE "failed"
OverallStatus(categories) ==
    IF "failed" \in categories THEN "failed"
    ELSE IF categories \subseteq {"passed"} THEN "passed" ELSE "warning"

\* _safe_live_quality, and the page is put together of what it read.
PageAnswers ==
    /\ page.step = "live"
    /\ LET answer(rows) ==
             LET overall == OverallStatus({ScorerCategory(Manifest[i], page.shown) : i \in InOrder}
                                          \cup {LiveCategory(rows)})
             IN page' = IF overall # "passed"    \* only a green one is remembered
                        THEN [NoPage EXCEPT !.step = "answered"]
                        ELSE [page EXCEPT !.step = "answered", !.overall = overall,
                                          !.from = window, !.upto = Len(events)]
       IN \/ answer(InWindow) /\ UNCHANGED faults
          \/ Fault /\ answer({})
    /\ UNCHANGED <<window, askVars, jobVars, pages>>

(* ------------------------------ environment ------------------------------ *)

\* A day passes without a request; neither a job (an hour at most) nor a page
\* takes that long.  One such day, after the jobs, is enough.
DayPasses ==
    /\ job = NoJob /\ jobs = MaxJobs /\ page.step = "none" /\ \A a \in Askers : ask[a] = Idle
    /\ window = 0 /\ events # <<>> /\ window' = Len(events)
    /\ UNCHANGED <<askVars, jobVars, pageVars, faults>>

Init ==
    /\ ask = [a \in Askers |-> Idle] /\ events = <<>> /\ window = 0
    /\ job = NoJob /\ runs = <<>> /\ registry = {} /\ late = {} /\ synced = {}
    /\ page = NoPage /\ jobs = 0 /\ pages = 0 /\ faults = 0

Next ==
    \/ BlankRequest
    \/ \E a \in Askers, q \in Questions, ranked \in Ranked, wanted \in {"hits", "answer"} :
          Search(a, q, ranked, wanted)
    \/ \E a \in Askers : AnswerWithoutHits(a)
    \/ \E a \in Askers, grounding \in Grounding, says \in BOOLEAN :
          Answer(a, grounding, says)
    \/ \E i \in 1..Len(events) : Land(i)
    \/ StartJob \/ Register \/ Score \/ Persist \/ Sample \/ JobStops
    \/ \E s \in late : LandLate(s)
    \/ \E k \in 1..Len(runs) : LandRun(k)
    \/ PageOpens \/ PageAnswers
    \/ DayPasses

Spec == Init /\ [][Next]_vars

(* ------------------------------- properties ------------------------------ *)

\* The event shows that what was asked was found, by the standard of its workflow.
Shows(w, e) == IF w = "capability_graph" THEN ContextFirst(e) ELSE ContextPresent(e)

\* A run that passed on retrieval rests on the index: some curated question's
\* expected context was found, and no later answer to that question that had
\* been stored in time when the run read says otherwise.
PassIsBacked ==
    \A k \in 1..Len(runs) :
        LET r == runs[k] IN
        (r.wf \in Retrieval /\ r.status = "passed") =>
            \E i \in 1..r.at :
                /\ events[i].kind = KindOf(r.wf) /\ events[i].q \in Questions
                /\ Shows(r.wf, events[i])
                /\ \A j \in i + 1..r.at :
                     (/\ events[j].kind = events[i].kind /\ events[j].q = events[i].q
                      /\ events[j].stored = "yes") => Shows(r.wf, events[j])

\* A green page is earned whatever its queries and the statements behind them
\* went through: it shows a run of every workflow, each of which passed with
\* every floor applied, and the answers of its day are enough, traced, and none
\* of them that was stored in time failed.
GreenIsEarned ==
    (page.step = "answered" /\ page.overall = "passed") =>
        /\ \A i \in InOrder : \E k \in page.shown :
              runs[k].wf = Manifest[i] /\ runs[k].status = "passed" /\ ~runs[k].observed
        /\ LET day == {i \in page.from + 1..page.upto : events[i].kind = "rag_answer"}
               kept == {i \in day : Readable(events[i])}
           IN /\ Cardinality(kept) >= MinLive
              /\ \E i \in kept : events[i].traced
              /\ \A i \in day : events[i].stored = "yes" => events[i].status = "observed"

\* Once a sync has registered a dataset it stays registered until a later sync
\* takes it up again; only a DELETE that was given up on can undo that.
RegisteredAfterSync == synced \subseteq registry
====

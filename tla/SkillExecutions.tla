---------------------------- MODULE SkillExecutions ----------------------------
(***************************************************************************)
(* What an execution of the monitor does in the workspace: a SQL           *)
(* statement, a PySpark or training job or a Lakebridge conversion is      *)
(* submitted over a network, waited for, and what it left is read back.    *)
(* All executions of a family of the usecase leave their output in the     *)
(* same place, the remote work does not end with the thread that waits for *)
(* it, and nothing read back says who wrote it.                            *)
(***************************************************************************)
EXTENDS UsecaseExecutions, MLReadiness, LakebridgeSwitch

CONSTANTS
    MLUsecases,     \* what an ML execution may find: facts and bindings
    Conversions     \* what a conversion may find

ASSUME MLUsecasesAssumption ==
    MLUsecases \subseteq [facts : UsecaseFacts, bindings : Bindings]
ASSUME ConversionsAssumption == Conversions \subseteq Settings

VARIABLES
    phase,      \* how far each execution's skill has come
    remote,     \* the work it submitted, while it runs or is waited for
    place,      \* the family whose place that work writes; NoFamily: none
    output,     \* per family: whose output is in its place
    seen,       \* per execution: whose output it has read back or exported
    volume,     \* whose converted code is in the output volume
    unnamed,    \* history: executions whose work nobody knows to wait for
    late        \* history: executions that wrote when nobody waited any more

skillVars == <<phase, remote, place, output, seen, volume, unnamed, late>>
allVars == <<vars, skillVars>>

\* Families whose skill runs something in the workspace.
Working == {"SQL", "PySpark", "ML"} \cup Unrecorded

MLOutcomes == {TrainingOutcome(x.facts, x.bindings) : x \in MLUsecases}
ConversionOutcomes == [f \in Unrecorded |-> {Outcome(f, s) : s \in Conversions}]

At(e, p) == stage[e] = "execute" /\ family[e] \in Working /\ phase[e] = p
Moves(e, p) == phase' = [phase EXCEPT ![e] = p]

-----------------------------------------------------------------------------
(* The executors of the families. *)

Submits(e, next) ==
    /\ remote' = [remote EXCEPT ![e] = "running"]
    /\ Moves(e, next)
    /\ UNCHANGED <<vars, output, seen, volume, late>>

\* The text of a SQL statement need not write to output_uri, nor a training
\* artifact of the usecase's own to the audit table.
SubmitText(e) ==
    /\ At(e, "idle")
    /\ family[e] = "SQL" \/ (family[e] = "ML" /\ "planned" \in MLOutcomes)
    /\ place' \in {place, [place EXCEPT ![e] = family[e]]}
    /\ Submits(e, "wait")
    /\ UNCHANGED unnamed

\* The PySpark driver writes where it is told.
SubmitDriver(e) ==
    /\ At(e, "idle") /\ family[e] = "PySpark"
    /\ place' = [place EXCEPT ![e] = family[e]]
    /\ Submits(e, "wait")
    /\ UNCHANGED unnamed

\* So does Lakebridge Switch: to the workspace folder of the usecase.
HandOver(e, outcome, next) ==
    /\ At(e, "idle")
    /\ family[e] \in Unrecorded /\ outcome \in ConversionOutcomes[family[e]]
    /\ place' = [place EXCEPT ![e] = family[e]]
    /\ Submits(e, next)

\* Its job, or a command whose run is known.
SubmitSwitch(e) == HandOver(e, "waited", "wait") /\ UNCHANGED unnamed

\* A command that does not say which run it started: the folder is exported at once.
SubmitUnnamed(e) ==
    HandOver(e, "unwaited", "export") /\ unnamed' = unnamed \cup {e}

\* The operations of a plan of the usecase's own write nothing that is read, and
\* are not waited for.
SubmitUnplanned(e) ==
    /\ At(e, "idle") /\ family[e] = "ML" /\ "unplanned" \in MLOutcomes
    /\ Submits(e, "answer")
    /\ UNCHANGED <<place, unnamed>>

\* What may be in the places once the work has written.  A table is overwritten and
\* the newest audit row is the one read; the workspace folder of the usecase's
\* converted files is never emptied, and a file gives way to one of its name.
Written(e) ==
    LET f == place[e] IN
    IF f = NoFamily THEN {output}
    ELSE IF f \in Unrecorded
    THEN {[output EXCEPT ![f] = {e} \cup kept] : kept \in SUBSET output[f]}
    ELSE {[output EXCEPT ![f] = {e}]}

\* The work ends.  If it failed it may have written nothing; so may a Switch run
\* that did not.
RemoteEnds(e) ==
    /\ remote[e] = "running"
    /\ \E ending \in {"good", "failed"} :
        /\ \/ output' \in Written(e)
           \/ output' = output /\ (ending = "failed" \/ place[e] \in Unrecorded)
        /\ remote' = [remote EXCEPT ![e] = IF phase[e] = "wait" THEN ending ELSE "none"]
    /\ late' = IF phase[e] = "wait" \/ output' = output THEN late ELSE late \cup {e}
    /\ place' = [place EXCEPT ![e] = IF stage[e] = "none" THEN NoFamily ELSE @]
    /\ UNCHANGED <<vars, phase, seen, volume, unnamed>>

\* What is waited for is seen to have ended in a way that will do.
Succeeds(e, endings, next) ==
    /\ At(e, "wait") /\ remote[e] \in endings
    /\ Moves(e, next)
    /\ remote' = [remote EXCEPT ![e] = "none"]
    /\ UNCHANGED <<vars, place, output, seen, volume, unnamed, late>>

Wait_Impatient(e) ==                    \* mutant: an accepted statement is a finished one
    /\ At(e, "wait") /\ family[e] \notin Unrecorded
    /\ remote[e] \in {"running", "good"}
    /\ Moves(e, "read")
    /\ UNCHANGED <<vars, remote, place, output, seen, volume, unnamed, late>>

\* wait_for_statement and wait_for_job_run.
Wait(e) == family[e] \notin Unrecorded /\ Succeeds(e, {"good"}, "read")

WaitForSwitch_Impatient(e) ==           \* mutant: a run that does not say it failed will do
    /\ At(e, "wait") /\ family[e] \in Unrecorded
    /\ Moves(e, "export")
    /\ UNCHANGED <<vars, remote, place, output, seen, volume, unnamed, late>>

\* _wait_lakebridge_job_run and _wait_for_job_run: the run is over.  Where the answer
\* has no result_state, one that failed is taken for one that did not.
WaitForSwitch(e) ==
    family[e] \in Unrecorded /\ Succeeds(e, {"good", "failed"}, "export")

Sees(e) == \E w \in output[family[e]] : seen' = [seen EXCEPT ![e] = @ \cup {w}]

\* The schema of the table or the newest audit row says well; so does what the
\* usecase's own operation answers.
Read(e) ==
    /\ \/ /\ At(e, "read") /\ Sees(e)
          /\ Moves(e, IF family[e] = "PySpark" THEN "count" ELSE "proven")
       \/ At(e, "answer") /\ Moves(e, "proven") /\ UNCHANGED seen
    /\ UNCHANGED <<vars, remote, place, output, volume, unnamed, late>>

\* The folder is exported.  One of its files is the transpiled SQL, which there
\* must be; converted code is whatever there is, and goes to the volume.
Exports(e) ==
    LET files == output[family[e]] IN
    IF family[e] = "Code Convert" THEN {files} ELSE {{w} : w \in files}

ExportFolder(e) ==
    /\ At(e, "export")
    /\ \E files \in Exports(e) : seen' = [seen EXCEPT ![e] = files]
    /\ Moves(e, IF family[e] = "Code Convert" THEN "copy" ELSE "proven")
    /\ UNCHANGED <<vars, remote, place, output, volume, unnamed, late>>

\* The copy overwrites the files of the volume that it has others for.  One that fails
\* has copied any of them.
CopyToVolume(e) ==
    /\ At(e, "copy")
    /\ \E kept \in SUBSET volume, copied \in SUBSET seen[e] :
        /\ volume \cap seen[e] \subseteq kept
        /\ copied = {} => kept = volume
        /\ volume' = kept \cup copied
        /\ Moves(e, "uncopied") \/ (copied = seen[e] /\ Moves(e, "proven"))
    /\ UNCHANGED <<vars, remote, place, output, seen, unnamed, late>>

\* The rows of a PySpark output are counted in a statement of its own.
Count(e) ==
    /\ At(e, "count") /\ Sees(e)
    /\ Moves(e, "proven")
    /\ UNCHANGED <<vars, remote, place, output, volume, unnamed, late>>

\* What a thread knows of its own work goes with it; the work itself does not.
Locals ==
    /\ phase' = [e \in Executions |-> IF stage'[e] = "none" THEN "idle" ELSE phase[e]]
    /\ seen' = [e \in Executions |-> IF stage'[e] = "none" THEN {} ELSE seen[e]]
    /\ remote' = [e \in Executions |->
                    IF stage'[e] = "none" /\ remote[e] # "running" THEN "none" ELSE remote[e]]
    /\ place' = [e \in Executions |->
                    IF stage'[e] = "none" /\ remote[e] # "running" THEN NoFamily ELSE place[e]]
    /\ UNCHANGED <<output, volume, unnamed, late>>

\* The verdict is stored, or is the answer of a family that stores none, which
\* the monitor shows as completed if its last command was.  It is unproven at any
\* time: the skill was blocked, a POST (whose work may run nevertheless) or a poll
\* raised, the work failed or outlived its deadline, or what was read is missing or
\* not as expected.
Conclude(e) ==
    /\ \/ phase[e] = "idle" /\ family[e] \notin Unrecorded /\ TurnedAway(e)
       \/ /\ family[e] \in Unrecorded /\ TurnedAway(e)
          /\ status'[e] = "completed" => phase[e] = "proven"
       \/ phase[e] # "proven" /\ Verdict(e, "unproven")
       \/ phase[e] = "proven" /\ Verdict(e, "proven")
    /\ Locals

\* The process is replaced; the work in the workspace goes on.
Replace == Restart /\ Locals

-----------------------------------------------------------------------------
SkillInit ==
    /\ Init
    /\ phase = [e \in Executions |-> "idle"]
    /\ remote = [e \in Executions |-> "none"]
    /\ place = [e \in Executions |-> NoFamily]
    /\ output = [f \in ToolFamilies |-> {}]
    /\ seen = [e \in Executions |-> {}]
    /\ volume = {} /\ unnamed = {} /\ late = {}

SkillStep(e) ==
    \/ Conclude(e)
    \/ (PersistProof(e) \/ ReportProof(e)) /\ Locals
    \/ SubmitText(e) \/ SubmitDriver(e) \/ SubmitUnplanned(e)
    \/ SubmitSwitch(e) \/ SubmitUnnamed(e)
    \/ Wait(e) \/ Read(e) \/ Count(e)
    \/ WaitForSwitch(e) \/ ExportFolder(e) \/ CopyToVolume(e)

\* A thread that has something to do goes on: it takes the next job, and everything
\* a job waits for answers or times out.  The work itself may run for ever.
Work == (Begin /\ UNCHANGED skillVars) \/ \E e \in Executions : SkillStep(e)

SkillNext ==
    \/ \E c \in Callers : (StartCheck(c) \/ StartInsert(c)) /\ UNCHANGED skillVars
    \/ \E f \in ToolFamilies : AskProof(f) /\ UNCHANGED skillVars
    \/ Work
    \/ \E e \in Executions : RemoteEnds(e)
    \/ Replace

SkillSpec == SkillInit /\ [][SkillNext]_allVars

FairSkillSpec == SkillSpec /\ WF_allVars(Work)

-----------------------------------------------------------------------------
(* What a proof rests on was written by the execution it proves.  It may be   *)
(* another's only where an execution's own work did not write the place that  *)
(* is read, where two of one family ran together (a direct request, or the    *)
(* window of start_usecase_execution), or where the other's work outlived the *)
(* thread that waited for it.  (The folder of a conversion keeps everybody's  *)
(* files, and nothing tells whose they are: there, only CompletedIsDelivered.) *)
ProvenByOwnWork ==
    \A e \in Executions :
        /\ stage[e] \in {"proven", "report proven"}
        /\ family[e] \in Working \ Unrecorded
        /\ place[e] = family[e] /\ e \notin raced \cup asked
        => /\ seen[e] # {}
           /\ seen[e] \ {e} \subseteq raced \cup asked \cup late

NamedConversion(e) == family[e] = "Code Convert" /\ e \notin unnamed
OneByOne == \A d \in raced \cup asked : family[d] # "Code Convert"

\* A code conversion the monitor shows as completed has in the output volume what it
\* has in the workspace folder: nothing it wrote came after the export, no copy failed
\* unnoticed, and no later export, complete or broken off, puts older files over its
\* own -- unless its command did not name a run to wait for, or two conversions of the
\* usecase were let run together.
CompletedIsDelivered ==
    \A e \in Executions :
        status[e] = "completed" /\ NamedConversion(e) /\ OneByOne /\ e \in output[family[e]]
            => e \in volume

\* An ML execution that finds its problem ready, with nothing bound that would say
\* otherwise, is not then refused for its features, nor without a backend that
\* could take its problem -- rankings and segmentations apart.
ApprovedIsTrainable ==
    \A e \in Executions : family[e] = "ML" /\ At(e, "idle") => JudgementsAgree
=============================================================================

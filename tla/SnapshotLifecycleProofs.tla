----------------------- MODULE SnapshotLifecycleProofs -----------------------
(***************************************************************************)
(* What holds of SnapshotLifecycle for every set of snapshots and          *)
(* operators, every window, every retry policy and every table layout.     *)
(***************************************************************************)
EXTENDS SnapshotLifecycle, TLAPS

-----------------------------------------------------------------------------
(* Types.  TypeOK is not inductive alone: a statement names the snapshot of *)
(* the run or of the operator that sends it, so both must have one.         *)

RunHasSnapshot == pc # "idle" => runSnap \in Snapshots
OperatorHasTarget == \A o \in Operators : opPc[o] # "idle" => opTarget[o] \in Snapshots
TypeInv == TypeOK /\ RunHasSnapshot /\ OperatorHasTarget

\* Running a statement keeps the two tables well-formed.
LEMMA EffectType ==
  ASSUME TypeOK, NEW st \in Statements, Effect(st)
  PROVE  /\ ledger' \in [Snapshots -> LedgerRow]
         /\ active' \in Snapshots \cup {NoSnapshot}
         /\ everActive' \in SUBSET Snapshots
<1>1. st.snap \in Snapshots /\ st.at \in Nat /\ st.op \in {"point", "stamp", "deactivate"}
  BY DEF Statements
<1>2. active' \in Snapshots \cup {NoSnapshot} /\ everActive' \in SUBSET Snapshots
  BY <1>1 DEF TypeOK, Effect
<1>3. ledger' \in [Snapshots -> LedgerRow]
  <2>0. ledger \in [Snapshots -> LedgerRow] BY DEF TypeOK
  <2>1. CASE ~ledger[st.snap].present \/ st.op = "point"
    BY <2>0, <2>1, <1>1 DEF Effect
  <2>2. CASE ledger[st.snap].present /\ st.op = "stamp"
    <3>1. ledger' = [ledger EXCEPT ![st.snap].promotedAt = st.at]
      BY <2>2 DEF Effect
    <3> QED BY <3>1, <2>0, <1>1 DEF LedgerRow, Times
  <2>3. CASE ledger[st.snap].present /\ st.op = "deactivate"
    <3>1. ledger' = [ledger EXCEPT ![st.snap].deactivatedAt = st.at]
      BY <2>3 DEF Effect
    <3> QED BY <3>1, <2>0, <1>1 DEF LedgerRow, Times
  <2> QED BY <2>1, <2>2, <2>3, <1>1
<1> QED BY <1>2, <1>3

\* Sending a statement, whatever becomes of it, keeps the warehouse well-formed.
LEMMA SendType ==
  ASSUME TypeOK, NEW st \in Statements, Succeeds(st) \/ Raises(st)
  PROVE  /\ ledger' \in [Snapshots -> LedgerRow]
         /\ active' \in Snapshots \cup {NoSnapshot}
         /\ everActive' \in SUBSET Snapshots
         /\ inflight' \in SUBSET Statements
<1>1. CASE Succeeds(st)
  BY <1>1, EffectType DEF Succeeds, TypeOK
<1>2. CASE Raises(st)
  BY <1>2 DEF Raises, TypeOK
<1> QED BY <1>1, <1>2

LEMMA StatementTypes ==
  ASSUME NEW s \in Snapshots, NEW t \in Nat
  PROVE  Point(s, t) \in Statements /\ Stamp(s, t) \in Statements
           /\ Deactivate(s, t) \in Statements
BY DEF Point, Stamp, Deactivate, Statements

LEMMA InitType == Init => TypeInv
<1> SUFFICES ASSUME Init PROVE TypeInv
  OBVIOUS
<1>1. NoRow \in LedgerRow /\ FreshRow \in LedgerRow
  BY DEF NoRow, FreshRow, LedgerRow, Times
<1>2. NoResults \in Results
  BY DEF NoResults, Results
<1>3. ledger \in [Snapshots -> LedgerRow] /\ staged \in [Snapshots -> Results]
  BY <1>1, <1>2 DEF Init
<1>4. TypeOK
  BY <1>3 DEF Init, TypeOK
<1>5. RunHasSnapshot /\ OperatorHasTarget
  BY DEF Init, RunHasSnapshot, OperatorHasTarget
<1> QED BY <1>4, <1>5 DEF TypeInv

-----------------------------------------------------------------------------
(* Each kind of step keeps the types. *)

\* The variables of the sweep, of the operators and of the run.
SweepType == /\ sweepActive \in Snapshots \cup {NoSnapshot}
             /\ sweepTodo \in SUBSET Snapshots
             /\ sweepDone \in SUBSET Snapshots
             /\ sweepFault \in BOOLEAN
RunType == /\ pc \in JobSteps \cup {"idle"} /\ attempt \in Nat /\ now \in Nat
           /\ runSnap \in Snapshots \cup {NoSnapshot} /\ runStart \in Nat
           /\ RunHasSnapshot
StagingType == /\ persisted \in [Snapshots -> {"none", "partial", "full"}]
               /\ staged \in [Snapshots -> Results]
OperatorType == /\ opPc \in [Operators -> {"idle", "check", "point"}]
                /\ opTarget \in [Operators -> Snapshots \cup {NoSnapshot}]
                /\ opNow \in [Operators -> Nat]
                /\ OperatorHasTarget
WarehouseType == /\ ledger \in [Snapshots -> LedgerRow]
                 /\ active \in Snapshots \cup {NoSnapshot}
                 /\ inflight \in SUBSET Statements
                 /\ everActive \in SUBSET Snapshots

LEMMA TypeParts ==
  TypeInv <=> /\ WarehouseType /\ StagingType /\ RunType /\ SweepType
              /\ OperatorType /\ clock \in Nat /\ overlapped \in SUBSET Snapshots
BY DEF TypeInv, TypeOK, WarehouseType, StagingType, RunType, SweepType,
       OperatorType

LEMMA TypePartsNext ==
  TypeInv' <=> /\ WarehouseType' /\ StagingType' /\ RunType' /\ SweepType'
               /\ OperatorType' /\ clock' \in Nat /\ overlapped' \in SUBSET Snapshots
BY DEF TypeInv, TypeOK, WarehouseType, StagingType, RunType, SweepType,
       OperatorType

LEMMA RunSteps ==
  ASSUME RunType, clock \in Nat
  PROVE  /\ \A p \in JobSteps :
              pc # "idle" /\ Continue(p) /\ UNCHANGED runVars => RunType'
         /\ \A p \in JobSteps :
              pc # "idle" /\ Launch(p) /\ UNCHANGED runVars => RunType'
         /\ EndRun => RunType' /\ SweepType'
         /\ pc # "idle" /\ Restart /\ SweepType => RunType' /\ SweepType'
<1>1. \A p \in JobSteps :
        pc # "idle" /\ Continue(p) /\ UNCHANGED runVars => RunType'
  BY DEF Continue, runVars, RunType, RunHasSnapshot
<1>2. \A p \in JobSteps :
        pc # "idle" /\ Launch(p) /\ UNCHANGED runVars => RunType'
  BY DEF Launch, runVars, RunType, RunHasSnapshot
<1>3. EndRun => RunType' /\ SweepType'
  <2>1. EndRun => RunType' BY DEF EndRun, RunType, RunHasSnapshot
  <2>2. EndRun => sweepFault' \in BOOLEAN BY Zenon DEF EndRun
  <2>3. EndRun => SweepType' BY <2>2, Zenon DEF EndRun, SweepType
  <2> QED BY <2>1, <2>3
<1>4. pc \in JobSteps => TaskOf(pc) \in JobSteps
  BY DEF TaskOf, JobSteps
<1>5. ASSUME pc # "idle", Restart, SweepType PROVE RunType' /\ SweepType'
  <2>1. CASE EndRun BY <2>1, <1>3
  <2>2. CASE /\ pc' = TaskOf(pc) /\ attempt' = attempt + 1 /\ now' = clock
             /\ UNCHANGED <<runVars, sweepVars>>
    <3>1. pc' \in JobSteps BY <2>2, <1>4, <1>5 DEF RunType
    <3> QED BY <3>1, <2>2, <1>5 DEF RunType, RunHasSnapshot, SweepType, runVars, sweepVars
  <2> QED BY <1>5, <2>1, <2>2 DEF Restart
<1> QED BY <1>1, <1>2, <1>3, <1>5

LEMMA RowsType ==
  ASSUME TypeInv, pc = "persist", NEW full \in BOOLEAN, PersistRows(full)
  PROVE  WarehouseType' /\ persisted' \in [Snapshots -> {"none", "partial", "full"}]
<1>1. NoRow \in LedgerRow /\ FreshRow \in LedgerRow
  BY DEF NoRow, FreshRow, LedgerRow, Times
<1>2. PICK row \in (IF full THEN {FreshRow} ELSE {NoRow, FreshRow}) :
        ledger' = [ledger EXCEPT ![runSnap] = row]
  BY DEF PersistRows
<1>3. row \in LedgerRow
  BY <1>1, <1>2
<1>4. ledger' \in [Snapshots -> LedgerRow]
  BY <1>2, <1>3 DEF TypeInv, TypeOK
<1> QED BY <1>4 DEF PersistRows, TypeInv, TypeOK, WarehouseType

\* A task's result goes into the field of that task.
LEMMA StagedType ==
  ASSUME TypeInv, pc # "idle"
  PROVE  /\ \A r \in {"ok", "errors"} :
              staged' = [staged EXCEPT ![runSnap].persist = r]
                => staged' \in [Snapshots -> Results]
         /\ \A r \in {"ok", "errors"} :
              staged' = [staged EXCEPT ![runSnap].vs_upsert = r]
                => staged' \in [Snapshots -> Results]
         /\ \A r \in {"passed", "failed"} :
              staged' = [staged EXCEPT ![runSnap].smoke = r]
                => staged' \in [Snapshots -> Results]
         /\ \A r \in {"promoted", "refused"} :
              staged' = [staged EXCEPT ![runSnap].promote = r]
                => staged' \in [Snapshots -> Results]
<1>1. staged \in [Snapshots -> Results] /\ runSnap \in Snapshots
  BY DEF TypeInv, TypeOK, RunHasSnapshot
<1> QED BY <1>1 DEF Results

LEMMA PersistType == TypeInv /\ Persist => TypeInv'
<1> SUFFICES ASSUME TypeInv, Persist PROVE TypeInv'
  OBVIOUS
<1>1. PICK full \in BOOLEAN :
        /\ PersistRows(full)
        /\ staged' = [staged EXCEPT ![runSnap].persist =
                        IF full THEN "ok" ELSE "errors"]
  BY DEF Persist
<1>2. pc = "persist" BY DEF Persist
<1>3. WarehouseType' /\ StagingType'
  BY <1>1, <1>2, RowsType, StagedType DEF StagingType
<1>4. RunType'
  BY <1>2, TypeParts, RunSteps DEF Persist, JobSteps
<1> QED BY <1>3, <1>4, TypeParts, TypePartsNext
        DEF Persist, sweepVars, opVars, SweepType, OperatorType, OperatorHasTarget

LEMMA VsUpsertType == TypeInv /\ VsUpsert => TypeInv'
<1> SUFFICES ASSUME TypeInv, VsUpsert PROVE TypeInv'
  OBVIOUS
<1>1. StagingType' BY StagedType, TypeParts DEF VsUpsert, StagingType
<1>2. RunType' BY TypeParts, RunSteps DEF VsUpsert, JobSteps
<1> QED BY <1>1, <1>2, TypeParts, TypePartsNext
        DEF VsUpsert, warehouseVars, sweepVars, opVars, WarehouseType, SweepType,
            OperatorType, OperatorHasTarget

LEMMA SmokeType == TypeInv /\ Smoke => TypeInv'
<1> SUFFICES ASSUME TypeInv, Smoke PROVE TypeInv'
  OBVIOUS
<1>1. StagingType' BY StagedType, TypeParts DEF Smoke, StagingType
<1>2. RunType' BY TypeParts, RunSteps DEF Smoke, JobSteps
<1> QED BY <1>1, <1>2, TypeParts, TypePartsNext
        DEF Smoke, warehouseVars, sweepVars, opVars, WarehouseType, SweepType,
            OperatorType, OperatorHasTarget

\* Reporting a result of the promote task moves the run to retention.
LEMMA ReportType ==
  ASSUME TypeInv, pc # "idle", UNCHANGED <<persisted, runVars>>,
         NEW r \in {"promoted", "refused"}, ReportPromote(r)
  PROVE  StagingType' /\ RunType'
<1>1. StagingType' BY StagedType, TypeParts DEF ReportPromote, StagingType
<1>2. RunType' BY TypeParts, RunSteps DEF ReportPromote, JobSteps
<1> QED BY <1>1, <1>2

LEMMA PromoteType ==
  TypeInv /\ (PromoteGates \/ PromotePoint \/ PromoteStamp \/ PromoteEmit) => TypeInv'
<1> SUFFICES ASSUME TypeInv, PromoteGates \/ PromotePoint \/ PromoteStamp \/ PromoteEmit
             PROVE  TypeInv'
  OBVIOUS
<1>0. /\ pc # "idle" /\ UNCHANGED <<clock, persisted, runVars, sweepVars, opVars, overlapped>>
      /\ runSnap \in Snapshots /\ now \in Nat
  BY DEF PromoteGates, PromotePoint, PromoteStamp, PromoteEmit, TypeInv, TypeOK,
         RunHasSnapshot
<1>1. WarehouseType'
  <2>1. CASE UNCHANGED warehouseVars
    BY <2>1, TypeParts DEF warehouseVars, WarehouseType
  <2>2. CASE \E st \in {Point(runSnap, now), Stamp(runSnap, now)} : Succeeds(st) \/ Raises(st)
    BY <2>2, <1>0, StatementTypes, SendType, TypeParts DEF WarehouseType, TypeInv
  <2> QED BY <2>1, <2>2 DEF PromoteGates, PromotePoint, PromoteStamp, PromoteEmit
<1>2. StagingType' /\ RunType'
  <2>1. CASE \E r \in {"promoted", "refused"} : ReportPromote(r)
    BY <2>1, <1>0, ReportType
  <2>2. CASE UNCHANGED staged /\ \E p \in {"promote_point", "promote_stamp", "promote_emit"} : Continue(p)
    <3>1. RunType' BY <2>2, <1>0, TypeParts, RunSteps DEF JobSteps
    <3> QED BY <3>1, <2>2, <1>0, TypeParts DEF StagingType
  <2> QED BY <2>1, <2>2 DEF PromoteGates, PromotePoint, PromoteStamp, PromoteEmit
<1> QED BY <1>0, <1>1, <1>2, TypeParts, TypePartsNext
        DEF sweepVars, opVars, SweepType, OperatorType, OperatorHasTarget

LEMMA SweepStepType ==
  TypeInv /\ (RetentionReadActive \/ SweepList \/ SweepDeactivated) => TypeInv'
<1> SUFFICES ASSUME TypeInv, RetentionReadActive \/ SweepList \/ SweepDeactivated
             PROVE  TypeInv'
  OBVIOUS
<1>0. /\ pc # "idle" /\ UNCHANGED <<clock, warehouseVars, persisted, staged, runVars, opVars>>
      /\ runSnap \in Snapshots
  BY DEF RetentionReadActive, SweepList, SweepDeactivated, TypeInv, TypeOK,
         RunHasSnapshot
<1>1. RunType'
  BY <1>0, TypeParts, RunSteps
     DEF RetentionReadActive, SweepList, SweepDeactivated, JobSteps
<1>2. SweepType'
  BY <1>0, TypeParts
     DEF RetentionReadActive, SweepList, SweepDeactivated, SweepType, sweepVars, WarehouseType
<1>3. overlapped' \in SUBSET Snapshots
  <2>1. RollingBack \subseteq Snapshots
    BY DEF RollingBack, TypeInv, TypeOK, OperatorHasTarget, Statements
  <2> QED BY <2>1 DEF RetentionReadActive, SweepList, SweepDeactivated, TypeInv, TypeOK
<1> QED BY <1>0, <1>1, <1>2, <1>3, TypeParts, TypePartsNext
        DEF warehouseVars, opVars, WarehouseType, StagingType, OperatorType, OperatorHasTarget

LEMMA SweepDeactivateType == TypeInv /\ SweepDeactivate => TypeInv'
<1> SUFFICES ASSUME TypeInv, SweepDeactivate PROVE TypeInv'
  OBVIOUS
<1>1. PICK s \in sweepTodo :
        /\ sweepTodo' = sweepTodo \ {s}
        /\ \/ /\ Succeeds(Deactivate(s, now))
              /\ sweepDone' = sweepDone \cup {s}
              /\ UNCHANGED sweepFault
           \/ /\ Raises(Deactivate(s, now))
              /\ sweepFault' = TRUE
              /\ UNCHANGED sweepDone
  BY DEF SweepDeactivate
<1>2. s \in Snapshots /\ now \in Nat BY DEF TypeInv, TypeOK
<1>3. WarehouseType'
  BY <1>1, <1>2, StatementTypes, SendType DEF WarehouseType, TypeInv
<1>4. SweepType'
  BY <1>1, <1>2, TypeParts DEF SweepType, SweepDeactivate
<1> QED BY <1>3, <1>4, TypeParts, TypePartsNext
        DEF SweepDeactivate, jobVars, runVars, opVars, RunType, RunHasSnapshot,
            StagingType, OperatorType, OperatorHasTarget

LEMMA SweepStagingType == TypeInv /\ SweepStaging => TypeInv'
<1> SUFFICES ASSUME TypeInv, SweepStaging PROVE TypeInv'
  OBVIOUS
<1>1. NoResults \in Results BY DEF NoResults, Results
<1>2. StagingType' BY <1>1, TypeParts DEF SweepStaging, StagingType
<1>3. RunType' /\ SweepType' BY TypeParts, RunSteps DEF SweepStaging
<1> QED BY <1>2, <1>3, TypeParts, TypePartsNext
        DEF SweepStaging, warehouseVars, opVars, WarehouseType, OperatorType, OperatorHasTarget

LEMMA CrashTaskType == TypeInv /\ CrashTask => TypeInv'
<1> SUFFICES ASSUME TypeInv, CrashTask PROVE TypeInv'
  OBVIOUS
<1>1. RunType' /\ SweepType'
  BY TypeParts, RunSteps DEF CrashTask, JobSteps
<1>2. WarehouseType' /\ StagingType'
  <2>1. CASE pc = "persist" /\ \E full \in BOOLEAN : PersistRows(full)
    BY <2>1, RowsType, TypeParts DEF CrashTask, StagingType
  <2>2. CASE UNCHANGED <<warehouseVars, persisted>>
    BY <2>2, TypeParts DEF CrashTask, StagingType, WarehouseType, warehouseVars
  <2> QED BY <2>1, <2>2 DEF CrashTask
<1> QED BY <1>1, <1>2, TypeParts, TypePartsNext
        DEF CrashTask, opVars, OperatorType, OperatorHasTarget

LEMMA OperatorStepType ==
  ASSUME TypeInv, NEW o \in Operators, OperatorStep(o)
  PROVE  TypeInv'
<1>1. CASE RollbackBegin(o)
  <2>1. OperatorType' /\ overlapped' \in SUBSET Snapshots
    BY <1>1, TypeParts DEF RollbackBegin, OperatorType, OperatorHasTarget
  <2> QED BY <1>1, <2>1, TypeParts, TypePartsNext
          DEF RollbackBegin, warehouseVars, jobVars, runVars, sweepVars, WarehouseType,
              StagingType, RunType, RunHasSnapshot, SweepType
<1>2. CASE RollbackCheck(o)
  <2>1. OperatorType'
    BY <1>2, TypeParts DEF RollbackCheck, Exits, OperatorType, OperatorHasTarget
  <2> QED BY <1>2, <2>1, TypeParts, TypePartsNext
          DEF RollbackCheck, warehouseVars, jobVars, runVars, sweepVars, WarehouseType,
              StagingType, RunType, RunHasSnapshot, SweepType
<1>3. CASE RollbackPoint(o)
  <2>1. OperatorType'
    BY <1>3, TypeParts DEF RollbackPoint, Exits, OperatorType, OperatorHasTarget
  <2>2. opTarget[o] \in Snapshots /\ opNow[o] \in Nat
    BY <1>3 DEF RollbackPoint, TypeInv, TypeOK, OperatorHasTarget
  <2>3. WarehouseType'
    BY <1>3, <2>2, StatementTypes, SendType DEF RollbackPoint, WarehouseType, TypeInv
  <2> QED BY <1>3, <2>1, <2>3, TypeParts, TypePartsNext
          DEF RollbackPoint, jobVars, runVars, sweepVars,
              StagingType, RunType, RunHasSnapshot, SweepType
<1> QED BY <1>1, <1>2, <1>3 DEF OperatorStep

LEMMA TypeStep == TypeInv /\ [Next]_vars => TypeInv'
<1> SUFFICES ASSUME TypeInv, [Next]_vars PROVE TypeInv'
  OBVIOUS
<1>1. CASE UNCHANGED vars
  BY <1>1 DEF vars, warehouseVars, jobVars, runVars, sweepVars, opVars, TypeInv,
              TypeOK, RunHasSnapshot, OperatorHasTarget
<1>2. CASE Tick
  BY <1>2 DEF Tick, warehouseVars, jobVars, runVars, sweepVars, opVars, TypeInv,
              TypeOK, RunHasSnapshot, OperatorHasTarget
<1>3. CASE Land
  <2>1. PICK st \in inflight : Effect(st) /\ inflight' = inflight \ {st}
    BY <1>3 DEF Land
  <2>2. st \in Statements BY DEF TypeInv, TypeOK
  <2>3. WarehouseType'
    BY <2>1, <2>2, EffectType DEF TypeInv, TypeOK, WarehouseType
  <2> QED BY <1>3, <2>3, TypeParts, TypePartsNext
          DEF Land, jobVars, runVars, sweepVars, opVars, StagingType, RunType,
              RunHasSnapshot, SweepType, OperatorType, OperatorHasTarget
<1>4. CASE StartRun
  <2>1. RunType'
    BY <1>4, TypeParts DEF StartRun, Launch, RunType, RunHasSnapshot, JobSteps
  <2> QED BY <1>4, <2>1, TypeParts, TypePartsNext
          DEF StartRun, warehouseVars, sweepVars, opVars, WarehouseType, StagingType,
              SweepType, OperatorType, OperatorHasTarget
<1>5. CASE JobStep
  BY <1>5, PersistType, VsUpsertType, SmokeType, PromoteType, SweepStepType,
     SweepDeactivateType, SweepStagingType, CrashTaskType DEF JobStep
<1>6. CASE \E o \in Operators : OperatorStep(o)
  BY <1>6, OperatorStepType
<1> QED BY <1>1, <1>2, <1>3, <1>4, <1>5, <1>6 DEF Next

\* The types are right in every behaviour, whatever the constants.
THEOREM TypeCorrect == Spec => []TypeOK
<1>1. Spec => []TypeInv
  BY InitType, TypeStep, PTL DEF Spec
<1>2. TypeInv => TypeOK
  BY DEF TypeInv
<1> QED BY <1>1, <1>2, PTL

-----------------------------------------------------------------------------
(* The inductive invariant behind the safety theorems. *)

\* Somebody names the snapshot as one to serve, or already holds it listed.
Published(s) ==
    \/ active = s
    \/ AlreadyPromoted(s)
    \/ \E st \in inflight : st.snap = s
    \/ \E o \in Operators : opPc[o] = "point" /\ opTarget[o] = s
    \/ pc \in {"promote_point", "promote_stamp", "promote_emit"} /\ runSnap = s
    \/ s \in sweepTodo

\* All its rows are in Delta and its staged results pass the gates.
Complete(s) == /\ persisted[s] = "full"
               /\ staged[s] # NoResults => GatesPass(s)

Building == pc \in {"persist", "vs_upsert", "smoke"}
Promoting == pc \in {"promote", "promote_point", "promote_stamp", "promote_emit"}

PublishedComplete == \A s \in Snapshots : Published(s) => Complete(s)
PersistTruthful ==
    /\ \A s \in Snapshots : staged[s].persist = "ok" => persisted[s] = "full"
    /\ pc = "persist" => staged[runSnap].persist = "none"
    /\ pc \in {"vs_upsert", "smoke"} \/ Promoting => staged[runSnap].persist # "none"
BuildingUnpublished == Building => ~Published(runSnap)

StampsFollowPointer ==
    /\ StampedWasActive
    /\ \A st \in inflight : st.op = "stamp" => st.snap \in everActive
    /\ pc \in {"promote_stamp", "promote_emit"} => runSnap \in everActive

StampPending(s) == \E st \in inflight : st.op = "stamp" /\ st.snap = s
OneStamp ==
    /\ \A s \in Snapshots : StampPending(s) => ~AlreadyPromoted(s)
    /\ \A st, st2 \in inflight :
         st.op = "stamp" /\ st2.op = "stamp" /\ st.snap = st2.snap => st = st2
    /\ Promoting => ~StampPending(runSnap)
    /\ pc \in {"promote_point", "promote_stamp"} => ~AlreadyPromoted(runSnap)

\* Promoted long enough ago for retention to take it.
Old(s) == AlreadyPromoted(s) /\ ledger[s].promotedAt + RetentionWindow < clock
OnlyOldDeactivated ==
    /\ \A s \in Snapshots : ledger[s].deactivatedAt # Null => Old(s)
    /\ \A st \in inflight : st.op = "deactivate" => Old(st.snap)
    /\ \A s \in sweepTodo : Old(s)
    /\ now <= clock

IInv == /\ TypeInv
        /\ PublishedComplete /\ PersistTruthful /\ BuildingUnpublished
        /\ StampsFollowPointer /\ OneStamp /\ OnlyOldDeactivated

LEMMA IInvInit == Init => IInv
<1> SUFFICES ASSUME Init PROVE IInv
  OBVIOUS
<1>1. TypeInv BY InitType
<1>2. \A s \in Snapshots : ~Published(s) /\ ~AlreadyPromoted(s)
  BY SnapshotAssumption DEF Init, Published, AlreadyPromoted, NoRow
<1>3. PublishedComplete /\ StampsFollowPointer /\ OneStamp
  BY <1>2 DEF Init, PublishedComplete, StampsFollowPointer, StampedWasActive,
              OneStamp, Promoting, StampPending
<1>4. PersistTruthful /\ BuildingUnpublished
  BY DEF Init, PersistTruthful, BuildingUnpublished, Building, Promoting, NoResults
<1>5. OnlyOldDeactivated
  BY DEF Init, OnlyOldDeactivated, NoRow
<1> QED BY <1>1, <1>3, <1>4, <1>5 DEF IInv

-----------------------------------------------------------------------------
(* What a step can do to each part of the state.  The preservation proofs go *)
(* by these facts instead of by the sixteen actions.                         *)

\* The step sends a statement.
Sends(st) ==
    \/ PromotePoint /\ st = Point(runSnap, now)
    \/ PromoteStamp /\ st = Stamp(runSnap, now)
    \/ SweepDeactivate /\ \E s \in sweepTodo : st = Deactivate(s, now)
    \/ \E o \in Operators : RollbackPoint(o) /\ st = Point(opTarget[o], opNow[o])

\* The job's own moves that matter below; everything else leaves the run where
\* it is, restarts its task or ends it.
LEMMA CrashMoves ==
  ASSUME TypeInv, CrashTask
  PROVE  \/ pc' = "idle" /\ sweepTodo' = {} /\ now' = 0
         \/ /\ pc' = TaskOf(pc) /\ now' = clock /\ clock' = clock
            /\ UNCHANGED <<runVars, sweepVars>>
BY DEF CrashTask, Restart, EndRun

LEMMA TaskOfValues ==
  ASSUME pc \in JobSteps
  PROVE  /\ TaskOf(pc) \in {"persist", "vs_upsert", "smoke", "promote", "retention"}
         /\ TaskOf(pc) = "persist" <=> pc = "persist"
         /\ TaskOf(pc) \in {"persist", "vs_upsert", "smoke"} <=> Building
         /\ TaskOf(pc) = "promote" <=> Promoting
BY DEF TaskOf, JobSteps, Building, Promoting

LEMMA WarehouseSteps ==
  ASSUME TypeInv, [Next]_vars
  PROVE  \/ UNCHANGED warehouseVars
         \/ pc = "persist" /\ \E full \in BOOLEAN : PersistRows(full)
         \/ \E st \in Statements : Sends(st) /\ (Succeeds(st) \/ Raises(st))
         \/ \E st \in inflight : Effect(st) /\ inflight' = inflight \ {st}
<1>0. /\ pc # "idle" => runSnap \in Snapshots
      /\ now \in Nat /\ sweepTodo \subseteq Snapshots
      /\ \A o \in Operators : opPc[o] # "idle" => opTarget[o] \in Snapshots /\ opNow[o] \in Nat
  BY DEF TypeInv, TypeOK, RunHasSnapshot, OperatorHasTarget
<1>1. CASE UNCHANGED vars BY <1>1 DEF vars
<1>2. CASE Tick \/ StartRun \/ VsUpsert \/ Smoke \/ PromoteGates \/ PromoteEmit
             \/ RetentionReadActive \/ SweepList \/ SweepDeactivated \/ SweepStaging
  BY <1>2 DEF Tick, StartRun, VsUpsert, Smoke, PromoteGates, PromoteEmit,
              RetentionReadActive, SweepList, SweepDeactivated, SweepStaging
<1>3. CASE Persist BY <1>3 DEF Persist
<1>4. CASE CrashTask BY <1>4 DEF CrashTask
<1>5. CASE Land BY <1>5 DEF Land
<1>6. CASE PromotePoint
  BY <1>6, <1>0, StatementTypes DEF PromotePoint, Sends
<1>7. CASE PromoteStamp
  BY <1>7, <1>0, StatementTypes DEF PromoteStamp, Sends
<1>8. CASE SweepDeactivate
  BY <1>8, <1>0, StatementTypes DEF SweepDeactivate, Sends
<1>9. CASE \E o \in Operators : OperatorStep(o)
  <2>1. PICK o \in Operators : OperatorStep(o) BY <1>9
  <2>2. CASE RollbackBegin(o) \/ RollbackCheck(o)
    BY <2>2 DEF RollbackBegin, RollbackCheck
  <2>3. CASE RollbackPoint(o)
    BY <2>3, <1>0, StatementTypes DEF RollbackPoint, Sends
  <2> QED BY <2>1, <2>2, <2>3 DEF OperatorStep
<1> QED BY <1>1, <1>2, <1>3, <1>4, <1>5, <1>6, <1>7, <1>8, <1>9 DEF Next, JobStep

\* The warehouse runs a statement of this kind about s, just sent or lingering.
Runs(op, s) ==
    \E st \in Statements :
        /\ st.op = op /\ st.snap = s
        /\ Sends(st) \/ (st \in inflight /\ inflight' = inflight \ {st})
        /\ inflight' \subseteq inflight

\* A row changes because its run rewrites it, or by a statement about it.
LEMMA LedgerSteps ==
  ASSUME TypeInv, [Next]_vars, NEW s \in Snapshots
  PROVE  \/ ledger'[s] = ledger[s]
         \/ /\ pc = "persist" /\ s = runSnap
            /\ ledger'[s] \in {NoRow, FreshRow}
         \/ Runs("stamp", s) /\ \E t \in Nat : ledger'[s] = [ledger[s] EXCEPT !.promotedAt = t]
         \/ Runs("deactivate", s) /\ \E t \in Nat : ledger'[s] = [ledger[s] EXCEPT !.deactivatedAt = t]
<1>0. ledger \in [Snapshots -> LedgerRow] /\ inflight \subseteq Statements
      /\ (pc = "persist" => runSnap \in Snapshots)
  BY DEF TypeInv, TypeOK, RunHasSnapshot
<1>1. CASE UNCHANGED warehouseVars BY <1>1 DEF warehouseVars
<1>2. CASE pc = "persist" /\ \E full \in BOOLEAN : PersistRows(full)
  BY <1>2, <1>0 DEF PersistRows
<1>3. ASSUME NEW st \in Statements, Effect(st)
      PROVE  \/ ledger'[s] = ledger[s]
             \/ /\ st.op = "stamp" /\ st.snap = s /\ st.at \in Nat
                /\ ledger'[s] = [ledger[s] EXCEPT !.promotedAt = st.at]
             \/ /\ st.op = "deactivate" /\ st.snap = s /\ st.at \in Nat
                /\ ledger'[s] = [ledger[s] EXCEPT !.deactivatedAt = st.at]
  BY <1>0, <1>3 DEF Effect, Statements
<1>4. CASE \E st \in Statements : Sends(st) /\ (Succeeds(st) \/ Raises(st))
  BY <1>3, <1>4 DEF Succeeds, Raises, Runs
<1>5. CASE \E st \in inflight : Effect(st) /\ inflight' = inflight \ {st}
  BY <1>0, <1>3, <1>5 DEF Runs
<1> QED BY <1>1, <1>2, <1>4, <1>5, WarehouseSteps

\* The same, in terms of the two timestamps.
LEMMA RowSteps ==
  ASSUME TypeInv, [Next]_vars, NEW s \in Snapshots, ~(pc = "persist" /\ s = runSnap)
  PROVE  /\ ledger'[s].present = ledger[s].present
         /\ \/ ledger'[s].promotedAt = ledger[s].promotedAt
            \/ Runs("stamp", s) /\ ledger'[s].promotedAt \in Nat
         /\ \/ ledger'[s].deactivatedAt = ledger[s].deactivatedAt
            \/ Runs("deactivate", s) /\ ledger'[s].promotedAt = ledger[s].promotedAt
<1>0. ledger[s] \in LedgerRow BY DEF TypeInv, TypeOK
<1>1. CASE ledger'[s] = ledger[s] BY <1>1
<1>2. ASSUME NEW t \in Nat, ledger'[s] = [ledger[s] EXCEPT !.promotedAt = t]
      PROVE  /\ ledger'[s].present = ledger[s].present /\ ledger'[s].promotedAt = t
             /\ ledger'[s].deactivatedAt = ledger[s].deactivatedAt
  BY <1>0, <1>2 DEF LedgerRow
<1>3. ASSUME NEW t \in Nat, ledger'[s] = [ledger[s] EXCEPT !.deactivatedAt = t]
      PROVE  /\ ledger'[s].present = ledger[s].present
             /\ ledger'[s].promotedAt = ledger[s].promotedAt
  BY <1>0, <1>3 DEF LedgerRow
<1> QED BY <1>1, <1>2, <1>3, LedgerSteps

LEMMA PromotedSteps ==
  ASSUME TypeInv, [Next]_vars, NEW s \in Snapshots, AlreadyPromoted(s)'
  PROVE  AlreadyPromoted(s) \/ Runs("stamp", s)
<1>1. CASE pc = "persist" /\ s = runSnap
  <2>1. CASE ledger'[s] \in {NoRow, FreshRow}
    BY <2>1 DEF AlreadyPromoted, NoRow, FreshRow
  <2>2. CASE ledger'[s] = ledger[s] BY <2>2 DEF AlreadyPromoted
  <2>3. CASE Runs("deactivate", s) /\ \E t \in Nat : ledger'[s] = [ledger[s] EXCEPT !.deactivatedAt = t]
    <3>1. ledger[s] \in LedgerRow BY DEF TypeInv, TypeOK
    <3> QED BY <2>3, <3>1 DEF AlreadyPromoted, LedgerRow
  <2> QED BY <2>1, <2>2, <2>3, LedgerSteps
<1>2. CASE ~(pc = "persist" /\ s = runSnap)
  BY <1>2, RowSteps DEF AlreadyPromoted
<1> QED BY <1>1, <1>2

LEMMA PointerSteps ==
  ASSUME TypeInv, [Next]_vars
  PROVE  /\ \/ active' = active
            \/ \E st \in Statements :
                 /\ st.op = "point" /\ active' = st.snap
                 /\ Sends(st) \/ st \in inflight
         /\ everActive \subseteq everActive'
         /\ \A st \in inflight' : st \in inflight \/ (Sends(st) /\ ledger' = ledger)
<1>0. inflight \subseteq Statements BY DEF TypeInv, TypeOK
<1>1. CASE UNCHANGED warehouseVars BY <1>1 DEF warehouseVars
<1>2. CASE pc = "persist" /\ \E full \in BOOLEAN : PersistRows(full)
  BY <1>2 DEF PersistRows
<1>4. CASE \E st \in Statements : Sends(st) /\ (Succeeds(st) \/ Raises(st))
  BY <1>4 DEF Succeeds, Raises, Effect
<1>5. CASE \E st \in inflight : Effect(st) /\ inflight' = inflight \ {st}
  BY <1>0, <1>5 DEF Effect
<1> QED BY <1>1, <1>2, <1>4, <1>5, WarehouseSteps

\* Where the run can come from, stage by stage.
LEMMA RunMoves ==
  ASSUME TypeInv, [Next]_vars
  PROVE  /\ Building' => (Building /\ runSnap' = runSnap) \/ StartRun
         /\ pc' = "persist" => (pc = "persist" /\ runSnap' = runSnap) \/ StartRun
         /\ pc' \in {"vs_upsert", "smoke"} =>
              (pc \in {"vs_upsert", "smoke"} \/ Persist) /\ runSnap' = runSnap
         /\ Promoting' => (Promoting \/ pc = "smoke") /\ runSnap' = runSnap
         /\ pc' = "promote_point" =>
              \/ pc = "promote_point" /\ runSnap' = runSnap
              \/ PromoteGates /\ MayPromote(runSnap) /\ runSnap' = runSnap
         /\ pc' = "promote_stamp" =>
              \/ pc = "promote_stamp" /\ runSnap' = runSnap
              \/ PromotePoint /\ Succeeds(Point(runSnap, now)) /\ runSnap' = runSnap
         /\ pc' = "promote_emit" =>
              \/ pc = "promote_emit" /\ runSnap' = runSnap
              \/ pc = "promote_stamp" /\ runSnap' = runSnap
         /\ now' = now \/ now' = clock \/ now' = 0
         /\ clock' = clock \/ clock' = clock + 1
<1> USE DEF Building, Promoting
<1>1. CASE UNCHANGED vars
  BY <1>1 DEF vars, jobVars, runVars
<1>2. CASE Tick BY <1>2 DEF Tick, jobVars, runVars
<1>3. CASE Land BY <1>3 DEF Land, jobVars, runVars
<1>4. CASE StartRun BY <1>4 DEF StartRun, Launch
<1>5. CASE Persist \/ VsUpsert \/ Smoke
  BY <1>5 DEF Persist, VsUpsert, Smoke, Launch, runVars
<1>6. CASE PromoteGates
  BY <1>6 DEF PromoteGates, ReportPromote, Launch, Continue, runVars
<1>7. CASE PromotePoint
  BY <1>7 DEF PromotePoint, ReportPromote, Launch, Continue, runVars
<1>8. CASE PromoteStamp \/ PromoteEmit
  BY <1>8 DEF PromoteStamp, PromoteEmit, ReportPromote, Launch, Continue, runVars
<1>9. CASE RetentionReadActive \/ SweepList \/ SweepDeactivated
  BY <1>9 DEF RetentionReadActive, SweepList, SweepDeactivated, Continue, runVars
<1>10. CASE SweepDeactivate
  BY <1>10 DEF SweepDeactivate, jobVars, runVars
<1>11. CASE SweepStaging
  BY <1>11 DEF SweepStaging, EndRun
<1>12. CASE CrashTask
  <2>1. pc \in JobSteps BY <1>12 DEF CrashTask
  <2>2. clock' = clock BY <1>12 DEF CrashTask
  <2> QED BY <1>12, <2>1, <2>2, CrashMoves, TaskOfValues DEF runVars
<1>13. CASE \E o \in Operators : OperatorStep(o)
  BY <1>13 DEF OperatorStep, RollbackBegin, RollbackCheck, RollbackPoint, jobVars, runVars
<1> QED BY <1>1, <1>2, <1>3, <1>4, <1>5, <1>6, <1>7, <1>8, <1>9, <1>10, <1>11, <1>12,
           <1>13 DEF Next, JobStep

\* Who may be at the MERGE of a rollback, and what a sweep may have listed.
LEMMA ListMoves ==
  ASSUME TypeInv, [Next]_vars
  PROVE  /\ \A o \in Operators : opPc'[o] = "point" =>
              /\ opTarget'[o] = opTarget[o]
              /\ opPc[o] = "point" \/ Live(opTarget[o])
         /\ \A s \in sweepTodo' :
              \/ s \in sweepTodo
              \/ Eligible(s, sweepActive, now) /\ UNCHANGED <<clock, warehouseVars>>
<1>1. CASE UNCHANGED vars \/ Tick \/ Land \/ StartRun \/ Persist \/ VsUpsert \/ Smoke
             \/ PromoteGates \/ PromotePoint \/ PromoteStamp \/ PromoteEmit
             \/ SweepDeactivated
  BY <1>1 DEF vars, Tick, Land, StartRun, Persist, VsUpsert, Smoke, PromoteGates,
              PromotePoint, PromoteStamp, PromoteEmit, SweepDeactivated,
              opVars, sweepVars
<1>2. CASE RetentionReadActive \/ SweepList \/ SweepDeactivate \/ SweepStaging
  BY <1>2 DEF RetentionReadActive, SweepList, SweepDeactivate, SweepStaging, EndRun,
              opVars
<1>3. CASE CrashTask
  <2>1. UNCHANGED opVars BY <1>3 DEF CrashTask
  <2> QED BY <1>3, <2>1, CrashMoves DEF opVars, sweepVars
<1>4. CASE \E o \in Operators : OperatorStep(o)
  <2>0. UNCHANGED sweepVars
    BY <1>4 DEF OperatorStep, RollbackBegin, RollbackCheck, RollbackPoint
  <2>1. PICK o \in Operators : OperatorStep(o) BY <1>4
  <2>2. ASSUME NEW q \in Operators, opPc'[q] = "point"
        PROVE  /\ opTarget'[q] = opTarget[q]
               /\ opPc[q] = "point" \/ Live(opTarget[q])
    BY <2>1, <2>2 DEF OperatorStep, RollbackBegin, RollbackCheck, RollbackPoint, Exits,
         RollbackAllowed, TypeInv, TypeOK
  <2> QED BY <2>0, <2>2 DEF sweepVars
<1> QED BY <1>1, <1>2, <1>3, <1>4 DEF Next, JobStep

\* What tasks leave behind changes for the snapshot being built; later the
\* promote task reports and retention clears.
LEMMA StagingMoves ==
  ASSUME TypeInv, [Next]_vars, NEW s \in Snapshots
  PROVE  \/ persisted'[s] = persisted[s] /\ staged'[s] = staged[s]
         \/ /\ Persist /\ s = runSnap
            /\ staged'[s].persist # "none"
            /\ staged'[s].persist = "ok" => persisted'[s] = "full"
         \/ /\ pc = "persist" /\ s = runSnap /\ staged'[s] = staged[s]
         \/ /\ pc \in {"vs_upsert", "smoke"} /\ s = runSnap
            /\ persisted'[s] = persisted[s] /\ staged'[s].persist = staged[s].persist
         \/ /\ Promoting /\ s = runSnap /\ persisted'[s] = persisted[s]
            /\ \E r : staged'[s] = [staged[s] EXCEPT !.promote = r]
         \/ pc' = "idle" /\ persisted'[s] = persisted[s] /\ staged'[s] = NoResults
<1>0. /\ pc # "idle" => runSnap \in Snapshots
      /\ staged \in [Snapshots -> Results]
      /\ persisted \in [Snapshots -> {"none", "partial", "full"}]
  BY DEF TypeInv, TypeOK, RunHasSnapshot
<1>1. CASE UNCHANGED <<persisted, staged>>
  BY <1>1
<1>2. CASE Persist
  <2>1. PICK full \in BOOLEAN :
          /\ PersistRows(full)
          /\ staged' = [staged EXCEPT ![runSnap].persist =
                          IF full THEN "ok" ELSE "errors"]
    BY <1>2 DEF Persist
  <2>2. persisted' = [persisted EXCEPT ![runSnap] = IF full THEN "full" ELSE "partial"]
    BY <2>1 DEF PersistRows
  <2>3. CASE s = runSnap
    BY <1>0, <1>2, <2>1, <2>2, <2>3 DEF Results
  <2>4. CASE s # runSnap
    BY <1>0, <2>1, <2>2, <2>4
  <2> QED BY <2>3, <2>4
<1>3. CASE VsUpsert
  BY <1>0, <1>3 DEF VsUpsert, Results
<1>4. CASE Smoke
  BY <1>0, <1>4 DEF Smoke, Results
<1>5. CASE \E r : ReportPromote(r) /\ UNCHANGED persisted /\ Promoting
  <2>1. PICK r : ReportPromote(r) /\ UNCHANGED persisted /\ Promoting
    BY <1>5
  <2>2. staged' = [staged EXCEPT ![runSnap].promote = r] BY <2>1 DEF ReportPromote
  <2>3. CASE s = runSnap
    <3>1. staged'[s] = [staged[s] EXCEPT !.promote = r] BY <1>0, <2>2, <2>3
    <3> QED BY <3>1, <2>1, <2>3
  <2>4. CASE s # runSnap
    BY <1>0, <2>1, <2>2, <2>4
  <2> QED BY <2>3, <2>4
<1>6. CASE PromoteGates \/ PromotePoint \/ PromoteStamp \/ PromoteEmit
  BY <1>1, <1>5, <1>6 DEF PromoteGates, PromotePoint, PromoteStamp, PromoteEmit, Promoting
<1>7. CASE SweepStaging
  BY <1>7 DEF SweepStaging, EndRun
<1>8. CASE CrashTask
  BY <1>0, <1>8 DEF CrashTask, PersistRows
<1>9. CASE UNCHANGED vars \/ Tick \/ Land \/ StartRun \/ RetentionReadActive \/ SweepList
             \/ SweepDeactivate \/ SweepDeactivated
  BY <1>1, <1>9 DEF vars, jobVars, Tick, Land, StartRun, RetentionReadActive, SweepList,
              SweepDeactivate, SweepDeactivated
<1>10. CASE \E o \in Operators : OperatorStep(o)
  BY <1>1, <1>10 DEF OperatorStep, RollbackBegin, RollbackCheck, RollbackPoint, jobVars
<1> QED BY <1>2, <1>3, <1>4, <1>6, <1>7, <1>8, <1>9, <1>10 DEF Next, JobStep

-----------------------------------------------------------------------------
(* The invariant is preserved, part by part. *)

\* Stamps are sent by the promote task for its own snapshot, and a promotion
\* still under way afterwards means the warehouse answered.
LEMMA StampSends ==
  ASSUME NEW st, Sends(st), st.op = "stamp"
  PROVE  /\ PromoteStamp /\ pc = "promote_stamp" /\ st = Stamp(runSnap, now)
         /\ st.snap = runSnap
         /\ pc' \in {"promote_emit", "retention"}
         /\ Promoting' => inflight' = inflight
BY DEF Sends, Point, Deactivate, Stamp, PromoteStamp, Continue, ReportPromote, Launch,
       Promoting, Succeeds

LEMMA DeactivateSends ==
  ASSUME NEW st, Sends(st), st.op = "deactivate"
  PROVE  st.snap \in sweepTodo
BY DEF Sends, Point, Deactivate, Stamp

LEMMA PointSends ==
  ASSUME NEW st, Sends(st), st.op = "point"
  PROVE  \/ pc = "promote_point" /\ st.snap = runSnap
         \/ \E o \in Operators : opPc[o] = "point" /\ st.snap = opTarget[o]
<1>1. CASE PromotePoint /\ st = Point(runSnap, now)
  BY <1>1 DEF PromotePoint, Point
<1>2. CASE \E o \in Operators : RollbackPoint(o) /\ st = Point(opTarget[o], opNow[o])
  BY <1>2 DEF RollbackPoint, Point
<1>3. CASE PromoteStamp /\ st = Stamp(runSnap, now)
  BY <1>3 DEF Stamp
<1>4. CASE SweepDeactivate /\ \E s \in sweepTodo : st = Deactivate(s, now)
  BY <1>4 DEF Deactivate
<1> QED BY <1>1, <1>2, <1>3, <1>4 DEF Sends

LEMMA FollowStep == IInv /\ [Next]_vars => StampsFollowPointer'
<1> SUFFICES ASSUME IInv, [Next]_vars PROVE StampsFollowPointer'
  OBVIOUS
<1> USE DEF IInv, StampsFollowPointer
<1>0. ledger \in [Snapshots -> LedgerRow] /\ inflight \subseteq Statements
  BY DEF TypeInv, TypeOK
<1>1. ASSUME NEW s \in Snapshots, AlreadyPromoted(s)' PROVE s \in everActive'
  <2>1. CASE AlreadyPromoted(s)
    BY <2>1, PointerSteps DEF StampedWasActive
  <2>2. CASE Runs("stamp", s)
    BY <2>2, StampSends, PointerSteps DEF Runs
  <2> QED BY <1>1, <2>1, <2>2, PromotedSteps
<1>2. ASSUME NEW st \in inflight', st.op = "stamp" PROVE st.snap \in everActive'
  BY <1>2, PointerSteps, StampSends
<1>3. ASSUME pc' \in {"promote_stamp", "promote_emit"} PROVE runSnap' \in everActive'
  <2>1. CASE pc \in {"promote_stamp", "promote_emit"} /\ runSnap' = runSnap
    BY <2>1, PointerSteps
  <2>2. CASE Succeeds(Point(runSnap, now)) /\ runSnap' = runSnap
    BY <2>2 DEF Succeeds, Effect, Point
  <2> QED BY <1>3, <2>1, <2>2, RunMoves
<1> QED BY <1>1, <1>2, <1>3 DEF StampedWasActive

LEMMA OneStampStep == IInv /\ [Next]_vars => OneStamp'
<1> SUFFICES ASSUME IInv, [Next]_vars PROVE OneStamp'
  OBVIOUS
<1> USE DEF IInv, OneStamp
<1>0. /\ ledger \in [Snapshots -> LedgerRow] /\ inflight \subseteq Statements
      /\ \A st \in Statements : st.snap \in Snapshots
      /\ pc # "idle" => runSnap \in Snapshots
  BY DEF TypeInv, TypeOK, RunHasSnapshot, Statements
<1>1. \A st \in inflight' : st.op = "stamp" =>
        \/ st \in inflight
        \/ pc = "promote_stamp" /\ st = Stamp(runSnap, now) /\ ledger' = ledger /\ st.snap = runSnap
           /\ (Promoting' => inflight' = inflight)
  BY PointerSteps, StampSends
<1>2. \A s \in Snapshots :
        AlreadyPromoted(s)' =>
          \/ AlreadyPromoted(s)
          \/ pc = "promote_stamp" /\ s = runSnap /\ pc' \in {"promote_emit", "retention"} /\ inflight' \subseteq inflight
          \/ \E st \in inflight : st.op = "stamp" /\ st.snap = s /\ inflight' = inflight \ {st}
  <2> SUFFICES ASSUME NEW s \in Snapshots, AlreadyPromoted(s)', ~AlreadyPromoted(s)
               PROVE  \/ /\ pc = "promote_stamp" /\ s = runSnap
                         /\ pc' \in {"promote_emit", "retention"} /\ inflight' \subseteq inflight
                      \/ \E st \in inflight :
                           st.op = "stamp" /\ st.snap = s /\ inflight' = inflight \ {st}
    OBVIOUS
  <2>1. Runs("stamp", s) BY PromotedSteps
  <2> QED BY <2>1, StampSends DEF Runs
<1>3. ASSUME NEW s \in Snapshots, StampPending(s)' PROVE ~AlreadyPromoted(s)'
  <2>1. PICK st \in inflight' : st.op = "stamp" /\ st.snap = s
    BY <1>3 DEF StampPending
  <2>2. CASE st \in inflight
    <3>1. ~AlreadyPromoted(s) BY <2>1, <2>2 DEF StampPending
    <3>2. ~(pc = "promote_stamp" /\ s = runSnap)
      BY <2>1, <2>2 DEF StampPending, Promoting
    <3> QED BY <1>2, <2>1, <2>2, <3>1, <3>2
  <2>3. CASE pc = "promote_stamp" /\ ledger' = ledger /\ st.snap = runSnap
    BY <2>1, <2>3 DEF AlreadyPromoted
  <2> QED BY <1>1, <2>1, <2>2, <2>3
<1>4. ASSUME NEW st \in inflight', NEW st2 \in inflight',
             st.op = "stamp", st2.op = "stamp", st.snap = st2.snap
      PROVE  st = st2
  <2>1. CASE st \in inflight /\ st2 \in inflight BY <1>4, <2>1
  <2>2. CASE pc = "promote_stamp"
    <3>1. \A x \in inflight : x.op = "stamp" => x.snap # runSnap
      BY <2>2 DEF StampPending, Promoting
    <3> QED BY <1>1, <1>4, <2>1, <3>1
  <2> QED BY <1>1, <1>4, <2>1, <2>2
<1>5. ASSUME Promoting' PROVE ~StampPending(runSnap)'
  <2>1. (Promoting \/ pc = "smoke") /\ runSnap' = runSnap BY <1>5, RunMoves
  <2>2. ~StampPending(runSnap)
    BY <2>1 DEF BuildingUnpublished, Building, Published, StampPending
  <2> QED BY <1>1, <1>5, <2>1, <2>2 DEF StampPending
<1>6. ASSUME pc' \in {"promote_point", "promote_stamp"} PROVE ~AlreadyPromoted(runSnap)'
  <2>0. PromoteGates => pc = "promote" BY DEF PromoteGates
  <2>1. Promoting /\ runSnap' = runSnap /\ ~AlreadyPromoted(runSnap)
    <3>1. CASE pc \in {"promote_point", "promote_stamp"} /\ runSnap' = runSnap
      BY <3>1 DEF Promoting
    <3>2. CASE PromoteGates /\ MayPromote(runSnap) /\ runSnap' = runSnap
      BY <2>0, <3>2 DEF MayPromote, Promoting
    <3>3. CASE PromotePoint /\ runSnap' = runSnap
      BY <3>3 DEF PromotePoint, Promoting
    <3> QED BY <1>6, <3>1, <3>2, <3>3, RunMoves
  <2>2. runSnap \in Snapshots BY <2>1, <1>0 DEF Promoting
  <2>3. ~StampPending(runSnap) BY <2>1
  <2>4. ~AlreadyPromoted(runSnap)' \/ pc' \in {"promote_emit", "retention"}
    BY <1>2, <2>1, <2>2, <2>3 DEF StampPending
  <2> QED BY <1>6, <2>1, <2>4 DEF AlreadyPromoted
<1> QED BY <1>3, <1>4, <1>5, <1>6 DEF StampPending

\* What is old stays old: time only passes, and nothing stamps it again.
LEMMA OldStays ==
  ASSUME IInv, [Next]_vars, NEW s \in Snapshots, Old(s)
  PROVE  Old(s)' /\ ~(pc = "persist" /\ s = runSnap)
                 /\ ledger'[s].promotedAt = ledger[s].promotedAt
<1>0. clock \in Nat /\ RetentionWindow \in Nat /\ ledger[s] \in LedgerRow
      /\ inflight \subseteq Statements
  BY WindowAssumption DEF IInv, TypeInv, TypeOK
<1>1. AlreadyPromoted(s) BY DEF Old
<1>2. ~(pc = "persist" /\ s = runSnap)
  BY <1>1 DEF IInv, BuildingUnpublished, Building, Published
<1>3. ~Runs("stamp", s)
  <2>1. ~StampPending(s) BY <1>1 DEF IInv, OneStamp
  <2>2. \A st : Sends(st) /\ st.op = "stamp" => st.snap # s
    BY <1>1, StampSends DEF IInv, OneStamp
  <2> QED BY <2>1, <2>2 DEF Runs, StampPending
<1>4. /\ ledger'[s].present = ledger[s].present
      /\ ledger'[s].promotedAt = ledger[s].promotedAt
  BY <1>2, <1>3, RowSteps DEF IInv
<1>5. ledger[s].promotedAt \in Nat
  BY <1>0, <1>1 DEF AlreadyPromoted, LedgerRow, Times
<1>6. clock' = clock \/ clock' = clock + 1 BY RunMoves DEF IInv
<1> QED BY <1>0, <1>1, <1>2, <1>4, <1>5, <1>6 DEF Old, AlreadyPromoted

LEMMA OldStep == IInv /\ [Next]_vars => OnlyOldDeactivated'
<1> SUFFICES ASSUME IInv, [Next]_vars PROVE OnlyOldDeactivated'
  OBVIOUS
<1>0. /\ clock \in Nat /\ now \in Nat /\ RetentionWindow \in Nat
      /\ TypeInv /\ OnlyOldDeactivated
      /\ ledger \in [Snapshots -> LedgerRow]
      /\ sweepTodo \subseteq Snapshots /\ inflight \subseteq Statements
      /\ \A st \in Statements : st.snap \in Snapshots
  BY WindowAssumption DEF IInv, TypeInv, TypeOK, Statements
<1>1. now' <= clock' /\ clock <= clock'
  BY <1>0, RunMoves DEF OnlyOldDeactivated
<1>2. ASSUME NEW s \in sweepTodo' PROVE Old(s)'
  <2>0. TypeInv' BY <1>0, TypeStep
  <2>1. s \in Snapshots BY <2>0 DEF TypeInv, TypeOK
  <2>2. CASE s \in sweepTodo
    BY <2>1, <2>2, <1>0, OldStays DEF OnlyOldDeactivated
  <2>3. CASE Eligible(s, sweepActive, now) /\ UNCHANGED <<clock, warehouseVars>>
    <3>1. ledger[s].promotedAt \in Nat
      BY <1>0, <2>1, <2>3 DEF Eligible, AgedOut, Live, LedgerRow, Times
    <3>2. Old(s)
      BY <1>0, <2>3, <3>1 DEF Eligible, AgedOut, Live, Old, AlreadyPromoted, OnlyOldDeactivated
    <3> QED BY <2>1, <3>2, OldStays
  <2> QED BY <1>0, <2>2, <2>3, ListMoves
<1>3. ASSUME NEW st \in inflight', st.op = "deactivate" PROVE Old(st.snap)'
  <2>1. st \in inflight \/ st.snap \in sweepTodo
    BY <1>0, <1>3, PointerSteps, DeactivateSends
  <2>2. Old(st.snap) /\ st.snap \in Snapshots
    BY <1>0, <1>3, <2>1 DEF OnlyOldDeactivated
  <2> QED BY <2>2, OldStays
<1>4. ASSUME NEW s \in Snapshots, ledger'[s].deactivatedAt # Null PROVE Old(s)'
  <2>1. CASE pc = "persist" /\ s = runSnap
    <3>1. ~Published(s) BY <2>1 DEF IInv, BuildingUnpublished, Building
    <3>2. ~Old(s) BY <3>1 DEF Old, Published
    <3>3. ledger[s].deactivatedAt = Null BY <1>0, <3>2 DEF OnlyOldDeactivated
    <3>4. ~Runs("deactivate", s) /\ ~Runs("stamp", s)
      <4>1. \A st \in inflight : st.snap # s BY <3>1 DEF Published
      <4>2. \A st : Sends(st) /\ st.op \in {"deactivate", "stamp"} => st.snap # s
        BY <2>1, <3>1, StampSends, DeactivateSends DEF Published
      <4> QED BY <4>1, <4>2 DEF Runs
    <3>5. ledger'[s] \in {ledger[s], NoRow, FreshRow}
      BY <1>0, <2>1, <3>4, LedgerSteps
    <3> QED BY <1>4, <3>3, <3>5 DEF NoRow, FreshRow
  <2>2. CASE ledger[s].deactivatedAt # Null
    BY <1>0, <2>2, OldStays DEF OnlyOldDeactivated
  <2>3. CASE Runs("deactivate", s)
    <3>1. Old(s)
      BY <1>0, <2>3, DeactivateSends DEF Runs, OnlyOldDeactivated
    <3> QED BY <3>1, OldStays
  <2> QED BY <1>0, <1>4, <2>1, <2>2, <2>3, RowSteps
<1> QED BY <1>1, <1>2, <1>3, <1>4 DEF OnlyOldDeactivated

\* A snapshot is published anew only by passing the gates.
LEMMA PublishedGrowth ==
  ASSUME TypeInv, [Next]_vars, NEW s \in Snapshots, Published(s)'
  PROVE  Published(s) \/ (PromoteGates /\ MayPromote(s) /\ s = runSnap)
<1>0. inflight \subseteq Statements BY DEF TypeInv, TypeOK
<1>1. \A st : Sends(st) /\ st.snap = s /\ st.op \in {"point", "stamp", "deactivate"} => Published(s)
  BY StampSends, PointSends, DeactivateSends DEF Published
<1>2. CASE active' = s
  BY <1>1, <1>2, PointerSteps DEF Published
<1>3. CASE AlreadyPromoted(s)'
  BY <1>1, <1>3, PromotedSteps DEF Published, Runs
<1>4. CASE \E st \in inflight' : st.snap = s
  <2>1. TypeInv' BY TypeStep
  <2>2. inflight' \subseteq Statements BY <2>1 DEF TypeInv, TypeOK
  <2> QED BY <1>1, <1>4, <2>2, PointerSteps DEF Published, Statements
<1>5. CASE \E o \in Operators : opPc'[o] = "point" /\ opTarget'[o] = s
  BY <1>5, ListMoves DEF Published, Live, AlreadyPromoted
<1>6. CASE pc' \in {"promote_point", "promote_stamp", "promote_emit"} /\ runSnap' = s
  BY <1>6, RunMoves DEF Published, PromotePoint
<1>7. CASE s \in sweepTodo'
  BY <1>7, ListMoves DEF Published, Eligible, AgedOut, Live, AlreadyPromoted
<1> QED BY <1>2, <1>3, <1>4, <1>5, <1>6, <1>7 DEF Published

\* Nothing undoes the validation of a snapshot that is not being built.
LEMMA CompleteStays ==
  ASSUME TypeInv, PersistTruthful, [Next]_vars, NEW s \in Snapshots, Complete(s),
         ~(Building /\ s = runSnap)
  PROVE  Complete(s)'
<1>0. staged[s] \in Results BY DEF TypeInv, TypeOK
<1>1. CASE persisted'[s] = persisted[s] /\ staged'[s] = staged[s]
  BY <1>1 DEF Complete, GatesPass
<1>2. CASE persisted'[s] = persisted[s] /\ staged'[s] = NoResults
  BY <1>2 DEF Complete
<1>3. CASE /\ Promoting /\ s = runSnap /\ persisted'[s] = persisted[s]
           /\ \E r : staged'[s] = [staged[s] EXCEPT !.promote = r]
  <2>1. staged[s].persist # "none"
    BY <1>3 DEF PersistTruthful
  <2>2. GatesPass(s)
    BY <2>1 DEF Complete, NoResults
  <2>3. GatesPass(s)'
    BY <1>0, <1>3, <2>2 DEF GatesPass, Results
  <2> QED BY <1>3, <2>3 DEF Complete
<1> QED BY <1>1, <1>2, <1>3, StagingMoves DEF Building, Persist

LEMMA TruthStep == IInv /\ [Next]_vars => PersistTruthful'
<1> SUFFICES ASSUME IInv, [Next]_vars PROVE PersistTruthful'
  OBVIOUS
<1>0. /\ TypeInv /\ PersistTruthful /\ staged \in [Snapshots -> Results]
      /\ \A s \in Snapshots : staged[s] \in Results
      /\ pc # "idle" => runSnap \in Snapshots
  BY DEF IInv, TypeInv, TypeOK, RunHasSnapshot
<1>1. ASSUME NEW s \in Snapshots, staged'[s].persist = "ok" PROVE persisted'[s] = "full"
  <2>1. CASE persisted'[s] = persisted[s] /\ staged'[s] = NoResults
    BY <1>1, <2>1 DEF NoResults
  <2>2. CASE pc = "persist" /\ s = runSnap /\ staged'[s] = staged[s]
    BY <1>0, <1>1, <2>2 DEF PersistTruthful
  <2>3. CASE /\ Promoting /\ s = runSnap /\ persisted'[s] = persisted[s]
             /\ \E r : staged'[s] = [staged[s] EXCEPT !.promote = r]
    BY <1>0, <1>1, <2>3 DEF PersistTruthful, Results
  <2> QED BY <1>0, <1>1, <2>1, <2>2, <2>3, StagingMoves DEF PersistTruthful
<1>2. ASSUME pc' = "persist" PROVE staged'[runSnap'].persist = "none"
  <2>1. CASE StartRun
    BY <2>1 DEF StartRun, Unused, NoResults
  <2>2. CASE pc = "persist" /\ runSnap' = runSnap
    <3>1. ~Persist BY <1>2 DEF Persist, Launch
    <3> QED BY <1>0, <1>2, <2>2, <3>1, StagingMoves DEF Promoting, PersistTruthful
  <2> QED BY <1>0, <1>2, <2>1, <2>2, RunMoves
<1>3. ASSUME pc' \in {"vs_upsert", "smoke"} \/ Promoting'
      PROVE  staged'[runSnap'].persist # "none"
  <2>1. /\ runSnap' = runSnap /\ pc' # "idle"
        /\ pc \in {"vs_upsert", "smoke"} \/ Promoting \/ Persist
    BY <1>0, <1>3, RunMoves DEF Promoting
  <2>2. runSnap \in Snapshots BY <1>0, <2>1 DEF Promoting, Persist
  <2>3. CASE Persist
    BY <1>0, <2>1, <2>2, <2>3, StagingMoves DEF Persist, Promoting, Launch, PersistRows
  <2>4. CASE ~Persist
    <3>1. staged[runSnap].persist # "none"
      BY <1>0, <2>1, <2>4 DEF PersistTruthful
    <3>2. pc # "persist"
      BY <2>1, <2>4 DEF Promoting
    <3>3. staged'[runSnap].persist = staged[runSnap].persist
      BY <1>0, <2>1, <2>2, <2>4, <3>2, StagingMoves DEF Results
    <3> QED BY <2>1, <3>1, <3>3
  <2> QED BY <2>3, <2>4
<1> QED BY <1>1, <1>2, <1>3 DEF PersistTruthful, Promoting

LEMMA PublishedStep == IInv /\ [Next]_vars => PublishedComplete' /\ BuildingUnpublished'
<1> SUFFICES ASSUME IInv, [Next]_vars PROVE PublishedComplete' /\ BuildingUnpublished'
  OBVIOUS
<1>0. TypeInv BY DEF IInv
<1>1. ASSUME NEW s \in Snapshots, Published(s)' PROVE Complete(s)'
  <2>1. CASE Published(s)
    BY <1>0, <2>1, CompleteStays DEF IInv, PublishedComplete, BuildingUnpublished
  <2>2. CASE PromoteGates /\ MayPromote(s) /\ s = runSnap
    <3>1. Complete(s) BY <2>2 DEF IInv, PersistTruthful, MayPromote, GatesPass, Complete
    <3>2. ~Building BY <2>2 DEF PromoteGates, Building
    <3> QED BY <1>0, <3>1, <3>2, CompleteStays DEF IInv
  <2> QED BY <1>0, <1>1, <2>1, <2>2, PublishedGrowth
<1>2. ASSUME Building' PROVE ~Published(runSnap)'
  <2>1. runSnap' \in Snapshots
    BY <1>0, <1>2, TypeStep DEF TypeInv, RunHasSnapshot, Building
  <2>2. ~PromoteGates
    BY <1>2 DEF PromoteGates, Building, ReportPromote, Launch, Continue
  <2>3. CASE Building /\ runSnap' = runSnap
    <3>1. ~Published(runSnap) BY <2>3 DEF IInv, BuildingUnpublished
    <3> QED BY <1>0, <2>1, <2>2, <2>3, <3>1, PublishedGrowth DEF Published, AlreadyPromoted
  <2>4. CASE StartRun
    <3>1. ~Complete(runSnap') BY <2>4 DEF StartRun, Unused, Complete
    <3>2. ~Published(runSnap') BY <2>1, <3>1 DEF IInv, PublishedComplete
    <3> QED BY <1>0, <2>1, <2>2, <3>2, PublishedGrowth DEF Published, AlreadyPromoted
  <2> QED BY <1>0, <1>2, <2>3, <2>4, RunMoves
<1> QED BY <1>1, <1>2 DEF PublishedComplete, BuildingUnpublished

LEMMA IInvStep == IInv /\ [Next]_vars => IInv'
BY TypeStep, PublishedStep, TruthStep, FollowStep, OneStampStep, OldStep DEF IInv

-----------------------------------------------------------------------------
(* The theorems. *)

LEMMA Invariance == Spec => []IInv
<1> QED BY IInvInit, IInvStep, PTL DEF Spec

\* Whoever wrote the pointer, and whenever the write landed, it names a snapshot
\* with all its rows in Delta and staged results that pass the three gates of
\* promote_snapshot.
THEOREM ActiveValidated == Spec => []ActiveWasValidated
<1>1. IInv => ActiveWasValidated
  <2> SUFFICES ASSUME IInv, active # NoSnapshot
               PROVE  persisted[active] = "full" /\ (staged[active] # NoResults => GatesPass(active))
    BY DEF ActiveWasValidated
  <2>1. active \in Snapshots BY DEF IInv, TypeInv, TypeOK
  <2>2. Complete(active) BY <2>1 DEF IInv, PublishedComplete, Published
  <2> QED BY <2>2 DEF Complete
<1> QED BY <1>1, Invariance, PTL

\* The ledger never runs ahead of the pointer: a stamped snapshot was active.
THEOREM StampedActive == Spec => []StampedWasActive
<1>1. IInv => StampedWasActive
  BY DEF IInv, StampsFollowPointer
<1> QED BY <1>1, Invariance, PTL

\* A snapshot inside the retention window is never deactivated, so a rollback
\* to it is not refused on that account.
THEOREM RollbackAvailable == Spec => []RollbackAlwaysAvailable
<1>1. IInv => RollbackAlwaysAvailable
  <2> SUFFICES ASSUME IInv, NEW s \in Snapshots, AlreadyPromoted(s),
                      clock - ledger[s].promotedAt <= RetentionWindow,
                      ledger[s].deactivatedAt # Null
               PROVE  FALSE
    BY DEF RollbackAlwaysAvailable
  <2>1. Old(s) BY DEF IInv, OnlyOldDeactivated
  <2>2. ledger[s].promotedAt \in Nat /\ clock \in Nat /\ RetentionWindow \in Nat
    BY WindowAssumption DEF AlreadyPromoted, IInv, TypeInv, TypeOK, LedgerRow, Times
  <2> QED BY <2>1, <2>2 DEF Old
<1> QED BY <1>1, Invariance, PTL

\* promoted_at_ms is written once in the life of a snapshot.
THEOREM StampOnce == Spec => StampWrittenOnce
<1>1. IInv /\ [Next]_vars =>
        [\A s \in Snapshots :
           AlreadyPromoted(s) => ledger'[s].promotedAt = ledger[s].promotedAt]_vars
  <2> SUFFICES ASSUME IInv, [Next]_vars, NEW s \in Snapshots, AlreadyPromoted(s)
               PROVE  ledger'[s].promotedAt = ledger[s].promotedAt
    OBVIOUS
  <2>1. ~(pc = "persist" /\ s = runSnap)
    BY DEF IInv, BuildingUnpublished, Building, Published
  <2>2. ~Runs("stamp", s)
    <3>1. ~StampPending(s) BY DEF IInv, OneStamp
    <3>2. \A st : Sends(st) /\ st.op = "stamp" => st.snap # s
      BY StampSends DEF IInv, OneStamp
    <3> QED BY <3>1, <3>2 DEF Runs, StampPending
  <2> QED BY <2>1, <2>2, RowSteps DEF IInv
<1> QED BY <1>1, Invariance, PTL DEF Spec, StampWrittenOnce
-----------------------------------------------------------------------------
(* What the sweep does to the snapshot that is serving.                     *)

\* The row of s is retired, or a statement that will retire it is on its way.
Retiring(s) ==
    \/ ledger[s].deactivatedAt # Null
    \/ \E st \in inflight : st.op = "deactivate" /\ st.snap = s
    \/ pc = "sweep_deactivate" /\ s \in sweepTodo

\* The pointer names s, or a statement that will name it is on its way.
Serving(s) ==
    \/ active = s
    \/ \E st \in inflight : st.op = "point" /\ st.snap = s
    \/ \E o \in Operators : opPc[o] = "point" /\ opTarget[o] = s

\* The sweep knows of everything that may come to serve: what it read as active
\* and the targets of the rollbacks it has met.
Spared ==
    /\ \A s \in Snapshots : Retiring(s) /\ Serving(s) => s \in overlapped
    /\ pc = "sweep_list" =>
         \A s \in Snapshots : Serving(s) => s \in overlapped \/ s = sweepActive
    /\ \A o \in Operators :
         opPc[o] # "idle" /\ MeetsSweep(opTarget[o]) => opTarget[o] \in overlapped
    /\ pc = "sweep_list" => sweepTodo = {}

\* How an operator's command and the sweep come to where they are.
LEMMA RaceMoves ==
  ASSUME TypeInv, [Next]_vars
  PROVE  /\ overlapped \subseteq overlapped'
         /\ \A o \in Operators : opPc'[o] # "idle" =>
              \/ opPc[o] # "idle" /\ opTarget'[o] = opTarget[o]
              \/ /\ UNCHANGED <<pc, inflight>>
                 /\ MeetsSweep(opTarget'[o]) => opTarget'[o] \in overlapped'
         /\ pc' = "sweep_list" =>
              \/ RetentionReadActive
              \/ pc = "sweep_list" /\ UNCHANGED <<sweepActive, sweepTodo>>
         /\ pc' = "sweep_deactivate" =>
              \/ SweepList
              \/ pc = "sweep_deactivate" /\ sweepTodo' \subseteq sweepTodo
<1> USE DEF TypeInv, TypeOK
<1>1. CASE UNCHANGED vars \/ Tick \/ Land
  BY <1>1 DEF vars, Tick, Land, jobVars, sweepVars, opVars
<1>2. CASE StartRun \/ Persist \/ VsUpsert \/ Smoke
  BY <1>2 DEF StartRun, Persist, VsUpsert, Smoke, Launch, opVars
<1>3. CASE PromoteGates \/ PromotePoint \/ PromoteStamp \/ PromoteEmit
  BY <1>3 DEF PromoteGates, PromotePoint, PromoteStamp, PromoteEmit, ReportPromote,
              Launch, Continue, opVars
<1>4. CASE RetentionReadActive \/ SweepList \/ SweepDeactivated
  BY <1>4 DEF RetentionReadActive, SweepList, SweepDeactivated, Continue, opVars
<1>5. CASE SweepDeactivate
  BY <1>5 DEF SweepDeactivate, jobVars, opVars
<1>6. CASE SweepStaging
  BY <1>6 DEF SweepStaging, EndRun, opVars
<1>7. CASE CrashTask
  <2>1. UNCHANGED <<opVars, overlapped>> /\ pc \in JobSteps BY <1>7 DEF CrashTask
  <2>2. pc' \notin {"sweep_list", "sweep_deactivate"}
    BY <1>7, <2>1, CrashMoves, TaskOfValues
  <2> QED BY <2>1, <2>2 DEF opVars
<1>8. ASSUME NEW o \in Operators, OperatorStep(o)
      PROVE  /\ UNCHANGED <<pc, sweepActive, sweepTodo>>
             /\ overlapped \subseteq overlapped'
             /\ \A q \in Operators : opPc'[q] # "idle" =>
                  \/ opPc[q] # "idle" /\ opTarget'[q] = opTarget[q]
                  \/ /\ UNCHANGED <<pc, inflight>>
                     /\ MeetsSweep(opTarget'[q]) => opTarget'[q] \in overlapped'
  <2>1. CASE RollbackBegin(o)
    BY <2>1 DEF RollbackBegin, warehouseVars, jobVars, sweepVars
  <2>2. CASE RollbackCheck(o)
    BY <2>2 DEF RollbackCheck, Exits, jobVars, sweepVars
  <2>3. CASE RollbackPoint(o)
    BY <2>3 DEF RollbackPoint, Exits, jobVars, sweepVars
  <2> QED BY <1>8, <2>1, <2>2, <2>3 DEF OperatorStep
<1> QED BY <1>1, <1>2, <1>3, <1>4, <1>5, <1>6, <1>7, <1>8 DEF Next, JobStep

\* An operator that is doing nothing can only begin a command.
LEMMA IdleStays ==
  ASSUME TypeInv, [Next]_vars, NEW o \in Operators, opPc[o] = "idle"
  PROVE  opPc'[o] \in {"idle", "check"}
<1> USE DEF TypeInv, TypeOK
<1>1. CASE UNCHANGED opVars BY <1>1 DEF opVars
<1>2. CASE \E q \in Operators : OperatorStep(q)
  BY <1>2 DEF OperatorStep, RollbackBegin, RollbackCheck, RollbackPoint, Exits
<1> QED BY <1>1, <1>2 DEF Next, JobStep, vars, Tick, Land, StartRun, Persist, VsUpsert,
           Smoke, PromoteGates, PromotePoint, PromoteStamp, PromoteEmit,
           RetentionReadActive, SweepList, SweepDeactivate, SweepDeactivated,
           SweepStaging, CrashTask

\* A snapshot comes to serve by the promote task or by a rollback that found it
\* live.
LEMMA ServingGrowth ==
  ASSUME TypeInv, [Next]_vars, NEW s \in Snapshots, Serving(s)'
  PROVE  \/ Serving(s)
         \/ pc = "promote_point" /\ runSnap = s
         \/ \E o \in Operators : opPc[o] # "idle" /\ opTarget[o] = s /\ Live(s)
<1>1. CASE active' = s
  BY <1>1, PointerSteps, PointSends DEF Serving
<1>2. CASE \E st \in inflight' : st.op = "point" /\ st.snap = s
  BY <1>2, PointerSteps, PointSends DEF Serving
<1>3. ASSUME NEW o \in Operators, opPc'[o] = "point", opTarget'[o] = s
      PROVE  \/ Serving(s)
             \/ opPc[o] # "idle" /\ opTarget[o] = s /\ Live(s)
  <2>1. \/ opPc[o] = "point" /\ opTarget[o] = s
        \/ Live(s) /\ opTarget[o] = s
    BY <1>3, ListMoves
  <2>2. CASE opPc[o] = "point" /\ opTarget[o] = s
    BY <2>2 DEF Serving
  <2>3. CASE opPc[o] = "idle"
    BY <1>3, <2>3, IdleStays
  <2> QED BY <2>1, <2>2, <2>3
<1> QED BY <1>1, <1>2, <1>3 DEF Serving

\* A snapshot comes to be retired when a sweep lists it.
LEMMA RetiringGrowth ==
  ASSUME TypeInv, [Next]_vars, NEW s \in Snapshots, Retiring(s)'
  PROVE  \/ Retiring(s)
         \/ SweepList /\ s \in sweepTodo'
<1>0. ledger[s] \in LedgerRow /\ inflight \subseteq Statements
  BY DEF TypeInv, TypeOK
<1>1. \A st : Sends(st) /\ st.op = "deactivate" =>
        pc = "sweep_deactivate" /\ st.snap \in sweepTodo
  BY DEF Sends, Point, Deactivate, Stamp, SweepDeactivate
<1>2. CASE ledger'[s].deactivatedAt # Null
  <2>1. CASE ledger'[s] = ledger[s] BY <1>2, <2>1 DEF Retiring
  <2>2. CASE ledger'[s] \in {NoRow, FreshRow} BY <1>2, <2>2 DEF NoRow, FreshRow
  <2>3. CASE \E t \in Nat : ledger'[s] = [ledger[s] EXCEPT !.promotedAt = t]
    BY <1>0, <1>2, <2>3 DEF Retiring, LedgerRow
  <2>4. CASE Runs("deactivate", s) BY <1>1, <2>4 DEF Runs, Retiring
  <2> QED BY <2>1, <2>2, <2>3, <2>4, LedgerSteps
<1>3. CASE \E st \in inflight' : st.op = "deactivate" /\ st.snap = s
  BY <1>1, <1>3, PointerSteps DEF Retiring
<1>4. CASE pc' = "sweep_deactivate" /\ s \in sweepTodo'
  BY <1>4, RaceMoves DEF Retiring
<1> QED BY <1>2, <1>3, <1>4 DEF Retiring

LEMMA SparedStep == IInv /\ Spared /\ [Next]_vars => Spared'
<1> SUFFICES ASSUME IInv, Spared, [Next]_vars PROVE Spared'
  OBVIOUS
<1>0. TypeInv /\ OnlyOldDeactivated /\ OneStamp BY DEF IInv
<1>1. ASSUME NEW s \in Snapshots, Retiring(s)', Serving(s)' PROVE s \in overlapped'
  <2>1. CASE Retiring(s) /\ Serving(s)
    BY <1>0, <2>1, RaceMoves DEF Spared
  <2>2. CASE Retiring(s) /\ pc = "promote_point" /\ runSnap = s
    <3>1. Old(s) BY <1>0, <2>2 DEF Retiring, OnlyOldDeactivated
    <3> QED BY <1>0, <2>2, <3>1 DEF Old, OneStamp
  <2>3. CASE Retiring(s) /\ \E o \in Operators : opPc[o] # "idle" /\ opTarget[o] = s /\ Live(s)
    <3>1. MeetsSweep(s) BY <2>3 DEF Retiring, Live, MeetsSweep, Sweeping
    <3> QED BY <1>0, <2>3, <3>1, RaceMoves DEF Spared
  <2>4. CASE SweepList /\ s \in sweepTodo' /\ ~Retiring(s)
    <3>1. pc = "sweep_list" /\ UNCHANGED <<warehouseVars, opVars, overlapped>>
      BY <2>4 DEF SweepList
    <3>2. s # sweepActive
      BY <2>4, <3>1 DEF SweepList, Eligible, Spared
    <3>3. Serving(s) BY <1>1, <3>1 DEF Serving, warehouseVars, opVars
    <3> QED BY <3>1, <3>2, <3>3 DEF Spared
  <2> QED BY <1>0, <1>1, <2>1, <2>2, <2>3, <2>4, RetiringGrowth, ServingGrowth
<1>2. ASSUME pc' = "sweep_list", NEW s \in Snapshots, Serving(s)'
      PROVE  s \in overlapped' \/ s = sweepActive'
  <2>1. CASE RetentionReadActive
    <3>1. Serving(s)
      BY <1>2, <2>1 DEF RetentionReadActive, Serving, warehouseVars, opVars
    <3>2. active = s => sweepActive' = s
      BY <2>1, SnapshotAssumption DEF RetentionReadActive
    <3>3. s \in RollingBack => s \in overlapped'
      BY <2>1 DEF RetentionReadActive
    <3> QED BY <3>1, <3>2, <3>3 DEF Serving, RollingBack
  <2>2. CASE pc = "sweep_list" /\ UNCHANGED sweepActive
    <3>1. MeetsSweep(s) BY <2>2 DEF MeetsSweep, Sweeping
    <3>2. CASE Serving(s) BY <1>0, <2>2, <3>2, RaceMoves DEF Spared
    <3>3. CASE \E o \in Operators : opPc[o] # "idle" /\ opTarget[o] = s
      BY <1>0, <3>1, <3>3, RaceMoves DEF Spared
    <3> QED BY <1>0, <1>2, <2>2, <3>2, <3>3, ServingGrowth
  <2> QED BY <1>0, <1>2, <2>1, <2>2, RaceMoves
<1>3. ASSUME NEW o \in Operators, opPc'[o] # "idle", MeetsSweep(opTarget[o])'
      PROVE  opTarget'[o] \in overlapped'
  <2>1. CASE opPc[o] # "idle" /\ opTarget'[o] = opTarget[o]
    <3>1. CASE MeetsSweep(opTarget[o])
      BY <1>0, <2>1, <3>1, RaceMoves DEF Spared
    <3>2. CASE RetentionReadActive
      BY <2>1, <3>2 DEF RetentionReadActive, RollingBack
    <3>3. MeetsSweep(opTarget[o]) \/ RetentionReadActive
      <4>1. CASE Sweeping'
        BY <1>0, <4>1, RaceMoves DEF MeetsSweep, Sweeping, SweepList
      <4>2. CASE \E st \in inflight' : st.op = "deactivate" /\ st.snap = opTarget'[o]
        <5>1. PICK st \in inflight' : st.op = "deactivate" /\ st.snap = opTarget'[o]
          BY <4>2
        <5>2. CASE st \in inflight BY <2>1, <5>1, <5>2 DEF MeetsSweep
        <5>3. CASE Sends(st)
          BY <5>1, <5>3 DEF Sends, Point, Deactivate, Stamp, SweepDeactivate,
                            MeetsSweep, Sweeping
        <5> QED BY <1>0, <5>2, <5>3, PointerSteps
      <4> QED BY <1>3, <4>1, <4>2 DEF MeetsSweep
    <3> QED BY <3>1, <3>2, <3>3
  <2>2. CASE /\ UNCHANGED <<pc, inflight>>
             /\ MeetsSweep(opTarget'[o]) => opTarget'[o] \in overlapped'
    BY <1>3, <2>2 DEF MeetsSweep, Sweeping
  <2> QED BY <1>0, <1>3, <2>1, <2>2, RaceMoves
<1>4. pc' = "sweep_list" => sweepTodo' = {}
  BY <1>0, RaceMoves DEF Spared, RetentionReadActive
<1> QED BY <1>1, <1>2, <1>3, <1>4 DEF Spared

\* Retention spares whatever is serving, for every pair of windows, unless a
\* rollback to it met a sweep or the statements a sweep left in the warehouse.
THEOREM ActiveSpared == Spec => []ActiveDeactivatedOnlyByOverlap
<1>1. Init => Spared
  BY SnapshotAssumption DEF Init, Spared, Retiring, Serving, NoRow
<1>2. Spec => []Spared
  BY <1>1, SparedStep, Invariance, PTL DEF Spec
<1>3. TypeInv /\ Spared => ActiveDeactivatedOnlyByOverlap
  BY DEF Spared, Retiring, Serving, ActiveDeactivatedOnlyByOverlap, TypeInv, TypeOK
<1>4. IInv => TypeInv BY DEF IInv
<1> QED BY <1>2, <1>3, <1>4, Invariance, PTL
-----------------------------------------------------------------------------
(* What a sweep leaves behind.                                              *)

\* A run crosses at most one day boundary, and whatever stamp of its still
\* lingers was sent after it started.
RunRecent ==
    pc # "idle" =>
        /\ clock <= runStart + 1 /\ runStart <= now /\ now <= clock
        /\ \A st \in inflight : st.op = "stamp" => runStart <= st.at

\* The list of the sweep under way holds everything that is still eligible.
Listed ==
    pc \in {"sweep_deactivate", "sweep_staging"} /\ ~sweepFault =>
        \A s \in Snapshots :
            Eligible(s, sweepActive, now) => pc = "sweep_deactivate" /\ s \in sweepTodo

\* The times of a run move on with the clock, which a run holds to two days.
LEMMA RunTimes ==
  ASSUME TypeInv, [Next]_vars, pc' # "idle"
  PROVE  \/ StartRun
         \/ /\ pc # "idle" /\ runStart' = runStart
            /\ \/ clock' = clock /\ now' \in {now, clock}
               \/ clock' = clock + 1 /\ clock = runStart /\ now' = now
<1> USE DEF TypeInv, TypeOK
<1>1. CASE UNCHANGED vars \/ Tick \/ Land
  BY <1>1 DEF vars, Tick, Land, jobVars, runVars
<1>2. CASE Persist \/ VsUpsert \/ Smoke
  BY <1>2 DEF Persist, VsUpsert, Smoke, Launch, runVars
<1>3. CASE PromoteGates \/ PromotePoint \/ PromoteStamp \/ PromoteEmit
  BY <1>3 DEF PromoteGates, PromotePoint, PromoteStamp, PromoteEmit, ReportPromote,
              Launch, Continue, runVars
<1>4. CASE RetentionReadActive \/ SweepList \/ SweepDeactivated
  BY <1>4 DEF RetentionReadActive, SweepList, SweepDeactivated, Continue, runVars
<1>5. CASE SweepDeactivate
  BY <1>5 DEF SweepDeactivate, jobVars, runVars
<1>6. CASE SweepStaging
  BY <1>6 DEF SweepStaging, EndRun
<1>7. CASE CrashTask
  <2>1. pc \in JobSteps BY <1>7 DEF CrashTask
  <2>2. pc # "idle" BY <2>1 DEF JobSteps
  <2> QED BY <1>7, <2>2, CrashMoves DEF runVars
<1>8. CASE \E o \in Operators : OperatorStep(o)
  BY <1>8 DEF OperatorStep, RollbackBegin, RollbackCheck, RollbackPoint, jobVars, runVars
<1> QED BY <1>1, <1>2, <1>3, <1>4, <1>5, <1>6, <1>7, <1>8 DEF Next, JobStep

LEMMA RecentStep == TypeInv /\ RunRecent /\ [Next]_vars => RunRecent'
<1> SUFFICES ASSUME TypeInv, RunRecent, [Next]_vars, pc' # "idle"
             PROVE  /\ clock' <= runStart' + 1 /\ runStart' <= now' /\ now' <= clock'
                    /\ \A st \in inflight' : st.op = "stamp" => runStart' <= st.at
  BY DEF RunRecent
<1>0. clock \in Nat /\ now \in Nat /\ runStart \in Nat BY DEF TypeInv, TypeOK
<1>1. CASE StartRun
  BY <1>0, <1>1 DEF StartRun, Launch, warehouseVars
<1>2. CASE /\ pc # "idle" /\ runStart' = runStart
           /\ \/ clock' = clock /\ now' \in {now, clock}
              \/ clock' = clock + 1 /\ clock = runStart /\ now' = now
  <2>1. clock' <= runStart' + 1 /\ runStart' <= now' /\ now' <= clock'
    BY <1>0, <1>2 DEF RunRecent
  <2>2. ASSUME NEW st \in inflight', st.op = "stamp" PROVE runStart' <= st.at
    <3>1. CASE st \in inflight BY <1>2, <2>2, <3>1 DEF RunRecent
    <3>2. CASE Sends(st)
      <4>1. st.at = now BY <2>2, <3>2, StampSends DEF Stamp
      <4> QED BY <1>2, <4>1 DEF RunRecent
    <3> QED BY <2>2, <3>1, <3>2, PointerSteps
  <2> QED BY <2>1, <2>2
<1> QED BY <1>1, <1>2, RunTimes

\* A statement makes no snapshot eligible for a sweep of the run under way: its
\* own stamp is too recent, and deactivating is the end of eligibility.
LEMMA EffectEligible ==
  ASSUME TypeInv, RunRecent, pc # "idle", NEW s \in Snapshots,
         NEW st \in Statements, Effect(st), st.op = "stamp" => runStart <= st.at,
         AgedOut(s, now)', now' = now
  PROVE  AgedOut(s, now)
<1>0. /\ ledger \in [Snapshots -> LedgerRow] /\ ledger[s] \in LedgerRow
      /\ st.at \in Nat /\ now \in Nat /\ clock \in Nat /\ runStart \in Nat
      /\ RetentionWindow \in Nat \ {0} /\ Null \notin Nat
      /\ st.op \in {"point", "stamp", "deactivate"}
  BY WindowAssumption, NullAssumption DEF TypeInv, TypeOK, Statements
<1>1. CASE ledger'[s] = ledger[s]
  BY <1>1 DEF AgedOut, Live
<1>2. CASE st.op = "stamp" /\ ledger'[s] = [ledger[s] EXCEPT !.promotedAt = st.at]
  <2>1. ledger'[s].promotedAt = st.at BY <1>0, <1>2 DEF LedgerRow
  <2>2. st.at < now - RetentionWindow BY <2>1 DEF AgedOut
  <2>3. runStart <= st.at /\ now <= runStart + 1 BY <1>0, <1>2 DEF RunRecent
  <2> QED BY <1>0, <2>2, <2>3
<1>3. CASE ledger'[s] = [ledger[s] EXCEPT !.deactivatedAt = st.at]
  <2>1. ledger'[s].deactivatedAt = st.at BY <1>0, <1>3 DEF LedgerRow
  <2> QED BY <1>0, <2>1 DEF AgedOut, Live
<1> QED BY <1>0, <1>1, <1>2, <1>3 DEF Effect

\* The sweep's own steps apart, a run that is sweeping keeps its variables.
LEMMA SweepMoves ==
  ASSUME TypeInv, [Next]_vars, pc' \in {"sweep_deactivate", "sweep_staging"}
  PROVE  \/ SweepList \/ SweepDeactivate \/ SweepDeactivated
         \/ UNCHANGED <<pc, now, sweepActive, sweepTodo, sweepFault>>
<1>1. CASE UNCHANGED vars \/ Tick \/ Land
  BY <1>1 DEF vars, Tick, Land, jobVars, sweepVars
<1>2. CASE StartRun \/ Persist \/ VsUpsert \/ Smoke
  BY <1>2 DEF StartRun, Persist, VsUpsert, Smoke, Launch
<1>3. CASE PromoteGates \/ PromotePoint \/ PromoteStamp \/ PromoteEmit
  BY <1>3 DEF PromoteGates, PromotePoint, PromoteStamp, PromoteEmit, ReportPromote,
              Launch, Continue
<1>4. CASE RetentionReadActive \/ SweepStaging
  BY <1>4 DEF RetentionReadActive, SweepStaging, EndRun, Continue
<1>5. CASE CrashTask
  <2>1. pc \in JobSteps BY <1>5 DEF CrashTask
  <2> QED BY <1>5, <2>1, CrashMoves, TaskOfValues
<1>6. CASE \E o \in Operators : OperatorStep(o)
  BY <1>6 DEF OperatorStep, RollbackBegin, RollbackCheck, RollbackPoint, jobVars, sweepVars
<1> QED BY <1>1, <1>2, <1>3, <1>4, <1>5, <1>6 DEF Next, JobStep

LEMMA ListedStep ==
  ASSUME ListedColumns \subseteq LedgerColumns, IInv, RunRecent, Listed, [Next]_vars
  PROVE  Listed'
<1> SUFFICES ASSUME pc' \in {"sweep_deactivate", "sweep_staging"}, ~sweepFault',
                    NEW s \in Snapshots, Eligible(s, sweepActive, now)'
             PROVE  pc' = "sweep_deactivate" /\ s \in sweepTodo'
  BY DEF Listed
<1>0. /\ TypeInv /\ OnlyOldDeactivated /\ inflight \subseteq Statements
      /\ sweepTodo \subseteq Snapshots /\ now \in Nat /\ sweepFault \in BOOLEAN
  BY DEF IInv, TypeInv, TypeOK
<1>1. CASE SweepList
  BY <1>1 DEF SweepList, Continue, Eligible, AgedOut, Live, warehouseVars
<1>2. CASE SweepDeactivated
  BY <1>2 DEF SweepDeactivated, Continue, Eligible, AgedOut, Live, warehouseVars,
              sweepVars, Listed
<1>3. CASE SweepDeactivate
  <2>1. PICK t \in sweepTodo : sweepTodo' = sweepTodo \ {t} /\ Succeeds(Deactivate(t, now))
    BY <1>3 DEF SweepDeactivate
  <2>2. /\ UNCHANGED <<pc, now, sweepActive>> /\ pc = "sweep_deactivate"
        /\ ~sweepFault
    BY <1>3 DEF SweepDeactivate, jobVars
  <2>3. Deactivate(t, now) \in Statements /\ Effect(Deactivate(t, now))
    BY <1>0, <2>1, StatementTypes DEF Succeeds
  <2>4. AgedOut(s, now)
    BY <1>0, <2>2, <2>3, EffectEligible DEF Eligible, Deactivate
  <2>5. s \in sweepTodo
    BY <2>2, <2>4 DEF Eligible, Listed
  <2>6. s # t
    <3>1. ledger[t].present /\ ledger \in [Snapshots -> LedgerRow]
      BY <1>0 DEF OnlyOldDeactivated, Old, AlreadyPromoted, TypeInv, TypeOK
    <3>2. ledger' = [ledger EXCEPT ![t].deactivatedAt = now]
      BY <2>3, <3>1 DEF Effect, Deactivate
    <3>3. ledger'[t].deactivatedAt = now
      BY <1>0, <3>1, <3>2 DEF LedgerRow
    <3> QED BY <1>0, <3>3, NullAssumption DEF Eligible, AgedOut, Live
  <2> QED BY <2>1, <2>2, <2>5, <2>6
<1>4. CASE UNCHANGED <<pc, now, sweepActive, sweepTodo, sweepFault>>
  <2>1. AgedOut(s, now)
    <3>1. CASE UNCHANGED warehouseVars
      BY <1>4, <3>1 DEF warehouseVars, Eligible, AgedOut, Live
    <3>2. ASSUME NEW st \in Statements, Sends(st), Succeeds(st) \/ Raises(st)
          PROVE  AgedOut(s, now)
      <4>1. st.op # "stamp"
        BY <1>4, <3>2, StampSends
      <4> QED BY <1>0, <1>4, <3>2, <4>1, EffectEligible
              DEF Succeeds, Raises, Eligible, AgedOut, Live
    <3>3. ASSUME NEW st \in inflight, Effect(st) PROVE AgedOut(s, now)
      BY <1>0, <1>4, <3>3, EffectEligible DEF RunRecent, Eligible
    <3> QED BY <1>0, <1>4, <3>1, <3>2, <3>3, WarehouseSteps
  <2> QED BY <1>4, <2>1 DEF Eligible, Listed
<1> QED BY <1>0, <1>1, <1>2, <1>3, <1>4, SweepMoves

\* A sweep whose statements all worked leaves no snapshot that is past the window
\* and was not the active one: provided the ledger has the columns its SELECT
\* names, which CORPUS_SNAPSHOTS_DDL does not give it.
THEOREM SweepThorough ==
  ListedColumns \subseteq LedgerColumns => (Spec => []SweepIsThorough)
<1> SUFFICES ASSUME ListedColumns \subseteq LedgerColumns
             PROVE  Spec => []SweepIsThorough
  OBVIOUS
<1>1. Init => RunRecent /\ Listed
  BY DEF Init, RunRecent, Listed
<1>2. IInv => TypeInv BY DEF IInv
<1>3. IInv /\ RunRecent /\ Listed /\ [Next]_vars => RunRecent' /\ Listed'
  BY <1>2, RecentStep, ListedStep
<1>4. Spec => [](RunRecent /\ Listed)
  BY <1>1, <1>3, Invariance, PTL DEF Spec
<1>5. RunRecent /\ Listed => SweepIsThorough
  BY DEF Listed, SweepIsThorough
<1> QED BY <1>4, <1>5, PTL

\* Only SweepList puts anything on the list.
LEMMA TodoMoves ==
  ASSUME TypeInv, [Next]_vars, sweepTodo = {}
  PROVE  SweepList \/ sweepTodo' = {}
<1>1. CASE UNCHANGED sweepVars BY <1>1 DEF sweepVars
<1>2. CASE RetentionReadActive \/ SweepDeactivate \/ SweepStaging
  BY <1>2 DEF RetentionReadActive, SweepDeactivate, SweepStaging, EndRun
<1>3. CASE CrashTask
  BY <1>3, CrashMoves DEF sweepVars
<1>4. CASE \E o \in Operators : OperatorStep(o)
  BY <1>1, <1>4 DEF OperatorStep, RollbackBegin, RollbackCheck, RollbackPoint
<1> QED BY <1>1, <1>2, <1>3, <1>4 DEF Next, JobStep, vars, Tick, Land, StartRun, Persist,
           VsUpsert, Smoke, PromoteGates, PromotePoint, PromoteStamp, PromoteEmit,
           SweepDeactivated

NothingRetired == \A s \in Snapshots : ledger[s].deactivatedAt = Null

\* On a ledger without one of those columns retention never retires anything,
\* however long it runs: every SELECT fails and the sweep goes on with no list.
THEOREM FailedListRetiresNothing ==
  ~(ListedColumns \subseteq LedgerColumns) => (Spec => []NothingRetired)
<1> SUFFICES ASSUME ~(ListedColumns \subseteq LedgerColumns)
             PROVE  Spec => []NothingRetired
  OBVIOUS
<1> DEFINE Idle == /\ NothingRetired /\ sweepTodo = {}
                   /\ \A st \in inflight : st.op # "deactivate"
<1>1. Init => Idle
  BY DEF Init, NothingRetired, NoRow
<1>2. TypeInv /\ Idle /\ [Next]_vars => Idle'
  <2> SUFFICES ASSUME TypeInv, Idle, [Next]_vars PROVE Idle'
    OBVIOUS
  <2>1. sweepTodo' = {}
    <3>1. ~SweepList \/ sweepTodo' = {} BY DEF SweepList
    <3> QED BY <3>1, TodoMoves
  <2>2. \A st : Sends(st) => st.op # "deactivate"
    BY DeactivateSends
  <2>3. ASSUME NEW s \in Snapshots PROVE ledger'[s].deactivatedAt = Null
    <3>0. ledger[s] \in LedgerRow BY DEF TypeInv, TypeOK
    <3>1. ~Runs("deactivate", s) BY <2>2 DEF Runs
    <3>2. CASE ledger'[s] \in {ledger[s], NoRow, FreshRow}
      BY <3>2 DEF NothingRetired, NoRow, FreshRow
    <3>3. CASE \E t \in Nat : ledger'[s] = [ledger[s] EXCEPT !.promotedAt = t]
      BY <3>0, <3>3 DEF NothingRetired, LedgerRow
    <3> QED BY <3>1, <3>2, <3>3, LedgerSteps
  <2>4. \A st \in inflight' : st.op # "deactivate"
    BY <2>2, PointerSteps
  <2> QED BY <2>1, <2>3, <2>4 DEF NothingRetired
<1>3. IInv => TypeInv BY DEF IInv
<1>4. Spec => []Idle
  BY <1>1, <1>2, <1>3, Invariance, PTL DEF Spec
<1>5. Idle => NothingRetired OBVIOUS
<1> QED BY <1>4, <1>5, PTL

-----------------------------------------------------------------------------
(* The two tables, seen without the job, the operators and the lingering    *)
(* statements, behave as the registry their readers rely on.                *)

CompleteSet == {s \in Snapshots : persisted[s] = "full"}
StampedSet == {s \in Snapshots : AlreadyPromoted(s)}
RetiredSet == {s \in Snapshots : ledger[s].deactivatedAt # Null}

\* What the pointer has ever named is complete and is not the snapshot of a run
\* that is still writing rows.  IInv knows this only of what is named now.
ServedKept ==
    /\ \A s \in everActive : persisted[s] = "full"
    /\ Building => runSnap \notin everActive

RInv == IInv /\ ServedKept

-----------------------------------------------------------------------------
(* The three ways a step can touch what the registry shows.                 *)

\* The warehouse runs a statement, just sent or lingering.
RunsStatement(st) == /\ Sends(st) \/ st \in inflight
                     /\ Effect(st)
                     /\ persisted' = persisted

LEMMA TableSteps ==
  ASSUME TypeInv, [Next]_vars
  PROVE  \/ UNCHANGED <<ledger, active, everActive, persisted>>
         \/ pc = "persist" /\ \E full \in BOOLEAN : PersistRows(full)
         \/ \E st \in Statements : RunsStatement(st)
<1>0. inflight \subseteq Statements BY DEF TypeInv, TypeOK
<1>1. CASE UNCHANGED <<warehouseVars, persisted>>
  BY <1>1 DEF warehouseVars
<1>2. CASE pc = "persist" /\ \E full \in BOOLEAN : PersistRows(full)
  BY <1>2
<1>3. CASE Land
  BY <1>0, <1>3 DEF Land, jobVars, RunsStatement
<1>4. ASSUME NEW st \in Statements, Sends(st), Succeeds(st) \/ Raises(st)
      PROVE  \/ UNCHANGED <<ledger, active, everActive, persisted>>
             \/ RunsStatement(st)
  <2>1. persisted' = persisted
    BY <1>4 DEF Sends, PromotePoint, PromoteStamp, SweepDeactivate, RollbackPoint, jobVars
  <2> QED BY <1>4, <2>1 DEF Succeeds, Raises, RunsStatement
<1>5. ASSUME PromotePoint \/ PromoteStamp \/ SweepDeactivate
               \/ \E o \in Operators : RollbackPoint(o)
      PROVE  \/ UNCHANGED <<ledger, active, everActive, persisted>>
             \/ \E st \in Statements : RunsStatement(st)
  <2>0. /\ pc # "idle" => runSnap \in Snapshots
        /\ now \in Nat /\ sweepTodo \subseteq Snapshots
        /\ \A o \in Operators : opPc[o] # "idle" => opTarget[o] \in Snapshots /\ opNow[o] \in Nat
    BY DEF TypeInv, TypeOK, RunHasSnapshot, OperatorHasTarget
  <2>1. \E st \in Statements : Sends(st) /\ (Succeeds(st) \/ Raises(st))
    <3>1. CASE PromotePoint
      BY <2>0, <3>1, StatementTypes DEF PromotePoint, Sends
    <3>2. CASE PromoteStamp
      BY <2>0, <3>2, StatementTypes DEF PromoteStamp, Sends
    <3>3. CASE SweepDeactivate
      BY <2>0, <3>3, StatementTypes DEF SweepDeactivate, Sends
    <3>4. CASE \E o \in Operators : RollbackPoint(o)
      BY <2>0, <3>4, StatementTypes DEF RollbackPoint, Sends
    <3> QED BY <1>5, <3>1, <3>2, <3>3, <3>4
  <2> QED BY <1>4, <2>1
<1>6. CASE UNCHANGED vars BY <1>1, <1>6 DEF vars, jobVars
<1>7. CASE Tick \/ StartRun \/ VsUpsert \/ Smoke \/ PromoteGates \/ PromoteEmit
             \/ RetentionReadActive \/ SweepList \/ SweepDeactivated \/ SweepStaging
  BY <1>1, <1>7 DEF Tick, StartRun, VsUpsert, Smoke, PromoteGates, PromoteEmit,
              RetentionReadActive, SweepList, SweepDeactivated, SweepStaging, jobVars
<1>8. CASE Persist BY <1>2, <1>8 DEF Persist
<1>9. CASE CrashTask BY <1>1, <1>2, <1>9 DEF CrashTask
<1>10. CASE \E o \in Operators : RollbackBegin(o) \/ RollbackCheck(o)
  BY <1>1, <1>10 DEF RollbackBegin, RollbackCheck, jobVars
<1> QED BY <1>3, <1>5, <1>6, <1>7, <1>8, <1>9, <1>10 DEF Next, JobStep, OperatorStep

\* A statement names a published snapshot; the stamp, one that was served; the
\* deactivation, one that was stamped.
LEMMA StatementFacts ==
  ASSUME IInv, NEW st \in Statements, Sends(st) \/ st \in inflight
  PROVE  /\ st.snap \in Snapshots /\ Published(st.snap)
         /\ st.op = "stamp" => st.snap \in everActive
         /\ st.op = "deactivate" => AlreadyPromoted(st.snap)
<1>1. st.op \in {"point", "stamp", "deactivate"} /\ st.snap \in Snapshots
  BY DEF Statements
<1>2. CASE st \in inflight
  BY <1>1, <1>2 DEF Published, IInv, StampsFollowPointer, OnlyOldDeactivated, Old
<1>3. CASE Sends(st)
  <2>1. CASE st.op = "point"
    BY <1>1, <1>3, <2>1, PointSends DEF Published
  <2>2. CASE st.op = "stamp"
    <3>1. pc = "promote_stamp" /\ st.snap = runSnap
      BY <1>3, <2>2, StampSends
    <3> QED BY <1>1, <2>2, <3>1 DEF Published, IInv, StampsFollowPointer
  <2>3. CASE st.op = "deactivate"
    <3>1. st.snap \in sweepTodo
      BY <1>3, <2>3, DeactivateSends
    <3> QED BY <1>1, <2>3, <3>1 DEF Published, IInv, OnlyOldDeactivated, Old
  <2> QED BY <1>1, <2>1, <2>2, <2>3
<1> QED BY <1>2, <1>3

-----------------------------------------------------------------------------
(* ServedKept is preserved. *)

LEMMA ServedInit == Init => ServedKept
BY DEF Init, ServedKept, Building

LEMMA ServedStep == RInv /\ [Next]_vars => ServedKept'
<1> SUFFICES ASSUME RInv, [Next]_vars PROVE ServedKept'
  OBVIOUS
<1>0. /\ IInv /\ TypeInv /\ ServedKept
      /\ persisted \in [Snapshots -> {"none", "partial", "full"}]
      /\ everActive \subseteq Snapshots
      /\ pc # "idle" => runSnap \in Snapshots
  BY DEF RInv, IInv, TypeInv, TypeOK, RunHasSnapshot
<1>1. \A s \in everActive' :
        s \in everActive \/ (Published(s) /\ s \in Snapshots /\ persisted' = persisted)
  <2>1. CASE \E st \in Statements : RunsStatement(st)
    BY <1>0, <2>1, StatementFacts DEF RunsStatement, Effect
  <2>2. CASE pc = "persist" /\ \E full \in BOOLEAN : PersistRows(full)
    BY <2>2 DEF PersistRows
  <2> QED BY <1>0, <2>1, <2>2, TableSteps
<1>2. ASSUME NEW s \in everActive' PROVE persisted'[s] = "full"
  <2>1. CASE s \in everActive
    <3>1. persisted[s] = "full" /\ s \in Snapshots BY <1>0, <2>1 DEF ServedKept
    <3>2. ~(pc = "persist" /\ s = runSnap)
      BY <1>0, <2>1 DEF ServedKept, Building
    <3> QED BY <1>0, <3>1, <3>2, TableSteps DEF PersistRows, RunsStatement
  <2>2. CASE Published(s) /\ s \in Snapshots /\ persisted' = persisted
    BY <1>0, <2>2 DEF IInv, PublishedComplete, Complete
  <2> QED BY <1>1, <1>2, <2>1, <2>2
<1>3. ASSUME Building' PROVE runSnap' \notin everActive'
  <2>1. CASE StartRun
    <3>1. everActive' = everActive /\ persisted[runSnap'] = "none"
      BY <2>1 DEF StartRun, Unused, warehouseVars
    <3> QED BY <1>0, <3>1 DEF ServedKept
  <2>2. CASE Building /\ runSnap' = runSnap
    <3>1. ~Published(runSnap) /\ runSnap \notin everActive
      BY <1>0, <2>2 DEF IInv, BuildingUnpublished, ServedKept
    <3> QED BY <1>1, <2>2, <3>1
  <2> QED BY <1>0, <1>3, <2>1, <2>2, RunMoves
<1> QED BY <1>2, <1>3 DEF ServedKept

-----------------------------------------------------------------------------
(* Initial states and steps map to initial states and steps or stutters.     *)

LEMMA RegistryInit == Init => Registry!Init
<1> SUFFICES ASSUME Init PROVE Registry!Init
  OBVIOUS
<1>1. CompleteSet = {} BY DEF Init, CompleteSet
<1>2. StampedSet = {} /\ RetiredSet = {}
  BY DEF Init, StampedSet, RetiredSet, AlreadyPromoted, NoRow
<1> QED BY <1>1, <1>2 DEF Init, Registry!Init, CompleteSet, StampedSet, RetiredSet

\* Rewriting the rows of the run's snapshot.
LEMMA RowsArePrepare ==
  ASSUME RInv, pc = "persist", NEW full \in BOOLEAN, PersistRows(full),
         NEW s \in Snapshots, s = runSnap
  PROVE  Registry!Prepare(s)
<1>0. /\ ledger \in [Snapshots -> LedgerRow]
      /\ persisted \in [Snapshots -> {"none", "partial", "full"}]
  BY DEF RInv, IInv, TypeInv, TypeOK
<1>1. s \notin everActive /\ ~Published(s)
  BY DEF RInv, IInv, ServedKept, Building, BuildingUnpublished
<1>2. CompleteSet' \in {CompleteSet \cup {s}, CompleteSet \ {s}}
  <2>1. persisted' = [persisted EXCEPT ![s] = IF full THEN "full" ELSE "partial"]
    BY DEF PersistRows
  <2>2. CASE full
    <3>1. CompleteSet' = CompleteSet \cup {s}
      BY <1>0, <2>1, <2>2 DEF CompleteSet
    <3> QED BY <3>1
  <2>3. CASE ~full
    <3>1. CompleteSet' = CompleteSet \ {s}
      BY <1>0, <2>1, <2>3 DEF CompleteSet
    <3> QED BY <3>1
  <2> QED BY <2>2, <2>3
<1>3. PICK row \in {NoRow, FreshRow} : ledger' = [ledger EXCEPT ![s] = row]
  BY DEF PersistRows
<1>4. StampedSet' = StampedSet
  <2>1. ~AlreadyPromoted(s) BY <1>1 DEF Published
  <2>2. ledger'[s].promotedAt = Null
    BY <1>0, <1>3 DEF NoRow, FreshRow
  <2> QED BY <1>0, <1>3, <2>1, <2>2 DEF StampedSet, AlreadyPromoted
<1>5. RetiredSet' = RetiredSet
  <2>1. ledger[s].deactivatedAt = Null
    BY <1>0, <1>1 DEF RInv, IInv, OnlyOldDeactivated, Old, Published
  <2>2. ledger'[s].deactivatedAt = Null
    BY <1>0, <1>3 DEF NoRow, FreshRow
  <2> QED BY <1>0, <1>3, <2>1, <2>2 DEF RetiredSet
<1>6. active' = active /\ everActive' = everActive
  BY DEF PersistRows
<1> QED BY <1>0, <1>1, <1>2, <1>4, <1>5, <1>6
        DEF Registry!Prepare, CompleteSet, StampedSet, RetiredSet

\* Running a statement.
LEMMA StatementIsRegistryStep ==
  ASSUME RInv, NEW st \in Statements, RunsStatement(st)
  PROVE  \/ \E s \in Snapshots :
              Registry!Serve(s) \/ Registry!Record(s) \/ Registry!Retire(s)
         \/ UNCHANGED Registry!registryVars
<1> DEFINE s == st.snap
<1>0. /\ s \in Snapshots /\ st.at \in Nat /\ ledger[s] \in LedgerRow
      /\ ledger \in [Snapshots -> LedgerRow]
      /\ st.op \in {"point", "stamp", "deactivate"}
      /\ IInv
  BY DEF RInv, IInv, TypeInv, TypeOK, Statements
<1>1. /\ Effect(st) /\ Published(s) /\ CompleteSet' = CompleteSet
      /\ st.op = "stamp" => s \in everActive
      /\ st.op = "deactivate" => AlreadyPromoted(s)
  BY <1>0, StatementFacts DEF RunsStatement, CompleteSet
<1>2. CASE st.op = "point"
  <2>1. active' = s /\ everActive' = everActive \cup {s} /\ ledger' = ledger
    BY <1>1, <1>2 DEF Effect
  <2>2. StampedSet' = StampedSet /\ RetiredSet' = RetiredSet
    BY <2>1 DEF StampedSet, RetiredSet, AlreadyPromoted
  <2>3. s \in CompleteSet
    BY <1>0, <1>1 DEF IInv, PublishedComplete, Complete, CompleteSet
  <2>4. Registry!Serve(s)
    BY <1>1, <2>1, <2>2, <2>3 DEF Registry!Serve, CompleteSet, StampedSet, RetiredSet
  <2> QED BY <1>0, <2>4
<1>3. CASE st.op # "point"
  <2>0. active' = active /\ everActive' = everActive
    BY <1>1, <1>3 DEF Effect
  <2>1. CASE ~ledger[s].present
    <3>1. ledger' = ledger BY <1>1, <2>1 DEF Effect
    <3> QED BY <1>1, <2>0, <3>1
            DEF Registry!registryVars, CompleteSet, AlreadyPromoted
  <2>2. CASE st.op = "stamp" /\ ledger[s].present
    <3>1. ledger' = [ledger EXCEPT ![s].promotedAt = st.at]
      BY <1>1, <2>2 DEF Effect
    <3>2. /\ ledger'[s].present /\ ledger'[s].promotedAt = st.at
          /\ ledger'[s].deactivatedAt = ledger[s].deactivatedAt
          /\ \A r \in Snapshots \ {s} : ledger'[r] = ledger[r]
      BY <1>0, <2>2, <3>1 DEF LedgerRow
    <3>3. StampedSet' = StampedSet \cup {s}
      BY <1>0, <3>2, NullAssumption DEF StampedSet, AlreadyPromoted
    <3>4. RetiredSet' = RetiredSet
      BY <1>0, <3>2 DEF RetiredSet
    <3>5. Registry!Record(s)
      BY <1>1, <2>0, <2>2, <3>3, <3>4
         DEF Registry!Record, CompleteSet, StampedSet, RetiredSet
    <3> QED BY <1>0, <3>5
  <2>3. CASE st.op = "deactivate" /\ ledger[s].present
    <3>1. ledger' = [ledger EXCEPT ![s].deactivatedAt = st.at]
      BY <1>1, <2>3 DEF Effect
    <3>2. /\ ledger'[s].present = ledger[s].present
          /\ ledger'[s].promotedAt = ledger[s].promotedAt
          /\ ledger'[s].deactivatedAt = st.at
          /\ \A r \in Snapshots \ {s} : ledger'[r] = ledger[r]
      BY <1>0, <3>1 DEF LedgerRow
    <3>3. StampedSet' = StampedSet
      BY <1>0, <3>2 DEF StampedSet, AlreadyPromoted
    <3>4. RetiredSet' = RetiredSet \cup {s}
      BY <1>0, <3>2, NullAssumption DEF RetiredSet
    <3>5. s \in StampedSet BY <1>0, <1>1, <2>3 DEF StampedSet
    <3>6. Registry!Retire(s)
      BY <1>1, <2>0, <3>3, <3>4, <3>5
         DEF Registry!Retire, CompleteSet, StampedSet, RetiredSet
    <3> QED BY <1>0, <3>6
  <2> QED BY <1>0, <1>3, <2>1, <2>2, <2>3
<1> QED BY <1>2, <1>3

LEMMA RegistryStep ==
  RInv /\ [Next]_vars => [Registry!Next]_(Registry!registryVars)
<1> SUFFICES ASSUME RInv, [Next]_vars
             PROVE  [Registry!Next]_(Registry!registryVars)
  OBVIOUS
<1>0. TypeInv BY DEF RInv, IInv
<1>1. CASE UNCHANGED <<ledger, active, everActive, persisted>>
  BY <1>1 DEF Registry!registryVars, AlreadyPromoted
<1>2. CASE pc = "persist" /\ \E full \in BOOLEAN : PersistRows(full)
  <2>1. PICK full \in BOOLEAN : PersistRows(full) BY <1>2
  <2>2. PICK s \in Snapshots : s = runSnap
    BY <1>0, <1>2 DEF TypeInv, RunHasSnapshot
  <2>3. Registry!Prepare(s)
    BY <1>2, <2>1, <2>2, RowsArePrepare
  <2>4. Registry!Next BY <2>3 DEF Registry!Next
  <2> QED BY <2>4
<1>3. CASE \E st \in Statements : RunsStatement(st)
  BY <1>3, StatementIsRegistryStep DEF Registry!Next
<1> QED BY <1>0, <1>1, <1>2, <1>3, TableSteps

-----------------------------------------------------------------------------

\* Every behaviour of the job, the operators and the warehouse is one of the
\* registry: the pointer moves only to a complete snapshot whose rows stay, and
\* the ledger records only what was served and retires only what it recorded.
THEOREM RegistryImplemented == Spec => ImplementsRegistry
<1>1. Init => RInv /\ Registry!Init
  BY IInvInit, ServedInit, RegistryInit DEF RInv
<1>2. RInv /\ [Next]_vars => RInv'
  BY IInvStep, ServedStep DEF RInv
<1>3. RInv /\ [Next]_vars => [Registry!Next]_(Registry!registryVars)
  BY RegistryStep
<1> QED BY <1>1, <1>2, <1>3, PTL DEF Spec, ImplementsRegistry, Registry!Spec
=============================================================================

---------------------------- MODULE UsecasePlannerProofs ----------------------------
(***************************************************************************)
(* What holds of the workspace knowledge graph and of the plans built from *)
(* it, for any tables, profiles, requests and snapshots, and any number of *)
(* refreshes, retries and changes of the workspace.                        *)
(***************************************************************************)
EXTENDS UsecasePlanner, TLAPS

-----------------------------------------------------------------------------
(* The refresh job. *)

\* Nobody could have merged a claim before it was appended: an attempt appends all
\* its claims before its first MERGE, whose lateness changes nothing in that.
LateIsAudited ==
    \A st \in late :
        /\ st.claim.at # Never
        /\ st.op = "merge" => st.claim \in claims

\* How far the attempt's statements have come.
Sent ==
    /\ kgPc \in {"insert", "merge"} => observed # Never /\ unsent \subseteq Profiled
    /\ kgPc = "insert" => \A t \in Profiled \ unsent : ClaimOf(t) \in claims
    /\ kgPc = "merge" => \A t \in Profiled : ClaimOf(t) \in claims
    /\ kgPc = "merge" => \A t \in Profiled \ unsent : current[t][found[t]] # Never

\* The copy in Lakebase is of an earlier table, which has lost no claim since.
CopyTrails ==
    \A t \in Tables, v \in Values : synced[t][v] # Never => current[t][v] # Never

KGFacts ==
    /\ LateIsAudited /\ Sent /\ CopyTrails
    /\ ReadModelAudited /\ RefreshIsComplete

KGInv == KGTypeOK /\ KGFacts

LEMMA StatementTypes ==
  ASSUME KGTypeOK, NEW t \in Profiled
  PROVE  /\ t \in Tables /\ found[t] \in Values
         /\ ClaimOf(t) \in Claims
         /\ ClaimOf(t).table = t /\ ClaimOf(t).value = found[t] /\ ClaimOf(t).at = observed
         /\ Insert(ClaimOf(t)) \in Statements /\ Insert(ClaimOf(t)).op = "insert"
         /\ Insert(ClaimOf(t)).claim = ClaimOf(t)
         /\ Merge(ClaimOf(t)) \in Statements /\ Merge(ClaimOf(t)).op = "merge"
         /\ Merge(ClaimOf(t)).claim = ClaimOf(t)
<1>1. t \in Tables /\ found[t] \in Values
  BY DEF Profiled, KGTypeOK, Profiles
<1>2. ClaimOf(t) \in Claims
  BY <1>1 DEF ClaimOf, Claims, KGTypeOK
<1> QED BY <1>1, <1>2 DEF ClaimOf, Insert, Merge, Statements

\* What a statement of the job does to the two tables, whenever it is carried out.
LEMMA EffectKeeps ==
  ASSUME KGTypeOK, NEW st \in Statements, Effect(st),
         st.claim.at # Never, st.op = "merge" => st.claim \in claims
  PROVE  /\ claims' \in SUBSET Claims /\ claims \subseteq claims'
         /\ current' \in [Tables -> [Values -> Nat]]
         /\ \A t \in Tables, v \in Values : current[t][v] # Never => current'[t][v] # Never
         /\ \A table : Audited(table) => Audited(table)'
         /\ Audited(current) => Audited(current)'
         /\ st.op = "insert" => st.claim \in claims' /\ current' = current
         /\ st.op = "merge" => current'[st.claim.table][st.claim.value] # Never
<1>1. /\ st.op \in {"insert", "merge"} /\ st.claim \in Claims
      /\ st.claim.table \in Tables /\ st.claim.value \in Values /\ st.claim.at \in Nat
      /\ st.claim = [table |-> st.claim.table, value |-> st.claim.value, at |-> st.claim.at]
  BY DEF Statements, Claims
<1> DEFINE tt == st.claim.table
           vv == st.claim.value
<1>2. CASE st.op = "insert"
  <2>1. claims' = claims \cup {st.claim} /\ current' = current
    BY <1>2 DEF Effect
  <2> QED BY <1>1, <1>2, <2>1 DEF KGTypeOK, Audited
<1>3. CASE st.op = "merge"
  <2>1. /\ claims' = claims
        /\ current' = [current EXCEPT ![tt] = [current[tt] EXCEPT ![vv] = st.claim.at]]
    BY <1>3 DEF Effect
  <2>2. current' \in [Tables -> [Values -> Nat]]
    BY <1>1, <2>1 DEF KGTypeOK
  <2>3. \A t \in Tables, v \in Values :
           \/ current'[t][v] = current[t][v]
           \/ t = tt /\ v = vv /\ current'[t][v] = st.claim.at
    BY <1>1, <2>1 DEF KGTypeOK
  <2>4. current'[tt][vv] = st.claim.at
    BY <1>1, <2>1 DEF KGTypeOK
  <2>5. Audited(current) => Audited(current)'
    BY <1>1, <1>3, <2>1, <2>3 DEF Audited
  <2> QED BY <1>3, <2>1, <2>2, <2>3, <2>4, <2>5 DEF KGTypeOK, Audited
<1> QED BY <1>1, <1>2, <1>3

LEMMA KGInitInv == KGInit => KGInv
<1> SUFFICES ASSUME KGInit PROVE KGInv OBVIOUS
<1>1. \A t \in Tables, v \in Values : NoRows[t][v] = Never
  BY DEF NoRows
<1>2. KGTypeOK
  BY DEF KGInit, KGTypeOK, NoRows, NoProfiles, Profiles, Never
<1>3. KGFacts
  BY <1>1 DEF KGInit, KGFacts, LateIsAudited, Sent, CopyTrails, ReadModelAudited, Audited,
              RefreshIsComplete
<1> QED BY <1>2, <1>3 DEF KGInv

\* The task starts over with nothing profiled, and the tables are as they were.
LEMMA RelaunchInv ==
  ASSUME KGInv, NEW task \in {"list", "publish"}, Relaunch(task) \/ Finish,
         UNCHANGED <<world, changes, claims, current, synced, clock>>,
         pipeline' \in {"none", "idle", "updating"},
         late' \in SUBSET Statements,
         \A st \in late' : st.claim.at # Never /\ (st.op = "merge" => st.claim \in claims)
  PROVE  KGInv'
<1>1. /\ kgPc' \in {"idle", "list", "publish"} /\ kgAttempt' \in Nat
      /\ toProfile' = {} /\ found' = NoProfiles /\ observed' = Never /\ unsent' = {}
  BY KGRetriesAssumption DEF Relaunch, Finish, KGInv, KGTypeOK
<1>2. Profiled' = {}
  BY <1>1 DEF Profiled, NoProfiles
<1>3. KGTypeOK'
  BY <1>1 DEF KGInv, KGTypeOK, NoProfiles, Profiles, Never
<1>4. KGFacts'
  BY <1>1, <1>2 DEF KGInv, KGFacts, LateIsAudited, Sent, CopyTrails, ReadModelAudited, Audited,
                    RefreshIsComplete
<1> QED BY <1>3, <1>4 DEF KGInv

\* A statement that raises lands later or never.
LEMMA RaisesInv ==
  ASSUME KGInv, NEW st \in Statements, Raises(st), Relaunch("list"),
         st.claim.at # Never, st.op = "merge" => st.claim \in claims,
         UNCHANGED <<world, changes, synced, pipeline, clock>>
  PROVE  KGInv'
<1>1. /\ late' \in SUBSET Statements
      /\ \A x \in late' : x.claim.at # Never /\ (x.op = "merge" => x.claim \in claims)
  BY DEF Raises, KGInv, KGFacts, LateIsAudited, KGTypeOK
<1> QED BY <1>1, RelaunchInv DEF Raises, KGInv, KGTypeOK

LEMMA ListInv == ASSUME KGInv, StartRefresh \/ ListTables PROVE KGInv'
<1>1. /\ kgPc' \in {"list", "profile"} /\ kgAttempt' \in Nat /\ toProfile' \in SUBSET Tables
      /\ UNCHANGED <<world, changes, warehouseVars, synced, pipeline, found, observed, unsent,
                     clock>>
  <2>1. CASE StartRefresh BY <2>1 DEF StartRefresh, KGInv, KGTypeOK
  <2>2. CASE ListTables
    <3>1. toProfile' \in SUBSET Tables BY <2>2 DEF ListTables
    <3> QED BY <2>2, <3>1 DEF ListTables, KGInv, KGTypeOK
  <2> QED BY <2>1, <2>2
<1>2. KGTypeOK' BY <1>1 DEF KGInv, KGTypeOK, warehouseVars
<1>3. KGFacts'
  BY <1>1 DEF KGInv, KGFacts, LateIsAudited, Sent, CopyTrails, ReadModelAudited, Audited,
              RefreshIsComplete, warehouseVars
<1> QED BY <1>2, <1>3 DEF KGInv

LEMMA ProfileInv == ASSUME KGInv, ProfileTable PROVE KGInv'
<1>1. /\ kgPc = "profile" /\ kgPc' = kgPc /\ toProfile' \in SUBSET Tables /\ found' \in Profiles
      /\ UNCHANGED <<world, changes, warehouseVars, synced, pipeline, kgAttempt, observed, unsent,
                     clock>>
  BY DEF ProfileTable, KGInv, KGTypeOK, Profiles
<1>2. KGTypeOK' BY <1>1 DEF KGInv, KGTypeOK, warehouseVars
<1>3. KGFacts'
  BY <1>1 DEF KGInv, KGFacts, LateIsAudited, Sent, CopyTrails, ReadModelAudited, Audited,
              RefreshIsComplete, warehouseVars
<1> QED BY <1>2, <1>3 DEF KGInv

LEMMA BuildInv == ASSUME KGInv, BuildClaims PROVE KGInv'
<1>1. /\ clock' = clock + 1 /\ observed' = clock + 1 /\ unsent' = Profiled
      /\ Profiled = {} => kgPc' = "publish" /\ kgAttempt' = 1
      /\ Profiled # {} => kgPc' = "insert" /\ kgAttempt' = kgAttempt
      /\ UNCHANGED <<world, changes, warehouseVars, synced, pipeline, toProfile, found>>
  BY DEF BuildClaims
<1>2. Profiled' = Profiled /\ Profiled \in SUBSET Tables BY <1>1 DEF Profiled
<1>3. observed' # Never /\ observed' \in Nat /\ clock' \in Nat
  BY <1>1 DEF KGInv, KGTypeOK, Never
<1>4. KGTypeOK' BY <1>1, <1>2, <1>3 DEF KGInv, KGTypeOK, warehouseVars
<1>5. Sent' /\ RefreshIsComplete'
  BY <1>1, <1>2, <1>3 DEF Sent, RefreshIsComplete
<1>6. LateIsAudited' /\ CopyTrails' /\ ReadModelAudited'
  BY <1>1 DEF KGInv, KGFacts, LateIsAudited, CopyTrails, ReadModelAudited, Audited, warehouseVars
<1> QED BY <1>4, <1>5, <1>6 DEF KGInv, KGFacts

LEMMA InsertInv == ASSUME KGInv, InsertBatch PROVE KGInv'
<1>1. PICK t \in unsent :
        \/ /\ Succeeds(Insert(ClaimOf(t)))
           /\ IF unsent = {t} THEN kgPc' = "merge" /\ unsent' = Profiled
                              ELSE kgPc' = kgPc /\ unsent' = unsent \ {t}
           /\ UNCHANGED <<kgAttempt, toProfile, found, observed>>
        \/ Raises(Insert(ClaimOf(t))) /\ Relaunch("list")
  BY DEF InsertBatch
<1>2. kgPc = "insert" /\ UNCHANGED <<world, changes, synced, pipeline, clock>>
  BY DEF InsertBatch
<1>3. observed # Never /\ t \in Profiled /\ unsent \subseteq Profiled
  BY <1>2 DEF KGInv, KGFacts, Sent
<1>4. /\ Insert(ClaimOf(t)) \in Statements /\ Insert(ClaimOf(t)).op = "insert"
      /\ Insert(ClaimOf(t)).claim = ClaimOf(t) /\ ClaimOf(t).at = observed
  BY <1>3, StatementTypes DEF KGInv
<1>5. CASE Raises(Insert(ClaimOf(t))) /\ Relaunch("list")
  BY <1>2, <1>3, <1>4, <1>5, RaisesInv
<1>6. CASE /\ Succeeds(Insert(ClaimOf(t)))
           /\ IF unsent = {t} THEN kgPc' = "merge" /\ unsent' = Profiled
                              ELSE kgPc' = kgPc /\ unsent' = unsent \ {t}
           /\ UNCHANGED <<kgAttempt, toProfile, found, observed>>
  <2>1. /\ claims' \in SUBSET Claims /\ claims \subseteq claims' /\ ClaimOf(t) \in claims'
        /\ current' = current /\ late' = late
        /\ \A table : Audited(table) => Audited(table)'
        /\ Audited(current) => Audited(current)'
    BY <1>3, <1>4, <1>6, EffectKeeps DEF Succeeds, KGInv
  <2>2. Profiled' = Profiled /\ \A x \in Tables : ClaimOf(x)' = ClaimOf(x)
    BY <1>6 DEF Profiled, ClaimOf
  <2>3. Profiled \in SUBSET Tables BY DEF Profiled
  <2>4. KGTypeOK' BY <1>2, <1>6, <2>1, <2>3 DEF KGInv, KGTypeOK
  <2>5. Sent'
    BY <1>2, <1>3, <1>6, <2>1, <2>2, <2>3 DEF KGInv, KGFacts, Sent
  <2>6. RefreshIsComplete' BY <1>2, <1>6 DEF RefreshIsComplete
  <2>7. LateIsAudited' /\ CopyTrails'
    BY <1>2, <2>1 DEF KGInv, KGFacts, LateIsAudited, CopyTrails
  <2>8. ReadModelAudited'
    BY <1>2, <2>1 DEF KGInv, KGFacts, ReadModelAudited, Audited
  <2> QED BY <2>4, <2>5, <2>6, <2>7, <2>8 DEF KGInv, KGFacts
<1> QED BY <1>1, <1>5, <1>6

LEMMA MergeInv == ASSUME KGInv, MergeBatch PROVE KGInv'
<1>1. PICK t \in unsent :
        \/ /\ Succeeds(Merge(ClaimOf(t)))
           /\ IF unsent = {t} THEN kgPc' = "publish" /\ unsent' = {} /\ kgAttempt' = 1
                              ELSE /\ kgPc' = kgPc /\ unsent' = unsent \ {t}
                                   /\ UNCHANGED kgAttempt
           /\ UNCHANGED <<toProfile, found, observed>>
        \/ Raises(Merge(ClaimOf(t))) /\ Relaunch("list")
  BY DEF MergeBatch
<1>2. kgPc = "merge" /\ UNCHANGED <<world, changes, synced, pipeline, clock>>
  BY DEF MergeBatch
<1>3. /\ observed # Never /\ t \in Profiled /\ unsent \subseteq Profiled
      /\ \A x \in Profiled : ClaimOf(x) \in claims
  BY <1>2 DEF KGInv, KGFacts, Sent
<1>4. /\ Merge(ClaimOf(t)) \in Statements /\ Merge(ClaimOf(t)).op = "merge"
      /\ Merge(ClaimOf(t)).claim = ClaimOf(t) /\ ClaimOf(t).at = observed
      /\ ClaimOf(t).table = t /\ ClaimOf(t).value = found[t]
      /\ \A x \in Profiled : x \in Tables /\ found[x] \in Values
  BY <1>3, StatementTypes DEF KGInv
<1>5. CASE Raises(Merge(ClaimOf(t))) /\ Relaunch("list")
  BY <1>2, <1>3, <1>4, <1>5, RaisesInv
<1>6. CASE /\ Succeeds(Merge(ClaimOf(t)))
           /\ IF unsent = {t} THEN kgPc' = "publish" /\ unsent' = {} /\ kgAttempt' = 1
                              ELSE /\ kgPc' = kgPc /\ unsent' = unsent \ {t}
                                   /\ UNCHANGED kgAttempt
           /\ UNCHANGED <<toProfile, found, observed>>
  <2>1. /\ claims' \in SUBSET Claims /\ claims \subseteq claims' /\ late' = late
        /\ current' \in [Tables -> [Values -> Nat]]
        /\ \A x \in Tables, v \in Values : current[x][v] # Never => current'[x][v] # Never
        /\ current'[t][found[t]] # Never
        /\ Audited(current) => Audited(current)'
    BY <1>3, <1>4, <1>6, EffectKeeps DEF Succeeds, KGInv
  <2>2. Profiled' = Profiled /\ \A x \in Tables : ClaimOf(x)' = ClaimOf(x)
    BY <1>6 DEF Profiled, ClaimOf
  <2>3. KGTypeOK' BY <1>2, <1>6, <2>1 DEF KGInv, KGTypeOK
  <2>4. \A x \in Profiled \ (unsent \ {t}) : current'[x][found[x]] # Never
    BY <1>2, <1>3, <1>4, <2>1 DEF KGInv, KGFacts, Sent
  <2>5. Sent'
    BY <1>2, <1>3, <1>4, <1>6, <2>1, <2>2, <2>4 DEF KGInv, KGFacts, Sent
  <2>6. RefreshIsComplete' BY <1>2, <1>6, <2>2, <2>4 DEF RefreshIsComplete
  <2>7. LateIsAudited' /\ CopyTrails'
    BY <1>2, <2>1 DEF KGInv, KGFacts, LateIsAudited, CopyTrails
  <2>8. ReadModelAudited'
    BY <1>2, <2>1 DEF KGInv, KGFacts, ReadModelAudited, Audited
  <2> QED BY <2>3, <2>5, <2>6, <2>7, <2>8 DEF KGInv, KGFacts
<1> QED BY <1>1, <1>5, <1>6

LEMMA PublishInv == ASSUME KGInv, Publish \/ CrashRefresh PROVE KGInv'
<1>1. /\ Relaunch("list") \/ Relaunch("publish") \/ Finish
      /\ UNCHANGED <<world, changes, claims, current, late, synced, clock>>
      /\ pipeline' \in {pipeline, "updating"}
  BY DEF Publish, CrashRefresh, warehouseVars
<1> QED BY <1>1, RelaunchInv DEF KGInv, KGFacts, KGTypeOK, LateIsAudited

LEMMA LandInv == ASSUME KGInv, LandLate PROVE KGInv'
<1>1. PICK st \in late : /\ Effect(st) /\ late' = late \ {st}
                         /\ UNCHANGED <<world, changes, synced, pipeline, taskVars, clock>>
  BY DEF LandLate
<1>2. st \in Statements /\ st.claim.at # Never /\ (st.op = "merge" => st.claim \in claims)
  BY DEF KGInv, KGTypeOK, KGFacts, LateIsAudited
<1>3. /\ claims' \in SUBSET Claims /\ claims \subseteq claims'
      /\ current' \in [Tables -> [Values -> Nat]]
      /\ \A t \in Tables, v \in Values : current[t][v] # Never => current'[t][v] # Never
      /\ Audited(current) => Audited(current)'
  BY <1>1, <1>2, EffectKeeps DEF KGInv
<1>4. /\ Profiled' = Profiled /\ \A t \in Tables : ClaimOf(t)' = ClaimOf(t)
      /\ \A t \in Profiled : t \in Tables /\ found[t] \in Values
  BY <1>1 DEF Profiled, ClaimOf, taskVars, KGInv, KGTypeOK, Profiles
<1>5. KGTypeOK' BY <1>1, <1>3 DEF KGInv, KGTypeOK, taskVars
<1>6. Sent' /\ RefreshIsComplete'
  BY <1>1, <1>3, <1>4 DEF KGInv, KGFacts, Sent, RefreshIsComplete, taskVars
<1>7. LateIsAudited' /\ CopyTrails'
  BY <1>1, <1>3 DEF KGInv, KGFacts, LateIsAudited, CopyTrails
<1>8. ReadModelAudited'
  BY <1>1, <1>3 DEF KGInv, KGFacts, ReadModelAudited, Audited
<1> QED BY <1>5, <1>6, <1>7, <1>8 DEF KGInv, KGFacts

LEMMA PipelineInv == ASSUME KGInv, PipelineRuns PROVE KGInv'
<1>1. /\ pipeline' = "idle" /\ (synced' = synced \/ synced' = current)
      /\ UNCHANGED <<world, changes, warehouseVars, taskVars, clock>>
  BY DEF PipelineRuns
<1>2. Profiled' = Profiled /\ \A t \in Tables : ClaimOf(t)' = ClaimOf(t)
  BY <1>1 DEF Profiled, ClaimOf, taskVars
<1>3. KGTypeOK' BY <1>1 DEF KGInv, KGTypeOK, warehouseVars, taskVars
<1>4. Sent' /\ RefreshIsComplete' /\ LateIsAudited'
  BY <1>1, <1>2 DEF KGInv, KGFacts, Sent, RefreshIsComplete, LateIsAudited, taskVars,
                    warehouseVars, Profiled
<1>5. CopyTrails' /\ ReadModelAudited'
  BY <1>1 DEF KGInv, KGFacts, CopyTrails, ReadModelAudited, Audited, warehouseVars
<1> QED BY <1>3, <1>4, <1>5 DEF KGInv, KGFacts

\* What says nothing of the job and its tables leaves its invariant alone.
LEMMA WorldInv == ASSUME KGInv, WorldChanges \/ UNCHANGED kgVars PROVE KGInv'
<1>1. /\ world' \in Profiles /\ changes' \in Nat
      /\ UNCHANGED <<warehouseVars, synced, pipeline, taskVars, clock>>
  BY DEF WorldChanges, kgVars, KGInv, KGTypeOK, Profiles
<1>2. Profiled' = Profiled /\ \A t \in Tables : ClaimOf(t)' = ClaimOf(t)
  BY <1>1 DEF Profiled, ClaimOf, taskVars
<1>3. KGTypeOK' BY <1>1 DEF KGInv, KGTypeOK, warehouseVars, taskVars
<1>4. Sent' /\ RefreshIsComplete' /\ LateIsAudited' /\ CopyTrails' /\ ReadModelAudited'
  BY <1>1, <1>2 DEF KGInv, KGFacts, Sent, RefreshIsComplete, LateIsAudited, CopyTrails,
                    ReadModelAudited, Audited, taskVars, warehouseVars, Profiled
<1> QED BY <1>3, <1>4 DEF KGInv, KGFacts

LEMMA KGNextInv == KGInv /\ [KGNext]_kgVars => KGInv'
BY ListInv, ProfileInv, BuildInv, InsertInv, MergeInv, PublishInv, LandInv, PipelineInv, WorldInv
   DEF KGNext, RefreshStep
-----------------------------------------------------------------------------
(* The requests. *)

\* A plan's tables have claims for good.
PlansAreBacked ==
    \A p \in Requests : planTables[p] \subseteq ReadyTables(current)

\* What a request that made, or may make, its view has behind it.
Rechecked(p) ==
    /\ freshTables[p] # {}
    /\ planSnapshot[p] = freshSnapshot[p]
    /\ freshSnapshot[p] \in Anchored

Stands(p) ==
    /\ reqPc[p] = "reclaims" => freshSnapshot[p] \in Anchored \cup {NoSnapshot}
    /\ reqPc[p] = "execute" => Rechecked(p)
    /\ reqPc[p] = "record" => outcome[p] \in Statuses
    /\ p \in executed \cup lateViews =>
          /\ Rechecked(p) /\ reqPc[p] \in {"record", "done"}
          /\ outcome[p] \in {"built", "build_failed"}
    /\ outcome[p] \in {"none", "planned"} \/ reqPc[p] \in {"record", "done"}
    /\ outcome[p] = "built" => p \in executed

\* A row other than the first says how the request ended.
RowsAreFinal(p) ==
    \A s \in Statuses :
        <<p, s>> \in rows /\ s # "planned" => outcome[p] = s /\ reqPc[p] = "done"

PlannerFacts ==
    /\ PlansAreBacked /\ ViewIsBacked
    /\ \A p \in Requests : Stands(p) /\ RowsAreFinal(p)

PlannerInv == TypeOK /\ KGFacts /\ PlannerFacts

LEMMA CurrentGrows ==
  ASSUME KGInv, [KGNext]_kgVars
  PROVE  ReadyTables(current) \subseteq ReadyTables(current)'
<1>1. CASE UNCHANGED current BY <1>1 DEF ReadyTables
<1>2. ASSUME NEW st \in Statements, Effect(st), st.claim.at # Never,
             st.op = "merge" => st.claim \in claims
      PROVE  ReadyTables(current) \subseteq ReadyTables(current)'
  BY <1>2, EffectKeeps DEF ReadyTables, KGInv
<1>3. CASE InsertBatch
  <2>1. UNCHANGED current
    BY <1>3 DEF InsertBatch, Succeeds, Raises, Effect, Insert
  <2> QED BY <2>1, <1>1
<1>4. CASE MergeBatch
  <2>1. PICK t \in unsent : Effect(Merge(ClaimOf(t))) \/ UNCHANGED current
    BY <1>4 DEF MergeBatch, Succeeds, Raises
  <2>2. observed # Never /\ t \in Profiled /\ ClaimOf(t) \in claims
    BY <1>4 DEF MergeBatch, KGInv, KGFacts, Sent
  <2>3. /\ Merge(ClaimOf(t)) \in Statements
        /\ Merge(ClaimOf(t)).claim = ClaimOf(t) /\ ClaimOf(t).at = observed
    BY <2>2, StatementTypes DEF KGInv
  <2> QED BY <2>1, <2>2, <2>3, <1>1, <1>2
<1>5. CASE LandLate
  BY <1>5, <1>2 DEF LandLate, KGInv, KGTypeOK, KGFacts, LateIsAudited
<1>6. ASSUME ~InsertBatch, ~MergeBatch, ~LandLate PROVE UNCHANGED current
  BY <1>6 DEF KGNext, RefreshStep, StartRefresh, ListTables, ProfileTable, BuildClaims, Publish,
              CrashRefresh, PipelineRuns, WorldChanges, kgVars, warehouseVars
<1> QED BY <1>1, <1>3, <1>4, <1>5, <1>6

\* What the copy in Lakebase offers has claims in the table behind it.
LEMMA SyncedIsBacked == CopyTrails => ReadyTables(synced) \subseteq ReadyTables(current)
BY DEF CopyTrails, ReadyTables

LEMMA PlannerInitInv == Init => PlannerInv
<1> SUFFICES ASSUME Init PROVE PlannerInv OBVIOUS
<1>1. KGInv BY KGInitInv DEF Init
<1>2. TypeOK BY <1>1 DEF Init, PlannerInit, TypeOK, KGInv, Statuses
<1>3. PlannerFacts
  BY DEF Init, PlannerInit, PlannerFacts, PlansAreBacked, Stands, RowsAreFinal, ViewIsBacked
<1> QED BY <1>1, <1>2, <1>3 DEF PlannerInv, KGInv

LEMMA RefreshKeeps ==
  ASSUME PlannerInv, [KGNext]_kgVars, UNCHANGED planVars
  PROVE  PlannerInv'
<1> USE DEF planVars, evidenceVars
<1>1. KGInv BY DEF PlannerInv, TypeOK, KGInv
<1>2. KGInv' BY <1>1, KGNextInv
<1>3. TypeOK' BY <1>2 DEF PlannerInv, TypeOK, KGInv
<1>4. ReadyTables(current) \subseteq ReadyTables(current)' BY <1>1, CurrentGrows
<1>5. view \in SUBSET Tables BY DEF PlannerInv, TypeOK
<1>6. PlansAreBacked' BY <1>4 DEF PlannerInv, PlannerFacts, PlansAreBacked
<1>7. ViewIsBacked' BY <1>4, <1>5 DEF PlannerInv, PlannerFacts, ViewIsBacked, ReadyTables
<1>8. \A p \in Requests : Stands(p)' /\ RowsAreFinal(p)'
  BY DEF PlannerInv, PlannerFacts, Stands, RowsAreFinal, Rechecked
<1> QED BY <1>2, <1>3, <1>6, <1>7, <1>8 DEF PlannerInv, PlannerFacts, KGInv

\* A step of one request leaves the others, and the refresh job, alone.
LEMMA RequestKeeps ==
  ASSUME PlannerInv, NEW p \in Requests, UNCHANGED kgVars,
         servedSnapshot' \in Snapshots \cup {NoSnapshot},
         reqPc' \in [Requests -> {"start", "claims", "plan", "recheck", "reclaims",
                                  "execute", "record", "done"}],
         planSnapshot' \in [Requests -> Snapshots \cup {NoSnapshot}],
         freshSnapshot' \in [Requests -> Snapshots \cup {NoSnapshot}],
         planTables' \in [Requests -> SUBSET Tables],
         freshTables' \in [Requests -> SUBSET Tables],
         outcome' \in [Requests -> Statuses \cup {"none"}],
         rows' \in SUBSET (Requests \X Statuses),
         \A q \in Requests : q # p =>
            /\ reqPc'[q] = reqPc[q] /\ outcome'[q] = outcome[q]
            /\ planSnapshot'[q] = planSnapshot[q] /\ freshSnapshot'[q] = freshSnapshot[q]
            /\ planTables'[q] = planTables[q] /\ freshTables'[q] = freshTables[q]
            /\ \A s \in Statuses : <<q, s>> \in rows' => <<q, s>> \in rows,
         planTables'[p] \in {planTables[p], ReadyTables(synced)},
         view' \in {view, planTables[p]},
         executed' \in {executed, executed \cup {p}},
         lateViews' \in {lateViews, lateViews \cup {p}, lateViews \ {p}},
         Stands(p)', RowsAreFinal(p)'
  PROVE  PlannerInv'
<1>1. KGInv' /\ ReadyTables(current)' = ReadyTables(current)
  BY WorldInv DEF PlannerInv, TypeOK, KGInv, kgVars, warehouseVars, ReadyTables
<1>2. TypeOK' BY <1>1 DEF PlannerInv, TypeOK, KGInv
<1>3. ReadyTables(synced) \subseteq ReadyTables(current)
  BY SyncedIsBacked DEF PlannerInv, KGFacts
<1>4. PlansAreBacked'
  BY <1>1, <1>3 DEF PlannerInv, PlannerFacts, PlansAreBacked
<1>5. view' \subseteq ReadyTables(current)'
  <2>1. view \subseteq ReadyTables(current)
    BY DEF PlannerInv, PlannerFacts, TypeOK, ViewIsBacked, ReadyTables
  <2> QED BY <1>1, <2>1 DEF PlannerInv, PlannerFacts, PlansAreBacked
<1>6. ViewIsBacked' BY <1>5 DEF ViewIsBacked, ReadyTables
<1>7. \A q \in Requests : Stands(q)' /\ RowsAreFinal(q)'
  BY DEF PlannerInv, PlannerFacts, Stands, Rechecked, RowsAreFinal
<1> QED BY <1>1, <1>2, <1>4, <1>6, <1>7 DEF PlannerInv, PlannerFacts, KGInv

LEMMA ReadSnapshotInv == ASSUME PlannerInv, NEW p \in Requests, ReadSnapshot(p) PROVE PlannerInv'
<1>1. /\ reqPc[p] = "start"
      /\ \E pc \in {"claims", "done"} : reqPc' = [reqPc EXCEPT ![p] = pc]
      /\ planSnapshot' \in {planSnapshot, [planSnapshot EXCEPT ![p] = servedSnapshot]}
      /\ UNCHANGED <<kgVars, servedSnapshot, planTables, freshSnapshot, freshTables,
                     outcome, rows, view, lateViews, executed>>
  BY DEF ReadSnapshot
<1>2. TypeOK /\ Stands(p) /\ RowsAreFinal(p) BY DEF PlannerInv, PlannerFacts
<1>3. Stands(p)' BY <1>1, <1>2 DEF TypeOK, Stands
<1>4. RowsAreFinal(p)' BY <1>1, <1>2 DEF TypeOK, RowsAreFinal
<1> QED BY <1>1, <1>2, <1>3, <1>4, RequestKeeps DEF TypeOK

LEMMA ReadClaimsInv == ASSUME PlannerInv, NEW p \in Requests, ReadClaims(p) PROVE PlannerInv'
<1>1. /\ reqPc[p] = "claims"
      /\ \E pc \in {"plan", "done"} : reqPc' = [reqPc EXCEPT ![p] = pc]
      /\ planTables' \in {planTables, [planTables EXCEPT ![p] = ReadyTables(synced)]}
      /\ UNCHANGED <<kgVars, servedSnapshot, planSnapshot, freshSnapshot, freshTables,
                     outcome, rows, view, lateViews, executed>>
  BY DEF ReadClaims
<1>2. TypeOK /\ Stands(p) /\ RowsAreFinal(p) BY DEF PlannerInv, PlannerFacts
<1>3. Stands(p)' BY <1>1, <1>2 DEF TypeOK, Stands
<1>4. RowsAreFinal(p)' BY <1>1, <1>2 DEF TypeOK, RowsAreFinal
<1>5. ReadyTables(synced) \in SUBSET Tables BY DEF ReadyTables
<1> QED BY <1>1, <1>2, <1>3, <1>4, <1>5, RequestKeeps DEF TypeOK

LEMMA PersistPlannedInv ==
  ASSUME PlannerInv, NEW p \in Requests, PersistPlanned(p) PROVE PlannerInv'
<1>1. /\ reqPc[p] = "plan" /\ reqPc' = [reqPc EXCEPT ![p] = "recheck"]
      /\ outcome' = [outcome EXCEPT ![p] = "planned"]
      /\ rows' \in {rows, rows \cup {<<p, "planned">>}}
      /\ UNCHANGED <<kgVars, servedSnapshot, evidenceVars, view, lateViews, executed>>
  BY DEF PersistPlanned, PersistRow
<1>2. TypeOK /\ Stands(p) /\ RowsAreFinal(p) BY DEF PlannerInv, PlannerFacts
<1>3. Stands(p)' BY <1>1, <1>2 DEF TypeOK, Stands
<1>4. RowsAreFinal(p)' BY <1>1, <1>2 DEF TypeOK, RowsAreFinal
<1>5. rows' \in SUBSET (Requests \X Statuses) BY <1>1, <1>2 DEF TypeOK, Statuses
<1>6. outcome' \in [Requests -> Statuses \cup {"none"}] BY <1>1, <1>2 DEF TypeOK, Statuses
<1> QED BY <1>1, <1>2, <1>3, <1>4, <1>5, <1>6, RequestKeeps DEF TypeOK, evidenceVars

LEMMA RereadSnapshotInv ==
  ASSUME PlannerInv, NEW p \in Requests, RereadSnapshot(p) PROVE PlannerInv'
<1>1. /\ reqPc[p] = "recheck"
      /\ \/ /\ reqPc' = [reqPc EXCEPT ![p] = "reclaims"]
            /\ \E s \in Anchored \cup {NoSnapshot} : freshSnapshot' = [freshSnapshot EXCEPT ![p] = s]
         \/ reqPc' = [reqPc EXCEPT ![p] = "done"] /\ UNCHANGED freshSnapshot
      /\ UNCHANGED <<kgVars, servedSnapshot, planSnapshot, planTables, freshTables,
                     outcome, rows, view, lateViews, executed>>
  BY DEF RereadSnapshot
<1>2. TypeOK /\ Stands(p) /\ RowsAreFinal(p) BY DEF PlannerInv, PlannerFacts
<1>3. Stands(p)' BY <1>1, <1>2 DEF TypeOK, Stands
<1>4. RowsAreFinal(p)' BY <1>1, <1>2 DEF TypeOK, RowsAreFinal
<1> QED BY <1>1, <1>2, <1>3, <1>4, RequestKeeps, AnchoredAssumption DEF TypeOK

LEMMA RecheckInv == ASSUME PlannerInv, NEW p \in Requests, Recheck(p) PROVE PlannerInv'
<1> DEFINE fresh == IF freshSnapshot[p] = NoSnapshot THEN {} ELSE ReadyTables(synced)
<1>1. /\ reqPc[p] = "reclaims"
      /\ \/ /\ freshTables' = [freshTables EXCEPT ![p] = fresh]
            /\ \/ /\ StillValid(p, fresh) /\ UNCHANGED outcome
                  /\ reqPc' = [reqPc EXCEPT ![p] = "execute"]
               \/ /\ reqPc' = [reqPc EXCEPT ![p] = "record"]
                  /\ outcome' = [outcome EXCEPT ![p] = "blocked_evidence_drift"]
         \/ reqPc' = [reqPc EXCEPT ![p] = "done"] /\ UNCHANGED <<freshTables, outcome>>
      /\ UNCHANGED <<kgVars, servedSnapshot, planSnapshot, planTables, freshSnapshot,
                     rows, view, lateViews, executed>>
  BY DEF Recheck
<1>2. TypeOK /\ Stands(p) /\ RowsAreFinal(p) BY DEF PlannerInv, PlannerFacts
<1>3. fresh \in SUBSET Tables /\ (fresh # {} => freshSnapshot[p] # NoSnapshot)
  BY DEF ReadyTables
<1> HIDE DEF fresh
<1>4. p \notin executed \cup lateViews BY <1>1, <1>2 DEF Stands
<1>5. Stands(p)'
  BY <1>1, <1>2, <1>3, <1>4 DEF TypeOK, Stands, Rechecked, StillValid, Statuses
<1>6. RowsAreFinal(p)' BY <1>1, <1>2 DEF TypeOK, RowsAreFinal
<1>7. outcome' \in [Requests -> Statuses \cup {"none"}] BY <1>1, <1>2 DEF TypeOK, Statuses
<1> QED BY <1>1, <1>2, <1>3, <1>5, <1>6, <1>7, RequestKeeps DEF TypeOK

LEMMA ExecuteViewInv == ASSUME PlannerInv, NEW p \in Requests, ExecuteView(p) PROVE PlannerInv'
<1>1. /\ reqPc[p] = "execute" /\ reqPc' = [reqPc EXCEPT ![p] = "record"]
      /\ \/ /\ view' = planTables[p] /\ executed' = executed \cup {p} /\ UNCHANGED lateViews
            /\ outcome' = [outcome EXCEPT ![p] = "built"]
         \/ /\ lateViews' \in {lateViews, lateViews \cup {p}} /\ UNCHANGED <<view, executed>>
            /\ outcome' = [outcome EXCEPT ![p] = "build_failed"]
      /\ UNCHANGED <<kgVars, servedSnapshot, evidenceVars, rows>>
  BY DEF ExecuteView, CreateView
<1>2. TypeOK /\ Stands(p) /\ RowsAreFinal(p) BY DEF PlannerInv, PlannerFacts
<1>3. Stands(p)' BY <1>1, <1>2 DEF TypeOK, Stands, Rechecked, Statuses, evidenceVars
<1>4. RowsAreFinal(p)' BY <1>1, <1>2 DEF TypeOK, RowsAreFinal
<1>5. outcome' \in [Requests -> Statuses \cup {"none"}] BY <1>1, <1>2 DEF TypeOK, Statuses
<1> QED BY <1>1, <1>2, <1>3, <1>4, <1>5, RequestKeeps DEF TypeOK, evidenceVars

LEMMA PersistOutcomeInv ==
  ASSUME PlannerInv, NEW p \in Requests, PersistOutcome(p) PROVE PlannerInv'
<1>1. /\ reqPc[p] = "record" /\ reqPc' = [reqPc EXCEPT ![p] = "done"]
      /\ rows' \in {rows, rows \cup {<<p, outcome[p]>>}}
      /\ UNCHANGED <<kgVars, servedSnapshot, evidenceVars, outcome, view, lateViews, executed>>
  BY DEF PersistOutcome, PersistRow
<1>2. TypeOK /\ Stands(p) /\ RowsAreFinal(p) BY DEF PlannerInv, PlannerFacts
<1>3. Stands(p)' BY <1>1, <1>2 DEF TypeOK, Stands, Rechecked, evidenceVars
<1>4. RowsAreFinal(p)' BY <1>1, <1>2 DEF TypeOK, RowsAreFinal
<1>5. rows' \in SUBSET (Requests \X Statuses) BY <1>1, <1>2 DEF TypeOK, Stands
<1> QED BY <1>1, <1>2, <1>3, <1>4, <1>5, RequestKeeps DEF TypeOK, evidenceVars

LEMMA LandViewInv == ASSUME PlannerInv, LandLateView PROVE PlannerInv'
<1>1. PICK p \in lateViews :
        /\ view' = planTables[p] /\ executed' = executed \cup {p}
        /\ lateViews' = lateViews \ {p}
        /\ UNCHANGED <<kgVars, servedSnapshot, reqPc, evidenceVars, outcome, rows>>
  BY DEF LandLateView, CreateView
<1>2. /\ p \in Requests /\ TypeOK BY DEF PlannerInv, TypeOK
<1>3. Stands(p) /\ RowsAreFinal(p) BY <1>2 DEF PlannerInv, PlannerFacts
<1>4. Stands(p)' BY <1>1, <1>3 DEF Stands, Rechecked, evidenceVars
<1>5. RowsAreFinal(p)' BY <1>1, <1>3 DEF RowsAreFinal
<1> QED BY <1>1, <1>2, <1>4, <1>5, RequestKeeps DEF TypeOK, evidenceVars

LEMMA ServedInv == ASSUME PlannerInv, ServedSnapshotChanges PROVE PlannerInv'
<1> USE DEF ServedSnapshotChanges, evidenceVars
<1>1. KGInv' BY WorldInv DEF PlannerInv, TypeOK, KGInv
<1>2. TypeOK' BY <1>1 DEF PlannerInv, TypeOK, KGInv
<1>3. PlansAreBacked' /\ ViewIsBacked'
  BY DEF PlannerInv, PlannerFacts, PlansAreBacked, ViewIsBacked, ReadyTables, kgVars, warehouseVars
<1>4. \A p \in Requests : Stands(p)' /\ RowsAreFinal(p)'
  BY DEF PlannerInv, PlannerFacts, Stands, Rechecked, RowsAreFinal
<1> QED BY <1>1, <1>2, <1>3, <1>4 DEF PlannerInv, PlannerFacts, KGInv

LEMMA PlannerNextInv == PlannerInv /\ [Next]_vars => PlannerInv'
<1> SUFFICES ASSUME PlannerInv, [Next]_vars PROVE PlannerInv' OBVIOUS
<1>1. CASE (KGNext /\ UNCHANGED planVars) \/ UNCHANGED vars
  BY <1>1, RefreshKeeps DEF vars
<1>2. ASSUME NEW p \in Requests, RequestStep(p) PROVE PlannerInv'
  BY <1>2, ReadSnapshotInv, ReadClaimsInv, PersistPlannedInv, RereadSnapshotInv, RecheckInv,
     ExecuteViewInv, PersistOutcomeInv DEF RequestStep
<1>3. CASE LandLateView BY <1>3, LandViewInv
<1>4. CASE ServedSnapshotChanges BY <1>4, ServedInv
<1> QED BY <1>1, <1>2, <1>3, <1>4 DEF Next

-----------------------------------------------------------------------------
(* What the console can rely on. *)

\* Every variable of the job, its tables and the requests keeps to its domain.
THEOREM PlannerTypeCorrect == Spec => []TypeOK
<1>1. PlannerInv => TypeOK BY DEF PlannerInv
<1> QED BY <1>1, PlannerInitInv, PlannerNextInv, PTL DEF Spec

\* workspace_claims holds every row that workspace_claims_current or its copy in
\* Lakebase ever shows, however often _upsert_claims is retried and whenever its
\* statements land.
THEOREM ReadModelIsAudited == Spec => []ReadModelAudited
<1>1. PlannerInv => ReadModelAudited BY DEF PlannerInv, KGFacts
<1> QED BY <1>1, PlannerInitInv, PlannerNextInv, PTL DEF Spec

\* A refresh at its publish task has every profile of its last attempt in
\* workspace_claims_current.
THEOREM RefreshesComplete == Spec => []RefreshIsComplete
<1>1. PlannerInv => RefreshIsComplete BY DEF PlannerInv, KGFacts
<1> QED BY <1>1, PlannerInitInv, PlannerNextInv, PTL DEF Spec

\* The quality view of plan_and_build covers tables with claims only, although it was
\* planned from a copy and may be created after its request gave up.
THEOREM ViewsAreBacked == Spec => []ViewIsBacked
<1>1. PlannerInv => ViewIsBacked BY DEF PlannerInv, PlannerFacts
<1> QED BY <1>1, PlannerInitInv, PlannerNextInv, PTL DEF Spec

\* A plan recorded as built made its view and one recorded as blocked never does,
\* late CREATE VIEW statements included.
THEOREM StatusesAreTrue == Spec => []StatusTruthful
<1>1. PlannerInv => StatusTruthful
  BY DEF PlannerInv, PlannerFacts, Stands, RowsAreFinal, StatusTruthful, Statuses
<1> QED BY <1>1, PlannerInitInv, PlannerNextInv, PTL DEF Spec

\* Every view comes from a plan whose snapshot was served, with its anchors, when
\* its evidence was checked a second time.
THEOREM EvidenceIsRechecked == Spec => []BuiltOnRecheckedEvidence
<1>1. PlannerInv => BuiltOnRecheckedEvidence
  BY DEF PlannerInv, PlannerFacts, TypeOK, Stands, Rechecked, BuiltOnRecheckedEvidence
<1> QED BY <1>1, PlannerInitInv, PlannerNextInv, PTL DEF Spec
=============================================================================

-------------------------- MODULE ConsoleReadsProofs --------------------------
(***************************************************************************)
(* What holds of LakebasePublish for any snapshots, tables and number of   *)
(* retries, and of ConsoleReads on top of it for any requests and          *)
(* connections.                                                            *)
(***************************************************************************)
EXTENDS ConsoleReads, TLAPS

-----------------------------------------------------------------------------
(* The inductive invariant of the publish.                                  *)

Phases == {"idle", "build", "promoted", "recorded", "delete", "create", "verify"}

\* The run has moved the pointer and is not over.
Pending == phase \in {"promoted", "recorded", "delete", "create", "verify"}

PublishTypes ==
    /\ complete \subseteq Snapshots
    /\ served \subseteq complete /\ stamped \subseteq served
    /\ active \in served \cup {NoSnapshot} /\ (active = NoSnapshot => served = {})
    /\ phase \in Phases
    /\ runSnap \in Snapshots \cup {NoSnapshot}
    /\ at \in 1..Len(Order)
    /\ noted \in BOOLEAN
    /\ synced \subseteq Tables /\ updating \subseteq synced /\ present \subseteq Tables
    /\ copy \in [Tables -> SUBSET Snapshots]
    /\ published \in Snapshots \cup {NoSnapshot}

\* While the run has yet to publish, nothing is published, and the pointer is
\* where the run put it unless an operator moved it.
RunServes ==
    Pending => /\ published = NoSnapshot
               /\ runSnap \in served
               /\ active = runSnap \/ moved

\* A table that has the run's rows has those of every complete snapshot: the
\* run's are the youngest.
CopiesWhole ==
    \A t \in Verified :
        /\ copy[t] \subseteq complete
        /\ runSnap \in copy[t] => complete \subseteq copy[t]

\* What has rows in Postgres exists there; the pointer was served.
CopiesExist ==
    /\ \A t \in Tables : copy[t] # {} => t \in present
    /\ copy[Pointer] \subseteq served

\* Until the next promotion, all that can be served is in the copies.
PublishedKept ==
    published # NoSnapshot =>
        /\ active # NoSnapshot
        /\ copy[Pointer] # {}
        /\ \A t \in Verified : served \subseteq copy[t]

\* An attempt that has noted no failure has created what it went past.
TriedAll ==
    /\ phase = "create" /\ ~noted => \A i \in 1..(at - 1) : Order[i] \in synced
    /\ phase = "verify" => synced = Tables

PublishInv ==
    /\ PublishTypes /\ RunServes /\ CopiesWhole /\ CopiesExist /\ PublishedKept /\ TriedAll
    /\ PublishedAgrees /\ NoHoleAfterSuccess

-----------------------------------------------------------------------------
(* The order of the tables.                                                 *)

LEMMA OrderFacts ==
  /\ Len(Order) \in Nat \ {0} /\ 1 \in 1..Len(Order)
  /\ \A i \in 1..Len(Order) : Order[i] \in Tables
  /\ \A t \in Tables : \E i \in 1..Len(Order) : Order[i] = t
<1>1. Order \in Seq(Tables) /\ {Order[i] : i \in 1..Len(Order)} = Tables /\ Pointer \in Tables
  BY TablesAssumption
<1>2. Len(Order) \in Nat BY <1>1
<1>3. \A t \in Tables : \E i \in 1..Len(Order) : Order[i] = t BY <1>1
<1>4. \A i \in 1..Len(Order) : Order[i] \in Tables BY <1>1
<1>5. \E i \in 1..Len(Order) : TRUE BY <1>1, <1>3
<1>6. Len(Order) # 0 BY <1>2, <1>5
<1> QED BY <1>2, <1>3, <1>4, <1>6

LEMMA PublishInitInv == PublishInit => PublishInv
<1> SUFFICES ASSUME PublishInit PROVE PublishInv OBVIOUS
<1> USE DEF PublishInit, Init
<1>1. PublishTypes BY OrderFacts DEF PublishTypes, Phases
<1>2. CopiesWhole /\ CopiesExist
  BY TablesAssumption DEF CopiesWhole, CopiesExist
<1>3. RunServes /\ PublishedKept /\ TriedAll /\ PublishedAgrees /\ NoHoleAfterSuccess
  BY DEF RunServes, Pending, PublishedKept, TriedAll, PublishedAgrees, NoHoleAfterSuccess
<1> QED BY <1>1, <1>2, <1>3 DEF PublishInv

-----------------------------------------------------------------------------
(* The steps that leave Lakebase alone.                                     *)

LEMMA BuildInv == ASSUME PublishInv, Build PROVE PublishInv'
<1> USE DEF PublishInv
<1>1. PICK s \in Snapshots \ complete : Prepare(s) /\ runSnap' = s
  BY DEF Build
<1>2. /\ phase = "idle" /\ phase' = "build"
      /\ UNCHANGED <<active, served, stamped, retired, attempt, reset, at, noted,
                     lakebaseVars, historyVars>>
      /\ complete' \in {complete, complete \cup {s}}
  BY <1>1 DEF Build, Prepare
<1> USE DEF lakebaseVars, historyVars
<1>3. PublishTypes' BY <1>1, <1>2 DEF PublishTypes, Phases
<1>4. CopiesWhole' BY <1>1, <1>2 DEF CopiesWhole
<1>5. RunServes' /\ CopiesExist' /\ PublishedKept' /\ TriedAll' /\ PublishedAgrees'
        /\ NoHoleAfterSuccess'
  BY <1>2 DEF RunServes, Pending, CopiesExist, PublishedKept, TriedAll, PublishedAgrees,
              NoHoleAfterSuccess, Syncing
<1> QED BY <1>3, <1>4, <1>5

LEMMA PromoteInv == ASSUME PublishInv, Promote \/ LateServe PROVE PublishInv'
<1> USE DEF PublishInv
<1>1. PICK s \in Snapshots : Serve(s) /\ (Promote => s = runSnap)
  BY SnapshotAssumption DEF Promote, LateServe, PublishTypes, Serve
<1>2. /\ s \in complete /\ active' = s /\ served' = served \cup {s}
      /\ UNCHANGED <<complete, stamped, runSnap, at, noted, lakebaseVars, lastSync>>
      /\ published' = NoSnapshot /\ moved' = FALSE
      /\ \/ phase = "build" /\ phase' = "promoted" /\ s = runSnap
         \/ phase = "idle" /\ phase' = "idle"
  BY <1>1 DEF Serve, Promote, LateServe, taskVars
<1> USE DEF lakebaseVars
<1>3. PublishTypes' BY <1>2, SnapshotAssumption DEF PublishTypes, Phases
<1>4. CopiesWhole' /\ CopiesExist' BY <1>2 DEF CopiesWhole, CopiesExist
<1>5. RunServes' /\ PublishedKept' /\ TriedAll' /\ PublishedAgrees' /\ NoHoleAfterSuccess'
  BY <1>2 DEF RunServes, Pending, PublishedKept, TriedAll, PublishedAgrees,
              NoHoleAfterSuccess, Syncing
<1> QED BY <1>3, <1>4, <1>5

LEMMA RollbackInv == ASSUME PublishInv, Rollback PROVE PublishInv'
<1> USE DEF PublishInv
<1>1. PICK s \in stamped : Serve(s) BY DEF Rollback
<1>2. /\ active' = s /\ served' = served /\ s # NoSnapshot
      /\ UNCHANGED <<complete, stamped, taskVars, lakebaseVars, lastSync, published>>
      /\ moved' = TRUE
  BY <1>1, SnapshotAssumption DEF Serve, Rollback, PublishTypes
<1> USE DEF taskVars, lakebaseVars
<1>3. PublishTypes' BY <1>1, <1>2 DEF PublishTypes
<1>4. /\ RunServes' /\ CopiesWhole' /\ CopiesExist' /\ PublishedKept' /\ TriedAll'
      /\ PublishedAgrees' /\ NoHoleAfterSuccess'
  BY <1>2 DEF RunServes, Pending, CopiesWhole, CopiesExist, PublishedKept, TriedAll,
              PublishedAgrees, NoHoleAfterSuccess, Syncing
<1> QED BY <1>3, <1>4

LEMMA StampInv == ASSUME PublishInv, Stamp PROVE PublishInv'
<1> USE DEF PublishInv
<1>1. /\ phase = "promoted" /\ phase' = "recorded" /\ stamped' = stamped \cup {runSnap}
      /\ runSnap \in served
      /\ UNCHANGED <<complete, active, served, runSnap, at, noted, lakebaseVars, historyVars>>
  BY DEF Stamp, Record
<1> USE DEF lakebaseVars, historyVars
<1>2. PublishTypes' BY <1>1 DEF PublishTypes, Phases
<1>3. /\ RunServes' /\ CopiesWhole' /\ CopiesExist' /\ PublishedKept' /\ TriedAll'
      /\ PublishedAgrees' /\ NoHoleAfterSuccess'
  BY <1>1 DEF RunServes, Pending, CopiesWhole, CopiesExist, PublishedKept, TriedAll,
              PublishedAgrees, NoHoleAfterSuccess, Syncing
<1> QED BY <1>2, <1>3

\* The end of a run, whatever it has published.
LEMMA EndRunInv ==
  ASSUME PublishTypes, CopiesWhole, CopiesExist, EndRun, PublishedKept', PublishedAgrees',
         NoHoleAfterSuccess', published' \in Snapshots \cup {NoSnapshot},
         UNCHANGED <<registryVars, lakebaseVars>>
  PROVE  PublishInv'
<1>1. /\ phase' = "idle" /\ runSnap' = NoSnapshot /\ at' = 1 /\ noted' = FALSE
      /\ UNCHANGED <<complete, active, served, stamped, synced, updating, present, copy>>
  BY DEF EndRun, registryVars, lakebaseVars
<1>2. PublishTypes' BY <1>1, OrderFacts DEF PublishTypes, Phases
<1>3. CopiesWhole'
  BY <1>1, SnapshotAssumption DEF CopiesWhole, PublishTypes
<1>4. RunServes' /\ CopiesExist' /\ TriedAll'
  BY <1>1 DEF RunServes, Pending, CopiesExist, TriedAll
<1> QED BY <1>2, <1>3, <1>4 DEF PublishInv

LEMMA SkipInv == ASSUME PublishInv, SkipSync PROVE PublishInv'
<1>1. /\ phase \in {"build", "promoted", "recorded"} /\ phase' = "idle" /\ EndRun
      /\ UNCHANGED <<registryVars, lakebaseVars, historyVars>>
  BY DEF SkipSync, EndRun
<1>2. PublishedKept' /\ PublishedAgrees' /\ NoHoleAfterSuccess'
  BY <1>1 DEF PublishInv, PublishedKept, PublishedAgrees, NoHoleAfterSuccess, Syncing,
              registryVars, lakebaseVars, historyVars
<1> QED BY <1>1, <1>2, EndRunInv DEF PublishInv, PublishTypes, historyVars

-----------------------------------------------------------------------------
(* The sync task.                                                           *)

\* A step of the task as far as it has come: within the attempt, at the start of
\* another, or at the end of the run that failed.
LEMMA StartInv == ASSUME PublishInv, StartSync PROVE PublishInv'
<1> USE DEF PublishInv
<1>1. /\ phase = "recorded" /\ phase' \in {"delete", "create"} /\ at' = 1 /\ noted' = FALSE
      /\ UNCHANGED <<registryVars, runSnap, lakebaseVars, historyVars>>
  BY DEF StartSync, BeginAttempt
<1> USE DEF registryVars, lakebaseVars, historyVars
<1>2. PublishTypes' BY <1>1, OrderFacts DEF PublishTypes, Phases
<1>3. /\ RunServes' /\ CopiesWhole' /\ CopiesExist' /\ PublishedKept' /\ TriedAll'
      /\ PublishedAgrees' /\ NoHoleAfterSuccess'
  BY <1>1 DEF RunServes, Pending, CopiesWhole, CopiesExist, PublishedKept, TriedAll,
              PublishedAgrees, NoHoleAfterSuccess, Syncing
<1> QED BY <1>2, <1>3

\* What the task may do to Lakebase before it polls.
Touches ==
    /\ synced' \subseteq Tables /\ updating' \subseteq synced' /\ present' \subseteq Tables
    /\ copy' \in [Tables -> SUBSET Snapshots]
    /\ \A t \in Tables : copy'[t] \in {copy[t], {}}
    /\ \A t \in Tables : copy'[t] # {} => t \in present'

LEMMA TouchesKeep ==
  ASSUME PublishInv, Touches, Syncing, UNCHANGED <<registryVars, published, moved>>,
         runSnap' \in {runSnap, NoSnapshot}
  PROVE  CopiesWhole' /\ CopiesExist' /\ PublishedKept' /\ PublishedAgrees'
<1> USE DEF PublishInv, registryVars
<1>1. published' = NoSnapshot BY DEF RunServes, Pending, Syncing
<1>2. Verified \subseteq Tables /\ Pointer \in Tables BY TablesAssumption
<1>3. NoSnapshot \notin complete BY SnapshotAssumption DEF PublishTypes
<1>4. CopiesWhole'
  <2> SUFFICES ASSUME NEW t \in Verified
               PROVE  /\ copy'[t] \subseteq complete
                      /\ runSnap' \in copy'[t] => complete \subseteq copy'[t]
    BY DEF CopiesWhole
  <2>1. copy[t] \subseteq complete /\ (runSnap \in copy[t] => complete \subseteq copy[t])
    BY DEF CopiesWhole
  <2>2. copy'[t] = copy[t] \/ copy'[t] = {} BY <1>2 DEF Touches
  <2> QED BY <1>3, <2>1, <2>2
<1>5. CopiesExist' BY <1>2 DEF CopiesExist, Touches
<1> QED BY <1>1, <1>4, <1>5 DEF PublishedKept, PublishedAgrees

LEMMA FailsInv ==
  ASSUME PublishInv, Touches, Syncing, Fails, UNCHANGED registryVars
  PROVE  PublishInv'
<1>1. /\ lastSync' = "failed" /\ UNCHANGED <<published, moved>>
      /\ at' = 1 /\ noted' = FALSE
      /\ \/ phase' \in {"delete", "create"} /\ runSnap' = runSnap
         \/ phase' = "idle" /\ runSnap' = NoSnapshot
  BY DEF Fails, Restart, BeginAttempt, EndRun
<1>2. CopiesWhole' /\ CopiesExist' /\ PublishedKept' /\ PublishedAgrees'
  BY <1>1, TouchesKeep
<1>3. PublishTypes'
  BY <1>1, OrderFacts DEF PublishInv, PublishTypes, Phases, Touches, registryVars
<1>4. RunServes' /\ TriedAll' /\ NoHoleAfterSuccess'
  BY <1>1 DEF PublishInv, RunServes, Pending, Syncing, TriedAll, NoHoleAfterSuccess, registryVars
<1> QED BY <1>2, <1>3, <1>4 DEF PublishInv

\* The attempt goes on to its next table or phase.
LEMMA GoesOnInv ==
  ASSUME PublishInv, Touches, Syncing,
         UNCHANGED <<registryVars, runSnap, attempt, reset, historyVars>>,
         phase' \in {"delete", "create", "verify"}, at' \in 1..Len(Order), noted' \in BOOLEAN,
         TriedAll'
  PROVE  PublishInv'
<1>1. CopiesWhole' /\ CopiesExist' /\ PublishedKept' /\ PublishedAgrees'
  BY TouchesKeep DEF historyVars
<1>2. PublishTypes'
  BY DEF PublishInv, PublishTypes, Phases, Touches, registryVars, historyVars
<1>3. RunServes' /\ NoHoleAfterSuccess'
  BY DEF PublishInv, RunServes, Pending, Syncing, NoHoleAfterSuccess, registryVars, historyVars
<1> QED BY <1>1, <1>2, <1>3 DEF PublishInv

LEMMA DeleteInv == ASSUME PublishInv, DeleteSynced PROVE PublishInv'
<1> USE DEF PublishInv
<1> DEFINE t == Order[at]
<1>1. phase = "delete" /\ t \in Tables /\ UNCHANGED registryVars
  BY OrderFacts DEF DeleteSynced, PublishTypes
<1>2. Syncing BY <1>1 DEF Syncing
<1>3. ASSUME Deleted(t) \/ UNCHANGED <<synced, updating>>,
             Dropped(t) \/ UNCHANGED <<present, copy>>
      PROVE  Touches
  BY <1>1, <1>3 DEF Deleted, Dropped, Touches, PublishTypes, CopiesExist
<1>4. CASE Fails
  <2>1. \/ UNCHANGED lakebaseVars
        \/ Deleted(t) /\ (UNCHANGED <<present, copy>> \/ Dropped(t))
        \/ Deleted(t) /\ Dropped(t)
    BY DEF DeleteSynced
  <2>2. Touches BY <1>3, <2>1 DEF lakebaseVars
  <2> QED BY <1>1, <1>2, <1>4, <2>2, FailsInv
<1>5. CASE ~Fails
  <2>1. /\ Deleted(t) /\ Dropped(t)
        /\ IF at < Len(Order) THEN phase' = "delete" /\ at' = at + 1
                              ELSE phase' = "create" /\ at' = 1
        /\ UNCHANGED <<runSnap, attempt, reset, noted, historyVars>>
    BY <1>5 DEF DeleteSynced
  <2>2. at' \in 1..Len(Order) BY <2>1, OrderFacts DEF PublishTypes
  <2>3. TriedAll' BY <2>1 DEF TriedAll
  <2>4. noted' \in BOOLEAN BY <2>1 DEF PublishTypes
  <2> QED BY <1>1, <1>2, <1>3, <2>1, <2>2, <2>3, <2>4, GoesOnInv
<1> QED BY <1>4, <1>5

LEMMA CreateInv == ASSUME PublishInv, CreateSynced PROVE PublishInv'
<1> USE DEF PublishInv
<1> DEFINE t == Order[at]
<1>1. phase = "create" /\ t \in Tables /\ UNCHANGED <<registryVars, present, copy>>
  BY OrderFacts DEF CreateSynced, PublishTypes
<1>2. Syncing BY <1>1 DEF Syncing
<1>3. ASSUME synced' \in {synced, synced \cup {t}}, updating' \in {updating, updating \cup {t}},
             t \in updating' => t \in synced'
      PROVE  Touches
  BY <1>1, <1>3 DEF Touches, PublishTypes, CopiesExist
<1>4. CASE t \in synced /\ Fails /\ UNCHANGED <<synced, updating>>
  <2>1. Touches BY <1>3, <1>4 DEF PublishTypes
  <2> QED BY <1>1, <1>2, <1>4, <2>1, FailsInv
<1>5. ASSUME NEW n \in BOOLEAN, Created(t, n) \/ Refreshed(t, n) \/ CreateFailed(t, n),
             \/ at = Len(Order) /\ n /\ Fails
             \/ /\ at < Len(Order) \/ ~n
                /\ IF at < Len(Order) THEN phase' = "create" /\ at' = at + 1
                                      ELSE phase' = "verify" /\ at' = 1
                /\ noted' = n
                /\ UNCHANGED <<runSnap, attempt, reset, historyVars>>
      PROVE  PublishInv'
  <2>1. Touches
    BY <1>3, <1>5 DEF Created, Refreshed, CreateFailed, PublishTypes
  <2>2. synced \subseteq synced' /\ (n \/ (~noted /\ t \in synced'))
    BY <1>5 DEF Created, Refreshed, CreateFailed, PublishTypes
  <2>3. CASE Fails BY <1>1, <1>2, <2>1, <2>3, FailsInv
  <2>4. CASE ~Fails
    <3>1. /\ at < Len(Order) \/ ~n
          /\ IF at < Len(Order) THEN phase' = "create" /\ at' = at + 1
                                ELSE phase' = "verify" /\ at' = 1
          /\ noted' = n
          /\ UNCHANGED <<runSnap, attempt, reset, historyVars>>
      BY <1>5, <2>4
    <3>2. at \in 1..Len(Order) /\ Len(Order) \in Nat BY OrderFacts DEF PublishTypes
    <3>3. at' \in 1..Len(Order) BY <3>1, <3>2
    <3>4. ~n => \A i \in 1..at : Order[i] \in synced'
      <4> SUFFICES ASSUME ~n, NEW i \in 1..at PROVE Order[i] \in synced' OBVIOUS
      <4>1. CASE i = at BY <2>2, <4>1
      <4>2. CASE i # at
        <5>1. i \in 1..(at - 1) BY <3>2, <4>2
        <5> QED BY <1>1, <2>2, <5>1 DEF TriedAll
      <4> QED BY <4>1, <4>2
    <3>5. TriedAll'
      <4>1. CASE at < Len(Order)
        <5>1. phase' = "create" /\ at' - 1 = at /\ noted' = n BY <3>1, <3>2, <4>1
        <5> QED BY <3>4, <5>1 DEF TriedAll
      <4>2. CASE ~(at < Len(Order))
        <5>1. phase' = "verify" /\ ~n /\ at = Len(Order) BY <3>1, <3>2, <4>2
        <5>2. Tables \subseteq synced' BY <3>4, <5>1, OrderFacts
        <5> QED BY <2>1, <5>1, <5>2 DEF TriedAll, Touches
      <4> QED BY <4>1, <4>2
    <3> QED BY <1>1, <1>2, <2>1, <3>1, <3>3, <3>5, GoesOnInv
  <2> QED BY <2>3, <2>4
<1> QED BY <1>4, <1>5 DEF CreateSynced

LEMMA PollInv == ASSUME PublishInv, Poll PROVE PublishInv'
<1> USE DEF PublishInv
<1>1. phase = "verify" /\ Syncing /\ UNCHANGED <<registryVars, lakebaseVars>>
  BY DEF Poll, Syncing
<1>2. CASE Fails
  <2>1. Touches BY <1>1 DEF Touches, PublishTypes, CopiesExist, lakebaseVars
  <2> QED BY <1>1, <1>2, <2>1, FailsInv
<1>3. CASE ~Fails
  <2>1. /\ copy[Pointer] = {runSnap} /\ \A t \in Verified : runSnap \in copy[t]
        /\ lastSync' = "ok" /\ published' = runSnap /\ EndRun /\ UNCHANGED moved
    BY <1>3 DEF Poll, CaughtUp
  <2>2. runSnap \in served /\ (active = runSnap \/ moved) /\ synced = Tables
    BY <1>1 DEF RunServes, Pending, TriedAll
  <2>3. active # NoSnapshot BY <2>2 DEF PublishTypes
  <2>4. \A t \in Verified : served \subseteq copy[t]
    BY <2>1 DEF CopiesWhole, PublishTypes
  <2>5. Verified \cup {Pointer} \subseteq present
    BY <2>1, TablesAssumption DEF CopiesExist
  <2>6. PublishedAgrees' /\ NoHoleAfterSuccess'
    BY <1>1, <2>1, <2>2, <2>5 DEF PublishedAgrees, NoHoleAfterSuccess, registryVars, lakebaseVars
  <2>7. PublishedKept'
    BY <1>1, <2>1, <2>3, <2>4 DEF PublishedKept, registryVars, lakebaseVars
  <2> QED BY <1>1, <2>1, <2>2, <2>6, <2>7, EndRunInv DEF PublishTypes
<1> QED BY <1>2, <1>3

LEMMA CrashInv == ASSUME PublishInv, CrashSync PROVE PublishInv'
<1>1. Syncing /\ Fails /\ UNCHANGED <<registryVars, lakebaseVars>> BY DEF CrashSync
<1>2. Touches
  BY <1>1 DEF Touches, PublishInv, PublishTypes, CopiesExist, lakebaseVars
<1> QED BY <1>1, <1>2, FailsInv

-----------------------------------------------------------------------------
(* The pipelines.                                                           *)

LEMMA LandsInv == ASSUME PublishInv, NEW t \in Tables, UpdateLands(t) PROVE PublishInv'
<1> USE DEF PublishInv
<1>1. /\ t \in updating /\ updating' = updating \ {t} /\ present' = present \cup {t}
      /\ copy' = [copy EXCEPT ![t] = Source(t)]
      /\ UNCHANGED <<registryVars, taskVars, historyVars, synced>>
  BY DEF UpdateLands
<1> USE DEF registryVars, taskVars, historyVars
<1>2. Pointer \in Tables /\ Verified \subseteq Tables /\ Pointer \notin Verified
  BY TablesAssumption
<1>3. \A q \in Tables : copy'[q] = IF q = t THEN Source(t) ELSE copy[q]
  BY <1>1 DEF PublishTypes
<1>4. Source(t) \subseteq complete /\ (t # Pointer => Source(t) = complete)
  BY DEF Source, PublishTypes
<1>5. PublishTypes'
  <2>1. copy' \in [Tables -> SUBSET Snapshots] BY <1>1, <1>4 DEF PublishTypes
  <2> QED BY <1>1, <2>1 DEF PublishTypes
<1>6. CopiesWhole' BY <1>1, <1>2, <1>3, <1>4 DEF CopiesWhole
<1>7. CopiesExist'
  <2>1. Source(Pointer) \subseteq served BY DEF Source, PublishTypes
  <2> QED BY <1>1, <1>2, <1>3, <2>1 DEF CopiesExist
<1>8. published # NoSnapshot /\ t = Pointer => Source(t) = {active}
  BY DEF Source, PublishedKept
<1>9. PublishedKept'
  BY <1>1, <1>2, <1>3, <1>4, <1>8 DEF PublishedKept, PublishTypes
<1>10. PublishedAgrees' BY <1>1, <1>2, <1>3, <1>8 DEF PublishedAgrees
<1>11. RunServes' /\ TriedAll' /\ NoHoleAfterSuccess'
  BY <1>1 DEF RunServes, Pending, TriedAll, NoHoleAfterSuccess, Syncing
<1> QED BY <1>5, <1>6, <1>7, <1>9, <1>10, <1>11

\* An update that fails, or no step at all.
LEMMA StaysInv ==
  ASSUME PublishInv, UNCHANGED <<registryVars, taskVars, historyVars, synced, present, copy>>,
         updating' \subseteq updating
  PROVE  PublishInv'
<1> USE DEF PublishInv, registryVars, taskVars, historyVars
<1>1. PublishTypes' BY DEF PublishTypes
<1>2. /\ RunServes' /\ CopiesWhole' /\ CopiesExist' /\ PublishedKept' /\ TriedAll'
      /\ PublishedAgrees' /\ NoHoleAfterSuccess'
  BY DEF RunServes, Pending, CopiesWhole, CopiesExist, PublishedKept, TriedAll,
         PublishedAgrees, NoHoleAfterSuccess, Syncing
<1> QED BY <1>1, <1>2

LEMMA PublishNextInv == PublishInv /\ [PublishNext]_publishVars => PublishInv'
<1> SUFFICES ASSUME PublishInv, [PublishNext]_publishVars PROVE PublishInv' OBVIOUS
<1>1. CASE UNCHANGED publishVars BY <1>1, StaysInv DEF publishVars, lakebaseVars
<1>2. ASSUME NEW t \in Tables, UpdateFails(t) PROVE PublishInv'
  BY <1>2, StaysInv DEF UpdateFails
<1>3. CASE SyncStep
  BY <1>3, DeleteInv, CreateInv, PollInv, CrashInv DEF SyncStep
<1>4. CASE Build \/ Promote \/ Stamp \/ SkipSync \/ StartSync \/ LateServe \/ Rollback
  BY <1>4, BuildInv, PromoteInv, StampInv, SkipInv, StartInv, RollbackInv
<1> QED BY <1>1, <1>2, <1>3, <1>4, LandsInv DEF PublishNext

LEMMA PublishInvariance == PublishSpec => []PublishInv
BY PublishInitInv, PublishNextInv, PTL DEF PublishSpec

-----------------------------------------------------------------------------
(* What a publish guarantees.                                               *)

\* publish_to_lakebase succeeds only with both pointers on one snapshot, and only
\* an operator's rollback parts them before the next promotion.
THEOREM PointersAgree == PublishSpec => []PublishedAgrees
<1>1. PublishInv => PublishedAgrees BY DEF PublishInv
<1> QED BY <1>1, PublishInvariance, PTL

\* After a sync that succeeded, whatever rolls back or lands late, the pointer in
\* Postgres names a snapshot with its rows in every table joined on it.
THEOREM RowsBehindPointer == PublishSpec => []PointerHasRows
<1>1. PublishInv => PointerHasRows
  BY DEF PublishInv, PublishedKept, CopiesExist, PointerHasRows
<1> QED BY <1>1, PublishInvariance, PTL

\* _publish_one and its siblings: success means that every table was tried.
THEOREM NoTableForgotten == PublishSpec => []NoHoleAfterSuccess
<1>1. PublishInv => NoHoleAfterSuccess BY DEF PublishInv
<1> QED BY <1>1, PublishInvariance, PTL

-----------------------------------------------------------------------------
(* The requests.                                                            *)

Steps == {"idle", "pointer", "ask pointer", "rows", "ask rows"}
Texts == {"none", "rows", "empty", "never_run", "failed"}
Asking(r) == step[r] \in {"ask pointer", "ask rows"}
Clean(r) == ~disturbed[r] /\ ~struck[r]

\* A request has a connection only while it asks; only connections that someone
\* refers to are known to be dead.
PoolTypes ==
    /\ slot \in Connections \cup {NoConnection}
    /\ dead \subseteq Connections \cap (Held \cup {slot})
    /\ step \in [Requests -> Steps]
    /\ conn \in [Requests -> Connections \cup {NoConnection}]
    /\ reading \in [Requests -> Snapshots \cup {NoSnapshot}]
    /\ answer \in [Requests -> Texts]
    /\ disturbed \in [Requests -> BOOLEAN] /\ struck \in [Requests -> BOOLEAN]
    /\ \A r \in Requests : conn[r] \in Connections <=> Asking(r)

\* A clean request finds Lakebase quiet and its connection alive; one that was
\* struck is about to find its own dead.
RequestFacts ==
    \A r \in Requests :
        /\ step[r] # "idle" /\ Clean(r) => Quiet /\ conn[r] \notin dead
        /\ step[r] # "idle" /\ struck[r] => Asking(r) /\ conn[r] \in dead
        /\ step[r] \in {"rows", "ask rows"} => reading[r] \in served
        /\ step[r] # "idle" => answer[r] = "none"

ReadInv == PublishInv /\ PoolTypes /\ RequestFacts /\ CleanReadsAnswer

LEMMA ReadInitInv == ReadInit => ReadInv
<1> SUFFICES ASSUME ReadInit PROVE ReadInv OBVIOUS
<1>1. PublishInv BY PublishInitInv DEF ReadInit
<1>2. PoolTypes BY ConnectionAssumption DEF ReadInit, PoolTypes, Steps, Texts, Asking
<1>3. RequestFacts /\ CleanReadsAnswer BY DEF ReadInit, RequestFacts, CleanReadsAnswer
<1> QED BY <1>1, <1>2, <1>3 DEF ReadInv

\* Every step of the console and of Lakebase under it is a step of the publish,
\* or leaves it alone.
LEMMA ReadsPublish == [ReadNext]_readVars => [PublishNext]_publishVars
BY DEF ReadNext, readVars, Arrive, RequestStep, Acquire, Drop, ReadPointer, ReadRows, Break,
       LakebaseMoves

\* On a quiet Lakebase no statement of a request fails, and what it reads is there.
LEMMA QuietAnswers ==
  ASSUME PublishInv, Quiet
  PROVE  /\ Verified \cup {Pointer} \subseteq present
         /\ copy[Pointer] # {}
         /\ \A t \in Verified : served \subseteq copy[t]
<1> USE DEF PublishInv
<1>1. /\ active # NoSnapshot /\ copy[Pointer] # {} /\ \A t \in Verified : served \subseteq copy[t]
  BY DEF Quiet, PublishedKept
<1>2. active \in served BY <1>1 DEF PublishTypes
<1>3. \A t \in Verified \cup {Pointer} : copy[t] # {} BY <1>1, <1>2
<1> QED BY <1>1, <1>3, TablesAssumption DEF CopiesExist

LEMMA SameQuiet == UNCHANGED publishVars => Quiet' = Quiet
BY DEF publishVars, registryVars, taskVars, lakebaseVars, historyVars, Quiet, Syncing

\* What every step has to show once the publish is taken care of.
LEMMA PublishSame ==
  ASSUME PublishInv, UNCHANGED publishVars PROVE PublishInv'
BY PublishNextInv

LEMMA ArriveInv == ASSUME ReadInv, NEW r \in Requests, Arrive(r) PROVE ReadInv'
<1> USE DEF ReadInv
<1>1. /\ step[r] = "idle" /\ step' = [step EXCEPT ![r] = "pointer"]
      /\ answer' = [answer EXCEPT ![r] = "none"]
      /\ disturbed' = [disturbed EXCEPT ![r] = ~Quiet]
      /\ struck' = [struck EXCEPT ![r] = FALSE]
      /\ UNCHANGED <<publishVars, slot, dead, conn, reading>>
  BY DEF Arrive, Move, poolVars
<1>2. PublishInv' /\ Quiet' = Quiet /\ served' = served
  BY <1>1, PublishSame, SameQuiet DEF publishVars, registryVars
<1>3. Held' = Held BY <1>1 DEF Held
<1>4. PoolTypes'
  <2>1. (~Quiet) \in BOOLEAN OBVIOUS
  <2>2. disturbed' \in [Requests -> BOOLEAN] /\ struck' \in [Requests -> BOOLEAN]
    BY <1>1, <2>1 DEF PoolTypes
  <2> QED BY <1>1, <1>3, <2>2 DEF PoolTypes, Steps, Texts, Asking
<1>5. conn[r] \notin dead BY <1>1, ConnectionAssumption DEF PoolTypes, Asking
<1>6. RequestFacts'
  <2> SUFFICES ASSUME NEW q \in Requests
               PROVE  /\ step'[q] # "idle" /\ Clean(q)' => Quiet /\ conn[q] \notin dead
                      /\ step'[q] # "idle" /\ struck'[q] => Asking(q)' /\ conn[q] \in dead
                      /\ step'[q] \in {"rows", "ask rows"} => reading[q] \in served
                      /\ step'[q] # "idle" => answer'[q] = "none"
    BY <1>1, <1>2 DEF RequestFacts
  <2>1. CASE q = r
    BY <1>1, <1>5, <2>1 DEF PoolTypes, Clean
  <2>2. CASE q # r
    BY <1>1, <2>2 DEF PoolTypes, RequestFacts, Clean, Asking
  <2> QED BY <2>1, <2>2
<1>7. CleanReadsAnswer' BY <1>1 DEF CleanReadsAnswer, PoolTypes
<1> QED BY <1>2, <1>4, <1>6, <1>7

LEMMA AcquireInv == ASSUME ReadInv, NEW r \in Requests, Acquire(r) PROVE ReadInv'
<1> USE DEF ReadInv
<1>1. /\ step[r] \in {"pointer", "rows"} /\ UNCHANGED <<publishVars, struck>>
      /\ dead' = dead \cap (Held' \cup ({slot'} \ {NoConnection}))
  BY DEF Acquire, Close
<1>2. PublishInv' /\ Quiet' = Quiet /\ served' = served
  BY <1>1, PublishSame, SameQuiet DEF publishVars, registryVars
<1>3. ~Asking(r) /\ conn[r] = NoConnection /\ NoConnection \notin dead
  BY <1>1, ConnectionAssumption DEF PoolTypes, Asking
<1>4. CASE \E c \in Connections :
             /\ c \notin dead /\ slot' = c /\ conn' = [conn EXCEPT ![r] = c]
             /\ step' = [step EXCEPT ![r] = IF step[r] = "pointer" THEN "ask pointer" ELSE "ask rows"]
             /\ UNCHANGED <<reading, answer, disturbed>>
  <2>1. PICK c \in Connections :
             /\ c \notin dead /\ slot' = c /\ conn' = [conn EXCEPT ![r] = c]
             /\ step' = [step EXCEPT ![r] = IF step[r] = "pointer" THEN "ask pointer" ELSE "ask rows"]
             /\ UNCHANGED <<reading, answer, disturbed>>
    BY <1>4
  <2>2. PoolTypes'
    BY <1>1, <2>1, ConnectionAssumption DEF PoolTypes, Steps, Texts, Asking
  <2>3. RequestFacts'
    <3> SUFFICES ASSUME NEW q \in Requests
                 PROVE  /\ step'[q] # "idle" /\ Clean(q)' => Quiet /\ conn'[q] \notin dead'
                        /\ step'[q] # "idle" /\ struck'[q] => Asking(q)' /\ conn'[q] \in dead'
                        /\ step'[q] \in {"rows", "ask rows"} => reading'[q] \in served
                        /\ step'[q] # "idle" => answer'[q] = "none"
      BY <1>2 DEF RequestFacts
    <3>1. CASE q = r
      <4>1. ~struck[r] BY <1>1, <1>3 DEF RequestFacts
      <4>2. conn'[r] \notin dead' BY <1>1, <2>1 DEF PoolTypes
      <4>3. step'[r] \in {"ask pointer", "ask rows"} /\ (step'[r] = "ask rows" => step[r] = "rows")
        BY <1>1, <2>1 DEF PoolTypes
      <4> QED BY <1>1, <2>1, <3>1, <4>1, <4>2, <4>3 DEF RequestFacts, Clean, Asking
    <3>2. CASE q # r
      <4>1. conn'[q] = conn[q] /\ step'[q] = step[q] BY <2>1, <3>2 DEF PoolTypes
      <4>2. conn[q] \in dead => conn'[q] \in dead'
        BY <1>1, <1>3, <4>1 DEF Held
      <4>3. dead' \subseteq dead /\ Clean(q)' = Clean(q) BY <1>1, <2>1 DEF Clean
      <4>4. /\ Asking(q)' = Asking(q) /\ reading'[q] = reading[q] /\ answer'[q] = answer[q]
        BY <2>1, <4>1 DEF Asking
      <4> QED BY <1>1, <4>1, <4>2, <4>3, <4>4 DEF RequestFacts
    <3> QED BY <3>1, <3>2
  <2>4. CleanReadsAnswer' BY <1>1, <2>1 DEF CleanReadsAnswer
  <2> QED BY <1>2, <2>2, <2>3, <2>4
<1>5. CASE /\ slot' = NoConnection /\ Answer(r, "failed")
           /\ disturbed' = [disturbed EXCEPT ![r] = TRUE] /\ UNCHANGED conn
  <2>1. /\ step' = [step EXCEPT ![r] = "idle"] /\ answer' = [answer EXCEPT ![r] = "failed"]
        /\ reading' = [reading EXCEPT ![r] = NoSnapshot]
        /\ disturbed' = [disturbed EXCEPT ![r] = TRUE] /\ UNCHANGED conn /\ slot' = NoConnection
    BY <1>5 DEF Answer, Move
  <2>2. PoolTypes'
    BY <1>1, <1>3, <2>1, ConnectionAssumption DEF PoolTypes, Steps, Texts, Asking
  <2>3. RequestFacts'
    <3> SUFFICES ASSUME NEW q \in Requests
                 PROVE  /\ step'[q] # "idle" /\ Clean(q)' => Quiet /\ conn'[q] \notin dead'
                        /\ step'[q] # "idle" /\ struck'[q] => Asking(q)' /\ conn'[q] \in dead'
                        /\ step'[q] \in {"rows", "ask rows"} => reading'[q] \in served
                        /\ step'[q] # "idle" => answer'[q] = "none"
      BY <1>2 DEF RequestFacts
    <3>1. CASE q = r BY <2>1, <3>1 DEF PoolTypes
    <3>2. CASE q # r
      <4>1. conn[q] \in dead => conn'[q] \in dead'
        BY <1>1, <1>3, <2>1 DEF Held
      <4> QED BY <1>1, <2>1, <3>2, <4>1 DEF PoolTypes, RequestFacts, Clean, Asking
    <3> QED BY <3>1, <3>2
  <2>4. CleanReadsAnswer' BY <1>1, <2>1 DEF CleanReadsAnswer, PoolTypes
  <2> QED BY <1>2, <2>2, <2>3, <2>4
<1>6. \A c \in Connections \ (Held \cup {slot}) : c \notin dead BY DEF PoolTypes
<1>7. slot # NoConnection /\ slot \notin dead => slot \in Connections BY DEF PoolTypes
<1> QED BY <1>4, <1>5, <1>6, <1>7 DEF Acquire, Move

\* The statement of a request fails on Lakebase that is not quiet, or on a
\* connection that is dead.
LEMMA FaultCause ==
  ASSUME ReadInv, NEW r \in Requests, Asking(r), Fault(r) PROVE disturbed[r] \/ struck[r]
<1> SUFFICES ASSUME Clean(r) PROVE FALSE BY DEF Clean
<1>1. Quiet /\ conn[r] \notin dead BY DEF ReadInv, RequestFacts, Asking
<1>2. Asked(r) \subseteq present BY <1>1, QuietAnswers DEF ReadInv, Asked
<1> QED BY <1>1, <1>2 DEF Fault

LEMMA DropInv == ASSUME ReadInv, NEW r \in Requests, Drop(r) PROVE ReadInv'
<1> USE DEF ReadInv
<1> DEFINE c == conn[r]
<1>1. /\ Asking(r) /\ Fault(r) /\ slot' = NoConnection
      /\ conn' = [conn EXCEPT ![r] = NoConnection]
      /\ dead' = (dead \cup {c}) \cap (Held' \cup ({slot'} \ {NoConnection}))
      /\ struck' = [q \in Requests |-> struck[q] \/ (q # r /\ conn[q] = c /\ c \notin dead)]
      /\ step' = [step EXCEPT ![r] = "idle"] /\ answer' = [answer EXCEPT ![r] = "failed"]
      /\ reading' = [reading EXCEPT ![r] = NoSnapshot]
      /\ UNCHANGED <<publishVars, disturbed>>
  BY DEF Drop, DropShared, Close, Answer, Move, Asking
<1>2. PublishInv' /\ Quiet' = Quiet /\ served' = served
  BY <1>1, PublishSame, SameQuiet DEF publishVars, registryVars
<1>3. c \in Connections /\ c # NoConnection /\ NoConnection \notin dead
  BY <1>1, ConnectionAssumption DEF PoolTypes
<1>4. PoolTypes'
  <2>1. struck' \in [Requests -> BOOLEAN] BY <1>1 DEF PoolTypes
  <2> QED BY <1>1, <1>3, <2>1, ConnectionAssumption DEF PoolTypes, Steps, Texts, Asking
<1>5. disturbed[r] \/ struck[r] BY <1>1, FaultCause
<1>6. RequestFacts'
  <2> SUFFICES ASSUME NEW q \in Requests
               PROVE  /\ step'[q] # "idle" /\ Clean(q)' => Quiet /\ conn'[q] \notin dead'
                      /\ step'[q] # "idle" /\ struck'[q] => Asking(q)' /\ conn'[q] \in dead'
                      /\ step'[q] \in {"rows", "ask rows"} => reading'[q] \in served
                      /\ step'[q] # "idle" => answer'[q] = "none"
    BY <1>2 DEF RequestFacts
  <2>1. CASE q = r BY <1>1, <2>1 DEF PoolTypes
  <2>2. CASE q # r
    <3>1. /\ conn'[q] = conn[q] /\ step'[q] = step[q] /\ reading'[q] = reading[q]
          /\ answer'[q] = answer[q] /\ disturbed'[q] = disturbed[q]
      BY <1>1, <2>2 DEF PoolTypes
    <3>2. conn[q] \in dead \cup {c} => conn'[q] \in dead' /\ Asking(q)
      BY <1>1, <1>3, <3>1 DEF Held, PoolTypes
    <3>3. struck'[q] => struck[q] \/ (conn[q] = c /\ c \notin dead) BY <1>1
    <3>4. ~struck'[q] => ~struck[q] /\ (conn[q] = c => c \in dead) BY <1>1, <2>2
    <3>5. Clean(q)' => Clean(q) BY <3>1, <3>4 DEF Clean
    <3>6. Clean(q)' /\ step[q] # "idle" => Quiet /\ conn[q] \notin dead /\ conn[q] # c
      BY <3>4, <3>5 DEF RequestFacts, Clean
    <3>7. conn'[q] \in dead' => conn[q] \in dead \cup {c} BY <1>1, <3>1
    <3> QED BY <3>1, <3>2, <3>3, <3>6, <3>7 DEF RequestFacts, Asking
  <2> QED BY <2>1, <2>2
<1>7. CleanReadsAnswer'
  <2>1. struck'[r] = struck[r] /\ \A q \in Requests : struck[q] => struck'[q]
    BY <1>1 DEF PoolTypes
  <2> QED BY <1>1, <1>5, <2>1 DEF CleanReadsAnswer, PoolTypes
<1> QED BY <1>2, <1>4, <1>6, <1>7

\* A statement is answered: the request gives its connection back, and goes on or
\* ends.
LEMMA StatementInv ==
  ASSUME ReadInv, NEW r \in Requests, Asking(r), ~Fault(r),
         conn' = [conn EXCEPT ![r] = NoConnection],
         UNCHANGED <<publishVars, poolVars, disturbed, struck>>,
         NEW to \in {"idle", "rows"}, step' = [step EXCEPT ![r] = to],
         NEW s \in Snapshots \cup {NoSnapshot}, reading' = [reading EXCEPT ![r] = s],
         to = "rows" => s \in served,
         NEW a \in Texts, answer' = [answer EXCEPT ![r] = a],
         a \in {"empty", "never_run", "failed"} => disturbed[r] \/ struck[r],
         to = "rows" => a = "none"
  PROVE  ReadInv'
<1> USE DEF ReadInv, poolVars
<1>1. PublishInv' /\ Quiet' = Quiet /\ served' = served
  BY PublishSame, SameQuiet DEF publishVars, registryVars
<1>2. conn[r] \notin dead /\ ~struck[r] BY DEF Fault, RequestFacts, Asking
<1>3. NoConnection \notin dead BY ConnectionAssumption DEF PoolTypes
<1>4. dead \subseteq Held' \cup {slot} BY <1>2 DEF Held, PoolTypes
<1>5. PoolTypes'
  BY <1>4, ConnectionAssumption DEF PoolTypes, Steps, Texts, Asking
<1>6. RequestFacts'
  <2> SUFFICES ASSUME NEW q \in Requests
               PROVE  /\ step'[q] # "idle" /\ Clean(q) => Quiet /\ conn'[q] \notin dead
                      /\ step'[q] # "idle" /\ struck[q] => Asking(q)' /\ conn'[q] \in dead
                      /\ step'[q] \in {"rows", "ask rows"} => reading'[q] \in served
                      /\ step'[q] # "idle" => answer'[q] = "none"
    BY <1>1 DEF RequestFacts, Clean
  <2>1. CASE q = r
    BY <1>2, <1>3, <2>1 DEF PoolTypes, RequestFacts, Clean, Asking
  <2>2. CASE q # r
    BY <2>2 DEF PoolTypes, RequestFacts, Clean, Asking
  <2> QED BY <2>1, <2>2
<1>7. CleanReadsAnswer' BY DEF CleanReadsAnswer, PoolTypes
<1> QED BY <1>1, <1>5, <1>6, <1>7

LEMMA ReadPointerInv == ASSUME ReadInv, NEW r \in Requests, ReadPointer(r) PROVE ReadInv'
<1> USE DEF ReadInv
<1>1. /\ step[r] = "ask pointer" /\ Asking(r) /\ ~Fault(r)
      /\ conn' = [conn EXCEPT ![r] = NoConnection]
      /\ UNCHANGED <<publishVars, poolVars, disturbed, struck>>
  BY DEF ReadPointer, Asking
<1>2. CASE copy[Pointer] = {} /\ Answer(r, "never_run")
  <2>1. disturbed[r] \/ struck[r]
    BY <1>1, <1>2, QuietAnswers DEF RequestFacts, Clean
  <2>2. /\ step' = [step EXCEPT ![r] = "idle"] /\ answer' = [answer EXCEPT ![r] = "never_run"]
        /\ reading' = [reading EXCEPT ![r] = NoSnapshot]
    BY <1>2 DEF Answer, Move
  <2> QED BY <1>1, <2>1, <2>2, StatementInv DEF Texts
<1>3. CASE /\ \E s \in copy[Pointer] : reading' = [reading EXCEPT ![r] = s]
           /\ Move(r, "rows") /\ UNCHANGED answer
  <2>1. PICK s \in copy[Pointer] : reading' = [reading EXCEPT ![r] = s] BY <1>3
  <2>2. s \in served /\ s \in Snapshots BY DEF PublishInv, PublishTypes, CopiesExist
  <2>3. step' = [step EXCEPT ![r] = "rows"] BY <1>3 DEF Move
  <2>4. answer[r] = "none" BY <1>1 DEF RequestFacts
  <2>5. answer' = [answer EXCEPT ![r] = "none"] BY <1>3, <2>4 DEF PoolTypes
  <2> QED BY <1>1, <2>1, <2>2, <2>3, <2>5, StatementInv DEF Texts
<1> QED BY <1>2, <1>3 DEF ReadPointer

LEMMA ReadRowsInv == ASSUME ReadInv, NEW r \in Requests, ReadRows(r) PROVE ReadInv'
<1> USE DEF ReadInv
<1> DEFINE a == IF \A t \in Verified : reading[r] \in copy[t] THEN "rows" ELSE "empty"
<1>1. /\ step[r] = "ask rows" /\ Asking(r) /\ ~Fault(r)
      /\ conn' = [conn EXCEPT ![r] = NoConnection]
      /\ UNCHANGED <<publishVars, poolVars, disturbed, struck>>
      /\ step' = [step EXCEPT ![r] = "idle"] /\ answer' = [answer EXCEPT ![r] = a]
      /\ reading' = [reading EXCEPT ![r] = NoSnapshot]
  BY DEF ReadRows, Asking, Answer, Move
<1>2. a \in {"empty", "never_run", "failed"} => disturbed[r] \/ struck[r]
  <2>1. reading[r] \in served BY <1>1 DEF RequestFacts
  <2>2. Clean(r) => Quiet BY <1>1 DEF RequestFacts
  <2> QED BY <2>1, <2>2, QuietAnswers DEF Clean
<1>3. a \in Texts BY DEF Texts
<1> HIDE DEF a
<1> QED BY <1>1, <1>2, <1>3, StatementInv

LEMMA BreakInv == ASSUME ReadInv, Break PROVE ReadInv'
<1> USE DEF ReadInv
<1>1. /\ slot # NoConnection /\ slot \notin dead /\ dead' = dead \cup {slot}
      /\ disturbed' = [r \in Requests |-> disturbed[r] \/ r \in InFlight]
      /\ UNCHANGED <<publishVars, slot, step, conn, reading, answer, struck>>
  BY DEF Break
<1>2. PublishInv' /\ Quiet' = Quiet /\ served' = served
  BY <1>1, PublishSame, SameQuiet DEF publishVars, registryVars
<1>3. Held' = Held BY <1>1 DEF Held
<1>4. PoolTypes'
  <2>1. disturbed' \in [Requests -> BOOLEAN] BY <1>1 DEF PoolTypes
  <2> QED BY <1>1, <1>3, <2>1 DEF PoolTypes, Steps, Texts, Asking
<1>5. RequestFacts' BY <1>1, <1>2 DEF RequestFacts, Clean, Asking, InFlight
<1>6. CleanReadsAnswer' BY <1>1 DEF CleanReadsAnswer
<1> QED BY <1>2, <1>4, <1>5, <1>6

LEMMA MovesInv == ASSUME ReadInv, LakebaseMoves PROVE ReadInv'
<1> USE DEF ReadInv
<1>1. /\ PublishNext
      /\ disturbed' = [r \in Requests |-> disturbed[r] \/ (r \in InFlight /\ ~Quiet')]
      /\ UNCHANGED <<slot, dead, step, conn, reading, answer, struck>>
  BY DEF LakebaseMoves, poolVars
<1>2. PublishInv' BY <1>1, PublishNextInv
<1>3. served \subseteq served'
  BY <1>1 DEF PublishNext, Build, Prepare, Promote, Serve, Stamp, Record, SkipSync, StartSync,
              LateServe, Rollback, SyncStep, DeleteSynced, CreateSynced, Poll, CrashSync,
              UpdateLands, UpdateFails, registryVars
<1>4. Held' = Held BY <1>1 DEF Held
<1>5. PoolTypes'
  <2>1. disturbed' \in [Requests -> BOOLEAN] BY <1>1 DEF PoolTypes
  <2> QED BY <1>1, <1>4, <2>1 DEF PoolTypes, Steps, Texts, Asking
<1>6. RequestFacts' BY <1>1, <1>3 DEF RequestFacts, Clean, Asking, InFlight
<1>7. CleanReadsAnswer' BY <1>1 DEF CleanReadsAnswer
<1> QED BY <1>2, <1>5, <1>6, <1>7

LEMMA ReadNextInv == ReadInv /\ [ReadNext]_readVars => ReadInv'
<1> SUFFICES ASSUME ReadInv, [ReadNext]_readVars PROVE ReadInv' OBVIOUS
<1>1. CASE UNCHANGED readVars
  <2>1. UNCHANGED <<publishVars, slot, dead, step, conn, reading, answer, disturbed, struck>>
    BY <1>1 DEF readVars, poolVars, requestVars
  <2>2. PublishInv' /\ Quiet' = Quiet /\ served' = served
    BY <2>1, PublishSame, SameQuiet DEF ReadInv, publishVars, registryVars
  <2>3. Held' = Held BY <2>1 DEF Held
  <2> QED BY <2>1, <2>2, <2>3
          DEF ReadInv, PoolTypes, RequestFacts, CleanReadsAnswer, Clean, Asking
<1>2. CASE ReadNext
  BY <1>2, ArriveInv, AcquireInv, DropInv, ReadPointerInv, ReadRowsInv, BreakInv, MovesInv
     DEF ReadNext, RequestStep
<1> QED BY <1>1, <1>2

LEMMA ReadInvariance == ReadSpec => []ReadInv
BY ReadInitInv, ReadNextInv, PTL DEF ReadSpec

-----------------------------------------------------------------------------
(* What the console can rely on.                                            *)

\* The console reads: whatever its requests do is no step of the publish, and so
\* all that holds of the publish holds under them.
THEOREM ConsoleReadsOnly == ReadSpec => PublishSpec
<1>1. ReadInit => PublishInit BY DEF ReadInit
<1> QED BY <1>1, ReadsPublish, PTL DEF ReadSpec, PublishSpec

\* list_top_orders and its like: while Lakebase is as the last sync left it, a
\* request is answered with rows, in whatever order the requests and the pool's
\* connections are used, unless another one closed its connection under it.
THEOREM CleanReads == ReadSpec => []CleanReadsAnswer
<1>1. ReadInv => CleanReadsAnswer BY DEF ReadInv
<1> QED BY <1>1, ReadInvariance, PTL

\* lakebase_connection closes the connection of the statement that failed: a
\* request that lost its own that way costs no third one anything.
THEOREM StrikesStay == ReadSpec => StrikesDoNotSpread
<1> DEFINE Stay == \A r \in Requests :
                      Drop(r) /\ struck[r] => \A q \in Requests \ {r} : struck'[q] = struck[q]
<1>1. ReadInv => Stay
  <2> SUFFICES ASSUME ReadInv, NEW r \in Requests, Drop(r), struck[r],
                      NEW q \in Requests \ {r}
               PROVE  struck'[q] = struck[q]
    OBVIOUS
  <2>1. conn[r] \in dead BY DEF ReadInv, RequestFacts, Drop
  <2>2. struck'[q] = (struck[q] \/ (q # r /\ conn[q] = conn[r] /\ conn[r] \notin dead))
    BY DEF Drop, DropShared
  <2> QED BY <2>1, <2>2 DEF ReadInv, PoolTypes
<1>2. ReadSpec => [][Stay]_readVars BY <1>1, ReadInvariance, PTL DEF ReadSpec
<1> QED BY <1>2 DEF StrikesDoNotSpread
=============================================================================

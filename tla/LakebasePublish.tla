--------------------------- MODULE LakebasePublish ---------------------------
(***************************************************************************)
(* Copying the promoted snapshot into Lakebase: the sync task of the       *)
(* indexer job (publish_to_lakebase) and the pipelines it starts, over the *)
(* Delta tables as SnapshotRegistry describes them.                        *)
(*                                                                         *)
(* Each published Delta table has a synced table -- the object that owns   *)
(* the pipeline -- and a Postgres table that the pipeline's updates fill.  *)
(* The task deletes and drops them all one by one when it resets, creates  *)
(* them again one by one, then polls Postgres for the promoted snapshot.   *)
(* Operators keep rolling the pointer back meanwhile, and nobody copies    *)
(* the pointer again for them.                                             *)
(***************************************************************************)
EXTENDS SnapshotRegistry, Integers, Sequences

CONSTANTS
    Tables,          \* the published tables
    Order,           \* the order the task goes through them
    Pointer,         \* active_snapshot_id
    Verified,        \* the row tables the task polls before it succeeds
    MaxSyncRetries,  \* max_retries of the sync task
    ResetSettings    \* values BV_LAKEBASE_SYNC_RESET_EXISTING may have

ASSUME TablesAssumption ==
    /\ Pointer \in Tables
    /\ Verified \subseteq Tables \ {Pointer}
    /\ Order \in Seq(Tables) /\ {Order[i] : i \in 1..Len(Order)} = Tables
ASSUME SyncAssumption == MaxSyncRetries \in Nat /\ ResetSettings \subseteq BOOLEAN

VARIABLES
    phase,       \* where the run is; "idle" between runs
    runSnap,     \* the snapshot of the current run
    attempt,     \* which attempt of the sync task this is
    reset,       \* reset_existing
    at,          \* position in Order
    noted,       \* a table of this attempt failed and its siblings went on
    synced,      \* tables with a synced-table object
    updating,    \* synced tables whose pipeline has an update under way
    present,     \* tables that exist in Postgres
    copy,        \* the snapshots a Postgres table has rows for
    lastSync,    \* how the last attempt of the sync task ended
    published,   \* history: what the last sync published, until the next promotion
    moved        \* history: the pointer was rolled back since the last promotion

taskVars == <<phase, runSnap, attempt, reset, at, noted>>
lakebaseVars == <<synced, updating, present, copy>>
historyVars == <<lastSync, published, moved>>
publishVars == <<registryVars, taskVars, lakebaseVars, historyVars>>

-----------------------------------------------------------------------------
(* The run up to its sync task, and the operators: steps of the registry.   *)

Syncing == phase \in {"delete", "create", "verify"}

\* The run is over.
EndRun == /\ phase' = "idle" /\ runSnap' = NoSnapshot /\ attempt' = 0
          /\ reset' = FALSE /\ at' = 1 /\ noted' = FALSE

\* snap_{run_id}: no run writes the rows of a snapshot that an earlier one completed.
Build ==
    /\ phase = "idle"
    /\ \E s \in Snapshots \ complete :
        /\ Prepare(s)
        /\ runSnap' = s
    /\ phase' = "build"
    /\ UNCHANGED <<attempt, reset, at, noted, lakebaseVars, historyVars>>

Promote ==
    /\ phase = "build"
    /\ Serve(runSnap)
    /\ phase' = "promoted"
    /\ published' = NoSnapshot
    /\ moved' = FALSE
    /\ UNCHANGED <<runSnap, attempt, reset, at, noted, lakebaseVars, lastSync>>

Stamp ==
    /\ phase = "promoted"
    /\ Record(runSnap)
    /\ phase' = "recorded"
    /\ UNCHANGED <<runSnap, attempt, reset, at, noted, lakebaseVars, historyVars>>

\* "promote gate did not pass": the sync task has nothing to do.  Nor has it
\* when BV_LAKEBASE_PROJECT_ID is empty or the run is a dry one.
SkipSync ==
    /\ phase \in {"build", "promoted", "recorded"}
    /\ EndRun
    /\ UNCHANGED <<registryVars, lakebaseVars, historyVars>>

\* The MERGE of a promotion that was given up on lands after all.
LateServe ==
    /\ phase = "idle"
    /\ \E s \in complete \ served : Serve(s)
    /\ published' = NoSnapshot
    /\ moved' = FALSE
    /\ UNCHANGED <<taskVars, lakebaseVars, lastSync>>

\* An operator moves the Delta pointer; Lakebase is left as it is.
Rollback ==
    /\ \E s \in stamped : Serve(s)
    /\ moved' = TRUE
    /\ UNCHANGED <<taskVars, lakebaseVars, lastSync, published>>

-----------------------------------------------------------------------------
(* One attempt of publish_to_lakebase.                                      *)

BeginAttempt(n, r) ==
    /\ attempt' = n
    /\ reset' = r
    /\ phase' = IF r THEN "delete" ELSE "create"
    /\ at' = 1
    /\ noted' = FALSE
    /\ UNCHANGED runSnap

StartSync ==
    /\ phase = "recorded"
    /\ \E r \in ResetSettings : BeginAttempt(1, r)
    /\ UNCHANGED <<registryVars, lakebaseVars, historyVars>>

\* The task raises or its process dies: it starts over, or the run has failed,
\* the task's retries spent or the job's timeout_seconds elapsed.
Restart ==
    \/ /\ attempt <= MaxSyncRetries
       /\ BeginAttempt(attempt + 1, reset)
    \/ EndRun

Fails == Restart /\ lastSync' = "failed" /\ UNCHANGED <<published, moved>>

\* The synced table goes with its pipeline; one that is not there is as good as
\* deleted.
Deleted(t) == synced' = synced \ {t} /\ updating' = updating \ {t}

\* DROP TABLE IF EXISTS in Postgres.
Dropped(t) == present' = present \ {t} /\ copy' = [copy EXCEPT ![t] = {}]

\* _delete_existing_synced_tables, one table: delete_synced_table and the wait
\* for its operation, the DROP in Postgres, the wait until the synced table is
\* gone.  Any of the calls may raise or time out, which leaves the table as far
\* as it got.
DeleteSynced ==
    /\ phase = "delete"
    /\ LET t == Order[at] IN
       \/ /\ Deleted(t)
          /\ Dropped(t)
          /\ IF at < Len(Order) THEN phase' = "delete" /\ at' = at + 1
                                ELSE phase' = "create" /\ at' = 1
          /\ UNCHANGED <<runSnap, attempt, reset, noted, historyVars>>
       \/ /\ Fails
          /\ \/ UNCHANGED lakebaseVars
             \/ Deleted(t) /\ UNCHANGED <<present, copy>>
             \/ Deleted(t) /\ Dropped(t)
    /\ UNCHANGED registryVars

\* create_synced_table works and starts a pipeline; n is what noted becomes.
Created(t, n) ==
    /\ t \notin synced
    /\ synced' = synced \cup {t} /\ updating' = updating \cup {t}
    /\ n = noted

\* It already exists, and its pipeline starts another update.
Refreshed(t, n) ==
    /\ t \in synced \ updating
    /\ updating' = updating \cup {t}
    /\ n = noted
    /\ UNCHANGED synced

\* The call fails, or only its answer is lost; the siblings go on.
CreateFailed(t, n) ==
    /\ n = TRUE
    /\ \/ UNCHANGED <<synced, updating>>
       \/ /\ t \notin synced
          /\ synced' = synced \cup {t} /\ updating' = updating \cup {t}

\* _publish_one.  An update that cannot be started raises and no sibling is
\* tried; after the last table the attempt fails if any of them did, else it
\* goes on to poll.
CreateSynced ==
    /\ phase = "create"
    /\ \/ /\ Order[at] \in synced
          /\ Fails
          /\ UNCHANGED <<synced, updating>>
       \/ \E n \in BOOLEAN :
          /\ Created(Order[at], n) \/ Refreshed(Order[at], n) \/ CreateFailed(Order[at], n)
          /\ \/ at = Len(Order) /\ n /\ Fails
             \/ /\ at < Len(Order) \/ ~n
                /\ IF at < Len(Order) THEN phase' = "create" /\ at' = at + 1
                                      ELSE phase' = "verify" /\ at' = 1
                /\ noted' = n
                /\ UNCHANGED <<runSnap, attempt, reset, historyVars>>
    /\ UNCHANGED <<registryVars, present, copy>>

-----------------------------------------------------------------------------
(* _wait_for_synced_tables. *)

CaughtUp_PointerOnly(s) == copy[Pointer] = {s}                       \* mutant
CaughtUp_AnyPointer(s) == \A t \in Verified : s \in copy[t]          \* mutant
CaughtUp(s) == /\ copy[Pointer] = {s}
               /\ \A t \in Verified : s \in copy[t]

\* A poll finds the snapshot there, or the deadline passes first, whatever the
\* polls ran into.
Poll ==
    /\ phase = "verify"
    /\ \/ /\ CaughtUp(runSnap)
          /\ lastSync' = "ok" /\ published' = runSnap
          /\ EndRun
          /\ UNCHANGED moved
       \/ Fails
    /\ UNCHANGED <<registryVars, lakebaseVars>>

\* The task's process dies between two of its calls.
CrashSync ==
    /\ Syncing
    /\ Fails
    /\ UNCHANGED <<registryVars, lakebaseVars>>

-----------------------------------------------------------------------------
(* The Lakeflow pipelines. *)

\* What a full update of a table copies.
Source(t) == IF t = Pointer THEN {active} \ {NoSnapshot} ELSE complete

UpdateLands(t) ==
    /\ t \in updating
    /\ updating' = updating \ {t}
    /\ present' = present \cup {t}
    /\ copy' = [copy EXCEPT ![t] = Source(t)]
    /\ UNCHANGED <<registryVars, taskVars, historyVars, synced>>

UpdateFails(t) ==
    /\ t \in updating
    /\ updating' = updating \ {t}
    /\ UNCHANGED <<registryVars, taskVars, historyVars, synced, present, copy>>

-----------------------------------------------------------------------------

PublishInit ==
    /\ Init
    /\ phase = "idle" /\ runSnap = NoSnapshot /\ attempt = 0
    /\ reset = FALSE /\ at = 1 /\ noted = FALSE
    /\ synced = {} /\ updating = {} /\ present = {}
    /\ copy = [t \in Tables |-> {}]
    /\ lastSync = "none" /\ published = NoSnapshot /\ moved = FALSE

SyncStep == DeleteSynced \/ CreateSynced \/ Poll \/ CrashSync

PublishNext ==
    \/ Build \/ Promote \/ Stamp \/ SkipSync \/ StartSync
    \/ LateServe \/ Rollback
    \/ SyncStep
    \/ \E t \in Tables : UpdateLands(t) \/ UpdateFails(t)

PublishSpec == PublishInit /\ [][PublishNext]_publishVars

-----------------------------------------------------------------------------
(* Properties. *)

\* "A successful indexer run therefore means both Delta and Lakebase read tables
\* are on the same active snapshot" -- until an operator rolls back: then, and
\* only then, the two pointers part.
PublishedAgrees ==
    published # NoSnapshot => copy[Pointer] = {active} \/ moved

\* From a successful sync to the next promotion, whatever rolls back or lands
\* late, the snapshot the Postgres pointer names has its rows in every table the
\* console joins on it.
PointerHasRows ==
    published # NoSnapshot /\ ~Syncing
        => /\ copy[Pointer] # {}
           /\ \A t \in Verified : copy[Pointer] \subseteq copy[t]

\* A table is missing from Lakebase only while a sync is at work or after one that
\* failed: a sync that reports success has tried every table of the list.
NoHoleAfterSuccess ==
    lastSync = "ok" /\ ~Syncing
        => synced = Tables /\ Verified \cup {Pointer} \subseteq present
=============================================================================

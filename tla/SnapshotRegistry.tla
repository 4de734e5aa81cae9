--------------------------- MODULE SnapshotRegistry ---------------------------
(***************************************************************************)
(* What the Delta side of the capability graph promises its readers: the   *)
(* pointer only ever moves to a snapshot whose rows are all there, those   *)
(* rows then stay as they are, and the ledger records a promotion only of  *)
(* a snapshot that has been served, a retirement only of a recorded one.   *)
(*                                                                         *)
(* SnapshotLifecycle implements this with tasks that crash and statements  *)
(* that linger; LakebasePublish and the readers build on it.               *)
(***************************************************************************)
EXTENDS FiniteSets

CONSTANTS
    Snapshots,      \* the snapshot ids runs may produce
    NoSnapshot      \* the pointer table is empty

ASSUME SnapshotAssumption == NoSnapshot \notin Snapshots

VARIABLES
    complete,       \* snapshots with all their rows in Delta
    active,         \* the active_snapshot_id row
    served,         \* snapshots the pointer has named
    stamped,        \* snapshots with promoted_at_ms in corpus_snapshots
    retired         \* snapshots with deactivated_at_ms

registryVars == <<complete, active, served, stamped, retired>>

\* The rows of a snapshot nobody has been served are replaced: all of them get
\* there, or only some.
Prepare(s) ==
    /\ s \notin served
    /\ complete' \in {complete \cup {s}, complete \ {s}}
    /\ UNCHANGED <<active, served, stamped, retired>>

\* The pointer moves, by a promotion or by a rollback.
Serve(s) ==
    /\ s \in complete
    /\ active' = s
    /\ served' = served \cup {s}
    /\ UNCHANGED <<complete, stamped, retired>>

\* The ledger records the promotion.
Record(s) ==
    /\ s \in served
    /\ stamped' = stamped \cup {s}
    /\ UNCHANGED <<complete, active, served, retired>>

\* Retention deactivates a recorded snapshot.
Retire(s) ==
    /\ s \in stamped
    /\ retired' = retired \cup {s}
    /\ UNCHANGED <<complete, active, served, stamped>>

Init ==
    /\ complete = {}
    /\ active = NoSnapshot
    /\ served = {}
    /\ stamped = {}
    /\ retired = {}

Next == \E s \in Snapshots : Prepare(s) \/ Serve(s) \/ Record(s) \/ Retire(s)

Spec == Init /\ [][Next]_registryVars
=============================================================================

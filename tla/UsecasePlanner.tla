---------------------------- MODULE UsecasePlanner ----------------------------
(***************************************************************************)
(* plan_and_build_workspace_suggestion over the workspace knowledge graph: *)
(* compile a suggestion from the evidence in Lakebase, persist the plan,   *)
(* compile the suggestion again, and create the schema's quality view only *)
(* if the evidence still holds.  Requests run concurrently with each other, *)
(* with the refresh job, and with changes of the active snapshot.          *)
(***************************************************************************)
EXTENDS WorkspaceKG

CONSTANTS
    Requests,      \* plan-and-build requests for the schema's suggestion
    Snapshots,     \* capability-graph snapshots
    Anchored,      \* those whose extensions include every required anchor
    NoSnapshot

ASSUME AnchoredAssumption == Anchored \subseteq Snapshots
ASSUME PlannerSnapshotAssumption == NoSnapshot \notin Snapshots

VARIABLES
    servedSnapshot,  \* active_snapshot_id_synced, in Lakebase
    reqPc,           \* where each request is
    planSnapshot,    \* the snapshot the plan's suggestion names
    planTables,      \* included_tables of the plan's suggestion
    freshSnapshot,   \* active_snapshot_id of the second compilation
    freshTables,     \* included_tables of the second compilation
    outcome,         \* status of the plan
    rows,            \* workspace_build_plans: which status of which plan
    view,            \* tables the schema's quality view covers; {} is no view
    lateViews,       \* requests whose CREATE VIEW may still take effect
    executed         \* history: requests whose CREATE VIEW took effect

evidenceVars == <<planSnapshot, planTables, freshSnapshot, freshTables>>
planVars == <<servedSnapshot, reqPc, evidenceVars, outcome, rows, view,
              lateViews, executed>>
vars == <<kgVars, planVars>>

-----------------------------------------------------------------------------
(* Evidence. *)

\* Tables whose profile makes them fit for a suggestion, as a table of claims
\* has them: one recorded profile is enough, of whatever age.
ReadyTables_Unprofiled(claimRows) == Tables           \* mutant: no profile needed
ReadyTables(claimRows) == {t \in Tables : \E v \in Values : claimRows[t][v] # Never}

-----------------------------------------------------------------------------
(* The request. *)

\* list_workspace_build_suggestions reads the pointer and the anchors first and
\* the claims later.  Without a snapshot or an anchor it has no suggestions,
\* which ends the first compilation and empties the second; any read can raise.
ReadSnapshot(p) ==
    /\ reqPc[p] = "start"
    /\ \/ /\ servedSnapshot \in Anchored
          /\ planSnapshot' = [planSnapshot EXCEPT ![p] = servedSnapshot]
          /\ reqPc' = [reqPc EXCEPT ![p] = "claims"]
       \/ /\ reqPc' = [reqPc EXCEPT ![p] = "done"]
          /\ UNCHANGED planSnapshot
    /\ UNCHANGED <<kgVars, servedSnapshot, planTables, freshSnapshot, freshTables,
                   outcome, rows, view, lateViews, executed>>

ReadClaims(p) ==
    /\ reqPc[p] = "claims"
    /\ \/ /\ ReadyTables(synced) # {}
          /\ planTables' = [planTables EXCEPT ![p] = ReadyTables(synced)]
          /\ reqPc' = [reqPc EXCEPT ![p] = "plan"]
       \/ /\ reqPc' = [reqPc EXCEPT ![p] = "done"]
          /\ UNCHANGED planTables
    /\ UNCHANGED <<kgVars, servedSnapshot, planSnapshot, freshSnapshot, freshTables,
                   outcome, rows, view, lateViews, executed>>

\* _persist_build_plan: the row is written unless something raises, which is
\* logged and forgotten.
PersistRow(p, status) == rows' \in {rows, rows \cup {<<p, status>>}}

PersistPlanned(p) ==
    /\ reqPc[p] = "plan"
    /\ PersistRow(p, "planned")
    /\ outcome' = [outcome EXCEPT ![p] = "planned"]
    /\ reqPc' = [reqPc EXCEPT ![p] = "recheck"]
    /\ UNCHANGED <<kgVars, servedSnapshot, evidenceVars, view, lateViews, executed>>

RereadSnapshot(p) ==
    /\ reqPc[p] = "recheck"
    /\ \/ /\ freshSnapshot' = [freshSnapshot EXCEPT ![p] =
               IF servedSnapshot \in Anchored THEN servedSnapshot ELSE NoSnapshot]
          /\ reqPc' = [reqPc EXCEPT ![p] = "reclaims"]
       \/ /\ reqPc' = [reqPc EXCEPT ![p] = "done"]
          /\ UNCHANGED freshSnapshot
    /\ UNCHANGED <<kgVars, servedSnapshot, planSnapshot, planTables, freshTables,
                   outcome, rows, view, lateViews, executed>>

\* The suggestion of the schema is still there whichever tables it includes now.
StillValid_AnySnapshot(p, fresh) == fresh # {}                             \* mutant
StillValid(p, fresh) == fresh # {} /\ planSnapshot[p] = freshSnapshot[p]

Recheck(p) ==
    /\ reqPc[p] = "reclaims"
    /\ LET fresh == IF freshSnapshot[p] = NoSnapshot THEN {} ELSE ReadyTables(synced)
       IN  \/ /\ freshTables' = [freshTables EXCEPT ![p] = fresh]
              /\ IF StillValid(p, fresh)
                 THEN /\ reqPc' = [reqPc EXCEPT ![p] = "execute"]
                      /\ UNCHANGED outcome
                 ELSE /\ reqPc' = [reqPc EXCEPT ![p] = "record"]
                      /\ outcome' = [outcome EXCEPT ![p] = "blocked_evidence_drift"]
           \/ /\ reqPc' = [reqPc EXCEPT ![p] = "done"]
              /\ UNCHANGED <<freshTables, outcome>>
    /\ UNCHANGED <<kgVars, servedSnapshot, planSnapshot, planTables, freshSnapshot,
                   rows, view, lateViews, executed>>

\* CREATE OR REPLACE VIEW over the tables of the plan.
CreateView(p) ==
    /\ view' = planTables[p]
    /\ executed' = executed \cup {p}

ExecuteView_Optimistic(p) ==       \* mutant: a statement given up on counts as built
    /\ reqPc[p] = "execute"
    /\ \/ CreateView(p) /\ UNCHANGED lateViews
       \/ lateViews' \in {lateViews, lateViews \cup {p}} /\ UNCHANGED <<view, executed>>
    /\ outcome' = [outcome EXCEPT ![p] = "built"]
    /\ reqPc' = [reqPc EXCEPT ![p] = "record"]
    /\ UNCHANGED <<kgVars, servedSnapshot, evidenceVars, rows>>

ExecuteView(p) ==
    /\ reqPc[p] = "execute"
    /\ \/ /\ CreateView(p)
          /\ outcome' = [outcome EXCEPT ![p] = "built"]
          /\ UNCHANGED lateViews
       \/ /\ lateViews' \in {lateViews, lateViews \cup {p}}
          /\ outcome' = [outcome EXCEPT ![p] = "build_failed"]
          /\ UNCHANGED <<view, executed>>
    /\ reqPc' = [reqPc EXCEPT ![p] = "record"]
    /\ UNCHANGED <<kgVars, servedSnapshot, evidenceVars, rows>>

PersistOutcome(p) ==
    /\ reqPc[p] = "record"
    /\ PersistRow(p, outcome[p])
    /\ reqPc' = [reqPc EXCEPT ![p] = "done"]
    /\ UNCHANGED <<kgVars, servedSnapshot, evidenceVars, outcome, view, lateViews,
                   executed>>

\* The warehouse finishes a CREATE VIEW the request has given up on.
LandLateView ==
    \E p \in lateViews :
        /\ CreateView(p)
        /\ lateViews' = lateViews \ {p}
        /\ UNCHANGED <<kgVars, servedSnapshot, reqPc, evidenceVars, outcome, rows>>

\* The indexer's sync task, or the absence of its table while it is reset.
ServedSnapshotChanges ==
    /\ servedSnapshot' \in (Snapshots \cup {NoSnapshot}) \ {servedSnapshot}
    /\ UNCHANGED <<kgVars, reqPc, evidenceVars, outcome, rows, view, lateViews,
                   executed>>

PlannerInit ==
    /\ servedSnapshot = NoSnapshot
    /\ reqPc = [p \in Requests |-> "start"]
    /\ planSnapshot = [p \in Requests |-> NoSnapshot]
    /\ planTables = [p \in Requests |-> {}]
    /\ freshSnapshot = [p \in Requests |-> NoSnapshot]
    /\ freshTables = [p \in Requests |-> {}]
    /\ outcome = [p \in Requests |-> "none"]
    /\ rows = {}
    /\ view = {}
    /\ lateViews = {}
    /\ executed = {}

RequestStep(p) ==
    \/ ReadSnapshot(p) \/ ReadClaims(p) \/ PersistPlanned(p)
    \/ RereadSnapshot(p) \/ Recheck(p) \/ ExecuteView(p) \/ PersistOutcome(p)

Init == KGInit /\ PlannerInit

Next ==
    \/ KGNext /\ UNCHANGED planVars
    \/ \E p \in Requests : RequestStep(p)
    \/ LandLateView
    \/ ServedSnapshotChanges

Spec == Init /\ [][Next]_vars

-----------------------------------------------------------------------------
(* Properties. *)

Statuses == {"planned", "blocked_evidence_drift", "built", "build_failed"}

\* Every variable keeps to its domain.
TypeOK ==
    /\ KGTypeOK
    /\ servedSnapshot \in Snapshots \cup {NoSnapshot}
    /\ reqPc \in [Requests -> {"start", "claims", "plan", "recheck", "reclaims",
                               "execute", "record", "done"}]
    /\ planSnapshot \in [Requests -> Snapshots \cup {NoSnapshot}]
    /\ freshSnapshot \in [Requests -> Snapshots \cup {NoSnapshot}]
    /\ planTables \in [Requests -> SUBSET Tables]
    /\ freshTables \in [Requests -> SUBSET Tables]
    /\ outcome \in [Requests -> Statuses \cup {"none"}]
    /\ rows \in SUBSET (Requests \X Statuses)
    /\ view \in SUBSET Tables
    /\ lateViews \in SUBSET Requests
    /\ executed \in SUBSET Requests

\* The view reads workspace_claims_current, not the copy the plan was made
\* from: every table it covers has claims there, whichever request made the
\* view and whenever its statement took effect.
ViewIsBacked == \A t \in view : \E v \in Values : current[t][v] # Never

\* What workspace_build_plans says of a plan is true of the workspace: a plan
\* recorded as built made its view, and one recorded as blocked never will.
StatusTruthful ==
    \A p \in Requests :
        /\ <<p, "built">> \in rows => p \in executed
        /\ <<p, "blocked_evidence_drift">> \in rows => p \notin executed \cup lateViews

\* No view comes from a plan whose snapshot was not the served one, with its
\* anchors, when the evidence was checked again.
BuiltOnRecheckedEvidence ==
    \A p \in executed \cup lateViews :
        /\ freshTables[p] # {}
        /\ planSnapshot[p] = freshSnapshot[p]
        /\ freshSnapshot[p] \in Anchored
=============================================================================

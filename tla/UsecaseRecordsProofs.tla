------------------------- MODULE UsecaseRecordsProofs -------------------------
(***************************************************************************)
(* What holds of UsecaseRecords for any handlers, strategies and numbers   *)
(* of rows, stored or outstanding.                                         *)
(***************************************************************************)
EXTENDS UsecaseRecords, TLAPS

-----------------------------------------------------------------------------
(* The inductive invariant: what a row says is true of the rows that are    *)
(* stored, from the moment it is composed, wherever it is on its way.       *)

\* Rows a handler has composed and not yet tried to store.
Sending == {req[w].row : w \in {x \in Workers : req[x].pc = "insert"}}
AllRows == tables \cup lateRows \cup Sending

\* What a plan's steps carry was saved for their families before.
Saved(p) ==
    \A s \in p.steps :
        \E b \in Of("binding") :
            b.family = s.family /\ b.inputs = s.inputs /\ b.at < p.at

\* A plan that passes has steps, all of them with inputs.
Ready(p) == p.steps # {} /\ \A s \in p.steps : s.inputs \in {"some", "all"}

\* A validation that passed is of a stored plan that deserves it.
Deserved(v) ==
    \E p \in Of("plan") : v.plan = p.at /\ p.at < v.at /\ Ready(p)

\* By time t a validation that passed, and deserved it, was stored.
PassedBefore(t) ==
    \E v \in Of("validation") : v.ok /\ v.at < t /\ Deserved(v)

Fine(r) ==
    /\ r.at <= clock
    /\ r.table = "plan" => Saved(r)
    /\ r.table = "validation" /\ r.ok => Deserved(r)
    /\ r.table = "decision" /\ r.ready => PassedBefore(r.at)

RowsFine == \A r \in AllRows : Fine(r)

\* A handler that has read a validation that passed will decide on it.
DecidesWell ==
    \A w \in Workers : req[w].pc = "decide" /\ req[w].passed => PassedBefore(clock + 1)

IInv == TypeOK /\ RowsFine /\ DecidesWell

-----------------------------------------------------------------------------
(* Rows. *)

\* Rows of each table, and what a row has.
LEMMA RowKinds ==
  \A r \in Rows :
     /\ r.at \in Times /\ r.table \in Tables
     /\ r.table = "strategy" => r.kind \in StrategyKinds
     /\ r.table = "binding" => r.family \in Families /\ r.inputs \in Inputs
     /\ r.table = "plan" => r.kind \in Kinds /\ r.steps \in SUBSET Steps
     /\ r.table = "validation" => r.plan \in Times /\ r.ok \in BOOLEAN
     /\ r.table = "decision" => r.ready \in BOOLEAN
<1> SUFFICES ASSUME NEW r \in Rows
             PROVE  /\ r.at \in Times /\ r.table \in Tables
                    /\ r.table = "strategy" => r.kind \in StrategyKinds
                    /\ r.table = "binding" => r.family \in Families /\ r.inputs \in Inputs
                    /\ r.table = "plan" => r.kind \in Kinds /\ r.steps \in SUBSET Steps
                    /\ r.table = "validation" => r.plan \in Times /\ r.ok \in BOOLEAN
                    /\ r.table = "decision" => r.ready \in BOOLEAN
  OBVIOUS
<1>1. CASE r \in [table : {"strategy"}, at : Times, kind : StrategyKinds]
  BY <1>1 DEF Tables
<1>2. CASE r \in [table : {"binding"}, at : Times, family : Families, inputs : Inputs]
  BY <1>2 DEF Tables
<1>3. CASE r \in [table : {"plan"}, at : Times, kind : Kinds, steps : SUBSET Steps]
  BY <1>3 DEF Tables
<1>4. CASE r \in [table : {"validation"}, at : Times, plan : Times, ok : BOOLEAN]
  BY <1>4 DEF Tables
<1>5. CASE r \in [table : {"decision"}, at : Times, ready : BOOLEAN]
  BY <1>5 DEF Tables
<1> QED BY <1>1, <1>2, <1>3, <1>4, <1>5 DEF Rows

LEMMA AllRowsTypes == TypeOK => AllRows \subseteq Rows
<1> SUFFICES ASSUME TypeOK PROVE AllRows \subseteq Rows OBVIOUS
<1>1. ASSUME NEW w \in Workers, req[w].pc = "insert" PROVE req[w].row \in Rows
  BY <1>1 DEF TypeOK, Locals, Idle
<1> QED BY <1>1 DEF AllRows, Sending, TypeOK

\* As rows are added and time passes, what a row says stays true.
LEMMA StaysFine ==
  ASSUME TypeOK, tables \subseteq tables', clock' \in Nat, clock <= clock'
  PROVE  /\ \A r \in Rows : Fine(r) => Fine(r)'
         /\ PassedBefore(clock + 1) => PassedBefore(clock + 1)'
<1>1. \A name : Of(name) \subseteq Of(name)' BY DEF Of
<1>2. \A v : Deserved(v) => Deserved(v)' BY <1>1 DEF Deserved, Ready
<1>3. \A p : Saved(p) => Saved(p)' BY <1>1 DEF Saved
<1>4. \A t : PassedBefore(t) => PassedBefore(t)' BY <1>1, <1>2 DEF PassedBefore
<1>5. ASSUME NEW r \in Rows, Fine(r) PROVE Fine(r)'
  <2>1. r.at \in Nat /\ clock \in Nat BY RowKinds DEF TypeOK, Times
  <2>2. r.at <= clock' BY <1>5, <2>1 DEF Fine
  <2> QED BY <1>2, <1>3, <1>4, <1>5, <2>2 DEF Fine
<1>6. ASSUME PassedBefore(clock + 1) PROVE PassedBefore(clock + 1)'
  <2>1. PICK v \in Of("validation") : v.ok /\ v.at < clock + 1 /\ Deserved(v)
    BY <1>6 DEF PassedBefore
  <2>2. v \in Rows BY DEF TypeOK, Of
  <2>3. v.at \in Nat BY <2>2, RowKinds DEF Times
  <2>4. v.at < clock' + 1 BY <2>1, <2>3 DEF TypeOK
  <2> QED BY <1>1, <1>2, <2>1, <2>4 DEF PassedBefore
<1> QED BY <1>5, <1>6

\* What may have been read is stored.
LEMMA ReadsStored ==
  \A name : \A rows \in Reads(Of(name)) : rows \subseteq Of(name)
BY DEF Reads, Newest

LEMMA KindTypes ==
  ASSUME TypeOK, NEW rows \in Reads(Of("strategy"))
  PROVE  KindOf(rows) \in Kinds /\ (rows # {} => KindOf(rows) \in StrategyKinds)
<1>1. \A r \in rows : r \in Rows /\ r.table = "strategy"
  BY ReadsStored DEF TypeOK, Of
<1>2. \A r \in rows : r.kind \in StrategyKinds BY <1>1, RowKinds
<1>3. rows # {} => (CHOOSE r \in rows : TRUE) \in rows OBVIOUS
<1> QED BY <1>2, <1>3 DEF KindOf, Kinds

\* What is bound to a family was saved for it.
LEMMA BoundSaved ==
  ASSUME TypeOK, NEW rows \in {Of("binding"), {}}, NEW f \in Families
  PROVE  LET i == BoundInputs(rows)[f] IN
         /\ i \in Inputs \cup {"unbound"}
         /\ i # "unbound" => \E b \in Of("binding") : b.family = f /\ b.inputs = i
<1> DEFINE mine == Newest({r \in rows : r.family = f})
<1>1. BoundInputs(rows)[f] = IF mine = {} THEN "unbound" ELSE (CHOOSE r \in mine : TRUE).inputs
  BY DEF BoundInputs
<1>2. mine # {} => (CHOOSE r \in mine : TRUE) \in mine OBVIOUS
<1>3. \A r \in mine : r \in Of("binding") /\ r.family = f BY DEF Newest
<1>4. \A r \in Of("binding") : r.inputs \in Inputs BY RowKinds DEF TypeOK, Of
<1> HIDE DEF mine
<1> QED BY <1>1, <1>2, <1>3, <1>4

LEMMA FamilyTypes ==
  \A k \in StrategyKinds :
     /\ Requirements(k) \subseteq Families
     /\ \A f \in Requirements(k) : f \in RequiredBindings(k) \/ f = "Deploy"
BY DEF Requirements, RequiredBindings, StrategySkillFamilies, Families, Covered, StrategyKinds

\* A plan is composed of what was saved.
LEMMA PlanSteps ==
  ASSUME TypeOK, NEW rows \in {Of("binding"), {}}, NEW k \in StrategyKinds,
         ReadyToPlan(k, BoundInputs(rows)), NEW s \in ArtifactSteps(k, BoundInputs(rows))
  PROVE  /\ s \in Steps
         /\ \E b \in Of("binding") : b.family = s.family /\ b.inputs = s.inputs
<1> DEFINE bound == BoundInputs(rows)
<1>1. PICK f \in Requirements(k) :
         s = [family |-> f, inputs |-> bound[f], skill |-> HasSkill(k, f)]
  BY DEF ArtifactSteps
<1>2. f \in Families BY FamilyTypes
<1>3. bound[f] # "unbound"
  <2>1. CASE f = "Deploy" BY <1>1, <2>1 DEF ArtifactSteps
  <2>2. CASE f # "Deploy" BY <2>2, FamilyTypes DEF ReadyToPlan
  <2> QED BY <2>1, <2>2
<1>4. /\ bound[f] \in Inputs \cup {"unbound"}
      /\ bound[f] # "unbound" => \E b \in Of("binding") : b.family = f /\ b.inputs = bound[f]
  BY <1>2, BoundSaved
<1>5. HasSkill(k, f) \in BOOLEAN BY DEF HasSkill
<1> HIDE DEF bound, HasSkill
<1> QED BY <1>1, <1>2, <1>3, <1>4, <1>5 DEF Steps

-----------------------------------------------------------------------------
(* Steps. *)

LEMMA InitInv == Init => IInv
<1> SUFFICES ASSUME Init PROVE IInv OBVIOUS
<1>1. TypeOK BY DEF Init, TypeOK, Locals
<1>2. AllRows = {} BY DEF Init, AllRows, Sending, Idle
<1> QED BY <1>1, <1>2 DEF Init, IInv, RowsFine, DecidesWell, Idle

\* A step of one handler that composes no row.
LEMMA LocalInv ==
  ASSUME IInv, NEW w \in Workers, NEW local \in Locals, GoesTo(w, local),
         local.pc # "insert",
         local.pc = "decide" /\ local.passed => PassedBefore(clock + 1),
         UNCHANGED <<created, clock, composed>>,
         tables' \in SUBSET Rows, lateRows' \in SUBSET Rows, tables \subseteq tables',
         tables' \cup lateRows' \subseteq AllRows
  PROVE  IInv'
<1> USE DEF IInv
<1>1. req' = [req EXCEPT ![w] = local] BY DEF GoesTo
<1>2. TypeOK' BY <1>1 DEF TypeOK
<1>3. /\ \A r \in Rows : Fine(r) => Fine(r)'
      /\ PassedBefore(clock + 1) => PassedBefore(clock + 1)'
  BY StaysFine DEF TypeOK
<1>4. RowsFine'
  <2>1. AllRows' \subseteq AllRows BY <1>1 DEF AllRows, Sending, TypeOK
  <2> QED BY <1>3, <2>1, AllRowsTypes DEF RowsFine
<1>5. DecidesWell' BY <1>1, <1>3 DEF DecidesWell, TypeOK
<1> QED BY <1>2, <1>4, <1>5

\* A step of one handler that composes a row.
LEMMA ComposesInv ==
  ASSUME IInv, NEW w \in Workers, NEW row \in Rows, Composes(w, row), row.at = clock + 1,
         row.table = "plan" => Saved(row),
         row.table = "validation" /\ row.ok => Deserved(row),
         row.table = "decision" /\ row.ready => PassedBefore(row.at),
         UNCHANGED <<created, tables, lateRows>>
  PROVE  IInv'
<1> USE DEF IInv
<1> DEFINE local == [pc |-> "insert", row |-> row]
<1>1. /\ req' = [req EXCEPT ![w] = local] /\ clock' = clock + 1
      /\ composed' = [composed EXCEPT ![row.table] = composed[row.table] + 1]
  BY DEF Composes, GoesTo
<1>2. local \in Locals /\ local.pc = "insert" /\ local.row = row BY DEF Locals
<1> HIDE DEF local
<1>3. TypeOK'
  <2>1. composed' \in [Tables -> Nat] BY <1>1, RowKinds DEF TypeOK
  <2> QED BY <1>1, <1>2, <2>1 DEF TypeOK
<1>4. /\ \A r \in Rows : Fine(r) => Fine(r)'
      /\ PassedBefore(clock + 1) => PassedBefore(clock + 1)'
  BY <1>1, <1>3, StaysFine DEF TypeOK
<1>5. Fine(row)'
  <2>1. \A v : Deserved(v) = Deserved(v)' BY DEF Deserved, Of, Ready
  <2>2. \A p : Saved(p) = Saved(p)' BY DEF Saved, Of
  <2>3. \A t : PassedBefore(t) = PassedBefore(t)' BY <2>1 DEF PassedBefore, Of
  <2> QED BY <1>1, <2>1, <2>2, <2>3 DEF Fine, TypeOK
<1>6. RowsFine'
  <2>1. AllRows' \subseteq AllRows \cup {row} BY <1>1, <1>2 DEF AllRows, Sending, TypeOK
  <2> QED BY <1>4, <1>5, <2>1, AllRowsTypes DEF RowsFine
<1>7. DecidesWell' BY <1>1, <1>2, <1>4 DEF DecidesWell, TypeOK
<1> QED BY <1>3, <1>6, <1>7

\* Stored rows were composed by now.
LEMMA StoredBefore ==
  ASSUME IInv, NEW r \in tables
  PROVE  r \in Rows /\ Fine(r) /\ r.at < clock + 1
<1>1. r \in Rows /\ Fine(r) BY DEF IInv, TypeOK, RowsFine, AllRows
<1>2. r.at \in Nat /\ clock \in Nat BY <1>1, RowKinds DEF IInv, TypeOK, Times
<1> QED BY <1>1, <1>2 DEF Fine

LEMMA SaveInv ==
  ASSUME IInv, NEW w \in Workers, SaveStrategy(w) \/ SaveSkillInputs(w) PROVE IInv'
<1>0. clock + 1 \in Times BY DEF IInv, TypeOK, Times
<1>1. CASE SaveStrategy(w)
  <2>1. PICK kind \in Strategies : Composes(w, Strategy(clock + 1, kind))
    BY <1>1 DEF SaveStrategy
  <2>2. kind \in StrategyKinds BY StrategiesAssumption
  <2>3. Strategy(clock + 1, kind) \in Rows BY <1>0, <2>2 DEF Strategy, Rows
  <2> QED BY <1>1, <2>1, <2>3, ComposesInv DEF SaveStrategy, Strategy
<1>2. CASE SaveSkillInputs(w)
  <2>1. PICK k \in Strategies : \E f \in Requirements(k), i \in Inputs :
           Composes(w, Binding(clock + 1, f, i))
    BY <1>2 DEF SaveSkillInputs
  <2>2. PICK f \in Requirements(k), i \in Inputs : Composes(w, Binding(clock + 1, f, i))
    BY <2>1
  <2>3. f \in Families BY StrategiesAssumption, FamilyTypes
  <2>4. Binding(clock + 1, f, i) \in Rows BY <1>0, <2>3 DEF Binding, Rows
  <2> QED BY <1>2, <2>2, <2>4, ComposesInv DEF SaveSkillInputs, Binding
<1> QED BY <1>1, <1>2

LEMMA SameTables ==
  ASSUME IInv, UNCHANGED <<tables, lateRows>>
  PROVE  /\ tables' \in SUBSET Rows /\ lateRows' \in SUBSET Rows /\ tables \subseteq tables'
         /\ tables' \cup lateRows' \subseteq AllRows
BY DEF IInv, TypeOK, AllRows

LEMMA IdleInv ==
  ASSUME IInv, NEW w \in Workers, GoesTo(w, Idle),
         UNCHANGED <<created, tables, lateRows, clock, composed>>
  PROVE  IInv'
<1>1. Idle \in Locals /\ Idle.pc = "idle" BY DEF Idle, Locals
<1> QED BY <1>1, SameTables, LocalInv

LEMMA BeginInv ==
  ASSUME IInv, NEW w \in Workers, GenerateBegin(w) \/ ValidateBegin(w) \/ EvaluateBegin(w)
  PROVE  IInv'
<1>0. UNCHANGED <<created, tables, lateRows, clock, composed>>
  BY DEF GenerateBegin, ValidateBegin, EvaluateBegin
<1>1. CASE GenerateBegin(w) \/ ValidateBegin(w)
  <2>1. PICK rows \in Reads(Of("strategy")), pc \in {"resolve", "validate"} :
           GoesTo(w, [pc |-> pc, kind |-> KindOf(rows)])
    BY <1>1 DEF GenerateBegin, ValidateBegin
  <2>2. [pc |-> pc, kind |-> KindOf(rows)] \in Locals
    BY KindTypes DEF IInv, Locals
  <2> QED BY <1>0, <2>1, <2>2, SameTables, LocalInv
<1>2. CASE EvaluateBegin(w)
  <2>1. PICK rows \in Reads(Of("validation")) :
           GoesTo(w, [pc |-> "decide", passed |-> \E v \in rows : v.ok])
    BY <1>2 DEF EvaluateBegin
  <2> DEFINE passed == \E v \in rows : v.ok
             local == [pc |-> "decide", passed |-> passed]
  <2>2. passed \in BOOLEAN OBVIOUS
  <2>3. passed => PassedBefore(clock + 1)
    <3> SUFFICES ASSUME NEW v \in rows, v.ok PROVE PassedBefore(clock + 1) OBVIOUS
    <3>1. v \in Of("validation") BY ReadsStored
    <3>2. v \in tables /\ v.table = "validation" BY <3>1 DEF Of
    <3> QED BY <3>1, <3>2, StoredBefore DEF PassedBefore, Fine
  <2> HIDE DEF passed
  <2>4. local \in Locals /\ local.pc = "decide" /\ local.passed = passed BY <2>2 DEF Locals
  <2>5. GoesTo(w, local) BY <2>1 DEF passed
  <2> HIDE DEF local
  <2> QED BY <1>0, <2>3, <2>4, <2>5, SameTables, LocalInv
<1> QED BY <1>1, <1>2

LEMMA ResolveInv == ASSUME IInv, NEW w \in Workers, GenerateResolve(w) PROVE IInv'
<1>0. UNCHANGED <<created, tables, lateRows, clock, composed>> /\ req[w].pc = "resolve"
  BY DEF GenerateResolve, Does
<1>1. PICK rows \in Reads(Of("strategy")) :
         IF rows = {}
         THEN GoesTo(w, Idle)
         ELSE GoesTo(w, [pc |-> "bind", kind |-> req[w].kind, resolved |-> KindOf(rows)])
  BY DEF GenerateResolve
<1>2. req[w].kind \in Kinds BY <1>0 DEF IInv, TypeOK, Locals, Idle
<1>3. CASE rows # {}
  <2>1. [pc |-> "bind", kind |-> req[w].kind, resolved |-> KindOf(rows)] \in Locals
    BY <1>2, <1>3, KindTypes DEF IInv, Locals
  <2> QED BY <1>0, <1>1, <1>3, <2>1, SameTables, LocalInv
<1> QED BY <1>0, <1>1, <1>3, IdleInv

LEMMA GenerateInv == ASSUME IInv, NEW w \in Workers, GeneratePlan(w) PROVE IInv'
<1>0. UNCHANGED <<created, tables, lateRows>> /\ req[w].pc = "bind"
  BY DEF GeneratePlan, Does
<1>1. PICK rows \in {Of("binding"), {}} :
         IF ReadyToPlan(req[w].resolved, BoundInputs(rows))
         THEN Composes(w, Plan(clock + 1, req[w].kind,
                               ArtifactSteps(req[w].resolved, BoundInputs(rows))))
         ELSE GoesTo(w, Idle) /\ UNCHANGED <<clock, composed>>
  BY DEF GeneratePlan
<1> DEFINE kind == req[w].kind
           steps == ArtifactSteps(req[w].resolved, BoundInputs(rows))
           plan == Plan(clock + 1, kind, steps)
<1>2. kind \in Kinds /\ req[w].resolved \in StrategyKinds
  BY <1>0 DEF IInv, TypeOK, Locals, Idle
<1>3. CASE ReadyToPlan(req[w].resolved, BoundInputs(rows))
  <2>1. \A s \in steps :
           /\ s \in Steps
           /\ \E b \in Of("binding") : b.family = s.family /\ b.inputs = s.inputs
    BY <1>2, <1>3, PlanSteps DEF IInv
  <2>2. \A b \in Of("binding") : b.at < clock + 1 BY StoredBefore DEF Of
  <2> HIDE DEF steps, kind
  <2>3. plan \in Rows /\ plan.at = clock + 1 /\ plan.table = "plan" /\ plan.steps = steps
    BY <1>2, <2>1 DEF Plan, Rows, Times, IInv, TypeOK
  <2>4. Composes(w, plan) BY <1>1, <1>3 DEF steps, kind
  <2> HIDE DEF plan
  <2>5. Saved(plan) BY <2>1, <2>2, <2>3 DEF Saved
  <2> QED BY <1>0, <2>3, <2>4, <2>5, ComposesInv
<1> QED BY <1>0, <1>1, <1>3, IdleInv

LEMMA ValidateInv == ASSUME IInv, NEW w \in Workers, ValidatePlan(w) PROVE IInv'
<1>0. UNCHANGED <<created, tables, lateRows>> BY DEF ValidatePlan
<1>1. PICK rows \in Reads(Of("plan")) :
        IF rows = {}
        THEN GoesTo(w, Idle) /\ UNCHANGED <<clock, composed>>
        ELSE \E p \in rows :
               Composes(w, Validation(clock + 1, p.at, StepsPass(p.steps, req[w].kind)))
  BY DEF ValidatePlan
<1>2. CASE rows # {}
  <2>1. PICK p \in rows :
           Composes(w, Validation(clock + 1, p.at, StepsPass(p.steps, req[w].kind)))
    BY <1>1, <1>2
  <2>2. p \in Of("plan") /\ p \in tables BY ReadsStored DEF Of
  <2>3. p.at \in Times /\ p.at < clock + 1 BY <2>2, StoredBefore, RowKinds
  <2> DEFINE ok == StepsPass(p.steps, req[w].kind)
             v == Validation(clock + 1, p.at, ok)
  <2>4. ok \in BOOLEAN BY DEF StepsPass
  <2>5. ok => Ready(p) BY DEF StepsPass, Ready
  <2> HIDE DEF ok
  <2>6. v \in Rows /\ v.at = clock + 1 /\ v.table = "validation" /\ v.ok = ok /\ v.plan = p.at
    BY <2>3, <2>4 DEF Validation, Rows, Times, IInv, TypeOK
  <2>7. Composes(w, v) BY <2>1 DEF ok
  <2> HIDE DEF v
  <2>8. v.ok => Deserved(v) BY <2>2, <2>3, <2>5, <2>6 DEF Deserved
  <2> QED BY <1>0, <2>6, <2>7, <2>8, ComposesInv
<1> QED BY <1>0, <1>1, <1>2, IdleInv

LEMMA DecideInv == ASSUME IInv, NEW w \in Workers, EvaluateDecide(w) PROVE IInv'
<1>0. UNCHANGED <<created, tables, lateRows>> /\ req[w].pc = "decide"
  BY DEF EvaluateDecide, Does
<1>1. PICK rows \in Reads(Of("strategy")) :
        Composes(w, Decision(clock + 1, ReadyForExecution(req[w].passed, rows)))
  BY DEF EvaluateDecide
<1> DEFINE ready == ReadyForExecution(req[w].passed, rows)
           d == Decision(clock + 1, ready)
<1>2. req[w].passed \in BOOLEAN BY <1>0 DEF IInv, TypeOK, Locals, Idle
<1>3. ready \in BOOLEAN /\ (ready => req[w].passed)
  BY <1>2 DEF ReadyForExecution
<1> HIDE DEF ready
<1>4. d \in Rows /\ d.at = clock + 1 /\ d.table = "decision" /\ d.ready = ready
  BY <1>3 DEF Decision, Rows, Times, IInv, TypeOK
<1>5. Composes(w, d) BY <1>1 DEF ready
<1> HIDE DEF d
<1>6. d.ready => PassedBefore(d.at) BY <1>0, <1>3, <1>4 DEF IInv, DecidesWell
<1> QED BY <1>0, <1>4, <1>5, <1>6, ComposesInv

LEMMA InsertInv == ASSUME IInv, NEW w \in Workers, Insert(w) PROVE IInv'
<1>1. /\ req[w].pc = "insert" /\ GoesTo(w, Idle) /\ UNCHANGED <<created, clock, composed>>
      /\ tables' \in {tables, tables \cup {req[w].row}}
      /\ lateRows' \in {lateRows, lateRows \cup {req[w].row}}
  BY DEF Insert, Does
<1>2. req[w].row \in AllRows /\ req[w].row \in Rows
  BY <1>1, AllRowsTypes DEF IInv, AllRows, Sending
<1>3. /\ tables' \in SUBSET Rows /\ lateRows' \in SUBSET Rows /\ tables \subseteq tables'
      /\ tables' \cup lateRows' \subseteq AllRows
  BY <1>1, <1>2 DEF IInv, TypeOK, AllRows
<1>4. Idle \in Locals /\ Idle.pc = "idle" BY DEF Idle, Locals
<1> QED BY <1>1, <1>3, <1>4, LocalInv

\* Rows that land late, and steps that touch none.
LEMMA LandInv ==
  ASSUME IInv, UNCHANGED <<clock, composed, req>>, created' \in BOOLEAN,
         tables \subseteq tables', tables' \cup lateRows' \subseteq tables \cup lateRows
  PROVE  IInv'
<1> USE DEF IInv
<1>1. TypeOK' BY DEF TypeOK
<1>2. /\ \A r \in Rows : Fine(r) => Fine(r)'
      /\ PassedBefore(clock + 1) => PassedBefore(clock + 1)'
  BY StaysFine DEF TypeOK
<1>3. AllRows' \subseteq AllRows BY DEF AllRows, Sending
<1>4. RowsFine' BY <1>2, <1>3, AllRowsTypes DEF RowsFine
<1>5. DecidesWell' BY <1>2 DEF DecidesWell
<1> QED BY <1>1, <1>4, <1>5

LEMMA NextInv == IInv /\ [Next]_vars => IInv'
<1> SUFFICES ASSUME IInv, [Next]_vars PROVE IInv' OBVIOUS
<1>1. CASE UNCHANGED vars BY <1>1, LandInv DEF vars, IInv, TypeOK
<1>2. CASE CreateUsecase BY <1>2, LandInv DEF CreateUsecase
<1>3. CASE LandRow BY <1>3, LandInv DEF LandRow, IInv, TypeOK
<1>4. ASSUME NEW w \in Workers, RequestRaises(w) PROVE IInv'
  BY <1>4, IdleInv DEF RequestRaises
<1>5. ASSUME NEW w \in Workers, WorkerStep(w) PROVE IInv'
  BY <1>4, <1>5, SaveInv, BeginInv, ResolveInv, GenerateInv, ValidateInv, DecideInv, InsertInv
     DEF WorkerStep
<1> QED BY <1>1, <1>2, <1>3, <1>5 DEF Next

LEMMA Invariance == Spec => []IInv
BY InitInv, NextInv, PTL DEF Spec

-----------------------------------------------------------------------------
(* What the rows tell. *)

\* Every table of the usecase, and what each handler has in hand, keeps to its
\* domain.
THEOREM TypeCorrect == Spec => []TypeOK
<1>1. IInv => TypeOK BY DEF IInv
<1> QED BY <1>1, Invariance, PTL

\* generate_usecase_artifact_plan makes nothing up: what the steps of a stored plan
\* carry was saved before, whatever ran in between and whichever query failed.
THEOREM PlansUseSavedInputs == Spec => []PlanInputsWereSaved
<1>1. IInv => PlanInputsWereSaved
  BY DEF IInv, RowsFine, AllRows, Fine, Saved, Of, PlanInputsWereSaved
<1> QED BY <1>1, Invariance, PTL

\* evaluate_usecase_go_no_go: behind a ready decision there is, in the order of
\* time, a passed validation of a stored plan whose steps all have inputs.
THEOREM ReadyRestsOnValidation == Spec => []ReadyWasValidated
<1>1. IInv => ReadyWasValidated
  <2> SUFFICES ASSUME IInv, NEW d \in Of("decision"), d.ready
               PROVE  \E v \in Of("validation"), p \in Of("plan") :
                         /\ v.ok /\ v.plan = p.at
                         /\ p.at < v.at /\ v.at < d.at
                         /\ p.steps # {}
                         /\ \A s \in p.steps : s.inputs \in {"some", "all"}
    BY DEF ReadyWasValidated
  <2>1. PassedBefore(d.at) BY DEF IInv, RowsFine, AllRows, Fine, Of
  <2> QED BY <2>1 DEF PassedBefore, Deserved, Ready
<1> QED BY <1>1, Invariance, PTL
=============================================================================

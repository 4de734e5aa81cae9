----------------------------- MODULE ConsoleReads -----------------------------
(***************************************************************************)
(* The console answering from Lakebase while LakebasePublish replaces its  *)
(* tables.  A request first asks for the active snapshot, then for that    *)
(* snapshot's rows, in two statements; all requests share one connection   *)
(* (lakebase_connection), handed out under a lock and used outside it.     *)
(***************************************************************************)
EXTENDS LakebasePublish

CONSTANTS
    Requests,       \* requests the console may be serving at once
    Connections,    \* connections to Postgres it may open
    NoConnection

ASSUME ConnectionAssumption == NoConnection \notin Connections

VARIABLES
    slot,       \* persistent_conn
    dead,       \* connections that are closed or broken
    step,       \* what each request is doing
    conn,       \* the connection it was handed
    reading,    \* the snapshot it has read from the pointer
    answer,     \* what it answered last
    disturbed,  \* history: something was amiss in Lakebase during the request
    struck      \* history: another request closed the connection it was using

poolVars == <<slot, dead>>
requestVars == <<step, conn, reading, answer, disturbed, struck>>
readVars == <<publishVars, poolVars, requestVars>>

-----------------------------------------------------------------------------

\* Lakebase as the last sync left it: it succeeded, nothing the console joins on
\* is being replaced and no promotion has come since.
Quiet == /\ published # NoSnapshot
         /\ ~Syncing
         /\ updating \cap (Verified \cup {Pointer}) = {}

InFlight == {r \in Requests : step[r] # "idle"}
Held == {conn[r] : r \in Requests} \ {NoConnection}

\* These connections are closed; one that nobody refers to is forgotten.
Close(cs) == dead' = cs \cap (Held' \cup ({slot'} \ {NoConnection}))

\* Between two statements a request holds no connection.
Move(r, to) == step' = [step EXCEPT ![r] = to]

Answer(r, a) == /\ Move(r, "idle")
                /\ answer' = [answer EXCEPT ![r] = a]
                /\ reading' = [reading EXCEPT ![r] = NoSnapshot]

Arrive(r) ==
    /\ step[r] = "idle"
    /\ Move(r, "pointer")
    /\ answer' = [answer EXCEPT ![r] = "none"]
    /\ disturbed' = [disturbed EXCEPT ![r] = ~Quiet]
    /\ struck' = [struck EXCEPT ![r] = FALSE]
    /\ UNCHANGED <<publishVars, poolVars, conn, reading>>

\* The connection is asked for a SELECT 1 and replaced when it does not answer;
\* if no new one can be opened the request fails and the slot stays empty.
Acquire(r) ==
    /\ step[r] \in {"pointer", "rows"}
    /\ \/ \E c \in IF slot # NoConnection /\ slot \notin dead
                    THEN {slot} ELSE Connections \ (Held \cup {slot}) :
             /\ slot' = c
             /\ conn' = [conn EXCEPT ![r] = c]
             /\ Close(dead)
             /\ Move(r, IF step[r] = "pointer" THEN "ask pointer" ELSE "ask rows")
             /\ UNCHANGED <<reading, answer, disturbed>>
       \/ /\ slot = NoConnection \/ slot \in dead
          /\ slot' = NoConnection
          /\ Answer(r, "failed")
          /\ disturbed' = [disturbed EXCEPT ![r] = TRUE]
          /\ UNCHANGED conn
          /\ Close(dead)
    /\ UNCHANGED <<publishVars, struck>>

\* The tables a statement names.
Asked(r) == IF step[r] = "ask pointer" THEN {Pointer} ELSE Verified

Fault(r) == conn[r] \in dead \/ ~(Asked(r) \subseteq present)

DropShared_Slot(r) == slot       \* mutant: close what is in the slot by now
DropShared(r) == conn[r]

\* The statement raises: the with block closes the connection it yielded and
\* empties the slot, whatever connection is in it by now.
Drop(r) ==
    /\ step[r] \in {"ask pointer", "ask rows"}
    /\ Fault(r)
    /\ slot' = NoConnection
    /\ conn' = [conn EXCEPT ![r] = NoConnection]
    /\ LET c == DropShared(r) IN
       /\ Close(dead \cup {c})
       /\ struck' = [q \in Requests |->
                       struck[q] \/ (q # r /\ conn[q] = c /\ c \notin dead)]
    /\ Answer(r, "failed")
    /\ UNCHANGED <<publishVars, disturbed>>

\* The pointer is read: no row is "never_run", a row leads to the second query.
ReadPointer(r) ==
    /\ step[r] = "ask pointer"
    /\ ~Fault(r)
    /\ \/ /\ copy[Pointer] = {}
          /\ Answer(r, "never_run")
       \/ /\ \E s \in copy[Pointer] : reading' = [reading EXCEPT ![r] = s]
          /\ Move(r, "rows")
          /\ UNCHANGED answer
    /\ conn' = [conn EXCEPT ![r] = NoConnection]
    /\ UNCHANGED <<publishVars, poolVars, disturbed, struck>>

\* The rows of that snapshot, joined over the tables they are in.
ReadRows(r) ==
    /\ step[r] = "ask rows"
    /\ ~Fault(r)
    /\ Answer(r, IF \A t \in Verified : reading[r] \in copy[t] THEN "rows" ELSE "empty")
    /\ conn' = [conn EXCEPT ![r] = NoConnection]
    /\ UNCHANGED <<publishVars, poolVars, disturbed, struck>>

\* The server or the network breaks the shared connection.
Break ==
    /\ slot # NoConnection /\ slot \notin dead
    /\ dead' = dead \cup {slot}
    /\ disturbed' = [r \in Requests |-> disturbed[r] \/ r \in InFlight]
    /\ UNCHANGED <<publishVars, slot, step, conn, reading, answer, struck>>

\* A step of the job, an operator or a pipeline under the requests' feet.
LakebaseMoves ==
    /\ PublishNext
    /\ disturbed' = [r \in Requests |-> disturbed[r] \/ (r \in InFlight /\ ~Quiet')]
    /\ UNCHANGED <<poolVars, step, conn, reading, answer, struck>>

-----------------------------------------------------------------------------

ReadInit ==
    /\ PublishInit
    /\ slot = NoConnection /\ dead = {}
    /\ step = [r \in Requests |-> "idle"]
    /\ conn = [r \in Requests |-> NoConnection]
    /\ reading = [r \in Requests |-> NoSnapshot]
    /\ answer = [r \in Requests |-> "none"]
    /\ disturbed = [r \in Requests |-> FALSE]
    /\ struck = [r \in Requests |-> FALSE]

RequestStep(r) == Acquire(r) \/ Drop(r) \/ ReadPointer(r) \/ ReadRows(r)

ReadNext ==
    \/ \E r \in Requests : Arrive(r) \/ RequestStep(r)
    \/ Break
    \/ LakebaseMoves

ReadSpec == ReadInit /\ [][ReadNext]_readVars

-----------------------------------------------------------------------------
(* Properties. *)

\* A request that found Lakebase as the last sync left it, all the way through,
\* answers with the rows of the snapshot it read -- never with nothing and never
\* with an error, unless another request closed the shared connection under it.
CleanReadsAnswer ==
    \A r \in Requests :
        answer[r] \in {"empty", "never_run", "failed"} => disturbed[r] \/ struck[r]

\* Errors do not spread: a request that another one struck does not strike a
\* third, so one failing statement costs at most the requests then sharing its
\* connection.
StrikesDoNotSpread ==
    [][\A r \in Requests :
         Drop(r) /\ struck[r] => \A q \in Requests \ {r} : struck'[q] = struck[q]]_readVars
=============================================================================

--------------------------- MODULE TaskConnection ---------------------------
(***************************************************************************)
(* class TaskConnectionBase of connections/base.py: a connection that is   *)
(* kept open by a background task ("run") of its own.                      *)
(*                                                                         *)
(* open() starts a run and waits until it has called started().  close()   *)
(* cancels the run and waits for the event that the run sets in the end.   *)
(* A run that is over calls close() itself, so that runs are users of the  *)
(* connection just like its callers.                                       *)
(***************************************************************************)
EXTENDS ConnectionStates

CONSTANTS
    Callers,      \* the tasks that call open() and close()
    Runs,         \* the background tasks (the bound of the model)
    Disciplined,
    Failures,     \* of ConnectionBase, and "run": a run may raise or lose its nursery
    None

ASSUME RunAssumption == None \notin Runs /\ Callers \cap Runs = {}

Tasks == Callers \cup Runs

VARIABLES
    state, isConnected, isDisconnected, pc, woken,   \* of ConnectionBase
    nursery,      \* whether assign_nursery() was called
    scope,        \* _cancel_scope: the run whose scope it is, or None
    event,        \* _closed_event: the run that was started with it, or None
    isSet,        \* the events that are set
    run,          \* where the background tasks are
    opens,        \* the run that a task inside _open() has started
    awaits,       \* the event that a task inside _close() waits for
    left          \* history: the runs that a close() did not wait for, because it
                  \* was cancelled or another such run has set their event

baseVars == <<state, isConnected, isDisconnected, pc, woken>>
handles == <<nursery, scope, event>>
vars == <<baseVars, handles, isSet, run, opens, awaits, left>>

Base == INSTANCE ConnectionBase

Init ==
    /\ Base!Init
    /\ nursery = FALSE
    /\ scope = None
    /\ event = None
    /\ isSet = {}
    /\ run = [r \in Runs |-> "none"]
    /\ opens = [t \in Tasks |-> None]
    /\ awaits = [t \in Tasks |-> None]
    /\ left = {}

(* A run that is over and that nothing refers to any more. *)
FreshRuns ==
    {r \in Runs : /\ run[r] \in {"none", "stopped", "crashed"}
                  /\ pc[r] = "idle"
                  /\ r \notin {scope, event}
                  /\ \A t \in Tasks : opens[t] # r /\ awaits[t] # r}

AssignNursery ==
    /\ state = DISCONNECTED
    /\ nursery' = TRUE
    /\ scope' = None
    /\ event' = None
    /\ UNCHANGED <<baseVars, isSet, run, opens, awaits, left>>

(***************************************************************************)
(* open()                                                                  *)
(***************************************************************************)

OpenWaits(t) ==
    /\ Base!OpenJoins(t) \/ Base!OpenQueues(t)
    /\ UNCHANGED <<handles, isSet, run, opens, awaits, left>>

OpenWithoutNursery(t) ==
    /\ ~nursery
    /\ Base!OpenAtOnce(t, FALSE)
    /\ UNCHANGED <<handles, isSet, run, opens, awaits, left>>

(* A new event, and nursery.start() of a new run. *)
OpenStarts(t) ==
    /\ nursery
    /\ Base!OpenStarts(t)
    /\ \E r \in FreshRuns :
        /\ event' = r
        /\ isSet' = isSet \ {r}
        /\ run' = [run EXCEPT ![r] = "starting"]
        /\ opens' = [opens EXCEPT ![t] = r]
        /\ left' = left \ {r}
    /\ UNCHANGED <<nursery, scope, awaits>>

(* nursery.start() returns the scope after started() was called, ... *)
OpenSucceeds(t) ==
    /\ opens[t] # None
    /\ run[opens[t]] \in {"running", "stopped", "crashed"}
    /\ Base!OpenEnds(t, TRUE)
    /\ scope' = opens[t]
    /\ opens' = [opens EXCEPT ![t] = None]
    /\ UNCHANGED <<nursery, event, isSet, run, awaits, left>>

(* ... or it raises what the run raised before. *)
OpenFails(t) ==
    /\ opens[t] # None
    /\ run[opens[t]] = "failed"
    /\ Base!OpenEnds(t, FALSE)
    /\ run' = [run EXCEPT ![opens[t]] = "stopped"]
    /\ opens' = [opens EXCEPT ![t] = None]
    /\ UNCHANGED <<handles, isSet, awaits, left>>

(***************************************************************************)
(* The run: _create_cancel_scope_and_run()                                 *)
(***************************************************************************)

(* Mutant: no event is set. *)
EventIsSet_Forgotten(r) == UNCHANGED <<isSet, left>>

(* The finally block of r sets the event the connection has NOW, which is  *)
(* not its own if r was left behind.                                       *)
EventIsSet(r) ==
    /\ isSet' = isSet \cup ({event} \ {None})
    /\ left' = IF r \in left THEN left \cup ({event} \ {None}) ELSE left

Started(r) ==
    /\ run[r] = "starting"
    /\ run' = [run EXCEPT ![r] = "running"]
    /\ UNCHANGED <<baseVars, handles, isSet, opens, awaits, left>>

(* _run() raises, or is cancelled from outside, before started() ... *)
RunFails(r) ==
    /\ run[r] = "starting"
    /\ "open" \in Failures
    /\ run' = [run EXCEPT ![r] = "failed"]
    /\ EventIsSet(r)
    /\ UNCHANGED <<baseVars, handles, opens, awaits>>

(* Mutant: the call of close() at the end of a run is missing. *)
RunRaises_AsReturns(r) ==
    /\ run[r] = "running"
    /\ run' = [run EXCEPT ![r] = "stopped"]
    /\ EventIsSet(r)
    /\ UNCHANGED <<baseVars, handles, opens, awaits>>

(* ... or after it, or its nursery is cancelled: the call of close() is    *)
(* skipped.                                                                *)
RunRaises(r) ==
    /\ run[r] = "running"
    /\ "run" \in Failures
    /\ run' = [run EXCEPT ![r] = "crashed"]
    /\ EventIsSet(r)
    /\ UNCHANGED <<baseVars, handles, opens, awaits>>

(* The task t comes to call close(): a caller at any time, a run when      *)
(* _run() has returned or was cancelled through the scope.                 *)
ComesToClose(t) ==
    IF t \in Runs /\ pc[t] = "idle"
    THEN /\ run[t] = "running"
         /\ run' = [run EXCEPT ![t] = "stopped"]
         /\ EventIsSet(t)
    ELSE UNCHANGED <<run, isSet, left>>

(***************************************************************************)
(* close()                                                                 *)
(***************************************************************************)

(* Disciplined callers leave the queue to the run. *)
CloseWaits(t) ==
    /\ Disciplined /\ t \in Callers => state # CONNECTING
    /\ Base!CloseJoins(t) \/ Base!CloseQueues(t)
    /\ ComesToClose(t)
    /\ UNCHANGED <<handles, opens, awaits>>

CloseIsNoOp(r) ==
    /\ run[r] = "running"
    /\ state = DISCONNECTED
    /\ ComesToClose(r)
    /\ UNCHANGED <<baseVars, handles, opens, awaits>>

(* _close() with a scope: forget it, cancel it, wait for the event. *)
CloseStarts(t) ==
    /\ scope # None
    /\ Base!CloseStarts(t)
    /\ ComesToClose(t)
    /\ scope' = None
    /\ awaits' = [awaits EXCEPT ![t] = event]
    /\ UNCHANGED <<nursery, event, opens>>

CloseAtOnce(t) ==
    /\ scope = None
    /\ Base!CloseAtOnce(t, TRUE)
    /\ ComesToClose(t)
    /\ UNCHANGED <<handles, opens, awaits>>

(* Mutant: close() does not wait for the run. *)
CloseEnds_NoWait(t, ok) ==
    /\ Base!CloseEnds(t, ok)
    /\ awaits' = [awaits EXCEPT ![t] = None]
    /\ UNCHANGED <<handles, isSet, run, opens, left>>

(* A run is cancelled inside close() only together with its nursery. *)
Loses(t) ==
    /\ t \in Runs => "run" \in Failures
    /\ run' = IF t \in Runs THEN [run EXCEPT ![t] = "crashed"] ELSE run

(* The event is set, or the wait is cancelled. *)
CloseEnds(t, ok) ==
    /\ \/ ok /\ awaits[t] \in isSet /\ UNCHANGED <<run, left>>
       \/ ~ok /\ Loses(t) /\ left' = left \cup {awaits[t]}
    /\ Base!CloseEnds(t, ok)
    /\ awaits' = [awaits EXCEPT ![t] = None]
    /\ UNCHANGED <<handles, isSet, opens>>

WaitReturns(t) ==
    /\ Base!WaitReturns(t)
    /\ UNCHANGED <<handles, isSet, run, opens, awaits, left>>

Cancelled(t) ==
    /\ Base!Cancelled(t)
    /\ Loses(t)
    /\ UNCHANGED <<handles, isSet, opens, awaits, left>>

RunStep(r) ==
    \/ Started(r)
    \/ RunFails(r)
    \/ RunRaises(r)
    \/ CloseIsNoOp(r)

CloseStep(t) ==
    \/ CloseWaits(t)
    \/ CloseStarts(t)
    \/ CloseAtOnce(t)
    \/ \E ok \in BOOLEAN : CloseEnds(t, ok)
    \/ WaitReturns(t)
    \/ Cancelled(t)

OpenStep(t) ==
    \/ OpenWaits(t)
    \/ OpenWithoutNursery(t)
    \/ OpenStarts(t)
    \/ OpenSucceeds(t)
    \/ OpenFails(t)

Next ==
    \/ AssignNursery
    \/ \E t \in Callers : OpenStep(t)
    \/ \E r \in Runs : RunStep(r)
    \/ \E t \in Tasks : CloseStep(t)

Spec == Init /\ [][Next]_vars

(* The scope of the run r was cancelled: nobody holds it any more.         *)
Doomed(r) ==
    /\ run[r] = "running"
    /\ scope # r
    /\ \A t \in Tasks : opens[t] # r

(* Trio runs what is runnable; _run() calls started(), and it ends when    *)
(* its scope is cancelled.                                                 *)
Fairness ==
    /\ \A r \in Runs :
        /\ WF_vars(Started(r))
        /\ WF_vars(Doomed(r) /\ (CloseIsNoOp(r) \/ CloseStep(r)))
    /\ \A t \in Tasks :
        /\ WF_vars(OpenSucceeds(t) \/ OpenFails(t))
        /\ WF_vars(CloseEnds(t, TRUE))
        /\ WF_vars(WaitReturns(t))
        /\ WF_vars(t \in woken /\ (OpenStarts(t) \/ CloseStarts(t) \/ CloseAtOnce(t)))

FairSpec == Spec /\ Fairness

-----------------------------------------------------------------------------
Active(r) == run[r] \in {"starting", "running"}

(* Disciplined callers never leave a run behind: it is over when the       *)
(* connection says that it is closed, and two runs never overlap.  Only a  *)
(* run that a cancelled close() did not wait for may be on its way out,    *)
(* and so may its successor, whose event it sets instead of its own.       *)
ClosedMeansStopped ==
    LET Serving(r) == Active(r) /\ r \notin left IN
    /\ state = DISCONNECTED => \A r \in Runs : ~Serving(r)
    /\ \A r, q \in Runs : Serving(r) /\ Serving(q) => r = q

(* The connection is considered open "when the task started" and closed    *)
(* "when the task stopped for any reason" (TaskConnectionBase): an open    *)
(* connection has a run, one that is over and is about to close it, or one *)
(* that raised or lost its nursery, which closes nothing; or it had one    *)
(* until a close() that was cancelled has stopped it.                      *)
OpenMeansRunning ==
    state = CONNECTED =>
        \E r \in Runs : \/ run[r] = "running"
                        \/ pc[r] = "closeQueued"
                        \/ event = r /\ run[r] = "crashed"
                        \/ event = r /\ r \in left

(* A run that is over gets its connection closed, unless it raised, and    *)
(* every close() finds the event it waits for set.                         *)
StoppedRunCloses ==
    /\ \A r \in Runs : scope = r /\ run[r] = "stopped" ~> scope # r
    /\ \A t \in Tasks : pc[t] = "closing" ~> pc[t] # "closing"
=============================================================================

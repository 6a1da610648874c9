---------------------------- MODULE TrioListener ----------------------------
(***************************************************************************)
(* classes ListenerBase and TrioListenerBase of listeners/base.py.         *)
(* ListenerBase repeats the state machine of ConnectionBase, line by line, *)
(* under other names.  A TrioListener is open while a background task      *)
(* ("run") of its own serves it.                                           *)
(*                                                                         *)
(* Other than in TaskConnection, the run itself stores its scope and its   *)
(* event in the listener, its exceptions are swallowed, and when it is     *)
(* over it leaves the call of close() to a task that it starts with        *)
(* start_soon().  The close task of the run r is called r, too.            *)
(***************************************************************************)
EXTENDS ConnectionStates

CONSTANTS
    Callers,      \* the tasks that call open() and close()
    Runs,         \* the background tasks (the bound of the model)
    Disciplined,
    Failures,     \* of ConnectionBase, and "nursery": the nursery is cancelled
    None

ASSUME RunAssumption == None \notin Runs /\ Callers \cap Runs = {}

Tasks == Callers \cup Runs

CLOSED    == DISCONNECTED
PREPARING == CONNECTING
OPEN      == CONNECTED
CLOSING   == DISCONNECTING

VARIABLES
    state, isConnected, isDisconnected, pc, woken,   \* of ListenerBase
    scope,        \* _cancel_scope: the run whose scope it is, or None
    event,        \* _task_exited: the run that created it, or None
    isSet,        \* the events that are set
    run,          \* where the background tasks are
    doomed,       \* the runs whose scope was cancelled
    leftover,     \* the close tasks that have not run yet
    opens,        \* the run that a task inside _open() has started
    awaits,       \* the event that a task inside _close() waits for
    nursery       \* whether the listener was given a nursery

baseVars == <<state, isConnected, isDisconnected, pc, woken>>
runVars == <<scope, event, isSet, run, doomed, leftover>>
vars == <<baseVars, runVars, opens, awaits, nursery>>

Base == INSTANCE ConnectionBase

Init ==
    /\ Base!Init
    /\ scope = None
    /\ event = None
    /\ isSet = {}
    /\ run = [r \in Runs |-> "none"]
    /\ doomed = {}
    /\ leftover = {}
    /\ opens = [t \in Tasks |-> None]
    /\ awaits = [t \in Tasks |-> None]
    /\ nursery \in BOOLEAN

(* A run that is over and that nothing refers to any more. *)
FreshRuns ==
    {r \in Runs : /\ run[r] \in {"none", "stopped", "abandoned"}
                  /\ pc[r] = "idle"
                  /\ r \notin leftover \cup {scope, event}
                  /\ \A t \in Tasks : opens[t] # r /\ awaits[t] # r}

(* Disciplined callers let the close task of an earlier run finish first. *)
NothingLeftOver ==
    Disciplined => leftover = {} /\ \A r \in Runs : pc[r] = "idle"

(***************************************************************************)
(* open()                                                                  *)
(***************************************************************************)

OpenWaits(t) ==
    /\ NothingLeftOver
    /\ Base!OpenJoins(t) \/ Base!OpenQueues(t)
    /\ UNCHANGED <<runVars, opens, awaits>>

(* A listener without a nursery: a RuntimeError, before anything happens. *)
OpenWithoutNursery(t) ==
    /\ ~nursery
    /\ Base!OpenAtOnce(t, FALSE)
    /\ UNCHANGED <<runVars, opens, awaits>>

(* nursery.start() of a new run. *)
OpenStarts(t) ==
    /\ NothingLeftOver
    /\ nursery
    /\ Base!OpenStarts(t)
    /\ \E r \in FreshRuns :
        /\ run' = [run EXCEPT ![r] = "spawned"]
        /\ opens' = [opens EXCEPT ![t] = r]
    /\ UNCHANGED <<scope, event, isSet, doomed, leftover, awaits>>

(* nursery.start() returns after started() was called, ...  It takes so    *)
(* long that Trio has started the close tasks of earlier runs by then.     *)
OpenSucceeds(t) ==
    /\ opens[t] # None
    /\ run[opens[t]] \in {"running", "stopped", "abandoned"}
    /\ leftover \subseteq {opens[t]}
    /\ Base!OpenEnds(t, TRUE)
    /\ opens' = [opens EXCEPT ![t] = None]
    /\ UNCHANGED <<runVars, awaits>>

(* ... or it raises because the run ended without that, ... *)
OpenFails(t) ==
    /\ opens[t] # None
    /\ run[opens[t]] = "failed"
    /\ Base!OpenEnds(t, FALSE)
    /\ run' = [run EXCEPT ![opens[t]] = "stopped"]
    /\ opens' = [opens EXCEPT ![t] = None]
    /\ UNCHANGED <<scope, event, isSet, doomed, leftover, awaits>>

(* ... or it is cancelled together with the run, whose Cancelled exception *)
(* skips everything that follows _run().                                   *)
OpenCancelled(t) ==
    /\ "cancel" \in Failures
    /\ opens[t] # None
    /\ run[opens[t]] \in {"spawned", "starting"}
    /\ Base!OpenEnds(t, FALSE)
    /\ run' = [run EXCEPT ![opens[t]] = "stopped"]
    /\ opens' = [opens EXCEPT ![t] = None]
    /\ UNCHANGED <<scope, event, isSet, doomed, leftover, awaits>>

(***************************************************************************)
(* The run: _run_internal_trio_task()                                      *)
(***************************************************************************)

RunBegins(r) ==
    /\ run[r] = "spawned"
    /\ run' = [run EXCEPT ![r] = "starting"]
    /\ scope' = r
    /\ event' = r
    /\ isSet' = isSet \ {r}
    /\ doomed' = doomed \ {r}
    /\ UNCHANGED <<baseVars, leftover, opens, awaits>>

Started(r) ==
    /\ run[r] = "starting"
    /\ run' = [run EXCEPT ![r] = "running"]
    /\ UNCHANGED <<baseVars, scope, event, isSet, doomed, leftover, opens, awaits>>

(* Mutant: no event is set. *)
RunExits_NoEvent(r) ==
    /\ run' = [run EXCEPT ![r] = IF @ = "starting" THEN "failed" ELSE "stopped"]
    /\ scope' = None
    /\ UNCHANGED <<baseVars, event, isSet, doomed, opens, awaits>>

(* The end of the function: it drops the scope and sets the event that the *)
(* listener has NOW.                                                       *)
RunExits(r) ==
    /\ run' = [run EXCEPT ![r] = IF @ = "starting" THEN "failed" ELSE "stopped"]
    /\ scope' = None
    /\ isSet' = isSet \cup ({event} \ {None})
    /\ UNCHANGED <<baseVars, event, doomed, opens, awaits>>

(* Mutant: no close task is started. *)
RunReturns_NoClose(r) ==
    /\ \/ run[r] = "running"
       \/ run[r] = "starting" /\ "open" \in Failures
    /\ RunExits(r)
    /\ UNCHANGED leftover

(* _run() returns or raises: a close task is started. *)
RunReturns(r) ==
    /\ \/ run[r] = "running"
       \/ run[r] = "starting" /\ "open" \in Failures
    /\ leftover' = leftover \cup {r}
    /\ RunExits(r)

(* The cancellation of the scope ends _run(): no close task. *)
RunCancelled(r) ==
    /\ run[r] \in {"starting", "running"}
    /\ r \in doomed
    /\ RunExits(r)
    /\ UNCHANGED leftover

(* The nursery is cancelled: nothing after _run() is executed. *)
RunAbandoned(r) ==
    /\ "nursery" \in Failures
    /\ run[r] = "running"
    /\ run' = [run EXCEPT ![r] = "abandoned"]
    /\ UNCHANGED <<baseVars, scope, event, isSet, doomed, leftover, opens, awaits>>

(***************************************************************************)
(* close(), by a caller or by the close task of a run                      *)
(***************************************************************************)

ComesToClose(t) ==
    IF t \in Runs /\ pc[t] = "idle"
    THEN t \in leftover /\ leftover' = leftover \ {t}
    ELSE UNCHANGED leftover

(* Disciplined callers leave the queue to the close task of the run. *)
CloseWaits(t) ==
    /\ Disciplined /\ t \in Callers => state # PREPARING
    /\ Base!CloseJoins(t) \/ Base!CloseQueues(t)
    /\ ComesToClose(t)
    /\ UNCHANGED <<scope, event, isSet, run, doomed, opens, awaits>>

CloseIsNoOp(r) ==
    /\ r \in leftover
    /\ state = CLOSED
    /\ leftover' = leftover \ {r}
    /\ UNCHANGED <<baseVars, scope, event, isSet, run, doomed, opens, awaits>>

(* _close(): cancel and forget the scope, if any, and wait for the event. *)
CloseStarts(t) ==
    /\ Base!CloseStarts(t)
    /\ ComesToClose(t)
    /\ doomed' = doomed \cup ({scope} \ {None})
    /\ scope' = None
    /\ awaits' = [awaits EXCEPT ![t] = event]
    /\ UNCHANGED <<event, isSet, run, opens>>

(* Mutant: close() does not wait for the run. *)
CloseEnds_NoWait(t, ok) ==
    /\ Base!CloseEnds(t, ok)
    /\ awaits' = [awaits EXCEPT ![t] = None]
    /\ UNCHANGED <<runVars, opens>>

CloseEnds(t, ok) ==
    /\ ok => awaits[t] \in isSet
    /\ Base!CloseEnds(t, ok)
    /\ awaits' = [awaits EXCEPT ![t] = None]
    /\ UNCHANGED <<runVars, opens>>

WaitReturns(t) ==
    /\ Base!WaitReturns(t)
    /\ UNCHANGED <<runVars, opens, awaits>>

Cancelled(t) ==
    /\ Base!Cancelled(t)
    /\ UNCHANGED <<runVars, opens, awaits>>

OpenStep(t) ==
    \/ OpenWaits(t)
    \/ OpenWithoutNursery(t)
    \/ OpenStarts(t)
    \/ OpenSucceeds(t)
    \/ OpenFails(t)
    \/ OpenCancelled(t)

RunStep(r) ==
    /\ UNCHANGED nursery
    /\ \/ RunBegins(r)
       \/ Started(r)
       \/ RunReturns(r)
       \/ RunCancelled(r)
       \/ RunAbandoned(r)

CloseStep(t) ==
    \/ CloseWaits(t)
    \/ CloseStarts(t)
    \/ \E ok \in BOOLEAN : CloseEnds(t, ok)
    \/ WaitReturns(t)

TaskStep(t) ==
    /\ UNCHANGED nursery
    /\ \/ t \in Callers /\ (OpenStep(t) \/ Cancelled(t))
       \/ t \in Runs /\ CloseIsNoOp(t)
       \/ CloseStep(t)

Next ==
    \/ \E r \in Runs : RunStep(r)
    \/ \E t \in Tasks : TaskStep(t)

Spec == Init /\ [][Next]_vars

(* What Trio sees to: _run() calls started() or ends, and it ends when its *)
(* scope is cancelled; the tasks that can go on do so.                     *)
RunMustStep(r) ==
    \/ run[r] \in {"spawned", "starting"}
    \/ run[r] = "running" /\ r \in doomed

TaskMustStep(t) ==
    \/ t \in leftover \cup woken
    \/ pc[t] = "opening" /\ run[opens[t]] \in {"running", "failed", "stopped", "abandoned"}
    \/ pc[t] = "closing" /\ awaits[t] \in isSet

-----------------------------------------------------------------------------
Active(r) == run[r] \in {"spawned", "starting", "running"}

(* Disciplined callers never leave a run behind: it is over when the       *)
(* listener says that it is closed, and two runs never overlap.            *)
ClosedMeansStopped ==
    /\ state = CLOSED => \A r \in Runs : ~Active(r)
    /\ \A r, q \in Runs : Active(r) /\ Active(q) => r = q

(* "When the task exits or is cancelled, the connection will be closed     *)
(* automatically" (TrioListenerBase._run): an OPEN listener has a run, or  *)
(* one that is over and whose close task is about to close it, or one that *)
(* lost its nursery, which closes nothing.  (A close() that is cancelled   *)
(* would leave an OPEN listener without a run.)                            *)
OpenMeansRunning ==
    state = OPEN =>
        \E r \in Runs : \/ run[r] = "running"
                        \/ r \in leftover
                        \/ pc[r] = "closeQueued"
                        \/ event = r /\ run[r] = "abandoned"

(* "The listener is considered to be open while this task is running"      *)
(* (TrioListenerBase._run): the close task of a run closes the listener    *)
(* only when no other run serves it.                                       *)
OpenWhileRunning ==
    [][\A r \in Runs : pc[r] # "closing" /\ pc'[r] = "closing"
         => \A q \in Runs : run[q] # "running"]_vars

(* A run that is over gets its listener closed, and every close() finds    *)
(* the event it waits for set, unless the run lost its nursery.            *)
StoppedRunCloses ==
    /\ \A r \in Runs : state = OPEN /\ event = r /\ run[r] = "stopped" ~> state # OPEN
    /\ \A t \in Tasks :
        pc[t] = "closing" ~> \/ pc[t] # "closing"
                             \/ awaits[t] # None /\ run[awaits[t]] = "abandoned"
=============================================================================

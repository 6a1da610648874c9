--------------------------- MODULE ConnectionBase ---------------------------
(***************************************************************************)
(* class ConnectionBase of connections/base.py: the state machine that     *)
(* every connection of the library inherits, used by several Trio tasks.   *)
(*                                                                         *)
(* Trio tasks are cooperative: the code between two checkpoints is one     *)
(* step.  open() and close() look at the state once, when they are called; *)
(*                                                                         *)
(*   - a call that finds an attempt of its own kind running JOINS it: it   *)
(*     waits for the flag the attempt will raise, then returns;            *)
(*   - a call that finds an attempt of the other kind running QUEUES       *)
(*     behind it: it waits for the flag, then goes on to its own attempt   *)
(*     WITHOUT looking at the state again.                                 *)
(*                                                                         *)
(* Raising a flag (an AsyncBool of trio_util) only makes its waiters       *)
(* runnable; each resumes later, in any order, whatever the state is then. *)
(* `woken' holds the tasks between these two moments.                      *)
(***************************************************************************)
EXTENDS ConnectionStates

CONSTANTS
    Tasks,        \* the tasks that call open(), close() and wait_until_...()
    Disciplined,  \* TRUE if no call of a kind is made past a queued one
    Failures      \* what may go wrong: a subset of {"open", "close", "cancel"}

ASSUME DisciplinedAssumption == Disciplined \in BOOLEAN

VARIABLES
    state,           \* _state
    isConnected,     \* _is_connected.value
    isDisconnected,  \* _is_disconnected.value
    pc,              \* where each task is
    woken            \* blocked tasks that were released but have not resumed yet

vars == <<state, isConnected, isDisconnected, pc, woken>>

(* The tasks blocked on each of the two flags. *)
OnConnected    == {"openJoins", "closeQueued", "watchesConnected"}
OnDisconnected == {"closeJoins", "openQueued", "watchesDisconnected"}
Blocked        == OnConnected \cup OnDisconnected

Init ==
    /\ state = DISCONNECTED
    /\ isConnected = FALSE
    /\ isDisconnected = TRUE
    /\ pc = [t \in Tasks |-> "idle"]
    /\ woken = {}

(***************************************************************************)
(* _set_state()                                                            *)
(***************************************************************************)

(* Mutant: raising a flag forgets the calls that joined an attempt. *)
Released_NoJoiners(c, d) ==
    {t \in Tasks : \/ c /\ pc[t] \in OnConnected \ {"openJoins"}
                   \/ d /\ pc[t] \in OnDisconnected \ {"closeJoins"}}

(* The tasks that raising _is_connected (c) or _is_disconnected (d) makes  *)
(* runnable.                                                               *)
Released(c, d) ==
    {t \in Tasks : \/ c /\ pc[t] \in OnConnected
                   \/ d /\ pc[t] \in OnDisconnected}

(* Mutant: only the flag of CONNECTED wakes up its waiters. *)
SetState_SilentDisconnect(t, new) ==
    /\ state' = new
    /\ isConnected' = (new = CONNECTED)
    /\ isDisconnected' = (new = DISCONNECTED)
    /\ woken' = (woken \cup Released(~isConnected /\ new = CONNECTED, FALSE)) \ {t}

(* _set_state(new), called by the running task t. *)
SetState(t, new) ==
    /\ state' = new
    /\ IF new = state
       THEN /\ woken' = woken \ {t}
            /\ UNCHANGED <<isConnected, isDisconnected>>
       ELSE /\ isConnected' = (new = CONNECTED)
            /\ isDisconnected' = (new = DISCONNECTED)
            /\ woken' = (woken \cup Released(~isConnected /\ new = CONNECTED,
                                             ~isDisconnected /\ new = DISCONNECTED))
                        \ {t}

(* _set_state() to a transitional state and on to the state `new' in one   *)
(* step: what an attempt does whose _open() or _close() has no checkpoint. *)
(* Both flags are down in between, so that the one of `new' is raised.     *)
PassThroughTo(t, new) ==
    /\ state' = new
    /\ isConnected' = (new = CONNECTED)
    /\ isDisconnected' = (new = DISCONNECTED)
    /\ woken' = (woken \cup Released(new = CONNECTED, new = DISCONNECTED)) \ {t}

Goto(t, label) == pc' = [pc EXCEPT ![t] = label]

(* The task does not touch the connection in this step. *)
StateUnchanged == UNCHANGED <<state, isConnected, isDisconnected>>

(* The task t, idle until now, starts to wait for a flag that is down. *)
Block(t, label) ==
    /\ pc[t] = "idle"
    /\ Goto(t, label)
    /\ StateUnchanged
    /\ UNCHANGED woken

(* The released task t resumes and its call returns. *)
Resume(t, label) ==
    /\ t \in woken
    /\ pc[t] = label
    /\ Goto(t, "idle")
    /\ woken' = woken \ {t}
    /\ StateUnchanged

(* The discipline: while a call waits in the queue, no other call of the   *)
(* same kind is made that would start or await an attempt of its own.      *)
NoneQueued(label) == Disciplined => \A u \in Tasks : pc[u] # label

(***************************************************************************)
(* open().  A call that finds the connection CONNECTED returns at once,    *)
(* and so does close() on a DISCONNECTED one: these are stuttering steps.  *)
(***************************************************************************)

OpenJoins(t) ==
    /\ state = CONNECTING
    /\ Block(t, "openJoins")

OpenQueues(t) ==
    /\ state = DISCONNECTING
    /\ NoneQueued("openQueued")
    /\ Block(t, "openQueued")

(* Mutant: a call that finds the connection CONNECTING does not wait. *)
EntersOpen_Joins(t) ==
    \/ /\ pc[t] = "idle"
       /\ state \in {DISCONNECTED, CONNECTING}
       /\ NoneQueued("openQueued")
    \/ /\ pc[t] = "openQueued"
       /\ t \in woken

(* The task t reaches the line after the dispatch on the state: by a call  *)
(* on a closed connection, or when it resumes from the queue.              *)
EntersOpen(t) ==
    \/ /\ pc[t] = "idle"
       /\ state = DISCONNECTED
       /\ NoneQueued("openQueued")
    \/ /\ pc[t] = "openQueued"
       /\ t \in woken

OpenStarts(t) ==
    /\ EntersOpen(t)
    /\ SetState(t, CONNECTING)
    /\ Goto(t, "opening")

(* Mutant: no finally block, the state is set only after success. *)
OpenEnds_NoFinally(t, ok) ==
    /\ pc[t] = "opening"
    /\ ok \/ "open" \in Failures
    /\ SetState(t, IF ok THEN CONNECTED ELSE state)
    /\ Goto(t, "idle")

(* _open() returns (ok), raises or is cancelled; the finally block runs. *)
OpenEnds(t, ok) ==
    /\ pc[t] = "opening"
    /\ ok \/ "open" \in Failures
    /\ SetState(t, IF ok THEN CONNECTED ELSE DISCONNECTED)
    /\ Goto(t, "idle")

OpenAtOnce(t, ok) ==
    /\ EntersOpen(t)
    /\ ok \/ "open" \in Failures
    /\ PassThroughTo(t, IF ok THEN CONNECTED ELSE DISCONNECTED)
    /\ Goto(t, "idle")

(***************************************************************************)
(* close()                                                                 *)
(***************************************************************************)

CloseJoins(t) ==
    /\ state = DISCONNECTING
    /\ Block(t, "closeJoins")

CloseQueues(t) ==
    /\ state = CONNECTING
    /\ NoneQueued("closeQueued")
    /\ Block(t, "closeQueued")

EntersClose(t) ==
    \/ /\ pc[t] = "idle"
       /\ state = CONNECTED
       /\ NoneQueued("closeQueued")
    \/ /\ pc[t] = "closeQueued"
       /\ t \in woken

CloseStarts(t) ==
    /\ EntersClose(t)
    /\ SetState(t, DISCONNECTING)
    /\ Goto(t, "closing")

CloseEnds(t, ok) ==
    /\ pc[t] = "closing"
    /\ ok \/ "close" \in Failures
    /\ SetState(t, IF ok THEN DISCONNECTED ELSE CONNECTED)
    /\ Goto(t, "idle")

CloseAtOnce(t, ok) ==
    /\ EntersClose(t)
    /\ ok \/ "close" \in Failures
    /\ PassThroughTo(t, IF ok THEN DISCONNECTED ELSE CONNECTED)
    /\ Goto(t, "idle")

(***************************************************************************)
(* wait_until_connected() and wait_until_disconnected(), called directly   *)
(* (a call that finds its flag raised returns: a stuttering step), and the *)
(* return of every call that only waits.                                   *)
(***************************************************************************)

WaitUntilConnected(t) ==
    /\ ~isConnected
    /\ Block(t, "watchesConnected")

WaitUntilDisconnected(t) ==
    /\ ~isDisconnected
    /\ Block(t, "watchesDisconnected")

WaitReturns(t) ==
    \E label \in Blocked \ {"openQueued", "closeQueued"} : Resume(t, label)

(* Trio cancels a blocked task.  One that was released already is runnable *)
(* and is not interrupted any more.                                        *)
Cancelled(t) ==
    /\ "cancel" \in Failures
    /\ pc[t] \in Blocked
    /\ t \notin woken
    /\ Goto(t, "idle")
    /\ StateUnchanged
    /\ UNCHANGED woken

Next ==
    \E t \in Tasks :
        \/ OpenJoins(t)
        \/ OpenQueues(t)
        \/ OpenStarts(t)
        \/ \E ok \in BOOLEAN : OpenEnds(t, ok)
        \/ \E ok \in BOOLEAN : OpenAtOnce(t, ok)
        \/ CloseJoins(t)
        \/ CloseQueues(t)
        \/ CloseStarts(t)
        \/ \E ok \in BOOLEAN : CloseEnds(t, ok)
        \/ \E ok \in BOOLEAN : CloseAtOnce(t, ok)
        \/ WaitUntilConnected(t)
        \/ WaitUntilDisconnected(t)
        \/ WaitReturns(t)
        \/ Cancelled(t)

Spec == Init /\ [][Next]_vars

(* A released task goes on from the queue to its own attempt. *)
Proceeds(t) ==
    /\ t \in woken
    /\ \/ OpenStarts(t)
       \/ CloseStarts(t)

-----------------------------------------------------------------------------
(***************************************************************************)
(* Properties                                                              *)
(***************************************************************************)

(* The values the variables range over: the attributes of ConnectionBase   *)
(* and the places where a task can be inside its methods.                  *)
TypeOK ==
    /\ state \in ConnectionState
    /\ isConnected \in BOOLEAN
    /\ isDisconnected \in BOOLEAN
    /\ pc \in [Tasks -> Blocked \cup {"idle", "opening", "closing"}]
    /\ woken \subseteq Tasks

(* The transitional states are never left behind: whatever calls race,     *)
(* fail or are cancelled, a connection that is CONNECTING or DISCONNECTING *)
(* has a task inside _open() or _close() whose finally block will move it  *)
(* on (close() and open(), the try ... finally blocks).                    *)
NoOrphanTransition ==
    /\ state = CONNECTING => \E t \in Tasks : pc[t] = "opening"
    /\ state = DISCONNECTING => \E t \in Tasks : pc[t] = "closing"

(* _set_state() releases every waiter: no task stays blocked on a flag     *)
(* that is raised, even if the flag is raised, lowered and raised again    *)
(* before the tasks it released run.                                       *)
NoLostWakeup ==
    \A t \in Tasks \ woken :
        /\ pc[t] \in OnConnected => state # CONNECTED
        /\ pc[t] \in OnDisconnected => state # DISCONNECTED

(* With failures and cancellations, a waiter of any kind still gets going  *)
(* whenever its flag is raised, however soon the flag is lowered again.    *)
RaisedFlagReleases ==
    \A t \in Tasks :
        /\ pc[t] \in OnConnected /\ isConnected ~> pc[t] \notin OnConnected
        /\ pc[t] \in OnDisconnected /\ isDisconnected ~> pc[t] \notin OnDisconnected

(* Under the discipline at most one task is inside _open() or _close(), so *)
(* that a connection never has two resources or half a resource.           *)
OneAttemptAtATime ==
    \A t, u \in Tasks :
        pc[t] \in {"opening", "closing"} /\ pc[u] \in {"opening", "closing"} => t = u

(* Under the discipline the class implements its contract: an attempt      *)
(* starts only on a closed (open) connection with no other attempt in      *)
(* flight, and ends in one of the two stable states.                       *)
Lifecycle == INSTANCE ConnectionLifecycle
    WITH attempts <- {t \in Tasks : pc[t] \in {"opening", "closing"}}

ImplementsLifecycle == Lifecycle!Spec
=============================================================================

---------------------------- MODULE Supervision ----------------------------
(***************************************************************************)
(* connections/supervision.py: the supervise() loop that keeps one         *)
(* connection open, and the ConnectionSupervisor that runs one such loop   *)
(* per connection, driven by a queue of "add" and "remove" commands.       *)
(*                                                                         *)
(* Others act on the connections too: the owner may open one before it is  *)
(* supervised, and readers close one whose peer is gone at any time.  Both *)
(* are attempts of ConnectionBase that pass through a transitional state,  *)
(* in which the supervisor may find the connection at every step.          *)
(***************************************************************************)
EXTENDS ConnectionStates, Naturals, Sequences, SequencesExt

CONSTANTS
    Conns,               \* the connections
    Checkpointing,       \* the connections whose _close() awaits something
    Owned,               \* the connections whose owners open and supervise() them, too
    Policy,              \* the answers the supervision policy may give
    Listeners,           \* the connections that accept clients
    MaxInFlight,         \* bound: commands in the queue and tasks not yet started
    MaxClients           \* bound: tasks that serve a client

ASSUME SupervisionAssumption ==
    /\ Checkpointing \subseteq Conns
    /\ Owned \subseteq Conns
    /\ Listeners \subseteq Conns \ Checkpointing
    /\ Policy \subseteq {"delay", "stop", "raise"}

VARIABLES
    conn,         \* the state of each connection
    phase,        \* where the loop of each connection is, or "out" if there is none
    cancelled,    \* the connections whose cancel scope is cancelled
    shouldClose,  \* the connections that were not open when supervision began
    closing,      \* the close() after the loop: what leaves the task after it, or "no"
    direct,       \* the connections under supervise() itself, called by their owner
    others,       \* the attempt of somebody else that is under way on each connection
    joined,       \* the tasks that are to raise once a close() of somebody else is over
    queue,        \* the commands in the memory channel
    spawned,      \* tasks started with start_soon() that have not run yet
    running,      \* whether run() is in its main loop
    clients       \* the number of tasks that serve a client of a listener

loopVars == <<conn, phase>>
scopeVars == <<cancelled, shouldClose, closing, direct>>
supervisorVars == <<queue, spawned, running, clients, joined>>
allVars == <<loopVars, scopeVars, others, supervisorVars>>

(* The connections with an entry in _entries: registered before the loop   *)
(* and deleted after it, before the connection is closed.                  *)
Looping == {"queued", "joining", "opening", "up", "sleeping"}
Loops == {c \in Conns : phase[c] \in Looping}
Entries == Loops \ direct

SupervisorInit ==
    /\ conn = [c \in Conns |-> DISCONNECTED]
    /\ phase = [c \in Conns |-> "out"]
    /\ cancelled = {}
    /\ shouldClose = {}
    /\ closing = [c \in Conns |-> "no"]
    /\ direct = {}
    /\ others = [c \in Conns |-> "no"]
    /\ joined = [c \in Conns |-> {}]
    /\ queue = <<>>
    /\ spawned = <<>>
    /\ running = TRUE
    /\ clients = 0

(***************************************************************************)
(* supervise(): the loop                                                   *)
(***************************************************************************)

(* Mutant: open() does not wait for the end of a close() under way. *)
EntersOpen_NoWait(c) ==
    /\ phase' = [phase EXCEPT ![c] = IF conn[c] = CONNECTED THEN "up" ELSE "opening"]
    /\ conn' = [conn EXCEPT ![c] = IF @ = CONNECTED THEN @ ELSE CONNECTING]

(* open() at the head of the loop: a no-op on an open connection; it waits *)
(* for the end of a close() that is still under way, and joins an open()   *)
(* of the owner.                                                           *)
EntersOpen(c) ==
    /\ phase' = [phase EXCEPT ![c] = CASE conn[c] = CONNECTED -> "up"
                                       [] conn[c] = DISCONNECTING -> "queued"
                                       [] conn[c] = CONNECTING -> "joining"
                                       [] OTHER -> "opening"]
    /\ conn' = [conn EXCEPT ![c] = IF @ = DISCONNECTED THEN CONNECTING ELSE @]

LeavesQueue(c) ==
    /\ phase[c] = "queued"
    /\ conn[c] = DISCONNECTED
    /\ EntersOpen(c)
    /\ UNCHANGED <<scopeVars, others, supervisorVars>>

(* open() succeeds and the policy takes note. *)
Opened(c) ==
    /\ phase[c] = "opening"
    /\ conn' = [conn EXCEPT ![c] = CONNECTED]
    /\ phase' = [phase EXCEPT ![c] = "up"]
    /\ UNCHANGED <<scopeVars, others, supervisorVars>>

(* What the connection can be when the body of the loop ends: open()       *)
(* failed, or it succeeded and the policy raised when it was told so; or   *)
(* the task ended, raised or saw the connection closed, which changes      *)
(* nothing by itself.                                                      *)
AfterBody(c) ==
    IF phase[c] = "opening"
    THEN {DISCONNECTED} \cup (IF "raise" \in Policy THEN {CONNECTED} ELSE {})
    ELSE {conn[c]}

(* The policy says how long to wait before the next attempt. *)
Delays(c, s) ==
    /\ phase[c] \in {"opening", "up"}
    /\ "delay" \in Policy
    /\ s \in AfterBody(c)
    /\ conn' = [conn EXCEPT ![c] = s]
    /\ phase' = [phase EXCEPT ![c] = "sleeping"]
    /\ UNCHANGED <<scopeVars, others, supervisorVars>>

(* Mutant: the loop does not open the connection again. *)
WakesUp_NoOpen(c) ==
    /\ phase[c] = "sleeping"
    /\ phase' = [phase EXCEPT ![c] = "up"]
    /\ UNCHANGED <<conn, scopeVars, others, supervisorVars>>

WakesUp(c) ==
    /\ phase[c] = "sleeping"
    /\ EntersOpen(c)
    /\ UNCHANGED <<scopeVars, others, supervisorVars>>

(***************************************************************************)
(* The ways out.  ConnectionSupervisor.supervise() deletes the entry and   *)
(* closes the connection if it was not open at the beginning, inside the   *)
(* same cancel scope; supervise() itself closes nothing.                   *)
(***************************************************************************)

(* Mutant: only the tasks that did not start yet are cancelled. *)
StopsRunning_KeepsLoops(loops, closings) ==
    /\ running' = FALSE
    /\ spawned' = <<>>
    /\ cancelled' = loops \cap cancelled
    /\ closing' = closings
    /\ joined' = [c \in Conns |-> {}]

(* run() is cancelled, or a task of its nursery raised, while the loops    *)
(* and closings given are under way: all of them in the nursery are        *)
(* cancelled, the tasks that wait for somebody's close() end, and tasks    *)
(* that did not start yet get no further than their first checkpoint,      *)
(* which leaves their connections as they were.                            *)
StopsRunning(loops, closings) ==
    /\ running' = FALSE
    /\ spawned' = <<>>
    /\ cancelled' = loops \ (direct \ cancelled)
    /\ closing' = [c \in Conns |-> IF closings[c] = "no" THEN "no" ELSE "cancelled"]
    /\ joined' = [c \in Conns |-> {}]

(* A task that supervised a connection ends; an exception crashes the      *)
(* nursery, if it is a task of the supervisor (`own'), and otherwise the   *)
(* tasks that wait for a close() are those given.                          *)
TaskEnds(own, why, loops, closings, waits) ==
    IF own /\ why = "raise"
    THEN StopsRunning(loops, closings)
    ELSE /\ cancelled' = loops \cap cancelled
         /\ closing' = closings
         /\ joined' = waits
         /\ UNCHANGED <<running, spawned>>

(* Mutant: the task ends without closing the connection. *)
Exits_NoClose(c, s, why) ==
    /\ phase' = [phase EXCEPT ![c] = "out"]
    /\ shouldClose' = shouldClose \ {c}
    /\ direct' = direct \ {c}
    /\ UNCHANGED <<others, queue, clients>>
    /\ conn' = [conn EXCEPT ![c] = s]
    /\ TaskEnds(c \notin direct, why, Loops \ {c}, closing, joined)

(* The loop of c is left for the reason `why', with c in the state s.  The *)
(* close() after it is a no-op on a closed connection.  While somebody     *)
(* else closes or opens c it waits, which matters only for an exception:   *)
(* it is raised when the wait is over; a task that stops has nothing left  *)
(* to do, and one that was cancelled does not wait.                        *)
Exits(c, s, why) ==
    LET closes == c \in shouldClose /\ s = CONNECTED
        joins  == c \in shouldClose /\ s = DISCONNECTING /\ why = "raise"
    IN
    /\ phase' = [phase EXCEPT ![c] = "out"]
    /\ shouldClose' = shouldClose \ {c}
    /\ direct' = direct \ {c}
    /\ UNCHANGED <<others, queue, clients>>
    /\ \/ /\ closes /\ c \in Checkpointing
          /\ conn' = [conn EXCEPT ![c] = DISCONNECTING]
          /\ closing' = [closing EXCEPT ![c] = why]
          /\ cancelled' = cancelled \ {c}
          /\ UNCHANGED <<running, spawned, joined>>
       \/ /\ joins
          /\ conn' = [conn EXCEPT ![c] = s]
          /\ joined' = [joined EXCEPT ![c] = @ \cup {"waits"}]
          /\ cancelled' = cancelled \ {c}
          /\ UNCHANGED <<closing, running, spawned>>
       \/ /\ ~(closes /\ c \in Checkpointing) /\ ~joins
          /\ conn' = [conn EXCEPT ![c] = IF closes THEN DISCONNECTED ELSE s]
          /\ TaskEnds(c \notin direct, why, Loops \ {c}, closing, joined)

(* The policy says to stop, or it raises. *)
Stops(c, s, why) ==
    /\ phase[c] \in {"opening", "up"}
    /\ why \in Policy \cap {"stop", "raise"}
    /\ s \in AfterBody(c)
    /\ Exits(c, s, why)

(* Trio delivers the cancellation at the checkpoint where the task is. *)
Unwinds(c) ==
    /\ c \in cancelled
    /\ phase[c] \in Looping
    /\ Exits(c, IF phase[c] = "opening" THEN DISCONNECTED ELSE conn[c], "cancelled")

(* The tasks that wait for c are released when it is DISCONNECTED. *)
Released(c) == [joined EXCEPT ![c] = IF @ = {} THEN {} ELSE {"free"}]

(* The close() after the loop ends; it does not survive the cancellation   *)
(* of the scope around it.                                                 *)
ClosingEnds(c) ==
    LET fails == closing[c] = "cancelled" IN
    /\ closing[c] # "no"
    /\ conn' = [conn EXCEPT ![c] = IF fails THEN CONNECTED ELSE DISCONNECTED]
    /\ TaskEnds(TRUE, closing[c], Loops, [closing EXCEPT ![c] = "no"],
                IF fails THEN joined ELSE Released(c))
    /\ UNCHANGED <<phase, shouldClose, direct, others, queue, clients>>

(* A task that was to raise, and had to wait for a close(), does so. *)
JoinEnds(c) ==
    /\ "free" \in joined[c]
    /\ StopsRunning(Loops, closing)
    /\ UNCHANGED <<loopVars, shouldClose, direct, others, queue, clients>>

(***************************************************************************)
(* The others: readers that close a connection whose peer is gone, and the *)
(* owner, who opens a connection that nobody supervises or only waits for. *)
(***************************************************************************)

(* A _close() without a checkpoint is over at once, ... *)
Lost(c) ==
    /\ conn[c] = CONNECTED
    /\ c \notin Checkpointing
    /\ conn' = [conn EXCEPT ![c] = DISCONNECTED]
    /\ UNCHANGED <<phase, scopeVars, others, supervisorVars>>

(* ... another one is an attempt, which may also fail or be cancelled. *)
LostBegins(c) ==
    /\ conn[c] = CONNECTED
    /\ c \in Checkpointing
    /\ conn' = [conn EXCEPT ![c] = DISCONNECTING]
    /\ others' = [others EXCEPT ![c] = "closing"]
    /\ UNCHANGED <<phase, scopeVars, supervisorVars>>

LostEnds(c, s) ==
    /\ others[c] = "closing"
    /\ s \in {DISCONNECTED, CONNECTED}
    /\ conn' = [conn EXCEPT ![c] = s]
    /\ others' = [others EXCEPT ![c] = "no"]
    /\ joined' = IF s = DISCONNECTED THEN Released(c) ELSE joined
    /\ UNCHANGED <<phase, scopeVars, queue, spawned, running, clients>>

OpensItself(c) ==
    /\ c \in Owned
    /\ phase[c] \in {"out", "joining"}
    /\ conn[c] = DISCONNECTED
    /\ conn' = [conn EXCEPT ![c] = CONNECTING]
    /\ others' = [others EXCEPT ![c] = "opening"]
    /\ UNCHANGED <<phase, scopeVars, supervisorVars>>

(* A loop that has joined the attempt goes on if it succeeds. *)
OpeningEnds(c, s) ==
    /\ others[c] = "opening"
    /\ s \in {DISCONNECTED, CONNECTED}
    /\ conn' = [conn EXCEPT ![c] = s]
    /\ others' = [others EXCEPT ![c] = "no"]
    /\ phase' = [phase EXCEPT ![c] = IF @ = "joining" /\ s = CONNECTED THEN "up" ELSE @]
    /\ UNCHANGED <<scopeVars, supervisorVars>>

OthersStep(c) ==
    \/ Lost(c)
    \/ LostBegins(c)
    \/ OpensItself(c)
    \/ \E s \in ConnectionState : LostEnds(c, s) \/ OpeningEnds(c, s)

(***************************************************************************)
(* ConnectionSupervisor: add(), remove() and the main loop                 *)
(***************************************************************************)

Command(op, c) == [op |-> op, conn |-> c]

(* Commands and tasks in flight that concern the connection c. *)
InFlight(c) ==
    \/ \E i \in DOMAIN queue : queue[i].conn = c
    \/ \E i \in DOMAIN spawned : spawned[i].conn = c

(* The channel is bounded; a sender waits while it is full. *)
Send(command) ==
    /\ Len(queue) < MaxInFlight
    /\ queue' = Append(queue, command)
    /\ UNCHANGED <<loopVars, scopeVars, others, spawned, running, clients, joined>>

SendsAdd(c) ==
    /\ c \notin direct
    /\ Send(Command("add", c))

SendsRemove(c) == Send(Command("remove", c))

(* "add" starts a task; "remove" cancels the entry if there is one. *)
HandleAdd ==
    /\ running
    /\ queue # <<>>
    /\ Head(queue).op = "add"
    /\ Len(spawned) < MaxInFlight
    /\ queue' = Tail(queue)
    /\ spawned' = Append(spawned, Head(queue))
    /\ UNCHANGED <<loopVars, scopeVars, others, running, clients, joined>>

(* Mutant: a connection that is not open at the moment is not removed. *)
HandleRemove_OnlyOpen ==
    /\ running
    /\ queue # <<>>
    /\ Head(queue).op = "remove"
    /\ queue' = Tail(queue)
    /\ cancelled' = cancelled \cup
           {c \in Entries : c = Head(queue).conn /\ conn[c] = CONNECTED}
    /\ UNCHANGED <<loopVars, shouldClose, closing, direct, others, spawned, running, clients,
                   joined>>

HandleRemove ==
    /\ running
    /\ queue # <<>>
    /\ Head(queue).op = "remove"
    /\ queue' = Tail(queue)
    /\ cancelled' = cancelled \cup (Entries \cap {Head(queue).conn})
    /\ UNCHANGED <<loopVars, shouldClose, closing, direct, others, spawned, running, clients,
                   joined>>

(* A spawned task runs: it registers its entry and enters the loop, ... *)
StartsSupervising(i) ==
    LET c == spawned[i].conn IN
    /\ c \notin Entries
    /\ EntersOpen(c)
    /\ shouldClose' = IF conn[c] = CONNECTED THEN shouldClose ELSE shouldClose \cup {c}
    /\ spawned' = RemoveAt(spawned, i)
    /\ UNCHANGED <<cancelled, closing, direct, others, queue, running, clients, joined>>

(* ... or it finds the connection in _entries and its assertion fails. *)
AssertionFails(i) ==
    /\ spawned[i].conn \in Entries
    /\ StopsRunning(Loops, closing)
    /\ UNCHANGED <<loopVars, shouldClose, direct, others, queue, clients>>

(* A listener needs a task for its clients: add() takes one without it,    *)
(* but supervise() raises.                                                 *)
TaskIsMissing(i) ==
    /\ spawned[i].conn \in Listeners \ Entries
    /\ StopsRunning(Loops, closing)
    /\ UNCHANGED <<loopVars, shouldClose, direct, others, queue, clients>>

(* run() itself is cancelled. *)
Shutdown ==
    /\ running
    /\ StopsRunning(Loops, closing)
    /\ UNCHANGED <<loopVars, shouldClose, direct, others, queue, clients>>

(***************************************************************************)
(* The task of a supervised listener accepts clients and starts a task for *)
(* each of them in the nursery of the supervisor, not in that of the loop: *)
(* a client outlives the listener, and one that raises stops everything.   *)
(* Errors of accept() are swallowed and end the task of the listener as in *)
(* Delays and Stops.                                                       *)
(***************************************************************************)

Accepts(c) ==
    /\ c \in Listeners \cap Entries
    /\ phase[c] = "up" /\ conn[c] = CONNECTED
    /\ running
    /\ clients < MaxClients
    /\ clients' = clients + 1
    /\ UNCHANGED <<loopVars, scopeVars, others, queue, spawned, running, joined>>

ClientEnds ==
    /\ clients > 0
    /\ clients' = clients - 1
    /\ UNCHANGED <<loopVars, scopeVars, others, queue, spawned, running, joined>>

ClientRaises ==
    /\ clients > 0
    /\ clients' = clients - 1
    /\ StopsRunning(Loops, closing)
    /\ UNCHANGED <<loopVars, shouldClose, direct, others, queue>>

(***************************************************************************)
(* The callers                                                             *)
(***************************************************************************)

(* supervise() is called directly, for a connection that the supervisor    *)
(* does not know, or the scope around the call is cancelled.               *)
CallsSupervise(c) ==
    /\ c \in Owned
    /\ phase[c] = "out"
    /\ ~InFlight(c)
    /\ EntersOpen(c)
    /\ direct' = direct \cup {c}
    /\ UNCHANGED <<cancelled, shouldClose, closing, others, supervisorVars>>

CancelsSupervise(c) ==
    /\ c \in direct
    /\ cancelled' = cancelled \cup {c}
    /\ UNCHANGED <<loopVars, shouldClose, closing, direct, others, supervisorVars>>

LoopStep(c) ==
    \/ LeavesQueue(c)
    \/ Opened(c)
    \/ \E s \in ConnectionState : Delays(c, s)
    \/ \E s \in ConnectionState, why \in {"stop", "raise"} : Stops(c, s, why)
    \/ WakesUp(c)
    \/ Unwinds(c)
    \/ ClosingEnds(c)
    \/ JoinEnds(c)

TaskStep(i) ==
    \/ StartsSupervising(i)
    \/ AssertionFails(i)
    \/ TaskIsMissing(i)

SupervisorStep ==
    \/ HandleAdd
    \/ HandleRemove
    \/ \E i \in DOMAIN spawned : TaskStep(i)

CallerStep(c) ==
    \/ SendsAdd(c)
    \/ SendsRemove(c)
    \/ CallsSupervise(c)
    \/ CancelsSupervise(c)

SupervisorNext ==
    \/ \E c \in Conns : LoopStep(c) \/ OthersStep(c) \/ Accepts(c) \/ CallerStep(c)
    \/ SupervisorStep
    \/ ClientEnds
    \/ ClientRaises
    \/ Shutdown

SupervisorSpec == SupervisorInit /\ [][SupervisorNext]_allVars

(* Trio runs what is runnable; a sleep() ends; open() and close() end; an  *)
(* open() that is tried again and again succeeds in the end; and the tasks *)
(* of clients end when the nursery cancels them.                           *)
SupervisorFairness ==
    /\ WF_allVars(HandleAdd \/ HandleRemove)
    /\ WF_allVars(~running /\ ClientEnds)
    /\ \A c \in Conns :
        /\ WF_allVars(\E i \in DOMAIN spawned : spawned[i].conn = c /\ TaskStep(i))
        /\ WF_allVars(LeavesQueue(c))
        /\ WF_allVars(WakesUp(c))
        /\ WF_allVars(phase[c] = "up" /\ conn[c] = DISCONNECTED /\ LoopStep(c))
        /\ WF_allVars(Unwinds(c))
        /\ WF_allVars(ClosingEnds(c))
        /\ WF_allVars(JoinEnds(c))
        /\ WF_allVars(\E s \in ConnectionState : LostEnds(c, s) \/ OpeningEnds(c, s))
        /\ SF_allVars(Opened(c))

FairSupervisorSpec == SupervisorSpec /\ SupervisorFairness

-----------------------------------------------------------------------------
(* One attempt at a time: whoever opens or closes a connection - its loop, *)
(* the close() after the loop, a reader or the owner - is the only one who *)
(* does, the connection is in the transitional state of that attempt for   *)
(* as long as it lasts, and in none when there is no attempt.              *)
OneAttemptAtATime ==
    \A c \in Conns :
        /\ conn[c] = CONNECTING <=> phase[c] = "opening" \/ others[c] = "opening"
        /\ conn[c] = DISCONNECTING <=> closing[c] # "no" \/ others[c] = "closing"
        /\ phase[c] = "opening" => others[c] = "no"
        /\ closing[c] # "no" => others[c] = "no"

(* A step in which a running supervisor is done with the connection c,     *)
(* which it had opened, because it was removed: c is closed then, unless   *)
(* somebody else is just opening or closing it.                            *)
ClosesIfRemoved(c) ==
    running /\ others[c] = "no" =>
        /\ c \in cancelled /\ c \in shouldClose /\ phase'[c] = "out" /\ closing'[c] = "no"
             => conn'[c] = DISCONNECTED
        /\ closing[c] = "cancelled" /\ closing'[c] = "no" => conn'[c] = DISCONNECTED

(* "This function will also close the connection immediately" (remove()).  *)
RemovedIsClosed == [][\A c \in Conns : ClosesIfRemoved(c)]_allVars

(* The same for the connections whose _close() has no checkpoint: remove() *)
(* closes them in whatever phase their loop is.                            *)
SocketRemovedIsClosed == [][\A c \in Conns \ Checkpointing : ClosesIfRemoved(c)]_allVars

(* As long as it is supervised, a lost connection is opened again, unless  *)
(* the loop has joined an open() of the owner, which may fail.             *)
LostIsReopened ==
    \A c \in Conns :
        phase[c] \in Looping \ {"joining"}
            ~> conn[c] = CONNECTED \/ phase[c] = "out" \/ c \in cancelled

(* A remove() that is in the queue while the connection has an entry ends  *)
(* its supervision as long as run() is running, whatever phase the loop is *)
(* in when the command is handled and whatever others send or do.          *)
RemovalEnds ==
    \A c \in Conns :
        running /\ c \in Entries /\ Command("remove", c) \in ToSet(queue)
            ~> ~running \/ c \notin Entries

(* run() returns once it was cancelled or a task of its nursery has raised *)
(* (an assertion, a policy, a client), whatever phase the loops are in:    *)
(* all the tasks that it has started end.                                  *)
RunEnds ==
    ~running ~> Entries = {} /\ clients = 0 /\ \A c \in Conns : closing[c] = "no"
=============================================================================

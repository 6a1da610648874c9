-------------------------- MODULE SocketConnection --------------------------
(***************************************************************************)
(* class SocketConnectionBase of connections/socket.py and what its        *)
(* subclasses (UDP sockets and listeners, TCP listeners) do with the       *)
(* socket: a ConnectionBase that owns one socket.                          *)
(*                                                                         *)
(* _open() awaits the creation of the socket.  _close() has no checkpoint, *)
(* so that DISCONNECTING is never seen by another task and nobody joins a  *)
(* close() or queues an open().  _close() asserts that there is a socket.  *)
(***************************************************************************)
EXTENDS ConnectionStates

CONSTANTS
    Tasks,
    Disciplined,
    Failures,
    Sockets,      \* the sockets the OS hands out (the bound of the model)
    None

ASSUME SocketAssumption == None \notin Sockets

VARIABLES
    state, isConnected, isDisconnected, pc, woken,   \* of ConnectionBase
    socket,       \* _socket
    live,         \* the sockets that are open in the OS
    on,           \* the socket on which a task waits in a call, or None
    unusable      \* tasks that read "" (or got EADDRNOTAVAIL) and will close()

baseVars == <<state, isConnected, isDisconnected, pc, woken>>
ioVars == <<on, unusable>>
vars == <<baseVars, socket, live, ioVars>>

Base == INSTANCE ConnectionBase

Init ==
    /\ Base!Init
    /\ socket = None
    /\ live = {}
    /\ on = [t \in Tasks |-> None]
    /\ unusable = {}

(* The task t is not in the middle of a read(), write() or accept(). *)
Free(t) == on[t] = None /\ t \notin unusable

(* A socket that nothing refers to any more. *)
FreshSockets == Sockets \ (live \cup {socket} \cup {on[t] : t \in Tasks})

(***************************************************************************)
(* open()                                                                  *)
(***************************************************************************)

OpenJoins(t) ==
    /\ Free(t)
    /\ Base!OpenJoins(t)
    /\ UNCHANGED <<socket, live, ioVars>>

OpenStarts(t) ==
    /\ Free(t)
    /\ Base!OpenStarts(t)
    /\ UNCHANGED <<socket, live, ioVars>>

(* Mutant: the new socket is not stored. *)
OpenSucceeds_NotStored(t) ==
    /\ Base!OpenEnds(t, TRUE)
    /\ \E s \in FreshSockets : live' = live \cup {s}
    /\ UNCHANGED <<socket, ioVars>>

(* _create_and_open_socket() gives a bound socket, or it fails. *)
OpenSucceeds(t) ==
    /\ Base!OpenEnds(t, TRUE)
    /\ \E s \in FreshSockets : socket' = s /\ live' = live \cup {s}
    /\ UNCHANGED ioVars

OpenFails(t) ==
    /\ Base!OpenEnds(t, FALSE)
    /\ UNCHANGED <<socket, live, ioVars>>

(***************************************************************************)
(* close(), by a call or at the end of a read() or write() that found the  *)
(* socket unusable.                                                        *)
(***************************************************************************)

(* Mutant: the socket is forgotten but not closed. *)
CloseSocket_OnlyForgets ==
    /\ socket' = None
    /\ UNCHANGED live

(* _close(): the assertion fails if there is no socket. *)
CloseSocket ==
    /\ live' = live \ {socket}
    /\ socket' = None

Close(t) ==
    /\ on[t] = None
    /\ Base!CloseAtOnce(t, socket # None)
    /\ CloseSocket
    /\ unusable' = unusable \ {t}
    /\ UNCHANGED on

CloseQueues(t) ==
    /\ on[t] = None
    /\ Base!CloseQueues(t)
    /\ unusable' = unusable \ {t}
    /\ UNCHANGED <<socket, live, on>>

(* close() finds the connection closed: nothing is left to do for the      *)
(* read() or write() that called it.                                       *)
CloseIsNoOp(t) ==
    /\ t \in unusable
    /\ pc[t] = "idle"
    /\ state = DISCONNECTED
    /\ unusable' = unusable \ {t}
    /\ UNCHANGED <<baseVars, socket, live, on>>

WaitReturns(t) ==
    /\ Base!WaitReturns(t)
    /\ UNCHANGED <<socket, live, ioVars>>

Cancelled(t) ==
    /\ Base!Cancelled(t)
    /\ UNCHANGED <<socket, live, ioVars>>

(***************************************************************************)
(* read(), write() and accept(): a call waits on the socket that was       *)
(* current when it was made.                                               *)
(***************************************************************************)

IoStarts(t) ==
    /\ Free(t)
    /\ pc[t] = "idle"
    /\ socket # None
    /\ on' = [on EXCEPT ![t] = socket]
    /\ UNCHANGED <<baseVars, socket, live, unusable>>

(* The call returns data or raises; when the socket is closed under it,    *)
(* Trio makes it raise.                                                    *)
IoEnds(t) ==
    /\ on[t] # None
    /\ on' = [on EXCEPT ![t] = None]
    /\ UNCHANGED <<baseVars, socket, live, unusable>>

(* An empty packet was read, or the address became unavailable.  The task  *)
(* passes a checkpoint before it calls close().                            *)
IoFindsUnusable(t) ==
    /\ on[t] \in live
    /\ on' = [on EXCEPT ![t] = None]
    /\ unusable' = unusable \cup {t}
    /\ UNCHANGED <<baseVars, socket, live>>

Next ==
    \E t \in Tasks :
        \/ OpenJoins(t)
        \/ OpenStarts(t)
        \/ OpenSucceeds(t)
        \/ OpenFails(t)
        \/ Close(t)
        \/ CloseQueues(t)
        \/ CloseIsNoOp(t)
        \/ WaitReturns(t)
        \/ Cancelled(t)
        \/ IoStarts(t)
        \/ IoEnds(t)
        \/ IoFindsUnusable(t)

Spec == Init /\ [][Next]_vars

-----------------------------------------------------------------------------
(* Whatever calls race, no socket stays open in the OS that the connection *)
(* has lost track of, and none stays open on a closed connection: _open()  *)
(* never overwrites an open socket.                                        *)
NoSocketLeak ==
    /\ live \subseteq {socket}
    /\ state = DISCONNECTED => live = {}

(* Disciplined callers find an open socket behind a CONNECTED connection,  *)
(* so that the assertion of _close() never fails.                          *)
ConnectedHasSocket == state = CONNECTED => socket \in live

(* Reads and writes that close the connection do not break its contract:   *)
(* for disciplined callers the socket connection still implements the      *)
(* lifecycle of a connection.                                              *)
ImplementsLifecycle == Base!ImplementsLifecycle

(* "Closes the connection. No-op if the connection is closed already."     *)
(* (Connection.close): only open() takes a connection out of DISCONNECTED. *)
CloseIsNoOpWhenClosed ==
    [][state = DISCONNECTED /\ state' # DISCONNECTED
         => \E t \in Tasks : pc'[t] = "opening"]_vars
=============================================================================

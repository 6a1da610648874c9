------------------------ MODULE ConnectionLifecycle ------------------------
(***************************************************************************)
(* What a connection promises to its users: open() is a no-op on an open   *)
(* connection and close() is a no-op on a closed one; one attempt runs at  *)
(* a time, and it ends either where it wanted to go or back where it came  *)
(* from.                                                                   *)
(***************************************************************************)
EXTENDS ConnectionStates

CONSTANT Tasks  \* the tasks that may use the connection

VARIABLES
    state,      \* the state of the connection
    attempts    \* the tasks that are establishing it or tearing it down

vars == <<state, attempts>>

Init ==
    /\ state = DISCONNECTED
    /\ attempts = {}

(* A task starts to establish a closed connection, or to close an open one. *)
BeginOpen(t) ==
    /\ state = DISCONNECTED
    /\ attempts = {}
    /\ state' = CONNECTING
    /\ attempts' = {t}

BeginClose(t) ==
    /\ state = CONNECTED
    /\ attempts = {}
    /\ state' = DISCONNECTING
    /\ attempts' = {t}

(* The only running attempt ends, in success or in failure. *)
EndOpen ==
    /\ state = CONNECTING
    /\ state' \in {CONNECTED, DISCONNECTED}
    /\ attempts' = {}

EndClose ==
    /\ state = DISCONNECTING
    /\ state' \in {DISCONNECTED, CONNECTED}
    /\ attempts' = {}

(* An attempt that never yields to the scheduler begins and ends at once;  *)
(* one that fails this way leaves no trace.                                *)
OpenAtOnce ==
    /\ state = DISCONNECTED
    /\ state' = CONNECTED
    /\ UNCHANGED attempts

CloseAtOnce ==
    /\ state = CONNECTED
    /\ state' = DISCONNECTED
    /\ UNCHANGED attempts

Next ==
    \/ \E t \in Tasks : BeginOpen(t) \/ BeginClose(t)
    \/ EndOpen
    \/ EndClose
    \/ OpenAtOnce
    \/ CloseAtOnce

Spec == Init /\ [][Next]_vars
=============================================================================

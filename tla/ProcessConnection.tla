------------------------- MODULE ProcessConnection -------------------------
(***************************************************************************)
(* class ProcessConnection of connections/process.py: a ConnectionBase     *)
(* that owns a process of the operating system.                            *)
(*                                                                         *)
(* _close() forgets the process, terminates it, waits for some seconds and *)
(* kills it if it is still there.  The pipes of the process share its      *)
(* fate and are not told apart from it.                                    *)
(***************************************************************************)
EXTENDS ConnectionStates

CONSTANTS
    Tasks,
    Disciplined,
    Failures,
    Processes,    \* the processes the OS starts (the bound of the model)
    None

ASSUME ProcessAssumption == None \notin Processes

VARIABLES
    state, isConnected, isDisconnected, pc, woken,   \* of ConnectionBase
    process,      \* _process
    exitCode,     \* exit_code: the process whose code it is, or None
    os,           \* the processes, as the operating system sees them
    starts,       \* the process that a task inside _open() starts
    closes,       \* the process that a task inside _close() waits for
    left          \* history: the processes that a cancelled close() gave up

baseVars == <<state, isConnected, isDisconnected, pc, woken>>
vars == <<baseVars, process, exitCode, os, starts, closes, left>>

Base == INSTANCE ConnectionBase

Init ==
    /\ Base!Init
    /\ process = None
    /\ exitCode = None
    /\ os = [p \in Processes |-> "none"]
    /\ starts = [t \in Tasks |-> None]
    /\ closes = [t \in Tasks |-> None]
    /\ left = {}

(* A process that is over and that nothing refers to any more. *)
FreshProcesses ==
    {p \in Processes : /\ os[p] \in {"none", "exited"}
                       /\ p \notin {process, exitCode}
                       /\ \A t \in Tasks : starts[t] # p /\ closes[t] # p}

(***************************************************************************)
(* The operating system                                                    *)
(***************************************************************************)

Alive(p) == os[p] \in {"running", "terminated", "killed"}

(* A process ends by itself, because its nursery is cancelled, or because  *)
(* of a signal.  One that was terminated may take its time.                *)
Exits(p) ==
    /\ Alive(p)
    /\ os' = [os EXCEPT ![p] = "exited"]
    /\ UNCHANGED <<baseVars, process, exitCode, starts, closes, left>>

(* A signal to a process that is over has no effect. *)
Signalled(p, how) == IF Alive(p) THEN [os EXCEPT ![p] = how] ELSE os

(* Process.returncode, which says whose code it is. *)
ReturnCode(p) == IF os[p] = "exited" THEN p ELSE None

(***************************************************************************)
(* open()                                                                  *)
(***************************************************************************)

OpenWaits(t) ==
    /\ Base!OpenJoins(t) \/ Base!OpenQueues(t)
    /\ UNCHANGED <<process, exitCode, os, starts, closes, left>>

(* Mutant: the exit code of the last process is kept. *)
OpenStarts_KeepsCode(t) ==
    /\ Base!OpenStarts(t)
    /\ \E p \in FreshProcesses :
        /\ starts' = [starts EXCEPT ![t] = p]
        /\ os' = [os EXCEPT ![p] = "running"]
        /\ left' = left \ {p}
    /\ UNCHANGED <<process, exitCode, closes>>

(* The exit code is reset, and nursery.start() starts a process. *)
OpenStarts(t) ==
    /\ Base!OpenStarts(t)
    /\ exitCode' = None
    /\ \E p \in FreshProcesses :
        /\ starts' = [starts EXCEPT ![t] = p]
        /\ os' = [os EXCEPT ![p] = "running"]
        /\ left' = left \ {p}
    /\ UNCHANGED <<process, closes>>

OpenSucceeds(t) ==
    /\ Base!OpenEnds(t, TRUE)
    /\ process' = starts[t]
    /\ starts' = [starts EXCEPT ![t] = None]
    /\ UNCHANGED <<exitCode, os, closes, left>>

(* There is no such command, or nursery.start() was cancelled, which ends  *)
(* the process before it returns.                                          *)
OpenFails(t) ==
    /\ Base!OpenEnds(t, FALSE)
    /\ os' = [os EXCEPT ![starts[t]] = "exited"]
    /\ starts' = [starts EXCEPT ![t] = None]
    /\ UNCHANGED <<process, exitCode, closes, left>>

(***************************************************************************)
(* close()                                                                 *)
(***************************************************************************)

CloseWaits(t) ==
    /\ Base!CloseJoins(t) \/ Base!CloseQueues(t)
    /\ UNCHANGED <<process, exitCode, os, starts, closes, left>>

CloseStarts(t) ==
    /\ process # None
    /\ Base!CloseStarts(t)
    /\ closes' = [closes EXCEPT ![t] = process]
    /\ process' = None
    /\ os' = Signalled(process, "terminated")
    /\ UNCHANGED <<exitCode, starts, left>>

(* "already closed or waiting to be closed" *)
CloseAtOnce(t) ==
    /\ process = None
    /\ Base!CloseAtOnce(t, TRUE)
    /\ UNCHANGED <<process, exitCode, os, starts, closes, left>>

(* Mutant: the process is terminated once more. *)
TimeIsUp_Terminates(t) ==
    /\ closes[t] # None
    /\ os[closes[t]] = "terminated"
    /\ UNCHANGED vars

(* The process did not obey in time. *)
TimeIsUp(t) ==
    /\ closes[t] # None
    /\ os[closes[t]] = "terminated"
    /\ os' = Signalled(closes[t], "killed")
    /\ UNCHANGED <<baseVars, process, exitCode, starts, closes, left>>

(* Mutant: nobody waits for the process. *)
WaitEnds_AtOnce(t, ok) == UNCHANGED left

(* process.wait() returns or is cancelled. *)
WaitEnds(t, ok) ==
    \/ /\ ok
       /\ os[closes[t]] = "exited"
       /\ UNCHANGED left
    \/ /\ ~ok
       /\ left' = left \cup {closes[t]}

(* The finally block stores the exit code that is known by now. *)
CloseEnds(t, ok) ==
    /\ Base!CloseEnds(t, ok)
    /\ WaitEnds(t, ok)
    /\ exitCode' = ReturnCode(closes[t])
    /\ closes' = [closes EXCEPT ![t] = None]
    /\ UNCHANGED <<process, os, starts>>

WaitReturns(t) ==
    /\ Base!WaitReturns(t)
    /\ UNCHANGED <<process, exitCode, os, starts, closes, left>>

Cancelled(t) ==
    /\ Base!Cancelled(t)
    /\ UNCHANGED <<process, exitCode, os, starts, closes, left>>

Next ==
    \/ \E p \in Processes : Exits(p)
    \/ \E t \in Tasks :
        \/ OpenWaits(t)
        \/ OpenStarts(t)
        \/ OpenSucceeds(t)
        \/ OpenFails(t)
        \/ CloseWaits(t)
        \/ CloseStarts(t)
        \/ CloseAtOnce(t)
        \/ TimeIsUp(t)
        \/ \E ok \in BOOLEAN : CloseEnds(t, ok)
        \/ WaitReturns(t)
        \/ Cancelled(t)

Spec == Init /\ [][Next]_vars

(* Time passes, a process that was killed ends, and Trio runs what is      *)
(* runnable.  A process that was only terminated may stay.                 *)
Fairness ==
    /\ \A p \in Processes : WF_vars(os[p] = "killed" /\ Exits(p))
    /\ \A t \in Tasks :
        /\ WF_vars(OpenSucceeds(t) \/ OpenFails(t))
        /\ WF_vars(TimeIsUp(t))
        /\ WF_vars(CloseEnds(t, TRUE))
        /\ WF_vars(WaitReturns(t))

FairSpec == Spec /\ Fairness

-----------------------------------------------------------------------------
(* Disciplined callers lose no process: one that is alive is that of the   *)
(* connection, or is being started or closed; and a closed connection has  *)
(* none.  Only a cancelled close() leaves a process behind.                *)
NoProcessLeak ==
    \A p \in Processes : Alive(p) /\ p \notin left =>
        /\ \/ process = p
           \/ \E t \in Tasks : p \in {starts[t], closes[t]}
        /\ state # DISCONNECTED

(* "The exit code of the process if it was terminated; None if the process *)
(* is still running" (exit_code): the code is that of a process that is    *)
(* over, and never the one of an earlier process while the connection has  *)
(* another or starts it.                                                   *)
ExitCodeIsCurrent ==
    exitCode # None =>
        /\ process = None
        /\ os[exitCode] = "exited"
        /\ \A t \in Tasks : starts[t] = None

(* Every close() ends, whether or not the process obeys. *)
CloseEndsInTime ==
    \A t \in Tasks : pc[t] = "closing" ~> pc[t] # "closing"
=============================================================================

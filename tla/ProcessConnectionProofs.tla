----------------------- MODULE ProcessConnectionProofs -----------------------
(***************************************************************************)
(* Processes do not get lost, and exit codes are those of the right        *)
(* process, for any number of disciplined callers and any supply of        *)
(* processes.                                                              *)
(***************************************************************************)
EXTENDS ProcessConnection, TLAPS

BaseProofs == INSTANCE ConnectionBaseProofs

(***************************************************************************)
(* A process connection is a connection                                    *)
(***************************************************************************)

(* ConnectionBaseProofs speaks of the same connection. *)
LEMMA SameConnection == Base!Spec => BaseProofs!Spec
<1>1. Base!Init => BaseProofs!Init
  BY DEF Base!Init, BaseProofs!Init, Base!DISCONNECTED, BaseProofs!DISCONNECTED
<1>2. Base!Next => BaseProofs!Next
  BY DEF Base!Next, BaseProofs!Next, Base!OpenJoins, BaseProofs!OpenJoins, Base!OpenQueues,
         BaseProofs!OpenQueues, Base!OpenStarts, BaseProofs!OpenStarts, Base!OpenEnds,
         BaseProofs!OpenEnds, Base!OpenAtOnce, BaseProofs!OpenAtOnce, Base!CloseJoins,
         BaseProofs!CloseJoins, Base!CloseQueues, BaseProofs!CloseQueues, Base!CloseStarts,
         BaseProofs!CloseStarts, Base!CloseEnds, BaseProofs!CloseEnds, Base!CloseAtOnce,
         BaseProofs!CloseAtOnce, Base!WaitUntilConnected, BaseProofs!WaitUntilConnected,
         Base!WaitUntilDisconnected, BaseProofs!WaitUntilDisconnected, Base!WaitReturns,
         BaseProofs!WaitReturns, Base!Cancelled, BaseProofs!Cancelled, Base!EntersOpen,
         BaseProofs!EntersOpen, Base!EntersClose, BaseProofs!EntersClose, Base!SetState,
         BaseProofs!SetState, Base!PassThroughTo, BaseProofs!PassThroughTo, Base!Released,
         BaseProofs!Released, Base!Goto, BaseProofs!Goto, Base!Block, BaseProofs!Block,
         Base!Resume, BaseProofs!Resume, Base!StateUnchanged, BaseProofs!StateUnchanged,
         Base!NoneQueued, BaseProofs!NoneQueued, Base!Blocked, BaseProofs!Blocked,
         Base!OnConnected, BaseProofs!OnConnected, Base!OnDisconnected,
         BaseProofs!OnDisconnected, Base!DISCONNECTED, BaseProofs!DISCONNECTED,
         Base!CONNECTING, BaseProofs!CONNECTING, Base!CONNECTED, BaseProofs!CONNECTED,
         Base!DISCONNECTING, BaseProofs!DISCONNECTING
<1>3. UNCHANGED Base!vars => UNCHANGED BaseProofs!vars
  BY DEF Base!vars, BaseProofs!vars
<1> QED
  BY <1>1, <1>2, <1>3, PTL DEF Base!Spec, BaseProofs!Spec

(* Every step of a process connection is a step of ConnectionBase, or the  *)
(* operating system's.                                                     *)
LEMMA ProcessIsConnection == Spec => Base!Spec
<1>1. Init => Base!Init
  BY DEF Init
<1>2. ASSUME [Next]_vars PROVE [Base!Next]_(Base!vars)
  <2>1. CASE UNCHANGED vars
    BY <2>1 DEF vars, baseVars, Base!vars
  <2>2. ASSUME NEW p \in Processes, Exits(p)
        PROVE  UNCHANGED Base!vars
    BY <2>2 DEF Exits, baseVars, Base!vars
  <2>3. ASSUME NEW t \in Tasks, TimeIsUp(t)
        PROVE  UNCHANGED Base!vars
    BY <2>3 DEF TimeIsUp, baseVars, Base!vars
  <2>4. ASSUME NEW t \in Tasks, OpenWaits(t) \/ OpenStarts(t) \/ CloseWaits(t)
                 \/ CloseStarts(t) \/ WaitReturns(t) \/ Cancelled(t)
        PROVE  Base!Next
    BY <2>4 DEF OpenWaits, OpenStarts, CloseWaits, CloseStarts, WaitReturns, Cancelled,
                Base!Next
  <2>5. ASSUME NEW t \in Tasks, OpenSucceeds(t) \/ OpenFails(t)
        PROVE  Base!Next
    <3>1. \E ok \in BOOLEAN : Base!OpenEnds(t, ok)
      BY <2>5 DEF OpenSucceeds, OpenFails
    <3> QED
      BY <3>1 DEF Base!Next
  <2>6. ASSUME NEW t \in Tasks, CloseAtOnce(t)
        PROVE  Base!Next
    <3>1. \E ok \in BOOLEAN : Base!CloseAtOnce(t, ok)
      BY <2>6 DEF CloseAtOnce
    <3> QED
      BY <3>1 DEF Base!Next
  <2>7. ASSUME NEW t \in Tasks, NEW ok \in BOOLEAN, CloseEnds(t, ok)
        PROVE  Base!Next
    BY <2>7 DEF CloseEnds, Base!Next
  <2> QED
    BY <1>2, <2>1, <2>2, <2>3, <2>4, <2>5, <2>6, <2>7 DEF Next
<1> QED
  BY <1>1, <1>2, PTL DEF Spec, Base!Spec

(* What ConnectionBase promises disciplined callers. *)
ConnectionInv == BaseProofs!TypeOK /\ BaseProofs!DisciplineInv

LEMMA ConnectionInvariant == ASSUME Disciplined PROVE Spec => []ConnectionInv
<1>1. BaseProofs!Spec => [](BaseProofs!TypeOK /\ BaseProofs!DisciplineInv)
  BY BaseProofs!DisciplineInvariant
<1> QED
  BY <1>1, ProcessIsConnection, SameConnection, PTL DEF ConnectionInv

-----------------------------------------------------------------------------
(***************************************************************************)
(* The inductive invariant                                                 *)
(***************************************************************************)

(* The processes, and who may hold one. *)
ProcessTypeOK ==
    /\ process \in Processes \cup {None}
    /\ exitCode \in Processes \cup {None}
    /\ os \in [Processes -> {"none", "running", "terminated", "killed", "exited"}]
    /\ starts \in [Tasks -> Processes \cup {None}]
    /\ closes \in [Tasks -> Processes \cup {None}]
    /\ left \subseteq Processes

(* A task holds a process exactly while it is inside _open() or _close(),  *)
(* and the connection has one at most while it is CONNECTED (it has none   *)
(* after a close() that was cancelled).                                    *)
HoldersMatchPlaces ==
    /\ \A t \in Tasks :
        /\ starts[t] # None <=> pc[t] = "opening"
        /\ closes[t] # None <=> pc[t] = "closing"
    /\ process # None => state = CONNECTED

ProcessInv == ProcessTypeOK /\ HoldersMatchPlaces /\ NoProcessLeak /\ ExitCodeIsCurrent

(* A task that is past the dispatch of open() or close(), or inside one of *)
(* the attempts, finds the state that belongs to it, and nobody else is    *)
(* inside an attempt.                                                      *)
LEMMA StateIsAsFound ==
    ASSUME ConnectionInv, NEW t \in Tasks
    PROVE  /\ Base!EntersOpen(t) => state = DISCONNECTED
           /\ Base!EntersClose(t) => state = CONNECTED
           /\ pc[t] = "opening" => state = CONNECTING /\ \A u \in Tasks : pc[u] = "opening" => u = t
           /\ pc[t] = "closing" => state = DISCONNECTING /\ \A u \in Tasks : pc[u] = "closing" => u = t
  BY DEF ConnectionInv, BaseProofs!DisciplineInv, BaseProofs!ReleaseStaysValid,
         BaseProofs!AttemptsMatchState, BaseProofs!AtMostOneAt, Base!EntersOpen, Base!EntersClose,
         Base!DISCONNECTED, Base!CONNECTED, BaseProofs!DISCONNECTED, BaseProofs!CONNECTED,
         BaseProofs!CONNECTING, BaseProofs!DISCONNECTING,
         DISCONNECTED, CONNECTED, CONNECTING, DISCONNECTING

(* Every step keeps the invariant. *)
LEMMA ProcessStep ==
    ASSUME ConnectionInv, ProcessInv, [Next]_vars
    PROVE  ProcessInv'
<1> USE ProcessAssumption
    DEF ProcessInv, ProcessTypeOK, HoldersMatchPlaces, NoProcessLeak, ExitCodeIsCurrent, Alive,
        DISCONNECTED, CONNECTED, CONNECTING, DISCONNECTING,
        Base!DISCONNECTED, Base!CONNECTED, Base!CONNECTING, Base!DISCONNECTING, Base!Goto
<1>0. /\ DOMAIN pc = Tasks
      /\ state \in {DISCONNECTED, CONNECTED, CONNECTING, DISCONNECTING}
  BY DEF ConnectionInv, BaseProofs!TypeOK, BaseProofs!ConnectionState, BaseProofs!DISCONNECTED,
         BaseProofs!CONNECTED, BaseProofs!CONNECTING, BaseProofs!DISCONNECTING
<1>1. CASE UNCHANGED vars
  BY <1>1 DEF vars, baseVars
<1>2. ASSUME NEW p \in Processes, Exits(p)
      PROVE  ProcessInv'
  BY <1>2 DEF Exits, baseVars
<1>3. ASSUME NEW t \in Tasks,
             OpenWaits(t) \/ CloseWaits(t) \/ WaitReturns(t) \/ Cancelled(t)
      PROVE  ProcessInv'
  <2>1. /\ UNCHANGED <<state, process, exitCode, os, starts, closes, left>>
        /\ \A u \in Tasks : /\ pc'[u] = "opening" <=> pc[u] = "opening"
                            /\ pc'[u] = "closing" <=> pc[u] = "closing"
    BY <1>0, <1>3 DEF OpenWaits, CloseWaits, WaitReturns, Cancelled, Base!OpenJoins,
              Base!OpenQueues, Base!CloseJoins, Base!CloseQueues, Base!WaitReturns,
              Base!Cancelled, Base!Block, Base!Resume, Base!StateUnchanged, Base!Blocked,
              Base!OnConnected, Base!OnDisconnected
  <2> QED
    BY <2>1
<1>4. ASSUME NEW t \in Tasks, OpenStarts(t)
      PROVE  ProcessInv'
  <2>1. /\ state = DISCONNECTED /\ state' = CONNECTING
        /\ \A u \in Tasks : pc[u] \notin {"opening", "closing"}
        /\ pc' = [pc EXCEPT ![t] = "opening"]
    BY <1>4, StateIsAsFound DEF OpenStarts, Base!OpenStarts, Base!SetState
  <2>2. PICK p \in FreshProcesses : /\ starts' = [starts EXCEPT ![t] = p]
                                    /\ os' = [os EXCEPT ![p] = "running"]
                                    /\ left' = left \ {p}
    BY <1>4 DEF OpenStarts
  <2> QED
    BY <1>0, <1>4, <2>1, <2>2 DEF OpenStarts, FreshProcesses
<1>5. ASSUME NEW t \in Tasks, OpenSucceeds(t)
      PROVE  ProcessInv'
  <2>1. /\ state = CONNECTING /\ state' = CONNECTED
        /\ \A u \in Tasks : pc[u] = "opening" => u = t
        /\ pc[t] = "opening" /\ pc' = [pc EXCEPT ![t] = "idle"]
    BY <1>5, StateIsAsFound DEF OpenSucceeds, Base!OpenEnds, Base!SetState
  <2> QED
    BY <1>0, <1>5, <2>1 DEF OpenSucceeds
<1>6. ASSUME NEW t \in Tasks, OpenFails(t)
      PROVE  ProcessInv'
  <2>1. /\ state = CONNECTING /\ state' = DISCONNECTED
        /\ \A u \in Tasks : pc[u] # "closing" /\ (pc[u] = "opening" => u = t)
        /\ pc[t] = "opening" /\ pc' = [pc EXCEPT ![t] = "idle"]
    BY <1>6, StateIsAsFound DEF OpenFails, Base!OpenEnds, Base!SetState
  <2> QED
    BY <1>0, <1>6, <2>1 DEF OpenFails
<1>7. ASSUME NEW t \in Tasks, CloseStarts(t)
      PROVE  ProcessInv'
  <2>1. /\ state = CONNECTED /\ state' = DISCONNECTING
        /\ \A u \in Tasks : pc[u] \notin {"opening", "closing"}
        /\ pc' = [pc EXCEPT ![t] = "closing"]
    BY <1>7, StateIsAsFound DEF CloseStarts, Base!CloseStarts, Base!SetState
  <2> QED
    BY <1>0, <1>7, <2>1 DEF CloseStarts, Signalled
<1>8. ASSUME NEW t \in Tasks, CloseAtOnce(t)
      PROVE  ProcessInv'
  <2>1. /\ state = CONNECTED /\ state' = DISCONNECTED
        /\ \A u \in Tasks : pc[u] \notin {"opening", "closing"}
        /\ pc' = [pc EXCEPT ![t] = "idle"]
    BY <1>8, StateIsAsFound DEF CloseAtOnce, Base!CloseAtOnce, Base!PassThroughTo
  <2> QED
    BY <1>0, <1>8, <2>1 DEF CloseAtOnce
<1>9. ASSUME NEW t \in Tasks, TimeIsUp(t)
      PROVE  ProcessInv'
  BY <1>9 DEF TimeIsUp, Signalled, baseVars
<1>10. ASSUME NEW t \in Tasks, NEW ok \in BOOLEAN, CloseEnds(t, ok)
       PROVE  ProcessInv'
  <2>1. /\ state = DISCONNECTING /\ state' = IF ok THEN DISCONNECTED ELSE CONNECTED
        /\ \A u \in Tasks : pc[u] # "opening" /\ (pc[u] = "closing" => u = t)
        /\ pc[t] = "closing" /\ pc' = [pc EXCEPT ![t] = "idle"]
    BY <1>10, StateIsAsFound DEF CloseEnds, Base!CloseEnds, Base!SetState
  <2> QED
    BY <1>0, <1>10, <2>1 DEF CloseEnds, WaitEnds, ReturnCode
<1> QED
  BY <1>1, <1>2, <1>3, <1>4, <1>5, <1>6, <1>7, <1>8, <1>9, <1>10 DEF Next

(* The invariant holds throughout. *)
LEMMA ProcessInvariant == ASSUME Disciplined PROVE Spec => []ProcessInv
<1>1. Init => ProcessInv
  BY DEF Init, Base!Init, Base!DISCONNECTED, ProcessInv, ProcessTypeOK, HoldersMatchPlaces,
         NoProcessLeak, ExitCodeIsCurrent, Alive
<1>2. ConnectionInv /\ ProcessInv /\ [Next]_vars => ProcessInv'
  BY ProcessStep
<1> QED
  BY <1>1, <1>2, ConnectionInvariant, PTL DEF Spec

(* Whatever fails, is cancelled or times out, a process that is alive is   *)
(* the one of the connection or is in the hands of the open() or close()   *)
(* under way; only a cancelled close() leaves one behind.                  *)
THEOREM ProcessesDoNotLeak == ASSUME Disciplined PROVE Spec => []NoProcessLeak
<1>1. ProcessInv => NoProcessLeak
  BY DEF ProcessInv
<1> QED
  BY <1>1, ProcessInvariant, PTL

(* exit_code is None, or that of a process that is over and has no         *)
(* successor yet.                                                          *)
THEOREM ExitCodesAreCurrent == ASSUME Disciplined PROVE Spec => []ExitCodeIsCurrent
<1>1. ProcessInv => ExitCodeIsCurrent
  BY DEF ProcessInv
<1> QED
  BY <1>1, ProcessInvariant, PTL
=============================================================================

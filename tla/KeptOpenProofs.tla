--------------------------- MODULE KeptOpenProofs ---------------------------
(***************************************************************************)
(* The connections that somebody keeps open.  A task connection is closed  *)
(* exactly when its background task is over, for any number of callers and *)
(* runs.  A supervised connection has one loop at a time, and is closed    *)
(* when it is removed, for any set of connections, any policy and any      *)
(* number of commands in flight.                                           *)
(***************************************************************************)
EXTENDS TaskConnection, Supervision, SequenceTheorems, TLAPS

BaseProofs == INSTANCE ConnectionBaseProofs

(***************************************************************************)
(* TaskConnection.  A run sets the event that the connection has when the  *)
(* run ends, and the connection may lose track of a run.                   *)
(***************************************************************************)

LEMMA RunsAreTasks == Runs \subseteq Tasks
  BY DEF Tasks

(* The state machine of a task connection is that of a connection. *)
LEMMA TaskIsConnection == Spec => BaseProofs!Spec
<1>1. Init => BaseProofs!Init
  BY RunsAreTasks DEF Init, Base!Init, BaseProofs!Init, Base!DISCONNECTED,
                      BaseProofs!DISCONNECTED
<1>2. Base!Next => BaseProofs!Next
  BY RunsAreTasks
     DEF Base!Next, BaseProofs!Next, Base!OpenJoins, BaseProofs!OpenJoins, Base!OpenQueues,
         BaseProofs!OpenQueues, Base!OpenStarts, BaseProofs!OpenStarts, Base!OpenEnds,
         BaseProofs!OpenEnds, Base!OpenAtOnce, BaseProofs!OpenAtOnce, Base!CloseJoins,
         BaseProofs!CloseJoins, Base!CloseQueues, BaseProofs!CloseQueues, Base!CloseStarts,
         BaseProofs!CloseStarts, Base!CloseEnds, BaseProofs!CloseEnds, Base!CloseAtOnce,
         BaseProofs!CloseAtOnce, Base!WaitUntilConnected, BaseProofs!WaitUntilConnected,
         Base!WaitUntilDisconnected, BaseProofs!WaitUntilDisconnected, Base!WaitReturns,
         BaseProofs!WaitReturns, Base!Cancelled, BaseProofs!Cancelled, Base!EntersOpen,
         BaseProofs!EntersOpen, Base!EntersClose, BaseProofs!EntersClose, Base!SetState,
         BaseProofs!SetState, Base!PassThroughTo, BaseProofs!PassThroughTo, Base!Released,
         BaseProofs!Released, Base!Goto, BaseProofs!Goto, Base!Block, BaseProofs!Block,
         Base!Resume, BaseProofs!Resume, Base!StateUnchanged, BaseProofs!StateUnchanged,
         Base!NoneQueued, BaseProofs!NoneQueued, Base!Blocked, BaseProofs!Blocked,
         Base!OnConnected, BaseProofs!OnConnected, Base!OnDisconnected,
         BaseProofs!OnDisconnected, Base!DISCONNECTED, BaseProofs!DISCONNECTED, Base!CONNECTING,
         BaseProofs!CONNECTING, Base!CONNECTED, BaseProofs!CONNECTED, Base!DISCONNECTING,
         BaseProofs!DISCONNECTING
<1>3. ASSUME [Next]_vars PROVE [Base!Next]_(Base!vars)
  <2>1. CASE UNCHANGED vars
    BY <2>1 DEF vars, baseVars, Base!vars
  <2>2. ASSUME AssignNursery \/ \E r \in Runs : RunStep(r)
        PROVE  UNCHANGED Base!vars
    BY <2>2 DEF AssignNursery, RunStep, Started, RunFails, RunRaises, CloseIsNoOp, baseVars,
                Base!vars
  <2>3. ASSUME NEW t \in Tasks, OpenStep(t)
        PROVE  Base!Next
    <3>1. \/ Base!OpenJoins(t) \/ Base!OpenQueues(t) \/ Base!OpenStarts(t)
          \/ \E ok \in BOOLEAN : Base!OpenEnds(t, ok) \/ Base!OpenAtOnce(t, ok)
      BY <2>3 DEF OpenStep, OpenWaits, OpenWithoutNursery, OpenStarts, OpenSucceeds, OpenFails
    <3> QED
      BY <3>1 DEF Base!Next
  <2>4. ASSUME NEW t \in Tasks, CloseStep(t)
        PROVE  Base!Next
    <3>1. \/ Base!CloseJoins(t) \/ Base!CloseQueues(t) \/ Base!CloseStarts(t)
          \/ \E ok \in BOOLEAN : Base!CloseEnds(t, ok) \/ Base!CloseAtOnce(t, ok)
          \/ Base!WaitReturns(t) \/ Base!Cancelled(t)
      BY <2>4 DEF CloseStep, CloseWaits, CloseStarts, CloseAtOnce, CloseEnds, WaitReturns,
                  Cancelled
    <3> QED
      BY <3>1 DEF Base!Next
  <2> QED
    BY <1>3, <2>1, <2>2, <2>3, <2>4 DEF Next, Tasks
<1>4. UNCHANGED Base!vars => UNCHANGED BaseProofs!vars
  BY DEF Base!vars, BaseProofs!vars
<1> QED
  BY <1>1, <1>2, <1>3, <1>4, PTL DEF Spec, BaseProofs!Spec

ConnectionInv == BaseProofs!TypeOK /\ BaseProofs!DisciplineInv

LEMMA TaskConnectionInvariant == ASSUME Disciplined PROVE Spec => []ConnectionInv
<1>1. BaseProofs!Spec => [](BaseProofs!TypeOK /\ BaseProofs!DisciplineInv)
  BY BaseProofs!DisciplineInvariant
<1> QED
  BY <1>1, TaskIsConnection, PTL DEF ConnectionInv

(* A task that is past the dispatch of open() or close(), or inside one of *)
(* the attempts, finds the state that belongs to it, and nobody else is    *)
(* inside an attempt.                                                      *)
LEMMA StateIsAsFound ==
    ASSUME ConnectionInv, NEW t \in Tasks
    PROVE  /\ Base!EntersOpen(t) => state = DISCONNECTED
           /\ Base!EntersClose(t) => state = CONNECTED
           /\ pc[t] = "opening" =>
                state = CONNECTING /\ \A u \in Tasks : pc[u] = "opening" => u = t
           /\ pc[t] = "closing" =>
                state = DISCONNECTING /\ \A u \in Tasks : pc[u] = "closing" => u = t
  BY DEF ConnectionInv, BaseProofs!DisciplineInv, BaseProofs!ReleaseStaysValid,
         BaseProofs!AttemptsMatchState, BaseProofs!AtMostOneAt, Base!EntersOpen, Base!EntersClose,
         Base!DISCONNECTED, Base!CONNECTED, BaseProofs!DISCONNECTED, BaseProofs!CONNECTED,
         BaseProofs!CONNECTING, BaseProofs!DISCONNECTING, DISCONNECTED, CONNECTED, CONNECTING,
         DISCONNECTING

TaskTypeOK ==
    /\ run \in [Runs -> {"none", "starting", "running", "failed", "stopped", "crashed"}]
    /\ scope \in Runs \cup {None}
    /\ event \in Runs \cup {None}
    /\ isSet \subseteq Runs
    /\ opens \in [Tasks -> Runs \cup {None}]
    /\ awaits \in [Tasks -> Runs \cup {None}]
    /\ left \subseteq Runs

(* A task holds a run exactly while it is inside _open(); the event of the *)
(* connection is that of the run being opened, of the scope, and of the    *)
(* close() under way.  Only a close() that was cancelled takes the scope   *)
(* from an open connection.                                                *)
HoldersAgree ==
    /\ \A t \in Tasks :
        /\ opens[t] # None <=> pc[t] = "opening"
        /\ opens[t] # None => event = opens[t]
        /\ pc[t] = "closing" => event # None /\ awaits[t] = event
    /\ scope # None => state = CONNECTED /\ event = scope
    /\ state = CONNECTED => scope # None \/ event \in left

(* A run that was not left behind is being opened, or it is the one whose  *)
(* event the connection has ...                                            *)
ServingRunIsKnown ==
    \A r \in Runs :
        /\ run[r] = "starting" => \E t \in Tasks : opens[t] = r
        /\ run[r] = "running" /\ r \notin left =>
              \/ \E t \in Tasks : opens[t] = r
              \/ state \in {CONNECTED, DISCONNECTING} /\ event = r

(* ... and this event is set only if that run is over, or by a run that    *)
(* was left behind.                                                        *)
SetMeansOver ==
    \A r \in Runs : event = r /\ r \in isSet => ~Active(r) \/ r \in left

TaskInv == TaskTypeOK /\ HoldersAgree /\ ServingRunIsKnown /\ SetMeansOver

(* The state and the places of the tasks in the steps of an attempt. *)
LEMMA TaskMovesState ==
    ASSUME ConnectionInv, NEW t \in Tasks
    PROVE  /\ OpenWithoutNursery(t) =>
                /\ state = DISCONNECTED /\ state' = DISCONNECTED
                /\ pc' = [pc EXCEPT ![t] = "idle"] /\ pc[t] \notin {"opening", "closing"}
           /\ OpenStarts(t) =>
                /\ state = DISCONNECTED /\ state' = CONNECTING
                /\ pc' = [pc EXCEPT ![t] = "opening"]
           /\ OpenSucceeds(t) =>
                /\ state = CONNECTING /\ state' = CONNECTED
                /\ pc[t] = "opening" /\ pc' = [pc EXCEPT ![t] = "idle"]
           /\ OpenFails(t) =>
                /\ state = CONNECTING /\ state' = DISCONNECTED
                /\ pc[t] = "opening" /\ pc' = [pc EXCEPT ![t] = "idle"]
           /\ CloseStarts(t) =>
                /\ state = CONNECTED /\ state' = DISCONNECTING
                /\ pc' = [pc EXCEPT ![t] = "closing"]
           /\ CloseAtOnce(t) =>
                /\ state = CONNECTED /\ state' = DISCONNECTED
                /\ pc' = [pc EXCEPT ![t] = "idle"] /\ pc[t] \notin {"opening", "closing"}
           /\ \A ok \in BOOLEAN : CloseEnds(t, ok) =>
                /\ state = DISCONNECTING /\ state' = IF ok THEN DISCONNECTED ELSE CONNECTED
                /\ pc[t] = "closing" /\ pc' = [pc EXCEPT ![t] = "idle"]
<1> USE RunsAreTasks
    DEF Base!Goto, Base!SetState, Base!PassThroughTo, DISCONNECTED, CONNECTED, CONNECTING,
        DISCONNECTING, Base!DISCONNECTED, Base!CONNECTED, Base!CONNECTING, Base!DISCONNECTING
<1>1. /\ Base!EntersOpen(t) => state = DISCONNECTED /\ pc[t] \notin {"opening", "closing"}
      /\ Base!EntersClose(t) => state = CONNECTED /\ pc[t] \notin {"opening", "closing"}
  BY StateIsAsFound DEF Base!EntersOpen, Base!EntersClose
<1>2. OpenWithoutNursery(t) =>
        /\ state = DISCONNECTED /\ state' = DISCONNECTED
        /\ pc' = [pc EXCEPT ![t] = "idle"] /\ pc[t] \notin {"opening", "closing"}
  BY <1>1 DEF OpenWithoutNursery, Base!OpenAtOnce
<1>3. OpenStarts(t) =>
        /\ state = DISCONNECTED /\ state' = CONNECTING
        /\ pc' = [pc EXCEPT ![t] = "opening"]
  BY <1>1 DEF OpenStarts, Base!OpenStarts
<1>4. OpenSucceeds(t) =>
        /\ state = CONNECTING /\ state' = CONNECTED
        /\ pc[t] = "opening" /\ pc' = [pc EXCEPT ![t] = "idle"]
  BY StateIsAsFound DEF OpenSucceeds, Base!OpenEnds
<1>5. OpenFails(t) =>
        /\ state = CONNECTING /\ state' = DISCONNECTED
        /\ pc[t] = "opening" /\ pc' = [pc EXCEPT ![t] = "idle"]
  BY StateIsAsFound DEF OpenFails, Base!OpenEnds
<1>6. CloseStarts(t) =>
        /\ state = CONNECTED /\ state' = DISCONNECTING
        /\ pc' = [pc EXCEPT ![t] = "closing"]
  BY <1>1 DEF CloseStarts, Base!CloseStarts
<1>7. CloseAtOnce(t) =>
        /\ state = CONNECTED /\ state' = DISCONNECTED
        /\ pc' = [pc EXCEPT ![t] = "idle"] /\ pc[t] \notin {"opening", "closing"}
  BY <1>1 DEF CloseAtOnce, Base!CloseAtOnce
<1>8. \A ok \in BOOLEAN : CloseEnds(t, ok) =>
        /\ state = DISCONNECTING /\ state' = IF ok THEN DISCONNECTED ELSE CONNECTED
        /\ pc[t] = "closing" /\ pc' = [pc EXCEPT ![t] = "idle"]
  BY StateIsAsFound DEF CloseEnds, Base!CloseEnds
<1> QED
  BY <1>2, <1>3, <1>4, <1>5, <1>6, <1>7, <1>8

(* What the calls that only wait, or stop waiting, leave alone. *)
LEMMA TaskWaits ==
    ASSUME ConnectionInv, NEW t \in Tasks,
           OpenWaits(t) \/ CloseWaits(t) \/ WaitReturns(t) \/ Cancelled(t)
    PROVE  /\ UNCHANGED <<state, scope, event, opens, awaits>>
           /\ \A u \in Tasks : /\ pc'[u] = "opening" <=> pc[u] = "opening"
                               /\ pc'[u] = "closing" <=> pc[u] = "closing"
<1>1. DOMAIN pc = Tasks
  BY DEF ConnectionInv, BaseProofs!TypeOK
<1> QED
  BY <1>1, RunsAreTasks
     DEF OpenWaits, CloseWaits, WaitReturns, Cancelled, Base!OpenJoins, Base!OpenQueues,
         Base!CloseJoins, Base!CloseQueues, Base!WaitReturns, Base!Cancelled, Base!Block,
         Base!Resume, Base!StateUnchanged, Base!Blocked, Base!OnConnected, Base!OnDisconnected,
         Base!Goto, handles

(* A run that ends sets the event of the connection, its own or not. *)
RunOver(r, label) ==
    /\ Active(r)
    /\ label \in {"failed", "stopped", "crashed"}
    /\ run' = [run EXCEPT ![r] = label]
    /\ EventIsSet(r)

(* The task t comes to call close(): a run ends now, or nothing happens. *)
LEMMA CallerOrRun ==
    ASSUME NEW t \in Tasks, ComesToClose(t)
    PROVE  \/ t \in Runs /\ run[t] = "running" /\ pc[t] = "idle" /\ RunOver(t, "stopped")
           \/ UNCHANGED <<run, isSet, left>>
  BY DEF ComesToClose, RunOver, Active

(* Whoever ends while the connection stays as it is keeps the invariant. *)
LEMMA RunOverStep ==
    ASSUME TaskInv, NEW r \in Runs, NEW label, RunOver(r, label)
    PROVE  /\ run' \in [Runs -> {"none", "starting", "running", "failed", "stopped", "crashed"}]
           /\ isSet' \subseteq Runs /\ left' \subseteq Runs /\ left \subseteq left'
           /\ \A q \in Runs : Active(q)' => q # r /\ run'[q] = run[q]
           /\ \A q \in Runs : run'[q] = "starting" => run[q] = "starting"
           /\ \A q \in Runs : run'[q] = "running" => run[q] = "running"
           /\ \A q \in Runs : event = q /\ q \in isSet' => ~Active(q)' \/ q \in left'
<1> USE RunAssumption DEF TaskInv, TaskTypeOK, HoldersAgree, ServingRunIsKnown, SetMeansOver
<1>1. event = r \/ r \in left
  BY DEF RunOver, Active
<1> QED
  BY <1>1 DEF RunOver, EventIsSet, Active

(* Every step keeps the invariant. *)
LEMMA TaskInvStep ==
    ASSUME ConnectionInv, TaskInv, [Next]_vars
    PROVE  TaskInv'
<1> USE RunAssumption, RunsAreTasks
    DEF TaskInv, TaskTypeOK, HoldersAgree, ServingRunIsKnown, SetMeansOver, Active,
        DISCONNECTED, CONNECTED, CONNECTING, DISCONNECTING
<1>0. DOMAIN pc = Tasks
  BY DEF ConnectionInv, BaseProofs!TypeOK
<1>1. CASE UNCHANGED vars
  BY <1>1 DEF vars, baseVars, handles
<1>2. CASE AssignNursery
  <2>1. state = DISCONNECTED /\ \A u \in Tasks : pc[u] \notin {"opening", "closing"}
    BY <1>2, StateIsAsFound DEF AssignNursery, DISCONNECTED
  <2> QED
    BY <1>2, <2>1 DEF AssignNursery, baseVars
<1>3. ASSUME NEW r \in Runs, Started(r)
      PROVE  TaskInv'
  BY <1>3 DEF Started, baseVars, handles
<1>4. ASSUME NEW r \in Runs, NEW label, RunOver(r, label),
             UNCHANGED <<state, pc, scope, event, opens, awaits>>
      PROVE  TaskInv'
  BY <1>4, RunOverStep
<1>5. ASSUME NEW r \in Runs, RunStep(r)
      PROVE  TaskInv'
  <2>1. CASE Started(r)
    BY <1>3, <2>1
  <2>2. CASE RunFails(r)
    <3>1. RunOver(r, "failed") /\ UNCHANGED <<state, pc, scope, event, opens, awaits>>
      BY <2>2 DEF RunFails, RunOver, baseVars, handles
    <3> QED
      BY <1>4, <3>1
  <2>3. CASE RunRaises(r)
    <3>1. RunOver(r, "crashed") /\ UNCHANGED <<state, pc, scope, event, opens, awaits>>
      BY <2>3 DEF RunRaises, RunOver, baseVars, handles
    <3> QED
      BY <1>4, <3>1
  <2>4. CASE CloseIsNoOp(r)
    <3>1. UNCHANGED <<state, pc, scope, event, opens, awaits>>
      BY <2>4 DEF CloseIsNoOp, baseVars, handles
    <3>2. RunOver(r, "stopped") \/ UNCHANGED <<run, isSet, left>>
      BY <2>4, CallerOrRun DEF CloseIsNoOp
    <3> QED
      BY <1>4, <3>1, <3>2
  <2> QED
    BY <1>5, <2>1, <2>2, <2>3, <2>4 DEF RunStep
<1>6. ASSUME NEW t \in Tasks, OpenWaits(t) \/ WaitReturns(t)
      PROVE  TaskInv'
  <2>1. UNCHANGED <<run, isSet, left>>
    BY <1>6 DEF OpenWaits, WaitReturns
  <2> QED
    BY <1>6, <2>1, TaskWaits
<1>7. ASSUME NEW t \in Tasks, OpenWithoutNursery(t)
      PROVE  TaskInv'
  <2>1. /\ state = DISCONNECTED /\ state' = DISCONNECTED
        /\ pc' = [pc EXCEPT ![t] = "idle"] /\ pc[t] \notin {"opening", "closing"}
    BY <1>7, TaskMovesState
  <2>2. UNCHANGED <<scope, event, isSet, run, opens, awaits, left>>
    BY <1>7 DEF OpenWithoutNursery, handles
  <2> QED
    BY <1>0, <2>1, <2>2
<1>8. ASSUME NEW t \in Tasks, OpenStarts(t)
      PROVE  TaskInv'
  <2>1. PICK r \in FreshRuns :
          /\ event' = r /\ isSet' = isSet \ {r} /\ left' = left \ {r}
          /\ run' = [run EXCEPT ![r] = "starting"]
          /\ opens' = [opens EXCEPT ![t] = r]
    BY <1>8 DEF OpenStarts
  <2>2. r \in Runs /\ run[r] \notin {"starting", "running"}
    BY DEF FreshRuns
  <2>3. /\ state = DISCONNECTED /\ state' = CONNECTING
        /\ pc' = [pc EXCEPT ![t] = "opening"]
        /\ \A u \in Tasks : pc[u] \notin {"opening", "closing"}
        /\ UNCHANGED <<scope, awaits>>
    BY <1>8, TaskMovesState, StateIsAsFound DEF OpenStarts
  <2> QED
    BY <1>0, <2>1, <2>2, <2>3
<1>9. ASSUME NEW t \in Tasks, OpenSucceeds(t)
      PROVE  TaskInv'
  <2>1. /\ state = CONNECTING /\ state' = CONNECTED
        /\ pc[t] = "opening" /\ pc' = [pc EXCEPT ![t] = "idle"]
        /\ \A u \in Tasks : pc[u] # "closing" /\ (pc[u] = "opening" => u = t)
    BY <1>9, TaskMovesState, StateIsAsFound
  <2> QED
    BY <1>0, <1>9, <2>1 DEF OpenSucceeds
<1>10. ASSUME NEW t \in Tasks, OpenFails(t)
       PROVE  TaskInv'
  <2>1. /\ state = CONNECTING /\ state' = DISCONNECTED
        /\ pc[t] = "opening" /\ pc' = [pc EXCEPT ![t] = "idle"]
        /\ \A u \in Tasks : pc[u] # "closing" /\ (pc[u] = "opening" => u = t)
    BY <1>10, TaskMovesState, StateIsAsFound
  <2> QED
    BY <1>0, <1>10, <2>1 DEF OpenFails, handles
<1>11. ASSUME NEW t \in Tasks, CloseWaits(t)
       PROVE  TaskInv'
  <2>1. ComesToClose(t)
    BY <1>11 DEF CloseWaits
  <2> QED
    BY <1>11, <2>1, CallerOrRun, RunOverStep, TaskWaits
<1>12. ASSUME NEW t \in Tasks, CloseStarts(t)
       PROVE  TaskInv'
  <2>1. /\ state = CONNECTED /\ state' = DISCONNECTING
        /\ pc' = [pc EXCEPT ![t] = "closing"]
        /\ \A u \in Tasks : pc[u] \notin {"opening", "closing"}
    BY <1>12, TaskMovesState, StateIsAsFound
  <2>2. /\ ComesToClose(t) /\ scope # None /\ scope' = None
        /\ awaits' = [awaits EXCEPT ![t] = event] /\ UNCHANGED <<event, opens>>
    BY <1>12 DEF CloseStarts
  <2> QED
    BY <1>0, <2>1, <2>2, CallerOrRun, RunOverStep
<1>13. ASSUME NEW t \in Tasks, CloseAtOnce(t)
       PROVE  TaskInv'
  <2>1. /\ state = CONNECTED /\ state' = DISCONNECTED
        /\ pc' = [pc EXCEPT ![t] = "idle"]
        /\ \A u \in Tasks : pc[u] \notin {"opening", "closing"}
    BY <1>13, TaskMovesState, StateIsAsFound
  <2>2. ComesToClose(t) /\ scope = None /\ UNCHANGED <<scope, event, opens, awaits>>
    BY <1>13 DEF CloseAtOnce, handles
  <2> QED
    BY <1>0, <2>1, <2>2, CallerOrRun, RunOverStep
<1>14. ASSUME NEW t \in Tasks, NEW ok \in BOOLEAN, CloseEnds(t, ok)
       PROVE  TaskInv'
  <2>1. /\ state = DISCONNECTING /\ state' = IF ok THEN DISCONNECTED ELSE CONNECTED
        /\ pc[t] = "closing" /\ pc' = [pc EXCEPT ![t] = "idle"]
        /\ \A u \in Tasks : pc[u] # "opening" /\ (pc[u] = "closing" => u = t)
    BY <1>14, TaskMovesState, StateIsAsFound
  <2> QED
    BY <1>0, <1>14, <2>1 DEF CloseEnds, Loses, handles
<1>15. ASSUME NEW t \in Tasks, Cancelled(t)
       PROVE  TaskInv'
  <2>1. UNCHANGED <<isSet, left>> /\ Loses(t)
    BY <1>15 DEF Cancelled
  <2> QED
    BY <1>15, <2>1, TaskWaits DEF Loses
<1> QED
  BY <1>1, <1>2, <1>5, <1>6, <1>7, <1>8, <1>9, <1>10, <1>11, <1>12, <1>13, <1>14, <1>15
     DEF Next, OpenStep, CloseStep, Tasks

(* The invariant holds throughout. *)
LEMMA TaskInvariant == ASSUME Disciplined PROVE Spec => [](ConnectionInv /\ TaskInv)
<1>1. Init => TaskInv
  BY RunsAreTasks, RunAssumption
     DEF Init, Base!Init, TaskInv, TaskTypeOK, HoldersAgree, ServingRunIsKnown, SetMeansOver,
         Base!DISCONNECTED, CONNECTED
<1>2. ConnectionInv /\ TaskInv /\ [Next]_vars => TaskInv'
  BY TaskInvStep
<1> QED
  BY <1>1, <1>2, TaskConnectionInvariant, PTL DEF Spec

(* Disciplined callers leave no run behind except through a close() that   *)
(* was cancelled: otherwise a connection that says that it is closed has   *)
(* no run, and two runs never overlap, even if close() is cancelled, runs  *)
(* fail and the nursery is lost.                                           *)
THEOREM ClosedConnectionIsStopped ==
    ASSUME Disciplined PROVE Spec => []ClosedMeansStopped
<1>1. ASSUME ConnectionInv, TaskInv PROVE ClosedMeansStopped
  <2> USE RunAssumption
      DEF TaskInv, HoldersAgree, ServingRunIsKnown, Active, DISCONNECTED, CONNECTED, CONNECTING,
          DISCONNECTING
  <2>1. \A t \in Tasks : opens[t] # None => state = CONNECTING
    BY <1>1, StateIsAsFound
  <2>2. \A r \in Runs : Active(r) /\ r \notin left =>
          event = r /\ state \in {CONNECTING, CONNECTED, DISCONNECTING}
    BY <1>1, <2>1
  <2> QED
    BY <2>2 DEF ClosedMeansStopped
<1> QED
  BY <1>1, TaskInvariant, PTL

(* The run r keeps the connection open: it runs, or it is over and will    *)
(* close it, or it raised and will not, or a close() has given it up.      *)
Kept(r) ==
    \/ run[r] \in {"running", "crashed"}
    \/ pc[r] = "closeQueued"
    \/ r \in left

(* The run that open() waits for has not started yet, or it keeps the      *)
(* connection open; and so does the one whose event an open connection     *)
(* has.                                                                    *)
KeptInv ==
    /\ \A t \in Tasks : opens[t] # None => run[opens[t]] \in {"starting", "failed"} \/ Kept(opens[t])
    /\ state = CONNECTED => event # None /\ Kept(event)

(* A run that comes to close() while the connection is being opened queues *)
(* up; it leaves the queue for its own attempt, or together with its       *)
(* nursery.                                                                *)
LEMMA WaitingKeeps ==
    ASSUME ConnectionInv, TaskInv, NEW t \in Tasks,
           OpenWaits(t) \/ CloseWaits(t) \/ WaitReturns(t) \/ Cancelled(t),
           state \in {CONNECTED, CONNECTING}, NEW r \in Runs
    PROVE  /\ Kept(r) => Kept(r)'
           /\ run[r] \in {"starting", "failed"} => run'[r] \in {"starting", "failed"} \/ Kept(r)'
<1>1. DOMAIN pc = Tasks /\ DOMAIN run = Runs /\ Tasks = Tasks /\ r \in Tasks
  BY RunsAreTasks DEF ConnectionInv, BaseProofs!TypeOK, TaskInv, TaskTypeOK
<1> USE <1>1
    DEF Kept, CONNECTED, CONNECTING, Base!CONNECTED, Base!CONNECTING, Base!DISCONNECTING,
        Base!Goto
<1>2. CASE OpenWaits(t)
  BY <1>2 DEF OpenWaits, Base!OpenJoins, Base!OpenQueues, Base!Block
<1>3. CASE CloseWaits(t)
  <2>1. pc[t] = "idle" /\ pc' = [pc EXCEPT ![t] = "closeQueued"] /\ ComesToClose(t)
    BY <1>3 DEF CloseWaits, Base!CloseJoins, Base!CloseQueues, Base!Block
  <2> QED
    BY <2>1, CallerOrRun, RunOverStep DEF RunOver
<1>4. CASE WaitReturns(t)
  BY <1>4 DEF WaitReturns, Base!WaitReturns, Base!Resume
<1>5. CASE Cancelled(t)
  BY <1>5 DEF Cancelled, Base!Cancelled, Loses
<1> QED
  BY <1>2, <1>3, <1>4, <1>5

(* Every step keeps the invariant. *)
LEMMA KeptStep ==
    ASSUME ConnectionInv, TaskInv, KeptInv, [Next]_vars
    PROVE  KeptInv'
<1> USE RunAssumption, RunsAreTasks
    DEF TaskInv, TaskTypeOK, HoldersAgree, KeptInv, DISCONNECTED, CONNECTED, CONNECTING,
        DISCONNECTING
<1>0. /\ DOMAIN pc = Tasks
      /\ \A u \in Tasks : opens[u] # None => state = CONNECTING
  BY StateIsAsFound DEF ConnectionInv, BaseProofs!TypeOK
<1>1. CASE UNCHANGED vars
  BY <1>1 DEF vars, baseVars, handles, Kept
<1>2. CASE AssignNursery
  BY <1>0, <1>2 DEF AssignNursery, DISCONNECTED, baseVars
<1>3. ASSUME NEW r \in Runs, Started(r)
      PROVE  KeptInv'
  BY <1>3 DEF Started, baseVars, handles, Kept
<1>4. ASSUME NEW r \in Runs, RunFails(r) \/ RunRaises(r)
      PROVE  KeptInv'
  BY <1>4 DEF RunFails, RunRaises, EventIsSet, baseVars, handles, Kept, ServingRunIsKnown
<1>5. ASSUME NEW r \in Runs, CloseIsNoOp(r)
      PROVE  KeptInv'
  BY <1>0, <1>5 DEF CloseIsNoOp, DISCONNECTED, baseVars
<1>6. ASSUME NEW t \in Tasks,
             OpenWaits(t) \/ CloseWaits(t) \/ WaitReturns(t) \/ Cancelled(t)
      PROVE  KeptInv'
  <2>1. UNCHANGED <<state, event, opens>>
    BY <1>6, TaskWaits
  <2>2. \A r \in Runs : state \in {CONNECTED, CONNECTING} =>
          /\ Kept(r) => Kept(r)'
          /\ run[r] \in {"starting", "failed"} => run'[r] \in {"starting", "failed"} \/ Kept(r)'
    BY <1>6, WaitingKeeps
  <2> QED
    BY <1>0, <2>1, <2>2
<1>7. ASSUME NEW t \in Tasks, OpenWithoutNursery(t)
      PROVE  KeptInv'
  <2>1. state = DISCONNECTED /\ state' = DISCONNECTED /\ UNCHANGED opens
    BY <1>7, TaskMovesState DEF OpenWithoutNursery
  <2> QED
    BY <1>0, <2>1
<1>8. ASSUME NEW t \in Tasks, OpenStarts(t)
      PROVE  KeptInv'
  <2>1. PICK r \in Runs : /\ run' = [run EXCEPT ![r] = "starting"]
                          /\ opens' = [opens EXCEPT ![t] = r]
    BY <1>8 DEF OpenStarts, FreshRuns
  <2>2. state = DISCONNECTED /\ state' = CONNECTING
    BY <1>8, TaskMovesState
  <2> QED
    BY <1>0, <2>1, <2>2
<1>9. ASSUME NEW t \in Tasks, OpenSucceeds(t)
      PROVE  KeptInv'
  <2>1. /\ pc[t] = "opening" /\ pc' = [pc EXCEPT ![t] = "idle"]
        /\ \A u \in Tasks : opens[u] # None => u = t
    BY <1>9, TaskMovesState, StateIsAsFound
  <2> QED
    BY <1>0, <1>9, <2>1 DEF OpenSucceeds, Kept
<1>10. ASSUME NEW t \in Tasks, OpenFails(t)
       PROVE  KeptInv'
  <2>1. /\ state' = DISCONNECTED /\ pc[t] = "opening"
        /\ \A u \in Tasks : opens[u] # None => u = t
    BY <1>10, TaskMovesState, StateIsAsFound
  <2> QED
    BY <1>10, <2>1 DEF OpenFails
<1>11. ASSUME NEW t \in Tasks, CloseStarts(t) \/ CloseAtOnce(t)
       PROVE  KeptInv'
  <2>1. state = CONNECTED /\ state' \in {DISCONNECTING, DISCONNECTED} /\ UNCHANGED opens
    BY <1>11, TaskMovesState DEF CloseStarts, CloseAtOnce
  <2> QED
    BY <1>0, <2>1
<1>12. ASSUME NEW t \in Tasks, NEW ok \in BOOLEAN, CloseEnds(t, ok)
       PROVE  KeptInv'
  <2>1. /\ state = DISCONNECTING /\ state' = IF ok THEN DISCONNECTED ELSE CONNECTED
        /\ pc[t] = "closing" /\ UNCHANGED <<event, opens>>
    <3>1. /\ state = DISCONNECTING /\ state' = IF ok THEN DISCONNECTED ELSE CONNECTED
          /\ pc[t] = "closing"
      BY <1>12, TaskMovesState
    <3>2. UNCHANGED <<event, opens>>
      BY <1>12 DEF CloseEnds, handles
    <3> QED
      BY <3>1, <3>2
  <2>2. ~ok => event # None /\ event \in left'
    BY <1>12, <2>1 DEF CloseEnds
  <2> QED
    BY <1>0, <2>1, <2>2 DEF Kept
<1> QED
  BY <1>1, <1>2, <1>3, <1>4, <1>5, <1>6, <1>7, <1>8, <1>9, <1>10, <1>11, <1>12
     DEF Next, RunStep, OpenStep, CloseStep, Tasks

(* Disciplined callers find a run behind an open connection, or one that   *)
(* is about to close it, unless it raised, lost its nursery or was given   *)
(* up by a close() that was cancelled.                                     *)
THEOREM OpenConnectionIsKept == ASSUME Disciplined PROVE Spec => []OpenMeansRunning
<1>1. Init => KeptInv
  BY RunsAreTasks DEF Init, Base!Init, KeptInv, Base!DISCONNECTED, CONNECTED
<1>2. ConnectionInv /\ TaskInv /\ KeptInv /\ [Next]_vars => KeptInv'
  BY KeptStep
<1>3. TaskInv /\ KeptInv => OpenMeansRunning
  BY DEF TaskInv, TaskTypeOK, KeptInv, Kept, OpenMeansRunning, CONNECTED
<1> QED
  BY <1>1, <1>2, <1>3, TaskInvariant, PTL DEF Spec

-----------------------------------------------------------------------------
(***************************************************************************)
(* Supervision                                                             *)
(***************************************************************************)

Commands == [op : {"add", "remove"}, conn : Conns]

(***************************************************************************)
(* What the operations on the queue and on the spawned tasks do, element   *)
(* by element                                                              *)
(***************************************************************************)

(* Every element of s without the one at i was in s, at a place other than *)
(* i, and different places stay different.                                 *)
LEMMA RemoveAtElements ==
    ASSUME NEW S, NEW s \in Seq(S), NEW i \in DOMAIN s
    PROVE  /\ RemoveAt(s, i) \in Seq(S)
           /\ DOMAIN RemoveAt(s, i) = 1 .. (Len(s) - 1)
           /\ \A j \in 1 .. (Len(s) - 1) :
                RemoveAt(s, i)[j] = IF j < i THEN s[j] ELSE s[j + 1]
<1> DEFINE a == SubSeq(s, 1, i - 1)
           b == SubSeq(s, i + 1, Len(s))
<1>1. i \in 1 .. Len(s) /\ Len(s) \in Nat
  BY LenProperties
<1>2. /\ a \in Seq(S) /\ Len(a) = i - 1
      /\ \A j \in 1 .. (i - 1) : a[j] = s[j]
  BY <1>1, SubSeqProperties, ElementOfSeq
<1>3. /\ b \in Seq(S) /\ Len(b) = Len(s) - i
      /\ \A j \in 1 .. (Len(s) - i) : b[j] = s[i + j]
  BY <1>1, SubSeqProperties, ElementOfSeq
<1>4. RemoveAt(s, i) = a \o b
  BY DEF RemoveAt
<1>5. /\ a \o b \in Seq(S)
      /\ Len(a \o b) = Len(s) - 1
  <2> HIDE DEF a, b
  <2> QED
    BY <1>1, <1>2, <1>3, ConcatProperties
<1>6. ASSUME NEW j \in 1 .. (Len(s) - 1)
      PROVE  (a \o b)[j] = IF j < i THEN s[j] ELSE s[j + 1]
  <2> HIDE DEF a, b
  <2>1. (a \o b)[j] = IF j <= Len(a) THEN a[j] ELSE b[j - Len(a)]
    BY <1>1, <1>2, <1>3, ConcatProperties
  <2>2. CASE j < i
    BY <1>1, <1>2, <2>1, <2>2
  <2>3. CASE j >= i
    <3>1. j - Len(a) \in 1 .. (Len(s) - i) /\ i + (j - Len(a)) = j + 1
      BY <1>1, <1>2, <2>3
    <3>2. b[j - Len(a)] = s[j + 1]
      BY <1>3, <3>1
    <3>3. ~(j <= Len(a)) /\ ~(j < i)
      BY <1>1, <1>2, <2>3
    <3> QED
      BY <2>1, <3>2, <3>3
  <2>4. j < i \/ j >= i
    BY <1>1
  <2> QED
    BY <2>2, <2>3, <2>4
<1>7. DOMAIN (a \o b) = 1 .. (Len(s) - 1)
  BY <1>5, LenProperties
<1> QED
  BY <1>4, <1>5, <1>6, <1>7

LEMMA AppendElements ==
    ASSUME NEW S, NEW s \in Seq(S), NEW e \in S
    PROVE  /\ Append(s, e) \in Seq(S)
           /\ DOMAIN Append(s, e) = 1 .. (Len(s) + 1)
           /\ Len(s) \in Nat
           /\ DOMAIN s = 1 .. Len(s)
           /\ \A j \in 1 .. Len(s) : Append(s, e)[j] = s[j]
           /\ Append(s, e)[Len(s) + 1] = e
  BY AppendProperties, LenProperties

LEMMA TailElements ==
    ASSUME NEW S, NEW s \in Seq(S), s # <<>>
    PROVE  /\ Tail(s) \in Seq(S)
           /\ Len(s) \in Nat
           /\ DOMAIN s = 1 .. Len(s)
           /\ 1 \in DOMAIN s
           /\ Head(s) = s[1]
           /\ DOMAIN Tail(s) = 1 .. (Len(s) - 1)
           /\ \A j \in 1 .. (Len(s) - 1) : Tail(s)[j] = s[j + 1]
  BY EmptySeq, HeadTailProperties, LenProperties

(* Every command is about a connection. *)
LEMMA CommandsHaveConns ==
    ASSUME NEW s \in Seq(Commands), NEW i \in DOMAIN s
    PROVE  s[i] \in Commands /\ s[i].conn \in Conns
<1>1. i \in 1 .. Len(s)
  BY LenProperties
<1>2. s[i] \in Commands
  BY <1>1, ElementOfSeq
<1> QED
  BY <1>2 DEF Commands

-----------------------------------------------------------------------------
(***************************************************************************)
(* The loops and their connections                                         *)
(***************************************************************************)

(* The values that the state of a loop ranges over. *)
LoopTypeOK ==
    /\ conn \in [Conns -> ConnectionState]
    /\ phase \in [Conns -> Looping \cup {"out"}]
    /\ closing \in [Conns -> {"no", "stop", "raise", "cancelled"}]
    /\ others \in [Conns -> {"no", "opening", "closing"}]

(* Only what is in a loop can be cancelled or be under supervise() itself, *)
(* and only a close() with a checkpoint is ever seen under way.            *)
ScopesMatchLoops ==
    /\ cancelled \subseteq Loops
    /\ direct \subseteq Loops
    /\ \A c \in Conns : closing[c] # "no" => c \in Checkpointing

LoopInv == LoopTypeOK /\ ScopesMatchLoops /\ OneAttemptAtATime

(* A connection under supervise() itself is not known to the supervisor:   *)
(* no task of the supervisor is about to enter a loop for it.              *)
DirectIsUnknown ==
    /\ \A i \in DOMAIN spawned : spawned[i].conn \notin direct
    /\ \A i \in DOMAIN queue : queue[i].op = "add" => queue[i].conn \notin direct

(* When the nursery is cancelled, every loop of the supervisor is, and the *)
(* other scopes stay as they are.                                          *)
LEMMA StopKeepsScopes ==
    ASSUME LoopInv, NEW loops \in SUBSET Loops,
           NEW closings \in [Conns -> {"no", "stop", "raise", "cancelled"}],
           StopsRunning(loops, closings)
    PROVE  /\ cancelled' \subseteq loops
           /\ closing' \in [Conns -> {"no", "stop", "raise", "cancelled"}]
           /\ \A c \in Conns : closing'[c] = "no" <=> closings[c] = "no"
  BY DEF StopsRunning

LEMMA EndKeepsScopes ==
    ASSUME LoopInv, NEW own, NEW why, NEW loops \in SUBSET Loops,
           NEW closings \in [Conns -> {"no", "stop", "raise", "cancelled"}],
           NEW waits, TaskEnds(own, why, loops, closings, waits)
    PROVE  /\ cancelled' \subseteq loops
           /\ closing' \in [Conns -> {"no", "stop", "raise", "cancelled"}]
           /\ \A c \in Conns : closing'[c] = "no" <=> closings[c] = "no"
  BY StopKeepsScopes DEF TaskEnds

(* The loop of c is left: what the other parts of the state see of it. *)
LEMMA ExitKeepsInv ==
    ASSUME LoopInv, NEW c \in Conns, phase[c] \in Looping,
           NEW s \in ConnectionState, NEW why \in {"stop", "raise", "cancelled"},
           \/ phase[c] = "opening" /\ s \in {DISCONNECTED, CONNECTED}
           \/ phase[c] # "opening" /\ s = conn[c],
           Exits(c, s, why)
    PROVE  /\ LoopInv'
           /\ c \in shouldClose \ Checkpointing /\ others[c] = "no" => conn'[c] = DISCONNECTED
           /\ \A d \in Conns \ {c} : phase'[d] = phase[d]
<1> DEFINE closes == c \in shouldClose /\ s = CONNECTED
           joins  == c \in shouldClose /\ s = DISCONNECTING /\ why = "raise"
<1>0. ASSUME TaskEnds(c \notin direct, why, Loops \ {c}, closing, joined)
      PROVE  /\ cancelled' \subseteq Loops \ {c}
             /\ closing' \in [Conns -> {"no", "stop", "raise", "cancelled"}]
             /\ \A d \in Conns : closing'[d] = "no" <=> closing[d] = "no"
  <2>1. closing \in [Conns -> {"no", "stop", "raise", "cancelled"}]
    BY DEF LoopInv, LoopTypeOK
  <2>2. Loops \ {c} \in SUBSET Loops
    OBVIOUS
  <2> QED
    BY <1>0, <2>1, <2>2, EndKeepsScopes
<1> USE DEF LoopInv, LoopTypeOK, ScopesMatchLoops, OneAttemptAtATime, Loops, Looping,
            ConnectionState, DISCONNECTED, CONNECTING, CONNECTED, DISCONNECTING
<1>1. /\ phase' = [phase EXCEPT ![c] = "out"]
      /\ direct' = direct \ {c}
      /\ UNCHANGED others
  BY DEF Exits
<1>2. CASE closes /\ c \in Checkpointing
  <2>1. /\ conn' = [conn EXCEPT ![c] = DISCONNECTING]
        /\ closing' = [closing EXCEPT ![c] = why]
        /\ cancelled' = cancelled \ {c}
    BY <1>2 DEF Exits
  <2> QED
    BY <1>1, <1>2, <2>1
<1>3. CASE joins
  <2>1. /\ conn' = [conn EXCEPT ![c] = s]
        /\ cancelled' = cancelled \ {c}
        /\ UNCHANGED closing
    BY <1>3 DEF Exits
  <2> QED
    BY <1>1, <1>3, <2>1
<1>4. CASE ~(closes /\ c \in Checkpointing) /\ ~joins
  <2>1. /\ conn' = [conn EXCEPT ![c] = IF closes THEN DISCONNECTED ELSE s]
        /\ TaskEnds(c \notin direct, why, Loops \ {c}, closing, joined)
    BY <1>4 DEF Exits
  <2>2. /\ cancelled' \subseteq Loops \ {c}
        /\ closing' \in [Conns -> {"no", "stop", "raise", "cancelled"}]
        /\ \A d \in Conns : closing'[d] = "no" <=> closing[d] = "no"
    BY <1>0, <2>1
  <2>3. LoopTypeOK' /\ ScopesMatchLoops'
    BY <1>1, <2>1, <2>2
  <2>4. OneAttemptAtATime'
    BY <1>1, <2>1, <2>2
  <2> QED
    BY <1>1, <1>4, <2>1, <2>3, <2>4
<1> QED
  BY <1>2, <1>3, <1>4

(* open() at the head of the loop of c. *)
LEMMA EntryKeepsInv ==
    ASSUME LoopInv, NEW c \in Conns, phase[c] # "opening",
           EntersOpen(c), UNCHANGED <<cancelled, closing, others>>,
           direct' \subseteq direct \cup {c}
    PROVE  LoopInv'
  BY DEF EntersOpen, LoopInv, LoopTypeOK, ScopesMatchLoops, OneAttemptAtATime, Loops,
         Looping, ConnectionState, DISCONNECTED, CONNECTING, CONNECTED, DISCONNECTING

(* Every step of the supervisor, the loops and their callers keeps the     *)
(* invariant.                                                              *)
LEMMA LoopInvStep ==
    ASSUME LoopInv, DirectIsUnknown, spawned \in Seq(Commands), [SupervisorNext]_allVars
    PROVE  LoopInv'
<1> DEFINE Closings == [Conns -> {"no", "stop", "raise", "cancelled"}]
<1>1. ASSUME UNCHANGED <<conn, phase, cancelled, closing, direct, others>>
      PROVE  LoopInv'
  BY <1>1 DEF LoopInv, LoopTypeOK, ScopesMatchLoops, OneAttemptAtATime, Loops
<1>2. ASSUME StopsRunning(Loops, closing), UNCHANGED <<loopVars, direct, others>>
      PROVE  LoopInv'
  <2>1. closing \in Closings
    BY DEF LoopInv, LoopTypeOK
  <2>2. /\ cancelled' \subseteq Loops
        /\ closing' \in Closings
        /\ \A c \in Conns : closing'[c] = "no" <=> closing[c] = "no"
    BY <1>2, <2>1, StopKeepsScopes
  <2> QED
    BY <1>2, <2>2 DEF LoopInv, LoopTypeOK, ScopesMatchLoops, OneAttemptAtATime, Loops, loopVars
<1>3. ASSUME NEW c \in Conns, LeavesQueue(c) \/ WakesUp(c)
      PROVE  LoopInv'
  BY <1>3, EntryKeepsInv DEF LeavesQueue, WakesUp, scopeVars
<1>4. ASSUME NEW c \in Conns, Opened(c) \/ Lost(c) \/ LostBegins(c) \/ OpensItself(c)
      PROVE  LoopInv'
  BY <1>4 DEF Opened, Lost, LostBegins, OpensItself, scopeVars, LoopInv, LoopTypeOK, ScopesMatchLoops,
              OneAttemptAtATime, Loops, Looping, ConnectionState,
              DISCONNECTED, CONNECTING, CONNECTED, DISCONNECTING
<1>5. ASSUME NEW c \in Conns, NEW s \in ConnectionState, Delays(c, s)
      PROVE  LoopInv'
  BY <1>5 DEF Delays, AfterBody, scopeVars, LoopInv, LoopTypeOK, ScopesMatchLoops,
              OneAttemptAtATime, Loops, Looping, ConnectionState,
              DISCONNECTED, CONNECTING, CONNECTED, DISCONNECTING
<1>6. ASSUME NEW c \in Conns, NEW s \in ConnectionState, NEW why \in {"stop", "raise"},
             Stops(c, s, why)
      PROVE  LoopInv'
  BY <1>6, ExitKeepsInv DEF Stops, AfterBody, Looping
<1>7. ASSUME NEW c \in Conns, Unwinds(c)
      PROVE  LoopInv'
  <2> DEFINE s == IF phase[c] = "opening" THEN DISCONNECTED ELSE conn[c]
  <2>1. s \in ConnectionState /\ phase[c] \in Looping /\ Exits(c, s, "cancelled")
    BY <1>7 DEF Unwinds, LoopInv, LoopTypeOK, ConnectionState
  <2> QED
    BY <2>1, ExitKeepsInv
<1>8. ASSUME NEW c \in Conns, ClosingEnds(c)
      PROVE  LoopInv'
  <2> DEFINE rest == [closing EXCEPT ![c] = "no"]
  <2>1. rest \in Closings
    BY DEF LoopInv, LoopTypeOK
  <2>2. PICK waits : TaskEnds(TRUE, closing[c], Loops, rest, waits)
    BY <1>8 DEF ClosingEnds
  <2>3. /\ cancelled' \subseteq Loops
        /\ closing' \in Closings
        /\ \A d \in Conns : closing'[d] = "no" <=> rest[d] = "no"
    BY <2>1, <2>2, EndKeepsScopes
  <2> QED
    BY <1>8, <2>3 DEF ClosingEnds, LoopInv, LoopTypeOK, ScopesMatchLoops,
              OneAttemptAtATime, Loops, ConnectionState,
              DISCONNECTED, CONNECTING, CONNECTED, DISCONNECTING
<1>9. ASSUME NEW c \in Conns, Accepts(c) \/ SendsAdd(c) \/ SendsRemove(c)
      PROVE  LoopInv'
  BY <1>1, <1>9 DEF Accepts, SendsAdd, SendsRemove, Send, loopVars, scopeVars
<1>10. ASSUME NEW c \in Conns, CallsSupervise(c)
       PROVE  LoopInv'
  BY <1>10, EntryKeepsInv DEF CallsSupervise
<1>11. ASSUME NEW c \in Conns, CancelsSupervise(c)
       PROVE  LoopInv'
  BY <1>11 DEF CancelsSupervise, loopVars, LoopInv, LoopTypeOK, ScopesMatchLoops,
               OneAttemptAtATime, Loops
<1>12. CASE HandleAdd \/ ClientEnds
  BY <1>1, <1>12 DEF HandleAdd, ClientEnds, loopVars, scopeVars
<1>13. CASE HandleRemove
  BY <1>13 DEF HandleRemove, Entries, loopVars, LoopInv, LoopTypeOK, ScopesMatchLoops,
               OneAttemptAtATime, Loops
<1>14. ASSUME NEW i \in DOMAIN spawned, StartsSupervising(i)
       PROVE  LoopInv'
  <2> DEFINE c == spawned[i].conn
  <2>1. c \in Conns
    BY CommandsHaveConns
  <2>2. c \notin Entries /\ c \notin direct
    BY <1>14 DEF StartsSupervising, DirectIsUnknown
  <2>3. phase[c] # "opening"
    BY <2>1, <2>2 DEF Entries, Loops, Looping
  <2> QED
    BY <1>14, <2>1, <2>3, EntryKeepsInv DEF StartsSupervising
<1>15. ASSUME NEW i \in DOMAIN spawned, AssertionFails(i) \/ TaskIsMissing(i)
       PROVE  LoopInv'
  BY <1>2, <1>15 DEF AssertionFails, TaskIsMissing
<1>16. CASE Shutdown \/ ClientRaises
  BY <1>2, <1>16 DEF Shutdown, ClientRaises
<1>17. CASE UNCHANGED allVars
  BY <1>1, <1>17 DEF allVars, loopVars, scopeVars
<1>18. ASSUME NEW c \in Conns, JoinEnds(c)
       PROVE  LoopInv'
  BY <1>2, <1>18 DEF JoinEnds
<1>19. ASSUME NEW c \in Conns, NEW s \in ConnectionState, LostEnds(c, s) \/ OpeningEnds(c, s)
       PROVE  LoopInv'
  BY <1>19 DEF LostEnds, OpeningEnds, scopeVars, LoopInv, LoopTypeOK, ScopesMatchLoops,
              OneAttemptAtATime, Loops, Looping, ConnectionState,
              DISCONNECTED, CONNECTING, CONNECTED, DISCONNECTING
<1> QED
  BY <1>3, <1>4, <1>5, <1>6, <1>7, <1>8, <1>9, <1>10, <1>11, <1>12, <1>13, <1>14, <1>15,
     <1>16, <1>17, <1>18, <1>19
  DEF SupervisorNext, LoopStep, OthersStep, CallerStep, SupervisorStep, TaskStep

-----------------------------------------------------------------------------
(***************************************************************************)
(* The commands in flight                                                  *)
(***************************************************************************)

FlightInv ==
    /\ queue \in Seq(Commands)
    /\ spawned \in Seq(Commands)
    /\ DirectIsUnknown

(* Steps that leave the commands alone, or drop the tasks that were not    *)
(* started, and call no supervise().                                       *)
LEMMA FlightKept ==
    ASSUME FlightInv, UNCHANGED queue, spawned' \in {spawned, <<>>}, direct' \subseteq direct
    PROVE  FlightInv'
<1>1. <<>> \in Seq(Commands) /\ DOMAIN <<>> = {}
  OBVIOUS
<1>2. CASE spawned' = spawned
  BY <1>2 DEF FlightInv, DirectIsUnknown
<1>3. CASE spawned' = <<>>
  BY <1>1, <1>3 DEF FlightInv, DirectIsUnknown
<1> QED
  BY <1>2, <1>3

(* A command is put into the queue. *)
LEMMA FlightSend ==
    ASSUME FlightInv, NEW c \in Conns, SendsAdd(c) \/ SendsRemove(c)
    PROVE  FlightInv'
<1>1. PICK op \in {"add", "remove"} :
        /\ queue' = Append(queue, [op |-> op, conn |-> c])
        /\ op = "add" => c \notin direct
        /\ UNCHANGED <<direct, spawned>>
  BY DEF SendsAdd, SendsRemove, Send, Command, scopeVars
<1> DEFINE e == [op |-> op, conn |-> c]
<1>2. e \in Commands /\ e.op = op /\ e.conn = c
  BY DEF Commands
<1> HIDE DEF e
<1>3. /\ queue' \in Seq(Commands)
      /\ DOMAIN queue' = 1 .. (Len(queue) + 1)
      /\ Len(queue) \in Nat
      /\ DOMAIN queue = 1 .. Len(queue)
      /\ \A j \in 1 .. Len(queue) : queue'[j] = queue[j]
      /\ queue'[Len(queue) + 1] = e
  BY <1>1, <1>2, AppendElements DEF FlightInv, e
<1>4. DirectIsUnknown'
  BY <1>1, <1>2, <1>3 DEF FlightInv, DirectIsUnknown
<1> QED
  BY <1>1, <1>3, <1>4 DEF FlightInv

(* "remove" leaves the queue, and "add" moves to a spawned task. *)
LEMMA FlightHandle ==
    ASSUME FlightInv, HandleAdd \/ HandleRemove
    PROVE  FlightInv'
<1> DEFINE e == queue[1]
<1>1. queue # <<>> /\ queue' = Tail(queue) /\ UNCHANGED direct
  BY DEF HandleAdd, HandleRemove, scopeVars
<1>2. /\ queue' \in Seq(Commands)
      /\ Len(queue) \in Nat
      /\ DOMAIN queue = 1 .. Len(queue)
      /\ 1 \in DOMAIN queue
      /\ Head(queue) = e
      /\ DOMAIN queue' = 1 .. (Len(queue) - 1)
      /\ \A j \in 1 .. (Len(queue) - 1) : queue'[j] = queue[j + 1]
  BY <1>1, TailElements DEF FlightInv
<1>3. /\ spawned' \in Seq(Commands)
      /\ \A i \in DOMAIN spawned' : spawned'[i].conn \notin direct'
  <2>1. CASE HandleRemove
    BY <1>1, <2>1 DEF HandleRemove, FlightInv, DirectIsUnknown
  <2>2. CASE HandleAdd
    <3>1. e \in Commands /\ e.op = "add" /\ spawned' = Append(spawned, e)
      BY <1>2, <2>2, ElementOfSeq DEF HandleAdd, FlightInv
    <3>2. /\ spawned' \in Seq(Commands)
          /\ DOMAIN spawned' = 1 .. (Len(spawned) + 1)
          /\ Len(spawned) \in Nat
          /\ DOMAIN spawned = 1 .. Len(spawned)
          /\ \A j \in 1 .. Len(spawned) : spawned'[j] = spawned[j]
          /\ spawned'[Len(spawned) + 1] = e
      BY <3>1, AppendElements DEF FlightInv
    <3> QED
      BY <1>1, <1>2, <3>1, <3>2 DEF FlightInv, DirectIsUnknown
  <2> QED
    BY <2>1, <2>2
<1>4. \A i \in DOMAIN queue' : queue'[i].op = "add" => queue'[i].conn \notin direct'
  BY <1>1, <1>2 DEF FlightInv, DirectIsUnknown
<1> QED
  BY <1>2, <1>3, <1>4 DEF FlightInv, DirectIsUnknown

(* A spawned task enters the loop. *)
LEMMA FlightStart ==
    ASSUME FlightInv, NEW i \in DOMAIN spawned, StartsSupervising(i)
    PROVE  FlightInv'
<1>1. spawned' = RemoveAt(spawned, i) /\ UNCHANGED <<queue, direct>>
  BY DEF StartsSupervising
<1>2. /\ spawned' \in Seq(Commands)
      /\ DOMAIN spawned' = 1 .. (Len(spawned) - 1)
      /\ \A j \in 1 .. (Len(spawned) - 1) :
            spawned'[j] = IF j < i THEN spawned[j] ELSE spawned[j + 1]
  BY <1>1, RemoveAtElements DEF FlightInv
<1>3. Len(spawned) \in Nat /\ DOMAIN spawned = 1 .. Len(spawned)
  BY LenProperties DEF FlightInv
<1>4. \A j \in DOMAIN spawned' : \E k \in DOMAIN spawned : spawned'[j] = spawned[k]
  BY <1>2, <1>3
<1> QED
  BY <1>1, <1>2, <1>4 DEF FlightInv, DirectIsUnknown

(* supervise() is called for a connection that no command is about. *)
LEMMA FlightDirect ==
    ASSUME FlightInv, NEW c \in Conns, CallsSupervise(c)
    PROVE  FlightInv'
  BY DEF CallsSupervise, InFlight, supervisorVars, FlightInv, DirectIsUnknown

(* Every step keeps the invariant of the commands. *)
LEMMA FlightInvStep ==
    ASSUME FlightInv, [SupervisorNext]_allVars
    PROVE  FlightInv'
<1> DEFINE Quiet == /\ UNCHANGED queue
                    /\ spawned' \in {spawned, <<>>}
                    /\ direct' \subseteq direct
<1>1. ASSUME NEW c \in Conns,
             LeavesQueue(c) \/ Opened(c) \/ WakesUp(c) \/ Accepts(c) \/ CancelsSupervise(c)
      PROVE  Quiet
  BY <1>1 DEF LeavesQueue, Opened, WakesUp, Accepts, CancelsSupervise, scopeVars, supervisorVars
<1>2. ASSUME NEW c \in Conns, NEW s \in ConnectionState, Delays(c, s)
      PROVE  Quiet
  BY <1>2 DEF Delays, scopeVars, supervisorVars
<1>3. ASSUME NEW c \in Conns, NEW s, NEW why, Exits(c, s, why)
      PROVE  Quiet
  BY <1>3 DEF Exits, TaskEnds, StopsRunning
<1>4. ASSUME NEW c \in Conns, NEW s \in ConnectionState, NEW why \in {"stop", "raise"},
             Stops(c, s, why)
      PROVE  Quiet
  BY <1>3, <1>4 DEF Stops
<1>5. ASSUME NEW c \in Conns, Unwinds(c)
      PROVE  Quiet
  BY <1>3, <1>5 DEF Unwinds
<1>6. ASSUME NEW c \in Conns, ClosingEnds(c) \/ JoinEnds(c)
      PROVE  Quiet
  BY <1>6 DEF ClosingEnds, JoinEnds, TaskEnds, StopsRunning
<1>7. ASSUME NEW i \in DOMAIN spawned, AssertionFails(i) \/ TaskIsMissing(i)
      PROVE  Quiet
  BY <1>7 DEF AssertionFails, TaskIsMissing, StopsRunning
<1>8. CASE Shutdown \/ ClientEnds \/ ClientRaises \/ UNCHANGED allVars
  <2>1. Quiet
    BY <1>8 DEF Shutdown, ClientEnds, ClientRaises, StopsRunning, allVars, scopeVars,
              supervisorVars
  <2> QED
    BY <2>1, FlightKept
<1>9. ASSUME NEW c \in Conns, OthersStep(c)
      PROVE  Quiet
  BY <1>9 DEF OthersStep, Lost, LostBegins, LostEnds, OpensItself, OpeningEnds, scopeVars,
              supervisorVars
<1>10. ASSUME NEW c \in Conns, LoopStep(c) \/ OthersStep(c) \/ Accepts(c) \/ CallerStep(c)
       PROVE  FlightInv'
  <2>1. CASE SendsAdd(c) \/ SendsRemove(c)
    BY <2>1, FlightSend
  <2>2. CASE CallsSupervise(c)
    BY <2>2, FlightDirect
  <2>3. CASE LoopStep(c) \/ OthersStep(c) \/ Accepts(c) \/ CancelsSupervise(c)
    <3>1. Quiet
      BY <2>3, <1>1, <1>2, <1>4, <1>5, <1>6, <1>9 DEF LoopStep
    <3> QED
      BY <3>1, FlightKept
  <2> QED
    BY <1>10, <2>1, <2>2, <2>3 DEF CallerStep
<1>11. CASE SupervisorStep
  <2>1. ASSUME NEW i \in DOMAIN spawned, AssertionFails(i) \/ TaskIsMissing(i)
        PROVE  FlightInv'
    BY <1>7, <2>1, FlightKept
  <2> QED
    BY <1>11, <2>1, FlightHandle, FlightStart DEF SupervisorStep, TaskStep
<1> QED
  BY <1>8, <1>10, <1>11 DEF SupervisorNext

(* Both invariants hold throughout. *)
LEMMA SupervisionInvariant == SupervisorSpec => [](LoopInv /\ FlightInv)
<1>1. SupervisorInit => LoopInv
  BY DEF SupervisorInit, LoopInv, LoopTypeOK, ScopesMatchLoops, OneAttemptAtATime, Loops, Looping,
         ConnectionState, DISCONNECTED, CONNECTING, CONNECTED, DISCONNECTING
<1>2. SupervisorInit => FlightInv
  <2>1. <<>> \in Seq(Commands) /\ DOMAIN <<>> = {}
    OBVIOUS
  <2> QED
    BY <2>1 DEF SupervisorInit, FlightInv, DirectIsUnknown
<1>3. LoopInv /\ FlightInv /\ [SupervisorNext]_allVars => LoopInv' /\ FlightInv'
  <2> SUFFICES ASSUME LoopInv, FlightInv, [SupervisorNext]_allVars
               PROVE  LoopInv' /\ FlightInv'
    OBVIOUS
  <2>1. LoopInv'
    BY LoopInvStep DEF FlightInv
  <2>2. FlightInv'
    BY FlightInvStep
  <2> QED
    BY <2>1, <2>2
<1> QED
  BY <1>1, <1>2, <1>3, PTL DEF SupervisorSpec

-----------------------------------------------------------------------------
(***************************************************************************)
(* The theorems                                                            *)
(***************************************************************************)

(* Whatever commands arrive in whatever order, whatever the policy says    *)
(* and whatever readers and owners do to the connections meanwhile, nobody *)
(* opens or closes a connection that another one is opening or closing.    *)
THEOREM AttemptsExclude == SupervisorSpec => []OneAttemptAtATime
<1>1. LoopInv => OneAttemptAtATime
  BY DEF LoopInv
<1> QED
  BY <1>1, SupervisionInvariant, PTL

(* While the supervisor runs, a removed connection whose _close() has no   *)
(* checkpoint is closed by the very step that ends its supervision, unless *)
(* its owner is just opening it.                                           *)
THEOREM RemovedSocketsAreClosed == SupervisorSpec => SocketRemovedIsClosed
<1>1. ASSUME LoopInv, FlightInv, [SupervisorNext]_allVars,
             NEW c \in Conns \ Checkpointing, c \in cancelled, c \in shouldClose,
             others[c] = "no", phase'[c] = "out"
      PROVE  conn'[c] = DISCONNECTED
  <2>1. phase[c] \in Looping
    BY <1>1 DEF LoopInv, ScopesMatchLoops, Loops
  <2>2. ASSUME NEW s \in ConnectionState, NEW why \in {"stop", "raise"}, Stops(c, s, why)
        PROVE  conn'[c] = DISCONNECTED
    BY <1>1, <2>1, <2>2, ExitKeepsInv DEF Stops, AfterBody
  <2>3. ASSUME Unwinds(c)
        PROVE  conn'[c] = DISCONNECTED
    <3> DEFINE s == IF phase[c] = "opening" THEN DISCONNECTED ELSE conn[c]
    <3>1. s \in ConnectionState /\ Exits(c, s, "cancelled")
      BY <1>1, <2>3 DEF Unwinds, LoopInv, LoopTypeOK, ConnectionState
    <3> QED
      BY <1>1, <2>1, <3>1, ExitKeepsInv
  <2> DEFINE Leaves(d) == \/ \E s \in ConnectionState, why \in {"stop", "raise"} : Stops(d, s, why)
                          \/ Unwinds(d)
  <2>4. ASSUME NEW d \in Conns, Leaves(d), d # c
        PROVE  phase'[c] = phase[c]
    <3>1. phase' = [phase EXCEPT ![d] = "out"]
      BY <2>4 DEF Stops, Unwinds, Exits
    <3> QED
      BY <1>1, <2>4, <3>1 DEF LoopInv, LoopTypeOK
  <2>5. ASSUME NEW d \in Conns, LeavesQueue(d) \/ WakesUp(d) \/ CallsSupervise(d)
        PROVE  phase'[c] \in Looping
    BY <1>1, <2>1, <2>5 DEF LeavesQueue, WakesUp, CallsSupervise, EntersOpen, LoopInv,
              LoopTypeOK, Looping
  <2>6. ASSUME NEW d \in Conns, NEW s, Opened(d) \/ Delays(d, s)
        PROVE  phase'[c] \in Looping
    BY <1>1, <2>1, <2>6 DEF Opened, Delays, LoopInv, LoopTypeOK, Looping
  <2>7. ASSUME NEW d \in Conns, ClosingEnds(d) \/ JoinEnds(d) \/ Accepts(d) \/ SendsAdd(d)
                 \/ SendsRemove(d) \/ CancelsSupervise(d)
        PROVE  phase' = phase
    BY <2>7 DEF ClosingEnds, JoinEnds, Accepts, SendsAdd, SendsRemove, Send,
              CancelsSupervise, loopVars
  <2>8. ASSUME NEW i \in DOMAIN spawned, StartsSupervising(i)
        PROVE  phase'[c] \in Looping
    BY <1>1, <2>1, <2>8 DEF StartsSupervising, EntersOpen, LoopInv, LoopTypeOK, Looping
  <2>9. ASSUME NEW i \in DOMAIN spawned, AssertionFails(i) \/ TaskIsMissing(i)
        PROVE  phase' = phase
    BY <2>9 DEF AssertionFails, TaskIsMissing, loopVars
  <2>10. CASE HandleAdd \/ HandleRemove \/ ClientEnds \/ ClientRaises \/ Shutdown
    BY <1>1, <2>1, <2>10 DEF HandleAdd, HandleRemove, ClientEnds, ClientRaises, Shutdown,
              loopVars, Looping
  <2>11. CASE UNCHANGED allVars
    BY <1>1, <2>1, <2>11 DEF allVars, loopVars, Looping
  <2>12. "out" \notin Looping
    BY DEF Looping
  <2>13. ASSUME NEW d \in Conns, OthersStep(d)
         PROVE  phase'[c] \in Looping
    BY <1>1, <2>1, <2>13 DEF OthersStep, Lost, LostBegins, LostEnds, OpensItself, OpeningEnds,
              LoopInv, LoopTypeOK, Looping
  <2>14. ASSUME NEW d \in Conns, LoopStep(d) \/ OthersStep(d) \/ Accepts(d) \/ CallerStep(d)
         PROVE  conn'[c] = DISCONNECTED
    <3>1. CASE Leaves(d) /\ d = c
      BY <2>2, <2>3, <3>1
    <3>2. CASE Leaves(d) /\ d # c
      BY <1>1, <2>1, <2>4, <2>12, <3>2
    <3>3. CASE ~Leaves(d)
      BY <1>1, <2>1, <2>5, <2>6, <2>7, <2>12, <2>14, <2>13, <3>3 DEF LoopStep, CallerStep
    <3> QED
      BY <3>1, <3>2, <3>3
  <2>15. CASE SupervisorStep
    BY <1>1, <2>1, <2>8, <2>9, <2>10, <2>12, <2>15 DEF SupervisorStep, TaskStep
  <2> QED
    BY <1>1, <2>10, <2>11, <2>14, <2>15 DEF SupervisorNext
<1>2. ASSUME LoopInv, NEW c \in Conns \ Checkpointing
      PROVE  closing[c] # "cancelled"
  BY <1>2 DEF LoopInv, ScopesMatchLoops
<1>3. LoopInv /\ FlightInv /\ [SupervisorNext]_allVars
        => [\A c \in Conns \ Checkpointing : ClosesIfRemoved(c)]_allVars
  BY <1>1, <1>2 DEF ClosesIfRemoved
<1> QED
  BY <1>3, SupervisionInvariant, PTL DEF SupervisorSpec, SocketRemovedIsClosed
=============================================================================

------------------------- MODULE UnixListenerProofs -------------------------
(***************************************************************************)
(* Socket files are removed by their own server and by nobody else, and a  *)
(* listener is closed when its run is over, for any number of tasks and    *)
(* runs.                                                                   *)
(***************************************************************************)
EXTENDS UnixListener, TLAPS

(***************************************************************************)
(* The path in the file system.  Nothing is assumed of the callers: only   *)
(* the steps of the servers matter here, and those of the other process.   *)
(***************************************************************************)

Labels == {"none", "listening", "closed", "refused", "same", "over", "late"}

FileTypeOK ==
    /\ sock \in [Servers -> Labels]
    /\ file \in Servers \cup {None}
    /\ latest \in Servers \cup {None}
    /\ robbed \in BOOLEAN
    /\ forgotten \in BOOLEAN

(* The server that counts as the latest one still listens, and no server   *)
(* takes a file for its own that is not.                                   *)
LatestListens == latest # None => sock[latest] = "listening"

FileInv ==
    /\ FileTypeOK
    /\ LatestListens
    /\ mistaken = {}
    /\ LatestIsReachable
    /\ NoStaleFile

(* The calls of the operating system that a server makes keep the          *)
(* invariant, whoever makes them and in whatever order.                    *)
LEMMA ServerKeepsFiles ==
    ASSUME FileInv, NEW s \in Servers,
           Publish(s) \/ ClosesSocket(s) \/ MissesDeadline(s) \/ Cleanup(s)
    PROVE  FileInv'
<1> USE ServerAssumption, RunAssumption
    DEF FileInv, FileTypeOK, Labels, LatestListens, LatestIsReachable, NoStaleFile, Servers, Goes
<1>1. CASE Publish(s)
  BY <1>1 DEF Publish
<1>2. CASE ClosesSocket(s)
  BY <1>2 DEF ClosesSocket, StopsListening
<1>3. CASE Probe(s)
  BY <1>3 DEF Probe, Refused, fileVars
<1>4. CASE Check(s)
  BY <1>4 DEF Check, IsOwn
<1>5. CASE Unlink(s)
  BY <1>5 DEF Unlink
<1>6. CASE MissesDeadline(s)
  BY <1>6 DEF MissesDeadline
<1> QED
  BY <1>1, <1>2, <1>3, <1>4, <1>5, <1>6 DEF Cleanup

(* So does every step. *)
LEMMA FileStep ==
    ASSUME FileInv, [UnixNext]_allVars
    PROVE  FileInv'
<1>1. CASE UNCHANGED allVars
  BY <1>1 DEF allVars, fileVars, FileInv, FileTypeOK, LatestListens, LatestIsReachable, NoStaleFile
<1>2. ASSUME NEW r \in Runs, ServerStep(r)
      PROVE  FileInv'
  BY <1>2, ServerKeepsFiles DEF ServerStep, Servers, Cleanup
<1>3. CASE Publish(Other) \/ ClosesSocket(Other) \/ Cleanup(Other)
  BY <1>3, ServerKeepsFiles DEF Servers
<1>4. CASE OtherStops
  BY <1>4, ServerAssumption, RunAssumption
     DEF OtherStops, StopsListening, Goes, Servers, FileInv, FileTypeOK, Labels, LatestListens,
         LatestIsReachable, NoStaleFile
<1>5. CASE ListenerFollows
  BY <1>5, ServerAssumption, RunAssumption
     DEF ListenerFollows, fileVars, Servers, FileInv, FileTypeOK, Labels, LatestListens,
         LatestIsReachable, NoStaleFile
<1> QED
  BY <1>1, <1>2, <1>3, <1>4, <1>5 DEF UnixNext, UnixRunStep, UnixTaskStep, OtherStep

(* The invariant holds throughout. *)
LEMMA FileInvariant == UnixSpec => []FileInv
<1>1. UnixInit => FileInv
  BY RunAssumption DEF UnixInit, FileInv, FileTypeOK, Labels, LatestListens, LatestIsReachable, NoStaleFile,
         Servers
<1>2. FileInv /\ [UnixNext]_allVars => FileInv'
  BY FileStep
<1> QED
  BY <1>1, <1>2, PTL DEF UnixSpec

(* However many runs and whatever the other process does between any two   *)
(* calls of the operating system, the server started last is reached at    *)
(* the path as long as it listens, unless its file is unlinked by another  *)
(* one in the moment after that one's os.stat().                           *)
THEOREM LatestServerIsReachable == UnixSpec => []LatestIsReachable
<1>1. FileInv => LatestIsReachable
  BY DEF FileInv
<1> QED
  BY <1>1, FileInvariant, PTL

(* No run of a listener that cleans up in time leaves its file behind,     *)
(* even when another server takes the path over meanwhile.                 *)
THEOREM NoStaleFiles == UnixSpec => []NoStaleFile
<1>1. FileInv => NoStaleFile
  BY DEF FileInv
<1> QED
  BY <1>1, FileInvariant, PTL
-----------------------------------------------------------------------------
(***************************************************************************)
(* The listener.  The file system does not matter for its state machine.   *)
(***************************************************************************)

BaseProofs == INSTANCE ConnectionBaseProofs

(* A listener with a socket file is a listener. *)
LEMMA UnixIsListener == UnixSpec => Spec
<1>1. UnixInit => Init
  BY DEF UnixInit
<1>2. ASSUME [UnixNext]_allVars PROVE [Next]_vars
  <2>1. CASE UNCHANGED allVars
    BY <2>1 DEF allVars
  <2>2. ASSUME NEW s, Publish(s) \/ ClosesSocket(s) \/ MissesDeadline(s) \/ Cleanup(s)
        PROVE  UNCHANGED vars
    BY <2>2 DEF Publish, ClosesSocket, MissesDeadline, Cleanup, Probe, Check, Unlink
  <2>3. ASSUME NEW r \in Runs, UnixRunStep(r) \/ ServerStep(r)
        PROVE  [Next]_vars
    BY <2>2, <2>3 DEF UnixRunStep, ServerStep, Cleanup, Next
  <2>4. ASSUME NEW t \in Tasks, UnixTaskStep(t)
        PROVE  Next
    BY <2>4 DEF UnixTaskStep, Next
  <2>5. CASE OtherStep
    BY <2>2, <2>5 DEF OtherStep, OtherStops
  <2> QED
    BY <1>2, <2>1, <2>3, <2>4, <2>5 DEF UnixNext
<1> QED
  BY <1>1, <1>2, PTL DEF UnixSpec, Spec

(* The state machine of a listener is that of a connection. *)
LEMMA ListenerIsConnection == Spec => BaseProofs!Spec
<1>1. Init => BaseProofs!Init
  BY DEF Init, Base!Init, BaseProofs!Init, Base!DISCONNECTED, BaseProofs!DISCONNECTED
<1>2. Base!Next => BaseProofs!Next
  BY DEF Base!Next, BaseProofs!Next, Base!OpenJoins, BaseProofs!OpenJoins, Base!OpenQueues,
         BaseProofs!OpenQueues, Base!OpenStarts, BaseProofs!OpenStarts, Base!OpenEnds,
         BaseProofs!OpenEnds, Base!OpenAtOnce, BaseProofs!OpenAtOnce, Base!CloseJoins,
         BaseProofs!CloseJoins, Base!CloseQueues, BaseProofs!CloseQueues, Base!CloseStarts,
         BaseProofs!CloseStarts, Base!CloseEnds, BaseProofs!CloseEnds, Base!CloseAtOnce,
         BaseProofs!CloseAtOnce, Base!WaitUntilConnected, BaseProofs!WaitUntilConnected,
         Base!WaitUntilDisconnected, BaseProofs!WaitUntilDisconnected, Base!WaitReturns,
         BaseProofs!WaitReturns, Base!Cancelled, BaseProofs!Cancelled, Base!EntersOpen,
         BaseProofs!EntersOpen, Base!EntersClose, BaseProofs!EntersClose, Base!SetState,
         BaseProofs!SetState, Base!PassThroughTo, BaseProofs!PassThroughTo, Base!Released,
         BaseProofs!Released, Base!Goto, BaseProofs!Goto, Base!Block, BaseProofs!Block,
         Base!Resume, BaseProofs!Resume, Base!StateUnchanged, BaseProofs!StateUnchanged,
         Base!NoneQueued, BaseProofs!NoneQueued, Base!Blocked, BaseProofs!Blocked,
         Base!OnConnected, BaseProofs!OnConnected, Base!OnDisconnected,
         BaseProofs!OnDisconnected, Base!DISCONNECTED, BaseProofs!DISCONNECTED,
         Base!CONNECTING, BaseProofs!CONNECTING, Base!CONNECTED, BaseProofs!CONNECTED,
         Base!DISCONNECTING, BaseProofs!DISCONNECTING
<1>3. ASSUME [Next]_vars PROVE [Base!Next]_(Base!vars)
  <2>1. CASE UNCHANGED vars
    BY <2>1 DEF vars, baseVars, Base!vars
  <2>2. ASSUME NEW r \in Runs, RunStep(r)
        PROVE  UNCHANGED Base!vars
    BY <2>2 DEF RunStep, RunBegins, Started, RunReturns, RunCancelled, RunAbandoned, RunExits,
                baseVars, Base!vars
  <2>3. ASSUME NEW t \in Tasks, CloseIsNoOp(t)
        PROVE  UNCHANGED Base!vars
    BY <2>3 DEF CloseIsNoOp, baseVars, Base!vars
  <2>4. ASSUME NEW t \in Tasks, OpenWaits(t) \/ OpenStarts(t) \/ CloseWaits(t)
                 \/ CloseStarts(t) \/ WaitReturns(t) \/ Cancelled(t)
        PROVE  Base!Next
    BY <2>4 DEF OpenWaits, OpenStarts, CloseWaits, CloseStarts, WaitReturns, Cancelled,
                Base!Next
  <2>5. ASSUME NEW t \in Tasks, OpenSucceeds(t) \/ OpenFails(t) \/ OpenCancelled(t)
        PROVE  Base!Next
    <3>1. \E ok \in BOOLEAN : Base!OpenEnds(t, ok)
      BY <2>5 DEF OpenSucceeds, OpenFails, OpenCancelled
    <3> QED
      BY <3>1 DEF Base!Next
  <2>6. ASSUME NEW t \in Tasks, NEW ok \in BOOLEAN, CloseEnds(t, ok)
        PROVE  Base!Next
    BY <2>6 DEF CloseEnds, Base!Next
  <2>7. ASSUME NEW t \in Tasks, OpenWithoutNursery(t)
        PROVE  Base!Next
    BY <2>7 DEF OpenWithoutNursery, Base!Next
  <2> QED
    BY <1>3, <2>1, <2>2, <2>3, <2>4, <2>5, <2>6, <2>7 DEF Next, TaskStep, OpenStep, CloseStep
<1>4. UNCHANGED Base!vars => UNCHANGED BaseProofs!vars
  BY DEF Base!vars, BaseProofs!vars
<1> QED
  BY <1>1, <1>2, <1>3, <1>4, PTL DEF Spec, BaseProofs!Spec

(* What the state machine promises disciplined callers. *)
ConnectionInv == BaseProofs!TypeOK /\ BaseProofs!DisciplineInv

LEMMA ConnectionInvariant == ASSUME Disciplined PROVE Spec => []ConnectionInv
<1>1. BaseProofs!Spec => [](BaseProofs!TypeOK /\ BaseProofs!DisciplineInv)
  BY BaseProofs!DisciplineInvariant
<1> QED
  BY <1>1, ListenerIsConnection, PTL DEF ConnectionInv

(* A task that is past the dispatch of open() or close(), or inside one of *)
(* the attempts, finds the state that belongs to it, and nobody else is    *)
(* inside an attempt.                                                      *)
LEMMA StateIsAsFound ==
    ASSUME ConnectionInv, NEW t \in Tasks
    PROVE  /\ Base!EntersOpen(t) => state = CLOSED
           /\ Base!EntersClose(t) => state = OPEN
           /\ pc[t] = "opening" => state = PREPARING /\ \A u \in Tasks : pc[u] = "opening" => u = t
           /\ pc[t] = "closing" => state = CLOSING /\ \A u \in Tasks : pc[u] = "closing" => u = t
  BY DEF ConnectionInv, BaseProofs!DisciplineInv, BaseProofs!ReleaseStaysValid,
         BaseProofs!AttemptsMatchState, BaseProofs!AtMostOneAt, Base!EntersOpen, Base!EntersClose,
         Base!DISCONNECTED, Base!CONNECTED, BaseProofs!DISCONNECTED, BaseProofs!CONNECTED,
         BaseProofs!CONNECTING, BaseProofs!DISCONNECTING, CLOSED, PREPARING, OPEN, CLOSING,
         DISCONNECTED, CONNECTED, CONNECTING, DISCONNECTING

-----------------------------------------------------------------------------
(***************************************************************************)
(* Runs are over when the listener is closed                               *)
(***************************************************************************)

RunTypeOK ==
    /\ run \in [Runs -> {"none", "spawned", "starting", "running",
                         "failed", "stopped", "abandoned"}]
    /\ event \in Runs \cup {None}
    /\ opens \in [Tasks -> Runs \cup {None}]
    /\ awaits \in [Tasks -> Runs \cup {None}]
    /\ leftover \subseteq Runs

(* A task holds a run exactly while it is inside _open(), and that run has *)
(* made its own event the listener's as soon as it has begun ...           *)
OpenersHoldRuns ==
    \A t \in Tasks :
        /\ opens[t] # None <=> pc[t] = "opening"
        /\ opens[t] # None /\ run[opens[t]] # "spawned" => event = opens[t]

(* ... an active run is the one that is being opened, or it has started    *)
(* and the listener has its event ...                                      *)
ActiveRunIsKnown ==
    \A r \in Runs : Active(r) => \/ \E t \in Tasks : opens[t] = r
                                 \/ /\ state \in {OPEN, CLOSING}
                                    /\ event = r
                                    /\ run[r] = "running"

(* ... and this event, for which close() waits, is set only by the end of  *)
(* the run.                                                                *)
EventMeansOver ==
    /\ \A r \in Runs : event = r /\ r \in isSet => ~Active(r)
    /\ \A t \in Tasks : pc[t] = "closing" => awaits[t] = event

RunInv == RunTypeOK /\ OpenersHoldRuns /\ ActiveRunIsKnown /\ EventMeansOver

(* What the calls that only wait, or stop waiting, leave alone. *)
LEMMA WaitingChangesNothing ==
    ASSUME ConnectionInv, NEW t \in Tasks,
           OpenWaits(t) \/ CloseWaits(t) \/ WaitReturns(t) \/ Cancelled(t)
    PROVE  /\ UNCHANGED <<state, scope, event, isSet, run, doomed, opens, awaits>>
           /\ \A u \in Tasks : /\ pc'[u] = "opening" <=> pc[u] = "opening"
                               /\ pc'[u] = "closing" <=> pc[u] = "closing"
           /\ leftover' \in {leftover, leftover \ {t}}
<1>1. DOMAIN pc = Tasks
  BY DEF ConnectionInv, BaseProofs!TypeOK
<1> QED
  BY <1>1 DEF OpenWaits, CloseWaits, WaitReturns, Cancelled, Base!OpenJoins, ComesToClose,
              Base!OpenQueues, Base!CloseJoins, Base!CloseQueues, Base!WaitReturns,
              Base!Cancelled, Base!Block, Base!Resume, Base!StateUnchanged, Base!Blocked,
              Base!OnConnected, Base!OnDisconnected, Base!Goto, runVars

(* The state and the places of the tasks when an attempt starts or ends. *)
LEMMA AttemptMovesState ==
    ASSUME ConnectionInv, NEW t \in Tasks
    PROVE  /\ OpenStarts(t) =>
                /\ state = CLOSED /\ state' = PREPARING
                /\ pc' = [pc EXCEPT ![t] = "opening"]
           /\ OpenSucceeds(t) \/ OpenFails(t) \/ OpenCancelled(t) =>
                /\ pc[t] = "opening"
                /\ state = PREPARING /\ state' = IF OpenSucceeds(t) THEN OPEN ELSE CLOSED
                /\ pc' = [pc EXCEPT ![t] = "idle"]
           /\ CloseStarts(t) =>
                /\ state = OPEN /\ state' = CLOSING
                /\ pc' = [pc EXCEPT ![t] = "closing"]
           /\ \A ok \in BOOLEAN : CloseEnds(t, ok) =>
                /\ pc[t] = "closing"
                /\ ok \/ "close" \in Failures
                /\ state = CLOSING /\ state' = IF ok THEN CLOSED ELSE OPEN
                /\ pc' = [pc EXCEPT ![t] = "idle"]
<1> USE DEF Base!Goto, Base!SetState, CLOSED, PREPARING, OPEN, CLOSING,
            DISCONNECTED, CONNECTED, CONNECTING, DISCONNECTING,
            Base!DISCONNECTED, Base!CONNECTED, Base!CONNECTING, Base!DISCONNECTING
<1>1. ASSUME OpenStarts(t)
      PROVE  /\ state = CLOSED /\ state' = PREPARING
             /\ pc' = [pc EXCEPT ![t] = "opening"]
  BY <1>1, StateIsAsFound DEF OpenStarts, Base!OpenStarts
<1>2. ASSUME OpenSucceeds(t)
      PROVE  /\ pc[t] = "opening"
             /\ state = PREPARING /\ state' = OPEN
             /\ pc' = [pc EXCEPT ![t] = "idle"]
  BY <1>2, StateIsAsFound DEF OpenSucceeds, Base!OpenEnds
<1>3. ASSUME OpenFails(t) \/ OpenCancelled(t)
      PROVE  /\ pc[t] = "opening"
             /\ state = PREPARING /\ state' = CLOSED
             /\ pc' = [pc EXCEPT ![t] = "idle"]
  BY <1>3, StateIsAsFound DEF OpenFails, OpenCancelled, Base!OpenEnds
<1>4. ASSUME CloseStarts(t)
      PROVE  /\ state = OPEN /\ state' = CLOSING
             /\ pc' = [pc EXCEPT ![t] = "closing"]
  BY <1>4, StateIsAsFound DEF CloseStarts, Base!CloseStarts
<1>5. ASSUME NEW ok \in BOOLEAN, CloseEnds(t, ok)
      PROVE  /\ pc[t] = "closing"
             /\ ok \/ "close" \in Failures
             /\ state = CLOSING /\ state' = IF ok THEN CLOSED ELSE OPEN
             /\ pc' = [pc EXCEPT ![t] = "idle"]
  BY <1>5, StateIsAsFound DEF CloseEnds, Base!CloseEnds
<1> QED
  BY <1>1, <1>2, <1>3, <1>4, <1>5

(* An open() that raises at once leaves everything as it was. *)
LEMMA RefusedChangesNothing ==
    ASSUME ConnectionInv, NEW t \in Tasks, OpenWithoutNursery(t)
    PROVE  /\ state = CLOSED
           /\ UNCHANGED <<state, runVars, opens, awaits>>
           /\ pc[t] \notin {"opening", "closing"}
           /\ pc' = [pc EXCEPT ![t] = "idle"]
<1>1. state = CLOSED /\ pc[t] \in {"idle", "openQueued"}
  BY StateIsAsFound DEF OpenWithoutNursery, Base!OpenAtOnce, Base!EntersOpen
<1> QED
  BY <1>1 DEF OpenWithoutNursery, Base!OpenAtOnce, Base!PassThroughTo, Base!Goto,
              Base!DISCONNECTED, CLOSED, DISCONNECTED

(* Every step keeps the invariant. *)
LEMMA RunInvStep ==
    ASSUME ConnectionInv, RunInv, [Next]_vars
    PROVE  RunInv'
<1> USE RunAssumption
    DEF RunInv, RunTypeOK, OpenersHoldRuns, ActiveRunIsKnown, EventMeansOver, Active,
        CLOSED, PREPARING, OPEN, CLOSING, DISCONNECTED, CONNECTED, CONNECTING, DISCONNECTING
<1>0. DOMAIN pc = Tasks
  BY DEF ConnectionInv, BaseProofs!TypeOK
<1>1. CASE UNCHANGED vars
  BY <1>1 DEF vars, baseVars, runVars
<1>2. ASSUME NEW t \in Tasks, OpenWaits(t) \/ CloseWaits(t) \/ WaitReturns(t) \/ Cancelled(t)
      PROVE  RunInv'
  BY <1>2, WaitingChangesNothing
<1>3. ASSUME NEW t \in Tasks, OpenStarts(t)
      PROVE  RunInv'
  <2>1. PICK r \in FreshRuns : /\ run' = [run EXCEPT ![r] = "spawned"]
                               /\ opens' = [opens EXCEPT ![t] = r]
    BY <1>3 DEF OpenStarts
  <2>2. r \in Runs /\ r # event /\ \A u \in Tasks : opens[u] # r
    BY DEF FreshRuns
  <2>3. /\ state = CLOSED /\ state' = PREPARING
        /\ pc' = [pc EXCEPT ![t] = "opening"]
        /\ \A u \in Tasks : pc[u] \notin {"opening", "closing"}
        /\ UNCHANGED <<event, isSet, leftover, awaits>>
    BY <1>3, AttemptMovesState, StateIsAsFound DEF OpenStarts
  <2> QED
    BY <1>0, <2>1, <2>2, <2>3
<1>4. ASSUME NEW t \in Tasks, OpenSucceeds(t) \/ OpenFails(t) \/ OpenCancelled(t)
      PROVE  RunInv'
  <2>1. /\ pc[t] = "opening"
        /\ state = PREPARING /\ state' = IF OpenSucceeds(t) THEN OPEN ELSE CLOSED
        /\ pc' = [pc EXCEPT ![t] = "idle"]
        /\ \A u \in Tasks : pc[u] # "closing" /\ (pc[u] = "opening" => u = t)
    BY <1>4, AttemptMovesState, StateIsAsFound
  <2>2. \A r \in Runs : Active(r) => opens[t] = r
    BY <2>1
  <2>3. CASE OpenSucceeds(t)
    BY <1>0, <2>1, <2>2, <2>3 DEF OpenSucceeds, runVars
  <2>4. CASE OpenFails(t) \/ OpenCancelled(t)
    <3>1. ~OpenSucceeds(t)
      BY <2>4 DEF OpenFails, OpenCancelled, OpenSucceeds
    <3>2. /\ run' = [run EXCEPT ![opens[t]] = "stopped"]
          /\ opens' = [opens EXCEPT ![t] = None]
          /\ UNCHANGED <<event, isSet, leftover, awaits>>
      BY <2>4, Zenon DEF OpenFails, OpenCancelled
    <3>3. \A r \in Runs : ~Active(r)'
      BY <2>1, <2>2, <3>2
    <3> QED
      BY <1>0, <2>1, <3>1, <3>2, <3>3
  <2> QED
    BY <1>4, <2>3, <2>4
<1>5. ASSUME NEW r \in Runs, RunBegins(r)
      PROVE  RunInv'
  <2>1. PICK t \in Tasks : opens[t] = r
    BY <1>5, ServerAssumption DEF RunBegins
  <2>2. /\ state = PREPARING
        /\ \A u \in Tasks : pc[u] # "closing" /\ (opens[u] # None => u = t)
    BY <2>1, StateIsAsFound
  <2> QED
    BY <1>5, <2>1, <2>2 DEF RunBegins, baseVars
<1>6. ASSUME NEW r \in Runs, Started(r) \/ RunAbandoned(r)
      PROVE  RunInv'
  BY <1>6 DEF Started, RunAbandoned, baseVars
<1>7. ASSUME NEW r \in Runs, RunReturns(r) \/ RunCancelled(r)
      PROVE  RunInv'
  <2>1. run[r] \in {"starting", "running"} /\ event = r
    BY <1>7 DEF RunReturns, RunCancelled
  <2> QED
    BY <1>7, <2>1 DEF RunReturns, RunCancelled, RunExits, baseVars
<1>8. ASSUME NEW r \in Runs, CloseIsNoOp(r)
      PROVE  RunInv'
  BY <1>8 DEF CloseIsNoOp, baseVars
<1>9. ASSUME NEW t \in Tasks, CloseStarts(t)
      PROVE  RunInv'
  <2>1. /\ state = OPEN /\ state' = CLOSING
        /\ pc' = [pc EXCEPT ![t] = "closing"]
        /\ \A u \in Tasks : pc[u] \notin {"opening", "closing"}
    BY <1>9, AttemptMovesState, StateIsAsFound
  <2>2. leftover' \subseteq Runs
    BY <1>9 DEF CloseStarts, ComesToClose
  <2> QED
    BY <1>0, <1>9, <2>1, <2>2 DEF CloseStarts
<1>10. ASSUME NEW t \in Tasks, NEW ok \in BOOLEAN, CloseEnds(t, ok)
       PROVE  RunInv'
  <2>1. /\ pc[t] = "closing"
        /\ state = CLOSING /\ state' = IF ok THEN CLOSED ELSE OPEN
        /\ pc' = [pc EXCEPT ![t] = "idle"]
        /\ \A u \in Tasks : pc[u] # "opening" /\ (pc[u] = "closing" => u = t)
    BY <1>10, AttemptMovesState, StateIsAsFound
  <2>2. ok => \A r \in Runs : ~Active(r)
    BY <1>10, <2>1 DEF CloseEnds
  <2> QED
    BY <1>0, <1>10, <2>1, <2>2 DEF CloseEnds, runVars
<1>11. ASSUME NEW t \in Tasks, OpenWithoutNursery(t)
       PROVE  RunInv'
  BY <1>0, <1>11, RefusedChangesNothing DEF runVars
<1> QED
  BY <1>1, <1>2, <1>3, <1>4, <1>5, <1>6, <1>7, <1>8, <1>9, <1>10, <1>11
     DEF Next, RunStep, TaskStep, OpenStep, CloseStep

(* The invariant holds throughout. *)
LEMMA RunInvariant == ASSUME Disciplined PROVE Spec => [](ConnectionInv /\ RunInv)
<1>1. Init => RunInv
  BY DEF Init, Base!Init, RunInv, RunTypeOK, OpenersHoldRuns, ActiveRunIsKnown, EventMeansOver,
         Active
<1>2. ConnectionInv /\ RunInv /\ [Next]_vars => RunInv'
  BY RunInvStep
<1> QED
  BY <1>1, <1>2, ConnectionInvariant, PTL DEF Spec

(* Disciplined callers never leave a run behind, even if close() is        *)
(* cancelled: a listener that says that it is closed has no run, and two   *)
(* runs never overlap.                                                     *)
THEOREM ClosedListenerIsStopped == ASSUME Disciplined PROVE UnixSpec => []ClosedMeansStopped
<1>1. ASSUME ConnectionInv, RunInv PROVE ClosedMeansStopped
  <2> USE RunAssumption
      DEF RunInv, OpenersHoldRuns, ActiveRunIsKnown,
          CLOSED, PREPARING, OPEN, CLOSING, DISCONNECTED, CONNECTED, CONNECTING, DISCONNECTING
  <2>1. \A t, u \in Tasks : opens[t] # None /\ opens[u] # None => state = PREPARING /\ t = u
    BY <1>1, StateIsAsFound
  <2> QED
    BY <1>1, <2>1 DEF ClosedMeansStopped
<1> QED
  BY <1>1, RunInvariant, UnixIsListener, PTL

-----------------------------------------------------------------------------
(***************************************************************************)
(* An open listener has a run, or one whose close task is on its way       *)
(***************************************************************************)

(* The run r serves the listener, or its close task exists, or the run     *)
(* lost its nursery.                                                       *)
Served(r) ==
    \/ run[r] \in {"running", "abandoned"}
    \/ r \in leftover
    \/ pc[r] = "closeQueued"

(* The run that open() waits for is not cancelled, and once started() was  *)
(* called it is there or has a close task; what open() hands over to the   *)
(* OPEN listener stays so until close().                                   *)
ServeInv ==
    /\ \A t \in Tasks : opens[t] # None =>
        /\ run[opens[t]] # "spawned" => opens[t] \notin doomed
        /\ run[opens[t]] \in {"spawned", "starting", "failed"} \/ Served(opens[t])
    /\ state = OPEN => event \in Runs /\ event \notin doomed /\ Served(event)

(* A close task that comes while the listener is being opened queues up,   *)
(* and nothing but its own attempt takes it from the queue.                *)
LEMMA WaitingKeepsCloseTasks ==
    ASSUME ConnectionInv, NEW t \in Tasks,
           OpenWaits(t) \/ CloseWaits(t) \/ WaitReturns(t) \/ (t \in Callers /\ Cancelled(t)),
           state \in {OPEN, PREPARING}, NEW r \in Runs, Served(r)
    PROVE  Served(r)'
<1>1. DOMAIN pc = Tasks /\ r \in Tasks
  BY DEF ConnectionInv, BaseProofs!TypeOK, Tasks
<1> USE <1>1, RunAssumption
    DEF Served, CLOSED, PREPARING, OPEN, CLOSING, DISCONNECTED, CONNECTED, CONNECTING,
        DISCONNECTING, Base!CONNECTING, Base!DISCONNECTING, Base!Goto
<1>2. CASE OpenWaits(t)
  BY <1>2 DEF OpenWaits, Base!OpenJoins, Base!OpenQueues, Base!Block, runVars
<1>3. CASE CloseWaits(t)
  BY <1>3 DEF CloseWaits, Base!CloseJoins, Base!CloseQueues, Base!Block, ComesToClose
<1>4. CASE WaitReturns(t)
  BY <1>4 DEF WaitReturns, Base!WaitReturns, Base!Resume, runVars
<1>5. CASE t \in Callers /\ Cancelled(t)
  BY <1>5 DEF Cancelled, Base!Cancelled, runVars
<1> QED
  BY <1>2, <1>3, <1>4, <1>5

(* Every step keeps the invariant when no close() is cancelled. *)
LEMMA ServeStep ==
    ASSUME "close" \notin Failures, ConnectionInv, RunInv, ServeInv, [Next]_vars
    PROVE  ServeInv'
<1> USE RunAssumption
    DEF RunInv, RunTypeOK, OpenersHoldRuns, ServeInv, Served,
        CLOSED, PREPARING, OPEN, CLOSING, DISCONNECTED, CONNECTED, CONNECTING, DISCONNECTING
<1>0. DOMAIN pc = Tasks /\ Runs \subseteq Tasks
  BY DEF ConnectionInv, BaseProofs!TypeOK, Tasks
<1>1. CASE UNCHANGED vars
  BY <1>1 DEF vars, baseVars, runVars
<1>2. ASSUME NEW t \in Tasks,
             OpenWaits(t) \/ CloseWaits(t) \/ WaitReturns(t) \/ (t \in Callers /\ Cancelled(t))
      PROVE  ServeInv'
  <2>1. UNCHANGED <<state, event, run, doomed, opens>>
    BY <1>2, WaitingChangesNothing
  <2>2. \A u \in Tasks : opens[u] # None => state = PREPARING
    BY StateIsAsFound
  <2>3. \A r \in Runs : state \in {OPEN, PREPARING} /\ Served(r) => Served(r)'
    BY <1>2, WaitingKeepsCloseTasks
  <2> QED
    BY <2>1, <2>2, <2>3
<1>3. ASSUME NEW t \in Tasks, OpenStarts(t)
      PROVE  ServeInv'
  <2>1. PICK r \in FreshRuns : /\ run' = [run EXCEPT ![r] = "spawned"]
                               /\ opens' = [opens EXCEPT ![t] = r]
    BY <1>3 DEF OpenStarts
  <2>2. /\ state' = PREPARING
        /\ \A u \in Tasks : opens[u] = None
    BY <1>3, AttemptMovesState, StateIsAsFound
  <2> QED
    BY <2>1, <2>2 DEF FreshRuns
<1>4. ASSUME NEW t \in Tasks, OpenSucceeds(t)
      PROVE  ServeInv'
  <2>1. /\ pc[t] = "opening"
        /\ state' = OPEN
        /\ pc' = [pc EXCEPT ![t] = "idle"]
        /\ \A u \in Tasks : opens[u] # None => u = t
    BY <1>4, AttemptMovesState, StateIsAsFound
  <2> QED
    BY <1>0, <1>4, <2>1 DEF OpenSucceeds, runVars
<1>5. ASSUME NEW t \in Tasks, OpenFails(t) \/ OpenCancelled(t)
      PROVE  ServeInv'
  <2>1. /\ state' = CLOSED
        /\ \A u \in Tasks : opens[u] # None => u = t
    <3>1. ~OpenSucceeds(t)
      BY <1>5 DEF OpenFails, OpenCancelled, OpenSucceeds
    <3> QED
      BY <1>5, <3>1, AttemptMovesState, StateIsAsFound
  <2>2. opens' = [opens EXCEPT ![t] = None]
    BY <1>5 DEF OpenFails, OpenCancelled
  <2> QED
    BY <2>1, <2>2
<1>6. ASSUME NEW r \in Runs, RunBegins(r)
      PROVE  ServeInv'
  <2>1. state = PREPARING /\ \A u \in Tasks : opens[u] # None => opens[u] = r
    <3>1. PICK t \in Tasks : opens[t] = r
      BY <1>6 DEF RunBegins, ActiveRunIsKnown, Active
    <3> QED
      BY <3>1, StateIsAsFound
  <2> QED
    BY <1>6, <2>1 DEF RunBegins, baseVars
<1>7. ASSUME NEW r \in Runs, Started(r) \/ RunAbandoned(r)
      PROVE  ServeInv'
  BY <1>7 DEF Started, RunAbandoned, baseVars
<1>8. ASSUME NEW r \in Runs, RunReturns(r)
      PROVE  ServeInv'
  <2>1. event = r
    BY <1>8 DEF RunReturns, ActiveRunIsKnown, Active
  <2> QED
    BY <1>8, <2>1 DEF RunReturns, RunExits, baseVars
<1>9. ASSUME NEW r \in Runs, RunCancelled(r)
      PROVE  ServeInv'
  BY <1>9 DEF RunCancelled, RunExits, baseVars
<1>10. ASSUME NEW r \in Runs, CloseIsNoOp(r)
       PROVE  ServeInv'
  <2>1. \A u \in Tasks : opens[u] = None
    BY <1>10, StateIsAsFound DEF CloseIsNoOp
  <2> QED
    BY <1>10, <2>1 DEF CloseIsNoOp, baseVars
<1>11. ASSUME NEW t \in Tasks, CloseStarts(t)
       PROVE  ServeInv'
  <2>1. state' = CLOSING /\ \A u \in Tasks : opens[u] = None
    BY <1>11, AttemptMovesState, StateIsAsFound
  <2> QED
    BY <1>11, <2>1 DEF CloseStarts
<1>12. ASSUME NEW t \in Tasks, NEW ok \in BOOLEAN, CloseEnds(t, ok)
       PROVE  ServeInv'
  <2>1. state' = CLOSED /\ \A u \in Tasks : opens[u] = None
    BY <1>12, AttemptMovesState, StateIsAsFound
  <2> QED
    BY <1>12, <2>1 DEF CloseEnds
<1>13. ASSUME NEW t \in Tasks, OpenWithoutNursery(t)
       PROVE  ServeInv'
  <2>1. state' = CLOSED /\ \A u \in Tasks : opens[u] = None
    BY <1>13, RefusedChangesNothing, StateIsAsFound
  <2> QED
    BY <1>13, <2>1, RefusedChangesNothing DEF runVars
<1> QED
  BY <1>1, <1>2, <1>3, <1>4, <1>5, <1>6, <1>7, <1>8, <1>9, <1>10, <1>11, <1>12, <1>13
     DEF Next, RunStep, TaskStep, OpenStep, CloseStep

(* Disciplined callers whose close() is not cancelled find a run behind an *)
(* OPEN listener, or its close task is about to close it, unless the run   *)
(* lost its nursery.                                                       *)
THEOREM OpenListenerIsServed ==
    ASSUME Disciplined, "close" \notin Failures
    PROVE  UnixSpec => []OpenMeansRunning
<1>1. Init => ServeInv
  BY DEF Init, Base!Init, ServeInv, Base!DISCONNECTED, OPEN, CONNECTED
<1>2. ConnectionInv /\ RunInv /\ ServeInv /\ [Next]_vars => ServeInv'
  BY ServeStep
<1>3. ServeInv => OpenMeansRunning
  BY DEF ServeInv, Served, OpenMeansRunning
<1> QED
  BY <1>1, <1>2, <1>3, RunInvariant, UnixIsListener, PTL DEF Spec
=============================================================================

-------------------------- MODULE SerialPortProofs --------------------------
(***************************************************************************)
(* Streams of all kinds: the connection never loses track of an open one,  *)
(* for any number of disciplined callers and any supply of streams.        *)
(***************************************************************************)
EXTENDS SerialPort, TLAPS

BaseProofs == INSTANCE ConnectionBaseProofs

(***************************************************************************)
(* A stream connection is a connection, but not always a closed one in the *)
(* beginning: what is needed of ConnectionBase is proved from its steps.   *)
(***************************************************************************)

(* A step of a stream connection is a step of ConnectionBase, or does not  *)
(* touch the connection.                                                   *)
LEMMA StreamStepIsConnectionStep ==
    ASSUME [SerialNext]_allVars
    PROVE  [Base!Next]_(Base!vars)
<1>1. CASE UNCHANGED allVars
  BY <1>1 DEF allVars, vars, baseVars, Base!vars
<1>2. ASSUME NEW t \in Tasks, PortOpens(t) \/ OpensStored(t) \/ PortFails(t) \/ OpenRefused(t)
      PROVE  Base!Next
  <2>1. \E ok \in BOOLEAN : Base!OpenAtOnce(t, ok)
    BY <1>2 DEF PortOpens, OpensStored, PortFails, OpenRefused
  <2> QED
    BY <2>1 DEF Base!Next
<1>3. ASSUME NEW t \in Tasks, OpenSucceeds(t) \/ OpenFails(t)
      PROVE  Base!Next
  <2>1. \E ok \in BOOLEAN : Base!OpenEnds(t, ok)
    BY <1>3 DEF OpenSucceeds, OpenFails
  <2> QED
    BY <2>1 DEF Base!Next
<1>4. ASSUME NEW t \in Tasks, Closed(t)
      PROVE  Base!Next
  <2>1. \E ok \in BOOLEAN : Base!CloseEnds(t, ok) \/ Base!CloseAtOnce(t, ok)
    BY <1>4 DEF Closed, CloseEnds, CloseAtOnce
  <2> QED
    BY <2>1 DEF Base!Next
<1>5. ASSUME NEW t \in Tasks, OpenWaits(t) \/ OpenStarts(t) \/ CloseWaits(t)
               \/ CloseStarts(t) \/ WaitReturns(t) \/ Cancelled(t)
      PROVE  Base!Next
  BY <1>5 DEF OpenWaits, OpenStarts, CloseWaits, CloseStarts, WaitReturns, Cancelled, Base!Next
<1>6. ASSUME NEW t \in Tasks,
             CloseIsNoOp(t) \/ ReadStarts(t) \/ ReadReturns(t) \/ ReaderClosesStream(t)
      PROVE  UNCHANGED Base!vars
  BY <1>6 DEF CloseIsNoOp, ReadStarts, ReadReturns, ReaderClosesStream, baseVars, Base!vars
<1> QED
  BY <1>1, <1>2, <1>3, <1>4, <1>5, <1>6 DEF SerialNext, SerialStep, OtherStep

(* ConnectionBaseProofs speaks of the same steps. *)
LEMMA SameSteps == [Base!Next]_(Base!vars) => [BaseProofs!Next]_(BaseProofs!vars)
<1>1. Base!Next => BaseProofs!Next
  BY DEF Base!Next, BaseProofs!Next, Base!OpenJoins, BaseProofs!OpenJoins, Base!OpenQueues,
         BaseProofs!OpenQueues, Base!OpenStarts, BaseProofs!OpenStarts, Base!OpenEnds,
         BaseProofs!OpenEnds, Base!OpenAtOnce, BaseProofs!OpenAtOnce, Base!CloseJoins,
         BaseProofs!CloseJoins, Base!CloseQueues, BaseProofs!CloseQueues, Base!CloseStarts,
         BaseProofs!CloseStarts, Base!CloseEnds, BaseProofs!CloseEnds, Base!CloseAtOnce,
         BaseProofs!CloseAtOnce, Base!WaitUntilConnected, BaseProofs!WaitUntilConnected,
         Base!WaitUntilDisconnected, BaseProofs!WaitUntilDisconnected, Base!WaitReturns,
         BaseProofs!WaitReturns, Base!Cancelled, BaseProofs!Cancelled, Base!EntersOpen,
         BaseProofs!EntersOpen, Base!EntersClose, BaseProofs!EntersClose, Base!SetState,
         BaseProofs!SetState, Base!PassThroughTo, BaseProofs!PassThroughTo, Base!Released,
         BaseProofs!Released, Base!Goto, BaseProofs!Goto, Base!Block, BaseProofs!Block,
         Base!Resume, BaseProofs!Resume, Base!StateUnchanged, BaseProofs!StateUnchanged,
         Base!NoneQueued, BaseProofs!NoneQueued, Base!Blocked, BaseProofs!Blocked,
         Base!OnConnected, BaseProofs!OnConnected, Base!OnDisconnected,
         BaseProofs!OnDisconnected, Base!DISCONNECTED, BaseProofs!DISCONNECTED,
         Base!CONNECTING, BaseProofs!CONNECTING, Base!CONNECTED, BaseProofs!CONNECTED,
         Base!DISCONNECTING, BaseProofs!DISCONNECTING
<1>2. UNCHANGED Base!vars => UNCHANGED BaseProofs!vars
  BY DEF Base!vars, BaseProofs!vars
<1> QED
  BY <1>1, <1>2

(* What ConnectionBase promises disciplined callers ... *)
ConnectionInv == BaseProofs!TypeOK /\ BaseProofs!DisciplineInv

(* ... holds for streams that are created, taken over, or open already. *)
LEMMA ConnectionInvariant == ASSUME Disciplined PROVE SerialSpec => []ConnectionInv
<1>1. SerialInit => ConnectionInv
  BY DEF SerialInit, Init, BornClosed, BornOpen, Base!Init, Base!DISCONNECTED, CONNECTED,
         ConnectionInv, BaseProofs!TypeOK, BaseProofs!DisciplineInv,
         BaseProofs!AttemptsMatchState, BaseProofs!AtMostOneAt, BaseProofs!ReleaseStaysValid,
         BaseProofs!ConnectionState, BaseProofs!DISCONNECTED, BaseProofs!CONNECTED
<1>2. ConnectionInv /\ [SerialNext]_allVars => ConnectionInv'
  <2> SUFFICES ASSUME ConnectionInv, [SerialNext]_allVars
               PROVE  ConnectionInv'
    OBVIOUS
  <2>1. [BaseProofs!Next]_(BaseProofs!vars)
    BY StreamStepIsConnectionStep, SameSteps
  <2> QED
    BY <2>1, BaseProofs!TypeStep, BaseProofs!DisciplineStep DEF ConnectionInv
<1> QED
  BY <1>1, <1>2, PTL DEF SerialSpec

-----------------------------------------------------------------------------
(***************************************************************************)
(* The stream behind the state                                             *)
(***************************************************************************)

(* Only the current stream can be open, and only while the connection is   *)
(* CONNECTED: aclose() comes before the checkpoint of close().  open()     *)
(* finds no stream to overwrite.  What a stream is missing for when the    *)
(* connection is CONNECTED is part of ConnectedHasPort.                    *)
StreamInv ==
    /\ stream \in Streams \cup {None}
    /\ live \subseteq {stream} \cap Streams
    /\ state # CONNECTED => live = {}
    /\ state \in {DISCONNECTED, CONNECTING} => stream = None
    /\ ConnectedHasPort

(* Only connections that make their streams pass through CONNECTING, so    *)
(* that a serial port gets its streams from PortOpens alone; its address   *)
(* changes together with them.                                             *)
AddressInv ==
    /\ \A t \in Tasks : pc[t] = "opening" => supply = "many"
    /\ AddressIsCurrent

(* A task that is past the dispatch of open() or close(), or inside one of *)
(* the attempts, finds the state that belongs to it.                       *)
LEMMA StateIsAsFound ==
    ASSUME ConnectionInv, NEW t \in Tasks
    PROVE  /\ Base!EntersOpen(t) => state = DISCONNECTED
           /\ Base!EntersClose(t) => state = CONNECTED
           /\ pc[t] = "opening" => state = CONNECTING
           /\ pc[t] = "closing" => state = DISCONNECTING
  BY DEF ConnectionInv, BaseProofs!DisciplineInv, BaseProofs!ReleaseStaysValid,
         BaseProofs!AttemptsMatchState, Base!EntersOpen, Base!EntersClose,
         Base!DISCONNECTED, Base!CONNECTED, BaseProofs!DISCONNECTED, BaseProofs!CONNECTED,
         BaseProofs!CONNECTING, BaseProofs!DISCONNECTING,
         DISCONNECTED, CONNECTED, CONNECTING, DISCONNECTING

(* Every step keeps the invariant. *)
LEMMA StreamStep ==
    ASSUME ConnectionInv, StreamInv, AddressInv, [SerialNext]_allVars
    PROVE  StreamInv' /\ AddressInv'
<1> DEFINE Goal == StreamInv' /\ AddressInv'
<1> USE StreamAssumption
    DEF StreamInv, ConnectedHasPort, AddressInv, AddressIsCurrent, IsPort,
        DISCONNECTED, CONNECTED, CONNECTING, DISCONNECTING,
        Base!DISCONNECTED, Base!CONNECTED, Base!CONNECTING, Base!DISCONNECTING, Base!Goto
<1>0. DOMAIN pc = Tasks
  BY DEF ConnectionInv, BaseProofs!TypeOK
<1>1. CASE UNCHANGED allVars
  BY <1>1 DEF allVars, vars, baseVars, portVars
<1>2. ASSUME NEW t \in Tasks, PortOpens(t)
      PROVE  Goal
  <2>1. /\ state = DISCONNECTED /\ state' = CONNECTED
        /\ pc' = [pc EXCEPT ![t] = "idle"]
    BY <1>2, StateIsAsFound DEF PortOpens, Base!OpenAtOnce, Base!PassThroughTo
  <2>2. PICK s \in Streams : stream' = s /\ live' = live \cup {s}
    BY <1>2 DEF PortOpens, FreshStreams
  <2>3. address' = port' /\ UNCHANGED supply
    BY <1>2 DEF PortOpens
  <2> QED
    BY <1>0, <2>1, <2>2, <2>3
<1>3. ASSUME NEW t \in Tasks, PortFails(t)
      PROVE  Goal
  <2>1. /\ state = DISCONNECTED /\ state' = DISCONNECTED
        /\ pc' = [pc EXCEPT ![t] = "idle"]
    BY <1>3, StateIsAsFound DEF PortFails, Base!OpenAtOnce, Base!PassThroughTo
  <2> QED
    BY <1>0, <1>3, <2>1 DEF PortFails
<1>4. ASSUME NEW t \in Tasks, ReaderClosesStream(t)
      PROVE  Goal
  BY <1>4 DEF ReaderClosesStream, baseVars
<1>5. ASSUME NEW t \in Tasks, NEW ok \in BOOLEAN, CloseEnds(t, ok), Closed(t)
      PROVE  Goal
  <2>1. /\ state = DISCONNECTING /\ state' = IF ok THEN DISCONNECTED ELSE CONNECTED
        /\ pc' = [pc EXCEPT ![t] = "idle"]
    BY <1>5, StateIsAsFound DEF CloseEnds, Base!CloseEnds, Base!SetState
  <2> QED
    BY <1>0, <1>5, <2>1 DEF CloseEnds, Closed, ForgetsAddress
<1>6. ASSUME NEW t \in Tasks, CloseAtOnce(t), Closed(t)
      PROVE  Goal
  <2>1. /\ state = CONNECTED /\ state' = DISCONNECTED
        /\ pc' = [pc EXCEPT ![t] = "idle"]
    BY <1>6, StateIsAsFound DEF CloseAtOnce, Base!CloseAtOnce, Base!PassThroughTo
  <2> QED
    BY <1>0, <1>6, <2>1 DEF CloseAtOnce, Closed, ForgetsAddress
<1>7. ASSUME NEW t \in Tasks, OpenStarts(t), UNCHANGED portVars
      PROVE  Goal
  <2>1. /\ state = DISCONNECTED /\ state' = CONNECTING
        /\ pc' = [pc EXCEPT ![t] = "opening"]
    BY <1>7, StateIsAsFound DEF OpenStarts, Base!OpenStarts, Base!SetState
  <2> QED
    BY <1>0, <1>7, <2>1 DEF OpenStarts, portVars
<1>8. ASSUME NEW t \in Tasks, OpenSucceeds(t), UNCHANGED portVars
      PROVE  Goal
  <2>1. /\ state = CONNECTING /\ state' = CONNECTED
        /\ pc[t] = "opening" /\ pc' = [pc EXCEPT ![t] = "idle"]
    BY <1>8, StateIsAsFound DEF OpenSucceeds, Base!OpenEnds, Base!SetState
  <2>2. PICK s \in Streams : stream' = s /\ live' = live \cup {s}
    BY <1>8 DEF OpenSucceeds, FreshStreams
  <2> QED
    BY <1>0, <1>8, <2>1, <2>2 DEF OpenSucceeds, portVars
<1>9. ASSUME NEW t \in Tasks, OpenFails(t), UNCHANGED portVars
      PROVE  Goal
  <2>1. /\ state = CONNECTING /\ state' = DISCONNECTED
        /\ pc[t] = "opening" /\ pc' = [pc EXCEPT ![t] = "idle"]
    BY <1>9, StateIsAsFound DEF OpenFails, Base!OpenEnds, Base!SetState
  <2> QED
    BY <1>0, <1>9, <2>1 DEF OpenFails, portVars
<1>10. ASSUME NEW t \in Tasks, OpensStored(t), UNCHANGED portVars
       PROVE  Goal
  <2>1. /\ state = DISCONNECTED /\ state' = CONNECTED
        /\ pc' = [pc EXCEPT ![t] = "idle"]
    BY <1>10, StateIsAsFound DEF OpensStored, Base!OpenAtOnce, Base!PassThroughTo
  <2>2. PICK s \in Streams : stream' = s /\ live' = live \cup {s}
    BY <1>10 DEF OpensStored, FreshStreams
  <2> QED
    BY <1>0, <1>10, <2>1, <2>2 DEF OpensStored, portVars
<1>11. ASSUME NEW t \in Tasks, OpenRefused(t), UNCHANGED portVars
       PROVE  Goal
  <2>1. /\ state = DISCONNECTED /\ state' = DISCONNECTED
        /\ pc' = [pc EXCEPT ![t] = "idle"]
    BY <1>11, StateIsAsFound DEF OpenRefused, Base!OpenAtOnce, Base!PassThroughTo
  <2> QED
    BY <1>0, <1>11, <2>1 DEF OpenRefused, portVars
<1>12. ASSUME NEW t \in Tasks, CloseStarts(t), UNCHANGED portVars
       PROVE  Goal
  <2>1. /\ state = CONNECTED /\ state' = DISCONNECTING
        /\ pc' = [pc EXCEPT ![t] = "closing"]
    BY <1>12, StateIsAsFound DEF CloseStarts, Base!CloseStarts, Base!SetState
  <2> QED
    BY <1>0, <1>12, <2>1 DEF CloseStarts, portVars
<1>13. ASSUME NEW t \in Tasks, UNCHANGED portVars,
              OpenWaits(t) \/ CloseWaits(t) \/ WaitReturns(t) \/ Cancelled(t)
       PROVE  Goal
  <2>1. /\ UNCHANGED <<state, stream, live, supply>>
        /\ \A u \in Tasks : pc'[u] = "opening" => pc[u] = "opening"
    BY <1>0, <1>13 DEF OpenWaits, CloseWaits, WaitReturns, Cancelled, Base!OpenJoins,
              Base!OpenQueues, Base!CloseJoins, Base!CloseQueues, Base!WaitReturns,
              Base!Cancelled, Base!Block, Base!Resume, Base!StateUnchanged
  <2> QED
    BY <1>13, <2>1 DEF portVars
<1>14. ASSUME NEW t \in Tasks, UNCHANGED portVars,
              CloseIsNoOp(t) \/ ReadStarts(t) \/ ReadReturns(t)
       PROVE  Goal
  BY <1>14 DEF CloseIsNoOp, ReadStarts, ReadReturns, baseVars, portVars
<1>15. ASSUME NEW t \in Tasks, Closed(t)
       PROVE  Goal
  BY <1>5, <1>6, <1>15 DEF Closed
<1>16. ASSUME NEW t \in Tasks, OtherStep(t)
       PROVE  Goal
  BY <1>7, <1>8, <1>9, <1>10, <1>11, <1>12, <1>13, <1>14, <1>16 DEF OtherStep
<1> QED
  BY <1>1, <1>2, <1>3, <1>4, <1>15, <1>16 DEF SerialNext, SerialStep

(* The invariant holds throughout. *)
LEMMA StreamInvariant == ASSUME Disciplined PROVE SerialSpec => [](StreamInv /\ AddressInv)
<1>1. SerialInit => StreamInv /\ AddressInv
  BY DEF SerialInit, Init, BornClosed, BornOpen, Base!Init, Base!DISCONNECTED,
         DISCONNECTED, CONNECTED, CONNECTING, StreamInv, ConnectedHasPort,
         AddressInv, AddressIsCurrent, IsPort
<1>2. ConnectionInv /\ StreamInv /\ AddressInv /\ [SerialNext]_allVars
        => StreamInv' /\ AddressInv'
  BY StreamStep
<1> QED
  BY <1>1, <1>2, ConnectionInvariant, PTL DEF SerialSpec

(* Streams that are created, taken over, wrapped or opened on a serial     *)
(* port: disciplined callers and their readers, which close the connection *)
(* too, never make it lose track of one that is open.                      *)
THEOREM StreamsDoNotLeak == ASSUME Disciplined PROVE SerialSpec => []NoStreamLeak
<1>1. StreamInv => NoStreamLeak
  BY DEF StreamInv, NoStreamLeak, DISCONNECTED, CONNECTED
<1> QED
  BY <1>1, StreamInvariant, PTL

(* A CONNECTED connection has an open stream, unless its last close() has  *)
(* failed and left none or the reader of a serial port has closed it.      *)
THEOREM StreamIsThere == ASSUME Disciplined PROVE SerialSpec => []ConnectedHasPort
<1>1. StreamInv => ConnectedHasPort
  BY DEF StreamInv
<1> QED
  BY <1>1, StreamInvariant, PTL

(* The address of a serial port is that of the port that is open, and no   *)
(* address is left of one that was closed.                                 *)
THEOREM AddressesAreCurrent == ASSUME Disciplined PROVE SerialSpec => []AddressIsCurrent
<1>1. AddressInv => AddressIsCurrent
  BY DEF AddressInv
<1> QED
  BY <1>1, StreamInvariant, PTL
=============================================================================

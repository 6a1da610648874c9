------------------------- MODULE UDPListenerProofs -------------------------
(***************************************************************************)
(* What was proved of ConnectionBase carries over to the sockets: every    *)
(* step of a UDP listener is a step of the connection that it extends, or  *)
(* leaves that connection alone.                                           *)
(***************************************************************************)
EXTENDS UDPListener, TLAPS

BaseProofs == INSTANCE ConnectionBaseProofs

(* A step of SocketConnectionBase is a step of ConnectionBase, taken by    *)
(* the same task, or it touches the socket only.                           *)
LEMMA SocketStep ==
    ASSUME NEW t \in Tasks,
           \/ OpenJoins(t) \/ OpenStarts(t) \/ OpenSucceeds(t) \/ OpenFails(t)
           \/ Close(t) \/ CloseQueues(t) \/ CloseIsNoOp(t)
           \/ WaitReturns(t) \/ Cancelled(t)
           \/ IoStarts(t) \/ IoEnds(t) \/ IoFindsUnusable(t)
    PROVE  [Base!Next]_(Base!vars)
<1>1. ASSUME OpenJoins(t) \/ OpenStarts(t) PROVE Base!Next
  BY <1>1 DEF OpenJoins, OpenStarts, Base!Next
<1>2. ASSUME OpenSucceeds(t) \/ OpenFails(t) PROVE Base!Next
  <2>1. \E ok \in BOOLEAN : Base!OpenEnds(t, ok)
    BY <1>2 DEF OpenSucceeds, OpenFails
  <2> QED
    BY <2>1 DEF Base!Next
<1>3. ASSUME Close(t) PROVE Base!Next
  <2>1. \E ok \in BOOLEAN : Base!CloseAtOnce(t, ok)
    BY <1>3 DEF Close
  <2> QED
    BY <2>1 DEF Base!Next
<1>4. ASSUME CloseQueues(t) \/ WaitReturns(t) \/ Cancelled(t) PROVE Base!Next
  BY <1>4 DEF CloseQueues, WaitReturns, Cancelled, Base!Next
<1>5. ASSUME CloseIsNoOp(t) \/ IoStarts(t) \/ IoEnds(t) \/ IoFindsUnusable(t)
      PROVE  UNCHANGED Base!vars
  BY <1>5 DEF CloseIsNoOp, IoStarts, IoEnds, IoFindsUnusable, baseVars, Base!vars
<1> QED
  BY <1>1, <1>2, <1>3, <1>4, <1>5

(* A UDP listener is, among other things, a connection. *)
LEMMA UDPListenerIsConnection == UDPSpec => Base!Spec
<1>1. UDPInit => Base!Init
  BY DEF UDPInit, Init
<1>2. ASSUME [UDPNext]_allVars PROVE [Base!Next]_(Base!vars)
  <2>1. CASE UNCHANGED allVars
    BY <2>1 DEF allVars, vars, baseVars, Base!vars
  <2>2. CASE SetUserDefined
    BY <2>2 DEF SetUserDefined, vars, baseVars, Base!vars
  <2>3. ASSUME NEW t \in Tasks,
               UDPOpenSucceeds(t) \/ UDPOpenFails(t) \/ UDPClose(t) \/ OtherStep(t)
        PROVE  [Base!Next]_(Base!vars)
    BY <2>3, SocketStep DEF UDPOpenSucceeds, UDPOpenFails, UDPClose, OtherStep
  <2> QED
    BY <1>2, <2>1, <2>2, <2>3 DEF UDPNext
<1> QED
  BY <1>1, <1>2, PTL DEF UDPSpec, Base!Spec

(* ConnectionBaseProofs speaks of the same connection. *)
LEMMA SameConnection == Base!Spec => BaseProofs!Spec
<1>1. Base!Init => BaseProofs!Init
  BY DEF Base!Init, BaseProofs!Init, Base!DISCONNECTED, BaseProofs!DISCONNECTED
<1>2. Base!Next => BaseProofs!Next
  BY DEF Base!Next, BaseProofs!Next, Base!OpenJoins, BaseProofs!OpenJoins, Base!OpenQueues,
         BaseProofs!OpenQueues, Base!OpenStarts, BaseProofs!OpenStarts, Base!OpenEnds,
         BaseProofs!OpenEnds, Base!OpenAtOnce, BaseProofs!OpenAtOnce, Base!CloseJoins,
         BaseProofs!CloseJoins, Base!CloseQueues, BaseProofs!CloseQueues, Base!CloseStarts,
         BaseProofs!CloseStarts, Base!CloseEnds, BaseProofs!CloseEnds, Base!CloseAtOnce,
         BaseProofs!CloseAtOnce, Base!WaitUntilConnected, BaseProofs!WaitUntilConnected,
         Base!WaitUntilDisconnected, BaseProofs!WaitUntilDisconnected, Base!WaitReturns,
         BaseProofs!WaitReturns, Base!Cancelled, BaseProofs!Cancelled, Base!EntersOpen,
         BaseProofs!EntersOpen, Base!EntersClose, BaseProofs!EntersClose, Base!SetState,
         BaseProofs!SetState, Base!PassThroughTo, BaseProofs!PassThroughTo, Base!Released,
         BaseProofs!Released, Base!Goto, BaseProofs!Goto, Base!Block, BaseProofs!Block,
         Base!Resume, BaseProofs!Resume, Base!StateUnchanged, BaseProofs!StateUnchanged,
         Base!NoneQueued, BaseProofs!NoneQueued, Base!Blocked, BaseProofs!Blocked,
         Base!OnConnected, BaseProofs!OnConnected, Base!OnDisconnected,
         BaseProofs!OnDisconnected, Base!DISCONNECTED, BaseProofs!DISCONNECTED,
         Base!CONNECTING, BaseProofs!CONNECTING, Base!CONNECTED, BaseProofs!CONNECTED,
         Base!DISCONNECTING, BaseProofs!DISCONNECTING
<1>3. UNCHANGED Base!vars => UNCHANGED BaseProofs!vars
  BY DEF Base!vars, BaseProofs!vars
<1> QED
  BY <1>1, <1>2, <1>3, PTL DEF Base!Spec, BaseProofs!Spec

(* ... and of the same contract. *)
LEMMA SameLifecycle == BaseProofs!ImplementsLifecycle => ImplementsLifecycle
<1>1. BaseProofs!Lifecycle!Init => Base!Lifecycle!Init
  BY DEF Base!Lifecycle!Init, BaseProofs!Lifecycle!Init, Base!Lifecycle!DISCONNECTED,
         BaseProofs!Lifecycle!DISCONNECTED
<1>2. [BaseProofs!Lifecycle!Next]_(BaseProofs!Lifecycle!vars)
        => [Base!Lifecycle!Next]_(Base!Lifecycle!vars)
  BY DEF Base!Lifecycle!Next, BaseProofs!Lifecycle!Next, Base!Lifecycle!BeginOpen,
         BaseProofs!Lifecycle!BeginOpen, Base!Lifecycle!BeginClose,
         BaseProofs!Lifecycle!BeginClose, Base!Lifecycle!EndOpen,
         BaseProofs!Lifecycle!EndOpen, Base!Lifecycle!EndClose,
         BaseProofs!Lifecycle!EndClose, Base!Lifecycle!OpenAtOnce,
         BaseProofs!Lifecycle!OpenAtOnce, Base!Lifecycle!CloseAtOnce,
         BaseProofs!Lifecycle!CloseAtOnce, Base!Lifecycle!vars, BaseProofs!Lifecycle!vars,
         Base!Lifecycle!DISCONNECTED, BaseProofs!Lifecycle!DISCONNECTED,
         Base!Lifecycle!CONNECTING, BaseProofs!Lifecycle!CONNECTING,
         Base!Lifecycle!CONNECTED, BaseProofs!Lifecycle!CONNECTED,
         Base!Lifecycle!DISCONNECTING, BaseProofs!Lifecycle!DISCONNECTING
<1> QED
  BY <1>1, <1>2, PTL DEF ImplementsLifecycle, Base!ImplementsLifecycle,
     BaseProofs!ImplementsLifecycle, BaseProofs!Lifecycle!Spec, Base!Lifecycle!Spec

(* For any number of disciplined callers and any supply of sockets, a UDP  *)
(* listener whose reads and writes may close it at any time implements the *)
(* lifecycle of a connection (close() called by read() and write()).       *)
THEOREM SocketRefinement == ASSUME Disciplined PROVE UDPSpec => ImplementsLifecycle
  BY UDPListenerIsConnection, SameConnection, SameLifecycle, BaseProofs!Refinement

-----------------------------------------------------------------------------
(***************************************************************************)
(* The socket behind the state                                             *)
(***************************************************************************)

(* The state tells whether there is a socket, and an open socket is always *)
(* the one that the connection knows.  DISCONNECTING is never seen because *)
(* _close() has no checkpoint.                                             *)
SocketInv ==
    /\ state \in {DISCONNECTED, CONNECTING, CONNECTED}
    /\ state # CONNECTED => socket = None /\ live = {}
    /\ state = CONNECTED => socket \in Sockets /\ live = {socket}

(* A task that has got past the dispatch of open() or close() finds the    *)
(* state that it was called for, even if it came from the queue.           *)
LEMMA StateIsAsFound ==
    ASSUME BaseProofs!DisciplineInv, NEW t \in Tasks
    PROVE  /\ Base!EntersOpen(t) => state = DISCONNECTED
           /\ Base!EntersClose(t) => state = CONNECTED
           /\ pc[t] = "opening" => state = CONNECTING
  BY DEF BaseProofs!DisciplineInv, BaseProofs!ReleaseStaysValid, BaseProofs!AttemptsMatchState,
         Base!EntersOpen, Base!EntersClose,
         Base!DISCONNECTED, Base!CONNECTED, BaseProofs!DISCONNECTED, BaseProofs!CONNECTED,
         BaseProofs!CONNECTING, DISCONNECTED, CONNECTED, CONNECTING

(* Each method of a socket keeps the invariant for disciplined callers. *)
LEMMA SocketInvStep ==
    ASSUME BaseProofs!DisciplineInv, SocketInv, [UDPNext]_allVars
    PROVE  SocketInv'
<1> USE DEF SocketInv, DISCONNECTED, CONNECTED, CONNECTING, DISCONNECTING,
            Base!DISCONNECTED, Base!CONNECTED, Base!CONNECTING, Base!DISCONNECTING
<1>1. CASE UNCHANGED allVars \/ SetUserDefined
  BY <1>1 DEF allVars, SetUserDefined, vars, baseVars
<1>2. ASSUME NEW t \in Tasks, UDPOpenSucceeds(t)
      PROVE  SocketInv'
  <2>1. state = CONNECTING /\ state' = CONNECTED
    BY <1>2, StateIsAsFound DEF UDPOpenSucceeds, OpenSucceeds, Base!OpenEnds, Base!SetState
  <2>2. \E s \in Sockets : socket' = s /\ live' = live \cup {s}
    BY <1>2 DEF UDPOpenSucceeds, OpenSucceeds, FreshSockets
  <2> QED
    BY <2>1, <2>2
<1>3. ASSUME NEW t \in Tasks, UDPOpenFails(t)
      PROVE  SocketInv'
  <2>1. state = CONNECTING /\ state' = DISCONNECTED
    BY <1>3, StateIsAsFound DEF UDPOpenFails, OpenFails, Base!OpenEnds, Base!SetState
  <2> QED
    BY <1>3, <2>1 DEF UDPOpenFails, OpenFails
<1>4. ASSUME NEW t \in Tasks, UDPClose(t)
      PROVE  SocketInv'
  <2>1. state = CONNECTED /\ socket # None
    BY <1>4, StateIsAsFound, SocketAssumption DEF UDPClose, Close, Base!CloseAtOnce
  <2>2. state' = DISCONNECTED
    BY <1>4, <2>1 DEF UDPClose, Close, Base!CloseAtOnce, Base!PassThroughTo
  <2> QED
    BY <1>4, <2>1, <2>2 DEF UDPClose, Close, CloseSocket
<1>5. ASSUME NEW t \in Tasks, OpenStarts(t)
      PROVE  SocketInv'
  <2>1. state = DISCONNECTED /\ state' = CONNECTING
    BY <1>5, StateIsAsFound DEF OpenStarts, Base!OpenStarts, Base!SetState
  <2> QED
    BY <1>5, <2>1 DEF OpenStarts
<1>6. ASSUME NEW t \in Tasks, OpenJoins(t) \/ CloseQueues(t) \/ WaitReturns(t) \/ Cancelled(t)
      PROVE  SocketInv'
  BY <1>6 DEF OpenJoins, CloseQueues, WaitReturns, Cancelled, Base!OpenJoins,
              Base!CloseQueues, Base!WaitReturns, Base!Cancelled, Base!Block, Base!Resume,
              Base!StateUnchanged
<1>7. ASSUME NEW t \in Tasks,
             CloseIsNoOp(t) \/ IoStarts(t) \/ IoEnds(t) \/ IoFindsUnusable(t)
      PROVE  SocketInv'
  BY <1>7 DEF CloseIsNoOp, IoStarts, IoEnds, IoFindsUnusable, baseVars
<1> QED
  BY <1>1, <1>2, <1>3, <1>4, <1>5, <1>6, <1>7 DEF UDPNext, OtherStep

(* The invariant holds throughout. *)
LEMMA SocketInvariant == ASSUME Disciplined PROVE UDPSpec => []SocketInv
<1>1. UDPInit => SocketInv
  BY DEF UDPInit, Init, Base!Init, SocketInv, DISCONNECTED, CONNECTED, CONNECTING,
         Base!DISCONNECTED
<1>2. BaseProofs!DisciplineInv /\ SocketInv /\ [UDPNext]_allVars => SocketInv'
  BY SocketInvStep
<1>3. UDPSpec => []BaseProofs!DisciplineInv
  <2>1. BaseProofs!Spec => [](BaseProofs!TypeOK /\ BaseProofs!DisciplineInv)
    BY BaseProofs!DisciplineInvariant
  <2> QED
    BY <2>1, UDPListenerIsConnection, SameConnection, PTL
<1> QED
  BY <1>1, <1>2, <1>3, PTL DEF UDPSpec

(* However open() and close() calls race, fail or are cancelled, and       *)
(* whatever reads and writes are under way, disciplined callers never make *)
(* the connection lose track of an open socket.                            *)
THEOREM SocketsDoNotLeak == ASSUME Disciplined PROVE UDPSpec => []NoSocketLeak
<1>1. SocketInv => NoSocketLeak
  BY DEF SocketInv, NoSocketLeak, DISCONNECTED, CONNECTED
<1> QED
  BY <1>1, SocketInvariant, PTL

(* ... and the assertion of _close() never fails. *)
THEOREM SocketIsThere == ASSUME Disciplined PROVE UDPSpec => []ConnectedHasSocket
<1>1. SocketInv => ConnectedHasSocket
  BY DEF SocketInv, ConnectedHasSocket, CONNECTED
<1> QED
  BY <1>1, SocketInvariant, PTL

-----------------------------------------------------------------------------
(***************************************************************************)
(* The broadcast address, for callers of any kind                          *)
(***************************************************************************)

(* The address that is derived from the socket comes and goes with it. *)
AddressInv ==
    /\ broadcastPort \in Ports \cup {None}
    /\ socket # None => inferred # None
    /\ socket = None /\ ~multicast => inferred = None

(* Without any discipline, broadcast() finds a derived address exactly     *)
(* when there is a socket to write to, late failures of multicast          *)
(* connections excepted.                                                   *)
THEOREM AddressHasSocket == UDPSpec => []AddressNeedsSocket
<1>1. UDPInit => AddressInv
  BY DEF UDPInit, Init, AddressInv
<1>2. AddressInv /\ [UDPNext]_allVars => AddressInv'
  <2> SUFFICES ASSUME AddressInv, [UDPNext]_allVars
               PROVE  AddressInv'
    OBVIOUS
  <2> USE SocketAssumption, PortAssumption DEF AddressInv, BroadcastPort
  <2>1. CASE UNCHANGED allVars \/ SetUserDefined
    BY <2>1 DEF allVars, addressVars, SetUserDefined, vars
  <2>2. ASSUME NEW t \in Tasks, UDPOpenSucceeds(t)
        PROVE  AddressInv'
    BY <2>2 DEF UDPOpenSucceeds, OpenSucceeds, FreshSockets
  <2>3. ASSUME NEW t \in Tasks, UDPOpenFails(t)
        PROVE  AddressInv'
    BY <2>3 DEF UDPOpenFails, OpenFails
  <2>4. ASSUME NEW t \in Tasks, UDPClose(t)
        PROVE  AddressInv'
    BY <2>4 DEF UDPClose, Close, CloseSocket
  <2>5. ASSUME NEW t \in Tasks, OtherStep(t)
        PROVE  AddressInv'
    BY <2>5 DEF OtherStep, OpenJoins, OpenStarts, CloseQueues, CloseIsNoOp, WaitReturns,
                Cancelled, IoStarts, IoEnds, IoFindsUnusable, addressVars
  <2> QED
    BY <2>1, <2>2, <2>3, <2>4, <2>5 DEF UDPNext
<1>3. AddressInv => AddressNeedsSocket
  BY DEF AddressInv, AddressNeedsSocket, HasBroadcastAddress
<1> QED
  BY <1>1, <1>2, <1>3, PTL DEF UDPSpec
=============================================================================

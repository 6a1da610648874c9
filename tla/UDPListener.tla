---------------------------- MODULE UDPListener ----------------------------
(***************************************************************************)
(* class UDPListenerConnection of connections/socket.py, with broadcasts   *)
(* allowed, and its multicast subclass: a SocketConnection that derives a  *)
(* broadcast address from its socket when it is opened.  The host of the   *)
(* address is fixed by the binding; what varies is the port.               *)
(***************************************************************************)
EXTENDS SocketConnection

CONSTANT Ports

ASSUME PortAssumption == None \notin Ports

VARIABLES
    multicast,       \* whether this is a MulticastUDPListenerConnection
    broadcastPort,   \* _broadcast_port
    inferred,        \* the port of _inferred_broadcast_address
    userDefined      \* whether there is a _user_defined_broadcast_address

addressVars == <<multicast, broadcastPort, inferred, userDefined>>
allVars == <<vars, addressVars>>

(* The user may have chosen the broadcast port. *)
UDPInit ==
    /\ Init
    /\ multicast \in BOOLEAN
    /\ broadcastPort \in Ports \cup {None}
    /\ inferred = None
    /\ userDefined = FALSE

(* The socket is bound to `port'; the first one decides unless the user    *)
(* has chosen.                                                             *)
BroadcastPort(port) == IF broadcastPort = None THEN port ELSE broadcastPort

UDPOpenSucceeds(t) ==
    /\ OpenSucceeds(t)
    /\ \E port \in Ports : broadcastPort' = BroadcastPort(port)
    /\ inferred' = broadcastPort'
    /\ UNCHANGED <<multicast, userDefined>>

(* The socket cannot be created or bound; or the broadcast address cannot  *)
(* be found, when the port is stored already; or the multicast group       *)
(* cannot be joined, when the address is stored, too.                      *)
UDPOpenFails(t) ==
    /\ OpenFails(t)
    /\ \/ UNCHANGED <<broadcastPort, inferred>>
       \/ /\ \E port \in Ports : broadcastPort' = BroadcastPort(port)
          /\ UNCHANGED inferred
       \/ /\ multicast
          /\ \E port \in Ports : broadcastPort' = BroadcastPort(port)
          /\ inferred' = broadcastPort'
    /\ UNCHANGED <<multicast, userDefined>>

(* Mutant: the address outlives the socket. *)
UDPClose_KeepsAddress(t) ==
    /\ Close(t)
    /\ UNCHANGED addressVars

(* _close() *)
UDPClose(t) ==
    /\ Close(t)
    /\ inferred' = None
    /\ UNCHANGED <<multicast, broadcastPort, userDefined>>

(* set_user_defined_broadcast_address(), with an address or None. *)
SetUserDefined ==
    /\ userDefined' \in BOOLEAN
    /\ UNCHANGED <<vars, multicast, broadcastPort, inferred>>

(* The calls that leave the addresses alone. *)
OtherStep(t) ==
    /\ \/ OpenJoins(t)
       \/ OpenStarts(t)
       \/ CloseQueues(t)
       \/ CloseIsNoOp(t)
       \/ WaitReturns(t)
       \/ Cancelled(t)
       \/ IoStarts(t)
       \/ IoEnds(t)
       \/ IoFindsUnusable(t)
    /\ UNCHANGED addressVars

UDPNext ==
    \/ \E t \in Tasks : UDPOpenSucceeds(t) \/ UDPOpenFails(t) \/ UDPClose(t) \/ OtherStep(t)
    \/ SetUserDefined

UDPSpec == UDPInit /\ [][UDPNext]_allVars

-----------------------------------------------------------------------------
(* broadcast_address is not None *)
HasBroadcastAddress == userDefined \/ inferred # None

(* "None if there is no such address at the moment. The latter may happen  *)
(* if the connection is closed" (broadcast_address): without a user-defined *)
(* address, broadcast() finds an address exactly when write() will find a  *)
(* socket, so that a closed connection raises NoBroadcastAddressError,     *)
(* which BroadcastMessageChannel expects.  A multicast connection whose    *)
(* open() fails late is the exception: it keeps the address.               *)
AddressNeedsSocket ==
    ~userDefined =>
        /\ socket # None => HasBroadcastAddress
        /\ socket = None /\ ~multicast => ~HasBroadcastAddress
=============================================================================

----------------------------- MODULE SerialPort -----------------------------
(***************************************************************************)
(* class SerialPortConnection of connections/serial.py and its stream (the *)
(* one of POSIX systems): a StreamConnection that opens a port without     *)
(* passing a checkpoint, tells the path of the port as its address, and    *)
(* whose stream may close itself.                                          *)
(*                                                                         *)
(* Since nothing runs during an open(), a reader that was woken up because *)
(* its stream is closed may find the connection open again with another    *)
(* stream, and then it closes that one (StreamConnectionBase.read).        *)
(***************************************************************************)
EXTENDS StreamConnection

CONSTANT Paths   \* the ports that a USB device may show up as

VARIABLES
    address,     \* _resolved_path
    port,        \* the path of the port that the stream is for
    failed,      \* history: a port could not be opened since the last port was closed
    broken,      \* history: the last close() of the connection failed
    selfClosed   \* history: the stream was closed by a reader of its own

portVars == <<address, port, failed, broken, selfClosed>>
allVars == <<vars, portVars>>

(* The stream connections of the other modules, or a serial port. *)
SerialInit ==
    /\ \/ Init
       \/ /\ Base!Init
          /\ stream = None
          /\ live = {}
          /\ supply = "port"
          /\ on = [t \in Tasks |-> None]
          /\ inRead = {}
    /\ address = None
    /\ port = None
    /\ failed = FALSE
    /\ broken = FALSE
    /\ selfClosed = FALSE

IsPort == supply = "port"

(* _create_stream() finds a device and opens its port. *)
PortOpens(t) ==
    /\ IsPort
    /\ t \notin inRead
    /\ Base!OpenAtOnce(t, TRUE)
    /\ \E s \in FreshStreams, path \in Paths :
          /\ stream' = s
          /\ live' = live \cup {s}
          /\ address' = path
          /\ port' = path
    /\ failed' = FALSE
    /\ selfClosed' = FALSE
    /\ UNCHANGED <<on, inRead, supply, broken>>

(* It finds none, or it cannot open the port: then the address is stored   *)
(* already.                                                                *)
PortFails(t) ==
    /\ IsPort
    /\ t \notin inRead
    /\ Base!OpenAtOnce(t, FALSE)
    /\ \/ UNCHANGED <<address, failed>>
       \/ address' \in Paths /\ failed' = TRUE
    /\ UNCHANGED <<stream, live, on, inRead, supply, port, broken, selfClosed>>

(* Mutant: the address outlives the port. *)
ForgetsAddress_Never == UNCHANGED <<address, failed>>

(* The finally block of _close() *)
ForgetsAddress == address' = None /\ failed' = FALSE

(* A read() that was told of the end of the stream tries again, and when   *)
(* that fails it closes the stream and passes a checkpoint before read()   *)
(* goes on to close the connection.                                        *)
ReaderClosesStream(t) ==
    /\ IsPort
    /\ Receiving(t)
    /\ on[t] \in live
    /\ live' = live \ {on[t]}
    /\ selfClosed' = (selfClosed \/ on[t] = stream)
    /\ UNCHANGED <<baseVars, stream, on, inRead, supply, address, port, failed, broken>>

(* The end of _close(), and the other steps of StreamConnection. *)
Closed(t) ==
    /\ (\E ok \in BOOLEAN : CloseEnds(t, ok)) \/ CloseAtOnce(t)
    /\ ForgetsAddress
    /\ port' = None
    /\ broken' = (state' = CONNECTED)
    /\ selfClosed' = FALSE

OtherStep(t) ==
    /\ \/ OpenWaits(t)
       \/ OpenStarts(t)
       \/ OpenSucceeds(t)
       \/ OpenFails(t)
       \/ OpensStored(t)
       \/ OpenRefused(t)
       \/ CloseWaits(t)
       \/ CloseIsNoOp(t)
       \/ CloseStarts(t)
       \/ WaitReturns(t)
       \/ Cancelled(t)
       \/ ReadStarts(t)
       \/ ReadReturns(t)
    /\ UNCHANGED portVars

SerialStep(t) ==
    \/ PortOpens(t)
    \/ PortFails(t)
    \/ ReaderClosesStream(t)
    \/ Closed(t)
    \/ OtherStep(t)

SerialNext == \E t \in Tasks : SerialStep(t)

SerialSpec ==
    /\ SerialInit
    /\ [][SerialNext]_allVars
    /\ \A t \in Tasks : WF_allVars(MustStep(t) /\ SerialStep(t))

-----------------------------------------------------------------------------
(* address is the path of the port that is open, also after the device has *)
(* come back under another name, and it is forgotten with the port however *)
(* the connection is closed.  The promise of address, "None if the serial  *)
(* port is not connected", is kept for ports that were closed; nothing is  *)
(* claimed once an open() has failed, for then the code breaks it.         *)
AddressIsCurrent ==
    IsPort => /\ stream \in live => address = port
              /\ stream = None /\ ~failed => address = None

(* With readers that close the connection, too, disciplined callers find   *)
(* an open stream behind a CONNECTED connection of any kind, and never one *)
(* that somebody has closed, but for two cases: the last close() failed or *)
(* was cancelled, and has left no stream at all; or the reader of a serial *)
(* port has closed its stream and has not come to close the connection.    *)
ConnectedHasPort ==
    state = CONNECTED => \/ stream \in live
                         \/ stream = None /\ broken
                         \/ stream # None /\ selfClosed
=============================================================================

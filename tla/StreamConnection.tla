-------------------------- MODULE StreamConnection --------------------------
(***************************************************************************)
(* class StreamConnectionBase of connections/stream.py, the base of the    *)
(* TCP and Unix domain socket connections: a ConnectionBase that owns one  *)
(* Trio stream, with tasks that read from it.                              *)
(*                                                                         *)
(* aclose() of a Trio socket stream closes the stream at once and then     *)
(* passes a checkpoint.  A read() that fails or meets the end of the       *)
(* stream calls close() on the CONNECTION before it returns.               *)
(*                                                                         *)
(* Readers are closers too, so that the discipline of ConnectionBase takes *)
(* this form: one read() at a time, none while a close() waits in the      *)
(* queue, and no explicit close() joins the queue while a read() is out.   *)
(***************************************************************************)
EXTENDS ConnectionStates

CONSTANTS
    Tasks,
    Disciplined,
    Failures,
    Streams,      \* the streams _create_stream() returns (the bound of the model)
    None

ASSUME StreamAssumption == None \notin Streams

VARIABLES
    state, isConnected, isDisconnected, pc, woken,   \* of ConnectionBase
    stream,       \* _stream
    live,         \* the streams that are open
    on,           \* the stream a task reads from or closes down, or None
    inRead,       \* the tasks inside read()
    supply        \* what _create_stream() has to offer: "many" streams, "one" or "none"

baseVars == <<state, isConnected, isDisconnected, pc, woken>>
vars == <<baseVars, stream, live, on, inRead, supply>>

Base == INSTANCE ConnectionBase

(* A connection that makes a stream whenever it is opened, or the          *)
(* IncomingTCPStreamConnection with the socket of its client.  A socket    *)
(* that was stored there and never opened counts as no stream yet.         *)
BornClosed ==
    /\ Base!Init
    /\ stream = None
    /\ live = {}
    /\ supply \in {"many", "one"}

(* A StreamWrapperConnection is open from the beginning. *)
BornOpen ==
    /\ state = CONNECTED
    /\ isConnected = TRUE
    /\ isDisconnected = FALSE
    /\ pc = [t \in Tasks |-> "idle"]
    /\ woken = {}
    /\ stream \in Streams
    /\ live = {stream}
    /\ supply = "none"

Init ==
    /\ BornClosed \/ BornOpen
    /\ on = [t \in Tasks |-> None]
    /\ inRead = {}

(* The task t waits for data. *)
Receiving(t) == t \in inRead /\ pc[t] = "idle"

(* A stream that nothing refers to any more. *)
FreshStreams == Streams \ (live \cup {stream} \cup {on[t] : t \in Tasks})

(* The task t forgets the stream it was working on; a read() that has come *)
(* to the end of its close() returns.                                      *)
Returns(t) ==
    /\ on' = [on EXCEPT ![t] = None]
    /\ inRead' = inRead \ {t}

(***************************************************************************)
(* open()                                                                  *)
(***************************************************************************)

OpenWaits(t) ==
    /\ t \notin inRead
    /\ Base!OpenJoins(t) \/ Base!OpenQueues(t)
    /\ UNCHANGED <<stream, live, on, inRead, supply>>

OpenStarts(t) ==
    /\ t \notin inRead
    /\ supply = "many"
    /\ Base!OpenStarts(t)
    /\ UNCHANGED <<stream, live, on, inRead, supply>>

(* Every reader of a closed stream has run: Trio runs all runnable tasks   *)
(* before it looks for the network events that complete an open().         *)
Settled == \A t \in Tasks : Receiving(t) => on[t] \in live

(* _create_stream() returns a new stream, or it fails. *)
OpenSucceeds(t) ==
    /\ Base!OpenEnds(t, TRUE)
    /\ Settled
    /\ \E s \in FreshStreams : stream' = s /\ live' = live \cup {s}
    /\ UNCHANGED <<on, inRead, supply>>

OpenFails(t) ==
    /\ Base!OpenEnds(t, FALSE)
    /\ UNCHANGED <<stream, live, on, inRead, supply>>

(* The stored socket becomes the stream, without a checkpoint; from then   *)
(* on there is none to be had, and neither is there for a wrapper.         *)
OpensStored(t) ==
    /\ t \notin inRead
    /\ supply = "one"
    /\ Base!OpenAtOnce(t, TRUE)
    /\ supply' = "none"
    /\ \E s \in FreshStreams : stream' = s /\ live' = live \cup {s}
    /\ UNCHANGED <<on, inRead>>

OpenRefused(t) ==
    /\ t \notin inRead
    /\ supply = "none"
    /\ Base!OpenAtOnce(t, FALSE)
    /\ UNCHANGED <<stream, live, on, inRead, supply>>

(***************************************************************************)
(* close(), called by a task, or by its read() when the stream ended,      *)
(* failed or was closed under the reader.  A read() without an open stream *)
(* fails before it waits for anything: it is a mere call of close().       *)
(***************************************************************************)

CloseWaits(t) ==
    /\ Disciplined /\ state = CONNECTING /\ t \notin inRead
         => \A u \in Tasks : ~Receiving(u)
    /\ Base!CloseJoins(t) \/ Base!CloseQueues(t)
    /\ UNCHANGED <<stream, live, on, inRead, supply>>

(* The state is DISCONNECTED: close() returns, and read() with it. *)
CloseIsNoOp(t) ==
    /\ Receiving(t)
    /\ state = DISCONNECTED
    /\ Returns(t)
    /\ UNCHANGED <<baseVars, stream, live, supply>>

(* Mutant: the stream is not closed before it is forgotten. *)
CloseStarts_NoAclose(t) ==
    /\ stream # None
    /\ Base!CloseStarts(t)
    /\ on' = [on EXCEPT ![t] = stream]
    /\ UNCHANGED <<stream, live, inRead, supply>>

(* _close() with a stream: aclose() closes it and passes a checkpoint. *)
CloseStarts(t) ==
    /\ stream # None
    /\ Base!CloseStarts(t)
    /\ live' = live \ {stream}
    /\ on' = [on EXCEPT ![t] = stream]
    /\ UNCHANGED <<stream, inRead, supply>>

(* Mutant: close() forgets to leave DISCONNECTING. *)
CloseEnds_StaysDisconnecting(t, ok) ==
    /\ pc[t] = "closing"
    /\ ok
    /\ Base!SetState(t, state)
    /\ Base!Goto(t, "idle")
    /\ stream' = None
    /\ Returns(t)
    /\ UNCHANGED <<live, supply>>

(* The finally block forgets the current stream, also when the close() was *)
(* cancelled or failed.                                                    *)
CloseEnds(t, ok) ==
    /\ Base!CloseEnds(t, ok)
    /\ stream' = None
    /\ Returns(t)
    /\ UNCHANGED <<live, supply>>

(* _close() without a stream. *)
CloseAtOnce(t) ==
    /\ stream = None
    /\ Base!CloseAtOnce(t, TRUE)
    /\ Returns(t)
    /\ UNCHANGED <<stream, live, supply>>

WaitReturns(t) ==
    /\ Base!WaitReturns(t)
    /\ Returns(t)
    /\ UNCHANGED <<stream, live, supply>>

Cancelled(t) ==
    /\ Base!Cancelled(t)
    /\ Returns(t)
    /\ UNCHANGED <<stream, live, supply>>

(***************************************************************************)
(* read() (and write(), which never closes anything)                       *)
(***************************************************************************)

ReadStarts(t) ==
    /\ pc[t] = "idle"
    /\ t \notin inRead
    /\ stream \in live
    /\ Disciplined => inRead = {} /\ \A u \in Tasks : pc[u] # "closeQueued"
    /\ inRead' = inRead \cup {t}
    /\ on' = [on EXCEPT ![t] = stream]
    /\ UNCHANGED <<baseVars, stream, live, supply>>

(* Mutant: read() closes the stream instead of the connection. *)
ReadReturns_ClosesStream(t) ==
    /\ Receiving(t)
    /\ Returns(t)
    /\ live' = live \ {on[t]}
    /\ UNCHANGED <<baseVars, stream, supply>>

(* Data arrived, maybe just before the stream was closed; or the read() is *)
(* cancelled.                                                              *)
ReadReturns(t) ==
    /\ Receiving(t)
    /\ Returns(t)
    /\ UNCHANGED <<baseVars, stream, live, supply>>

Step(t) ==
    \/ OpenWaits(t)
    \/ OpenStarts(t)
    \/ OpenSucceeds(t)
    \/ OpenFails(t)
    \/ OpensStored(t)
    \/ OpenRefused(t)
    \/ CloseWaits(t)
    \/ CloseIsNoOp(t)
    \/ CloseStarts(t)
    \/ \E ok \in BOOLEAN : CloseEnds(t, ok)
    \/ CloseAtOnce(t)
    \/ WaitReturns(t)
    \/ Cancelled(t)
    \/ ReadStarts(t)
    \/ ReadReturns(t)

Next == \E t \in Tasks : Step(t)

Spec == Init /\ [][Next]_vars

(* Tasks that were released run, _open() and _close() end, and Trio makes  *)
(* a read() on a closed stream raise.                                      *)
MustStep(t) ==
    \/ t \in woken
    \/ pc[t] \in {"opening", "closing"}
    \/ Receiving(t) /\ on[t] \notin live

FairSpec == Spec /\ \A t \in Tasks : WF_vars(MustStep(t) /\ Step(t))

-----------------------------------------------------------------------------
(* Disciplined callers never lose track of an open stream, whatever fails  *)
(* or is cancelled, and no stream is open behind a closed connection.      *)
NoStreamLeak ==
    /\ live \subseteq {stream}
    /\ state = DISCONNECTED => live = {}

(* Every open() and close() returns, and so does a read() whose stream is  *)
(* gone: calls do not wait for each other in a circle, however the tasks   *)
(* close and reopen the connection meanwhile.  Only a call that waits for  *)
(* an attempt that has failed may have to wait on.                         *)
CallsReturn ==
    \A t \in Tasks :
        pc[t] # "idle" \/ (t \in inRead /\ on[t] \notin live)
            ~> \/ pc[t] = "idle" /\ t \notin inRead
               \/ pc[t] \in {"openJoins", "closeQueued"} /\ state = DISCONNECTED
               \/ pc[t] \in {"openQueued", "closeJoins"} /\ state = CONNECTED
=============================================================================

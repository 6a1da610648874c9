----------------------------- MODULE RpcSession -----------------------------
(***************************************************************************)
(* serve_rpc_requests() of channels/rpc.py: remote procedure calls over a  *)
(* message channel.  A session has three parts in one nursery: the inbound *)
(* task handles the messages of the peer one after the other, the outbound *)
(* task writes what others put into a queue of length zero, and the body   *)
(* of the context manager makes calls.  The handler of the inbound task    *)
(* may make calls, too.                                                    *)
(***************************************************************************)
EXTENDS Sequences, SequencesExt

CONSTANTS
    BodyCalls,      \* calls of send_request() by the body of the session
    HandlerCalls,   \* calls of send_request() by the handler
    OneWay,         \* the calls among them that are notifications
    Reply,          \* the response to a request of the peer
    StringIds,      \* whether the protocol identifies its requests by strings
    None

Calls == BodyCalls \cup HandlerCalls

ASSUME CallAssumption ==
    /\ BodyCalls \cap HandlerCalls = {}
    /\ OneWay \subseteq Calls
    /\ Reply \notin Calls
    /\ None \notin Calls \cup {Reply}
    /\ StringIds \in BOOLEAN

VARIABLES
    call,       \* where each call is
    future,     \* pending_requests: the futures of the calls
    queue,      \* the senders blocked in out_queue_tx.send(), in their order
    tx, rx,     \* whether the two ends of the queue are open
    inbound,    \* what the inbound task does
    outbound,   \* what the outbound task writes, None while it waits
    written,    \* the calls that the peer may have seen
    body,       \* what the body does
    scope,      \* whether cancel_scope is cancelled
    crashed,    \* whether an exception has cancelled the nursery
    answered    \* history: the calls whose answer came before they were told to give up

lane == <<queue, tx, rx, outbound, written>>
session == <<body, scope, crashed>>
vars == <<call, future, lane, inbound, session, answered>>

Over == {"returned", "failed", "timedOut", "cancelled", "closed"}
InTime(c) == call[c] \in {"sending", "sent", "waiting"}
InProgress(c) == InTime(c) \/ call[c] \in {"expired", "aborted"}
Answer == {"result", "error"}

Init ==
    /\ call = [c \in Calls |-> "new"]
    /\ future = [c \in Calls |-> "none"]
    /\ queue = <<>>
    /\ tx = TRUE /\ rx = TRUE
    /\ inbound = "reading"
    /\ outbound = None
    /\ written = {}
    /\ body = "running" /\ scope = FALSE /\ crashed = FALSE
    /\ answered = {}

(***************************************************************************)
(* The queue between the senders and the outbound task                     *)
(***************************************************************************)

(* What becomes of the calls when those in S leave the queue. *)
Moved(S, to) == [c \in Calls |-> IF c \in S THEN to ELSE call[c]]

(* Mutant: the task ends, but does not close its end of the queue. *)
OutboundEnds_KeepsQueue ==
    /\ outbound' = "over"
    /\ UNCHANGED rx

(* The outbound task ends, and the queue breaks under its senders. *)
OutboundEnds ==
    /\ outbound' = "over"
    /\ rx' = FALSE

(* out_queue_tx is closed under its blocked senders, and the outbound task *)
(* ends if it waits for them.                                              *)
TxCloses ==
    /\ tx' = FALSE
    /\ call' = Moved(ToSet(queue), "closed")
    /\ queue' = <<>>
    /\ IF outbound = None THEN OutboundEnds ELSE UNCHANGED <<outbound, rx>>

(* The message at the head of the queue is handed over and may be seen by  *)
(* the peer from now on.                                                   *)
Taken(m) ==
    /\ written' = written \cup ({m} \ {Reply})
    /\ queue' = Tail(queue)

(* The outbound task asks for its next message. *)
TakesNext ==
    IF queue # <<>>
    THEN /\ outbound' = Head(queue)
         /\ Taken(Head(queue))
         /\ call' = Moved({Head(queue)}, "sent")
         /\ inbound' = IF Head(queue) = Reply THEN "reading" ELSE inbound
         /\ UNCHANGED rx
    ELSE /\ IF tx THEN outbound' = None /\ UNCHANGED rx ELSE OutboundEnds
         /\ UNCHANGED <<queue, call, inbound, written>>

(***************************************************************************)
(* send_request()                                                          *)
(***************************************************************************)

(* Mutant: the future is not registered before the request is sent. *)
Register_Late(c) == UNCHANGED future

(* pending_requests.new(), before the request is sent. *)
Register(c) ==
    future' = IF c \in OneWay THEN future ELSE [future EXCEPT ![c] = "pending"]

(* out_queue_tx.send(): it raises, or it hands the request over to the     *)
(* outbound task, or it waits.                                             *)
Send(c) ==
    \/ /\ ~(tx /\ rx)
       /\ call' = Moved({c}, "closed")
       /\ UNCHANGED <<queue, outbound, written>>
    \/ /\ tx /\ rx /\ outbound = None
       /\ call' = Moved({c}, "sent")
       /\ outbound' = c
       /\ written' = written \cup {c}
       /\ UNCHANGED queue
    \/ /\ tx /\ rx /\ outbound # None
       /\ call' = Moved({c}, "sending")
       /\ queue' = Append(queue, c)
       /\ UNCHANGED <<outbound, written>>

BodyMakes(c) ==
    /\ c \in BodyCalls
    /\ call[c] = "new"
    /\ body = "running"
    /\ ~scope /\ ~crashed
    /\ Register(c)
    /\ Send(c)
    /\ UNCHANGED <<tx, rx, inbound, session, answered>>

(* The inbound task waits for the call that its handler makes. *)
HandlerMakes(c) ==
    /\ c \in HandlerCalls
    /\ call[c] = "new"
    /\ inbound = "handling"
    /\ ~crashed
    /\ Register(c)
    /\ Send(c)
    /\ inbound' = "calling"
    /\ UNCHANGED <<tx, rx, session, answered>>

(* The sender runs again: a notification is done, a request waits for its  *)
(* future.                                                                 *)
SendReturns(c) ==
    /\ call[c] = "sent"
    /\ call' = [call EXCEPT ![c] = IF c \in OneWay THEN "returned" ELSE "waiting"]
    /\ UNCHANGED <<future, lane, inbound, session, answered>>

(* The end of a call that waited: its future is removed from the map. *)
Leaves(c, how) ==
    /\ call' = [call EXCEPT ![c] = how]
    /\ future' = [future EXCEPT ![c] = "none"]
    /\ UNCHANGED <<lane, inbound, session, answered>>

(* future.wait() returns the result or raises the error. *)
FutureIsDone(c) ==
    /\ call[c] = "waiting"
    /\ future[c] \in Answer
    /\ Leaves(c, IF future[c] = "result" THEN "returned" ELSE "failed")

(* Mutant: there is no time limit. *)
TimesOut_Never(c) == FALSE /\ UNCHANGED vars

(* The deadline of fail_after() passes: Trio wakes the call up with an     *)
(* exception, unless its future was faster; the time limit is longer than  *)
(* one turn of the scheduler.                                              *)
TimesOut(c) ==
    /\ call[c] = "waiting"
    /\ future[c] \notin Answer
    /\ call' = [call EXCEPT ![c] = "expired"]
    /\ UNCHANGED <<future, lane, inbound, session, answered>>

(* A call is cancelled by the session or by its caller: while it waits for *)
(* the queue, which leaves its future in the map, or later.                *)
Cancelled(c) ==
    \/ /\ call[c] = "sending"
       /\ call' = [call EXCEPT ![c] = "cancelled"]
       /\ \E i \in DOMAIN queue : queue[i] = c /\ queue' = RemoveAt(queue, i)
       /\ UNCHANGED <<future, tx, rx, inbound, outbound, written, session, answered>>
    \/ /\ \/ call[c] = "sent" /\ c \notin OneWay
          \/ call[c] = "waiting" /\ future[c] \notin Answer
       /\ call' = [call EXCEPT ![c] = "aborted"]
       /\ UNCHANGED <<future, lane, inbound, session, answered>>

(* Mutant: the future stays in the map. *)
GivesUp_Stays(c) ==
    /\ call[c] \in {"expired", "aborted"}
    /\ call' = [call EXCEPT ![c] = IF @ = "expired" THEN "timedOut" ELSE "cancelled"]
    /\ UNCHANGED <<future, lane, inbound, session, answered>>

(* The call runs again and raises TooSlowError or Cancelled, even if an    *)
(* answer has come since it was woken up.                                  *)
GivesUp(c) ==
    /\ call[c] \in {"expired", "aborted"}
    /\ Leaves(c, IF call[c] = "expired" THEN "timedOut" ELSE "cancelled")

(***************************************************************************)
(* handle_inbound_messages()                                               *)
(***************************************************************************)

(* A future is stored under the string form of the id of its request and   *)
(* looked up under the id of the response as it is.                        *)
Found(c) == IF StringIds THEN future[c] ELSE "none"

(* Mutant: later answers replace the first one. *)
Resolve_Again(c, kind) ==
    future' = IF Found(c) # "none" THEN [future EXCEPT ![c] = kind] ELSE future

(* The first answer to a request that is pending counts; stale and         *)
(* duplicate ones are ignored.                                             *)
Resolve(c, kind) ==
    future' = IF Found(c) = "pending" THEN [future EXCEPT ![c] = kind] ELSE future

ReceiveResponse(c, kind) ==
    /\ inbound = "reading"
    /\ c \in written \ OneWay
    /\ Resolve(c, kind)
    /\ answered' = IF InTime(c) THEN answered \cup {c} ELSE answered
    /\ UNCHANGED <<call, lane, inbound, session>>

ReceiveRequest ==
    /\ inbound = "reading"
    /\ inbound' = "handling"
    /\ UNCHANGED <<call, future, lane, session, answered>>

HandlerResumes ==
    /\ inbound = "calling"
    /\ \A c \in HandlerCalls : ~InProgress(c)
    /\ inbound' = "handling"
    /\ UNCHANGED <<call, future, lane, session, answered>>

(* The handler returns nothing, or the request was a notification. *)
HandlerReturns ==
    /\ inbound = "handling"
    /\ inbound' = "reading"
    /\ UNCHANGED <<call, future, lane, session, answered>>

(* The handler returns a response, which is put into the queue. *)
HandlerReplies ==
    /\ inbound = "handling"
    /\ rx
    /\ IF outbound = None
       THEN outbound' = Reply /\ inbound' = "reading" /\ UNCHANGED queue
       ELSE queue' = Append(queue, Reply) /\ inbound' = "replying" /\ UNCHANGED outbound
    /\ UNCHANGED <<call, future, tx, rx, written, session, answered>>

(* The channel ends: the queue is closed, and after a checkpoint ... *)
EndOfChannel ==
    /\ inbound = "reading"
    /\ TxCloses
    /\ inbound' = "closing"
    /\ UNCHANGED <<future, written, session, answered>>

(* Mutant: the body is not told. *)
CancelsScope_Never ==
    /\ inbound = "closing"
    /\ inbound' = "over"
    /\ UNCHANGED <<call, future, lane, session, answered>>

(* ... the body is cancelled. *)
CancelsScope ==
    /\ inbound = "closing"
    /\ inbound' = "over"
    /\ scope' = TRUE
    /\ UNCHANGED <<call, future, lane, body, crashed, answered>>

(* The channel or the handler raises, or the nursery is cancelled: the     *)
(* queue is closed on the way out.                                         *)
InboundRaises ==
    /\ \/ inbound \in {"reading", "handling"}
       \/ crashed /\ inbound \in {"replying", "closing"}
    /\ TxCloses
    /\ inbound' = "over"
    /\ crashed' = TRUE
    /\ UNCHANGED <<future, written, body, scope, answered>>

(***************************************************************************)
(* handle_outbound_messages() and the body                                 *)
(***************************************************************************)

OutboundWrites ==
    /\ outbound \in Calls \cup {Reply}
    /\ TakesNext
    /\ UNCHANGED <<future, tx, session, answered>>

(* The channel raises, or the nursery is cancelled; calls in the queue get *)
(* the error of a broken queue, and so does the inbound task, which the    *)
(* nursery cancels anyway.                                                 *)
OutboundRaises ==
    /\ outbound \in Calls \cup {Reply} \/ (crashed /\ outbound = None)
    /\ OutboundEnds
    /\ call' = Moved(ToSet(queue), "closed")
    /\ queue' = <<>>
    /\ crashed' = TRUE
    /\ UNCHANGED <<future, tx, inbound, written, body, scope, answered>>

(* The body returns or is cancelled, or it raises. *)
BodyEnds ==
    /\ body = "running"
    /\ \A c \in BodyCalls : ~InProgress(c)
    /\ body' = "over"
    /\ crashed' \in {crashed, TRUE}
    /\ UNCHANGED <<call, future, lane, inbound, scope, answered>>

InboundStep ==
    \/ \E c \in Calls, kind \in Answer : ReceiveResponse(c, kind)
    \/ ReceiveRequest
    \/ HandlerResumes
    \/ HandlerReturns
    \/ HandlerReplies
    \/ EndOfChannel
    \/ CancelsScope
    \/ InboundRaises

CallStep(c) ==
    \/ BodyMakes(c)
    \/ HandlerMakes(c)
    \/ SendReturns(c)
    \/ FutureIsDone(c)
    \/ TimesOut(c)
    \/ Cancelled(c)
    \/ GivesUp(c)

Next ==
    \/ \E c \in Calls : CallStep(c)
    \/ InboundStep
    \/ OutboundWrites
    \/ OutboundRaises
    \/ BodyEnds

Spec == Init /\ [][Next]_vars

(* Trio runs what is runnable, time passes, handlers return, and a body    *)
(* that is cancelled ends.  The peer may run a session of the same kind,   *)
(* which reads what we write only if it is not kept from it by a response  *)
(* of its own: a write ends if our inbound task keeps reading, or if the   *)
(* channel has come to its end.                                            *)
Fairness ==
    /\ \A c \in Calls :
        /\ WF_vars(SendReturns(c))
        /\ WF_vars(FutureIsDone(c) \/ TimesOut(c))
        /\ WF_vars(GivesUp(c))
        /\ WF_vars((scope \/ crashed) /\ Cancelled(c))
    /\ WF_vars(HandlerResumes)
    /\ WF_vars(HandlerReturns \/ HandlerReplies \/ (inbound = "handling" /\ InboundRaises))
    /\ WF_vars(CancelsScope)
    /\ WF_vars(crashed /\ InboundRaises)
    /\ SF_vars(inbound = "reading" /\ (OutboundWrites \/ OutboundRaises))
    /\ WF_vars((crashed \/ inbound \in {"closing", "over"}) /\ (OutboundWrites \/ OutboundRaises))
    /\ WF_vars((scope \/ crashed) /\ BodyEnds)

FairSpec == Spec /\ Fairness

-----------------------------------------------------------------------------
(* Nobody waits in a queue that nobody empties: a call that is sending, or *)
(* a response of the handler, is in the queue, and the outbound task will  *)
(* come back for it, as long as the queue is not broken.                   *)
QueueIsServed ==
    LET served == rx /\ outbound \in Calls \cup {Reply} IN
    /\ \A c \in Calls : call[c] = "sending" => c \in ToSet(queue) /\ served
    /\ inbound = "replying" /\ rx => Reply \in ToSet(queue) /\ served

(* "TooSlowError: if the server did not respond in time" (send_request):   *)
(* it is never raised if the answer came before the deadline, even if it   *)
(* came before the call had begun to wait for it.                          *)
AnswerBeatsTimeout ==
    \A c \in answered : call[c] \notin {"expired", "timedOut"}

(* No future outlives its call in pending_requests, except those of calls  *)
(* that ended before their request was sent.                               *)
FuturesAreRemoved ==
    \A c \in written : future[c] # "none" => InProgress(c)

(* The first answer decides: whatever else the peer sends, the call ends   *)
(* with it, unless it was woken up before because its time was over or it  *)
(* was cancelled; then it gives up, answer or not.                         *)
FirstAnswerCounts ==
    [][\A c \in Calls : future[c] \in Answer =>
        \/ future'[c] = future[c] /\ InProgress(c)'
        \/ call[c] = "waiting"
           /\ call'[c] = (IF future[c] = "result" THEN "returned" ELSE "failed")
        \/ call[c] = "expired" /\ call'[c] = "timedOut"
        \/ call[c] = "aborted" /\ call'[c] = "cancelled"]_vars

(* The inbound task waits for the outbound task to take a message, and the *)
(* outbound task waits for the peer to read one.                           *)
Jammed ==
    /\ inbound \in {"replying", "calling"}
    /\ outbound \in Calls \cup {Reply}

(* Every call ends, also one that the handler makes while nobody receives  *)
(* its response, and the inbound task comes back to its channel, unless    *)
(* the session is jammed for good by a peer that waits for us to read.     *)
CallsEnd ==
    /\ \A c \in Calls : InProgress(c) ~> (call[c] \in Over \/ []Jammed)
    /\ inbound \in {"handling", "calling", "replying"} ~> (inbound \in {"reading", "over"} \/ []Jammed)

(* "cancel the tasks spawned by the user if the channel closes"            *)
(* (serve_rpc_requests): the whole session comes to its end.               *)
SessionEnds ==
    inbound = "closing" ~> inbound = "over" /\ outbound = "over" /\ body = "over"
=============================================================================

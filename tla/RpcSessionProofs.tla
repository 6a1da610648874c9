-------------------------- MODULE RpcSessionProofs --------------------------
(***************************************************************************)
(* Sessions of remote procedure calls, for any sets of calls.              *)
(***************************************************************************)
EXTENDS RpcSession, SequenceTheorems, TLAPS

(***************************************************************************)
(* The queue as a set: what the operations on it do to a sequence without  *)
(* duplicates                                                              *)
(***************************************************************************)

(* Every element of s without the one at i was in s, at a place other than *)
(* i, and different places stay different.                                 *)
LEMMA RemoveAtElements ==
    ASSUME NEW S, NEW s \in Seq(S), NEW i \in DOMAIN s
    PROVE  /\ RemoveAt(s, i) \in Seq(S)
           /\ DOMAIN RemoveAt(s, i) = 1 .. (Len(s) - 1)
           /\ \A j \in 1 .. (Len(s) - 1) :
                RemoveAt(s, i)[j] = IF j < i THEN s[j] ELSE s[j + 1]
<1> DEFINE a == SubSeq(s, 1, i - 1)
           b == SubSeq(s, i + 1, Len(s))
<1>1. i \in 1 .. Len(s) /\ Len(s) \in Nat
  BY LenProperties
<1>2. /\ a \in Seq(S) /\ Len(a) = i - 1
      /\ \A j \in 1 .. (i - 1) : a[j] = s[j]
  BY <1>1, SubSeqProperties, ElementOfSeq
<1>3. /\ b \in Seq(S) /\ Len(b) = Len(s) - i
      /\ \A j \in 1 .. (Len(s) - i) : b[j] = s[i + j]
  BY <1>1, SubSeqProperties, ElementOfSeq
<1>4. RemoveAt(s, i) = a \o b
  BY DEF RemoveAt
<1>5. /\ a \o b \in Seq(S)
      /\ Len(a \o b) = Len(s) - 1
  <2> HIDE DEF a, b
  <2> QED
    BY <1>1, <1>2, <1>3, ConcatProperties
<1>6. ASSUME NEW j \in 1 .. (Len(s) - 1)
      PROVE  (a \o b)[j] = IF j < i THEN s[j] ELSE s[j + 1]
  <2> HIDE DEF a, b
  <2>1. (a \o b)[j] = IF j <= Len(a) THEN a[j] ELSE b[j - Len(a)]
    BY <1>1, <1>2, <1>3, ConcatProperties
  <2>2. CASE j < i
    BY <1>1, <1>2, <2>1, <2>2
  <2>3. CASE j >= i
    <3>1. j - Len(a) \in 1 .. (Len(s) - i) /\ i + (j - Len(a)) = j + 1
      BY <1>1, <1>2, <2>3
    <3>2. b[j - Len(a)] = s[j + 1]
      BY <1>3, <3>1
    <3>3. ~(j <= Len(a)) /\ ~(j < i)
      BY <1>1, <1>2, <2>3
    <3> QED
      BY <2>1, <3>2, <3>3
  <2>4. j < i \/ j >= i
    BY <1>1
  <2> QED
    BY <2>2, <2>3, <2>4
<1>7. DOMAIN (a \o b) = 1 .. (Len(s) - 1)
  BY <1>5, LenProperties
<1> QED
  BY <1>4, <1>5, <1>6, <1>7

LEMMA RemoveAtSet ==
    ASSUME NEW S, NEW s \in Seq(S), IsInjective(s), NEW i \in DOMAIN s
    PROVE  /\ RemoveAt(s, i) \in Seq(S)
           /\ IsInjective(RemoveAt(s, i))
           /\ ToSet(RemoveAt(s, i)) = ToSet(s) \ {s[i]}
<1> DEFINE r == RemoveAt(s, i)
           At(j) == IF j < i THEN j ELSE j + 1
<1>1. Len(s) \in Nat /\ DOMAIN s = 1 .. Len(s)
  BY LenProperties
<1>2. /\ r \in Seq(S)
      /\ DOMAIN r = 1 .. (Len(s) - 1)
      /\ \A j \in DOMAIN r : r[j] = s[At(j)]
  BY RemoveAtElements
<1> HIDE DEF r
<1>3. ASSUME NEW j \in DOMAIN r
      PROVE  At(j) \in DOMAIN s /\ At(j) # i
  BY <1>1, <1>2
<1>4. ASSUME NEW j \in DOMAIN r, NEW k \in DOMAIN r, At(j) = At(k)
      PROVE  j = k
  BY <1>1, <1>2, <1>4
<1>5. ASSUME NEW k \in DOMAIN s, k # i
      PROVE  \E j \in DOMAIN r : At(j) = k
  <2>1. CASE k < i
    <3>1. k \in DOMAIN r /\ At(k) = k
      BY <1>1, <1>2, <2>1
    <3> QED
      BY <3>1
  <2>2. CASE k > i
    <3>1. k - 1 \in DOMAIN r /\ At(k - 1) = k
      BY <1>1, <1>2, <2>2
    <3> QED
      BY <3>1
  <2> QED
    BY <1>1, <1>5, <2>1, <2>2
<1> HIDE DEF At
<1>6. IsInjective(r)
  BY <1>2, <1>3, <1>4 DEF IsInjective
<1>7. ToSet(r) = ToSet(s) \ {s[i]}
  <2>1. \A x \in ToSet(r) : x \in ToSet(s) \ {s[i]}
    BY <1>2, <1>3 DEF ToSet, IsInjective
  <2>2. \A x \in ToSet(s) \ {s[i]} : x \in ToSet(r)
    BY <1>2, <1>5 DEF ToSet
  <2> QED
    BY <2>1, <2>2
<1> QED
  BY <1>2, <1>6, <1>7 DEF r

LEMMA TailSet ==
    ASSUME NEW S, NEW s \in Seq(S), IsInjective(s), s # <<>>
    PROVE  /\ Head(s) \in ToSet(s)
           /\ Tail(s) \in Seq(S)
           /\ IsInjective(Tail(s))
           /\ ToSet(Tail(s)) = ToSet(s) \ {Head(s)}
<1>1. Len(s) \in Nat /\ DOMAIN s = 1 .. Len(s) /\ Len(s) > 0 /\ Head(s) = s[1]
  BY LenProperties, EmptySeq
<1>2. /\ Tail(s) \in Seq(S)
      /\ DOMAIN Tail(s) = 1 .. (Len(s) - 1)
      /\ \A j \in DOMAIN Tail(s) : Tail(s)[j] = s[j + 1]
  BY HeadTailProperties, LenProperties
<1>3. \A j \in DOMAIN Tail(s) : j + 1 \in DOMAIN s /\ j + 1 # 1
  BY <1>1, <1>2
<1>4. \A k \in DOMAIN s : k # 1 => k - 1 \in DOMAIN Tail(s) /\ (k - 1) + 1 = k
  BY <1>1, <1>2
<1>5. IsInjective(Tail(s))
  <2> SUFFICES ASSUME NEW j \in DOMAIN Tail(s), NEW k \in DOMAIN Tail(s),
                      Tail(s)[j] = Tail(s)[k]
               PROVE  j = k
    BY DEF IsInjective
  <2>1. j + 1 = k + 1
    BY <1>2, <1>3 DEF IsInjective
  <2> QED
    BY <1>2, <2>1
<1>6. 1 \in DOMAIN s
  BY <1>1
<1>7. \A x \in ToSet(Tail(s)) : x \in ToSet(s) \ {s[1]}
  BY <1>2, <1>3, <1>6 DEF ToSet, IsInjective
<1>8. \A x \in ToSet(s) \ {s[1]} : x \in ToSet(Tail(s))
  <2> SUFFICES ASSUME NEW k \in DOMAIN s, s[k] # s[1]
               PROVE  s[k] \in ToSet(Tail(s))
    BY DEF ToSet
  <2>1. k - 1 \in DOMAIN Tail(s) /\ Tail(s)[k - 1] = s[k]
    BY <1>2, <1>4
  <2> QED
    BY <2>1 DEF ToSet
<1>9. Head(s) \in ToSet(s)
  BY <1>1, <1>6 DEF ToSet
<1> QED
  BY <1>1, <1>2, <1>5, <1>7, <1>8, <1>9

LEMMA AppendSet ==
    ASSUME NEW S, NEW s \in Seq(S), IsInjective(s), NEW e \in S, e \notin ToSet(s)
    PROVE  /\ Append(s, e) \in Seq(S)
           /\ Append(s, e) # <<>>
           /\ IsInjective(Append(s, e))
           /\ ToSet(Append(s, e)) = ToSet(s) \cup {e}
<1>1. /\ Append(s, e) \in Seq(S)
      /\ Append(s, e) # <<>>
      /\ DOMAIN Append(s, e) = 1 .. (Len(s) + 1)
      /\ Len(s) \in Nat
      /\ DOMAIN s = 1 .. Len(s)
      /\ \A j \in 1 .. Len(s) : Append(s, e)[j] = s[j]
      /\ Append(s, e)[Len(s) + 1] = e
  BY AppendProperties, LenProperties
<1>2. DOMAIN Append(s, e) = DOMAIN s \cup {Len(s) + 1} /\ Len(s) + 1 \notin DOMAIN s
  BY <1>1
<1>3. IsInjective(Append(s, e))
  BY <1>1, <1>2 DEF IsInjective, ToSet
<1>4. ToSet(Append(s, e)) = ToSet(s) \cup {e}
  BY <1>1, <1>2 DEF ToSet
<1> QED
  BY <1>1, <1>3, <1>4

LEMMA EmptySet == <<>> \in Seq(Calls \cup {Reply}) /\ IsInjective(<<>>) /\ ToSet(<<>>) = {}
  BY DEF IsInjective, ToSet

-----------------------------------------------------------------------------
(***************************************************************************)
(* The queue and its senders                                               *)
(***************************************************************************)

Messages == Calls \cup {Reply}
Sending == {c \in Calls : call[c] = "sending"}
Replying == IF inbound = "replying" /\ rx THEN {Reply} ELSE {}

CallStates == {"new", "sending", "sent", "waiting", "expired", "aborted"} \cup Over

(* The calls, and what the queue and the outbound task may hold.  As long  *)
(* as the receiving end is open, the outbound task waits or is busy.       *)
LaneTypeOK ==
    /\ call \in [Calls -> CallStates]
    /\ queue \in Seq(Messages)
    /\ rx => outbound \in Messages \cup {None}

(* Exactly the calls that are sending and a response of the inbound task   *)
(* are in the queue, each once, and only while the outbound task is busy.  *)
QueueAgrees ==
    /\ ToSet(queue) = {c \in Calls : call[c] = "sending"}
                      \cup (IF inbound = "replying" /\ rx THEN {Reply} ELSE {})
    /\ IsInjective(queue)
    /\ queue # <<>> => rx /\ outbound \in Messages

LaneInv == LaneTypeOK /\ QueueAgrees

(* The queue is closed or broken under its senders. *)
LEMMA QueueBreaks ==
    ASSUME LaneInv, call' = Moved(ToSet(queue), "closed"), queue' = <<>>,
           rx' => outbound' \in Messages \cup {None}, Replying' = {}
    PROVE  LaneInv'
<1>1. Sending \subseteq ToSet(queue)
  BY DEF LaneInv, QueueAgrees, Sending
<1>2. /\ call' \in [Calls -> CallStates]
      /\ Sending' = {}
  BY <1>1 DEF LaneInv, LaneTypeOK, Moved, CallStates, Over, Sending
<1> QED
  BY <1>2, EmptySet DEF LaneInv, LaneTypeOK, QueueAgrees, Messages, Sending, Replying

(* Steps that do not concern the queue. *)
LEMMA QueueKept ==
    ASSUME LaneInv, UNCHANGED <<queue, rx, outbound>>, Replying' = Replying, Sending' = Sending,
           call' \in [Calls -> CallStates]
    PROVE  LaneInv'
  BY DEF LaneInv, LaneTypeOK, QueueAgrees, Sending, Replying, Messages

(* A call of send_request() that reaches out_queue_tx.send(). *)
LEMMA QueueSend ==
    ASSUME LaneInv, NEW c \in Calls, call[c] = "new", Send(c), UNCHANGED rx, Replying' = Replying
    PROVE  LaneInv'
<1>1. c \notin Sending /\ c # Reply
  BY CallAssumption DEF Sending, Calls
<1>2. CASE ~(tx /\ rx) \/ outbound = None
  <2>1. call' = Moved({c}, "closed") \/ call' = Moved({c}, "sent")
    BY <1>2 DEF Send
  <2>2. /\ call' \in [Calls -> CallStates]
        /\ Sending' = Sending
    BY <1>1, <2>1 DEF LaneInv, LaneTypeOK, Moved, CallStates, Over, Sending
  <2>3. UNCHANGED queue /\ outbound' \in {outbound, c}
    BY <1>2 DEF Send
  <2> QED
    BY <2>2, <2>3 DEF LaneInv, LaneTypeOK, QueueAgrees, Sending, Replying, Messages
<1>3. CASE tx /\ rx /\ outbound # None
  <2>1. /\ call' = Moved({c}, "sending")
        /\ queue' = Append(queue, c)
        /\ UNCHANGED outbound
    BY <1>3 DEF Send
  <2>2. /\ call' \in [Calls -> CallStates]
        /\ Sending' = Sending \cup {c}
    BY <1>1, <2>1 DEF LaneInv, LaneTypeOK, Moved, CallStates, Over, Sending
  <2>3. ToSet(queue) = Sending \cup Replying /\ c \notin ToSet(queue)
    BY <1>1 DEF LaneInv, QueueAgrees, Sending, Replying
  <2>4. /\ queue' \in Seq(Messages)
        /\ IsInjective(queue')
        /\ ToSet(queue') = ToSet(queue) \cup {c}
    BY <2>1, <2>3, AppendSet DEF LaneInv, LaneTypeOK, QueueAgrees, Messages
  <2>5. outbound \in Messages
    BY <1>3 DEF LaneInv, LaneTypeOK
  <2> QED
    BY <1>3, <2>1, <2>2, <2>3, <2>4, <2>5
    DEF LaneInv, LaneTypeOK, QueueAgrees, Sending, Replying, Messages
<1> QED
  BY <1>2, <1>3

(* The response of the handler is put into the queue. *)
LEMMA QueueReply ==
    ASSUME LaneInv, HandlerReplies
    PROVE  LaneInv'
<1>1. rx /\ inbound = "handling" /\ UNCHANGED <<call, rx>>
  BY DEF HandlerReplies
<1>2. Replying = {} /\ ToSet(queue) = Sending /\ Reply \notin Sending
  BY <1>1, CallAssumption DEF LaneInv, QueueAgrees, Replying, Sending, Calls
<1>3. CASE outbound = None
  <2>1. outbound' = Reply /\ inbound' = "reading" /\ UNCHANGED queue
    BY <1>3 DEF HandlerReplies
  <2> QED
    BY <1>1, <1>2, <2>1 DEF LaneInv, LaneTypeOK, QueueAgrees, Sending, Replying, Messages
<1>4. CASE outbound # None
  <2>1. queue' = Append(queue, Reply) /\ inbound' = "replying" /\ UNCHANGED outbound
    BY <1>4 DEF HandlerReplies
  <2>2. /\ queue' \in Seq(Messages)
        /\ IsInjective(queue')
        /\ ToSet(queue') = ToSet(queue) \cup {Reply}
    BY <1>2, <2>1, AppendSet DEF LaneInv, LaneTypeOK, QueueAgrees, Messages
  <2>3. outbound \in Messages
    BY <1>1, <1>4 DEF LaneInv, LaneTypeOK
  <2> QED
    BY <1>1, <1>2, <2>1, <2>2, <2>3
    DEF LaneInv, LaneTypeOK, QueueAgrees, Sending, Replying, Messages
<1> QED
  BY <1>3, <1>4

(* The outbound task takes the message at the head of the queue. *)
LEMMA QueueTake ==
    ASSUME LaneInv, OutboundWrites
    PROVE  LaneInv'
<1>1. CASE queue # <<>>
  <2> DEFINE m == Head(queue)
  <2>1. /\ outbound' = m
        /\ queue' = Tail(queue)
        /\ call' = Moved({m}, "sent")
        /\ inbound' = IF m = Reply THEN "reading" ELSE inbound
        /\ UNCHANGED rx
    BY <1>1 DEF OutboundWrites, TakesNext, Taken
  <2>2. /\ m \in ToSet(queue)
        /\ queue' \in Seq(Messages)
        /\ IsInjective(queue')
        /\ ToSet(queue') = ToSet(queue) \ {m}
    BY <1>1, <2>1, TailSet DEF LaneInv, LaneTypeOK, QueueAgrees
  <2>3. ToSet(queue) = Sending \cup Replying /\ Reply \notin Sending
    BY CallAssumption DEF LaneInv, QueueAgrees, Sending, Replying, Calls
  <2>4. m \in Messages
    BY <2>2, <2>3 DEF Sending, Replying, Messages
  <2> HIDE DEF m
  <2>5. /\ call' \in [Calls -> CallStates]
        /\ Sending' = Sending \ {m}
    BY <2>1 DEF LaneInv, LaneTypeOK, Moved, CallStates, Over, Sending
  <2>6. Replying' = Replying \ {m}
    BY <2>1, <2>2, <2>3 DEF Replying
  <2>7. ToSet(queue') = Sending' \cup Replying'
    BY <2>2, <2>3, <2>5, <2>6
  <2> QED
    BY <1>1, <2>1, <2>2, <2>4, <2>5, <2>7
    DEF LaneInv, LaneTypeOK, QueueAgrees, Sending, Replying, Messages
<1>2. CASE queue = <<>>
  <2>1. /\ UNCHANGED <<queue, call, inbound>>
        /\ \/ outbound' = None /\ UNCHANGED rx
           \/ rx' = FALSE
    BY <1>2 DEF OutboundWrites, TakesNext, OutboundEnds
  <2>2. ToSet(queue) = {} /\ ToSet(queue) = Sending \cup Replying
    BY <1>2, EmptySet DEF LaneInv, QueueAgrees, Sending, Replying
  <2>3. Sending' = {} /\ Replying' = {}
    BY <2>1, <2>2 DEF Sending, Replying
  <2> QED
    BY <1>2, <2>1, <2>2, <2>3
    DEF LaneInv, LaneTypeOK, QueueAgrees, Sending, Replying, Messages
<1> QED
  BY <1>1, <1>2

(* A call is cancelled while it waits in the queue. *)
LEMMA QueueCancel ==
    ASSUME LaneInv, NEW c \in Calls, call[c] = "sending", Cancelled(c)
    PROVE  LaneInv'
<1>1. PICK i \in DOMAIN queue : queue[i] = c /\ queue' = RemoveAt(queue, i)
  BY DEF Cancelled
<1>2. call' = [call EXCEPT ![c] = "cancelled"] /\ UNCHANGED <<rx, inbound, outbound>>
  BY DEF Cancelled
<1>3. /\ queue' \in Seq(Messages)
      /\ IsInjective(queue')
      /\ ToSet(queue') = ToSet(queue) \ {c}
  BY <1>1, RemoveAtSet DEF LaneInv, LaneTypeOK, QueueAgrees
<1>4. /\ call' \in [Calls -> CallStates]
      /\ Sending' = Sending \ {c}
  BY <1>2 DEF LaneInv, LaneTypeOK, CallStates, Over, Sending
<1>5. c \notin Replying /\ Replying' = Replying
  BY <1>2, CallAssumption DEF Replying, Calls
<1>6. queue # <<>>
  BY <1>1
<1> QED
  BY <1>2, <1>3, <1>4, <1>5, <1>6
  DEF LaneInv, LaneTypeOK, QueueAgrees, Sending, Replying, Messages

(* Every step of the session keeps the invariant of the queue. *)
LEMMA LaneStep ==
    ASSUME LaneInv, [Next]_vars
    PROVE  LaneInv'
<1>1. CASE UNCHANGED vars
  BY <1>1, QueueKept DEF vars, lane, LaneInv, LaneTypeOK, Replying, Sending
<1>2. ASSUME NEW c \in Calls, BodyMakes(c) \/ HandlerMakes(c)
      PROVE  LaneInv'
  <2>1. call[c] = "new" /\ Send(c) /\ UNCHANGED rx /\ Replying' = Replying
    BY <1>2 DEF BodyMakes, HandlerMakes, Replying
  <2> QED
    BY <2>1, QueueSend
<1>3. ASSUME NEW c \in Calls, call[c] # "sending",
             SendReturns(c) \/ FutureIsDone(c) \/ TimesOut(c) \/ Cancelled(c) \/ GivesUp(c)
      PROVE  LaneInv'
  <2>1. PICK how \in {"waiting", "expired", "aborted"} \cup Over : call' = [call EXCEPT ![c] = how]
    BY <1>3 DEF SendReturns, FutureIsDone, TimesOut, Cancelled, GivesUp, Leaves, Over
  <2>2. UNCHANGED <<lane, inbound>>
    BY <1>3 DEF SendReturns, FutureIsDone, TimesOut, Cancelled, GivesUp, Leaves
  <2>3. call' \in [Calls -> CallStates] /\ Sending' = Sending
    BY <1>3, <2>1 DEF LaneInv, LaneTypeOK, Sending, CallStates, Over
  <2> QED
    BY <2>2, <2>3, QueueKept DEF lane, Replying
<1>4. ASSUME NEW c \in Calls, call[c] = "sending",
             SendReturns(c) \/ FutureIsDone(c) \/ TimesOut(c) \/ Cancelled(c) \/ GivesUp(c)
      PROVE  LaneInv'
  BY <1>4, QueueCancel DEF SendReturns, FutureIsDone, TimesOut, GivesUp
<1>5. ASSUME \/ \E c \in Calls, kind \in Answer : ReceiveResponse(c, kind)
             \/ ReceiveRequest \/ HandlerResumes \/ HandlerReturns \/ CancelsScope \/ BodyEnds
      PROVE  LaneInv'
  <2>1. UNCHANGED <<call, lane>>
    BY <1>5 DEF ReceiveResponse, ReceiveRequest, HandlerResumes, HandlerReturns, CancelsScope,
                BodyEnds
  <2>2. inbound' = inbound \/ (inbound # "replying" /\ inbound' # "replying")
    BY <1>5 DEF ReceiveResponse, ReceiveRequest, HandlerResumes, HandlerReturns, CancelsScope,
                BodyEnds
  <2> QED
    BY <2>1, <2>2, QueueKept DEF lane, LaneInv, LaneTypeOK, Sending, Replying
<1>6. CASE EndOfChannel \/ InboundRaises
  <2>1. call' = Moved(ToSet(queue), "closed") /\ queue' = <<>>
    BY <1>6 DEF EndOfChannel, InboundRaises, TxCloses
  <2>2. rx' => outbound' \in Messages \cup {None}
    BY <1>6 DEF EndOfChannel, InboundRaises, TxCloses, OutboundEnds, LaneInv, LaneTypeOK
  <2>3. Replying' = {}
    BY <1>6 DEF EndOfChannel, InboundRaises, Replying
  <2> QED
    BY <2>1, <2>2, <2>3, QueueBreaks
<1>7. CASE OutboundRaises
  <2>1. call' = Moved(ToSet(queue), "closed") /\ queue' = <<>> /\ rx' = FALSE
    BY <1>7 DEF OutboundRaises, OutboundEnds
  <2>2. Replying' = {}
    BY <2>1 DEF Replying
  <2> QED
    BY <2>1, <2>2, QueueBreaks
<1> QED
  BY <1>1, <1>2, <1>3, <1>4, <1>5, <1>6, <1>7, QueueReply, QueueTake
  DEF Next, CallStep, InboundStep

(* The invariant of the queue holds throughout. *)
LEMMA LaneInvariant == Spec => []LaneInv
<1>1. Init => LaneInv
  BY EmptySet DEF Init, LaneInv, LaneTypeOK, QueueAgrees, CallStates, Messages
<1>2. LaneInv /\ [Next]_vars => LaneInv'
  BY LaneStep
<1> QED
  BY <1>1, <1>2, PTL DEF Spec

(* A sender never waits for an outbound task that is over or waits itself, *)
(* whatever ends, breaks or is cancelled, and in whatever order            *)
(* (out_queue_tx, handle_outbound_messages()).                             *)
THEOREM QueuesAreServed == Spec => []QueueIsServed
<1>1. LaneInv => QueueIsServed
  <2> SUFFICES ASSUME LaneInv
               PROVE  QueueIsServed
    OBVIOUS
  <2>1. queue = <<>> => ToSet(queue) = {}
    BY EmptySet
  <2> QED
    BY <2>1 DEF LaneInv, QueueAgrees, QueueIsServed, Messages
<1> QED
  BY <1>1, LaneInvariant, PTL

-----------------------------------------------------------------------------
(***************************************************************************)
(* The futures of the calls                                                *)
(***************************************************************************)

(* The future of a request is in the map from the moment the call is made, *)
(* and an answer can only be there once the request has left the queue.    *)
FutureInv ==
    /\ future \in [Calls -> {"none", "pending"} \cup Answer]
    /\ written \subseteq Calls
    /\ \A c \in OneWay : future[c] = "none"
    /\ \A c \in written : call[c] \notin {"new", "sending"}
    /\ \A c \in Calls \ OneWay : InProgress(c) => future[c] # "none"
    /\ \A c \in Calls : future[c] \in Answer => c \in written
    /\ FuturesAreRemoved

(* If requests are identified by strings, an answer that came in time is   *)
(* still there when the call looks for it.                                 *)
AnswerInv ==
    /\ answered \subseteq written \ OneWay
    /\ StringIds => /\ \A c \in answered : InTime(c) => future[c] \in Answer
                   /\ AnswerBeatsTimeout

(* Only calls that are waiting in it are in the queue. *)
LEMMA QueuedCallsAreSending ==
    ASSUME LaneInv, NEW c \in ToSet(queue), c \in Calls
    PROVE  call[c] = "sending"
  BY CallAssumption DEF LaneInv, QueueAgrees, Calls

(* The steps that end the calls in the queue or take the first one out. *)
LEMMA FuturesKept ==
    ASSUME LaneInv, FutureInv, AnswerInv, UNCHANGED <<future, answered>>,
           \/ call' = Moved(ToSet(queue), "closed") /\ UNCHANGED written
           \/ \E m \in ToSet(queue) : /\ call' = Moved({m}, "sent")
                                      /\ written' = written \cup ({m} \ {Reply})
           \/ UNCHANGED <<call, written>>
    PROVE  FutureInv' /\ AnswerInv'
<1> USE DEF FutureInv, AnswerInv, FuturesAreRemoved, AnswerBeatsTimeout, InProgress, InTime, Answer
<1>1. call \in [Calls -> CallStates]
  BY DEF LaneInv, LaneTypeOK
<1>2. CASE UNCHANGED <<call, written>>
  BY <1>2
<1>3. CASE call' = Moved(ToSet(queue), "closed") /\ UNCHANGED written
  <2>1. ASSUME NEW c \in Calls
        PROVE  call'[c] = call[c] \/ (call[c] = "sending" /\ call'[c] = "closed")
    BY <1>3, QueuedCallsAreSending DEF Moved
  <2> QED
    BY <1>3, <2>1
<1>4. ASSUME NEW m \in ToSet(queue), call' = Moved({m}, "sent"),
             written' = written \cup ({m} \ {Reply})
      PROVE  FutureInv' /\ AnswerInv'
  <2>1. m \in Calls \/ m = Reply
    BY DEF LaneInv, QueueAgrees
  <2>2. \A c \in Calls : call'[c] = IF c = m THEN "sent" ELSE call[c]
    BY <1>4 DEF Moved
  <2>3. Reply \notin Calls
    BY CallAssumption
  <2>4. CASE m = Reply
    BY <1>4, <2>2, <2>3, <2>4
  <2>5. CASE m \in Calls
    <3>1. call[m] = "sending" /\ m \notin written /\ m \notin answered /\ m # Reply
      BY <2>3, <2>5, QueuedCallsAreSending
    <3> QED
      BY <1>4, <2>2, <2>5, <3>1
  <2> QED
    BY <2>1, <2>4, <2>5
<1> QED
  BY <1>2, <1>3, <1>4

(* send_request() registers its future before it waits for the queue. *)
LEMMA FutureRegistered ==
    ASSUME LaneInv, FutureInv, AnswerInv, NEW c \in Calls, call[c] = "new",
           Register(c), Send(c), UNCHANGED answered
    PROVE  FutureInv' /\ AnswerInv'
<1> USE DEF FutureInv, AnswerInv, FuturesAreRemoved, AnswerBeatsTimeout, InProgress, InTime, Answer
<1>1. c \notin written /\ c \notin answered
  OBVIOUS
<1>2. future' = IF c \in OneWay THEN future ELSE [future EXCEPT ![c] = "pending"]
  BY DEF Register
<1>3. PICK how \in {"closed", "sent", "sending"} :
        /\ \A d \in Calls : call'[d] = IF d = c THEN how ELSE call[d]
        /\ written' = IF how = "sent" THEN written \cup {c} ELSE written
  BY DEF Send, Moved
<1> QED
  BY <1>1, <1>2, <1>3

(* Every step of the session keeps the invariants. *)
LEMMA FutureStep ==
    ASSUME LaneInv, FutureInv, AnswerInv, [Next]_vars
    PROVE  FutureInv' /\ AnswerInv'
<1> DEFINE Goal == FutureInv' /\ AnswerInv'
<1>0. call \in [Calls -> CallStates]
  BY DEF LaneInv, LaneTypeOK
<1>1. CASE UNCHANGED vars
  BY <1>1, FuturesKept DEF vars, lane
<1>2. ASSUME NEW c \in Calls, BodyMakes(c) \/ HandlerMakes(c)
      PROVE  Goal
  BY <1>2, FutureRegistered DEF BodyMakes, HandlerMakes
<1>3. ASSUME NEW c \in Calls, SendReturns(c)
      PROVE  Goal
  BY <1>0, <1>3 DEF SendReturns, lane, FutureInv, AnswerInv, FuturesAreRemoved,
                    AnswerBeatsTimeout, InProgress, InTime, Answer
<1>4. ASSUME NEW c \in Calls, NEW how \in Over, Leaves(c, how),
             StringIds /\ how = "timedOut" => c \notin answered
      PROVE  Goal
  BY <1>0, <1>4 DEF Leaves, lane, Over, FutureInv, AnswerInv, FuturesAreRemoved,
                    AnswerBeatsTimeout, InProgress, InTime, Answer
<1>5. ASSUME NEW c \in Calls, FutureIsDone(c)
      PROVE  Goal
  <2>1. PICK how \in Over : Leaves(c, how) /\ how # "timedOut"
    BY <1>5 DEF FutureIsDone, Over
  <2> QED
    BY <2>1, <1>4
<1>6. ASSUME NEW c \in Calls, TimesOut(c)
      PROVE  Goal
  <2>1. StringIds => c \notin answered
    BY <1>6 DEF TimesOut, AnswerInv, InTime
  <2> QED
    BY <1>0, <1>6, <2>1 DEF TimesOut, lane, FutureInv, AnswerInv, FuturesAreRemoved,
                            AnswerBeatsTimeout, InProgress, InTime, Answer
<1>7. ASSUME NEW c \in Calls, Cancelled(c)
      PROVE  Goal
  <2>1. /\ \/ call[c] = "sending" /\ call' = [call EXCEPT ![c] = "cancelled"]
           \/ call[c] \in {"sent", "waiting"} /\ call' = [call EXCEPT ![c] = "aborted"]
        /\ UNCHANGED <<future, written, answered>>
    BY <1>7 DEF Cancelled, lane
  <2> QED
    BY <1>0, <2>1 DEF FutureInv, AnswerInv, FuturesAreRemoved, AnswerBeatsTimeout,
                      InProgress, InTime, Answer
<1>8. ASSUME NEW c \in Calls, GivesUp(c)
       PROVE  Goal
  <2>1. CASE call[c] = "expired"
    <3>1. StringIds => c \notin answered
      BY <2>1 DEF AnswerInv, AnswerBeatsTimeout
    <3>2. Leaves(c, "timedOut") /\ "timedOut" \in Over
      BY <1>8, <2>1 DEF GivesUp, Over
    <3> QED
      BY <3>1, <3>2, <1>4
  <2>2. CASE call[c] # "expired"
    <3>1. Leaves(c, "cancelled") /\ "cancelled" \in Over
      BY <1>8, <2>2 DEF GivesUp, Over
    <3> QED
      BY <3>1, <1>4
  <2> QED
    BY <2>1, <2>2
<1>9. ASSUME NEW c \in Calls, NEW kind \in Answer, ReceiveResponse(c, kind)
      PROVE  Goal
  <2>1. /\ c \in written \ OneWay
        /\ UNCHANGED <<call, written>>
        /\ answered' = IF InTime(c) THEN answered \cup {c} ELSE answered
        /\ future' = IF StringIds /\ future[c] = "pending"
                     THEN [future EXCEPT ![c] = kind] ELSE future
    BY <1>9, CallAssumption DEF ReceiveResponse, Resolve, Found, lane
  <2> QED
    BY <2>1, CallAssumption DEF FutureInv, AnswerInv, FuturesAreRemoved, AnswerBeatsTimeout, InProgress,
                InTime, Answer
<1>10. CASE ReceiveRequest \/ HandlerResumes \/ HandlerReturns \/ HandlerReplies
             \/ CancelsScope \/ BodyEnds
  <2>1. UNCHANGED <<call, future, written, answered>>
    BY <1>10 DEF ReceiveRequest, HandlerResumes, HandlerReturns, HandlerReplies, CancelsScope,
                BodyEnds, lane
  <2> QED
    BY <2>1, FuturesKept
<1>11. CASE EndOfChannel \/ InboundRaises \/ OutboundRaises
  <2>1. call' = Moved(ToSet(queue), "closed") /\ UNCHANGED <<future, written, answered>>
    BY <1>11 DEF EndOfChannel, InboundRaises, OutboundRaises, TxCloses
  <2> QED
    BY <2>1, FuturesKept
<1>12. CASE OutboundWrites
  <2>1. UNCHANGED <<future, answered>>
    BY <1>12 DEF OutboundWrites
  <2>2. CASE queue = <<>>
    <3>1. UNCHANGED <<call, written>>
      BY <1>12, <2>2 DEF OutboundWrites, TakesNext
    <3> QED
      BY <2>1, <3>1, FuturesKept
  <2>3. CASE queue # <<>>
    <3> DEFINE m == Head(queue)
    <3>1. m \in ToSet(queue)
      BY <2>3, TailSet DEF LaneInv, LaneTypeOK, QueueAgrees
    <3>2. call' = Moved({m}, "sent") /\ written' = written \cup ({m} \ {Reply})
      BY <1>12, <2>3 DEF OutboundWrites, TakesNext, Taken
    <3> QED
      BY <2>1, <3>1, <3>2, FuturesKept
  <2> QED
    BY <2>2, <2>3
<1> QED
  BY <1>1, <1>2, <1>3, <1>5, <1>6, <1>7, <1>9, <1>10, <1>11, <1>12, <1>8
  DEF Next, CallStep, InboundStep

(* The invariants hold throughout. *)
LEMMA FutureInvariant == Spec => [](LaneInv /\ FutureInv /\ AnswerInv)
<1>1. Init => FutureInv /\ AnswerInv
  BY CallAssumption DEF Init, FutureInv, AnswerInv, FuturesAreRemoved, AnswerBeatsTimeout,
         InProgress, InTime, Answer
<1>2. LaneInv /\ FutureInv /\ AnswerInv /\ [Next]_vars => FutureInv' /\ AnswerInv'
  BY FutureStep
<1> QED
  BY <1>1, <1>2, LaneInvariant, PTL DEF Spec

(* pending_requests does not grow: the future of a request that was sent   *)
(* is removed when its call ends, in whatever way.                         *)
THEOREM NoFutureOutlivesItsCall == Spec => []FuturesAreRemoved
<1>1. FutureInv => FuturesAreRemoved
  BY DEF FutureInv
<1> QED
  BY <1>1, FutureInvariant, PTL

(* send_request() does not time out if the answer came before its deadline *)
(* was over, even if it came before the call had begun to wait for it; for *)
(* protocols that identify their requests by strings.                      *)
THEOREM NoTimeoutAfterAnswer == ASSUME StringIds PROVE Spec => []AnswerBeatsTimeout
<1>1. AnswerInv => AnswerBeatsTimeout
  BY DEF AnswerInv
<1> QED
  BY <1>1, FutureInvariant, PTL

(* The first answer decides how the call ends: no step of any task changes *)
(* it, and the call passes it on, unless it was told to give up before.    *)
THEOREM FirstAnswerDecides == Spec => FirstAnswerCounts
<1> DEFINE Kept(c) ==
        \/ future'[c] = future[c] /\ InProgress(c)'
        \/ call[c] = "waiting"
           /\ call'[c] = (IF future[c] = "result" THEN "returned" ELSE "failed")
        \/ call[c] = "expired" /\ call'[c] = "timedOut"
        \/ call[c] = "aborted" /\ call'[c] = "cancelled"
<1>1. ASSUME LaneInv, FutureInv, [Next]_vars, NEW c \in Calls, future[c] \in Answer
      PROVE  Kept(c)
  <2> USE DEF InProgress, InTime, CallStates
  <2>0. call \in [Calls -> CallStates]
    BY <1>1 DEF LaneInv, LaneTypeOK
  <2>1. call[c] \in {"sent", "waiting", "expired", "aborted"} /\ c \notin OneWay
    BY <1>1 DEF FutureInv, FuturesAreRemoved, Answer
  <2>2. c \notin ToSet(queue)
    BY <1>1, <2>1, QueuedCallsAreSending
  <2>3. ASSUME NEW d \in Calls, BodyMakes(d) \/ HandlerMakes(d)
        PROVE  Kept(c)
    <3>1. d # c
      BY <2>1, <2>3 DEF BodyMakes, HandlerMakes
    <3>2. call'[c] = call[c]
      BY <2>3, <3>1 DEF BodyMakes, HandlerMakes, Send, Moved
    <3>3. future'[c] = future[c]
      BY <1>1, <2>3, <3>1 DEF BodyMakes, HandlerMakes, Register, FutureInv
    <3> QED
      BY <2>1, <3>2, <3>3
  <2>4. ASSUME NEW d \in Calls, SendReturns(d)
        PROVE  Kept(c)
    BY <2>0, <2>1, <2>4 DEF SendReturns
  <2>5. ASSUME NEW d \in Calls, NEW how, Leaves(d, how), d # c
        PROVE  Kept(c)
    BY <1>1, <2>0, <2>1, <2>5 DEF Leaves, FutureInv
  <2>6. ASSUME NEW d \in Calls, FutureIsDone(d)
        PROVE  Kept(c)
    <3>1. CASE d = c
      BY <2>0, <2>6, <3>1 DEF FutureIsDone, Leaves
    <3> QED
      BY <2>5, <2>6, <3>1 DEF FutureIsDone
  <2>7. ASSUME NEW d \in Calls, TimesOut(d)
        PROVE  Kept(c)
    <3>1. d # c
      BY <1>1, <2>7 DEF TimesOut
    <3> QED
      BY <2>0, <2>1, <2>7, <3>1 DEF TimesOut
  <2>8. ASSUME NEW d \in Calls, Cancelled(d)
        PROVE  Kept(c)
    BY <2>0, <2>1, <2>8 DEF Cancelled
  <2>9. ASSUME NEW d \in Calls, GivesUp(d)
         PROVE  Kept(c)
    <3>1. CASE d = c
      BY <2>0, <2>9, <3>1 DEF GivesUp, Leaves
    <3> QED
      BY <2>5, <2>9, <3>1 DEF GivesUp
  <2>10. ASSUME NEW d \in Calls, NEW kind \in Answer, ReceiveResponse(d, kind)
        PROVE  Kept(c)
    <3>1. future'[c] = future[c]
      BY <1>1, <2>10 DEF ReceiveResponse, Resolve, Found, FutureInv, Answer
    <3> QED
      BY <2>1, <2>10, <3>1 DEF ReceiveResponse
  <2>11. CASE ReceiveRequest \/ HandlerResumes \/ HandlerReturns \/ HandlerReplies
                \/ CancelsScope \/ BodyEnds
    BY <2>1, <2>11 DEF ReceiveRequest, HandlerResumes, HandlerReturns, HandlerReplies,
              CancelsScope, BodyEnds
  <2>12. CASE EndOfChannel \/ InboundRaises \/ OutboundRaises
    <3>1. call' = Moved(ToSet(queue), "closed") /\ UNCHANGED future
      BY <2>12 DEF EndOfChannel, InboundRaises, OutboundRaises, TxCloses
    <3> QED
      BY <2>1, <2>2, <3>1 DEF Moved
  <2>13. CASE OutboundWrites
    <3>1. queue # <<>> => Head(queue) \in ToSet(queue)
      BY <1>1, TailSet DEF LaneInv, LaneTypeOK, QueueAgrees
    <3>2. call'[c] = call[c]
      BY <2>2, <2>13, <3>1 DEF OutboundWrites, TakesNext, Moved
    <3> QED
      BY <2>1, <2>13, <3>2 DEF OutboundWrites
  <2>14. CASE UNCHANGED vars
    BY <2>1, <2>14 DEF vars
  <2> QED
    BY <1>1, <2>3, <2>4, <2>6, <2>7, <2>8, <2>10, <2>11, <2>12, <2>13, <2>14,
       <2>9
    DEF Next, CallStep, InboundStep
<1>2. LaneInv /\ FutureInv /\ [Next]_vars
        => [\A c \in Calls : future[c] \in Answer => Kept(c)]_vars
  BY <1>1
<1> QED
  BY <1>2, FutureInvariant, PTL DEF Spec, FirstAnswerCounts
=============================================================================

---------------------------- MODULE ChannelProofs ----------------------------
(***************************************************************************)
(* What goes through a channel.  A message channel returns each message at *)
(* most once and in order, for any number of receivers and any traffic;    *)
(* what the factory makes is what its names mean, for any registry, any    *)
(* nesting of contexts and any number of layers.                           *)
(***************************************************************************)
EXTENDS MessageChannel, ConnectionBaseProofs, ConnectionFactory, FiniteSetTheorems,
        SequenceTheorems, WellFoundedInduction, TLAPS

(***************************************************************************)
(* The connection under the channel                                        *)
(***************************************************************************)

(* Nothing that the receivers and the peer do touches the connection. *)
LEMMA ReceiversLeaveConnectionAlone ==
    ASSUME NEW r \in Receivers, Receive(r) \/ Resumes(r) \/ ReceiveCancelled(r)
    PROVE  UNCHANGED <<vars, loopback, ends>>
  BY DEF Receive, Resumes, ReceiveCancelled

LEMMA PeerLeavesConnectionAlone ==
    ASSUME PeerStep
    PROVE  UNCHANGED <<vars, loopback, tx, rx, second>>
  BY DEF PeerStep, PeerWrites, PeerGivesUp, PeerCloses, ends

(* A loopback connection is a connection. *)
LEMMA ChannelIsConnection == ChannelSpec => Spec
<1>1. ChannelInit => Init
  BY DEF ChannelInit
<1>2. ASSUME [ChannelNext]_allVars PROVE [Next]_vars
  <2>1. CASE UNCHANGED allVars
    BY <2>1 DEF allVars
  <2>2. CASE AnyStep
    BY <2>2 DEF AnyStep
  <2>3. ASSUME NEW t \in Users, LifecycleStep(t) \/ ClosesTx(t)
        PROVE  Next
    BY <2>3, ChannelAssumption DEF LifecycleStep, ClosesTx, Next
  <2>4. ASSUME NEW t \in Users, ClosesRx(t)
        PROVE  UNCHANGED vars
    BY <2>4 DEF ClosesRx
  <2>5. ASSUME NEW t \in Users, NEW ok \in BOOLEAN, Closes(t, ok)
        PROVE  Next
    BY <2>5, ChannelAssumption DEF Closes, Next
  <2>6. ASSUME NEW r \in Receivers, Receive(r) \/ Resumes(r) \/ ReceiveCancelled(r)
        PROVE  UNCHANGED vars
    BY <2>6, ReceiversLeaveConnectionAlone
  <2>7. CASE PeerStep
    BY <2>7, PeerLeavesConnectionAlone
  <2> QED
    BY <1>2, <2>1, <2>2, <2>3, <2>4, <2>5, <2>6, <2>7 DEF ChannelNext, UserStep
<1> QED
  BY <1>1, <1>2, PTL DEF ChannelSpec, Spec

-----------------------------------------------------------------------------
(***************************************************************************)
(* A connection that is closed half way counts as open.  The callers are   *)
(* free, so that a call may go on from the queue in the wrong state; but a *)
(* call gets into that position only after the connection was closed once, *)
(* and then its receiving end is closed for good.                          *)
(***************************************************************************)

(* As long as both ends are open nobody has tried to close ... *)
NeverClosed ==
    /\ state # DISCONNECTING
    /\ \A t \in Tasks :
        /\ pc[t] \notin {"openQueued", "closing"}
        /\ pc[t] = "opening" => state = CONNECTING
        /\ t \in woken /\ pc[t] = "closeQueued" => state = CONNECTED
    /\ \A t, u \in Tasks : pc[t] = "opening" /\ pc[u] = "opening" => t = u

(* ... and until a close() has succeeded nobody opens again. *)
ClosedByHalf ==
    /\ state \in {CONNECTED, DISCONNECTING}
    /\ \A t \in Tasks :
        /\ pc[t] # "opening"
        /\ t \in woken => pc[t] # "openQueued"

EndsInv ==
    /\ {tx, rx} \subseteq BOOLEAN
    /\ ~loopback => tx /\ rx
    /\ second # {} => ~rx
    /\ loopback => \A t \in woken : pc[t] \in Blocked
    /\ loopback /\ rx /\ tx => NeverClosed
    /\ loopback /\ rx /\ ~tx => ClosedByHalf

(* Every step of a user keeps the invariant. *)
LEMMA UserKeepsEnds ==
    ASSUME TypeOK, EndsInv, loopback, NEW t \in Users, UserStep(t)
    PROVE  EndsInv'
<1> USE ChannelAssumption
    DEF EndsInv, NeverClosed, ClosedByHalf, TypeOK, Goto, StateUnchanged, Blocked, OnConnected,
        OnDisconnected, DISCONNECTED, CONNECTING, CONNECTED, DISCONNECTING
<1>0. t \in Tasks
  OBVIOUS
<1>1. ASSUME OpenJoins(t) \/ CloseJoins(t) \/ CloseQueues(t), UNCHANGED channelVars
      PROVE  EndsInv'
  BY <1>0, <1>1 DEF OpenJoins, CloseJoins, CloseQueues, Block, channelVars, ends
<1>2. ASSUME OpenQueues(t), UNCHANGED channelVars
      PROVE  EndsInv'
  BY <1>0, <1>2 DEF OpenQueues, Block, channelVars, ends
<1>3. ASSUME WaitReturns(t) \/ Cancelled(t), UNCHANGED channelVars
      PROVE  EndsInv'
  BY <1>0, <1>3 DEF WaitReturns, Cancelled, Resume, channelVars, ends
<1>4. ASSUME OpenStarts(t), UNCHANGED channelVars
      PROVE  EndsInv'
  BY <1>0, <1>4 DEF OpenStarts, EntersOpen, SetState, Released, channelVars, ends
<1>5. ASSUME NEW ok \in BOOLEAN, OpenEnds(t, ok), UNCHANGED channelVars
      PROVE  EndsInv'
  BY <1>0, <1>5 DEF OpenEnds, SetState, Released, channelVars, ends
<1>6. ASSUME ClosesTx(t)
      PROVE  EndsInv'
  BY <1>0, <1>6 DEF ClosesTx, CloseStarts, EntersClose, SetState, Released
<1>7. ASSUME ClosesRx(t)
      PROVE  EndsInv'
  BY <1>0, <1>7 DEF ClosesRx, vars
<1>8. ASSUME NEW ok \in BOOLEAN, Closes(t, ok)
      PROVE  EndsInv'
  BY <1>0, <1>8 DEF Closes, CloseEnds, SetState, Released
<1> QED
  BY <1>1, <1>2, <1>3, <1>4, <1>5, <1>6, <1>7, <1>8 DEF UserStep, LifecycleStep

(* The invariant holds throughout. *)
LEMMA EndsInvariant == ChannelSpec => []EndsInv
<1>1. ChannelInit => EndsInv
  BY DEF ChannelInit, Init, EndsInv, NeverClosed, DISCONNECTED, CONNECTING, DISCONNECTING
<1>2. TypeOK /\ EndsInv /\ [ChannelNext]_allVars => EndsInv'
  <2> SUFFICES ASSUME TypeOK, EndsInv, [ChannelNext]_allVars
               PROVE  EndsInv'
    OBVIOUS
  <2>1. CASE UNCHANGED <<vars, loopback, tx, rx, second>>
    BY <2>1 DEF vars, EndsInv, NeverClosed, ClosedByHalf
  <2>2. CASE ~loopback /\ AnyStep
    BY <2>2 DEF AnyStep, channelVars, ends, EndsInv
  <2>3. ASSUME loopback, NEW t \in Users, UserStep(t)
        PROVE  EndsInv'
    BY <2>3, UserKeepsEnds
  <2>4. ASSUME NEW r \in Receivers, Receive(r) \/ Resumes(r) \/ ReceiveCancelled(r)
        PROVE  EndsInv'
    BY <2>1, <2>4, ReceiversLeaveConnectionAlone DEF ends
  <2>5. CASE PeerStep
    BY <2>1, <2>5, PeerLeavesConnectionAlone
  <2>6. CASE UNCHANGED allVars
    BY <2>1, <2>6 DEF allVars, channelVars, ends
  <2> QED
    BY <2>2, <2>3, <2>4, <2>5, <2>6 DEF ChannelNext
<1>3. ChannelSpec => []TypeOK
  BY ChannelIsConnection, TypeCorrect, PTL
<1> QED
  BY <1>1, <1>2, <1>3, PTL DEF ChannelSpec

(* However many tasks open and close a loopback connection, and whichever  *)
(* of their calls are cancelled: a connection that does not count as open  *)
(* has no receiving end left open behind a sending end that is closed.     *)
THEOREM HalfClosedCountsAsOpen == ChannelSpec => []HalfClosedIsOpen
<1>1. EndsInv => HalfClosedIsOpen
  BY DEF EndsInv, ClosedByHalf, HalfClosedIsOpen
<1> QED
  BY <1>1, EndsInvariant, PTL

-----------------------------------------------------------------------------
(***************************************************************************)
(* The data on their way                                                   *)
(***************************************************************************)

Message == Nat \X Nat

(* The messages of a datum are numbered from the first to the last. *)
Numbered(s) == \E d \in Nat : \A i \in DOMAIN s : s[i] = <<d, i>>

Data == {x \in [kind : {"data", "garbage"}, msgs : Seq(Message)] : Numbered(x.msgs)}

DataTypeOK ==
    /\ buffer \in Seq(Data)
    /\ blocked \in Payloads \cup {None}
    /\ waiters \in Seq(Receivers)
    /\ held \in [Receivers -> Data \cup {None}]
    /\ pending \in Seq(Message)
    /\ sent \in Seq(Nat)

(* What the peer writes is such a datum. *)
LEMMA DatumIsData ==
    ASSUME DataTypeOK, NEW p \in Payloads
    PROVE  /\ Datum(p) \in Data
           /\ Datum(p).msgs = [i \in 1..p.size |-> <<Len(sent) + 1, i>>]
           /\ DOMAIN Datum(p).msgs = 1..p.size
           /\ p.size \in {0, 2}
           /\ Len(sent) \in Nat
<1>1. p.kind \in {"data", "garbage"} /\ p.size \in {0, 2}
  <2>1. CASE p \in [kind : {"data"}, size : {0, 2}]
    BY <2>1
  <2>2. CASE p \in [kind : {"garbage"}, size : {2}]
    BY <2>2
  <2> QED
    BY <2>1, <2>2 DEF Payloads
<1>2. Len(sent) \in Nat
  BY LenProperties DEF DataTypeOK
<1> DEFINE msgs == [i \in 1..p.size |-> <<Len(sent) + 1, i>>]
<1>3. msgs \in Seq(Message)
  <2>1. msgs \in [1..p.size -> Message]
    BY <1>1, <1>2 DEF Message
  <2> QED
    BY <1>1, <2>1, SeqDef
<1>4. Numbered(msgs)
  <2>1. Len(sent) + 1 \in Nat /\ \A i \in DOMAIN msgs : msgs[i] = <<Len(sent) + 1, i>>
    BY <1>2
  <2> QED
    BY <2>1, Zenon DEF Numbered
<1> HIDE DEF msgs
<1>5. Datum(p) = [kind |-> p.kind, msgs |-> msgs]
  BY DEF Datum, msgs
<1>6. Datum(p) \in Data /\ Datum(p).msgs = msgs
  BY <1>1, <1>3, <1>4, <1>5 DEF Data
<1> QED
  BY <1>1, <1>2, <1>6 DEF msgs

(* The buffer after a datum was taken from the front. *)
LEMMA TakeFirst ==
    ASSUME NEW S, NEW s \in Seq(S), s # <<>>
    PROVE  /\ Head(s) \in S
           /\ Head(s) = s[1]
           /\ Tail(s) \in Seq(S)
           /\ Len(s) \in Nat \ {0}
           /\ DOMAIN s = 1..Len(s)
           /\ DOMAIN Tail(s) = 1..(Len(s) - 1)
           /\ \A i \in 1..(Len(s) - 1) : Tail(s)[i] = s[i + 1]
  BY HeadTailProperties, LenProperties, EmptySeq

(* The queue of the receivers without the one at i. *)
LEMMA RemoveAtElements ==
    ASSUME NEW S, NEW s \in Seq(S), NEW i \in DOMAIN s
    PROVE  /\ RemoveAt(s, i) \in Seq(S)
           /\ DOMAIN RemoveAt(s, i) = 1 .. (Len(s) - 1)
           /\ \A j \in 1 .. (Len(s) - 1) :
                RemoveAt(s, i)[j] = IF j < i THEN s[j] ELSE s[j + 1]
<1> DEFINE a == SubSeq(s, 1, i - 1)
           b == SubSeq(s, i + 1, Len(s))
<1>1. i \in 1 .. Len(s) /\ Len(s) \in Nat
  BY LenProperties
<1>2. /\ a \in Seq(S) /\ Len(a) = i - 1
      /\ \A j \in 1 .. (i - 1) : a[j] = s[j]
  BY <1>1, SubSeqProperties, ElementOfSeq
<1>3. /\ b \in Seq(S) /\ Len(b) = Len(s) - i
      /\ \A j \in 1 .. (Len(s) - i) : b[j] = s[i + j]
  BY <1>1, SubSeqProperties, ElementOfSeq
<1>4. RemoveAt(s, i) = a \o b
  BY DEF RemoveAt
<1>5. /\ a \o b \in Seq(S)
      /\ Len(a \o b) = Len(s) - 1
  <2> HIDE DEF a, b
  <2> QED
    BY <1>1, <1>2, <1>3, ConcatProperties
<1>6. ASSUME NEW j \in 1 .. (Len(s) - 1)
      PROVE  (a \o b)[j] = IF j < i THEN s[j] ELSE s[j + 1]
  <2> HIDE DEF a, b
  <2>1. (a \o b)[j] = IF j <= Len(a) THEN a[j] ELSE b[j - Len(a)]
    BY <1>1, <1>2, <1>3, ConcatProperties
  <2>2. CASE j < i
    BY <1>1, <1>2, <2>1, <2>2
  <2>3. CASE j >= i
    <3>1. j - Len(a) \in 1 .. (Len(s) - i) /\ i + (j - Len(a)) = j + 1
      BY <1>1, <1>2, <2>3
    <3>2. b[j - Len(a)] = s[j + 1]
      BY <1>3, <3>1
    <3>3. ~(j <= Len(a)) /\ ~(j < i)
      BY <1>1, <1>2, <2>3
    <3> QED
      BY <2>1, <3>2, <3>3
  <2>4. j < i \/ j >= i
    BY <1>1
  <2> QED
    BY <2>2, <2>3, <2>4
<1>7. DOMAIN (a \o b) = 1 .. (Len(s) - 1)
  BY <1>5, LenProperties
<1> QED
  BY <1>4, <1>5, <1>6, <1>7

(* The data that can be read: those in the buffer and the one that its     *)
(* writer waits to add.                                                    *)
LEMMA AvailableIsData ==
    ASSUME DataTypeOK
    PROVE  /\ Available \in Seq(Data)
           /\ blocked = None => Available = buffer
           /\ blocked # None => /\ Available = Append(buffer, Datum(blocked))
                                /\ blocked \in Payloads
<1>1. CASE blocked = None
  BY <1>1, ConcatEmptySeq DEF Available, DataTypeOK
<1>2. CASE blocked # None
  <2>1. blocked \in Payloads /\ Datum(blocked) \in Data
    BY <1>2, DatumIsData DEF DataTypeOK
  <2>2. Available = Append(buffer, Datum(blocked))
    BY <1>2, <2>1, AppendIsConcat DEF Available, DataTypeOK
  <2> QED
    BY <1>2, <2>1, <2>2, AppendProperties DEF DataTypeOK
<1> QED
  BY <1>1, <1>2

(* A datum that was written counts. *)
LEMMA CountIsTyped ==
    ASSUME DataTypeOK, NEW p \in Payloads, Count(p)
    PROVE  sent' \in Seq(Nat)
<1>1. p.size \in {0, 2}
  BY DatumIsData
<1>2. p.size \in Nat /\ sent \in Seq(Nat)
  BY <1>1 DEF DataTypeOK
<1>3. Append(sent, p.size) \in Seq(Nat)
  BY <1>2, AppendProperties
<1> QED
  BY <1>2, <1>3 DEF Count

(* What a receiver gets from the channel is a datum again. *)
LEMMA ReadIsTyped ==
    ASSUME DataTypeOK, NEW r \in Receivers, Read(r)
    PROVE  /\ buffer' \in Seq(Data)
           /\ blocked' \in Payloads \cup {None}
           /\ waiters' \in Seq(Receivers)
           /\ held' \in [Receivers -> Data \cup {None}]
           /\ sent' \in Seq(Nat)
<1>1. ASSUME Available # <<>>
      PROVE  Head(Available) \in Data /\ Tail(Available) \in Seq(Data)
  BY <1>1, AvailableIsData, TakeFirst
<1>2. ASSUME blocked # None, Count(blocked)
      PROVE  sent' \in Seq(Nat)
  BY <1>2, CountIsTyped, AvailableIsData
<1>3. Append(waiters, r) \in Seq(Receivers)
  BY AppendProperties DEF DataTypeOK
<1> QED
  BY <1>1, <1>2, <1>3 DEF Read, DataTypeOK

(* The messages of a datum that the parser has found before it raised. *)
LEMMA FirstMessages ==
    ASSUME NEW s \in Seq(Message), Numbered(s), NEW k \in 0..Len(s)
    PROVE  /\ SubSeq(s, 1, k) \in Seq(Message)
           /\ Numbered(SubSeq(s, 1, k))
           /\ Len(SubSeq(s, 1, k)) = k
           /\ \A i \in 1..k : SubSeq(s, 1, k)[i] = s[i]
<1>1. Len(s) \in Nat /\ DOMAIN s = 1..Len(s) /\ k \in Int
  BY LenProperties
<1>2. \A i \in 1..k : s[i] \in Message
  BY <1>1, ElementOfSeq
<1>3. /\ SubSeq(s, 1, k) \in Seq(Message)
      /\ Len(SubSeq(s, 1, k)) = k
      /\ \A i \in 1..k : SubSeq(s, 1, k)[i] = s[i]
  BY <1>1, <1>2, SubSeqProperties
<1>4. DOMAIN SubSeq(s, 1, k) = 1..k
  BY <1>3, LenProperties
<1>5. Numbered(SubSeq(s, 1, k))
  <2>1. PICK d \in Nat : \A i \in DOMAIN s : s[i] = <<d, i>>
    BY Zenon DEF Numbered
  <2>2. \A i \in DOMAIN SubSeq(s, 1, k) : SubSeq(s, 1, k)[i] = <<d, i>>
    BY <1>1, <1>3, <1>4, <2>1
  <2> QED
    BY <2>2, Zenon DEF Numbered
<1> QED
  BY <1>3, <1>5

-----------------------------------------------------------------------------
(***************************************************************************)
(* The messages of a datum are received in their order                     *)
(***************************************************************************)

Before(m) == <<m[1], m[2] - 1>>

(* Each message of s comes right after its predecessor, if it has one, and *)
(* the first of them after one that is done already.                       *)
Ordered(s, done) ==
    \A i \in DOMAIN s :
        s[i][2] > 1 => IF i = 1 THEN Before(s[i]) \in done ELSE s[i - 1] = Before(s[i])

(* Appending the messages of another datum ... *)
LEMMA ExtendOrdered ==
    ASSUME NEW s \in Seq(Message), NEW done, Ordered(s, done),
           NEW msgs \in Seq(Message), Numbered(msgs)
    PROVE  s \o msgs \in Seq(Message) /\ Ordered(s \o msgs, done)
<1>1. /\ Len(s) \in Nat /\ DOMAIN s = 1..Len(s)
      /\ Len(msgs) \in Nat /\ DOMAIN msgs = 1..Len(msgs)
  BY LenProperties
<1>2. /\ s \o msgs \in Seq(Message)
      /\ DOMAIN (s \o msgs) = 1..(Len(s) + Len(msgs))
      /\ \A i \in 1..(Len(s) + Len(msgs)) :
            (s \o msgs)[i] = IF i <= Len(s) THEN s[i] ELSE msgs[i - Len(s)]
  BY ConcatProperties, LenProperties
<1>3. PICK d \in Nat : \A i \in DOMAIN msgs : msgs[i] = <<d, i>>
  BY Zenon DEF Numbered
<1>4. ASSUME NEW i \in DOMAIN (s \o msgs), (s \o msgs)[i][2] > 1
      PROVE  IF i = 1 THEN Before((s \o msgs)[i]) \in done
                      ELSE (s \o msgs)[i - 1] = Before((s \o msgs)[i])
  <2>1. CASE i <= Len(s)
    <3>1. i \in DOMAIN s /\ (s \o msgs)[i] = s[i]
      BY <1>1, <1>2, <2>1
    <3>2. i # 1 => (s \o msgs)[i - 1] = s[i - 1]
      BY <1>1, <1>2, <2>1
    <3> QED
      BY <1>4, <3>1, <3>2 DEF Ordered
  <2>2. CASE i > Len(s)
    <3> DEFINE j == i - Len(s)
    <3>1. j \in DOMAIN msgs /\ (s \o msgs)[i] = msgs[j]
      BY <1>1, <1>2, <2>2
    <3>2. (s \o msgs)[i] = <<d, j>> /\ j > 1
      BY <1>3, <1>4, <3>1
    <3>3. /\ i # 1
          /\ j - 1 \in DOMAIN msgs
          /\ (s \o msgs)[i - 1] = msgs[j - 1]
      BY <1>1, <1>2, <2>2, <3>1, <3>2
    <3> QED
      BY <1>3, <3>2, <3>3 DEF Before
  <2> QED
    BY <1>1, <1>2, <2>1, <2>2
<1> QED
  BY <1>2, <1>4 DEF Ordered

(* ... and returning the first message keep the order. *)
LEMMA ReturnOrdered ==
    ASSUME NEW s \in Seq(Message), s # <<>>, NEW done, Ordered(s, done)
    PROVE  /\ Tail(s) \in Seq(Message)
           /\ Ordered(Tail(s), done \cup {Head(s)})
           /\ Head(s)[2] > 1 => Before(Head(s)) \in done
<1>1. /\ Head(s) = s[1]
      /\ Tail(s) \in Seq(Message)
      /\ Len(s) \in Nat \ {0}
      /\ DOMAIN s = 1..Len(s)
      /\ DOMAIN Tail(s) = 1..(Len(s) - 1)
      /\ \A i \in 1..(Len(s) - 1) : Tail(s)[i] = s[i + 1]
  BY TakeFirst
<1>2. ASSUME NEW i \in DOMAIN Tail(s), Tail(s)[i][2] > 1
      PROVE  IF i = 1 THEN Before(Tail(s)[i]) \in done \cup {Head(s)}
                      ELSE Tail(s)[i - 1] = Before(Tail(s)[i])
  <2>1. i + 1 \in DOMAIN s /\ i + 1 # 1 /\ Tail(s)[i] = s[i + 1]
    BY <1>1
  <2>2. s[i] = Before(s[i + 1])
    <3>1. s[(i + 1) - 1] = Before(s[i + 1])
      BY <1>2, <2>1 DEF Ordered
    <3> QED
      BY <1>1, <3>1
  <2>3. i # 1 => Tail(s)[i - 1] = s[i]
    BY <1>1
  <2> QED
    BY <1>1, <2>1, <2>2, <2>3
<1>3. Head(s)[2] > 1 => Before(Head(s)) \in done
  BY <1>1 DEF Ordered
<1> QED
  BY <1>1, <1>2, <1>3 DEF Ordered

OrderInv ==
    /\ DataTypeOK
    /\ Ordered(pending, got)
    /\ PartsInOrder

(* Every return of receive() keeps the invariant. *)
LEMMA ReturnsInOrder ==
    ASSUME OrderInv, NEW msgs \in Seq(Message), msgs # <<>>, Ordered(msgs, got), Returns(msgs)
    PROVE  pending' \in Seq(Message) /\ Ordered(pending, got)' /\ PartsInOrder'
<1>1. got' = got \cup {Head(msgs)} /\ pending' = Tail(msgs)
  BY DEF Returns
<1>2. pending' \in Seq(Message) /\ Ordered(pending', got')
  BY <1>1, ReturnOrdered
<1>3. PartsInOrder'
  BY <1>1, ReturnOrdered DEF OrderInv, PartsInOrder, Before
<1> QED
  BY <1>2, <1>3 DEF Ordered

(* So does every step of the receivers ... *)
LEMMA ReceiverKeepsOrder ==
    ASSUME OrderInv, NEW r \in Receivers, Receive(r) \/ Resumes(r) \/ ReceiveCancelled(r)
    PROVE  OrderInv'
<1>1. ASSUME Read(r), UNCHANGED messages
      PROVE  OrderInv'
  <2>1. UNCHANGED <<pending, got>>
    BY <1>1 DEF messages
  <2>2. DataTypeOK'
    BY <1>1, <2>1, ReadIsTyped DEF OrderInv, DataTypeOK
  <2> QED
    BY <2>1, <2>2 DEF OrderInv, Ordered, PartsInOrder
<1>2. ASSUME Receive(r), pending # <<>>, Returns(pending), UNCHANGED lane
      PROVE  OrderInv'
  <2>1. pending' \in Seq(Message) /\ Ordered(pending, got)' /\ PartsInOrder'
    BY <1>2, ReturnsInOrder DEF OrderInv, DataTypeOK
  <2> QED
    BY <1>2, <2>1 DEF OrderInv, DataTypeOK, lane
<1>3. CASE Receive(r)
  BY <1>1, <1>2, <1>3 DEF Receive
<1>4. CASE Resumes(r)
  <2> DEFINE msgs == held[r].msgs
  <2>1. /\ held[r] \in Data
        /\ msgs \in Seq(Message) /\ Numbered(msgs)
        /\ Len(msgs) \in Nat
    <3>1. held[r] \in Data
      BY <1>4 DEF Resumes, OrderInv, DataTypeOK
    <3>2. msgs \in Seq(Message) /\ Numbered(msgs)
      BY <3>1 DEF Data
    <3> QED
      BY <3>1, <3>2, LenProperties
  <2> HIDE DEF msgs
  <2>2. ASSUME held' = [held EXCEPT ![r] = None], UNCHANGED <<buffer, blocked, waiters, sent>>,
               pending' \in Seq(Message), Ordered(pending, got)', PartsInOrder'
        PROVE  OrderInv'
    BY <2>2 DEF OrderInv, DataTypeOK
  <2>3. ASSUME NEW k \in 0..(Len(msgs) - 1), pending' = Extended(SubSeq(msgs, 1, k)),
               held' = [held EXCEPT ![r] = None], UNCHANGED <<buffer, blocked, waiters, sent, got>>
        PROVE  OrderInv'
    <3>1. k \in 0..Len(msgs)
      BY <2>1, <2>3
    <3>2. SubSeq(msgs, 1, k) \in Seq(Message) /\ Numbered(SubSeq(msgs, 1, k))
      BY <2>1, <3>1, FirstMessages
    <3>3. pending' \in Seq(Message) /\ Ordered(pending', got)
      BY <2>3, <3>2, ExtendOrdered DEF Extended, OrderInv, DataTypeOK
    <3> QED
      BY <2>2, <2>3, <3>3 DEF OrderInv, Ordered, PartsInOrder
  <2>4. ASSUME Extended(msgs) # <<>>, Returns(Extended(msgs)),
               held' = [held EXCEPT ![r] = None], UNCHANGED <<buffer, blocked, waiters, sent>>
        PROVE  OrderInv'
    <3>1. Extended(msgs) \in Seq(Message) /\ Ordered(Extended(msgs), got)
      BY <2>1, ExtendOrdered DEF Extended, OrderInv, DataTypeOK
    <3> QED
      BY <2>2, <2>4, <3>1, ReturnsInOrder
  <2> QED
    BY <1>1, <1>4, <2>3, <2>4 DEF Resumes, msgs
<1>5. CASE ReceiveCancelled(r)
  <2>1. waiters' \in Seq(Receivers)
    BY <1>5, RemoveAtElements DEF ReceiveCancelled, OrderInv, DataTypeOK
  <2> QED
    BY <1>5, <2>1 DEF ReceiveCancelled, messages, OrderInv, DataTypeOK, Ordered, PartsInOrder
<1> QED
  BY <1>3, <1>4, <1>5

(* ... and of the peer. *)
LEMMA PeerKeepsOrder ==
    ASSUME OrderInv, PeerStep
    PROVE  OrderInv'
<1> USE DEF OrderInv, DataTypeOK
<1>1. ASSUME DataTypeOK', UNCHANGED messages
      PROVE  OrderInv'
  BY <1>1 DEF messages, Ordered, PartsInOrder
<1>2. ASSUME NEW p \in Payloads, PeerWrites(p)
      PROVE  OrderInv'
  <2>1. Datum(p) \in Data /\ (Count(p) => sent' \in Seq(Nat))
    BY DatumIsData, CountIsTyped
  <2>2. Append(buffer, Datum(p)) \in Seq(Data)
    BY <2>1, AppendProperties
  <2>3. waiters # <<>> => Head(waiters) \in Receivers /\ Tail(waiters) \in Seq(Receivers)
    BY TakeFirst
  <2>4. pending' = pending
    BY <1>2 DEF PeerWrites, messages
  <2>5. DataTypeOK'
    BY <1>2, <2>1, <2>2, <2>3, <2>4 DEF PeerWrites
  <2> QED
    BY <1>1, <1>2, <2>5 DEF PeerWrites
<1>3. CASE PeerGivesUp \/ PeerCloses
  BY <1>1, <1>3, EmptySeq DEF PeerGivesUp, PeerCloses, messages
<1> QED
  BY <1>2, <1>3 DEF PeerStep

(* The invariant holds throughout. *)
LEMMA OrderInvariant == ChannelSpec => []OrderInv
<1>1. ChannelInit => OrderInv
  BY EmptySeq DEF ChannelInit, OrderInv, DataTypeOK, Ordered, PartsInOrder
<1>2. OrderInv /\ [ChannelNext]_allVars => OrderInv'
  <2> SUFFICES ASSUME OrderInv, [ChannelNext]_allVars
               PROVE  OrderInv'
    OBVIOUS
  <2>1. CASE UNCHANGED <<lane, messages>>
    BY <2>1 DEF lane, messages, OrderInv, DataTypeOK, Ordered, PartsInOrder
  <2>2. ASSUME NEW t \in Users, ClosesRx(t)
        PROVE  OrderInv'
    BY <2>2, EmptySeq DEF ClosesRx, messages, OrderInv, DataTypeOK, Ordered, PartsInOrder
  <2>3. ASSUME NEW t \in Users, UserStep(t)
        PROVE  OrderInv'
    BY <2>1, <2>2, <2>3 DEF UserStep, LifecycleStep, ClosesTx, Closes, channelVars
  <2>4. CASE AnyStep \/ UNCHANGED allVars
    BY <2>1, <2>4 DEF AnyStep, channelVars, allVars
  <2> QED
    BY <2>3, <2>4, ReceiverKeepsOrder, PeerKeepsOrder DEF ChannelNext
<1> QED
  BY <1>1, <1>2, PTL DEF ChannelSpec

(* Whichever receivers get them, are cancelled or come back at the same    *)
(* time, the messages of one datum are received in their order.            *)
THEOREM PartsAreInOrder == ChannelSpec => []PartsInOrder
<1>1. OrderInv => PartsInOrder
  BY DEF OrderInv
<1> QED
  BY <1>1, OrderInvariant, PTL

-----------------------------------------------------------------------------
(***************************************************************************)
(* Every message is in one place                                           *)
(***************************************************************************)

(* The message m is held by r, or lies in the buffer at i: these speak of  *)
(* any h and b in the roles of `held' and `buffer', because a datum that   *)
(* its writer waits to add enters the buffer and leaves it in one step.    *)
Holds(h, r, m) == h[r] # None /\ m \in ToSet(h[r].msgs)
Lies(b, i, m) == m \in ToSet(b[i].msgs)

Travels(h, b, m) ==
    \/ \E r \in Receivers : Holds(h, r, m)
    \/ \E i \in DOMAIN b : Lies(b, i, m)

OnceInLane(h, b) ==
    \A m :
        /\ \A r, q \in Receivers : Holds(h, r, m) /\ Holds(h, q, m) => r = q
        /\ \A i, j \in DOMAIN b : Lies(b, i, m) /\ Lies(b, j, m) => i = j
        /\ \A r \in Receivers, i \in DOMAIN b : ~(Holds(h, r, m) /\ Lies(b, i, m))

(* A new datum is added to the buffer ... *)
LEMMA PutInBuffer ==
    ASSUME NEW h, NEW b \in Seq(Data), OnceInLane(h, b),
           NEW x \in Data, \A m \in ToSet(x.msgs) : ~Travels(h, b, m)
    PROVE  /\ Append(b, x) \in Seq(Data)
           /\ Append(b, x) # <<>>
           /\ OnceInLane(h, Append(b, x))
           /\ \A m : Travels(h, Append(b, x), m) <=> Travels(h, b, m) \/ m \in ToSet(x.msgs)
<1> DEFINE c == Append(b, x)
           n == Len(b) + 1
<1>1. /\ c \in Seq(Data)
      /\ c # <<>>
      /\ Len(b) \in Nat
      /\ DOMAIN b = 1..Len(b)
      /\ DOMAIN c = 1..n
      /\ \A i \in 1..Len(b) : c[i] = b[i]
      /\ c[n] = x
  BY AppendProperties, LenProperties
<1>2. DOMAIN c = DOMAIN b \cup {n} /\ n \notin DOMAIN b
  BY <1>1
<1>3. /\ \A m : \A i \in DOMAIN b : Lies(c, i, m) <=> Lies(b, i, m)
      /\ \A m : Lies(c, n, m) <=> m \in ToSet(x.msgs)
  BY <1>1 DEF Lies
<1> HIDE DEF c, n
<1>4. OnceInLane(h, c)
  BY <1>2, <1>3 DEF OnceInLane, Travels
<1>5. \A m : Travels(h, c, m) <=> Travels(h, b, m) \/ m \in ToSet(x.msgs)
  BY <1>2, <1>3 DEF Travels
<1> QED
  BY <1>1, <1>4, <1>5 DEF c

(* ... or given to a receiver that holds no messages ... *)
LEMMA GiveToReceiver ==
    ASSUME NEW h \in [Receivers -> Data \cup {None}], NEW b, OnceInLane(h, b),
           NEW r \in Receivers, \A m : ~Holds(h, r, m),
           NEW x \in Data, \A m \in ToSet(x.msgs) : ~Travels(h, b, m)
    PROVE  /\ OnceInLane([h EXCEPT ![r] = x], b)
           /\ \A m : Travels([h EXCEPT ![r] = x], b, m) <=> Travels(h, b, m) \/ m \in ToSet(x.msgs)
<1> DEFINE g == [h EXCEPT ![r] = x]
<1>1. x # None
  BY ChannelAssumption DEF Data, Message
<1>2. /\ \A m : Holds(g, r, m) <=> m \in ToSet(x.msgs)
      /\ \A m : \A q \in Receivers \ {r} : Holds(g, q, m) <=> Holds(h, q, m)
  BY <1>1 DEF Holds
<1> HIDE DEF g
<1>3. OnceInLane(g, b)
  BY <1>2 DEF OnceInLane, Travels
<1>4. \A m : Travels(g, b, m) <=> Travels(h, b, m) \/ m \in ToSet(x.msgs)
  BY <1>2 DEF Travels
<1> QED
  BY <1>3, <1>4 DEF g

(* ... a receiver takes the first datum of the buffer ... *)
LEMMA TakeFromBuffer ==
    ASSUME NEW h \in [Receivers -> Data \cup {None}], NEW b \in Seq(Data), b # <<>>,
           OnceInLane(h, b), NEW r \in Receivers, \A m : ~Holds(h, r, m)
    PROVE  /\ OnceInLane([h EXCEPT ![r] = Head(b)], Tail(b))
           /\ \A m : Travels([h EXCEPT ![r] = Head(b)], Tail(b), m) <=> Travels(h, b, m)
<1> DEFINE g == [h EXCEPT ![r] = Head(b)]
           c == Tail(b)
<1>1. /\ Head(b) \in Data /\ Head(b) = b[1]
      /\ Len(b) \in Nat \ {0}
      /\ DOMAIN b = 1..Len(b)
      /\ DOMAIN c = 1..(Len(b) - 1)
      /\ \A i \in 1..(Len(b) - 1) : c[i] = b[i + 1]
  BY TakeFirst
<1>2. Head(b) # None
  BY <1>1, ChannelAssumption DEF Data, Message
<1>3. /\ \A m : Holds(g, r, m) <=> Lies(b, 1, m)
      /\ \A m : \A q \in Receivers \ {r} : Holds(g, q, m) <=> Holds(h, q, m)
  BY <1>1, <1>2 DEF Holds, Lies
<1>4. \A m : \A i \in DOMAIN c : Lies(c, i, m) <=> Lies(b, i + 1, m)
  BY <1>1 DEF Lies
<1>5. /\ 1 \in DOMAIN b
      /\ \A i \in DOMAIN c : i + 1 \in DOMAIN b /\ i + 1 # 1
      /\ \A i, j \in DOMAIN c : i + 1 = j + 1 => i = j
      /\ \A i \in DOMAIN b : i # 1 => i - 1 \in DOMAIN c /\ (i - 1) + 1 = i
  BY <1>1
<1> HIDE DEF g, c
<1>6. ASSUME NEW m
      PROVE  /\ \A q, p \in Receivers : Holds(g, q, m) /\ Holds(g, p, m) => q = p
             /\ \A i, j \in DOMAIN c : Lies(c, i, m) /\ Lies(c, j, m) => i = j
             /\ \A q \in Receivers, i \in DOMAIN c : ~(Holds(g, q, m) /\ Lies(c, i, m))
  BY <1>3, <1>4, <1>5 DEF OnceInLane
<1>7. ASSUME NEW m
      PROVE  Travels(g, c, m) <=> Travels(h, b, m)
  <2>1. (\E q \in Receivers : Holds(g, q, m)) <=> (\E q \in Receivers : Holds(h, q, m)) \/ Lies(b, 1, m)
    BY <1>3
  <2>2. (\E i \in DOMAIN c : Lies(c, i, m)) <=> \E i \in DOMAIN b : i # 1 /\ Lies(b, i, m)
    <3>1. ASSUME NEW i \in DOMAIN b, i # 1, Lies(b, i, m)
          PROVE  \E j \in DOMAIN c : Lies(c, j, m)
      <4>1. i - 1 \in DOMAIN c /\ (i - 1) + 1 = i
        BY <1>5, <3>1
      <4>2. Lies(c, i - 1, m) <=> Lies(b, (i - 1) + 1, m)
        BY <1>4, <4>1
      <4> QED
        BY <3>1, <4>1, <4>2
    <3>2. ASSUME NEW j \in DOMAIN c, Lies(c, j, m)
          PROVE  \E i \in DOMAIN b : i # 1 /\ Lies(b, i, m)
      BY <1>4, <1>5, <3>2
    <3> QED
      BY <3>1, <3>2
  <2> QED
    BY <1>5, <2>1, <2>2 DEF Travels
<1> QED
  BY <1>6, <1>7 DEF g, c, OnceInLane

(* ... or lets go of the one that it holds. *)
LEMMA LetGo ==
    ASSUME NEW h \in [Receivers -> Data \cup {None}], NEW b, OnceInLane(h, b), NEW r \in Receivers
    PROVE  /\ OnceInLane([h EXCEPT ![r] = None], b)
           /\ \A m : Travels([h EXCEPT ![r] = None], b, m) <=> Travels(h, b, m) /\ ~Holds(h, r, m)
<1> DEFINE g == [h EXCEPT ![r] = None]
<1>1. /\ \A m : ~Holds(g, r, m)
      /\ \A m : \A q \in Receivers \ {r} : Holds(g, q, m) <=> Holds(h, q, m)
  BY DEF Holds
<1> HIDE DEF g
<1>2. OnceInLane(g, b)
  BY <1>1 DEF OnceInLane
<1>3. \A m : Travels(g, b, m) <=> Travels(h, b, m) /\ ~Holds(h, r, m)
  BY <1>1 DEF Travels, OnceInLane
<1> QED
  BY <1>2, <1>3 DEF g

-----------------------------------------------------------------------------
(* A queue without duplicates as a set: without the element at i ... *)
LEMMA RemoveAtSet ==
    ASSUME NEW S, NEW s \in Seq(S), IsInjective(s), NEW i \in DOMAIN s
    PROVE  /\ RemoveAt(s, i) \in Seq(S)
           /\ IsInjective(RemoveAt(s, i))
           /\ ToSet(RemoveAt(s, i)) = ToSet(s) \ {s[i]}
<1> DEFINE r == RemoveAt(s, i)
           From(j) == IF j < i THEN j ELSE j + 1
<1>1. Len(s) \in Nat /\ DOMAIN s = 1 .. Len(s)
  BY LenProperties
<1>2. /\ r \in Seq(S)
      /\ DOMAIN r = 1 .. (Len(s) - 1)
      /\ \A j \in DOMAIN r : r[j] = s[From(j)]
  BY RemoveAtElements
<1> HIDE DEF r
<1>3. ASSUME NEW j \in DOMAIN r
      PROVE  From(j) \in DOMAIN s /\ From(j) # i
  BY <1>1, <1>2
<1>4. ASSUME NEW j \in DOMAIN r, NEW k \in DOMAIN r, From(j) = From(k)
      PROVE  j = k
  BY <1>1, <1>2, <1>4
<1>5. ASSUME NEW k \in DOMAIN s, k # i
      PROVE  \E j \in DOMAIN r : From(j) = k
  <2>1. CASE k < i
    <3>1. k \in DOMAIN r /\ From(k) = k
      BY <1>1, <1>2, <2>1
    <3> QED
      BY <3>1
  <2>2. CASE k > i
    <3>1. k - 1 \in DOMAIN r /\ From(k - 1) = k
      BY <1>1, <1>2, <2>2
    <3> QED
      BY <3>1
  <2> QED
    BY <1>1, <1>5, <2>1, <2>2
<1> HIDE DEF From
<1>6. IsInjective(r)
  BY <1>2, <1>3, <1>4 DEF IsInjective
<1>7. ToSet(r) = ToSet(s) \ {s[i]}
  <2>1. \A x \in ToSet(r) : x \in ToSet(s) \ {s[i]}
    BY <1>2, <1>3 DEF ToSet, IsInjective
  <2>2. \A x \in ToSet(s) \ {s[i]} : x \in ToSet(r)
    BY <1>2, <1>5 DEF ToSet
  <2> QED
    BY <2>1, <2>2
<1> QED
  BY <1>2, <1>6, <1>7 DEF r

(* ... without the first one ... *)
LEMMA TailSet ==
    ASSUME NEW S, NEW s \in Seq(S), IsInjective(s), s # <<>>
    PROVE  /\ Head(s) \in ToSet(s)
           /\ Tail(s) \in Seq(S)
           /\ IsInjective(Tail(s))
           /\ ToSet(Tail(s)) = ToSet(s) \ {Head(s)}
<1>1. Len(s) \in Nat /\ DOMAIN s = 1 .. Len(s) /\ Len(s) > 0 /\ Head(s) = s[1]
  BY LenProperties, EmptySeq
<1>2. /\ Tail(s) \in Seq(S)
      /\ DOMAIN Tail(s) = 1 .. (Len(s) - 1)
      /\ \A j \in DOMAIN Tail(s) : Tail(s)[j] = s[j + 1]
  BY HeadTailProperties, LenProperties
<1>3. \A j \in DOMAIN Tail(s) : j + 1 \in DOMAIN s /\ j + 1 # 1
  BY <1>1, <1>2
<1>4. \A k \in DOMAIN s : k # 1 => k - 1 \in DOMAIN Tail(s) /\ (k - 1) + 1 = k
  BY <1>1, <1>2
<1>5. IsInjective(Tail(s))
  <2> SUFFICES ASSUME NEW j \in DOMAIN Tail(s), NEW k \in DOMAIN Tail(s),
                      Tail(s)[j] = Tail(s)[k]
               PROVE  j = k
    BY DEF IsInjective
  <2>1. j + 1 = k + 1
    BY <1>2, <1>3 DEF IsInjective
  <2> QED
    BY <1>2, <2>1
<1>6. 1 \in DOMAIN s
  BY <1>1
<1>7. \A x \in ToSet(Tail(s)) : x \in ToSet(s) \ {s[1]}
  BY <1>2, <1>3, <1>6 DEF ToSet, IsInjective
<1>8. \A x \in ToSet(s) \ {s[1]} : x \in ToSet(Tail(s))
  <2> SUFFICES ASSUME NEW k \in DOMAIN s, s[k] # s[1]
               PROVE  s[k] \in ToSet(Tail(s))
    BY DEF ToSet
  <2>1. k - 1 \in DOMAIN Tail(s) /\ Tail(s)[k - 1] = s[k]
    BY <1>2, <1>4
  <2> QED
    BY <2>1 DEF ToSet
<1>9. Head(s) \in ToSet(s)
  BY <1>1, <1>6 DEF ToSet
<1> QED
  BY <1>1, <1>2, <1>5, <1>7, <1>8, <1>9

(* ... and with another one. *)
LEMMA AppendSet ==
    ASSUME NEW S, NEW s \in Seq(S), IsInjective(s), NEW e \in S, e \notin ToSet(s)
    PROVE  /\ Append(s, e) \in Seq(S)
           /\ Append(s, e) # <<>>
           /\ IsInjective(Append(s, e))
           /\ ToSet(Append(s, e)) = ToSet(s) \cup {e}
<1>1. /\ Append(s, e) \in Seq(S)
      /\ Append(s, e) # <<>>
      /\ DOMAIN Append(s, e) = 1 .. (Len(s) + 1)
      /\ Len(s) \in Nat
      /\ DOMAIN s = 1 .. Len(s)
      /\ \A j \in 1 .. Len(s) : Append(s, e)[j] = s[j]
      /\ Append(s, e)[Len(s) + 1] = e
  BY AppendProperties, LenProperties
<1>2. DOMAIN Append(s, e) = DOMAIN s \cup {Len(s) + 1} /\ Len(s) + 1 \notin DOMAIN s
  BY <1>1
<1>3. IsInjective(Append(s, e))
  BY <1>1, <1>2 DEF IsInjective, ToSet
<1>4. ToSet(Append(s, e)) = ToSet(s) \cup {e}
  BY <1>1, <1>2 DEF ToSet
<1> QED
  BY <1>1, <1>3, <1>4


(* Two such queues with no element in common, one after the other. *)
LEMMA ConcatSet ==
    ASSUME NEW S, NEW s \in Seq(S), NEW t \in Seq(S), IsInjective(s), IsInjective(t),
           ToSet(s) \cap ToSet(t) = {}
    PROVE  /\ s \o t \in Seq(S)
           /\ IsInjective(s \o t)
           /\ ToSet(s \o t) = ToSet(s) \cup ToSet(t)
<1>1. /\ Len(s) \in Nat /\ DOMAIN s = 1..Len(s)
      /\ Len(t) \in Nat /\ DOMAIN t = 1..Len(t)
  BY LenProperties
<1>2. /\ s \o t \in Seq(S)
      /\ DOMAIN (s \o t) = 1..(Len(s) + Len(t))
      /\ \A i \in 1..(Len(s) + Len(t)) : (s \o t)[i] = IF i <= Len(s) THEN s[i] ELSE t[i - Len(s)]
  BY ConcatProperties, LenProperties
<1>3. ASSUME NEW i \in DOMAIN (s \o t)
      PROVE  \/ i \in DOMAIN s /\ (s \o t)[i] = s[i]
             \/ i \notin DOMAIN s /\ i - Len(s) \in DOMAIN t /\ (s \o t)[i] = t[i - Len(s)]
  BY <1>1, <1>2
<1>4. IsInjective(s \o t)
  <2> SUFFICES ASSUME NEW i \in DOMAIN (s \o t), NEW j \in DOMAIN (s \o t), (s \o t)[i] = (s \o t)[j]
               PROVE  i = j
    BY DEF IsInjective
  <2>1. CASE i \in DOMAIN s /\ j \in DOMAIN s
    BY <1>3, <2>1 DEF IsInjective
  <2>2. CASE i \notin DOMAIN s /\ j \notin DOMAIN s
    <3>1. i - Len(s) = j - Len(s)
      BY <1>3, <2>2 DEF IsInjective
    <3> QED
      BY <1>1, <1>2, <3>1
  <2>3. ~(i \in DOMAIN s /\ j \notin DOMAIN s) /\ ~(j \in DOMAIN s /\ i \notin DOMAIN s)
    BY <1>3 DEF ToSet
  <2> QED
    BY <2>1, <2>2, <2>3
<1>5. \A x \in ToSet(s \o t) : x \in ToSet(s) \cup ToSet(t)
  BY <1>3 DEF ToSet
<1>6. \A x \in ToSet(s) : x \in ToSet(s \o t)
  <2>1. \A i \in DOMAIN s : i \in DOMAIN (s \o t) /\ (s \o t)[i] = s[i]
    BY <1>1, <1>2
  <2> QED
    BY <2>1 DEF ToSet
<1>7. \A x \in ToSet(t) : x \in ToSet(s \o t)
  <2>1. \A i \in DOMAIN t : i + Len(s) \in DOMAIN (s \o t) /\ (s \o t)[i + Len(s)] = t[i]
    BY <1>1, <1>2
  <2> QED
    BY <2>1 DEF ToSet
<1> QED
  BY <1>2, <1>4, <1>5, <1>6, <1>7

(* The messages of a datum are different from each other. *)
LEMMA NumberedIsInjective == ASSUME NEW s, Numbered(s) PROVE IsInjective(s)
<1>1. PICK d \in Nat : \A i \in DOMAIN s : s[i] = <<d, i>>
  BY Zenon DEF Numbered
<1> QED
  BY <1>1 DEF IsInjective

(* A datum that is written brings new messages and nothing else. *)
LEMMA DatumIsNew ==
    ASSUME DataTypeOK, NEW p \in Payloads
    PROVE  /\ \A m \in ToSet(Datum(p).msgs) : m \notin Messages
           /\ Count(p) => \A m : m \in Messages' <=> m \in Messages \/ m \in ToSet(Datum(p).msgs)
<1> DEFINE n == Len(sent) + 1
<1>1. /\ sent \in Seq(Nat)
      /\ Len(sent) \in Nat
      /\ DOMAIN sent = 1..Len(sent)
      /\ p.size \in {0, 2}
  BY LenProperties, DatumIsData DEF DataTypeOK
<1>2. n \notin DOMAIN sent
  BY <1>1
<1>3. \A m : m \in ToSet(Datum(p).msgs) <=> \E i \in 1..p.size : m = <<n, i>>
  <2>1. DOMAIN Datum(p).msgs = 1..p.size /\ \A i \in 1..p.size : Datum(p).msgs[i] = <<n, i>>
    BY DatumIsData
  <2> QED
    BY <2>1 DEF ToSet
<1>4. \A m : m \in Messages <=> \E d \in DOMAIN sent : \E i \in 1..sent[d] : m = <<d, i>>
  BY DEF Messages
<1>5. \A m : m \in Messages' <=> \E d \in DOMAIN sent' : \E i \in 1..sent'[d] : m = <<d, i>>
  BY DEF Messages
<1> HIDE DEF n
<1>6. \A m \in ToSet(Datum(p).msgs) : m \notin Messages
  BY <1>2, <1>3, <1>4
<1>7. ASSUME Count(p), NEW m
      PROVE  m \in Messages' <=> m \in Messages \/ m \in ToSet(Datum(p).msgs)
  <2>1. CASE p.size = 0
    <3>1. sent' = sent
      BY <1>7, <2>1 DEF Count
    <3>2. ~ \E i \in 1..p.size : m = <<n, i>>
      BY <2>1
    <3> QED
      BY <1>3, <1>4, <1>5, <3>1, <3>2
  <2>2. CASE p.size = 2
    <3>1. /\ DOMAIN sent' = 1..n
          /\ \A d \in DOMAIN sent : sent'[d] = sent[d]
          /\ sent'[n] = p.size
      <4>1. sent' = Append(sent, p.size) /\ p.size \in Nat
        BY <1>7, <2>2 DEF Count
      <4> QED
        BY <1>1, <4>1, AppendProperties, LenProperties DEF n
    <3>2. DOMAIN sent' = DOMAIN sent \cup {n}
      BY <1>1, <3>1 DEF n
    <3>3. m \in Messages' <=> \/ \E d \in DOMAIN sent : \E i \in 1..sent'[d] : m = <<d, i>>
                            \/ \E i \in 1..sent'[n] : m = <<n, i>>
      BY <1>5, <3>2
    <3>4. m \in Messages <=> \E d \in DOMAIN sent : \E i \in 1..sent'[d] : m = <<d, i>>
      BY <1>4, <3>1
    <3>5. m \in ToSet(Datum(p).msgs) <=> \E i \in 1..sent'[n] : m = <<n, i>>
      BY <1>3, <3>1
    <3> QED
      BY <3>3, <3>4, <3>5
  <2> QED
    BY <1>1, <2>1, <2>2
<1> QED
  BY <1>6, <1>7

-----------------------------------------------------------------------------
(* A receiver waits at most once, and with nothing in its hands. *)
WaitersInv ==
    /\ IsInjective(waiters)
    /\ \A r \in ToSet(waiters) : held[r] = None

Settled(m) == m \in ToSet(pending) \/ m \in got \/ m \in lost

(* A message that was written is settled in one of three ways or it is on  *)
(* its way, and until the receiving end is closed it is one of the two.    *)
SettledOnce ==
    /\ IsInjective(pending)
    /\ \A m :
        /\ m \in ToSet(pending) => m \notin got \cup lost
        /\ m \in got => m \notin lost
        /\ Settled(m) \/ Travels(held, buffer, m) => m \in Messages
        /\ ~(Settled(m) /\ Travels(held, buffer, m))
        /\ rx /\ m \in Messages => Settled(m) \/ Travels(held, buffer, m)

OnceInv ==
    /\ WaitersInv
    /\ OnceInLane(held, buffer)
    /\ SettledOnce

(* What is settled stays so when only new messages set off. *)
LEMMA SettledStays ==
    ASSUME OnceInv, UNCHANGED <<messages, rx>>,
           WaitersInv', OnceInLane(held', buffer'),
           \A m : m \in Messages => m \in Messages',
           \A m : Travels(held', buffer', m)
                    <=> Travels(held, buffer, m) \/ (m \in Messages' /\ m \notin Messages)
    PROVE  OnceInv'
<1>1. UNCHANGED <<pending, got, lost, rx>>
  BY DEF messages
<1>2. \A m : Settled(m)' <=> Settled(m)
  BY <1>1 DEF Settled
<1>3. SettledOnce'
  BY <1>1, <1>2 DEF OnceInv, SettledOnce
<1> QED
  BY <1>3 DEF OnceInv

(* The next datum is read by a receiver that holds no messages. *)
LEMMA ReadKeepsOnce ==
    ASSUME DataTypeOK, OnceInv, NEW r \in Receivers, Read(r),
           r \notin ToSet(waiters), \A m : ~Holds(held, r, m), UNCHANGED <<messages, rx>>
    PROVE  OnceInv'
<1>1. /\ held \in [Receivers -> Data \cup {None}]
      /\ buffer \in Seq(Data)
      /\ waiters \in Seq(Receivers)
      /\ IsInjective(waiters)
      /\ \A q \in ToSet(waiters) : held[q] = None
      /\ OnceInLane(held, buffer)
      /\ \A m : Travels(held, buffer, m) => m \in Messages
  BY DEF DataTypeOK, OnceInv, WaitersInv, SettledOnce
<1>2. ASSUME Available # <<>>, held' = [held EXCEPT ![r] = Head(Available)],
             buffer' = Tail(Available), UNCHANGED waiters,
             IF blocked = None THEN UNCHANGED sent ELSE Count(blocked)
      PROVE  OnceInv'
  <2>1. /\ OnceInLane(held, Available)
        /\ Available \in Seq(Data)
        /\ \A m : m \in Messages => m \in Messages'
        /\ \A m : Travels(held, Available, m)
                    <=> Travels(held, buffer, m) \/ (m \in Messages' /\ m \notin Messages)
    <3>1. CASE blocked = None
      <4>1. Available = buffer /\ Messages' = Messages
        BY <1>2, <3>1, AvailableIsData DEF Messages
      <4> QED
        BY <1>1, <4>1
    <3>2. CASE blocked # None
      <4>1. Available = Append(buffer, Datum(blocked)) /\ blocked \in Payloads
        BY <3>2, AvailableIsData
      <4>2. /\ \A m \in ToSet(Datum(blocked).msgs) : m \notin Messages
            /\ \A m : m \in Messages' <=> m \in Messages \/ m \in ToSet(Datum(blocked).msgs)
        BY <1>2, <3>2, <4>1, DatumIsNew
      <4>3. Datum(blocked) \in Data
        BY <4>1, DatumIsData
      <4>4. /\ OnceInLane(held, Append(buffer, Datum(blocked)))
            /\ \A m : Travels(held, Append(buffer, Datum(blocked)), m)
                        <=> Travels(held, buffer, m) \/ m \in ToSet(Datum(blocked).msgs)
        BY <1>1, <4>2, <4>3, PutInBuffer
      <4> QED
        BY <4>1, <4>2, <4>4, AvailableIsData
    <3> QED
      BY <3>1, <3>2
  <2>2. /\ OnceInLane(held', buffer')
        /\ \A m : Travels(held', buffer', m) <=> Travels(held, Available, m)
    BY <1>1, <1>2, <2>1, TakeFromBuffer
  <2>3. WaitersInv'
    BY <1>1, <1>2 DEF WaitersInv
  <2> QED
    BY <2>1, <2>2, <2>3, SettledStays
<1>3. ASSUME held' = [held EXCEPT ![r] = None], UNCHANGED <<buffer, sent>>, WaitersInv'
      PROVE  OnceInv'
  <2>1. Messages' = Messages
    BY <1>3 DEF Messages
  <2>2. /\ OnceInLane(held', buffer')
        /\ \A m : Travels(held', buffer', m) <=> Travels(held, buffer, m)
    BY <1>1, <1>3, LetGo
  <2> QED
    BY <1>3, <2>1, <2>2, SettledStays
<1>4. ASSUME held' = [held EXCEPT ![r] = None], waiters' \in {waiters, Append(waiters, r)}
      PROVE  WaitersInv'
  <2>0. /\ IsInjective(Append(waiters, r))
        /\ ToSet(Append(waiters, r)) = ToSet(waiters) \cup {r}
    BY <1>1, AppendSet
  <2>1. IsInjective(waiters') /\ ToSet(waiters') \subseteq ToSet(waiters) \cup {r}
    <3>1. CASE waiters' = waiters
      BY <1>1, <3>1
    <3>2. CASE waiters' = Append(waiters, r)
      BY <2>0, <3>2
    <3> QED
      BY <1>4, <3>1, <3>2
  <2>2. \A q \in ToSet(waiters') : held'[q] = None
    <3>1. \A q \in ToSet(waiters) : q \in Receivers
      BY <1>1, ElementOfSeq, LenProperties DEF ToSet
    <3> QED
      BY <1>1, <1>4, <2>1, <3>1
  <2> QED
    BY <2>1, <2>2 DEF WaitersInv
<1> QED
  BY <1>2, <1>3, <1>4 DEF Read

(* Every step of the receivers keeps the invariant: receive() returns, the *)
(* parser has looked at a datum, or the call is cancelled ...              *)
LEMMA ReceiverKeepsOnce ==
    ASSUME DataTypeOK, OnceInv, NEW r \in Receivers, Receive(r) \/ Resumes(r) \/ ReceiveCancelled(r)
    PROVE  OnceInv'
<1>0. UNCHANGED rx
  BY ReceiversLeaveConnectionAlone DEF ends
<1>1. ASSUME Receive(r), pending # <<>>, Returns(pending), UNCHANGED lane
      PROVE  OnceInv'
  <2>1. UNCHANGED <<buffer, waiters, held, sent, lost, rx>>
    BY <1>0, <1>1 DEF lane, Returns
  <2>2. /\ IsInjective(pending')
        /\ Head(pending) \in ToSet(pending)
        /\ ToSet(pending') = ToSet(pending) \ {Head(pending)}
        /\ got' = got \cup {Head(pending)}
    BY <1>1, TailSet DEF Returns, DataTypeOK, OnceInv, SettledOnce
  <2>3. \A m : Settled(m)' <=> Settled(m)
    BY <2>1, <2>2 DEF Settled
  <2>4. Messages' = Messages
    BY <2>1 DEF Messages
  <2>5. SettledOnce'
    BY <2>1, <2>2, <2>3, <2>4 DEF OnceInv, SettledOnce
  <2> QED
    BY <2>1, <2>5 DEF OnceInv, WaitersInv
<1>2. CASE Receive(r)
  <2>1. r \notin ToSet(waiters) /\ \A m : ~Holds(held, r, m)
    BY <1>2 DEF Receive, Idle, Holds
  <2> QED
    BY <1>0, <1>1, <1>2, <2>1, ReadKeepsOnce DEF Receive
<1>3. CASE Resumes(r)
  <2> DEFINE msgs == held[r].msgs
             Lets == held' = [held EXCEPT ![r] = None] /\ UNCHANGED <<buffer, blocked, waiters, sent>>
  <2>1. /\ held[r] \in Data
        /\ msgs \in Seq(Message) /\ Numbered(msgs) /\ IsInjective(msgs)
        /\ Len(msgs) \in Nat /\ DOMAIN msgs = 1..Len(msgs)
        /\ pending \in Seq(Message) /\ IsInjective(pending)
        /\ \A m : Holds(held, r, m) <=> m \in ToSet(msgs)
        /\ ToSet(pending) \cap ToSet(msgs) = {}
    <3>1. held[r] \in Data /\ held[r] # None
      BY <1>3 DEF Resumes, DataTypeOK
    <3>2. msgs \in Seq(Message) /\ Numbered(msgs)
      BY <3>1 DEF Data
    <3>3. \A m : Holds(held, r, m) <=> m \in ToSet(msgs)
      BY <3>1 DEF Holds
    <3>4. ToSet(pending) \cap ToSet(msgs) = {}
      BY <3>3 DEF OnceInv, SettledOnce, Settled, Travels
    <3> QED
      BY <3>1, <3>2, <3>3, <3>4, NumberedIsInjective, LenProperties
         DEF DataTypeOK, OnceInv, SettledOnce
  <2>2. r \notin ToSet(waiters)
    BY <1>3 DEF Resumes, OnceInv, WaitersInv
  <2> HIDE DEF msgs
  <2>3. ASSUME Lets, IsInjective(pending'),
               \A m : m \in ToSet(pending') => m \notin got' \cup lost',
               \A m : m \in got' => m \notin lost',
               \A m : Settled(m)' <=> Settled(m) \/ m \in ToSet(msgs)
        PROVE  OnceInv'
    <3>1. /\ OnceInLane(held', buffer')
          /\ \A m : Travels(held', buffer', m) <=> Travels(held, buffer, m) /\ m \notin ToSet(msgs)
      BY <2>1, <2>3, LetGo DEF DataTypeOK, OnceInv
    <3>2. Messages' = Messages
      BY <2>3 DEF Messages
    <3>3. \A m \in ToSet(msgs) : Travels(held, buffer, m)
      BY <2>1 DEF Travels
    <3>4. SettledOnce'
      BY <1>0, <2>3, <3>1, <3>2, <3>3 DEF OnceInv, SettledOnce
    <3>5. WaitersInv'
      BY <2>3, <2>2 DEF DataTypeOK, OnceInv, WaitersInv
    <3> QED
      BY <3>1, <3>4, <3>5 DEF OnceInv
  <2>4. \A m \in ToSet(msgs) : m \notin got \cup lost
    BY <2>1 DEF OnceInv, SettledOnce, Settled, Travels
  <2>5. ASSUME Lets, NEW k \in 0..(Len(msgs) - 1), pending' = Extended(SubSeq(msgs, 1, k)),
               lost' = lost \cup {msgs[i] : i \in (k + 1)..Len(msgs)}, UNCHANGED got
        PROVE  OnceInv'
    <3> DEFINE found == SubSeq(msgs, 1, k)
               rest == {msgs[i] : i \in (k + 1)..Len(msgs)}
    <3>1. k \in 0..Len(msgs)
      BY <2>1
    <3>2. /\ found \in Seq(Message) /\ Numbered(found)
          /\ DOMAIN found = 1..k
          /\ \A i \in 1..k : found[i] = msgs[i]
      BY <2>1, <3>1, FirstMessages, LenProperties
    <3>3. \A m : m \in ToSet(found) <=> \E i \in 1..k : m = msgs[i]
      BY <3>2 DEF ToSet
    <3>4. \A m : m \in rest <=> \E i \in (k + 1)..Len(msgs) : m = msgs[i]
      OBVIOUS
    <3> HIDE DEF found, rest
    <3>5. /\ \A m : m \in ToSet(msgs) <=> m \in ToSet(found) \/ m \in rest
          /\ \A m : ~(m \in ToSet(found) /\ m \in rest)
      <4>1. DOMAIN msgs = (1..k) \cup ((k + 1)..Len(msgs)) /\ (1..k) \cap ((k + 1)..Len(msgs)) = {}
        BY <2>1, <3>1
      <4>2. \A m : m \in ToSet(msgs) <=> \E i \in DOMAIN msgs : m = msgs[i]
        BY DEF ToSet
      <4>3. \A i, j \in DOMAIN msgs : msgs[i] = msgs[j] => i = j
        BY <2>1 DEF IsInjective
      <4> QED
        BY <3>3, <3>4, <4>1, <4>2, <4>3
    <3>6. IsInjective(pending') /\ ToSet(pending') = ToSet(pending) \cup ToSet(found)
      <4>1. IsInjective(found) /\ ToSet(pending) \cap ToSet(found) = {}
        BY <2>1, <3>2, <3>5, NumberedIsInjective
      <4>2. pending' = pending \o found
        BY <2>5 DEF Extended, found
      <4> QED
        BY <2>1, <3>2, <4>1, <4>2, ConcatSet
    <3>7. lost' = lost \cup rest /\ got' = got
      BY <2>5 DEF rest
    <3>8. \A m : Settled(m)' <=> Settled(m) \/ m \in ToSet(msgs)
      BY <3>5, <3>6, <3>7 DEF Settled
    <3>9. \A m : /\ m \in ToSet(pending') => m \notin got' \cup lost'
                 /\ m \in got' => m \notin lost'
      BY <2>1, <2>4, <3>5, <3>6, <3>7 DEF OnceInv, SettledOnce
    <3> QED
      BY <2>3, <2>5, <3>6, <3>8, <3>9
  <2>6. ASSUME Lets, Extended(msgs) # <<>>, Returns(Extended(msgs))
        PROVE  OnceInv'
    <3> DEFINE all == Extended(msgs)
    <3>1. /\ all \in Seq(Message) /\ IsInjective(all)
          /\ ToSet(all) = ToSet(pending) \cup ToSet(msgs)
      BY <2>1, ConcatSet DEF Extended
    <3>2. got' = got \cup {Head(all)} /\ pending' = Tail(all) /\ lost' = lost /\ all # <<>>
      BY <2>6 DEF Returns
    <3> HIDE DEF all
    <3>3. /\ Head(all) \in ToSet(all)
          /\ IsInjective(pending')
          /\ ToSet(pending') = ToSet(all) \ {Head(all)}
      BY <3>1, <3>2, TailSet
    <3>4. \A m : Settled(m)' <=> Settled(m) \/ m \in ToSet(msgs)
      BY <3>1, <3>2, <3>3 DEF Settled
    <3>5. \A m : /\ m \in ToSet(pending') => m \notin got' \cup lost'
                 /\ m \in got' => m \notin lost'
      BY <2>4, <3>1, <3>2, <3>3 DEF OnceInv, SettledOnce
    <3> QED
      BY <2>3, <2>6, <3>3, <3>4, <3>5
  <2>7. ASSUME Extended(msgs) = <<>>, Read(r), UNCHANGED messages
        PROVE  OnceInv'
    <3>1. msgs = <<>>
      BY <2>1, <2>7, ConcatEqualIffEmpty DEF Extended
    <3>2. \A m : ~Holds(held, r, m)
      BY <2>1, <3>1 DEF ToSet
    <3> QED
      BY <1>0, <2>2, <2>7, <3>2, ReadKeepsOnce
  <2> QED
    BY <1>3, <2>5, <2>6, <2>7 DEF Resumes, msgs
<1>4. CASE ReceiveCancelled(r)
  <2>1. UNCHANGED <<messages, buffer, held, sent>>
    BY <1>4 DEF ReceiveCancelled
  <2>2. WaitersInv'
    <3>1. PICK i \in DOMAIN waiters : waiters' = RemoveAt(waiters, i)
      BY <1>4 DEF ReceiveCancelled
    <3>2. IsInjective(waiters') /\ ToSet(waiters') = ToSet(waiters) \ {waiters[i]}
      BY <3>1, RemoveAtSet DEF DataTypeOK, OnceInv, WaitersInv
    <3> QED
      BY <2>1, <3>2 DEF OnceInv, WaitersInv
  <2>3. Messages' = Messages
    BY <2>1 DEF Messages
  <2> QED
    BY <1>0, <2>1, <2>2, <2>3, SettledStays DEF OnceInv
<1> QED
  BY <1>2, <1>3, <1>4

(* ... and so does every step of the peer. *)
LEMMA PeerKeepsOnce ==
    ASSUME DataTypeOK, OnceInv, PeerStep
    PROVE  OnceInv'
<1>0. /\ UNCHANGED <<messages, rx>>
      /\ held \in [Receivers -> Data \cup {None}]
      /\ buffer \in Seq(Data)
      /\ waiters \in Seq(Receivers)
      /\ IsInjective(waiters)
      /\ \A q \in ToSet(waiters) : held[q] = None
      /\ OnceInLane(held, buffer)
      /\ \A m : Travels(held, buffer, m) => m \in Messages
  BY PeerLeavesConnectionAlone
     DEF PeerStep, PeerWrites, PeerGivesUp, PeerCloses, DataTypeOK, OnceInv, WaitersInv, SettledOnce
<1>1. ASSUME WaitersInv', UNCHANGED <<buffer, held, sent>>
      PROVE  OnceInv'
  <2>1. Messages' = Messages
    BY <1>1 DEF Messages
  <2> QED
    BY <1>0, <1>1, <2>1, SettledStays
<1>2. IsInjective(<<>>) /\ ToSet(<<>>) = {}
  BY DEF IsInjective, ToSet
<1>3. CASE PeerGivesUp \/ PeerCloses
  BY <1>0, <1>1, <1>2, <1>3 DEF PeerGivesUp, PeerCloses, WaitersInv
<1>4. ASSUME NEW p \in Payloads, PeerWrites(p)
      PROVE  OnceInv'
  <2> DEFINE x == Datum(p)
  <2>1. x \in Data
    BY DatumIsData
  <2>2. \A m \in ToSet(x.msgs) : m \notin Messages
    BY DatumIsNew
  <2>3. ASSUME Count(p), WaitersInv', OnceInLane(held', buffer'),
               \A m : Travels(held', buffer', m) <=> Travels(held, buffer, m) \/ m \in ToSet(x.msgs)
        PROVE  OnceInv'
    <3>1. \A m : m \in Messages' <=> m \in Messages \/ m \in ToSet(x.msgs)
      BY <2>3, DatumIsNew
    <3> HIDE DEF x
    <3> QED
      BY <1>0, <2>2, <2>3, <3>1, SettledStays
  <2> HIDE DEF x
  <2>4. ASSUME waiters # <<>>, held' = [held EXCEPT ![Head(waiters)] = x],
               waiters' = Tail(waiters), Count(p), UNCHANGED buffer
        PROVE  OnceInv'
    <3>1. /\ Head(waiters) \in Receivers
          /\ Head(waiters) \in ToSet(waiters)
          /\ IsInjective(waiters')
          /\ ToSet(waiters') = ToSet(waiters) \ {Head(waiters)}
      BY <1>0, <2>4, TailSet, TakeFirst
    <3>2. \A m : ~Holds(held, Head(waiters), m)
      BY <1>0, <3>1 DEF Holds
    <3>3. /\ OnceInLane(held', buffer')
          /\ \A m : Travels(held', buffer', m) <=> Travels(held, buffer, m) \/ m \in ToSet(x.msgs)
      BY <1>0, <2>1, <2>2, <2>4, <3>1, <3>2, GiveToReceiver
    <3>4. WaitersInv'
      BY <1>0, <2>4, <3>1 DEF WaitersInv
    <3> QED
      BY <2>3, <2>4, <3>3, <3>4
  <2>5. ASSUME buffer' = Append(buffer, x), Count(p), UNCHANGED <<waiters, held>>
        PROVE  OnceInv'
    <3>1. /\ OnceInLane(held', buffer')
          /\ \A m : Travels(held', buffer', m) <=> Travels(held, buffer, m) \/ m \in ToSet(x.msgs)
      BY <1>0, <2>1, <2>2, <2>5, PutInBuffer
    <3>2. WaitersInv'
      BY <1>0, <2>5 DEF WaitersInv
    <3> QED
      BY <2>3, <2>5, <3>1, <3>2
  <2>6. ASSUME UNCHANGED <<buffer, waiters, held, sent>>
        PROVE  OnceInv'
    BY <1>0, <1>1, <2>6 DEF WaitersInv
  <2> QED
    BY <1>4, <2>4, <2>5, <2>6 DEF PeerWrites, x
<1> QED
  BY <1>3, <1>4 DEF PeerStep

(* The invariant holds throughout. *)
LEMMA OnceInvariant == ChannelSpec => []OnceInv
<1>0. IsInjective(<<>>) /\ ToSet(<<>>) = {} /\ DOMAIN <<>> = {}
  BY DEF IsInjective, ToSet
<1>1. ChannelInit => OnceInv
  <2> SUFFICES ASSUME ChannelInit PROVE OnceInv
    OBVIOUS
  <2>1. \A m : ~Travels(held, buffer, m) /\ \A r \in Receivers : ~Holds(held, r, m)
    BY <1>0 DEF ChannelInit, Travels, Holds
  <2>2. Messages = {}
    BY DEF ChannelInit, Messages
  <2>3. \A m : ~Settled(m)
    BY <1>0 DEF ChannelInit, Settled
  <2>4. SettledOnce
    BY <1>0, <2>1, <2>2, <2>3 DEF ChannelInit, SettledOnce
  <2>5. OnceInLane(held, buffer)
    BY <1>0, <2>1 DEF ChannelInit, OnceInLane
  <2> QED
    BY <1>0, <2>4, <2>5 DEF ChannelInit, OnceInv, WaitersInv
<1>2. OrderInv /\ OnceInv /\ [ChannelNext]_allVars => OnceInv'
  <2> SUFFICES ASSUME OrderInv, OnceInv, [ChannelNext]_allVars
               PROVE  OnceInv'
    OBVIOUS
  <2>0. DataTypeOK
    BY DEF OrderInv
  <2>1. CASE UNCHANGED <<lane, messages, rx>>
    <3>1. UNCHANGED <<buffer, waiters, held, sent>>
      BY <2>1 DEF lane
    <3>2. Messages' = Messages
      BY <3>1 DEF Messages
    <3> QED
      BY <2>1, <3>1, <3>2, SettledStays DEF OnceInv, WaitersInv
  <2>2. ASSUME NEW t \in Users, ClosesRx(t)
        PROVE  OnceInv'
    <3>1. /\ UNCHANGED <<held, sent, pending, got, lost>>
          /\ buffer' = <<>> /\ waiters' = <<>> /\ rx' = FALSE
      BY <2>2 DEF ClosesRx, messages
    <3>2. Messages' = Messages
      BY <3>1 DEF Messages
    <3>3. \A m : Travels(held', buffer', m) => Travels(held, buffer, m)
      BY <1>0, <3>1 DEF Travels
    <3>4. \A m : Settled(m)' <=> Settled(m)
      BY <3>1 DEF Settled
    <3>5. OnceInLane(held', buffer')
      BY <1>0, <3>1 DEF OnceInv, OnceInLane
    <3>6. SettledOnce'
      BY <3>1, <3>2, <3>3, <3>4 DEF OnceInv, SettledOnce
    <3> QED
      BY <1>0, <3>1, <3>5, <3>6 DEF OnceInv, WaitersInv
  <2>3. ASSUME NEW t \in Users, UserStep(t)
        PROVE  OnceInv'
    BY <2>1, <2>2, <2>3 DEF UserStep, LifecycleStep, ClosesTx, Closes, channelVars, ends
  <2>4. CASE AnyStep \/ UNCHANGED allVars
    BY <2>1, <2>4 DEF AnyStep, channelVars, allVars, ends
  <2> QED
    BY <2>0, <2>3, <2>4, ReceiverKeepsOnce, PeerKeepsOnce DEF ChannelNext
<1> QED
  BY <1>1, <1>2, OrderInvariant, PTL DEF ChannelSpec

(* The number of the elements of a set that has at most one. *)
LEMMA AtMostOne ==
    ASSUME NEW S, \A x, y \in S : x = y
    PROVE  Cardinality(S) = IF S = {} THEN 0 ELSE 1
<1>1. CASE S = {}
  BY <1>1, FS_EmptySet
<1>2. CASE S # {}
  <2>1. PICK x \in S : TRUE
    BY <1>2
  <2>2. S = {x}
    BY <2>1
  <2> QED
    BY <1>2, <2>2, FS_Singleton
<1> QED
  BY <1>1, <1>2

(* However many tasks receive, are cancelled or come back with data at the *)
(* same time, and whatever the size of the buffer: no message is delivered *)
(* twice, and none disappears before the receiving end is closed.          *)
THEOREM MessagesAreUnique == ChannelSpec => []EachMessageOnce
<1>1. OnceInv => EachMessageOnce
  <2> SUFFICES ASSUME OnceInv, NEW m \in Messages
               PROVE  Copies(m) <= 1 /\ (rx => Copies(m) = 1)
    BY DEF EachMessageOnce
  <2> DEFINE A == {i \in DOMAIN pending : pending[i] = m}
             B == {r \in Receivers : held[r] # None /\ m \in ToSet(held[r].msgs)}
             C == {i \in DOMAIN buffer : m \in ToSet(buffer[i].msgs)}
             D == {S \in {got, lost} : m \in S}
  <2>1. Cardinality(A) = IF m \in ToSet(pending) THEN 1 ELSE 0
    <3>1. \A x, y \in A : x = y
      BY DEF OnceInv, SettledOnce, IsInjective
    <3>2. A = {} <=> m \notin ToSet(pending)
      BY DEF ToSet
    <3> QED
      BY <3>1, <3>2, AtMostOne
  <2>2. Cardinality(B) = IF \E r \in Receivers : Holds(held, r, m) THEN 1 ELSE 0
    <3>1. \A x, y \in B : x = y
      BY DEF OnceInv, OnceInLane, Holds
    <3>2. B = {} <=> ~ \E r \in Receivers : Holds(held, r, m)
      BY DEF Holds
    <3> QED
      BY <3>1, <3>2, AtMostOne
  <2>3. Cardinality(C) = IF \E i \in DOMAIN buffer : Lies(buffer, i, m) THEN 1 ELSE 0
    <3>1. \A x, y \in C : x = y
      BY DEF OnceInv, OnceInLane, Lies
    <3>2. C = {} <=> ~ \E i \in DOMAIN buffer : Lies(buffer, i, m)
      BY DEF Lies
    <3> QED
      BY <3>1, <3>2, AtMostOne
  <2>4. Cardinality(D) = IF m \in got \/ m \in lost THEN 1 ELSE 0
    <3>1. \A x, y \in D : x = y
      BY DEF OnceInv, SettledOnce
    <3>2. D = {} <=> ~(m \in got \/ m \in lost)
      OBVIOUS
    <3> QED
      BY <3>1, <3>2, AtMostOne
  <2>5. Copies(m) = Cardinality(A) + Cardinality(B) + Cardinality(C) + Cardinality(D)
    BY DEF Copies
  <2> HIDE DEF A, B, C, D
  <2>6. /\ m \in ToSet(pending) => ~(m \in got \/ m \in lost)
        /\ Settled(m) => ~Travels(held, buffer, m)
        /\ rx => Settled(m) \/ Travels(held, buffer, m)
    BY DEF OnceInv, SettledOnce
  <2>7. ~((\E r \in Receivers : Holds(held, r, m)) /\ \E i \in DOMAIN buffer : Lies(buffer, i, m))
    BY DEF OnceInv, OnceInLane
  <2> QED
    BY <2>1, <2>2, <2>3, <2>4, <2>5, <2>6, <2>7 DEF Settled, Travels
<1> QED
  BY <1>1, OnceInvariant, PTL

-----------------------------------------------------------------------------
(***************************************************************************)
(* ConnectionFactory.  Stacks are built layer by layer.                    *)
(* What such a recursion computes is proved in two steps: the closed form  *)
(* satisfies its equation (so that there is a solution), and every         *)
(* solution is equal to it, by induction.                                  *)
(***************************************************************************)

(* Induction for sets of numbers, from the well-foundedness of <. *)
LEMMA SetInduction ==
    ASSUME NEW S, S \subseteq Nat, 0 \in S, \A n \in S : n + 1 \in S
    PROVE  S = Nat
<1> SUFFICES ASSUME S # Nat PROVE FALSE
  OBVIOUS
<1> DEFINE T == Nat \ S
<1> DEFINE R == OpToRel(<, Nat)
<1>1. T \subseteq Nat /\ T # {}
  OBVIOUS
<1>2. IsWellFoundedOn(R, Nat)
  BY NatLessThanWellFounded
<1> HIDE DEF R
<1>3. PICK x \in T : \A y \in T : <<y, x>> \notin R
  BY <1>1, <1>2, WFMin
<1>4. \A y \in T : ~(y < x)
  BY <1>3 DEF R, OpToRel
<1>5. x # 0 /\ x - 1 \in Nat /\ x - 1 < x
  OBVIOUS
<1>6. x - 1 \in S
  BY <1>4, <1>5
<1> QED
  BY <1>5, <1>6

(* The same for intervals. *)
LEMMA IntervalInduction ==
    ASSUME NEW m \in Nat, NEW n \in Nat, m <= n,
           NEW S, m \in S, \A k \in m..n : k # m /\ k - 1 \in S => k \in S
    PROVE  \A k \in m..n : k \in S
<1> DEFINE T == {i \in Nat : m + i <= n => m + i \in S}
<1>1. 0 \in T
  OBVIOUS
<1>2. ASSUME NEW i \in T PROVE i + 1 \in T
  <2>1. CASE m + (i + 1) <= n
    <3>1. /\ m + (i + 1) \in m..n /\ m + (i + 1) # m
          /\ (m + (i + 1)) - 1 = m + i
      BY <2>1
    <3>2. m + i \in S
      BY <2>1
    <3> QED
      BY <3>1, <3>2
  <2> QED
    BY <2>1
<1>3. T = Nat
  <2> HIDE DEF T
  <2>1. T \subseteq Nat
    BY DEF T
  <2> QED
    BY <1>1, <1>2, <2>1, SetInduction
<1>4. ASSUME NEW k \in m..n PROVE k \in S
  <2>1. k - m \in Nat /\ m + (k - m) = k /\ k <= n
    OBVIOUS
  <2>2. k - m \in T
    BY <1>3, <2>1
  <2> QED
    BY <2>1, <2>2
<1> QED
  BY <1>4

-----------------------------------------------------------------------------
(***************************************************************************)
(* The stack that create() makes                                           *)
(***************************************************************************)

(* Wrapping one by one gives the class followed by what the names of the   *)
(* layers stand for, in their order.                                       *)
LEMMA WrappedInOrder ==
    ASSUME NEW klass, NEW listed, Len(listed) \in Nat
    PROVE  Wrapped(klass, listed) =
             [i \in 1..(Len(listed) + 1) |-> IF i = 1 THEN klass ELSE registry[listed[i - 1]]]
<1> DEFINE n == Len(listed)
           Body(g) == [k \in 0..n |->
               IF k = 0 THEN <<klass>> ELSE Append(g[k - 1], registry[listed[k]])]
           Upto(k) == [i \in 1..(k + 1) |-> IF i = 1 THEN klass ELSE registry[listed[i - 1]]]
           closed == [k \in 0..n |-> Upto(k)]
           result == CHOOSE g : g = Body(g)
<1>1. Wrapped(klass, listed) = result[n]
  BY DEF Wrapped
<1>2. Upto(0) = <<klass>>
  OBVIOUS
<1>3. ASSUME NEW k \in 1..n
      PROVE  Upto(k) = Append(Upto(k - 1), registry[listed[k]])
  OBVIOUS
<1> HIDE DEF Upto
<1>4. closed = Body(closed)
  BY <1>2, <1>3
<1>5. result = Body(result)
  <2> HIDE DEF Body, closed
  <2> QED
    BY <1>4
<1>6. \A g : \A k \in 0..n :
        Body(g)[k] = IF k = 0 THEN <<klass>> ELSE Append(g[k - 1], registry[listed[k]])
  OBVIOUS
<1>7. \A k \in 0..n : result[k] = closed[k]
  <2> DEFINE S == {k \in 0..n : result[k] = closed[k]}
  <2> HIDE DEF result, closed, Body
  <2>1. 0 \in S
    BY <1>4, <1>5, <1>6
  <2>2. ASSUME NEW k \in 0..n, k # 0, k - 1 \in S
        PROVE  k \in S
    BY <1>4, <1>5, <1>6, <2>2
  <2>3. \A k \in 0..n : k \in S
    <3>1. 0 \in Nat /\ n \in Nat /\ 0 <= n
      OBVIOUS
    <3>2. \A k \in 0..n : k # 0 /\ k - 1 \in S => k \in S
      BY <2>2
    <3> HIDE DEF S, n
    <3> QED
      BY <2>1, <3>1, <3>2, IntervalInduction, Zenon
  <2> QED
    BY <2>3
<1>8. result[n] = Upto(n)
  <2> HIDE DEF result
  <2> QED
    BY <1>7
<1> QED
  BY <1>1, <1>8 DEF Upto

-----------------------------------------------------------------------------
(***************************************************************************)
(* Contexts                                                                *)
(***************************************************************************)

Values == Classes \cup Kinds
Context == [value : Values, old : Values \cup {Nothing}]

FactoryTypeOK ==
    /\ registry \in [Names -> Values \cup {Nothing}]
    /\ contexts \in [Names -> Seq(Context)]

(* A private name stands for what its innermost context says, and each of  *)
(* its contexts remembers what the one around it says.                     *)
ContextsAreNested ==
    \A n \in Private :
        /\ contexts[n] # <<>> => registry[n] = contexts[n][Len(contexts[n])].value
        /\ \A i \in DOMAIN contexts[n] :
            i # 1 => contexts[n][i].old = contexts[n][i - 1].value

NestingInv == FactoryTypeOK /\ ContextsAreNested

(* Leaving the context i takes it out of the sequence; if it is the        *)
(* innermost one, the others stay in their places.                         *)
LEMMA LeavesSequence ==
    ASSUME NEW S, NEW s \in Seq(S), NEW i \in DOMAIN s
    PROVE  LET r == SubSeq(s, 1, i - 1) \o SubSeq(s, i + 1, Len(s))
           IN  /\ r \in Seq(S)
               /\ i = Len(s) => /\ r = SubSeq(s, 1, Len(s) - 1)
                               /\ Len(r) = Len(s) - 1
                               /\ \A j \in 1..(Len(s) - 1) : r[j] = s[j]
<1>1. Len(s) \in Nat /\ i \in 1..Len(s)
  OBVIOUS
<1>2. SubSeq(s, 1, i - 1) \in Seq(S) /\ SubSeq(s, i + 1, Len(s)) \in Seq(S)
  BY <1>1
<1>3. ASSUME i = Len(s)
      PROVE  /\ SubSeq(s, i + 1, Len(s)) = <<>>
             /\ Len(SubSeq(s, 1, i - 1)) = Len(s) - 1
             /\ \A j \in 1..(Len(s) - 1) : SubSeq(s, 1, i - 1)[j] = s[j]
  BY <1>1, <1>3
<1>4. \A r \in Seq(S) : r \o <<>> = r
  OBVIOUS
<1> QED
  BY <1>1, <1>2, <1>3, <1>4

(* Every step keeps the nesting. *)
LEMMA NestingStep ==
    ASSUME NestingInv, [FactoryNext]_factoryVars
    PROVE  NestingInv'
<1> USE NothingAssumption DEF NestingInv, FactoryTypeOK, ContextsAreNested, Values
<1>0. Private \subseteq Names /\ Private \cap Shared = {}
  BY DEF Private
<1>1. CASE UNCHANGED factoryVars
  BY <1>1 DEF factoryVars
<1>2. ASSUME NEW n \in Names, NEW v \in ValuesOf(n), Register(n, v)
      PROVE  NestingInv'
  <2>1. v \in Values
    BY DEF ValuesOf
  <2> QED
    BY <1>0, <1>2, <2>1 DEF Register, Unscoped
<1>3. ASSUME NEW n \in Names, Unregister(n)
      PROVE  NestingInv'
  BY <1>0, <1>3 DEF Unregister, Unscoped
<1>4. ASSUME NEW n \in Names, NEW v \in ValuesOf(n), Enter(n, v)
      PROVE  NestingInv'
  <2> DEFINE c == [value |-> v, old |-> registry[n]]
             s == contexts[n]
             r == Append(s, c)
  <2>1. v \in Values
    BY DEF ValuesOf
  <2>2. c \in Context /\ s \in Seq(Context)
    BY <2>1 DEF Context
  <2>3. /\ r \in Seq(Context) /\ Len(r) = Len(s) + 1 /\ r # <<>>
        /\ DOMAIN r = 1..(Len(s) + 1) /\ DOMAIN s = 1..Len(s) /\ Len(s) \in Nat
        /\ r[Len(s) + 1] = c
        /\ \A i \in 1..Len(s) : r[i] = s[i]
    <3> HIDE DEF c, s
    <3>1. DOMAIN s = 1..Len(s) /\ Len(s) \in Nat
      BY <2>2
    <3>2. /\ r \in Seq(Context) /\ Len(r) = Len(s) + 1 /\ r # <<>>
          /\ r[Len(s) + 1] = c
          /\ \A i \in 1..Len(s) : r[i] = s[i]
      BY <2>2, AppendProperties
    <3> HIDE DEF r
    <3> QED
      BY <3>1, <3>2
  <2>4. /\ contexts' = [contexts EXCEPT ![n] = r]
        /\ registry' = [registry EXCEPT ![n] = v]
    BY <1>4 DEF Enter
  <2>5. c.value = v /\ c.old = registry[n]
    OBVIOUS
  <2>6. ASSUME n \in Private
        PROVE  /\ v = r[Len(r)].value
               /\ \A i \in DOMAIN r : i # 1 => r[i].old = r[i - 1].value
    <3> HIDE DEF c, r
    <3>1. ASSUME NEW i \in DOMAIN r, i # 1
          PROVE  r[i].old = r[i - 1].value
      <4>1. CASE i = Len(s) + 1
        <5>1. s # <<>> /\ r[i - 1] = s[Len(s)]
          BY <2>3, <3>1, <4>1
        <5> QED
          BY <2>3, <2>5, <2>6, <4>1, <5>1
      <4>2. CASE i # Len(s) + 1
        <5>1. i \in 1..Len(s) /\ i - 1 \in 1..Len(s)
          BY <2>3, <3>1, <4>2
        <5> QED
          BY <2>3, <2>6, <3>1, <5>1
      <4> QED
        BY <4>1, <4>2
    <3> QED
      BY <2>3, <2>5, <3>1
  <2> HIDE DEF r, c
  <2> QED
    BY <1>0, <2>1, <2>3, <2>4, <2>6
<1>5. ASSUME NEW n \in Names, NEW i \in 1..MaxContexts, Leave(n, i)
      PROVE  NestingInv'
  <2> DEFINE s == contexts[n]
             r == SubSeq(s, 1, i - 1) \o SubSeq(s, i + 1, Len(s))
             v == Restored(n, s[i].old)
  <2>1. s \in Seq(Context) /\ i \in DOMAIN s
    BY <1>5 DEF Leave
  <2>2. /\ r \in Seq(Context)
        /\ i = Len(s) => Len(r) = Len(s) - 1 /\ \A j \in 1..(Len(s) - 1) : r[j] = s[j]
    <3> HIDE DEF s
    <3> QED
      BY <2>1, LeavesSequence
  <2>3. /\ contexts' = [contexts EXCEPT ![n] = r]
        /\ registry' = [registry EXCEPT ![n] = v]
        /\ n \in Private => i = Len(s)
    BY <1>0, <1>5 DEF Leave
  <2>4. s[i] \in Context /\ Len(s) \in Nat /\ DOMAIN s = 1..Len(s)
    BY <2>1
  <2>5. v \in Values \cup {Nothing}
    BY <2>4 DEF Restored, Context
  <2>6. ASSUME n \in Private
        PROVE  /\ r # <<>> => v = r[Len(r)].value
               /\ \A j \in DOMAIN r : j # 1 => r[j].old = r[j - 1].value
    <3>1. registry[n] # Nothing
      <4>1. s[Len(s)].value \in Values
        BY <2>1, <2>3, <2>4, <2>6 DEF Context
      <4> QED
        BY <2>1, <2>3, <2>4, <2>6, <4>1
    <3>2. v = s[Len(s)].old
      BY <2>3, <2>6, <3>1 DEF Restored
    <3> HIDE DEF r, v
    <3>3. ASSUME r # <<>> PROVE v = r[Len(r)].value
      <4>1. Len(r) \in 1..(Len(s) - 1) /\ Len(s) # 1
        BY <2>2, <2>3, <2>4, <2>6, <3>3
      <4> QED
        BY <2>2, <2>3, <2>4, <2>6, <3>2, <4>1
    <3>4. ASSUME NEW j \in DOMAIN r, j # 1 PROVE r[j].old = r[j - 1].value
      <4>1. j \in 1..(Len(s) - 1) /\ j - 1 \in 1..(Len(s) - 1)
        BY <2>2, <2>3, <2>4, <2>6, <3>4
      <4>2. r[j] = s[j] /\ r[j - 1] = s[j - 1] /\ j \in DOMAIN s
        <5>1. \A k \in 1..(Len(s) - 1) : r[k] = s[k]
          BY <2>2, <2>3, <2>6
        <5> HIDE DEF s
        <5> QED
          BY <2>4, <4>1, <5>1
      <4> QED
        BY <2>6, <3>4, <4>2
    <3> QED
      BY <3>3, <3>4
  <2> HIDE DEF r, v
  <2> QED
    BY <1>0, <2>2, <2>3, <2>5, <2>6
<1>6. ASSUME NEW type \in Types, NEW listed \in Specifications, Create(type, listed)
      PROVE  NestingInv'
  BY <1>6 DEF Create
<1> QED
  BY <1>1, <1>2, <1>3, <1>4, <1>5, <1>6 DEF FactoryNext

(* The invariant holds throughout. *)
LEMMA NestingInvariant == FactorySpec => []NestingInv
<1>1. FactoryInit => NestingInv
  BY DEF FactoryInit, NestingInv, FactoryTypeOK, ContextsAreNested, Values, Private
<1>2. NestingInv /\ [FactoryNext]_factoryVars => NestingInv'
  BY NestingStep
<1> QED
  BY <1>1, <1>2, PTL DEF FactorySpec

-----------------------------------------------------------------------------
(***************************************************************************)
(* Refinement of ScopedNames                                               *)
(***************************************************************************)

(* The state of the abstract specification. *)
Plain == [n \in Private |-> IF contexts[n] = <<>> THEN registry[n] ELSE contexts[n][1].old]
Scopes == [n \in Private |-> [i \in DOMAIN contexts[n] |-> contexts[n][i].value]]
Asked == IF made # Nothing /\ ~(Asks(made) \subseteq Private)
         THEN [made EXCEPT !.asked = <<>>] ELSE made

(* The abstract meaning of a private name is its entry in the registry. *)
LEMMA MeansItsEntry ==
    ASSUME NestingInv, NEW n \in Private
    PROVE  Scoped!Visible(n) = registry[n]
<1> DEFINE s == contexts[n]
<1>1. s \in Seq(Context) /\ n \in Names
  BY DEF NestingInv, FactoryTypeOK, Private
<1>2. s # <<>> => Len(s) \in DOMAIN s
  <2> HIDE DEF s
  <2> QED
    BY <1>1
<1>3. /\ Len([i \in DOMAIN s |-> s[i].value]) = Len(s)
      /\ [i \in DOMAIN s |-> s[i].value] = <<>> <=> s = <<>>
  <2> HIDE DEF s
  <2> QED
    BY <1>1
<1> QED
  BY <1>2, <1>3 DEF Scoped!Visible, NestingInv, ContextsAreNested

(* A step that touches no private name. *)
LEMMA SharedStep ==
    ASSUME made' = Nothing,
           \A n \in Private : registry'[n] = registry[n] /\ contexts'[n] = contexts[n]
    PROVE  Scoped!Forget
<1>1. Plain' = Plain /\ Scopes' = Scopes
  BY DEF Plain, Scopes
<1>2. Asked' = Nothing
  BY DEF Asked
<1> QED
  BY <1>1, <1>2 DEF Scoped!Forget, Plain, Scopes, Asked

(* register() and unregister() of a private name. *)
LEMMA RegisterStep ==
    ASSUME NestingInv, NEW n \in Private, NEW v \in Values \cup {Nothing}, contexts[n] = <<>>,
           registry' = [registry EXCEPT ![n] = v], made' = Nothing, UNCHANGED contexts
    PROVE  Scoped!Register(n) /\ Asked' = Nothing
<1>1. Private \subseteq Names
  BY DEF Private
<1>2. Plain' = [Plain EXCEPT ![n] = v]
  BY <1>1 DEF Plain, NestingInv, FactoryTypeOK
<1>3. Scopes' = Scopes /\ Scopes[n] = <<>>
  BY DEF Scopes
<1>4. Asked' = Nothing
  BY DEF Asked
<1> QED
  BY <1>2, <1>3, <1>4 DEF Scoped!Register, Plain, Scopes, Values

(* Entering a context of a private name. *)
LEMMA EnterStep ==
    ASSUME NestingInv, NEW n \in Private, NEW v \in Values, Enter(n, v)
    PROVE  Scoped!Enter(n) /\ Asked' = Nothing
<1> DEFINE c == [value |-> v, old |-> registry[n]]
           s == contexts[n]
<1>1. Private \subseteq Names
  BY DEF Private
<1>2. /\ s \in Seq(Context) /\ c \in Context
      /\ contexts' = [contexts EXCEPT ![n] = Append(s, c)]
      /\ registry' = [registry EXCEPT ![n] = v]
      /\ DOMAIN contexts = Names /\ DOMAIN registry = Names
      /\ c.value = v /\ c.old = registry[n]
  BY <1>1 DEF Enter, NestingInv, FactoryTypeOK, Context
<1>3. /\ Append(s, c) # <<>>
      /\ Append(s, c)[1] = IF s = <<>> THEN c ELSE s[1]
      /\ [i \in DOMAIN Append(s, c) |-> Append(s, c)[i].value] =
            Append([i \in DOMAIN s |-> s[i].value], v)
  <2> HIDE DEF s, c
  <2> QED
    BY <1>2
<1> HIDE DEF c
<1>4. Plain' = Plain
  <2>1. ASSUME NEW m \in Private PROVE Plain'[m] = Plain[m]
    <3>1. CASE m = n
      BY <1>1, <1>2, <1>3, <3>1 DEF Plain
    <3>2. CASE m # n
      BY <1>1, <1>2, <3>2 DEF Plain
    <3> QED
      BY <3>1, <3>2
  <2> QED
    BY <2>1 DEF Plain
<1>5. Scopes' = [Scopes EXCEPT ![n] = Append(Scopes[n], v)]
  BY <1>1, <1>2, <1>3 DEF Scopes
<1>6. Asked' = Nothing
  BY DEF Asked, Enter
<1> QED
  BY <1>4, <1>5, <1>6 DEF Scoped!Enter, Plain, Scopes, Values

(* Leaving the innermost context of a private name. *)
LEMMA LeaveStep ==
    ASSUME NestingInv, NEW n \in Private, NEW i \in 1..MaxContexts, Leave(n, i)
    PROVE  Scoped!Leave(n) /\ Asked' = Nothing
<1> DEFINE s == contexts[n]
           r == SubSeq(s, 1, i - 1) \o SubSeq(s, i + 1, Len(s))
<1>1. Private \subseteq Names /\ n \notin Shared
  BY DEF Private
<1>2. /\ s \in Seq(Context) /\ i \in DOMAIN s /\ i = Len(s)
      /\ contexts' = [contexts EXCEPT ![n] = r]
      /\ registry' = [registry EXCEPT ![n] = Restored(n, s[i].old)]
      /\ DOMAIN contexts = Names /\ DOMAIN registry = Names
  BY <1>1 DEF Leave, NestingInv, FactoryTypeOK
<1>3. /\ r \in Seq(Context) /\ r = SubSeq(s, 1, Len(s) - 1) /\ Len(r) = Len(s) - 1
      /\ \A j \in 1..(Len(s) - 1) : r[j] = s[j]
  <2> HIDE DEF s
  <2> QED
    BY <1>2, LeavesSequence
<1>4. s # <<>> /\ Len(s) \in Nat /\ Len(s) >= 1 /\ DOMAIN s = 1..Len(s) /\ s[i] \in Context
  <2> HIDE DEF s
  <2> QED
    BY <1>2
<1>5. Restored(n, s[i].old) = s[i].old
  <2>1. registry[n] = s[i].value /\ s[i].value \in Values
    BY <1>2, <1>4 DEF NestingInv, ContextsAreNested, Context
  <2> QED
    BY <2>1, NothingAssumption DEF Restored, Values
<1> HIDE DEF r
<1>6. Plain' = Plain
  <2>1. IF r = <<>> THEN s[i] = s[1] ELSE r[1] = s[1]
    <3> HIDE DEF s
    <3>1. CASE Len(s) = 1
      <4>1. r = <<>>
        BY <1>3, <3>1, EmptySeq
      <4> QED
        BY <1>2, <3>1, <4>1
    <3>2. CASE Len(s) # 1
      <4>1. 1 \in 1..(Len(s) - 1) /\ Len(r) # 0
        BY <1>3, <1>4, <3>2
      <4>2. r # <<>> /\ r[1] = s[1]
        BY <1>3, <4>1, EmptySeq
      <4> QED
        BY <4>2
    <3> QED
      BY <3>1, <3>2
  <2>2. ASSUME NEW m \in Private PROVE Plain'[m] = Plain[m]
    <3>1. CASE m = n
      BY <1>1, <1>2, <1>4, <1>5, <2>1, <3>1 DEF Plain
    <3>2. CASE m # n
      BY <1>1, <1>2, <3>2 DEF Plain
    <3> QED
      BY <3>1, <3>2
  <2> QED
    BY <2>2 DEF Plain
<1>7. /\ Scopes[n] # <<>>
      /\ Scopes' = [Scopes EXCEPT ![n] = SubSeq(Scopes[n], 1, Len(Scopes[n]) - 1)]
  <2> DEFINE vs == [j \in DOMAIN s |-> s[j].value]
  <2>1. /\ vs # <<>>
        /\ [j \in DOMAIN r |-> r[j].value] = SubSeq(vs, 1, Len(vs) - 1)
    <3> HIDE DEF s
    <3>1. vs \in Seq(Values) /\ Len(vs) = Len(s)
      <4>1. \A j \in DOMAIN s : s[j].value \in Values
        <5>1. \A j \in DOMAIN s : s[j] \in Context
          BY <1>2
        <5> QED
          BY <5>1 DEF Context
      <4>2. vs \in [1..Len(s) -> Values]
        BY <1>4, <4>1
      <4> HIDE DEF vs
      <4> QED
        BY <1>4, <4>2
    <3>2. DOMAIN r = 1..(Len(s) - 1)
      BY <1>3, <1>4
    <3> QED
      BY <1>3, <1>4, <3>1, <3>2
  <2> QED
    BY <1>1, <1>2, <2>1 DEF Scopes
<1>8. Asked' = Nothing
  BY DEF Asked, Leave
<1> QED
  BY <1>6, <1>7, <1>8 DEF Scoped!Leave, Plain, Scopes

(* What create() is asked for, name by name. *)
LEMMA AskedNames ==
    ASSUME NEW type \in Types, NEW listed \in Specifications
    PROVE  LET asked == <<type>> \o listed
           IN /\ listed \in Seq(Names) /\ Len(listed) \in Nat
              /\ DOMAIN listed = 1..Len(listed)
              /\ asked \in Seq(Names) /\ asked # <<>>
              /\ DOMAIN asked = 1..(Len(listed) + 1)
              /\ asked[1] = type
              /\ \A i \in 1..(Len(listed) + 1) : i # 1 => asked[i] = listed[i - 1]
<1>1. type \in Names /\ listed \in Seq(Names)
  BY DEF Specifications, Names
<1> QED
  BY <1>1

(* The stack of what create() is asked for. *)
LEMMA WrappedListed ==
    ASSUME NEW klass, NEW listed \in Specifications
    PROVE  Wrapped(klass, listed) =
             [i \in 1..(Len(listed) + 1) |-> IF i = 1 THEN klass ELSE registry[listed[i - 1]]]
<1>1. Len(listed) \in Nat
  BY DEF Specifications
<1> QED
  BY <1>1, WrappedInOrder

(* What create() gives is a result in the sense of NothingAssumption. *)
LEMMA ResultIsTyped ==
    ASSUME NestingInv, NEW type \in Types, NEW listed \in Specifications
    PROVE  Made(type, listed) \in
             [error : {"none", "type", "middleware"}, stack : Seq(Values)]
<1> DEFINE n == Len(listed)
           w == Wrapped(registry[type], listed)
<1>1. /\ n \in Nat /\ DOMAIN listed = 1..n
      /\ type \in Names /\ \A k \in 1..n : listed[k] \in Names
  BY DEF Specifications, Names
<1>2. \A m \in Names : registry[m] \in Values \cup {Nothing}
  BY DEF NestingInv, FactoryTypeOK
<1>3. ASSUME registry[type] # Nothing, Nothing \notin {registry[listed[k]] : k \in DOMAIN listed}
      PROVE  w \in Seq(Values)
  <2>1. w = [i \in 1..(n + 1) |-> IF i = 1 THEN registry[type] ELSE registry[listed[i - 1]]]
    BY <1>1, WrappedInOrder
  <2>2. \A i \in 1..(n + 1) : i # 1 => registry[listed[i - 1]] \in Values
    <3>1. \A k \in 1..n : registry[listed[k]] \in Values
      BY <1>1, <1>2, <1>3
    <3>2. \A i \in 1..(n + 1) : i # 1 => i - 1 \in 1..n
      BY <1>1
    <3> QED
      BY <3>1, <3>2
  <2>3. registry[type] \in Values
    BY <1>1, <1>2, <1>3
  <2> HIDE DEF w, n
  <2>4. w \in [1..(n + 1) -> Values]
    BY <2>1, <2>2, <2>3
  <2> QED
    BY <1>1, <2>4
<1>4. <<>> \in Seq(Values)
  OBVIOUS
<1> QED
  BY <1>3, <1>4 DEF Made

(* create() of private names gives what they mean. *)
LEMMA MadeIsMeant ==
    ASSUME NestingInv, NEW type \in Types, NEW listed \in Specifications,
           NEW asked, asked = <<type>> \o listed,
           \A i \in DOMAIN asked : asked[i] \in Private
    PROVE  Made(type, listed) = Scoped!Meaning(asked)
<1> DEFINE n == Len(listed)
           means == [i \in DOMAIN asked |-> Scoped!Visible(asked[i])]
<1>1. /\ n \in Nat /\ DOMAIN listed = 1..n
      /\ DOMAIN asked = 1..(n + 1) /\ asked[1] = type
      /\ \A i \in 1..(n + 1) : i # 1 => asked[i] = listed[i - 1]
  BY AskedNames
<1>0. Wrapped(registry[type], listed) =
        [i \in 1..(n + 1) |-> IF i = 1 THEN registry[type] ELSE registry[listed[i - 1]]]
  BY WrappedListed
<1> HIDE DEF n
<1>2. means = [i \in 1..(n + 1) |-> IF i = 1 THEN registry[type] ELSE registry[listed[i - 1]]]
  <2>1. \A i \in DOMAIN asked : Scoped!Visible(asked[i]) = registry[asked[i]]
    BY MeansItsEntry
  <2> DEFINE Item(i) == IF i = 1 THEN registry[type] ELSE registry[listed[i - 1]]
  <2>2. \A i \in DOMAIN asked : registry[asked[i]] = Item(i)
    BY <1>1
  <2>3. \A i \in 1..(n + 1) : Scoped!Visible(asked[i]) = Item(i)
    <3> HIDE DEF Item
    <3> QED
      BY <1>1, <2>1, <2>2
  <2>4. means = [i \in 1..(n + 1) |-> Item(i)]
    <3> HIDE DEF Item
    <3> QED
      BY <1>1, <2>3, Zenon
  <2> QED
    BY <2>4
<1>3. means = Wrapped(registry[type], listed)
  BY <1>0, <1>2
<1>4. means[1] = registry[type]
  BY <1>1, <1>2
<1>5. (\E i \in DOMAIN means \ {1} : means[i] = Nothing)
        <=> Nothing \in {registry[listed[k]] : k \in DOMAIN listed}
  <2>1. ASSUME NEW i \in DOMAIN means \ {1}, means[i] = Nothing
        PROVE  \E k \in DOMAIN listed : registry[listed[k]] = Nothing
    <3>1. i - 1 \in DOMAIN listed /\ registry[listed[i - 1]] = Nothing
      BY <1>1, <1>2, <2>1
    <3> QED
      BY <3>1
  <2>2. ASSUME NEW k \in DOMAIN listed, registry[listed[k]] = Nothing
        PROVE  \E i \in DOMAIN means \ {1} : means[i] = Nothing
    <3>1. k + 1 \in DOMAIN means \ {1} /\ (k + 1) - 1 = k
      BY <1>1, <1>2
    <3>2. means[k + 1] = Nothing
      BY <1>2, <2>2, <3>1
    <3> QED
      BY <3>1, <3>2
  <2> QED
    BY <2>1, <2>2
<1>6. Scoped!Meaning(asked) =
        IF means[1] = Nothing
        THEN [error |-> "type", stack |-> <<>>]
        ELSE IF \E i \in DOMAIN means \ {1} : means[i] = Nothing
        THEN [error |-> "middleware", stack |-> <<>>]
        ELSE [error |-> "none", stack |-> means]
  BY DEF Scoped!Meaning
<1> HIDE DEF means
<1> QED
  BY <1>3, <1>4, <1>5, <1>6 DEF Made

(* create(). *)
LEMMA CreateStep ==
    ASSUME NestingInv, NEW type \in Types, NEW listed \in Specifications, Create(type, listed)
    PROVE  Scoped!Create
<1> DEFINE asked == <<type>> \o listed
           result == Made(type, listed)
           Results == [error : {"none", "type", "middleware"}, stack : Seq(Values)]
<1>1. made' = [asked |-> asked, result |-> result] /\ UNCHANGED <<registry, contexts>>
  BY DEF Create
<1>2. asked \in Seq(Names) /\ <<>> \in Seq(Names) /\ result \in Results
  <2>1. result \in Results
    BY ResultIsTyped
  <2>2. asked \in Seq(Names)
    BY AskedNames
  <2> QED
    BY <2>1, <2>2
<1>3. Nothing \notin [asked : Seq(Names), result : Results]
  BY NothingAssumption DEF Values
<1>4. Plain' = Plain /\ Scopes' = Scopes
  BY <1>1 DEF Plain, Scopes
<1>5. ASSUME \A i \in DOMAIN asked : asked[i] \in Private
      PROVE  result = Scoped!Meaning(asked)
  BY <1>5, MadeIsMeant
<1> HIDE DEF asked, result, Results
<1>6. made'.asked = asked /\ made'.result = result /\ made' # Nothing
  BY <1>1, <1>2, <1>3
<1>7. Asks(made') = {asked[i] : i \in DOMAIN asked}
  BY <1>6 DEF Asks
<1>8. CASE Asks(made') \subseteq Private
  <2>1. Asked' = made'
    BY <1>8 DEF Asked
  <2>2. result = Scoped!Meaning(asked)
    BY <1>5, <1>7, <1>8
  <2> QED
    BY <1>4, <1>6, <2>1, <2>2 DEF Scoped!Create, Plain, Scopes, Asked
<1>9. CASE ~(Asks(made') \subseteq Private)
  <2>1. Asked' = [made' EXCEPT !.asked = <<>>]
    BY <1>6, <1>9 DEF Asked
  <2>2. Asked' = [asked |-> <<>>, result |-> result]
    BY <1>1, <2>1
  <2>3. Asked'.asked = <<>> /\ Asked' # Nothing
    <3> DEFINE m == [asked |-> <<>>, result |-> result]
    <3>1. m \in [asked : Seq(Names), result : Results] /\ m.asked = <<>>
      BY <1>2
    <3> HIDE DEF m
    <3>2. Asked' = m
      BY <2>2 DEF m
    <3>3. m # Nothing
      BY <1>3, <3>1
    <3> HIDE DEF Asked
    <3> QED
      BY <3>1, <3>2, <3>3
  <2> QED
    BY <1>4, <2>3 DEF Scoped!Create, Plain, Scopes, Asked
<1> QED
  BY <1>8, <1>9

(* Every step of the factory is a step of the abstract specification: what *)
(* happens to shared names, and to the registry while their contexts are   *)
(* left out of order, is invisible.                                        *)
LEMMA StepIsScoped ==
    ASSUME NestingInv, [FactoryNext]_factoryVars
    PROVE  [Scoped!Next]_(Scoped!vars)
<1>1. CASE UNCHANGED factoryVars
  <2>1. Plain' = Plain /\ Scopes' = Scopes /\ Asked' = Asked
    BY <1>1 DEF factoryVars, Plain, Scopes, Asked
  <2> QED
    BY <2>1 DEF Scoped!vars, Plain, Scopes, Asked
<1>2. ASSUME NEW n \in Names,
             \/ \E v \in ValuesOf(n) : Register(n, v) \/ Enter(n, v)
             \/ Unregister(n)
             \/ \E i \in 1..MaxContexts : Leave(n, i)
      PROVE  Scoped!Next
  <2>1. ValuesOf(n) \subseteq Values
    BY DEF ValuesOf, Values
  <2>2. CASE n \in Private
    <3>1. ASSUME NEW v \in Values \cup {Nothing},
                 Unscoped(n), registry' = [registry EXCEPT ![n] = v], made' = Nothing,
                 UNCHANGED contexts
          PROVE  Scoped!Register(n) /\ Asked' = Nothing
      <4>1. contexts[n] = <<>>
        BY <2>2, <3>1 DEF Unscoped, Private
      <4> QED
        BY <2>2, <3>1, <4>1, RegisterStep
    <3>2. (Scoped!Register(n) \/ Scoped!Enter(n) \/ Scoped!Leave(n)) /\ Asked' = Nothing
      BY <1>2, <2>1, <2>2, <3>1, EnterStep, LeaveStep DEF Register, Unregister
    <3> QED
      BY <2>2, <3>2 DEF Scoped!Next, Asked
  <2>3. CASE n \notin Private
    <3>1. /\ made' = Nothing
          /\ \E v : registry' = [registry EXCEPT ![n] = v]
          /\ contexts' = contexts \/ \E s : contexts' = [contexts EXCEPT ![n] = s]
      BY <1>2 DEF Register, Unregister, Enter, Leave
    <3>2. \A m \in Private : registry'[m] = registry[m] /\ contexts'[m] = contexts[m]
      BY <2>3, <3>1 DEF NestingInv, FactoryTypeOK, Private
    <3> QED
      BY <3>1, <3>2, SharedStep DEF Scoped!Next
  <2> QED
    BY <2>2, <2>3
<1>3. ASSUME NEW type \in Types, NEW listed \in Specifications, Create(type, listed)
      PROVE  Scoped!Next
  BY <1>3, CreateStep DEF Scoped!Next
<1> QED
  BY <1>1, <1>2, <1>3 DEF FactoryNext

(* use() and use_middleware() keep what they promise, for any names,       *)
(* values and nesting of contexts: a name that tasks do not share means    *)
(* what its innermost context says, the old meaning is back when a context *)
(* is left, and create() makes what its names mean, whatever happens to    *)
(* the shared names meanwhile.                                             *)
THEOREM NamesAreScoped == FactorySpec => ImplementsScopedNames
<1>1. FactoryInit => Scoped!Init
  <2> SUFFICES ASSUME FactoryInit PROVE Scoped!Init
    OBVIOUS
  <2>1. Plain \in [Private -> Values \cup {Nothing}]
    BY DEF FactoryInit, Plain, Values, Private
  <2>2. Scopes = [n \in Private |-> <<>>]
    BY DEF FactoryInit, Scopes, Private
  <2>3. Asked = Nothing
    BY DEF FactoryInit, Asked
  <2> QED
    BY <2>1, <2>2, <2>3 DEF Scoped!Init, Plain, Scopes, Asked, Values
<1>2. NestingInv /\ [FactoryNext]_factoryVars => [Scoped!Next]_(Scoped!vars)
  BY StepIsScoped
<1> QED
  BY <1>1, <1>2, NestingInvariant, PTL DEF FactorySpec, ImplementsScopedNames, Scoped!Spec
=============================================================================

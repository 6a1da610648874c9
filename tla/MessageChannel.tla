--------------------------- MODULE MessageChannel ---------------------------
(***************************************************************************)
(* class MessageChannel of channels/message.py (and ParserChannel of       *)
(* channels/parser.py, which receives in the same way) on one end of a     *)
(* loopback pair: a ChannelConnection of connections/channel.py, which is  *)
(* a ConnectionBase that owns the two ends of two Trio memory channels.    *)
(*                                                                         *)
(* receive() reads data from the connection until the parser has found a   *)
(* message in it, and keeps the others for later calls.  Several tasks may *)
(* call it, and others open and close the connection meanwhile: read()     *)
(* does not look at the state of the connection.                           *)
(*                                                                         *)
(* A memory channel hands a datum to the task that has waited for the      *)
(* longest time.  From then on the task holds the datum and cannot be      *)
(* cancelled until it resumes.  Closing the receiving end drops what is    *)
(* in the buffer; what was received already stays.                         *)
(***************************************************************************)
EXTENDS ConnectionBase, Naturals, FiniteSets, Sequences, SequencesExt

CONSTANTS
    Users,        \* the tasks that open and close the loopback connection
    Receivers,    \* the tasks that call receive()
    BufferSize,   \* the length of the buffer of a memory channel
    MaxData,      \* the number of data with messages in them (the bound of the model)
    None

ASSUME ChannelAssumption ==
    /\ Users \subseteq Tasks
    /\ {BufferSize, MaxData} \subseteq Nat
    /\ None \notin [kind : {"data", "garbage"}, msgs : Seq(Nat \X Nat)]

VARIABLES
    loopback,   \* whether this is a loopback connection; otherwise it is any connection
    tx, rx,     \* whether _tx and _rx of the connection are open
    peer,       \* whether the sending end of the peer is open
    second,     \* the tasks of _close() that have come to _rx.aclose()
    buffer,     \* the data in the memory channel that the peer writes to
    blocked,    \* the datum that the peer waits to write, or None
    waiters,    \* the receivers that wait for data, in their order
    held,       \* the datum that a receiver was given and has not looked at
    pending,    \* _pending
    sent,       \* history: the number of messages in each datum that was written
    got, lost   \* history: the messages received, and those that the parser dropped

ends == <<tx, rx, peer, second>>
lane == <<buffer, blocked, waiters, held, sent>>
messages == <<pending, got, lost>>
channelVars == <<loopback, ends, lane, messages>>
allVars == <<vars, channelVars>>

(* What the peer writes: data in which the parser finds so many messages,  *)
(* or garbage: the parser raises, maybe after the first of two messages.   *)
Payloads == [kind : {"data"}, size : {0, 2}] \cup [kind : {"garbage"}, size : {2}]

(* A message is named by its datum and by its place in it. *)
Messages == UNION {{<<d, i>> : i \in 1..sent[d]} : d \in DOMAIN sent}

(* A datum on its way.  Only those with messages in them are counted. *)
Datum(p) == [kind |-> p.kind, msgs |-> [i \in 1..p.size |-> <<Len(sent) + 1, i>>]]
Count(p) == sent' = IF p.size = 0 THEN sent ELSE Append(sent, p.size)

(* A ChannelConnection that was just created, or any connection. *)
ChannelInit ==
    /\ Init
    /\ loopback \in BOOLEAN
    /\ tx = TRUE /\ rx = TRUE /\ peer = TRUE
    /\ second = {}
    /\ buffer = <<>>
    /\ blocked = None
    /\ waiters = <<>>
    /\ held = [r \in Receivers |-> None]
    /\ pending = <<>>
    /\ sent = <<>>
    /\ got = {} /\ lost = {}

(***************************************************************************)
(* open() and close() of the ChannelConnection                             *)
(***************************************************************************)

(* The calls that do not touch the channels; _open() is a checkpoint. *)
LifecycleStep(t) ==
    /\ \/ OpenJoins(t)
       \/ OpenQueues(t)
       \/ OpenStarts(t)
       \/ \E ok \in BOOLEAN : OpenEnds(t, ok)
       \/ CloseJoins(t)
       \/ CloseQueues(t)
       \/ WaitReturns(t)
       \/ Cancelled(t)
    /\ UNCHANGED channelVars

(* _close(): _tx is closed; after a checkpoint ... *)
ClosesTx(t) ==
    /\ CloseStarts(t)
    /\ tx' = FALSE
    /\ UNCHANGED <<loopback, rx, peer, second, lane, messages>>

(* ... _rx is closed under its receivers and under the peer ... *)
ClosesRx(t) ==
    /\ pc[t] = "closing"
    /\ t \notin second
    /\ second' = second \cup {t}
    /\ rx' = FALSE
    /\ buffer' = <<>>
    /\ blocked' = None
    /\ waiters' = <<>>
    /\ UNCHANGED <<vars, loopback, tx, peer, held, sent, messages>>

(* Mutant: the receiving end is left to the peer. *)
Closes_OnlyTx(t, ok) ==
    /\ CloseEnds(t, ok)
    /\ second' = second \ {t}
    /\ UNCHANGED <<loopback, tx, rx, peer, lane, messages>>

(* ... and after another checkpoint close() is done.  A task that is       *)
(* cancelled at one of the two leaves the rest open.                       *)
Closes(t, ok) ==
    /\ ok => t \in second
    /\ CloseEnds(t, ok)
    /\ second' = second \ {t}
    /\ UNCHANGED <<loopback, tx, rx, peer, lane, messages>>

UserStep(t) ==
    \/ LifecycleStep(t)
    \/ ClosesTx(t)
    \/ ClosesRx(t)
    \/ \E ok \in BOOLEAN : Closes(t, ok)

(***************************************************************************)
(* receive()                                                               *)
(***************************************************************************)

Idle(r) == held[r] = None /\ r \notin ToSet(waiters)

(* The data in the channel, with the one that its writer waits to add. *)
Available == buffer \o (IF blocked = None THEN <<>> ELSE <<Datum(blocked)>>)

(* _rx.receive(), called by r: there is a datum, or r waits for one, or    *)
(* the call raises because one of the two ends is closed.                  *)
Read(r) ==
    \/ /\ rx /\ Available # <<>>
       /\ held' = [held EXCEPT ![r] = Head(Available)]
       /\ buffer' = Tail(Available)
       /\ blocked' = None
       /\ IF blocked = None THEN UNCHANGED sent ELSE Count(blocked)
       /\ UNCHANGED waiters
    \/ /\ rx /\ Available = <<>> /\ peer
       /\ waiters' = Append(waiters, r)
       /\ held' = [held EXCEPT ![r] = None]
       /\ UNCHANGED <<buffer, blocked, sent>>
    \/ /\ ~rx \/ (Available = <<>> /\ ~peer)
       /\ held' = [held EXCEPT ![r] = None]
       /\ UNCHANGED <<buffer, blocked, waiters, sent>>

(* Mutant: the last message is returned first. *)
Returns_Last(msgs) ==
    /\ got' = got \cup {Last(msgs)}
    /\ pending' = Front(msgs)
    /\ UNCHANGED lost

(* receive() returns the first of the messages. *)
Returns(msgs) ==
    /\ got' = got \cup {Head(msgs)}
    /\ pending' = Tail(msgs)
    /\ UNCHANGED lost

(* Mutant: receive() reads before it looks at the pending messages. *)
Receive_ReadsFirst(r) ==
    /\ Idle(r)
    /\ Read(r)
    /\ UNCHANGED <<vars, loopback, ends, messages>>

Receive(r) ==
    /\ Idle(r)
    /\ \/ pending # <<>> /\ Returns(pending) /\ UNCHANGED lane
       \/ pending = <<>> /\ Read(r) /\ UNCHANGED messages
    /\ UNCHANGED <<vars, loopback, ends>>

(* Mutant: the new messages replace those that are pending. *)
Extended_Replaces(msgs) == msgs

Extended(msgs) == pending \o msgs

(* read() returns, and receive() goes on: a parser that raises may have    *)
(* found some messages before; if there is no message yet, the next datum  *)
(* is read.                                                                *)
Resumes(r) ==
    /\ held[r] # None
    /\ LET msgs == held[r].msgs
           Ends == held' = [held EXCEPT ![r] = None] /\ UNCHANGED <<buffer, blocked, waiters, sent>>
       IN  \/ /\ held[r].kind = "garbage"
              /\ Ends
              /\ \E k \in 0..(Len(msgs) - 1) :
                    /\ pending' = Extended(SubSeq(msgs, 1, k))
                    /\ lost' = lost \cup {msgs[i] : i \in (k + 1)..Len(msgs)}
              /\ UNCHANGED got
           \/ /\ held[r].kind = "data"
              /\ IF Extended(msgs) # <<>>
                 THEN Ends /\ Returns(Extended(msgs))
                 ELSE Read(r) /\ UNCHANGED messages
    /\ UNCHANGED <<vars, loopback, ends>>

ReceiveCancelled(r) ==
    /\ \E i \in DOMAIN waiters : waiters[i] = r /\ waiters' = RemoveAt(waiters, i)
    /\ UNCHANGED <<vars, loopback, ends, buffer, blocked, held, sent, messages>>

(***************************************************************************)
(* The peer: write() hands a datum to a receiver, leaves it in the buffer  *)
(* or waits until there is room.  It raises if the end of the receivers is *)
(* closed.                                                                 *)
(***************************************************************************)

PeerWrites(p) ==
    /\ peer /\ rx
    /\ blocked = None
    /\ p.size > 0 => Len(sent) < MaxData
    /\ \/ /\ waiters # <<>>
          /\ held' = [held EXCEPT ![Head(waiters)] = Datum(p)]
          /\ waiters' = Tail(waiters)
          /\ Count(p)
          /\ UNCHANGED <<buffer, blocked>>
       \/ /\ waiters = <<>> /\ Len(buffer) < BufferSize
          /\ buffer' = Append(buffer, Datum(p))
          /\ Count(p)
          /\ UNCHANGED <<blocked, waiters, held>>
       \/ /\ waiters = <<>> /\ Len(buffer) = BufferSize
          /\ blocked' = p
          /\ UNCHANGED <<buffer, waiters, held, sent>>
    /\ UNCHANGED <<vars, loopback, ends, messages>>

PeerGivesUp ==
    /\ blocked # None
    /\ blocked' = None
    /\ UNCHANGED <<vars, loopback, ends, buffer, waiters, held, sent, messages>>

(* The receivers that wait get EndOfChannel. *)
PeerCloses ==
    /\ peer
    /\ peer' = FALSE
    /\ blocked' = None
    /\ waiters' = <<>>
    /\ UNCHANGED <<vars, loopback, tx, rx, second, buffer, held, sent, messages>>

PeerStep ==
    \/ \E p \in Payloads : PeerWrites(p)
    \/ PeerGivesUp
    \/ PeerCloses

AnyStep == Next /\ UNCHANGED channelVars

ChannelNext ==
    \/ ~loopback /\ AnyStep
    \/ loopback /\ \E t \in Users : UserStep(t)
    \/ loopback /\ \E r \in Receivers : Receive(r) \/ Resumes(r) \/ ReceiveCancelled(r)
    \/ loopback /\ PeerStep

(* The steps that a task takes sooner or later: it runs when it is         *)
(* runnable, and _open() and _close() end.                                 *)
MustStep(t) ==
    /\ pc[t] \in {"opening", "closing"} \/ t \in woken
    /\ \/ /\ ~loopback
          /\ \/ WaitReturns(t)
             \/ Proceeds(t)
             \/ \E ok \in BOOLEAN : OpenEnds(t, ok) \/ CloseEnds(t, ok)
          /\ UNCHANGED channelVars
       \/ loopback /\ UserStep(t)

(* The receivers are loops that call receive() again and again. *)
ChannelSpec ==
    /\ ChannelInit
    /\ [][ChannelNext]_allVars
    /\ \A t \in Tasks : WF_allVars(MustStep(t))
    /\ \A r \in Receivers : WF_allVars(loopback /\ (Receive(r) \/ Resumes(r)))

-----------------------------------------------------------------------------
(* The places where a message is. *)
Copies(m) ==
    Cardinality({i \in DOMAIN pending : pending[i] = m})
    + Cardinality({r \in Receivers : held[r] # None /\ m \in ToSet(held[r].msgs)})
    + Cardinality({i \in DOMAIN buffer : m \in ToSet(buffer[i].msgs)})
    + Cardinality({S \in {got, lost} : m \in S})

(* However many tasks call receive(), are cancelled in it or come back     *)
(* with data at the same time, no message is delivered twice and none      *)
(* disappears, unless the connection was closed before it was read.        *)
EachMessageOnce ==
    \A m \in Messages :
        /\ Copies(m) <= 1
        /\ rx => Copies(m) = 1

(* The messages of one datum are delivered in their order, whichever tasks *)
(* get them (_pending is first in, first out).                             *)
PartsInOrder ==
    \A m \in got : m[2] > 1 => <<m[1], m[2] - 1>> \in got

(* A closed connection has no end left open behind which the peer fills a  *)
(* buffer that nobody reads: one whose _close() was cancelled half way     *)
(* counts as open, and close() can be called again.                        *)
HalfClosedIsOpen ==
    rx /\ ~tx => state \in {CONNECTED, DISCONNECTING}

(* Again and again everything that was written has been delivered, as long *)
(* as the receivers keep receiving: a message that is left in _pending is  *)
(* not stranded behind receivers that all wait for more data.              *)
WrittenIsReceived == []<>(rx => Messages \subseteq (got \cup lost))
=============================================================================

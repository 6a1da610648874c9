------------------------ MODULE ConnectionBaseProofs ------------------------
(***************************************************************************)
(* What is true of ConnectionBase for every set of tasks and every         *)
(* combination of failures.                                                *)
(***************************************************************************)
EXTENDS ConnectionBase, TLAPS

(***************************************************************************)
(* Type correctness                                                        *)
(***************************************************************************)

(* Every step of every method keeps the attributes and the places of the   *)
(* tasks within their ranges.                                              *)
LEMMA TypeStep == TypeOK /\ [Next]_vars => TypeOK'
<1> SUFFICES ASSUME TypeOK, [Next]_vars
             PROVE  TypeOK'
  OBVIOUS
<1> USE DEF TypeOK, Goto, StateUnchanged, Blocked, OnConnected, OnDisconnected,
            ConnectionState, DISCONNECTED, CONNECTING, CONNECTED, DISCONNECTING
<1>1. CASE UNCHANGED vars
  BY <1>1 DEF vars
<1>2. ASSUME NEW t \in Tasks, NEW new \in ConnectionState,
             SetState(t, new) \/ PassThroughTo(t, new)
      PROVE  /\ state' \in ConnectionState
             /\ isConnected' \in BOOLEAN
             /\ isDisconnected' \in BOOLEAN
             /\ woken' \subseteq Tasks
  BY <1>2 DEF SetState, PassThroughTo, Released
<1>3. ASSUME NEW t \in Tasks, OpenJoins(t) \/ OpenQueues(t) \/ CloseJoins(t)
               \/ CloseQueues(t) \/ WaitUntilConnected(t) \/ WaitUntilDisconnected(t)
      PROVE  TypeOK'
  BY <1>3 DEF OpenJoins, OpenQueues, CloseJoins, CloseQueues,
              WaitUntilConnected, WaitUntilDisconnected, Block
<1>4. ASSUME NEW t \in Tasks, OpenStarts(t)
      PROVE  TypeOK'
  BY <1>4, <1>2 DEF OpenStarts
<1>5. ASSUME NEW t \in Tasks, NEW ok \in BOOLEAN, OpenEnds(t, ok) \/ OpenAtOnce(t, ok)
      PROVE  TypeOK'
  BY <1>5, <1>2 DEF OpenEnds, OpenAtOnce
<1>6. ASSUME NEW t \in Tasks, CloseStarts(t)
      PROVE  TypeOK'
  BY <1>6, <1>2 DEF CloseStarts
<1>7. ASSUME NEW t \in Tasks, NEW ok \in BOOLEAN, CloseEnds(t, ok) \/ CloseAtOnce(t, ok)
      PROVE  TypeOK'
  BY <1>7, <1>2 DEF CloseEnds, CloseAtOnce
<1>8. ASSUME NEW t \in Tasks, WaitReturns(t) \/ Cancelled(t)
      PROVE  TypeOK'
  BY <1>8 DEF WaitReturns, Resume, Cancelled
<1> QED
  BY <1>1, <1>3, <1>4, <1>5, <1>6, <1>7, <1>8 DEF Next

(* The type invariant holds throughout every behaviour of the class. *)
THEOREM TypeCorrect == Spec => []TypeOK
<1>1. Init => TypeOK
  BY DEF Init, TypeOK, ConnectionState, DISCONNECTED
<1> QED
  BY <1>1, TypeStep, PTL DEF Spec

-----------------------------------------------------------------------------
(***************************************************************************)
(* Free callers: nothing is assumed of the tasks.                          *)
(***************************************************************************)

(* A transitional state always has an attempt behind it, for any number of *)
(* racing callers.  NoOrphanTransition is inductive as it stands: the only *)
(* steps into CONNECTING and DISCONNECTING put their task into the         *)
(* attempt, and a task leaves an attempt only by moving the state on.      *)
THEOREM NoOrphans == Spec => []NoOrphanTransition
<1>1. Init => NoOrphanTransition
  BY DEF Init, NoOrphanTransition, DISCONNECTED, CONNECTING, DISCONNECTING
<1>2. TypeOK /\ NoOrphanTransition /\ [Next]_vars => NoOrphanTransition'
  <2> SUFFICES ASSUME TypeOK, NoOrphanTransition, [Next]_vars
               PROVE  NoOrphanTransition'
    OBVIOUS
  <2> USE DEF NoOrphanTransition, TypeOK, Goto, StateUnchanged,
              DISCONNECTED, CONNECTING, CONNECTED, DISCONNECTING
  <2>1. CASE UNCHANGED vars
    BY <2>1 DEF vars
  <2>2. ASSUME NEW t \in Tasks, OpenJoins(t) \/ OpenQueues(t) \/ CloseJoins(t)
                 \/ CloseQueues(t) \/ WaitUntilConnected(t) \/ WaitUntilDisconnected(t)
        PROVE  NoOrphanTransition'
    BY <2>2 DEF OpenJoins, OpenQueues, CloseJoins, CloseQueues,
                WaitUntilConnected, WaitUntilDisconnected, Block
  <2>3. ASSUME NEW t \in Tasks, OpenStarts(t) \/ CloseStarts(t)
        PROVE  NoOrphanTransition'
    BY <2>3 DEF OpenStarts, CloseStarts, SetState
  <2>4. ASSUME NEW t \in Tasks, NEW ok \in BOOLEAN, OpenEnds(t, ok) \/ CloseEnds(t, ok)
        PROVE  NoOrphanTransition'
    BY <2>4 DEF OpenEnds, CloseEnds, SetState
  <2>5. ASSUME NEW t \in Tasks, NEW ok \in BOOLEAN, OpenAtOnce(t, ok) \/ CloseAtOnce(t, ok)
        PROVE  NoOrphanTransition'
    BY <2>5 DEF OpenAtOnce, CloseAtOnce, PassThroughTo
  <2>6. ASSUME NEW t \in Tasks, WaitReturns(t) \/ Cancelled(t)
        PROVE  NoOrphanTransition'
    BY <2>6 DEF WaitReturns, Resume, Cancelled, Blocked, OnConnected, OnDisconnected
  <2> QED
    BY <2>1, <2>2, <2>3, <2>4, <2>5, <2>6 DEF Next
<1> QED
  BY <1>1, <1>2, TypeCorrect, PTL DEF Spec

(* _set_state() keeps the two flags equal to what the state says.  This is *)
(* what makes NoLostWakeup inductive: a flag is raised exactly when its    *)
(* state is entered.                                                       *)
FlagsMirrorState ==
    /\ isConnected = (state = CONNECTED)
    /\ isDisconnected = (state = DISCONNECTED)

WakeupInv == FlagsMirrorState /\ NoLostWakeup

(* A task that stays blocked never misses a flag, for any number of racing *)
(* callers: the set of released tasks is complete.                         *)
THEOREM NoWakeupIsLost == Spec => []NoLostWakeup
<1>1. Init => WakeupInv
  BY DEF Init, WakeupInv, FlagsMirrorState, NoLostWakeup, OnConnected, OnDisconnected,
         DISCONNECTED, CONNECTED
<1>2. TypeOK /\ WakeupInv /\ [Next]_vars => WakeupInv'
  <2> SUFFICES ASSUME TypeOK, WakeupInv, [Next]_vars
               PROVE  WakeupInv'
    OBVIOUS
  <2> USE DEF WakeupInv, FlagsMirrorState, NoLostWakeup, TypeOK, Goto, StateUnchanged,
              OnConnected, OnDisconnected,
              DISCONNECTED, CONNECTING, CONNECTED, DISCONNECTING
  <2>1. CASE UNCHANGED vars
    BY <2>1 DEF vars
  <2>2. ASSUME NEW t \in Tasks, OpenJoins(t) \/ OpenQueues(t) \/ CloseJoins(t)
                 \/ CloseQueues(t) \/ WaitUntilConnected(t) \/ WaitUntilDisconnected(t)
        PROVE  WakeupInv'
    BY <2>2 DEF OpenJoins, OpenQueues, CloseJoins, CloseQueues,
                WaitUntilConnected, WaitUntilDisconnected, Block
  <2>3. ASSUME NEW t \in Tasks, OpenStarts(t) \/ CloseStarts(t)
        PROVE  WakeupInv'
    BY <2>3 DEF OpenStarts, CloseStarts, SetState, Released
  <2>4. ASSUME NEW t \in Tasks, NEW ok \in BOOLEAN, OpenEnds(t, ok) \/ CloseEnds(t, ok)
        PROVE  WakeupInv'
    BY <2>4 DEF OpenEnds, CloseEnds, SetState, Released
  <2>5. ASSUME NEW t \in Tasks, NEW ok \in BOOLEAN, OpenAtOnce(t, ok) \/ CloseAtOnce(t, ok)
        PROVE  WakeupInv'
    BY <2>5 DEF OpenAtOnce, CloseAtOnce, PassThroughTo, Released
  <2>6. ASSUME NEW t \in Tasks, WaitReturns(t) \/ Cancelled(t)
        PROVE  WakeupInv'
    BY <2>6 DEF WaitReturns, Resume, Cancelled, Blocked
  <2> QED
    BY <2>1, <2>2, <2>3, <2>4, <2>5, <2>6 DEF Next
<1>3. WakeupInv => NoLostWakeup
  BY DEF WakeupInv
<1> QED
  BY <1>1, <1>2, <1>3, TypeCorrect, PTL DEF Spec

-----------------------------------------------------------------------------
(***************************************************************************)
(* Disciplined callers: no open() is made past an open() that waits in the *)
(* queue, and no close() past such a close().                              *)
(***************************************************************************)

(* The state tells which attempt runs ... *)
AttemptsMatchState ==
    \A t \in Tasks :
        /\ pc[t] = "opening" => state = CONNECTING
        /\ pc[t] = "closing" => state = DISCONNECTING

(* ... at most one task is at each of the places that lead to an attempt ... *)
AtMostOneAt ==
    \A t, u \in Tasks, label \in {"openQueued", "opening", "closeQueued", "closing"} :
        pc[t] = label /\ pc[u] = label => t = u

(* ... and what a queued task was released for is still so when it resumes, *)
(* which is why it does not have to look at the state again.                *)
ReleaseStaysValid ==
    \A t \in woken :
        /\ pc[t] \in Blocked
        /\ pc[t] = "openQueued" => state = DISCONNECTED
        /\ pc[t] = "closeQueued" => state = CONNECTED

DisciplineInv == AttemptsMatchState /\ AtMostOneAt /\ ReleaseStaysValid

(* Each method keeps the invariant when its callers keep the discipline. *)
LEMMA DisciplineStep ==
    ASSUME Disciplined, TypeOK, DisciplineInv, [Next]_vars
    PROVE  DisciplineInv'
<1> USE DEF DisciplineInv, AttemptsMatchState, AtMostOneAt, ReleaseStaysValid, TypeOK,
            Goto, StateUnchanged, Blocked, OnConnected, OnDisconnected,
            DISCONNECTED, CONNECTING, CONNECTED, DISCONNECTING
<1>1. CASE UNCHANGED vars
  BY <1>1 DEF vars
<1>2. ASSUME NEW t \in Tasks, OpenJoins(t) \/ CloseJoins(t)
               \/ WaitUntilConnected(t) \/ WaitUntilDisconnected(t)
      PROVE  DisciplineInv'
  BY <1>2 DEF OpenJoins, CloseJoins, WaitUntilConnected, WaitUntilDisconnected, Block
<1>3. ASSUME NEW t \in Tasks, OpenQueues(t) \/ CloseQueues(t)
      PROVE  DisciplineInv'
  BY <1>3 DEF OpenQueues, CloseQueues, NoneQueued, Block
<1>4. ASSUME NEW t \in Tasks, EntersOpen(t)
      PROVE  /\ state = DISCONNECTED
             /\ \A u \in Tasks \ {t} : pc[u] # "openQueued"
  BY <1>4 DEF EntersOpen, NoneQueued
<1>5. ASSUME NEW t \in Tasks, EntersClose(t)
      PROVE  /\ state = CONNECTED
             /\ \A u \in Tasks \ {t} : pc[u] # "closeQueued"
  BY <1>5 DEF EntersClose, NoneQueued
<1>6. ASSUME NEW t \in Tasks, OpenStarts(t)
      PROVE  DisciplineInv'
  BY <1>6, <1>4 DEF OpenStarts, SetState, Released
<1>7. ASSUME NEW t \in Tasks, CloseStarts(t)
      PROVE  DisciplineInv'
  BY <1>7, <1>5 DEF CloseStarts, SetState, Released
<1>8. ASSUME NEW t \in Tasks, NEW ok \in BOOLEAN, OpenEnds(t, ok) \/ CloseEnds(t, ok)
      PROVE  DisciplineInv'
  BY <1>8 DEF OpenEnds, CloseEnds, SetState, Released
<1>9. ASSUME NEW t \in Tasks, NEW ok \in BOOLEAN, OpenAtOnce(t, ok)
      PROVE  DisciplineInv'
  BY <1>9, <1>4 DEF OpenAtOnce, PassThroughTo, Released
<1>10. ASSUME NEW t \in Tasks, NEW ok \in BOOLEAN, CloseAtOnce(t, ok)
       PROVE  DisciplineInv'
  BY <1>10, <1>5 DEF CloseAtOnce, PassThroughTo, Released
<1>11. ASSUME NEW t \in Tasks, WaitReturns(t) \/ Cancelled(t)
       PROVE  DisciplineInv'
  BY <1>11 DEF WaitReturns, Resume, Cancelled
<1> QED
  BY <1>1, <1>2, <1>3, <1>6, <1>7, <1>8, <1>9, <1>10, <1>11 DEF Next

(* The invariant holds throughout. *)
LEMMA DisciplineInvariant == ASSUME Disciplined PROVE Spec => [](TypeOK /\ DisciplineInv)
<1>1. Init => DisciplineInv
  BY DEF Init, DisciplineInv, AttemptsMatchState, AtMostOneAt, ReleaseStaysValid
<1>2. TypeOK /\ DisciplineInv /\ [Next]_vars => DisciplineInv'
  BY DisciplineStep
<1> QED
  BY <1>1, <1>2, TypeCorrect, PTL DEF Spec

(* Disciplined callers never get two tasks into _open() and _close() at    *)
(* the same time, however their attempts fail or are cancelled.            *)
THEOREM OneAttempt == ASSUME Disciplined PROVE Spec => []OneAttemptAtATime
<1>1. DisciplineInv => OneAttemptAtATime
  BY DEF DisciplineInv, AttemptsMatchState, AtMostOneAt, OneAttemptAtATime,
         CONNECTING, DISCONNECTING
<1> QED
  BY <1>1, DisciplineInvariant, PTL

(* For disciplined callers ConnectionBase implements ConnectionLifecycle:  *)
(* the initial states agree, and every step is one of the contract's steps *)
(* or changes neither the state nor the set of running attempts.           *)
THEOREM Refinement == ASSUME Disciplined PROVE Spec => ImplementsLifecycle
<1> DEFINE Attempts == {t \in Tasks : pc[t] \in {"opening", "closing"}}
<1>1. Init => Lifecycle!Init
  BY DEF Init, Lifecycle!Init, Lifecycle!DISCONNECTED, DISCONNECTED
<1>2. ASSUME TypeOK, DisciplineInv, [Next]_vars
      PROVE  [Lifecycle!Next]_(Lifecycle!vars)
  <2> USE DEF DisciplineInv, AttemptsMatchState, AtMostOneAt, ReleaseStaysValid, TypeOK,
              Goto, StateUnchanged, Blocked, OnConnected, OnDisconnected,
              DISCONNECTED, CONNECTING, CONNECTED, DISCONNECTING,
              Lifecycle!DISCONNECTED, Lifecycle!CONNECTING, Lifecycle!CONNECTED,
              Lifecycle!DISCONNECTING
  <2>1. CASE UNCHANGED vars
    BY <1>2, <2>1 DEF vars, Lifecycle!vars
  <2>2. ASSUME NEW t \in Tasks, OpenJoins(t) \/ OpenQueues(t) \/ CloseJoins(t)
                 \/ CloseQueues(t) \/ WaitUntilConnected(t) \/ WaitUntilDisconnected(t)
        PROVE  UNCHANGED Lifecycle!vars
    <3>1. Attempts' = Attempts
      BY <1>2, <2>2 DEF OpenJoins, OpenQueues, CloseJoins, CloseQueues,
                  WaitUntilConnected, WaitUntilDisconnected, Block
    <3> QED
      BY <2>2, <3>1 DEF OpenJoins, OpenQueues, CloseJoins, CloseQueues,
                  WaitUntilConnected, WaitUntilDisconnected, Block, Lifecycle!vars
  <2>3. ASSUME NEW t \in Tasks, OpenStarts(t)
        PROVE  Lifecycle!BeginOpen(t)
    <3>1. state = DISCONNECTED /\ state' = CONNECTING
      BY <1>2, <2>3 DEF OpenStarts, EntersOpen, SetState
    <3>2. Attempts = {} /\ Attempts' = {t}
      BY <1>2, <2>3, <3>1 DEF OpenStarts
    <3> QED
      BY <3>1, <3>2 DEF Lifecycle!BeginOpen
  <2>4. ASSUME NEW t \in Tasks, CloseStarts(t)
        PROVE  Lifecycle!BeginClose(t)
    <3>1. state = CONNECTED /\ state' = DISCONNECTING
      BY <1>2, <2>4 DEF CloseStarts, EntersClose, SetState
    <3>2. Attempts = {} /\ Attempts' = {t}
      BY <1>2, <2>4, <3>1 DEF CloseStarts
    <3> QED
      BY <3>1, <3>2 DEF Lifecycle!BeginClose
  <2>5. ASSUME NEW t \in Tasks, NEW ok \in BOOLEAN, OpenEnds(t, ok)
        PROVE  Lifecycle!EndOpen
    <3>1. state = CONNECTING /\ state' \in {CONNECTED, DISCONNECTED}
      BY <1>2, <2>5 DEF OpenEnds, SetState
    <3>2. Attempts' = {}
      BY <1>2, <2>5, <3>1 DEF OpenEnds
    <3> QED
      BY <3>1, <3>2 DEF Lifecycle!EndOpen
  <2>6. ASSUME NEW t \in Tasks, NEW ok \in BOOLEAN, CloseEnds(t, ok)
        PROVE  Lifecycle!EndClose
    <3>1. state = DISCONNECTING /\ state' \in {CONNECTED, DISCONNECTED}
      BY <1>2, <2>6 DEF CloseEnds, SetState
    <3>2. Attempts' = {}
      BY <1>2, <2>6, <3>1 DEF CloseEnds
    <3> QED
      BY <3>1, <3>2 DEF Lifecycle!EndClose
  <2>7. ASSUME NEW t \in Tasks, NEW ok \in BOOLEAN, OpenAtOnce(t, ok)
        PROVE  Lifecycle!OpenAtOnce \/ UNCHANGED Lifecycle!vars
    <3>1. state = DISCONNECTED /\ state' \in {CONNECTED, DISCONNECTED}
      BY <1>2, <2>7 DEF OpenAtOnce, EntersOpen, PassThroughTo
    <3>2. Attempts' = Attempts
      BY <1>2, <2>7, <3>1 DEF OpenAtOnce, EntersOpen
    <3> QED
      BY <3>1, <3>2 DEF Lifecycle!OpenAtOnce, Lifecycle!vars
  <2>8. ASSUME NEW t \in Tasks, NEW ok \in BOOLEAN, CloseAtOnce(t, ok)
        PROVE  Lifecycle!CloseAtOnce \/ UNCHANGED Lifecycle!vars
    <3>1. state = CONNECTED /\ state' \in {CONNECTED, DISCONNECTED}
      BY <1>2, <2>8 DEF CloseAtOnce, EntersClose, PassThroughTo
    <3>2. Attempts' = Attempts
      BY <1>2, <2>8, <3>1 DEF CloseAtOnce, EntersClose
    <3> QED
      BY <3>1, <3>2 DEF Lifecycle!CloseAtOnce, Lifecycle!vars
  <2>9. ASSUME NEW t \in Tasks, WaitReturns(t) \/ Cancelled(t)
        PROVE  UNCHANGED Lifecycle!vars
    <3>1. Attempts' = Attempts
      BY <1>2, <2>9 DEF WaitReturns, Resume, Cancelled
    <3> QED
      BY <2>9, <3>1 DEF WaitReturns, Resume, Cancelled, Lifecycle!vars
  <2> QED
    BY <1>2, <2>1, <2>2, <2>3, <2>4, <2>5, <2>6, <2>7, <2>8, <2>9 DEF Next, Lifecycle!Next
<1> QED
  BY <1>1, <1>2, DisciplineInvariant, PTL DEF Spec, ImplementsLifecycle, Lifecycle!Spec
=============================================================================

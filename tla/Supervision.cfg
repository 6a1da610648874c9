\* Two connections: c1 is a listener, whose _close() has no checkpoint; c2 has one
\* that awaits something, and an owner who opens it or calls supervise() as well.
\* One command and one task in flight are enough for every phase of a loop to meet
\* every command, and for an "add" to find the entry of an earlier one.
\* The system may stop: nothing has to happen once run() has ended.
CONSTANTS
    Conns = {c1, c2}
    Checkpointing = {c2}
    Owned = {c2}
    Policy <- AnyPolicy
    Listeners = {c1}
    MaxInFlight = 1
    MaxClients = 1
SPECIFICATION FairSupervisorSpec
INVARIANTS
    OneAttemptAtATime
PROPERTIES
    SocketRemovedIsClosed
    LostIsReopened
    RemovalEnds
    RunEnds
CHECK_DEADLOCK FALSE

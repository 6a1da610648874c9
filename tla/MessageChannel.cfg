\* Any connection with three tasks that may call anything at any time, or a loopback
\* connection with two such tasks, two receivers and four messages in two data.
CONSTANTS
    Tasks = {t1, t2, t3}
    Disciplined = FALSE
    Failures = {"open", "close", "cancel"}
    Users = {t1, t2}
    Receivers = {r1, r2}
    BufferSize = 1
    MaxData = 2
    None = None
SPECIFICATION ChannelSpec
INVARIANTS
    NoOrphanTransition
    NoLostWakeup
    EachMessageOnce
    PartsInOrder
    HalfClosedIsOpen
PROPERTIES
    RaisedFlagReleases
    WrittenIsReceived

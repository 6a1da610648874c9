\* Disciplined callers; everything may fail.  While a task opens the connection,
\* the other three hold at most three sockets: four are enough.
CONSTANTS
    Tasks = {t1, t2, t3, t4}
    Disciplined = TRUE
    Failures = {"open", "close", "cancel"}
    Sockets = {s1, s2, s3, s4}
    Ports = {q1, q2}
    None = None
SPECIFICATION UDPSpec
SYMMETRY Symmetry
INVARIANTS
    NoSocketLeak
    ConnectedHasSocket
    AddressNeedsSocket
PROPERTY ImplementsLifecycle

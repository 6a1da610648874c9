\* Disciplined callers of streams of all kinds; everything may fail.  While a task
\* opens the connection, the other two hold two streams at most: three are enough.
CONSTANTS
    Tasks = {t1, t2, t3}
    Disciplined = TRUE
    Failures = {"open", "close", "cancel"}
    Streams = {s1, s2, s3}
    Paths = {p1, p2}
    None = None
SPECIFICATION SerialSpec
INVARIANTS
    NoStreamLeak
    ConnectedHasPort
    AddressIsCurrent
PROPERTY CallsReturn

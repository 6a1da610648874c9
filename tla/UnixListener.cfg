\* Disciplined callers of the listener and a server in another process.
CONSTANTS
    Callers = {t1, t2}
    Runs = {r1, r2}
    Other = Other
    Disciplined = TRUE
    Failures = {"open", "cancel", "nursery", "deadline"}
    None = None
SPECIFICATION UnixSpec
INVARIANTS
    ClosedMeansStopped
    OpenMeansRunning
    LatestIsReachable
    NoStaleFile
PROPERTY StoppedRunCloses
\* A listener whose nursery was cancelled cannot be closed, and nobody can
\* call anything any more: the program has come to its end.
CHECK_DEADLOCK FALSE

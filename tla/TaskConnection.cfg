CONSTANTS
    \* Two runs: the current one and one that a cancelled close() left behind.
    Callers = {t1, t2}
    Runs = {r1, r2}
    Disciplined = TRUE
    Failures = {"open", "close", "cancel", "run"}
    None = None
SPECIFICATION FairSpec
INVARIANTS
    ClosedMeansStopped
    OpenMeansRunning
PROPERTY StoppedRunCloses

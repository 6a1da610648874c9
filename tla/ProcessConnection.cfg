\* Three processes: the current one and two that cancelled close() calls left.
CONSTANTS
    Tasks = {t1, t2, t3}
    Disciplined = TRUE
    Failures = {"open", "close", "cancel"}
    Processes = {p1, p2, p3}
    None = None
SPECIFICATION FairSpec
INVARIANTS
    NoProcessLeak
    ExitCodeIsCurrent
PROPERTY CloseEndsInTime

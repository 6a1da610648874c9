CONSTANTS
    Callers = {t1}
    Runs = {r1, r2, r3}
    Disciplined = FALSE
    Failures = {"open"}
    None = None
SPECIFICATION Spec
PROPERTY OpenWhileRunning

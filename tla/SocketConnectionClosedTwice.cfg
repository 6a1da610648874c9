CONSTANTS
    Tasks = {t1, t2, t3}
    Disciplined = FALSE
    Failures = {"open", "close", "cancel"}
    Sockets = {s1, s2, s3, s4, s5}
    None = None
SPECIFICATION Spec
SYMMETRY Symmetry
PROPERTY CloseIsNoOpWhenClosed

\* One connection whose _close() awaits something.
CONSTANTS
    Conns = {c1}
    Checkpointing = {c1}
    Owned = {c1}
    Policy = {"delay"}
    Listeners = {}
    MaxInFlight = 2
    MaxClients = 1
SPECIFICATION SupervisorSpec
PROPERTY RemovedIsClosed

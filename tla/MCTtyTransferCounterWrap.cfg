\* The worker's exit resets the counter under a submit() that is taking its count back.
SPECIFICATION Spec
CONSTANTS
    t1 = t1  t2 = t2  f1 = f1  f2 = f2  p1 = p1  p2 = p2
    TransferIds = {t1}
    FileIds = {f1, f2}
    Paths = {p1, p2}
    NoFile = NoFile  NoPath = NoPath  NoSize = NoSize
    MaxActiveSessions = 1
    MaxReceivePaths = 2
    Commands <- ConsentCommandsOfT1
    Clients = {c1}
    Capacity = 1
    CounterSize = 8
    RequestBound = 1
    Surroundings = {"destroy", "relaunch"}
PROPERTY
    CounterNeverWraps

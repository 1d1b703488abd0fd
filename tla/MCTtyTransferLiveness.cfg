\* Shutdown, destroy and relaunch racing one transfer of two paths, and what must
\* happen in the end.
SPECIFICATION FairSpec
CONSTANTS
    t1 = t1  t2 = t2  f1 = f1  f2 = f2  p1 = p1  p2 = p2
    TransferIds = {t1}
    FileIds = {f1, f2}
    Paths = {p1, p2}
    NoFile = NoFile  NoPath = NoPath  NoSize = NoSize
    MaxActiveSessions = 1
    MaxReceivePaths = 2
    Commands <- LivenessCommands
    Clients = {c1}
    Capacity = 1
    CounterSize = 8
    RequestBound = 1
    Surroundings = {"destroy", "relaunch"}
INVARIANTS
    QueuedIsExact GateStopsAdmission ListingWasShown
PROPERTIES
    KeepsOutline RespondReturns ShutdownReturns SubmitReturns PromptResolves

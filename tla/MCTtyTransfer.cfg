\* Consent and staging: two transfers, two clients, every protocol path.
SPECIFICATION Spec
CONSTANTS
    t1 = t1  t2 = t2  f1 = f1  f2 = f2  p1 = p1  p2 = p2
    TransferIds = {t1, t2}
    FileIds = {f1, f2}
    Paths = {p1, p2}
    NoFile = NoFile  NoPath = NoPath  NoSize = NoSize
    MaxActiveSessions = 2
    MaxReceivePaths = 2
    Commands <- ConsentCommands
    Clients = {c1, c2}
    Capacity = 1
    CounterSize = 8
    RequestBound = 2
    Surroundings = {}
SYMMETRY ClientSymmetry
INVARIANTS
    ConsentBeforeEffect BookkeepingAgrees StagingBelongsToSession
    StagingGoneBeforeEnd ConsentInv WorkIsVisible ShutdownDrains
PROPERTIES
    DecidedOnce KeepsConsent

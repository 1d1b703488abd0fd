\* Create, destroy, clean-up, relaunch, EOF and SSH connection around two sessions.
SPECIFICATION Spec
CONSTANTS
    LocalSessions = {l1}
    SshSessions = {s1}
    HasHome = TRUE
    Capacity = 1
    CounterSize = 4
    Talkers = {s1}
INVARIANTS
    LocalsResume NoCommandLeftBehind HeldMeansSettled LifecycleInv
PROPERTY
    RemovedStaysShut

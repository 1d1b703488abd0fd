\* A controller that is being started misses the end of a relaunch.
SPECIFICATION Spec
CONSTANTS
    LocalSessions = {l1}
    SshSessions = {s1}
    HasHome = TRUE
    Capacity = 1
    CounterSize = 4
    Talkers = {}
INVARIANT
    ErrorResumesAll

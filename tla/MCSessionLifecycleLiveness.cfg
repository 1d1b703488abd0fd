\* What becomes of a destroyed and of a dead session, to the end.
SPECIFICATION FairSpec
CONSTANTS
    LocalSessions = {}
    SshSessions = {s1}
    HasHome = TRUE
    Capacity = 1
    CounterSize = 4
    Talkers = {s1}
PROPERTIES
    DrainingEnds DeadReaped

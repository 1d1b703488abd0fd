\* The connecting mark is cleared before the PTY is attached.
SPECIFICATION Spec
CONSTANTS
    LocalSessions = {l1}
    SshSessions = {s1}
    HasHome = TRUE
    Capacity = 1
    CounterSize = 4
    Talkers = {}
PROPERTY
    ConnectingNotReaped

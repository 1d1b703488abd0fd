\* A session is created between the count and the stop.
SPECIFICATION Spec
CONSTANTS
    Daemons = {d1}
    Clients = {c1, c2}
    Sessions = {s1}
    SshSessions = {}
    NoDaemon = NoDaemon
    Stale = Stale
    Retries = 1
PROPERTIES
    StopSparesSessions
CHECK_DEADLOCK FALSE

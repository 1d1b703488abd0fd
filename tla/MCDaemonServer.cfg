\* Two clients find, start, use, relaunch and stop two daemons on one path.
SPECIFICATION FairSpec
CONSTANTS
    Daemons = {d1, d2}
    Clients = {c1, c2}
    Sessions = {s1}
    SshSessions = {}
    NoDaemon = NoDaemon
    Stale = Stale
    Retries = 1
INVARIANTS
    DaemonTypeOK PathNamesTheDaemon
PROPERTIES
    LiveSocketKept RelaunchKeepsSessions ReapedIdleStops
CHECK_DEADLOCK FALSE

\* A session between its child, the viewers of its screen and those it asks.
SPECIFICATION FairSpec
CONSTANTS
    OutCap = 2
    QueueCap = 2
    CommandCap = 1
    Packets = 3
    Rows = {r1, r2}
    Cells = {x1, x2}
    Viewers = {v1}
    EventCap = 2
    Prompts = {p1, p2, p3}
    Watchers = {w1, w2}
    PromptCap = 1
INVARIANTS
    StreamHasNoGap ReplicaMatches ApprovalSeen
PROPERTIES
    StreamedResponseReturns SyncReleased
CHECK_DEADLOCK FALSE

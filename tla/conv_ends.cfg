SPECIFICATION FairSpec
CONSTANTS
    Requests = {r1, r2}
    Conversations = {c1, c2}
    Workers = {w1}
    MaxCachedSessions = 1
    MaxInFlight = 2
    Ops = {"ask", "stream", "welcome", "stream_welcome", "delete"}
    None = None
PROPERTY EveryRequestEnds
\* Every request is sent once: the system stops when all have ended.
CHECK_DEADLOCK FALSE

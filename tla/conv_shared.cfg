SPECIFICATION Spec
CONSTANTS
    Requests = {r1, r2, r3}
    Conversations = {c1}
    Workers = {w1}
    MaxCachedSessions = 1
    MaxInFlight = 3
    Ops = {"ask", "welcome", "delete"}
    None = None
INVARIANT TypeOK
INVARIANT OneSharedHistory
INVARIANT NoAnswerForgotten
INVARIANT AnswerAfterQuestion
SYMMETRY RequestSymmetry
\* Every request is sent once: the system stops when all have ended.
CHECK_DEADLOCK FALSE

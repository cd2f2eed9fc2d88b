SPECIFICATION Spec
CONSTANTS
    Requests = {r1, r2}
    Conversations = {c1}
    Workers = {w1}
    MaxCachedSessions = 1
    MaxInFlight = 1
    Ops = {"ask", "welcome"}
    None = None
INVARIANT WelcomeForgets
SYMMETRY RequestSymmetry
\* Every request is sent once: the system stops when all have ended.
CHECK_DEADLOCK FALSE

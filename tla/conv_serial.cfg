SPECIFICATION Spec
CONSTANTS
    Requests = {r1, r2, r3}
    Conversations = {c1, c2}
    Workers = {w1}
    MaxCachedSessions = 1
    MaxInFlight = 1
    Ops = {"ask", "stream", "welcome", "stream_welcome", "delete"}
    None = None
INVARIANT CacheBounded
INVARIANT AnsweredTurnsAreGiven
INVARIANT OneSessionPerConversation
INVARIANT AnswerFollowsQuestion
PROPERTY ConversationsAreDialogues
SYMMETRY RequestSymmetry
\* Every request is sent once: the system stops when all have ended.
CHECK_DEADLOCK FALSE

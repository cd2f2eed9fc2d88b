SPECIFICATION Spec
CONSTANTS
    c1 = c1
    c2 = c2
    t1 = t1
    Chapters = {c1, c2}
    Texts = {e, t1, t2}
    Empty = e
    Requests = {r1, r2}
    Library <- MCLibrary
    Ops = {"update"}
    Overlap = TRUE
    Failures = FALSE
    Root = Root
    None = None
    Unborn = Unborn
    Gone = Gone
INVARIANT SyncedIsTrue

\* Every request is sent once: the system stops when all have ended.
CHECK_DEADLOCK FALSE

SPECIFICATION Spec
CONSTANTS
    c1 = c1
    c2 = c2
    t1 = t1
    Chapters = {c1, c3}
    Texts = {e, t1}
    Empty = e
    Requests = {r1, r2, r3}
    Library <- MCLibrary
    Ops = {"create", "update", "delete", "import", "template", "reindex", "delete_all"}
    Overlap = FALSE
    Failures = TRUE
    Root = Root
    None = None
    Unborn = Unborn
    Gone = Gone
INVARIANT TypeOK
INVARIANT PdfStored
INVARIANT SyncedUnlessRebuilding
INVARIANT NothingLeftBehind
PROPERTY ReindexRepairs
SYMMETRY KnowledgeSymmetry
\* Every request is sent once: the system stops when all have ended.
CHECK_DEADLOCK FALSE

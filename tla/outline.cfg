SPECIFICATION Spec
CONSTANTS
    c1 = c1
    c2 = c2
    c3 = c3
    Chapters = {c1, c2, c3, c4, c5}
    Requests = {r1, r2, r3}
    Library <- MCLibrary
    Given = {1, 3}
    Ops = {"create", "insert", "put", "delete", "delete_all"}
    Root = Root
    None = None
    Unborn = Unborn
    Gone = Gone
INVARIANT TypeOK
INVARIANT NumbersClashOnlyByRace
INVARIANT OrphansOnlyByRace
PROPERTY OrderIsKept
PROPERTY DeleteNumbersTheLevel
SYMMETRY OutlineSymmetry
\* Every request ends.
CHECK_DEADLOCK FALSE

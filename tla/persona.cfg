SPECIFICATION Spec
CONSTANTS
    Requests = {r1, r2}
    Fields = {goal, description}
    Clearable = {description}
    Values = {e, v}
    Empty = e
    Looks = {0, 1}
    Ops = {"create", "put", "patch", "drop", "delete", "clear", "add_avatar", "patch_avatar", "put_avatar", "drop_avatar"}
    None = None
INVARIANT TypeOK
INVARIANT NothingOutlivesItsBot
INVARIANT WholeOnceDone
PROPERTY AlonePromptIsRight
PROPERTY OnlyNamedFieldsChange
SYMMETRY PersonaSymmetry
\* Every request is sent once: the system stops when all have ended.
CHECK_DEADLOCK FALSE

SPECIFICATION Spec
CONSTANTS
    admin = admin
    parent = parent
    guest = guest
    shared = shared
    m1 = m1
    m2 = m2
    m3 = m3
    m4 = m4
    Users = {admin, parent, guest}
    Bots = {shared}
    Requests = {r1, r2}
    Mails = {m1, m2, m3, m4}
    SuperAdmin = m4
    Start <- MCStart
    Ops = {"register", "google", "startup", "guest", "update", "role", "patch", "select", "delete", "reassign", "assign", "enable", "disable", "unassign", "remove", "create_bot", "give_bot", "delete_bot"}
    MaxRepeat = 2
    None = None
INVARIANT TypeOK
INVARIANT MailsClashOnlyByRace
INVARIANT NoChildIsOverlooked
INVARIANT DeletedBotsAreUnselected
INVARIANT PairsAreAssignedOnce
INVARIANT GuestsGetTheirParentsBots
PROPERTY AdminsAreTheirOwn
SYMMETRY AccountsSymmetry
\* Every request ends.
CHECK_DEADLOCK FALSE

SPECIFICATION MCSpec
CONSTANTS
    Users = {admin, u1, u2}
    Admins = {admin}
    Requests = {r1, r2}
    Limit = 2
    MaxCost = 1
    MaxFree = 1
    MaxFaults = 1
    None = None
    u1 = u1
    u2 = u2
INVARIANT TypeOK
INVARIANT OvershootBounded
PROPERTY BilledWhereChecked
PROPERTY QuotaRecovers
\* Every account may be deleted.
CHECK_DEADLOCK FALSE

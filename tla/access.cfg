SPECIFICATION Spec
CONSTANTS
    Users = {u1}
    Links = {l1}
    Requests = {r1, r2}
    Tokens = {t1, t2}
    Passwords = {p1, p2}
    DemoUser = u1
    TokenLife = 1
    MaxTime = 2
    Ops = {"redeem", "login", "demo", "change", "use", "logout"}
    None = None
    Deleted = Deleted
INVARIANT TypeOK
PROPERTY LinksAreOneTime
PROPERTY LogoutIsFinal
SYMMETRY AccessSymmetry
\* The clock stops and every account may be deleted.
CHECK_DEADLOCK FALSE

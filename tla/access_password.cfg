SPECIFICATION Spec
CONSTANTS
    Users = {u1}
    Links = {l1}
    Requests = {r1, r2}
    Tokens = {t1}
    Passwords = {p1, p2}
    DemoUser = u1
    TokenLife = 1
    MaxTime = 2
    Ops = {"login", "change"}
    None = None
    Deleted = Deleted
INVARIANT PasswordKept
\* The clock stops and every account may be deleted.
CHECK_DEADLOCK FALSE

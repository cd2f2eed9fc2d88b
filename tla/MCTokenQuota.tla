---------------------------- MODULE MCTokenQuota ----------------------------
(* The instance of module TokenQuota that TLC checks: an Admin, a user and a   *)
(* guest of one of them.  Reassign and Delete make the other families.         *)
EXTENDS TokenQuota, TLC
CONSTANTS u1, u2

MCInit ==
    /\ Init
    /\ present = Users
    /\ parent[u1] = None
    /\ \A a \in Admins : parent[a] = None
    /\ parent[u2] # u2

MCSpec == MCInit /\ [][Next]_vars /\ Fairness
=============================================================================

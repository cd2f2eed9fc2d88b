------------------------------ MODULE MCAccess ------------------------------
(* Constants for the runs of module Access. *)
EXTENDS Access, TLC

\* Nothing tells requests, jtis, links or passwords apart.
AccessSymmetry ==
    Permutations(Requests) \cup Permutations(Tokens)
    \cup Permutations(Links) \cup Permutations(Passwords)

=============================================================================

----------------------------- MODULE MCAccounts -----------------------------
(* The instance of module Accounts that TLC checks. *)
EXTENDS Accounts, TLC

CONSTANTS admin, parent, guest, shared, m1, m2, m3, m4

\* An Admin, a User and its guest, to whom the User has given its bot; both
\* have selected it.
MCStart ==
    {[user |-> [p \in People |->
          CASE p = admin -> [mail |-> m1, role |-> "Admin", parent |-> None, selected |-> None]
            [] p = parent -> [mail |-> m2, role |-> "User", parent |-> None, selected |-> shared]
            [] p = guest -> [mail |-> m3, role |-> "Guest", parent |-> parent,
                             selected |-> shared]
            [] OTHER -> None],
      bot |-> [b \in AllBots |-> IF b = shared THEN parent ELSE None],
      assigned |-> {[bot |-> shared, user |-> guest, by |-> parent, active |-> TRUE,
                     made |-> None, copy |-> 1, vouched |-> None]}]}

AccountsSymmetry == Permutations(Requests)
=============================================================================

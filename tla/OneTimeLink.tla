---------------------------- MODULE OneTimeLink ----------------------------
(***************************************************************************)
(* What MagicLinkService promises of its links: each is redeemed at most   *)
(* once, a redemption logs its account in at most once, a link that has    *)
(* been redeemed or whose account is gone never becomes usable again.      *)
(***************************************************************************)
EXTENDS Naturals

CONSTANT Links

VARIABLES
    status,     \* status[l]: where l is in its life
    logins      \* logins[l]: how many logins l has given

Init ==
    /\ status = [l \in Links |-> "none"]
    /\ logins = [l \in Links |-> 0]

Create(l) ==
    /\ status[l] = "none"
    /\ status' = [status EXCEPT ![l] = "unused"]
    /\ UNCHANGED logins

Redeem(l) ==
    /\ status[l] = "unused"
    /\ status' = [status EXCEPT ![l] = "redeemed"]
    /\ UNCHANGED logins

Grant(l) ==
    /\ status[l] = "redeemed"
    /\ logins[l] = 0
    /\ logins' = [logins EXCEPT ![l] = 1]
    /\ UNCHANGED status

(* The account of the links in gone is deleted. *)
Void(gone) ==
    /\ \A l \in gone : status[l] \in {"unused", "redeemed"}
    /\ status' = [l \in Links |-> IF l \in gone THEN "void" ELSE status[l]]
    /\ UNCHANGED logins

Next ==
    \/ \E l \in Links : Create(l) \/ Redeem(l) \/ Grant(l)
    \/ \E gone \in SUBSET Links : Void(gone)

Spec == Init /\ [][Next]_<<status, logins>>
=============================================================================

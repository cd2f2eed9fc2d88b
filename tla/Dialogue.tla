------------------------------ MODULE Dialogue ------------------------------
(***************************************************************************)
(* What the server promises of the conversations it stores when each has   *)
(* one request at a time: a conversation is a sequence of turns to which a *)
(* request appends its question, then at once its answer, and which is     *)
(* emptied as a whole.                                                     *)
(***************************************************************************)
EXTENDS Naturals, Sequences

CONSTANTS Requests, Conversations

VARIABLE talk    \* talk[c]: the turns of c, in the order they are read

Says(r, role) == [req |-> r, role |-> role]

Init == talk = [c \in Conversations |-> <<>>]

\* No conversation has a turn of r yet.
Silent(r) ==
    \A c \in Conversations : \A n \in 1..Len(talk[c]) : talk[c][n].req # r

Ask(r, c) ==
    /\ Silent(r)
    /\ talk' = [talk EXCEPT ![c] = Append(@, Says(r, "user"))]

Answer(r, c) ==
    /\ Len(talk[c]) > 0
    /\ talk[c][Len(talk[c])] = Says(r, "user")
    /\ talk' = [talk EXCEPT ![c] = Append(@, Says(r, "assistant"))]

Wipe(c) == talk' = [talk EXCEPT ![c] = <<>>]

Next ==
    \E c \in Conversations :
        \/ Wipe(c)
        \/ \E r \in Requests : Ask(r, c) \/ Answer(r, c)

Spec == Init /\ [][Next]_talk
=============================================================================

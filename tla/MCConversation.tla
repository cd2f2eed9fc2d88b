--------------------------- MODULE MCConversation ---------------------------
(* Constants for the runs of module Conversation. *)
EXTENDS Conversation, TLC

\* Requests are interchangeable: they are chosen from one set in Next and
\* nothing orders them.
RequestSymmetry == Permutations(Requests)

=============================================================================

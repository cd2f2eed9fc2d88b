----------------------------- MODULE MCOutline -----------------------------
(* Constants for the run of module Outline. *)
EXTENDS Outline, TLC

CONSTANTS c1, c2, c3

\* Three root chapters; what else there is of Chapters is yet to be created.
MCLibrary ==
    [c \in Chapters |->
        CASE c = c1 -> [dad |-> Root, indice |-> 1]
          [] c = c2 -> [dad |-> Root, indice |-> 2]
          [] c = c3 -> [dad |-> c1, indice |-> 1]
          [] OTHER -> Unborn]

OutlineSymmetry ==
    Permutations(Requests) \cup Permutations(Chapters \ {c1, c2, c3})

=============================================================================

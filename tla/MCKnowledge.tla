---------------------------- MODULE MCKnowledge ----------------------------
(* Constants for the runs of module Knowledge. *)
EXTENDS Knowledge, TLC

CONSTANTS c1, c2, t1

\* A root chapter with a PDF and its child; what else there is of Chapters
\* has yet to be created.
MCLibrary ==
    [c \in Chapters |->
        CASE c = c1 -> [dad |-> Root, text |-> t1, pdf |-> c1, synced |-> TRUE]
          [] c = c2 -> [dad |-> c1, text |-> t1, pdf |-> None, synced |-> TRUE]
          [] OTHER -> Unborn]

\* Requests are interchangeable, and so are the chapters not yet created.
KnowledgeSymmetry ==
    Permutations(Requests) \cup Permutations(Chapters \ {c1, c2})

=============================================================================

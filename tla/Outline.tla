------------------------------ MODULE Outline ------------------------------
(***************************************************************************)
(* The order of a bot's chapters: the number (indice) each has among those *)
(* under one parent, by which clients sort them and by which a client that *)
(* moves a chapter up or down finds the one to swap it with (KnowledgeSvc, *)
(* knowledges.component.ts).  Nothing in the table keeps numbers apart.    *)
(*                                                                         *)
(* A request decides on the snapshot its first SELECT takes and writes at  *)
(* its commit: an UPDATE sets the columns whose value differs from the one *)
(* read, and fails the request when the row is gone.  What follows the     *)
(* commit, files and vectors, is in module Knowledge.                      *)
(***************************************************************************)
EXTENDS Integers, FiniteSets

CONSTANTS
    Chapters,       \* ids of the table, never used twice
    Requests,       \* the requests that may be sent, each once
    Library,        \* the rows at the beginning
    Given,          \* the numbers clients send
    Ops,            \* the operations requests may ask for, in AllOps
    Root, None, Unborn, Gone

AllOps == {"create", "insert", "put", "delete", "delete_all"}

Row == [dad : Chapters \cup {Root}, indice : Int]

Stored(table) == {c \in Chapters : table[c] \notin {Unborn, Gone}}

Born(table) == {c \in Chapters : table[c] # Unborn}

(* list_children *)
Level(table, dad) == {c \in Stored(table) : table[c].dad = dad}

ASSUME OutlineAssumption ==
    /\ IsFiniteSet(Chapters)
    /\ Ops \subseteq AllOps
    /\ Given \subseteq Int
    /\ None \notin Requests /\ Root \notin Chapters
    /\ Unborn \notin Row /\ Gone \notin Row /\ Unborn # Gone
    /\ Library \in [Chapters -> Row \cup {Unborn}]
    /\ \A c, d \in Stored(Library) :
          c # d /\ Library[c].dad = Library[d].dad => Library[c].indice # Library[d].indice

VARIABLES
    rows,       \* the committed rows of the bot, Unborn or Gone
    op,         \* op[r]: what r asks for, or None
    chapter,    \* chapter[r]: the chapter r is about, or the parent of a new one
    view,       \* view[r]: the rows as r has read them
    pc,         \* pc[r]: where r is
    wrote,      \* history: wrote[c].f, the request that last wrote column f of c
    gone,       \* history: gone[c], the request that deleted c, or None
    before      \* history: before[r], those that had committed when r began

vars == <<rows, op, chapter, view, pc, wrote, gone, before>>

Writers == Requests \cup {None}
NoRows == [c \in Chapters |-> Unborn]

TypeOK ==
    /\ rows \in [Chapters -> Row \cup {Unborn, Gone}]
    /\ op \in [Requests -> Ops \cup {None}]
    /\ chapter \in [Requests -> Chapters \cup {Root, None}]
    /\ view \in [Requests -> [Chapters -> Row \cup {Unborn, Gone}]]
    /\ pc \in [Requests -> {"new", "working", "done", "failed"}]
    /\ wrote \in [Chapters -> [dad : Writers, indice : Writers]]
    /\ gone \in [Chapters -> Writers]
    /\ before \in [Requests -> SUBSET Requests]

By(w) == [dad |-> w, indice |-> w]

Init ==
    /\ rows = Library
    /\ op = [r \in Requests |-> None]
    /\ chapter = [r \in Requests |-> None]
    /\ view = [r \in Requests |-> NoRows]
    /\ pc = [r \in Requests |-> "new"]
    /\ wrote = [c \in Chapters |-> By(None)]
    /\ gone = [c \in Chapters |-> None]
    /\ before = [r \in Requests |-> {}]

-----------------------------------------------------------------------------
(* What requests compute from the rows they have read *)

\* Mutant of FirstFree: the siblings are counted.
FirstFreeByCount(table, dad) == {Cardinality(Level(table, dad)) + 1}

(* _compute_indice: 1, or one more than the last number, the only element.  *)
FirstFree(table, dad) ==
    {n \in {1} \cup {table[c].indice + 1 : c \in Level(table, dad)} :
        n >= 1 /\ \A c \in Level(table, dad) : table[c].indice < n}

\* Mutant of Subtree: c and its children.
SubtreeShallow(table, c) == {c} \cup Level(table, c)

(* _delete_subtree: c and those under it, the smallest set with c and the   *)
(* children of its members.                                                 *)
Subtree(table, c) ==
    {d \in Chapters : \A S \in SUBSET Chapters :
        (c \in S /\ \A e \in Stored(table) : table[e].dad \in S => e \in S)
        => d \in S}

\* Mutant of Numberings: in whatever order the siblings are read.
NumberingsUnsorted(table, S) ==
    {f \in [S -> 1 .. Cardinality(S)] : \A c, d \in S : c # d => f[c] # f[d]}

\* Mutant of Numberings: those that follow a gap move up by one.
NumberingsByOne(table, S) ==
    {[c \in S |-> IF \A d \in S : table[d].indice # table[c].indice - 1
                  THEN table[c].indice - 1 ELSE table[c].indice]}

(* _re_compute_indices: 1 .. n in the order of the numbers that were read;  *)
(* those with the same number in the order MySQL returns them.              *)
Numberings(table, S) ==
    {f \in [S -> 1 .. Cardinality(S)] :
        \A c, d \in S :
            /\ c # d => f[c] # f[d]
            /\ table[c].indice < table[d].indice => f[c] < f[d]}

-----------------------------------------------------------------------------
(* Requests *)

Committed == {r \in Requests : pc[r] = "done"}

Begin(r, o, c) ==
    /\ pc[r] = "new"
    /\ o \in Ops
    /\ op' = [op EXCEPT ![r] = o]
    /\ chapter' = [chapter EXCEPT ![r] = c]
    /\ view' = [view EXCEPT ![r] = rows]
    /\ pc' = [pc EXCEPT ![r] = "working"]
    /\ before' = [before EXCEPT ![r] = Committed]
    /\ UNCHANGED <<rows, wrote, gone>>

\* An import, a template and delete_all are about no chapter in particular.
\* Nothing checks that the parent of a new chapter is still there.
BeginAny(r) ==
    \/ \E c \in Born(rows) \cup {Root} : Begin(r, "create", c)
    \/ \E c \in Stored(rows), o \in {"put", "delete"} : Begin(r, o, c)
    \/ \E o \in {"insert", "delete_all"} : Begin(r, o, None)

Commits(r, o) ==
    /\ pc[r] = "working" /\ op[r] = o
    /\ pc' = [pc EXCEPT ![r] = "done"]
    /\ UNCHANGED <<op, chapter, view, before>>

\* An exception, or a row that is gone: nothing was written.
Fail(r) ==
    /\ pc[r] = "working"
    /\ pc' = [pc EXCEPT ![r] = "failed"]
    /\ UNCHANGED <<rows, op, chapter, view, wrote, gone, before>>

(* create_empty_knowledge: a chapter at the end of a level *)
CreateEmpty(r) ==
    \E c \in Chapters, n \in FirstFree(view[r], chapter[r]) :
        /\ Commits(r, "create")
        /\ rows[c] = Unborn
        /\ rows' = [rows EXCEPT ![c] = [dad |-> chapter[r], indice |-> n]]
        /\ wrote' = [wrote EXCEPT ![c] = By(r)]
        /\ UNCHANGED gone

(* Chapters with numbers of the body: save_imported_knowledges, those of a   *)
(* template, and the one that save_knowledge creates when it is sent no id   *)
(* or that of a chapter that is gone (number 0 unless the body has one).     *)
(* They form trees, under the root or under chapters the client knows.       *)
InsertGiven(r) ==
    /\ Commits(r, "insert")
    /\ \E S \in SUBSET {c \in Chapters : rows[c] = Unborn} :
         \E new \in [S -> [dad : Born(view[r]) \cup S \cup {Root}, indice : Given]] :
            /\ S # {}
            /\ \A T \in SUBSET S : T # {} => \E c \in T : new[c].dad \notin T
            /\ rows' = [c \in Chapters |-> IF c \in S THEN new[c] ELSE rows[c]]
            /\ wrote' = [c \in Chapters |-> IF c \in S THEN By(r) ELSE wrote[c]]
            /\ UNCHANGED gone

(* update_knowledge_entity: a chapter is saved, or one of the two that a     *)
(* client swaps; a body without a parent stands for the root.                *)
PutChapter(r) ==
    LET c == chapter[r]
        read == view[r][c]
    IN
    /\ Commits(r, "put")
    /\ c \in Stored(rows)
    /\ \E dad \in {read.dad, Root}, n \in Given :
        /\ rows' = [rows EXCEPT
              ![c].dad = IF dad # read.dad THEN dad ELSE @,
              ![c].indice = IF n # read.indice THEN n ELSE @]
        /\ wrote' = [wrote EXCEPT
              ![c].dad = IF dad # read.dad THEN r ELSE @,
              ![c].indice = IF n # read.indice THEN r ELSE @]
        /\ UNCHANGED gone

(* delete_knowledge: the subtree goes, the siblings read are renumbered *)
DeleteChapter(r) ==
    LET c == chapter[r]
        deleted == Subtree(view[r], c)
        siblings == Level(view[r], view[r][c].dad) \ deleted
    IN
    /\ Commits(r, "delete")
    /\ \E f \in Numberings(view[r], siblings) :
        LET moved == {s \in siblings : f[s] # view[r][s].indice} IN
        /\ moved \subseteq Stored(rows)
        /\ rows' = [s \in Chapters |->
                      IF s \in deleted THEN Gone
                      ELSE IF s \in moved THEN [rows[s] EXCEPT !.indice = f[s]]
                      ELSE rows[s]]
        /\ wrote' = [s \in Chapters |->
                       IF s \in moved THEN [wrote[s] EXCEPT !.indice = r] ELSE wrote[s]]
        /\ gone' = [s \in Chapters |->
                      IF s \in deleted /\ rows[s] # Gone THEN r ELSE gone[s]]

\* Mutant of DeleteAll: it leaves ids that could be used again.
DeleteAllTraces(r) ==
    /\ Commits(r, "delete_all")
    /\ rows' = [c \in Chapters \ Stored(rows) |-> rows[c]]
    /\ UNCHANGED <<wrote, gone>>

(* delete_all meets the newest rows. *)
DeleteAll(r) ==
    /\ Commits(r, "delete_all")
    /\ rows' = [c \in Chapters |-> IF c \in Stored(rows) THEN Gone ELSE rows[c]]
    /\ gone' = [c \in Chapters |-> IF c \in Stored(rows) THEN r ELSE gone[c]]
    /\ UNCHANGED wrote

Commit(r) ==
    \/ CreateEmpty(r) \/ InsertGiven(r) \/ PutChapter(r)
    \/ DeleteChapter(r) \/ DeleteAll(r)

Next == \E r \in Requests : BeginAny(r) \/ Commit(r) \/ Fail(r)

Spec == Init /\ [][Next]_vars

-----------------------------------------------------------------------------
(* Properties *)

(* What r has read of c is what c is. *)
Fresh(r, c) == {wrote[c].dad, wrote[c].indice} \subseteq before[r] \cup {None}

(* A number the server computed is that of no sibling the request could see: *)
(* two chapters of a level have one number only if a client sent it, or if   *)
(* the requests that placed them overlapped.                                 *)
NumbersClashOnlyByRace ==
    \A c, d \in Stored(rows) :
        LET t == wrote[d].indice IN
        /\ c # d /\ rows[c].dad = rows[d].dad /\ rows[c].indice = rows[d].indice
        /\ t # None /\ op[t] \in {"create", "delete"}
        => ~({wrote[c].dad, wrote[c].indice, wrote[d].dad} \subseteq before[t] \cup {None, t})

(* A deletion takes with it all the chapters it could see under those it     *)
(* deletes, at any depth: a chapter keeps a parent that is gone only if the  *)
(* deletion of the parent had not seen it placed there.                      *)
OrphansOnlyByRace ==
    \A c \in Stored(rows) :
        LET dad == rows[c].dad IN
        dad \in Chapters /\ rows[dad] = Gone =>
            gone[dad] # None /\ wrote[c].dad \notin before[gone[dad]] \cup {None}

(* Renumbering a level keeps its order: of two chapters whose place the      *)
(* request has read as it is, the first one stays the first.                 *)
OrderIsKept ==
    [][\A r \in Requests : \A c, d \in Stored(rows) \cap Stored(rows') :
        /\ pc[r] = "working" /\ pc'[r] = "done" /\ op[r] # "put"
        /\ Fresh(r, c) /\ Fresh(r, d)
        /\ rows[c].dad = rows[d].dad /\ rows[c].indice < rows[d].indice
        => rows'[c].dad = rows'[d].dad /\ rows'[c].indice < rows'[d].indice]_vars

(* A deletion that has read its level as it is leaves it numbered 1 .. n,    *)
(* whatever clients and overlapping requests had made of it: each chapter    *)
(* can be swapped with its neighbour again.                                  *)
DeleteNumbersTheLevel ==
    [][\A r \in Requests :
        LET dad == view[r][chapter[r]].dad IN
        /\ pc[r] = "working" /\ pc'[r] = "done" /\ op[r] = "delete"
        /\ Level(rows, dad) = Level(view[r], dad)
        /\ \A c \in Level(rows, dad) : Fresh(r, c)
        => {rows'[c].indice : c \in Level(rows', dad)} = 1 .. Cardinality(Level(rows', dad))]_vars

=============================================================================

---------------------------- MODULE OutlineProofs ----------------------------
(***************************************************************************)
(* Proofs about module Outline, for any chapters to begin with, any numbers*)
(* clients send and any number of requests.                                *)
(***************************************************************************)
EXTENDS Outline, FiniteSetTheorems, TLAPS

(* A request is about chapters and levels it has read. *)
Fits(r) ==
    /\ before[r] \subseteq Committed \ {r}
    /\ pc[r] # "new" =>
          /\ op[r] \in {"put", "delete"} => chapter[r] \in Stored(view[r])
          /\ op[r] = "create" => chapter[r] \in Chapters \cup {Root}

Past == Committed \cup {None}
Traced ==
    \A c \in Chapters : wrote[c].dad \in Past /\ wrote[c].indice \in Past /\ gone[c] \in Past

Typed == TypeOK /\ (\A r \in Requests : Fits(r)) /\ Traced

-----------------------------------------------------------------------------
(* Steps *)

LEMMA StoredRows ==
    ASSUME NEW table \in [Chapters -> Row \cup {Unborn, Gone}], NEW c \in Chapters
    PROVE  c \in Stored(table) <=> table[c] \in Row
    BY OutlineAssumption DEF Stored

LEMMA CommitFrame ==
    ASSUME TypeOK, NEW r \in Requests, Commit(r)
    PROVE  /\ pc[r] = "working" /\ pc' = [pc EXCEPT ![r] = "done"]
           /\ op' = op /\ chapter' = chapter /\ view' = view /\ before' = before
           /\ Committed' = Committed \cup {r} /\ r \notin Committed /\ pc'[r] = "done"
<1>1. PICK o : Commits(r, o)
  BY DEF Commit, CreateEmpty, InsertGiven, PutChapter, DeleteChapter, DeleteAll
<1>. QED
  BY <1>1 DEF Commits, TypeOK, Committed

(* What a commit does to a chapter c: nothing, delete it, insert it, or write *)
(* some of its columns.                                                       *)
Inserted(r, c) ==
    /\ rows[c] = Unborn /\ rows'[c] \in Row
    /\ wrote'[c] = By(r) /\ op[r] \in {"create", "insert"}
Changed(r, c) ==
    /\ rows[c] \in Row /\ rows'[c] \in Row
    /\ wrote'[c] \in [dad : Writers, indice : Writers]
    /\ op[r] \in {"put", "delete"}
    /\ \/ rows'[c].dad = rows[c].dad /\ wrote'[c].dad = wrote[c].dad
       \/ wrote'[c].dad = r /\ op[r] = "put"
    /\ \/ rows'[c].indice = rows[c].indice /\ wrote'[c].indice = wrote[c].indice
       \/ wrote'[c].indice = r
Effect(r, c) ==
    \/ rows'[c] = rows[c] /\ wrote'[c] = wrote[c]
    \/ rows'[c] = Gone /\ wrote'[c] = wrote[c]
    \/ Inserted(r, c)
    \/ Changed(r, c)

LEMMA FirstFreeIsNumber ==
    ASSUME NEW table \in [Chapters -> Row \cup {Unborn, Gone}], NEW dad,
           NEW n \in FirstFree(table, dad)
    PROVE  n \in Int /\ \A c \in Level(table, dad) : table[c].indice < n
<1>1. \A c \in Level(table, dad) : table[c] \in Row
  BY StoredRows DEF Level, Stored
<1>. QED
  BY <1>1 DEF FirstFree, Row

LEMMA CreateStep ==
    ASSUME Typed, NEW r \in Requests, CreateEmpty(r)
    PROVE  \E c \in Chapters :
              /\ Inserted(r, c) /\ rows'[c].dad = chapter[r]
              /\ rows'[c].indice \in FirstFree(view[r], chapter[r])
              /\ \A d \in Chapters \ {c} : rows'[d] = rows[d] /\ wrote'[d] = wrote[d]
              /\ DOMAIN rows' = Chapters /\ DOMAIN wrote' = Chapters
<1>1. TypeOK /\ view[r] \in [Chapters -> Row \cup {Unborn, Gone}]
      /\ op[r] = "create" /\ chapter[r] \in Chapters \cup {Root}
  BY DEF Typed, TypeOK, Fits, CreateEmpty, Commits
<1>2. PICK c \in Chapters, n \in FirstFree(view[r], chapter[r]) :
          /\ rows[c] = Unborn
          /\ rows' = [rows EXCEPT ![c] = [dad |-> chapter[r], indice |-> n]]
          /\ wrote' = [wrote EXCEPT ![c] = By(r)]
  BY DEF CreateEmpty
<1>3. [dad |-> chapter[r], indice |-> n] \in Row
  BY <1>1, FirstFreeIsNumber DEF Row
<1>. QED
  BY <1>1, <1>2, <1>3 DEF TypeOK, Inserted

LEMMA InsertStep ==
    ASSUME Typed, NEW r \in Requests, InsertGiven(r)
    PROVE  /\ \A c \in Chapters : (rows'[c] = rows[c] /\ wrote'[c] = wrote[c]) \/ Inserted(r, c)
           /\ DOMAIN rows' = Chapters /\ DOMAIN wrote' = Chapters
<1>1. op[r] = "insert"
  BY DEF InsertGiven, Commits
<1>2. PICK S \in SUBSET {c \in Chapters : rows[c] = Unborn} :
        \E new \in [S -> [dad : Born(view[r]) \cup S \cup {Root}, indice : Given]] :
            /\ rows' = [c \in Chapters |-> IF c \in S THEN new[c] ELSE rows[c]]
            /\ wrote' = [c \in Chapters |-> IF c \in S THEN By(r) ELSE wrote[c]]
  BY DEF InsertGiven
<1>3. PICK new \in [S -> [dad : Born(view[r]) \cup S \cup {Root}, indice : Given]] :
            /\ rows' = [c \in Chapters |-> IF c \in S THEN new[c] ELSE rows[c]]
            /\ wrote' = [c \in Chapters |-> IF c \in S THEN By(r) ELSE wrote[c]]
  BY <1>2
<1>4. \A c \in S : new[c] \in Row
  BY OutlineAssumption DEF Row, Born
<1>. QED
  BY <1>1, <1>3, <1>4 DEF Inserted

LEMMA PutStep ==
    ASSUME Typed, NEW r \in Requests, PutChapter(r)
    PROVE  /\ Changed(r, chapter[r]) /\ op[r] = "put"
           /\ \A c \in Chapters \ {chapter[r]} : rows'[c] = rows[c] /\ wrote'[c] = wrote[c]
           /\ DOMAIN rows' = Chapters /\ DOMAIN wrote' = Chapters
<1>. DEFINE c == chapter[r]
            read == view[r][c]
<1>1. /\ TypeOK /\ op[r] = "put" /\ pc[r] = "working"
      /\ c \in Stored(view[r]) /\ c \in Stored(rows)
  BY DEF PutChapter, Commits, Typed, Fits
<1>2. read \in Row /\ rows[c] \in Row /\ c \in Chapters /\ wrote[c] \in [dad : Writers, indice : Writers]
  BY <1>1, StoredRows DEF TypeOK, Stored
<1>3. PICK dad \in {read.dad, Root}, n \in Given :
        /\ rows' = [rows EXCEPT
              ![c].dad = IF dad # read.dad THEN dad ELSE @,
              ![c].indice = IF n # read.indice THEN n ELSE @]
        /\ wrote' = [wrote EXCEPT
              ![c].dad = IF dad # read.dad THEN r ELSE @,
              ![c].indice = IF n # read.indice THEN r ELSE @]
  BY DEF PutChapter
<1>4. dad \in Chapters \cup {Root} /\ n \in Int
  BY <1>2, OutlineAssumption DEF Row
<1>5. DOMAIN rows = Chapters /\ DOMAIN wrote = Chapters
  BY <1>1 DEF TypeOK
<1>. HIDE DEF c, read
<1>6. /\ rows'[c] = [rows[c] EXCEPT !.dad = IF dad # read.dad THEN dad ELSE @,
                                    !.indice = IF n # read.indice THEN n ELSE @]
      /\ wrote'[c] = [wrote[c] EXCEPT !.dad = IF dad # read.dad THEN r ELSE @,
                                      !.indice = IF n # read.indice THEN r ELSE @]
      /\ \A d \in Chapters \ {c} : rows'[d] = rows[d] /\ wrote'[d] = wrote[d]
      /\ DOMAIN rows' = Chapters /\ DOMAIN wrote' = Chapters
  BY <1>2, <1>3, <1>5 DEF Row
<1>7. /\ rows'[c] \in Row /\ wrote'[c] \in [dad : Writers, indice : Writers]
      /\ rows'[c].dad = IF dad # read.dad THEN dad ELSE rows[c].dad
      /\ rows'[c].indice = IF n # read.indice THEN n ELSE rows[c].indice
      /\ wrote'[c].dad = IF dad # read.dad THEN r ELSE wrote[c].dad
      /\ wrote'[c].indice = IF n # read.indice THEN r ELSE wrote[c].indice
  BY <1>2, <1>4, <1>6 DEF Row, Writers
<1>. QED
  BY <1>1, <1>2, <1>6, <1>7 DEF Changed, c

(* The level a deletion renumbers, as it has read it. *)
Deleted(r) == Subtree(view[r], chapter[r])
Siblings(r) == Level(view[r], view[r][chapter[r]].dad) \ Deleted(r)

LEMMA DeleteStep ==
    ASSUME Typed, NEW r \in Requests, DeleteChapter(r)
    PROVE  /\ op[r] = "delete" /\ DOMAIN rows' = Chapters /\ DOMAIN wrote' = Chapters
           /\ \A c \in Chapters \cap Deleted(r) : rows'[c] = Gone /\ wrote'[c] = wrote[c]
           /\ \E f \in Numberings(view[r], Siblings(r)) :
                \A c \in Chapters \ Deleted(r) :
                   \/ /\ rows'[c] = rows[c] /\ wrote'[c] = wrote[c]
                      /\ c \in Siblings(r) => f[c] = view[r][c].indice
                   \/ /\ c \in Siblings(r) /\ Changed(r, c)
                      /\ rows'[c].dad = rows[c].dad /\ rows'[c].indice = f[c]
                      /\ wrote'[c].dad = wrote[c].dad /\ wrote'[c].indice = r
<1>1. TypeOK /\ op[r] = "delete"
  BY DEF DeleteChapter, Commits, Typed
<1>. DEFINE deleted == Deleted(r)
            siblings == Siblings(r)
<1>2. PICK f \in Numberings(view[r], siblings) :
        LET moved == {s \in siblings : f[s] # view[r][s].indice} IN
        /\ moved \subseteq Stored(rows)
        /\ rows' = [s \in Chapters |->
                      IF s \in deleted THEN Gone
                      ELSE IF s \in moved THEN [rows[s] EXCEPT !.indice = f[s]]
                      ELSE rows[s]]
        /\ wrote' = [s \in Chapters |->
                       IF s \in moved THEN [wrote[s] EXCEPT !.indice = r] ELSE wrote[s]]
  BY DEF DeleteChapter, Deleted, Siblings
<1>. DEFINE moved == {s \in siblings : f[s] # view[r][s].indice}
<1>3. \A s \in siblings : f[s] \in Int /\ s \notin deleted
  BY DEF Numberings, Siblings
<1>. HIDE DEF deleted, siblings
<1>4. \A s \in Chapters \cap deleted : rows'[s] = Gone /\ wrote'[s] = wrote[s]
  BY <1>2, <1>3
<1>5. \A s \in Chapters \ deleted : s \notin moved =>
         /\ rows'[s] = rows[s] /\ wrote'[s] = wrote[s]
         /\ s \in siblings => f[s] = view[r][s].indice
  BY <1>2
<1>6. ASSUME NEW s \in Chapters \ deleted, s \in moved
      PROVE  /\ s \in siblings /\ Changed(r, s)
             /\ rows'[s].dad = rows[s].dad /\ rows'[s].indice = f[s]
             /\ wrote'[s].dad = wrote[s].dad /\ wrote'[s].indice = r
  <2>1. rows[s] \in Row /\ wrote[s] \in [dad : Writers, indice : Writers]
    BY <1>1, <1>2, <1>6, StoredRows DEF TypeOK
  <2>2. rows'[s] = [rows[s] EXCEPT !.indice = f[s]] /\ wrote'[s] = [wrote[s] EXCEPT !.indice = r]
    BY <1>2, <1>6
  <2>3. f[s] \in Int /\ s \in siblings
    BY <1>3, <1>6
  <2>4. /\ rows'[s] \in Row /\ wrote'[s] \in [dad : Writers, indice : Writers]
        /\ rows'[s].dad = rows[s].dad /\ rows'[s].indice = f[s]
        /\ wrote'[s].dad = wrote[s].dad /\ wrote'[s].indice = r
    BY <2>1, <2>2, <2>3 DEF Row, Writers
  <2>. QED
    BY <1>1, <2>1, <2>3, <2>4 DEF Changed
<1>7. DOMAIN rows' = Chapters /\ DOMAIN wrote' = Chapters
  BY <1>2
<1>. QED
  BY <1>1, <1>4, <1>5, <1>6, <1>7 DEF deleted, siblings

LEMMA EffectStep ==
    ASSUME Typed, NEW r \in Requests, Commit(r)
    PROVE  /\ \A c \in Chapters : Effect(r, c)
           /\ DOMAIN rows' = Chapters /\ DOMAIN wrote' = Chapters
<1>1. CASE CreateEmpty(r)
  BY <1>1, CreateStep DEF Effect
<1>2. CASE InsertGiven(r)
  BY <1>2, InsertStep DEF Effect
<1>3. CASE PutChapter(r)
  BY <1>3, PutStep DEF Effect
<1>4. CASE DeleteChapter(r)
  BY <1>4, DeleteStep DEF Effect
<1>5. CASE DeleteAll(r)
  BY <1>5 DEF DeleteAll, Effect, Typed, TypeOK
<1>. QED
  BY <1>1, <1>2, <1>3, <1>4, <1>5 DEF Commit

(* A chapter that is gone stays gone, and it is known by whom. *)
LEMMA GoneStep ==
    ASSUME Typed, NEW r \in Requests, Commit(r)
    PROVE  /\ gone' \in [Chapters -> Writers]
           /\ \A c \in Chapters :
                 /\ gone'[c] \in {gone[c], r}
                 /\ rows[c] = Gone => rows'[c] = Gone /\ gone'[c] = gone[c]
                 /\ rows[c] # Gone /\ rows'[c] = Gone =>
                       /\ gone'[c] = r
                       /\ (op[r] = "delete" /\ c \in Deleted(r)) \/ op[r] = "delete_all"
<1>1. TypeOK /\ r \in Writers /\ \A c \in Chapters : Effect(r, c)
  BY EffectStep DEF Typed, Writers
<1>2. \A c \in Chapters : rows[c] = Gone => rows'[c] = Gone
  BY <1>1, OutlineAssumption DEF Effect, Inserted, Changed
<1>3. CASE CreateEmpty(r) \/ InsertGiven(r) \/ PutChapter(r)
  <2>1. gone' = gone
    BY <1>3 DEF CreateEmpty, InsertGiven, PutChapter
  <2>2. \A c \in Chapters : (rows'[c] = rows[c]) \/ rows'[c] \in Row
    BY <1>3, CreateStep, InsertStep, PutStep DEF Inserted, Changed
  <2>. QED
    BY <1>1, <1>2, <2>1, <2>2, OutlineAssumption DEF TypeOK
<1>4. CASE DeleteChapter(r)
  <2>1. gone' = [s \in Chapters |->
                   IF s \in Deleted(r) /\ rows[s] # Gone THEN r ELSE gone[s]]
    BY <1>4 DEF DeleteChapter, Deleted
  <2>2. \A c \in Chapters \ Deleted(r) : rows'[c] = rows[c] \/ rows'[c] \in Row
    BY <1>4, DeleteStep DEF Changed
  <2>3. op[r] = "delete"
    BY <1>4, DeleteStep
  <2>. QED
    BY <1>1, <1>2, <2>1, <2>2, <2>3, OutlineAssumption DEF TypeOK
<1>5. CASE DeleteAll(r)
  <2>1. /\ gone' = [c \in Chapters |-> IF c \in Stored(rows) THEN r ELSE gone[c]]
        /\ rows' = [c \in Chapters |-> IF c \in Stored(rows) THEN Gone ELSE rows[c]]
        /\ op[r] = "delete_all"
    BY <1>5 DEF DeleteAll, Commits
  <2>. QED
    BY <1>1, <1>2, <2>1 DEF TypeOK, Stored
<1>. QED
  BY <1>3, <1>4, <1>5 DEF Commit

-----------------------------------------------------------------------------
(* Types *)

LEMMA TypedInit == Init => Typed
<1>. SUFFICES ASSUME Init PROVE Typed
  OBVIOUS
<1>1. TypeOK
  BY OutlineAssumption DEF Init, TypeOK, NoRows, By, Writers
<1>2. \A r \in Requests : Fits(r)
  BY DEF Init, Fits
<1>3. Traced
  BY DEF Init, Traced, Past, By
<1>. QED
  BY <1>1, <1>2, <1>3 DEF Typed

(* What r takes over when it begins. *)
LEMMA BeginFrame ==
    ASSUME Typed, NEW r \in Requests, BeginAny(r)
    PROVE  /\ pc[r] = "new" /\ pc' = [pc EXCEPT ![r] = "working"]
           /\ view' = [view EXCEPT ![r] = rows] /\ before' = [before EXCEPT ![r] = Committed]
           /\ rows' = rows /\ wrote' = wrote /\ gone' = gone
           /\ Committed' = Committed /\ r \notin Committed
           /\ \A q \in Requests \ {r} : op'[q] = op[q] /\ chapter'[q] = chapter[q]
           /\ op'[r] \in {"put", "delete"} => chapter'[r] \in Stored(rows)
           /\ op'[r] = "create" => chapter'[r] \in Chapters \cup {Root}
           /\ op' \in [Requests -> Ops \cup {None}]
           /\ chapter' \in [Requests -> Chapters \cup {Root, None}]
<1>1. PICK o \in Ops, c \in Chapters \cup {Root, None} :
        /\ Begin(r, o, c)
        /\ o \in {"put", "delete"} => c \in Stored(rows)
        /\ o = "create" => c \in Chapters \cup {Root}
  BY DEF BeginAny, Begin, Stored, Born
<1>. QED
  BY <1>1 DEF Begin, Committed, Typed, TypeOK

LEMMA TypedBegin ==
    ASSUME Typed, NEW r \in Requests, BeginAny(r)
    PROVE  Typed'
<1>1. TypeOK'
  <2>1. TypeOK /\ Committed \in SUBSET Requests
    BY DEF Typed, Committed
  <2>2. pc' \in [Requests -> {"new", "working", "done", "failed"}]
    BY <2>1, BeginFrame DEF TypeOK
  <2>3. view' \in [Requests -> [Chapters -> Row \cup {Unborn, Gone}]]
    BY <2>1, BeginFrame DEF TypeOK
  <2>4. before' \in [Requests -> SUBSET Requests]
    BY <2>1, BeginFrame DEF TypeOK
  <2>. QED
    BY <2>1, <2>2, <2>3, <2>4, BeginFrame DEF TypeOK
<1>2. ASSUME NEW q \in Requests
      PROVE  Fits(q)'
  <2>1. Fits(q) /\ TypeOK /\ Committed' = Committed
    BY BeginFrame DEF Typed
  <2>2. CASE q = r
    BY <2>1, <2>2, BeginFrame DEF Fits, TypeOK, Stored
  <2>3. CASE q # r
    <3>1. op'[q] = op[q] /\ chapter'[q] = chapter[q] /\ pc'[q] = pc[q] /\ view'[q] = view[q]
          /\ before'[q] = before[q]
      BY <2>1, <2>3, BeginFrame DEF TypeOK
    <3>. QED
      BY <2>1, <3>1 DEF Fits, Stored
  <2>. QED
    BY <2>2, <2>3
<1>3. Traced'
  BY BeginFrame DEF Typed, Traced, Past
<1>. QED
  BY <1>1, <1>2, <1>3 DEF Typed

LEMMA TypedCommit ==
    ASSUME Typed, NEW r \in Requests, Commit(r)
    PROVE  Typed'
<1>1. TypeOK /\ Traced /\ \A q \in Requests : Fits(q)
  BY DEF Typed
<1>2. /\ pc[r] = "working" /\ pc' = [pc EXCEPT ![r] = "done"]
      /\ op' = op /\ chapter' = chapter /\ view' = view /\ before' = before
      /\ Committed' = Committed \cup {r} /\ r \notin Committed
  BY <1>1, CommitFrame
<1>3. /\ \A c \in Chapters : Effect(r, c)
      /\ DOMAIN rows' = Chapters /\ DOMAIN wrote' = Chapters
  BY EffectStep
<1>4. ASSUME NEW c \in Chapters
      PROVE  /\ rows'[c] \in Row \cup {Unborn, Gone}
             /\ wrote'[c] \in [dad : Writers, indice : Writers]
             /\ wrote'[c].dad \in {wrote[c].dad, r} /\ wrote'[c].indice \in {wrote[c].indice, r}
  <2>1. Effect(r, c)
    BY <1>3
  <2>. QED
    BY <1>1, <2>1 DEF Effect, Inserted, Changed, By, TypeOK, Writers
<1>5. rows' \in [Chapters -> Row \cup {Unborn, Gone}]
  <2>1. CASE CreateEmpty(r)
    BY <1>3, <1>4, <2>1 DEF CreateEmpty, TypeOK
  <2>2. CASE InsertGiven(r)
    BY <1>4, <2>2 DEF InsertGiven
  <2>3. CASE PutChapter(r)
    BY <1>1, <1>3, <1>4, <2>3 DEF PutChapter, TypeOK
  <2>4. CASE DeleteChapter(r)
    BY <1>4, <2>4 DEF DeleteChapter
  <2>5. CASE DeleteAll(r)
    BY <1>1, <2>5 DEF DeleteAll, TypeOK
  <2>. QED
    BY <2>1, <2>2, <2>3, <2>4, <2>5 DEF Commit
<1>6. wrote' \in [Chapters -> [dad : Writers, indice : Writers]]
  <2>1. CASE CreateEmpty(r)
    BY <1>1, <1>3, <1>4, <2>1 DEF CreateEmpty, TypeOK
  <2>2. CASE InsertGiven(r)
    BY <1>4, <2>2 DEF InsertGiven
  <2>3. CASE PutChapter(r)
    BY <1>1, <1>3, <1>4, <2>3 DEF PutChapter, TypeOK
  <2>4. CASE DeleteChapter(r)
    BY <1>4, <2>4 DEF DeleteChapter
  <2>5. CASE DeleteAll(r)
    BY <1>1, <2>5 DEF DeleteAll, TypeOK
  <2>. QED
    BY <2>1, <2>2, <2>3, <2>4, <2>5 DEF Commit
<1>7. TypeOK'
  BY <1>1, <1>2, <1>5, <1>6, GoneStep DEF TypeOK
<1>8. \A q \in Requests : Fits(q)'
  BY <1>1, <1>2 DEF Fits, Stored, TypeOK
<1>9. Traced'
  BY <1>1, <1>2, <1>4, GoneStep DEF Traced, Past
<1>. QED
  BY <1>7, <1>8, <1>9 DEF Typed

LEMMA TypedFail ==
    ASSUME Typed, NEW r \in Requests, Fail(r)
    PROVE  Typed' /\ Committed' = Committed
<1>1. Committed' = Committed
  BY DEF Fail, Committed, Typed, TypeOK
<1>2. TypeOK'
  BY DEF Fail, Typed, TypeOK
<1>3. \A q \in Requests : Fits(q)'
  BY <1>1 DEF Fail, Fits, Typed, TypeOK, Stored
<1>4. Traced'
  BY <1>1 DEF Fail, Traced, Past, Typed
<1>. QED
  BY <1>1, <1>2, <1>3, <1>4 DEF Typed

LEMMA TypedNext == Typed /\ [Next]_vars => Typed'
<1>. SUFFICES ASSUME Typed, [Next]_vars PROVE Typed'
  OBVIOUS
<1>1. ASSUME NEW r \in Requests, BeginAny(r) PROVE Typed'
  BY <1>1, TypedBegin
<1>2. ASSUME NEW r \in Requests, Commit(r) PROVE Typed'
  BY <1>2, TypedCommit
<1>3. ASSUME NEW r \in Requests, Fail(r) PROVE Typed'
  BY <1>3, TypedFail
<1>4. CASE UNCHANGED vars
  BY <1>4 DEF vars, Typed, TypeOK, Fits, Traced, Past, Committed, Stored
<1>. QED
  BY <1>1, <1>2, <1>3, <1>4 DEF Next

(* The rows, the requests and the history have their types, always. *)
THEOREM OutlineTypes == Spec => []TypeOK
<1>1. Typed => TypeOK
  BY DEF Typed
<1>. QED
  BY TypedInit, TypedNext, <1>1, PTL DEF Spec

-----------------------------------------------------------------------------
(* What a request has read is what is there, as far as no request that it did *)
(* not see has written since.                                                 *)
Read(q) ==
    pc[q] # "new" =>
        \A c \in Stored(rows) :
            /\ wrote[c].dad \in before[q] \cup {None} =>
                  c \in Stored(view[q]) /\ view[q][c].dad = rows[c].dad
            /\ wrote[c].indice \in before[q] \cup {None} =>
                  c \in Stored(view[q]) /\ view[q][c].indice = rows[c].indice

AllRead == \A q \in Requests : Read(q)

(* The rows one commit leaves, and what it writes, column by column. *)
LEMMA ColumnStep ==
    ASSUME Typed, NEW r \in Requests, Commit(r), NEW c \in Chapters, c \in Stored(rows')
    PROVE  /\ \/ c \in Stored(rows) /\ rows'[c].dad = rows[c].dad /\ wrote'[c].dad = wrote[c].dad
              \/ wrote'[c].dad = r /\ (Inserted(r, c) \/ (c \in Stored(rows) /\ op[r] = "put"))
           /\ \/ c \in Stored(rows) /\ rows'[c].indice = rows[c].indice /\ wrote'[c].indice = wrote[c].indice
              \/ wrote'[c].indice = r /\ (Inserted(r, c) \/ (c \in Stored(rows) /\ op[r] \in {"put", "delete"}))
<1>1. Effect(r, c) /\ rows'[c] # Gone /\ rows'[c] # Unborn
  BY EffectStep DEF Stored
<1>2. rows[c] \in Row => c \in Stored(rows)
  BY StoredRows DEF Typed, TypeOK
<1>. QED
  BY <1>1, <1>2 DEF Effect, Inserted, Changed, By, Stored

LEMMA ReadNext == Typed /\ AllRead /\ [Next]_vars => AllRead'
<1>. SUFFICES ASSUME Typed, AllRead, [Next]_vars, NEW q \in Requests PROVE Read(q)'
  BY DEF AllRead
<1>1. TypeOK /\ Read(q) /\ Traced /\ Fits(q)
  BY DEF Typed, AllRead
<1>2. ASSUME NEW r \in Requests, BeginAny(r) PROVE Read(q)'
  <2>1. CASE q = r
    BY <1>1, <1>2, <2>1, BeginFrame DEF Read, TypeOK, Stored
  <2>2. CASE q # r
    <3>1. pc'[q] = pc[q] /\ view'[q] = view[q] /\ before'[q] = before[q] /\ rows' = rows /\ wrote' = wrote
      BY <1>1, <1>2, <2>2, BeginFrame DEF TypeOK
    <3>. QED
      BY <1>1, <3>1 DEF Read, Stored
  <2>. QED
    BY <2>1, <2>2
<1>3. ASSUME NEW r \in Requests, Commit(r) PROVE Read(q)'
  <2>1. /\ view' = view /\ before' = before /\ (pc'[q] # "new" => pc[q] # "new")
        /\ r \notin before[q] \cup {None}
    BY <1>1, <1>3, CommitFrame, OutlineAssumption DEF TypeOK, Fits
  <2>2. SUFFICES ASSUME pc[q] # "new", NEW c \in Stored(rows')
                 PROVE  /\ wrote'[c].dad \in before[q] \cup {None} =>
                              c \in Stored(view[q]) /\ view[q][c].dad = rows'[c].dad
                        /\ wrote'[c].indice \in before[q] \cup {None} =>
                              c \in Stored(view[q]) /\ view[q][c].indice = rows'[c].indice
    BY <2>1 DEF Read, Stored
  <2>3. c \in Chapters /\ c \in Stored(rows')
    BY DEF Stored
  <2>. QED
    BY <1>1, <1>3, <2>1, <2>2, <2>3, ColumnStep DEF Read
<1>4. ASSUME NEW r \in Requests, Fail(r) PROVE Read(q)'
  BY <1>1, <1>4 DEF Fail, Read, TypeOK, Stored
<1>5. CASE UNCHANGED vars
  BY <1>1, <1>5 DEF vars, Read, Stored
<1>. QED
  BY <1>2, <1>3, <1>4, <1>5 DEF Next

LEMMA FreshRead ==
    ASSUME AllRead, NEW r \in Requests, pc[r] # "new", NEW c \in Stored(rows), Fresh(r, c)
    PROVE  c \in Stored(view[r]) /\ view[r][c].dad = rows[c].dad /\ view[r][c].indice = rows[c].indice
BY DEF AllRead, Read, Fresh

(* A request that ends as done has committed in that step. *)
LEMMA DoneByCommit ==
    ASSUME Typed, [Next]_vars, NEW r \in Requests, pc[r] = "working", pc'[r] = "done"
    PROVE  Commit(r)
<1>1. TypeOK
  BY DEF Typed
<1>2. ASSUME NEW q \in Requests, BeginAny(q) PROVE FALSE
  BY <1>1, <1>2, BeginFrame DEF TypeOK
<1>3. ASSUME NEW q \in Requests, Commit(q), q # r PROVE FALSE
  BY <1>1, <1>3, CommitFrame DEF TypeOK
<1>4. ASSUME NEW q \in Requests, Fail(q) PROVE FALSE
  BY <1>1, <1>4 DEF Fail, TypeOK
<1>. QED
  BY <1>2, <1>3, <1>4 DEF Next, vars

(* Where a deletion leaves the chapters of the level it renumbers. *)
LEMMA RenumberStep ==
    ASSUME Typed, NEW r \in Requests, DeleteChapter(r)
    PROVE  /\ \A c \in Stored(rows') : c \in Stored(rows) \ Deleted(r) /\ rows'[c].dad = rows[c].dad
           /\ \A c \in Stored(rows) \ Deleted(r) : c \in Stored(rows')
           /\ \E f \in Numberings(view[r], Siblings(r)) :
                \A c \in Stored(rows') :
                   IF c \in Siblings(r) /\ view[r][c].indice = rows[c].indice
                   THEN rows'[c].indice = f[c]
                   ELSE c \notin Siblings(r) => rows'[c].indice = rows[c].indice
<1>1. PICK f \in Numberings(view[r], Siblings(r)) :
         \A c \in Chapters \ Deleted(r) :
                   \/ /\ rows'[c] = rows[c] /\ wrote'[c] = wrote[c]
                      /\ c \in Siblings(r) => f[c] = view[r][c].indice
                   \/ /\ c \in Siblings(r) /\ Changed(r, c)
                      /\ rows'[c].dad = rows[c].dad /\ rows'[c].indice = f[c]
                      /\ wrote'[c].dad = wrote[c].dad /\ wrote'[c].indice = r
  BY DeleteStep
<1>2. \A c \in Chapters \cap Deleted(r) : rows'[c] = Gone
  BY DeleteStep
<1>3. \A c \in Chapters : Changed(r, c) => c \in Stored(rows) /\ c \in Stored(rows')
  BY OutlineAssumption DEF Changed, Stored
<1>. QED
  BY <1>1, <1>2, <1>3 DEF Stored

LEMMA OrderStep ==
    ASSUME Typed, AllRead, NEW r \in Requests, Commit(r), op[r] # "put",
           NEW c \in Stored(rows) \cap Stored(rows'), NEW d \in Stored(rows) \cap Stored(rows'),
           Fresh(r, c), Fresh(r, d), rows[c].dad = rows[d].dad, rows[c].indice < rows[d].indice
    PROVE  rows'[c].dad = rows'[d].dad /\ rows'[c].indice < rows'[d].indice
<1>1. c \in Chapters /\ d \in Chapters /\ rows[c] # Unborn /\ rows[d] # Unborn
  BY DEF Stored
<1>2. CASE CreateEmpty(r)
  BY <1>1, <1>2, CreateStep DEF Inserted
<1>3. CASE InsertGiven(r)
  BY <1>1, <1>3, InsertStep DEF Inserted
<1>4. CASE PutChapter(r)
  BY <1>4, PutStep
<1>5. CASE DeleteChapter(r)
  <2>1. pc[r] # "new"
    BY <1>5 DEF DeleteChapter, Commits
  <2>2. /\ c \in Stored(view[r]) /\ view[r][c].dad = rows[c].dad /\ view[r][c].indice = rows[c].indice
        /\ d \in Stored(view[r]) /\ view[r][d].dad = rows[d].dad /\ view[r][d].indice = rows[d].indice
    BY <2>1, FreshRead
  <2>3. c \notin Deleted(r) /\ d \notin Deleted(r)
    BY <1>5, RenumberStep
  <2>4. c \in Siblings(r) <=> d \in Siblings(r)
    BY <2>2, <2>3 DEF Siblings, Level
  <2>5. PICK f \in Numberings(view[r], Siblings(r)) :
                \A e \in Stored(rows') :
                   IF e \in Siblings(r) /\ view[r][e].indice = rows[e].indice
                   THEN rows'[e].indice = f[e]
                   ELSE e \notin Siblings(r) => rows'[e].indice = rows[e].indice
    BY <1>5, RenumberStep
  <2>6. rows'[c].dad = rows[c].dad /\ rows'[d].dad = rows[d].dad
    BY <1>5, RenumberStep
  <2>7. CASE c \in Siblings(r)
    <3>1. f[c] < f[d]
      BY <2>2, <2>4, <2>7 DEF Numberings
    <3>. QED
      BY <2>2, <2>4, <2>5, <2>6, <2>7, <3>1
  <2>8. CASE c \notin Siblings(r)
    BY <2>4, <2>5, <2>6, <2>8
  <2>. QED
    BY <2>7, <2>8
<1>6. CASE DeleteAll(r)
  BY <1>1, <1>6 DEF DeleteAll, Stored
<1>. QED
  BY <1>2, <1>3, <1>4, <1>5, <1>6 DEF Commit

(* n different numbers among 1 .. n are all of them. *)
LEMMA NumberingsAreOnto ==
    ASSUME NEW S, IsFiniteSet(S), NEW table, NEW f \in Numberings(table, S)
    PROVE  {f[s] : s \in S} = 1 .. Cardinality(S)
<1>. DEFINE T == 1 .. Cardinality(S)
<1>1. Cardinality(S) \in Nat
  BY FS_CardinalityType
<1>2. IsFiniteSet(T) /\ Cardinality(T) = Cardinality(S)
  BY <1>1, FS_Interval
<1>3. f \in Injection(S, T)
  BY DEF Numberings, Injection, IsInjective
<1>4. f \in Surjection(S, T)
  BY <1>2, <1>3, FS_Injection
<1>. QED
  BY <1>4 DEF Surjection

LEMMA LevelStep ==
    ASSUME Typed, AllRead, NEW r \in Requests, Commit(r), op[r] = "delete",
           NEW dad, dad = view[r][chapter[r]].dad,
           Level(rows, dad) = Level(view[r], dad),
           \A c \in Level(rows, dad) : Fresh(r, c)
    PROVE  {rows'[c].indice : c \in Level(rows', dad)} = 1 .. Cardinality(Level(rows', dad))
<1>1. DeleteChapter(r) /\ pc[r] # "new"
  BY DEF Commit, CreateEmpty, InsertGiven, PutChapter, DeleteChapter, DeleteAll, Commits
<1>2. PICK f \in Numberings(view[r], Siblings(r)) :
        \A c \in Stored(rows') :
           IF c \in Siblings(r) /\ view[r][c].indice = rows[c].indice
           THEN rows'[c].indice = f[c]
           ELSE c \notin Siblings(r) => rows'[c].indice = rows[c].indice
  BY <1>1, RenumberStep
<1>3. Siblings(r) = Level(rows, dad) \ Deleted(r)
  BY DEF Siblings
<1>4. Level(rows', dad) = Siblings(r)
  BY <1>1, <1>3, RenumberStep DEF Level
<1>5. \A c \in Siblings(r) : c \in Stored(rows) /\ view[r][c].indice = rows[c].indice
  BY <1>1, <1>3, FreshRead DEF Level
<1>6. \A c \in Siblings(r) : rows'[c].indice = f[c]
  BY <1>2, <1>4, <1>5 DEF Level
<1>7. IsFiniteSet(Siblings(r))
  BY FS_Subset, OutlineAssumption DEF Siblings, Level, Stored
<1>8. {f[c] : c \in Siblings(r)} = 1 .. Cardinality(Siblings(r))
  BY <1>7, NumberingsAreOnto
<1>. QED
  BY <1>4, <1>6, <1>8

Inv == Typed /\ AllRead

LEMMA InvInit == Init => Inv
  BY TypedInit DEF Init, AllRead, Read, Inv

LEMMA InvNext == Inv /\ [Next]_vars => Inv'
  BY TypedNext, ReadNext DEF Inv

(* Creating, importing or deleting chapters leaves in their order those it    *)
(* has read as they are.                                                      *)
THEOREM OrderStays == Spec => OrderIsKept
<1>1. Inv /\ [Next]_vars =>
        [\A r \in Requests : \A c, d \in Stored(rows) \cap Stored(rows') :
            /\ pc[r] = "working" /\ pc'[r] = "done" /\ op[r] # "put"
            /\ Fresh(r, c) /\ Fresh(r, d)
            /\ rows[c].dad = rows[d].dad /\ rows[c].indice < rows[d].indice
            => rows'[c].dad = rows'[d].dad /\ rows'[c].indice < rows'[d].indice]_vars
  BY DoneByCommit, OrderStep DEF Inv
<1>. QED
  BY InvInit, InvNext, <1>1, PTL DEF Spec, OrderIsKept

(* A deletion that has read its level as it is leaves it numbered 1 .. n. *)
THEOREM LevelIsNumbered == Spec => DeleteNumbersTheLevel
<1>1. Inv /\ [Next]_vars =>
        [\A r \in Requests :
            LET dad == view[r][chapter[r]].dad IN
            /\ pc[r] = "working" /\ pc'[r] = "done" /\ op[r] = "delete"
            /\ Level(rows, dad) = Level(view[r], dad)
            /\ \A c \in Level(rows, dad) : Fresh(r, c)
            => {rows'[c].indice : c \in Level(rows', dad)} = 1 .. Cardinality(Level(rows', dad))]_vars
  BY DoneByCommit, LevelStep DEF Inv
<1>. QED
  BY InvInit, InvNext, <1>1, PTL DEF Spec, DeleteNumbersTheLevel

-----------------------------------------------------------------------------
(* What a creation or a deletion has written stands until a request that it   *)
(* did not see writes there.                                                  *)
Seen(t) == before[t] \cup {None}

CreatedBy(t) ==
    \A c \in Stored(rows) :
        /\ wrote[c].dad = t => rows[c].dad = chapter[t]
        /\ wrote[c].indice = t =>
              /\ wrote[c].dad \notin Seen(t)
              /\ rows[c].indice \in FirstFree(view[t], chapter[t])
              /\ \A d \in Stored(rows) : t \in {wrote[d].dad, wrote[d].indice} => c = d

NumberedBy(t, f) ==
    \A c \in Stored(rows) :
        /\ wrote[c].dad # t
        /\ wrote[c].indice = t => c \in Siblings(t)
        /\ c \in Siblings(t) /\ wrote[c].indice \in Seen(t) \cup {t} => rows[c].indice = f[c]

DeletedBy(t) ==
    /\ \A c \in Chapters \cap Deleted(t) : rows[c] = Gone
    /\ \E f \in Numberings(view[t], Siblings(t)) : NumberedBy(t, f)

Settles(t) ==
    /\ op[t] = "create" => CreatedBy(t)
    /\ op[t] = "delete" => DeletedBy(t)
    /\ op[t] = "delete_all" => \A c \in Stored(rows) : wrote[c].dad \notin Seen(t)

Settled == \A t \in Committed : Settles(t)

LEMMA CommitSettles ==
    ASSUME Typed, AllRead, NEW t \in Requests, Commit(t)
    PROVE  Settles(t)'
<1>1. /\ pc[t] = "working" /\ t \notin Committed /\ t # None
      /\ op' = op /\ chapter' = chapter /\ view' = view /\ before' = before
  BY CommitFrame, OutlineAssumption DEF Typed
<1>2. \A c \in Chapters : wrote[c].dad # t /\ wrote[c].indice # t
  BY <1>1 DEF Typed, Traced, Past
<1>3. Seen(t)' = Seen(t) /\ t \notin Seen(t)
  BY <1>1 DEF Seen, Typed, Fits
<1>4. ASSUME op[t] = "create" PROVE CreatedBy(t)'
  <2>1. CreateEmpty(t)
    BY <1>4 DEF Commit, CreateEmpty, InsertGiven, PutChapter, DeleteChapter, DeleteAll, Commits
  <2>2. PICK c \in Chapters :
              /\ Inserted(t, c) /\ rows'[c].dad = chapter[t]
              /\ rows'[c].indice \in FirstFree(view[t], chapter[t])
              /\ \A d \in Chapters \ {c} : rows'[d] = rows[d] /\ wrote'[d] = wrote[d]
    BY <2>1, CreateStep
  <2>3. wrote'[c].dad = t /\ wrote'[c].indice = t
    BY <2>2 DEF Inserted, By
  <2>4. \A d \in Chapters \ {c} : wrote'[d].dad # t /\ wrote'[d].indice # t
    BY <1>2, <2>2
  <2>5. SUFFICES ASSUME NEW e \in Chapters, e \in Stored(rows')
                 PROVE  /\ wrote'[e].dad = t => rows'[e].dad = chapter[t]
                        /\ wrote'[e].indice = t =>
                              /\ wrote'[e].dad \notin Seen(t)
                              /\ rows'[e].indice \in FirstFree(view[t], chapter[t])
                              /\ \A d \in Stored(rows') : t \in {wrote'[d].dad, wrote'[d].indice} => e = d
    BY <1>1, <1>3 DEF CreatedBy, Stored
  <2>. QED
    BY <1>3, <2>2, <2>3, <2>4 DEF Stored
<1>5. ASSUME op[t] = "delete" PROVE DeletedBy(t)'
  <2>1. DeleteChapter(t)
    BY <1>5 DEF Commit, CreateEmpty, InsertGiven, PutChapter, DeleteChapter, DeleteAll, Commits
  <2>2. /\ \A c \in Chapters \cap Deleted(t) : rows'[c] = Gone
        /\ Deleted(t)' = Deleted(t) /\ Siblings(t)' = Siblings(t)
    BY <1>1, <2>1, DeleteStep DEF Siblings, Deleted, Level, Stored, Subtree
  <2>3. PICK f \in Numberings(view[t], Siblings(t)) :
            \A c \in Chapters \ Deleted(t) :
                   \/ /\ rows'[c] = rows[c] /\ wrote'[c] = wrote[c]
                      /\ c \in Siblings(t) => f[c] = view[t][c].indice
                   \/ /\ c \in Siblings(t) /\ Changed(t, c)
                      /\ rows'[c].dad = rows[c].dad /\ rows'[c].indice = f[c]
                      /\ wrote'[c].dad = wrote[c].dad /\ wrote'[c].indice = t
    BY <2>1, DeleteStep
  <2>4. ASSUME NEW c \in Chapters, c \in Stored(rows')
        PROVE  /\ wrote'[c].dad # t
               /\ wrote'[c].indice = t => c \in Siblings(t)
               /\ c \in Siblings(t) /\ wrote'[c].indice \in Seen(t) \cup {t} => rows'[c].indice = f[c]
    <3>1. c \notin Deleted(t)
      BY <2>2, <2>4 DEF Stored
    <3>2. CASE wrote'[c].indice = t
      BY <1>2, <2>3, <3>1, <3>2
    <3>3. CASE wrote'[c].indice # t
      <4>1. /\ rows'[c] = rows[c] /\ wrote'[c] = wrote[c]
            /\ c \in Siblings(t) => f[c] = view[t][c].indice
        BY <2>3, <3>1, <3>3
      <4>2. c \in Stored(rows)
        BY <2>4, <4>1 DEF Stored
      <4>3. wrote[c].indice \in Seen(t) => view[t][c].indice = rows[c].indice
        BY <1>1, <4>2 DEF AllRead, Read, Seen
      <4>. QED
        BY <1>2, <3>3, <4>1, <4>3
    <3>. QED
      BY <3>2, <3>3
  <2>5. NumberedBy(t, f)'
    BY <1>3, <2>2, <2>4 DEF NumberedBy, Stored
  <2>6. Numberings(view[t], Siblings(t))' = Numberings(view[t], Siblings(t))
    BY <1>1, <2>2 DEF Numberings
  <2>. QED
    BY <2>2, <2>3, <2>5, <2>6 DEF DeletedBy
<1>6. ASSUME op[t] = "delete_all" PROVE Stored(rows') = {}
  <2>1. DeleteAll(t)
    BY <1>6 DEF Commit, CreateEmpty, InsertGiven, PutChapter, DeleteChapter, DeleteAll, Commits
  <2>. QED
    BY <2>1 DEF DeleteAll, Stored
<1>. QED
  BY <1>1, <1>4, <1>5, <1>6 DEF Settles, Stored

LEMMA OthersSettle ==
    ASSUME Typed, NEW r \in Requests, Commit(r), NEW t \in Committed, Settles(t)
    PROVE  Settles(t)'
<1>1. /\ op' = op /\ chapter' = chapter /\ view' = view /\ before' = before
      /\ r \notin Committed /\ r # None /\ r # t
  BY CommitFrame, OutlineAssumption DEF Typed
<1>2. t \in Requests /\ Seen(t)' = Seen(t) /\ r \notin Seen(t) \cup {t}
  BY <1>1 DEF Seen, Typed, Fits, Committed
<1>3. \A c \in Stored(rows') : c \in Chapters
  BY DEF Stored
<1>4. ASSUME op[t] = "create" PROVE CreatedBy(t)'
  <2>1. CreatedBy(t)
    BY <1>4 DEF Settles
  <2>2. SUFFICES ASSUME NEW c \in Stored(rows')
                 PROVE  /\ wrote'[c].dad = t => rows'[c].dad = chapter[t]
                        /\ wrote'[c].indice = t =>
                              /\ wrote'[c].dad \notin Seen(t)
                              /\ rows'[c].indice \in FirstFree(view[t], chapter[t])
                              /\ \A d \in Stored(rows') : t \in {wrote'[d].dad, wrote'[d].indice} => c = d
    BY <1>1, <1>2 DEF CreatedBy, Stored
  <2>3. wrote'[c].dad = t => c \in Stored(rows) /\ rows'[c].dad = rows[c].dad /\ wrote[c].dad = t
    BY <1>1, <1>3, ColumnStep
  <2>4. wrote'[c].indice = t =>
            c \in Stored(rows) /\ rows'[c].indice = rows[c].indice /\ wrote[c].indice = t
    BY <1>1, <1>3, ColumnStep
  <2>5. wrote'[c].dad \in {wrote[c].dad, r}
    BY <1>3, ColumnStep
  <2>6. ASSUME NEW d \in Stored(rows'), t \in {wrote'[d].dad, wrote'[d].indice}
        PROVE  d \in Stored(rows) /\ t \in {wrote[d].dad, wrote[d].indice}
    BY <1>1, <1>3, <2>6, ColumnStep
  <2>. QED
    BY <1>2, <2>1, <2>3, <2>4, <2>5, <2>6 DEF CreatedBy
<1>5. ASSUME op[t] = "delete" PROVE DeletedBy(t)'
  <2>1. PICK f \in Numberings(view[t], Siblings(t)) : NumberedBy(t, f)
    BY <1>5 DEF Settles, DeletedBy
  <2>2. /\ Deleted(t)' = Deleted(t) /\ Siblings(t)' = Siblings(t)
        /\ Numberings(view[t], Siblings(t))' = Numberings(view[t], Siblings(t))
    BY <1>1 DEF Siblings, Deleted, Level, Stored, Subtree, Numberings
  <2>3. ASSUME NEW c \in Chapters \cap Deleted(t) PROVE rows'[c] = Gone
    <3>1. rows[c] = Gone /\ Effect(r, c)
      BY <1>5, EffectStep DEF Settles, DeletedBy
    <3>. QED
      BY <3>1, OutlineAssumption DEF Effect, Inserted, Changed
  <2>4. NumberedBy(t, f)'
    <3>1. SUFFICES ASSUME NEW c \in Stored(rows')
                   PROVE  /\ wrote'[c].dad # t
                          /\ wrote'[c].indice = t => c \in Siblings(t)
                          /\ c \in Siblings(t) /\ wrote'[c].indice \in Seen(t) \cup {t} =>
                                rows'[c].indice = f[c]
      BY <1>2, <2>2 DEF NumberedBy, Stored
    <3>2. wrote'[c].dad # t
      BY <1>1, <1>3, <2>1, ColumnStep DEF NumberedBy
    <3>3. wrote'[c].indice \in Seen(t) \cup {t} =>
             c \in Stored(rows) /\ rows'[c].indice = rows[c].indice /\ wrote'[c].indice = wrote[c].indice
      BY <1>2, <1>3, ColumnStep
    <3>. QED
      BY <2>1, <3>2, <3>3 DEF NumberedBy
  <2>. QED
    BY <2>1, <2>2, <2>3, <2>4 DEF DeletedBy
<1>6. ASSUME op[t] = "delete_all", NEW c \in Stored(rows') PROVE wrote'[c].dad \notin Seen(t)
  <2>1. wrote'[c].dad = r \/ (c \in Stored(rows) /\ wrote'[c].dad = wrote[c].dad)
    BY <1>3, ColumnStep
  <2>. QED
    BY <1>2, <1>6, <2>1 DEF Settles
<1>7. op[t] = "delete_all" => \A c \in Stored(rows)' : wrote'[c].dad \notin Seen(t)'
  BY <1>2, <1>6 DEF Stored
<1>. QED
  BY <1>1, <1>4, <1>5, <1>7 DEF Settles

(* A step that writes nothing leaves settled what is. *)
LEMMA QuietSettles ==
    ASSUME NEW t \in Committed, Settles(t), rows' = rows, wrote' = wrote,
           op'[t] = op[t], chapter'[t] = chapter[t], view'[t] = view[t], before'[t] = before[t]
    PROVE  Settles(t)'
<1>1. /\ Seen(t)' = Seen(t) /\ Deleted(t)' = Deleted(t) /\ Siblings(t)' = Siblings(t)
      /\ Stored(rows)' = Stored(rows)
  BY DEF Seen, Siblings, Deleted, Level, Stored, Subtree
<1>2. CreatedBy(t) => CreatedBy(t)'
  BY <1>1 DEF CreatedBy
<1>3. DeletedBy(t) => DeletedBy(t)'
  <2>1. Numberings(view[t], Siblings(t))' = Numberings(view[t], Siblings(t))
    BY <1>1 DEF Numberings
  <2>2. \A f : NumberedBy(t, f) => NumberedBy(t, f)'
    BY <1>1 DEF NumberedBy
  <2>. QED
    BY <1>1, <2>1, <2>2 DEF DeletedBy
<1>. QED
  BY <1>1, <1>2, <1>3 DEF Settles

LEMMA SettledNext == Inv /\ Settled /\ [Next]_vars => Settled'
<1>. SUFFICES ASSUME Inv, Settled, [Next]_vars PROVE Settled'
  OBVIOUS
<1>1. Typed /\ AllRead /\ TypeOK
  BY DEF Inv, Typed
<1>2. ASSUME NEW r \in Requests, BeginAny(r) PROVE Settled'
  <2>1. \A t \in Committed :
           op'[t] = op[t] /\ chapter'[t] = chapter[t] /\ view'[t] = view[t] /\ before'[t] = before[t]
    BY <1>1, <1>2, BeginFrame DEF TypeOK, Committed
  <2>2. Committed' = Committed /\ rows' = rows /\ wrote' = wrote
    BY <1>1, <1>2, BeginFrame
  <2>. QED
    BY <2>1, <2>2, QuietSettles DEF Settled
<1>3. ASSUME NEW r \in Requests, Commit(r) PROVE Settled'
  <2>1. Committed' = Committed \cup {r}
    BY <1>1, <1>3, CommitFrame
  <2>2. Settles(r)'
    BY <1>1, <1>3, CommitSettles
  <2>3. \A t \in Committed : Settles(t)'
    BY <1>1, <1>3, OthersSettle DEF Settled
  <2>. QED
    BY <2>1, <2>2, <2>3 DEF Settled
<1>4. ASSUME NEW r \in Requests, Fail(r) PROVE Settled'
  BY <1>1, <1>4, TypedFail, QuietSettles DEF Settled, Fail
<1>5. CASE UNCHANGED vars
  <2>1. Committed' = Committed
    BY <1>5 DEF vars, Committed
  <2>. QED
    BY <1>5, <2>1, QuietSettles DEF Settled, vars
<1>. QED
  BY <1>2, <1>3, <1>4, <1>5 DEF Next

LEMMA SettledNumbers == Inv /\ Settled => NumbersClashOnlyByRace
<1>. SUFFICES ASSUME Inv, Settled, NEW c \in Stored(rows), NEW d \in Stored(rows), NEW t,
                     t = wrote[d].indice, c # d, rows[c].dad = rows[d].dad,
                     rows[c].indice = rows[d].indice, t # None, op[t] \in {"create", "delete"},
                     wrote[c].dad \in Seen(t) \cup {t}, wrote[c].indice \in Seen(t) \cup {t},
                     wrote[d].dad \in Seen(t) \cup {t}
              PROVE  FALSE
  BY DEF NumbersClashOnlyByRace, Seen
<1>1. c \in Chapters /\ d \in Chapters /\ TypeOK /\ Typed /\ AllRead
  BY DEF Stored, Inv, Typed
<1>2. t \in Committed /\ t \in Requests /\ pc[t] # "new" /\ Settles(t) /\ Read(t)
  BY <1>1 DEF Typed, Traced, Past, Committed, Settled, AllRead
<1>3. \A e \in Stored(rows) :
         /\ wrote[e].dad \in Seen(t) => e \in Stored(view[t]) /\ view[t][e].dad = rows[e].dad
         /\ wrote[e].indice \in Seen(t) => view[t][e].indice = rows[e].indice
  BY <1>2 DEF Read, Seen
<1>4. CASE op[t] = "create"
  <2>1. /\ rows[d].indice \in FirstFree(view[t], chapter[t]) /\ rows[d].dad = chapter[t]
        /\ wrote[c].dad \in Seen(t) /\ wrote[c].indice \in Seen(t)
    BY <1>2, <1>4 DEF Settles, CreatedBy
  <2>2. c \in Level(view[t], chapter[t]) /\ view[t][c].indice = rows[c].indice
    BY <1>3, <2>1 DEF Level
  <2>3. view[t] \in [Chapters -> Row \cup {Unborn, Gone}] /\ rows[c].indice \in Int
    BY <1>1, <1>2, StoredRows DEF TypeOK, Row
  <2>4. view[t][c].indice < rows[d].indice
    BY <2>1, <2>2, <2>3, FirstFreeIsNumber
  <2>. QED
    BY <2>2, <2>3, <2>4
<1>5. CASE op[t] = "delete"
  <2>1. DeletedBy(t)
    BY <1>2, <1>5 DEF Settles
  <2>2. PICK f \in Numberings(view[t], Siblings(t)) : NumberedBy(t, f)
    BY <2>1 DEF DeletedBy
  <2>3. d \in Siblings(t) /\ rows[d].indice = f[d] /\ wrote[c].dad # t /\ wrote[d].dad # t
    BY <2>2 DEF NumberedBy
  <2>4. c \in Stored(view[t]) /\ view[t][c].dad = view[t][d].dad
    BY <1>3, <2>3
  <2>5. c \notin Deleted(t)
    BY <1>1, <2>1 DEF DeletedBy, Stored
  <2>6. c \in Siblings(t)
    BY <2>3, <2>4, <2>5 DEF Siblings, Level
  <2>7. rows[c].indice = f[c]
    BY <2>2, <2>6 DEF NumberedBy
  <2>. QED
    BY <2>3, <2>6, <2>7 DEF Numberings
<1>. QED
  BY <1>4, <1>5

(* A number the server computed is that of a sibling only by a client's doing *)
(* or by a race of the requests that placed the two.                          *)
THEOREM NumbersAreApart == Spec => []NumbersClashOnlyByRace
<1>1. Init => Settled
  BY DEF Init, Settled, Committed
<1>. QED
  BY InvInit, InvNext, <1>1, SettledNext, SettledNumbers, PTL DEF Spec

(* A chapter that is gone was deleted by a request that had found it in the   *)
(* subtree, or that deleted all.                                              *)
GoneBy ==
    \A c \in Chapters : rows[c] = Gone =>
        /\ gone[c] \in Committed
        /\ (op[gone[c]] = "delete" /\ c \in Deleted(gone[c])) \/ op[gone[c]] = "delete_all"

LEMMA GoneByNext == Typed /\ GoneBy /\ [Next]_vars => GoneBy'
<1>. SUFFICES ASSUME Typed, GoneBy, [Next]_vars PROVE GoneBy'
  OBVIOUS
<1>1. ASSUME \A t \in Committed : op'[t] = op[t] /\ chapter'[t] = chapter[t] /\ view'[t] = view[t],
             NEW t \in Committed
      PROVE  Deleted(t)' = Deleted(t)
  BY <1>1 DEF Deleted, Subtree, Stored
<1>2. ASSUME NEW r \in Requests, BeginAny(r) PROVE GoneBy'
  <2>1. /\ \A t \in Committed : op'[t] = op[t] /\ chapter'[t] = chapter[t] /\ view'[t] = view[t]
        /\ Committed' = Committed /\ rows' = rows /\ gone' = gone
    BY <1>2, BeginFrame DEF Typed, TypeOK, Committed
  <2>. QED
    BY <1>1, <2>1 DEF GoneBy
<1>3. ASSUME NEW r \in Requests, Commit(r) PROVE GoneBy'
  <2>1. /\ op' = op /\ chapter' = chapter /\ view' = view /\ Committed' = Committed \cup {r}
    BY <1>3, CommitFrame DEF Typed
  <2>2. \A t \in Requests : Deleted(t)' = Deleted(t)
    BY <2>1 DEF Deleted, Subtree, Stored
  <2>3. SUFFICES ASSUME NEW c \in Chapters, rows'[c] = Gone
                 PROVE  /\ gone'[c] \in Committed \cup {r}
                        /\ \/ op[gone'[c]] = "delete" /\ c \in Deleted(gone'[c])
                           \/ op[gone'[c]] = "delete_all"
    BY <2>1, <2>2 DEF GoneBy, Committed
  <2>. QED
    BY <1>3, <2>3, GoneStep DEF GoneBy
<1>4. ASSUME NEW r \in Requests, Fail(r) PROVE GoneBy'
  BY <1>1, <1>4, TypedFail DEF GoneBy, Fail
<1>5. CASE UNCHANGED vars
  BY <1>1, <1>5 DEF GoneBy, vars, Committed
<1>. QED
  BY <1>2, <1>3, <1>4, <1>5 DEF Next

LEMMA SettledOrphans == Inv /\ Settled /\ GoneBy => OrphansOnlyByRace
<1>. SUFFICES ASSUME Inv, Settled, GoneBy, NEW c \in Stored(rows), NEW dad \in Chapters,
                     dad = rows[c].dad, rows[dad] = Gone
              PROVE  gone[dad] # None /\ wrote[c].dad \notin Seen(gone[dad])
  BY DEF OrphansOnlyByRace, Seen
<1>. DEFINE t == gone[dad]
<1>1. t \in Committed /\ t \in Requests /\ t # None /\ pc[t] # "new" /\ Settles(t)
  BY OutlineAssumption DEF GoneBy, Committed, Settled
<1>2. CASE op[t] = "delete_all"
  BY <1>1, <1>2 DEF Settles
<1>3. CASE op[t] = "delete" /\ dad \in Deleted(t)
  <2>1. ASSUME wrote[c].dad \in Seen(t) PROVE FALSE
    <3>1. c \in Stored(view[t]) /\ view[t][c].dad = dad
      BY <1>1, <2>1 DEF Inv, AllRead, Read, Seen
    <3>2. c \in Deleted(t)
      BY <1>3, <3>1 DEF Deleted, Subtree, Stored
    <3>3. rows[c] = Gone
      BY <1>1, <1>3, <3>2 DEF Settles, DeletedBy, Stored
    <3>. QED
      BY <3>3 DEF Stored
  <2>. QED
    BY <1>1, <2>1
<1>. QED
  BY <1>2, <1>3 DEF GoneBy

(* However requests overlap, a deletion takes with it every chapter it could  *)
(* see under the one it deletes.                                              *)
THEOREM OrphansAreRaces == Spec => []OrphansOnlyByRace
<1>1. Init => Settled /\ GoneBy
  BY OutlineAssumption DEF Init, Settled, Committed, GoneBy
<1>2. Typed /\ GoneBy /\ [Next]_vars => GoneBy'
  BY GoneByNext
<1>3. Inv => Typed
  BY DEF Inv
<1>. QED
  BY InvInit, InvNext, <1>1, <1>2, <1>3, SettledNext, SettledOrphans, PTL DEF Spec

=============================================================================

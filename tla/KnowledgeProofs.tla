-------------------------- MODULE KnowledgeProofs --------------------------
(***************************************************************************)
(* Proofs about module Knowledge, for any sets of chapters, texts and      *)
(* requests and any initial library, with or without failures.  Whether    *)
(* requests overlap or not, KnowledgeInv is inductive: types, what each    *)
(* step has in hand (LocalOK), and who may store or remove a file          *)
(* (PdfInv).  When no two requests work on one chapter, so is ApartInv:    *)
(* which chapters each request has to itself, and how far it is with their *)
(* vectors.                                                                *)
(***************************************************************************)
EXTENDS Knowledge, TLAPS

ChapterSteps == {"refresh", "write", "delete", "forget", "unlink", "clear",
                 "text", "pdf", "stamp"}

(* What a request has in hand at each of its steps. *)
LocalOK ==
    \A r \in Requests :
        /\ queue[r] \subseteq Stored(view[r])
        /\ pc[r] \in ChapterSteps => chapter[r] \in queue[r]
        /\ pc[r] \in {"delete", "forget"} => op[r] = "delete"
        /\ pc[r] \in {"insert", "write"} => op[r] # "delete"
        /\ pc[r] = "empty" => op[r] \in WholeBot
        /\ pc[r] \in {"wipe", "rmtree"} => op[r] = "delete_all"
        /\ pc[r] \in {"idle", "upload"} => pdf[r] = None
        /\ pc[r] = "upload" => op[r] \in {"create", "update"}
        /\ pc[r] = "upload" /\ op[r] # "create" => chapter[r] \in queue[r]
        /\ pc[r] = "insert" => op[r] = "create" \/ pdf[r] = None

Typed == TypeOK /\ LocalOK

\* The steps of q before it commits the row that has its upload.
NotYetWritten == {"idle", "upload", "insert", "write"}

(* A path is in one row, and in what sessions hold of that row; the upload *)
(* of a request is nobody else's until its row is written; what is about   *)
(* to be removed is in no row.                                             *)
OneRow ==
    \A c, d \in Stored(rows) :
        rows[c].pdf # None /\ rows[c].pdf = rows[d].pdf => c = d
OneView ==
    \A r \in Requests : \A c \in Stored(rows), d \in Stored(view[r]) :
        rows[c].pdf # None /\ rows[c].pdf = view[r][d].pdf => c = d
FreshUpload ==
    \A q \in Requests : pc[q] \in NotYetWritten =>
        /\ \A c \in Stored(rows) : rows[c].pdf # q
        /\ \A r \in Requests : \A d \in Stored(view[r]) : view[r][d].pdf # q
        /\ \A s \in Requests \ {q} : pdf[s] # q
Uploaded ==
    \A q \in Requests : pc[q] \in {"insert", "write"} =>
        pdf[q] = None \/ (pdf[q] = q /\ q \in files)
Removing ==
    \A r \in Requests : pc[r] = "unlink" /\ pdf[r] # None =>
        \A c \in Stored(rows) : rows[c].pdf # pdf[r]
Deleted ==
    \A r \in Requests :
        pc[r] = "forget" \/ (pc[r] = "unlink" /\ op[r] = "delete") =>
            \A d \in queue[r] : rows[d] = Gone

PdfInv ==
    /\ PdfStored
    /\ OneRow
    /\ OneView
    /\ FreshUpload
    /\ Uploaded
    /\ Removing
    /\ Deleted

KnowledgeInv == Typed /\ PdfInv


-----------------------------------------------------------------------------
(* Types *)

LEMMA StoredRow ==
    ASSUME NEW table \in [Chapters -> Row \cup {Unborn, Gone}], NEW c \in Stored(table)
    PROVE  c \in Chapters /\ table[c] \in Row
BY DEF Stored

LEMMA RowFields ==
    ASSUME NEW row \in Row
    PROVE  /\ row.dad \in Chapters \cup {Root}
           /\ row.text \in Texts
           /\ row.pdf \in Pdfs \cup {None}
           /\ row.synced \in BOOLEAN
BY DEF Row

LEMMA EntriesType ==
    ASSUME NEW r \in Requests \cup {None}, NEW c \in Chapters,
           NEW contents \in SUBSET (Texts \cup Pdfs)
    PROVE  Entries(r, c, contents) \in SUBSET Vector
BY DEF Entries, Vector

(* Typed, step by step: what is stored and what requests have in hand. *)
LEMMA TypedInit ==
    ASSUME Init
    PROVE  Typed
<1> USE KnowledgeAssumption
<1>1. \A c \in Stored(Library) : c \in Chapters /\ Library[c] \in Row
    BY DEF Stored
<1>2. \A c \in Stored(Library) :
         Entries(None, c, Contents(Library[c])) \in SUBSET Vector
    <2> SUFFICES ASSUME NEW c \in Stored(Library)
                 PROVE  Entries(None, c, Contents(Library[c])) \in SUBSET Vector
        OBVIOUS
    <2>1. Contents(Library[c]) \in SUBSET (Texts \cup Pdfs)
        BY <1>1, RowFields DEF Contents
    <2> QED BY <1>1, <2>1, EntriesType
<1>3. vectors \in SUBSET Vector
    BY <1>2 DEF Init
<1>4. files \in SUBSET Pdfs
    <2>1. \A c \in Stored(Library) : Library[c].pdf \in Pdfs \cup {None}
        BY <1>1, RowFields
    <2> QED BY <2>1 DEF Init
<1>5. TypeOK
    BY <1>3, <1>4 DEF Init, TypeOK, NoRows, Steps, Ended
<1>6. LocalOK
    BY DEF Init, LocalOK, ChapterSteps, NoRows, Stored
<1> QED BY <1>5, <1>6 DEF Typed

(* Ending a request keeps the types of what it had in hand. *)
LEMMA TypedClose ==
    ASSUME Typed, NEW r \in Requests, NEW outcome \in {"done", "failed"},
           Close(r, outcome), op' = op,
           rows' \in [Chapters -> Row \cup {Unborn, Gone}],
           vectors' \in SUBSET Vector, files' \in SUBSET Pdfs
    PROVE  Typed'
<1>1. TypeOK'
    BY DEF Typed, TypeOK, Close, NoRows, Steps, Ended
<1>2. LocalOK'
    BY DEF Typed, TypeOK, LocalOK, Close, ChapterSteps
<1> QED BY <1>1, <1>2 DEF Typed

(* Going on with the next chapter of a loop, too. *)
LEMMA TypedProceed ==
    ASSUME Typed, NEW r \in Requests, NEW rest \in SUBSET queue[r],
           NEW step \in {"forget", "text"}, Proceed(r, rest, step), op' = op,
           step = "forget" => op[r] = "delete",
           rows' \in [Chapters -> Row \cup {Unborn, Gone}],
           vectors' \in SUBSET Vector, files' \in SUBSET Pdfs
    PROVE  Typed'
<1>1. CASE Close(r, "done")
    BY <1>1, TypedClose
<1>2. CASE ~Close(r, "done")
    <2>1. PICK c \in rest : chapter' = [chapter EXCEPT ![r] = c]
        BY <1>2 DEF Proceed
    <2>2. /\ pc' = [pc EXCEPT ![r] = step]
          /\ queue' = [queue EXCEPT ![r] = rest]
          /\ pdf' = [pdf EXCEPT ![r] = None]
          /\ UNCHANGED view
        BY <1>2 DEF Proceed
    <2>3. TypeOK'
        BY <2>1, <2>2 DEF Typed, TypeOK, Steps
    <2>4. LocalOK'
        BY <2>1, <2>2 DEF Typed, TypeOK, LocalOK, ChapterSteps
    <2> QED BY <2>3, <2>4 DEF Typed
<1> QED BY <1>1, <1>2

(* The chapters deleted with c are stored. *)
LEMMA SubtreeStored ==
    ASSUME NEW table \in [Chapters -> Row \cup {Unborn, Gone}], NEW c \in Stored(table)
    PROVE  Subtree(table, c) \subseteq Stored(table) /\ c \in Subtree(table, c)
<1>1. Stored(table) \in SUBSET Chapters
    BY DEF Stored
<1>2. c \in Chapters
    BY <1>1
<1> QED BY <1>1, <1>2 DEF Subtree

LEMMA TypedBegin ==
    ASSUME Typed, NEW r \in Requests, NEW o \in AllOps,
           NEW S \in SUBSET Stored(rows), NEW c \in Chapters \cup {None},
           NEW step \in {"upload", "insert", "write", "delete", "empty"},
           Begin(r, o, S, c, step),
           step \in {"write", "delete"} \/ o = "update" => c \in S,
           step = "delete" <=> o = "delete",
           step = "empty" => o \in WholeBot,
           step = "upload" => o \in {"create", "update"}
    PROVE  Typed'
<1>1. TypeOK'
    BY DEF Typed, TypeOK, Begin, stores, Steps, Stored
<1>2. LocalOK'
    BY DEF Typed, TypeOK, LocalOK, Begin, stores, ChapterSteps, Stored
<1> QED BY <1>1, <1>2 DEF Typed

LEMMA TypedBeginAny ==
    ASSUME Typed, NEW r \in Requests, BeginAny(r)
    PROVE  Typed'
<1>0. rows \in [Chapters -> Row \cup {Unborn, Gone}] /\ Stored(rows) \in SUBSET Chapters
    BY DEF Typed, TypeOK, Stored
<1>1. CASE BeginCreate(r)
    BY <1>1, TypedBegin DEF BeginCreate, AllOps
<1>2. CASE BeginUpdate(r)
    <2>1. PICK c \in Stored(rows), step \in {"upload", "write"} :
            Begin(r, "update", {c}, c, step)
        BY <1>2 DEF BeginUpdate
    <2> QED BY <1>0, <2>1, TypedBegin DEF AllOps
<1>3. CASE BeginDelete(r)
    <2>1. PICK c \in Stored(rows) : Begin(r, "delete", Subtree(rows, c), c, "delete")
        BY <1>3 DEF BeginDelete
    <2>2. Subtree(rows, c) \in SUBSET Stored(rows) /\ c \in Subtree(rows, c)
        BY <1>0, SubtreeStored
    <2> QED BY <1>0, <2>1, <2>2, TypedBegin DEF AllOps
<1>4. CASE BeginImport(r) \/ BeginTemplate(r)
    BY <1>4, TypedBegin DEF BeginImport, BeginTemplate, AllOps
<1>5. CASE BeginReindex(r) \/ BeginDeleteAll(r)
    BY <1>5, TypedBegin DEF BeginReindex, BeginDeleteAll, AllOps, WholeBot
<1> QED BY <1>1, <1>2, <1>3, <1>4, <1>5 DEF BeginAny

(* What the INSERTs and UPDATEs leave in the table is well formed. *)
LEMMA TypedInsert ==
    ASSUME Typed, NEW r \in Requests, NEW S \in SUBSET Chapters, InsertRows(r, S)
    PROVE  /\ rows' \in [Chapters -> Row \cup {Unborn, Gone}]
           /\ \A c \in S : /\ rows'[c] \in Row /\ rows'[c].pdf = pdf[r]
                           /\ ~rows'[c].synced
           /\ \A c \in Chapters \ S : rows'[c] = rows[c]
           /\ S \subseteq Stored(rows')
           /\ vectors' \in SUBSET Vector /\ files' \in SUBSET Pdfs /\ op' = op
<1> USE KnowledgeAssumption
<1>1. PICK text \in [S -> Texts], dad \in Stored(view[r]) \cup {Root} :
        rows' = [c \in Chapters |->
                   IF c \in S THEN [dad |-> dad, text |-> text[c],
                                    pdf |-> pdf[r], synced |-> FALSE]
                   ELSE rows[c]]
    BY DEF InsertRows
<1>2. dad \in Chapters \cup {Root} /\ pdf[r] \in Pdfs \cup {None}
    BY DEF Typed, TypeOK, Stored
<1>3. \A c \in S : [dad |-> dad, text |-> text[c], pdf |-> pdf[r], synced |-> FALSE] \in Row
    BY <1>2 DEF Row
<1>4. \A c \in Chapters : rows[c] \in Row \cup {Unborn, Gone}
    BY DEF Typed, TypeOK
<1>5. rows' \in [Chapters -> Row \cup {Unborn, Gone}]
    BY <1>1, <1>3, <1>4
<1>6. \A c \in S : /\ rows'[c] \in Row /\ rows'[c].pdf = pdf[r]
                   /\ ~rows'[c].synced
    BY <1>1, <1>3
<1>7. S \subseteq Stored(rows')
    BY <1>6 DEF Stored
<1> QED BY <1>1, <1>5, <1>6, <1>7 DEF InsertRows, Typed, TypeOK

LEMMA TypedKeep ==
    ASSUME Typed, NEW r \in Requests, NEW S \in SUBSET Chapters, NEW c \in S,
           NEW step \in {"refresh", "text"},
           InsertRows(r, S), KeepInserted(r, S, c, step)
    PROVE  Typed'
<1>1. /\ rows' \in [Chapters -> Row \cup {Unborn, Gone}]
      /\ \A d \in S : rows'[d] \in Row
      /\ vectors' \in SUBSET Vector /\ files' \in SUBSET Pdfs /\ op' = op
    BY TypedInsert
<1>2. view[r] \in [Chapters -> Row \cup {Unborn, Gone}]
    BY DEF Typed, TypeOK
<1>3. [d \in Chapters |-> IF d \in S THEN rows'[d] ELSE view[r][d]]
        \in [Chapters -> Row \cup {Unborn, Gone}]
    BY <1>1, <1>2
<1>4. TypeOK'
    BY <1>1, <1>3 DEF Typed, TypeOK, KeepInserted, Steps
<1>5. S \subseteq Stored(view'[r])
    BY <1>1, KnowledgeAssumption DEF Typed, TypeOK, KeepInserted, Stored
<1>6. LocalOK'
    BY <1>1, <1>5 DEF Typed, TypeOK, LocalOK, KeepInserted, ChapterSteps
<1> QED BY <1>4, <1>6 DEF Typed

LEMMA TypedSavePdf ==
    ASSUME Typed, NEW r \in Requests, SavePdf(r)
    PROVE  Typed'
<1>1. CASE Close(r, "done") /\ UNCHANGED files
    BY <1>1, TypedClose DEF SavePdf, Typed, TypeOK
<1>2. CASE ~(Close(r, "done") /\ UNCHANGED files)
    <2>1. /\ files' = files \cup {r}
          /\ pdf' = [pdf EXCEPT ![r] = r]
          /\ pc' = [pc EXCEPT ![r] = IF op[r] = "create" THEN "insert" ELSE "write"]
          /\ UNCHANGED <<rows, vectors, op, view, queue, chapter>>
        BY <1>2 DEF SavePdf
    <2>2. TypeOK'
        BY <2>1 DEF Typed, TypeOK, Pdfs, Steps
    <2>3. pc[r] = "upload"
        BY DEF SavePdf
    <2>4. LocalOK'
        BY <2>1, <2>3 DEF Typed, TypeOK, LocalOK, ChapterSteps
    <2> QED BY <2>2, <2>4 DEF Typed
<1> QED BY <1>1, <1>2

LEMMA TypedInserting ==
    ASSUME Typed, NEW r \in Requests,
           \/ CreateKnowledge(r)
           \/ SaveImportedKnowledges(r)
           \/ SaveKnowledgesDto(r)
    PROVE  Typed'
<1>1. CASE CreateKnowledge(r)
    <2>1. PICK c \in Chapters : InsertRows(r, {c}) /\ KeepInserted(r, {c}, c, "refresh")
        BY <1>1 DEF CreateKnowledge
    <2> QED BY <2>1, TypedKeep
<1>2. CASE SaveImportedKnowledges(r)
    <2>1. PICK S \in SUBSET Chapters, c \in Chapters :
            c \in S /\ InsertRows(r, S) /\ KeepInserted(r, S, c, "text")
        BY <1>2 DEF SaveImportedKnowledges
    <2> QED BY <2>1, TypedKeep
<1>3. CASE SaveKnowledgesDto(r)
    <2>1. PICK S \in SUBSET Chapters : InsertRows(r, S) /\ Close(r, "done")
        BY <1>3 DEF SaveKnowledgesDto
    <2> QED BY <2>1, TypedInsert, TypedClose
<1> QED BY <1>1, <1>2, <1>3

LEMMA TypedRefresh ==
    ASSUME Typed, NEW r \in Requests, Refresh(r)
    PROVE  Typed'
<1> DEFINE c == chapter[r]
<1>1. c \in Stored(rows) /\ c \in Chapters /\ rows[c] \in Row
    BY StoredRow DEF Refresh, Typed, TypeOK
<1>2. /\ view'[r] = [view[r] EXCEPT ![c] = rows[c]]
      /\ \A q \in Requests \ {r} : view'[q] = view[q]
    BY DEF Refresh, Typed, TypeOK
<1>3. view' \in [Requests -> [Chapters -> Row \cup {Unborn, Gone}]]
    BY <1>1 DEF Refresh, Typed, TypeOK
<1>4. TypeOK'
    BY <1>3 DEF Refresh, Typed, TypeOK, stores, Steps
<1>5. Stored(view[r]) \subseteq Stored(view'[r])
    BY <1>1, <1>2, KnowledgeAssumption DEF Stored, Typed, TypeOK
<1>6. LocalOK'
    BY <1>2, <1>5 DEF Refresh, Typed, TypeOK, LocalOK, ChapterSteps, stores
<1> QED BY <1>4, <1>6 DEF Typed

(* What an update writes, in the table and in its session, as facts about  *)
(* the path: it is the upload, the one read or none; in the table only a   *)
(* path that changed is written.                                           *)
LEMMA WriteFacts ==
    ASSUME Typed, NEW r \in Requests, WriteRow(r)
    PROVE  \E c \in Stored(rows) \cap Stored(view[r]), path \in Pdfs \cup {None},
              new \in Row, held \in Row :
             /\ c = chapter[r]
             /\ path \in IF pdf[r] # None THEN {pdf[r]} ELSE {view[r][c].pdf, None}
             /\ held.pdf = path
             /\ new.pdf = IF path # view[r][c].pdf THEN path ELSE rows[c].pdf
             /\ ~new.synced
             /\ rows[c] = view[r][c] => held = new
             /\ rows' = [rows EXCEPT ![c] = new]
             /\ view' = [view EXCEPT ![r] = [view[r] EXCEPT ![c] = held]]
             /\ pdf' = [pdf EXCEPT ![r] =
                          IF path # view[r][c].pdf THEN view[r][c].pdf ELSE None]
             /\ pc' = [pc EXCEPT ![r] =
                          IF path # view[r][c].pdf THEN "unlink" ELSE "clear"]
<1> DEFINE c == chapter[r]
           read == view[r][c]
           Column(old, new, stored) == IF new # old THEN new ELSE stored
<1>1. c \in Stored(rows) /\ c \in Stored(view[r])
    BY DEF WriteRow, Typed, LocalOK, ChapterSteps
<1>2. rows[c] \in Row /\ read \in Row
    BY <1>1, StoredRow DEF Typed, TypeOK
<1>3. PICK text \in Texts, dad \in {read.dad, Root},
           path \in IF pdf[r] # None THEN {pdf[r]} ELSE {read.pdf, None} :
        /\ rows' = [rows EXCEPT ![c] =
                      [dad |-> Column(read.dad, dad, rows[c].dad),
                       text |-> Column(read.text, text, rows[c].text),
                       pdf |-> Column(read.pdf, path, rows[c].pdf),
                       synced |-> FALSE]]
        /\ view' = [view EXCEPT ![r][c] =
                      [dad |-> dad, text |-> text, pdf |-> path, synced |-> FALSE]]
        /\ pdf' = [pdf EXCEPT ![r] = IF path # read.pdf THEN read.pdf ELSE None]
        /\ pc' = [pc EXCEPT ![r] = IF path # read.pdf THEN "unlink" ELSE "clear"]
    BY DEF WriteRow
<1>4. path \in Pdfs \cup {None}
    BY <1>2, <1>3, RowFields DEF Typed, TypeOK
<1>5. dad \in Chapters \cup {Root}
    BY <1>2, <1>3, RowFields
<1> DEFINE new == [dad |-> Column(read.dad, dad, rows[c].dad),
                   text |-> Column(read.text, text, rows[c].text),
                   pdf |-> Column(read.pdf, path, rows[c].pdf),
                   synced |-> FALSE]
           held == [dad |-> dad, text |-> text, pdf |-> path, synced |-> FALSE]
<1>6. new \in Row
    BY <1>2, <1>4, <1>5, RowFields DEF Row
<1>7. held \in Row
    BY <1>4, <1>5 DEF Row
<1>8. view' = [view EXCEPT ![r] = [view[r] EXCEPT ![c] = held]]
    BY <1>3
<1>9. /\ held.pdf = path
      /\ new.pdf = IF path # read.pdf THEN path ELSE rows[c].pdf
      /\ ~new.synced
      /\ rows[c] = read => held = new
      /\ rows' = [rows EXCEPT ![c] = new]
    BY <1>3
<1> HIDE DEF new, held
<1>10. /\ path \in IF pdf[r] # None THEN {pdf[r]} ELSE {view[r][c].pdf, None}
       /\ pdf' = [pdf EXCEPT ![r] = IF path # view[r][c].pdf THEN view[r][c].pdf ELSE None]
       /\ pc' = [pc EXCEPT ![r] = IF path # view[r][c].pdf THEN "unlink" ELSE "clear"]
    BY <1>3
<1> QED BY <1>1, <1>4, <1>6, <1>7, <1>8, <1>9, <1>10

LEMMA TypedWriteRow ==
    ASSUME Typed, NEW r \in Requests, WriteRow(r)
    PROVE  Typed'
<1>1. PICK c \in Stored(rows) \cap Stored(view[r]), path \in Pdfs \cup {None},
           new \in Row, held \in Row :
        /\ c = chapter[r]
        /\ rows' = [rows EXCEPT ![c] = new]
        /\ view' = [view EXCEPT ![r] = [view[r] EXCEPT ![c] = held]]
        /\ pdf' = [pdf EXCEPT ![r] =
                     IF path # view[r][c].pdf THEN view[r][c].pdf ELSE None]
        /\ pc' = [pc EXCEPT ![r] = IF path # view[r][c].pdf THEN "unlink" ELSE "clear"]
    BY WriteFacts
<1>2. view[r][c].pdf \in Pdfs \cup {None} /\ c \in Chapters
    BY StoredRow, RowFields DEF Typed, TypeOK
<1>3. rows' \in [Chapters -> Row \cup {Unborn, Gone}]
    BY <1>1, <1>2 DEF Typed, TypeOK
<1>4. view' \in [Requests -> [Chapters -> Row \cup {Unborn, Gone}]]
    BY <1>1, <1>2 DEF Typed, TypeOK
<1>5. TypeOK'
    BY <1>1, <1>2, <1>3, <1>4 DEF WriteRow, Typed, TypeOK, Steps
<1>6. Stored(view[r]) \subseteq Stored(view'[r])
    BY <1>1, <1>2, KnowledgeAssumption DEF Stored, Typed, TypeOK
<1>7. LocalOK'
    BY <1>1, <1>6 DEF WriteRow, Typed, TypeOK, LocalOK, ChapterSteps
<1> QED BY <1>5, <1>7 DEF Typed

LEMMA TypedDeleting ==
    ASSUME Typed, NEW r \in Requests, DeleteRows(r) \/ WipeRows(r)
    PROVE  Typed'
<1>1. TypeOK'
    BY DEF DeleteRows, WipeRows, Typed, TypeOK, Steps
<1>2. LocalOK'
    BY DEF DeleteRows, WipeRows, Typed, TypeOK, LocalOK, ChapterSteps
<1> QED BY <1>1, <1>2 DEF Typed

LEMMA TypedForget ==
    ASSUME Typed, NEW r \in Requests, ForgetChapter(r)
    PROVE  Typed'
<1>1. chapter[r] \in Stored(view[r])
    BY DEF ForgetChapter, Typed, LocalOK, ChapterSteps
<1>2. view[r][chapter[r]].pdf \in Pdfs \cup {None}
    BY <1>1, StoredRow, RowFields DEF Typed, TypeOK
<1>3. TypeOK'
    BY <1>2 DEF ForgetChapter, RemoveVectors, Typed, TypeOK, Steps
<1>4. LocalOK'
    BY DEF ForgetChapter, Typed, TypeOK, LocalOK, ChapterSteps
<1> QED BY <1>3, <1>4 DEF Typed

LEMMA TypedRemovePdf ==
    ASSUME Typed, NEW r \in Requests, RemovePdf(r)
    PROVE  Typed'
<1>1. /\ rows' \in [Chapters -> Row \cup {Unborn, Gone}]
      /\ vectors' \in SUBSET Vector /\ files' \in SUBSET Pdfs /\ op' = op
    BY DEF RemovePdf, Typed, TypeOK
<1>2. CASE op[r] = "delete"
    <2>1. queue[r] \ {chapter[r]} \in SUBSET queue[r]
        OBVIOUS
    <2> QED BY <1>1, <1>2, <2>1, TypedProceed DEF RemovePdf
<1>3. CASE op[r] # "delete"
    <2>1. TypeOK'
        BY <1>1, <1>3 DEF RemovePdf, Typed, TypeOK, Steps
    <2>2. LocalOK'
        BY <1>3 DEF RemovePdf, Typed, TypeOK, LocalOK, ChapterSteps
    <2> QED BY <2>1, <2>2 DEF Typed
<1> QED BY <1>2, <1>3

LEMMA TypedEmpty ==
    ASSUME Typed, NEW r \in Requests, EmptyCollection(r)
    PROVE  Typed'
<1>1. /\ rows' \in [Chapters -> Row \cup {Unborn, Gone}]
      /\ vectors' \in SUBSET Vector /\ files' \in SUBSET Pdfs /\ op' = op
    BY DEF EmptyCollection, Typed, TypeOK
<1>2. CASE op[r] = "reindex"
    BY <1>1, <1>2, TypedProceed DEF EmptyCollection
<1>3. CASE op[r] # "reindex"
    <2>1. op[r] = "delete_all"
        BY <1>3 DEF EmptyCollection, Typed, LocalOK, WholeBot
    <2>2. TypeOK'
        BY <1>1, <1>3 DEF EmptyCollection, Typed, TypeOK, Steps
    <2>3. LocalOK'
        BY <1>3, <2>1 DEF EmptyCollection, Typed, TypeOK, LocalOK, ChapterSteps
    <2> QED BY <2>2, <2>3 DEF Typed
<1> QED BY <1>2, <1>3

LEMMA TypedIngest ==
    ASSUME Typed, NEW r \in Requests,
           \/ ClearVectors(r)
           \/ IngestText(r)
           \/ IngestPdf(r)
    PROVE  Typed'
<1> DEFINE c == chapter[r]
<1>1. c \in Stored(view[r])
    BY DEF ClearVectors, IngestText, IngestPdf, Typed, LocalOK, ChapterSteps
<1>2. c \in Chapters /\ view[r][c] \in Row
    BY <1>1, StoredRow DEF Typed, TypeOK
<1>3. vectors' \in SUBSET Vector
    <2>1. CASE ClearVectors(r)
        BY <2>1 DEF ClearVectors, RemoveVectors, Typed, TypeOK
    <2>2. CASE IngestText(r)
        <3>1. {view[r][c].text} \ {Empty} \in SUBSET (Texts \cup Pdfs)
            BY <1>2, RowFields
        <3> QED BY <1>2, <2>2, <3>1, EntriesType DEF IngestText, Typed, TypeOK
    <2>3. CASE IngestPdf(r)
        <3>1. {view[r][c].pdf} \in SUBSET (Texts \cup Pdfs)
            BY <2>3 DEF IngestPdf, Typed, TypeOK
        <3> QED BY <1>2, <2>3, <3>1, EntriesType DEF IngestPdf, Typed, TypeOK
    <2> QED BY <2>1, <2>2, <2>3
<1>4. TypeOK'
    BY <1>3 DEF ClearVectors, IngestText, IngestPdf, Typed, TypeOK, Steps
<1>5. LocalOK'
    BY DEF ClearVectors, IngestText, IngestPdf, Typed, TypeOK, LocalOK, ChapterSteps
<1> QED BY <1>4, <1>5 DEF Typed

(* The stamp changes nothing else of the row. *)
LEMMA StampFacts ==
    ASSUME Typed, NEW r \in Requests, StampSynced(r)
    PROVE  /\ rows' \in [Chapters -> Row \cup {Unborn, Gone}]
           /\ Stored(rows') = Stored(rows)
           /\ \A d \in Stored(rows) : rows'[d].pdf = rows[d].pdf
           /\ \A d \in Chapters \ Stored(rows) : rows'[d] = rows[d]
<1> DEFINE c == chapter[r]
           new == [rows[c] EXCEPT !.synced = TRUE]
<1>1. c \in Stored(rows) /\ c \in Chapters /\ rows[c] \in Row
    BY StoredRow DEF StampSynced, Typed, TypeOK
<1>2. new \in Row /\ new.pdf = rows[c].pdf
    BY <1>1 DEF Row
<1>3. rows' = [rows EXCEPT ![c] = new]
    BY DEF StampSynced
<1>4. rows' \in [Chapters -> Row \cup {Unborn, Gone}]
    BY <1>1, <1>2, <1>3 DEF Typed, TypeOK
<1>5. rows'[c] = new /\ \A d \in Chapters \ {c} : rows'[d] = rows[d]
    BY <1>1, <1>3 DEF Typed, TypeOK
<1>6. new \notin {Unborn, Gone}
    BY <1>2, KnowledgeAssumption
<1>7. Stored(rows') = Stored(rows)
    BY <1>1, <1>5, <1>6 DEF Stored
<1>8. \A d \in Stored(rows) : rows'[d].pdf = rows[d].pdf
    BY <1>2, <1>5 DEF Stored
<1>9. \A d \in Chapters \ Stored(rows) : rows'[d] = rows[d]
    BY <1>1, <1>5
<1> QED BY <1>4, <1>7, <1>8, <1>9

LEMMA TypedStamp ==
    ASSUME Typed, NEW r \in Requests, StampSynced(r)
    PROVE  Typed'
<1>1. rows' \in [Chapters -> Row \cup {Unborn, Gone}]
    BY StampFacts
<1>2. queue[r] \ {chapter[r]} \in SUBSET queue[r]
    OBVIOUS
<1> QED BY <1>1, <1>2, TypedProceed DEF StampSynced, Typed, TypeOK

LEMMA TypedStep ==
    ASSUME Typed, [Next]_vars
    PROVE  Typed'
<1>1. CASE UNCHANGED vars
    BY <1>1 DEF vars, stores, locals, Typed, TypeOK, LocalOK
<1>2. ASSUME NEW r \in Requests, RemoveFolder(r) \/ Fail(r)
      PROVE  Typed'
    BY <1>2, TypedClose DEF RemoveFolder, Fail, stores, Typed, TypeOK
<1> QED BY <1>1, <1>2, TypedBeginAny, TypedSavePdf, TypedInserting, TypedRefresh,
           TypedWriteRow, TypedDeleting, TypedForget, TypedRemovePdf, TypedEmpty,
           TypedIngest, TypedStamp DEF Next

(* The types of the rows, vectors and files and of what requests have in   *)
(* hand, in every reachable state.                                         *)
THEOREM KnowledgeTypes == Spec => []TypeOK
<1>1. Init => Typed
    BY TypedInit
<1>2. Typed /\ [Next]_vars => Typed'
    BY TypedStep
<1>3. Typed => TypeOK
    BY DEF Typed
<1> QED BY <1>1, <1>2, <1>3, PTL DEF Spec

-----------------------------------------------------------------------------
(* The files of stored chapters *)

(* PdfInv, step by step. *)
LEMMA PdfInit ==
    ASSUME Init
    PROVE  PdfInv
<1> USE KnowledgeAssumption
<1>1. \A c \in Stored(rows) : c \in Chapters /\ rows[c].pdf \in {c, None}
    BY DEF Init, Stored
<1>2. \A r \in Requests : view[r] = NoRows /\ Stored(view[r]) = {} /\ pdf[r] = None
    BY DEF Init, NoRows, Stored
<1>3. PdfStored
    BY <1>1 DEF Init, PdfStored
<1>4. OneRow
    BY <1>1 DEF OneRow
<1>5. OneView
    BY <1>2 DEF OneView
<1>6. FreshUpload
    BY <1>1, <1>2 DEF FreshUpload, Pdfs
<1>7. Uploaded /\ Removing /\ Deleted
    BY DEF Init, Uploaded, Removing, Deleted
<1> QED BY <1>3, <1>4, <1>5, <1>6, <1>7 DEF PdfInv

(* A step of r that writes no path anywhere and is not about to remove one. *)
LEMMA PdfKept ==
    ASSUME Typed, PdfInv, NEW r \in Requests,
           Stored(rows') = Stored(rows),
           \A c \in Stored(rows) : rows'[c].pdf = rows[c].pdf,
           \A c \in Chapters \ Stored(rows) : rows'[c] = rows[c],
           files' = files, op' = op,
           \A q \in Requests : \A d \in Stored(view'[q]) :
               d \in Stored(view[q]) /\ view'[q][d].pdf = view[q][d].pdf,
           \A q \in Requests \ {r} :
               pc'[q] = pc[q] /\ pdf'[q] = pdf[q] /\ queue'[q] = queue[q],
           pc'[r] \notin NotYetWritten \cup {"forget", "unlink"},
           pdf'[r] \in {pdf[r], None}
    PROVE  PdfInv'
<1> USE KnowledgeAssumption
<1>1. PdfStored' /\ OneRow'
    BY DEF PdfInv, PdfStored, OneRow
<1>2. OneView'
    BY DEF PdfInv, OneView
<1>3. FreshUpload'
    BY DEF PdfInv, FreshUpload, NotYetWritten, Pdfs
<1>4. Uploaded'
    BY DEF PdfInv, Uploaded, NotYetWritten
<1>5. Removing'
    BY DEF PdfInv, Removing
<1>6. Deleted'
    <2>1. \A d \in Chapters : rows[d] = Gone => rows'[d] = Gone
        BY DEF Stored
    <2> QED BY <2>1 DEF PdfInv, Deleted, Typed, TypeOK
<1> QED BY <1>1, <1>2, <1>3, <1>4, <1>5, <1>6 DEF PdfInv

LEMMA PdfClose ==
    ASSUME Typed, PdfInv, NEW r \in Requests, NEW outcome \in {"done", "failed"},
           Close(r, outcome), rows' = rows, files' = files, op' = op
    PROVE  PdfInv'
<1>1. \A q \in Requests : view'[q] = view[q] \/ Stored(view'[q]) = {}
    BY DEF Close, NoRows, Stored, Typed, TypeOK
<1>2. \A q \in Requests \ {r} :
         pc'[q] = pc[q] /\ pdf'[q] = pdf[q] /\ queue'[q] = queue[q]
    BY DEF Close, Typed, TypeOK
<1>3. pc'[r] \notin NotYetWritten \cup {"forget", "unlink"} /\ pdf'[r] = None
    BY DEF Close, NotYetWritten, Typed, TypeOK
<1>4. \A q \in Requests : \A d \in Stored(view'[q]) :
         d \in Stored(view[q]) /\ view'[q][d].pdf = view[q][d].pdf
    BY <1>1
<1> QED BY <1>2, <1>3, <1>4, PdfKept

LEMMA PdfBegin ==
    ASSUME Typed, PdfInv, NEW r \in Requests, BeginAny(r)
    PROVE  PdfInv'
<1>1. PICK o, S, c, step :
        /\ step \in {"upload", "insert", "write", "delete", "empty"}
        /\ Begin(r, o, S, c, step)
    BY DEF BeginAny, BeginCreate, BeginUpdate, BeginDelete, BeginImport,
           BeginTemplate, BeginReindex, BeginDeleteAll
<1>2. /\ pc[r] = "idle" /\ pdf[r] = None
      /\ UNCHANGED <<rows, files, pdf>>
      /\ view'[r] = rows /\ pc'[r] = step
      /\ \A q \in Requests \ {r} :
            pc'[q] = pc[q] /\ view'[q] = view[q] /\ queue'[q] = queue[q] /\ op'[q] = op[q]
    BY <1>1 DEF Begin, stores, Typed, TypeOK, LocalOK
<1>3. PdfStored' /\ OneRow'
    BY <1>2 DEF PdfInv, PdfStored, OneRow
<1>4. OneView'
    BY <1>2 DEF PdfInv, OneRow, OneView
<1>5. FreshUpload'
    BY <1>2 DEF PdfInv, FreshUpload, NotYetWritten
<1>6. Uploaded' /\ Removing' /\ Deleted'
    BY <1>1, <1>2 DEF PdfInv, Uploaded, Removing, Deleted
<1> QED BY <1>3, <1>4, <1>5, <1>6 DEF PdfInv

LEMMA PdfSave ==
    ASSUME Typed, PdfInv, NEW r \in Requests, SavePdf(r)
    PROVE  PdfInv'
<1>1. CASE Close(r, "done") /\ UNCHANGED files
    BY <1>1, PdfClose DEF SavePdf
<1>2. CASE ~(Close(r, "done") /\ UNCHANGED files)
    <2>1. /\ files' = files \cup {r}
          /\ pdf'[r] = r /\ pc[r] = "upload" /\ pc'[r] \in {"insert", "write"}
          /\ UNCHANGED <<rows, view, queue, op>>
          /\ \A q \in Requests \ {r} : pc'[q] = pc[q] /\ pdf'[q] = pdf[q]
        BY <1>2 DEF SavePdf, Typed, TypeOK
    <2>2. PdfStored' /\ OneRow' /\ OneView'
        BY <2>1 DEF PdfInv, PdfStored, OneRow, OneView
    <2>3. FreshUpload'
        BY <2>1 DEF PdfInv, FreshUpload, NotYetWritten
    <2>4. Uploaded' /\ Removing' /\ Deleted'
        BY <2>1 DEF PdfInv, Uploaded, Removing, Deleted
    <2> QED BY <2>2, <2>3, <2>4 DEF PdfInv
<1> QED BY <1>1, <1>2

(* New rows of r, with its upload or without a PDF: at most one has one. *)
LEMMA PdfInsert ==
    ASSUME Typed, PdfInv, NEW r \in Requests, NEW S \in SUBSET Chapters, InsertRows(r, S),
           \A c, d \in S : pdf[r] # None => c = d,
           pc'[r] \notin NotYetWritten \cup {"forget", "unlink"},
           pdf'[r] = None,
           \A q \in Requests \ {r} : /\ pc'[q] = pc[q] /\ pdf'[q] = pdf[q]
                                     /\ queue'[q] = queue[q] /\ view'[q] = view[q],
           \A d \in Stored(view'[r]) :
               \/ d \in Stored(view[r]) /\ view'[r][d] = view[r][d]
               \/ d \in S /\ view'[r][d] = rows'[d]
    PROVE  PdfInv'
<1> USE KnowledgeAssumption
<1>1. /\ \A c \in S : rows'[c] \in Row /\ rows'[c].pdf = pdf[r]
      /\ \A c \in Chapters \ S : rows'[c] = rows[c]
      /\ S \subseteq Stored(rows')
      /\ op' = op
    BY TypedInsert
<1>2. /\ files' = files /\ pc[r] = "insert"
      /\ \A c \in S : rows[c] = Unborn
    BY DEF InsertRows
<1>3. pdf[r] = None \/ (pdf[r] = r /\ r \in files)
    BY <1>2 DEF PdfInv, Uploaded
<1>4. \A c \in Stored(rows') : c \in S \/ (c \in Stored(rows) /\ rows'[c] = rows[c])
    BY <1>1 DEF Stored
<1>5. \A c \in Stored(rows) : c \in Chapters \ S /\ rows[c].pdf # r
    BY <1>2 DEF Stored, PdfInv, FreshUpload, NotYetWritten
<1>6. \A q \in Requests : \A d \in Stored(view[q]) : view[q][d].pdf # r
    BY <1>2 DEF PdfInv, FreshUpload, NotYetWritten
<1>7. PdfStored'
    BY <1>1, <1>2, <1>3, <1>4 DEF PdfInv, PdfStored
<1>8. OneRow'
    BY <1>1, <1>3, <1>4, <1>5 DEF PdfInv, OneRow
<1>9. OneView'
    <2> SUFFICES ASSUME NEW q \in Requests, NEW c \in Stored(rows'), NEW d \in Stored(view'[q]),
                        rows'[c].pdf # None, rows'[c].pdf = view'[q][d].pdf
                 PROVE  c = d
        BY DEF OneView
    <2>1. CASE d \in Stored(view[q]) /\ view'[q][d] = view[q][d]
        BY <1>1, <1>3, <1>4, <1>6, <2>1 DEF PdfInv, OneView
    <2>2. CASE q = r /\ d \in S /\ view'[r][d] = rows'[d]
        BY <1>1, <1>3, <1>4, <1>5, <2>2
    <2> QED BY <2>1, <2>2
<1>10. FreshUpload'
    <2> SUFFICES ASSUME NEW q \in Requests, pc'[q] \in NotYetWritten
                 PROVE  /\ \A c \in Stored(rows') : rows'[c].pdf # q
                        /\ \A s \in Requests : \A d \in Stored(view'[s]) : view'[s][d].pdf # q
                        /\ \A s \in Requests \ {q} : pdf'[s] # q
        BY DEF FreshUpload
    <2>1. q # r /\ pc[q] \in NotYetWritten /\ pdf[r] # q
        BY <1>3 DEF Pdfs
    <2>2. \A c \in Stored(rows') : rows'[c].pdf # q
        BY <1>1, <1>4, <2>1 DEF PdfInv, FreshUpload
    <2>3. \A s \in Requests : \A d \in Stored(view'[s]) : view'[s][d].pdf # q
        BY <1>1, <2>1 DEF PdfInv, FreshUpload
    <2>4. \A s \in Requests \ {q} : pdf'[s] # q
        BY <2>1 DEF PdfInv, FreshUpload, Pdfs
    <2> QED BY <2>2, <2>3, <2>4
<1>11. Uploaded'
    BY <1>2 DEF PdfInv, Uploaded, NotYetWritten
<1>12. Removing'
    <2>1. \A q \in Requests \ {r} : pdf[q] # r
        BY <1>2 DEF PdfInv, FreshUpload, NotYetWritten
    <2> QED BY <1>1, <1>3, <1>4, <2>1 DEF PdfInv, Removing
<1>13. Deleted'
    <2>1. \A d \in Chapters : rows[d] = Gone => rows'[d] = Gone
        BY <1>1, <1>2
    <2> QED BY <1>1, <2>1 DEF PdfInv, Deleted, Typed, TypeOK
<1> QED BY <1>7, <1>8, <1>9, <1>10, <1>11, <1>12, <1>13 DEF PdfInv

LEMMA PdfInserting ==
    ASSUME Typed, PdfInv, NEW r \in Requests,
           \/ CreateKnowledge(r)
           \/ SaveImportedKnowledges(r)
           \/ SaveKnowledgesDto(r)
    PROVE  PdfInv'
<1>1. ASSUME NEW S \in SUBSET Chapters, NEW c \in S, NEW step \in {"refresh", "text"},
             InsertRows(r, S), KeepInserted(r, S, c, step),
             S = {c} \/ op[r] # "create"
      PROVE  PdfInv'
    <2>1. /\ pc'[r] = step /\ pdf'[r] = None
          /\ view'[r] = [d \in Chapters |-> IF d \in S THEN rows'[d] ELSE view[r][d]]
          /\ \A q \in Requests \ {r} : /\ pc'[q] = pc[q] /\ pdf'[q] = pdf[q]
                                        /\ queue'[q] = queue[q] /\ view'[q] = view[q]
        BY <1>1 DEF KeepInserted, Typed, TypeOK
    <2>2. \A d \in Stored(view'[r]) :
             \/ d \in Stored(view[r]) /\ view'[r][d] = view[r][d]
             \/ d \in S /\ view'[r][d] = rows'[d]
        BY <2>1 DEF Stored
    <2>3. S = {c} \/ pdf[r] = None
        BY <1>1 DEF InsertRows, Typed, LocalOK
    <2> QED BY <1>1, <2>1, <2>2, <2>3, PdfInsert DEF NotYetWritten
<1>2. CASE CreateKnowledge(r)
    <2>1. PICK c \in Chapters : InsertRows(r, {c}) /\ KeepInserted(r, {c}, c, "refresh")
        BY <1>2 DEF CreateKnowledge
    <2> QED BY <1>1, <2>1
<1>3. CASE SaveImportedKnowledges(r)
    <2>1. PICK S \in SUBSET Chapters, c \in Chapters :
            /\ op[r] = "import" /\ c \in S
            /\ InsertRows(r, S) /\ KeepInserted(r, S, c, "text")
        BY <1>3 DEF SaveImportedKnowledges
    <2> QED BY <1>1, <2>1
<1>4. CASE SaveKnowledgesDto(r)
    <2>1. PICK S \in SUBSET Chapters :
            op[r] = "template" /\ InsertRows(r, S) /\ Close(r, "done")
        BY <1>4 DEF SaveKnowledgesDto
    <2>2. pdf[r] = None
        BY <2>1 DEF InsertRows, Typed, LocalOK
    <2>3. /\ pc'[r] = "done" /\ pdf'[r] = None
          /\ view'[r] = NoRows
          /\ \A q \in Requests \ {r} : /\ pc'[q] = pc[q] /\ pdf'[q] = pdf[q]
                                        /\ queue'[q] = queue[q] /\ view'[q] = view[q]
        BY <2>1 DEF Close, Typed, TypeOK
    <2>4. Stored(view'[r]) = {}
        BY <2>3 DEF NoRows, Stored
    <2> QED BY <2>1, <2>2, <2>3, <2>4, PdfInsert DEF NotYetWritten
<1> QED BY <1>2, <1>3, <1>4

LEMMA PdfRefresh ==
    ASSUME Typed, PdfInv, NEW r \in Requests, Refresh(r)
    PROVE  PdfInv'
<1> DEFINE c == chapter[r]
<1>1. /\ c \in Stored(rows) /\ pc[r] = "refresh" /\ pc'[r] = "clear"
      /\ UNCHANGED <<rows, files, op, queue, pdf>>
      /\ \A q \in Requests \ {r} : pc'[q] = pc[q] /\ view'[q] = view[q]
    BY DEF Refresh, stores, Typed, TypeOK
<1>2. view'[r] = [view[r] EXCEPT ![c] = rows[c]]
    BY DEF Refresh, Typed, TypeOK
<1>3. \A d \in Stored(view'[r]) :
         \/ d \in Stored(view[r]) /\ view'[r][d] = view[r][d]
         \/ d = c /\ view'[r][d] = rows[c]
    BY <1>2 DEF Stored, Typed, TypeOK
<1>4. PdfStored' /\ OneRow'
    BY <1>1 DEF PdfInv, PdfStored, OneRow
<1>5. OneView'
    BY <1>1, <1>3 DEF PdfInv, OneRow, OneView
<1>6. FreshUpload'
    BY <1>1, <1>3 DEF PdfInv, FreshUpload, NotYetWritten
<1>7. Uploaded' /\ Removing' /\ Deleted'
    BY <1>1 DEF PdfInv, Uploaded, Removing, Deleted
<1> QED BY <1>4, <1>5, <1>6, <1>7 DEF PdfInv

(* An update: the path in its row stays, goes, or becomes its upload; the  *)
(* one it is about to remove is no longer in the row.                      *)
LEMMA PdfWrite ==
    ASSUME Typed, PdfInv, NEW r \in Requests, WriteRow(r)
    PROVE  PdfInv'
<1> USE KnowledgeAssumption
<1>1. PICK c \in Stored(rows) \cap Stored(view[r]), path \in Pdfs \cup {None},
           new \in Row, held \in Row :
        /\ path \in IF pdf[r] # None THEN {pdf[r]} ELSE {view[r][c].pdf, None}
        /\ held.pdf = path
        /\ new.pdf = IF path # view[r][c].pdf THEN path ELSE rows[c].pdf
        /\ rows' = [rows EXCEPT ![c] = new]
        /\ view' = [view EXCEPT ![r] = [view[r] EXCEPT ![c] = held]]
        /\ pdf' = [pdf EXCEPT ![r] =
                     IF path # view[r][c].pdf THEN view[r][c].pdf ELSE None]
        /\ pc' = [pc EXCEPT ![r] = IF path # view[r][c].pdf THEN "unlink" ELSE "clear"]
    BY WriteFacts
<1>2. c \in Chapters /\ rows[c] \in Row /\ view[r][c] \in Row
    BY StoredRow DEF Typed, TypeOK
<1>3. /\ pc[r] = "write" /\ op' = op /\ queue' = queue /\ files' = files
      /\ pc'[r] \notin NotYetWritten \cup {"forget"}
      /\ \A q \in Requests \ {r} : /\ pc'[q] = pc[q] /\ pdf'[q] = pdf[q]
                                    /\ view'[q] = view[q]
    BY <1>1 DEF WriteRow, NotYetWritten, Typed, TypeOK
<1>4. /\ Stored(rows') = Stored(rows)
      /\ rows'[c] = new
      /\ \A d \in Chapters \ {c} : rows'[d] = rows[d]
    BY <1>1, <1>2 DEF Stored, Typed, TypeOK
<1>5. \A d \in Stored(view'[r]) :
         \/ d # c /\ d \in Stored(view[r]) /\ view'[r][d] = view[r][d]
         \/ d = c /\ view'[r][d] = held
    BY <1>1, <1>2 DEF Stored, Typed, TypeOK
<1>6. pdf[r] = None \/ (pdf[r] = r /\ r \in files)
    BY <1>3 DEF PdfInv, Uploaded
<1>7. /\ \A d \in Stored(rows) : d \in Chapters /\ rows[d].pdf # r
      /\ \A q \in Requests : \A d \in Stored(view[q]) : view[q][d].pdf # r
      /\ \A q \in Requests \ {r} : pdf[q] # r
    BY <1>3 DEF Stored, PdfInv, FreshUpload, NotYetWritten
<1>8. new.pdf = rows[c].pdf \/ new.pdf = None \/ (new.pdf = r /\ r \in files)
    BY <1>1, <1>6
<1>9. held.pdf = view[r][c].pdf \/ held.pdf = None \/ held.pdf = r
    BY <1>1, <1>6
<1>10. PdfStored'
    BY <1>3, <1>4, <1>7, <1>8 DEF PdfInv, PdfStored
<1>11. OneRow'
    BY <1>4, <1>7, <1>8 DEF PdfInv, OneRow
<1>12. OneView'
    <2> SUFFICES ASSUME NEW q \in Requests, NEW a \in Stored(rows'), NEW d \in Stored(view'[q]),
                        rows'[a].pdf # None, rows'[a].pdf = view'[q][d].pdf
                 PROVE  a = d
        BY DEF OneView
    <2>1. rows'[a].pdf = rows[a].pdf \/ (a = c /\ rows'[a].pdf = r)
        BY <1>4, <1>7, <1>8
    <2>2. CASE q # r \/ d # c
        <3>1. d \in Stored(view[q]) /\ view'[q][d] = view[q][d]
            BY <1>3, <1>5, <2>2
        <3> QED BY <1>4, <1>7, <2>1, <3>1 DEF PdfInv, OneView
    <2>3. CASE q = r /\ d = c
        <3>1. view'[q][d] = held
            BY <1>5, <2>3
        <3> QED BY <1>1, <1>4, <1>7, <1>9, <2>1, <2>3, <3>1 DEF PdfInv, OneView
    <2> QED BY <2>2, <2>3
<1>13. FreshUpload'
    <2> SUFFICES ASSUME NEW q \in Requests, pc'[q] \in NotYetWritten
                 PROVE  /\ \A a \in Stored(rows') : rows'[a].pdf # q
                        /\ \A s \in Requests : \A d \in Stored(view'[s]) : view'[s][d].pdf # q
                        /\ \A s \in Requests \ {q} : pdf'[s] # q
        BY DEF FreshUpload
    <2>1. q # r /\ pc[q] \in NotYetWritten /\ q # None
        BY <1>3 DEF Pdfs
    <2>2. /\ \A a \in Stored(rows) : rows[a].pdf # q
          /\ \A s \in Requests : \A d \in Stored(view[s]) : view[s][d].pdf # q
          /\ \A s \in Requests \ {q} : pdf[s] # q
        BY <2>1 DEF PdfInv, FreshUpload
    <2>3. \A a \in Stored(rows') : rows'[a].pdf # q
        BY <1>4, <1>7, <1>8, <2>1, <2>2
    <2>4. \A s \in Requests : \A d \in Stored(view'[s]) : view'[s][d].pdf # q
        BY <1>3, <1>5, <1>9, <2>1, <2>2
    <2>5. pdf'[r] \in {view[r][c].pdf, None}
        BY <1>1 DEF Typed, TypeOK
    <2>6. \A s \in Requests \ {q} : pdf'[s] # q
        BY <1>3, <2>1, <2>2, <2>5
    <2> QED BY <2>3, <2>4, <2>6
<1>14. Uploaded'
    BY <1>3 DEF PdfInv, Uploaded, NotYetWritten
<1>15. Removing'
    <2> SUFFICES ASSUME NEW q \in Requests, pc'[q] = "unlink", pdf'[q] # None,
                        NEW a \in Stored(rows')
                 PROVE  rows'[a].pdf # pdf'[q]
        BY DEF Removing
    <2>1. CASE q = r
        <3>1. pdf'[r] = view[r][c].pdf /\ new.pdf = path /\ path # view[r][c].pdf
            BY <1>1, <2>1 DEF Typed, TypeOK
        <3>2. CASE a = c
            BY <1>4, <2>1, <3>1, <3>2
        <3>3. CASE a # c
            BY <1>4, <1>7, <2>1, <3>1, <3>3 DEF PdfInv, OneView
        <3> QED BY <3>2, <3>3
    <2>2. CASE q # r
        BY <1>3, <1>4, <1>7, <1>8, <2>2 DEF PdfInv, Removing
    <2> QED BY <2>1, <2>2
<1>16. Deleted'
    <2>1. \A d \in Chapters : rows[d] = Gone => rows'[d] = Gone
        BY <1>4 DEF Stored
    <2>2. op[r] # "delete"
        BY <1>3 DEF Typed, LocalOK
    <2> QED BY <1>3, <2>1, <2>2 DEF PdfInv, Deleted, Typed, TypeOK
<1> QED BY <1>10, <1>11, <1>12, <1>13, <1>14, <1>15, <1>16 DEF PdfInv

LEMMA PdfDeleteRows ==
    ASSUME Typed, PdfInv, NEW r \in Requests, DeleteRows(r)
    PROVE  PdfInv'
<1>1. /\ UNCHANGED <<files, view, queue, pdf, op>>
      /\ pc'[r] = "forget"
      /\ \A q \in Requests \ {r} : pc'[q] = pc[q]
    BY DEF DeleteRows, Typed, TypeOK
<1>2. /\ \A c \in Stored(rows') : c \in Stored(rows) /\ rows'[c] = rows[c]
      /\ \A c \in queue[r] : rows'[c] = Gone
      /\ \A c \in Chapters : rows[c] = Gone => rows'[c] = Gone
    BY DEF DeleteRows, Stored, Typed, TypeOK
<1>3. PdfStored' /\ OneRow' /\ OneView'
    BY <1>1, <1>2 DEF PdfInv, PdfStored, OneRow, OneView
<1>4. FreshUpload' /\ Uploaded' /\ Removing'
    BY <1>1, <1>2 DEF PdfInv, FreshUpload, Uploaded, Removing, NotYetWritten
<1>5. Deleted'
    BY <1>1, <1>2 DEF PdfInv, Deleted, Typed, TypeOK
<1> QED BY <1>3, <1>4, <1>5 DEF PdfInv

(* The file of a deleted chapter is in no row: not in its own, which is    *)
(* gone, nor in another, since a path is of one chapter.                   *)
LEMMA PdfForget ==
    ASSUME Typed, PdfInv, NEW r \in Requests, ForgetChapter(r)
    PROVE  PdfInv'
<1> DEFINE c == chapter[r]
<1>1. /\ UNCHANGED <<rows, files, view, queue, op>>
      /\ pc[r] = "forget" /\ pc'[r] = "unlink" /\ pdf'[r] = view[r][c].pdf
      /\ \A q \in Requests \ {r} : pc'[q] = pc[q] /\ pdf'[q] = pdf[q]
    BY DEF ForgetChapter, Typed, TypeOK
<1>2. c \in queue[r] /\ c \in Stored(view[r])
    BY <1>1 DEF Typed, LocalOK, ChapterSteps
<1>3. c \notin Stored(rows)
    BY <1>1, <1>2 DEF PdfInv, Deleted, Stored
<1>4. \A d \in Stored(rows) : pdf'[r] # None => rows[d].pdf # pdf'[r]
    BY <1>1, <1>2, <1>3 DEF PdfInv, OneView
<1>5. PdfStored' /\ OneRow' /\ OneView' /\ Uploaded' /\ Deleted'
    BY <1>1 DEF PdfInv, PdfStored, OneRow, OneView, Uploaded, Deleted
<1>6. FreshUpload'
    BY <1>1, <1>2 DEF PdfInv, FreshUpload, NotYetWritten
<1>7. Removing'
    BY <1>1, <1>4 DEF PdfInv, Removing
<1> QED BY <1>5, <1>6, <1>7 DEF PdfInv

LEMMA PdfRemove ==
    ASSUME Typed, PdfInv, NEW r \in Requests, RemovePdf(r)
    PROVE  PdfInv'
<1> USE KnowledgeAssumption
<1>1. /\ pc[r] = "unlink" /\ files' = files \ {pdf[r]} /\ rows' = rows /\ op' = op
      /\ pc'[r] \in {"done", "forget", "clear"} /\ pdf'[r] = None
      /\ pc'[r] = "forget" => op[r] = "delete"
      /\ queue'[r] \in SUBSET queue[r]
      /\ \A q \in Requests \ {r} :
            pc'[q] = pc[q] /\ pdf'[q] = pdf[q] /\ queue'[q] = queue[q]
    BY DEF RemovePdf, Proceed, Close, Typed, TypeOK
<1>2. \A q \in Requests : \A d \in Stored(view'[q]) :
         d \in Stored(view[q]) /\ view'[q][d] = view[q][d]
    <2>1. view' = view \/ view' = [view EXCEPT ![r] = NoRows]
        BY DEF RemovePdf, Proceed, Close
    <2>2. Stored(NoRows) = {}
        BY DEF Stored, NoRows
    <2> QED BY <2>1, <2>2 DEF Typed, TypeOK
<1>3. PdfStored'
    BY <1>1 DEF PdfInv, PdfStored, Removing
<1>4. OneRow' /\ OneView'
    BY <1>1, <1>2 DEF PdfInv, OneRow, OneView
<1>5. FreshUpload'
    BY <1>1, <1>2 DEF PdfInv, FreshUpload, NotYetWritten, Pdfs
<1>6. Uploaded'
    <2> SUFFICES ASSUME NEW q \in Requests, pc'[q] \in {"insert", "write"}
                 PROVE  pdf'[q] = None \/ (pdf'[q] = q /\ q \in files')
        BY DEF Uploaded
    <2>1. q # r /\ pc[q] \in {"insert", "write"} /\ pdf'[q] = pdf[q]
        BY <1>1
    <2>2. pdf[r] # q
        BY <2>1 DEF PdfInv, FreshUpload, NotYetWritten
    <2> QED BY <1>1, <2>1, <2>2 DEF PdfInv, Uploaded
<1>7. Removing'
    BY <1>1 DEF PdfInv, Removing
<1>8. Deleted'
    BY <1>1 DEF PdfInv, Deleted
<1> QED BY <1>3, <1>4, <1>5, <1>6, <1>7, <1>8 DEF PdfInv

(* What is left touches neither the rows' paths nor the files. *)
LEMMA PdfVectors ==
    ASSUME Typed, PdfInv, NEW r \in Requests,
           \/ EmptyCollection(r) \/ ClearVectors(r) \/ IngestText(r)
           \/ IngestPdf(r) \/ StampSynced(r) \/ Fail(r)
    PROVE  PdfInv'
<1>1. CASE Fail(r)
    BY <1>1, PdfClose DEF Fail, stores
<1>2. ASSUME NEW rest, Proceed(r, rest, "text")
      PROVE  /\ pc'[r] \in {"done", "text"} /\ pdf'[r] = None
             /\ \A q \in Requests \ {r} :
                   pc'[q] = pc[q] /\ pdf'[q] = pdf[q] /\ queue'[q] = queue[q]
             /\ \A q \in Requests : \A d \in Stored(view'[q]) :
                   d \in Stored(view[q]) /\ view'[q][d].pdf = view[q][d].pdf
    <2>1. view' = view \/ view' = [view EXCEPT ![r] = NoRows]
        BY <1>2 DEF Proceed, Close
    <2>2. Stored(NoRows) = {}
        BY DEF Stored, NoRows
    <2>3. \A q \in Requests : \A d \in Stored(view'[q]) :
             d \in Stored(view[q]) /\ view'[q][d].pdf = view[q][d].pdf
        BY <2>1, <2>2 DEF Typed, TypeOK
    <2> QED BY <1>2, <2>3 DEF Proceed, Close, Typed, TypeOK
<1>3. CASE StampSynced(r)
    <2>1. /\ Stored(rows') = Stored(rows)
          /\ \A c \in Stored(rows) : rows'[c].pdf = rows[c].pdf
          /\ \A c \in Chapters \ Stored(rows) : rows'[c] = rows[c]
        BY <1>3, StampFacts
    <2>2. Proceed(r, queue[r] \ {chapter[r]}, "text") /\ files' = files /\ op' = op
        BY <1>3 DEF StampSynced
    <2> QED BY <1>2, <2>1, <2>2, PdfKept DEF NotYetWritten
<1>4. CASE EmptyCollection(r) /\ op[r] = "reindex"
    <2>1. /\ Proceed(r, queue[r], "text")
          /\ rows' = rows /\ files' = files /\ op' = op
        BY <1>4 DEF EmptyCollection
    <2> QED BY <1>2, <2>1, PdfKept DEF NotYetWritten
<1>5. CASE \/ EmptyCollection(r) /\ op[r] # "reindex"
           \/ ClearVectors(r) \/ IngestText(r) \/ IngestPdf(r)
    <2>1. /\ UNCHANGED <<rows, files, op, view, queue, pdf>>
          /\ pc'[r] \in {"wipe", "text", "stamp", "pdf"}
          /\ \A q \in Requests \ {r} : pc'[q] = pc[q]
        BY <1>5 DEF EmptyCollection, ClearVectors, IngestText, IngestPdf, Typed, TypeOK
    <2> QED BY <2>1, PdfKept DEF NotYetWritten
<1> QED BY <1>1, <1>3, <1>4, <1>5

LEMMA PdfStep ==
    ASSUME "delete_all" \notin Ops, Typed, PdfInv, [Next]_vars
    PROVE  PdfInv'
<1>1. CASE UNCHANGED vars
    BY <1>1 DEF vars, stores, locals, PdfInv, PdfStored, OneRow, OneView,
                FreshUpload, Uploaded, Removing, Deleted
<1>2. ASSUME NEW r \in Requests
      PROVE  ~WipeRows(r) /\ ~RemoveFolder(r)
    BY KnowledgeAssumption DEF WipeRows, RemoveFolder, Typed, TypeOK, LocalOK, AllOps
<1> QED BY <1>1, <1>2, PdfBegin, PdfSave, PdfInserting, PdfRefresh, PdfWrite,
           PdfDeleteRows, PdfForget, PdfRemove, PdfVectors DEF Next

(* As long as nobody empties the whole knowledge base, the PDF of every    *)
(* stored chapter is in the upload folder: whatever requests overlap and   *)
(* whichever of their calls fail, no file is removed that a row still      *)
(* names, and no row names a file not yet stored.                          *)
THEOREM PdfsAreStored ==
    ASSUME "delete_all" \notin Ops
    PROVE  Spec => []PdfStored
<1>1. Init => KnowledgeInv
    BY TypedInit, PdfInit DEF KnowledgeInv
<1>2. KnowledgeInv /\ [Next]_vars => KnowledgeInv'
    BY TypedStep, PdfStep DEF KnowledgeInv
<1>3. KnowledgeInv => PdfStored
    BY DEF KnowledgeInv, PdfInv
<1> QED BY <1>1, <1>2, <1>3, PTL DEF Spec

-----------------------------------------------------------------------------
(* One request per chapter: what each request may rely on when no two work *)
(* on one chapter                                                          *)

Ingesting == {"text", "pdf", "stamp"}

(* What r can be for at each step, and what it has in hand there. *)
Purposed(r) ==
    /\ pc[r] = "idle" => op[r] = None
    /\ pc[r] = "insert" => op[r] \in {"create", "import", "template"}
    /\ pc[r] = "refresh" => op[r] = "create"
    /\ pc[r] = "write" => op[r] = "update"
    /\ pc[r] = "unlink" => op[r] \in {"update", "delete"}
    /\ pc[r] = "clear" => op[r] \in {"create", "update"}
    /\ pc[r] \in Ingesting => op[r] \in {"create", "update", "import", "reindex"}
    /\ ~Active(r) \/ op[r] = "delete_all" => queue[r] = {}
    /\ op[r] \in {"create", "update"} => queue[r] \subseteq {chapter[r]}
    /\ pdf[r] # None => pc[r] \in {"insert", "write", "unlink"}
    /\ pc[r] = "unlink" /\ op[r] = "delete" => pdf[r] = view[r][chapter[r]].pdf

(* No two requests work on one chapter, and a request for the whole bot is *)
(* alone.                                                                  *)
Exclusion ==
    \A q, r \in Requests : q # r /\ Active(q) /\ Active(r) =>
        queue[q] \cap queue[r] = {} /\ op[q] \notin WholeBot

\* r has deleted the rows of its queue.
Dropped(r) == pc[r] = "forget" \/ (pc[r] = "unlink" /\ op[r] = "delete")

(* So a request's session holds its chapters as they are stored, until it  *)
(* deletes them.                                                           *)
Agrees(r) ==
    Active(r) /\ ~Dropped(r) => \A c \in queue[r] : view[r][c] = rows[c]

(* A chapter whose vectors change is marked as not synced, except by a     *)
(* reindex.                                                                *)
Unsynced(r) ==
    /\ \/ pc[r] \in {"refresh", "clear"} \cup Ingesting
       \/ pc[r] = "unlink" /\ op[r] = "update"
    /\ op[r] # "reindex"
    => \A c \in queue[r] : ~rows[c].synced

\* What r has ingested of the chapter at hand.
Ingested(r) ==
    LET row == view[r][chapter[r]]
    IN  IF pc[r] = "text" THEN {}
        ELSE IF pc[r] = "pdf" THEN {row.text} \ {Empty}
        ELSE Contents(row)

(* How far the vectors of a request's chapters are. *)
Progressed(r) ==
    pc[r] \in Ingesting =>
        /\ VectorsOf(chapter[r]) = Entries(r, chapter[r], Ingested(r))
        /\ \A c \in queue[r] \ {chapter[r]} : VectorsOf(c) = {}
        /\ pc[r] = "pdf" => view[r][chapter[r]].pdf # None

Forgot(r) ==
    pc[r] = "unlink" /\ op[r] = "delete" => VectorsOf(chapter[r]) = {}

(* What a reindex and a delete_all have behind them. *)
Rebuilds(r) ==
    /\ pc[r] = "empty" /\ op[r] = "reindex" => Stored(rows) \subseteq queue[r]
    /\ pc[r] \in Ingesting /\ op[r] = "reindex" =>
          \A c \in Chapters \ queue[r] : Indexed(c)
    /\ pc[r] \in {"wipe", "rmtree"} => vectors = {}
    /\ pc[r] = "rmtree" => Stored(rows) = {}

(* And the chapters it deletes. *)
Emptied(r) == Dropped(r) => \A c \in queue[r] : rows[c] = Gone

Own(r) ==
    /\ Agrees(r) /\ Emptied(r) /\ Unsynced(r)
    /\ Progressed(r) /\ Forgot(r) /\ Rebuilds(r)

\* No vector comes before its row.
Born == \A v \in vectors : rows[v.of] # Unborn

ApartInv ==
    /\ Exclusion /\ Born
    /\ \A r \in Requests : Purposed(r) /\ Own(r)

-----------------------------------------------------------------------------
(* A step of one request leaves the others' chapters alone *)

SameLocals(q) ==
    /\ op'[q] = op[q] /\ pc'[q] = pc[q] /\ view'[q] = view[q]
    /\ queue'[q] = queue[q] /\ chapter'[q] = chapter[q] /\ pdf'[q] = pdf[q]

SameChapter(c) == rows'[c] = rows[c] /\ VectorsOf(c)' = VectorsOf(c)

(* What a step of r may touch: its own chapters, new ones, or, when it is  *)
(* for the whole bot, all.                                                 *)
Reach(r) ==
    /\ Active(r)
    /\ op' = op
    /\ \A q \in Requests \ {r} : SameLocals(q)
    /\ queue'[r] \subseteq queue[r] \cup {c \in Chapters : rows[c] = Unborn}
    /\ op[r] \notin WholeBot =>
          \A c \in Chapters : c \in queue[r] \/ rows[c] = Unborn \/ SameChapter(c)

(* A step that leaves a chapter alone leaves it indexed as it was, or not. *)
LEMMA IndexedKept ==
    ASSUME NEW c \in Chapters, SameChapter(c)
    PROVE  Indexed(c)' <=> Indexed(c)
<1>1. c \in Stored(rows') <=> c \in Stored(rows)
    BY DEF SameChapter, Stored
<1> DEFINE V == VectorsOf(c)
<1>2. V' = V /\ rows'[c] = rows[c]
    BY DEF SameChapter
<1> HIDE DEF V
<1>3. Contents(rows[c])' = Contents(rows[c])
    BY <1>2 DEF Contents
<1>4. Indexed(c) <=>
        IF c \in Stored(rows)
        THEN /\ {v.content : v \in V} = Contents(rows[c])
             /\ \A v, w \in V : v.content = w.content => v = w
        ELSE V = {}
    BY DEF Indexed, V
<1>5. Indexed(c)' <=>
        IF c \in Stored(rows')
        THEN /\ {v.content : v \in V'} = Contents(rows[c])'
             /\ \A v, w \in V' : v.content = w.content => v = w
        ELSE V' = {}
    BY DEF Indexed, V
<1> QED BY <1>1, <1>2, <1>3, <1>4, <1>5

(* The chapters a request works on are there, or it has deleted them. *)
LEMMA QueueBorn ==
    ASSUME Typed, ApartInv, NEW r \in Requests, Active(r), NEW c \in queue[r]
    PROVE  c \in Chapters /\ rows[c] # Unborn /\ (~Dropped(r) => c \in Stored(rows))
<1>1. c \in Stored(view[r]) /\ c \in Chapters
    BY DEF Typed, LocalOK, Stored
<1>2. CASE Dropped(r)
    BY <1>1, <1>2, KnowledgeAssumption DEF ApartInv, Own, Emptied
<1>3. CASE ~Dropped(r)
    BY <1>1, <1>3 DEF ApartInv, Own, Agrees, Stored
<1> QED BY <1>1, <1>2, <1>3

(* What a request relies on stays when its chapters do. *)
LEMMA OwnKept ==
    ASSUME Typed, NEW q \in Requests, Own(q), SameLocals(q),
           Active(q) => \A c \in queue[q] : SameChapter(c),
           Active(q) /\ op[q] \in WholeBot => UNCHANGED <<rows, vectors>>
    PROVE  Own(q)'
<1>1. CASE ~Active(q)
    BY <1>1 DEF Own, Agrees, Emptied, Dropped, Unsynced, Progressed, Forgot, Rebuilds,
                SameLocals, Active, Ended, Ingesting
<1>2. CASE Active(q)
    <2>0. pc[q] \in ChapterSteps => chapter[q] \in queue[q]
        BY DEF Typed, LocalOK
    <2>1. \A c \in queue[q] : rows'[c] = rows[c] /\ VectorsOf(c)' = VectorsOf(c)
        BY <1>2 DEF SameChapter
    <2>2. Agrees(q)' /\ Emptied(q)' /\ Unsynced(q)'
        BY <2>1 DEF Own, Agrees, Emptied, Unsynced, SameLocals, Active, Dropped, Ended,
                    Ingesting
    <2>3. Progressed(q)'
        <3>1. Ingested(q)' = Ingested(q)
            BY DEF Ingested, Contents, SameLocals
        <3>2. SUFFICES ASSUME pc[q] \in Ingesting
                       PROVE  Progressed(q)'
            BY DEF Progressed, SameLocals
        <3>3. chapter'[q] = chapter[q] /\ chapter[q] \in queue[q]
            BY <2>0, <3>2 DEF SameLocals, Ingesting, ChapterSteps
        <3>4. VectorsOf(chapter[q])' = VectorsOf(chapter[q])
            BY <2>1, <3>3 DEF VectorsOf
        <3>5. Entries(q, chapter[q], Ingested(q))' = Entries(q, chapter[q], Ingested(q))
            BY <3>1, <3>3 DEF Entries
        <3>6. queue'[q] = queue[q] /\ pc'[q] = pc[q] /\ view'[q] = view[q]
            BY DEF SameLocals
        <3> HIDE DEF Entries, Ingested
        <3> QED BY <2>1, <3>2, <3>3, <3>4, <3>5, <3>6 DEF Own, Progressed
    <2>4. Forgot(q)'
        BY <2>0, <2>1 DEF Own, Forgot, SameLocals, VectorsOf, ChapterSteps
    <2>5. Rebuilds(q)'
        <3>1. CASE op[q] \in WholeBot
            <4>1. \A c \in Chapters : SameChapter(c)
                BY <1>2, <3>1 DEF SameChapter, VectorsOf
            <4>2. \A c \in Chapters : Indexed(c)' <=> Indexed(c)
                BY <4>1, IndexedKept
            <4>3. UNCHANGED <<rows, vectors>> /\ Stored(rows') = Stored(rows)
                BY <1>2, <3>1 DEF Stored
            <4> HIDE DEF Indexed
            <4> QED BY <4>2, <4>3 DEF Own, Rebuilds, SameLocals
        <3>2. CASE op[q] \notin WholeBot
            BY <3>2 DEF Rebuilds, SameLocals, WholeBot, Typed, LocalOK
        <3> QED BY <3>1, <3>2
    <2> QED BY <2>2, <2>3, <2>4, <2>5 DEF Own
<1> QED BY <1>1, <1>2

(* It is enough to look at the request that takes the step. *)
LEMMA ApartKept ==
    ASSUME Typed, ApartInv, NEW r \in Requests, Reach(r),
           Purposed(r)', Own(r)', Born'
    PROVE  ApartInv'
<1>1. ASSUME NEW q \in Requests \ {r}, Active(q)
      PROVE  /\ op[q] \notin WholeBot /\ op[r] \notin WholeBot
             /\ \A c \in queue[q] : c \notin queue[r] /\ rows[c] # Unborn /\ c \in Chapters
    BY <1>1, QueueBorn DEF ApartInv, Exclusion, Reach
<1>2. ASSUME NEW q \in Requests \ {r}
      PROVE  Purposed(q)' /\ Own(q)'
    <2>1. SameLocals(q) /\ Purposed(q) /\ Own(q)
        BY DEF Reach, ApartInv
    <2>2. Purposed(q)'
        BY <2>1 DEF Purposed, SameLocals, Active
    <2>3. Active(q) => \A c \in queue[q] : SameChapter(c)
        BY <1>1 DEF Reach
    <2> HIDE DEF Own
    <2> QED BY <1>1, <2>1, <2>2, <2>3, OwnKept
<1>3. Exclusion'
    <2> SUFFICES ASSUME NEW q \in Requests, NEW s \in Requests, q # s,
                        Active(q)', Active(s)'
                 PROVE  queue'[q] \cap queue'[s] = {} /\ op'[q] \notin WholeBot
        BY DEF Exclusion
    <2>1. \A t \in Requests \ {r} : queue'[t] = queue[t] /\ (Active(t)' <=> Active(t))
        BY DEF Reach, SameLocals, Active
    <2>2. op' = op /\ Active(r)
        BY DEF Reach
    <2>3. Active(q) /\ Active(s)
        BY <2>1, <2>2
    <2>4. queue[q] \cap queue[s] = {} /\ op[q] \notin WholeBot
        BY <2>3 DEF ApartInv, Exclusion
    <2>5. ASSUME NEW t \in Requests \ {r}, Active(t)
          PROVE  queue'[r] \cap queue[t] = {}
        BY <1>1, <2>5, QueueBorn DEF Reach, ApartInv, Exclusion
    <2> QED BY <2>1, <2>2, <2>3, <2>4, <2>5
<1> QED BY <1>2, <1>3 DEF ApartInv

(* A chapter that was there leaves a row behind, and vectors are of such   *)
(* chapters.                                                               *)
LEMMA BornKept ==
    ASSUME Typed, Born,
           \A c \in Chapters : rows'[c] = Unborn => rows[c] = Unborn,
           \A v \in vectors' : v.of \in Chapters /\ (v \in vectors \/ rows[v.of] # Unborn)
    PROVE  Born'
BY DEF Born

(* A request that ends relies on nothing any more. *)
LEMMA ApartClose ==
    ASSUME Typed, NEW r \in Requests, NEW outcome \in {"done", "failed"},
           Close(r, outcome), op' = op
    PROVE  /\ Purposed(r)' /\ Own(r)' /\ queue'[r] = {}
           /\ pc'[r] = outcome /\ pdf'[r] = None
           /\ \A q \in Requests \ {r} : SameLocals(q)
<1>1. /\ pc'[r] = outcome /\ queue'[r] = {} /\ pdf'[r] = None /\ op'[r] = op[r]
      /\ \A q \in Requests \ {r} : SameLocals(q)
    BY DEF Close, SameLocals, Typed, TypeOK
<1>2. Purposed(r)'
    BY <1>1 DEF Purposed, Ingesting
<1>3. Own(r)'
    BY <1>1 DEF Own, Agrees, Emptied, Dropped, Unsynced, Progressed, Forgot, Rebuilds,
                Active, Ended, Ingesting
<1> QED BY <1>1, <1>2, <1>3

(* A loop that goes on to ingest the rest of its chapters. *)
LEMMA ApartIngest ==
    ASSUME Typed, NEW r \in Requests, NEW rest \in SUBSET queue[r],
           Proceed(r, rest, "text"), op' = op,
           op[r] \in {"create", "update", "import", "reindex"},
           op[r] \in {"create", "update"} => rest = {},
           \A c \in rest : /\ VectorsOf(c)' = {} /\ view[r][c] = rows'[c]
                           /\ op[r] # "reindex" => ~rows'[c].synced,
           op[r] = "reindex" => \A c \in Chapters \ rest : Indexed(c)'
    PROVE  /\ Purposed(r)' /\ Own(r)' /\ queue'[r] \subseteq queue[r]
           /\ pdf'[r] = None
           /\ \A q \in Requests \ {r} : SameLocals(q)
<1>1. CASE Close(r, "done")
    BY <1>1, ApartClose
<1>2. CASE ~Close(r, "done")
    <2>1. PICK c \in rest : chapter' = [chapter EXCEPT ![r] = c]
        BY <1>2 DEF Proceed
    <2>2. /\ pc' = [pc EXCEPT ![r] = "text"]
          /\ queue' = [queue EXCEPT ![r] = rest]
          /\ pdf' = [pdf EXCEPT ![r] = None]
          /\ UNCHANGED view
        BY <1>2 DEF Proceed
    <2>3. /\ pc'[r] = "text" /\ queue'[r] = rest /\ pdf'[r] = None /\ chapter'[r] = c
          /\ view'[r] = view[r] /\ op'[r] = op[r]
          /\ \A q \in Requests \ {r} : SameLocals(q)
        BY <2>1, <2>2 DEF SameLocals, Typed, TypeOK
    <2>4. Purposed(r)'
        BY <2>1, <2>3 DEF Purposed, Active, Ended, Ingesting
    <2>5. Agrees(r)' /\ Emptied(r)' /\ Unsynced(r)' /\ Forgot(r)'
        BY <2>3 DEF Agrees, Emptied, Dropped, Unsynced, Forgot
    <2>6. Progressed(r)'
        <3>1. VectorsOf(chapter[r])' = {} /\ Ingested(r)' = {}
            BY <2>1, <2>3 DEF VectorsOf, Ingested
        <3>2. Entries(r, chapter[r], Ingested(r))' = {}
            BY <3>1 DEF Entries
        <3> QED BY <2>3, <3>1, <3>2 DEF Progressed
    <2>7. Rebuilds(r)'
        BY <2>3 DEF Rebuilds, Ingesting
    <2> QED BY <2>3, <2>4, <2>5, <2>6, <2>7 DEF Own
<1> QED BY <1>1, <1>2

(* A request begins with the chapters of its snapshot, none of which another*)
(* one works on.                                                           *)
LEMMA ApartBegin ==
    ASSUME ~Overlap, Typed, ApartInv, NEW r \in Requests, NEW o \in AllOps,
           NEW S \in SUBSET Stored(rows), NEW c,
           NEW step \in {"upload", "insert", "write", "delete", "empty"},
           Begin(r, o, S, c, step),
           step = "insert" => o \in {"create", "import", "template"},
           step = "write" => o = "update",
           o = "delete_all" => S = {},
           o \in {"create", "update"} => S \subseteq {c},
           o = "reindex" => S = Stored(rows)
    PROVE  ApartInv'
<1>1. /\ op'[r] = o /\ view'[r] = rows /\ queue'[r] = S /\ chapter'[r] = c
      /\ pc'[r] = step /\ pdf'[r] = None
      /\ UNCHANGED <<rows, vectors>>
      /\ \A q \in Requests \ {r} : SameLocals(q)
      /\ \A q \in Requests : Active(q) =>
            {o, op[q]} \cap WholeBot = {} /\ S \cap queue[q] = {}
    BY DEF Begin, SameLocals, stores, Typed, TypeOK, LocalOK
<1>2. Purposed(r)'
    BY <1>1, KnowledgeAssumption DEF Purposed, Active, Ended, Ingesting
<1>3. Own(r)'
    BY <1>1 DEF Own, Agrees, Emptied, Dropped, Unsynced, Progressed, Forgot, Rebuilds,
                Ingesting
<1>4. ASSUME NEW q \in Requests \ {r}
      PROVE  Purposed(q)' /\ Own(q)'
    <2>1. SameLocals(q) /\ Purposed(q) /\ Own(q)
        BY <1>1 DEF ApartInv
    <2>2. Purposed(q)'
        BY <2>1 DEF Purposed, SameLocals, Active
    <2>3. \A d \in Chapters : SameChapter(d)
        BY <1>1 DEF SameChapter, VectorsOf
    <2>4. queue[q] \subseteq Chapters
        BY DEF Typed, TypeOK
    <2> HIDE DEF Own
    <2> QED BY <1>1, <2>1, <2>2, <2>3, <2>4, OwnKept
<1>5. Exclusion'
    <2>1. \A q \in Requests \ {r} : op'[q] = op[q] /\ queue'[q] = queue[q]
                                    /\ (Active(q)' <=> Active(q))
        BY <1>1 DEF SameLocals, Active
    <2> QED BY <1>1, <2>1 DEF ApartInv, Exclusion
<1>6. Born'
    BY <1>1 DEF ApartInv, Born
<1> QED BY <1>2, <1>3, <1>4, <1>5, <1>6 DEF ApartInv

LEMMA ApartBeginAny ==
    ASSUME ~Overlap, Typed, ApartInv, NEW r \in Requests, BeginAny(r)
    PROVE  ApartInv'
<1>0. rows \in [Chapters -> Row \cup {Unborn, Gone}]
    BY DEF Typed, TypeOK
<1>1. CASE BeginCreate(r)
    BY <1>1, ApartBegin DEF BeginCreate, AllOps
<1>2. CASE BeginUpdate(r)
    <2>1. PICK c \in Stored(rows), step \in {"upload", "write"} :
            Begin(r, "update", {c}, c, step)
        BY <1>2 DEF BeginUpdate
    <2> QED BY <2>1, ApartBegin DEF AllOps
<1>3. CASE BeginDelete(r)
    <2>1. PICK c \in Stored(rows) : Begin(r, "delete", Subtree(rows, c), c, "delete")
        BY <1>3 DEF BeginDelete
    <2>2. Subtree(rows, c) \in SUBSET Stored(rows)
        BY <1>0, SubtreeStored
    <2> QED BY <2>1, <2>2, ApartBegin DEF AllOps
<1>4. CASE BeginImport(r) \/ BeginTemplate(r)
    BY <1>4, ApartBegin DEF BeginImport, BeginTemplate, AllOps
<1>5. CASE BeginReindex(r) \/ BeginDeleteAll(r)
    BY <1>5, ApartBegin DEF BeginReindex, BeginDeleteAll, AllOps
<1> QED BY <1>1, <1>2, <1>3, <1>4, <1>5 DEF BeginAny

-----------------------------------------------------------------------------
(* Each step, with no two requests on one chapter *)

(* Changing the vectors of a chapter leaves those of every other as they   *)
(* were.                                                                   *)
LEMMA VectorsRemoved ==
    ASSUME NEW c, vectors' = vectors \ VectorsOf(c)
    PROVE  /\ VectorsOf(c)' = {}
           /\ \A d : d # c => VectorsOf(d)' = VectorsOf(d)
BY DEF VectorsOf

LEMMA VectorsAdded ==
    ASSUME NEW c, NEW r, NEW X, vectors' = vectors \cup Entries(r, c, X)
    PROVE  /\ VectorsOf(c)' = VectorsOf(c) \cup Entries(r, c, X)
           /\ \A d : d # c => VectorsOf(d)' = VectorsOf(d)
BY DEF VectorsOf, Entries

LEMMA ApartSavePdf ==
    ASSUME Typed, ApartInv, NEW r \in Requests, SavePdf(r)
    PROVE  ApartInv'
<1>1. /\ pc[r] = "upload" /\ op' = op /\ UNCHANGED <<rows, vectors>>
      /\ Purposed(r) /\ Own(r) /\ Born
    BY DEF SavePdf, ApartInv
<1>2. /\ Active(r) /\ \A c \in Chapters : SameChapter(c)
    BY <1>1 DEF Active, Ended, SameChapter, VectorsOf
<1>3. Born'
    BY <1>1 DEF Born
<1>4. CASE Close(r, "done")
    <2>1. /\ Purposed(r)' /\ Own(r)' /\ queue'[r] = {}
          /\ \A q \in Requests \ {r} : SameLocals(q)
        BY <1>1, <1>4, ApartClose
    <2>2. Reach(r)
        BY <1>1, <1>2, <2>1 DEF Reach
    <2> QED BY <1>3, <2>1, <2>2, ApartKept
<1>5. CASE ~Close(r, "done")
    <2>1. /\ pdf' = [pdf EXCEPT ![r] = r]
          /\ pc' = [pc EXCEPT ![r] = IF op[r] = "create" THEN "insert" ELSE "write"]
          /\ UNCHANGED <<view, queue, chapter>>
        BY <1>5 DEF SavePdf
    <2>2. /\ pc'[r] = IF op[r] = "create" THEN "insert" ELSE "write"
          /\ \A q \in Requests \ {r} : SameLocals(q)
          /\ op[r] \in {"create", "update"}
        BY <1>1, <2>1 DEF SameLocals, Typed, TypeOK, LocalOK
    <2>3. Purposed(r)'
        BY <1>1, <2>1, <2>2 DEF Purposed, Active, Ended, Ingesting
    <2>4. Own(r)'
        BY <1>1, <1>2, <2>1, <2>2 DEF Own, Agrees, Emptied, Dropped, Unsynced, Progressed,
                                      Forgot, Rebuilds, Ingesting
    <2>5. Reach(r)
        BY <1>1, <1>2, <2>1, <2>2 DEF Reach
    <2> QED BY <1>3, <2>3, <2>4, <2>5, ApartKept
<1> QED BY <1>4, <1>5

(* What inserting the chapters S does to the others. *)
LEMMA InsertReach ==
    ASSUME Typed, ApartInv, NEW r \in Requests, NEW S \in SUBSET Chapters,
           InsertRows(r, S),
           queue'[r] \subseteq S, \A q \in Requests \ {r} : SameLocals(q)
    PROVE  Reach(r) /\ Born' /\ \A c \in S : VectorsOf(c)' = {}
<1>1. /\ pc[r] = "insert" /\ op' = op /\ vectors' = vectors
      /\ \A c \in S : rows[c] = Unborn
    BY DEF InsertRows
<1>2. /\ \A c \in S : rows'[c] \in Row
      /\ \A c \in Chapters \ S : rows'[c] = rows[c]
    BY TypedInsert
<1>3. Reach(r)
    BY <1>1, <1>2 DEF Reach, Active, Ended, SameChapter, VectorsOf
<1>4. Born'
    <2>1. \A v \in vectors' : v.of \in Chapters /\ rows[v.of] # Unborn
        BY <1>1 DEF ApartInv, Born, Typed, TypeOK, Vector
    <2> QED BY <1>1, <1>2, <2>1, KnowledgeAssumption, BornKept DEF ApartInv
<1>5. \A c \in S : VectorsOf(c)' = {}
    BY <1>1 DEF ApartInv, Born, VectorsOf
<1> QED BY <1>3, <1>4, <1>5

(* What a request has in hand after its INSERTs. *)
LEMMA ApartKeep ==
    ASSUME Typed, ApartInv, NEW r \in Requests, NEW S \in SUBSET Chapters, NEW c \in S,
           NEW step \in {"refresh", "text"}, InsertRows(r, S), KeepInserted(r, S, c, step),
           step = "refresh" => op[r] = "create" /\ S = {c},
           step = "text" => op[r] = "import"
    PROVE  ApartInv'
<1>1. /\ pc'[r] = step /\ queue'[r] = S /\ chapter'[r] = c /\ pdf'[r] = None
      /\ \A d \in S : view'[r][d] = rows'[d]
      /\ op' = op
      /\ \A q \in Requests \ {r} : SameLocals(q)
    BY DEF InsertRows, KeepInserted, SameLocals, Typed, TypeOK
<1>2. Reach(r) /\ Born' /\ \A d \in S : VectorsOf(d)' = {}
    BY <1>1, InsertReach
<1>3. \A d \in S : ~rows'[d].synced
    BY TypedInsert
<1>4. Purposed(r)'
    BY <1>1 DEF Purposed, Active, Ended, Ingesting
<1>5. Agrees(r)' /\ Emptied(r)' /\ Unsynced(r)' /\ Forgot(r)' /\ Rebuilds(r)'
    BY <1>1, <1>3 DEF Agrees, Emptied, Dropped, Unsynced, Forgot, Rebuilds
<1>6. Progressed(r)'
    <2>1. CASE step = "refresh"
        BY <1>1, <2>1 DEF Progressed, Ingesting
    <2>2. CASE step = "text"
        <3>1. VectorsOf(chapter[r])' = {} /\ Ingested(r)' = {}
            BY <1>1, <1>2, <2>2 DEF VectorsOf, Ingested
        <3>2. Entries(r, chapter[r], Ingested(r))' = {}
            BY <3>1 DEF Entries
        <3> QED BY <1>1, <1>2, <2>2, <3>1, <3>2 DEF Progressed
    <2> QED BY <2>1, <2>2
<1> QED BY <1>2, <1>4, <1>5, <1>6, ApartKept DEF Own

LEMMA ApartInserting ==
    ASSUME Typed, ApartInv, NEW r \in Requests,
           \/ CreateKnowledge(r)
           \/ SaveImportedKnowledges(r)
           \/ SaveKnowledgesDto(r)
    PROVE  ApartInv'
<1>1. CASE CreateKnowledge(r)
    <2>1. PICK c \in Chapters :
            op[r] = "create" /\ InsertRows(r, {c}) /\ KeepInserted(r, {c}, c, "refresh")
        BY <1>1 DEF CreateKnowledge
    <2> QED BY <2>1, ApartKeep
<1>2. CASE SaveImportedKnowledges(r)
    <2>1. PICK S \in SUBSET Chapters, c \in Chapters :
            c \in S /\ op[r] = "import" /\ InsertRows(r, S) /\ KeepInserted(r, S, c, "text")
        BY <1>2 DEF SaveImportedKnowledges
    <2> QED BY <2>1, ApartKeep
<1>3. CASE SaveKnowledgesDto(r)
    <2>1. PICK S \in SUBSET Chapters : InsertRows(r, S) /\ Close(r, "done")
        BY <1>3 DEF SaveKnowledgesDto
    <2>2. op' = op
        BY <2>1 DEF InsertRows
    <2>3. /\ Purposed(r)' /\ Own(r)' /\ queue'[r] = {}
          /\ \A q \in Requests \ {r} : SameLocals(q)
        BY <2>1, <2>2, ApartClose
    <2>4. Reach(r) /\ Born'
        BY <2>1, <2>3, InsertReach
    <2> QED BY <2>3, <2>4, ApartKept
<1> QED BY <1>1, <1>2, <1>3

LEMMA ApartRefresh ==
    ASSUME Typed, ApartInv, NEW r \in Requests, Refresh(r)
    PROVE  ApartInv'
<1>0. PICK c \in Chapters : c = chapter[r]
    BY DEF Refresh, Typed, LocalOK, TypeOK, ChapterSteps
<1>1. /\ pc[r] = "refresh" /\ pc'[r] = "clear" /\ queue' = queue /\ op' = op
      /\ chapter' = chapter /\ pdf' = pdf /\ UNCHANGED <<rows, vectors>>
      /\ view'[r][c] = rows[c]
      /\ \A q \in Requests \ {r} : SameLocals(q)
    BY <1>0 DEF Refresh, stores, SameLocals, Typed, TypeOK
<1>2. /\ op[r] = "create" /\ queue[r] \subseteq {c} /\ pdf[r] = None
      /\ Purposed(r) /\ Own(r) /\ Born
    BY <1>0, <1>1 DEF ApartInv, Purposed
<1>3. Reach(r)
    BY <1>1 DEF Reach, SameChapter, VectorsOf, Active, Ended
<1>4. Purposed(r)'
    BY <1>1, <1>2 DEF Purposed, Active, Ended, Ingesting
<1>5. Own(r)'
    BY <1>1, <1>2 DEF Own, Agrees, Emptied, Dropped, Unsynced, Progressed, Forgot, Rebuilds,
                      Ingesting
<1>6. Born'
    BY <1>1, <1>2 DEF Born
<1> QED BY <1>3, <1>4, <1>5, <1>6, ApartKept

LEMMA ApartWrite ==
    ASSUME Typed, ApartInv, NEW r \in Requests, WriteRow(r)
    PROVE  ApartInv'
<1>1. PICK c \in Stored(rows) \cap Stored(view[r]), path \in Pdfs \cup {None},
           new \in Row, held \in Row :
        /\ c = chapter[r] /\ ~new.synced
        /\ rows[c] = view[r][c] => held = new
        /\ rows' = [rows EXCEPT ![c] = new]
        /\ view' = [view EXCEPT ![r] = [view[r] EXCEPT ![c] = held]]
        /\ pdf' = [pdf EXCEPT ![r] =
                     IF path # view[r][c].pdf THEN view[r][c].pdf ELSE None]
        /\ pc' = [pc EXCEPT ![r] = IF path # view[r][c].pdf THEN "unlink" ELSE "clear"]
    BY WriteFacts
<1>2. /\ pc[r] = "write" /\ op' = op /\ vectors' = vectors
      /\ queue' = queue /\ chapter' = chapter
    BY DEF WriteRow
<1>3. c \in Chapters /\ c \in queue[r] /\ rows[c] # Unborn
    BY <1>1, <1>2, KnowledgeAssumption DEF Stored, Typed, LocalOK, ChapterSteps
<1>4. /\ op[r] = "update" /\ queue[r] \subseteq {c}
      /\ rows[c] = view[r][c] /\ held = new /\ Born
    BY <1>1, <1>2, <1>3 DEF ApartInv, Purposed, Own, Agrees, Active, Ended, Dropped
<1>5. /\ rows'[c] = new /\ view'[r][c] = new
      /\ \A d \in Chapters \ {c} : rows'[d] = rows[d]
      /\ pc'[r] = "unlink" \/ (pc'[r] = "clear" /\ pdf'[r] = None)
      /\ \A q \in Requests \ {r} : SameLocals(q)
    BY <1>1, <1>2, <1>3, <1>4 DEF SameLocals, Typed, TypeOK
<1>6. Reach(r)
    BY <1>2, <1>3, <1>5 DEF Reach, SameChapter, VectorsOf, Active, Ended
<1>7. Purposed(r)'
    BY <1>1, <1>2, <1>4, <1>5 DEF Purposed, Active, Ended, Ingesting
<1>8. Own(r)'
    BY <1>1, <1>2, <1>4, <1>5 DEF Own, Agrees, Emptied, Dropped, Unsynced, Progressed, Forgot,
                                  Rebuilds, Ingesting
<1>9. Born'
    <2>1. \A d \in Chapters : rows'[d] = Unborn => rows[d] = Unborn
        BY <1>5, KnowledgeAssumption
    <2>2. \A v \in vectors' : v.of \in Chapters /\ v \in vectors
        BY <1>2 DEF Typed, TypeOK, Vector
    <2> QED BY <1>4, <2>1, <2>2, BornKept
<1> QED BY <1>6, <1>7, <1>8, <1>9, ApartKept

(* Rows go, all those the request has read; their vectors are still to be  *)
(* removed.                                                                *)
LEMMA ApartDeleting ==
    ASSUME Typed, ApartInv, NEW r \in Requests, DeleteRows(r) \/ WipeRows(r)
    PROVE  ApartInv'
<1>1. /\ op' = op /\ vectors' = vectors
      /\ UNCHANGED <<view, queue, chapter, pdf>>
      /\ pc[r] \in {"delete", "wipe"}
      /\ pc' = [pc EXCEPT ![r] = IF pc[r] = "delete" THEN "forget" ELSE "rmtree"]
    BY DEF DeleteRows, WipeRows
<1>2. /\ pc'[r] = IF pc[r] = "delete" THEN "forget" ELSE "rmtree"
      /\ \A q \in Requests \ {r} : SameLocals(q)
    BY <1>1 DEF SameLocals, Typed, TypeOK
<1>3. /\ Purposed(r) /\ Own(r) /\ Born /\ Active(r)
      /\ pc[r] = "delete" => op[r] = "delete"
      /\ pc[r] = "wipe" => op[r] = "delete_all"
    BY <1>1 DEF ApartInv, Typed, LocalOK, Active, Ended
<1>4. \A c \in Chapters : rows'[c] = rows[c] \/ rows'[c] = Gone
    BY DEF DeleteRows, WipeRows
<1>5. Born'
    <2>1. \A c \in Chapters : rows'[c] = Unborn => rows[c] = Unborn
        BY <1>4, KnowledgeAssumption
    <2>2. \A v \in vectors' : v.of \in Chapters /\ v \in vectors
        BY <1>1 DEF Typed, TypeOK, Vector
    <2> QED BY <1>3, <2>1, <2>2, BornKept
<1>6. Purposed(r)'
    BY <1>1, <1>2, <1>3 DEF Purposed, Active, Ended, Ingesting
<1>7. CASE DeleteRows(r)
    <2>1. /\ pc[r] = "delete"
          /\ \A c \in Chapters : rows'[c] = IF c \in queue[r] THEN Gone ELSE rows[c]
          /\ queue[r] \subseteq Chapters
        BY <1>7 DEF DeleteRows, Typed, TypeOK
    <2>2. Reach(r)
        BY <1>1, <1>2, <1>3, <2>1 DEF Reach, SameChapter, VectorsOf
    <2>3. Own(r)'
        BY <1>1, <1>2, <2>1 DEF Own, Agrees, Emptied, Dropped, Unsynced, Progressed, Forgot,
                                Rebuilds, Ingesting
    <2> QED BY <1>5, <1>6, <2>2, <2>3, ApartKept
<1>8. CASE WipeRows(r)
    <2>1. pc[r] = "wipe" /\ op[r] = "delete_all" /\ queue[r] = {} /\ vectors = {}
        BY <1>3, <1>8 DEF WipeRows, Purposed, Own, Rebuilds
    <2>2. Stored(rows') = {}
        BY <1>8 DEF WipeRows, Stored
    <2>3. Reach(r)
        BY <1>1, <1>2, <1>3, <2>1 DEF Reach, WholeBot
    <2>4. Own(r)'
        BY <1>1, <1>2, <2>1, <2>2 DEF Own, Agrees, Emptied, Dropped, Unsynced, Progressed,
                                      Forgot, Rebuilds, Ingesting
    <2> QED BY <1>5, <1>6, <2>3, <2>4, ApartKept
<1> QED BY <1>7, <1>8

(* Removing the vectors of the chapter at hand, on its deletion or before  *)
(* it is ingested.                                                         *)
LEMMA ApartRemoving ==
    ASSUME Typed, ApartInv, NEW r \in Requests, ForgetChapter(r) \/ ClearVectors(r)
    PROVE  ApartInv'
<1>0. PICK c \in Chapters : c = chapter[r] /\ c \in queue[r]
    BY DEF ForgetChapter, ClearVectors, Typed, LocalOK, TypeOK, ChapterSteps
<1>1. /\ pc[r] \in {"forget", "clear"} /\ op' = op /\ rows' = rows
      /\ vectors' = vectors \ VectorsOf(c)
      /\ UNCHANGED <<view, queue, chapter>>
      /\ pc' = [pc EXCEPT ![r] = IF pc[r] = "forget" THEN "unlink" ELSE "text"]
      /\ pdf' = IF pc[r] = "forget" THEN [pdf EXCEPT ![r] = view[r][chapter[r]].pdf] ELSE pdf
    BY <1>0 DEF ForgetChapter, ClearVectors, RemoveVectors
<1>2. /\ pc'[r] = IF pc[r] = "forget" THEN "unlink" ELSE "text"
      /\ pdf'[r] = IF pc[r] = "forget" THEN view[r][chapter[r]].pdf ELSE pdf[r]
      /\ \A q \in Requests \ {r} : SameLocals(q)
    BY <1>1 DEF SameLocals, Typed, TypeOK
<1>3. /\ Purposed(r) /\ Own(r) /\ Born /\ Active(r)
      /\ pc[r] = "forget" => op[r] = "delete"
      /\ pc[r] = "clear" => op[r] \in {"create", "update"} /\ queue[r] \subseteq {c}
    BY <1>0, <1>1 DEF ApartInv, Purposed, Typed, LocalOK, Active, Ended
<1>4. /\ VectorsOf(c)' = {}
      /\ \A d : d # c => VectorsOf(d)' = VectorsOf(d)
    BY <1>1, VectorsRemoved
<1>5. Reach(r)
    BY <1>0, <1>1, <1>2, <1>3, <1>4 DEF Reach, SameChapter
<1>6. Purposed(r)'
    BY <1>1, <1>2, <1>3 DEF Purposed, Active, Ended, Ingesting
<1>7. VectorsOf(chapter[r])' = {}
    BY <1>0, <1>1, <1>4 DEF VectorsOf
<1>8. Agrees(r)' /\ Emptied(r)' /\ Unsynced(r)' /\ Forgot(r)' /\ Rebuilds(r)'
    BY <1>1, <1>2, <1>3, <1>7 DEF Own, Agrees, Emptied, Dropped, Unsynced, Forgot, Rebuilds,
                                  Active, Ended, Ingesting
<1>9. Progressed(r)'
    <2>1. CASE pc[r] = "forget"
        BY <1>2, <2>1 DEF Progressed, Ingesting
    <2>2. CASE pc[r] = "clear"
        <3>1. Ingested(r)' = {}
            BY <1>2, <2>2 DEF Ingested
        <3>2. Entries(r, chapter[r], Ingested(r))' = {}
            BY <3>1 DEF Entries
        <3>3. queue'[r] \ {chapter'[r]} = {} /\ pc'[r] = "text"
            BY <1>0, <1>1, <1>2, <1>3, <2>2
        <3> QED BY <1>7, <3>2, <3>3 DEF Progressed
    <2> QED BY <1>1, <2>1, <2>2
<1>10. Born'
    BY <1>1, <1>3 DEF Born
<1> QED BY <1>5, <1>6, <1>8, <1>9, <1>10, ApartKept DEF Own

LEMMA ApartRemovePdf ==
    ASSUME Typed, ApartInv, NEW r \in Requests, RemovePdf(r)
    PROVE  ApartInv'
<1>1. pc[r] = "unlink" /\ op' = op /\ UNCHANGED <<rows, vectors>>
    BY DEF RemovePdf
<1>2. /\ Purposed(r) /\ Own(r) /\ Born /\ Active(r) /\ chapter[r] \in queue[r]
      /\ op[r] \in {"update", "delete"}
      /\ op[r] = "update" => queue[r] \subseteq {chapter[r]}
    BY <1>1 DEF ApartInv, Purposed, Typed, LocalOK, ChapterSteps, Active, Ended
<1>3. \A c \in Chapters : SameChapter(c)
    BY <1>1 DEF SameChapter, VectorsOf
<1>4. Born'
    BY <1>1, <1>2 DEF Born
<1>5. /\ Purposed(r)' /\ Own(r)' /\ queue'[r] \subseteq queue[r]
      /\ \A q \in Requests \ {r} : SameLocals(q)
    <2>1. CASE op[r] = "delete" /\ Close(r, "done")
        BY <1>1, <2>1, ApartClose
    <2>2. CASE op[r] = "delete" /\ ~Close(r, "done")
        <3>1. PICK c \in queue[r] \ {chapter[r]} : chapter' = [chapter EXCEPT ![r] = c]
            BY <2>2 DEF RemovePdf, Proceed
        <3>2. /\ pc' = [pc EXCEPT ![r] = "forget"]
              /\ queue' = [queue EXCEPT ![r] = queue[r] \ {chapter[r]}]
              /\ pdf' = [pdf EXCEPT ![r] = None]
              /\ UNCHANGED view
            BY <2>2 DEF RemovePdf, Proceed
        <3>3. /\ pc'[r] = "forget" /\ queue'[r] \subseteq queue[r] /\ pdf'[r] = None
              /\ \A q \in Requests \ {r} : SameLocals(q)
            BY <1>1, <3>1, <3>2 DEF SameLocals, Typed, TypeOK
        <3>4. Purposed(r)'
            BY <1>1, <2>2, <3>3 DEF Purposed, Active, Ended, Ingesting
        <3>5. Own(r)'
            BY <1>1, <1>2, <2>2, <3>3 DEF Own, Agrees, Emptied, Dropped, Unsynced, Progressed,
                                          Forgot, Rebuilds, Ingesting
        <3> QED BY <3>3, <3>4, <3>5
    <2>3. CASE op[r] # "delete"
        <3>1. /\ pc' = [pc EXCEPT ![r] = "clear"]
              /\ pdf' = [pdf EXCEPT ![r] = None]
              /\ UNCHANGED <<view, queue, chapter>>
            BY <2>3 DEF RemovePdf
        <3>2. /\ pc'[r] = "clear" /\ pdf'[r] = None /\ op[r] = "update"
              /\ \A q \in Requests \ {r} : SameLocals(q)
            BY <1>1, <1>2, <2>3, <3>1 DEF SameLocals, Typed, TypeOK
        <3>3. Purposed(r)'
            BY <1>1, <1>2, <3>1, <3>2 DEF Purposed, Active, Ended, Ingesting
        <3>4. Own(r)'
            BY <1>1, <1>2, <3>1, <3>2 DEF Own, Agrees, Emptied, Dropped, Unsynced, Progressed,
                                          Forgot, Rebuilds, Ingesting
        <3> QED BY <3>1, <3>2, <3>3, <3>4
    <2> QED BY <2>1, <2>2, <2>3
<1>6. Reach(r)
    BY <1>1, <1>2, <1>3, <1>5 DEF Reach
<1> QED BY <1>4, <1>5, <1>6, ApartKept

LEMMA ApartEmpty ==
    ASSUME Typed, ApartInv, NEW r \in Requests, EmptyCollection(r)
    PROVE  ApartInv'
<1>1. pc[r] = "empty" /\ op' = op /\ rows' = rows /\ vectors' = {}
    BY DEF EmptyCollection
<1>2. /\ Purposed(r) /\ Own(r) /\ Active(r) /\ op[r] \in WholeBot
      /\ queue[r] \subseteq Chapters /\ Born'
    BY <1>1 DEF ApartInv, Typed, TypeOK, LocalOK, Active, Ended, Born
<1>3. \A c : VectorsOf(c)' = {}
    BY <1>1 DEF VectorsOf
<1>4. /\ Purposed(r)' /\ Own(r)' /\ queue'[r] \subseteq queue[r]
      /\ \A q \in Requests \ {r} : SameLocals(q)
    <2>1. CASE op[r] = "reindex"
        <3>1. Proceed(r, queue[r], "text")
            BY <2>1 DEF EmptyCollection
        <3>2. \A c \in queue[r] : view[r][c] = rows[c]
            BY <1>1, <1>2, <2>1 DEF Own, Agrees, Dropped
        <3>3. ASSUME NEW c \in Chapters \ queue[r]
              PROVE  Indexed(c)'
            <4>1. c \notin Stored(rows')
                BY <1>1, <1>2, <2>1 DEF Own, Rebuilds
            <4> QED BY <1>3, <4>1 DEF Indexed
        <3> HIDE DEF Own, Indexed, Purposed
        <3> QED BY <1>1, <1>3, <2>1, <3>1, <3>2, <3>3, ApartIngest
    <2>2. CASE op[r] # "reindex"
        <3>1. pc' = [pc EXCEPT ![r] = "wipe"] /\ UNCHANGED <<view, queue, chapter, pdf>>
            BY <2>2 DEF EmptyCollection
        <3>2. /\ pc'[r] = "wipe" /\ op[r] = "delete_all" /\ queue[r] = {}
              /\ \A q \in Requests \ {r} : SameLocals(q)
            BY <1>1, <1>2, <2>2, <3>1 DEF Purposed, SameLocals, WholeBot, Typed, TypeOK
        <3>3. Purposed(r)'
            BY <1>1, <1>2, <3>1, <3>2 DEF Purposed, Active, Ended, Ingesting
        <3>4. Own(r)'
            BY <1>1, <3>1, <3>2 DEF Own, Agrees, Emptied, Dropped, Unsynced, Progressed,
                                    Forgot, Rebuilds, Ingesting
        <3> QED BY <3>1, <3>2, <3>3, <3>4
    <2> QED BY <2>1, <2>2
<1>5. Reach(r)
    BY <1>1, <1>2, <1>4 DEF Reach
<1> QED BY <1>2, <1>4, <1>5, ApartKept

(* The text of a chapter, then its PDF. *)
LEMMA IngestFacts ==
    ASSUME Typed, ApartInv, NEW r \in Requests, IngestText(r) \/ IngestPdf(r),
           NEW c \in Chapters, c = chapter[r]
    PROVE  /\ c \in queue[r] /\ pc[r] \in {"text", "pdf"} /\ view[r][c] \in Row
           /\ UNCHANGED <<rows, op, view, queue, chapter, pdf>>
           /\ pc' = [pc EXCEPT ![r] =
                       IF pc[r] = "text" /\ view[r][c].pdf # None THEN "pdf" ELSE "stamp"]
           /\ \E X \in SUBSET (Texts \cup Pdfs) :
                 vectors' = vectors \cup Entries(r, c, X)
           /\ VectorsOf(c)' = Entries(r, c, Ingested(r)')
           /\ \A d : d # c => VectorsOf(d)' = VectorsOf(d)
<1>1. c \in queue[r] /\ pc[r] \in {"text", "pdf"} /\ view[r][c] \in Row
    BY StoredRow DEF IngestText, IngestPdf, Typed, TypeOK, LocalOK, ChapterSteps
<1> DEFINE row == view[r][c]
           X == IF pc[r] = "text" THEN {row.text} \ {Empty} ELSE {row.pdf}
<1>2. /\ UNCHANGED <<rows, op, view, queue, chapter, pdf>>
      /\ pc' = [pc EXCEPT ![r] = IF pc[r] = "text" /\ row.pdf # None THEN "pdf" ELSE "stamp"]
      /\ vectors' = vectors \cup Entries(r, c, X)
      /\ pc[r] = "pdf" => row.pdf \in Pdfs
    BY DEF IngestText, IngestPdf, Typed, TypeOK
<1>3. X \in SUBSET (Texts \cup Pdfs)
    BY <1>1, <1>2, RowFields
<1>4. /\ VectorsOf(c) = Entries(r, c, Ingested(r))
      /\ pc[r] = "pdf" => row.pdf # None
    BY <1>1 DEF ApartInv, Own, Progressed, Ingesting
<1>5. Ingested(r)' = Ingested(r) \cup X
    <2>1. pc'[r] = IF pc[r] = "text" /\ row.pdf # None THEN "pdf" ELSE "stamp"
        BY <1>2 DEF Typed, TypeOK
    <2>2. /\ view'[r][chapter'[r]] = row
          /\ Ingested(r) = IF pc[r] = "text" THEN {} ELSE {row.text} \ {Empty}
        BY <1>1, <1>2 DEF Ingested
    <2>3. Ingested(r)' = IF pc[r] = "text" /\ row.pdf # None THEN {row.text} \ {Empty}
                         ELSE Contents(row)
        BY <2>1, <2>2 DEF Ingested, Contents
    <2> QED BY <1>1, <1>4, <2>2, <2>3 DEF Contents
<1> HIDE DEF X
<1>6. /\ VectorsOf(c)' = VectorsOf(c) \cup Entries(r, c, X)
      /\ \A d : d # c => VectorsOf(d)' = VectorsOf(d)
    BY <1>2, VectorsAdded
<1>7. Entries(r, c, Ingested(r)) \cup Entries(r, c, X) = Entries(r, c, Ingested(r) \cup X)
    BY DEF Entries
<1> HIDE DEF Entries
<1> QED BY <1>1, <1>2, <1>3, <1>4, <1>5, <1>6, <1>7

LEMMA ApartIngesting ==
    ASSUME Typed, ApartInv, NEW r \in Requests, IngestText(r) \/ IngestPdf(r)
    PROVE  ApartInv'
<1>0. PICK c \in Chapters : c = chapter[r]
    BY DEF IngestText, IngestPdf, Typed, TypeOK, LocalOK, ChapterSteps
<1>1. /\ c \in queue[r] /\ pc[r] \in {"text", "pdf"}
      /\ UNCHANGED <<rows, op, view, queue, chapter, pdf>>
      /\ pc' = [pc EXCEPT ![r] =
                  IF pc[r] = "text" /\ view[r][c].pdf # None THEN "pdf" ELSE "stamp"]
      /\ VectorsOf(c)' = Entries(r, c, Ingested(r)')
      /\ \A d : d # c => VectorsOf(d)' = VectorsOf(d)
    BY <1>0, IngestFacts
<1>2. PICK X \in SUBSET (Texts \cup Pdfs) : vectors' = vectors \cup Entries(r, c, X)
    BY <1>0, IngestFacts
<1>3. /\ pc'[r] = IF pc[r] = "text" /\ view[r][c].pdf # None THEN "pdf" ELSE "stamp"
      /\ \A q \in Requests \ {r} : SameLocals(q)
    BY <1>1 DEF SameLocals, Typed, TypeOK
<1>4. /\ Purposed(r) /\ Own(r) /\ Born /\ Active(r) /\ ~Dropped(r)
      /\ queue[r] \subseteq Chapters
    BY <1>1 DEF ApartInv, Active, Ended, Dropped, Typed, TypeOK
<1>5. Reach(r)
    BY <1>0, <1>1, <1>3, <1>4 DEF Reach, SameChapter
<1>6. Purposed(r)'
    BY <1>1, <1>3, <1>4 DEF Purposed, Active, Ended, Ingesting
<1>7. Agrees(r)' /\ Emptied(r)' /\ Unsynced(r)' /\ Forgot(r)'
    BY <1>1, <1>3, <1>4 DEF Own, Agrees, Emptied, Dropped, Unsynced, Forgot,
                            Active, Ended, Ingesting
<1>8. Progressed(r)'
    <2>1. /\ chapter'[r] = c /\ queue'[r] = queue[r] /\ view'[r] = view[r]
          /\ VectorsOf(chapter[r])' = VectorsOf(c)'
        BY <1>0, <1>1 DEF VectorsOf
    <2>2. Entries(r, chapter[r], Ingested(r))' = Entries(r, c, Ingested(r)')
        BY <2>1 DEF Entries
    <2>3. \A d \in queue[r] \ {c} : VectorsOf(d)' = {}
        BY <1>0, <1>1, <1>4 DEF Own, Progressed, Ingesting
    <2>4. pc'[r] = "pdf" => view'[r][chapter'[r]].pdf # None
        BY <1>3, <2>1
    <2>5. VectorsOf(chapter[r])' = Entries(r, chapter[r], Ingested(r))'
        BY <1>1, <2>1, <2>2
    <2> HIDE DEF Entries, Ingested
    <2> QED BY <2>1, <2>3, <2>4, <2>5 DEF Progressed
<1>9. Rebuilds(r)'
    <2>1. \A d \in Chapters \ queue[r] : Indexed(d)' <=> Indexed(d)
        BY <1>1, IndexedKept DEF SameChapter
    <2>2. op[r] = "reindex" => \A d \in Chapters \ queue[r] : Indexed(d)
        BY <1>1, <1>4 DEF Own, Rebuilds, Ingesting
    <2>3. op'[r] = op[r] /\ queue'[r] = queue[r]
        BY <1>1
    <2> HIDE DEF Indexed
    <2> QED BY <1>3, <2>1, <2>2, <2>3 DEF Rebuilds
<1>10. Born'
    <2>1. rows[c] # Unborn
        BY <1>1, <1>4, QueueBorn
    <2>2. \A v \in vectors' : v.of \in Chapters /\ (v \in vectors \/ v.of = c)
        BY <1>2 DEF Entries, Typed, TypeOK, Vector
    <2> QED BY <1>1, <1>4, <2>1, <2>2, BornKept
<1> QED BY <1>5, <1>6, <1>7, <1>8, <1>9, <1>10, ApartKept DEF Own

(* Entries by one request hold their contents, each once. *)
LEMMA EntriesContents ==
    ASSUME NEW r, NEW c, NEW X
    PROVE  /\ {v.content : v \in Entries(r, c, X)} = X
           /\ \A v, w \in Entries(r, c, X) : v.content = w.content => v = w
<1> DEFINE E(x) == [of |-> c, content |-> x, by |-> r]
<1>1. \A x : E(x).content = x
    OBVIOUS
<1>2. Entries(r, c, X) = {E(x) : x \in X}
    BY DEF Entries
<1> HIDE DEF E
<1> QED BY <1>1, <1>2

(* A chapter is indexed as it is stored when it is stamped. *)
LEMMA StampIndexes ==
    ASSUME Typed, ApartInv, NEW r \in Requests, StampSynced(r),
           NEW c \in Chapters, c = chapter[r]
    PROVE  /\ c \in queue[r] /\ c \in Stored(rows) /\ Indexed(c)'
           /\ rows'[c] \in Row /\ \A d \in Chapters \ {c} : rows'[d] = rows[d]
<1>1. /\ pc[r] = "stamp" /\ c \in Stored(rows) /\ c \in queue[r] /\ rows[c] \in Row
      /\ vectors' = vectors
    BY StoredRow DEF StampSynced, Typed, TypeOK, LocalOK, ChapterSteps
<1> DEFINE new == [rows[c] EXCEPT !.synced = TRUE]
<1>2. new \in Row /\ new.text = rows[c].text /\ new.pdf = rows[c].pdf
    BY <1>1 DEF Row
<1>3. rows' = [rows EXCEPT ![c] = new]
    BY DEF StampSynced
<1> HIDE DEF new
<1>4. rows'[c] = new /\ \A d \in Chapters \ {c} : rows'[d] = rows[d]
    BY <1>3 DEF Typed, TypeOK
<1>5. /\ VectorsOf(c) = Entries(r, c, Contents(view[r][c]))
      /\ view[r][c] = rows[c]
    BY <1>1 DEF ApartInv, Own, Progressed, Agrees, Ingested, Ingesting, Active, Ended, Dropped
<1>6. Contents(new) = Contents(rows[c])
    BY <1>2 DEF Contents
<1>7. VectorsOf(c)' = Entries(r, c, Contents(new))
    BY <1>1, <1>5, <1>6 DEF VectorsOf
<1>8. c \in Stored(rows')
    BY <1>2, <1>4, KnowledgeAssumption DEF Stored
<1>9. /\ {v.content : v \in Entries(r, c, Contents(new))} = Contents(new)
      /\ \A v, w \in Entries(r, c, Contents(new)) : v.content = w.content => v = w
    BY EntriesContents
<1>10. Contents(rows[c])' = Contents(new)
    BY <1>4 DEF Contents
<1>11. Indexed(c)'
    BY <1>7, <1>8, <1>9, <1>10 DEF Indexed
<1> QED BY <1>1, <1>2, <1>4, <1>11

LEMMA ApartStamp ==
    ASSUME Typed, ApartInv, NEW r \in Requests, StampSynced(r)
    PROVE  ApartInv'
<1>0. PICK c \in Chapters : c = chapter[r]
    BY DEF StampSynced, Typed, TypeOK, LocalOK, ChapterSteps
<1>1. /\ c \in queue[r] /\ c \in Stored(rows) /\ Indexed(c)' /\ rows'[c] \in Row
      /\ \A d \in Chapters \ {c} : rows'[d] = rows[d]
    BY <1>0, StampIndexes
<1>2. /\ pc[r] = "stamp" /\ vectors' = vectors /\ op' = op
      /\ Proceed(r, queue[r] \ {c}, "text")
    BY <1>0 DEF StampSynced
<1>3. /\ Purposed(r) /\ Own(r) /\ Born /\ Active(r)
      /\ op[r] \in {"create", "update", "import", "reindex"}
      /\ queue[r] \subseteq Chapters
      /\ op[r] \in {"create", "update"} => queue[r] \subseteq {c}
    BY <1>0, <1>2 DEF ApartInv, Purposed, Ingesting, Active, Ended, Typed, TypeOK
<1>4. \A d : VectorsOf(d)' = VectorsOf(d)
    BY <1>2 DEF VectorsOf
<1>5. \A d \in queue[r] \ {c} : /\ VectorsOf(d)' = {} /\ view[r][d] = rows'[d]
                                /\ op[r] # "reindex" => ~rows'[d].synced
    BY <1>0, <1>1, <1>2, <1>3, <1>4 DEF Own, Progressed, Agrees, Unsynced, Dropped, Ingesting
<1>6. op[r] = "reindex" => \A d \in Chapters \ (queue[r] \ {c}) : Indexed(d)'
    <2>1. \A d \in Chapters \ {c} : Indexed(d)' <=> Indexed(d)
        BY <1>1, <1>4, IndexedKept DEF SameChapter
    <2>2. op[r] = "reindex" => \A d \in Chapters \ queue[r] : Indexed(d)
        BY <1>2, <1>3 DEF Own, Rebuilds, Ingesting
    <2> HIDE DEF Indexed
    <2> QED BY <1>1, <2>1, <2>2
<1>7. queue[r] \ {c} \in SUBSET queue[r]
    OBVIOUS
<1>8. /\ Purposed(r)' /\ Own(r)' /\ queue'[r] \subseteq queue[r]
      /\ \A q \in Requests \ {r} : SameLocals(q)
    <2> HIDE DEF Own, Purposed, Indexed
    <2> QED BY <1>2, <1>3, <1>5, <1>6, <1>7, ApartIngest
<1>9. Reach(r)
    BY <1>1, <1>2, <1>3, <1>4, <1>8 DEF Reach, SameChapter
<1>10. Born'
    BY <1>1, <1>2, <1>3, KnowledgeAssumption DEF Born, Stored, Typed, TypeOK, Vector
<1> QED BY <1>8, <1>9, <1>10, ApartKept

(* The end of a delete_all, and of a request that fails. *)
LEMMA ApartEnding ==
    ASSUME Typed, ApartInv, NEW r \in Requests, RemoveFolder(r) \/ Fail(r)
    PROVE  ApartInv'
<1>1. /\ Active(r) /\ op' = op /\ UNCHANGED <<rows, vectors>>
      /\ Close(r, "done") \/ Close(r, "failed")
    BY DEF RemoveFolder, Fail, stores, Active, Ended
<1>2. /\ Purposed(r)' /\ Own(r)' /\ queue'[r] = {}
      /\ \A q \in Requests \ {r} : SameLocals(q)
    BY <1>1, ApartClose
<1>3. Reach(r)
    BY <1>1, <1>2 DEF Reach, SameChapter, VectorsOf
<1>4. Born'
    BY <1>1 DEF ApartInv, Born
<1> QED BY <1>2, <1>3, <1>4, ApartKept

LEMMA ApartInit ==
    ASSUME Init
    PROVE  ApartInv
<1>1. \A r \in Requests : pc[r] = "idle" /\ op[r] = None /\ queue[r] = {} /\ pdf[r] = None
    BY DEF Init
<1>2. \A r \in Requests : Purposed(r) /\ Own(r)
    BY <1>1, KnowledgeAssumption
       DEF Purposed, Own, Agrees, Emptied, Dropped, Unsynced, Progressed, Forgot, Rebuilds,
           Active, Ended, Ingesting
<1>3. Exclusion
    BY <1>1 DEF Exclusion, Active, Ended
<1>4. Born
    <2>1. \A v \in vectors : v.of \in Stored(Library)
        BY DEF Init, Entries
    <2> QED BY <2>1 DEF Init, Born, Stored
<1> QED BY <1>2, <1>3, <1>4 DEF ApartInv

(* What a request relies on is true after every step of any. *)
LEMMA ApartStep ==
    ASSUME ~Overlap, Typed, ApartInv, [Next]_vars
    PROVE  ApartInv'
<1>1. CASE UNCHANGED vars
    <2>1. UNCHANGED <<rows, vectors>> /\ \A q \in Requests : SameLocals(q)
        BY <1>1 DEF vars, stores, locals, SameLocals
    <2>2. \A q \in Requests : queue[q] \subseteq Chapters
        BY DEF Typed, TypeOK
    <2>3. \A d \in Chapters : SameChapter(d)
        BY <2>1 DEF SameChapter, VectorsOf
    <2>4. \A q \in Requests : Purposed(q)'
        BY <2>1 DEF ApartInv, Purposed, SameLocals, Active
    <2>5. \A q \in Requests : Own(q)'
        <3> HIDE DEF Own
        <3> QED BY <2>1, <2>2, <2>3, OwnKept DEF ApartInv
    <2>6. Exclusion' /\ Born'
        BY <2>1 DEF ApartInv, Exclusion, Born, SameLocals, Active
    <2> QED BY <2>4, <2>5, <2>6 DEF ApartInv
<1> QED BY <1>1, ApartBeginAny, ApartSavePdf, ApartInserting, ApartRefresh, ApartWrite,
           ApartDeleting, ApartRemoving, ApartRemovePdf, ApartEmpty, ApartIngesting,
           ApartStamp, ApartEnding DEF Next

-----------------------------------------------------------------------------
(* Chapters marked as synced *)

\* The steps of a request after its first.
Works(r) ==
    \/ SavePdf(r) \/ CreateKnowledge(r) \/ SaveImportedKnowledges(r)
    \/ SaveKnowledgesDto(r) \/ Refresh(r) \/ WriteRow(r) \/ DeleteRows(r)
    \/ WipeRows(r) \/ ForgetChapter(r) \/ RemovePdf(r) \/ EmptyCollection(r)
    \/ RemoveFolder(r) \/ ClearVectors(r) \/ IngestText(r) \/ IngestPdf(r)
    \/ StampSynced(r) \/ Fail(r)

(* A step begins a request or is the work of one. *)
LEMMA NextIsWork ==
    ASSUME Next
    PROVE  \E r \in Requests : BeginAny(r) \/ Works(r)
BY DEF Next, Works

(* Beginning changes neither the stores nor what others have in hand. *)
LEMMA BeginFacts ==
    ASSUME Typed, NEW r \in Requests, BeginAny(r)
    PROVE  /\ \A q \in Requests \ {r} : SameLocals(q)
           /\ pc[r] = "idle" /\ pc'[r] \notin Ended /\ UNCHANGED stores
           /\ pdf'[r] = pdf[r]
<1>1. ASSUME NEW o, NEW S, NEW c,
             NEW step \in {"upload", "insert", "write", "delete", "empty"},
             Begin(r, o, S, c, step)
      PROVE  /\ \A q \in Requests \ {r} : SameLocals(q)
             /\ pc[r] = "idle" /\ pc'[r] \notin Ended /\ UNCHANGED stores
             /\ pdf'[r] = pdf[r]
    BY <1>1 DEF Begin, SameLocals, Ended, Typed, TypeOK
<1> QED BY <1>1 DEF BeginAny, BeginCreate, BeginUpdate, BeginDelete, BeginImport,
                    BeginTemplate, BeginReindex, BeginDeleteAll

(* Nor does working change what others have in hand. *)
LEMMA WorkFacts ==
    ASSUME Typed, NEW r \in Requests, Works(r)
    PROVE  /\ \A q \in Requests \ {r} : SameLocals(q)
           /\ op' = op /\ Active(r)
<1>1. op' = op /\ Active(r)
    BY DEF Works, Active, Ended, SavePdf, CreateKnowledge, SaveImportedKnowledges,
           SaveKnowledgesDto, InsertRows, Refresh, WriteRow, DeleteRows, WipeRows,
           ForgetChapter, RemovePdf, EmptyCollection, RemoveFolder, ClearVectors,
           IngestText, IngestPdf, StampSynced, Fail
<1> SUFFICES ASSUME NEW q \in Requests \ {r}
             PROVE  SameLocals(q)
    BY <1>1
<1>2. DOMAIN pc = Requests /\ DOMAIN view = Requests /\ DOMAIN queue = Requests
      /\ DOMAIN chapter = Requests /\ DOMAIN pdf = Requests
    BY DEF Typed, TypeOK
<1>3. ASSUME NEW outcome, Close(r, outcome)
      PROVE  SameLocals(q)
    BY <1>1, <1>2, <1>3 DEF Close, SameLocals
<1>4. ASSUME NEW rest, NEW step, Proceed(r, rest, step)
      PROVE  SameLocals(q)
    <2>1. CASE Close(r, "done")
        BY <1>3, <2>1
    <2>2. CASE ~Close(r, "done")
        BY <1>1, <1>2, <1>4, <2>2 DEF Proceed, SameLocals
    <2> QED BY <2>1, <2>2
<1>5. CASE SavePdf(r)
    <2>1. CASE Close(r, "done")
        BY <1>3, <2>1
    <2>2. CASE ~Close(r, "done")
        BY <1>1, <1>2, <1>5, <2>2 DEF SavePdf, SameLocals
    <2> QED BY <2>1, <2>2
<1>6. CASE CreateKnowledge(r) \/ SaveImportedKnowledges(r)
    <2>1. PICK S \in SUBSET Chapters, c \in Chapters, step \in {"refresh", "text"} :
            KeepInserted(r, S, c, step)
        BY <1>6 DEF CreateKnowledge, SaveImportedKnowledges
    <2> QED BY <1>1, <1>2, <2>1 DEF KeepInserted, SameLocals
<1>7. CASE SaveKnowledgesDto(r) \/ RemoveFolder(r) \/ Fail(r)
    BY <1>3, <1>7 DEF SaveKnowledgesDto, RemoveFolder, Fail
<1>8. CASE Refresh(r)
    BY <1>1, <1>2, <1>8 DEF Refresh, SameLocals
<1>9. CASE WriteRow(r)
    <2>1. PICK c \in Stored(rows) \cap Stored(view[r]), path \in Pdfs \cup {None},
               new \in Row, held \in Row :
            /\ view' = [view EXCEPT ![r] = [view[r] EXCEPT ![c] = held]]
            /\ pdf' = [pdf EXCEPT ![r] =
                         IF path # view[r][c].pdf THEN view[r][c].pdf ELSE None]
            /\ pc' = [pc EXCEPT ![r] = IF path # view[r][c].pdf THEN "unlink" ELSE "clear"]
        BY <1>9, WriteFacts
    <2>2. UNCHANGED <<op, queue, chapter>>
        BY <1>9 DEF WriteRow
    <2> QED BY <1>2, <2>1, <2>2 DEF SameLocals
<1>10. CASE DeleteRows(r) \/ WipeRows(r)
    BY <1>1, <1>2, <1>10 DEF DeleteRows, WipeRows, SameLocals
<1>11. CASE ForgetChapter(r)
    BY <1>1, <1>2, <1>11 DEF ForgetChapter, SameLocals
<1>12. CASE RemovePdf(r)
    <2>1. CASE op[r] = "delete"
        BY <1>4, <1>12, <2>1 DEF RemovePdf
    <2>2. CASE op[r] # "delete"
        BY <1>1, <1>2, <1>12, <2>2 DEF RemovePdf, SameLocals
    <2> QED BY <2>1, <2>2
<1>13. CASE EmptyCollection(r)
    <2>1. CASE op[r] = "reindex"
        BY <1>4, <1>13, <2>1 DEF EmptyCollection
    <2>2. CASE op[r] # "reindex"
        BY <1>1, <1>2, <1>13, <2>2 DEF EmptyCollection, SameLocals
    <2> QED BY <2>1, <2>2
<1>14. CASE ClearVectors(r) \/ IngestText(r) \/ IngestPdf(r)
    <2>1. PICK step \in Steps : pc' = [pc EXCEPT ![r] = step]
        BY <1>14 DEF ClearVectors, IngestText, IngestPdf, Steps
    <2>2. UNCHANGED <<op, view, queue, chapter, pdf>>
        BY <1>14 DEF ClearVectors, IngestText, IngestPdf
    <2> QED BY <1>2, <2>1, <2>2 DEF SameLocals
<1>15. CASE StampSynced(r)
    BY <1>4, <1>15 DEF StampSynced
<1> QED BY <1>5, <1>6, <1>7, <1>8, <1>9, <1>10, <1>11, <1>12, <1>13, <1>14, <1>15
        DEF Works

(* A request for some chapters leaves the others, and its own indexed,     *)
(* marked as not synced, or deleted.                                       *)
LEMMA StepMarks ==
    ASSUME Typed, ApartInv, NEW r \in Requests, Works(r), op[r] \notin WholeBot,
           NEW c \in Stored(rows')
    PROVE  SameChapter(c) \/ ~rows'[c].synced \/ Indexed(c)'
<1>0. c \in Chapters /\ rows'[c] # Gone
    BY DEF Stored
<1>1. /\ ~(pc[r] \in {"empty", "wipe", "rmtree"})
      /\ pc[r] \in ChapterSteps => chapter[r] \in queue[r] /\ chapter[r] \in Chapters
    BY DEF Typed, TypeOK, LocalOK, WholeBot
<1>2. Purposed(r) /\ Own(r)
    BY DEF ApartInv
<1>3. CASE SavePdf(r) \/ Refresh(r) \/ RemovePdf(r) \/ Fail(r)
    BY <1>3 DEF SavePdf, Refresh, RemovePdf, Fail, stores, SameChapter, VectorsOf
<1>4. CASE CreateKnowledge(r) \/ SaveImportedKnowledges(r) \/ SaveKnowledgesDto(r)
    <2>1. PICK S \in SUBSET Chapters : InsertRows(r, S)
        BY <1>4 DEF CreateKnowledge, SaveImportedKnowledges, SaveKnowledgesDto
    <2>2. c \in S => ~rows'[c].synced
        BY <2>1, TypedInsert
    <2>3. c \notin S => rows'[c] = rows[c]
        BY <1>0, <2>1, TypedInsert
    <2>4. vectors' = vectors
        BY <2>1 DEF InsertRows
    <2> QED BY <2>2, <2>3, <2>4 DEF SameChapter, VectorsOf
<1>5. CASE WriteRow(r)
    <2>1. PICK d \in Stored(rows) \cap Stored(view[r]), path \in Pdfs \cup {None},
               new \in Row, held \in Row :
            d = chapter[r] /\ ~new.synced /\ rows' = [rows EXCEPT ![d] = new]
        BY <1>5, WriteFacts
    <2>2. rows'[c] = IF c = d THEN new ELSE rows[c]
        BY <1>0, <2>1 DEF Typed, TypeOK
    <2>3. vectors' = vectors
        BY <1>5 DEF WriteRow
    <2> QED BY <2>1, <2>2, <2>3 DEF SameChapter, VectorsOf
<1>6. CASE DeleteRows(r)
    BY <1>0, <1>6 DEF DeleteRows, SameChapter, VectorsOf
<1>7. CASE ForgetChapter(r)
    <2>1. rows' = rows /\ vectors' = vectors \ VectorsOf(chapter[r]) /\ Dropped(r)
        BY <1>7 DEF ForgetChapter, RemoveVectors, Dropped
    <2>2. c # chapter[r]
        BY <1>0, <1>1, <1>2, <1>7, <2>1 DEF ForgetChapter, ChapterSteps, Own, Emptied
    <2> QED BY <2>1, <2>2, VectorsRemoved DEF SameChapter
<1>8. CASE ClearVectors(r)
    <2>1. rows' = rows /\ vectors' = vectors \ VectorsOf(chapter[r]) /\ pc[r] = "clear"
        BY <1>8 DEF ClearVectors, RemoveVectors
    <2>2. CASE c = chapter[r]
        BY <1>1, <1>2, <2>1, <2>2 DEF ChapterSteps, Own, Unsynced, WholeBot
    <2>3. CASE c # chapter[r]
        BY <2>1, <2>3, VectorsRemoved DEF SameChapter
    <2> QED BY <2>2, <2>3
<1>9. CASE IngestText(r) \/ IngestPdf(r)
    <2>1. pc[r] \in {"text", "pdf"} /\ rows' = rows
        BY <1>9 DEF IngestText, IngestPdf
    <2>2. CASE c = chapter[r]
        BY <1>1, <1>2, <2>1, <2>2 DEF ChapterSteps, Ingesting, Own, Unsynced, WholeBot
    <2>3. CASE c # chapter[r]
        <3>1. PICK d \in Chapters : d = chapter[r]
            BY <1>1, <2>1 DEF ChapterSteps
        <3>2. \A e : e # d => VectorsOf(e)' = VectorsOf(e)
            BY <1>9, <3>1, IngestFacts
        <3> QED BY <2>1, <2>3, <3>1, <3>2 DEF SameChapter
    <2> QED BY <2>2, <2>3
<1>10. CASE StampSynced(r)
    <2>1. PICK d \in Chapters : d = chapter[r]
        BY <1>1, <1>10 DEF StampSynced, ChapterSteps
    <2>2. Indexed(d)' /\ \A e \in Chapters \ {d} : rows'[e] = rows[e]
        BY <1>10, <2>1, StampIndexes
    <2>3. vectors' = vectors
        BY <1>10 DEF StampSynced
    <2>4. CASE c = d
        BY <2>2, <2>4
    <2>5. CASE c # d
        BY <1>0, <2>2, <2>3, <2>5 DEF SameChapter, VectorsOf
    <2> QED BY <2>4, <2>5
<1>11. ~(EmptyCollection(r) \/ RemoveFolder(r) \/ WipeRows(r))
    BY <1>1 DEF EmptyCollection, RemoveFolder, WipeRows
<1> QED BY <1>3, <1>4, <1>5, <1>6, <1>7, <1>8, <1>9, <1>10, <1>11 DEF Works

(* A request for the whole bot that completes leaves every chapter as      *)
(* indexed, and a delete_all leaves none.                                  *)
LEMMA WholeBotDone ==
    ASSUME Typed, ApartInv, NEW r \in Requests, Works(r), op[r] \in WholeBot,
           pc'[r] = "done"
    PROVE  \A c \in Chapters : Indexed(c)'
<1>1. /\ Purposed(r) /\ Own(r) /\ queue[r] \subseteq Chapters
      /\ pc[r] \in {"empty", "wipe", "rmtree"} \cup Ingesting \cup {"idle", "done", "failed"}
    BY DEF ApartInv, Purposed, Typed, TypeOK, LocalOK, WholeBot, Steps, Ended, Ingesting
<1>2. Active(r)
    BY WorkFacts
<1>3. pc[r] \in {"empty", "wipe", "rmtree", "text", "pdf", "stamp"}
    BY <1>1, <1>2 DEF Active, Ended, Ingesting
<1>4. ~(SavePdf(r) \/ Refresh(r) \/ RemovePdf(r) \/ CreateKnowledge(r)
        \/ SaveImportedKnowledges(r) \/ SaveKnowledgesDto(r) \/ WriteRow(r)
        \/ DeleteRows(r) \/ ForgetChapter(r) \/ ClearVectors(r))
    BY <1>3 DEF SavePdf, Refresh, RemovePdf, CreateKnowledge, SaveImportedKnowledges,
                SaveKnowledgesDto, InsertRows, WriteRow, DeleteRows, ForgetChapter,
                ClearVectors
<1>5. ~(WipeRows(r) \/ IngestText(r) \/ IngestPdf(r) \/ Fail(r))
    BY DEF WipeRows, IngestText, IngestPdf, Fail, Close, Typed, TypeOK
<1>6. CASE EmptyCollection(r)
    <2>1. /\ pc[r] = "empty" /\ op[r] = "reindex" /\ rows' = rows /\ vectors' = {}
          /\ Proceed(r, queue[r], "text")
        BY <1>6 DEF EmptyCollection, Typed, TypeOK
    <2>2. queue[r] = {}
        BY <2>1 DEF Proceed, Typed, TypeOK
    <2>3. Stored(rows') = {}
        BY <1>1, <2>1, <2>2 DEF Own, Rebuilds
    <2> QED BY <2>1, <2>3 DEF Indexed, VectorsOf
<1>7. CASE RemoveFolder(r)
    <2>1. rows' = rows /\ vectors' = vectors /\ vectors = {} /\ Stored(rows) = {}
        BY <1>1, <1>7 DEF RemoveFolder, Own, Rebuilds
    <2> QED BY <2>1 DEF Indexed, VectorsOf, Stored
<1>8. CASE StampSynced(r)
    <2>1. PICK d \in Chapters : d = chapter[r]
        BY <1>8 DEF StampSynced, Stored
    <2>2. /\ Indexed(d)' /\ d \in queue[r]
          /\ \A e \in Chapters \ {d} : rows'[e] = rows[e]
        BY <1>8, <2>1, StampIndexes
    <2>3. vectors' = vectors /\ pc[r] = "stamp" /\ Proceed(r, queue[r] \ {d}, "text")
        BY <1>8, <2>1 DEF StampSynced
    <2>4. queue[r] \ {d} = {}
        BY <2>3 DEF Proceed, Typed, TypeOK
    <2>5. op[r] = "reindex"
        BY <1>1, <2>3 DEF Purposed, Ingesting, WholeBot
    <2>6. \A e \in Chapters \ {d} : Indexed(e)
        BY <1>1, <2>3, <2>4, <2>5 DEF Own, Rebuilds, Ingesting
    <2>7. \A e \in Chapters \ {d} : Indexed(e)' <=> Indexed(e)
        BY <2>2, <2>3, IndexedKept DEF SameChapter, VectorsOf
    <2> HIDE DEF Indexed
    <2> QED BY <2>2, <2>6, <2>7
<1> QED BY <1>4, <1>5, <1>6, <1>7, <1>8 DEF Works

(* A chapter marked as synced is indexed after every step. *)
LEMMA SyncedStep ==
    ASSUME Typed, ApartInv, SyncedUnlessRebuilding, [Next]_vars
    PROVE  SyncedUnlessRebuilding'
<1> SUFFICES ASSUME \A q \in Requests : op'[q] \in WholeBot => pc'[q] = "done",
                    NEW c \in Stored(rows'), rows'[c].synced
             PROVE  Indexed(c)'
    BY DEF SyncedUnlessRebuilding, SyncedIsTrue
<1>0. c \in Chapters
    BY DEF Stored
<1>1. ASSUME SameChapter(c), \A q \in Requests : op[q] \in WholeBot => pc[q] = "done"
      PROVE  Indexed(c)'
    <2>1. c \in Stored(rows) /\ rows[c].synced
        BY <1>0, <1>1 DEF SameChapter, Stored
    <2>2. Indexed(c)
        BY <1>1, <2>1 DEF SyncedUnlessRebuilding, SyncedIsTrue
    <2> QED BY <1>0, <1>1, <2>2, IndexedKept
<1>2. CASE UNCHANGED vars
    BY <1>1, <1>2 DEF vars, stores, locals, SameChapter, VectorsOf
<1>3. ASSUME NEW r \in Requests, BeginAny(r)
      PROVE  Indexed(c)'
    <2>1. /\ \A q \in Requests \ {r} : op'[q] = op[q] /\ pc'[q] = pc[q]
          /\ pc[r] = "idle" /\ UNCHANGED stores
        BY <1>3, BeginFacts DEF SameLocals
    <2>2. op[r] \notin WholeBot
        BY <2>1, KnowledgeAssumption DEF ApartInv, Purposed, WholeBot, AllOps
    <2>3. SameChapter(c)
        BY <2>1 DEF stores, SameChapter, VectorsOf
    <2> QED BY <1>1, <2>1, <2>2, <2>3
<1>4. ASSUME NEW r \in Requests, Works(r)
      PROVE  Indexed(c)'
    <2>1. op' = op /\ \A q \in Requests \ {r} : pc'[q] = pc[q]
        BY <1>4, WorkFacts DEF SameLocals
    <2>2. CASE op[r] \in WholeBot
        BY <1>0, <1>4, <2>1, <2>2, WholeBotDone
    <2>3. CASE op[r] \notin WholeBot
        BY <1>1, <1>4, <2>1, <2>3, StepMarks
    <2> QED BY <2>2, <2>3
<1> QED BY <1>2, <1>3, <1>4, NextIsWork

(* The library the bot begins with is in step with its vectors. *)
LEMMA SyncedInit ==
    ASSUME Init
    PROVE  SyncedUnlessRebuilding
<1>1. ASSUME NEW c \in Stored(rows)
      PROVE  Indexed(c)
    <2>1. c \in Stored(Library) /\ rows = Library
        BY DEF Init
    <2>2. VectorsOf(c) = Entries(None, c, Contents(rows[c]))
        BY <2>1 DEF Init, VectorsOf, Entries
    <2> QED BY <2>2, EntriesContents DEF Indexed
<1> QED BY <1>1 DEF SyncedUnlessRebuilding, SyncedIsTrue

(* As long as no two requests work on one chapter, a chapter marked as     *)
(* synced has its text and its PDF in the collection, each once, whichever *)
(* calls fail; except while the whole collection is rebuilt or wiped, or   *)
(* after that failed.                                                      *)
THEOREM MarksAreTrue ==
    ASSUME ~Overlap
    PROVE  Spec => []SyncedUnlessRebuilding
<1> DEFINE Inv == Typed /\ ApartInv /\ SyncedUnlessRebuilding
<1>1. Init => Inv
    BY TypedInit, ApartInit, SyncedInit
<1>2. Inv /\ [Next]_vars => Inv'
    BY TypedStep, ApartStep, SyncedStep
<1>3. Inv => SyncedUnlessRebuilding
    OBVIOUS
<1> QED BY <1>1, <1>2, <1>3, PTL DEF Spec

(* As long as no two requests work on one chapter, a reindex that          *)
(* completes leaves every chapter indexed as it is stored, and no vector   *)
(* of a chapter that is not, whatever failed before it.                    *)
THEOREM ReindexesRepair ==
    ASSUME ~Overlap
    PROVE  Spec => ReindexRepairs
<1> DEFINE Inv == Typed /\ ApartInv
           Repaired == \A r \in Requests :
               op[r] = "reindex" /\ pc[r] # "done" /\ pc'[r] = "done" =>
                  \A c \in Chapters : Indexed(c)'
<1>1. Init => Inv
    BY TypedInit, ApartInit
<1>2. Inv /\ [Next]_vars => Inv'
    BY TypedStep, ApartStep
<1>3. Inv /\ [Next]_vars => [Repaired]_vars
    <2> SUFFICES ASSUME Inv, Next, NEW r \in Requests,
                        op[r] = "reindex", pc[r] # "done", pc'[r] = "done"
                 PROVE  \A c \in Chapters : Indexed(c)'
        OBVIOUS
    <2>1. PICK s \in Requests : BeginAny(s) \/ Works(s)
        BY NextIsWork
    <2>2. CASE BeginAny(s)
        BY <2>2, BeginFacts DEF SameLocals, Ended
    <2>3. CASE Works(s)
        <3>1. s = r
            BY <2>3, WorkFacts DEF SameLocals
        <3> HIDE DEF Indexed
        <3> QED BY <2>3, <3>1, WholeBotDone DEF WholeBot
    <2> QED BY <2>1, <2>2, <2>3
<1> HIDE DEF Inv, Repaired
<1>4. Spec => [][Repaired]_vars
    BY <1>1, <1>2, <1>3, PTL DEF Spec
<1> QED BY <1>4 DEF ReindexRepairs, Repaired

-----------------------------------------------------------------------------
(* What is left behind *)

\* The file p is that of a stored chapter, or r has it in hand.
Named(p) == \E c \in Stored(rows) : rows[c].pdf = p
Handled(r, p) ==
    /\ Active(r)
    /\ \/ pdf[r] = p
       \/ op[r] = "delete_all"
       \/ op[r] = "delete" /\ \E c \in queue[r] : view[r][c].pdf = p

\* The vectors of c are those of a stored chapter, or r has it in hand.
Working(r, c) == Active(r) /\ c \in queue[r]

NoFailure == \A r \in Requests : pc[r] # "failed"
Covered == \A v \in vectors : v.of \in Stored(rows) \/ \E r \in Requests : Working(r, v.of)
Justified == \A p \in files : Named(p) \/ \E r \in Requests : Handled(r, p)

(* NothingLeftBehind, vector by vector and file by file. *)
LEMMA LeftBehindMeans == NothingLeftBehind <=> (NoFailure => Covered /\ Justified)
<1> DEFINE busy == {r \in Requests : Active(r)}
<1>1. Covered <=> {v.of : v \in vectors} \subseteq Stored(rows) \cup UNION {queue[r] : r \in busy}
    <2>1. \A c : c \in UNION {queue[r] : r \in busy} <=> \E r \in Requests : Working(r, c)
        BY DEF Working
    <2> HIDE DEF busy
    <2> QED BY <2>1 DEF Covered
<1>2. Justified <=>
        \A p \in files :
           \/ \E c \in Stored(rows) : rows[c].pdf = p
           \/ \E r \in busy :
                \/ pdf[r] = p
                \/ op[r] = "delete_all"
                \/ op[r] = "delete" /\ \E c \in queue[r] : view[r][c].pdf = p
    BY DEF Justified, Named, Handled
<1> QED BY <1>1, <1>2 DEF NothingLeftBehind, NoFailure

(* It is enough to look at the chapters and the files of the request that  *)
(* does the step.                                                          *)
LEMMA CoveredKept ==
    ASSUME Covered, NEW r \in Requests, \A q \in Requests \ {r} : SameLocals(q),
           \A c \in Chapters : c \in Stored(rows) \/ Working(r, c) =>
              c \in Stored(rows') \/ Working(r, c)' \/ VectorsOf(c)' = {},
           vectors' \in SUBSET Vector,
           \A v \in vectors' : v \in vectors \/ Working(r, v.of)
    PROVE  Covered'
<1> SUFFICES ASSUME NEW v \in vectors'
             PROVE  v.of \in Stored(rows') \/ \E q \in Requests : Working(q, v.of)'
    BY DEF Covered
<1> DEFINE c == v.of
<1>1. c \in Chapters /\ VectorsOf(c)' # {}
    BY DEF Vector, VectorsOf
<1>2. CASE c \in Stored(rows) \/ Working(r, c)
    <2>1. c \in Stored(rows') \/ Working(r, c)'
        BY <1>1, <1>2
    <2> QED BY <2>1 DEF Working
<1>3. CASE ~(c \in Stored(rows) \/ Working(r, c))
    <2>1. PICK q \in Requests \ {r} : Working(q, c)
        BY <1>3 DEF Covered
    <2>2. Working(q, c)'
        BY <2>1 DEF Working, SameLocals, Active
    <2> QED BY <2>2 DEF Working
<1> QED BY <1>2, <1>3

(* A file is justified if it was, unless this step took its reason away. *)
LEMMA JustifiedKept ==
    ASSUME Justified, NEW r \in Requests, \A q \in Requests \ {r} : SameLocals(q),
           \A p \in files' : Named(p) \/ Handled(r, p) \/ p \notin files =>
              Named(p)' \/ Handled(r, p)'
    PROVE  Justified'
<1> SUFFICES ASSUME NEW p \in files'
             PROVE  Named(p)' \/ \E q \in Requests : Handled(q, p)'
    BY DEF Justified
<1>1. CASE Named(p) \/ Handled(r, p) \/ p \notin files
    <2>1. Named(p)' \/ Handled(r, p)'
        BY <1>1
    <2> HIDE DEF Named, Handled
    <2> QED BY <2>1
<1>2. CASE ~(Named(p) \/ Handled(r, p) \/ p \notin files)
    <2>1. PICK q \in Requests \ {r} : Handled(q, p)
        BY <1>2 DEF Justified
    <2>2. Handled(q, p)'
        BY <2>1 DEF Handled, SameLocals, Active
    <2> HIDE DEF Handled
    <2> QED BY <2>2
<1> QED BY <1>1, <1>2

(* The vectors: a chapter leaves the table while a request still has to    *)
(* remove its vectors, and leaves the queue once they are removed.         *)
LEMMA CoveredStep ==
    ASSUME Typed, Typed', ApartInv, Covered, NEW r \in Requests, Works(r),
           pc'[r] # "failed"
    PROVE  Covered'
<1>1. /\ \A q \in Requests \ {r} : SameLocals(q)
      /\ op' = op /\ Active(r) /\ vectors' \in SUBSET Vector
    BY WorkFacts DEF Typed, TypeOK
<1>2. Purposed(r) /\ Own(r) /\ queue[r] \subseteq Chapters
    BY DEF ApartInv, Typed, TypeOK
<1>3. ~Dropped(r) => queue[r] \subseteq Stored(rows)
    BY <1>1, QueueBorn
<1> DEFINE Safe(c) == c \in Stored(rows') \/ Working(r, c)' \/ VectorsOf(c)' = {}
<1>4. ASSUME \A c \in Chapters : c \in Stored(rows) \cup queue[r] => Safe(c),
             \A v \in vectors' : v \in vectors \/ v.of \in queue[r]
      PROVE  Covered'
    <2>1. \A c \in Chapters : c \in Stored(rows) \/ Working(r, c) => Safe(c)
        BY <1>4 DEF Working
    <2>2. \A v \in vectors' : v \in vectors \/ Working(r, v.of)
        BY <1>1, <1>4 DEF Working
    <2> HIDE DEF Covered, Working
    <2> QED BY <1>1, <2>1, <2>2, CoveredKept
<1>5. ASSUME Stored(rows) \subseteq Stored(rows'), ~Dropped(r), vectors' = vectors
      PROVE  Covered'
    BY <1>3, <1>4, <1>5
<1>6. CASE SavePdf(r) \/ Refresh(r)
    BY <1>5, <1>6 DEF SavePdf, Refresh, stores, Dropped
<1>7. CASE CreateKnowledge(r) \/ SaveImportedKnowledges(r) \/ SaveKnowledgesDto(r)
    <2>1. PICK S \in SUBSET Chapters : InsertRows(r, S)
        BY <1>7 DEF CreateKnowledge, SaveImportedKnowledges, SaveKnowledgesDto
    <2>2. /\ S \subseteq Stored(rows')
          /\ \A c \in Chapters \ S : rows'[c] = rows[c]
        BY <2>1, TypedInsert
    <2>3. vectors' = vectors /\ ~Dropped(r)
        BY <2>1 DEF InsertRows, Dropped
    <2> QED BY <1>5, <2>2, <2>3 DEF Stored
<1>8. CASE WriteRow(r)
    <2>1. PICK d \in Stored(rows) \cap Stored(view[r]), path \in Pdfs \cup {None},
               new \in Row, held \in Row : rows' = [rows EXCEPT ![d] = new]
        BY <1>8, WriteFacts
    <2>2. Stored(rows) \subseteq Stored(rows')
        BY <2>1, KnowledgeAssumption DEF Stored, Typed, TypeOK
    <2>3. vectors' = vectors /\ ~Dropped(r)
        BY <1>8 DEF WriteRow, Dropped
    <2> QED BY <1>5, <2>2, <2>3
<1>9. CASE DeleteRows(r)
    <2>1. /\ pc'[r] = "forget" /\ queue'[r] = queue[r] /\ vectors' = vectors
          /\ \A c \in Chapters \ queue[r] : rows'[c] = rows[c]
        BY <1>9 DEF DeleteRows, Typed, TypeOK
    <2> QED BY <1>4, <2>1 DEF Stored, Working, Active, Ended
<1>10. CASE WipeRows(r) \/ RemoveFolder(r) \/ EmptyCollection(r)
    <2>1. vectors' = {}
        BY <1>2, <1>10 DEF WipeRows, RemoveFolder, EmptyCollection, Own, Rebuilds
    <2> QED BY <2>1 DEF Covered
<1>11. CASE ForgetChapter(r) \/ ClearVectors(r)
    <2>1. /\ rows' = rows /\ queue'[r] = queue[r] /\ vectors' \subseteq vectors
          /\ pc'[r] \in {"unlink", "text"}
        BY <1>11 DEF ForgetChapter, ClearVectors, RemoveVectors, Typed, TypeOK
    <2> QED BY <1>4, <2>1 DEF Working, Active, Ended
<1>12. CASE RemovePdf(r)
    <2>1. rows' = rows /\ vectors' = vectors /\ pc[r] = "unlink"
        BY <1>12 DEF RemovePdf
    <2>2. CASE op[r] # "delete"
        BY <1>5, <2>1, <2>2 DEF Dropped
    <2>3. CASE op[r] = "delete"
        <3> DEFINE d == chapter[r]
        <3>0. PICK c \in Chapters : c = d
            BY <2>1 DEF Typed, TypeOK, LocalOK, ChapterSteps
        <3>1. VectorsOf(c)' = {}
            BY <1>2, <2>1, <2>3, <3>0 DEF Own, Forgot, VectorsOf
        <3>2. \A e \in queue[r] : e = d \/ Working(r, e)'
            <4>1. CASE queue[r] \ {chapter[r]} = {}
                BY <4>1
            <4>2. CASE queue[r] \ {chapter[r]} # {}
                <5>1. /\ pc' = [pc EXCEPT ![r] = "forget"]
                      /\ queue' = [queue EXCEPT ![r] = queue[r] \ {chapter[r]}]
                    BY <1>12, <2>3, <4>2 DEF RemovePdf, Proceed
                <5>2. pc'[r] = "forget" /\ queue'[r] = queue[r] \ {chapter[r]}
                    BY <5>1 DEF Typed, TypeOK
                <5> QED BY <5>2 DEF Working, Active, Ended
            <4> QED BY <4>1, <4>2
        <3> QED BY <1>4, <2>1, <3>0, <3>1, <3>2
    <2> QED BY <2>2, <2>3
<1>13. CASE IngestText(r) \/ IngestPdf(r)
    <2>1. PICK c \in Chapters : c = chapter[r]
        BY <1>13 DEF IngestText, IngestPdf, Typed, TypeOK, LocalOK, ChapterSteps
    <2>2. /\ c \in queue[r] /\ rows' = rows /\ queue' = queue
          /\ pc' = [pc EXCEPT ![r] =
                      IF pc[r] = "text" /\ view[r][c].pdf # None THEN "pdf" ELSE "stamp"]
          /\ \E X \in SUBSET (Texts \cup Pdfs) : vectors' = vectors \cup Entries(r, c, X)
        BY <1>13, <2>1, IngestFacts
    <2>3. pc'[r] \in {"pdf", "stamp"} /\ queue'[r] = queue[r]
        BY <2>2 DEF Typed, TypeOK
    <2>4. \A v \in vectors' : v \in vectors \/ v.of \in queue[r]
        BY <2>2 DEF Entries
    <2> QED BY <1>4, <2>2, <2>3, <2>4 DEF Working, Active, Ended
<1>14. CASE StampSynced(r)
    <2>1. Stored(rows') = Stored(rows)
        BY <1>14, StampFacts
    <2> QED BY <1>5, <1>14, <2>1 DEF StampSynced, Dropped
<1>15. ~Fail(r)
    BY DEF Fail, Close, Typed, TypeOK
<1> QED BY <1>6, <1>7, <1>8, <1>9, <1>10, <1>11, <1>12, <1>13, <1>14, <1>15 DEF Works

(* The files: an upload is in hand until a row has it, and the file a row  *)
(* gives up, until it is removed.                                          *)
LEMMA JustifiedStep ==
    ASSUME Typed, Typed', ApartInv, Justified, NEW r \in Requests, Works(r),
           pc'[r] # "failed"
    PROVE  Justified'
<1>1. /\ \A q \in Requests \ {r} : SameLocals(q)
      /\ op' = op /\ Active(r) /\ op'[r] = op[r]
    BY WorkFacts DEF Typed, TypeOK
<1>2. Purposed(r) /\ Own(r) /\ queue[r] \subseteq Chapters
    BY DEF ApartInv, Typed, TypeOK
<1>3. \A p \in files' : p # None
    BY KnowledgeAssumption DEF Typed, TypeOK
<1> DEFINE Safe(p) == Named(p)' \/ Handled(r, p)'
<1>4. ASSUME \A p \in files' : Named(p) \/ Handled(r, p) \/ p \notin files => Safe(p)
      PROVE  Justified'
    <2> HIDE DEF Named, Handled, Justified
    <2> QED BY <1>1, <1>4, JustifiedKept
<1>5. ASSUME rows' = rows, files' \subseteq files, pdf[r] = None,
             op[r] \notin {"delete", "delete_all"}
      PROVE  Justified'
    <2>1. \A p : Named(p)' <=> Named(p)
        BY <1>5 DEF Named, Stored
    <2>2. \A p \in files' : ~Handled(r, p)
        BY <1>3, <1>5 DEF Handled
    <2> HIDE DEF Named, Handled, Justified
    <2> QED BY <1>4, <1>5, <2>1, <2>2
<1>6. CASE SavePdf(r)
    <2>1. rows' = rows /\ pdf[r] = None /\ op[r] \in {"create", "update"}
        BY <1>6 DEF SavePdf, Typed, LocalOK
    <2>2. CASE files' = files
        BY <1>5, <2>1, <2>2
    <2>3. CASE files' # files
        <3>1. files' = files \cup {r} /\ pdf'[r] = r /\ pc'[r] \in {"insert", "write"}
            BY <1>6, <2>3 DEF SavePdf, Typed, TypeOK
        <3>2. Handled(r, r)'
            BY <3>1 DEF Handled, Active, Ended
        <3>3. \A p : Named(p)' <=> Named(p)
            BY <2>1 DEF Named, Stored
        <3>4. \A p \in files' : ~Handled(r, p)
            BY <1>3, <2>1 DEF Handled
        <3> HIDE DEF Named, Handled
        <3> QED BY <1>4, <3>1, <3>2, <3>3, <3>4
    <2> QED BY <2>2, <2>3
<1>7. CASE CreateKnowledge(r) \/ SaveImportedKnowledges(r) \/ SaveKnowledgesDto(r)
    <2>1. PICK S \in SUBSET Chapters : InsertRows(r, S)
        BY <1>7 DEF CreateKnowledge, SaveImportedKnowledges, SaveKnowledgesDto
    <2>2. /\ \A c \in S : rows'[c].pdf = pdf[r]
          /\ \A c \in Chapters \ S : rows'[c] = rows[c]
          /\ S \subseteq Stored(rows')
        BY <2>1, TypedInsert
    <2>3. /\ S # {} /\ \A c \in S : rows[c] = Unborn
          /\ files' = files /\ op[r] \notin {"delete", "delete_all"}
        BY <1>2, <2>1 DEF InsertRows, Purposed
    <2>4. \A p : Named(p) => Named(p)'
        BY <2>2, <2>3 DEF Named, Stored
    <2>5. \A p : Handled(r, p) => Named(p)'
        BY <2>2, <2>3 DEF Named, Handled
    <2> HIDE DEF Named, Handled
    <2> QED BY <1>4, <2>3, <2>4, <2>5
<1>8. CASE Refresh(r) \/ ClearVectors(r) \/ IngestText(r) \/ IngestPdf(r)
    BY <1>2, <1>5, <1>8
       DEF Refresh, ClearVectors, IngestText, IngestPdf, stores, Purposed, Ingesting
<1>9. CASE WriteRow(r)
    <2>1. PICK c \in Stored(rows) \cap Stored(view[r]), path \in Pdfs \cup {None},
               new \in Row, held \in Row :
            /\ c = chapter[r]
            /\ path \in IF pdf[r] # None THEN {pdf[r]} ELSE {view[r][c].pdf, None}
            /\ new.pdf = IF path # view[r][c].pdf THEN path ELSE rows[c].pdf
            /\ rows' = [rows EXCEPT ![c] = new]
            /\ pdf' = [pdf EXCEPT ![r] =
                         IF path # view[r][c].pdf THEN view[r][c].pdf ELSE None]
            /\ pc' = [pc EXCEPT ![r] = IF path # view[r][c].pdf THEN "unlink" ELSE "clear"]
        BY <1>9, WriteFacts
    <2>2. /\ pc[r] = "write" /\ files' = files /\ op[r] = "update" /\ c \in queue[r]
          /\ c \in Chapters
        BY <1>2, <1>9, <2>1 DEF WriteRow, Purposed, Typed, LocalOK, ChapterSteps
    <2>3. rows[c] = view[r][c]
        BY <1>1, <1>2, <2>2 DEF Own, Agrees, Dropped
    <2>4. /\ rows'[c] = new /\ new.pdf = path
          /\ \A d \in Chapters \ {c} : rows'[d] = rows[d]
          /\ pdf'[r] = IF path # rows[c].pdf THEN rows[c].pdf ELSE None
          /\ pc'[r] \in {"unlink", "clear"}
        BY <2>1, <2>2, <2>3 DEF Typed, TypeOK
    <2>5. c \in Stored(rows')
        BY <2>2, <2>4, KnowledgeAssumption DEF Stored
    <2>6. ASSUME NEW p \in files', Named(p)
          PROVE  Safe(p)
        <3>1. PICK d \in Stored(rows) : rows[d].pdf = p
            BY <2>6 DEF Named
        <3>2. CASE d # c
            <4>1. d \in Stored(rows') /\ rows'[d] = rows[d]
                BY <2>4, <3>2 DEF Stored
            <4> QED BY <3>1, <4>1 DEF Named
        <3>3. CASE d = c /\ path = p
            BY <2>4, <2>5, <3>3 DEF Named
        <3>4. CASE d = c /\ path # p
            BY <2>4, <3>1, <3>4 DEF Handled, Active, Ended
        <3> QED BY <3>2, <3>3, <3>4
    <2>7. ASSUME NEW p \in files', Handled(r, p)
          PROVE  Safe(p)
        <3>1. pdf[r] = p /\ p # None
            BY <1>3, <2>2, <2>7 DEF Handled
        <3> QED BY <2>1, <2>4, <2>5, <3>1 DEF Named
    <2> HIDE DEF Safe, Named, Handled
    <2> QED BY <1>4, <2>2, <2>6, <2>7
<1>10. CASE DeleteRows(r)
    <2>1. /\ pc[r] = "delete" /\ pc'[r] = "forget" /\ op[r] = "delete"
          /\ queue'[r] = queue[r] /\ view'[r] = view[r] /\ files' = files /\ pdf[r] = None
          /\ \A c \in Chapters \ queue[r] : rows'[c] = rows[c]
        BY <1>2, <1>10 DEF DeleteRows, Purposed, Typed, TypeOK, LocalOK
    <2>2. \A c \in queue[r] : view[r][c] = rows[c]
        BY <1>1, <1>2, <2>1 DEF Own, Agrees, Dropped
    <2>3. \A p \in files' : Named(p) => Safe(p)
        BY <1>1, <2>1, <2>2 DEF Named, Handled, Stored, Active, Ended
    <2>4. \A p \in files' : Handled(r, p) => Handled(r, p)'
        BY <1>1, <1>3, <2>1 DEF Handled, Active, Ended
    <2> QED BY <1>4, <2>1, <2>3, <2>4
<1>11. CASE WipeRows(r) \/ (EmptyCollection(r) /\ op[r] # "reindex")
    <2>1. /\ op[r] = "delete_all" /\ pc'[r] \in {"wipe", "rmtree"} /\ files' = files
        BY <1>11 DEF WipeRows, EmptyCollection, Typed, TypeOK, LocalOK, WholeBot
    <2>2. \A p : Handled(r, p)'
        BY <1>1, <2>1 DEF Handled, Active, Ended
    <2> QED BY <1>4, <2>2
<1>12. CASE EmptyCollection(r) /\ op[r] = "reindex"
    BY <1>2, <1>5, <1>12 DEF EmptyCollection, Purposed
<1>13. CASE RemoveFolder(r)
    BY <1>13 DEF RemoveFolder, Justified
<1>14. CASE ForgetChapter(r)
    <2>1. /\ op[r] = "delete" /\ pc'[r] = "unlink" /\ pdf[r] = None
          /\ rows' = rows /\ files' = files /\ queue'[r] = queue[r] /\ view'[r] = view[r]
        BY <1>2, <1>14 DEF ForgetChapter, Purposed, Typed, TypeOK, LocalOK
    <2>2. \A p : Named(p)' <=> Named(p)
        BY <2>1 DEF Named, Stored
    <2>3. \A p \in files' : Handled(r, p) => Handled(r, p)'
        BY <1>1, <1>3, <2>1 DEF Handled, Active, Ended
    <2> HIDE DEF Named, Handled
    <2> QED BY <1>4, <2>1, <2>2, <2>3
<1>15. CASE RemovePdf(r)
    <2>1. /\ pc[r] = "unlink" /\ rows' = rows /\ files' = files \ {pdf[r]}
          /\ op[r] \in {"update", "delete"}
        BY <1>2, <1>15 DEF RemovePdf, Purposed
    <2>2. \A p : Named(p)' <=> Named(p)
        BY <2>1 DEF Named, Stored
    <2>3. ASSUME NEW p \in files', Handled(r, p)
          PROVE  Handled(r, p)'
        <3>1. PICK c \in queue[r] : view[r][c].pdf = p /\ op[r] = "delete" /\ p # pdf[r]
            BY <2>1, <2>3 DEF Handled
        <3>2. c \in queue[r] \ {chapter[r]}
            BY <1>2, <2>1, <3>1 DEF Purposed
        <3>3. /\ pc' = [pc EXCEPT ![r] = "forget"] /\ view' = view
              /\ queue' = [queue EXCEPT ![r] = queue[r] \ {chapter[r]}]
            BY <1>15, <3>1, <3>2 DEF RemovePdf, Proceed
        <3>4. pc'[r] = "forget" /\ c \in queue'[r]
            BY <3>2, <3>3 DEF Typed, TypeOK
        <3> QED BY <1>1, <3>1, <3>3, <3>4 DEF Handled, Active, Ended
    <2> HIDE DEF Named, Handled
    <2> QED BY <1>4, <2>1, <2>2, <2>3
<1>16. CASE StampSynced(r)
    <2>1. /\ Stored(rows') = Stored(rows)
          /\ \A d \in Stored(rows) : rows'[d].pdf = rows[d].pdf
        BY <1>16, StampFacts
    <2>2. files' = files /\ pdf[r] = None /\ op[r] \notin {"delete", "delete_all"}
        BY <1>2, <1>16 DEF StampSynced, Purposed, Ingesting
    <2>3. \A p : Named(p) => Named(p)'
        BY <2>1 DEF Named
    <2>4. \A p \in files' : ~Handled(r, p)
        BY <1>3, <2>2 DEF Handled
    <2> HIDE DEF Named, Handled
    <2> QED BY <1>4, <2>2, <2>3, <2>4
<1>17. ~Fail(r)
    BY DEF Fail, Close, Typed, TypeOK
<1> QED BY <1>6, <1>7, <1>8, <1>9, <1>10, <1>11, <1>12, <1>13, <1>14, <1>15, <1>16, <1>17
        DEF Works

(* While nothing has failed, each step leaves a reason for every vector and*)
(* file.                                                                   *)
LEMMA LeftBehindStep ==
    ASSUME Typed, Typed', ApartInv, NothingLeftBehind, [Next]_vars
    PROVE  NothingLeftBehind'
<1>0. NothingLeftBehind' <=> (NoFailure' => Covered' /\ Justified')
    BY LeftBehindMeans, PTL
<1> SUFFICES ASSUME NoFailure'
             PROVE  Covered' /\ Justified'
    BY <1>0
<1>1. CASE UNCHANGED vars
    <2>1. NoFailure
        BY <1>1 DEF NoFailure, vars, locals
    <2>2. Covered /\ Justified
        BY <2>1, LeftBehindMeans
    <2> QED BY <1>1, <2>2 DEF vars, stores, locals, Covered, Justified, Named, Handled,
                              Working, Active, Stored
<1>2. ASSUME NEW r \in Requests, BeginAny(r)
      PROVE  Covered' /\ Justified'
    <2>1. /\ \A q \in Requests \ {r} : SameLocals(q)
          /\ pc[r] = "idle" /\ UNCHANGED <<rows, vectors, files>>
        BY <1>2, BeginFacts DEF stores
    <2>2. NoFailure
        BY <2>1 DEF NoFailure, SameLocals
    <2>3. Covered /\ Justified
        BY <2>2, LeftBehindMeans
    <2>4. \A p : (Named(p)' <=> Named(p)) /\ ~Handled(r, p)
        BY <2>1 DEF Named, Stored, Handled, Active, Ended
    <2>5. Justified'
        <3> HIDE DEF Named, Handled, Justified
        <3> QED BY <2>1, <2>3, <2>4, JustifiedKept
    <2>6. Stored(rows') = Stored(rows) /\ \A c : ~Working(r, c)
        BY <2>1 DEF Stored, Working, Active, Ended
    <2>7. Covered'
        <3>1. vectors' \in SUBSET Vector
            BY DEF Typed, TypeOK
        <3> HIDE DEF Covered, Working
        <3> QED BY <2>1, <2>3, <2>6, <3>1, CoveredKept
    <2> QED BY <2>5, <2>7
<1>3. ASSUME NEW r \in Requests, Works(r)
      PROVE  Covered' /\ Justified'
    <2>1. /\ \A q \in Requests \ {r} : SameLocals(q)
          /\ Active(r) /\ pc'[r] # "failed"
        BY <1>3, WorkFacts DEF NoFailure
    <2>2. NoFailure
        BY <2>1 DEF NoFailure, SameLocals, Active, Ended
    <2>3. Covered /\ Justified
        BY <2>2, LeftBehindMeans
    <2> QED BY <1>3, <2>1, <2>3, CoveredStep, JustifiedStep
<1> QED BY <1>1, <1>2, <1>3, NextIsWork

(* The library the bot begins with has nothing to spare. *)
LEMMA LeftBehindInit ==
    ASSUME Init
    PROVE  NothingLeftBehind
<1>1. Covered
    <2>1. \A v \in vectors : v.of \in Stored(Library)
        BY DEF Init, Entries
    <2> QED BY <2>1 DEF Init, Covered
<1>2. Justified
    BY DEF Init, Justified, Named
<1> QED BY <1>1, <1>2, LeftBehindMeans

(* As long as no two requests work on one chapter and none fails, every    *)
(* vector is that of a stored chapter and every file that of a row, or a   *)
(* request still has to remove it or to store its path.                    *)
THEOREM NothingStays ==
    ASSUME ~Overlap
    PROVE  Spec => []NothingLeftBehind
<1> DEFINE Inv == Typed /\ ApartInv /\ NothingLeftBehind
<1>1. Init => Inv
    BY TypedInit, ApartInit, LeftBehindInit
<1>2. Inv /\ [Next]_vars => Inv'
    BY TypedStep, ApartStep, LeftBehindStep
<1>3. Inv => NothingLeftBehind
    OBVIOUS
<1> QED BY <1>1, <1>2, <1>3, PTL DEF Spec

(* A delete_all, alone: by the time it removes the folder no chapter is    *)
(* stored, and no upload waits for its row.                                *)
LEMMA PdfWipe ==
    ASSUME Typed, PdfInv, ApartInv, NEW r \in Requests, WipeRows(r) \/ RemoveFolder(r)
    PROVE  PdfInv'
<1>1. CASE WipeRows(r)
    <2>1. /\ UNCHANGED <<files, view, queue, pdf, op>>
          /\ pc'[r] = "rmtree"
          /\ \A q \in Requests \ {r} : pc'[q] = pc[q]
        BY <1>1 DEF WipeRows, Typed, TypeOK
    <2>2. Stored(rows') = {} /\ \A c \in Chapters : rows[c] = Gone => rows'[c] = Gone
        BY <1>1 DEF WipeRows, Stored
    <2>3. PdfStored' /\ OneRow' /\ OneView' /\ Removing'
        BY <2>2 DEF PdfStored, OneRow, OneView, Removing
    <2>4. FreshUpload' /\ Uploaded'
        BY <2>1, <2>2 DEF PdfInv, FreshUpload, Uploaded, NotYetWritten
    <2>5. Deleted'
        BY <2>1, <2>2 DEF PdfInv, Deleted, Typed, TypeOK
    <2> QED BY <2>3, <2>4, <2>5 DEF PdfInv
<1>2. CASE RemoveFolder(r)
    <2>1. /\ pc[r] = "rmtree" /\ files' = {} /\ rows' = rows /\ op' = op
          /\ Close(r, "done") /\ op[r] = "delete_all" /\ Active(r)
        BY <1>2 DEF RemoveFolder, Typed, LocalOK, Active, Ended
    <2>2. Stored(rows') = {}
        BY <2>1 DEF ApartInv, Own, Rebuilds
    <2>3. /\ pc'[r] = "done" /\ pdf'[r] = None
          /\ \A q \in Requests \ {r} : SameLocals(q)
        BY <2>1, ApartClose
    <2>4. ASSUME NEW q \in Requests
          PROVE  pc'[q] \notin {"insert", "write"}
        <3>1. q # r => ~Active(q)
            BY <2>1 DEF ApartInv, Exclusion, WholeBot
        <3> QED BY <2>3, <3>1 DEF SameLocals, Active, Ended
    <2>5. PdfStored' /\ OneRow' /\ OneView' /\ Removing' /\ Uploaded'
        BY <2>2, <2>4 DEF PdfStored, OneRow, OneView, Removing, Uploaded
    <2>6. \A q \in Requests : \A d \in Stored(view'[q]) :
             d \in Stored(view[q]) /\ view'[q][d] = view[q][d]
        BY <2>1 DEF Close, NoRows, Stored, Typed, TypeOK
    <2>7. FreshUpload'
        <3>1. \A q \in Requests : q # None
            BY KnowledgeAssumption DEF Pdfs
        <3>2. \A q \in Requests : pc'[q] \in NotYetWritten => q # r /\ pc[q] = pc'[q]
            BY <2>3 DEF NotYetWritten, SameLocals
        <3>3. \A s \in Requests : pdf'[s] \in {pdf[s], None}
            BY <2>3 DEF SameLocals
        <3> QED BY <2>2, <2>6, <3>1, <3>2, <3>3 DEF PdfInv, FreshUpload
    <2>8. Deleted'
        BY <2>1, <2>3 DEF PdfInv, Deleted, SameLocals
    <2> QED BY <2>5, <2>7, <2>8 DEF PdfInv
<1> QED BY <1>1, <1>2

(* As long as no two requests work on one chapter, and none on any while   *)
(* the knowledge base is emptied, the PDF of every stored chapter is in    *)
(* the upload folder, a delete_all included.                               *)
THEOREM PdfsAreStoredApart ==
    ASSUME ~Overlap
    PROVE  Spec => []PdfStored
<1> DEFINE Inv == KnowledgeInv /\ ApartInv
<1>1. Init => Inv
    BY TypedInit, PdfInit, ApartInit DEF KnowledgeInv
<1>2. Inv /\ [Next]_vars => Inv'
    <2> SUFFICES ASSUME Typed, PdfInv, ApartInv, [Next]_vars
                 PROVE  PdfInv'
        BY TypedStep, ApartStep DEF KnowledgeInv
    <2>1. CASE UNCHANGED vars
        BY <2>1 DEF vars, stores, locals, PdfInv, PdfStored, OneRow, OneView,
                    FreshUpload, Uploaded, Removing, Deleted
    <2> QED BY <2>1, PdfBegin, PdfSave, PdfInserting, PdfRefresh, PdfWrite, PdfDeleteRows,
               PdfForget, PdfRemove, PdfVectors, PdfWipe DEF Next
<1>3. Inv => PdfStored
    BY DEF KnowledgeInv, PdfInv
<1> QED BY <1>1, <1>2, <1>3, PTL DEF Spec

=============================================================================

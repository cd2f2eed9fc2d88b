----------------------------- MODULE Knowledge -----------------------------
(***************************************************************************)
(* The knowledge base of one bot: KnowledgeSvc over three stores that no   *)
(* transaction spans, the MySQL table knowledge, the PDF files of the      *)
(* upload folder and the bot's ChromaDB collection (VectorStoreFacade).    *)
(*                                                                         *)
(* A request has a database session of its own and is split at its awaits. *)
(* What it reads is the snapshot its first SELECT takes (REPEATABLE READ), *)
(* and it goes on with those objects after its commits                     *)
(* (expire_on_commit=False).  It commits the rows first, then writes the   *)
(* vectors and files one call at a time.                                   *)
(*                                                                         *)
(* Left out: the order of chapters (module Outline), the names shown, the  *)
(* splitting into chunks (the text, or the PDF, of a chapter is one entry  *)
(* of the collection).                                                     *)
(***************************************************************************)
EXTENDS FiniteSets

CONSTANTS
    Chapters,     \* ids of the table, never used twice
    Texts,        \* name and content of a chapter, as ingested
    Empty,        \* the text with nothing to ingest
    Requests,     \* the requests that may be sent, each once
    Library,      \* the rows at the beginning, in step with files and vectors
    Ops,          \* the operations requests may ask for, in AllOps
    Overlap,      \* whether requests may work on one chapter at a time
    Failures,     \* whether a call may raise, or the process stop
    Root, None, Unborn, Gone

AllOps == {"create", "update", "delete", "import", "template",
           "reindex", "delete_all"}
WholeBot == {"reindex", "delete_all"}

\* A stored file is named after the request that uploaded it (a fresh uuid4),
\* or after the chapter that had it at the beginning.
Pdfs == Requests \cup Chapters
Row == [dad : Chapters \cup {Root}, text : Texts,
        pdf : Pdfs \cup {None}, synced : BOOLEAN]
\* An entry of the collection: its knowledge_id, what was ingested, by whom.
Vector == [of : Chapters, content : Texts \cup Pdfs, by : Requests \cup {None}]

ASSUME KnowledgeAssumption ==
    /\ IsFiniteSet(Chapters)
    /\ Requests \cap Chapters = {}
    /\ Empty \in Texts
    /\ Ops \subseteq AllOps
    /\ Overlap \in BOOLEAN /\ Failures \in BOOLEAN
    /\ None \notin Pdfs \cup AllOps /\ Unborn # Gone
    /\ Unborn \notin Row /\ Gone \notin Row
    /\ Library \in [Chapters -> Row \cup {Unborn}]
    /\ \A c \in Chapters : Library[c] # Unborn =>
          Library[c].pdf \in {c, None} /\ Library[c].synced

VARIABLES
    rows,     \* the committed rows of the bot, Unborn or Gone
    vectors,  \* the entries of Collection<bot_id>
    files,    \* the files in <UPLOAD_FOLDER>/<bot_id>
    op,       \* op[r]: what r asks for, or None
    pc,       \* pc[r]: the step r is at
    view,     \* view[r]: the rows as r's session holds them
    queue,    \* queue[r]: the chapters r works on or still has to
    chapter,  \* chapter[r]: the one at hand, or None
    pdf       \* pdf[r]: the path r holds: its upload until the row is
              \* written, then the file it is about to remove; or None

stores == <<rows, vectors, files>>
locals == <<op, pc, view, queue, chapter, pdf>>
vars == <<stores, locals>>

Ended == {"idle", "done", "failed"}
Steps == Ended \cup {"upload", "insert", "refresh", "write", "delete", "empty",
                     "wipe", "rmtree", "forget", "unlink", "clear", "text",
                     "pdf", "stamp"}

TypeOK ==
    /\ rows \in [Chapters -> Row \cup {Unborn, Gone}]
    /\ vectors \in SUBSET Vector
    /\ files \in SUBSET Pdfs
    /\ op \in [Requests -> Ops \cup {None}]
    /\ pc \in [Requests -> Steps]
    /\ view \in [Requests -> [Chapters -> Row \cup {Unborn, Gone}]]
    /\ queue \in [Requests -> SUBSET Chapters]
    /\ chapter \in [Requests -> Chapters \cup {None}]
    /\ pdf \in [Requests -> Pdfs \cup {None}]

Stored(table) == {c \in Chapters : table[c] \notin {Unborn, Gone}}
Active(r) == pc[r] \notin Ended

(* What a chapter puts in the collection: its text, if any, and its PDF.   *)
Contents(row) == ({row.text} \ {Empty}) \cup ({row.pdf} \ {None})
Entries(r, c, contents) == {[of |-> c, content |-> x, by |-> r] : x \in contents}
VectorsOf(c) == {v \in vectors : v.of = c}

NoRows == [c \in Chapters |-> Unborn]

Init ==
    /\ rows = Library
    /\ vectors = UNION {Entries(None, c, Contents(Library[c])) : c \in Stored(Library)}
    /\ files = {Library[c].pdf : c \in Stored(Library)} \ {None}
    /\ op = [r \in Requests |-> None]
    /\ pc = [r \in Requests |-> "idle"]
    /\ view = [r \in Requests |-> NoRows]
    /\ queue = [r \in Requests |-> {}]
    /\ chapter = [r \in Requests |-> None]
    /\ pdf = [r \in Requests |-> None]

-----------------------------------------------------------------------------
(* A request o arrives for the chapters S; its first SELECT takes the      *)
(* snapshot.                                                               *)
Begin(r, o, S, c, step) ==
    /\ pc[r] = "idle"
    /\ o \in Ops
    /\ Overlap \/ \A q \in Requests : Active(q) =>
          {o, op[q]} \cap WholeBot = {} /\ S \cap queue[q] = {}
    /\ op' = [op EXCEPT ![r] = o]
    /\ view' = [view EXCEPT ![r] = rows]
    /\ queue' = [queue EXCEPT ![r] = S]
    /\ chapter' = [chapter EXCEPT ![r] = c]
    /\ pc' = [pc EXCEPT ![r] = step]
    /\ UNCHANGED <<stores, pdf>>

(* The chapters of table under c, c included (_delete_subtree): the        *)
(* smallest set with c and the children of its members.                    *)
Subtree(table, c) ==
    {d \in Chapters : \A S \in SUBSET Chapters :
        (c \in S /\ \A e \in Stored(table) : table[e].dad \in S => e \in S)
        => d \in S}

\* r ends, and its session is closed.
Close(r, outcome) ==
    /\ pc' = [pc EXCEPT ![r] = outcome]
    /\ view' = [view EXCEPT ![r] = NoRows]
    /\ queue' = [queue EXCEPT ![r] = {}]
    /\ chapter' = [chapter EXCEPT ![r] = None]
    /\ pdf' = [pdf EXCEPT ![r] = None]

BeginCreate(r) == \E step \in {"upload", "insert"} : Begin(r, "create", {}, None, step)
BeginUpdate(r) ==
    \E c \in Stored(rows), step \in {"upload", "write"} : Begin(r, "update", {c}, c, step)
BeginDelete(r) ==
    \E c \in Stored(rows) : Begin(r, "delete", Subtree(rows, c), c, "delete")
BeginImport(r) == Begin(r, "import", {}, None, "insert")
BeginTemplate(r) == Begin(r, "template", {}, None, "insert")
\* Mutant: a reindex that skips the chapters marked as synced.
BeginReindexStale(r) ==
    Begin(r, "reindex", {c \in Stored(rows) : ~rows[c].synced}, None, "empty")
BeginReindex(r) == Begin(r, "reindex", Stored(rows), None, "empty")
BeginDeleteAll(r) == Begin(r, "delete_all", {}, None, "empty")

-----------------------------------------------------------------------------
(* Rows *)

\* save_pdf stores the upload, or removes it again and refuses.
SavePdf(r) ==
    /\ pc[r] = "upload"
    /\ \/ /\ files' = files \cup {r}
          /\ pdf' = [pdf EXCEPT ![r] = r]
          /\ pc' = [pc EXCEPT ![r] = IF op[r] = "create" THEN "insert" ELSE "write"]
          /\ UNCHANGED <<view, queue, chapter>>
       \/ /\ Close(r, "done")
          /\ UNCHANGED files
    /\ UNCHANGED <<rows, vectors, op>>

(* The INSERTs of create, import and template, committed.  A created       *)
(* chapter is refreshed and synced, imported ones are ingested, those of a *)
(* template are left for a reindex.                                        *)
InsertRows(r, S) ==
    /\ pc[r] = "insert"
    /\ S \subseteq {c \in Chapters : rows[c] = Unborn}
    /\ S # {}
    /\ \E text \in [S -> Texts], dad \in Stored(view[r]) \cup {Root} :
         rows' = [c \in Chapters |->
                    IF c \in S THEN [dad |-> dad, text |-> text[c],
                                     pdf |-> pdf[r], synced |-> FALSE]
                    ELSE rows[c]]
    /\ UNCHANGED <<vectors, files, op>>

\* The session keeps the objects it inserted, and goes on with c at step.
KeepInserted(r, S, c, step) ==
    /\ view' = [view EXCEPT ![r] =
                  [d \in Chapters |-> IF d \in S THEN rows'[d] ELSE view[r][d]]]
    /\ pdf' = [pdf EXCEPT ![r] = None]
    /\ queue' = [queue EXCEPT ![r] = S]
    /\ chapter' = [chapter EXCEPT ![r] = c]
    /\ pc' = [pc EXCEPT ![r] = step]

CreateKnowledge(r) ==
    \E c \in Chapters :
        /\ op[r] = "create"
        /\ InsertRows(r, {c})
        /\ KeepInserted(r, {c}, c, "refresh")

SaveImportedKnowledges(r) ==
    \E S \in SUBSET Chapters, c \in Chapters :
        /\ op[r] = "import"
        /\ c \in S
        /\ InsertRows(r, S)
        /\ KeepInserted(r, S, c, "text")

SaveKnowledgesDto(r) ==
    \E S \in SUBSET Chapters :
        /\ op[r] = "template"
        /\ InsertRows(r, S)
        /\ Close(r, "done")

(* repo.refresh after the INSERT: the row may have changed since, and      *)
(* raises if it is gone.                                                   *)
Refresh(r) ==
    LET c == chapter[r]
    IN  /\ pc[r] = "refresh"
        /\ c \in Stored(rows)
        /\ view' = [view EXCEPT ![r][c] = rows[c]]
        /\ pc' = [pc EXCEPT ![r] = "clear"]
        /\ UNCHANGED <<stores, op, queue, chapter, pdf>>

(* update_knowledge_entity up to its commit.  The flush writes the columns *)
(* whose value differs from the one read (updated_at always does) and      *)
(* raises when the row is gone.  The client sends the parent it knows, or  *)
(* none, which stands for the root.                                        *)
WriteRow(r) ==
    LET c == chapter[r]
        read == view[r][c]
        Column(old, new, stored) == IF new # old THEN new ELSE stored
    IN  /\ pc[r] = "write"
        /\ c \in Stored(rows)
        /\ \E text \in Texts, dad \in {read.dad, Root},
              path \in IF pdf[r] # None THEN {pdf[r]} ELSE {read.pdf, None} :
             /\ rows' = [rows EXCEPT ![c] =
                  [dad |-> Column(read.dad, dad, rows[c].dad),
                   text |-> Column(read.text, text, rows[c].text),
                   pdf |-> Column(read.pdf, path, rows[c].pdf),
                   synced |-> FALSE]]
             /\ view' = [view EXCEPT ![r][c] =
                  [dad |-> dad, text |-> text, pdf |-> path, synced |-> FALSE]]
             /\ pdf' = [pdf EXCEPT ![r] = IF path # read.pdf THEN read.pdf ELSE None]
             /\ pc' = [pc EXCEPT ![r] = IF path # read.pdf THEN "unlink" ELSE "clear"]
        /\ UNCHANGED <<vectors, files, op, queue, chapter>>

(* delete_knowledge up to its commit: the subtree read goes.  Renumbering  *)
(* the siblings read raises, or not, when one of them is gone (Fail).      *)
DeleteRows(r) ==
    /\ pc[r] = "delete"
    /\ rows' = [c \in Chapters |-> IF c \in queue[r] THEN Gone ELSE rows[c]]
    /\ pc' = [pc EXCEPT ![r] = "forget"]
    /\ UNCHANGED <<vectors, files, op, view, queue, chapter, pdf>>

\* delete_all: DELETE ... WHERE bot_id, which meets the newest rows.
WipeRows(r) ==
    /\ pc[r] = "wipe"
    /\ rows' = [c \in Chapters |-> IF c \in Stored(rows) THEN Gone ELSE rows[c]]
    /\ pc' = [pc EXCEPT ![r] = "rmtree"]
    /\ UNCHANGED <<vectors, files, op, view, queue, chapter, pdf>>

-----------------------------------------------------------------------------
(* Files and vectors *)

\* The loop over chapters goes on with one of the rest, at step, or ends.
Proceed(r, rest, step) ==
    \/ rest = {} /\ Close(r, "done")
    \/ /\ pc' = [pc EXCEPT ![r] = step]
       /\ \E c \in rest : chapter' = [chapter EXCEPT ![r] = c]
       /\ queue' = [queue EXCEPT ![r] = rest]
       /\ pdf' = [pdf EXCEPT ![r] = None]
       /\ UNCHANGED view

\* Mutant: the old vectors are left.
RemoveVectorsNone(r, c) == UNCHANGED vectors

\* Mutant: those of the PDF are left.
RemoveTextVectors(r, c) ==
    vectors' = {v \in vectors : v.of = c => v.content \notin Texts}

\* _remove_knowledge_from_vector_db
RemoveVectors(r, c) == vectors' = vectors \ VectorsOf(c)

\* delete_knowledge, for each deleted chapter: its vectors, then its PDF.
ForgetChapter(r) ==
    /\ pc[r] = "forget"
    /\ RemoveVectors(r, chapter[r])
    /\ pdf' = [pdf EXCEPT ![r] = view[r][chapter[r]].pdf]
    /\ pc' = [pc EXCEPT ![r] = "unlink"]
    /\ UNCHANGED <<rows, files, op, view, queue, chapter>>

\* Mutant: an update removes the PDF it has just written to the row.
RemovePdfNew(r) ==
    /\ pc[r] = "unlink"
    /\ files' = files \ {view[r][chapter[r]].pdf}
    /\ IF op[r] = "delete"
       THEN Proceed(r, queue[r] \ {chapter[r]}, "forget")
       ELSE /\ pc' = [pc EXCEPT ![r] = "clear"]
            /\ pdf' = [pdf EXCEPT ![r] = None]
            /\ UNCHANGED <<view, queue, chapter>>
    /\ UNCHANGED <<rows, vectors, op>>

\* _remove_pdf, of a deleted chapter or of the PDF an update replaced.
RemovePdf(r) ==
    /\ pc[r] = "unlink"
    /\ files' = files \ {pdf[r]}
    /\ IF op[r] = "delete"
       THEN Proceed(r, queue[r] \ {chapter[r]}, "forget")
       ELSE /\ pc' = [pc EXCEPT ![r] = "clear"]
            /\ pdf' = [pdf EXCEPT ![r] = None]
            /\ UNCHANGED <<view, queue, chapter>>
    /\ UNCHANGED <<rows, vectors, op>>

(* VectorStoreFacade.delete_all lists the ids, then deletes those: what is *)
(* added in between stays, as if it came after.                            *)
EmptyCollection(r) ==
    /\ pc[r] = "empty"
    /\ vectors' = {}
    /\ IF op[r] = "reindex"
       THEN Proceed(r, queue[r], "text")
       ELSE /\ pc' = [pc EXCEPT ![r] = "wipe"]
            /\ UNCHANGED <<view, queue, chapter, pdf>>
    /\ UNCHANGED <<rows, files, op>>

RemoveFolder(r) ==
    /\ pc[r] = "rmtree"
    /\ files' = {}
    /\ Close(r, "done")
    /\ UNCHANGED <<rows, vectors, op>>

\* sync_knowledge_to_vector_db removes the old vectors first.
ClearVectors(r) ==
    /\ pc[r] = "clear"
    /\ RemoveVectors(r, chapter[r])
    /\ pc' = [pc EXCEPT ![r] = "text"]
    /\ UNCHANGED <<rows, files, op, view, queue, chapter, pdf>>

\* Mutant: the PDF is ingested with the text, whether there is one or not.
IngestTextAndPdf(r) ==
    LET c == chapter[r]
    IN  /\ pc[r] = "text"
        /\ vectors' = vectors \cup
               Entries(r, c, {view[r][c].text, view[r][c].pdf} \ {Empty})
        /\ pc' = [pc EXCEPT ![r] = "stamp"]
        /\ UNCHANGED <<rows, files, op, view, queue, chapter, pdf>>

(* _ingest_knowledge_node, on the object in the session: the text, the PDF *)
(* (its loader raises when the file is not there), the stamp.              *)
IngestText(r) ==
    LET c == chapter[r]
    IN  /\ pc[r] = "text"
        /\ vectors' = vectors \cup Entries(r, c, {view[r][c].text} \ {Empty})
        /\ pc' = [pc EXCEPT ![r] = IF view[r][c].pdf = None THEN "stamp" ELSE "pdf"]
        /\ UNCHANGED <<rows, files, op, view, queue, chapter, pdf>>

IngestPdf(r) ==
    LET c == chapter[r]
    IN  /\ pc[r] = "pdf"
        /\ view[r][c].pdf \in files
        /\ vectors' = vectors \cup Entries(r, c, {view[r][c].pdf})
        /\ pc' = [pc EXCEPT ![r] = "stamp"]
        /\ UNCHANGED <<rows, files, op, view, queue, chapter, pdf>>

\* vector_synced_at, whose commit raises when the row is gone.
StampSynced(r) ==
    LET c == chapter[r]
    IN  /\ pc[r] = "stamp"
        /\ c \in Stored(rows)
        /\ rows' = [rows EXCEPT ![c].synced = TRUE]
        /\ Proceed(r, queue[r] \ {c}, "text")
        /\ UNCHANGED <<vectors, files, op>>

-----------------------------------------------------------------------------
(* Whether the step r is at raises by itself. *)
Raises(r) ==
    \/ pc[r] \in {"refresh", "write", "stamp"} /\ chapter[r] \notin Stored(rows)
    \/ pc[r] = "pdf" /\ view[r][chapter[r]].pdf \notin files
    \/ pc[r] = "delete" /\ \E d \in Stored(view[r]) \ Stored(rows) :
          view[r][d].dad = view[r][chapter[r]].dad

(* An exception, or the process stopping: the open transaction is rolled   *)
(* back, what was committed, stored or ingested stays.                     *)
Fail(r) ==
    /\ Active(r)
    /\ Failures \/ Raises(r)
    /\ Close(r, "failed")
    /\ UNCHANGED <<stores, op>>

BeginAny(r) ==
    \/ BeginCreate(r) \/ BeginUpdate(r) \/ BeginDelete(r) \/ BeginImport(r)
    \/ BeginTemplate(r) \/ BeginReindex(r) \/ BeginDeleteAll(r)

Next ==
    \E r \in Requests :
        \/ BeginAny(r)
        \/ SavePdf(r) \/ CreateKnowledge(r) \/ SaveImportedKnowledges(r)
        \/ SaveKnowledgesDto(r) \/ Refresh(r) \/ WriteRow(r) \/ DeleteRows(r)
        \/ WipeRows(r) \/ ForgetChapter(r) \/ RemovePdf(r) \/ EmptyCollection(r)
        \/ RemoveFolder(r) \/ ClearVectors(r) \/ IngestText(r) \/ IngestPdf(r)
        \/ StampSynced(r) \/ Fail(r)

Spec == Init /\ [][Next]_vars

-----------------------------------------------------------------------------
(* Properties *)

(* The PDF of a stored chapter is in the upload folder, whatever overlaps  *)
(* and whatever fails: an upload is stored before its row says so, and a   *)
(* file is removed only once no row says so (save_pdf, _remove_pdf).  Not  *)
(* so when delete_all removes the folder meanwhile.                        *)
PdfStored == \A c \in Stored(rows) : rows[c].pdf \in files \cup {None}

(* The collection holds exactly what the chapter c is made of, once.       *)
Indexed(c) ==
    IF c \in Stored(rows)
    THEN /\ {v.content : v \in VectorsOf(c)} = Contents(rows[c])
         /\ \A v, w \in VectorsOf(c) : v.content = w.content => v = w
    ELSE VectorsOf(c) = {}

(* A chapter marked as synced is indexed as it is: what the screen tells   *)
(* with vector_synced_at >= updated_at.                                    *)
SyncedIsTrue == \A c \in Stored(rows) : rows[c].synced => Indexed(c)

(* As long as no two requests work on one chapter, whichever call fails:   *)
(* the mark is right, except while the whole collection is being rebuilt   *)
(* or wiped, or after that failed.                                         *)
SyncedUnlessRebuilding ==
    (\A r \in Requests : op[r] \in WholeBot => pc[r] = "done") => SyncedIsTrue

(* Unless a request failed, every vector is that of a stored chapter and   *)
(* every file that of a row, or a request still has to remove it or to     *)
(* store its path (delete_knowledge, update_knowledge_entity).  Checked     *)
(* where no two requests work on one chapter.                              *)
NothingLeftBehind ==
    (\A r \in Requests : pc[r] # "failed") =>
        LET busy == {r \in Requests : Active(r)}
        IN  /\ {v.of : v \in vectors} \subseteq
                   Stored(rows) \cup UNION {queue[r] : r \in busy}
            /\ \A p \in files :
                   \/ \E c \in Stored(rows) : rows[c].pdf = p
                   \/ \E r \in busy :
                        \/ pdf[r] = p
                        \/ op[r] = "delete_all"
                        \/ op[r] = "delete" /\ \E c \in queue[r] : view[r][c].pdf = p

(* Whatever failed before, a reindex that completes leaves every chapter   *)
(* indexed and no vector of any other (reindex_bot).                       *)
ReindexRepairs ==
    [][\A r \in Requests :
         op[r] = "reindex" /\ pc[r] # "done" /\ pc'[r] = "done" =>
            \A c \in Chapters : Indexed(c)']_vars

=============================================================================

------------------------------- MODULE Library -------------------------------
(* The documents of one collection name as the API changes them: single and  *)
(* batch uploads, deletions, batch deletions, truncation, and deletion and   *)
(* creation of the collection (routers/documents/crud.py, documents_batch.py,*)
(* services/documents/crud.py, batch_upload.py, document_deletion.py,        *)
(* collections/lifecycle.py, routers/collections/list_create.py).            *)
(*                                                                           *)
(* A request reads, changes storage and the vector store, and then commits a *)
(* transaction under READ COMMITTED. What matters of the database is that a  *)
(* statement sees the rows committed when it starts, and that the row of the *)
(* collection is locked from the statement that changes it to the commit.    *)
EXTENDS Naturals, FiniteSets

CONSTANTS
  Contents,          \* content hashes of uploaded files
  Editors,           \* the requests that can be under way at the same time
  NoEditor,
  MaxEdits,          \* requests altogether
  MaxLibraryFaults   \* failing calls of storage or vector store, dying processes

VARIABLES
  coll,        \* the row of the collection: its incarnation, 0 when there is none
  docs,        \* committed rows of documents
  count,       \* document_count
  lock,        \* the transaction that has changed the row of the collection
  files,       \* staged files of documents
  vectors,     \* documents with vectors in the namespace
  canceled,    \* documents whose jobs are canceled
  late,        \* files still being stored for a batch that has failed
  edits,       \* the requests
  libraryPast  \* what the properties need to know of the past

libraryVars == <<coll, docs, count, lock, files, vectors, canceled, late, edits, libraryPast>>

\* A document is known by the request that uploads it and its content.
Docs == (0..MaxEdits) \X Contents

LibraryAssumption ==
  /\ IsFiniteSet(Contents) /\ MaxEdits \in Nat /\ MaxLibraryFaults \in Nat
  /\ NoEditor \notin Editors
ASSUME LibraryAssumption

Wide == {"truncate", "drop", "create"}
EditKinds == {"upload", "batch", "delete", "batch_delete"} \cup Wide
IdleEdit == [pc |-> "idle", kind |-> "upload", coll |-> 0, docs |-> {}, put |-> {},
             seen |-> 0, waited |-> FALSE]

EditRecords == [pc : {"idle", "put", "wipe", "vectors", "rows", "wait", "commit", "create", "undo"},
                kind : EditKinds, coll : Nat, docs : SUBSET Docs, put : SUBSET Docs,
                seen : Nat, waited : BOOLEAN]
LibraryPasts == [requests : Nat, faults : Nat, made : Nat, wide : BOOLEAN, stray : SUBSET Docs]

LibraryTypeOK ==
  /\ coll \in Nat
  /\ docs \subseteq Docs /\ files \subseteq Docs /\ vectors \subseteq Docs
  /\ canceled \subseteq Docs /\ late \subseteq Docs
  /\ count \in Nat
  /\ lock \in Editors \cup {NoEditor}
  /\ edits \in [Editors -> EditRecords]
  /\ libraryPast \in LibraryPasts

LibraryInit ==
  /\ coll = 1
  /\ \E c \in Contents : docs = {<<0, c>>}
  /\ count = 1
  /\ lock = NoEditor
  /\ files = {}
  /\ vectors = docs
  /\ canceled = {}
  /\ late = {}
  /\ edits = [r \in Editors |-> IdleEdit]
  /\ libraryPast = [requests |-> 0, faults |-> 0, made |-> 1, wide |-> FALSE, stray |-> {}]

OpenEdits == {r \in Editors : edits[r].pc # "idle"}
LibraryFault == libraryPast.faults < MaxLibraryFaults
GoesTo(r, to) == edits' = [edits EXCEPT ![r] = [@ EXCEPT !.pc = to]]
EndsEdit(r) == edits' = [edits EXCEPT ![r] = IdleEdit]
BeginEdit(r, kind, to, ds) ==
  /\ edits[r].pc = "idle"
  /\ libraryPast.requests < MaxEdits
  /\ edits' = [edits EXCEPT ![r] = [IdleEdit EXCEPT !.pc = to, !.kind = kind, !.coll = coll,
                                          !.docs = ds]]
  /\ libraryPast' = [libraryPast EXCEPT !.requests = @ + 1,
       !.wide = @ \/ (OpenEdits # {} /\
                        Wide \cap ({kind} \cup {edits[q].kind : q \in OpenEdits}) # {})]

---------------------------------------------------------------------------
(* Uploads.                                                                 *)

\* A content that a row has already is answered with that row; the others of the
\* request get new documents. Nothing makes contents unique in the database.
UploadDocuments(r, kind, contents) ==
  LET new == {c \in contents : \A d \in docs : d[2] # c} IN
  /\ coll # 0
  /\ kind = "upload" => Cardinality(contents) = 1
  /\ new # {}
  /\ BeginEdit(r, kind, "put", {libraryPast.requests + 1} \X new)
  /\ UNCHANGED <<coll, docs, count, lock, files, vectors, canceled, late>>

PutFile(r, d) ==
  /\ edits[r].pc = "put"
  /\ d \in edits[r].docs \ edits[r].put
  /\ files' = files \cup {d}
  /\ edits' = [edits EXCEPT ![r] = [@ EXCEPT
       !.put = edits[r].put \cup {d},
       !.pc = IF edits[r].put \cup {d} = edits[r].docs THEN "rows" ELSE "put"]]
  /\ UNCHANGED <<coll, docs, count, lock, vectors, canceled, late, libraryPast>>

\* asyncio.gather fails with the first failing task and leaves the others running,
\* while the staged files are cleaned up.
PutFileFails(r, d) ==
  /\ LibraryFault
  /\ edits[r].pc = "put"
  /\ d \in edits[r].docs \ edits[r].put
  /\ files' = files \ edits[r].docs
  /\ late' = late \cup (edits[r].docs \ (edits[r].put \cup {d}))
  /\ libraryPast' = [libraryPast EXCEPT !.faults = @ + 1]
  /\ EndsEdit(r)
  /\ UNCHANGED <<coll, docs, count, lock, vectors, canceled>>

PutFileLate(d) ==
  /\ d \in late
  /\ late' = late \ {d}
  /\ files' = files \cup {d}
  /\ libraryPast' = [libraryPast EXCEPT !.stray = @ \cup {d}]
  /\ UNCHANGED <<coll, docs, count, lock, vectors, canceled, edits>>

\* UPDATE collections: the expression is computed from what is committed now, and
\* is not computed again after a wait for the lock.
UpdateCount(r, ds, sum) ==
  edits' = [edits EXCEPT ![r] = [@ EXCEPT !.docs = ds, !.seen = sum, !.waited = (lock # NoEditor),
                                          !.pc = IF lock = NoEditor THEN "commit" ELSE "wait"]]
LockRow(r) == lock' = IF lock = NoEditor THEN r ELSE lock

(* Mutant of InsertRows: the documents are counted before the flush.          *)
InsertRowsCountFirst(r) ==
  /\ edits[r].pc = "rows" /\ edits[r].kind \in {"upload", "batch"}
  /\ edits[r].coll = coll
  /\ UpdateCount(r, edits[r].docs, Cardinality(docs))
  /\ LockRow(r)
  /\ UNCHANGED <<coll, docs, count, files, vectors, canceled, late, libraryPast>>

\* flush and recount_collection_documents.
InsertRows(r) ==
  /\ edits[r].pc = "rows" /\ edits[r].kind \in {"upload", "batch"}
  /\ edits[r].coll = coll
  /\ UpdateCount(r, edits[r].docs, Cardinality(docs \cup edits[r].docs))
  /\ LockRow(r)
  /\ UNCHANGED <<coll, docs, count, files, vectors, canceled, late, libraryPast>>

\* The collection is gone: the only IntegrityError there is. A batch is answered
\* as a success without the documents.
RefuseRows(r) ==
  /\ edits[r].pc = "rows" /\ edits[r].kind \in {"upload", "batch"}
  /\ edits[r].coll # coll
  /\ files' = files \ edits[r].docs
  /\ EndsEdit(r)
  /\ UNCHANGED <<coll, docs, count, lock, vectors, canceled, late, libraryPast>>

---------------------------------------------------------------------------
(* Deletion of documents and truncation.                                    *)

DeleteDocuments(r, kind, ds) ==
  /\ coll # 0
  /\ ds # {} /\ ds \subseteq docs
  /\ kind = "delete" => Cardinality(ds) = 1
  /\ BeginEdit(r, kind, "wipe", ds)
  /\ canceled' = canceled \cup ds
  /\ UNCHANGED <<coll, docs, count, lock, files, vectors, late>>

\* truncate_collection and delete_collection cancel the jobs of the whole name.
EmptyCollection(r, kind) ==
  /\ coll # 0
  /\ BeginEdit(r, kind, "wipe", {})
  /\ canceled' = canceled \cup docs
  /\ UNCHANGED <<coll, docs, count, lock, files, vectors, late>>

\* Staged files, then vectors: those of the documents, or all under the name. A
\* batch goes on with the documents for which it worked.
WipedFrom(r, all, to) ==
  \E failed \in SUBSET edits[r].docs :
    /\ failed # {} => LibraryFault
    /\ all' = IF edits[r].kind \in Wide THEN {} ELSE all \ (edits[r].docs \ failed)
    /\ edits' = IF failed # {} /\ failed = edits[r].docs
                THEN [edits EXCEPT ![r] = IdleEdit]
                ELSE [edits EXCEPT ![r] = [@ EXCEPT !.docs = edits[r].docs \ failed, !.pc = to]]
    /\ libraryPast' = IF failed = {} THEN libraryPast ELSE [libraryPast EXCEPT !.faults = @ + 1]

WipeFiles(r) ==
  /\ edits[r].pc = "wipe"
  /\ WipedFrom(r, files, "vectors")
  /\ UNCHANGED <<coll, docs, count, lock, vectors, canceled, late>>

WipeVectors(r) ==
  /\ edits[r].pc = "vectors"
  /\ WipedFrom(r, vectors, "rows")
  /\ UNCHANGED <<coll, docs, count, lock, files, canceled, late>>

\* Rows that an open transaction has deleted are waited for.
DeletesRows(q) == IF edits[q].pc \in {"wait", "commit"} /\ edits[q].kind \notin {"upload", "batch"}
                    THEN edits[q].docs ELSE {}
Unlocked(r, ds) == \A q \in Editors \ {r} : DeletesRows(q) \cap ds = {}

\* DELETE and the new count: counted again, less the number of ids, or 0.
DeleteRows(r) ==
  LET gone == IF edits[r].kind = "truncate" THEN docs ELSE edits[r].docs IN
  /\ edits[r].pc = "rows" /\ edits[r].kind \in {"delete", "batch_delete", "truncate"}
  /\ Unlocked(r, gone)
  /\ UpdateCount(r, gone, IF edits[r].kind = "delete" THEN Cardinality(docs \ gone) ELSE 0)
  /\ LockRow(r)
  /\ UNCHANGED <<coll, docs, count, files, vectors, canceled, late, libraryPast>>

AcquireRow(r) ==
  /\ edits[r].pc = "wait"
  /\ lock = NoEditor
  /\ lock' = r
  /\ GoesTo(r, "commit")
  /\ UNCHANGED <<coll, docs, count, files, vectors, canceled, late, libraryPast>>

NewCount(r) ==
  IF edits[r].kind = "batch_delete"
    THEN IF count > Cardinality(edits[r].docs) THEN count - Cardinality(edits[r].docs) ELSE 0
    ELSE edits[r].seen

CommitRows(r) ==
  /\ edits[r].pc = "commit"
  /\ docs' = IF edits[r].kind \in {"upload", "batch"} THEN docs \cup edits[r].docs
                                                     ELSE docs \ edits[r].docs
  /\ count' = IF edits[r].coll = coll THEN NewCount(r) ELSE count
  /\ lock' = NoEditor
  /\ EndsEdit(r)
  /\ UNCHANGED <<coll, files, vectors, canceled, late, libraryPast>>

---------------------------------------------------------------------------
(* The collection itself.                                                   *)

\* The row, and by cascade the documents: not before open transactions are done.
DropRow(r) ==
  /\ edits[r].pc = "rows" /\ edits[r].kind = "drop"
  /\ \A q \in Editors : edits[q].pc \notin {"wait", "commit"}
  /\ IF edits[r].coll = coll
       THEN coll' = 0 /\ docs' = {} /\ count' = 0
       ELSE UNCHANGED <<coll, docs, count>>
  /\ EndsEdit(r)
  /\ UNCHANGED <<lock, files, vectors, canceled, late, libraryPast>>

CreateCollection(r) ==
  /\ coll = 0
  /\ BeginEdit(r, "create", "create", {})
  /\ UNCHANGED <<coll, docs, count, lock, files, vectors, canceled, late>>

\* The name is unique: who comes second drops the namespace that both have.
CreateRow(r) ==
  /\ edits[r].pc = "create"
  /\ IF coll = 0
       THEN /\ coll' = libraryPast.made + 1
            /\ libraryPast' = [libraryPast EXCEPT !.made = @ + 1]
            /\ EndsEdit(r)
       ELSE /\ GoesTo(r, "undo")
            /\ UNCHANGED <<coll, libraryPast>>
  /\ UNCHANGED <<docs, count, lock, files, vectors, canceled, late>>

UndoCreate(r) ==
  /\ edits[r].pc = "undo"
  /\ vectors' = {}
  /\ EndsEdit(r)
  /\ UNCHANGED <<coll, docs, count, lock, files, canceled, late, libraryPast>>

---------------------------------------------------------------------------
(* The worker, and a dying API process.                                     *)

\* A job that is not canceled; its finalizer removes the staged file.
IngestDocument(d) ==
  /\ d \in (docs \cap files) \ canceled
  /\ vectors' = vectors \cup {d}
  /\ files' = files \ {d}
  /\ UNCHANGED <<coll, docs, count, lock, canceled, late, edits, libraryPast>>

EditorDies(r) ==
  /\ LibraryFault
  /\ r \in OpenEdits
  /\ lock' = IF lock = r THEN NoEditor ELSE lock
  /\ libraryPast' = [libraryPast EXCEPT
       !.faults = @ + 1, !.stray = @ \cup (edits[r].put \cap files)]
  /\ EndsEdit(r)
  /\ UNCHANGED <<coll, docs, count, files, vectors, canceled, late>>

LibraryNext ==
  \/ \E r \in Editors :
       \/ \E cs \in SUBSET Contents, kind \in {"upload", "batch"} : UploadDocuments(r, kind, cs)
       \/ \E ds \in SUBSET docs, kind \in {"delete", "batch_delete"} : DeleteDocuments(r, kind, ds)
       \/ \E kind \in {"truncate", "drop"} : EmptyCollection(r, kind)
       \/ \E d \in edits[r].docs : PutFile(r, d) \/ PutFileFails(r, d)
       \/ InsertRows(r) \/ RefuseRows(r) \/ WipeFiles(r) \/ WipeVectors(r) \/ DeleteRows(r)
       \/ AcquireRow(r) \/ CommitRows(r) \/ DropRow(r) \/ CreateCollection(r) \/ CreateRow(r)
       \/ UndoCreate(r) \/ EditorDies(r)
  \/ \E d \in Docs : PutFileLate(d) \/ IngestDocument(d)

LibrarySpec == LibraryInit /\ [][LibraryNext]_libraryVars

---------------------------------------------------------------------------
(* Properties.                                                              *)

\* A transaction that counts the documents and does not have to wait for the row
\* of the collection leaves the exact number, whatever others left before it.
RecountHeals ==
  [][\A r \in Editors :
       /\ edits[r].pc = "commit" /\ edits[r].kind \in {"upload", "batch", "delete"}
       /\ ~edits[r].waited
       /\ docs' # docs
       => count' = Cardinality(docs')]_libraryVars

\* As long as uploads and deletions overlap with each other only, a document is
\* staged or searchable from its commit to its deletion.
KeepsContent == libraryPast.wide \/ docs \subseteq files \cup vectors \cup canceled

\* When nothing is under way, a staged file belongs to a row, or to a dead
\* process, or has arrived after the cleanup of a failed batch.
NoStrayFiles == OpenEdits = {} /\ ~libraryPast.wide => files \subseteq docs \cup libraryPast.stray

\* A collection does not have a content twice. It does not hold: two uploads both
\* look before either commits.
NoTwins == \A d, e \in docs : d[2] = e[2] => d = e

\* document_count is the number of documents. It does not hold: an update that
\* waits for another uses what it counted before, and ids may be deleted twice.
CountExact == OpenEdits = {} /\ coll # 0 => count = Cardinality(docs)

\* A count that did not wait is exact, documents keep their content, and files have
\* their documents.
LibraryHolds == [](KeepsContent /\ NoStrayFiles) /\ RecountHeals
=============================================================================

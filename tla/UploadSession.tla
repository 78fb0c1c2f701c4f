---------------------------- MODULE UploadSession ----------------------------
(* One upload session (services/upload_sessions.py, upload_session_items.py, *)
(* upload_session_files/, routers/upload_sessions.py): files are uploaded    *)
(* one request at a time while a client polls the session, documents are     *)
(* ingested or deleted, and the session may be canceled.                     *)
(*                                                                           *)
(* The status of a session is derived from its rows and then stored. A       *)
(* request keeps the objects it loaded: they are refreshed only by its own   *)
(* commits, and only the attributes it changed against its own copy are      *)
(* written. "mem" is that copy.                                              *)
EXTENDS Naturals, FiniteSets

CONSTANTS
  Items,       \* the files of the session, as many as its total_files
  MaxTries,    \* uploads per item
  MaxUploads,  \* uploads altogether
  MaxEvents    \* deletions of documents and cancellations, together

ASSUME UploadAssumption == MaxUploads \in Nat /\ MaxEvents \in Nat

VARIABLES
  session,    \* its stored status
  item,       \* the item rows
  doc,        \* the document of an item's content
  upReq,      \* the requests: uploads and the poller
  uploadPast  \* what has happened: deletions, cancellations, overlaps

upVars == <<session, item, doc, upReq, uploadPast>>

Uploads == Items \X (1..MaxTries)
Poller == <<"poll">>
UploadHandlers == Uploads \cup {Poller}
FinalStatuses == {"complete", "failed", "canceled"}
SessionStatuses == {"preparing", "uploading", "ingesting"} \cup FinalStatuses
Absent == [status |-> "absent", linked |-> FALSE]
ItemRows == [status : {"absent", "queued", "failed", "canceled"}, linked : BOOLEAN]
NoRows == [i \in Items |-> Absent]

UploadRecords ==
  [pc : {"idle", "stage", "reserve", "persist", "link", "count", "write", "end"},
   sess : SessionStatuses, mem : [Items -> ItemRows], next : SessionStatuses,
   gone : SUBSET Items]
UploadPasts ==
  [deleted : SUBSET Items, early : SUBSET Items, deletes : Nat, cancels : Nat,
   overlapped : BOOLEAN]

UploadTypeOK ==
  /\ session \in SessionStatuses
  /\ item \in [Items -> ItemRows]
  /\ doc \in [Items -> {"none", "pending", "processing", "ready", "failed"}]
  /\ upReq \in [UploadHandlers -> UploadRecords]
  /\ uploadPast \in UploadPasts

NewRequest == [pc |-> "idle", sess |-> "preparing", mem |-> NoRows,
               next |-> "preparing", gone |-> {}]

UploadInit ==
  /\ session = "preparing"
  /\ item = NoRows
  /\ doc = [i \in Items |-> "none"]
  /\ upReq = [r \in UploadHandlers |-> NewRequest]
  /\ uploadPast = [deleted |-> {}, early |-> {}, deletes |-> 0, cancels |-> 0,
                   overlapped |-> FALSE]

---------------------------------------------------------------------------
(* The status of a session as its rows give it.                             *)

\* Document status of an item in the outer join of session_rows.
Joined(i) == IF item[i].linked THEN doc[i] ELSE "none"

Deleted(mem, i) == ~mem[i].linked /\ Joined(i) = "none"

EffectiveOf(mem, i) ==
  IF mem[i].status \in {"failed", "canceled"} THEN mem[i].status
  ELSE IF Deleted(mem, i) THEN "canceled"
  ELSE CASE Joined(i) = "ready" -> "complete"
         [] Joined(i) = "failed" -> "failed"
         [] Joined(i) = "processing" -> "ingesting"
         [] OTHER -> "queued"

(* Mutant of StatusOf: a canceled session is derived from its items again.  *)
StatusOfOpen(sess, mem) ==
  LET rows == {i \in Items : mem[i] # Absent}
      with(s) == {i \in rows : EffectiveOf(mem, i) \in s}
  IN IF rows # Items THEN IF rows = {} THEN "preparing" ELSE "uploading"
     ELSE IF with({"queued", "ingesting"}) # {} THEN "ingesting"
     ELSE IF with({"complete"}) = {} /\ with({"failed", "canceled"}) # {} THEN "failed"
     ELSE "complete"

StatusOf(sess, mem) ==
  LET rows == {i \in Items : mem[i] # Absent}
      with(s) == {i \in rows : EffectiveOf(mem, i) \in s}
  IN IF sess = "canceled" THEN "canceled"
     ELSE IF rows # Items THEN IF rows = {} THEN "preparing" ELSE "uploading"
     ELSE IF with({"queued", "ingesting"}) # {} THEN "ingesting"
     ELSE IF with({"complete"}) = {} /\ with({"failed", "canceled"}) # {} THEN "failed"
     ELSE "complete"

\* What a request knows of the rows after a query: its old copies stay.
Seen(mem) == [i \in Items |-> IF mem[i] = Absent THEN item[i] ELSE mem[i]]
GoneIn(mem) == {i \in Items : mem[i] # Absent /\ Deleted(mem, i)}

\* The items that a request then writes as canceled.
Cancels(mem) == {i \in GoneIn(mem) : mem[i].status # "canceled"}

Then(u, pc) == [upReq EXCEPT ![u].pc = pc]
RequestOver(u) == [upReq EXCEPT ![u] = [NewRequest EXCEPT !.pc = "end"]]

---------------------------------------------------------------------------
(* An upload: POST .../files.                                               *)

\* load_context, under the lock of the session row. An item that has not
\* failed is answered at once, in the same transaction.
LoadSession(u) ==
  LET i == u[1]
      status == StatusOf(session, item)
      is == Cancels(item)
  IN
  /\ upReq[u].pc = "idle"
  /\ Cardinality({v \in Uploads : upReq[v].pc # "idle"}) < MaxUploads
  /\ IF session \in FinalStatuses
     THEN upReq' = RequestOver(u) /\ UNCHANGED <<session, item, uploadPast>>
     ELSE IF item[i].status \in {"queued", "canceled"}
     THEN /\ upReq' = RequestOver(u)
          /\ session' = status
          /\ item' = [j \in Items |-> IF j \in is THEN [item[j] EXCEPT !.status = "canceled"]
                                                  ELSE item[j]]
          /\ uploadPast' = [uploadPast EXCEPT !.early = @ \cup GoneIn(item)]
     ELSE /\ upReq' = [upReq EXCEPT ![u] = [@ EXCEPT !.pc = "stage", !.sess = session,
                                                      !.mem = item]]
          /\ UNCHANGED <<session, item, uploadPast>>
  /\ UNCHANGED doc

\* stage_file: the file is fine, or it is refused and the item recorded as failed.
Stage(u) ==
  LET i == u[1] IN
  /\ upReq[u].pc = "stage"
  /\ \/ upReq' = Then(u, "reserve") /\ UNCHANGED item
     \/ /\ item' = [item EXCEPT ![i].status =
                      IF Seen(upReq[u].mem)[i].status = "failed" THEN @ ELSE "failed"]
        /\ upReq' = [upReq EXCEPT ![u] = [@ EXCEPT !.mem[i] = item'[i], !.pc = "count"]]
  /\ UNCHANGED <<session, doc, uploadPast>>

\* reserve_item: a new row, or the failed one again. Another upload may have
\* created the row since: then this one is answered with it or fails.
Reserve(u) ==
  LET i == u[1] IN
  /\ upReq[u].pc = "reserve"
  /\ IF upReq[u].mem[i] = Absent /\ item[i] # Absent
     THEN /\ \/ upReq' = RequestOver(u)
             \/ upReq' = [upReq EXCEPT ![u] = [@ EXCEPT !.pc = "count", !.sess = session,
                                                    !.mem = item]]
          /\ UNCHANGED item
     ELSE /\ item' = [item EXCEPT ![i].status =
                        IF upReq[u].mem[i].status = "queued" THEN @ ELSE "queued"]
          /\ upReq' = [upReq EXCEPT ![u] = [@ EXCEPT !.mem[i] = item'[i], !.pc = "persist"]]
  /\ UNCHANGED <<session, doc, uploadPast>>

\* persist_upload: the document of this content, an older one with the same
\* content among them, or a new one, which fails when it cannot be queued. A
\* store that refuses the file leaves a failed item.
Persist(u) ==
  LET i == u[1] IN
  /\ upReq[u].pc = "persist"
  /\ \/ /\ IF doc[i] # "none" THEN UNCHANGED doc
           ELSE \E s \in {"pending", "ready", "failed"} : doc' = [doc EXCEPT ![i] = s]
        /\ upReq' = Then(u, "link")
        /\ UNCHANGED item
     \/ /\ item' = [item EXCEPT ![i].status =
                      IF upReq[u].mem[i].status = "failed" THEN @ ELSE "failed"]
        /\ \/ upReq' = RequestOver(u)
           \/ upReq' = [upReq EXCEPT ![u] = [@ EXCEPT !.mem[i] = item'[i], !.pc = "count"]]
        /\ UNCHANGED doc
  /\ UNCHANGED <<session, uploadPast>>

\* success_response: the item gets its document. A document deleted since then
\* violates the foreign key and fails the request.
LinkItem(u) ==
  LET i == u[1]
      status == IF doc[i] = "failed" THEN "failed" ELSE "queued"
  IN
  /\ upReq[u].pc = "link"
  /\ IF doc[i] = "none"
     THEN upReq' = RequestOver(u) /\ UNCHANGED item
     ELSE /\ item' = [item EXCEPT ![i] =
                        [linked |-> TRUE,
                         status |-> IF upReq[u].mem[i].status = status THEN @.status
                                    ELSE status]]
          /\ upReq' = [upReq EXCEPT ![u] = [@ EXCEPT !.mem[i] = item'[i], !.pc = "count"]]
  /\ UNCHANGED <<session, doc, uploadPast>>

---------------------------------------------------------------------------
(* upload_session_response with persist_counts, of an upload or a poll.     *)

\* GET .../{session_id}: the poller loads the session without a lock.
Poll ==
  /\ upReq[Poller].pc = "idle"
  /\ upReq' = [upReq EXCEPT ![Poller] = [NewRequest EXCEPT !.pc = "count", !.sess = session]]
  /\ UNCHANGED <<session, item, doc, uploadPast>>

Count(r) ==
  LET mem == Seen(upReq[r].mem) IN
  /\ upReq[r].pc = "count"
  /\ upReq' = [upReq EXCEPT ![r] = [pc |-> "write", sess |-> upReq[r].sess, mem |-> NoRows,
                                next |-> StatusOf(upReq[r].sess, mem),
                                gone |-> Cancels(mem)]]
  /\ uploadPast' = [uploadPast EXCEPT !.early = @ \cup GoneIn(mem)]
  /\ UNCHANGED <<session, item, doc>>

(* Mutant of WriteBack: the derived status is returned and not stored.      *)
WriteBackRowsOnly(r) ==
  /\ upReq[r].pc = "write"
  /\ item' = [i \in Items |-> IF i \in upReq[r].gone THEN [item[i] EXCEPT !.status = "canceled"]
                                                   ELSE item[i]]
  /\ upReq' = IF r = Poller THEN [upReq EXCEPT ![r] = NewRequest] ELSE RequestOver(r)
  /\ UNCHANGED <<session, doc, uploadPast>>

WriteBack(r) ==
  LET gone == upReq[r].gone IN
  /\ upReq[r].pc = "write"
  /\ session' = IF upReq[r].next = upReq[r].sess THEN session ELSE upReq[r].next
  /\ item' = [i \in Items |-> IF i \in gone THEN [item[i] EXCEPT !.status = "canceled"]
                                            ELSE item[i]]
  /\ upReq' = IF r = Poller THEN [upReq EXCEPT ![r] = NewRequest] ELSE RequestOver(r)
  /\ UNCHANGED <<doc, uploadPast>>

---------------------------------------------------------------------------
(* Cancellation, deletion and ingestion.                                    *)

Busy == \E r \in UploadHandlers : upReq[r].pc \notin {"idle", "end"}

\* cancel_upload_session, under the lock of the session row: pending documents
\* fail, and so will running jobs, whose epoch it raises.
Cancel ==
  LET active == {i \in Items : item[i] # Absent
                                /\ EffectiveOf(item, i) \in {"queued", "ingesting"}}
      waiting == {i \in active : item[i].linked /\ doc[i] = "pending"}
  IN
  /\ uploadPast.cancels + uploadPast.deletes < MaxEvents
  /\ session' = "canceled"
  /\ item' = [i \in Items |-> IF i \in active THEN [item[i] EXCEPT !.status = "canceled"]
                                              ELSE item[i]]
  /\ doc' = [i \in Items |-> IF i \in waiting THEN "failed" ELSE doc[i]]
  /\ uploadPast' = [uploadPast EXCEPT !.cancels = @ + 1, !.overlapped = @ \/ Busy]
  /\ UNCHANGED upReq

\* Deleting a document clears the references to it.
DropDocument(i) ==
  /\ doc[i] # "none"
  /\ uploadPast.cancels + uploadPast.deletes < MaxEvents
  /\ doc' = [doc EXCEPT ![i] = "none"]
  /\ item' = [item EXCEPT ![i].linked = FALSE]
  /\ uploadPast' = [uploadPast EXCEPT !.deletes = @ + 1, !.deleted = @ \cup {i}]
  /\ UNCHANGED <<session, upReq>>

\* The job of the document, as far as a session sees it.
IngestItem(i) ==
  /\ \/ doc[i] = "pending" /\ \E s \in {"processing", "failed"} : doc' = [doc EXCEPT ![i] = s]
     \/ doc[i] = "processing" /\ \E s \in {"ready", "failed"} : doc' = [doc EXCEPT ![i] = s]
  /\ UNCHANGED <<session, item, upReq, uploadPast>>

Serve(u) == Stage(u) \/ Reserve(u) \/ Persist(u) \/ LinkItem(u) \/ Count(u) \/ WriteBack(u)
Polling == Poll \/ Count(Poller) \/ WriteBack(Poller)

UploadNext ==
  \/ \E u \in Uploads : LoadSession(u) \/ Serve(u)
  \/ Polling \/ Cancel
  \/ \E i \in Items : DropDocument(i) \/ IngestItem(i)

\* Requests are served, the page polls as long as it is open, jobs are worked off.
UploadFairness ==
  /\ \A u \in Uploads : WF_upVars(Serve(u))
  /\ WF_upVars(Polling)
  /\ \A i \in Items : WF_upVars(IngestItem(i))

UploadSpec == UploadInit /\ [][UploadNext]_upVars

FairUploadSpec == UploadSpec /\ UploadFairness

---------------------------------------------------------------------------
(* Properties.                                                              *)

\* An item is stored as canceled only when its document was deleted or its
\* session canceled. It does not hold: any response takes an item without a
\* document for one whose document is gone, a refused file as well as a file
\* that is still on its way.
CanceledHasCause ==
  \A i \in Items : item[i].status = "canceled" => uploadPast.cancels > 0 \/ i \in uploadPast.deleted

\* A file that has its document is shown as canceled only for such a reason, or
\* because a response was made before it had the document.
LinkedCanceledHasCause ==
  \A i \in Items : item[i].status = "canceled" /\ item[i].linked =>
    uploadPast.cancels > 0 \/ i \in uploadPast.deleted \cup uploadPast.early

\* A cancellation stands, unless a request had loaded the session before it.
CancelStands ==
  [][session = "canceled" => session' = "canceled" \/ uploadPast.overlapped]_upVars

\* An uploaded file is shown as canceled for a reason only, and a canceled session
\* stays canceled.
CancelsHold ==
  /\ []LinkedCanceledHasCause
  /\ CancelStands

\* Once every file has its row and the documents are settled, polling brings the
\* session to rest in a final status.
SessionSettles ==
  (\A i \in Items : item[i] # Absent) ~> (session \in FinalStatuses)
=============================================================================

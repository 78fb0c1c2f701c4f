----------------------------- MODULE DocumentApi -----------------------------
(***************************************************************************)
(* The requests and syncs that submit documents to the ingestion queue and *)
(* take them away: upload, connector re-sync, delete, truncate, and the    *)
(* maintenance lock.  A deletion takes its store calls in a fixed order:   *)
(* epoch first, then staged files, then vectors, the rows last.            *)
(***************************************************************************)
EXTENDS IngestionState

Submit(d, at) == sub' = [sub EXCEPT ![d].at = at]

(* Mutual exclusion that the code does not have; OverlapAdmin lifts it.    *)
NotSubmitting(d) == OverlapAdmin \/ sub[d].at = "idle"

NotDeleting(d) == OverlapAdmin \/ (del[d] = "idle" /\ tr = "idle")

(* persist_document: the file is staged and the row committed as pending.  *)
Upload(d) ==
  /\ doc[d].status = "none" /\ NotDeleting(d)
  /\ doc' = [doc EXCEPT ![d] = [status |-> "pending", file |-> 1,
                                vectors |-> 0, content |-> 1]]
  /\ Submit(d, "read")
  /\ UNCHANGED <<epochs, maint, del, tr, slots, msg, leasing, rec, left>>

(* A sync found new content: the running job is cancelled and its vectors  *)
(* go before the new file is staged and the row is pending again.          *)
ResyncStart(d) ==
  /\ Exists(d) /\ sub[d].at = "idle" /\ NotDeleting(d)
  /\ doc[d].content < MaxContent /\ epoch[d] < MaxCancels
  /\ epoch' = [epoch EXCEPT ![d] = @ + 1]
  /\ Submit(d, "vectors")
  /\ UNCHANGED <<doc, cepoch, maint, del, tr, slots, msg, leasing, rec, left>>

ResyncVectors(d) ==
  /\ sub[d].at = "vectors"
  /\ doc' = [doc EXCEPT ![d].vectors = 0]
  /\ Submit(d, "put")
  /\ UNCHANGED <<epochs, maint, del, tr, slots, msg, leasing, rec, left>>

ResyncPut(d) ==
  /\ sub[d].at = "put"
  /\ doc' = [doc EXCEPT ![d].file = doc[d].content + 1]
  /\ Submit(d, "row")
  /\ UNCHANGED <<epochs, maint, del, tr, slots, msg, leasing, rec, left>>

(* The commit of a row that is gone fails, and the sync of this file with it. *)
ResyncRow(d) ==
  /\ sub[d].at = "row"
  /\ IF Exists(d)
       THEN /\ doc' = [doc EXCEPT ![d].status = "pending", ![d].content = @ + 1]
            /\ Submit(d, "read")
       ELSE Submit(d, "idle") /\ UNCHANGED doc
  /\ UNCHANGED <<epochs, maint, del, tr, slots, msg, leasing, rec, left>>

(* The vector store, the staging store or the database fails: the sync     *)
(* counts an error and leaves the row as it was, also when its vectors or  *)
(* its job are gone.  Only a later sync makes up for that.                 *)
ResyncAborts(d) ==
  /\ sub[d].at \in {"vectors", "put", "row"}
  /\ "storage" \in Faults /\ Lose
  /\ Submit(d, "idle")
  /\ UNCHANGED <<doc, epochs, maint, del, tr, slots, msg, leasing, rec>>

-----------------------------------------------------------------------------

(* enqueue reads the lock state, which is cached for seconds, and then the *)
(* epochs: the job is valid for the epochs of this moment.                 *)
EnqueueRead(d) ==
  /\ sub[d].at = "read"
  /\ \/ sub' = [sub EXCEPT ![d] = [at |-> "admit", job |->
          [doc |-> d, content |-> doc[d].content, epoch |-> epoch[d],
           cepoch |-> cepoch, attempt |-> 0, released |-> FALSE]]]
     \/ left.maint < MaxMaint /\ Submit(d, "refused")
  /\ UNCHANGED <<doc, epochs, maint, del, tr, slots, msg, leasing, rec, left>>

EnqueueAdmit(d) ==
  /\ sub[d].at = "admit"
  /\ \/ AdmitSlot /\ Submit(d, "send")
     \/ slots >= MaxDepth /\ Submit(d, "refused") /\ UNCHANGED slots
  /\ UNCHANGED <<doc, epochs, maint, del, tr, msg, leasing, rec, left>>

EnqueueSend(d) ==
  /\ sub[d].at = "send"
  /\ Free # {}
  /\ msg' = [msg EXCEPT ![AnyFree] = Message("queued", sub[d].job)]
  /\ sub' = [sub EXCEPT ![d] = [at |-> "idle", job |-> NoJob]]
  /\ UNCHANGED <<doc, epochs, maint, del, tr, slots, leasing, rec, left>>

(* The broker is unreachable: the slot is given back.                      *)
EnqueueSendFails(d) ==
  /\ sub[d].at = "send"
  /\ Fault("send")
  /\ ReleaseSlot
  /\ Submit(d, "refused")
  /\ UNCHANGED <<doc, epochs, maint, del, tr, msg, leasing, rec>>

(* A document the queue refused is failed and its staged file removed.     *)
Refused(d) ==
  /\ sub[d].at = "refused"
  /\ doc' = IF Exists(d)
              THEN [doc EXCEPT ![d].status = "failed", ![d].file = 0] ELSE doc
  /\ sub' = [sub EXCEPT ![d] = [at |-> "idle", job |-> NoJob]]
  /\ UNCHANGED <<epochs, maint, del, tr, slots, msg, leasing, rec, left>>

-----------------------------------------------------------------------------

DeleteStart(d) ==
  /\ Exists(d) /\ del[d] = "idle" /\ NotSubmitting(d)
  /\ epoch[d] < MaxCancels
  /\ epoch' = [epoch EXCEPT ![d] = @ + 1]
  /\ del' = [del EXCEPT ![d] = "file"]
  /\ UNCHANGED <<doc, cepoch, maint, sub, tr, slots, msg, leasing, rec, left>>

DeleteFile(d) ==
  /\ del[d] = "file"
  /\ doc' = [doc EXCEPT ![d].file = 0]
  /\ del' = [del EXCEPT ![d] = "vectors"]
  /\ UNCHANGED <<epochs, maint, sub, tr, slots, msg, leasing, rec, left>>

DeleteVectors(d) ==
  /\ del[d] = "vectors"
  /\ doc' = [doc EXCEPT ![d].vectors = 0]
  /\ del' = [del EXCEPT ![d] = "row"]
  /\ UNCHANGED <<epochs, maint, sub, tr, slots, msg, leasing, rec, left>>

DeleteRow(d) ==
  /\ del[d] = "row"
  /\ doc' = [doc EXCEPT ![d].status = "gone"]
  /\ del' = [del EXCEPT ![d] = "idle"]
  /\ UNCHANGED <<epochs, maint, sub, tr, slots, msg, leasing, rec, left>>

(* The staging store or the vector store fails: the request ends in an     *)
(* error, with the jobs cancelled and the row kept.                        *)
DeleteAborts(d) ==
  /\ del[d] \in {"file", "vectors"}
  /\ Fault("storage")
  /\ del' = [del EXCEPT ![d] = "idle"]
  /\ UNCHANGED <<doc, epochs, maint, sub, tr, slots, msg, leasing, rec>>

-----------------------------------------------------------------------------

(* Mutant of TruncateStart: the queue is not told.                         *)
TruncateUncancelled ==
  /\ tr = "idle" /\ \A d \in Docs : NotSubmitting(d)
  /\ Spend("truncate")
  /\ tr' = "files"
  /\ UNCHANGED <<doc, epochs, maint, sub, del, slots, msg, leasing, rec>>

TruncateStart ==
  /\ tr = "idle" /\ \A d \in Docs : NotSubmitting(d)
  /\ Spend("truncate")
  /\ cepoch' = cepoch + 1
  /\ tr' = "files"
  /\ UNCHANGED <<doc, epoch, maint, sub, del, slots, msg, leasing, rec>>

TruncateFiles ==
  /\ tr = "files"
  /\ doc' = [d \in Docs |-> [doc[d] EXCEPT !.file = 0]]
  /\ tr' = "vectors"
  /\ UNCHANGED <<epochs, maint, sub, del, slots, msg, leasing, rec, left>>

TruncateVectors ==
  /\ tr = "vectors"
  /\ doc' = [d \in Docs |-> [doc[d] EXCEPT !.vectors = 0]]
  /\ tr' = "rows"
  /\ UNCHANGED <<epochs, maint, sub, del, slots, msg, leasing, rec, left>>

TruncateRows ==
  /\ tr = "rows"
  /\ doc' = [d \in Docs |-> IF Exists(d) THEN [doc[d] EXCEPT !.status = "gone"]
                                         ELSE doc[d]]
  /\ tr' = "idle"
  /\ UNCHANGED <<epochs, maint, sub, del, slots, msg, leasing, rec, left>>

-----------------------------------------------------------------------------

(* A maintenance lock is taken; it is released or expires.                 *)
MaintenanceOn ==
  /\ ~maint
  /\ Spend("maint")
  /\ maint' = TRUE
  /\ UNCHANGED <<doc, epochs, sub, del, tr, slots, msg, leasing, rec>>

MaintenanceOff ==
  /\ maint
  /\ maint' = FALSE
  /\ UNCHANGED <<doc, epochs, sub, del, tr, slots, msg, leasing, rec, left>>

SubmitStep(d) ==
  \/ ResyncVectors(d) \/ ResyncPut(d) \/ ResyncRow(d)
  \/ EnqueueRead(d) \/ EnqueueAdmit(d) \/ EnqueueSend(d) \/ Refused(d)

DeleteStep(d) == DeleteFile(d) \/ DeleteVectors(d) \/ DeleteRow(d)

TruncateStep == TruncateFiles \/ TruncateVectors \/ TruncateRows

(* What users and the environment may do and need not.                     *)
ApiChoice ==
  \/ \E d \in Docs :
       Upload(d) \/ ResyncStart(d) \/ DeleteStart(d)
       \/ EnqueueSendFails(d) \/ DeleteAborts(d) \/ ResyncAborts(d)
  \/ TruncateStart
  \/ MaintenanceOn
=============================================================================

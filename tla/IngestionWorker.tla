-------------------------- MODULE IngestionWorker ---------------------------
(***************************************************************************)
(* The ingestion actor: _process_ingestion_job, process_leased_job,        *)
(* process_job and its finalizers, one Redis command, SQL statement or     *)
(* vector store call a step.  The payload of a delivery does not change    *)
(* while its actor runs, as the message that a crash brings back does not; *)
(* job.attempt is one more than the payload's once process_job began.      *)
(*                                                                         *)
(* The epochs only grow, so of several ensure_job_current calls in a row   *)
(* the last one decides; "check" stands for the calls from the end of the  *)
(* conversion to the first insert, "recheck" for those after it.           *)
(***************************************************************************)
EXTENDS IngestionState

Job(m) == msg[m].job

Doc(m) == Job(m).doc

Goto(m, at) == msg' = [msg EXCEPT ![m].at = at]

(* An exception reaches the except clause of process_job: is it a          *)
(* cancellation, a failure to retry or a permanent one?                    *)
Raise(m, why) ==
  LET last == Job(m).attempt + 1 >= MaxAttempts
  IN  msg' = [msg EXCEPT ![m].at = "finvectors",
                         ![m].why = IF why = "transient" /\ last
                                    THEN "permanent" ELSE why]

(* The steps at which the delivery's admission still stands.               *)
HoldsSlot(m) ==
  LET at == msg[m].at
  IN  \/ at = "queued" /\ ~Job(m).released
      \/ at \in Running \ {"deferring", "retryadmit", "retrystatus", "unlease"}
         /\ ~(at \in {"finstatus", "finfile"} /\ msg[m].why = "rejected")

-----------------------------------------------------------------------------

(* Mutant of Defer: the deferred job keeps its slot.                       *)
DeferKeepsSlot(m) ==
  /\ msg[m].at = "queued"
  /\ maint
  /\ Goto(m, "deferring")
  /\ UNCHANGED <<doc, epochs, slots, api, leasing, rec, left>>

(* Maintenance is active: the slot is given back and the job is sent again *)
(* to wait without one.                                                    *)
Defer(m) ==
  /\ msg[m].at = "queued"
  /\ maint
  /\ IF Job(m).released THEN UNCHANGED slots ELSE ReleaseSlot
  /\ Goto(m, "deferring")
  /\ UNCHANGED <<doc, epochs, api, leasing, rec, left>>

DeferSend(m) ==
  /\ msg[m].at = "deferring"
  /\ msg' = [msg EXCEPT ![m].at = "queued", ![m].job.released = TRUE]
  /\ UNCHANGED <<doc, epochs, slots, api, leasing, rec, left>>

(* Mutant of SenderDone: retries are sent without a delay.                 *)
SenderDoneOrNot(m) == m \in Deliveries

(* With PromptFinalize the delay of a retry outlasts its sender's last     *)
(* write, the status update of finalize_retry.                             *)
SenderDone(m) ==
  PromptFinalize =>
    \A n \in Deliveries :
      msg[n].at = "retrystatus" => JobId(Job(n)) # JobId(Job(m))

(* The actor runs; a job without a slot is admitted first, or waits.       *)
Receive(m) ==
  /\ msg[m].at = "queued"
  /\ ~maint
  /\ SenderDone(m)
  /\ IF Job(m).released THEN AdmitSlot ELSE UNCHANGED slots
  /\ processing' = processing (+) SetToBag({Raw(Job(m))})
  /\ Goto(m, "lease")
  /\ UNCHANGED <<doc, epochs, api, leases, rec, left>>

SetLease(m) ==
  /\ msg[m].at = "lease"
  /\ leases' = leases \cup {JobId(Job(m))}
  /\ Goto(m, "begin")
  /\ UNCHANGED <<doc, epochs, slots, api, processing, rec, left>>

(* A delete_by_document whose errors are swallowed or lead nowhere else.   *)
DropVectors(d) ==
  \/ doc' = [doc EXCEPT ![d].vectors = 0] /\ UNCHANGED left
  \/ Fault("cleanup") /\ UNCHANGED doc

-----------------------------------------------------------------------------

CheckBegin(m) ==
  /\ msg[m].at = "begin"
  /\ IF Stale(Job(m)) THEN Raise(m, "cancelled") ELSE Goto(m, "mark")
  /\ UNCHANGED <<doc, epochs, slots, api, leasing, rec, left>>

Mark(m) ==
  /\ msg[m].at = "mark"
  /\ SetStatus(Doc(m), "processing")
  /\ Goto(m, "stage")
  /\ UNCHANGED <<epochs, slots, api, leasing, rec, left>>

(* convert_document reads the staged file.  A file that is gone is an      *)
(* OSError, and so a failure to retry.                                     *)
Stage(m) ==
  /\ msg[m].at = "stage"
  /\ IF doc[Doc(m)].file = 0
       THEN Raise(m, "transient")
       ELSE msg' = [msg EXCEPT ![m].at = "check", ![m].got = doc[Doc(m)].file]
  /\ UNCHANGED <<doc, epochs, slots, api, leasing, rec, left>>

(* The conversion or the embedding fails.                                  *)
Fail(m, why) ==
  /\ msg[m].at \in {"stage", "check"}
  /\ Fault(why)
  /\ Raise(m, why)
  /\ UNCHANGED <<doc, epochs, slots, api, leasing, rec>>

(* Mutant of FailInsert: the batch that failed is skipped.                 *)
FailInsertSkipped(m, why) ==
  /\ msg[m].at = "insert"
  /\ why = "transient" /\ Fault("insert")
  /\ \E v \in {0, msg[m].got} : doc' = [doc EXCEPT ![Doc(m)].vectors = v]
  /\ Goto(m, "recheck")
  /\ UNCHANGED <<epochs, slots, api, leasing, rec>>

(* The insert of a batch fails: permanently, or MAX_BATCH_RETRIES times.   *)
(* What it or an earlier batch wrote stays, unless the last purge had it.  *)
FailInsert(m, why) ==
  /\ msg[m].at = "insert"
  /\ Fault("insert")
  /\ \E v \in {0, msg[m].got} : doc' = [doc EXCEPT ![Doc(m)].vectors = v]
  /\ Raise(m, why)
  /\ UNCHANGED <<epochs, slots, api, leasing, rec>>

Check(m) ==
  /\ msg[m].at = "check"
  /\ IF Stale(Job(m)) THEN Goto(m, "purge") \/ Raise(m, "cancelled")
                      ELSE Goto(m, "insert")
  /\ UNCHANGED <<doc, epochs, slots, api, leasing, rec, left>>

Insert(m) ==
  /\ msg[m].at = "insert"
  /\ doc' = [doc EXCEPT ![Doc(m)].vectors = msg[m].got]
  /\ Goto(m, "recheck")
  /\ UNCHANGED <<epochs, slots, api, leasing, rec, left>>

(* Mutant of Recheck: the vectors are inserted and not checked again.      *)
RecheckNothing(m) ==
  /\ msg[m].at = "recheck"
  /\ Goto(m, "commit")
  /\ UNCHANGED <<doc, epochs, slots, api, leasing, rec, left>>

(* A cancellation found around the insert of a batch deletes what the      *)
(* document has in the store; the other checks only raise.                 *)
Recheck(m) ==
  /\ msg[m].at = "recheck"
  /\ IF Stale(Job(m)) THEN Goto(m, "purge") \/ Raise(m, "cancelled")
                      ELSE Goto(m, "commit")
  /\ UNCHANGED <<doc, epochs, slots, api, leasing, rec, left>>

(* delete_by_document or delete_by_ids: the retry loop of the batch takes  *)
(* a cancellation for a failure of the batch and purges it up to three     *)
(* times, with pauses, before the cancellation gets out.                   *)
Purge(m) ==
  /\ msg[m].at = "purge"
  /\ DropVectors(Doc(m))
  /\ Goto(m, "purge") \/ Raise(m, "cancelled")
  /\ UNCHANGED <<epochs, slots, api, leasing, rec>>

(* Only a row still in processing becomes ready; the job goes on anyway.   *)
Commit(m) ==
  /\ msg[m].at = "commit"
  /\ IF doc[Doc(m)].status = "processing"
       THEN SetStatus(Doc(m), "ready") ELSE UNCHANGED doc
  /\ Goto(m, "okfile")
  /\ UNCHANGED <<epochs, slots, api, leasing, rec, left>>

-----------------------------------------------------------------------------

(* clear_document_staged_file: the delete of the file may fail, which is   *)
(* only logged.                                                            *)
ClearFile(d) ==
  \/ doc' = [doc EXCEPT ![d].file = 0] /\ UNCHANGED left
  \/ Fault("cleanup") /\ UNCHANGED doc

OkFile(m) ==
  /\ msg[m].at = "okfile"
  /\ ClearFile(Doc(m))
  /\ Goto(m, "okrelease")
  /\ UNCHANGED <<epochs, slots, api, leasing, rec>>

OkRelease(m) ==
  /\ msg[m].at = "okrelease"
  /\ ReleaseSlot
  /\ Goto(m, "unlease")
  /\ UNCHANGED <<doc, epochs, api, leasing, rec, left>>

(* A step of finalize_success raises: the success is treated as a failure. *)
FailFinalize(m) ==
  /\ msg[m].at = "okrelease"
  /\ Fault("finalize")
  /\ Raise(m, "transient")
  /\ UNCHANGED <<doc, epochs, slots, api, leasing, rec>>

(* delete_document_vectors_after_failure swallows its errors.              *)
FinVectors(m) ==
  /\ msg[m].at = "finvectors"
  /\ DropVectors(Doc(m))
  /\ Goto(m, IF msg[m].why = "transient" THEN "retryrelease" ELSE "finstatus")
  /\ UNCHANGED <<epochs, slots, api, leasing, rec>>

FinStatus(m) ==
  /\ msg[m].at = "finstatus"
  /\ SetStatus(Doc(m), "failed")
  /\ Goto(m, "finfile")
  /\ UNCHANGED <<epochs, slots, api, leasing, rec, left>>

(* Mutant of FinFile: a rejected retry releases the slot it gave back.     *)
FinFileReleases(m) ==
  /\ msg[m].at = "finfile"
  /\ ClearFile(Doc(m))
  /\ Goto(m, "finrelease")
  /\ UNCHANGED <<epochs, slots, api, leasing, rec>>

(* Mutant of FinFile: the file of a rejected retry stays.                  *)
FinFileKept(m) ==
  /\ msg[m].at = "finfile"
  /\ IF msg[m].why = "rejected"
       THEN Goto(m, "unlease") /\ UNCHANGED <<doc, left>>
       ELSE Goto(m, "finrelease") /\ ClearFile(Doc(m))
  /\ UNCHANGED <<epochs, slots, api, leasing, rec>>

(* A retry the queue rejected holds no slot: it was released before.       *)
FinFile(m) ==
  /\ msg[m].at = "finfile"
  /\ ClearFile(Doc(m))
  /\ Goto(m, IF msg[m].why = "rejected" THEN "unlease" ELSE "finrelease")
  /\ UNCHANGED <<epochs, slots, api, leasing, rec>>

FinRelease(m) ==
  /\ msg[m].at = "finrelease"
  /\ ReleaseSlot
  /\ Goto(m, "unlease")
  /\ UNCHANGED <<doc, epochs, api, leasing, rec, left>>

-----------------------------------------------------------------------------

RetryRelease(m) ==
  /\ msg[m].at = "retryrelease"
  /\ ReleaseSlot
  /\ Goto(m, "retryadmit")
  /\ UNCHANGED <<doc, epochs, api, leasing, rec, left>>

(* Another job may have taken the slot: the document fails for good.       *)
RetryAdmit(m) ==
  /\ msg[m].at = "retryadmit"
  /\ \/ AdmitSlot /\ Goto(m, "retrysend")
     \/ /\ slots >= MaxDepth
        /\ msg' = [msg EXCEPT ![m].at = "finstatus", ![m].why = "rejected"]
        /\ UNCHANGED slots
  /\ UNCHANGED <<doc, epochs, api, leasing, rec, left>>

RetrySend(m) ==
  /\ msg[m].at = "retrysend"
  /\ Free # {}
  /\ msg' = [msg EXCEPT ![m].at = "retrystatus",
                        ![AnyFree] = Message("queued",
                           [Job(m) EXCEPT !.attempt = @ + 1, !.released = FALSE])]
  /\ UNCHANGED <<doc, epochs, slots, api, leasing, rec, left>>

(* The broker is unreachable: the slot is given back, the exception leaves *)
(* process_job and the message is dead-lettered.                           *)
RetrySendFails(m) ==
  /\ msg[m].at = "retrysend"
  /\ Lose
  /\ ReleaseSlot
  /\ Goto(m, "unlease")
  /\ UNCHANGED <<doc, epochs, api, leasing, rec>>

(* The time limit of the actor, or a store that fails in a finalizer: only *)
(* the finally clause runs, and the message is dead-lettered.              *)
Abort(m) ==
  /\ msg[m].at \in Leased \ {"unlease"}
  /\ "abort" \in Faults /\ Lose
  /\ Goto(m, "unlease")
  /\ UNCHANGED <<doc, epochs, slots, api, leasing, rec>>

RetryStatus(m) ==
  /\ msg[m].at = "retrystatus"
  /\ SetStatus(Doc(m), "pending")
  /\ Goto(m, "unlease")
  /\ UNCHANGED <<epochs, slots, api, leasing, rec, left>>

(* The finally clause of process_leased_job, and the acknowledgement.      *)
Unlease(m) ==
  /\ msg[m].at = "unlease"
  /\ processing' = processing (-) SetToBag({Raw(Job(m))})
  /\ leases' = leases \ {JobId(Job(m))}
  /\ msg' = [msg EXCEPT ![m] = Message("free", NoJob)]
  /\ UNCHANGED <<doc, epochs, slots, api, rec, left>>

WorkerStep(m) ==
  \/ Defer(m) \/ DeferSend(m) \/ Receive(m) \/ SetLease(m)
  \/ CheckBegin(m) \/ Mark(m) \/ Stage(m) \/ Check(m) \/ Insert(m)
  \/ Recheck(m) \/ Purge(m) \/ Commit(m) \/ OkFile(m) \/ OkRelease(m)
  \/ FinVectors(m) \/ FinStatus(m) \/ FinFile(m) \/ FinRelease(m)
  \/ RetryRelease(m) \/ RetryAdmit(m) \/ RetrySend(m) \/ RetryStatus(m)
  \/ Unlease(m)

WorkerFault(m) ==
  \/ \E why \in {"transient", "permanent"} : Fail(m, why) \/ FailInsert(m, why)
  \/ FailFinalize(m) \/ RetrySendFails(m) \/ Abort(m)
=============================================================================

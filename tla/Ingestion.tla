------------------------------ MODULE Ingestion ------------------------------
(***************************************************************************)
(* The ingestion pipeline as a whole: the document API, the workers and    *)
(* the recovery of stuck jobs, over the state they share, with the         *)
(* properties that make the pipeline correct.                              *)
(***************************************************************************)
EXTENDS DocumentApi, IngestionRecovery

(* Nobody is at work on the document any more.                             *)
AtRest(d) ==
  /\ sub[d].at = "idle" /\ del[d] = "idle" /\ tr = "idle"
  /\ \A m \in Deliveries : msg[m].at # "free" => Doc(m) # d
  /\ \A r \in Recoverers : \A j \in BagToSet(rec[r].jobs) : j.doc # d

(* Nothing is left to do: what remains are uploads nobody makes.           *)
Quiet ==
  /\ \A d \in Docs : AtRest(d)
  /\ ~maint
  /\ UNCHANGED vars

Next ==
  \/ ApiChoice \/ MaintenanceOff \/ TruncateStep
  \/ \E d \in Docs : SubmitStep(d) \/ DeleteStep(d)
  \/ \E m \in Deliveries :
       WorkerStep(m) \/ WorkerFault(m) \/ Crash(m) \/ Renew(m)
  \/ \E id \in leases : LeaseExpires(id)
  \/ \E r \in Recoverers : RecoverList(r) \/ RecoverStep(r) \/ RecoverCrash(r)
  \/ Quiet

(* Requests, syncs and recoverers run to their end, workers take what is   *)
(* queued and go on, and a maintenance lock expires.  Nobody has to        *)
(* upload, delete or recover, and nothing has to fail.                     *)
Fairness ==
  /\ WF_vars(MaintenanceOff)
  /\ WF_vars(TruncateStep)
  /\ \A d \in Docs : WF_vars(SubmitStep(d)) /\ WF_vars(DeleteStep(d))
  /\ \A m \in Deliveries : WF_vars(WorkerStep(m))
  /\ \A r \in Recoverers : WF_vars(RecoverStep(r))

Spec == Init /\ [][Next]_vars

FairSpec == Spec /\ Fairness

-----------------------------------------------------------------------------

(* As long as no worker dies, no lease is lost and nothing is recovered,   *)
(* the in-flight counter is the number of jobs that were admitted and not  *)
(* released, whichever way each of them ends: success, cancellation,       *)
(* retry, rejected retry, failed send or deferral for maintenance.  An     *)
(* aborted job leaves its slot behind, and never gives back another's.     *)
SlotsExact ==
  LET held == Cardinality({m \in Deliveries : HoldsSlot(m)})
              + Cardinality({d \in Docs : sub[d].at = "send"})
  IN  /\ slots >= held
      /\ NothingLost => slots = held

(* delete_document and truncate_collection: once the work on a deleted     *)
(* document has ended none of its vectors is left, although jobs of it     *)
(* may have run before, during and after the deletion.                     *)
NoOrphanVectors ==
  \A d \in Docs : AtRest(d) /\ doc[d].status = "gone" => doc[d].vectors = 0

(* A ready document that nobody is deleting has the vectors of its         *)
(* present content.                                                        *)
ReadyIsSearchable ==
  \A d \in Docs :
    doc[d].status = "ready" /\ del[d] = "idle" /\ tr = "idle" =>
      doc[d].vectors = doc[d].content

(* The same once all work on the document has ended, when a connector may  *)
(* have submitted the next content while a job of the last one ran.        *)
ReadyIsCurrent ==
  NothingLost =>
    \A d \in Docs :
      AtRest(d) /\ doc[d].status = "ready" => doc[d].vectors = doc[d].content

(* The finalizers of a failed document leave no vectors behind.            *)
FailedIsClean ==
  \A d \in Docs : AtRest(d) /\ doc[d].status = "failed" => doc[d].vectors = 0

(* Staged originals are gone once ingestion or deletion has ended.         *)
StagedFilesCleared ==
  \A d \in Docs :
    AtRest(d) /\ doc[d].status \in {"ready", "failed", "gone"} => doc[d].file = 0

(* Both: work on a document that has ended leaves nothing behind.          *)
EndsClean == FailedIsClean /\ StagedFilesCleared

(* No document is forgotten: while it is pending or processing there is a  *)
(* request, a message, a worker or a recoverer that carries it on.  Only a *)
(* failure that loses a job can break this.                                *)
NotForgotten ==
  NothingLost =>
    \A d \in Docs : doc[d].status \in {"pending", "processing"} => ~AtRest(d)

(* A crash forgets no document and orphans no vectors.                     *)
CrashSafe == NotForgotten /\ NoOrphanVectors

(* Without re-syncs a document that is ready or failed keeps its status    *)
(* until it is deleted: no late write of another attempt reopens it.       *)
SettledIsFinal ==
  [][\A d \in Docs :
       doc[d].status \in {"ready", "failed"} =>
         doc'[d].status \in {doc[d].status, "gone"}]_vars

(* Every submitted document is ready, failed or deleted in the end, unless *)
(* a job was lost.                                                         *)
EventuallySettled ==
  \A d \in Docs :
    doc[d].status \in {"pending", "processing"} ~>
      doc[d].status \in {"ready", "failed", "gone"} \/ ~NothingLost

(* "changed objects replace existing documents and queue re-ingestion":    *)
(* without faults a document that is not deleted ends ready.               *)
ResyncReplaces ==
  \A d \in Docs :
    AtRest(d) /\ Exists(d) =>
      doc[d].status = "ready" /\ doc[d].vectors = doc[d].content
=============================================================================

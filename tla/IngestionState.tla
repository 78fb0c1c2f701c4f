--------------------------- MODULE IngestionState ---------------------------
(***************************************************************************)
(* What the API processes and the ingestion workers share: the documents   *)
(* (a PostgreSQL row, a staged source file, the vectors of its chunks),    *)
(* the cancellation epochs, the admission counter, the Dramatiq messages,  *)
(* the processing list and its leases, all in one collection.              *)
(*                                                                         *)
(* Content is a generation number: an upload stages generation 1 of a      *)
(* document and every connector re-sync the next one, under the same       *)
(* storage key, so vectors and files are told apart by the generation they *)
(* come from.  0 stands for no file and for no vectors.                    *)
(***************************************************************************)
EXTENDS Integers, FiniteSets, Bags

CONSTANTS
  Docs,          \* document ids
  Deliveries,    \* slots for Dramatiq messages, each run by one actor at a time
  Recoverers,    \* processes that may run recover_stuck_jobs
  NoJob,         \* the payload of a free delivery
  MaxDepth,      \* queue_max_depth
  MaxAttempts,   \* max_attempts of a job
  MaxContent,    \* bound: generations of a document's content
  MaxCancels,    \* bound: deletions and re-syncs of a document
  MaxCrashes,    \* bound: worker crashes
  MaxLosses,     \* bound: failures that lose a job, see Lose
  MaxRecoveries, \* bound: runs of recover_stuck_jobs
  MaxLapses,     \* bound: leases lost by a worker that is alive
  MaxMaint,      \* bound: maintenance windows
  MaxTruncates,  \* bound: truncations of the collection
  MaxFaults,     \* bound: failures of the kinds in Faults
  Faults,        \* the failures the environment may produce
  OverlapAdmin,  \* deletions may start while the document is being enqueued
  PromptFinalize \* a retry message waits at least until its sender is done

ASSUME IngestionAssumption ==
  /\ IsFiniteSet(Docs)
  /\ IsFiniteSet(Deliveries)
  /\ MaxDepth \in Nat
  /\ MaxAttempts \in Nat \ {0}
  /\ MaxContent \in Nat \ {0}
  /\ {MaxCancels, MaxCrashes, MaxLosses, MaxRecoveries, MaxLapses, MaxMaint,
      MaxTruncates, MaxFaults} \subseteq Nat
  /\ Faults \subseteq {"transient", "permanent", "insert", "cleanup",
                       "finalize", "send", "storage", "abort"}
  /\ {OverlapAdmin, PromptFinalize} \subseteq BOOLEAN

VARIABLES
  doc,         \* the row, staged file, vectors and content of each document
  epoch,       \* document epochs
  cepoch,      \* the collection's epoch
  maint,       \* is a maintenance lock active?
  slots,       \* the in-flight counter (see Admission)
  msg,         \* each delivery: where its actor stands, and its payload
  processing,  \* the processing list, a bag of payloads
  leases,      \* the job ids whose lease key exists
  sub,         \* the request or sync that is submitting each document
  del,         \* the request that is deleting each document
  tr,          \* the request that is truncating the collection
  rec,         \* the recoverers
  left         \* what remains of the bounds

vars == <<doc, epoch, cepoch, maint, slots, msg, processing, leases,
          sub, del, tr, rec, left>>

epochs  == <<epoch, cepoch>>
leasing == <<processing, leases>>
api     == <<maint, sub, del, tr>>

-----------------------------------------------------------------------------

(* The message payload.  The epochs are those enqueue read, attempt counts *)
(* the earlier attempts, released says that the job waits without a slot.  *)
Jobs == [doc: Docs, content: 1..MaxContent, epoch: Nat, cepoch: Nat,
         attempt: 0..(MaxAttempts - 1), released: BOOLEAN]

(* The lease key is named after the job id, which create_ingestion_job     *)
(* makes once per submission: retries and recovered copies share it.       *)
JobId(j) == <<j.doc, j.content>>

(* What process_leased_job stores in the processing list.                  *)
Raw(j) == [j EXCEPT !.released = FALSE]

(* ensure_job_current raises IngestionCancelledError.                      *)
Stale(j) == j.cepoch # cepoch \/ j.epoch # epoch[j.doc]

Statuses == {"pending", "processing", "ready", "failed"}

Exists(d) == doc[d].status \in Statuses

(* UPDATE documents SET status WHERE id: no row, no effect.                *)
SetStatus(d, s) ==
  doc' = IF Exists(d) THEN [doc EXCEPT ![d].status = s] ELSE doc

(* admit_inflight and release_inflight; Admission justifies the atomicity. *)
AdmitSlot == slots < MaxDepth /\ slots' = slots + 1

ReleaseSlot == slots' = IF slots > 0 THEN slots - 1 ELSE 0

(* Sending takes any free delivery: which one says nothing.                *)
Free == {m \in Deliveries : msg[m].at = "free"}

AnyFree == CHOOSE m \in Free : TRUE

Message(at, j) == [at |-> at, job |-> j, why |-> "none", got |-> 0]

Spend(what) == left[what] > 0 /\ left' = [left EXCEPT ![what] = @ - 1]

Fault(kind) == kind \in Faults /\ Spend("fault")

(* The failures that the code does not make up for: the broker refuses a   *)
(* retry, a recoverer dies between taking jobs and sending them, a job is  *)
(* interrupted by an exception that no clause catches, a re-sync fails     *)
(* after it deleted vectors.                                               *)
Lose == Spend("loss")

NothingLost == left.loss = MaxLosses

-----------------------------------------------------------------------------

(* Where an actor stands.  A step named here is the next one it takes.     *)
Leased == {"begin", "mark", "stage", "check", "insert", "recheck", "purge",
           "commit", "okfile", "okrelease", "finvectors", "finstatus",
           "finfile", "finrelease", "retryrelease", "retryadmit",
           "retrysend", "retrystatus", "unlease"}

Running == Leased \cup {"deferring", "lease"}

TypeOK ==
  /\ doc \in [Docs -> [status: Statuses \cup {"none", "gone"},
                       file: 0..MaxContent, vectors: 0..MaxContent,
                       content: 0..MaxContent]]
  /\ epoch \in [Docs -> Nat]
  /\ cepoch \in Nat
  /\ maint \in BOOLEAN
  /\ slots \in Nat
  /\ msg \in [Deliveries ->
               [at: Running \cup {"free", "queued"}, job: Jobs \cup {NoJob},
                why: {"none", "cancelled", "transient", "permanent", "rejected"},
                got: 0..MaxContent]]
  /\ IsABag(processing)
  /\ BagToSet(processing) \subseteq Jobs
  /\ leases \subseteq Docs \X (1..MaxContent)
  /\ sub \in [Docs -> [at: {"idle", "vectors", "put", "row", "read", "admit",
                            "send", "refused"},
                       job: Jobs \cup {NoJob}]]
  /\ del \in [Docs -> {"idle", "file", "vectors", "row"}]
  /\ tr \in {"idle", "files", "vectors", "rows"}
  /\ DOMAIN rec = Recoverers
  /\ \A r \in Recoverers :
       /\ rec[r].at \in {"idle", "listed", "taken", "marked"}
       /\ IsABag(rec[r].jobs)
       /\ BagToSet(rec[r].jobs) \subseteq Jobs
  /\ left \in [{"crash", "loss", "recover", "lapse", "maint", "truncate",
                "fault"} -> Nat]

Init ==
  /\ doc = [d \in Docs |-> [status |-> "none", file |-> 0, vectors |-> 0,
                            content |-> 0]]
  /\ epoch = [d \in Docs |-> 0]
  /\ cepoch = 0
  /\ maint = FALSE
  /\ slots = 0
  /\ msg = [m \in Deliveries |-> Message("free", NoJob)]
  /\ processing = EmptyBag
  /\ leases = {}
  /\ sub = [d \in Docs |-> [at |-> "idle", job |-> NoJob]]
  /\ del = [d \in Docs |-> "idle"]
  /\ tr = "idle"
  /\ rec = [r \in Recoverers |-> [at |-> "idle", jobs |-> EmptyBag]]
  /\ left = [crash |-> MaxCrashes, loss |-> MaxLosses,
             recover |-> MaxRecoveries, lapse |-> MaxLapses,
             maint |-> MaxMaint, truncate |-> MaxTruncates,
             fault |-> MaxFaults]
=============================================================================

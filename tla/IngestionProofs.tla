--------------------------- MODULE IngestionProofs ---------------------------
(***************************************************************************)
(* Proofs about Ingestion, for every number of documents, deliveries,      *)
(* recoverers, attempts and faults, and every bound.                       *)
(***************************************************************************)
EXTENDS Ingestion, FiniteSetTheorems, TLAPS

Steps == {"vectors", "put", "row", "read", "admit", "send", "refused"}

Generations == 0..MaxContent

Documents ==
  [status: Statuses \cup {"none", "gone"}, file: Generations,
   vectors: Generations, content: Generations]

(* A delivery in use has a job; it is retried only while it has attempts   *)
(* left, and nothing that was rejected is finalized from the start.        *)
Messages ==
  {r \in [at: Running \cup {"free", "queued"}, job: Jobs \cup {NoJob},
          why: {"none", "cancelled", "transient", "permanent", "rejected"},
          got: Generations] :
     /\ r.at # "free" => r.job \in Jobs
     /\ r.at = "finvectors" => r.why # "rejected"
     /\ \/ r.at \in {"retryrelease", "retryadmit", "retrysend"}
        \/ r.at = "finvectors" /\ r.why = "transient"
        => r.job.attempt + 1 < MaxAttempts}

(* A submission past its reading has a job of the document, which waits    *)
(* with a slot of its own.                                                 *)
AllSubmissions == [at: Steps \cup {"idle"}, job: Jobs \cup {NoJob}]

Submissions(d) ==
  {r \in AllSubmissions :
     r.at \in {"admit", "send"} =>
       r.job \in Jobs /\ r.job.doc = d /\ ~r.job.released}

JobBag(b) == IsABag(b) /\ BagToSet(b) \subseteq Jobs

DocsOK == doc \in [Docs -> Documents]

MsgsOK == msg \in [Deliveries -> Messages]

SubsOK == sub \in [Docs -> AllSubmissions] /\ \A d \in Docs : sub[d] \in Submissions(d)

BagsOK ==
  /\ JobBag(processing)
  /\ DOMAIN rec = Recoverers
  /\ \A r \in Recoverers :
       rec[r].at \in {"idle", "listed", "taken", "marked"} /\ JobBag(rec[r].jobs)

(* A re-sync leaves room for the content it brings, and content that is    *)
(* submitted is there.                                                     *)
ContentFits ==
  \A d \in Docs :
    /\ sub[d].at \in {"vectors", "put", "row"} => doc[d].content < MaxContent
    /\ sub[d].at = "read" => doc[d].content > 0

EpochsOK == epoch \in [Docs -> Nat] /\ cepoch \in Nat

ApiOK ==
  /\ maint \in BOOLEAN
  /\ del \in [Docs -> {"idle", "file", "vectors", "row"}]
  /\ tr \in {"idle", "files", "vectors", "rows"}

LeftOK ==
  left \in [{"crash", "loss", "recover", "lapse", "maint", "truncate", "fault"}
              -> Nat]

Typed ==
  /\ DocsOK /\ MsgsOK /\ SubsOK /\ BagsOK /\ ContentFits /\ EpochsOK /\ ApiOK
  /\ slots \in Nat
  /\ leases \subseteq Docs \X (1..MaxContent)
  /\ LeftOK

LEMMA TypedTypeOK == Typed => TypeOK
<1>1. DocsOK => doc \in [Docs -> [status: Statuses \cup {"none", "gone"},
                                  file: 0..MaxContent, vectors: 0..MaxContent,
                                  content: 0..MaxContent]]
  BY DEF DocsOK, Documents, Generations
<1>2. SubsOK => sub \in [Docs -> [at: Steps \cup {"idle"}, job: Jobs \cup {NoJob}]]
  BY DEF SubsOK, AllSubmissions
<1>3. MsgsOK => msg \in [Deliveries ->
         [at: Running \cup {"free", "queued"}, job: Jobs \cup {NoJob},
          why: {"none", "cancelled", "transient", "permanent", "rejected"},
          got: 0..MaxContent]]
  BY DEF MsgsOK, Messages, Generations
<1>4. Steps \cup {"idle"} = {"idle", "vectors", "put", "row", "read", "admit",
                             "send", "refused"}
  BY DEF Steps
<1>. QED
  BY <1>1, <1>2, <1>3, <1>4
     DEF Typed, TypeOK, BagsOK, JobBag, EpochsOK, ApiOK, LeftOK

-----------------------------------------------------------------------------
(* Bags of jobs, and records.                                              *)

LEMMA BagAdd ==
  ASSUME NEW b, IsABag(b), NEW j
  PROVE  /\ IsABag(b (+) SetToBag({j}))
         /\ BagToSet(b (+) SetToBag({j})) = BagToSet(b) \cup {j}
BY DEF IsABag, BagToSet, SetToBag, (+)

LEMMA BagSub ==
  ASSUME NEW b, IsABag(b), NEW c, IsABag(c)
  PROVE  /\ IsABag(b (-) c)
         /\ BagToSet(b (-) c) \subseteq BagToSet(b)
         /\ BagToSet(b) \ BagToSet(c) \subseteq BagToSet(b (-) c)
BY DEF IsABag, BagToSet, (-)

LEMMA BagOne ==
  ASSUME NEW j
  PROVE  IsABag(SetToBag({j})) /\ BagToSet(SetToBag({j})) = {j}
BY DEF IsABag, BagToSet, SetToBag

LEMMA BagNone == IsABag(EmptyBag) /\ BagToSet(EmptyBag) = {}
BY DEF IsABag, BagToSet, SetToBag, EmptyBag

LEMMA Bounds ==
  /\ MaxContent \in Nat /\ Generations \subseteq Nat
  /\ 0 \in Generations /\ 1 \in Generations /\ 1 \in 1..MaxContent
  /\ \A n \in Generations : n > 0 => n \in 1..MaxContent
  /\ \A n \in Generations : n < MaxContent => n + 1 \in Generations
  /\ MaxAttempts \in Nat /\ 0 \in 0..(MaxAttempts - 1)
BY IngestionAssumption DEF Generations

LEMMA DocsUpdate ==
  ASSUME NEW r \in Documents
  PROVE  /\ [r EXCEPT !.vectors = 0] \in Documents
         /\ [r EXCEPT !.file = 0] \in Documents
         /\ [r EXCEPT !.status = "gone"] \in Documents
         /\ [r EXCEPT !.status = "pending"] \in Documents
BY Bounds DEF Documents, Statuses

(* Sending takes a free delivery.                                          *)
LEMMA FreeOne ==
  ASSUME Free # {}
  PROVE  AnyFree \in Deliveries /\ msg[AnyFree].at = "free"
BY DEF AnyFree, Free

LEMMA MessageOK ==
  ASSUME NEW j \in Jobs
  PROVE  /\ Message("queued", j) \in Messages
         /\ Message("queued", j).at = "queued" /\ Message("queued", j).job = j
BY Bounds DEF Message, Messages, Running, Leased

LEMMA FreeMessageOK ==
  /\ Message("free", NoJob) \in Messages
  /\ Message("free", NoJob).at = "free" /\ Message("free", NoJob).job = NoJob
BY Bounds DEF Message, Messages
-----------------------------------------------------------------------------

LEMMA InitTyped == Init => Typed
<1>. SUFFICES ASSUME Init PROVE Typed
  OBVIOUS
<1>. USE DEF Init
<1>1. DocsOK
  BY Bounds DEF DocsOK, Documents
<1>2. MsgsOK
  BY FreeMessageOK DEF MsgsOK
<1>3. SubsOK /\ ContentFits
  BY DEF SubsOK, ContentFits, Submissions, AllSubmissions
<1>4. BagsOK
  BY BagNone DEF BagsOK, JobBag
<1>5. LeftOK
  BY IngestionAssumption DEF LeftOK
<1>. QED
  BY <1>1, <1>2, <1>3, <1>4, <1>5 DEF Typed, EpochsOK, ApiOK

-----------------------------------------------------------------------------
(* Every step keeps the types, one variable at a time.                     *)

(* The steps that leave the messages alone.                                *)
Elsewhere ==
  \/ \E d \in Docs :
       \/ Upload(d) \/ ResyncStart(d) \/ DeleteStart(d) \/ EnqueueSendFails(d)
       \/ DeleteAborts(d) \/ ResyncAborts(d) \/ ResyncVectors(d) \/ ResyncPut(d)
       \/ ResyncRow(d) \/ EnqueueRead(d) \/ EnqueueAdmit(d) \/ Refused(d)
       \/ DeleteStep(d)
  \/ TruncateStart \/ TruncateStep \/ MaintenanceOn \/ MaintenanceOff
  \/ \E m \in Deliveries : Renew(m)
  \/ \E id \in leases : LeaseExpires(id)
  \/ \E r \in Recoverers :
       RecoverList(r) \/ RecoverTake(r) \/ RecoverMark(r) \/ RecoverCrash(r)
  \/ UNCHANGED vars

LEMMA ElsewhereMsg == Elsewhere => UNCHANGED msg
BY DEF Elsewhere, Upload, ResyncStart, DeleteStart, EnqueueSendFails, DeleteAborts,
       ResyncAborts, ResyncVectors, ResyncPut, ResyncRow, EnqueueRead,
       EnqueueAdmit, Refused, DeleteStep, DeleteFile, DeleteVectors, DeleteRow,
       TruncateStart, TruncateStep, TruncateFiles, TruncateVectors, TruncateRows,
       MaintenanceOn, MaintenanceOff, Renew, LeaseExpires, RecoverList,
       RecoverTake, RecoverMark, RecoverCrash, vars

LEMMA StepKinds ==
  ASSUME [Next]_vars
  PROVE  \/ Elsewhere
         \/ \E d \in Docs : EnqueueSend(d)
         \/ \E m \in Deliveries : WorkerStep(m) \/ WorkerFault(m) \/ Crash(m)
         \/ \E r \in Recoverers : RecoverSend(r)
BY DEF Next, Elsewhere, ApiChoice, TruncateStep, SubmitStep, RecoverStep, Quiet

(* The record of a delivery is written: it keeps its job, or is free.      *)
Follows(m, r) ==
  \/ r.job = Job(m) \/ r.job = [Job(m) EXCEPT !.released = TRUE]
  \/ r.at = "free"

Moves(m) ==
  \E r \in Messages : msg' = [msg EXCEPT ![m] = r] /\ Follows(m, r)

(* A retry is sent: the next attempt of the job.                           *)
NextTry(j) == [j EXCEPT !.attempt = @ + 1, !.released = FALSE]

Resends(m) ==
  RetrySend(m) /\ NextTry(Job(m)) \in Jobs
  /\ [msg[m] EXCEPT !.at = "retrystatus"] \in Messages

LEMMA WorkerBusy ==
  ASSUME MsgsOK, NEW m \in Deliveries, WorkerStep(m) \/ WorkerFault(m) \/ Crash(m)
  PROVE  /\ msg \in [Deliveries -> Messages] /\ msg[m] \in Messages
         /\ Job(m) \in Jobs /\ msg[m].at # "free"
<1>1. msg[m] \in Messages /\ msg \in [Deliveries -> Messages]
  BY DEF MsgsOK
<1>2. msg[m].at # "free"
  BY DEF WorkerStep, WorkerFault, Crash, Running, Leased, Defer, DeferSend, Receive,
         SetLease, CheckBegin, Mark, Stage, Check, Insert, Recheck, Purge, Commit,
         OkFile, OkRelease, FinVectors, FinStatus, FinFile, FinRelease,
         RetryRelease, RetryAdmit, RetrySend, RetryStatus, Unlease,
         Fail, FailInsert, FailFinalize, RetrySendFails, Abort
<1>. QED
  BY <1>1, <1>2 DEF Messages, Job

LEMMA RetryMsg ==
  ASSUME MsgsOK, NEW m \in Deliveries, RetrySend(m)
  PROVE  Resends(m)
<1>1. msg[m] \in Messages /\ msg[m].at = "retrysend" /\ Job(m) \in Jobs
  BY WorkerBusy DEF WorkerStep, RetrySend
<1>. DEFINE n == Job(m).attempt + 1
<1>2. n \in 0..(MaxAttempts - 1)
  BY <1>1, Bounds DEF Messages, Jobs, Job
<1>3. [Job(m) EXCEPT !.attempt = n, !.released = FALSE] \in Jobs
  <2>. HIDE DEF n
  <2>. QED
    BY <1>1, <1>2 DEF Jobs
<1>4. [msg[m] EXCEPT !.at = "retrystatus"] \in Messages
  BY <1>1 DEF Messages, Job, Running, Leased
<1>. QED
  BY <1>3, <1>4 DEF Resends, NextTry

(* A worker's step writes the record of its delivery, and a retry one more.*)
LEMMA WorkerMsg ==
  ASSUME MsgsOK, DocsOK, NEW m \in Deliveries, WorkerStep(m) \/ WorkerFault(m) \/ Crash(m)
  PROVE  Moves(m) \/ Resends(m)
<1>0. ASSUME NEW r \in Messages, msg' = [msg EXCEPT ![m] = r], Follows(m, r)
      PROVE Moves(m)
  BY <1>0 DEF Moves
<1>1. msg[m] \in Messages /\ msg \in [Deliveries -> Messages]
  BY DEF MsgsOK
<1>2. Job(m) \in Jobs /\ msg[m].at # "free"
  BY WorkerBusy
<1>3. ASSUME NEW at, Goto(m, at), at \in Running \cup {"queued"},
             at = "finvectors" => FALSE,
             at \in {"retryrelease", "retryadmit", "retrysend"} =>
               Job(m).attempt + 1 < MaxAttempts
      PROVE Moves(m)
  <2>. DEFINE r == [msg[m] EXCEPT !.at = at]
  <2>1. msg' = [msg EXCEPT ![m] = r]
    BY <1>1, <1>3 DEF Goto
  <2>2. r \in Messages /\ r.job = Job(m)
    BY <1>1, <1>2, <1>3 DEF Messages, Job
  <2>. QED
    BY <1>0, <2>1, <2>2 DEF Follows
<1>4. ASSUME NEW why \in {"cancelled", "transient", "permanent"}, Raise(m, why)
      PROVE Moves(m)
  <2>. DEFINE y == IF why = "transient" /\ Job(m).attempt + 1 >= MaxAttempts
                   THEN "permanent" ELSE why
              r == [msg[m] EXCEPT !.at = "finvectors", !.why = y]
  <2>1. msg' = [msg EXCEPT ![m] = r]
    BY <1>1, <1>4 DEF Raise
  <2>2. y = "transient" => Job(m).attempt + 1 < MaxAttempts
    BY <1>2, Bounds DEF Jobs
  <2>3. y \in {"cancelled", "transient", "permanent"}
    OBVIOUS
  <2>. HIDE DEF y
  <2>4. r \in Messages /\ r.job = Job(m)
    BY <1>1, <1>2, <2>2, <2>3 DEF Messages, Job, Running, Leased
  <2>. QED
    BY <1>0, <2>1, <2>4 DEF Follows
<1>5. CASE Defer(m) \/ Receive(m) \/ SetLease(m)
  BY <1>3, <1>5 DEF Defer, Receive, SetLease, Running, Leased
<1>6. CASE CheckBegin(m) \/ Check(m) \/ Recheck(m) \/ Purge(m)
  BY <1>3, <1>4, <1>6 DEF CheckBegin, Check, Recheck, Purge, Running, Leased
<1>7. CASE Mark(m) \/ Insert(m) \/ Commit(m) \/ OkFile(m) \/ OkRelease(m)
  BY <1>3, <1>7 DEF Mark, Insert, Commit, OkFile, OkRelease, Running, Leased
<1>8. CASE FinStatus(m) \/ FinFile(m) \/ FinRelease(m) \/ RetryStatus(m)
           \/ RetrySendFails(m) \/ Abort(m)
  BY <1>3, <1>8 DEF FinStatus, FinFile, FinRelease, RetryStatus, RetrySendFails, Abort,
                    Running, Leased
<1>9. CASE \E why \in {"transient", "permanent"} : Fail(m, why) \/ FailInsert(m, why)
  BY <1>4, <1>9 DEF Fail, FailInsert
<1>10. CASE FailFinalize(m)
  BY <1>4, <1>10 DEF FailFinalize
<1>11. CASE FinVectors(m)
  BY <1>1, <1>3, <1>11 DEF FinVectors, Messages, Running, Leased, Job
<1>12. CASE RetryRelease(m)
  BY <1>1, <1>3, <1>12 DEF RetryRelease, Messages, Running, Leased, Job
<1>13. CASE RetryAdmit(m)
  <2>1. Job(m).attempt + 1 < MaxAttempts
    BY <1>1, <1>13 DEF RetryAdmit, Messages, Job
  <2>2. CASE Goto(m, "retrysend")
    BY <1>3, <2>1, <2>2 DEF Running, Leased
  <2>3. CASE msg' = [msg EXCEPT ![m].at = "finstatus", ![m].why = "rejected"]
    <3>. DEFINE r == [msg[m] EXCEPT !.at = "finstatus", !.why = "rejected"]
    <3>1. msg' = [msg EXCEPT ![m] = r]
      BY <1>1, <2>3
    <3>2. r \in Messages /\ r.job = Job(m)
      BY <1>1, <1>2 DEF Messages, Job, Running, Leased
    <3>. QED
      BY <1>0, <3>1, <3>2 DEF Follows
  <2>. QED
    BY <1>13, <2>2, <2>3 DEF RetryAdmit
<1>14. CASE Stage(m)
  <2>1. CASE Raise(m, "transient")
    BY <1>4, <2>1
  <2>2. CASE msg' = [msg EXCEPT ![m].at = "check", ![m].got = doc[Doc(m)].file]
    <3>. DEFINE n == doc[Doc(m)].file
                r == [msg[m] EXCEPT !.at = "check", !.got = n]
    <3>1. msg' = [msg EXCEPT ![m] = r]
      BY <1>1, <2>2
    <3>2. n \in Generations
      BY <1>2 DEF DocsOK, Documents, Doc, Jobs
    <3>. HIDE DEF n
    <3>3. r \in Messages /\ r.job = Job(m)
      BY <1>1, <1>2, <3>2 DEF Messages, Job, Running, Leased
    <3>. QED
      BY <1>0, <3>1, <3>3 DEF Follows
  <2>. QED
    BY <1>14, <2>1, <2>2 DEF Stage
<1>15. CASE DeferSend(m)
  <2>. DEFINE j == [Job(m) EXCEPT !.released = TRUE]
              r == [msg[m] EXCEPT !.at = "queued", !.job = j]
  <2>1. msg' = [msg EXCEPT ![m] = r]
    BY <1>1, <1>15 DEF DeferSend, Job
  <2>2. j \in Jobs
    BY <1>2 DEF Jobs
  <2>. HIDE DEF j
  <2>3. r \in Messages /\ r.job = j
    BY <1>1, <2>2 DEF Messages, Running, Leased
  <2>. QED
    BY <1>0, <2>1, <2>3 DEF j, Follows
<1>16. CASE Unlease(m)
  BY <1>0, <1>16, FreeMessageOK DEF Unlease, Follows
<1>17. CASE Crash(m)
  BY <1>0, <1>2, <1>17, MessageOK DEF Crash, Follows
<1>18. CASE RetrySend(m)
  BY <1>18, RetryMsg
<1>. QED
  BY <1>2, <1>5, <1>6, <1>7, <1>8, <1>9, <1>10, <1>11, <1>12, <1>13, <1>14, <1>15,
     <1>16, <1>17, <1>18 DEF WorkerStep, WorkerFault

(* What a step may write to the messages: nothing, one record, one record  *)
(* and a retry, or a job that is sent.                                     *)
Sends(j) ==
  j \in Jobs /\ Free # {} /\ msg' = [msg EXCEPT ![AnyFree] = Message("queued", j)]

LEMMA SendMsg ==
  /\ \A d \in Docs : SubsOK /\ EnqueueSend(d) => Sends(sub[d].job)
  /\ \A r \in Recoverers : BagsOK /\ RecoverSend(r) =>
       \E j \in BagToSet(rec[r].jobs) : Sends(j)
<1>1. ASSUME NEW d \in Docs, SubsOK, EnqueueSend(d) PROVE Sends(sub[d].job)
  BY <1>1 DEF EnqueueSend, Sends, SubsOK, Submissions
<1>2. ASSUME NEW r \in Recoverers, BagsOK, RecoverSend(r)
      PROVE \E j \in BagToSet(rec[r].jobs) : Sends(j)
  BY <1>2 DEF RecoverSend, Sends, BagsOK, JobBag
<1>. QED
  BY <1>1, <1>2

LEMMA MsgsStep == Typed /\ [Next]_vars => MsgsOK'
<1>. SUFFICES ASSUME Typed, [Next]_vars PROVE MsgsOK'
  OBVIOUS
<1>1. MsgsOK /\ DocsOK /\ SubsOK /\ BagsOK
  BY DEF Typed
<1>2. CASE Elsewhere
  BY <1>1, <1>2, ElsewhereMsg DEF MsgsOK
<1>3. ASSUME NEW j, Sends(j) PROVE MsgsOK'
  BY <1>1, <1>3, FreeOne, MessageOK DEF Sends, MsgsOK
<1>4. ASSUME NEW m \in Deliveries, Moves(m) PROVE MsgsOK'
  BY <1>1, <1>4 DEF Moves, MsgsOK
<1>5. ASSUME NEW m \in Deliveries, Resends(m) PROVE MsgsOK'
  <2>. DEFINE r == [msg[m] EXCEPT !.at = "retrystatus"]
              s == Message("queued", NextTry(Job(m)))
  <2>1. r \in Messages /\ s \in Messages /\ AnyFree \in Deliveries
    BY <1>5, FreeOne, MessageOK DEF Resends, RetrySend
  <2>2. msg' = [msg EXCEPT ![m] = r, ![AnyFree] = s]
    BY <1>1, <1>5 DEF Resends, RetrySend, NextTry, MsgsOK
  <2>. HIDE DEF r, s
  <2>. QED
    BY <1>1, <2>1, <2>2 DEF MsgsOK
<1>. QED
  BY <1>1, <1>2, <1>3, <1>4, <1>5, StepKinds, SendMsg, WorkerMsg

LEMMA SubsStep == Typed /\ [Next]_vars => SubsOK' /\ ContentFits'
<1>. SUFFICES ASSUME Typed, [Next]_vars PROVE SubsOK' /\ ContentFits'
  OBVIOUS
<1>1. /\ SubsOK /\ ContentFits /\ DocsOK /\ EpochsOK
      /\ sub \in [Docs -> AllSubmissions] /\ doc \in [Docs -> Documents]
  BY DEF Typed, SubsOK, DocsOK
<1>. DEFINE Same == UNCHANGED sub /\ \A d \in Docs : doc'[d].content = doc[d].content
<1>2. CASE Same
  BY <1>1, <1>2 DEF SubsOK, ContentFits
<1>3. ASSUME NEW m \in Deliveries, WorkerStep(m) \/ WorkerFault(m) \/ Crash(m)
      PROVE Same
  BY <1>1, <1>3 DEF Documents, WorkerStep, WorkerFault, Crash, Defer, DeferSend, Receive,
     SetLease, CheckBegin, Mark, Stage, Check, Insert, Recheck, Purge, Commit,
     OkFile, OkRelease, FinVectors, FinStatus, FinFile, FinRelease,
     RetryRelease, RetryAdmit, RetrySend, RetryStatus, Unlease,
     Fail, FailInsert, FailFinalize, RetrySendFails, Abort, api, DropVectors,
     ClearFile, SetStatus
<1>4. ASSUME NEW d \in Docs, DeleteStart(d) \/ DeleteFile(d) \/ DeleteVectors(d)
                             \/ DeleteRow(d) \/ DeleteAborts(d)
      PROVE Same
  BY <1>1, <1>4 DEF Documents, DeleteStart, DeleteFile, DeleteVectors, DeleteRow,
                    DeleteAborts
<1>5. CASE TruncateStart \/ TruncateStep \/ MaintenanceOn \/ MaintenanceOff \/ UNCHANGED vars
  <2>1. CASE TruncateStart \/ MaintenanceOn \/ MaintenanceOff
    <3>. Same
      BY <2>1 DEF TruncateStart, MaintenanceOn, MaintenanceOff
    <3>. QED
      BY <1>2
  <2>2. CASE UNCHANGED vars
    <3>. Same
      BY <2>2 DEF vars
    <3>. QED
      BY <1>2
  <2>3. CASE TruncateStep
    <3>1. ASSUME TruncateFiles PROVE Same
      BY <1>1, <3>1 DEF TruncateFiles, Documents
    <3>2. ASSUME TruncateVectors PROVE Same
      BY <1>1, <3>2 DEF TruncateVectors, Documents
    <3>3. ASSUME TruncateRows PROVE Same
      BY <1>1, <3>3 DEF TruncateRows, Documents
    <3>4. Same
      BY <2>3, <3>1, <3>2, <3>3 DEF TruncateStep
    <3>. QED
      BY <1>2, <3>4
  <2>. QED
    BY <1>5, <2>1, <2>2, <2>3
<1>6. ASSUME \/ \E m \in Deliveries : Renew(m)
             \/ \E id \in leases : LeaseExpires(id)
      PROVE Same
  BY <1>6 DEF Renew, LeaseExpires, api
<1>7. ASSUME NEW r \in Recoverers, RecoverList(r) \/ RecoverStep(r) \/ RecoverCrash(r)
      PROVE Same
  <2>1. CASE RecoverMark(r)
    BY <1>1, <2>1 DEF RecoverMark, Documents, api
  <2>2. CASE RecoverList(r) \/ RecoverTake(r) \/ RecoverSend(r) \/ RecoverCrash(r)
    BY <2>2 DEF RecoverList, RecoverTake, RecoverSend, RecoverCrash, api
  <2>. QED
    BY <1>7, <2>1, <2>2 DEF RecoverStep
<1>8. ASSUME NEW d \in Docs, NEW at \in {"idle", "vectors", "put", "row", "read", "refused"},
             Submit(d, at), \A e \in Docs \ {d} : doc'[e].content = doc[e].content,
             at \in {"vectors", "put", "row"} => doc'[d].content < MaxContent,
             at = "read" => doc'[d].content > 0
      PROVE SubsOK' /\ ContentFits'
  <2>. DEFINE r == [sub[d] EXCEPT !.at = at]
  <2>1. sub' = [sub EXCEPT ![d] = r]
    BY <1>1, <1>8 DEF Submit
  <2>2. r \in Submissions(d) /\ r \in AllSubmissions /\ r.at = at
    BY <1>1, <1>8 DEF Submissions, AllSubmissions, Steps
  <2>. HIDE DEF r
  <2>. QED
    BY <1>1, <1>8, <2>1, <2>2 DEF SubsOK, ContentFits
<1>9. ASSUME NEW d \in Docs, NEW j \in Jobs \cup {NoJob}, NEW at \in {"idle", "admit", "send"},
             sub' = [sub EXCEPT ![d] = [at |-> at, job |-> j]],
             at # "idle" => j \in Jobs /\ j.doc = d /\ ~j.released,
             \A e \in Docs : doc'[e].content = doc[e].content
      PROVE SubsOK' /\ ContentFits'
  <2>. DEFINE r == [at |-> at, job |-> j]
  <2>1. r \in Submissions(d) /\ r \in AllSubmissions /\ r.at = at
    BY <1>9 DEF Submissions, AllSubmissions, Steps
  <2>2. sub' = [sub EXCEPT ![d] = r]
    BY <1>9
  <2>. HIDE DEF r
  <2>. QED
    BY <1>1, <1>9, <2>1, <2>2 DEF SubsOK, ContentFits
<1>10. ASSUME NEW d \in Docs, ResyncStart(d) \/ ResyncVectors(d) \/ ResyncPut(d)
                              \/ ResyncAborts(d) \/ EnqueueSendFails(d)
       PROVE SubsOK' /\ ContentFits'
  BY <1>1, <1>8, <1>10 DEF ResyncStart, ResyncVectors, ResyncPut, ResyncAborts,
                           EnqueueSendFails, Documents, ContentFits
<1>11. ASSUME NEW d \in Docs, Upload(d) PROVE SubsOK' /\ ContentFits'
  BY <1>1, <1>8, <1>11 DEF Upload
<1>12. ASSUME NEW d \in Docs, ResyncRow(d) PROVE SubsOK' /\ ContentFits'
  <2>1. CASE Exists(d)
    <3>1. doc[d].content + 1 > 0
      <4>1. doc[d].content \in Generations
        BY <1>1 DEF Documents
      <4>2. doc[d].content \in Nat
        BY <4>1 DEF Generations
      <4>. QED
        BY <4>2
    <3>. QED
      BY <1>1, <1>8, <1>12, <2>1, <3>1 DEF ResyncRow, Documents
  <2>2. CASE ~Exists(d)
    BY <1>1, <1>8, <1>12, <2>2 DEF ResyncRow
  <2>. QED
    BY <2>1, <2>2
<1>13. ASSUME NEW d \in Docs, EnqueueRead(d) PROVE SubsOK' /\ ContentFits'
  <2>. DEFINE j == [doc |-> d, content |-> doc[d].content, epoch |-> epoch[d],
                    cepoch |-> cepoch, attempt |-> 0, released |-> FALSE]
  <2>1. CASE sub' = [sub EXCEPT ![d] = [at |-> "admit", job |-> j]]
    <3>1. j \in Jobs /\ j.doc = d /\ ~j.released
      <4>1. doc[d].content \in 1..MaxContent
        BY <1>1, <1>13, Bounds DEF Documents, ContentFits, EnqueueRead
      <4>. QED
        BY <1>1, <4>1, Bounds DEF Jobs, EpochsOK
    <3>. HIDE DEF j
    <3>. QED
      BY <1>9, <1>13, <2>1, <3>1 DEF EnqueueRead
  <2>2. CASE Submit(d, "refused")
    BY <1>8, <1>13, <2>2 DEF EnqueueRead
  <2>. QED
    BY <1>13, <2>1, <2>2 DEF EnqueueRead
<1>14. ASSUME NEW d \in Docs, EnqueueAdmit(d) PROVE SubsOK' /\ ContentFits'
  <2>1. CASE Submit(d, "send")
    <3>. DEFINE j == sub[d].job
    <3>1. j \in Jobs /\ j.doc = d /\ ~j.released
      BY <1>1, <1>14 DEF EnqueueAdmit, SubsOK, Submissions
    <3>2. [sub[d] EXCEPT !.at = "send"] = [at |-> "send", job |-> j]
      BY <1>1 DEF AllSubmissions
    <3>3. sub' = [sub EXCEPT ![d] = [at |-> "send", job |-> j]]
      BY <1>1, <2>1, <3>2 DEF Submit
    <3>. QED
      BY <1>9, <1>14, <3>1, <3>3 DEF EnqueueAdmit
  <2>2. CASE Submit(d, "refused")
    BY <1>8, <1>14, <2>2 DEF EnqueueAdmit
  <2>. QED
    BY <1>14, <2>1, <2>2 DEF EnqueueAdmit
<1>15. ASSUME NEW d \in Docs, EnqueueSend(d) \/ Refused(d)
       PROVE SubsOK' /\ ContentFits'
  <2>1. \A e \in Docs : doc'[e].content = doc[e].content
    BY <1>1, <1>15 DEF EnqueueSend, Refused, Documents
  <2>2. sub' = [sub EXCEPT ![d] = [at |-> "idle", job |-> NoJob]]
    BY <1>15 DEF EnqueueSend, Refused
  <2>. QED
    BY <1>9, <2>1, <2>2
<1>. QED
  BY <1>2, <1>3, <1>4, <1>5, <1>6, <1>7, <1>10, <1>11, <1>12, <1>13, <1>14, <1>15
     DEF Next, ApiChoice, SubmitStep, DeleteStep, Quiet

(* What a step of a worker does to its document.                           *)
LEMMA WorkerDoc ==
  ASSUME MsgsOK, DocsOK, NEW m \in Deliveries, WorkerStep(m) \/ WorkerFault(m) \/ Crash(m)
  PROVE  /\ Doc(m) \in Docs
         /\ \/ UNCHANGED doc
            \/ \E n \in Generations : doc' = [doc EXCEPT ![Doc(m)].vectors = n]
            \/ doc' = [doc EXCEPT ![Doc(m)].file = 0]
            \/ \E s \in Statuses : doc' = [doc EXCEPT ![Doc(m)].status = s]
<1>1. msg[m] \in Messages /\ Job(m) \in Jobs
  BY WorkerBusy
<1>2. Doc(m) \in Docs /\ msg[m].got \in Generations
  BY <1>1 DEF Jobs, Doc, Messages
<1>. HIDE DEF Doc, Job
<1>3. CASE \/ Defer(m) \/ DeferSend(m) \/ Receive(m) \/ SetLease(m) \/ CheckBegin(m)
           \/ Stage(m) \/ Check(m) \/ Recheck(m) \/ OkRelease(m) \/ FinRelease(m)
           \/ RetryRelease(m) \/ RetryAdmit(m) \/ RetrySend(m) \/ Unlease(m)
           \/ FailFinalize(m) \/ RetrySendFails(m) \/ Abort(m) \/ Crash(m)
           \/ \E why \in {"transient", "permanent"} : Fail(m, why)
  BY <1>2, <1>3 DEF Defer, DeferSend, Receive, SetLease, CheckBegin, Stage, Check, Recheck,
       OkRelease, FinRelease, RetryRelease, RetryAdmit, RetrySend, Unlease,
       FailFinalize, RetrySendFails, Abort, Crash, Fail
<1>4. CASE Insert(m) \/ \E why \in {"transient", "permanent"} : FailInsert(m, why)
  BY <1>2, <1>4, Bounds DEF Insert, FailInsert
<1>5. CASE Purge(m) \/ FinVectors(m)
  BY <1>2, <1>5, Bounds DEF Purge, FinVectors, DropVectors
<1>6. CASE OkFile(m) \/ FinFile(m)
  BY <1>2, <1>6 DEF OkFile, FinFile, ClearFile
<1>7. CASE Mark(m) \/ Commit(m) \/ FinStatus(m) \/ RetryStatus(m)
  BY <1>2, <1>7 DEF Mark, Commit, FinStatus, RetryStatus, SetStatus, Statuses
<1>. QED
  BY <1>3, <1>4, <1>5, <1>6, <1>7 DEF WorkerStep, WorkerFault

LEMMA DocsStep == Typed /\ [Next]_vars => DocsOK'
<1>. SUFFICES ASSUME Typed, [Next]_vars PROVE doc' \in [Docs -> Documents]
  BY DEF DocsOK
<1>1. /\ DocsOK /\ MsgsOK /\ ContentFits /\ doc \in [Docs -> Documents]
  BY DEF Typed, DocsOK
<1>2. CASE UNCHANGED doc
  BY <1>1, <1>2
<1>3. ASSUME NEW m \in Deliveries, WorkerStep(m) \/ WorkerFault(m) \/ Crash(m)
      PROVE doc' \in [Docs -> Documents]
  <2>1. Doc(m) \in Docs /\ 0 \in Generations
    BY <1>1, <1>3, WorkerDoc, Bounds
  <2>. HIDE DEF Doc
  <2>2. CASE UNCHANGED doc
    BY <1>2, <2>2
  <2>3. CASE \E n \in Generations : doc' = [doc EXCEPT ![Doc(m)].vectors = n]
    BY <1>1, <2>1, <2>3 DEF Documents
  <2>4. CASE doc' = [doc EXCEPT ![Doc(m)].file = 0]
    BY <1>1, <2>1, <2>4 DEF Documents
  <2>5. CASE \E s \in Statuses : doc' = [doc EXCEPT ![Doc(m)].status = s]
    BY <1>1, <2>1, <2>5 DEF Documents
  <2>. QED
    BY <1>1, <1>3, <2>2, <2>3, <2>4, <2>5, WorkerDoc
<1>4. ASSUME NEW d \in Docs, ResyncVectors(d) \/ DeleteVectors(d) \/ DeleteFile(d)
      PROVE doc' \in [Docs -> Documents]
  <2>1. \/ doc' = [doc EXCEPT ![d].vectors = 0]
        \/ doc' = [doc EXCEPT ![d].file = 0]
    BY <1>4 DEF ResyncVectors, DeleteVectors, DeleteFile
  <2>. QED
    BY <1>1, <2>1, Bounds DEF Documents
<1>5. ASSUME NEW d \in Docs, DeleteRow(d) PROVE doc' \in [Docs -> Documents]
  BY <1>1, <1>5 DEF DeleteRow, Documents
<1>6. ASSUME NEW d \in Docs, ResyncPut(d) PROVE doc' \in [Docs -> Documents]
  <2>1. doc[d].content + 1 \in Generations
    BY <1>1, <1>6, Bounds DEF ResyncPut, ContentFits, Documents
  <2>. QED
    BY <1>1, <1>6, <2>1 DEF ResyncPut, Documents
<1>7. ASSUME NEW d \in Docs, ResyncRow(d) PROVE doc' \in [Docs -> Documents]
  <2>1. doc[d].content + 1 \in Generations
    BY <1>1, <1>7, Bounds DEF ResyncRow, ContentFits, Documents
  <2>. DEFINE n == doc[d].content + 1
              r == [doc[d] EXCEPT !.status = "pending", !.content = n]
  <2>2. doc' = [doc EXCEPT ![d] = r] \/ doc' = doc
    BY <1>1, <1>7 DEF ResyncRow
  <2>3. r \in Documents
    <3>. HIDE DEF n
    <3>. QED
      BY <1>1, <2>1 DEF Documents, Statuses, n
  <2>. HIDE DEF r
  <2>. QED
    BY <1>1, <2>2, <2>3
<1>8. ASSUME NEW d \in Docs, Upload(d) PROVE doc' \in [Docs -> Documents]
  BY <1>1, <1>8, Bounds DEF Upload, Documents, Statuses
<1>9. ASSUME NEW d \in Docs, Refused(d) PROVE doc' \in [Docs -> Documents]
  <2>. DEFINE r == [doc[d] EXCEPT !.status = "failed", !.file = 0]
  <2>1. doc' = [doc EXCEPT ![d] = r] \/ doc' = doc
    BY <1>1, <1>9 DEF Refused
  <2>2. r \in Documents
    BY <1>1, Bounds DEF Documents, Statuses
  <2>. HIDE DEF r
  <2>. QED
    BY <1>1, <2>1, <2>2
<1>10. CASE TruncateStep
  BY <1>1, <1>10, DocsUpdate DEF TruncateStep, TruncateFiles, TruncateVectors, TruncateRows
<1>11. ASSUME NEW r \in Recoverers, RecoverMark(r) PROVE doc' \in [Docs -> Documents]
  BY <1>1, <1>11, DocsUpdate DEF RecoverMark
<1>12. ASSUME NEW d \in Docs, \/ ResyncStart(d) \/ ResyncAborts(d) \/ EnqueueRead(d)
                              \/ EnqueueAdmit(d) \/ EnqueueSend(d) \/ EnqueueSendFails(d)
                              \/ DeleteStart(d) \/ DeleteAborts(d)
       PROVE UNCHANGED doc
  BY <1>12 DEF ResyncStart, ResyncAborts, EnqueueRead, EnqueueAdmit, EnqueueSend,
               EnqueueSendFails, DeleteStart, DeleteAborts
<1>13. ASSUME \/ TruncateStart \/ MaintenanceOn \/ MaintenanceOff
              \/ \E m \in Deliveries : Renew(m)
              \/ \E id \in leases : LeaseExpires(id)
              \/ \E r \in Recoverers : \/ RecoverList(r) \/ RecoverTake(r)
                                       \/ RecoverSend(r) \/ RecoverCrash(r)
       PROVE UNCHANGED doc
  BY <1>13 DEF TruncateStart, MaintenanceOn, MaintenanceOff, Renew, LeaseExpires,
               RecoverList, RecoverTake, RecoverSend, RecoverCrash
<1>14. ASSUME UNCHANGED vars PROVE UNCHANGED doc
  BY <1>14 DEF vars
<1>. QED
  BY <1>2, <1>3, <1>4, <1>5, <1>6, <1>7, <1>8, <1>9, <1>10, <1>11, <1>12, <1>13, <1>14
     DEF Next, ApiChoice, SubmitStep, DeleteStep, RecoverStep, Quiet

(* What a step does to the jobs on the processing list and with the        *)
(* recoverers: none appears that a worker did not receive.                 *)
LEMMA BagsStep ==
  ASSUME Typed, [Next]_vars
  PROVE  /\ BagsOK'
         /\ BagToSet(processing') \subseteq
              BagToSet(processing) \cup
              {Raw(Job(m)) : m \in {n \in Deliveries : msg[n].at # "free"}}
         /\ \A r \in Recoverers :
              BagToSet(rec'[r].jobs) \subseteq
                BagToSet(rec[r].jobs) \cup BagToSet(processing)
<1>. DEFINE Old(r) == BagToSet(rec[r].jobs) \cup BagToSet(processing)
            Raws == {Raw(Job(m)) : m \in {n \in Deliveries : msg[n].at # "free"}}
            Goal == /\ BagsOK'
                    /\ BagToSet(processing') \subseteq BagToSet(processing) \cup Raws
                    /\ \A r \in Recoverers : BagToSet(rec'[r].jobs) \subseteq Old(r)
<1>1. MsgsOK /\ BagsOK
  BY DEF Typed
<1>2. CASE UNCHANGED <<processing, rec>>
  BY <1>1, <1>2 DEF BagsOK, JobBag
<1>3. ASSUME NEW m \in Deliveries, WorkerStep(m) \/ WorkerFault(m) \/ Crash(m)
      PROVE Goal
  <2>1. Raw(Job(m)) \in Jobs /\ Raw(Job(m)) \in Raws
    BY <1>1, <1>3, WorkerBusy DEF Jobs, Raw
  <2>2. CASE Receive(m)
    <3>. DEFINE j == Raw(Job(m))
    <3>1. processing' = processing (+) SetToBag({j}) /\ rec' = rec
      BY <2>2 DEF Receive
    <3>2. IsABag(processing) /\ BagToSet(processing) \subseteq Jobs
      BY <1>1 DEF BagsOK, JobBag
    <3>3. j \in Jobs /\ j \in Raws
      BY <2>1
    <3>. HIDE DEF j, Raws
    <3>4. /\ IsABag(processing (+) SetToBag({j}))
          /\ BagToSet(processing (+) SetToBag({j})) = BagToSet(processing) \cup {j}
      BY <3>2, BagAdd
    <3>5. JobBag(processing') /\ BagToSet(processing') \subseteq BagToSet(processing) \cup Raws
      BY <3>1, <3>2, <3>3, <3>4 DEF JobBag
    <3>. QED
      BY <1>1, <3>1, <3>5 DEF BagsOK
  <2>3. CASE Unlease(m)
    BY <1>1, <2>1, <2>3, BagSub, BagOne DEF Unlease, BagsOK, JobBag
  <2>4. CASE ~(Receive(m) \/ Unlease(m))
    <3>1. UNCHANGED <<processing, rec>>
      BY <1>3, <2>4 DEF WorkerStep, WorkerFault, Crash, Defer, DeferSend, SetLease,
         CheckBegin, Mark, Stage, Check, Insert, Recheck, Purge, Commit,
         OkFile, OkRelease, FinVectors, FinStatus, FinFile, FinRelease,
         RetryRelease, RetryAdmit, RetrySend, RetryStatus, leasing,
         Fail, FailInsert, FailFinalize, RetrySendFails, Abort
    <3>. QED
      BY <1>2, <3>1
  <2>. QED
    BY <2>2, <2>3, <2>4
<1>4. ASSUME NEW r \in Recoverers, NEW at \in {"listed", "taken", "marked", "idle"}, NEW b,
             Recovering(r, at, b), JobBag(b), BagToSet(b) \subseteq Old(r),
             JobBag(processing'), BagToSet(processing') \subseteq BagToSet(processing)
      PROVE Goal
  BY <1>1, <1>4 DEF Recovering, BagsOK
<1>5. ASSUME NEW r \in Recoverers, RecoverList(r) \/ RecoverCrash(r) PROVE Goal
  BY <1>1, <1>4, <1>5, BagNone DEF RecoverList, RecoverCrash, leasing, BagsOK, JobBag
<1>6. ASSUME NEW r \in Recoverers, RecoverTake(r) PROVE Goal
  <2>. DEFINE lost == Select(rec[r].jobs, LAMBDA j : JobId(j) \notin leases)
  <2>1. JobBag(lost) /\ BagToSet(lost) \subseteq BagToSet(rec[r].jobs)
    BY <1>1 DEF Select, BagsOK, JobBag, IsABag, BagToSet
  <2>2. Recovering(r, "taken", lost) /\ processing' = processing (-) lost
    BY <1>6 DEF RecoverTake
  <2>. HIDE DEF lost
  <2>3. JobBag(processing') /\ BagToSet(processing') \subseteq BagToSet(processing)
    BY <1>1, <2>1, <2>2, BagSub DEF BagsOK, JobBag
  <2>. QED
    BY <1>4, <2>1, <2>2, <2>3
<1>7. ASSUME NEW r \in Recoverers, RecoverMark(r) PROVE Goal
  <2>. DEFINE Open(d) == doc[d].status \in {"pending", "processing"}
              back == Select(rec[r].jobs, LAMBDA j : Open(j.doc))
  <2>1. JobBag(back) /\ BagToSet(back) \subseteq BagToSet(rec[r].jobs)
    BY <1>1 DEF Select, BagsOK, JobBag, IsABag, BagToSet
  <2>2. Recovering(r, "marked", back) /\ processing' = processing
    BY <1>7 DEF RecoverMark, leasing
  <2>. HIDE DEF back
  <2>. QED
    BY <1>1, <1>4, <2>1, <2>2 DEF BagsOK
<1>8. ASSUME NEW r \in Recoverers, RecoverSend(r) PROVE Goal
  <2>1. PICK j \in BagToSet(rec[r].jobs) :
          Recovering(r, "marked", rec[r].jobs (-) SetToBag({j}))
    BY <1>8 DEF RecoverSend
  <2>2. processing' = processing
    BY <1>8 DEF RecoverSend, leasing
  <2>. DEFINE b == rec[r].jobs (-) SetToBag({j})
  <2>3. JobBag(b) /\ BagToSet(b) \subseteq BagToSet(rec[r].jobs)
    BY <1>1, BagSub, BagOne DEF BagsOK, JobBag
  <2>. HIDE DEF b
  <2>. QED
    BY <1>1, <1>4, <2>1, <2>2, <2>3 DEF BagsOK, b
<1>9. ASSUME Elsewhere \/ \E d \in Docs : EnqueueSend(d),
             ~\E r \in Recoverers : RecoverList(r) \/ RecoverStep(r) \/ RecoverCrash(r)
      PROVE UNCHANGED <<processing, rec>>
  BY <1>9 DEF Elsewhere, Upload, ResyncStart, DeleteStart, EnqueueSendFails, DeleteAborts,
       ResyncAborts, ResyncVectors, ResyncPut, ResyncRow, EnqueueRead,
       EnqueueAdmit, EnqueueSend, Refused, DeleteStep, DeleteFile, DeleteVectors,
       DeleteRow, TruncateStart, TruncateStep, TruncateFiles, TruncateVectors,
       TruncateRows, MaintenanceOn, MaintenanceOff, Renew, LeaseExpires, RecoverStep,
       leasing, vars
<1>. QED
  BY <1>2, <1>3, <1>5, <1>6, <1>7, <1>8, <1>9, StepKinds DEF RecoverStep

(* The other variables; the bounds are only used up.                       *)
LEMMA LeftStep ==
  ASSUME Typed, [Next]_vars
  PROVE  /\ LeftOK'
         /\ \A what \in DOMAIN left : left'[what] <= left[what]
<1>1. \/ UNCHANGED left
      \/ \E what \in {"crash", "loss", "recover", "lapse", "maint", "truncate", "fault"} :
           Spend(what)
  <2>1. ASSUME NEW m \in Deliveries, WorkerStep(m) \/ WorkerFault(m) \/ Crash(m)
        PROVE  UNCHANGED left \/ Spend("crash") \/ Spend("fault") \/ Spend("loss")
    BY <2>1 DEF WorkerStep, WorkerFault, Crash, Defer, DeferSend, Receive, SetLease,
         CheckBegin, Mark, Stage, Check, Insert, Recheck, Purge, Commit,
         OkFile, OkRelease, FinVectors, FinStatus, FinFile, FinRelease,
         RetryRelease, RetryAdmit, RetrySend, RetryStatus, Unlease, DropVectors,
         ClearFile, Fail, FailInsert, FailFinalize, RetrySendFails, Abort, Fault, Lose
  <2>2. ASSUME Elsewhere
        PROVE  UNCHANGED left \/ Spend("fault") \/ Spend("loss") \/ Spend("lapse")
               \/ Spend("maint") \/ Spend("truncate") \/ Spend("recover")
    BY <2>2 DEF Elsewhere, Upload, ResyncStart, DeleteStart, EnqueueSendFails, DeleteAborts,
         ResyncAborts, ResyncVectors, ResyncPut, ResyncRow, EnqueueRead,
         EnqueueAdmit, Refused, DeleteStep, DeleteFile, DeleteVectors, DeleteRow,
         TruncateStart, TruncateStep, TruncateFiles, TruncateVectors, TruncateRows,
         MaintenanceOn, MaintenanceOff, Renew, LeaseExpires, RecoverList,
         RecoverTake, RecoverMark, RecoverCrash, Fault, Lose, vars
  <2>3. ASSUME \/ \E d \in Docs : EnqueueSend(d)
               \/ \E r \in Recoverers : RecoverSend(r)
        PROVE  UNCHANGED left
    BY <2>3 DEF EnqueueSend, RecoverSend
  <2>. QED
    BY <2>1, <2>2, <2>3, StepKinds
<1>. QED
  BY <1>1 DEF Typed, LeftOK, Spend

LEMMA OthersStep ==
  ASSUME Typed, [Next]_vars
  PROVE  EpochsOK' /\ ApiOK' /\ slots' \in Nat
         /\ leases' \subseteq Docs \X (1..MaxContent)
<1>. DEFINE Goal == EpochsOK' /\ ApiOK' /\ slots' \in Nat
                    /\ leases' \subseteq Docs \X (1..MaxContent)
<1>1. EpochsOK /\ ApiOK /\ slots \in Nat /\ leases \subseteq Docs \X (1..MaxContent)
      /\ MsgsOK
  BY DEF Typed
<1>2. ASSUME NEW m \in Deliveries, WorkerStep(m) \/ WorkerFault(m) \/ Crash(m)
      PROVE Goal
  <2>1. JobId(Job(m)) \in Docs \X (1..MaxContent)
    BY <1>1, <1>2, WorkerBusy DEF JobId, Jobs
  <2>2. UNCHANGED <<epoch, cepoch, maint, del, tr>>
    BY <1>2 DEF WorkerStep, WorkerFault, Crash, Defer, DeferSend, Receive, SetLease,
         CheckBegin, Mark, Stage, Check, Insert, Recheck, Purge, Commit,
         OkFile, OkRelease, FinVectors, FinStatus, FinFile, FinRelease,
         RetryRelease, RetryAdmit, RetrySend, RetryStatus, Unlease,
         Fail, FailInsert, FailFinalize, RetrySendFails, Abort, epochs, api
  <2>3. slots' = slots \/ AdmitSlot \/ ReleaseSlot
    BY <1>2 DEF WorkerStep, WorkerFault, Crash, Defer, DeferSend, Receive, SetLease,
         CheckBegin, Mark, Stage, Check, Insert, Recheck, Purge, Commit,
         OkFile, OkRelease, FinVectors, FinStatus, FinFile, FinRelease,
         RetryRelease, RetryAdmit, RetrySend, RetryStatus, Unlease,
         Fail, FailInsert, FailFinalize, RetrySendFails, Abort
  <2>4. \/ leases' = leases
        \/ leases' = leases \cup {JobId(Job(m))}
        \/ leases' = leases \ {JobId(Job(m))}
    BY <1>2 DEF WorkerStep, WorkerFault, Crash, Defer, DeferSend, Receive, SetLease,
         CheckBegin, Mark, Stage, Check, Insert, Recheck, Purge, Commit,
         OkFile, OkRelease, FinVectors, FinStatus, FinFile, FinRelease,
         RetryRelease, RetryAdmit, RetrySend, RetryStatus, Unlease,
         Fail, FailInsert, FailFinalize, RetrySendFails, Abort, leasing
  <2>5. slots' \in Nat
    BY <1>1, <2>3 DEF AdmitSlot, ReleaseSlot
  <2>. QED
    BY <1>1, <2>1, <2>2, <2>4, <2>5 DEF EpochsOK, ApiOK
<1>3. ASSUME NEW m \in Deliveries, Renew(m) PROVE Goal
  <2>1. JobId(Job(m)) \in Docs \X (1..MaxContent)
    <3>1. Job(m) \in Jobs
      BY <1>1, <1>3 DEF Renew, MsgsOK, Messages, Leased, Job
    <3>. QED
      BY <3>1 DEF JobId, Jobs
  <2>. QED
    BY <1>1, <1>3, <2>1 DEF Renew, epochs, api, EpochsOK, ApiOK
<1>4. ASSUME NEW id \in leases, LeaseExpires(id) PROVE Goal
  BY <1>1, <1>4 DEF LeaseExpires, epochs, api, EpochsOK, ApiOK
<1>5. ASSUME NEW r \in Recoverers, RecoverList(r) \/ RecoverStep(r) \/ RecoverCrash(r)
      PROVE Goal
  BY <1>1, <1>5 DEF RecoverList, RecoverStep, RecoverTake, RecoverMark, RecoverSend,
                    RecoverCrash, epochs, api, leasing, EpochsOK, ApiOK
<1>6. ASSUME NEW d \in Docs, \/ Upload(d) \/ ResyncVectors(d) \/ ResyncPut(d) \/ ResyncRow(d)
                             \/ ResyncAborts(d) \/ EnqueueRead(d) \/ EnqueueAdmit(d)
                             \/ EnqueueSend(d) \/ EnqueueSendFails(d) \/ Refused(d)
      PROVE Goal
  <2>1. UNCHANGED <<epoch, cepoch, maint, del, tr, leases>>
    BY <1>6 DEF Upload, ResyncVectors, ResyncPut, ResyncRow, ResyncAborts, EnqueueRead,
         EnqueueAdmit, EnqueueSend, EnqueueSendFails, Refused, epochs, leasing
  <2>2. slots' = slots \/ AdmitSlot \/ ReleaseSlot
    BY <1>6 DEF Upload, ResyncVectors, ResyncPut, ResyncRow, ResyncAborts, EnqueueRead,
         EnqueueAdmit, EnqueueSend, EnqueueSendFails, Refused
  <2>3. slots' \in Nat
    BY <1>1, <2>2 DEF AdmitSlot, ReleaseSlot
  <2>. QED
    BY <1>1, <2>1, <2>3 DEF EpochsOK, ApiOK
<1>7. ASSUME NEW d \in Docs, ResyncStart(d) \/ DeleteStart(d) PROVE Goal
  BY <1>1, <1>7 DEF ResyncStart, DeleteStart, leasing, EpochsOK, ApiOK
<1>8. ASSUME NEW d \in Docs, DeleteFile(d) \/ DeleteVectors(d) \/ DeleteRow(d) \/ DeleteAborts(d)
      PROVE Goal
  BY <1>1, <1>8 DEF DeleteFile, DeleteVectors, DeleteRow, DeleteAborts, epochs, leasing,
                    EpochsOK, ApiOK
<1>9. CASE TruncateStart \/ TruncateStep
  BY <1>1, <1>9 DEF TruncateStart, TruncateStep, TruncateFiles, TruncateVectors,
                    TruncateRows, epochs, leasing, EpochsOK, ApiOK
<1>10. CASE MaintenanceOn \/ MaintenanceOff
  BY <1>1, <1>10 DEF MaintenanceOn, MaintenanceOff, epochs, leasing, EpochsOK, ApiOK
<1>11. CASE UNCHANGED vars
  BY <1>1, <1>11 DEF vars, EpochsOK, ApiOK
<1>. QED
  BY <1>2, <1>3, <1>4, <1>5, <1>6, <1>7, <1>8, <1>9, <1>10, <1>11
     DEF Next, ApiChoice, SubmitStep, DeleteStep, Quiet

LEMMA TypedStep == Typed /\ [Next]_vars => Typed'
BY DocsStep, MsgsStep, SubsStep, BagsStep, LeftStep, OthersStep DEF Typed

LEMMA TypedAlways == Spec => []Typed
BY InitTyped, TypedStep, PTL DEF Spec

(* The pipeline is type correct.                                           *)
THEOREM TypeCorrect == Spec => []TypeOK
BY TypedAlways, TypedTypeOK, PTL

(* Where the delivery stands after a step.                                 *)
LEMMA AtAfter ==
  ASSUME Typed, NEW m \in Deliveries
  PROVE  /\ \A at : Goto(m, at) => msg'[m].at = at
         /\ \A why : Raise(m, why) => msg'[m].at = "finvectors"
         /\ DeferSend(m) \/ Crash(m) => msg'[m].at = "queued"
         /\ Unlease(m) => msg'[m].at = "free"
         /\ Stage(m) => msg'[m].at \in {"finvectors", "check"}
         /\ RetryAdmit(m) => msg'[m].at \in {"finstatus", "retrysend"}
<1>1. msg \in [Deliveries -> Messages] /\ MsgsOK
  BY DEF Typed, MsgsOK
<1>2. \A at : Goto(m, at) => msg'[m].at = at
  BY <1>1 DEF Goto, Messages
<1>3. \A why : Raise(m, why) => msg'[m].at = "finvectors"
  BY <1>1 DEF Raise, Messages
<1>4. DeferSend(m) \/ Crash(m) => msg'[m].at = "queued"
  BY <1>1, MessageOK, WorkerBusy DEF DeferSend, Crash, Messages
<1>5. Unlease(m) => msg'[m].at = "free"
  BY <1>1, FreeMessageOK DEF Unlease
<1>6. Stage(m) => msg'[m].at \in {"finvectors", "check"}
  BY <1>1, <1>3 DEF Stage, Messages
<1>7. RetryAdmit(m) => msg'[m].at \in {"finstatus", "retrysend"}
  BY <1>1, <1>2 DEF RetryAdmit, Messages
<1>. QED
  BY <1>2, <1>3, <1>4, <1>5, <1>6, <1>7

-----------------------------------------------------------------------------
(* No document is forgotten.                                               *)

(* Where a delivery still has to settle its document: from here a document *)
(* that is pending is marked, failed, or retried and pending again.  A job *)
(* between its marking and its commit settles only a document that still   *)
(* is processing.                                                          *)
Settling ==
  {"queued", "deferring", "lease", "begin", "mark", "purge", "finvectors",
   "finstatus", "retryrelease", "retryadmit", "retrysend"}

Ingesting == Settling \cup {"stage", "check", "insert", "recheck", "commit"}

Submitting == {"read", "admit", "send", "refused"}

Carried(d, ats) ==
  \/ sub[d].at \in Submitting
  \/ \E m \in Deliveries : msg[m].at \in ats /\ Doc(m) = d
  \/ \E r \in Recoverers :
       rec[r].at = "marked" /\ \E j \in BagToSet(rec[r].jobs) : j.doc = d

CarriedOn(d) ==
  /\ doc[d].status = "pending" => Carried(d, Settling)
  /\ doc[d].status = "processing" => Carried(d, Ingesting)

Carriers == NothingLost => \A d \in Docs : CarriedOn(d)

(* The retry of a job is still waiting when its sender writes pending.     *)
RetrySent ==
  \A m \in Deliveries : msg[m].at = "retrystatus" =>
    \E n \in Deliveries :
      msg[n].at \in {"queued", "deferring"} /\ JobId(Job(n)) = JobId(Job(m))

LossBound == left.loss <= MaxLosses

NotForgottenInv == Typed /\ LossBound /\ RetrySent /\ Carriers

LEMMA LossStep ==
  ASSUME Typed, LossBound, [Next]_vars
  PROVE  LossBound' /\ (NothingLost' => NothingLost /\ ~Lose)
<1>1. left \in [{"crash", "loss", "recover", "lapse", "maint", "truncate", "fault"} -> Nat]
      /\ left' \in [{"crash", "loss", "recover", "lapse", "maint", "truncate", "fault"} -> Nat]
  BY LeftStep DEF Typed, LeftOK
<1>2. left'["loss"] <= left["loss"]
  BY <1>1, LeftStep
<1>3. MaxLosses \in Nat
  BY IngestionAssumption
<1>4. left["loss"] \in Nat /\ left'["loss"] \in Nat
  BY <1>1
<1>5. Lose => left'["loss"] < left["loss"]
  BY <1>1, <1>4 DEF Lose, Spend
<1>. QED
  BY <1>2, <1>3, <1>4, <1>5 DEF LossBound, NothingLost

(* The steps of a worker that change neither the status of an open         *)
(* document nor what the delivery has left to do.                          *)
GoesOn(m) ==
  /\ \E r \in Messages :
       /\ msg' = [msg EXCEPT ![m] = r]
       /\ msg[m].at \in Ingesting => r.at \in Ingesting /\ r.job.doc = Doc(m)
       /\ msg[m].at \in Settling => r.at \in Settling
  /\ \A d \in Docs : doc'[d].status = doc[d].status

LEMMA StepGoesOn ==
  ASSUME Typed, NEW m \in Deliveries, WorkerStep(m) \/ WorkerFault(m) \/ Crash(m), ~Lose,
         ~(Mark(m) \/ Commit(m) \/ FinStatus(m) \/ RetryStatus(m) \/ RetrySend(m))
  PROVE  GoesOn(m)
<1>1. /\ MsgsOK /\ DocsOK /\ msg \in [Deliveries -> Messages]
      /\ doc \in [Docs -> Documents] /\ Doc(m) \in Docs
  BY WorkerDoc DEF Typed, MsgsOK, DocsOK
<1>2. PICK r \in Messages : msg' = [msg EXCEPT ![m] = r] /\ Follows(m, r)
  BY <1>1, WorkerMsg DEF Moves, Resends
<1>3. \A d \in Docs : doc'[d].status = doc[d].status
  <2>1. \/ UNCHANGED doc
        \/ \E n \in Generations : doc' = [doc EXCEPT ![Doc(m)].vectors = n]
        \/ doc' = [doc EXCEPT ![Doc(m)].file = 0]
    <3>1. msg[m].got \in Generations /\ 0 \in Generations
      BY <1>1, Bounds DEF Messages
    <3>2. CASE Insert(m) \/ \E why \in {"transient", "permanent"} : FailInsert(m, why)
      BY <3>1, <3>2 DEF Insert, FailInsert
    <3>3. CASE Purge(m) \/ OkFile(m) \/ FinVectors(m) \/ FinFile(m)
      BY <3>1, <3>3 DEF Purge, OkFile, FinVectors, FinFile, DropVectors, ClearFile
    <3>4. CASE \/ Defer(m) \/ DeferSend(m) \/ Receive(m) \/ SetLease(m) \/ CheckBegin(m)
               \/ Stage(m) \/ Check(m) \/ Recheck(m) \/ OkRelease(m) \/ FinRelease(m)
               \/ RetryRelease(m) \/ RetryAdmit(m) \/ Unlease(m)
               \/ FailFinalize(m) \/ RetrySendFails(m) \/ Abort(m) \/ Crash(m)
               \/ \E why \in {"transient", "permanent"} : Fail(m, why)
      BY <3>4 DEF Defer, DeferSend, Receive, SetLease, CheckBegin, Stage, Check, Recheck,
           OkRelease, FinRelease, RetryRelease, RetryAdmit, Unlease,
           FailFinalize, RetrySendFails, Abort, Crash, Fail
    <3>. QED
      BY <3>2, <3>3, <3>4 DEF WorkerStep, WorkerFault
  <2>. QED
    BY <1>1, <2>1 DEF Documents
<1>4. msg'[m] = r
  BY <1>1, <1>2
<1>5. /\ msg[m].at \in Ingesting => r.at \in Ingesting
      /\ msg[m].at \in Settling => r.at \in Settling
  <2>1. ASSUME NEW at, Goto(m, at) PROVE r.at = at
    BY <1>4, <2>1, AtAfter
  <2>2. ASSUME NEW why, Raise(m, why) PROVE r.at = "finvectors"
    BY <1>4, <2>2, AtAfter
  <2>3. CASE \/ OkFile(m) \/ OkRelease(m) \/ FinFile(m) \/ FinRelease(m) \/ Unlease(m)
             \/ FailFinalize(m)
    BY <2>3 DEF OkFile, OkRelease, FinFile, FinRelease, Unlease, FailFinalize, Ingesting,
                Settling
  <2>4. CASE Defer(m) \/ Receive(m) \/ SetLease(m)
    BY <2>1, <2>4 DEF Ingesting, Settling, Defer, Receive, SetLease
  <2>5. CASE DeferSend(m) \/ Crash(m)
    <3>1. r.at = "queued"
      BY <1>4, <2>5, AtAfter
    <3>. QED
      BY <3>1 DEF Ingesting, Settling
  <2>6. CASE CheckBegin(m)
    BY <2>1, <2>2, <2>6 DEF Ingesting, Settling, CheckBegin
  <2>7. CASE Check(m) \/ Recheck(m)
    BY <2>1, <2>2, <2>7 DEF Ingesting, Settling, Check, Recheck
  <2>8. CASE Stage(m)
    <3>1. r.at \in {"finvectors", "check"}
      BY <1>4, <2>8, AtAfter
    <3>. QED
      BY <2>8, <3>1 DEF Ingesting, Settling, Stage
  <2>9. CASE Purge(m) \/ Insert(m) \/ FinVectors(m) \/ RetryRelease(m)
    BY <2>1, <2>2, <2>9 DEF Ingesting, Settling, Purge, Insert, FinVectors, RetryRelease
  <2>10. CASE RetryAdmit(m)
    <3>1. r.at \in {"retrysend", "finstatus"}
      BY <1>4, <2>10, AtAfter
    <3>. QED
      BY <3>1 DEF Ingesting, Settling
  <2>11. CASE \E why \in {"transient", "permanent"} : Fail(m, why) \/ FailInsert(m, why)
    BY <2>2, <2>11 DEF Ingesting, Settling, Fail, FailInsert
  <2>12. ~(RetrySendFails(m) \/ Abort(m))
    BY DEF RetrySendFails, Abort
  <2>. QED
    BY <2>3, <2>4, <2>5, <2>6, <2>7, <2>8, <2>9, <2>10, <2>11, <2>12
       DEF WorkerStep, WorkerFault
<1>6. msg[m].at \in Ingesting => r.job.doc = Doc(m)
  <2>1. r.at # "free" => r.job.doc = Doc(m)
    BY <1>1, <1>2, WorkerBusy DEF Follows, Doc, Jobs
  <2>2. "free" \notin Ingesting
    BY DEF Ingesting, Settling
  <2>. QED
    BY <1>5, <2>1, <2>2
<1>. QED
  BY <1>2, <1>3, <1>5, <1>6 DEF GoesOn

(* A document is carried on by whoever did before, if he still does.       *)
LEMMA StillCarried ==
  ASSUME NEW d, NEW ats, Carried(d, ats),
         sub[d].at \in Submitting => sub'[d].at \in Submitting,
         \A m \in Deliveries : msg[m].at \in ats /\ Doc(m) = d =>
           \E n \in Deliveries : msg'[n].at \in ats /\ msg'[n].job.doc = d,
         UNCHANGED rec
  PROVE  Carried(d, ats)'
BY DEF Carried, Doc, Job

(* What the submissions and deletions do.                                  *)
LEMMA ApiCarries ==
  ASSUME Typed, NEW d \in Docs, CarriedOn(d), UNCHANGED <<msg, rec>>,
         sub[d].at \in Submitting =>
           sub'[d].at \in Submitting \/ doc'[d].status \notin {"pending", "processing"},
         \/ doc'[d].status = doc[d].status
         \/ doc'[d].status \notin {"pending", "processing"}
         \/ sub'[d].at \in Submitting
  PROVE  CarriedOn(d)'
BY DEF CarriedOn, Carried, Doc, Job

LEMMA WorkerCarries ==
  ASSUME Typed, RetrySent, NEW m \in Deliveries, WorkerStep(m) \/ WorkerFault(m) \/ Crash(m),
         ~Lose, NEW d \in Docs, CarriedOn(d)
  PROVE  CarriedOn(d)'
<1>1. /\ MsgsOK /\ DocsOK /\ msg \in [Deliveries -> Messages] /\ doc \in [Docs -> Documents]
  BY DEF Typed, MsgsOK, DocsOK
<1>2. UNCHANGED <<sub, rec>>
  BY DEF WorkerStep, WorkerFault, Crash, Defer, DeferSend, Receive,
     SetLease, CheckBegin, Mark, Stage, Check, Insert, Recheck, Purge, Commit,
     OkFile, OkRelease, FinVectors, FinStatus, FinFile, FinRelease,
     RetryRelease, RetryAdmit, RetrySend, RetryStatus, Unlease,
     Fail, FailInsert, FailFinalize, RetrySendFails, Abort, api
<1>3. msg[m] \in Messages /\ Job(m) \in Jobs /\ msg[m].at # "free" /\ Doc(m) \in Docs
  BY <1>1, WorkerBusy, WorkerDoc
<1>4. ASSUME NEW ats \in {Settling, Ingesting}, Carried(d, ats),
             NEW r \in Messages, msg' = [msg EXCEPT ![m] = r],
             msg[m].at \in ats => r.at \in ats /\ r.job.doc = Doc(m)
      PROVE Carried(d, ats)'
  <2>1. ASSUME NEW n \in Deliveries, msg[n].at \in ats, Doc(n) = d
        PROVE  msg'[n].at \in ats /\ msg'[n].job.doc = d
    BY <1>1, <1>4, <2>1 DEF Doc, Job
  <2>. QED
    BY <1>2, <1>4, <2>1, StillCarried
<1>5. CASE GoesOn(m)
  <2>1. PICK r \in Messages :
          /\ msg' = [msg EXCEPT ![m] = r]
          /\ msg[m].at \in Ingesting => r.at \in Ingesting /\ r.job.doc = Doc(m)
          /\ msg[m].at \in Settling => r.at \in Settling
    BY <1>5 DEF GoesOn
  <2>2. Settling \subseteq Ingesting
    BY DEF Ingesting
  <2>3. /\ Carried(d, Settling) => Carried(d, Settling)'
        /\ Carried(d, Ingesting) => Carried(d, Ingesting)'
    BY <1>4, <2>1, <2>2
  <2>4. doc'[d].status = doc[d].status
    BY <1>5 DEF GoesOn
  <2>. QED
    BY <2>3, <2>4 DEF CarriedOn
<1>6. CASE Mark(m)
  <2>1. msg' = [msg EXCEPT ![m] = [msg[m] EXCEPT !.at = "stage"]]
        /\ msg'[m].at = "stage" /\ msg'[m].job = Job(m)
    BY <1>1, <1>6 DEF Mark, Goto, Job, Messages
  <2>2. CASE Doc(m) = d
    <3>1. doc'[d].status # "pending"
      BY <1>1, <1>6, <2>2 DEF Mark, SetStatus, Exists, Statuses, Documents
    <3>2. Carried(d, Ingesting)'
      BY <2>1, <2>2 DEF Carried, Ingesting, Doc, Job
    <3>. QED
      BY <3>1, <3>2 DEF CarriedOn
  <2>3. CASE Doc(m) # d
    <3>1. doc'[d] = doc[d]
      BY <1>1, <1>3, <1>6, <2>3 DEF Mark, SetStatus
    <3>2. ASSUME NEW ats, Carried(d, ats) PROVE Carried(d, ats)'
      <4>1. ASSUME NEW n \in Deliveries, msg[n].at \in ats, Doc(n) = d
            PROVE  msg'[n].at \in ats /\ msg'[n].job.doc = d
        BY <1>1, <2>1, <2>3, <4>1 DEF Doc, Job
      <4>. QED
        BY <1>2, <3>2, <4>1, StillCarried
    <3>. QED
      BY <3>1, <3>2 DEF CarriedOn
  <2>. QED
    BY <2>2, <2>3
<1>7. CASE Commit(m) \/ FinStatus(m) \/ RetryStatus(m)
  <2>1. PICK at \in {"okfile", "finfile", "unlease"} : Goto(m, at)
    BY <1>7 DEF Commit, FinStatus, RetryStatus
  <2>2. \A n \in Deliveries : n # m => msg'[n] = msg[n]
    BY <1>1, <2>1 DEF Goto
  <2>3. CASE Doc(m) = d
    <3>1. CASE Commit(m)
      <4>1. /\ doc[d].status # "processing" => doc' = doc
            /\ doc'[d].status # "processing"
            /\ doc'[d].status = "pending" => doc[d].status = "pending"
        BY <1>1, <2>3, <3>1 DEF Commit, SetStatus, Exists, Statuses, Documents
      <4>2. Carried(d, Settling) => Carried(d, Settling)'
        <5>1. msg[m].at \notin Settling
          BY <3>1 DEF Commit, Settling
        <5>2. ASSUME NEW n \in Deliveries, msg[n].at \in Settling, Doc(n) = d
              PROVE  msg'[n].at \in Settling /\ msg'[n].job.doc = d
          BY <2>2, <5>1, <5>2 DEF Doc, Job
        <5>. QED
          BY <1>2, <5>2, StillCarried
      <4>. QED
        BY <4>1, <4>2 DEF CarriedOn
    <3>2. CASE FinStatus(m)
      <4>1. doc'[d].status \notin {"pending", "processing"}
        BY <1>1, <2>3, <3>2 DEF FinStatus, SetStatus, Exists, Statuses, Documents
      <4>. QED
        BY <4>1 DEF CarriedOn
    <3>3. CASE RetryStatus(m)
      <4>1. doc'[d].status # "processing"
        BY <1>1, <2>3, <3>3 DEF RetryStatus, SetStatus, Exists, Statuses, Documents
      <4>2. PICK n \in Deliveries :
              msg[n].at \in {"queued", "deferring"} /\ JobId(Job(n)) = JobId(Job(m))
        BY <3>3 DEF RetryStatus, RetrySent
      <4>3. n # m /\ msg'[n] = msg[n]
        BY <2>2, <3>3, <4>2 DEF RetryStatus
      <4>4. Doc(n) = d
        BY <2>3, <4>2 DEF JobId, Doc
      <4>5. Carried(d, Settling)'
        BY <4>2, <4>3, <4>4 DEF Carried, Settling, Doc, Job
      <4>. QED
        BY <4>1, <4>5 DEF CarriedOn
    <3>. QED
      BY <1>7, <3>1, <3>2, <3>3
  <2>4. CASE Doc(m) # d
    <3>1. doc'[d] = doc[d]
      BY <1>1, <1>3, <1>7, <2>4 DEF Commit, FinStatus, RetryStatus, SetStatus
    <3>2. ASSUME NEW ats, Carried(d, ats) PROVE Carried(d, ats)'
      <4>1. ASSUME NEW n \in Deliveries, msg[n].at \in ats, Doc(n) = d
            PROVE  msg'[n].at \in ats /\ msg'[n].job.doc = d
        BY <2>2, <2>4, <4>1 DEF Doc, Job
      <4>. QED
        BY <1>2, <3>2, <4>1, StillCarried
    <3>. QED
      BY <3>1, <3>2 DEF CarriedOn
  <2>. QED
    BY <2>3, <2>4
<1>8. CASE RetrySend(m)
  <2>. DEFINE f == AnyFree
  <2>1. f \in Deliveries /\ msg[f].at = "free" /\ f # m
    BY <1>8, FreeOne DEF RetrySend
  <2>2. NextTry(Job(m)) \in Jobs /\ NextTry(Job(m)).doc = Doc(m)
    <3>1. Resends(m)
      BY <1>1, <1>8, RetryMsg
    <3>. QED
      BY <1>3, <3>1 DEF Resends, NextTry, Jobs, Doc
  <2>3. msg'[f] = Message("queued", NextTry(Job(m)))
    BY <1>1, <1>8, <2>1 DEF RetrySend, NextTry
  <2>4. msg'[f].at = "queued" /\ msg'[f].job.doc = Doc(m)
    BY <2>2, <2>3, MessageOK
  <2>5. \A n \in Deliveries : n # m /\ n # f => msg'[n] = msg[n]
    BY <1>1, <1>8 DEF RetrySend
  <2>. HIDE DEF f
  <2>6. ASSUME NEW ats \in {Settling, Ingesting}, Carried(d, ats) PROVE Carried(d, ats)'
    <3>1. "free" \notin ats /\ "queued" \in ats
      BY DEF Settling, Ingesting
    <3>2. ASSUME NEW n \in Deliveries, msg[n].at \in ats, Doc(n) = d
          PROVE  \E k \in Deliveries : msg'[k].at \in ats /\ msg'[k].job.doc = d
      <4>1. CASE n = m
        BY <2>1, <2>4, <3>1, <3>2, <4>1
      <4>2. CASE n # m
        BY <2>1, <2>5, <3>1, <3>2, <4>2 DEF Doc, Job
      <4>. QED
        BY <4>1, <4>2
    <3>. QED
      BY <1>2, <2>6, <3>2, StillCarried
  <2>7. doc' = doc
    BY <1>8 DEF RetrySend
  <2>. QED
    BY <2>6, <2>7 DEF CarriedOn
<1>. QED
  BY <1>1, <1>5, <1>6, <1>7, <1>8, StepGoesOn

LEMMA CarriersStep ==
  ASSUME NotForgottenInv, [Next]_vars PROVE Carriers'
<1>. SUFFICES ASSUME NothingLost', NEW d \in Docs PROVE CarriedOn(d)'
  BY DEF Carriers
<1>1. /\ Typed /\ RetrySent /\ CarriedOn(d) /\ ~Lose
      /\ DocsOK /\ MsgsOK /\ SubsOK /\ BagsOK
      /\ doc \in [Docs -> Documents] /\ sub \in [Docs -> AllSubmissions]
  BY LossStep DEF NotForgottenInv, Carriers, Typed, DocsOK, SubsOK
<1>2. ASSUME NEW m \in Deliveries, WorkerStep(m) \/ WorkerFault(m) \/ Crash(m)
      PROVE CarriedOn(d)'
  BY <1>1, <1>2, WorkerCarries
<1>. DEFINE Ok == /\ sub[d].at \in Submitting =>
                      sub'[d].at \in Submitting \/ doc'[d].status \notin {"pending", "processing"}
                  /\ \/ doc'[d].status = doc[d].status
                     \/ doc'[d].status \notin {"pending", "processing"}
                     \/ sub'[d].at \in Submitting
<1>3. ASSUME NEW e \in Docs, \/ Upload(e) \/ ResyncStart(e) \/ ResyncVectors(e) \/ ResyncPut(e)
                             \/ ResyncAborts(e) \/ EnqueueRead(e) \/ EnqueueAdmit(e)
                             \/ EnqueueSendFails(e)
      PROVE Ok
  <2>1. CASE Upload(e) \/ ResyncStart(e)
    BY <1>1, <2>1 DEF Upload, ResyncStart, Submit, Submitting, Documents, AllSubmissions
  <2>2. CASE ResyncVectors(e) \/ ResyncPut(e) \/ ResyncAborts(e)
    BY <1>1, <2>2 DEF ResyncVectors, ResyncPut, ResyncAborts, Submit, Submitting, Documents,
       AllSubmissions
  <2>3. CASE EnqueueRead(e) \/ EnqueueAdmit(e) \/ EnqueueSendFails(e)
    BY <1>1, <2>3 DEF EnqueueRead, EnqueueAdmit, EnqueueSendFails, Submit, Submitting,
       AllSubmissions
  <2>. QED
    BY <1>3, <2>1, <2>2, <2>3
<1>4. ASSUME NEW e \in Docs, ResyncRow(e) \/ Refused(e) PROVE Ok
  BY <1>1, <1>4 DEF ResyncRow, Refused, Submit, Submitting, Documents, AllSubmissions, Exists,
                    Statuses
<1>5. ASSUME NEW e \in Docs, DeleteStart(e) \/ DeleteStep(e) \/ DeleteAborts(e) PROVE Ok
  BY <1>1, <1>5 DEF DeleteStart, DeleteStep, DeleteFile, DeleteVectors, DeleteRow, DeleteAborts,
                    Documents
<1>6. ASSUME TruncateStart \/ TruncateStep \/ MaintenanceOn \/ MaintenanceOff PROVE Ok
  <2>1. CASE TruncateFiles \/ TruncateVectors
    BY <1>1, <2>1 DEF TruncateFiles, TruncateVectors, Documents
  <2>2. CASE TruncateRows
    BY <1>1, <2>2 DEF TruncateRows, Documents
  <2>3. CASE TruncateStart \/ MaintenanceOn \/ MaintenanceOff
    BY <2>3 DEF TruncateStart, MaintenanceOn, MaintenanceOff
  <2>. QED
    BY <1>6, <2>1, <2>2, <2>3 DEF TruncateStep
<1>7. ASSUME Ok, Elsewhere, UNCHANGED rec PROVE CarriedOn(d)'
  BY <1>1, <1>7, ElsewhereMsg, ApiCarries
<1>8. ASSUME NEW j, Sends(j), UNCHANGED doc, j.doc = d PROVE CarriedOn(d)'
  BY <1>1, <1>8, FreeOne, MessageOK
     DEF Sends, MsgsOK, CarriedOn, Carried, Settling, Ingesting, Doc, Job
<1>9. ASSUME NEW j, Sends(j), NEW ats \in {Settling, Ingesting}
      PROVE \A n \in Deliveries : msg[n].at \in ats /\ Doc(n) = d =>
              msg'[n].at \in ats /\ msg'[n].job.doc = d
  BY <1>1, <1>9, FreeOne DEF Sends, MsgsOK, Settling, Ingesting, Doc, Job
<1>10. ASSUME NEW e \in Docs, EnqueueSend(e) PROVE CarriedOn(d)'
  <2>1. Sends(sub[e].job) /\ sub[e].job.doc = e
    BY <1>1, <1>10, SendMsg DEF EnqueueSend, SubsOK, Submissions
  <2>2. UNCHANGED <<doc, rec>>
    BY <1>10 DEF EnqueueSend
  <2>3. CASE e = d
    BY <1>8, <2>1, <2>2, <2>3
  <2>4. CASE e # d
    <3>1. sub'[d] = sub[d]
      BY <1>1, <1>10, <2>4 DEF EnqueueSend
    <3>2. ASSUME NEW ats \in {Settling, Ingesting}, Carried(d, ats) PROVE Carried(d, ats)'
      BY <1>9, <2>1, <2>2, <3>1, <3>2, StillCarried
    <3>3. /\ Carried(d, Settling) => Carried(d, Settling)'
          /\ Carried(d, Ingesting) => Carried(d, Ingesting)'
      BY <3>2
    <3>4. doc' = doc
      BY <2>2
    <3>. QED
      BY <1>1, <3>3, <3>4 DEF CarriedOn
  <2>. QED
    BY <2>3, <2>4
<1>11. ASSUME NEW r \in Recoverers, RecoverList(r) \/ RecoverTake(r) PROVE CarriedOn(d)'
  <2>1. UNCHANGED <<doc, sub, msg>> /\ rec[r].at # "marked"
    BY <1>11 DEF RecoverList, RecoverTake, api
  <2>2. \A s \in Recoverers : s # r => rec'[s] = rec[s]
    BY <1>1, <1>11 DEF RecoverList, RecoverTake, Recovering, BagsOK
  <2>. QED
    BY <1>1, <2>1, <2>2 DEF CarriedOn, Carried, Doc, Job
<1>12. ASSUME NEW r \in Recoverers, RecoverMark(r) PROVE CarriedOn(d)'
  <2>. DEFINE Open(e) == doc[e].status \in {"pending", "processing"}
              back == Select(rec[r].jobs, LAMBDA j : Open(j.doc))
  <2>1. /\ doc' = [e \in Docs |-> IF \E j \in BagToSet(back) : j.doc = e
                                    THEN [doc[e] EXCEPT !.status = "pending"] ELSE doc[e]]
        /\ Recovering(r, "marked", back)
        /\ rec[r].at = "taken" /\ UNCHANGED <<sub, msg>>
    BY <1>12 DEF RecoverMark, api
  <2>. HIDE DEF back
  <2>2. /\ rec'[r] = [at |-> IF back = EmptyBag THEN "idle" ELSE "marked", jobs |-> back]
        /\ \A s \in Recoverers : s # r => rec'[s] = rec[s]
    BY <1>1, <2>1 DEF Recovering, BagsOK
  <2>3. CASE \E j \in BagToSet(back) : j.doc = d
    <3>1. doc'[d].status = "pending"
      BY <1>1, <2>1, <2>3 DEF Documents
    <3>2. back # EmptyBag
      BY <2>3, BagNone
    <3>3. rec'[r].at = "marked" /\ rec'[r].jobs = back
      BY <2>2, <3>2
    <3>4. Carried(d, Settling)'
      BY <2>3, <3>3 DEF Carried
    <3>. QED
      BY <3>1, <3>4 DEF CarriedOn
  <2>4. CASE ~\E j \in BagToSet(back) : j.doc = d
    <3>1. doc'[d] = doc[d]
      BY <2>1, <2>4
    <3>. QED
      BY <1>1, <2>1, <2>2, <3>1 DEF CarriedOn, Carried, Doc, Job
  <2>. QED
    BY <2>3, <2>4
<1>13. ASSUME NEW r \in Recoverers, RecoverSend(r) PROVE CarriedOn(d)'
  <2>. DEFINE jobs == rec[r].jobs
  <2>1. PICK j \in BagToSet(jobs) :
          /\ msg' = [msg EXCEPT ![AnyFree] = Message("queued", j)]
          /\ Recovering(r, "marked", jobs (-) SetToBag({j}))
    BY <1>13 DEF RecoverSend
  <2>. DEFINE b == jobs (-) SetToBag({j})
  <2>2. IsABag(jobs) /\ BagToSet(jobs) \subseteq Jobs
    BY <1>1 DEF BagsOK, JobBag
  <2>3. Sends(j) /\ UNCHANGED <<doc, sub>>
    BY <1>13, <2>1, <2>2 DEF RecoverSend, Sends, api
  <2>4. BagToSet(jobs) \ {j} \subseteq BagToSet(b)
    BY <2>2, BagSub, BagOne
  <2>. HIDE DEF b
  <2>5. /\ rec'[r] = [at |-> IF b = EmptyBag THEN "idle" ELSE "marked", jobs |-> b]
        /\ \A s \in Recoverers : s # r => rec'[s] = rec[s]
    BY <1>1, <2>1 DEF Recovering, BagsOK, b
  <2>6. CASE j.doc = d
    BY <1>8, <2>3, <2>6
  <2>7. CASE j.doc # d
    <3>1. ASSUME NEW k \in BagToSet(jobs), k.doc = d
          PROVE  rec'[r].at = "marked" /\ k \in BagToSet(rec'[r].jobs)
      <4>1. k \in BagToSet(b)
        BY <2>4, <2>7, <3>1
      <4>2. b # EmptyBag
        BY <4>1, BagNone
      <4>. QED
        BY <2>5, <4>1, <4>2
    <3>2. ASSUME NEW ats \in {Settling, Ingesting}, Carried(d, ats) PROVE Carried(d, ats)'
      <4>1. CASE sub[d].at \in Submitting
        BY <2>3, <4>1 DEF Carried
      <4>2. CASE \E m \in Deliveries : msg[m].at \in ats /\ Doc(m) = d
        BY <1>9, <2>3, <4>2 DEF Carried, Doc, Job
      <4>3. CASE \E s \in Recoverers :
                   rec[s].at = "marked" /\ \E k \in BagToSet(rec[s].jobs) : k.doc = d
        BY <2>5, <3>1, <4>3 DEF Carried
      <4>. QED
        BY <3>2, <4>1, <4>2, <4>3 DEF Carried
    <3>3. /\ Carried(d, Settling) => Carried(d, Settling)'
          /\ Carried(d, Ingesting) => Carried(d, Ingesting)'
      BY <3>2
    <3>4. doc' = doc
      BY <2>3
    <3>. QED
      BY <1>1, <3>3, <3>4 DEF CarriedOn
  <2>. QED
    BY <2>6, <2>7
<1>14. ASSUME \/ \E m \in Deliveries : Renew(m)
              \/ \E id \in leases : LeaseExpires(id)
              \/ UNCHANGED vars
       PROVE CarriedOn(d)'
  BY <1>1, <1>14 DEF Renew, LeaseExpires, vars, api, CarriedOn, Carried, Doc, Job
<1>15. ASSUME Ok, UNCHANGED <<msg, rec>> PROVE CarriedOn(d)'
  BY <1>1, <1>15, ApiCarries
<1>16. ASSUME \/ \E e \in Docs : \/ Upload(e) \/ ResyncStart(e) \/ DeleteStart(e)
                                 \/ EnqueueSendFails(e) \/ DeleteAborts(e) \/ ResyncAborts(e)
                                 \/ ResyncVectors(e) \/ ResyncPut(e) \/ ResyncRow(e)
                                 \/ EnqueueRead(e) \/ EnqueueAdmit(e) \/ Refused(e)
                                 \/ DeleteStep(e)
              \/ TruncateStart \/ TruncateStep \/ MaintenanceOn \/ MaintenanceOff
       PROVE  CarriedOn(d)'
  <2>1. Ok
    BY <1>3, <1>4, <1>5, <1>6, <1>16
  <2>2. UNCHANGED rec
    BY <1>16 DEF Upload, ResyncStart, DeleteStart, EnqueueSendFails, DeleteAborts,
       ResyncAborts, ResyncVectors, ResyncPut, ResyncRow, EnqueueRead,
       EnqueueAdmit, Refused, DeleteStep, DeleteFile, DeleteVectors, DeleteRow,
       TruncateStart, TruncateStep, TruncateFiles, TruncateVectors, TruncateRows,
       MaintenanceOn, MaintenanceOff
  <2>3. UNCHANGED msg
    BY <1>16, ElsewhereMsg DEF Elsewhere
  <2>. QED
    BY <1>15, <2>1, <2>2, <2>3
<1>17. ~\E r \in Recoverers : RecoverCrash(r)
  BY <1>1 DEF RecoverCrash
<1>. QED
  BY <1>2, <1>10, <1>11, <1>12, <1>13, <1>14, <1>16, <1>17, StepKinds DEF Elsewhere

(* Nobody takes a retry from the queue before its sender is done.          *)
LEMMA RetrySentStep ==
  ASSUME Typed, PromptFinalize, RetrySent, [Next]_vars PROVE RetrySent'
<1>. DEFINE Waits(m, n) == msg[n].at \in {"queued", "deferring"} /\ JobId(Job(n)) = JobId(Job(m))
<1>1. MsgsOK /\ DocsOK /\ SubsOK /\ BagsOK /\ msg \in [Deliveries -> Messages]
  BY DEF Typed, MsgsOK
<1>2. CASE Elsewhere
  BY <1>2, ElsewhereMsg DEF RetrySent, Job, JobId
<1>3. ASSUME NEW j, Sends(j) PROVE RetrySent'
  <2>1. AnyFree \in Deliveries /\ msg[AnyFree].at = "free"
        /\ msg'[AnyFree].at = "queued"
        /\ \A n \in Deliveries : n # AnyFree => msg'[n] = msg[n]
    BY <1>1, <1>3, FreeOne, MessageOK DEF Sends
  <2>. QED
    BY <2>1 DEF RetrySent, Job, JobId
<1>4. ASSUME NEW m \in Deliveries, Moves(m), ~RetrySend(m),
             WorkerStep(m) \/ WorkerFault(m) \/ Crash(m)
      PROVE RetrySent'
  <2>1. PICK r \in Messages : msg' = [msg EXCEPT ![m] = r] /\ Follows(m, r)
    BY <1>4 DEF Moves
  <2>2. msg'[m] = r /\ \A n \in Deliveries : n # m => msg'[n] = msg[n]
    BY <1>1, <2>1
  <2>3. r.at # "free" => JobId(r.job) = JobId(Job(m))
    BY <1>1, <1>4, <2>1, WorkerBusy DEF Follows, JobId, Jobs
  <2>4. ASSUME NEW at, Goto(m, at) PROVE r.at = at
    BY <2>2, <2>4, AtAfter
  <2>5. ASSUME NEW why, Raise(m, why) PROVE r.at = "finvectors"
    BY <2>2, <2>5, AtAfter
  <2>6. /\ DeferSend(m) \/ Crash(m) => r.at = "queued"
        /\ Unlease(m) => r.at = "free"
        /\ Stage(m) => r.at \in {"finvectors", "check"}
        /\ RetryAdmit(m) => r.at \in {"finstatus", "retrysend"}
    BY <2>2, AtAfter
  <2>7. r.at # "retrystatus"
    BY <1>4, <2>4, <2>5, <2>6 DEF WorkerStep, WorkerFault, Defer, Receive, SetLease, CheckBegin,
       Mark, Check, Insert, Recheck, Purge, Commit, OkFile, OkRelease, FinVectors,
       FinStatus, FinFile, FinRelease, RetryRelease, RetryStatus, Fail, FailInsert,
       FailFinalize, RetrySendFails, Abort
  <2>8. ASSUME NEW n \in Deliveries, msg[n].at = "retrystatus", JobId(Job(n)) = JobId(Job(m)),
               msg[m].at \in {"queued", "deferring"}
        PROVE  r.at \in {"queued", "deferring"}
    <3>1. Defer(m) \/ DeferSend(m) \/ Receive(m) \/ Crash(m)
      BY <1>4, <2>8 DEF WorkerStep, WorkerFault, SetLease, CheckBegin, Mark, Stage, Check,
         Insert, Recheck, Purge, Commit, OkFile, OkRelease, FinVectors,
         FinStatus, FinFile, FinRelease, RetryRelease, RetryAdmit, RetrySend, RetryStatus,
         Unlease, Fail, FailInsert, FailFinalize, RetrySendFails, Abort, Leased
    <3>2. ~Receive(m)
      BY <2>8 DEF Receive, SenderDone
    <3>. QED
      BY <2>4, <2>6, <3>1, <3>2 DEF Defer
  <2>9. ASSUME NEW n \in Deliveries, msg'[n].at = "retrystatus"
        PROVE  \E k \in Deliveries :
                 msg'[k].at \in {"queued", "deferring"} /\ JobId(msg'[k].job) = JobId(msg'[n].job)
    <3>1. n # m /\ msg'[n] = msg[n]
      BY <2>2, <2>7, <2>9
    <3>2. PICK k \in Deliveries :
            msg[k].at \in {"queued", "deferring"} /\ JobId(Job(k)) = JobId(Job(n))
      BY <2>9, <3>1 DEF RetrySent
    <3>3. CASE k = m
      <4>1. r.at \in {"queued", "deferring"}
        BY <2>8, <2>9, <3>1, <3>2, <3>3
      <4>. QED
        BY <2>2, <2>3, <3>1, <3>2, <3>3, <4>1 DEF Job
    <3>4. CASE k # m
      BY <2>2, <3>1, <3>2, <3>4 DEF Job
    <3>. QED
      BY <3>3, <3>4
  <2>. QED
    BY <2>9 DEF RetrySent, Job, JobId
<1>5. ASSUME NEW m \in Deliveries, Resends(m) PROVE RetrySent'
  <2>. DEFINE f == AnyFree
              r == [msg[m] EXCEPT !.at = "retrystatus"]
              s == Message("queued", NextTry(Job(m)))
  <2>1. f \in Deliveries /\ msg[f].at = "free" /\ msg[m].at = "retrysend"
        /\ s.at = "queued" /\ s.job = NextTry(Job(m))
    BY <1>5, FreeOne, MessageOK DEF Resends, RetrySend
  <2>2. msg' = [msg EXCEPT ![m] = r, ![f] = s]
    BY <1>1, <1>5 DEF Resends, RetrySend, NextTry
  <2>3. r.job = Job(m) /\ JobId(s.job) = JobId(Job(m))
    <3>1. msg[m] \in Messages /\ Job(m) \in Jobs
      BY <1>1, <1>5, WorkerBusy DEF Resends, WorkerStep
    <3>. QED
      BY <2>1, <3>1 DEF Messages, Job, NextTry, JobId, Jobs
  <2>. HIDE DEF f, r, s
  <2>4. /\ msg'[f] = s /\ msg'[m] = r
        /\ \A n \in Deliveries : n # f /\ n # m => msg'[n] = msg[n]
    BY <1>1, <2>1, <2>2
  <2>5. ASSUME NEW n \in Deliveries, msg'[n].at = "retrystatus"
        PROVE  \E k \in Deliveries :
                 msg'[k].at \in {"queued", "deferring"} /\ JobId(msg'[k].job) = JobId(msg'[n].job)
    <3>1. n # f
      BY <2>1, <2>4, <2>5
    <3>2. CASE n = m
      BY <2>1, <2>3, <2>4, <3>2
    <3>3. CASE n # m
      <4>1. PICK k \in Deliveries :
              msg[k].at \in {"queued", "deferring"} /\ JobId(Job(k)) = JobId(Job(n))
        BY <2>4, <2>5, <3>1, <3>3 DEF RetrySent
      <4>2. k # f /\ k # m
        BY <2>1, <4>1
      <4>. QED
        BY <2>4, <3>1, <3>3, <4>1, <4>2 DEF Job
    <3>. QED
      BY <3>2, <3>3
  <2>. QED
    BY <2>5 DEF RetrySent, Job, JobId
<1>6. ASSUME NEW m \in Deliveries, WorkerStep(m) \/ WorkerFault(m) \/ Crash(m)
      PROVE RetrySent'
  BY <1>1, <1>4, <1>5, <1>6, WorkerMsg, RetryMsg
<1>7. ASSUME \/ \E d \in Docs : EnqueueSend(d)
             \/ \E r \in Recoverers : RecoverSend(r)
      PROVE RetrySent'
  <2>1. \E j : Sends(j)
    BY <1>1, <1>7, SendMsg
  <2>. QED
    BY <1>3, <2>1
<1>. QED
  BY <1>2, <1>6, <1>7, StepKinds

LEMMA NotForgottenInvariant ==
  ASSUME PromptFinalize PROVE Spec => []NotForgottenInv
<1>1. Init => NotForgottenInv
  <2>. SUFFICES ASSUME Init PROVE NotForgottenInv
    OBVIOUS
  <2>1. Typed
    BY InitTyped
  <2>2. LossBound
    BY IngestionAssumption DEF Init, LossBound
  <2>3. RetrySent
    BY FreeMessageOK DEF Init, RetrySent
  <2>4. Carriers
    BY DEF Init, Carriers, CarriedOn
  <2>. QED
    BY <2>1, <2>2, <2>3, <2>4 DEF NotForgottenInv
<1>2. NotForgottenInv /\ [Next]_vars => NotForgottenInv'
  BY TypedStep, LossStep, RetrySentStep, CarriersStep DEF NotForgottenInv
<1>. QED
  BY <1>1, <1>2, PTL DEF Spec

(* While a document is pending or processing, somebody carries it on,      *)
(* whatever crashes, faults, recoveries and lapses there are: only a       *)
(* failure that loses a job can forget it.  The delay of a retry has to    *)
(* outlast its sender, as it does in the code.                             *)
THEOREM NothingForgotten ==
  ASSUME PromptFinalize PROVE Spec => []NotForgotten
<1>1. NotForgottenInv => NotForgotten
  <2>. SUFFICES ASSUME NotForgottenInv, NothingLost, NEW d \in Docs,
                       doc[d].status \in {"pending", "processing"}, AtRest(d)
                PROVE  FALSE
    BY DEF NotForgotten
  <2>1. Carried(d, Settling) \/ Carried(d, Ingesting)
    BY DEF NotForgottenInv, Carriers, CarriedOn
  <2>2. "free" \notin Settling /\ "free" \notin Ingesting /\ "idle" \notin Submitting
    BY DEF Settling, Ingesting, Submitting
  <2>. QED
    BY <2>1, <2>2 DEF Carried, AtRest
<1>. QED
  BY <1>1, NotForgottenInvariant, PTL

-----------------------------------------------------------------------------
(* Deletions leave no vectors behind.                                      *)

(* A deletion or truncation is under way or over.                          *)
Dying(d) == del[d] # "idle" \/ tr # "idle" \/ doc[d].status = "gone"

(* Its own sweep of the vectors is over.                                   *)
Swept(d) == del[d] = "row" \/ tr = "rows" \/ doc[d].status = "gone"

(* A document is submitted only after it was uploaded.                     *)
Uploaded == \A d \in Docs : doc[d].status = "none" => sub[d].at = "idle"

(* A re-sync has cancelled the jobs of the last content.                   *)
Resyncing(d) == sub[d].at \in {"vectors", "put", "row"}

(* The jobs that may be around: those of uploaded documents whose epochs   *)
(* are reached, and passed when the document is dying or re-synced.        *)
Due ==
  {j \in Jobs : /\ doc[j.doc].status # "none"
                /\ j.epoch <= epoch[j.doc] /\ j.cepoch <= cepoch
                /\ Dying(j.doc) \/ Resyncing(j.doc) => Stale(j)}

JobsCancelled ==
  /\ \A m \in Deliveries : msg[m].at # "free" => msg[m].job \in Due
  /\ BagToSet(processing) \subseteq Due
  /\ \A r \in Recoverers : BagToSet(rec[r].jobs) \subseteq Due
  /\ \A d \in Docs : sub[d].at \in {"admit", "send"} => sub[d].job \in Due

NoSubmission == \A d \in Docs : Dying(d) => sub[d].at = "idle"

(* A cancelled job here comes past the deletion of the vectors it wrote or *)
(* found, at the latest when it is finalized.                              *)
Cleaning ==
  {"queued", "deferring", "lease", "begin", "mark", "stage", "check", "insert",
   "recheck", "purge", "finvectors"}

OrphansCleaned ==
  \A d \in Docs : Swept(d) /\ doc[d].vectors # 0 =>
    \E m \in Deliveries : msg[m].at \in Cleaning /\ Doc(m) = d

CancelInv == Typed /\ Uploaded /\ NoSubmission /\ JobsCancelled

NoOrphanInv == CancelInv /\ OrphansCleaned

LEMMA UploadedStep ==
  ASSUME Typed, Uploaded, [Next]_vars PROVE Uploaded'
<1>1. /\ MsgsOK /\ DocsOK /\ doc \in [Docs -> Documents] /\ sub \in [Docs -> AllSubmissions]
  BY DEF Typed, DocsOK, SubsOK
<1>2. ASSUME NEW e \in Docs, doc'[e].status # "none" \/ sub'[e].at = "idle",
             \A d \in Docs \ {e} : sub'[d] = sub[d] /\ doc'[d] = doc[d]
      PROVE Uploaded'
  BY <1>2 DEF Uploaded
<1>3. ASSUME UNCHANGED sub, \A d \in Docs : doc'[d].status = "none" => doc[d].status = "none"
      PROVE Uploaded'
  BY <1>3 DEF Uploaded
<1>4. ASSUME NEW e \in Docs, Upload(e) \/ ResyncStart(e) PROVE Uploaded'
  BY <1>1, <1>2, <1>4 DEF Upload, ResyncStart, Exists, Statuses, Submit
<1>5. ASSUME NEW e \in Docs, \/ ResyncVectors(e) \/ ResyncPut(e) \/ ResyncRow(e)
                             \/ ResyncAborts(e) \/ EnqueueRead(e) \/ EnqueueAdmit(e)
                             \/ EnqueueSend(e) \/ EnqueueSendFails(e) \/ Refused(e)
      PROVE Uploaded'
  <2>1. sub[e].at # "idle"
    BY <1>5 DEF ResyncVectors, ResyncPut, ResyncRow, ResyncAborts, EnqueueRead, EnqueueAdmit,
         EnqueueSend, EnqueueSendFails, Refused
  <2>2. doc[e].status # "none"
    BY <2>1 DEF Uploaded
  <2>3. doc'[e].status # "none"
    BY <1>1, <1>5, <2>2 DEF ResyncVectors, ResyncPut, ResyncRow, ResyncAborts, EnqueueRead,
         EnqueueAdmit, EnqueueSend, EnqueueSendFails, Refused, Documents
  <2>4. \A d \in Docs \ {e} : sub'[d] = sub[d] /\ doc'[d] = doc[d]
    BY <1>1, <1>5 DEF ResyncVectors, ResyncPut, ResyncRow, ResyncAborts, EnqueueRead,
         EnqueueAdmit, EnqueueSend, EnqueueSendFails, Refused, Submit, Documents
  <2>. QED
    BY <1>2, <2>3, <2>4
<1>6. ASSUME NEW m \in Deliveries, WorkerStep(m) \/ WorkerFault(m) \/ Crash(m) PROVE Uploaded'
  <2>1. UNCHANGED sub
    BY <1>6 DEF WorkerStep, WorkerFault, Crash, Defer, DeferSend, Receive, SetLease,
       CheckBegin, Mark, Stage, Check, Insert, Recheck, Purge, Commit,
       OkFile, OkRelease, FinVectors, FinStatus, FinFile, FinRelease,
       RetryRelease, RetryAdmit, RetrySend, RetryStatus, Unlease,
       Fail, FailInsert, FailFinalize, RetrySendFails, Abort, api
  <2>2. \A d \in Docs : doc'[d].status = "none" => doc[d].status = "none"
    BY <1>1, <1>6, WorkerDoc DEF Documents, Statuses
  <2>. QED
    BY <1>3, <2>1, <2>2
<1>7. ASSUME NEW e \in Docs, DeleteStart(e) \/ DeleteStep(e) \/ DeleteAborts(e)
      PROVE Uploaded'
  BY <1>1, <1>3, <1>7 DEF DeleteStart, DeleteStep, DeleteFile, DeleteVectors, DeleteRow,
     DeleteAborts, Documents
<1>8. ASSUME TruncateStep PROVE Uploaded'
  <2>1. ASSUME TruncateFiles PROVE Uploaded'
    BY <1>1, <1>3, <2>1 DEF TruncateFiles, Documents
  <2>2. ASSUME TruncateVectors PROVE Uploaded'
    BY <1>1, <1>3, <2>2 DEF TruncateVectors, Documents
  <2>3. ASSUME TruncateRows PROVE Uploaded'
    BY <1>1, <1>3, <2>3 DEF TruncateRows, Documents
  <2>. QED
    BY <1>8, <2>1, <2>2, <2>3 DEF TruncateStep
<1>9. ASSUME \/ TruncateStart \/ MaintenanceOn \/ MaintenanceOff
             \/ \E m \in Deliveries : Renew(m)
             \/ \E id \in leases : LeaseExpires(id)
             \/ UNCHANGED vars
      PROVE Uploaded'
  BY <1>3, <1>9 DEF TruncateStart, MaintenanceOn, MaintenanceOff, Renew, LeaseExpires, vars, api
<1>10. ASSUME NEW r \in Recoverers, RecoverList(r) \/ RecoverStep(r) \/ RecoverCrash(r)
       PROVE Uploaded'
  <2>1. CASE RecoverMark(r)
    BY <1>1, <1>3, <2>1 DEF RecoverMark, Documents, api
  <2>2. CASE RecoverList(r) \/ RecoverTake(r) \/ RecoverSend(r) \/ RecoverCrash(r)
    BY <1>3, <2>2 DEF RecoverList, RecoverTake, RecoverSend, RecoverCrash, api
  <2>. QED
    BY <1>10, <2>1, <2>2 DEF RecoverStep
<1>. QED
  BY <1>4, <1>5, <1>6, <1>7, <1>8, <1>9, <1>10
     DEF Next, ApiChoice, SubmitStep, DeleteStep, Quiet

(* A re-sync starts with the cancellation, and nothing is un-uploaded.     *)
LEMMA ResyncStep ==
  ASSUME Typed, Uploaded, [Next]_vars, NEW d \in Docs
  PROVE  /\ Resyncing(d)' => Resyncing(d) \/ epoch'[d] > epoch[d]
         /\ doc[d].status # "none" => doc'[d].status # "none"
<1>1. /\ MsgsOK /\ DocsOK /\ doc \in [Docs -> Documents] /\ sub \in [Docs -> AllSubmissions]
      /\ epoch \in [Docs -> Nat]
  BY DEF Typed, DocsOK, SubsOK, EpochsOK
<1>2. ASSUME NEW m \in Deliveries, WorkerStep(m) \/ WorkerFault(m) \/ Crash(m)
      PROVE  UNCHANGED sub /\ (doc[d].status # "none" => doc'[d].status # "none")
  <2>1. UNCHANGED sub
    BY <1>2 DEF WorkerStep, WorkerFault, Crash, Defer, DeferSend, Receive, SetLease,
       CheckBegin, Mark, Stage, Check, Insert, Recheck, Purge, Commit,
       OkFile, OkRelease, FinVectors, FinStatus, FinFile, FinRelease,
       RetryRelease, RetryAdmit, RetrySend, RetryStatus, Unlease,
       Fail, FailInsert, FailFinalize, RetrySendFails, Abort, api
  <2>. QED
    BY <1>1, <1>2, <2>1, WorkerDoc DEF Documents, Statuses
<1>3. ASSUME NEW e \in Docs, Upload(e) \/ ResyncStart(e)
      PROVE  /\ Resyncing(d)' => Resyncing(d) \/ epoch'[d] > epoch[d]
             /\ doc[d].status # "none" => doc'[d].status # "none"
  <2>1. CASE Upload(e)
    BY <1>1, <2>1 DEF Upload, Submit, Resyncing, AllSubmissions
  <2>2. CASE ResyncStart(e)
    BY <1>1, <2>2 DEF ResyncStart, Submit, Resyncing, AllSubmissions
  <2>. QED
    BY <1>3, <2>1, <2>2
<1>4. ASSUME NEW e \in Docs, \/ ResyncVectors(e) \/ ResyncPut(e) \/ ResyncRow(e)
                             \/ ResyncAborts(e) \/ EnqueueRead(e) \/ EnqueueAdmit(e)
                             \/ EnqueueSend(e) \/ EnqueueSendFails(e) \/ Refused(e)
      PROVE  /\ Resyncing(d)' => Resyncing(d)
             /\ doc[d].status # "none" => doc'[d].status # "none"
  BY <1>1, <1>4 DEF ResyncVectors, ResyncPut, ResyncRow, ResyncAborts, EnqueueRead,
     EnqueueAdmit, EnqueueSend, EnqueueSendFails, Refused, Submit, Resyncing, AllSubmissions,
     Documents
<1>5. ASSUME \/ \E e \in Docs : DeleteStart(e) \/ DeleteStep(e) \/ DeleteAborts(e)
             \/ TruncateStart \/ TruncateStep
      PROVE  UNCHANGED sub /\ (doc[d].status # "none" => doc'[d].status # "none")
  BY <1>1, <1>5 DEF DeleteStart, DeleteStep, DeleteFile, DeleteVectors, DeleteRow, DeleteAborts,
     TruncateStart, TruncateStep, TruncateFiles, TruncateVectors, TruncateRows, Documents
<1>6. ASSUME \/ MaintenanceOn \/ MaintenanceOff \/ UNCHANGED vars
             \/ \E m \in Deliveries : Renew(m)
             \/ \E id \in leases : LeaseExpires(id)
      PROVE  UNCHANGED <<sub, doc>>
  BY <1>6 DEF MaintenanceOn, MaintenanceOff, Renew, LeaseExpires, vars, api
<1>7. ASSUME NEW r \in Recoverers, RecoverList(r) \/ RecoverStep(r) \/ RecoverCrash(r)
      PROVE  UNCHANGED sub /\ (doc[d].status # "none" => doc'[d].status # "none")
  <2>1. CASE RecoverMark(r)
    BY <1>1, <2>1 DEF RecoverMark, Documents, api
  <2>2. CASE RecoverList(r) \/ RecoverTake(r) \/ RecoverSend(r) \/ RecoverCrash(r)
    BY <2>2 DEF RecoverList, RecoverTake, RecoverSend, RecoverCrash, api
  <2>. QED
    BY <1>7, <2>1, <2>2 DEF RecoverStep
<1>. QED
  BY <1>2, <1>3, <1>4, <1>5, <1>6, <1>7
     DEF Next, ApiChoice, SubmitStep, DeleteStep, Quiet, Resyncing

(* Epochs only grow, and do when a document starts to die.                 *)
LEMMA EpochStep ==
  ASSUME Typed, [Next]_vars, NEW d \in Docs
  PROVE  /\ epoch[d] \in Nat /\ epoch'[d] \in Nat /\ cepoch \in Nat /\ cepoch' \in Nat
         /\ epoch'[d] >= epoch[d] /\ cepoch' >= cepoch
         /\ Dying(d)' => Dying(d) \/ epoch'[d] > epoch[d] \/ cepoch' > cepoch
<1>. DEFINE Goal == /\ epoch'[d] >= epoch[d] /\ cepoch' >= cepoch
                    /\ Dying(d)' => Dying(d) \/ epoch'[d] > epoch[d] \/ cepoch' > cepoch
<1>1. /\ epoch \in [Docs -> Nat] /\ cepoch \in Nat
      /\ MsgsOK /\ DocsOK /\ doc \in [Docs -> Documents] /\ ApiOK
  BY DEF Typed, EpochsOK, DocsOK
<1>2. epoch' \in [Docs -> Nat] /\ cepoch' \in Nat
  BY OthersStep DEF EpochsOK
<1>3. ASSUME UNCHANGED <<epoch, cepoch>>, Dying(d)' => Dying(d) PROVE Goal
  BY <1>1, <1>3
<1>4. ASSUME NEW m \in Deliveries, WorkerStep(m) \/ WorkerFault(m) \/ Crash(m) PROVE Goal
  <2>1. UNCHANGED <<epoch, cepoch, del, tr>>
    BY <1>4 DEF WorkerStep, WorkerFault, Crash, Defer, DeferSend, Receive, SetLease,
         CheckBegin, Mark, Stage, Check, Insert, Recheck, Purge, Commit,
         OkFile, OkRelease, FinVectors, FinStatus, FinFile, FinRelease,
         RetryRelease, RetryAdmit, RetrySend, RetryStatus, Unlease,
         Fail, FailInsert, FailFinalize, RetrySendFails, Abort, epochs, api
  <2>2. doc'[d].status = "gone" => doc[d].status = "gone"
    BY <1>1, <1>4, WorkerDoc DEF Documents, Statuses
  <2>. QED
    BY <1>3, <2>1, <2>2 DEF Dying
<1>5. ASSUME NEW e \in Docs, \/ Upload(e) \/ ResyncVectors(e) \/ ResyncPut(e) \/ ResyncRow(e)
                             \/ ResyncAborts(e) \/ EnqueueRead(e) \/ EnqueueAdmit(e)
                             \/ EnqueueSend(e) \/ EnqueueSendFails(e) \/ Refused(e)
      PROVE Goal
  <2>1. UNCHANGED <<epoch, cepoch, del, tr>>
    BY <1>5 DEF Upload, ResyncVectors, ResyncPut, ResyncRow, ResyncAborts, EnqueueRead,
         EnqueueAdmit, EnqueueSend, EnqueueSendFails, Refused, epochs
  <2>2. doc'[d].status = "gone" => doc[d].status = "gone"
    BY <1>1, <1>5 DEF Upload, ResyncVectors, ResyncPut, ResyncRow, ResyncAborts, EnqueueRead,
         EnqueueAdmit, EnqueueSend, EnqueueSendFails, Refused, Documents
  <2>. QED
    BY <1>3, <2>1, <2>2 DEF Dying
<1>6. ASSUME NEW e \in Docs, ResyncStart(e) \/ DeleteStart(e) PROVE Goal
  BY <1>1, <1>6 DEF ResyncStart, DeleteStart, Dying, ApiOK
<1>7. ASSUME NEW e \in Docs, DeleteStep(e) \/ DeleteAborts(e) PROVE Goal
  BY <1>1, <1>7 DEF DeleteStep, DeleteFile, DeleteVectors, DeleteRow, DeleteAborts, epochs,
                    Dying, ApiOK, Documents
<1>8. CASE TruncateStart
  BY <1>1, <1>8 DEF TruncateStart
<1>9. CASE TruncateStep
  BY <1>1, <1>9 DEF TruncateStep, TruncateFiles, TruncateVectors, TruncateRows, epochs, Dying,
                    Documents
<1>10. ASSUME \/ MaintenanceOn \/ MaintenanceOff \/ UNCHANGED vars
              \/ \E m \in Deliveries : Renew(m)
              \/ \E id \in leases : LeaseExpires(id)
       PROVE Goal
  <2>1. UNCHANGED <<doc, epoch, cepoch, del, tr>>
    BY <1>10 DEF MaintenanceOn, MaintenanceOff, Renew, LeaseExpires, vars, epochs, api
  <2>. QED
    BY <1>3, <2>1 DEF Dying
<1>11. ASSUME NEW r \in Recoverers, RecoverList(r) \/ RecoverStep(r) \/ RecoverCrash(r)
       PROVE Goal
  <2>1. UNCHANGED <<epoch, cepoch, del, tr>>
    BY <1>11 DEF RecoverList, RecoverStep, RecoverTake, RecoverMark, RecoverSend,
                 RecoverCrash, epochs, api
  <2>2. doc'[d].status = "gone" => doc[d].status = "gone"
    <3>1. CASE RecoverMark(r)
      BY <1>1, <3>1 DEF RecoverMark, Documents
    <3>2. CASE RecoverList(r) \/ RecoverTake(r) \/ RecoverSend(r) \/ RecoverCrash(r)
      BY <3>2 DEF RecoverList, RecoverTake, RecoverSend, RecoverCrash
    <3>. QED
      BY <1>11, <3>1, <3>2 DEF RecoverStep
  <2>. QED
    BY <1>3, <2>1, <2>2 DEF Dying
<1>12. Goal
  BY <1>4, <1>5, <1>6, <1>7, <1>8, <1>9, <1>10, <1>11
     DEF Next, ApiChoice, SubmitStep, DeleteStep, Quiet
<1>. QED
  BY <1>1, <1>2, <1>12

(* A cancelled job stays so, and its copies and retries are cancelled too. *)
LEMMA StaysDue ==
  ASSUME Typed, Uploaded, [Next]_vars PROVE Due \subseteq Due'
<1>. SUFFICES ASSUME NEW j \in Due PROVE j \in Due'
  OBVIOUS
<1>1. j.doc \in Docs /\ j.epoch \in Nat /\ j.cepoch \in Nat
  BY DEF Due, Jobs
<1>2. /\ epoch[j.doc] \in Nat /\ epoch'[j.doc] \in Nat /\ cepoch \in Nat /\ cepoch' \in Nat
      /\ epoch'[j.doc] >= epoch[j.doc] /\ cepoch' >= cepoch
      /\ Dying(j.doc)' => Dying(j.doc) \/ epoch'[j.doc] > epoch[j.doc] \/ cepoch' > cepoch
  BY <1>1, EpochStep
<1>3. /\ Resyncing(j.doc)' => Resyncing(j.doc) \/ epoch'[j.doc] > epoch[j.doc]
      /\ doc[j.doc].status # "none" => doc'[j.doc].status # "none"
  BY <1>1, ResyncStep
<1>. QED
  BY <1>1, <1>2, <1>3 DEF Due, Stale

LEMMA CopiesDue ==
  ASSUME NEW j \in Due,
         NEW k \in Jobs \cap {Raw(j), NextTry(j), [j EXCEPT !.released = TRUE]}
  PROVE  k \in Due
<1>1. k.doc = j.doc /\ k.epoch = j.epoch /\ k.cepoch = j.cepoch
  BY DEF Due, Jobs, Raw, NextTry
<1>. QED
  BY <1>1 DEF Due, Stale

(* The submission of a document that is not dying is not cancelled.        *)
LEMMA SubmittedJobs ==
  ASSUME Typed, Uploaded, NoSubmission, [Next]_vars, NEW d \in Docs,
         sub'[d].at \in {"admit", "send"}
  PROVE  \/ sub[d].at \in {"admit", "send"} /\ sub'[d].job = sub[d].job
         \/ /\ ~Dying(d) /\ ~Resyncing(d) /\ doc[d].status # "none"
            /\ sub'[d].job.doc = d /\ sub'[d].job.epoch = epoch[d] /\ sub'[d].job.cepoch = cepoch
<1>. DEFINE Goal == \/ sub[d].at \in {"admit", "send"} /\ sub'[d].job = sub[d].job
                    \/ /\ ~Dying(d) /\ ~Resyncing(d) /\ doc[d].status # "none"
                       /\ sub'[d].job.doc = d /\ sub'[d].job.epoch = epoch[d]
                       /\ sub'[d].job.cepoch = cepoch
<1>1. sub \in [Docs -> AllSubmissions]
  BY DEF Typed, SubsOK
<1>2. CASE UNCHANGED sub
  BY <1>2
<1>3. ASSUME NEW e \in Docs, \/ Upload(e) \/ ResyncStart(e) \/ ResyncVectors(e) \/ ResyncPut(e)
                             \/ ResyncRow(e) \/ ResyncAborts(e) \/ EnqueueAdmit(e)
                             \/ EnqueueSend(e) \/ EnqueueSendFails(e) \/ Refused(e)
      PROVE Goal
  BY <1>1, <1>3 DEF Upload, ResyncStart, ResyncVectors, ResyncPut, ResyncRow, ResyncAborts,
     EnqueueAdmit, EnqueueSend, EnqueueSendFails, Refused, Submit, AllSubmissions
<1>4. ASSUME NEW e \in Docs, EnqueueRead(e) PROVE Goal
  <2>1. ~Dying(e) /\ ~Resyncing(e) /\ doc[e].status # "none"
    BY <1>4 DEF EnqueueRead, NoSubmission, Resyncing, Uploaded
  <2>2. CASE e = d
    BY <1>1, <1>4, <2>1, <2>2 DEF EnqueueRead, Submit, AllSubmissions
  <2>3. CASE e # d
    BY <1>1, <1>4, <2>3 DEF EnqueueRead, Submit
  <2>. QED
    BY <2>2, <2>3
<1>5. ASSUME NEW m \in Deliveries, WorkerStep(m) \/ WorkerFault(m) \/ Crash(m)
      PROVE UNCHANGED sub
  BY <1>5 DEF WorkerStep, WorkerFault, Crash, Defer, DeferSend, Receive,
     SetLease, CheckBegin, Mark, Stage, Check, Insert, Recheck, Purge, Commit,
     OkFile, OkRelease, FinVectors, FinStatus, FinFile, FinRelease,
     RetryRelease, RetryAdmit, RetrySend, RetryStatus, Unlease,
     Fail, FailInsert, FailFinalize, RetrySendFails, Abort, api
<1>6. ASSUME \/ \E e \in Docs : DeleteStart(e) \/ DeleteStep(e) \/ DeleteAborts(e)
             \/ TruncateStart \/ TruncateStep \/ MaintenanceOn \/ MaintenanceOff
      PROVE UNCHANGED sub
  BY <1>6 DEF DeleteStart, DeleteStep, DeleteFile, DeleteVectors, DeleteRow, DeleteAborts,
     TruncateStart, TruncateStep, TruncateFiles, TruncateVectors, TruncateRows,
     MaintenanceOn, MaintenanceOff
<1>7. ASSUME \/ UNCHANGED vars
             \/ \E m \in Deliveries : Renew(m)
             \/ \E id \in leases : LeaseExpires(id)
             \/ \E r \in Recoverers : RecoverList(r) \/ RecoverStep(r) \/ RecoverCrash(r)
      PROVE UNCHANGED sub
  BY <1>7 DEF Renew, LeaseExpires, RecoverStep, RecoverList, RecoverTake, RecoverMark,
     RecoverSend, RecoverCrash, vars, api
<1>. QED
  BY <1>2, <1>3, <1>4, <1>5, <1>6, <1>7 DEF Next, ApiChoice, SubmitStep, DeleteStep, Quiet

LEMMA CancelledStep ==
  ASSUME CancelInv, [Next]_vars PROVE JobsCancelled'
<1>1. /\ MsgsOK /\ DocsOK /\ SubsOK /\ BagsOK /\ msg \in [Deliveries -> Messages]
      /\ Typed /\ Uploaded /\ NoSubmission /\ JobsCancelled
  BY DEF CancelInv, Typed, MsgsOK
<1>2. Due \subseteq Due'
  BY <1>1, StaysDue
<1>3. BagToSet(processing') \subseteq Due'
  <2>. SUFFICES ASSUME NEW j \in BagToSet(processing') PROVE j \in Due'
    OBVIOUS
  <2>1. CASE j \in BagToSet(processing)
    BY <1>1, <1>2, <2>1 DEF JobsCancelled
  <2>2. CASE \E m \in Deliveries : msg[m].at # "free" /\ j = Raw(Job(m))
    <3>1. j \in Jobs
      BY <1>1, BagsStep DEF BagsOK, JobBag
    <3>. QED
      BY <1>1, <1>2, <2>2, <3>1, CopiesDue DEF JobsCancelled, Job
  <2>. QED
    BY <1>1, <2>1, <2>2, BagsStep
<1>4. \A r \in Recoverers : BagToSet(rec'[r].jobs) \subseteq Due'
  BY <1>1, <1>2, BagsStep DEF JobsCancelled
<1>5. ASSUME NEW d \in Docs, sub'[d].at \in {"admit", "send"} PROVE sub'[d].job \in Due'
  <2>1. CASE sub[d].at \in {"admit", "send"} /\ sub'[d].job = sub[d].job
    BY <1>1, <1>2, <2>1 DEF JobsCancelled
  <2>2. CASE /\ ~Dying(d) /\ ~Resyncing(d) /\ doc[d].status # "none"
             /\ sub'[d].job.doc = d /\ sub'[d].job.epoch = epoch[d]
             /\ sub'[d].job.cepoch = cepoch
    <3>1. sub'[d].job \in Jobs
      BY <1>1, <1>5, SubsStep DEF SubsOK, Submissions
    <3>2. epoch[d] \in Nat /\ cepoch \in Nat
      BY <1>1, EpochStep
    <3>3. sub'[d].job \in Due
      BY <2>2, <3>1, <3>2 DEF Due
    <3>. QED
      BY <1>2, <3>3
  <2>. QED
    BY <1>1, <1>5, <2>1, <2>2, SubmittedJobs
<1>. DEFINE MsgsDue == \A m \in Deliveries : msg'[m].at # "free" => msg'[m].job \in Due'
<1>6. CASE Elsewhere
  <2>1. MsgsDue
    BY <1>1, <1>2, <1>6, ElsewhereMsg DEF JobsCancelled
  <2>. QED
    BY <1>1, <1>3, <1>4, <1>5, <2>1 DEF JobsCancelled
<1>7. ASSUME NEW j \in Due, Sends(j) PROVE MsgsDue
  BY <1>1, <1>2, <1>7, FreeOne, MessageOK DEF Sends, JobsCancelled
<1>8. ASSUME NEW k \in Deliveries, WorkerStep(k) \/ WorkerFault(k) \/ Crash(k), Moves(k)
      PROVE MsgsDue
  <2>1. PICK r \in Messages : msg' = [msg EXCEPT ![k] = r] /\ Follows(k, r)
    BY <1>8 DEF Moves
  <2>2. Job(k) \in Due
    BY <1>1, <1>8, WorkerBusy DEF JobsCancelled, Job
  <2>3. r.at # "free" => r.job \in Due
    <3>1. r.at # "free" => r.job \in Jobs
      BY DEF Messages
    <3>. QED
      BY <2>1, <2>2, <3>1, CopiesDue DEF Follows
  <2>. QED
    BY <1>1, <1>2, <2>1, <2>3 DEF JobsCancelled
<1>9. ASSUME NEW k \in Deliveries, Resends(k) PROVE MsgsDue
  <2>. DEFINE f == AnyFree
              s == Message("queued", NextTry(Job(k)))
  <2>1. msg[k].at # "free" /\ f \in Deliveries /\ NextTry(Job(k)) \in Jobs
    BY <1>9, FreeOne DEF Resends, RetrySend
  <2>2. s.job \in Due
    BY <1>1, <2>1, CopiesDue, MessageOK DEF JobsCancelled, Job
  <2>3. \A m \in Deliveries : m # f => msg'[m].job = msg[m].job
                                       /\ (msg'[m].at # "free" => msg[m].at # "free")
    BY <1>1, <1>9 DEF Resends, RetrySend, Messages
  <2>4. msg'[f] = s
    BY <1>1, <1>9, <2>1 DEF Resends, RetrySend, NextTry
  <2>. HIDE DEF f, s
  <2>. QED
    BY <1>1, <1>2, <2>2, <2>3, <2>4 DEF JobsCancelled
<1>10. ASSUME NEW d \in Docs, EnqueueSend(d) PROVE MsgsDue
  BY <1>1, <1>7, <1>10, SendMsg DEF EnqueueSend, JobsCancelled
<1>11. ASSUME NEW r \in Recoverers, RecoverSend(r) PROVE MsgsDue
  BY <1>1, <1>7, <1>11, SendMsg DEF JobsCancelled
<1>12. CASE MsgsDue
  BY <1>1, <1>3, <1>4, <1>5, <1>12 DEF JobsCancelled
<1>. QED
  BY <1>1, <1>6, <1>8, <1>9, <1>10, <1>11, <1>12, StepKinds, WorkerMsg

(* Deletions and submissions exclude each other, and a row that is gone    *)
(* does not come back.                                                     *)
LEMMA NoSubmissionStep ==
  ASSUME Typed, ~OverlapAdmin, NoSubmission, [Next]_vars PROVE NoSubmission'
<1>1. /\ MsgsOK /\ DocsOK /\ ApiOK /\ doc \in [Docs -> Documents]
      /\ sub \in [Docs -> AllSubmissions]
  BY DEF Typed, DocsOK, SubsOK
<1>2. ASSUME UNCHANGED sub, \A d \in Docs : Dying(d)' => Dying(d) PROVE NoSubmission'
  BY <1>2 DEF NoSubmission
<1>3. ASSUME NEW m \in Deliveries, WorkerStep(m) \/ WorkerFault(m) \/ Crash(m)
      PROVE NoSubmission'
  <2>1. UNCHANGED <<sub, del, tr>>
    BY <1>3 DEF WorkerStep, WorkerFault, Crash, Defer, DeferSend, Receive, SetLease,
         CheckBegin, Mark, Stage, Check, Insert, Recheck, Purge, Commit,
         OkFile, OkRelease, FinVectors, FinStatus, FinFile, FinRelease,
         RetryRelease, RetryAdmit, RetrySend, RetryStatus, Unlease,
         Fail, FailInsert, FailFinalize, RetrySendFails, Abort, api
  <2>2. \A d \in Docs : doc'[d].status = "gone" => doc[d].status = "gone"
    BY <1>1, <1>3, WorkerDoc DEF Documents, Statuses
  <2>. QED
    BY <1>2, <2>1, <2>2 DEF Dying
<1>4. ASSUME NEW e \in Docs, ~Dying(e), UNCHANGED <<del, tr>>,
             \A d \in Docs : doc'[d].status = "gone" => doc[d].status = "gone",
             \A d \in Docs : d # e => sub'[d] = sub[d]
      PROVE NoSubmission'
  BY <1>4 DEF NoSubmission, Dying
<1>5. ASSUME NEW e \in Docs, Upload(e) \/ ResyncStart(e) PROVE NoSubmission'
  <2>1. ~Dying(e) /\ UNCHANGED <<del, tr>>
    BY <1>5 DEF Upload, ResyncStart, NotDeleting, Dying, Exists, Statuses
  <2>2. /\ \A d \in Docs : doc'[d].status = "gone" => doc[d].status = "gone"
        /\ \A d \in Docs : d # e => sub'[d] = sub[d]
    BY <1>1, <1>5 DEF Upload, ResyncStart, Submit
  <2>. QED
    BY <1>4, <2>1, <2>2
<1>6. ASSUME NEW e \in Docs, \/ ResyncVectors(e) \/ ResyncPut(e) \/ ResyncRow(e)
                             \/ ResyncAborts(e) \/ EnqueueRead(e) \/ EnqueueAdmit(e)
                             \/ EnqueueSend(e) \/ EnqueueSendFails(e) \/ Refused(e)
      PROVE NoSubmission'
  <2>1. sub[e].at # "idle" /\ UNCHANGED <<del, tr>>
    BY <1>6 DEF ResyncVectors, ResyncPut, ResyncRow, ResyncAborts, EnqueueRead, EnqueueAdmit,
         EnqueueSend, EnqueueSendFails, Refused
  <2>2. ~Dying(e)
    BY <2>1 DEF NoSubmission
  <2>3. \A d \in Docs : doc'[d].status = "gone" => doc[d].status = "gone"
    BY <1>1, <1>6 DEF ResyncVectors, ResyncPut, ResyncRow, ResyncAborts, EnqueueRead,
         EnqueueAdmit, EnqueueSend, EnqueueSendFails, Refused, Documents
  <2>4. \A d \in Docs : d # e => sub'[d] = sub[d]
    BY <1>1, <1>6 DEF ResyncVectors, ResyncPut, ResyncRow, ResyncAborts, EnqueueRead,
         EnqueueAdmit, EnqueueSend, EnqueueSendFails, Refused, Submit
  <2>. QED
    BY <1>4, <2>1, <2>2, <2>3, <2>4
<1>7. ASSUME NEW e \in Docs, DeleteStart(e) PROVE NoSubmission'
  BY <1>1, <1>7 DEF DeleteStart, NotSubmitting, NoSubmission, Dying, ApiOK
<1>8. ASSUME NEW e \in Docs, DeleteStep(e) \/ DeleteAborts(e) PROVE NoSubmission'
  <2>1. UNCHANGED sub
    BY <1>8 DEF DeleteStep, DeleteFile, DeleteVectors, DeleteRow, DeleteAborts
  <2>2. ASSUME NEW d \in Docs, Dying(d)' PROVE Dying(d)
    BY <1>1, <1>8, <2>2 DEF DeleteStep, DeleteFile, DeleteVectors, DeleteRow, DeleteAborts,
                            Dying, ApiOK, Documents
  <2>. QED
    BY <1>2, <2>1, <2>2
<1>9. CASE TruncateStart
  BY <1>9 DEF TruncateStart, NotSubmitting, NoSubmission
<1>10. CASE TruncateStep
  <2>1. UNCHANGED sub /\ \A d \in Docs : Dying(d)
    BY <1>10 DEF TruncateStep, TruncateFiles, TruncateVectors, TruncateRows, Dying
  <2>. QED
    BY <1>2, <2>1
<1>11. ASSUME \/ MaintenanceOn \/ MaintenanceOff \/ UNCHANGED vars
              \/ \E m \in Deliveries : Renew(m)
              \/ \E id \in leases : LeaseExpires(id)
       PROVE NoSubmission'
  <2>1. UNCHANGED <<doc, sub, del, tr>>
    BY <1>11 DEF MaintenanceOn, MaintenanceOff, Renew, LeaseExpires, vars, api
  <2>. QED
    BY <1>2, <2>1 DEF Dying
<1>12. ASSUME NEW r \in Recoverers, RecoverList(r) \/ RecoverStep(r) \/ RecoverCrash(r)
       PROVE NoSubmission'
  <2>1. UNCHANGED <<sub, del, tr>>
    BY <1>12 DEF RecoverList, RecoverStep, RecoverTake, RecoverMark, RecoverSend,
                 RecoverCrash, api
  <2>2. \A d \in Docs : doc'[d].status = "gone" => doc[d].status = "gone"
    <3>1. CASE RecoverMark(r)
      BY <1>1, <3>1 DEF RecoverMark, Documents
    <3>2. CASE RecoverList(r) \/ RecoverTake(r) \/ RecoverSend(r) \/ RecoverCrash(r)
      BY <3>2 DEF RecoverList, RecoverTake, RecoverSend, RecoverCrash
    <3>. QED
      BY <1>12, <3>1, <3>2 DEF RecoverStep
  <2>. QED
    BY <1>2, <2>1, <2>2 DEF Dying
<1>. QED
  BY <1>3, <1>5, <1>6, <1>7, <1>8, <1>9, <1>10, <1>11, <1>12
     DEF Next, ApiChoice, SubmitStep, DeleteStep, Quiet

(* A cancelled job stays where its cleaning lies ahead until it cleaned.   *)
LEMMA CleansUp ==
  ASSUME Typed, "abort" \notin Faults, NEW m \in Deliveries, Stale(Job(m)),
         WorkerStep(m) \/ WorkerFault(m) \/ Crash(m),
         ~Purge(m), ~FinVectors(m), msg[m].at \in Cleaning
  PROVE  msg'[m].at \in Cleaning
<1>1. CASE Defer(m) \/ DeferSend(m) \/ Receive(m) \/ SetLease(m) \/ Crash(m)
  BY <1>1, AtAfter DEF Defer, DeferSend, Receive, SetLease, Crash, Cleaning
<1>2. CASE CheckBegin(m) \/ Mark(m) \/ Stage(m)
  BY <1>2, AtAfter DEF CheckBegin, Mark, Stage, Cleaning
<1>3. CASE Check(m) \/ Insert(m) \/ Recheck(m)
  BY <1>3, AtAfter DEF Check, Insert, Recheck, Cleaning
<1>4. CASE \E why \in {"transient", "permanent"} : Fail(m, why) \/ FailInsert(m, why)
  BY <1>4, AtAfter DEF Fail, FailInsert, Cleaning
<1>5. ~Abort(m)
  BY DEF Abort
<1>6. ~(\/ Commit(m) \/ OkFile(m) \/ OkRelease(m) \/ FinStatus(m) \/ FinFile(m) \/ FinRelease(m)
        \/ RetryRelease(m) \/ RetryAdmit(m) \/ RetrySend(m) \/ RetryStatus(m) \/ Unlease(m)
        \/ FailFinalize(m) \/ RetrySendFails(m))
  BY DEF Cleaning, Commit, OkFile, OkRelease, FinStatus, FinFile, FinRelease,
         RetryRelease, RetryAdmit, RetrySend, RetryStatus, Unlease, FailFinalize,
         RetrySendFails
<1>. QED
  BY <1>1, <1>2, <1>3, <1>4, <1>5, <1>6 DEF WorkerStep, WorkerFault

LEMMA OrphansStep ==
  ASSUME NoOrphanInv, ~OverlapAdmin, Faults \cap {"cleanup", "abort"} = {}, [Next]_vars
  PROVE  OrphansCleaned'
<1>. DEFINE Cleaner(d) == \E m \in Deliveries : msg'[m].at \in Cleaning /\ msg'[m].job.doc = d
<1>. SUFFICES ASSUME NEW d \in Docs, Swept(d)', doc'[d].vectors # 0 PROVE Cleaner(d)
  BY DEF OrphansCleaned, Doc, Job
<1>1. /\ MsgsOK /\ DocsOK /\ ApiOK /\ SubsOK /\ BagsOK
      /\ doc \in [Docs -> Documents] /\ msg \in [Deliveries -> Messages]
      /\ "free" \notin Cleaning /\ "queued" \in Cleaning
  BY DEF NoOrphanInv, CancelInv, Typed, DocsOK, MsgsOK, Cleaning
<1>2. Swept(d) /\ doc[d].vectors # 0 =>
        \E m \in Deliveries : msg[m].at \in Cleaning /\ Doc(m) = d
  BY DEF NoOrphanInv, OrphansCleaned
<1>3. ASSUME NEW m \in Deliveries, WorkerStep(m) \/ WorkerFault(m) \/ Crash(m)
      PROVE Cleaner(d)
  <2>1. /\ Doc(m) \in Docs /\ Job(m) \in Jobs /\ Job(m) \in Due /\ msg[m].at # "free"
    BY <1>1, <1>3, WorkerBusy, WorkerDoc DEF NoOrphanInv, CancelInv, JobsCancelled, Job
  <2>2. UNCHANGED <<del, tr>>
    BY <1>3 DEF WorkerStep, WorkerFault, Crash, Defer, DeferSend, Receive, SetLease,
         CheckBegin, Mark, Stage, Check, Insert, Recheck, Purge, Commit,
         OkFile, OkRelease, FinVectors, FinStatus, FinFile, FinRelease,
         RetryRelease, RetryAdmit, RetrySend, RetryStatus, Unlease,
         Fail, FailInsert, FailFinalize, RetrySendFails, Abort, api
  <2>3. Swept(d)
    <3>1. doc'[d].status = "gone" => doc[d].status = "gone"
      BY <1>1, <1>3, WorkerDoc DEF Documents, Statuses
    <3>. QED
      BY <2>2, <3>1 DEF Swept
  <2>4. \A n \in Deliveries : n # m /\ msg[n].at # "free" => msg'[n] = msg[n]
    <3>1. CASE Moves(m)
      BY <1>1, <3>1 DEF Moves
    <3>2. CASE Resends(m)
      BY <1>1, <3>2, FreeOne DEF Resends, RetrySend
    <3>. QED
      BY <1>1, <1>3, <3>1, <3>2, WorkerMsg
  <2>5. ASSUME NEW n \in Deliveries, n # m, msg[n].at \in Cleaning, Doc(n) = d PROVE Cleaner(d)
    BY <1>1, <2>4, <2>5 DEF Doc, Job
  <2>6. CASE Doc(m) # d
    <3>1. doc'[d] = doc[d]
      BY <1>1, <1>3, <2>6, WorkerDoc
    <3>. QED
      BY <1>2, <2>3, <2>5, <2>6, <3>1
  <2>7. CASE Doc(m) = d
    <3>1. Stale(Job(m))
      BY <2>1, <2>3, <2>7 DEF Due, Swept, Dying, Doc
    <3>2. msg'[m].at # "free" => msg'[m].job.doc = d
      <4>1. CASE Moves(m)
        BY <1>1, <2>1, <2>7, <4>1 DEF Moves, Follows, Doc, Jobs
      <4>2. CASE Resends(m)
        BY <1>1, <2>1, <2>7, <4>2, FreeOne DEF Resends, RetrySend, Doc, Job, Messages
      <4>. QED
        BY <1>1, <1>3, <4>1, <4>2, WorkerMsg
    <3>3. ~(Purge(m) \/ FinVectors(m))
      <4>1. SUFFICES ASSUME Purge(m) \/ FinVectors(m) PROVE doc'[d].vectors = 0
        OBVIOUS
      <4>2. doc' = [doc EXCEPT ![d].vectors = 0]
        BY <2>7, <4>1 DEF Purge, FinVectors, DropVectors, Fault
      <4>. QED
        BY <1>1, <4>2 DEF Documents
    <3>4. ASSUME msg[m].at \in Cleaning PROVE Cleaner(d)
      BY <1>1, <1>3, <3>1, <3>2, <3>3, <3>4, CleansUp DEF NoOrphanInv, CancelInv, Typed
    <3>5. CASE Insert(m) \/ \E why \in {"transient", "permanent"} : FailInsert(m, why)
      BY <3>4, <3>5 DEF Insert, FailInsert, Cleaning
    <3>6. CASE ~(Insert(m) \/ \E why \in {"transient", "permanent"} : FailInsert(m, why))
      <4>1. doc'[d].vectors = doc[d].vectors
        BY <1>1, <1>3, <3>3, <3>6 DEF Documents, WorkerStep, WorkerFault, Crash, Defer, DeferSend,
           Receive, SetLease, CheckBegin, Mark, Stage, Check, Recheck, Commit,
           OkFile, OkRelease, FinStatus, FinFile, FinRelease,
           RetryRelease, RetryAdmit, RetrySend, RetryStatus, Unlease, ClearFile, SetStatus,
           Fail, FailFinalize, RetrySendFails, Abort
      <4>2. PICK n \in Deliveries : msg[n].at \in Cleaning /\ Doc(n) = d
        BY <1>2, <2>3, <4>1
      <4>. QED
        BY <2>5, <3>4, <4>2
    <3>. QED
      BY <3>5, <3>6
  <2>. QED
    BY <2>6, <2>7
<1>. DEFINE Keeps == Swept(d) /\ doc[d].vectors = doc'[d].vectors
<1>4. ASSUME Keeps, UNCHANGED msg PROVE Cleaner(d)
  BY <1>2, <1>4 DEF Doc, Job
<1>5. ASSUME Keeps, NEW j, Sends(j) PROVE Cleaner(d)
  <2>1. PICK n \in Deliveries : msg[n].at \in Cleaning /\ Doc(n) = d
    BY <1>2, <1>5
  <2>2. msg'[n] = msg[n]
    BY <1>1, <1>5, <2>1, FreeOne DEF Sends
  <2>. QED
    BY <2>1, <2>2 DEF Doc, Job
<1>6. ASSUME NEW e \in Docs, Upload(e) PROVE Keeps
  BY <1>1, <1>6 DEF Upload, NotDeleting, Swept, Documents
<1>7. ASSUME NEW e \in Docs, \/ ResyncStart(e) \/ ResyncVectors(e) \/ ResyncPut(e)
                             \/ ResyncRow(e) \/ ResyncAborts(e) \/ EnqueueRead(e)
                             \/ EnqueueAdmit(e) \/ EnqueueSend(e) \/ EnqueueSendFails(e)
                             \/ Refused(e)
      PROVE Keeps
  <2>1. UNCHANGED <<del, tr>>
    BY <1>7 DEF ResyncStart, ResyncVectors, ResyncPut, ResyncRow, ResyncAborts, EnqueueRead,
         EnqueueAdmit, EnqueueSend, EnqueueSendFails, Refused
  <2>2. /\ doc'[d].status = "gone" => doc[d].status = "gone"
        /\ doc[d].vectors = doc'[d].vectors
    BY <1>1, <1>7 DEF ResyncStart, ResyncVectors, ResyncPut, ResyncRow, ResyncAborts,
         EnqueueRead, EnqueueAdmit, EnqueueSend, EnqueueSendFails, Refused, Documents
  <2>. QED
    BY <2>1, <2>2 DEF Swept
<1>8. ASSUME NEW e \in Docs, DeleteStart(e) \/ DeleteStep(e) \/ DeleteAborts(e) PROVE Keeps
  BY <1>1, <1>8 DEF DeleteStart, DeleteStep, DeleteFile, DeleteVectors, DeleteRow, DeleteAborts,
                    Swept, ApiOK, Documents
<1>9. CASE TruncateStep
  <2>1. ~TruncateVectors
    BY <1>1 DEF TruncateVectors, Documents
  <2>2. ASSUME TruncateFiles PROVE Keeps
    BY <1>1, <2>2 DEF TruncateFiles, Swept, Documents
  <2>4. ASSUME TruncateRows PROVE Keeps
    <3>1. Swept(d)
      BY <2>4 DEF TruncateRows, Swept
    <3>2. doc[d].vectors = doc'[d].vectors
      BY <1>1, <2>4 DEF TruncateRows, Documents
    <3>. QED
      BY <3>1, <3>2
  <2>3. UNCHANGED msg
    BY <1>9, ElsewhereMsg DEF Elsewhere
  <2>. QED
    BY <1>4, <1>9, <2>1, <2>2, <2>3, <2>4 DEF TruncateStep
<1>10. ASSUME \/ TruncateStart \/ MaintenanceOn \/ MaintenanceOff \/ UNCHANGED vars
              \/ \E m \in Deliveries : Renew(m)
              \/ \E id \in leases : LeaseExpires(id)
       PROVE Keeps
  BY <1>1, <1>10 DEF TruncateStart, MaintenanceOn, MaintenanceOff, Renew, LeaseExpires, vars, api,
                     Swept
<1>11. ASSUME NEW r \in Recoverers, RecoverList(r) \/ RecoverStep(r) \/ RecoverCrash(r)
       PROVE Keeps
  <2>1. UNCHANGED <<del, tr>>
    BY <1>11 DEF RecoverList, RecoverStep, RecoverTake, RecoverMark, RecoverSend,
                 RecoverCrash, api
  <2>2. /\ doc'[d].status = "gone" => doc[d].status = "gone"
        /\ doc[d].vectors = doc'[d].vectors
    <3>1. CASE RecoverMark(r)
      BY <1>1, <3>1 DEF RecoverMark, Documents
    <3>2. CASE RecoverList(r) \/ RecoverTake(r) \/ RecoverSend(r) \/ RecoverCrash(r)
      BY <3>2 DEF RecoverList, RecoverTake, RecoverSend, RecoverCrash
    <3>. QED
      BY <1>11, <3>1, <3>2 DEF RecoverStep
  <2>. QED
    BY <2>1, <2>2 DEF Swept
<1>12. CASE \/ \E e \in Docs : EnqueueSend(e)
            \/ \E r \in Recoverers : RecoverSend(r)
  <2>1. Keeps
    BY <1>7, <1>11, <1>12 DEF RecoverStep
  <2>2. \E j : Sends(j)
    BY <1>1, <1>12, SendMsg
  <2>. QED
    BY <1>5, <2>1, <2>2
<1>13. CASE Elsewhere
  <2>1. Keeps \/ TruncateStep
    BY <1>6, <1>7, <1>8, <1>10, <1>11, <1>13 DEF Elsewhere, RecoverStep
  <2>. QED
    BY <1>4, <1>9, <1>13, <2>1, ElsewhereMsg
<1>. QED
  BY <1>3, <1>12, <1>13, StepKinds

LEMMA CancelInvariant ==
  ASSUME ~OverlapAdmin PROVE Spec => []CancelInv
<1>1. Init => CancelInv
  <2>. SUFFICES ASSUME Init PROVE CancelInv
    OBVIOUS
  <2>1. JobsCancelled
    BY FreeMessageOK, BagNone DEF Init, JobsCancelled
  <2>2. NoSubmission /\ Uploaded
    BY DEF Init, NoSubmission, Uploaded
  <2>. QED
    BY <2>1, <2>2, InitTyped DEF CancelInv
<1>2. CancelInv /\ [Next]_vars => CancelInv'
  BY TypedStep, UploadedStep, CancelledStep, NoSubmissionStep DEF CancelInv
<1>. QED
  BY <1>1, <1>2, PTL DEF Spec

LEMMA NoOrphanInvariant ==
  ASSUME ~OverlapAdmin, Faults \cap {"cleanup", "abort"} = {} PROVE Spec => []NoOrphanInv
<1>1. Init => OrphansCleaned
  BY DEF Init, OrphansCleaned
<1>2. CancelInv /\ OrphansCleaned /\ [Next]_vars => OrphansCleaned'
  BY OrphansStep DEF NoOrphanInv
<1>3. Spec => []CancelInv
  BY CancelInvariant
<1>. QED
  BY <1>1, <1>2, <1>3, PTL DEF Spec, NoOrphanInv

(* Deletions and truncations leave no vectors of a document behind once    *)
(* the work on it has ended, whatever jobs of it were running, crashed,    *)
(* retried or recovered meanwhile: the cancelled job that wrote vectors    *)
(* last always deletes them itself.  It needs what the code does not       *)
(* ensure: a submission that is not cut short by a deletion, no failing    *)
(* delete in the vector store and no job that is aborted.                  *)
THEOREM NothingOrphaned ==
  ASSUME ~OverlapAdmin, Faults \cap {"cleanup", "abort"} = {}
  PROVE  Spec => []NoOrphanVectors
<1>1. NoOrphanInv => NoOrphanVectors
  <2>1. "free" \notin Cleaning
    BY DEF Cleaning
  <2>. QED
    BY <2>1 DEF NoOrphanInv, OrphansCleaned, NoOrphanVectors, Swept, AtRest
<1>. QED
  BY <1>1, NoOrphanInvariant, PTL

(* Both together: crashes, recoveries and lapsed leases neither forget a   *)
(* document nor leave vectors of a deleted one.                            *)
THEOREM CrashesAreSafe ==
  ASSUME PromptFinalize, ~OverlapAdmin, Faults \cap {"cleanup", "abort"} = {}
  PROVE  Spec => []CrashSafe
BY NothingForgotten, NothingOrphaned, PTL DEF CrashSafe

-----------------------------------------------------------------------------
(* A document that ends ready has the vectors of its present content.       *)

(* The content that the staged file of a document is for.                  *)
Bringing(d) ==
  IF sub[d].at = "row" THEN doc[d].content + 1 ELSE doc[d].content

FileCurrent(d) == doc[d].file \in {0, Bringing(d)}

(* What a job that is not cancelled has read is the present content.       *)
Holding == {"check", "insert", "recheck"}

GotCurrent ==
  \A m \in Deliveries :
    msg[m].at \in Holding /\ ~Stale(Job(m)) => msg[m].got = doc[Doc(m)].content

(* Somebody will still write or delete the vectors of the document, and    *)
(* its status after them.                                                  *)
Rewriting ==
  {"queued", "deferring", "lease", "begin", "mark", "stage", "check", "insert",
   "purge", "finvectors", "finstatus", "retryrelease", "retryadmit",
   "retrysend", "retrystatus"}

Rewrites(m) ==
  msg[m].at \in Rewriting \/ (msg[m].at = "recheck" /\ Stale(Job(m)))

Pledged(d) ==
  \/ sub[d].at # "idle" \/ Swept(d)
  \/ \E m \in Deliveries : Rewrites(m) /\ Doc(m) = d

VectorsCurrent(d) ==
  doc[d].status \in {"pending", "processing", "ready"} =>
    doc[d].vectors = doc[d].content \/ Pledged(d)

Current ==
  NothingLost =>
    GotCurrent /\ \A d \in Docs : FileCurrent(d) /\ VectorsCurrent(d)

CurrentInv == CancelInv /\ LossBound /\ RetrySent /\ Current

(* A cancelled job stays cancelled.                                        *)
LEMMA StaysStale ==
  ASSUME Typed, [Next]_vars, NEW j \in Due, Stale(j) PROVE Stale(j)'
<1>1. j.doc \in Docs /\ j.epoch \in Nat /\ j.cepoch \in Nat
      /\ j.epoch <= epoch[j.doc] /\ j.cepoch <= cepoch
  BY DEF Due, Jobs
<1>2. /\ epoch[j.doc] \in Nat /\ epoch'[j.doc] \in Nat /\ cepoch \in Nat /\ cepoch' \in Nat
      /\ epoch'[j.doc] >= epoch[j.doc] /\ cepoch' >= cepoch
  BY <1>1, EpochStep
<1>. QED
  BY <1>1, <1>2 DEF Stale

(* What the steps of the workers leave alone.                              *)
LEMMA WorkerFrame ==
  ASSUME NEW m \in Deliveries, WorkerStep(m) \/ WorkerFault(m) \/ Crash(m)
  PROVE  UNCHANGED <<sub, del, tr, epoch, cepoch>>
BY DEF WorkerStep, WorkerFault, Crash, Defer, DeferSend, Receive,
   SetLease, CheckBegin, Mark, Stage, Check, Insert, Recheck, Purge, Commit,
   OkFile, OkRelease, FinVectors, FinStatus, FinFile, FinRelease,
   RetryRelease, RetryAdmit, RetrySend, RetryStatus, Unlease,
   Fail, FailInsert, FailFinalize, RetrySendFails, Abort, epochs, api

LEMMA RecoverFrame ==
  ASSUME Typed, NEW r \in Recoverers, RecoverList(r) \/ RecoverStep(r) \/ RecoverCrash(r)
  PROVE  /\ UNCHANGED <<sub, del, tr, epoch, cepoch>>
         /\ \A d \in Docs :
              /\ doc'[d].file = doc[d].file /\ doc'[d].vectors = doc[d].vectors
              /\ doc'[d].content = doc[d].content
              /\ \/ doc'[d].status = doc[d].status
                 \/ {doc[d].status, doc'[d].status} \subseteq {"pending", "processing"}
<1>1. UNCHANGED <<sub, del, tr, epoch, cepoch>>
  BY DEF RecoverList, RecoverStep, RecoverTake, RecoverMark, RecoverSend, RecoverCrash,
         epochs, api
<1>2. doc \in [Docs -> Documents] /\ BagsOK
  BY DEF Typed, DocsOK
<1>3. CASE RecoverMark(r)
  <2>. DEFINE Open(d) == doc[d].status \in {"pending", "processing"}
              back == Select(rec[r].jobs, LAMBDA j : Open(j.doc))
  <2>1. doc' = [d \in Docs |-> IF \E j \in BagToSet(back) : j.doc = d
                                 THEN [doc[d] EXCEPT !.status = "pending"] ELSE doc[d]]
    BY <1>3 DEF RecoverMark
  <2>2. \A j \in BagToSet(back) : Open(j.doc)
    BY <1>2 DEF Select, BagsOK, JobBag, IsABag, BagToSet
  <2>. HIDE DEF back
  <2>. QED
    BY <1>1, <1>2, <2>1, <2>2 DEF Documents
<1>4. CASE RecoverList(r) \/ RecoverTake(r) \/ RecoverSend(r) \/ RecoverCrash(r)
  BY <1>1, <1>4 DEF RecoverList, RecoverTake, RecoverSend, RecoverCrash
<1>. QED
  BY <1>3, <1>4 DEF RecoverStep

(* No row is missing when a re-sync commits.                               *)
LEMMA RowIsThere ==
  ASSUME CancelInv, NEW d \in Docs, sub[d].at # "idle" PROVE Exists(d)
<1>1. doc[d].status \notin {"none", "gone"}
  BY DEF CancelInv, Uploaded, NoSubmission, Dying
<1>. QED
  BY <1>1 DEF CancelInv, Typed, DocsOK, Documents, Exists

(* The staged file is of the present content, or of the next one just      *)
(* before its row is committed.                                            *)
LEMMA FileStep ==
  ASSUME CancelInv, [Next]_vars, ~Lose, NEW d \in Docs, FileCurrent(d)
  PROVE  FileCurrent(d)'
<1>1. /\ Typed /\ DocsOK /\ MsgsOK /\ doc \in [Docs -> Documents]
      /\ sub \in [Docs -> AllSubmissions]
  BY DEF CancelInv, Typed, DocsOK, SubsOK
<1>2. ASSUME doc'[d].file \in {0, doc[d].file}, doc'[d].content = doc[d].content,
             sub'[d].at = "row" <=> sub[d].at = "row"
      PROVE  FileCurrent(d)'
  BY <1>2 DEF FileCurrent, Bringing
<1>3. ASSUME NEW m \in Deliveries, WorkerStep(m) \/ WorkerFault(m) \/ Crash(m)
      PROVE FileCurrent(d)'
  <2>1. doc'[d].file \in {0, doc[d].file} /\ doc'[d].content = doc[d].content
    BY <1>1, <1>3, WorkerDoc DEF Documents
  <2>2. UNCHANGED sub
    BY <1>3, WorkerFrame
  <2>. QED
    BY <1>2, <2>1, <2>2
<1>4. ASSUME NEW e \in Docs, Upload(e) \/ ResyncStart(e) \/ ResyncVectors(e)
      PROVE FileCurrent(d)'
  BY <1>1, <1>2, <1>4 DEF Upload, ResyncStart, ResyncVectors, Submit, FileCurrent, Bringing,
     AllSubmissions, Documents
<1>5. ASSUME NEW e \in Docs, ResyncPut(e) PROVE FileCurrent(d)'
  BY <1>1, <1>2, <1>5 DEF ResyncPut, Submit, FileCurrent, Bringing, AllSubmissions, Documents
<1>6. ASSUME NEW e \in Docs, ResyncRow(e) PROVE FileCurrent(d)'
  <2>1. Exists(e)
    BY <1>6, RowIsThere DEF ResyncRow
  <2>. QED
    BY <1>1, <1>2, <1>6, <2>1 DEF ResyncRow, Submit, FileCurrent, Bringing, AllSubmissions,
       Documents
<1>7. ASSUME NEW e \in Docs, ResyncAborts(e) PROVE FALSE
  BY <1>7 DEF ResyncAborts
<1>8. ASSUME NEW e \in Docs, \/ EnqueueRead(e) \/ EnqueueAdmit(e) \/ EnqueueSend(e)
                             \/ EnqueueSendFails(e) \/ Refused(e)
      PROVE FileCurrent(d)'
  <2>1. doc'[d].file \in {0, doc[d].file} /\ doc'[d].content = doc[d].content
    BY <1>1, <1>8 DEF EnqueueRead, EnqueueAdmit, EnqueueSend, EnqueueSendFails, Refused,
       Documents
  <2>2. sub'[d].at = "row" <=> sub[d].at = "row"
    BY <1>1, <1>8 DEF EnqueueRead, EnqueueAdmit, EnqueueSend, EnqueueSendFails, Refused,
       Submit, AllSubmissions
  <2>. QED
    BY <1>2, <2>1, <2>2
<1>9. ASSUME NEW e \in Docs, DeleteStart(e) \/ DeleteStep(e) \/ DeleteAborts(e)
      PROVE FileCurrent(d)'
  BY <1>1, <1>2, <1>9 DEF DeleteStart, DeleteStep, DeleteFile, DeleteVectors, DeleteRow,
     DeleteAborts, Documents
<1>10. CASE TruncateFiles \/ TruncateVectors \/ TruncateRows
  BY <1>1, <1>2, <1>10 DEF TruncateFiles, TruncateVectors, TruncateRows, Documents
<1>11. ASSUME \/ TruncateStart \/ MaintenanceOn \/ MaintenanceOff \/ UNCHANGED vars
              \/ \E m \in Deliveries : Renew(m)
              \/ \E id \in leases : LeaseExpires(id)
       PROVE FileCurrent(d)'
  BY <1>2, <1>11 DEF TruncateStart, MaintenanceOn, MaintenanceOff, Renew, LeaseExpires, vars,
     api
<1>12. ASSUME NEW r \in Recoverers, RecoverList(r) \/ RecoverStep(r) \/ RecoverCrash(r)
       PROVE FileCurrent(d)'
  BY <1>1, <1>2, <1>12, RecoverFrame
<1>. QED
  BY <1>3, <1>4, <1>5, <1>6, <1>7, <1>8, <1>9, <1>10, <1>11, <1>12
     DEF Next, ApiChoice, SubmitStep, DeleteStep, TruncateStep, Quiet

(* What a job that is not cancelled holds is of the present content.       *)
LEMMA GotStep ==
  ASSUME CurrentInv, NothingLost, ~Lose, [Next]_vars PROVE GotCurrent'
<1>1. /\ Typed /\ DocsOK /\ MsgsOK /\ doc \in [Docs -> Documents]
      /\ msg \in [Deliveries -> Messages] /\ SubsOK /\ BagsOK
      /\ sub \in [Docs -> AllSubmissions] /\ JobsCancelled
  BY DEF CurrentInv, CancelInv, Typed, DocsOK, MsgsOK, SubsOK
<1>2. /\ GotCurrent /\ \A d \in Docs : FileCurrent(d)
      /\ "free" \notin Holding
  BY DEF CurrentInv, Current, Holding
<1>3. ASSUME NEW m \in Deliveries, msg'[m].at \in Holding, ~Stale(Job(m))',
             msg[m].at \in Holding, msg'[m].job = Job(m), msg'[m].got = msg[m].got
      PROVE  msg'[m].got = doc[Doc(m)].content
  <2>1. Job(m) \in Due
    BY <1>1, <1>2, <1>3 DEF JobsCancelled, Job
  <2>2. ~Stale(Job(m))
    BY <1>1, <1>3, <2>1, StaysStale DEF Job, Stale
  <2>. QED
    BY <1>2, <1>3, <2>2 DEF GotCurrent
<1>. DEFINE Held(m) == msg'[m].got = doc'[msg'[m].job.doc].content
<1>4. ASSUME NEW m \in Deliveries, msg'[m].at \in Holding, ~Stale(Job(m))',
             msg[m].at \in Holding, msg'[m].job = Job(m), msg'[m].got = msg[m].got,
             doc'[Doc(m)].content = doc[Doc(m)].content
      PROVE  Held(m)
  BY <1>3, <1>4 DEF Doc, Job
<1>5. ASSUME UNCHANGED msg, \A d \in Docs : doc'[d].content = doc[d].content
      PROVE GotCurrent'
  <2>. SUFFICES ASSUME NEW m \in Deliveries, msg'[m].at \in Holding, ~Stale(Job(m))'
                PROVE  Held(m)
    BY DEF GotCurrent, Doc, Job
  <2>1. Doc(m) \in Docs
    BY <1>1, <1>2, <1>5 DEF Messages, Jobs, Doc, Job
  <2>. QED
    BY <1>4, <1>5, <2>1 DEF Job
<1>6. ASSUME NEW j, Sends(j), \A d \in Docs : doc'[d].content = doc[d].content
      PROVE GotCurrent'
  <2>. SUFFICES ASSUME NEW m \in Deliveries, msg'[m].at \in Holding, ~Stale(Job(m))'
                PROVE  Held(m)
    BY DEF GotCurrent, Doc, Job
  <2>1. m # AnyFree /\ msg'[m] = msg[m]
    BY <1>1, <1>6, FreeOne, MessageOK DEF Sends, Holding
  <2>2. Doc(m) \in Docs
    BY <1>1, <1>2, <2>1 DEF Messages, Jobs, Doc, Job
  <2>. QED
    BY <1>4, <1>6, <2>1, <2>2 DEF Job
<1>7. ASSUME NEW m \in Deliveries, WorkerStep(m) \/ WorkerFault(m) \/ Crash(m)
      PROVE GotCurrent'
  <2>1. \A d \in Docs : doc'[d].content = doc[d].content
    BY <1>1, <1>7, WorkerDoc DEF Documents
  <2>2. Doc(m) \in Docs /\ Job(m) \in Due /\ Job(m).doc = Doc(m)
    BY <1>1, <1>7, WorkerDoc, WorkerBusy DEF JobsCancelled, Job, Doc
  <2>. SUFFICES ASSUME NEW n \in Deliveries, msg'[n].at \in Holding, ~Stale(Job(n))'
                PROVE  Held(n)
    BY DEF GotCurrent, Doc, Job
  <2>3. CASE n # m
    <3>1. msg'[n] = msg[n]
      <4>1. CASE Moves(m)
        BY <1>1, <2>3, <4>1 DEF Moves
      <4>2. CASE Resends(m)
        BY <1>1, <2>3, <4>2, FreeOne, MessageOK DEF Resends, RetrySend, NextTry, Holding
      <4>. QED
        BY <1>1, <1>7, <4>1, <4>2, WorkerMsg
    <3>2. Doc(n) \in Docs
      BY <1>1, <1>2, <3>1 DEF Messages, Jobs, Doc, Job
    <3>. QED
      BY <1>4, <2>1, <3>1, <3>2 DEF Job
  <2>4. CASE n = m
    <3>1. CASE Stage(m)
      <4>1. msg' = [msg EXCEPT ![m].at = "check", ![m].got = doc[Doc(m)].file]
            /\ doc[Doc(m)].file # 0
        BY <1>1, <2>4, <3>1, AtAfter DEF Stage, Holding
      <4>2. msg'[m].got = doc[Doc(m)].file /\ msg'[m].job = Job(m)
        BY <1>1, <4>1 DEF Messages, Job
      <4>3. ~Stale(Job(m))
        BY <1>1, <2>2, <2>4, <4>2, StaysStale DEF Job, Stale
      <4>4. ~Resyncing(Doc(m))
        BY <2>2, <4>3 DEF Due
      <4>5. doc[Doc(m)].file = doc[Doc(m)].content
        BY <1>2, <2>2, <4>1, <4>4 DEF FileCurrent, Bringing, Resyncing
      <4>. QED
        BY <2>1, <2>2, <2>4, <4>2, <4>5
    <3>2. CASE Check(m) \/ Insert(m)
      <4>1. msg[m].at \in Holding /\ msg'[m].job = Job(m) /\ msg'[m].got = msg[m].got
        BY <1>1, <3>2 DEF Check, Insert, Goto, Raise, Holding, Messages, Job
      <4>. QED
        BY <1>4, <2>1, <2>2, <2>4, <4>1
    <3>3. CASE ~(Stage(m) \/ Check(m) \/ Insert(m))
      <4>1. ASSUME NEW at, Goto(m, at) PROVE at \in Holding
        BY <1>1, <2>4, <4>1, AtAfter
      <4>2. ASSUME NEW why, Raise(m, why) PROVE FALSE
        BY <1>1, <2>4, <4>2, AtAfter DEF Holding
      <4>3. ~(DeferSend(m) \/ Crash(m) \/ Unlease(m) \/ RetryAdmit(m) \/ RetrySend(m))
        <5>1. ~RetrySend(m)
          BY <1>1, <2>4, FreeOne, RetryMsg DEF RetrySend, Holding, Messages
        <5>. QED
          BY <1>1, <2>4, <5>1, AtAfter DEF Holding
      <4>4. ~(CheckBegin(m) \/ Recheck(m) \/ Purge(m) \/ FinVectors(m))
        BY <4>1, <4>2 DEF CheckBegin, Recheck, Purge, FinVectors, Holding
      <4>5. ~(\/ Defer(m) \/ Receive(m) \/ SetLease(m) \/ Mark(m) \/ Commit(m) \/ OkFile(m)
              \/ OkRelease(m) \/ FinStatus(m) \/ FinFile(m) \/ FinRelease(m)
              \/ RetryRelease(m) \/ RetryStatus(m) \/ RetrySendFails(m) \/ Abort(m))
        BY <4>1 DEF Defer, Receive, SetLease, Mark, Commit, OkFile, OkRelease, FinStatus,
           FinFile, FinRelease, RetryRelease, RetryStatus, RetrySendFails, Abort, Holding
      <4>6. ~FailFinalize(m) /\ ~\E why \in {"transient", "permanent"} :
                                   Fail(m, why) \/ FailInsert(m, why)
        BY <4>2 DEF FailFinalize, Fail, FailInsert
      <4>. QED
        BY <1>7, <3>3, <4>3, <4>4, <4>5, <4>6 DEF WorkerStep, WorkerFault
    <3>. QED
      BY <3>1, <3>2, <3>3
  <2>. QED
    BY <2>3, <2>4
(* The content changes only when no job could have read the last one.      *)
<1>8. ASSUME NEW e \in Docs, Upload(e) \/ ResyncRow(e) PROVE GotCurrent'
  <2>. SUFFICES ASSUME NEW m \in Deliveries, msg'[m].at \in Holding, ~Stale(Job(m))'
                PROVE  Held(m)
    BY DEF GotCurrent, Doc, Job
  <2>1. UNCHANGED msg /\ UNCHANGED <<epoch, cepoch>>
    BY <1>8 DEF Upload, ResyncRow, epochs
  <2>2. Job(m) \in Due /\ ~Stale(Job(m)) /\ Doc(m) \in Docs /\ Job(m).doc = Doc(m)
    <3>1. Job(m) \in Due
      BY <1>1, <1>2, <2>1 DEF JobsCancelled, Job
    <3>. QED
      BY <2>1, <3>1 DEF Due, Jobs, Doc, Stale, Job
  <2>3. Doc(m) # e
    BY <1>8, <2>2 DEF Upload, ResyncRow, Due, Resyncing
  <2>4. doc'[Doc(m)] = doc[Doc(m)]
    BY <1>1, <1>8, <2>2, <2>3 DEF Upload, ResyncRow
  <2>. QED
    BY <1>4, <2>1, <2>4 DEF Job
<1>9. ASSUME NEW e \in Docs, \/ ResyncStart(e) \/ ResyncVectors(e) \/ ResyncPut(e)
                             \/ ResyncAborts(e) \/ EnqueueRead(e)
                             \/ EnqueueAdmit(e) \/ EnqueueSend(e) \/ EnqueueSendFails(e)
                             \/ Refused(e) \/ DeleteStart(e) \/ DeleteStep(e) \/ DeleteAborts(e)
      PROVE \A d \in Docs : doc'[d].content = doc[d].content
  BY <1>1, <1>9 DEF ResyncStart, ResyncVectors, ResyncPut, ResyncAborts, EnqueueRead,
     EnqueueAdmit, EnqueueSend, EnqueueSendFails, Refused, DeleteStart, DeleteStep, DeleteFile,
     DeleteVectors, DeleteRow, DeleteAborts, Documents
<1>10. ASSUME TruncateFiles \/ TruncateVectors \/ TruncateRows
       PROVE \A d \in Docs : doc'[d].content = doc[d].content
  BY <1>1, <1>10 DEF TruncateFiles, TruncateVectors, TruncateRows, Documents
<1>11. ASSUME \/ TruncateStart \/ MaintenanceOn \/ MaintenanceOff \/ UNCHANGED vars
              \/ \E m \in Deliveries : Renew(m)
              \/ \E id \in leases : LeaseExpires(id)
       PROVE UNCHANGED doc
  BY <1>11 DEF TruncateStart, MaintenanceOn, MaintenanceOff, Renew, LeaseExpires, vars
<1>12. CASE Elsewhere
  <2>1. UNCHANGED msg
    BY <1>12, ElsewhereMsg
  <2>2. CASE \E e \in Docs : Upload(e) \/ ResyncRow(e)
    BY <1>8, <2>2
  <2>3. CASE ~\E e \in Docs : Upload(e) \/ ResyncRow(e)
    BY <1>1, <1>5, <1>9, <1>10, <1>11, <1>12, <2>1, <2>3, RecoverFrame
       DEF Elsewhere, TruncateStep, RecoverStep
  <2>. QED
    BY <2>2, <2>3
<1>13. CASE \/ \E d \in Docs : EnqueueSend(d)
            \/ \E r \in Recoverers : RecoverSend(r)
  <2>1. \A d \in Docs : doc'[d].content = doc[d].content
    BY <1>1, <1>9, <1>13, RecoverFrame DEF RecoverStep
  <2>2. \E j : Sends(j)
    BY <1>1, <1>13, SendMsg
  <2>. QED
    BY <1>6, <2>1, <2>2
<1>. QED
  BY <1>7, <1>12, <1>13, StepKinds

OpenOrReady == {"pending", "processing", "ready"}

(* Who is not at work on a document leaves its pledges alone.              *)
LEMMA StillPledged ==
  ASSUME NEW d, Pledged(d),
         sub[d].at # "idle" => sub'[d].at # "idle",
         Swept(d) => Swept(d)',
         \A m \in Deliveries : Rewrites(m) /\ Doc(m) = d =>
           \E n \in Deliveries : Rewrites(n)' /\ Doc(n)' = d
  PROVE  Pledged(d)'
BY DEF Pledged

LEMMA RewritesOn ==
  ASSUME CancelInv, [Next]_vars, NEW m \in Deliveries, Rewrites(m), msg'[m] = msg[m]
  PROVE  Rewrites(m)' /\ Doc(m)' = Doc(m)
<1>1. msg[m].at # "free" /\ Typed /\ JobsCancelled
  BY DEF Rewrites, Rewriting, CancelInv
<1>2. Job(m) \in Due /\ Job(m)' = Job(m)
  BY <1>1 DEF JobsCancelled, Job
<1>3. Stale(Job(m)) => Stale(Job(m))'
  BY <1>1, <1>2, StaysStale DEF Stale
<1>. QED
  BY <1>2, <1>3 DEF Rewrites, Doc

LEMMA WorkerOthers ==
  ASSUME Typed, NEW m \in Deliveries, WorkerStep(m) \/ WorkerFault(m) \/ Crash(m)
  PROVE  /\ \A n \in Deliveries : n # m /\ msg[n].at # "free" => msg'[n] = msg[n]
         /\ msg'[m].at # "free" => Doc(m)' = Doc(m)
<1>1. MsgsOK /\ DocsOK /\ msg \in [Deliveries -> Messages]
  BY DEF Typed, MsgsOK
<1>2. Job(m) \in Jobs /\ msg[m].at # "free"
  BY <1>1, WorkerBusy
<1>3. CASE Moves(m)
  BY <1>1, <1>2, <1>3 DEF Moves, Follows, Doc, Job, Jobs
<1>4. CASE Resends(m)
  BY <1>1, <1>2, <1>4, FreeOne DEF Resends, RetrySend, Doc, Job, Messages
<1>. QED
  BY <1>1, <1>3, <1>4, WorkerMsg

(* The steps of a worker after which it still rewrites the document.       *)
LEMMA StaysRewriting ==
  ASSUME Typed, NEW m \in Deliveries, WorkerStep(m) \/ WorkerFault(m) \/ Crash(m), ~Lose,
         ~(\/ Insert(m) \/ Check(m) \/ Recheck(m) \/ Commit(m) \/ OkFile(m) \/ OkRelease(m)
           \/ FinStatus(m) \/ FinFile(m) \/ FinRelease(m) \/ RetryStatus(m) \/ Unlease(m))
  PROVE  msg'[m].at \in Rewriting
<1>1. CASE Defer(m) \/ Receive(m) \/ SetLease(m) \/ Mark(m)
  BY <1>1, AtAfter DEF Defer, Receive, SetLease, Mark, Rewriting
<1>2. CASE DeferSend(m) \/ Crash(m) \/ Stage(m) \/ RetryAdmit(m)
  BY <1>2, AtAfter DEF Rewriting
<1>3. CASE CheckBegin(m) \/ Purge(m)
  BY <1>3, AtAfter DEF CheckBegin, Purge, Rewriting
<1>4. CASE FinVectors(m) \/ RetryRelease(m)
  BY <1>4, AtAfter DEF FinVectors, RetryRelease, Rewriting
<1>5. CASE RetrySend(m)
  <2>1. MsgsOK /\ msg \in [Deliveries -> Messages]
    BY DEF Typed, MsgsOK
  <2>2. AnyFree # m
    BY <1>5, FreeOne DEF RetrySend
  <2>3. msg'[m].at = "retrystatus"
    BY <1>5, <2>1, <2>2 DEF RetrySend, Messages
  <2>. QED
    BY <2>3 DEF Rewriting
<1>6. CASE FailFinalize(m) \/ \E why \in {"transient", "permanent"} : Fail(m, why) \/ FailInsert(m, why)
  BY <1>6, AtAfter DEF FailFinalize, Fail, FailInsert, Rewriting
<1>7. ~(RetrySendFails(m) \/ Abort(m))
  BY DEF RetrySendFails, Abort
<1>. QED
  BY <1>1, <1>2, <1>3, <1>4, <1>5, <1>6, <1>7 DEF WorkerStep, WorkerFault

(* A ready document has the vectors of its content, or somebody will still *)
(* rewrite them: the steps of the workers.                                 *)
LEMMA VectorsWorker ==
  ASSUME CurrentInv, NothingLost, ~Lose, [Next]_vars, NEW d \in Docs,
         NEW m \in Deliveries, WorkerStep(m) \/ WorkerFault(m) \/ Crash(m)
  PROVE  VectorsCurrent(d)'
<1>1. /\ Typed /\ DocsOK /\ MsgsOK /\ doc \in [Docs -> Documents]
      /\ msg \in [Deliveries -> Messages] /\ CancelInv /\ JobsCancelled /\ RetrySent
      /\ GotCurrent /\ VectorsCurrent(d)
  BY DEF CurrentInv, Current, CancelInv, Typed, DocsOK, MsgsOK
<1>2. /\ Doc(m) \in Docs /\ Job(m) \in Due /\ msg[m].at # "free"
      /\ UNCHANGED <<sub, del, tr, epoch, cepoch>>
  BY <1>1, WorkerDoc, WorkerBusy, WorkerFrame DEF JobsCancelled, Job
<1>. SUFFICES ASSUME doc'[d].status \in OpenOrReady
              PROVE  doc'[d].vectors = doc'[d].content \/ Pledged(d)'
  BY DEF VectorsCurrent, OpenOrReady
<1>3. /\ doc'[d].content = doc[d].content
      /\ doc[d].status # doc'[d].status => Exists(d) /\ (Mark(m) \/ Commit(m) \/ FinStatus(m) \/ RetryStatus(m))
  BY <1>1, <1>2 DEF Documents, Exists, WorkerStep, WorkerFault, Crash, Defer, DeferSend, Receive,
     SetLease, CheckBegin, Mark, Stage, Check, Insert, Recheck, Purge, Commit,
     OkFile, OkRelease, FinVectors, FinStatus, FinFile, FinRelease,
     RetryRelease, RetryAdmit, RetrySend, RetryStatus, Unlease, ClearFile, DropVectors, SetStatus,
     Fail, FailInsert, FailFinalize, RetrySendFails, Abort
<1>4. Swept(d) => Swept(d)'
  BY <1>2, <1>3 DEF Swept, Exists, Statuses
<1>. DEFINE Others == \/ sub[d].at # "idle" \/ Swept(d)
                      \/ \E n \in Deliveries : n # m /\ Rewrites(n) /\ Doc(n) = d
<1>5. ASSUME Others PROVE Pledged(d)'
  <2>1. ASSUME NEW n \in Deliveries, n # m, Rewrites(n) PROVE Rewrites(n)' /\ Doc(n)' = Doc(n)
    <3>1. msg'[n] = msg[n]
      BY <1>1, <2>1, WorkerOthers DEF Rewrites, Rewriting
    <3>. QED
      BY <1>1, <2>1, <3>1, RewritesOn
  <2>. QED
    BY <1>2, <1>4, <1>5, <2>1 DEF Pledged
<1>6. CASE Doc(m) # d
  <2>1. doc'[d] = doc[d]
    BY <1>1, <1>2, <1>6, WorkerDoc
  <2>. QED
    BY <1>1, <1>5, <1>6, <2>1 DEF VectorsCurrent, OpenOrReady, Pledged
<1>7. CASE Doc(m) = d
  <2>1. ASSUME Rewrites(m)' PROVE Pledged(d)'
    <3>1. msg'[m].at # "free"
      BY <2>1 DEF Rewrites, Rewriting
    <3>. QED
      BY <1>1, <1>7, <2>1, <3>1, WorkerOthers DEF Pledged
  <2>2. ASSUME ~Rewrites(m), doc'[d].vectors = doc[d].vectors, doc[d].status \in OpenOrReady
        PROVE  doc'[d].vectors = doc'[d].content \/ Pledged(d)'
    BY <1>1, <1>3, <1>5, <2>2 DEF VectorsCurrent, OpenOrReady, Pledged
  <2>3. CASE Insert(m)
    <3>1. /\ msg'[m].at = "recheck" /\ Job(m)' = Job(m)
          /\ doc'[d].vectors = msg[m].got /\ msg[m].at \in Holding
      BY <1>1, <1>2, <1>7, <2>3 DEF Insert, Goto, Messages, Job, Documents, Holding
    <3>2. CASE Stale(Job(m))
      <4>1. Stale(Job(m))'
        BY <1>1, <1>2, <3>1, <3>2, StaysStale DEF Stale
      <4>. QED
        BY <2>1, <3>1, <4>1 DEF Rewrites
    <3>3. CASE ~Stale(Job(m))
      BY <1>1, <1>3, <1>7, <3>1, <3>3 DEF GotCurrent
    <3>. QED
      BY <3>2, <3>3
  <2>4. CASE Check(m)
    <3>1. msg'[m].at \in Rewriting
      BY <1>1, <2>4, AtAfter DEF Check, Rewriting
    <3>. QED
      BY <2>1, <3>1 DEF Rewrites
  <2>5. CASE Recheck(m)
    <3>1. CASE Stale(Job(m))
      <4>1. msg'[m].at \in Rewriting
        BY <1>1, <2>5, <3>1, AtAfter DEF Recheck, Rewriting
      <4>. QED
        BY <2>1, <4>1 DEF Rewrites
    <3>2. CASE ~Stale(Job(m))
      <4>1. ~Rewrites(m) /\ doc' = doc
        BY <2>5, <3>2 DEF Recheck, Rewrites, Rewriting
      <4>. QED
        BY <2>2, <4>1
    <3>. QED
      BY <3>1, <3>2
  <2>6. CASE Commit(m) \/ OkFile(m) \/ OkRelease(m) \/ FinFile(m) \/ FinRelease(m) \/ Unlease(m)
    <3>1. ~Rewrites(m)
      BY <2>6 DEF Commit, OkFile, OkRelease, FinFile, FinRelease, Unlease, Rewrites, Rewriting
    <3>2. doc'[d].vectors = doc[d].vectors /\ doc[d].status \in OpenOrReady
      BY <1>1, <1>2, <1>7, <2>6 DEF Commit, OkFile, OkRelease, FinFile, FinRelease, Unlease,
         SetStatus, ClearFile, Documents, OpenOrReady
    <3>. QED
      BY <2>2, <3>1, <3>2
  <2>7. CASE FinStatus(m)
    <3>1. doc'[d].status \notin OpenOrReady
      BY <1>1, <1>7, <2>7 DEF FinStatus, SetStatus, Exists, Statuses, OpenOrReady, Documents
    <3>. QED
      BY <3>1
  <2>8. CASE RetryStatus(m)
    <3>1. PICK n \in Deliveries :
            msg[n].at \in {"queued", "deferring"} /\ JobId(Job(n)) = JobId(Job(m))
      BY <1>1, <2>8 DEF RetryStatus, RetrySent
    <3>2. n # m /\ Rewrites(n) /\ Doc(n) = d
      BY <1>7, <2>8, <3>1 DEF RetryStatus, Rewrites, Rewriting, JobId, Doc
    <3>. QED
      BY <1>5, <3>2
  <2>9. CASE ~(\/ Insert(m) \/ Check(m) \/ Recheck(m) \/ Commit(m) \/ OkFile(m) \/ OkRelease(m)
               \/ FinStatus(m) \/ FinFile(m) \/ FinRelease(m) \/ RetryStatus(m) \/ Unlease(m))
    <3>1. msg'[m].at \in Rewriting
      BY <1>1, <2>9, StaysRewriting
    <3>. QED
      BY <2>1, <3>1 DEF Rewrites
  <2>. QED
    BY <2>3, <2>4, <2>5, <2>6, <2>7, <2>8, <2>9
<1>. QED
  BY <1>6, <1>7

LEMMA VectorsStep ==
  ASSUME CurrentInv, NothingLost, ~Lose, [Next]_vars, NEW d \in Docs
  PROVE  VectorsCurrent(d)'
<1>1. /\ Typed /\ DocsOK /\ ApiOK /\ SubsOK /\ BagsOK /\ doc \in [Docs -> Documents]
      /\ msg \in [Deliveries -> Messages] /\ sub \in [Docs -> AllSubmissions]
      /\ CancelInv /\ VectorsCurrent(d)
  BY DEF CurrentInv, Current, CancelInv, Typed, DocsOK, MsgsOK, SubsOK
<1>2. ASSUME NEW m \in Deliveries, WorkerStep(m) \/ WorkerFault(m) \/ Crash(m)
      PROVE  VectorsCurrent(d)'
  BY <1>2, VectorsWorker
<1>. DEFINE Kept == \A m \in Deliveries : Rewrites(m) => Rewrites(m)' /\ Doc(m)' = Doc(m)
<1>3. ASSUME UNCHANGED msg PROVE Kept
  BY <1>1, <1>3, RewritesOn
<1>4. ASSUME NEW j, Sends(j)
      PROVE  Kept /\ \E n \in Deliveries : Rewrites(n)' /\ Doc(n)' = j.doc
  <2>1. /\ AnyFree \in Deliveries /\ msg[AnyFree].at = "free"
        /\ msg'[AnyFree].at = "queued" /\ msg'[AnyFree].job = j
        /\ \A n \in Deliveries : n # AnyFree => msg'[n] = msg[n]
    BY <1>1, <1>4, FreeOne, MessageOK DEF Sends, Job
  <2>2. Kept
    BY <1>1, <2>1, RewritesOn DEF Rewrites, Rewriting
  <2>3. \E n \in Deliveries : msg'[n].at = "queued" /\ msg'[n].job = j
    BY <1>1, <1>4, <2>1, FreeOne, MessageOK DEF Sends
  <2>. QED
    BY <2>2, <2>3 DEF Rewrites, Rewriting, Doc, Job
(* A step that writes neither vectors nor content and takes back no pledge.*)
<1>5. ASSUME Kept, doc'[d].vectors = doc[d].vectors, doc'[d].content = doc[d].content,
             doc'[d].status \in OpenOrReady => doc[d].status \in OpenOrReady,
             sub[d].at # "idle" => Pledged(d)', Swept(d) => Swept(d)'
      PROVE  VectorsCurrent(d)'
  BY <1>1, <1>5 DEF VectorsCurrent, Pledged, OpenOrReady
<1>6. ASSUME Pledged(d)' PROVE VectorsCurrent(d)'
  BY <1>6 DEF VectorsCurrent
<1>7. ASSUME NEW e \in Docs, \/ Upload(e) \/ ResyncStart(e) \/ ResyncVectors(e) \/ ResyncPut(e)
                             \/ ResyncRow(e) \/ EnqueueRead(e) \/ EnqueueAdmit(e)
                             \/ EnqueueSendFails(e)
      PROVE  VectorsCurrent(d)'
  <2>1. UNCHANGED <<msg, del, tr>>
    BY <1>7 DEF Upload, ResyncStart, ResyncVectors, ResyncPut, ResyncRow, EnqueueRead,
       EnqueueAdmit, EnqueueSendFails
  <2>2. CASE e = d
    <3>1. ResyncRow(d) => Exists(d)
      BY <1>1, RowIsThere DEF ResyncRow
    <3>2. sub'[d].at # "idle"
      BY <1>1, <1>7, <2>2, <3>1 DEF Upload, ResyncStart, ResyncVectors, ResyncPut, ResyncRow,
         EnqueueRead, EnqueueAdmit, EnqueueSendFails, Submit, AllSubmissions
    <3>. QED
      BY <1>6, <3>2 DEF Pledged
  <2>3. CASE e # d
    <3>1. doc'[d] = doc[d] /\ sub'[d] = sub[d]
      BY <1>1, <1>7, <2>3 DEF Upload, ResyncStart, ResyncVectors, ResyncPut, ResyncRow,
         EnqueueRead, EnqueueAdmit, EnqueueSendFails, Submit
    <3>2. (sub[d].at # "idle" => Pledged(d)') /\ (Swept(d) => Swept(d)')
      BY <2>1, <3>1 DEF Pledged, Swept
    <3>. QED
      BY <1>3, <1>5, <2>1, <3>1, <3>2
  <2>. QED
    BY <2>2, <2>3
<1>8. ASSUME NEW e \in Docs, ResyncAborts(e) PROVE FALSE
  BY <1>8 DEF ResyncAborts
<1>9. ASSUME NEW e \in Docs, EnqueueSend(e) PROVE VectorsCurrent(d)'
  <2>1. Sends(sub[e].job) /\ sub[e].job.doc = e
    BY <1>1, <1>9, SendMsg DEF EnqueueSend, SubsOK, Submissions
  <2>2. CASE e = d
    BY <1>4, <1>6, <2>1, <2>2 DEF Pledged
  <2>3. CASE e # d
    <3>1. sub'[d] = sub[d] /\ UNCHANGED <<doc, del, tr>>
      BY <1>1, <1>9, <2>3 DEF EnqueueSend
    <3>. QED
      BY <1>4, <1>5, <2>1, <3>1 DEF Pledged, Swept
  <2>. QED
    BY <2>2, <2>3
<1>10. ASSUME NEW e \in Docs, Refused(e) PROVE VectorsCurrent(d)'
  <2>1. UNCHANGED <<msg, del, tr>>
    BY <1>10 DEF Refused
  <2>2. CASE e = d
    <3>1. doc'[d].status \notin OpenOrReady
      BY <1>1, <1>10, <2>2 DEF Refused, Exists, Statuses, OpenOrReady, Documents
    <3>. QED
      BY <3>1 DEF VectorsCurrent, OpenOrReady
  <2>3. CASE e # d
    <3>1. doc'[d] = doc[d] /\ sub'[d] = sub[d]
      BY <1>1, <1>10, <2>3 DEF Refused
    <3>. QED
      BY <1>3, <1>5, <2>1, <3>1 DEF Pledged, Swept
  <2>. QED
    BY <2>2, <2>3
<1>11. ASSUME NEW e \in Docs, DeleteStart(e) \/ DeleteFile(e) \/ DeleteRow(e) \/ DeleteAborts(e)
       PROVE  VectorsCurrent(d)'
  <2>1. UNCHANGED <<msg, sub, tr>>
    BY <1>11 DEF DeleteStart, DeleteFile, DeleteRow, DeleteAborts
  <2>2. /\ doc'[d].vectors = doc[d].vectors /\ doc'[d].content = doc[d].content
        /\ doc'[d].status \in OpenOrReady => doc[d].status \in OpenOrReady
        /\ doc[d].status = "gone" => doc'[d].status = "gone"
        /\ del[d] = "row" => del'[d] = "row" \/ doc'[d].status = "gone"
    BY <1>1, <1>11 DEF DeleteStart, DeleteFile, DeleteRow, DeleteAborts, OpenOrReady, Documents,
       ApiOK
  <2>. QED
    BY <1>3, <1>5, <2>1, <2>2 DEF Pledged, Swept
<1>12. ASSUME NEW e \in Docs, DeleteVectors(e) PROVE VectorsCurrent(d)'
  <2>1. UNCHANGED <<msg, sub, tr>>
    BY <1>12 DEF DeleteVectors
  <2>2. CASE e = d
    <3>1. del'[d] = "row"
      BY <1>1, <1>12, <2>2 DEF DeleteVectors, ApiOK
    <3>. QED
      BY <1>6, <3>1 DEF Pledged, Swept
  <2>3. CASE e # d
    <3>1. doc'[d] = doc[d] /\ del'[d] = del[d]
      BY <1>1, <1>12, <2>3 DEF DeleteVectors, ApiOK
    <3>. QED
      BY <1>3, <1>5, <2>1, <3>1 DEF Pledged, Swept
  <2>. QED
    BY <2>2, <2>3
<1>13. CASE TruncateVectors
  <2>1. tr' = "rows"
    BY <1>13 DEF TruncateVectors
  <2>. QED
    BY <1>6, <2>1 DEF Pledged, Swept
<1>14. CASE TruncateFiles \/ TruncateRows
  <2>1. UNCHANGED <<msg, sub, del>>
    BY <1>14 DEF TruncateFiles, TruncateRows
  <2>2. /\ doc'[d].vectors = doc[d].vectors /\ doc'[d].content = doc[d].content
        /\ doc'[d].status \in OpenOrReady => doc[d].status \in OpenOrReady
        /\ doc[d].status = "gone" => doc'[d].status = "gone"
        /\ tr = "rows" => doc'[d].status \notin OpenOrReady
    BY <1>1, <1>14 DEF TruncateFiles, TruncateRows, OpenOrReady, Documents, Exists, Statuses
  <2>3. CASE doc'[d].status \notin OpenOrReady
    BY <2>3 DEF VectorsCurrent, OpenOrReady
  <2>4. CASE tr # "rows"
    BY <1>3, <1>5, <2>1, <2>2, <2>4 DEF Pledged, Swept
  <2>. QED
    BY <2>2, <2>3, <2>4
<1>15. ASSUME \/ TruncateStart \/ MaintenanceOn \/ MaintenanceOff \/ UNCHANGED vars
              \/ \E m \in Deliveries : Renew(m)
              \/ \E id \in leases : LeaseExpires(id)
       PROVE VectorsCurrent(d)'
  <2>1. UNCHANGED <<doc, msg, sub, del>> /\ (tr = "rows" => tr' = "rows")
    BY <1>15 DEF TruncateStart, MaintenanceOn, MaintenanceOff, Renew, LeaseExpires, vars, api
  <2>. QED
    BY <1>3, <1>5, <2>1 DEF Pledged, Swept
<1>16. ASSUME NEW r \in Recoverers, RecoverList(r) \/ RecoverStep(r) \/ RecoverCrash(r)
       PROVE  VectorsCurrent(d)'
  <2>1. Kept
    <3>1. CASE RecoverSend(r)
      BY <1>1, <1>4, <3>1, SendMsg
    <3>2. CASE RecoverList(r) \/ RecoverTake(r) \/ RecoverMark(r) \/ RecoverCrash(r)
      <4>1. UNCHANGED msg
        BY <3>2 DEF RecoverList, RecoverTake, RecoverMark, RecoverCrash
      <4>. QED
        BY <1>3, <4>1
    <3>. QED
      BY <1>16, <3>1, <3>2 DEF RecoverStep
  <2>2. /\ UNCHANGED <<sub, del, tr>>
        /\ doc'[d].vectors = doc[d].vectors /\ doc'[d].content = doc[d].content
        /\ \/ doc'[d].status = doc[d].status
           \/ {doc[d].status, doc'[d].status} \subseteq {"pending", "processing"}
    BY <1>1, <1>16, RecoverFrame
  <2>. QED
    BY <1>5, <2>1, <2>2 DEF Pledged, Swept, OpenOrReady
<1>. QED
  BY <1>2, <1>7, <1>8, <1>9, <1>10, <1>11, <1>12, <1>13, <1>14, <1>15, <1>16
     DEF Next, ApiChoice, SubmitStep, DeleteStep, TruncateStep, Quiet

LEMMA CurrentInvariant ==
  ASSUME PromptFinalize, ~OverlapAdmin PROVE Spec => []CurrentInv
<1>1. Init => LossBound /\ RetrySent /\ Current
  <2>. SUFFICES ASSUME Init PROVE LossBound /\ RetrySent /\ Current
    OBVIOUS
  <2>1. LossBound
    BY IngestionAssumption DEF Init, LossBound
  <2>2. RetrySent
    BY FreeMessageOK DEF Init, RetrySent
  <2>3. GotCurrent
    BY FreeMessageOK DEF Init, GotCurrent, Holding
  <2>4. \A d \in Docs : FileCurrent(d) /\ VectorsCurrent(d)
    BY DEF Init, FileCurrent, VectorsCurrent
  <2>. QED
    BY <2>1, <2>2, <2>3, <2>4 DEF Current
<1>2. CurrentInv /\ [Next]_vars => LossBound' /\ RetrySent' /\ Current'
  <2>. SUFFICES ASSUME CurrentInv, [Next]_vars PROVE LossBound' /\ RetrySent' /\ Current'
    OBVIOUS
  <2>1. LossBound' /\ (NothingLost' => NothingLost /\ ~Lose) /\ RetrySent'
    BY LossStep, RetrySentStep DEF CurrentInv, CancelInv
  <2>2. ASSUME NothingLost, ~Lose
        PROVE  GotCurrent' /\ \A d \in Docs : FileCurrent(d)' /\ VectorsCurrent(d)'
    <3>1. CancelInv /\ \A d \in Docs : FileCurrent(d)
      BY <2>2 DEF CurrentInv, Current
    <3>. QED
      BY <2>2, <3>1, GotStep, FileStep, VectorsStep
  <2>. QED
    BY <2>1, <2>2 DEF Current
<1>3. Spec => []CancelInv
  BY CancelInvariant
<1>. QED
  BY <1>1, <1>2, <1>3, PTL DEF Spec, CurrentInv

(* A document that ends ready has the vectors of its present content, with *)
(* any number of re-syncs that cancel the job of the last content, crashes,*)
(* lapsed leases, recoveries and faults in between: who wrote other        *)
(* vectors, or deleted them, still has to write the status after them.     *)
(* Deletions that cut a submission short are left out, and so are the      *)
(* failures that lose a job.                                               *)
THEOREM ReadyStaysCurrent ==
  ASSUME PromptFinalize, ~OverlapAdmin PROVE Spec => []ReadyIsCurrent
<1>1. CurrentInv => ReadyIsCurrent
  <2>. SUFFICES ASSUME CurrentInv, NothingLost, NEW d \in Docs, AtRest(d),
                       doc[d].status = "ready"
                PROVE  doc[d].vectors = doc[d].content
    BY DEF ReadyIsCurrent
  <2>1. VectorsCurrent(d)
    BY DEF CurrentInv, Current
  <2>2. ~Pledged(d)
    BY DEF Pledged, AtRest, Swept, Rewrites, Rewriting
  <2>. QED
    BY <2>1, <2>2 DEF VectorsCurrent
<1>2. Spec => []CurrentInv
  BY CurrentInvariant
<1>. QED
  BY <1>1, <1>2, PTL
=============================================================================

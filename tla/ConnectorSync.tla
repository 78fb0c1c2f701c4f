--------------------------- MODULE ConnectorSync ---------------------------
(***************************************************************************)
(* The mirror of one S3 source.  create_sync_job files a job under a lock  *)
(* on the source, a worker lists the remote objects page by page, creates  *)
(* or replaces their documents, prunes the documents of objects it did not *)
(* see and settles the job.  Users trigger syncs, delete documents and the *)
(* source; the scheduler starts due syncs and reaps jobs that went quiet.  *)
(*                                                                         *)
(* A page is one object, so a job visits the objects in listing order.     *)
(***************************************************************************)
EXTENDS Integers, FiniteSets

CONSTANTS
  NumObjects,   \* the objects are 1 .. NumObjects, in listing order
  NumJobs,      \* bound: sync jobs
  Workers,      \* the workers of the connectors queue
  None,         \* no document, no job
  BatchSize,    \* CONNECTOR_DELETE_BATCH_SIZE
  MinTracked,   \* CONNECTOR_DELETE_SAFETY_MIN_TRACKED
  MaxPercent,   \* connector_max_delete_percent
  MaxMessages,  \* bound: messages of one job in the queue
  MaxChanges,   \* bound: changes of remote objects
  MaxCuts,      \* bound: documents that users delete or ingestion fails
  MaxDeaths,    \* bound: runners that end without settling their job
  MaxOverruns   \* bound: times a job at work goes half an hour unreported

ASSUME ConnectorAssumption ==
  /\ {NumObjects, NumJobs, BatchSize, MaxMessages} \subseteq Nat \ {0}
  /\ {MinTracked, MaxPercent, MaxChanges, MaxCuts, MaxDeaths, MaxOverruns} \subseteq Nat
  /\ None \notin Nat

VARIABLES
  remote,   \* the contents of the objects in the bucket, 0 when there is none
  track,    \* the manifest row of an object together with its document
  source,   \* connector_sources.status
  due,      \* whether next_sync_at has passed
  jobs,     \* connector_sync_jobs.status
  quiet,    \* the jobs whose updated_at is over STALE_SYNC_AFTER_SECONDS old
  msgs,     \* how many messages of a job are queued
  asked,    \* the source status that a manual trigger has read
  run,      \* where each worker stands
  left      \* what remains of the bounds

vars == <<remote, track, source, due, jobs, quiet, msgs, asked, run, left>>

Objects == 1 .. NumObjects
Jobs == 1 .. NumJobs

(* Contents are numbered in the order in which they appear: an object      *)
(* never returns to contents that it had before.                           *)
Versions == 0 .. (NumObjects + MaxChanges)

(* sig is the signature in the manifest, hash the content of the document, *)
(* seen is last_seen_job_id and by the job that created the two rows.      *)
Tracked == [sig: Versions, hash: Versions, seen: Jobs \cup {None}, by: Jobs, failed: BOOLEAN]

ASSUME NoneAssumption == None \notin Tracked

(* A runner: the page it is at, what the page listed and the rows it read, *)
(* whether a file failed.  The last four fields serve the properties.      *)
Idle == [pc |-> "idle", job |-> None, at |-> 1, listed |-> 0, snap |-> None, failed |-> FALSE,
         found |-> {}, touched |-> {}, tracked |-> 0, removed |-> 0]

Runs ==
  [pc: {"idle", "list", "file", "stamp", "prune", "final"},
   job: Jobs \cup {None}, at: 1 .. (NumObjects + 1), listed: Versions,
   snap: Tracked \cup {None}, failed: BOOLEAN, found: SUBSET Objects,
   touched: SUBSET Objects, tracked: 0 .. NumObjects, removed: Nat]

TypeOK ==
  /\ remote \in [Objects -> Versions]
  /\ track \in [Objects -> Tracked \cup {None}]
  /\ source \in {"idle", "syncing", "error", "gone"}
  /\ due \in BOOLEAN
  /\ jobs \in [Jobs -> {"none", "pending", "running", "complete", "failed"}]
  /\ quiet \subseteq Jobs
  /\ msgs \in [Jobs -> 0 .. MaxMessages]
  /\ asked \in {"none", "idle", "syncing", "error"}
  /\ run \in [Workers -> Runs]
  /\ left \in [{"change", "cut", "death", "overrun"} -> Nat]

Init ==
  /\ remote = [o \in Objects |-> o]
  /\ track = [o \in Objects |-> None]
  /\ source = "idle"
  /\ due = FALSE
  /\ jobs = [j \in Jobs |-> "none"]
  /\ quiet = {}
  /\ msgs = [j \in Jobs |-> 0]
  /\ asked = "none"
  /\ run = [w \in Workers |-> Idle]
  /\ left = [change |-> MaxChanges, cut |-> MaxCuts, death |-> MaxDeaths, overrun |-> MaxOverruns]

Spend(what) == left[what] > 0 /\ left' = [left EXCEPT ![what] = @ - 1]

Busy == {w \in Workers : run[w].pc # "idle"}
Active == {j \in Jobs : jobs[j] \in {"pending", "running"}}
Rows == {o \in Objects : track[o] # None}
Unseen(j) == {o \in Rows : track[o].seen # j}

(* The runners that have yet to account for what happens to o.             *)
Touch(o) == run' = [w \in Workers |->
  IF w \in Busy THEN [run[w] EXCEPT !.touched = @ \cup {o}] ELSE run[w]]

-----------------------------------------------------------------------------

(* The bucket's owner changes or removes an object.                        *)
Change(o) ==
  /\ Spend("change")
  /\ \E v \in {0, NumObjects + 1 + MaxChanges - left.change} \ {remote[o]} :
       remote' = [remote EXCEPT ![o] = v]
  /\ Touch(o)
  /\ UNCHANGED <<track, source, due, jobs, quiet, msgs, asked>>

(* A user deletes a document; its manifest goes with it by the foreign key.*)
DeleteDocument(o) ==
  /\ o \in Rows /\ Spend("cut")
  /\ track' = [track EXCEPT ![o] = None]
  /\ Touch(o)
  /\ UNCHANGED <<remote, source, due, jobs, quiet, msgs, asked>>

(* The ingestion of a document fails.                                      *)
IngestionFails(o) ==
  /\ o \in Rows /\ ~track[o].failed /\ Spend("cut")
  /\ track' = [track EXCEPT ![o].failed = TRUE]
  /\ UNCHANGED <<remote, source, due, jobs, quiet, msgs, asked, run>>

(* next_sync_at passes.                                                    *)
ComesDue ==
  /\ source # "gone" /\ ~due
  /\ due' = TRUE
  /\ UNCHANGED <<remote, track, source, jobs, quiet, msgs, asked, run, left>>

(* A job goes half an hour without an update: nobody has picked it up, its *)
(* runner is dead, or its runner is at work on something long.             *)
GoesQuiet(j) ==
  /\ j \in Active \ quiet
  /\ IF \E w \in Busy : run[w].job = j THEN Spend("overrun") ELSE UNCHANGED left
  /\ quiet' = quiet \cup {j}
  /\ UNCHANGED <<remote, track, source, due, jobs, msgs, asked, run>>

-----------------------------------------------------------------------------

(* Mutant of FileJob: neither the status nor active jobs are looked at.    *)
FileJobUnchecked(written) ==
  /\ \E j \in Jobs :
       /\ jobs[j] = "none" /\ \A i \in 1 .. (j - 1) : jobs[i] # "none"
       /\ jobs' = [jobs EXCEPT ![j] = "pending"]
       /\ msgs' = [msgs EXCEPT ![j] = 1]
  /\ source' = written

(* What create_sync_job does under the lock on the source: an active job   *)
(* is handed back and, while pending, sent again; otherwise a job is       *)
(* filed.  The message is lost when the process dies before it sends, or   *)
(* the broker is unreachable.  written is the status the source is left    *)
(* with.                                                                   *)
FileJob(written) ==
  \/ /\ source # "syncing" /\ Active = {}
     /\ \E j \in Jobs :
          /\ jobs[j] = "none" /\ \A i \in 1 .. (j - 1) : jobs[i] # "none"
          /\ jobs' = [jobs EXCEPT ![j] = "pending"]
          /\ \E sent \in {0, 1} : msgs' = [msgs EXCEPT ![j] = sent]
     /\ source' = written
  \/ /\ \E j \in Active :
          /\ jobs[j] = "pending" /\ msgs[j] < MaxMessages
          /\ msgs' = [msgs EXCEPT ![j] = @ + 1]
     /\ UNCHANGED <<source, jobs>>

(* trigger_sync reads the source,                                          *)
Ask ==
  /\ asked = "none" /\ source # "gone"
  /\ asked' = source
  /\ UNCHANGED <<remote, track, source, due, jobs, quiet, msgs, run, left>>

(* and files a job.  Setting the status that was read already writes       *)
(* nothing, so a source read as syncing keeps the status it has by now.    *)
Trigger ==
  /\ asked # "none" /\ source # "gone"
  /\ FileJob(IF asked = "syncing" THEN source ELSE "syncing")
  /\ asked' = "none"
  /\ UNCHANGED <<remote, track, due, quiet, run, left>>

(* The source is syncing or gone, or maintenance refuses the write.        *)
TriggerRefused ==
  /\ asked # "none"
  /\ asked' = "none"
  /\ UNCHANGED <<remote, track, source, due, jobs, quiet, msgs, run, left>>

(* run_due_syncs, for a due source that is not syncing.                    *)
RunDue ==
  /\ due /\ source \notin {"syncing", "gone"}
  /\ FileJob("syncing")
  /\ UNCHANGED <<remote, track, due, quiet, asked, run, left>>

(* Mutant of Reap: only jobs that have started are looked for.             *)
ReapRunning(j) ==
  /\ j \in quiet /\ jobs[j] = "running"
  /\ jobs' = [jobs EXCEPT ![j] = "failed"]
  /\ quiet' = quiet \ {j}
  /\ IF source = "syncing" THEN source' = "error" /\ due' = FALSE
                           ELSE UNCHANGED <<source, due>>
  /\ UNCHANGED <<remote, track, msgs, asked, run, left>>

(* reap_stale_syncs, for one job.                                          *)
Reap(j) ==
  /\ j \in Active \cap quiet
  /\ jobs' = [jobs EXCEPT ![j] = "failed"]
  /\ quiet' = quiet \ {j}
  /\ IF source = "syncing" THEN source' = "error" /\ due' = FALSE
                           ELSE UNCHANGED <<source, due>>
  /\ UNCHANGED <<remote, track, msgs, asked, run, left>>

(* delete_source: every document of the source, then the source.           *)
DeleteSource ==
  /\ source # "gone" /\ Spend("cut")
  /\ source' = "gone"
  /\ track' = [o \in Objects |-> None]
  /\ due' = FALSE
  /\ UNCHANGED <<remote, jobs, quiet, msgs, asked, run>>

-----------------------------------------------------------------------------

(* Mutant of Start: a job is run whatever its status.                      *)
StartAny(w, j) ==
  /\ run[w].pc = "idle" /\ msgs[j] > 0
  /\ msgs' = [msgs EXCEPT ![j] = @ - 1]
  /\ jobs' = [jobs EXCEPT ![j] = "running"]
  /\ quiet' = quiet \ {j}
  /\ source' = "syncing"
  /\ run' = [run EXCEPT ![w] = [Idle EXCEPT !.pc = "list", !.job = j]]
  /\ UNCHANGED <<remote, track, due, asked, left>>

(* A worker takes a message.  Only a job that is still pending is run.     *)
Start(w, j) ==
  /\ run[w].pc = "idle" /\ msgs[j] > 0
  /\ msgs' = [msgs EXCEPT ![j] = @ - 1]
  /\ IF jobs[j] = "pending" /\ source # "gone"
     THEN /\ jobs' = [jobs EXCEPT ![j] = "running"]
          /\ quiet' = quiet \ {j}
          /\ source' = "syncing"
          /\ run' = [run EXCEPT ![w] = [Idle EXCEPT !.pc = "list", !.job = j]]
     ELSE UNCHANGED <<jobs, quiet, source, run>>
  /\ UNCHANGED <<remote, track, due, asked, left>>

(* The runner's step to pc, which reports progress on its job.             *)
Report(w, r) ==
  /\ run' = [run EXCEPT ![w] = r]
  /\ quiet' = quiet \ {run[w].job}
  /\ UNCHANGED <<remote, source, due, jobs, msgs, asked, left>>

(* The runner settles its job and the source.  When the source is gone the *)
(* update finds no row and the runner ends with an exception.              *)
Settle(w, outcome) ==
  /\ run' = [run EXCEPT ![w] = Idle]
  /\ IF source = "gone"
     THEN UNCHANGED <<jobs, source, due, quiet>>
     ELSE /\ jobs' = [jobs EXCEPT ![run[w].job] = outcome]
          /\ source' = IF outcome = "complete" THEN "idle" ELSE "error"
          /\ due' = FALSE
          /\ quiet' = quiet \ {run[w].job}
  /\ UNCHANGED <<remote, msgs, asked, left>>

(* An exception that ends the sync: a listing, a limit, a cancellation.    *)
FailSync(w) ==
  /\ w \in Busy
  /\ Settle(w, "failed")
  /\ UNCHANGED track

(* A death after which the job stays running.  The message of a dead       *)
(* worker is delivered again.                                              *)
Die(w) ==
  /\ w \in Busy /\ Spend("death")
  /\ run' = [run EXCEPT ![w] = Idle]
  /\ msgs' \in {msgs, [msgs EXCEPT ![run[w].job] = IF @ < MaxMessages THEN @ + 1 ELSE @]}
  /\ UNCHANGED <<remote, track, source, due, jobs, quiet, asked>>

-----------------------------------------------------------------------------

(* The next page, with the manifests of its objects and their documents.   *)
ListPage(w) ==
  LET r == run[w] IN
  /\ r.pc = "list" /\ r.at \in Objects
  /\ r.at = 1 => source # "gone"
  /\ run' = [run EXCEPT ![w] =
       IF remote[r.at] = 0
       THEN [r EXCEPT !.at = @ + 1]
       ELSE [r EXCEPT !.pc = "file", !.listed = remote[r.at], !.snap = track[r.at],
                      !.found = @ \cup {r.at}]]
  /\ UNCHANGED <<remote, track, source, due, jobs, quiet, msgs, asked, left>>

(* Mutant of Unchanged: the signatures are not compared.                   *)
UnchangedIfKnown(r) == r.snap # None /\ ~r.snap.failed

(* manifest_remote_unchanged                                               *)
Unchanged(r) == r.snap # None /\ ~r.snap.failed /\ r.snap.sig = r.listed

SkipFile(w) ==
  /\ run[w].pc = "file" /\ Unchanged(run[w])
  /\ Report(w, [run[w] EXCEPT !.pc = "stamp"])
  /\ UNCHANGED track

(* The object cannot be downloaded, validated or stored.                   *)
FileFails(w) ==
  /\ run[w].pc = "file" /\ ~Unchanged(run[w])
  /\ Report(w, [run[w] EXCEPT !.pc = "stamp", !.failed = TRUE])
  /\ UNCHANGED track

(* The object is downloaded: what the bucket holds now, which need not be  *)
(* what the page listed.                                                   *)
Downloaded(r) == r.pc = "file" /\ ~Unchanged(r) /\ remote[r.at] # 0

(* manifest_unchanged                                                      *)
SameContent(r) == r.snap # None /\ ~r.snap.failed /\ r.snap.hash = remote[r.at]

SkipContent(w) ==
  /\ Downloaded(run[w]) /\ SameContent(run[w])
  /\ Report(w, [run[w] EXCEPT !.pc = "stamp"])
  /\ UNCHANGED track

(* The rows that the runner read are still the rows of the object.         *)
SameRow(r) ==
  IF r.snap = None THEN track[r.at] = None
                   ELSE track[r.at] # None /\ track[r.at].by = r.snap.by

(* The document and its manifest as the sync stores them.                  *)
Stored(r, fails) ==
  [sig |-> r.listed, hash |-> remote[r.at], failed |-> fails,
   seen |-> IF r.snap = None THEN None ELSE track[r.at].seen,
   by |-> IF r.snap = None THEN r.job ELSE r.snap.by]

Store(w, fails) ==
  /\ Downloaded(run[w]) /\ ~SameContent(run[w])
  /\ SameRow(run[w]) /\ source # "gone"
  /\ track' = [track EXCEPT ![run[w].at] = Stored(run[w], fails)]

(* The document is stored and its ingestion queued, or refused for another *)
(* reason than a full queue, which counts as a failed file.                *)
SyncFile(w) ==
  \E refused \in BOOLEAN :
    /\ Store(w, refused)
    /\ Report(w, [run[w] EXCEPT !.pc = "stamp", !.failed = @ \/ refused])

(* A full queue ends the sync; the rest is left to the next one.           *)
DeferSync(w) ==
  /\ Store(w, TRUE)
  /\ Settle(w, "complete")

(* The flush fails on a row that is gone or already there; the session is  *)
(* of no use after that, and the job is left running.                      *)
FlushFails(w) ==
  /\ Downloaded(run[w]) /\ ~SameContent(run[w])
  /\ ~SameRow(run[w]) \/ source = "gone"
  /\ run' = [run EXCEPT ![w] = Idle]
  /\ UNCHANGED <<remote, track, source, due, jobs, quiet, msgs, asked, left>>

(* Mutant of Stamp: last_seen_job_id is not written.                       *)
StampNothing(w) ==
  /\ run[w].pc = "stamp"
  /\ Report(w, [run[w] EXCEPT !.pc = "list", !.at = @ + 1, !.listed = 0, !.snap = None])
  /\ UNCHANGED track

(* The manifests of the page get the job as last_seen_job_id.              *)
Stamp(w) ==
  LET r == run[w] IN
  /\ r.pc = "stamp"
  /\ track' = [track EXCEPT ![r.at] = IF @ = None THEN @ ELSE [@ EXCEPT !.seen = r.job]]
  /\ Report(w, [r EXCEPT !.pc = "list", !.at = @ + 1, !.listed = 0, !.snap = None])

-----------------------------------------------------------------------------

(* _guard_deletion_safety                                                  *)
TooMany(missing, tracked) ==
  missing # 0 /\ tracked >= MinTracked /\ missing * 100 > tracked * MaxPercent

Guard(w) ==
  LET r == run[w]
      tracked == Cardinality(Rows)
  IN
  /\ r.pc = "list" /\ r.at \notin Objects
  /\ UNCHANGED track
  /\ IF TooMany(Cardinality(Unseen(r.job)), tracked)
     THEN Settle(w, "failed")
     ELSE Report(w, [r EXCEPT !.pc = "prune", !.tracked = tracked])

(* A batch of documents whose objects the job has not seen.                *)
PruneBatch(w) ==
  LET r == run[w] IN
  /\ r.pc = "prune"
  /\ \E batch \in SUBSET Unseen(r.job) :
       /\ batch # {} /\ Cardinality(batch) <= BatchSize
       /\ batch = Unseen(r.job) \/ Cardinality(batch) = BatchSize
       /\ track' = [o \in Objects |-> IF o \in batch THEN None ELSE track[o]]
       /\ Report(w, [r EXCEPT !.removed = @ + Cardinality(batch)])

(* A file in the batch cannot be removed; the rows before it are.          *)
PruneFails(w) ==
  /\ run[w].pc = "prune"
  /\ \E some \in SUBSET Unseen(run[w].job) :
       /\ some # Unseen(run[w].job) /\ Cardinality(some) < BatchSize
       /\ track' = [o \in Objects |-> IF o \in some THEN None ELSE track[o]]
  /\ Settle(w, "failed")

PruneDone(w) ==
  /\ run[w].pc = "prune" /\ Unseen(run[w].job) = {}
  /\ Report(w, [run[w] EXCEPT !.pc = "final"])
  /\ UNCHANGED track

(* finalize_sync                                                           *)
Finalize(w) ==
  /\ run[w].pc = "final"
  /\ Settle(w, IF run[w].failed THEN "failed" ELSE "complete")
  /\ UNCHANGED track

-----------------------------------------------------------------------------

RunnerStep(w) ==
  \/ ListPage(w) \/ SkipFile(w) \/ FileFails(w) \/ SkipContent(w) \/ SyncFile(w)
  \/ DeferSync(w) \/ FlushFails(w) \/ Stamp(w) \/ Guard(w) \/ PruneBatch(w)
  \/ PruneFails(w) \/ PruneDone(w) \/ Finalize(w) \/ FailSync(w)

Next ==
  \/ \E o \in Objects : Change(o) \/ DeleteDocument(o) \/ IngestionFails(o)
  \/ ComesDue \/ Ask \/ Trigger \/ TriggerRefused \/ RunDue \/ DeleteSource
  \/ \E j \in Jobs : GoesQuiet(j) \/ Reap(j)
  \/ \E w \in Workers : RunnerStep(w) \/ Die(w) \/ \E j \in Jobs : Start(w, j)

Spec == Init /\ [][Next]_vars

(* Workers keep working, and the scheduler, whose chain of ticks goes on   *)
(* through exceptions, keeps reaping the jobs that time has run out for.   *)
Fairness ==
  /\ \A w \in Workers : WF_vars(RunnerStep(w))
  /\ \A j \in Jobs : WF_vars(GoesQuiet(j)) /\ WF_vars(Reap(j))

FairSpec == Spec /\ Fairness

-----------------------------------------------------------------------------

NoOverrun == left.overrun = MaxOverruns

(* However triggers, ticks and the reaper interleave, a source never has   *)
(* two jobs that are pending or running (create_sync_job under the lock).  *)
OneActiveJob == \A i, j \in Active : i = j

(* A source that is syncing has a job that will end or be reaped: one left *)
(* syncing without a job could not be synced again, since create_sync_job  *)
(* refuses it and run_due_syncs passes over it.                            *)
NeverWedged == source = "syncing" => Active # {}

(* A job is run by one worker at a time, duplicated messages and           *)
(* redelivery included, and so is a source unless a live job was reaped.   *)
OneRunner ==
  \A v, w \in Busy : v # w => run[v].job # run[w].job /\ ~NoOverrun

(* What the source row promises its callers: one job at a time, run once,  *)
(* and never a source that waits for a job it does not have.               *)
JobsSafe == OneActiveJob /\ NeverWedged /\ OneRunner

(* The pruning of a job stays within connector_max_delete_percent of what  *)
(* was tracked, though the limit is checked before the batches are         *)
(* selected afresh.                                                        *)
WithinDeleteLimit ==
  \A w \in Busy :
    LET r == run[w] IN
    NoOverrun /\ r.removed > 0 /\ r.tracked >= MinTracked
      => r.removed * 100 <= r.tracked * MaxPercent

Prunes(w, o) == run[w].pc = "prune" /\ run'[w].removed # run[w].removed
                  /\ track[o] # None /\ track'[o] = None

(* prune_stale deletes only documents whose object the job did not list,   *)
(* as long as the job is the only one at work on the source.               *)
PruneSparesListed ==
  [][\A w \in Workers : \A o \in run[w].found : NoOverrun => ~Prunes(w, o)]_vars

(* Both: a pruning stays within its limit and spares what its job listed.  *)
PruneSafe == []WithinDeleteLimit /\ PruneSparesListed

(* "missing remote objects delete the document": a document whose object   *)
(* the job listed and the bucket still holds is not deleted by a sync.     *)
DeletesOnlyMissing ==
  [][\A w \in Workers : \A o \in run[w].found : remote[o] # 0 => ~Prunes(w, o)]_vars

Mirrored(o) == IF remote[o] = 0 THEN track[o] = None
                                ELSE track[o] # None /\ track[o].hash = remote[o]

(* A job that finalize_sync completes has made every object that stayed as *)
(* it was since the job started a document of the same content, and has    *)
(* removed the documents of those that are missing.                        *)
CompleteMirrors ==
  [][\A w \in Workers :
       NoOverrun /\ run[w].pc = "final" /\ run'[w].pc = "idle" /\ jobs'[run[w].job] = "complete"
         => \A o \in Objects \ run[w].touched : Mirrored(o)]_vars

(* The outcome of a job is never rewritten, unless a live one was reaped.  *)
OutcomeStands ==
  [][\A j \in Jobs : NoOverrun /\ jobs[j] \in {"complete", "failed"} => jobs'[j] = jobs[j]]_vars

(* Every job settles, also one whose message was lost, whose worker died   *)
(* or whose source was deleted under it.                                   *)
EventuallySettled ==
  \A j \in Jobs : jobs[j] = "pending" ~> jobs[j] \in {"complete", "failed"}
=============================================================================

------------------------- MODULE ConnectorSyncProofs -------------------------
(***************************************************************************)
(* Proofs about ConnectorSync, for every number of objects, jobs and       *)
(* workers and every bound.                                                *)
(***************************************************************************)
EXTENDS ConnectorSync, FiniteSetTheorems, TLAPS

JobStates == {"none", "pending", "running", "complete", "failed"}

(* The bounds are only used up.                                            *)
BoundsOK == left.change <= MaxChanges /\ left.overrun <= MaxOverruns

(* A worker that is at work has a job, and no job has two workers: the job *)
(* was pending when it was taken and never is again.                       *)
JobsTaken ==
  /\ \A w \in Busy : run[w].job \in Jobs /\ jobs[run[w].job] \notin {"none", "pending"}
  /\ \A v, w \in Busy : run[v].job = run[w].job => v = w

(* The runner of a page is at an object.                                   *)
OnPage == \A w \in Workers : run[w].pc \in {"file", "stamp"} => run[w].at \in Objects

(* Until a live job is taken for a dead one, jobs at work are running and  *)
(* have reported lately.                                                   *)
LiveJobs ==
  NoOverrun => \A w \in Busy : jobs[run[w].job] = "running" /\ run[w].job \notin quiet

Inv == TypeOK /\ BoundsOK /\ OneActiveJob /\ NeverWedged /\ JobsTaken /\ OnPage /\ LiveJobs

-----------------------------------------------------------------------------

LEMMA IdleOK == Idle \in Runs /\ Idle.pc = "idle"
BY ConnectorAssumption DEF Idle, Runs, Versions, Tracked

LEMMA InitInv == Init => Inv
<1>. SUFFICES ASSUME Init PROVE Inv
  OBVIOUS
<1>. USE ConnectorAssumption DEF Init
<1>1. TypeOK
  <2>1. run \in [Workers -> Runs]
    BY IdleOK
  <2>2. \A o \in Objects : o \in Versions
    BY DEF Objects, Versions
  <2>. QED
    <3>1. remote \in [Objects -> Versions] /\ track \in [Objects -> Tracked \cup {None}]
      BY <2>2
    <3>2. /\ jobs \in [Jobs -> {"none", "pending", "running", "complete", "failed"}]
          /\ msgs \in [Jobs -> 0 .. MaxMessages]
          /\ left \in [{"change", "cut", "death", "overrun"} -> Nat]
      OBVIOUS
    <3>. QED
      BY <2>1, <3>1, <3>2 DEF TypeOK
<1>2. Busy = {} /\ Active = {} /\ OnPage
  BY IdleOK DEF Busy, Active, OnPage
<1>. QED
  BY <1>1, <1>2 DEF Inv, BoundsOK, OneActiveJob, NeverWedged, JobsTaken, LiveJobs

-----------------------------------------------------------------------------

(* What a runner's step may do to anything but the documents: it goes on   *)
(* with its job,                                                           *)
GoesOn(w) ==
  /\ \E r \in Runs :
       /\ r.pc # "idle" /\ r.job = run[w].job
       /\ r.pc \in {"file", "stamp"} => r.at \in Objects
       /\ run' = [run EXCEPT ![w] = r]
  /\ UNCHANGED jobs /\ UNCHANGED source

(* or it ends, and may settle its job.                                     *)
Ends(w) ==
  /\ run' = [run EXCEPT ![w] = Idle]
  /\ \/ UNCHANGED jobs /\ UNCHANGED source
     \/ /\ \E out \in {"complete", "failed"} : jobs' = [jobs EXCEPT ![run[w].job] = out]
        /\ source' \in {"idle", "error"}

(* The documents that may be tracked are finitely many.                    *)
LEMMA RowsFinite ==
  /\ IsFiniteSet(Rows) /\ Cardinality(Rows) \in 0 .. NumObjects
  /\ \A j : Unseen(j) \subseteq Rows
<1>1. IsFiniteSet(Objects) /\ Cardinality(Objects) = NumObjects
  <2>1. NumObjects \in Nat /\ NumObjects >= 1
    BY ConnectorAssumption
  <2>2. /\ IsFiniteSet(1 .. NumObjects)
        /\ Cardinality(1 .. NumObjects)
             = IF 1 > NumObjects THEN 0 ELSE NumObjects - 1 + 1
    <3>1. 1 \in Int /\ NumObjects \in Int
      BY <2>1
    <3>. QED
      BY ONLY <3>1, FS_Interval
  <2>3. Cardinality(1 .. NumObjects) = NumObjects
    BY ONLY <2>1, <2>2
  <2>. QED
    BY ONLY <2>2, <2>3 DEF Objects
<1>2. Rows \subseteq Objects
  BY DEF Rows
<1>. QED
  BY <1>1, <1>2, FS_Subset, FS_CardinalityType DEF Unseen

(* A step of a runner keeps what it touches well-formed.                   *)
LEMMA RunnerShape ==
  ASSUME TypeOK, JobsTaken, OnPage, NEW w \in Workers, RunnerStep(w)
  PROVE  /\ w \in Busy
         /\ GoesOn(w) \/ Ends(w)
         /\ track' \in [Objects -> Tracked \cup {None}]
         /\ due' \in BOOLEAN
         /\ quiet' \subseteq quiet
         /\ UNCHANGED <<remote, msgs, asked, left>>
<1>. DEFINE Shape ==
       /\ w \in Busy
       /\ GoesOn(w) \/ Ends(w)
       /\ track' \in [Objects -> Tracked \cup {None}]
       /\ due' \in BOOLEAN
       /\ quiet' \subseteq quiet
       /\ UNCHANGED <<remote, msgs, asked, left>>
<1>. USE ConnectorAssumption
<1>1. run[w] \in Runs /\ run \in [Workers -> Runs]
  BY DEF TypeOK
<1>2. track \in [Objects -> Tracked \cup {None}] /\ remote \in [Objects -> Versions]
      /\ due \in BOOLEAN
  BY DEF TypeOK
<1>3. ASSUME NEW out \in {"complete", "failed"}, w \in Busy, Settle(w, out),
             track' \in [Objects -> Tracked \cup {None}]
      PROVE Shape
  BY <1>2, <1>3 DEF Settle, Ends
<1>4. ASSUME NEW r \in Runs, r.pc # "idle", r.job = run[w].job, w \in Busy, Report(w, r),
             r.pc \in {"file", "stamp"} => r.at \in Objects,
             track' \in [Objects -> Tracked \cup {None}]
      PROVE Shape
  BY <1>2, <1>4 DEF Report, GoesOn
<1>5. CASE ListPage(w)
  <2>. DEFINE r == run[w]
              nxt == IF remote[r.at] = 0
                     THEN [r EXCEPT !.at = @ + 1]
                     ELSE [r EXCEPT !.pc = "file", !.listed = remote[r.at],
                                    !.snap = track[r.at], !.found = @ \cup {r.at}]
  <2>1. r.at \in Objects /\ r.pc = "list" /\ run' = [run EXCEPT ![w] = nxt]
        /\ UNCHANGED <<remote, track, source, due, jobs, quiet, msgs, asked, left>>
    BY <1>5 DEF ListPage
  <2>2. CASE remote[r.at] = 0
    <3>. DEFINE n == r.at + 1
    <3>1. n \in 1 .. (NumObjects + 1) /\ nxt = [r EXCEPT !.at = n]
      BY <2>1, <2>2 DEF Objects
    <3>. HIDE DEF n, nxt
    <3>2. nxt \in Runs /\ nxt.pc = "list" /\ nxt.job = r.job
      BY <1>1, <2>1, <3>1 DEF Runs
    <3>. QED
      BY <1>2, <2>1, <3>2 DEF Busy, GoesOn
  <2>3. CASE remote[r.at] # 0
    <3>. DEFINE seen == r.found \cup {r.at}
    <3>1. seen \in SUBSET Objects
      BY <1>1, <2>1 DEF Runs
    <3>2. remote[r.at] \in Versions /\ track[r.at] \in Tracked \cup {None}
      BY <1>2, <2>1
    <3>3. nxt = [r EXCEPT !.pc = "file", !.listed = remote[r.at],
                          !.snap = track[r.at], !.found = seen]
      BY <2>3
    <3>. HIDE DEF seen, nxt
    <3>4. nxt \in Runs /\ nxt.pc = "file" /\ nxt.job = r.job /\ nxt.at = r.at
      BY <1>1, <3>1, <3>2, <3>3 DEF Runs
    <3>. QED
      BY <1>2, <2>1, <3>4 DEF Busy, GoesOn
  <2>. QED
    BY <2>2, <2>3
<1>6. CASE SkipFile(w) \/ FileFails(w) \/ SkipContent(w)
  <2>1. /\ \A f \in BOOLEAN : [run[w] EXCEPT !.pc = "stamp", !.failed = f] \in Runs
        /\ [run[w] EXCEPT !.pc = "stamp"] \in Runs
    BY <1>1 DEF Runs
  <2>. QED
    BY <1>1, <1>2, <1>4, <1>6, <2>1 DEF SkipFile, FileFails, SkipContent, Downloaded, Busy, OnPage, Runs
<1>7. ASSUME NEW fails \in BOOLEAN, Store(w, fails)
      PROVE track' \in [Objects -> Tracked \cup {None}] /\ w \in Busy
  <2>1. w \in Busy /\ run[w].job \in Jobs
    BY <1>7 DEF Store, Downloaded, Busy, JobsTaken
  <2>2. run[w].at \in Objects
    BY <1>7 DEF Store, Downloaded, OnPage
  <2>. DEFINE r == run[w]
              by == IF r.snap = None THEN r.job ELSE r.snap.by
              seen == IF r.snap = None THEN None ELSE track[r.at].seen
  <2>3. r.listed \in Versions /\ remote[r.at] \in Versions
    BY <1>1, <1>2, <2>2 DEF Runs
  <2>4. by \in Jobs /\ seen \in Jobs \cup {None}
    <3>1. r.snap # None => r.snap \in Tracked /\ track[r.at] \in Tracked
      BY <1>1, <1>2, <1>7, <2>2 DEF Runs, Store, SameRow
    <3>. QED
      BY <2>1, <3>1 DEF Tracked
  <2>5. Stored(r, fails) = [sig |-> r.listed, hash |-> remote[r.at], failed |-> fails,
                            seen |-> seen, by |-> by]
    BY DEF Stored
  <2>6. Stored(r, fails) \in Tracked
    BY <2>3, <2>4, <2>5 DEF Tracked
  <2>. QED
    BY <1>2, <1>7, <2>1, <2>6 DEF Store
<1>8. CASE SyncFile(w)
  <2>1. PICK refused \in BOOLEAN :
          /\ Store(w, refused)
          /\ Report(w, [run[w] EXCEPT !.pc = "stamp", !.failed = @ \/ refused])
    BY <1>8 DEF SyncFile
  <2>2. [run[w] EXCEPT !.pc = "stamp", !.failed = @ \/ refused] \in Runs
    BY <1>1 DEF Runs
  <2>. QED
    BY <1>1, <1>4, <1>7, <2>1, <2>2 DEF Store, Downloaded, OnPage, Runs
<1>9. CASE DeferSync(w)
  BY <1>3, <1>7, <1>9 DEF DeferSync
<1>10. CASE FlushFails(w)
  BY <1>2, <1>10 DEF FlushFails, Downloaded, Busy, Ends
<1>11. CASE Stamp(w)
  <2>. DEFINE r == run[w]
              nxt == [r EXCEPT !.pc = "list", !.at = @ + 1, !.listed = 0, !.snap = None]
  <2>1. /\ r.pc = "stamp" /\ Report(w, nxt)
        /\ track' = [track EXCEPT ![r.at] = IF @ = None THEN @ ELSE [@ EXCEPT !.seen = r.job]]
    BY <1>11 DEF Stamp
  <2>2. w \in Busy /\ r.job \in Jobs
    BY <2>1 DEF Busy, JobsTaken
  <2>3. \A t \in Tracked : [t EXCEPT !.seen = r.job] \in Tracked
    BY <2>2 DEF Tracked
  <2>4. track' \in [Objects -> Tracked \cup {None}]
    BY <1>2, <2>1, <2>3
  <2>5. r.at + 1 \in 1 .. (NumObjects + 1) /\ 0 \in Versions
    BY <2>1 DEF OnPage, Objects, Versions
  <2>6. nxt \in Runs /\ nxt.pc = "list" /\ nxt.job = r.job
    BY <1>1, <2>5 DEF Runs
  <2>. QED
    BY <1>4, <2>1, <2>2, <2>4, <2>6
<1>12. CASE Guard(w)
  <2>. DEFINE nxt == [run[w] EXCEPT !.pc = "prune", !.tracked = Cardinality(Rows)]
  <2>1. w \in Busy /\ UNCHANGED track /\ (Settle(w, "failed") \/ Report(w, nxt))
    BY <1>12 DEF Guard, Busy
  <2>2. nxt \in Runs /\ nxt.pc = "prune" /\ nxt.job = run[w].job
    BY <1>1, RowsFinite DEF Runs
  <2>. QED
    BY <1>2, <1>3, <1>4, <2>1, <2>2
<1>13. CASE PruneBatch(w)
  <2>. DEFINE r == run[w]
  <2>1. PICK batch \in SUBSET Unseen(r.job) :
          /\ track' = [o \in Objects |-> IF o \in batch THEN None ELSE track[o]]
          /\ Report(w, [r EXCEPT !.removed = @ + Cardinality(batch)])
    BY <1>13 DEF PruneBatch
  <2>2. w \in Busy /\ r.pc = "prune"
    BY <1>13 DEF PruneBatch, Busy
  <2>. DEFINE n == r.removed + Cardinality(batch)
              nxt == [r EXCEPT !.removed = n]
  <2>3. n \in Nat
    <3>1. r.removed \in Nat
      BY <1>1 DEF Runs
    <3>2. batch \subseteq Rows /\ IsFiniteSet(Rows)
      BY RowsFinite
    <3>3. IsFiniteSet(batch)
      BY ONLY <3>2, FS_Subset
    <3>4. Cardinality(batch) \in Nat
      BY ONLY <3>3, FS_CardinalityType
    <3>. QED
      BY <3>1, <3>4
  <2>4. Report(w, nxt)
    BY <2>1
  <2>. HIDE DEF n
  <2>5. nxt \in Runs /\ nxt.pc = "prune" /\ nxt.job = r.job
    BY <1>1, <2>2, <2>3 DEF Runs
  <2>6. track' \in [Objects -> Tracked \cup {None}]
    BY <1>2, <2>1
  <2>. QED
    BY <1>4, <2>2, <2>4, <2>5, <2>6
<1>14. CASE PruneFails(w)
  <2>1. w \in Busy /\ Settle(w, "failed")
    BY <1>14 DEF PruneFails, Busy
  <2>2. track' \in [Objects -> Tracked \cup {None}]
    BY <1>2, <1>14 DEF PruneFails
  <2>. QED
    BY <1>3, <2>1, <2>2
<1>15. CASE PruneDone(w)
  <2>. DEFINE nxt == [run[w] EXCEPT !.pc = "final"]
  <2>1. w \in Busy /\ UNCHANGED track /\ Report(w, nxt)
    BY <1>15 DEF PruneDone, Busy
  <2>2. nxt \in Runs /\ nxt.pc = "final" /\ nxt.job = run[w].job
    BY <1>1 DEF Runs
  <2>. QED
    BY <1>2, <1>4, <2>1, <2>2
<1>16. CASE Finalize(w) \/ FailSync(w)
  BY <1>2, <1>3, <1>16 DEF Finalize, FailSync, Busy
<1>. QED
  BY <1>5, <1>6, <1>8, <1>9, <1>10, <1>11, <1>12, <1>13, <1>14, <1>15, <1>16 DEF RunnerStep

-----------------------------------------------------------------------------

(* Nothing gives a bound back.                                             *)
LEMMA BoundsStep ==
  TypeOK /\ BoundsOK /\ JobsTaken /\ OnPage /\ [Next]_vars =>
    BoundsOK' /\ (NoOverrun' => NoOverrun)
      /\ left' \in [{"change", "cut", "death", "overrun"} -> Nat]
<1>. SUFFICES ASSUME TypeOK, BoundsOK, JobsTaken, OnPage, [Next]_vars
              PROVE  BoundsOK' /\ (NoOverrun' => NoOverrun)
                     /\ left' \in [{"change", "cut", "death", "overrun"} -> Nat]
  OBVIOUS
<1>1. UNCHANGED left \/ \E what \in {"change", "cut", "death", "overrun"} : Spend(what)
  <2>1. ASSUME NEW w \in Workers, RunnerStep(w) PROVE UNCHANGED left
    BY <2>1, RunnerShape
  <2>. QED
    BY <2>1 DEF Next, vars, Change, DeleteDocument, IngestionFails, ComesDue, Ask, Trigger,
       TriggerRefused, RunDue, DeleteSource, GoesQuiet, Reap, Die, Start
<1>. QED
  BY <1>1, ConnectorAssumption DEF TypeOK, BoundsOK, NoOverrun, Spend

(* Every step keeps the types.                                             *)
LEMMA TypeStep == TypeOK /\ BoundsOK /\ JobsTaken /\ OnPage /\ [Next]_vars => TypeOK'
<1>. SUFFICES ASSUME TypeOK, BoundsOK, JobsTaken, OnPage, [Next]_vars PROVE TypeOK'
  OBVIOUS
<1>0. left' \in [{"change", "cut", "death", "overrun"} -> Nat]
  BY BoundsStep
<1>. USE ConnectorAssumption
<1>1. ASSUME NEW o \in Objects, Touch(o) PROVE run' \in [Workers -> Runs]
  <2>1. ASSUME NEW r \in Runs PROVE [r EXCEPT !.touched = @ \cup {o}] \in Runs
    <3>1. r.touched \cup {o} \in SUBSET Objects
      BY DEF Runs
    <3>. QED
      BY <3>1 DEF Runs
  <2>. QED
    BY <1>1, <2>1 DEF Touch, TypeOK
<1>2. ASSUME NEW o \in Objects, Change(o) PROVE TypeOK'
  <2>1. left.change > 0 /\ left.change \in Nat /\ left.change <= MaxChanges
    BY <1>2 DEF Change, Spend, TypeOK, BoundsOK
  <2>2. 0 \in Versions /\ NumObjects + 1 + MaxChanges - left.change \in Versions
    BY <2>1 DEF Versions
  <2>3. remote' \in [Objects -> Versions]
    BY <1>2, <2>2 DEF Change, TypeOK
  <2>. QED
    BY <1>0, <1>1, <1>2, <2>3 DEF Change, TypeOK
<1>3. ASSUME NEW o \in Objects, DeleteDocument(o) PROVE TypeOK'
  BY <1>0, <1>1, <1>3 DEF DeleteDocument, TypeOK
<1>4. ASSUME NEW o \in Objects, IngestionFails(o) PROVE TypeOK'
  <2>1. track[o] \in Tracked
    BY <1>4 DEF IngestionFails, Rows, TypeOK
  <2>2. [track[o] EXCEPT !.failed = TRUE] \in Tracked
    BY <2>1 DEF Tracked
  <2>3. track' = [track EXCEPT ![o] = [track[o] EXCEPT !.failed = TRUE]]
    BY <1>4 DEF IngestionFails
  <2>. QED
    BY <1>0, <1>4, <2>2, <2>3 DEF IngestionFails, TypeOK
<1>5. CASE ComesDue \/ DeleteSource
  BY <1>0, <1>5 DEF ComesDue, DeleteSource, TypeOK
<1>6. ASSUME NEW j \in Jobs, GoesQuiet(j) \/ Reap(j) PROVE TypeOK'
  BY <1>0, <1>6 DEF GoesQuiet, Reap, TypeOK
<1>7. ASSUME NEW s \in {"idle", "syncing", "error"}, FileJob(s)
      PROVE  /\ source' \in {"idle", "syncing", "error", "gone"}
             /\ jobs' \in [Jobs -> {"none", "pending", "running", "complete", "failed"}]
             /\ msgs' \in [Jobs -> 0 .. MaxMessages]
  BY <1>7 DEF FileJob, Active, TypeOK
<1>8. CASE Ask \/ Trigger \/ TriggerRefused \/ RunDue
  BY <1>0, <1>7, <1>8 DEF Ask, Trigger, TriggerRefused, RunDue, TypeOK
<1>9. ASSUME NEW w \in Workers, NEW j \in Jobs, Start(w, j) PROVE TypeOK'
  <2>1. [Idle EXCEPT !.pc = "list", !.job = j] \in Runs
    BY IdleOK DEF Runs
  <2>. QED
    BY <1>0, <1>9, <2>1 DEF Start, TypeOK
<1>10. ASSUME NEW w \in Workers, Die(w) PROVE TypeOK'
  <2>1. run[w].job \in Jobs
    BY <1>10 DEF Die, JobsTaken
  <2>. QED
    BY <1>0, <1>10, <2>1, IdleOK DEF Die, TypeOK
<1>11. ASSUME NEW w \in Workers, RunnerStep(w) PROVE TypeOK'
  <2>1. run[w].job \in Jobs
    BY <1>11, RunnerShape DEF JobsTaken
  <2>. QED
    BY <1>0, <1>11, <2>1, RunnerShape, IdleOK DEF GoesOn, Ends, TypeOK
<1>12. CASE UNCHANGED vars
  BY <1>12 DEF vars, TypeOK
<1>. QED
  BY <1>2, <1>3, <1>4, <1>5, <1>6, <1>8, <1>9, <1>10, <1>11, <1>12 DEF Next

-----------------------------------------------------------------------------

(* A job is filed only when none is active, and whatever takes the last    *)
(* active job away takes the source out of syncing as well.                *)
LEMMA SourceStep ==
  TypeOK /\ JobsTaken /\ OnPage /\ OneActiveJob /\ NeverWedged /\ [Next]_vars =>
    OneActiveJob' /\ NeverWedged'
<1>. SUFFICES ASSUME TypeOK, JobsTaken, OnPage, OneActiveJob, NeverWedged, [Next]_vars
              PROVE  OneActiveJob' /\ NeverWedged'
  OBVIOUS
<1>. USE DEF OneActiveJob, NeverWedged, Active
<1>0. jobs \in [Jobs -> {"none", "pending", "running", "complete", "failed"}]
  BY DEF TypeOK
<1>1. ASSUME NEW o \in Objects, Change(o) \/ DeleteDocument(o) \/ IngestionFails(o)
      PROVE OneActiveJob' /\ NeverWedged'
  BY <1>1 DEF Change, DeleteDocument, IngestionFails
<1>2. CASE ComesDue \/ Ask \/ TriggerRefused \/ DeleteSource
  BY <1>2 DEF ComesDue, Ask, TriggerRefused, DeleteSource
<1>3. ASSUME NEW s, FileJob(s) PROVE OneActiveJob' /\ NeverWedged'
  BY <1>0, <1>3 DEF FileJob
<1>4. CASE Trigger \/ RunDue
  BY <1>3, <1>4 DEF Trigger, RunDue
<1>5. ASSUME NEW j \in Jobs, GoesQuiet(j) PROVE OneActiveJob' /\ NeverWedged'
  BY <1>5 DEF GoesQuiet
<1>6. ASSUME NEW j \in Jobs, Reap(j) PROVE OneActiveJob' /\ NeverWedged'
  BY <1>0, <1>6 DEF Reap
<1>7. ASSUME NEW w \in Workers, NEW j \in Jobs, Start(w, j)
      PROVE OneActiveJob' /\ NeverWedged'
  BY <1>0, <1>7 DEF Start
<1>8. ASSUME NEW w \in Workers, Die(w) PROVE OneActiveJob' /\ NeverWedged'
  BY <1>8 DEF Die
<1>9. ASSUME NEW w \in Workers, RunnerStep(w) PROVE OneActiveJob' /\ NeverWedged'
  <2>1. GoesOn(w) \/ Ends(w)
    BY <1>9, RunnerShape
  <2>. QED
    BY <1>0, <2>1 DEF GoesOn, Ends
<1>10. CASE UNCHANGED vars
  BY <1>10 DEF vars
<1>. QED
  BY <1>1, <1>2, <1>4, <1>5, <1>6, <1>7, <1>8, <1>9, <1>10 DEF Next

(* A worker takes only a pending job, and settles only its own.            *)
LEMMA RunnersStep ==
  TypeOK /\ BoundsOK /\ JobsTaken /\ OnPage /\ LiveJobs /\ [Next]_vars =>
    JobsTaken' /\ OnPage' /\ LiveJobs'
<1>. SUFFICES ASSUME TypeOK, BoundsOK, JobsTaken, OnPage, LiveJobs, [Next]_vars
              PROVE  JobsTaken' /\ OnPage' /\ LiveJobs'
  OBVIOUS
<1>0. NoOverrun' => NoOverrun
  BY BoundsStep
<1>. USE DEF JobsTaken, OnPage, LiveJobs, Busy
<1>1. /\ jobs \in [Jobs -> {"none", "pending", "running", "complete", "failed"}]
      /\ run \in [Workers -> Runs] /\ quiet \subseteq Jobs
  BY DEF TypeOK
<1>2. ASSUME NEW o \in Objects, Change(o) \/ DeleteDocument(o)
      PROVE JobsTaken' /\ OnPage' /\ LiveJobs'
  <2>1. \A w \in Workers : /\ run'[w].pc = run[w].pc /\ run'[w].job = run[w].job
                           /\ run'[w].at = run[w].at
    BY <1>1, <1>2 DEF Change, DeleteDocument, Touch, Runs
  <2>. QED
    BY <1>0, <1>2, <2>1 DEF Change, DeleteDocument
<1>3. ASSUME NEW o \in Objects, IngestionFails(o)
      PROVE JobsTaken' /\ OnPage' /\ LiveJobs'
  BY <1>0, <1>3 DEF IngestionFails
<1>4. CASE ComesDue \/ Ask \/ TriggerRefused \/ DeleteSource
  BY <1>0, <1>4 DEF ComesDue, Ask, TriggerRefused, DeleteSource
<1>5. CASE Trigger \/ RunDue
  <2>1. PICK s : FileJob(s)
    BY <1>5 DEF Trigger, RunDue
  <2>2. \A w \in Workers : run[w].pc # "idle" => jobs'[run[w].job] = jobs[run[w].job]
    BY <1>1, <2>1 DEF FileJob
  <2>. QED
    BY <1>0, <1>5, <2>2 DEF Trigger, RunDue
<1>6. ASSUME NEW j \in Jobs, GoesQuiet(j) PROVE JobsTaken' /\ OnPage' /\ LiveJobs'
  <2>1. NoOverrun' => \A w \in Workers : run[w].pc # "idle" => run[w].job # j
    BY <1>6, ConnectorAssumption DEF GoesQuiet, Spend, NoOverrun, TypeOK, BoundsOK
  <2>. QED
    BY <1>0, <1>6, <2>1 DEF GoesQuiet
<1>7. ASSUME NEW j \in Jobs, Reap(j) PROVE JobsTaken' /\ OnPage' /\ LiveJobs'
  BY <1>0, <1>1, <1>7 DEF Reap
<1>8. ASSUME NEW w \in Workers, NEW j \in Jobs, Start(w, j)
      PROVE JobsTaken' /\ OnPage' /\ LiveJobs'
  <2>1. CASE jobs[j] = "pending" /\ source # "gone"
    <3>. DEFINE r == [Idle EXCEPT !.pc = "list", !.job = j]
    <3>1. r.pc = "list" /\ r.job = j
      BY DEF Idle
    <3>2. /\ run' = [run EXCEPT ![w] = r] /\ run[w].pc = "idle"
          /\ jobs' = [jobs EXCEPT ![j] = "running"] /\ quiet' = quiet \ {j} /\ left' = left
      BY <1>8, <2>1 DEF Start
    <3>. HIDE DEF r
    <3>. QED
      BY <1>0, <1>1, <2>1, <3>1, <3>2
  <2>2. CASE ~(jobs[j] = "pending" /\ source # "gone")
    BY <1>0, <1>8, <2>2 DEF Start
  <2>. QED
    BY <2>1, <2>2
<1>9. ASSUME NEW w \in Workers, run' = [run EXCEPT ![w] = Idle], quiet' \subseteq quiet,
             UNCHANGED jobs \/ \E out \in {"complete", "failed"} :
                                 jobs' = [jobs EXCEPT ![run[w].job] = out],
             w \in Busy
      PROVE JobsTaken' /\ OnPage' /\ LiveJobs'
  BY <1>0, <1>1, <1>9, IdleOK
<1>10. ASSUME NEW w \in Workers, Die(w) PROVE JobsTaken' /\ OnPage' /\ LiveJobs'
  BY <1>9, <1>10 DEF Die
<1>11. ASSUME NEW w \in Workers, RunnerStep(w) PROVE JobsTaken' /\ OnPage' /\ LiveJobs'
  <2>1. w \in Busy /\ quiet' \subseteq quiet
    BY <1>11, RunnerShape
  <2>2. CASE GoesOn(w)
    BY <1>0, <1>1, <2>1, <2>2 DEF GoesOn
  <2>3. CASE Ends(w)
    BY <1>9, <2>1, <2>3 DEF Ends
  <2>. QED
    BY <1>11, <2>2, <2>3, RunnerShape
<1>12. CASE UNCHANGED vars
  BY <1>12 DEF vars, NoOverrun
<1>. QED
  BY <1>2, <1>3, <1>4, <1>5, <1>6, <1>7, <1>8, <1>10, <1>11, <1>12 DEF Next

-----------------------------------------------------------------------------

(* The invariant is inductive.                                             *)
LEMMA InvStep == Inv /\ [Next]_vars => Inv'
BY BoundsStep, TypeStep, SourceStep, RunnersStep DEF Inv

LEMMA InvHolds == Spec => []Inv
BY InitInv, InvStep, PTL DEF Spec

(* The rows, the jobs and the runners keep their types.                    *)
THEOREM TypeCorrect == Spec => []TypeOK
BY InvHolds, PTL DEF Inv

(* create_sync_job never files a second job for a source while one is      *)
(* pending or running, also when live jobs are reaped.                     *)
THEOREM JobsExclude == Spec => []OneActiveJob
BY InvHolds, PTL DEF Inv

(* No interleaving leaves a source syncing without a job that can end it.  *)
THEOREM SourceNeverWedged == Spec => []NeverWedged
BY InvHolds, PTL DEF Inv

(* Messages that are sent twice or redelivered never make two workers run  *)
(* the same job, nor two jobs of the source unless a live one was reaped.  *)
THEOREM RunnersExclude == Spec => []OneRunner
<1>1. Inv => OneRunner
  <2>. SUFFICES ASSUME Inv, NEW v \in Busy, NEW w \in Busy, v # w
                PROVE  run[v].job # run[w].job /\ ~NoOverrun
    BY DEF OneRunner
  <2>1. run[v].job # run[w].job
    BY DEF Inv, JobsTaken
  <2>2. NoOverrun => run[v].job \in Active /\ run[w].job \in Active
    BY DEF Inv, JobsTaken, LiveJobs, Active
  <2>. QED
    BY <2>1, <2>2 DEF Inv, OneActiveJob
<1>. QED
  BY <1>1, InvHolds, PTL

(* The three facts about the jobs of a source together, as the run checks  *)
(* them.                                                                   *)
THEOREM JobsAreSafe == Spec => []JobsSafe
BY JobsExclude, SourceNeverWedged, RunnersExclude, PTL DEF JobsSafe

(* A settled job is not rewritten, unless a live one was reaped.           *)
THEOREM OutcomesStand == Spec => OutcomeStands
<1>. DEFINE Stands == \A j \in Jobs :
       NoOverrun /\ jobs[j] \in {"complete", "failed"} => jobs'[j] = jobs[j]
<1>1. Inv /\ [Next]_vars => [Stands]_vars
  <2>. SUFFICES ASSUME Inv, [Next]_vars, NoOverrun, NEW j \in Jobs,
                       jobs[j] \in {"complete", "failed"}
                PROVE  jobs'[j] = jobs[j]
    OBVIOUS
  <2>1. jobs \in [Jobs -> {"none", "pending", "running", "complete", "failed"}]
    BY DEF Inv, TypeOK
  <2>2. ASSUME NEW w \in Workers, RunnerStep(w) PROVE jobs'[j] = jobs[j]
    <3>1. w \in Busy /\ (GoesOn(w) \/ Ends(w))
      BY <2>2, RunnerShape DEF Inv
    <3>2. jobs[run[w].job] = "running"
      BY <3>1 DEF Inv, LiveJobs
    <3>. QED
      BY <2>1, <3>1, <3>2 DEF GoesOn, Ends
  <2>3. ASSUME NEW w \in Workers, Die(w) \/ \E i \in Jobs : Start(w, i)
        PROVE jobs'[j] = jobs[j]
    BY <2>1, <2>3 DEF Die, Start
  <2>4. ASSUME NEW i \in Jobs, GoesQuiet(i) \/ Reap(i) PROVE jobs'[j] = jobs[j]
    BY <2>1, <2>4 DEF GoesQuiet, Reap, Active
  <2>5. CASE Trigger \/ RunDue
    BY <2>1, <2>5 DEF Trigger, RunDue, FileJob
  <2>6. ASSUME NEW o \in Objects, Change(o) \/ DeleteDocument(o) \/ IngestionFails(o)
        PROVE jobs'[j] = jobs[j]
    BY <2>6 DEF Change, DeleteDocument, IngestionFails
  <2>7. CASE ComesDue \/ Ask \/ TriggerRefused \/ DeleteSource \/ UNCHANGED vars
    BY <2>7 DEF ComesDue, Ask, TriggerRefused, DeleteSource, vars
  <2>. QED
    BY <2>2, <2>3, <2>4, <2>5, <2>6, <2>7 DEF Next
<1>. QED
  BY <1>1, InvHolds, PTL DEF Spec, OutcomeStands
-----------------------------------------------------------------------------

(* What a runner knows about the source.  First, where it stands in the    *)
(* listing.                                                                *)
InPlace ==
  \A w \in Workers :
    LET r == run[w] IN
    /\ r.pc \in {"file", "stamp"} => r.at \in r.found
    /\ r.pc \in {"prune", "final"} => r.at \notin Objects

(* last_seen_job_id holds only jobs that have been run: a job that starts  *)
(* finds no row with its own mark.                                         *)
SeenRan ==
  \A o \in Rows : track[o].seen \in Jobs => jobs[track[o].seen] \notin {"none", "pending"}

(* The contents that the bucket has not shown yet.                         *)
NextVersion == NumObjects + 1 + MaxChanges - left.change

(* Contents never return, so a signature that is still that of the object  *)
(* tells that the document holds what the bucket holds.                    *)
Signed ==
  /\ \A o \in Objects : remote[o] < NextVersion
  /\ \A w \in Workers : run[w].pc = "file" => run[w].listed # 0 /\ run[w].listed < NextVersion
  /\ \A o \in Rows :
       /\ track[o].sig # 0 /\ track[o].sig < NextVersion
       /\ track[o].sig = remote[o] => track[o].hash = remote[o]

(* The object whose page a runner has listed but not yet stamped.          *)
Pending(r) == IF r.pc \in {"file", "stamp"} THEN {r.at} ELSE {}

(* The rows that carry the mark of the job are those of the objects that   *)
(* it listed, the pending one aside.                                       *)
Marks(r) ==
  \A o \in Rows :
    /\ o \in r.found \ Pending(r) => track[o].seen = r.job
    /\ track[o].seen = r.job => o \in r.found

(* What the pruning has removed and what it may still remove stay within   *)
(* the limit that was checked when it began.                               *)
Budget(r) ==
  /\ r.pc \notin {"prune", "final"} => r.removed = 0
  /\ r.pc \in {"prune", "final"} /\ r.tracked >= MinTracked =>
       (r.removed + Cardinality(Unseen(r.job))) * 100 <= r.tracked * MaxPercent

NothingLeft(r) == r.pc = "final" => Unseen(r.job) = {}

(* The rows of an object are as the runner read them.                      *)
AsRead(r, o) ==
  /\ r.listed = remote[o]
  /\ track[o] = None <=> r.snap = None
  /\ track[o] # None => track[o].sig = r.snap.sig /\ track[o].hash = r.snap.hash

(* What the runner has dealt with is in the mirror and what it passed over *)
(* is not in the bucket, if nobody touched it since the runner began.      *)
Done(r, o) ==
  /\ o \in r.found => (r.pc = "file" /\ o = r.at) \/ (remote[o] # 0 /\ Mirrored(o))
  /\ o \notin r.found /\ o < r.at => remote[o] = 0
  /\ r.pc = "file" /\ o = r.at => AsRead(r, o)

Follows(r) == source # "gone" /\ ~r.failed => \A o \in Objects \ r.touched : Done(r, o)

Course(r) == Marks(r) /\ Budget(r) /\ NothingLeft(r) /\ Follows(r)

OnCourse == NoOverrun => \A w \in Busy : Course(run[w])

Walk == InPlace /\ SeenRan /\ Signed /\ OnCourse

LEMMA InitWalk == Init => Walk
<1>. SUFFICES ASSUME Init PROVE Walk
  OBVIOUS
<1>1. /\ \A w \in Workers : run[w].pc = "idle"
      /\ Rows = {} /\ Busy = {}
  BY IdleOK DEF Init, Rows, Busy
<1>2. left.change = MaxChanges
  BY DEF Init
<1>3. NextVersion = NumObjects + 1
  BY <1>2, ConnectorAssumption DEF NextVersion
<1>4. \A o \in Objects : remote[o] < NextVersion
  BY <1>3, ConnectorAssumption DEF Init, Objects
<1>. QED
  BY <1>1, <1>4 DEF Walk, InPlace, SeenRan, Signed, OnCourse

-----------------------------------------------------------------------------

(* Two runners are at work only after a live job was reaped.               *)
LEMMA Alone == ASSUME Inv, NoOverrun, NEW v \in Busy, NEW w \in Busy PROVE v = w
<1>1. run[v].job \in Active /\ run[w].job \in Active
  BY DEF Inv, JobsTaken, LiveJobs, Active
<1>2. run[v].job = run[w].job
  BY <1>1 DEF Inv, OneActiveJob
<1>. QED
  BY <1>2 DEF Inv, JobsTaken

(* Whatever comes of the object of a page, the runner goes on to stamp it. *)
LEMMA FiledShape ==
  ASSUME TypeOK, NEW w \in Workers,
         SkipFile(w) \/ FileFails(w) \/ SkipContent(w) \/ SyncFile(w)
  PROVE  /\ run[w].pc = "file" /\ run'[w].pc = "stamp" /\ run'[w].job = run[w].job
         /\ run'[w].at = run[w].at /\ run'[w].found = run[w].found
         /\ run'[w].touched = run[w].touched /\ run'[w].removed = run[w].removed
         /\ run[w].failed => run'[w].failed
         /\ FileFails(w) => run'[w].failed
         /\ remote' = remote /\ source' = source
         /\ \A v \in Workers \ {w} : run'[v] = run[v]
<1>1. run \in [Workers -> Runs] /\ run[w] \in Runs
  BY DEF TypeOK
<1>2. run[w].pc = "file"
  BY DEF SkipFile, FileFails, SkipContent, SyncFile, Store, Downloaded
<1>3. ASSUME NEW f \in BOOLEAN, Report(w, [run[w] EXCEPT !.pc = "stamp", !.failed = f])
      PROVE  /\ run'[w].pc = "stamp" /\ run'[w].job = run[w].job
             /\ run'[w].at = run[w].at /\ run'[w].found = run[w].found
             /\ run'[w].touched = run[w].touched /\ run'[w].removed = run[w].removed
             /\ run'[w].failed = f
             /\ remote' = remote /\ source' = source
             /\ \A v \in Workers \ {w} : run'[v] = run[v]
  BY <1>1, <1>3 DEF Report, Runs
<1>4. run[w].failed \in BOOLEAN
      /\ [run[w] EXCEPT !.pc = "stamp"] = [run[w] EXCEPT !.pc = "stamp", !.failed = run[w].failed]
  BY <1>1 DEF Runs
<1>5. CASE SkipFile(w) \/ SkipContent(w)
  <2>1. Report(w, [run[w] EXCEPT !.pc = "stamp", !.failed = run[w].failed])
    BY <1>4, <1>5 DEF SkipFile, SkipContent
  <2>2. ~FileFails(w) \/ run'[w].failed
    BY <1>1, <1>3 DEF FileFails
  <2>. QED
    BY <1>2, <1>3, <1>4, <2>1, <2>2
<1>6. CASE FileFails(w)
  BY <1>2, <1>3, <1>6 DEF FileFails
<1>7. CASE SyncFile(w)
  <2>1. PICK refused \in BOOLEAN :
          Report(w, [run[w] EXCEPT !.pc = "stamp", !.failed = run[w].failed \/ refused])
    BY <1>7 DEF SyncFile
  <2>2. ~FileFails(w) \/ run'[w].failed
    BY <1>1, <1>3 DEF FileFails
  <2>3. (run[w].failed \/ refused) \in BOOLEAN
    BY <1>4
  <2>. QED
    BY <1>2, <1>3, <2>1, <2>2, <2>3
<1>. QED
  BY <1>5, <1>6, <1>7

(* A runner stands in place and its marks are of a job that was run.       *)
LEMMA PlaceStep == Inv /\ Walk /\ [Next]_vars => InPlace'
<1>. SUFFICES ASSUME Inv, Walk, [Next]_vars, NEW w \in Workers
              PROVE  LET r == run'[w] IN
                     /\ r.pc \in {"file", "stamp"} => r.at \in r.found
                     /\ r.pc \in {"prune", "final"} => r.at \notin Objects
  BY DEF InPlace
<1>. DEFINE Stands(r) == /\ r.pc \in {"file", "stamp"} => r.at \in r.found
                         /\ r.pc \in {"prune", "final"} => r.at \notin Objects
<1>1. run \in [Workers -> Runs] /\ run[w] \in Runs /\ Stands(run[w])
  BY DEF Inv, TypeOK, Walk, InPlace
<1>2. ASSUME NEW o \in Objects, Touch(o) PROVE Stands(run'[w])
  <2>1. /\ run'[w].pc = run[w].pc /\ run'[w].at = run[w].at
        /\ run'[w].found = run[w].found
    BY <1>1, <1>2 DEF Touch, Runs
  <2>. QED
    BY <1>1, <2>1
<1>3. Stands(Idle)
  BY IdleOK
<1>4. ASSUME NEW v \in Workers, NEW j \in Jobs, Start(v, j) PROVE Stands(run'[w])
  <2>. DEFINE n == [Idle EXCEPT !.pc = "list", !.job = j]
  <2>1. n.pc = "list"
    BY DEF Idle
  <2>2. UNCHANGED run \/ run' = [run EXCEPT ![v] = n]
    BY <1>4 DEF Start
  <2>. HIDE DEF n
  <2>. QED
    BY <1>1, <2>1, <2>2
<1>5. ASSUME NEW v \in Workers, Die(v) PROVE Stands(run'[w])
  BY <1>1, <1>3, <1>5 DEF Die
<1>6. ASSUME NEW v \in Workers, RunnerStep(v) PROVE Stands(run'[w])
  <2>1. CASE v # w \/ Ends(v)
    BY <1>1, <1>3, <1>6, <2>1, RunnerShape DEF Inv, GoesOn, Ends
  <2>2. ASSUME v = w, NEW out, Settle(w, out) PROVE Stands(run'[w])
    BY <1>1, <1>3, <2>2 DEF Settle
  <2>3. CASE v = w /\ ListPage(w)
    <3>. DEFINE n == [run[w] EXCEPT !.pc = "file", !.listed = remote[run[w].at],
                                    !.snap = track[run[w].at], !.found = @ \cup {run[w].at}]
                m == [run[w] EXCEPT !.at = @ + 1]
    <3>1. n.at \in n.found /\ n.pc = "file"
      BY <1>1 DEF Runs
    <3>2. m.pc = run[w].pc /\ run[w].pc = "list"
      BY <1>1, <2>3 DEF Runs, ListPage
    <3>3. run'[w] \in {m, n}
      BY <1>1, <2>3 DEF ListPage
    <3>. HIDE DEF n, m
    <3>. QED
      BY <3>1, <3>2, <3>3
  <2>4. ASSUME v = w, SkipFile(w) \/ FileFails(w) \/ SkipContent(w) \/ SyncFile(w)
        PROVE Stands(run'[w])
    <3>1. /\ run[w].pc = "file" /\ run'[w].pc = "stamp"
          /\ run'[w].at = run[w].at /\ run'[w].found = run[w].found
      BY <2>4, FiledShape DEF Inv
    <3>. QED
      BY <1>1, <3>1
  <2>5. CASE v = w /\ Stamp(w)
    <3>1. run'[w].pc = "list"
      BY <1>1, <2>5 DEF Stamp, Report, Runs
    <3>. QED
      BY <3>1
  <2>6. CASE v = w /\ Guard(w)
    <3>1. CASE Settle(w, "failed")
      BY <2>2, <2>6, <3>1
    <3>2. CASE \E n : Report(w, [run[w] EXCEPT !.pc = "prune", !.tracked = n])
      <4>1. run'[w].at = run[w].at /\ run'[w].pc = "prune" /\ run[w].at \notin Objects
        BY <1>1, <2>6, <3>2 DEF Report, Guard, Runs
      <4>. QED
        BY <4>1
    <3>. QED
      BY <2>6, <3>1, <3>2 DEF Guard
  <2>7. CASE v = w /\ (PruneBatch(w) \/ PruneDone(w))
    <3>1. run'[w].at = run[w].at /\ run'[w].pc \in {"prune", "final"} /\ run[w].pc = "prune"
      BY <1>1, <2>7 DEF Report, PruneBatch, PruneDone, Runs
    <3>. QED
      BY <1>1, <3>1
  <2>8. CASE v = w /\ (DeferSync(w) \/ PruneFails(w) \/ Finalize(w) \/ FailSync(w))
    BY <2>2, <2>8 DEF DeferSync, PruneFails, Finalize, FailSync
  <2>9. CASE v = w /\ FlushFails(w)
    BY <1>1, <1>3, <2>9 DEF FlushFails
  <2>. QED
    BY <1>6, <2>1, <2>3, <2>4, <2>5, <2>6, <2>7, <2>8, <2>9 DEF RunnerStep
<1>7. CASE UNCHANGED run
  BY <1>1, <1>7
<1>8. CASE ComesDue \/ Ask \/ Trigger \/ TriggerRefused \/ RunDue \/ DeleteSource \/ UNCHANGED vars
  BY <1>7, <1>8 DEF ComesDue, Ask, Trigger, TriggerRefused, RunDue, DeleteSource, vars
<1>9. ASSUME NEW j \in Jobs, GoesQuiet(j) \/ Reap(j) PROVE Stands(run'[w])
  BY <1>7, <1>9 DEF GoesQuiet, Reap
<1>10. ASSUME NEW o \in Objects, Change(o) \/ DeleteDocument(o) \/ IngestionFails(o)
       PROVE Stands(run'[w])
  BY <1>2, <1>7, <1>10 DEF Change, DeleteDocument, IngestionFails
<1>. QED
  BY <1>4, <1>5, <1>6, <1>8, <1>9, <1>10 DEF Next

(* What a step of a runner makes of a row: it keeps it, stamps it, or      *)
(* stores what it downloaded.                                              *)
Kept(o) ==
  /\ track[o] # None /\ track'[o].seen = track[o].seen
  /\ track'[o].sig = track[o].sig /\ track'[o].hash = track[o].hash

Stamped(w, o) ==
  /\ run[w].pc = "stamp" /\ o = run[w].at /\ track[o] # None
  /\ track'[o].seen = run[w].job
  /\ track'[o].sig = track[o].sig /\ track'[o].hash = track[o].hash

Replaced(w, o) ==
  /\ run[w].pc = "file" /\ o = run[w].at
  /\ track'[o].sig = run[w].listed /\ track'[o].hash = remote[o]
  /\ track'[o].seen = None \/ (track[o] # None /\ track'[o].seen = track[o].seen)

LEMMA RowStep ==
  ASSUME Inv, [Next]_vars, NEW o \in Objects, track'[o] # None
  PROVE  Kept(o) \/ \E w \in Busy : Stamped(w, o) \/ Replaced(w, o)
<1>1. track \in [Objects -> Tracked \cup {None}] /\ run \in [Workers -> Runs]
  BY DEF Inv, TypeOK
<1>2. track'[o] = track[o] => Kept(o)
  BY DEF Kept
<1>3. ASSUME NEW w \in Workers, NEW fails, Store(w, fails), track'[o] # track[o]
      PROVE  w \in Busy /\ Replaced(w, o)
  <2>1. /\ w \in Busy /\ run[w].pc = "file" /\ o = run[w].at
        /\ track'[o] = Stored(run[w], fails) /\ SameRow(run[w])
    BY <1>1, <1>3 DEF Store, Downloaded, Busy
  <2>. QED
    BY <2>1 DEF Replaced, Stored, SameRow
<1>4. ASSUME NEW w \in Workers, RunnerStep(w), track'[o] # track[o]
      PROVE  \E v \in Busy : Stamped(v, o) \/ Replaced(v, o)
  <2>1. CASE SyncFile(w) \/ DeferSync(w)
    BY <1>3, <1>4, <2>1 DEF SyncFile, DeferSync
  <2>2. CASE Stamp(w)
    <3>1. /\ w \in Busy /\ run[w].pc = "stamp" /\ o = run[w].at
          /\ track'[o] = [track[o] EXCEPT !.seen = run[w].job] /\ track[o] # None
      BY <1>1, <1>4, <2>2 DEF Stamp, Busy
    <3>2. track[o] \in Tracked
      BY <1>1, <3>1
    <3>. QED
      BY <3>1, <3>2 DEF Stamped, Tracked
  <2>3. CASE PruneBatch(w) \/ PruneFails(w)
    BY <1>1, <1>4, <2>3 DEF PruneBatch, PruneFails
  <2>4. CASE ListPage(w) \/ SkipFile(w) \/ FileFails(w) \/ SkipContent(w) \/ FlushFails(w)
             \/ Guard(w) \/ PruneDone(w) \/ Finalize(w) \/ FailSync(w)
    BY <1>4, <2>4 DEF ListPage, SkipFile, FileFails, SkipContent, FlushFails, Guard, PruneDone,
       Finalize, FailSync
  <2>. QED
    BY <1>4, <2>1, <2>2, <2>3, <2>4 DEF RunnerStep
<1>5. ASSUME NEW p \in Objects, IngestionFails(p) PROVE Kept(o)
  <2>1. track[p] \in Tracked /\ track' = [track EXCEPT ![p] = [track[p] EXCEPT !.failed = TRUE]]
    BY <1>1, <1>5 DEF IngestionFails, Rows
  <2>2. CASE p = o
    <3>1. track'[o] = [track[o] EXCEPT !.failed = TRUE] /\ track[o] \in Tracked
      BY <1>1, <2>1, <2>2
    <3>. QED
      BY <3>1, NoneAssumption DEF Kept, Tracked
  <2>. QED
    BY <1>1, <1>2, <2>1, <2>2
<1>6. ASSUME NEW p \in Objects, Change(p) \/ DeleteDocument(p) PROVE Kept(o)
  BY <1>1, <1>2, <1>6 DEF Change, DeleteDocument
<1>7. ASSUME ComesDue \/ Ask \/ Trigger \/ TriggerRefused \/ RunDue \/ DeleteSource
      PROVE  Kept(o)
  BY <1>2, <1>7 DEF ComesDue, Ask, Trigger, TriggerRefused, RunDue, DeleteSource
<1>8. ASSUME NEW j \in Jobs, GoesQuiet(j) \/ Reap(j) PROVE Kept(o)
  BY <1>2, <1>8 DEF GoesQuiet, Reap
<1>9. ASSUME NEW w \in Workers, NEW j \in Jobs, Start(w, j) PROVE Kept(o)
  BY <1>2, <1>9 DEF Start
<1>10. ASSUME NEW w \in Workers, Die(w) PROVE Kept(o)
  BY <1>2, <1>10 DEF Die
<1>11. CASE UNCHANGED vars
  BY <1>2, <1>11 DEF vars
<1>. QED
  BY <1>2, <1>4, <1>5, <1>6, <1>7, <1>8, <1>9, <1>10, <1>11 DEF Next

(* A job that was run is never pending again.                              *)
LEMMA RanStep ==
  ASSUME Inv, [Next]_vars, NEW j \in Jobs, jobs[j] \notin {"none", "pending"}
  PROVE  jobs'[j] \notin {"none", "pending"}
<1>1. jobs \in [Jobs -> JobStates]
  BY DEF Inv, TypeOK, JobStates
<1>2. ASSUME NEW w \in Workers, RunnerStep(w) PROVE jobs'[j] \notin {"none", "pending"}
  <2>1. GoesOn(w) \/ Ends(w)
    BY <1>2, RunnerShape DEF Inv
  <2>. QED
    BY <1>1, <2>1 DEF GoesOn, Ends
<1>3. ASSUME NEW w \in Workers, NEW i \in Jobs, Start(w, i)
      PROVE jobs'[j] \notin {"none", "pending"}
  BY <1>1, <1>3 DEF Start
<1>4. ASSUME NEW i \in Jobs, GoesQuiet(i) \/ Reap(i) PROVE jobs'[j] \notin {"none", "pending"}
  BY <1>1, <1>4 DEF GoesQuiet, Reap
<1>5. CASE Trigger \/ RunDue
  BY <1>1, <1>5 DEF Trigger, RunDue, FileJob, Active
<1>6. ASSUME NEW o \in Objects, Change(o) \/ DeleteDocument(o) \/ IngestionFails(o)
      PROVE jobs'[j] \notin {"none", "pending"}
  BY <1>6 DEF Change, DeleteDocument, IngestionFails
<1>7. ASSUME NEW w \in Workers, Die(w) PROVE jobs'[j] \notin {"none", "pending"}
  BY <1>7 DEF Die
<1>8. CASE ComesDue \/ Ask \/ TriggerRefused \/ DeleteSource \/ UNCHANGED vars
  BY <1>8 DEF ComesDue, Ask, TriggerRefused, DeleteSource, vars
<1>. QED
  BY <1>2, <1>3, <1>4, <1>5, <1>6, <1>7, <1>8 DEF Next

LEMMA SeenStep == Inv /\ Walk /\ [Next]_vars => SeenRan'
<1>. SUFFICES ASSUME Inv, Walk, [Next]_vars, NEW o \in Objects, track'[o] # None,
                     track'[o].seen \in Jobs
              PROVE  jobs'[track'[o].seen] \notin {"none", "pending"}
  BY DEF SeenRan, Rows
<1>1. jobs[track'[o].seen] \notin {"none", "pending"}
  <2>1. CASE track[o] # None /\ track'[o].seen = track[o].seen
    BY <2>1 DEF Walk, SeenRan, Rows
  <2>2. CASE \E w \in Busy : track'[o].seen = run[w].job
    BY <2>2 DEF Inv, JobsTaken
  <2>3. track'[o].seen # None
    BY ConnectorAssumption DEF Jobs
  <2>. QED
    BY <2>1, <2>2, <2>3, RowStep DEF Kept, Stamped, Replaced
<1>. QED
  BY <1>1, RanStep

(* What a runner lists is what the bucket holds.                           *)
LEMMA PageStep ==
  ASSUME Inv, [Next]_vars, NEW w \in Workers, run'[w].pc = "file"
  PROVE  \/ run[w].pc = "file" /\ run'[w].listed = run[w].listed
         \/ \E o \in Objects : remote[o] # 0 /\ run'[w].listed = remote[o]
<1>1. run \in [Workers -> Runs] /\ run[w] \in Runs
  BY DEF Inv, TypeOK
<1>2. CASE UNCHANGED run
  BY <1>2
<1>3. ASSUME NEW o \in Objects, Touch(o)
      PROVE  run[w].pc = "file" /\ run'[w].listed = run[w].listed
  BY <1>1, <1>3 DEF Touch, Runs
<1>4. ASSUME NEW v \in Workers, NEW j \in Jobs, Start(v, j)
      PROVE  run[w].pc = "file" /\ run'[w].listed = run[w].listed
  <2>. DEFINE n == [Idle EXCEPT !.pc = "list", !.job = j]
  <2>1. n.pc = "list"
    BY DEF Idle
  <2>2. UNCHANGED run \/ run' = [run EXCEPT ![v] = n]
    BY <1>4 DEF Start
  <2>. HIDE DEF n
  <2>. QED
    BY <1>1, <2>1, <2>2
<1>5. ASSUME NEW v \in Workers, RunnerStep(v) \/ Die(v), ~ListPage(v)
      PROVE  run[w].pc = "file" /\ run'[w].listed = run[w].listed
  <2>1. CASE run' = [run EXCEPT ![v] = Idle]
    BY <1>1, <2>1, IdleOK
  <2>2. ASSUME NEW r, r.pc # "file", Report(v, r)
        PROVE  run[w].pc = "file" /\ run'[w].listed = run[w].listed
    BY <1>1, <2>2 DEF Report
  <2>3. CASE SkipFile(v) \/ FileFails(v) \/ SkipContent(v) \/ SyncFile(v)
    <3>. DEFINE n == [run[v] EXCEPT !.pc = "stamp"]
    <3>1. /\ n.pc = "stamp" /\ \A f : [n EXCEPT !.failed = f].pc = "stamp"
          /\ \A f : [run[v] EXCEPT !.pc = "stamp", !.failed = f] = [n EXCEPT !.failed = f]
      BY <1>1 DEF Runs
    <3>2. CASE SkipFile(v) \/ SkipContent(v)
      BY <2>2, <3>1, <3>2 DEF SkipFile, SkipContent
    <3>3. CASE FileFails(v)
      BY <2>2, <3>1, <3>3 DEF FileFails
    <3>4. CASE SyncFile(v)
      BY <2>2, <3>1, <3>4 DEF SyncFile
    <3>. QED
      BY <2>3, <3>2, <3>3, <3>4
  <2>4. CASE Stamp(v)
    <3>1. run'[v].pc = "list"
      BY <1>1, <2>4 DEF Stamp, Report, Runs
    <3>. QED
      BY <1>1, <2>4, <3>1 DEF Stamp, Report
  <2>5. CASE Guard(v)
    <3>. DEFINE n == [run[v] EXCEPT !.pc = "prune", !.tracked = Cardinality(Rows)]
    <3>1. n.pc = "prune"
      BY <1>1 DEF Runs
    <3>2. Settle(v, "failed") \/ Report(v, n)
      BY <2>5 DEF Guard
    <3>. HIDE DEF n
    <3>. QED
      BY <2>1, <2>2, <3>1, <3>2 DEF Settle
  <2>7. CASE PruneBatch(v)
    <3>1. PICK batch : Report(v, [run[v] EXCEPT !.removed = @ + Cardinality(batch)])
      BY <2>7 DEF PruneBatch
    <3>. DEFINE n == [run[v] EXCEPT !.removed = @ + Cardinality(batch)]
    <3>2. n.pc = "prune"
      BY <1>1, <2>7 DEF Runs, PruneBatch
    <3>. HIDE DEF n
    <3>. QED
      BY <2>2, <3>1, <3>2 DEF n
  <2>8. CASE PruneDone(v)
    <3>1. [run[v] EXCEPT !.pc = "final"].pc = "final"
      BY <1>1 DEF Runs
    <3>. QED
      BY <2>2, <2>8, <3>1 DEF PruneDone
  <2>6. CASE DeferSync(v) \/ FlushFails(v) \/ PruneFails(v) \/ Finalize(v) \/ FailSync(v) \/ Die(v)
    BY <2>1, <2>6 DEF DeferSync, FlushFails, PruneFails, Finalize, FailSync, Die, Settle
  <2>. QED
    BY <1>5, <2>3, <2>4, <2>5, <2>6, <2>7, <2>8 DEF RunnerStep
<1>6. ASSUME NEW v \in Workers, ListPage(v)
      PROVE \/ run[w].pc = "file" /\ run'[w].listed = run[w].listed
            \/ \E o \in Objects : remote[o] # 0 /\ run'[w].listed = remote[o]
  <2>1. CASE v # w
    BY <1>1, <1>6, <2>1 DEF ListPage
  <2>2. CASE v = w /\ remote[run[w].at] # 0
    BY <1>1, <1>6, <2>2 DEF ListPage, Runs
  <2>3. CASE v = w /\ remote[run[w].at] = 0
    BY <1>1, <1>6, <2>3 DEF ListPage, Runs
  <2>. QED
    BY <2>1, <2>2, <2>3
<1>7. CASE ComesDue \/ Ask \/ Trigger \/ TriggerRefused \/ RunDue \/ DeleteSource \/ UNCHANGED vars
  BY <1>2, <1>7 DEF ComesDue, Ask, Trigger, TriggerRefused, RunDue, DeleteSource, vars
<1>8. ASSUME NEW j \in Jobs, GoesQuiet(j) \/ Reap(j)
      PROVE run[w].pc = "file" /\ run'[w].listed = run[w].listed
  BY <1>2, <1>8 DEF GoesQuiet, Reap
<1>9. ASSUME NEW o \in Objects, Change(o) \/ DeleteDocument(o) \/ IngestionFails(o)
      PROVE run[w].pc = "file" /\ run'[w].listed = run[w].listed
  BY <1>2, <1>3, <1>9 DEF Change, DeleteDocument, IngestionFails
<1>. QED
  BY <1>4, <1>5, <1>6, <1>7, <1>8, <1>9 DEF Next

(* The bucket shows new contents or none.                                  *)
LEMMA VersionStep ==
  ASSUME Inv, [Next]_vars
  PROVE  /\ NextVersion \in Nat \ {0} /\ NextVersion' \in Nat
         /\ NextVersion <= NextVersion'
         /\ \A o \in Objects :
              \/ remote'[o] = remote[o] \/ remote'[o] = 0
              \/ remote'[o] = NextVersion /\ NextVersion < NextVersion'
<1>. USE ConnectorAssumption
<1>0. /\ left \in [{"change", "cut", "death", "overrun"} -> Nat]
      /\ left.change <= MaxChanges /\ remote \in [Objects -> Versions]
  BY DEF Inv, TypeOK, BoundsOK
<1>1. NextVersion \in Nat \ {0}
  BY <1>0 DEF NextVersion
<1>2. CASE UNCHANGED <<remote, left>>
  BY <1>1, <1>2 DEF NextVersion
<1>3. ASSUME NEW what \in {"cut", "death", "overrun"}, Spend(what), UNCHANGED remote
      PROVE  left'.change = left.change
  BY <1>0, <1>3 DEF Spend
<1>4. ASSUME left'.change = left.change, UNCHANGED remote
      PROVE  NextVersion' = NextVersion /\ UNCHANGED remote
  BY <1>4 DEF NextVersion
<1>5. ASSUME NEW p \in Objects, Change(p)
      PROVE  /\ NextVersion' = NextVersion + 1
             /\ \A o \in Objects : remote'[o] \in {remote[o], 0, NextVersion}
  <2>1. left'.change = left.change - 1 /\ left.change > 0
    BY <1>0, <1>5 DEF Change, Spend
  <2>2. PICK v \in {0, NextVersion} : remote' = [remote EXCEPT ![p] = v]
    BY <1>5 DEF Change, NextVersion
  <2>. QED
    BY <1>0, <2>1, <2>2 DEF NextVersion
<1>6. ASSUME ~ \E p \in Objects : Change(p)
      PROVE  UNCHANGED remote /\ left'.change = left.change
  <2>1. ASSUME NEW w \in Workers, RunnerStep(w) PROVE UNCHANGED <<remote, left>>
    BY <2>1, RunnerShape DEF Inv
  <2>2. ASSUME NEW p \in Objects, DeleteDocument(p) \/ IngestionFails(p)
        PROVE  UNCHANGED remote /\ Spend("cut")
    BY <2>2 DEF DeleteDocument, IngestionFails
  <2>3. ASSUME NEW j \in Jobs, GoesQuiet(j) \/ Reap(j)
        PROVE  UNCHANGED remote /\ (UNCHANGED left \/ Spend("overrun"))
    BY <2>3 DEF GoesQuiet, Reap
  <2>4. ASSUME NEW w \in Workers, NEW j \in Jobs, Start(w, j) PROVE UNCHANGED <<remote, left>>
    BY <2>4 DEF Start
  <2>5. ASSUME NEW w \in Workers, Die(w) PROVE UNCHANGED remote /\ Spend("death")
    BY <2>5 DEF Die
  <2>6. CASE DeleteSource
    BY <1>3, <2>6 DEF DeleteSource
  <2>7. CASE ComesDue \/ Ask \/ Trigger \/ TriggerRefused \/ RunDue \/ UNCHANGED vars
    BY <2>7 DEF ComesDue, Ask, Trigger, TriggerRefused, RunDue, vars
  <2>. QED
    BY <1>3, <1>6, <2>1, <2>2, <2>3, <2>4, <2>5, <2>6, <2>7 DEF Next
<1>. QED
  BY <1>1, <1>4, <1>5, <1>6

LEMMA SignedStep == Inv /\ Walk /\ [Next]_vars => Signed'
<1>. SUFFICES ASSUME Inv, Walk, [Next]_vars PROVE Signed'
  OBVIOUS
<1>0. /\ remote \in [Objects -> Versions] /\ \A w \in Workers : run[w] \in Runs
      /\ track \in [Objects -> Tracked \cup {None}]
      /\ Versions \subseteq Nat
  BY ConnectorAssumption DEF Inv, TypeOK, Versions
<1>1. /\ NextVersion \in Nat \ {0} /\ NextVersion' \in Nat /\ NextVersion <= NextVersion'
      /\ \A o \in Objects : \/ remote'[o] = remote[o] \/ remote'[o] = 0
                            \/ remote'[o] = NextVersion /\ NextVersion < NextVersion'
  BY VersionStep
<1>2. Signed
  BY DEF Walk
<1>3. ASSUME NEW o \in Objects PROVE remote'[o] < NextVersion'
  <2>1. remote[o] \in Nat /\ remote[o] < NextVersion
    BY <1>0, <1>2 DEF Signed
  <2>. QED
    BY <1>1, <2>1
<1>4. ASSUME NEW w \in Workers, run'[w].pc = "file"
      PROVE  run'[w].listed # 0 /\ run'[w].listed < NextVersion'
  <2>1. /\ run'[w].listed # 0 /\ run'[w].listed \in Nat
        /\ run'[w].listed < NextVersion
    <3>1. CASE run[w].pc = "file" /\ run'[w].listed = run[w].listed
      <4>1. run[w].listed \in Nat
        BY <1>0 DEF Runs
      <4>. QED
        BY <1>2, <3>1, <4>1 DEF Signed
    <3>2. CASE \E o \in Objects : remote[o] # 0 /\ run'[w].listed = remote[o]
      BY <1>0, <1>2, <3>2 DEF Signed
    <3>. QED
      BY <1>4, <3>1, <3>2, PageStep
  <2>. QED
    BY <1>1, <2>1
<1>5. ASSUME NEW o \in Objects, track'[o] # None
      PROVE  /\ track'[o].sig # 0 /\ track'[o].sig < NextVersion'
             /\ track'[o].sig = remote'[o] => track'[o].hash = remote'[o]
  <2>1. /\ track'[o].sig # 0 /\ track'[o].sig \in Nat /\ track'[o].sig < NextVersion
        /\ track'[o].sig = remote[o] => track'[o].hash = remote[o]
    <3>1. CASE track[o] # None /\ track'[o].sig = track[o].sig /\ track'[o].hash = track[o].hash
      BY <1>0, <1>2, <3>1 DEF Signed, Rows, Tracked
    <3>2. CASE \E w \in Busy : Replaced(w, o)
      BY <1>0, <1>2, <3>2 DEF Signed, Replaced, Runs, Busy
    <3>. QED
      BY <1>5, <3>1, <3>2, RowStep DEF Kept, Stamped
  <2>. QED
    BY <1>1, <2>1
<1>. QED
  BY <1>3, <1>4, <1>5 DEF Signed, Rows

-----------------------------------------------------------------------------

(* The parts of Course after a step, for a runner that is at work.         *)
NextUnseen(w) == {o \in Objects : track'[o] # None /\ track'[o].seen # run'[w].job}

NextMarks(w) ==
  \A o \in Objects : track'[o] # None =>
    /\ o \in run'[w].found => \/ o = run'[w].at /\ run'[w].pc \in {"file", "stamp"}
                              \/ track'[o].seen = run'[w].job
    /\ track'[o].seen = run'[w].job => o \in run'[w].found

NextBudget(w) ==
  /\ run'[w].pc \notin {"prune", "final"} => run'[w].removed = 0
  /\ run'[w].pc \in {"prune", "final"} /\ run'[w].tracked >= MinTracked =>
       (run'[w].removed + Cardinality(NextUnseen(w))) * 100 <= run'[w].tracked * MaxPercent

NextNothingLeft(w) == run'[w].pc = "final" => NextUnseen(w) = {}

NextDone(w, o) ==
  /\ o \in run'[w].found =>
       \/ run'[w].pc = "file" /\ o = run'[w].at
       \/ remote'[o] # 0 /\ track'[o] # None /\ track'[o].hash = remote'[o]
  /\ o \notin run'[w].found /\ o < run'[w].at => remote'[o] = 0
  /\ run'[w].pc = "file" /\ o = run'[w].at =>
       /\ run'[w].listed = remote'[o]
       /\ track'[o] = None <=> run'[w].snap = None
       /\ track'[o] # None =>
            track'[o].sig = run'[w].snap.sig /\ track'[o].hash = run'[w].snap.hash

NextFollows(w) ==
  source' # "gone" /\ ~run'[w].failed => \A o \in Objects \ run'[w].touched : NextDone(w, o)

NextCourse(w) == NextMarks(w) /\ NextBudget(w) /\ NextNothingLeft(w) /\ NextFollows(w)

LEMMA CourseParts == ASSUME NEW w \in Workers, NextCourse(w) PROVE Course(run[w])'
<1>1. Marks(run[w])'
  BY DEF NextCourse, NextMarks, Marks, Rows, Pending
<1>2. NextUnseen(w) = Unseen(run[w].job)'
  BY DEF NextUnseen, Unseen, Rows
<1>3. Budget(run[w])' /\ NothingLeft(run[w])'
  BY <1>2 DEF NextCourse, NextBudget, NextNothingLeft, Budget, NothingLeft
<1>4. Follows(run[w])'
  BY DEF NextCourse, NextFollows, NextDone, Follows, Done, AsRead, Mirrored
<1>. QED
  BY <1>1, <1>3, <1>4 DEF Course

(* What may not be seen by a job is finitely much.                         *)
LEMMA UnseenFinite ==
  ASSUME NEW j, NEW S, S \subseteq Unseen(j)
  PROVE  /\ IsFiniteSet(Unseen(j)) /\ IsFiniteSet(S)
         /\ Cardinality(S) \in Nat /\ Cardinality(Unseen(j)) \in Nat
         /\ Cardinality(S) <= Cardinality(Unseen(j))
<1>1. IsFiniteSet(Unseen(j))
  BY RowsFinite, FS_Subset
<1>. QED
  BY <1>1, FS_Subset, FS_CardinalityType

(* A step that is not of the runner: rows may go, and what is not touched  *)
(* stays.                                                                  *)
Aside(w) ==
  /\ run'[w].pc = run[w].pc /\ run'[w].job = run[w].job /\ run'[w].at = run[w].at
  /\ run'[w].listed = run[w].listed /\ run'[w].snap = run[w].snap
  /\ run'[w].failed = run[w].failed /\ run'[w].found = run[w].found
  /\ run'[w].tracked = run[w].tracked /\ run'[w].removed = run[w].removed
  /\ run[w].touched \subseteq run'[w].touched
  /\ \A o \in Objects : track'[o] # None => Kept(o)
  /\ source' # "gone" =>
       /\ source # "gone"
       /\ \A o \in Objects \ run'[w].touched :
            remote'[o] = remote[o] /\ (track[o] # None => track'[o] # None)

LEMMA CourseAside ==
  ASSUME Inv, NEW w \in Workers, Course(run[w]), Aside(w)
  PROVE  NextCourse(w)
<1>. DEFINE r == run[w]
            q == run'[w]
<1>0. r \in Runs /\ MaxPercent \in Nat /\ MinTracked \in Nat
  BY ConnectorAssumption DEF Inv, TypeOK
<1>1. NextMarks(w)
  BY DEF Course, Marks, Rows, Pending, NextMarks, Aside, Kept
<1>2. NextUnseen(w) \subseteq Unseen(r.job)
  BY DEF NextUnseen, Unseen, Rows, Aside, Kept
<1>3. NextBudget(w)
  <2>1. /\ q.pc = r.pc /\ q.removed = r.removed /\ q.tracked = r.tracked
        /\ r.removed \in Nat /\ r.tracked \in Nat
    BY <1>0, ConnectorAssumption DEF Aside, Runs
  <2>. DEFINE m == Cardinality(NextUnseen(w))
              n == Cardinality(Unseen(r.job))
              top == r.tracked * MaxPercent
  <2>2. m \in Nat /\ n \in Nat /\ m <= n
    BY <1>2, UnseenFinite
  <2>3. top \in Nat
    BY <1>0, <2>1
  <2>4. /\ r.pc \notin {"prune", "final"} => r.removed = 0
        /\ r.pc \in {"prune", "final"} /\ r.tracked >= MinTracked => (r.removed + n) * 100 <= top
    BY DEF Course, Budget
  <2>5. q.tracked * MaxPercent = top
    BY <2>1
  <2>. HIDE DEF m, n, top
  <2>6. (r.removed + n) * 100 <= top => (r.removed + m) * 100 <= top
    BY <2>1, <2>2, <2>3
  <2>. QED
    BY <2>1, <2>4, <2>5, <2>6 DEF NextBudget, m
<1>4. NextNothingLeft(w)
  BY <1>2 DEF NextNothingLeft, Course, NothingLeft, Aside
<1>5. NextFollows(w)
  <2>. SUFFICES ASSUME source' # "gone", ~q.failed, NEW o \in Objects \ q.touched
                PROVE  NextDone(w, o)
    BY DEF NextFollows
  <2>1. /\ remote'[o] = remote[o] /\ (track'[o] # None <=> track[o] # None)
        /\ track'[o] # None => track'[o].sig = track[o].sig /\ track'[o].hash = track[o].hash
        /\ o \notin r.touched /\ ~r.failed /\ source # "gone"
    BY DEF Aside, Kept
  <2>2. Done(r, o)
    BY <2>1 DEF Course, Follows
  <2>3. /\ q.pc = r.pc /\ q.at = r.at /\ q.found = r.found
        /\ q.listed = r.listed /\ q.snap = r.snap
    BY DEF Aside
  <2>. HIDE DEF q, r
  <2>4. /\ o \in q.found =>
             \/ q.pc = "file" /\ o = q.at
             \/ remote'[o] # 0 /\ track'[o] # None /\ track'[o].hash = remote'[o]
        /\ o \notin q.found /\ o < q.at => remote'[o] = 0
    BY <2>1, <2>2, <2>3 DEF Done, Mirrored
  <2>5. q.pc = "file" /\ o = q.at =>
             /\ q.listed = remote'[o]
             /\ track'[o] = None <=> q.snap = None
             /\ track'[o] # None => track'[o].sig = q.snap.sig /\ track'[o].hash = q.snap.hash
    BY <2>1, <2>2, <2>3 DEF Done, AsRead
  <2>. QED
    BY <2>4, <2>5 DEF NextDone, q
<1>. QED
  BY <1>1, <1>3, <1>4, <1>5 DEF NextCourse

(* A job that has just started has marked nothing.                         *)
LEMMA CourseStart ==
  ASSUME Inv, Walk, NEW w \in Workers, NEW j \in Jobs, jobs[j] = "pending",
         track' = track, run'[w] = [Idle EXCEPT !.pc = "list", !.job = j]
  PROVE  NextCourse(w)
<1>. DEFINE q == run'[w]
<1>1. /\ q.pc = "list" /\ q.job = j /\ q.found = {} /\ q.removed = 0 /\ q.at = 1
  BY DEF Idle
<1>2. NextMarks(w)
  <2>1. \A o \in Objects : track'[o] # None => track'[o].seen # j
    BY DEF Walk, SeenRan, Rows
  <2>. QED
    BY <1>1, <2>1 DEF NextMarks
<1>3. \A o \in Objects : ~(o < 1)
  BY ConnectorAssumption DEF Objects
<1>. QED
  BY <1>1, <1>2, <1>3 DEF NextCourse, NextBudget, NextNothingLeft, NextFollows, NextDone

-----------------------------------------------------------------------------

(* The runner lists a page,                                                *)
LEMMA CourseList ==
  ASSUME Inv, NEW w \in Workers, Course(run[w]), ListPage(w) PROVE NextCourse(w)
<1>. DEFINE r == run[w]
            q == run'[w]
<1>1. /\ r \in Runs /\ run \in [Workers -> Runs] /\ r.pc = "list" /\ r.at \in Objects
      /\ track' = track /\ remote' = remote /\ source' = source
  BY DEF Inv, TypeOK, ListPage
<1>2. r.removed = 0
  BY <1>1 DEF Course, Budget
<1>3. \A o \in Objects : track[o] # None =>
        (o \in r.found => track[o].seen = r.job) /\ (track[o].seen = r.job => o \in r.found)
  BY <1>1 DEF Course, Marks, Rows, Pending
<1>4. \A o \in Objects \ r.touched : source # "gone" /\ ~r.failed =>
        /\ o \in r.found => remote[o] # 0 /\ Mirrored(o)
        /\ o \notin r.found /\ o < r.at => remote[o] = 0
  BY <1>1 DEF Course, Follows, Done
<1>5. CASE remote[r.at] = 0
  <2>1. /\ q.pc = "list" /\ q.job = r.job /\ q.at = r.at + 1 /\ q.failed = r.failed
        /\ q.found = r.found /\ q.touched = r.touched /\ q.removed = 0
    BY <1>1, <1>2, <1>5 DEF ListPage, Runs
  <2>2. \A o \in Objects : o < r.at + 1 => o < r.at \/ o = r.at
    BY <1>1 DEF Objects
  <2>. HIDE DEF q, r
  <2>3. NextMarks(w)
    BY <1>1, <1>3, <2>1 DEF NextMarks, q
  <2>4. NextFollows(w)
    BY <1>1, <1>4, <1>5, <2>1, <2>2 DEF NextFollows, NextDone, Mirrored, q
  <2>. QED
    BY <2>1, <2>3, <2>4 DEF NextCourse, NextBudget, NextNothingLeft, q
<1>6. CASE remote[r.at] # 0
  <2>1. /\ q.pc = "file" /\ q.job = r.job /\ q.at = r.at /\ q.failed = r.failed
        /\ q.found = r.found \cup {r.at} /\ q.touched = r.touched /\ q.removed = 0
        /\ q.listed = remote[r.at] /\ q.snap = track[r.at]
    BY <1>1, <1>2, <1>6 DEF ListPage, Runs
  <2>. HIDE DEF q, r
  <2>3. NextMarks(w)
    BY <1>1, <1>3, <2>1 DEF NextMarks, q
  <2>4. NextFollows(w)
    BY <1>1, <1>4, <2>1 DEF NextFollows, NextDone, Mirrored, q
  <2>. QED
    BY <2>1, <2>3, <2>4 DEF NextCourse, NextBudget, NextNothingLeft, q
<1>. QED
  BY <1>5, <1>6

(* deals with the object of the page, of which it keeps or stores a row    *)
(* that mirrors the object, or fails,                                      *)
LEMMA CourseFile ==
  ASSUME Inv, InPlace, NEW w \in Workers, Course(run[w]), run[w].pc = "file",
         run'[w].pc = "stamp", run'[w].job = run[w].job, run'[w].at = run[w].at,
         run'[w].found = run[w].found, run'[w].touched = run[w].touched,
         run'[w].removed = run[w].removed, run[w].failed => run'[w].failed,
         remote' = remote, source' = source,
         \A o \in Objects \ {run[w].at} : track'[o] = track[o],
         source # "gone" /\ ~run'[w].failed /\ run[w].at \notin run[w].touched =>
           /\ remote[run[w].at] # 0 /\ track'[run[w].at] # None
           /\ track'[run[w].at].hash = remote[run[w].at]
  PROVE  NextCourse(w)
<1>1. run[w].at \in run[w].found
  BY DEF InPlace
<1>2. NextMarks(w)
  BY <1>1 DEF Course, Marks, Rows, Pending, NextMarks
<1>3. NextBudget(w) /\ NextNothingLeft(w)
  BY DEF Course, Budget, NextBudget, NextNothingLeft
<1>4. NextFollows(w)
  <2>. SUFFICES ASSUME source # "gone", ~run'[w].failed, NEW o \in Objects \ run[w].touched
                PROVE  NextDone(w, o)
    BY DEF NextFollows
  <2>1. Done(run[w], o)
    BY DEF Course, Follows
  <2>2. CASE o = run[w].at
    BY <1>1, <2>2 DEF NextDone
  <2>3. CASE o # run[w].at
    <3>1. track'[o] = track[o]
      BY <2>3
    <3>. QED
      BY <2>1, <2>3, <3>1 DEF Done, Mirrored, NextDone
  <2>. QED
    BY <2>2, <2>3
<1>. QED
  BY <1>2, <1>3, <1>4 DEF NextCourse

LEMMA CourseFiled ==
  ASSUME Inv, Walk, NEW w \in Workers, Course(run[w]),
         SkipFile(w) \/ FileFails(w) \/ SkipContent(w) \/ SyncFile(w)
  PROVE  NextCourse(w)
<1>. DEFINE r == run[w]
            q == run'[w]
<1>1. /\ r \in Runs /\ run \in [Workers -> Runs] /\ r.pc = "file" /\ r.at \in Objects
      /\ track \in [Objects -> Tracked \cup {None}]
  BY DEF Inv, TypeOK, OnPage, SkipFile, FileFails, SkipContent, SyncFile, Store, Downloaded
<1>2. /\ q.pc = "stamp" /\ q.job = r.job /\ q.at = r.at
      /\ q.found = r.found /\ q.touched = r.touched /\ q.removed = r.removed
      /\ (r.failed => q.failed) /\ (FileFails(w) => q.failed)
      /\ remote' = remote /\ source' = source
  BY FiledShape DEF Inv
<1>3. \A o \in Objects \ {r.at} : track'[o] = track[o]
  BY <1>1 DEF SkipFile, FileFails, SkipContent, SyncFile, Store
<1>4. ASSUME source # "gone", ~q.failed, r.at \notin r.touched
      PROVE  /\ remote[r.at] # 0 /\ track'[r.at] # None
             /\ track'[r.at].hash = remote[r.at]
  <2>1. r.listed = remote[r.at] /\ AsRead(r, r.at)
    BY <1>1, <1>2, <1>4 DEF Course, Follows, Done, AsRead
  <2>2. r.listed # 0
    BY <1>1 DEF Walk, Signed
  <2>3. CASE SkipFile(w)
    <3>1. r.snap # None /\ r.snap.sig = r.listed /\ track' = track
      BY <2>3 DEF SkipFile, Unchanged
    <3>2. track[r.at] # None /\ track[r.at].sig = remote[r.at]
      BY <2>1, <3>1 DEF AsRead
    <3>3. track[r.at].hash = remote[r.at]
      BY <1>1, <3>2 DEF Walk, Signed, Rows
    <3>. QED
      BY <2>1, <2>2, <3>1, <3>2, <3>3
  <2>4. CASE SkipContent(w)
    <3>1. r.snap # None /\ r.snap.hash = remote[r.at] /\ track' = track
      BY <2>4 DEF SkipContent, SameContent
    <3>. QED
      BY <2>1, <2>2, <3>1 DEF AsRead
  <2>5. CASE FileFails(w)
    BY <1>2, <1>4, <2>5
  <2>6. CASE SyncFile(w)
    <3>1. PICK refused \in BOOLEAN : track' = [track EXCEPT ![r.at] = Stored(r, refused)]
      BY <2>6 DEF SyncFile, Store
    <3>2. track'[r.at] = Stored(r, refused)
      BY <1>1, <3>1
    <3>3. Stored(r, refused).hash = remote[r.at]
      BY DEF Stored
    <3>4. Stored(r, refused) \in Tracked
      <4>1. /\ r.job \in Jobs /\ r.listed \in Versions /\ remote[r.at] \in Versions
            /\ (r.snap # None => r.snap \in Tracked /\ track[r.at] \in Tracked)
        <5>1. r.job \in Jobs
          BY <1>1 DEF Inv, JobsTaken, Busy
        <5>2. r.snap # None => track[r.at] # None
          BY <2>6 DEF SyncFile, Store, SameRow
        <5>3. r.listed \in Versions /\ r.snap \in Tracked \cup {None}
          BY <1>1 DEF Runs
        <5>4. remote[r.at] \in Versions
          BY <1>1 DEF Inv, TypeOK
        <5>. QED
          BY <1>1, <5>1, <5>2, <5>3, <5>4
      <4>. QED
        BY <4>1 DEF Stored, Tracked
    <3>. QED
      BY <2>1, <2>2, <3>2, <3>3, <3>4, NoneAssumption
  <2>. QED
    BY <2>3, <2>4, <2>5, <2>6
<1>. HIDE DEF q, r
<1>. QED
  BY <1>1, <1>2, <1>3, <1>4, CourseFile DEF Walk, q, r

(* marks it,                                                               *)
LEMMA CourseStamp ==
  ASSUME Inv, Walk, NEW w \in Workers, Course(run[w]), Stamp(w) PROVE NextCourse(w)
<1>. DEFINE r == run[w]
            q == run'[w]
<1>1. /\ r \in Runs /\ run \in [Workers -> Runs] /\ r.pc = "stamp" /\ r.at \in Objects
      /\ track \in [Objects -> Tracked \cup {None}]
      /\ r.at \in r.found
  BY DEF Inv, TypeOK, OnPage, Stamp, Walk, InPlace
<1>2. /\ q.pc = "list" /\ q.job = r.job /\ q.at = r.at + 1 /\ q.found = r.found
      /\ q.touched = r.touched /\ q.removed = r.removed /\ q.failed = r.failed
      /\ remote' = remote /\ source' = source
  BY <1>1 DEF Stamp, Report, Runs
<1>3. \A o \in Objects \ {r.at} : track'[o] = track[o]
  BY <1>1 DEF Stamp
<1>4. /\ track[r.at] = None => track'[r.at] = None
      /\ track[r.at] # None =>
           /\ track'[r.at] # None
           /\ track'[r.at].seen = r.job /\ track'[r.at].hash = track[r.at].hash
  <2>1. track'[r.at] = IF track[r.at] = None THEN None ELSE [track[r.at] EXCEPT !.seen = r.job]
    BY <1>1 DEF Stamp
  <2>2. ASSUME NEW t \in Tracked
        PROVE  /\ [t EXCEPT !.seen = r.job] # None
               /\ [t EXCEPT !.seen = r.job].seen = r.job
               /\ [t EXCEPT !.seen = r.job].hash = t.hash
    <3>1. r.job \in Jobs
      BY <1>1 DEF Inv, JobsTaken, Busy
    <3>2. [t EXCEPT !.seen = r.job] \in Tracked
      BY <3>1 DEF Tracked
    <3>. QED
      BY <3>2, NoneAssumption DEF Tracked
  <2>. QED
    BY <1>1, <2>1, <2>2
<1>5. \A o \in Objects : o < r.at + 1 => o < r.at \/ o = r.at
  BY <1>1 DEF Objects
<1>6. Marks(r) /\ Budget(r) /\ Follows(r)
  BY DEF Course
<1>. HIDE DEF q, r
<1>7. NextMarks(w)
  BY <1>1, <1>2, <1>3, <1>4, <1>6 DEF NextMarks, Marks, Rows, Pending, q
<1>8. NextFollows(w)
  BY <1>1, <1>2, <1>3, <1>4, <1>5, <1>6 DEF NextFollows, NextDone, Follows, Done, Mirrored, q
<1>. QED
  BY <1>1, <1>2, <1>6, <1>7, <1>8 DEF NextCourse, NextBudget, NextNothingLeft, Budget, q

(* counts what it has not seen,                                            *)
LEMMA CourseGuard ==
  ASSUME Inv, Walk, NEW w \in Workers, Course(run[w]), Guard(w), run'[w].pc # "idle"
  PROVE  NextCourse(w)
<1>. DEFINE r == run[w]
            q == run'[w]
            all == Cardinality(Rows)
            missing == Cardinality(Unseen(r.job))
<1>1. /\ r \in Runs /\ run \in [Workers -> Runs] /\ r.pc = "list" /\ r.at \notin Objects
      /\ track' = track /\ MaxPercent \in Nat /\ MinTracked \in Nat
  BY ConnectorAssumption DEF Inv, TypeOK, Guard
<1>2. Report(w, [r EXCEPT !.pc = "prune", !.tracked = all]) /\ ~TooMany(missing, all)
  <2>1. ~Settle(w, "failed")
    BY <1>1, IdleOK DEF Settle
  <2>. QED
    BY <2>1 DEF Guard
<1>3. /\ q.pc = "prune" /\ q.job = r.job /\ q.at = r.at /\ q.found = r.found
      /\ q.touched = r.touched /\ q.removed = r.removed /\ q.failed = r.failed
      /\ q.tracked = all /\ remote' = remote /\ source' = source
  BY <1>1, <1>2 DEF Report, Runs
<1>4. all \in Nat /\ missing \in Nat
  BY RowsFinite, UnseenFinite
<1>5. Marks(r) /\ r.removed = 0 /\ Follows(r)
  BY <1>1 DEF Course, Budget
<1>6. NextUnseen(w) = Unseen(r.job)
  BY <1>1, <1>3 DEF NextUnseen, Unseen, Rows
<1>7. all >= MinTracked => missing * 100 <= all * MaxPercent
  <2>1. all * MaxPercent \in Nat
    BY <1>1, <1>4
  <2>. DEFINE top == all * MaxPercent
  <2>2. top \in Nat /\ (missing # 0 /\ all >= MinTracked => ~(missing * 100 > top))
    BY <1>2, <2>1 DEF TooMany
  <2>. HIDE DEF top, missing
  <2>3. all >= MinTracked => missing * 100 <= top
    BY <1>4, <2>2
  <2>. QED
    BY <2>3 DEF top
<1>. HIDE DEF q, r
<1>8. NextMarks(w)
  BY <1>1, <1>3, <1>5 DEF NextMarks, Marks, Rows, Pending, q
<1>9. NextFollows(w)
  BY <1>1, <1>3, <1>5 DEF NextFollows, NextDone, Follows, Done, Mirrored, q
<1>10. NextBudget(w)
  BY <1>3, <1>4, <1>5, <1>6, <1>7 DEF NextBudget, q
<1>. QED
  BY <1>3, <1>8, <1>9, <1>10 DEF NextCourse, NextNothingLeft, q

(* removes a batch of it,                                                  *)
LEMMA CoursePrune ==
  ASSUME Inv, Walk, NEW w \in Workers, Course(run[w]), PruneBatch(w) PROVE NextCourse(w)
<1>. DEFINE r == run[w]
            q == run'[w]
            U == Unseen(r.job)
<1>1. /\ r \in Runs /\ run \in [Workers -> Runs] /\ r.pc = "prune"
      /\ MaxPercent \in Nat /\ MinTracked \in Nat
  BY ConnectorAssumption DEF Inv, TypeOK, PruneBatch
<1>2. PICK batch \in SUBSET U :
        /\ track' = [o \in Objects |-> IF o \in batch THEN None ELSE track[o]]
        /\ Report(w, [r EXCEPT !.removed = @ + Cardinality(batch)])
  BY DEF PruneBatch
<1>. DEFINE n == Cardinality(batch)
<1>3. /\ q.pc = "prune" /\ q.job = r.job /\ q.at = r.at /\ q.found = r.found
      /\ q.touched = r.touched /\ q.removed = r.removed + n /\ q.failed = r.failed
      /\ q.tracked = r.tracked /\ remote' = remote /\ source' = source
  <2>. HIDE DEF n
  <2>1. Report(w, [r EXCEPT !.removed = r.removed + n])
    BY <1>2 DEF n
  <2>. QED
    BY <1>1, <2>1 DEF Report, Runs
<1>4. NextUnseen(w) = U \ batch
  BY <1>2, <1>3 DEF NextUnseen, Unseen, Rows
<1>5. Cardinality(U) \in Nat /\ n \in Nat /\ Cardinality(U \ batch) = Cardinality(U) - n
  <2>1. IsFiniteSet(U) /\ IsFiniteSet(batch) /\ Cardinality(U) \in Nat /\ n \in Nat
    BY UnseenFinite
  <2>2. Cardinality(U \ batch) = Cardinality(U) - Cardinality(U \cap batch)
    BY <2>1, FS_Difference
  <2>3. U \cap batch = batch
    OBVIOUS
  <2>. QED
    BY <2>1, <2>2, <2>3
<1>6. Marks(r) /\ Budget(r) /\ Follows(r)
  BY DEF Course
<1>7. NextBudget(w)
  <2>. DEFINE top == r.tracked * MaxPercent
              u == Cardinality(U)
  <2>1. r.removed \in Nat /\ r.tracked \in Nat
    BY <1>1, ConnectorAssumption DEF Runs
  <2>2. r.tracked >= MinTracked => (r.removed + u) * 100 <= top
    BY <1>1, <1>6 DEF Budget
  <2>3. q.removed + Cardinality(NextUnseen(w)) = r.removed + u
    <3>. HIDE DEF q, r, n, U
    <3>1. q.removed = r.removed + n /\ Cardinality(NextUnseen(w)) = u - n /\ u \in Nat /\ n \in Nat
      BY <1>3, <1>4, <1>5
    <3>. HIDE DEF u
    <3>. QED
      BY <2>1, <3>1
  <2>. QED
    BY <1>3, <2>2, <2>3 DEF NextBudget
<1>. HIDE DEF q, r
<1>8. NextMarks(w)
  BY <1>1, <1>2, <1>3, <1>6 DEF NextMarks, Marks, Rows, Pending, q
<1>9. NextFollows(w)
  <2>. SUFFICES ASSUME source # "gone", ~r.failed, NEW o \in Objects \ r.touched
                PROVE  NextDone(w, o)
    BY <1>3 DEF NextFollows, q
  <2>1. Done(r, o)
    BY <1>6 DEF Follows
  <2>2. ASSUME o \in r.found
        PROVE  remote[o] # 0 /\ track'[o] # None /\ track'[o].hash = remote[o]
    <3>1. remote[o] # 0 /\ track[o] # None /\ track[o].hash = remote[o]
      BY <1>1, <2>1, <2>2 DEF Done, Mirrored
    <3>2. track[o].seen = r.job
      BY <1>1, <1>6, <2>2, <3>1 DEF Marks, Rows, Pending
    <3>3. o \notin batch
      BY <3>2 DEF Unseen
    <3>. QED
      BY <1>2, <3>1, <3>3
  <2>3. o \notin r.found /\ o < r.at => remote[o] = 0
    BY <2>1 DEF Done
  <2>. QED
    BY <1>3, <2>2, <2>3 DEF NextDone, q
<1>. QED
  BY <1>3, <1>7, <1>8, <1>9 DEF NextCourse, NextNothingLeft, q

(* and is through when nothing of it is left.                              *)
LEMMA CoursePruned ==
  ASSUME Inv, Walk, NEW w \in Workers, Course(run[w]), PruneDone(w) PROVE NextCourse(w)
<1>. DEFINE r == run[w]
            q == run'[w]
<1>1. /\ r \in Runs /\ run \in [Workers -> Runs] /\ r.pc = "prune" /\ track' = track
      /\ Unseen(r.job) = {}
  BY DEF Inv, TypeOK, PruneDone
<1>2. /\ q.pc = "final" /\ q.job = r.job /\ q.at = r.at /\ q.found = r.found
      /\ q.touched = r.touched /\ q.removed = r.removed /\ q.failed = r.failed
      /\ q.tracked = r.tracked /\ remote' = remote /\ source' = source
  BY <1>1 DEF PruneDone, Report, Runs
<1>3. NextUnseen(w) = Unseen(r.job)
  BY <1>1, <1>2 DEF NextUnseen, Unseen, Rows
<1>4. Marks(r) /\ Budget(r) /\ Follows(r)
  BY DEF Course
<1>. HIDE DEF q, r
<1>5. NextMarks(w)
  BY <1>1, <1>2, <1>4 DEF NextMarks, Marks, Rows, Pending, q
<1>6. NextFollows(w)
  BY <1>1, <1>2, <1>4 DEF NextFollows, NextDone, Follows, Done, Mirrored, q
<1>7. NextBudget(w)
  BY <1>1, <1>2, <1>3, <1>4 DEF NextBudget, Budget, q
<1>. QED
  BY <1>1, <1>3, <1>5, <1>6, <1>7 DEF NextCourse, NextNothingLeft

-----------------------------------------------------------------------------

(* Users, the scheduler and the bucket's owner stay aside of a runner.     *)
LEMMA OthersAside ==
  ASSUME Inv, [Next]_vars, NEW w \in Busy,
         \A v \in Workers : ~RunnerStep(v) /\ ~Die(v) /\ \A j \in Jobs : ~Start(v, j)
  PROVE  Aside(w)
<1>0. /\ run \in [Workers -> Runs] /\ run[w] \in Runs /\ w \in Workers
      /\ track \in [Objects -> Tracked \cup {None}]
      /\ remote \in [Objects -> Versions]
  BY DEF Inv, TypeOK, Busy
<1>1. ASSUME UNCHANGED <<run, track, remote>>, source' # "gone" => source # "gone"
      PROVE  Aside(w)
  BY <1>1 DEF Aside, Kept
<1>2. ASSUME NEW o \in Objects, Touch(o)
      PROVE  /\ run'[w].pc = run[w].pc /\ run'[w].job = run[w].job /\ run'[w].at = run[w].at
             /\ run'[w].listed = run[w].listed /\ run'[w].snap = run[w].snap
             /\ run'[w].failed = run[w].failed /\ run'[w].found = run[w].found
             /\ run'[w].tracked = run[w].tracked /\ run'[w].removed = run[w].removed
             /\ run'[w].touched = run[w].touched \cup {o}
  <2>1. run'[w] = [run[w] EXCEPT !.touched = @ \cup {o}]
    BY <1>0, <1>2 DEF Touch
  <2>. QED
    BY <1>0, <2>1 DEF Runs
<1>3. ASSUME NEW p \in Objects, Change(p) PROVE Aside(w)
  <2>1. /\ Touch(p) /\ UNCHANGED <<track, source>>
        /\ \A o \in Objects \ {p} : remote'[o] = remote[o]
    BY <1>0, <1>3 DEF Change
  <2>. QED
    BY <1>2, <2>1 DEF Aside, Kept
<1>4. ASSUME NEW p \in Objects, DeleteDocument(p) PROVE Aside(w)
  <2>1. /\ Touch(p) /\ UNCHANGED <<remote, source>> /\ track'[p] = None
        /\ \A o \in Objects \ {p} : track'[o] = track[o]
    BY <1>0, <1>4 DEF DeleteDocument
  <2>. QED
    BY <1>2, <2>1 DEF Aside, Kept
<1>5. ASSUME NEW p \in Objects, IngestionFails(p) PROVE Aside(w)
  <2>1. /\ track[p] \in Tracked /\ track' = [track EXCEPT ![p] = [track[p] EXCEPT !.failed = TRUE]]
        /\ UNCHANGED <<run, remote, source>> /\ track[p] # None
    BY <1>0, <1>5 DEF IngestionFails, Rows
  <2>2. \A o \in Objects : track'[o] # None => Kept(o)
    <3>1. Kept(p)
      <4>1. track'[p] = [track[p] EXCEPT !.failed = TRUE]
        BY <1>0, <2>1
      <4>. QED
        BY <2>1, <4>1 DEF Kept, Tracked
    <3>. QED
      BY <1>0, <2>1, <3>1 DEF Kept
  <2>3. \A o \in Objects : track[o] # None => track'[o] # None
    <3>1. [track[p] EXCEPT !.failed = TRUE] \in Tracked
      BY <2>1 DEF Tracked
    <3>. QED
      BY <1>0, <2>1, <3>1, NoneAssumption
  <2>. QED
    BY <2>1, <2>2, <2>3 DEF Aside
<1>6. CASE DeleteSource
  <2>1. UNCHANGED <<run, remote>> /\ source' = "gone" /\ \A o \in Objects : track'[o] = None
    BY <1>6 DEF DeleteSource
  <2>. QED
    BY <2>1 DEF Aside
<1>7. CASE ComesDue \/ Ask \/ Trigger \/ TriggerRefused \/ RunDue \/ UNCHANGED vars
  BY <1>1, <1>7 DEF ComesDue, Ask, Trigger, TriggerRefused, RunDue, FileJob, vars
<1>8. ASSUME NEW j \in Jobs, GoesQuiet(j) \/ Reap(j) PROVE Aside(w)
  BY <1>1, <1>8 DEF GoesQuiet, Reap
<1>. QED
  BY <1>3, <1>4, <1>5, <1>6, <1>7, <1>8 DEF Next

(* A step that ends a runner leaves nothing to say of it.                  *)
LEMMA OwnCourse ==
  ASSUME Inv, Walk, NEW w \in Busy, Course(run[w]), RunnerStep(w), run'[w].pc # "idle"
  PROVE  NextCourse(w)
<1>1. w \in Workers /\ run \in [Workers -> Runs]
  BY DEF Inv, TypeOK, Busy
<1>2. ASSUME NEW out, Settle(w, out) PROVE FALSE
  BY <1>1, <1>2, IdleOK DEF Settle
<1>3. ~DeferSync(w) /\ ~PruneFails(w) /\ ~Finalize(w) /\ ~FailSync(w)
  BY <1>2 DEF DeferSync, PruneFails, Finalize, FailSync
<1>4. ~FlushFails(w)
  BY <1>1, IdleOK DEF FlushFails
<1>. QED
  BY <1>1, <1>3, <1>4, CourseList, CourseFiled, CourseStamp, CourseGuard, CoursePrune, CoursePruned
  DEF RunnerStep

LEMMA CourseStep == Inv /\ Walk /\ [Next]_vars => OnCourse'
<1>. SUFFICES ASSUME Inv, Walk, [Next]_vars, NoOverrun', NEW w \in Workers, run'[w].pc # "idle"
              PROVE  NextCourse(w)
  BY CourseParts DEF OnCourse, Busy
<1>1. NoOverrun /\ Inv'
  BY BoundsStep, InvStep DEF Inv
<1>2. run \in [Workers -> Runs]
  BY DEF Inv, TypeOK
<1>3. ASSUME w \in Busy PROVE Course(run[w])
  BY <1>1, <1>3 DEF Walk, OnCourse
<1>4. ASSUME NEW v \in Workers, RunnerStep(v) PROVE NextCourse(w)
  <2>1. v \in Busy /\ (GoesOn(v) \/ Ends(v))
    BY <1>4, RunnerShape DEF Inv
  <2>2. v # w => run'[w] = run[w]
    BY <1>2, <2>1 DEF GoesOn, Ends
  <2>3. v = w
    BY <1>1, <2>1, <2>2, Alone DEF Busy
  <2>. QED
    BY <1>3, <1>4, <2>1, <2>3, OwnCourse
<1>5. ASSUME NEW v \in Workers, Die(v) PROVE NextCourse(w)
  <2>1. v \in Busy /\ run' = [run EXCEPT ![v] = Idle]
    BY <1>5 DEF Die
  <2>2. v # w /\ w \in Busy
    BY <1>2, <2>1, IdleOK DEF Busy
  <2>. QED
    BY <1>1, <2>1, <2>2, Alone
<1>6. ASSUME NEW v \in Workers, NEW j \in Jobs, Start(v, j) PROVE NextCourse(w)
  <2>1. CASE jobs[j] = "pending" /\ source # "gone"
    <3>. DEFINE n == [Idle EXCEPT !.pc = "list", !.job = j]
    <3>1. run' = [run EXCEPT ![v] = n] /\ track' = track
      BY <1>6, <2>1 DEF Start
    <3>2. n.pc = "list"
      BY DEF Idle
    <3>. HIDE DEF n
    <3>3. v \in Busy' /\ w \in Busy'
      BY <1>2, <3>1, <3>2 DEF Busy
    <3>4. v # w => w \in Busy /\ run[w].job \in Active /\ jobs[run[w].job] = "running"
      BY <1>1, <1>2, <3>1, <3>3 DEF Busy, Inv, LiveJobs, JobsTaken, Active
    <3>5. v = w
      BY <2>1, <3>4 DEF Inv, OneActiveJob, Active
    <3>. QED
      BY <1>2, <2>1, <3>1, <3>5, CourseStart DEF n
  <2>2. CASE ~(jobs[j] = "pending" /\ source # "gone")
    <3>1. UNCHANGED <<run, track, remote, source>>
      BY <1>6, <2>2 DEF Start
    <3>2. w \in Busy /\ Aside(w)
      BY <3>1 DEF Aside, Kept, Busy
    <3>. QED
      BY <1>3, <3>2, CourseAside
  <2>. QED
    BY <2>1, <2>2
<1>7. CASE \A v \in Workers : ~RunnerStep(v) /\ ~Die(v) /\ \A j \in Jobs : ~Start(v, j)
  <2>1. w \in Busy
    <3>1. UNCHANGED run \/ \E o \in Objects : Touch(o)
      BY <1>7 DEF Next, vars, Change, DeleteDocument, IngestionFails, ComesDue, Ask, Trigger,
         TriggerRefused, RunDue, DeleteSource, GoesQuiet, Reap
    <3>. QED
      BY <1>2, <3>1 DEF Touch, Busy
  <2>. QED
    BY <1>3, <1>7, <2>1, OthersAside, CourseAside
<1>. QED
  BY <1>4, <1>5, <1>6, <1>7

-----------------------------------------------------------------------------

LEMMA WalkHolds == Spec => [](Inv /\ Walk)
<1>1. Inv /\ Walk /\ [Next]_vars => Walk'
  BY PlaceStep, SeenStep, SignedStep, CourseStep DEF Walk
<1>. QED
  BY <1>1, InitInv, InitWalk, InvStep, PTL DEF Spec

(* The limit on deletions that is checked before the pruning holds for all *)
(* of its batches together, and the pruning never takes the document of an *)
(* object that its job has listed.                                         *)
THEOREM PruningIsSafe == Spec => PruneSafe
<1>1. Inv /\ Walk => WithinDeleteLimit
  <2>. SUFFICES ASSUME Inv, Walk, NEW w \in Busy, NoOverrun, run[w].removed > 0,
                       run[w].tracked >= MinTracked
                PROVE  run[w].removed * 100 <= run[w].tracked * MaxPercent
    BY DEF WithinDeleteLimit
  <2>. DEFINE top == run[w].tracked * MaxPercent
              n == Cardinality(Unseen(run[w].job))
              m == run[w].removed
  <2>1. m \in Nat /\ n \in Nat /\ top \in Nat
    <3>1. run[w] \in Runs /\ MaxPercent \in Nat
      BY ConnectorAssumption DEF Inv, TypeOK, Busy
    <3>2. m \in Nat /\ run[w].tracked \in Nat
      BY <3>1, ConnectorAssumption DEF Runs
    <3>3. n \in Nat
      BY UnseenFinite
    <3>. QED
      BY <3>1, <3>2, <3>3
  <2>2. (m + n) * 100 <= top
    BY DEF Walk, OnCourse, Course, Budget
  <2>. HIDE DEF top, n, m
  <2>3. m * 100 <= top
    BY <2>1, <2>2
  <2>. QED
    BY <2>3 DEF m, top
<1>. DEFINE Spares == \A w \in Workers : \A o \in run[w].found : NoOverrun => ~Prunes(w, o)
<1>2. Inv /\ Walk /\ [Next]_vars => [Spares]_vars
  <2>. SUFFICES ASSUME Inv, Walk, Next, NoOverrun, NEW w \in Workers, NEW o \in run[w].found,
                       Prunes(w, o)
                PROVE  FALSE
    OBVIOUS
  <2>0. /\ run \in [Workers -> Runs] /\ run[w] \in Runs /\ w \in Busy /\ o \in Rows
        /\ track[o] # None /\ track'[o] = None /\ run'[w].removed # run[w].removed
        /\ run[w].pc = "prune"
    BY DEF Inv, TypeOK, Prunes, Busy, Rows, Runs
  <2>1. Course(run[w])
    BY <2>0 DEF Walk, OnCourse
  <2>2. track[o].seen = run[w].job
    BY <2>0, <2>1 DEF Course, Marks, Pending
  <2>3. ASSUME NEW v \in Workers, RunnerStep(v) PROVE FALSE
    <3>1. v \in Busy
      BY <2>3, RunnerShape DEF Inv
    <3>2. v = w
      BY <2>0, <3>1, Alone
    <3>3. CASE PruneBatch(w) \/ PruneFails(w)
      <4>1. o \notin Unseen(run[w].job)
        BY <2>2 DEF Unseen
      <4>2. track'[o] = track[o]
        BY <2>0, <3>3, <4>1 DEF PruneBatch, PruneFails, Rows
      <4>. QED
        BY <2>0, <4>2
    <3>4. CASE PruneDone(w) \/ FailSync(w)
      BY <2>0, <3>4 DEF PruneDone, FailSync
    <3>5. run[w].pc = "prune"
      BY <2>0
    <3>. QED
      BY <2>3, <3>2, <3>3, <3>4, <3>5
      DEF RunnerStep, ListPage, SkipFile, FileFails, SkipContent, SyncFile, DeferSync, FlushFails,
          Stamp, Guard, Finalize, Store, Downloaded
  <2>4. ASSUME NEW v \in Workers, Die(v) PROVE FALSE
    BY <2>0, <2>4 DEF Die
  <2>5. ASSUME NEW v \in Workers, NEW j \in Jobs, Start(v, j) PROVE FALSE
    BY <2>0, <2>5 DEF Start
  <2>6. CASE \A v \in Workers : ~RunnerStep(v) /\ ~Die(v) /\ \A j \in Jobs : ~Start(v, j)
    BY <2>0, <2>6, OthersAside DEF Aside
  <2>. QED
    BY <2>3, <2>4, <2>5, <2>6
<1>. QED
  BY <1>1, <1>2, WalkHolds, PTL DEF Spec, PruneSafe, PruneSparesListed

(* A sync that ends as complete has mirrored every object that nobody      *)
(* touched since it began.                                                 *)
THEOREM CompletionMirrors == Spec => CompleteMirrors
<1>. DEFINE Mirrors ==
       \A w \in Workers :
         NoOverrun /\ run[w].pc = "final" /\ run'[w].pc = "idle" /\ jobs'[run[w].job] = "complete"
           => \A o \in Objects \ run[w].touched : Mirrored(o)
<1>1. Inv /\ Walk /\ [Next]_vars => [Mirrors]_vars
  <2>. SUFFICES ASSUME Inv, Walk, Next, NoOverrun, NEW w \in Workers, run[w].pc = "final",
                       run'[w].pc = "idle", jobs'[run[w].job] = "complete",
                       NEW o \in Objects \ run[w].touched
                PROVE  Mirrored(o)
    OBVIOUS
  <2>1. /\ run \in [Workers -> Runs] /\ run[w] \in Runs /\ w \in Busy
        /\ jobs \in [Jobs -> JobStates] /\ run[w].job \in Jobs
        /\ jobs[run[w].job] = "running"
    BY DEF Inv, TypeOK, Busy, JobStates, JobsTaken, LiveJobs
  <2>2. Course(run[w])
    BY <2>1 DEF Walk, OnCourse
  <2>3. source # "gone" /\ ~run[w].failed
    <3>1. ASSUME NEW v \in Workers, RunnerStep(v)
          PROVE  source # "gone" /\ ~run[w].failed
      <4>1. v \in Busy
        BY <3>1, RunnerShape DEF Inv
      <4>2. v = w
        BY <2>1, <4>1, Alone
      <4>3. CASE Finalize(w)
        BY <2>1, <4>3 DEF Finalize, Settle
      <4>4. CASE FailSync(w)
        BY <2>1, <4>4 DEF FailSync, Settle
      <4>. QED
        BY <3>1, <4>2, <4>3, <4>4
        DEF RunnerStep, ListPage, SkipFile, FileFails, SkipContent, SyncFile, DeferSync, FlushFails,
            Stamp, Guard, PruneBatch, PruneFails, PruneDone, Store, Downloaded
    <3>2. ASSUME NEW v \in Workers, Die(v) PROVE FALSE
      BY <2>1, <3>2 DEF Die
    <3>3. ASSUME NEW v \in Workers, NEW j \in Jobs, Start(v, j) PROVE FALSE
      BY <2>1, <3>3 DEF Start
    <3>4. CASE \A v \in Workers : ~RunnerStep(v) /\ ~Die(v) /\ \A j \in Jobs : ~Start(v, j)
      BY <2>1, <3>4, OthersAside DEF Aside
    <3>. QED
      BY <3>1, <3>2, <3>3, <3>4
  <2>4. Done(run[w], o)
    BY <2>2, <2>3 DEF Course, Follows
  <2>5. CASE o \in run[w].found
    BY <2>4, <2>5 DEF Done
  <2>6. CASE o \notin run[w].found
    <3>1. o < run[w].at
      BY <2>1, ConnectorAssumption DEF Walk, InPlace, Runs, Objects
    <3>2. remote[o] = 0
      BY <2>4, <2>6, <3>1 DEF Done
    <3>3. track[o] = None
      BY <2>2, <2>6 DEF Course, Marks, NothingLeft, Unseen, Rows
    <3>. QED
      BY <3>2, <3>3 DEF Mirrored
  <2>. QED
    BY <2>5, <2>6
<1>. QED
  BY <1>1, WalkHolds, PTL DEF Spec, CompleteMirrors
=============================================================================

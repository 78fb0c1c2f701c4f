-------------------------------- MODULE MCLive --------------------------------
(* Liveness of the components that retry, poll and reschedule themselves, for   *)
(* TLC. They share no state: a behaviour is one of a single component, "focus". *)
EXTENDS EmbeddingGate

CONSTANT None  \* no document, no job

VARIABLES
  focus,
  remote, track, source, due, jobs, quiet, msgs, asked, run, left,       \* ConnectorSync
  session, item, doc, upReq, uploadPast,                                 \* UploadSession
  row, calls, act, tries, key, seeder, spare                             \* WebhookOutbox

Workers == {"w1", "w2"}
Items == {"i1"}
Rows == {"d1"}
Ticks == {"t1", "t2", "t3"}

Sync == INSTANCE ConnectorSync WITH
  NumObjects <- 1, NumJobs <- 2, BatchSize <- 1, MinTracked <- 1, MaxPercent <- 50,
  MaxMessages <- 1, MaxChanges <- 0, MaxCuts <- 0, MaxDeaths <- 1, MaxOverruns <- 1
Upload == INSTANCE UploadSession WITH MaxTries <- 2, MaxUploads <- 2, MaxEvents <- 1
Outbox == INSTANCE WebhookOutbox WITH
  NoTick <- None, Limit <- 1, MaxAttempts <- 2, MaxBoots <- 1, MaxCrashes <- 1,
  MaxLapses <- 0, MaxLosses <- 1, MaxFaults <- 1, left <- spare

syncVars == <<remote, track, source, due, jobs, quiet, msgs, asked, run, left>>
upVars == <<session, item, doc, upReq, uploadPast>>
outboxVars == <<row, calls, act, tries, key, seeder, spare>>

LiveInit ==
  /\ focus \in {"sync", "gate", "upload", "outbox"}
  /\ Sync!Init /\ Init /\ Upload!UploadInit /\ Outbox!Init

SyncStep == focus = "sync" /\ Sync!Next /\ UNCHANGED <<focus, gateVars, upVars, outboxVars>>
GateStep == focus = "gate" /\ Next /\ UNCHANGED <<focus, syncVars, upVars, outboxVars>>
UploadStep == focus = "upload" /\ Upload!UploadNext /\ UNCHANGED <<focus, syncVars, gateVars, outboxVars>>

OutboxStep ==
  focus = "outbox" /\ Outbox!Next /\ UNCHANGED <<focus, syncVars, gateVars, upVars>>

LiveNext == SyncStep \/ GateStep \/ UploadStep \/ OutboxStep
liveVars == <<focus, syncVars, gateVars, upVars, outboxVars>>

\* The fairness of each module, for the behaviours that are its own.
LiveFairness ==
  /\ \A w \in Workers : WF_syncVars(focus = "sync" /\ Sync!RunnerStep(w))
  /\ \A j \in 1..2 : /\ WF_syncVars(focus = "sync" /\ Sync!GoesQuiet(j))
                     /\ WF_syncVars(focus = "sync" /\ Sync!Reap(j))
  /\ WF_gateVars(focus = "gate" /\ Work)
  /\ WF_gateVars(focus = "gate" /\ CoolingEnds)
  /\ WF_gateVars(focus = "gate" /\ LeftOver)
  /\ WF_gateVars(focus = "gate" /\ Reset)
  /\ \A u \in Upload!Uploads : WF_upVars(focus = "upload" /\ Upload!Serve(u))
  /\ WF_upVars(focus = "upload" /\ Upload!Polling)
  /\ \A i \in Items : WF_upVars(focus = "upload" /\ Upload!IngestItem(i))
  /\ \A d \in Rows : WF_outboxVars(focus = "outbox" /\ Outbox!TimePasses(d))
  /\ \A a \in Rows \cup Ticks : WF_outboxVars(focus = "outbox" /\ Outbox!ActorStep(a))
  /\ \A t \in Ticks : WF_outboxVars(focus = "outbox" /\ Outbox!TickStep(t))
  /\ WF_outboxVars(focus = "outbox" /\ Outbox!KeyExpires)
  /\ WF_outboxVars(focus = "outbox" /\ Outbox!SeedStep)

LiveSpec == LiveInit /\ [][LiveNext]_liveVars /\ LiveFairness

---------------------------------------------------------------------------
(* The properties of the modules, under the names that the run checks.         *)

\* Every sync job comes to an end.
SyncSettles == focus = "sync" => Sync!EventuallySettled
\* Every batch gets through the gate.
GateLetsThrough == focus = "gate" => GateOpens
\* A session whose files are settled comes to rest in a final status.
SessionSettles == focus = "upload" => Upload!SessionSettles
\* No delivery stays pending.
EventuallySettled == focus = "outbox" => Outbox!EventuallySettled
=============================================================================

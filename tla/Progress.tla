------------------------------ MODULE Progress ------------------------------
(* What a client is told of the ingestion of a document (services/event_bus/  *)
(* bus.py, document_progress.py): the row of the document, the latest event   *)
(* in Redis, and the events that each process remembers.  Every event is      *)
(* published by a task of its own, so that events pass each other.            *)
EXTENDS Naturals, FiniteSets

CONSTANTS
  MaxRuns,      \* contents of the document: an upload, then syncs of a connector
  MaxTasks,     \* publishing tasks under way at the same time
  MaxBusFaults  \* failing calls of Redis, retries, dying workers

ASSUME ProgressAssumption == MaxRuns \in Nat \ {0} /\ MaxBusFaults \in Nat

VARIABLES
  docRow,     \* the status of the document, and the run it is about
  api,        \* the API process has yet to announce the upload
  worker,     \* where the job of the run is
  published,  \* events published
  tasks,      \* the tasks that publish them
  redis,      \* the latest event, in Redis
  local,      \* the latest event that the API process remembers
  poll,       \* a request, and the row that it has read
  busFaults

progressVars == <<docRow, api, worker, published, tasks, redis, local, poll, busFaults>>

Terminal == {"ready", "failed"}
TerminalEvents == {"complete", "failed"}
Publishers == {"api", "worker"}
NoEvent == [n |-> 0, status |-> "none"]
Statuses == {"pending", "processing"} \cup TerminalEvents
Event == [n : Nat, status : Statuses \cup {"none"}]
Rows == [status : {"pending", "processing"} \cup Terminal, run : 1..MaxRuns]
NoRow == [status |-> "none", run |-> 0]

ProgressTypeOK ==
  /\ docRow \in Rows
  /\ api \in BOOLEAN
  /\ worker \in {"queued", "working", "complete", "failed", "done"}
  /\ published \in Nat
  /\ tasks \subseteq [event : Event, by : Publishers, pc : {"set", "publish"}]
  /\ {redis, local} \subseteq Event
  /\ poll \in {NoRow} \cup Rows
  /\ busFaults \in 0..MaxBusFaults

\* The upload is committed, and its job is sent.
ProgressInit ==
  /\ docRow = [status |-> "pending", run |-> 1]
  /\ api = TRUE /\ worker = "queued"
  /\ published = 0 /\ tasks = {} /\ redis = NoEvent
  /\ local = NoEvent
  /\ poll = NoRow
  /\ busFaults = 0

BusFault == busFaults < MaxBusFaults /\ busFaults' = busFaults + 1

---------------------------------------------------------------------------
(* The bus.                                                                   *)

\* publish: the process remembers the event and starts a task. Only what the API
\* process remembers is ever asked for.
Publish(p, status) ==
  LET event == [n |-> published + 1, status |-> status] IN
  /\ Cardinality(tasks) < MaxTasks
  /\ published' = published + 1
  /\ local' = IF p = "api" THEN event ELSE local
  /\ tasks' = tasks \cup {[event |-> event, by |-> p, pc |-> "set"]}

\* The task sets the latest event, whatever is there,
SetLatest(t) ==
  /\ t.pc = "set"
  /\ redis' = t.event
  /\ tasks' = (tasks \ {t}) \cup {[t EXCEPT !.pc = "publish"]}
  /\ UNCHANGED <<docRow, api, worker, published, local, poll, busFaults>>

\* and publishes it, on up to three channels, to the API process if it listens.
Broadcast(t) ==
  /\ t.pc = "publish"
  /\ local' \in {local, t.event}
  /\ tasks' \in {tasks, tasks \ {t}}
  /\ UNCHANGED <<docRow, api, worker, published, redis, poll, busFaults>>

\* The latest event has a time to live.
LatestExpires ==
  /\ redis # NoEvent /\ BusFault
  /\ redis' = NoEvent
  /\ UNCHANGED <<docRow, api, worker, published, tasks, local, poll>>

\* A failing call ends the task, and its event.
TaskFails(t) ==
  /\ BusFault
  /\ tasks' = tasks \ {t}
  /\ UNCHANGED <<docRow, api, worker, published, redis, local, poll>>

---------------------------------------------------------------------------
(* Those who publish.                                                         *)

\* publish_queued_progress comes after the job was sent.
Announce ==
  /\ api /\ api' = FALSE
  /\ Publish("api", "pending")
  /\ UNCHANGED <<docRow, worker, redis, poll, busFaults>>

\* process_job: it says so twice, before and after the row is marked.
BeginRun ==
  /\ worker = "queued" /\ worker' = "working"
  /\ docRow' = [docRow EXCEPT !.status = "processing"]
  /\ Publish("worker", "processing")
  /\ UNCHANGED <<api, redis, poll, busFaults>>

\* The finalizers update the row
Settle(outcome) ==
  /\ worker = "working" /\ worker' = outcome
  /\ docRow' = [docRow EXCEPT !.status = IF outcome = "complete" THEN "ready" ELSE "failed"]
  /\ UNCHANGED <<api, published, tasks, redis, local, poll, busFaults>>

\* and publish the outcome when the rest is done.
Conclude ==
  /\ worker \in TerminalEvents /\ worker' = "done"
  /\ Publish("worker", worker)
  /\ UNCHANGED <<docRow, api, redis, poll, busFaults>>

\* finalize_retry: the row is pending again, the event says "retrying".
Retry ==
  /\ worker = "working" /\ worker' = "queued" /\ BusFault
  /\ docRow' = [docRow EXCEPT !.status = "pending"]
  /\ Publish("worker", "processing")
  /\ UNCHANGED <<api, redis, poll>>

\* A dying worker takes its tasks along; the recovery sets the row back.
WorkerDies ==
  /\ worker \in {"working", "complete", "failed"} /\ BusFault
  /\ tasks' = {t \in tasks : t.by # "worker"}
  /\ IF docRow.status \in Terminal
       THEN worker' = "done" /\ UNCHANGED docRow
       ELSE worker' = "queued" /\ docRow' = [docRow EXCEPT !.status = "pending"]
  /\ UNCHANGED <<api, published, redis, local, poll>>

\* A sync finds new content: the row is pending again, and nothing is published.
Resync ==
  /\ worker = "done" /\ docRow.run < MaxRuns
  /\ docRow' = [status |-> "pending", run |-> docRow.run + 1]
  /\ worker' = "queued"
  /\ UNCHANGED <<api, published, tasks, redis, local, poll, busFaults>>

---------------------------------------------------------------------------
(* Those who ask.                                                             *)

ReadRow ==
  /\ poll = NoRow /\ poll' = docRow
  /\ UNCHANGED <<docRow, api, worker, published, tasks, redis, local, busFaults>>

\* EventBus.latest: Redis, else what the process remembers.
Latest == {IF redis = NoEvent THEN local ELSE redis}
            \cup IF busFaults < MaxBusFaults THEN {local} ELSE {}

\* fallback_progress
Fallback(status) == IF status = "ready" THEN "complete" ELSE status

(* Mutant of Answer: the event is taken whatever the row says.                *)
AnswerOfEvent(many, event) ==
  IF event = NoEvent THEN Fallback(poll.status) ELSE event.status

\* document_progress: the event, unless the row is settled and the event is not;
\* document_progress_map: the event, if the row is not settled.
Answer(many, event) ==
  IF \/ event = NoEvent
     \/ poll.status \in Terminal /\ (many \/ event.status \notin TerminalEvents)
    THEN Fallback(poll.status) ELSE event.status

Reply ==
  /\ poll # NoRow /\ poll' = NoRow
  /\ local' \in Latest
  /\ UNCHANGED <<docRow, api, worker, published, tasks, redis, busFaults>>

ProgressNext ==
  \/ Announce \/ BeginRun \/ Conclude \/ Retry \/ WorkerDies \/ Resync \/ ReadRow
  \/ Reply \/ LatestExpires
  \/ \E outcome \in TerminalEvents : Settle(outcome)
  \/ \E t \in tasks : SetLatest(t) \/ Broadcast(t) \/ TaskFails(t)

ProgressSpec == ProgressInit /\ [][ProgressNext]_progressVars

---------------------------------------------------------------------------
(* Properties.                                                                *)

\* Whatever events are late, lost or out of order: a document whose row is
\* settled is not shown as under way, and the outcome shown is that of the row,
\* unless a sync has run it again: then the page of the document may show the
\* newer outcome, or, from an event that was overtaken, the one of an older run.
SettledShown ==
  poll.status \in Terminal =>
    \A many \in BOOLEAN, event \in Latest :
      LET status == Answer(many, event) IN
      /\ status \in TerminalEvents
      /\ status # Fallback(poll.status) =>
           /\ ~many
           /\ docRow.run > poll.run \/ (poll.run > 1 /\ event.n < published)
=============================================================================

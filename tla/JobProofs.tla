--------------------------------- MODULE JobProofs ----------------------------------
(* Proofs about what surrounds a job: its slot in the queue (Admission),     *)
(* what the readers of its document are shown (Progress), and the documents  *)
(* of a collection with their files and vectors (Library).                   *)
EXTENDS Admission, Progress, Library, FiniteSetTheorems, TLAPS

(***************************************************************************)
(* Proofs about Admission, for every finite set of clients, every depth    *)
(* and every number of stray releases.  The argument counts: each step     *)
(* adds at most one client to Counted or takes at most one away, and the   *)
(* counter follows it.                                                     *)
(***************************************************************************)

(* The two counted sets are finite, so that their cardinalities are        *)
(* naturals.                                                               *)
LEMMA CountedFinite ==
  /\ IsFiniteSet(Counted) /\ Cardinality(Counted) \in Nat
  /\ IsFiniteSet(Held) /\ Cardinality(Held) \in Nat
  /\ Held \subseteq Counted
  /\ Cardinality(Held) <= Cardinality(Counted)
<1>1. Counted \subseteq Clients /\ Held \subseteq Counted
  BY DEF Counted, Held
<1>2. IsFiniteSet(Counted)
  BY <1>1, FS_Subset, AdmissionAssumption
<1>. QED
  BY <1>1, <1>2, FS_Subset, FS_CardinalityType

(* How each step changes the set of clients whose increment stands.        *)
LEMMA CountedGrows ==
  ASSUME TypeOK, NEW c \in Clients, Admit(c)
  PROVE  /\ c \notin Counted
         /\ Counted' = Counted \cup {c}
         /\ Cardinality(Counted') = Cardinality(Counted) + 1
<1>1. c \notin Counted /\ Counted' = Counted \cup {c}
  BY DEF TypeOK, Admit, Counted
<1>. QED
  BY <1>1, CountedFinite, FS_AddElement

(* A rejected or released client leaves the set, and it alone.             *)
LEMMA CountedShrinks ==
  ASSUME TypeOK, NEW c \in Clients, Reject(c) \/ Release(c)
  PROVE  Cardinality(Counted') = Cardinality(Counted) - 1
<1>1. c \in Counted /\ Counted' = Counted \ {c}
  <2>1. CASE Reject(c)
    BY <2>1 DEF TypeOK, Reject, Counted
  <2>2. CASE Release(c)
    BY <2>2 DEF TypeOK, Release, Decrement, Counted
  <2>. QED
    BY <2>1, <2>2
<1>. QED
  BY <1>1, CountedFinite, FS_RemoveElement

(* A stray release and the clamp move no client in or out of the set.      *)
LEMMA CountedStays ==
  ASSUME TypeOK, NEW c \in Clients, StrayRelease(c) \/ Clamp(c)
  PROVE  Counted' = Counted /\ Held' = Held
<1>1. CASE StrayRelease(c)
  BY <1>1 DEF TypeOK, StrayRelease, Decrement, Counted, Held
<1>2. CASE Clamp(c)
  BY <1>2 DEF TypeOK, Clamp, Counted, Held
<1>. QED
  BY <1>1, <1>2

-----------------------------------------------------------------------------

(* Every step keeps the types of the counter and of the clients' places.   *)
LEMMA TypeStep == TypeOK /\ [Next]_vars => TypeOK'
<1>. SUFFICES ASSUME TypeOK, [Next]_vars PROVE TypeOK'
  OBVIOUS
<1>. USE AdmissionAssumption DEF TypeOK
<1>1. ASSUME NEW c \in Clients, Admit(c) PROVE TypeOK'
  BY <1>1 DEF Admit
<1>2. ASSUME NEW c \in Clients, Reject(c) PROVE TypeOK'
  BY <1>2 DEF Reject
<1>3. ASSUME NEW c \in Clients, Release(c) PROVE TypeOK'
  BY <1>3 DEF Release, Decrement
<1>4. ASSUME NEW c \in Clients, StrayRelease(c) PROVE TypeOK'
  BY <1>4 DEF StrayRelease, Decrement
<1>5. ASSUME NEW c \in Clients, Clamp(c) PROVE TypeOK'
  BY <1>5 DEF Clamp
<1>6. CASE UNCHANGED vars
  BY <1>6 DEF vars
<1>. QED
  BY <1>1, <1>2, <1>3, <1>4, <1>5, <1>6 DEF Next

(* The clients' places and the counter always have their types.            *)
THEOREM TypeCorrect == Spec => []TypeOK
<1>1. Init => TypeOK
  BY AdmissionAssumption DEF Init, TypeOK
<1>. QED
  BY <1>1, TypeStep, PTL DEF Spec

-----------------------------------------------------------------------------

(* No slot is lost: whatever stray releases and clamps do, the counter of  *)
(* release_inflight never stays above the increments that stand.           *)
THEOREM SlotsNeverLeak == Spec => []NoLeak
<1>1. Init => NoLeak
  BY CountedFinite DEF Init, NoLeak
<1>2. TypeOK /\ NoLeak /\ [Next]_vars => NoLeak'
  <2>. SUFFICES ASSUME TypeOK, NoLeak, [Next]_vars PROVE NoLeak'
    OBVIOUS
  <2>0. /\ inflight \in Int /\ Cardinality(Counted) \in Nat
        /\ Cardinality(Counted') \in Nat
        /\ inflight <= Cardinality(Counted)
    <3>1. Counted' \subseteq Clients
      BY DEF Counted
    <3>. QED
      BY <3>1, CountedFinite, FS_Subset, FS_CardinalityType, AdmissionAssumption
         DEF TypeOK, NoLeak
  <2>1. ASSUME NEW c \in Clients, Admit(c) PROVE NoLeak'
    <3>1. Cardinality(Counted') = Cardinality(Counted) + 1
      BY <2>1, CountedGrows
    <3>. QED
      BY <2>0, <2>1, <3>1 DEF Admit, NoLeak
  <2>2. ASSUME NEW c \in Clients, Reject(c) \/ Release(c) PROVE NoLeak'
    <3>1. Cardinality(Counted') = Cardinality(Counted) - 1
      BY <2>2, CountedShrinks
    <3>. QED
      BY <2>0, <2>2, <3>1 DEF Reject, Release, Decrement, NoLeak
  <2>3. ASSUME NEW c \in Clients, StrayRelease(c) PROVE NoLeak'
    <3>1. Counted' = Counted
      BY <2>3, CountedStays
    <3>. QED
      BY <2>0, <2>3, <3>1 DEF StrayRelease, Decrement, NoLeak
  <2>4. ASSUME NEW c \in Clients, Clamp(c) PROVE NoLeak'
    BY <2>0, <2>4 DEF Clamp, NoLeak
  <2>5. CASE UNCHANGED vars
    BY <2>0, <2>5 DEF vars, Counted, NoLeak
  <2>. QED
    BY <2>1, <2>2, <2>3, <2>4, <2>5 DEF Next
<1>. QED
  BY <1>1, <1>2, TypeCorrect, PTL DEF Spec

-----------------------------------------------------------------------------

(* The inductive invariant behind the two properties that assume that      *)
(* every release was paid for: the exact count is what makes the           *)
(* comparison after the increment a comparison with the number of jobs.    *)
Paid == TypeOK /\ ExactCount /\ WithinDepth

(* Nothing is held and nothing is counted at the start.                    *)
LEMMA PaidInit == Init => Paid
<1>1. ASSUME Init PROVE Counted = {} /\ Held = {}
  BY <1>1 DEF Init, Counted, Held
<1>. QED
  BY <1>1, FS_EmptySet, AdmissionAssumption
     DEF Init, Paid, TypeOK, ExactCount, WithinDepth

(* Every step keeps the count exact and the held slots within the depth.   *)
LEMMA PaidStep == Paid /\ [Next]_vars => Paid'
<1>. SUFFICES ASSUME Paid, [Next]_vars PROVE Paid'
  OBVIOUS
<1>0. TypeOK /\ TypeOK' /\ ExactCount /\ WithinDepth
  BY TypeStep DEF Paid
<1>. USE AdmissionAssumption, CountedFinite
<1>1. ASSUME NEW c \in Clients, Admit(c) PROVE ExactCount' /\ WithinDepth'
  <2>. SUFFICES ASSUME strays = 0 PROVE ExactCount' /\ WithinDepth'
    BY <1>1 DEF Admit, ExactCount, WithinDepth
  <2>1. inflight = Cardinality(Counted) /\ Cardinality(Held) <= MaxDepth
    BY <1>0 DEF ExactCount, WithinDepth
  <2>2. ExactCount'
    BY <1>0, <1>1, <2>1, CountedGrows DEF Admit, TypeOK, ExactCount
  <2>3. CASE inflight + 1 > MaxDepth
    <3>1. Held' = Held
      BY <1>0, <1>1, <2>3 DEF Admit, TypeOK, Held
    <3>. QED
      BY <2>1, <2>2, <3>1 DEF WithinDepth
  <2>4. CASE ~(inflight + 1 > MaxDepth)
    <3>1. Held' = Held \cup {c} /\ c \notin Held
      BY <1>0, <1>1, <2>4 DEF Admit, TypeOK, Held
    <3>2. Cardinality(Held') = Cardinality(Held) + 1
      BY <3>1, FS_AddElement
    <3>. QED
      BY <2>1, <2>2, <2>4, <3>2 DEF WithinDepth
  <2>. QED
    BY <2>3, <2>4
<1>2. ASSUME NEW c \in Clients, Reject(c) PROVE ExactCount' /\ WithinDepth'
  <2>1. Held' = Held
    BY <1>0, <1>2 DEF Reject, TypeOK, Held
  <2>. QED
    BY <1>0, <1>2, <2>1, CountedShrinks DEF Reject, TypeOK, ExactCount, WithinDepth
<1>3. ASSUME NEW c \in Clients, Release(c) PROVE ExactCount' /\ WithinDepth'
  <2>1. Held' = Held \ {c} /\ c \in Held
    BY <1>0, <1>3 DEF Release, Decrement, TypeOK, Held
  <2>2. Cardinality(Held') = Cardinality(Held) - 1
    BY <2>1, FS_RemoveElement
  <2>3. Cardinality(Counted) >= 1
    BY <2>1, FS_EmptySet
  <2>4. WithinDepth'
    BY <1>0, <1>3, <2>2 DEF Release, WithinDepth
  <2>5. Cardinality(Counted') = Cardinality(Counted) - 1
    BY <1>0, <1>3, CountedShrinks
  <2>6. ExactCount'
    <3>. SUFFICES ASSUME strays = 0 PROVE ExactCount'
      BY <1>3 DEF Release, ExactCount
    <3>1. inflight = Cardinality(Counted) /\ ~(inflight - 1 < 0)
      BY <1>0, <2>3 DEF ExactCount
    <3>. QED
      BY <1>0, <1>3, <2>5, <3>1 DEF Release, Decrement, TypeOK, ExactCount
  <2>. QED
    BY <2>4, <2>6
<1>4. ASSUME NEW c \in Clients, StrayRelease(c) PROVE ExactCount' /\ WithinDepth'
  BY <1>0, <1>4 DEF StrayRelease, TypeOK, ExactCount, WithinDepth
<1>5. ASSUME NEW c \in Clients, Clamp(c) PROVE ExactCount' /\ WithinDepth'
  BY <1>0, <1>5 DEF Clamp, ExactCount, WithinDepth
<1>6. CASE UNCHANGED vars
  <2>1. Counted' = Counted /\ Held' = Held
    BY <1>6 DEF vars, Counted, Held
  <2>2. ExactCount' /\ WithinDepth'
    BY <1>0, <1>6, <2>1 DEF vars, ExactCount, WithinDepth
  <2>. QED
    BY <1>0, <2>2 DEF Paid
<1>. QED
  BY <1>0, <1>1, <1>2, <1>3, <1>4, <1>5, <1>6 DEF Next, Paid

(* Without stray releases the counter is the number of standing            *)
(* increments and the clamp of release_inflight is dead code.              *)
THEOREM CountIsExact == Spec => []ExactCount
BY PaidInit, PaidStep, PTL DEF Spec, Paid

(* Without stray releases admit_inflight never admits more than            *)
(* queue_max_depth jobs.                                                   *)
THEOREM DepthIsBounded == Spec => []WithinDepth
BY PaidInit, PaidStep, PTL DEF Spec, Paid

(* The three facts about the counter together, as the run checks them.     *)
THEOREM CounterIsSound == Spec => []SlotsCounted
BY SlotsNeverLeak, CountIsExact, DepthIsBounded, PTL DEF SlotsCounted

-----------------------------------------------------------------------------

(* The abstract module has its own instance of FiniteSets: the two         *)
(* cardinalities are the same function.                                    *)
LEMMA SameCardinality == \A S : Slots!Cardinality(S) = Cardinality(S)
BY DEF Slots!Cardinality, Cardinality

(* Every step of the two-command protocol is a step of the atomic bounded  *)
(* set of slots or leaves it alone, as long as no stray release happened.  *)
LEMMA SlotStep ==
  ASSUME Paid, strays = 0, [Next]_vars
  PROVE  [Slots!Next]_Held
<1>. USE DEF Paid
<1>1. ASSUME NEW c \in Clients, Admit(c) PROVE [Slots!Next]_Held
  <2>1. CASE inflight + 1 > MaxDepth
    BY <1>1, <2>1 DEF Admit, TypeOK, Held
  <2>2. CASE ~(inflight + 1 > MaxDepth)
    <3>1. Held' = Held \cup {c} /\ c \notin Held
      BY <1>1, <2>2 DEF Admit, TypeOK, Held
    <3>2. Cardinality(Held) < MaxDepth
      BY <2>2, CountedFinite, AdmissionAssumption DEF ExactCount
    <3>. QED
      BY <3>1, <3>2, SameCardinality DEF Slots!Next, Slots!Acquire
  <2>. QED
    BY <2>1, <2>2
<1>2. ASSUME NEW c \in Clients, Reject(c) PROVE [Slots!Next]_Held
  BY <1>2 DEF Reject, TypeOK, Held
<1>3. ASSUME NEW c \in Clients, Release(c) PROVE [Slots!Next]_Held
  <2>1. Held' = Held \ {c} /\ c \in Held
    BY <1>3 DEF Release, Decrement, TypeOK, Held
  <2>. QED
    BY <2>1 DEF Slots!Next, Slots!Release
<1>4. ASSUME NEW c \in Clients, StrayRelease(c) \/ Clamp(c) PROVE [Slots!Next]_Held
  BY <1>4, CountedStays
<1>5. CASE UNCHANGED vars
  BY <1>5 DEF vars, Held
<1>. QED
  BY <1>1, <1>2, <1>3, <1>4, <1>5 DEF Next

(* Up to the first stray release, admission and release implement the      *)
(* atomic bounded set of slots.                                            *)
THEOREM AdmissionRefinesSlots == Spec => ImplementsBoundedSlots
<1>1. Init => Slots!Init
  BY DEF Init, Slots!Init, Held
<1>2. Paid /\ [Next]_vars => [strays = 0 => Slots!Next]_Held
  BY SlotStep
<1>. QED
  BY <1>1, <1>2, PaidInit, PaidStep, PTL DEF Spec, ImplementsBoundedSlots

------------------------------------------------------------------------------
(* Progress, for any number of runs, tasks and faults.                       *)

\* The events that may still be shown.
EventsAlive == {redis, local} \cup {t.event : t \in tasks}

\* The row says where the job of its run is.
RowFollowsJob ==
  /\ worker = "queued" => docRow.status = "pending"
  /\ worker = "working" => docRow.status = "processing"
  /\ worker = "complete" => docRow.status = "ready"
  /\ worker = "failed" => docRow.status = "failed"
  /\ worker = "done" => docRow.status \in Terminal

\* An outcome that is the newest event, or of the first run, is that of the row.
EventTells(e) ==
  /\ e.n <= published
  /\ e.status \in TerminalEvents /\ (e.n = published \/ docRow.run = 1) =>
       /\ worker = "done" \/ (worker = "queued" /\ docRow.run > 1)
       /\ worker = "done" => e.status = Fallback(docRow.status)

EventsTell == \A e \in EventsAlive : EventTells(e)

\* A request that is being answered has read this run or an older one.
PollBehind ==
  poll # NoRow =>
    /\ poll.run <= docRow.run
    /\ poll.run = docRow.run /\ poll.status \in Terminal => docRow.status = poll.status

ProgressInv == ProgressTypeOK /\ RowFollowsJob /\ EventsTell /\ PollBehind

LEMMA PublishedEvents ==
  ASSUME ProgressTypeOK, NEW p \in Publishers, NEW s \in Statuses, Publish(p, s), UNCHANGED redis
  PROVE  /\ published' = published + 1 /\ published \in Nat
         /\ tasks' \subseteq [event : Event, by : Publishers, pc : {"set", "publish"}]
         /\ local' \in Event
         /\ EventsAlive' \subseteq EventsAlive \cup {[n |-> published + 1, status |-> s]}
<1>. DEFINE event == [n |-> published + 1, status |-> s]
<1>1. /\ published' = published + 1 /\ local' \in {local, event}
      /\ tasks' = tasks \cup {[event |-> event, by |-> p, pc |-> "set"]}
  BY DEF Publish
<1>2. published \in Nat /\ {redis, local} \subseteq Event
      /\ tasks \subseteq [event : Event, by : Publishers, pc : {"set", "publish"}]
  BY DEF ProgressTypeOK
<1>3. event \in Event
  BY <1>2 DEF Event
<1>. HIDE DEF event
<1>4. EventsAlive' \subseteq EventsAlive \cup {event}
  BY <1>1 DEF EventsAlive
<1>. QED
  BY <1>1, <1>2, <1>3, <1>4 DEF event

\* A step publishes one event, or brings none, but for the absence of one.
LEMMA ProgressEvents ==
  ASSUME ProgressTypeOK, [ProgressNext]_progressVars
  PROVE  \/ /\ UNCHANGED published /\ EventsAlive' \subseteq EventsAlive \cup {NoEvent}
            /\ \/ UNCHANGED <<worker, docRow>>
               \/ \E outcome \in TerminalEvents : Settle(outcome)
               \/ WorkerDies \/ Resync
         \/ \E s \in Statuses :
              /\ published' = published + 1
              /\ EventsAlive' \subseteq EventsAlive \cup {[n |-> published + 1, status |-> s]}
              /\ \/ s = "pending" /\ UNCHANGED <<worker, docRow>>
                 \/ s = "processing" /\ (BeginRun \/ Retry)
                 \/ s = worker /\ Conclude
<1>. USE DEF EventsAlive
<1>1. {"pending", "processing"} \cup TerminalEvents = Statuses /\ {"api", "worker"} = Publishers
  BY DEF Statuses, Publishers
<1>2. CASE Announce
  BY <1>1, <1>2, PublishedEvents DEF Announce
<1>3. CASE BeginRun \/ Retry
  <2>1. Publish("worker", "processing") /\ UNCHANGED redis
    BY <1>3 DEF BeginRun, Retry
  <2>. QED
    BY <1>1, <1>3, <2>1, PublishedEvents
<1>4. CASE Conclude
  <2>1. Publish("worker", worker) /\ UNCHANGED redis /\ worker \in Statuses
    BY <1>1, <1>4 DEF Conclude
  <2>. QED
    BY <1>1, <1>4, <2>1, PublishedEvents
<1>5. CASE \/ \E outcome \in TerminalEvents : Settle(outcome)
           \/ WorkerDies \/ Resync
  BY <1>5 DEF Settle, WorkerDies, Resync
<1>6. CASE ReadRow \/ UNCHANGED progressVars
  BY <1>6 DEF ReadRow, progressVars
<1>7. CASE Reply
  BY <1>7 DEF Reply, Latest
<1>8. CASE LatestExpires
  BY <1>8 DEF LatestExpires
<1>9. ASSUME NEW t \in tasks, SetLatest(t) \/ Broadcast(t) \/ TaskFails(t)
      PROVE  UNCHANGED <<published, worker, docRow>> /\ EventsAlive' \subseteq EventsAlive
  <2>1. CASE SetLatest(t)
    <3>1. [t EXCEPT !.pc = "publish"].event = t.event
      BY DEF ProgressTypeOK
    <3>. QED
      BY <2>1, <3>1 DEF SetLatest
  <2>2. CASE Broadcast(t) \/ TaskFails(t)
    BY <2>2 DEF Broadcast, TaskFails
  <2>. QED
    BY <1>9, <2>1, <2>2
<1>. QED
  BY <1>2, <1>3, <1>4, <1>5, <1>6, <1>7, <1>8, <1>9 DEF ProgressNext

LEMMA ProgressTypeStep ==
  ASSUME ProgressTypeOK, [ProgressNext]_progressVars
  PROVE  ProgressTypeOK'
<1>. DEFINE Tasks == [event : Event, by : Publishers, pc : {"set", "publish"}]
<1>. USE ProgressAssumption
<1>1. /\ docRow \in Rows /\ api \in BOOLEAN /\ published \in Nat /\ tasks \subseteq Tasks
      /\ worker \in {"queued", "working", "complete", "failed", "done"}
      /\ redis \in Event /\ local \in Event /\ poll \in {NoRow} \cup Rows
      /\ busFaults \in 0..MaxBusFaults
  BY DEF ProgressTypeOK
<1>2. NoEvent \in Event /\ {"pending", "processing", "complete", "failed"} = Statuses
      /\ "api" \in Publishers /\ "worker" \in Publishers
  BY DEF NoEvent, Event, Statuses, TerminalEvents, Publishers
<1>3. ASSUME NEW s \in {"pending", "processing", "ready", "failed"}
      PROVE  [docRow EXCEPT !.status = s] \in Rows
  BY <1>1, <1>3 DEF Rows, Terminal
<1>4. \A t \in Tasks : t.event \in Event /\ [t EXCEPT !.pc = "publish"] \in Tasks
  OBVIOUS
<1>5. BusFault => busFaults' \in 0..MaxBusFaults
  BY <1>1 DEF BusFault
<1>6. ASSUME NEW p \in Publishers, NEW s \in Statuses, Publish(p, s), UNCHANGED redis
      PROVE  published' \in Nat /\ tasks' \subseteq Tasks /\ local' \in Event
  BY <1>6, PublishedEvents
<1>. HIDE DEF Tasks
<1>7. SUFFICES /\ docRow' \in Rows /\ api' \in BOOLEAN /\ published' \in Nat /\ tasks' \subseteq Tasks
               /\ worker' \in {"queued", "working", "complete", "failed", "done"}
               /\ redis' \in Event /\ local' \in Event /\ poll' \in {NoRow} \cup Rows
               /\ busFaults' \in 0..MaxBusFaults
  BY DEF ProgressTypeOK, Tasks
<1>8. CASE Announce
  BY <1>1, <1>2, <1>6, <1>8 DEF Announce
<1>9. CASE BeginRun
  BY <1>1, <1>2, <1>3, <1>6, <1>9 DEF BeginRun
<1>10. CASE Retry
  BY <1>1, <1>2, <1>3, <1>5, <1>6, <1>10 DEF Retry
<1>11. CASE Conclude
  <2>1. worker \in Statuses
    BY <1>2, <1>11 DEF Conclude, TerminalEvents
  <2>. QED
    BY <1>1, <1>2, <1>6, <1>11, <2>1 DEF Conclude
<1>12. ASSUME NEW outcome \in TerminalEvents, Settle(outcome) PROVE <1>7!1
  BY <1>1, <1>3, <1>12 DEF Settle, TerminalEvents
<1>13. CASE WorkerDies
  <2>1. docRow' \in Rows /\ worker' \in {"done", "queued"}
    BY <1>1, <1>3, <1>13 DEF WorkerDies
  <2>. QED
    BY <1>1, <1>5, <1>13, <2>1 DEF WorkerDies
<1>14. CASE Resync
  <2>1. [status |-> "pending", run |-> docRow.run + 1] \in Rows
    BY <1>1, <1>14 DEF Resync, Rows
  <2>. QED
    BY <1>1, <1>14, <2>1 DEF Resync
<1>15. CASE ReadRow
  BY <1>1, <1>15 DEF ReadRow
<1>16. CASE Reply
  BY <1>1, <1>16 DEF Reply, Latest
<1>17. CASE LatestExpires
  BY <1>1, <1>2, <1>5, <1>17 DEF LatestExpires
<1>18. ASSUME NEW t \in tasks, SetLatest(t) PROVE <1>7!1
  BY <1>1, <1>4, <1>18 DEF SetLatest
<1>19. ASSUME NEW t \in tasks, Broadcast(t) PROVE <1>7!1
  BY <1>1, <1>4, <1>19 DEF Broadcast
<1>20. ASSUME NEW t \in tasks, TaskFails(t) PROVE <1>7!1
  BY <1>1, <1>5, <1>20 DEF TaskFails
<1>21. CASE UNCHANGED progressVars
  BY <1>1, <1>21 DEF progressVars
<1>. QED
  BY <1>8, <1>9, <1>10, <1>11, <1>12, <1>13, <1>14, <1>15, <1>16, <1>17, <1>18, <1>19, <1>20, <1>21
     DEF ProgressNext

\* The row and the poll.
LEMMA RowStep ==
  ASSUME ProgressTypeOK, RowFollowsJob, PollBehind, [ProgressNext]_progressVars
  PROVE  RowFollowsJob' /\ PollBehind'
<1>. USE DEF RowFollowsJob, PollBehind
<1>1. /\ docRow \in Rows /\ poll \in {NoRow} \cup Rows
      /\ worker \in {"queued", "working", "complete", "failed", "done"}
      /\ docRow.run \in Nat /\ (poll # NoRow => poll.run \in Nat)
  BY DEF ProgressTypeOK, Rows
<1>2. Terminal = {"ready", "failed"} /\ TerminalEvents = {"complete", "failed"}
  BY DEF Terminal, TerminalEvents
<1>3. \A s : [docRow EXCEPT !.status = s].status = s /\ [docRow EXCEPT !.status = s].run = docRow.run
  BY <1>1 DEF Rows
<1>4. CASE UNCHANGED <<worker, docRow, poll>>
  BY <1>4
<1>5. CASE BeginRun
  BY <1>1, <1>2, <1>3, <1>5 DEF BeginRun
<1>6. ASSUME NEW outcome \in TerminalEvents, Settle(outcome) PROVE RowFollowsJob' /\ PollBehind'
  BY <1>1, <1>2, <1>3, <1>6 DEF Settle
<1>7. CASE Conclude
  BY <1>1, <1>2, <1>7 DEF Conclude
<1>8. CASE Retry
  BY <1>1, <1>2, <1>3, <1>8 DEF Retry
<1>9. CASE WorkerDies
  <2>1. UNCHANGED poll /\ worker \in {"working", "complete", "failed"}
    BY <1>9 DEF WorkerDies
  <2>2. CASE docRow.status \in Terminal
    <3>1. worker' = "done" /\ UNCHANGED docRow
      BY <1>9, <2>2 DEF WorkerDies
    <3>. QED
      BY <2>1, <2>2, <3>1
  <2>3. CASE docRow.status \notin Terminal
    <3>1. worker' = "queued" /\ docRow' = [docRow EXCEPT !.status = "pending"]
      BY <1>9, <2>3 DEF WorkerDies
    <3>2. docRow'.status = "pending" /\ docRow'.run = docRow.run
      BY <1>3, <3>1
    <3>. QED
      BY <1>1, <1>2, <2>1, <2>3, <3>1, <3>2
  <2>. QED
    BY <2>2, <2>3
<1>10. CASE Resync
  <2>1. docRow'.run = docRow.run + 1 /\ docRow'.status = "pending" /\ worker' = "queued" /\ UNCHANGED poll
    BY <1>10 DEF Resync
  <2>. QED
    BY <1>1, <2>1
<1>11. CASE ReadRow
  BY <1>1, <1>11 DEF ReadRow
<1>12. CASE Reply
  BY <1>12 DEF Reply
<1>13. CASE \/ Announce \/ LatestExpires \/ UNCHANGED progressVars
            \/ \E t \in tasks : SetLatest(t) \/ Broadcast(t) \/ TaskFails(t)
  BY <1>4, <1>13 DEF Announce, LatestExpires, progressVars, SetLatest, Broadcast, TaskFails
<1>. QED
  BY <1>5, <1>6, <1>7, <1>8, <1>9, <1>10, <1>11, <1>12, <1>13 DEF ProgressNext

LEMMA EventsStep ==
  ASSUME ProgressTypeOK, RowFollowsJob, EventsTell, [ProgressNext]_progressVars
  PROVE  EventsTell'
<1>1. /\ docRow \in Rows /\ docRow.run \in Nat /\ docRow.run >= 1 /\ published \in Nat
      /\ worker \in {"queued", "working", "complete", "failed", "done"}
  BY DEF ProgressTypeOK, Rows
<1>2. TerminalEvents = {"complete", "failed"} /\ Terminal = {"ready", "failed"}
  BY DEF Terminal, TerminalEvents
<1>3. \A e \in EventsAlive : EventTells(e) /\ e.n \in Nat
  BY DEF EventsTell, ProgressTypeOK, EventsAlive, Event
<1>4. \A s : [docRow EXCEPT !.status = s].status = s /\ [docRow EXCEPT !.status = s].run = docRow.run
  BY <1>1 DEF Rows
<1>. USE DEF EventTells
<1>5. ASSUME UNCHANGED published, EventsAlive' \subseteq EventsAlive \cup {NoEvent},
             \A e \in EventsAlive : EventTells(e)'
      PROVE  EventsTell'
  <2>1. EventTells(NoEvent)'
    BY <1>1, <1>2, <1>5 DEF NoEvent
  <2>. QED
    BY <1>5, <2>1 DEF EventsTell
<1>6. ASSUME NEW s \in Statuses, published' = published + 1,
             EventsAlive' \subseteq EventsAlive \cup {[n |-> published + 1, status |-> s]},
             \A e \in EventsAlive : EventTells(e)',
             s \in TerminalEvents => worker' = "done" /\ s = Fallback(docRow'.status)
      PROVE  EventsTell'
  <2>1. ASSUME NEW e, e = [n |-> published + 1, status |-> s] PROVE EventTells(e)'
    <3>1. e.n <= published' /\ e.status = s
      BY <1>1, <1>6, <2>1
    <3>. QED
      BY <1>6, <3>1 DEF Fallback
  <2>. QED
    BY <1>6, <2>1 DEF EventsTell
<1>7. ASSUME UNCHANGED <<published, worker, docRow>> PROVE \A e \in EventsAlive : EventTells(e)'
  BY <1>3, <1>7
<1>8. ASSUME published' = published + 1, UNCHANGED <<worker, docRow>>
      PROVE  \A e \in EventsAlive : EventTells(e)'
  BY <1>1, <1>3, <1>8
<1>9. ASSUME BeginRun \/ Retry, published' = published + 1 PROVE \A e \in EventsAlive : EventTells(e)'
  <2>1. docRow'.run = docRow.run /\ worker \in {"queued", "working"}
    BY <1>4, <1>9 DEF BeginRun, Retry
  <2>. QED
    BY <1>1, <1>3, <1>9, <2>1
<1>10. ASSUME Conclude, published' = published + 1
       PROVE  /\ \A e \in EventsAlive : EventTells(e)'
              /\ worker' = "done" /\ worker = Fallback(docRow'.status)
  <2>1. worker' = "done" /\ UNCHANGED docRow /\ worker \in TerminalEvents
    BY <1>10 DEF Conclude
  <2>2. worker = Fallback(docRow.status)
    BY <1>2, <2>1 DEF RowFollowsJob, Fallback
  <2>. QED
    BY <1>1, <1>2, <1>3, <1>10, <2>1, <2>2
<1>11. ASSUME NEW outcome \in TerminalEvents, Settle(outcome), UNCHANGED published
       PROVE  \A e \in EventsAlive : EventTells(e)'
  <2>1. docRow'.run = docRow.run /\ worker = "working" /\ worker' # "done"
    BY <1>2, <1>4, <1>11 DEF Settle
  <2>. QED
    BY <1>1, <1>3, <1>11, <2>1
<1>12. ASSUME WorkerDies, UNCHANGED published PROVE \A e \in EventsAlive : EventTells(e)'
  <2>1. docRow'.run = docRow.run /\ worker \in {"working", "complete", "failed"}
    BY <1>4, <1>12 DEF WorkerDies
  <2>. QED
    BY <1>1, <1>3, <1>12, <2>1
<1>13. ASSUME Resync, UNCHANGED published PROVE \A e \in EventsAlive : EventTells(e)'
  <2>1. docRow'.run = docRow.run + 1 /\ worker = "done" /\ worker' = "queued"
    BY <1>13 DEF Resync
  <2>. QED
    BY <1>1, <1>3, <1>13, <2>1
<1>14. PICK s \in Statuses \cup {"none"} :
         \/ /\ s = "none"
            /\ UNCHANGED published /\ EventsAlive' \subseteq EventsAlive \cup {NoEvent}
            /\ \/ UNCHANGED <<worker, docRow>>
               \/ \E outcome \in TerminalEvents : Settle(outcome)
               \/ WorkerDies \/ Resync
         \/ /\ s \in Statuses
            /\ published' = published + 1
            /\ EventsAlive' \subseteq EventsAlive \cup {[n |-> published + 1, status |-> s]}
            /\ \/ s = "pending" /\ UNCHANGED <<worker, docRow>>
               \/ s = "processing" /\ (BeginRun \/ Retry)
               \/ s = worker /\ Conclude
  BY ProgressEvents
<1>15. CASE s = "none"
  <2>1. "none" \notin Statuses
    BY DEF Statuses, TerminalEvents
  <2>2. \A e \in EventsAlive : EventTells(e)'
    BY <1>7, <1>11, <1>12, <1>13, <1>14, <1>15, <2>1
  <2>. QED
    BY <1>5, <1>14, <1>15, <2>1, <2>2
<1>16. CASE s \in Statuses
  <2>1. s # "none"
    BY <1>16 DEF Statuses, TerminalEvents
  <2>2. /\ \A e \in EventsAlive : EventTells(e)'
        /\ s \in TerminalEvents => worker' = "done" /\ s = Fallback(docRow'.status)
    <3>1. CASE s = "pending" /\ UNCHANGED <<worker, docRow>>
      BY <1>2, <1>8, <1>14, <2>1, <3>1
    <3>2. CASE s = "processing" /\ (BeginRun \/ Retry)
      BY <1>2, <1>9, <1>14, <2>1, <3>2
    <3>3. CASE s = worker /\ Conclude
      BY <1>10, <1>14, <2>1, <3>3
    <3>. QED
      BY <1>14, <2>1, <3>1, <3>2, <3>3
  <2>. QED
    BY <1>6, <1>14, <1>16, <2>1, <2>2
<1>. QED
  BY <1>15, <1>16

LEMMA ProgressShows ==
  ASSUME ProgressInv
  PROVE  SettledShown
<1>. SUFFICES ASSUME poll.status \in Terminal, NEW many \in BOOLEAN, NEW event \in Latest
              PROVE  /\ Answer(many, event) \in TerminalEvents
                     /\ Answer(many, event) # Fallback(poll.status) =>
                          /\ ~many
                          /\ docRow.run > poll.run \/ (poll.run > 1 /\ event.n < published)
  BY DEF SettledShown
<1>1. /\ poll # NoRow /\ poll.run \in Nat /\ docRow.run \in Nat /\ poll.run >= 1
      /\ published \in Nat /\ worker \in {"queued", "working", "complete", "failed", "done"}
  BY DEF ProgressInv, ProgressTypeOK, NoRow, Rows, Terminal
<1>2. Fallback(poll.status) \in TerminalEvents
  BY DEF Fallback, Terminal, TerminalEvents
<1>3. event \in EventsAlive
  BY DEF Latest, EventsAlive
<1>4. EventTells(event) /\ event.n \in Nat
  BY <1>3 DEF ProgressInv, EventsTell, EventsAlive, ProgressTypeOK, Event
<1>5. CASE Answer(many, event) = Fallback(poll.status)
  BY <1>2, <1>5
<1>6. CASE Answer(many, event) # Fallback(poll.status)
  <2>1. Answer(many, event) = event.status /\ ~many /\ event.status \in TerminalEvents
    BY <1>6 DEF Answer
  <2>2. poll.run <= docRow.run /\ (poll.run = docRow.run => docRow.status = poll.status)
    BY <1>1 DEF ProgressInv, PollBehind
  <2>3. ASSUME poll.run = docRow.run PROVE docRow.run > 1 /\ event.n < published
    <3>1. event.status # Fallback(docRow.status) /\ docRow.status \in Terminal
      BY <1>6, <2>1, <2>2, <2>3
    <3>2. worker # "queued"
      BY <3>1 DEF ProgressInv, RowFollowsJob, Terminal
    <3>3. event.n <= published /\ ~(event.n = published \/ docRow.run = 1)
      BY <1>4, <2>1, <3>1, <3>2 DEF EventTells
    <3>. QED
      BY <1>1, <1>4, <2>3, <3>3
  <2>. QED
    BY <1>1, <2>1, <2>2, <2>3
<1>. QED
  BY <1>5, <1>6

\* A settled document is shown as settled, with its outcome.
THEOREM SettledIsShown == ProgressSpec => []SettledShown
<1>1. ProgressInit => ProgressInv
  <2>. SUFFICES ASSUME ProgressInit PROVE ProgressInv
    OBVIOUS
  <2>1. NoEvent \in Event
    BY DEF NoEvent, Event
  <2>2. docRow \in Rows
    BY ProgressAssumption DEF ProgressInit, Rows
  <2>3. ProgressTypeOK
    BY <2>1, <2>2, ProgressAssumption DEF ProgressInit, ProgressTypeOK
  <2>4. EventsTell
    BY DEF ProgressInit, EventsTell, EventTells, EventsAlive, NoEvent, TerminalEvents
  <2>. QED
    BY <2>3, <2>4 DEF ProgressInit, ProgressInv, RowFollowsJob, PollBehind
<1>2. ProgressInv /\ [ProgressNext]_progressVars => ProgressInv'
  BY ProgressTypeStep, RowStep, EventsStep DEF ProgressInv
<1>3. ProgressInv => SettledShown
  BY ProgressShows
<1>. QED
  BY <1>1, <1>2, <1>3, PTL DEF ProgressSpec

------------------------------------------------------------------------------
(* Library, for finitely many contents and any requests, bounds and faults.   *)

Uploads == {"upload", "batch"}
Removals == {"delete", "batch_delete"}

\* What is so of a request that uploads, of one that deletes documents, of one that
\* empties the collection as long as it is alone, and of one that creates it.
UploadStands(q) ==
  /\ q.pc \in {"put", "rows", "wait", "commit"}
  /\ q.coll # 0
  /\ q.docs \cap docs = {}
  /\ q.put \subseteq q.docs
  /\ q.pc # "put" => q.put = q.docs
  /\ q.pc \in {"wait", "commit"} => q.coll = coll
  /\ q.pc = "commit" /\ ~q.waited => q.seen = Cardinality(docs \cup q.docs)
  /\ libraryPast.wide \/ q.put \subseteq files

RemovalStands(q) ==
  /\ q.pc \in {"wipe", "vectors", "rows", "wait", "commit"}
  /\ q.coll # 0
  /\ q.put = {}
  /\ q.docs \subseteq canceled
  /\ q.coll # coll => q.docs \cap docs = {}
  /\ q.pc # "wipe" => q.docs \cap files \subseteq libraryPast.stray
  /\ q.kind = "delete" /\ q.pc = "commit" /\ ~q.waited => q.seen = Cardinality(docs \ q.docs)

WideStands(q) ==
  /\ q.put = {}
  /\ q.pc \in IF q.kind = "create" THEN {"create", "undo"}
                                   ELSE {"wipe", "vectors", "rows", "wait", "commit"}
  /\ ~libraryPast.wide =>
       IF q.kind = "create"
         THEN q.pc = "create" /\ coll = 0
         ELSE docs \subseteq canceled /\ (q.pc # "wipe" => files \subseteq libraryPast.stray)

EditStands(q) ==
  /\ q.pc = "idle" => q = IdleEdit
  /\ q.pc = "wait" => q.waited
  /\ q.pc # "idle" /\ q.kind \in Uploads => UploadStands(q)
  /\ q.pc # "idle" /\ q.kind \in Removals => RemovalStands(q)
  /\ q.pc # "idle" /\ q.kind \in Wide => WideStands(q)

EditsStand == \A r \in Editors : EditStands(edits[r])

Numbered ==
  /\ \A d \in docs : d[1] <= libraryPast.requests
  /\ \A r \in Editors : \A d \in edits[r].docs : d[1] <= libraryPast.requests

Locked == \A r \in Editors : edits[r].pc = "commit" => lock = r

\* What is being uploaded is no other request's, and without overlaps of a wide
\* request, one that is open is the only one.
Apart ==
  \A r, q \in Editors :
    r # q /\ edits[r].pc # "idle" /\ edits[r].kind \in Uploads => edits[r].docs \cap edits[q].docs = {}
Alone ==
  ~libraryPast.wide =>
    \A r, q \in OpenEdits : edits[r].kind \in Wide => q = r

\* A file without a row is stray or being uploaded.
FilesKnown ==
  ~libraryPast.wide =>
    \A f \in files : f \in docs \cup libraryPast.stray \/ \E r \in Editors : f \in edits[r].put

LibraryInv ==
  /\ LibraryTypeOK /\ (coll = 0 => docs = {})
  /\ EditsStand /\ Numbered /\ Locked /\ Apart /\ Alone
  /\ KeepsContent /\ FilesKnown

LEMMA DocsAreFinite ==
  ASSUME NEW S, S \subseteq Docs
  PROVE  IsFiniteSet(S) /\ Cardinality(S) \in Nat
<1>1. IsFiniteSet(0..MaxEdits)
  BY LibraryAssumption, FS_Interval DEF LibraryAssumption
<1>2. IsFiniteSet(Docs)
  BY <1>1, LibraryAssumption, FS_Product DEF LibraryAssumption, Docs
<1>. QED
  BY <1>2, FS_Subset, FS_CardinalityType

LEMMA NumbersOfDocs ==
  ASSUME NEW d \in Docs
  PROVE  d[1] \in Nat
BY LibraryAssumption DEF LibraryAssumption, Docs

LEMMA IdleIsTyped == IdleEdit \in EditRecords /\ IdleEdit.pc = "idle" /\ IdleEdit.docs = {} /\ IdleEdit.put = {}
                     /\ IdleEdit.kind = "upload"
BY DEF IdleEdit, EditRecords, EditKinds

\* What is so of a request stays so while the rows of the database do, as long as
\* no file is taken from an upload and none comes to what has been wiped.
LEMMA StandsStill ==
  ASSUME LibraryInv, NEW q \in EditRecords, EditStands(q), UNCHANGED <<coll, docs>>,
         canceled \subseteq canceled', libraryPast' \in LibraryPasts,
         libraryPast.wide => libraryPast'.wide, libraryPast.stray \subseteq libraryPast'.stray,
         q.kind \in Uploads /\ ~libraryPast'.wide => q.put \cap files \subseteq files',
         q.kind \in Removals => q.docs \cap files' \subseteq files \cup libraryPast'.stray,
         q.kind \in Wide /\ q.pc # "idle" /\ ~libraryPast'.wide => files' \subseteq files \cup libraryPast'.stray
  PROVE  EditStands(q)'
<1>1. ASSUME q.pc # "idle", q.kind \in Uploads PROVE UploadStands(q)'
  BY <1>1 DEF EditStands, UploadStands
<1>2. ASSUME q.pc # "idle", q.kind \in Removals PROVE RemovalStands(q)'
  BY <1>2 DEF EditStands, RemovalStands
<1>3. ASSUME q.pc # "idle", q.kind \in Wide PROVE WideStands(q)'
  BY <1>3 DEF EditStands, WideStands
<1>. QED
  BY <1>1, <1>2, <1>3 DEF EditStands

\* A step of one request that leaves the rows of the database alone.
LEMMA OneEdit ==
  ASSUME LibraryInv, NEW r \in Editors, NEW q \in EditRecords, edits' = [edits EXCEPT ![r] = q],
         UNCHANGED <<coll, docs>>, LibraryTypeOK', EditStands(q)',
         q.docs \subseteq edits[r].docs \/ (edits[r].kind \notin Uploads /\ q.docs \subseteq docs),
         q = IdleEdit \/ (edits[r].pc # "idle" /\ q.kind = edits[r].kind),
         libraryPast'.requests = libraryPast.requests, libraryPast'.wide = libraryPast.wide,
         libraryPast.stray \subseteq libraryPast'.stray, UNCHANGED canceled,
         q.pc = "commit" => lock' = r,
         lock' = lock \/ lock \in {r, NoEditor},
         \A o \in Editors \ {r} :
           /\ edits[o].kind \in Uploads /\ edits[o].pc # "idle" /\ ~libraryPast.wide =>
                edits[o].put \cap files \subseteq files'
           /\ edits[o].kind \in Removals => edits[o].docs \cap files' \subseteq files \cup libraryPast'.stray
           /\ edits[o].kind \in Wide /\ edits[o].pc # "idle" /\ ~libraryPast.wide =>
                files' \subseteq files \cup libraryPast'.stray,
         KeepsContent',
         \A f \in files' : f \in docs \cup libraryPast'.stray \cup q.put \/ f \in files \ edits[r].put
  PROVE  LibraryInv'
<1>1. edits \in [Editors -> EditRecords] /\ NoEditor \notin Editors /\ libraryPast' \in LibraryPasts
  BY LibraryAssumption DEF LibraryAssumption, LibraryInv, LibraryTypeOK
<1>2. edits'[r] = q /\ \A o \in Editors \ {r} : edits'[o] = edits[o]
  BY <1>1
<1>3. IdleEdit.pc = "idle" /\ IdleEdit.docs = {}
  BY IdleIsTyped
<1>4. \A o \in Editors : EditStands(edits[o]) /\ edits[o] \in EditRecords
  BY <1>1 DEF LibraryInv, EditsStand
<1>5. ASSUME NEW o \in Editors \ {r}, NEW p, p = edits[o] PROVE EditStands(p)'
  <2>1. p \in EditRecords /\ EditStands(p)
    BY <1>4, <1>5
  <2>2. p.pc = "idle" => p.put = {}
    BY <2>1, IdleIsTyped DEF EditStands
  <2>. QED
    BY <1>1, <1>5, <2>1, <2>2, StandsStill
<1>6. EditsStand'
  <2>1. ASSUME NEW o \in Editors, NEW p, p = edits'[o] PROVE EditStands(p)'
    BY <1>2, <1>5, <2>1
  <2>. QED
    BY <2>1 DEF EditsStand, EditStands, UploadStands, RemovalStands, WideStands
<1>7. Numbered'
  <2>1. ASSUME NEW o \in Editors, NEW d \in edits'[o].docs PROVE d[1] <= libraryPast.requests
    BY <1>2, <2>1 DEF LibraryInv, Numbered
  <2>. QED
    BY <2>1 DEF LibraryInv, Numbered
<1>8. Locked'
  <2>1. ASSUME NEW o \in Editors, edits'[o].pc = "commit" PROVE lock' = o
    BY <1>1, <1>2, <2>1 DEF LibraryInv, Locked
  <2>. QED
    BY <2>1 DEF Locked
<1>9. Apart'
  <2>1. ASSUME NEW o \in Editors, NEW p \in Editors, o # p, edits'[o].pc # "idle",
               edits'[o].kind \in Uploads
        PROVE  edits'[o].docs \cap edits'[p].docs = {}
    <3>1. edits[o].pc # "idle" /\ edits[o].kind \in Uploads
      BY <1>2, <1>3, <2>1
    <3>2. edits[o].docs \cap edits[p].docs = {} /\ edits[o].docs \cap docs = {}
      BY <1>4, <2>1, <3>1 DEF LibraryInv, Apart, EditStands, UploadStands
    <3>. QED
      BY <1>2, <2>1, <3>1, <3>2
  <2>. QED
    BY <2>1 DEF Apart
<1>10. Alone'
  <2>1. \A o \in OpenEdits' : o \in OpenEdits /\ edits'[o].kind = edits[o].kind
    BY <1>2, <1>3 DEF OpenEdits
  <2>. QED
    BY <2>1 DEF LibraryInv, Alone
<1>11. FilesKnown'
  <2>1. ASSUME ~libraryPast.wide, NEW f \in files', f \notin docs \cup libraryPast'.stray
        PROVE  \E o \in Editors : f \in edits'[o].put
    <3>1. CASE f \in q.put
      BY <1>2, <3>1
    <3>2. CASE f \in files \ edits[r].put
      <4>1. PICK o \in Editors : f \in edits[o].put
        BY <2>1, <3>2 DEF LibraryInv, FilesKnown
      <4>. QED
        BY <1>2, <3>2, <4>1
    <3>. QED
      BY <2>1, <3>1, <3>2
  <2>. QED
    BY <2>1 DEF FilesKnown
<1>. QED
  BY <1>6, <1>7, <1>8, <1>9, <1>10, <1>11 DEF LibraryInv

\* What the invariant says of one request and of the others.
LEMMA OfOneEdit ==
  ASSUME LibraryInv, NEW r \in Editors
  PROVE  /\ edits \in [Editors -> EditRecords] /\ edits[r] \in EditRecords /\ EditStands(edits[r])
         /\ edits[r].kind \in Uploads \/ edits[r].kind \in Removals \/ edits[r].kind \in Wide
         /\ \A o \in Editors \ {r} :
              /\ edits[o] \in EditRecords /\ EditStands(edits[o])
              /\ edits[r].pc # "idle" /\ edits[r].kind \in Uploads => edits[r].docs \cap edits[o].docs = {}
              /\ edits[o].pc # "idle" /\ edits[o].kind \in Uploads =>
                   edits[o].docs \cap edits[r].docs = {} /\ edits[o].put \subseteq edits[o].docs
              /\ edits[o].pc # "idle" /\ edits[r].pc # "idle" /\ ~libraryPast.wide =>
                   edits[o].kind \notin Wide /\ edits[r].kind \notin Wide
<1>1. /\ edits \in [Editors -> EditRecords]
      /\ \A o \in Editors : edits[o] \in EditRecords /\ EditStands(edits[o])
  BY DEF LibraryInv, LibraryTypeOK, EditsStand
<1>2. edits[r].kind \in Uploads \/ edits[r].kind \in Removals \/ edits[r].kind \in Wide
  BY <1>1 DEF EditRecords, EditKinds, Uploads, Removals
<1>3. \A o, p \in Editors :
        o # p /\ edits[o].pc # "idle" /\ edits[o].kind \in Uploads =>
          edits[o].docs \cap edits[p].docs = {} /\ edits[o].put \subseteq edits[o].docs
  BY <1>1 DEF LibraryInv, Apart, EditStands, UploadStands
<1>4. \A o, p \in Editors :
        o # p /\ edits[o].pc # "idle" /\ edits[p].pc # "idle" /\ ~libraryPast.wide =>
          edits[o].kind \notin Wide
  BY DEF LibraryInv, Alone, OpenEdits
<1>. QED
  BY <1>1, <1>2, <1>3, <1>4

\* The place of a request tells what kind it is.
LEMMA KindOfPlace ==
  ASSUME NEW q \in EditRecords, EditStands(q)
  PROVE  /\ q.pc = "put" => q.kind \in Uploads
         /\ q.pc \in {"wipe", "vectors"} => q.kind \in Removals \cup (Wide \ {"create"})
         /\ q.pc \in {"create", "undo"} => q.kind = "create"
<1>1. q.kind \in Uploads \/ q.kind \in Removals \/ q.kind \in Wide
  BY DEF EditRecords, EditKinds, Uploads, Removals
<1>2. q.pc # "idle" /\ q.kind \in Uploads => q.pc \in {"put", "rows", "wait", "commit"}
  BY DEF EditStands, UploadStands
<1>3. q.pc # "idle" /\ q.kind \in Removals => q.pc \in {"wipe", "vectors", "rows", "wait", "commit"}
  BY DEF EditStands, RemovalStands
<1>4. q.pc # "idle" /\ q.kind \in Wide =>
        q.pc \in IF q.kind = "create" THEN {"create", "undo"}
                                      ELSE {"wipe", "vectors", "rows", "wait", "commit"}
  BY DEF EditStands, WideStands
<1>. QED
  BY <1>1, <1>2, <1>3, <1>4

LEMMA IdleStands == EditStands(IdleEdit) /\ EditStands(IdleEdit)'
<1>1. EditStands(IdleEdit)
  BY DEF EditStands, IdleEdit
<1>2. EditStands(IdleEdit)'
  BY DEF EditStands, IdleEdit
<1>. QED
  BY <1>1, <1>2

\* A request that ends without a change of the rows, and leaves nothing behind that
\* was not known.
LEMMA EditEnds ==
  ASSUME LibraryInv, NEW r \in Editors, EndsEdit(r), UNCHANGED <<coll, docs, canceled>>,
         LibraryTypeOK', libraryPast'.requests = libraryPast.requests,
         libraryPast'.wide = libraryPast.wide, libraryPast.stray \subseteq libraryPast'.stray,
         lock' = lock \/ (lock' = NoEditor /\ lock = r), KeepsContent', files' \subseteq files,
         \A o \in Editors \ {r} :
           edits[o].kind \in Uploads /\ edits[o].pc # "idle" /\ ~libraryPast.wide =>
             edits[o].put \cap files \subseteq files',
         \A f \in files' : f \in docs \cup libraryPast'.stray \/ f \notin edits[r].put
  PROVE  LibraryInv'
<1>1. edits' = [edits EXCEPT ![r] = IdleEdit]
  BY DEF EndsEdit
<1>2. IdleEdit \in EditRecords /\ EditStands(IdleEdit)' /\ IdleEdit.docs = {} /\ IdleEdit.pc = "idle"
  BY IdleIsTyped, IdleStands
<1>3. \A f \in files' : f \in docs \cup libraryPast'.stray \cup IdleEdit.put \/ f \in files \ edits[r].put
  OBVIOUS
<1>. HIDE DEF IdleEdit
<1>. QED
  BY <1>1, <1>2, <1>3, OneEdit

LEMMA FailedUploads ==
  ASSUME LibraryInv, NEW r \in Editors, (\E d \in edits[r].docs : PutFileFails(r, d)) \/ RefuseRows(r)
  PROVE  LibraryInv'
<1>. DEFINE t == edits[r]
<1>1. t \in EditRecords /\ EditStands(t) /\ t.kind \in Uploads /\ t.pc # "idle" /\ t.pc \in {"put", "rows"}
  BY OfOneEdit, KindOfPlace DEF PutFileFails, RefuseRows, Uploads
<1>2. /\ UNCHANGED <<coll, docs, count, lock, vectors, canceled>> /\ EndsEdit(r)
      /\ files' = files \ t.docs
  BY DEF PutFileFails, RefuseRows
<1>3. UploadStands(t) /\ t.docs \subseteq Docs
  BY <1>1 DEF EditStands, EditRecords
<1>4. /\ libraryPast' \in LibraryPasts /\ libraryPast'.requests = libraryPast.requests
      /\ libraryPast'.wide = libraryPast.wide /\ libraryPast'.stray = libraryPast.stray
  BY DEF PutFileFails, RefuseRows, LibraryInv, LibraryTypeOK, LibraryPasts
<1>5. LibraryTypeOK'
  <2>1. late' \subseteq Docs
    BY <1>3 DEF PutFileFails, RefuseRows, LibraryInv, LibraryTypeOK
  <2>2. edits' \in [Editors -> EditRecords]
    BY <1>2, OfOneEdit, IdleIsTyped DEF EndsEdit
  <2>. QED
    BY <1>2, <1>4, <2>1, <2>2 DEF LibraryInv, LibraryTypeOK
<1>6. KeepsContent'
  BY <1>2, <1>3, <1>4 DEF LibraryInv, KeepsContent, UploadStands
<1>7. \A o \in Editors \ {r} :
        edits[o].kind \in Uploads /\ edits[o].pc # "idle" => edits[o].put \cap files \subseteq files'
  BY <1>1, <1>2, OfOneEdit
<1>8. \A f \in files' : f \in docs \cup libraryPast'.stray \/ f \notin edits[r].put
  BY <1>2, <1>3 DEF UploadStands
<1>9. libraryPast.stray \subseteq libraryPast'.stray /\ files' \subseteq files /\ lock' = lock
  BY <1>2, <1>4
<1>. HIDE DEF t
<1>. QED
  BY <1>2, <1>4, <1>5, <1>6, <1>7, <1>8, <1>9, EditEnds

LEMMA PutFiles ==
  ASSUME LibraryInv, NEW r \in Editors, NEW d \in edits[r].docs, PutFile(r, d)
  PROVE  LibraryInv'
<1>. DEFINE t == edits[r]
<1>0. PICK q : q = [t EXCEPT !.put = t.put \cup {d},
                             !.pc = IF t.put \cup {d} = t.docs THEN "rows" ELSE "put"]
  OBVIOUS
<1>1. t \in EditRecords /\ EditStands(t) /\ t.kind \in Uploads /\ t.pc = "put"
  BY OfOneEdit, KindOfPlace DEF PutFile
<1>2. /\ UNCHANGED <<coll, docs, count, lock, vectors, canceled, late, libraryPast>>
      /\ files' = files \cup {d} /\ edits' = [edits EXCEPT ![r] = q]
  BY <1>0 DEF PutFile
<1>3. UploadStands(t) /\ t.docs \subseteq Docs /\ d \in t.docs
  BY <1>1 DEF EditStands, EditRecords
<1>4. /\ q \in EditRecords /\ q.pc \in {"put", "rows"} /\ q.kind = t.kind /\ q.coll = t.coll
      /\ q.docs = t.docs /\ q.put = t.put \cup {d} /\ (q.pc # "put" => q.put = q.docs)
  BY <1>0, <1>1, <1>3 DEF EditRecords
<1>5. EditStands(q)'
  <2>1. UploadStands(q)'
    BY <1>2, <1>3, <1>4 DEF UploadStands
  <2>2. q.kind \notin Removals /\ q.kind \notin Wide
    BY <1>1, <1>4 DEF Uploads, Removals, Wide
  <2>. QED
    BY <1>4, <2>1, <2>2 DEF EditStands
<1>6. LibraryTypeOK'
  <2>1. edits' \in [Editors -> EditRecords]
    BY <1>2, <1>4, OfOneEdit
  <2>. QED
    BY <1>2, <1>3, <2>1 DEF LibraryInv, LibraryTypeOK
<1>7. KeepsContent'
  BY <1>2 DEF LibraryInv, KeepsContent
<1>8. \A o \in Editors \ {r} :
        /\ edits[o].docs \cap t.docs = {}
        /\ edits[o].kind \in Wide /\ edits[o].pc # "idle" => libraryPast.wide
  BY <1>1, OfOneEdit
<1>9. \A o \in Editors \ {r} :
        /\ edits[o].kind \in Uploads /\ edits[o].pc # "idle" /\ ~libraryPast.wide =>
             edits[o].put \cap files \subseteq files'
        /\ edits[o].kind \in Removals => edits[o].docs \cap files' \subseteq files \cup libraryPast'.stray
        /\ edits[o].kind \in Wide /\ edits[o].pc # "idle" /\ ~libraryPast.wide =>
             files' \subseteq files \cup libraryPast'.stray
  BY <1>2, <1>3, <1>8
<1>10. \A f \in files' : f \in docs \cup libraryPast'.stray \cup q.put \/ f \in files \ edits[r].put
  BY <1>2, <1>4
<1>11. edits[r].pc # "idle" /\ q.docs \subseteq edits[r].docs /\ q.pc # "commit"
  BY <1>1, <1>4
<1>. QED
  BY <1>2, <1>4, <1>5, <1>6, <1>7, <1>9, <1>10, <1>11, OneEdit

\* A request that only goes on: files and rows are what they were.
LEMMA EditGoesOn ==
  ASSUME LibraryInv, NEW r \in Editors, NEW q \in EditRecords, edits' = [edits EXCEPT ![r] = q],
         UNCHANGED <<coll, docs, count, files, vectors, canceled, late, libraryPast>>,
         lock' \in Editors \cup {NoEditor},
         q.pc = "commit" => lock' = r, lock' = lock \/ lock \in {r, NoEditor},
         q.kind = edits[r].kind, q.put = edits[r].put, EditStands(q), edits[r].pc # "idle",
         q.docs \subseteq edits[r].docs \/ (edits[r].kind \notin Uploads /\ q.docs \subseteq docs)
  PROVE  LibraryInv'
<1>1. EditStands(q)'
  BY DEF EditStands, UploadStands, RemovalStands, WideStands
<1>2. LibraryTypeOK'
  <2>1. edits' \in [Editors -> EditRecords]
    BY OfOneEdit
  <2>. QED
    BY <2>1 DEF LibraryInv, LibraryTypeOK
<1>3. KeepsContent'
  BY DEF LibraryInv, KeepsContent
<1>4. \A o \in Editors \ {r} :
        /\ edits[o].kind \in Uploads /\ edits[o].pc # "idle" /\ ~libraryPast.wide =>
             edits[o].put \cap files \subseteq files'
        /\ edits[o].kind \in Removals => edits[o].docs \cap files' \subseteq files \cup libraryPast'.stray
        /\ edits[o].kind \in Wide /\ edits[o].pc # "idle" /\ ~libraryPast.wide =>
             files' \subseteq files \cup libraryPast'.stray
  OBVIOUS
<1>5. \A f \in files' : f \in docs \cup libraryPast'.stray \cup q.put \/ f \in files \ edits[r].put
  OBVIOUS
<1>. QED
  BY <1>1, <1>2, <1>3, <1>4, <1>5, OneEdit

LEMMA Acquisitions ==
  ASSUME LibraryInv, NEW r \in Editors, AcquireRow(r)
  PROVE  LibraryInv'
<1>. DEFINE t == edits[r]
            q == [t EXCEPT !.pc = "commit"]
<1>1. t \in EditRecords /\ EditStands(t) /\ t.pc = "wait" /\ t.waited
  BY OfOneEdit DEF AcquireRow, EditStands
<1>2. /\ UNCHANGED <<coll, docs, count, files, vectors, canceled, late, libraryPast>>
      /\ edits' = [edits EXCEPT ![r] = q] /\ lock' = r /\ lock = NoEditor
  BY DEF AcquireRow, GoesTo
<1>3. /\ q \in EditRecords /\ q.pc = "commit" /\ q.kind = t.kind /\ q.coll = t.coll /\ q.docs = t.docs
      /\ q.put = t.put /\ q.waited
  BY <1>1 DEF EditRecords
<1>. HIDE DEF q
<1>4. EditStands(q)
  <2>1. q.kind \in Uploads => UploadStands(q)
    BY <1>1, <1>3 DEF EditStands, UploadStands
  <2>2. q.kind \in Removals => RemovalStands(q)
    BY <1>1, <1>3 DEF EditStands, RemovalStands
  <2>3. q.kind \in Wide => WideStands(q)
    BY <1>1, <1>3 DEF EditStands, WideStands
  <2>. QED
    BY <1>3, <2>1, <2>2, <2>3 DEF EditStands
<1>. QED
  BY <1>1, <1>2, <1>3, <1>4, EditGoesOn

\* The statement that changes the row of the collection.
LEMMA Updates ==
  ASSUME LibraryInv, NEW r \in Editors, InsertRows(r) \/ DeleteRows(r)
  PROVE  LibraryInv'
<1>. DEFINE t == edits[r]
            adds == t.kind \in Uploads
            gone == IF t.kind = "truncate" THEN docs ELSE t.docs
            seen == IF adds THEN Cardinality(docs \cup t.docs)
                    ELSE IF t.kind = "delete" THEN Cardinality(docs \ gone) ELSE 0
            q == [t EXCEPT !.docs = gone, !.seen = seen, !.waited = (lock # NoEditor),
                           !.pc = IF lock = NoEditor THEN "commit" ELSE "wait"]
<1>1. t \in EditRecords /\ EditStands(t) /\ t.pc = "rows" /\ t.docs \subseteq Docs /\ docs \subseteq Docs
  BY OfOneEdit DEF InsertRows, DeleteRows, EditRecords, LibraryInv, LibraryTypeOK
<1>2. /\ UNCHANGED <<coll, docs, count, files, vectors, canceled, late, libraryPast>>
      /\ edits' = [edits EXCEPT ![r] = q] /\ lock' = (IF lock = NoEditor THEN r ELSE lock)
  <2>1. CASE InsertRows(r)
    <3>1. adds /\ gone = t.docs
      BY <2>1 DEF InsertRows, Uploads
    <3>. QED
      BY <2>1, <3>1 DEF InsertRows, UpdateCount, LockRow
  <2>2. CASE DeleteRows(r)
    <3>1. ~adds
      BY <2>2 DEF DeleteRows, Uploads
    <3>. QED
      BY <2>2, <3>1 DEF DeleteRows, UpdateCount, LockRow
  <2>. QED
    BY <2>1, <2>2
<1>3. /\ adds => t.coll = coll
      /\ t.kind # "create"
  BY <1>1 DEF InsertRows, DeleteRows, Uploads
<1>4. gone \subseteq Docs /\ seen \in Nat
  BY <1>1, DocsAreFinite, Zenon
<1>5. /\ q \in EditRecords /\ q.pc = (IF lock = NoEditor THEN "commit" ELSE "wait") /\ q.kind = t.kind
      /\ q.coll = t.coll /\ q.docs = gone /\ q.put = t.put /\ q.waited = (lock # NoEditor) /\ q.seen = seen
  BY <1>1, <1>4 DEF EditRecords
<1>6. t.kind \in {"upload", "batch", "delete", "batch_delete"} => gone = t.docs
  OBVIOUS
<1>. HIDE DEF q, gone
<1>7. EditStands(q)
  <2>1. q.kind \in Uploads => UploadStands(q)
    BY <1>1, <1>3, <1>5, <1>6 DEF EditStands, UploadStands, Uploads
  <2>2. q.kind \in Removals => RemovalStands(q)
    BY <1>1, <1>5, <1>6 DEF EditStands, RemovalStands, Uploads, Removals
  <2>3. q.kind \in Wide => WideStands(q)
    BY <1>1, <1>3, <1>5 DEF EditStands, WideStands
  <2>. QED
    BY <1>5, <2>1, <2>2, <2>3 DEF EditStands
<1>8. gone \subseteq t.docs \/ (t.kind \notin Uploads /\ gone \subseteq docs)
  BY DEF gone, Uploads
<1>9. lock' \in Editors \cup {NoEditor}
  BY <1>2 DEF LibraryInv, LibraryTypeOK
<1>. HIDE DEF seen, adds
<1>. QED
  BY <1>1, <1>2, <1>5, <1>7, <1>8, <1>9, EditGoesOn

LEMMA WipedFiles ==
  ASSUME LibraryInv, NEW r \in Editors, WipeFiles(r)
  PROVE  LibraryInv'
<1>. DEFINE t == edits[r]
<1>1. /\ t \in EditRecords /\ EditStands(t) /\ t.pc = "wipe" /\ t.docs \subseteq Docs
      /\ t.kind \in Removals \cup (Wide \ {"create"})
  BY OfOneEdit, KindOfPlace DEF WipeFiles, EditRecords
<1>2. PICK failed \in SUBSET t.docs :
        /\ files' = IF t.kind \in Wide THEN {} ELSE files \ (t.docs \ failed)
        /\ edits' = IF failed # {} /\ failed = t.docs
                      THEN [edits EXCEPT ![r] = IdleEdit]
                      ELSE [edits EXCEPT ![r] = [t EXCEPT !.docs = t.docs \ failed, !.pc = "vectors"]]
        /\ libraryPast' = IF failed = {} THEN libraryPast ELSE [libraryPast EXCEPT !.faults = @ + 1]
  BY DEF WipeFiles, WipedFrom
<1>3. PICK q : q = IF failed # {} /\ failed = t.docs
                     THEN IdleEdit ELSE [t EXCEPT !.docs = t.docs \ failed, !.pc = "vectors"]
  OBVIOUS
<1>4. /\ edits' = [edits EXCEPT ![r] = q] /\ q \in EditRecords /\ q.docs \subseteq t.docs /\ q.put = {}
      /\ \/ q = IdleEdit
         \/ /\ q.pc = "vectors" /\ q.kind = t.kind /\ q.coll = t.coll /\ q.docs = t.docs \ failed
            /\ q.put = t.put
  <2>1. t.put = {}
    BY <1>1 DEF EditStands, RemovalStands, WideStands
  <2>2. CASE failed # {} /\ failed = t.docs
    BY <1>2, <1>3, <2>2, IdleIsTyped
  <2>3. CASE ~(failed # {} /\ failed = t.docs)
    <3>1. q = [t EXCEPT !.docs = t.docs \ failed, !.pc = "vectors"]
      BY <1>3, <2>3
    <3>. QED
      BY <1>1, <1>2, <2>1, <2>3, <3>1 DEF EditRecords
  <2>. QED
    BY <2>2, <2>3
<1>5. UNCHANGED <<coll, docs, count, lock, vectors, canceled, late>>
  BY DEF WipeFiles
<1>6. /\ libraryPast' \in LibraryPasts /\ libraryPast'.requests = libraryPast.requests
      /\ libraryPast'.wide = libraryPast.wide /\ libraryPast'.stray = libraryPast.stray
  BY <1>2 DEF LibraryInv, LibraryTypeOK, LibraryPasts
<1>7. files' \subseteq files /\ (t.kind \in Wide => files' = {})
      /\ (t.kind \in Removals => files' = files \ (t.docs \ failed))
  BY <1>2 DEF Removals, Wide
<1>8. EditStands(q)'
  <2>1. CASE q = IdleEdit
    BY <2>1, IdleStands
  <2>2. CASE q # IdleEdit
    <3>1. t.kind \in Removals => RemovalStands(q)'
      BY <1>1, <1>4, <1>5, <1>6, <1>7, <2>2 DEF EditStands, RemovalStands
    <3>2. t.kind \in Wide => WideStands(q)'
      BY <1>1, <1>4, <1>5, <1>6, <1>7, <2>2 DEF EditStands, WideStands
    <3>3. t.kind \notin Uploads
      BY <1>1 DEF Uploads, Removals, Wide
    <3>. QED
      BY <1>4, <2>2, <3>1, <3>2, <3>3 DEF EditStands
  <2>. QED
    BY <2>1, <2>2
<1>9. LibraryTypeOK'
  <2>1. edits' \in [Editors -> EditRecords]
    BY <1>4, OfOneEdit
  <2>. QED
    BY <1>5, <1>6, <1>7, <2>1 DEF LibraryInv, LibraryTypeOK
<1>10. KeepsContent'
  <2>1. t.kind \in Removals => t.docs \subseteq canceled
    BY <1>1 DEF EditStands, RemovalStands
  <2>2. t.kind \in Wide /\ ~libraryPast.wide => docs \subseteq canceled
    BY <1>1 DEF EditStands, WideStands
  <2>. QED
    BY <1>1, <1>5, <1>6, <1>7, <2>1, <2>2 DEF LibraryInv, KeepsContent
<1>11. \A o \in Editors \ {r} :
        edits[o].kind \in Uploads /\ edits[o].pc # "idle" /\ ~libraryPast.wide =>
          edits[o].put \cap files \subseteq files'
  <2>1. \A o \in Editors \ {r} :
          edits[o].kind \in Uploads /\ edits[o].pc # "idle" /\ ~libraryPast.wide =>
            /\ edits[o].docs \cap t.docs = {} /\ edits[o].put \subseteq edits[o].docs
            /\ t.kind \notin Wide
    BY <1>1, OfOneEdit
  <2>. QED
    BY <1>1, <1>7, <2>1
<1>12. /\ \A f \in files' : f \in files \ edits[r].put
       /\ edits[r].pc # "idle"
  <2>1. t.put = {}
    BY <1>1 DEF EditStands, RemovalStands, WideStands
  <2>. QED
    BY <1>1, <1>7, <2>1
<1>13. /\ q.docs \subseteq edits[r].docs /\ q.pc # "commit" /\ lock' = lock
       /\ (q = IdleEdit \/ q.kind = edits[r].kind)
       /\ \A o \in Editors \ {r} : edits[o].docs \cap files' \subseteq files /\ files' \subseteq files
  BY <1>4, <1>5, <1>7, IdleIsTyped
<1>. HIDE DEF t
<1>. QED
  BY <1>4, <1>5, <1>6, <1>8, <1>9, <1>10, <1>11, <1>12, <1>13, OneEdit

LEMMA WipedVectors ==
  ASSUME LibraryInv, NEW r \in Editors, WipeVectors(r)
  PROVE  LibraryInv'
<1>. DEFINE t == edits[r]
<1>1. /\ t \in EditRecords /\ EditStands(t) /\ t.pc = "vectors" /\ t.docs \subseteq Docs
      /\ t.kind \in Removals \cup (Wide \ {"create"})
  BY OfOneEdit, KindOfPlace DEF WipeVectors, EditRecords
<1>2. PICK failed \in SUBSET t.docs :
        /\ vectors' = IF t.kind \in Wide THEN {} ELSE vectors \ (t.docs \ failed)
        /\ edits' = IF failed # {} /\ failed = t.docs
                      THEN [edits EXCEPT ![r] = IdleEdit]
                      ELSE [edits EXCEPT ![r] = [t EXCEPT !.docs = t.docs \ failed, !.pc = "rows"]]
        /\ libraryPast' = IF failed = {} THEN libraryPast ELSE [libraryPast EXCEPT !.faults = @ + 1]
  BY DEF WipeVectors, WipedFrom
<1>3. PICK q : q = IF failed # {} /\ failed = t.docs
                     THEN IdleEdit ELSE [t EXCEPT !.docs = t.docs \ failed, !.pc = "rows"]
  OBVIOUS
<1>0. t.put = {}
  BY <1>1 DEF EditStands, RemovalStands, WideStands
<1>4. /\ edits' = [edits EXCEPT ![r] = q] /\ q \in EditRecords /\ q.docs \subseteq t.docs
      /\ \/ q = IdleEdit
         \/ /\ q.pc = "rows" /\ q.kind = t.kind /\ q.coll = t.coll /\ q.docs = t.docs \ failed
            /\ q.put = t.put
  <2>1. CASE failed # {} /\ failed = t.docs
    BY <1>2, <1>3, <2>1, IdleIsTyped
  <2>2. CASE ~(failed # {} /\ failed = t.docs)
    <3>1. q = [t EXCEPT !.docs = t.docs \ failed, !.pc = "rows"]
      BY <1>3, <2>2
    <3>. QED
      BY <1>1, <1>2, <2>2, <3>1 DEF EditRecords
  <2>. QED
    BY <2>1, <2>2
<1>5. UNCHANGED <<coll, docs, count, lock, files, canceled, late>>
  BY DEF WipeVectors
<1>6. /\ libraryPast' \in LibraryPasts /\ libraryPast'.requests = libraryPast.requests
      /\ libraryPast'.wide = libraryPast.wide /\ libraryPast'.stray = libraryPast.stray
  BY <1>2 DEF LibraryInv, LibraryTypeOK, LibraryPasts
<1>7. vectors' \subseteq vectors /\ (t.kind \in Removals => vectors' = vectors \ (t.docs \ failed))
  BY <1>2 DEF Removals, Wide
<1>8. EditStands(q)'
  <2>1. CASE q = IdleEdit
    BY <2>1, IdleStands
  <2>2. CASE q # IdleEdit
    <3>1. t.kind \in Removals => RemovalStands(q)'
      BY <1>1, <1>4, <1>5, <1>6, <2>2 DEF EditStands, RemovalStands
    <3>2. t.kind \in Wide => WideStands(q)'
      BY <1>1, <1>4, <1>5, <1>6, <2>2 DEF EditStands, WideStands
    <3>3. t.kind \notin Uploads
      BY <1>1 DEF Uploads, Removals, Wide
    <3>. QED
      BY <1>4, <2>2, <3>1, <3>2, <3>3 DEF EditStands
  <2>. QED
    BY <2>1, <2>2
<1>9. LibraryTypeOK'
  <2>1. edits' \in [Editors -> EditRecords]
    BY <1>4, OfOneEdit
  <2>. QED
    BY <1>5, <1>6, <1>7, <2>1 DEF LibraryInv, LibraryTypeOK
<1>10. KeepsContent'
  <2>1. t.kind \in Removals => t.docs \subseteq canceled
    BY <1>1 DEF EditStands, RemovalStands
  <2>2. t.kind \in Wide /\ ~libraryPast.wide => docs \subseteq canceled
    BY <1>1 DEF EditStands, WideStands
  <2>. QED
    BY <1>1, <1>5, <1>6, <1>7, <2>1, <2>2 DEF LibraryInv, KeepsContent
<1>11. /\ \A f \in files' : f \in files \ edits[r].put
       /\ edits[r].pc # "idle"
  BY <1>0, <1>1, <1>5
<1>12. /\ q.docs \subseteq edits[r].docs /\ q.pc # "commit" /\ lock' = lock
       /\ (q = IdleEdit \/ q.kind = edits[r].kind)
       /\ \A o \in Editors \ {r} : edits[o].docs \cap files' \subseteq files /\ files' \subseteq files
       /\ \A o \in Editors \ {r} : edits[o].put \cap files \subseteq files'
  BY <1>4, <1>5, IdleIsTyped
<1>. HIDE DEF t
<1>. QED
  BY <1>4, <1>5, <1>6, <1>8, <1>9, <1>10, <1>11, <1>12, OneEdit

LEMMA Deaths ==
  ASSUME LibraryInv, NEW r \in Editors, EditorDies(r)
  PROVE  LibraryInv'
<1>1. /\ UNCHANGED <<coll, docs, count, files, vectors, canceled, late>> /\ EndsEdit(r)
      /\ lock' = (IF lock = r THEN NoEditor ELSE lock)
      /\ libraryPast' = [libraryPast EXCEPT !.faults = @ + 1, !.stray = @ \cup (edits[r].put \cap files)]
  BY DEF EditorDies
<1>2. /\ edits[r].put \subseteq Docs
  BY OfOneEdit DEF EditRecords
<1>3. /\ libraryPast' \in LibraryPasts /\ libraryPast'.requests = libraryPast.requests
      /\ libraryPast'.wide = libraryPast.wide
      /\ libraryPast'.stray = libraryPast.stray \cup (edits[r].put \cap files)
  <2>1. /\ libraryPast \in LibraryPasts
        /\ libraryPast.stray \cup (edits[r].put \cap files) \in SUBSET Docs
        /\ libraryPast.faults + 1 \in Nat
    BY <1>2 DEF LibraryInv, LibraryTypeOK, LibraryPasts
  <2>. QED
    BY <1>1, <2>1 DEF LibraryPasts
<1>4. LibraryTypeOK'
  <2>1. edits' \in [Editors -> EditRecords]
    BY <1>1, OfOneEdit, IdleIsTyped DEF EndsEdit
  <2>. QED
    BY <1>1, <1>3, <2>1 DEF LibraryInv, LibraryTypeOK
<1>5. KeepsContent'
  BY <1>1, <1>3 DEF LibraryInv, KeepsContent
<1>6. /\ lock' = lock \/ (lock' = NoEditor /\ lock = r)
      /\ files' \subseteq files /\ libraryPast.stray \subseteq libraryPast'.stray
      /\ \A f \in files' : f \in docs \cup libraryPast'.stray \/ f \notin edits[r].put
      /\ \A o \in Editors : edits[o].put \cap files \subseteq files'
  BY <1>1, <1>3
<1>. QED
  BY <1>1, <1>3, <1>4, <1>5, <1>6, EditEnds

\* The second creation of the same name.
LEMMA Undone ==
  ASSUME LibraryInv, NEW r \in Editors, UndoCreate(r)
  PROVE  LibraryInv'
<1>1. /\ UNCHANGED <<coll, docs, count, lock, files, canceled, late, libraryPast>> /\ EndsEdit(r)
      /\ vectors' = {}
  BY DEF UndoCreate
<1>2. edits[r] \in EditRecords /\ EditStands(edits[r]) /\ edits[r].pc = "undo" /\ edits[r].kind = "create"
  BY OfOneEdit, KindOfPlace DEF UndoCreate
<1>3. libraryPast.wide /\ edits[r].put = {}
  BY <1>2 DEF EditStands, WideStands, Wide
<1>4. LibraryTypeOK'
  <2>1. edits' \in [Editors -> EditRecords]
    BY <1>1, OfOneEdit, IdleIsTyped DEF EndsEdit
  <2>. QED
    BY <1>1, <2>1 DEF LibraryInv, LibraryTypeOK
<1>5. KeepsContent'
  BY <1>1, <1>3 DEF KeepsContent
<1>6. \A f \in files' : f \notin edits[r].put
  BY <1>3
<1>. QED
  BY <1>1, <1>3, <1>4, <1>5, <1>6, EditEnds

LEMMA Created ==
  ASSUME LibraryInv, NEW r \in Editors, CreateRow(r)
  PROVE  LibraryInv'
<1>. DEFINE t == edits[r]
<1>1. t \in EditRecords /\ EditStands(t) /\ t.pc = "create" /\ t.kind = "create"
  BY OfOneEdit, KindOfPlace DEF CreateRow
<1>2. WideStands(t)
  BY <1>1 DEF EditStands, Wide
<1>3. CASE coll # 0
  <2>. DEFINE q == [t EXCEPT !.pc = "undo"]
  <2>1. /\ UNCHANGED <<coll, docs, count, lock, files, vectors, canceled, late, libraryPast>>
        /\ edits' = [edits EXCEPT ![r] = q]
    BY <1>3 DEF CreateRow, GoesTo
  <2>2. /\ q \in EditRecords /\ q.pc = "undo" /\ q.kind = "create" /\ q.put = t.put /\ q.docs = t.docs
    BY <1>1 DEF EditRecords
  <2>. HIDE DEF q
  <2>3. libraryPast.wide
    BY <1>1, <1>2, <1>3 DEF WideStands
  <2>4. EditStands(q)
    BY <1>2, <2>2, <2>3 DEF EditStands, WideStands, Uploads, Removals, Wide
  <2>5. lock' \in Editors \cup {NoEditor}
    BY <2>1 DEF LibraryInv, LibraryTypeOK
  <2>. QED
    BY <1>1, <2>1, <2>2, <2>4, <2>5, EditGoesOn
<1>4. CASE coll = 0
  <2>1. /\ UNCHANGED <<docs, count, lock, files, vectors, canceled, late>>
        /\ edits' = [edits EXCEPT ![r] = IdleEdit]
        /\ coll' = libraryPast.made + 1 /\ libraryPast' = [libraryPast EXCEPT !.made = @ + 1]
    BY <1>4 DEF CreateRow, EndsEdit
  <2>2. docs = {} /\ libraryPast \in LibraryPasts /\ edits \in [Editors -> EditRecords]
    BY <1>4 DEF LibraryInv, LibraryTypeOK
  <2>3. /\ coll' \in Nat /\ coll' # 0 /\ libraryPast' \in LibraryPasts
        /\ libraryPast'.requests = libraryPast.requests /\ libraryPast'.wide = libraryPast.wide
        /\ libraryPast'.stray = libraryPast.stray
    BY <2>1, <2>2 DEF LibraryPasts
  <2>4. edits'[r] = IdleEdit /\ \A o \in Editors \ {r} : edits'[o] = edits[o]
    BY <2>1, <2>2
  <2>5. LibraryTypeOK'
    BY <2>1, <2>2, <2>3, IdleIsTyped DEF LibraryInv, LibraryTypeOK
  <2>6. ASSUME NEW o \in Editors \ {r}, NEW p, p = edits[o] PROVE EditStands(p)'
    <3>1. /\ EditStands(p) /\ (p.pc # "idle" => libraryPast.wide \/ p.kind \notin Wide)
      BY <1>1, <2>6, OfOneEdit
    <3>2. p.pc # "idle" /\ p.kind \in Uploads => UploadStands(p)'
      BY <1>4, <2>1, <2>2, <2>3, <3>1 DEF EditStands, UploadStands
    <3>3. p.pc # "idle" /\ p.kind \in Removals => RemovalStands(p)'
      BY <2>1, <2>2, <2>3, <3>1 DEF EditStands, RemovalStands
    <3>4. p.pc # "idle" /\ p.kind \in Wide => WideStands(p)'
      BY <2>1, <2>2, <2>3, <3>1 DEF EditStands, WideStands
    <3>. QED
      BY <3>1, <3>2, <3>3, <3>4 DEF EditStands
  <2>7. EditsStand'
    <3>1. ASSUME NEW o \in Editors, NEW p, p = edits'[o] PROVE EditStands(p)'
      BY <2>4, <2>6, <3>1, IdleStands
    <3>. QED
      BY <3>1 DEF EditsStand, EditStands, UploadStands, RemovalStands, WideStands
  <2>8. /\ IdleEdit.pc = "idle" /\ IdleEdit.docs = {} /\ IdleEdit.put = {} /\ edits[r].put = {}
    BY <1>2, IdleIsTyped DEF WideStands
  <2>. HIDE DEF t, IdleEdit
  <2>9. Numbered' /\ Locked' /\ Apart'
    BY <2>1, <2>3, <2>4, <2>8 DEF LibraryInv, Numbered, Locked, Apart
  <2>10. Alone'
    <3>1. \A o \in OpenEdits' : o \in OpenEdits /\ edits'[o] = edits[o]
      BY <2>4, <2>8 DEF OpenEdits
    <3>. QED
      BY <2>3, <3>1 DEF LibraryInv, Alone
  <2>11. KeepsContent' /\ FilesKnown'
    BY <2>1, <2>3, <2>4, <2>8 DEF LibraryInv, KeepsContent, FilesKnown
  <2>. QED
    BY <2>2, <2>1, <2>3, <2>5, <2>7, <2>9, <2>10, <2>11 DEF LibraryInv
<1>. QED
  BY <1>3, <1>4

\* A late file, or the end of a job.
LEMMA Files ==
  ASSUME LibraryInv, NEW d \in Docs, PutFileLate(d) \/ IngestDocument(d)
  PROVE  LibraryInv'
<1>1. /\ UNCHANGED <<coll, docs, count, lock, canceled, edits>>
      /\ \/ /\ files' = files \cup {d} /\ UNCHANGED vectors /\ late' = late \ {d}
            /\ libraryPast' = [libraryPast EXCEPT !.stray = @ \cup {d}]
         \/ /\ files' = files \ {d} /\ d \in docs /\ vectors' = vectors \cup {d}
            /\ UNCHANGED <<late, libraryPast>>
  BY DEF PutFileLate, IngestDocument
<1>2. /\ libraryPast' \in LibraryPasts /\ libraryPast'.requests = libraryPast.requests
      /\ libraryPast'.wide = libraryPast.wide /\ libraryPast.stray \subseteq libraryPast'.stray
      /\ files' \subseteq files \cup libraryPast'.stray
  <2>1. libraryPast \in LibraryPasts /\ libraryPast.stray \cup {d} \in SUBSET Docs
    BY DEF LibraryInv, LibraryTypeOK, LibraryPasts
  <2>. QED
    BY <1>1, <2>1 DEF LibraryPasts
<1>3. LibraryTypeOK'
  BY <1>1, <1>2 DEF LibraryInv, LibraryTypeOK
<1>4. ASSUME NEW o \in Editors, NEW p, p = edits[o] PROVE EditStands(p)'
  <2>1. p \in EditRecords /\ EditStands(p)
    BY <1>4, OfOneEdit
  <2>2. p.kind \in Uploads => p.put \cap files \subseteq files'
    <3>1. CASE p.pc = "idle"
      BY <2>1, <3>1, IdleIsTyped DEF EditStands
    <3>2. CASE p.pc # "idle"
      BY <1>1, <2>1, <3>2 DEF EditStands, UploadStands
    <3>. QED
      BY <3>1, <3>2
  <2>. QED
    BY <1>1, <1>2, <2>1, <2>2, StandsStill
<1>5. EditsStand'
  <2>1. ASSUME NEW o \in Editors, NEW p, p = edits'[o] PROVE EditStands(p)'
    BY <1>1, <1>4, <2>1
  <2>. QED
    BY <2>1 DEF EditsStand, EditStands, UploadStands, RemovalStands, WideStands
<1>6. Numbered' /\ Locked' /\ Apart' /\ Alone'
  BY <1>1, <1>2 DEF LibraryInv, Numbered, Locked, Apart, Alone, OpenEdits
<1>7. KeepsContent'
  BY <1>1, <1>2 DEF LibraryInv, KeepsContent
<1>8. FilesKnown'
  BY <1>1, <1>2 DEF LibraryInv, FilesKnown
<1>. QED
  BY <1>1, <1>3, <1>5, <1>6, <1>7, <1>8 DEF LibraryInv

\* A request that begins: an upload of new documents, a deletion of present ones, or
\* one without documents of its own. It overlaps with a wide one for a cause.
LEMMA Beginnings ==
  ASSUME LibraryInv, NEW r \in Editors, NEW kind \in EditKinds, NEW to, NEW ds \in SUBSET Docs,
         BeginEdit(r, kind, to, ds), UNCHANGED <<coll, docs, count, lock, files, vectors, late>>,
         canceled \subseteq canceled', canceled' \subseteq Docs,
         \/ /\ kind \in Uploads /\ to = "put" /\ coll # 0
            /\ \A d \in ds : d[1] = libraryPast.requests + 1
         \/ kind \in Removals /\ to = "wipe" /\ ds \subseteq docs /\ coll # 0 /\ ds \subseteq canceled'
         \/ kind \in {"truncate", "drop"} /\ to = "wipe" /\ ds = {} /\ docs \subseteq canceled'
         \/ kind = "create" /\ to = "create" /\ ds = {} /\ coll = 0
  PROVE  LibraryInv'
<1>1. PICK q : q = [IdleEdit EXCEPT !.pc = to, !.kind = kind, !.coll = coll, !.docs = ds]
  OBVIOUS
<1>2. /\ edits[r].pc = "idle" /\ edits' = [edits EXCEPT ![r] = q]
      /\ libraryPast' = [libraryPast EXCEPT !.requests = @ + 1,
           !.wide = @ \/ (OpenEdits # {} /\ Wide \cap ({kind} \cup {edits[o].kind : o \in OpenEdits}) # {})]
  BY <1>1 DEF BeginEdit
<1>3. /\ edits \in [Editors -> EditRecords] /\ \A o \in Editors : EditStands(edits[o])
      /\ coll \in Nat /\ libraryPast \in LibraryPasts /\ libraryPast.requests \in Nat
  BY DEF LibraryInv, LibraryTypeOK, LibraryPasts, EditsStand
<1>4. /\ q \in EditRecords /\ q.pc = to /\ q.kind = kind /\ q.coll = coll /\ q.docs = ds /\ q.put = {}
      /\ to \in {"put", "wipe", "create"}
  BY <1>1, <1>3 DEF IdleEdit, EditRecords
<1>5. edits'[r] = q /\ \A o \in Editors \ {r} : edits'[o] = edits[o]
  BY <1>2, <1>3
<1>6. /\ libraryPast' \in LibraryPasts /\ libraryPast'.requests = libraryPast.requests + 1
      /\ libraryPast'.stray = libraryPast.stray /\ (libraryPast.wide => libraryPast'.wide)
      /\ ~libraryPast'.wide /\ OpenEdits # {} =>
           kind \notin Wide /\ \A o \in OpenEdits : edits[o].kind \notin Wide
  <2>1. PICK w \in BOOLEAN :
          w = (libraryPast.wide \/ (OpenEdits # {} /\
                 Wide \cap ({kind} \cup {edits[o].kind : o \in OpenEdits}) # {}))
    OBVIOUS
  <2>2. libraryPast' = [libraryPast EXCEPT !.requests = libraryPast.requests + 1, !.wide = w]
    BY <1>2, <2>1
  <2>3. ~w /\ OpenEdits # {} => kind \notin Wide /\ \A o \in OpenEdits : edits[o].kind \notin Wide
    BY <2>1
  <2>4. libraryPast.wide => w
    BY <2>1
  <2>5. /\ libraryPast' \in LibraryPasts /\ libraryPast'.requests = libraryPast.requests + 1
        /\ libraryPast'.stray = libraryPast.stray /\ libraryPast'.wide = w
    <3>1. PICK n \in Nat : n = libraryPast.requests + 1
      BY <1>3
    <3>2. libraryPast' = [libraryPast EXCEPT !.requests = n, !.wide = w]
      BY <2>2, <3>1
    <3>3. libraryPast' \in LibraryPasts
      BY <1>3, <3>2 DEF LibraryPasts
    <3>4. libraryPast'.requests = n /\ libraryPast'.stray = libraryPast.stray
      BY <1>3, <3>2 DEF LibraryPasts
    <3>5. libraryPast'.wide = w
      BY <1>3, <3>2 DEF LibraryPasts
    <3>. QED
      BY <3>1, <3>3, <3>4, <3>5
  <2>. QED
    BY <2>3, <2>4, <2>5
<1>7. LibraryTypeOK'
  <2>1. edits' \in [Editors -> EditRecords]
    BY <1>2, <1>3, <1>4
  <2>. QED
    BY <1>6, <2>1 DEF LibraryInv, LibraryTypeOK
<1>8. kind \in Uploads => ds \cap docs = {} /\ \A o \in Editors : ds \cap edits[o].docs = {}
  <2>1. ASSUME kind \in Uploads, NEW d \in ds, d \in docs \/ \E o \in Editors : d \in edits[o].docs
        PROVE  FALSE
    <3>1. d[1] <= libraryPast.requests
      BY <2>1 DEF LibraryInv, Numbered
    <3>2. d[1] = libraryPast.requests + 1
      BY <2>1 DEF Uploads, Removals
    <3>. QED
      BY <1>3, <3>1, <3>2
  <2>. QED
    BY <2>1
<1>9. EditStands(q)'
  <2>1. CASE kind \in Uploads
    <3>1. UploadStands(q)'
      BY <1>4, <1>8, <2>1 DEF UploadStands, Uploads, Removals
    <3>. QED
      BY <1>4, <2>1, <3>1 DEF EditStands, Uploads, Removals, Wide
  <2>2. CASE kind \in Removals
    <3>1. RemovalStands(q)'
      BY <1>4, <2>2 DEF RemovalStands, Uploads, Removals
    <3>. QED
      BY <1>4, <2>2, <3>1 DEF EditStands, Uploads, Removals, Wide
  <2>3. CASE kind \in Wide
    <3>1. WideStands(q)'
      BY <1>4, <2>3 DEF WideStands, Uploads, Removals, Wide
    <3>. QED
      BY <1>4, <2>3, <3>1 DEF EditStands, Uploads, Removals, Wide
  <2>. QED
    BY <2>1, <2>2, <2>3 DEF EditKinds, Uploads, Removals
<1>10. ASSUME NEW o \in Editors \ {r}, NEW p, p = edits[o] PROVE EditStands(p)'
  <2>1. p \in EditRecords /\ EditStands(p)
    BY <1>3, <1>10
  <2>. QED
    BY <1>6, <2>1, StandsStill
<1>11. EditsStand'
  <2>1. ASSUME NEW o \in Editors, NEW p, p = edits'[o] PROVE EditStands(p)'
    BY <1>5, <1>9, <1>10, <2>1
  <2>. QED
    BY <2>1 DEF EditsStand, EditStands, UploadStands, RemovalStands, WideStands
<1>12. Numbered'
  <2>1. \A d \in docs : d[1] <= libraryPast.requests + 1
    <3>1. ASSUME NEW d \in docs PROVE d[1] <= libraryPast.requests + 1
      <4>1. d \in Docs /\ d[1] <= libraryPast.requests
        BY DEF LibraryInv, LibraryTypeOK, Numbered
      <4>. QED
        BY <1>3, <4>1, NumbersOfDocs
    <3>. QED
      BY <3>1
  <2>2. ASSUME NEW o \in Editors, NEW d \in edits'[o].docs PROVE d[1] <= libraryPast.requests + 1
    <3>1. CASE o # r
      <4>1. d \in edits[o].docs /\ d \in Docs
        BY <1>3, <1>5, <2>2, <3>1 DEF EditRecords
      <4>2. d[1] <= libraryPast.requests
        BY <4>1 DEF LibraryInv, Numbered
      <4>. QED
        BY <1>3, <4>1, <4>2, NumbersOfDocs
    <3>2. CASE o = r
      <4>1. d \in ds
        BY <1>4, <1>5, <2>2, <3>2
      <4>2. d \in docs \/ d[1] = libraryPast.requests + 1
        BY <4>1
      <4>. QED
        BY <1>3, <2>1, <4>2
    <3>. QED
      BY <3>1, <3>2
  <2>. QED
    BY <1>6, <2>1, <2>2 DEF Numbered
<1>13. Locked'
  BY <1>4, <1>5 DEF LibraryInv, Locked
<1>14. Apart'
  <2>1. ASSUME NEW o \in Editors, NEW p \in Editors, o # p, edits'[o].pc # "idle",
               edits'[o].kind \in Uploads
        PROVE  edits'[o].docs \cap edits'[p].docs = {}
    <3>1. CASE o = r
      BY <1>4, <1>5, <1>8, <2>1, <3>1
    <3>2. CASE p = r
      <4>1. edits[o].docs \cap docs = {}
        BY <1>3, <1>5, <2>1, <3>2 DEF EditStands, UploadStands
      <4>. QED
        BY <1>4, <1>5, <1>8, <2>1, <3>2, <4>1
    <3>3. CASE o # r /\ p # r
      BY <1>5, <2>1, <3>3 DEF LibraryInv, Apart
    <3>. QED
      BY <3>1, <3>2, <3>3
  <2>. QED
    BY <2>1 DEF Apart
<1>15. Alone'
  <2>1. \A o \in OpenEdits' : o # r => o \in OpenEdits /\ edits'[o].kind = edits[o].kind
    BY <1>5 DEF OpenEdits
  <2>. QED
    BY <1>4, <1>5, <1>6, <2>1 DEF LibraryInv, Alone
<1>16. KeepsContent'
  BY <1>6 DEF LibraryInv, KeepsContent
<1>17. FilesKnown'
  <2>1. edits[r].put = {}
    BY <1>2, <1>3, IdleIsTyped DEF EditStands
  <2>. QED
    BY <1>5, <1>6, <2>1 DEF LibraryInv, FilesKnown
<1>. QED
  BY <1>7, <1>11, <1>12, <1>13, <1>14, <1>15, <1>16, <1>17 DEF LibraryInv

\* The commit of a transaction.
LEMMA Commits ==
  ASSUME LibraryInv, NEW r \in Editors, CommitRows(r)
  PROVE  LibraryInv'
<1>. DEFINE t == edits[r]
<1>1. /\ t \in EditRecords /\ EditStands(t) /\ t.pc = "commit"
      /\ edits \in [Editors -> EditRecords] /\ t.docs \subseteq Docs
      /\ (t.kind \in Uploads \/ t.kind \in Removals \/ t.kind \in Wide)
  BY OfOneEdit DEF CommitRows, EditRecords
<1>2. /\ UNCHANGED <<coll, files, vectors, canceled, late, libraryPast>>
      /\ docs' = (IF t.kind \in Uploads THEN docs \cup t.docs ELSE docs \ t.docs)
      /\ count' = (IF t.coll = coll THEN NewCount(r) ELSE count)
      /\ lock' = NoEditor /\ edits' = [edits EXCEPT ![r] = IdleEdit]
  BY DEF CommitRows, EndsEdit, Uploads
<1>3. edits'[r] = IdleEdit /\ \A o \in Editors \ {r} : edits'[o] = edits[o]
  BY <1>1, <1>2
<1>4. lock = r /\ \A o \in Editors \ {r} : edits[o].pc # "commit"
  BY <1>1 DEF LibraryInv, Locked
<1>5. t.kind \in Uploads => UploadStands(t)
  BY <1>1 DEF EditStands
<1>6. count' \in Nat
  <2>1. count \in Nat /\ t.seen \in Nat /\ Cardinality(t.docs) \in Nat
    BY <1>1, DocsAreFinite DEF LibraryInv, LibraryTypeOK, EditRecords
  <2>. QED
    BY <1>2, <2>1 DEF NewCount
<1>7. docs \subseteq Docs /\ docs' \subseteq Docs
  BY <1>1, <1>2 DEF LibraryInv, LibraryTypeOK
<1>8. LibraryTypeOK'
  <2>1. edits' \in [Editors -> EditRecords] /\ lock' \in Editors \cup {NoEditor}
    BY <1>1, <1>2, IdleIsTyped
  <2>. QED
    BY <1>2, <1>6, <1>7, <2>1 DEF LibraryInv, LibraryTypeOK
<1>9. coll = 0 => docs' = {}
  BY <1>1, <1>2, <1>5 DEF LibraryInv, UploadStands
<1>10. ASSUME NEW o \in Editors \ {r}, NEW p, p = edits[o] PROVE EditStands(p)'
  <2>1. /\ EditStands(p) /\ p.pc # "commit"
        /\ p.pc # "idle" /\ p.kind \in Uploads => p.docs \cap t.docs = {}
        /\ t.kind \in Uploads => t.docs \cap p.docs = {}
        /\ p.pc # "idle" /\ ~libraryPast.wide => p.kind \notin Wide
    BY <1>1, <1>4, <1>10, OfOneEdit
  <2>2. p.pc # "idle" /\ p.kind \in Uploads => UploadStands(p)'
    BY <1>2, <2>1 DEF EditStands, UploadStands
  <2>3. p.pc # "idle" /\ p.kind \in Removals => RemovalStands(p)'
    BY <1>2, <2>1 DEF EditStands, RemovalStands
  <2>4. p.pc # "idle" /\ p.kind \in Wide => WideStands(p)'
    BY <1>2, <2>1 DEF EditStands, WideStands
  <2>. QED
    BY <2>1, <2>2, <2>3, <2>4 DEF EditStands
<1>11. EditsStand'
  <2>1. ASSUME NEW o \in Editors, NEW p, p = edits'[o] PROVE EditStands(p)'
    BY <1>3, <1>10, <2>1, IdleStands
  <2>. QED
    BY <2>1 DEF EditsStand, EditStands, UploadStands, RemovalStands, WideStands
<1>12. IdleEdit.pc = "idle" /\ IdleEdit.docs = {} /\ IdleEdit.put = {}
  BY IdleIsTyped
<1>. HIDE DEF IdleEdit
<1>13. Numbered'
  BY <1>2, <1>3, <1>12 DEF LibraryInv, Numbered
<1>14. Locked' /\ Apart'
  BY <1>3, <1>4, <1>12 DEF LibraryInv, Locked, Apart
<1>15. Alone'
  <2>1. \A o \in OpenEdits' : o \in OpenEdits /\ edits'[o] = edits[o]
    BY <1>3, <1>12 DEF OpenEdits
  <2>. QED
    BY <1>2, <2>1 DEF LibraryInv, Alone
<1>16. KeepsContent'
  BY <1>2, <1>1, <1>5 DEF LibraryInv, KeepsContent, UploadStands
<1>17. FilesKnown'
  <2>1. ASSUME ~libraryPast.wide, NEW f \in files, f \notin docs' \cup libraryPast.stray
        PROVE  \E o \in Editors : f \in edits'[o].put
    <3>1. f \notin docs \/ (t.kind \notin Uploads /\ f \in t.docs)
      BY <1>2, <2>1
    <3>2. t.kind \in Removals => t.docs \cap files \subseteq libraryPast.stray
      BY <1>1 DEF EditStands, RemovalStands
    <3>3. t.kind \in Wide => files \subseteq libraryPast.stray
      <4>1. t.kind \in Wide => t.kind # "create" /\ WideStands(t)
        BY <1>1 DEF EditStands, WideStands
      <4>. QED
        BY <1>1, <2>1, <4>1 DEF WideStands
    <3>4. f \notin docs
      BY <1>1, <2>1, <3>1, <3>2, <3>3
    <3>5. PICK o \in Editors : f \in edits[o].put
      BY <2>1, <3>4 DEF LibraryInv, FilesKnown
    <3>6. t.put \subseteq docs'
      <4>1. t.kind \in Uploads => t.put \subseteq t.docs
        BY <1>5 DEF UploadStands
      <4>2. t.kind \notin Uploads => t.put = {}
        BY <1>1 DEF EditStands, RemovalStands, WideStands
      <4>. QED
        BY <1>2, <4>1, <4>2
    <3>. QED
      BY <1>3, <2>1, <3>5, <3>6
  <2>. QED
    BY <1>2, <2>1 DEF FilesKnown
<1>. QED
  BY <1>2, <1>8, <1>9, <1>11, <1>13, <1>14, <1>15, <1>16, <1>17 DEF LibraryInv

\* The end of the collection.
LEMMA Drops ==
  ASSUME LibraryInv, NEW r \in Editors, DropRow(r)
  PROVE  LibraryInv'
<1>. DEFINE t == edits[r]
<1>1. /\ t \in EditRecords /\ EditStands(t) /\ t.pc = "rows" /\ t.kind = "drop"
      /\ edits \in [Editors -> EditRecords]
  BY OfOneEdit DEF DropRow
<1>2. /\ UNCHANGED <<lock, files, vectors, canceled, late, libraryPast>>
      /\ edits' = [edits EXCEPT ![r] = IdleEdit]
      /\ \A o \in Editors : edits[o].pc \notin {"wait", "commit"}
      /\ \/ coll' = 0 /\ docs' = {} /\ count' = 0
         \/ UNCHANGED <<coll, docs, count>>
  BY DEF DropRow, EndsEdit
<1>3. edits'[r] = IdleEdit /\ \A o \in Editors \ {r} : edits'[o] = edits[o]
  BY <1>1, <1>2
<1>4. WideStands(t)
  BY <1>1 DEF EditStands, Wide
<1>5. LibraryTypeOK' /\ (coll' = 0 => docs' = {})
  <2>1. edits' \in [Editors -> EditRecords]
    BY <1>1, <1>2, IdleIsTyped
  <2>. QED
    BY <1>2, <2>1 DEF LibraryInv, LibraryTypeOK
<1>6. ASSUME NEW o \in Editors \ {r}, NEW p, p = edits[o] PROVE EditStands(p)'
  <2>1. /\ EditStands(p) /\ p.pc \notin {"wait", "commit"}
        /\ p.pc # "idle" /\ ~libraryPast.wide => p.kind \notin Wide
    BY <1>1, <1>2, <1>6, OfOneEdit
  <2>2. docs' \subseteq docs
    BY <1>2
  <2>3. p.pc # "idle" /\ p.kind \in Uploads => UploadStands(p)'
    BY <1>2, <2>1, <2>2 DEF EditStands, UploadStands
  <2>4. p.pc # "idle" /\ p.kind \in Removals => RemovalStands(p)'
    BY <1>2, <2>1, <2>2 DEF EditStands, RemovalStands
  <2>5. p.pc # "idle" /\ p.kind \in Wide => WideStands(p)'
    BY <1>2, <2>1, <2>2 DEF EditStands, WideStands
  <2>. QED
    BY <2>1, <2>3, <2>4, <2>5 DEF EditStands
<1>7. EditsStand'
  <2>1. ASSUME NEW o \in Editors, NEW p, p = edits'[o] PROVE EditStands(p)'
    BY <1>3, <1>6, <2>1, IdleStands
  <2>. QED
    BY <2>1 DEF EditsStand, EditStands, UploadStands, RemovalStands, WideStands
<1>8. IdleEdit.pc = "idle" /\ IdleEdit.docs = {} /\ IdleEdit.put = {} /\ t.put = {}
  BY <1>4, IdleIsTyped DEF WideStands
<1>. HIDE DEF IdleEdit
<1>9. Numbered' /\ Locked' /\ Apart'
  BY <1>2, <1>3, <1>8 DEF LibraryInv, Numbered, Locked, Apart
<1>10. Alone'
  <2>1. \A o \in OpenEdits' : o \in OpenEdits /\ edits'[o] = edits[o]
    BY <1>3, <1>8 DEF OpenEdits
  <2>. QED
    BY <1>2, <2>1 DEF LibraryInv, Alone
<1>11. KeepsContent'
  BY <1>2 DEF LibraryInv, KeepsContent
<1>12. FilesKnown'
  BY <1>1, <1>2, <1>4 DEF FilesKnown, WideStands
<1>. QED
  BY <1>2, <1>5, <1>7, <1>9, <1>10, <1>11, <1>12 DEF LibraryInv

LEMMA NewEdits ==
  ASSUME LibraryInv, NEW r \in Editors,
         \/ \E cs \in SUBSET Contents, kind \in {"upload", "batch"} : UploadDocuments(r, kind, cs)
         \/ \E ds \in SUBSET docs, kind \in {"delete", "batch_delete"} : DeleteDocuments(r, kind, ds)
         \/ \E kind \in {"truncate", "drop"} : EmptyCollection(r, kind)
         \/ CreateCollection(r)
  PROVE  LibraryInv'
<1>1. docs \subseteq Docs /\ canceled \subseteq Docs /\ libraryPast.requests \in Nat
  BY DEF LibraryInv, LibraryTypeOK, LibraryPasts
<1>2. ASSUME NEW cs \in SUBSET Contents, NEW kind \in {"upload", "batch"}, UploadDocuments(r, kind, cs)
      PROVE  LibraryInv'
  <2>. DEFINE new == {c \in cs : \A d \in docs : d[2] # c}
  <2>1. /\ coll # 0 /\ BeginEdit(r, kind, "put", {libraryPast.requests + 1} \X new)
        /\ UNCHANGED <<coll, docs, count, lock, files, vectors, canceled, late>>
    BY <1>2 DEF UploadDocuments
  <2>2. libraryPast.requests + 1 \in 0..MaxEdits
    BY <1>1, <2>1, LibraryAssumption DEF BeginEdit, LibraryAssumption
  <2>3. /\ {libraryPast.requests + 1} \X new \in SUBSET Docs
        /\ \A d \in {libraryPast.requests + 1} \X new : d[1] = libraryPast.requests + 1
    BY <2>2 DEF Docs
  <2>4. kind \in EditKinds /\ kind \in Uploads
    BY DEF EditKinds, Uploads
  <2>. HIDE DEF new
  <2>. QED
    BY <1>1, <2>1, <2>3, <2>4, Beginnings
<1>3. ASSUME NEW ds \in SUBSET docs, NEW kind \in {"delete", "batch_delete"}, DeleteDocuments(r, kind, ds)
      PROVE  LibraryInv'
  <2>1. /\ coll # 0 /\ BeginEdit(r, kind, "wipe", ds) /\ canceled' = canceled \cup ds
        /\ UNCHANGED <<coll, docs, count, lock, files, vectors, late>>
    BY <1>3 DEF DeleteDocuments
  <2>2. kind \in EditKinds /\ kind \in Removals /\ ds \in SUBSET Docs
    BY <1>1 DEF EditKinds, Removals
  <2>. QED
    BY <1>1, <2>1, <2>2, Beginnings
<1>4. ASSUME NEW kind \in {"truncate", "drop"}, EmptyCollection(r, kind)
      PROVE  LibraryInv'
  <2>1. /\ BeginEdit(r, kind, "wipe", {}) /\ canceled' = canceled \cup docs
        /\ UNCHANGED <<coll, docs, count, lock, files, vectors, late>>
    BY <1>4 DEF EmptyCollection
  <2>2. kind \in EditKinds
    BY DEF EditKinds, Wide
  <2>. QED
    BY <1>1, <2>1, <2>2, Beginnings
<1>5. CASE CreateCollection(r)
  <2>1. /\ coll = 0 /\ BeginEdit(r, "create", "create", {})
        /\ UNCHANGED <<coll, docs, count, lock, files, vectors, canceled, late>>
    BY <1>5 DEF CreateCollection
  <2>2. "create" \in EditKinds
    BY DEF EditKinds, Wide
  <2>. QED
    BY <1>1, <2>1, <2>2, Beginnings
<1>. QED
  BY <1>2, <1>3, <1>4, <1>5

LEMMA LibraryInvInit == LibraryInit => LibraryInv
<1>. SUFFICES ASSUME LibraryInit PROVE LibraryInv
  OBVIOUS
<1>1. PICK c \in Contents : docs = {<<0, c>>}
  BY DEF LibraryInit
<1>2. <<0, c>> \in Docs
  BY LibraryAssumption DEF LibraryAssumption, Docs
<1>3. libraryPast \in LibraryPasts /\ libraryPast.requests = 0
  BY DEF LibraryInit, LibraryPasts
<1>4. \A r \in Editors : edits[r] = IdleEdit
  BY DEF LibraryInit
<1>5. LibraryTypeOK
  BY <1>1, <1>2, <1>3, IdleIsTyped DEF LibraryInit, LibraryTypeOK
<1>6. EditsStand
  BY <1>4, IdleStands DEF EditsStand
<1>7. IdleEdit.pc = "idle" /\ IdleEdit.docs = {}
  BY IdleIsTyped
<1>. HIDE DEF IdleEdit
<1>8. Numbered /\ Locked /\ Apart /\ Alone
  BY <1>1, <1>3, <1>4, <1>7 DEF Numbered, Locked, Apart, Alone, OpenEdits
<1>9. KeepsContent /\ FilesKnown /\ (coll = 0 => docs = {})
  BY DEF LibraryInit, KeepsContent, FilesKnown
<1>. QED
  BY <1>5, <1>6, <1>8, <1>9 DEF LibraryInv

\* What a commit leaves as the count.
LEMMA Recounted ==
  ASSUME LibraryInv, NEW r \in Editors, LibraryNext, edits[r].pc = "commit",
         edits[r].kind \in {"upload", "batch", "delete"}, ~edits[r].waited, docs' # docs
  PROVE  count' = Cardinality(docs')
<1>. DEFINE t == edits[r]
<1>1. CommitRows(r)
  <2>1. \/ \E o \in Editors : CommitRows(o) \/ DropRow(o)
        \/ UNCHANGED docs
    BY DEF LibraryNext, UploadDocuments, DeleteDocuments, EmptyCollection, PutFile, PutFileFails,
           InsertRows, RefuseRows, WipeFiles, WipeVectors, DeleteRows, AcquireRow, CreateCollection,
           CreateRow, UndoCreate, EditorDies, PutFileLate, IngestDocument
  <2>2. \A o \in Editors : ~DropRow(o)
    BY DEF DropRow
  <2>3. \A o \in Editors : CommitRows(o) => o = r
    BY DEF CommitRows, LibraryInv, Locked
  <2>. QED
    BY <2>1, <2>2, <2>3
<1>2. EditStands(t)
  BY OfOneEdit
<1>3. CASE t.kind \in Uploads
  <2>1. t.coll = coll /\ t.seen = Cardinality(docs \cup t.docs)
    BY <1>2, <1>3 DEF EditStands, UploadStands
  <2>. QED
    BY <1>1, <1>3, <2>1 DEF CommitRows, NewCount, Uploads
<1>4. CASE t.kind = "delete"
  <2>1. RemovalStands(t) /\ docs' = docs \ t.docs
    BY <1>1, <1>2, <1>4 DEF EditStands, Removals, CommitRows
  <2>2. t.coll = coll /\ t.seen = Cardinality(docs \ t.docs)
    BY <1>4, <2>1 DEF RemovalStands
  <2>. QED
    BY <1>1, <1>4, <2>1, <2>2 DEF CommitRows, NewCount
<1>. QED
  BY <1>3, <1>4 DEF Uploads

LEMMA LibraryInvStep == LibraryInv /\ [LibraryNext]_libraryVars => LibraryInv'
<1>. SUFFICES ASSUME LibraryInv, [LibraryNext]_libraryVars PROVE LibraryInv'
  OBVIOUS
<1>1. CASE UNCHANGED libraryVars
  <2>1. EditsStand'
    BY <1>1 DEF libraryVars, LibraryInv, EditsStand, EditStands, UploadStands, RemovalStands, WideStands
  <2>2. LibraryTypeOK' /\ Numbered' /\ Locked'
    BY <1>1 DEF libraryVars, LibraryInv, LibraryTypeOK, Numbered, Locked
  <2>3. Apart' /\ Alone' /\ KeepsContent' /\ FilesKnown' /\ (coll' = 0 => docs' = {})
    BY <1>1 DEF libraryVars, LibraryInv, Apart, Alone, OpenEdits, KeepsContent, FilesKnown
  <2>. QED
    BY <2>1, <2>2, <2>3 DEF LibraryInv
<1>2. ASSUME NEW r \in Editors,
             \/ \E cs \in SUBSET Contents, kind \in {"upload", "batch"} : UploadDocuments(r, kind, cs)
             \/ \E ds \in SUBSET docs, kind \in {"delete", "batch_delete"} : DeleteDocuments(r, kind, ds)
             \/ \E kind \in {"truncate", "drop"} : EmptyCollection(r, kind)
             \/ CreateCollection(r)
      PROVE  LibraryInv'
  BY <1>2, NewEdits
<1>3. ASSUME NEW r \in Editors, NEW d \in edits[r].docs, PutFile(r, d) \/ PutFileFails(r, d)
      PROVE  LibraryInv'
  BY <1>3, PutFiles, FailedUploads
<1>4. ASSUME NEW r \in Editors, RefuseRows(r)
      PROVE  LibraryInv'
  BY <1>4, FailedUploads
<1>5. ASSUME NEW r \in Editors,
             \/ InsertRows(r) \/ WipeFiles(r) \/ WipeVectors(r) \/ DeleteRows(r) \/ AcquireRow(r)
             \/ CommitRows(r) \/ DropRow(r) \/ CreateRow(r) \/ UndoCreate(r) \/ EditorDies(r)
      PROVE  LibraryInv'
  BY <1>5, Updates, WipedFiles, WipedVectors, Acquisitions, Commits, Drops, Created, Undone, Deaths
<1>6. ASSUME NEW d \in Docs, PutFileLate(d) \/ IngestDocument(d)
      PROVE  LibraryInv'
  BY <1>6, Files
<1>. QED
  <2>1. CASE \E d \in Docs : PutFileLate(d) \/ IngestDocument(d)
    BY <1>6, <2>1
  <2>2. CASE \E r \in Editors : \E d \in edits[r].docs : PutFile(r, d) \/ PutFileFails(r, d)
    BY <1>3, <2>2
  <2>3. CASE LibraryNext /\ ~(\E d \in Docs : PutFileLate(d) \/ IngestDocument(d))
               /\ ~(\E r \in Editors : \E d \in edits[r].docs : PutFile(r, d) \/ PutFileFails(r, d))
    BY <1>2, <1>4, <1>5, <2>3 DEF LibraryNext
  <2>. QED
    BY <1>1, <2>1, <2>2, <2>3

\* A count that did not wait for the row of the collection is exact, documents keep
\* their content, and every file has a document or a cause: whatever requests run at
\* the same time, for any contents and bounds. (See LibraryHolds in Library.)
THEOREM LibraryIsKept == LibrarySpec => LibraryHolds
<1>1. LibraryInv => KeepsContent /\ NoStrayFiles
  <2>. SUFFICES ASSUME LibraryInv, OpenEdits = {}, ~libraryPast.wide, NEW f \in files
                PROVE  f \in docs \cup libraryPast.stray
    BY DEF LibraryInv, NoStrayFiles
  <2>1. \A o \in Editors : edits[o].put = {}
    <3>1. \A o \in Editors : edits[o].pc = "idle" /\ EditStands(edits[o])
      BY DEF LibraryInv, EditsStand, OpenEdits
    <3>. QED
      BY <3>1, IdleIsTyped DEF EditStands
  <2>. QED
    BY <2>1 DEF LibraryInv, FilesKnown
<1>2. LibraryInv /\ [LibraryNext]_libraryVars =>
        [\A r \in Editors :
           /\ edits[r].pc = "commit" /\ edits[r].kind \in {"upload", "batch", "delete"}
           /\ ~edits[r].waited
           /\ docs' # docs
           => count' = Cardinality(docs')]_libraryVars
  BY Recounted
<1>. QED
  BY <1>1, <1>2, LibraryInvInit, LibraryInvStep, PTL DEF LibrarySpec, LibraryHolds, RecountHeals
=============================================================================

--------------------- MODULE IngestionUndisturbedProofs ----------------------
(***************************************************************************)
(* Proofs about Ingestion as long as no worker dies and nothing is         *)
(* recovered, with every other fault: the in-flight counter is exact, a    *)
(* document has one job at a time, and what that job knows of the document *)
(* makes a ready one searchable, a settled one final and the end of the    *)
(* work clean.                                                             *)
(***************************************************************************)
EXTENDS IngestionProofs

(* No worker died and nothing was recovered: the message that a crash      *)
(* brings back, and the copy that a recoverer sends, release what they     *)
(* were not admitted for.                                                  *)
Undisturbed == left.crash = MaxCrashes /\ left.recover = MaxRecoveries

Holders == {m \in Deliveries : HoldsSlot(m)}

Sending == {d \in Docs : sub[d].at = "send"}

Held == Cardinality(Holders) + Cardinality(Sending)

(* The bounds are spent and never refilled.                                *)
LeftBounded ==
  left.crash <= MaxCrashes /\ left.recover <= MaxRecoveries /\ left.loss <= MaxLosses

Counted ==
  /\ \A r \in Recoverers : rec[r].at = "idle"
  /\ slots >= Held
  /\ NothingLost => slots = Held

SlotsInv == Typed /\ Uploaded /\ LeftBounded /\ (Undisturbed => Counted)

-----------------------------------------------------------------------------

LEMMA HoldersFinite ==
  /\ IsFiniteSet(Holders) /\ IsFiniteSet(Sending)
  /\ Cardinality(Holders) \in Nat /\ Cardinality(Sending) \in Nat
<1>1. Holders \subseteq Deliveries /\ Sending \subseteq Docs
  BY DEF Holders, Sending
<1>. QED
  BY <1>1, FS_Subset, FS_CardinalityType, IngestionAssumption

(* A holder more, a holder less.                                           *)
LEMMA OneMore ==
  ASSUME NEW S, IsFiniteSet(S), NEW x, x \notin S
  PROVE  Cardinality(S \cup {x}) = Cardinality(S) + 1
BY FS_AddElement

LEMMA OneLess ==
  ASSUME NEW S, IsFiniteSet(S), NEW x \in S
  PROVE  /\ Cardinality(S) >= 1 /\ Cardinality(S \ {x}) = Cardinality(S) - 1
<1>1. Cardinality(S) \in Nat /\ Cardinality(S) # 0
  BY FS_CardinalityType, FS_EmptySet
<1>. QED
  BY <1>1, FS_RemoveElement

(* Bounds that are spent stay so: an undisturbed state has an undisturbed  *)
(* past, and one in which nothing was lost.                                *)
LEMMA BoundsStep ==
  ASSUME Typed, LeftBounded, [Next]_vars
  PROVE  LeftBounded' /\ (Undisturbed' => Undisturbed) /\ (NothingLost' => NothingLost)
<1>1. left \in [{"crash", "loss", "recover", "lapse", "maint", "truncate", "fault"} -> Nat]
      /\ left' \in [{"crash", "loss", "recover", "lapse", "maint", "truncate", "fault"} -> Nat]
  BY LeftStep DEF Typed, LeftOK
<1>2. \A what \in {"crash", "loss", "recover"} :
        left[what] \in Nat /\ left'[what] \in Nat /\ left'[what] <= left[what]
  BY <1>1, LeftStep
<1>3. MaxCrashes \in Nat /\ MaxLosses \in Nat /\ MaxRecoveries \in Nat
  BY IngestionAssumption
<1>. QED
  BY <1>2, <1>3 DEF LeftBounded, Undisturbed, NothingLost

(* Spending from a bound leaves less than there was at first.              *)
LEMMA SpentLess ==
  ASSUME Typed, LeftBounded
  PROVE  /\ Spend("crash") => ~Undisturbed'
         /\ Spend("recover") => ~Undisturbed'
         /\ Lose => ~NothingLost'
<1>1. \A what \in {"crash", "loss", "recover"} :
        left[what] \in Nat /\ (Spend(what) => left'[what] = left[what] - 1)
  BY DEF Typed, LeftOK, Spend
<1>2. MaxCrashes \in Nat /\ MaxLosses \in Nat /\ MaxRecoveries \in Nat
  BY IngestionAssumption
<1>. QED
  BY <1>1, <1>2 DEF LeftBounded, Undisturbed, NothingLost, Lose

-----------------------------------------------------------------------------
(* What the steps of a worker do to the counter and to its own claim.      *)

Kept(m) == slots' = slots /\ HoldsSlot(m)' = HoldsSlot(m)

Taken(m) == AdmitSlot /\ ~HoldsSlot(m) /\ HoldsSlot(m)'

Returned(m) == ReleaseSlot /\ HoldsSlot(m) /\ ~HoldsSlot(m)'

Dropped(m) == slots' = slots /\ (HoldsSlot(m)' => HoldsSlot(m)) /\ Lose

LEMMA WorkerSlots ==
  ASSUME Typed, NEW m \in Deliveries, WorkerStep(m) \/ WorkerFault(m), ~RetrySend(m)
  PROVE  Kept(m) \/ Taken(m) \/ Returned(m) \/ Dropped(m)
<1>. DEFINE Goal == Kept(m) \/ Taken(m) \/ Returned(m) \/ Dropped(m)
<1>1. /\ msg \in [Deliveries -> Messages] /\ msg[m] \in Messages
      /\ Job(m) \in Jobs /\ msg[m].at # "free"
  BY WorkerBusy DEF Typed
<1>2. ASSUME NEW at, Goto(m, at)
      PROVE  msg'[m].at = at /\ msg'[m].job = msg[m].job /\ msg'[m].why = msg[m].why
  BY <1>1, <1>2 DEF Goto, Messages
<1>3. ASSUME NEW why \in {"cancelled", "transient", "permanent"}, Raise(m, why)
      PROVE  msg'[m].at = "finvectors" /\ msg'[m].job = msg[m].job
  BY <1>1, <1>3 DEF Raise, Messages
<1>. USE DEF HoldsSlot, Job, Running, Leased
<1>4. CASE Defer(m) \/ Receive(m) \/ SetLease(m)
  BY <1>1, <1>2, <1>4 DEF Defer, Receive, SetLease, Kept, Taken, Returned, Jobs
<1>5. CASE DeferSend(m)
  BY <1>1, <1>5 DEF DeferSend, Kept, Messages, Jobs
<1>6. CASE CheckBegin(m) \/ Check(m) \/ Recheck(m) \/ Purge(m)
  BY <1>2, <1>3, <1>6 DEF CheckBegin, Check, Recheck, Purge, Kept
<1>7. CASE Mark(m) \/ Insert(m) \/ Commit(m) \/ OkFile(m)
  BY <1>2, <1>7 DEF Mark, Insert, Commit, OkFile, Kept
<1>8. CASE Stage(m)
  <2>1. CASE Raise(m, "transient")
    BY <1>3, <1>8, <2>1 DEF Stage, Kept
  <2>2. CASE msg' = [msg EXCEPT ![m].at = "check", ![m].got = doc[Doc(m)].file]
    <3>1. msg'[m].at = "check"
      BY <1>1, <2>2 DEF Messages
    <3>. QED
      BY <1>8, <3>1 DEF Stage, Kept
  <2>. QED
    BY <1>8, <2>1, <2>2 DEF Stage
<1>9. CASE \E why \in {"transient", "permanent"} : Fail(m, why) \/ FailInsert(m, why)
  BY <1>3, <1>9 DEF Fail, FailInsert, Kept
<1>10. CASE FailFinalize(m)
  BY <1>3, <1>10 DEF FailFinalize, Kept
<1>11. CASE OkRelease(m) \/ FinRelease(m) \/ RetryRelease(m) \/ RetrySendFails(m)
  BY <1>2, <1>11 DEF OkRelease, FinRelease, RetryRelease, RetrySendFails, Returned
<1>12. CASE FinVectors(m)
  BY <1>1, <1>2, <1>12 DEF FinVectors, Kept, Messages
<1>13. CASE FinStatus(m) \/ FinFile(m) \/ RetryStatus(m)
  BY <1>2, <1>13 DEF FinStatus, FinFile, RetryStatus, Kept
<1>14. CASE RetryAdmit(m)
  <2>1. CASE AdmitSlot /\ Goto(m, "retrysend")
    BY <1>2, <1>14, <2>1 DEF RetryAdmit, Taken
  <2>2. CASE msg' = [msg EXCEPT ![m].at = "finstatus", ![m].why = "rejected"]
             /\ UNCHANGED slots
    <3>1. msg'[m].at = "finstatus" /\ msg'[m].why = "rejected"
      BY <1>1, <2>2 DEF Messages
    <3>. QED
      BY <1>14, <2>2, <3>1 DEF RetryAdmit, Kept
  <2>. QED
    BY <1>14, <2>1, <2>2 DEF RetryAdmit
<1>15. CASE Unlease(m)
  <2>1. msg'[m].at = "free"
    BY <1>1, <1>15, FreeMessageOK DEF Unlease
  <2>. QED
    BY <1>15, <2>1 DEF Unlease, Kept
<1>16. CASE Abort(m)
  BY <1>2, <1>16 DEF Abort, Dropped
<1>. QED
  BY <1>4, <1>5, <1>6, <1>7, <1>8, <1>9, <1>10, <1>11, <1>12, <1>13, <1>14, <1>15, <1>16
     DEF WorkerStep, WorkerFault

-----------------------------------------------------------------------------
(* The books: how the number of holders follows the counter.               *)

(* Nobody but m changes what it holds.                                     *)
Only(m) == \A n \in Deliveries \ {m} : HoldsSlot(n)' = HoldsSlot(n)

LEMMA Balance ==
  ASSUME Typed, slots >= Held, NothingLost => slots = Held, NothingLost' => NothingLost,
         NEW m \in Deliveries, Only(m), UNCHANGED sub,
         Kept(m) \/ Taken(m) \/ Returned(m) \/ (Dropped(m) /\ ~NothingLost')
  PROVE  slots' >= Held' /\ (NothingLost' => slots' = Held')
<1>1. /\ IsFiniteSet(Holders) /\ Cardinality(Holders) \in Nat
      /\ Cardinality(Sending) \in Nat /\ slots \in Nat
  BY HoldersFinite DEF Typed
<1>2. Sending' = Sending
  BY DEF Sending
<1>3. CASE HoldsSlot(m)' = HoldsSlot(m)
  <2>1. Holders' = Holders
    BY <1>3 DEF Holders, Only
  <2>2. Held' = Held
    BY <1>2, <2>1 DEF Held
  <2>. QED
    BY <1>1, <1>3, <2>2 DEF Kept, Taken, Returned, Dropped
<1>4. CASE ~HoldsSlot(m) /\ HoldsSlot(m)'
  <2>1. Holders' = Holders \cup {m} /\ m \notin Holders
    BY <1>4 DEF Holders, Only
  <2>2. Held' = Held + 1
    BY <1>1, <1>2, <2>1, OneMore DEF Held
  <2>3. slots' = slots + 1
    BY <1>4 DEF Kept, Taken, Returned, Dropped, AdmitSlot
  <2>. QED
    BY <1>1, <2>2, <2>3 DEF Held
<1>5. CASE HoldsSlot(m) /\ ~HoldsSlot(m)'
  <2>1. Holders' = Holders \ {m} /\ m \in Holders
    BY <1>5 DEF Holders, Only
  <2>2. Held' = Held - 1 /\ Held >= 1
    BY <1>1, <1>2, <2>1, OneLess DEF Held
  <2>3. ReleaseSlot \/ (slots' = slots /\ ~NothingLost')
    BY <1>5 DEF Kept, Taken, Returned, Dropped
  <2>4. Held \in Nat
    BY <1>1 DEF Held
  <2>. QED
    BY <1>1, <2>2, <2>3, <2>4 DEF ReleaseSlot
<1>. QED
  BY <1>3, <1>4, <1>5 DEF HoldsSlot

(* A retry is sent: the claim goes from the worker to the message.         *)
LEMMA HandedOn ==
  ASSUME Typed, NEW m \in Deliveries, RetrySend(m)
  PROVE  Held' = Held
<1>1. /\ msg \in [Deliveries -> Messages] /\ msg[m].at = "retrysend"
      /\ AnyFree \in Deliveries /\ msg[AnyFree].at = "free"
      /\ Job(m) \in Jobs
  BY FreeOne, WorkerBusy DEF RetrySend, Typed, MsgsOK, WorkerStep
<1>. DEFINE f == AnyFree
            s == Message("queued", NextTry(Job(m)))
<1>2. /\ m # f /\ msg'[m].at = "retrystatus" /\ msg'[f] = s
      /\ \A n \in Deliveries \ {m, f} : msg'[n] = msg[n]
  BY <1>1 DEF RetrySend, NextTry, Messages
<1>3. s.at = "queued" /\ ~s.job.released
  <2>1. ~NextTry(Job(m)).released
    BY <1>1 DEF NextTry, Jobs
  <2>. QED
    BY <2>1 DEF Message
<1>. HIDE DEF f, s
<1>4. f \in Deliveries /\ msg[f].at = "free"
  BY <1>1 DEF f
<1>5. /\ Holders' = (Holders \ {m}) \cup {f}
      /\ m \in Holders /\ f \notin Holders \ {m}
  BY <1>1, <1>2, <1>3, <1>4 DEF Holders, HoldsSlot, Job, Running, Leased
<1>6. /\ IsFiniteSet(Holders) /\ IsFiniteSet(Holders \ {m}) /\ Cardinality(Holders) \in Nat
  BY HoldersFinite, FS_RemoveElement
<1>7. Cardinality(Holders \ {m}) = Cardinality(Holders) - 1
  BY <1>5, <1>6, OneLess
<1>9. Cardinality((Holders \ {m}) \cup {f}) = Cardinality(Holders \ {m}) + 1
  BY <1>5, <1>6, OneMore
<1>10. Cardinality(Holders') = Cardinality(Holders)
  BY <1>5, <1>6, <1>7, <1>9
<1>8. Sending' = Sending
  BY DEF RetrySend, Sending, api
<1>. QED
  BY <1>10, <1>8 DEF Held

(* A submission is sent: the claim goes from the request to the message.   *)
LEMMA Submitted ==
  ASSUME Typed, NEW d \in Docs, EnqueueSend(d)
  PROVE  Held' = Held
<1>1. /\ msg \in [Deliveries -> Messages] /\ sub \in [Docs -> AllSubmissions]
      /\ AnyFree \in Deliveries /\ msg[AnyFree].at = "free"
      /\ sub[d].at = "send" /\ ~sub[d].job.released
  BY FreeOne DEF EnqueueSend, Typed, MsgsOK, SubsOK, Submissions
<1>. DEFINE f == AnyFree
            s == Message("queued", sub[d].job)
<1>2. msg'[f] = s /\ \A n \in Deliveries \ {f} : msg'[n] = msg[n]
  BY <1>1 DEF EnqueueSend
<1>3. s.at = "queued" /\ ~s.job.released
  BY <1>1 DEF Message
<1>. HIDE DEF f, s
<1>4. f \in Deliveries /\ msg[f].at = "free"
  BY <1>1 DEF f
<1>5. Holders' = Holders \cup {f} /\ f \notin Holders
  BY <1>2, <1>3, <1>4 DEF Holders, HoldsSlot, Job, Running, Leased
<1>6. Sending' = Sending \ {d} /\ d \in Sending
  BY <1>1 DEF EnqueueSend, Sending
<1>7. Cardinality(Holders') = Cardinality(Holders) + 1
  BY <1>5, HoldersFinite, OneMore
<1>8. Cardinality(Sending') = Cardinality(Sending) - 1
  BY <1>6, HoldersFinite, OneLess
<1>. QED
  BY <1>7, <1>8, HoldersFinite DEF Held

(* A request admits its document, or gives its slot back.                  *)
LEMMA RequestSlots ==
  ASSUME Typed, slots >= Held, NothingLost => slots = Held, NothingLost' => NothingLost,
         NEW d \in Docs, UNCHANGED msg, \A e \in Docs \ {d} : sub'[e] = sub[e],
         \/ UNCHANGED slots /\ (sub'[d].at = "send" <=> sub[d].at = "send")
         \/ AdmitSlot /\ sub[d].at # "send" /\ sub'[d].at = "send"
         \/ ReleaseSlot /\ sub[d].at = "send" /\ sub'[d].at # "send"
  PROVE  slots' >= Held' /\ (NothingLost' => slots' = Held')
<1>1. /\ IsFiniteSet(Sending) /\ Cardinality(Holders) \in Nat
      /\ Cardinality(Sending) \in Nat /\ slots \in Nat
  BY HoldersFinite DEF Typed
<1>2. Holders' = Holders
  BY DEF Holders, HoldsSlot, Job
<1>3. CASE UNCHANGED slots /\ (sub'[d].at = "send" <=> sub[d].at = "send")
  <2>1. Sending' = Sending
    BY <1>3 DEF Sending
  <2>. QED
    BY <1>2, <1>3, <2>1 DEF Held
<1>4. CASE AdmitSlot /\ sub[d].at # "send" /\ sub'[d].at = "send"
  <2>1. Sending' = Sending \cup {d} /\ d \notin Sending
    BY <1>4 DEF Sending
  <2>2. Held' = Held + 1
    BY <1>1, <1>2, <2>1, OneMore DEF Held
  <2>3. Held \in Nat
    BY <1>1 DEF Held
  <2>. QED
    BY <1>1, <1>4, <2>2, <2>3 DEF AdmitSlot
<1>5. CASE ReleaseSlot /\ sub[d].at = "send" /\ sub'[d].at # "send"
  <2>1. Sending' = Sending \ {d} /\ d \in Sending
    BY <1>5 DEF Sending
  <2>2. Held' = Held - 1 /\ Held >= 1
    BY <1>1, <1>2, <2>1, OneLess DEF Held
  <2>3. Held \in Nat
    BY <1>1 DEF Held
  <2>. QED
    BY <1>1, <1>5, <2>2, <2>3 DEF ReleaseSlot
<1>. QED
  BY <1>3, <1>4, <1>5

-----------------------------------------------------------------------------

LEMMA CountedStep ==
  ASSUME Typed, Uploaded, LeftBounded, Counted, [Next]_vars, Undisturbed', NothingLost' => NothingLost
  PROVE  Counted'
<1>. DEFINE Books == slots' >= Held' /\ (NothingLost' => slots' = Held')
            Idle  == \A r \in Recoverers : rec'[r].at = "idle"
<1>1. /\ MsgsOK /\ DocsOK /\ SubsOK /\ BagsOK
      /\ msg \in [Deliveries -> Messages] /\ sub \in [Docs -> AllSubmissions]
      /\ slots >= Held /\ (NothingLost => slots = Held)
      /\ \A r \in Recoverers : rec[r].at = "idle"
  BY DEF Typed, MsgsOK, SubsOK, Counted
<1>2. CASE UNCHANGED <<slots, msg, sub, rec>>
  <2>1. Held' = Held /\ Idle
    BY <1>1, <1>2 DEF Held, Holders, Sending, HoldsSlot, Job
  <2>. QED
    BY <1>1, <1>2, <2>1 DEF Counted
<1>3. ASSUME NEW m \in Deliveries, WorkerStep(m) \/ WorkerFault(m) \/ Crash(m) PROVE Counted'
  <2>1. ~Crash(m)
    BY SpentLess DEF Crash
  <2>2. UNCHANGED <<rec, sub>>
    BY <1>3, <2>1 DEF WorkerStep, WorkerFault, Defer, DeferSend, Receive, SetLease,
       CheckBegin, Mark, Stage, Check, Insert, Recheck, Purge, Commit,
       OkFile, OkRelease, FinVectors, FinStatus, FinFile, FinRelease,
       RetryRelease, RetryAdmit, RetrySend, RetryStatus, Unlease,
       Fail, FailInsert, FailFinalize, RetrySendFails, Abort, api
  <2>3. CASE RetrySend(m)
    <3>1. Held' = Held /\ UNCHANGED slots
      BY <2>3, HandedOn DEF RetrySend
    <3>. QED
      BY <1>1, <2>2, <3>1 DEF Counted
  <2>4. CASE ~RetrySend(m)
    <3>1. Only(m)
      <4>1. Moves(m)
        BY <1>1, <1>3, <2>4, WorkerMsg DEF Resends
      <4>2. \A n \in Deliveries \ {m} : msg'[n] = msg[n]
        BY <1>1, <4>1 DEF Moves
      <4>. QED
        BY <4>2 DEF Only, HoldsSlot, Job
    <3>2. Kept(m) \/ Taken(m) \/ Returned(m) \/ (Dropped(m) /\ ~NothingLost')
      BY <1>3, <2>1, <2>4, WorkerSlots, SpentLess DEF Dropped
    <3>3. Books
      BY <1>1, <2>2, <3>1, <3>2, Balance
    <3>. QED
      BY <1>1, <2>2, <3>3 DEF Counted
  <2>. QED
    BY <2>3, <2>4
<1>4. ASSUME NEW d \in Docs, EnqueueSend(d) PROVE Counted'
  <2>1. Held' = Held /\ UNCHANGED <<slots, rec>>
    BY <1>4, Submitted DEF EnqueueSend
  <2>. QED
    BY <1>1, <2>1 DEF Counted
<1>5. ASSUME NEW d \in Docs, UNCHANGED <<msg, rec>>, \A e \in Docs \ {d} : sub'[e] = sub[e],
             \/ UNCHANGED slots /\ (sub'[d].at = "send" <=> sub[d].at = "send")
             \/ AdmitSlot /\ sub[d].at # "send" /\ sub'[d].at = "send"
             \/ ReleaseSlot /\ sub[d].at = "send" /\ sub'[d].at # "send"
      PROVE Counted'
  BY <1>1, <1>5, RequestSlots DEF Counted
<1>6. ASSUME NEW d \in Docs, Upload(d) \/ ResyncStart(d) PROVE Counted'
  <2>1. sub[d].at # "send"
    BY <1>6 DEF Upload, ResyncStart, Uploaded
  <2>. QED
    BY <1>1, <1>5, <1>6, <2>1 DEF Upload, ResyncStart, Submit, AllSubmissions
<1>7. ASSUME NEW d \in Docs, ResyncVectors(d) \/ ResyncPut(d) \/ ResyncRow(d)
                             \/ ResyncAborts(d) \/ EnqueueRead(d) \/ Refused(d)
      PROVE Counted'
  BY <1>1, <1>5, <1>7 DEF ResyncVectors, ResyncPut, ResyncRow, ResyncAborts, EnqueueRead,
     Refused, Submit, AllSubmissions
<1>8. ASSUME NEW d \in Docs, EnqueueAdmit(d) \/ EnqueueSendFails(d) PROVE Counted'
  BY <1>1, <1>5, <1>8 DEF EnqueueAdmit, EnqueueSendFails, Submit, AllSubmissions
<1>9. ASSUME \/ \E e \in Docs : DeleteStart(e) \/ DeleteStep(e) \/ DeleteAborts(e)
             \/ TruncateStart \/ TruncateStep \/ MaintenanceOn \/ MaintenanceOff
             \/ \E m \in Deliveries : Renew(m)
             \/ \E id \in leases : LeaseExpires(id)
             \/ UNCHANGED vars
      PROVE UNCHANGED <<slots, msg, sub, rec>>
  BY <1>9 DEF DeleteStart, DeleteStep, DeleteFile, DeleteVectors, DeleteRow, DeleteAborts,
     TruncateStart, TruncateStep, TruncateFiles, TruncateVectors, TruncateRows,
     MaintenanceOn, MaintenanceOff, Renew, LeaseExpires, vars, api
<1>10. ASSUME NEW r \in Recoverers, RecoverList(r) \/ RecoverStep(r) \/ RecoverCrash(r)
       PROVE FALSE
  <2>1. rec[r].at = "idle"
    BY <1>1
  <2>2. ~RecoverList(r)
    BY SpentLess DEF RecoverList
  <2>. QED
    BY <1>10, <2>1, <2>2 DEF RecoverStep, RecoverTake, RecoverMark, RecoverSend, RecoverCrash
<1>. QED
  BY <1>2, <1>3, <1>4, <1>6, <1>7, <1>8, <1>9, <1>10
     DEF Next, ApiChoice, SubmitStep, DeleteStep, Quiet

LEMMA InitSlots == Init => SlotsInv
<1>. SUFFICES ASSUME Init PROVE SlotsInv
  OBVIOUS
<1>1. LeftBounded
  BY IngestionAssumption DEF Init, LeftBounded
<1>2. Holders = {} /\ Sending = {} /\ slots = 0
  BY FreeMessageOK DEF Init, Holders, Sending, HoldsSlot, Running, Leased
<1>3. Held = 0
  BY <1>2, FS_EmptySet DEF Held
<1>4. \A r \in Recoverers : rec[r].at = "idle"
  BY DEF Init
<1>5. Uploaded
  BY DEF Init, Uploaded
<1>. QED
  BY <1>1, <1>2, <1>3, <1>4, <1>5, InitTyped DEF SlotsInv, Counted

LEMMA SlotsStep == SlotsInv /\ [Next]_vars => SlotsInv'
BY TypedStep, UploadedStep, BoundsStep, CountedStep DEF SlotsInv

LEMMA SlotsInvariant == Spec => []SlotsInv
BY InitSlots, SlotsStep, PTL DEF Spec

(* admit_inflight, release_inflight and everything between them: as long   *)
(* as no worker died and nothing was recovered, the counter covers every   *)
(* job that holds a slot, and equals their number unless a failure lost a  *)
(* job.  No other fault, order of steps or size of the system breaks it.   *)
THEOREM SlotsAreExact == Spec => [](Undisturbed => SlotsExact)
<1>1. SlotsInv => (Undisturbed => SlotsExact)
  BY DEF SlotsInv, Counted, Held, Holders, Sending, SlotsExact
<1>. QED
  BY <1>1, SlotsInvariant, PTL

-----------------------------------------------------------------------------
(* One job a document, and what that job means for the document: proved    *)
(* for documents that are uploaded once, while nothing crashes and nothing *)
(* is recovered.                                                           *)

(* A delivery that may still write its document's row or vectors; the last *)
(* write of a retry comes while the next attempt is still waiting.         *)
Busy(m) == msg[m].at \notin {"free", "retrystatus", "unlease"}

Before == {"queued", "deferring", "lease", "begin", "mark"}

Within == {"stage", "check", "insert", "recheck", "purge", "commit"}

Failing == {"finvectors", "finstatus", "retryrelease", "retryadmit", "retrysend"}

OneJob ==
  \A m \in Deliveries : Busy(m) =>
    /\ sub[Doc(m)].at = "idle"
    /\ \A n \in Deliveries : Busy(n) /\ Doc(n) = Doc(m) => n = m

(* What a job knows of its document, unless that is gone.                  *)
Knows(m) ==
  LET d == Doc(m)
      status == doc[d].status
      at == msg[m].at
  IN  /\ at \in Before \cup Failing => status \in {"pending", "processing", "gone"}
      /\ at \in Within => status \in {"processing", "gone"}
      /\ at \in {"okfile", "okrelease"} => status \in {"ready", "gone"}
      /\ at \in {"finfile", "finrelease"} => status \in {"failed", "gone"}
      /\ at \in Within \ {"stage"} => msg[m].got = 1
      /\ at \in {"recheck", "commit"} => doc[d].vectors = 1 \/ Swept(d)

Searchable(d) == doc[d].status = "ready" => doc[d].vectors = 1 \/ Swept(d)

(* A document's only content is the first, and it has no vectors until it  *)
(* was submitted.                                                          *)
Fresh(d) ==
  /\ sub[d].at \in Submitting \cup {"idle"}
  /\ sub[d].at \in Submitting => doc[d].status \in {"pending", "gone"} /\ doc[d].vectors = 0
  /\ Exists(d) => doc[d].content = 1

JobsKnow == \A m \in Deliveries : Knows(m)

DocsServed == \A d \in Docs : Fresh(d) /\ Searchable(d)

-----------------------------------------------------------------------------

LEMMA BusyKnows ==
  ASSUME Typed, NEW m \in Deliveries, Busy(m), Knows(m)
  PROVE  Job(m) \in Jobs /\ Doc(m) \in Docs /\ doc[Doc(m)].status # "none"
<1>1. msg[m] \in Messages
  BY DEF Typed, MsgsOK
<1>2. msg[m].at \in Before \cup Within \cup Failing
                    \cup {"okfile", "okrelease", "finfile", "finrelease"}
  BY <1>1 DEF Busy, Messages, Running, Leased, Before, Within, Failing
<1>3. Job(m) \in Jobs /\ Doc(m) \in Docs
  BY <1>1 DEF Busy, Messages, Job, Doc, Jobs
<1>. QED
  BY <1>2, <1>3 DEF Knows

(* The steps of a system in which nothing crashes, is recovered or is      *)
(* submitted again.                                                        *)
LEMMA CalmKinds ==
  ASSUME SlotsInv, Undisturbed, Undisturbed', DocsServed, MaxContent = 1, [Next]_vars
  PROVE  \/ \E m \in Deliveries : WorkerStep(m) \/ WorkerFault(m)
         \/ \E d \in Docs : \/ Upload(d) \/ EnqueueRead(d) \/ EnqueueAdmit(d) \/ EnqueueSend(d)
                            \/ EnqueueSendFails(d) \/ Refused(d)
                            \/ DeleteStart(d) \/ DeleteStep(d) \/ DeleteAborts(d)
         \/ TruncateStart \/ TruncateStep
         \/ UNCHANGED <<doc, msg, sub, del, tr>>
<1>1. ASSUME NEW m \in Deliveries PROVE ~Crash(m)
  BY SpentLess DEF SlotsInv, Crash
<1>2. ASSUME NEW r \in Recoverers PROVE ~(RecoverList(r) \/ RecoverStep(r) \/ RecoverCrash(r))
  <2>1. rec[r].at = "idle"
    BY DEF SlotsInv, Counted
  <2>2. ~RecoverList(r)
    BY SpentLess DEF SlotsInv, RecoverList
  <2>. QED
    BY <2>1, <2>2 DEF RecoverStep, RecoverTake, RecoverMark, RecoverSend, RecoverCrash
<1>3. ASSUME NEW d \in Docs
      PROVE ~(ResyncStart(d) \/ ResyncVectors(d) \/ ResyncPut(d) \/ ResyncRow(d) \/ ResyncAborts(d))
  <2>1. Fresh(d)
    BY DEF DocsServed
  <2>. QED
    BY <2>1 DEF Fresh, Submitting, ResyncStart, ResyncVectors, ResyncPut, ResyncRow, ResyncAborts
<1>4. ASSUME \/ MaintenanceOn \/ MaintenanceOff \/ UNCHANGED vars
             \/ \E m \in Deliveries : Renew(m)
             \/ \E id \in leases : LeaseExpires(id)
      PROVE UNCHANGED <<doc, msg, sub, del, tr>>
  BY <1>4 DEF MaintenanceOn, MaintenanceOff, vars, Renew, LeaseExpires, api
<1>. QED
  BY <1>1, <1>2, <1>3, <1>4 DEF Next, ApiChoice, SubmitStep, Quiet

(* A worker leaves the requests and the other deliveries' documents alone. *)
LEMMA WorkerAlone ==
  ASSUME Typed, NEW m \in Deliveries, WorkerStep(m) \/ WorkerFault(m)
  PROVE  /\ UNCHANGED <<sub, del, tr>>
         /\ Doc(m) \in Docs /\ \A d \in Docs \ {Doc(m)} : doc'[d] = doc[d]
<1>1. MsgsOK /\ DocsOK /\ doc \in [Docs -> Documents]
  BY DEF Typed, DocsOK
<1>2. UNCHANGED <<sub, del, tr>>
  BY DEF WorkerStep, WorkerFault, Defer, DeferSend, Receive, SetLease,
     CheckBegin, Mark, Stage, Check, Insert, Recheck, Purge, Commit,
     OkFile, OkRelease, FinVectors, FinStatus, FinFile, FinRelease,
     RetryRelease, RetryAdmit, RetrySend, RetryStatus, Unlease,
     Fail, FailInsert, FailFinalize, RetrySendFails, Abort, api
<1>. QED
  BY <1>1, <1>2, WorkerDoc

(* The row of a deleted document does not come back.                       *)
LEMMA StaysGone ==
  ASSUME Typed, NEW m \in Deliveries, WorkerStep(m) \/ WorkerFault(m),
         NEW d \in Docs, doc[d].status \in {"none", "gone"}
  PROVE  doc'[d].status = doc[d].status
<1>1. doc \in [Docs -> Documents] /\ MsgsOK /\ DocsOK /\ Doc(m) \in Docs
  BY WorkerAlone DEF Typed, DocsOK
<1>2. CASE Mark(m) \/ Commit(m) \/ FinStatus(m) \/ RetryStatus(m)
  BY <1>1, <1>2 DEF Mark, Commit, FinStatus, RetryStatus, SetStatus, Exists, Statuses, Documents
<1>3. CASE Purge(m) \/ FinVectors(m) \/ OkFile(m) \/ FinFile(m) \/ Insert(m)
           \/ \E why \in {"transient", "permanent"} : FailInsert(m, why)
  BY <1>1, <1>3 DEF Purge, FinVectors, OkFile, FinFile, Insert, FailInsert, DropVectors,
     ClearFile, Documents
<1>4. CASE ~(Mark(m) \/ Commit(m) \/ FinStatus(m) \/ RetryStatus(m) \/ Purge(m)
             \/ FinVectors(m) \/ OkFile(m) \/ FinFile(m) \/ Insert(m)
             \/ \E why \in {"transient", "permanent"} : FailInsert(m, why))
  BY <1>4 DEF WorkerStep, WorkerFault, Defer, DeferSend, Receive, SetLease, CheckBegin, Stage,
     Check, Recheck, OkRelease, FinRelease, RetryRelease, RetryAdmit, RetrySend, Unlease, Fail,
     FailFinalize, RetrySendFails, Abort
<1>. QED
  BY <1>2, <1>3, <1>4

(* What a step of a worker leaves its document and its next step.          *)
LEMMA WorkerKnows ==
  ASSUME Typed, MaxContent = 1, "finalize" \notin Faults,
         NEW m \in Deliveries, WorkerStep(m) \/ WorkerFault(m),
         NEW d \in Docs, Doc(m) = d, Busy(m), Knows(m), Searchable(d)
  PROVE  Knows(m)' /\ Searchable(d)' /\ Doc(m)' = d /\ doc'[d].status # "none"
<1>. DEFINE at == msg[m].at
            st == doc[d].status
            nx == msg'[m].at
            Goal == /\ doc'[d].status # "none"
                    /\ nx \in Before \cup Failing => doc'[d].status \in {"pending", "processing", "gone"}
                    /\ nx \in Within => doc'[d].status \in {"processing", "gone"}
                    /\ nx \in {"okfile", "okrelease"} => doc'[d].status \in {"ready", "gone"}
                    /\ nx \in {"finfile", "finrelease"} => doc'[d].status \in {"failed", "gone"}
                    /\ nx \in Within \ {"stage"} => msg'[m].got = 1
                    /\ nx \in {"recheck", "commit"} => doc'[d].vectors = 1 \/ Swept(d)
                    /\ doc'[d].status = "ready" => doc'[d].vectors = 1 \/ Swept(d)
<1>1. /\ msg \in [Deliveries -> Messages] /\ msg[m] \in Messages
      /\ doc \in [Docs -> Documents] /\ d \in Docs /\ doc[d] \in Documents
      /\ st # "none" /\ st \in Statuses \cup {"gone"}
  BY BusyKnows DEF Typed, MsgsOK, DocsOK, Documents
<1>2. /\ UNCHANGED <<del, tr>> /\ (Swept(d) => Swept(d)')
  <2>1. doc[d].status = "gone" => doc'[d].status = "gone"
    BY <1>1, StaysGone
  <2>. QED
    BY <2>1, WorkerAlone DEF Swept
<1>3. ASSUME Goal, msg'[m].job.doc = d
      PROVE  Knows(m)' /\ Searchable(d)' /\ Doc(m)' = d /\ doc'[d].status # "none"
  <2>1. Doc(m)' = d
    BY <1>3 DEF Doc, Job
  <2>. QED
    BY <1>2, <1>3, <2>1 DEF Knows, Searchable
<1>4. ASSUME NEW x, Goto(m, x) PROVE nx = x /\ msg'[m].got = msg[m].got /\ msg'[m].job.doc = d
  BY <1>1, <1>4 DEF Goto, Messages, Doc, Job
<1>5. ASSUME NEW why, Raise(m, why) PROVE nx = "finvectors" /\ msg'[m].job.doc = d
  BY <1>1, <1>5 DEF Raise, Messages, Doc, Job
<1>. HIDE DEF Goal
<1>6. /\ at \in Before \cup Failing => st \in {"pending", "processing", "gone"}
      /\ at \in Within => st \in {"processing", "gone"}
      /\ at \in {"okfile", "okrelease"} => st \in {"ready", "gone"}
      /\ at \in {"finfile", "finrelease"} => st \in {"failed", "gone"}
      /\ at \in Within \ {"stage"} => msg[m].got = 1
      /\ at \in {"recheck", "commit"} => doc[d].vectors = 1 \/ Swept(d)
      /\ st = "ready" => doc[d].vectors = 1 \/ Swept(d)
  BY DEF Knows, Searchable
<1>. USE DEF Before, Within, Failing, Goal
<1>7. CASE Defer(m) \/ Receive(m) \/ SetLease(m)
  BY <1>1, <1>3, <1>4, <1>6, <1>7 DEF Defer, Receive, SetLease
<1>8. CASE DeferSend(m)
  <2>1. nx = "queued" /\ msg'[m].job.doc = d
    BY <1>1, <1>8 DEF DeferSend, Messages, Doc, Job, Jobs
  <2>. QED
    BY <1>1, <1>3, <1>6, <1>8, <2>1 DEF DeferSend
<1>9. CASE CheckBegin(m)
  BY <1>1, <1>3, <1>4, <1>5, <1>6, <1>9 DEF CheckBegin
<1>10. CASE Mark(m)
  <2>1. doc'[d].status \in {"processing", "gone"}
    BY <1>1, <1>6, <1>10 DEF Mark, SetStatus, Exists, Statuses, Documents
  <2>2. nx = "stage" /\ msg'[m].job.doc = d
    BY <1>4, <1>10 DEF Mark
  <2>. QED
    BY <1>3, <2>1, <2>2
<1>11. CASE Stage(m)
  <2>1. CASE Raise(m, "transient")
    BY <1>1, <1>3, <1>5, <1>6, <1>11, <2>1 DEF Stage
  <2>2. CASE doc[d].file # 0 /\ msg' = [msg EXCEPT ![m].at = "check", ![m].got = doc[d].file]
    <3>1. nx = "check" /\ msg'[m].got = doc[d].file /\ msg'[m].job.doc = d
      BY <1>1, <2>2 DEF Messages, Doc, Job
    <3>2. doc[d].file = 1
      BY <1>1, <2>2 DEF Documents, Generations
    <3>. QED
      BY <1>1, <1>3, <1>6, <1>11, <3>1, <3>2 DEF Stage
  <2>. QED
    BY <1>11, <2>1, <2>2 DEF Stage
<1>12. CASE \E why \in {"transient", "permanent"} : Fail(m, why)
  BY <1>1, <1>3, <1>5, <1>6, <1>12 DEF Fail
<1>13. CASE \E why \in {"transient", "permanent"} : FailInsert(m, why)
  <2>1. PICK why \in {"transient", "permanent"} : FailInsert(m, why)
    BY <1>13
  <2>2. PICK v \in {0, msg[m].got} : doc' = [doc EXCEPT ![d].vectors = v]
    BY <2>1 DEF FailInsert
  <2>3. doc'[d].status = st
    BY <1>1, <2>2 DEF Documents
  <2>. QED
    BY <1>1, <1>3, <1>5, <1>6, <2>1, <2>3 DEF FailInsert
<1>14. CASE Check(m)
  BY <1>1, <1>3, <1>4, <1>5, <1>6, <1>14 DEF Check
<1>15. CASE Insert(m)
  <2>1. doc'[d].vectors = 1 /\ doc'[d].status = st
    BY <1>1, <1>6, <1>15 DEF Insert, Documents
  <2>. QED
    BY <1>1, <1>3, <1>4, <1>6, <1>15, <2>1 DEF Insert
<1>16. CASE Recheck(m)
  BY <1>1, <1>3, <1>4, <1>5, <1>6, <1>16 DEF Recheck
<1>17. CASE Purge(m) \/ FinVectors(m)
  <2>1. doc'[d].status = st
    BY <1>1, <1>17 DEF Purge, FinVectors, DropVectors, Documents
  <2>2. CASE Purge(m)
    BY <1>1, <1>3, <1>4, <1>5, <1>6, <2>1, <2>2 DEF Purge
  <2>3. CASE FinVectors(m)
    BY <1>1, <1>3, <1>4, <1>6, <2>1, <2>3 DEF FinVectors
  <2>. QED
    BY <1>17, <2>2, <2>3
<1>18. CASE Commit(m)
  <2>1. doc'[d].status \in {"ready", "gone"} /\ doc'[d].vectors = doc[d].vectors
    BY <1>1, <1>6, <1>18 DEF Commit, SetStatus, Exists, Statuses, Documents
  <2>2. nx = "okfile" /\ msg'[m].job.doc = d
    BY <1>4, <1>18 DEF Commit
  <2>. QED
    BY <1>3, <1>6, <1>18, <2>1, <2>2 DEF Commit
<1>19. CASE OkFile(m) \/ FinFile(m)
  <2>1. doc'[d].status = st /\ doc'[d].vectors = doc[d].vectors
    BY <1>1, <1>19 DEF OkFile, FinFile, ClearFile, Documents
  <2>2. CASE OkFile(m)
    BY <1>1, <1>3, <1>4, <1>6, <2>1, <2>2 DEF OkFile
  <2>3. CASE FinFile(m)
    BY <1>1, <1>3, <1>4, <1>6, <2>1, <2>3 DEF FinFile
  <2>. QED
    BY <1>19, <2>2, <2>3
<1>20. CASE FinStatus(m)
  <2>1. doc'[d].status \in {"failed", "gone"}
    BY <1>1, <1>6, <1>20 DEF FinStatus, SetStatus, Exists, Statuses, Documents
  <2>. QED
    BY <1>3, <1>4, <1>20, <2>1 DEF FinStatus
<1>21. CASE OkRelease(m) \/ FinRelease(m) \/ RetryRelease(m) \/ RetrySendFails(m) \/ Abort(m)
  BY <1>1, <1>3, <1>4, <1>6, <1>21 DEF OkRelease, FinRelease, RetryRelease, RetrySendFails, Abort
<1>22. CASE RetryAdmit(m)
  <2>1. nx \in {"finstatus", "retrysend"} /\ msg'[m].job.doc = d
    BY <1>1, <1>4, <1>22 DEF RetryAdmit, Messages, Doc, Job
  <2>. QED
    BY <1>1, <1>3, <1>6, <1>22, <2>1 DEF RetryAdmit
<1>23. CASE RetrySend(m)
  <2>1. nx = "retrystatus" /\ msg'[m].job.doc = d
    BY <1>1, <1>23, FreeOne DEF RetrySend, Messages, Doc, Job
  <2>. QED
    BY <1>1, <1>3, <1>6, <1>23, <2>1 DEF RetrySend
<1>24. ~RetryStatus(m) /\ ~Unlease(m) /\ ~FailFinalize(m)
  BY DEF RetryStatus, Unlease, FailFinalize, Fault, Busy
<1>. QED
  BY <1>7, <1>8, <1>9, <1>10, <1>11, <1>12, <1>13, <1>14, <1>15, <1>16, <1>17, <1>18, <1>19,
     <1>20, <1>21, <1>22, <1>23, <1>24 DEF WorkerStep, WorkerFault

Served == OneJob /\ JobsKnow /\ DocsServed

(* A job whose document and delivery a step leaves alone.                  *)
LEMMA StillKnows ==
  ASSUME NEW n \in Deliveries, NEW d \in Docs, Doc(n) = d, Knows(n), msg'[n] = msg[n],
         doc'[d] = doc[d], UNCHANGED <<del, tr>>
  PROVE  Knows(n)'
BY DEF Knows, Swept, Doc, Job

LEMMA IdleKnows ==
  ASSUME NEW n \in Deliveries, msg'[n].at \in {"free", "retrystatus", "unlease"}
  PROVE  Knows(n)'
BY DEF Knows, Before, Within, Failing

(* The steps of a job that stay with its delivery.                         *)
LEMMA BusyServes ==
  ASSUME SlotsInv, Served, MaxContent = 1, "finalize" \notin Faults,
         NEW m \in Deliveries, Busy(m), WorkerStep(m) \/ WorkerFault(m), ~RetrySend(m)
  PROVE  Served'
<1>1. /\ Typed /\ MsgsOK /\ DocsOK /\ msg \in [Deliveries -> Messages]
      /\ OneJob /\ JobsKnow /\ DocsServed
  BY DEF SlotsInv, Typed, MsgsOK, Served
<1>2. PICK d \in Docs : Doc(m) = d
  BY <1>1, BusyKnows DEF JobsKnow
<1>3. /\ UNCHANGED <<sub, del, tr>>
      /\ \A e \in Docs \ {d} : doc'[e] = doc[e]
  BY <1>1, <1>2, WorkerAlone
<1>4. \A n \in Deliveries \ {m} : msg'[n] = msg[n]
  <2>1. Moves(m)
    BY <1>1, WorkerMsg DEF Resends
  <2>. QED
    BY <1>1, <2>1 DEF Moves
<1>5. Knows(m)' /\ Searchable(d)' /\ Doc(m)' = d
  BY <1>1, <1>2, WorkerKnows DEF JobsKnow, DocsServed
<1>6. ASSUME NEW n \in Deliveries \ {m}, Busy(n) PROVE Doc(n) # d /\ Doc(n) \in Docs
  BY <1>1, <1>2, <1>6, BusyKnows DEF OneJob, JobsKnow
<1>7. OneJob'
  BY <1>1, <1>2, <1>3, <1>4, <1>5 DEF OneJob, Busy, Doc, Job
<1>8. ASSUME NEW n \in Deliveries PROVE Knows(n)'
  <2>1. CASE n = m
    BY <1>5, <2>1
  <2>2. CASE n # m /\ Busy(n)
    <3>1. PICK e \in Docs : Doc(n) = e
      BY <1>6, <2>2
    <3>. QED
      BY <1>1, <1>3, <1>4, <1>6, <2>2, <3>1, StillKnows DEF JobsKnow
  <2>3. CASE n # m /\ ~Busy(n)
    BY <1>4, <2>3, IdleKnows DEF Busy
  <2>. QED
    BY <2>1, <2>2, <2>3
<1>9. ASSUME NEW e \in Docs PROVE Fresh(e)' /\ Searchable(e)'
  <2>1. CASE e # d
    BY <1>1, <1>3, <2>1 DEF DocsServed, Fresh, Searchable, Swept, Exists
  <2>2. Fresh(d)'
    <3>1. sub[d].at = "idle"
      BY <1>1, <1>2 DEF OneJob
    <3>2. Exists(d)' => Exists(d)
      BY <1>1, StaysGone DEF Exists, Statuses, DocsOK, Documents
    <3>3. doc'[d].content = doc[d].content
      BY <1>1, <1>2, WorkerDoc DEF DocsOK, Documents
    <3>. QED
      BY <1>1, <1>3, <3>1, <3>2, <3>3 DEF DocsServed, Fresh, Submitting
  <2>. QED
    BY <1>5, <2>1, <2>2
<1>. QED
  BY <1>7, <1>8, <1>9 DEF Served, JobsKnow, DocsServed

(* A retry is sent: the next attempt is the document's one job.            *)
LEMMA ResendServes ==
  ASSUME SlotsInv, Served, NEW m \in Deliveries, RetrySend(m)
  PROVE  Served'
<1>1. /\ Typed /\ MsgsOK /\ DocsOK /\ msg \in [Deliveries -> Messages]
      /\ OneJob /\ JobsKnow /\ DocsServed /\ msg[m].at = "retrysend"
      /\ AnyFree \in Deliveries /\ msg[AnyFree].at = "free"
      /\ UNCHANGED <<doc, sub, del, tr>>
  BY FreeOne DEF RetrySend, SlotsInv, Typed, MsgsOK, Served, api
<1>2. Busy(m)
  BY <1>1 DEF Busy
<1>3. PICK d \in Docs : Doc(m) = d
  BY <1>1, <1>2, BusyKnows DEF JobsKnow
<1>6. PICK f \in Deliveries : f = AnyFree
  BY <1>1
<1>. DEFINE s == Message("queued", NextTry(Job(m)))
<1>4. /\ m # f /\ msg'[m].at = "retrystatus" /\ msg'[f] = s
      /\ \A n \in Deliveries \ {m, f} : msg'[n] = msg[n]
  BY <1>1, <1>6 DEF RetrySend, NextTry, Messages
<1>5. s.at = "queued" /\ s.job.doc = d
  <2>1. Job(m) \in Jobs
    BY <1>1, <1>2, BusyKnows DEF JobsKnow
  <2>. QED
    BY <1>3, <2>1 DEF Message, NextTry, Jobs, Doc
<1>. HIDE DEF s
<1>7. ASSUME NEW n \in Deliveries \ {m}, Busy(n) PROVE Doc(n) # d /\ Doc(n) \in Docs /\ n # f
  BY <1>1, <1>2, <1>3, <1>7, <1>6, BusyKnows DEF OneJob, JobsKnow, Busy
<1>8. sub[d].at = "idle"
  BY <1>1, <1>2, <1>3 DEF OneJob
<1>9. ASSUME NEW n \in Deliveries, Busy(n)', n # f
      PROVE  n # m /\ msg'[n] = msg[n] /\ Busy(n) /\ Doc(n)' = Doc(n)
  BY <1>4, <1>6, <1>9 DEF Busy, Doc, Job
<1>10. OneJob'
  <2>1. Doc(f)' = d /\ Busy(f)'
    BY <1>4, <1>5 DEF Doc, Job, Busy
  <2>2. ASSUME NEW n \in Deliveries, Busy(n)', n # f
        PROVE  sub'[Doc(n)'].at = "idle" /\ Doc(n)' # d
    BY <1>1, <1>7, <1>9, <2>2 DEF OneJob
  <2>3. ASSUME NEW n \in Deliveries, NEW k \in Deliveries, Busy(n)', Busy(k)',
               n # f, k # f, Doc(k)' = Doc(n)'
        PROVE  k = n
    BY <1>1, <1>9, <2>3 DEF OneJob
  <2>. QED
    BY <1>1, <1>6, <1>8, <2>1, <2>2, <2>3 DEF OneJob
<1>11. ASSUME NEW n \in Deliveries PROVE Knows(n)'
  <2>1. CASE n = f
    <3>1. doc[d].status \in {"pending", "processing", "gone"}
      BY <1>1, <1>3 DEF JobsKnow, Knows, Failing
    <3>. QED
      BY <1>1, <1>4, <1>5, <2>1, <3>1 DEF Knows, Before, Within, Failing, Doc, Job
  <2>2. CASE n # f /\ Busy(n)'
    <3>1. PICK e \in Docs : Doc(n) = e
      BY <1>7, <1>9, <2>2
    <3>. QED
      BY <1>1, <1>9, <2>2, <3>1, StillKnows DEF JobsKnow
  <2>3. CASE ~Busy(n)'
    BY <2>3, IdleKnows DEF Busy
  <2>. QED
    BY <2>1, <2>2, <2>3
<1>12. DocsServed'
  BY <1>1 DEF DocsServed, Fresh, Searchable, Swept, Exists
<1>. QED
  BY <1>10, <1>11, <1>12 DEF Served, JobsKnow

(* A delivery whose job is over writes its document's row once more, and   *)
(* only while the retry is still waiting.                                  *)
LEMMA OverServes ==
  ASSUME SlotsInv, Served, RetrySent, NEW m \in Deliveries, ~Busy(m),
         WorkerStep(m) \/ WorkerFault(m)
  PROVE  Served'
<1>1. /\ Typed /\ MsgsOK /\ DocsOK /\ msg \in [Deliveries -> Messages]
      /\ doc \in [Docs -> Documents]
      /\ OneJob /\ JobsKnow /\ DocsServed
  BY DEF SlotsInv, Typed, MsgsOK, DocsOK, Served
<1>2. RetryStatus(m) \/ Unlease(m) \/ Abort(m)
  BY <1>1, WorkerBusy DEF Busy, WorkerStep, WorkerFault, Defer, DeferSend, Receive, SetLease,
     CheckBegin, Mark, Stage, Check, Insert, Recheck, Purge, Commit,
     OkFile, OkRelease, FinVectors, FinStatus, FinFile, FinRelease,
     RetryRelease, RetryAdmit, RetrySend, Fail, FailInsert, FailFinalize, RetrySendFails
<1>3. /\ msg'[m].at \in {"unlease", "free"} /\ UNCHANGED <<sub, del, tr>>
      /\ \A n \in Deliveries \ {m} : msg'[n] = msg[n]
  BY <1>1, <1>2, AtAfter DEF RetryStatus, Unlease, Abort, api, Goto
<1>4. ASSUME NEW n \in Deliveries, Busy(n)'
      PROVE  n # m /\ msg'[n] = msg[n] /\ Busy(n) /\ Doc(n)' = Doc(n) /\ Doc(n) \in Docs
  <2>1. n # m /\ msg'[n] = msg[n]
    BY <1>3, <1>4 DEF Busy
  <2>. QED
    BY <1>1, <1>4, <2>1, BusyKnows DEF Busy, Doc, Job, JobsKnow
<1>5. OneJob'
  <2>1. ASSUME NEW n \in Deliveries, Busy(n)' PROVE sub'[Doc(n)'].at = "idle"
    BY <1>1, <1>3, <1>4, <2>1 DEF OneJob
  <2>2. ASSUME NEW n \in Deliveries, NEW k \in Deliveries, Busy(n)', Busy(k)', Doc(k)' = Doc(n)'
        PROVE  k = n
    BY <1>1, <1>4, <2>2 DEF OneJob
  <2>. QED
    BY <2>1, <2>2 DEF OneJob
<1>6. ASSUME NEW n \in Deliveries, ~Busy(n)' PROVE Knows(n)'
  BY <1>6, IdleKnows DEF Busy
<1>7. CASE UNCHANGED doc
  <2>1. ASSUME NEW n \in Deliveries, Busy(n)' PROVE Knows(n)'
    <3>1. PICK d \in Docs : Doc(n) = d
      BY <1>4, <2>1
    <3>. QED
      BY <1>1, <1>3, <1>4, <1>7, <2>1, <3>1, StillKnows DEF JobsKnow
  <2>2. DocsServed'
    BY <1>1, <1>3, <1>7 DEF DocsServed, Fresh, Searchable, Swept, Exists
  <2>. QED
    BY <1>5, <1>6, <2>1, <2>2 DEF Served, JobsKnow
<1>8. CASE RetryStatus(m)
  <2>1. PICK d \in Docs : Doc(m) = d
    BY <1>1, WorkerAlone
  <2>2. PICK k \in Deliveries : msg[k].at \in {"queued", "deferring"} /\ Doc(k) = d
    BY <1>8, <2>1 DEF RetryStatus, RetrySent, JobId, Doc
  <2>3. Busy(k) /\ sub[d].at = "idle" /\ doc[d].status \in {"pending", "processing", "gone"}
    BY <1>1, <2>2 DEF Busy, OneJob, JobsKnow, Knows, Before
  <2>4. /\ doc'[d].status \in {"pending", "gone"} /\ doc'[d].content = doc[d].content
        /\ Exists(d)' => Exists(d)
        /\ \A e \in Docs \ {d} : doc'[e] = doc[e]
    BY <1>1, <1>8, <2>1, <2>3 DEF RetryStatus, SetStatus, Exists, Statuses, Documents
  <2>5. ASSUME NEW n \in Deliveries, Busy(n)' PROVE Knows(n)'
    <3>1. PICK e \in Docs : Doc(n) = e
      BY <1>4, <2>5
    <3>2. CASE e = d
      <4>1. n = k
        BY <1>1, <1>4, <2>2, <2>3, <2>5, <3>1, <3>2 DEF OneJob
      <4>2. msg'[n].at \in {"queued", "deferring"} /\ Doc(n)' = d
        BY <1>4, <2>2, <2>5, <4>1
      <4>. QED
        BY <2>4, <4>2 DEF Knows, Before, Within, Failing
    <3>3. CASE e # d
      BY <1>1, <1>3, <1>4, <2>4, <2>5, <3>1, <3>3, StillKnows DEF JobsKnow
    <3>. QED
      BY <3>2, <3>3
  <2>6. ASSUME NEW e \in Docs PROVE Fresh(e)' /\ Searchable(e)'
    <3>1. CASE e = d
      BY <1>1, <1>3, <2>3, <2>4, <3>1 DEF DocsServed, Fresh, Searchable, Submitting
    <3>2. CASE e # d
      BY <1>1, <1>3, <2>4, <3>2 DEF DocsServed, Fresh, Searchable, Swept, Exists
    <3>. QED
      BY <3>1, <3>2
  <2>. QED
    BY <1>5, <1>6, <2>5, <2>6 DEF Served, JobsKnow, DocsServed
<1>. QED
  BY <1>2, <1>7, <1>8 DEF Unlease, Abort

-----------------------------------------------------------------------------

(* No job is in flight for a document that is being submitted, or was not  *)
(* uploaded yet.                                                           *)
LEMMA NoJobYet ==
  ASSUME Typed, OneJob, JobsKnow, NEW d \in Docs, sub[d].at # "idle" \/ doc[d].status = "none",
         NEW n \in Deliveries, Busy(n)
  PROVE  Doc(n) \in Docs /\ Doc(n) # d
BY BusyKnows DEF OneJob, JobsKnow

(* A step of a request for a document that has no job.                     *)
LEMMA RequestServes ==
  ASSUME SlotsInv, Served, NEW d \in Docs,
         \/ Upload(d) \/ EnqueueRead(d) \/ EnqueueAdmit(d) \/ EnqueueSendFails(d) \/ Refused(d)
  PROVE  Served'
<1>1. /\ Typed /\ MsgsOK /\ DocsOK /\ doc \in [Docs -> Documents]
      /\ sub \in [Docs -> AllSubmissions] /\ OneJob /\ JobsKnow /\ DocsServed
  BY DEF SlotsInv, Typed, MsgsOK, DocsOK, SubsOK, Served
<1>2. /\ UNCHANGED <<msg, del, tr>>
      /\ \A e \in Docs \ {d} : doc'[e] = doc[e] /\ sub'[e] = sub[e]
  BY <1>1 DEF Upload, EnqueueRead, EnqueueAdmit, EnqueueSendFails, Refused, Submit
<1>3. sub[d].at # "idle" \/ doc[d].status = "none"
  BY DEF Upload, EnqueueRead, EnqueueAdmit, EnqueueSendFails, Refused
<1>4. \A n \in Deliveries : Busy(n) => Doc(n) \in Docs /\ Doc(n) # d
  BY <1>1, <1>3, NoJobYet
<1>5. OneJob'
  BY <1>1, <1>2, <1>4 DEF OneJob, Busy, Doc, Job
<1>6. ASSUME NEW n \in Deliveries PROVE Knows(n)'
  <2>1. CASE Busy(n)
    <3>1. PICK e \in Docs : Doc(n) = e /\ e # d
      BY <1>4, <2>1
    <3>. QED
      BY <1>1, <1>2, <3>1, StillKnows DEF JobsKnow
  <2>2. CASE ~Busy(n)
    BY <1>2, <2>2, IdleKnows DEF Busy
  <2>. QED
    BY <2>1, <2>2
<1>7. Fresh(d)' /\ Searchable(d)'
  <2>1. Fresh(d) /\ Searchable(d)
    BY <1>1 DEF DocsServed
  <2>2. CASE Upload(d)
    BY <1>1, <2>2 DEF Upload, Submit, AllSubmissions, Fresh, Searchable, Submitting
  <2>3. CASE EnqueueRead(d) \/ EnqueueAdmit(d) \/ EnqueueSendFails(d)
    <3>1. UNCHANGED doc /\ sub[d].at \in Submitting /\ sub'[d].at \in Submitting
      BY <1>1, <2>3 DEF EnqueueRead, EnqueueAdmit, EnqueueSendFails, Submit, AllSubmissions,
                        Submitting
    <3>. QED
      BY <1>2, <2>1, <3>1 DEF Fresh, Searchable, Swept, Exists
  <2>4. CASE Refused(d)
    <3>1. /\ doc'[d].status \in {"failed", "none", "gone"} /\ doc'[d].content = doc[d].content
          /\ Exists(d)' => Exists(d)
      BY <1>1, <2>4 DEF Refused, Exists, Statuses, Documents
    <3>2. sub'[d].at = "idle"
      BY <1>1, <2>4 DEF Refused
    <3>. QED
      BY <2>1, <3>1, <3>2 DEF Fresh, Searchable, Submitting
  <2>. QED
    BY <2>2, <2>3, <2>4
<1>8. ASSUME NEW e \in Docs, e # d PROVE Fresh(e)' /\ Searchable(e)'
  BY <1>1, <1>2, <1>8 DEF DocsServed, Fresh, Searchable, Swept, Exists
<1>. QED
  BY <1>5, <1>6, <1>7, <1>8 DEF Served, JobsKnow, DocsServed

(* A document is sent: its first job is its only one.                      *)
LEMMA SendServes ==
  ASSUME SlotsInv, Served, NEW d \in Docs, EnqueueSend(d)
  PROVE  Served'
<1>1. /\ Typed /\ SubsOK /\ msg \in [Deliveries -> Messages]
      /\ sub \in [Docs -> AllSubmissions] /\ OneJob /\ JobsKnow /\ DocsServed
      /\ sub[d].at = "send" /\ sub[d].job.doc = d
      /\ AnyFree \in Deliveries /\ msg[AnyFree].at = "free"
      /\ UNCHANGED <<doc, del, tr>>
  BY FreeOne DEF EnqueueSend, SlotsInv, Typed, MsgsOK, SubsOK, Submissions, Served
<1>2. PICK f \in Deliveries : f = AnyFree
  BY <1>1
<1>3. /\ msg'[f].at = "queued" /\ msg'[f].job.doc = d
      /\ \A n \in Deliveries \ {f} : msg'[n] = msg[n]
  BY <1>1, <1>2 DEF EnqueueSend, Message
<1>4. sub'[d].at = "idle" /\ \A e \in Docs \ {d} : sub'[e] = sub[e]
  BY <1>1 DEF EnqueueSend
<1>5. ASSUME NEW n \in Deliveries, Busy(n)', n # f
      PROVE  /\ msg'[n] = msg[n] /\ Busy(n) /\ Doc(n)' = Doc(n)
             /\ Doc(n) \in Docs /\ Doc(n) # d
  <2>1. msg'[n] = msg[n] /\ Busy(n) /\ Doc(n)' = Doc(n)
    BY <1>3, <1>5 DEF Busy, Doc, Job
  <2>. QED
    BY <1>1, <2>1, NoJobYet
<1>6. Doc(f)' = d /\ Busy(f)'
  BY <1>3 DEF Doc, Job, Busy
<1>7. OneJob'
  <2>1. ASSUME NEW n \in Deliveries, Busy(n)' PROVE sub'[Doc(n)'].at = "idle"
    <3>1. CASE n = f
      BY <1>4, <1>6, <3>1
    <3>2. CASE n # f
      BY <1>1, <1>4, <1>5, <2>1, <3>2 DEF OneJob
    <3>. QED
      BY <3>1, <3>2
  <2>2. ASSUME NEW n \in Deliveries, NEW k \in Deliveries, Busy(n)', Busy(k)',
               Doc(k)' = Doc(n)'
        PROVE  k = n
    BY <1>1, <1>5, <1>6, <2>2 DEF OneJob
  <2>. QED
    BY <2>1, <2>2 DEF OneJob
<1>8. ASSUME NEW n \in Deliveries PROVE Knows(n)'
  <2>1. CASE n = f
    <3>1. doc[d].status \in {"pending", "gone"}
      BY <1>1 DEF DocsServed, Fresh, Submitting
    <3>. QED
      BY <1>1, <1>3, <2>1, <3>1 DEF Knows, Before, Within, Failing, Doc, Job
  <2>2. CASE n # f /\ Busy(n)'
    <3>1. PICK e \in Docs : Doc(n) = e
      BY <1>5, <2>2
    <3>. QED
      BY <1>1, <1>5, <2>2, <3>1, StillKnows DEF JobsKnow
  <2>3. CASE ~Busy(n)'
    BY <2>3, IdleKnows DEF Busy
  <2>. QED
    BY <2>1, <2>2, <2>3
<1>9. ASSUME NEW e \in Docs PROVE Fresh(e)' /\ Searchable(e)'
  BY <1>1, <1>4 DEF DocsServed, Fresh, Searchable, Swept, Exists, Submitting
<1>. QED
  BY <1>7, <1>8, <1>9 DEF Served, JobsKnow, DocsServed

(* What a deletion or a truncation does to a document.                     *)
Sheds(d) ==
  /\ doc'[d].status \in {doc[d].status, "gone"}
  /\ doc'[d].content = doc[d].content
  /\ doc'[d].vectors = doc[d].vectors \/ (doc'[d].vectors = 0 /\ Swept(d)')
  /\ doc[d].status # "none" /\ Swept(d) => Swept(d)'

LEMMA DeletionSheds ==
  ASSUME SlotsInv, \/ \E e \in Docs : DeleteStart(e) \/ DeleteStep(e) \/ DeleteAborts(e)
                   \/ TruncateStart \/ TruncateStep
                   \/ UNCHANGED <<doc, msg, sub, del, tr>>
  PROVE  UNCHANGED <<msg, sub>> /\ \A d \in Docs : Sheds(d)
<1>1. /\ doc \in [Docs -> Documents]
      /\ del \in [Docs -> {"idle", "file", "vectors", "row"}]
  BY DEF SlotsInv, Typed, DocsOK, ApiOK
<1>2. UNCHANGED <<msg, sub>>
  BY DEF DeleteStart, DeleteStep, DeleteAborts, DeleteFile, DeleteVectors, DeleteRow,
     TruncateStart, TruncateStep, TruncateFiles, TruncateVectors, TruncateRows
<1>3. ASSUME NEW d \in Docs, NEW e \in Docs, DeleteStart(e) \/ DeleteStep(e) \/ DeleteAborts(e)
      PROVE  Sheds(d)
  <2>1. CASE DeleteStart(e) \/ DeleteAborts(e)
    BY <1>1, <2>1 DEF DeleteStart, DeleteAborts, Sheds, Swept
  <2>2. CASE DeleteFile(e)
    BY <1>1, <2>2 DEF DeleteFile, Sheds, Swept, Documents
  <2>3. CASE DeleteVectors(e)
    BY <1>1, <2>3 DEF DeleteVectors, Sheds, Swept, Documents
  <2>4. CASE DeleteRow(e)
    BY <1>1, <2>4 DEF DeleteRow, Sheds, Swept, Documents
  <2>. QED
    BY <1>3, <2>1, <2>2, <2>3, <2>4 DEF DeleteStep
<1>4. ASSUME NEW d \in Docs, TruncateStart \/ TruncateStep
      PROVE  Sheds(d)
  <2>1. CASE TruncateStart
    BY <1>1, <2>1 DEF TruncateStart, Sheds, Swept
  <2>2. CASE TruncateFiles
    BY <1>1, <2>2 DEF TruncateFiles, Sheds, Swept, Documents
  <2>3. CASE TruncateVectors
    BY <1>1, <2>3 DEF TruncateVectors, Sheds, Swept, Documents
  <2>4. CASE TruncateRows
    BY <1>1, <2>4 DEF TruncateRows, Sheds, Swept, Documents, Exists
  <2>. QED
    BY <1>4, <2>1, <2>2, <2>3, <2>4 DEF TruncateStep
<1>5. ASSUME NEW d \in Docs, UNCHANGED <<doc, msg, sub, del, tr>> PROVE Sheds(d)
  BY <1>5 DEF Sheds, Swept
<1>. QED
  BY <1>2, <1>3, <1>4, <1>5

LEMMA ShedServes ==
  ASSUME SlotsInv, Served, UNCHANGED <<msg, sub>>, \A d \in Docs : Sheds(d)
  PROVE  Served'
<1>1. /\ Typed /\ doc \in [Docs -> Documents] /\ OneJob /\ JobsKnow /\ DocsServed
  BY DEF SlotsInv, Typed, DocsOK, Served
<1>2. OneJob'
  BY <1>1 DEF OneJob, Busy, Doc, Job
<1>3. ASSUME NEW n \in Deliveries PROVE Knows(n)'
  <2>1. CASE Busy(n)
    <3>1. PICK d \in Docs : Doc(n) = d /\ doc[d].status # "none"
      BY <1>1, <2>1, BusyKnows DEF JobsKnow
    <3>2. Sheds(d) /\ Knows(n)
      BY <1>1 DEF JobsKnow
    <3>3. Doc(n)' = d /\ msg'[n] = msg[n]
      BY <3>1 DEF Doc, Job
    <3>4. doc[d].vectors = 1 \/ Swept(d) => doc'[d].vectors = 1 \/ Swept(d)'
      BY <3>1, <3>2 DEF Sheds
    <3>. QED
      BY <3>1, <3>2, <3>3, <3>4 DEF Sheds, Knows
  <2>2. CASE ~Busy(n)
    BY <2>2, IdleKnows DEF Busy
  <2>. QED
    BY <2>1, <2>2
<1>4. ASSUME NEW d \in Docs PROVE Fresh(d)' /\ Searchable(d)'
  <2>1. Fresh(d) /\ Searchable(d) /\ Sheds(d)
    BY <1>1 DEF DocsServed
  <2>2. Searchable(d)'
    BY <2>1 DEF Searchable, Sheds
  <2>3. Fresh(d)'
    BY <2>1 DEF Fresh, Sheds, Exists, Statuses
  <2>. QED
    BY <2>2, <2>3
<1>. QED
  BY <1>2, <1>3, <1>4 DEF Served, JobsKnow, DocsServed

JobsInv == SlotsInv /\ RetrySent /\ (Undisturbed => Served)

LEMMA JobsInvariant ==
  ASSUME MaxContent = 1, PromptFinalize, "finalize" \notin Faults
  PROVE  Spec => []JobsInv
<1>1. Init => JobsInv
  <2>. SUFFICES ASSUME Init PROVE JobsInv
    OBVIOUS
  <2>1. RetrySent /\ OneJob
    BY FreeMessageOK DEF Init, RetrySent, OneJob, Busy
  <2>2. JobsKnow
    BY FreeMessageOK DEF Init, JobsKnow, Knows, Before, Within, Failing
  <2>3. DocsServed
    BY DEF Init, DocsServed, Fresh, Searchable, Submitting, Exists, Statuses
  <2>. QED
    BY <2>1, <2>2, <2>3, InitSlots DEF JobsInv, Served
<1>2. JobsInv /\ [Next]_vars => JobsInv'
  <2>. SUFFICES ASSUME JobsInv, [Next]_vars PROVE JobsInv'
    OBVIOUS
  <2>1. SlotsInv /\ SlotsInv' /\ RetrySent'
    BY SlotsStep, RetrySentStep DEF JobsInv, SlotsInv
  <2>2. ASSUME Undisturbed' PROVE Served'
    <3>1. Undisturbed /\ Served /\ DocsServed
      BY <2>1, <2>2, BoundsStep DEF JobsInv, SlotsInv, Served
    <3>2. ASSUME NEW m \in Deliveries, WorkerStep(m) \/ WorkerFault(m) PROVE Served'
      BY <2>1, <3>1, <3>2, BusyServes, ResendServes, OverServes DEF JobsInv
    <3>3. ASSUME NEW d \in Docs, \/ Upload(d) \/ EnqueueRead(d) \/ EnqueueAdmit(d)
                                 \/ EnqueueSendFails(d) \/ Refused(d)
          PROVE  Served'
      BY <2>1, <3>1, <3>3, RequestServes
    <3>4. ASSUME NEW d \in Docs, EnqueueSend(d) PROVE Served'
      BY <2>1, <3>1, <3>4, SendServes
    <3>5. ASSUME \/ \E e \in Docs : DeleteStart(e) \/ DeleteStep(e) \/ DeleteAborts(e)
                 \/ TruncateStart \/ TruncateStep
                 \/ UNCHANGED <<doc, msg, sub, del, tr>>
          PROVE Served'
      BY <2>1, <3>1, <3>5, DeletionSheds, ShedServes
    <3>. QED
      BY <2>1, <2>2, <3>1, <3>2, <3>3, <3>4, <3>5, CalmKinds
  <2>. QED
    BY <2>1, <2>2 DEF JobsInv
<1>. QED
  BY <1>1, <1>2, PTL DEF Spec

(* process_job and finalize_success: a document is ready only with the     *)
(* vectors of its content, or while a deletion or truncation that will     *)
(* take it away is under way.                                              *)
THEOREM ReadyMeansSearchable ==
  ASSUME MaxContent = 1, PromptFinalize, "finalize" \notin Faults
  PROVE  Spec => [](Undisturbed => ReadyIsSearchable)
<1>1. JobsInv => (Undisturbed => ReadyIsSearchable)
  <2>. SUFFICES ASSUME JobsInv, Undisturbed, NEW d \in Docs,
                       doc[d].status = "ready", del[d] = "idle", tr = "idle"
                PROVE  doc[d].vectors = doc[d].content
    BY DEF ReadyIsSearchable
  <2>. QED
    BY DEF JobsInv, Served, DocsServed, Fresh, Searchable, Swept, Exists, Statuses
<1>. QED
  BY <1>1, JobsInvariant, PTL

-----------------------------------------------------------------------------
(* A settled document stays settled.                                       *)

LEMMA SettledStays ==
  ASSUME JobsInv, Undisturbed, Undisturbed', MaxContent = 1, [Next]_vars,
         NEW d \in Docs, doc[d].status \in {"ready", "failed"}
  PROVE  doc'[d].status \in {doc[d].status, "gone"}
<1>1. /\ SlotsInv /\ Typed /\ MsgsOK /\ DocsOK /\ doc \in [Docs -> Documents]
      /\ OneJob /\ JobsKnow /\ DocsServed
  BY DEF JobsInv, SlotsInv, Typed, DocsOK, Served
<1>2. ASSUME NEW m \in Deliveries, WorkerStep(m) \/ WorkerFault(m)
      PROVE  doc'[d].status = doc[d].status
  <2>1. Doc(m) \in Docs /\ \A e \in Docs \ {Doc(m)} : doc'[e] = doc[e]
    BY <1>1, <1>2, WorkerAlone
  <2>2. ASSUME Doc(m) = d PROVE msg[m].at \notin {"mark", "commit", "finstatus", "retrystatus"}
    <3>1. msg[m].at \notin {"mark", "commit", "finstatus"}
      BY <1>1, <2>2 DEF JobsKnow, Knows, Before, Within, Failing
    <3>2. ASSUME msg[m].at = "retrystatus" PROVE FALSE
      <4>1. PICK k \in Deliveries : msg[k].at \in {"queued", "deferring"} /\ Doc(k) = d
        BY <2>2, <3>2 DEF JobsInv, RetrySent, JobId, Doc
      <4>. QED
        BY <1>1, <4>1 DEF JobsKnow, Knows, Before
    <3>. QED
      BY <3>1, <3>2
  <2>3. CASE Doc(m) # d
    BY <2>1, <2>3
  <2>4. CASE Doc(m) = d
    <3>1. ~Mark(m) /\ ~Commit(m) /\ ~FinStatus(m) /\ ~RetryStatus(m)
      BY <2>2, <2>4 DEF Mark, Commit, FinStatus, RetryStatus
    <3>2. CASE Purge(m) \/ FinVectors(m) \/ OkFile(m) \/ FinFile(m) \/ Insert(m)
               \/ \E why \in {"transient", "permanent"} : FailInsert(m, why)
      BY <1>1, <3>2 DEF Purge, FinVectors, OkFile, FinFile, Insert, FailInsert, DropVectors,
         ClearFile, Documents
    <3>3. CASE ~(Purge(m) \/ FinVectors(m) \/ OkFile(m) \/ FinFile(m) \/ Insert(m)
                 \/ \E why \in {"transient", "permanent"} : FailInsert(m, why))
      BY <1>2, <3>1, <3>3 DEF WorkerStep, WorkerFault, Defer, DeferSend, Receive, SetLease,
         CheckBegin, Stage, Check, Recheck, OkRelease, FinRelease, RetryRelease, RetryAdmit,
         RetrySend, Unlease, Fail, FailFinalize, RetrySendFails, Abort
    <3>. QED
      BY <3>2, <3>3
  <2>. QED
    BY <2>3, <2>4
<1>3. ASSUME NEW e \in Docs, \/ Upload(e) \/ EnqueueRead(e) \/ EnqueueAdmit(e) \/ EnqueueSend(e)
                             \/ EnqueueSendFails(e) \/ Refused(e)
      PROVE  doc'[d].status = doc[d].status
  <2>1. e = d => sub[e].at # "refused" /\ doc[e].status # "none"
    BY <1>1 DEF DocsServed, Fresh, Submitting
  <2>. QED
    BY <1>1, <1>3, <2>1 DEF Upload, EnqueueRead, EnqueueAdmit, EnqueueSend, EnqueueSendFails,
       Refused, Documents
<1>4. ASSUME \/ \E e \in Docs : DeleteStart(e) \/ DeleteStep(e) \/ DeleteAborts(e)
             \/ TruncateStart \/ TruncateStep
             \/ UNCHANGED <<doc, msg, sub, del, tr>>
      PROVE  Sheds(d)
  BY <1>1, <1>4, DeletionSheds
<1>. QED
  BY <1>1, <1>2, <1>3, <1>4, CalmKinds DEF Sheds

(* No late write of another attempt, of a retry or of a request reopens a  *)
(* document that is ready or failed: it keeps its status until it is       *)
(* deleted.                                                                *)
THEOREM SettledStaysFinal ==
  ASSUME MaxContent = 1, MaxCrashes = 0, MaxRecoveries = 0,
         PromptFinalize, "finalize" \notin Faults
  PROVE  Spec => SettledIsFinal
<1>1. JobsInv => Undisturbed
  <2>. SUFFICES ASSUME JobsInv PROVE Undisturbed
    OBVIOUS
  <2>1. left["crash"] \in Nat /\ left["recover"] \in Nat
    BY DEF JobsInv, SlotsInv, Typed, LeftOK
  <2>. QED
    BY <2>1 DEF JobsInv, SlotsInv, LeftBounded, Undisturbed
<1>2. JobsInv /\ JobsInv' /\ [Next]_vars =>
        [\A d \in Docs : doc[d].status \in {"ready", "failed"} =>
           doc'[d].status \in {doc[d].status, "gone"}]_vars
  <2>. SUFFICES ASSUME JobsInv, JobsInv', [Next]_vars, NEW d \in Docs,
                       doc[d].status \in {"ready", "failed"}
                PROVE  doc'[d].status \in {doc[d].status, "gone"}
    OBVIOUS
  <2>1. Undisturbed'
    BY <1>1 DEF JobsInv, SlotsInv, Typed, LeftOK, LeftBounded, Undisturbed
  <2>. QED
    BY <1>1, <2>1, SettledStays
<1>. QED
  BY <1>2, JobsInvariant, PTL DEF Spec, SettledIsFinal

-----------------------------------------------------------------------------
(* What has ended leaves nothing behind.                                   *)

(* After the clean-up of its vectors a failed job has none.                *)
Cleaned(m) ==
  msg[m].at \in {"finstatus", "finfile", "finrelease", "retryrelease", "retryadmit"} =>
    doc[Doc(m)].vectors = 0

EndsAt(status, at) == \/ status = "ready" /\ at = "okfile"
                      \/ status = "failed" /\ at = "finfile"

(* The staged file of a settled document has somebody who clears it; a     *)
(* deletion or truncation past its files, and a document that is gone or   *)
(* was never uploaded, has none.                                           *)
FileHeld(d) ==
  doc[d].file # 0 =>
    /\ del[d] \notin {"vectors", "row"} /\ tr \notin {"vectors", "rows"}
    /\ doc[d].status \notin {"none", "gone"}
    /\ doc[d].status \in {"ready", "failed"} =>
         \E m \in Deliveries : Doc(m) = d /\ EndsAt(doc[d].status, msg[m].at)

Bare(d) == doc[d].status = "failed" => doc[d].vectors = 0

Tidy ==
  /\ \A m \in Deliveries : Cleaned(m)
  /\ \A d \in Docs : Bare(d) /\ FileHeld(d)

(* Deletions and truncations take the file first.                          *)
FileSheds(d) ==
  /\ doc'[d].file \in {doc[d].file, 0}
  /\ del'[d] \in {"vectors", "row"} => del[d] \in {"vectors", "row"} \/ doc'[d].file = 0
  /\ tr' \in {"vectors", "rows"} => tr \in {"vectors", "rows"} \/ doc'[d].file = 0
  /\ doc'[d].status = "gone" => doc[d].status = "gone" \/ del[d] = "row" \/ tr = "rows"

LEMMA DeletionFiles ==
  ASSUME SlotsInv, \/ \E e \in Docs : DeleteStart(e) \/ DeleteStep(e) \/ DeleteAborts(e)
                   \/ TruncateStart \/ TruncateStep
                   \/ UNCHANGED <<doc, msg, sub, del, tr>>,
         NEW d \in Docs
  PROVE  FileSheds(d)
<1>1. /\ doc \in [Docs -> Documents]
      /\ del \in [Docs -> {"idle", "file", "vectors", "row"}]
  BY DEF SlotsInv, Typed, DocsOK, ApiOK
<1>2. ASSUME NEW e \in Docs, DeleteStart(e) \/ DeleteStep(e) \/ DeleteAborts(e)
      PROVE  FileSheds(d)
  <2>1. CASE DeleteStart(e) \/ DeleteAborts(e)
    BY <1>1, <2>1 DEF DeleteStart, DeleteAborts, FileSheds
  <2>2. CASE DeleteFile(e)
    BY <1>1, <2>2 DEF DeleteFile, FileSheds, Documents
  <2>3. CASE DeleteVectors(e)
    BY <1>1, <2>3 DEF DeleteVectors, FileSheds, Documents
  <2>4. CASE DeleteRow(e)
    BY <1>1, <2>4 DEF DeleteRow, FileSheds, Documents
  <2>. QED
    BY <1>2, <2>1, <2>2, <2>3, <2>4 DEF DeleteStep
<1>3. CASE TruncateStart
  BY <1>1, <1>3 DEF TruncateStart, FileSheds
<1>4. CASE TruncateFiles
  BY <1>1, <1>4 DEF TruncateFiles, FileSheds, Documents
<1>5. CASE TruncateVectors
  BY <1>1, <1>5 DEF TruncateVectors, FileSheds, Documents
<1>6. CASE TruncateRows
  BY <1>1, <1>6 DEF TruncateRows, FileSheds, Documents
<1>7. CASE UNCHANGED <<doc, msg, sub, del, tr>>
  BY <1>7 DEF FileSheds
<1>. QED
  BY <1>2, <1>3, <1>4, <1>5, <1>6, <1>7 DEF TruncateStep

LEMMA ShedTidy ==
  ASSUME SlotsInv, Served, Tidy, UNCHANGED <<msg, sub>>,
         \A d \in Docs : Sheds(d) /\ FileSheds(d)
  PROVE  Tidy'
<1>1. Typed /\ JobsKnow
  BY DEF SlotsInv, Served
<1>2. ASSUME NEW n \in Deliveries PROVE Cleaned(n)'
  <2>1. CASE Busy(n)
    <3>1. PICK d \in Docs : Doc(n) = d
      BY <1>1, <2>1, BusyKnows DEF JobsKnow
    <3>. QED
      BY <3>1 DEF Cleaned, Tidy, Sheds, Doc, Job
  <2>2. CASE ~Busy(n)
    BY <2>2 DEF Cleaned, Busy
  <2>. QED
    BY <2>1, <2>2
<1>3. ASSUME NEW d \in Docs PROVE Bare(d)' /\ FileHeld(d)'
  <2>1. Sheds(d) /\ FileSheds(d) /\ Bare(d) /\ FileHeld(d)
    BY DEF Tidy
  <2>2. Bare(d)'
    BY <2>1 DEF Bare, Sheds
  <2>3. FileHeld(d)'
    BY <2>1 DEF FileHeld, FileSheds, Sheds, Doc, Job
  <2>. QED
    BY <2>2, <2>3
<1>. QED
  BY <1>2, <1>3 DEF Tidy

(* What a worker's step does to the file and the vectors of a document     *)
(* whose job has not failed, has failed, or is done.                       *)
LEMMA WorkerTidies ==
  ASSUME SlotsInv, Served, Tidy, {"cleanup", "finalize"} \cap Faults = {}, NothingLost',
         NEW m \in Deliveries, Busy(m), WorkerStep(m) \/ WorkerFault(m), ~RetrySend(m),
         NEW d \in Docs, Doc(m) = d
  PROVE  /\ Cleaned(m)' /\ Bare(d)'
         /\ doc'[d].file # 0 => doc[d].file # 0
         /\ doc'[d].file # 0 /\ doc'[d].status \in {"ready", "failed"} =>
              EndsAt(doc'[d].status, msg'[m].at)
<1>. DEFINE at == msg[m].at
            nx == msg'[m].at
            Goal == /\ nx \in {"finstatus", "finfile", "finrelease", "retryrelease", "retryadmit"} =>
                         doc'[d].vectors = 0
                    /\ doc'[d].status = "failed" => doc'[d].vectors = 0
                    /\ doc'[d].file # 0 => doc[d].file # 0
                    /\ doc'[d].file # 0 /\ doc'[d].status = "ready" => nx = "okfile"
                    /\ doc'[d].file # 0 /\ doc'[d].status = "failed" => nx = "finfile"
<1>1. /\ Typed /\ MsgsOK /\ DocsOK /\ msg \in [Deliveries -> Messages] /\ msg[m] \in Messages
      /\ doc \in [Docs -> Documents] /\ doc[d] \in Documents
      /\ OneJob /\ JobsKnow /\ DocsServed
  BY DEF SlotsInv, Typed, MsgsOK, DocsOK, Served
<1>2. ASSUME Goal, msg'[m].job.doc = d
      PROVE  /\ Cleaned(m)' /\ Bare(d)'
             /\ doc'[d].file # 0 => doc[d].file # 0
             /\ doc'[d].file # 0 /\ doc'[d].status \in {"ready", "failed"} =>
                  EndsAt(doc'[d].status, msg'[m].at)
  <2>1. Doc(m)' = d
    BY <1>2 DEF Doc, Job
  <2>. QED
    BY <1>2, <2>1 DEF Cleaned, Bare, EndsAt
<1>. HIDE DEF Goal
<1>3. ASSUME NEW x, Goto(m, x) PROVE nx = x /\ msg'[m].job.doc = d
  BY <1>1, <1>3 DEF Goto, Messages, Doc, Job
<1>4. ASSUME NEW why, Raise(m, why) PROVE nx = "finvectors" /\ msg'[m].job.doc = d
  BY <1>1, <1>4 DEF Raise, Messages, Doc, Job
<1>5. /\ at \in Before \cup Failing => doc[d].status \in {"pending", "processing", "gone"}
      /\ at \in Within => doc[d].status \in {"processing", "gone"}
      /\ at \in {"okfile", "okrelease"} => doc[d].status \in {"ready", "gone"}
      /\ at \in {"finfile", "finrelease"} => doc[d].status \in {"failed", "gone"}
      /\ at \in {"finstatus", "finfile", "finrelease", "retryrelease", "retryadmit"} =>
           doc[d].vectors = 0
  <2>1. Knows(m) /\ Cleaned(m)
    BY <1>1 DEF JobsKnow, Tidy
  <2>. QED
    BY <2>1 DEF Knows, Cleaned
<1>6. doc[d].file # 0 /\ doc[d].status \in {"ready", "failed"} => EndsAt(doc[d].status, at)
  <2>. SUFFICES ASSUME doc[d].file # 0, doc[d].status \in {"ready", "failed"}
                PROVE  EndsAt(doc[d].status, at)
    OBVIOUS
  <2>1. PICK n \in Deliveries : Doc(n) = d /\ EndsAt(doc[d].status, msg[n].at)
    BY DEF Tidy, FileHeld
  <2>2. Busy(n)
    BY <2>1 DEF EndsAt, Busy
  <2>3. n = m
    BY <1>1, <2>1, <2>2 DEF OneJob
  <2>. QED
    BY <2>1, <2>3
<1>7. ASSUME NEW kind, kind \in {"cleanup", "finalize"} PROVE ~Fault(kind)
  BY <1>7 DEF Fault
<1>8. ~Lose
  BY SpentLess DEF SlotsInv
<1>. USE DEF Before, Within, Failing, Goal
<1>9. CASE DeferSend(m)
  <2>1. nx = "queued" /\ msg'[m].job.doc = d
    BY <1>1, <1>9 DEF DeferSend, Messages, Doc, Job, Jobs
  <2>. QED
    BY <1>1, <1>2, <1>5, <1>9, <2>1 DEF DeferSend
<1>10. CASE Defer(m) \/ Receive(m) \/ SetLease(m) \/ CheckBegin(m)
  BY <1>1, <1>2, <1>3, <1>4, <1>5, <1>10 DEF Defer, Receive, SetLease, CheckBegin
<1>11. CASE Mark(m)
  <2>1. doc'[d].status \in {"processing", "gone"} /\ doc'[d].file = doc[d].file
    BY <1>1, <1>5, <1>11 DEF Mark, SetStatus, Exists, Statuses, Documents
  <2>. QED
    BY <1>2, <1>3, <1>11, <2>1 DEF Mark
<1>12. CASE Stage(m)
  <2>1. nx \in {"finvectors", "check"} /\ msg'[m].job.doc = d /\ UNCHANGED doc
    BY <1>1, <1>4, <1>12 DEF Stage, Messages, Doc, Job
  <2>. QED
    BY <1>2, <1>5, <1>12, <2>1 DEF Stage
<1>13. CASE \/ Check(m) \/ Recheck(m)
            \/ \E why \in {"transient", "permanent"} : Fail(m, why)
  BY <1>2, <1>3, <1>4, <1>5, <1>13 DEF Check, Recheck, Fail
<1>14. CASE \/ Insert(m) \/ Purge(m)
            \/ \E why \in {"transient", "permanent"} : FailInsert(m, why)
  <2>1. doc'[d].status = doc[d].status /\ doc'[d].file = doc[d].file
    BY <1>1, <1>14 DEF Insert, Purge, FailInsert, DropVectors, Documents
  <2>. QED
    BY <1>2, <1>3, <1>4, <1>5, <1>14, <2>1 DEF Insert, Purge, FailInsert
<1>15. CASE Commit(m)
  <2>1. doc'[d].status \in {"ready", "gone"} /\ doc'[d].file = doc[d].file
    BY <1>1, <1>5, <1>15 DEF Commit, SetStatus, Exists, Statuses, Documents
  <2>. QED
    BY <1>2, <1>3, <1>15, <2>1 DEF Commit
<1>16. CASE OkFile(m) \/ FinFile(m)
  <2>1. /\ doc'[d].status = doc[d].status /\ doc'[d].file = 0
        /\ doc'[d].vectors = doc[d].vectors
    BY <1>1, <1>7, <1>16 DEF OkFile, FinFile, ClearFile, Documents
  <2>2. CASE OkFile(m)
    BY <1>2, <1>3, <1>5, <2>1, <2>2 DEF OkFile
  <2>3. CASE FinFile(m)
    BY <1>2, <1>3, <1>5, <2>1, <2>3 DEF FinFile
  <2>. QED
    BY <1>16, <2>2, <2>3
<1>17. CASE FinVectors(m)
  <2>1. /\ doc'[d].status = doc[d].status /\ doc'[d].file = doc[d].file
        /\ doc'[d].vectors = 0
    BY <1>1, <1>7, <1>17 DEF FinVectors, DropVectors, Documents
  <2>. QED
    BY <1>2, <1>3, <1>5, <1>17, <2>1 DEF FinVectors
<1>18. CASE FinStatus(m)
  <2>1. /\ doc'[d].status \in {"failed", "gone"} /\ doc'[d].file = doc[d].file
        /\ doc'[d].vectors = doc[d].vectors
    BY <1>1, <1>5, <1>18 DEF FinStatus, SetStatus, Exists, Statuses, Documents
  <2>. QED
    BY <1>2, <1>3, <1>5, <1>18, <2>1 DEF FinStatus
<1>19. CASE OkRelease(m) \/ FinRelease(m) \/ RetryRelease(m)
  BY <1>2, <1>3, <1>5, <1>6, <1>19 DEF OkRelease, FinRelease, RetryRelease, EndsAt
<1>20. CASE RetryAdmit(m)
  <2>1. nx \in {"finstatus", "retrysend"} /\ msg'[m].job.doc = d
    BY <1>1, <1>3, <1>20 DEF RetryAdmit, Messages, Doc, Job
  <2>. QED
    BY <1>2, <1>5, <1>20, <2>1 DEF RetryAdmit
<1>21. ~RetryStatus(m) /\ ~Unlease(m) /\ ~FailFinalize(m) /\ ~Abort(m) /\ ~RetrySendFails(m)
  BY <1>7, <1>8 DEF RetryStatus, Unlease, FailFinalize, Abort, RetrySendFails, Busy
<1>. QED
  BY <1>9, <1>10, <1>11, <1>12, <1>13, <1>14, <1>15, <1>16, <1>17, <1>18, <1>19,
     <1>20, <1>21 DEF WorkerStep, WorkerFault

LEMMA WorkerTidy ==
  ASSUME SlotsInv, Served, Tidy, RetrySent, {"cleanup", "finalize"} \cap Faults = {}, NothingLost',
         NEW m \in Deliveries, WorkerStep(m) \/ WorkerFault(m)
  PROVE  Tidy'
<1>1. /\ Typed /\ MsgsOK /\ DocsOK /\ msg \in [Deliveries -> Messages]
      /\ doc \in [Docs -> Documents] /\ OneJob /\ JobsKnow /\ DocsServed
  BY DEF SlotsInv, Typed, MsgsOK, DocsOK, Served
<1>2. PICK d \in Docs : Doc(m) = d
  BY <1>1, WorkerAlone
<1>3. /\ UNCHANGED <<sub, del, tr>>
      /\ \A e \in Docs \ {d} : doc'[e] = doc[e]
  BY <1>1, <1>2, WorkerAlone
<1>4. ASSUME NEW n \in Deliveries, Busy(n) PROVE Doc(n) \in Docs
  BY <1>1, <1>4, BusyKnows DEF JobsKnow
(* Other deliveries and documents.                                         *)
<1>5. ASSUME NEW n \in Deliveries, msg'[n] = msg[n], Busy(n) => Doc(n) # d PROVE Cleaned(n)'
  <2>1. CASE Busy(n)
    <3>1. PICK e \in Docs \ {d} : Doc(n) = e
      BY <1>4, <1>5, <2>1
    <3>. QED
      BY <1>3, <1>5, <3>1 DEF Cleaned, Tidy, Doc, Job
  <2>2. CASE ~Busy(n)
    BY <1>5, <2>2 DEF Cleaned, Busy
  <2>. QED
    BY <2>1, <2>2
<1>6. ASSUME NEW e \in Docs, doc'[e] = doc[e],
             \A n \in Deliveries :
               msg[n].at \in {"okfile", "finfile"} /\ Doc(n) = e => msg'[n] = msg[n]
      PROVE  Bare(e)' /\ FileHeld(e)'
  <2>1. Bare(e) /\ FileHeld(e)
    BY DEF Tidy
  <2>2. Bare(e)'
    BY <1>6, <2>1 DEF Bare
  <2>3. ASSUME doc[e].file # 0, doc[e].status \in {"ready", "failed"}
        PROVE  \E n \in Deliveries : Doc(n)' = e /\ EndsAt(doc[e].status, msg'[n].at)
    <3>1. PICK n \in Deliveries : Doc(n) = e /\ EndsAt(doc[e].status, msg[n].at)
      BY <2>1, <2>3 DEF FileHeld
    <3>2. msg'[n] = msg[n]
      BY <1>6, <3>1 DEF EndsAt
    <3>. QED
      BY <3>1, <3>2 DEF Doc, Job
  <2>. QED
    BY <1>3, <1>6, <2>1, <2>2, <2>3 DEF FileHeld
<1>7. CASE Busy(m) /\ ~RetrySend(m)
  <2>1. \A n \in Deliveries \ {m} : msg'[n] = msg[n]
    <3>1. Moves(m)
      BY <1>1, <1>7, WorkerMsg DEF Resends
    <3>. QED
      BY <1>1, <3>1 DEF Moves
  <2>2. /\ Cleaned(m)' /\ Bare(d)'
        /\ doc'[d].file # 0 => doc[d].file # 0
        /\ doc'[d].file # 0 /\ doc'[d].status \in {"ready", "failed"} =>
             EndsAt(doc'[d].status, msg'[m].at)
    BY <1>2, <1>7, WorkerTidies
  <2>3. \A n \in Deliveries \ {m} : Cleaned(n)'
    BY <1>1, <1>2, <1>5, <1>7, <2>1 DEF OneJob
  <2>4. \A e \in Docs \ {d} : Bare(e)' /\ FileHeld(e)'
    BY <1>2, <1>3, <1>6, <2>1
  <2>5. FileHeld(d)'
    <3>1. Doc(m)' = d
      <4>1. Moves(m) /\ Job(m) \in Jobs
        BY <1>1, <1>7, WorkerMsg, WorkerBusy DEF Resends
      <4>2. msg'[m].at # "free"
        <5>1. ~Unlease(m)
          BY <1>7 DEF Unlease, Busy
        <5>. QED
          BY <1>1, <1>7, <5>1, AtAfter DEF WorkerStep, WorkerFault, Defer, Receive, SetLease,
             CheckBegin, Mark, Check, Insert, Recheck, Purge, Commit, OkFile, OkRelease,
             FinVectors, FinStatus, FinFile, FinRelease, RetryRelease, RetryStatus, Fail,
             FailInsert, FailFinalize, RetrySendFails, Abort
      <4>. QED
        BY <1>1, <1>2, <4>1, <4>2 DEF Moves, Follows, Doc, Job, Jobs
    <3>2. doc'[d].status \in {"none", "gone"} => doc[d].status \in {"none", "gone"}
      BY <1>1, <1>2, WorkerDoc DEF Documents, Statuses
    <3>3. FileHeld(d)
      BY DEF Tidy
    <3>. QED
      BY <1>3, <2>2, <3>1, <3>2, <3>3 DEF FileHeld
  <2>. QED
    BY <2>2, <2>3, <2>4, <2>5 DEF Tidy
<1>8. CASE RetrySend(m)
  <2>1. AnyFree \in Deliveries /\ msg[AnyFree].at = "free" /\ UNCHANGED doc
        /\ msg[m].at = "retrysend"
    BY <1>8, FreeOne DEF RetrySend
  <2>2. /\ msg'[m].at = "retrystatus" /\ msg'[AnyFree].at = "queued"
        /\ \A n \in Deliveries \ {m, AnyFree} : msg'[n] = msg[n]
    BY <1>1, <1>8, <2>1 DEF RetrySend, Messages, Message
  <2>3. ASSUME NEW n \in Deliveries PROVE Cleaned(n)'
    <3>1. CASE n \in {m, AnyFree}
      BY <2>2, <3>1 DEF Cleaned
    <3>2. CASE n \notin {m, AnyFree}
      BY <1>1, <1>2, <1>5, <2>1, <2>2, <3>2 DEF OneJob, Busy
    <3>. QED
      BY <3>1, <3>2
  <2>4. ASSUME NEW e \in Docs PROVE Bare(e)' /\ FileHeld(e)'
    BY <1>6, <2>1, <2>2
  <2>. QED
    BY <2>3, <2>4 DEF Tidy
<1>9. CASE ~Busy(m)
  <2>1. RetryStatus(m) \/ Unlease(m)
    <3>1. ~Lose
      BY SpentLess DEF SlotsInv
    <3>. QED
      BY <1>1, <1>9, <3>1, WorkerBusy DEF Busy, WorkerStep, WorkerFault, Defer, DeferSend,
         Receive, SetLease, CheckBegin, Mark, Stage, Check, Insert, Recheck, Purge, Commit,
         OkFile, OkRelease, FinVectors, FinStatus, FinFile, FinRelease, RetryRelease,
         RetryAdmit, RetrySend, Fail, FailInsert, FailFinalize, RetrySendFails, Abort
  <2>2. /\ msg[m].at \notin {"okfile", "finfile"} /\ msg'[m].at \in {"unlease", "free"}
        /\ \A n \in Deliveries \ {m} : msg'[n] = msg[n]
    BY <1>1, <1>9, <2>1, AtAfter DEF Busy, RetryStatus, Unlease, Goto
  <2>3. /\ doc'[d].vectors = doc[d].vectors /\ doc'[d].file = doc[d].file
        /\ doc'[d].status = doc[d].status \/ (doc'[d].status = "pending" /\ Exists(d))
    BY <1>1, <1>2, <2>1 DEF RetryStatus, Unlease, SetStatus, Documents
  <2>4. ASSUME NEW n \in Deliveries PROVE Cleaned(n)'
    <3>1. CASE n = m
      BY <2>2, <3>1 DEF Cleaned
    <3>2. CASE n # m
      BY <1>4, <1>3, <2>2, <2>3, <3>2 DEF Cleaned, Tidy, Doc, Job, Busy
    <3>. QED
      BY <3>1, <3>2
  <2>5. ASSUME NEW e \in Docs PROVE Bare(e)' /\ FileHeld(e)'
    <3>1. CASE doc'[e] = doc[e]
      BY <1>6, <2>2, <3>1
    <3>2. CASE e = d /\ doc'[d].status = "pending" /\ Exists(d)
      <4>1. FileHeld(d)
        BY DEF Tidy
      <4>. QED
        BY <1>3, <2>3, <3>2, <4>1 DEF FileHeld, Bare, Exists, Statuses
    <3>3. CASE e = d /\ doc'[d].status = doc[d].status
      <4>1. doc'[d] = doc[d]
        BY <1>1, <1>2, <2>1, <3>3 DEF RetryStatus, Unlease, SetStatus, Documents
      <4>. QED
        BY <3>1, <3>3, <4>1
    <3>. QED
      BY <1>3, <2>3, <3>1, <3>2, <3>3
  <2>. QED
    BY <2>4, <2>5 DEF Tidy
<1>. QED
  BY <1>7, <1>8, <1>9

LEMMA RequestTidy ==
  ASSUME SlotsInv, Served, Tidy, ~OverlapAdmin, NEW d \in Docs,
         \/ Upload(d) \/ EnqueueRead(d) \/ EnqueueAdmit(d) \/ EnqueueSend(d)
         \/ EnqueueSendFails(d) \/ Refused(d)
  PROVE  Tidy'
<1>1. /\ Typed /\ doc \in [Docs -> Documents] /\ msg \in [Deliveries -> Messages]
      /\ OneJob /\ JobsKnow /\ DocsServed
  BY DEF SlotsInv, Typed, DocsOK, MsgsOK, Served
<1>2. /\ UNCHANGED <<del, tr>> /\ \A e \in Docs \ {d} : doc'[e] = doc[e]
      /\ sub[d].at # "idle" \/ doc[d].status = "none"
  BY <1>1 DEF Upload, EnqueueRead, EnqueueAdmit, EnqueueSend, EnqueueSendFails, Refused
<1>3. ASSUME NEW n \in Deliveries PROVE msg'[n] = msg[n] \/ (~Busy(n) /\ msg'[n].at = "queued")
  <2>1. CASE UNCHANGED msg
    BY <2>1
  <2>2. CASE EnqueueSend(d)
    BY <1>1, <2>2, FreeOne DEF EnqueueSend, Message, Busy
  <2>. QED
    BY <2>1, <2>2 DEF Upload, EnqueueRead, EnqueueAdmit, EnqueueSendFails, Refused
<1>4. ASSUME NEW n \in Deliveries PROVE Cleaned(n)'
  <2>1. CASE Busy(n)
    <3>1. PICK e \in Docs \ {d} : Doc(n) = e
      BY <1>1, <1>2, <2>1, NoJobYet
    <3>. QED
      BY <1>2, <1>3, <2>1, <3>1 DEF Cleaned, Tidy, Doc, Job
  <2>2. CASE ~Busy(n)
    BY <1>3, <2>2 DEF Cleaned, Busy
  <2>. QED
    BY <2>1, <2>2
<1>5. ASSUME NEW e \in Docs, doc'[e] = doc[e] PROVE Bare(e)' /\ FileHeld(e)'
  <2>1. Bare(e) /\ FileHeld(e)
    BY DEF Tidy
  <2>2. ASSUME doc[e].file # 0, doc[e].status \in {"ready", "failed"}
        PROVE  \E n \in Deliveries : Doc(n)' = e /\ EndsAt(doc[e].status, msg'[n].at)
    <3>1. PICK n \in Deliveries : Doc(n) = e /\ EndsAt(doc[e].status, msg[n].at)
      BY <2>1, <2>2 DEF FileHeld
    <3>2. msg'[n] = msg[n]
      BY <1>3, <3>1 DEF EndsAt, Busy
    <3>. QED
      BY <3>1, <3>2 DEF Doc, Job
  <2>. QED
    BY <1>2, <1>5, <2>1, <2>2 DEF Bare, FileHeld
<1>6. CASE Upload(d)
  <2>1. doc'[d].status = "pending" /\ del[d] = "idle" /\ tr = "idle"
    BY <1>1, <1>6 DEF Upload, NotDeleting
  <2>2. Bare(d)' /\ FileHeld(d)'
    BY <1>2, <2>1 DEF Bare, FileHeld
  <2>. QED
    BY <1>2, <1>4, <1>5, <2>2 DEF Tidy
<1>7. CASE Refused(d)
  <2>1. \/ doc'[d] = doc[d]
        \/ doc'[d].file = 0 /\ doc'[d].vectors = doc[d].vectors
    BY <1>1, <1>7 DEF Refused, Documents
  <2>2. doc[d].vectors = 0
    BY <1>1, <1>7 DEF Refused, DocsServed, Fresh, Submitting
  <2>3. Bare(d)' /\ FileHeld(d)'
    BY <1>5, <2>1, <2>2 DEF Bare, FileHeld
  <2>. QED
    BY <1>2, <1>4, <1>5, <2>3 DEF Tidy
<1>8. CASE UNCHANGED doc
  BY <1>4, <1>5, <1>8 DEF Tidy
<1>. QED
  BY <1>6, <1>7, <1>8 DEF EnqueueRead, EnqueueAdmit, EnqueueSend, EnqueueSendFails

EndsInv == JobsInv /\ (Undisturbed /\ NothingLost => Tidy)

LEMMA EndsInvariant ==
  ASSUME MaxContent = 1, PromptFinalize, {"cleanup", "finalize"} \cap Faults = {}, ~OverlapAdmin
  PROVE  Spec => []EndsInv
<1>1. Init => Tidy
  BY FreeMessageOK DEF Init, Tidy, Cleaned, Bare, FileHeld
<1>2. EndsInv /\ JobsInv' /\ [Next]_vars => EndsInv'
  <2>. SUFFICES ASSUME EndsInv, JobsInv', [Next]_vars, Undisturbed', NothingLost'
                PROVE  Tidy'
    BY DEF EndsInv
  <2>1. /\ SlotsInv /\ Undisturbed /\ Served /\ Tidy /\ DocsServed /\ RetrySent
    BY BoundsStep DEF EndsInv, JobsInv, SlotsInv, Served
  <2>2. ASSUME NEW m \in Deliveries, WorkerStep(m) \/ WorkerFault(m) PROVE Tidy'
    BY <2>1, <2>2, WorkerTidy
  <2>3. ASSUME NEW d \in Docs, \/ Upload(d) \/ EnqueueRead(d) \/ EnqueueAdmit(d)
                               \/ EnqueueSend(d) \/ EnqueueSendFails(d) \/ Refused(d)
        PROVE  Tidy'
    BY <2>1, <2>3, RequestTidy
  <2>4. ASSUME \/ \E e \in Docs : DeleteStart(e) \/ DeleteStep(e) \/ DeleteAborts(e)
               \/ TruncateStart \/ TruncateStep
               \/ UNCHANGED <<doc, msg, sub, del, tr>>
        PROVE Tidy'
    BY <2>1, <2>4, DeletionSheds, DeletionFiles, ShedTidy
  <2>. QED
    BY <2>1, <2>2, <2>3, <2>4, CalmKinds
<1>3. Spec => []JobsInv
  BY JobsInvariant
<1>4. Init /\ JobsInv => EndsInv
  BY <1>1 DEF EndsInv
<1>. QED
  BY <1>2, <1>3, <1>4, PTL DEF Spec

(* The finalizers, the refused request, deletion and truncation: a failed  *)
(* document has no vectors left and a settled or deleted one no staged     *)
(* file, once the work on it has ended and unless a failure lost a job.    *)
THEOREM EndingsAreClean ==
  ASSUME MaxContent = 1, PromptFinalize, {"cleanup", "finalize"} \cap Faults = {}, ~OverlapAdmin
  PROVE  Spec => [](Undisturbed /\ NothingLost => EndsClean)
<1>1. EndsInv => (Undisturbed /\ NothingLost => EndsClean)
  <2>. SUFFICES ASSUME Tidy PROVE EndsClean
    BY DEF EndsInv
  <2>1. ASSUME NEW d \in Docs, AtRest(d)
        PROVE  ~\E m \in Deliveries : Doc(m) = d /\ EndsAt(doc[d].status, msg[m].at)
    BY <2>1 DEF AtRest, EndsAt
  <2>. QED
    BY <2>1 DEF Tidy, Bare, FileHeld, EndsClean, FailedIsClean, StagedFilesCleared
<1>. QED
  BY <1>1, EndsInvariant, PTL
=============================================================================

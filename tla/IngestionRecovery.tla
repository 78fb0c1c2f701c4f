------------------------- MODULE IngestionRecovery --------------------------
(***************************************************************************)
(* What happens when workers die or stall: Dramatiq delivers the message   *)
(* of a dead worker again, leases lapse, and recover_stuck_jobs, run by a  *)
(* starting process or by the queue statistics, sends the jobs without a   *)
(* lease once more.                                                        *)
(***************************************************************************)
EXTENDS IngestionWorker

(* The worker dies.  Its message was not acknowledged and comes again; its *)
(* entry in the processing list and its lease stay.                        *)
Crash(m) ==
  /\ msg[m].at \in Running
  /\ Spend("crash")
  /\ msg' = [msg EXCEPT ![m] = Message("queued", Job(m))]
  /\ UNCHANGED <<doc, epochs, slots, api, leasing, rec>>

(* A lease whose owner is dead expires; one whose owner is alive does when *)
(* its renewals fail or come too late.                                     *)
LeaseExpires(id) ==
  /\ id \in leases
  /\ IF \E m \in Deliveries : msg[m].at \in Leased /\ JobId(Job(m)) = id
       THEN Spend("lapse") ELSE UNCHANGED left
  /\ leases' = leases \ {id}
  /\ UNCHANGED <<doc, epochs, slots, msg, api, processing, rec>>

(* _renew_lease sets the key, whether or not it expired.                   *)
Renew(m) ==
  /\ msg[m].at \in Leased
  /\ JobId(Job(m)) \notin leases
  /\ leases' = leases \cup {JobId(Job(m))}
  /\ UNCHANGED <<doc, epochs, slots, msg, api, processing, rec, left>>

-----------------------------------------------------------------------------

Recovering(r, at, jobs) ==
  rec' = [rec EXCEPT ![r] = [at |-> IF jobs = EmptyBag THEN "idle" ELSE at,
                             jobs |-> jobs]]

Select(bag, Test(_)) == [j \in {k \in BagToSet(bag) : Test(k)} |-> bag[j]]

(* The whole processing list is read first,                                *)
RecoverList(r) ==
  /\ rec[r].at = "idle"
  /\ Spend("recover")
  /\ Recovering(r, "listed", processing)
  /\ UNCHANGED <<doc, epochs, slots, msg, api, leasing>>

(* then the leases, and each entry without one is removed and taken, also  *)
(* when the removal finds nothing to remove.                               *)
RecoverTake(r) ==
  /\ rec[r].at = "listed"
  /\ LET lost == Select(rec[r].jobs, LAMBDA j : JobId(j) \notin leases)
     IN  /\ Recovering(r, "taken", lost)
         /\ processing' = processing (-) lost
  /\ UNCHANGED <<doc, epochs, slots, msg, api, leases, left>>

(* Mutant of RecoverMark: the jobs are filtered after the rows changed.    *)
RecoverMarkFirst(r) ==
  /\ rec[r].at = "taken"
  /\ LET Open(d) == doc[d].status \in {"pending", "processing"}
         back == {j.doc : j \in BagToSet(rec[r].jobs)}
     IN  doc' = [d \in Docs |-> IF d \in back /\ Open(d)
                                  THEN [doc[d] EXCEPT !.status = "pending"]
                                  ELSE doc[d]]
  /\ Recovering(r, "marked",
       Select(rec[r].jobs, LAMBDA j : doc'[j.doc].status = "processing"))
  /\ UNCHANGED <<epochs, slots, msg, api, leasing, left>>

(* Documents pending or processing are pending; the other jobs are dropped. *)
RecoverMark(r) ==
  /\ rec[r].at = "taken"
  /\ LET Open(d) == doc[d].status \in {"pending", "processing"}
         back == Select(rec[r].jobs, LAMBDA j : Open(j.doc))
     IN  /\ doc' = [d \in Docs |-> IF \E j \in BagToSet(back) : j.doc = d
                                     THEN [doc[d] EXCEPT !.status = "pending"]
                                     ELSE doc[d]]
         /\ Recovering(r, "marked", back)
  /\ UNCHANGED <<epochs, slots, msg, api, leasing, left>>

RecoverSend(r) ==
  /\ rec[r].at = "marked"
  /\ Free # {}
  /\ \E j \in BagToSet(rec[r].jobs) :
       /\ msg' = [msg EXCEPT ![AnyFree] = Message("queued", j)]
       /\ Recovering(r, "marked", rec[r].jobs (-) SetToBag({j}))
  /\ UNCHANGED <<doc, epochs, slots, api, leasing, left>>

(* The recovering process dies with the jobs it took.                      *)
RecoverCrash(r) ==
  /\ rec[r].at \in {"taken", "marked"}
  /\ Lose
  /\ Recovering(r, "idle", EmptyBag)
  /\ UNCHANGED <<doc, epochs, slots, msg, api, leasing>>

RecoverStep(r) == RecoverTake(r) \/ RecoverMark(r) \/ RecoverSend(r)
=============================================================================

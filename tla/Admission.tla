------------------------------ MODULE Admission ------------------------------
(***************************************************************************)
(* The in-flight counter of the ingestion queue, one Redis command a step. *)
(* admit_inflight increments first and compares afterwards, undoing the    *)
(* increment when the depth is exceeded; release_inflight decrements and,  *)
(* when the result is negative, stores 0 with a second command.  Between   *)
(* the two commands of either function every other client may run.         *)
(*                                                                         *)
(* A client is one ingestion job.  It is admitted by enqueue, by           *)
(* enqueue_retry or by restore_deferred_admission and released by a        *)
(* finalizer, by a failed send or by defer_admitted_job.  A job that runs  *)
(* twice (a lease lost, a worker dead) releases twice: StrayRelease is the *)
(* second release, which no admission paid for.                            *)
(***************************************************************************)
EXTENDS Integers, FiniteSets

CONSTANTS
  Clients,     \* the jobs that ask for a slot
  MaxDepth,    \* the queue_max_depth runtime setting
  MaxStrays    \* bound: how many releases nobody paid for

ASSUME AdmissionAssumption ==
  /\ IsFiniteSet(Clients)
  /\ MaxDepth \in Nat
  /\ MaxStrays \in Nat

VARIABLES
  inflight,    \* the value at INFLIGHT_DEPTH_KEY
  pc,          \* where each client stands
  strays       \* stray releases so far

vars == <<inflight, pc, strays>>

TypeOK ==
  /\ inflight \in Int
  /\ pc \in [Clients -> {"out", "over", "held", "negative"}]
  /\ strays \in 0..MaxStrays

Held    == {c \in Clients : pc[c] = "held"}              \* admitted jobs
Counted == {c \in Clients : pc[c] \in {"held", "over"}}  \* their INCR stands

Init ==
  /\ inflight = 0
  /\ pc = [c \in Clients |-> "out"]
  /\ strays = 0

-----------------------------------------------------------------------------

(* Mutant of Admit: the value before the increment is compared.            *)
AdmitComparesOldValue(c) ==
  /\ pc[c] = "out"
  /\ inflight' = inflight + 1
  /\ pc' = [pc EXCEPT ![c] = IF inflight > MaxDepth THEN "over" ELSE "held"]
  /\ UNCHANGED strays

(* INCR, and the comparison of its result with the depth.                  *)
Admit(c) ==
  /\ pc[c] = "out"
  /\ inflight' = inflight + 1
  /\ pc' = [pc EXCEPT ![c] = IF inflight + 1 > MaxDepth THEN "over" ELSE "held"]
  /\ UNCHANGED strays

(* Mutant of Reject: the increment of a rejected admission stays.          *)
RejectWithoutDecrement(c) ==
  /\ pc[c] = "over"
  /\ pc' = [pc EXCEPT ![c] = "out"]
  /\ UNCHANGED <<inflight, strays>>

(* The DECR that takes the increment of a rejected admission back.         *)
Reject(c) ==
  /\ pc[c] = "over"
  /\ inflight' = inflight - 1
  /\ pc' = [pc EXCEPT ![c] = "out"]
  /\ UNCHANGED strays

(* DECR of a release; a negative result calls for the clamp.               *)
Decrement(c) ==
  /\ inflight' = inflight - 1
  /\ pc' = [pc EXCEPT ![c] = IF inflight - 1 < 0 THEN "negative" ELSE "out"]

Release(c) ==
  /\ pc[c] = "held"
  /\ Decrement(c)
  /\ UNCHANGED strays

StrayRelease(c) ==
  /\ pc[c] = "out"
  /\ strays < MaxStrays
  /\ Decrement(c)
  /\ strays' = strays + 1

(* SET 0, whatever the counter has become since the DECR.                  *)
Clamp(c) ==
  /\ pc[c] = "negative"
  /\ inflight' = 0
  /\ pc' = [pc EXCEPT ![c] = "out"]
  /\ UNCHANGED strays

Next ==
  \E c \in Clients :
    Admit(c) \/ Reject(c) \/ Release(c) \/ StrayRelease(c) \/ Clamp(c)

Spec == Init /\ [][Next]_vars

-----------------------------------------------------------------------------

(* No slot is ever lost: the counter never exceeds the increments that     *)
(* stand, so a job that is gone cannot keep the queue full.  Holds under   *)
(* stray releases and under the non-atomic clamp of release_inflight.      *)
NoLeak == inflight <= Cardinality(Counted)

(* As long as every release was paid for, the two-command admission and    *)
(* the clamp are exact: the counter is the number of standing increments   *)
(* and the clamp of release_inflight is never taken.                       *)
ExactCount ==
  strays = 0 =>
    /\ inflight = Cardinality(Counted)
    /\ \A c \in Clients : pc[c] # "negative"

(* As long as every release was paid for, increment-then-compare never     *)
(* admits more jobs than queue_max_depth, whatever the interleaving.       *)
WithinDepth == strays = 0 => Cardinality(Held) <= MaxDepth

(* The counter of admit_inflight and release_inflight can be relied on:    *)
(* nothing leaks, and what was paid for is exact and within the depth.     *)
SlotsCounted == NoLeak /\ ExactCount /\ WithinDepth

(* The two-command protocol implements the atomic bounded set of slots up  *)
(* to the first stray release: until then every step acquires one slot,    *)
(* releases one, or leaves the held slots alone.                           *)
Slots == INSTANCE BoundedSlots WITH owners <- Held

ImplementsBoundedSlots ==
  Slots!Init /\ [][strays = 0 => Slots!Next]_Held
=============================================================================

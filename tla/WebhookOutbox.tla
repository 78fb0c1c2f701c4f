---------------------------- MODULE WebhookOutbox ----------------------------
(***************************************************************************)
(* The webhook outbox.  enqueue_event commits a pending row for every      *)
(* delivery and sends a message that names it; process_due_deliveries,     *)
(* run by that message and by a periodic tick, claims due rows, calls the  *)
(* subscriber and writes what came of it.  The tick is a chain of delayed  *)
(* messages: each run of the actor claims a Redis key and sends the next.  *)
(*                                                                         *)
(* A message of either kind is an actor here: the one that names a row has *)
(* the row's name, the ticks have slots of their own.                      *)
(***************************************************************************)
EXTENDS Integers, FiniteSets

CONSTANTS
  Rows,         \* the deliveries
  Ticks,        \* slots for tick messages
  NoTick,       \* the schedule key is free
  Limit,        \* rows that a tick claims at most
  MaxAttempts,  \* one more than the number of webhook_retry_delays
  MaxBoots,     \* bound: worker starts after the first one
  MaxCrashes,   \* bound: worker crashes
  MaxLapses,    \* bound: attempts that outlive their claim
  MaxLosses,    \* bound: database or Redis errors in an actor, see Lose
  MaxFaults     \* bound: starts, crashes and errors together

ASSUME OutboxAssumption ==
  /\ IsFiniteSet(Rows) /\ IsFiniteSet(Ticks)
  /\ Rows \cap Ticks = {} /\ NoTick \notin Ticks
  /\ {Limit, MaxAttempts} \subseteq Nat \ {0}
  /\ {MaxBoots, MaxCrashes, MaxLapses, MaxLosses, MaxFaults} \subseteq Nat

VARIABLES
  row,      \* webhook_deliveries: status, attempts, next_retry_at
  calls,    \* how often the subscriber was called for a row
  act,      \* where each actor stands
  tries,    \* the attempts under way
  key,      \* the tick that the schedule key was claimed for
  seeder,   \* the worker that is seeding the periodic jobs
  left      \* what remains of the bounds

vars == <<row, calls, act, tries, key, seeder, left>>

Actors == Rows \cup Ticks

Stored == {"pending", "delivered", "failed"}

TypeOK ==
  /\ row \in [Rows -> [status: Stored \cup {"none", "gone"}, attempts: Nat,
                       next: {"null", "later", "passed"}]]
  /\ calls \in [Rows -> Nat]
  /\ act \in [Actors -> {"free", "unsent", "delayed", "unacked", "queued",
                         "work", "failing", "schedule", "resend"}]
  /\ tries \subseteq [by: Actors, row: Rows, n: Nat \ {0},
                      out: {"none", "ok", "error", "blocked"}]
  /\ key \in Ticks \cup {NoTick}
  /\ seeder \in {"idle", "check", "claim"}
  /\ left \in [{"boot", "crash", "lapse", "loss"} -> Nat]

(* The first worker has just claimed the startup seed.                     *)
Init ==
  /\ row = [d \in Rows |-> [status |-> "none", attempts |-> 0, next |-> "null"]]
  /\ calls = [d \in Rows |-> 0]
  /\ act = [a \in Actors |-> "free"]
  /\ tries = {}
  /\ key = NoTick
  /\ seeder = "check"
  /\ left = [boot |-> MaxBoots, crash |-> MaxCrashes, lapse |-> MaxLapses,
             loss |-> MaxLosses]

Used(what, max) == max - left[what]

Faults == Used("boot", MaxBoots) + Used("crash", MaxCrashes) + Used("loss", MaxLosses)

Spend(what) ==
  /\ left[what] > 0 /\ (what = "lapse" \/ Faults < MaxFaults)
  /\ left' = [left EXCEPT ![what] = @ - 1]

(* An exception that ends an actor: its message is dead-lettered.          *)
Lose == Spend("loss")

NothingLost == left.loss = MaxLosses

Goto(a, at) == act' = [act EXCEPT ![a] = at]

TriesBy(a) == {x \in tries : x.by = a}

-----------------------------------------------------------------------------

(* enqueue_event commits the row first,                                    *)
Store(d) ==
  /\ row[d].status = "none"
  /\ row' = [row EXCEPT ![d].status = "pending"]
  /\ Goto(d, "unsent")
  /\ UNCHANGED <<calls, tries, key, seeder, left>>

(* and then sends the message that names it,                               *)
SendTarget(d) ==
  /\ act[d] = "unsent"
  /\ Goto(d, "queued")
  /\ UNCHANGED <<row, calls, tries, key, seeder, left>>

(* unless the process dies or the broker is unreachable.                   *)
SendFails(d) ==
  /\ act[d] = "unsent"
  /\ Goto(d, "free")
  /\ UNCHANGED <<row, calls, tries, key, seeder, left>>

(* The webhook is deleted, or the row is past its retention.               *)
Delete(d) ==
  /\ row[d].status \in Stored
  /\ row' = [row EXCEPT ![d].status = "gone"]
  /\ UNCHANGED <<calls, act, tries, key, seeder, left>>

(* next_retry_at passes.  While an attempt is under way the claim that     *)
(* covers it has run out: it lasts a minute, and the attempt may have      *)
(* waited for the webhook's semaphore.                                     *)
TimePasses(d) ==
  /\ row[d].status = "pending" /\ row[d].next = "later"
  /\ IF \E x \in tries : x.row = d THEN Spend("lapse") ELSE UNCHANGED left
  /\ row' = [row EXCEPT ![d].next = "passed"]
  /\ UNCHANGED <<calls, act, tries, key, seeder>>

-----------------------------------------------------------------------------

Due == {d \in Rows : row[d].status = "pending" /\ row[d].next # "later"}

(* What an actor may claim: its own row, or up to Limit rows.              *)
DueBatches(a) ==
  LET size == IF Cardinality(Due) < Limit THEN Cardinality(Due) ELSE Limit
  IN  IF a \in Rows THEN {Due \cap {a}}
                    ELSE {b \in SUBSET Due : Cardinality(b) = size}

(* Mutant of Claim: rows that never had an attempt are not due.            *)
ClaimMissesNull(a) ==
  /\ act[a] = "queued"
  /\ \E b \in DueBatches(a) :
       LET mine == {d \in b : a \in Rows \/ row[d].next = "passed"}
       IN  /\ row' = [d \in Rows |-> IF d \notin mine THEN row[d]
                       ELSE [row[d] EXCEPT !.attempts = @ + 1, !.next = "later"]]
           /\ tries' = tries \cup {[by |-> a, row |-> d, out |-> "none",
                                    n |-> row[d].attempts + 1] : d \in mine}
  /\ Goto(a, "work")
  /\ UNCHANGED <<calls, key, seeder, left>>

(* Mutant of Claim: the claim does not put off the next attempt.           *)
ClaimWithoutLease(a) ==
  /\ act[a] = "queued"
  /\ \E b \in DueBatches(a) :
       /\ row' = [d \in Rows |-> IF d \in b
                    THEN [row[d] EXCEPT !.attempts = @ + 1] ELSE row[d]]
       /\ tries' = tries \cup {[by |-> a, row |-> d, out |-> "none",
                                n |-> row[d].attempts + 1] : d \in b}
  /\ Goto(a, "work")
  /\ UNCHANGED <<calls, key, seeder, left>>

(* Mutant of Claim: an attempt is counted only once it has ended.          *)
ClaimCountsLater(a) ==
  /\ act[a] = "queued"
  /\ \E b \in DueBatches(a) :
       /\ row' = [d \in Rows |-> IF d \in b
                    THEN [row[d] EXCEPT !.next = "later"] ELSE row[d]]
       /\ tries' = tries \cup {[by |-> a, row |-> d, out |-> "none",
                                n |-> row[d].attempts + 1] : d \in b}
  /\ Goto(a, "work")
  /\ UNCHANGED <<calls, key, seeder, left>>

(* One transaction: SELECT ... FOR UPDATE SKIP LOCKED, the attempt is      *)
(* counted and next_retry_at put off until the claim ends.                 *)
Claim(a) ==
  /\ act[a] = "queued"
  /\ \E b \in DueBatches(a) :
       /\ row' = [d \in Rows |-> IF d \in b
                    THEN [row[d] EXCEPT !.attempts = @ + 1, !.next = "later"]
                    ELSE row[d]]
       /\ tries' = tries \cup {[by |-> a, row |-> d, out |-> "none",
                                n |-> row[d].attempts + 1] : d \in b}
  /\ Goto(a, "work")
  /\ UNCHANGED <<calls, key, seeder, left>>

Outcome(x, out) == tries' = (tries \ {x}) \cup {[x EXCEPT !.out = out]}

(* The call of the subscriber succeeds, fails, or is not made because the  *)
(* URL is not allowed.                                                     *)
Post(x) ==
  /\ x.out = "none"
  /\ \/ \E out \in {"ok", "error"} :
          Outcome(x, out) /\ calls' = [calls EXCEPT ![x.row] = @ + 1]
     \/ Outcome(x, "blocked") /\ UNCHANGED calls
  /\ UNCHANGED <<row, act, key, seeder, left>>

(* Mutant of Save: the last of the attempts is not taken for the last.     *)
SaveNeverLast(x) ==
  /\ x.out # "none"
  /\ tries' = tries \ {x}
  /\ LET end == IF x.out = "ok" THEN "delivered"
                ELSE IF x.out = "blocked" THEN "failed" ELSE "pending"
     IN  row' = IF row[x.row].status \notin Stored THEN row
                ELSE IF end = "pending" THEN [row EXCEPT ![x.row].next = "later"]
                ELSE [row EXCEPT ![x.row].status = end, ![x.row].next = "null"]
  /\ UNCHANGED <<calls, act, key, seeder, left>>

(* UPDATE webhook_deliveries WHERE id, whatever became of the row.  A      *)
(* retry leaves the status alone and only sets next_retry_at.              *)
Save(x) ==
  /\ x.out # "none"
  /\ tries' = tries \ {x}
  /\ LET end == IF x.out = "ok" THEN "delivered"
                ELSE IF x.out = "blocked" \/ x.n >= MaxAttempts THEN "failed"
                ELSE "pending"
     IN  row' = IF row[x.row].status \notin Stored THEN row
                ELSE IF end = "pending" THEN [row EXCEPT ![x.row].next = "later"]
                ELSE [row EXCEPT ![x.row].status = end, ![x.row].next = "null"]
  /\ UNCHANGED <<calls, act, key, seeder, left>>

(* The update fails: the exception ends the actor, while the attempts it   *)
(* gathered with this one go on.                                           *)
SaveFails(x) ==
  /\ x.out # "none"
  /\ Lose
  /\ tries' = tries \ {x}
  /\ Goto(x.by, "failing")
  /\ UNCHANGED <<row, calls, key, seeder>>

(* All attempts have ended.  Only a tick goes on to schedule the next one. *)
Finish(a) ==
  /\ act[a] \in {"work", "failing"} /\ TriesBy(a) = {}
  /\ Goto(a, IF a \in Ticks /\ act[a] = "work" THEN "schedule" ELSE "free")
  /\ UNCHANGED <<row, calls, tries, key, seeder, left>>

-----------------------------------------------------------------------------

(* SET key NX: whoever finds it taken leaves the next tick to its owner.   *)
Schedule(t) ==
  /\ act[t] = "schedule"
  /\ IF key = NoTick THEN key' = t /\ Goto(t, "resend")
                     ELSE Goto(t, "free") /\ UNCHANGED key
  /\ UNCHANGED <<row, calls, tries, seeder, left>>

FreeTicks == {t \in Ticks : act[t] = "free"}

(* Mutant of Resend: a tick that did nothing is not followed by another.   *)
ResendSometimes(t) ==
  /\ act[t] = "resend"
  /\ Goto(t, "delayed") \/ (Due = {} /\ Goto(t, "free"))
  /\ UNCHANGED <<row, calls, tries, key, seeder, left>>

(* The next tick is sent, to come when the key is gone, and this one is    *)
(* acknowledged: the slot goes over to the next.                           *)
Resend(t) ==
  /\ act[t] = "resend"
  /\ Goto(t, "delayed")
  /\ UNCHANGED <<row, calls, tries, key, seeder, left>>

(* The worker dies after it sent the next tick: the present one, not yet   *)
(* acknowledged, comes again as well.                                      *)
CrashAfterResend(t) ==
  /\ act[t] = "resend"
  /\ Spend("crash")
  /\ \E u \in FreeTicks : act' = [act EXCEPT ![t] = "delayed", ![u] = "unacked"]
  /\ UNCHANGED <<row, calls, tries, key, seeder>>

KeyExpires ==
  /\ key # NoTick
  /\ key' = NoTick
  /\ UNCHANGED <<row, calls, act, tries, seeder, left>>

(* A delayed message is due, or the message of a dead worker comes again:  *)
(* both take longer than the key that was claimed for it lives.            *)
Wake(a) ==
  /\ act[a] \in {"delayed", "unacked"} /\ key # a
  /\ Goto(a, "queued")
  /\ UNCHANGED <<row, calls, tries, key, seeder, left>>

Running == {"queued", "work", "failing", "schedule", "resend"}

(* The worker dies, with the attempts of its actor; the message was not    *)
(* acknowledged.                                                           *)
Crash(a) ==
  /\ act[a] \in Running
  /\ Spend("crash")
  /\ tries' = tries \ TriesBy(a)
  /\ Goto(a, "unacked")
  /\ UNCHANGED <<row, calls, key, seeder>>

(* The claim or the schedule key raises: no clause catches it and there is *)
(* no next tick.                                                           *)
ActorFails(a) ==
  /\ act[a] \in {"queued", "schedule"}
  /\ Lose
  /\ Goto(a, "free")
  /\ UNCHANGED <<row, calls, tries, key, seeder>>

-----------------------------------------------------------------------------

(* A worker starts.  The startup seed key admits one of them in 30 s.      *)
Boot ==
  /\ seeder = "idle"
  /\ Spend("boot")
  /\ seeder' = "check"
  /\ UNCHANGED <<row, calls, act, tries, key>>

(* _delayed_actor_exists: is a tick waiting already?                       *)
SeedCheck ==
  /\ seeder = "check"
  /\ seeder' = IF \E t \in Ticks : act[t] = "delayed" THEN "idle" ELSE "claim"
  /\ UNCHANGED <<row, calls, act, tries, key, left>>

(* Mutant of SeedClaim: the schedule key is not asked.                     *)
SeedTwice ==
  /\ seeder = "claim"
  /\ \E t, u \in FreeTicks :
       /\ act' = [act EXCEPT ![t] = "delayed", ![u] = "delayed"]
       /\ key' = t
  /\ seeder' = "idle"
  /\ UNCHANGED <<row, calls, tries, left>>

(* Then the key is claimed as by a tick, and the first message sent.       *)
SeedClaim ==
  /\ seeder = "claim"
  /\ IF key = NoTick
       THEN \E t \in FreeTicks : key' = t /\ Goto(t, "delayed")
       ELSE UNCHANGED <<key, act>>
  /\ seeder' = "idle"
  /\ UNCHANGED <<row, calls, tries, left>>

-----------------------------------------------------------------------------

ActorStep(a) ==
  \/ Wake(a) \/ Claim(a) \/ Finish(a)
  \/ \E x \in TriesBy(a) : Post(x) \/ Save(x)

TickStep(t) == Schedule(t) \/ Resend(t)

SeedStep == SeedCheck \/ SeedClaim

Next ==
  \/ \E d \in Rows :
       Store(d) \/ SendTarget(d) \/ SendFails(d) \/ Delete(d) \/ TimePasses(d)
  \/ \E a \in Actors :
       ActorStep(a) \/ Crash(a) \/ ActorFails(a)
       \/ \E x \in TriesBy(a) : SaveFails(x)
  \/ \E t \in Ticks : TickStep(t) \/ CrashAfterResend(t)
  \/ KeyExpires \/ Boot \/ SeedStep

(* Messages are run and actors go on, retries fall due and keys expire.    *)
(* Nothing has to be stored, sent by name, deleted, started or to fail.    *)
Fairness ==
  /\ \A d \in Rows : WF_vars(TimePasses(d))
  /\ \A a \in Actors : WF_vars(ActorStep(a))
  /\ \A t \in Ticks : WF_vars(TickStep(t))
  /\ WF_vars(KeyExpires) /\ WF_vars(SeedStep)

Spec == Init /\ [][Next]_vars

FairSpec == Spec /\ Fairness

-----------------------------------------------------------------------------

(* A crash cannot hide a call: the attempts a row shows are never fewer    *)
(* than the calls its subscriber got.                                      *)
CallsCounted == \A d \in Rows : calls[d] <= row[d].attempts

(* webhook_retry_delays bounds the calls: only a crash, a failed update or *)
(* an outlived claim adds one.                                             *)
AttemptsBounded ==
  \A d \in Rows :
    row[d].attempts <= MaxAttempts + Used("crash", MaxCrashes)
                       + Used("loss", MaxLosses) + Used("lapse", MaxLapses)

(* While claims are not outlived a row has one attempt at a time, although *)
(* the message that names it, ticks and redelivered messages all claim.    *)
OneAttempt ==
  left.lapse = MaxLapses =>
    \A x, y \in tries : x.row = y.row => x = y

(* And what its outcome says of a delivery is final.                       *)
SettledIsFinal ==
  [][left.lapse = MaxLapses =>
       \A d \in Rows : row[d].status \in {"delivered", "failed"} =>
         row'[d].status \in {row[d].status, "gone"}]_vars

(* The chain of ticks does not break when workers die or start: there is   *)
(* always a tick, or a worker about to send one.                           *)
TickAlive ==
  NothingLost => seeder # "idle" \/ \E t \in Ticks : act[t] # "free"

(* Restarts do not multiply the ticks without end: every chain stems from  *)
(* a start or from a crash between sending the next and acknowledging.     *)
ChainsBounded ==
  Cardinality({t \in Ticks : act[t] # "free"})
    + (IF seeder = "idle" THEN 0 ELSE 1)
    <= 1 + Used("boot", MaxBoots) + Used("crash", MaxCrashes)

(* "remain pending with next_retry_at until the next due attempt [...]     *)
(* After all attempts, the delivery is marked failed" (webhooks.mdx): no   *)
(* delivery stays pending, also if its own message was never sent.         *)
EventuallySettled ==
  \A d \in Rows :
    row[d].status = "pending" ~>
      row[d].status \in {"delivered", "failed", "gone"} \/ ~NothingLost
=============================================================================

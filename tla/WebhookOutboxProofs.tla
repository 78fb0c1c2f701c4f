------------------------- MODULE WebhookOutboxProofs -------------------------
(***************************************************************************)
(* Proofs about WebhookOutbox, for every number of deliveries, ticks,      *)
(* attempts, restarts, crashes and failures.                               *)
(***************************************************************************)
EXTENDS WebhookOutbox, FiniteSetTheorems, TLAPS

(* The bounds are only used up.                                            *)
BoundsOK == left.lapse <= MaxLapses /\ left.loss <= MaxLosses

NoLapse == left.lapse = MaxLapses

(* While no claim was outlived, the row of an attempt is claimed for it:   *)
(* no other attempt has it, and it cannot be due.                          *)
Claimed ==
  NoLapse =>
    /\ \A x, y \in tries : x.row = y.row => x = y
    /\ \A x \in tries :
         \/ row[x.row].status = "gone"
         \/ row[x.row].status = "pending" /\ row[x.row].next = "later"

(* Attempts belong to actors that wait for them, and a row that is not     *)
(* stored yet has no actor.                                                *)
Working ==
  /\ \A x \in tries : act[x.by] \in {"work", "failing"}
  /\ \A d \in Rows : row[d].status = "none" => act[d] = "free"

(* The schedule key belongs to a tick that is coming.                      *)
KeyOwned == key \in Ticks => act[key] \in {"resend", "delayed", "unacked"}

(* Only a lost update makes an actor fail.                                 *)
FailingLost == NothingLost => \A a \in Actors : act[a] # "failing"

(* The attempts whose call is still to come.                               *)
Open(d) == {x \in tries : x.row = d /\ x.out = "none"}

(* Calls made and calls to come are all counted.                           *)
CallsAhead ==
  /\ IsFiniteSet(tries)
  /\ \A d \in Rows : calls[d] + Cardinality(Open(d)) <= row[d].attempts

Inv ==
  /\ TypeOK /\ BoundsOK /\ Claimed
  /\ Working /\ KeyOwned /\ FailingLost /\ TickAlive
  /\ CallsAhead

-----------------------------------------------------------------------------

LEMMA InitInv == Init => Inv
<1>. SUFFICES ASSUME Init PROVE Inv
  OBVIOUS
<1>. USE OutboxAssumption DEF Init
<1>1. TypeOK
  BY DEF TypeOK, Stored, Actors
<1>2. BoundsOK /\ Claimed /\ Working /\ KeyOwned /\ FailingLost /\ TickAlive
  BY DEF BoundsOK, Claimed, Working, KeyOwned, FailingLost, TickAlive, Actors
<1>3. CallsAhead
  <2>1. \A d \in Rows : Open(d) = {}
    BY DEF Open
  <2>. QED
    BY <2>1, FS_EmptySet DEF CallsAhead
<1>. QED
  BY <1>1, <1>2, <1>3 DEF Inv

(* What an actor claims are due rows.                                      *)
LEMMA BatchesAreDue ==
  ASSUME NEW a \in Actors, NEW b \in DueBatches(a)
  PROVE  b \subseteq Due /\ b \subseteq Rows
BY DEF DueBatches, Due

(* Every step keeps the types.                                             *)
LEMMA TypeStep == TypeOK /\ [Next]_vars => TypeOK'
<1>. SUFFICES ASSUME TypeOK, [Next]_vars PROVE TypeOK'
  OBVIOUS
<1>. USE OutboxAssumption DEF TypeOK, Stored, Actors, Goto, Spend, Lose
<1>1. ASSUME NEW d \in Rows, Store(d) \/ SendTarget(d) \/ SendFails(d) \/ Delete(d)
      PROVE TypeOK'
  BY <1>1 DEF Store, SendTarget, SendFails, Delete
<1>2. ASSUME NEW d \in Rows, TimePasses(d) PROVE TypeOK'
  BY <1>2 DEF TimePasses
<1>3. ASSUME NEW a \in Actors, Wake(a) \/ Finish(a) \/ ActorFails(a) PROVE TypeOK'
  BY <1>3 DEF Wake, Finish, ActorFails
<1>4. ASSUME NEW a \in Actors, Claim(a) PROVE TypeOK'
  <2>. DEFINE RowType == [status: Stored \cup {"none", "gone"}, attempts: Nat,
                          next: {"null", "later", "passed"}]
              Taken(d) == [row[d] EXCEPT !.attempts = @ + 1, !.next = "later"]
  <2>1. PICK b \in DueBatches(a) :
          /\ row' = [d \in Rows |-> IF d \in b THEN Taken(d) ELSE row[d]]
          /\ tries' = tries \cup {[by |-> a, row |-> d, out |-> "none",
                                   n |-> row[d].attempts + 1] : d \in b}
    BY <1>4 DEF Claim
  <2>2. b \subseteq Rows
    BY BatchesAreDue
  <2>3. ASSUME NEW d \in Rows PROVE Taken(d) \in RowType
    <3>1. row[d] \in RowType /\ row[d].attempts + 1 \in Nat
      OBVIOUS
    <3>2. ASSUME NEW n \in Nat
          PROVE [row[d] EXCEPT !.attempts = n, !.next = "later"] \in RowType
      BY <3>1
    <3>. QED
      BY <3>1, <3>2
  <2>. HIDE DEF Taken
  <2>4. row' \in [Rows -> RowType]
    BY <2>1, <2>3
  <2>5. \A d \in b : row[d].attempts + 1 \in Nat \ {0}
    BY <2>2
  <2>6. tries' \subseteq [by: Actors, row: Rows, n: Nat \ {0},
                          out: {"none", "ok", "error", "blocked"}]
    BY <2>1, <2>2, <2>5
  <2>7. Goto(a, "work") /\ UNCHANGED <<calls, key, seeder, left>>
    BY <1>4 DEF Claim
  <2>. QED
    BY <2>4, <2>6, <2>7
<1>5. ASSUME NEW a \in Actors, NEW x \in TriesBy(a), Post(x) PROVE TypeOK'
  <2>1. x \in tries /\ x.row \in Rows
    BY DEF TriesBy
  <2>2. \A out \in {"ok", "error", "blocked"} :
          [x EXCEPT !.out = out] \in [by: Actors, row: Rows, n: Nat \ {0},
                                      out: {"none", "ok", "error", "blocked"}]
    BY <2>1
  <2>3. PICK out \in {"ok", "error", "blocked"} :
          /\ tries' = (tries \ {x}) \cup {[x EXCEPT !.out = out]}
          /\ calls' = calls \/ calls' = [calls EXCEPT ![x.row] = @ + 1]
    BY <1>5 DEF Post, Outcome
  <2>4. UNCHANGED <<row, act, key, seeder, left>>
    BY <1>5 DEF Post
  <2>5. calls' \in [Rows -> Nat]
    BY <2>1, <2>3
  <2>6. tries' \subseteq [by: Actors, row: Rows, n: Nat \ {0},
                          out: {"none", "ok", "error", "blocked"}]
    BY <2>2, <2>3
  <2>. QED
    BY <2>4, <2>5, <2>6
<1>6. ASSUME NEW a \in Actors, NEW x \in TriesBy(a), Save(x) PROVE TypeOK'
  BY <1>6 DEF Save, TriesBy
<1>7. ASSUME NEW a \in Actors, NEW x \in TriesBy(a), SaveFails(x) PROVE TypeOK'
  BY <1>7 DEF SaveFails, TriesBy
<1>8. ASSUME NEW a \in Actors, Crash(a) PROVE TypeOK'
  BY <1>8 DEF Crash, TriesBy
<1>9. ASSUME NEW t \in Ticks, TickStep(t) PROVE TypeOK'
  BY <1>9 DEF TickStep, Schedule, Resend
<1>10. ASSUME NEW t \in Ticks, CrashAfterResend(t) PROVE TypeOK'
  BY <1>10 DEF CrashAfterResend, FreeTicks
<1>11. CASE KeyExpires
  BY <1>11 DEF KeyExpires
<1>12. CASE Boot
  BY <1>12 DEF Boot
<1>13. CASE SeedStep
  BY <1>13 DEF SeedStep, SeedCheck, SeedClaim, FreeTicks
<1>14. CASE UNCHANGED vars
  BY <1>14 DEF vars
<1>. QED
  BY <1>1, <1>2, <1>3, <1>4, <1>5, <1>6, <1>7, <1>8, <1>9, <1>10, <1>11, <1>12,
     <1>13, <1>14 DEF Next, ActorStep

-----------------------------------------------------------------------------

(* Nothing gives a bound back.                                             *)
LEMMA BoundsStep == TypeOK /\ BoundsOK /\ [Next]_vars =>
  BoundsOK' /\ (NoLapse' => NoLapse) /\ (NothingLost' => NothingLost)
<1>. SUFFICES ASSUME TypeOK, BoundsOK, [Next]_vars
              PROVE  BoundsOK' /\ (NoLapse' => NoLapse)
                     /\ (NothingLost' => NothingLost)
  OBVIOUS
<1>1. \/ UNCHANGED left
      \/ \E what \in {"boot", "crash", "lapse", "loss"} : Spend(what)
  BY DEF Next, vars, Store, SendTarget, SendFails, Delete, TimePasses, ActorStep,
         Wake, Claim, Finish, Post, Save, SaveFails, Crash, ActorFails, TickStep,
         Schedule, Resend, CrashAfterResend, KeyExpires, Boot, SeedStep,
         SeedCheck, SeedClaim, Lose
<1>. QED
  BY <1>1, OutboxAssumption DEF TypeOK, BoundsOK, NoLapse, NothingLost, Spend

(* A claim that was not outlived keeps everyone else away from its row.    *)
LEMMA ClaimedStep == TypeOK /\ BoundsOK /\ Claimed /\ [Next]_vars => Claimed'
<1>. SUFFICES ASSUME TypeOK, BoundsOK, Claimed, [Next]_vars, NoLapse'
              PROVE  Claimed'
  BY DEF Claimed
<1>0. NoLapse
  BY BoundsStep
<1>. USE <1>0 DEF TypeOK, Claimed
<1>1. ASSUME NEW d \in Rows, Store(d) PROVE Claimed'
  <2>1. \A x \in tries : x.row # d
    BY <1>1 DEF Store
  <2>. QED
    BY <1>1, <2>1 DEF Store
<1>2. ASSUME NEW d \in Rows, SendTarget(d) \/ SendFails(d) PROVE Claimed'
  BY <1>2 DEF SendTarget, SendFails
<1>3. ASSUME NEW d \in Rows, Delete(d) PROVE Claimed'
  BY <1>3 DEF Delete
<1>4. ASSUME NEW d \in Rows, TimePasses(d) PROVE Claimed'
  <2>1. \A x \in tries : x.row # d
    BY <1>4 DEF TimePasses, Spend, BoundsOK, NoLapse
  <2>. QED
    BY <1>4, <2>1 DEF TimePasses
<1>5. ASSUME NEW a \in Actors, Wake(a) \/ Finish(a) \/ ActorFails(a) PROVE Claimed'
  BY <1>5 DEF Wake, Finish, ActorFails
<1>6. ASSUME NEW a \in Actors, Claim(a) PROVE Claimed'
  <2>. DEFINE Taken(d) == [row[d] EXCEPT !.attempts = @ + 1, !.next = "later"]
              Try(d) == [by |-> a, row |-> d, out |-> "none",
                         n |-> row[d].attempts + 1]
  <2>1. PICK b \in DueBatches(a) :
          /\ row' = [d \in Rows |-> IF d \in b THEN Taken(d) ELSE row[d]]
          /\ tries' = tries \cup {Try(d) : d \in b}
    BY <1>6 DEF Claim
  <2>2. b \subseteq Due /\ b \subseteq Rows
    BY BatchesAreDue
  <2>3. \A x \in tries : x.row \in Rows /\ x.row \notin b
    BY <2>2 DEF Due
  <2>4. \A d \in b : Taken(d).status = "pending" /\ Taken(d).next = "later"
    BY <2>2 DEF Due
  <2>5. \A d \in b : Try(d).row = d
    OBVIOUS
  <2>. HIDE DEF Taken, Try
  <2>6. ASSUME NEW x \in tries', NEW y \in tries', x.row = y.row PROVE x = y
    BY <2>1, <2>3, <2>5, <2>6
  <2>7. ASSUME NEW x \in tries'
        PROVE \/ row'[x.row].status = "gone"
              \/ row'[x.row].status = "pending" /\ row'[x.row].next = "later"
    <3>1. CASE x \in tries
      BY <2>1, <2>3, <3>1
    <3>2. CASE x \notin tries
      BY <2>1, <2>2, <2>4, <2>5, <3>2
    <3>. QED
      BY <3>1, <3>2
  <2>. QED
    BY <2>6, <2>7
<1>7. ASSUME NEW a \in Actors, NEW x \in TriesBy(a), Post(x) PROVE Claimed'
  <2>1. PICK out \in {"ok", "error", "blocked"} : Outcome(x, out)
    BY <1>7 DEF Post
  <2>2. x \in tries /\ row' = row /\ [x EXCEPT !.out = out].row = x.row
    BY <1>7 DEF Post, TriesBy
  <2>. QED
    BY <2>1, <2>2 DEF Outcome
<1>8. ASSUME NEW a \in Actors, NEW x \in TriesBy(a), Save(x) PROVE Claimed'
  <2>1. x \in tries /\ \A y \in tries' : y \in tries /\ y.row # x.row
    BY <1>8 DEF Save, TriesBy
  <2>2. \A d \in Rows : d # x.row => row'[d] = row[d]
    BY <1>8 DEF Save
  <2>. QED
    BY <2>1, <2>2
<1>9. ASSUME NEW a \in Actors, NEW x \in TriesBy(a), SaveFails(x) PROVE Claimed'
  BY <1>9 DEF SaveFails
<1>10. ASSUME NEW a \in Actors, Crash(a) PROVE Claimed'
  BY <1>10 DEF Crash
<1>11. ASSUME NEW t \in Ticks, TickStep(t) \/ CrashAfterResend(t) PROVE Claimed'
  BY <1>11 DEF TickStep, Schedule, Resend, CrashAfterResend
<1>12. CASE KeyExpires \/ Boot \/ SeedStep
  BY <1>12 DEF KeyExpires, Boot, SeedStep, SeedCheck, SeedClaim
<1>13. CASE UNCHANGED vars
  BY <1>13 DEF vars
<1>. QED
  BY <1>1, <1>2, <1>3, <1>4, <1>5, <1>6, <1>7, <1>8, <1>9, <1>10, <1>11, <1>12,
     <1>13 DEF Next, ActorStep

-----------------------------------------------------------------------------

(* Nobody takes an actor's place while its attempts are under way.         *)
LEMMA WorkingStep == TypeOK /\ Working /\ [Next]_vars => Working'
<1>. SUFFICES ASSUME TypeOK, Working, [Next]_vars PROVE Working'
  OBVIOUS
<1>. USE OutboxAssumption DEF TypeOK, Working, Actors, Goto, TriesBy
<1>1. ASSUME NEW d \in Rows,
             Store(d) \/ SendTarget(d) \/ SendFails(d) \/ Delete(d) \/ TimePasses(d)
      PROVE Working'
  BY <1>1 DEF Store, SendTarget, SendFails, Delete, TimePasses, Stored
<1>2. ASSUME NEW a \in Actors, Wake(a) \/ Finish(a) \/ ActorFails(a) PROVE Working'
  BY <1>2 DEF Wake, Finish, ActorFails
<1>3. ASSUME NEW a \in Actors, Claim(a) PROVE Working'
  <2>. DEFINE Taken(d) == [row[d] EXCEPT !.attempts = @ + 1, !.next = "later"]
              Try(d) == [by |-> a, row |-> d, out |-> "none",
                         n |-> row[d].attempts + 1]
  <2>1. PICK b \in DueBatches(a) :
          /\ row' = [d \in Rows |-> IF d \in b THEN Taken(d) ELSE row[d]]
          /\ tries' = tries \cup {Try(d) : d \in b}
    BY <1>3 DEF Claim
  <2>2. act[a] = "queued" /\ act' = [act EXCEPT ![a] = "work"]
    BY <1>3 DEF Claim
  <2>3. /\ \A d \in Rows : Taken(d).status = row[d].status
        /\ \A d \in b : Try(d).by = a
    OBVIOUS
  <2>. HIDE DEF Taken, Try
  <2>. QED
    BY <2>1, <2>2, <2>3
<1>4. ASSUME NEW a \in Actors, NEW x \in TriesBy(a), Post(x) PROVE Working'
  <2>1. PICK out \in {"ok", "error", "blocked"} : Outcome(x, out)
    BY <1>4 DEF Post
  <2>. QED
    BY <1>4, <2>1 DEF Post, Outcome
<1>5. ASSUME NEW a \in Actors, NEW x \in TriesBy(a), Save(x) \/ SaveFails(x)
      PROVE Working'
  BY <1>5 DEF Save, SaveFails, Stored
<1>6. ASSUME NEW a \in Actors, Crash(a) PROVE Working'
  BY <1>6 DEF Crash, Running
<1>7. ASSUME NEW t \in Ticks, TickStep(t) PROVE Working'
  BY <1>7 DEF TickStep, Schedule, Resend
<1>8. ASSUME NEW t \in Ticks, CrashAfterResend(t) PROVE Working'
  BY <1>8 DEF CrashAfterResend, FreeTicks
<1>9. CASE KeyExpires \/ Boot
  BY <1>9 DEF KeyExpires, Boot
<1>10. CASE SeedStep
  BY <1>10 DEF SeedStep, SeedCheck, SeedClaim, FreeTicks
<1>11. CASE UNCHANGED vars
  BY <1>11 DEF vars
<1>. QED
  BY <1>1, <1>2, <1>3, <1>4, <1>5, <1>6, <1>7, <1>8, <1>9, <1>10, <1>11
  DEF Next, ActorStep

(* The key passes from the tick that claimed it to the one that is sent,   *)
(* and no actor runs a tick whose own key still stands.                    *)
LEMMA KeyStep == TypeOK /\ Working /\ KeyOwned /\ [Next]_vars => KeyOwned'
<1>. SUFFICES ASSUME TypeOK, Working, KeyOwned, [Next]_vars PROVE KeyOwned'
  OBVIOUS
<1>. USE OutboxAssumption DEF TypeOK, KeyOwned, Actors, Goto
<1>1. ASSUME NEW d \in Rows,
             Store(d) \/ SendTarget(d) \/ SendFails(d) \/ Delete(d) \/ TimePasses(d)
      PROVE KeyOwned'
  BY <1>1 DEF Store, SendTarget, SendFails, Delete, TimePasses
<1>2. ASSUME NEW a \in Actors, Wake(a) \/ Claim(a) \/ Finish(a) PROVE KeyOwned'
  BY <1>2 DEF Wake, Claim, Finish
<1>3. ASSUME NEW a \in Actors, NEW x \in TriesBy(a), Post(x) \/ Save(x)
      PROVE KeyOwned'
  BY <1>3 DEF Post, Save
<1>4. ASSUME NEW a \in Actors, Crash(a) \/ ActorFails(a) PROVE KeyOwned'
  BY <1>4 DEF Crash, ActorFails
<1>5. ASSUME NEW t \in Ticks, TickStep(t) PROVE KeyOwned'
  BY <1>5 DEF TickStep, Schedule, Resend
<1>6. ASSUME NEW t \in Ticks, CrashAfterResend(t) PROVE KeyOwned'
  BY <1>6 DEF CrashAfterResend, FreeTicks
<1>7. CASE KeyExpires \/ Boot
  BY <1>7 DEF KeyExpires, Boot
<1>8. CASE SeedStep
  BY <1>8 DEF SeedStep, SeedCheck, SeedClaim, FreeTicks
<1>9. CASE UNCHANGED vars
  BY <1>9 DEF vars
<1>10. ASSUME NEW a \in Actors, NEW x \in TriesBy(a), SaveFails(x) PROVE KeyOwned'
  BY <1>10 DEF SaveFails, Working, TriesBy
<1>. QED
  BY <1>1, <1>2, <1>3, <1>4, <1>5, <1>6, <1>7, <1>8, <1>9, <1>10 DEF Next, ActorStep

(* An actor fails only where a loss is spent.                              *)
LEMMA FailingStep ==
  TypeOK /\ BoundsOK /\ Working /\ FailingLost /\ [Next]_vars => FailingLost'
<1>. SUFFICES ASSUME TypeOK, BoundsOK, Working, FailingLost, [Next]_vars, NothingLost'
              PROVE  FailingLost'
  BY DEF FailingLost
<1>0. NothingLost
  BY BoundsStep
<1>. USE <1>0, OutboxAssumption DEF TypeOK, FailingLost, Actors, Goto
<1>1. ASSUME NEW d \in Rows,
             Store(d) \/ SendTarget(d) \/ SendFails(d) \/ Delete(d) \/ TimePasses(d)
      PROVE FailingLost'
  BY <1>1 DEF Store, SendTarget, SendFails, Delete, TimePasses
<1>2. ASSUME NEW a \in Actors, Wake(a) \/ Claim(a) \/ Finish(a) PROVE FailingLost'
  BY <1>2 DEF Wake, Claim, Finish
<1>3. ASSUME NEW a \in Actors, NEW x \in TriesBy(a), Post(x) \/ Save(x)
      PROVE FailingLost'
  BY <1>3 DEF Post, Save
<1>4. ASSUME NEW a \in Actors, NEW x \in TriesBy(a), SaveFails(x) PROVE FailingLost'
  BY <1>4 DEF SaveFails, Lose, Spend, BoundsOK, NothingLost
<1>5. ASSUME NEW a \in Actors, Crash(a) \/ ActorFails(a) PROVE FailingLost'
  BY <1>5 DEF Crash, ActorFails
<1>6. ASSUME NEW t \in Ticks, TickStep(t) PROVE FailingLost'
  BY <1>6 DEF TickStep, Schedule, Resend
<1>7. ASSUME NEW t \in Ticks, CrashAfterResend(t) PROVE FailingLost'
  BY <1>7 DEF CrashAfterResend, FreeTicks
<1>8. CASE KeyExpires \/ Boot
  BY <1>8 DEF KeyExpires, Boot
<1>9. CASE SeedStep
  BY <1>9 DEF SeedStep, SeedCheck, SeedClaim, FreeTicks
<1>10. CASE UNCHANGED vars
  BY <1>10 DEF vars
<1>. QED
  BY <1>1, <1>2, <1>3, <1>4, <1>5, <1>6, <1>7, <1>8, <1>9, <1>10 DEF Next, ActorStep

(* Whoever gives way to the owner of the key leaves a tick behind, the     *)
(* owner's; whoever finds the key free sends one.                          *)
LEMMA AliveStep ==
  TypeOK /\ BoundsOK /\ KeyOwned /\ FailingLost /\ TickAlive /\ [Next]_vars
    => TickAlive'
<1>. SUFFICES ASSUME TypeOK, BoundsOK, KeyOwned, FailingLost, TickAlive,
                     [Next]_vars, NothingLost'
              PROVE  TickAlive'
  BY DEF TickAlive
<1>0. NothingLost
  BY BoundsStep
<1>. USE <1>0, OutboxAssumption
         DEF TypeOK, KeyOwned, FailingLost, TickAlive, Actors, Goto
<1>1. ASSUME NEW d \in Rows,
             Store(d) \/ SendTarget(d) \/ SendFails(d) \/ Delete(d) \/ TimePasses(d)
      PROVE TickAlive'
  BY <1>1 DEF Store, SendTarget, SendFails, Delete, TimePasses
<1>2. ASSUME NEW a \in Actors, Wake(a) \/ Claim(a) \/ Finish(a) PROVE TickAlive'
  BY <1>2 DEF Wake, Claim, Finish
<1>3. ASSUME NEW a \in Actors, NEW x \in TriesBy(a), Post(x) \/ Save(x) \/ SaveFails(x)
      PROVE TickAlive'
  BY <1>3 DEF Post, Save, SaveFails
<1>4. ASSUME NEW a \in Actors, Crash(a) PROVE TickAlive'
  BY <1>4 DEF Crash
<1>5. ASSUME NEW a \in Actors, ActorFails(a) PROVE TickAlive'
  BY <1>5 DEF ActorFails, Lose, Spend, BoundsOK, NothingLost
<1>6. ASSUME NEW t \in Ticks, TickStep(t) PROVE TickAlive'
  BY <1>6 DEF TickStep, Schedule, Resend
<1>7. ASSUME NEW t \in Ticks, CrashAfterResend(t) PROVE TickAlive'
  BY <1>7 DEF CrashAfterResend, FreeTicks
<1>8. CASE KeyExpires \/ Boot
  BY <1>8 DEF KeyExpires, Boot
<1>9. CASE SeedStep
  BY <1>9 DEF SeedStep, SeedCheck, SeedClaim, FreeTicks
<1>10. CASE UNCHANGED vars
  BY <1>10 DEF vars
<1>. QED
  BY <1>1, <1>2, <1>3, <1>4, <1>5, <1>6, <1>7, <1>8, <1>9, <1>10 DEF Next, ActorStep

-----------------------------------------------------------------------------

(* Each claim counts the one call that it will make at most.               *)
LEMMA CallsStep == TypeOK /\ CallsAhead /\ [Next]_vars => CallsAhead'
<1>. SUFFICES ASSUME TypeOK, CallsAhead, [Next]_vars PROVE CallsAhead'
  OBVIOUS
<1>. USE DEF TypeOK, CallsAhead
<1>1. \A d \in Rows : IsFiniteSet(Open(d)) /\ Cardinality(Open(d)) \in Nat
  <2>1. \A d \in Rows : Open(d) \subseteq tries
    BY DEF Open
  <2>. QED
    BY <2>1, FS_Subset, FS_CardinalityType
<1>2. ASSUME NEW T \in SUBSET tries, tries' = T, calls' = calls,
             \A d \in Rows : row'[d].attempts = row[d].attempts
      PROVE CallsAhead'
  <2>1. IsFiniteSet(T)
    BY FS_Subset
  <2>2. ASSUME NEW d \in Rows
        PROVE  Open(d)' \subseteq Open(d)
               /\ Cardinality(Open(d)') \in Nat
               /\ Cardinality(Open(d)') <= Cardinality(Open(d))
    <3>1. Open(d)' \subseteq Open(d)
      BY <1>2 DEF Open
    <3>. QED
      BY <3>1, <1>1, FS_Subset, FS_CardinalityType
  <2>3. \A d \in Rows : row[d].attempts \in Nat /\ calls[d] \in Nat
    OBVIOUS
  <2>. QED
    BY <2>1, <2>2, <2>3, <1>1, <1>2
<1>3. ASSUME NEW d \in Rows,
             Store(d) \/ SendTarget(d) \/ SendFails(d) \/ Delete(d) \/ TimePasses(d)
      PROVE CallsAhead'
  BY <1>3, <1>2 DEF Store, SendTarget, SendFails, Delete, TimePasses
<1>4. ASSUME NEW a \in Actors, Wake(a) \/ Finish(a) \/ ActorFails(a) PROVE CallsAhead'
  BY <1>4, <1>2 DEF Wake, Finish, ActorFails
<1>5. ASSUME NEW a \in Actors, Claim(a) PROVE CallsAhead'
  <2>. DEFINE Taken(d) == [row[d] EXCEPT !.attempts = @ + 1, !.next = "later"]
              Try(d) == [by |-> a, row |-> d, out |-> "none",
                         n |-> row[d].attempts + 1]
  <2>1. PICK b \in DueBatches(a) :
          /\ row' = [d \in Rows |-> IF d \in b THEN Taken(d) ELSE row[d]]
          /\ tries' = tries \cup {Try(d) : d \in b}
    BY <1>5 DEF Claim
  <2>2. b \subseteq Rows /\ IsFiniteSet(b) /\ calls' = calls
    BY <1>5, BatchesAreDue, OutboxAssumption, FS_Subset DEF Claim
  <2>3. \A d \in Rows : Taken(d).attempts = row[d].attempts + 1
    OBVIOUS
  <2>4. \A d \in b : Try(d).row = d /\ Try(d).out = "none"
    OBVIOUS
  <2>. HIDE DEF Taken, Try
  <2>5. IsFiniteSet(tries')
    <3>. DEFINE f == [d \in b |-> Try(d)]
                new == {Try(d) : d \in b}
    <3>1. f \in Surjection(b, new)
      BY DEF Surjection
    <3>2. IsFiniteSet(new)
      BY <3>1, <2>2, FS_Surjection
    <3>. QED
      BY <3>2, <2>1, FS_Union
  <2>6. ASSUME NEW d \in Rows
        PROVE calls'[d] + Cardinality(Open(d)') <= row'[d].attempts
    <3>0. /\ row[d].attempts \in Nat /\ calls[d] \in Nat
          /\ calls[d] + Cardinality(Open(d)) <= row[d].attempts
      OBVIOUS
    <3>1. CASE d \in b
      <4>1. Open(d)' = Open(d) \cup {Try(d)}
        <5>1. \A x \in tries' : x \in tries \/ \E e \in b : x = Try(e)
          BY <2>1
        <5>2. tries \subseteq tries' /\ Try(d) \in tries'
          BY <2>1, <3>1
        <5>3. ASSUME NEW x \in tries', x.row = d, x.out = "none"
              PROVE x \in tries \/ x = Try(d)
          BY <5>1, <5>3, <2>4
        <5>4. Try(d).row = d /\ Try(d).out = "none"
          BY <2>4, <3>1
        <5>5. Open(d)' = {x \in tries' : x.row = d /\ x.out = "none"}
          BY DEF Open
        <5>. HIDE DEF TypeOK, CallsAhead
        <5>. QED
          BY <5>2, <5>3, <5>4, <5>5 DEF Open
      <4>2. Cardinality(Open(d)') \in Nat
            /\ Cardinality(Open(d)') <= Cardinality(Open(d)) + 1
        <5>1. IsFiniteSet(Open(d)) /\ Cardinality(Open(d)) \in Nat
          BY <1>1
        <5>2. Cardinality(Open(d) \cup {Try(d)})
                = IF Try(d) \in Open(d) THEN Cardinality(Open(d))
                                        ELSE Cardinality(Open(d)) + 1
          BY <5>1, FS_AddElement
        <5>3. Cardinality(Open(d)') = Cardinality(Open(d) \cup {Try(d)})
          BY <4>1
        <5>. QED
          BY <5>1, <5>2, <5>3
      <4>3. row'[d].attempts = row[d].attempts + 1
        BY <2>1, <2>3, <3>1
      <4>. QED
        BY <4>2, <4>3, <3>0, <2>2, <1>1
    <3>2. CASE d \notin b
      <4>1. Open(d)' = Open(d)
        BY <2>1, <2>4, <3>2 DEF Open
      <4>. QED
        BY <4>1, <2>1, <2>2, <3>0, <3>2
    <3>. QED
      BY <3>1, <3>2
  <2>. QED
    BY <2>5, <2>6
<1>6. ASSUME NEW a \in Actors, NEW x \in TriesBy(a), Post(x) PROVE CallsAhead'
  <2>1. PICK out \in {"ok", "error", "blocked"} :
          /\ tries' = (tries \ {x}) \cup {[x EXCEPT !.out = out]}
          /\ calls' = calls \/ calls' = [calls EXCEPT ![x.row] = @ + 1]
    BY <1>6 DEF Post, Outcome
  <2>2. row' = row /\ x \in tries /\ x.row \in Rows /\ x \in Open(x.row)
    BY <1>6 DEF Post, TriesBy, Open
  <2>3. [x EXCEPT !.out = out].out # "none"
    BY <2>2
  <2>4. IsFiniteSet(tries')
    BY <2>1, FS_Subset, FS_Singleton, FS_Union
  <2>5. ASSUME NEW d \in Rows
        PROVE calls'[d] + Cardinality(Open(d)') <= row'[d].attempts
    <3>0. /\ row[d].attempts \in Nat /\ calls[d] \in Nat
          /\ calls[d] + Cardinality(Open(d)) <= row[d].attempts
      OBVIOUS
    <3>1. Open(d)' = Open(d) \ {x}
      BY <2>1, <2>3 DEF Open
    <3>2. CASE d = x.row
      <4>1. Cardinality(Open(d)') = Cardinality(Open(d)) - 1
        <5>1. IsFiniteSet(Open(d)) /\ x \in Open(d)
          BY <1>1, <2>2, <3>2
        <5>2. Cardinality(Open(d) \ {x}) = Cardinality(Open(d)) - 1
          BY ONLY <5>1, FS_RemoveElement
        <5>3. Cardinality(Open(d)') = Cardinality(Open(d) \ {x})
          BY ONLY <3>1
        <5>. QED
          BY ONLY <5>2, <5>3
      <4>2. calls'[d] <= calls[d] + 1 /\ calls'[d] \in Nat
        BY <2>1, <3>0, <3>2
      <4>. QED
        BY <4>1, <4>2, <3>0, <2>2, <1>1
    <3>3. CASE d # x.row
      <4>1. Open(d)' = Open(d) /\ calls'[d] = calls[d]
        BY <2>1, <3>1, <3>3 DEF Open
      <4>. QED
        BY <4>1, <3>0, <2>2
    <3>. QED
      BY <3>2, <3>3
  <2>. QED
    BY <2>4, <2>5
<1>7. ASSUME NEW a \in Actors, NEW x \in TriesBy(a), Save(x) \/ SaveFails(x)
      PROVE CallsAhead'
  BY <1>7, <1>2 DEF Save, SaveFails
<1>8. ASSUME NEW a \in Actors, Crash(a) PROVE CallsAhead'
  BY <1>8, <1>2 DEF Crash
<1>9. ASSUME NEW t \in Ticks, TickStep(t) \/ CrashAfterResend(t) PROVE CallsAhead'
  BY <1>9, <1>2 DEF TickStep, Schedule, Resend, CrashAfterResend
<1>10. CASE KeyExpires \/ Boot \/ SeedStep
  BY <1>10, <1>2 DEF KeyExpires, Boot, SeedStep, SeedCheck, SeedClaim
<1>11. CASE UNCHANGED vars
  BY <1>11, <1>2 DEF vars
<1>. QED
  BY <1>3, <1>4, <1>5, <1>6, <1>7, <1>8, <1>9, <1>10, <1>11 DEF Next, ActorStep

-----------------------------------------------------------------------------

(* The invariant is inductive.                                             *)
LEMMA InvStep == Inv /\ [Next]_vars => Inv'
BY TypeStep, BoundsStep, ClaimedStep, WorkingStep, KeyStep, FailingStep,
   AliveStep, CallsStep DEF Inv

LEMMA InvHolds == Spec => []Inv
BY InitInv, InvStep, PTL DEF Spec

(* The rows, the actors and the attempts keep their types.                 *)
THEOREM TypeCorrect == Spec => []TypeOK
BY InvHolds, PTL DEF Inv

(* process_due_deliveries never has two attempts of one delivery under     *)
(* way, as long as no attempt outlives the claim that covers it.           *)
THEOREM AttemptsExclude == Spec => []OneAttempt
<1>1. Inv => OneAttempt
  BY DEF Inv, Claimed, NoLapse, OneAttempt
<1>. QED
  BY <1>1, InvHolds, PTL

(* No call of a subscriber is left out of the attempts of its row, however *)
(* many workers die between the claim and the update.                      *)
THEOREM CallsNeverHidden == Spec => []CallsCounted
<1>1. Inv => CallsCounted
  <2>. SUFFICES ASSUME Inv, NEW d \in Rows PROVE calls[d] <= row[d].attempts
    BY DEF CallsCounted
  <2>1. /\ calls[d] + Cardinality(Open(d)) <= row[d].attempts
        /\ IsFiniteSet(Open(d))
    <3>1. Open(d) \subseteq tries
      BY DEF Open
    <3>. QED
      BY <3>1, FS_Subset DEF Inv, CallsAhead
  <2>2. Cardinality(Open(d)) \in Nat /\ calls[d] \in Nat /\ row[d].attempts \in Nat
    BY <2>1, FS_CardinalityType DEF Inv, TypeOK
  <2>. QED
    BY <2>1, <2>2
<1>. QED
  BY <1>1, InvHolds, PTL

(* The periodic tick survives every crash and restart: unless an exception *)
(* ends it, a tick or a worker that seeds one is always there.             *)
THEOREM TickSurvives == Spec => []TickAlive
BY InvHolds, PTL DEF Inv

(* A delivery that was delivered or has failed stays so, as long as no     *)
(* attempt outlives its claim: no late update of another attempt reaches   *)
(* its row.                                                                *)
THEOREM OutcomesFinal == Spec => SettledIsFinal
<1>. DEFINE Final ==
       left.lapse = MaxLapses =>
         \A d \in Rows : row[d].status \in {"delivered", "failed"} =>
           row'[d].status \in {row[d].status, "gone"}
<1>1. Inv /\ [Next]_vars => [Final]_vars
  <2>. SUFFICES ASSUME Inv, [Next]_vars, left.lapse = MaxLapses, NEW d \in Rows,
                       row[d].status \in {"delivered", "failed"}
                PROVE  row'[d].status \in {row[d].status, "gone"}
    OBVIOUS
  <2>. USE DEF Inv, TypeOK
  <2>1. d \notin Due /\ \A x \in tries : x.row \in Rows /\ x.row # d
    BY DEF Claimed, NoLapse, Due
  <2>2. ASSUME NEW e \in Rows, Store(e) \/ SendTarget(e) \/ SendFails(e) \/ TimePasses(e)
        PROVE row'[d] = row[d]
    BY <2>2 DEF Store, SendTarget, SendFails, TimePasses
  <2>3. ASSUME NEW e \in Rows, Delete(e)
        PROVE row'[d].status \in {row[d].status, "gone"}
    BY <2>3 DEF Delete
  <2>4. ASSUME NEW a \in Actors, Claim(a) PROVE row'[d] = row[d]
    BY <2>4, <2>1, BatchesAreDue DEF Claim
  <2>5. ASSUME NEW a \in Actors, NEW x \in TriesBy(a), Save(x) PROVE row'[d] = row[d]
    BY <2>5, <2>1 DEF Save, TriesBy
  <2>6. ASSUME NEW a \in Actors,
               Wake(a) \/ Finish(a) \/ Crash(a) \/ ActorFails(a)
               \/ \E x \in TriesBy(a) : Post(x) \/ SaveFails(x)
        PROVE row'[d] = row[d]
    BY <2>6 DEF Wake, Finish, Crash, ActorFails, Post, SaveFails
  <2>7. ASSUME NEW t \in Ticks, TickStep(t) \/ CrashAfterResend(t)
        PROVE row'[d] = row[d]
    BY <2>7 DEF TickStep, Schedule, Resend, CrashAfterResend
  <2>8. CASE KeyExpires \/ Boot \/ SeedStep \/ UNCHANGED vars
    BY <2>8 DEF KeyExpires, Boot, SeedStep, SeedCheck, SeedClaim, vars
  <2>. QED
    BY <2>2, <2>3, <2>4, <2>5, <2>6, <2>7, <2>8 DEF Next, ActorStep
<1>. QED
  BY <1>1, InvHolds, PTL DEF Spec, SettledIsFinal

-----------------------------------------------------------------------------
(* How many attempts a row can have: webhook_retry_delays, and what was    *)
(* lost or outlived.                                                       *)

Crashes == Used("crash", MaxCrashes)
Losses  == Used("loss", MaxLosses)
Lapses  == Used("lapse", MaxLapses)
Boots   == Used("boot", MaxBoots)

UsedOK == {Crashes, Losses, Lapses, Boots} \subseteq Nat

TriesOf(d) == {x \in tries : x.row = d}

(* The attempts that leave no room for another one.                        *)
Late(d) == {x \in TriesOf(d) : x.n >= MaxAttempts}

OneEach == \A x, y \in tries : x.by = y.by /\ x.row = y.row => x = y

(* A row is pending because the last attempt it was allowed is under way,  *)
(* or was lost with a crash or a failed update; and every attempt under    *)
(* way but the one that the present claim covers outlived its claim.       *)
Account(d) ==
  /\ row[d].status = "none" => row[d].attempts = 0 /\ TriesOf(d) = {}
  /\ row[d].status = "pending" =>
       /\ row[d].attempts < MaxAttempts + Cardinality(Late(d)) + Crashes + Losses
       /\ Cardinality(TriesOf(d)) <= Lapses + (IF row[d].next = "later" THEN 1 ELSE 0)

AttemptsInv ==
  /\ IsFiniteSet(tries) /\ UsedOK /\ OneEach
  /\ \A d \in Rows : Account(d)
  /\ AttemptsBounded

LEMMA Shrunk ==
  ASSUME NEW S, IsFiniteSet(S), NEW T \in SUBSET S, NEW x, S \ T \subseteq {x}
  PROVE  /\ IsFiniteSet(T) /\ Cardinality(T) \in Nat /\ Cardinality(S) \in Nat
         /\ Cardinality(T) <= Cardinality(S) /\ Cardinality(S) <= Cardinality(T) + 1
         /\ T # S => Cardinality(T) = Cardinality(S) - 1
<1>1. /\ IsFiniteSet(T) /\ Cardinality(T) \in Nat /\ Cardinality(S) \in Nat
      /\ Cardinality(T) <= Cardinality(S)
  BY FS_Subset, FS_CardinalityType
<1>2. CASE T = S
  BY <1>1, <1>2
<1>3. CASE T # S
  <2>1. x \in S /\ T = S \ {x}
    BY <1>3
  <2>2. Cardinality(T) = Cardinality(S) - 1
    BY <2>1, FS_RemoveElement
  <2>. QED
    BY <1>1, <1>3, <2>2
<1>. QED
  BY <1>2, <1>3

LEMMA TriesFinite ==
  ASSUME IsFiniteSet(tries), NEW d
  PROVE  /\ IsFiniteSet(TriesOf(d)) /\ IsFiniteSet(Late(d))
         /\ Cardinality(TriesOf(d)) \in Nat /\ Cardinality(Late(d)) \in Nat
         /\ Cardinality(Late(d)) <= Cardinality(TriesOf(d))
<1>1. TriesOf(d) \subseteq tries /\ Late(d) \subseteq TriesOf(d)
  BY DEF TriesOf, Late
<1>. QED
  BY <1>1, FS_Subset, FS_CardinalityType

LEMMA UsedStep ==
  ASSUME TypeOK, UsedOK, [Next]_vars
  PROVE  /\ UsedOK'
         /\ Crashes' >= Crashes /\ Losses' >= Losses /\ Lapses' >= Lapses
         /\ Boots' >= Boots
<1>1. \/ UNCHANGED left
      \/ \E what \in {"boot", "crash", "lapse", "loss"} : Spend(what)
  BY DEF Next, vars, Store, SendTarget, SendFails, Delete, TimePasses, ActorStep,
         Wake, Claim, Finish, Post, Save, SaveFails, Crash, ActorFails, TickStep,
         Schedule, Resend, CrashAfterResend, KeyExpires, Boot, SeedStep,
         SeedCheck, SeedClaim, Lose
<1>2. {MaxBoots, MaxCrashes, MaxLapses, MaxLosses} \subseteq Nat
  BY OutboxAssumption
<1>. QED
  BY <1>1, <1>2 DEF TypeOK, UsedOK, Crashes, Losses, Lapses, Boots, Used, Spend

LEMMA SpentMore ==
  ASSUME TypeOK, UsedOK
  PROVE  /\ Spend("crash") => Crashes' = Crashes + 1 /\ Losses' = Losses /\ Boots' = Boots
         /\ Spend("loss") => Losses' = Losses + 1 /\ Crashes' = Crashes
         /\ Spend("lapse") => Lapses' = Lapses + 1
         /\ Spend("boot") => Boots' = Boots + 1 /\ Crashes' = Crashes
<1>1. {MaxBoots, MaxCrashes, MaxLapses, MaxLosses} \subseteq Nat
  BY OutboxAssumption
<1>. QED
  BY <1>1 DEF TypeOK, UsedOK, Crashes, Losses, Lapses, Boots, Used, Spend

(* What a claim of the rows b by actor a adds: one attempt at each of them. *)
ClaimAdds(a, b, new) ==
  /\ tries' = tries \cup new
  /\ \A x \in new : x.by = a /\ x.row \in b /\ x.n = row[x.row].attempts + 1
  /\ \A x, y \in new : x.row = y.row => x = y
  /\ \A d \in b : \E x \in new : x.row = d
  /\ \A d \in Rows : row'[d].status = row[d].status
  /\ \A d \in b : row'[d].attempts = row[d].attempts + 1 /\ row'[d].next = "later"
  /\ \A d \in Rows \ b : row'[d] = row[d]

LEMMA ClaimTries ==
  ASSUME TypeOK, Working, IsFiniteSet(tries), NEW a \in Actors, Claim(a)
  PROVE  /\ IsFiniteSet(tries')
         /\ \A x \in tries : x.by # a
         /\ \E b \in SUBSET (Due \cap Rows) : \E new : ClaimAdds(a, b, new)
<1>. DEFINE Taken(d) == [row[d] EXCEPT !.attempts = @ + 1, !.next = "later"]
            Try(d) == [by |-> a, row |-> d, out |-> "none", n |-> row[d].attempts + 1]
<1>1. PICK b \in DueBatches(a) :
        /\ row' = [d \in Rows |-> IF d \in b THEN Taken(d) ELSE row[d]]
        /\ tries' = tries \cup {Try(d) : d \in b}
  BY DEF Claim
<1>2. b \subseteq Due /\ b \subseteq Rows /\ IsFiniteSet(b)
  BY BatchesAreDue, OutboxAssumption, FS_Subset
<1>3. \A x \in tries : x.by # a
  BY DEF Claim, Working
<1>4. \A d \in Rows : /\ Taken(d).attempts = row[d].attempts + 1
                      /\ Taken(d).status = row[d].status /\ Taken(d).next = "later"
  BY DEF TypeOK
<1>5. \A d \in b : Try(d).by = a /\ Try(d).row = d /\ Try(d).n = row[d].attempts + 1
  OBVIOUS
<1>. DEFINE new == {Try(d) : d \in b}
<1>6. IsFiniteSet(new)
  <2>. DEFINE f == [d \in b |-> Try(d)]
  <2>1. f \in Surjection(b, new)
    BY DEF Surjection
  <2>. QED
    BY <1>2, <2>1, FS_Surjection
<1>7. IsFiniteSet(tries')
  BY <1>1, <1>6, FS_Union
<1>. HIDE DEF Taken, Try
<1>8. /\ tries' = tries \cup new
      /\ \A x \in new : /\ x.by = a /\ x.row \in b
                        /\ x.n = row[x.row].attempts + 1
      /\ \A x, y \in new : x.row = y.row => x = y
      /\ \A d \in b : \E x \in new : x.row = d
  BY <1>1, <1>5
<1>9. /\ \A d \in Rows : row'[d].status = row[d].status
      /\ \A d \in b : /\ row'[d].attempts = row[d].attempts + 1
                      /\ row'[d].next = "later"
      /\ \A d \in Rows \ b : row'[d] = row[d]
  BY <1>1, <1>2, <1>4
<1>. HIDE DEF new
<1>10. b \in SUBSET (Due \cap Rows)
  BY <1>2
<1>11. ClaimAdds(a, b, new)
  BY <1>8, <1>9 DEF ClaimAdds
<1>12. \E B \in SUBSET (Due \cap Rows) : \E N : ClaimAdds(a, B, N)
  BY <1>10, <1>11
<1>. QED
  BY <1>3, <1>7, <1>12

(* An attempt that is answered stays the attempt it is.                    *)
LEMMA PostTries ==
  ASSUME TypeOK, OneEach, NEW a \in Actors, NEW x \in TriesBy(a), Post(x)
  PROVE  \E y : /\ tries' = (tries \ {x}) \cup {y} /\ y \notin tries \ {x}
                /\ x \in tries
                /\ y.by = x.by /\ y.row = x.row /\ y.n = x.n
<1>1. PICK out \in {"ok", "error", "blocked"} : Outcome(x, out)
  BY DEF Post
<1>. DEFINE y == [x EXCEPT !.out = out]
<1>2. x \in tries /\ y.by = x.by /\ y.row = x.row /\ y.n = x.n
  BY DEF TriesBy, TypeOK
<1>3. tries' = (tries \ {x}) \cup {y}
  BY <1>1 DEF Outcome
<1>. HIDE DEF y
<1>4. y \notin tries \ {x}
  BY <1>2 DEF OneEach
<1>. QED
  BY <1>2, <1>3, <1>4

LEMMA OneEachStep ==
  ASSUME TypeOK, Working, IsFiniteSet(tries), OneEach, [Next]_vars
  PROVE  OneEach' /\ IsFiniteSet(tries')
<1>1. ASSUME tries' \subseteq tries PROVE OneEach' /\ IsFiniteSet(tries')
  BY <1>1, FS_Subset DEF OneEach
<1>2. ASSUME NEW a \in Actors, Claim(a) PROVE OneEach' /\ IsFiniteSet(tries')
  <2>. PICK b \in SUBSET (Due \cap Rows) : \E N : ClaimAdds(a, b, N)
    BY <1>2, ClaimTries
  <2>1. PICK new : ClaimAdds(a, b, new)
    OBVIOUS
  <2>2. IsFiniteSet(tries') /\ \A x \in tries : x.by # a
    BY <1>2, ClaimTries
  <2>3. /\ tries' = tries \cup new /\ \A x \in new : x.by = a
        /\ \A x, y \in new : x.row = y.row => x = y
    BY <2>1 DEF ClaimAdds
  <2>. QED
    BY <2>2, <2>3 DEF OneEach
<1>3. ASSUME NEW a \in Actors, NEW x \in TriesBy(a), Post(x)
      PROVE  OneEach' /\ IsFiniteSet(tries')
  <2>1. PICK y : /\ tries' = (tries \ {x}) \cup {y}
                 /\ x \in tries /\ y.by = x.by /\ y.row = x.row
    BY <1>3, PostTries
  <2>2. OneEach'
    BY <2>1 DEF OneEach
  <2>3. IsFiniteSet(tries')
    BY <2>1, FS_Subset, FS_Singleton, FS_Union
  <2>. QED
    BY <2>2, <2>3
<1>4. \/ tries' \subseteq tries
      \/ \E a \in Actors : Claim(a) \/ \E x \in TriesBy(a) : Post(x)
  BY DEF Next, vars, Store, SendTarget, SendFails, Delete, TimePasses, ActorStep,
         Wake, Finish, Save, SaveFails, Crash, ActorFails, TickStep,
         Schedule, Resend, CrashAfterResend, KeyExpires, Boot, SeedStep,
         SeedCheck, SeedClaim
<1>. QED
  BY <1>1, <1>2, <1>3, <1>4

LEMMA AccountStep ==
  ASSUME TypeOK, Working, AttemptsInv, [Next]_vars, NEW d \in Rows
  PROVE  Account(d)'
<1>1. /\ IsFiniteSet(tries) /\ UsedOK /\ OneEach /\ Account(d)
      /\ row[d].attempts \in Nat /\ MaxAttempts \in Nat \ {0}
      /\ {Crashes, Losses, Lapses, Crashes', Losses', Lapses'} \subseteq Nat
      /\ Crashes' >= Crashes /\ Losses' >= Losses /\ Lapses' >= Lapses
  BY UsedStep, OutboxAssumption DEF AttemptsInv, TypeOK, UsedOK
<1>. DEFINE tn == Cardinality(TriesOf(d))
            ln == Cardinality(Late(d))
<1>2. tn \in Nat /\ ln \in Nat /\ ln <= tn
  BY <1>1, TriesFinite
<1>3. ASSUME row'[d] = row[d], TriesOf(d)' = TriesOf(d) PROVE Account(d)'
  <2>1. Late(d)' = Late(d)
    BY <1>3 DEF Late
  <2>2. Cardinality(TriesOf(d)') = tn /\ Cardinality(Late(d)') = ln
    BY <1>3, <2>1
  <2>. QED
    BY <1>1, <1>2, <1>3, <2>2 DEF Account
<1>4. ASSUME NEW e \in Rows, Store(e) PROVE Account(d)'
  <2>1. TriesOf(d)' = TriesOf(d)
    BY <1>4 DEF Store, TriesOf
  <2>2. CASE e # d
    BY <1>3, <1>4, <2>1, <2>2 DEF Store, TypeOK
  <2>3. CASE e = d
    <3>1. TriesOf(d) = {} /\ row[d].attempts = 0
      BY <1>1, <1>4, <2>3 DEF Account, Store
    <3>2. Late(d)' = {} /\ TriesOf(d)' = {}
      BY <2>1, <3>1 DEF Late
    <3>3. Cardinality(Late(d)') = 0 /\ Cardinality(TriesOf(d)') = 0
      BY <3>2, FS_EmptySet
    <3>4. row'[d].status = "pending" /\ row'[d].attempts = 0
      BY <1>4, <2>3, <3>1 DEF Store, TypeOK
    <3>. QED
      BY <1>1, <3>3, <3>4 DEF Account
  <2>. QED
    BY <2>2, <2>3
<1>5. ASSUME NEW e \in Rows, Delete(e) PROVE Account(d)'
  <2>1. TriesOf(d)' = TriesOf(d)
    BY <1>5 DEF Delete, TriesOf
  <2>2. row'[d] = row[d] \/ row'[d].status = "gone"
    BY <1>5 DEF Delete, TypeOK
  <2>. QED
    BY <1>3, <2>1, <2>2 DEF Account
<1>6. ASSUME NEW e \in Rows, TimePasses(e) PROVE Account(d)'
  <2>1. TriesOf(d)' = TriesOf(d) /\ Late(d)' = Late(d)
    BY <1>6 DEF TimePasses, TriesOf, Late
  <2>2. CASE e # d
    BY <1>3, <1>6, <2>1, <2>2 DEF TimePasses, TypeOK
  <2>3. CASE e = d
    <3>1. /\ row[d].status = "pending" /\ row[d].next = "later"
          /\ row'[d].status = "pending" /\ row'[d].attempts = row[d].attempts
          /\ row'[d].next = "passed"
      BY <1>6, <2>3 DEF TimePasses, TypeOK
    <3>2. row[d].attempts < MaxAttempts + ln + Crashes + Losses /\ tn <= Lapses + 1
      BY <1>1, <3>1 DEF Account
    <3>3. tn <= Lapses'
      <4>1. CASE TriesOf(d) = {}
        BY <1>1, <4>1, FS_EmptySet
      <4>2. CASE TriesOf(d) # {}
        <5>1. Spend("lapse")
          BY <1>6, <2>3, <4>2 DEF TimePasses, TriesOf
        <5>2. Lapses' = Lapses + 1
          BY <1>1, <5>1, SpentMore
        <5>. QED
          BY <1>1, <1>2, <3>2, <5>2
      <4>. QED
        BY <4>1, <4>2
    <3>4. Cardinality(TriesOf(d)') = tn /\ Cardinality(Late(d)') = ln
      BY <2>1
    <3>. QED
      BY <1>1, <1>2, <3>1, <3>2, <3>3, <3>4 DEF Account
  <2>. QED
    BY <2>2, <2>3
<1>7. ASSUME NEW a \in Actors, Claim(a) PROVE Account(d)'
  <2>. PICK b \in SUBSET (Due \cap Rows) : \E N : ClaimAdds(a, b, N)
    BY <1>1, <1>7, ClaimTries
  <2>5. PICK new : ClaimAdds(a, b, new)
    OBVIOUS
  <2>1. /\ tries' = tries \cup new
        /\ \A x \in new : x.by = a /\ x.row \in b /\ x.n = row[x.row].attempts + 1
        /\ \A x, y \in new : x.row = y.row => x = y
        /\ \A e \in b : \E x \in new : x.row = e
        /\ \A e \in Rows : row'[e].status = row[e].status
        /\ \A e \in b : row'[e].attempts = row[e].attempts + 1 /\ row'[e].next = "later"
        /\ \A e \in Rows \ b : row'[e] = row[e]
    BY <2>5 DEF ClaimAdds
  <2>2. \A x \in tries : x.by # a
    BY <1>1, <1>7, ClaimTries
  <2>3. CASE d \notin b
    <3>1. TriesOf(d)' = TriesOf(d)
      BY <2>1, <2>3 DEF TriesOf
    <3>2. row'[d] = row[d]
      BY <2>1, <2>3
    <3>. QED
      BY <1>3, <3>1, <3>2
  <2>4. CASE d \in b
    <3>1. PICK x : /\ x.by = a /\ x.row = d /\ x.n = row[d].attempts + 1
                   /\ TriesOf(d)' = TriesOf(d) \cup {x}
      <4>2. PICK x \in new : x.row = d
        BY <2>1, <2>4
      <4>3. TriesOf(d)' = TriesOf(d) \cup {x}
        BY <2>1, <4>2 DEF TriesOf
      <4>. QED
        BY <2>1, <4>2, <4>3
    <3>2. x \notin TriesOf(d) /\ x \notin Late(d)
      BY <2>2, <3>1 DEF TriesOf, Late
    <3>3. Cardinality(TriesOf(d)') = tn + 1
      <4>1. IsFiniteSet(TriesOf(d))
        BY <1>1, TriesFinite
      <4>2. Cardinality(TriesOf(d) \cup {x}) = tn + 1
        BY <3>2, <4>1, FS_AddElement
      <4>. QED
        BY <3>1, <4>2
    <3>4. /\ row[d].status = "pending" /\ row[d].next # "later"
          /\ row'[d].status = "pending" /\ row'[d].next = "later"
          /\ row'[d].attempts = row[d].attempts + 1
      BY <2>1, <2>4 DEF Due
    <3>5. row[d].attempts < MaxAttempts + ln + Crashes + Losses /\ tn <= Lapses
      BY <1>1, <3>4 DEF Account
    <3>6. CASE x.n >= MaxAttempts
      <4>1. Late(d)' = Late(d) \cup {x}
        BY <3>1, <3>6 DEF Late
      <4>2. Cardinality(Late(d)') = ln + 1
        BY <1>1, <3>2, <4>1, TriesFinite, FS_AddElement
      <4>. QED
        BY <1>1, <1>2, <3>3, <3>4, <3>5, <4>2 DEF Account
    <3>7. CASE ~(x.n >= MaxAttempts)
      <4>1. Late(d)' = Late(d)
        BY <3>1, <3>7 DEF Late
      <4>2. Cardinality(Late(d)') = ln
        BY <4>1
      <4>. QED
        BY <1>1, <1>2, <3>1, <3>3, <3>4, <3>5, <3>7, <4>2 DEF Account
    <3>. QED
      BY <3>6, <3>7
  <2>. QED
    BY <2>3, <2>4
<1>8. ASSUME NEW a \in Actors, NEW x \in TriesBy(a), Post(x) PROVE Account(d)'
  <2>1. PICK y : /\ tries' = (tries \ {x}) \cup {y} /\ y \notin tries \ {x}
                 /\ x \in tries
                 /\ y.by = x.by /\ y.row = x.row /\ y.n = x.n
    BY <1>1, <1>8, PostTries
  <2>2. row' = row
    BY <1>8 DEF Post
  <2>3. ASSUME NEW S, IsFiniteSet(S), x \in S, S \subseteq tries
        PROVE  Cardinality((S \ {x}) \cup {y}) = Cardinality(S)
    <3>1. IsFiniteSet(S \ {x}) /\ Cardinality(S \ {x}) = Cardinality(S) - 1
      BY <2>3, FS_RemoveElement
    <3>2. Cardinality((S \ {x}) \cup {y}) = Cardinality(S \ {x}) + 1
      BY <2>1, <2>3, <3>1, FS_AddElement
    <3>. QED
      BY <2>3, <3>1, <3>2, FS_CardinalityType
  <2>4. CASE x.row # d
    <3>1. TriesOf(d)' = TriesOf(d)
      BY <2>1, <2>4 DEF TriesOf
    <3>. QED
      BY <1>3, <2>2, <3>1
  <2>5. CASE x.row = d
    <3>1. TriesOf(d)' = (TriesOf(d) \ {x}) \cup {y} /\ x \in TriesOf(d)
      BY <2>1, <2>5 DEF TriesOf
    <3>2. Cardinality(TriesOf(d)') = tn
      BY <1>1, <2>3, <3>1, TriesFinite DEF TriesOf
    <3>3. Cardinality(Late(d)') = ln
      <4>1. CASE x.n >= MaxAttempts
        <5>1. Late(d)' = (Late(d) \ {x}) \cup {y} /\ x \in Late(d)
          BY <2>1, <3>1, <4>1 DEF Late
        <5>. QED
          BY <1>1, <2>3, <5>1, TriesFinite DEF Late, TriesOf
      <4>2. CASE ~(x.n >= MaxAttempts)
        <5>1. Late(d)' = Late(d)
          BY <2>1, <3>1, <4>2 DEF Late
        <5>. QED
          BY <5>1
      <4>. QED
        BY <4>1, <4>2
    <3>4. TriesOf(d) # {}
      BY <3>1
    <3>. QED
      BY <1>1, <1>2, <2>2, <3>2, <3>3, <3>4 DEF Account
  <2>. QED
    BY <2>4, <2>5
<1>9. ASSUME NEW a \in Actors, NEW x \in TriesBy(a), Save(x) PROVE Account(d)'
  <2>1. tries' = tries \ {x} /\ x \in tries /\ TriesOf(d)' = TriesOf(d) \ {x}
    BY <1>9 DEF Save, TriesBy, TriesOf
  <2>2. CASE x.row # d
    <3>1. TriesOf(d)' = TriesOf(d) /\ row'[d] = row[d]
      BY <1>9, <2>1, <2>2 DEF Save, TriesOf, TypeOK
    <3>. QED
      BY <1>3, <3>1
  <2>3. CASE x.row = d
    <3>1. x \in TriesOf(d) /\ row[d].status # "none"
      BY <1>1, <2>1, <2>3 DEF TriesOf, Account
    <3>2. \/ row'[d].status \notin {"none", "pending"}
          \/ /\ row'[d].attempts = row[d].attempts /\ row'[d].status = row[d].status
             /\ row'[d].next = "later" /\ ~(x.n >= MaxAttempts)
      BY <1>9, <2>3, <3>1 DEF Save, TypeOK, Stored
    <3>3. Cardinality(TriesOf(d)') = tn - 1
      <4>1. IsFiniteSet(TriesOf(d))
        BY <1>1, TriesFinite
      <4>2. Cardinality(TriesOf(d) \ {x}) = tn - 1
        BY <3>1, <4>1, FS_RemoveElement
      <4>. QED
        BY <2>1, <4>2
    <3>4. CASE row'[d].status \notin {"none", "pending"}
      BY <3>4 DEF Account
    <3>5. CASE /\ row'[d].attempts = row[d].attempts /\ row'[d].status = row[d].status
               /\ row'[d].next = "later" /\ ~(x.n >= MaxAttempts)
      <4>1. Late(d)' = Late(d)
        BY <2>1, <3>5 DEF Late
      <4>2. Cardinality(Late(d)') = ln
        BY <4>1
      <4>. QED
        BY <1>1, <1>2, <3>1, <3>3, <3>5, <4>2 DEF Account
    <3>. QED
      BY <3>2, <3>4, <3>5
  <2>. QED
    BY <2>2, <2>3
<1>10. ASSUME NEW x, TriesOf(d)' \subseteq TriesOf(d), TriesOf(d) \ TriesOf(d)' \subseteq {x},
              row' = row, Crashes' + Losses' >= Crashes + Losses + 1
       PROVE  Account(d)'
  <2>1. Cardinality(TriesOf(d)') \in Nat /\ Cardinality(TriesOf(d)') <= tn
    BY <1>1, <1>10, TriesFinite, Shrunk
  <2>2. Late(d)' \subseteq Late(d) /\ Late(d) \ Late(d)' \subseteq {x}
    BY <1>10 DEF Late
  <2>3. Cardinality(Late(d)') \in Nat /\ ln <= Cardinality(Late(d)') + 1
    BY <1>1, <2>2, TriesFinite, Shrunk
  <2>. QED
    BY <1>1, <1>2, <1>10, <2>1, <2>3 DEF Account
<1>11. ASSUME NEW a \in Actors, NEW x \in TriesBy(a), SaveFails(x) PROVE Account(d)'
  <2>1. Losses' = Losses + 1 /\ Crashes' = Crashes
    BY <1>1, <1>11, SpentMore DEF SaveFails, Lose
  <2>2. TriesOf(d)' \subseteq TriesOf(d) /\ TriesOf(d) \ TriesOf(d)' \subseteq {x}
    BY <1>11 DEF SaveFails, TriesOf
  <2>3. row' = row
    BY <1>11 DEF SaveFails
  <2>. QED
    BY <1>1, <1>10, <2>1, <2>2, <2>3
<1>12. ASSUME NEW a \in Actors, Crash(a) PROVE Account(d)'
  <2>1. Losses' = Losses /\ Crashes' = Crashes + 1
    BY <1>1, <1>12, SpentMore DEF Crash
  <2>2. PICK x : TriesOf(d) \cap TriesBy(a) \subseteq {x}
    BY <1>1 DEF OneEach, TriesOf, TriesBy
  <2>3. TriesOf(d)' \subseteq TriesOf(d) /\ TriesOf(d) \ TriesOf(d)' \subseteq {x}
    BY <1>12, <2>2 DEF Crash, TriesOf
  <2>4. row' = row
    BY <1>12 DEF Crash
  <2>. QED
    BY <1>1, <1>10, <2>1, <2>3, <2>4
<1>13. CASE UNCHANGED <<row, tries>>
  BY <1>3, <1>13 DEF TriesOf
<1>14. \/ UNCHANGED <<row, tries>>
       \/ \E e \in Rows : Store(e) \/ Delete(e) \/ TimePasses(e)
       \/ \E a \in Actors :
            Claim(a) \/ Crash(a) \/ \E x \in TriesBy(a) : Post(x) \/ Save(x) \/ SaveFails(x)
  BY DEF Next, vars, SendTarget, SendFails, ActorStep, Wake, Finish, ActorFails, TickStep,
         Schedule, Resend, CrashAfterResend, KeyExpires, Boot, SeedStep, SeedCheck, SeedClaim
<1>. QED
  BY <1>4, <1>5, <1>6, <1>7, <1>8, <1>9, <1>11, <1>12, <1>13, <1>14

(* Only a claim adds to the attempts, and only to those of a pending row.  *)
LEMMA AttemptsStep ==
  ASSUME TypeOK, Working, AttemptsInv, [Next]_vars
  PROVE  AttemptsBounded'
<1>. SUFFICES ASSUME NEW d \in Rows
              PROVE  row'[d].attempts <= MaxAttempts + Crashes' + Losses' + Lapses'
  BY DEF AttemptsBounded, Crashes, Losses, Lapses, Used
<1>1. /\ {Crashes, Losses, Lapses, Crashes', Losses', Lapses'} \subseteq Nat
      /\ Crashes' >= Crashes /\ Losses' >= Losses /\ Lapses' >= Lapses
      /\ row[d].attempts \in Nat /\ MaxAttempts \in Nat /\ IsFiniteSet(tries) /\ Account(d)
  BY UsedStep, OutboxAssumption DEF AttemptsInv, TypeOK, UsedOK
<1>2. row[d].attempts <= MaxAttempts + Crashes + Losses + Lapses
  BY DEF AttemptsInv, AttemptsBounded, Crashes, Losses, Lapses, Used
<1>3. CASE row'[d].attempts = row[d].attempts
  BY <1>1, <1>2, <1>3
<1>4. ASSUME NEW a \in Actors, Claim(a)
      PROVE  row'[d].attempts <= MaxAttempts + Crashes' + Losses' + Lapses'
  <2>1. \/ row'[d] = row[d]
        \/ d \in Due /\ row'[d].attempts = row[d].attempts + 1
    <3>. PICK b \in SUBSET (Due \cap Rows) : \E N : ClaimAdds(a, b, N)
      BY <1>1, <1>4, ClaimTries
    <3>1. PICK new : ClaimAdds(a, b, new)
      OBVIOUS
    <3>. QED
      BY <3>1 DEF ClaimAdds
  <2>2. CASE d \in Due /\ row'[d].attempts = row[d].attempts + 1
    <3>1. /\ row[d].attempts < MaxAttempts + Cardinality(Late(d)) + Crashes + Losses
          /\ Cardinality(TriesOf(d)) <= Lapses
      BY <1>1, <2>2 DEF Account, Due
    <3>2. /\ Cardinality(Late(d)) \in Nat /\ Cardinality(TriesOf(d)) \in Nat
          /\ Cardinality(Late(d)) <= Cardinality(TriesOf(d))
      BY <1>1, TriesFinite
    <3>. QED
      BY <1>1, <2>2, <3>1, <3>2
  <2>. QED
    BY <1>3, <2>1, <2>2
<1>5. \/ row'[d].attempts = row[d].attempts
      \/ \E a \in Actors : Claim(a)
  <2>1. \/ UNCHANGED row
        \/ \E e \in Rows : Store(e) \/ Delete(e) \/ TimePasses(e)
        \/ \E a \in Actors : Claim(a) \/ \E x \in TriesBy(a) : Save(x)
    BY DEF Next, vars, SendTarget, SendFails, ActorStep, Wake, Finish, Post, SaveFails, Crash,
         ActorFails, TickStep, Schedule, Resend, CrashAfterResend, KeyExpires, Boot, SeedStep,
         SeedCheck, SeedClaim
  <2>2. ASSUME NEW e \in Rows, Store(e) \/ Delete(e) \/ TimePasses(e)
        PROVE  row'[d].attempts = row[d].attempts
    BY <2>2 DEF Store, Delete, TimePasses, TypeOK
  <2>3. ASSUME NEW a \in Actors, NEW x \in TriesBy(a), Save(x)
        PROVE  row'[d].attempts = row[d].attempts
    BY <2>3 DEF Save, TypeOK
  <2>. QED
    BY <2>1, <2>2, <2>3
<1>. QED
  BY <1>3, <1>4, <1>5

(* webhook_retry_delays bounds the attempts of a delivery: however many    *)
(* messages and ticks claim it, each attempt above the configured number   *)
(* is owed to a crash, a failed update or an outlived claim.               *)
THEOREM AttemptsAreBounded == Spec => []AttemptsBounded
<1>1. Init => AttemptsInv
  <2>. SUFFICES ASSUME Init PROVE AttemptsInv
    OBVIOUS
  <2>1. /\ Crashes = 0 /\ Losses = 0 /\ Lapses = 0 /\ Boots = 0 /\ MaxAttempts \in Nat
    BY OutboxAssumption DEF Init, Crashes, Losses, Lapses, Boots, Used
  <2>2. IsFiniteSet(tries) /\ UsedOK /\ OneEach
    BY <2>1, FS_EmptySet DEF Init, UsedOK, OneEach
  <2>3. \A d \in Rows : Account(d)
    BY DEF Init, Account, TriesOf
  <2>4. AttemptsBounded
    BY <2>1 DEF Init, AttemptsBounded, Crashes, Losses, Lapses
  <2>. QED
    BY <2>2, <2>3, <2>4 DEF AttemptsInv
<1>2. Inv /\ AttemptsInv /\ [Next]_vars => AttemptsInv'
  <2>. SUFFICES ASSUME Inv, AttemptsInv, [Next]_vars PROVE AttemptsInv'
    OBVIOUS
  <2>1. TypeOK /\ Working /\ IsFiniteSet(tries) /\ UsedOK /\ OneEach
    BY DEF Inv, AttemptsInv
  <2>2. \A d \in Rows : Account(d)'
    BY <2>1, AccountStep
  <2>. QED
    BY <2>1, <2>2, UsedStep, OneEachStep, AttemptsStep DEF AttemptsInv
<1>3. AttemptsInv => AttemptsBounded
  BY DEF AttemptsInv
<1>. QED
  BY <1>1, <1>2, <1>3, InvHolds, PTL DEF Spec

-----------------------------------------------------------------------------

Waiting == {t \in Ticks : act[t] # "free"}

Chains == Cardinality(Waiting) + (IF seeder = "idle" THEN 0 ELSE 1)

(* The steps that make a tick out of nothing are paid for by a start of a  *)
(* worker, or by its crash between the next tick and the acknowledgement.  *)
LEMMA ChainsStep ==
  ASSUME TypeOK, Working, UsedOK, Chains <= 1 + Boots + Crashes, [Next]_vars
  PROVE  Chains' <= 1 + Boots' + Crashes'
<1>1. /\ {Crashes, Boots, Crashes', Boots'} \subseteq Nat
      /\ Crashes' >= Crashes /\ Boots' >= Boots
      /\ IsFiniteSet(Waiting) /\ Cardinality(Waiting) \in Nat
  <2>1. Waiting \subseteq Ticks
    BY DEF Waiting
  <2>. QED
    BY <2>1, UsedStep, OutboxAssumption, FS_Subset, FS_CardinalityType DEF UsedOK
<1>. DEFINE wn == Cardinality(Waiting)
<1>2. ASSUME Waiting' \subseteq Waiting PROVE Cardinality(Waiting') \in Nat
                                              /\ Cardinality(Waiting') <= wn
  BY <1>1, <1>2, FS_Subset, FS_CardinalityType
<1>3. ASSUME NEW u, Waiting' = Waiting \cup {u}, u \notin Waiting
      PROVE  Cardinality(Waiting') = wn + 1
  BY <1>1, <1>3, FS_AddElement
<1>4. CASE Waiting' \subseteq Waiting /\ UNCHANGED seeder
  BY <1>1, <1>2, <1>4 DEF Chains
<1>5. ASSUME NEW t \in Ticks, CrashAfterResend(t) PROVE Chains' <= 1 + Boots' + Crashes'
  <2>1. PICK u \in FreeTicks : act' = [act EXCEPT ![t] = "delayed", ![u] = "unacked"]
    BY <1>5 DEF CrashAfterResend
  <2>2. u \in Ticks /\ act[u] = "free" /\ act[t] # "free" /\ t # u
    BY <1>5 DEF FreeTicks, CrashAfterResend
  <2>3. Waiting' = Waiting \cup {u} /\ u \notin Waiting
    BY <2>1, <2>2 DEF Waiting, TypeOK, Actors
  <2>4. Crashes' = Crashes + 1 /\ Boots' = Boots /\ UNCHANGED seeder
    BY <1>5, SpentMore DEF CrashAfterResend
  <2>5. Cardinality(Waiting') = wn + 1
    BY <1>3, <2>3
  <2>. QED
    BY <1>1, <2>4, <2>5 DEF Chains
<1>6. CASE Boot
  <2>1. Boots' = Boots + 1 /\ Crashes' = Crashes /\ Waiting' = Waiting
    BY <1>6, SpentMore DEF Boot, Waiting
  <2>. QED
    BY <1>1, <1>6, <2>1 DEF Chains, Boot
<1>7. CASE SeedCheck
  <2>1. Waiting' = Waiting
    BY <1>7 DEF SeedCheck, Waiting
  <2>. QED
    BY <1>1, <1>7, <2>1 DEF Chains, SeedCheck
<1>8. CASE SeedClaim
  <2>1. seeder = "claim" /\ seeder' = "idle"
    BY <1>8 DEF SeedClaim
  <2>2. CASE UNCHANGED act
    <3>1. Waiting' = Waiting
      BY <2>2 DEF Waiting
    <3>. QED
      BY <1>1, <2>1, <3>1 DEF Chains
  <2>3. CASE \E t \in FreeTicks : Goto(t, "delayed")
    <3>1. PICK t \in Ticks : act[t] = "free" /\ act' = [act EXCEPT ![t] = "delayed"]
      BY <2>3 DEF FreeTicks, Goto
    <3>2. Waiting' = Waiting \cup {t} /\ t \notin Waiting
      BY <3>1 DEF Waiting, TypeOK, Actors
    <3>3. Cardinality(Waiting') = wn + 1
      BY <1>3, <3>2
    <3>. QED
      BY <1>1, <2>1, <3>3 DEF Chains
  <2>. QED
    BY <1>8, <2>2, <2>3 DEF SeedClaim
<1>9. \/ Waiting' \subseteq Waiting /\ UNCHANGED seeder
      \/ \E t \in Ticks : CrashAfterResend(t)
      \/ Boot \/ SeedCheck \/ SeedClaim
  <2>1. ASSUME NEW a \in Actors, NEW at, act[a] # "free" \/ a \in Rows, Goto(a, at)
        PROVE  Waiting' \subseteq Waiting
    BY <2>1, OutboxAssumption DEF Goto, Waiting, TypeOK, Actors
  <2>2. ASSUME UNCHANGED act, UNCHANGED seeder
        PROVE  Waiting' \subseteq Waiting /\ UNCHANGED seeder
    BY <2>2 DEF Waiting
  <2>3. ASSUME NEW d \in Rows,
               Store(d) \/ SendTarget(d) \/ SendFails(d) \/ Delete(d) \/ TimePasses(d)
        PROVE  Waiting' \subseteq Waiting /\ UNCHANGED seeder
    <3>1. CASE Store(d) \/ SendTarget(d) \/ SendFails(d)
      <4>1. d \in Actors /\ UNCHANGED seeder /\ \E at : Goto(d, at)
        BY <3>1 DEF Store, SendTarget, SendFails, Actors
      <4>. QED
        BY <2>1, <4>1
    <3>2. CASE Delete(d) \/ TimePasses(d)
      BY <2>2, <3>2 DEF Delete, TimePasses
    <3>. QED
      BY <2>3, <3>1, <3>2
  <2>4. ASSUME NEW a \in Actors, Wake(a) \/ Claim(a) \/ Finish(a) \/ Crash(a) \/ ActorFails(a)
        PROVE  Waiting' \subseteq Waiting /\ UNCHANGED seeder
    BY <2>1, <2>4 DEF Wake, Claim, Finish, Crash, ActorFails, Running
  <2>5. ASSUME NEW a \in Actors, NEW x \in TriesBy(a), Post(x) \/ Save(x)
        PROVE  UNCHANGED act /\ UNCHANGED seeder
    BY <2>5 DEF Post, Save
  <2>6. ASSUME NEW t \in Ticks, TickStep(t) PROVE Waiting' \subseteq Waiting /\ UNCHANGED seeder
    BY <2>1, <2>6 DEF TickStep, Schedule, Resend, Actors
  <2>7. ASSUME KeyExpires \/ UNCHANGED vars
        PROVE  Waiting' \subseteq Waiting /\ UNCHANGED seeder
    BY <2>2, <2>7 DEF KeyExpires, vars
  <2>8. ASSUME NEW a \in Actors, NEW x \in TriesBy(a), SaveFails(x)
        PROVE  Waiting' \subseteq Waiting /\ UNCHANGED seeder
    BY <2>1, <2>8 DEF SaveFails, TriesBy, Working
  <2>. QED
    BY <2>2, <2>3, <2>4, <2>5, <2>6, <2>7, <2>8 DEF Next, ActorStep, SeedStep
<1>. QED
  BY <1>4, <1>5, <1>6, <1>7, <1>8, <1>9

(* Restarts and crashes do not multiply the periodic ticks: there are never *)
(* more than the first start, the later ones and the crashes account for.   *)
THEOREM TicksAreBounded == Spec => []ChainsBounded
<1>1. Init => UsedOK /\ ChainsBounded
  <2>. SUFFICES ASSUME Init PROVE UsedOK /\ ChainsBounded
    OBVIOUS
  <2>1. Crashes = 0 /\ Losses = 0 /\ Lapses = 0 /\ Boots = 0
    BY OutboxAssumption DEF Init, Crashes, Losses, Lapses, Boots, Used
  <2>2. Waiting = {}
    BY DEF Init, Waiting, Actors
  <2>3. Cardinality(Waiting) = 0
    BY <2>2, FS_EmptySet
  <2>. QED
    BY <2>1, <2>3 DEF Init, UsedOK, ChainsBounded, Waiting, Crashes, Boots
<1>2. Inv /\ UsedOK /\ ChainsBounded /\ [Next]_vars => UsedOK' /\ ChainsBounded'
  <2>. SUFFICES ASSUME Inv, UsedOK, ChainsBounded, [Next]_vars PROVE UsedOK' /\ ChainsBounded'
    OBVIOUS
  <2>1. TypeOK /\ Working
    BY DEF Inv
  <2>2. ChainsBounded <=> Chains <= 1 + Boots + Crashes
    BY DEF ChainsBounded, Chains, Waiting, Boots, Crashes
  <2>3. ChainsBounded' <=> Chains' <= 1 + Boots' + Crashes'
    BY DEF ChainsBounded, Chains, Waiting, Boots, Crashes, Used
  <2>. QED
    BY <2>1, <2>2, <2>3, UsedStep, ChainsStep
<1>. QED
  BY <1>1, <1>2, InvHolds, PTL DEF Spec
=============================================================================

-------------------------- MODULE EmbeddingGateProofs --------------------------
(* Proofs about EmbeddingGate, for any finite set of batches, any values of   *)
(* the setting embedding_concurrency and any number of retries and faults.    *)
EXTENDS EmbeddingGate, FiniteSetTheorems, TLAPS

LEMMA HighestIs ==
  ASSUME GateConstants
  PROVE  /\ Highest \in Ceilings /\ Highest \in Nat /\ Highest >= 1
         /\ \A d \in Ceilings : d <= Highest
<1>1. Highest \in Ceilings /\ \A d \in Ceilings : d <= Highest
  BY DEF GateConstants, Highest
<1>. QED
  BY <1>1 DEF GateConstants

---------------------------------------------------------------------------

Pcs == Waiting \cup {"call", "release", "report"} \cup Settled
BatchStates == [pc : Pcs, ceil : Ceilings, token : {"none", "lease", "open"},
                result : {"none", "ok", "limited", "failed"}, tries : 0..MaxRetries]

\* The limit in Redis never exceeds the highest value of the setting, and no more
\* leases than that are taken.
LimitKept == limit <= Highest
LeasesKept == IsFiniteSet(leases) /\ Cardinality(leases) <= Highest

\* The calls that hold no lease any more, or never got one.
Loose == {b \in Calling : ~(batch[b].token = "lease" /\ Lease(b) \in leases)}

\* Each of them is one lapse or one error of Redis.
LooseCounted == Cardinality(Loose) <= spent["lapse"] + spent["open"]

GateInv == TypeOK /\ LimitKept /\ LeasesKept /\ LooseCounted

---------------------------------------------------------------------------

LEMMA EndedTyped ==
  ASSUME GateConstants, NEW pc \in Pcs PROVE Ended(pc) \in BatchStates
BY HighestIs DEF Ended, BatchStates, GateConstants

LEMMA FreshTyped ==
  ASSUME GateConstants, TypeOK, NEW b \in Batches, NEW pc \in Pcs,
         NEW token \in {"none", "lease", "open"}
  PROVE  Fresh(b, pc, token) \in BatchStates
<1>1. batch[b].tries \in 0..MaxRetries
  BY DEF TypeOK
<1>. QED
  BY <1>1, HighestIs DEF Fresh, BatchStates

LEMMA LooseFinite ==
  ASSUME GateConstants
  PROVE  IsFiniteSet(Loose) /\ Cardinality(Loose) \in Nat
<1>1. Loose \subseteq Batches
  BY DEF Loose, Calling
<1>. QED
  BY <1>1, FS_Subset, FS_CardinalityType DEF GateConstants

LEMMA InitGate == ASSUME GateConstants, Init PROVE GateInv
<1>1. TypeOK
  BY HighestIs, EndedTyped DEF Init, TypeOK, BatchStates, Pcs, Waiting
<1>2. LimitKept /\ LeasesKept
  BY HighestIs, FS_EmptySet DEF Init, LimitKept, LeasesKept
<1>3. Loose = {}
  BY DEF Init, Loose, Calling, Ended
<1>4. LooseCounted
  BY <1>3, FS_EmptySet DEF Init, LooseCounted
<1>. QED
  BY <1>1, <1>2, <1>4 DEF GateInv

---------------------------------------------------------------------------
(* Types and the limit.                                                     *)

LEMMA FloorTyped ==
  ASSUME GateConstants, TypeOK, LimitKept, NEW c \in Ceilings
  PROVE  Floor(c) \in Nat \ {0} /\ Floor(c) <= Highest
BY HighestIs DEF Floor, TypeOK, LimitKept, GateConstants

LEMMA TypeStep ==
  ASSUME GateConstants, TypeOK, LimitKept, [Next]_gateVars
  PROVE  TypeOK' /\ LimitKept'
<1>. USE DEF GateConstants
<1>0. /\ limit \in Nat /\ limit <= Highest /\ {halved, cooling, resetDue} \subseteq BOOLEAN
      /\ leases \subseteq Batches \X (0..MaxRetries) /\ ceiling \in Ceilings
      /\ spent \in [{"lapse", "open", "fault", "change"} -> Nat]
      /\ batch \in [Batches -> BatchStates]
      /\ Highest \in Nat /\ Highest >= 1
  BY HighestIs DEF TypeOK, LimitKept, BatchStates, Pcs
<1>. DEFINE Good == /\ limit' \in Nat /\ limit' <= Highest
                    /\ {halved', cooling', resetDue'} \subseteq BOOLEAN
                    /\ leases' \subseteq Batches \X (0..MaxRetries) /\ ceiling' \in Ceilings
                    /\ spent' \in [{"lapse", "open", "fault", "change"} -> Nat]
                    /\ batch' \in [Batches -> BatchStates]
<1>1. SUFFICES Good
  BY DEF TypeOK, LimitKept, BatchStates, Pcs
<1>2. \A f \in {"lapse", "open", "fault", "change"} :
        Spend(f) => spent' \in [{"lapse", "open", "fault", "change"} -> Nat]
  BY <1>0 DEF Spend
<1>3. \A b \in Batches : batch[b].tries \in 0..MaxRetries /\ batch[b] \in BatchStates
                           /\ Lease(b) \in Batches \X (0..MaxRetries)
  BY <1>0 DEF BatchStates, Lease
<1>4. ASSUME NEW b \in Batches, Pass(b) PROVE Good
  <2>0. batch[b] \in BatchStates /\ ceiling \in Ceilings /\ "acquire" \in Pcs
    BY <1>0, <1>3 DEF Pcs, Waiting
  <2>1. [batch[b] EXCEPT !.pc = "acquire", !.ceil = ceiling] \in BatchStates
    BY <2>0 DEF BatchStates
  <2>2. batch' = [batch EXCEPT ![b] = [batch[b] EXCEPT !.pc = "acquire", !.ceil = ceiling]]
    BY <1>0, <1>4 DEF Pass
  <2>. QED
    BY <1>0, <1>4, <2>1, <2>2 DEF Pass
<1>5. ASSUME NEW b \in Batches, Acquire(b) PROVE Good
  <2>1. batch[b].ceil \in Ceilings
    BY <1>3 DEF BatchStates
  <2>2. limit' \in Nat /\ limit' <= Highest
    BY <1>5, <2>1, FloorTyped DEF Acquire
  <2>3. Fresh(b, "call", "lease") \in BatchStates
    BY FreshTyped DEF Pcs
  <2>. QED
    BY <1>0, <1>3, <1>5, <2>2, <2>3 DEF Acquire
<1>6. ASSUME NEW b \in Batches, FailOpen(b) PROVE Good
  <2>1. Fresh(b, "call", "open") \in BatchStates
    BY FreshTyped DEF Pcs
  <2>. QED
    BY <1>0, <1>2, <1>6, <2>1 DEF FailOpen
<1>7. ASSUME NEW b \in Batches, NEW r \in {"ok", "limited", "failed"}, Finish(b, r) PROVE Good
  <2>0. batch[b] \in BatchStates /\ "release" \in Pcs
    BY <1>3 DEF Pcs
  <2>1. [batch[b] EXCEPT !.pc = "release", !.result = r] \in BatchStates
    BY <2>0 DEF BatchStates
  <2>2. batch' = [batch EXCEPT ![b] = [batch[b] EXCEPT !.pc = "release", !.result = r]]
    BY <1>0, <1>7 DEF Finish
  <2>. QED
    BY <1>0, <1>2, <1>7, <2>1, <2>2 DEF Finish
<1>8. ASSUME NEW b \in Batches, Release(b) PROVE Good
  <2>0. batch[b] \in BatchStates /\ "report" \in Pcs
    BY <1>3 DEF Pcs
  <2>1. [batch[b] EXCEPT !.pc = "report", !.token = "none"] \in BatchStates
    BY <2>0 DEF BatchStates
  <2>2. Ended("failed") \in BatchStates
    BY EndedTyped DEF Pcs, Settled
  <2>. QED
    BY <1>0, <1>2, <1>8, <2>1, <2>2 DEF Release
<1>9. ASSUME NEW b \in Batches, Succeed(b) PROVE Good
  <2>1. limit' \in Nat /\ limit' <= Highest
    BY <1>0, <1>9, FloorTyped, HighestIs DEF Succeed, Increased
  <2>2. Ended("done") \in BatchStates
    BY EndedTyped DEF Pcs, Settled
  <2>. QED
    BY <1>0, <1>9, <2>1, <2>2 DEF Succeed
<1>10. ASSUME NEW b \in Batches, Limited(b) PROVE Good
  <2>1. Halved \in Nat /\ Halved <= Highest
    BY <1>0, FloorTyped DEF Halved
  <2>2. Ended("failed") \in BatchStates
    BY EndedTyped DEF Pcs, Settled
  <2>3. ASSUME ~(batch[b].tries + 1 >= MaxRetries)
        PROVE  [Fresh(b, "cool", "none") EXCEPT !.tries = @ + 1] \in BatchStates
    <3>1. Fresh(b, "cool", "none").tries = batch[b].tries
      BY DEF Fresh
    <3>2. batch[b].tries + 1 \in 0..MaxRetries
      BY <1>3, <2>3
    <3>3. Fresh(b, "cool", "none") \in BatchStates
      BY FreshTyped DEF Pcs, Waiting
    <3>. QED
      BY <3>1, <3>2, <3>3 DEF BatchStates
  <2>. QED
    BY <1>0, <1>10, <2>1, <2>2, <2>3 DEF Limited
<1>11. ASSUME NEW l, Lapse(l) PROVE Good
  BY <1>0, <1>2, <1>11 DEF Lapse
<1>12. ASSUME NEW b \in Batches, Die(b) PROVE Good
  <2>1. Ended("dead") \in BatchStates
    BY EndedTyped DEF Pcs, Settled
  <2>. QED
    BY <1>0, <1>2, <1>12, <2>1 DEF Die
<1>13. ASSUME CoolingEnds \/ Reset PROVE Good
  <2>1. CASE CoolingEnds
    BY <1>0, <2>1 DEF CoolingEnds
  <2>2. CASE Reset
    <3>1. limit' = 0 /\ halved' = FALSE /\ resetDue' = FALSE /\ cooling' = cooling
      BY <2>2 DEF Reset
    <3>2. limit' \in Nat /\ limit' <= Highest
      BY <1>0, <3>1
    <3>3. cooling' \in BOOLEAN /\ halved' \in BOOLEAN /\ resetDue' \in BOOLEAN
      BY <1>0, <3>1, Zenon
    <3>4. {halved', cooling', resetDue'} \subseteq BOOLEAN
      BY <3>3
    <3>. QED
      BY <1>0, <2>2, <3>2, <3>4 DEF Reset
  <2>. QED
    BY <1>13, <2>1, <2>2
<1>14. ASSUME NEW c \in Ceilings, Configure(c) PROVE Good
  BY <1>0, <1>2, <1>14 DEF Configure
<1>15. CASE UNCHANGED gateVars
  BY <1>0, <1>15 DEF gateVars
<1>. QED
  BY <1>4, <1>5, <1>6, <1>7, <1>8, <1>9, <1>10, <1>11, <1>12, <1>13, <1>14, <1>15 DEF Next, Step

---------------------------------------------------------------------------
(* Leases.                                                                  *)

\* Only the script that acquires adds a lease, and only below a limit that is
\* within the setting.
LEMMA LeasesStep ==
  ASSUME GateConstants, TypeOK, LimitKept, LeasesKept, [Next]_gateVars
  PROVE  LeasesKept'
<1>1. IsFiniteSet(leases) /\ Cardinality(leases) \in Nat /\ Cardinality(leases) <= Highest
      /\ Highest \in Nat
  BY HighestIs, FS_CardinalityType DEF LeasesKept
<1>2. ASSUME leases' \subseteq leases PROVE LeasesKept'
  <2>1. IsFiniteSet(leases') /\ Cardinality(leases') <= Cardinality(leases)
    BY <1>1, <1>2, FS_Subset
  <2>2. Cardinality(leases') \in Nat
    BY <2>1, FS_CardinalityType
  <2>. QED
    BY <1>1, <2>1, <2>2 DEF LeasesKept
<1>3. ASSUME NEW b \in Batches, Acquire(b) PROVE LeasesKept'
  <2>1. LimitKept' /\ limit' \in Nat
    BY TypeStep, <1>3 DEF TypeOK, LimitKept
  <2>2. Cardinality(leases) < Highest
    BY <1>1, <1>3, <2>1 DEF Acquire, LimitKept
  <2>3. /\ IsFiniteSet(leases \cup {Lease(b)})
        /\ Cardinality(leases \cup {Lease(b)}) \in {Cardinality(leases), Cardinality(leases) + 1}
    BY <1>1, FS_AddElement
  <2>. QED
    BY <1>1, <1>3, <2>2, <2>3 DEF Acquire, LeasesKept
<1>4. ASSUME ~ \E b \in Batches : Acquire(b) PROVE leases' \subseteq leases
  BY <1>4 DEF Next, Step, Pass, FailOpen, Finish, Release, Succeed, Limited, Lapse, Die,
     CoolingEnds, Reset, Configure, gateVars
<1>. QED
  BY <1>2, <1>3, <1>4

\* A batch that calls holds a lease or is counted; a step makes at most one batch
\* call without a lease, and then counts it.
LEMMA LooseStep ==
  ASSUME GateConstants, TypeOK, LooseCounted, [Next]_gateVars
  PROVE  LooseCounted'
<1>. DEFINE NextLoose == {b \in Batches : batch'[b].pc = "call"
               /\ ~(batch'[b].token = "lease" /\ <<b, batch'[b].tries>> \in leases')}
            total == spent["lapse"] + spent["open"]
            total2 == spent'["lapse"] + spent'["open"]
<1>0. Loose' = NextLoose
  BY DEF Loose, Calling, Lease
<1>1. /\ spent \in [{"lapse", "open", "fault", "change"} -> Nat]
      /\ batch \in [Batches -> BatchStates] /\ total \in Nat
      /\ leases \subseteq Batches \X (0..MaxRetries)
  BY DEF TypeOK, BatchStates, Pcs
<1>2. /\ IsFiniteSet(Loose) /\ Cardinality(Loose) \in Nat /\ Cardinality(Loose) <= total
  BY LooseFinite DEF LooseCounted
<1>3. ASSUME NextLoose \subseteq Loose, total2 \in Nat, total <= total2
      PROVE  LooseCounted'
  <2>. HIDE DEF NextLoose, total, total2
  <2>1. Cardinality(NextLoose) \in Nat /\ Cardinality(NextLoose) <= Cardinality(Loose)
    BY <1>2, <1>3, FS_Subset, FS_CardinalityType
  <2>2. Cardinality(NextLoose) <= total2
    BY <1>1, <1>2, <1>3, <2>1
  <2>. QED
    BY <1>0, <2>2 DEF LooseCounted, total2
<1>4. ASSUME NEW b \in Batches, NextLoose \subseteq Loose \cup {b}, total2 = total + 1
      PROVE  LooseCounted'
  <2>. HIDE DEF NextLoose, total, total2
  <2>1. /\ IsFiniteSet(Loose \cup {b})
        /\ Cardinality(Loose \cup {b}) \in {Cardinality(Loose), Cardinality(Loose) + 1}
    BY <1>2, FS_AddElement
  <2>2. /\ Cardinality(NextLoose) \in Nat
        /\ Cardinality(NextLoose) <= Cardinality(Loose \cup {b})
    BY <1>4, <2>1, FS_Subset, FS_CardinalityType
  <2>3. Cardinality(NextLoose) <= total2
    BY <1>1, <1>2, <1>4, <2>1, <2>2
  <2>. QED
    BY <1>0, <2>3 DEF LooseCounted, total2
<1>5. \A b \in Batches :
        b \in Loose <=> batch[b].pc = "call"
                          /\ ~(batch[b].token = "lease" /\ <<b, batch[b].tries>> \in leases)
  BY DEF Loose, Calling, Lease
<1>6. ASSUME UNCHANGED spent, NextLoose \subseteq Loose PROVE LooseCounted'
  BY <1>1, <1>3, <1>6
<1>7. ASSUME NEW f \in {"fault", "change"}, Spend(f), NextLoose \subseteq Loose
      PROVE  LooseCounted'
  <2>1. total2 = total
    BY <1>1, <1>7 DEF Spend
  <2>. QED
    BY <1>1, <1>3, <1>7, <2>1
<1>8. ASSUME NEW f \in {"lapse", "open"}, Spend(f) PROVE total2 = total + 1
  BY <1>1, <1>8 DEF Spend
<1>9. ASSUME NEW b \in Batches, NEW r, r.pc # "call", batch' = [batch EXCEPT ![b] = r],
             \A c \in Batches \ {b}, n \in 0..MaxRetries : <<c, n>> \in leases => <<c, n>> \in leases'
      PROVE  NextLoose \subseteq Loose
  <2>1. \A c \in Batches : batch[c].tries \in 0..MaxRetries
    BY <1>1 DEF BatchStates
  <2>. SUFFICES ASSUME NEW c \in NextLoose PROVE c \in Loose
    OBVIOUS
  <2>2. c # b /\ batch'[c] = batch[c]
    BY <1>1, <1>9
  <2>. QED
    BY <1>5, <1>9, <2>1, <2>2
<1>10. ASSUME NEW b \in Batches, Pass(b) PROVE LooseCounted'
  <2>. DEFINE r == [batch[b] EXCEPT !.pc = "acquire", !.ceil = ceiling]
  <2>1. r.pc = "acquire" /\ batch' = [batch EXCEPT ![b] = r]
    BY <1>1, <1>10 DEF Pass, BatchStates
  <2>. HIDE DEF r
  <2>2. NextLoose \subseteq Loose
    BY <1>9, <1>10, <2>1 DEF Pass
  <2>. QED
    BY <1>6, <1>10, <2>2 DEF Pass
<1>11. ASSUME NEW b \in Batches, Acquire(b) PROVE LooseCounted'
  <2>1. NextLoose \subseteq Loose
    <3>. SUFFICES ASSUME NEW c \in NextLoose PROVE c \in Loose
      OBVIOUS
    <3>1. c # b
      BY <1>1, <1>11 DEF Acquire, Fresh, Lease
    <3>2. batch'[c] = batch[c] /\ leases \subseteq leases'
      BY <1>1, <1>11, <3>1 DEF Acquire
    <3>. QED
      BY <1>5, <3>2
  <2>. QED
    BY <1>6, <1>11, <2>1 DEF Acquire
<1>12. ASSUME NEW b \in Batches, FailOpen(b) PROVE LooseCounted'
  <2>1. NextLoose \subseteq Loose \cup {b}
    <3>. SUFFICES ASSUME NEW c \in NextLoose, c # b PROVE c \in Loose
      OBVIOUS
    <3>1. batch'[c] = batch[c] /\ leases' = leases
      BY <1>1, <1>12 DEF FailOpen
    <3>. QED
      BY <1>5, <3>1
  <2>2. Spend("open")
    BY <1>12 DEF FailOpen
  <2>. QED
    BY <1>4, <1>8, <2>1, <2>2
<1>13. ASSUME NEW b \in Batches, NEW r \in {"ok", "limited", "failed"}, Finish(b, r)
       PROVE  LooseCounted'
  <2>. DEFINE q == [batch[b] EXCEPT !.pc = "release", !.result = r]
  <2>1. q.pc = "release" /\ batch' = [batch EXCEPT ![b] = q]
    BY <1>1, <1>13 DEF Finish, BatchStates
  <2>. HIDE DEF q
  <2>2. NextLoose \subseteq Loose
    BY <1>9, <1>13, <2>1 DEF Finish
  <2>. QED
    BY <1>6, <1>7, <1>13, <2>2 DEF Finish
<1>14. ASSUME NEW b \in Batches, Release(b) PROVE LooseCounted'
  <2>. DEFINE q == IF batch[b].result = "failed" THEN Ended("failed")
                   ELSE [batch[b] EXCEPT !.pc = "report", !.token = "none"]
  <2>1. batch' = [batch EXCEPT ![b] = q]
    BY <1>1, <1>14 DEF Release
  <2>2. q.pc \in {"report", "failed"}
    <3>1. Ended("failed").pc = "failed"
      BY DEF Ended
    <3>2. [batch[b] EXCEPT !.pc = "report", !.token = "none"].pc = "report"
      BY <1>1 DEF BatchStates
    <3>. QED
      BY <3>1, <3>2
  <2>. HIDE DEF q
  <2>3. \A c \in Batches \ {b}, n \in 0..MaxRetries : <<c, n>> \in leases => <<c, n>> \in leases'
    <3>1. leases \ {Lease(b)} \subseteq leases'
      BY <1>14 DEF Release
    <3>. QED
      BY <3>1 DEF Lease
  <2>4. NextLoose \subseteq Loose
    BY <1>9, <2>1, <2>2, <2>3
  <2>. QED
    BY <1>6, <1>7, <1>14, <2>4 DEF Release
<1>15. ASSUME NEW b \in Batches, Succeed(b) \/ Limited(b) \/ Die(b) PROVE LooseCounted'
  <2>. DEFINE q == [Fresh(b, "cool", "none") EXCEPT !.tries = @ + 1]
  <2>1. q.pc = "cool" /\ \A pc : Ended(pc).pc = pc
    BY DEF Fresh, Ended
  <2>. HIDE DEF q
  <2>2. \E r : r.pc # "call" /\ batch' = [batch EXCEPT ![b] = r]
    <3>1. CASE Succeed(b)
      BY <2>1, <3>1 DEF Succeed
    <3>2. CASE Die(b)
      BY <2>1, <3>2 DEF Die
    <3>3. CASE Limited(b)
      <4>1. batch' = [batch EXCEPT ![b] = Ended("failed")] \/ batch' = [batch EXCEPT ![b] = q]
        BY <3>3 DEF Limited, q
      <4>. QED
        BY <2>1, <4>1
    <3>. QED
      BY <1>15, <3>1, <3>2, <3>3
  <2>3. leases' = leases
    BY <1>15 DEF Succeed, Limited, Die
  <2>4. NextLoose \subseteq Loose
    BY <1>9, <2>2, <2>3
  <2>. QED
    BY <1>6, <1>7, <1>15, <2>4 DEF Succeed, Limited, Die
<1>16. ASSUME NEW b \in Batches, NEW n \in 0..MaxRetries, Lapse(<<b, n>>) PROVE LooseCounted'
  <2>1. batch' = batch /\ leases' = leases \ {<<b, n>>}
    BY <1>16 DEF Lapse
  <2>2. NextLoose \subseteq Loose \cup {b}
    BY <1>5, <2>1
  <2>3. CASE InUse(<<b, n>>)
    <3>1. Spend("lapse")
      BY <1>16, <2>3 DEF Lapse
    <3>. QED
      BY <1>4, <1>8, <2>2, <3>1
  <2>4. CASE ~InUse(<<b, n>>)
    <3>1. ~(batch[b].token = "lease" /\ batch[b].tries = n /\ batch[b].pc = "call")
      BY <2>4 DEF InUse, Lease
    <3>2. NextLoose \subseteq Loose
      BY <1>5, <2>1, <3>1
    <3>. QED
      BY <1>6, <1>16, <2>4, <3>2 DEF Lapse
  <2>. QED
    BY <2>3, <2>4
<1>17. ASSUME UNCHANGED <<batch, leases>> PROVE NextLoose \subseteq Loose
  BY <1>5, <1>17
<1>18. CASE CoolingEnds \/ Reset \/ UNCHANGED gateVars
  BY <1>6, <1>17, <1>18 DEF CoolingEnds, Reset, gateVars
<1>19. ASSUME NEW c \in Ceilings, Configure(c) PROVE LooseCounted'
  BY <1>7, <1>17, <1>19 DEF Configure
<1>. QED
  BY <1>10, <1>11, <1>12, <1>13, <1>14, <1>15, <1>16, <1>18, <1>19 DEF Next, Step

---------------------------------------------------------------------------

LEMMA GateInvHolds == ASSUME GateConstants PROVE Spec => []GateInv
<1>1. Init => GateInv
  BY InitGate
<1>2. GateInv /\ [Next]_gateVars => GateInv'
  BY TypeStep, LeasesStep, LooseStep DEF GateInv
<1>. QED
  BY <1>1, <1>2, PTL DEF Spec

\* Every lease belongs to one batch, so at most Highest calls hold one; the others
\* are counted.
LEMMA CallsHeldOrLoose == ASSUME GateConstants, GateInv PROVE CallsBounded
<1>. DEFINE Held == {b \in Calling : batch[b].token = "lease" /\ Lease(b) \in leases}
<1>1. IsFiniteSet(leases) /\ Cardinality(leases) \in Nat /\ Cardinality(leases) <= Highest
      /\ Highest \in Nat
  BY HighestIs, FS_CardinalityType DEF GateInv, LeasesKept
<1>2. IsFiniteSet(Held) /\ Cardinality(Held) <= Cardinality(leases) /\ Cardinality(Held) \in Nat
  <2>. DEFINE holds == [b \in Held |-> Lease(b)]
  <2>1. holds \in [Held -> leases]
    OBVIOUS
  <2>2. \A b, c \in Held : holds[b] = holds[c] => b = c
    BY DEF Lease
  <2>3. holds \in Injection(Held, leases)
    BY <2>1, <2>2 DEF Injection, IsInjective
  <2>. QED
    BY <1>1, <2>3, FS_Injection, FS_CardinalityType
<1>3. /\ IsFiniteSet(Loose) /\ Cardinality(Loose) \in Nat
      /\ Cardinality(Loose) <= spent["lapse"] + spent["open"]
      /\ spent["lapse"] \in Nat /\ spent["open"] \in Nat
  BY LooseFinite DEF GateInv, LooseCounted, TypeOK
<1>4. Calling = Held \cup Loose /\ Held \cap Loose = {}
  BY DEF Loose
<1>5. Cardinality(Calling) = Cardinality(Held) + Cardinality(Loose)
  <2>. HIDE DEF Held
  <2>1. Cardinality(Held \cup Loose)
          = Cardinality(Held) + Cardinality(Loose) - Cardinality(Held \cap Loose)
    BY <1>2, <1>3, FS_Union
  <2>2. Cardinality(Held \cap Loose) = 0
    BY <1>4, FS_EmptySet
  <2>. QED
    BY <1>2, <1>3, <1>4, <2>1, <2>2
<1>. HIDE DEF Held
<1>. QED
  BY <1>1, <1>2, <1>3, <1>5 DEF CallsBounded

\* The limit, the leases and the batches keep their types.
THEOREM TypeCorrect == Spec => []TypeOK
BY GateAssumption, GateInvHolds, PTL DEF GateInv

\* However processes acquire, lose and release leases, fail, back off and change
\* the setting: the provider sees no more calls at a time than the highest value
\* the setting may have, and one more for every lease that expired under its call
\* and every call that an error of Redis let through.
THEOREM CallsAreBounded == Spec => []CallsBounded
<1>. USE GateAssumption
<1>1. GateInv => CallsBounded
  BY CallsHeldOrLoose
<1>. QED
  BY <1>1, GateInvHolds, PTL
=============================================================================

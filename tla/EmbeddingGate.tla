---------------------------- MODULE EmbeddingGate ----------------------------
(* The gate that bounds the embedding calls of all processes with one        *)
(* provider key (services/embedding_gate.py), the shared cool-down after a   *)
(* rate limit (services/embedding_rate_limit.py) and the batches that pass   *)
(* through it (services/queue_embedding/embed_batches.py).                   *)
(*                                                                           *)
(* Each Lua script is one step. The adaptive limit is a float in the code    *)
(* and only its floor is ever compared: an increase by 1/limit lifts the     *)
(* floor by one or not at all, halving halves it.                            *)
EXTENDS Naturals, FiniteSets

CONSTANTS
  Batches,     \* batches of texts, each in a task of its own
  Ceilings,    \* values of the setting embedding_concurrency
  MaxRetries,  \* MAX_RATE_LIMIT_RETRIES
  MaxFaults    \* leases that expire under a running call, Redis errors, dying
               \* processes, provider errors and changes of the setting, together

\* Batches are finitely many, the setting is at least one (min=1 of its
\* specification, MIN_LIMIT of the gate) and has a greatest value (max=1024).
GateConstants ==
  /\ IsFiniteSet(Batches)
  /\ Ceilings \subseteq Nat \ {0}
  /\ \E c \in Ceilings : \A d \in Ceilings : d <= c
  /\ MaxRetries \in Nat

ASSUME GateAssumption == GateConstants

VARIABLES
  limit,     \* the adaptive limit in Redis, 0 when the key is absent
  halved,    \* was the limit decreased since it was last initialised?
  cooling,   \* is the cool-down of the provider running?
  leases,    \* the sorted set of leases, named by batch and try
  batch,     \* the batches
  ceiling,   \* the setting
  resetDue,  \* the limiters are to be reset after a change of the setting
  spent      \* faults and changes so far

gateVars == <<limit, halved, cooling, leases, batch, ceiling, resetDue, spent>>

Highest == CHOOSE c \in Ceilings : \A d \in Ceilings : d <= c
Waiting == {"cool", "acquire"}
Settled == {"done", "failed", "dead"}

TypeOK ==
  /\ limit \in Nat
  /\ {halved, cooling, resetDue} \subseteq BOOLEAN
  /\ leases \subseteq Batches \X (0..MaxRetries)
  /\ batch \in [Batches -> [pc : Waiting \cup {"call", "release", "report"} \cup Settled,
                            ceil : Ceilings, token : {"none", "lease", "open"},
                            result : {"none", "ok", "limited", "failed"},
                            tries : 0..MaxRetries]]
  /\ ceiling \in Ceilings
  /\ spent \in [{"lapse", "open", "fault", "change"} -> Nat]

\* A batch that keeps only its tries, and one that keeps nothing.
Fresh(b, pc, token) == [pc |-> pc, ceil |-> Highest, token |-> token,
                        result |-> "none", tries |-> batch[b].tries]
Ended(pc) == [pc |-> pc, ceil |-> Highest, token |-> "none", result |-> "none",
              tries |-> 0]

Init ==
  /\ limit = 0
  /\ halved = FALSE /\ cooling = FALSE /\ resetDue = FALSE
  /\ leases = {}
  /\ ceiling = Highest
  /\ batch = [b \in Batches |-> Ended("cool")]
  /\ spent = [f \in {"lapse", "open", "fault", "change"} |-> 0]

Spend(f) == spent' = [spent EXCEPT ![f] = @ + 1]
Fault == spent["lapse"] + spent["open"] + spent["fault"] + spent["change"] < MaxFaults
Lease(b) == <<b, batch[b].tries>>
Floor(c) == IF limit = 0 THEN c ELSE limit

---------------------------------------------------------------------------
(* embedding_gate, entered and left by the task of a batch.                 *)

\* The cool-down is looked at once, before the first attempt to acquire, and
\* so is the ceiling.
Pass(b) ==
  /\ batch[b].pc = "cool"
  /\ ~cooling
  /\ batch' = [batch EXCEPT ![b].pc = "acquire", ![b].ceil = ceiling]
  /\ UNCHANGED <<limit, halved, cooling, leases, ceiling, resetDue, spent>>

(* Mutant of Acquire: leases up to the limit are admitted.                  *)
AcquireAtLimit(b) ==
  /\ batch[b].pc = "acquire"
  /\ limit' = Floor(batch[b].ceil)
  /\ Cardinality(leases) <= limit'
  /\ leases' = leases \cup {Lease(b)}
  /\ batch' = [batch EXCEPT ![b] = Fresh(b, "call", "lease")]
  /\ UNCHANGED <<halved, cooling, ceiling, resetDue, spent>>

\* The script that initialises an absent limit and takes a lease below it. A
\* batch that finds no room tries again after a random pause.
Acquire(b) ==
  /\ batch[b].pc = "acquire"
  /\ limit' = Floor(batch[b].ceil)
  /\ Cardinality(leases) < limit'
  /\ leases' = leases \cup {Lease(b)}
  /\ batch' = [batch EXCEPT ![b] = Fresh(b, "call", "lease")]
  /\ UNCHANGED <<halved, cooling, ceiling, resetDue, spent>>

\* An error of Redis lets the call through without a lease.
FailOpen(b) ==
  /\ batch[b].pc = "acquire"
  /\ Fault
  /\ Spend("open")
  /\ batch' = [batch EXCEPT ![b] = Fresh(b, "call", "open")]
  /\ UNCHANGED <<limit, halved, cooling, leases, ceiling, resetDue>>

\* The provider answers, refuses for its rate limit, or fails.
Finish(b, result) ==
  /\ batch[b].pc = "call"
  /\ result = "failed" => Fault
  /\ IF result = "failed" THEN Spend("fault") ELSE UNCHANGED spent
  /\ batch' = [batch EXCEPT ![b].pc = "release", ![b].result = result]
  /\ UNCHANGED <<limit, halved, cooling, leases, ceiling, resetDue>>

\* An error of ZREM is swallowed: the lease then stays until it expires. A
\* failed call changes nothing else, its error is passed on.
Release(b) ==
  /\ batch[b].pc = "release"
  /\ \/ leases' = leases \ {Lease(b)} /\ UNCHANGED spent
     \/ batch[b].token = "lease" /\ Fault /\ Spend("fault") /\ UNCHANGED leases
  /\ batch' = [batch EXCEPT ![b] =
                 IF batch[b].result = "failed" THEN Ended("failed")
                 ELSE [@ EXCEPT !.pc = "report", !.token = "none"]]
  /\ UNCHANGED <<limit, halved, cooling, ceiling, resetDue>>

Increased == {l \in Floor(ceiling)..(Floor(ceiling) + 1) : l <= ceiling}
Halved == IF Floor(ceiling) \div 2 < 1 THEN 1 ELSE Floor(ceiling) \div 2

\* A success raises the limit, up to the ceiling of the moment.
Succeed(b) ==
  /\ batch[b].pc = "report" /\ batch[b].result = "ok"
  /\ limit' \in IF Increased = {} THEN {ceiling} ELSE Increased
  /\ batch' = [batch EXCEPT ![b] = Ended("done")]
  /\ UNCHANGED <<halved, cooling, leases, ceiling, resetDue, spent>>

\* A rate limit starts the cool-down and halves the limit, unless less than a
\* second has passed since it was last halved. The batch sleeps and comes back
\* until its retries are used up. (The cool-down is a command before the script.)
Limited(b) ==
  /\ batch[b].pc = "report" /\ batch[b].result = "limited"
  /\ cooling' = TRUE
  /\ \/ limit' = Halved /\ halved' = TRUE
     \/ halved /\ UNCHANGED <<limit, halved>>
  /\ batch' = [batch EXCEPT ![b] =
                 IF @.tries + 1 >= MaxRetries THEN Ended("failed")
                 ELSE [Fresh(b, "cool", "none") EXCEPT !.tries = @ + 1]]
  /\ UNCHANGED <<leases, ceiling, resetDue, spent>>

---------------------------------------------------------------------------
(* Time, failure and the setting.                                           *)

InUse(l) == LET b == l[1] IN
  batch[b].token = "lease" /\ Lease(b) = l /\ batch[b].pc # "dead"

(* Mutant of Lapse: leases that nobody holds any more stay.                 *)
LapseOfHolders(l) ==
  /\ l \in leases /\ InUse(l)
  /\ Fault /\ Spend("lapse")
  /\ leases' = leases \ {l}
  /\ UNCHANGED <<limit, halved, cooling, batch, ceiling, resetDue>>

\* The sixty seconds of a lease are over; the next acquire removes it.
Lapse(l) ==
  /\ l \in leases
  /\ IF InUse(l) THEN Fault /\ Spend("lapse")
                 ELSE UNCHANGED spent
  /\ leases' = leases \ {l}
  /\ UNCHANGED <<limit, halved, cooling, batch, ceiling, resetDue>>

\* The process of a batch dies and leaves its lease behind.
Die(b) ==
  /\ batch[b].pc \in {"acquire", "call", "release"}
  /\ Fault
  /\ Spend("fault")
  /\ batch' = [batch EXCEPT ![b] = Ended("dead")]
  /\ UNCHANGED <<limit, halved, cooling, leases, ceiling, resetDue>>

CoolingEnds == cooling /\ cooling' = FALSE
               /\ UNCHANGED <<limit, halved, leases, batch, ceiling, resetDue, spent>>

\* apply_prepared_runtime_settings: the new value is visible first ...
Configure(c) ==
  /\ Fault
  /\ ~resetDue /\ c # ceiling
  /\ Spend("change")
  /\ ceiling' = c
  /\ resetDue' = TRUE
  /\ UNCHANGED <<limit, halved, cooling, leases, batch>>

\* ... then the keys of the limit go, but not the leases.
Reset ==
  /\ resetDue
  /\ resetDue' = FALSE
  /\ limit' = 0
  /\ halved' = FALSE
  /\ UNCHANGED <<cooling, leases, batch, ceiling, spent>>

Step(b) == Pass(b) \/ Acquire(b) \/ Release(b) \/ Succeed(b) \/ Limited(b)

Next ==
  \/ \E b \in Batches : Step(b) \/ FailOpen(b) \/ Die(b)
  \/ \E b \in Batches, r \in {"ok", "limited", "failed"} : Finish(b, r)
  \/ \E b \in Batches, n \in 0..MaxRetries : Lapse(<<b, n>>)
  \/ CoolingEnds \/ Reset
  \/ \E c \in Ceilings : Configure(c)

\* A call is bounded by a timeout, a lease and a cool-down by their time to live.
Work == \E b \in Batches : Step(b) \/ Finish(b, "ok") \/ Finish(b, "limited")
LeftOver == \E b \in Batches, n \in 0..MaxRetries : ~InUse(<<b, n>>) /\ Lapse(<<b, n>>)

Fairness ==
  /\ WF_gateVars(Work)
  /\ WF_gateVars(CoolingEnds) /\ WF_gateVars(LeftOver) /\ WF_gateVars(Reset)

Spec == Init /\ [][Next]_gateVars /\ Fairness

---------------------------------------------------------------------------
(* Properties.                                                              *)

Calling == {b \in Batches : batch[b].pc = "call"}

\* Over all processes the provider never sees more calls than the setting has
\* ever allowed, but for leases that expired under their call and calls that
\* an error of Redis let through.
CallsBounded ==
  Cardinality(Calling) <=
    Highest + spent["lapse"] + spent["open"]

\* The gate never closes for good: halvings, dead holders, failed releases and
\* resets leave every batch of a finite load a way through.
GateOpens == <>(\A b \in Batches : batch[b].pc \in Settled)
=============================================================================

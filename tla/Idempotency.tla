----------------------------- MODULE Idempotency -----------------------------
(* IdempotencyMiddleware (middleware/idempotency.py) and the retries of the  *)
(* Python SDK (sdks/python/src/bigrag/_core.py), for the requests that share *)
(* one Idempotency-Key, principal, method and path.                          *)
(*                                                                           *)
(* An attempt is one HTTP request: it reads the key, reserves it for a       *)
(* minute, reads it again when somebody else had it, runs the application    *)
(* and stores the response or gives the key up. Each of these is a Redis     *)
(* command of its own, and the client may have gone away in the meantime.    *)
EXTENDS Naturals, FiniteSets

CONSTANTS
  Callers,      \* calls of the SDK that carry the key
  Bodies,       \* request bodies, compared by their hash
  MaxAttempts,  \* max_retries + 1 of the SDK
  MaxSends,     \* attempts of all calls together
  MaxLapses,    \* reservations that expire under a running request
  MaxDeaths     \* processes that die while they handle a request

\* The calls of a client and their attempts are finitely many.
IdempotencyConstants == IsFiniteSet(Callers) /\ MaxAttempts \in Nat

ASSUME IdempotencyAssumption == IdempotencyConstants

VARIABLES
  oneTime,  \* is the route one whose response must not be stored?
  key,      \* the Redis value of the key
  attempt,  \* the attempts as the server sees them
  body,     \* the body of each call
  effects,  \* attempts whose effect was committed
  causes    \* how often each fault that can repeat an effect happened

idemVars == <<oneTime, key, attempt, body, effects, causes>>

Attempts == Callers \X (1..MaxAttempts)
Free == [kind |-> "free"]
Replies == {"none", "ok", "replay", "conflict", "in_flight", "one_time", "error"}
Faults == {"lapse", "slip", "big", "late", "death"}

KeyTypeOK ==
  /\ oneTime \in BOOLEAN
  /\ key \in {Free} \cup [kind : {"in_flight", "response", "one_time"},
                          body : Bodies, by : Attempts]
  /\ attempt \in [Attempts -> [pc : {"idle", "read", "reserve", "reread", "run",
                                 "store", "drop", "end"},
                           reply : Replies, from : {<<>>} \cup Attempts]]
  /\ body \in [Callers -> Bodies]
  /\ effects \subseteq Attempts
  /\ causes \in [Faults -> Nat]

KeyInit ==
  /\ oneTime \in BOOLEAN
  /\ key = Free
  /\ attempt = [a \in Attempts |-> [pc |-> "idle", reply |-> "none", from |-> <<>>]]
  /\ body \in [Callers -> Bodies]
  /\ effects = {}
  /\ causes = [f \in Faults |-> 0]

BodyOf(a) == body[a[1]]
CountCause(f) == causes' = [causes EXCEPT ![f] = @ + 1]
AttemptGoes(a, to) == attempt' = [attempt EXCEPT ![a].pc = to]

---------------------------------------------------------------------------
\* Attempts of a call carry the same key and body and come one after another.
\* A timeout, a lost connection and an error lead to the next one, and the
\* server goes on with the last: any answer can be lost on its way.
Send(c, n) ==
  /\ attempt[<<c, n>>].pc = "idle"
  /\ \A m \in 1..(n - 1) : attempt[<<c, m>>].pc # "idle"
  /\ Cardinality({a \in Attempts : attempt[a].pc # "idle"}) < MaxSends
  /\ AttemptGoes(<<c, n>>, "read")
  /\ UNCHANGED <<oneTime, key, body, effects, causes>>

---------------------------------------------------------------------------
(* The middleware.                                                          *)

\* What a request that finds the key taken is told, and whose effect it is.
ReplyTo(a) ==
  CASE key.kind = "in_flight" -> "in_flight"
    [] key.kind = "one_time" -> "one_time"
    [] key.kind = "response" /\ key.body # BodyOf(a) -> "conflict"
    [] OTHER -> "replay"

Answered(a) ==
  attempt' = [attempt EXCEPT ![a] = [pc |-> "end", reply |-> ReplyTo(a), from |-> key.by]]

Read(a) ==
  /\ attempt[a].pc = "read"
  /\ IF key = Free THEN AttemptGoes(a, "reserve") ELSE Answered(a)
  /\ UNCHANGED <<oneTime, key, body, effects, causes>>

(* Mutant of ReserveKey: SET without NX.                                    *)
ReserveKeyAlways(a) ==
  /\ attempt[a].pc = "reserve"
  /\ key' = [kind |-> "in_flight", body |-> BodyOf(a), by |-> a]
  /\ AttemptGoes(a, "run")
  /\ UNCHANGED <<oneTime, body, effects, causes>>

\* SET NX with the time to live of a reservation.
ReserveKey(a) ==
  /\ attempt[a].pc = "reserve"
  /\ IF key = Free
     THEN /\ key' = [kind |-> "in_flight", body |-> BodyOf(a), by |-> a]
          /\ AttemptGoes(a, "run")
     ELSE /\ AttemptGoes(a, "reread")
          /\ UNCHANGED key
  /\ UNCHANGED <<oneTime, body, effects, causes>>

\* The holder may be gone by now: then the request runs without a reservation.
Reread(a) ==
  /\ attempt[a].pc = "reread"
  /\ IF key = Free THEN AttemptGoes(a, "run") /\ CountCause("slip")
                   ELSE Answered(a) /\ UNCHANGED causes
  /\ UNCHANGED <<oneTime, key, body, effects>>

\* The application answers, and the answer passes through before it is stored.
\* A successful body above 64 KB is not kept, and neither is an error, which may
\* come after the effect was committed.
Execute(a) ==
  /\ attempt[a].pc = "run"
  /\ \/ \E stored \in BOOLEAN :
          /\ effects' = effects \cup {a}
          /\ attempt' = [attempt EXCEPT ![a].reply = "ok", ![a].from = a, ![a].pc =
                       IF stored \/ oneTime THEN "store" ELSE "drop"]
          /\ IF stored \/ oneTime THEN UNCHANGED causes ELSE CountCause("big")
     \/ \E committed \in BOOLEAN :
          /\ attempt' = [attempt EXCEPT ![a].reply = "error", ![a].pc = "drop"]
          /\ IF committed THEN effects' = effects \cup {a} /\ CountCause("late")
                          ELSE UNCHANGED <<effects, causes>>
  /\ UNCHANGED <<oneTime, key, body>>

\* Nobody looks whether the key is still the request's own.
StoreReply(a) ==
  /\ attempt[a].pc = "store"
  /\ key' = [kind |-> IF oneTime THEN "one_time" ELSE "response",
             body |-> BodyOf(a), by |-> a]
  /\ AttemptGoes(a, "end")
  /\ UNCHANGED <<oneTime, body, effects, causes>>

Drop(a) ==
  /\ attempt[a].pc = "drop"
  /\ key' = Free
  /\ AttemptGoes(a, "end")
  /\ UNCHANGED <<oneTime, body, effects, causes>>

---------------------------------------------------------------------------
(* Time and failure.                                                        *)

Holding(a) == attempt[a].pc \in {"run", "store", "drop"}

\* The sixty seconds of a reservation are over.
ReservationExpires ==
  /\ key.kind = "in_flight"
  /\ IF Holding(key.by) THEN causes["lapse"] < MaxLapses /\ CountCause("lapse")
                        ELSE UNCHANGED causes
  /\ key' = Free
  /\ UNCHANGED <<oneTime, attempt, body, effects>>

\* The process dies: nothing is stored and nothing given up.
HandlerDies(a) ==
  /\ Holding(a)
  /\ causes["death"] < MaxDeaths
  /\ CountCause("death")
  /\ AttemptGoes(a, "end")
  /\ UNCHANGED <<oneTime, key, body, effects>>

ServeAttempt(a) == Read(a) \/ ReserveKey(a) \/ Reread(a) \/ Execute(a) \/ StoreReply(a) \/ Drop(a)

KeyNext ==
  \/ \E c \in Callers, n \in 1..MaxAttempts : Send(c, n)
  \/ \E a \in Attempts : ServeAttempt(a) \/ HandlerDies(a)
  \/ ReservationExpires

KeySpec == KeyInit /\ [][KeyNext]_idemVars

---------------------------------------------------------------------------
(* Properties.                                                              *)

Sum == causes["lapse"] + causes["slip"] + causes["big"] + causes["late"] + causes["death"]

\* A request takes effect once, and once more only for a cause: a reservation
\* that expired under it, one that vanished between the two looks of another
\* attempt, a response too large to store, an error or a death after the effect.
OncePerKey == Cardinality(effects) <= 1 + Sum

\* A success, fresh or replayed, always stands for an effect of the same body.
SuccessIsGenuine ==
  \A a \in Attempts : attempt[a].reply \in {"ok", "replay"} =>
    attempt[a].from \in effects /\ BodyOf(attempt[a].from) = BodyOf(a)

\* Once a response is stored, later attempts find that response: the unchecked
\* writes and deletions of other attempts reach it only after a lapse or a slip.
StoredStands ==
  [][key.kind \in {"response", "one_time"} /\ key' # key =>
       causes["lapse"] + causes["slip"] > 0]_idemVars

\* A request takes effect once per key, but for the causes above, a success stands
\* for an effect, and a stored response stands.
KeysHold == [](OncePerKey /\ SuccessIsGenuine) /\ StoredStands
=============================================================================

------------------------------ MODULE Startup ------------------------------
(* The start of the API processes and of the worker (app_factory/lifespan.py, *)
(* worker.py, services/jobs/runtime.py): each of them brings the schema up to *)
(* date (alembic/env.py, db/bootstrap.py) before it serves, under an advisory *)
(* lock that is given back before the transaction is committed; and what      *)
(* /health/ready says of a server meanwhile (services/health.py).             *)
EXTENDS Naturals, FiniteSets

CONSTANTS
  Starters,    \* API processes and the parent of the workers
  NoProcess,   \* nobody holds the lock
  MaxOutages,  \* dying processes, timeouts and outages
  MaxChecks    \* checks of the readiness

ASSUME StartupAssumption ==
  NoProcess \notin Starters /\ MaxOutages \in Nat /\ MaxChecks \in Nat

Dependencies == {"postgres", "vectors", "redis", "embedding"}

VARIABLES
  schema,    \* the committed schema: is it there
  holder,    \* the session with the advisory lock
  starting,  \* where the start of a process is
  found,     \* what the migration of a process found: was the schema there
  patient,   \* does the process still wait for its migration
  overlap,   \* processes that got the lock before another's commit
  up,        \* the dependencies that answer
  check,     \* a check that runs: its results, and what was up since it began
  verdict,   \* the cached readiness, and what was up since its check began
  probe,     \* the cached answer of the embedding provider
  outages, checks

startupVars == <<schema, holder, starting, found, patient, overlap, up, check, verdict, probe,
                 outages, checks>>

Stages == {"down", "waiting", "locked", "looked", "ran", "failed", "unlocked", "aborted",
           "migrated", "serving"}
\* A transaction that has created the tables, and is not committed.
Uncommitted(p) == starting[p] \in {"ran", "unlocked"} /\ ~found[p]

Results == SUBSET Dependencies
NoCheck == [pc |-> "none", good |-> {}, since |-> {}]
NoVerdict == [status |-> "none", since |-> {}]

StartupTypeOK ==
  /\ schema \in BOOLEAN
  /\ holder \in Starters \cup {NoProcess}
  /\ starting \in [Starters -> Stages]
  /\ found \in [Starters -> BOOLEAN] /\ patient \in [Starters -> BOOLEAN]
  /\ overlap \subseteq Starters
  /\ up \subseteq Dependencies
  /\ check \in [pc : {"none", "gather", "embedding"}, good : Results, since : Results]
  /\ verdict \in [status : {"none", "ok", "degraded"}, since : Results]
  /\ probe \in {"none", "ok", "error"}
  /\ outages \in 0..MaxOutages /\ checks \in 0..MaxChecks

StartupInit ==
  /\ schema = FALSE /\ holder = NoProcess
  /\ starting = [p \in Starters |-> "down"]
  /\ found = [p \in Starters |-> FALSE]
  /\ patient = [p \in Starters |-> TRUE]
  /\ overlap = {}
  /\ up = Dependencies
  /\ check = NoCheck /\ verdict = NoVerdict /\ probe = "none"
  /\ outages = 0 /\ checks = 0

StartFault == outages < MaxOutages /\ outages' = outages + 1
StageGoes(p, from, to) == starting[p] = from /\ starting' = [starting EXCEPT ![p] = to]
Readiness == <<up, check, verdict, probe, checks>>

---------------------------------------------------------------------------
(* Migrations.                                                                *)

\* lifespan and the parent of the workers, after the startup guard: the first SET
\* opens the transaction.
BeginStart(p) ==
  /\ StageGoes(p, "down", "waiting") /\ "postgres" \in up
  /\ patient' = [patient EXCEPT ![p] = TRUE]
  /\ overlap' = overlap \ {p}
  /\ UNCHANGED <<schema, holder, found, outages, Readiness>>

\* pg_advisory_lock
TakeLock(p) ==
  /\ StageGoes(p, "waiting", "locked")
  /\ holder = NoProcess /\ holder' = p
  /\ overlap' = IF \E q \in Starters \ {p} : Uncommitted(q) THEN overlap \cup {p} ELSE overlap
  /\ UNCHANGED <<schema, found, patient, outages, Readiness>>

\* The version table is read: another's transaction does not show.
LookAtSchema(p) ==
  /\ StageGoes(p, "locked", "looked")
  /\ found' = [found EXCEPT ![p] = schema]
  /\ UNCHANGED <<schema, holder, patient, overlap, outages, Readiness>>

\* Without a version the tables are created: that waits for a transaction that
\* has created them too, and fails when it has been committed.
Upgrade(p) ==
  /\ starting[p] = "looked"
  /\ found[p] \/ ~\E q \in Starters \ {p} : Uncommitted(q)
  /\ StageGoes(p, "looked", IF ~found[p] /\ schema THEN "failed" ELSE "ran")
  /\ UNCHANGED <<schema, holder, found, patient, overlap, outages, Readiness>>

\* The lock goes in "finally", the transaction is still open.
Unlock(p) ==
  /\ \/ StageGoes(p, "ran", "unlocked")
     \/ StageGoes(p, "failed", "aborted")
  /\ holder' = NoProcess
  /\ UNCHANGED <<schema, found, patient, overlap, outages, Readiness>>

\* The commit; the process goes on if it still waits for its migration.
CommitSchema(p) ==
  /\ StageGoes(p, "unlocked", IF patient[p] THEN "migrated" ELSE "down")
  /\ schema' = TRUE
  /\ UNCHANGED <<holder, found, patient, overlap, outages, Readiness>>

\* A failing migration ends the process.
Abort(p) ==
  /\ StageGoes(p, "aborted", "down")
  /\ UNCHANGED <<schema, holder, found, patient, overlap, outages, Readiness>>

(* Mutant of TimeOut: the start goes on without the migration.                *)
TimeOutGoesOn(p) ==
  /\ starting[p] \notin {"down", "migrated", "serving"} /\ patient[p] /\ StartFault
  /\ starting' = [starting EXCEPT ![p] = "migrated"]
  /\ UNCHANGED <<schema, holder, found, patient, overlap, Readiness>>

\* wait_for gives up, and the thread of the migration goes on.
TimeOut(p) ==
  /\ starting[p] \notin {"down", "migrated", "serving"} /\ patient[p] /\ StartFault
  /\ patient' = [patient EXCEPT ![p] = FALSE]
  /\ UNCHANGED <<schema, holder, starting, found, overlap, Readiness>>

\* A process dies; its session ends, with its lock and its transaction.
StarterDies(p) ==
  /\ starting[p] # "down" /\ StartFault
  /\ starting' = [starting EXCEPT ![p] = "down"]
  /\ holder' = IF holder = p THEN NoProcess ELSE holder
  /\ UNCHANGED <<schema, found, patient, overlap, Readiness>>

\* The settings, the queues and the pools: without Redis the start fails.
BeginServing(p) ==
  /\ starting[p] = "migrated"
  /\ StageGoes(p, "migrated", IF {"postgres", "redis"} \subseteq up THEN "serving" ELSE "down")
  /\ UNCHANGED <<schema, holder, found, patient, overlap, outages, Readiness>>

---------------------------------------------------------------------------
(* Readiness.                                                                 *)

Serving == \E p \in Starters : starting[p] = "serving"
Starts == <<schema, holder, starting, found, patient, overlap>>

Outage(d) ==
  /\ d \in up /\ StartFault
  /\ up' = up \ {d}
  /\ UNCHANGED <<Starts, check, verdict, probe, checks>>

Recovers(d) ==
  /\ d \notin up /\ up' = up \cup {d}
  /\ check' = [check EXCEPT !.since = IF check.pc = "none" THEN @ ELSE @ \cup {d}]
  /\ verdict' = [verdict EXCEPT !.since = IF verdict.status = "none" THEN @ ELSE @ \cup {d}]
  /\ UNCHANGED <<Starts, probe, outages, checks>>

\* readiness_status: the cached verdict is not there, or Redis does not answer.
Check ==
  /\ Serving /\ check.pc = "none" /\ checks < MaxChecks
  /\ verdict.status = "none" \/ "redis" \notin up
  /\ checks' = checks + 1
  /\ check' = [pc |-> "gather", good |-> {}, since |-> up]
  /\ UNCHANGED <<Starts, up, verdict, probe, outages>>

\* The three of the infrastructure, each when it answers; all are bad after a timeout.
Gather ==
  /\ check.pc = "gather"
  /\ \E good \in {up \ {"embedding"}, {}} :
       check' = [check EXCEPT !.pc = "embedding", !.good = good]
  /\ UNCHANGED <<Starts, up, verdict, probe, outages, checks>>

\* The embedding provider is asked, or its answer of the last minute is taken;
\* then the verdict is cached.
ConcludeCheck ==
  /\ check.pc = "embedding" /\ check' = NoCheck
  /\ LET answer == IF probe # "none" /\ "redis" \in up THEN probe
                   ELSE IF "embedding" \in up THEN "ok" ELSE "error"
         good == check.good \cup IF answer = "ok" THEN {"embedding"} ELSE {}
     IN  IF "redis" \in up
           THEN /\ probe' = answer
                /\ verdict' = [status |-> IF good = Dependencies THEN "ok" ELSE "degraded",
                               since |-> check.since]
           ELSE UNCHANGED <<probe, verdict>>
  /\ UNCHANGED <<Starts, up, outages, checks>>

VerdictExpires ==
  /\ verdict.status # "none" /\ verdict' = NoVerdict
  /\ UNCHANGED <<Starts, up, check, probe, outages, checks>>

ProbeExpires ==
  /\ probe # "none" /\ probe' = "none"
  /\ UNCHANGED <<Starts, up, check, verdict, outages, checks>>

StartupNext ==
  \/ \E p \in Starters :
       \/ BeginStart(p) \/ TakeLock(p) \/ LookAtSchema(p) \/ Upgrade(p) \/ Unlock(p)
       \/ CommitSchema(p) \/ Abort(p)
       \/ TimeOut(p) \/ StarterDies(p) \/ BeginServing(p)
  \/ \E d \in Dependencies : Outage(d) \/ Recovers(d)
  \/ Check \/ Gather \/ ConcludeCheck \/ VerdictExpires \/ ProbeExpires

StartupSpec == StartupInit /\ [][StartupNext]_startupVars

---------------------------------------------------------------------------
(* Properties.                                                                *)

\* The tables are created by one transaction at a time, a process that serves
\* has them committed, and a start fails on tables that are there only if it
\* got the lock between the unlock and the commit of another.
SchemaSound ==
  /\ Cardinality({p \in Starters : Uncommitted(p)}) <= 1
  /\ \A p \in Starters :
       /\ starting[p] \in {"migrated", "serving"} => schema
       /\ starting[p] \in {"failed", "aborted"} => p \in overlap

\* "ok" has a basis: all that it vouches for but the embedding provider, whose
\* answer may be a minute older, has been up since its check began.
ReadyHasBasis == verdict.status = "ok" => Dependencies \ {"embedding"} \subseteq verdict.since

\* The schema stays, and the lock changes hands only over "nobody".
SchemaStays ==
  /\ schema => schema'
  /\ holder # NoProcess => holder' \in {holder, NoProcess}

\* Tables are created once, servers have them, and "ready" has a basis.
StartsSound == [](SchemaSound /\ ReadyHasBasis) /\ [][SchemaStays]_startupVars
=============================================================================

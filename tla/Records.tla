------------------------------ MODULE Records ------------------------------
(* The three logs that an API process writes behind its requests: the audit   *)
(* log, the access log and the query log (services/audit.py, access_log/      *)
(* flusher.py, retrieval/log.py).  A request puts a record into a bounded     *)
(* queue in memory; a task of each log takes batches and inserts them, one    *)
(* statement a batch.  What a record points at can be deleted meanwhile.      *)
(* The logs have the same task and share nothing, so that a behaviour is one  *)
(* of a single log; they differ in what a record names and in what is deleted.*)
EXTENDS Naturals, Sequences, FiniteSets, Functions

CONSTANTS
  MaxRecords,   \* records of a behaviour
  QueueMax,     \* _AUDIT_QUEUE_MAX and its likes
  BatchMax,     \* _AUDIT_BATCH_MAX and its likes
  MaxLogFaults  \* failing inserts, dying processes

ASSUME RecordsAssumption ==
  /\ MaxRecords \in Nat /\ QueueMax \in Nat /\ MaxLogFaults \in Nat
  /\ BatchMax \in Nat \ {0}

Logs == {"audit", "access", "query"}
Parents == {"user", "key", "collection"}

VARIABLES
  whichLog,  \* which of the logs
  alive,     \* the rows that records point at
  record,    \* the records so far: the rows that each one names
  waiting,   \* the queue
  hand,      \* the batch that the task is writing
  task,      \* the task of the log
  table,     \* the rows written, with the links that are still set
  removed,   \* records whose rows were written and deleted
  lost,      \* records that are nowhere, and why
  logFaults

recordsVars ==
  <<whichLog, alive, record, waiting, hand, task, table, removed, lost, logFaults>>

Ids == DOMAIN record

Causes == {"full", "closed", "poisoned", "fault", "cut", "left", "death"}
Row == [id : Nat, links : SUBSET Parents]

RecordsTypeOK ==
  /\ whichLog \in Logs /\ alive \subseteq Parents
  /\ record \in Seq(SUBSET Parents)
  /\ waiting \in Seq(Nat) /\ hand \in Seq(Nat)
  /\ task \in {"down", "running", "stopping", "draining", "closing"}
  /\ table \subseteq Row
  /\ removed \subseteq Nat
  /\ lost \subseteq Nat \X Causes
  /\ logFaults \in 0..MaxLogFaults

RecordsInit ==
  /\ whichLog \in Logs
  /\ alive = Parents
  /\ record = <<>> /\ waiting = <<>> /\ hand = <<>>
  /\ task = "down"
  /\ table = {} /\ removed = {} /\ lost = {}
  /\ logFaults = 0

Lose(ids, why) == lost' = lost \cup {<<i, why>> : i \in ids}

---------------------------------------------------------------------------
(* Requests.                                                                  *)

\* The principal of the request, as it was when the request was authenticated.
\* A query names its collection by id, or leaves the id to the task.
Names ==
  IF whichLog = "query" THEN {{"collection"}, {}} ELSE {{"user"}, {"user", "key"}}
Named == UNION Names

\* put_nowait: the queue is not there, it is full, or it takes the record.
Enqueue(names) ==
  /\ Len(record) < MaxRecords
  /\ record' = Append(record, names)
  /\ LET r == Len(record') IN
     \/ task = "down" /\ Lose({r}, "closed") /\ UNCHANGED waiting
     \/ task # "down" /\ Len(waiting) >= QueueMax /\ Lose({r}, "full") /\ UNCHANGED waiting
     \/ /\ task # "down" /\ Len(waiting) < QueueMax
        /\ waiting' = Append(waiting, r)
        /\ UNCHANGED lost
  /\ UNCHANGED <<whichLog, alive, hand, task, table, removed, logFaults>>

---------------------------------------------------------------------------
(* The task of a log.                                                         *)

Start ==
  /\ task = "down" /\ hand = <<>>
  /\ task' = "running"
  /\ waiting' = <<>>
  /\ UNCHANGED <<whichLog, alive, record, hand, table, removed, lost, logFaults>>

\* _drain_batch: the first record, and what else is there.
Take ==
  /\ task \in {"running", "stopping"}
  /\ hand = <<>> /\ waiting # <<>>
  /\ LET n == IF Len(waiting) < BatchMax THEN Len(waiting) ELSE BatchMax IN
     /\ hand' = SubSeq(waiting, 1, n)
     /\ waiting' = SubSeq(waiting, n + 1, Len(waiting))
  /\ UNCHANGED <<whichLog, alive, record, task, table, removed, lost, logFaults>>

\* _resolve_collection_ids: rows of the query log that came with a name only get
\* the id of the collection, if there is one.
ResolveCollectionIds ==
  /\ whichLog = "query" /\ "collection" \in alive
  /\ \E i \in Range(hand) :
       /\ record[i] = {}
       /\ record' = [record EXCEPT ![i] = {"collection"}]
  /\ UNCHANGED <<whichLog, alive, waiting, hand, task, table, removed, lost, logFaults>>

\* The rows of the batch, if the names of every one of them are there.
Inserted(ids) == {[id |-> i, links |-> record[i]] : i \in ids}
Poisoned(ids) == \E i \in ids : ~(record[i] \subseteq alive)
Emptied == hand' = <<>>

\* _flush_batch: one INSERT, whose failure is logged and forgotten.
Flush ==
  LET ids == Range(hand) IN
  /\ hand # <<>> /\ Emptied
  /\ \/ Poisoned(ids) /\ Lose(ids, "poisoned") /\ UNCHANGED <<table, logFaults>>
     \/ ~Poisoned(ids) /\ table' = table \cup Inserted(ids) /\ UNCHANGED <<lost, logFaults>>
     \/ /\ logFaults < MaxLogFaults /\ logFaults' = logFaults + 1
        /\ Lose(ids, "fault") /\ UNCHANGED table
  /\ UNCHANGED <<whichLog, alive, record, waiting, task, removed>>

\* stop_audit_flusher: the task writes what is left and ends,
Stop ==
  /\ task = "running"
  /\ task' = "stopping"
  /\ UNCHANGED <<whichLog, alive, record, waiting, hand, table, removed, lost, logFaults>>

TaskEnds ==
  /\ task = "stopping" /\ waiting = <<>> /\ hand = <<>>
  /\ task' = "draining"
  /\ UNCHANGED <<whichLog, alive, record, waiting, hand, table, removed, lost, logFaults>>

(* Mutant of CutOff: the batch goes back into the queue, written or not.      *)
CutOffRequeues ==
  /\ task = "stopping" /\ hand # <<>>
  /\ table' \in {table, IF Poisoned(Range(hand)) THEN table
                        ELSE table \cup Inserted(Range(hand))}
  /\ waiting' = hand \o waiting
  /\ Emptied
  /\ task' = "draining"
  /\ UNCHANGED <<whichLog, alive, record, removed, lost, logFaults>>

\* or it is canceled after five seconds, with its batch written or not,
CutOff ==
  /\ task = "stopping" /\ hand # <<>>
  /\ \/ Lose(Range(hand), "cut") /\ UNCHANGED table
     \/ ~Poisoned(Range(hand)) /\ table' = table \cup Inserted(Range(hand)) /\ UNCHANGED lost
  /\ Emptied
  /\ task' = "draining"
  /\ UNCHANGED <<whichLog, alive, record, waiting, removed, logFaults>>

\* then what still waits is written in one batch of any length,
Drain ==
  /\ task = "draining"
  /\ hand' = waiting
  /\ waiting' = <<>>
  /\ task' = IF waiting = <<>> THEN "down" ELSE "closing"
  /\ UNCHANGED <<whichLog, alive, record, table, removed, lost, logFaults>>

\* and the queue goes, with what was put into it during that write.
Close ==
  /\ task = "closing" /\ hand = <<>>
  /\ task' = "down"
  /\ Lose(Range(waiting), "left")
  /\ waiting' = <<>>
  /\ UNCHANGED <<whichLog, alive, record, hand, table, removed, logFaults>>

\* The process dies, with all its queues.
LogDies ==
  /\ logFaults < MaxLogFaults /\ logFaults' = logFaults + 1
  /\ task # "down" /\ task' = "down"
  /\ Lose(Range(waiting) \cup Range(hand), "death")
  /\ waiting' = <<>> /\ hand' = <<>>
  /\ UNCHANGED <<whichLog, alive, record, table, removed>>

---------------------------------------------------------------------------
(* Deletions.                                                                 *)

\* The foreign keys of the logs: the links of audit and access rows are set to
\* NULL, and the rows of the query log go with the collection.  The trigger of
\* the audit log lets an update of the links pass and nothing else.
DeleteParent(parent) ==
  LET gone == IF parent = "user" THEN {"user", "key"} ELSE {parent}
      fall == {row \in table : whichLog = "query" /\ row.links \cap gone # {}}
  IN  /\ parent \in alive \cap Named
      /\ alive' = alive \ gone
      /\ table' = {[row EXCEPT !.links = @ \ gone] : row \in table \ fall}
      /\ removed' = removed \cup {row.id : row \in fall}
      /\ UNCHANGED <<whichLog, record, waiting, hand, task, lost, logFaults>>

\* cleanup_old_data_once: the query and the access log lose their old rows; the
\* audit log has no retention.
CleanUp ==
  \E old \in table :
    /\ whichLog # "audit"
    /\ table' = table \ {old}
    /\ removed' = removed \cup {old.id}
    /\ UNCHANGED <<whichLog, alive, record, waiting, hand, task, lost, logFaults>>

RecordsNext ==
  \/ \E names \in Names : Enqueue(names)
  \/ Start \/ Take \/ Flush \/ Stop \/ TaskEnds \/ CutOff \/ Drain \/ Close
  \/ ResolveCollectionIds \/ LogDies
  \/ \E p \in Parents : DeleteParent(p)
  \/ CleanUp

RecordsSpec == RecordsInit /\ [][RecordsNext]_recordsVars

---------------------------------------------------------------------------
(* Properties.                                                                *)

Waiting == Range(waiting) \cup Range(hand)
WrittenIds == {row.id : row \in table}
Lost == {p[1] : p \in lost}

\* Every record is in one place: it waits, it is a row, its row was deleted, or
\* it is lost.  Canceling and draining a task write no record twice and forget
\* none, and no row names what is not there.
Accounted ==
  /\ Ids = Waiting \cup WrittenIds \cup removed \cup Lost
  /\ Cardinality(Ids) = Cardinality(Waiting) + Cardinality(table) + Cardinality(removed)
                          + Cardinality(lost)
  /\ \A row \in table : row.links \subseteq alive

\* While nothing fails, stops or is deleted, a record is lost to a full queue
\* only; and a batch is lost for its names only after a deletion.
LossHasCause ==
  \A p \in lost :
    CASE p[2] = "full" -> Len(record) > QueueMax
      [] p[2] = "poisoned" -> alive # Parents
      [] p[2] \in {"fault", "death"} -> logFaults > 0
      [] OTHER -> TRUE

\* The rows of one log are written in the order of their requests: none is
\* written while an older one waits.
InOrder ==
  \A i \in WrittenIds \cup removed, j \in Waiting : i < j

\* A row of the audit log stays, whoever is deleted, and its links are only
\* ever set to NULL.
AuditStands ==
  whichLog = "audit" =>
    \A row \in table : \E new \in table' : new.id = row.id /\ new.links \subseteq row.links

\* Every record of the three logs is in one place, and is lost for a cause only;
\* rows of the audit log stay.
RecordsHold ==
  /\ [](Accounted /\ LossHasCause /\ InOrder)
  /\ [][AuditStands]_recordsVars
=============================================================================

-------------------------------- MODULE Caches --------------------------------
(* The caches of one collection in Redis: its row (collection_cache.py) and   *)
(* the results of one query (retrieval/cache.py, cache_lookup.py), kept under *)
(* an epoch that every invalidation increments.                               *)
(*                                                                            *)
(* Readers are query requests, in API processes of which each fills the row   *)
(* once at a time; writers are what changes the row or the vectors.           *)
EXTENDS Naturals, FiniteSets

CONSTANTS
  Readers,
  Writers,
  Process,     \* the API process of each reader
  NoReader,
  MaxReads,
  MaxWrites,
  MaxExpiries, \* entries and epochs that time out, and dying processes
  Nothing      \* of a cache entry

\* Writers are finitely many, and so are the changes of a run.
CachesConstants == IsFiniteSet(Writers) /\ MaxWrites \in Nat

ASSUME CachesAssumption == CachesConstants

VARIABLES
  row,     \* version of the collection's row
  index,   \* version of the vectors that a search sees
  entry,   \* the row in the cache
  filling, \* who holds the fill lock of a process
  epoch,
  results, \* the results in the cache: the version of the vectors, by epoch
  reader,
  writer,
  seen     \* what the properties need to know of the past

cachesVars == <<row, index, entry, filling, epoch, results, reader, writer, seen>>

Processes == {Process[r] : r \in Readers}
Epochs == 0..MaxWrites
IdleReader == [pc |-> "idle", row |-> 0, epoch |-> 0, index |-> 0]

CachesTypeOK ==
  /\ {row, index, epoch} \subseteq Nat
  /\ entry \in Nat \cup {Nothing}
  /\ filling \in [Processes -> Readers \cup {NoReader}]
  /\ results \in [Epochs -> Nat \cup {Nothing}]
  /\ reader \in [Readers -> [pc : {"idle", "look", "lock", "query", "fill", "epoch", "search", "store"},
                             row : Nat, epoch : Nat, index : Nat]]
  /\ writer \in [Writers -> {"idle", "change", "clear", "bump"}]
  /\ seen \in [reads : Nat, writes : Nat, expiries : Nat, settled : Nat, excused : BOOLEAN]

CachesInit ==
  /\ row = 0 /\ index = 0 /\ epoch = 0
  /\ entry = Nothing
  /\ filling = [p \in Processes |-> NoReader]
  /\ results = [e \in Epochs |-> Nothing]
  /\ reader = [r \in Readers |-> IdleReader]
  /\ writer = [w \in Writers |-> "idle"]
  /\ seen = [reads |-> 0, writes |-> 0, expiries |-> 0, settled |-> 0, excused |-> FALSE]

At(r, pc) == reader[r].pc = pc
ReaderGoes(r, pc) == reader' = [reader EXCEPT ![r] = IF pc = "idle" THEN IdleReader ELSE [@ EXCEPT !.pc = pc]]
WriterGoes(w, pc) == writer' = [writer EXCEPT ![w] = pc]
Expiring == seen.expiries < MaxExpiries /\ seen' = [seen EXCEPT !.expiries = @ + 1]

---------------------------------------------------------------------------
(* A query: get_or_404, then retrieve.                                       *)

Ask(r) ==
  /\ At(r, "idle")
  /\ seen.reads < MaxReads
  /\ ReaderGoes(r, "look")
  /\ seen' = [seen EXCEPT !.reads = @ + 1]
  /\ UNCHANGED <<row, index, entry, filling, epoch, results, writer>>

\* Twice, without and with the fill lock.
LookIn(r) ==
  /\ At(r, "look") \/ (At(r, "lock") /\ filling[Process[r]] = r)
  /\ IF entry # Nothing
       THEN /\ reader' = [reader EXCEPT ![r].pc = "epoch", ![r].row = entry]
            /\ filling' = [p \in Processes |-> IF filling[p] = r THEN NoReader ELSE filling[p]]
       ELSE /\ ReaderGoes(r, IF At(r, "look") THEN "lock" ELSE "query")
            /\ UNCHANGED filling
  /\ UNCHANGED <<row, index, entry, epoch, results, writer, seen>>

Lock(r) ==
  /\ At(r, "lock") /\ filling[Process[r]] = NoReader
  /\ filling' = [filling EXCEPT ![Process[r]] = r]
  /\ UNCHANGED <<row, index, entry, epoch, results, reader, writer, seen>>

QueryRow(r) ==
  /\ At(r, "query")
  /\ reader' = [reader EXCEPT ![r].pc = "fill", ![r].row = row]
  /\ UNCHANGED <<row, index, entry, filling, epoch, results, writer, seen>>

FillEntry(r) ==
  /\ At(r, "fill")
  /\ entry' = reader[r].row
  /\ filling' = [filling EXCEPT ![Process[r]] = NoReader]
  /\ seen' = [seen EXCEPT !.excused = @ \/ reader[r].row # row]
  /\ ReaderGoes(r, "epoch")
  /\ UNCHANGED <<row, index, epoch, results, writer>>

\* query_result_cache_key and cached_query_result: a hit ends the query.
Lookup(r) ==
  /\ At(r, "epoch")
  /\ IF results[epoch] = Nothing
       THEN reader' = [reader EXCEPT ![r].pc = "search", ![r].epoch = epoch]
       ELSE ReaderGoes(r, "idle")
  /\ UNCHANGED <<row, index, entry, filling, epoch, results, writer, seen>>

Search(r) ==
  /\ At(r, "search")
  /\ reader' = [reader EXCEPT ![r].pc = "store", ![r].index = index]
  /\ UNCHANGED <<row, index, entry, filling, epoch, results, writer, seen>>

(* Mutant of Store: the key is made again after the search.                  *)
StoreUnderNewEpoch(r) ==
  /\ At(r, "store")
  /\ results' = [results EXCEPT ![epoch] = reader[r].index]
  /\ ReaderGoes(r, "idle")
  /\ UNCHANGED <<row, index, entry, filling, epoch, writer, seen>>

\* store_query_result, under the key made before the search.
Store(r) ==
  /\ At(r, "store")
  /\ results' = [results EXCEPT ![reader[r].epoch] = reader[r].index]
  /\ ReaderGoes(r, "idle")
  /\ UNCHANGED <<row, index, entry, filling, epoch, writer, seen>>

---------------------------------------------------------------------------
(* Changes, and the invalidations that follow them.                          *)

BeginWrite(w, pc) ==
  /\ writer[w] = "idle"
  /\ seen.writes < MaxWrites
  /\ seen' = [seen EXCEPT !.writes = @ + 1]
  /\ WriterGoes(w, pc)
  /\ UNCHANGED <<entry, filling, epoch, results, reader>>

\* An update of the collection, or of the preset it embeds with, commits.
UpdateRow(w) == BeginWrite(w, "clear") /\ row' = row + 1 /\ UNCHANGED index

\* Vectors are written or deleted through the API, or with a document ...
WriteVectors(w) == BeginWrite(w, "bump") /\ index' = index + 1 /\ UNCHANGED row

\* ... or by the job of a document that is not ready yet.
Ingest(w) == BeginWrite(w, "change") /\ index' = index + 1 /\ UNCHANGED row

\* The job succeeds, or its vectors are deleted again: then no one invalidates
\* results that show them.
FinishJob(w, succeeds) ==
  /\ writer[w] = "change"
  /\ WriterGoes(w, IF succeeds THEN "bump" ELSE "idle")
  /\ index' = IF succeeds THEN index ELSE index + 1
  /\ UNCHANGED <<row, entry, filling, epoch, results, reader, seen>>

\* collection_cache.invalidate
Clear(w) ==
  /\ writer[w] = "clear"
  /\ entry' = Nothing
  /\ seen' = [seen EXCEPT !.excused = FALSE]
  /\ WriterGoes(w, "bump")
  /\ UNCHANGED <<row, index, filling, epoch, results, reader>>

\* invalidate_collection_query_cache
Bump(w) ==
  /\ writer[w] = "bump"
  /\ epoch' = epoch + 1
  /\ seen' = [seen EXCEPT !.settled = index]
  /\ WriterGoes(w, "idle")
  /\ UNCHANGED <<row, index, entry, filling, results, reader>>

---------------------------------------------------------------------------
(* Time, and processes that die before they invalidate.                      *)

ExpireEntry ==
  /\ entry # Nothing
  /\ entry' = Nothing
  /\ Expiring
  /\ UNCHANGED <<row, index, filling, epoch, results, reader, writer>>

ExpireResult(e) ==
  /\ results[e] # Nothing
  /\ results' = [results EXCEPT ![e] = Nothing]
  /\ Expiring
  /\ UNCHANGED <<row, index, entry, filling, epoch, reader, writer>>

\* The epoch lives for twice the TTL of results and at least an hour: the results
\* are gone by then, and so are the queries that could still store some.
ExpireEpoch ==
  /\ epoch # 0
  /\ \A e \in Epochs : results[e] = Nothing
  /\ \A r \in Readers : reader[r].pc \notin {"search", "store"}
  /\ epoch' = 0
  /\ Expiring
  /\ UNCHANGED <<row, index, entry, filling, results, reader, writer>>

Die(w) ==
  /\ writer[w] \in {"clear", "bump"}
  /\ seen.expiries < MaxExpiries
  /\ seen' = [seen EXCEPT !.expiries = @ + 1, !.excused = TRUE]
  /\ WriterGoes(w, "idle")
  /\ UNCHANGED <<row, index, entry, filling, epoch, results, reader>>

CachesNext ==
  \/ \E r \in Readers :
       Ask(r) \/ LookIn(r) \/ Lock(r) \/ QueryRow(r) \/ FillEntry(r) \/ Lookup(r) \/ Search(r) \/ Store(r)
  \/ \E w \in Writers :
       \/ UpdateRow(w) \/ WriteVectors(w) \/ Ingest(w)
       \/ \E succeeds \in BOOLEAN : FinishJob(w, succeeds)
       \/ Clear(w) \/ Bump(w) \/ Die(w)
  \/ ExpireEntry \/ (\E e \in Epochs : ExpireResult(e)) \/ ExpireEpoch

CachesSpec == CachesInit /\ [][CachesNext]_cachesVars

---------------------------------------------------------------------------
(* Properties.                                                               *)

\* What a query finds under the current epoch was searched after the last change
\* that has been invalidated: a search that began before stores under an old key.
HitsAreSettled == results[epoch] = Nothing \/ results[epoch] >= seen.settled

\* The cached row is the row, unless an update is about to clear it or died, or a
\* fill read it before the update committed and stored it after the clearing.
StaleEntryHasCause ==
  entry \notin {row, Nothing} => seen.excused \/ \E w \in Writers : writer[w] = "clear"

\* Queries are answered from settled results and the collection as it is.
CachesFresh == HitsAreSettled /\ StaleEntryHasCause
=============================================================================

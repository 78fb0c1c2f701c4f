------------------------------ MODULE OperationsProofs ------------------------------
(* Proofs about what the processes share: caches (Caches), settings (Settings), *)
(* the schema and readiness (Startup), encryption keys (Secrets), the        *)
(* configurations of sources (Sources) and the foreign keys (Database).      *)
EXTENDS Caches, Settings, Startup, Secrets, Sources, Database, FiniteSetTheorems, TLAPS

(* Proofs about Caches, for any readers, processes and finitely many writers. *)

Pcs == {"idle", "look", "lock", "query", "fill", "epoch", "search", "store"}
Stands == [pc : Pcs, row : Nat, epoch : Nat, index : Nat]
Marks == [reads : Nat, writes : Nat, expiries : Nat, settled : Nat, excused : BOOLEAN]

Busy == {w \in Writers : writer[w] # "idle"}

\* Every increment of the epoch belongs to a change: the epoch has a slot.
EpochsCounted == epoch + Cardinality(Busy) <= seen.writes /\ seen.writes <= MaxWrites

\* Nothing is stored under an epoch to come.
FutureEmpty == \A e \in Epochs : e > epoch => results[e] = Nothing

SettledBefore == seen.settled <= index

\* A search stores under the epoch it began with. If that is still the current
\* one, no change has been invalidated since.
Keyed(q) ==
  /\ q.pc \in {"search", "store"} => q.epoch <= epoch
  /\ q.pc = "store" /\ q.epoch = epoch => q.index >= seen.settled

SearchesKeyed == \A r \in Readers : Keyed(reader[r])

CachesInv ==
  CachesTypeOK /\ EpochsCounted /\ FutureEmpty /\ SettledBefore /\ SearchesKeyed /\ CachesFresh

---------------------------------------------------------------------------

LEMMA Types ==
  ASSUME CachesTypeOK
  PROVE  /\ row \in Nat /\ index \in Nat /\ epoch \in Nat
         /\ entry \in Nat \cup {Nothing}
         /\ filling \in [Processes -> Readers \cup {NoReader}]
         /\ results \in [Epochs -> Nat \cup {Nothing}]
         /\ reader \in [Readers -> Stands]
         /\ writer \in [Writers -> {"idle", "change", "clear", "bump"}]
         /\ seen \in Marks
BY DEF CachesTypeOK, Stands, Pcs, Marks

LEMMA BusyCount ==
  ASSUME CachesConstants PROVE IsFiniteSet(Busy) /\ Cardinality(Busy) \in Nat
BY FS_Subset, FS_CardinalityType DEF CachesConstants, Busy

LEMMA InitCaches == ASSUME CachesConstants, CachesInit PROVE CachesInv
<1>1. IdleReader \in Stands /\ IdleReader.pc = "idle"
  BY DEF IdleReader, Stands, Pcs
<1>2. CachesTypeOK
  BY <1>1 DEF CachesInit, CachesTypeOK, Marks, Stands, Pcs
<1>3. Busy = {} /\ Cardinality({}) = 0
  BY FS_EmptySet DEF CachesInit, Busy
<1>4. EpochsCounted
  BY <1>3 DEF CachesInit, CachesConstants, EpochsCounted
<1>5. SearchesKeyed
  BY <1>1 DEF CachesInit, SearchesKeyed, Keyed
<1>. QED
  BY <1>2, <1>4, <1>5
  DEF CachesInit, CachesInv, FutureEmpty, SettledBefore, CachesFresh, HitsAreSettled, StaleEntryHasCause,
      Epochs, CachesConstants

---------------------------------------------------------------------------
(* Readers.                                                                  *)

\* What holds after a reader has moved, when what it relies on has not.
LEMMA ReaderMoved ==
  ASSUME CachesConstants, CachesInv, NEW r \in Readers, NEW q \in Stands, Keyed(q),
         reader' = [reader EXCEPT ![r] = q],
         UNCHANGED <<row, index, epoch, writer>>,
         seen'.settled = seen.settled, seen'.writes = seen.writes
  PROVE  /\ reader' \in [Readers -> Stands]
         /\ EpochsCounted' /\ SettledBefore' /\ SearchesKeyed'
<1>1. reader \in [Readers -> Stands]
  BY Types DEF CachesInv
<1>2. Busy' = Busy
  BY DEF Busy
<1>3. ASSUME NEW p \in Readers PROVE Keyed(reader[p])'
  <2>1. reader'[p] = IF p = r THEN q ELSE reader[p]
    BY <1>1
  <2>2. Keyed(reader'[p])
    BY <2>1 DEF CachesInv, SearchesKeyed
  <2>. QED
    BY <2>2 DEF Keyed
<1>. QED
  BY <1>1, <1>2, <1>3 DEF CachesInv, EpochsCounted, SettledBefore, SearchesKeyed

LEMMA ReaderSent ==
  ASSUME CachesTypeOK, NEW r \in Readers, NEW pc \in Pcs \ {"search", "store"}, ReaderGoes(r, pc)
  PROVE  \E q \in Stands : Keyed(q) /\ reader' = [reader EXCEPT ![r] = q]
<1>1. reader \in [Readers -> Stands] /\ reader[r] \in Stands
  BY Types
<1>. DEFINE q == IF pc = "idle" THEN IdleReader ELSE [reader[r] EXCEPT !.pc = pc]
<1>2. IdleReader \in Stands /\ IdleReader.pc = "idle"
  BY DEF IdleReader, Stands, Pcs
<1>3. q \in Stands /\ q.pc = pc
  BY <1>1, <1>2 DEF Stands
<1>4. reader' = [reader EXCEPT ![r] = q]
  BY DEF ReaderGoes
<1>. HIDE DEF q
<1>. QED
  BY <1>3, <1>4 DEF Keyed

\* The caches are what they were.
LEMMA CachesKept ==
  ASSUME CachesInv, UNCHANGED <<row, entry, epoch, results, writer>>,
         seen'.settled = seen.settled, seen'.excused = seen.excused
  PROVE  FutureEmpty' /\ CachesFresh'
BY DEF CachesInv, FutureEmpty, CachesFresh, HitsAreSettled, StaleEntryHasCause, Epochs

LEMMA ReaderStep ==
  ASSUME CachesConstants, CachesInv, NEW r \in Readers,
         Ask(r) \/ LookIn(r) \/ Lock(r) \/ QueryRow(r) \/ FillEntry(r) \/ Lookup(r) \/ Search(r) \/ Store(r)
  PROVE  CachesInv'
<1>1. /\ CachesTypeOK /\ row \in Nat /\ index \in Nat /\ epoch \in Nat
      /\ entry \in Nat \cup {Nothing}
      /\ filling \in [Processes -> Readers \cup {NoReader}]
      /\ results \in [Epochs -> Nat \cup {Nothing}]
      /\ reader \in [Readers -> Stands] /\ reader[r] \in Stands
      /\ writer \in [Writers -> {"idle", "change", "clear", "bump"}]
      /\ seen \in Marks /\ Process[r] \in Processes
  BY Types DEF CachesInv, Processes
<1>2. CASE Ask(r)
  <2>1. ReaderGoes(r, "look") /\ seen' = [seen EXCEPT !.reads = @ + 1]
        /\ UNCHANGED <<row, index, entry, filling, epoch, results, writer>>
    BY <1>2 DEF Ask
  <2>2. seen' \in Marks /\ seen'.settled = seen.settled /\ seen'.writes = seen.writes
        /\ seen'.excused = seen.excused
    BY <1>1, <2>1 DEF Marks
  <2>3. "look" \in Pcs \ {"search", "store"}
    BY DEF Pcs
  <2>4. reader' \in [Readers -> Stands] /\ EpochsCounted' /\ SettledBefore' /\ SearchesKeyed'
    BY <1>1, <2>1, <2>2, <2>3, ReaderSent, ReaderMoved
  <2>5. CachesTypeOK'
    BY <1>1, <2>1, <2>2, <2>4 DEF CachesTypeOK, Stands, Pcs, Marks
  <2>. QED
    BY <1>1, <2>1, <2>2, <2>4, <2>5, CachesKept DEF CachesInv
<1>3. CASE LookIn(r)
  <2>1. UNCHANGED <<row, index, entry, epoch, results, writer, seen>>
    BY <1>3 DEF LookIn
  <2>2. filling' \in [Processes -> Readers \cup {NoReader}]
    BY <1>1, <1>3 DEF LookIn
  <2>3. \E q \in Stands : Keyed(q) /\ reader' = [reader EXCEPT ![r] = q]
    <3>1. CASE entry # Nothing
      <4>. DEFINE q == [reader[r] EXCEPT !.pc = "epoch", !.row = entry]
      <4>1. q \in Stands /\ q.pc = "epoch"
        BY <1>1, <3>1 DEF Stands, Pcs
      <4>2. reader' = [reader EXCEPT ![r] = q]
        BY <1>1, <1>3, <3>1 DEF LookIn
      <4>. HIDE DEF q
      <4>. QED
        BY <4>1, <4>2 DEF Keyed
    <3>2. CASE entry = Nothing
      <4>. DEFINE pc == IF At(r, "look") THEN "lock" ELSE "query"
      <4>1. pc \in Pcs \ {"search", "store"} /\ ReaderGoes(r, pc)
        BY <1>3, <3>2 DEF LookIn, Pcs
      <4>. HIDE DEF pc
      <4>. QED
        BY <1>1, <4>1, ReaderSent
    <3>. QED
      BY <3>1, <3>2
  <2>4. reader' \in [Readers -> Stands] /\ EpochsCounted' /\ SettledBefore' /\ SearchesKeyed'
    BY <2>1, <2>3, ReaderMoved
  <2>5. CachesTypeOK'
    BY <1>1, <2>1, <2>2, <2>4 DEF CachesTypeOK, Stands, Pcs, Marks
  <2>. QED
    BY <1>1, <2>1, <2>2, <2>4, <2>5, CachesKept DEF CachesInv
<1>4. CASE Lock(r)
  <2>1. UNCHANGED <<row, index, entry, epoch, results, reader, writer, seen>>
    BY <1>4 DEF Lock
  <2>2. filling' \in [Processes -> Readers \cup {NoReader}]
    BY <1>1, <1>4 DEF Lock
  <2>3. EpochsCounted' /\ SettledBefore' /\ SearchesKeyed'
    BY <2>1 DEF CachesInv, EpochsCounted, Busy, SettledBefore, SearchesKeyed, Keyed
  <2>4. CachesTypeOK'
    BY <1>1, <2>1, <2>2, <2>3 DEF CachesTypeOK, Stands, Pcs, Marks
  <2>. QED
    BY <1>1, <2>1, <2>2, <2>3, <2>4, CachesKept DEF CachesInv
<1>5. CASE QueryRow(r)
  <2>. DEFINE q == [reader[r] EXCEPT !.pc = "fill", !.row = row]
  <2>1. q \in Stands /\ q.pc = "fill"
    BY <1>1 DEF Stands, Pcs
  <2>2. reader' = [reader EXCEPT ![r] = q]
        /\ UNCHANGED <<row, index, entry, filling, epoch, results, writer, seen>>
    BY <1>1, <1>5 DEF QueryRow
  <2>. HIDE DEF q
  <2>3. reader' \in [Readers -> Stands] /\ EpochsCounted' /\ SettledBefore' /\ SearchesKeyed'
    BY <2>1, <2>2, ReaderMoved DEF Keyed
  <2>4. CachesTypeOK'
    BY <1>1, <2>2, <2>3 DEF CachesTypeOK, Stands, Pcs, Marks
  <2>. QED
    BY <1>1, <2>2, <2>3, <2>4, CachesKept DEF CachesInv
<1>6. CASE FillEntry(r)
  <2>1. /\ entry' = reader[r].row /\ filling' = [filling EXCEPT ![Process[r]] = NoReader]
        /\ ReaderGoes(r, "epoch") /\ UNCHANGED <<row, index, epoch, results, writer>>
    BY <1>6 DEF FillEntry
  <2>2. entry' \in Nat \cup {Nothing} /\ filling' \in [Processes -> Readers \cup {NoReader}]
    BY <1>1, <2>1 DEF Stands
  <2>. DEFINE excused == seen.excused \/ reader[r].row # row
  <2>3. seen' = [seen EXCEPT !.excused = excused] /\ excused \in BOOLEAN
    BY <1>1, <1>6 DEF FillEntry, Marks
  <2>4. entry' # row => excused
    BY <2>1
  <2>. HIDE DEF excused
  <2>5. seen' \in Marks /\ seen'.settled = seen.settled /\ seen'.writes = seen.writes
        /\ seen'.excused = excused
    BY <1>1, <2>3 DEF Marks
  <2>6. "epoch" \in Pcs \ {"search", "store"}
    BY DEF Pcs
  <2>7. reader' \in [Readers -> Stands] /\ EpochsCounted' /\ SettledBefore' /\ SearchesKeyed'
    BY <1>1, <2>1, <2>5, <2>6, ReaderSent, ReaderMoved
  <2>8. FutureEmpty' /\ HitsAreSettled'
    BY <2>1, <2>5 DEF CachesInv, FutureEmpty, CachesFresh, HitsAreSettled, Epochs
  <2>9. StaleEntryHasCause'
    BY <2>1, <2>4, <2>5 DEF StaleEntryHasCause
  <2>10. CachesTypeOK'
    BY <1>1, <2>1, <2>2, <2>5, <2>7, <2>8, <2>9 DEF CachesTypeOK, Stands, Pcs, Marks
  <2>. QED
    BY <1>1, <2>1, <2>2, <2>5, <2>7, <2>8, <2>9, <2>10 DEF CachesInv, CachesFresh
<1>7. CASE Lookup(r)
  <2>1. UNCHANGED <<row, index, entry, filling, epoch, results, writer, seen>>
    BY <1>7 DEF Lookup
  <2>2. \E q \in Stands : Keyed(q) /\ reader' = [reader EXCEPT ![r] = q]
    <3>1. CASE results[epoch] = Nothing
      <4>. DEFINE q == [reader[r] EXCEPT !.pc = "search", !.epoch = epoch]
      <4>1. q \in Stands /\ q.pc = "search" /\ q.epoch = epoch
        BY <1>1 DEF Stands, Pcs
      <4>2. reader' = [reader EXCEPT ![r] = q]
        BY <1>1, <1>7, <3>1 DEF Lookup
      <4>. HIDE DEF q
      <4>3. Keyed(q)
        BY <1>1, <4>1 DEF Keyed
      <4>. QED
        BY <4>1, <4>2, <4>3
    <3>2. CASE results[epoch] # Nothing
      <4>1. "idle" \in Pcs \ {"search", "store"} /\ ReaderGoes(r, "idle")
        BY <1>7, <3>2 DEF Lookup, Pcs
      <4>. QED
        BY <1>1, <4>1, ReaderSent
    <3>. QED
      BY <3>1, <3>2
  <2>3. reader' \in [Readers -> Stands] /\ EpochsCounted' /\ SettledBefore' /\ SearchesKeyed'
    BY <2>1, <2>2, ReaderMoved
  <2>4. CachesTypeOK'
    BY <1>1, <2>1, <2>3 DEF CachesTypeOK, Stands, Pcs, Marks
  <2>. QED
    BY <1>1, <2>1, <2>3, <2>4, CachesKept DEF CachesInv
<1>8. CASE Search(r)
  <2>. DEFINE q == [reader[r] EXCEPT !.pc = "store", !.index = index]
  <2>1. q \in Stands /\ q.pc = "store" /\ q.index = index /\ q.epoch = reader[r].epoch
    BY <1>1 DEF Stands, Pcs
  <2>2. reader' = [reader EXCEPT ![r] = q] /\ reader[r].pc = "search"
        /\ UNCHANGED <<row, index, entry, filling, epoch, results, writer, seen>>
    BY <1>1, <1>8 DEF Search, At
  <2>. HIDE DEF q
  <2>3. index >= seen.settled /\ reader[r].epoch <= epoch
    BY <1>1, <2>2 DEF CachesInv, SettledBefore, SearchesKeyed, Keyed, Marks
  <2>4. Keyed(q)
    BY <2>1, <2>3 DEF Keyed
  <2>5. reader' \in [Readers -> Stands] /\ EpochsCounted' /\ SettledBefore' /\ SearchesKeyed'
    BY <2>1, <2>2, <2>4, ReaderMoved
  <2>6. CachesTypeOK'
    BY <1>1, <2>2, <2>5 DEF CachesTypeOK, Stands, Pcs, Marks
  <2>. QED
    BY <1>1, <2>2, <2>5, <2>6, CachesKept DEF CachesInv
<1>9. CASE Store(r)
  <2>1. /\ results' = [results EXCEPT ![reader[r].epoch] = reader[r].index]
        /\ ReaderGoes(r, "idle") /\ reader[r].pc = "store"
        /\ UNCHANGED <<row, index, entry, filling, epoch, writer, seen>>
    BY <1>9 DEF Store, At
  <2>2. reader[r].epoch <= epoch /\ (reader[r].epoch = epoch => reader[r].index >= seen.settled)
        /\ reader[r].epoch \in Nat /\ reader[r].index \in Nat
    BY <1>1, <2>1 DEF CachesInv, SearchesKeyed, Keyed, Stands
  <2>3. results' \in [Epochs -> Nat \cup {Nothing}]
    BY <1>1, <2>1, <2>2
  <2>4. "idle" \in Pcs \ {"search", "store"}
    BY DEF Pcs
  <2>5. reader' \in [Readers -> Stands] /\ EpochsCounted' /\ SettledBefore' /\ SearchesKeyed'
    BY <1>1, <2>1, <2>4, ReaderSent, ReaderMoved
  <2>6. epoch \in Epochs
    <3>1. Cardinality(Busy) \in Nat
      BY BusyCount
    <3>. QED
      BY <1>1, <3>1 DEF CachesInv, EpochsCounted, Epochs, CachesConstants, Marks
  <2>7. HitsAreSettled'
    <3>1. CASE reader[r].epoch = epoch
      BY <1>1, <2>1, <2>2, <2>6, <3>1 DEF HitsAreSettled
    <3>2. CASE reader[r].epoch # epoch
      BY <1>1, <2>1, <2>6, <3>2 DEF HitsAreSettled, CachesInv, CachesFresh
    <3>. QED
      BY <3>1, <3>2
  <2>8. FutureEmpty'
    <3>. SUFFICES ASSUME NEW e \in Epochs, e > epoch PROVE results'[e] = Nothing
      BY <2>1 DEF FutureEmpty, Epochs
    <3>1. e \in Nat
      BY DEF Epochs, CachesConstants
    <3>2. e # reader[r].epoch
      BY <1>1, <2>2, <3>1
    <3>. QED
      BY <1>1, <2>1, <3>2 DEF CachesInv, FutureEmpty
  <2>9. StaleEntryHasCause'
    BY <2>1 DEF StaleEntryHasCause, CachesInv, CachesFresh
  <2>10. CachesTypeOK'
    BY <1>1, <2>1, <2>3, <2>5, <2>7, <2>8, <2>9 DEF CachesTypeOK, Stands, Pcs, Marks
  <2>. QED
    BY <1>1, <2>1, <2>3, <2>5, <2>7, <2>8, <2>9, <2>10 DEF CachesInv, CachesFresh
<1>. QED
  BY <1>2, <1>3, <1>4, <1>5, <1>6, <1>7, <1>8, <1>9

---------------------------------------------------------------------------
(* Writers.                                                                  *)

\* A change begins: one more writer is busy, and one more write is counted.
LEMMA WriterBegins ==
  ASSUME CachesConstants, CachesInv, NEW w \in Writers, NEW pc \in {"change", "clear", "bump"},
         BeginWrite(w, pc)
  PROVE  /\ writer' \in [Writers -> {"idle", "change", "clear", "bump"}] /\ writer'[w] = pc
         /\ \A v \in Writers \ {w} : writer'[v] = writer[v]
         /\ seen' \in Marks /\ seen'.settled = seen.settled /\ seen'.excused = seen.excused
         /\ EpochsCounted'
         /\ UNCHANGED <<entry, filling, epoch, results, reader>>
<1>1. /\ epoch \in Nat /\ seen \in Marks /\ seen.writes < MaxWrites /\ seen.writes \in Nat
      /\ writer \in [Writers -> {"idle", "change", "clear", "bump"}] /\ writer[w] = "idle"
      /\ writer' = [writer EXCEPT ![w] = pc] /\ seen' = [seen EXCEPT !.writes = seen.writes + 1]
      /\ UNCHANGED <<entry, filling, epoch, results, reader>>
  BY Types DEF CachesInv, BeginWrite, WriterGoes, Marks
<1>2. seen' \in Marks /\ seen'.settled = seen.settled /\ seen'.excused = seen.excused
      /\ seen'.writes = seen.writes + 1
  BY <1>1 DEF Marks
<1>3. Busy' = Busy \cup {w} /\ w \notin Busy
  BY <1>1 DEF Busy
<1>4. Cardinality(Busy') = Cardinality(Busy) + 1 /\ Cardinality(Busy) \in Nat
  BY <1>3, BusyCount, FS_AddElement
<1>5. EpochsCounted'
  BY <1>1, <1>2, <1>4 DEF CachesInv, EpochsCounted, CachesConstants
<1>. QED
  BY <1>1, <1>2, <1>5

\* A writer goes on.
LEMMA WriterMoves ==
  ASSUME CachesConstants, CachesInv, NEW w \in Writers, NEW pc \in {"clear", "bump"},
         writer[w] # "idle", WriterGoes(w, pc)
  PROVE  /\ writer' \in [Writers -> {"idle", "change", "clear", "bump"}]
         /\ Busy' = Busy
BY Types DEF CachesInv, WriterGoes, Busy

\* A writer is done, or has died.
LEMMA WriterEnds ==
  ASSUME CachesConstants, CachesInv, NEW w \in Writers,
         writer[w] # "idle", WriterGoes(w, "idle")
  PROVE  /\ writer' \in [Writers -> {"idle", "change", "clear", "bump"}]
         /\ Cardinality(Busy') = Cardinality(Busy) - 1
         /\ \A v \in Writers \ {w} : writer'[v] = writer[v]
<1>1. /\ writer \in [Writers -> {"idle", "change", "clear", "bump"}]
      /\ writer' = [writer EXCEPT ![w] = "idle"]
  BY Types DEF CachesInv, WriterGoes
<1>2. Busy' = Busy \ {w} /\ w \in Busy
  BY <1>1 DEF Busy
<1>. QED
  BY <1>1, <1>2, BusyCount, FS_RemoveElement

LEMMA WriterStep ==
  ASSUME CachesConstants, CachesInv, NEW w \in Writers,
         \/ UpdateRow(w) \/ WriteVectors(w) \/ Ingest(w)
         \/ \E succeeds \in BOOLEAN : FinishJob(w, succeeds)
         \/ Clear(w) \/ Bump(w) \/ Die(w)
  PROVE  CachesInv'
<1>1. /\ CachesTypeOK /\ row \in Nat /\ index \in Nat /\ epoch \in Nat
      /\ entry \in Nat \cup {Nothing}
      /\ filling \in [Processes -> Readers \cup {NoReader}]
      /\ results \in [Epochs -> Nat \cup {Nothing}]
      /\ reader \in [Readers -> Stands]
      /\ writer \in [Writers -> {"idle", "change", "clear", "bump"}]
      /\ seen \in Marks /\ seen.settled \in Nat /\ seen.writes \in Nat
      /\ Cardinality(Busy) \in Nat /\ seen.settled <= index
      /\ \A r \in Readers : Keyed(reader[r])
  BY Types, BusyCount DEF CachesInv, Marks, SettledBefore, SearchesKeyed
<1>2. ASSUME UNCHANGED <<epoch, reader>>, seen'.settled = seen.settled PROVE SearchesKeyed'
  BY <1>1, <1>2 DEF SearchesKeyed, Keyed
<1>3. ASSUME UNCHANGED <<epoch, results>>, seen'.settled = seen.settled
      PROVE  FutureEmpty' /\ HitsAreSettled'
  BY <1>3 DEF CachesInv, CachesFresh, FutureEmpty, HitsAreSettled, Epochs
<1>4. CASE UpdateRow(w)
  <2>1. BeginWrite(w, "clear") /\ row' = row + 1 /\ UNCHANGED index
    BY <1>4 DEF UpdateRow
  <2>2. /\ writer' \in [Writers -> {"idle", "change", "clear", "bump"}] /\ writer'[w] = "clear"
        /\ seen' \in Marks /\ seen'.settled = seen.settled
        /\ EpochsCounted' /\ UNCHANGED <<entry, filling, epoch, results, reader>>
    BY <2>1, WriterBegins
  <2>3. CachesTypeOK'
    BY <1>1, <2>1, <2>2 DEF CachesTypeOK, Stands, Pcs, Marks
  <2>4. StaleEntryHasCause' /\ SettledBefore'
    BY <1>1, <2>1, <2>2 DEF StaleEntryHasCause, SettledBefore
  <2>. QED
    BY <1>2, <1>3, <2>2, <2>3, <2>4 DEF CachesInv, CachesFresh
<1>5. CASE WriteVectors(w) \/ Ingest(w)
  <2>1. PICK pc \in {"change", "bump"} : BeginWrite(w, pc) /\ index' = index + 1 /\ UNCHANGED row
    BY <1>5 DEF WriteVectors, Ingest
  <2>2. /\ writer' \in [Writers -> {"idle", "change", "clear", "bump"}]
        /\ \A v \in Writers \ {w} : writer'[v] = writer[v]
        /\ seen' \in Marks /\ seen'.settled = seen.settled /\ seen'.excused = seen.excused
        /\ EpochsCounted' /\ UNCHANGED <<entry, filling, epoch, results, reader>>
    BY <2>1, WriterBegins
  <2>3. CachesTypeOK'
    BY <1>1, <2>1, <2>2 DEF CachesTypeOK, Stands, Pcs, Marks
  <2>4. writer[w] # "clear"
    BY <2>1 DEF BeginWrite
  <2>5. StaleEntryHasCause' /\ SettledBefore'
    BY <1>1, <2>1, <2>2, <2>4 DEF StaleEntryHasCause, SettledBefore, CachesInv, CachesFresh
  <2>. QED
    BY <1>2, <1>3, <2>2, <2>3, <2>5 DEF CachesInv, CachesFresh
<1>6. ASSUME NEW succeeds \in BOOLEAN, FinishJob(w, succeeds) PROVE CachesInv'
  <2>1. /\ writer[w] = "change" /\ index' = (IF succeeds THEN index ELSE index + 1)
        /\ WriterGoes(w, IF succeeds THEN "bump" ELSE "idle")
        /\ UNCHANGED <<row, entry, filling, epoch, results, reader, seen>>
    BY <1>6 DEF FinishJob
  <2>2. index' \in Nat /\ index' >= index
    BY <1>1, <2>1
  <2>3. /\ writer' \in [Writers -> {"idle", "change", "clear", "bump"}]
        /\ Cardinality(Busy') \in {Cardinality(Busy), Cardinality(Busy) - 1}
    BY <2>1, WriterMoves, WriterEnds
  <2>4. \A v \in Writers : writer[v] = "clear" => writer'[v] = "clear"
    BY <1>1, <2>1 DEF WriterGoes
  <2>5. CachesTypeOK'
    BY <1>1, <2>1, <2>2, <2>3 DEF CachesTypeOK, Stands, Pcs, Marks
  <2>6. EpochsCounted'
    BY <1>1, <2>1, <2>3 DEF CachesInv, EpochsCounted
  <2>7. StaleEntryHasCause' /\ SettledBefore'
    BY <1>1, <2>1, <2>2, <2>4 DEF StaleEntryHasCause, SettledBefore, CachesInv, CachesFresh
  <2>. QED
    BY <1>2, <1>3, <2>1, <2>5, <2>6, <2>7 DEF CachesInv, CachesFresh
<1>7. CASE Clear(w)
  <2>1. /\ writer[w] = "clear" /\ entry' = Nothing /\ seen' = [seen EXCEPT !.excused = FALSE]
        /\ WriterGoes(w, "bump") /\ UNCHANGED <<row, index, filling, epoch, results, reader>>
    BY <1>7 DEF Clear
  <2>2. seen' \in Marks /\ seen'.settled = seen.settled /\ seen'.writes = seen.writes
    BY <1>1, <2>1 DEF Marks
  <2>3. writer' \in [Writers -> {"idle", "change", "clear", "bump"}] /\ Busy' = Busy
    BY <2>1, WriterMoves
  <2>4. CachesTypeOK'
    BY <1>1, <2>1, <2>2, <2>3 DEF CachesTypeOK, Stands, Pcs, Marks
  <2>5. EpochsCounted' /\ StaleEntryHasCause' /\ SettledBefore'
    BY <1>1, <2>1, <2>2, <2>3 DEF CachesInv, EpochsCounted, StaleEntryHasCause, SettledBefore
  <2>. QED
    BY <1>2, <1>3, <2>1, <2>2, <2>4, <2>5 DEF CachesInv, CachesFresh
<1>8. CASE Bump(w)
  <2>1. /\ writer[w] = "bump" /\ epoch' = epoch + 1 /\ seen' = [seen EXCEPT !.settled = index]
        /\ WriterGoes(w, "idle") /\ UNCHANGED <<row, index, entry, filling, results, reader>>
    BY <1>8 DEF Bump
  <2>2. seen' \in Marks /\ seen'.settled = index /\ seen'.writes = seen.writes
        /\ seen'.excused = seen.excused
    BY <1>1, <2>1 DEF Marks
  <2>3. /\ writer' \in [Writers -> {"idle", "change", "clear", "bump"}]
        /\ Cardinality(Busy') = Cardinality(Busy) - 1
        /\ \A v \in Writers \ {w} : writer'[v] = writer[v]
    BY <2>1, WriterEnds
  <2>4. CachesTypeOK'
    BY <1>1, <2>1, <2>2, <2>3 DEF CachesTypeOK, Stands, Pcs, Marks
  <2>5. EpochsCounted' /\ SettledBefore'
    BY <1>1, <2>1, <2>2, <2>3 DEF CachesInv, EpochsCounted, SettledBefore
  <2>6. epoch' \in Epochs
    <3>1. w \in Busy /\ Cardinality(Busy) >= 1
      <4>1. w \in Busy
        BY <2>1 DEF Busy
      <4>2. Cardinality(Busy) # 0
        BY <4>1, BusyCount, FS_EmptySet
      <4>. QED
        BY <1>1, <4>1, <4>2
    <3>. QED
      BY <1>1, <2>1, <3>1 DEF CachesInv, EpochsCounted, Epochs, CachesConstants
  <2>7. FutureEmpty' /\ HitsAreSettled'
    <3>1. \A e \in Epochs : e > epoch => results[e] = Nothing
      BY DEF CachesInv, FutureEmpty
    <3>2. results'[epoch'] = Nothing
      BY <1>1, <2>1, <2>6, <3>1
    <3>3. ASSUME NEW e \in Epochs, e > epoch' PROVE results'[e] = Nothing
      <4>1. e \in Nat
        BY DEF Epochs, CachesConstants
      <4>. QED
        BY <1>1, <2>1, <3>1, <3>3, <4>1
    <3>. QED
      BY <3>2, <3>3 DEF FutureEmpty, HitsAreSettled, Epochs
  <2>8. SearchesKeyed'
    <3>. SUFFICES ASSUME NEW r \in Readers PROVE Keyed(reader[r])'
      BY DEF SearchesKeyed
    <3>1. Keyed(reader[r]) /\ reader[r].epoch \in Nat
      BY <1>1 DEF Stands
    <3>. QED
      BY <1>1, <2>1, <3>1 DEF Keyed
  <2>9. StaleEntryHasCause'
    BY <2>1, <2>2, <2>3 DEF StaleEntryHasCause, CachesInv, CachesFresh
  <2>. QED
    BY <2>4, <2>5, <2>7, <2>8, <2>9 DEF CachesInv, CachesFresh
<1>9. CASE Die(w)
  <2>1. /\ writer[w] # "idle"
        /\ seen' = [seen EXCEPT !.expiries = seen.expiries + 1, !.excused = TRUE]
        /\ WriterGoes(w, "idle") /\ UNCHANGED <<row, index, entry, filling, epoch, results, reader>>
    BY <1>9 DEF Die
  <2>2. seen' \in Marks /\ seen'.settled = seen.settled /\ seen'.writes = seen.writes
        /\ seen'.excused = TRUE
    <3>1. seen.expiries + 1 \in Nat
      BY <1>1 DEF Marks
    <3>. QED
      BY <1>1, <2>1, <3>1 DEF Marks
  <2>3. /\ writer' \in [Writers -> {"idle", "change", "clear", "bump"}]
        /\ Cardinality(Busy') = Cardinality(Busy) - 1
    BY <2>1, WriterEnds
  <2>4. CachesTypeOK'
    BY <1>1, <2>1, <2>2, <2>3 DEF CachesTypeOK, Stands, Pcs, Marks
  <2>5. EpochsCounted' /\ StaleEntryHasCause' /\ SettledBefore'
    BY <1>1, <2>1, <2>2, <2>3 DEF CachesInv, EpochsCounted, StaleEntryHasCause, SettledBefore
  <2>. QED
    BY <1>2, <1>3, <2>1, <2>2, <2>4, <2>5 DEF CachesInv, CachesFresh
<1>. QED
  BY <1>4, <1>5, <1>6, <1>7, <1>8, <1>9

---------------------------------------------------------------------------
(* Time.                                                                     *)

LEMMA TimeStep ==
  ASSUME CachesConstants, CachesInv,
         ExpireEntry \/ (\E e \in Epochs : ExpireResult(e)) \/ ExpireEpoch
  PROVE  CachesInv'
<1>1. /\ CachesTypeOK /\ row \in Nat /\ index \in Nat /\ epoch \in Nat
      /\ results \in [Epochs -> Nat \cup {Nothing}] /\ reader \in [Readers -> Stands]
      /\ seen \in Marks /\ seen.settled \in Nat /\ seen.writes \in Nat
      /\ Cardinality(Busy) \in Nat
      /\ epoch + Cardinality(Busy) <= seen.writes /\ seen.writes <= MaxWrites
  BY Types, BusyCount DEF CachesInv, Marks, EpochsCounted
<1>2. /\ seen' \in Marks /\ seen'.settled = seen.settled /\ seen'.writes = seen.writes
      /\ seen'.excused = seen.excused
      /\ UNCHANGED <<row, index, filling, reader, writer>>
  <2>1. /\ seen' = [seen EXCEPT !.expiries = seen.expiries + 1]
        /\ UNCHANGED <<row, index, filling, reader, writer>>
    BY DEF ExpireEntry, ExpireResult, ExpireEpoch, Expiring
  <2>. QED
    BY <1>1, <2>1 DEF Marks
<1>3. Busy' = Busy /\ SettledBefore'
  BY <1>2 DEF Busy, CachesInv, SettledBefore
<1>4. CASE ExpireEntry
  <2>1. entry' = Nothing /\ UNCHANGED <<epoch, results>>
    BY <1>4 DEF ExpireEntry
  <2>2. CachesTypeOK'
    BY <1>1, <1>2, <2>1 DEF CachesTypeOK, Stands, Pcs, Marks
  <2>3. EpochsCounted' /\ FutureEmpty' /\ CachesFresh'
    BY <1>1, <1>2, <1>3, <2>1
    DEF CachesInv, EpochsCounted, FutureEmpty, CachesFresh, HitsAreSettled, StaleEntryHasCause, Epochs
  <2>4. SearchesKeyed'
    BY <1>2, <2>1 DEF CachesInv, SearchesKeyed, Keyed
  <2>. QED
    BY <1>3, <2>2, <2>3, <2>4 DEF CachesInv
<1>5. ASSUME NEW e \in Epochs, ExpireResult(e) PROVE CachesInv'
  <2>1. results' = [results EXCEPT ![e] = Nothing] /\ UNCHANGED <<epoch, entry>>
    BY <1>5 DEF ExpireResult
  <2>2. results' \in [Epochs -> Nat \cup {Nothing}]
        /\ \A f \in Epochs : results'[f] = results[f] \/ results'[f] = Nothing
    BY <1>1, <2>1
  <2>3. CachesTypeOK'
    BY <1>1, <1>2, <2>1, <2>2 DEF CachesTypeOK, Stands, Pcs, Marks
  <2>4. epoch \in Epochs
    BY <1>1 DEF Epochs, CachesConstants
  <2>5. EpochsCounted' /\ FutureEmpty' /\ HitsAreSettled'
    BY <1>1, <1>2, <1>3, <2>1, <2>2, <2>4
    DEF CachesInv, EpochsCounted, FutureEmpty, CachesFresh, HitsAreSettled, Epochs
  <2>6. SearchesKeyed' /\ StaleEntryHasCause'
    BY <1>2, <2>1 DEF CachesInv, SearchesKeyed, Keyed, CachesFresh, StaleEntryHasCause
  <2>. QED
    BY <1>3, <2>3, <2>5, <2>6 DEF CachesInv, CachesFresh
<1>6. CASE ExpireEpoch
  <2>1. /\ epoch' = 0 /\ \A e \in Epochs : results[e] = Nothing
        /\ \A r \in Readers : reader[r].pc \notin {"search", "store"}
        /\ UNCHANGED <<entry, results>>
    BY <1>6 DEF ExpireEpoch
  <2>2. CachesTypeOK'
    BY <1>1, <1>2, <2>1 DEF CachesTypeOK, Stands, Pcs, Marks
  <2>3. 0 \in Epochs
    BY DEF Epochs, CachesConstants
  <2>4. EpochsCounted' /\ FutureEmpty' /\ HitsAreSettled'
    BY <1>1, <1>2, <1>3, <2>1, <2>3 DEF EpochsCounted, FutureEmpty, HitsAreSettled, Epochs
  <2>5. SearchesKeyed' /\ StaleEntryHasCause'
    BY <1>2, <2>1 DEF CachesInv, SearchesKeyed, Keyed, CachesFresh, StaleEntryHasCause
  <2>. QED
    BY <1>3, <2>2, <2>4, <2>5 DEF CachesInv, CachesFresh
<1>. QED
  BY <1>4, <1>5, <1>6

LEMMA CachesStep == ASSUME CachesConstants, CachesInv, [CachesNext]_cachesVars PROVE CachesInv'
<1>1. CASE UNCHANGED cachesVars
  <2>1. UNCHANGED <<row, index, entry, filling, epoch, results, reader, writer, seen>>
    BY <1>1 DEF cachesVars
  <2>2. CachesTypeOK' /\ EpochsCounted' /\ FutureEmpty' /\ SettledBefore' /\ CachesFresh'
    BY <2>1
    DEF CachesInv, CachesTypeOK, EpochsCounted, Busy, FutureEmpty, SettledBefore, CachesFresh,
        HitsAreSettled, StaleEntryHasCause, Epochs
  <2>3. SearchesKeyed'
    BY <2>1 DEF CachesInv, SearchesKeyed, Keyed
  <2>. QED
    BY <2>2, <2>3 DEF CachesInv
<1>. QED
  BY <1>1, ReaderStep, WriterStep, TimeStep DEF CachesNext

(* Queries are not answered from what has been invalidated. Results found     *)
(* under the current epoch were searched after the last change that has been  *)
(* invalidated, however slow the search that stores them, for they are stored *)
(* under the epoch it began with; and the cached row is the row, but for an   *)
(* update about to clear it, a process that died first, or a fill that had    *)
(* read before the update.                                                    *)
THEOREM CachesAreFresh ==
  CachesSpec => []CachesFresh
<1>. USE CachesAssumption
<1>1. CachesInit => CachesInv
  BY InitCaches
<1>2. CachesInv /\ [CachesNext]_cachesVars => CachesInv'
  BY CachesStep
<1>3. CachesInv => CachesFresh
  BY DEF CachesInv
<1>. QED
  BY <1>1, <1>2, <1>3, PTL DEF CachesSpec

------------------------------------------------------------------------------
(* Settings, for any values, edits, calls and restarts.                      *)

\* The backends in use are open and apart, and a call has that of its process.
BackendsApart ==
  /\ \A p \in Servers : store[p].backend \in 1..setPast.made \ setPast.closed
  /\ store["api"].backend # store["worker"].backend
  /\ setPast.closed \subseteq 1..setPast.made
  /\ \A c \in Calls : call[c] \in {0, store["api"].backend}

\* What an edit under way will leave, when no other was under way with it.
EditLeads(r) ==
  LET q == edit[r]  v == q.values["vector"]  now == Effective("api", "vector") IN
  /\ q.pc \in {"prepared", "committed"} /\ "vector" \notin q.keys =>
       store["api"].value = now /\ v = now
  /\ q.pc = "prepared" /\ "vector" \in q.keys =>
       store["api"].value = now /\ v = (IF q.to = NoSetting THEN object["vector"] ELSE q.to)
  /\ q.pc = "committed" /\ "vector" \in q.keys =>
       (setRow["vector"] # NoSetting => setRow["vector"] = v)
  /\ q.pc = "swap" => v = now

EditsInTurn ==
  ~setPast.overlapped =>
    /\ \A q, r \in PendingEdits : q = r
    /\ \A r \in PendingEdits : EditLeads(r)
    /\ PendingEdits = {} => store["api"].value = Effective("api", "vector")

SettingsInv == SettingsTypeOK /\ BackendsApart /\ EditsInTurn

LEMMA SettingsTypeStep ==
  ASSUME SettingsTypeOK, [SettingsNext]_settingsVars
  PROVE  SettingsTypeOK'
<1>. DEFINE EditRecords ==
              [pc : {"ready", "prepared", "committed", "swap", "done"}, keys : SUBSET Settable,
               to : Values \cup {NoSetting}, values : Choices]
            Stores == [backend : Nat, value : Values, swapping : BOOLEAN]
            SettingsPasts == [made : Nat, closed : SUBSET Nat, restarts : Nat, overlapped : BOOLEAN,
                      reset : SUBSET Settable]
<1>. USE SettingsAssumption
<1>1. /\ edit \in [Edits -> EditRecords] /\ store \in [Servers -> Stores] /\ setPast \in SettingsPasts
      /\ object \in Choices /\ call \in [Calls -> Nat]
      /\ setRow \in [Settable -> Values \cup {NoSetting}]
  BY DEF SettingsTypeOK
<1>2. SUFFICES /\ edit' \in [Edits -> EditRecords] /\ store' \in [Servers -> Stores]
               /\ setPast' \in SettingsPasts /\ object' \in Choices /\ call' \in [Calls -> Nat]
               /\ setRow' \in [Settable -> Values \cup {NoSetting}]
  BY DEF SettingsTypeOK
<1>3. \A p \in Servers, k \in Settable : Effective(p, k) \in Values
  BY <1>1 DEF Effective, Choices
<1>4. ASSUME NEW q \in EditRecords, NEW to \in {"prepared", "committed", "swap", "done"}
      PROVE  [q EXCEPT !.pc = to] \in EditRecords
  <2>1. \A C : q \in [pc : {"ready", "prepared", "committed", "swap", "done"}, keys : SUBSET Settable,
               to : Values \cup {NoSetting}, values : C] =>
                 [q EXCEPT !.pc = to] \in [pc : {"ready", "prepared", "committed", "swap", "done"}, keys : SUBSET Settable,
               to : Values \cup {NoSetting}, values : C]
    OBVIOUS
  <2>. QED
    BY <2>1
<1>5. ASSUME NEW q \in EditRecords
      PROVE  q.keys \subseteq Settable /\ q.to \in Values \cup {NoSetting} /\ q.values \in Choices
             /\ q.values["vector"] \in Values
  BY DEF Choices, Settable
<1>6. setPast.made + 1 \in Nat /\ \A p \in Servers : store[p].backend \in Nat
  BY <1>1
<1>7. \A b \in Nat, v \in Values, s \in BOOLEAN : [backend |-> b, swapping |-> s, value |-> v] \in Stores
  OBVIOUS
<1>8. ASSUME NEW p \in Servers
      PROVE  [setPast EXCEPT !.made = @ + 1, !.closed = @ \cup {store[p].backend}] \in SettingsPasts
  BY <1>1, <1>6
<1>9. \A q \in EditRecords : q.keys \subseteq Settable
  BY <1>5
<1>. HIDE DEF EditRecords
<1>10. ASSUME NEW r \in Edits, NEW to \in {"prepared", "committed", "swap", "done"}, EditGoes(r, to)
       PROVE  edit' \in [Edits -> EditRecords]
  <2>1. edit[r] \in EditRecords
    BY <1>1
  <2>2. [edit[r] EXCEPT !.pc = to] \in EditRecords
    BY <1>4, <2>1
  <2>. QED
    BY <1>1, <1>10, <2>2 DEF EditGoes
<1>11. ASSUME NEW r \in Edits, NEW keys \in SUBSET Settable, NEW to \in Values \cup {NoSetting},
              Prepare(r, keys, to)
       PROVE  edit' \in [Edits -> EditRecords] /\ setPast' \in SettingsPasts
  <2>. DEFINE v == [k \in Settable |-> IF k \notin keys THEN Effective("api", k)
                                       ELSE IF to = NoSetting THEN object[k] ELSE to]
              q == [pc |-> "prepared", keys |-> keys, to |-> to, values |-> v]
  <2>1. v \in Choices
    <3>1. \A k \in Settable : object[k] \in Values /\ Effective("api", k) \in Values
      BY <1>1, <1>3 DEF Choices, Servers
    <3>. QED
      BY <3>1 DEF Choices
  <2>2. edit' = [edit EXCEPT ![r] = q] /\ setPast' = [setPast EXCEPT !.overlapped = @ \/ PendingEdits # {}]
    BY <1>11 DEF Prepare
  <2>. HIDE DEF v
  <2>3. q \in EditRecords
    BY <2>1 DEF EditRecords
  <2>. HIDE DEF q
  <2>. QED
    BY <1>1, <2>2, <2>3
<1>12. ASSUME NEW r \in Edits, CommitEdit(r)
       PROVE  /\ edit' \in [Edits -> EditRecords] /\ setPast' \in SettingsPasts
              /\ setRow' \in [Settable -> Values \cup {NoSetting}]
  <2>1. edit' \in [Edits -> EditRecords]
    BY <1>10, <1>12 DEF CommitEdit, StoreRow
  <2>2. edit[r].keys \subseteq Settable /\ edit[r].to \in Values \cup {NoSetting}
    BY <1>1, <1>5
  <2>3. setPast' \in SettingsPasts
    <3>1. \/ UNCHANGED setPast
          \/ \E ks : /\ ks \in {setPast.reset \cup edit[r].keys, setPast.reset \ edit[r].keys}
                    /\ setPast' = [setPast EXCEPT !.reset = ks]
      BY <1>12 DEF CommitEdit, StoreRow
    <3>2. setPast \in SettingsPasts /\ setPast.reset \subseteq Settable
      BY <1>1
    <3>3. ASSUME NEW ks \in SUBSET Settable PROVE [setPast EXCEPT !.reset = ks] \in SettingsPasts
      BY <3>2
    <3>. HIDE DEF SettingsPasts
    <3>. QED
      BY <2>2, <3>1, <3>2, <3>3
  <2>. QED
    BY <1>1, <1>12, <2>1, <2>2, <2>3 DEF CommitEdit, StoreRow
<1>13. ASSUME NEW r \in Edits, Apply(r)
       PROVE  edit' \in [Edits -> EditRecords] /\ store' \in [Servers -> Stores] /\ object' \in Choices
  <2>1. edit' \in [Edits -> EditRecords]
    BY <1>10, <1>13 DEF Apply
  <2>2. store' \in [Servers -> Stores]
    <3>1. \A q \in Stores : [q EXCEPT !.swapping = TRUE] \in Stores
      OBVIOUS
    <3>2. store' = store \/ store' = [store EXCEPT !["api"] = [store["api"] EXCEPT !.swapping = TRUE]]
      BY <1>1, <1>13 DEF Apply, Servers
    <3>3. "api" \in Servers
      BY DEF Servers
    <3>. HIDE DEF Stores
    <3>. QED
      BY <1>1, <3>1, <3>2, <3>3
  <2>. QED
    BY <1>1, <1>5, <1>13, <2>1, <2>2 DEF Apply
<1>14. ASSUME NEW r \in Edits, Swap(r)
       PROVE  edit' \in [Edits -> EditRecords] /\ store' \in [Servers -> Stores] /\ setPast' \in SettingsPasts
  <2>1. edit' \in [Edits -> EditRecords]
    BY <1>10, <1>14 DEF Swap
  <2>2. edit[r].values["vector"] \in Values
    BY <1>1, <1>5
  <2>3. store' \in [Servers -> Stores]
    BY <1>1, <1>6, <1>7, <1>14, <2>2 DEF Swap, Servers
  <2>. QED
    BY <1>8, <1>14, <2>1, <2>3 DEF Swap, Servers
<1>15. ASSUME NEW c \in Calls, Enter(c) \/ Leave(c) PROVE call' \in [Calls -> Nat]
  BY <1>1, <1>6, <1>15 DEF Enter, Leave, Servers
<1>16. ASSUME SyncWorker PROVE store' \in [Servers -> Stores] /\ setPast' \in SettingsPasts
  <2>1. Effective("worker", "vector") \in Values
    BY <1>3 DEF Servers, Settable
  <2>2. store' \in [Servers -> Stores]
    BY <1>1, <1>6, <1>7, <1>16, <2>1 DEF SyncWorker, Replaced, Servers
  <2>. QED
    BY <1>8, <1>16, <2>2 DEF SyncWorker, Servers
<1>17. ASSUME RestartApi
       PROVE  /\ edit' \in [Edits -> EditRecords] /\ store' \in [Servers -> Stores]
              /\ setPast' \in SettingsPasts /\ object' \in Choices /\ call' \in [Calls -> Nat]
  <2>. DEFINE gone == [Ready EXCEPT !.pc = "done"]
  <2>1. gone \in EditRecords
    <3>1. [k \in Settable |-> Bootstrap] \in Choices
      BY DEF Choices
    <3>. QED
      BY <3>1 DEF Ready, EditRecords
  <2>2. edit' = [r \in Edits |-> IF r \in PendingEdits THEN gone ELSE edit[r]]
    BY <1>17 DEF RestartApi
  <2>. HIDE DEF gone
  <2>3. edit' \in [Edits -> EditRecords]
    BY <1>1, <2>1, <2>2
  <2>4. object' \in Choices /\ call' \in [Calls -> Nat]
    BY <1>17 DEF RestartApi, Choices
  <2>5. (IF setRow["vector"] = NoSetting THEN Bootstrap ELSE setRow["vector"]) \in Values
    BY <1>1 DEF Settable
  <2>6. store' \in [Servers -> Stores]
    BY <1>1, <1>6, <1>7, <1>17, <2>5 DEF RestartApi, Servers
  <2>7. setPast' \in SettingsPasts
    <3>1. setPast' = [setPast EXCEPT !.made = @ + 1, !.restarts = @ + 1]
      BY <1>17 DEF RestartApi
    <3>2. setPast.made + 1 \in Nat /\ setPast.restarts + 1 \in Nat /\ setPast.closed \in SUBSET Nat
          /\ setPast.overlapped \in BOOLEAN /\ setPast.reset \in SUBSET Settable
      BY <1>1
    <3>3. setPast' = [made |-> setPast.made + 1, closed |-> setPast.closed,
                      restarts |-> setPast.restarts + 1, overlapped |-> setPast.overlapped,
                      reset |-> setPast.reset]
      BY <1>1, <3>1
    <3>. QED
      BY <3>2, <3>3
  <2>. QED
    BY <2>3, <2>4, <2>6, <2>7
<1>. HIDE DEF Stores, SettingsPasts
<1>18. ASSUME NEW r \in Edits, NEW keys \in SUBSET Settable, NEW to \in Values \cup {NoSetting},
              Prepare(r, keys, to)
       PROVE  UNCHANGED <<setRow, object, store, call>>
  BY <1>18 DEF Prepare
<1>19. ASSUME NEW r \in Edits PROVE /\ CommitEdit(r) => UNCHANGED <<object, store, call>>
                                    /\ Apply(r) => UNCHANGED <<setRow, call, setPast>>
                                    /\ Swap(r) => UNCHANGED <<setRow, object, call>>
  BY DEF CommitEdit, Apply, Swap
<1>20. \A c \in Calls : Enter(c) \/ Leave(c) => UNCHANGED <<setRow, object, store, edit, setPast>>
  BY DEF Enter, Leave
<1>21. /\ SyncWorker => UNCHANGED <<setRow, object, edit, call>>
       /\ RestartApi => UNCHANGED setRow
  BY DEF SyncWorker, RestartApi
<1>. QED
  BY <1>1, <1>11, <1>12, <1>13, <1>14, <1>15, <1>16, <1>17, <1>18, <1>19, <1>20, <1>21
     DEF SettingsNext, settingsVars

LEMMA BackendsStep ==
  ASSUME SettingsTypeOK, BackendsApart, [SettingsNext]_settingsVars
  PROVE  BackendsApart'
<1>. USE DEF SettingsTypeOK, BackendsApart, Servers
<1>1. ASSUME NEW r \in Edits, NEW keys \in SUBSET Settable, NEW to \in Values \cup {NoSetting},
             Prepare(r, keys, to)
      PROVE  BackendsApart'
  BY <1>1 DEF Prepare
<1>2. ASSUME NEW r \in Edits, CommitEdit(r) PROVE BackendsApart'
  BY <1>2 DEF CommitEdit, StoreRow
<1>3. ASSUME NEW r \in Edits, Apply(r) PROVE BackendsApart'
  BY <1>3 DEF Apply
<1>4. ASSUME NEW r \in Edits, Swap(r) PROVE BackendsApart'
  BY <1>4 DEF Swap
<1>5. ASSUME NEW c \in Calls, Enter(c) \/ Leave(c) PROVE BackendsApart'
  BY <1>5 DEF Enter, Leave
<1>6. CASE SyncWorker
  BY <1>6 DEF SyncWorker, Replaced
<1>7. CASE RestartApi
  BY <1>7 DEF RestartApi
<1>8. CASE UNCHANGED settingsVars
  BY <1>8 DEF settingsVars
<1>. QED
  BY <1>1, <1>2, <1>3, <1>4, <1>5, <1>6, <1>7, <1>8 DEF SettingsNext

LEMMA EditsStep ==
  ASSUME SettingsTypeOK, EditsInTurn, [SettingsNext]_settingsVars
  PROVE  EditsInTurn'
<1>. DEFINE now == Effective("api", "vector")
<1>1. ASSUME ~setPast'.overlapped PROVE ~setPast.overlapped
  BY <1>1 DEF SettingsTypeOK, SettingsNext, settingsVars, Prepare, CommitEdit, StoreRow, Apply,
              Swap, Enter, Leave, SyncWorker, RestartApi
<1>2. SUFFICES ASSUME ~setPast'.overlapped
               PROVE  /\ \A q, r \in PendingEdits' : q = r
                      /\ \A r \in PendingEdits' : EditLeads(r)'
                      /\ PendingEdits' = {} => store'["api"].value = now'
  BY DEF EditsInTurn
<1>3. /\ \A q, r \in PendingEdits : q = r
      /\ \A r \in PendingEdits : EditLeads(r)
      /\ PendingEdits = {} => store["api"].value = now
  BY <1>1, <1>2 DEF EditsInTurn
<1>4. "api" \in Servers /\ "vector" \in Settable /\ "worker" \in Servers
  BY DEF Servers, Settable
<1>. DEFINE Goal == /\ \A q, r \in PendingEdits' : q = r
                    /\ \A r \in PendingEdits' : EditLeads(r)'
                    /\ PendingEdits' = {} => store'["api"].value = now'
\* Steps that an edit under way does not notice.
<1>5. ASSUME UNCHANGED <<setRow, object, edit>>, store'["api"].value = store["api"].value PROVE Goal
  <2>1. PendingEdits' = PendingEdits /\ now' = now
    BY <1>5 DEF PendingEdits, Effective
  <2>2. \A r \in Edits : EditLeads(r) <=> EditLeads(r)'
    BY <1>5 DEF EditLeads, Effective
  <2>. QED
    BY <1>3, <1>5, <2>1, <2>2 DEF PendingEdits
\* The steps of the only edit under way.
<1>6. ASSUME NEW r \in Edits, r \in PendingEdits, NEW q, edit' = [edit EXCEPT ![r] = q],
             q.pc # "ready",
             q.pc = "done" => store'["api"].value = now',
             q.pc # "done" => EditLeads(r)'
      PROVE  Goal
  <2>1. PendingEdits = {r}
    BY <1>3, <1>6
  <2>2. edit'[r] = q /\ \A s \in Edits \ {r} : edit'[s] = edit[s]
    BY <1>6 DEF SettingsTypeOK
  <2>3. PendingEdits' = IF q.pc = "done" THEN {} ELSE {r}
    BY <1>6, <2>1, <2>2 DEF PendingEdits
  <2>4. CASE q.pc = "done"
    BY <1>6, <2>3, <2>4
  <2>5. CASE q.pc # "done"
    BY <1>6, <2>3, <2>5
  <2>. QED
    BY <2>4, <2>5
<1>7. ASSUME NEW r \in Edits, NEW keys \in SUBSET Settable, NEW to \in Values \cup {NoSetting},
             Prepare(r, keys, to)
      PROVE  Goal
  <2>. DEFINE v == [k \in Settable |-> IF k \notin keys THEN Effective("api", k)
                                       ELSE IF to = NoSetting THEN object[k] ELSE to]
              q == [pc |-> "prepared", keys |-> keys, to |-> to, values |-> v]
  <2>1. PendingEdits = {}
    BY <1>2, <1>7 DEF Prepare, SettingsTypeOK
  <2>2. store["api"].value = now /\ now' = now /\ UNCHANGED <<setRow, object, store>>
    BY <1>3, <1>7, <2>1 DEF Prepare, Effective
  <2>3. edit' = [edit EXCEPT ![r] = q]
    BY <1>7 DEF Prepare
  <2>4. edit'[r] = q /\ \A s \in Edits \ {r} : edit'[s] = edit[s]
    BY <2>3 DEF SettingsTypeOK
  <2>5. PendingEdits' = {r}
    BY <2>1, <2>4 DEF PendingEdits
  <2>6. edit'[r].pc = "prepared" /\ edit'[r].keys = keys /\ edit'[r].to = to
        /\ edit'[r].values["vector"] =
             IF "vector" \notin keys THEN now
             ELSE IF to = NoSetting THEN object["vector"] ELSE to
    BY <1>4, <2>4
  <2>. HIDE DEF v, q
  <2>7. EditLeads(r)'
    BY <2>2, <2>6 DEF EditLeads
  <2>. QED
    BY <2>5, <2>7
<1>8. ASSUME NEW r \in Edits, CommitEdit(r) PROVE Goal
  <2>1. r \in PendingEdits /\ edit[r].pc = "prepared"
    BY <1>8 DEF CommitEdit, PendingEdits
  <2>2. EditLeads(r)
    BY <1>3, <2>1
  <2>. DEFINE over == edit[r].to # NoSetting /\ \A k \in edit[r].keys : setRow[k] = edit[r].to
  <2>3. CASE over
    <3>. DEFINE q == [edit[r] EXCEPT !.pc = "done"]
    <3>1. UNCHANGED <<setRow, object, store>> /\ edit' = [edit EXCEPT ![r] = q]
      BY <1>8, <2>3 DEF CommitEdit, EditGoes
    <3>2. q.pc = "done"
      BY DEF SettingsTypeOK
    <3>3. store["api"].value = now
      BY <2>1, <2>2 DEF EditLeads
    <3>4. now' = now
      BY <3>1 DEF Effective
    <3>. HIDE DEF q
    <3>. QED
      BY <1>6, <2>1, <3>1, <3>2, <3>3, <3>4
  <2>4. CASE ~over
    <3>. DEFINE q == [edit[r] EXCEPT !.pc = "committed"]
    <3>1. /\ UNCHANGED <<object, store>> /\ edit' = [edit EXCEPT ![r] = q]
          /\ setRow' = [k \in Settable |-> IF k \in edit[r].keys THEN edit[r].to ELSE setRow[k]]
      BY <1>8, <2>4 DEF CommitEdit, StoreRow, EditGoes
    <3>2. q.pc = "committed" /\ q.keys = edit[r].keys /\ q.values = edit[r].values
      BY DEF SettingsTypeOK
    <3>3. edit'[r] = q
      BY <3>1 DEF SettingsTypeOK
    <3>4. setRow'["vector"] = IF "vector" \in edit[r].keys THEN edit[r].to ELSE setRow["vector"]
      BY <1>4, <3>1
    <3>. HIDE DEF q
    <3>5. EditLeads(r)'
      <4>1. edit'[r].pc = "committed" /\ edit'[r].keys = edit[r].keys /\ edit'[r].values = edit[r].values
        BY <3>2, <3>3
      <4>2. CASE "vector" \in edit[r].keys
        BY <2>1, <2>2, <3>4, <4>1, <4>2 DEF EditLeads
      <4>3. CASE "vector" \notin edit[r].keys
        <5>1. now' = now
          BY <3>1, <3>4, <4>3 DEF Effective
        <5>2. store["api"].value = now /\ edit[r].values["vector"] = now
          BY <2>1, <2>2, <4>3 DEF EditLeads
        <5>. QED
          BY <3>1, <4>1, <4>3, <5>1, <5>2 DEF EditLeads
      <4>. QED
        BY <4>2, <4>3
    <3>. QED
      BY <1>6, <2>1, <3>1, <3>2, <3>5
  <2>. QED
    BY <2>3, <2>4
<1>9. ASSUME NEW r \in Edits, Apply(r) PROVE Goal
  <2>1. r \in PendingEdits /\ edit[r].pc = "committed"
    BY <1>9 DEF Apply, PendingEdits
  <2>2. EditLeads(r)
    BY <1>3, <2>1
  <2>3. UNCHANGED setRow /\ object' = edit[r].values
    BY <1>9 DEF Apply
  <2>4. now' = edit[r].values["vector"]
    <3>1. now' = IF setRow["vector"] # NoSetting THEN setRow["vector"] ELSE edit[r].values["vector"]
      BY <2>3 DEF Effective
    <3>2. now = IF setRow["vector"] # NoSetting THEN setRow["vector"] ELSE object["vector"]
      BY DEF Effective
    <3>. HIDE DEF now
    <3>3. CASE "vector" \in edit[r].keys
      BY <2>1, <2>2, <3>1, <3>3 DEF EditLeads
    <3>4. CASE "vector" \notin edit[r].keys
      <4>1. edit[r].values["vector"] = now
        BY <2>1, <2>2, <3>4 DEF EditLeads, now
      <4>. QED
        BY <3>1, <3>2, <4>1
    <3>. QED
      BY <3>3, <3>4
  <2>5. CASE "vector" \in edit[r].keys
    <3>. DEFINE q == [edit[r] EXCEPT !.pc = "swap"]
    <3>1. edit' = [edit EXCEPT ![r] = q]
      BY <1>9, <2>5 DEF Apply, EditGoes
    <3>2. q.pc = "swap" /\ q.keys = edit[r].keys /\ q.values = edit[r].values
      BY DEF SettingsTypeOK
    <3>3. edit'[r] = q
      BY <3>1 DEF SettingsTypeOK
    <3>. HIDE DEF q
    <3>4. edit'[r].values["vector"] = now' /\ edit'[r].pc = "swap"
      BY <2>4, <3>2, <3>3
    <3>5. EditLeads(r)'
      BY <3>4 DEF EditLeads
    <3>. QED
      BY <1>6, <2>1, <3>1, <3>2, <3>5
  <2>6. CASE "vector" \notin edit[r].keys
    <3>. DEFINE q == [edit[r] EXCEPT !.pc = "done"]
    <3>1. edit' = [edit EXCEPT ![r] = q] /\ UNCHANGED store
      BY <1>9, <2>6 DEF Apply, EditGoes
    <3>2. q.pc = "done"
      BY DEF SettingsTypeOK
    <3>3. store["api"].value = now /\ edit[r].values["vector"] = now
      BY <2>1, <2>2, <2>6 DEF EditLeads
    <3>4. store'["api"].value = now'
      BY <2>4, <3>1, <3>3
    <3>. HIDE DEF q
    <3>. QED
      BY <1>6, <2>1, <3>1, <3>2, <3>4
  <2>. QED
    BY <2>5, <2>6
<1>10. ASSUME NEW r \in Edits, Swap(r) PROVE Goal
  <2>1. r \in PendingEdits /\ edit[r].pc = "swap"
    BY <1>10 DEF Swap, PendingEdits
  <2>2. edit[r].values["vector"] = now
    BY <1>3, <2>1 DEF EditLeads
  <2>3. UNCHANGED <<setRow, object>>
    BY <1>10 DEF Swap
  <2>4. now' = now
    BY <2>3 DEF Effective
  <2>5. store'["api"].value = edit[r].values["vector"]
    BY <1>4, <1>10 DEF Swap, SettingsTypeOK
  <2>. DEFINE q == [edit[r] EXCEPT !.pc = "done"]
  <2>6. edit' = [edit EXCEPT ![r] = q]
    BY <1>10 DEF Swap, EditGoes
  <2>7. q.pc = "done"
    BY DEF SettingsTypeOK
  <2>. HIDE DEF q
  <2>. QED
    BY <1>6, <2>1, <2>2, <2>4, <2>5, <2>6, <2>7
<1>11. ASSUME NEW c \in Calls, Enter(c) \/ Leave(c) PROVE Goal
  BY <1>5, <1>11 DEF Enter, Leave
<1>12. CASE SyncWorker
  <2>1. store'["api"] = store["api"]
    BY <1>4, <1>12 DEF SyncWorker, Replaced, SettingsTypeOK
  <2>. QED
    BY <1>5, <1>12, <2>1 DEF SyncWorker
<1>13. CASE RestartApi
  <2>1. \A r \in Edits : edit'[r].pc \in {"ready", "done"}
    BY <1>13 DEF RestartApi, PendingEdits, Ready
  <2>2. PendingEdits' = {}
    BY <2>1 DEF PendingEdits
  <2>3. object'["vector"] = Bootstrap /\ UNCHANGED setRow
    BY <1>4, <1>13 DEF RestartApi
  <2>4. store'["api"].value = IF setRow["vector"] = NoSetting THEN Bootstrap ELSE setRow["vector"]
    BY <1>4, <1>13 DEF RestartApi, SettingsTypeOK
  <2>5. store'["api"].value = now'
    BY <2>3, <2>4 DEF Effective
  <2>. QED
    BY <2>2, <2>5
<1>14. CASE UNCHANGED settingsVars
  BY <1>5, <1>14 DEF settingsVars
<1>. QED
  BY <1>7, <1>8, <1>9, <1>10, <1>11, <1>12, <1>13, <1>14 DEF SettingsNext

\* The vector store can be used while it is reconfigured: a swap never closes the
\* backend under a call, and edits that come one at a time leave the store that the
\* settings name.
THEOREM BackendIsSound == SettingsSpec => []BackendSound
<1>1. SettingsInit => SettingsInv
  <2>. SUFFICES ASSUME SettingsInit PROVE SettingsInv
    OBVIOUS
  <2>. USE SettingsAssumption
  <2>1. SettingsTypeOK
    <3>1. Ready \in [pc : {"ready"}, keys : SUBSET Settable, to : {NoSetting}, values : Choices]
      BY DEF Ready, Choices
    <3>. QED
      BY <3>1 DEF SettingsInit, SettingsTypeOK, Choices
  <2>2. BackendsApart
    BY DEF SettingsInit, BackendsApart, Servers
  <2>3. PendingEdits = {}
    BY DEF SettingsInit, PendingEdits, Ready
  <2>4. store["api"].value = Effective("api", "vector")
    BY DEF SettingsInit, Effective, Settable, Servers
  <2>. QED
    BY <2>1, <2>2, <2>3, <2>4 DEF SettingsInv, EditsInTurn
<1>2. SettingsInv /\ [SettingsNext]_settingsVars => SettingsInv'
  BY SettingsTypeStep, BackendsStep, EditsStep DEF SettingsInv
<1>3. SettingsInv => BackendSound
  BY DEF SettingsInv, SettingsTypeOK, BackendsApart, EditsInTurn, BackendSound, CallsKeepBackend, StoreIsCurrent,
         Servers
<1>. QED
  BY <1>1, <1>2, <1>3, PTL DEF SettingsSpec

------------------------------------------------------------------------------
(* Startup, for finitely many processes and any bounds.                      *)

\* A process holds the lock from the moment it got it to "finally".
LockHeld == \A p \in Starters :
  starting[p] \in {"locked", "looked", "ran", "failed"} <=> holder = p

\* What a process knows of the schema, and what it may have missed.
SchemaSeen ==
  /\ \A p \in Starters : found[p] => schema
  /\ \A p \in Starters : starting[p] \in {"migrated", "serving"} => schema
  /\ \A p, q \in Starters : Uncommitted(p) /\ Uncommitted(q) => p = q
  /\ \A p, q \in Starters :
       starting[p] \in {"locked", "looked"} /\ Uncommitted(q) => p \in overlap
  /\ \A p \in Starters : starting[p] = "looked" /\ ~found[p] /\ schema => p \in overlap
  /\ \A p \in Starters : starting[p] \in {"failed", "aborted"} => p \in overlap

\* What a check has seen to answer was up at some time since it began.
ChecksHaveBasis ==
  /\ check.pc # "none" => up \subseteq check.since
  /\ check.pc = "embedding" => check.good \subseteq check.since
  /\ ReadyHasBasis

StartupInv == StartupTypeOK /\ LockHeld /\ SchemaSeen /\ ChecksHaveBasis

\* A step is one of a process that starts or one of the readiness.
StarterStep(p) ==
  \/ BeginStart(p) \/ TakeLock(p) \/ LookAtSchema(p) \/ Upgrade(p) \/ Unlock(p)
  \/ CommitSchema(p) \/ Abort(p) \/ TimeOut(p) \/ StarterDies(p) \/ BeginServing(p)
ReadinessStep ==
  \/ \E d \in Dependencies : Outage(d) \/ Recovers(d)
  \/ Check \/ Gather \/ ConcludeCheck \/ VerdictExpires \/ ProbeExpires

LEMMA StartupSteps ==
  ASSUME [StartupNext]_startupVars
  PROVE  \/ \E p \in Starters : StarterStep(p) /\ UNCHANGED Readiness
         \/ ReadinessStep /\ UNCHANGED Starts
         \/ UNCHANGED startupVars
<1>1. ASSUME NEW p \in Starters, StarterStep(p) PROVE UNCHANGED Readiness
  BY <1>1 DEF StarterStep, BeginStart, TakeLock, LookAtSchema, Upgrade, Unlock, CommitSchema, Abort,
     TimeOut, StarterDies, BeginServing, Readiness
<1>2. ASSUME ReadinessStep PROVE UNCHANGED Starts
  BY <1>2 DEF ReadinessStep, Outage, Recovers, Check, Gather, ConcludeCheck, VerdictExpires,
     ProbeExpires, Starts
<1>. QED
  BY <1>1, <1>2 DEF StartupNext, StarterStep, ReadinessStep

LEMMA RecoversType ==
  ASSUME StartupTypeOK, NEW d \in Dependencies, Recovers(d)
  PROVE  StartupTypeOK'
<1>. DEFINE R == [pc : {"none", "gather", "embedding"}, good : SUBSET Dependencies,
                  since : SUBSET Dependencies]
            V == [status : {"none", "ok", "degraded"}, since : SUBSET Dependencies]
<1>1. /\ check \in R /\ verdict \in V /\ check.since \subseteq Dependencies
      /\ verdict.since \subseteq Dependencies
  BY DEF StartupTypeOK, Results
<1>2. \A q \in R, s \in SUBSET Dependencies : [q EXCEPT !.since = s] \in R
  OBVIOUS
<1>3. \A q \in V, s \in SUBSET Dependencies : [q EXCEPT !.since = s] \in V
  OBVIOUS
<1>4. \E s \in {check.since, check.since \cup {d}} : check' = [check EXCEPT !.since = s]
  BY DEF Recovers
<1>5. \E s \in {verdict.since, verdict.since \cup {d}} : verdict' = [verdict EXCEPT !.since = s]
  BY DEF Recovers
<1>. HIDE DEF R, V
<1>6. check' \in R /\ verdict' \in V
  BY <1>1, <1>2, <1>3, <1>4, <1>5
<1>7. /\ up' \subseteq Dependencies
      /\ UNCHANGED <<schema, holder, starting, found, patient, overlap, probe, outages, checks>>
  BY DEF Recovers, Starts, StartupTypeOK
<1>. QED
  BY <1>6, <1>7 DEF R, V, StartupTypeOK, Results

LEMMA GatherType ==
  ASSUME StartupTypeOK, Gather
  PROVE  StartupTypeOK'
<1>. DEFINE R == [pc : {"none", "gather", "embedding"}, good : SUBSET Dependencies,
                  since : SUBSET Dependencies]
<1>1. check \in R /\ up \subseteq Dependencies
  BY DEF StartupTypeOK, Results
<1>2. \A q \in R, s \in SUBSET Dependencies : [q EXCEPT !.pc = "embedding", !.good = s] \in R
  OBVIOUS
<1>3. \E s \in {up \ {"embedding"}, {}} : check' = [check EXCEPT !.pc = "embedding", !.good = s]
  BY DEF Gather
<1>. HIDE DEF R
<1>4. check' \in R
  BY <1>1, <1>2, <1>3
<1>5. UNCHANGED <<schema, holder, starting, found, patient, overlap, up, verdict, probe, outages,
                  checks>>
  BY DEF Gather, Starts
<1>. QED
  BY <1>4, <1>5 DEF R, StartupTypeOK, Results

LEMMA StartupTypeStep ==
  ASSUME StartupTypeOK, [StartupNext]_startupVars
  PROVE  StartupTypeOK'
<1>. USE StartupAssumption DEF StartupTypeOK, Stages, Results
<1>1. ASSUME NEW p \in Starters, StarterStep(p), UNCHANGED Readiness PROVE StartupTypeOK'
  <2>. USE <1>1 DEF Readiness, StageGoes, StartFault
  <2>1. CASE BeginStart(p)
    BY <2>1 DEF BeginStart
  <2>2. CASE TakeLock(p)
    BY <2>2 DEF TakeLock
  <2>3. CASE LookAtSchema(p)
    BY <2>3 DEF LookAtSchema
  <2>4. CASE Upgrade(p)
    BY <2>4 DEF Upgrade
  <2>5. CASE Unlock(p)
    BY <2>5 DEF Unlock
  <2>6. CASE CommitSchema(p)
    BY <2>6 DEF CommitSchema
  <2>7. CASE Abort(p)
    BY <2>7 DEF Abort
  <2>8. CASE TimeOut(p)
    BY <2>8 DEF TimeOut
  <2>9. CASE StarterDies(p)
    BY <2>9 DEF StarterDies
  <2>10. CASE BeginServing(p)
    BY <2>10 DEF BeginServing
  <2>. QED
    BY <1>1, <2>1, <2>2, <2>3, <2>4, <2>5, <2>6, <2>7, <2>8, <2>9, <2>10 DEF StarterStep
<1>2. CASE ReadinessStep /\ UNCHANGED Starts
  <2>. USE <1>2 DEF Starts, StartFault
  <2>1. ASSUME NEW d \in Dependencies, Outage(d) PROVE StartupTypeOK'
    BY <2>1 DEF Outage
  <2>2. ASSUME NEW d \in Dependencies, Recovers(d) PROVE StartupTypeOK'
    BY <2>2, RecoversType
  <2>3. CASE Check
    BY <2>3 DEF Check
  <2>4. CASE Gather
    BY <2>4, GatherType
  <2>5. CASE ConcludeCheck
    BY <2>5 DEF ConcludeCheck, NoCheck
  <2>6. CASE VerdictExpires \/ ProbeExpires
    BY <2>6 DEF VerdictExpires, ProbeExpires, NoVerdict
  <2>. QED
    BY <1>2, <2>1, <2>2, <2>3, <2>4, <2>5, <2>6 DEF ReadinessStep
<1>3. CASE UNCHANGED startupVars
  BY <1>3 DEF startupVars
<1>. QED
  BY <1>1, <1>2, <1>3, StartupSteps

LEMMA LockStep ==
  ASSUME StartupTypeOK, LockHeld, [StartupNext]_startupVars
  PROVE  /\ LockHeld'
         /\ holder # NoProcess => holder' \in {holder, NoProcess}
<1>. USE StartupAssumption DEF LockHeld
<1>1. ASSUME NEW p \in Starters, StarterStep(p)
      PROVE  LockHeld' /\ (holder # NoProcess => holder' \in {holder, NoProcess})
  <2>1. starting \in [Starters -> Stages] /\ holder \in Starters \cup {NoProcess}
    BY DEF StartupTypeOK
  <2>. USE <2>1 DEF StageGoes
  <2>2. CASE TakeLock(p)
    BY <2>2 DEF TakeLock
  <2>3. CASE Unlock(p)
    BY <2>3 DEF Unlock
  <2>4. CASE StarterDies(p)
    BY <2>4 DEF StarterDies
  <2>5. CASE Upgrade(p)
    BY <2>5 DEF Upgrade
  <2>6. CASE \/ BeginStart(p) \/ LookAtSchema(p) \/ CommitSchema(p) \/ Abort(p) \/ BeginServing(p)
    BY <2>6 DEF BeginStart, LookAtSchema, CommitSchema, Abort, BeginServing
  <2>7. CASE TimeOut(p)
    BY <2>7 DEF TimeOut
  <2>. QED
    BY <1>1, <2>2, <2>3, <2>4, <2>5, <2>6, <2>7 DEF StarterStep
<1>2. CASE UNCHANGED Starts
  BY <1>2 DEF Starts
<1>3. CASE UNCHANGED startupVars
  BY <1>3 DEF startupVars
<1>. QED
  BY <1>1, <1>2, <1>3, StartupSteps

LEMMA SchemaStep ==
  ASSUME StartupTypeOK, LockHeld, SchemaSeen, [StartupNext]_startupVars
  PROVE  SchemaSeen' /\ (schema => schema')
<1>1. ASSUME NEW p \in Starters, StarterStep(p) PROVE SchemaSeen' /\ (schema => schema')
  <2>1. /\ starting \in [Starters -> Stages] /\ found \in [Starters -> BOOLEAN]
        /\ schema \in BOOLEAN /\ overlap \subseteq Starters
    BY DEF StartupTypeOK
  <2>. USE <2>1 DEF StageGoes, SchemaSeen
  <2>2. CASE BeginStart(p)
    BY <2>2 DEF BeginStart, Uncommitted
  <2>3. CASE TakeLock(p)
    <3>1. \A q \in Starters : Uncommitted(q)' <=> Uncommitted(q)
      BY <2>3 DEF TakeLock, Uncommitted
    <3>2. ~Uncommitted(p)
      BY <2>3 DEF TakeLock, Uncommitted
    <3>3. overlap \subseteq overlap' /\ \A q \in Starters : Uncommitted(q) => p \in overlap'
      BY <2>3, <3>2 DEF TakeLock
    <3>. QED
      BY <2>3, <3>1, <3>3 DEF TakeLock
  <2>4. CASE LookAtSchema(p)
    <3>1. \A q \in Starters : Uncommitted(q)' <=> Uncommitted(q)
      BY <2>4 DEF LookAtSchema, Uncommitted
    <3>. QED
      BY <2>4, <3>1 DEF LookAtSchema
  <2>5. CASE Upgrade(p)
    <3>1. \A q \in Starters : Uncommitted(q)' =>
            Uncommitted(q) \/ (q = p /\ ~found[p] /\ \A o \in Starters \ {p} : ~Uncommitted(o))
      BY <2>5 DEF Upgrade, Uncommitted
    <3>2. \A q \in Starters : starting'[q] \in {"locked", "looked"} => q # p /\ FALSE
      BY <2>5 DEF Upgrade, LockHeld
    <3>3. \A q \in Starters : starting'[q] \in {"failed", "aborted"} => q \in overlap
      BY <2>5 DEF Upgrade
    <3>. QED
      BY <2>5, <3>1, <3>2, <3>3 DEF Upgrade
  <2>6. CASE Unlock(p)
    <3>1. \A q \in Starters : Uncommitted(q)' <=> Uncommitted(q)
      BY <2>6 DEF Unlock, Uncommitted
    <3>. QED
      BY <2>6, <3>1 DEF Unlock
  <2>7. CASE CommitSchema(p)
    <3>1. \A q \in Starters : Uncommitted(q)' => Uncommitted(q)
      BY <2>7 DEF CommitSchema, Uncommitted
    <3>2. \A q \in Starters : starting[q] = "looked" /\ ~found[q] => q \in overlap
      BY <2>7 DEF CommitSchema, Uncommitted
    <3>. QED
      BY <2>7, <3>1, <3>2 DEF CommitSchema
  <2>8. CASE Abort(p) \/ StarterDies(p) \/ BeginServing(p)
    <3>1. \A q \in Starters : Uncommitted(q)' => Uncommitted(q)
      BY <2>8 DEF Abort, StarterDies, BeginServing, Uncommitted
    <3>. QED
      BY <2>8, <3>1 DEF Abort, StarterDies, BeginServing
  <2>9. CASE TimeOut(p)
    BY <2>9 DEF TimeOut, Uncommitted
  <2>. QED
    BY <1>1, <2>2, <2>3, <2>4, <2>5, <2>6, <2>7, <2>8, <2>9 DEF StarterStep
<1>2. CASE UNCHANGED Starts
  BY <1>2 DEF Starts, SchemaSeen, Uncommitted
<1>3. CASE UNCHANGED startupVars
  BY <1>3 DEF startupVars, SchemaSeen, Uncommitted
<1>. QED
  BY <1>1, <1>2, <1>3, StartupSteps

LEMMA BasisStep ==
  ASSUME StartupTypeOK, ChecksHaveBasis, [StartupNext]_startupVars
  PROVE  ChecksHaveBasis'
<1>. USE DEF ChecksHaveBasis, ReadyHasBasis
<1>1. CASE UNCHANGED Readiness
  BY <1>1 DEF Readiness
<1>2. CASE ReadinessStep
  <2>. USE DEF StartupTypeOK
  <2>1. ASSUME NEW d \in Dependencies, Outage(d) PROVE ChecksHaveBasis'
    BY <2>1 DEF Outage
  <2>2. ASSUME NEW d \in Dependencies, Recovers(d) PROVE ChecksHaveBasis'
    <3>1. /\ check'.pc = check.pc /\ check'.good = check.good /\ up' = up \cup {d}
          /\ check'.since = IF check.pc = "none" THEN check.since ELSE check.since \cup {d}
          /\ verdict'.status = verdict.status
          /\ verdict.since \subseteq verdict'.since
      BY <2>2 DEF Recovers
    <3>. QED
      BY <3>1
  <2>3. CASE Check
    BY <2>3 DEF Check
  <2>4. CASE Gather
    <3>1. /\ check.pc = "gather" /\ check'.pc = "embedding" /\ check'.since = check.since
          /\ check'.good \subseteq up /\ UNCHANGED <<up, verdict>>
      BY <2>4 DEF Gather
    <3>. QED
      BY <3>1
  <2>5. CASE ConcludeCheck
    <3>1. /\ check.pc = "embedding" /\ check'.pc = "none" /\ UNCHANGED up
      BY <2>5 DEF ConcludeCheck, NoCheck
    <3>2. \/ UNCHANGED verdict
          \/ verdict'.since = check.since /\
             (verdict'.status = "ok" => Dependencies \ {"embedding"} \subseteq check.good)
      BY <2>5 DEF ConcludeCheck
    <3>. QED
      BY <3>1, <3>2
  <2>6. CASE VerdictExpires \/ ProbeExpires
    BY <2>6 DEF VerdictExpires, ProbeExpires, NoVerdict
  <2>. QED
    BY <1>2, <2>1, <2>2, <2>3, <2>4, <2>5, <2>6 DEF ReadinessStep
<1>3. CASE UNCHANGED startupVars
  BY <1>3 DEF startupVars
<1>. QED
  BY <1>1, <1>2, <1>3, StartupSteps

\* Tables are created by one transaction at a time, a server has them committed, a
\* start fails only for want of the other's commit, and "ready" has a basis.
THEOREM StartsAreSound == StartupSpec => StartsSound
<1>1. StartupInit => StartupInv
  <2>. SUFFICES ASSUME StartupInit PROVE StartupInv
    OBVIOUS
  <2>1. StartupTypeOK
    <3>1. /\ NoCheck \in [pc : {"none", "gather", "embedding"}, good : Results, since : Results]
          /\ NoVerdict \in [status : {"none", "ok", "degraded"}, since : Results]
      BY DEF NoCheck, NoVerdict, Results
    <3>2. /\ schema \in BOOLEAN /\ holder \in Starters \cup {NoProcess}
          /\ starting \in [Starters -> Stages]
          /\ found \in [Starters -> BOOLEAN] /\ patient \in [Starters -> BOOLEAN]
      BY DEF StartupInit, Stages
    <3>3. /\ overlap \subseteq Starters /\ probe \in {"none", "ok", "error"}
          /\ outages \in 0..MaxOutages /\ checks \in 0..MaxChecks
          /\ up \subseteq Dependencies
      BY StartupAssumption DEF StartupInit
    <3>. QED
      BY <3>1, <3>2, <3>3 DEF StartupInit, StartupTypeOK
  <2>2. LockHeld /\ SchemaSeen
    BY StartupAssumption DEF StartupInit, LockHeld, SchemaSeen, Uncommitted
  <2>3. ChecksHaveBasis
    BY DEF StartupInit, ChecksHaveBasis, ReadyHasBasis, NoCheck, NoVerdict
  <2>. QED
    BY <2>1, <2>2, <2>3 DEF StartupInv
<1>2. StartupInv /\ [StartupNext]_startupVars => StartupInv'
  BY StartupTypeStep, LockStep, SchemaStep, BasisStep DEF StartupInv
<1>3. StartupInv => SchemaSound /\ ReadyHasBasis
  <2>. SUFFICES ASSUME StartupInv PROVE SchemaSound /\ ReadyHasBasis
    OBVIOUS
  <2>. DEFINE open == {p \in Starters : Uncommitted(p)}
  <2>1. Cardinality(open) <= 1
    <3>1. CASE open = {}
      BY <3>1, FS_EmptySet
    <3>2. CASE open # {}
      <4>1. PICK p \in open : TRUE
        BY <3>2
      <4>2. open = {p}
        BY <4>1 DEF StartupInv, SchemaSeen
      <4>3. Cardinality({p}) = 1
        BY FS_Singleton
      <4>. QED
        BY <4>2, <4>3
    <3>. QED
      BY <3>1, <3>2
  <2>. QED
    BY <2>1 DEF StartupInv, SchemaSeen, SchemaSound, ChecksHaveBasis
<1>4. StartupInv /\ [StartupNext]_startupVars => [SchemaStays]_startupVars
  BY LockStep, SchemaStep DEF StartupInv, SchemaStays
<1>. QED
  BY <1>1, <1>2, <1>3, <1>4, PTL DEF StartupSpec, StartsSound

------------------------------------------------------------------------------
(* Secrets, for any processes and any sequence of models.                    *)

OldOnly == [key |-> Old, previous |-> {}]

\* Every process has one of three rings; the old key is dropped after the rewrite,
\* which has every process on the new one.
RingsInTurn ==
  /\ \A p \in Replicas : ring[p] \in {OldOnly, Rotated, NewOnly}
  /\ \A p \in Replicas : ring[p] = NewOnly => stage = "rewritten"
  /\ rewrite.pc # "idle" => stage = "before"
  /\ rewrite.pc # "idle" \/ stage = "rewritten" => \A p \in Replicas : ring[p].key = New

\* What the rewrite has passed is under the new key.
PassedAreNew ==
  /\ stage = "rewritten" => \A m \in Encrypted : column[m].there => column[m].key = New
  /\ rewrite.pc # "idle" =>
       \A i \in DOMAIN Models : i < rewrite.at /\ column[Models[i]].there =>
         column[Models[i]].key = New

\* What the rewrite has in hand is what was saved, or its row was saved since.
InHand ==
  rewrite.pc = "commit" =>
    /\ rewrite.at \in DOMAIN Models
    /\ ~rewrite.there => ~column[Models[rewrite.at]].there
    /\ LET m == Models[rewrite.at] IN
       column[m].there =>
         rewrite.read = secretPast.saved[m] \/ m \in secretPast.raced \cup secretPast.window

SecretsInv ==
  SecretsTypeOK /\ RingsInTurn /\ PassedAreNew /\ InHand /\ SavedStands /\ PreferencesStand

\* The rewrite goes through the models, and then the embedding cache.
LEMMA OrderOfRewrite ==
  /\ Len(Models) \in Nat /\ DOMAIN Models = 1..Len(Models) /\ DOMAIN Order = 1..(Len(Models) + 1)
  /\ \A i \in DOMAIN Models : Order[i] = Models[i] /\ Models[i] \in Encrypted
  /\ \A i \in DOMAIN Order : Order[i] \in Encrypted => i \in DOMAIN Models
  /\ \A i \in DOMAIN Order : Order[i] = "EmbeddingCache" => i = Len(Models) + 1
  /\ \A m \in Encrypted : \E i \in DOMAIN Models : Models[i] = m
<1>1. Models \in Seq(Encrypted) /\ "EmbeddingCache" \notin Encrypted
  BY SecretsAssumption DEF SecretsAssumption
<1>2. Len(Models) \in Nat /\ DOMAIN Models = 1..Len(Models)
  BY <1>1
<1>3. \A m \in Encrypted : \E i \in DOMAIN Models : Models[i] = m
  BY DEF Encrypted
<1>4. \A i \in DOMAIN Models : Models[i] \in Encrypted
  BY DEF Encrypted
<1>. DEFINE last == "EmbeddingCache"
            S == Encrypted \cup {last}
<1>5. Models \in Seq(S) /\ last \in S
  BY <1>1, <1>2, <1>4
<1>6. /\ Append(Models, last) \in Seq(S) /\ Len(Append(Models, last)) = Len(Models) + 1
      /\ \A i \in 1..Len(Models) : Append(Models, last)[i] = Models[i]
      /\ Append(Models, last)[Len(Models) + 1] = last
  <2>. HIDE DEF S, last
  <2>. QED
    BY <1>2, <1>5
<1>7. /\ DOMAIN Order = 1..(Len(Models) + 1)
      /\ \A i \in 1..Len(Models) : Order[i] = Models[i]
      /\ Order[Len(Models) + 1] = "EmbeddingCache"
  BY <1>2, <1>6 DEF Order
<1>8. \A i \in DOMAIN Order : i \in DOMAIN Models \/ i = Len(Models) + 1
  BY <1>2, <1>7
<1>. QED
  BY <1>1, <1>2, <1>3, <1>4, <1>7, <1>8

\* The bookkeeping stays of its kind.
LEMMA PastsUpdated ==
  ASSUME NEW h \in Pasts
  PROVE  /\ \A w \in SUBSET Encrypted : LET g == [h EXCEPT !.window = w] IN
              /\ g \in Pasts /\ g.window = w /\ g.saved = h.saved /\ g.raced = h.raced
              /\ g.fields = h.fields /\ g.merged = h.merged
         /\ \A x \in SUBSET Encrypted : LET g == [h EXCEPT !.raced = x] IN
              /\ g \in Pasts /\ g.raced = x /\ g.saved = h.saved /\ g.window = h.window
              /\ g.fields = h.fields /\ g.merged = h.merged
         /\ \A n \in Nat : LET g == [h EXCEPT !.faults = n] IN
              /\ g \in Pasts /\ g.saved = h.saved /\ g.raced = h.raced /\ g.window = h.window
              /\ g.fields = h.fields /\ g.merged = h.merged
<1>1. h = [saves |-> h.saves, faults |-> h.faults, saved |-> h.saved, raced |-> h.raced,
           window |-> h.window, fields |-> h.fields, merged |-> h.merged]
  BY DEF Pasts
<1>2. ASSUME NEW w \in SUBSET Encrypted PROVE [h EXCEPT !.window = w] \in Pasts
  BY DEF Pasts
<1>3. ASSUME NEW x \in SUBSET Encrypted PROVE [h EXCEPT !.raced = x] \in Pasts
  BY DEF Pasts
<1>4. ASSUME NEW n \in Nat PROVE [h EXCEPT !.faults = n] \in Pasts
  BY DEF Pasts
<1>. QED
  BY <1>1, <1>2, <1>3, <1>4

\* Nothing but these changes.
LEMMA SecretsStill ==
  ASSUME SecretsInv, UNCHANGED <<ring, column, rewrite, stage>>,
         secretPast'.saved = secretPast.saved, secretPast'.raced = secretPast.raced,
         secretPast'.window = secretPast.window
  PROVE  RingsInTurn' /\ PassedAreNew' /\ InHand' /\ SavedStands'
BY DEF SecretsInv, RingsInTurn, PassedAreNew, InHand, SavedStands

LEMMA RingSteps ==
  ASSUME SecretsInv, NEW p \in Replicas, Rotate(p) \/ DropOld(p)
  PROVE  SecretsInv' /\ NoWayBack
<1>1. PICK ks \in {Rotated, NewOnly} :
        /\ Restart(p, ks)
        /\ \/ ks = Rotated /\ ring[p].key = Old
           \/ ks = NewOnly /\ stage = "rewritten" /\ ring[p] = Rotated
  BY DEF Rotate, DropOld
<1>2. /\ ring' = [ring EXCEPT ![p] = ks] /\ saving' = [saving EXCEPT ![p] = NotSaving]
      /\ UNCHANGED <<column, pref, hash, vector, rewrite, stage, secretPast>>
  BY <1>1 DEF Restart
<1>3. /\ Rotated \in [key : {Old, New}, previous : SUBSET {Old}]
      /\ NewOnly \in [key : {Old, New}, previous : SUBSET {Old}]
      /\ Rotated # NewOnly /\ Rotated.key = New /\ NewOnly.key = New
      /\ Rotated.previous = {Old} /\ OldOnly.key = Old /\ NewOnly.previous = {}
      /\ NotSaving \in [pc : {"idle", "read"}, chat : Nat, other : Nat, key : {Old, New}]
      /\ Old # New
  BY DEF Rotated, NewOnly, OldOnly, NotSaving, Old, New
<1>4. ring \in [Replicas -> [key : {Old, New}, previous : SUBSET {Old}]]
  BY DEF SecretsInv, SecretsTypeOK
<1>5. ring'[p] = ks /\ \A q \in Replicas \ {p} : ring'[q] = ring[q]
  BY <1>2, <1>4
<1>6. SecretsTypeOK'
  BY <1>2, <1>3 DEF SecretsInv, SecretsTypeOK
<1>7. RingsInTurn'
  BY <1>1, <1>2, <1>3, <1>5 DEF SecretsInv, RingsInTurn
<1>8. PassedAreNew' /\ InHand' /\ SavedStands' /\ PreferencesStand'
  BY <1>2 DEF SecretsInv, PassedAreNew, InHand, SavedStands, PreferencesStand
<1>9. NoWayBack
  <2>1. hash \in {Old, New}
    BY DEF SecretsInv, SecretsTypeOK
  <2>2. Reads(ring[p], hash) /\ ~Reads(ring'[p], hash) => stage = "rewritten"
    BY <1>1, <1>3, <1>5, <2>1 DEF Reads
  <2>. QED
    BY <1>2, <1>3, <1>5, <2>2 DEF NoWayBack
<1>. QED
  BY <1>6, <1>7, <1>8, <1>9 DEF SecretsInv

LEMMA RewriteSteps ==
  ASSUME SecretsInv, Reencrypt \/ Select \/ RewriteCache \/ RewriteDies
  PROVE  SecretsInv' /\ NoWayBack
<1>1. /\ rewrite \in [pc : {"idle", "select", "commit"}, at : DOMAIN Order, read : Nat, there : BOOLEAN]
      /\ column \in [Encrypted -> SecretRows] /\ secretPast \in Pasts /\ stage \in {"before", "rewritten"}
      /\ vector \in [there : BOOLEAN, key : {Old, New}]
  BY DEF SecretsInv, SecretsTypeOK
<1>2. UNCHANGED <<ring, column, pref, hash, saving>>
  BY DEF Reencrypt, Select, RewriteCache, RewriteDies
<1>3. NoWayBack
  BY <1>2 DEF NoWayBack, Old, New
<1>4. CASE Reencrypt
  <2>1. /\ \A p \in Replicas : ring[p] = Rotated
        /\ stage = "before" /\ UNCHANGED <<stage, vector, secretPast>>
        /\ rewrite' = [rewrite EXCEPT !.pc = "select", !.at = 1]
    BY <1>4 DEF Reencrypt
  <2>7. 1 \in DOMAIN Order
    BY OrderOfRewrite
  <2>2. /\ rewrite'.pc = "select" /\ rewrite'.at = 1
        /\ rewrite' \in [pc : {"idle", "select", "commit"}, at : DOMAIN Order, read : Nat, there : BOOLEAN]
    BY <1>1, <2>1, <2>7
  <2>3. SecretsTypeOK'
    BY <1>2, <2>1, <2>2 DEF SecretsInv, SecretsTypeOK
  <2>4. RingsInTurn'
    BY <1>2, <2>1, <2>2 DEF RingsInTurn, Rotated, NewOnly, OldOnly
  <2>5. PassedAreNew'
    BY <1>2, <2>1, <2>2, OrderOfRewrite DEF PassedAreNew
  <2>6. InHand' /\ SavedStands' /\ PreferencesStand'
    BY <1>2, <2>1, <2>2 DEF SecretsInv, InHand, SavedStands, PreferencesStand
  <2>. QED
    BY <1>3, <2>3, <2>4, <2>5, <2>6 DEF SecretsInv
<1>5. CASE Select
  <2>. DEFINE m == Order[rewrite.at]
  <2>1. /\ rewrite.pc = "select" /\ m \in Encrypted /\ UNCHANGED <<stage, vector>>
        /\ rewrite' = [rewrite EXCEPT !.pc = "commit", !.read = column[m].value,
                                      !.there = column[m].there]
        /\ secretPast' = [secretPast EXCEPT !.window = {}]
    BY <1>5 DEF Select
  <2>2. rewrite.at \in DOMAIN Models /\ m = Models[rewrite.at]
    BY <1>1, <2>1, OrderOfRewrite
  <2>3. column[m].value \in Nat /\ column[m].there \in BOOLEAN
    BY <1>1, <2>1 DEF SecretRows
  <2>4. /\ secretPast' \in Pasts /\ secretPast'.saved = secretPast.saved
        /\ secretPast'.raced = secretPast.raced /\ secretPast'.fields = secretPast.fields
        /\ secretPast'.merged = secretPast.merged
    BY <1>1, <2>1, PastsUpdated
  <2>. HIDE DEF m
  <2>5. /\ rewrite'.pc = "commit" /\ rewrite'.at = rewrite.at /\ rewrite'.read = column[m].value
        /\ rewrite'.there = column[m].there
        /\ rewrite' \in [pc : {"idle", "select", "commit"}, at : DOMAIN Order, read : Nat, there : BOOLEAN]
    BY <1>1, <2>1, <2>3
  <2>6. SecretsTypeOK'
    BY <1>2, <2>1, <2>4, <2>5 DEF SecretsInv, SecretsTypeOK
  <2>7. RingsInTurn' /\ PassedAreNew' /\ SavedStands' /\ PreferencesStand'
    BY <1>2, <2>1, <2>4, <2>5 DEF SecretsInv, RingsInTurn, PassedAreNew, SavedStands, PreferencesStand
  <2>8. InHand'
    BY <1>2, <2>1, <2>2, <2>4, <2>5 DEF SecretsInv, InHand, SavedStands
  <2>. QED
    BY <1>3, <2>6, <2>7, <2>8 DEF SecretsInv
<1>6. CASE RewriteCache
  <2>1. /\ rewrite.pc = "select" /\ Order[rewrite.at] = "EmbeddingCache"
        /\ rewrite' = [rewrite EXCEPT !.pc = "idle"] /\ stage' = "rewritten" /\ UNCHANGED secretPast
        /\ vector' = [vector EXCEPT !.key = New] \/ vector' = vector
    BY <1>6 DEF RewriteCache
  <2>2. /\ rewrite'.pc = "idle"
        /\ rewrite' \in [pc : {"idle", "select", "commit"}, at : DOMAIN Order, read : Nat, there : BOOLEAN]
        /\ vector' \in [there : BOOLEAN, key : {Old, New}]
    BY <1>1, <2>1
  <2>3. SecretsTypeOK'
    BY <1>2, <2>1, <2>2 DEF SecretsInv, SecretsTypeOK
  <2>4. RingsInTurn'
    BY <1>2, <2>1, <2>2 DEF SecretsInv, RingsInTurn
  <2>5. PassedAreNew'
    <3>1. rewrite.at = Len(Models) + 1
      BY <1>1, <2>1, OrderOfRewrite
    <3>2. \A i \in DOMAIN Models : i < rewrite.at
      BY <3>1, OrderOfRewrite
    <3>3. \A n \in Encrypted : column[n].there => column[n].key = New
      BY <2>1, <3>2, OrderOfRewrite DEF SecretsInv, PassedAreNew
    <3>. QED
      BY <1>2, <2>2, <3>3 DEF PassedAreNew
  <2>6. InHand' /\ SavedStands' /\ PreferencesStand'
    BY <1>2, <2>1, <2>2 DEF SecretsInv, InHand, SavedStands, PreferencesStand
  <2>. QED
    BY <1>3, <2>3, <2>4, <2>5, <2>6 DEF SecretsInv
<1>7. CASE RewriteDies
  <2>1. /\ rewrite' = [rewrite EXCEPT !.pc = "idle"] /\ UNCHANGED <<stage, vector>>
        /\ secretPast' = [secretPast EXCEPT !.faults = @ + 1]
    BY <1>7 DEF RewriteDies
  <2>2. /\ rewrite'.pc = "idle"
        /\ rewrite' \in [pc : {"idle", "select", "commit"}, at : DOMAIN Order, read : Nat, there : BOOLEAN]
    BY <1>1, <2>1
  <2>3. secretPast.faults + 1 \in Nat /\ secretPast' = [secretPast EXCEPT !.faults = secretPast.faults + 1]
    BY <1>1, <2>1 DEF Pasts
  <2>4. /\ secretPast' \in Pasts /\ secretPast'.saved = secretPast.saved
        /\ secretPast'.raced = secretPast.raced /\ secretPast'.fields = secretPast.fields
        /\ secretPast'.merged = secretPast.merged
    BY <1>1, <2>3, PastsUpdated
  <2>5. SecretsTypeOK'
    BY <1>2, <2>1, <2>2, <2>4 DEF SecretsInv, SecretsTypeOK
  <2>6. RingsInTurn' /\ PassedAreNew' /\ InHand' /\ SavedStands' /\ PreferencesStand'
    BY <1>2, <2>1, <2>2, <2>4
       DEF SecretsInv, RingsInTurn, PassedAreNew, InHand, SavedStands, PreferencesStand
  <2>. QED
    BY <1>3, <2>5, <2>6 DEF SecretsInv
<1>. QED
  BY <1>4, <1>5, <1>6, <1>7

LEMMA ColumnsUpdated ==
  \A r \in SecretRows, v \in Nat, k \in {Old, New} :
    LET c == [r EXCEPT !.value = v, !.key = k] IN
      c \in SecretRows /\ c.value = v /\ c.key = k /\ c.there = r.there
<1>. SUFFICES ASSUME NEW r \in SecretRows, NEW v \in Nat, NEW k \in {Old, New}
              PROVE  LET c == [r EXCEPT !.value = v, !.key = k] IN
                       c \in SecretRows /\ c.value = v /\ c.key = k /\ c.there = r.there
  OBVIOUS
<1>. DEFINE c == [r EXCEPT !.value = v, !.key = k]
<1>1. c \in SecretRows
  BY DEF SecretRows
<1>2. c.value = v /\ c.key = k /\ c.there = r.there
  BY DEF SecretRows
<1>. QED
  BY <1>1, <1>2

LEMMA CommitStep ==
  ASSUME SecretsInv, CommitRewrite
  PROVE  SecretsInv' /\ NoWayBack
<1>. DEFINE m == Order[rewrite.at]
<1>1. /\ rewrite \in [pc : {"idle", "select", "commit"}, at : DOMAIN Order, read : Nat, there : BOOLEAN]
      /\ column \in [Encrypted -> SecretRows] /\ secretPast \in Pasts
  BY DEF SecretsInv, SecretsTypeOK
<1>2. rewrite.pc = "commit" /\ UNCHANGED <<ring, pref, hash, vector, stage, saving>>
  BY DEF CommitRewrite
<1>3. /\ rewrite.at \in DOMAIN Models /\ m = Models[rewrite.at] /\ m \in Encrypted
      /\ ~rewrite.there => ~column[m].there
      /\ column[m].there => rewrite.read = secretPast.saved[m] \/ m \in secretPast.raced \cup secretPast.window
      /\ rewrite.read \in Nat /\ rewrite.at \in Nat /\ rewrite.at + 1 \in DOMAIN Order
  BY <1>1, <1>2, OrderOfRewrite DEF SecretsInv, InHand
<1>4. CASE rewrite.there /\ ~column[m].there
  <2>1. rewrite' = [rewrite EXCEPT !.pc = "idle"] /\ UNCHANGED <<column, secretPast>>
    BY <1>4 DEF CommitRewrite
  <2>. HIDE DEF m
  <2>2. /\ rewrite'.pc = "idle"
        /\ rewrite' \in [pc : {"idle", "select", "commit"}, at : DOMAIN Order, read : Nat, there : BOOLEAN]
    BY <1>1, <2>1
  <2>3. SecretsTypeOK'
    BY <1>2, <2>1, <2>2 DEF SecretsInv, SecretsTypeOK
  <2>4. RingsInTurn' /\ PassedAreNew' /\ InHand' /\ SavedStands' /\ PreferencesStand'
    BY <1>2, <2>1, <2>2
       DEF SecretsInv, RingsInTurn, PassedAreNew, InHand, SavedStands, PreferencesStand
  <2>5. NoWayBack
    BY <1>2, <2>1 DEF NoWayBack, Old, New
  <2>. QED
    BY <2>3, <2>4, <2>5 DEF SecretsInv
<1>5. CASE ~(rewrite.there /\ ~column[m].there)
  <2>1. /\ rewrite' = [rewrite EXCEPT !.pc = "select", !.at = rewrite.at + 1]
        /\ column' = IF rewrite.there
                        THEN [column EXCEPT ![m] = [column[m] EXCEPT !.value = rewrite.read, !.key = New]]
                        ELSE column
        /\ secretPast' = [secretPast EXCEPT !.raced = secretPast.raced \cup secretPast.window]
    BY <1>1, <1>3, <1>5 DEF CommitRewrite, Goes
  <2>. HIDE DEF m
  <2>2. /\ rewrite'.pc = "select" /\ rewrite'.at = rewrite.at + 1
        /\ rewrite' \in [pc : {"idle", "select", "commit"}, at : DOMAIN Order, read : Nat, there : BOOLEAN]
    BY <1>1, <1>3, <2>1
  <2>3. secretPast.raced \subseteq Encrypted /\ secretPast.window \subseteq Encrypted
    BY <1>1 DEF Pasts
  <2>4. /\ secretPast' \in Pasts /\ secretPast'.saved = secretPast.saved
        /\ secretPast'.raced = secretPast.raced \cup secretPast.window
        /\ secretPast'.fields = secretPast.fields /\ secretPast'.merged = secretPast.merged
    BY <1>1, <2>1, <2>3, PastsUpdated
  <2>5. LET c == [column[m] EXCEPT !.value = rewrite.read, !.key = New] IN
          /\ c \in SecretRows /\ c.value = rewrite.read /\ c.key = New /\ c.there = column[m].there
    BY <1>1, <1>3, ColumnsUpdated
  <2>6. /\ column' \in [Encrypted -> SecretRows]
        /\ \A n \in Encrypted \ {m} : column'[n] = column[n]
        /\ column'[m].there = column[m].there
        /\ column[m].there => column'[m].value = rewrite.read
        /\ column'[m].there => column'[m].key = New
        /\ column'[m].key = New \/ column'[m] = column[m]
    BY <1>1, <1>3, <2>1, <2>5
  <2>7. SecretsTypeOK'
    BY <1>2, <2>2, <2>4, <2>6 DEF SecretsInv, SecretsTypeOK
  <2>8. RingsInTurn'
    BY <1>2, <2>2 DEF SecretsInv, RingsInTurn
  <2>9. PassedAreNew'
    <3>1. stage = "before"
      BY <1>2 DEF SecretsInv, RingsInTurn
    <3>2. ASSUME NEW i \in DOMAIN Models, i < rewrite.at + 1, column'[Models[i]].there
          PROVE  column'[Models[i]].key = New
      <4>1. CASE Models[i] = m
        BY <2>6, <3>2, <4>1
      <4>2. CASE Models[i] # m
        <5>1. i < rewrite.at /\ Models[i] \in Encrypted
          BY <1>3, <3>2, <4>2, OrderOfRewrite
        <5>. QED
          BY <1>2, <2>6, <3>2, <4>2, <5>1 DEF SecretsInv, PassedAreNew
      <4>. QED
        BY <4>1, <4>2
    <3>. QED
      BY <1>2, <2>2, <3>1, <3>2 DEF PassedAreNew
  <2>10. SavedStands'
    <3>1. ASSUME NEW n \in Encrypted, column'[n].there, column'[n].value # secretPast'.saved[n]
          PROVE  n \in secretPast'.raced
      <4>1. CASE n = m
        BY <1>3, <2>4, <2>6, <3>1, <4>1
      <4>2. CASE n # m
        BY <2>4, <2>6, <3>1, <4>2 DEF SecretsInv, SavedStands
      <4>. QED
        BY <4>1, <4>2
    <3>. QED
      BY <3>1 DEF SavedStands
  <2>11. InHand' /\ PreferencesStand'
    BY <1>2, <2>2, <2>4 DEF SecretsInv, InHand, PreferencesStand
  <2>12. NoWayBack
    BY <1>2, <2>6 DEF NoWayBack, Old, New
  <2>. QED
    BY <2>7, <2>8, <2>9, <2>10, <2>11, <2>12 DEF SecretsInv
<1>. QED
  BY <1>4, <1>5

LEMMA SaveStep ==
  ASSUME SecretsInv, NEW p \in Replicas, NEW m \in Encrypted, SaveSecret(p, m)
  PROVE  SecretsInv' /\ NoWayBack
<1>. DEFINE w == IF rewrite.pc = "commit" /\ Order[rewrite.at] = m
                   THEN secretPast.window \cup {m} ELSE secretPast.window
            n == secretPast.saves + 1
            f == [secretPast.saved EXCEPT ![m] = n]
            x == secretPast.raced \ {m}
<1>1. /\ rewrite \in [pc : {"idle", "select", "commit"}, at : DOMAIN Order, read : Nat, there : BOOLEAN]
      /\ column \in [Encrypted -> SecretRows] /\ secretPast \in Pasts
      /\ ring[p] \in [key : {Old, New}, previous : SUBSET {Old}] /\ stage \in {"before", "rewritten"}
  BY DEF SecretsInv, SecretsTypeOK
<1>2. /\ column[m].there /\ UNCHANGED <<ring, pref, hash, vector, rewrite, stage, saving>>
      /\ column' = [column EXCEPT ![m] = [column[m] EXCEPT !.value = n, !.key = ring[p].key]]
      /\ secretPast' = [secretPast EXCEPT !.saves = n, !.saved = f, !.window = w, !.raced = x]
  BY <1>1 DEF SaveSecret
<1>3. /\ n \in Nat /\ ring[p].key \in {Old, New} /\ secretPast.saved \in [Encrypted -> Nat]
      /\ w \in SUBSET Encrypted /\ secretPast.window \subseteq w
      /\ f \in [Encrypted -> Nat] /\ x \in SUBSET Encrypted /\ column[m] \in SecretRows
  BY <1>1 DEF Pasts
<1>5. rewrite.pc = "commit" /\ Order[rewrite.at] = m => m \in w
  OBVIOUS
<1>. HIDE DEF w, n, f, x
<1>4. /\ secretPast' \in Pasts /\ secretPast'.window = w /\ secretPast'.raced = x
      /\ secretPast'.saved = f
      /\ secretPast'.fields = secretPast.fields /\ secretPast'.merged = secretPast.merged
  BY <1>1, <1>2, <1>3 DEF Pasts
<1>6. LET c == [column[m] EXCEPT !.value = n, !.key = ring[p].key] IN
        c \in SecretRows /\ c.value = n /\ c.key = ring[p].key /\ c.there = column[m].there
  BY <1>3 DEF SecretRows
<1>7. /\ column' \in [Encrypted -> SecretRows]
      /\ \A k \in Encrypted \ {m} : column'[k] = column[k] /\ secretPast'.saved[k] = secretPast.saved[k]
      /\ column'[m].value = n /\ secretPast'.saved[m] = n
      /\ column'[m].key = ring[p].key /\ column'[m].there
      /\ secretPast'.raced = secretPast.raced \ {m}
  BY <1>1, <1>2, <1>3, <1>4, <1>6 DEF f, x
<1>8. SecretsTypeOK'
  BY <1>2, <1>4, <1>7 DEF SecretsInv, SecretsTypeOK
<1>9. RingsInTurn'
  BY <1>2 DEF SecretsInv, RingsInTurn
<1>10. PassedAreNew'
  <2>1. rewrite.pc # "idle" \/ stage = "rewritten" => column'[m].key = New
    BY <1>7 DEF SecretsInv, RingsInTurn
  <2>. QED
    BY <1>2, <1>7, <2>1, OrderOfRewrite DEF SecretsInv, PassedAreNew
<1>11. SavedStands'
  BY <1>4, <1>7 DEF SecretsInv, SavedStands
<1>12. InHand'
  <2>. SUFFICES ASSUME rewrite.pc = "commit"
                PROVE  /\ rewrite.at \in DOMAIN Models
                       /\ ~rewrite.there => ~column'[Models[rewrite.at]].there
                       /\ column'[Models[rewrite.at]].there =>
                            \/ rewrite.read = secretPast'.saved[Models[rewrite.at]]
                            \/ Models[rewrite.at] \in secretPast'.raced \cup secretPast'.window
    BY <1>2 DEF InHand
  <2>1. rewrite.at \in DOMAIN Models /\ Order[rewrite.at] = Models[rewrite.at] /\ Models[rewrite.at] \in Encrypted
    BY OrderOfRewrite DEF SecretsInv, InHand
  <2>2. CASE Models[rewrite.at] = m
    BY <1>2, <1>4, <1>5, <2>1, <2>2 DEF SecretsInv, InHand
  <2>3. CASE Models[rewrite.at] # m
    BY <1>3, <1>4, <1>7, <2>1, <2>3 DEF SecretsInv, InHand
  <2>. QED
    BY <2>2, <2>3
<1>13. PreferencesStand'
  BY <1>2, <1>4 DEF SecretsInv, PreferencesStand
<1>14. NoWayBack
  <2>1. \A k \in Encrypted : column[k].key = New /\ column'[k].key = Old => \E q \in Replicas : ring[q].key = Old
    BY <1>7 DEF Old, New
  <2>. QED
    BY <1>2, <2>1 DEF NoWayBack
<1>. QED
  BY <1>8, <1>9, <1>10, <1>11, <1>12, <1>13, <1>14 DEF SecretsInv

LEMMA DeleteStep ==
  ASSUME SecretsInv, NEW p \in Replicas, NEW m \in Encrypted, DeleteRow(p, m)
  PROVE  SecretsInv' /\ NoWayBack
<1>1. /\ column \in [Encrypted -> SecretRows]
      /\ column' = [column EXCEPT ![m] = NoSecret]
      /\ UNCHANGED <<ring, pref, hash, vector, rewrite, stage, saving, secretPast>>
  BY DEF SecretsInv, SecretsTypeOK, DeleteRow
<1>2. NoSecret \in SecretRows /\ ~NoSecret.there /\ NoSecret.key = New
  BY DEF NoSecret, SecretRows
<1>3. /\ column' \in [Encrypted -> SecretRows] /\ column'[m] = NoSecret
      /\ \A k \in Encrypted \ {m} : column'[k] = column[k]
  BY <1>1, <1>2
<1>4. \A k \in Encrypted : column'[k].there => column'[k] = column[k] /\ column[k].there
  BY <1>2, <1>3
<1>5. SecretsTypeOK'
  BY <1>1, <1>3 DEF SecretsInv, SecretsTypeOK
<1>6. RingsInTurn' /\ SavedStands' /\ PreferencesStand'
  BY <1>1, <1>4 DEF SecretsInv, RingsInTurn, SavedStands, PreferencesStand
<1>7. PassedAreNew'
  BY <1>1, <1>4, OrderOfRewrite DEF SecretsInv, PassedAreNew
<1>8. InHand'
  BY <1>1, <1>4, OrderOfRewrite DEF SecretsInv, InHand
<1>9. NoWayBack
  BY <1>1, <1>2, <1>3 DEF NoWayBack, Old, New
<1>. QED
  BY <1>5, <1>6, <1>7, <1>8, <1>9 DEF SecretsInv

LEMMA PreferencesStep ==
  ASSUME SecretsInv, NEW p \in Replicas, NEW part \in {"chat", "other"}, UpdatePreferences(p, part)
  PROVE  SecretsInv' /\ NoWayBack
<1>. DEFINE n == secretPast.saves + 1
            f == [secretPast.fields EXCEPT ![part] = n]
            g == secretPast.merged \/ saving[p].chat # pref.chat \/ saving[p].other # pref.other
<1>1. /\ ring[p] \in [key : {Old, New}, previous : SUBSET {Old}]
      /\ pref \in [key : {Old, New}, chat : Nat, other : Nat]
      /\ saving \in [Replicas -> [pc : {"idle", "read"}, chat : Nat, other : Nat, key : {Old, New}]]
      /\ secretPast \in Pasts
  BY DEF SecretsInv, SecretsTypeOK
<1>2. /\ UNCHANGED <<ring, column, hash, vector, rewrite, stage>>
      /\ pref' = Merged(p, part) /\ saving' = [saving EXCEPT ![p] = NotSaving]
      /\ secretPast' = [secretPast EXCEPT !.saves = n, !.fields = f, !.merged = g]
  BY DEF UpdatePreferences
<1>3. /\ n \in Nat /\ secretPast.fields \in [chat : Nat, other : Nat]
      /\ f \in [chat : Nat, other : Nat] /\ g \in BOOLEAN /\ secretPast.merged \in BOOLEAN
  BY <1>1 DEF Pasts
<1>4. g \/ (/\ saving[p].chat = pref.chat /\ saving[p].other = pref.other /\ ~secretPast.merged)
  OBVIOUS
<1>5. /\ part = "chat" => f.chat = n /\ f.other = secretPast.fields.other
      /\ part = "other" => f.other = n /\ f.chat = secretPast.fields.chat
      /\ f = [chat |-> f.chat, other |-> f.other]
  BY <1>3
<1>6. /\ Merged(p, part) \in [key : {Old, New}, chat : Nat, other : Nat]
      /\ part = "chat" => Merged(p, part).chat = n /\ Merged(p, part).other = saving[p].other
      /\ part = "other" => Merged(p, part).other = n /\ Merged(p, part).chat = saving[p].chat
  <2>1. saving[p].chat \in Nat /\ saving[p].other \in Nat /\ saving[p].key \in {Old, New} /\ ring[p].key \in {Old, New}
    BY <1>1
  <2>2. CASE part = "chat"
    BY <1>3, <2>1, <2>2 DEF Merged
  <2>3. CASE part = "other"
    BY <1>3, <2>1, <2>3 DEF Merged
  <2>. QED
    BY <2>2, <2>3
<1>. HIDE DEF n, f, g
<1>7. /\ secretPast' \in Pasts /\ secretPast'.saved = secretPast.saved
      /\ secretPast'.raced = secretPast.raced /\ secretPast'.window = secretPast.window
      /\ secretPast'.fields = f /\ secretPast'.merged = g
  BY <1>1, <1>2, <1>3 DEF Pasts
<1>8. saving' \in [Replicas -> [pc : {"idle", "read"}, chat : Nat, other : Nat, key : {Old, New}]]
  BY <1>1, <1>2 DEF NotSaving, Old, New
<1>9. SecretsTypeOK'
  BY <1>2, <1>6, <1>7, <1>8 DEF SecretsInv, SecretsTypeOK
<1>10. PreferencesStand'
  <2>1. CASE g
    BY <1>7, <2>1 DEF PreferencesStand
  <2>2. CASE ~g
    <3>1. secretPast.fields.chat = pref.chat /\ secretPast.fields.other = pref.other
      BY <1>4, <2>2 DEF SecretsInv, PreferencesStand
    <3>2. f.chat = pref'.chat /\ f.other = pref'.other
      BY <1>2, <1>4, <1>5, <1>6, <2>2, <3>1
    <3>. QED
      BY <1>5, <1>7, <3>2 DEF PreferencesStand
  <2>. QED
    BY <2>1, <2>2
<1>11. RingsInTurn' /\ PassedAreNew' /\ InHand' /\ SavedStands'
  BY <1>2, <1>7, SecretsStill
<1>12. NoWayBack
  BY <1>2 DEF NoWayBack, Old, New
<1>. QED
  BY <1>9, <1>10, <1>11, <1>12 DEF SecretsInv

\* Steps that touch neither a column nor the rotation.
LEMMA OtherSecretSteps ==
  ASSUME SecretsInv,
         \/ PurgeVectors \/ UNCHANGED secretsVars
         \/ \E p \in Replicas : ReadPreferences(p) \/ PutVector(p) \/ NewApiKey(p)
  PROVE  SecretsInv' /\ NoWayBack
<1>1. UNCHANGED <<ring, column, pref, rewrite, stage, secretPast>>
  BY DEF PurgeVectors, secretsVars, ReadPreferences, PutVector, NewApiKey
<1>2. /\ ring \in [Replicas -> [key : {Old, New}, previous : SUBSET {Old}]]
      /\ pref \in [key : {Old, New}, chat : Nat, other : Nat] /\ hash \in {Old, New}
      /\ vector \in [there : BOOLEAN, key : {Old, New}]
      /\ saving \in [Replicas -> [pc : {"idle", "read"}, chat : Nat, other : Nat, key : {Old, New}]]
  BY DEF SecretsInv, SecretsTypeOK
<1>3. /\ hash' \in {Old, New} /\ vector' \in [there : BOOLEAN, key : {Old, New}]
      /\ saving' \in [Replicas -> [pc : {"idle", "read"}, chat : Nat, other : Nat, key : {Old, New}]]
  <2>1. CASE PurgeVectors
    BY <1>2, <2>1 DEF PurgeVectors
  <2>2. ASSUME NEW p \in Replicas, ReadPreferences(p) PROVE <1>3
    BY <1>2, <2>2 DEF ReadPreferences
  <2>3. ASSUME NEW p \in Replicas, PutVector(p) PROVE <1>3
    BY <1>2, <2>3 DEF PutVector
  <2>4. ASSUME NEW p \in Replicas, NewApiKey(p) PROVE <1>3
    BY <1>2, <2>4 DEF NewApiKey
  <2>. QED
    BY <1>2, <2>1, <2>2, <2>3, <2>4 DEF secretsVars
<1>4. SecretsTypeOK'
  BY <1>1, <1>3 DEF SecretsInv, SecretsTypeOK
<1>5. RingsInTurn' /\ PassedAreNew' /\ InHand' /\ SavedStands' /\ PreferencesStand'
  BY <1>1, SecretsStill DEF SecretsInv, PreferencesStand
<1>6. NoWayBack
  <2>1. \A p \in Replicas : Reads(ring[p], hash) /\ ~Reads(ring'[p], hash) => stage = "rewritten"
    BY <1>1
  <2>. QED
    BY <1>1, <2>1 DEF NoWayBack, Old, New
<1>. QED
  BY <1>4, <1>5, <1>6 DEF SecretsInv

LEMMA SecretsStep ==
  SecretsInv /\ [SecretsNext]_secretsVars => SecretsInv' /\ NoWayBack
BY RingSteps, RewriteSteps, CommitStep, SaveStep, DeleteStep, PreferencesStep, OtherSecretSteps
   DEF SecretsNext

\* Encrypted columns are readable by every process through a rotation, whatever is
\* saved, deleted or dies meanwhile; what is saved stands, or has the cause named;
\* and nothing goes back to the old key.
THEOREM SecretsAreKept == SecretsSpec => SecretsHold
<1>1. SecretsInit => SecretsInv
  <2>. SUFFICES ASSUME SecretsInit PROVE SecretsInv
    OBVIOUS
  <2>1. 1 \in DOMAIN Order
    BY OrderOfRewrite
  <2>2. SecretsTypeOK
    <3>1. ring \in [Replicas -> [key : {Old, New}, previous : SUBSET {Old}]]
      BY DEF SecretsInit
    <3>2. column \in [Encrypted -> SecretRows] /\ pref \in [key : {Old, New}, chat : Nat, other : Nat]
      BY DEF SecretsInit, SecretRows
    <3>3. hash \in {Old, New} /\ vector \in [there : BOOLEAN, key : {Old, New}]
      BY DEF SecretsInit
    <3>4. /\ rewrite \in [pc : {"idle", "select", "commit"}, at : DOMAIN Order, read : Nat, there : BOOLEAN]
          /\ stage \in {"before", "rewritten"}
      BY <2>1 DEF SecretsInit
    <3>5. saving \in [Replicas -> [pc : {"idle", "read"}, chat : Nat, other : Nat, key : {Old, New}]]
      BY DEF SecretsInit, NotSaving
    <3>6. secretPast \in Pasts
      BY DEF SecretsInit, Pasts
    <3>. QED
      BY <3>1, <3>2, <3>3, <3>4, <3>5, <3>6 DEF SecretsTypeOK
  <2>3. RingsInTurn /\ PassedAreNew /\ InHand /\ SavedStands
    BY DEF SecretsInit, RingsInTurn, PassedAreNew, InHand, SavedStands, OldOnly, NewOnly, Old, New
  <2>4. PreferencesStand
    BY DEF SecretsInit, PreferencesStand
  <2>. QED
    BY <2>2, <2>3, <2>4 DEF SecretsInv
<1>2. SecretsInv => ColumnsReadable /\ SavedStands /\ PreferencesStand
  <2>. SUFFICES ASSUME SecretsInv, NEW p \in Replicas, NEW m \in Encrypted, column[m].there,
                       ~Reads(ring[p], column[m].key)
                PROVE  ring[p].key = Old
    BY DEF SecretsInv, ColumnsReadable
  <2>1. column[m].key \in {Old, New} /\ ring[p] \in {OldOnly, Rotated, NewOnly}
    BY DEF SecretsInv, SecretsTypeOK, SecretRows, RingsInTurn
  <2>2. CASE ring[p] = NewOnly
    <3>1. column[m].key = New
      BY <2>2 DEF SecretsInv, RingsInTurn, PassedAreNew
    <3>. QED
      BY <2>2, <3>1 DEF Reads, NewOnly
  <2>3. CASE ring[p] = Rotated
    BY <2>1, <2>3 DEF Reads, Rotated
  <2>4. CASE ring[p] = OldOnly
    BY <2>4 DEF OldOnly
  <2>. QED
    BY <2>1, <2>2, <2>3, <2>4
<1>. QED
  BY <1>1, <1>2, SecretsStep, PTL DEF SecretsSpec, SecretsHold

------------------------------------------------------------------------------
(* Sources, for any ids, buckets, keys, endpoints and requests.              *)

\* What a request saves has been accepted by S3.
SavesProbed == \A r \in Askers : sourceReq[r].pc = "save" => sourceReq[r].want \in probed

\* A sync whose source was not edited has the bucket that the source has.
SyncFollows ==
  sync \in Syncs /\ ~sync.edited /\ ~sync.from =>
    sync.id \notin raced /\ sync.bucket = sourceRows[sync.id].meta.bucket

RootsApart ==
  \A i, j \in SourceIds : There(i) /\ There(j) /\ sourceRows[i].root = sourceRows[j].root => i = j

SourcesInv ==
  SourcesTypeOK /\ SavesProbed /\ SyncFollows /\ RootsApart /\ ProbedTogether /\ SyncUsesProbed

\* What a request writes is a row.
LEMMA WrittenColumns ==
  /\ \A want \in Config : Of(want) \in Columns
  /\ \A now, loaded \in Columns, want \in Config : Written(now, loaded, Of(want)) \in Columns
  /\ \A loaded \in Columns, want \in Config : Written(loaded, loaded, Of(want)) = Of(want)
<1>1. ASSUME NEW want \in Config PROVE Of(want) \in Columns
  BY DEF Of, Config, Columns
<1>2. ASSUME NEW now \in Columns, NEW loaded \in Columns, NEW want \in Config
      PROVE  Written(now, loaded, Of(want)) \in Columns
  BY <1>1 DEF Written, Columns
<1>3. ASSUME NEW loaded \in Columns, NEW want \in Config
      PROVE  Written(loaded, loaded, Of(want)) = Of(want)
  <2>1. Written(loaded, loaded, Of(want)) =
          [root |-> Of(want).root, meta |-> Of(want).meta, keys |-> Of(want).keys,
           endpoint |-> Of(want).endpoint]
    BY DEF Written
  <2>. QED
    BY <2>1 DEF Of
<1>. QED
  BY <1>1, <1>2, <1>3

\* Requests and syncs stay of their kinds.
LEMMA RequestKinds ==
  /\ Resting \notin Creations \cup Updates \cup Syncs
  /\ \A q \in Creations : [q EXCEPT !.pc = "save"] \in Creations
  /\ \A q \in Updates : [q EXCEPT !.pc = "save"] \in Updates
  /\ \A q \in Creations \cup Updates :
       /\ [q EXCEPT !.pc = "save"].want = q.want
       /\ q.want \in Config
       /\ q.id # 0 => q \in Updates /\ q.loaded \in Columns /\ q.id \in SourceIds
  /\ \A s \in Syncs :
       /\ s.id \in SourceIds /\ s.bucket \in Buckets
       /\ [s EXCEPT !.edited = TRUE] \in Syncs /\ [s EXCEPT !.edited = TRUE].edited
       /\ [s EXCEPT !.edited = TRUE].used = s.used
       /\ \A u \in SUBSET Config :
            /\ [s EXCEPT !.used = u] \in Syncs
            /\ [s EXCEPT !.used = u].used = u
            /\ [s EXCEPT !.used = u].id = s.id /\ [s EXCEPT !.used = u].bucket = s.bucket
            /\ [s EXCEPT !.used = u].edited = s.edited /\ [s EXCEPT !.used = u].from = s.from
<1>1. Resting \notin Creations \cup Updates \cup Syncs
  BY DEF Resting, Creations, Updates, Syncs
<1>2. \A q \in Creations : [q EXCEPT !.pc = "save"] \in Creations
  BY DEF Creations
<1>3. \A q \in Updates : [q EXCEPT !.pc = "save"] \in Updates
  BY DEF Updates
<1>4. ASSUME NEW q \in Creations
      PROVE  [q EXCEPT !.pc = "save"].want = q.want /\ q.want \in Config /\ q.id = 0
  BY DEF Creations
<1>5. ASSUME NEW q \in Updates
      PROVE  /\ [q EXCEPT !.pc = "save"].want = q.want /\ q.want \in Config
             /\ q.loaded \in Columns /\ q.id \in SourceIds
  BY DEF Updates
<1>6. ASSUME NEW s \in Syncs
      PROVE  /\ s.id \in SourceIds /\ s.bucket \in Buckets
             /\ [s EXCEPT !.edited = TRUE] \in Syncs /\ [s EXCEPT !.edited = TRUE].edited
             /\ [s EXCEPT !.edited = TRUE].used = s.used
  BY DEF Syncs
<1>7. ASSUME NEW s \in Syncs, NEW u \in SUBSET Config
      PROVE  /\ [s EXCEPT !.used = u] \in Syncs
             /\ [s EXCEPT !.used = u].used = u
             /\ [s EXCEPT !.used = u].id = s.id /\ [s EXCEPT !.used = u].bucket = s.bucket
             /\ [s EXCEPT !.used = u].edited = s.edited /\ [s EXCEPT !.used = u].from = s.from
  BY DEF Syncs
<1>. QED
  BY <1>1, <1>2, <1>3, <1>4, <1>5, <1>6, <1>7

\* A request does one of these to the row of a source.
LEMMA PutStep ==
  ASSUME SourcesTypeOK, NEW id \in SourceIds, NEW c \in Columns \cup {Never, Removed}, Put(id, c)
  PROVE  /\ sourceRows' \in [SourceIds -> Columns \cup {Never, Removed}]
         /\ sourceRows'[id] = c
         /\ \A i \in SourceIds \ {id} : sourceRows'[i] = sourceRows[i]
         /\ sync' \in {Resting} \cup Syncs
         /\ \/ sync' = sync /\ (sync \in Syncs => sync.id # id)
            \/ sync' \in Syncs /\ sync'.edited
<1>1. /\ sourceRows \in [SourceIds -> Columns \cup {Never, Removed}]
      /\ sync \in {Resting} \cup Syncs
  BY DEF SourcesTypeOK
<1>2. sourceRows' = [sourceRows EXCEPT ![id] = c]
  BY DEF Put
<1>3. CASE sync # Resting /\ sync.id = id
  BY <1>1, <1>2, <1>3, RequestKinds DEF Put
<1>4. CASE ~(sync # Resting /\ sync.id = id)
  BY <1>1, <1>2, <1>4, RequestKinds DEF Put
<1>. QED
  BY <1>3, <1>4

\* A saved row keeps roots apart, what is stored accepted, and the sync informed.
LEMMA SavedRow ==
  ASSUME SourcesInv, NEW id \in SourceIds, NEW c \in Columns, Put(id, c),
         Root(c.root) \subseteq {id}, UNCHANGED probed,
         raced' \subseteq SourceIds, raced \ {id} \subseteq raced', raced' \subseteq raced \cup {id},
         id \in raced' \/ \E want \in probed : c = Of(want)
  PROVE  RootsApart' /\ ProbedTogether' /\ SyncFollows' /\ SyncUsesProbed'
<1>1. /\ sourceRows' \in [SourceIds -> Columns \cup {Never, Removed}]
      /\ sourceRows'[id] = c
      /\ \A i \in SourceIds \ {id} : sourceRows'[i] = sourceRows[i]
      /\ sync' \in {Resting} \cup Syncs
      /\ \/ sync' = sync /\ (sync \in Syncs => sync.id # id)
         \/ sync' \in Syncs /\ sync'.edited
  BY PutStep DEF SourcesInv
<1>2. probed \subseteq Config /\ sync \in {Resting} \cup Syncs
  BY DEF SourcesInv, SourcesTypeOK
<1>3. RootsApart'
  <2>1. \A i \in SourceIds \ {id} : ~(There(i)' /\ sourceRows'[i].root = c.root)
    BY <1>1 DEF Root, There
  <2>. QED
    BY <1>1, <2>1 DEF SourcesInv, RootsApart, There
<1>4. ProbedTogether'
  <2>1. ASSUME NEW i \in SourceIds \ raced', There(i)', i # id
        PROVE  Stored(i)' \in probed /\ sourceRows'[i].root = sourceRows'[i].meta.bucket
                 /\ sourceRows'[i].meta.endpoint = sourceRows'[i].endpoint
    <3>1. sourceRows'[i] = sourceRows[i] /\ i \in SourceIds \ raced
      BY <1>1, <2>1
    <3>. QED
      BY <2>1, <3>1 DEF SourcesInv, ProbedTogether, There, Stored
  <2>2. ASSUME id \notin raced'
        PROVE  Stored(id)' \in probed /\ sourceRows'[id].root = sourceRows'[id].meta.bucket
                 /\ sourceRows'[id].meta.endpoint = sourceRows'[id].endpoint
    <3>1. PICK want \in probed : c = Of(want)
      BY <2>2
    <3>2. want = [bucket |-> want.bucket, keys |-> want.keys, endpoint |-> want.endpoint]
      BY <1>2 DEF Config
    <3>. QED
      BY <1>1, <3>1, <3>2 DEF Stored, Of
  <2>. QED
    BY <1>1, <2>1, <2>2 DEF ProbedTogether
<1>5. SyncFollows'
  <2>1. CASE sync' = sync /\ (sync \in Syncs => sync.id # id)
    <3>. SUFFICES ASSUME sync \in Syncs, ~sync.edited, ~sync.from
                  PROVE  sync.id \notin raced' /\ sync.bucket = sourceRows'[sync.id].meta.bucket
      BY <2>1 DEF SyncFollows
    <3>1. sync.id \in SourceIds \ {id}
      BY <2>1, RequestKinds
    <3>. QED
      BY <1>1, <3>1 DEF SourcesInv, SyncFollows
  <2>2. CASE sync' \in Syncs /\ sync'.edited
    BY <2>2 DEF SyncFollows
  <2>. QED
    BY <1>1, <2>1, <2>2
<1>6. SyncUsesProbed'
  BY <1>1, <1>2, RequestKinds DEF SourcesInv, SyncUsesProbed
<1>. QED
  BY <1>3, <1>4, <1>5, <1>6

\* The request that ends, and the others.
LEMMA EndedRequest ==
  ASSUME SourcesTypeOK, SavesProbed, NEW r \in Askers, EndRequest(r), probed \subseteq probed'
  PROVE  sourceReq' \in [Askers -> {Resting} \cup Creations \cup Updates] /\ SavesProbed'
<1>1. sourceReq \in [Askers -> {Resting} \cup Creations \cup Updates]
  BY DEF SourcesTypeOK
<1>2. sourceReq' = [sourceReq EXCEPT ![r] = Resting] /\ Resting.pc # "save"
  BY DEF EndRequest, Resting
<1>3. sourceReq'[r] = Resting /\ \A q \in Askers \ {r} : sourceReq'[q] = sourceReq[q]
  BY <1>1, <1>2
<1>. QED
  BY <1>1, <1>2, <1>3 DEF SavesProbed

\* A request that begins.
LEMMA NewRequest ==
  ASSUME SourcesInv, NEW r \in Askers, NEW what \in Creations \cup Updates, what.pc = "probe",
         AskFor(r, what), UNCHANGED <<sourceRows, sync, probed, raced>>
  PROVE  SourcesInv'
<1>1. /\ sourceReq \in [Askers -> {Resting} \cup Creations \cup Updates] /\ made \in Nat
      /\ sourceReq' = [sourceReq EXCEPT ![r] = what] /\ made' = made + 1
  BY DEF SourcesInv, SourcesTypeOK, AskFor
<1>2. sourceReq'[r] = what /\ \A q \in Askers \ {r} : sourceReq'[q] = sourceReq[q]
  BY <1>1
<1>3. SourcesTypeOK'
  BY <1>1 DEF SourcesInv, SourcesTypeOK
<1>4. SavesProbed'
  BY <1>2 DEF SourcesInv, SavesProbed
<1>. QED
  BY <1>3, <1>4 DEF SourcesInv, SyncFollows, RootsApart, There, ProbedTogether, Stored, SyncUsesProbed

\* A request that saves a row.
LEMMA SavingRequest ==
  ASSUME SourcesInv, NEW r \in Askers, NEW id \in SourceIds, NEW c \in Columns, Put(id, c),
         Root(c.root) \subseteq {id}, EndRequest(r), UNCHANGED <<probed, made>>,
         raced' \subseteq SourceIds, raced \ {id} \subseteq raced', raced' \subseteq raced \cup {id},
         id \in raced' \/ \E want \in probed : c = Of(want)
  PROVE  SourcesInv'
<1>1. RootsApart' /\ ProbedTogether' /\ SyncFollows' /\ SyncUsesProbed'
  BY SavedRow
<1>2. sourceReq' \in [Askers -> {Resting} \cup Creations \cup Updates] /\ SavesProbed'
  BY EndedRequest DEF SourcesInv
<1>3. /\ sourceRows' \in [SourceIds -> Columns \cup {Never, Removed}]
      /\ sync' \in {Resting} \cup Syncs
  BY PutStep DEF SourcesInv
<1>4. SourcesTypeOK'
  BY <1>2, <1>3 DEF SourcesInv, SourcesTypeOK
<1>. QED
  BY <1>1, <1>2, <1>4 DEF SourcesInv

LEMMA AskerSteps ==
  ASSUME SourcesInv, NEW r \in Askers,
         \/ Create(r) \/ Probe(r) \/ Insert(r) \/ Adopt(r) \/ Save(r) \/ Refused(r)
         \/ \E id \in SourceIds : Update(r, id)
  PROVE  SourcesInv'
<1>1. /\ sourceReq[r] \in {Resting} \cup Creations \cup Updates
      /\ sourceReq \in [Askers -> {Resting} \cup Creations \cup Updates]
      /\ sourceRows \in [SourceIds -> Columns \cup {Never, Removed}]
      /\ probed \subseteq Config /\ raced \subseteq SourceIds /\ 0 \notin SourceIds
  BY SourcesAssumption DEF SourcesAssumption, SourcesInv, SourcesTypeOK
<1>2. Resting.pc = "idle"
  BY DEF Resting
<1>3. CASE Create(r)
  <2>1. PICK want \in Config : AskFor(r, [pc |-> "probe", id |-> 0, want |-> want])
    BY <1>3 DEF Create
  <2>2. [pc |-> "probe", id |-> 0, want |-> want] \in Creations
    BY DEF Creations
  <2>. QED
    BY <1>3, <2>1, <2>2, NewRequest DEF Create
<1>4. ASSUME NEW id \in SourceIds, Update(r, id) PROVE SourcesInv'
  <2>1. sourceRows[id] \in Columns
    BY <1>1, <1>4 DEF Update, There
  <2>2. PICK b \in Buckets, k \in KeyPairs, e \in Endpoints :
          AskFor(r, [pc |-> "probe", id |-> id, loaded |-> sourceRows[id],
                     want |-> [bucket |-> b, keys |-> k, endpoint |-> e]])
    BY <1>4 DEF Update
  <2>3. [bucket |-> b, keys |-> k, endpoint |-> e] \in Config
    BY DEF Config
  <2>4. [pc |-> "probe", id |-> id, loaded |-> sourceRows[id],
         want |-> [bucket |-> b, keys |-> k, endpoint |-> e]] \in Updates
    BY <2>1, <2>3 DEF Updates
  <2>. QED
    BY <1>4, <2>2, <2>4, NewRequest DEF Update
<1>5. CASE Probe(r)
  <2>1. sourceReq[r] \in Creations \cup Updates
    BY <1>1, <1>2, <1>5 DEF Probe
  <2>2. UNCHANGED <<sourceRows, sync, made, raced>>
    BY <1>5 DEF Probe
  <2>3. CASE probed' = probed \cup {sourceReq[r].want} /\ sourceReq' = [sourceReq EXCEPT ![r].pc = "save"]
    <3>1. /\ sourceReq'[r] = [sourceReq[r] EXCEPT !.pc = "save"]
          /\ \A q \in Askers \ {r} : sourceReq'[q] = sourceReq[q]
          /\ DOMAIN sourceReq' = Askers
          /\ sourceReq' = [q \in Askers |-> sourceReq'[q]]
      BY <1>1, <2>3
    <3>2. sourceReq'[r] \in Creations \cup Updates /\ sourceReq'[r].want = sourceReq[r].want
      BY <2>1, <3>1, RequestKinds
    <3>3. sourceReq' \in [Askers -> {Resting} \cup Creations \cup Updates]
      BY <1>1, <3>1, <3>2
    <3>4. probed' \subseteq Config
      BY <1>1, <2>1, <2>3, RequestKinds
    <3>5. SavesProbed'
      BY <2>3, <3>1, <3>2 DEF SourcesInv, SavesProbed
    <3>6. SourcesTypeOK'
      BY <2>2, <3>3, <3>4 DEF SourcesInv, SourcesTypeOK
    <3>. QED
      BY <2>2, <2>3, <3>5, <3>6
         DEF SourcesInv, SyncFollows, RootsApart, There, ProbedTogether, Stored, SyncUsesProbed
  <2>4. CASE UNCHANGED probed /\ EndRequest(r)
    <3>1. sourceReq' \in [Askers -> {Resting} \cup Creations \cup Updates] /\ SavesProbed'
      BY <2>4, EndedRequest DEF SourcesInv
    <3>2. SourcesTypeOK'
      BY <2>2, <2>4, <3>1 DEF SourcesInv, SourcesTypeOK
    <3>. QED
      BY <2>2, <2>4, <3>1, <3>2
         DEF SourcesInv, SyncFollows, RootsApart, There, ProbedTogether, Stored, SyncUsesProbed
  <2>. QED
    BY <1>5, <2>3, <2>4 DEF Probe
<1>6. ASSUME Creating(r)
      PROVE  /\ sourceReq[r].want \in probed /\ sourceReq[r].want \in Config
             /\ Of(sourceReq[r].want) \in Columns
             /\ Of(sourceReq[r].want).root = sourceReq[r].want.bucket
  <2>1. sourceReq[r].want \in probed
    BY <1>6 DEF Creating, SourcesInv, SavesProbed
  <2>. QED
    BY <1>1, <2>1, WrittenColumns DEF Of
<1>7. CASE Insert(r)
  <2>1. PICK id \in SourceIds : Put(id, Of(sourceReq[r].want))
    BY <1>7 DEF Insert
  <2>2. Creating(r) /\ Root(sourceReq[r].want.bucket) = {} /\ EndRequest(r)
          /\ UNCHANGED <<probed, made, raced>>
    BY <1>7 DEF Insert
  <2>. QED
    BY <1>1, <1>6, <2>1, <2>2, SavingRequest
<1>8. CASE Adopt(r)
  <2>1. PICK id \in Root(sourceReq[r].want.bucket) :
          Put(id, Of(sourceReq[r].want)) /\ raced' = raced \ {id}
    BY <1>8 DEF Adopt
  <2>2. Creating(r) /\ EndRequest(r) /\ UNCHANGED <<probed, made>>
    BY <1>8 DEF Adopt
  <2>3. id \in SourceIds /\ Root(sourceReq[r].want.bucket) \subseteq {id}
    BY <2>1 DEF Root, SourcesInv, RootsApart
  <2>. QED
    BY <1>1, <1>6, <2>1, <2>2, <2>3, SavingRequest
<1>9. CASE Save(r)
  <2>. DEFINE id == sourceReq[r].id
              loaded == sourceReq[r].loaded
              want == sourceReq[r].want
              new == Written(sourceRows[id], loaded, Of(want))
  <2>1. /\ sourceReq[r].pc = "save" /\ id # 0 /\ There(id) /\ Root(new.root) \subseteq {id}
        /\ Put(id, new) /\ EndRequest(r) /\ UNCHANGED <<probed, made>>
        /\ raced' = IF sourceRows[id] = loaded THEN raced ELSE raced \cup {id}
    BY <1>9 DEF Save, Updating
  <2>2. sourceReq[r] \in Creations \cup Updates
    BY <1>1, <1>2, <2>1
  <2>3. id \in SourceIds /\ loaded \in Columns /\ want \in Config /\ want \in probed
    BY <1>1, <2>1, <2>2, RequestKinds DEF SourcesInv, SavesProbed
  <2>4. sourceRows[id] \in Columns
    BY <1>1, <2>1, <2>3 DEF There
  <2>5. new \in Columns /\ (sourceRows[id] = loaded => new = Of(want))
    BY <2>3, <2>4, WrittenColumns
  <2>. HIDE DEF id, loaded, want, new
  <2>6. /\ raced' \subseteq SourceIds /\ raced \ {id} \subseteq raced' /\ raced' \subseteq raced \cup {id}
        /\ id \in raced' \/ \E w \in probed : new = Of(w)
    BY <1>1, <2>1, <2>3, <2>5
  <2>. QED
    BY <2>1, <2>3, <2>5, <2>6, SavingRequest
<1>10. CASE Refused(r)
  <2>1. EndRequest(r) /\ UNCHANGED <<sourceRows, sync, probed, made, raced>>
    BY <1>10 DEF Refused
  <2>2. sourceReq' \in [Askers -> {Resting} \cup Creations \cup Updates] /\ SavesProbed'
    BY <2>1, EndedRequest DEF SourcesInv
  <2>3. SourcesTypeOK'
    BY <2>1, <2>2 DEF SourcesInv, SourcesTypeOK
  <2>. QED
    BY <2>1, <2>2, <2>3
       DEF SourcesInv, SyncFollows, RootsApart, There, ProbedTogether, Stored, SyncUsesProbed
<1>. QED
  BY <1>3, <1>4, <1>5, <1>7, <1>8, <1>9, <1>10

LEMMA DeletedSource ==
  ASSUME SourcesInv, NEW id \in SourceIds, DeleteSource(id)
  PROVE  SourcesInv'
<1>1. Put(id, Removed) /\ UNCHANGED <<sourceReq, probed, raced>> /\ made' = made + 1
  BY DEF DeleteSource
<1>2. /\ sourceRows' \in [SourceIds -> Columns \cup {Never, Removed}]
      /\ sourceRows'[id] = Removed
      /\ \A i \in SourceIds \ {id} : sourceRows'[i] = sourceRows[i]
      /\ sync' \in {Resting} \cup Syncs
      /\ \/ sync' = sync /\ (sync \in Syncs => sync.id # id)
         \/ sync' \in Syncs /\ sync'.edited
  BY <1>1, PutStep DEF SourcesInv
<1>3. SourcesTypeOK'
  BY <1>1, <1>2 DEF SourcesInv, SourcesTypeOK
<1>4. \A i \in SourceIds : There(i)' => i # id
  BY <1>2 DEF There
<1>5. RootsApart' /\ ProbedTogether'
  BY <1>1, <1>2, <1>4 DEF SourcesInv, RootsApart, ProbedTogether, There, Stored
<1>6. SyncFollows' /\ SyncUsesProbed'
  <2>1. CASE sync' = sync /\ (sync \in Syncs => sync.id # id)
    BY <1>1, <1>2, <2>1, RequestKinds DEF SourcesInv, SyncFollows, SyncUsesProbed
  <2>2. CASE sync' \in Syncs /\ sync'.edited
    BY <2>2 DEF SyncFollows, SyncUsesProbed
  <2>. QED
    BY <1>2, <2>1, <2>2
<1>7. SavesProbed'
  BY <1>1 DEF SourcesInv, SavesProbed
<1>. QED
  BY <1>3, <1>5, <1>6, <1>7 DEF SourcesInv

LEMMA SyncSteps ==
  ASSUME SourcesInv, ReadCredential \/ EndSync \/ \E id \in SourceIds : BeginSync(id)
  PROVE  SourcesInv'
<1>1. UNCHANGED <<sourceRows, sourceReq, probed, made, raced>>
  BY DEF ReadCredential, EndSync, BeginSync
<1>2. /\ sourceRows \in [SourceIds -> Columns \cup {Never, Removed}]
      /\ sync \in {Resting} \cup Syncs /\ probed \subseteq Config
  BY DEF SourcesInv, SourcesTypeOK
<1>3. /\ sync' \in {Resting} \cup Syncs
      /\ SyncFollows' /\ SyncUsesProbed'
  <2>1. CASE EndSync
    BY <2>1, RequestKinds DEF EndSync, SyncFollows, SyncUsesProbed
  <2>2. ASSUME NEW id \in SourceIds, BeginSync(id)
        PROVE  <1>3
    <3>1. sync' = [pc |-> "run", id |-> id, bucket |-> sourceRows[id].meta.bucket, used |-> {},
                   edited |-> FALSE, from |-> id \in raced]
      BY <2>2 DEF BeginSync
    <3>2. sourceRows[id].meta.bucket \in Buckets
      BY <1>2, <2>2 DEF BeginSync, There, Columns
    <3>3. sync' \in Syncs
      BY <3>1, <3>2 DEF Syncs
    <3>4. sync'.used = {} /\ sync'.id = id /\ sync'.bucket = sourceRows[id].meta.bucket
            /\ (~sync'.from => id \notin raced)
      BY <3>1
    <3>. QED
      BY <1>1, <3>3, <3>4 DEF SyncFollows, SyncUsesProbed
  <2>3. CASE ReadCredential
    <3>. DEFINE u == {[bucket |-> sync.bucket, keys |-> sourceRows[sync.id].keys,
                       endpoint |-> sourceRows[sync.id].endpoint]}
    <3>1. sync \in Syncs /\ There(sync.id) /\ sync' = [sync EXCEPT !.used = u]
      BY <1>2, <2>3 DEF ReadCredential
    <3>2. sync.id \in SourceIds /\ sync.bucket \in Buckets
      BY <3>1, RequestKinds
    <3>3. sourceRows[sync.id] \in Columns
      BY <1>2, <3>1, <3>2 DEF There
    <3>4. u \in SUBSET Config
      BY <3>2, <3>3 DEF Config, Columns
    <3>5. ~sync.edited /\ ~sync.from => u \subseteq probed
      BY <3>1, <3>2 DEF SourcesInv, SyncFollows, ProbedTogether, Stored
    <3>. HIDE DEF u
    <3>6. /\ sync' \in Syncs /\ sync'.used = u
          /\ sync'.id = sync.id /\ sync'.bucket = sync.bucket
          /\ sync'.edited = sync.edited /\ sync'.from = sync.from
      BY <3>1, <3>4, RequestKinds
    <3>7. SyncFollows'
      BY <1>1, <3>1, <3>6 DEF SourcesInv, SyncFollows
    <3>8. SyncUsesProbed'
      BY <1>1, <3>1, <3>5, <3>6 DEF SyncUsesProbed, Syncs
    <3>. QED
      BY <3>6, <3>7, <3>8
  <2>. QED
    BY <2>1, <2>2, <2>3
<1>4. SourcesTypeOK'
  BY <1>1, <1>3 DEF SourcesInv, SourcesTypeOK
<1>. QED
  BY <1>1, <1>3, <1>4 DEF SourcesInv, SavesProbed, RootsApart, There, ProbedTogether, Stored

\* Roots that differ are at most one of each.
LEMMA RootsOnce == RootsApart => RootsDiffer
<1>. SUFFICES ASSUME RootsApart, NEW b \in Buckets PROVE Cardinality(Root(b)) <= 1
  BY DEF RootsDiffer
<1>1. CASE Root(b) = {}
  BY <1>1, FS_EmptySet
<1>2. CASE Root(b) # {}
  <2>1. PICK i \in Root(b) : TRUE
    BY <1>2
  <2>2. Root(b) = {i}
    BY <2>1 DEF RootsApart, Root
  <2>3. Cardinality({i}) = 1
    BY FS_Singleton
  <2>. QED
    BY <2>2, <2>3
<1>. QED
  BY <1>1, <1>2

\* What a connector source holds was accepted by S3 as a whole, a sync that its
\* source did not change under uses what was accepted, and no two sources have one
\* root, whatever requests cross.
THEOREM SourcesAreSound == SourcesSpec => []SourcesSound
<1>1. SourcesInit => SourcesInv
  <2>. SUFFICES ASSUME SourcesInit PROVE SourcesInv
    OBVIOUS
  <2>1. SourcesTypeOK
    BY DEF SourcesInit, SourcesTypeOK
  <2>2. SavesProbed
    BY DEF SourcesInit, SavesProbed, Resting
  <2>. QED
    BY <2>1, <2>2, RequestKinds
       DEF SourcesInit, SourcesInv, SyncFollows, RootsApart, There, ProbedTogether, SyncUsesProbed
<1>2. SourcesInv /\ [SourcesNext]_sourcesVars => SourcesInv'
  <2>. SUFFICES ASSUME SourcesInv, [SourcesNext]_sourcesVars PROVE SourcesInv'
    OBVIOUS
  <2>1. CASE UNCHANGED sourcesVars
    BY <2>1 DEF sourcesVars, SourcesInv, SourcesTypeOK, SavesProbed, SyncFollows, RootsApart, There,
                ProbedTogether, Stored, SyncUsesProbed
  <2>. QED
    BY <2>1, AskerSteps, DeletedSource, SyncSteps DEF SourcesNext
<1>3. SourcesInv => SourcesSound
  BY RootsOnce DEF SourcesInv, SourcesSound
<1>. QED
  BY <1>1, <1>2, <1>3, PTL DEF SourcesSpec

---------------------------------------------------------------------------
(* Proofs about Database.                                                     *)

Cascading == {l \in Links : l.rule = "cascade"}

\* Only references that may be NULL are, and those of rows that are there.
UnsetMayBe == \A l \in unset : l.rule = "set null" /\ Present(l.child)

DatabaseInv == DatabaseTypeOK /\ UnsetMayBe /\ NothingDangles /\ NothingStays

\* The schema, link by link.
LEMMA LinkIs ==
  ASSUME NEW child, NEW parents, NEW rule, NEW l
  PROVE  l \in Link(child, parents, rule) <=>
           \E p \in parents : l = [child |-> child, parent |-> p, rule |-> rule]
BY DEF Link

\* What goes with what.
Owns(parent, child) ==
  \/ parent = "users" /\ child \in {"api_keys", "sessions", "user_preferences"}
  \/ /\ parent = "collections"
     /\ child \in {"chat_question_suggestions", "connector_sources", "documents", "query_log",
                  "upload_sessions", "document_elements"}
  \/ parent = "documents" /\ child \in {"document_elements", "connector_documents"}
  \/ /\ parent = "connector_sources"
     /\ child \in {"connector_source_credentials", "connector_documents"}
  \/ parent = "upload_sessions" /\ child = "upload_session_items"
  \/ parent = "webhooks" /\ child = "webhook_deliveries"

\* What the proofs need to know of a link.
Known(l) ==
  /\ l = [child |-> l.child, parent |-> l.parent, rule |-> l.rule]
  /\ l.rule \in {"cascade", "set null", "restrict"}
  /\ l.rule = "cascade" => Owns(l.parent, l.child)
  /\ l.rule = "restrict" => l.child = "collections" /\ l.parent = "embedding_presets"
  /\ l.child = "collections" => l.rule = "restrict"
  /\ l.child = "documents" => l.rule = "cascade" /\ l.parent = "collections"

LEMMA LinkKnown ==
  ASSUME NEW child, NEW parents, NEW rule \in {"cascade", "set null", "restrict"},
         rule = "cascade" => \A p \in parents : Owns(p, child),
         rule = "restrict" => child = "collections" /\ parents = {"embedding_presets"},
         child = "collections" => rule = "restrict",
         child = "documents" => rule = "cascade" /\ parents = {"collections"}
  PROVE  \A l \in Link(child, parents, rule) : Known(l)
<1> SUFFICES ASSUME NEW l \in Link(child, parents, rule)
             PROVE  Known(l)
  OBVIOUS
<1>1. /\ l.child = child /\ l.parent \in parents /\ l.rule = rule
      /\ l = [child |-> l.child, parent |-> l.parent, rule |-> l.rule]
  <2>1. PICK p \in parents : l = [child |-> child, parent |-> p, rule |-> rule]
    BY DEF Link
  <2>. QED
    BY <2>1
<1>. QED
  BY <1>1 DEF Known

LEMMA LinkCases == \A l \in Links : Known(l)
<1>1. \A l \in AccountLinks : Known(l)
  <2>1. \A l \in Link("api_keys", {"users"}, "cascade") : Known(l)
    BY LinkKnown DEF Owns
  <2>. QED
    BY <2>1 DEF AccountLinks
<1>2. \A l \in CollectionLinks : Known(l)
  <2>1. \A l \in Link("collections", {"embedding_presets"}, "restrict") : Known(l)
    BY LinkKnown
  <2>. QED
    BY <2>1 DEF CollectionLinks
<1>3. \A l \in ProfileLinks : Known(l)
  <2>1. \A l \in Link("instance_settings", {"users"}, "set null") : Known(l)
    BY LinkKnown
  <2>2. \A l \in Link("sessions", {"users"}, "cascade") : Known(l)
    BY LinkKnown DEF Owns
  <2>3. \A l \in Link("user_preferences", {"users"}, "cascade") : Known(l)
    BY LinkKnown DEF Owns
  <2>4. \A l \in Link("webhooks", {"users"}, "set null") : Known(l)
    BY LinkKnown
  <2>. QED
    BY <2>1, <2>2, <2>3, <2>4 DEF ProfileLinks
<1>4. \A l \in LogLinks : Known(l)
  <2>1. \A l \in Link("access_log", {"users", "api_keys"}, "set null") : Known(l)
    BY LinkKnown
  <2>2. \A l \in Link("audit_log", {"users", "api_keys"}, "set null") : Known(l)
    BY LinkKnown
  <2>. QED
    BY <2>1, <2>2 DEF LogLinks
<1>5. \A l \in SourceLinks : Known(l)
  <2>1. \A l \in Link("chat_question_suggestions", {"collections"}, "cascade") : Known(l)
    BY LinkKnown DEF Owns
  <2>2. \A l \in Link("chat_question_suggestions", {"users"}, "set null") : Known(l)
    BY LinkKnown
  <2>3. \A l \in Link("connector_sources", {"collections"}, "cascade") : Known(l)
    BY LinkKnown DEF Owns
  <2>4. \A l \in Link("connector_source_credentials", {"connector_sources"}, "cascade") : Known(l)
    BY LinkKnown DEF Owns
  <2>. QED
    BY <2>1, <2>2, <2>3, <2>4 DEF SourceLinks
<1>6. \A l \in DocumentLinks : Known(l)
  <2>1. \A l \in Link("documents", {"collections"}, "cascade") : Known(l)
    BY LinkKnown DEF Owns
  <2>2. \A l \in Link("document_elements", {"collections", "documents"}, "cascade") : Known(l)
    BY LinkKnown DEF Owns
  <2>. QED
    BY <2>1, <2>2 DEF DocumentLinks
<1>7. \A l \in SessionLinks : Known(l)
  <2>1. \A l \in Link("query_log", {"collections"}, "cascade") : Known(l)
    BY LinkKnown DEF Owns
  <2>2. \A l \in Link("upload_sessions", {"collections"}, "cascade") : Known(l)
    BY LinkKnown DEF Owns
  <2>3. \A l \in Link("upload_sessions", {"users"}, "set null") : Known(l)
    BY LinkKnown
  <2>4. \A l \in Link("webhook_deliveries", {"webhooks"}, "cascade") : Known(l)
    BY LinkKnown DEF Owns
  <2>. QED
    BY <2>1, <2>2, <2>3, <2>4 DEF SessionLinks
<1>8. \A l \in SyncLinks : Known(l)
  <2>1. \A l \in Link("connector_documents", {"documents", "connector_sources"}, "cascade") : Known(l)
    BY LinkKnown DEF Owns
  <2>2. \A l \in Link("connector_sync_jobs", {"connector_sources", "users"}, "set null") : Known(l)
    BY LinkKnown
  <2>. QED
    BY <2>1, <2>2 DEF SyncLinks
<1>9. \A l \in ItemLinks : Known(l)
  <2>1. \A l \in Link("upload_session_items", {"documents"}, "set null") : Known(l)
    BY LinkKnown
  <2>2. \A l \in Link("upload_session_items", {"upload_sessions"}, "cascade") : Known(l)
    BY LinkKnown DEF Owns
  <2>. QED
    BY <2>1, <2>2 DEF ItemLinks
<1>. QED
  BY <1>1, <1>2, <1>3, <1>4, <1>5, <1>6, <1>7, <1>8, <1>9 DEF Links

Ref(child, parent, rule) == [child |-> child, parent |-> parent, rule |-> rule]

\* And the links that the properties follow downwards.
LEMMA LinksThere ==
  /\ Ref("collections", "embedding_presets", "restrict") \in Links
  /\ \A c \in {"api_keys", "sessions", "user_preferences"} : Ref(c, "users", "cascade") \in Links
  /\ \A c \in {"chat_question_suggestions", "connector_sources", "documents", "query_log",
               "upload_sessions", "document_elements"} : Ref(c, "collections", "cascade") \in Links
  /\ Ref("connector_source_credentials", "connector_sources", "cascade") \in Links
  /\ Ref("connector_documents", "documents", "cascade") \in Links
  /\ Ref("upload_session_items", "upload_sessions", "cascade") \in Links
<1>1. Ref("collections", "embedding_presets", "restrict") \in CollectionLinks
  BY LinkIs DEF CollectionLinks, Ref
<1>2. Ref("api_keys", "users", "cascade") \in AccountLinks
  BY LinkIs DEF AccountLinks, Ref
<1>3. Ref("sessions", "users", "cascade") \in ProfileLinks /\ Ref("user_preferences", "users", "cascade") \in ProfileLinks
  BY LinkIs DEF ProfileLinks, Ref
<1>4. /\ Ref("chat_question_suggestions", "collections", "cascade") \in SourceLinks
      /\ Ref("connector_sources", "collections", "cascade") \in SourceLinks
      /\ Ref("connector_source_credentials", "connector_sources", "cascade") \in SourceLinks
  BY LinkIs DEF SourceLinks, Ref
<1>5. /\ Ref("documents", "collections", "cascade") \in DocumentLinks
      /\ Ref("document_elements", "collections", "cascade") \in DocumentLinks
  BY LinkIs DEF DocumentLinks, Ref
<1>6. /\ Ref("query_log", "collections", "cascade") \in SessionLinks
      /\ Ref("upload_sessions", "collections", "cascade") \in SessionLinks
  BY LinkIs DEF SessionLinks, Ref
<1>7. Ref("connector_documents", "documents", "cascade") \in SyncLinks
  BY LinkIs DEF SyncLinks, Ref
<1>8. Ref("upload_session_items", "upload_sessions", "cascade") \in ItemLinks
  BY LinkIs DEF ItemLinks, Ref
<1>. HIDE DEF Ref
<1>. QED
  BY <1>1, <1>2, <1>3, <1>4, <1>5, <1>6, <1>7, <1>8 DEF Links

\* The deletion of rows takes everything that hangs on them: three levels are
\* enough, since a table whose rows own rows of others hangs on collections at most.
LEMMA DoomedIsClosed ==
  ASSUME NEW victims
  PROVE  /\ victims \subseteq Doomed(victims)
         /\ Below(Doomed(victims)) \subseteq Doomed(victims)
         /\ \A x \in Doomed(victims) \ victims :
              \E l \in links : l.rule = "cascade" /\ l.child = x /\ l.parent \in Doomed(victims)
<1>. DEFINE one == victims \cup Below(victims)
            two == one \cup Below(one)
            three == two \cup Below(two)
<1>1. Doomed(victims) = three
  BY DEF Doomed
<1>2. \A s, x : x \in Below(s) <=> \E l \in links : l.rule = "cascade" /\ l.parent \in s /\ l.child = x
  BY DEF Below
<1>3. \A x \in three \ victims : \E l \in links : l.rule = "cascade" /\ l.child = x /\ l.parent \in three
  BY <1>2
<1>4. ASSUME NEW x \in Below(three) PROVE x \in three
  <2>1. PICK l \in links : l.rule = "cascade" /\ l.parent \in three /\ l.child = x
    BY <1>2
  <2>2. CASE l.parent \in two
    BY <1>2, <2>1, <2>2
  <2>3. CASE l.parent \in Below(two) \ two
    <3>1. PICK k \in links : k.rule = "cascade" /\ k.parent \in two /\ k.child = l.parent
      BY <1>2, <2>3
    <3>2. PICK j \in links : j.rule = "cascade" /\ j.parent \in one /\ j.child = k.parent
      BY <1>2, <2>3, <3>1
    <3>3. Known(l) /\ Known(k) /\ Known(j)
      BY LinkCases DEF links
    <3>4. Owns(j.parent, j.child) /\ Owns(j.child, k.child) /\ Owns(k.child, l.child)
      BY <2>1, <3>1, <3>2, <3>3 DEF Known
    <3>. QED
      BY <3>4 DEF Owns
  <2>. QED
    BY <2>1, <2>2, <2>3
<1>5. victims \subseteq three
  OBVIOUS
<1>. HIDE DEF three
<1>. QED
  BY <1>1, <1>3, <1>4, <1>5

\* What a deletion does, seen from outside: the victims that are there go, with the
\* rows that belong to them, or nothing does.
LEMMA DeleteDoes ==
  ASSUME DatabaseInv, NEW victims \in SUBSET Tables, DeleteWhere(victims)
  PROVE  \/ /\ absent' = absent /\ unset' = unset
            /\ statements' = statements + 1 /\ statements < MaxStatements
         \/ \E gone \in SUBSET Tables :
              /\ statements' = statements + 1 /\ statements < MaxStatements
              /\ absent' = absent \cup gone
              /\ unset' = {l \in unset \cup Nulled(gone) : l.child \notin absent'}
              /\ \A l \in links : l.rule = "restrict" => l.parent \notin gone
              /\ \A l \in links : l.rule = "cascade" /\ l.parent \in gone => l.child \in gone
              /\ victims \ absent \subseteq gone
              /\ \A x \in gone \ victims :
                   \E l \in links : l.rule = "cascade" /\ l.child = x /\ l.parent \in gone
<1>. DEFINE V == victims \ absent
            gone == Doomed(V)
<1>1. /\ V \subseteq gone /\ Below(gone) \subseteq gone
      /\ \A x \in gone \ V : \E l \in links : l.rule = "cascade" /\ l.child = x /\ l.parent \in gone
  BY DoomedIsClosed
<1>2. \A l \in links : l.child \in Tables
  BY DEF links, Tables
<1>3. gone \in SUBSET Tables
  BY <1>1, <1>2
<1>4. \A l \in links : l.rule = "cascade" /\ l.parent \in gone => l.child \in gone
  BY <1>1 DEF Below
<1>5. CASE Restricted(V)
  BY <1>5 DEF DeleteWhere, Counts
<1>6. CASE ~Restricted(V)
  <2>1. \A l \in links : l.rule = "restrict" => l.parent \notin gone
    BY <1>6 DEF Restricted
  <2>2. /\ statements' = statements + 1 /\ statements < MaxStatements
        /\ absent' = absent \cup gone
        /\ unset' = {l \in unset \cup Nulled(gone) : l.child \notin absent'}
    BY <1>6 DEF DeleteWhere, Counts
  <2>3. \A x \in gone \ victims : \E l \in links : l.rule = "cascade" /\ l.child = x /\ l.parent \in gone
    BY <1>1
  <2>. HIDE DEF gone
  <2>. QED
    BY <1>1, <1>3, <1>4, <2>1, <2>2, <2>3
<1>. QED
  BY <1>5, <1>6

\* Rows of a present table hold on to what they point at.
LEMMA HeldBy ==
  ASSUME DatabaseInv, NEW c, NEW p, Ref(c, p, "cascade") \in Links, Present(c)
  PROVE  Ref(c, p, "cascade") \in links /\ Present(p)
<1>1. Ref(c, p, "cascade") \notin unset /\ Ref(c, p, "cascade").child = c /\ Ref(c, p, "cascade").parent = p
  BY DEF Ref, DatabaseInv, UnsetMayBe
<1>. HIDE DEF Ref
<1>2. Ref(c, p, "cascade") \in links
  BY <1>1 DEF links
<1>. QED
  BY <1>1, <1>2 DEF DatabaseInv, NothingDangles

LEMMA Falls ==
  ASSUME DatabaseInv, NEW c, NEW p, NEW gone, Ref(c, p, "cascade") \in Links,
         \A l \in links : l.rule = "cascade" /\ l.parent \in gone => l.child \in gone,
         p \in absent \cup gone
  PROVE  c \in absent \cup gone
<1>1. CASE Present(c)
  <2>1. Ref(c, p, "cascade") \in links /\ Present(p)
    BY <1>1, HeldBy
  <2>2. /\ Ref(c, p, "cascade").child = c /\ Ref(c, p, "cascade").parent = p
        /\ Ref(c, p, "cascade").rule = "cascade"
    BY DEF Ref
  <2>. QED
    BY <2>1, <2>2 DEF Present
<1>. QED
  BY <1>1 DEF Present

\* The inductive step of a deletion.
LEMMA DeleteWhereStep ==
  ASSUME DatabaseInv, NEW victims \in SUBSET Tables, DeleteWhere(victims), under' \in SUBSET Handlers
  PROVE  DatabaseInv'
<1>1. CASE absent' = absent /\ unset' = unset /\ statements' = statements + 1 /\ statements < MaxStatements
  <2>1. DatabaseTypeOK'
    BY <1>1, DatabaseAssumption DEF DatabaseInv, DatabaseTypeOK, DatabaseAssumption
  <2>2. links' = links /\ UnsetMayBe' /\ NothingDangles' /\ NothingStays'
    BY <1>1 DEF DatabaseInv, UnsetMayBe, NothingDangles, NothingStays, links, Present
  <2>. QED
    BY <2>1, <2>2 DEF DatabaseInv
<1>2. ASSUME NEW gone \in SUBSET Tables,
             statements' = statements + 1 /\ statements < MaxStatements,
             absent' = absent \cup gone,
             unset' = {l \in unset \cup Nulled(gone) : l.child \notin absent'},
             \A l \in links : l.rule = "restrict" => l.parent \notin gone,
             \A l \in links : l.rule = "cascade" /\ l.parent \in gone => l.child \in gone
      PROVE  DatabaseInv'
  <2>1. unset' \subseteq Links /\ UnsetMayBe'
    BY <1>2 DEF DatabaseInv, DatabaseTypeOK, UnsetMayBe, Nulled, links, Present
  <2>2. DatabaseTypeOK'
    BY <1>2, <2>1, DatabaseAssumption DEF DatabaseInv, DatabaseTypeOK, DatabaseAssumption
  <2>3. ASSUME NEW l \in links'
        PROVE  l \in links /\ l \notin Nulled(gone) /\ l.child \notin absent'
    BY <1>2, <2>3 DEF links, Present
  <2>4. \A l \in links' : Present(l.parent)'
    <3> SUFFICES ASSUME NEW l \in links'
                 PROVE  l.parent \notin absent'
      BY DEF Present
    <3>1. l \in links /\ l \notin Nulled(gone) /\ l.child \notin absent'
      BY <2>3
    <3>2. l.parent \notin absent /\ Known(l)
      BY <3>1, LinkCases DEF DatabaseInv, NothingDangles, Present, links
    <3>3. l.parent \notin gone
      BY <1>2, <3>1, <3>2 DEF Known, Nulled
    <3>. QED
      BY <1>2, <3>2, <3>3
  <2>5. Present("collections")' => Ref("collections", "embedding_presets", "restrict") \in links'
    <3>1. /\ Ref("collections", "embedding_presets", "restrict").child = "collections"
          /\ Ref("collections", "embedding_presets", "restrict").rule = "restrict"
      BY DEF Ref
    <3>2. Ref("collections", "embedding_presets", "restrict") \notin unset'
      BY <2>1, <3>1 DEF UnsetMayBe
    <3>. HIDE DEF Ref
    <3>. QED
      BY <3>1, <3>2, LinksThere DEF links, Present
  <2>6. NothingStays'
    <3> SUFFICES ASSUME "collections" \in absent \cup gone
                 PROVE  CollectionParts \subseteq absent \cup gone
      BY <1>2 DEF NothingStays, Present
    <3>1. \A c \in {"chat_question_suggestions", "connector_sources", "documents", "query_log",
                    "upload_sessions", "document_elements"} : c \in absent \cup gone
      BY <1>2, Falls, LinksThere
    <3>2. /\ "connector_source_credentials" \in absent \cup gone
          /\ "connector_documents" \in absent \cup gone
          /\ "upload_session_items" \in absent \cup gone
      BY <1>2, <3>1, Falls, LinksThere
    <3>. QED
      BY <3>1, <3>2 DEF CollectionParts
  <2>. QED
    BY <2>1, <2>2, <2>4, <2>5, <2>6 DEF DatabaseInv, NothingDangles, Ref
<1>. QED
  BY <1>1, <1>2, DeleteDoes

LEMMA InsertStep ==
  ASSUME DatabaseInv, NEW table \in {"collections", "documents"}, InsertInto(table),
         under' \in SUBSET Handlers
  PROVE  DatabaseInv' /\ absent' \subseteq absent
<1>1. /\ statements' = statements + 1 /\ statements < MaxStatements /\ unset' = unset
      /\ \/ absent' = absent
         \/ absent' = absent \ {table} /\ \A l \in Links : l.child = table => Present(l.parent)
  BY DEF InsertInto, Counts
<1>2. DatabaseTypeOK' /\ absent' \subseteq absent
  BY <1>1, DatabaseAssumption DEF DatabaseInv, DatabaseTypeOK, DatabaseAssumption
<1>3. UnsetMayBe'
  BY <1>1, <1>2 DEF DatabaseInv, UnsetMayBe, Present
<1>4. \A l \in links' : Present(l.parent)'
  <2> SUFFICES ASSUME NEW l \in links'
               PROVE  l.parent \notin absent'
    BY DEF Present
  <2>1. CASE l.child = table
    BY <1>1, <2>1 DEF links, Present, DatabaseInv, NothingDangles
  <2>2. CASE l.child # table
    BY <1>1, <2>2 DEF links, Present, DatabaseInv, NothingDangles
  <2>. QED
    BY <2>1, <2>2
<1>5. Present("collections")' => Ref("collections", "embedding_presets", "restrict") \in links'
  <2>1. /\ Ref("collections", "embedding_presets", "restrict").child = "collections"
        /\ Ref("collections", "embedding_presets", "restrict").rule = "restrict"
    BY DEF Ref
  <2>2. Ref("collections", "embedding_presets", "restrict") \notin unset'
    BY <1>3, <2>1 DEF UnsetMayBe
  <2>. HIDE DEF Ref
  <2>. QED
    BY <2>1, <2>2, LinksThere DEF links, Present
<1>6. NothingStays'
  <2>1. CASE table = "collections"
    BY <1>1, <2>1 DEF DatabaseInv, NothingStays, Present, CollectionParts
  <2>2. CASE table = "documents" /\ absent' # absent
    <3>1. Ref("documents", "collections", "cascade") \in Links
          /\ Ref("documents", "collections", "cascade").child = "documents"
          /\ Ref("documents", "collections", "cascade").parent = "collections"
      BY LinksThere DEF Ref
    <3>2. Present("collections")
      BY <1>1, <2>2, <3>1
    <3>. QED
      BY <1>2, <3>2 DEF NothingStays, Present
  <2>3. CASE absent' = absent
    BY <2>3 DEF DatabaseInv, NothingStays, Present
  <2>. QED
    BY <2>1, <2>2, <2>3
<1>. QED
  BY <1>2, <1>3, <1>4, <1>5, <1>6 DEF DatabaseInv, NothingDangles, Ref

\* What a deletion may take, given its victims.
LEMMA DeletionBounded ==
  ASSUME DatabaseInv, NEW victims \in SUBSET Tables, DeleteWhere(victims),
         \/ victims \subseteq {"users"} \/ victims \subseteq {"api_keys"}
         \/ victims \subseteq {"webhooks"} \/ victims \subseteq {"sessions"}
         \/ victims \subseteq {"embedding_presets"} \/ victims \subseteq {"collections"}
         \/ victims \subseteq {"documents", "connector_sources"}
         \/ victims \subseteq {"upload_sessions"} \/ victims \subseteq {"webhook_deliveries"}
  PROVE  DeletionsAreBounded
<1>1. CASE absent' = absent
  BY <1>1 DEF DeletionsAreBounded
<1>2. ASSUME NEW gone \in SUBSET Tables,
             absent' = absent \cup gone,
             \A l \in links : l.rule = "restrict" => l.parent \notin gone,
             \A l \in links : l.rule = "cascade" /\ l.parent \in gone => l.child \in gone,
             \A x \in gone \ victims :
               \E l \in links : l.rule = "cascade" /\ l.child = x /\ l.parent \in gone
      PROVE  DeletionsAreBounded
  <2>1. ASSUME NEW x \in gone, x \notin victims
        PROVE  \E y \in gone : Owns(y, x)
    <3>1. PICK l \in links : l.rule = "cascade" /\ l.child = x /\ l.parent \in gone
      BY <1>2, <2>1
    <3>2. Known(l)
      BY LinkCases DEF links
    <3>. QED
      BY <3>1, <3>2 DEF Known
  <2>2. gone \cap {"audit_log", "access_log", "instance_settings", "connector_sync_jobs"} = {}
    BY <2>1 DEF Owns
  <2>3. "users" \in gone => victims \subseteq {"users"}
    BY <2>1 DEF Owns
  <2>4. ASSUME victims \subseteq {"users"}
        PROVE  gone \subseteq {"users", "api_keys", "sessions", "user_preferences"}
    <3>1. "collections" \notin gone
      BY <2>1, <2>4 DEF Owns
    <3>2. gone \cap {"documents", "connector_sources", "upload_sessions", "webhooks"} = {}
      BY <2>1, <2>4, <3>1 DEF Owns
    <3>3. ASSUME NEW x \in gone, x # "users"
          PROVE  x \in {"api_keys", "sessions", "user_preferences"}
      BY <2>1, <2>4, <3>1, <3>2, <3>3 DEF Owns
    <3>. QED
      BY <3>3
  <2>5. "users" \in gone => \A c \in {"api_keys", "sessions", "user_preferences"} : c \in absent \cup gone
    BY <1>2, Falls, LinksThere
  <2>6. "connector_sources" \in gone /\ "collections" \notin gone
          => gone \cap {"connector_sync_jobs", "upload_sessions", "query_log"} = {}
    BY <2>1 DEF Owns
  <2>7. "embedding_presets" \in gone => ~Present("collections")
    BY <1>2 DEF DatabaseInv, NothingDangles
  <2>. QED
    <3>. DEFINE fallen == absent' \ absent
    <3>1. fallen = gone \ absent
      BY <1>2
    <3>2. "users" \in fallen => fallen = {"users", "api_keys", "sessions", "user_preferences"} \ absent
      <4> SUFFICES ASSUME "users" \in fallen
                   PROVE  fallen = {"users", "api_keys", "sessions", "user_preferences"} \ absent
        OBVIOUS
      <4>1. "users" \in gone /\ "users" \notin absent
        BY <3>1
      <4>2. gone \subseteq {"users", "api_keys", "sessions", "user_preferences"}
        BY <2>3, <2>4, <4>1
      <4>. QED
        BY <2>5, <3>1, <4>1, <4>2
    <3>3. "connector_sources" \in fallen /\ "collections" \notin fallen
            => fallen \cap {"connector_sync_jobs", "upload_sessions", "query_log"} = {}
      <4>1. ASSUME "connector_sources" \in gone \ absent, "collections" \in gone
            PROVE  "collections" \notin absent
        BY <4>1, LinksThere, HeldBy DEF Present
      <4>. QED
        BY <2>6, <3>1, <4>1
    <3>4. fallen \cap {"audit_log", "access_log", "instance_settings", "connector_sync_jobs"} = {}
      BY <2>2, <3>1
    <3>5. "embedding_presets" \in fallen => ~Present("collections")
      BY <2>7, <3>1
    <3>. HIDE DEF fallen
    <3>. QED
      BY <3>2, <3>3, <3>4, <3>5 DEF DeletionsAreBounded, fallen
<1>. QED
  BY <1>1, <1>2, DeleteDoes

LEMMA TablesThere ==
  {"users", "api_keys", "webhooks", "sessions", "embedding_presets", "collections", "documents",
   "connector_sources", "upload_sessions", "webhook_deliveries"} \subseteq Tables
<1>1. Ref("webhook_deliveries", "webhooks", "cascade") \in SessionLinks
  BY LinkIs DEF SessionLinks, Ref
<1>2. \A c, p, r : Ref(c, p, r).child = c /\ Ref(c, p, r).parent = p
  BY DEF Ref
<1>3. \A c, p, r : Ref(c, p, r) \in Links => c \in Tables /\ p \in Tables
  BY <1>2 DEF Tables
<1>. HIDE DEF Ref
<1>4. Ref("webhook_deliveries", "webhooks", "cascade") \in Links
  BY <1>1 DEF Links
<1>. QED
  BY <1>3, <1>4, LinksThere

\* A step that inserts nothing and deletes nothing.
LEMMA QuietStep ==
  ASSUME DatabaseInv, UNCHANGED <<absent, unset, statements>>, under' \in SUBSET Handlers
  PROVE  DatabaseInv' /\ DeletionsAreBounded
BY DEF DatabaseInv, DatabaseTypeOK, UnsetMayBe, NothingDangles, NothingStays, links, Present,
       DeletionsAreBounded

LEMMA DatabaseSteps ==
  ASSUME DatabaseInv, [DatabaseNext]_databaseVars
  PROVE  DatabaseInv' /\ DeletionsAreBounded
<1>0. under \in SUBSET Handlers
  BY DEF DatabaseInv, DatabaseTypeOK
<1>1. CASE UNCHANGED databaseVars
  BY <1>0, <1>1, QuietStep DEF databaseVars
<1>2. CASE CheckPreset \/ FindCollection \/ FindSource \/ ResolveConfig \/ StageDocument
  BY <1>0, <1>2, QuietStep
  DEF CheckPreset, FindCollection, FindSource, ResolveConfig, StageDocument, Passes, Handlers
<1>3. CASE InsertCollection \/ AddDocument
  <2>1. under' \in SUBSET Handlers /\ \E table \in {"collections", "documents"} : InsertInto(table)
    BY <1>0, <1>3 DEF InsertCollection, AddDocument, Executes
  <2>2. DatabaseInv' /\ absent' \subseteq absent
    BY <2>1, InsertStep
  <2>. QED
    BY <2>2 DEF DeletionsAreBounded
<1>4. ASSUME \E victims \in SUBSET Tables :
               /\ DeleteWhere(victims) /\ under' \in SUBSET Handlers
               /\ \/ victims \subseteq {"users"} \/ victims \subseteq {"api_keys"}
                  \/ victims \subseteq {"webhooks"} \/ victims \subseteq {"sessions"}
                  \/ victims \subseteq {"embedding_presets"} \/ victims \subseteq {"collections"}
                  \/ victims \subseteq {"documents", "connector_sources"}
                  \/ victims \subseteq {"upload_sessions"} \/ victims \subseteq {"webhook_deliveries"}
      PROVE  DatabaseInv' /\ DeletionsAreBounded
  BY <1>4, DeleteWhereStep, DeletionBounded
<1>5. CASE DeleteUserRow \/ DeleteApiKey \/ DeleteWebhook \/ Logout
  BY <1>0, <1>4, <1>5, TablesThere DEF DeleteUserRow, DeleteApiKey, DeleteWebhook, Logout
<1>6. CASE DeletePreset \/ DeleteCollection
  BY <1>0, <1>4, <1>6, TablesThere DEF DeletePreset, DeleteCollection, Executes
<1>7. CASE TruncateCollection \/ DeleteDocumentRow \/ CleanupOldData
  BY <1>0, <1>4, <1>7, TablesThere DEF TruncateCollection, DeleteDocumentRow, CleanupOldData
<1>8. CASE DeleteSourceRow
  <2>1. PICK victims \in SUBSET {"documents", "connector_sources"} : DeleteWhere(victims)
    BY <1>8 DEF DeleteSourceRow
  <2>2. under' \in SUBSET Handlers
    BY <1>0, <1>8 DEF DeleteSourceRow, Executes
  <2>. QED
    BY <1>4, <2>1, <2>2, TablesThere
<1>. QED
  BY <1>1, <1>2, <1>3, <1>5, <1>6, <1>7, <1>8 DEF DatabaseNext

LEMMA InitDatabase == ASSUME DatabaseInit PROVE DatabaseInv
<1>1. DatabaseTypeOK /\ UnsetMayBe /\ NothingStays
  BY DatabaseAssumption
  DEF DatabaseInit, DatabaseTypeOK, UnsetMayBe, NothingStays, Present, DatabaseAssumption
<1>2. NothingDangles
  BY LinksThere DEF DatabaseInit, NothingDangles, links, Present, Ref
<1>. QED
  BY <1>1, <1>2 DEF DatabaseInv

(* In whatever order the handlers that delete and insert come, the foreign keys of  *)
(* the schema leave no reference to a row that is gone, nothing of a collection     *)
(* survives it, and no deletion takes more than belongs to what is deleted.         *)
THEOREM RowsAreHeld == DatabaseSpec => RowsHold
<1>1. DatabaseSpec => []DatabaseInv
  BY InitDatabase, DatabaseSteps, PTL DEF DatabaseSpec
<1>2. DatabaseInv /\ [DatabaseNext]_databaseVars => [DeletionsAreBounded]_databaseVars
  BY DatabaseSteps
<1>3. DatabaseInv => NothingDangles /\ NothingStays
  BY DEF DatabaseInv
<1>. QED
  BY <1>1, <1>2, <1>3, PTL DEF DatabaseSpec, RowsHold
==============================================================================

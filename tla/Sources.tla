------------------------------ MODULE Sources ------------------------------
(* The configuration of connector sources (services/connectors/s3_sources.py, *)
(* sources/sources_mutations.py, sources_credentials.py): a bucket, an        *)
(* endpoint and keys are tried on S3 before they are saved, while other       *)
(* requests edit the same source and a sync of it runs.                       *)
EXTENDS Naturals, FiniteSets

CONSTANTS
  SourceIds,  \* of sources
  Buckets, KeyPairs, Endpoints,
  Askers,
  MaxAsks     \* creations, updates and deletions

VARIABLES
  sourceRows,  \* a source with its credential, as columns
  sourceReq,   \* a request, with the row that it has loaded and what it wants
  sync,        \* a sync, with the bucket that it has loaded and what it has used last
  probed,      \* the configurations that S3 has accepted
  made,        \* requests so far
  raced        \* sources that were saved over what another request had saved since

sourcesVars == <<sourceRows, sourceReq, sync, probed, made, raced>>

Config == [bucket : Buckets, keys : KeyPairs, endpoint : Endpoints]
\* root_id, the metadata with bucket and endpoint, and the credential with keys and endpoint.
Columns == [root : Buckets, meta : [bucket : Buckets, endpoint : Endpoints], keys : KeyPairs,
            endpoint : Endpoints]
Never == [state |-> "never"]
Removed == [state |-> "gone"]
Resting == [pc |-> "idle"]

\* Zero is the id of a source that is not there yet.
SourcesAssumption == SourceIds \subseteq Nat \ {0}
ASSUME SourcesAssumption

There(id) == sourceRows[id] \notin {Never, Removed}
Root(bucket) == {id \in SourceIds : There(id) /\ sourceRows[id].root = bucket}

Creations == [pc : {"probe", "save"}, id : {0}, want : Config]
Updates == [pc : {"probe", "save"}, id : SourceIds, loaded : Columns, want : Config]
Syncs == [pc : {"run"}, id : SourceIds, bucket : Buckets, used : SUBSET Config, edited : BOOLEAN,
          from : BOOLEAN]

SourcesTypeOK ==
  /\ sourceRows \in [SourceIds -> Columns \cup {Never, Removed}]
  /\ sourceReq \in [Askers -> {Resting} \cup Creations \cup Updates]
  /\ sync \in {Resting} \cup Syncs
  /\ probed \subseteq Config
  /\ made \in Nat /\ raced \subseteq SourceIds

SourcesInit ==
  /\ sourceRows = [id \in SourceIds |-> Never]
  /\ sourceReq = [r \in Askers |-> Resting]
  /\ sync = Resting
  /\ probed = {} /\ made = 0 /\ raced = {}

Of(want) == [root |-> want.bucket, meta |-> [bucket |-> want.bucket, endpoint |-> want.endpoint],
             keys |-> want.keys, endpoint |-> want.endpoint]
AskFor(r, what) ==
  /\ sourceReq[r] = Resting /\ made < MaxAsks /\ made' = made + 1
  /\ sourceReq' = [sourceReq EXCEPT ![r] = what]
EndRequest(r) == sourceReq' = [sourceReq EXCEPT ![r] = Resting]

\* A sync of the source sees new columns from its next read on.
Put(id, columns) ==
  /\ sourceRows' = [sourceRows EXCEPT ![id] = columns]
  /\ sync' = IF sync # Resting /\ sync.id = id THEN [sync EXCEPT !.edited = TRUE] ELSE sync

---------------------------------------------------------------------------
(* Requests.                                                                  *)

\* create_s3_source
Create(r) ==
  /\ \E want \in Config : AskFor(r, [pc |-> "probe", id |-> 0, want |-> want])
  /\ UNCHANGED <<sourceRows, sync, probed, raced>>

\* update_s3_source loads the row; what the request leaves out stays as loaded.
Update(r, id) ==
  /\ There(id)
  /\ \E b \in Buckets, k \in KeyPairs, e \in Endpoints :
       AskFor(r, [pc |-> "probe", id |-> id, loaded |-> sourceRows[id],
               want |-> [bucket |-> b, keys |-> k, endpoint |-> e]])
  /\ UNCHANGED <<sourceRows, sync, probed, raced>>

\* probe_s3_credentials: the prefix is listed, within twelve seconds.
Probe(r) ==
  /\ sourceReq[r].pc = "probe"
  /\ \/ /\ probed' = probed \cup {sourceReq[r].want}
        /\ sourceReq' = [sourceReq EXCEPT ![r].pc = "save"]
     \/ UNCHANGED probed /\ EndRequest(r)
  /\ UNCHANGED <<sourceRows, sync, made, raced>>

Creating(r) == sourceReq[r].pc = "save" /\ sourceReq[r].id = 0
Updating(r) == sourceReq[r].pc = "save" /\ sourceReq[r].id # 0

\* create_source: a new row,
Insert(r) ==
  /\ Creating(r) /\ Root(sourceReq[r].want.bucket) = {}
  /\ \E id \in SourceIds :
       /\ sourceRows[id] = Never /\ \A i \in SourceIds : i < id => sourceRows[i] # Never
       /\ Put(id, Of(sourceReq[r].want))
  /\ EndRequest(r) /\ UNCHANGED <<probed, made, raced>>

(* Mutant of Adopt: the credential of the source that is there stays.         *)
AdoptMeta(r) ==
  /\ Creating(r)
  /\ \E id \in Root(sourceReq[r].want.bucket) :
       /\ Put(id, [sourceRows[id] EXCEPT !.meta = Of(sourceReq[r].want).meta])
       /\ raced' = raced \ {id}
  /\ EndRequest(r) /\ UNCHANGED <<probed, made>>

\* or, where the root is taken, the row that has it.
Adopt(r) ==
  /\ Creating(r)
  /\ \E id \in Root(sourceReq[r].want.bucket) :
       /\ Put(id, Of(sourceReq[r].want))
       /\ raced' = raced \ {id}
  /\ EndRequest(r) /\ UNCHANGED <<probed, made>>

\* update_source and upsert_source_credential: the columns that differ from what
\* was loaded are written, the others keep what they are by now.
Written(now, loaded, want) ==
  [root |-> IF want.root = loaded.root THEN now.root ELSE want.root,
   meta |-> IF want.meta = loaded.meta THEN now.meta ELSE want.meta,
   keys |-> IF want.keys = loaded.keys THEN now.keys ELSE want.keys,
   endpoint |-> IF want.endpoint = loaded.endpoint THEN now.endpoint ELSE want.endpoint]

Save(r) ==
  LET id == sourceReq[r].id
      new == Written(sourceRows[id], sourceReq[r].loaded, Of(sourceReq[r].want))
  IN
  /\ Updating(r) /\ There(id) /\ Root(new.root) \subseteq {id}
  /\ Put(id, new)
  /\ raced' = IF sourceRows[id] = sourceReq[r].loaded THEN raced ELSE raced \cup {id}
  /\ EndRequest(r) /\ UNCHANGED <<probed, made>>

\* The row is gone, or the root is another source's.
Refused(r) ==
  /\ Updating(r)
  /\ LET id == sourceReq[r].id
         new == Written(sourceRows[id], sourceReq[r].loaded, Of(sourceReq[r].want))
     IN There(id) => Root(new.root) \ {id} # {}
  /\ EndRequest(r) /\ UNCHANGED <<sourceRows, sync, probed, made, raced>>

DeleteSource(id) ==
  /\ There(id) /\ made < MaxAsks /\ made' = made + 1
  /\ Put(id, Removed)
  /\ UNCHANGED <<sourceReq, probed, raced>>

---------------------------------------------------------------------------
(* A sync.                                                                    *)

\* The context of the sync holds the source as it is now,
BeginSync(id) ==
  /\ sync = Resting /\ There(id)
  /\ sync' = [pc |-> "run", id |-> id, bucket |-> sourceRows[id].meta.bucket, used |-> {},
              edited |-> FALSE, from |-> id \in raced]
  /\ UNCHANGED <<sourceRows, sourceReq, probed, made, raced>>

\* and for the listing and each download the credential is read again.
ReadCredential ==
  /\ sync # Resting /\ There(sync.id)
  /\ sync' = [sync EXCEPT !.used = {[bucket |-> sync.bucket, keys |-> sourceRows[sync.id].keys,
                                     endpoint |-> sourceRows[sync.id].endpoint]}]
  /\ UNCHANGED <<sourceRows, sourceReq, probed, made, raced>>

EndSync ==
  /\ sync # Resting /\ sync' = Resting
  /\ UNCHANGED <<sourceRows, sourceReq, probed, made, raced>>

SourcesNext ==
  \/ \E r \in Askers :
       \/ Create(r) \/ Probe(r) \/ Insert(r) \/ Adopt(r) \/ Save(r) \/ Refused(r)
       \/ \E id \in SourceIds : Update(r, id)
  \/ \E id \in SourceIds : DeleteSource(id) \/ BeginSync(id)
  \/ ReadCredential \/ EndSync

SourcesSpec == SourcesInit /\ [][SourcesNext]_sourcesVars

---------------------------------------------------------------------------
(* Properties.                                                                *)

Stored(id) == [bucket |-> sourceRows[id].meta.bucket, keys |-> sourceRows[id].keys,
               endpoint |-> sourceRows[id].endpoint]

\* What a source holds was accepted by S3 as a whole, and its columns agree,
\* unless two updates of it overlapped.
ProbedTogether ==
  \A id \in SourceIds \ raced : There(id) =>
    /\ Stored(id) \in probed
    /\ sourceRows[id].root = sourceRows[id].meta.bucket
    /\ sourceRows[id].meta.endpoint = sourceRows[id].endpoint

\* A sync reads with a configuration that was accepted, unless its source was
\* edited since it began, or held a mixture then.
SyncUsesProbed ==
  sync # Resting => sync.used \subseteq probed \/ sync.edited \/ sync.from

\* No two sources have one root, also when updates and creations cross.
RootsDiffer == \A b \in Buckets : Cardinality(Root(b)) <= 1

\* All of it.
SourcesSound == ProbedTogether /\ SyncUsesProbed /\ RootsDiffer
=============================================================================

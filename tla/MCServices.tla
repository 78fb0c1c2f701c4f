------------------------------ MODULE MCServices ------------------------------
(* The services around ingestion, for TLC. They share no state, so a behaviour  *)
(* is one of a single service, "focus", while the others keep still.            *)
EXTENDS Admission, Access, Caches, Idempotency, Settings, Startup, Progress, Sources, Secrets,
        Chat, Library, UploadSession, Database, Records, TLC

VARIABLES
  focus,
  words, stored, query, part, reply, outcomes, present, asked,
  changes, failures,                                                 \* Retrieval
  text, chunking, chunks                                             \* Chunking

Searched == INSTANCE Retrieval WITH
  Chunks <- {1, 2, 3}, Home <- <<"A", "B", "A">>, Meaning <- <<1, 1, 2>>, Terms <- 2,
  WordCounts <- {<<2, 0, 1>>}, Targets <- {{"A"}, {"A", "B"}}, PoolFactor <- 1,
  MaxQueries <- 2, MaxChanges <- 1, MaxFaults <- 1, index <- stored, saved <- outcomes,
  seen <- present, faults <- failures
Cutting == INSTANCE Chunking WITH
  MaxText <- 5, Sizes <- {2, 3}, Overlaps <- {0, 2}, config <- chunking

\* Every reader is in a process of its own; one model has an encrypted column.
ProcessOf == [r \in Readers |-> r]
ModelsOf == <<"Webhook">>

admissionVars == <<inflight, pc, strays>>
retrievalVars == <<words, stored, query, part, reply, outcomes, present, asked, changes,
                   failures>>
chunkingVars == <<text, chunking, chunks>>

Services == {"admission", "idempotency", "upload", "access", "settings",
             "library", "caches", "database", "records", "secrets",
             "progress", "startup", "retrieval", "chat", "chunking",
             "sources"}

\* What a service starts with when it is the one that moves; the others have one
\* initial state each. The bodies of two calls are equal or not.
ServicesInit ==
  /\ focus \in Services
  /\ Init
  /\ KeyInit /\ body["c1"] = "b1"
  /\ focus # "idempotency" => ~oneTime /\ body["c2"] = "b1"
  /\ UploadInit /\ AccessInit /\ SettingsInit
  /\ LibraryInit /\ docs = {<<0, "a">>}
  /\ CachesInit /\ DatabaseInit
  /\ RecordsInit /\ (focus # "records" => whichLog = "audit")
  /\ SecretsInit /\ ProgressInit /\ StartupInit
  /\ Searched!Init
  /\ ChatInit
  /\ Cutting!Init /\ (focus # "chunking" => text = <<>>)
  /\ SourcesInit

\* All but service s keep still.
Still(s) ==
  /\ UNCHANGED focus
  /\ IF s = "admission" THEN TRUE ELSE UNCHANGED admissionVars
  /\ IF s = "idempotency" THEN TRUE ELSE UNCHANGED idemVars
  /\ IF s = "upload" THEN TRUE ELSE UNCHANGED upVars
  /\ IF s = "access" THEN TRUE ELSE UNCHANGED accessVars
  /\ IF s = "settings" THEN TRUE ELSE UNCHANGED settingsVars
  /\ IF s = "library" THEN TRUE ELSE UNCHANGED libraryVars
  /\ IF s = "caches" THEN TRUE ELSE UNCHANGED cachesVars
  /\ IF s = "database" THEN TRUE ELSE UNCHANGED databaseVars
  /\ IF s = "records" THEN TRUE ELSE UNCHANGED recordsVars
  /\ IF s = "secrets" THEN TRUE ELSE UNCHANGED secretsVars
  /\ IF s = "progress" THEN TRUE ELSE UNCHANGED progressVars
  /\ IF s = "startup" THEN TRUE ELSE UNCHANGED startupVars
  /\ IF s = "retrieval" THEN TRUE ELSE UNCHANGED retrievalVars
  /\ IF s = "chat" THEN TRUE ELSE UNCHANGED chatVars
  /\ IF s = "chunking" THEN TRUE ELSE UNCHANGED chunkingVars
  /\ IF s = "sources" THEN TRUE ELSE UNCHANGED sourcesVars

AdmissionStep == focus = "admission" /\ Next /\ Still("admission")
IdempotencyStep == focus = "idempotency" /\ KeyNext /\ Still("idempotency")
UploadStep == focus = "upload" /\ UploadNext /\ Still("upload")
AccessStep == focus = "access" /\ AccessNext /\ Still("access")
SettingsStep == focus = "settings" /\ SettingsNext /\ Still("settings")
LibraryStep == focus = "library" /\ LibraryNext /\ Still("library")
CachesStep == focus = "caches" /\ CachesNext /\ Still("caches")
DatabaseStep == focus = "database" /\ DatabaseNext /\ Still("database")
RecordsStep == focus = "records" /\ RecordsNext /\ Still("records")
SecretsStep == focus = "secrets" /\ SecretsNext /\ Still("secrets")
ProgressStep == focus = "progress" /\ ProgressNext /\ Still("progress")
StartupStep == focus = "startup" /\ StartupNext /\ Still("startup")
RetrievalStep == focus = "retrieval" /\ Searched!Next /\ Still("retrieval")
ChatStep == focus = "chat" /\ ChatNext /\ Still("chat")
ChunkingStep == focus = "chunking" /\ Cutting!Next /\ Still("chunking")
SourcesStep == focus = "sources" /\ SourcesNext /\ Still("sources")

ServicesNext ==
  AdmissionStep \/ IdempotencyStep \/ UploadStep \/ AccessStep \/
    SettingsStep \/ LibraryStep \/ CachesStep \/ DatabaseStep \/ RecordsStep \/
    SecretsStep \/ ProgressStep \/ StartupStep \/ RetrievalStep \/ ChatStep \/
    ChunkingStep \/ SourcesStep

serviceVars == <<focus, admissionVars, idemVars, upVars, accessVars, settingsVars,
                 libraryVars, cachesVars, databaseVars, recordsVars,
                 secretsVars, progressVars, startupVars,
                 retrievalVars, chatVars, chunkingVars, sourcesVars>>

ServicesSpec == ServicesInit /\ [][ServicesNext]_serviceVars

---------------------------------------------------------------------------
(* The properties of the modules that are not extended, under the names that    *)
(* the run checks: each is about the behaviours of its own service. The others  *)
(* come with their modules.                                                     *)

\* Answers are ranked, cut, filtered and merged right, also from the cache.
AnswersSound == focus = "retrieval" => Searched!AnswersSound
\* The chunks of a text hold it all, within their size, at their offsets.
ChunksSound == focus = "chunking" => Cutting!ChunksSound
=============================================================================

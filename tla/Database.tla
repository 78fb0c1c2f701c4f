------------------------------ MODULE Database ------------------------------
(* What the foreign keys of the schema do when handlers delete rows while     *)
(* others insert (alembic/versions/0001_initial_schema.py and the handlers    *)
(* that delete users, API keys, presets, collections, sources, webhooks and   *)
(* documents).  A table stands for the rows that belong to one user and one   *)
(* collection; the rows of the logs are the subject of Records.               *)
EXTENDS Naturals, FiniteSets

CONSTANT MaxStatements   \* statements that delete or insert

ASSUME DatabaseAssumption == MaxStatements \in Nat

---------------------------------------------------------------------------
(* The schema: a link says what happens to the child when the parent goes.    *)

Link(child, parents, rule) == {[child |-> child, parent |-> p, rule |-> rule] : p \in parents}

AccountLinks == Link("api_keys", {"users"}, "cascade")

CollectionLinks == Link("collections", {"embedding_presets"}, "restrict")

ProfileLinks ==
  Link("instance_settings", {"users"}, "set null") \cup Link("sessions", {"users"}, "cascade")
    \cup Link("user_preferences", {"users"}, "cascade") \cup Link("webhooks", {"users"}, "set null")

LogLinks ==
  Link("access_log", {"users", "api_keys"}, "set null")
    \cup Link("audit_log", {"users", "api_keys"}, "set null")

SourceLinks ==
  Link("chat_question_suggestions", {"collections"}, "cascade")
    \cup Link("chat_question_suggestions", {"users"}, "set null")
    \cup Link("connector_sources", {"collections"}, "cascade")
    \cup Link("connector_source_credentials", {"connector_sources"}, "cascade")

DocumentLinks ==
  Link("documents", {"collections"}, "cascade")
    \cup Link("document_elements", {"collections", "documents"}, "cascade")

SessionLinks ==
  Link("query_log", {"collections"}, "cascade") \cup Link("upload_sessions", {"collections"}, "cascade")
    \cup Link("upload_sessions", {"users"}, "set null")
    \cup Link("webhook_deliveries", {"webhooks"}, "cascade")

SyncLinks ==
  Link("connector_documents", {"documents", "connector_sources"}, "cascade")
    \cup Link("connector_sync_jobs", {"connector_sources", "users"}, "set null")

ItemLinks ==
  Link("upload_session_items", {"documents"}, "set null")
    \cup Link("upload_session_items", {"upload_sessions"}, "cascade")

Links == AccountLinks \cup CollectionLinks \cup ProfileLinks \cup LogLinks \cup SourceLinks
           \cup DocumentLinks \cup SessionLinks \cup SyncLinks \cup ItemLinks
Tables == {l.child : l \in Links} \cup {l.parent : l \in Links}

VARIABLES
  absent,     \* the tables whose row was deleted
  unset,      \* the references that are NULL, of rows that are there
  under,      \* handlers between their check and their statement
  statements  \* statements so far

databaseVars == <<absent, unset, under, statements>>

Present(table) == table \notin absent
links == {l \in Links \ unset : Present(l.child)}

Handlers == {"delete preset", "delete collection", "delete source", "create collection",
             "add document"}

DatabaseTypeOK ==
  /\ absent \subseteq Tables
  /\ unset \subseteq Links
  /\ under \subseteq Handlers
  /\ statements \in 0..MaxStatements

\* An instance in use: every table has its row, and every reference is set.
DatabaseInit == absent = {} /\ unset = {} /\ under = {} /\ statements = 0

---------------------------------------------------------------------------
(* DELETE: the rows that go with the victims, level by level.                 *)

Below(parents) == {l.child : l \in {k \in links : k.rule = "cascade" /\ k.parent \in parents}}

(* Mutant of Doomed: what hangs on the children of the victims stays.        *)
DoomedOneLevel(victims) == victims \cup Below(victims)

\* No chain of the schema is longer than three links.
Doomed(victims) ==
  LET one == victims \cup Below(victims)
      two == one \cup Below(one)
  IN  two \cup Below(two)

\* A reference that restricts fails the statement, and nothing is deleted.
Restricted(victims) == \E l \in links : l.rule = "restrict" /\ l.parent \in Doomed(victims)

Counts == statements < MaxStatements /\ statements' = statements + 1

Nulled(gone) == {l \in links : l.rule = "set null" /\ l.parent \in gone}

\* The statement: rows that are not there match nothing.
DeleteWhere(victims) ==
  LET gone == Doomed(victims \ absent)
  IN  /\ Counts
      /\ IF Restricted(victims \ absent) THEN UNCHANGED <<absent, unset>>
         ELSE /\ absent' = absent \cup gone
              /\ unset' = {l \in unset \cup Nulled(gone) : l.child \notin absent'}

\* The references of a new row, which are all set, must be there when the
\* statement runs.
InsertInto(table) ==
  /\ Counts
  /\ absent' = IF \A l \in Links : l.child = table => Present(l.parent)
                 THEN absent \ {table} ELSE absent
  /\ UNCHANGED unset

---------------------------------------------------------------------------
(* The handlers.  "under" holds those whose check has passed.                 *)

Passes(h, found) ==
  h \notin under /\ found /\ under' = under \cup {h} /\ UNCHANGED <<absent, unset, statements>>
Executes(h) == h \in under /\ under' = under \ {h}

\* Users, keys, webhooks and sessions: the row is read and deleted.
DeleteUserRow == Present("users") /\ DeleteWhere({"users"}) /\ UNCHANGED under
DeleteApiKey == Present("api_keys") /\ DeleteWhere({"api_keys"}) /\ UNCHANGED under
DeleteWebhook == Present("webhooks") /\ DeleteWhere({"webhooks"}) /\ UNCHANGED under
Logout == Present("sessions") /\ DeleteWhere({"sessions"}) /\ UNCHANGED under

\* A preset goes when no collection was seen to use it.
CheckPreset ==
  Passes("delete preset",
         Present("embedding_presets")
           /\ ~\E l \in links : l.child = "collections" /\ l.parent = "embedding_presets")
DeletePreset == Executes("delete preset") /\ DeleteWhere({"embedding_presets"})

\* The collection is read, its jobs, files and vectors go, and then its row.
FindCollection == Passes("delete collection", Present("collections"))
DeleteCollection == Executes("delete collection") /\ DeleteWhere({"collections"})

TruncateCollection ==
  /\ Present("collections") /\ Present("documents")
  /\ DeleteWhere({"documents"})
  /\ UNCHANGED under

DeleteDocumentRow ==
  /\ Present("documents")
  /\ DeleteWhere({"documents"})
  /\ UNCHANGED under

\* A source goes with the documents that it has synced, in one transaction.
FindSource == Passes("delete source", Present("connector_sources"))
DeleteSourceRow ==
  /\ Executes("delete source")
  /\ DeleteWhere({"connector_sources"}
              \cup IF [child |-> "connector_documents", parent |-> "documents", rule |-> "cascade"] \in links
                     THEN {"documents"} ELSE {})


\* The embedding configuration is resolved from the preset, which is read long
\* before the row of the collection is inserted.
ResolveConfig == Passes("create collection", Present("embedding_presets"))
InsertCollection ==
  /\ Executes("create collection")
  /\ InsertInto("collections")

\* An upload reads the collection, stages its file and inserts the document.
StageDocument == Passes("add document", Present("collections"))
AddDocument ==
  /\ Executes("add document")
  /\ InsertInto("documents")

\* The daily job deletes old terminal upload sessions and old deliveries.
CleanupOldData ==
  \E table \in {"upload_sessions", "webhook_deliveries"} :
    /\ Present(table)
    /\ DeleteWhere({table})
    /\ UNCHANGED under

DatabaseNext ==
  \/ DeleteUserRow \/ DeleteApiKey \/ DeleteWebhook \/ Logout \/ CheckPreset \/ DeletePreset
  \/ FindCollection \/ DeleteCollection \/ TruncateCollection \/ DeleteDocumentRow
  \/ FindSource \/ DeleteSourceRow \/ ResolveConfig \/ InsertCollection
  \/ StageDocument \/ AddDocument \/ CleanupOldData

DatabaseSpec == DatabaseInit /\ [][DatabaseNext]_databaseVars

---------------------------------------------------------------------------
(* Properties.                                                                *)

CollectionParts ==
  {"documents", "document_elements", "connector_sources", "connector_source_credentials",
   "connector_documents", "upload_sessions", "upload_session_items",
   "chat_question_suggestions", "query_log"}

\* Whatever order the handlers come in, no row is left with a reference to one
\* that is gone, and a collection keeps its preset.
NothingDangles ==
  /\ \A l \in links : Present(l.parent)
  /\ Present("collections") =>
       [child |-> "collections", parent |-> "embedding_presets", rule |-> "restrict"] \in links

\* Nothing of a collection stays behind without it.
NothingStays == ~Present("collections") => CollectionParts \subseteq absent

\* The deletion of a user takes what is the user's own and nothing else, the one
\* of a source takes its documents but not its history, and no deletion takes
\* the rows of the audit and access logs.
DeletionsAreBounded ==
  LET lost == absent' \ absent IN
  /\ "users" \in lost => lost = {"users", "api_keys", "sessions", "user_preferences"} \ absent
  /\ "connector_sources" \in lost /\ "collections" \notin lost =>
       lost \cap {"connector_sync_jobs", "upload_sessions", "query_log"} = {}
  /\ lost \cap {"audit_log", "access_log", "instance_settings", "connector_sync_jobs"} = {}
  /\ "embedding_presets" \in lost => ~Present("collections")

\* Deletions leave no dangling reference and take no more than they should.
RowsHold ==
  /\ [](NothingDangles /\ NothingStays)
  /\ [][DeletionsAreBounded]_databaseVars
=============================================================================

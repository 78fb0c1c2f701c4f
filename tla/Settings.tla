------------------------------- MODULE Settings -------------------------------
(* Runtime settings (services/runtime_settings/, runtime_settings_apply.py,  *)
(* routers/admin_settings.py) and the swap of the vector store backend that  *)
(* they configure (services/vector_store/facade.py), in one API process and  *)
(* one worker (services/jobs/runtime.py).                                    *)
(*                                                                           *)
(* Two settings stand for all: "plain" for any that is also an attribute of  *)
(* the bootstrap configuration, "vector" for those that configure the store. *)
(* A backend is known by its number, in the order in which they are made.    *)
EXTENDS Naturals, FiniteSets

CONSTANTS
  Values,  \* values of a setting; one of them comes from the environment
  Bootstrap,
  NoSetting,
  Edits,   \* updates and resets
  Calls,   \* calls of the vector store in the API process
  MaxRestarts

\* The environment gives a setting one of its values.
ASSUME SettingsAssumption == Bootstrap \in Values

VARIABLES
  setRow,  \* instance_settings
  object,  \* config.settings of the API process, which applying overwrites
  store,   \* the VectorStore of each process
  edit,    \* updates and resets under way
  call,    \* the backend that a call got, 0 outside of a call
  setPast  \* backends made and closed, restarts, overlapping requests

settingsVars == <<setRow, object, store, edit, call, setPast>>

Settable == {"plain", "vector"}
Servers == {"api", "worker"}
Choices == [Settable -> Values]
Ready == [pc |-> "ready", keys |-> {}, to |-> NoSetting,
          values |-> [k \in Settable |-> Bootstrap]]

SettingsTypeOK ==
  /\ setRow \in [Settable -> Values \cup {NoSetting}]
  /\ object \in Choices
  /\ store \in [Servers -> [backend : Nat, value : Values, swapping : BOOLEAN]]
  /\ edit \in [Edits -> [pc : {"ready", "prepared", "committed", "swap", "done"},
                               keys : SUBSET Settable, to : Values \cup {NoSetting},
                               values : Choices]]
  /\ call \in [Calls -> Nat]
  /\ setPast \in [made : Nat, closed : SUBSET Nat, restarts : Nat, overlapped : BOOLEAN,
               reset : SUBSET Settable]

SettingsInit ==
  /\ setRow = [k \in Settable |-> NoSetting]
  /\ object = [k \in Settable |-> Bootstrap]
  /\ store = [p \in Servers |-> [backend |-> IF p = "api" THEN 1 ELSE 2,
                                   value |-> Bootstrap, swapping |-> FALSE]]
  /\ edit = [r \in Edits |-> Ready]
  /\ call = [c \in Calls |-> 0]
  /\ setPast = [made |-> 2, closed |-> {}, restarts |-> 0, overlapped |-> FALSE, reset |-> {}]

\* _runtime_value: without a row the attribute of config.settings decides, which
\* no one overwrites in a worker.
Effective(p, k) ==
  IF setRow[k] # NoSetting THEN setRow[k] ELSE IF p = "api" THEN object[k] ELSE Bootstrap

PendingEdits == {r \in Edits : edit[r].pc \notin {"ready", "done"}}
EditGoes(r, to) == edit' = [edit EXCEPT ![r].pc = to]

---------------------------------------------------------------------------
(* PUT and POST /reset of /v1/admin/settings.                               *)

\* The values of all settings as they will be, and a new backend, connected and
\* checked, when the store is concerned. A value that is stored already, or a
\* check that fails, ends the request.
Prepare(r, keys, to) ==
  /\ edit[r].pc = "ready"
  /\ keys # {}
  /\ to # NoSetting => \A k \in keys : to # (IF setRow[k] = NoSetting THEN object[k] ELSE setRow[k])
  /\ edit' = [edit EXCEPT ![r] =
       [pc |-> "prepared", keys |-> keys, to |-> to,
        values |-> [k \in Settable |->
          IF k \notin keys THEN Effective("api", k)
          ELSE IF to = NoSetting THEN object[k] ELSE to]]]
  /\ setPast' = [setPast EXCEPT !.overlapped = @ \/ PendingEdits # {}]
  /\ UNCHANGED <<setRow, object, store, call>>

StoreRow(r) ==
  LET q == edit[r] IN
  /\ setRow' = [k \in Settable |-> IF k \in q.keys THEN q.to ELSE setRow[k]]
  /\ setPast' = [setPast EXCEPT !.reset = IF q.to = NoSetting THEN @ \cup q.keys ELSE @ \ q.keys]
  /\ EditGoes(r, "committed")

\* update_settings and reset_settings. Nothing is applied for values that another
\* request has stored in the meantime.
CommitEdit(r) ==
  /\ edit[r].pc = "prepared"
  /\ IF edit[r].to # NoSetting /\ \A k \in edit[r].keys : setRow[k] = edit[r].to
     THEN EditGoes(r, "done") /\ UNCHANGED <<setRow, setPast>>
     ELSE StoreRow(r)
  /\ UNCHANGED <<object, store, call>>

\* apply_prepared_runtime_settings, one request at a time under its lock: the
\* configuration is overwritten, and the store begins to keep new calls out.
Apply(r) ==
  /\ edit[r].pc = "committed"
  /\ \A q \in Edits : edit[q].pc # "swap"
  /\ object' = edit[r].values
  /\ IF "vector" \in edit[r].keys
     THEN /\ store' = [store EXCEPT !["api"].swapping = TRUE]
          /\ EditGoes(r, "swap")
     ELSE /\ EditGoes(r, "done")
          /\ UNCHANGED store
  /\ UNCHANGED <<setRow, call, setPast>>

(* Mutant of Swap: it does not wait for the calls under way.                *)
SwapAtOnce(r) ==
  /\ edit[r].pc = "swap"
  /\ store' = [store EXCEPT !["api"] = [backend |-> setPast.made + 1, swapping |-> FALSE,
                                        value |-> edit[r].values["vector"]]]
  /\ setPast' = [setPast EXCEPT !.made = @ + 1, !.closed = @ \cup {store["api"].backend}]
  /\ EditGoes(r, "done")
  /\ UNCHANGED <<setRow, object, call>>

\* replace_with: once no call is under way.
Swap(r) ==
  /\ edit[r].pc = "swap"
  /\ \A c \in Calls : call[c] = 0
  /\ store' = [store EXCEPT !["api"] = [backend |-> setPast.made + 1, swapping |-> FALSE,
                                        value |-> edit[r].values["vector"]]]
  /\ setPast' = [setPast EXCEPT !.made = @ + 1, !.closed = @ \cup {store["api"].backend}]
  /\ EditGoes(r, "done")
  /\ UNCHANGED <<setRow, object, call>>

---------------------------------------------------------------------------
(* Calls of the store, the worker and restarts.                             *)

Enter(c) ==
  /\ call[c] = 0
  /\ ~store["api"].swapping
  /\ call' = [call EXCEPT ![c] = store["api"].backend]
  /\ UNCHANGED <<setRow, object, store, edit, setPast>>

Leave(c) ==
  /\ call[c] # 0
  /\ call' = [call EXCEPT ![c] = 0]
  /\ UNCHANGED <<setRow, object, store, edit, setPast>>

Replaced(p) ==
  /\ store' = [store EXCEPT ![p] = [backend |-> setPast.made + 1, swapping |-> FALSE,
                                    value |-> Effective(p, "vector")]]

\* ensure_worker_runtime, before every message: new values, new backend.
SyncWorker ==
  /\ store["worker"].value # Effective("worker", "vector")
  /\ Replaced("worker")
  /\ setPast' = [setPast EXCEPT !.made = @ + 1, !.closed = @ \cup {store["worker"].backend}]
  /\ UNCHANGED <<setRow, object, edit, call>>

\* A new API process starts from the environment and the rows.
RestartApi ==
  /\ setPast.restarts < MaxRestarts
  /\ object' = [k \in Settable |-> Bootstrap]
  /\ store' = [store EXCEPT !["api"] =
       [backend |-> setPast.made + 1, swapping |-> FALSE,
        value |-> IF setRow["vector"] = NoSetting THEN Bootstrap ELSE setRow["vector"]]]
  /\ setPast' = [setPast EXCEPT !.made = @ + 1, !.restarts = @ + 1]
  /\ edit' = [r \in Edits |-> IF r \in PendingEdits THEN [Ready EXCEPT !.pc = "done"]
                                                    ELSE edit[r]]
  /\ call' = [c \in Calls |-> 0]
  /\ UNCHANGED setRow

SettingsNext ==
  \/ \E r \in Edits, keys \in SUBSET Settable, to \in Values \cup {NoSetting} :
       Prepare(r, keys, to)
  \/ \E r \in Edits : CommitEdit(r) \/ Apply(r) \/ Swap(r)
  \/ \E c \in Calls : Enter(c) \/ Leave(c)
  \/ SyncWorker \/ RestartApi

SettingsSpec == SettingsInit /\ [][SettingsNext]_settingsVars

---------------------------------------------------------------------------
(* Properties.                                                              *)

\* A swap never closes the backend under a call, and a call never gets one that
\* is closed.
CallsKeepBackend == \A c \in Calls : call[c] \notin setPast.closed

\* When requests come one at a time, the API process ends up with the store that
\* its settings name; values prepared before another commit may undo it.
StoreIsCurrent ==
  PendingEdits = {} /\ ~setPast.overlapped => store["api"].value = Effective("api", "vector")

\* The vector store can be used while it is reconfigured.
BackendSound == CallsKeepBackend /\ StoreIsCurrent

\* A reset gives a setting its bootstrap value again. It does not hold: what was
\* applied last has overwritten the configuration that the default is read from.
ResetRestores ==
  PendingEdits = {} => \A k \in setPast.reset : Effective("api", k) = Bootstrap
=============================================================================

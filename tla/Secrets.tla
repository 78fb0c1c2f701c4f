------------------------------ MODULE Secrets ------------------------------
(* What is encrypted under the master key, and the rotation of that key       *)
(* (services/crypto.py, reencrypt.py, embedding_cache.py, preferences.py and  *)
(* auth.py).  A rotation restarts every process with a new key that can still *)
(* read the old one, rewrites the rows with bigrag-reencrypt, and restarts    *)
(* the processes without the old key (deployment/encryption.mdx).             *)
EXTENDS Naturals, Sequences

CONSTANTS
  Replicas,         \* processes that serve requests
  Models,           \* models with an encrypted column, in the order of the rewrite
  MaxSaves,         \* saves of a secret
  MaxRewriteFaults  \* rewrites that die

VARIABLES
  ring,       \* the keys of a process: the one that encrypts, and the ones that also decrypt
  column,     \* the encrypted column of a row of each model
  pref,       \* the preferences of a user: the chat key inside, and another field
  hash,       \* the master key under which the hash of an API key was made
  vector,     \* the row of the embedding cache
  rewrite,    \* the rewrite that runs
  stage,      \* how far the rotation is
  saving,     \* a request that has read the preferences
  secretPast  \* what the properties need to know of the past

secretsVars == <<ring, column, pref, hash, vector, rewrite, stage, saving, secretPast>>

\* The embedding cache comes last.
Order == Append(Models, "EmbeddingCache")
Encrypted == {Models[i] : i \in DOMAIN Models}
Old == 0
New == 1
NoSecret == [value |-> 0, key |-> New, there |-> FALSE]

SecretsAssumption == Models \in Seq(Encrypted) /\ "EmbeddingCache" \notin Encrypted
ASSUME SecretsAssumption

Rotated == [key |-> New, previous |-> {Old}]
NewOnly == [key |-> New, previous |-> {}]
SecretRows == [value : Nat, key : {Old, New}, there : BOOLEAN]
Pasts == [saves : Nat, faults : Nat, saved : [Encrypted -> Nat], raced : SUBSET Encrypted,
          window : SUBSET Encrypted, fields : [chat : Nat, other : Nat], merged : BOOLEAN]

SecretsTypeOK ==
  /\ ring \in [Replicas -> [key : {Old, New}, previous : SUBSET {Old}]]
  /\ column \in [Encrypted -> SecretRows]
  /\ pref \in [key : {Old, New}, chat : Nat, other : Nat]
  /\ hash \in {Old, New}
  /\ vector \in [there : BOOLEAN, key : {Old, New}]
  /\ rewrite \in [pc : {"idle", "select", "commit"}, at : DOMAIN Order, read : Nat, there : BOOLEAN]
  /\ stage \in {"before", "rewritten"}
  /\ saving \in [Replicas -> [pc : {"idle", "read"}, chat : Nat, other : Nat, key : {Old, New}]]
  /\ secretPast \in Pasts

NotSaving == [pc |-> "idle", chat |-> 0, other |-> 0, key |-> Old]

SecretsInit ==
  /\ ring = [p \in Replicas |-> [key |-> Old, previous |-> {}]]
  /\ column = [m \in Encrypted |-> [value |-> 0, key |-> Old, there |-> TRUE]]
  /\ pref = [key |-> Old, chat |-> 0, other |-> 0]
  /\ hash = Old
  /\ vector = [there |-> TRUE, key |-> Old]
  /\ rewrite = [pc |-> "idle", at |-> 1, read |-> 0, there |-> FALSE]
  /\ stage = "before"
  /\ saving = [p \in Replicas |-> NotSaving]
  /\ secretPast = [saves |-> 0, faults |-> 0, saved |-> [m \in Encrypted |-> 0], raced |-> {},
             window |-> {}, fields |-> [chat |-> 0, other |-> 0], merged |-> FALSE]

(* Mutant of Reads: the previous keys are not tried.                          *)
ReadsCurrent(ks, k) == k = ks.key

\* decrypt: the current key, then each of the previous ones.
Reads(ks, k) == k = ks.key \/ k \in ks.previous

---------------------------------------------------------------------------
(* The operator.                                                              *)

\* A process starts again with the new key, or without the old one; what it was
\* doing is gone.
Restart(p, ks) ==
  /\ ring' = [ring EXCEPT ![p] = ks]
  /\ saving' = [saving EXCEPT ![p] = NotSaving]
  /\ UNCHANGED <<column, pref, hash, vector, rewrite, stage, secretPast>>

Rotate(p) == ring[p].key = Old /\ Restart(p, Rotated)
DropOld(p) == stage = "rewritten" /\ ring[p] = Rotated /\ Restart(p, NewOnly)

\* bigrag-reencrypt, once every process has the new key.
Reencrypt ==
  /\ \A p \in Replicas : ring[p] = Rotated
  /\ stage = "before" /\ rewrite.pc = "idle"
  /\ rewrite' = [rewrite EXCEPT !.pc = "select", !.at = 1]
  /\ UNCHANGED <<ring, column, pref, hash, vector, stage, saving, secretPast>>

\* _reencrypt_model: all rows of a model are loaded and decrypted,
Select ==
  LET m == Order[rewrite.at] IN
  /\ rewrite.pc = "select" /\ m \in Encrypted
  /\ rewrite' = [rewrite EXCEPT !.pc = "commit", !.read = column[m].value,
                                !.there = column[m].there]
  /\ secretPast' = [secretPast EXCEPT !.window = {}]
  /\ UNCHANGED <<ring, column, pref, hash, vector, stage, saving>>

Goes == [rewrite EXCEPT !.pc = "select", !.at = @ + 1]

\* and one commit updates each to what was loaded.  A row that was deleted since
\* fails the update, and with it the rewrite; the rows of this model stay.
CommitRewrite ==
  LET m == Order[rewrite.at] IN
  /\ rewrite.pc = "commit"
  /\ IF rewrite.there /\ ~column[m].there
       THEN rewrite' = [rewrite EXCEPT !.pc = "idle"] /\ UNCHANGED <<column, secretPast>>
       ELSE /\ rewrite' = Goes
            /\ column' = IF rewrite.there
                           THEN [column EXCEPT ![m].value = rewrite.read, ![m].key = New]
                           ELSE column
            /\ secretPast' = [secretPast EXCEPT !.raced = @ \cup secretPast.window]
  /\ UNCHANGED <<ring, pref, hash, vector, stage, saving>>

\* _reencrypt_embedding_cache: rows that do not decrypt are skipped.
RewriteCache ==
  /\ rewrite.pc = "select" /\ Order[rewrite.at] = "EmbeddingCache"
  /\ vector' = IF vector.there /\ Reads(Rotated, vector.key)
                 THEN [vector EXCEPT !.key = New] ELSE vector
  /\ rewrite' = [rewrite EXCEPT !.pc = "idle"]
  /\ stage' = "rewritten"
  /\ UNCHANGED <<ring, column, pref, hash, saving, secretPast>>

\* The rewrite dies; the operator runs it again.
RewriteDies ==
  /\ rewrite.pc # "idle" /\ secretPast.faults < MaxRewriteFaults
  /\ rewrite' = [rewrite EXCEPT !.pc = "idle"]
  /\ secretPast' = [secretPast EXCEPT !.faults = @ + 1]
  /\ UNCHANGED <<ring, column, pref, hash, vector, stage, saving>>

---------------------------------------------------------------------------
(* The service.                                                               *)

Saves == secretPast.saves < MaxSaves

\* An admin saves a new secret: the row is loaded, which decrypts the old one,
\* and updated.
SaveSecret(p, m) ==
  /\ Saves /\ column[m].there /\ Reads(ring[p], column[m].key)
  /\ column' = [column EXCEPT ![m].value = secretPast.saves + 1, ![m].key = ring[p].key]
  /\ secretPast' = [secretPast EXCEPT
       !.saves = @ + 1, !.saved = [@ EXCEPT ![m] = secretPast.saves + 1],
       !.window = IF rewrite.pc = "commit" /\ Order[rewrite.at] = m THEN @ \cup {m} ELSE @,
       !.raced = @ \ {m}]
  /\ UNCHANGED <<ring, pref, hash, vector, rewrite, stage, saving>>

DeleteRow(p, m) ==
  /\ column[m].there /\ Reads(ring[p], column[m].key)
  /\ column' = [column EXCEPT ![m] = NoSecret]
  /\ UNCHANGED <<ring, pref, hash, vector, rewrite, stage, saving, secretPast>>

\* update_preferences reads the row, without decrypting the chat key in it,
ReadPreferences(p) ==
  /\ saving[p].pc = "idle" /\ Saves
  /\ saving' = [saving EXCEPT ![p] = [pc |-> "read", chat |-> pref.chat, other |-> pref.other,
                                      key |-> pref.key]]
  /\ UNCHANGED <<ring, column, pref, hash, vector, rewrite, stage, secretPast>>

\* merges the fields of the request into what it has read, and writes it all.
Merged(p, part) ==
  LET n == secretPast.saves + 1 IN
  IF part = "chat" THEN [key |-> ring[p].key, chat |-> n, other |-> saving[p].other]
                   ELSE [key |-> saving[p].key, chat |-> saving[p].chat, other |-> n]
UpdatePreferences(p, part) ==
  /\ saving[p].pc = "read" /\ Saves
  /\ pref' = Merged(p, part)
  /\ secretPast' = [secretPast EXCEPT
       !.saves = @ + 1, !.fields = [@ EXCEPT ![part] = secretPast.saves + 1],
       !.merged = @ \/ saving[p].chat # pref.chat \/ saving[p].other # pref.other]
  /\ saving' = [saving EXCEPT ![p] = NotSaving]
  /\ UNCHANGED <<ring, column, hash, vector, rewrite, stage>>

\* put_many writes under the current key, whatever the row held.
PutVector(p) ==
  /\ vector' = [there |-> TRUE, key |-> ring[p].key]
  /\ UNCHANGED <<ring, column, pref, hash, rewrite, stage, saving, secretPast>>

PurgeVectors ==
  /\ vector.there
  /\ vector' = [vector EXCEPT !.there = FALSE]
  /\ UNCHANGED <<ring, column, pref, hash, rewrite, stage, saving, secretPast>>

\* A new API key is hashed under the current key; lookups try the others too.
NewApiKey(p) ==
  /\ hash' = ring[p].key
  /\ UNCHANGED <<ring, column, pref, vector, rewrite, stage, saving, secretPast>>

SecretsNext ==
  \/ \E p \in Replicas :
       \/ Rotate(p) \/ DropOld(p) \/ ReadPreferences(p) \/ PutVector(p) \/ NewApiKey(p)
       \/ \E m \in Encrypted : SaveSecret(p, m) \/ DeleteRow(p, m)
       \/ \E part \in {"chat", "other"} : UpdatePreferences(p, part)
  \/ Reencrypt \/ Select \/ CommitRewrite \/ RewriteCache \/ RewriteDies \/ PurgeVectors

SecretsSpec == SecretsInit /\ [][SecretsNext]_secretsVars

---------------------------------------------------------------------------
(* Properties.                                                                *)

\* From the restart of the last process on, every process reads every encrypted
\* column, and still does when the old key is dropped; until then it may not
\* only where another process has already written under the new key.
ColumnsReadable ==
  \A p \in Replicas, m \in Encrypted :
    column[m].there /\ ~Reads(ring[p], column[m].key) => ring[p].key = Old

\* A secret that was saved stands, unless it was saved while the rewrite had the
\* row of its model in hand.
SavedStands ==
  \A m \in Encrypted :
    column[m].there /\ column[m].value # secretPast.saved[m] => m \in secretPast.raced

\* A field of the preferences stands, unless a request wrote over what another
\* had written since it read.
PreferencesStand ==
  [chat |-> pref.chat, other |-> pref.other] # secretPast.fields => secretPast.merged

\* No column is moved back to the old key once the rewrite has begun, and an
\* API key that works keeps working until the old key is dropped.
NoWayBack ==
  /\ \A m \in Encrypted :
       column[m].key = New /\ column'[m].key = Old => \E p \in Replicas : ring[p].key = Old
  /\ \A p \in Replicas : Reads(ring[p], hash) /\ ~Reads(ring'[p], hash) => stage = "rewritten"

\* Encrypted columns stay readable through a rotation, and what is saved stands, or
\* has a cause.
SecretsHold ==
  /\ [](ColumnsReadable /\ SavedStands /\ PreferencesStand)
  /\ [][NoWayBack]_secretsVars
=============================================================================

-------------------------------- MODULE Chat --------------------------------
(* A chat turn (services/chat): the credentials of the user, the sources, and *)
(* the answer of the model, whole or as a stream; the suggestions of          *)
(* questions, which ask the same way; the clients that requests share         *)
(* (provider.py), and the saved key that a rejection clears (credentials.py). *)
EXTENDS Naturals, FiniteSets

CONSTANTS
  Turns,         \* requests
  MaxKeys,       \* keys that the user saves, one after the other
  MaxDeltas,     \* pieces of an answer
  MaxClients,    \* _CHAT_CLIENTS_MAX
  MaxChatFaults  \* expiries, pauses of the model, rejected keys, failing providers

VARIABLES
  savedKey,  \* the saved key in the preferences; 0 is none
  keysMade,  \* keys saved so far
  bad,       \* keys that the provider rejects
  turn,      \* the requests
  client,    \* the cached clients: the key of each, and whether it is too old
  clients,   \* clients made so far, the cached and the closed ones
  there,     \* the document that the message names is in the collection
  wronged,   \* saved keys that a clearing took, and that were not the rejected one
  chatFaults

chatVars == <<savedKey, keysMade, bad, turn, client, clients, there, wronged, chatFaults>>

TurnKinds == {"complete", "stream", "questions"}
Ends == {"done", "error", "gone"}
Blank == [pc |-> "idle", kind |-> "complete", key |-> 0, found |-> FALSE, exact |-> FALSE,
          stayed |-> TRUE, client |-> 0, cut |-> FALSE, said |-> 0, sent |-> 0,
          paused |-> FALSE, read |-> 0, told |-> FALSE, dropped |-> FALSE]

ChatAssumption ==
  MaxKeys \in Nat /\ MaxDeltas \in Nat /\ MaxClients \in Nat \ {0} /\ MaxChatFaults \in Nat
ASSUME ChatAssumption

Places == {"idle", "sample", "search", "sources", "connect", "ask", "answer", "closed", "clear",
           "write"} \cup Ends
TurnRecords ==
  [pc : Places, kind : TurnKinds, key : Nat, found : BOOLEAN, exact : BOOLEAN, stayed : BOOLEAN,
   client : Nat, cut : BOOLEAN, said : Nat, sent : Nat, paused : BOOLEAN, read : Nat,
   told : BOOLEAN, dropped : BOOLEAN]
ClientRecords == [id : Nat \ {0}, key : Nat, old : BOOLEAN]

ChatTypeOK ==
  /\ keysMade \in Nat /\ savedKey \in 0..keysMade /\ bad \subseteq 1..keysMade
  /\ turn \in [Turns -> TurnRecords]
  /\ client \subseteq ClientRecords /\ IsFiniteSet(client) /\ clients \in Nat
  /\ there \in BOOLEAN
  /\ wronged \subseteq 1..keysMade
  /\ chatFaults \in Nat

ChatInit ==
  /\ savedKey = 1 /\ keysMade = 1 /\ bad = {}
  /\ turn = [r \in Turns |-> Blank]
  /\ client = {} /\ clients = 0
  /\ there = TRUE /\ wronged = {} /\ chatFaults = 0

ChatFault == chatFaults < MaxChatFaults /\ chatFaults' = chatFaults + 1
Step(r, to) == turn' = [turn EXCEPT ![r].pc = to]
Cached == <<client, clients>>

---------------------------------------------------------------------------
(* The user and the provider.                                                 *)

SaveKey ==
  /\ keysMade < MaxKeys /\ keysMade' = keysMade + 1 /\ savedKey' = keysMade + 1
  /\ UNCHANGED <<bad, turn, Cached, there, wronged, chatFaults>>

RejectKey(k) ==
  /\ k \in 1..keysMade \ bad /\ ChatFault /\ bad' = bad \cup {k}
  /\ UNCHANGED <<savedKey, keysMade, turn, Cached, there, wronged>>

\* The document goes, or comes back, under every turn that has not read it.
Document ==
  /\ ChatFault /\ there' = ~there
  /\ turn' = [r \in Turns |->
       IF turn[r].pc \in {"search", "sources"}
         THEN [turn[r] EXCEPT !.stayed = FALSE] ELSE turn[r]]
  /\ UNCHANGED <<savedKey, keysMade, bad, Cached, wronged>>

---------------------------------------------------------------------------
(* A turn.                                                                    *)

\* _resolve_api_credentials: the saved key, or no turn (a request that brings its
\* own key and an instance that has one are left out).
BeginTurn(r, kind) ==
  /\ turn[r].pc = "idle"
  /\ turn' = [turn EXCEPT ![r] =
       IF savedKey = 0 THEN [Blank EXCEPT !.pc = "error", !.kind = kind]
       ELSE [Blank EXCEPT !.pc = IF kind = "questions" THEN "sample" ELSE "search",
                          !.kind = kind, !.key = savedKey, !.stayed = there]]
  /\ UNCHANGED <<savedKey, keysMade, bad, Cached, there, wronged, chatFaults>>

\* generate_question_suggestions takes the same credentials and no message,
Suggest(r) == BeginTurn(r, "questions")

\* and a sample of the ready documents; the one here is all that there are.
Sample(r) ==
  /\ turn[r].pc = "sample"
  /\ Step(r, IF there THEN "connect" ELSE "error")
  /\ UNCHANGED <<savedKey, keysMade, bad, Cached, there, wronged, chatFaults>>

\* retrieve, and then _sources_for_chat: a document that the message names and
\* the search did not find is looked up by its id.
Retrieve(r) ==
  /\ turn[r].pc = "search"
  /\ \E hit \in {FALSE, there} : turn' = [turn EXCEPT ![r].pc = "sources", ![r].found = hit]
  /\ UNCHANGED <<savedKey, keysMade, bad, Cached, there, wronged, chatFaults>>

(* Mutant of FindSources: what the search has found is added again.         *)
FindSourcesTwice(r) ==
  /\ turn[r].pc = "sources"
  /\ turn' = [turn EXCEPT ![r].pc = "connect", ![r].exact = there]
  /\ UNCHANGED <<savedKey, keysMade, bad, Cached, there, wronged, chatFaults>>

FindSources(r) ==
  /\ turn[r].pc = "sources"
  /\ turn' = [turn EXCEPT ![r].pc = "connect", ![r].exact = there /\ ~turn[r].found]
  /\ UNCHANGED <<savedKey, keysMade, bad, Cached, there, wronged, chatFaults>>

\* Requests whose client is closed under them.
Cut(closed) == [r \in Turns |->
  IF turn[r].pc \in {"ask", "answer"} /\ turn[r].client \in {c.id : c \in closed}
    THEN [turn[r] EXCEPT !.cut = TRUE] ELSE turn[r]]

\* _openai_client: the cached client; or a new one, that puts an old one of the
\* same key out, and, when there are too many, the oldest.
Connect(r) ==
  LET mine == {c \in client : c.key = turn[r].key}
      fresh == {c \in mine : ~c.old}
      new == [id |-> clients + 1, key |-> turn[r].key, old |-> FALSE]
      kept == client \ mine
      out == IF Cardinality(kept) < MaxClients THEN {}
             ELSE {c \in kept : \A d \in kept : c.id <= d.id}
  IN
  /\ turn[r].pc = "connect"
  /\ IF fresh # {}
       THEN /\ \E c \in fresh : turn' = [turn EXCEPT ![r].pc = "ask", ![r].client = c.id]
            /\ UNCHANGED Cached
       ELSE /\ clients' = clients + 1
            /\ client' = (kept \ out) \cup {new}
            /\ turn' = [Cut(mine \cup out) EXCEPT ![r].pc = "ask", ![r].client = new.id]
  /\ UNCHANGED <<savedKey, keysMade, bad, there, wronged, chatFaults>>

ClientAges ==
  /\ ChatFault
  /\ \E c \in client : ~c.old /\ client' = (client \ {c}) \cup {[c EXCEPT !.old = TRUE]}
  /\ UNCHANGED <<savedKey, keysMade, bad, turn, clients, there, wronged>>

\* The request is refused for its key, or answered; the answer says "cleared".
Asked(r, refused) ==
  /\ turn[r].pc = "ask"
  /\ turn' = [turn EXCEPT
       ![r].pc = IF turn[r].cut THEN "error"
                 ELSE IF turn[r].key \in bad THEN refused ELSE "answer",
       ![r].told = ~turn[r].cut /\ turn[r].key \in bad]
  /\ UNCHANGED <<savedKey, keysMade, bad, Cached, there, wronged, chatFaults>>

AskModel(r) == turn[r].kind # "questions" /\ Asked(r, "clear")

\* generate_questions_text: the same answer, and nothing is cleared.
AskForQuestions(r) == turn[r].kind = "questions" /\ Asked(r, "error")

\* The model says a piece.
Say(r) ==
  /\ turn[r].pc = "answer" /\ turn[r].said < MaxDeltas
  /\ turn' = [turn EXCEPT ![r].said = @ + 1]
  /\ UNCHANGED <<savedKey, keysMade, bad, Cached, there, wronged, chatFaults>>

\* stream_chat_completion: a piece is passed on.
Pass(r) ==
  /\ turn[r].pc = "answer" /\ turn[r].kind = "stream" /\ turn[r].sent < turn[r].said
  /\ turn' = [turn EXCEPT ![r].sent = @ + 1]
  /\ UNCHANGED <<savedKey, keysMade, bad, Cached, there, wronged, chatFaults>>

\* Fifteen seconds without a piece: a heartbeat is sent. wait_for has canceled
\* the generator that it waited for, and the next round finds it at its end.
Heartbeat(r) ==
  /\ turn[r].pc = "answer" /\ turn[r].kind = "stream" /\ turn[r].sent = turn[r].said
  /\ turn[r].said < MaxDeltas /\ ChatFault
  /\ turn' = [turn EXCEPT ![r].pc = "closed", ![r].paused = TRUE]
  /\ UNCHANGED <<savedKey, keysMade, bad, Cached, there, wronged>>

\* The end of the generator is the end of the answer; a whole answer comes at once.
Finish(r) ==
  /\ \/ turn[r].pc = "closed"
     \/ turn[r].pc = "answer" /\ turn[r].said = MaxDeltas
          /\ (turn[r].kind = "stream" => turn[r].sent = turn[r].said)
  /\ Step(r, "done")
  /\ UNCHANGED <<savedKey, keysMade, bad, Cached, there, wronged, chatFaults>>

\* The provider fails or times out, or the client was closed.
TurnFails(r) ==
  /\ turn[r].pc \in {"ask", "answer"} /\ (turn[r].cut \/ chatFaults < MaxChatFaults)
  /\ chatFaults' = IF turn[r].cut THEN chatFaults ELSE chatFaults + 1
  /\ Step(r, "error")
  /\ UNCHANGED <<savedKey, keysMade, bad, Cached, there, wronged>>

\* The reader of a stream is gone.
Disconnect(r) ==
  /\ turn[r].kind = "stream" /\ turn[r].pc \in {"search", "sources", "answer", "closed"}
  /\ Step(r, "gone")
  /\ UNCHANGED <<savedKey, keysMade, bad, Cached, there, wronged, chatFaults>>

\* _clear_saved_chat_key: the preferences are read,
ReadSavedKey(r) ==
  /\ turn[r].pc = "clear"
  /\ IF savedKey = 0 THEN Step(r, "error")
     ELSE turn' = [turn EXCEPT ![r].pc = "write", ![r].read = savedKey]
  /\ UNCHANGED <<savedKey, keysMade, bad, Cached, there, wronged, chatFaults>>

\* and written back without a key, whatever has been saved meanwhile.
WritePreferences(r) ==
  /\ turn[r].pc = "write"
  /\ savedKey' = 0
  /\ wronged' = wronged \cup ({savedKey} \ {0, turn[r].key})
  /\ turn' = [turn EXCEPT ![r].pc = "error", ![r].dropped = TRUE]
  /\ UNCHANGED <<keysMade, bad, Cached, there, chatFaults>>

ChatNext ==
  \/ SaveKey \/ Document \/ ClientAges
  \/ \E k \in 1..MaxKeys : RejectKey(k)
  \/ \E r \in Turns :
       \/ \E kind \in TurnKinds \ {"questions"} : BeginTurn(r, kind)
       \/ Suggest(r) \/ Sample(r) \/ Retrieve(r) \/ FindSources(r) \/ Connect(r)
       \/ AskModel(r) \/ AskForQuestions(r) \/ Say(r) \/ Pass(r) \/ Heartbeat(r)
       \/ Finish(r) \/ TurnFails(r) \/ Disconnect(r) \/ ReadSavedKey(r) \/ WritePreferences(r)

ChatSpec == ChatInit /\ [][ChatNext]_chatVars

---------------------------------------------------------------------------
(* Properties.                                                                *)

\* A stream that ends with "done" has passed on all that the model said: a
\* failure after the start is an "error" event (api-reference/chat.mdx).
StreamComplete ==
  \A r \in Turns : turn[r].kind = "stream" /\ turn[r].pc = "done" => turn[r].sent = MaxDeltas

\* A stream is cut short without an error only after a pause of the model.
ShortHasCause ==
  \A r \in Turns :
    turn[r].kind = "stream" /\ turn[r].pc = "done" /\ turn[r].sent < MaxDeltas => turn[r].paused

\* A key that is cleared was rejected, or was saved after the rejected one; and a
\* turn that tells its user that the key is cleared has cleared it, found none,
\* or is about to - but the suggestions of questions, which clear nothing.
ClearHasCause ==
  /\ savedKey = 0 => 1..keysMade \cap bad # {}
  /\ keysMade \in wronged =>
       \E r \in Turns : turn[r].dropped /\ turn[r].key \in bad /\ turn[r].key < keysMade
  /\ \A r \in Turns :
       turn[r].told /\ savedKey = turn[r].key =>
         turn[r].pc \in {"clear", "write"} \/ turn[r].kind = "questions"

\* One client a key is cached; a client is closed under a request only if it was
\* too old or one too many; every other request holds one that is cached.
ClientsSound ==
  /\ \A c, d \in client : c.key = d.key => c = d
  /\ Cardinality(client) <= MaxClients
  /\ \A r \in Turns :
       turn[r].pc \in {"ask", "answer"} =>
         (turn[r].cut <=> turn[r].client \notin {c.id : c \in client})

\* A document that the message names is a source of the turn if it was there all
\* along, and is no source twice.
NamedIsSource ==
  \A r \in Turns :
    turn[r].pc \in {"connect", "ask", "answer"} /\ turn[r].kind # "questions" /\ turn[r].stayed =>
      (turn[r].found <=> ~turn[r].exact)

\* All of it.
ChatSound == ShortHasCause /\ ClearHasCause /\ ClientsSound /\ NamedIsSource
=============================================================================

-------------------------------- MODULE Access --------------------------------
(* Who may do what: users, their sessions and API keys (routers/auth.py,     *)
(* admin_users.py, admin_api_keys.py, mcp_servers.py) and the principals     *)
(* that middleware/auth.py caches in Redis for a minute.                     *)
(*                                                                           *)
(* A request authenticates, with a look into the cache, a query and a fill,  *)
(* and then does its work: it reads, commits and invalidates, each a step of *)
(* its own, with other requests in between.                                  *)
EXTENDS Naturals, FiniteSets

CONSTANTS
  Users,
  Sessions,    \* session tokens
  Keys,        \* secrets of API keys, MCP keys among them; all belong to KeyOwner
  KeyOwner,
  Requests,    \* what can be under way at the same time
  NoUser,
  MaxRequests, \* requests altogether
  MaxFaults    \* Redis errors and dying processes

\* There are tokens, the keys belong to a user, and users are finitely many.
AccessConstants ==
  /\ Sessions # {}
  /\ KeyOwner \in Users /\ NoUser \notin Users
  /\ IsFiniteSet(Users)

ASSUME AccessAssumption == AccessConstants

VARIABLES
  user,    \* the rows of users
  token,   \* sessions and keys with their rows
  cached,  \* the role of the principal that Redis holds for a token
  at,      \* where the requests stand
  past     \* what the properties need to know of the past

accessVars == <<user, token, cached, at, past>>

Tokens == Sessions \cup Keys
Roles == {"admin", "member"}
Personal == {"logout", "logout_all", "password"}
Administrative == {"role", "reset", "delete", "key"}
Kinds == {"read", "login"} \cup Personal \cup Administrative
Idle == [pc |-> "idle", kind |-> "read", by |-> NoUser, token |-> NoUser,
         of |-> NoUser, saw |-> "none", many |-> FALSE, pw |-> 0]

AccessTypeOK ==
  /\ user \in [Users -> [role : Roles \cup {"none"}, pw : Nat]]
  /\ token \in [Tokens -> [is : {"unused", "live", "gone"}, of : Users \cup {NoUser}, pw : Nat]]
  /\ cached \in [Tokens -> Roles \cup {"none"}]
  /\ at \in [Requests -> [pc : {"idle", "look", "query", "fill", "begin", "commit", "invalidate"},
                          kind : Kinds, by : Users \cup {NoUser}, token : Tokens \cup {NoUser},
                          of : Users \cup {NoUser}, saw : Roles \cup {"none"}, many : BOOLEAN, pw : Nat]]
  /\ past \in [requests : Nat, faults : Nat, excused : SUBSET Tokens,
               raced : BOOLEAN, overlapped : BOOLEAN]

AccessInit ==
  /\ user = [u \in Users |-> [role |-> "none", pw |-> 0]]
  /\ token = [t \in Tokens |-> [is |-> "unused", of |-> NoUser, pw |-> 0]]
  /\ cached = [t \in Tokens |-> "none"]
  /\ at = [r \in Requests |-> Idle]
  /\ past = [requests |-> 0, faults |-> 0, excused |-> {}, raced |-> FALSE,
             overlapped |-> FALSE]

Admins == {u \in Users : user[u].role = "admin"}
Exists(u) == user[u].role # "none"
SessionsOf(u) == {t \in Sessions : token[t].is = "live" /\ token[t].of = u}
TokensOf(u) == {t \in Tokens : token[t].is = "live" /\ token[t].of = u}
NewToken == CHOOSE t \in Sessions : token[t].is = "unused"
Fault == past.faults < MaxFaults
Goto(r, pc) == at' = [at EXCEPT ![r].pc = pc]
Done(r) == at' = [at EXCEPT ![r] = Idle]
Ended(ts) == [t \in Tokens |-> IF t \in ts THEN [token[t] EXCEPT !.is = "gone"] ELSE token[t]]

\* The role that the database gives a token.
Truth(t) == IF token[t].is = "live" THEN user[token[t].of].role ELSE "none"
Stale(t) == cached[t] # "none" /\ cached[t] # Truth(t)

---------------------------------------------------------------------------
(* Setup and login.                                                         *)

\* POST /setup counts, inserts and commits under the advisory lock. The other
\* users and the key are there when the first requests arrive. Users who are
\* gone never return: a setup after all of them makes new ones, not followed here.
Setup ==
  /\ \A u \in Users : user[u].role = "none"
  /\ \A t \in Tokens : token[t].is = "unused"
  /\ \E first \in Users, role \in [Users -> Roles] :
       /\ role[first] = "admin"
       /\ user' = [u \in Users |-> [user[u] EXCEPT !.role = role[u]]]
       /\ token' = [x \in Tokens |->
            IF x = NewToken THEN [is |-> "live", of |-> first, pw |-> 0]
            ELSE IF x \in Keys THEN [is |-> "live", of |-> KeyOwner, pw |-> 0]
            ELSE token[x]]
  /\ UNCHANGED <<cached, at, past>>

\* A request that carries a token, for some user where the route names one.
Arrive(r, kind, t, u) ==
  /\ at[r] = Idle
  /\ past.requests < MaxRequests
  /\ token[t].is # "unused"
  /\ kind # "login"
  /\ kind \in {"role", "reset", "delete"} <=> u # NoUser
  /\ kind # "read" => t \in Sessions
  /\ at' = [at EXCEPT ![r] = [Idle EXCEPT !.pc = "look", !.kind = kind, !.token = t, !.of = u]]
  /\ past' = [past EXCEPT !.requests = @ + 1]
  /\ UNCHANGED <<user, token, cached>>

\* POST /login reads the user and verifies the password against that copy ...
Login(r, u) ==
  /\ at[r] = Idle
  /\ past.requests < MaxRequests
  /\ user[u].role # "none"
  /\ at' = [at EXCEPT ![r] = [Idle EXCEPT !.pc = "commit", !.kind = "login", !.of = u,
                                           !.pw = user[u].pw]]
  /\ past' = [past EXCEPT !.requests = @ + 1]
  /\ UNCHANGED <<user, token, cached>>

\* ... and commits a new session. The foreign key refuses one of a deleted user.
LoginCommits(r) ==
  /\ at[r].pc = "commit" /\ at[r].kind = "login"
  /\ IF ~Exists(at[r].of) THEN UNCHANGED token
     ELSE /\ \E t \in Sessions : token[t].is = "unused"
          /\ token' = [token EXCEPT ![NewToken] =
                         [is |-> "live", of |-> at[r].of, pw |-> at[r].pw]]
  /\ Done(r)
  /\ UNCHANGED <<user, cached, past>>

---------------------------------------------------------------------------
(* get_current_user, with require_session and require_admin_session.        *)

Needs(kind) == IF kind \in Administrative THEN {"admin"} ELSE Roles

\* The principal is known: the request goes on, or ends with 403.
Granted(r, role) ==
  IF role \in Needs(at[r].kind) /\ at[r].kind # "read"
  THEN at' = [at EXCEPT ![r].pc = "begin", ![r].by = token[at[r].token].of]
  ELSE Done(r)

Look(r) ==
  LET t == at[r].token IN
  /\ at[r].pc = "look"
  /\ \/ cached[t] # "none" /\ Granted(r, cached[t]) /\ UNCHANGED past
     \/ cached[t] = "none" /\ Goto(r, "query") /\ UNCHANGED past
     \/ Fault /\ past' = [past EXCEPT !.faults = @ + 1] /\ Goto(r, "query")
  /\ UNCHANGED <<user, token, cached>>

Query(r) ==
  LET role == Truth(at[r].token) IN
  /\ at[r].pc = "query"
  /\ IF role = "none" THEN Done(r)
                      ELSE at' = [at EXCEPT ![r].pc = "fill", ![r].saw = role]
  /\ UNCHANGED <<user, token, cached, past>>

\* The principal of the query is stored, whatever has been committed and
\* invalidated since; an error is swallowed.
Fill(r) ==
  LET t == at[r].token IN
  /\ at[r].pc = "fill"
  /\ \/ /\ cached' = [cached EXCEPT ![t] = at[r].saw]
        /\ past' = [past EXCEPT !.excused = IF at[r].saw # Truth(t) THEN @ \cup {t} ELSE @]
     \/ Fault /\ past' = [past EXCEPT !.faults = @ + 1] /\ UNCHANGED cached
  /\ Granted(r, at[r].saw)
  /\ UNCHANGED <<user, token>>

---------------------------------------------------------------------------
(* The work of a request: what it reads before it writes ...                *)

\* A deletion counts the admins in the snapshot of its statement.
Several == Cardinality(Admins) > 1

\* A password is verified against the row.
Begin(r) ==
  LET u == IF at[r].of = NoUser THEN at[r].by ELSE at[r].of IN
  /\ at[r].pc = "begin"
  /\ IF ~Exists(u) \/ (at[r].kind = "delete" /\ u = at[r].by)
     THEN Done(r)
     ELSE at' = [at EXCEPT ![r].pc = "commit", ![r].of = u,
                           ![r].many = at[r].kind = "delete" /\ Several]
  /\ UNCHANGED <<user, token, cached, past>>

(* ... and its commit. A row that is gone by then makes it fail.            *)

Commits(r, kinds) == at[r].pc = "commit" /\ at[r].kind \in kinds
LoggingIn(u) == \E q \in Requests : Commits(q, {"login"}) /\ at[q].of = u
Deleting(r) == \E q \in Requests \ {r} : Commits(q, {"delete"})

Fail(r) ==
  /\ Commits(r, Personal \cup Administrative)
  /\ ~Exists(at[r].of)
  /\ Done(r)
  /\ UNCHANGED <<user, token, cached, past>>

\* A logout, of one session or of all of them, and a revoked or rotated key.
End(r) ==
  /\ Commits(r, {"logout", "logout_all", "key"}) /\ Exists(at[r].of)
  /\ token' = Ended(CASE at[r].kind = "logout" -> {at[r].token}
                      [] at[r].kind = "key" -> Keys
                      [] OTHER -> SessionsOf(at[r].of))
  /\ Goto(r, "invalidate")
  /\ UNCHANGED <<user, cached, past>>

\* A new password, the user's own or one that an admin sets, ends all sessions.
ChangePassword(r) ==
  LET u == at[r].of IN
  /\ Commits(r, {"password", "reset"}) /\ Exists(at[r].of)
  /\ user' = [user EXCEPT ![u].pw = @ + 1]
  /\ token' = Ended(SessionsOf(u))
  /\ past' = [past EXCEPT !.raced = @ \/ LoggingIn(u)]
  /\ Goto(r, "invalidate")
  /\ UNCHANGED cached

\* A demotion locks all admins and is refused for the last one.
ChangeRole(r) ==
  LET u == at[r].of IN
  /\ Commits(r, {"role"}) /\ Exists(at[r].of)
  /\ IF Admins = {u} THEN Done(r) /\ UNCHANGED <<user, past>>
     ELSE /\ user' = [user EXCEPT ![u].role = IF @ = "admin" THEN "member" ELSE "admin"]
          /\ past' = [past EXCEPT !.overlapped = @ \/ Deleting(r)]
          /\ Goto(r, "invalidate")
  /\ UNCHANGED <<token, cached>>

\* A deletion takes the sessions and keys of the user along.
DeleteUser(r) ==
  LET u == at[r].of IN
  /\ Commits(r, {"delete"}) /\ Exists(at[r].of)
  /\ IF user[u].role = "admin" /\ ~at[r].many
     THEN Done(r) /\ UNCHANGED <<user, token, past>>
     ELSE /\ user' = [user EXCEPT ![u].role = "none"]
          /\ token' = Ended(TokensOf(u))
          /\ past' = [past EXCEPT !.overlapped = @ \/ Deleting(r)]
          /\ Goto(r, "invalidate")
  /\ UNCHANGED cached

---------------------------------------------------------------------------
(* Invalidation, after the commit.                                          *)

(* Mutant of Covered: only the principal of the request itself is dropped.  *)
CoveredOwn(r) == {at[r].token}

Covered(r) ==
  CASE at[r].kind = "logout" -> {at[r].token}
    [] at[r].kind = "key" -> Keys
    [] OTHER -> Tokens

Invalidate(r) ==
  /\ at[r].pc = "invalidate"
  /\ cached' = [t \in Tokens |-> IF t \in Covered(r) THEN "none" ELSE cached[t]]
  /\ past' = [past EXCEPT !.excused = @ \ Covered(r)]
  /\ Done(r)
  /\ UNCHANGED <<user, token>>

\* An error of Redis is swallowed, and the process can die before.
Miss(r) ==
  /\ at[r].pc = "invalidate"
  /\ Fault
  /\ past' = [past EXCEPT !.faults = @ + 1,
                          !.excused = @ \cup {t \in Covered(r) : Stale(t)}]
  /\ Done(r)
  /\ UNCHANGED <<user, token, cached>>

\* The time to live of a principal is over.
Expire(t) ==
  /\ cached[t] # "none"
  /\ cached' = [cached EXCEPT ![t] = "none"]
  /\ past' = [past EXCEPT !.excused = @ \ {t}]
  /\ UNCHANGED <<user, token, at>>

Authenticate(r) == Look(r) \/ Query(r) \/ Fill(r)
Commit(r) == LoginCommits(r) \/ Fail(r) \/ End(r) \/ ChangePassword(r) \/ ChangeRole(r)
               \/ DeleteUser(r)

AccessNext ==
  \/ Setup
  \/ \E r \in Requests, kind \in Kinds, t \in Tokens, u \in Users \cup {NoUser} :
       Arrive(r, kind, t, u)
  \/ \E r \in Requests, u \in Users : Login(r, u)
  \/ \E r \in Requests : Authenticate(r) \/ Begin(r) \/ Commit(r) \/ Invalidate(r) \/ Miss(r)
  \/ \E t \in Tokens : Expire(t)

AccessSpec == AccessInit /\ [][AccessNext]_accessVars

---------------------------------------------------------------------------
(* Properties.                                                              *)

\* A cached principal that the database no longer confirms has its reason: an
\* invalidation that is still due, one that failed, or a fill by a request that
\* had read the rows before they changed.
StaleHasCause ==
  \A t \in Tokens : Stale(t) =>
    \/ t \in past.excused
    \/ \E r \in Requests : at[r].pc = "invalidate" /\ t \in Covered(r)

\* No session of an earlier password survives a change of it, but for a login
\* that had verified the earlier one and commits later.
OldSessionHasCause ==
  \A t \in Sessions :
    token[t].is = "live" /\ token[t].pw < user[token[t].of].pw => past.raced

\* Revocation reaches every process, but for those two causes.
RevocationHolds == StaleHasCause /\ OldSessionHasCause

\* Once set up, the instance keeps an admin, as long as no deletion commits
\* under another change of admins.
KeepsAdmin ==
  Admins = {} => past.overlapped \/ \A u \in Users : user[u].role = "none"

\* Both together.
RightsHold == RevocationHolds /\ KeepsAdmin

\* "The last admin cannot be removed": it does not hold for two deletions at a
\* time, each of which counts the admin that the other removes.
LastAdminStays ==
  (\E t \in Tokens : token[t].is # "unused") => Admins # {}
=============================================================================

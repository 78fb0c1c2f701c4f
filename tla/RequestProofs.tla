------------------------------- MODULE RequestProofs --------------------------------
(* Proofs about requests: who may make them (Access), that they take effect  *)
(* once (Idempotency), those of the chat (Chat) and of upload sessions       *)
(* (UploadSession), and the records they leave in the logs (Records).        *)
EXTENDS Access, Idempotency, Chat, UploadSession, Records, FiniteSetTheorems,
        WellFoundedInduction, TLAPS

(* Proofs about Access, for any users, session tokens, keys and requests.    *)

Pcs == {"idle", "look", "query", "fill", "begin", "commit", "invalidate"}
Stands == [pc : Pcs, kind : Kinds, by : Users \cup {NoUser}, token : Tokens \cup {NoUser},
           of : Users \cup {NoUser}, saw : Roles \cup {"none"}, many : BOOLEAN, pw : Nat]
UserRows == [role : Roles \cup {"none"}, pw : Nat]
TokenRows == [is : {"unused", "live", "gone"}, of : Users \cup {NoUser}, pw : Nat]

Used(t) == token[t].is # "unused"

\* Nothing happens before the setup.
Unstarted ==
  (\A t \in Tokens : ~Used(t)) =>
    /\ \A u \in Users : user[u].role = "none" /\ user[u].pw = 0
    /\ \A r \in Requests : at[r].pc = "idle"

\* A token belongs to a user once it is issued, and is not cached before.
Owned ==
  \A t \in Tokens : IF Used(t) THEN token[t].of \in Users ELSE cached[t] = "none"

\* What a request carries at each point of its way.
Carry(q) ==
  /\ q.pc # "idle" /\ q.kind # "login" => q.token \in Tokens /\ Used(q.token)
  /\ q.pc \in {"look", "query", "fill", "begin", "invalidate"} => q.kind # "login"
  /\ q.pc = "begin" => q.by \in Users
  /\ q.pc = "commit" => q.of \in Users

Carries == \A r \in Requests : Carry(at[r])

\* The keys are issued with the first token.
KeysIssued == (\E t \in Tokens : Used(t)) => \A t \in Keys : Used(t)

\* A login that is about to commit has verified the password of today.
LoginsCurrent ==
  \A r \in Requests : Commits(r, {"login"}) => past.raced \/ at[r].pw = user[at[r].of].pw

\* A deletion that has seen several admins leaves one, unless others interfered.
CountsHold ==
  \A r \in Requests :
    Commits(r, {"delete"}) /\ at[r].many => past.overlapped \/ Cardinality(Admins) > 1

AccessInv == AccessTypeOK /\ Unstarted /\ KeysIssued /\ Owned /\ Carries

---------------------------------------------------------------------------

LEMMA Types ==
  ASSUME AccessTypeOK
  PROVE  /\ user \in [Users -> UserRows] /\ token \in [Tokens -> TokenRows]
         /\ cached \in [Tokens -> Roles \cup {"none"}] /\ at \in [Requests -> Stands]
         /\ past \in [requests : Nat, faults : Nat, excused : SUBSET Tokens,
                      raced : BOOLEAN, overlapped : BOOLEAN]
BY DEF AccessTypeOK, UserRows, TokenRows, Stands, Pcs

LEMMA IdleStands == Idle \in Stands /\ Idle.pc = "idle" /\ Carry(Idle)
<1>1. Idle.pc = "idle" /\ Idle \in Stands
  BY DEF Idle, Stands, Pcs, Kinds, Roles
<1>. QED
  BY <1>1 DEF Carry

LEMMA InitAccess == ASSUME AccessConstants, AccessInit PROVE AccessInv
<1>1. AccessTypeOK
  <2>1. /\ user \in [Users -> UserRows] /\ token \in [Tokens -> TokenRows]
        /\ cached \in [Tokens -> Roles \cup {"none"}] /\ at \in [Requests -> Stands]
    BY IdleStands DEF AccessInit, UserRows, TokenRows
  <2>. QED
    BY <2>1 DEF AccessInit, AccessTypeOK, UserRows, TokenRows, Stands, Pcs
<1>. QED
  BY <1>1, IdleStands DEF AccessInit, AccessInv, Unstarted, KeysIssued, Owned, Carries, Used

---------------------------------------------------------------------------
(* What the helpers of the actions do to the requests.                      *)

LEMMA Gone ==
  ASSUME AccessTypeOK, NEW r \in Requests, Done(r)
  PROVE  /\ at' \in [Requests -> Stands] /\ at'[r] = Idle
         /\ \A q \in Requests \ {r} : at'[q] = at[q]
BY Types, IdleStands DEF Done

LEMMA Moved ==
  ASSUME AccessTypeOK, NEW r \in Requests, NEW pc \in Pcs, Goto(r, pc)
  PROVE  /\ at' \in [Requests -> Stands] /\ at'[r].pc = pc
         /\ at'[r].kind = at[r].kind /\ at'[r].by = at[r].by /\ at'[r].token = at[r].token
         /\ at'[r].of = at[r].of /\ at'[r].many = at[r].many /\ at'[r].pw = at[r].pw
         /\ \A q \in Requests \ {r} : at'[q] = at[q]
<1>1. at[r] \in Stands /\ at \in [Requests -> Stands]
  BY Types
<1>2. [at[r] EXCEPT !.pc = pc] \in Stands
  BY <1>1 DEF Stands
<1>3. at' = [at EXCEPT ![r] = [at[r] EXCEPT !.pc = pc]]
  BY DEF Goto
<1>4. at'[r] = [at[r] EXCEPT !.pc = pc]
  BY <1>1, <1>3
<1>. QED
  BY <1>1, <1>2, <1>3, <1>4 DEF Stands

LEMMA Let ==
  ASSUME AccessTypeOK, Owned, NEW r \in Requests, NEW role, Granted(r, role),
         at[r].pc \in {"look", "fill"}, Carry(at[r])
  PROVE  /\ at' \in [Requests -> Stands]
         /\ \A q \in Requests \ {r} : at'[q] = at[q]
         /\ \/ at'[r] = Idle
            \/ /\ at'[r].pc = "begin" /\ at'[r].kind = at[r].kind
               /\ at'[r].token = at[r].token /\ at'[r].by \in Users
<1>1. CASE Done(r)
  BY <1>1, Gone
<1>2. CASE at' = [at EXCEPT ![r].pc = "begin", ![r].by = token[at[r].token].of]
  <2>1. at[r] \in Stands /\ at \in [Requests -> Stands]
    BY Types
  <2>2. at[r].token \in Tokens /\ token[at[r].token].of \in Users
    BY DEF Carry, Owned
  <2>3. [at[r] EXCEPT !.pc = "begin", !.by = token[at[r].token].of] \in Stands
    BY <2>1, <2>2 DEF Stands, Pcs
  <2>4. at' = [at EXCEPT ![r] = [at[r] EXCEPT !.pc = "begin", !.by = token[at[r].token].of]]
    BY <1>2, <2>1
  <2>5. at'[r] = [at[r] EXCEPT !.pc = "begin", !.by = token[at[r].token].of]
    BY <2>1, <2>4
  <2>. QED
    BY <2>1, <2>2, <2>3, <2>4, <2>5 DEF Stands
<1>. QED
  BY <1>1, <1>2 DEF Granted

\* A token stays with its user.
LEMMA UsedStay ==
  ASSUME AccessInv, [AccessNext]_accessVars, NEW t \in Tokens, Used(t)
  PROVE  token'[t].is # "unused" /\ token'[t].of = token[t].of /\ token'[t].pw = token[t].pw
<1>1. token \in [Tokens -> TokenRows]
  BY Types DEF AccessInv
<1>2. CASE UNCHANGED token
  BY <1>2 DEF Used
<1>3. ASSUME NEW ts, token' = Ended(ts)
      PROVE  token'[t].is # "unused" /\ token'[t].of = token[t].of /\ token'[t].pw = token[t].pw
  BY <1>1, <1>3 DEF Ended, Used, TokenRows
<1>4. ASSUME NEW r \in Requests, LoginCommits(r)
      PROVE  token'[t].is # "unused" /\ token'[t].of = token[t].of /\ token'[t].pw = token[t].pw
  <2>1. CASE \E s \in Sessions : token[s].is = "unused"
    <3>1. token[NewToken].is = "unused"
      BY <2>1 DEF NewToken
    <3>. QED
      BY <1>1, <1>4, <3>1 DEF LoginCommits, Used
  <2>. QED
    BY <1>4, <2>1, <1>2 DEF LoginCommits
<1>5. ASSUME NEW r \in Requests, End(r) \/ ChangePassword(r) \/ DeleteUser(r)
      PROVE  token'[t].is # "unused" /\ token'[t].of = token[t].of /\ token'[t].pw = token[t].pw
  BY <1>2, <1>3, <1>5 DEF End, ChangePassword, DeleteUser
<1>6. CASE Setup
  BY <1>6 DEF Setup, Used
<1>7. ASSUME NEW r \in Requests, Authenticate(r) \/ Begin(r) \/ Fail(r) \/ ChangeRole(r)
               \/ Invalidate(r) \/ Miss(r)
      PROVE  UNCHANGED token
  BY <1>7 DEF Authenticate, Look, Query, Fill, Begin, Fail, ChangeRole, Invalidate, Miss
<1>8. ASSUME NEW r \in Requests, NEW kind, NEW s, NEW u, Arrive(r, kind, s, u) \/ Login(r, u)
      PROVE  UNCHANGED token
  BY <1>8 DEF Arrive, Login
<1>9. ASSUME NEW s, Expire(s) PROVE UNCHANGED token
  BY <1>9 DEF Expire
<1>10. CASE UNCHANGED accessVars
  BY <1>2, <1>10 DEF accessVars
<1>. QED
  BY <1>2, <1>4, <1>5, <1>6, <1>7, <1>8, <1>9, <1>10 DEF AccessNext, Commit

\* A request stays where it is or goes on with what it has to carry.
LEMMA AtStep ==
  ASSUME AccessConstants, AccessInv, [AccessNext]_accessVars
  PROVE  /\ at' \in [Requests -> Stands]
         /\ \A q \in Requests : at'[q] = at[q] \/ Carry(at'[q])
<1>. DEFINE Good == /\ at' \in [Requests -> Stands]
                    /\ \A q \in Requests : at'[q] = at[q] \/ Carry(at'[q])
<1>1. /\ AccessTypeOK /\ Owned /\ at \in [Requests -> Stands] /\ token \in [Tokens -> TokenRows]
      /\ user \in [Users -> UserRows]
      /\ \A r \in Requests : Carry(at[r])
  BY Types DEF AccessInv, Carries
<1>2. CASE UNCHANGED at
  BY <1>1, <1>2
<1>3. ASSUME NEW r \in Requests, Done(r) PROVE Good
  BY <1>1, <1>3, Gone, IdleStands
<1>4. ASSUME NEW r \in Requests, Goto(r, "query"), at[r].pc = "look" PROVE Good
  <2>1. "query" \in Pcs
    BY DEF Pcs
  <2>2. Carry(at'[r])
    BY <1>1, <1>4, <2>1, Moved DEF Carry
  <2>. QED
    BY <1>1, <1>4, <2>1, <2>2, Moved
<1>5. ASSUME NEW r \in Requests, Goto(r, "invalidate"), at[r].pc = "commit",
             at[r].kind # "login"
      PROVE  Good
  <2>1. "invalidate" \in Pcs
    BY DEF Pcs
  <2>2. Carry(at'[r])
    BY <1>1, <1>5, <2>1, Moved DEF Carry
  <2>. QED
    BY <1>1, <1>5, <2>1, <2>2, Moved
<1>6. ASSUME NEW r \in Requests, NEW role, Granted(r, role), at[r].pc \in {"look", "fill"}
      PROVE  Good
  <2>1. Carry(at'[r])
    BY <1>1, <1>6, Let, IdleStands DEF Carry
  <2>. QED
    BY <1>1, <1>6, <2>1, Let
<1>7. ASSUME NEW r \in Requests, NEW q \in Stands, Carry(q), at' = [at EXCEPT ![r] = q]
      PROVE  Good
  BY <1>1, <1>7
<1>8. ASSUME NEW r \in Requests, NEW kind \in Kinds, NEW t \in Tokens,
             NEW u \in Users \cup {NoUser}, Arrive(r, kind, t, u)
      PROVE  Good
  <2>. DEFINE q == [Idle EXCEPT !.pc = "look", !.kind = kind, !.token = t, !.of = u]
  <2>1. q \in Stands
    BY IdleStands DEF Stands, Pcs
  <2>2. q.pc = "look" /\ q.kind = kind /\ q.token = t
    BY DEF Idle
  <2>3. at' = [at EXCEPT ![r] = q] /\ Used(t) /\ kind # "login"
    BY <1>8 DEF Arrive, Used
  <2>4. Carry(q)
    BY <2>2, <2>3 DEF Carry
  <2>. HIDE DEF q
  <2>. QED
    BY <1>7, <2>1, <2>3, <2>4
<1>9. ASSUME NEW r \in Requests, NEW u \in Users, Login(r, u) PROVE Good
  <2>. DEFINE q == [Idle EXCEPT !.pc = "commit", !.kind = "login", !.of = u, !.pw = user[u].pw]
  <2>1. q \in Stands
    <3>1. user[u].pw \in Nat
      BY <1>1 DEF UserRows
    <3>. QED
      BY <3>1, IdleStands DEF Stands, Pcs, Kinds
  <2>2. q.pc = "commit" /\ q.kind = "login" /\ q.of = u
    BY DEF Idle
  <2>3. at' = [at EXCEPT ![r] = q]
    BY <1>9 DEF Login
  <2>4. Carry(q)
    BY <2>2 DEF Carry
  <2>. HIDE DEF q
  <2>. QED
    BY <1>7, <2>1, <2>3, <2>4
<1>10. ASSUME NEW r \in Requests, Query(r) PROVE Good
  <2>. DEFINE role == Truth(at[r].token)
              q == [at[r] EXCEPT !.pc = "fill", !.saw = role]
  <2>1. CASE role = "none"
    BY <1>3, <1>10, <2>1 DEF Query
  <2>2. CASE role # "none"
    <3>1. at[r].pc = "query" /\ at[r].token \in Tokens /\ Used(at[r].token)
          /\ at[r].kind # "login" /\ at[r] \in Stands
      BY <1>1, <1>10 DEF Query, Carry
    <3>2. role \in Roles \cup {"none"}
      <4>1. token[at[r].token].of \in Users
        BY <1>1, <3>1 DEF Owned
      <4>. QED
        BY <1>1, <3>1, <4>1 DEF Truth, UserRows
    <3>3. at' = [at EXCEPT ![r] = q]
      BY <1>1, <1>10, <2>2 DEF Query
    <3>. HIDE DEF role
    <3>4. q \in Stands /\ q.pc = "fill" /\ q.kind = at[r].kind /\ q.token = at[r].token
      BY <3>1, <3>2 DEF Stands, Pcs
    <3>5. Carry(q)
      BY <3>1, <3>4 DEF Carry
    <3>. HIDE DEF q
    <3>. QED
      BY <1>7, <3>3, <3>4, <3>5
  <2>. QED
    BY <2>1, <2>2
<1>11. ASSUME NEW r \in Requests, Begin(r) PROVE Good
  <2>. DEFINE u == IF at[r].of = NoUser THEN at[r].by ELSE at[r].of
              many == at[r].kind = "delete" /\ Several
              q == [at[r] EXCEPT !.pc = "commit", !.of = u, !.many = many]
  <2>1. CASE Done(r)
    BY <1>3, <2>1
  <2>2. CASE ~Done(r)
    <3>1. at' = [at EXCEPT ![r] = q] /\ at[r].pc = "begin"
      BY <1>1, <1>11, <2>2 DEF Begin
    <3>2. at[r] \in Stands /\ Carry(at[r])
      BY <1>1
    <3>3. u \in Users /\ many \in BOOLEAN
      BY <3>1, <3>2 DEF Carry, Stands
    <3>. HIDE DEF u, many
    <3>4. q \in Stands /\ q.pc = "commit" /\ q.of = u /\ q.kind = at[r].kind /\ q.token = at[r].token
      BY <3>2, <3>3 DEF Stands, Pcs
    <3>. HIDE DEF q
    <3>5. Carry(q)
      BY <3>1, <3>2, <3>3, <3>4 DEF Carry
    <3>. QED
      BY <1>7, <3>1, <3>4, <3>5
  <2>. QED
    BY <2>1, <2>2
<1>12. ASSUME NEW r \in Requests, Look(r) \/ Fill(r) PROVE Good
  BY <1>4, <1>6, <1>12 DEF Look, Fill
<1>13. ASSUME NEW r \in Requests, LoginCommits(r) \/ Fail(r) \/ Invalidate(r) \/ Miss(r)
       PROVE  Good
  BY <1>3, <1>13 DEF LoginCommits, Fail, Invalidate, Miss
<1>14. ASSUME NEW r \in Requests, End(r) \/ ChangePassword(r) \/ ChangeRole(r) \/ DeleteUser(r)
       PROVE  Good
  <2>1. at[r].pc = "commit" /\ at[r].kind # "login"
    BY <1>14 DEF End, ChangePassword, ChangeRole, DeleteUser, Commits
  <2>2. Done(r) \/ Goto(r, "invalidate")
    BY <1>14 DEF End, ChangePassword, ChangeRole, DeleteUser
  <2>. QED
    BY <1>3, <1>5, <2>1, <2>2
<1>15. CASE Setup \/ UNCHANGED accessVars
  BY <1>2, <1>15 DEF Setup, accessVars
<1>16. ASSUME NEW t, Expire(t) PROVE Good
  BY <1>2, <1>16 DEF Expire
<1>. QED
  BY <1>8, <1>9, <1>10, <1>11, <1>12, <1>13, <1>14, <1>15, <1>16 DEF AccessNext, Authenticate, Commit

---------------------------------------------------------------------------
(* What the commits do to the rows.                                         *)

LEMMA EndedRows ==
  ASSUME AccessTypeOK, NEW ts, token' = Ended(ts)
  PROVE  /\ token' \in [Tokens -> TokenRows]
         /\ \A t \in Tokens : /\ token'[t].of = token[t].of /\ token'[t].pw = token[t].pw
                              /\ token'[t].is = IF t \in ts THEN "gone" ELSE token[t].is
<1>1. token \in [Tokens -> TokenRows]
  BY Types
<1>2. \A t \in Tokens : [token[t] EXCEPT !.is = "gone"] \in TokenRows
  BY <1>1 DEF TokenRows
<1>. QED
  BY <1>1, <1>2 DEF Ended, TokenRows

LEMMA SetUpRows ==
  ASSUME AccessConstants, AccessInv, Setup
  PROVE  /\ user' \in [Users -> UserRows] /\ \A u \in Users : user'[u].pw = 0
         /\ token' \in [Tokens -> TokenRows]
         /\ \A t \in Tokens : ~Used(t) /\ cached[t] = "none"
         /\ \A t \in Tokens : Used(t)' => /\ token'[t].is = "live" /\ token'[t].pw = 0
                                          /\ token'[t].of \in Users
         /\ \E t \in Tokens : Used(t)'
         /\ \A r \in Requests : at[r].pc = "idle"
         /\ Admins' # {}
<1>1. user \in [Users -> UserRows] /\ token \in [Tokens -> TokenRows]
  BY Types DEF AccessInv
<1>2. \A t \in Tokens : ~Used(t) /\ cached[t] = "none"
  BY DEF Setup, Used, AccessInv, Owned
<1>3. /\ \A u \in Users : user[u].pw = 0
      /\ \A r \in Requests : at[r].pc = "idle"
  BY <1>2 DEF AccessInv, Unstarted
<1>4. NewToken \in Sessions
  BY <1>2 DEF AccessConstants, NewToken, Used, Tokens
<1>5. PICK first \in Users, role \in [Users -> Roles] :
        /\ role[first] = "admin"
        /\ user' = [u \in Users |-> [user[u] EXCEPT !.role = role[u]]]
        /\ token' = [x \in Tokens |->
            IF x = NewToken THEN [is |-> "live", of |-> first, pw |-> 0]
            ELSE IF x \in Keys THEN [is |-> "live", of |-> KeyOwner, pw |-> 0]
            ELSE token[x]]
  BY DEF Setup
<1>6. \A u \in Users : /\ [user[u] EXCEPT !.role = role[u]] \in UserRows
                       /\ [user[u] EXCEPT !.role = role[u]].pw = 0
                       /\ [user[u] EXCEPT !.role = role[u]].role = role[u]
  BY <1>1, <1>3, <1>5 DEF UserRows
<1>7. /\ user' \in [Users -> UserRows]
      /\ \A u \in Users : user'[u].pw = 0 /\ user'[u].role = role[u]
  BY <1>5, <1>6
<1>8. \A u \in Users : [is |-> "live", of |-> u, pw |-> 0] \in TokenRows
  BY DEF TokenRows
<1>9. token' \in [Tokens -> TokenRows]
  BY <1>1, <1>5, <1>8 DEF AccessConstants
<1>10. \A t \in Tokens : token'[t] = token[t] \/ \E u \in Users : token'[t] = [is |-> "live", of |-> u, pw |-> 0]
  BY <1>5 DEF AccessConstants
<1>11. \A t \in Tokens : Used(t)' => /\ token'[t].is = "live" /\ token'[t].pw = 0
                                     /\ token'[t].of \in Users
  <2>. TAKE t \in Tokens
  <2>1. CASE token'[t] = token[t]
    BY <1>2, <2>1 DEF Used
  <2>2. ASSUME NEW u \in Users, token'[t] = [is |-> "live", of |-> u, pw |-> 0]
        PROVE  token'[t].is = "live" /\ token'[t].pw = 0 /\ token'[t].of \in Users
    BY <2>2
  <2>. QED
    BY <1>10, <2>1, <2>2
<1>12. NewToken \in Tokens /\ token'[NewToken].is = "live"
  BY <1>4, <1>5 DEF Tokens
<1>13. first \in Admins'
  BY <1>5, <1>7 DEF Admins
<1>. QED
  BY <1>2, <1>3, <1>7, <1>9, <1>11, <1>12, <1>13 DEF Used

LEMMA LoginRows ==
  ASSUME AccessInv, NEW r \in Requests, LoginCommits(r)
  PROVE  /\ at[r].of \in Users
         /\ \/ UNCHANGED token
            \/ \E s \in Sessions : /\ ~Used(s) /\ token' \in [Tokens -> TokenRows]
                                   /\ token'[s].is = "live" /\ token'[s].of = at[r].of
                                   /\ token'[s].pw = at[r].pw
                                   /\ \A t \in Tokens \ {s} : token'[t] = token[t]
<1>1. at[r].of \in Users /\ at[r] \in Stands /\ token \in [Tokens -> TokenRows]
  BY Types DEF AccessInv, LoginCommits, Carries, Carry
<1>. DEFINE row == [is |-> "live", of |-> at[r].of, pw |-> at[r].pw]
<1>2. CASE ~UNCHANGED token
  <2>1. /\ \E t \in Sessions : token[t].is = "unused"
        /\ token' = [token EXCEPT ![NewToken] = row]
    BY <1>2 DEF LoginCommits
  <2>2. NewToken \in Sessions /\ ~Used(NewToken) /\ NewToken \in Tokens
    BY <2>1 DEF NewToken, Used, Tokens
  <2>3. row \in TokenRows /\ row.is = "live" /\ row.of = at[r].of /\ row.pw = at[r].pw
    BY <1>1 DEF TokenRows, Stands
  <2>. HIDE DEF row
  <2>. QED
    BY <1>1, <2>1, <2>2, <2>3
<1>. QED
  BY <1>1, <1>2

LEMMA PasswordRows ==
  ASSUME AccessInv, NEW r \in Requests, ChangePassword(r)
  PROVE  /\ at[r].of \in Users
         /\ user' \in [Users -> UserRows]
         /\ \A u \in Users : user'[u].role = user[u].role
         /\ \A u \in Users \ {at[r].of} : user'[u].pw = user[u].pw
         /\ user'[at[r].of].pw = user[at[r].of].pw + 1
<1>1. at[r].of \in Users /\ user \in [Users -> UserRows]
  BY Types DEF AccessInv, ChangePassword, Commits, Carries, Carry
<1>. DEFINE u == at[r].of
<1>2. user[u] \in UserRows /\ user[u].pw + 1 \in Nat
  BY <1>1 DEF UserRows
<1>. DEFINE row == [user[u] EXCEPT !.pw = user[u].pw + 1]
<1>3. row \in UserRows /\ row.role = user[u].role /\ row.pw = user[u].pw + 1
  BY <1>2 DEF UserRows
<1>4. user' = [user EXCEPT ![u] = row]
  BY DEF ChangePassword
<1>. HIDE DEF u, row
<1>5. u = at[r].of
  BY DEF u
<1>. QED
  BY <1>1, <1>3, <1>4, <1>5

\* A new role, or none.
LEMMA RoleRows ==
  ASSUME AccessInv, NEW r \in Requests, NEW role \in Roles \cup {"none"},
         at[r].of \in Users, user' = [user EXCEPT ![at[r].of].role = role]
  PROVE  /\ user' \in [Users -> UserRows]
         /\ \A u \in Users : user'[u].pw = user[u].pw
         /\ \A u \in Users \ {at[r].of} : user'[u].role = user[u].role
         /\ user'[at[r].of].role = role
<1>1. user \in [Users -> UserRows]
  BY Types DEF AccessInv
<1>. DEFINE u == at[r].of
            row == [user[u] EXCEPT !.role = role]
<1>2. row \in UserRows /\ row.role = role /\ row.pw = user[u].pw
  BY <1>1 DEF UserRows
<1>3. user' = [user EXCEPT ![u] = row]
  OBVIOUS
<1>. HIDE DEF u, row
<1>4. u = at[r].of
  BY DEF u
<1>. QED
  BY <1>1, <1>2, <1>3, <1>4

\* A role is changed, or the request is refused; nothing else happens.
LEMMA ChangedRole ==
  ASSUME AccessInv, NEW r \in Requests, ChangeRole(r)
  PROVE  /\ at[r].of \in Users /\ at[r].kind = "role" /\ at[r].pc = "commit"
         /\ UNCHANGED <<token, cached>>
         /\ \/ Admins = {at[r].of} /\ UNCHANGED <<user, past>>
            \/ /\ Admins # {at[r].of} /\ Goto(r, "invalidate")
               /\ user' \in [Users -> UserRows]
               /\ \A u \in Users : user'[u].pw = user[u].pw
               /\ \A u \in Users \ {at[r].of} : user'[u].role = user[u].role
               /\ user'[at[r].of].role = IF user[at[r].of].role = "admin" THEN "member" ELSE "admin"
               /\ past' = [past EXCEPT !.overlapped = @ \/ Deleting(r)]
<1>1. at[r].of \in Users /\ at[r].kind = "role" /\ at[r].pc = "commit" /\ UNCHANGED <<token, cached>>
  BY DEF AccessInv, ChangeRole, Commits, Carries, Carry
<1>2. CASE Admins # {at[r].of}
  <2>. DEFINE role == IF user[at[r].of].role = "admin" THEN "member" ELSE "admin"
  <2>1. user' = [user EXCEPT ![at[r].of].role = role]
    BY <1>2 DEF ChangeRole
  <2>2. role \in Roles
    BY DEF Roles
  <2>3. /\ user' \in [Users -> UserRows]
        /\ \A u \in Users : user'[u].pw = user[u].pw
        /\ \A u \in Users \ {at[r].of} : user'[u].role = user[u].role
        /\ user'[at[r].of].role = role
    <3>. HIDE DEF role
    <3>. QED
      BY <1>1, <2>1, <2>2, RoleRows
  <2>. QED
    BY <1>1, <1>2, <2>3 DEF ChangeRole
<1>. QED
  BY <1>1, <1>2 DEF ChangeRole

\* A user is deleted with all tokens, or the request is refused.
LEMMA DeletedUser ==
  ASSUME AccessInv, NEW r \in Requests, DeleteUser(r)
  PROVE  /\ at[r].of \in Users /\ at[r].kind = "delete" /\ at[r].pc = "commit"
         /\ UNCHANGED cached
         /\ \/ UNCHANGED <<user, token, past>>
            \/ /\ user[at[r].of].role = "admin" => at[r].many
               /\ Goto(r, "invalidate")
               /\ user' \in [Users -> UserRows]
               /\ \A u \in Users : user'[u].pw = user[u].pw
               /\ \A u \in Users \ {at[r].of} : user'[u].role = user[u].role
               /\ user'[at[r].of].role = "none"
               /\ token' = Ended(TokensOf(at[r].of))
               /\ past' = [past EXCEPT !.overlapped = @ \/ Deleting(r)]
<1>1. at[r].of \in Users /\ at[r].kind = "delete" /\ at[r].pc = "commit" /\ UNCHANGED cached
  BY DEF AccessInv, DeleteUser, Commits, Carries, Carry
<1>2. CASE ~(user[at[r].of].role = "admin" /\ ~at[r].many)
  <2>1. user' = [user EXCEPT ![at[r].of].role = "none"]
    BY <1>2 DEF DeleteUser
  <2>. QED
    BY <1>1, <1>2, <2>1, RoleRows DEF DeleteUser
<1>. QED
  BY <1>1, <1>2 DEF DeleteUser

---------------------------------------------------------------------------
(* The invariant is inductive: types, owners, what the requests carry.      *)

LEMMA RowsStep ==
  ASSUME AccessConstants, AccessInv, [AccessNext]_accessVars
  PROVE  user' \in [Users -> UserRows] /\ token' \in [Tokens -> TokenRows]
<1>1. user \in [Users -> UserRows] /\ token \in [Tokens -> TokenRows] /\ AccessTypeOK
  BY Types DEF AccessInv
<1>2. CASE Setup
  BY <1>2, SetUpRows
<1>3. ASSUME NEW r \in Requests, LoginCommits(r)
      PROVE  user' \in [Users -> UserRows] /\ token' \in [Tokens -> TokenRows]
  BY <1>1, <1>3, LoginRows DEF LoginCommits
<1>4. ASSUME NEW r \in Requests, End(r)
      PROVE  user' \in [Users -> UserRows] /\ token' \in [Tokens -> TokenRows]
  BY <1>1, <1>4, EndedRows DEF End
<1>5. ASSUME NEW r \in Requests, ChangePassword(r)
      PROVE  user' \in [Users -> UserRows] /\ token' \in [Tokens -> TokenRows]
  BY <1>1, <1>5, EndedRows, PasswordRows DEF ChangePassword
<1>6. ASSUME NEW r \in Requests, ChangeRole(r)
      PROVE  user' \in [Users -> UserRows] /\ token' \in [Tokens -> TokenRows]
  BY <1>1, <1>6, ChangedRole
<1>7. ASSUME NEW r \in Requests, DeleteUser(r)
      PROVE  user' \in [Users -> UserRows] /\ token' \in [Tokens -> TokenRows]
  BY <1>1, <1>7, EndedRows, DeletedUser
<1>8. ASSUME NEW r \in Requests,
             Authenticate(r) \/ Begin(r) \/ Fail(r) \/ Invalidate(r) \/ Miss(r)
      PROVE  UNCHANGED <<user, token>>
  BY <1>8 DEF Authenticate, Look, Query, Fill, Begin, Fail, Invalidate, Miss
<1>9. ASSUME NEW r \in Requests, NEW kind, NEW t, NEW u, Arrive(r, kind, t, u) \/ Login(r, u)
      PROVE  UNCHANGED <<user, token>>
  BY <1>9 DEF Arrive, Login
<1>10. ASSUME NEW t, Expire(t) PROVE UNCHANGED <<user, token>>
  BY <1>10 DEF Expire
<1>11. CASE UNCHANGED accessVars
  BY <1>1, <1>11 DEF accessVars
<1>. QED
  BY <1>1, <1>2, <1>3, <1>4, <1>5, <1>6, <1>7, <1>8, <1>9, <1>10, <1>11 DEF AccessNext, Commit

\* The cache and the history.
LEMMA PastStep ==
  ASSUME AccessConstants, AccessInv, [AccessNext]_accessVars
  PROVE  /\ cached' \in [Tokens -> Roles \cup {"none"}]
         /\ past' \in [requests : Nat, faults : Nat, excused : SUBSET Tokens,
                       raced : BOOLEAN, overlapped : BOOLEAN]
<1>. DEFINE Caches == cached' \in [Tokens -> Roles \cup {"none"}]
            Pasts == [requests : Nat, faults : Nat, excused : SUBSET Tokens,
                      raced : BOOLEAN, overlapped : BOOLEAN]
<1>1. /\ cached \in [Tokens -> Roles \cup {"none"}] /\ past \in Pasts
      /\ at \in [Requests -> Stands]
  BY Types DEF AccessInv
<1>2. CASE Setup
  BY <1>1, <1>2 DEF Setup
<1>3. ASSUME NEW r \in Requests, NEW kind, NEW t, NEW u, Arrive(r, kind, t, u) \/ Login(r, u)
      PROVE  Caches /\ past' \in Pasts
  <2>1. past' = [past EXCEPT !.requests = past.requests + 1] /\ UNCHANGED cached
    BY <1>3 DEF Arrive, Login
  <2>. QED
    BY <1>1, <2>1
<1>4. ASSUME NEW r \in Requests, LoginCommits(r) \/ Query(r) \/ Begin(r) \/ Fail(r) \/ End(r)
      PROVE  Caches /\ past' \in Pasts
  BY <1>1, <1>4 DEF LoginCommits, Query, Begin, Fail, End
<1>5. ASSUME past' = [past EXCEPT !.faults = past.faults + 1] PROVE past' \in Pasts
  BY <1>1, <1>5
<1>6. ASSUME NEW r \in Requests, Look(r) PROVE Caches /\ past' \in Pasts
  BY <1>1, <1>5, <1>6 DEF Look
<1>7. ASSUME NEW s \in SUBSET Tokens, past' = [past EXCEPT !.excused = s] PROVE past' \in Pasts
  BY <1>1, <1>7
<1>8. past.excused \subseteq Tokens
  BY <1>1
<1>9. ASSUME NEW r \in Requests, Fill(r) PROVE Caches /\ past' \in Pasts
  <2>. DEFINE t == at[r].token
              stale == at[r].saw # Truth(t)
  <2>1. t \in Tokens /\ at[r].saw \in Roles \cup {"none"}
    BY <1>1, <1>9 DEF Fill, AccessInv, Carries, Carry, Stands
  <2>2. CASE cached' = [cached EXCEPT ![t] = at[r].saw]
             /\ past' = [past EXCEPT !.excused = IF stale THEN @ \cup {t} ELSE @]
    <3>1. cached' \in [Tokens -> Roles \cup {"none"}]
      BY <1>1, <2>1, <2>2
    <3>. DEFINE s == IF stale THEN past.excused \cup {t} ELSE past.excused
    <3>2. s \in SUBSET Tokens
      BY <1>8, <2>1
    <3>3. past' = [past EXCEPT !.excused = s]
      BY <2>2
    <3>. HIDE DEF s
    <3>. QED
      BY <1>7, <3>1, <3>2, <3>3
  <2>3. CASE Fault /\ past' = [past EXCEPT !.faults = @ + 1] /\ UNCHANGED cached
    BY <1>1, <1>5, <2>3
  <2>. QED
    BY <1>9, <2>2, <2>3 DEF Fill
<1>10. ASSUME NEW r \in Requests, ChangePassword(r) PROVE Caches /\ past' \in Pasts
  <2>. DEFINE raced == past.raced \/ LoggingIn(at[r].of)
  <2>1. raced \in BOOLEAN
    BY <1>1 DEF LoggingIn
  <2>2. past' = [past EXCEPT !.raced = raced] /\ UNCHANGED cached
    BY <1>10 DEF ChangePassword
  <2>. HIDE DEF raced
  <2>. QED
    BY <1>1, <2>1, <2>2
<1>11. ASSUME NEW r \in Requests, past' = [past EXCEPT !.overlapped = @ \/ Deleting(r)]
       PROVE  past' \in Pasts
  BY <1>1, <1>11 DEF Deleting
<1>12. ASSUME NEW r \in Requests, ChangeRole(r) \/ DeleteUser(r) PROVE Caches /\ past' \in Pasts
  <2>1. UNCHANGED cached /\ (UNCHANGED past \/ past' = [past EXCEPT !.overlapped = @ \/ Deleting(r)])
    BY <1>12, ChangedRole, DeletedUser
  <2>. QED
    BY <1>1, <1>11, <2>1
<1>13. ASSUME NEW r \in Requests, Invalidate(r) PROVE Caches /\ past' \in Pasts
  <2>1. cached' = [t \in Tokens |-> IF t \in Covered(r) THEN "none" ELSE cached[t]]
    BY <1>13 DEF Invalidate
  <2>2. Caches
    BY <1>1, <2>1
  <2>. DEFINE s == past.excused \ Covered(r)
  <2>3. s \in SUBSET Tokens /\ past' = [past EXCEPT !.excused = s]
    BY <1>8, <1>13 DEF Invalidate
  <2>. HIDE DEF s
  <2>. QED
    BY <1>7, <2>2, <2>3
<1>14. ASSUME NEW r \in Requests, Miss(r) PROVE Caches /\ past' \in Pasts
  <2>. DEFINE s == past.excused \cup {t \in Covered(r) : Stale(t)}
  <2>1. Covered(r) \subseteq Tokens
    BY <1>14 DEF Miss, Covered, AccessInv, Carries, Carry, Tokens
  <2>2. s \in SUBSET Tokens
    BY <1>8, <2>1
  <2>3. past' = [past EXCEPT !.faults = past.faults + 1, !.excused = s] /\ UNCHANGED cached
    BY <1>14 DEF Miss
  <2>. HIDE DEF s
  <2>4. past.faults + 1 \in Nat
    BY <1>1
  <2>. QED
    BY <1>1, <2>2, <2>3, <2>4
<1>15. ASSUME NEW t \in Tokens, Expire(t) PROVE Caches /\ past' \in Pasts
  <2>1. cached' = [cached EXCEPT ![t] = "none"]
    BY <1>15 DEF Expire
  <2>2. Caches
    BY <1>1, <2>1
  <2>. DEFINE s == past.excused \ {t}
  <2>3. s \in SUBSET Tokens /\ past' = [past EXCEPT !.excused = s]
    BY <1>8, <1>15 DEF Expire
  <2>. HIDE DEF s
  <2>. QED
    BY <1>7, <2>2, <2>3
<1>16. CASE UNCHANGED accessVars
  BY <1>1, <1>16 DEF accessVars
<1>. QED
  BY <1>2, <1>3, <1>4, <1>6, <1>9, <1>10, <1>12, <1>13, <1>14, <1>15, <1>16
  DEF AccessNext, Authenticate, Commit

\* A token that is not used before a step is used after it through the setup
\* or a login, and is not in the cache.
LEMMA OwnedStep == ASSUME AccessConstants, AccessInv, [AccessNext]_accessVars PROVE Owned'
<1>1. /\ cached \in [Tokens -> Roles \cup {"none"}] /\ AccessTypeOK /\ Owned
      /\ token \in [Tokens -> TokenRows]
  BY Types DEF AccessInv
<1>2. \A t \in Tokens : Used(t) => token'[t].of \in Users
  BY <1>1, UsedStay DEF Owned
<1>3. ASSUME NEW t \in Tokens, ~Used(t), Used(t)' PROVE token'[t].of \in Users
  <2>1. CASE Setup
    BY <1>3, <2>1, SetUpRows
  <2>2. ASSUME NEW r \in Requests, LoginCommits(r) PROVE token'[t].of \in Users
    BY <1>3, <2>2, LoginRows DEF Used
  <2>3. ASSUME NEW ts, token' = Ended(ts) PROVE t \in ts
    BY <1>1, <1>3, <2>3, EndedRows DEF Used
  <2>4. ASSUME NEW r \in Requests, End(r) PROVE token'[t].of \in Users
    <3>1. t \in {at[r].token} \cup SessionsOf(at[r].of) \cup Keys
      BY <2>3, <2>4 DEF End
    <3>2. at[r].kind # "login" /\ at[r].pc = "commit" /\ Used(at[r].token) /\ at[r].of \in Users
      BY <2>4 DEF End, Commits, AccessInv, Carries, Carry
    <3>3. t \notin SessionsOf(at[r].of)
      BY <1>3 DEF Used, SessionsOf
    <3>4. t # at[r].token /\ at[r].token \in Tokens
      BY <1>3, <2>4, <3>2 DEF End, Commits, AccessInv, Carries, Carry
    <3>. QED
      BY <1>3, <3>1, <3>2, <3>3, <3>4 DEF AccessInv, KeysIssued
  <2>5. ASSUME NEW r \in Requests, ChangePassword(r) PROVE FALSE
    BY <1>3, <2>3, <2>5 DEF ChangePassword, SessionsOf, Used
  <2>6. ASSUME NEW r \in Requests, DeleteUser(r) PROVE FALSE
    <3>1. t \notin TokensOf(at[r].of)
      BY <1>3 DEF TokensOf, Used
    <3>2. UNCHANGED token \/ token' = Ended(TokensOf(at[r].of))
      BY <2>6, DeletedUser
    <3>. QED
      BY <1>3, <2>3, <3>1, <3>2 DEF Used
  <2>10. ASSUME NEW r \in Requests,
                Authenticate(r) \/ Begin(r) \/ Fail(r) \/ ChangeRole(r) \/ Invalidate(r) \/ Miss(r)
         PROVE  UNCHANGED token
    BY <2>10 DEF Authenticate, Look, Query, Fill, Begin, Fail, ChangeRole, Invalidate, Miss
  <2>7. ASSUME NEW r \in Requests, NEW kind, NEW s, NEW u, Arrive(r, kind, s, u) \/ Login(r, u)
        PROVE  UNCHANGED token
    BY <2>7 DEF Arrive, Login
  <2>8. ASSUME NEW s, Expire(s) PROVE UNCHANGED token
    BY <2>8 DEF Expire
  <2>9. ~UNCHANGED token /\ ~UNCHANGED accessVars
    BY <1>3 DEF Used, accessVars
  <2>. QED
    BY <2>1, <2>2, <2>4, <2>5, <2>6, <2>10, <2>7, <2>8, <2>9 DEF AccessNext, Commit
<1>4. ASSUME NEW t \in Tokens, ~Used(t)' PROVE cached'[t] = "none"
  <2>1. ~Used(t) /\ cached[t] = "none"
    BY <1>4, <1>1, UsedStay DEF Used, Owned
  <2>2. ASSUME NEW r \in Requests, Fill(r) PROVE cached'[t] = "none"
    <3>1. Used(at[r].token)
      BY <2>2 DEF Fill, AccessInv, Carries, Carry
    <3>. QED
      BY <1>1, <2>1, <2>2, <3>1 DEF Fill
  <2>3. ASSUME NEW r \in Requests, Invalidate(r) PROVE cached'[t] = "none"
    BY <2>1, <2>3 DEF Invalidate
  <2>4. ASSUME NEW s \in Tokens, Expire(s) PROVE cached'[t] = "none"
    BY <1>1, <2>1, <2>4 DEF Expire
  <2>5. ASSUME NEW r \in Requests, Look(r) \/ Query(r) \/ Begin(r) \/ Commit(r) \/ Miss(r)
        PROVE  UNCHANGED cached
    BY <2>5, ChangedRole, DeletedUser
    DEF Look, Query, Begin, Commit, LoginCommits, Fail, End, ChangePassword, Miss
  <2>6. ASSUME NEW r \in Requests, NEW kind, NEW s, NEW u, Arrive(r, kind, s, u) \/ Login(r, u)
        PROVE  UNCHANGED cached
    BY <2>6 DEF Arrive, Login
  <2>7. CASE Setup \/ UNCHANGED accessVars
    BY <2>1, <2>7 DEF Setup, accessVars
  <2>. QED
    BY <2>1, <2>2, <2>3, <2>4, <2>5, <2>6, <2>7 DEF AccessNext, Authenticate
<1>. QED
  BY <1>2, <1>3, <1>4 DEF Owned, Used

\* What is used stays used, and the setup comes first.
LEMMA UnstartedStep ==
  ASSUME AccessConstants, AccessInv, [AccessNext]_accessVars PROVE Unstarted' /\ KeysIssued'
<1>1. \A t \in Tokens : Used(t) => Used(t)'
  BY UsedStay DEF Used
<1>2. Keys \subseteq Tokens
  BY DEF Tokens
<1>3. CASE \E t \in Tokens : Used(t)
  BY <1>1, <1>2, <1>3 DEF AccessInv, KeysIssued, Unstarted
<1>4. CASE \A t \in Tokens : ~Used(t)
  <2>1. /\ \A u \in Users : user[u].role = "none" /\ user[u].pw = 0
        /\ \A r \in Requests : at[r].pc = "idle"
    BY <1>4 DEF AccessInv, Unstarted
  <2>2. CASE Setup
    <3>1. \E t \in Tokens : Used(t)'
      BY <2>2, SetUpRows
    <3>2. ASSUME NEW t \in Keys PROVE Used(t)'
      BY <2>2 DEF Setup, Used, Tokens
    <3>. QED
      BY <3>1, <3>2 DEF Unstarted, KeysIssued
  <2>3. CASE UNCHANGED accessVars
    BY <1>2, <1>4, <2>1, <2>3 DEF accessVars, Unstarted, KeysIssued, Used
  <2>4. ASSUME NEW r \in Requests
        PROVE  ~(Authenticate(r) \/ Begin(r) \/ Commit(r) \/ Invalidate(r) \/ Miss(r))
    BY <2>1 DEF Authenticate, Look, Query, Fill, Begin, Commit, LoginCommits, Fail, End,
                ChangePassword, ChangeRole, DeleteUser, Invalidate, Miss, Commits
  <2>5. ASSUME NEW r \in Requests, NEW kind, NEW t \in Tokens, NEW u PROVE ~Arrive(r, kind, t, u)
    BY <1>4 DEF Arrive, Used
  <2>6. ASSUME NEW r \in Requests, NEW u \in Users PROVE ~Login(r, u)
    BY <2>1 DEF Login
  <2>7. ASSUME NEW t \in Tokens PROVE ~Expire(t)
    BY <1>4 DEF AccessInv, Owned, Expire
  <2>. QED
    BY <2>2, <2>3, <2>4, <2>5, <2>6, <2>7 DEF AccessNext
<1>. QED
  BY <1>3, <1>4

LEMMA AccessStep == ASSUME AccessConstants, AccessInv, [AccessNext]_accessVars PROVE AccessInv'
<1>1. AccessTypeOK'
  BY RowsStep, PastStep, AtStep DEF AccessTypeOK, UserRows, TokenRows, Stands, Pcs
<1>2. ASSUME NEW r \in Requests PROVE Carry(at[r])'
  <2>1. CASE Carry(at'[r])
    BY <2>1, UsedStay DEF Carry, Used
  <2>2. CASE at'[r] = at[r]
    BY <2>2, UsedStay DEF AccessInv, Carries, Carry, Used
  <2>. QED
    BY <2>1, <2>2, AtStep
<1>. QED
  BY <1>1, <1>2, OwnedStep, UnstartedStep DEF AccessInv, Carries

(* Users, tokens, the cache and the requests keep their types.               *)
THEOREM TypeCorrect == AccessSpec => []AccessTypeOK
<1>. USE AccessAssumption
<1>1. AccessInit => AccessInv
  BY InitAccess
<1>2. AccessInv /\ [AccessNext]_accessVars => AccessInv'
  BY AccessStep
<1>3. AccessInv => AccessTypeOK
  BY DEF AccessInv
<1>. QED
  BY <1>1, <1>2, <1>3, PTL DEF AccessSpec

---------------------------------------------------------------------------
(* Revocation: a principal that is out of date has its reason.              *)

Caused(t) ==
  \/ t \in past.excused
  \/ \E r \in Requests : at[r].pc = "invalidate" /\ t \in Covered(r)

\* A reason lasts while no invalidation is carried out.
LEMMA CauseLasts ==
  ASSUME NEW r \in Requests, at[r].pc # "invalidate",
         \A q \in Requests \ {r} : at'[q] = at[q],
         past'.excused = past.excused, NEW t, Caused(t)
  PROVE  Caused(t)'
<1>1. ASSUME NEW q \in Requests, at[q].pc = "invalidate", t \in Covered(q)
      PROVE  at'[q].pc = "invalidate" /\ t \in Covered(q)'
  BY <1>1 DEF Covered
<1>. QED
  BY <1>1 DEF Caused

\* What the rows say of a token depends on its row and its user's.
LEMMA SameTruth ==
  ASSUME AccessInv, NEW t \in Tokens, UNCHANGED user, token'[t] = token[t]
  PROVE  Truth(t)' = Truth(t)
BY DEF Truth

LEMMA StaleStep ==
  ASSUME AccessConstants, AccessInv, StaleHasCause, [AccessNext]_accessVars,
         NEW t \in Tokens, Stale(t)'
  PROVE  Caused(t)'
<1>1. /\ AccessTypeOK /\ Owned /\ cached \in [Tokens -> Roles \cup {"none"}]
      /\ at \in [Requests -> Stands] /\ token \in [Tokens -> TokenRows]
      /\ Stale(t) => Caused(t)
      /\ \A r \in Requests : Carry(at[r])
  BY Types DEF AccessInv, StaleHasCause, Caused, Carries
<1>2. ASSUME NEW r \in Requests, at[r].pc # "invalidate",
             \A q \in Requests \ {r} : at'[q] = at[q],
             past'.excused = past.excused, UNCHANGED user,
             cached'[t] = cached[t], token'[t] = token[t]
      PROVE  Caused(t)'
  <2>1. Stale(t)
    BY <1>2, SameTruth DEF Stale
  <2>. QED
    BY <1>1, <1>2, <2>1, CauseLasts
<1>3. ASSUME NEW r \in Requests, at'[r].pc = "invalidate",
             \/ at'[r].kind \notin {"logout", "key"}
             \/ at'[r].kind = "key" /\ t \in Keys
             \/ at'[r].kind = "logout" /\ t = at'[r].token
      PROVE  Caused(t)'
  BY <1>3 DEF Caused, Covered
<1>4. ASSUME NEW r \in Requests, Goto(r, "invalidate")
      PROVE  /\ at'[r].pc = "invalidate" /\ at'[r].kind = at[r].kind /\ at'[r].token = at[r].token
             /\ \A q \in Requests \ {r} : at'[q] = at[q]
  <2>1. "invalidate" \in Pcs
    BY DEF Pcs
  <2>. QED
    BY <1>1, <1>4, <2>1, Moved
<1>5. CASE Setup
  BY <1>5, SetUpRows DEF Setup, Stale
<1>6. ASSUME NEW r \in Requests, NEW kind, NEW s, NEW u, Arrive(r, kind, s, u) \/ Login(r, u)
      PROVE  Caused(t)'
  <2>1. /\ at[r].pc # "invalidate" /\ past'.excused = past.excused /\ UNCHANGED <<user, token, cached>>
        /\ \A q \in Requests \ {r} : at'[q] = at[q]
    BY <1>1, <1>6, IdleStands, Types DEF Arrive, Login
  <2>. QED
    BY <1>2, <2>1
<1>7. ASSUME NEW r \in Requests, LoginCommits(r) PROVE Caused(t)'
  <2>1. /\ at[r].pc # "invalidate" /\ past' = past /\ UNCHANGED <<user, cached>>
        /\ \A q \in Requests \ {r} : at'[q] = at[q]
    BY <1>1, <1>7, Gone DEF LoginCommits
  <2>2. CASE token'[t] = token[t]
    BY <1>2, <2>1, <2>2
  <2>3. CASE token'[t] # token[t]
    <3>1. ~Used(t)
      BY <1>7, <2>3, LoginRows DEF AccessInv
    <3>. QED
      BY <1>1, <2>1, <3>1 DEF Owned, Stale
  <2>. QED
    BY <2>2, <2>3
<1>8. ASSUME NEW r \in Requests, Look(r) \/ Query(r) \/ Begin(r) \/ Fail(r) PROVE Caused(t)'
  <2>1. at[r].pc # "invalidate" /\ UNCHANGED <<user, token, cached>>
    BY <1>8 DEF Look, Query, Begin, Fail, Commits
  <2>2. past'.excused = past.excused
    BY <1>8, <1>1, Types DEF Look, Query, Begin, Fail
  <2>3. \A q \in Requests \ {r} : at'[q] = at[q]
    BY <1>1, <1>8 DEF Look, Query, Begin, Fail, Granted, Goto, Done
  <2>. QED
    BY <1>2, <2>1, <2>2, <2>3
<1>9. ASSUME NEW r \in Requests, Fill(r) PROVE Caused(t)'
  <2>1. at[r].pc # "invalidate" /\ UNCHANGED <<user, token>>
    BY <1>9 DEF Fill
  <2>2. \A q \in Requests \ {r} : at'[q] = at[q]
    BY <1>1, <1>9 DEF Fill, Granted, Done
  <2>3. CASE UNCHANGED cached /\ past' = [past EXCEPT !.faults = @ + 1]
    <3>1. past'.excused = past.excused
      BY <1>1, <2>3, Types
    <3>. QED
      BY <1>2, <2>1, <2>2, <2>3, <3>1
  <2>4. CASE /\ cached' = [cached EXCEPT ![at[r].token] = at[r].saw]
             /\ past' = [past EXCEPT !.excused = IF at[r].saw # Truth(at[r].token)
                                                 THEN @ \cup {at[r].token} ELSE @]
    <3>1. Truth(t)' = Truth(t)
      BY <2>1, SameTruth
    <3>2. past'.excused = IF at[r].saw # Truth(at[r].token)
                          THEN past.excused \cup {at[r].token} ELSE past.excused
      BY <1>1, <2>4, Types
    <3>3. CASE t = at[r].token
      <4>1. cached'[t] = at[r].saw
        BY <1>1, <2>4, <3>3
      <4>. QED
        BY <3>1, <3>2, <3>3, <4>1 DEF Stale, Caused
    <3>4. CASE t # at[r].token
      <4>1. Stale(t)
        BY <1>1, <2>4, <3>1, <3>4 DEF Stale
      <4>2. CASE t \in past.excused
        BY <3>2, <4>2 DEF Caused
      <4>3. ASSUME NEW q \in Requests, at[q].pc = "invalidate", t \in Covered(q)
            PROVE  at'[q].pc = "invalidate" /\ t \in Covered(q)'
        BY <2>1, <2>2, <4>3 DEF Covered
      <4>. QED
        BY <1>1, <4>1, <4>2, <4>3 DEF Caused
    <3>. QED
      BY <3>3, <3>4
  <2>. QED
    BY <1>9, <2>3, <2>4 DEF Fill
<1>10. ASSUME NEW r \in Requests, End(r) PROVE Caused(t)'
  <2>1. /\ Goto(r, "invalidate") /\ at[r].pc = "commit" /\ UNCHANGED <<user, cached, past>>
        /\ at[r].kind \in {"logout", "logout_all", "key"}
    BY <1>10 DEF End, Commits
  <2>2. CASE at[r].kind = "logout_all" \/ (at[r].kind = "key" /\ t \in Keys)
             \/ (at[r].kind = "logout" /\ t = at[r].token)
    BY <1>3, <1>4, <2>1, <2>2
  <2>3. CASE ~(at[r].kind = "logout_all" \/ (at[r].kind = "key" /\ t \in Keys)
               \/ (at[r].kind = "logout" /\ t = at[r].token))
    <3>1. token'[t] = token[t]
      BY <1>10, <2>1, <2>3 DEF End, Ended
    <3>. QED
      BY <1>2, <1>4, <2>1, <3>1
  <2>. QED
    BY <2>2, <2>3
<1>11. ASSUME NEW r \in Requests, ChangePassword(r) PROVE Caused(t)'
  BY <1>3, <1>4, <1>11 DEF ChangePassword, Commits
<1>12. ASSUME NEW r \in Requests, ChangeRole(r) PROVE Caused(t)'
  <2>1. CASE Goto(r, "invalidate")
    BY <1>3, <1>4, <1>12, <2>1, ChangedRole
  <2>2. CASE ~Goto(r, "invalidate")
    <3>1. Done(r) /\ UNCHANGED <<user, token, cached, past>> /\ at[r].pc = "commit"
      BY <1>12, <2>2 DEF ChangeRole, Commits
    <3>. QED
      BY <1>1, <1>2, <3>1, Gone
  <2>. QED
    BY <2>1, <2>2
<1>13. ASSUME NEW r \in Requests, DeleteUser(r) PROVE Caused(t)'
  <2>1. CASE Goto(r, "invalidate")
    BY <1>3, <1>4, <1>13, <2>1, DeletedUser
  <2>2. CASE ~Goto(r, "invalidate")
    <3>1. Done(r) /\ UNCHANGED <<user, token, cached, past>> /\ at[r].pc = "commit"
      BY <1>13, <2>2 DEF DeleteUser, Commits
    <3>. QED
      BY <1>1, <1>2, <3>1, Gone
  <2>. QED
    BY <2>1, <2>2
<1>14. ASSUME NEW r \in Requests, Invalidate(r) PROVE Caused(t)'
  <2>1. /\ UNCHANGED <<user, token>> /\ \A q \in Requests \ {r} : at'[q] = at[q]
        /\ cached' = [s \in Tokens |-> IF s \in Covered(r) THEN "none" ELSE cached[s]]
    BY <1>1, <1>14, Gone DEF Invalidate
  <2>2. t \notin Covered(r) /\ cached'[t] = cached[t]
    BY <2>1 DEF Stale
  <2>3. Stale(t)
    BY <2>1, <2>2, SameTruth DEF Stale
  <2>4. past'.excused = past.excused \ Covered(r)
    BY <1>1, <1>14, Types DEF Invalidate
  <2>5. ASSUME NEW q \in Requests, at[q].pc = "invalidate", t \in Covered(q)
        PROVE  at'[q].pc = "invalidate" /\ t \in Covered(q)'
    BY <2>1, <2>2, <2>5 DEF Covered
  <2>. QED
    BY <1>1, <2>2, <2>3, <2>4, <2>5 DEF Caused
<1>15. ASSUME NEW r \in Requests, Miss(r) PROVE Caused(t)'
  <2>1. UNCHANGED <<user, token, cached>> /\ \A q \in Requests \ {r} : at'[q] = at[q]
    BY <1>1, <1>15, Gone DEF Miss
  <2>2. Stale(t)
    BY <2>1, SameTruth DEF Stale
  <2>3. past'.excused = past.excused \cup {s \in Covered(r) : Stale(s)}
    BY <1>1, <1>15, Types DEF Miss
  <2>4. CASE t \in past.excused \/ t \in Covered(r)
    BY <2>2, <2>3, <2>4 DEF Caused
  <2>5. ASSUME NEW q \in Requests \ {r}, at[q].pc = "invalidate", t \in Covered(q)
        PROVE  at'[q].pc = "invalidate" /\ t \in Covered(q)'
    BY <2>1, <2>5 DEF Covered
  <2>. QED
    BY <1>1, <2>2, <2>4, <2>5 DEF Caused
<1>16. ASSUME NEW s \in Tokens, Expire(s) PROVE Caused(t)'
  <2>1. UNCHANGED <<user, token, at>> /\ cached' = [cached EXCEPT ![s] = "none"]
    BY <1>16 DEF Expire
  <2>2. t # s
    BY <1>1, <2>1 DEF Stale
  <2>3. Stale(t)
    BY <1>1, <2>1, <2>2, SameTruth DEF Stale
  <2>4. past'.excused = past.excused \ {s}
    BY <1>1, <1>16, Types DEF Expire
  <2>. QED
    BY <1>1, <2>1, <2>2, <2>3, <2>4 DEF Caused, Covered
<1>17. CASE UNCHANGED accessVars
  <2>1. Stale(t)
    BY <1>17 DEF accessVars, Stale, Truth
  <2>. QED
    BY <1>1, <1>17, <2>1 DEF accessVars, Caused, Covered
<1>. QED
  BY <1>5, <1>6, <1>7, <1>8, <1>9, <1>10, <1>11, <1>12, <1>13, <1>14, <1>15, <1>16, <1>17
  DEF AccessNext, Authenticate, Commit

---------------------------------------------------------------------------
(* Sessions: none outlives its password.                                    *)

\* A request comes to its commit by reading what it is about to change.
LEMMA CommitStep ==
  ASSUME AccessConstants, AccessInv, [AccessNext]_accessVars, NEW q \in Requests,
         at'[q].pc = "commit", at'[q] # at[q]
  PROVE  Begin(q) \/ \E u \in Users : Login(q, u)
<1>1. AccessTypeOK /\ Owned /\ at \in [Requests -> Stands] /\ \A r \in Requests : Carry(at[r])
  BY Types DEF AccessInv, Carries
<1>2. ASSUME NEW r \in Requests, Done(r) PROVE FALSE
  BY <1>1, <1>2, Gone, IdleStands
<1>3. ASSUME NEW r \in Requests, NEW pc \in {"query", "invalidate"}, Goto(r, pc) PROVE FALSE
  BY <1>1, <1>3, Moved DEF Pcs
<1>4. ASSUME NEW r \in Requests, NEW role, at[r].pc \in {"look", "fill"}, Granted(r, role)
      PROVE  FALSE
  BY <1>1, <1>4, Let, IdleStands
<1>5. ASSUME NEW r \in Requests, Look(r) \/ Fill(r) PROVE FALSE
  BY <1>3, <1>4, <1>5 DEF Look, Fill
<1>6. ASSUME NEW r \in Requests, Query(r) PROVE FALSE
  <2>1. CASE at' = [at EXCEPT ![r].pc = "fill", ![r].saw = Truth(at[r].token)]
    <3>. DEFINE stand == [at[r] EXCEPT !.pc = "fill", !.saw = Truth(at[r].token)]
    <3>1. stand.pc = "fill" /\ at' = [at EXCEPT ![r] = stand]
      BY <1>1, <2>1 DEF Stands
    <3>. HIDE DEF stand
    <3>. QED
      BY <1>1, <3>1
  <2>. QED
    BY <1>2, <1>6, <2>1 DEF Query
<1>7. ASSUME NEW r \in Requests, Commit(r) \/ Invalidate(r) \/ Miss(r) PROVE FALSE
  BY <1>2, <1>3, <1>7 DEF Commit, LoginCommits, Fail, End, ChangePassword, ChangeRole,
                          DeleteUser, Invalidate, Miss
<1>8. ASSUME NEW r \in Requests, Begin(r) PROVE r = q
  BY <1>1, <1>8, <1>2 DEF Begin
<1>9. ASSUME NEW r \in Requests, NEW u \in Users, Login(r, u) PROVE r = q
  BY <1>1, <1>9 DEF Login
<1>10. ASSUME NEW r \in Requests, NEW kind, NEW t, NEW u, Arrive(r, kind, t, u) PROVE FALSE
  BY <1>1, <1>10 DEF Arrive, Idle
<1>11. ASSUME NEW t, Setup \/ Expire(t) \/ UNCHANGED accessVars PROVE FALSE
  BY <1>11 DEF Setup, Expire, accessVars
<1>. QED
  BY <1>5, <1>6, <1>7, <1>8, <1>9, <1>10, <1>11 DEF AccessNext, Authenticate

\* Only a change of it touches a password, and only that a race with a login.
LEMMA PasswordsStep ==
  ASSUME AccessConstants, AccessInv, [AccessNext]_accessVars, ~Setup,
         \A r \in Requests : ~ChangePassword(r)
  PROVE  (\A u \in Users : user'[u].pw = user[u].pw) /\ past'.raced = past.raced
<1>. DEFINE Kept == (\A u \in Users : user'[u].pw = user[u].pw) /\ past'.raced = past.raced
<1>1. past \in [requests : Nat, faults : Nat, excused : SUBSET Tokens,
                raced : BOOLEAN, overlapped : BOOLEAN]
  BY Types DEF AccessInv
<1>2. ASSUME NEW r \in Requests, Authenticate(r) PROVE Kept
  BY <1>1, <1>2 DEF Authenticate, Look, Query, Fill
<1>3. ASSUME NEW r \in Requests, Begin(r) \/ LoginCommits(r) \/ Fail(r) \/ End(r)
      PROVE  Kept
  BY <1>3 DEF Begin, LoginCommits, Fail, End
<1>4. ASSUME NEW r \in Requests, Invalidate(r) \/ Miss(r) PROVE Kept
  BY <1>1, <1>4 DEF Invalidate, Miss
<1>5. ASSUME NEW r \in Requests, ChangeRole(r) \/ DeleteUser(r) PROVE Kept
  <2>1. \A u \in Users : user'[u].pw = user[u].pw
    BY <1>5, ChangedRole, DeletedUser
  <2>2. UNCHANGED past \/ past' = [past EXCEPT !.overlapped = @ \/ Deleting(r)]
    BY <1>5, ChangedRole, DeletedUser
  <2>. QED
    BY <1>1, <2>1, <2>2
<1>6. ASSUME NEW r \in Requests, NEW kind, NEW t, NEW u, Arrive(r, kind, t, u) \/ Login(r, u)
      PROVE  Kept
  BY <1>1, <1>6 DEF Arrive, Login
<1>7. ASSUME NEW t, Expire(t) PROVE Kept
  BY <1>1, <1>7 DEF Expire
<1>8. CASE UNCHANGED accessVars
  BY <1>8 DEF accessVars
<1>. QED
  BY <1>2, <1>3, <1>4, <1>5, <1>6, <1>7, <1>8 DEF AccessNext, Commit

\* Without a change of password, sessions are as they were, or are new and have
\* the password of the login.
LEMMA OldSessionStep ==
  ASSUME AccessConstants, AccessInv, OldSessionHasCause, LoginsCurrent, [AccessNext]_accessVars
  PROVE  OldSessionHasCause'
<1>. SUFFICES ASSUME NEW t \in Sessions, token'[t].is = "live",
                     token'[t].pw < user'[token'[t].of].pw
              PROVE  past'.raced
  BY DEF OldSessionHasCause
<1>1. t \in Tokens /\ token \in [Tokens -> TokenRows] /\ user \in [Users -> UserRows] /\ AccessTypeOK
  BY Types DEF Tokens, AccessInv
<1>2. CASE Setup
  <2>1. token'[t].pw = 0 /\ token'[t].of \in Users
    BY <1>1, <1>2, SetUpRows DEF Used
  <2>. QED
    BY <1>2, <2>1, SetUpRows
<1>3. ASSUME NEW r \in Requests, ChangePassword(r) PROVE past'.raced
  <2>1. /\ token' = Ended(SessionsOf(at[r].of))
        /\ past.raced => past'.raced
    BY <1>3, Types DEF ChangePassword, AccessInv
  <2>2. token'[t] = token[t] /\ t \notin SessionsOf(at[r].of) /\ token[t].is = "live"
    BY <1>1, <2>1, EndedRows DEF Ended
  <2>3. token[t].of # at[r].of /\ token[t].of \in Users
    BY <1>1, <2>2 DEF SessionsOf, AccessInv, Owned, Used
  <2>. QED
    BY <1>3, <2>1, <2>2, <2>3, PasswordRows DEF OldSessionHasCause
<1>4. CASE ~Setup /\ \A r \in Requests : ~ChangePassword(r)
  <2>1. (\A u \in Users : user'[u].pw = user[u].pw) /\ past'.raced = past.raced
    BY <1>4, PasswordsStep
  <2>2. CASE token'[t] = token[t]
    <3>1. token[t].of \in Users
      BY <1>1, <2>2 DEF AccessInv, Owned, Used
    <3>. QED
      BY <2>1, <2>2, <3>1 DEF OldSessionHasCause
  <2>3. ASSUME NEW r \in Requests, LoginCommits(r) PROVE past'.raced
    <3>1. CASE token'[t] # token[t]
      <4>1. token'[t].of = at[r].of /\ token'[t].pw = at[r].pw /\ at[r].of \in Users
        BY <1>1, <2>3, <3>1, LoginRows
      <4>2. past.raced \/ at[r].pw = user[at[r].of].pw
        BY <2>3 DEF LoginsCurrent, LoginCommits, Commits
      <4>3. user[at[r].of].pw \in Nat
        BY <1>1, <4>1 DEF UserRows
      <4>. QED
        BY <2>1, <4>1, <4>2, <4>3
    <3>. QED
      BY <2>2, <3>1
  <2>4. ASSUME NEW ts, token' = Ended(ts) PROVE token'[t] = token[t]
    BY <1>1, <2>4 DEF Ended
  <2>5. ASSUME NEW r \in Requests,
               Authenticate(r) \/ Begin(r) \/ Fail(r) \/ End(r) \/ ChangeRole(r) \/ DeleteUser(r)
                 \/ Invalidate(r) \/ Miss(r)
        PROVE  token'[t] = token[t]
    BY <2>4, <2>5 DEF Authenticate, Look, Query, Fill, Begin, Fail, End, ChangeRole, DeleteUser,
                      Invalidate, Miss
  <2>6. ASSUME NEW r \in Requests, NEW kind, NEW s, NEW u, Arrive(r, kind, s, u) \/ Login(r, u)
        PROVE  token'[t] = token[t]
    BY <2>6 DEF Arrive, Login
  <2>7. ASSUME NEW s, Expire(s) \/ UNCHANGED accessVars PROVE token'[t] = token[t]
    BY <2>7 DEF Expire, accessVars
  <2>. QED
    BY <1>4, <2>2, <2>3, <2>5, <2>6, <2>7 DEF AccessNext, Commit
<1>. QED
  BY <1>2, <1>3, <1>4

LEMMA LoginsStep ==
  ASSUME AccessConstants, AccessInv, LoginsCurrent, [AccessNext]_accessVars
  PROVE  LoginsCurrent'
<1>. SUFFICES ASSUME NEW q \in Requests, at'[q].pc = "commit", at'[q].kind = "login", ~past'.raced
              PROVE  at'[q].pw = user'[at'[q].of].pw
  BY DEF LoginsCurrent, Commits
<1>1. at \in [Requests -> Stands]
  BY Types DEF AccessInv
<1>2. CASE at'[q] = at[q]
  <2>1. /\ at[q].pc = "commit" /\ at[q].kind = "login" /\ at[q].of \in Users
        /\ past.raced \/ at[q].pw = user[at[q].of].pw
    BY <1>2 DEF LoginsCurrent, Commits, AccessInv, Carries, Carry
  <2>2. ~Setup
    BY <2>1, SetUpRows
  <2>3. ASSUME NEW r \in Requests, ChangePassword(r) PROVE at'[q].pw = user'[at'[q].of].pw
    <3>1. past'.raced = (past.raced \/ LoggingIn(at[r].of))
      BY <2>3, Types DEF ChangePassword, AccessInv
    <3>2. at[q].of # at[r].of /\ ~past.raced
      BY <2>1, <3>1 DEF LoggingIn, Commits
    <3>. QED
      BY <1>2, <2>1, <2>3, <3>2, PasswordRows
  <2>4. CASE \A r \in Requests : ~ChangePassword(r)
    BY <1>2, <2>1, <2>2, <2>4, PasswordsStep
  <2>. QED
    BY <2>3, <2>4
<1>3. CASE at'[q] # at[q]
  <2>1. ASSUME Begin(q) PROVE FALSE
    <3>1. /\ at[q] \in Stands /\ at[q].pc = "begin" /\ at[q].kind # "login"
          /\ at'[q].pc # "idle"
      BY <1>1, <2>1 DEF Begin, AccessInv, Carries, Carry
    <3>. DEFINE of == IF at[q].of = NoUser THEN at[q].by ELSE at[q].of
                many == at[q].kind = "delete" /\ Several
                stand == [at[q] EXCEPT !.pc = "commit", !.of = of, !.many = many]
    <3>2. at'[q] = stand
      BY <1>1, <2>1, <3>1, IdleStands DEF Begin, Done
    <3>3. stand.kind = at[q].kind
      BY <3>1 DEF Stands
    <3>. HIDE DEF stand
    <3>. QED
      BY <3>1, <3>2, <3>3
  <2>2. PICK u \in Users : Login(q, u)
    BY <1>3, <2>1, CommitStep
  <2>. QED
    BY <1>1, <2>2 DEF Login, Idle
<1>. QED
  BY <1>2, <1>3

(* Revocation reaches every process. A token that the cache still grants what *)
(* the database has taken away (a logout, a revoked or rotated key, a changed *)
(* password or role, a deleted user) is about to be invalidated, or its       *)
(* invalidation failed, or a request that had read before has filled it in    *)
(* again. And no session outlives a change of its password, unless a login    *)
(* had verified the old one and committed after the change.                   *)
THEOREM RevocationIsSound == AccessSpec => []RevocationHolds
<1>. USE AccessAssumption
<1>. DEFINE IInv == AccessInv /\ StaleHasCause /\ OldSessionHasCause /\ LoginsCurrent
<1>1. AccessInit => IInv
  <2>. SUFFICES ASSUME AccessInit PROVE IInv
    OBVIOUS
  <2>1. \A t \in Tokens : cached[t] = "none" /\ token[t].is = "unused"
    BY DEF AccessInit
  <2>2. \A r \in Requests : at[r].pc = "idle"
    BY IdleStands DEF AccessInit
  <2>. QED
    BY <2>1, <2>2, InitAccess
    DEF StaleHasCause, Stale, OldSessionHasCause, LoginsCurrent, Commits, Tokens
<1>2. IInv /\ [AccessNext]_accessVars => IInv'
  <2>. SUFFICES ASSUME IInv, [AccessNext]_accessVars PROVE IInv'
    OBVIOUS
  <2>1. StaleHasCause'
    BY StaleStep DEF StaleHasCause, Caused
  <2>. QED
    BY <2>1, AccessStep, OldSessionStep, LoginsStep
<1>3. IInv => RevocationHolds
  BY DEF RevocationHolds
<1>. QED
  BY <1>1, <1>2, <1>3, PTL DEF AccessSpec

---------------------------------------------------------------------------
(* Administration: there is always somebody left to do it.                  *)

\* What a deletion has counted, and whom it has counted for.
LEMMA CountTaken ==
  ASSUME AccessInv, NEW q \in Requests, Begin(q), at'[q].pc = "commit"
  PROVE  at'[q].many => Several
<1>1. at \in [Requests -> Stands]
  BY Types DEF AccessInv
<1>. DEFINE of == IF at[q].of = NoUser THEN at[q].by ELSE at[q].of
            many == at[q].kind = "delete" /\ Several
            stand == [at[q] EXCEPT !.pc = "commit", !.of = of, !.many = many]
<1>2. at'[q] = stand
  BY <1>1, IdleStands DEF Begin, Done
<1>3. stand.many = many
  BY <1>1 DEF Stands
<1>. HIDE DEF stand
<1>. QED
  BY <1>2, <1>3

\* The admins change with the setup, with a role and with a deletion only.
LEMMA AdminsStep ==
  ASSUME AccessConstants, AccessInv, [AccessNext]_accessVars, ~Setup,
         \A r \in Requests : ~ChangeRole(r) /\ ~DeleteUser(r)
  PROVE  (\A u \in Users : user'[u].role = user[u].role) /\ past'.overlapped = past.overlapped
<1>. DEFINE Kept == (\A u \in Users : user'[u].role = user[u].role) /\ past'.overlapped = past.overlapped
<1>1. past \in [requests : Nat, faults : Nat, excused : SUBSET Tokens,
                raced : BOOLEAN, overlapped : BOOLEAN]
  BY Types DEF AccessInv
<1>2. ASSUME NEW r \in Requests, Authenticate(r) PROVE Kept
  BY <1>1, <1>2 DEF Authenticate, Look, Query, Fill
<1>3. ASSUME NEW r \in Requests, Begin(r) \/ LoginCommits(r) \/ Fail(r) \/ End(r)
      PROVE  Kept
  BY <1>3 DEF Begin, LoginCommits, Fail, End
<1>4. ASSUME NEW r \in Requests, Invalidate(r) \/ Miss(r) PROVE Kept
  BY <1>1, <1>4 DEF Invalidate, Miss
<1>5. ASSUME NEW r \in Requests, ChangePassword(r) PROVE Kept
  BY <1>1, <1>5, PasswordRows DEF ChangePassword
<1>6. ASSUME NEW r \in Requests, NEW kind, NEW t, NEW u, Arrive(r, kind, t, u) \/ Login(r, u)
      PROVE  Kept
  BY <1>1, <1>6 DEF Arrive, Login
<1>7. ASSUME NEW t, Expire(t) PROVE Kept
  BY <1>1, <1>7 DEF Expire
<1>8. CASE UNCHANGED accessVars
  BY <1>8 DEF accessVars
<1>. QED
  BY <1>2, <1>3, <1>4, <1>5, <1>6, <1>7, <1>8 DEF AccessNext, Commit

LEMMA FiniteAdmins == ASSUME AccessConstants PROVE IsFiniteSet(Admins)
BY FS_Subset DEF AccessConstants, Admins

\* Of two admins, one is left when the other goes.
LEMMA AnotherAdmin ==
  ASSUME AccessConstants, Cardinality(Admins) > 1, NEW u
  PROVE  \E v \in Admins : v # u
<1>. SUFFICES ASSUME Admins \subseteq {u} PROVE FALSE
  OBVIOUS
<1>1. IsFiniteSet({u}) /\ Cardinality({u}) = 1
  BY FS_Singleton
<1>2. Cardinality(Admins) <= 1
  BY <1>1, FS_Subset
<1>3. Cardinality(Admins) \in Nat
  BY FiniteAdmins, FS_CardinalityType
<1>. QED
  BY <1>2, <1>3

LEMMA AdminKeptStep ==
  ASSUME AccessConstants, AccessInv, KeepsAdmin, CountsHold, [AccessNext]_accessVars
  PROVE  KeepsAdmin'
<1>. SUFFICES ASSUME Admins' = {}, ~past'.overlapped PROVE \A u \in Users : user'[u].role = "none"
  BY DEF KeepsAdmin
<1>1. past \in [requests : Nat, faults : Nat, excused : SUBSET Tokens,
                raced : BOOLEAN, overlapped : BOOLEAN]
  BY Types DEF AccessInv
<1>2. CASE Setup
  BY <1>2, SetUpRows
<1>3. ASSUME NEW r \in Requests, ChangeRole(r) PROVE \A u \in Users : user'[u].role = "none"
  <2>1. CASE UNCHANGED <<user, past>>
    BY <2>1 DEF KeepsAdmin, Admins
  <2>2. CASE ~UNCHANGED <<user, past>>
    <3>1. /\ Admins # {at[r].of} /\ at[r].of \in Users
          /\ \A u \in Users \ {at[r].of} : user'[u].role = user[u].role
          /\ user'[at[r].of].role = IF user[at[r].of].role = "admin" THEN "member" ELSE "admin"
      BY <1>3, <2>2, ChangedRole
    <3>2. user[at[r].of].role = "admin"
      BY <3>1 DEF Admins
    <3>3. PICK v \in Admins : v # at[r].of
      BY <3>1, <3>2 DEF Admins
    <3>4. v \in Admins'
      BY <3>1, <3>3 DEF Admins
    <3>. QED
      BY <3>4
  <2>. QED
    BY <2>1, <2>2
<1>4. ASSUME NEW r \in Requests, DeleteUser(r) PROVE \A u \in Users : user'[u].role = "none"
  <2>1. CASE UNCHANGED <<user, past>>
    BY <2>1 DEF KeepsAdmin, Admins
  <2>2. CASE ~UNCHANGED <<user, past>>
    <3>1. /\ at[r].of \in Users /\ at[r].kind = "delete" /\ at[r].pc = "commit"
          /\ user[at[r].of].role = "admin" => at[r].many
          /\ \A u \in Users \ {at[r].of} : user'[u].role = user[u].role
          /\ user'[at[r].of].role = "none"
          /\ past' = [past EXCEPT !.overlapped = @ \/ Deleting(r)]
      BY <1>4, <2>2, DeletedUser
    <3>2. ~past.overlapped
      BY <1>1, <3>1
    <3>3. CASE user[at[r].of].role = "admin"
      <4>1. Cardinality(Admins) > 1
        BY <3>1, <3>2, <3>3 DEF CountsHold, Commits
      <4>2. PICK v \in Admins : v # at[r].of
        BY <4>1, AnotherAdmin
      <4>3. v \in Admins'
        BY <3>1, <4>2 DEF Admins
      <4>. QED
        BY <4>3
    <3>4. CASE user[at[r].of].role # "admin"
      <4>1. Admins = {}
        BY <3>1, <3>4 DEF Admins
      <4>. QED
        BY <3>1, <3>2, <4>1 DEF KeepsAdmin
    <3>. QED
      BY <3>3, <3>4
  <2>. QED
    BY <2>1, <2>2
<1>5. CASE ~Setup /\ \A r \in Requests : ~ChangeRole(r) /\ ~DeleteUser(r)
  <2>1. (\A u \in Users : user'[u].role = user[u].role) /\ past'.overlapped = past.overlapped
    BY <1>5, AdminsStep
  <2>2. Admins' = Admins
    BY <2>1 DEF Admins
  <2>. QED
    BY <2>1, <2>2 DEF KeepsAdmin
<1>. QED
  BY <1>2, <1>3, <1>4, <1>5

LEMMA CountsStep ==
  ASSUME AccessConstants, AccessInv, CountsHold, [AccessNext]_accessVars
  PROVE  CountsHold'
<1>. SUFFICES ASSUME NEW q \in Requests, at'[q].pc = "commit", at'[q].kind = "delete",
                     at'[q].many, ~past'.overlapped
              PROVE  Cardinality(Admins') > 1
  BY DEF CountsHold, Commits
<1>1. AccessTypeOK /\ past \in [requests : Nat, faults : Nat, excused : SUBSET Tokens,
                          raced : BOOLEAN, overlapped : BOOLEAN]
  BY Types DEF AccessInv
<1>2. CASE at'[q] = at[q]
  <2>1. past.overlapped \/ Cardinality(Admins) > 1
    BY <1>2 DEF CountsHold, Commits
  <2>2. ~Setup
    BY <1>2, SetUpRows
  <2>3. ASSUME NEW r \in Requests, ChangeRole(r) \/ DeleteUser(r)
        PROVE  UNCHANGED <<user, past>>
    <3>1. CASE r = q
      <4>1. Done(q) \/ Goto(q, "invalidate")
        BY <2>3, <3>1 DEF ChangeRole, DeleteUser
      <4>2. at'[q].pc # "commit"
        BY <1>1, <4>1, Gone, IdleStands, Moved DEF Pcs
      <4>. QED
        BY <4>2
    <3>2. CASE r # q
      <4>1. Deleting(r)
        BY <1>2, <3>2 DEF Deleting, Commits
      <4>2. UNCHANGED <<user, past>> \/ past' = [past EXCEPT !.overlapped = @ \/ Deleting(r)]
        BY <2>3, ChangedRole, DeletedUser
      <4>. QED
        BY <1>1, <4>1, <4>2
    <3>. QED
      BY <3>1, <3>2
  <2>4. ASSUME UNCHANGED <<user, past>> PROVE Cardinality(Admins') > 1
    BY <2>1, <2>4 DEF Admins
  <2>5. CASE \A r \in Requests : ~ChangeRole(r) /\ ~DeleteUser(r)
    <3>1. (\A u \in Users : user'[u].role = user[u].role) /\ past'.overlapped = past.overlapped
      BY <2>2, <2>5, AdminsStep
    <3>2. Admins' = Admins
      BY <3>1 DEF Admins
    <3>. QED
      BY <2>1, <3>1, <3>2
  <2>. QED
    BY <2>3, <2>4, <2>5
<1>3. CASE at'[q] # at[q]
  <2>1. Begin(q)
    <3>1. ASSUME NEW u \in Users, Login(q, u) PROVE FALSE
      BY <1>1, <3>1, Types DEF Login, Idle
    <3>. QED
      BY <1>3, <3>1, CommitStep
  <2>2. Cardinality(Admins) > 1 /\ UNCHANGED user
    BY <2>1, CountTaken DEF Begin, Several
  <2>. QED
    BY <2>2 DEF Admins
<1>. QED
  BY <1>2, <1>3

(* Once set up, the instance keeps an admin, whatever is demoted or deleted,  *)
(* unless a deletion commits under another change of admins: there the count  *)
(* that it has taken can be out of date, and the last two admins can go.      *)
THEOREM AdminIsKept == AccessSpec => []KeepsAdmin
<1>. USE AccessAssumption
<1>. DEFINE IInv == AccessInv /\ KeepsAdmin /\ CountsHold
<1>1. AccessInit => IInv
  <2>. SUFFICES ASSUME AccessInit PROVE IInv
    OBVIOUS
  <2>1. KeepsAdmin
    BY DEF AccessInit, KeepsAdmin
  <2>2. CountsHold
    BY IdleStands DEF AccessInit, CountsHold, Commits
  <2>. QED
    BY <2>1, <2>2, InitAccess
<1>2. IInv /\ [AccessNext]_accessVars => IInv'
  BY AccessStep, AdminKeptStep, CountsStep
<1>3. IInv => KeepsAdmin
  OBVIOUS
<1>. QED
  BY <1>1, <1>2, <1>3, PTL DEF AccessSpec

(* The two together, as the run states them.                                 *)
THEOREM RightsAreKept == AccessSpec => []RightsHold
<1>1. RevocationHolds /\ KeepsAdmin => RightsHold
  BY DEF RightsHold
<1>. QED
  BY <1>1, RevocationIsSound, AdminIsKept, PTL

------------------------------------------------------------------------------
(* Idempotency, for finitely many callers and any bodies and bounds.         *)

\* Attempts that may still take effect, or free the key for one that will.
Open == {a \in Attempts : attempt[a].pc \in {"run", "drop"}}
\* Does the key let another attempt in, now or when the reservation of one that
\* is gone expires?
KeyOpen == key.kind = "free" \/ (key.kind = "in_flight" /\ ~Holding(key.by))
Chances == Cardinality(effects) + Cardinality(Open) + (IF KeyOpen THEN 1 ELSE 0)

ChancesCounted == Chances <= 1 + Sum
\* A stored response is that of an attempt with an effect and of its body.
ResponseIsGenuine ==
  /\ key.kind = "response" => key.by \in effects /\ key.body = BodyOf(key.by)
  /\ \A a \in Attempts : attempt[a].pc = "store" => a \in effects
\* Without a lapse and a slip, nobody but the owner of the reservation runs.
OwnerOnly ==
  causes["lapse"] + causes["slip"] = 0 =>
    \A a \in Attempts : Holding(a) => key.kind = "in_flight" /\ key.by = a

KeyInv == KeyTypeOK /\ ChancesCounted /\ ResponseIsGenuine /\ OwnerOnly /\ SuccessIsGenuine

LEMMA IdemConstants == IsFiniteSet(Attempts) /\ MaxAttempts \in Nat
<1>1. IsFiniteSet(Callers) /\ MaxAttempts \in Nat
  BY IdempotencyAssumption DEF IdempotencyConstants
<1>2. IsFiniteSet(1..MaxAttempts)
  BY <1>1, FS_Interval
<1>3. IsFiniteSet(Callers \X (1..MaxAttempts))
  BY <1>1, <1>2, FS_Product
<1>. QED
  BY <1>1, <1>3 DEF Attempts

LEMMA KeyKinds ==
  ASSUME KeyTypeOK
  PROVE  /\ key.kind \in {"free", "in_flight", "response", "one_time"}
         /\ key = Free <=> key.kind = "free"
         /\ key.kind # "free" => key.by \in Attempts /\ key.body \in Bodies
BY DEF KeyTypeOK, Free

LEMMA KeyTypeStep ==
  ASSUME KeyTypeOK, [KeyNext]_idemVars
  PROVE  KeyTypeOK'
<1>. USE DEF KeyTypeOK, Replies, Faults
<1>1. ASSUME NEW c \in Callers, NEW n \in 1..MaxAttempts, Send(c, n) PROVE KeyTypeOK'
  <2>1. <<c, n>> \in Attempts
    BY DEF Attempts
  <2>2. attempt' = [attempt EXCEPT ![<<c, n>>].pc = "read"]
    BY <1>1 DEF Send, AttemptGoes
  <2>. QED
    BY <1>1, <2>1, <2>2 DEF Send
<1>2. ASSUME NEW a \in Attempts, Read(a) PROVE KeyTypeOK'
  <2>1. CASE key = Free
    BY <1>2, <2>1 DEF Read, AttemptGoes
  <2>2. CASE key # Free
    <3>1. key.by \in Attempts /\ ReplyTo(a) \in Replies
      BY <2>2, KeyKinds DEF ReplyTo
    <3>. QED
      BY <1>2, <2>2, <3>1 DEF Read, Answered
  <2>. QED
    BY <2>1, <2>2
<1>3. ASSUME NEW a \in Attempts, ReserveKey(a) PROVE KeyTypeOK'
  <2>1. BodyOf(a) \in Bodies
    BY DEF BodyOf, Attempts
  <2>. QED
    BY <1>3, <2>1 DEF ReserveKey, AttemptGoes
<1>4. ASSUME NEW a \in Attempts, Reread(a) PROVE KeyTypeOK'
  <2>1. CASE key = Free
    BY <1>4, <2>1 DEF Reread, AttemptGoes, CountCause
  <2>2. CASE key # Free
    <3>1. key.by \in Attempts /\ ReplyTo(a) \in Replies
      BY <2>2, KeyKinds DEF ReplyTo
    <3>. QED
      BY <1>4, <2>2, <3>1 DEF Reread, Answered
  <2>. QED
    BY <2>1, <2>2
<1>5. ASSUME NEW a \in Attempts, Execute(a) PROVE KeyTypeOK'
  <2>1. effects' \subseteq Attempts
    BY <1>5 DEF Execute
  <2>2. causes' \in [Faults -> Nat]
    BY <1>5 DEF Execute, CountCause
  <2>3. attempt' \in [Attempts -> [pc : {"idle", "read", "reserve", "reread", "run",
                                         "store", "drop", "end"},
                                   reply : Replies, from : {<<>>} \cup Attempts]]
    BY <1>5 DEF Execute
  <2>. QED
    BY <1>5, <2>1, <2>2, <2>3 DEF Execute
<1>6. ASSUME NEW a \in Attempts, StoreReply(a) PROVE KeyTypeOK'
  <2>1. BodyOf(a) \in Bodies
    BY DEF BodyOf, Attempts
  <2>. QED
    BY <1>6, <2>1 DEF StoreReply, AttemptGoes
<1>7. ASSUME NEW a \in Attempts, Drop(a) PROVE KeyTypeOK'
  BY <1>7 DEF Drop, AttemptGoes
<1>8. ASSUME NEW a \in Attempts, HandlerDies(a) PROVE KeyTypeOK'
  BY <1>8 DEF HandlerDies, AttemptGoes, CountCause
<1>9. CASE ReservationExpires
  BY <1>9 DEF ReservationExpires, CountCause
<1>10. CASE UNCHANGED idemVars
  BY <1>10 DEF idemVars
<1>. QED
  BY <1>1, <1>2, <1>3, <1>4, <1>5, <1>6, <1>7, <1>8, <1>9, <1>10 DEF KeyNext, ServeAttempt

\* What the sets of the count become in a step.
LEMMA OpenChange ==
  ASSUME KeyTypeOK, NEW a \in Attempts, NEW f,
         attempt' = [attempt EXCEPT ![a] = f]
  PROVE  /\ IsFiniteSet(Open) /\ Cardinality(Open) \in Nat
         /\ IsFiniteSet(effects) /\ Cardinality(effects) \in Nat
         /\ f.pc \in {"run", "drop"} <=> attempt[a].pc \in {"run", "drop"}
              => Cardinality(Open') = Cardinality(Open)
         /\ f.pc \in {"run", "drop"} /\ attempt[a].pc \notin {"run", "drop"}
              => Cardinality(Open') = Cardinality(Open) + 1
         /\ f.pc \notin {"run", "drop"} /\ attempt[a].pc \in {"run", "drop"}
              => Cardinality(Open') = Cardinality(Open) - 1
<1>1. /\ IsFiniteSet(Open) /\ IsFiniteSet(effects)
  BY IdemConstants, FS_Subset DEF Open, KeyTypeOK
<1>2. Cardinality(Open) \in Nat /\ Cardinality(effects) \in Nat
  BY <1>1, FS_CardinalityType
<1>3. Open' = {b \in Attempts : (IF b = a THEN f.pc ELSE attempt[b].pc) \in {"run", "drop"}}
  BY DEF Open, KeyTypeOK
<1>4. CASE f.pc \in {"run", "drop"} <=> attempt[a].pc \in {"run", "drop"}
  <2>1. Open' = Open
    BY <1>3, <1>4 DEF Open
  <2>. QED
    BY <1>1, <1>2, <1>4, <2>1
<1>5. CASE f.pc \in {"run", "drop"} /\ attempt[a].pc \notin {"run", "drop"}
  <2>1. Open' = Open \cup {a} /\ a \notin Open
    BY <1>3, <1>5 DEF Open
  <2>2. Cardinality(Open \cup {a}) = Cardinality(Open) + 1
    BY <1>1, <2>1, FS_AddElement
  <2>. QED
    BY <1>1, <1>2, <1>5, <2>1, <2>2
<1>6. CASE f.pc \notin {"run", "drop"} /\ attempt[a].pc \in {"run", "drop"}
  <2>1. Open' = Open \ {a} /\ a \in Open
    BY <1>3, <1>6 DEF Open
  <2>2. Cardinality(Open \ {a}) = Cardinality(Open) - 1
    BY <1>1, <2>1, FS_RemoveElement
  <2>. QED
    BY <1>1, <1>2, <1>6, <2>1, <2>2
<1>. QED
  BY <1>4, <1>5, <1>6

\* What each step does to the attempt that takes it, and to the key.
LEMMA EffectChange ==
  ASSUME KeyTypeOK, NEW a \in Attempts, effects' = effects \cup {a}
  PROVE  Cardinality(effects') <= Cardinality(effects) + 1 /\ Cardinality(effects') \in Nat
<1>1. IsFiniteSet(effects) /\ IsFiniteSet(effects')
  BY IdemConstants, FS_Subset DEF KeyTypeOK
<1>2. Cardinality(effects) \in Nat /\ Cardinality(effects') \in Nat
  BY <1>1, FS_CardinalityType
<1>3. CASE a \in effects
  <2>1. Cardinality(effects') = Cardinality(effects)
    <3>1. effects' = effects
      BY <1>3
    <3>. QED
      BY <3>1
  <2>. QED
    BY <1>2, <2>1
<1>4. CASE a \notin effects
  <2>1. Cardinality(effects \cup {a}) = Cardinality(effects) + 1
    BY <1>1, <1>4, FS_AddElement
  <2>. QED
    BY <1>2, <2>1
<1>. QED
  BY <1>3, <1>4

LEMMA SumStep ==
  ASSUME KeyTypeOK
  PROVE  /\ Sum \in Nat
         /\ UNCHANGED causes => Sum' = Sum
         /\ \A f \in Faults : CountCause(f) => Sum' = Sum + 1
<1>. DEFINE c(f) == causes[f]
<1>1. \A f \in Faults : c(f) \in Nat
  BY DEF KeyTypeOK
<1>2. Sum = c("lapse") + c("slip") + c("big") + c("late") + c("death") /\ Sum \in Nat
  BY <1>1 DEF Sum, Faults
<1>3. ASSUME NEW f \in Faults, CountCause(f)
      PROVE  \A g \in Faults : causes'[g] = IF g = f THEN c(f) + 1 ELSE c(g)
  BY <1>3 DEF KeyTypeOK, CountCause
<1>4. ASSUME NEW f \in Faults, CountCause(f) PROVE Sum' = Sum + 1
  <2>1. f \in {"lapse", "slip", "big", "late", "death"}
    BY DEF Faults
  <2>2. Sum' = causes'["lapse"] + causes'["slip"] + causes'["big"] + causes'["late"]
                 + causes'["death"]
    BY DEF Sum
  <2>. HIDE DEF c
  <2>. QED
    BY <1>1, <1>2, <1>3, <1>4, <2>1, <2>2 DEF Faults
<1>. QED
  BY <1>2, <1>4 DEF Sum

LEMMA ChancesStep ==
  ASSUME KeyTypeOK, ChancesCounted, [KeyNext]_idemVars
  PROVE  ChancesCounted'
<1>. DEFINE e == Cardinality(effects)
            o == Cardinality(Open)
            k == IF KeyOpen THEN 1 ELSE 0
<1>1. /\ Sum \in Nat /\ e \in Nat /\ o \in Nat /\ k \in {0, 1}
      /\ e + o + k <= 1 + Sum
  <2>1. IsFiniteSet(Open) /\ IsFiniteSet(effects)
    BY IdemConstants, FS_Subset DEF Open, KeyTypeOK
  <2>. QED
    BY <2>1, SumStep, FS_CardinalityType DEF ChancesCounted, Chances
<1>2. SUFFICES e' + o' + k' <= 1 + Sum'
  BY DEF ChancesCounted, Chances
<1>3. k' = 0 \/ k' = 1
  OBVIOUS
<1>4. UNCHANGED causes => Sum' = Sum
  BY SumStep
<1>5. UNCHANGED effects => e' = e
  OBVIOUS
<1>6. KeyOpen <=> key.kind = "free" \/ (key.kind = "in_flight" /\ ~Holding(key.by))
  BY DEF KeyOpen
<1>. HIDE DEF e, o, k
<1>7. ASSUME NEW a \in Attempts, NEW f, attempt' = [attempt EXCEPT ![a] = f]
      PROVE  /\ f.pc \in {"run", "drop"} <=> attempt[a].pc \in {"run", "drop"} => o' = o
             /\ f.pc \in {"run", "drop"} /\ attempt[a].pc \notin {"run", "drop"} => o' = o + 1
             /\ f.pc \notin {"run", "drop"} /\ attempt[a].pc \in {"run", "drop"} => o' = o - 1
  BY <1>7, OpenChange DEF o
<1>8. ASSUME NEW a \in Attempts, NEW f, attempt' = [attempt EXCEPT ![a] = f], UNCHANGED key,
             Holding(a) <=> f.pc \in {"run", "store", "drop"}
      PROVE  k' = k
  <2>1. \A b \in Attempts : Holding(b)' <=> Holding(b)
    BY <1>8 DEF Holding, KeyTypeOK
  <2>2. KeyOpen' <=> KeyOpen
    BY <1>8, <2>1, KeyKinds DEF KeyOpen
  <2>. QED
    BY <2>2 DEF k
\* An attempt that neither holds the key nor will.
<1>9. ASSUME NEW a \in Attempts, NEW f, attempt' = [attempt EXCEPT ![a] = f],
             attempt[a].pc \notin {"run", "store", "drop"},
             f.pc \notin {"run", "store", "drop"}, UNCHANGED <<key, effects, causes>>
      PROVE  e' + o' + k' <= 1 + Sum'
  <2>1. o' = o
    BY <1>7, <1>9
  <2>2. k' = k
    BY <1>8, <1>9 DEF Holding
  <2>. QED
    BY <1>1, <1>4, <1>5, <1>9, <2>1, <2>2
<1>10. ASSUME NEW c \in Callers, NEW n \in 1..MaxAttempts, Send(c, n)
       PROVE  e' + o' + k' <= 1 + Sum'
  <2>1. <<c, n>> \in Attempts
    BY DEF Attempts
  <2>2. PICK a \in Attempts : attempt[a].pc = "idle" /\ attempt' = [attempt EXCEPT ![a].pc = "read"]
    BY <1>10, <2>1 DEF Send, AttemptGoes
  <2>. DEFINE f == [attempt[a] EXCEPT !.pc = "read"]
  <2>3. attempt' = [attempt EXCEPT ![a] = f] /\ f.pc = "read"
    BY <2>2 DEF KeyTypeOK
  <2>. HIDE DEF f
  <2>. QED
    BY <1>9, <1>10, <2>2, <2>3 DEF Send
<1>11. ASSUME NEW a \in Attempts, Read(a) PROVE e' + o' + k' <= 1 + Sum'
  <2>1. PICK f : attempt' = [attempt EXCEPT ![a] = f] /\ f.pc \in {"reserve", "end"}
    <3>1. [attempt[a] EXCEPT !.pc = "reserve"].pc = "reserve"
      BY DEF KeyTypeOK
    <3>. QED
      BY <1>11, <3>1 DEF Read, AttemptGoes, Answered
  <2>. QED
    BY <1>9, <1>11, <2>1 DEF Read
<1>12. ASSUME NEW a \in Attempts, ReserveKey(a) PROVE e' + o' + k' <= 1 + Sum'
  <2>1. CASE key = Free
    <3>. DEFINE f == [attempt[a] EXCEPT !.pc = "run"]
    <3>1. attempt' = [attempt EXCEPT ![a] = f] /\ f.pc = "run"
      BY <1>12, <2>1 DEF ReserveKey, AttemptGoes, KeyTypeOK
    <3>. HIDE DEF f
    <3>2. o' = o + 1
      BY <1>7, <1>12, <3>1 DEF ReserveKey
    <3>3. k = 1
      BY <2>1, KeyKinds DEF k, KeyOpen
    <3>4. k' = 0
      <4>1. key' = [kind |-> "in_flight", body |-> BodyOf(a), by |-> a]
        BY <1>12, <2>1 DEF ReserveKey
      <4>2. Holding(a)'
        BY <3>1 DEF Holding, KeyTypeOK
      <4>3. ~KeyOpen'
        BY <4>1, <4>2 DEF KeyOpen, Holding
      <4>. QED
        BY <4>3 DEF k
    <3>. QED
      BY <1>1, <1>4, <1>5, <1>12, <3>2, <3>3, <3>4 DEF ReserveKey
  <2>2. CASE key # Free
    <3>. DEFINE f == [attempt[a] EXCEPT !.pc = "reread"]
    <3>1. attempt' = [attempt EXCEPT ![a] = f] /\ f.pc = "reread"
      BY <1>12, <2>2 DEF ReserveKey, AttemptGoes, KeyTypeOK
    <3>. HIDE DEF f
    <3>. QED
      BY <1>9, <1>12, <2>2, <3>1 DEF ReserveKey
  <2>. QED
    BY <2>1, <2>2
<1>13. ASSUME NEW a \in Attempts, Reread(a) PROVE e' + o' + k' <= 1 + Sum'
  <2>1. CASE key = Free
    <3>. DEFINE f == [attempt[a] EXCEPT !.pc = "run"]
    <3>1. attempt' = [attempt EXCEPT ![a] = f] /\ f.pc = "run"
      BY <1>13, <2>1 DEF Reread, AttemptGoes, KeyTypeOK
    <3>. HIDE DEF f
    <3>2. o' = o + 1
      BY <1>7, <1>13, <3>1 DEF Reread
    <3>3. k = 1
      BY <2>1, KeyKinds DEF k, KeyOpen
    <3>4. Sum' = Sum + 1
      BY <1>13, <2>1, SumStep DEF Reread, Faults
    <3>5. e' = e
      BY <1>5, <1>13 DEF Reread
    <3>. QED
      BY <1>1, <1>3, <3>2, <3>3, <3>4, <3>5
  <2>2. CASE key # Free
    <3>. DEFINE f == [pc |-> "end", reply |-> ReplyTo(a), from |-> key.by]
    <3>1. attempt' = [attempt EXCEPT ![a] = f] /\ f.pc = "end"
      BY <1>13, <2>2 DEF Reread, Answered
    <3>. HIDE DEF f
    <3>. QED
      BY <1>9, <1>13, <2>2, <3>1 DEF Reread
  <2>. QED
    BY <2>1, <2>2
<1>14. ASSUME NEW a \in Attempts, Execute(a) PROVE e' + o' + k' <= 1 + Sum'
  <2>1. PICK f : /\ attempt' = [attempt EXCEPT ![a] = f] /\ f.pc \in {"store", "drop"}
                 /\ \/ f.pc = "store" /\ effects' = effects \cup {a} /\ UNCHANGED causes
                    \/ /\ f.pc = "drop" /\ effects' = effects \cup {a}
                       /\ CountCause("big") \/ CountCause("late")
                    \/ f.pc = "drop" /\ UNCHANGED <<effects, causes>>
    <3>1. ASSUME NEW to \in {"store", "drop"}
          PROVE  /\ [[attempt[a] EXCEPT !.reply = "ok", !.from = a] EXCEPT !.pc = to].pc = to
                 /\ [attempt[a] EXCEPT !.reply = "ok", !.from = a, !.pc = to].pc = to
                 /\ [attempt[a] EXCEPT !.reply = "error", !.pc = to].pc = to
      BY DEF KeyTypeOK
    <3>2. ASSUME NEW stored \in BOOLEAN, effects' = effects \cup {a},
                 attempt' = [attempt EXCEPT ![a].reply = "ok", ![a].from = a, ![a].pc =
                       IF stored \/ oneTime THEN "store" ELSE "drop"],
                 IF stored \/ oneTime THEN UNCHANGED causes ELSE CountCause("big")
          PROVE  \E f : /\ attempt' = [attempt EXCEPT ![a] = f] /\ f.pc \in {"store", "drop"}
                        /\ \/ f.pc = "store" /\ effects' = effects \cup {a} /\ UNCHANGED causes
                           \/ /\ f.pc = "drop" /\ effects' = effects \cup {a}
                              /\ CountCause("big") \/ CountCause("late")
                           \/ f.pc = "drop" /\ UNCHANGED <<effects, causes>>
      <4>. DEFINE to == IF stored \/ oneTime THEN "store" ELSE "drop"
                  f == [attempt[a] EXCEPT !.reply = "ok", !.from = a, !.pc = to]
      <4>1. attempt' = [attempt EXCEPT ![a] = f]
        BY <3>2 DEF KeyTypeOK
      <4>2. f.pc = to
        BY <3>1
      <4>. HIDE DEF f
      <4>. QED
        BY <3>2, <4>1, <4>2
    <3>3. ASSUME NEW committed \in BOOLEAN,
                 attempt' = [attempt EXCEPT ![a].reply = "error", ![a].pc = "drop"],
                 IF committed THEN effects' = effects \cup {a} /\ CountCause("late")
                              ELSE UNCHANGED <<effects, causes>>
          PROVE  \E f : /\ attempt' = [attempt EXCEPT ![a] = f] /\ f.pc \in {"store", "drop"}
                        /\ \/ f.pc = "store" /\ effects' = effects \cup {a} /\ UNCHANGED causes
                           \/ /\ f.pc = "drop" /\ effects' = effects \cup {a}
                              /\ CountCause("big") \/ CountCause("late")
                           \/ f.pc = "drop" /\ UNCHANGED <<effects, causes>>
      <4>. DEFINE f == [attempt[a] EXCEPT !.reply = "error", !.pc = "drop"]
      <4>1. attempt' = [attempt EXCEPT ![a] = f]
        BY <3>3 DEF KeyTypeOK
      <4>2. f.pc = "drop"
        BY <3>1
      <4>. HIDE DEF f
      <4>. QED
        BY <3>3, <4>1, <4>2
    <3>. QED
      BY <1>14, <3>2, <3>3 DEF Execute
  <2>2. k' = k
    BY <1>8, <1>14, <2>1 DEF Execute, Holding
  <2>3. /\ f.pc = "store" => o' = o - 1
        /\ f.pc = "drop" => o' = o
    BY <1>7, <1>14, <2>1 DEF Execute
  <2>4. effects' = effects \cup {a} => e' <= e + 1 /\ e' \in Nat
    BY EffectChange DEF e
  <2>5. CountCause("big") \/ CountCause("late") => Sum' = Sum + 1
    BY SumStep DEF Faults
  <2>. QED
    BY <1>1, <1>4, <1>5, <2>1, <2>2, <2>3, <2>4, <2>5
<1>15. ASSUME NEW a \in Attempts, NEW f, attempt' = [attempt EXCEPT ![a] = f], f.pc = "end",
              StoreReply(a) \/ Drop(a) \/ HandlerDies(a)
       PROVE  e' + o' + k' <= 1 + Sum'
  <2>1. CASE StoreReply(a)
    <3>1. o' = o
      BY <1>7, <1>15, <2>1 DEF StoreReply
    <3>2. k' = 0
      <4>1. key'.kind \in {"one_time", "response"}
        BY <2>1 DEF StoreReply
      <4>2. ~KeyOpen'
        BY <4>1 DEF KeyOpen
      <4>. QED
        BY <4>2 DEF k
    <3>. QED
      BY <1>1, <1>4, <1>5, <2>1, <3>1, <3>2 DEF StoreReply
  <2>2. CASE Drop(a)
    <3>1. o' = o - 1
      BY <1>7, <1>15, <2>2 DEF Drop
    <3>. QED
      BY <1>1, <1>3, <1>4, <1>5, <2>2, <3>1 DEF Drop
  <2>3. CASE HandlerDies(a)
    <3>1. o' = o \/ o' = o - 1
      BY <1>7, <1>15, <2>3 DEF HandlerDies, Holding
    <3>2. Sum' = Sum + 1
      BY <2>3, SumStep DEF HandlerDies, Faults
    <3>. QED
      BY <1>1, <1>3, <1>5, <2>3, <3>1, <3>2 DEF HandlerDies
  <2>. QED
    BY <1>15, <2>1, <2>2, <2>3
<1>16. ASSUME NEW a \in Attempts, StoreReply(a) \/ Drop(a) \/ HandlerDies(a)
       PROVE  e' + o' + k' <= 1 + Sum'
  <2>. DEFINE f == [attempt[a] EXCEPT !.pc = "end"]
  <2>1. attempt' = [attempt EXCEPT ![a] = f] /\ f.pc = "end"
    BY <1>16 DEF StoreReply, Drop, HandlerDies, AttemptGoes, KeyTypeOK
  <2>. HIDE DEF f
  <2>. QED
    BY <1>15, <1>16, <2>1
<1>17. CASE ReservationExpires
  <2>1. o' = o
    BY <1>17 DEF ReservationExpires, o, Open
  <2>2. CASE Holding(key.by)
    <3>1. Sum' = Sum + 1
      BY <1>17, <2>2, SumStep DEF ReservationExpires, Faults
    <3>. QED
      BY <1>1, <1>3, <1>5, <1>17, <2>1, <3>1 DEF ReservationExpires
  <2>3. CASE ~Holding(key.by)
    <3>1. k = 1
      BY <1>17, <2>3 DEF ReservationExpires, k, KeyOpen
    <3>. QED
      BY <1>1, <1>3, <1>4, <1>5, <1>17, <2>1, <2>3, <3>1 DEF ReservationExpires
  <2>. QED
    BY <2>2, <2>3
<1>18. CASE UNCHANGED idemVars
  <2>1. o' = o /\ k' = k
    BY <1>18 DEF idemVars, o, k, Open, KeyOpen, Holding
  <2>. QED
    BY <1>1, <1>4, <1>5, <1>18, <2>1 DEF idemVars
<1>. QED
  BY <1>10, <1>11, <1>12, <1>13, <1>14, <1>16, <1>17, <1>18 DEF KeyNext, ServeAttempt

\* What a step does to the attempts, as the other two parts need it.
LEMMA GenuineStep ==
  ASSUME KeyTypeOK, ResponseIsGenuine, SuccessIsGenuine, [KeyNext]_idemVars
  PROVE  ResponseIsGenuine' /\ SuccessIsGenuine'
<1>. USE DEF KeyTypeOK
<1>1. UNCHANGED body
  BY DEF KeyNext, idemVars, Send, ServeAttempt, Read, ReserveKey, Reread, Execute, StoreReply,
         Drop, HandlerDies, ReservationExpires
<1>2. effects \subseteq effects'
  BY DEF KeyNext, idemVars, Send, ServeAttempt, Read, ReserveKey, Reread, Execute, StoreReply,
         Drop, HandlerDies, ReservationExpires
\* What an attempt shows by itself.
<1>. DEFINE Good(r, b) ==
       /\ r.pc = "store" => b \in effects'
       /\ r.reply \in {"ok", "replay"} => r.from \in effects' /\ BodyOf(r.from) = BodyOf(b)
<1>3. \A b \in Attempts : Good(attempt[b], b)
  <2>1. ASSUME NEW b \in Attempts, attempt[b].reply \in {"ok", "replay"}
        PROVE  attempt[b].from \in effects' /\ BodyOf(attempt[b].from) = BodyOf(b)
    <3>1. attempt[b].from \in effects /\ attempt[b].from \in Attempts
          /\ BodyOf(attempt[b].from) = BodyOf(b)
      BY <2>1 DEF SuccessIsGenuine
    <3>. QED
      BY <1>1, <1>2, <3>1
  <2>. QED
    BY <1>2, <2>1 DEF ResponseIsGenuine
<1>4. ASSUME \A b \in Attempts : Good(attempt'[b], b)
      PROVE  SuccessIsGenuine' /\ \A b \in Attempts : (attempt'[b].pc = "store" => b \in effects')
  BY <1>1, <1>4 DEF SuccessIsGenuine, BodyOf
<1>. HIDE DEF Good
<1>5. ASSUME UNCHANGED key
      PROVE  (key.kind = "response" => key.by \in effects /\ key.body = BodyOf(key.by))'
  <2>1. key.kind = "response" => key.by \in Attempts
    BY KeyKinds
  <2>. QED
    BY <1>1, <1>2, <1>5, <2>1 DEF ResponseIsGenuine, BodyOf
<1>6. ASSUME NEW a \in Attempts, NEW f, attempt' = [attempt EXCEPT ![a] = f], Good(f, a)
      PROVE  \A b \in Attempts : Good(attempt'[b], b)
  BY <1>3, <1>6
\* A move that shows nothing new.
<1>7. ASSUME NEW a \in Attempts, NEW to, to # "store", attempt' = [attempt EXCEPT ![a].pc = to]
      PROVE  \A b \in Attempts : Good(attempt'[b], b)
  <2>. DEFINE f == [attempt[a] EXCEPT !.pc = to]
  <2>1. attempt' = [attempt EXCEPT ![a] = f]
    BY <1>7
  <2>2. f.pc = to /\ f.reply = attempt[a].reply /\ f.from = attempt[a].from
    OBVIOUS
  <2>3. Good(f, a)
    BY <1>3, <1>7, <2>2 DEF Good
  <2>. HIDE DEF f
  <2>. QED
    BY <1>6, <2>1, <2>3
<1>8. ASSUME NEW c \in Callers, NEW n \in 1..MaxAttempts, Send(c, n)
      PROVE  ResponseIsGenuine' /\ SuccessIsGenuine'
  <2>1. <<c, n>> \in Attempts
    BY DEF Attempts
  <2>2. attempt' = [attempt EXCEPT ![<<c, n>>].pc = "read"]
    BY <1>8 DEF Send, AttemptGoes
  <2>. QED
    BY <1>4, <1>5, <1>7, <1>8, <2>1, <2>2 DEF Send, ResponseIsGenuine, Good
\* What is replayed.
<1>9. ASSUME NEW a \in Attempts, key # Free, Answered(a)
      PROVE  \A b \in Attempts : Good(attempt'[b], b)
  <2>. DEFINE f == [pc |-> "end", reply |-> ReplyTo(a), from |-> key.by]
  <2>1. Good(f, a)
    <3>1. CASE key.kind = "response" /\ key.body = BodyOf(a)
      <4>1. key.by \in effects /\ BodyOf(key.by) = BodyOf(a) /\ key.by \in Attempts
        BY <3>1 DEF ResponseIsGenuine
      <4>. QED
        BY <1>1, <1>2, <4>1 DEF Good
    <3>2. CASE ~(key.kind = "response" /\ key.body = BodyOf(a))
      <4>1. ReplyTo(a) \in {"in_flight", "one_time", "conflict"}
        BY <1>9, <3>2, KeyKinds DEF ReplyTo
      <4>. QED
        BY <4>1 DEF Good
    <3>. QED
      BY <3>1, <3>2
  <2>. QED
    BY <1>6, <1>9, <2>1 DEF Answered
<1>10. ASSUME NEW a \in Attempts, Read(a) \/ Reread(a)
       PROVE  ResponseIsGenuine' /\ SuccessIsGenuine'
  <2>1. \A b \in Attempts : Good(attempt'[b], b)
    BY <1>7, <1>9, <1>10 DEF Read, Reread, AttemptGoes
  <2>. QED
    BY <1>4, <1>5, <1>10, <2>1 DEF Read, Reread, ResponseIsGenuine
<1>11. ASSUME NEW a \in Attempts, ReserveKey(a) \/ Drop(a) \/ HandlerDies(a)
       PROVE  ResponseIsGenuine' /\ SuccessIsGenuine'
  <2>1. \A b \in Attempts : Good(attempt'[b], b)
    BY <1>7, <1>11 DEF ReserveKey, Drop, HandlerDies, AttemptGoes
  <2>2. UNCHANGED key \/ key'.kind \in {"free", "in_flight"}
    BY <1>11 DEF ReserveKey, Drop, HandlerDies, Free
  <2>. QED
    BY <1>4, <1>5, <2>1, <2>2 DEF ResponseIsGenuine
<1>12. ASSUME NEW a \in Attempts, Execute(a) PROVE ResponseIsGenuine' /\ SuccessIsGenuine'
  <2>1. \A b \in Attempts : Good(attempt'[b], b)
    <3>1. ASSUME NEW to, effects' = effects \cup {a},
                 attempt' = [attempt EXCEPT ![a].reply = "ok", ![a].from = a, ![a].pc = to]
          PROVE  \A b \in Attempts : Good(attempt'[b], b)
      <4>. DEFINE f == [attempt[a] EXCEPT !.reply = "ok", !.from = a, !.pc = to]
      <4>1. attempt' = [attempt EXCEPT ![a] = f]
        BY <3>1
      <4>2. f.reply = "ok" /\ f.from = a
        OBVIOUS
      <4>3. Good(f, a)
        BY <1>1, <3>1, <4>2 DEF Good
      <4>. HIDE DEF f
      <4>. QED
        BY <1>6, <4>1, <4>3
    <3>2. ASSUME attempt' = [attempt EXCEPT ![a].reply = "error", ![a].pc = "drop"]
          PROVE  \A b \in Attempts : Good(attempt'[b], b)
      <4>. DEFINE f == [attempt[a] EXCEPT !.reply = "error", !.pc = "drop"]
      <4>1. attempt' = [attempt EXCEPT ![a] = f]
        BY <3>2
      <4>2. f.reply = "error" /\ f.pc = "drop"
        OBVIOUS
      <4>3. Good(f, a)
        BY <4>2 DEF Good
      <4>. HIDE DEF f
      <4>. QED
        BY <1>6, <4>1, <4>3
    <3>. QED
      BY <1>12, <3>1, <3>2 DEF Execute
  <2>. QED
    BY <1>4, <1>5, <1>12, <2>1 DEF Execute, ResponseIsGenuine
<1>13. ASSUME NEW a \in Attempts, StoreReply(a) PROVE ResponseIsGenuine' /\ SuccessIsGenuine'
  <2>1. \A b \in Attempts : Good(attempt'[b], b)
    BY <1>7, <1>13 DEF StoreReply, AttemptGoes
  <2>2. a \in effects
    BY <1>13 DEF StoreReply, ResponseIsGenuine
  <2>3. key'.by = a /\ key'.body = BodyOf(a)
    BY <1>13 DEF StoreReply
  <2>. QED
    BY <1>1, <1>2, <1>4, <2>1, <2>2, <2>3 DEF ResponseIsGenuine, BodyOf
<1>14. CASE ReservationExpires \/ UNCHANGED idemVars
  <2>1. UNCHANGED attempt /\ (UNCHANGED key \/ key'.kind = "free")
    BY <1>14 DEF ReservationExpires, idemVars, Free
  <2>. QED
    BY <1>3, <1>4, <1>5, <2>1 DEF ResponseIsGenuine
<1>. QED
  BY <1>8, <1>10, <1>11, <1>12, <1>13, <1>14 DEF KeyNext, ServeAttempt

\* Who holds the key while nothing has lapsed or slipped.
LEMMA OwnerStep ==
  ASSUME KeyTypeOK, OwnerOnly, [KeyNext]_idemVars
  PROVE  /\ OwnerOnly'
         /\ key.kind \in {"response", "one_time"} /\ key' # key =>
              causes["lapse"] + causes["slip"] > 0
<1>. DEFINE n == causes["lapse"] + causes["slip"]
<1>1. n \in Nat
  BY DEF KeyTypeOK, Faults
<1>2. ASSUME NEW f \in Faults, CountCause(f)
      PROVE  n' = n + (IF f \in {"lapse", "slip"} THEN 1 ELSE 0)
  <2>1. causes'["lapse"] = causes["lapse"] + (IF f = "lapse" THEN 1 ELSE 0)
    BY <1>2 DEF KeyTypeOK, CountCause, Faults
  <2>2. causes'["slip"] = causes["slip"] + (IF f = "slip" THEN 1 ELSE 0)
    BY <1>2 DEF KeyTypeOK, CountCause, Faults
  <2>3. {causes["lapse"], causes["slip"]} \subseteq Nat
    BY DEF KeyTypeOK, Faults
  <2>4. CASE f = "lapse"
    BY <2>1, <2>2, <2>3, <2>4
  <2>5. CASE f = "slip"
    BY <2>1, <2>2, <2>3, <2>5
  <2>6. CASE f \notin {"lapse", "slip"}
    BY <2>1, <2>2, <2>3, <2>6
  <2>. QED
    BY <2>4, <2>5, <2>6
<1>3. UNCHANGED causes => n' = n
  OBVIOUS
<1>. HIDE DEF n
<1>22. n # 0 => n' # 0
  <2>1. UNCHANGED causes \/ \E f \in Faults : CountCause(f)
    BY DEF KeyNext, ServeAttempt, idemVars, Send, Read, Reread, ReserveKey, Execute, StoreReply,
           Drop, HandlerDies, ReservationExpires, Faults
  <2>. QED
    BY <1>1, <1>2, <1>3, <2>1
<1>4. n = 0 => \A a \in Attempts : Holding(a) => key.kind = "in_flight" /\ key.by = a
  BY DEF OwnerOnly, n
<1>5. n' # 0 => OwnerOnly'
  BY DEF OwnerOnly, n
<1>6. key.kind \in {"response", "one_time"} /\ n = 0 => \A a \in Attempts : ~Holding(a)
  BY <1>4
<1>7. SUFFICES ASSUME n = 0
               PROVE  /\ n' # 0 \/ \A a \in Attempts : Holding(a)' => key'.kind = "in_flight" /\ key'.by = a
                      /\ key.kind \notin {"response", "one_time"} \/ key' = key
  <2>1. CASE n # 0
    BY <1>1, <1>5, <1>22, <2>1 DEF n
  <2>2. CASE n = 0
    <3>1. key.kind \notin {"response", "one_time"} \/ key' = key
      BY <1>7, <2>2
    <3>2. n' # 0 \/ \A a \in Attempts : Holding(a)' => key'.kind = "in_flight" /\ key'.by = a
      BY <1>7, <2>2
    <3>3. OwnerOnly'
      BY <1>5, <3>2 DEF OwnerOnly, n
    <3>. QED
      BY <3>1, <3>3
  <2>. QED
    BY <2>1, <2>2
<1>8. \A a \in Attempts : Holding(a) => key.kind = "in_flight" /\ key.by = a
  BY <1>4, <1>7
<1>9. ASSUME NEW a \in Attempts, NEW f, attempt' = [attempt EXCEPT ![a] = f], f.pc \notin {"run", "store", "drop"}
      PROVE  \A b \in Attempts : Holding(b)' => b # a /\ Holding(b)
  BY <1>9 DEF Holding, KeyTypeOK
\* Steps that take no attempt among those who hold the key.
<1>10. ASSUME \A b \in Attempts : Holding(b)' => Holding(b), UNCHANGED key
       PROVE  \A b \in Attempts : Holding(b)' => key'.kind = "in_flight" /\ key'.by = b
  BY <1>8, <1>10
<1>11. ASSUME NEW a \in Attempts, NEW to, to \notin {"run", "store", "drop"},
              attempt' = [attempt EXCEPT ![a].pc = to]
       PROVE  \A b \in Attempts : Holding(b)' => b # a /\ Holding(b)
  BY <1>11 DEF Holding, KeyTypeOK
<1>. DEFINE Kept == \A b \in Attempts : Holding(b)' => key'.kind = "in_flight" /\ key'.by = b
            Goal == (n' # 0 \/ Kept) /\ (key.kind \notin {"response", "one_time"} \/ key' = key)
<1>12. ASSUME NEW c \in Callers, NEW m \in 1..MaxAttempts, Send(c, m) PROVE Goal
  <2>1. <<c, m>> \in Attempts
    BY DEF Attempts
  <2>2. attempt' = [attempt EXCEPT ![<<c, m>>].pc = "read"]
    BY <1>12 DEF Send, AttemptGoes
  <2>3. \A b \in Attempts : Holding(b)' => Holding(b)
    <3>1. "read" \notin {"run", "store", "drop"}
      OBVIOUS
    <3>. QED
      BY <1>11, <2>1, <2>2, <3>1
  <2>4. UNCHANGED key
    BY <1>12 DEF Send
  <2>. QED
    BY <1>10, <2>3, <2>4
<1>13. ASSUME NEW a \in Attempts, UNCHANGED key,
              Answered(a) \/ AttemptGoes(a, "reserve") \/ AttemptGoes(a, "reread") \/ AttemptGoes(a, "end")
       PROVE  Goal
  <2>1. \A b \in Attempts : Holding(b)' => Holding(b)
    <3>1. CASE Answered(a)
      <4>. DEFINE f == [pc |-> "end", reply |-> ReplyTo(a), from |-> key.by]
      <4>1. attempt' = [attempt EXCEPT ![a] = f] /\ f.pc = "end"
        BY <3>1 DEF Answered
      <4>. HIDE DEF f
      <4>. QED
        BY <1>9, <4>1
    <3>. QED
      BY <1>11, <1>13, <3>1 DEF AttemptGoes
  <2>. QED
    BY <1>10, <1>13, <2>1
<1>14. ASSUME NEW a \in Attempts, Read(a) PROVE Goal
  BY <1>13, <1>14 DEF Read
<1>15. ASSUME NEW a \in Attempts, Reread(a) PROVE Goal
  <2>1. CASE key = Free
    <3>1. CountCause("slip") /\ UNCHANGED key
      BY <1>15, <2>1 DEF Reread
    <3>2. n' = 1
      BY <1>2, <1>7, <3>1 DEF Faults
    <3>. QED
      BY <3>1, <3>2
  <2>2. CASE key # Free
    BY <1>13, <1>15, <2>2 DEF Reread
  <2>. QED
    BY <2>1, <2>2
<1>16. ASSUME NEW a \in Attempts, ReserveKey(a) PROVE Goal
  <2>1. CASE key = Free
    <3>1. \A b \in Attempts : ~Holding(b)
      BY <1>8, <2>1, KeyKinds
    <3>2. attempt' = [attempt EXCEPT ![a].pc = "run"]
          /\ key' = [kind |-> "in_flight", body |-> BodyOf(a), by |-> a]
      BY <1>16, <2>1 DEF ReserveKey, AttemptGoes
    <3>3. \A b \in Attempts : Holding(b)' => b = a
      BY <3>1, <3>2 DEF Holding, KeyTypeOK
    <3>4. key'.kind = "in_flight" /\ key'.by = a
      BY <3>2
    <3>. QED
      BY <2>1, <3>3, <3>4, KeyKinds
  <2>2. CASE key # Free
    BY <1>13, <1>16, <2>2 DEF ReserveKey
  <2>. QED
    BY <2>1, <2>2
<1>17. ASSUME NEW a \in Attempts, Execute(a) PROVE Goal
  <2>1. \A b \in Attempts : Holding(b)' => Holding(b)
    BY <1>17 DEF Execute, Holding, KeyTypeOK
  <2>. QED
    BY <1>10, <1>17, <2>1 DEF Execute
<1>18. ASSUME NEW a \in Attempts, StoreReply(a) \/ Drop(a) PROVE Goal
  <2>1. Holding(a) /\ attempt' = [attempt EXCEPT ![a].pc = "end"]
    BY <1>18 DEF StoreReply, Drop, Holding, AttemptGoes
  <2>2. key.kind = "in_flight" /\ key.by = a
    BY <1>8, <2>1
  <2>3. \A b \in Attempts : Holding(b)' => b # a /\ Holding(b)
    <3>1. "end" \notin {"run", "store", "drop"}
      OBVIOUS
    <3>. QED
      BY <1>11, <2>1, <3>1
  <2>4. \A b \in Attempts : ~Holding(b)'
    BY <1>8, <2>2, <2>3
  <2>. QED
    BY <2>2, <2>4
<1>19. ASSUME NEW a \in Attempts, HandlerDies(a) PROVE Goal
  BY <1>13, <1>19 DEF HandlerDies
<1>20. CASE ReservationExpires
  <2>1. key.kind = "in_flight" /\ UNCHANGED attempt
    BY <1>20 DEF ReservationExpires
  <2>2. CASE Holding(key.by)
    <3>1. n' = 1
      BY <1>2, <1>7, <1>20, <2>2 DEF ReservationExpires, Faults
    <3>. QED
      BY <2>1, <3>1
  <2>3. CASE ~Holding(key.by)
    <3>1. \A b \in Attempts : ~Holding(b)
      BY <1>8, <2>3
    <3>2. \A b \in Attempts : ~Holding(b)'
      BY <2>1, <3>1 DEF Holding
    <3>. QED
      BY <2>1, <3>2
  <2>. QED
    BY <2>2, <2>3
<1>21. CASE UNCHANGED idemVars
  BY <1>10, <1>21 DEF idemVars, Holding
<1>. QED
  BY <1>12, <1>14, <1>15, <1>16, <1>17, <1>18, <1>19, <1>20, <1>21 DEF KeyNext, ServeAttempt

LEMMA KeyInvInit ==
  ASSUME KeyInit
  PROVE  KeyInv
<1>1. KeyTypeOK
  BY DEF KeyInit, KeyTypeOK, Free, Replies, Faults
<1>2. ChancesCounted
  <2>1. Open = {} /\ effects = {}
    BY DEF KeyInit, Open
  <2>2. Cardinality(Open) = 0 /\ Cardinality(effects) = 0
    BY <2>1, FS_EmptySet
  <2>3. Sum = 0
    BY DEF KeyInit, Sum, Faults
  <2>. QED
    BY <2>2, <2>3 DEF ChancesCounted, Chances
<1>3. ResponseIsGenuine /\ SuccessIsGenuine
  BY DEF KeyInit, ResponseIsGenuine, SuccessIsGenuine, Free
<1>4. OwnerOnly
  BY DEF KeyInit, OwnerOnly, Holding
<1>. QED
  BY <1>1, <1>2, <1>3, <1>4 DEF KeyInv

(* The effects of a key are counted by their causes, a success stands for an  *)
(* effect, and a stored response stands.                                      *)
THEOREM KeysAreHeld == KeySpec => KeysHold
<1>1. KeyInv /\ [KeyNext]_idemVars => KeyInv'
  BY KeyTypeStep, ChancesStep, GenuineStep, OwnerStep DEF KeyInv
<1>2. KeyInv => OncePerKey /\ SuccessIsGenuine
  <2>1. ASSUME KeyInv PROVE OncePerKey
    <3>1. IsFiniteSet(Open) /\ IsFiniteSet(effects)
      BY <2>1, IdemConstants, FS_Subset DEF KeyInv, Open, KeyTypeOK
    <3>2. /\ Cardinality(Open) \in Nat /\ Cardinality(effects) \in Nat /\ Sum \in Nat
      BY <2>1, <3>1, FS_CardinalityType, SumStep DEF KeyInv
    <3>. QED
      BY <2>1, <3>2 DEF KeyInv, ChancesCounted, Chances, OncePerKey
  <2>. QED
    BY <2>1 DEF KeyInv
<1>3. KeyInv /\ [KeyNext]_idemVars =>
        [key.kind \in {"response", "one_time"} /\ key' # key =>
           causes["lapse"] + causes["slip"] > 0]_idemVars
  BY OwnerStep DEF KeyInv
<1>4. KeySpec => []KeyInv
  BY <1>1, KeyInvInit, PTL DEF KeySpec
<1>. QED
  BY <1>2, <1>3, <1>4, PTL DEF KeySpec, KeysHold, StoredStands

------------------------------------------------------------------------------
(* Chat, for any requests and bounds.                                        *)

ClientIds == {c.id : c \in client}

\* What is so of a turn, wherever it is.
TurnHolds(q) ==
  /\ q \in TurnRecords
  /\ q.key <= keysMade
  /\ q.pc \notin {"idle", "error"} \/ q.told => q.key >= 1
  /\ q.pc = "closed" => q.paused
  /\ q.kind = "stream" /\ q.pc = "done" /\ q.sent < MaxDeltas => q.paused
  /\ q.dropped => q.pc = "error" /\ q.key \in bad
  /\ q.pc \in {"clear", "write"} => q.key \in bad
  /\ q.told /\ savedKey = q.key => q.pc \in {"clear", "write"} \/ q.kind = "questions"
  /\ q.pc \in {"search", "sources"} /\ q.stayed => there
  /\ q.pc = "sample" => q.kind = "questions"
  /\ q.pc \in {"connect", "ask", "answer"} /\ q.kind # "questions" /\ q.stayed => (q.found <=> ~q.exact)
  /\ q.pc \in {"sample", "search", "sources", "connect"} => ~q.cut
  /\ q.pc \in {"ask", "answer"} => q.client <= clients /\ (q.cut <=> q.client \notin ClientIds)

TurnsHold == \A r \in Turns : TurnHolds(turn[r])

ClientsHold ==
  /\ \A c, d \in client : c.key = d.key \/ c.id = d.id => c = d
  /\ \A c \in client : c.id <= clients
  /\ Cardinality(client) <= MaxClients

ClearsHold ==
  /\ savedKey = 0 => 1..keysMade \cap bad # {}
  /\ keysMade \in wronged =>
       \E r \in Turns : turn[r].dropped /\ turn[r].key \in bad /\ turn[r].key < keysMade

ChatInv == ChatTypeOK /\ TurnsHold /\ ClientsHold /\ ClearsHold

\* A step of one turn.
LEMMA OneTurn ==
  ASSUME ChatInv, NEW r \in Turns, NEW q, TurnHolds(q), turn' = [turn EXCEPT ![r] = q],
         turn[r].dropped => q.dropped /\ q.key = turn[r].key,
         UNCHANGED <<savedKey, keysMade, bad, client, clients, there, wronged>>, chatFaults' \in Nat
  PROVE  ChatInv'
<1>1. turn \in [Turns -> TurnRecords] /\ q \in TurnRecords
  BY DEF ChatInv, ChatTypeOK, TurnHolds
<1>2. turn'[r] = q /\ \A o \in Turns \ {r} : turn'[o] = turn[o]
  BY <1>1
<1>3. ChatTypeOK'
  BY <1>1 DEF ChatInv, ChatTypeOK
<1>4. \A o \in Turns : TurnHolds(turn'[o])
  BY <1>2 DEF ChatInv, TurnsHold
<1>5. TurnsHold'
  BY <1>4 DEF TurnsHold, TurnHolds, ClientIds
<1>6. ClientsHold'
  BY DEF ChatInv, ClientsHold
<1>7. ClearsHold'
  BY <1>2 DEF ChatInv, ClearsHold
<1>. QED
  BY <1>3, <1>5, <1>6, <1>7 DEF ChatInv

\* Turns that only go on, or end.
LEMMA SimpleTurns ==
  ASSUME ChatInv, NEW r \in Turns, Sample(r) \/ Finish(r) \/ TurnFails(r) \/ Disconnect(r)
  PROVE  ChatInv'
<1>. DEFINE t == turn[r]
<1>1. TurnHolds(t) /\ t \in TurnRecords /\ savedKey \in Nat /\ MaxDeltas \in Nat /\ chatFaults \in Nat
  BY ChatAssumption DEF ChatAssumption, ChatInv, ChatTypeOK, TurnsHold
<1>2. PICK to \in Places :
        /\ turn' = [turn EXCEPT ![r] = [t EXCEPT !.pc = to]]
        /\ \/ t.pc = "sample" /\ to \in {"connect", "error"}
           \/ /\ to = "done"
              /\ \/ t.pc = "closed"
                 \/ t.pc = "answer" /\ t.said = MaxDeltas /\ (t.kind = "stream" => t.sent = t.said)
           \/ t.pc \in {"ask", "answer"} /\ to = "error"
           \/ t.pc \in {"search", "sources", "answer", "closed"} /\ to = "gone"
  BY <1>1 DEF Sample, Finish, TurnFails, Disconnect, Step, Places, Ends
<1>3. /\ UNCHANGED <<savedKey, keysMade, bad, client, clients, there, wronged>> /\ chatFaults' \in Nat
  BY <1>1 DEF Sample, Finish, TurnFails, Disconnect, Cached
<1>. DEFINE q == [t EXCEPT !.pc = to]
<1>4. /\ q \in TurnRecords /\ q.pc = to
      /\ q.kind = t.kind /\ q.key = t.key /\ q.found = t.found /\ q.exact = t.exact
      /\ q.stayed = t.stayed /\ q.client = t.client /\ q.cut = t.cut /\ q.said = t.said
      /\ q.sent = t.sent /\ q.paused = t.paused /\ q.told = t.told /\ q.dropped = t.dropped
  BY <1>1 DEF TurnRecords
<1>. HIDE DEF q, t
<1>5. TurnHolds(q)
  BY <1>1, <1>2, <1>4 DEF TurnHolds, TurnRecords
<1>6. turn' = [turn EXCEPT ![r] = q] /\ (turn[r].dropped => q.dropped /\ q.key = turn[r].key)
  BY <1>2, <1>4 DEF q, t
<1>. QED
  BY <1>3, <1>5, <1>6, OneTurn

LEMMA BeginningTurns ==
  ASSUME ChatInv, NEW r \in Turns, NEW kind \in TurnKinds, BeginTurn(r, kind)
  PROVE  ChatInv'
<1>. DEFINE none == [Blank EXCEPT !.pc = "error", !.kind = kind]
            some == [Blank EXCEPT !.pc = IF kind = "questions" THEN "sample" ELSE "search",
                                  !.kind = kind, !.key = savedKey, !.stayed = there]
            q == IF savedKey = 0 THEN none ELSE some
<1>1. /\ TurnHolds(turn[r]) /\ savedKey \in Nat /\ savedKey <= keysMade /\ keysMade \in Nat
      /\ there \in BOOLEAN /\ chatFaults \in Nat /\ MaxDeltas \in Nat
  BY ChatAssumption DEF ChatAssumption, ChatInv, ChatTypeOK, TurnsHold
<1>2. /\ turn[r].pc = "idle" /\ turn' = [turn EXCEPT ![r] = q]
      /\ UNCHANGED <<savedKey, keysMade, bad, client, clients, there, wronged, chatFaults>>
  BY DEF BeginTurn, Cached
<1>3. /\ Blank \in TurnRecords /\ Blank.key = 0 /\ ~Blank.cut /\ ~Blank.told /\ ~Blank.dropped
      /\ Blank.stayed
  BY DEF Blank, TurnRecords, Places, TurnKinds
<1>4. /\ none \in TurnRecords /\ none.pc = "error" /\ none.key = 0 /\ ~none.told /\ ~none.dropped
      /\ some \in TurnRecords /\ some.pc = (IF kind = "questions" THEN "sample" ELSE "search")
      /\ some.kind = kind /\ some.key = savedKey /\ some.stayed = there /\ ~some.cut /\ ~some.told
      /\ ~some.dropped
  BY <1>1, <1>3 DEF TurnRecords, Places, Ends
<1>5. TurnHolds(q)
  <2>1. CASE savedKey = 0
    <3>1. q = none
      BY <2>1
    <3>. HIDE DEF q, none
    <3>. QED
      BY <1>1, <1>4, <3>1 DEF TurnHolds
  <2>2. CASE savedKey # 0
    <3>1. q = some
      BY <2>2
    <3>. HIDE DEF q, some
    <3>. QED
      BY <1>1, <1>4, <2>2, <3>1 DEF TurnHolds
  <2>. QED
    BY <2>1, <2>2
<1>. HIDE DEF q, none, some
<1>6. ~turn[r].dropped
  BY <1>1, <1>2 DEF TurnHolds
<1>. QED
  BY <1>1, <1>2, <1>5, <1>6, OneTurn

LEMMA SourceTurns ==
  ASSUME ChatInv, NEW r \in Turns, Retrieve(r) \/ FindSources(r)
  PROVE  ChatInv'
<1>. DEFINE t == turn[r]
<1>1. TurnHolds(t) /\ t \in TurnRecords /\ there \in BOOLEAN /\ chatFaults \in Nat
  BY DEF ChatInv, ChatTypeOK, TurnsHold
<1>2. /\ UNCHANGED <<savedKey, keysMade, bad, client, clients, there, wronged>> /\ chatFaults' \in Nat
  BY <1>1 DEF Retrieve, FindSources, Cached
<1>3. CASE Retrieve(r)
  <2>1. PICK hit \in {FALSE, there} :
          t.pc = "search" /\ turn' = [turn EXCEPT ![r] = [t EXCEPT !.pc = "sources", !.found = hit]]
    BY <1>1, <1>3 DEF Retrieve, ChatInv, ChatTypeOK
  <2>. DEFINE q == [t EXCEPT !.pc = "sources", !.found = hit]
  <2>2. /\ q \in TurnRecords /\ q.pc = "sources" /\ q.kind = t.kind /\ q.key = t.key
        /\ q.stayed = t.stayed /\ q.told = t.told /\ q.dropped = t.dropped /\ q.cut = t.cut
    BY <1>1, <2>1 DEF TurnRecords, Places
  <2>. HIDE DEF q, t
  <2>3. TurnHolds(q)
    BY <1>1, <2>1, <2>2 DEF TurnHolds
  <2>4. turn' = [turn EXCEPT ![r] = q] /\ (turn[r].dropped => q.dropped /\ q.key = turn[r].key)
    BY <2>1, <2>2 DEF q, t
  <2>. QED
    BY <1>2, <2>3, <2>4, OneTurn
<1>4. CASE FindSources(r)
  <2>. DEFINE x == there /\ ~t.found
              q == [t EXCEPT !.pc = "connect", !.exact = x]
  <2>1. t.pc = "sources" /\ turn' = [turn EXCEPT ![r] = q] /\ x \in BOOLEAN
    BY <1>1, <1>4 DEF FindSources, ChatInv, ChatTypeOK
  <2>5. t.stayed /\ there => (t.found <=> ~x)
    BY <1>1 DEF TurnRecords
  <2>. HIDE DEF x
  <2>2. /\ q \in TurnRecords /\ q.pc = "connect" /\ q.kind = t.kind /\ q.key = t.key /\ q.exact = x
        /\ q.stayed = t.stayed /\ q.told = t.told /\ q.dropped = t.dropped /\ q.cut = t.cut
        /\ q.found = t.found
    BY <1>1, <2>1 DEF TurnRecords, Places
  <2>. HIDE DEF q, t
  <2>3. TurnHolds(q)
    BY <1>1, <2>1, <2>2, <2>5 DEF TurnHolds
  <2>4. turn[r].dropped => q.dropped /\ q.key = turn[r].key
    BY <2>2 DEF t
  <2>. QED
    BY <1>2, <2>1, <2>3, <2>4, OneTurn
<1>. QED
  BY <1>3, <1>4

LEMMA AnsweringTurns ==
  ASSUME ChatInv, NEW r \in Turns, Say(r) \/ Pass(r) \/ Heartbeat(r)
  PROVE  ChatInv'
<1>. DEFINE t == turn[r]
<1>1. /\ TurnHolds(t) /\ t \in TurnRecords /\ chatFaults \in Nat /\ MaxDeltas \in Nat
      /\ turn \in [Turns -> TurnRecords]
  BY ChatAssumption DEF ChatAssumption, ChatInv, ChatTypeOK, TurnsHold
<1>2. /\ UNCHANGED <<savedKey, keysMade, bad, client, clients, there, wronged>> /\ chatFaults' \in Nat
  BY <1>1 DEF Say, Pass, Heartbeat, ChatFault, Cached
<1>3. t.said + 1 \in Nat /\ t.sent + 1 \in Nat
  BY <1>1 DEF TurnRecords
<1>4. ASSUME NEW q, t.pc = "answer", turn' = [turn EXCEPT ![r] = q],
             /\ q \in TurnRecords /\ q.kind = t.kind /\ q.key = t.key /\ q.found = t.found
             /\ q.exact = t.exact /\ q.stayed = t.stayed /\ q.client = t.client /\ q.cut = t.cut
             /\ q.told = t.told /\ q.dropped = t.dropped
             /\ q.pc = "answer" \/ (q.pc = "closed" /\ q.paused)
      PROVE  ChatInv'
  <2>. HIDE DEF t
  <2>1. TurnHolds(q)
    BY <1>1, <1>4 DEF TurnHolds
  <2>2. turn[r].dropped => q.dropped /\ q.key = turn[r].key
    BY <1>4 DEF t
  <2>. QED
    BY <1>2, <1>4, <2>1, <2>2, OneTurn
<1>5. CASE Say(r)
  <2>. DEFINE q == [t EXCEPT !.said = t.said + 1]
  <2>1. t.pc = "answer" /\ turn' = [turn EXCEPT ![r] = q]
    BY <1>1, <1>5 DEF Say
  <2>2. /\ q \in TurnRecords /\ q.kind = t.kind /\ q.key = t.key /\ q.found = t.found
        /\ q.exact = t.exact /\ q.stayed = t.stayed /\ q.client = t.client /\ q.cut = t.cut
        /\ q.told = t.told /\ q.dropped = t.dropped /\ q.pc = "answer"
    BY <1>1, <1>3, <2>1 DEF TurnRecords
  <2>. HIDE DEF q, t
  <2>. QED
    BY <1>4, <2>1, <2>2
<1>6. CASE Pass(r)
  <2>. DEFINE q == [t EXCEPT !.sent = t.sent + 1]
  <2>1. t.pc = "answer" /\ turn' = [turn EXCEPT ![r] = q]
    BY <1>1, <1>6 DEF Pass
  <2>2. /\ q \in TurnRecords /\ q.kind = t.kind /\ q.key = t.key /\ q.found = t.found
        /\ q.exact = t.exact /\ q.stayed = t.stayed /\ q.client = t.client /\ q.cut = t.cut
        /\ q.told = t.told /\ q.dropped = t.dropped /\ q.pc = "answer"
    BY <1>1, <1>3, <2>1 DEF TurnRecords
  <2>. HIDE DEF q, t
  <2>. QED
    BY <1>4, <2>1, <2>2
<1>7. CASE Heartbeat(r)
  <2>. DEFINE q == [t EXCEPT !.pc = "closed", !.paused = TRUE]
  <2>1. t.pc = "answer" /\ turn' = [turn EXCEPT ![r] = q]
    BY <1>1, <1>7 DEF Heartbeat
  <2>2. /\ q \in TurnRecords /\ q.kind = t.kind /\ q.key = t.key /\ q.found = t.found
        /\ q.exact = t.exact /\ q.stayed = t.stayed /\ q.client = t.client /\ q.cut = t.cut
        /\ q.told = t.told /\ q.dropped = t.dropped /\ q.pc = "closed" /\ q.paused
    BY <1>1, <2>1 DEF TurnRecords, Places
  <2>. HIDE DEF q, t
  <2>. QED
    BY <1>4, <2>1, <2>2
<1>. QED
  BY <1>5, <1>6, <1>7

\* The provider answers or refuses, and the saved key is read before it is cleared.
LEMMA AskingTurns ==
  ASSUME ChatInv, NEW r \in Turns, AskModel(r) \/ AskForQuestions(r) \/ ReadSavedKey(r)
  PROVE  ChatInv'
<1>. DEFINE t == turn[r]
<1>1. /\ TurnHolds(t) /\ t \in TurnRecords /\ chatFaults \in Nat /\ savedKey \in Nat
      /\ turn \in [Turns -> TurnRecords]
  BY DEF ChatInv, ChatTypeOK, TurnsHold
<1>2. /\ UNCHANGED <<savedKey, keysMade, bad, client, clients, there, wronged, chatFaults>>
  BY DEF AskModel, AskForQuestions, Asked, ReadSavedKey, Cached
<1>3. ASSUME NEW refused \in {"clear", "error"}, Asked(r, refused),
             refused = "error" => t.kind = "questions"
      PROVE  ChatInv'
  <2>. DEFINE to == IF t.cut THEN "error" ELSE IF t.key \in bad THEN refused ELSE "answer"
              w == ~t.cut /\ t.key \in bad
              q == [t EXCEPT !.pc = to, !.told = w]
  <2>1. t.pc = "ask" /\ turn' = [turn EXCEPT ![r] = q] /\ w \in BOOLEAN
    BY <1>1, <1>3 DEF Asked
  <2>2. /\ to \in {"clear", "error", "answer"} /\ (to = "clear" => t.key \in bad)
        /\ (to = "answer" => ~w) /\ (w => to = "clear" \/ t.kind = "questions")
    BY <1>3
  <2>. HIDE DEF to, w
  <2>3. /\ q \in TurnRecords /\ q.pc = to /\ q.kind = t.kind /\ q.key = t.key /\ q.found = t.found
        /\ q.exact = t.exact /\ q.stayed = t.stayed /\ q.client = t.client /\ q.cut = t.cut
        /\ q.told = w /\ q.dropped = t.dropped
    BY <1>1, <2>1, <2>2 DEF TurnRecords, Places, Ends
  <2>. HIDE DEF q, t
  <2>4. TurnHolds(q)
    BY <1>1, <2>1, <2>2, <2>3 DEF TurnHolds
  <2>5. turn[r].dropped => q.dropped /\ q.key = turn[r].key
    BY <2>3 DEF t
  <2>. QED
    BY <1>1, <1>2, <2>1, <2>4, <2>5, OneTurn
<1>4. CASE ReadSavedKey(r)
  <2>1. PICK q \in {[t EXCEPT !.pc = "error"], [t EXCEPT !.pc = "write", !.read = savedKey]} :
          /\ t.pc = "clear" /\ turn' = [turn EXCEPT ![r] = q]
          /\ (savedKey = 0 /\ q = [t EXCEPT !.pc = "error"]) \/ q = [t EXCEPT !.pc = "write", !.read = savedKey]
    BY <1>1, <1>4 DEF ReadSavedKey, Step
  <2>2. /\ q \in TurnRecords /\ q.kind = t.kind /\ q.key = t.key /\ q.found = t.found
        /\ q.exact = t.exact /\ q.stayed = t.stayed /\ q.client = t.client /\ q.cut = t.cut
        /\ q.told = t.told /\ q.dropped = t.dropped
        /\ q.pc = "write" \/ (q.pc = "error" /\ savedKey = 0)
    <3>1. CASE q = [t EXCEPT !.pc = "error"] /\ savedKey = 0
      BY <1>1, <3>1 DEF TurnRecords, Places, Ends
    <3>2. CASE q = [t EXCEPT !.pc = "write", !.read = savedKey]
      BY <1>1, <3>2 DEF TurnRecords, Places, Ends
    <3>. QED
      BY <2>1, <3>1, <3>2
  <2>. HIDE DEF t
  <2>3. TurnHolds(q)
    BY <1>1, <2>1, <2>2 DEF TurnHolds
  <2>4. turn[r].dropped => q.dropped /\ q.key = turn[r].key
    BY <2>2 DEF t
  <2>. QED
    BY <1>1, <1>2, <2>1, <2>3, <2>4, OneTurn
<1>. QED
  BY <1>3, <1>4 DEF AskModel, AskForQuestions

\* Of some cached clients, one is the oldest.
LEMMA OldestClient ==
  ASSUME NEW K \in SUBSET ClientRecords, K # {}
  PROVE  \E c \in K : \A d \in K : c.id <= d.id
<1>. DEFINE T == {c.id : c \in K}
<1>1. T \subseteq Nat /\ T # {}
  BY DEF ClientRecords
<1>2. \E x \in T : \A y \in T : ~ (<<y, x>> \in OpToRel(<, Nat))
  <2>. HIDE DEF T
  <2>. QED
    BY <1>1, WFMin, NatLessThanWellFounded
<1>3. PICK x \in T : \A y \in T : ~ (<<y, x>> \in OpToRel(<, Nat))
  BY <1>2
<1>4. ASSUME NEW y \in T PROVE x <= y
  <2>1. x \in Nat /\ y \in Nat
    BY <1>1
  <2>. HIDE DEF T
  <2>2. <<y, x>> \in Nat \X Nat /\ <<y, x>>[1] = y /\ <<y, x>>[2] = x
    BY <2>1
  <2>3. ~(y < x)
    BY <1>3, <2>2 DEF OpToRel
  <2>. QED
    BY <2>1, <2>3
<1>. QED
  BY <1>4

\* A new client finds room.
LEMMA RoomForClient ==
  ASSUME ChatInv, NEW kept \in SUBSET client, NEW out,
         out = IF Cardinality(kept) < MaxClients THEN {}
               ELSE {c \in kept : \A d \in kept : c.id <= d.id}
  PROVE  IsFiniteSet(kept \ out) /\ Cardinality(kept \ out) + 1 <= MaxClients
<1>1. /\ IsFiniteSet(client) /\ client \subseteq ClientRecords /\ Cardinality(client) <= MaxClients
      /\ MaxClients \in Nat \ {0}
  BY ChatAssumption DEF ChatAssumption, ChatInv, ChatTypeOK, ClientsHold
<1>2. IsFiniteSet(kept) /\ Cardinality(kept) <= Cardinality(client)
  BY <1>1, FS_Subset
<1>3. Cardinality(kept) \in Nat /\ Cardinality(client) \in Nat
  BY <1>1, <1>2, FS_CardinalityType
<1>4. CASE Cardinality(kept) < MaxClients
  <2>1. kept \ out = kept
    BY <1>4
  <2>. QED
    BY <1>1, <1>2, <1>3, <1>4, <2>1
<1>5. CASE ~(Cardinality(kept) < MaxClients)
  <2>1. kept # {}
    BY <1>1, <1>2, <1>3, <1>5, FS_EmptySet
  <2>2. PICK c \in kept : \A d \in kept : c.id <= d.id
    BY <1>1, <2>1, OldestClient
  <2>3. kept \ out \subseteq kept \ {c}
    BY <1>5, <2>2
  <2>4. IsFiniteSet(kept \ {c}) /\ Cardinality(kept \ {c}) = Cardinality(kept) - 1
    BY <1>2, FS_RemoveElement
  <2>5. IsFiniteSet(kept \ out) /\ Cardinality(kept \ out) <= Cardinality(kept) - 1
    BY <2>3, <2>4, FS_Subset
  <2>6. Cardinality(kept \ out) \in Nat
    BY <2>5, FS_CardinalityType
  <2>. QED
    BY <1>1, <1>2, <1>3, <2>5, <2>6
<1>. QED
  BY <1>4, <1>5

LEMMA ConnectToCached ==
  ASSUME ChatInv, NEW r \in Turns, turn[r].pc = "connect", NEW c \in client,
         turn' = [turn EXCEPT ![r].pc = "ask", ![r].client = c.id],
         UNCHANGED <<savedKey, keysMade, bad, client, clients, there, wronged, chatFaults>>
  PROVE  ChatInv'
<1>. DEFINE t == turn[r]
            q == [t EXCEPT !.pc = "ask", !.client = c.id]
<1>1. /\ TurnHolds(t) /\ t \in TurnRecords /\ turn \in [Turns -> TurnRecords]
      /\ c.id \in Nat /\ c.id <= clients /\ c.id \in ClientIds /\ chatFaults \in Nat
  BY DEF ChatInv, ChatTypeOK, TurnsHold, ClientsHold, ClientIds, ClientRecords
<1>2. t.pc = "connect" /\ turn' = [turn EXCEPT ![r] = q]
  BY <1>1
<1>3. /\ q \in TurnRecords /\ q.pc = "ask" /\ q.client = c.id /\ q.kind = t.kind /\ q.key = t.key
      /\ q.found = t.found /\ q.exact = t.exact /\ q.stayed = t.stayed /\ q.cut = t.cut
      /\ q.told = t.told /\ q.dropped = t.dropped
  BY <1>1 DEF TurnRecords, Places
<1>. HIDE DEF q, t
<1>4. TurnHolds(q)
  BY <1>1, <1>2, <1>3 DEF TurnHolds
<1>5. turn[r].dropped => q.dropped /\ q.key = turn[r].key
  BY <1>3 DEF t
<1>. QED
  BY <1>1, <1>2, <1>4, <1>5, OneTurn

LEMMA ConnectToNew ==
  ASSUME ChatInv, NEW r \in Turns, turn[r].pc = "connect", NEW rest \in SUBSET client,
         \A c \in rest : c.key # turn[r].key,
         IsFiniteSet(rest), Cardinality(rest) + 1 <= MaxClients,
         clients' = clients + 1,
         client' = rest \cup {[id |-> clients + 1, key |-> turn[r].key, old |-> FALSE]},
         turn' = [Cut(client \ rest) EXCEPT ![r].pc = "ask", ![r].client = clients + 1],
         UNCHANGED <<savedKey, keysMade, bad, there, wronged, chatFaults>>
  PROVE  ChatInv'
<1>. DEFINE gone == client \ rest
            new == [id |-> clients + 1, key |-> turn[r].key, old |-> FALSE]
            t == turn[r]
            mine == [t EXCEPT !.pc = "ask", !.client = clients + 1]
<1>1. /\ turn \in [Turns -> TurnRecords] /\ clients \in Nat /\ client \subseteq ClientRecords
      /\ \A o \in Turns : TurnHolds(turn[o])
      /\ \A c, d \in client : c.key = d.key \/ c.id = d.id => c = d
      /\ \A c \in client : c.id <= clients /\ c.id \in Nat
  BY DEF ChatInv, ChatTypeOK, TurnsHold, ClientsHold, ClientRecords
<1>2. /\ new \in ClientRecords /\ new.id = clients + 1 /\ new.key = t.key /\ new \notin rest
  BY <1>1 DEF ClientRecords, TurnRecords
<1>3. client' = rest \cup {new}
  OBVIOUS
<1>4. ClientIds' = {c.id : c \in rest} \cup {clients + 1}
  BY <1>2, <1>3 DEF ClientIds
<1>5. \A o \in Turns \ {r} :
        \/ /\ turn[o].pc \in {"ask", "answer"} /\ turn[o].client \in {c.id : c \in gone}
           /\ turn'[o] = [turn[o] EXCEPT !.cut = TRUE]
        \/ /\ ~(turn[o].pc \in {"ask", "answer"} /\ turn[o].client \in {c.id : c \in gone})
           /\ turn'[o] = turn[o]
  BY DEF Cut
<1>6. turn'[r] = mine
  BY DEF Cut
<1>7. DOMAIN turn' = Turns /\ turn' = [o \in Turns |-> turn'[o]]
  BY DEF Cut
<1>8. \A x : x \in ClientIds /\ x \notin {c.id : c \in gone} => x \in {c.id : c \in rest}
  BY DEF ClientIds
<1>9. \A x : x \in {c.id : c \in gone} => x \notin {c.id : c \in rest} /\ x # clients + 1
  BY <1>1
<1>10. \A x : x \in {c.id : c \in rest} => x \in ClientIds
  BY DEF ClientIds
<1>11. /\ mine \in TurnRecords /\ mine.pc = "ask" /\ mine.client = clients + 1 /\ mine.kind = t.kind
       /\ mine.key = t.key /\ mine.found = t.found /\ mine.exact = t.exact
       /\ mine.stayed = t.stayed /\ mine.cut = t.cut /\ mine.told = t.told /\ mine.dropped = t.dropped
  <2>. DEFINE n == clients + 1
  <2>1. n \in Nat /\ t \in TurnRecords /\ mine = [t EXCEPT !.pc = "ask", !.client = n]
    BY <1>1
  <2>. HIDE DEF n, t, mine
  <2>2. /\ mine \in TurnRecords /\ mine.pc = "ask" /\ mine.client = n /\ mine.kind = t.kind
        /\ mine.key = t.key /\ mine.found = t.found /\ mine.exact = t.exact
        /\ mine.stayed = t.stayed /\ mine.cut = t.cut /\ mine.told = t.told /\ mine.dropped = t.dropped
    BY <2>1 DEF TurnRecords, Places
  <2>. QED
    BY <2>2 DEF n
<1>12. ASSUME NEW o \in Turns, NEW q, q = turn'[o]
       PROVE  TurnHolds(q)' /\ q \in TurnRecords /\ q.dropped = turn[o].dropped /\ q.key = turn[o].key
  <2>1. CASE o = r
    <3>1. TurnHolds(t) /\ t.pc = "connect"
      BY <1>1
    <3>2. clients + 1 \in ClientIds'
      BY <1>4
    <3>3. q = mine
      BY <1>6, <1>12, <2>1
    <3>. HIDE DEF mine, new, gone, t
    <3>4. q.client <= clients'
      BY <1>1, <1>11, <3>3
    <3>5. /\ q \in TurnRecords /\ q.pc = "ask" /\ q.client \in ClientIds' /\ q.kind = t.kind
          /\ q.key = t.key /\ q.found = t.found /\ q.exact = t.exact
          /\ q.stayed = t.stayed /\ q.cut = t.cut /\ q.told = t.told /\ q.dropped = t.dropped
      BY <1>11, <3>2, <3>3
    <3>6. TurnHolds(q)'
      BY <3>1, <3>4, <3>5 DEF TurnHolds
    <3>. QED
      BY <2>1, <3>5, <3>6 DEF t
  <2>2. CASE o # r
    <3>. DEFINE s == turn[o]
    <3>1. TurnHolds(s) /\ s \in TurnRecords
      BY <1>1
    <3>2. s.client \in Nat
      BY <3>1 DEF TurnRecords
    <3>3. CASE /\ s.pc \in {"ask", "answer"} /\ s.client \in {c.id : c \in gone}
               /\ q = [s EXCEPT !.cut = TRUE]
      <4>2. s.client \notin ClientIds'
        BY <1>4, <1>9, <3>3
      <4>. HIDE DEF s, gone, new, mine, t
      <4>1. /\ q \in TurnRecords /\ q.pc = s.pc /\ q.cut /\ q.client = s.client /\ q.kind = s.kind
            /\ q.key = s.key /\ q.found = s.found /\ q.exact = s.exact /\ q.stayed = s.stayed
            /\ q.told = s.told /\ q.dropped = s.dropped
        BY <3>1, <3>3 DEF TurnRecords
      <4>4. s.client <= clients'
        BY <1>1, <3>1, <3>2, <3>3 DEF TurnHolds
      <4>5. TurnHolds(q)'
        BY <3>1, <3>3, <4>1, <4>2, <4>4 DEF TurnHolds
      <4>. QED
        BY <4>1, <4>5 DEF s
    <3>4. CASE /\ ~(s.pc \in {"ask", "answer"} /\ s.client \in {c.id : c \in gone})
               /\ q = s
      <4>1. s.pc \in {"ask", "answer"} =>
              s.client <= clients' /\ (s.client \notin ClientIds <=> s.client \notin ClientIds')
        <5>1. s.pc \in {"ask", "answer"} => s.client <= clients
          BY <3>1 DEF TurnHolds
        <5>2. s.pc \in {"ask", "answer"} => s.client # clients + 1 /\ s.client <= clients'
          BY <1>1, <3>2, <5>1
        <5>. QED
          BY <1>4, <1>8, <1>10, <3>4, <5>2
      <4>. HIDE DEF s, gone, new, mine, t
      <4>2. TurnHolds(q)'
        BY <3>1, <3>4, <4>1 DEF TurnHolds
      <4>. QED
        BY <3>1, <3>4, <4>2 DEF s
    <3>. QED
      BY <1>5, <1>12, <2>2, <3>3, <3>4
  <2>. QED
    BY <2>1, <2>2
<1>13. /\ IsFiniteSet(client') /\ client' \subseteq ClientRecords /\ ClientsHold'
  <2>1. IsFiniteSet(client') /\ Cardinality(client') <= MaxClients
    <3>. HIDE DEF new
    <3>1. IsFiniteSet(rest \cup {new}) /\ Cardinality(rest \cup {new}) = Cardinality(rest) + 1
      BY <1>2, FS_AddElement
    <3>. QED
      BY <1>3, <3>1
  <2>2. \A c \in client' : c.id <= clients'
    BY <1>1, <1>2, <1>3
  <2>3. \A c, d \in client' : c.key = d.key \/ c.id = d.id => c = d
    <3>1. \A c \in rest : c.key # new.key /\ c.id # new.id
      BY <1>1, <1>2
    <3>. HIDE DEF new
    <3>. QED
      BY <1>1, <1>3, <3>1
  <2>. QED
    BY <1>1, <1>2, <1>3, <2>1, <2>2, <2>3 DEF ClientsHold
<1>. HIDE DEF gone, new, mine, t
<1>14. ChatTypeOK'
  <2>1. turn' \in [Turns -> TurnRecords]
    BY <1>7, <1>12
  <2>2. clients' \in Nat
    BY <1>1
  <2>. QED
    BY <1>13, <2>1, <2>2 DEF ChatInv, ChatTypeOK
<1>15. TurnsHold'
  <2>1. \A o \in Turns : \A q : q = turn'[o] => TurnHolds(q)'
    BY <1>12
  <2>. QED
    BY <2>1 DEF TurnsHold
<1>16. ClearsHold'
  <2>1. \A o \in Turns : turn'[o].dropped = turn[o].dropped /\ turn'[o].key = turn[o].key
    BY <1>12
  <2>2. savedKey = 0 => 1..keysMade \cap bad # {}
    BY DEF ChatInv, ClearsHold
  <2>3. ASSUME keysMade \in wronged
        PROVE  \E o \in Turns : turn'[o].dropped /\ turn'[o].key \in bad /\ turn'[o].key < keysMade
    <3>1. PICK o \in Turns : turn[o].dropped /\ turn[o].key \in bad /\ turn[o].key < keysMade
      BY <2>3 DEF ChatInv, ClearsHold
    <3>. QED
      BY <2>1, <3>1
  <2>4. UNCHANGED <<savedKey, keysMade, bad, wronged>>
    OBVIOUS
  <2>. QED
    BY <2>2, <2>3, <2>4 DEF ClearsHold
<1>. QED
  BY <1>13, <1>14, <1>15, <1>16 DEF ChatInv

LEMMA ConnectingTurns ==
  ASSUME ChatInv, NEW r \in Turns, Connect(r)
  PROVE  ChatInv'
<1>. DEFINE mine == {c \in client : c.key = turn[r].key}
            fresh == {c \in mine : ~c.old}
            kept == client \ mine
            out == IF Cardinality(kept) < MaxClients THEN {}
                   ELSE {c \in kept : \A d \in kept : c.id <= d.id}
            rest == kept \ out
<1>1. turn[r].pc = "connect" /\ UNCHANGED <<savedKey, keysMade, bad, there, wronged, chatFaults>>
  BY DEF Connect
<1>2. CASE fresh # {}
  <2>1. UNCHANGED <<client, clients>> /\ \E c \in client : turn' = [turn EXCEPT ![r].pc = "ask", ![r].client = c.id]
    BY <1>2 DEF Connect, Cached
  <2>. QED
    BY <1>1, <2>1, ConnectToCached
<1>3. CASE fresh = {}
  <2>1. /\ clients' = clients + 1
        /\ client' = rest \cup {[id |-> clients + 1, key |-> turn[r].key, old |-> FALSE]}
        /\ turn' = [Cut(mine \cup out) EXCEPT ![r].pc = "ask", ![r].client = clients + 1]
    BY <1>3 DEF Connect
  <2>2. mine \cup out = client \ rest
    OBVIOUS
  <2>3. IsFiniteSet(rest) /\ Cardinality(rest) + 1 <= MaxClients
    <3>. HIDE DEF kept, mine
    <3>1. kept \in SUBSET client
      BY DEF kept
    <3>. QED
      BY <3>1, RoomForClient
  <2>4. rest \in SUBSET client /\ \A c \in rest : c.key # turn[r].key
    OBVIOUS
  <2>. HIDE DEF rest, mine, out, kept
  <2>. QED
    BY <1>1, <2>1, <2>2, <2>3, <2>4, ConnectToNew
<1>. QED
  BY <1>2, <1>3

LEMMA UserSteps ==
  ASSUME ChatInv, SaveKey \/ (\E k \in 1..MaxKeys : RejectKey(k)) \/ ClientAges
  PROVE  ChatInv'
<1>1. /\ keysMade \in Nat /\ savedKey \in 0..keysMade /\ bad \subseteq 1..keysMade
      /\ wronged \subseteq 1..keysMade /\ chatFaults \in Nat
      /\ client \subseteq ClientRecords /\ IsFiniteSet(client) /\ clients \in Nat
      /\ \A o \in Turns : turn[o] \in TurnRecords /\ turn[o].key \in Nat
      /\ \A o \in Turns : TurnHolds(turn[o])
  BY DEF ChatInv, ChatTypeOK, TurnsHold, TurnRecords
<1>2. UNCHANGED <<turn, clients, there, wronged>> /\ chatFaults' \in Nat
  BY <1>1 DEF SaveKey, RejectKey, ClientAges, ChatFault, Cached
<1>3. CASE SaveKey
  <2>1. keysMade' = keysMade + 1 /\ savedKey' = keysMade + 1 /\ UNCHANGED <<bad, client>>
    BY <1>3 DEF SaveKey, Cached
  <2>2. ChatTypeOK'
    BY <1>1, <1>2, <2>1 DEF ChatInv, ChatTypeOK
  <2>3. ASSUME NEW o \in Turns, NEW q, q = turn[o] PROVE TurnHolds(q)'
    BY <1>1, <1>2, <2>1, <2>3 DEF TurnHolds, ClientIds
  <2>4. TurnsHold'
    BY <1>2, <2>3 DEF TurnsHold
  <2>5. ClearsHold' /\ ClientsHold'
    BY <1>1, <1>2, <2>1 DEF ChatInv, ClearsHold, ClientsHold
  <2>. QED
    BY <2>2, <2>4, <2>5 DEF ChatInv
<1>4. ASSUME NEW k, RejectKey(k) PROVE ChatInv'
  <2>1. k \in 1..keysMade /\ bad' = bad \cup {k} /\ UNCHANGED <<savedKey, keysMade, client>>
    BY <1>4 DEF RejectKey, Cached
  <2>2. ChatTypeOK'
    BY <1>1, <1>2, <2>1 DEF ChatInv, ChatTypeOK
  <2>3. ASSUME NEW o \in Turns, NEW q, q = turn[o] PROVE TurnHolds(q)'
    BY <1>1, <1>2, <2>1, <2>3 DEF TurnHolds, ClientIds
  <2>4. TurnsHold'
    BY <1>2, <2>3 DEF TurnsHold
  <2>5. ClearsHold' /\ ClientsHold'
    BY <1>1, <1>2, <2>1 DEF ChatInv, ClearsHold, ClientsHold
  <2>. QED
    BY <2>2, <2>4, <2>5 DEF ChatInv
<1>5. CASE ClientAges
  <2>1. PICK c \in client : ~c.old /\ client' = (client \ {c}) \cup {[c EXCEPT !.old = TRUE]}
    BY <1>5 DEF ClientAges
  <2>. DEFINE new == [c EXCEPT !.old = TRUE]
  <2>2. new \in ClientRecords /\ new.id = c.id /\ new.key = c.key /\ new # c
    BY <1>1, <2>1 DEF ClientRecords
  <2>3. UNCHANGED <<savedKey, keysMade, bad>> /\ client' = (client \ {c}) \cup {new}
    BY <1>5, <2>1 DEF ClientAges
  <2>. HIDE DEF new
  <2>4. \A d \in client \ {c} : d.id # new.id /\ d.key # new.key
    BY <2>2 DEF ChatInv, ClientsHold
  <2>5. IsFiniteSet(client') /\ Cardinality(client') = Cardinality(client)
    <3>1. IsFiniteSet(client \ {c}) /\ Cardinality(client \ {c}) = Cardinality(client) - 1
      BY <1>1, FS_RemoveElement
    <3>2. new \notin client \ {c}
      BY <2>4
    <3>3. /\ IsFiniteSet((client \ {c}) \cup {new})
          /\ Cardinality((client \ {c}) \cup {new}) = Cardinality(client \ {c}) + 1
      BY <3>1, <3>2, FS_AddElement
    <3>4. Cardinality(client) \in Nat
      BY <1>1, FS_CardinalityType
    <3>. QED
      BY <2>3, <3>1, <3>3, <3>4
  <2>6. ClientIds' = ClientIds
    BY <2>2, <2>3 DEF ClientIds
  <2>7. ChatTypeOK'
    BY <1>1, <1>2, <2>2, <2>3, <2>5 DEF ChatInv, ChatTypeOK
  <2>8. ASSUME NEW o \in Turns, NEW q, q = turn[o] PROVE TurnHolds(q)'
    BY <1>1, <1>2, <2>3, <2>6, <2>8 DEF TurnHolds
  <2>9. TurnsHold'
    BY <1>2, <2>8 DEF TurnsHold
  <2>10. ClientsHold'
    <3>1. \A d \in client' : d.id <= clients'
      BY <1>2, <2>2, <2>3 DEF ChatInv, ClientsHold
    <3>2. \A d, e \in client' : d.key = e.key \/ d.id = e.id => d = e
      BY <2>3, <2>4 DEF ChatInv, ClientsHold
    <3>. QED
      BY <2>5, <3>1, <3>2 DEF ChatInv, ClientsHold
  <2>11. ClearsHold'
    BY <1>2, <2>3 DEF ChatInv, ClearsHold
  <2>. QED
    BY <2>7, <2>9, <2>10, <2>11 DEF ChatInv
<1>. QED
  BY <1>3, <1>4, <1>5

\* The document that is named goes, or comes back.
LEMMA DocumentStep ==
  ASSUME ChatInv, Document
  PROVE  ChatInv'
<1>1. /\ turn \in [Turns -> TurnRecords] /\ there \in BOOLEAN /\ chatFaults \in Nat
      /\ \A o \in Turns : TurnHolds(turn[o])
  BY DEF ChatInv, ChatTypeOK, TurnsHold
<1>2. /\ there' = ~there /\ chatFaults' \in Nat
      /\ UNCHANGED <<savedKey, keysMade, bad, client, clients, wronged>>
      /\ turn' = [o \in Turns |->
           IF turn[o].pc \in {"search", "sources"} THEN [turn[o] EXCEPT !.stayed = FALSE] ELSE turn[o]]
  BY <1>1 DEF Document, ChatFault, Cached
<1>3. ASSUME NEW o \in Turns, NEW q, q = turn'[o]
      PROVE  TurnHolds(q)' /\ q \in TurnRecords /\ q.dropped = turn[o].dropped /\ q.key = turn[o].key
  <2>. DEFINE t == turn[o]
  <2>1. TurnHolds(t) /\ t \in TurnRecords
    BY <1>1
  <2>2. CASE t.pc \in {"search", "sources"} /\ q = [t EXCEPT !.stayed = FALSE]
    <3>. HIDE DEF t
    <3>1. /\ q \in TurnRecords /\ q.pc = t.pc /\ ~q.stayed /\ q.client = t.client /\ q.kind = t.kind
          /\ q.key = t.key /\ q.found = t.found /\ q.exact = t.exact /\ q.cut = t.cut
          /\ q.told = t.told /\ q.dropped = t.dropped
      BY <2>1, <2>2 DEF TurnRecords
    <3>2. TurnHolds(q)'
      BY <1>2, <2>1, <2>2, <3>1 DEF TurnHolds, ClientIds
    <3>. QED
      BY <3>1, <3>2 DEF t
  <2>3. CASE t.pc \notin {"search", "sources"} /\ q = t
    <3>. HIDE DEF t
    <3>1. TurnHolds(q)'
      BY <1>2, <2>1, <2>3 DEF TurnHolds, ClientIds
    <3>. QED
      BY <2>1, <2>3, <3>1 DEF t
  <2>. QED
    BY <1>2, <1>3, <2>2, <2>3
<1>4. ChatTypeOK'
  <2>1. turn' \in [Turns -> TurnRecords]
    BY <1>2, <1>3
  <2>. QED
    BY <1>1, <1>2, <2>1 DEF ChatInv, ChatTypeOK
<1>5. TurnsHold'
  <2>1. \A o \in Turns : \A q : q = turn'[o] => TurnHolds(q)'
    BY <1>3
  <2>. QED
    BY <2>1 DEF TurnsHold
<1>6. ClientsHold'
  BY <1>2 DEF ChatInv, ClientsHold
<1>7. ClearsHold'
  <2>1. \A o \in Turns : turn'[o].dropped = turn[o].dropped /\ turn'[o].key = turn[o].key
    BY <1>3
  <2>. QED
    BY <1>2, <2>1 DEF ChatInv, ClearsHold
<1>. QED
  BY <1>4, <1>5, <1>6, <1>7 DEF ChatInv

\* The preferences are written without a key.
LEMMA ClearingTurns ==
  ASSUME ChatInv, NEW r \in Turns, WritePreferences(r)
  PROVE  ChatInv'
<1>. DEFINE t == turn[r]
            q == [t EXCEPT !.pc = "error", !.dropped = TRUE]
<1>1. /\ keysMade \in Nat /\ savedKey \in 0..keysMade /\ bad \subseteq 1..keysMade
      /\ wronged \subseteq 1..keysMade
      /\ turn \in [Turns -> TurnRecords] /\ TurnHolds(t) /\ t \in TurnRecords /\ t.key \in Nat
      /\ \A o \in Turns : TurnHolds(turn[o])
  BY DEF ChatInv, ChatTypeOK, TurnsHold, TurnRecords
<1>2. /\ t.pc = "write" /\ savedKey' = 0 /\ wronged' = wronged \cup ({savedKey} \ {0, t.key})
      /\ turn' = [turn EXCEPT ![r] = q]
      /\ UNCHANGED <<keysMade, bad, client, clients, there, chatFaults>>
  BY <1>1 DEF WritePreferences, Cached
<1>3. /\ q \in TurnRecords /\ q.pc = "error" /\ q.dropped /\ q.kind = t.kind /\ q.key = t.key
      /\ q.told = t.told
  BY <1>1 DEF TurnRecords, Places, Ends
<1>. HIDE DEF q, t
<1>4. t.key \in bad /\ t.key >= 1 /\ t.key <= keysMade
  BY <1>1, <1>2 DEF TurnHolds
<1>5. turn'[r] = q /\ \A o \in Turns \ {r} : turn'[o] = turn[o]
  BY <1>1, <1>2
<1>6. ASSUME NEW o \in Turns, NEW p, p = turn'[o] PROVE TurnHolds(p)'
  <2>1. CASE o = r
    <3>1. p = q
      BY <1>5, <1>6, <2>1
    <3>. QED
      BY <1>1, <1>2, <1>3, <1>4, <3>1 DEF TurnHolds
  <2>2. CASE o # r
    <3>1. p = turn[o] /\ TurnHolds(p)
      BY <1>1, <1>5, <1>6, <2>2
    <3>2. p.told => p.key # 0
      BY <3>1 DEF TurnHolds
    <3>. QED
      BY <1>2, <3>1, <3>2 DEF TurnHolds, ClientIds
  <2>. QED
    BY <2>1, <2>2
<1>7. TurnsHold'
  <2>1. \A o \in Turns : \A p : p = turn'[o] => TurnHolds(p)'
    BY <1>6
  <2>. QED
    BY <2>1 DEF TurnsHold
<1>8. ChatTypeOK'
  <2>1. turn' \in [Turns -> TurnRecords]
    BY <1>1, <1>2, <1>3
  <2>2. wronged' \subseteq 1..keysMade
    <3>1. savedKey # 0 => savedKey \in 1..keysMade
      BY <1>1
    <3>. QED
      BY <1>1, <1>2, <3>1
  <2>. QED
    BY <1>1, <1>2, <2>1, <2>2 DEF ChatInv, ChatTypeOK
<1>9. ClientsHold'
  BY <1>2 DEF ChatInv, ClientsHold
<1>10. ClearsHold'
  <2>1. 1..keysMade \cap bad # {}
    BY <1>1, <1>4
  <2>2. ASSUME keysMade \in wronged'
        PROVE  \E o \in Turns : turn'[o].dropped /\ turn'[o].key \in bad /\ turn'[o].key < keysMade
    <3>1. CASE keysMade \in wronged
      <4>1. PICK o \in Turns : turn[o].dropped /\ turn[o].key \in bad /\ turn[o].key < keysMade
        BY <3>1 DEF ChatInv, ClearsHold
      <4>. QED
        BY <1>3, <1>5, <4>1 DEF t
    <3>2. CASE keysMade \notin wronged
      <4>1. keysMade # t.key
        BY <1>2, <2>2, <3>2
      <4>2. t.key < keysMade
        BY <1>1, <1>4, <4>1
      <4>. QED
        BY <1>3, <1>4, <1>5, <4>2
    <3>. QED
      BY <3>1, <3>2
  <2>. QED
    BY <1>2, <2>1, <2>2 DEF ClearsHold
<1>. QED
  BY <1>7, <1>8, <1>9, <1>10 DEF ChatInv

\* A stream that ends short has paused, a cleared key has a cause, cached clients
\* are one a key and closed only when old or too many, and a document that is named
\* is a source once: in every step of every turn.
THEOREM ChatIsSound == ChatSpec => []ChatSound
<1>1. ChatInit => ChatInv
  <2>. SUFFICES ASSUME ChatInit PROVE ChatInv
    OBVIOUS
  <2>1. /\ savedKey = 1 /\ keysMade = 1 /\ bad = {} /\ wronged = {} /\ client = {} /\ clients = 0
        /\ there = TRUE /\ chatFaults = 0 /\ turn = [o \in Turns |-> Blank]
    BY DEF ChatInit
  <2>2. /\ Blank \in TurnRecords /\ Blank.pc = "idle" /\ Blank.key = 0 /\ ~Blank.told /\ ~Blank.dropped
    BY DEF Blank, TurnRecords, Places, TurnKinds
  <2>3. IsFiniteSet(client) /\ Cardinality(client) = 0
    BY <2>1, FS_EmptySet
  <2>4. ChatTypeOK
    BY <2>1, <2>2, <2>3 DEF ChatTypeOK
  <2>5. TurnsHold
    BY <2>1, <2>2 DEF TurnsHold, TurnHolds
  <2>6. ClientsHold /\ ClearsHold
    BY <2>1, <2>3, ChatAssumption DEF ChatAssumption, ClientsHold, ClearsHold
  <2>. QED
    BY <2>4, <2>5, <2>6 DEF ChatInv
<1>2. ChatInv /\ [ChatNext]_chatVars => ChatInv'
  <2>. SUFFICES ASSUME ChatInv, [ChatNext]_chatVars PROVE ChatInv'
    OBVIOUS
  <2>1. CASE UNCHANGED chatVars
    <3>1. UNCHANGED <<savedKey, keysMade, bad, turn, client, clients, there, wronged, chatFaults>>
      BY <2>1 DEF chatVars
    <3>2. ChatTypeOK' /\ ClientsHold' /\ ClearsHold'
      BY <3>1 DEF ChatInv, ChatTypeOK, ClientsHold, ClearsHold
    <3>3. TurnsHold'
      BY <3>1 DEF ChatInv, TurnsHold, TurnHolds, ClientIds
    <3>. QED
      BY <3>2, <3>3 DEF ChatInv
  <2>2. ASSUME NEW r \in Turns,
               \/ \E kind \in TurnKinds \ {"questions"} : BeginTurn(r, kind)
               \/ Suggest(r) \/ Sample(r) \/ Retrieve(r) \/ FindSources(r) \/ Connect(r)
               \/ AskModel(r) \/ AskForQuestions(r) \/ Say(r) \/ Pass(r) \/ Heartbeat(r)
               \/ Finish(r) \/ TurnFails(r) \/ Disconnect(r) \/ ReadSavedKey(r) \/ WritePreferences(r)
        PROVE  ChatInv'
    <3>1. "questions" \in TurnKinds
      BY DEF TurnKinds
    <3>. QED
      BY <2>2, <3>1, BeginningTurns, SimpleTurns, SourceTurns, ConnectingTurns, AskingTurns,
         AnsweringTurns, ClearingTurns DEF Suggest
  <2>. QED
    BY <2>1, <2>2, UserSteps, DocumentStep DEF ChatNext
<1>3. ChatInv => ChatSound
  <2>. SUFFICES ASSUME ChatInv PROVE ChatSound
    OBVIOUS
  <2>1. \A o \in Turns : TurnHolds(turn[o])
    BY DEF ChatInv, TurnsHold
  <2>2. ShortHasCause /\ NamedIsSource
    BY <2>1 DEF ShortHasCause, NamedIsSource, TurnHolds
  <2>3. ClearHasCause
    BY <2>1 DEF ChatInv, ClearsHold, ClearHasCause, TurnHolds
  <2>4. ClientsSound
    BY <2>1 DEF ChatInv, ClientsHold, ClientsSound, TurnHolds, ClientIds
  <2>. QED
    BY <2>2, <2>3, <2>4 DEF ChatSound
<1>. QED
  BY <1>1, <1>2, <1>3, PTL DEF ChatSpec

---------------------------------------------------------------------------
(* Proofs about UploadSession, for any items and any number of uploads.      *)

\* An item is canceled for a reason, linked or not.
CanceledForReason ==
  \A i \in Items : item[i].status = "canceled" =>
    uploadPast.cancels > 0 \/ i \in uploadPast.deleted \cup uploadPast.early

\* What a response is about to write as canceled it has taken for deleted; and it
\* derives a canceled session from a canceled one only.
ResponseKnows(q) ==
  q.pc = "write" => /\ q.gone \subseteq uploadPast.early
                    /\ q.next = "canceled" <=> q.sess = "canceled"

\* Unless they overlap, a request that runs in a canceled session knows that it is.
CancellationKnown(q) ==
  session = "canceled" /\ ~uploadPast.overlapped /\ q.pc \notin {"idle", "end"} =>
    q.sess = "canceled"

UploadInv ==
  /\ UploadTypeOK /\ CanceledForReason
  /\ \A r \in UploadHandlers : ResponseKnows(upReq[r]) /\ CancellationKnown(upReq[r])

LEMMA RowsTyped ==
  /\ Absent \in ItemRows /\ NoRows \in [Items -> ItemRows]
  /\ \A row \in ItemRows :
       /\ [row EXCEPT !.linked = FALSE] \in ItemRows
       /\ [row EXCEPT !.linked = FALSE].status = row.status
       /\ \A s \in {"queued", "failed", "canceled"} :
            [row EXCEPT !.status = s] \in ItemRows /\ [row EXCEPT !.status = s].status = s
BY DEF Absent, NoRows, ItemRows

LEMMA NewRequestTyped ==
  /\ NewRequest \in UploadRecords /\ NewRequest.pc = "idle"
  /\ [NewRequest EXCEPT !.pc = "end"] \in UploadRecords
  /\ [NewRequest EXCEPT !.pc = "end"].pc = "end"
BY RowsTyped DEF NewRequest, UploadRecords, SessionStatuses, FinalStatuses

LEMMA StatusDerived ==
  ASSUME NEW sess \in SessionStatuses, NEW mem
  PROVE  /\ StatusOf(sess, mem) \in SessionStatuses
         /\ StatusOf(sess, mem) = "canceled" <=> sess = "canceled"
BY DEF StatusOf, SessionStatuses, FinalStatuses

LEMMA GoneTyped ==
  ASSUME NEW mem
  PROVE  Cancels(mem) \subseteq GoneIn(mem) /\ GoneIn(mem) \subseteq Items
BY DEF Cancels, GoneIn

\* A step of one request that leaves the session: its own part, and what it says of
\* the items, is all there is to see to.
LEMMA OneRequest ==
  ASSUME UploadInv, NEW r \in UploadHandlers, NEW q \in UploadRecords,
         upReq' = [upReq EXCEPT ![r] = q],
         item' \in [Items -> ItemRows], doc' \in [Items -> {"none", "pending", "processing", "ready", "failed"}],
         session' \in SessionStatuses, session' = "canceled" => session = "canceled",
         uploadPast' \in UploadPasts, uploadPast.early \subseteq uploadPast'.early,
         uploadPast'.overlapped = uploadPast.overlapped,
         CanceledForReason',
         q.pc = "write" => /\ q.gone \subseteq uploadPast'.early
                           /\ q.next = "canceled" <=> q.sess = "canceled",
         q.pc \notin {"idle", "end"} /\ session' = "canceled" /\ ~uploadPast.overlapped
           => q.sess = "canceled"
  PROVE  UploadInv'
<1>1. UploadTypeOK'
  BY DEF UploadInv, UploadTypeOK
<1>2. ASSUME NEW p \in UploadHandlers
      PROVE  ResponseKnows(upReq[p])' /\ CancellationKnown(upReq[p])'
  <2>1. CASE p = r
    BY <2>1 DEF UploadInv, UploadTypeOK, ResponseKnows, CancellationKnown
  <2>2. CASE p # r
    BY <2>2 DEF UploadInv, UploadTypeOK, ResponseKnows, CancellationKnown
  <2>. QED
    BY <2>1, <2>2
<1>. QED
  BY <1>1, <1>2 DEF UploadInv

\* The rows that a step may write: one item that is not made canceled, or items that
\* were taken for deleted.
LEMMA OneRow ==
  ASSUME UploadInv, NEW i \in Items, NEW row \in ItemRows,
         item' = [item EXCEPT ![i] = row],
         row.status = "canceled" => item[i].status = "canceled", uploadPast' = uploadPast
  PROVE  item' \in [Items -> ItemRows] /\ CanceledForReason'
BY DEF UploadInv, UploadTypeOK, CanceledForReason

LEMMA GoneRows ==
  ASSUME UploadInv, NEW gone, gone \subseteq uploadPast'.early,
         item' = [i \in Items |-> IF i \in gone THEN [item[i] EXCEPT !.status = "canceled"]
                                                ELSE item[i]],
         uploadPast.early \subseteq uploadPast'.early,
         uploadPast'.cancels = uploadPast.cancels, uploadPast'.deleted = uploadPast.deleted
  PROVE  item' \in [Items -> ItemRows] /\ CanceledForReason'
BY RowsTyped DEF UploadInv, UploadTypeOK, CanceledForReason

LEMMA EarlyGrows ==
  ASSUME UploadInv, NEW mem, uploadPast' = [uploadPast EXCEPT !.early = @ \cup GoneIn(mem)]
  PROVE  /\ uploadPast' \in UploadPasts
         /\ uploadPast.early \subseteq uploadPast'.early /\ GoneIn(mem) \subseteq uploadPast'.early
         /\ uploadPast'.cancels = uploadPast.cancels /\ uploadPast'.deleted = uploadPast.deleted
         /\ uploadPast'.overlapped = uploadPast.overlapped
BY GoneTyped DEF UploadInv, UploadTypeOK, UploadPasts

LEMMA LoadStep ==
  ASSUME UploadInv, NEW u \in Uploads, LoadSession(u)
  PROVE  UploadInv'
<1>0. u \in UploadHandlers /\ u[1] \in Items
  BY DEF UploadHandlers, Uploads
<1>. DEFINE q == [NewRequest EXCEPT !.pc = "end"]
<1>1. CASE upReq' = RequestOver(u) /\ UNCHANGED <<session, item, uploadPast, doc>>
  <2>1. upReq' = [upReq EXCEPT ![u] = q] /\ q \in UploadRecords /\ q.pc = "end"
    BY <1>1, NewRequestTyped DEF RequestOver
  <2>. HIDE DEF q
  <2>. QED
    BY <1>0, <1>1, <2>1, OneRequest DEF UploadInv, UploadTypeOK, CanceledForReason
<1>2. CASE /\ session \notin FinalStatuses /\ upReq' = RequestOver(u)
           /\ session' = StatusOf(session, item)
           /\ item' = [j \in Items |-> IF j \in Cancels(item) THEN [item[j] EXCEPT !.status = "canceled"]
                                                            ELSE item[j]]
           /\ uploadPast' = [uploadPast EXCEPT !.early = @ \cup GoneIn(item)]
           /\ doc' = doc
  <2>1. upReq' = [upReq EXCEPT ![u] = q] /\ q \in UploadRecords /\ q.pc = "end"
    BY <1>2, NewRequestTyped DEF RequestOver
  <2>2. /\ uploadPast' \in UploadPasts /\ uploadPast.early \subseteq uploadPast'.early
        /\ Cancels(item) \subseteq uploadPast'.early
        /\ uploadPast'.cancels = uploadPast.cancels /\ uploadPast'.deleted = uploadPast.deleted
        /\ uploadPast'.overlapped = uploadPast.overlapped
    BY <1>2, EarlyGrows, GoneTyped
  <2>3. item' \in [Items -> ItemRows] /\ CanceledForReason'
    BY <1>2, <2>2, GoneRows
  <2>4. session' \in SessionStatuses /\ session' # "canceled"
    BY <1>2, StatusDerived DEF UploadInv, UploadTypeOK, FinalStatuses
  <2>. HIDE DEF q
  <2>. QED
    BY <1>0, <1>2, <2>1, <2>2, <2>3, <2>4, OneRequest DEF UploadInv, UploadTypeOK
<1>3. CASE /\ upReq' = [upReq EXCEPT ![u] = [@ EXCEPT !.pc = "stage", !.sess = session, !.mem = item]]
           /\ UNCHANGED <<session, item, uploadPast, doc>>
  <2>. DEFINE p == [upReq[u] EXCEPT !.pc = "stage", !.sess = session, !.mem = item]
  <2>1. upReq' = [upReq EXCEPT ![u] = p] /\ p \in UploadRecords /\ p.pc = "stage" /\ p.sess = session
    BY <1>0, <1>3 DEF UploadInv, UploadTypeOK, UploadRecords
  <2>. HIDE DEF p
  <2>. QED
    BY <1>0, <1>3, <2>1, OneRequest DEF UploadInv, UploadTypeOK, CanceledForReason
<1>. QED
  BY <1>1, <1>2, <1>3 DEF LoadSession

\* A step that sees to the row of its file and goes on.
LEMMA RowStep ==
  ASSUME UploadInv, NEW u \in Uploads, NEW to \in {"reserve", "persist", "link", "count"},
         upReq[u].pc \notin {"idle", "end"},
         NEW row \in ItemRows, row.status = "canceled" => item[u[1]].status = "canceled",
         item' = [item EXCEPT ![u[1]] = row],
         upReq' = [upReq EXCEPT ![u] = [@ EXCEPT !.mem[u[1]] = item'[u[1]], !.pc = to]],
         UNCHANGED <<session, doc, uploadPast>>
  PROVE  UploadInv'
<1>0. u \in UploadHandlers /\ u[1] \in Items
  BY DEF UploadHandlers, Uploads
<1>. DEFINE q == [upReq[u] EXCEPT !.mem[u[1]] = row, !.pc = to]
<1>1. item' \in [Items -> ItemRows] /\ CanceledForReason' /\ item'[u[1]] = row
  BY <1>0, OneRow DEF UploadInv, UploadTypeOK
<1>2. upReq' = [upReq EXCEPT ![u] = q] /\ q \in UploadRecords /\ q.pc = to /\ q.sess = upReq[u].sess
  <2>1. upReq[u] \in UploadRecords /\ upReq \in [UploadHandlers -> UploadRecords]
    BY <1>0 DEF UploadInv, UploadTypeOK
  <2>2. upReq' = [upReq EXCEPT ![u] = q]
    BY <1>1
  <2>3. q \in UploadRecords /\ q.pc = to /\ q.sess = upReq[u].sess
    <3>. DEFINE mem == [upReq[u].mem EXCEPT ![u[1]] = row]
    <3>1. mem \in [Items -> ItemRows]
      BY <1>0, <2>1 DEF UploadRecords
    <3>2. q = [upReq[u] EXCEPT !.mem = mem, !.pc = to]
      BY <2>1 DEF UploadRecords
    <3>. HIDE DEF mem, q
    <3>. QED
      BY <2>1, <3>1, <3>2 DEF UploadRecords
  <2>. QED
    BY <2>2, <2>3
<1>3. UNCHANGED <<session, doc, uploadPast>> /\ CancellationKnown(upReq[u])
  BY <1>0 DEF UploadInv
<1>4. session \in SessionStatuses /\ doc' \in [Items -> {"none", "pending", "processing", "ready", "failed"}]
      /\ uploadPast \in UploadPasts
  BY <1>3 DEF UploadInv, UploadTypeOK
<1>5. q.pc \notin {"idle", "end"} /\ session' = "canceled" /\ ~uploadPast.overlapped => q.sess = "canceled"
  BY <1>2, <1>3 DEF CancellationKnown
<1>6. /\ q.pc # "write" /\ uploadPast' \in UploadPasts /\ session' \in SessionStatuses
      /\ uploadPast.early \subseteq uploadPast'.early /\ uploadPast'.overlapped = uploadPast.overlapped
      /\ session' = "canceled" => session = "canceled"
  BY <1>2, <1>3, <1>4
<1>. HIDE DEF q
<1>. QED
  BY <1>0, <1>1, <1>2, <1>4, <1>5, <1>6, OneRequest

\* A step that only ends or goes on.
LEMMA PlainStep ==
  ASSUME UploadInv, NEW u \in UploadHandlers, NEW to \in {"reserve", "link", "count"},
         upReq[u].pc \notin {"idle", "end"},
         \/ upReq' = RequestOver(u)
         \/ upReq' = Then(u, to)
         \/ upReq' = [upReq EXCEPT ![u] = [@ EXCEPT !.pc = to, !.sess = session, !.mem = item]],
         UNCHANGED <<session, item, uploadPast>>,
         doc' \in [Items -> {"none", "pending", "processing", "ready", "failed"}]
  PROVE  UploadInv'
<1>1. CASE upReq' = RequestOver(u)
  <2>. DEFINE q == [NewRequest EXCEPT !.pc = "end"]
  <2>1. upReq' = [upReq EXCEPT ![u] = q] /\ q \in UploadRecords /\ q.pc = "end"
    BY <1>1, NewRequestTyped DEF RequestOver
  <2>. HIDE DEF q
  <2>. QED
    BY <1>1, <2>1, OneRequest DEF UploadInv, UploadTypeOK, CanceledForReason
<1>2. CASE upReq' = Then(u, to)
  <2>. DEFINE q == [upReq[u] EXCEPT !.pc = to]
  <2>1. upReq' = [upReq EXCEPT ![u] = q] /\ q \in UploadRecords /\ q.pc = to /\ q.sess = upReq[u].sess
    BY <1>2 DEF UploadInv, UploadTypeOK, UploadRecords, Then
  <2>. HIDE DEF q
  <2>. QED
    BY <1>2, <2>1, OneRequest DEF UploadInv, UploadTypeOK, CanceledForReason, CancellationKnown
<1>3. CASE upReq' = [upReq EXCEPT ![u] = [@ EXCEPT !.pc = to, !.sess = session, !.mem = item]]
  <2>. DEFINE q == [upReq[u] EXCEPT !.pc = to, !.sess = session, !.mem = item]
  <2>1. upReq' = [upReq EXCEPT ![u] = q] /\ q \in UploadRecords /\ q.pc = to /\ q.sess = session
    BY <1>3 DEF UploadInv, UploadTypeOK, UploadRecords
  <2>. HIDE DEF q
  <2>. QED
    BY <1>3, <2>1, OneRequest DEF UploadInv, UploadTypeOK, CanceledForReason, CancellationKnown
<1>. QED
  BY <1>1, <1>2, <1>3

LEMMA StageStep == ASSUME UploadInv, NEW u \in Uploads, Stage(u) PROVE UploadInv'
<1>0. u \in UploadHandlers /\ u[1] \in Items /\ upReq[u].pc = "stage" /\ item[u[1]] \in ItemRows
  BY DEF UploadHandlers, Uploads, Stage, UploadInv, UploadTypeOK
<1>1. CASE upReq' = Then(u, "reserve") /\ UNCHANGED item
  BY <1>0, <1>1, PlainStep DEF Stage, UploadInv, UploadTypeOK
<1>2. CASE /\ item' = [item EXCEPT ![u[1]].status =
                         IF Seen(upReq[u].mem)[u[1]].status = "failed" THEN @ ELSE "failed"]
           /\ upReq' = [upReq EXCEPT ![u] = [@ EXCEPT !.mem[u[1]] = item'[u[1]], !.pc = "count"]]
  <2>. DEFINE row == [item[u[1]] EXCEPT !.status =
                        IF Seen(upReq[u].mem)[u[1]].status = "failed" THEN @ ELSE "failed"]
  <2>1. /\ item' = [item EXCEPT ![u[1]] = row] /\ row \in ItemRows
        /\ row.status = "canceled" => item[u[1]].status = "canceled"
    BY <1>0, <1>2 DEF ItemRows
  <2>. HIDE DEF row
  <2>. QED
    BY <1>0, <1>2, <2>1, RowStep DEF Stage
<1>. QED
  BY <1>1, <1>2 DEF Stage

LEMMA ReserveStep == ASSUME UploadInv, NEW u \in Uploads, Reserve(u) PROVE UploadInv'
<1>0. u \in UploadHandlers /\ u[1] \in Items /\ upReq[u].pc = "reserve" /\ item[u[1]] \in ItemRows
  BY DEF UploadHandlers, Uploads, Reserve, UploadInv, UploadTypeOK
<1>1. CASE /\ \/ upReq' = RequestOver(u)
              \/ upReq' = [upReq EXCEPT ![u] = [@ EXCEPT !.pc = "count", !.sess = session,
                                                         !.mem = item]]
           /\ UNCHANGED item
  BY <1>0, <1>1, PlainStep DEF Reserve, UploadInv, UploadTypeOK
<1>2. CASE /\ item' = [item EXCEPT ![u[1]].status =
                         IF upReq[u].mem[u[1]].status = "queued" THEN @ ELSE "queued"]
           /\ upReq' = [upReq EXCEPT ![u] = [@ EXCEPT !.mem[u[1]] = item'[u[1]], !.pc = "persist"]]
  <2>. DEFINE row == [item[u[1]] EXCEPT !.status =
                        IF upReq[u].mem[u[1]].status = "queued" THEN @ ELSE "queued"]
  <2>1. /\ item' = [item EXCEPT ![u[1]] = row] /\ row \in ItemRows
        /\ row.status = "canceled" => item[u[1]].status = "canceled"
    BY <1>0, <1>2 DEF ItemRows
  <2>. HIDE DEF row
  <2>. QED
    BY <1>0, <1>2, <2>1, RowStep DEF Reserve
<1>. QED
  BY <1>1, <1>2 DEF Reserve

LEMMA PersistStep == ASSUME UploadInv, NEW u \in Uploads, Persist(u) PROVE UploadInv'
<1>0. u \in UploadHandlers /\ u[1] \in Items /\ upReq[u].pc = "persist" /\ item[u[1]] \in ItemRows
  BY DEF UploadHandlers, Uploads, Persist, UploadInv, UploadTypeOK
<1>. DEFINE row == [item[u[1]] EXCEPT !.status =
                      IF upReq[u].mem[u[1]].status = "failed" THEN @ ELSE "failed"]
<1>1. CASE /\ IF doc[u[1]] # "none" THEN UNCHANGED doc
              ELSE \E s \in {"pending", "ready", "failed"} : doc' = [doc EXCEPT ![u[1]] = s]
           /\ upReq' = Then(u, "link") /\ UNCHANGED item
  <2>1. doc' \in [Items -> {"none", "pending", "processing", "ready", "failed"}]
    BY <1>1 DEF UploadInv, UploadTypeOK
  <2>. QED
    BY <1>0, <1>1, <2>1, PlainStep DEF Persist
<1>2. CASE /\ item' = [item EXCEPT ![u[1]].status =
                         IF upReq[u].mem[u[1]].status = "failed" THEN @ ELSE "failed"]
           /\ \/ upReq' = RequestOver(u)
              \/ upReq' = [upReq EXCEPT ![u] = [@ EXCEPT !.mem[u[1]] = item'[u[1]], !.pc = "count"]]
           /\ UNCHANGED doc
  <2>1. /\ item' = [item EXCEPT ![u[1]] = row] /\ row \in ItemRows
        /\ row.status = "canceled" => item[u[1]].status = "canceled"
    BY <1>0, <1>2 DEF ItemRows
  <2>. HIDE DEF row
  <2>2. CASE upReq' = [upReq EXCEPT ![u] = [@ EXCEPT !.mem[u[1]] = item'[u[1]], !.pc = "count"]]
    BY <1>0, <1>2, <2>1, <2>2, RowStep DEF Persist
  <2>3. CASE upReq' = RequestOver(u)
    <3>. DEFINE q == [NewRequest EXCEPT !.pc = "end"]
    <3>1. upReq' = [upReq EXCEPT ![u] = q] /\ q \in UploadRecords /\ q.pc = "end"
      BY <2>3, NewRequestTyped DEF RequestOver
    <3>2. item' \in [Items -> ItemRows] /\ CanceledForReason'
      BY <1>0, <2>1, OneRow DEF Persist
    <3>. HIDE DEF q
    <3>. QED
      BY <1>0, <1>2, <3>1, <3>2, OneRequest DEF Persist, UploadInv, UploadTypeOK
  <2>. QED
    BY <1>2, <2>2, <2>3
<1>. QED
  BY <1>1, <1>2 DEF Persist

LEMMA LinkStep == ASSUME UploadInv, NEW u \in Uploads, LinkItem(u) PROVE UploadInv'
<1>0. u \in UploadHandlers /\ u[1] \in Items /\ upReq[u].pc = "link" /\ item[u[1]] \in ItemRows
  BY DEF UploadHandlers, Uploads, LinkItem, UploadInv, UploadTypeOK
<1>. DEFINE status == IF doc[u[1]] = "failed" THEN "failed" ELSE "queued"
            row == [linked |-> TRUE,
                    status |-> IF upReq[u].mem[u[1]].status = status THEN item[u[1]].status ELSE status]
<1>1. CASE upReq' = RequestOver(u) /\ UNCHANGED item
  BY <1>0, <1>1, PlainStep DEF LinkItem, UploadInv, UploadTypeOK
<1>2. CASE /\ item' = [item EXCEPT ![u[1]] = row]
           /\ upReq' = [upReq EXCEPT ![u] = [@ EXCEPT !.mem[u[1]] = item'[u[1]], !.pc = "count"]]
  <2>1. row \in ItemRows /\ (row.status = "canceled" => item[u[1]].status = "canceled")
    BY <1>0 DEF ItemRows
  <2>. HIDE DEF row
  <2>. QED
    BY <1>0, <1>2, <2>1, RowStep DEF LinkItem
<1>. QED
  BY <1>1, <1>2 DEF LinkItem

LEMMA PollStep == ASSUME UploadInv, Poll PROVE UploadInv'
<1>. DEFINE q == [NewRequest EXCEPT !.pc = "count", !.sess = session]
<1>1. Poller \in UploadHandlers
  BY DEF UploadHandlers
<1>2. q \in UploadRecords /\ q.pc = "count" /\ q.sess = session
  BY NewRequestTyped DEF UploadRecords, UploadInv, UploadTypeOK
<1>3. upReq' = [upReq EXCEPT ![Poller] = q]
  BY DEF Poll
<1>. HIDE DEF q
<1>. QED
  BY <1>1, <1>2, <1>3, OneRequest DEF Poll, UploadInv, UploadTypeOK, CanceledForReason

LEMMA CountStep == ASSUME UploadInv, NEW r \in UploadHandlers, Count(r) PROVE UploadInv'
<1>. DEFINE mem == Seen(upReq[r].mem)
            q == [pc |-> "write", sess |-> upReq[r].sess, mem |-> NoRows,
                  next |-> StatusOf(upReq[r].sess, mem), gone |-> Cancels(mem)]
<1>1. /\ upReq' = [upReq EXCEPT ![r] = q] /\ upReq[r].pc = "count"
      /\ uploadPast' = [uploadPast EXCEPT !.early = @ \cup GoneIn(mem)]
      /\ UNCHANGED <<session, item, doc>>
  BY DEF Count
<1>. HIDE DEF mem
<1>2. upReq[r].sess \in SessionStatuses
  BY DEF UploadInv, UploadTypeOK, UploadRecords
<1>3. q \in UploadRecords /\ q.pc = "write" /\ q.sess = upReq[r].sess /\ q.gone = Cancels(mem)
      /\ (q.next = "canceled" <=> q.sess = "canceled")
  BY <1>2, GoneTyped, RowsTyped, StatusDerived DEF UploadRecords
<1>4. /\ uploadPast' \in UploadPasts /\ uploadPast.early \subseteq uploadPast'.early
      /\ Cancels(mem) \subseteq uploadPast'.early
      /\ uploadPast'.cancels = uploadPast.cancels /\ uploadPast'.deleted = uploadPast.deleted
      /\ uploadPast'.overlapped = uploadPast.overlapped
  BY <1>1, EarlyGrows, GoneTyped
<1>5. CanceledForReason'
  BY <1>1, <1>4 DEF UploadInv, CanceledForReason
<1>. HIDE DEF q
<1>. QED
  BY <1>1, <1>3, <1>4, <1>5, OneRequest DEF UploadInv, UploadTypeOK, CancellationKnown

LEMMA WriteStep ==
  ASSUME UploadInv, NEW r \in UploadHandlers, WriteBack(r)
  PROVE  UploadInv' /\ (session = "canceled" /\ ~uploadPast.overlapped => session' = "canceled")
<1>1. /\ upReq[r].pc = "write" /\ upReq[r] \in UploadRecords
      /\ UNCHANGED <<doc, uploadPast>>
      /\ item' = [i \in Items |-> IF i \in upReq[r].gone THEN [item[i] EXCEPT !.status = "canceled"]
                                                          ELSE item[i]]
  BY DEF WriteBack, UploadInv, UploadTypeOK
<1>2. upReq[r].gone \subseteq uploadPast'.early
  BY <1>1 DEF UploadInv, ResponseKnows
<1>3. item' \in [Items -> ItemRows] /\ CanceledForReason'
  BY <1>1, <1>2, GoneRows
<1>4. /\ session' \in SessionStatuses /\ (session' = "canceled" => session = "canceled")
      /\ session = "canceled" /\ ~uploadPast.overlapped => session' = "canceled"
  BY <1>1 DEF WriteBack, UploadInv, UploadTypeOK, UploadRecords, ResponseKnows, CancellationKnown
<1>5. PICK q \in UploadRecords : upReq' = [upReq EXCEPT ![r] = q] /\ q.pc \in {"idle", "end"}
  BY NewRequestTyped DEF WriteBack, RequestOver
<1>. QED
  BY <1>1, <1>3, <1>4, <1>5, OneRequest DEF UploadInv, UploadTypeOK

LEMMA CancelStep == ASSUME UploadInv, Cancel PROVE UploadInv' /\ session' = "canceled"
<1>0. PICK active, waits :
        /\ item' = [i \in Items |-> IF i \in active THEN [item[i] EXCEPT !.status = "canceled"]
                                                    ELSE item[i]]
        /\ doc' = [i \in Items |-> IF i \in waits THEN "failed" ELSE doc[i]]
  BY DEF Cancel
<1>1. session' = "canceled" /\ upReq' = upReq
      /\ uploadPast' = [uploadPast EXCEPT !.cancels = @ + 1, !.overlapped = @ \/ Busy]
  BY DEF Cancel
<1>2. /\ uploadPast' \in UploadPasts /\ uploadPast'.cancels > 0
      /\ uploadPast'.early = uploadPast.early
      /\ uploadPast'.overlapped <=> uploadPast.overlapped \/ Busy
  <2>1. uploadPast \in UploadPasts
    BY DEF UploadInv, UploadTypeOK
  <2>2. /\ uploadPast'.overlapped = (uploadPast.overlapped \/ Busy)
        /\ uploadPast'.cancels = uploadPast.cancels + 1 /\ uploadPast'.early = uploadPast.early
        /\ uploadPast'.deletes = uploadPast.deletes /\ uploadPast'.deleted = uploadPast.deleted
    BY <1>1, <2>1 DEF UploadPasts
  <2>. DEFINE over == uploadPast.overlapped \/ Busy
              n == uploadPast.cancels + 1
  <2>3. over \in BOOLEAN /\ n \in Nat
    BY <2>1 DEF UploadPasts
  <2>4. uploadPast' = [uploadPast EXCEPT !.cancels = n, !.overlapped = over]
    BY <1>1
  <2>. HIDE DEF over, n
  <2>5. uploadPast' \in UploadPasts
    BY <2>1, <2>3, <2>4 DEF UploadPasts
  <2>. QED
    BY <2>1, <2>2, <2>5 DEF UploadPasts
<1>3. UploadTypeOK'
  BY <1>0, <1>1, <1>2, RowsTyped DEF UploadInv, UploadTypeOK, SessionStatuses, FinalStatuses
<1>4. CanceledForReason'
  BY <1>2 DEF CanceledForReason
<1>5. ASSUME NEW p \in UploadHandlers
      PROVE  ResponseKnows(upReq[p])' /\ CancellationKnown(upReq[p])'
  BY <1>1, <1>2 DEF UploadInv, ResponseKnows, CancellationKnown, Busy
<1>. QED
  BY <1>1, <1>3, <1>4, <1>5 DEF UploadInv

LEMMA DropStep == ASSUME UploadInv, NEW i \in Items, DropDocument(i) PROVE UploadInv'
<1>1. /\ session' = session /\ upReq' = upReq
      /\ doc' = [doc EXCEPT ![i] = "none"] /\ item' = [item EXCEPT ![i].linked = FALSE]
      /\ uploadPast' = [uploadPast EXCEPT !.deletes = @ + 1, !.deleted = @ \cup {i}]
  BY DEF DropDocument
<1>2. /\ uploadPast' \in UploadPasts /\ uploadPast'.cancels = uploadPast.cancels
      /\ uploadPast.deleted \subseteq uploadPast'.deleted
      /\ uploadPast'.early = uploadPast.early /\ uploadPast'.overlapped = uploadPast.overlapped
  <2>. DEFINE more == uploadPast.deleted \cup {i}
              n == uploadPast.deletes + 1
  <2>1. uploadPast \in UploadPasts
    BY DEF UploadInv, UploadTypeOK
  <2>2. uploadPast' = [uploadPast EXCEPT !.deletes = n, !.deleted = more]
    BY <1>1
  <2>3. n \in Nat /\ more \in SUBSET Items /\ uploadPast.deleted \subseteq more
    BY <2>1 DEF UploadPasts
  <2>. HIDE DEF more, n
  <2>. QED
    BY <2>1, <2>2, <2>3 DEF UploadPasts
<1>3. item' \in [Items -> ItemRows] /\ \A j \in Items : item'[j].status = item[j].status
  BY <1>1, RowsTyped DEF UploadInv, UploadTypeOK
<1>4. UploadTypeOK'
  BY <1>1, <1>2, <1>3 DEF UploadInv, UploadTypeOK
<1>5. CanceledForReason'
  BY <1>2, <1>3 DEF UploadInv, CanceledForReason
<1>6. ASSUME NEW p \in UploadHandlers
      PROVE  ResponseKnows(upReq[p])' /\ CancellationKnown(upReq[p])'
  BY <1>1, <1>2 DEF UploadInv, ResponseKnows, CancellationKnown
<1>. QED
  BY <1>4, <1>5, <1>6 DEF UploadInv

LEMMA IngestStep == ASSUME UploadInv, NEW i \in Items, IngestItem(i) PROVE UploadInv'
<1>1. UploadTypeOK' /\ UNCHANGED <<session, item, upReq, uploadPast>>
  BY DEF IngestItem, UploadInv, UploadTypeOK
<1>. QED
  BY <1>1 DEF UploadInv, CanceledForReason, ResponseKnows, CancellationKnown

LEMMA InitUpload == ASSUME UploadInit PROVE UploadInv
<1>1. UploadTypeOK
  BY RowsTyped, NewRequestTyped
  DEF UploadInit, UploadTypeOK, SessionStatuses, FinalStatuses, UploadPasts
<1>2. \A r \in UploadHandlers : upReq[r].pc = "idle"
  BY NewRequestTyped DEF UploadInit
<1>3. CanceledForReason
  BY DEF UploadInit, CanceledForReason, NoRows, Absent
<1>. QED
  BY <1>1, <1>2, <1>3 DEF UploadInv, ResponseKnows, CancellationKnown

LEMMA UploadSteps ==
  ASSUME UploadInv, [UploadNext]_upVars
  PROVE  UploadInv' /\ (session = "canceled" => session' = "canceled" \/ uploadPast.overlapped)
<1>0. \A u \in Uploads : u \in UploadHandlers
  BY DEF UploadHandlers
<1>1. ASSUME NEW u \in Uploads, LoadSession(u)
      PROVE  session = "canceled" => session' = "canceled"
  BY <1>1 DEF LoadSession, FinalStatuses
<1>2. CASE \E u \in Uploads : LoadSession(u) \/ Serve(u)
  BY <1>0, <1>1, <1>2, LoadStep, StageStep, ReserveStep, PersistStep, LinkStep, CountStep, WriteStep
  DEF Serve, Stage, Reserve, Persist, LinkItem, Count
<1>3. CASE Polling
  BY <1>3, PollStep, CountStep, WriteStep DEF Polling, Poll, Count, UploadHandlers
<1>4. CASE Cancel
  BY <1>4, CancelStep
<1>5. CASE \E i \in Items : DropDocument(i) \/ IngestItem(i)
  BY <1>5, DropStep, IngestStep DEF DropDocument, IngestItem
<1>6. CASE UNCHANGED upVars
  BY <1>6 DEF upVars, UploadInv, UploadTypeOK, CanceledForReason, ResponseKnows, CancellationKnown
<1>. QED
  BY <1>2, <1>3, <1>4, <1>5, <1>6 DEF UploadNext

(* An uploaded file is canceled only after the session was canceled or its document *)
(* deleted, or because a response (effective_item_status) saw it before it had its  *)
(* document; and cancel_upload_session stands against every request that loads the  *)
(* session after it.                                                                *)
THEOREM CancellationsHold == UploadSpec => CancelsHold
<1>1. UploadInv => LinkedCanceledHasCause
  BY DEF UploadInv, CanceledForReason, LinkedCanceledHasCause
<1>2. UploadSpec => []UploadInv
  BY InitUpload, UploadSteps, PTL DEF UploadSpec
<1>3. UploadSpec => CancelStands
  <2>1. UploadInv /\ [UploadNext]_upVars
          => [session = "canceled" => session' = "canceled" \/ uploadPast.overlapped]_upVars
    BY UploadSteps
  <2>. QED
    BY <1>2, <2>1, PTL DEF UploadSpec, CancelStands
<1>. QED
  BY <1>1, <1>2, <1>3, PTL DEF CancelsHold

---------------------------------------------------------------------------
(* Proofs about Records, for queues, batches and records of any number.       *)

\* Every record is in one place.
InOnePlace ==
  /\ Ids = Waiting \cup WrittenIds \cup removed \cup Lost
  /\ Waiting \cap WrittenIds = {} /\ Waiting \cap removed = {} /\ Waiting \cap Lost = {}
  /\ WrittenIds \cap removed = {} /\ WrittenIds \cap Lost = {} /\ removed \cap Lost = {}

OneRowEach == \A x, y \in table : x.id = y.id => x = y
OneCauseEach == \A p, q \in lost : p[1] = q[1] => p = q
LinksAlive == \A x \in table : x.links \subseteq alive

\* The queue is in the order of the requests, the batch comes before it, and a task
\* that is down or done has neither.
QueueStands ==
  /\ \A j, k \in DOMAIN waiting : j < k => waiting[j] < waiting[k]
  /\ \A k \in DOMAIN waiting : k <= waiting[k]
  /\ \A i \in Range(hand), j \in Range(waiting) : i < j
  /\ task \in {"down", "draining"} => hand = <<>>
  /\ task = "down" => waiting = <<>>

RecordsInv ==
  /\ RecordsTypeOK /\ InOnePlace /\ OneRowEach /\ OneCauseEach /\ LinksAlive /\ QueueStands
  /\ LossHasCause /\ InOrder

LEMMA RangeOfNone == Range(<<>>) = {}
BY DEF Range

LEMMA RangeOfSome ==
  ASSUME NEW s \in Seq(Nat)
  PROVE  /\ \A i \in Range(s) : i \in Nat /\ \E k \in 1..Len(s) : s[k] = i
         /\ \A k \in 1..Len(s) : s[k] \in Range(s)
         /\ DOMAIN s = 1..Len(s) /\ Len(s) \in Nat
<1>1. DOMAIN s = 1..Len(s) /\ Len(s) \in Nat /\ \A k \in 1..Len(s) : s[k] \in Nat
  OBVIOUS
<1>. QED
  BY <1>1 DEF Range

LEMMA RangeAppended ==
  ASSUME NEW s \in Seq(Nat), NEW n \in Nat
  PROVE  Range(Append(s, n)) = Range(s) \cup {n}
<1>. DEFINE t == Append(s, n)
<1>1. /\ t \in Seq(Nat) /\ Len(t) = Len(s) + 1 /\ t[Len(s) + 1] = n
      /\ \A k \in 1..Len(s) : t[k] = s[k]
  OBVIOUS
<1>. HIDE DEF t
<1>2. ASSUME NEW i \in Range(t) PROVE i \in Range(s) \cup {n}
  <2>1. PICK k \in 1..Len(t) : t[k] = i
    BY <1>1, RangeOfSome
  <2>2. k \in 1..Len(s) \/ k = Len(s) + 1
    BY <1>1, <2>1, RangeOfSome
  <2>. QED
    BY <1>1, <2>1, <2>2, RangeOfSome
<1>3. ASSUME NEW i \in Range(s) PROVE i \in Range(t)
  <2>1. PICK k \in 1..Len(s) : s[k] = i
    BY RangeOfSome
  <2>2. k \in 1..Len(t)
    BY <1>1, RangeOfSome
  <2>. QED
    BY <1>1, <2>1, <2>2, RangeOfSome
<1>4. n \in Range(t)
  <2>1. Len(s) + 1 \in 1..Len(t)
    BY <1>1, RangeOfSome
  <2>. QED
    BY <1>1, <2>1, RangeOfSome
<1>. QED
  BY <1>2, <1>3, <1>4 DEF t

LEMMA RangeSplit ==
  ASSUME NEW s \in Seq(Nat), NEW n \in 0..Len(s)
  PROVE  /\ SubSeq(s, 1, n) \in Seq(Nat) /\ SubSeq(s, n + 1, Len(s)) \in Seq(Nat)
         /\ Len(SubSeq(s, 1, n)) = n /\ Len(SubSeq(s, n + 1, Len(s))) = Len(s) - n
         /\ \A k \in 1..n : SubSeq(s, 1, n)[k] = s[k]
         /\ \A k \in 1..(Len(s) - n) : SubSeq(s, n + 1, Len(s))[k] = s[n + k]
         /\ Range(s) = Range(SubSeq(s, 1, n)) \cup Range(SubSeq(s, n + 1, Len(s)))
<1>1. /\ SubSeq(s, 1, n) \in Seq(Nat) /\ SubSeq(s, n + 1, Len(s)) \in Seq(Nat)
      /\ Len(SubSeq(s, 1, n)) = n /\ Len(SubSeq(s, n + 1, Len(s))) = Len(s) - n
  OBVIOUS
<1>2. \A k \in 1..n : SubSeq(s, 1, n)[k] = s[k]
  OBVIOUS
<1>3. \A k \in 1..(Len(s) - n) : SubSeq(s, n + 1, Len(s))[k] = s[n + k]
  OBVIOUS
<1>. DEFINE a == SubSeq(s, 1, n)
            b == SubSeq(s, n + 1, Len(s))
<1>. HIDE DEF a, b
<1>4. a \in Seq(Nat) /\ b \in Seq(Nat) /\ Len(a) = n /\ Len(b) = Len(s) - n
      /\ (\A k \in 1..n : a[k] = s[k]) /\ \A k \in 1..(Len(s) - n) : b[k] = s[n + k]
  BY <1>1, <1>2, <1>3 DEF a, b
<1>5. ASSUME NEW i \in Range(s) PROVE i \in Range(a) \cup Range(b)
  <2>1. PICK k \in 1..Len(s) : s[k] = i
    BY RangeOfSome
  <2>2. CASE k <= n
    BY <1>4, <2>1, <2>2, RangeOfSome
  <2>3. CASE k > n
    <3>1. PICK m \in 1..(Len(s) - n) : n + m = k
      BY <2>1, <2>3
    <3>2. b[m] = i /\ m \in 1..Len(b)
      BY <1>4, <2>1, <3>1
    <3>. QED
      BY <1>4, <3>2, RangeOfSome
  <2>. QED
    BY <2>1, <2>2, <2>3, RangeOfSome
<1>6. ASSUME NEW i \in Range(a) PROVE i \in Range(s)
  <2>1. PICK k \in 1..n : a[k] = i
    BY <1>4, RangeOfSome
  <2>2. PICK m \in 1..Len(s) : m = k
    BY <2>1, RangeOfSome
  <2>3. s[m] = i
    BY <1>4, <2>1, <2>2
  <2>. QED
    BY <2>3, RangeOfSome
<1>7. ASSUME NEW i \in Range(b) PROVE i \in Range(s)
  <2>1. PICK k \in 1..(Len(s) - n) : b[k] = i
    BY <1>4, RangeOfSome
  <2>2. PICK m \in 1..Len(s) : m = n + k
    BY <2>1, RangeOfSome
  <2>3. s[m] = i
    BY <1>4, <2>1, <2>2
  <2>. QED
    BY <2>3, RangeOfSome
<1>. QED
  BY <1>1, <1>2, <1>3, <1>5, <1>6, <1>7 DEF a, b

\* The batch is apart from the queue.
LEMMA HandApart ==
  ASSUME RecordsInv
  PROVE  /\ Range(hand) \cap Range(waiting) = {}
         /\ Range(hand) \subseteq Waiting /\ Range(waiting) \subseteq Waiting
         /\ Waiting \subseteq Nat /\ Waiting \subseteq Ids
<1>1. \A i \in Range(hand) \cup Range(waiting) : i \in Nat
  BY RangeOfSome DEF RecordsInv, RecordsTypeOK
<1>2. \A i \in Range(hand), j \in Range(waiting) : i < j
  BY DEF RecordsInv, QueueStands
<1>3. Range(hand) \cap Range(waiting) = {}
  BY <1>1, <1>2
<1>. QED
  BY <1>1, <1>3 DEF Waiting, RecordsInv, InOnePlace

LEMMA IdsAre ==
  ASSUME RecordsTypeOK
  PROVE  Ids = 1..Len(record) /\ Len(record) \in Nat /\ \A i \in Ids : record[i] \in SUBSET Parents
BY DEF RecordsTypeOK, Ids

\* Steps that take from the queue into the batch, or change the task.
LEMMA Rearranged ==
  ASSUME RecordsInv, RecordsTypeOK', Waiting' = Waiting, QueueStands',
         UNCHANGED <<whichLog, alive, record, table, removed, lost, logFaults>>
  PROVE  RecordsInv' /\ AuditStands
<1>1. Ids' = Ids /\ WrittenIds' = WrittenIds /\ Lost' = Lost
  BY DEF Ids, WrittenIds, Lost
<1>2. InOnePlace' /\ InOrder'
  BY <1>1 DEF RecordsInv, InOnePlace, InOrder
<1>3. OneRowEach' /\ OneCauseEach' /\ LinksAlive' /\ LossHasCause'
  BY DEF RecordsInv, OneRowEach, OneCauseEach, LinksAlive, LossHasCause
<1>. QED
  BY <1>2, <1>3 DEF RecordsInv, AuditStands

\* Steps that lose records that wait.
LEMMA Forgotten ==
  ASSUME RecordsInv, RecordsTypeOK', QueueStands', NEW gone \in SUBSET Waiting,
         Waiting' = Waiting \ gone, NEW why \in Causes, Lose(gone, why),
         UNCHANGED <<whichLog, alive, record, table, removed>>, logFaults <= logFaults',
         why \notin {"full"}, why \in {"fault", "death"} => logFaults' > 0,
         why = "poisoned" => alive # Parents
  PROVE  RecordsInv' /\ AuditStands
<1>1. Ids' = Ids /\ WrittenIds' = WrittenIds
  BY DEF Ids, WrittenIds
<1>2. lost' = lost \cup {<<i, why>> : i \in gone}
  BY DEF Lose
<1>3. Lost' = Lost \cup gone
  <2>1. \A i \in gone : <<i, why>> \in lost' /\ <<i, why>>[1] = i
    BY <1>2
  <2>2. gone \subseteq Lost' /\ Lost \subseteq Lost'
    BY <1>2, <2>1 DEF Lost
  <2>3. \A p \in lost' : p[1] \in Lost \cup gone
    BY <1>2 DEF Lost
  <2>. QED
    BY <2>2, <2>3 DEF Lost
<1>4. InOnePlace' /\ InOrder'
  BY <1>1, <1>3 DEF RecordsInv, InOnePlace, InOrder
<1>5. OneRowEach' /\ LinksAlive'
  BY DEF RecordsInv, OneRowEach, LinksAlive
<1>6. OneCauseEach'
  <2>1. \A p \in lost, i \in gone : p[1] # i
    BY DEF RecordsInv, InOnePlace, Lost
  <2>. QED
    BY <1>2, <2>1 DEF RecordsInv, OneCauseEach
<1>7. LossHasCause'
  <2> SUFFICES ASSUME NEW p \in lost'
               PROVE  (CASE p[2] = "full" -> Len(record) > QueueMax
                         [] p[2] = "poisoned" -> alive # Parents
                         [] p[2] \in {"fault", "death"} -> logFaults > 0
                         [] OTHER -> TRUE)'
    BY DEF LossHasCause
  <2>1. logFaults \in Nat /\ logFaults' \in Nat
    BY RecordsAssumption DEF RecordsInv, RecordsTypeOK, RecordsAssumption
  <2>2. CASE p \in lost
    BY <2>1, <2>2 DEF RecordsInv, LossHasCause
  <2>3. CASE p[2] = why
    BY <2>1, <2>3 DEF Causes
  <2>. QED
    BY <1>2, <2>2, <2>3
<1>. QED
  BY <1>4, <1>5, <1>6, <1>7 DEF RecordsInv, AuditStands

\* The batch becomes rows.
LEMMA BatchWritten ==
  ASSUME RecordsInv, RecordsTypeOK', QueueStands', ~Poisoned(Range(hand)),
         table' = table \cup Inserted(Range(hand)), hand' = <<>>, waiting' = waiting,
         UNCHANGED <<whichLog, alive, record, removed, lost, logFaults>>
  PROVE  RecordsInv' /\ AuditStands
<1>1. Ids' = Ids /\ Lost' = Lost
  BY DEF Ids, Lost
<1>2. Waiting' = Waiting \ Range(hand) /\ Waiting' = Range(waiting) /\ Range(hand) \subseteq Waiting
  BY HandApart, RangeOfNone DEF Waiting
<1>3. \A x \in Inserted(Range(hand)) : x.id \in Range(hand) /\ x.links = record[x.id]
      /\ x = [id |-> x.id, links |-> record[x.id]]
  BY DEF Inserted
<1>4. ASSUME NEW i \in Range(hand)
      PROVE  \E x \in Inserted(Range(hand)) : x.id = i
  <2>1. [id |-> i, links |-> record[i]] \in Inserted(Range(hand))
    BY DEF Inserted
  <2>. QED
    BY <2>1
<1>5. WrittenIds' = WrittenIds \cup Range(hand)
  BY <1>3, <1>4 DEF WrittenIds
<1>6. InOnePlace'
  BY <1>1, <1>2, <1>5 DEF RecordsInv, InOnePlace
<1>7. InOrder'
  BY <1>2, <1>5 DEF RecordsInv, InOrder, QueueStands
<1>8. OneRowEach'
  <2>1. \A x \in table : x.id \notin Range(hand)
    BY <1>2 DEF RecordsInv, InOnePlace, WrittenIds
  <2>. QED
    BY <1>3, <2>1 DEF RecordsInv, OneRowEach
<1>9. LinksAlive'
  BY <1>3 DEF RecordsInv, LinksAlive, Poisoned
<1>10. OneCauseEach' /\ LossHasCause'
  BY DEF RecordsInv, OneCauseEach, LossHasCause
<1>. QED
  BY <1>6, <1>7, <1>8, <1>9, <1>10 DEF RecordsInv, AuditStands

LEMMA EnqueueStep ==
  ASSUME RecordsInv, NEW names \in Names, Enqueue(names)
  PROVE  RecordsInv' /\ AuditStands
<1>. DEFINE r == Len(record) + 1
<1>0. /\ Ids = 1..Len(record) /\ Len(record) \in Nat /\ names \in SUBSET Parents
      /\ record \in Seq(SUBSET Parents)
  BY IdsAre DEF RecordsInv, RecordsTypeOK, Names, Parents
<1>1. /\ record' \in Seq(SUBSET Parents) /\ Len(record') = r /\ Ids' = Ids \cup {r} /\ r \notin Ids
      /\ r \in Nat /\ \A i \in Ids : i < r
  BY <1>0 DEF Enqueue, Ids
<1>2. UNCHANGED <<whichLog, alive, hand, task, table, removed, logFaults>>
  BY DEF Enqueue
<1>3. WrittenIds' = WrittenIds /\ OneRowEach' /\ LinksAlive' /\ AuditStands
  BY <1>2 DEF WrittenIds, OneRowEach, LinksAlive, RecordsInv, AuditStands
<1>4. Len(waiting) \in Nat /\ Len(waiting) <= Len(record)
  <2>1. waiting \in Seq(Nat) /\ \A k \in DOMAIN waiting : k <= waiting[k]
    BY DEF RecordsInv, RecordsTypeOK, QueueStands
  <2>2. CASE Len(waiting) = 0
    BY <1>0, <2>2
  <2>3. CASE Len(waiting) # 0
    <3>1. Len(waiting) \in 1..Len(waiting) /\ Len(waiting) \in Nat
      BY <2>1, <2>3, RangeOfSome
    <3>2. waiting[Len(waiting)] \in Ids /\ Len(waiting) <= waiting[Len(waiting)]
      BY <2>1, <3>1, RangeOfSome, HandApart
    <3>. QED
      BY <1>0, <3>1, <3>2
  <2>. QED
    BY <2>1, <2>2, <2>3, RangeOfSome
<1>5. ASSUME NEW why \in {"closed", "full"}, lost' = lost \cup {<<r, why>>}, waiting' = waiting,
             why = "full" => Len(record) >= QueueMax
      PROVE  RecordsInv'
  <2>1. Waiting' = Waiting /\ InOrder' /\ QueueStands'
    BY <1>2, <1>3, <1>5 DEF Waiting, InOrder, QueueStands, RecordsInv
  <2>2. Lost' = Lost \cup {r}
    <3>1. <<r, why>> \in lost' /\ <<r, why>>[1] = r
      BY <1>5
    <3>2. r \in Lost' /\ Lost \subseteq Lost'
      BY <1>5, <3>1 DEF Lost
    <3>3. \A p \in lost' : p[1] \in Lost \cup {r}
      BY <1>5 DEF Lost
    <3>. QED
      BY <3>2, <3>3 DEF Lost
  <2>3. InOnePlace'
    BY <1>1, <1>2, <1>3, <2>1, <2>2 DEF RecordsInv, InOnePlace
  <2>4. OneCauseEach'
    <3>1. \A p \in lost : p[1] # r
      BY <1>1 DEF RecordsInv, InOnePlace, Lost
    <3>. QED
      BY <1>5, <3>1 DEF RecordsInv, OneCauseEach
  <2>5. LossHasCause'
    <3> SUFFICES ASSUME NEW p \in lost'
                 PROVE  (CASE p[2] = "full" -> Len(record) > QueueMax
                           [] p[2] = "poisoned" -> alive # Parents
                           [] p[2] \in {"fault", "death"} -> logFaults > 0
                           [] OTHER -> TRUE)'
      BY DEF LossHasCause
    <3>1. QueueMax \in Nat
      BY RecordsAssumption DEF RecordsAssumption
    <3>2. CASE p \in lost
      BY <1>0, <1>1, <1>2, <3>1, <3>2 DEF RecordsInv, LossHasCause
    <3>3. CASE p[2] = why
      BY <1>0, <1>1, <1>5, <3>1, <3>3
    <3>. QED
      BY <1>5, <3>2, <3>3
  <2>6. RecordsTypeOK'
    BY <1>1, <1>2, <1>5 DEF RecordsInv, RecordsTypeOK, Causes
  <2>. QED
    BY <1>3, <2>1, <2>3, <2>4, <2>5, <2>6 DEF RecordsInv
<1>6. ASSUME task # "down", waiting' = Append(waiting, r), lost' = lost
      PROVE  RecordsInv'
  <2>0. waiting \in Seq(Nat) /\ DOMAIN waiting = 1..Len(waiting) /\ waiting' \in Seq(Nat)
    BY <1>1, <1>6 DEF RecordsInv, RecordsTypeOK
  <2>1. Range(waiting') = Range(waiting) \cup {r}
    BY <1>1, <1>6, <2>0, RangeAppended
  <2>2. Waiting' = Waiting \cup {r} /\ Lost' = Lost
    BY <1>2, <1>6, <2>1 DEF Waiting, Lost
  <2>3. InOnePlace'
    BY <1>1, <1>2, <1>3, <2>2 DEF RecordsInv, InOnePlace
  <2>4. WrittenIds \cup removed \subseteq Ids /\ Waiting \subseteq Ids
    BY DEF RecordsInv, InOnePlace
  <2>5. InOrder'
    BY <1>1, <1>2, <1>3, <2>2, <2>4 DEF RecordsInv, InOrder
  <2>6. QueueStands'
    <3>1. /\ DOMAIN waiting' = 1..(Len(waiting) + 1) /\ waiting'[Len(waiting) + 1] = r
          /\ \A k \in 1..Len(waiting) : waiting'[k] = waiting[k]
      BY <1>6, <2>0
    <3>2. \A k \in 1..Len(waiting) : waiting[k] < r /\ waiting[k] \in Nat
      BY <1>1, <2>0, <2>4, HandApart, RangeOfSome
    <3>6. Len(waiting) \in Nat /\ r \in Nat /\ Len(waiting) + 1 <= r
      BY <1>0, <1>1, <1>4, <2>0
    <3>7. /\ \A j, k \in 1..Len(waiting) : j < k => waiting[j] < waiting[k]
          /\ \A k \in 1..Len(waiting) : k <= waiting[k]
      BY <2>0 DEF RecordsInv, QueueStands
    <3>9. \A k \in 1..(Len(waiting) + 1) : k \in 1..Len(waiting) \/ k = Len(waiting) + 1
      BY <3>6
    <3>8. ASSUME NEW k \in DOMAIN waiting'
          PROVE  \/ k \in 1..Len(waiting) /\ waiting'[k] = waiting[k]
                 \/ k = Len(waiting) + 1 /\ waiting'[k] = r
      <4>1. k \in 1..(Len(waiting) + 1)
        BY <3>1
      <4>2. CASE k \in 1..Len(waiting)
        BY <3>1, <4>2
      <4>3. CASE k = Len(waiting) + 1
        BY <3>1, <4>3
      <4>. QED
        BY <3>9, <4>1, <4>2, <4>3
    <3>3. ASSUME NEW j \in DOMAIN waiting', NEW k \in DOMAIN waiting', j < k
          PROVE  waiting'[j] < waiting'[k]
      <4>1. j \in 1..Len(waiting) /\ waiting'[j] = waiting[j]
        BY <3>1, <3>3, <3>6, <3>8
      <4>2. CASE k \in 1..Len(waiting) /\ waiting'[k] = waiting[k]
        BY <3>3, <3>7, <4>1, <4>2
      <4>3. CASE waiting'[k] = r
        BY <3>2, <4>1, <4>3
      <4>. QED
        BY <3>8, <4>2, <4>3
    <3>4. \A k \in DOMAIN waiting' : k <= waiting'[k]
      BY <3>6, <3>7, <3>8
    <3>5. \A i \in Range(hand'), j \in Range(waiting') : i < j
      BY <1>1, <1>2, <2>1, <2>4, HandApart DEF RecordsInv, QueueStands
    <3>. QED
      BY <1>2, <1>6, <3>3, <3>4, <3>5 DEF RecordsInv, QueueStands
  <2>7. OneCauseEach' /\ LossHasCause'
    <3>1. OneCauseEach'
      BY <1>6 DEF RecordsInv, OneCauseEach
    <3>2. QueueMax \in Nat
      BY RecordsAssumption DEF RecordsAssumption
    <3>3. LossHasCause'
      <4> SUFFICES ASSUME NEW p \in lost
                   PROVE  (CASE p[2] = "full" -> Len(record) > QueueMax
                             [] p[2] = "poisoned" -> alive # Parents
                             [] p[2] \in {"fault", "death"} -> logFaults > 0
                             [] OTHER -> TRUE)'
        BY <1>6 DEF LossHasCause
      <4>. QED
        BY <1>0, <1>1, <1>2, <3>2 DEF RecordsInv, LossHasCause
    <3>. QED
      BY <3>1, <3>3
  <2>8. RecordsTypeOK'
    BY <1>1, <1>2, <1>6, <2>0 DEF RecordsInv, RecordsTypeOK
  <2>. QED
    BY <1>3, <2>3, <2>5, <2>6, <2>7, <2>8 DEF RecordsInv
<1>7. Len(record') = r
  BY <1>1
<1>8. Len(waiting) >= QueueMax => Len(record) >= QueueMax
  BY <1>0, <1>4, RecordsAssumption DEF RecordsAssumption
<1>9. ASSUME NEW why \in {"closed", "full"}, Lose({Len(record')}, why)
      PROVE  lost' = lost \cup {<<r, why>>}
  BY <1>7, <1>9 DEF Lose
<1>. HIDE DEF r
<1>10. \/ lost' = lost \cup {<<r, "closed">>} /\ waiting' = waiting
       \/ lost' = lost \cup {<<r, "full">>} /\ waiting' = waiting /\ Len(record) >= QueueMax
       \/ task # "down" /\ waiting' = Append(waiting, r) /\ lost' = lost
  BY <1>7, <1>8, <1>9 DEF Enqueue
<1>. QED
  BY <1>3, <1>5, <1>6, <1>10

LEMMA TakeStep == ASSUME RecordsInv, Take PROVE RecordsInv' /\ AuditStands
<1>. DEFINE n == IF Len(waiting) < BatchMax THEN Len(waiting) ELSE BatchMax
<1>0. waiting \in Seq(Nat) /\ Len(waiting) \in Nat /\ DOMAIN waiting = 1..Len(waiting) /\ BatchMax \in Nat
  BY RecordsAssumption DEF RecordsInv, RecordsTypeOK, RecordsAssumption
<1>1. /\ n \in 0..Len(waiting) /\ hand = <<>> /\ task \in {"running", "stopping"}
      /\ hand' = SubSeq(waiting, 1, n) /\ waiting' = SubSeq(waiting, n + 1, Len(waiting))
      /\ UNCHANGED <<whichLog, alive, record, task, table, removed, lost, logFaults>>
  BY <1>0 DEF Take
<1>. HIDE DEF n
<1>2. /\ hand' \in Seq(Nat) /\ waiting' \in Seq(Nat) /\ Len(hand') = n /\ Len(waiting') = Len(waiting) - n
      /\ \A k \in 1..n : hand'[k] = waiting[k]
      /\ \A k \in 1..(Len(waiting) - n) : waiting'[k] = waiting[n + k]
      /\ Range(waiting) = Range(hand') \cup Range(waiting')
  BY <1>0, <1>1, RangeSplit
<1>3. Waiting' = Waiting
  BY <1>1, <1>2, RangeOfNone DEF Waiting
<1>4. DOMAIN waiting' = 1..(Len(waiting) - n) /\ DOMAIN hand' = 1..n
  BY <1>2
<1>5. /\ \A j, k \in 1..Len(waiting) : j < k => waiting[j] < waiting[k]
      /\ \A k \in 1..Len(waiting) : k <= waiting[k] /\ waiting[k] \in Nat
  BY <1>0 DEF RecordsInv, QueueStands
<1>6. \A j, k \in DOMAIN waiting' : j < k => waiting'[j] < waiting'[k]
  <2> SUFFICES ASSUME NEW j \in 1..(Len(waiting) - n), NEW k \in 1..(Len(waiting) - n), j < k
               PROVE  waiting'[j] < waiting'[k]
    BY <1>4
  <2>1. n + j \in 1..Len(waiting) /\ n + k \in 1..Len(waiting) /\ n + j < n + k
    BY <1>0, <1>1
  <2>. QED
    BY <1>2, <1>5, <2>1
<1>7. \A k \in DOMAIN waiting' : k <= waiting'[k]
  <2> SUFFICES ASSUME NEW k \in 1..(Len(waiting) - n)
               PROVE  k <= waiting'[k]
    BY <1>4
  <2>1. PICK m \in 1..Len(waiting) : m = n + k /\ k <= m
    BY <1>0, <1>1
  <2>2. waiting'[k] = waiting[m] /\ m <= waiting[m] /\ waiting[m] \in Nat
    BY <1>2, <1>5, <2>1
  <2>. QED
    BY <2>1, <2>2
<1>8. \A i \in Range(hand'), j \in Range(waiting') : i < j
  <2> SUFFICES ASSUME NEW i \in Range(hand'), NEW j \in Range(waiting')
               PROVE  i < j
    OBVIOUS
  <2>1. PICK k \in 1..n : hand'[k] = i
    BY <1>2, RangeOfSome
  <2>2. PICK m \in 1..(Len(waiting) - n) : waiting'[m] = j
    BY <1>2, RangeOfSome
  <2>3. k \in 1..Len(waiting) /\ n + m \in 1..Len(waiting) /\ k < n + m
    BY <1>0, <1>1, <2>1, <2>2
  <2>. QED
    BY <1>2, <1>5, <2>1, <2>2, <2>3
<1>9. QueueStands'
  BY <1>1, <1>6, <1>7, <1>8 DEF QueueStands
<1>10. RecordsTypeOK'
  BY <1>1, <1>2 DEF RecordsInv, RecordsTypeOK
<1>. QED
  BY <1>1, <1>3, <1>9, <1>10, Rearranged

\* Steps of the task that move no record but from the queue to the batch.
LEMMA TaskSteps ==
  ASSUME RecordsInv, Start \/ Stop \/ TaskEnds \/ Drain
  PROVE  RecordsInv' /\ AuditStands
<1>1. CASE Start \/ Stop \/ TaskEnds
  <2>1. /\ UNCHANGED <<whichLog, alive, record, table, removed, lost, logFaults>>
        /\ waiting' = waiting /\ hand' = hand
        /\ task' \in {"running", "stopping", "draining"} /\ (task' = "draining" => hand = <<>>)
    BY <1>1 DEF Start, Stop, TaskEnds, RecordsInv, QueueStands
  <2>2. Waiting' = Waiting
    BY <2>1 DEF Waiting
  <2>3. QueueStands'
    BY <2>1 DEF RecordsInv, QueueStands
  <2>4. RecordsTypeOK'
    BY <2>1 DEF RecordsInv, RecordsTypeOK
  <2>. QED
    BY <2>1, <2>2, <2>3, <2>4, Rearranged
<1>2. CASE Drain
  <2>1. /\ UNCHANGED <<whichLog, alive, record, table, removed, lost, logFaults>>
        /\ waiting' = <<>> /\ hand' = waiting /\ hand = <<>>
        /\ task' \in {"down", "closing"} /\ (task' = "down" => hand' = <<>>)
    BY <1>2 DEF Drain, RecordsInv, QueueStands
  <2>2. Waiting' = Waiting
    BY <2>1, RangeOfNone DEF Waiting
  <2>3. QueueStands'
    BY <2>1, RangeOfNone DEF QueueStands
  <2>4. RecordsTypeOK'
    BY <2>1 DEF RecordsInv, RecordsTypeOK
  <2>. QED
    BY <2>1, <2>2, <2>3, <2>4, Rearranged
<1>. QED
  BY <1>1, <1>2

\* The queue when the batch is put down.
LEMMA HandEmptied ==
  ASSUME RecordsInv, hand' = <<>>, waiting' = waiting, task' = task \/ task' \in {"draining"}, hand # <<>>
  PROVE  QueueStands' /\ Waiting' = Waiting \ Range(hand) /\ Range(hand) \in SUBSET Waiting
<1>1. Waiting' = Range(waiting)
  BY RangeOfNone DEF Waiting
<1>2. Range(hand) \cap Range(waiting) = {}
  BY HandApart
<1>3. QueueStands'
  BY RangeOfNone DEF RecordsInv, QueueStands
<1>. QED
  BY <1>1, <1>2, <1>3 DEF Waiting

\* What is lost and what is written has its type.
LEMMA LossTyped ==
  ASSUME NEW ids \in SUBSET Nat, NEW why \in Causes, Lose(ids, why), RecordsTypeOK
  PROVE  lost' \subseteq Nat \X Causes
<1>1. \A i \in ids : <<i, why>> \in Nat \X Causes
  OBVIOUS
<1>2. {<<i, why>> : i \in ids} \subseteq Nat \X Causes
  BY <1>1
<1>. QED
  BY <1>2 DEF Lose, RecordsTypeOK

LEMMA InsertedTyped ==
  ASSUME NEW ids \in SUBSET Nat, \A i \in ids : record[i] \in SUBSET Parents
  PROVE  Inserted(ids) \subseteq Row
<1>1. \A i \in ids : [id |-> i, links |-> record[i]] \in Row
  BY DEF Row
<1>. QED
  BY <1>1 DEF Inserted

LEMMA FlushStep == ASSUME RecordsInv, Flush PROVE RecordsInv' /\ AuditStands
<1>1. /\ hand # <<>> /\ hand' = <<>> /\ waiting' = waiting /\ task' = task
      /\ UNCHANGED <<whichLog, alive, record, removed>>
  BY DEF Flush, Emptied
<1>2. QueueStands' /\ Waiting' = Waiting \ Range(hand) /\ Range(hand) \in SUBSET Waiting
  BY <1>1, HandEmptied
<1>3. Waiting \subseteq Ids /\ Waiting \subseteq Nat
  BY HandApart
<1>4. \A i \in Range(hand) : record[i] \in SUBSET Parents
  BY <1>2, <1>3, IdsAre DEF RecordsInv
<1>5. logFaults \in Nat
  BY RecordsAssumption DEF RecordsInv, RecordsTypeOK, RecordsAssumption
<1>10. Range(hand) \in SUBSET Nat
  BY <1>2, <1>3
<1>6. \A why \in Causes : Lose(Range(hand), why) => lost' \subseteq Nat \X Causes
  BY <1>10, LossTyped DEF RecordsInv
<1>7. CASE Poisoned(Range(hand)) /\ Lose(Range(hand), "poisoned") /\ UNCHANGED <<table, logFaults>>
  <2>1. alive # Parents
    BY <1>4, <1>7 DEF Poisoned
  <2>2. RecordsTypeOK'
    BY <1>1, <1>6, <1>7 DEF RecordsInv, RecordsTypeOK, Causes
  <2>. QED
    BY <1>1, <1>2, <1>5, <1>7, <2>1, <2>2, Forgotten DEF Causes
<1>8. CASE ~Poisoned(Range(hand)) /\ table' = table \cup Inserted(Range(hand)) /\ UNCHANGED <<lost, logFaults>>
  <2>1. Inserted(Range(hand)) \subseteq Row
    BY <1>4, <1>10, InsertedTyped
  <2>2. RecordsTypeOK'
    BY <1>1, <1>8, <2>1 DEF RecordsInv, RecordsTypeOK
  <2>. QED
    BY <1>1, <1>2, <1>8, <2>2, BatchWritten
<1>9. CASE /\ logFaults < MaxLogFaults /\ logFaults' = logFaults + 1
           /\ Lose(Range(hand), "fault") /\ UNCHANGED table
  <2>1. RecordsTypeOK' /\ logFaults' > 0 /\ logFaults <= logFaults'
    BY <1>1, <1>5, <1>6, <1>9, RecordsAssumption DEF RecordsInv, RecordsTypeOK, Causes, RecordsAssumption
  <2>. QED
    BY <1>1, <1>2, <1>9, <2>1, Forgotten DEF Causes
<1>. QED
  BY <1>7, <1>8, <1>9 DEF Flush

LEMMA CutOffStep == ASSUME RecordsInv, CutOff PROVE RecordsInv' /\ AuditStands
<1>1. /\ hand # <<>> /\ hand' = <<>> /\ waiting' = waiting /\ task' = "draining"
      /\ UNCHANGED <<whichLog, alive, record, removed, logFaults>>
  BY DEF CutOff, Emptied
<1>2. QueueStands' /\ Waiting' = Waiting \ Range(hand) /\ Range(hand) \in SUBSET Waiting
  BY <1>1, HandEmptied
<1>3. Waiting \subseteq Ids /\ Waiting \subseteq Nat
  BY HandApart
<1>4. \A i \in Range(hand) : record[i] \in SUBSET Parents
  BY <1>2, <1>3, IdsAre DEF RecordsInv
<1>5. logFaults \in Nat
  BY RecordsAssumption DEF RecordsInv, RecordsTypeOK, RecordsAssumption
<1>10. Range(hand) \in SUBSET Nat
  BY <1>2, <1>3
<1>6. CASE Lose(Range(hand), "cut") /\ UNCHANGED table
  <2>1. lost' \subseteq Nat \X Causes
    BY <1>6, <1>10, LossTyped DEF RecordsInv, Causes
  <2>2. RecordsTypeOK'
    BY <1>1, <1>6, <2>1 DEF RecordsInv, RecordsTypeOK
  <2>. QED
    BY <1>1, <1>2, <1>5, <1>6, <2>2, Forgotten DEF Causes
<1>7. CASE ~Poisoned(Range(hand)) /\ table' = table \cup Inserted(Range(hand)) /\ UNCHANGED lost
  <2>1. Inserted(Range(hand)) \subseteq Row
    BY <1>4, <1>10, InsertedTyped
  <2>2. RecordsTypeOK'
    BY <1>1, <1>7, <2>1 DEF RecordsInv, RecordsTypeOK
  <2>. QED
    BY <1>1, <1>2, <1>7, <2>2, BatchWritten
<1>. QED
  BY <1>6, <1>7 DEF CutOff

\* The queue goes, with the batch if the process dies.
LEMMA QueueGoes ==
  ASSUME RecordsInv, hand' = <<>>, waiting' = <<>>
  PROVE  QueueStands' /\ Waiting' = Waiting \ Waiting
<1>1. Waiting' = {}
  BY RangeOfNone DEF Waiting
<1>2. QueueStands'
  BY RangeOfNone DEF QueueStands
<1>. QED
  BY <1>1, <1>2

LEMMA EndSteps == ASSUME RecordsInv, Close \/ LogDies PROVE RecordsInv' /\ AuditStands
<1>1. logFaults \in Nat
  BY RecordsAssumption DEF RecordsInv, RecordsTypeOK, RecordsAssumption
<1>2. PICK why \in {"left", "death"} :
        /\ Lose(Waiting, why) /\ hand' = <<>> /\ waiting' = <<>> /\ task' = "down"
        /\ UNCHANGED <<whichLog, alive, record, table, removed>>
        /\ logFaults <= logFaults' /\ logFaults' \in 0..MaxLogFaults
        /\ why = "death" => logFaults' > 0
  <2>1. CASE Close
    <3>1. hand = <<>> /\ Range(waiting) = Waiting
      BY <2>1, RangeOfNone DEF Close, Waiting
    <3>. QED
      BY <1>1, <2>1, <3>1 DEF Close, RecordsInv, RecordsTypeOK
  <2>2. CASE LogDies
    BY <1>1, <2>2, RecordsAssumption DEF LogDies, RecordsInv, RecordsTypeOK, RecordsAssumption, Waiting
  <2>. QED
    BY <2>1, <2>2
<1>3. QueueStands' /\ Waiting' = Waiting \ Waiting
  BY <1>2, QueueGoes
<1>4. lost' \subseteq Nat \X Causes
  BY <1>2, HandApart, LossTyped DEF RecordsInv, Causes
<1>5. RecordsTypeOK'
  BY <1>2, <1>4 DEF RecordsInv, RecordsTypeOK
<1>6. why \in Causes /\ why # "full" /\ why # "fault" /\ why # "poisoned"
  BY DEF Causes
<1>7. why \in {"fault", "death"} => logFaults' > 0
  BY <1>2, <1>6
<1>. QED
  BY <1>2, <1>3, <1>5, <1>6, <1>7, Forgotten

LEMMA ResolveStep == ASSUME RecordsInv, ResolveCollectionIds PROVE RecordsInv' /\ AuditStands
<1>1. PICK i \in Range(hand) : record' = [record EXCEPT ![i] = {"collection"}]
  BY DEF ResolveCollectionIds
<1>2. UNCHANGED <<whichLog, alive, waiting, hand, task, table, removed, lost, logFaults>>
  BY DEF ResolveCollectionIds
<1>3. i \in DOMAIN record
  BY HandApart DEF Ids
<1>4. /\ record' \in Seq(SUBSET Parents) /\ Len(record') = Len(record) /\ DOMAIN record' = DOMAIN record
  BY <1>1, <1>3 DEF RecordsInv, RecordsTypeOK, Parents
<1>5. RecordsTypeOK' /\ Ids' = Ids
  BY <1>2, <1>4 DEF RecordsInv, RecordsTypeOK, Ids
<1>6. InOnePlace' /\ InOrder' /\ QueueStands'
  BY <1>2, <1>5 DEF RecordsInv, InOnePlace, InOrder, QueueStands, Waiting, WrittenIds, Lost
<1>7. OneRowEach' /\ OneCauseEach' /\ LinksAlive' /\ LossHasCause'
  BY <1>2, <1>4 DEF RecordsInv, OneRowEach, OneCauseEach, LinksAlive, LossHasCause
<1>. QED
  BY <1>2, <1>5, <1>6, <1>7 DEF RecordsInv, AuditStands

\* Rows go, or lose links.
LEMMA RowsGo ==
  ASSUME RecordsInv, NEW fall \in SUBSET table, NEW gone \in SUBSET Parents,
         table' = {[x EXCEPT !.links = @ \ gone] : x \in table \ fall},
         removed' = removed \cup {x.id : x \in fall},
         alive' = alive \ gone, fall # {} => whichLog # "audit",
         UNCHANGED <<whichLog, record, waiting, hand, task, lost, logFaults>>
  PROVE  RecordsInv' /\ AuditStands
<1>0. \A x \in table : x \in Row /\ x.id \in Nat /\ x.links \in SUBSET Parents
  BY DEF RecordsInv, RecordsTypeOK, Row
<1>1. \A x \in table : LET y == [x EXCEPT !.links = @ \ gone]
                       IN  y \in Row /\ y.id = x.id /\ y.links = x.links \ gone
  BY <1>0 DEF Row
<1>2. \A y \in table' : \E x \in table \ fall : y = [x EXCEPT !.links = @ \ gone]
                          /\ y \in Row /\ y.id = x.id /\ y.links = x.links \ gone
  BY <1>1
<1>3. \A x \in table \ fall : \E y \in table' : y.id = x.id /\ y.links = x.links \ gone
  BY <1>1
<1>. DEFINE fallen == {x.id : x \in fall}
<1>4. WrittenIds = WrittenIds' \cup fallen /\ WrittenIds' \cap fallen = {}
  <2>1. \A i \in WrittenIds' : \E x \in table \ fall : x.id = i
    BY <1>2 DEF WrittenIds
  <2>2. \A x \in table \ fall : x.id \in WrittenIds'
    BY <1>3 DEF WrittenIds
  <2>3. \A x, y \in table : x.id = y.id => x = y
    BY DEF RecordsInv, OneRowEach
  <2>4. WrittenIds' \cap fallen = {}
    BY <2>1, <2>3
  <2>5. \A x \in table : x \in fall \/ x \in table \ fall
    OBVIOUS
  <2>6. WrittenIds \subseteq WrittenIds' \cup fallen
    <3> SUFFICES ASSUME NEW i \in WrittenIds, i \notin fallen
                 PROVE  i \in WrittenIds'
      OBVIOUS
    <3>1. PICK x \in table : x.id = i
      BY DEF WrittenIds
    <3>. QED
      BY <2>2, <2>5, <3>1
  <2>7. WrittenIds' \subseteq WrittenIds /\ fallen \subseteq WrittenIds
    BY <2>1 DEF WrittenIds
  <2>. QED
    BY <2>4, <2>6, <2>7
<1>5. fallen \subseteq Nat
  BY <1>0
<1>. HIDE DEF fallen
<1>6. removed' = removed \cup fallen
  BY DEF fallen
<1>7. Ids' = Ids /\ Waiting' = Waiting /\ Lost' = Lost
  BY DEF Ids, Waiting, Lost
<1>8. InOnePlace' /\ InOrder'
  BY <1>4, <1>6, <1>7 DEF RecordsInv, InOnePlace, InOrder
<1>9. OneRowEach'
  <2> SUFFICES ASSUME NEW x \in table', NEW y \in table', x.id = y.id
               PROVE  x = y
    BY DEF OneRowEach
  <2>1. PICK a \in table : x = [a EXCEPT !.links = @ \ gone] /\ x.id = a.id
    BY <1>2
  <2>2. PICK b \in table : y = [b EXCEPT !.links = @ \ gone] /\ y.id = b.id
    BY <1>2
  <2>3. a = b
    BY <2>1, <2>2 DEF RecordsInv, OneRowEach
  <2>. QED
    BY <2>1, <2>2, <2>3
<1>10. LinksAlive'
  BY <1>2 DEF RecordsInv, LinksAlive
<1>11. RecordsTypeOK'
  <2>1. table' \subseteq Row
    BY <1>2
  <2>. QED
    BY <1>5, <1>6, <2>1 DEF RecordsInv, RecordsTypeOK
<1>12. OneCauseEach' /\ QueueStands'
  BY DEF RecordsInv, OneCauseEach, QueueStands
<1>13. LossHasCause'
  BY DEF RecordsInv, LossHasCause, RecordsTypeOK
<1>14. AuditStands
  <2> SUFFICES ASSUME whichLog = "audit", NEW x \in table
               PROVE  \E new \in table' : new.id = x.id /\ new.links \subseteq x.links
    BY DEF AuditStands
  <2>1. x \in table \ fall
    OBVIOUS
  <2>. QED
    BY <1>3, <2>1
<1>. QED
  BY <1>8, <1>9, <1>10, <1>11, <1>12, <1>13, <1>14 DEF RecordsInv

LEMMA DeleteParentStep ==
  ASSUME RecordsInv, NEW parent \in Parents, DeleteParent(parent)
  PROVE  RecordsInv' /\ AuditStands
<1>. DEFINE gone == IF parent = "user" THEN {"user", "key"} ELSE {parent}
            fall == {x \in table : whichLog = "query" /\ x.links \cap gone # {}}
<1>1. gone \in SUBSET Parents
  BY DEF Parents
<1>2. fall \in SUBSET table /\ (fall # {} => whichLog # "audit")
  OBVIOUS
<1>3. /\ table' = {[x EXCEPT !.links = @ \ gone] : x \in table \ fall}
      /\ removed' = removed \cup {x.id : x \in fall} /\ alive' = alive \ gone
      /\ UNCHANGED <<whichLog, record, waiting, hand, task, lost, logFaults>>
  BY DEF DeleteParent
<1>. HIDE DEF gone, fall
<1>. QED
  BY <1>1, <1>2, <1>3, RowsGo

LEMMA CleanUpStep == ASSUME RecordsInv, CleanUp PROVE RecordsInv' /\ AuditStands
<1>1. PICK old \in table : /\ whichLog # "audit" /\ table' = table \ {old}
                           /\ removed' = removed \cup {old.id}
                           /\ UNCHANGED <<whichLog, alive, record, waiting, hand, task, lost, logFaults>>
  BY DEF CleanUp
<1>2. \A x \in table : [x EXCEPT !.links = @ \ {}] = x
  BY DEF RecordsInv, RecordsTypeOK, Row
<1>3. table' = {[x EXCEPT !.links = @ \ {}] : x \in table \ {old}}
  BY <1>1, <1>2
<1>4. PICK fall \in SUBSET table : fall = {old}
  OBVIOUS
<1>5. PICK none \in SUBSET Parents : none = {}
  OBVIOUS
<1>6. /\ table' = {[x EXCEPT !.links = @ \ none] : x \in table \ fall}
      /\ removed' = removed \cup {x.id : x \in fall} /\ alive' = alive \ none
  BY <1>1, <1>3, <1>4, <1>5
<1>. QED
  BY <1>1, <1>6, RowsGo

LEMMA RecordsSteps ==
  ASSUME RecordsInv, [RecordsNext]_recordsVars
  PROVE  RecordsInv' /\ AuditStands
<1>1. CASE UNCHANGED recordsVars
  <2>1. RecordsTypeOK' /\ Waiting' = Waiting /\ QueueStands'
    BY <1>1 DEF recordsVars, RecordsInv, RecordsTypeOK, Waiting, QueueStands
  <2>. QED
    BY <1>1, <2>1, Rearranged DEF recordsVars
<1>2. CASE RecordsNext
  BY <1>2, EnqueueStep, TaskSteps, TakeStep, FlushStep, CutOffStep, EndSteps, ResolveStep,
     DeleteParentStep, CleanUpStep DEF RecordsNext
<1>. QED
  BY <1>1, <1>2

LEMMA InitRecords == ASSUME RecordsInit PROVE RecordsInv
<1>1. Waiting = {} /\ WrittenIds = {} /\ Lost = {} /\ Ids = {}
  BY RangeOfNone DEF RecordsInit, Waiting, WrittenIds, Lost, Ids
<1>2. RecordsTypeOK
  BY RecordsAssumption DEF RecordsInit, RecordsTypeOK, RecordsAssumption
<1>3. QueueStands
  BY RangeOfNone DEF RecordsInit, QueueStands
<1>4. InOnePlace /\ InOrder
  BY <1>1 DEF RecordsInit, InOnePlace, InOrder
<1>5. OneRowEach /\ OneCauseEach /\ LinksAlive /\ LossHasCause
  BY DEF RecordsInit, OneRowEach, OneCauseEach, LinksAlive, LossHasCause
<1>. QED
  BY <1>2, <1>3, <1>4, <1>5 DEF RecordsInv

\* As many as its keys.
LEMMA CountedByKey ==
  ASSUME NEW S, NEW K, IsFiniteSet(K), NEW keyOf \in [S -> K],
         \A k \in K : \E x \in S : keyOf[x] = k, \A x, y \in S : keyOf[x] = keyOf[y] => x = y
  PROVE  IsFiniteSet(S) /\ Cardinality(S) = Cardinality(K)
<1>. DEFINE back == [k \in K |-> CHOOSE x \in S : keyOf[x] = k]
<1>1. \A k \in K : back[k] \in S /\ keyOf[back[k]] = k
  OBVIOUS
<1>2. \A x \in S : keyOf[x] \in K /\ back[keyOf[x]] = x
  BY <1>1
<1>3. back \in [K -> S] /\ \A k, l \in K : back[k] = back[l] => k = l
  BY <1>1
<1>. HIDE DEF back
<1>4. back \in Bijection(K, S)
  BY <1>2, <1>3 DEF Bijection, Injection, Surjection, IsInjective
<1>5. ExistsBijection(K, S)
  BY <1>4 DEF ExistsBijection
<1>. QED
  BY <1>5, FS_Bijection

LEMMA PlacesCounted ==
  ASSUME NEW A, NEW B, IsFiniteSet(A), IsFiniteSet(B), A \cap B = {}
  PROVE  IsFiniteSet(A \cup B) /\ Cardinality(A \cup B) = Cardinality(A) + Cardinality(B)
<1>1. Cardinality(A) \in Nat /\ Cardinality(B) \in Nat /\ Cardinality(A \cap B) = 0
  BY FS_EmptySet, FS_CardinalityType
<1>2. /\ IsFiniteSet(A \cup B)
      /\ Cardinality(A \cup B) = Cardinality(A) + Cardinality(B) - Cardinality(A \cap B)
  BY FS_Union
<1>. QED
  BY <1>1, <1>2

LEMMA InvIsAccounted == ASSUME RecordsInv PROVE Accounted
<1>1. /\ Ids = Waiting \cup WrittenIds \cup removed \cup Lost
      /\ Waiting \cap WrittenIds = {} /\ Waiting \cap removed = {} /\ Waiting \cap Lost = {}
      /\ WrittenIds \cap removed = {} /\ WrittenIds \cap Lost = {} /\ removed \cap Lost = {}
  BY DEF RecordsInv, InOnePlace
<1>2. IsFiniteSet(Ids)
  <2>1. Ids = 1..Len(record) /\ Len(record) \in Nat
    BY IdsAre DEF RecordsInv
  <2>. QED
    BY <2>1, FS_Interval
<1>3. /\ IsFiniteSet(Waiting) /\ IsFiniteSet(WrittenIds) /\ IsFiniteSet(removed) /\ IsFiniteSet(Lost)
  BY <1>1, <1>2, FS_Subset
<1>4. Cardinality(table) = Cardinality(WrittenIds)
  <2>. DEFINE id == [x \in table |-> x.id]
  <2>1. id \in [table -> WrittenIds] /\ \A x \in table : id[x] = x.id
    BY DEF WrittenIds
  <2>2. (\A k \in WrittenIds : \E x \in table : id[x] = k) /\ \A x, y \in table : id[x] = id[y] => x = y
    BY <2>1 DEF WrittenIds, RecordsInv, OneRowEach
  <2>. HIDE DEF id
  <2>. QED
    BY <1>3, <2>1, <2>2, CountedByKey
<1>5. Cardinality(lost) = Cardinality(Lost)
  <2>. DEFINE id == [p \in lost |-> p[1]]
  <2>1. id \in [lost -> Lost] /\ \A p \in lost : id[p] = p[1]
    BY DEF Lost
  <2>2. (\A k \in Lost : \E p \in lost : id[p] = k) /\ \A p, q \in lost : id[p] = id[q] => p = q
    BY <2>1 DEF Lost, RecordsInv, OneCauseEach
  <2>. HIDE DEF id
  <2>. QED
    BY <1>3, <2>1, <2>2, CountedByKey
<1>6. Cardinality(Ids) = Cardinality(Waiting) + Cardinality(WrittenIds) + Cardinality(removed) + Cardinality(Lost)
  <2>1. /\ IsFiniteSet(Waiting \cup WrittenIds)
        /\ Cardinality(Waiting \cup WrittenIds) = Cardinality(Waiting) + Cardinality(WrittenIds)
    BY <1>1, <1>3, PlacesCounted
  <2>2. /\ IsFiniteSet((Waiting \cup WrittenIds) \cup removed)
        /\ Cardinality((Waiting \cup WrittenIds) \cup removed)
             = Cardinality(Waiting \cup WrittenIds) + Cardinality(removed)
    <3>1. (Waiting \cup WrittenIds) \cap removed = {}
      BY <1>1
    <3>. QED
      BY <1>3, <2>1, <3>1, PlacesCounted
  <2>3. Cardinality(((Waiting \cup WrittenIds) \cup removed) \cup Lost)
          = Cardinality((Waiting \cup WrittenIds) \cup removed) + Cardinality(Lost)
    <3>1. ((Waiting \cup WrittenIds) \cup removed) \cap Lost = {}
      BY <1>1
    <3>. QED
      BY <1>3, <2>2, <3>1, PlacesCounted
  <2>. QED
    BY <1>1, <2>1, <2>2, <2>3
<1>7. \A x \in table : x.links \subseteq alive
  BY DEF RecordsInv, LinksAlive
<1>. QED
  BY <1>1, <1>4, <1>5, <1>6, <1>7 DEF Accounted

(* However a log is stopped, cut off, drained and restarted, and whatever is deleted  *)
(* meanwhile: each record is a row, waits, was removed or is lost for its cause, once;*)
(* rows come in the order of the requests; and those of the audit log stay.           *)
THEOREM RecordsAreKept == RecordsSpec => RecordsHold
<1>1. RecordsSpec => []RecordsInv
  BY InitRecords, RecordsSteps, PTL DEF RecordsSpec
<1>2. RecordsInv /\ [RecordsNext]_recordsVars => [AuditStands]_recordsVars
  BY RecordsSteps
<1>3. RecordsInv => Accounted /\ LossHasCause /\ InOrder
  BY InvIsAccounted DEF RecordsInv
<1>. QED
  BY <1>1, <1>2, <1>3, PTL DEF RecordsSpec, RecordsHold
==============================================================================

------------------------ MODULE VaultAccounts_proofs ------------------------
(***************************************************************************)
(* Accounts end to end.  The server inside the composition is the server   *)
(* of module SecureVaultServer, so that what is proved of it holds here;   *)
(* a session has the registered identity; and an account can be used,      *)
(* unless a change of its password was cut off: for any number of clients, *)
(* users, passwords, directories and faults.                               *)
(***************************************************************************)
EXTENDS VaultAccounts, SecureVaultServer_proofs, FiniteSetTheorems

-----------------------------------------------------------------------------
(* The first invariant: what every operation knows at its label, and what  *)
(* the thread that serves it is about to answer.                           *)

(* Requests in reply to which the next label of an operation is taken.     *)
StepKnows(c) ==
    /\ cpc[c] = "idle" => conn[c] = NoConn /\ out[c] = NoRequest
    /\ cpc[c] # "idle" => job[c] \in Job
    /\ cpc[c] \in {"rewrap_load", "rewrap_save"} => conn[c] = NoConn /\ out[c] = NoRequest
    /\ cpc[c] = "rewrap_save" => job[c].keys \in Identity
    /\ cpc[c] \in {"salt", "rewrap_load", "rewrap_save"} => job[c].draw \in Draw
    /\ cpc[c] = "salt" => out[c] = Plain("GET_SALT", job[c].user)
    /\ cpc[c] = "challenge" => out[c] = Plain("LOGIN_CHALLENGE_REQ", job[c].user)
    /\ cpc[c] = "response" =>
          /\ out[c].type = "LOGIN_RESPONSE" /\ out[c].username = job[c].user
          /\ out[c].sig.key = auth_key(old_kek(c))
    /\ cpc[c] \in {"signup", "challenge", "response", "salt", "change"} => out[c] \in AccountRequests

(* A client that waits is served by a thread of its own.                   *)
Linked ==
    /\ \A c \in Client : conn[c] # NoConn =>
          out[c] \in AccountRequests /\ req[conn[c]] = out[c] /\ pc[conn[c]] # "idle"
    /\ \A c, d \in Client : conn[c] # NoConn /\ conn[d] = conn[c] => d = c

ThreadKnows(t) ==
    /\ pc[t] # "idle" => req[t] \in AccountRequests
    /\ pc[t] = "issue_challenge" /\ found[t] # NoRow => found[t].salt \in Draw
    /\ pc[t] = "respond" /\ reply[t].type = "LOGIN_CHALLENGE" =>
          reply[t].salt \in Draw \cup {FakeSalt} /\ reply[t].challenge \in 0 .. MaxChallenge - 1
    /\ pc[t] = "respond" /\ req[t].type = "GET_SALT" /\ reply[t].type = "OK" => reply[t].salt \in Draw

SaltsDrawn == \A u \in User : users[u] # NoRow => users[u].salt \in Draw

Pending == {t \in Thread : InFlight(t, "LOGIN_CHALLENGE_REQ")}
ChallengesLeft == nextChallenge + Cardinality(Pending) <= MaxChallenge

ServerKnows == TInv /\ SaltsDrawn /\ ChallengesLeft /\ \A t \in Thread : ThreadKnows(t)
ClientKnows == ClientTypeOK /\ Linked /\ \A c \in Client : StepKnows(c)
AInv == ServerKnows /\ ClientKnows

-----------------------------------------------------------------------------
(* The second invariant: a salt belongs to the identity that was wrapped   *)
(* under it, wherever the two are seen together.  g maps the draws that    *)
(* are in use as salts to those identities, the others to <<>>.            *)

Unused == <<>>
SaltOf(key) == key[3]

Owns(g, n, keys) == n \in Draw /\ keys \in Identity /\ g[n] = keys
OwnsRow(g, row) == Owns(g, row.salt, row.sig_pub) /\ SaltOf(row.auth_pub) = row.salt

OwnsRequest(g, r) ==
    /\ r.type = "REGISTER" => OwnsRow(g, r.row)
    /\ r.type = "CHANGE_PASSWORD" =>
          /\ SaltOf(r.new_auth_pub) = r.new_salt
          /\ \E keys \in Identity : Owns(g, SaltOf(r.sig.key), keys) /\ Owns(g, r.new_salt, keys)

OwnsThread(g, t) ==
    /\ pc[t] # "idle" => OwnsRequest(g, req[t])
    /\ pc[t] \in {"consume_nonce", "update_auth"} =>
          /\ UserExists(req[t].username)
          /\ Owns(g, req[t].new_salt, users[req[t].username].sig_pub)
    /\ pc[t] = "consume_challenge" /\ found[t] # NoRow =>
          /\ UserExists(req[t].username)
          /\ OwnsRow(g, found[t]) /\ found[t].sig_pub = users[req[t].username].sig_pub
    /\ pc[t] = "respond" /\ req[t].type = "LOGIN_RESPONSE" /\ reply[t].type = "OK" =>
          /\ UserExists(req[t].username)
          /\ Owns(g, SaltOf(req[t].sig.key), users[req[t].username].sig_pub)

Changing == {"salt", "rewrap_load", "rewrap_save"}

OwnsClient(g, c) ==
    /\ out[c] # NoRequest => OwnsRequest(g, out[c])
    /\ cpc[c] \in Changing => job[c].draw < draws /\ g[job[c].draw] = Unused
    /\ cpc[c] = "rewrap_save" => Owns(g, job[c].salt, job[c].keys)

OwnsFiles(g) ==
    \A d \in Dir, u \in User : keystore[d][u] # NoFile =>
        Owns(g, keystore[d][u].kek.salt, keystore[d][u].keys)

FreshDraws(g) ==
    /\ \A n \in Draw : n >= draws => g[n] = Unused
    /\ \A c, d \in Client :
          cpc[c] \in Changing /\ cpc[d] \in Changing /\ job[c].draw = job[d].draw => c = d

OwnsServer(g) ==
    /\ \A u \in User : users[u] # NoRow => OwnsRow(g, users[u])
    /\ \A t \in Thread : OwnsThread(g, t)

OwnsClients(g) == OwnsFiles(g) /\ FreshDraws(g) /\ \A c \in Client : OwnsClient(g, c)

Owners == [Draw -> Identity \cup {Unused}]
SaltsOwned == \E g \in Owners : OwnsServer(g) /\ OwnsClients(g)

-----------------------------------------------------------------------------
(* What requests are made of.                                              *)
LEMMA RequestParts ==
    ASSUME NEW r \in AccountRequests
    PROVE  /\ r \in Requests /\ r # NoRequest
           /\ r.type \in {"REGISTER", "LOGIN_CHALLENGE_REQ", "GET_SALT", "LOGIN_RESPONSE",
                          "CHANGE_PASSWORD"}
           /\ r.username \in User
           /\ r.type = "REGISTER" =>
                 r.row.salt \in Draw /\ r.row.sig_pub \in Identity /\ SaltOf(r.row.auth_pub) = r.row.salt
           /\ r.type = "CHANGE_PASSWORD" =>
                 r.new_salt \in Draw /\ SaltOf(r.new_auth_pub) = r.new_salt
<1>1. r \in Requests /\ r # NoRequest
  BY AccountRequestsAssumption, RequestsAssumption, NoRequestAssumption
<1>2. CASE \E u \in User, p \in Password, n \in Draw : r = REGISTER(u, p, n)
  <2>1. PICK u \in User, p \in Password, n \in Draw : r = REGISTER(u, p, n)
    BY <1>2
  <2>2. identity(n) \in Identity
    BY DEF Identity
  <2> QED
    BY <1>1, <2>1, <2>2 DEF REGISTER, AccountRow, auth_key, SaltOf
<1>3. CASE \E type \in {"LOGIN_CHALLENGE_REQ", "GET_SALT"}, u \in User : r = Plain(type, u)
  BY <1>1, <1>3 DEF Plain
<1>4. CASE \E u \in User, k \in Kek, c \in 0 .. MaxChallenge - 1 : r = LOGIN_RESPONSE(u, k, c)
  BY <1>1, <1>4 DEF LOGIN_RESPONSE
<1>5. CASE \E u \in User, k \in Kek, p \in Password, n \in Draw : r = CHANGE_PASSWORD(u, k, p, n)
  BY <1>1, <1>5 DEF CHANGE_PASSWORD, auth_key, SaltOf
<1> QED
  BY <1>2, <1>3, <1>4, <1>5 DEF AccountRequests

-----------------------------------------------------------------------------
(* What a step of a handler comes to, when it serves one of these requests.*)
EndsConnection(t) ==
    pc[t] = "respond" /\ pc'[t] = "idle" /\ UNCHANGED <<users, nextChallenge>>

Refuses(t) ==
    pc'[t] = "respond" /\ reply'[t] = ERROR /\ UNCHANGED <<users, nextChallenge>>

Registers(t) ==
    /\ req[t].type = "REGISTER" /\ ~UserExists(req[t].username)
    /\ users' = [users EXCEPT ![req[t].username] = req[t].row]
    /\ pc'[t] = "respond" /\ reply'[t] = OK /\ nextChallenge' = nextChallenge

LooksUp(t) ==
    /\ req[t].type = "LOGIN_CHALLENGE_REQ" /\ pc'[t] = "issue_challenge"
    /\ found'[t] = users[req[t].username] /\ UNCHANGED <<users, nextChallenge>>

Issues(t) ==
    /\ pc[t] = "issue_challenge" /\ req[t].type = "LOGIN_CHALLENGE_REQ" /\ pc'[t] = "respond"
    /\ reply'[t] = [type |-> "LOGIN_CHALLENGE",
                    salt |-> IF found[t] = NoRow THEN FakeSalt ELSE found[t].salt,
                    challenge |-> nextChallenge]
    /\ nextChallenge' = nextChallenge + 1 /\ users' = users

ReadsRow(t) ==
    /\ req[t].type = "LOGIN_RESPONSE" /\ pc'[t] = "consume_challenge"
    /\ found'[t] = users[req[t].username] /\ UNCHANGED <<users, nextChallenge>>

LogsIn(t) ==
    /\ pc[t] = "consume_challenge" /\ req[t].type = "LOGIN_RESPONSE"
    /\ found[t] # NoRow /\ req[t].sig.key = found[t].auth_pub
    /\ pc'[t] = "respond" /\ reply'[t] = OK /\ UNCHANGED <<users, nextChallenge>>

TellsSalt(t) ==
    /\ req[t].type = "GET_SALT" /\ UserExists(req[t].username) /\ pc'[t] = "respond"
    /\ reply'[t] = [type |-> "OK", salt |-> users[req[t].username].salt]
    /\ UNCHANGED <<users, nextChallenge>>

Authenticates(t) ==
    /\ req[t].type = "CHANGE_PASSWORD" /\ UserExists(req[t].username)
    /\ req[t].sig.key = users[req[t].username].auth_pub
    /\ pc'[t] = "consume_nonce" /\ UNCHANGED <<users, nextChallenge>>

SpendsNonce(t) ==
    /\ pc[t] = "consume_nonce" /\ req[t].type = "CHANGE_PASSWORD"
    /\ pc'[t] = "update_auth" /\ UNCHANGED <<users, nextChallenge>>

ChangesPassword(t) ==
    /\ pc[t] = "update_auth" /\ req[t].type = "CHANGE_PASSWORD" /\ UserExists(req[t].username)
    /\ users' = [users EXCEPT ![req[t].username] =
                    [@ EXCEPT !.salt = req[t].new_salt, !.auth_pub = req[t].new_auth_pub]]
    /\ pc'[t] = "respond" /\ reply'[t] = OK /\ nextChallenge' = nextChallenge

Kept4(u) == pc'[u] = pc[u] /\ req'[u] = req[u] /\ found'[u] = found[u] /\ reply'[u] = reply[u]

Effect(t) ==
    /\ pc[t] # "idle"
    /\ \A u \in Thread \ {t} : Kept4(u)
    /\ \/ EndsConnection(t)
       \/ /\ pc[t] # "respond" /\ req'[t] = req[t]
          /\ \/ Refuses(t) \/ Registers(t) \/ LooksUp(t) \/ Issues(t) \/ ReadsRow(t) \/ LogsIn(t)
             \/ TellsSalt(t) \/ Authenticates(t) \/ SpendsNonce(t) \/ ChangesPassword(t)

LEMMA HandlerEffect ==
    ASSUME TInv, NEW t \in Thread, pc[t] # "idle" => req[t] \in AccountRequests, HandlerStep(t)
    PROVE  Effect(t)
<1>1. /\ pc[t] # "idle" /\ HandlerTypes(t)
      /\ pc \in [Thread -> Labels] /\ req \in [Thread -> Requests \cup {NoRequest}]
      /\ DOMAIN found = Thread /\ DOMAIN reply = Thread
  BY DEF TInv, ThreadInv, ThreadTypeOK, HandlerTypes, HandlerStep, Refuse, DbError, Respond, register,
         login_challenge, login_challenge_issue, login, login_verify, get_salt,
         get_user_pubkey, authenticate, check_nonce, upload, share_recipient,
         share_document, share, get_doc, get_doc_share, list_docs, list_docs_shared,
         change_password, Routed, At, DbCalls
<1>2. req[t].type \in {"REGISTER", "LOGIN_CHALLENGE_REQ", "GET_SALT", "LOGIN_RESPONSE",
                       "CHANGE_PASSWORD"}
  BY <1>1, RequestParts
<1>3. \A u \in Thread \ {t} : Kept4(u)
  BY <1>1 DEF Kept4, HandlerStep, Refuse, DbError, Respond, register,
         login_challenge, login_challenge_issue, login, login_verify, get_salt,
         get_user_pubkey, authenticate, check_nonce, upload, share_recipient,
         share_document, share, get_doc, get_doc_share, list_docs, list_docs_shared,
         change_password, Goto, Remember, Serve, Answer, Return
<1> USE <1>1, <1>2 DEF dbVars, sessionVars, At, Routed, Answer, Serve, Return, Goto, Remember
<1>4. CASE Respond(t)
  BY <1>3, <1>4 DEF Effect, EndsConnection, Respond
<1>5. CASE Refuse(t) \/ DbError(t)
  BY <1>3, <1>5 DEF Effect, Refuses, Refuse, DbError, DbCalls
<1>6. CASE register(t)
  BY <1>3, <1>6 DEF Effect, Refuses, Registers, register, create_user
<1>7. CASE login_challenge(t)
  BY <1>3, <1>7 DEF Effect, LooksUp, login_challenge
<1>8. CASE login_challenge_issue(t)
  BY <1>3, <1>8 DEF Effect, Issues, login_challenge_issue, issue_challenge, HandlerTypes, ServesType
<1>9. CASE login(t)
  BY <1>3, <1>9 DEF Effect, ReadsRow, login
<1>10. CASE login_verify(t)
  BY <1>3, <1>10 DEF Effect, Refuses, LogsIn, login_verify, consume_challenge, verify_request_signature,
                     HandlerTypes, ServesType
<1>11. CASE get_salt(t)
  BY <1>3, <1>11 DEF Effect, Refuses, TellsSalt, get_salt
<1>12. CASE authenticate(t)
  BY <1>3, <1>12 DEF Effect, Refuses, Authenticates, authenticate, SignedByCaller, CheckedKey,
                     verify_request_signature, NonceTypes
<1>13. CASE check_nonce(t)
  BY <1>3, <1>13 DEF Effect, Refuses, SpendsNonce, check_nonce, consume_nonce, FirstCall,
                     HandlerTypes, ServesType, NonceTypes
<1>14. CASE change_password(t)
  BY <1>3, <1>14 DEF Effect, ChangesPassword, change_password, update_user_auth, HandlerTypes, ServesType
<1>15. CASE get_user_pubkey(t) \/ list_docs(t)
  BY <1>15 DEF get_user_pubkey, list_docs
<1>16. CASE \/ upload(t) \/ share_recipient(t) \/ share_document(t) \/ share(t)
            \/ get_doc(t) \/ get_doc_share(t) \/ list_docs_shared(t)
  BY <1>16 DEF upload, share_recipient, share_document, share, get_doc, get_doc_share,
               list_docs_shared, HandlerTypes, ServesType
<1> QED
  BY <1>4, <1>5, <1>6, <1>7, <1>8, <1>9, <1>10, <1>11, <1>12, <1>13, <1>14, <1>15, <1>16
     DEF HandlerStep

-----------------------------------------------------------------------------
(* The server keeps ServerKnows.                                           *)

LEMMA PendingFinite == IsFiniteSet(Pending) /\ Cardinality(Pending) \in Nat
<1>1. Pending \subseteq Thread
  BY DEF Pending
<1> QED
  BY <1>1, AccountsAssumption, FS_Subset, FS_CardinalityType

LEMMA EffectServerKnows ==
    ASSUME ServerKnows, NEW t \in Thread, Effect(t), TInv'
    PROVE  ServerKnows'
<1>1. /\ req[t] \in AccountRequests /\ req[t].username \in User
      /\ req[t].type = "CHANGE_PASSWORD" => req[t].new_salt \in Draw
      /\ req[t].type = "REGISTER" => req[t].row.salt \in Draw
      /\ users \in [User -> UserRecord \cup {NoRow}] /\ nextChallenge \in Nat
  BY RequestParts DEF ServerKnows, ThreadKnows, Effect, TInv, DBTypeOK, SessionTypeOK
<1>2. \A u \in Thread \ {t} : ThreadKnows(u)'
  BY DEF ServerKnows, Effect, Kept4, ThreadKnows
<1> DEFINE row == users[req[t].username]
<1>3. row # NoRow => row.salt \in Draw
  BY <1>1 DEF ServerKnows, SaltsDrawn
<1>4. SaltsDrawn'
  <2>1. CASE users' = users
    BY <2>1 DEF ServerKnows, SaltsDrawn
  <2>2. CASE Registers(t)
    BY <1>1, <2>2 DEF Registers, ServerKnows, SaltsDrawn
  <2>3. CASE ChangesPassword(t)
    <3>1. row \in UserRecord
      BY <1>1, <2>3 DEF ChangesPassword, UserExists
    <3> QED
      BY <1>1, <2>3, <3>1 DEF ChangesPassword, ServerKnows, SaltsDrawn, UserRecord
  <2> QED
    BY <2>1, <2>2, <2>3 DEF Effect, EndsConnection, Refuses, LooksUp, Issues, ReadsRow, LogsIn,
       TellsSalt, Authenticates, SpendsNonce
<1>5. ChallengesLeft'
  <2>1. CASE nextChallenge' = nextChallenge
    <3>1. Pending' \subseteq Pending
      BY DEF Pending, InFlight, Effect, Kept4, EndsConnection
    <3>2. Cardinality(Pending') <= Cardinality(Pending) /\ Cardinality(Pending') \in Nat
      BY <3>1, PendingFinite, FS_Subset, FS_CardinalityType
    <3> QED
      BY <1>1, <2>1, <3>2, PendingFinite, BoundsAssumption DEF ServerKnows, ChallengesLeft
  <2>2. CASE Issues(t)
    <3>1. t \in Pending /\ Pending' \subseteq Pending \ {t}
      BY <2>2 DEF Pending, InFlight, Effect, Kept4, Issues
    <3>2. IsFiniteSet(Pending \ {t}) /\ Cardinality(Pending \ {t}) = Cardinality(Pending) - 1
      BY <3>1, PendingFinite, FS_RemoveElement
    <3>3. Cardinality(Pending') <= Cardinality(Pending) - 1 /\ Cardinality(Pending') \in Nat
      BY <3>1, <3>2, FS_Subset, FS_CardinalityType
    <3> QED
      BY <1>1, <2>2, <3>3, PendingFinite, BoundsAssumption DEF ServerKnows, ChallengesLeft, Issues
  <2> QED
    BY <2>1, <2>2 DEF Effect, EndsConnection, Refuses, Registers, LooksUp, ReadsRow, LogsIn,
       TellsSalt, Authenticates, SpendsNonce, ChangesPassword
<1>6. ThreadKnows(t)'
  <2>1. CASE EndsConnection(t)
    BY <2>1 DEF EndsConnection, ThreadKnows
  <2> SUFFICES ASSUME req'[t] = req[t], ~EndsConnection(t)
               PROVE  ThreadKnows(t)'
    BY <2>1 DEF Effect
  <2>2. CASE Refuses(t) \/ Registers(t) \/ LogsIn(t) \/ ChangesPassword(t)
    BY <1>1, <2>2 DEF Refuses, Registers, LogsIn, ChangesPassword, ThreadKnows, ERROR, OK
  <2>3. CASE LooksUp(t)
    BY <1>1, <1>3, <2>3 DEF LooksUp, ThreadKnows
  <2>4. CASE Issues(t)
    <3>1. nextChallenge \in 0 .. MaxChallenge - 1
      <4>1. t \in Pending
        BY <2>4 DEF Pending, InFlight, Effect, Issues
      <4>2. Cardinality(Pending) >= 1
        BY <4>1, PendingFinite, FS_EmptySet
      <4> QED
        BY <1>1, <4>2, PendingFinite, BoundsAssumption DEF ServerKnows, ChallengesLeft
    <3> QED
      BY <1>1, <2>4, <3>1 DEF Issues, ThreadKnows, ServerKnows
  <2>5. CASE TellsSalt(t)
    BY <1>1, <1>3, <2>5 DEF TellsSalt, ThreadKnows, UserExists
  <2>6. CASE ReadsRow(t) \/ Authenticates(t) \/ SpendsNonce(t)
    BY <1>1, <2>6 DEF ReadsRow, Authenticates, SpendsNonce, ThreadKnows
  <2> QED
    BY <2>2, <2>3, <2>4, <2>5, <2>6 DEF Effect
<1> QED
  BY <1>2, <1>4, <1>5, <1>6 DEF ServerKnows

LEMMA HandlerServerKnows ==
    ASSUME ServerKnows, NEW t \in Thread, HandlerStep(t)
    PROVE  ServerKnows' /\ Effect(t)
<1>1. TInv'
  BY HandlerStepTypes DEF ServerKnows
<1>2. Effect(t)
  BY HandlerEffect DEF ServerKnows, ThreadKnows
<1> QED
  BY <1>1, <1>2, EffectServerKnows

LEMMA DeliverServerKnows ==
    ASSUME ServerKnows, NEW t \in Thread, NEW r \in AccountRequests, Deliver(t, r)
    PROVE  /\ ServerKnows' /\ pc[t] = "idle" /\ pc'[t] = "dispatch" /\ req'[t] = r
           /\ \A u \in Thread \ {t} : Kept4(u)
           /\ UNCHANGED <<users, nextChallenge>>
<1>1. r \in Requests
  BY RequestParts
<1>2. TInv /\ TInv'
  BY <1>1, NextTypes DEF ServerKnows, Next
<1>3. /\ pc[t] = "idle" /\ pc'[t] = "dispatch" /\ req'[t] = r
      /\ \A u \in Thread \ {t} : Kept4(u)
      /\ UNCHANGED <<users, nextChallenge>>
  BY <1>2 DEF TInv, ThreadInv, ThreadTypeOK, Deliver, Accept, At, Kept4, dbVars, sessionVars
<1>4. \A u \in Thread : ThreadKnows(u)'
  BY <1>3 DEF ServerKnows, ThreadKnows, Kept4
<1>5. SaltsDrawn'
  BY <1>3 DEF ServerKnows, SaltsDrawn
<1>6. ChallengesLeft'
  <2>1. CASE r.type = "LOGIN_CHALLENGE_REQ"
    <3>1. nextChallenge + Cardinality(Pending) < MaxChallenge
      BY <2>1 DEF Deliver, Sendable, Pending
    <3>2. Pending' \subseteq Pending \cup {t}
      BY <1>3 DEF Pending, InFlight, Kept4
    <3>3. IsFiniteSet(Pending \cup {t}) /\ Cardinality(Pending \cup {t}) <= Cardinality(Pending) + 1
      <4>1. /\ IsFiniteSet(Pending \cup {t})
            /\ Cardinality(Pending \cup {t}) =
                  IF t \in Pending THEN Cardinality(Pending) ELSE Cardinality(Pending) + 1
        BY PendingFinite, FS_AddElement
      <4> QED
        BY <4>1, PendingFinite
    <3>4. Cardinality(Pending') <= Cardinality(Pending) + 1 /\ Cardinality(Pending') \in Nat
      BY <3>2, <3>3, PendingFinite, FS_Subset, FS_CardinalityType
    <3> QED
      BY <1>2, <1>3, <3>1, <3>4, PendingFinite, BoundsAssumption
         DEF ChallengesLeft, TInv, SessionTypeOK
  <2>2. CASE r.type # "LOGIN_CHALLENGE_REQ"
    <3>1. Pending' = Pending
      BY <1>3, <2>2 DEF Pending, InFlight, Kept4
    <3> QED
      BY <1>3, <3>1 DEF ServerKnows, ChallengesLeft
  <2> QED
    BY <2>1, <2>2
<1> QED
  BY <1>2, <1>3, <1>4, <1>5, <1>6 DEF ServerKnows

LEMMA RestartServerKnows ==
    ASSUME ServerKnows, Restart
    PROVE  ServerKnows' /\ \A t \in Thread : pc'[t] = "idle"
<1>1. TInv /\ TInv'
  BY NextTypes DEF ServerKnows, Next
<1>2. (\A t \in Thread : pc'[t] = "idle") /\ UNCHANGED <<users, nextChallenge>>
  BY DEF Restart, reopen
<1>3. (\A t \in Thread : ThreadKnows(t)') /\ SaltsDrawn'
  BY <1>2 DEF ServerKnows, ThreadKnows, SaltsDrawn
<1>4. ChallengesLeft'
  <2>1. Pending' = {}
    BY <1>2 DEF Pending, InFlight
  <2> QED
    BY <1>1, <1>2, <2>1, PendingFinite, FS_EmptySet, BoundsAssumption
       DEF ServerKnows, ChallengesLeft, TInv, SessionTypeOK
<1> QED
  BY <1>1, <1>2, <1>3, <1>4 DEF ServerKnows

LEMMA StopServerKnows ==
    ASSUME ServerKnows, stop \/ StopListening \/ stop_db
    PROVE  ServerKnows' /\ UNCHANGED <<users, nextChallenge, threadVars>>
<1>1. TInv'
  BY NextTypes DEF ServerKnows, Next
<1>2. UNCHANGED <<users, nextChallenge, threadVars>>
  BY DEF stop, StopListening, stop_db, close, dbVars, sessionVars
<1>3. (\A t \in Thread : ThreadKnows(t)') /\ SaltsDrawn'
  BY <1>2 DEF ServerKnows, ThreadKnows, SaltsDrawn, threadVars
<1>4. Pending' = Pending
  BY <1>2 DEF Pending, InFlight, threadVars
<1> QED
  BY <1>1, <1>2, <1>3, <1>4 DEF ServerKnows, ChallengesLeft

LEMMA IdleServerKnows == ASSUME ServerKnows, UNCHANGED vars PROVE ServerKnows'
<1>1. TInv'
  BY NextTypes DEF ServerKnows
<1>2. UNCHANGED <<users, nextChallenge, pc, req, found, reply>>
  BY DEF vars, dbVars, sessionVars, threadVars
<1>3. (\A t \in Thread : ThreadKnows(t)') /\ SaltsDrawn'
  BY <1>2 DEF ServerKnows, ThreadKnows, SaltsDrawn
<1>4. Pending' = Pending
  BY <1>2 DEF Pending, InFlight
<1> QED
  BY <1>1, <1>2, <1>3, <1>4 DEF ServerKnows, ChallengesLeft

-----------------------------------------------------------------------------
(* The clients keep ClientKnows.                                           *)

LEMMA RequestsMade ==
    /\ \A u \in User, p \in Password, n \in Draw : REGISTER(u, p, n) \in AccountRequests
    /\ \A u \in User : /\ Plain("LOGIN_CHALLENGE_REQ", u) \in AccountRequests
                       /\ Plain("GET_SALT", u) \in AccountRequests
    /\ \A u \in User, k \in Kek, n \in 0 .. MaxChallenge - 1 :
          LOGIN_RESPONSE(u, k, n) \in AccountRequests
    /\ \A u \in User, k \in Kek, p \in Password, n \in Draw :
          CHANGE_PASSWORD(u, k, p, n) \in AccountRequests
  BY DEF AccountRequests

(* An operation goes on: the other clients and their threads do not notice.*)
LEMMA CallKeeps ==
    ASSUME ClientKnows, NEW c \in Client, NEW label \in CpcLabels, NEW j \in Job \cup {NoJob},
           NEW r \in AccountRequests \cup {NoRequest}, Call(c, label, j, r),
           \A d \in Client \ {c} : conn[d] # NoConn =>
               pc'[conn[d]] # "idle" /\ req'[conn[d]] = req[conn[d]]
    PROVE  /\ cpc' \in [Client -> CpcLabels] /\ job' \in [Client -> Job \cup {NoJob}]
           /\ out' \in [Client -> AccountRequests \cup {NoRequest}]
           /\ conn' \in [Client -> Thread \cup {NoConn}]
           /\ cpc'[c] = label /\ job'[c] = j /\ out'[c] = r /\ conn'[c] = NoConn
           /\ \A d \in Client \ {c} : /\ cpc'[d] = cpc[d] /\ job'[d] = job[d]
                                      /\ out'[d] = out[d] /\ conn'[d] = conn[d]
           /\ Linked' /\ \A d \in Client \ {c} : StepKnows(d)'
<1>1. /\ cpc \in [Client -> CpcLabels] /\ job \in [Client -> Job \cup {NoJob}]
      /\ out \in [Client -> AccountRequests \cup {NoRequest}]
      /\ conn \in [Client -> Thread \cup {NoConn}]
  BY DEF ClientKnows, ClientTypeOK
<1>2. /\ cpc' \in [Client -> CpcLabels] /\ job' \in [Client -> Job \cup {NoJob}]
      /\ out' \in [Client -> AccountRequests \cup {NoRequest}]
      /\ conn' \in [Client -> Thread \cup {NoConn}]
      /\ cpc'[c] = label /\ job'[c] = j /\ out'[c] = r /\ conn'[c] = NoConn
      /\ \A d \in Client \ {c} : /\ cpc'[d] = cpc[d] /\ job'[d] = job[d]
                                 /\ out'[d] = out[d] /\ conn'[d] = conn[d]
  BY <1>1 DEF Call
<1>3. Linked'
  BY <1>2 DEF ClientKnows, Linked
<1>4. \A d \in Client \ {c} : StepKnows(d)'
  BY <1>2 DEF ClientKnows, StepKnows, old_kek
<1> QED
  BY <1>2, <1>3, <1>4

LEMMA FinishKeeps ==
    ASSUME ClientKnows, NEW c \in Client, Finish(c),
           keystore' = keystore, session' \in [Client -> Session \cup {NoSession}], draws' = draws,
           unsettled' \subseteq User,
           \A d \in Client \ {c} : conn[d] # NoConn =>
               pc'[conn[d]] # "idle" /\ req'[conn[d]] = req[conn[d]]
    PROVE  ClientKnows'
<1>1. Call(c, "idle", NoJob, NoRequest) /\ "idle" \in CpcLabels
  BY DEF Finish, Local, CpcLabels
<1>2. /\ cpc' \in [Client -> CpcLabels] /\ job' \in [Client -> Job \cup {NoJob}]
      /\ out' \in [Client -> AccountRequests \cup {NoRequest}]
      /\ conn' \in [Client -> Thread \cup {NoConn}]
      /\ cpc'[c] = "idle" /\ out'[c] = NoRequest /\ conn'[c] = NoConn
      /\ Linked' /\ \A d \in Client \ {c} : StepKnows(d)'
  BY <1>1, CallKeeps
<1>3. StepKnows(c)'
  BY <1>2 DEF StepKnows
<1>4. ClientTypeOK'
  BY <1>2 DEF ClientKnows, ClientTypeOK, Keys!KeystoreTypeOK
<1> QED
  BY <1>2, <1>3, <1>4 DEF ClientKnows

LEMMA SaveTypes ==
    ASSUME Keys!KeystoreTypeOK, NEW d \in Dir, NEW u \in User, NEW keys \in Identity,
           NEW kek \in Kek, Keys!save_keys(d, u, keys, kek)
    PROVE  Keys!KeystoreTypeOK'
  BY DEF Keys!KeystoreTypeOK, Keys!save_keys, Keys!File

(* The server does not move.                                               *)
LEMMA ThreadsStay ==
    ASSUME ClientKnows, UNCHANGED vars, NEW c \in Client
    PROVE  \A d \in Client \ {c} : conn[d] # NoConn =>
               pc'[conn[d]] # "idle" /\ req'[conn[d]] = req[conn[d]]
  BY DEF vars, threadVars, ClientKnows, Linked

LEMMA BeginKeeps ==
    ASSUME ClientKnows, NEW c \in Client, Begin(c)
    PROVE  ClientKnows'
<1>1. storage_dir[c] \in Dir /\ MaxDraws \in Nat
  BY AccountsAssumption
<1>2. ClientTypeOK
  BY DEF ClientKnows
<1>3. ASSUME NEW u \in User, NEW p \in Password, signup(c, u, p)
      PROVE  ClientKnows'
  <2>1. draws \in Draw /\ draws + 1 \in 0 .. MaxDraws /\ draws \in 0 .. MaxDraws
    BY <1>1, <1>2, <1>3 DEF signup, Draw, ClientTypeOK
  <2>2. NewJob(u, p, p, draws) \in Job
    BY <2>1 DEF NewJob, Job
  <2>3. REGISTER(u, p, draws) \in AccountRequests /\ "signup" \in CpcLabels
    BY <2>1, RequestsMade DEF CpcLabels
  <2>4. Call(c, "signup", NewJob(u, p, p, draws), REGISTER(u, p, draws))
    BY <1>3 DEF signup
  <2>5. /\ cpc' \in [Client -> CpcLabels] /\ job' \in [Client -> Job \cup {NoJob}]
        /\ out' \in [Client -> AccountRequests \cup {NoRequest}]
        /\ conn' \in [Client -> Thread \cup {NoConn}]
        /\ cpc'[c] = "signup" /\ job'[c] \in Job /\ out'[c] \in AccountRequests /\ conn'[c] = NoConn
        /\ Linked' /\ \A d \in Client \ {c} : StepKnows(d)'
    BY <1>3, <2>2, <2>3, <2>4, ThreadsStay, CallKeeps DEF signup
  <2>6. Keys!KeystoreTypeOK'
    <3>1. identity(draws) \in Identity /\ [password |-> p, salt |-> draws] \in Kek
      BY <2>1 DEF Identity, Kek
    <3> QED
      BY <1>1, <1>2, <1>3, <3>1, SaveTypes DEF signup, dir, ClientTypeOK
  <2>7. StepKnows(c)'
    BY <2>5 DEF StepKnows
  <2>8. session' = session /\ draws' \in 0 .. MaxDraws /\ unsettled' = unsettled
    BY <1>3, <2>1 DEF signup
  <2> QED
    BY <1>2, <2>5, <2>6, <2>7, <2>8 DEF ClientKnows, ClientTypeOK
<1>4. ASSUME NEW u \in User, NEW p \in Password, login_op(c, u, p)
      PROVE  ClientKnows'
  <2>1. NewJob(u, p, p, 0) \in Job
    BY <1>1 DEF NewJob, Job
  <2>2. Plain("LOGIN_CHALLENGE_REQ", u) \in AccountRequests /\ "challenge" \in CpcLabels
    BY RequestsMade DEF CpcLabels
  <2>3. Call(c, "challenge", NewJob(u, p, p, 0), Plain("LOGIN_CHALLENGE_REQ", u))
    BY <1>4 DEF login_op
  <2>4. /\ cpc' \in [Client -> CpcLabels] /\ job' \in [Client -> Job \cup {NoJob}]
        /\ out' \in [Client -> AccountRequests \cup {NoRequest}]
        /\ conn' \in [Client -> Thread \cup {NoConn}]
        /\ cpc'[c] = "challenge" /\ job'[c] = NewJob(u, p, p, 0)
        /\ out'[c] = Plain("LOGIN_CHALLENGE_REQ", u) /\ conn'[c] = NoConn
        /\ Linked' /\ \A d \in Client \ {c} : StepKnows(d)'
    BY <1>4, <2>1, <2>2, <2>3, ThreadsStay, CallKeeps DEF login_op
  <2>5. StepKnows(c)'
    BY <2>1, <2>2, <2>4 DEF StepKnows, NewJob
  <2>6. UNCHANGED <<keystore, session, draws, unsettled>>
    BY <1>4 DEF login_op
  <2> QED
    BY <1>2, <2>4, <2>5, <2>6 DEF ClientKnows, ClientTypeOK, Keys!KeystoreTypeOK
<1>5. ASSUME NEW p \in Password, NEW q \in Password, change_password_op(c, p, q)
      PROVE  ClientKnows'
  <2> DEFINE u == session[c].user
  <2>1. draws \in Draw /\ draws + 1 \in 0 .. MaxDraws /\ draws \in 0 .. MaxDraws
    BY <1>1, <1>2, <1>5 DEF change_password_op, Draw, ClientTypeOK
  <2>2. u \in User
    BY <1>2, <1>5 DEF change_password_op, ClientTypeOK, Session
  <2>3. NewJob(u, p, q, draws) \in Job
    BY <2>1, <2>2 DEF NewJob, Job
  <2>4. Plain("GET_SALT", u) \in AccountRequests /\ "salt" \in CpcLabels
    BY <2>2, RequestsMade DEF CpcLabels
  <2>5. Call(c, "salt", NewJob(u, p, q, draws), Plain("GET_SALT", u))
    BY <1>5 DEF change_password_op
  <2> HIDE DEF u
  <2>6. /\ cpc' \in [Client -> CpcLabels] /\ job' \in [Client -> Job \cup {NoJob}]
        /\ out' \in [Client -> AccountRequests \cup {NoRequest}]
        /\ conn' \in [Client -> Thread \cup {NoConn}]
        /\ cpc'[c] = "salt" /\ job'[c] = NewJob(u, p, q, draws)
        /\ out'[c] = Plain("GET_SALT", u) /\ conn'[c] = NoConn
        /\ Linked' /\ \A d \in Client \ {c} : StepKnows(d)'
    BY <1>5, <2>3, <2>4, <2>5, ThreadsStay, CallKeeps DEF change_password_op
  <2>7. StepKnows(c)'
    BY <2>1, <2>3, <2>4, <2>6 DEF StepKnows, NewJob
  <2>8. keystore' = keystore /\ session' = session /\ draws' \in 0 .. MaxDraws /\ unsettled' = unsettled
    BY <1>5, <2>1 DEF change_password_op
  <2> QED
    BY <1>2, <2>6, <2>7, <2>8 DEF ClientKnows, ClientTypeOK, Keys!KeystoreTypeOK
<1>6. CASE logout(c)
  <2>1. UNCHANGED <<vars, keystore, cpc, job, out, conn, draws, unsettled>>
    BY <1>6 DEF logout
  <2>2. session' \in [Client -> Session \cup {NoSession}]
    BY <1>2, <1>6 DEF logout, ClientTypeOK
  <2>3. Linked' /\ \A d \in Client : StepKnows(d)'
    BY <2>1 DEF ClientKnows, Linked, StepKnows, old_kek, vars, threadVars
  <2> QED
    BY <1>2, <2>1, <2>2, <2>3 DEF ClientKnows, ClientTypeOK, Keys!KeystoreTypeOK
<1> QED
  BY <1>3, <1>4, <1>5, <1>6 DEF Begin

LEMMA SendKeeps ==
    ASSUME ServerKnows, ClientKnows, NEW c \in Client, NEW t \in Thread, Send(c, t)
    PROVE  ServerKnows' /\ ClientKnows' /\ out[c] \in AccountRequests
<1>1. /\ out[c] \in AccountRequests /\ conn[c] = NoConn /\ Deliver(t, out[c])
      /\ conn' = [conn EXCEPT ![c] = t]
      /\ UNCHANGED <<keystore, session, cpc, job, out, draws, unsettled>>
  BY DEF Send, ClientKnows, ClientTypeOK
<1>2. /\ ServerKnows' /\ pc[t] = "idle" /\ pc'[t] = "dispatch" /\ req'[t] = out[c]
      /\ \A u \in Thread \ {t} : Kept4(u)
  BY <1>1, DeliverServerKnows
<1>3. conn \in [Client -> Thread \cup {NoConn}] /\ NoConn \notin Thread
  BY AccountsAssumption DEF ClientKnows, ClientTypeOK
<1>4. ClientTypeOK'
  BY <1>1, <1>3 DEF ClientKnows, ClientTypeOK, Keys!KeystoreTypeOK
<1>5. Linked'
  <2>1. \A d \in Client : conn[d] # t
    BY <1>2, <1>3 DEF ClientKnows, Linked
  <2>2. ASSUME NEW d \in Client, conn'[d] # NoConn
        PROVE  out'[d] \in AccountRequests /\ req'[conn'[d]] = out'[d] /\ pc'[conn'[d]] # "idle"
    BY <1>1, <1>2, <1>3, <2>1, <2>2 DEF ClientKnows, Linked, Kept4
  <2>3. \A d, e \in Client : conn'[d] # NoConn /\ conn'[e] = conn'[d] => e = d
    BY <1>1, <1>3, <2>1 DEF ClientKnows, Linked
  <2> QED
    BY <2>2, <2>3 DEF Linked
<1>6. \A d \in Client : StepKnows(d)'
  <2>1. out[c] # NoRequest
    BY DEF Send
  <2> QED
    BY <1>1, <1>3, <2>1 DEF ClientKnows, StepKnows, old_kek
<1> QED
  BY <1>1, <1>2, <1>4, <1>5, <1>6 DEF ClientKnows

(* The thread that answers c is no other client's.                         *)
LEMMA ReceiveFacts ==
    ASSUME ServerKnows, ClientKnows, NEW c \in Client, Receive(c)
    PROVE  /\ conn[c] \in Thread /\ pc[conn[c]] = "respond" /\ req[conn[c]] = out[c]
           /\ out[c] \in AccountRequests /\ ThreadKnows(conn[c])
           /\ ServerKnows' /\ Effect(conn[c]) /\ EndsConnection(conn[c])
           /\ \A d \in Client \ {c} : conn[d] # NoConn =>
                 pc'[conn[d]] # "idle" /\ req'[conn[d]] = req[conn[d]]
<1>1. conn[c] \in Thread /\ pc[conn[c]] = "respond" /\ HandlerStep(conn[c])
  BY DEF Receive, At, ClientKnows, ClientTypeOK
<1>2. ServerKnows' /\ Effect(conn[c])
  BY <1>1, HandlerServerKnows
<1>3. req[conn[c]] = out[c] /\ out[c] \in AccountRequests /\ ThreadKnows(conn[c])
  BY <1>1 DEF Receive, ClientKnows, Linked, ServerKnows
<1>4. EndsConnection(conn[c])
  BY <1>1, <1>2 DEF Effect
<1>5. ASSUME NEW d \in Client \ {c}, conn[d] # NoConn
      PROVE  pc'[conn[d]] # "idle" /\ req'[conn[d]] = req[conn[d]]
  <2>1. conn[d] \in Thread \ {conn[c]}
    BY <1>1, <1>5 DEF ClientKnows, ClientTypeOK, Linked
  <2> QED
    BY <1>2, <1>5, <2>1 DEF Effect, Kept4, ClientKnows, Linked
<1> QED
  BY <1>1, <1>2, <1>3, <1>4, <1>5

LEMMA ReceiveKeeps ==
    ASSUME ServerKnows, ClientKnows, NEW c \in Client, Receive(c)
    PROVE  ClientKnows'
<1> DEFINE response == reply[conn[c]]
<1>1. ClientTypeOK /\ StepKnows(c) /\ storage_dir[c] \in Dir
  BY AccountsAssumption DEF ClientKnows
<1>2. /\ req[conn[c]] = out[c] /\ out[c] \in AccountRequests /\ ThreadKnows(conn[c])
      /\ pc[conn[c]] = "respond"
      /\ \A d \in Client \ {c} : conn[d] # NoConn =>
            pc'[conn[d]] # "idle" /\ req'[conn[d]] = req[conn[d]]
  BY ReceiveFacts
<1>3. CASE \/ signup_reply(c, response) \/ change_password_done(c, response)
  BY <1>1, <1>2, <1>3, FinishKeeps DEF signup_reply, change_password_done, ClientTypeOK
<1>4. CASE login_done(c, response)
  <2>1. job[c].user \in User
    BY <1>1, <1>4 DEF login_done, StepKnows, Job
  <2>2. ASSUME Keys!Opens(dir(c), job[c].user, old_kek(c))
        PROVE  [user |-> job[c].user, keys |-> Keys!load_keys(dir(c), job[c].user)] \in Session
    BY <1>1, <2>1, <2>2 DEF Keys!Opens, Keys!load_keys, Keys!KeystoreTypeOK, Keys!File, ClientTypeOK,
       Session, dir
  <2>3. session' \in [Client -> Session \cup {NoSession}]
    BY <1>1, <1>4, <2>2 DEF login_done, ClientTypeOK
  <2> QED
    BY <1>1, <1>2, <1>4, <2>3, FinishKeeps DEF login_done, ClientTypeOK
<1>5. CASE login_reply(c, response)
  <2>1. CASE response.type # "LOGIN_CHALLENGE"
    BY <1>1, <1>2, <1>5, <2>1, FinishKeeps DEF login_reply, ClientTypeOK
  <2>2. CASE response.type = "LOGIN_CHALLENGE"
    <3> DEFINE j == [job[c] EXCEPT !.salt = response.salt]
               kek == [password |-> job[c].password, salt |-> response.salt]
               r == LOGIN_RESPONSE(job[c].user, kek, response.challenge)
    <3>1. /\ response.salt \in Draw \cup {FakeSalt} /\ response.challenge \in 0 .. MaxChallenge - 1
      BY <1>2, <2>2 DEF ThreadKnows
    <3>2. job[c] \in Job
      BY <1>1, <1>5 DEF login_reply, StepKnows
    <3>3. /\ j \in Job /\ j.user = job[c].user /\ j.password = job[c].password
          /\ j.salt = response.salt /\ kek \in Kek
      BY <3>1, <3>2 DEF Job, Kek
    <3>4. r \in AccountRequests /\ "response" \in CpcLabels
      BY <3>1, <3>2, <3>3, RequestsMade DEF Job, CpcLabels
    <3>5. r.type = "LOGIN_RESPONSE" /\ r.username = job[c].user /\ r.sig.key = auth_key(kek)
      BY DEF LOGIN_RESPONSE
    <3>6. Call(c, "response", j, r)
      BY <1>5, <2>2 DEF login_reply
    <3> HIDE DEF j, r
    <3>7. /\ cpc' \in [Client -> CpcLabels] /\ job' \in [Client -> Job \cup {NoJob}]
          /\ out' \in [Client -> AccountRequests \cup {NoRequest}]
          /\ conn' \in [Client -> Thread \cup {NoConn}]
          /\ cpc'[c] = "response" /\ job'[c] = j /\ out'[c] = r /\ conn'[c] = NoConn
          /\ Linked' /\ \A d \in Client \ {c} : StepKnows(d)'
      BY <1>2, <3>3, <3>4, <3>6, CallKeeps
    <3>8. StepKnows(c)'
      BY <3>3, <3>4, <3>5, <3>7 DEF StepKnows, old_kek
    <3>9. UNCHANGED <<keystore, session, draws, unsettled>>
      BY <1>5 DEF login_reply
    <3> QED
      BY <1>1, <3>7, <3>8, <3>9 DEF ClientKnows, ClientTypeOK, Keys!KeystoreTypeOK
  <2> QED
    BY <2>1, <2>2
<1>6. CASE change_password_salt(c, response)
  <2>1. CASE Finish(c)
    BY <1>1, <1>2, <1>6, <2>1, FinishKeeps DEF change_password_salt, ClientTypeOK
  <2>2. CASE /\ response.type = "OK"
             /\ Local(c, "rewrap_load", [job[c] EXCEPT !.salt = response.salt])
    <3> DEFINE j == [job[c] EXCEPT !.salt = response.salt]
    <3>1. job[c] \in Job /\ job[c].draw \in Draw /\ out[c] = Plain("GET_SALT", job[c].user)
      BY <1>1, <1>6 DEF change_password_salt, StepKnows
    <3>2. response.salt \in Draw
      BY <1>2, <2>2, <3>1 DEF ThreadKnows, Plain
    <3>3. j \in Job /\ j.draw = job[c].draw
      BY <3>1, <3>2 DEF Job
    <3>4. Call(c, "rewrap_load", j, NoRequest) /\ "rewrap_load" \in CpcLabels
      BY <2>2 DEF Local, CpcLabels
    <3> HIDE DEF j
    <3>5. /\ cpc' \in [Client -> CpcLabels] /\ job' \in [Client -> Job \cup {NoJob}]
          /\ out' \in [Client -> AccountRequests \cup {NoRequest}]
          /\ conn' \in [Client -> Thread \cup {NoConn}]
          /\ cpc'[c] = "rewrap_load" /\ job'[c] = j /\ out'[c] = NoRequest /\ conn'[c] = NoConn
          /\ Linked' /\ \A d \in Client \ {c} : StepKnows(d)'
      BY <1>2, <3>3, <3>4, CallKeeps
    <3>6. StepKnows(c)'
      BY <3>1, <3>3, <3>5 DEF StepKnows
    <3>7. UNCHANGED <<keystore, session, draws, unsettled>>
      BY <1>6 DEF change_password_salt
    <3> QED
      BY <1>1, <3>5, <3>6, <3>7 DEF ClientKnows, ClientTypeOK, Keys!KeystoreTypeOK
  <2> QED
    BY <1>6, <2>1, <2>2 DEF change_password_salt
<1> QED
  BY <1>3, <1>4, <1>5, <1>6 DEF Receive

LEMMA RewrapKeeps ==
    ASSUME ClientKnows, NEW c \in Client, rewrap_load(c) \/ rewrap_save(c)
    PROVE  ClientKnows'
<1>1. /\ ClientTypeOK /\ StepKnows(c) /\ storage_dir[c] \in Dir /\ UNCHANGED vars
      /\ job[c] \in Job /\ job[c].draw \in Draw
  BY AccountsAssumption DEF ClientKnows, StepKnows, rewrap_load, rewrap_save
<1>2. \A d \in Client \ {c} : conn[d] # NoConn =>
         pc'[conn[d]] # "idle" /\ req'[conn[d]] = req[conn[d]]
  BY <1>1, ThreadsStay
<1>3. CASE rewrap_load(c)
  <2>1. CASE Finish(c)
    BY <1>1, <1>2, <1>3, <2>1, FinishKeeps DEF rewrap_load, ClientTypeOK
  <2>2. CASE /\ Keys!Opens(dir(c), job[c].user, old_kek(c))
             /\ Local(c, "rewrap_save", [job[c] EXCEPT !.keys = Keys!load_keys(dir(c), job[c].user)])
    <3> DEFINE j == [job[c] EXCEPT !.keys = Keys!load_keys(dir(c), job[c].user)]
    <3>1. Keys!load_keys(dir(c), job[c].user) \in Identity
      BY <1>1, <2>2 DEF Keys!Opens, Keys!load_keys, Keys!KeystoreTypeOK, Keys!File, ClientTypeOK,
         Job, dir
    <3>2. j \in Job /\ j.draw = job[c].draw /\ j.keys \in Identity
      BY <1>1, <3>1 DEF Job
    <3>3. Call(c, "rewrap_save", j, NoRequest) /\ "rewrap_save" \in CpcLabels
      BY <2>2 DEF Local, CpcLabels
    <3> HIDE DEF j
    <3>4. /\ cpc' \in [Client -> CpcLabels] /\ job' \in [Client -> Job \cup {NoJob}]
          /\ out' \in [Client -> AccountRequests \cup {NoRequest}]
          /\ conn' \in [Client -> Thread \cup {NoConn}]
          /\ cpc'[c] = "rewrap_save" /\ job'[c] = j /\ out'[c] = NoRequest /\ conn'[c] = NoConn
          /\ Linked' /\ \A d \in Client \ {c} : StepKnows(d)'
      BY <1>2, <3>2, <3>3, CallKeeps
    <3>5. StepKnows(c)'
      BY <1>1, <3>2, <3>4 DEF StepKnows
    <3>6. UNCHANGED <<keystore, session, draws, unsettled>>
      BY <1>3 DEF rewrap_load
    <3> QED
      BY <1>1, <3>4, <3>5, <3>6 DEF ClientKnows, ClientTypeOK, Keys!KeystoreTypeOK
  <2> QED
    BY <1>3, <2>1, <2>2 DEF rewrap_load
<1>4. CASE rewrap_save(c)
  <2> DEFINE r == CHANGE_PASSWORD(job[c].user, old_kek(c), job[c].new_password, job[c].draw)
  <2>1. /\ job[c].keys \in Identity /\ new_kek(c) \in Kek /\ old_kek(c) \in Kek
    BY <1>1, <1>4 DEF rewrap_save, StepKnows, Job, Kek, new_kek, old_kek
  <2>2. r \in AccountRequests /\ "change" \in CpcLabels
    BY <1>1, <2>1, RequestsMade DEF Job, CpcLabels
  <2>3. Call(c, "change", job[c], r)
    BY <1>4 DEF rewrap_save
  <2> HIDE DEF r
  <2>4. /\ cpc' \in [Client -> CpcLabels] /\ job' \in [Client -> Job \cup {NoJob}]
        /\ out' \in [Client -> AccountRequests \cup {NoRequest}]
        /\ conn' \in [Client -> Thread \cup {NoConn}]
        /\ cpc'[c] = "change" /\ job'[c] = job[c] /\ out'[c] = r /\ conn'[c] = NoConn
        /\ Linked' /\ \A d \in Client \ {c} : StepKnows(d)'
    BY <1>1, <1>2, <2>2, <2>3, CallKeeps
  <2>5. StepKnows(c)'
    BY <1>1, <2>2, <2>4 DEF StepKnows
  <2>6. Keys!KeystoreTypeOK' /\ job[c].user \in User
    BY <1>1, <1>4, <2>1, SaveTypes DEF rewrap_save, ClientTypeOK, dir, Job
  <2>7. session' = session /\ draws' = draws /\ unsettled' \subseteq User
    BY <1>1, <1>4, <2>6 DEF rewrap_save, ClientTypeOK
  <2> QED
    BY <1>1, <2>4, <2>5, <2>6, <2>7 DEF ClientKnows, ClientTypeOK
<1> QED
  BY <1>3, <1>4

LEMMA FailureKeeps ==
    ASSUME ClientKnows, NEW c \in Client, Refused(c) \/ Lose(c) \/ Die(c)
    PROVE  ClientKnows'
<1>1. /\ Finish(c) /\ UNCHANGED <<vars, keystore, draws, unsettled>> /\ ClientTypeOK
      /\ session' = session \/ session' = [session EXCEPT ![c] = NoSession]
  BY DEF Refused, Lose, Die, ClientKnows
<1>2. session' \in [Client -> Session \cup {NoSession}]
  BY <1>1 DEF ClientTypeOK
<1> QED
  BY <1>1, <1>2, ThreadsStay, FinishKeeps DEF ClientTypeOK

LEMMA ServerStepKeeps ==
    ASSUME ServerKnows, ClientKnows, NEW t \in Thread, ServerStep(t)
    PROVE  ServerKnows' /\ Effect(t) /\ ClientKnows'
<1>1. ServerKnows' /\ Effect(t)
  BY HandlerServerKnows DEF ServerStep
<1>2. ClientTypeOK'
  BY DEF ServerStep, clientVars, ClientKnows, ClientTypeOK, Keys!KeystoreTypeOK
<1>3. Linked'
  <2> SUFFICES ASSUME NEW c \in Client, conn[c] # NoConn
               PROVE  req'[conn[c]] = out[c] /\ pc'[conn[c]] # "idle"
    BY DEF ServerStep, clientVars, ClientKnows, Linked
  <2>1. conn[c] \in Thread /\ req[conn[c]] = out[c] /\ pc[conn[c]] # "idle"
    BY DEF ClientKnows, ClientTypeOK, Linked
  <2>2. CASE conn[c] # t
    BY <1>1, <2>1, <2>2 DEF Effect, Kept4
  <2>3. CASE conn[c] = t
    <3>1. pc[t] # "respond"
      BY <2>3 DEF ServerStep, At
    <3> QED
      BY <1>1, <2>1, <2>3, <3>1 DEF Effect, EndsConnection, Refuses, Registers, LooksUp, Issues,
         ReadsRow, LogsIn, TellsSalt, Authenticates, SpendsNonce, ChangesPassword
  <2> QED
    BY <2>2, <2>3
<1>4. \A c \in Client : StepKnows(c)'
  BY DEF ServerStep, clientVars, ClientKnows, StepKnows, old_kek
<1> QED
  BY <1>1, <1>2, <1>3, <1>4 DEF ClientKnows

LEMMA StopKeeps ==
    ASSUME ServerKnows, ClientKnows, Stop
    PROVE  ServerKnows' /\ ClientKnows' /\ UNCHANGED <<users, nextChallenge, threadVars, clientVars>>
<1>1. ServerKnows' /\ UNCHANGED <<users, nextChallenge, threadVars, clientVars>>
  BY StopServerKnows DEF Stop
<1>2. ClientTypeOK' /\ Linked' /\ \A c \in Client : StepKnows(c)'
  BY <1>1 DEF clientVars, threadVars, ClientKnows, ClientTypeOK, Keys!KeystoreTypeOK, Linked, StepKnows,
     old_kek
<1> QED
  BY <1>1, <1>2 DEF ClientKnows

LEMMA RestartKeeps ==
    ASSUME ServerKnows, ClientKnows, RestartServer
    PROVE  ServerKnows' /\ ClientKnows'
<1>1. ServerKnows'
  BY RestartServerKnows DEF RestartServer
<1>2. /\ conn' = [c \in Client |-> NoConn]
      /\ UNCHANGED <<keystore, session, draws, unsettled>>
  BY DEF RestartServer
<1>3. ASSUME NEW c \in Client
      PROVE  \/ cpc'[c] = "idle" /\ job'[c] = NoJob /\ out'[c] = NoRequest
             \/ cpc'[c] = cpc[c] /\ job'[c] = job[c] /\ out'[c] = out[c]
  BY DEF RestartServer
<1>4. ClientTypeOK'
  BY <1>2 DEF RestartServer, ClientKnows, ClientTypeOK, Keys!KeystoreTypeOK, CpcLabels
<1>5. Linked'
  BY <1>2 DEF Linked
<1>6. \A c \in Client : StepKnows(c)'
  BY <1>2, <1>3 DEF ClientKnows, StepKnows, old_kek
<1> QED
  BY <1>1, <1>4, <1>5, <1>6 DEF ClientKnows

LEMMA InitKnows == AccountsInit => AInv
<1> SUFFICES ASSUME AccountsInit PROVE AInv
  OBVIOUS
<1>1. TInv /\ (\A t \in Thread : pc[t] = "idle") /\ (\A u \in User : users[u] = NoRow) /\ nextChallenge = 0
  BY InitTypes DEF AccountsInit, Init, ServerInit, DBInit, SessionInit
<1>2. Pending = {}
  BY <1>1 DEF Pending, InFlight
<1>3. ChallengesLeft
  BY <1>1, <1>2, FS_EmptySet, BoundsAssumption DEF ChallengesLeft
<1>4. ServerKnows
  BY <1>1, <1>3 DEF ServerKnows, SaltsDrawn, ThreadKnows
<1>5. ClientTypeOK
  BY AccountsAssumption DEF AccountsInit, Keys!KeystoreInit, Keys!KeystoreTypeOK, ClientTypeOK, CpcLabels
<1>6. Linked /\ \A c \in Client : StepKnows(c)
  BY DEF AccountsInit, Linked, StepKnows
<1> QED
  BY <1>4, <1>5, <1>6 DEF AInv, ClientKnows

LEMMA NextKnows == AInv /\ [AccountsNext]_accountsVars => AInv'
<1> SUFFICES ASSUME AInv, [AccountsNext]_accountsVars PROVE AInv'
  OBVIOUS
<1>1. ServerKnows /\ ClientKnows
  BY DEF AInv
<1>2. CASE UNCHANGED accountsVars
  <2>1. ServerKnows'
    BY <1>1, <1>2, IdleServerKnows DEF accountsVars
  <2>2. ClientTypeOK' /\ Linked' /\ \A c \in Client : StepKnows(c)'
    BY <1>1, <1>2 DEF accountsVars, clientVars, vars, threadVars, ClientKnows, ClientTypeOK,
       Keys!KeystoreTypeOK, Linked, StepKnows, old_kek
  <2> QED
    BY <2>1, <2>2 DEF AInv, ClientKnows
<1>3. ASSUME NEW c \in Client, Begin(c) PROVE AInv'
  <2>1. UNCHANGED vars
    BY <1>3 DEF Begin, signup, login_op, change_password_op, logout
  <2> QED
    BY <1>1, <1>3, <2>1, BeginKeeps, IdleServerKnows DEF AInv
<1>4. ASSUME NEW c \in Client, NEW t \in Thread, Send(c, t) PROVE AInv'
  BY <1>1, <1>4, SendKeeps DEF AInv
<1>5. ASSUME NEW c \in Client, Receive(c) PROVE AInv'
  BY <1>1, <1>5, ReceiveFacts, ReceiveKeeps DEF AInv
<1>6. ASSUME NEW c \in Client, rewrap_load(c) \/ rewrap_save(c) PROVE AInv'
  BY <1>1, <1>6, RewrapKeeps, IdleServerKnows DEF AInv, rewrap_load, rewrap_save
<1>7. ASSUME NEW c \in Client, Refused(c) \/ Lose(c) \/ Die(c) PROVE AInv'
  BY <1>1, <1>7, FailureKeeps, IdleServerKnows DEF AInv, Refused, Lose, Die
<1>8. ASSUME NEW t \in Thread, ServerStep(t) PROVE AInv'
  BY <1>1, <1>8, ServerStepKeeps DEF AInv
<1>9. CASE Stop \/ RestartServer
  BY <1>1, <1>9, StopKeeps, RestartKeeps DEF AInv
<1> QED
  BY <1>2, <1>3, <1>4, <1>5, <1>6, <1>7, <1>8, <1>9 DEF AccountsNext, ClientStep

(* The clients ask the server of SecureVaultServer for nothing it does not *)
(* expect: every step is a step of that server or leaves it alone.         *)
LEMMA NextInside == AInv /\ [AccountsNext]_accountsVars => [Next]_vars
<1> SUFFICES ASSUME AInv, AccountsNext PROVE [Next]_vars
  BY DEF accountsVars
<1>1. ServerKnows /\ ClientKnows
  BY DEF AInv
<1>2. ASSUME NEW c \in Client, Begin(c) \/ Lose(c) \/ Die(c) PROVE UNCHANGED vars
  BY <1>2 DEF Begin, signup, login_op, change_password_op, logout, Lose, Die
<1>3. ASSUME NEW c \in Client, ClientStep(c) PROVE [Next]_vars
  <2>1. ASSUME NEW t \in Thread, Send(c, t) PROVE Next
    <3>1. out[c] \in Requests /\ Deliver(t, out[c])
      BY <1>1, <2>1, SendKeeps, RequestParts DEF Send
    <3> QED
      BY <3>1 DEF Next
  <2>2. CASE Receive(c)
    BY <1>1, <2>2, ReceiveFacts DEF Receive, Next
  <2>3. CASE Refused(c) \/ rewrap_load(c) \/ rewrap_save(c)
    BY <2>3 DEF Refused, rewrap_load, rewrap_save
  <2> QED
    BY <1>3, <2>1, <2>2, <2>3 DEF ClientStep
<1>4. ASSUME NEW t \in Thread, ServerStep(t) PROVE Next
  BY <1>4 DEF ServerStep, Next
<1>5. CASE Stop \/ RestartServer
  BY <1>5 DEF Stop, RestartServer, Next
<1> QED
  BY <1>2, <1>3, <1>4, <1>5 DEF AccountsNext

(* Types and what each operation and each thread knows at its label, in    *)
(* every state of the composition.                                         *)
THEOREM AccountsInvariant == AccountsSpec => []AInv
  BY InitKnows, NextKnows, PTL DEF AccountsSpec

(* The server inside the composition is the server of SecureVaultServer:   *)
(* what holds of that server with any requests holds of it with the        *)
(* requests signup, login and change_password make.                        *)
THEOREM ServerInside == AccountsSpec => Init /\ [][Next]_vars
<1>1. AccountsInit => Init
  BY DEF AccountsInit
<1> QED
  BY <1>1, AccountsInvariant, NextInside, PTL DEF AccountsSpec

-----------------------------------------------------------------------------
(* A salt keeps its owner.                                                 *)

Extends(g, h) == \A n \in Draw : g[n] # Unused => h[n] = g[n]

LEMMA IdentityUsed == \A keys \in Identity : keys # Unused
  BY DEF Identity, identity, Unused

LEMMA OwnsStable ==
    ASSUME NEW g, NEW h, Extends(g, h)
    PROVE  /\ \A n, keys : Owns(g, n, keys) => Owns(h, n, keys)
           /\ \A row : OwnsRow(g, row) => OwnsRow(h, row)
           /\ \A r : OwnsRequest(g, r) => OwnsRequest(h, r)
           /\ OwnsServer(g) => OwnsServer(h)
           /\ OwnsFiles(g) => OwnsFiles(h)
<1>1. \A n, keys : Owns(g, n, keys) => Owns(h, n, keys)
  BY IdentityUsed DEF Owns, Extends
<1>2. \A row : OwnsRow(g, row) => OwnsRow(h, row)
  BY <1>1 DEF OwnsRow
<1>3. \A r : OwnsRequest(g, r) => OwnsRequest(h, r)
  BY <1>1, <1>2 DEF OwnsRequest
<1>4. OwnsServer(g) => OwnsServer(h)
  BY <1>1, <1>2, <1>3 DEF OwnsServer, OwnsThread
<1>5. OwnsFiles(g) => OwnsFiles(h)
  BY <1>1 DEF OwnsFiles
<1> QED
  BY <1>1, <1>2, <1>3, <1>4, <1>5

-----------------------------------------------------------------------------
(* The server's part.                                                      *)

LEMMA EffectOwns ==
    ASSUME ServerKnows, NEW g, OwnsServer(g), RowsGrow, NEW t \in Thread, Effect(t)
    PROVE  OwnsServer(g)'
<1>1. /\ req[t] \in AccountRequests /\ req[t].username \in User
      /\ OwnsThread(g, t) /\ OwnsRequest(g, req[t])
      /\ users \in [User -> UserRecord \cup {NoRow}]
  BY RequestParts DEF ServerKnows, ThreadKnows, Effect, TInv, DBTypeOK, OwnsServer, OwnsThread
<1>u. PICK u \in User : u = req[t].username
  BY <1>1
<1>2. UserExists(u) => users[u] \in UserRecord /\ OwnsRow(g, users[u])
  BY <1>1 DEF UserExists, OwnsServer
<1>3. UserExists(u) => users'[u] # NoRow /\ users'[u].sig_pub = users[u].sig_pub
  BY DEF RowsGrow
<1>4. ASSUME NEW v \in User, users'[v] # NoRow
      PROVE  OwnsRow(g, users'[v])
  <2>1. CASE users' = users
    BY <1>4, <2>1 DEF OwnsServer
  <2>2. CASE Registers(t)
    BY <1>1, <1>4, <2>2 DEF Registers, OwnsRequest, OwnsServer
  <2>3. CASE ChangesPassword(t)
    <3>1. pc[t] = "update_auth" /\ req[t].type = "CHANGE_PASSWORD" /\ UserExists(u)
      BY <1>u, <2>3 DEF ChangesPassword
    <3>2. Owns(g, req[t].new_salt, users[u].sig_pub) /\ SaltOf(req[t].new_auth_pub) = req[t].new_salt
      BY <1>1, <1>u, <3>1 DEF OwnsThread, OwnsRequest
    <3>3. CASE v = u
      <4>1. /\ users'[u].salt = req[t].new_salt /\ users'[u].auth_pub = req[t].new_auth_pub
            /\ users'[u].sig_pub = users[u].sig_pub
        BY <1>1, <1>2, <1>u, <2>3, <3>1 DEF ChangesPassword, UserRecord
      <4> QED
        BY <3>2, <3>3, <4>1 DEF OwnsRow
    <3>4. CASE v # u
      BY <1>1, <1>4, <1>u, <2>3, <3>4 DEF ChangesPassword, OwnsServer
    <3> QED
      BY <3>3, <3>4
  <2> QED
    BY <2>1, <2>2, <2>3 DEF Effect, EndsConnection, Refuses, LooksUp, Issues, ReadsRow, LogsIn,
       TellsSalt, Authenticates, SpendsNonce
<1>5. ASSUME NEW v \in Thread \ {t}
      PROVE  OwnsThread(g, v)'
  <2>1. Kept4(v) /\ OwnsThread(g, v)
    BY DEF Effect, OwnsServer
  <2>2. CASE pc[v] = "idle"
    BY <2>1, <2>2 DEF Kept4, OwnsThread
  <2>3. CASE pc[v] # "idle"
    <3>1. req[v].username \in User
      BY <2>3, RequestParts DEF ServerKnows, ThreadKnows
    <3>2. UserExists(req[v].username) =>
             UserExists(req[v].username)' /\ users'[req[v].username].sig_pub = users[req[v].username].sig_pub
      BY <2>1, <3>1 DEF RowsGrow, UserExists, Kept4
    <3> QED
      BY <2>1, <3>2 DEF Kept4, OwnsThread
  <2> QED
    BY <2>2, <2>3
<1>6. OwnsThread(g, t)'
  <2>1. CASE EndsConnection(t)
    BY <2>1 DEF EndsConnection, OwnsThread
  <2> SUFFICES ASSUME req'[t] = req[t], ~EndsConnection(t)
               PROVE  OwnsThread(g, t)'
    BY <2>1 DEF Effect
  <2>2. CASE Refuses(t)
    BY <1>1, <2>2 DEF Refuses, OwnsThread, ERROR
  <2>3. CASE Registers(t) \/ LooksUp(t) \/ Issues(t) \/ TellsSalt(t) \/ ChangesPassword(t)
    BY <1>1, <2>3 DEF Registers, LooksUp, Issues, TellsSalt, ChangesPassword, OwnsThread
  <2>4. CASE ReadsRow(t)
    BY <1>1, <1>2, <1>3, <1>u, <2>4 DEF ReadsRow, OwnsThread, UserExists
  <2>5. CASE LogsIn(t)
    <3>1. /\ UserExists(u) /\ OwnsRow(g, found[t]) /\ found[t].sig_pub = users[u].sig_pub
          /\ SaltOf(req[t].sig.key) = found[t].salt
      BY <1>1, <1>u, <2>5 DEF LogsIn, OwnsThread, OwnsRow
    <3>2. Owns(g, SaltOf(req[t].sig.key), users'[u].sig_pub)
      BY <1>3, <3>1 DEF OwnsRow
    <3> QED
      BY <1>1, <1>3, <1>u, <2>5, <3>1, <3>2 DEF LogsIn, OwnsThread, UserExists
  <2>6. CASE Authenticates(t)
    <3>1. UserExists(u) /\ req[t].type = "CHANGE_PASSWORD" /\ SaltOf(req[t].sig.key) = users[u].salt
      BY <1>2, <1>u, <2>6 DEF Authenticates, OwnsRow
    <3>2. PICK keys \in Identity : Owns(g, SaltOf(req[t].sig.key), keys) /\ Owns(g, req[t].new_salt, keys)
      BY <1>1, <3>1 DEF OwnsRequest
    <3>3. keys = users'[u].sig_pub
      BY <1>2, <1>3, <3>1, <3>2 DEF OwnsRow, Owns
    <3> QED
      BY <1>1, <1>3, <1>u, <2>6, <3>1, <3>2, <3>3 DEF Authenticates, OwnsThread, UserExists
  <2>7. CASE SpendsNonce(t)
    BY <1>1, <1>3, <1>u, <2>7 DEF SpendsNonce, OwnsThread, UserExists
  <2> QED
    BY <2>2, <2>3, <2>4, <2>5, <2>6, <2>7 DEF Effect
<1> QED
  BY <1>4, <1>5, <1>6 DEF OwnsServer

LEMMA DeliverOwns ==
    ASSUME ServerKnows, NEW g, OwnsServer(g), NEW t \in Thread, NEW r \in AccountRequests,
           OwnsRequest(g, r), Deliver(t, r)
    PROVE  OwnsServer(g)'
<1>1. /\ pc'[t] = "dispatch" /\ req'[t] = r /\ users' = users
      /\ \A u \in Thread \ {t} : Kept4(u)
  BY DeliverServerKnows
<1>2. OwnsThread(g, t)'
  BY <1>1 DEF OwnsThread
<1>3. \A u \in Thread \ {t} : OwnsThread(g, u)'
  BY <1>1 DEF OwnsServer, OwnsThread, Kept4, UserExists
<1> QED
  BY <1>1, <1>2, <1>3 DEF OwnsServer

LEMMA QuietOwns ==
    ASSUME NEW g, OwnsServer(g), users' = users,
           UNCHANGED threadVars \/ \A t \in Thread : pc'[t] = "idle"
    PROVE  OwnsServer(g)'
<1>1. CASE UNCHANGED threadVars
  BY <1>1 DEF OwnsServer, OwnsThread, threadVars, UserExists
<1>2. CASE \A t \in Thread : pc'[t] = "idle"
  BY <1>2 DEF OwnsServer, OwnsThread
<1> QED
  BY <1>1, <1>2

-----------------------------------------------------------------------------
(* The clients' part: what an operation that goes on has to show, when the *)
(* owners of salts grow from g to h.                                       *)
LEMMA ClientMoves ==
    ASSUME ClientKnows, NEW g, NEW h, OwnsClients(g), Extends(g, h), OwnsFiles(h)',
           NEW c \in Client, NEW label, NEW j, NEW r, Call(c, label, j, r),
           draws' \in Nat, draws <= draws',
           \A n \in Draw : n >= draws' => h[n] = Unused,
           \A d \in Client \ {c} : cpc[d] \in Changing => h[job[d].draw] = Unused,
           label \in Changing =>
               /\ j.draw < draws' /\ h[j.draw] = Unused
               /\ \A d \in Client \ {c} : cpc[d] \in Changing => job[d].draw # j.draw,
           r # NoRequest => OwnsRequest(h, r),
           label = "rewrap_save" => Owns(h, j.salt, j.keys)
    PROVE  OwnsClients(h)'
<1>1. /\ cpc \in [Client -> CpcLabels] /\ job \in [Client -> Job \cup {NoJob}]
      /\ out \in [Client -> AccountRequests \cup {NoRequest}] /\ draws \in Nat
  BY AccountsAssumption DEF ClientKnows, ClientTypeOK
<1>2. /\ cpc'[c] = label /\ job'[c] = j /\ out'[c] = r
      /\ \A d \in Client \ {c} : cpc'[d] = cpc[d] /\ job'[d] = job[d] /\ out'[d] = out[d]
  BY <1>1 DEF Call
<1>3. OwnsClient(h, c)'
  BY <1>2 DEF OwnsClient
<1>4. ASSUME NEW d \in Client \ {c}
      PROVE  OwnsClient(h, d)'
  <2>1. OwnsClient(g, d)
    BY DEF OwnsClients
  <2>2. out[d] # NoRequest => OwnsRequest(h, out[d])
    BY <2>1, OwnsStable DEF OwnsClient
  <2>3. cpc[d] = "rewrap_save" => Owns(h, job[d].salt, job[d].keys)
    BY <2>1, OwnsStable DEF OwnsClient
  <2>4. cpc[d] \in Changing => job[d].draw < draws' /\ h[job[d].draw] = Unused
    <3>1. cpc[d] \in Changing => job[d].draw \in Nat
      BY DEF ClientKnows, StepKnows, Changing, Draw
    <3> QED
      BY <1>1, <2>1, <3>1 DEF OwnsClient
  <2> QED
    BY <1>2, <2>2, <2>3, <2>4 DEF OwnsClient
<1>5. FreshDraws(h)'
  BY <1>2 DEF OwnsClients, FreshDraws
<1> QED
  BY <1>3, <1>4, <1>5 DEF OwnsClients

(* The same when no salt gets a new owner and no file is written.          *)
LEMMA ClientMovesOn ==
    ASSUME ClientKnows, NEW g, OwnsClients(g), UNCHANGED <<keystore, draws>>,
           NEW c \in Client, NEW label, NEW j, NEW r, Call(c, label, j, r),
           label \in Changing => cpc[c] \in Changing /\ j.draw = job[c].draw,
           r # NoRequest => OwnsRequest(g, r),
           label = "rewrap_save" => Owns(g, j.salt, j.keys)
    PROVE  OwnsClients(g)'
<1>1. draws' \in Nat /\ draws <= draws' /\ draws' = draws
  BY AccountsAssumption DEF ClientKnows, ClientTypeOK
<1>2. Extends(g, g) /\ OwnsFiles(g)'
  BY DEF Extends, OwnsClients, OwnsFiles
<1>3. \A n \in Draw : n >= draws' => g[n] = Unused
  BY <1>1 DEF OwnsClients, FreshDraws
<1>4. \A d \in Client : cpc[d] \in Changing => job[d].draw < draws /\ g[job[d].draw] = Unused
  BY DEF OwnsClients, OwnsClient
<1>5. \A d \in Client \ {c} : cpc[d] \in Changing /\ cpc[c] \in Changing => job[d].draw # job[c].draw
  BY DEF OwnsClients, FreshDraws
<1> QED
  BY <1>1, <1>2, <1>3, <1>4, <1>5, ClientMoves

LEMMA FinishOwns ==
    ASSUME ClientKnows, NEW g, OwnsClients(g), UNCHANGED <<keystore, draws>>, NEW c \in Client, Finish(c)
    PROVE  OwnsClients(g)'
  BY ClientMovesOn DEF Finish, Local, Changing

(* A file is written whose salt has its owner in h.                        *)
LEMMA SaveOwns ==
    ASSUME ClientKnows, NEW h, OwnsFiles(h), NEW d \in Dir, NEW u \in User, NEW keys, NEW kek,
           Keys!save_keys(d, u, keys, kek), Owns(h, kek.salt, keys)
    PROVE  OwnsFiles(h)'
<1>1. keystore \in [Dir -> [User -> Keys!File \cup {NoFile}]]
  BY DEF ClientKnows, ClientTypeOK, Keys!KeystoreTypeOK
<1>2. /\ keystore'[d][u] = [kek |-> kek, keys |-> keys]
      /\ \A e \in Dir, v \in User : e # d \/ v # u => keystore'[e][v] = keystore[e][v]
  BY <1>1 DEF Keys!save_keys
<1> QED
  BY <1>2 DEF OwnsFiles

-----------------------------------------------------------------------------
(* Every step keeps the owners of the salts, or gives one salt an owner:   *)
(* signup gives the salt it drew its new identity, rewrap_keys gives the   *)
(* salt drawn for the change the identity it has just decrypted.           *)

OwnedNext == \E h \in Owners : OwnsServer(h)' /\ OwnsClients(h)'

LEMMA SignupOwns ==
    ASSUME ServerKnows, ClientKnows, NEW g \in Owners, OwnsServer(g), OwnsClients(g),
           NEW c \in Client, NEW u \in User, NEW p \in Password, signup(c, u, p)
    PROVE  OwnedNext
<1> DEFINE n == draws
<1>1. /\ draws \in Draw /\ draws' = draws + 1 /\ draws \in Nat /\ UNCHANGED vars
      /\ identity(draws) \in Identity /\ dir(c) \in Dir
  BY AccountsAssumption DEF signup, ClientKnows, ClientTypeOK, Draw, Identity, dir
<1>d. PICK k \in Draw : k = draws
  BY <1>1
<1>2. PICK h \in Owners : h = [g EXCEPT ![k] = identity(k)]
  BY <1>1, <1>d DEF Owners
<1>3. h[k] = identity(k) /\ \A m \in Draw : m # k => h[m] = g[m]
  BY <1>2 DEF Owners
<1>4. Extends(g, h)
  BY <1>1, <1>d, <1>3 DEF Extends, OwnsClients, FreshDraws, Draw
<1>5. Owns(h, k, identity(k))
  BY <1>1, <1>d, <1>3 DEF Owns
<1>6. OwnsFiles(h)'
  <2>1. OwnsFiles(h)
    BY <1>4, OwnsStable DEF OwnsClients
  <2>2. Keys!save_keys(dir(c), u, identity(k), [password |-> p, salt |-> k])
    BY <1>d DEF signup
  <2> QED
    BY <1>1, <1>5, <2>1, <2>2, SaveOwns
<1>7. OwnsRequest(h, REGISTER(u, p, k))
  BY <1>5 DEF REGISTER, AccountRow, OwnsRequest, OwnsRow, SaltOf, auth_key
<1>8. Call(c, "signup", NewJob(u, p, p, k), REGISTER(u, p, k))
  BY <1>d DEF signup
<1>9. /\ draws' \in Nat /\ draws <= draws'
      /\ \A m \in Draw : m >= draws' => h[m] = Unused
  BY <1>1, <1>d, <1>3 DEF OwnsClients, FreshDraws, Draw
<1>10. \A d \in Client \ {c} : cpc[d] \in Changing => h[job[d].draw] = Unused
  <2> SUFFICES ASSUME NEW d \in Client \ {c}, cpc[d] \in Changing
               PROVE  h[job[d].draw] = Unused
    OBVIOUS
  <2>1. job[d].draw \in Draw /\ job[d].draw < draws /\ g[job[d].draw] = Unused
    BY DEF ClientKnows, StepKnows, Changing, OwnsClients, OwnsClient
  <2>2. job[d].draw # k
    BY <1>1, <1>d, <2>1 DEF Draw
  <2> QED
    BY <1>3, <2>1, <2>2
<1>11. OwnsClients(h)'
  BY <1>4, <1>6, <1>7, <1>8, <1>9, <1>10, ClientMoves DEF Changing
<1>12. OwnsServer(h)'
  BY <1>1, <1>4, OwnsStable, QuietOwns DEF vars, dbVars
<1> QED
  BY <1>11, <1>12 DEF OwnedNext

LEMMA BeginOwns ==
    ASSUME ServerKnows, ClientKnows, NEW g \in Owners, OwnsServer(g), OwnsClients(g),
           NEW c \in Client, Begin(c)
    PROVE  OwnedNext
<1>1. CASE \E u \in User, p \in Password : signup(c, u, p)
  BY <1>1, SignupOwns
<1>2. ASSUME NEW u \in User, NEW p \in Password, login_op(c, u, p) PROVE OwnedNext
  <2>1. OwnsRequest(g, Plain("LOGIN_CHALLENGE_REQ", u))
    BY DEF OwnsRequest, Plain
  <2>2. OwnsClients(g)'
    BY <1>2, <2>1, ClientMovesOn DEF login_op, Changing
  <2>3. OwnsServer(g)'
    BY <1>2, QuietOwns DEF login_op, vars, dbVars
  <2> QED
    BY <2>2, <2>3 DEF OwnedNext
<1>3. ASSUME NEW p \in Password, NEW q \in Password, change_password_op(c, p, q) PROVE OwnedNext
  <2>1. draws \in Draw /\ draws' = draws + 1 /\ draws \in Nat
    BY <1>3, AccountsAssumption DEF change_password_op, ClientKnows, ClientTypeOK, Draw
  <2>2. OwnsRequest(g, Plain("GET_SALT", session[c].user))
    BY DEF OwnsRequest, Plain
  <2>3. Extends(g, g) /\ OwnsFiles(g)'
    BY <1>3 DEF Extends, OwnsClients, OwnsFiles, change_password_op
  <2>4. g[draws] = Unused /\ \A m \in Draw : m >= draws' => g[m] = Unused
    BY <2>1 DEF OwnsClients, FreshDraws, Draw
  <2>5. \A d \in Client \ {c} : cpc[d] \in Changing =>
            job[d].draw \in Draw /\ g[job[d].draw] = Unused /\ job[d].draw < draws
    BY DEF ClientKnows, StepKnows, Changing, OwnsClients, OwnsClient
  <2>6. \A d \in Client \ {c} : cpc[d] \in Changing => job[d].draw # draws
    BY <2>1, <2>5 DEF Draw
  <2>7. NewJob(session[c].user, p, q, draws).draw = draws
    BY DEF NewJob
  <2>8. OwnsClients(g)'
    BY <1>3, <2>1, <2>2, <2>3, <2>4, <2>5, <2>6, <2>7, ClientMoves DEF change_password_op
  <2>9. OwnsServer(g)'
    BY <1>3, QuietOwns DEF change_password_op, vars, dbVars
  <2> QED
    BY <2>8, <2>9 DEF OwnedNext
<1>4. CASE logout(c)
  <2>1. UNCHANGED <<vars, keystore, cpc, job, out, draws>>
    BY <1>4 DEF logout
  <2>2. OwnsClients(g)'
    BY <2>1 DEF OwnsClients, OwnsFiles, FreshDraws, OwnsClient
  <2>3. OwnsServer(g)'
    BY <2>1, QuietOwns DEF vars, dbVars
  <2> QED
    BY <2>2, <2>3 DEF OwnedNext
<1> QED
  BY <1>1, <1>2, <1>3, <1>4 DEF Begin

LEMMA SendOwns ==
    ASSUME ServerKnows, ClientKnows, NEW g \in Owners, OwnsServer(g), OwnsClients(g),
           NEW c \in Client, NEW t \in Thread, Send(c, t)
    PROVE  OwnedNext
<1>1. /\ out[c] \in AccountRequests /\ OwnsRequest(g, out[c]) /\ Deliver(t, out[c])
      /\ UNCHANGED <<keystore, cpc, job, out, draws>>
  BY SendKeeps DEF Send, OwnsClients, OwnsClient
<1>2. OwnsServer(g)'
  BY <1>1, DeliverOwns
<1>3. OwnsClients(g)'
  BY <1>1 DEF OwnsClients, OwnsFiles, FreshDraws, OwnsClient
<1> QED
  BY <1>2, <1>3 DEF OwnedNext

LEMMA ReceiveOwns ==
    ASSUME ServerKnows, ClientKnows, RowsGrow, NEW g \in Owners, OwnsServer(g), OwnsClients(g),
           NEW c \in Client, Receive(c)
    PROVE  OwnedNext
<1> DEFINE response == reply[conn[c]]
<1>1. OwnsServer(g)'
  BY ReceiveFacts, EffectOwns
<1> SUFFICES OwnsClients(g)'
  BY <1>1 DEF OwnedNext
<1>2. CASE \/ signup_reply(c, response) \/ login_done(c, response) \/ change_password_done(c, response)
  BY <1>2, FinishOwns DEF signup_reply, login_done, change_password_done
<1>3. CASE login_reply(c, response)
  <2>1. CASE Finish(c)
    BY <1>3, <2>1, FinishOwns DEF login_reply
  <2>2. ASSUME NEW j, NEW k, NEW n, Call(c, "response", j, LOGIN_RESPONSE(job[c].user, k, n))
        PROVE  OwnsClients(g)'
    <3>1. OwnsRequest(g, LOGIN_RESPONSE(job[c].user, k, n))
      BY DEF OwnsRequest, LOGIN_RESPONSE
    <3> QED
      BY <1>3, <2>2, <3>1, ClientMovesOn DEF login_reply, Changing
  <2> QED
    BY <1>3, <2>1, <2>2 DEF login_reply
<1>4. CASE change_password_salt(c, response)
  <2>1. CASE Finish(c)
    BY <1>4, <2>1, FinishOwns DEF change_password_salt
  <2>2. CASE Local(c, "rewrap_load", [job[c] EXCEPT !.salt = response.salt])
    <3>1. cpc[c] = "salt" /\ job[c] \in Job
      BY <1>4 DEF change_password_salt, ClientKnows, StepKnows
    <3>2. [job[c] EXCEPT !.salt = response.salt].draw = job[c].draw
      BY <3>1 DEF Job
    <3> QED
      BY <1>4, <2>2, <3>1, <3>2, ClientMovesOn DEF change_password_salt, Local, Changing
  <2> QED
    BY <1>4, <2>1, <2>2 DEF change_password_salt
<1> QED
  BY <1>2, <1>3, <1>4 DEF Receive

LEMMA RewrapOwns ==
    ASSUME ServerKnows, ClientKnows, NEW g \in Owners, OwnsServer(g), OwnsClients(g),
           NEW c \in Client, rewrap_load(c) \/ rewrap_save(c)
    PROVE  OwnedNext
<1>1. /\ UNCHANGED vars /\ dir(c) \in Dir /\ cpc[c] \in Changing
      /\ job[c] \in Job /\ job[c].draw \in Draw /\ job[c].user \in User
  BY AccountsAssumption DEF rewrap_load, rewrap_save, ClientKnows, StepKnows, Changing, Job, dir
<1>2. CASE rewrap_load(c)
  <2> SUFFICES OwnsClients(g)'
    BY <1>1, QuietOwns DEF OwnedNext, vars, dbVars
  <2>1. CASE Finish(c)
    BY <1>2, <2>1, FinishOwns DEF rewrap_load
  <2>2. CASE /\ Keys!Opens(dir(c), job[c].user, old_kek(c))
             /\ Local(c, "rewrap_save", [job[c] EXCEPT !.keys = Keys!load_keys(dir(c), job[c].user)])
    <3> DEFINE j == [job[c] EXCEPT !.keys = Keys!load_keys(dir(c), job[c].user)]
    <3>1. Owns(g, job[c].salt, Keys!load_keys(dir(c), job[c].user))
      BY <1>1, <2>2 DEF Keys!Opens, Keys!load_keys, old_kek, OwnsClients, OwnsFiles
    <3>2. j.draw = job[c].draw /\ j.salt = job[c].salt /\ j.keys = Keys!load_keys(dir(c), job[c].user)
      BY <1>1 DEF Job
    <3>3. Call(c, "rewrap_save", j, NoRequest)
      BY <2>2 DEF Local
    <3> HIDE DEF j
    <3> QED
      BY <1>1, <1>2, <3>1, <3>2, <3>3, ClientMovesOn DEF rewrap_load
  <2> QED
    BY <1>2, <2>1, <2>2 DEF rewrap_load
<1>3. CASE rewrap_save(c)
  <2>1. PICK n \in Draw, keys \in Identity : n = job[c].draw /\ keys = job[c].keys
    BY <1>1, <1>3 DEF rewrap_save, ClientKnows, StepKnows
  <2>2. PICK h \in Owners : h = [g EXCEPT ![n] = keys]
    BY DEF Owners
  <2>3. h[n] = keys /\ \A m \in Draw : m # n => h[m] = g[m]
    BY <2>2 DEF Owners
  <2>4. /\ n < draws /\ draws \in Nat /\ g[n] = Unused /\ Owns(g, job[c].salt, keys)
    BY <1>1, <1>3, <2>1, AccountsAssumption
       DEF rewrap_save, OwnsClients, OwnsClient, ClientKnows, ClientTypeOK
  <2>5. Extends(g, h)
    BY <2>3, <2>4 DEF Extends
  <2>6. Owns(h, n, keys) /\ Owns(h, job[c].salt, keys)
    BY <2>3, <2>4, <2>5, OwnsStable DEF Owns
  <2>7. OwnsFiles(h)'
    <3>1. OwnsFiles(h)
      BY <2>5, OwnsStable DEF OwnsClients
    <3>2. Keys!save_keys(dir(c), job[c].user, keys, new_kek(c)) /\ new_kek(c).salt = n
      BY <1>3, <2>1 DEF rewrap_save, new_kek
    <3> QED
      BY <1>1, <2>6, <3>1, <3>2, SaveOwns
  <2> DEFINE r == CHANGE_PASSWORD(job[c].user, old_kek(c), job[c].new_password, n)
  <2>8. OwnsRequest(h, r)
    BY <2>6 DEF CHANGE_PASSWORD, OwnsRequest, SaltOf, auth_key, old_kek
  <2>9. Call(c, "change", job[c], r) /\ draws' = draws
    BY <1>3, <2>1 DEF rewrap_save
  <2> HIDE DEF r
  <2>10. \A m \in Draw : m >= draws => h[m] = Unused
    BY <2>3, <2>4 DEF OwnsClients, FreshDraws, Draw
  <2>11. \A d \in Client \ {c} : cpc[d] \in Changing => h[job[d].draw] = Unused
    <3> SUFFICES ASSUME NEW d \in Client \ {c}, cpc[d] \in Changing
                 PROVE  h[job[d].draw] = Unused
      OBVIOUS
    <3>1. job[d].draw \in Draw /\ g[job[d].draw] = Unused
      BY DEF ClientKnows, StepKnows, Changing, OwnsClients, OwnsClient
    <3>2. job[d].draw # n
      BY <1>1, <2>1 DEF OwnsClients, FreshDraws
    <3> QED
      BY <2>3, <3>1, <3>2
  <2>12. OwnsClients(h)'
    BY <2>4, <2>5, <2>7, <2>8, <2>9, <2>10, <2>11, ClientMoves DEF Changing
  <2>13. OwnsServer(h)'
    BY <1>1, <2>5, OwnsStable, QuietOwns DEF vars, dbVars
  <2> QED
    BY <2>12, <2>13 DEF OwnedNext
<1> QED
  BY <1>2, <1>3

LEMMA RestartOwns ==
    ASSUME ServerKnows, ClientKnows, NEW g \in Owners, OwnsServer(g), OwnsClients(g), RestartServer
    PROVE  OwnedNext
<1>1. (\A t \in Thread : pc'[t] = "idle") /\ users' = users
  BY RestartServerKnows DEF RestartServer, Restart, reopen
<1>2. OwnsServer(g)'
  BY <1>1, QuietOwns
<1>3. ASSUME NEW c \in Client
      PROVE  \/ cpc'[c] = "idle" /\ out'[c] = NoRequest
             \/ cpc'[c] = cpc[c] /\ job'[c] = job[c] /\ out'[c] = out[c]
  BY DEF RestartServer
<1>4. UNCHANGED <<keystore, draws>>
  BY DEF RestartServer
<1>5. \A c \in Client : OwnsClient(g, c)'
  BY <1>3, <1>4 DEF OwnsClients, OwnsClient, Changing
<1>6. FreshDraws(g)'
  BY <1>3, <1>4 DEF OwnsClients, FreshDraws, Changing
<1>7. OwnsFiles(g)'
  BY <1>4 DEF OwnsClients, OwnsFiles
<1> QED
  BY <1>2, <1>5, <1>6, <1>7 DEF OwnsClients, OwnedNext

LEMMA NextOwns ==
    ASSUME AInv, SaltsOwned, [AccountsNext]_accountsVars
    PROVE  SaltsOwned'
<1>1. ServerKnows /\ ClientKnows
  BY DEF AInv
<1>2. RowsGrow
  BY <1>1, NextInside, Permanence DEF ServerKnows
<1>3. PICK g \in Owners : OwnsServer(g) /\ OwnsClients(g)
  BY DEF SaltsOwned
<1> SUFFICES OwnedNext
  BY DEF OwnedNext, SaltsOwned
<1>4. ASSUME users' = users, UNCHANGED threadVars, UNCHANGED clientVars
      PROVE  OwnedNext
  <2>1. OwnsServer(g)'
    BY <1>3, <1>4, QuietOwns
  <2>2. OwnsClients(g)'
    BY <1>3, <1>4 DEF clientVars, OwnsClients, OwnsFiles, FreshDraws, OwnsClient
  <2> QED
    BY <2>1, <2>2 DEF OwnedNext
<1>5. CASE UNCHANGED accountsVars
  BY <1>4, <1>5 DEF accountsVars, vars, dbVars
<1>6. ASSUME NEW c \in Client, Begin(c) PROVE OwnedNext
  BY <1>1, <1>3, <1>6, BeginOwns
<1>7. ASSUME NEW c \in Client, NEW t \in Thread, Send(c, t) PROVE OwnedNext
  BY <1>1, <1>3, <1>7, SendOwns
<1>8. ASSUME NEW c \in Client, Receive(c) PROVE OwnedNext
  BY <1>1, <1>2, <1>3, <1>8, ReceiveOwns
<1>9. ASSUME NEW c \in Client, rewrap_load(c) \/ rewrap_save(c) PROVE OwnedNext
  BY <1>1, <1>3, <1>9, RewrapOwns
<1>10. ASSUME NEW c \in Client, Refused(c) \/ Lose(c) \/ Die(c) PROVE OwnedNext
  <2>1. Finish(c) /\ UNCHANGED <<vars, keystore, draws>>
    BY <1>10 DEF Refused, Lose, Die
  <2>2. OwnsClients(g)'
    BY <1>1, <1>3, <2>1, FinishOwns
  <2>3. OwnsServer(g)'
    BY <1>3, <2>1, QuietOwns DEF vars, dbVars
  <2> QED
    BY <2>2, <2>3 DEF OwnedNext
<1>11. ASSUME NEW t \in Thread, ServerStep(t) PROVE OwnedNext
  <2>1. OwnsServer(g)'
    BY <1>1, <1>2, <1>3, <1>11, ServerStepKeeps, EffectOwns
  <2>2. OwnsClients(g)'
    BY <1>3, <1>11 DEF ServerStep, clientVars, OwnsClients, OwnsFiles, FreshDraws, OwnsClient
  <2> QED
    BY <2>1, <2>2 DEF OwnedNext
<1>12. CASE Stop
  BY <1>1, <1>4, <1>12, StopKeeps
<1>13. CASE RestartServer
  BY <1>1, <1>3, <1>13, RestartOwns
<1> QED
  BY <1>5, <1>6, <1>7, <1>8, <1>9, <1>10, <1>11, <1>12, <1>13 DEF AccountsNext, ClientStep

LEMMA InitOwns == AccountsInit => SaltsOwned
<1> SUFFICES ASSUME AccountsInit PROVE SaltsOwned
  OBVIOUS
<1>1. [n \in Draw |-> Unused] \in Owners
  BY DEF Owners
<1> DEFINE g == [n \in Draw |-> Unused]
<1>2. OwnsServer(g)
  BY DEF AccountsInit, Init, ServerInit, DBInit, OwnsServer, OwnsThread
<1>3. OwnsClients(g)
  BY DEF AccountsInit, Keys!KeystoreInit, OwnsClients, OwnsFiles, FreshDraws, OwnsClient, Changing
<1> QED
  BY <1>1, <1>2, <1>3 DEF SaltsOwned

-----------------------------------------------------------------------------
(* A login that the server has accepted was signed with a key made from    *)
(* the salt of the account; the keystore opened under that salt; and the   *)
(* owner of the salt is the identity of both.                              *)
LEMMA LoginLoadsRegistered ==
    ASSUME ServerKnows, ClientKnows, SaltsOwned, NEW c \in Client, Receive(c),
           login_done(c, reply[conn[c]]),
           reply[conn[c]].type = "OK", Keys!Opens(dir(c), job[c].user, old_kek(c))
    PROVE  /\ job[c].user \in User /\ UserExists(job[c].user)
           /\ users[job[c].user].sig_pub = Keys!load_keys(dir(c), job[c].user)
<1>1. PICK g \in Owners : OwnsServer(g) /\ OwnsClients(g)
  BY DEF SaltsOwned
<1>2. /\ conn[c] \in Thread /\ pc[conn[c]] = "respond" /\ req[conn[c]] = out[c]
      /\ cpc[c] = "response"
  BY ReceiveFacts DEF login_done
<1>3. /\ out[c].type = "LOGIN_RESPONSE" /\ out[c].username = job[c].user
      /\ SaltOf(out[c].sig.key) = job[c].salt /\ job[c].user \in User /\ dir(c) \in Dir
  BY <1>2, AccountsAssumption DEF ClientKnows, StepKnows, SaltOf, auth_key, old_kek, Job, dir
<1>4. UserExists(job[c].user) /\ Owns(g, job[c].salt, users[job[c].user].sig_pub)
  BY <1>1, <1>2, <1>3 DEF OwnsServer, OwnsThread
<1>5. Owns(g, job[c].salt, Keys!load_keys(dir(c), job[c].user))
  BY <1>1, <1>3 DEF OwnsClients, OwnsFiles, Keys!Opens, Keys!load_keys, old_kek
<1> QED
  BY <1>3, <1>4, <1>5 DEF Owns

LEMMA SessionsStay ==
    ASSUME AInv, SaltsOwned, SessionKeysRegistered, [AccountsNext]_accountsVars
    PROVE  SessionKeysRegistered'
<1>1. ServerKnows /\ ClientKnows /\ RowsGrow
  BY NextInside, Permanence DEF AInv, ServerKnows
<1>2. ASSUME NEW d \in Client, session'[d] = session[d], session[d] # NoSession
      PROVE  /\ users'[session[d].user] # NoRow
             /\ users'[session[d].user].sig_pub = session[d].keys
  <2>1. session[d].user \in User
    BY <1>1, <1>2 DEF ClientKnows, ClientTypeOK, Session
  <2> QED
    BY <1>1, <1>2, <2>1 DEF SessionKeysRegistered, RowsGrow
<1>3. CASE session' = session
  BY <1>2, <1>3 DEF SessionKeysRegistered, UserExists
<1>4. ASSUME NEW c \in Client, session' = [session EXCEPT ![c] = NoSession]
      PROVE  SessionKeysRegistered'
  <2>1. \A d \in Client : session'[d] = session[d] \/ session'[d] = NoSession
    BY <1>1, <1>4 DEF ClientKnows, ClientTypeOK
  <2> QED
    BY <1>2, <2>1 DEF SessionKeysRegistered, UserExists
<1>5. ASSUME NEW c \in Client, Receive(c), login_done(c, reply[conn[c]]), session' # session
      PROVE  SessionKeysRegistered'
  <2>1. /\ reply[conn[c]].type = "OK" /\ Keys!Opens(dir(c), job[c].user, old_kek(c))
        /\ session' = [session EXCEPT ![c] = [user |-> job[c].user,
                                              keys |-> Keys!load_keys(dir(c), job[c].user)]]
    BY <1>5 DEF login_done
  <2>2. /\ job[c].user \in User /\ UserExists(job[c].user)
        /\ users[job[c].user].sig_pub = Keys!load_keys(dir(c), job[c].user)
    BY <1>1, <1>5, <2>1, LoginLoadsRegistered
  <2>3. /\ users'[job[c].user] # NoRow
        /\ users'[job[c].user].sig_pub = Keys!load_keys(dir(c), job[c].user)
    BY <1>1, <2>2 DEF RowsGrow
  <2>4. /\ session'[c].user = job[c].user /\ session'[c].keys = Keys!load_keys(dir(c), job[c].user)
        /\ \A d \in Client \ {c} : session'[d] = session[d]
    BY <1>1, <2>1 DEF ClientKnows, ClientTypeOK
  <2>5. ASSUME NEW d \in Client, session'[d] # NoSession
        PROVE  /\ users'[session'[d].user] # NoRow
               /\ users'[session'[d].user].sig_pub = session'[d].keys
    <3>1. CASE d = c
      BY <2>3, <2>4, <3>1
    <3>2. CASE d # c
      BY <1>2, <2>4, <2>5, <3>2
    <3> QED
      BY <3>1, <3>2
  <2> QED
    BY <2>5 DEF SessionKeysRegistered, UserExists
<1>6. \/ session' = session
      \/ \E c \in Client : session' = [session EXCEPT ![c] = NoSession]
      \/ \E c \in Client : Receive(c) /\ login_done(c, reply[conn[c]])
  <2>1. UNCHANGED clientVars => session' = session
    BY DEF clientVars
  <2>2. ASSUME NEW c \in Client, Begin(c) \/ Lose(c) \/ Die(c)
        PROVE  session' = session \/ session' = [session EXCEPT ![c] = NoSession]
    BY <2>2 DEF Begin, signup, login_op, change_password_op, logout, Lose, Die
  <2>3. ASSUME NEW c \in Client, ClientStep(c)
        PROVE  session' = session \/ (Receive(c) /\ login_done(c, reply[conn[c]]))
    BY <2>3 DEF ClientStep, Send, Receive, Refused, rewrap_load, rewrap_save, signup_reply, login_reply,
       change_password_salt, change_password_done
  <2>4. (\E t \in Thread : ServerStep(t)) \/ Stop \/ RestartServer => session' = session
    BY <2>1 DEF ServerStep, Stop, RestartServer
  <2> QED
    BY <2>1, <2>2, <2>3, <2>4 DEF AccountsNext, accountsVars
<1> QED
  BY <1>3, <1>4, <1>5, <1>6

LEMMA InitSessions == AccountsInit => SessionKeysRegistered
  BY DEF AccountsInit, SessionKeysRegistered

(* A session has the registered identity: the keys that login has loaded   *)
(* are the ones the server gives the user's contacts, whatever signups,    *)
(* changes of password, losses, crashes and restarts came before.          *)
THEOREM SessionsRegistered == AccountsSpec => []SessionKeysRegistered
<1>1. AccountsInit => SaltsOwned /\ SessionKeysRegistered
  BY InitOwns, InitSessions
<1>2. AInv /\ SaltsOwned /\ SessionKeysRegistered /\ [AccountsNext]_accountsVars
         => SaltsOwned' /\ SessionKeysRegistered'
  BY NextOwns, SessionsStay
<1> QED
  BY <1>1, <1>2, AccountsInvariant, PTL DEF AccountsSpec

-----------------------------------------------------------------------------
(* The third invariant, for clients with a directory each and users who do *)
(* not sign up again: the row of an account and its keystore are in step,  *)
(* or the account is unsettled.  h says of the draws that are in use as    *)
(* salts to whom they belong: the directory, the user and the password of  *)
(* the kek.                                                                *)

OwnDirs == \A c, d \in Client : storage_dir[c] = storage_dir[d] => c = d
Careful == OwnDirs /\ "again" \notin Faults

Homes == [Draw -> (Dir \X User \X Password) \cup {Unused}]
Used(h, n) == n \in Draw /\ h[n] # Unused
HomeDir(h, n) == h[n][1]
HomeUser(h, n) == h[n][2]
KekOf(h, n) == [password |-> h[n][3], salt |-> n]

(* The file of the directory and user that a salt belongs to, which may be *)
(* under a later salt by now, and whether it still is under this one.      *)
HomeFile(h, n) == keystore[h[n][1]][h[n][2]]
Current(h, n) == HomeFile(h, n) # NoFile /\ HomeFile(h, n).kek.salt = n

FileHome(h, d, u) ==
    keystore[d][u] # NoFile =>
        LET kek == keystore[d][u].kek
        IN  kek.salt \in Draw /\ h[kek.salt] = <<d, u, kek.password>>

RowHome(h, u) ==
    UserExists(u) =>
        LET n == users[u].salt
        IN  /\ Used(h, n) /\ HomeUser(h, n) = u
            /\ users[u].auth_pub = auth_key(KekOf(h, n))
            /\ HomeFile(h, n) # NoFile
            /\ u \notin unsettled => Current(h, n)

(* A registration finds the keystore that signup has written.              *)
Registration(h, r) ==
    LET n == r.row.salt
    IN  /\ Used(h, n) /\ HomeUser(h, n) = r.username
        /\ r.row.auth_pub = auth_key(KekOf(h, n))
        /\ ~UserExists(r.username) => Current(h, n)

(* A change is from an older salt of the same file.                        *)
Change(h, r) ==
    LET k == r.new_salt
        o == SaltOf(r.sig.key)
    IN  /\ Used(h, k) /\ Used(h, o) /\ o < k /\ r.nonce = k
        /\ HomeDir(h, o) = HomeDir(h, k) /\ HomeUser(h, o) = HomeUser(h, k)
        /\ HomeUser(h, k) = r.username /\ UserExists(r.username)
        /\ r.new_auth_pub = auth_key(KekOf(h, k))
        /\ HomeFile(h, k) # NoFile /\ k <= HomeFile(h, k).kek.salt

Made(h, r) ==
    /\ r.type = "REGISTER" => Registration(h, r)
    /\ r.type = "CHANGE_PASSWORD" => Change(h, r)

(* A change that may yet be carried out is to the salt the file is under:  *)
(* the server carries out those made from the salt of the row, and those   *)
(* whose proof it has verified.                                            *)
Awaited(h, r) ==
    LET n == users[r.username].salt
    IN  n # r.new_salt /\ (n = SaltOf(r.sig.key) => Current(h, r.new_salt))

Accepted(h, r) ==
    HomeDir(h, r.new_salt) = HomeDir(h, users[r.username].salt) /\ Current(h, r.new_salt)

Changes(t) == pc[t] # "idle" /\ req[t].type = "CHANGE_PASSWORD"
Proved(t) == pc[t] \in {"consume_nonce", "update_auth"}

(* What has been answered stays true as long as the file does not change.  *)
Answered(h, t) ==
    /\ req[t].type = "CHANGE_PASSWORD" =>
          (Current(h, req[t].new_salt) => users[req[t].username].salt = req[t].new_salt)
    /\ req[t].type = "GET_SALT" =>
          LET s == reply[t].salt
          IN  /\ Used(h, s) /\ UserExists(req[t].username) /\ HomeUser(h, s) = req[t].username
              /\ Current(h, s) => users[req[t].username].salt = s

ThreadHome(h, t) ==
    /\ pc[t] # "idle" => Made(h, req[t])
    /\ Changes(t) /\ pc[t] # "respond" => Awaited(h, req[t])
    /\ Changes(t) /\ Proved(t) => Accepted(h, req[t])
    /\ pc[t] = "respond" /\ reply[t].type = "OK" => Answered(h, t)

Unsent(c) == cpc[c] = "change" /\ conn[c] = NoConn
MyFile(c) == keystore[dir(c)][job[c].user]

ClientHome(h, c) ==
    /\ out[c] # NoRequest => Made(h, out[c])
    /\ cpc[c] = "signup" => out[c].type = "REGISTER"
    /\ cpc[c] \in Changing =>
          /\ job[c].draw < draws /\ h[job[c].draw] = Unused
          /\ \A u \in User : keystore[dir(c)][u] # NoFile => keystore[dir(c)][u].kek.salt < job[c].draw
    /\ cpc[c] \in {"rewrap_load", "rewrap_save"} =>
          /\ MyFile(c) # NoFile /\ MyFile(c).kek.salt = job[c].salt
          /\ UserExists(job[c].user) /\ users[job[c].user].salt = job[c].salt
    /\ cpc[c] = "change" =>
          /\ out[c].type = "CHANGE_PASSWORD" /\ out[c].username = job[c].user
          /\ HomeDir(h, out[c].new_salt) = dir(c) /\ Current(h, out[c].new_salt)
    /\ Unsent(c) => Awaited(h, out[c])

(* Every change is sent once.                                              *)
SentOnce ==
    /\ \A t, v \in Thread : Changes(t) /\ Changes(v) /\ req[t].nonce = req[v].nonce => t = v
    /\ \A t \in Thread, c \in Client : Changes(t) /\ Unsent(c) => req[t].nonce # out[c].nonce

ServerHomes(h) == (\A u \in User : RowHome(h, u)) /\ (\A t \in Thread : ThreadHome(h, t))
ClientHomes(h) ==
    /\ \A d \in Dir, u \in User : FileHome(h, d, u)
    /\ FreshDraws(h) /\ \A c \in Client : ClientHome(h, c)

InStep == SentOnce /\ \E h \in Homes : ServerHomes(h) /\ ClientHomes(h)

LEMMA UsedHome ==
    ASSUME NEW h \in Homes, NEW n, Used(h, n)
    PROVE  /\ n \in Draw /\ n \in Nat /\ h[n] \in Dir \X User \X Password
           /\ HomeDir(h, n) \in Dir /\ HomeUser(h, n) \in User
  BY DEF Used, Homes, Unused, HomeDir, HomeUser, Draw

(* What a request says stays true while no file changes.                   *)
LEMMA MadeStays ==
    ASSUME NEW h, NEW r, Made(h, r), keystore' = keystore,
           UserExists(r.username) => UserExists(r.username)'
    PROVE  Made(h, r)'
  BY DEF Made, Registration, Change, Current, HomeFile, Used, HomeDir, HomeUser, KekOf

LEMMA RequestsStay ==
    ASSUME NEW h, UNCHANGED <<users, keystore>>, NEW r
    PROVE  /\ Made(h, r) => Made(h, r)'
           /\ Awaited(h, r) => Awaited(h, r)'
           /\ Accepted(h, r) => Accepted(h, r)'
<1>1. Made(h, r) => Made(h, r)'
  BY MadeStays DEF UserExists
<1>2. (Awaited(h, r) => Awaited(h, r)') /\ (Accepted(h, r) => Accepted(h, r)')
  BY DEF Awaited, Accepted, Current, HomeFile, HomeDir
<1> QED
  BY <1>1, <1>2

LEMMA SaltOfKek == \A h, n : SaltOf(auth_key(KekOf(h, n))) = n
  BY DEF SaltOf, auth_key, KekOf

-----------------------------------------------------------------------------
(* A change that is carried out brings the row in step with the file; no   *)
(* other change that is still awaited can be for it.                       *)

LEMMA CarriedOut ==
    ASSUME ServerKnows, NEW h \in Homes, ServerHomes(h), NEW t \in Thread, Effect(t), ChangesPassword(t)
    PROVE  LET u == req[t].username
               k == req[t].new_salt
           IN  /\ u \in User /\ UserExists(u) /\ Changes(t) /\ Change(h, req[t])
               /\ Current(h, k) /\ users[u].salt # k
               /\ HomeDir(h, k) = HomeDir(h, users[u].salt)
               /\ HomeUser(h, users[u].salt) = u
               /\ users'[u].salt = k /\ users'[u].auth_pub = req[t].new_auth_pub
               /\ \A v \in User \ {u} : users'[v] = users[v]
<1>1. /\ pc[t] = "update_auth" /\ req[t].type = "CHANGE_PASSWORD" /\ UserExists(req[t].username)
      /\ users' = [users EXCEPT ![req[t].username] =
                      [@ EXCEPT !.salt = req[t].new_salt, !.auth_pub = req[t].new_auth_pub]]
  BY DEF ChangesPassword
<1>2. /\ req[t] \in AccountRequests /\ req[t].username \in User
      /\ users \in [User -> UserRecord \cup {NoRow}] /\ ThreadHome(h, t)
  BY <1>1, RequestParts DEF ServerKnows, ThreadKnows, TInv, DBTypeOK, ServerHomes
<1>3. users[req[t].username] \in UserRecord
  BY <1>1, <1>2 DEF UserExists
<1>4. /\ users'[req[t].username].salt = req[t].new_salt
      /\ users'[req[t].username].auth_pub = req[t].new_auth_pub
      /\ \A v \in User \ {req[t].username} : users'[v] = users[v]
  BY <1>1, <1>2, <1>3 DEF UserRecord
<1>5. Changes(t) /\ Proved(t) /\ Change(h, req[t]) /\ Awaited(h, req[t]) /\ Accepted(h, req[t])
  BY <1>1, <1>2 DEF Changes, Proved, ThreadHome, Made
<1>6. HomeUser(h, users[req[t].username].salt) = req[t].username
  BY <1>1, <1>2 DEF ServerHomes, RowHome
<1> QED
  BY <1>1, <1>2, <1>4, <1>5, <1>6 DEF Awaited, Accepted

LEMMA AwaitedStays ==
    ASSUME ServerKnows, NEW h \in Homes, ServerHomes(h), NEW t \in Thread, Effect(t), ChangesPassword(t),
           keystore' = keystore,
           NEW r, r.username = req[t].username, r.nonce # req[t].nonce, Change(h, r), Awaited(h, r)
    PROVE  Awaited(h, r)' /\ ~Accepted(h, r)
<1> DEFINE u == req[t].username
           k == req[t].new_salt
<1>1. /\ u \in User /\ Change(h, req[t]) /\ Current(h, k) /\ users[u].salt # k
      /\ HomeDir(h, k) = HomeDir(h, users[u].salt) /\ users'[u].salt = k
  BY CarriedOut
<1>2. PICK m, o, s : m = r.new_salt /\ o = SaltOf(r.sig.key) /\ s = users[u].salt
  OBVIOUS
<1>3. /\ Used(h, m) /\ Used(h, o) /\ o < m /\ m # k /\ HomeDir(h, o) = HomeDir(h, m)
      /\ HomeUser(h, o) = u /\ HomeUser(h, m) = u /\ m <= HomeFile(h, m).kek.salt
      /\ HomeUser(h, k) = u
  BY <1>1, <1>2 DEF Change
<1>4. Used(h, k) /\ k \in Nat /\ m \in Nat /\ o \in Nat
  BY <1>1, <1>3, UsedHome DEF Change
<1>5. k # o
  <2> SUFFICES ASSUME k = o PROVE FALSE
    OBVIOUS
  <2>1. HomeFile(h, m) = HomeFile(h, k)
    BY <1>3 DEF HomeFile, HomeDir, HomeUser
  <2>2. m <= k
    BY <1>1, <1>3, <2>1 DEF Current
  <2> QED
    BY <1>3, <1>4, <2>2
<1>6. ~Accepted(h, r)
  <2> SUFFICES ASSUME Accepted(h, r) PROVE FALSE
    OBVIOUS
  <2>1. Current(h, m) /\ HomeDir(h, m) = HomeDir(h, s)
    BY <1>2 DEF Accepted
  <2>2. HomeFile(h, m) = HomeFile(h, k)
    BY <1>1, <1>2, <1>3, <2>1 DEF HomeFile, HomeDir, HomeUser
  <2> QED
    BY <1>1, <1>3, <2>1, <2>2 DEF Current
<1> HIDE DEF u, k
<1> QED
  BY <1>1, <1>2, <1>3, <1>5, <1>6 DEF Awaited, u

LEMMA AnsweredStays ==
    ASSUME ServerKnows, NEW h \in Homes, ServerHomes(h), NEW t \in Thread, Effect(t), ChangesPassword(t),
           keystore' = keystore, NEW n, NEW v \in User, UserExists(v), Used(h, n), HomeUser(h, n) = v,
           Current(h, n) => users[v].salt = n
    PROVE  (Current(h, n) => users[v].salt = n)'
<1> DEFINE u == req[t].username
           k == req[t].new_salt
<1>1. /\ u \in User /\ Change(h, req[t]) /\ Current(h, k)
      /\ HomeDir(h, k) = HomeDir(h, users[u].salt) /\ users'[u].salt = k
      /\ \A w \in User \ {u} : users'[w] = users[w]
  BY CarriedOut
<1>2. Current(h, n)' <=> Current(h, n)
  BY DEF Current, HomeFile
<1>3. CASE v # u
  BY <1>1, <1>2, <1>3
<1>4. ASSUME v = u, Current(h, n)
      PROVE  n = k
  <2>1. HomeDir(h, n) = HomeDir(h, k) /\ HomeUser(h, n) = HomeUser(h, k)
    BY <1>1, <1>4 DEF Change
  <2>2. HomeFile(h, n) = HomeFile(h, k)
    BY <2>1 DEF HomeFile, HomeDir, HomeUser
  <2> QED
    BY <1>1, <1>4, <2>2 DEF Current
<1> QED
  BY <1>1, <1>2, <1>3, <1>4

(* A step of the server, as far as the rows of the accounts go.            *)
LEMMA EffectRows ==
    ASSUME ServerKnows, NEW t \in Thread, Effect(t)
    PROVE  \/ users' = users
           \/ Registers(t) /\ req[t].username \in User
              /\ users'[req[t].username] = req[t].row
              /\ \A v \in User \ {req[t].username} : users'[v] = users[v]
           \/ ChangesPassword(t)
<1>1. req[t] \in AccountRequests /\ req[t].username \in User /\ users \in [User -> UserRecord \cup {NoRow}]
  BY RequestParts DEF Effect, ServerKnows, ThreadKnows, TInv, DBTypeOK
<1> QED
  BY <1>1 DEF Effect, EndsConnection, Refuses, LooksUp, Issues, ReadsRow, LogsIn, TellsSalt,
     Authenticates, SpendsNonce, Registers

LEMMA EffectAwaited ==
    ASSUME ServerKnows, NEW h \in Homes, ServerHomes(h), NEW t \in Thread, Effect(t), keystore' = keystore,
           NEW r, r.username \in User, Change(h, r), Awaited(h, r),
           ChangesPassword(t) => r.nonce # req[t].nonce
    PROVE  Awaited(h, r)' /\ (Accepted(h, r) => Accepted(h, r)')
<1>1. CASE users'[r.username] = users[r.username]
  BY <1>1 DEF Awaited, Accepted, Current, HomeFile, HomeDir
<1>2. CASE ChangesPassword(t)
  <2>1. CASE r.username = req[t].username
    BY <1>2, <2>1, AwaitedStays
  <2>2. CASE r.username # req[t].username
    BY <1>1, <1>2, <2>2, CarriedOut
  <2> QED
    BY <2>1, <2>2
<1>3. CASE Registers(t)
  BY <1>1, <1>2, <1>3, EffectRows DEF Registers, Change
<1> QED
  BY <1>1, <1>2, <1>3, EffectRows

LEMMA EffectAnswered ==
    ASSUME ServerKnows, NEW h \in Homes, ServerHomes(h), NEW t \in Thread, Effect(t), keystore' = keystore,
           NEW n, NEW v \in User, UserExists(v), Used(h, n), HomeUser(h, n) = v,
           Current(h, n) => users[v].salt = n
    PROVE  (Current(h, n) => users[v].salt = n)'
<1>1. CASE users'[v] = users[v]
  BY <1>1 DEF Current, HomeFile
<1>2. CASE ChangesPassword(t)
  BY <1>2, AnsweredStays
<1>3. CASE Registers(t)
  BY <1>1, <1>2, <1>3, EffectRows DEF Registers
<1> QED
  BY <1>1, <1>2, <1>3, EffectRows

LEMMA EffectRowHomes ==
    ASSUME ServerKnows, RowsGrow, NEW h \in Homes, ServerHomes(h), NEW t \in Thread, Effect(t), keystore' = keystore,
           unsettled' = unsettled, NEW v \in User
    PROVE  RowHome(h, v)'
<1>1. /\ RowHome(h, v) /\ req[t] \in AccountRequests /\ Made(h, req[t]) /\ pc[t] # "idle"
      /\ req[t].username \in User
  BY RequestParts DEF Effect, ServerHomes, ThreadHome, ServerKnows, ThreadKnows
<1>2. CASE users'[v] = users[v]
  BY <1>1, <1>2 DEF RowHome, UserExists, Used, HomeUser, KekOf, HomeFile, Current
<1>3. CASE Registers(t) /\ v = req[t].username
  <2>1. Registration(h, req[t]) /\ ~UserExists(v) /\ users'[v] = req[t].row
    BY <1>1, <1>3 DEF Registers, Made, ServerKnows, TInv, DBTypeOK
  <2> QED
    BY <1>3, <2>1 DEF RowHome, Registration, UserExists, Used, HomeUser, KekOf, HomeFile, Current
<1>4. CASE ChangesPassword(t) /\ v = req[t].username
  <2>1. PICK k : k = req[t].new_salt
    OBVIOUS
  <2>2. /\ users'[v].salt = k /\ users'[v].auth_pub = req[t].new_auth_pub /\ Current(h, k)
        /\ Change(h, req[t])
    BY <1>4, <2>1, CarriedOut
  <2> QED
    BY <1>4, <2>1, <2>2 DEF RowHome, Change, Used, HomeUser, KekOf, HomeFile, Current
<1>5. CASE Registers(t) \/ ChangesPassword(t)
  BY <1>2, <1>3, <1>4, <1>5, EffectRows, CarriedOut
<1> QED
  BY <1>2, <1>5, EffectRows

LEMMA EffectThreadHomes ==
    ASSUME ServerKnows, RowsGrow, NEW h \in Homes, ServerHomes(h), NEW t \in Thread, Effect(t),
           \A v \in Thread : Changes(t) /\ Changes(v) /\ req[t].nonce = req[v].nonce => t = v,
           keystore' = keystore
    PROVE  \A v \in Thread : ThreadHome(h, v)'
<1>1. /\ req[t] \in AccountRequests /\ req[t].username \in User
      /\ ThreadHome(h, t) /\ Made(h, req[t]) /\ pc[t] # "idle"
  BY RequestParts DEF ServerKnows, ThreadKnows, Effect, ServerHomes, ThreadHome
<1>2. \A u \in User : UserExists(u) => UserExists(u)'
  BY DEF RowsGrow, UserExists
<1>3. ASSUME NEW v \in Thread \ {t}
      PROVE  ThreadHome(h, v)'
  <2>1. Kept4(v) /\ ThreadHome(h, v)
    BY DEF Effect, ServerHomes
  <2>2. CASE pc[v] = "idle"
    BY <2>1, <2>2 DEF Kept4, ThreadHome, Changes
  <2>3. CASE pc[v] # "idle"
    <3>1. req[v].username \in User /\ Made(h, req[v])
      BY <2>1, <2>3, RequestParts DEF ServerKnows, ThreadKnows, ThreadHome
    <3>r. PICK r : r = req[v] /\ r = req'[v]
      BY <2>1 DEF Kept4
    <3>2. Made(h, r)'
      BY <1>2, <3>1, <3>r, MadeStays
    <3>3. ASSUME Changes(v), pc[v] # "respond"
          PROVE  Awaited(h, r)' /\ (Proved(v) => Accepted(h, r)')
      <4>1. Awaited(h, r) /\ Change(h, r) /\ (Proved(v) => Accepted(h, r))
        BY <2>1, <3>1, <3>3, <3>r DEF ThreadHome, Made, Changes
      <4>2. ChangesPassword(t) => r.nonce # req[t].nonce
        BY <3>3, <3>r DEF ChangesPassword, Changes
      <4> QED
        BY <3>1, <3>r, <4>1, <4>2, EffectAwaited
    <3>4. ASSUME pc[v] = "respond", reply[v].type = "OK"
          PROVE  Answered(h, v)'
      <4>1. Answered(h, v)
        BY <2>1, <3>4 DEF ThreadHome
      <4>2. CASE r.type = "CHANGE_PASSWORD"
        <5>1. Change(h, r)
          BY <3>1, <3>r, <4>2 DEF Made
        <5>2. PICK n : n = r.new_salt
          OBVIOUS
        <5>3. /\ UserExists(r.username) /\ Used(h, n) /\ HomeUser(h, n) = r.username
              /\ Current(h, n) => users[r.username].salt = n
          BY <3>r, <4>1, <4>2, <5>1, <5>2 DEF Change, Answered
        <5>4. (Current(h, n) => users[r.username].salt = n)'
          BY <3>1, <3>r, <5>3, EffectAnswered
        <5> QED
          BY <3>r, <4>2, <5>2, <5>4 DEF Answered
      <4>3. CASE r.type = "GET_SALT"
        <5>1. PICK n : n = reply[v].salt /\ n = reply'[v].salt
          BY <2>1 DEF Kept4
        <5>3. /\ UserExists(r.username) /\ Used(h, n) /\ HomeUser(h, n) = r.username
              /\ Current(h, n) => users[r.username].salt = n
          BY <3>r, <4>1, <4>3, <5>1 DEF Answered
        <5>4. (Current(h, n) => users[r.username].salt = n)'
          BY <3>1, <3>r, <5>3, EffectAnswered
        <5>5. UserExists(r.username)'
          BY <1>2, <3>1, <3>r, <5>3
        <5> QED
          BY <3>r, <4>3, <5>1, <5>3, <5>4, <5>5 DEF Answered, Used, HomeUser
      <4> QED
        BY <3>r, <4>2, <4>3 DEF Answered
    <3> QED
      BY <2>1, <3>r, <3>2, <3>3, <3>4 DEF ThreadHome, Kept4, Changes, Proved
  <2> QED
    BY <2>2, <2>3
<1>4. ThreadHome(h, t)'
  <2>1. CASE EndsConnection(t)
    BY <2>1 DEF EndsConnection, ThreadHome, Changes
  <2> SUFFICES ASSUME req'[t] = req[t], pc[t] # "respond", ~EndsConnection(t)
               PROVE  ThreadHome(h, t)'
    BY <2>1 DEF Effect, EndsConnection
  <2>r. PICK r : r = req[t] /\ r = req'[t]
    OBVIOUS
  <2>2. Made(h, r)'
    BY <1>1, <1>2, <2>r, MadeStays
  <2>3. CASE Refuses(t)
    BY <2>2, <2>3, <2>r DEF Refuses, ThreadHome, ERROR, Proved
  <2>4. CASE Registers(t) \/ LooksUp(t) \/ Issues(t) \/ ReadsRow(t) \/ LogsIn(t)
    BY <2>2, <2>4, <2>r DEF Registers, LooksUp, Issues, ReadsRow, LogsIn, ThreadHome, Changes, Answered
  <2>5. CASE TellsSalt(t)
    <3>1. PICK n : n = users[r.username].salt
      OBVIOUS
    <3>2. /\ reply'[t].salt = n /\ users' = users /\ pc'[t] = "respond" /\ r.type = "GET_SALT"
          /\ UserExists(r.username) /\ Used(h, n) /\ HomeUser(h, n) = r.username
      BY <1>1, <2>5, <2>r, <3>1 DEF TellsSalt, ServerHomes, RowHome
    <3>3. Answered(h, t)'
      BY <2>r, <3>1, <3>2 DEF Answered, UserExists, Used, HomeUser
    <3> QED
      BY <2>2, <2>r, <3>2, <3>3 DEF ThreadHome, Changes
  <2>6. CASE Authenticates(t)
    <3>1. PICK k, n : k = r.new_salt /\ n = users[r.username].salt
      OBVIOUS
    <3>2. /\ users' = users /\ r.type = "CHANGE_PASSWORD" /\ UserExists(r.username)
          /\ r.sig.key = users[r.username].auth_pub /\ pc'[t] = "consume_nonce"
      BY <2>6, <2>r DEF Authenticates
    <3>3. SaltOf(r.sig.key) = n
      BY <1>1, <2>r, <3>1, <3>2, SaltOfKek DEF ServerHomes, RowHome
    <3>4. Change(h, r) /\ Awaited(h, r)
      BY <1>1, <2>r, <3>2 DEF ThreadHome, Made, Changes
    <3>5. n # k /\ HomeDir(h, k) = HomeDir(h, n) /\ Current(h, k)
      BY <3>1, <3>3, <3>4 DEF Change, Awaited
    <3>6. Awaited(h, r)' /\ Accepted(h, r)'
      <4>1. Accepted(h, r) /\ ~ChangesPassword(t)
        BY <2>6, <3>1, <3>5 DEF Accepted, Authenticates, ChangesPassword
      <4> QED
        BY <1>1, <2>r, <3>4, <4>1, EffectAwaited
    <3> QED
      BY <2>2, <2>r, <3>2, <3>6 DEF ThreadHome, Changes
  <2>7. CASE SpendsNonce(t)
    <3>1. pc[t] = "consume_nonce" /\ pc'[t] = "update_auth" /\ users' = users /\ r.type = "CHANGE_PASSWORD"
      BY <2>7, <2>r DEF SpendsNonce
    <3>2. Change(h, r) /\ Awaited(h, r) /\ Accepted(h, r) /\ ~ChangesPassword(t)
      BY <1>1, <2>r, <3>1 DEF ThreadHome, Changes, Proved, Made, ChangesPassword
    <3>3. Awaited(h, r)' /\ Accepted(h, r)'
      BY <1>1, <2>r, <3>2, EffectAwaited
    <3> QED
      BY <2>2, <2>r, <3>1, <3>3 DEF ThreadHome, Changes
  <2>8. CASE ChangesPassword(t)
    <3>1. users'[r.username].salt = r.new_salt
      BY <2>8, <2>r, CarriedOut
    <3>c. r.type = "CHANGE_PASSWORD" /\ pc'[t] = "respond"
      BY <2>8, <2>r DEF ChangesPassword
    <3>2. Answered(h, t)'
      BY <2>r, <3>1, <3>c DEF Answered
    <3> QED
      BY <2>2, <2>r, <3>c, <3>2 DEF ThreadHome, Changes, Proved
  <2> QED
    BY <2>3, <2>4, <2>5, <2>6, <2>7, <2>8 DEF Effect
<1> QED
  BY <1>3, <1>4

-----------------------------------------------------------------------------
(* The clients' part.                                                      *)

LEMMA EffectClientHome ==
    ASSUME ServerKnows, ClientKnows, RowsGrow, NEW h \in Homes, ServerHomes(h), ClientHomes(h),
           NEW t \in Thread, Effect(t), NEW c \in Client,
           Changes(t) /\ Unsent(c) => req[t].nonce # out[c].nonce,
           keystore' = keystore, UNCHANGED <<cpc, job, out, conn, draws>>
    PROVE  ClientHome(h, c)'
<1>1. ClientHome(h, c) /\ dir(c) \in Dir /\ dir(c)' = dir(c)
  BY AccountsAssumption DEF ClientHomes, dir
<1>2. \A u \in User : UserExists(u) => UserExists(u)'
  BY DEF RowsGrow, UserExists
<1>r. PICK r : r = out[c] /\ r = out'[c]
  OBVIOUS
<1>3. r # NoRequest => r.username \in User /\ Made(h, r)' /\ Made(h, r)
  <2>1. r # NoRequest => r \in AccountRequests
    BY <1>r DEF ClientKnows, ClientTypeOK
  <2> QED
    BY <1>1, <1>2, <1>r, <2>1, RequestParts, MadeStays DEF ClientHome
<1>4. ASSUME cpc[c] \in {"rewrap_load", "rewrap_save"}
      PROVE  UserExists(job[c].user)' /\ users'[job[c].user].salt = job[c].salt
  <2>1. PICK v, n : v = job[c].user /\ n = job[c].salt
    OBVIOUS
  <2>2. /\ v \in User /\ UserExists(v) /\ users[v].salt = n
        /\ keystore[dir(c)][v] # NoFile /\ keystore[dir(c)][v].kek.salt = n
    BY <1>1, <1>4, <2>1 DEF ClientHome, MyFile, ClientKnows, StepKnows, Job
  <2>3. n \in Draw /\ h[n] = <<dir(c), v, keystore[dir(c)][v].kek.password>>
    BY <1>1, <2>2 DEF ClientHomes, FileHome
  <2>4. Used(h, n) /\ HomeUser(h, n) = v /\ Current(h, n)
    BY <2>2, <2>3 DEF Used, Unused, HomeUser, Current, HomeFile
  <2>5. Current(h, n)'
    BY <2>4 DEF Current, HomeFile
  <2>6. users'[v].salt = n
    BY <2>2, <2>4, <2>5, EffectAnswered
  <2> QED
    BY <1>2, <2>1, <2>2, <2>6
<1>5. ASSUME Unsent(c)
      PROVE  Awaited(h, r)'
  <2>1. r.type = "CHANGE_PASSWORD" /\ Awaited(h, r)
    BY <1>1, <1>5, <1>r DEF ClientHome, Unsent
  <2>2. r \in AccountRequests
    BY <1>5, <1>r DEF Unsent, ClientKnows, StepKnows
  <2>3. r.username \in User /\ Change(h, r)
    BY <1>3, <2>1, <2>2, RequestParts DEF Made
  <2>4. ChangesPassword(t) => r.nonce # req[t].nonce
    BY <1>5, <1>r DEF ChangesPassword, Changes
  <2> QED
    BY <2>1, <2>3, <2>4, EffectAwaited
<1> QED
  BY <1>1, <1>r, <1>3, <1>4, <1>5 DEF ClientHome, MyFile, Unsent, Current, HomeFile, HomeDir

(* An operation goes on, and no file changes and no row.                   *)
LEMMA CallHomes ==
    ASSUME ClientKnows, NEW h \in Homes, ClientHomes(h), UNCHANGED <<users, keystore>>,
           NEW c \in Client, NEW label, NEW j, NEW r, Call(c, label, j, r), label \notin {"signup", "change"},
           draws' \in Nat, draws <= draws', \A n \in Draw : n >= draws' => h[n] = Unused,
           r # NoRequest => Made(h, r),
           label \in Changing =>
               /\ j.draw < draws' /\ h[j.draw] = Unused
               /\ \A u \in User : keystore[dir(c)][u] # NoFile => keystore[dir(c)][u].kek.salt < j.draw
               /\ \A d \in Client \ {c} : cpc[d] \in Changing => job[d].draw # j.draw,
           label \in {"rewrap_load", "rewrap_save"} =>
               /\ keystore[dir(c)][j.user] # NoFile /\ keystore[dir(c)][j.user].kek.salt = j.salt
               /\ UserExists(j.user) /\ users[j.user].salt = j.salt
    PROVE  ClientHomes(h)' /\ \A d \in Client : Unsent(d)' => Unsent(d) /\ out'[d] = out[d]
<1>1. /\ cpc \in [Client -> CpcLabels] /\ job \in [Client -> Job \cup {NoJob}]
      /\ out \in [Client -> AccountRequests \cup {NoRequest}]
      /\ conn \in [Client -> Thread \cup {NoConn}] /\ draws \in Nat
  BY AccountsAssumption DEF ClientKnows, ClientTypeOK
<1>2. /\ cpc'[c] = label /\ job'[c] = j /\ out'[c] = r /\ conn'[c] = NoConn
      /\ \A d \in Client \ {c} : /\ cpc'[d] = cpc[d] /\ job'[d] = job[d]
                                 /\ out'[d] = out[d] /\ conn'[d] = conn[d]
  BY <1>1 DEF Call
<1>3. \A q : (Made(h, q) => Made(h, q)') /\ (Awaited(h, q) => Awaited(h, q)')
  BY RequestsStay
<1>4. ClientHome(h, c)'
  BY <1>2, <1>3 DEF ClientHome, MyFile, Unsent, dir, UserExists, Changing
<1>5. ASSUME NEW d \in Client \ {c}
      PROVE  ClientHome(h, d)'
  <2>1. ClientHome(h, d)
    BY DEF ClientHomes
  <2>2. cpc[d] \in Changing => job[d].draw < draws'
    <3>1. cpc[d] \in Changing => job[d].draw \in Nat
      BY DEF ClientKnows, StepKnows, Changing, Draw
    <3> QED
      BY <1>1, <2>1, <3>1 DEF ClientHome
  <2> QED
    BY <1>2, <1>3, <2>1, <2>2
       DEF ClientHome, MyFile, Unsent, dir, UserExists, Current, HomeFile, HomeDir
<1>6. FreshDraws(h)'
  BY <1>2 DEF ClientHomes, FreshDraws
<1>7. \A d \in Dir, u \in User : FileHome(h, d, u)'
  BY DEF ClientHomes, FileHome
<1>8. \A d \in Client : Unsent(d)' => Unsent(d) /\ out'[d] = out[d]
  BY <1>2 DEF Unsent
<1> QED
  BY <1>4, <1>5, <1>6, <1>7, <1>8 DEF ClientHomes

(* The same within an operation, when no salt is drawn.                    *)
LEMMA GoesOnHomes ==
    ASSUME ClientKnows, NEW h \in Homes, ClientHomes(h), UNCHANGED <<users, keystore, draws>>,
           NEW c \in Client, NEW label, NEW j, NEW r, Call(c, label, j, r), label \notin {"signup", "change"},
           r # NoRequest => Made(h, r),
           label \in Changing => cpc[c] \in Changing /\ j.draw = job[c].draw,
           label \in {"rewrap_load", "rewrap_save"} =>
               /\ keystore[dir(c)][j.user] # NoFile /\ keystore[dir(c)][j.user].kek.salt = j.salt
               /\ UserExists(j.user) /\ users[j.user].salt = j.salt
    PROVE  ClientHomes(h)' /\ \A d \in Client : Unsent(d)' => Unsent(d) /\ out'[d] = out[d]
<1>1. draws' \in Nat /\ draws <= draws' /\ draws' = draws
  BY AccountsAssumption DEF ClientKnows, ClientTypeOK
<1>2. \A n \in Draw : n >= draws' => h[n] = Unused
  BY <1>1 DEF ClientHomes, FreshDraws
<1>3. cpc[c] \in Changing =>
         /\ job[c].draw < draws /\ h[job[c].draw] = Unused
         /\ \A u \in User : keystore[dir(c)][u] # NoFile => keystore[dir(c)][u].kek.salt < job[c].draw
         /\ \A d \in Client \ {c} : cpc[d] \in Changing => job[d].draw # job[c].draw
  BY DEF ClientHomes, ClientHome, FreshDraws
<1> QED
  BY <1>1, <1>2, <1>3, CallHomes

LEMMA FinishHomes ==
    ASSUME ClientKnows, NEW h \in Homes, ClientHomes(h), UNCHANGED <<users, keystore, draws>>,
           NEW c \in Client, Finish(c)
    PROVE  ClientHomes(h)' /\ \A d \in Client : Unsent(d)' => Unsent(d) /\ out'[d] = out[d]
  BY GoesOnHomes DEF Finish, Local, Changing

(* Rows and threads when the server does not move.                         *)
LEMMA QuietHomes ==
    ASSUME NEW h, ServerHomes(h), UNCHANGED <<users, keystore>>, unsettled' = unsettled,
           UNCHANGED threadVars \/ \A t \in Thread : pc'[t] = "idle"
    PROVE  ServerHomes(h)'
<1>1. ASSUME NEW u \in User PROVE RowHome(h, u)'
  BY DEF ServerHomes, RowHome, UserExists, Used, HomeUser, KekOf, HomeFile, Current
<1>2. CASE \A t \in Thread : pc'[t] = "idle"
  BY <1>1, <1>2 DEF ServerHomes, ThreadHome, Changes
<1>3. CASE UNCHANGED threadVars
  <2>1. \A r : (Made(h, r) => Made(h, r)') /\ (Awaited(h, r) => Awaited(h, r)') /\ (Accepted(h, r) => Accepted(h, r)')
    BY RequestsStay
  <2>2. \A t \in Thread : Answered(h, t) => Answered(h, t)'
    BY <1>3 DEF threadVars, Answered, Current, HomeFile, Used, HomeUser, UserExists
  <2>3. \A t \in Thread : ThreadHome(h, t)'
    BY <1>3, <2>1, <2>2 DEF threadVars, ServerHomes, ThreadHome, Changes, Proved
  <2> QED
    BY <1>1, <2>3 DEF ServerHomes
<1> QED
  BY <1>2, <1>3

LEMMA QuietSentOnce ==
    ASSUME SentOnce, UNCHANGED threadVars \/ \A t \in Thread : pc'[t] = "idle",
           \A d \in Client : Unsent(d)' => Unsent(d) /\ out'[d] = out[d]
    PROVE  SentOnce'
  BY DEF SentOnce, threadVars, Changes

LEMMA EffectSentOnce ==
    ASSUME SentOnce, NEW t \in Thread, Effect(t),
           \A d \in Client : Unsent(d)' => Unsent(d) /\ out'[d] = out[d]
    PROVE  SentOnce'
<1>1. \A v \in Thread : Changes(v)' => Changes(v) /\ req'[v] = req[v]
  BY DEF Changes, Effect, Kept4, EndsConnection
<1> QED
  BY <1>1 DEF SentOnce

-----------------------------------------------------------------------------
(* A file is written under a salt that nobody had: a first one, or one in  *)
(* place of a file that is in step with the row.                           *)

InPlace(c, u, k) ==
    \/ keystore[dir(c)][u] = NoFile
    \/ /\ UserExists(u) /\ keystore[dir(c)][u].kek.salt = users[u].salt
       /\ users[u].salt < k /\ u \in unsettled'

Writes(c, u, p, k) ==
    /\ \E keys \in Identity : Keys!save_keys(dir(c), u, keys, [password |-> p, salt |-> k])
    /\ InPlace(c, u, k)
    /\ unsettled \subseteq unsettled'
    /\ UNCHANGED vars

WrittenBy(g, h, c, u, p, k) ==
    /\ c \in Client /\ u \in User /\ p \in Password /\ k \in Draw
    /\ g \in Homes /\ g[k] = Unused /\ Writes(c, u, p, k)
    /\ h \in Homes /\ h = [g EXCEPT ![k] = <<dir(c), u, p>>]

FileNow(g, h, c, u, p, k) ==
    /\ h[k] = <<dir(c), u, p>> /\ \A n \in Draw : n # k => h[n] = g[n]
    /\ keystore'[dir(c)][u] # NoFile
    /\ keystore'[dir(c)][u].kek = [password |-> p, salt |-> k]
    /\ \A d \in Dir, v \in User : d # dir(c) \/ v # u => keystore'[d][v] = keystore[d][v]
    /\ dir(c) \in Dir /\ g \in Homes /\ h \in Homes /\ k \in Draw /\ g[k] = Unused /\ u \in User

LEMMA FileWritten ==
    ASSUME ClientKnows, NEW g, NEW h, NEW c, NEW u, NEW p, NEW k, WrittenBy(g, h, c, u, p, k)
    PROVE  FileNow(g, h, c, u, p, k)
<1>0. /\ c \in Client /\ u \in User /\ p \in Password /\ k \in Draw
      /\ g \in Homes /\ g[k] = Unused /\ Writes(c, u, p, k) /\ h \in Homes
  BY DEF WrittenBy
<1>1. keystore \in [Dir -> [User -> Keys!File \cup {NoFile}]] /\ dir(c) \in Dir
  BY <1>0, AccountsAssumption DEF ClientKnows, ClientTypeOK, Keys!KeystoreTypeOK, dir
<1>2. PICK keys \in Identity : Keys!save_keys(dir(c), u, keys, [password |-> p, salt |-> k])
  BY <1>0 DEF Writes
<1>3. /\ keystore'[dir(c)][u] = [kek |-> [password |-> p, salt |-> k], keys |-> keys]
      /\ \A d \in Dir, v \in User : d # dir(c) \/ v # u => keystore'[d][v] = keystore[d][v]
  BY <1>0, <1>1, <1>2 DEF Keys!save_keys
<1>4. keystore'[dir(c)][u] # NoFile
  <2>1. [password |-> p, salt |-> k] \in Kek
    BY <1>0 DEF Kek
  <2> QED
    BY <1>3, <2>1, NoFileAssumption DEF Keys!File
<1>5. h[k] = <<dir(c), u, p>> /\ \A n \in Draw : n # k => h[n] = g[n]
  BY <1>0 DEF WrittenBy, Homes
<1> QED
  BY <1>0, <1>1, <1>3, <1>4, <1>5 DEF FileNow

LEMMA NewHome ==
    ASSUME ClientKnows, NEW g, NEW h, NEW c, NEW u, NEW p, NEW k, WrittenBy(g, h, c, u, p, k)
    PROVE  /\ Used(h, k) /\ HomeDir(h, k) = dir(c) /\ HomeUser(h, k) = u /\ Current(h, k)'
           /\ KekOf(h, k) = [password |-> p, salt |-> k]
<1>1. FileNow(g, h, c, u, p, k)
  BY FileWritten
<1> QED
  BY <1>1 DEF FileNow, Used, Unused, HomeDir, HomeUser, Current, HomeFile, KekOf

LEMMA OldHome ==
    ASSUME ClientKnows, NEW g, NEW h, NEW c, NEW u, NEW p, NEW k, WrittenBy(g, h, c, u, p, k),
           NEW n, Used(g, n)
    PROVE  /\ Used(h, n) /\ h[n] = g[n] /\ n # k
           /\ HomeFile(g, n) # NoFile => HomeFile(h, n)' # NoFile
           /\ IF HomeDir(g, n) = dir(c) /\ HomeUser(g, n) = u
              THEN HomeFile(h, n)' # NoFile /\ HomeFile(h, n)'.kek.salt = k
              ELSE HomeFile(h, n)' = HomeFile(g, n)
<1>f. FileNow(g, h, c, u, p, k)
  BY FileWritten
<1>1. Used(h, n) /\ h[n] = g[n] /\ n # k
  BY <1>f DEF Used, FileNow
<1>2. HomeDir(g, n) \in Dir /\ HomeUser(g, n) \in User
  BY <1>f, UsedHome DEF FileNow
<1>3. HomeFile(h, n)' = keystore'[HomeDir(g, n)][HomeUser(g, n)]
  BY <1>1 DEF HomeFile, HomeDir, HomeUser
<1>4. HomeFile(g, n) = keystore[HomeDir(g, n)][HomeUser(g, n)]
  BY DEF HomeFile, HomeDir, HomeUser
<1>5. CASE HomeDir(g, n) = dir(c) /\ HomeUser(g, n) = u
  <2>1. HomeFile(h, n)' = keystore'[dir(c)][u]
    BY <1>3, <1>5
  <2>2. HomeFile(h, n)' # NoFile /\ HomeFile(h, n)'.kek.salt = k
    BY <1>f, <2>1 DEF FileNow
  <2> QED
    BY <1>1, <1>5, <2>2
<1>6. CASE ~(HomeDir(g, n) = dir(c) /\ HomeUser(g, n) = u)
  <2>1. HomeFile(h, n)' = HomeFile(g, n)
    BY <1>f, <1>2, <1>3, <1>4, <1>6 DEF FileNow
  <2> QED
    BY <1>1, <1>6, <2>1
<1> QED
  BY <1>5, <1>6

(* A salt that was current is the row's, if it is its file that is written.*)
LEMMA WrittenOver ==
    ASSUME ClientKnows, NEW g, NEW h, NEW c, NEW u, NEW p, NEW k, WrittenBy(g, h, c, u, p, k),
           NEW n, Used(g, n)
    PROVE  /\ Current(h, n)' => Current(g, n)
           /\ Current(g, n) /\ ~Current(h, n)' =>
                 HomeUser(g, n) = u /\ UserExists(u) /\ n = users[u].salt /\ u \in unsettled'
<1>1. /\ n # k
      /\ IF HomeDir(g, n) = dir(c) /\ HomeUser(g, n) = u
         THEN HomeFile(h, n)' # NoFile /\ HomeFile(h, n)'.kek.salt = k
         ELSE HomeFile(h, n)' = HomeFile(g, n)
  BY OldHome
<1>2. CASE HomeDir(g, n) = dir(c) /\ HomeUser(g, n) = u
  <2>1. HomeFile(g, n) = keystore[dir(c)][u]
    BY <1>2 DEF HomeFile, HomeDir, HomeUser
  <2> QED
    BY <1>1, <1>2, <2>1 DEF Current, Writes, InPlace, WrittenBy
<1>3. CASE ~(HomeDir(g, n) = dir(c) /\ HomeUser(g, n) = u)
  BY <1>1, <1>3 DEF Current
<1> QED
  BY <1>2, <1>3

LEMMA WrittenMade ==
    ASSUME ServerKnows, ClientKnows, NEW g, NEW h, NEW c, NEW u, NEW p, NEW k,
           WrittenBy(g, h, c, u, p, k), NEW r
    PROVE  /\ Made(g, r) => Made(h, r)'
           /\ Change(g, r) /\ Awaited(g, r) => Awaited(h, r)'
           /\ Change(g, r) /\ Awaited(g, r) /\ Accepted(g, r) /\ Used(g, users[r.username].salt)
                 => Accepted(h, r)'
<1>1. UNCHANGED users
  BY DEF WrittenBy, Writes, vars, dbVars
<1>2. ASSUME Registration(g, r)
      PROVE  Registration(h, r)'
  <2>1. PICK n : n = r.row.salt
    OBVIOUS
  <2>2. /\ Used(g, n) /\ HomeUser(g, n) = r.username
        /\ r.row.auth_pub = auth_key(KekOf(g, n))
        /\ ~UserExists(r.username) => Current(g, n)
    BY <1>2, <2>1 DEF Registration
  <2>3. Used(h, n) /\ h[n] = g[n]
    BY <2>2, OldHome
  <2>4. ~UserExists(r.username) => Current(h, n)'
    BY <2>2, WrittenOver
  <2> QED
    BY <1>1, <2>1, <2>2, <2>3, <2>4 DEF Registration, Used, HomeUser, KekOf, UserExists
<1>3. ASSUME Change(g, r)
      PROVE  Change(h, r)'
  <2>1. PICK m, o : m = r.new_salt /\ o = SaltOf(r.sig.key)
    OBVIOUS
  <2>2. /\ Used(g, m) /\ Used(g, o) /\ o < m /\ r.nonce = m
        /\ HomeDir(g, o) = HomeDir(g, m) /\ HomeUser(g, o) = HomeUser(g, m)
        /\ HomeUser(g, m) = r.username /\ UserExists(r.username)
        /\ r.new_auth_pub = auth_key(KekOf(g, m))
        /\ HomeFile(g, m) # NoFile /\ m <= HomeFile(g, m).kek.salt
    BY <1>3, <2>1 DEF Change
  <2>3. /\ Used(h, m) /\ Used(h, o) /\ h[m] = g[m] /\ h[o] = g[o]
        /\ HomeFile(h, m)' # NoFile
        /\ IF HomeDir(g, m) = dir(c) /\ HomeUser(g, m) = u
           THEN HomeFile(h, m)'.kek.salt = k
           ELSE HomeFile(h, m)' = HomeFile(g, m)
    BY <2>2, OldHome
  <2>4. CASE HomeDir(g, m) = dir(c) /\ HomeUser(g, m) = u
    <3>1. HomeFile(g, m) = keystore[dir(c)][u]
      BY <2>4 DEF HomeFile, HomeDir, HomeUser
    <3>2. /\ m <= users[u].salt /\ users[u].salt < k
          /\ UserExists(u) /\ u \in User /\ k \in Draw /\ g \in Homes
      BY <2>2, <3>1 DEF Writes, InPlace, WrittenBy
    <3>3. m \in Nat /\ k \in Nat
      BY <2>2, <3>2, UsedHome DEF Draw
    <3>4. m <= k
      <4>1. users[u].salt \in Draw
        BY <3>2 DEF ServerKnows, SaltsDrawn, UserExists
      <4> QED
        BY <3>2, <3>3, <4>1 DEF Draw
    <3> QED
      BY <1>1, <2>1, <2>2, <2>3, <2>4, <3>4 DEF Change, Used, HomeDir, HomeUser, KekOf, UserExists
  <2>5. CASE ~(HomeDir(g, m) = dir(c) /\ HomeUser(g, m) = u)
    BY <1>1, <2>1, <2>2, <2>3, <2>5 DEF Change, Used, HomeDir, HomeUser, KekOf, UserExists
  <2> QED
    BY <2>4, <2>5
<1>4. ASSUME Change(g, r), Awaited(g, r)
      PROVE  Awaited(h, r)' /\ (Accepted(g, r) /\ Used(g, users[r.username].salt) => Accepted(h, r)')
  <2>1. PICK m, n : m = r.new_salt /\ n = users[r.username].salt
    OBVIOUS
  <2>2. Used(g, m) /\ HomeUser(g, m) = r.username /\ n # m
    BY <1>4, <2>1 DEF Change, Awaited
  <2>3. Current(g, m) => Current(h, m)'
    BY <2>1, <2>2, WrittenOver
  <2>4. Awaited(h, r)'
    BY <1>1, <1>4, <2>1, <2>3 DEF Awaited
  <2>5. h[m] = g[m] /\ (Used(g, n) => h[n] = g[n])
    BY <2>2, OldHome
  <2> QED
    BY <1>1, <2>1, <2>3, <2>4, <2>5 DEF Accepted, HomeDir
<1> QED
  BY <1>2, <1>3, <1>4 DEF Made

LEMMA WrittenServer ==
    ASSUME ServerKnows, ClientKnows, NEW g, NEW h, NEW c, NEW u, NEW p, NEW k,
           WrittenBy(g, h, c, u, p, k), ServerHomes(g)
    PROVE  ServerHomes(h)'
<1>1. UNCHANGED vars /\ UNCHANGED users /\ unsettled \subseteq unsettled'
  BY DEF WrittenBy, Writes, vars, dbVars
<1>2. UNCHANGED <<pc, req, reply>>
  BY <1>1 DEF vars, threadVars
<1>3. ASSUME NEW v \in User
      PROVE  RowHome(h, v)'
  <2> SUFFICES ASSUME UserExists(v) PROVE RowHome(h, v)'
    BY <1>1 DEF RowHome, UserExists
  <2>1. PICK n : n = users[v].salt
    OBVIOUS
  <2>2. /\ Used(g, n) /\ HomeUser(g, n) = v /\ users[v].auth_pub = auth_key(KekOf(g, n))
        /\ HomeFile(g, n) # NoFile /\ (v \notin unsettled => Current(g, n))
    BY <2>1 DEF ServerHomes, RowHome
  <2>3. Used(h, n) /\ h[n] = g[n] /\ HomeFile(h, n)' # NoFile
    BY <2>2, OldHome
  <2>4. v \notin unsettled' => Current(h, n)'
    BY <1>1, <2>2, WrittenOver
  <2> QED
    BY <1>1, <2>1, <2>2, <2>3, <2>4 DEF RowHome, UserExists, Used, HomeUser, KekOf
<1>4. ASSUME NEW t \in Thread
      PROVE  ThreadHome(h, t)'
  <2> SUFFICES ASSUME pc[t] # "idle" PROVE ThreadHome(h, t)'
    BY <1>2 DEF ThreadHome, Changes
  <2>r. PICK r : r = req[t] /\ r = req'[t]
    BY <1>2
  <2>0. ThreadHome(h, t)' <=>
            /\ Made(h, r)'
            /\ Changes(t) /\ pc[t] # "respond" => Awaited(h, r)'
            /\ Changes(t) /\ Proved(t) => Accepted(h, r)'
            /\ pc[t] = "respond" /\ reply[t].type = "OK" => Answered(h, t)'
    BY <1>2, <2>r DEF ThreadHome, Changes, Proved
  <2>1. /\ Made(g, r)
        /\ Changes(t) /\ pc[t] # "respond" => Awaited(g, r)
        /\ Changes(t) /\ Proved(t) => Accepted(g, r)
        /\ pc[t] = "respond" /\ reply[t].type = "OK" => Answered(g, t)
    BY <2>r DEF ServerHomes, ThreadHome
  <2>2. Made(h, r)'
    BY <2>1, WrittenMade
  <2>3. r.username \in User
    BY <2>r, RequestParts DEF ServerKnows, ThreadKnows
  <2>4. Changes(t) => Change(g, r) /\ Used(g, users[r.username].salt)
    BY <2>1, <2>3, <2>r DEF Made, Changes, Change, ServerHomes, RowHome
  <2>5. Proved(t) => pc[t] # "respond"
    BY DEF Proved
  <2>6. ASSUME pc[t] = "respond", reply[t].type = "OK"
        PROVE  Answered(h, t)'
    <3>1. ASSUME r.type = "CHANGE_PASSWORD", Current(h, r.new_salt)'
          PROVE  users[r.username].salt = r.new_salt
      <4>1. PICK n : n = r.new_salt
        OBVIOUS
      <4>2. Used(g, n)
        BY <2>1, <3>1, <4>1 DEF Made, Change
      <4>3. Current(g, n)
        BY <3>1, <4>1, <4>2, WrittenOver
      <4> QED
        BY <2>1, <2>6, <2>r, <3>1, <4>1, <4>3 DEF Answered
    <3>2. PICK n : n = reply[t].salt /\ n = reply'[t].salt
      BY <1>2
    <3>3. ASSUME r.type = "GET_SALT"
          PROVE  /\ Used(h, n) /\ UserExists(r.username) /\ HomeUser(h, n) = r.username
                 /\ Current(h, n)' => users[r.username].salt = n
      <4>1. /\ Used(g, n) /\ UserExists(r.username) /\ HomeUser(g, n) = r.username
            /\ Current(g, n) => users[r.username].salt = n
        BY <2>1, <2>6, <2>r, <3>2, <3>3 DEF Answered
      <4>2. Used(h, n) /\ h[n] = g[n] /\ (Current(h, n)' => Current(g, n))
        BY <4>1, OldHome, WrittenOver
      <4> QED
        BY <4>1, <4>2 DEF HomeUser
    <3> QED
      BY <1>1, <2>r, <3>1, <3>2, <3>3 DEF Answered, Used, HomeUser, UserExists
  <2>7. ASSUME Changes(t)
        PROVE  /\ pc[t] # "respond" => Awaited(h, r)'
               /\ Proved(t) => Accepted(h, r)'
    BY <2>1, <2>4, <2>5, <2>7, WrittenMade
  <2> QED
    BY <2>0, <2>2, <2>6, <2>7
<1> QED
  BY <1>3, <1>4 DEF ServerHomes

LEMMA WrittenFiles ==
    ASSUME ClientKnows, NEW g, NEW h, NEW c, NEW u, NEW p, NEW k, WrittenBy(g, h, c, u, p, k),
           ClientHomes(g), NEW d \in Dir, NEW v \in User
    PROVE  FileHome(h, d, v)'
<1>1. FileNow(g, h, c, u, p, k) /\ FileHome(g, d, v)
  BY FileWritten DEF ClientHomes
<1>2. CASE d = dir(c) /\ v = u
  <2>1. keystore'[d][v].kek.salt = k /\ keystore'[d][v].kek.password = p
    BY <1>1, <1>2 DEF FileNow
  <2> QED
    BY <1>1, <1>2, <2>1 DEF FileNow, FileHome
<1>3. CASE d # dir(c) \/ v # u
  <2>1. keystore'[d][v] = keystore[d][v]
    BY <1>1, <1>3 DEF FileNow
  <2>2. keystore[d][v] # NoFile =>
            LET kek == keystore[d][v].kek
            IN  kek.salt \in Draw /\ g[kek.salt] = <<d, v, kek.password>> /\ kek.salt # k
    BY <1>1 DEF FileHome, FileNow, Unused
  <2> QED
    BY <1>1, <2>1, <2>2 DEF FileNow, FileHome
<1> QED
  BY <1>2, <1>3

(* The other clients have other directories.                               *)
LEMMA WrittenClient ==
    ASSUME OwnDirs, ServerKnows, ClientKnows, NEW g, NEW h, NEW c, NEW u, NEW p, NEW k,
           WrittenBy(g, h, c, u, p, k), ClientHomes(g), draws' \in Nat, draws <= draws',
           NEW d \in Client \ {c}, cpc'[d] = cpc[d], job'[d] = job[d], out'[d] = out[d], conn'[d] = conn[d],
           cpc[d] \in Changing => job[d].draw # k
    PROVE  ClientHome(h, d)'
<1>1. /\ FileNow(g, h, c, u, p, k) /\ ClientHome(g, d) /\ UNCHANGED users
      /\ c \in Client /\ dir(d) # dir(c) /\ dir(d) \in Dir
  BY FileWritten, AccountsAssumption DEF ClientHomes, OwnDirs, dir, WrittenBy, Writes, vars, dbVars
<1>2. \A v \in User : keystore'[dir(d)][v] = keystore[dir(d)][v]
  BY <1>1 DEF FileNow
<1>r. PICK r : r = out[d] /\ r = out'[d]
  OBVIOUS
<1>3. r # NoRequest => Made(h, r)'
  BY <1>1, <1>r, WrittenMade DEF ClientHome
<1>4. cpc[d] \in Changing => job[d].draw \in Draw
  BY DEF ClientKnows, StepKnows, Changing
<1>5. cpc[d] \in Changing => job[d].draw < draws' /\ h[job[d].draw] = Unused
  BY <1>1, <1>4, AccountsAssumption DEF ClientHome, FileNow, Draw, ClientKnows, ClientTypeOK
<1>6. cpc[d] # "idle" => job[d].user \in User
  BY DEF ClientKnows, StepKnows, Job
<1>7. ASSUME cpc[d] = "change"
      PROVE  /\ HomeDir(h, r.new_salt) = dir(d) /\ Current(h, r.new_salt)'
             /\ Unsent(d) => Awaited(h, r)'
  <2>1. r.type = "CHANGE_PASSWORD" /\ r # NoRequest
    BY <1>1, <1>7, <1>r, RequestParts DEF ClientHome, ClientKnows, StepKnows
  <2>2. Change(g, r)
    BY <1>1, <1>r, <2>1 DEF ClientHome, Made
  <2>3. PICK n : n = r.new_salt
    OBVIOUS
  <2>4. Used(g, n) /\ HomeDir(g, n) = dir(d) /\ Current(g, n)
    BY <1>1, <1>7, <1>r, <2>2, <2>3 DEF ClientHome, Change
  <2>5. h[n] = g[n] /\ HomeFile(h, n)' = HomeFile(g, n)
    BY <1>1, <2>4, OldHome
  <2>6. HomeDir(h, n) = dir(d) /\ Current(h, n)'
    BY <2>4, <2>5 DEF HomeDir, Current
  <2>7. Unsent(d) => Awaited(h, r)'
    BY <1>1, <1>r, <2>2, WrittenMade DEF ClientHome
  <2> QED
    BY <2>3, <2>6, <2>7
<1> QED
  BY <1>1, <1>2, <1>r, <1>3, <1>5, <1>6, <1>7 DEF ClientHome, MyFile, Unsent, dir, HomeDir, UserExists, Changing

LEMMA WrittenHomes ==
    ASSUME OwnDirs, ServerKnows, ClientKnows, NEW g, NEW h, NEW c, NEW u, NEW p, NEW k,
           WrittenBy(g, h, c, u, p, k), ServerHomes(g), ClientHomes(g),
           NEW label, NEW j, NEW r, Call(c, label, j, r), label \notin Changing,
           draws' \in Nat, draws <= draws', k < draws',
           \A d \in Client \ {c} : cpc[d] \in Changing => job[d].draw # k,
           ClientHome(h, c)'
    PROVE  ServerHomes(h)' /\ ClientHomes(h)'
<1>1. ServerHomes(h)'
  BY WrittenServer
<1>2. \A d \in Dir, v \in User : FileHome(h, d, v)'
  BY WrittenFiles
<1>3. /\ cpc' = [cpc EXCEPT ![c] = label] /\ job' = [job EXCEPT ![c] = j]
      /\ out' = [out EXCEPT ![c] = r] /\ conn' = [conn EXCEPT ![c] = NoConn]
      /\ cpc \in [Client -> CpcLabels] /\ job \in [Client -> Job \cup {NoJob}]
      /\ out \in [Client -> AccountRequests \cup {NoRequest}]
      /\ conn \in [Client -> Thread \cup {NoConn}] /\ draws \in Nat
      /\ FileNow(g, h, c, u, p, k) /\ FreshDraws(g) /\ c \in Client
  <2>1. FileNow(g, h, c, u, p, k)
    BY FileWritten
  <2>2. draws \in Nat
    BY AccountsAssumption DEF ClientKnows, ClientTypeOK
  <2> QED
    BY <2>1, <2>2 DEF Call, ClientKnows, ClientTypeOK, ClientHomes, WrittenBy
<1>4. /\ cpc'[c] = label
      /\ \A d \in Client \ {c} : /\ cpc'[d] = cpc[d] /\ job'[d] = job[d]
                                 /\ out'[d] = out[d] /\ conn'[d] = conn[d]
  BY <1>3
<1>5. \A d \in Client \ {c} : ClientHome(h, d)'
  BY <1>4, WrittenClient
<1>6. FreshDraws(h)'
  <2>1. \A n \in Draw : n >= draws' => h[n] = Unused
    BY <1>3 DEF FreshDraws, FileNow, Draw
  <2> QED
    BY <1>3, <1>4, <2>1 DEF FreshDraws
<1> QED
  BY <1>1, <1>2, <1>5, <1>6 DEF ClientHomes

LEMMA SignupHomes ==
    ASSUME Careful, ServerKnows, ClientKnows, NEW g \in Homes, ServerHomes(g), ClientHomes(g), SentOnce,
           NEW c \in Client, NEW u \in User, NEW p \in Password, signup(c, u, p)
    PROVE  InStep'
<1>1. PICK k : k = draws
  OBVIOUS
<1>2. /\ k \in Draw /\ k \in Nat /\ draws' = k + 1 /\ g[k] = Unused
      /\ keystore[dir(c)][u] = NoFile /\ UNCHANGED vars /\ unsettled' = unsettled
      /\ Keys!save_keys(dir(c), u, identity(k), [password |-> p, salt |-> k])
      /\ Call(c, "signup", NewJob(u, p, p, k), REGISTER(u, p, k))
  BY <1>1, AccountsAssumption
     DEF signup, Careful, ClientKnows, ClientTypeOK, ClientHomes, FreshDraws, Draw
<1>3. identity(k) \in Identity
  BY <1>2 DEF Identity
<1> DEFINE hh == [g EXCEPT ![k] = <<dir(c), u, p>>]
<1>4. dir(c) \in Dir
  BY AccountsAssumption DEF dir
<1>h. PICK h : h = hh
  OBVIOUS
<1>5. h \in Homes
  BY <1>4, <1>h DEF Homes
<1>6. WrittenBy(g, h, c, u, p, k)
  BY <1>2, <1>3, <1>5, <1>h DEF WrittenBy, Writes, InPlace
<1> HIDE DEF hh
<1>7. \A d \in Client \ {c} : cpc[d] \in Changing => job[d].draw # k
  BY <1>1, <1>2 DEF ClientHomes, ClientHome
<1>8. /\ cpc'[c] = "signup" /\ out'[c] = REGISTER(u, p, k)
      /\ \A d \in Client \ {c} : /\ cpc'[d] = cpc[d] /\ out'[d] = out[d] /\ conn'[d] = conn[d]
  BY <1>2 DEF Call, ClientKnows, ClientTypeOK
<1>9. ClientHome(h, c)'
  <2>1. /\ Used(h, k) /\ HomeUser(h, k) = u /\ Current(h, k)' /\ KekOf(h, k) = [password |-> p, salt |-> k]
    BY <1>6, NewHome
  <2>r. PICK r : r = REGISTER(u, p, k)
    OBVIOUS
  <2>2. /\ r.type = "REGISTER" /\ r.row.salt = k /\ r.username = u
        /\ r.row.auth_pub = auth_key(KekOf(h, k))
    BY <2>1, <2>r DEF REGISTER, AccountRow
  <2>3. Made(h, r)'
    BY <2>1, <2>2 DEF Made, Registration, Used, HomeUser, KekOf
  <2> QED
    BY <1>8, <2>2, <2>3, <2>r DEF ClientHome, Changing, Unsent
<1>10. ServerHomes(h)' /\ ClientHomes(h)'
  <2>1. "signup" \notin Changing /\ draws' \in Nat /\ draws <= draws' /\ k < draws'
    BY <1>1, <1>2 DEF Changing
  <2> QED
    BY <1>2, <1>6, <1>7, <1>9, <2>1, WrittenHomes DEF Careful
<1>11. SentOnce'
  <2>1. \A d \in Client : Unsent(d)' => Unsent(d) /\ out'[d] = out[d]
    BY <1>8 DEF Unsent
  <2>2. UNCHANGED threadVars
    BY <1>2 DEF vars
  <2> QED
    BY <2>1, <2>2, QuietSentOnce
<1> QED
  BY <1>5, <1>10, <1>11 DEF InStep

LEMMA RewrapSaveHomes ==
    ASSUME OwnDirs, ServerKnows, ClientKnows, NEW g \in Homes, ServerHomes(g), ClientHomes(g), SentOnce,
           NEW c \in Client, rewrap_save(c)
    PROVE  InStep'
<1>1. PICK k, u, o, p, q : k = job[c].draw /\ u = job[c].user /\ o = job[c].salt
                           /\ p = job[c].password /\ q = job[c].new_password
  OBVIOUS
<1>2. /\ k \in Draw /\ u \in User /\ q \in Password /\ job[c].keys \in Identity
      /\ cpc[c] = "rewrap_save"
  BY <1>1 DEF rewrap_save, ClientKnows, StepKnows, Job
<1>3. /\ k < draws /\ g[k] = Unused /\ keystore[dir(c)][u] # NoFile
      /\ keystore[dir(c)][u].kek.salt = o /\ UserExists(u) /\ users[u].salt = o /\ o < k
  BY <1>1, <1>2 DEF ClientHomes, ClientHome, MyFile, Changing
<1>r. PICK r : r = CHANGE_PASSWORD(u, old_kek(c), q, k)
  OBVIOUS
<1>4. /\ UNCHANGED vars /\ draws' = draws /\ unsettled' = unsettled \cup {u}
      /\ Keys!save_keys(dir(c), u, job[c].keys, [password |-> q, salt |-> k])
      /\ Call(c, "change", job[c], r)
  BY <1>1, <1>r DEF rewrap_save, new_kek
<1> DEFINE hh == [g EXCEPT ![k] = <<dir(c), u, q>>]
<1>5. dir(c) \in Dir
  BY AccountsAssumption DEF dir
<1>h. PICK h : h = hh
  OBVIOUS
<1>6. h \in Homes
  BY <1>2, <1>5, <1>h DEF Homes
<1>7. WrittenBy(g, h, c, u, q, k)
  BY <1>2, <1>3, <1>4, <1>6, <1>h DEF WrittenBy, Writes, InPlace
<1> HIDE DEF hh
<1>8. /\ cpc'[c] = "change" /\ out'[c] = r /\ job'[c] = job[c]
      /\ \A d \in Client \ {c} : /\ cpc'[d] = cpc[d] /\ out'[d] = out[d] /\ conn'[d] = conn[d]
  BY <1>4 DEF Call, ClientKnows, ClientTypeOK
<1>9. /\ r.type = "CHANGE_PASSWORD" /\ r.username = u /\ r.nonce = k /\ r.new_salt = k
      /\ SaltOf(r.sig.key) = o /\ r.new_auth_pub = auth_key([password |-> q, salt |-> k])
  BY <1>1, <1>r DEF CHANGE_PASSWORD, SaltOf, auth_key, old_kek
<1>10. /\ Used(h, k) /\ HomeDir(h, k) = dir(c) /\ HomeUser(h, k) = u /\ Current(h, k)'
       /\ KekOf(h, k) = [password |-> q, salt |-> k]
  BY <1>7, NewHome
<1>11. Used(h, o) /\ HomeDir(h, o) = dir(c) /\ HomeUser(h, o) = u
  <2>1. o \in Draw /\ g[o] = <<dir(c), u, keystore[dir(c)][u].kek.password>>
    BY <1>2, <1>3, <1>5 DEF ClientHomes, FileHome
  <2>2. Used(g, o)
    BY <2>1 DEF Used, Unused
  <2>3. Used(h, o) /\ h[o] = g[o]
    BY <1>7, <2>2, OldHome
  <2> QED
    BY <2>1, <2>3 DEF HomeDir, HomeUser
<1>12. ClientHome(h, c)'
  <2>1. users' = users
    BY <1>4 DEF vars, dbVars
  <2>2. HomeFile(h, k)' # NoFile /\ k <= HomeFile(h, k)'.kek.salt
    BY <1>2, <1>10 DEF Current, Draw
  <2>3. Change(h, r)'
    BY <1>3, <1>9, <1>10, <1>11, <2>1, <2>2 DEF Change, Used, HomeDir, HomeUser, KekOf, UserExists
  <2>4. o # k
    BY <1>2, <1>3 DEF Draw
  <2>5. Awaited(h, r)'
    BY <1>3, <1>9, <1>10, <2>1, <2>4 DEF Awaited
  <2> QED
    BY <1>1, <1>8, <1>9, <1>10, <2>3, <2>5
       DEF ClientHome, Made, Changing, Unsent, HomeDir, dir
<1>13. ServerHomes(h)' /\ ClientHomes(h)'
  <2>1. "change" \notin Changing /\ draws' \in Nat /\ draws <= draws' /\ k < draws'
    BY <1>3, <1>4, AccountsAssumption DEF Changing, ClientKnows, ClientTypeOK
  <2>2. \A d \in Client \ {c} : cpc[d] \in Changing => job[d].draw # k
    BY <1>1, <1>2 DEF ClientHomes, FreshDraws, Changing
  <2> QED
    BY <1>4, <1>7, <1>12, <2>1, <2>2, WrittenHomes
<1>14. SentOnce'
  <2>1. \A t \in Thread : Changes(t) => req[t].nonce # k
    <3> SUFFICES ASSUME NEW t \in Thread, Changes(t) PROVE req[t].nonce # k
      OBVIOUS
    <3>1. Change(g, req[t])
      BY DEF ServerHomes, ThreadHome, Made, Changes
    <3> QED
      BY <1>3, <3>1 DEF Change, Used
  <2>2. UNCHANGED <<pc, req>>
    BY <1>4 DEF vars, threadVars
  <2> QED
    BY <1>8, <1>9, <2>1, <2>2 DEF SentOnce, Changes, Unsent
<1> QED
  BY <1>6, <1>13, <1>14 DEF InStep

-----------------------------------------------------------------------------
(* The steps.                                                              *)

HomesHeld(h) == h \in Homes /\ ServerHomes(h) /\ ClientHomes(h) /\ SentOnce

(* A step of one client that leaves the server and the files alone.        *)
LEMMA ClientOnly ==
    ASSUME NEW h, HomesHeld(h), UNCHANGED <<vars, keystore, unsettled>>, ClientHomes(h)',
           \A d \in Client : Unsent(d)' => Unsent(d) /\ out'[d] = out[d]
    PROVE  InStep'
<1>1. UNCHANGED <<users, keystore>> /\ UNCHANGED threadVars
  BY DEF vars, dbVars
<1>2. ServerHomes(h)' /\ SentOnce'
  BY <1>1, QuietHomes, QuietSentOnce DEF HomesHeld
<1> QED
  BY <1>2 DEF InStep, HomesHeld

(* A step of the server or of nobody.                                      *)
LEMMA NothingMoves ==
    ASSUME NEW h, HomesHeld(h), UNCHANGED <<users, threadVars, clientVars>>
    PROVE  InStep'
<1>1. UNCHANGED <<users, keystore>> /\ unsettled' = unsettled /\ UNCHANGED <<cpc, job, out, conn, draws>>
      /\ UNCHANGED threadVars
  BY DEF clientVars
<1>2. \A d \in Client : Unsent(d)' => Unsent(d) /\ out'[d] = out[d]
  BY <1>1 DEF Unsent
<1>3. ServerHomes(h)' /\ SentOnce'
  BY <1>1, <1>2, QuietHomes, QuietSentOnce DEF HomesHeld
<1>4. \A r : (Made(h, r) => Made(h, r)') /\ (Awaited(h, r) => Awaited(h, r)')
  BY <1>1, RequestsStay
<1>5. \A c \in Client : ClientHome(h, c)'
  BY <1>1, <1>4
     DEF HomesHeld, ClientHomes, ClientHome, MyFile, Unsent, dir, UserExists, Current, HomeFile, HomeDir
<1>6. (\A d \in Dir, u \in User : FileHome(h, d, u)') /\ FreshDraws(h)'
  BY <1>1 DEF HomesHeld, ClientHomes, FileHome, FreshDraws
<1> QED
  BY <1>3, <1>5, <1>6 DEF InStep, HomesHeld, ClientHomes

LEMMA BeginHomes ==
    ASSUME Careful, ServerKnows, ClientKnows, NEW h, HomesHeld(h), NEW c \in Client, Begin(c)
    PROVE  InStep'
<1>1. CASE \E u \in User, p \in Password : signup(c, u, p)
  BY <1>1, SignupHomes DEF HomesHeld
<1>2. ASSUME NEW u \in User, NEW p \in Password, login_op(c, u, p) PROVE InStep'
  <2>1. PICK r, j : r = Plain("LOGIN_CHALLENGE_REQ", u) /\ j = NewJob(u, p, p, 0)
    OBVIOUS
  <2>2. Made(h, r) /\ Call(c, "challenge", j, r) /\ UNCHANGED <<vars, keystore, draws, unsettled>>
    BY <1>2, <2>1 DEF Made, Plain, login_op
  <2>3. UNCHANGED <<users, keystore, draws>>
    BY <2>2 DEF vars, dbVars
  <2>4. ClientHomes(h)' /\ \A d \in Client : Unsent(d)' => Unsent(d) /\ out'[d] = out[d]
    BY <2>2, <2>3, GoesOnHomes DEF HomesHeld, Changing
  <2> QED
    BY <2>2, <2>4, ClientOnly
<1>3. ASSUME NEW p \in Password, NEW q \in Password, change_password_op(c, p, q) PROVE InStep'
  <2>1. draws \in Draw /\ draws' = draws + 1 /\ draws \in Nat
    BY <1>3, AccountsAssumption DEF change_password_op, ClientKnows, ClientTypeOK, Draw
  <2>2. PICK r, j : r = Plain("GET_SALT", session[c].user) /\ j = NewJob(session[c].user, p, q, draws)
    OBVIOUS
  <2>3. /\ Made(h, r) /\ Call(c, "salt", j, r) /\ UNCHANGED <<vars, keystore, unsettled>>
        /\ j.draw = draws
    BY <1>3, <2>2 DEF Made, Plain, NewJob, change_password_op
  <2>4. h[draws] = Unused /\ \A m \in Draw : m >= draws' => h[m] = Unused
    BY <2>1 DEF HomesHeld, ClientHomes, FreshDraws, Draw
  <2>5. \A u \in User : keystore[dir(c)][u] # NoFile => keystore[dir(c)][u].kek.salt < draws
    <3> SUFFICES ASSUME NEW u \in User, keystore[dir(c)][u] # NoFile
                 PROVE  keystore[dir(c)][u].kek.salt < draws
      OBVIOUS
    <3>1. PICK n : n = keystore[dir(c)][u].kek.salt
      OBVIOUS
    <3>2. dir(c) \in Dir
      BY AccountsAssumption DEF dir
    <3>3. n \in Draw /\ h[n] # Unused
      BY <3>1, <3>2 DEF HomesHeld, ClientHomes, FileHome, Unused
    <3> QED
      BY <2>1, <3>1, <3>3 DEF HomesHeld, ClientHomes, FreshDraws, Draw
  <2>6. \A d \in Client \ {c} : cpc[d] \in Changing => job[d].draw # draws
    BY <2>1 DEF HomesHeld, ClientHomes, ClientHome
  <2>7. UNCHANGED <<users, keystore>> /\ draws' \in Nat /\ draws <= draws' /\ draws < draws'
    BY <2>1, <2>3 DEF vars, dbVars
  <2>8. ClientHomes(h)' /\ \A d \in Client : Unsent(d)' => Unsent(d) /\ out'[d] = out[d]
    BY <2>3, <2>4, <2>5, <2>6, <2>7, CallHomes DEF HomesHeld
  <2> QED
    BY <2>3, <2>8, ClientOnly
<1>4. CASE logout(c)
  <2>1. UNCHANGED <<vars, keystore, unsettled, cpc, job, out, conn, draws>>
    BY <1>4 DEF logout
  <2>2. \A r : (Made(h, r) => Made(h, r)') /\ (Awaited(h, r) => Awaited(h, r)')
    BY <2>1, RequestsStay DEF vars, dbVars
  <2>3. ClientHomes(h)'
    BY <2>1, <2>2
       DEF HomesHeld, ClientHomes, ClientHome, MyFile, Unsent, dir, UserExists, Current, HomeFile, HomeDir,
           FileHome, FreshDraws, vars, dbVars
  <2> QED
    BY <2>1, <2>3, ClientOnly DEF Unsent
<1> QED
  BY <1>1, <1>2, <1>3, <1>4 DEF Begin

LEMMA SendHomes ==
    ASSUME OwnDirs, ServerKnows, ClientKnows, NEW h, HomesHeld(h), NEW c \in Client, NEW t \in Thread, Send(c, t)
    PROVE  InStep'
<1>r. PICK r : r = out[c]
  OBVIOUS
<1>1. /\ r \in AccountRequests /\ conn[c] = NoConn /\ Deliver(t, r)
      /\ UNCHANGED <<keystore, cpc, job, out, draws, unsettled>>
      /\ conn'[c] = t /\ t # NoConn /\ \A d \in Client \ {c} : conn'[d] = conn[d]
  BY <1>r, SendKeeps, AccountsAssumption DEF Send, ClientKnows, ClientTypeOK
<1>2. /\ pc[t] = "idle" /\ pc'[t] = "dispatch" /\ req'[t] = r
      /\ \A v \in Thread \ {t} : Kept4(v)
      /\ UNCHANGED users
  BY <1>1, DeliverServerKnows
<1>3. \A q : (Made(h, q) => Made(h, q)') /\ (Awaited(h, q) => Awaited(h, q)') /\ (Accepted(h, q) => Accepted(h, q)')
  BY <1>1, <1>2, RequestsStay
<1>4. ClientHome(h, c) /\ Made(h, r) /\ r # NoRequest
  BY <1>1, <1>r, RequestParts DEF HomesHeld, ClientHomes, ClientHome
<1>5. r.type = "CHANGE_PASSWORD" => Unsent(c)
  BY <1>1, <1>4, <1>r DEF ClientKnows, ClientTypeOK, StepKnows, CpcLabels, ClientHome, Plain, Unsent
<1>6. ThreadHome(h, t)'
  BY <1>2, <1>3, <1>4, <1>5, <1>r DEF ThreadHome, Changes, Proved, ClientHome
<1>7. ASSUME NEW v \in Thread \ {t}
      PROVE  ThreadHome(h, v)'
  <2>1. Kept4(v) /\ ThreadHome(h, v)
    BY <1>2 DEF HomesHeld, ServerHomes
  <2>2. Answered(h, v) => Answered(h, v)'
    BY <1>1, <1>2, <2>1 DEF Kept4, Answered, Current, HomeFile, Used, HomeUser, UserExists
  <2> QED
    BY <1>3, <2>1, <2>2 DEF ThreadHome, Kept4, Changes, Proved
<1>8. ServerHomes(h)'
  <2>1. \A u \in User : RowHome(h, u)'
    BY <1>1, <1>2 DEF HomesHeld, ServerHomes, RowHome, UserExists, Used, HomeUser, KekOf, HomeFile, Current
  <2> QED
    BY <1>6, <1>7, <2>1 DEF ServerHomes
<1>9. \A d \in Client : Unsent(d)' => Unsent(d) /\ out'[d] = out[d] /\ d # c
  BY <1>1 DEF Unsent
<1>10. ClientHomes(h)'
  <2>1. \A d \in Client : ClientHome(h, d)'
    BY <1>1, <1>2, <1>3, <1>9
       DEF HomesHeld, ClientHomes, ClientHome, MyFile, dir, UserExists, Current, HomeFile, HomeDir
  <2> QED
    BY <1>1, <2>1 DEF HomesHeld, ClientHomes, FileHome, FreshDraws
<1>11. SentOnce'
  <2>1. \A v \in Thread \ {t} : Changes(v)' => Changes(v) /\ req'[v] = req[v]
    BY <1>2 DEF Kept4, Changes
  <2>2. Changes(t)' => Unsent(c)
    BY <1>2, <1>5 DEF Changes
  <2>3. \A v \in Thread \ {t} : Changes(v)' /\ Changes(t)' => req'[v].nonce # req'[t].nonce
    BY <1>2, <1>r, <2>1, <2>2 DEF HomesHeld, SentOnce
  <2>4. ASSUME NEW d \in Client, Unsent(d)', Changes(t)'
        PROVE  req'[t].nonce # out'[d].nonce
    <3>1. Unsent(d) /\ d # c /\ Unsent(c) /\ out'[d] = out[d]
      BY <1>9, <2>2, <2>4
    <3>2. ClientHome(h, d) /\ out[d] # NoRequest
      BY <3>1, RequestParts DEF HomesHeld, ClientHomes, ClientKnows, StepKnows, Unsent
    <3>3. /\ HomeDir(h, r.new_salt) = dir(c) /\ HomeDir(h, out[d].new_salt) = dir(d)
          /\ r.nonce = r.new_salt /\ out[d].nonce = out[d].new_salt
      BY <1>4, <1>r, <3>1, <3>2 DEF ClientHome, Unsent, Made, Change
    <3>4. dir(c) # dir(d)
      BY <3>1 DEF OwnDirs, dir
    <3> QED
      BY <1>2, <3>1, <3>3, <3>4
  <2>5. ASSUME NEW v \in Thread, NEW d \in Client, Changes(v)', Unsent(d)'
        PROVE  req'[v].nonce # out'[d].nonce
    BY <1>9, <2>1, <2>4, <2>5 DEF HomesHeld, SentOnce
  <2>6. ASSUME NEW v \in Thread, NEW w \in Thread, Changes(v)', Changes(w)', req'[v].nonce = req'[w].nonce
        PROVE  v = w
    BY <2>1, <2>3, <2>6 DEF HomesHeld, SentOnce
  <2> QED
    BY <2>5, <2>6 DEF SentOnce
<1> QED
  BY <1>8, <1>10, <1>11 DEF InStep, HomesHeld

LEMMA ServerStepHomes ==
    ASSUME ServerKnows, ClientKnows, RowsGrow, NEW h, HomesHeld(h), NEW t \in Thread, ServerStep(t)
    PROVE  InStep'
<1>1. /\ Effect(t) /\ keystore' = keystore /\ unsettled' = unsettled
      /\ UNCHANGED <<cpc, job, out, conn, draws>>
  BY ServerStepKeeps DEF ServerStep, clientVars
<1>2. \A u \in User : RowHome(h, u)'
  BY <1>1, EffectRowHomes DEF HomesHeld
<1>3. \A v \in Thread : ThreadHome(h, v)'
  BY <1>1, EffectThreadHomes DEF HomesHeld, SentOnce
<1>4. ASSUME NEW c \in Client PROVE ClientHome(h, c)'
  <2>1. Changes(t) /\ Unsent(c) => req[t].nonce # out[c].nonce
    BY DEF HomesHeld, SentOnce
  <2> QED
    BY <1>1, <2>1, EffectClientHome DEF HomesHeld
<1>5. (\A d \in Dir, u \in User : FileHome(h, d, u)') /\ FreshDraws(h)'
  BY <1>1 DEF HomesHeld, ClientHomes, FileHome, FreshDraws
<1>6. SentOnce'
  BY <1>1, EffectSentOnce DEF HomesHeld, Unsent
<1> QED
  BY <1>2, <1>3, <1>4, <1>5, <1>6 DEF InStep, HomesHeld, ServerHomes, ClientHomes

LEMMA RestartHomes ==
    ASSUME ServerKnows, ClientKnows, NEW h, HomesHeld(h), RestartServer
    PROVE  InStep'
<1>1. (\A t \in Thread : pc'[t] = "idle") /\ users' = users
  BY RestartServerKnows DEF RestartServer, Restart, reopen
<1>2. UNCHANGED <<users, keystore>> /\ unsettled' = unsettled /\ draws' = draws
  BY <1>1 DEF RestartServer
<1>3. ASSUME NEW c \in Client
      PROVE  \/ cpc'[c] = "idle" /\ out'[c] = NoRequest
             \/ cpc'[c] = cpc[c] /\ job'[c] = job[c] /\ out'[c] = out[c] /\ conn[c] = NoConn
  BY DEF RestartServer
<1>4. \A d \in Client : Unsent(d)' => Unsent(d) /\ out'[d] = out[d]
  BY <1>3 DEF Unsent
<1>5. ServerHomes(h)' /\ SentOnce'
  BY <1>1, <1>2, <1>4, QuietHomes, QuietSentOnce DEF HomesHeld
<1>6. \A r : (Made(h, r) => Made(h, r)') /\ (Awaited(h, r) => Awaited(h, r)')
  BY <1>2, RequestsStay
<1>7. \A c \in Client : ClientHome(h, c)'
  BY <1>2, <1>3, <1>4, <1>6
     DEF HomesHeld, ClientHomes, ClientHome, Changing, MyFile, dir, UserExists, Current, HomeFile, HomeDir, Unsent
<1>8. (\A d \in Dir, u \in User : FileHome(h, d, u)') /\ FreshDraws(h)'
  BY <1>2, <1>3 DEF HomesHeld, ClientHomes, FileHome, FreshDraws, Changing
<1> QED
  BY <1>5, <1>7, <1>8 DEF InStep, HomesHeld, ClientHomes

(* What the file of the job says, when the kek of the job opens it.        *)
LEMMA OpenedHome ==
    ASSUME ClientKnows, NEW h, HomesHeld(h), NEW c \in Client, NEW u \in User, NEW kek, Keys!Opens(dir(c), u, kek)
    PROVE  /\ keystore[dir(c)][u] # NoFile /\ keystore[dir(c)][u].kek.salt = kek.salt
           /\ Used(h, kek.salt) /\ Current(h, kek.salt)
<1>1. PICK n : n = kek.salt
  OBVIOUS
<1>2. dir(c) \in Dir
  BY AccountsAssumption DEF dir
<1>3. keystore[dir(c)][u] # NoFile /\ keystore[dir(c)][u].kek.salt = n
  BY <1>1 DEF Keys!Opens
<1>4. n \in Draw /\ h[n] = <<dir(c), u, keystore[dir(c)][u].kek.password>>
  BY <1>2, <1>3 DEF HomesHeld, ClientHomes, FileHome
<1>5. Used(h, n) /\ Current(h, n)
  BY <1>3, <1>4 DEF Used, Unused, Current, HomeFile
<1> QED
  BY <1>1, <1>3, <1>5

LEMMA ReceiveHomes ==
    ASSUME ServerKnows, ClientKnows, RowsGrow, NEW h, HomesHeld(h), NEW c \in Client, Receive(c)
    PROVE  InStep'
<1>t. PICK t, response : t = conn[c] /\ response = reply[t]
  OBVIOUS
<1>1. /\ t \in Thread /\ pc[t] = "respond" /\ req[t] = out[c] /\ out[c] \in AccountRequests
      /\ Effect(t) /\ users' = users
  BY <1>t, ReceiveFacts DEF EndsConnection
<1>2. \/ signup_reply(c, response) \/ login_reply(c, response) \/ login_done(c, response)
      \/ change_password_salt(c, response) \/ change_password_done(c, response)
  BY <1>t DEF Receive
<1>3. keystore' = keystore /\ draws' = draws
  BY <1>2 DEF signup_reply, login_reply, login_done, change_password_salt, change_password_done
<1>s. UNCHANGED <<users, keystore, draws>>
  BY <1>1, <1>3
<1> DEFINE OthersWait == \A d \in Client : Unsent(d)' => Unsent(d) /\ out'[d] = out[d]
<1>4. ASSUME Finish(c) PROVE ClientHomes(h)' /\ OthersWait
  BY <1>s, <1>4, FinishHomes DEF HomesHeld
<1>5. ASSUME login_reply(c, response) PROVE ClientHomes(h)' /\ OthersWait
  <2>1. ASSUME NEW j, NEW k, NEW n, Call(c, "response", j, LOGIN_RESPONSE(job[c].user, k, n))
        PROVE  ClientHomes(h)' /\ OthersWait
    <3>1. PICK r : r = LOGIN_RESPONSE(job[c].user, k, n)
      OBVIOUS
    <3>2. Made(h, r) /\ Call(c, "response", j, r)
      BY <2>1, <3>1 DEF LOGIN_RESPONSE, Made
    <3> QED
      BY <1>s, <3>2, GoesOnHomes DEF HomesHeld, Changing
  <2> QED
    BY <1>4, <1>5, <2>1 DEF login_reply
<1>6. ASSUME change_password_salt(c, response) PROVE ClientHomes(h)' /\ OthersWait
  <2>1. CASE Finish(c)
    BY <1>4, <2>1
  <2>2. CASE ~Finish(c)
    <3>1. PICK u, s, j : u = job[c].user /\ s = response.salt /\ j = [job[c] EXCEPT !.salt = s]
      OBVIOUS
    <3>2. /\ cpc[c] = "salt" /\ response.type = "OK" /\ Call(c, "rewrap_load", j, NoRequest)
          /\ Keys!Opens(dir(c), u, [password |-> job[c].password, salt |-> s])
          /\ job[c] \in Job /\ u \in User /\ out[c] = Plain("GET_SALT", u)
      BY <1>6, <2>2, <3>1 DEF change_password_salt, Local, ClientKnows, StepKnows, Job
    <3>3. j.draw = job[c].draw /\ j.user = u /\ j.salt = s
      BY <3>1, <3>2 DEF Job
    <3>4. /\ keystore[dir(c)][u] # NoFile /\ keystore[dir(c)][u].kek.salt = s /\ Current(h, s)
      <4>1. PICK kek : kek = [password |-> job[c].password, salt |-> s]
        OBVIOUS
      <4> QED
        BY <3>2, <4>1, OpenedHome
    <3>5. Answered(h, t) /\ req[t].type = "GET_SALT" /\ req[t].username = u
      BY <1>1, <1>t, <3>2 DEF HomesHeld, ServerHomes, ThreadHome, Plain
    <3>6. UserExists(u) /\ users[u].salt = s
      BY <1>t, <3>1, <3>4, <3>5 DEF Answered
    <3> QED
      BY <1>s, <3>2, <3>3, <3>4, <3>6, GoesOnHomes DEF HomesHeld, Changing
  <2> QED
    BY <2>1, <2>2
<1>7. ClientHomes(h)' /\ OthersWait
  <2>1. CASE \/ signup_reply(c, response) \/ login_done(c, response) \/ change_password_done(c, response)
    BY <1>4, <2>1 DEF signup_reply, login_done, change_password_done
  <2> QED
    BY <1>2, <1>5, <1>6, <2>1
<1>8. SentOnce'
  BY <1>1, <1>7, EffectSentOnce DEF HomesHeld
<1>9. \A v \in Thread : ThreadHome(h, v)'
  BY <1>1, <1>3, EffectThreadHomes DEF HomesHeld, SentOnce
<1>10. ASSUME NEW u \in User PROVE RowHome(h, u)'
  <2>1. CASE unsettled' = unsettled
    BY <1>1, <1>3, <2>1, EffectRowHomes DEF HomesHeld
  <2>2. CASE unsettled' # unsettled
    <3>1. /\ change_password_done(c, response) /\ response.type = "OK" /\ cpc[c] = "change"
          /\ unsettled' = unsettled \ {job[c].user}
      BY <1>2, <2>2 DEF signup_reply, login_reply, login_done, change_password_salt, change_password_done
    <3>2. PICK n : n = out[c].new_salt
      OBVIOUS
    <3>3. Current(h, n) /\ out[c].type = "CHANGE_PASSWORD" /\ out[c].username = job[c].user
      BY <3>1, <3>2 DEF HomesHeld, ClientHomes, ClientHome
    <3>4. Answered(h, t)
      BY <1>1, <1>t, <3>1 DEF HomesHeld, ServerHomes, ThreadHome
    <3>5. Current(h, users[job[c].user].salt)
      BY <1>1, <3>2, <3>3, <3>4 DEF Answered
    <3>6. RowHome(h, u)
      BY DEF HomesHeld, ServerHomes
    <3> SUFFICES ASSUME UserExists(u) PROVE RowHome(h, u)'
      BY <1>s DEF RowHome, UserExists
    <3>7. PICK m : m = users[u].salt
      OBVIOUS
    <3>8. /\ Used(h, m) /\ HomeUser(h, m) = u /\ users[u].auth_pub = auth_key(KekOf(h, m))
          /\ HomeFile(h, m) # NoFile /\ (u \notin unsettled => Current(h, m))
      BY <3>6, <3>7 DEF RowHome
    <3>9. u \notin unsettled' => Current(h, m)
      BY <3>1, <3>5, <3>7, <3>8
    <3>10. HomeFile(h, m)' # NoFile /\ (Current(h, m) => Current(h, m)')
      BY <1>s, <3>8 DEF HomeFile, Current
    <3> QED
      BY <1>s, <3>7, <3>8, <3>9, <3>10 DEF RowHome, Used, HomeUser, KekOf
  <2> QED
    BY <2>1, <2>2
<1> QED
  BY <1>7, <1>8, <1>9, <1>10 DEF InStep, HomesHeld, ServerHomes

LEMMA RewrapLoadHomes ==
    ASSUME ClientKnows, NEW h, HomesHeld(h), NEW c \in Client, rewrap_load(c)
    PROVE  InStep'
<1>1. UNCHANGED <<vars, keystore, unsettled>> /\ UNCHANGED <<users, keystore, draws>> /\ cpc[c] = "rewrap_load"
  BY DEF rewrap_load, vars, dbVars
<1>2. CASE Finish(c)
  BY <1>1, <1>2, FinishHomes, ClientOnly DEF HomesHeld
<1>3. CASE ~Finish(c)
  <2>1. PICK j : j = [job[c] EXCEPT !.keys = Keys!load_keys(dir(c), job[c].user)]
    OBVIOUS
  <2>2. Call(c, "rewrap_save", j, NoRequest) /\ job[c] \in Job
    BY <1>3, <2>1 DEF rewrap_load, Local, ClientKnows, StepKnows
  <2>3. j.draw = job[c].draw /\ j.user = job[c].user /\ j.salt = job[c].salt
    BY <2>1, <2>2 DEF Job
  <2>4. /\ keystore[dir(c)][j.user] # NoFile /\ keystore[dir(c)][j.user].kek.salt = j.salt
        /\ UserExists(j.user) /\ users[j.user].salt = j.salt
    BY <1>1, <2>3 DEF HomesHeld, ClientHomes, ClientHome, MyFile
  <2>5. ClientHomes(h)' /\ \A d \in Client : Unsent(d)' => Unsent(d) /\ out'[d] = out[d]
    BY <1>1, <2>2, <2>3, <2>4, GoesOnHomes DEF HomesHeld, Changing
  <2> QED
    BY <1>1, <2>5, ClientOnly
<1> QED
  BY <1>2, <1>3

LEMMA NextHomes ==
    ASSUME Careful, AInv, InStep, [AccountsNext]_accountsVars
    PROVE  InStep'
<1>1. ServerKnows /\ ClientKnows /\ RowsGrow /\ OwnDirs
  BY NextInside, Permanence DEF AInv, ServerKnows, Careful
<1>2. PICK h : HomesHeld(h)
  BY DEF InStep, HomesHeld
<1>3. CASE UNCHANGED accountsVars
  BY <1>2, <1>3, NothingMoves DEF accountsVars, vars, dbVars
<1>4. ASSUME NEW c \in Client, Begin(c) PROVE InStep'
  BY <1>1, <1>2, <1>4, BeginHomes
<1>5. ASSUME NEW c \in Client, NEW t \in Thread, Send(c, t) PROVE InStep'
  BY <1>1, <1>2, <1>5, SendHomes
<1>6. ASSUME NEW c \in Client, Receive(c) PROVE InStep'
  BY <1>1, <1>2, <1>6, ReceiveHomes
<1>7. ASSUME NEW c \in Client, rewrap_load(c) \/ rewrap_save(c) PROVE InStep'
  BY <1>1, <1>2, <1>7, RewrapLoadHomes, RewrapSaveHomes DEF HomesHeld
<1>8. ASSUME NEW c \in Client, Refused(c) \/ Lose(c) \/ Die(c) PROVE InStep'
  <2>1. Finish(c) /\ UNCHANGED <<vars, keystore, unsettled>> /\ UNCHANGED <<users, keystore, draws>>
    BY <1>8 DEF Refused, Lose, Die, vars, dbVars
  <2>2. ClientHomes(h)' /\ \A d \in Client : Unsent(d)' => Unsent(d) /\ out'[d] = out[d]
    BY <1>1, <1>2, <2>1, FinishHomes DEF HomesHeld
  <2> QED
    BY <1>2, <2>1, <2>2, ClientOnly
<1>9. ASSUME NEW t \in Thread, ServerStep(t) PROVE InStep'
  BY <1>1, <1>2, <1>9, ServerStepHomes
<1>10. CASE Stop
  BY <1>1, <1>2, <1>10, StopKeeps, NothingMoves
<1>11. CASE RestartServer
  BY <1>1, <1>2, <1>11, RestartHomes
<1> QED
  BY <1>3, <1>4, <1>5, <1>6, <1>7, <1>8, <1>9, <1>10, <1>11 DEF AccountsNext, ClientStep

LEMMA InitHomes == AccountsInit => InStep
<1> SUFFICES ASSUME AccountsInit PROVE InStep
  OBVIOUS
<1> DEFINE h == [n \in Draw |-> Unused]
<1>1. h \in Homes
  BY DEF Homes
<1>2. ServerHomes(h)
  BY DEF AccountsInit, Init, ServerInit, DBInit, ServerHomes, RowHome, UserExists, ThreadHome, Changes
<1>3. ClientHomes(h)
  BY DEF AccountsInit, Keys!KeystoreInit, ClientHomes, FileHome, FreshDraws, ClientHome, Changing, Unsent
<1>4. SentOnce
  BY DEF AccountsInit, Init, ServerInit, SentOnce, Changes
<1> QED
  BY <1>1, <1>2, <1>3, <1>4 DEF InStep

-----------------------------------------------------------------------------
(* An account that is settled has its keystore under the kek of its row;   *)
(* the identity in it is the registered one because the salt owns both.    *)
LEMMA UsableNow ==
    ASSUME AInv, SaltsOwned, InStep, NEW u \in User, UserExists(u), u \notin unsettled
    PROVE  Usable(u)
<1>1. PICK h : HomesHeld(h)
  BY DEF InStep, HomesHeld
<1>2. PICK g \in Owners : OwnsServer(g) /\ OwnsClients(g)
  BY DEF SaltsOwned
<1>3. PICK n, d : n = users[u].salt /\ d = HomeDir(h, n)
  OBVIOUS
<1>4. /\ Used(h, n) /\ HomeUser(h, n) = u /\ users[u].auth_pub = auth_key(KekOf(h, n)) /\ Current(h, n)
  BY <1>1, <1>3 DEF HomesHeld, ServerHomes, RowHome
<1>5. d \in Dir /\ h \in Homes
  BY <1>1, <1>3, <1>4, UsedHome DEF HomesHeld
<1>6. keystore[d][u] # NoFile /\ keystore[d][u].kek.salt = n
  BY <1>3, <1>4 DEF Current, HomeFile, HomeDir, HomeUser
<1>7. keystore[d][u].kek = KekOf(h, n)
  <2>1. keystore[d][u].kek \in Kek
    BY <1>5, <1>6 DEF AInv, ClientKnows, ClientTypeOK, Keys!KeystoreTypeOK, Keys!File
  <2>2. h[n] = <<d, u, keystore[d][u].kek.password>>
    BY <1>1, <1>5, <1>6 DEF HomesHeld, ClientHomes, FileHome
  <2> QED
    BY <1>6, <2>1, <2>2 DEF KekOf, Kek
<1>8. g[n] = users[u].sig_pub /\ g[n] = keystore[d][u].keys
  BY <1>2, <1>3, <1>5, <1>6 DEF OwnsServer, OwnsRow, Owns, OwnsClients, OwnsFiles, UserExists
<1> QED
  BY <1>3, <1>4, <1>5, <1>6, <1>7, <1>8 DEF Usable

(* Every registered user can log in with some password and then has the    *)
(* registered keys (signup, change_password), unless a change of password  *)
(* was cut off between the keystore and the server: for clients with a     *)
(* directory each and users who do not sign up again, under every loss,    *)
(* crash and restart.                                                      *)
THEOREM AccountsAreUsable ==
    ASSUME Careful PROVE AccountsSpec => []AccountUsable
<1>1. AccountsInit => SaltsOwned /\ InStep
  BY InitOwns, InitHomes
<1>2. AInv /\ SaltsOwned /\ InStep /\ [AccountsNext]_accountsVars => SaltsOwned' /\ InStep'
  BY NextOwns, NextHomes
<1>3. AInv /\ SaltsOwned /\ InStep => AccountUsable
  BY UsableNow DEF AccountUsable
<1> QED
  BY <1>1, <1>2, <1>3, AccountsInvariant, PTL DEF AccountsSpec
=============================================================================

--------------------------- MODULE VaultAccounts ---------------------------
(***************************************************************************)
(* Accounts end to end: the operations signup, login, logout and           *)
(* change_password of client/client.py, on the keystore of the client's    *)
(* storage directory, against the server of module SecureVaultServer.      *)
(*                                                                         *)
(* Every _rpc is a connection of its own: the request is sent, served by a *)
(* thread of the server and answered, with steps of other clients at every *)
(* point in between.  A request can be sent and its answer lost; the       *)
(* process of a client can die between any two of its steps.               *)
(*                                                                         *)
(* os.urandom never repeats: the numbers 0, 1, 2, ... in the order of      *)
(* drawing are the salts, the identity key pairs and the request nonces.   *)
(***************************************************************************)
EXTENDS SecureVaultServer

CONSTANTS Client,       \* instances of SecureVaultClient, each in its process
          Dir,          \* storage directories
          storage_dir,  \* the directory each client works in
          Password,     \* what users type
          NoFile,       \* there is no keystore file
          NoConn,       \* no connection is open
          NoSession,    \* not logged in
          NoJob,        \* no operation under way
          Operations,   \* the operations users call
          Faults,       \* what goes wrong: see Fault
          MaxDraws      \* bound: draws from os.urandom by clients

Draw == 0 .. MaxDraws - 1

(* "lost": the network loses a request or a response; "died": the process  *)
(* of a client dies; "restart", "stop": the server's does, or is stopped;  *)
(* "again": a user signs up although there is a keystore for the name.     *)
Fault == {"lost", "died", "restart", "stop", "again"}

ASSUME AccountsAssumption ==
    /\ MaxDraws \in Nat
    /\ storage_dir \in [Client -> Dir]
    /\ Faults \subseteq Fault
    /\ Operations \subseteq {"signup", "login", "change_password"}
    /\ NoConn \notin Thread
    /\ IsFiniteSet(Thread)

(* The keys of a password and a salt, and the identity keys of a draw.     *)
Kek == [password : Password, salt : Draw \cup {FakeSalt}]
auth_key(kek) == <<"auth", kek.password, kek.salt>>
identity(n) == <<"identity", n>>
Identity == {identity(n) : n \in Draw}

(* The keys and salts of the server, and the requests of these operations. *)
AccountKeys == Identity \cup {auth_key(k) : k \in Kek}

AccountRow(salt, password, keys) ==
    [salt |-> salt, auth_pub |-> auth_key([password |-> password, salt |-> salt]),
     sig_pub |-> keys, dh_pub |-> keys]

REGISTER(u, password, n) ==
    [type |-> "REGISTER", username |-> u, row |-> AccountRow(n, password, identity(n))]

LOGIN_RESPONSE(u, kek, challenge) ==
    [type |-> "LOGIN_RESPONSE", username |-> u,
     sig |-> [key |-> auth_key(kek), payload |-> <<"challenge", challenge>>]]

CHANGE_PASSWORD(u, old, new_password, n) ==
    [type |-> "CHANGE_PASSWORD", username |-> u, nonce |-> n,
     sig |-> [key |-> auth_key(old), payload |-> payload_change_password(u, n)],
     new_salt |-> n,
     new_auth_pub |-> auth_key([password |-> new_password, salt |-> n])]

Plain(type, u) == [type |-> type, username |-> u]

AccountRequests ==
    {REGISTER(u, p, n) : u \in User, p \in Password, n \in Draw}
    \cup {Plain(type, u) : type \in {"LOGIN_CHALLENGE_REQ", "GET_SALT"}, u \in User}
    \cup {LOGIN_RESPONSE(u, k, c) : u \in User, k \in Kek, c \in 0 .. MaxChallenge - 1}
    \cup {CHANGE_PASSWORD(u, k, p, n) : u \in User, k \in Kek, p \in Password, n \in Draw}

ASSUME AccountRequestsAssumption == AccountRequests \subseteq Requests

VARIABLES keystore, \* the keystore files
          session,  \* username and keys of a client that is logged in
          cpc,      \* where the operation of each client has got to
          job,      \* its arguments and local variables
          out,      \* the request of the _rpc under way
          conn,     \* the thread that serves it, once it is sent
          draws,    \* draws from os.urandom so far
          unsettled \* history: users whose rewrapped keystore the server has
                    \* not confirmed

clientVars   == <<keystore, session, cpc, job, out, conn, draws, unsettled>>
accountsVars == <<vars, clientVars>>

Keys == INSTANCE Keystore WITH Owner <- User

ASSUME NoFileAssumption == NoFile \notin Keys!File

Session == [user : User, keys : Identity]
Job == [user : User, password : Password, new_password : Password,
        salt : Draw \cup {FakeSalt}, draw : 0 .. MaxDraws, keys : Identity \cup {NoFile}]
CpcLabels == {"idle", "signup", "challenge", "response", "salt",
              "rewrap_load", "rewrap_save", "change"}

ClientTypeOK ==
    /\ Keys!KeystoreTypeOK
    /\ session \in [Client -> Session \cup {NoSession}]
    /\ cpc \in [Client -> CpcLabels]
    /\ job \in [Client -> Job \cup {NoJob}]
    /\ out \in [Client -> AccountRequests \cup {NoRequest}]
    /\ conn \in [Client -> Thread \cup {NoConn}]
    /\ draws \in 0 .. MaxDraws
    /\ unsettled \subseteq User

AccountsInit ==
    /\ Init
    /\ Keys!KeystoreInit
    /\ session = [c \in Client |-> NoSession]
    /\ cpc = [c \in Client |-> "idle"]
    /\ job = [c \in Client |-> NoJob]
    /\ out = [c \in Client |-> NoRequest]
    /\ conn = [c \in Client |-> NoConn]
    /\ draws = 0
    /\ unsettled = {}

-----------------------------------------------------------------------------
(* How an operation goes on: with a next _rpc, with a step on the keystore *)
(* or back to its caller.                                                  *)

Call(c, label, j, r) ==
    /\ cpc' = [cpc EXCEPT ![c] = label]
    /\ job' = [job EXCEPT ![c] = j]
    /\ out' = [out EXCEPT ![c] = r]
    /\ conn' = [conn EXCEPT ![c] = NoConn]

Local(c, label, j) == Call(c, label, j, NoRequest)

Finish(c) == Local(c, "idle", NoJob)

old_kek(c) == [password |-> job[c].password, salt |-> job[c].salt]
new_kek(c) == [password |-> job[c].new_password, salt |-> job[c].draw]
dir(c) == storage_dir[c]

NewJob(u, p, q, n) == [user |-> u, password |-> p, new_password |-> q,
                       salt |-> FakeSalt, draw |-> n, keys |-> NoFile]

-----------------------------------------------------------------------------
(* The first steps of the operations, up to their first _rpc.              *)

(* The keystore is written before the server hears of the account.         *)
signup(c, u, p) ==
    /\ "signup" \in Operations
    /\ cpc[c] = "idle"
    /\ draws < MaxDraws
    /\ "again" \in Faults \/ keystore[dir(c)][u] = NoFile
    /\ Keys!save_keys(dir(c), u, identity(draws), [password |-> p, salt |-> draws])
    /\ draws' = draws + 1
    /\ Call(c, "signup", NewJob(u, p, p, draws), REGISTER(u, p, draws))
    /\ UNCHANGED <<vars, session, unsettled>>

(* The bound on challenges limits the logins that are begun.               *)
Unissued ==
    Cardinality({c \in Client : cpc[c] = "challenge" /\ conn[c] = NoConn})
    + Cardinality({t \in Thread : InFlight(t, "LOGIN_CHALLENGE_REQ")})

login_op(c, u, p) ==
    /\ "login" \in Operations
    /\ cpc[c] = "idle"
    /\ nextChallenge + Unissued < MaxChallenge
    /\ Call(c, "challenge", NewJob(u, p, p, 0), Plain("LOGIN_CHALLENGE_REQ", u))
    /\ UNCHANGED <<vars, keystore, session, draws, unsettled>>

logout(c) ==
    /\ cpc[c] = "idle"
    /\ session[c] # NoSession
    /\ session' = [session EXCEPT ![c] = NoSession]
    /\ UNCHANGED <<vars, keystore, cpc, job, out, conn, draws, unsettled>>

(* The salt and the nonce of the change are drawn here.                    *)
change_password_op(c, p, q) ==
    /\ "change_password" \in Operations
    /\ cpc[c] = "idle"
    /\ session[c] # NoSession
    /\ draws < MaxDraws
    /\ draws' = draws + 1
    /\ Call(c, "salt", NewJob(session[c].user, p, q, draws), Plain("GET_SALT", session[c].user))
    /\ UNCHANGED <<vars, keystore, session, unsettled>>

-----------------------------------------------------------------------------
(* _rpc: connect and send, receive and go on, or fail.                     *)

Send(c, t) ==
    /\ out[c] # NoRequest
    /\ conn[c] = NoConn
    /\ Deliver(t, out[c])
    /\ conn' = [conn EXCEPT ![c] = t]
    /\ UNCHANGED <<keystore, session, cpc, job, out, draws, unsettled>>

signup_reply(c, response) ==
    /\ cpc[c] = "signup"
    /\ Finish(c)
    /\ UNCHANGED <<keystore, session, draws, unsettled>>

login_reply(c, response) ==
    /\ cpc[c] = "challenge"
    /\ IF response.type = "LOGIN_CHALLENGE"
       THEN Call(c, "response", [job[c] EXCEPT !.salt = response.salt],
                 LOGIN_RESPONSE(job[c].user,
                                [password |-> job[c].password, salt |-> response.salt],
                                response.challenge))
       ELSE Finish(c)
    /\ UNCHANGED <<keystore, session, draws, unsettled>>

(* The session begins if the keystore opens under the kek of the login.    *)
login_done(c, response) ==
    /\ cpc[c] = "response"
    /\ Finish(c)
    /\ session' = IF response.type = "OK" /\ Keys!Opens(dir(c), job[c].user, old_kek(c))
                  THEN [session EXCEPT ![c] = [user |-> job[c].user,
                                               keys |-> Keys!load_keys(dir(c), job[c].user)]]
                  ELSE session
    /\ UNCHANGED <<keystore, draws, unsettled>>

(* The old password is checked on the keystore.                            *)
change_password_salt(c, response) ==
    /\ cpc[c] = "salt"
    /\ IF /\ response.type = "OK"
          /\ Keys!Opens(dir(c), job[c].user, [password |-> job[c].password, salt |-> response.salt])
       THEN Local(c, "rewrap_load", [job[c] EXCEPT !.salt = response.salt])
       ELSE Finish(c)
    /\ UNCHANGED <<keystore, session, draws, unsettled>>

change_password_done(c, response) ==
    /\ cpc[c] = "change"
    /\ Finish(c)
    /\ unsettled' = IF response.type = "OK" THEN unsettled \ {job[c].user} ELSE unsettled
    /\ UNCHANGED <<keystore, session, draws>>

(* The thread of the server sends its response and the client goes on.     *)
Receive(c) ==
    /\ conn[c] # NoConn
    /\ At(conn[c], "respond")
    /\ HandlerStep(conn[c])
    /\ LET response == reply[conn[c]]
       IN  \/ signup_reply(c, response)
           \/ login_reply(c, response)
           \/ login_done(c, response)
           \/ change_password_salt(c, response)
           \/ change_password_done(c, response)

(* Faulty variants, named after the bug, stand before the definition they  *)
(* are variants of; no action uses them.                                   *)
Refused_retries(c) ==
    /\ out[c] # NoRequest
    /\ conn[c] = NoConn
    /\ ~listening
    /\ UNCHANGED accountsVars

(* Nobody listens: ConnectionRefusedError becomes a ClientError.           *)
Refused(c) ==
    /\ out[c] # NoRequest
    /\ conn[c] = NoConn
    /\ ~listening
    /\ Finish(c)
    /\ UNCHANGED <<vars, keystore, session, draws, unsettled>>

-----------------------------------------------------------------------------
(* rewrap_keys, and then the request to the server.                        *)

rewrap_load(c) ==
    /\ cpc[c] = "rewrap_load"
    /\ IF Keys!Opens(dir(c), job[c].user, old_kek(c))
       THEN Local(c, "rewrap_save", [job[c] EXCEPT !.keys = Keys!load_keys(dir(c), job[c].user)])
       ELSE Finish(c)
    /\ UNCHANGED <<vars, keystore, session, draws, unsettled>>

rewrap_save_skipped(c) ==
    /\ cpc[c] = "rewrap_save"
    /\ Call(c, "change", job[c],
            CHANGE_PASSWORD(job[c].user, old_kek(c), job[c].new_password, job[c].draw))
    /\ UNCHANGED <<vars, keystore, session, draws, unsettled>>

rewrap_save(c) ==
    /\ cpc[c] = "rewrap_save"
    /\ Keys!save_keys(dir(c), job[c].user, job[c].keys, new_kek(c))
    /\ Call(c, "change", job[c],
            CHANGE_PASSWORD(job[c].user, old_kek(c), job[c].new_password, job[c].draw))
    /\ unsettled' = unsettled \cup {job[c].user}
    /\ UNCHANGED <<vars, session, draws>>

-----------------------------------------------------------------------------
(* Faults.                                                                 *)

(* The request never arrives, or its response does not.                    *)
Lose(c) ==
    /\ "lost" \in Faults
    /\ out[c] # NoRequest
    /\ Finish(c)
    /\ UNCHANGED <<vars, keystore, session, draws, unsettled>>

Die(c) ==
    /\ "died" \in Faults
    /\ cpc[c] # "idle"
    /\ Finish(c)
    /\ session' = [session EXCEPT ![c] = NoSession]
    /\ UNCHANGED <<vars, keystore, draws, unsettled>>

Stop ==
    /\ "stop" \in Faults
    /\ stop \/ StopListening \/ stop_db
    /\ UNCHANGED clientVars

(* The connections of the old process break.                               *)
RestartServer ==
    /\ "restart" \in Faults
    /\ Restart
    /\ LET cut == {c \in Client : conn[c] # NoConn}
       IN  /\ cpc' = [c \in Client |-> IF c \in cut THEN "idle" ELSE cpc[c]]
           /\ job' = [c \in Client |-> IF c \in cut THEN NoJob ELSE job[c]]
           /\ out' = [c \in Client |-> IF c \in cut THEN NoRequest ELSE out[c]]
           /\ conn' = [c \in Client |-> NoConn]
    /\ UNCHANGED <<keystore, session, draws, unsettled>>

(* A step of the server that no client waits for.                          *)
ServerStep(t) ==
    /\ At(t, "respond") => \A c \in Client : conn[c] # t
    /\ HandlerStep(t)
    /\ UNCHANGED clientVars

ClientStep(c) ==
    \/ \E t \in Thread : Send(c, t)
    \/ Receive(c)
    \/ Refused(c)
    \/ rewrap_load(c) \/ rewrap_save(c)

Begin(c) ==
    \/ \E u \in User, p \in Password : signup(c, u, p) \/ login_op(c, u, p)
    \/ \E p, q \in Password : change_password_op(c, p, q)
    \/ logout(c)

AccountsNext ==
    \/ \E c \in Client : Begin(c) \/ ClientStep(c) \/ Lose(c) \/ Die(c)
    \/ \E t \in Thread : ServerStep(t)
    \/ Stop
    \/ RestartServer

(* Threads and processes that can run are scheduled, and a connection that *)
(* is not lost delivers.  Nobody has to begin anything.                    *)
AccountsFairness ==
    /\ \A c \in Client : WF_accountsVars(ClientStep(c))
    /\ \A t \in Thread : WF_accountsVars(ServerStep(t))

AccountsSpec == AccountsInit /\ [][AccountsNext]_accountsVars /\ AccountsFairness

-----------------------------------------------------------------------------
(* Properties.                                                             *)

(* A session has the registered identity (login): whatever signups,        *)
(* changes of password, losses and crashes came before, on however many    *)
(* clients of one directory, the keys a login has loaded are the ones the  *)
(* server hands out to the user's contacts.                                *)
SessionKeysRegistered ==
    \A c \in Client : session[c] # NoSession =>
        /\ UserExists(session[c].user)
        /\ users[session[c].user].sig_pub = session[c].keys

Quiet == (\A c \in Client : cpc[c] = "idle") /\ (\A t \in Thread : pc[t] = "idle")

(* Some directory has the keystore of the account, encrypted under the     *)
(* password and salt that the server authenticates.                        *)
Usable(u) ==
    \E d \in Dir :
        /\ keystore[d][u] # NoFile
        /\ keystore[d][u].kek.salt = users[u].salt
        /\ auth_key(keystore[d][u].kek) = users[u].auth_pub
        /\ keystore[d][u].keys = users[u].sig_pub

(* When no operation is under way, every registered user can log in with   *)
(* some password and has the registered keys (signup, change_password),    *)
(* whatever was lost or died before: the only exception is a change of     *)
(* password that was cut off between keystore and server.  This is for     *)
(* users who do not sign up again and clients with a directory each: two   *)
(* that change the password on one directory at once can leave the         *)
(* keystore of the one and the server's row of the other.                  *)
AccountUsable ==
    Quiet => \A u \in User : UserExists(u) /\ u \notin unsettled => Usable(u)

(* No server-side account that cannot be used (the comment in signup), and *)
(* the same keys under a new kek after a change of password, without       *)
(* exception.                                                              *)
EveryAccountUsable == Quiet => \A u \in User : UserExists(u) => Usable(u)

(* Every operation returns, with a result or an error, whether the server  *)
(* is stopped, restarted or slow.                                          *)
OperationsEnd == \A c \in Client : cpc[c] # "idle" ~> cpc[c] = "idle"
=============================================================================

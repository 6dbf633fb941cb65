# SecureVault: TLA+ models and proofs

SecureVault is an end-to-end encrypted document vault: clients encrypt, sign and
share documents, a TCP server stores what it cannot read. This directory holds
TLA+ modules that model it, TLC configurations that check them on small
instances, and TLAPS proofs for instances of every size. Source paths are
relative to the repository.

## The system

| Part | Source | State | Operations |
|---|---|---|---|
| Server | `server/server.py` | one thread per connection; listener; shutdown event | `register`, `login_challenge`, `login`, `get_salt`, `get_user_pubkey`, `upload`, `share`, `get_doc`, `list_docs`, `change_password`, `_authenticate`, `start`, `stop` |
| Database | `server/db.py` | tables users, documents, shares in SQLite (file or `:memory:`), one lock | one method per statement, each a transaction |
| Session state | `server/session.py` | set of used nonces, one challenge per user; in memory only | issue and consume a challenge, check and consume a nonce, canonical payloads |
| Client accounts | `client/client.py` | keys of the session | `signup`, `login`, `logout`, `change_password`, `_rpc` |
| Client documents | `client/client.py` | none between operations | `upload`, `share`, `download`, `_get_verified_pubkey` |
| Keystore | `client/keystore.py` | one encrypted file per user and directory | `save_keys`, `load_keys`, `rewrap_keys`, `_atomic_write` |
| Trust store | `client/trust_store.py` | one JSON file per user, its copy in the session | `check`, `record_first_contact`, `mark_verified`, `_load`, `_save` |
| Formats | `common/formats.py` | none | pack and unpack blobs |
| Wire | `common/wire.py` | none; a connection has the bytes under way | `encode`, `decode`, `send_message`, `recv_message` |
| Attacker proxy | `attacker/attacker_proxy.py` | its mode, the last request | changes responses or replays requests |
| Cryptography | `crypto/*.py` | none, but for `Sha256`: hash state, buffer, length | AES-GCM, SHA-256, HMAC, ECDSA, ECDH, key derivation |
| CLI, GUI | `client/cli.py`, `client/gui.py` | the frame shown, the log, the list of contacts, an open question | one handler per button or menu entry, each around an operation of the client |
| Demos | `demo/*.py` | none | print |

**How the parts interact.** Every client operation is a sequence of `_rpc` calls;
each opens a connection, sends one request, gets one response. The server gives
every connection a thread. Handlers share only the database and the session
state, and every method of those two takes a lock: a handler is a sequence of
critical sections with the steps of other handlers in between. On the client,
keystore and trust store are files that outlive the process and that several
processes may use. The proxy sits between client and server.

**What is hard.**

- A handler checks in one critical section and acts in a later one (recipient,
  document and share row in `share`; document and share in `get_doc`; row and
  challenge in `login`; row, proof and update in `change_password`).
- Requests may be duplicated, delayed, replayed or lost; the server may stop
  under its handlers, or die and restart on its database file without its nonces.
- `signup` and `change_password` change two places, keystore and server, and can
  be cut off in between; `upload` is two requests.
- Saves must survive a crash at any point. A trust store is read once, as far as it
  can be read just then, and written back whole.
- `_rpc` has no timeout: an operation ends only if the server answers. TCP delivers
  frames in pieces, and peers may send anything or nothing.
- A question put to the user runs the event loop in the middle of an operation;
  people use one machine one after the other, and a login can fail half-way.
- Limits and edges that tests do not meet: frames and contents that are too long,
  counters that wrap, coordinates beyond the order of the group, names with colons
  and blanks.

**What makes the parts correct.** Server: requests behave as if atomic, a nonce, a
challenge, a name and a doc_id are spent once, confirmed rows stay, foreign keys
hold, every request is answered. Accounts: a session has the registered keys, an
account can always be used, operations end. Files: always one complete value.
Trust store: one bundle per contact; pins are lost only where a session could not
read them. Documents: a download
yields the document asked for, a share can be opened. Wire: a call gets the whole
answer to its own request, and ends. Formats: a blob has one reading. Front ends:
the screen belongs to the session, pins to whom accepted them. Cryptography: the
functions are those of the standards.

`PROJECT.json` lists under `hazards` each such place with its line and the
properties aimed at it.

## The modules

```
Formats <- ServerDB <- VaultRequests \
                       SessionState   } <- SecureVaultServer <- VaultAccounts (INSTANCE Keystore)
                       AtomicVault   /     (INSTANCE AtomicVault) <- VaultSharing
AtomicWrite    TrustStore    Wire    Interface
Codec  Sha256 <- Encodings      Encodings  Curve  Aes  Gcm <- Algorithms
X_proofs, which EXTENDS X: SecureVaultServer_proofs <- VaultAccounts_proofs, VaultSharing_proofs
  TrustStore_proofs  AtomicWrite_proofs  Wire_proofs  Interface_proofs  Encodings_proofs
MCServer  MCAccounts  MCSharing  MCAtomicWrite  MCTrust  MCWire  MCInterface  MCAlgorithms
```

**SecureVaultServer** (with ServerDB, SessionState, VaultRequests). `pc[t]` is the
next call on shared state of thread `t`; an action is the code from one such call
up to the next, so that handlers interleave exactly where the locks let them.
`found[t]` is what the handler has read, `reply[t]` its response. `Accept` covers
`accept()`, the thread and `recv_message`; `Refuse` a frame or payload that is
refused; `DbError` any database call after `stop()` has closed the connection;
`stop`, `StopListening` and `stop_db` are the three steps of a shutdown;
`Restart` is the death of the process and a new one on the same database file
(with the default `:memory:` everything would be lost and nothing could be said).
The network may deliver any request of `Requests` any number of times, in any
order and on several connections. `served`, `repeated` and `earlier` are history
variables. A signature is the pair of the key and of what was signed; canonical
strings are tuples, which is faithful for names without a colon (for the others
see `CanonicalBinds`).

**AtomicVault** is the abstract server: tables only, and one step per request that
takes effect, guarded by everything the handlers check. No threads, no nonces.

**VaultAccounts** composes the server with clients that run the account
operations on keystores. An operation is cut at every `_rpc` and between load and
save of `rewrap_keys`. A kek is the pair of password and salt, an authentication
key likewise; draws from `os.urandom` are 0, 1, 2, ... `Faults` chooses what may
go wrong: messages `lost`, a client that `died`, the server that is stopped or
restarted, and a user who signs up `again` for a name that has a keystore in the
directory (without it, the user is assumed not to). Time does not pass in this
composition: challenges do not expire (`Tick` belongs to the server's own runs).

**Keystore** is a file per directory and user, encrypted under a kek.

**AtomicWrite** looks inside a save: temporary file, write, fsync, replace, by
several processes that use the same temporary name, with the death of a process
anywhere and power failures. The file system is external. The history variables
`shared` and `mixed` mark the saves that overlapped another one, and the inodes
they put in place.

**TrustStore** is trust on first use over sessions (`open`, `quit`), with the
server free to hand out any bundle for any contact at any time, the user's
answer, `mark_verified` and saves that fail. `open` is the constructor with
`_load`, which gets out of the file what is `Readable`: nothing at all if the file
cannot be opened or parsed at that moment, otherwise every entry but the `bad` ones.
The file stays as it is until the session's first `_save` writes what the session
has over all of it, intact pins that were never read included. Only the damage to an
entry comes from outside (`damage`). `Exclusive` says that sessions of one user do
not overlap. `missed[s]` are the contacts that the `_load` of a session did not get;
`used` and `bound[s]` are the bundles operations went on with, in all sessions and in
the present one. A contact is forgotten (`Forget`), that is, it leaves `used`, in two
cases: a `_load` misses it, or a session ends with a pin of it that is not in the file.

**VaultSharing** composes the server with one logged-in client per user and the
proxy, which is restarted in any mode at any time. Cryptography is ideal: a GCM
tag is the triple of key, ciphertext and additional data. The trust store is a
function here, saved at once. An operation may be cut off anywhere, and what it
has sent stays with its thread. The server behind the proxy is up: `Send` covers
the proxy's own connection. Two history variables mark what a replay can do:
`abandoned` is that the client of the captured request was cut off before its
answer, `crossed` are the operations that then got an answer to it in the place of
their own, and whether they download. The server's
`share` does not require that the sender owns the document, only that it exists;
so anybody who can open a document may share it on, and so it is here.

**Wire** is one exchange per connection, as bytes: `_rpc` at one end,
`_handle_connection` at the other, and streams that deliver any number of bytes at
a time and hold a bounded number. `phase`, `out`, `pipe`, `got` are for each end
what it does, what it has yet to send, what is on the way to it and what it has
received of a frame. A `Stranger` sends any bytes, or none, and hangs up when it
likes; the server may `die`. Requests in SecureVaultServer arrive whole and are
answered whole: Wire shows why that may be assumed.

**Interface** is the GUI or the menu (`front`) over one client. The operations of
the client succeed or raise, a `ClientError` or something else; what matters is
whose session it is, what the screen shows, and the question that a first contact
puts to the user (`dialog`). A `login` may get any part of the trust file (`Loads`),
for `_load` skips what it cannot read. `login_breaks` is a login whose trust file has an
entry that is no JSON object: `TrustEntry` raises a `TypeError`, which `_load` does
not catch (`client/trust_store.py:149-156`), after `username` and the keys are set. A
name is the sequence of its words, for the GUI cuts it out of a row at a blank.

**Codec, Curve, Aes, Gcm, Sha256** are the functions without state and the `Sha256`
object, with small parameters in place of the real ones where those are out of
reach: bytes of 4 values and limits in the order they have in the code; a curve of
17 points over the integers modulo 23 with the coefficient -3 of P-256, on which
x-coordinates exceed the order as they do on P-256, only more often; blocks of 12
bits over a stand-in for AES, modulo x^12 + x^6 + x^4 + x + 1 (`R`); hash blocks of 4
bytes. AES has its real size, table and key lengths. `_compress` is free: the hash
state is the sequence of the bytes compressed. The k of RFC 6979 is any number from 1 to N - 1. **Algorithms** calls
them on all inputs of a small domain and compares with reference definitions
(`Ref...`), which are mathematics and not code.

**Encodings** is what whoever hashes, signs or encrypts bytes relies on: the codec,
the canonical strings, the derived keys and the `Sha256` object. `CallPack` and
`CallUnpack` begin a call; `PackField` and `UnpackField` are one `_pack_...` and one
`_Reader.read...` of it, and `call.ends` says where the fields so far end. What one of
the two returns is given to the other (`UnpackPacked`, `PackUnpacked`), as a sender's
blob is to its recipient. It is a module of its own, without a recursive operator,
so that it can be reasoned about; Algorithms adds calls of the other functions, which never
run during one of its calls.

`PROJECT.json` maps each definition to its lines. Definitions that are named
after a bug (`fresh_without_lookup`, ...) are faulty variants used to test that
the properties notice; no action uses them.

## The runs

Deadlock checking is on for `saving`, `pins` and `interface`: elsewhere a server
without requests, clients at their bounds or a call that was made may stop.

| Run | Question | Instance, and why it is enough |
|---|---|---|
| `docs` | Do interleaved uploads, shares, reads and listings behave like atomic requests, also across a restart? | 2 users, 1 document, 2 threads, 11 requests: two uploads of one doc_id, an upload and a share with one nonce, a forged signature; each may come any number of times. Two threads make every race of two handlers. 1 stop or death at any point and 1 restart; `CreatedOnce` and `Durable` are proved for any number. |
| `auth` | The same for registration, login and change of password; and is everything answered? | Two registrations of a name, two challenges, a time to live of 0 with one tick, so that challenges are used in time and too late; `stop()` at any point. |
| `saving` | Is the file whole after any crash? | 2 writers, 3 inodes, values of 2 pieces (a write can stop before, in the middle and at the end), 1 power failure. |
| `sessions` | Has a session the registered keys? | 2 clients on one directory, 2 passwords, 3 draws, losses, deaths, second signups. |
| `accounts` | Can every account be used, does every operation end? | 2 clients on 2 directories, losses, deaths, a stop and a restart of the server; 3 draws give a race of signups followed by a change of password. |
| `pins` | Does trust on first use bind, and what can cost a pin? | 2 sessions, 2 contacts, so that one can be missed or damaged and the other not, 2 signing and 2 key-agreement keys, so that bundles differ in either half; any number of sessions, unreadable files, damaged entries and failing saves. |
| `documents` | Are downloads faithful and shares open? | 2 users, 3 operations, all 5 modes of the proxy. 3 operations are an upload, a share and a download, or two of one kind that race. 2 threads and 1 operation that is cut off, so that a request whose client has gone away can be overtaken by its replay. The theorems have no such bounds. |
| `wire` | Is a call answered by the whole answer, and does it end? | 1 client, 1 stranger; frames of up to 2 + 3 bytes through a stream of 3, read 2 at a time, so that header and body are cut anywhere and a writer waits for its reader; a request and a response that are too large; a stranger that sends a whole request, half a header, a length of 0 or beyond the cap, or no message. Connections share nothing but the accept loop, which two suffice to contend for. |
| `interface` | Whose screen, whose pins? | 2 people, one of them a contact too, and a contact of two words whose first one names another; unbounded. |
| `algorithms` | Do the functions compute what they should? | Records around every limit of the codec, damaged blobs, names and nonces with colons; all pairs and triples of points, factors from -N to 2N + 1, all pairs (r, s) from 0 to N + 1, all encodings of a pair of coordinates, on the curve or not, with a right and a wrong prefix; all 256 entries of the S-box; 18 blocks through all rounds of both key lengths; texts up to the length at which the counter would wrap; pieces of 0, 1, 2 and 9 bytes up to nearly three blocks. |

**Properties.** `SpentOnce`: of the requests that share a nonce, a challenge, a
name or a doc_id, one is carried out, once, per life of the process.
`CreatedOnce`: rows are created once, across restarts. `Durable`: what was
confirmed stays. `ReferentialIntegrity`: the foreign keys SQLite does not enforce
hold. `NoncesEarned`: only signed requests cost a nonce. `RowsPermanent`: identity
keys and documents never change. `HandlersRely`: what a handler has checked still
holds at its later calls; it is the inductive invariant of the proofs.
`ImplementsAtomicVault`: refinement. `EveryRequestAnswered`, `OperationsEnd`:
liveness. `FileWhole`, `LastSaveRead`: the file is one complete saved value, and
without power failures the last one, unless the last save overlapped another one.
`SessionKeysRegistered`: the keys a login loads are those the server hands out. `AccountUsable`: when nothing is under way
every account can be used, except one whose change of password was cut off.
`OneBundlePerContact`: no operation goes on with another bundle for a contact than
an earlier one, in any session, since the contact was last forgotten. `SessionBinds`:
the same within a session, without that exception. `PinsKept`: a pin leaves the file,
or is replaced or demoted there, only with the first save of a session whose `_load`
had not got it.
`DownloadsFaithful`: what a download saves is content and owner of the document
asked for. `SharesOpen`: what `upload` and `share` have confirmed has a row ever
after, and every row whose sender has the recipient's genuine keys opens. Both
leave out the operations that are `crossed`: see the differences below.

`ExchangeFaithful`: however the bytes are cut, a client gets the response made to
its own request, entire. `AnsweredWhileUp`: as long as the server runs, a request
that fits a frame is answered by a frame, by an ERROR if the response does not fit
one. `CallsEnd`: every `_rpc` returns or raises, whatever strangers do.
`ThreadsReleased`: a thread ends once its peer has closed.

`ScreenHasSession`: the actions are shown for a complete session only.
`ScreenIsOwn`: log and list are the present user's; the list may lag behind his
trust store but never shows more. `PinsAccepted`: who has a contact pinned was
asked about it and said yes. `VerifiedAsChosen`: a VERIFIED contact was picked by
its user.

`CodecFaithful`: what does not fit is refused, what is packed comes back, and a blob
that is accepted is the one its fields are packed to.
`CanonicalBinds`: for the key of one user a canonical string stands for one request,
or the share blob gives the other reading away. `CurveIsGroup`, `SignaturesExact`,
`SecretsAgree`: group law, repeated addition, exactly the ECDSA equation, the same
secret on both sides and no point off the curve. `AesIsStandard`, `GcmSound`: the
table of FIPS 197, and rounds that its inverse rounds undo; the product of GHASH, decryption inverts encryption, no counter twice. `DerivedKeysDiffer`,
`StreamIsOneShot`: the two keys of a password differ, and pieces hash as their
concatenation.

**Fairness.** Weak fairness of `HandlerStep` for each thread: the operating system
schedules threads that can run, and no lock is held across a step. In
VaultAccounts also of the steps of a client that is in the middle of an
operation, and of a connection that has not been lost. In Wire of the steps of a
client in a call and of the thread of every connection, which includes that the
accept loop gets to a connection that waits: it does nothing but start threads.
Nothing is assumed of users, of strangers, of requests, of time, of the operator,
or of a restart.

## Where code and documentation differ

Two runs expect a violation of what a docstring or the design document says.

- `replay`: "every used request_nonce is remembered, rejecting replays"
  (`server/session.py:5`). Not across a restart on a database file: a request that
  was carried out before is carried out again. The run has four requests of its own,
  each of which may come any number of times; in TLC's trace layla shares a document
  with omar, the process is restarted, and the same SHARE, nonce and all, is carried
  out a second time.
- `lost_change`: `change_password` rewrites the keystore, then asks the server. If
  the request is lost, the salt the server hands out no longer opens the
  keystore: neither password logs in.

`AccountUsable` is the other half of `lost_change`: without a cut-off change, a second
signup or a shared directory every account can be used, in the instance of `accounts`
and in all by `AccountsAreUsable`.

Met while modelling, and without a run of their own:

- `get_salt` answers an unknown user with an error (`server/server.py:219-221`);
  the docstring promises a stable salt (24-25). Only `login_challenge` does that.
- `change_password` verifies the proof against a row it read earlier (378-394): of
  two concurrent changes proved by the same old key both take effect, the second
  over a key its proof was not made with.
- Two clients on one directory that change the password at the same time can both
  rewrap the keystore before the server refuses one of them: the keystore is then
  under the kek of the one and the server's row of the other (`AccountUsable` fails
  for clients that share a directory, with no fault at all).
- `signup` writes the keystore (`client/client.py:147`) before the server refuses a name
  that exists. On the same directory that replaces the only copy of the account's
  keys ("if the write fails we don't want a server-side account we can't use",
  145-146). VaultAccounts has it as `again`: `EveryAccountUsable` then fails.
- `_load` takes a trust file that it cannot open or parse for an empty one, skips bad
  entries and says nothing of either (`client/trust_store.py:145-148`, 155-156); the
  session's next save then overwrites the file (158-166), and pins that were intact on
  the disk are gone for good. "Every contact's public keys the client has ever received
  are stored here" (4), and a different bundle is refused outright (12-14): a contact
  that was missed is met as a new one, and any bundle can be pinned for it, after the
  usual question to the user. `PinsKept` says that pins are lost in no other way, and
  `OneBundlePerContact` that no other contact is concerned.
- Two sessions of one user at a time (`Exclusive = FALSE`) use different bundles for
  one contact, since each saves its own copy of the trust file
  (`client/trust_store.py:158`); the docstring promises that a different bundle is
  refused outright (12-14). Within each session it is: `SessionBinds`.
- Writers of one path share `path + ".tmp"` (`client/keystore.py:100`,
  `client/trust_store.py:161`): of two saves that overlap, one truncates the other's
  file and the other renames it into place, so that the file may be cut or mixed
  until a save that overlaps none. `_load` takes such a trust file for an empty one,
  with the consequence above.
- `record_first_contact` enters the pin in memory before it saves
  (`client/trust_store.py:104`). If the save fails, a retry in the session goes on
  with a bundle that is in no file; if no later save brings it there, the next session
  can accept another one.
- In the proxy's mode `replay` a request that is answered OK in the place of
  another one confirms nothing to the client; `share_reply` accounts for it.
- `download` compares no doc_id (`client/client.py:403`). If a GET_DOC is cut off while it
  waits in the server, and the proxy in its mode `replay` sends it again in the place
  of the client's next GET_DOC, the replay can overtake it, and the client saves
  another document of its own than the one it asked for: the server refuses the second
  to arrive. "The client's crypto detects it and refuses to proceed"
  (`attacker/attacker_proxy.py:6-7`), "server error (nonce used)" (`README.md:177`).
- `share` does not check that the share it was given is addressed to the one who asks
  (`client/client.py:352-358`; `download` does, 409), and a USER_PUBKEY response
  does not name whose keys it has (`server/server.py:227-238`). A replayed GET_USER_PUBKEY
  can pin one user's genuine keys for another contact, and a sharer with such a pin,
  whose GET_DOC is answered with another one's, can wrap the key of one document
  under the doc_id of another. It takes five operations, more than `documents` has:
  the proof found it. This is why `SharesOpen` leaves out every sharer that is `crossed`.
- A username may contain a colon: `share` to "b" with the nonce "x:n" and to "b:x" with
  the nonce "n" are signed over one string (`server/session.py:113`). The server refuses the
  second reading since the share blob names its recipient (`server/server.py:305`).
- `MAX_CONTENT_LEN` allows 2^36 - 32 bytes, the length field 2^32 - 1
  (`common/formats.py:22`, 196): `_pack_u32` raises, nothing is cut.
- `sign` loops "just in case" r or s is 0 (`crypto/ecdsa.py:95-98`), but computes the same k
  each time: it would raise after 1000 rounds.
- `_rpc` does not close its socket when it raises (`client/client.py:99-102`); it is
  closed when the exception is collected (`drop`).
- In the GUI a handler catches `ClientError` only: other errors (a save that raises an
  `OSError`, a damaged trust file) leave no trace on the screen.
- A login that breaks in `_load` leaves the menu with the name and keys of the new user
  and the trust store of the one before, since the menu lets a user log in without a
  logout: pins are then made in the wrong file. `PinsAccepted` and `VerifiedAsChosen`
  leave that case out; the GUI stays on the login screen (`ScreenHasSession`).
- The GUI marks the first word of the selected row (`client/gui.py:336`): with the
  contacts "layla" and "layla smith", picking the second marks the first as VERIFIED.
- `_do_logout` clears the log but not the last doc_id and the entry fields; a failed
  login after a successful signup is shown in green (`client/gui.py:233`, 244).

## Proofs

TLAPS checks every theorem to the last leaf. The proofs use the named assumptions
of the modules and nothing about the size of the constants: users, documents,
threads, clients, requests, restarts, contacts, messages, bytes and bounds are
arbitrary. TLC evaluates the assumptions in every run. Most say that an absent value
is not a value, that a bound is a number, that requests are requests. Of weight are:

- `HeaderAssumption` (Wire) and `NumberAssumption` (Codec): `int.from_bytes` inverts
  `int.to_bytes` on the lengths and numbers in use, in Codec the other way round too.
  It is a fact about powers, which needs induction.
- `NameAssumption` (Encodings): the names in records come back from UTF-8. That bytes
  which decode are encoded to the same bytes is not assumed but follows from `Codec`.
- `RequestAssumption` (Encodings): a document id that the server takes has no colon.
  `bytes.fromhex` refuses one (`server/server.py:294`, 335).
- `IsFiniteSet(Thread)` (VaultAccounts): login challenges in flight are counted.
- `Requests` contains the requests that the clients send (VaultAccounts,
  VaultSharing): the server's module leaves the set open.

**SecureVaultServer_proofs**

- `TypeCorrect`. `TypeOK` is not inductive, for a handler's next call must fit its
  request and what it has read: `TInv` adds `HandlerTypes` for each thread.
- `ChecksInvariant`, `HandlersCanRely` (`ChecksInv`: `HandlerChecks` for every
  thread). What a handler has checked stays true since no step removes a row,
  changes identity keys or alters a document (`RowsGrow`). This is why the code is
  right although it checks and acts in different critical sections, and it would
  stop being so with the first handler that deletes or updates rows.
- `ServerIsAtomic`: `Spec => ImplementsAtomicVault`. Each step is a step of
  AtomicVault or leaves the tables alone; the guards of the abstract step come
  from `ChecksInv`.
- `EachSpentOnce`, `OkIsDurable` (`SpendInv`: a nonce in use belongs to one handler
  or to one request carried out, `NonceInv`; a cached challenge is in one slot and
  was not used, `ChallengeInv`).
- `RowsArePermanent`, `IntegrityHolds`, `NothingCreatedTwice`, `NoncesAreEarned`.

**VaultAccounts_proofs**

- `AccountsInvariant` (`AInv`): what each operation knows at its label (`StepKnows`),
  which thread serves it (`Linked`: a thread serves one client and has its
  request), what that thread is about to answer (`ThreadKnows`), and that the
  challenges issued and in flight stay within the bound.
- `ServerInside`: the composition's steps are steps of the server or leave it alone,
  so that the theorems on `Spec` hold here.
- `SessionsRegistered`. A salt belongs to one identity wherever the two are seen
  together: in rows, files, requests and in what threads have read. The invariant
  says that there is such an owner of every salt (`SaltsOwned`: `\E g \in Owners`);
  `signup` gives the salt it draws to its new identity, `rewrap_keys` the salt
  drawn for the change to the identity it has just decrypted. A login
  signs with a key made from the salt of the row and opens a file under that salt:
  the two have the same owner.
- `AccountsAreUsable`, for clients with a directory each and users who do not sign up
  again (`Careful`, a hypothesis of the theorem: the differences above show that
  neither part can be left out), under every loss, crash, stop and restart. The
  invariant (`InStep`) says that every salt has a home, the directory and user
  whose file it was drawn for and the password of its kek (`\E h \in Homes`), and
  that the file of a settled account is under the salt of the row (`RowHome`). A
  cut-off change leaves requests behind that can be carried out much later, when
  the file is under another salt. Such a request does no harm: the server carries
  out only what is signed with the key of the row, the next change is made only
  from a file under the salt of the row, and a change that may still be accepted is
  to the salt the file is under (`Awaited`, `Accepted`), of which there is one
  (`SentOnce`). `OK` for a change settles the account since the file has not
  moved while its client waited (`Answered`). It follows that a settled account is
  usable at all times, not only when nothing is under way (`UsableNow`).

**VaultSharing_proofs**

- `SharingInvariant` (`SInv`): there is a `g` that says who began which operation, and
  every share, request, row and reply there is, the captured request included, is one
  that its owner made: a share wraps the file key of a document for a key the sender
  has of the recipient (`GoodShare`), a document row is the blob of the operation
  with that draw (`Tables`). `Moves` from one `g` to the next only adds, so that what
  is good stays good.
- `DownloadsAreFaithful`. Whatever the proxy hands out, a document that passes the checks
  of `download` is a genuine one: hash and GCM tag leave no other. That
  it is the document asked for is not a matter of cryptography but of the nonce:
  once the client of a captured GET_DOC has had an answer the nonce is used, and
  a replay is refused (`Spent`). Where it is not, the operation is `crossed`.
- `SharesCanBeOpened`: a row's sender had a pin of the recipient's key when it was
  made and pins stay; the key wrapped is that of the document of the row unless
  the sender was `crossed`.
- `SharingTypes`, `SharedServerSteps`.

**TrustStore_proofs**: `PinsAreKept` and `FirstUseBinds`, for sessions that do not
overlap (`Exclusive`, a hypothesis of the theorems), whatever files cannot be read,
entries are damaged, saves fail and sessions die. `MemoryExtends`: but for the pins
that its own `_load` missed, what a session has in memory extends the file, also after
failed saves, so that a save loses nothing else. `UsedPinned`: every bundle used since
its contact was last forgotten is pinned in the memory of the open session, or in the
file if none is open; a second one is then refused. The step that needs an argument is
the first use of a contact: it is asked about only if the session does not know it, and
then nothing is left in `used` for it. `EverySessionBinds` has no hypothesis:
every bundle a session has used is in its own memory with this fingerprint
(`BoundInMemory`), and no step of another session or of the file touches that.

**AtomicWrite_proofs**: `FilesAreWhole`, `LastSaveIsRead` (`SavesAreSafe`). `path.tmp` is
never the file itself (`Names`), so a write never touches it; a save that overlaps
no other is alone with its temporary file, which has just what it has written so
far and is complete and on disk before the replace (`Alone`).

**Wire_proofs**: `ExchangesAreFaithful`, `RequestsAreAnswered`, `WireTypes`
(`FramesAreSafe`). In each direction, what was received, what is on the way and what is
still to be sent are together the frame (`Streams`), at every cut. As the receiver
takes no more than it needs, it has the header when it has `HEADER` bytes of
this, and the body when it has as many as the header says. The other conjuncts
tie the phases of the two ends to each other.

**Interface_proofs**: `ScreenShowsSession`, `ScreenShowsOwn`, `PinsAreAccepted`,
`VerifiedIsChosen` (`FrontEndsAreSafe`). The one who is asked is still the one who
is logged in when the answer comes (`Asked`), and the trust store in memory, not
only the file, has only what its owner accepted (`Pins`), since a save writes all of
it, the entries of a failed save too. `Intact` excludes the broken login described
above; it is in the properties themselves.

**Encodings_proofs**, for bytes, lengths, layouts' records, names, nonces and keys of
any number and size:

- `CodecIsFaithful`. `call.ends` cuts a blob into spans, and `Encodes` says that each span
  is what its field is packed to; reading a field from where its span begins gives
  the value and the end of the span (`FieldRead`), and the other way round. A first
  call builds such spans (`Packing`, `Unpacking`), a second one meets them again
  (`Repacking`, `Reunpacking`). The ciphertext has no length of its own: it is what is
  left before the tag, which works since the tag is one field of fixed length and the
  last (`LayoutFacts`).
- `CanonicalStringsBind`. A type has no colon, so the first colon ends it; the user is the
  same; a document id has no colon, so the next one ends it. What remains are
  recipient and nonce, and if only the cut between them differs, so do the recipients.
- `KeysDiffer`. Blocks and padding can be taken off again: the last byte has the length, and
  the two pads differ in every byte. A key longer than a block is replaced by its hash,
  which no key of the same length that is not can be.
- `PiecesHashAsOne`. Digested bytes followed by the buffer are the bytes fed so far, and the
  digested part is whole blocks (`IInv`); padding the buffer therefore pads the message.
  The state after a sequence of blocks is that sequence, so no recursion is needed.

**Only model-checked**: liveness (`EveryRequestAnswered`, `OperationsEnd`,
`CallsEnd`, `ThreadsReleased`), which is out of the prover's reach under fairness; and
curve, ECDSA, ECDH, AES and GCM (`CurveIsGroup`, `SignaturesExact`, `SecretsAgree`,
`AesIsStandard`, `GcmSound`), whose functions are recursive over their data or work on
bits, and whose properties are about one curve, one table and one polynomial.

## Not modelled, and the plan

Not modelled: the demos (they only print), `dump_stats`, the layout of the windows,
the compression function of SHA-256 and the real sizes of curve, GCM and formats,
the generation of keys and of k, and `update_document`, which no handler calls: it
would make documents mutable, and `RowsPermanent`, on which the proofs rest, false.

Next, in this order:

1. Challenges that expire during client operations.
2. The keystore's file format inside `save_keys` and `load_keys`.

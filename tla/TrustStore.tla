----------------------------- MODULE TrustStore -----------------------------
(***************************************************************************)
(* Trust on first use: class TrustStore of client/trust_store.py and its   *)
(* caller _get_verified_pubkey of client/client.py, for one local user.    *)
(*                                                                         *)
(* The file {username}_trust.json is read once, when a session begins, as  *)
(* far as it can be read then, and is rewritten as a whole with what is in *)
(* memory after every change there.                                        *)
(* Several sessions are several processes of the same user on the same     *)
(* directory.  The server may answer every GET_USER_PUBKEY with any pair   *)
(* of keys, a different one each time.                                     *)
(***************************************************************************)
EXTENDS Integers

CONSTANTS Instance,  \* client processes of the user
          Contact,   \* the contacts
          SigKey,    \* signing keys the server hands out
          DhKey,     \* key-agreement keys it hands out
          NoEntry,   \* the contact is unknown
          NoBundle,  \* no bundle is waiting for the user or for a save
          Exclusive  \* a session begins only when no other is open

Bundle == [sig_pub : SigKey, dh_pub : DhKey]

(* Faulty variants, named after the bug, stand before the definition they  *)
(* are variants of; no action uses them.                                   *)
fingerprint_of_sig_only(b) == <<b.sig_pub, CHOOSE k \in DhKey : TRUE>>

(* SHA-256 over both keys, without collisions.                             *)
compute_fingerprint(b) == <<b.sig_pub, b.dh_pub>>

Fingerprint == SigKey \X DhKey
Entry == [fingerprint : Fingerprint, status : {"UNVERIFIED", "VERIFIED"}]
Entries == [Contact -> Entry \cup {NoEntry}]

ASSUME TrustAssumption ==
    /\ NoEntry \notin Entry
    /\ NoBundle \notin [name : Contact, bundle : Bundle]
    /\ Exclusive \in BOOLEAN

VARIABLES file,     \* the entries in the file
          bad,      \* contacts whose entry in the file has become damaged
          entries,  \* _entries of each session
          tpc,      \* what each process does next
          seen,     \* the contact and bundle of a first contact under way
          missed,   \* history: contacts in the file that the _load of a
                    \* session did not get, until the session saves
          used,     \* history: bundles _get_verified_pubkey has returned,
                    \* since the contact was last forgotten
          bound     \* history: the ones each session that is open was given

fileVars    == <<file, bad>>
historyVars == <<missed, used, bound>>
vars == <<fileVars, entries, tpc, seen, historyVars>>

Seen == [name : Contact, bundle : Bundle]

TypeOK ==
    /\ file \in Entries
    /\ bad \subseteq Contact
    /\ entries \in [Instance -> Entries]
    /\ tpc \in [Instance -> {"closed", "ready", "prompt", "save"}]
    /\ seen \in [Instance -> Seen \cup {NoBundle}]
    /\ missed \in [Instance -> SUBSET Contact]
    /\ used \subseteq Seen
    /\ bound \in [Instance -> SUBSET Seen]

Empty == [k \in Contact |-> NoEntry]

Init ==
    /\ file = Empty
    /\ bad = {}
    /\ entries = [s \in Instance |-> Empty]
    /\ tpc = [s \in Instance |-> "closed"]
    /\ seen = [s \in Instance |-> NoBundle]
    /\ missed = [s \in Instance |-> {}]
    /\ used = {}
    /\ bound = [s \in Instance |-> {}]

(* Contacts pinned in known whose pin is not there as well.                *)
Lost(known, there) ==
    {k \in Contact : /\ known[k] # NoEntry
                     /\ there[k] = NoEntry \/ there[k].fingerprint # known[k].fingerprint}

(* What a new session would not take from an earlier one is forgotten.     *)
Forget(names) == used' = {x \in used : x.name \notin names}

-----------------------------------------------------------------------------
(* What _load can make of the file, which it leaves as it is: nothing, if  *)
(* the file cannot be opened now or is no JSON object (OSError, ValueError *)
(* and the test of the type); otherwise all entries but the damaged ones,  *)
(* which it skips (KeyError, ValueError).  An entry that is no object      *)
(* raises a TypeError instead: then there is no session.                   *)
Readable == {Empty, [k \in Contact |-> IF k \in bad THEN NoEntry ELSE file[k]]}

(* The constructor, at the end of a login: _load.                          *)
open(s) ==
    /\ tpc[s] = "closed"
    /\ Exclusive => \A o \in Instance : tpc[o] = "closed"
    /\ tpc' = [tpc EXCEPT ![s] = "ready"]
    /\ \E read \in Readable :
          /\ entries' = [entries EXCEPT ![s] = read]
          /\ missed' = [missed EXCEPT ![s] = Lost(file, read)]
          /\ Forget(Lost(file, read))
    /\ UNCHANGED <<fileVars, seen, bound>>

(* A logout or the end of the process, at any point.  A pin that has not   *)
(* got into the file is gone.                                              *)
quit(s) ==
    /\ tpc[s] # "closed"
    /\ tpc' = [tpc EXCEPT ![s] = "closed"]
    /\ entries' = [entries EXCEPT ![s] = Empty]
    /\ seen' = [seen EXCEPT ![s] = NoBundle]
    /\ missed' = [missed EXCEPT ![s] = {}]
    /\ bound' = [bound EXCEPT ![s] = {}]
    /\ Forget(Lost(entries[s], file))
    /\ UNCHANGED fileVars

(* check raises no KeyMismatchError.                                       *)
Matches(s, k, b) == entries[s][k].fingerprint = compute_fingerprint(b)

(* _get_verified_pubkey returns.                                           *)
Returns(s, given) ==
    /\ used' = used \cup given
    /\ bound' = [bound EXCEPT ![s] = @ \cup given]

check_asking_on_mismatch(s, k, b) ==
    /\ tpc[s] = "ready"
    /\ \/ /\ entries[s][k] # NoEntry => ~Matches(s, k, b)
          /\ tpc' = [tpc EXCEPT ![s] = "prompt"]
          /\ seen' = [seen EXCEPT ![s] = [name |-> k, bundle |-> b]]
          /\ UNCHANGED <<used, bound>>
       \/ /\ entries[s][k] # NoEntry
          /\ Matches(s, k, b)
          /\ Returns(s, {[name |-> k, bundle |-> b]})
          /\ UNCHANGED <<tpc, seen>>
    /\ UNCHANGED <<fileVars, entries, missed>>

(* _get_verified_pubkey up to the answer of check: an unknown contact is   *)
(* put to the user, a known one must match, anything else is refused.      *)
check(s, k, b) ==
    /\ tpc[s] = "ready"
    /\ \/ /\ entries[s][k] = NoEntry
          /\ tpc' = [tpc EXCEPT ![s] = "prompt"]
          /\ seen' = [seen EXCEPT ![s] = [name |-> k, bundle |-> b]]
          /\ UNCHANGED <<used, bound>>
       \/ /\ entries[s][k] # NoEntry
          /\ Matches(s, k, b)
          /\ Returns(s, {[name |-> k, bundle |-> b]})
          /\ UNCHANGED <<tpc, seen>>
    /\ UNCHANGED <<fileVars, entries, missed>>

(* The user declines.                                                      *)
decline(s) ==
    /\ tpc[s] = "prompt"
    /\ tpc' = [tpc EXCEPT ![s] = "ready"]
    /\ seen' = [seen EXCEPT ![s] = NoBundle]
    /\ UNCHANGED <<fileVars, entries, historyVars>>

(* The user accepts: the entry is made, in memory first.                   *)
record_first_contact(s) ==
    /\ tpc[s] = "prompt"
    /\ entries' = [entries EXCEPT ![s][seen[s].name] =
                      [fingerprint |-> compute_fingerprint(seen[s].bundle),
                       status |-> "UNVERIFIED"]]
    /\ tpc' = [tpc EXCEPT ![s] = "save"]
    /\ UNCHANGED <<fileVars, seen, historyVars>>

(* An entry that is verified already is not saved again.                   *)
mark_verified(s, k) ==
    /\ tpc[s] = "ready"
    /\ entries[s][k] # NoEntry
    /\ entries[s][k].status = "UNVERIFIED"
    /\ entries' = [entries EXCEPT ![s][k].status = "VERIFIED"]
    /\ tpc' = [tpc EXCEPT ![s] = "save"]
    /\ UNCHANGED <<fileVars, seen, historyVars>>

(* _save writes what the session has in memory over the whole file,        *)
(* whatever _load had made of it; a first contact then returns its bundle. *)
_save(s) ==
    /\ tpc[s] = "save"
    /\ file' = entries[s]
    /\ bad' = {}
    /\ tpc' = [tpc EXCEPT ![s] = "ready"]
    /\ seen' = [seen EXCEPT ![s] = NoBundle]
    /\ missed' = [missed EXCEPT ![s] = {}]
    /\ Returns(s, {seen[s]} \ {NoBundle})
    /\ UNCHANGED entries

(* _save raises an OSError, and so does the operation.                     *)
save_fails(s) ==
    /\ tpc[s] = "save"
    /\ tpc' = [tpc EXCEPT ![s] = "ready"]
    /\ seen' = [seen EXCEPT ![s] = NoBundle]
    /\ UNCHANGED <<fileVars, entries, historyVars>>

(* External: something else has damaged an entry of the file.              *)
damage(k) ==
    /\ file[k] # NoEntry
    /\ bad' = bad \cup {k}
    /\ UNCHANGED <<file, entries, tpc, seen, historyVars>>

SessionStep(s) ==
    \/ open(s) \/ quit(s)
    \/ \E k \in Contact, b \in Bundle : check(s, k, b)
    \/ decline(s) \/ record_first_contact(s)
    \/ \E k \in Contact : mark_verified(s, k)
    \/ _save(s) \/ save_fails(s)

Next ==
    \/ \E s \in Instance : SessionStep(s)
    \/ \E k \in Contact : damage(k)

Spec == Init /\ [][Next]_vars

-----------------------------------------------------------------------------
(* A different bundle for a known name is refused outright (the docstring  *)
(* of trust_store.py): over all sessions, saves and crashes, no operation  *)
(* ever goes on with two different bundles for one contact, whatever the   *)
(* server hands out and whichever half of a bundle differs.  For a contact *)
(* it begins anew, and for no other one, when the _load of a session has   *)
(* missed it, for the session then meets it as a new one, and when a       *)
(* session ends with a pin that no save has brought into the file.         *)
OneBundlePerContact ==
    \A x, y \in used : x.name = y.name => x.bundle = y.bundle

(* Within a session it holds without exception, whatever _load has missed, *)
(* whether saves fail, the file is damaged or other sessions overwrite it: *)
(* what the user has accepted is in the memory of the session.             *)
SessionBinds ==
    \A s \in Instance : \A x, y \in bound[s] : x.name = y.name => x.bundle = y.bundle

Keeps(new, old) ==
    old # NoEntry =>
        /\ new # NoEntry
        /\ new.fingerprint = old.fingerprint
        /\ old.status = "VERIFIED" => new.status = "VERIFIED"

(* Pins are lost in one way only: a pinned contact goes out of the file,   *)
(* or comes to have another fingerprint or a lower status, only when a     *)
(* session saves for the first time whose own _load did not get this very  *)
(* pin, though it was in the file.  No other sequence of operations,       *)
(* failing saves, crashes and damage to other entries costs a pin, and a   *)
(* session that missed some pins still keeps the others.                   *)
PinsKept ==
    [][\A k \in Contact :
          \/ Keeps(file'[k], file[k])
          \/ \E s \in Instance : k \in missed[s] /\ _save(s)]_vars

-----------------------------------------------------------------------------
(* The inductive invariant, in parts.                                      *)

Pinned(known, x) ==
    /\ known[x.name] # NoEntry
    /\ known[x.name].fingerprint = compute_fingerprint(x.bundle)

OneSession ==
    \A s, o \in Instance : tpc[s] # "closed" /\ tpc[o] # "closed" => s = o

InStep(s) ==
    /\ tpc[s] \in {"closed", "ready"} => seen[s] = NoBundle
    /\ tpc[s] = "prompt" => entries[s][seen[s].name] = NoEntry
    /\ tpc[s] = "save" /\ seen[s] # NoBundle => Pinned(entries[s], seen[s])

(* With one session at a time, every bundle an operation went on with is   *)
(* pinned in the memory of the session, or in the file if none is open.    *)
UsedPinned ==
    \A x \in used :
        /\ \A s \in Instance : tpc[s] # "closed" => Pinned(entries[s], x)
        /\ (\A s \in Instance : tpc[s] = "closed") => Pinned(file, x)

(* What a session has in memory of the pins it has read extends the file.  *)
MemoryExtends ==
    \A s \in Instance : tpc[s] # "closed" =>
        \A k \in Contact \ missed[s] : Keeps(entries[s][k], file[k])

MemoryInStep ==
    /\ OneSession
    /\ \A s \in Instance : InStep(s)
    /\ MemoryExtends
    /\ UsedPinned
=============================================================================

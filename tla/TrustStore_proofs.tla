------------------------- MODULE TrustStore_proofs -------------------------
(***************************************************************************)
(* Trust on first use holds for any number of contacts, keys and client    *)
(* processes, as long as sessions do not overlap.                          *)
(***************************************************************************)
EXTENDS TrustStore, TLAPS

(* The fingerprint tells bundles apart, whichever half differs.            *)
LEMMA FingerprintInjective ==
    \A x, y \in Bundle : compute_fingerprint(x) = compute_fingerprint(y) => x = y
BY DEF compute_fingerprint, Bundle

(* A fingerprint is one.                                                   *)
LEMMA FingerprintType == \A b \in Bundle : compute_fingerprint(b) \in Fingerprint
BY DEF compute_fingerprint, Bundle, Fingerprint

(* A prompt has a bundle to ask about.                                     *)
Asked == \A s \in Instance : tpc[s] = "prompt" => seen[s] \in Seen

(* The store begins empty, with no session open.                           *)
LEMMA InitTypes == Init => TypeOK /\ Asked
BY DEF Init, TypeOK, Asked, Empty, Entries

(* What is read from the file is a set of entries.                         *)
LEMMA ReadableType ==
    ASSUME file \in Entries, NEW read \in Readable
    PROVE  read \in Entries /\ \A k \in Contact : read[k] \in {NoEntry, file[k]}
BY DEF Readable, Empty, Entries

(* A lost pin is one of a contact, and forgetting leaves bundles.          *)
LEMMA ForgetFacts ==
    /\ \A known, there : Lost(known, there) \subseteq Contact
    /\ \A names : Forget(names) => used' \subseteq used
BY DEF Lost, Forget

(* Every step keeps the entries, the prompt and the history well-typed.    *)
LEMMA NextTypes == TypeOK /\ Asked /\ [Next]_vars => (TypeOK /\ Asked)'
<1> SUFFICES ASSUME TypeOK, Asked, [Next]_vars PROVE (TypeOK /\ Asked)'
  OBVIOUS
<1> USE DEF TypeOK, Asked
<1>1. CASE UNCHANGED vars
  BY <1>1 DEF vars, fileVars, historyVars
<1>2. ASSUME NEW s \in Instance, open(s) PROVE (TypeOK /\ Asked)'
  <2>1. PICK read \in Readable : /\ entries' = [entries EXCEPT ![s] = read]
                                 /\ missed' = [missed EXCEPT ![s] = Lost(file, read)]
                                 /\ Forget(Lost(file, read))
    BY <1>2 DEF open
  <2>2. read \in Entries /\ Lost(file, read) \subseteq Contact /\ used' \subseteq used
    BY <2>1, ReadableType, ForgetFacts
  <2> QED
    BY <1>2, <2>1, <2>2 DEF open, fileVars
<1>3. ASSUME NEW s \in Instance, quit(s) PROVE (TypeOK /\ Asked)'
  <2>1. Empty \in Entries
    BY DEF Empty, Entries
  <2>2. used' \subseteq used
    BY <1>3, ForgetFacts DEF quit
  <2> QED
    BY <1>3, <2>1, <2>2 DEF quit, fileVars
<1>4. ASSUME NEW s \in Instance, NEW k \in Contact, NEW b \in Bundle, check(s, k, b)
      PROVE  (TypeOK /\ Asked)'
  <2>1. [name |-> k, bundle |-> b] \in Seen
    BY DEF Seen
  <2> QED
    BY <1>4, <2>1 DEF check, Returns, fileVars
<1>5. ASSUME NEW s \in Instance, decline(s) PROVE (TypeOK /\ Asked)'
  BY <1>5 DEF decline, fileVars, historyVars
<1>6. ASSUME NEW s \in Instance, record_first_contact(s) PROVE (TypeOK /\ Asked)'
  <2>1. seen[s].name \in Contact /\ seen[s].bundle \in Bundle
    BY <1>6 DEF Seen, record_first_contact
  <2> DEFINE e == [fingerprint |-> compute_fingerprint(seen[s].bundle), status |-> "UNVERIFIED"]
  <2>2. e \in Entry
    BY <2>1, FingerprintType DEF Entry
  <2>3. [entries[s] EXCEPT ![seen[s].name] = e] \in Entries
    BY <2>1, <2>2 DEF Entries
  <2>4. entries' = [entries EXCEPT ![s] = [entries[s] EXCEPT ![seen[s].name] = e]]
    BY <1>6 DEF record_first_contact
  <2> HIDE DEF e
  <2> QED
    BY <1>6, <2>3, <2>4 DEF record_first_contact, fileVars, historyVars
<1>7. ASSUME NEW s \in Instance, NEW k \in Contact, mark_verified(s, k)
      PROVE  (TypeOK /\ Asked)'
  <2>1. entries[s][k] \in Entry
    BY <1>7 DEF mark_verified, Entries
  <2>2. [entries[s][k] EXCEPT !.status = "VERIFIED"] \in Entry
    BY <2>1 DEF Entry
  <2>3. [entries[s] EXCEPT ![k].status = "VERIFIED"] \in Entries
    BY <2>2 DEF Entries
  <2>4. entries' = [entries EXCEPT ![s] = [entries[s] EXCEPT ![k].status = "VERIFIED"]]
    BY <1>7 DEF mark_verified
  <2> QED
    BY <1>7, <2>3, <2>4 DEF mark_verified, fileVars, historyVars
<1>8. ASSUME NEW s \in Instance, _save(s) PROVE (TypeOK /\ Asked)'
  BY <1>8 DEF _save, Returns
<1>9. ASSUME NEW s \in Instance, save_fails(s) PROVE (TypeOK /\ Asked)'
  BY <1>9 DEF save_fails, fileVars, historyVars
<1>10. ASSUME NEW k \in Contact, damage(k) PROVE (TypeOK /\ Asked)'
  BY <1>10 DEF damage, historyVars
<1> QED
  BY <1>1, <1>2, <1>3, <1>4, <1>5, <1>6, <1>7, <1>8, <1>9, <1>10 DEF Next, SessionStep

(* The store is well-typed, with and without overlapping sessions.         *)
THEOREM TrustTypes == Spec => [](TypeOK /\ Asked)
BY InitTypes, NextTypes, PTL DEF Spec

-----------------------------------------------------------------------------
(* What a session keeps in step with the file, and what it remembers.      *)

(* A step of a session that is open leaves the others closed.              *)
LEMMA OthersClosed ==
    ASSUME OneSession, NEW s \in Instance, tpc[s] # "closed",
           tpc \in [Instance -> {"closed", "ready", "prompt", "save"}],
           NEW x, tpc' = [tpc EXCEPT ![s] = x]
    PROVE  /\ OneSession'
           /\ \A o \in Instance : o # s => tpc[o] = "closed" /\ tpc'[o] = "closed"
BY DEF OneSession

(* Accepting a contact changes the memory of one session, for this contact.*)
LEMMA FirstContactEntry ==
    ASSUME TypeOK, Asked, NEW s \in Instance, record_first_contact(s)
    PROVE  /\ seen[s] \in Seen /\ seen[s].name \in Contact
           /\ Pinned(entries'[s], seen[s])
           /\ \A k \in Contact : k # seen[s].name => entries'[s][k] = entries[s][k]
           /\ \A o \in Instance : o # s => entries'[o] = entries[o]
<1> DEFINE n == seen[s].name
           e == [fingerprint |-> compute_fingerprint(seen[s].bundle), status |-> "UNVERIFIED"]
<1>1. seen[s] \in Seen /\ n \in Contact /\ seen[s].bundle \in Bundle
  BY DEF record_first_contact, Asked, Seen
<1>2. e \in Entry
  BY <1>1, FingerprintType DEF Entry
<1>3. e # NoEntry
  BY <1>2, TrustAssumption
<1>4. /\ entries'[s][n] = e
      /\ \A k \in Contact : k # n => entries'[s][k] = entries[s][k]
      /\ \A o \in Instance : o # s => entries'[o] = entries[o]
  BY <1>1 DEF record_first_contact, TypeOK, Entries
<1> QED
  BY <1>1, <1>3, <1>4 DEF Pinned

(* Marking a contact keeps all pins of the session.                        *)
LEMMA MarkedEntry ==
    ASSUME TypeOK, NEW s \in Instance, NEW k \in Contact, mark_verified(s, k)
    PROVE  /\ \A j \in Contact : Keeps(entries'[s][j], entries[s][j])
           /\ \A o \in Instance : o # s => entries'[o] = entries[o]
<1>1. /\ \A j \in Contact : j # k => entries'[s][j] = entries[s][j]
      /\ \A o \in Instance : o # s => entries'[o] = entries[o]
  BY DEF mark_verified, TypeOK, Entries
<1>2. entries'[s][k] = [entries[s][k] EXCEPT !.status = "VERIFIED"] /\ entries[s][k] \in Entry
  BY DEF mark_verified, TypeOK, Entries
<1>3. /\ entries'[s][k] \in Entry
      /\ entries'[s][k].fingerprint = entries[s][k].fingerprint
      /\ entries'[s][k].status = "VERIFIED"
  BY <1>2 DEF Entry
<1>4. entries'[s][k] # NoEntry
  BY <1>3, TrustAssumption
<1> QED
  BY <1>1, <1>3, <1>4 DEF Keeps

(* An entry that is kept has the same pin.                                 *)
LEMMA KeptPinned ==
    ASSUME NEW new, NEW old, NEW x, Keeps(new[x.name], old[x.name]), Pinned(old, x)
    PROVE  Pinned(new, x)
BY DEF Keeps, Pinned

(* What has not been lost is pinned in the other place as well.            *)
LEMMA NotLost ==
    ASSUME NEW known, NEW there, NEW x \in Seen, Pinned(known, x), x.name \notin Lost(known, there)
    PROVE  Pinned(there, x)
BY DEF Pinned, Lost, Seen

(* A session begins: what it has read of the file is in the file, and what *)
(* it has not read is forgotten.                                           *)
LEMMA OpenInStep ==
    ASSUME Exclusive, TypeOK, Asked, MemoryInStep, NEW s \in Instance, open(s)
    PROVE  MemoryInStep' /\ file' = file
<1> USE DEF TypeOK, MemoryInStep
<1>1. PICK read \in Readable : /\ entries' = [entries EXCEPT ![s] = read]
                               /\ missed' = [missed EXCEPT ![s] = Lost(file, read)]
                               /\ Forget(Lost(file, read))
  BY DEF open
<1>2. /\ \A o \in Instance : tpc[o] = "closed"
      /\ tpc' = [tpc EXCEPT ![s] = "ready"] /\ file' = file /\ seen' = seen
  BY DEF open, fileVars
<1>3. \A k \in Contact : read[k] \in {NoEntry, file[k]}
  BY ReadableType
<1>4. OneSession'
  BY <1>2 DEF OneSession
<1>5. \A o \in Instance : InStep(o)'
  BY <1>2 DEF InStep
<1>6. \A k \in Contact \ missed'[s] : Keeps(read[k], file[k])
  BY <1>1, <1>3 DEF Lost, Keeps
<1>7. MemoryExtends'
  BY <1>1, <1>2, <1>6 DEF MemoryExtends
<1>8. UsedPinned'
  <2>1. ASSUME NEW x \in used'
        PROVE  Pinned(read, x)
    <3>1. x \in used /\ x \in Seen /\ x.name \notin Lost(file, read)
      BY <1>1 DEF Forget
    <3>2. Pinned(file, x)
      BY <1>2, <3>1 DEF UsedPinned
    <3> QED
      BY <3>1, <3>2, NotLost
  <2> QED
    BY <1>1, <1>2, <2>1 DEF UsedPinned
<1> QED
  BY <1>2, <1>4, <1>5, <1>7, <1>8

(* A session ends: what is in its memory only is forgotten.                *)
LEMMA QuitInStep ==
    ASSUME TypeOK, MemoryInStep, NEW s \in Instance, quit(s)
    PROVE  MemoryInStep' /\ file' = file
<1> USE DEF TypeOK, MemoryInStep
<1>1. /\ tpc[s] # "closed" /\ tpc' = [tpc EXCEPT ![s] = "closed"] /\ file' = file
      /\ seen' = [seen EXCEPT ![s] = NoBundle] /\ Forget(Lost(entries[s], file))
  BY DEF quit, fileVars
<1>2. OneSession' /\ \A o \in Instance : tpc'[o] = "closed"
  BY <1>1, OthersClosed
<1>3. \A o \in Instance : InStep(o)'
  BY <1>1, <1>2 DEF InStep, quit
<1>4. UsedPinned'
  <2>1. ASSUME NEW x \in used'
        PROVE  Pinned(file, x)
    <3>1. x \in used /\ x \in Seen /\ x.name \notin Lost(entries[s], file)
      BY <1>1 DEF Forget
    <3>2. Pinned(entries[s], x)
      BY <1>1, <3>1 DEF UsedPinned
    <3> QED
      BY <3>1, <3>2, NotLost
  <2> QED
    BY <1>1, <1>2, <2>1 DEF UsedPinned
<1> QED
  BY <1>1, <1>2, <1>3, <1>4 DEF MemoryExtends

(* A bundle is asked about, or it is the one in memory.                    *)
LEMMA CheckInStep ==
    ASSUME TypeOK, MemoryInStep, NEW s \in Instance, NEW k \in Contact, NEW b \in Bundle, check(s, k, b)
    PROVE  MemoryInStep' /\ file' = file
<1> USE DEF TypeOK, MemoryInStep
<1>1. tpc[s] = "ready" /\ file' = file /\ entries' = entries /\ missed' = missed
  BY DEF check, fileVars
<1>2. CASE /\ entries[s][k] = NoEntry
           /\ tpc' = [tpc EXCEPT ![s] = "prompt"]
           /\ seen' = [seen EXCEPT ![s] = [name |-> k, bundle |-> b]]
           /\ UNCHANGED <<used, bound>>
  <2>1. OneSession' /\ \A o \in Instance : o # s => tpc[o] = "closed" /\ tpc'[o] = "closed"
    BY <1>1, <1>2, OthersClosed
  <2>2. \A o \in Instance : InStep(o)'
    BY <1>1, <1>2, <2>1 DEF InStep
  <2> QED
    BY <1>1, <1>2, <2>1, <2>2 DEF MemoryExtends, UsedPinned
<1>3. CASE /\ entries[s][k] # NoEntry
           /\ Matches(s, k, b)
           /\ Returns(s, {[name |-> k, bundle |-> b]})
           /\ UNCHANGED <<tpc, seen>>
  <2>1. Pinned(entries[s], [name |-> k, bundle |-> b])
    BY <1>3 DEF Pinned, Matches
  <2>2. \A o \in Instance : tpc[o] # "closed" => o = s
    BY <1>1 DEF OneSession
  <2>3. UsedPinned'
    BY <1>1, <1>3, <2>1, <2>2 DEF UsedPinned, Returns
  <2> QED
    BY <1>1, <1>3, <2>3 DEF OneSession, InStep, MemoryExtends
<1> QED
  BY <1>1, <1>2, <1>3 DEF check

(* The entry of a new contact comes into memory.                           *)
LEMMA FirstContactInStep ==
    ASSUME TypeOK, Asked, MemoryInStep, NEW s \in Instance, record_first_contact(s)
    PROVE  MemoryInStep' /\ file' = file
<1> USE DEF TypeOK, MemoryInStep
<1>1. /\ tpc[s] = "prompt" /\ tpc' = [tpc EXCEPT ![s] = "save"] /\ file' = file
      /\ seen' = seen /\ missed' = missed /\ used' = used
  BY DEF record_first_contact, fileVars, historyVars
<1>2. OneSession' /\ \A o \in Instance : o # s => tpc[o] = "closed" /\ tpc'[o] = "closed"
  BY <1>1, OthersClosed
<1>3. entries[s][seen[s].name] = NoEntry
  BY <1>1 DEF InStep
<1>4. \A o \in Instance : InStep(o)'
  BY <1>1, <1>2, FirstContactEntry DEF InStep
<1>5. MemoryExtends'
  <2>1. ASSUME NEW k \in Contact \ missed[s]
        PROVE  Keeps(entries'[s][k], file[k])
    BY <1>1, <1>3, FirstContactEntry DEF MemoryExtends, Keeps
  <2> QED
    BY <1>1, <1>2, <2>1 DEF MemoryExtends
<1>6. UsedPinned'
  <2>1. ASSUME NEW x \in used
        PROVE  Pinned(entries'[s], x)
    <3>1. Pinned(entries[s], x) /\ x.name \in Contact
      BY <1>1 DEF UsedPinned, Seen
    <3>2. x.name # seen[s].name
      BY <1>3, <3>1 DEF Pinned
    <3> QED
      BY <3>1, <3>2, FirstContactEntry DEF Pinned
  <2> QED
    BY <1>1, <1>2, <2>1 DEF UsedPinned
<1> QED
  BY <1>1, <1>2, <1>4, <1>5, <1>6

(* A contact becomes VERIFIED in memory.                                   *)
LEMMA MarkInStep ==
    ASSUME TypeOK, MemoryInStep, NEW s \in Instance, NEW k \in Contact, mark_verified(s, k)
    PROVE  MemoryInStep' /\ file' = file
<1> USE DEF TypeOK, MemoryInStep
<1>1. /\ tpc[s] = "ready" /\ tpc' = [tpc EXCEPT ![s] = "save"] /\ file' = file
      /\ seen' = seen /\ missed' = missed /\ used' = used
  BY DEF mark_verified, fileVars, historyVars
<1>2. OneSession' /\ \A o \in Instance : o # s => tpc[o] = "closed" /\ tpc'[o] = "closed"
  BY <1>1, OthersClosed
<1>3. \A o \in Instance : InStep(o)'
  BY <1>1, <1>2 DEF InStep
<1>4. MemoryExtends'
  <2>1. ASSUME NEW j \in Contact \ missed[s]
        PROVE  Keeps(entries'[s][j], file[j])
    BY <1>1, MarkedEntry DEF MemoryExtends, Keeps
  <2> QED
    BY <1>1, <1>2, <2>1 DEF MemoryExtends
<1>5. UsedPinned'
  <2>1. ASSUME NEW x \in used
        PROVE  Pinned(entries'[s], x)
    <3>1. Pinned(entries[s], x) /\ x.name \in Contact
      BY <1>1 DEF UsedPinned, Seen
    <3> QED
      BY <3>1, MarkedEntry, KeptPinned
  <2> QED
    BY <1>1, <1>2, <2>1 DEF UsedPinned
<1> QED
  BY <1>1, <1>2, <1>3, <1>4, <1>5

(* The memory becomes the file: it has every pin the session has read.     *)
LEMMA SaveInStep ==
    ASSUME TypeOK, MemoryInStep, NEW s \in Instance, _save(s)
    PROVE  MemoryInStep' /\ \A k \in Contact \ missed[s] : Keeps(file'[k], file[k])
<1> USE DEF TypeOK, MemoryInStep
<1>1. /\ tpc[s] = "save" /\ tpc' = [tpc EXCEPT ![s] = "ready"] /\ file' = entries[s]
      /\ seen' = [seen EXCEPT ![s] = NoBundle] /\ missed' = [missed EXCEPT ![s] = {}]
      /\ used' = used \cup ({seen[s]} \ {NoBundle}) /\ entries' = entries
  BY DEF _save, Returns
<1>2. OneSession' /\ \A o \in Instance : o # s => tpc[o] = "closed" /\ tpc'[o] = "closed"
  BY <1>1, OthersClosed
<1>3. \A o \in Instance : InStep(o)'
  BY <1>1, <1>2 DEF InStep
<1>4. MemoryExtends'
  BY <1>1, <1>2 DEF MemoryExtends, Keeps
<1>5. UsedPinned'
  BY <1>1, <1>2 DEF UsedPinned, InStep
<1>6. \A k \in Contact \ missed[s] : Keeps(file'[k], file[k])
  BY <1>1 DEF MemoryExtends
<1> QED
  BY <1>2, <1>3, <1>4, <1>5, <1>6

(* Every step keeps memory and file in step, and the file keeps its pins   *)
(* but for a save of a session that has missed them.                       *)
LEMMA NextInStep ==
    ASSUME Exclusive, TypeOK, Asked, MemoryInStep, [Next]_vars
    PROVE  /\ MemoryInStep'
           /\ \A k \in Contact :
                 \/ Keeps(file'[k], file[k])
                 \/ \E s \in Instance : k \in missed[s] /\ _save(s)
<1> DEFINE Kept == \A k \in Contact : Keeps(file'[k], file[k])
<1>0. file' = file => Kept
  BY DEF Keeps
<1>1. CASE UNCHANGED vars
  <2>1. MemoryInStep'
    BY <1>1 DEF vars, fileVars, historyVars, MemoryInStep, OneSession, InStep, MemoryExtends, UsedPinned
  <2> QED
    BY <1>0, <1>1, <2>1 DEF vars, fileVars
<1>2. ASSUME NEW s \in Instance, decline(s) PROVE MemoryInStep' /\ file' = file
  <2>1. OneSession' /\ \A o \in Instance : o # s => tpc[o] = "closed" /\ tpc'[o] = "closed"
    BY <1>2, OthersClosed DEF decline, TypeOK, MemoryInStep
  <2> QED
    BY <1>2, <2>1 DEF decline, fileVars, historyVars, TypeOK, MemoryInStep, InStep, MemoryExtends, UsedPinned
<1>3. ASSUME NEW s \in Instance, save_fails(s) PROVE MemoryInStep' /\ file' = file
  <2>1. OneSession' /\ \A o \in Instance : o # s => tpc[o] = "closed" /\ tpc'[o] = "closed"
    BY <1>3, OthersClosed DEF save_fails, TypeOK, MemoryInStep
  <2> QED
    BY <1>3, <2>1 DEF save_fails, fileVars, historyVars, TypeOK, MemoryInStep, InStep, MemoryExtends, UsedPinned
<1>4. ASSUME NEW k \in Contact, damage(k) PROVE MemoryInStep' /\ file' = file
  BY <1>4 DEF damage, historyVars, MemoryInStep, OneSession, InStep, MemoryExtends, UsedPinned
<1>5. ASSUME NEW s \in Instance, _save(s)
      PROVE  /\ MemoryInStep'
             /\ \A k \in Contact :
                   \/ Keeps(file'[k], file[k])
                   \/ \E o \in Instance : k \in missed[o] /\ _save(o)
  BY <1>5, SaveInStep
<1> HIDE DEF Kept
<1>6. CASE MemoryInStep' /\ file' = file
  BY <1>0, <1>6 DEF Kept
<1> QED
  BY <1>1, <1>2, <1>3, <1>4, <1>5, <1>6, OpenInStep, QuitInStep, CheckInStep,
     FirstContactInStep, MarkInStep DEF Next, SessionStep

LEMMA InitInStep == Init => MemoryInStep
BY DEF Init, MemoryInStep, OneSession, InStep, MemoryExtends, UsedPinned

(* If the user's sessions do not overlap, a pin leaves the trust file, or  *)
(* is replaced or demoted there, only with the first save of a session     *)
(* whose own _load did not get it out of the file: because the file could  *)
(* not be opened just then, with all its pins intact, or because it or     *)
(* this entry was damaged.                                                 *)
THEOREM PinsAreKept == Exclusive => (Spec => PinsKept)
<1> SUFFICES ASSUME Exclusive PROVE Spec => PinsKept
  OBVIOUS
<1>1. TypeOK /\ Asked /\ MemoryInStep /\ [Next]_vars
      => /\ MemoryInStep'
         /\ \A k \in Contact :
               \/ Keeps(file'[k], file[k])
               \/ \E s \in Instance : k \in missed[s] /\ _save(s)
  BY NextInStep
<1> QED
  BY <1>1, InitInStep, TrustTypes, PTL DEF Spec, PinsKept

(* Trust on first use: if the user's sessions do not overlap, no two       *)
(* operations ever go on with different bundles for one contact, over any  *)
(* number of sessions, failing saves and crashes, since a _load last       *)
(* missed the contact or a session ended without having saved its pin.     *)
THEOREM FirstUseBinds == Exclusive => (Spec => []OneBundlePerContact)
<1> SUFFICES ASSUME Exclusive PROVE Spec => []OneBundlePerContact
  OBVIOUS
<1>1. TypeOK /\ Asked /\ MemoryInStep /\ [Next]_vars => MemoryInStep'
  BY NextInStep
<1>2. TypeOK /\ MemoryInStep => OneBundlePerContact
  <2> SUFFICES ASSUME TypeOK, MemoryInStep, NEW x \in used, NEW y \in used, x.name = y.name
               PROVE  x.bundle = y.bundle
    BY DEF OneBundlePerContact
  <2>1. x.bundle \in Bundle /\ y.bundle \in Bundle
    BY DEF TypeOK, Seen
  <2>2. \E known : Pinned(known, x) /\ Pinned(known, y)
    BY DEF MemoryInStep, UsedPinned
  <2>3. compute_fingerprint(x.bundle) = compute_fingerprint(y.bundle)
    BY <2>2 DEF Pinned
  <2> QED
    BY <2>1, <2>3, FingerprintInjective
<1> QED
  BY <1>1, <1>2, InitInStep, TrustTypes, PTL DEF Spec

-----------------------------------------------------------------------------
(* Within one session nothing else matters: what it was given is what its  *)
(* memory has, and the entries in memory keep their fingerprints.          *)
BoundInMemory ==
    \A s \in Instance :
        /\ \A x \in bound[s] : Pinned(entries[s], x)
        /\ tpc[s] = "closed" => bound[s] = {}
        /\ tpc[s] \in {"closed", "ready"} => seen[s] = NoBundle
        /\ tpc[s] = "prompt" => entries[s][seen[s].name] = NoEntry
        /\ tpc[s] = "save" /\ seen[s] # NoBundle => Pinned(entries[s], seen[s])

(* Every step of any session, overlapping or not, keeps this.              *)
LEMMA NextBound ==
    ASSUME TypeOK, Asked, BoundInMemory, [Next]_vars
    PROVE  BoundInMemory'
<1> USE DEF TypeOK, BoundInMemory, Pinned
<1>1. CASE UNCHANGED vars
  BY <1>1 DEF vars, historyVars
<1>2. ASSUME NEW s \in Instance, open(s) PROVE BoundInMemory'
  BY <1>2 DEF open
<1>3. ASSUME NEW s \in Instance, quit(s) PROVE BoundInMemory'
  BY <1>3 DEF quit
<1>4. ASSUME NEW s \in Instance, NEW k \in Contact, NEW b \in Bundle, check(s, k, b)
      PROVE  BoundInMemory'
  BY <1>4 DEF check, Returns, Matches
<1>5. ASSUME NEW s \in Instance, decline(s) PROVE BoundInMemory'
  BY <1>5 DEF decline, historyVars
<1>6. ASSUME NEW s \in Instance, record_first_contact(s) PROVE BoundInMemory'
  <2>1. \A x \in bound[s] : x.name \in Contact /\ x.name # seen[s].name
    BY <1>6 DEF record_first_contact, Seen
  <2>2. \A x \in bound[s] : Pinned(entries[s], x)'
    BY <1>6, <2>1, FirstContactEntry DEF record_first_contact, historyVars
  <2> QED
    BY <1>6, <2>2, FirstContactEntry DEF record_first_contact, historyVars
<1>7. ASSUME NEW s \in Instance, NEW k \in Contact, mark_verified(s, k) PROVE BoundInMemory'
  <2>1. \A x \in bound[s] : Pinned(entries'[s], x)
    <3>1. ASSUME NEW x \in bound[s] PROVE Pinned(entries'[s], x)
      <4>1. x.name \in Contact /\ Pinned(entries[s], x)
        BY DEF Seen
      <4>2. Keeps(entries'[s][x.name], entries[s][x.name])
        BY <1>7, <4>1, MarkedEntry
      <4> HIDE DEF Pinned
      <4> QED
        BY <4>1, <4>2, KeptPinned
    <3> QED
      BY <3>1
  <2> QED
    BY <1>7, <2>1, MarkedEntry DEF mark_verified, historyVars
<1>8. ASSUME NEW s \in Instance, _save(s) PROVE BoundInMemory'
  BY <1>8 DEF _save, Returns
<1>9. ASSUME NEW s \in Instance, save_fails(s) PROVE BoundInMemory'
  BY <1>9 DEF save_fails, historyVars
<1>10. ASSUME NEW k \in Contact, damage(k) PROVE BoundInMemory'
  BY <1>10 DEF damage, historyVars
<1> QED
  BY <1>1, <1>2, <1>3, <1>4, <1>5, <1>6, <1>7, <1>8, <1>9, <1>10 DEF Next, SessionStep

(* A session never goes on with two different bundles for one contact, for *)
(* any number of sessions at once, failing saves and damage to the file    *)
(* included.                                                               *)
THEOREM EverySessionBinds == Spec => []SessionBinds
<1>1. Init => BoundInMemory
  BY DEF Init, BoundInMemory
<1>2. TypeOK /\ Asked /\ BoundInMemory /\ [Next]_vars => BoundInMemory'
  BY NextBound
<1>3. TypeOK /\ BoundInMemory => SessionBinds
  <2> SUFFICES ASSUME TypeOK, BoundInMemory, NEW s \in Instance,
                      NEW x \in bound[s], NEW y \in bound[s], x.name = y.name
               PROVE  x.bundle = y.bundle
    BY DEF SessionBinds
  <2>1. x.bundle \in Bundle /\ y.bundle \in Bundle
    BY DEF TypeOK, Seen
  <2>2. compute_fingerprint(x.bundle) = compute_fingerprint(y.bundle)
    BY DEF BoundInMemory, Pinned
  <2> QED
    BY <2>1, <2>2, FingerprintInjective
<1> QED
  BY <1>1, <1>2, <1>3, TrustTypes, PTL DEF Spec
=============================================================================

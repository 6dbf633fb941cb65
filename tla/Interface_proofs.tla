-------------------------- MODULE Interface_proofs --------------------------
(***************************************************************************)
(* The front ends show a complete session and the present user's own       *)
(* contacts only, and what is pinned was accepted by the user it is pinned *)
(* for: for any people, any contacts and any way of ending an operation.   *)
(***************************************************************************)
EXTENDS Interface, TLAPS

(* k was picked by u, by its own row or by one that begins with it.        *)
Picked(u, k) ==
    \E n \in Contact :
        <<u, n>> \in chosen /\ k \in {n} \cup (IF front = "gui" THEN {FirstWord(n)} ELSE {})

-----------------------------------------------------------------------------
(* The inductive invariant.  Each program has its own screens, and the     *)
(* login screen has neither a trust store nor a log.                       *)
Screens ==
    /\ front = "gui" => screen \in {"login", "main"}
    /\ front = "cli" => screen = "menu"
    /\ screen = "login" => owner = Nobody /\ log = {}
    /\ ScreenHasSession

(* The one who is asked is the one who is logged in, and the contact is    *)
(* still a new one: nothing else happens until the answer.                 *)
Asked ==
    dialog # Nobody =>
        /\ dialog[1] = username /\ username # Nobody
        /\ trust[dialog[2]] = "unknown"
        /\ front = "gui" => screen = "main"

(* The entries t are those user u has accepted, verified if he has picked  *)
(* them.  The object in memory needs this as well as the file, for a save  *)
(* writes all its entries, those of a failed save included.                *)
OwnEntries(t, u) ==
    \A k \in Contact :
        /\ t[k] # "unknown" => <<u, k>> \in accepted
        /\ t[k] = "VERIFIED" => Picked(u, k)

Pins ==
    Intact => /\ \A u \in User : OwnEntries(file[u], u)
              /\ owner # Nobody => OwnEntries(trust, owner)

IInv == TypeOK /\ Screens /\ Asked /\ ScreenIsOwn /\ Pins

LEMMA InitIInv == Init => IInv
<1> SUFFICES ASSUME Init PROVE IInv
  OBVIOUS
<1>1. TypeOK
  BY DEF Init, TypeOK, Entries, Empty, Status
<1>2. Screens /\ ScreenIsOwn /\ Asked
  BY DEF Init, Screens, ScreenHasSession, ScreenIsOwn, Asked
<1>3. Pins
  BY DEF Init, Pins, OwnEntries, Empty
<1> QED
  BY <1>1, <1>2, <1>3 DEF IInv

-----------------------------------------------------------------------------
(* The steps that leave the session, the trust store and the question as   *)
(* they are.                                                               *)
LEMMA SignupIInv == ASSUME IInv, NEW u \in User, signup(u) PROVE IInv'
<1> USE DEF signup, screenVars, historyVars
<1>1. TypeOK'
  BY DEF IInv, TypeOK
<1>2. (Screens /\ Asked /\ ScreenIsOwn)'
  BY DEF IInv, Screens, ScreenHasSession, Asked, ScreenIsOwn
<1>3. Pins'
  BY DEF IInv, Pins, Intact, OwnEntries, Picked
<1> QED
  BY <1>1, <1>2, <1>3 DEF IInv

LEMMA SpoilIInv == ASSUME IInv, NEW u \in User, spoil(u) PROVE IInv'
<1> USE DEF spoil, screenVars, historyVars
<1>1. TypeOK'
  BY DEF IInv, TypeOK
<1>2. (Screens /\ Asked /\ ScreenIsOwn)'
  BY DEF IInv, Screens, ScreenHasSession, Asked, ScreenIsOwn
<1>3. Pins'
  BY DEF IInv, Pins, Intact, OwnEntries, Picked
<1> QED
  BY <1>1, <1>2, <1>3 DEF IInv

LEMMA OnlyLogsIInv ==
    ASSUME IInv, OnlyLogs, username # Nobody, screen # "login"
    PROVE  IInv'
<1> USE DEF OnlyLogs, _log, clientVars, historyVars
<1>1. TypeOK'
  BY DEF IInv, TypeOK
<1>2. (Screens /\ Asked /\ ScreenIsOwn)'
  BY DEF IInv, Screens, ScreenHasSession, Asked, ScreenIsOwn
<1>3. Pins'
  BY DEF IInv, Pins, Intact, OwnEntries, Picked
<1> QED
  BY <1>1, <1>2, <1>3 DEF IInv

LEMMA RefreshIInv == ASSUME IInv, Refresh PROVE IInv'
<1> USE DEF Refresh, _refresh_contacts, clientVars, historyVars
<1>1. TypeOK'
  BY DEF IInv, TypeOK
<1>2. (Screens /\ Asked /\ ScreenIsOwn)'
  BY DEF IInv, Screens, ScreenHasSession, Asked, ScreenIsOwn
<1>3. Pins'
  BY DEF IInv, Pins, Intact, OwnEntries, Picked
<1> QED
  BY <1>1, <1>2, <1>3 DEF IInv

-----------------------------------------------------------------------------
(* What _load gets has no contact and no status that is not in the file.   *)
LEMMA LoadsLess ==
    ASSUME TypeOK, NEW u \in User, NEW read \in Loads(u)
    PROVE  read \in Entries /\ \A k \in Contact : read[k] # "unknown" => read[k] = file[u][k]
BY DEF TypeOK, Loads, Entries, Status

(* A session begins, breaks off in the middle of its beginning, or ends.   *)
LEMMA LoginIInv ==
    ASSUME IInv, NEW u \in User, _do_login(u) \/ _op_login(u)
    PROVE  IInv'
<1>1. /\ dialog = Nobody /\ UNCHANGED <<front, file, dialog, accepted, chosen>>
      /\ username' = u /\ accounts' = accounts /\ spoiled' = spoiled
      /\ \/ trust' \in Loads(u) /\ owner' = u /\ broken' = broken
         \/ trust' = trust /\ owner' = owner /\ broken' = TRUE
  BY DEF _do_login, _op_login, login, login_breaks, Gui, Cli, Free
<1>2. \/ front = "cli" /\ screen' = screen /\ rows' = rows /\ (log' = log \/ log' = log \cup {u})
      \/ /\ front = "gui" /\ screen = "login"
         /\ \/ screen' = screen /\ rows' = rows /\ log' = log /\ owner' = owner
            \/ screen' = "main" /\ rows' = trust' /\ log' = log \cup {u} /\ owner' = u
  BY DEF _do_login, _op_login, login, login_breaks, Gui, Cli, _log, _show_main
<1>3. trust' \in Loads(u) =>
          /\ trust' \in Entries
          /\ \A k \in Contact : trust'[k] # "unknown" => trust'[k] = file[u][k]
  BY LoadsLess DEF IInv
<1>4. TypeOK'
  BY <1>1, <1>2, <1>3 DEF IInv, TypeOK
<1>5. Screens'
  <2>1. CASE front = "gui"
    BY <1>1, <1>2, <2>1, InterfaceAssumption DEF IInv, Screens, ScreenHasSession
  <2>2. CASE front = "cli"
    BY <1>1, <1>2, <2>2 DEF IInv, Screens, ScreenHasSession
  <2> QED
    BY <2>1, <2>2 DEF IInv, TypeOK
<1>6. Asked'
  BY <1>1 DEF Asked
<1>7. ScreenIsOwn'
  BY <1>1, <1>2 DEF IInv, Screens, ScreenIsOwn
<1>8. Pins'
  <2>1. ASSUME Intact'
        PROVE  Intact
    BY <1>1, <2>1 DEF Intact
  <2>2. CASE trust' \in Loads(u) /\ owner' = u
    BY <1>1, <1>3, <2>1, <2>2 DEF IInv, Pins, OwnEntries, Picked
  <2>3. CASE trust' = trust /\ owner' = owner
    BY <1>1, <2>1, <2>3 DEF IInv, Pins, OwnEntries, Picked
  <2> QED
    BY <1>1, <2>2, <2>3
<1> QED
  BY <1>4, <1>5, <1>6, <1>7, <1>8 DEF IInv

LEMMA LogoutIInv == ASSUME IInv, _do_logout \/ _op_logout PROVE IInv'
<1>1. /\ dialog = Nobody /\ UNCHANGED <<front, rows, dialog, accepted, chosen>>
      /\ username' = Nobody /\ owner' = Nobody /\ trust' = Empty
      /\ UNCHANGED <<accounts, file, spoiled, broken>>
      /\ \/ front = "gui" /\ screen' = "login" /\ log' = {}
         \/ front = "cli" /\ screen' = screen /\ log' = log
  BY DEF _do_logout, _op_logout, logout, Gui, Cli, Free, screenVars
<1>2. TypeOK'
  BY <1>1 DEF IInv, TypeOK, Empty, Entries, Status
<1>3. (Screens /\ Asked /\ ScreenIsOwn)'
  BY <1>1 DEF IInv, Screens, ScreenHasSession, Asked, ScreenIsOwn
<1>4. Pins'
  BY <1>1 DEF IInv, Pins, Intact, OwnEntries, Picked
<1> QED
  BY <1>2, <1>3, <1>4 DEF IInv

-----------------------------------------------------------------------------
(* The question and its answers.                                           *)
LEMMA ContactsIInv ==
    ASSUME IInv, NEW k \in Contact, Contacts(k), Free, username # Nobody, screen # "login"
    PROVE  IInv'
<1>1. CASE k = username \/ trust[k] # "unknown"
  <2>1. /\ UNCHANGED <<front, clientVars, screen, dialog, historyVars>>
        /\ log' = log \/ log' = log \cup {username}
        /\ rows' = rows \/ rows' = trust
    BY <1>1 DEF Contacts, Ends, _log, clientVars
  <2>2. TypeOK'
    BY <2>1 DEF IInv, TypeOK, clientVars, historyVars
  <2>3. (Screens /\ Asked /\ ScreenIsOwn)'
    BY <2>1 DEF IInv, Screens, ScreenHasSession, Asked, ScreenIsOwn, clientVars, historyVars
  <2>4. Pins'
    BY <2>1 DEF IInv, Pins, Intact, OwnEntries, Picked, clientVars, historyVars
  <2> QED
    BY <2>2, <2>3, <2>4 DEF IInv
<1>2. CASE ~(k = username \/ trust[k] # "unknown")
  <2>1. /\ UNCHANGED <<front, clientVars, screen, log, rows, historyVars>>
        /\ dialog' = <<username, k>> /\ trust[k] = "unknown"
    BY <1>2 DEF Contacts
  <2>2. TypeOK'
    <3>1. username \in User /\ dialog' \in User \X Contact
      BY <2>1 DEF IInv, TypeOK
    <3> QED
      BY <2>1, <3>1 DEF IInv, TypeOK, clientVars, historyVars
  <2>3. (Screens /\ Asked /\ ScreenIsOwn)'
    <3>1. (Screens /\ ScreenIsOwn)'
      BY <2>1 DEF IInv, Screens, ScreenHasSession, ScreenIsOwn, clientVars, historyVars
    <3>2. front = "gui" => screen = "main"
      BY DEF IInv, Screens
    <3>3. dialog'[1] = username /\ dialog'[2] = k
      BY <2>1
    <3>4. Asked'
      BY <2>1, <3>2, <3>3 DEF Asked, clientVars
    <3> QED
      BY <3>1, <3>4
  <2>4. Pins'
    BY <2>1 DEF IInv, Pins, Intact, OwnEntries, Picked, clientVars, historyVars
  <2> QED
    BY <2>2, <2>3, <2>4 DEF IInv
<1> QED
  BY <1>1, <1>2

LEMMA DeclineIInv == ASSUME IInv, Decline PROVE IInv'
<1>1. /\ dialog' = Nobody /\ log' = log \cup {username}
      /\ UNCHANGED <<front, clientVars, screen, rows, historyVars>>
  BY DEF Decline, _log
<1>2. username \in User /\ screen # "login"
  BY DEF Decline, IInv, TypeOK, Asked, Screens
<1>3. TypeOK'
  BY <1>1, <1>2 DEF IInv, TypeOK, clientVars, historyVars
<1>4. (Screens /\ Asked /\ ScreenIsOwn)'
  BY <1>1, <1>2 DEF IInv, Screens, ScreenHasSession, Asked, ScreenIsOwn, clientVars, historyVars
<1>5. Pins'
  BY <1>1 DEF IInv, Pins, Intact, OwnEntries, Picked, clientVars, historyVars
<1> QED
  BY <1>3, <1>4, <1>5 DEF IInv

(* What a save writes: the entries of the owner with the new one, or       *)
(* nothing.                                                                *)
LEMMA RecordFacts ==
    ASSUME TypeOK, owner # Nobody, NEW k \in Contact, NEW status \in Status,
           NEW saved \in BOOLEAN, Record(k, status, saved)
    PROVE  /\ trust' = [trust EXCEPT ![k] = status] /\ trust' \in Entries
           /\ file' \in [User -> Entries] /\ spoiled' \subseteq User
           /\ \A u \in User : file'[u] = file[u] \/ (u = owner /\ file'[u] = trust')
<1> USE DEF Record, TypeOK, Entries
<1>1. trust' = [trust EXCEPT ![k] = status] /\ trust' \in Entries
  OBVIOUS
<1>2. owner \in User
  OBVIOUS
<1>3. CASE saved
  BY <1>1, <1>2, <1>3
<1>4. CASE ~saved
  BY <1>1, <1>4
<1> QED
  BY <1>3, <1>4

(* The entries of a user stay his own if the new one is.                   *)
LEMMA RecordPins ==
    ASSUME IInv, owner # Nobody, NEW k \in Contact, NEW status \in Status,
           NEW saved \in BOOLEAN, Record(k, status, saved),
           UNCHANGED <<front, owner, broken>>,
           accepted \subseteq accepted', chosen \subseteq chosen',
           Intact => <<owner, k>> \in accepted',
           Intact /\ status = "VERIFIED" => Picked(owner, k)'
    PROVE  Pins'
<1>1. TypeOK /\ Pins
  BY DEF IInv
<1>2. /\ trust' = [trust EXCEPT ![k] = status] /\ trust \in Entries
      /\ \A u \in User : file'[u] = file[u] \/ (u = owner /\ file'[u] = trust')
  BY <1>1, RecordFacts DEF TypeOK
<1>3. Intact' = Intact
  BY DEF Intact
<1>4. \A u, j : Picked(u, j) => Picked(u, j)'
  BY DEF Picked
<1>5. \A t, u : OwnEntries(t, u) => (\A j \in Contact :
         /\ t[j] # "unknown" => <<u, j>> \in accepted'
         /\ t[j] = "VERIFIED" => Picked(u, j)')
  BY <1>4 DEF OwnEntries
<1>6. ASSUME Intact PROVE OwnEntries(trust, owner)'
  <2>1. OwnEntries(trust, owner)
    BY <1>1, <1>6 DEF Pins
  <2> SUFFICES ASSUME NEW j \in Contact
               PROVE  /\ trust'[j] # "unknown" => <<owner, j>> \in accepted'
                      /\ trust'[j] = "VERIFIED" => Picked(owner, j)'
    BY DEF OwnEntries
  <2>2. CASE j = k
    BY <1>2, <1>6, <2>2 DEF Entries
  <2>3. CASE j # k
    BY <1>2, <1>5, <2>1, <2>3 DEF Entries
  <2> QED
    BY <2>2, <2>3
<1>7. ASSUME Intact, NEW u \in User PROVE OwnEntries(file[u], u)'
  <2>1. CASE file'[u] = file[u]
    <3>1. OwnEntries(file[u], u)
      BY <1>1, <1>7 DEF Pins
    <3> QED
      BY <1>5, <2>1, <3>1 DEF OwnEntries
  <2>2. CASE u = owner /\ file'[u] = trust'
    BY <1>6, <1>7, <2>2 DEF OwnEntries
  <2> QED
    BY <1>2, <2>1, <2>2
<1> QED
  BY <1>3, <1>6, <1>7 DEF Pins

LEMMA AcceptIInv == ASSUME IInv, Accept PROVE IInv'
<1>1. /\ dialog # Nobody /\ owner # Nobody /\ dialog' = Nobody
      /\ accepted' = accepted \cup {dialog}
      /\ UNCHANGED <<front, accounts, username, owner, screen, chosen, broken>>
  BY DEF Accept
<1>2. PICK how \in {"done", "refused", "raised"} :
         Record(dialog[2], "UNVERIFIED", how # "raised") /\ Ends(how)
  BY DEF Accept, record_first_contact
<1> DEFINE k == dialog[2]
<1>3. /\ dialog = <<username, k>> /\ k \in Contact /\ username \in User
      /\ trust[k] = "unknown" /\ username # Nobody
      /\ front = "gui" => screen = "main"
  BY <1>1, InterfaceAssumption DEF IInv, TypeOK, Asked
<1>4. TypeOK /\ "UNVERIFIED" \in Status /\ (how # "raised") \in BOOLEAN
  BY DEF IInv, Status
<1> HIDE DEF k
<1>5. /\ trust' = [trust EXCEPT ![k] = "UNVERIFIED"] /\ trust' \in Entries /\ trust \in Entries
      /\ file' \in [User -> Entries] /\ spoiled' \subseteq User
  BY <1>1, <1>2, <1>3, <1>4, RecordFacts DEF k, TypeOK
<1>6. /\ log' = log \/ log' = log \cup {username}
      /\ rows' = rows \/ rows' = trust'
  BY <1>2 DEF Ends, _log
<1>7. TypeOK'
  BY <1>1, <1>4, <1>5, <1>6, <1>3 DEF TypeOK
<1>8. (Screens /\ Asked)'
  <2>1. screen # "login"
    BY <1>3 DEF IInv, Screens, TypeOK
  <2> QED
    BY <1>1, <2>1 DEF IInv, Screens, ScreenHasSession, Asked
<1>9. ScreenIsOwn'
  <2>1. CASE rows' = rows
    BY <1>1, <1>3, <1>5, <1>6, <2>1 DEF IInv, ScreenIsOwn, Entries
  <2>2. CASE rows' = trust'
    BY <1>1, <1>6, <2>2 DEF IInv, ScreenIsOwn
  <2> QED
    BY <1>6, <2>1, <2>2
<1>10. Pins'
  <2>1. Intact => <<owner, k>> \in accepted'
    BY <1>1, <1>3 DEF IInv, Screens, ScreenHasSession, Intact, TypeOK
  <2>2. Record(k, "UNVERIFIED", how # "raised")
    BY <1>2 DEF k
  <2> QED
    BY <1>1, <1>3, <1>4, <2>1, <2>2, RecordPins
<1> QED
  BY <1>7, <1>8, <1>9, <1>10 DEF IInv

-----------------------------------------------------------------------------
(* A contact is marked.                                                    *)
LEMMA MarkFacts ==
    ASSUME TypeOK, NEW k \in Contact, NEW saved \in BOOLEAN, mark_contact_verified(k, saved)
    PROVE  /\ username # Nobody /\ owner # Nobody /\ trust[k] # "unknown"
           /\ trust' = [trust EXCEPT ![k] = "VERIFIED"] /\ trust' \in Entries
           /\ file' \in [User -> Entries] /\ spoiled' \subseteq User
           /\ UNCHANGED <<trust, file>> \/ Record(k, "VERIFIED", saved)
<1>1. username # Nobody /\ owner # Nobody /\ trust[k] # "unknown"
  BY DEF mark_contact_verified
<1>2. CASE trust[k] = "VERIFIED"
  BY <1>1, <1>2 DEF mark_contact_verified, TypeOK, Entries
<1>3. CASE trust[k] # "VERIFIED"
  <2>1. Record(k, "VERIFIED", saved) /\ "VERIFIED" \in Status
    BY <1>3 DEF mark_contact_verified, Status
  <2> QED
    BY <1>1, <2>1, RecordFacts
<1> QED
  BY <1>2, <1>3

(* The mark is the user's own: he has accepted the contact before, and has *)
(* picked it now.                                                          *)
LEMMA MarkPins ==
    ASSUME IInv, NEW k \in Contact, NEW saved \in BOOLEAN, mark_contact_verified(k, saved),
           UNCHANGED <<front, owner, broken, accepted>>, chosen \subseteq chosen',
           Intact => Picked(owner, k)'
    PROVE  Pins'
<1>1. TypeOK /\ Pins /\ "VERIFIED" \in Status
  BY DEF IInv, Status
<1>2. owner # Nobody /\ trust[k] # "unknown"
  BY DEF mark_contact_verified
<1>3. Intact => <<owner, k>> \in accepted
  BY <1>1, <1>2 DEF Pins, OwnEntries
<1>4. CASE UNCHANGED <<trust, file>>
  <2>1. \A u, j : Picked(u, j) => Picked(u, j)'
    BY DEF Picked
  <2>2. Intact' = Intact
    BY DEF Intact
  <2>3. \A t, u : OwnEntries(t, u) => (\A j \in Contact :
           /\ t[j] # "unknown" => <<u, j>> \in accepted'
           /\ t[j] = "VERIFIED" => Picked(u, j)')
    BY <2>1 DEF OwnEntries
  <2> QED
    BY <1>1, <1>4, <2>2, <2>3 DEF Pins, OwnEntries
<1>5. CASE Record(k, "VERIFIED", saved)
  BY <1>1, <1>2, <1>3, <1>5, RecordPins
<1> QED
  BY <1>1, <1>4, <1>5, MarkFacts

LEMMA VerifySelectedIInv ==
    ASSUME IInv, NEW k \in Contact, _verify_selected_contact(k)
    PROVE  IInv'
<1> DEFINE name == FirstWord(k)
<1>1. /\ name \in Contact /\ front = "gui" /\ screen = "main" /\ dialog = Nobody
      /\ chosen' = chosen \cup {<<username, k>>}
      /\ UNCHANGED <<front, accounts, username, owner, screen, dialog, accepted, broken>>
  BY DEF _verify_selected_contact, Gui, Free
<1>2. PICK saved \in BOOLEAN :
         /\ mark_contact_verified(name, saved)
         /\ log' = log \/ log' = log \cup {username}
         /\ rows' = rows \/ rows' = trust'
  BY DEF _verify_selected_contact, _log
<1> HIDE DEF name
<1>3. TypeOK
  BY DEF IInv
<1>4. /\ username # Nobody /\ trust[name] # "unknown" /\ trust \in Entries
      /\ trust' = [trust EXCEPT ![name] = "VERIFIED"] /\ trust' \in Entries
      /\ file' \in [User -> Entries] /\ spoiled' \subseteq User
  BY <1>1, <1>2, <1>3, MarkFacts DEF TypeOK
<1>5. username = owner /\ username \in User
  BY <1>1, <1>4 DEF IInv, Screens, ScreenHasSession, TypeOK
<1>6. TypeOK'
  <2>1. chosen' \subseteq User \X Contact
    BY <1>1, <1>3, <1>5 DEF TypeOK
  <2>2. rows' \in Entries
    BY <1>2, <1>3, <1>4 DEF TypeOK
  <2>3. log' \subseteq User
    BY <1>2, <1>3, <1>5 DEF TypeOK
  <2> QED
    BY <1>1, <1>3, <1>4, <2>1, <2>2, <2>3 DEF TypeOK
<1>7. (Screens /\ Asked)'
  BY <1>1 DEF IInv, Screens, ScreenHasSession, Asked
<1>8. ScreenIsOwn'
  <2>1. CASE rows' = rows
    BY <1>1, <1>2, <1>4, <2>1 DEF IInv, ScreenIsOwn, Entries
  <2>2. CASE rows' = trust'
    BY <1>1, <1>2, <2>2 DEF IInv, ScreenIsOwn
  <2> QED
    BY <1>2, <2>1, <2>2
<1>9. Pins'
  <2>1. Picked(owner, name)'
    BY <1>1, <1>5 DEF Picked, name
  <2> QED
    BY <1>1, <1>2, <2>1, MarkPins
<1> QED
  BY <1>6, <1>7, <1>8, <1>9 DEF IInv

LEMMA VerifyContactIInv ==
    ASSUME IInv, NEW k \in Contact, _op_verify_contact(k)
    PROVE  IInv'
<1>1. /\ front = "cli" /\ dialog = Nobody
      /\ chosen' = chosen \cup {<<username, k>>}
      /\ UNCHANGED <<front, accounts, username, owner, screen, log, rows, dialog, accepted, broken>>
  BY DEF _op_verify_contact, Cli, Free, screenVars
<1>2. PICK saved \in BOOLEAN : mark_contact_verified(k, saved)
  BY DEF _op_verify_contact
<1>3. TypeOK /\ screen = "menu"
  BY <1>1 DEF IInv, Screens
<1>4. /\ username # Nobody
      /\ trust' \in Entries /\ file' \in [User -> Entries] /\ spoiled' \subseteq User
  BY <1>2, <1>3, MarkFacts
<1>5. TypeOK'
  <2>1. username \in User
    BY <1>3, <1>4 DEF TypeOK
  <2>2. chosen' \subseteq User \X Contact
    BY <1>1, <1>3, <2>1 DEF TypeOK
  <2> QED
    BY <1>1, <1>3, <1>4, <2>2 DEF TypeOK
<1>6. (Screens /\ Asked /\ ScreenIsOwn)'
  BY <1>1, <1>3 DEF IInv, Screens, ScreenHasSession, Asked, ScreenIsOwn
<1>7. Pins'
  <2>1. Intact => Picked(owner, k)'
    BY <1>1, <1>3 DEF IInv, Screens, ScreenHasSession, Intact, Picked
  <2> QED
    BY <1>1, <1>2, <2>1, MarkPins
<1> QED
  BY <1>5, <1>6, <1>7 DEF IInv

-----------------------------------------------------------------------------
LEMMA NextIInv == IInv /\ [Next]_vars => IInv'
<1> SUFFICES ASSUME IInv, [Next]_vars PROVE IInv'
  OBVIOUS
<1>1. CASE UNCHANGED vars
  <2> USE <1>1 DEF vars, clientVars, screenVars, historyVars
  <2>1. TypeOK'
    BY DEF IInv, TypeOK
  <2>2. (Screens /\ Asked /\ ScreenIsOwn)'
    BY DEF IInv, Screens, ScreenHasSession, Asked, ScreenIsOwn
  <2>3. Pins'
    BY DEF IInv, Pins, Intact, OwnEntries, Picked
  <2> QED
    BY <2>1, <2>2, <2>3 DEF IInv
<1>2. Gui("main") => Free /\ username # Nobody /\ screen # "login"
  BY DEF Gui, IInv, Screens, ScreenHasSession
<1>3. Cli => Free /\ screen # "login"
  BY DEF Cli, IInv, Screens
<1>4. ASSUME NEW u \in User,
             _do_login(u) \/ _do_signup(u) \/ _op_login(u) \/ _op_signup(u) \/ spoil(u)
      PROVE  IInv'
  BY <1>4, LoginIInv, SignupIInv, SpoilIInv DEF _do_signup, _op_signup
<1>5. ASSUME NEW k \in Contact,
             _do_share(k) \/ _do_download(k) \/ _op_share(k) \/ _op_download(k)
      PROVE  IInv'
  BY <1>2, <1>3, <1>5, ContactsIInv DEF _do_share, _do_download, _op_share, _op_download
<1>6. ASSUME NEW k \in Contact, _verify_selected_contact(k) \/ _op_verify_contact(k)
      PROVE  IInv'
  BY <1>6, VerifySelectedIInv, VerifyContactIInv
<1>7. CASE _do_upload \/ _do_change_password \/ _op_upload \/ _op_change_password \/ _op_list_contacts
  BY <1>2, <1>3, <1>7, OnlyLogsIInv
     DEF _do_upload, _do_change_password, _op_upload, _op_change_password, _op_list_contacts
<1>8. CASE _do_logout \/ _op_logout
  BY <1>8, LogoutIInv
<1>9. CASE Refresh \/ Accept \/ Decline
  BY <1>9, RefreshIInv, AcceptIInv, DeclineIInv
<1> QED
  BY <1>1, <1>4, <1>5, <1>6, <1>7, <1>8, <1>9 DEF Next

-----------------------------------------------------------------------------
(* The front ends keep the whole invariant, the types among it.            *)
THEOREM FrontEndsAreSafe == Spec => []IInv
  BY InitIInv, NextIInv, PTL DEF Spec

(* The actions are on the screen for a complete session only (gui.py).     *)
THEOREM ScreenShowsSession == Spec => []ScreenHasSession
<1>1. IInv => ScreenHasSession
  BY DEF IInv, Screens
<1> QED
  BY <1>1, FrontEndsAreSafe, PTL

(* The log and the contacts on the screen are the present user's           *)
(* (_do_logout, _show_main).                                               *)
THEOREM ScreenShowsOwn == Spec => []ScreenIsOwn
<1>1. IInv => ScreenIsOwn
  BY DEF IInv
<1> QED
  BY <1>1, FrontEndsAreSafe, PTL

(* A contact is pinned for a user who said yes to it                       *)
(* (_ask_trust_fingerprint, _trust_prompt).                                *)
THEOREM PinsAreAccepted == Spec => []PinsAccepted
<1>1. IInv => PinsAccepted
  BY DEF IInv, Pins, OwnEntries, PinsAccepted
<1> QED
  BY <1>1, FrontEndsAreSafe, PTL

(* A contact is VERIFIED for a user who picked it                          *)
(* (_verify_selected_contact, _op_verify_contact).                         *)
THEOREM VerifiedIsChosen == Spec => []VerifiedAsChosen
<1>1. IInv => VerifiedAsChosen
  BY DEF IInv, Pins, OwnEntries, Picked, VerifiedAsChosen
<1> QED
  BY <1>1, FrontEndsAreSafe, PTL
=============================================================================

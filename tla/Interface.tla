----------------------------- MODULE Interface -----------------------------
(***************************************************************************)
(* The two front ends, class SecureVaultGUI of client/gui.py and the menu  *)
(* of client/cli.py, over one SecureVaultClient: what is on the screen and *)
(* whom it belongs to, the question that a first contact puts to the user, *)
(* and the contacts a user marks as verified.                              *)
(*                                                                         *)
(* The operations of the client themselves are modelled in VaultAccounts,  *)
(* VaultSharing and TrustStore; here each of them succeeds or raises.  A   *)
(* name is the sequence of its words.  Several people use the same machine *)
(* one after the other.                                                    *)
(***************************************************************************)
EXTENDS Sequences

CONSTANTS User,     \* names of the people at this machine
          Contact,  \* names they share with or get documents from
          Nobody

Status == {"unknown", "UNVERIFIED", "VERIFIED"}
Entries == [Contact -> Status]
Empty == [k \in Contact |-> "unknown"]

ASSUME InterfaceAssumption ==
    /\ Nobody \notin User \cup Contact \cup (User \X Contact)
    /\ \A n \in User \cup Contact : n # <<>>

VARIABLES front,    \* which of the two programs is run
          accounts, \* names that are registered (server and keystore)
          username, \* of the client
          owner,    \* whose TrustStore object the client has
          trust,    \* the entries in that object
          file,     \* the trust file of each user
          spoiled,  \* users whose trust file has an entry that is no object
          screen,   \* the frame that is packed
          log,      \* whose lines are in the activity log
          rows,     \* contacts_list
          dialog,   \* who is being asked about which new contact
          accepted, \* history: <<user, contact>>, the user has said yes
          chosen,   \* history: <<user, contact>>, picked to be marked
          broken    \* history: a login has raised half-way

clientVars  == <<accounts, username, owner, trust, file, spoiled>>
screenVars  == <<screen, log, rows, dialog>>
historyVars == <<accepted, chosen, broken>>
vars == <<front, clientVars, screenVars, historyVars>>

TypeOK ==
    /\ front \in {"gui", "cli"} /\ screen \in {"login", "main", "menu"}
    /\ username \in User \cup {Nobody} /\ owner \in User \cup {Nobody}
    /\ trust \in Entries /\ file \in [User -> Entries] /\ rows \in Entries
    /\ accounts \subseteq User /\ spoiled \subseteq User /\ log \subseteq User
    /\ dialog \in (User \X Contact) \cup {Nobody}
    /\ accepted \subseteq User \X Contact /\ chosen \subseteq User \X Contact
    /\ broken \in BOOLEAN

(* Both programs start logged out, the GUI with _show_login.               *)
Init ==
    /\ front \in {"gui", "cli"}
    /\ screen = IF front = "gui" THEN "login" ELSE "menu"
    /\ accounts = {} /\ username = Nobody /\ owner = Nobody
    /\ trust = Empty /\ file = [u \in User |-> Empty] /\ spoiled = {}
    /\ log = {} /\ rows = Empty /\ dialog = Nobody
    /\ accepted = {} /\ chosen = {} /\ broken = FALSE

-----------------------------------------------------------------------------
(* Faulty variants, named after the bug, stand before the definition they  *)
(* are variants of; nothing else uses them.                                *)
Free_without_grab == TRUE

(* The question blocks the program: the dialog has the grab and            *)
(* wait_window returns when it is gone; the menu waits in input().         *)
Free == dialog = Nobody

Gui(s) == front = "gui" /\ screen = s /\ Free
Cli == front = "cli" /\ Free

(* _log, and what the menu prints.                                         *)
_log(u) == log' = log \cup {u}

-----------------------------------------------------------------------------
(* What the front ends call in the client.                                 *)

(* What _load may get from a file: all of it, or less of it if the file    *)
(* cannot be read or has damaged entries.  The file stays as it is.        *)
Loads(u) ==
    {[k \in Contact |-> IF k \in read THEN file[u][k] ELSE "unknown"] : read \in SUBSET Contact}

(* login, carried through: the TrustStore of the user is read.             *)
login(u) ==
    /\ username' = u /\ owner' = u /\ trust' \in Loads(u)
    /\ UNCHANGED <<accounts, file, spoiled, broken>>

(* _load raises a TypeError for an entry that is no object: username and   *)
(* keys are those of the new user already, the trust store is not.         *)
login_breaks(u) ==
    /\ username' = u /\ broken' = TRUE
    /\ UNCHANGED <<accounts, owner, trust, file, spoiled>>

logout ==
    /\ username' = Nobody /\ owner' = Nobody /\ trust' = Empty
    /\ UNCHANGED <<accounts, file, spoiled, broken>>

(* TrustStore: the entry is made in memory and all of them are saved,      *)
(* unless the save raises.                                                 *)
Record(k, status, saved) ==
    LET new == [trust EXCEPT ![k] = status]
    IN  /\ trust' = new
        /\ file' = IF saved THEN [file EXCEPT ![owner] = new] ELSE file
        /\ spoiled' = IF saved THEN spoiled \ {owner} ELSE spoiled

mark_contact_verified(k, saved) ==
    /\ username # Nobody /\ owner # Nobody /\ trust[k] # "unknown"
    /\ IF trust[k] = "VERIFIED" THEN UNCHANGED <<trust, file, spoiled>>
       ELSE Record(k, "VERIFIED", saved)

-----------------------------------------------------------------------------
(* The GUI.                                                                *)

_refresh_contacts == rows' = trust

_show_main_as_it_was == screen' = "main" /\ UNCHANGED rows

(* The list is filled anew, from the trust store as it is now.             *)
_show_main == screen' = "main" /\ rows' = trust'

_do_login_whatever_is_raised(u) ==
    /\ Gui("login") /\ u \in accounts
    /\ (u \notin spoiled /\ login(u)) \/ (u \in spoiled /\ login_breaks(u))
    /\ _log(u) /\ _show_main
    /\ UNCHANGED <<front, dialog, accepted, chosen>>

(* A ClientError changes nothing but the status line; an error of another  *)
(* class ends the handler before _show_main.                               *)
_do_login(u) ==
    /\ Gui("login") /\ u \in accounts
    /\ \/ u \notin spoiled /\ login(u) /\ _log(u) /\ _show_main
       \/ u \in spoiled /\ login_breaks(u) /\ UNCHANGED <<screen, log, rows>>
    /\ UNCHANGED <<front, dialog, accepted, chosen>>

signup(u) ==
    /\ accounts' = accounts \cup {u}
    /\ UNCHANGED <<front, username, owner, trust, file, spoiled, screenVars, historyVars>>

_do_signup(u) == Gui("login") /\ signup(u)

(* The log is emptied; the list, the last doc_id and the entry fields are  *)
(* left as they are.                                                       *)
_do_logout ==
    /\ Gui("main") /\ logout
    /\ log' = {} /\ screen' = "login"
    /\ UNCHANGED <<front, rows, dialog, accepted, chosen>>

(* The handlers that change nothing in the client's session: a line in the *)
(* log, whether the operation succeeds or raises a ClientError.            *)
OnlyLogs ==
    /\ _log(username)
    /\ UNCHANGED <<front, clientVars, screen, rows, dialog, historyVars>>

_do_upload == Gui("main") /\ OnlyLogs
_do_change_password == Gui("main") /\ OnlyLogs

(* The end of _do_share and _do_download: the list is filled anew after a  *)
(* success only, and an error that is no ClientError leaves no line.       *)
Ends(how) ==
    /\ IF how = "raised" THEN UNCHANGED log ELSE _log(username)
    /\ rows' = IF front = "gui" /\ how = "done" THEN trust' ELSE rows

(* A known contact, or the user's own name, needs no question.             *)
Contacts(k) ==
    /\ IF k = username \/ trust[k] # "unknown"
       THEN UNCHANGED <<clientVars, dialog>> /\ \E how \in {"done", "refused"} : Ends(how)
       ELSE dialog' = <<username, k>> /\ UNCHANGED <<clientVars, log, rows>>
    /\ UNCHANGED <<front, screen, historyVars>>

_do_share(k) == Gui("main") /\ Contacts(k)
_do_download(k) == Gui("main") /\ Contacts(k)

record_as_verified(k, saved) == Record(k, "VERIFIED", saved)

record_first_contact(k, saved) == Record(k, "UNVERIFIED", saved)

(* The answer, in either program.  After a yes the operation goes on, with *)
(* the client as it is by now.                                             *)
Accept ==
    /\ dialog # Nobody /\ owner # Nobody
    /\ \E how \in {"done", "refused", "raised"} :
          record_first_contact(dialog[2], how # "raised") /\ Ends(how)
    /\ accepted' = accepted \cup {dialog}
    /\ dialog' = Nobody
    /\ UNCHANGED <<front, accounts, username, owner, screen, chosen, broken>>

(* Anything but the one button or a "y": the ClientError of a declined     *)
(* contact.                                                                *)
Decline ==
    /\ dialog # Nobody
    /\ dialog' = Nobody /\ _log(username)
    /\ UNCHANGED <<front, clientVars, screen, rows, historyVars>>

Refresh ==
    /\ Gui("main") /\ _refresh_contacts
    /\ UNCHANGED <<front, clientVars, screen, log, dialog, historyVars>>

(* What split()[0] takes from the text of a row: the first word.           *)
FirstWord(k) == SubSeq(k, 1, 1)

(* A row is selected; the contact that its first word names is marked, if  *)
(* there is one.                                                           *)
_verify_selected_contact(k) ==
    LET name == FirstWord(k)
    IN  /\ Gui("main") /\ rows[k] # "unknown" /\ name \in Contact
        /\ \/ mark_contact_verified(name, TRUE) /\ _log(username) /\ rows' = trust'
           \/ mark_contact_verified(name, FALSE) /\ UNCHANGED <<log, rows>>
        /\ chosen' = chosen \cup {<<username, k>>}
        /\ UNCHANGED <<front, accounts, username, owner, screen, dialog, accepted, broken>>

-----------------------------------------------------------------------------
(* The menu.  A login does not ask for a logout first.                     *)
_op_login(u) ==
    /\ Cli /\ u \in accounts
    /\ \/ u \notin spoiled /\ login(u) /\ _log(u)
       \/ u \in spoiled /\ login_breaks(u) /\ UNCHANGED log
    /\ UNCHANGED <<front, screen, rows, dialog, accepted, chosen>>

_op_signup(u) == Cli /\ signup(u)

_op_logout ==
    /\ Cli /\ username # Nobody /\ logout
    /\ UNCHANGED <<front, screenVars, accepted, chosen>>

_op_upload == Cli /\ username # Nobody /\ OnlyLogs
_op_change_password == Cli /\ username # Nobody /\ OnlyLogs
_op_list_contacts == Cli /\ username # Nobody /\ owner # Nobody /\ OnlyLogs

(* Without a trust store the assertion in _get_verified_pubkey fails.      *)
_op_share(k) == Cli /\ username # Nobody /\ owner # Nobody /\ Contacts(k)
_op_download(k) == Cli /\ username # Nobody /\ owner # Nobody /\ Contacts(k)

_op_verify_contact(k) ==
    /\ Cli /\ \E saved \in BOOLEAN : mark_contact_verified(k, saved)
    /\ chosen' = chosen \cup {<<username, k>>}
    /\ UNCHANGED <<front, accounts, username, owner, screenVars, accepted, broken>>

(* External: somebody else has written the file of a user.                 *)
spoil(u) ==
    /\ spoiled' = spoiled \cup {u}
    /\ UNCHANGED <<front, accounts, username, owner, trust, file, screenVars, historyVars>>

Next ==
    \/ \E u \in User : _do_login(u) \/ _do_signup(u) \/ _op_login(u) \/ _op_signup(u) \/ spoil(u)
    \/ \E k \in Contact :
          \/ _do_share(k) \/ _do_download(k) \/ _verify_selected_contact(k)
          \/ _op_share(k) \/ _op_download(k) \/ _op_verify_contact(k)
    \/ _do_logout \/ _do_upload \/ _do_change_password \/ Refresh
    \/ _op_logout \/ _op_upload \/ _op_change_password \/ _op_list_contacts
    \/ Accept \/ Decline

Spec == Init /\ [][Next]_vars

-----------------------------------------------------------------------------
(* In the menu, not after a login that has raised half-way.                *)
Intact == front = "gui" \/ ~broken

(* "Every action tab is unreachable before login" (gui.py), and whoever is *)
(* logged in works with his own trust store: the screen with the actions   *)
(* is shown for a complete session only, also if a login has raised in the *)
(* middle, and so is the menu if none has.                                 *)
ScreenHasSession ==
    /\ screen = "main" => username # Nobody /\ owner = username
    /\ screen = "menu" /\ ~broken => owner = username

(* What the screen shows of a session, the log and the contacts, is the    *)
(* present user's: a contact in the list is in his trust store and is      *)
(* shown with no better status than it has there.  The list may lag        *)
(* behind, for it is not filled anew after an operation that failed.       *)
ScreenIsOwn ==
    screen = "main" =>
        /\ log \subseteq {username}
        /\ \A k \in Contact :
              /\ rows[k] # "unknown" => trust[k] # "unknown"
              /\ rows[k] = "VERIFIED" => trust[k] = "VERIFIED"

(* A contact is pinned for a user only if this user was asked about it and *)
(* said yes: the question blocks the app (_ask_trust_fingerprint), so that *)
(* nobody else can have logged in by the time it is answered.              *)
PinsAccepted ==
    Intact => \A u \in User, k \in Contact : file[u][k] # "unknown" => <<u, k>> \in accepted

(* A contact of a user is VERIFIED only after this user has picked it, or  *)
(* in the GUI a contact whose name begins with it, to be marked.           *)
VerifiedAsChosen ==
    Intact => \A u \in User, k \in Contact :
        file[u][k] = "VERIFIED" =>
            \E n \in Contact : <<u, n>> \in chosen /\ k \in {n} \cup (IF front = "gui" THEN {FirstWord(n)} ELSE {})
=============================================================================

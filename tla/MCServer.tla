------------------------------ MODULE MCServer ------------------------------
(***************************************************************************)
(* Instances of SecureVaultServer for TLC: two users, one or two documents *)
(* and, for each question, the few requests that bear on it.  Keys and     *)
(* nonces are named by strings, the absent values are model values.        *)
(***************************************************************************)
EXTENDS SecureVaultServer, TLC

ThreadSymmetry == Permutations(Thread)

MCUser  == {"layla", "omar"}
MCDocId == {"d1"}
MCBody  == {"b1", "b2"}
MCNonce == {"n1", "n2", "n3", "n4", ""}
MCEmptyNonce == ""
MCSalt  == {"s1", "s2", "s3"}
MCKey   == {"layla_sig", "omar_sig", "dh", "k1", "k2", "k3"}

Row(sig, salt, auth) == [salt |-> salt, auth_pub |-> auth, sig_pub |-> sig, dh_pub |-> "dh"]

RegisterLayla  == [type |-> "REGISTER", username |-> "layla", row |-> Row("layla_sig", "s1", "k1")]
RegisterLayla2 == [type |-> "REGISTER", username |-> "layla", row |-> Row("omar_sig", "s2", "k2")]
RegisterOmar   == [type |-> "REGISTER", username |-> "omar", row |-> Row("omar_sig", "s2", "k2")]

Query(type, u) == [type |-> type, username |-> u]

Document(d, u, v, b) == [doc_id |-> d, owner |-> u, version |-> v, body |-> b]

Upload(u, n, key, doc) ==
    [type |-> "UPLOAD", username |-> u, nonce |-> n,
     sig |-> [key |-> key, payload |-> payload_upload(u, n)], document |-> doc]

Share(u, v, d, n, key, blob) ==
    [type |-> "SHARE", username |-> u, recipient |-> v, doc_id |-> d, nonce |-> n,
     sig |-> [key |-> key, payload |-> payload_share(u, d, v, n)], share_blob |-> blob]

GetDoc(u, d, n, key) ==
    [type |-> "GET_DOC", username |-> u, doc_id |-> d, nonce |-> n,
     sig |-> [key |-> key, payload |-> payload_download(u, d, n)]]

ChangePassword(u, n, key, salt, newKey) ==
    [type |-> "CHANGE_PASSWORD", username |-> u, nonce |-> n,
     sig |-> [key |-> key, payload |-> payload_change_password(u, n)],
     new_salt |-> salt, new_auth_pub |-> newKey]

Login(u, c, key) ==
    [type |-> "LOGIN_RESPONSE", username |-> u,
     sig |-> [key |-> key, payload |-> <<"challenge", c>>]]

ToOmar(b) == [sender |-> "layla", recipient |-> "omar", doc_id |-> "d1", body |-> b]

(* Documents and shares: two uploads race for one doc_id, an upload and a  *)
(* share use the same nonce, one upload is not signed by its owner, omar   *)
(* reads the document, before or after it is shared with him; and requests *)
(* that are refused or only read.  All of them may be delivered again,     *)
(* after the process was started again on the same database file as well.  *)
DocRequests == {
    RegisterLayla, RegisterOmar, [type |-> "MALFORMED"],
    Query("GET_SALT", "layla"), Query("GET_USER_PUBKEY", "layla"),
    Upload("layla", "n1", "layla_sig", Document("d1", "layla", 1, "b1")),
    Upload("omar", "n2", "omar_sig", Document("d1", "omar", 1, "b2")),
    Upload("layla", "n3", "omar_sig", Document("d1", "layla", 1, "b2")),
    Share("layla", "omar", "d1", "n1", "layla_sig", ToOmar("b1")),
    GetDoc("omar", "d1", "n4", "omar_sig"),
    Query("LIST_DOCS", "omar") }

(* Replay: layla shares her document with omar, and each of these requests *)
(* may come again at any time.                                             *)
ReplayRequests == {
    RegisterLayla, RegisterOmar,
    Upload("layla", "n1", "layla_sig", Document("d1", "layla", 1, "b1")),
    Share("layla", "omar", "d1", "n3", "layla_sig", ToOmar("b1")) }

(* Accounts: two registrations of one name, logins that share the one slot *)
(* for layla's challenge, a change of password, and one whose parameters   *)
(* do not convert.                                                         *)
AuthRequests == {
    RegisterLayla, RegisterLayla2,
    Query("LOGIN_CHALLENGE_REQ", "layla"),
    Login("layla", 0, "k1"), Login("layla", 1, "k1"),
    ChangePassword("layla", "n1", "k1", "s2", "k2"),
    ChangePassword("layla", "n2", "k1", BadSalt, "k3") }
=============================================================================

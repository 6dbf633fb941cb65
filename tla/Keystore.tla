------------------------------ MODULE Keystore ------------------------------
(***************************************************************************)
(* client/keystore.py: the files {username}_keys.svks of a storage         *)
(* directory.  A file holds the identity keys of one user, encrypted under *)
(* a key-encryption key (kek).  Argon2id and derive_both make the kek and  *)
(* the authentication key from a password and a salt; different passwords  *)
(* or salts give different keys, so the kek is that pair.  Decryption      *)
(* succeeds exactly under the kek the file was written with.               *)
(*                                                                         *)
(* A save is one step here: module AtomicWrite looks inside it.            *)
(***************************************************************************)
CONSTANTS Dir,      \* storage directories
          Owner,    \* users with a keystore
          Kek,      \* key-encryption keys
          Identity, \* pairs of a signing key and a key-agreement key
          NoFile    \* there is no such file

VARIABLE keystore   \* the file of each directory and user

File == [kek : Kek, keys : Identity]

KeystoreTypeOK == keystore \in [Dir -> [Owner -> File \cup {NoFile}]]

KeystoreInit == keystore = [d \in Dir |-> [u \in Owner |-> NoFile]]

save_keys(d, u, keys, kek) ==
    keystore' = [keystore EXCEPT ![d][u] = [kek |-> kek, keys |-> keys]]

Opens_any_key(d, u, kek) == keystore[d][u] # NoFile

(* load_keys raises no KeystoreError.                                      *)
Opens(d, u, kek) == keystore[d][u] # NoFile /\ keystore[d][u].kek = kek

load_keys(d, u) == keystore[d][u].keys
=============================================================================

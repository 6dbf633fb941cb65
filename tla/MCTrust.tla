------------------------------ MODULE MCTrust ------------------------------
(***************************************************************************)
(* Instances of TrustStore for TLC: two processes, two contacts, and two   *)
(* keys of each kind, so that one half of a bundle can change alone.       *)
(***************************************************************************)
EXTENDS TrustStore
=============================================================================

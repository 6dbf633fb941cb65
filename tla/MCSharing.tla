----------------------------- MODULE MCSharing -----------------------------
(***************************************************************************)
(* The instance of VaultSharing for TLC.  Two threads, so that a request   *)
(* whose client has gone away can be overtaken by its own replay.  Threads *)
(* are interchangeable, and so are the registered users.                   *)
(***************************************************************************)
EXTENDS VaultSharing, TLC

MCSalt == {FakeSalt}
MCDocId == Draw
Symmetry == Permutations(Registered) \cup Permutations(Thread)
=============================================================================

--------------------------- MODULE MCAtomicWrite ---------------------------
(***************************************************************************)
(* Instances of AtomicWrite for TLC: two writers, and three inodes, those  *)
(* of path, of path.tmp and of path on disk or one that a writer has open  *)
(* although another has put it in place.                                   *)
(***************************************************************************)
EXTENDS AtomicWrite, TLC

Symmetry == Permutations(Inode) \cup Permutations(Value) \cup Permutations(Writer)
=============================================================================

----------------------------- MODULE MCAccounts -----------------------------
(***************************************************************************)
(* Instances of VaultAccounts for TLC: one user, two passwords, clients    *)
(* that share one storage directory or have one each.                      *)
(***************************************************************************)
EXTENDS VaultAccounts, TLC

MCSalt == Draw
MCNonce == Draw
OneDir == [c \in Client |-> CHOOSE d \in Dir : TRUE]
OwnDir == CHOOSE f \in [Client -> Dir] : \A c1, c2 \in Client : f[c1] = f[c2] => c1 = c2
Symmetry == Permutations(Thread)
=============================================================================

----------------------------- MODULE MCOpusVault -----------------------------
(* A small instance of OpusVault with a collision-free digest.             *)
EXTENDS OpusVault, TLC

MCDigest == [c \in Contents |-> c[0]]

Symmetry == Permutations(Threads) \cup Permutations(Uploads)
=============================================================================

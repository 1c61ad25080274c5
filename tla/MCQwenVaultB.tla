----------------------------- MODULE MCQwenVaultB -----------------------------
(* A small instance of QwenVaultB with a collision-free digest.            *)
EXTENDS QwenVaultB, TLC

MCDigest == [c \in Contents |-> c[0]]

Symmetry == Permutations(Threads) \cup Permutations(Uploads)
=============================================================================

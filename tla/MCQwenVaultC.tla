----------------------------- MODULE MCQwenVaultC -----------------------------
(* A small instance of QwenVaultC with a collision-free digest.            *)
EXTENDS QwenVaultC, TLC

MCDigest == [c \in Contents |-> c[0]]

Symmetry == Permutations(Threads) \cup Permutations(Uploads)
=============================================================================

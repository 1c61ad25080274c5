---------------------------- MODULE MCQwenVaultA ----------------------------
(* A small instance of QwenVaultA with a collision-free digest.            *)
EXTENDS QwenVaultA, TLC

MCDigest == [c \in Contents |-> c[0]]

=============================================================================

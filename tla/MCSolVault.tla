----------------------------- MODULE MCSolVault -----------------------------
(* Small instances of SolVault: one or two chunks per upload, two contents *)
(* of a chunk, and a collision-free digest of them.                        *)
EXTENDS SolVault, TLC

MCDigest == [c \in [Chunks -> Data] |-> c[0] + (IF 1 \in Chunks THEN 2 * c[1] ELSE 0)]

Symmetry == Permutations(Threads) \cup Permutations(Uploads)
=============================================================================

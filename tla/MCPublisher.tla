----------------------------- MODULE MCPublisher -----------------------------
(* Two messages, two processes that run the daemon, and a message may fail *)
(* at its second attempt.                                                  *)
EXTENDS Publisher, TLC

Symmetry == Permutations(Daemons)
=============================================================================

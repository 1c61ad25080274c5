------------------------------ MODULE MCLedger1 ------------------------------
(* A small instance of Ledger1: one account of 2 credits that two holds of *)
(* 2 race for, replays with the same and with other parameters, a second   *)
(* account that may not exist, both ends of each hold, and requests that   *)
(* are refused for their amounts.                                          *)
EXTENDS Ledger1, TLC

CONSTANTS a1, a2, k1, r1, r2

MCAmounts == -1..2

MCRequests ==
  {Request("account", a1, 2, None, None),
   Request("topup", a1, 1, None, k1), Request("topup", a1, 2, None, k1),
   Request("hold", a1, 2, r1, None), Request("hold", a2, 1, r1, None),
   Request("hold", a1, 2, r2, None),
   Request("charge", None, None, r1, None), Request("release", None, None, r1, None),
   Request("charge", None, None, r2, None),
   Request("topup", a1, -1, None, k1), Request("hold", a1, 0, r1, None)}

Symmetry == Permutations(Threads)
=============================================================================

------------------------------ MODULE MCLedger2 ------------------------------
(* A small instance of Ledger2: an account opened without credits, a       *)
(* top-up that is repeated, two holds that race for the one credit, both   *)
(* ends of the first, and a top-up and a hold of a negative amount.        *)
EXTENDS Ledger2

CONSTANTS a1, k1, r1, r2

MCAmounts == -1..1

MCRequests ==
  {Request("account", a1, 0, None, None),
   Request("topup", a1, 1, None, k1), Request("topup", a1, -1, None, k1),
   Request("hold", a1, 1, r1, None),
   Request("hold", a1, 1, r2, None), Request("hold", a1, -1, r2, None),
   Request("charge", None, None, r1, None), Request("release", None, None, r1, None)}
=============================================================================

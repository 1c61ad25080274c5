------------------------------ MODULE LedgerLog -----------------------------
(***************************************************************************)
(* The entries GET /ledger lists, what a list of them says, and replaying  *)
(* it entry by entry as mini-ledger/spec.md has it.  seq is the position.  *)
(***************************************************************************)
EXTENDS Integers, Sequences

CONSTANTS
  Accounts,  \* account ids
  Keys,      \* idempotency keys of top-ups
  Refs,      \* references of holds
  Amounts,   \* amounts: of either sign, a server may refuse some
  None       \* no value: NULL, no row

ASSUME AmountsAssumption == Amounts \subseteq Int
ASSUME NoneAssumption    == None \notin Accounts \cup Keys \cup Refs

Entry(kind, a, n, r, k) == [kind |-> kind, account |-> a, amount |-> n, ref |-> r, key |-> k]

Kinds   == {"account_open", "topup", "hold", "charge", "release"}
Entries == [kind : Kinds, account : Accounts, amount : Amounts,
            ref : Refs \cup {None}, key : Keys \cup {None}]

Opened(l, a)        == \E i \in DOMAIN l : l[i].kind = "account_open" /\ l[i].account = a
ToppedUp(l, k)      == \E i \in DOMAIN l : l[i].kind = "topup" /\ l[i].key = k
HoldOf(l, r, i)     == i \in DOMAIN l /\ l[i].kind = "hold" /\ l[i].ref = r
Held(l, r)          == \E i \in DOMAIN l : HoldOf(l, r, i)
HeldFor(l, r, a, n) ==
  \E i \in DOMAIN l : HoldOf(l, r, i) /\ l[i].account = a /\ l[i].amount = n
EndedBy(l, r, kind) == \E i \in DOMAIN l : l[i].kind = kind /\ l[i].ref = r

(* The log l has what a 200 to request r stands for, and an answer of c to *)
(* r is one l bears out.                                                   *)
Recorded(l, r) ==
  /\ r.op = "account" => Opened(l, r.account)
  /\ r.op = "topup"   => ToppedUp(l, r.key)
  /\ r.op = "hold"    => HeldFor(l, r.ref, r.account, r.amount)
  /\ r.op \in {"charge", "release"} => EndedBy(l, r.ref, r.op)

Other(op) == IF op = "charge" THEN "release" ELSE "charge"

Honest(l, r, c) ==
  /\ c = 200 => Recorded(l, r)
  /\ c = 409 /\ r.op \in {"charge", "release"} => EndedBy(l, r.ref, Other(r.op))

(* What an entry adds to its account's balance and to what is available.   *)
BalanceDelta(e)   == CASE e.kind \in {"account_open", "topup"} -> e.amount
                       [] e.kind = "charge" -> -e.amount
                       [] OTHER -> 0
AvailableDelta(e) == CASE e.kind \in {"account_open", "topup", "release"} -> e.amount
                       [] e.kind = "hold" -> -e.amount
                       [] OTHER -> 0

(* The sum of account a's deltas over each prefix of l.                    *)
Replay(l, a, Delta(_)) ==
  LET sum[n \in 0..Len(l)] ==
        IF n = 0 THEN 0
        ELSE sum[n - 1] + (IF l[n].account = a THEN Delta(l[n]) ELSE 0)
  IN sum
=============================================================================

--------------------------- MODULE LedgerContract ---------------------------
(***************************************************************************)
(* What mini-ledger/spec.md promises, with no threads, transactions or     *)
(* tables: a log that only grows, by entries the log so far allows, and    *)
(* for each account what is available.  Ledger1 and Ledger2 are shown to   *)
(* implement it.                                                           *)
(***************************************************************************)
EXTENDS LedgerLog

VARIABLES
  log,       \* the ledger entries, in order
  available  \* balance minus open holds, of every account

vars == <<log, available>>

Init == log = <<>> /\ available = [a \in Accounts |-> 0]

Open(a, n) ==
  /\ ~Opened(log, a)
  /\ log' = Append(log, Entry("account_open", a, n, None, None))
  /\ available' = [available EXCEPT ![a] = n]

TopUp(a, n, k) ==
  /\ Opened(log, a) /\ ~ToppedUp(log, k)
  /\ log' = Append(log, Entry("topup", a, n, None, k))
  /\ available' = [available EXCEPT ![a] = @ + n]

Hold(a, n, r) ==
  /\ Opened(log, a) /\ ~Held(log, r)
  /\ n <= available[a]
  /\ log' = Append(log, Entry("hold", a, n, r, None))
  /\ available' = [available EXCEPT ![a] = @ - n]

(* A hold that is still open is charged or released, with its account and  *)
(* its amount.                                                             *)
End(r, i, kind) ==
  /\ HoldOf(log, r, i)
  /\ ~EndedBy(log, r, "charge") /\ ~EndedBy(log, r, "release")
  /\ log' = Append(log, Entry(kind, log[i].account, log[i].amount, r, None))

Charge(r, i) == End(r, i, "charge") /\ UNCHANGED available

Release(r, i) ==
  /\ End(r, i, "release")
  /\ available' = [available EXCEPT ![log[i].account] = @ + log[i].amount]

Next ==
  \/ \E a \in Accounts, n \in Amounts :
       \/ Open(a, n)
       \/ \E k \in Keys : TopUp(a, n, k)
       \/ \E r \in Refs : Hold(a, n, r)
  \/ \E r \in Refs, i \in DOMAIN log : Charge(r, i) \/ Release(r, i)

Spec == Init /\ [][Next]_vars

-----------------------------------------------------------------------------
(* What follows from the contract.  Proved of Ledger1 and of Ledger2,      *)
(* NeverNegative of Ledger1 alone: only it refuses negative amounts.       *)

(* Each reference has at most one hold and at most one charge or release,  *)
(* which follows its hold and repeats its account and amount.              *)
OneTerminal ==
  \A i, j \in DOMAIN log :
    /\ log[i].kind = "hold" /\ log[j].kind = "hold" /\ log[i].ref = log[j].ref => i = j
    /\ log[i].kind \in {"charge", "release"} =>
         /\ log[j].kind \in {"charge", "release"} /\ log[i].ref = log[j].ref => i = j
         /\ \E h \in DOMAIN log : /\ h < i /\ HoldOf(log, log[i].ref, h)
                                  /\ log[h].account = log[i].account
                                  /\ log[h].amount = log[i].amount

(* No account is opened twice and no key is applied twice.                 *)
AppliedOnce ==
  \A i, j \in DOMAIN log : i # j /\ log[i].kind = log[j].kind =>
    /\ log[i].kind = "account_open" => log[i].account # log[j].account
    /\ log[i].kind = "topup" => log[i].key # log[j].key

(* Only an amount below zero takes what is available below zero: racing    *)
(* holds never take more than there is, and a hold ends only once.         *)
NeverOverdraws ==
  \A a \in Accounts :
    available[a] < 0 => \E i \in DOMAIN log : log[i].account = a /\ log[i].amount < 0

(* spec.md, "no account's available ever dips below zero".                 *)
NeverNegative == \A a \in Accounts : available[a] >= 0

(* Entries are never changed or removed.                                   *)
AppendOnly == [][\A i \in DOMAIN log : i \in DOMAIN log' /\ log'[i] = log[i]]_vars
=============================================================================

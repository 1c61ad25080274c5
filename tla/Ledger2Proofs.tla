---------------------------- MODULE Ledger2Proofs ----------------------------
(***************************************************************************)
(* Ledger2 implements LedgerContract, answers truthfully and keeps its     *)
(* tables what a replay of the log computes, for every number of accounts, *)
(* requests, threads, retries and crashes; and what follows for its log.   *)
(***************************************************************************)
EXTENDS Ledger2, WellFoundedInduction, TLAPS

-----------------------------------------------------------------------------
(* What one more entry changes in what a log says, and the steps of        *)
(* LedgerContract as relations between two logs and two functions of what  *)
(* is available.                                                           *)

(* From log l and available b to log m and available c.                    *)
Opens(l, b, m, c, a, n) ==
  /\ ~Opened(l, a)
  /\ m = Append(l, Entry("account_open", a, n, None, None))
  /\ c = [b EXCEPT ![a] = n]
TopsUp(l, b, m, c, a, n, k) ==
  /\ Opened(l, a) /\ ~ToppedUp(l, k)
  /\ m = Append(l, Entry("topup", a, n, None, k))
  /\ c = [b EXCEPT ![a] = @ + n]
Holds(l, b, m, c, a, n, r) ==
  /\ Opened(l, a) /\ ~Held(l, r)
  /\ n <= b[a]
  /\ m = Append(l, Entry("hold", a, n, r, None))
  /\ c = [b EXCEPT ![a] = @ - n]
Ends(l, b, m, c, r, i, kind) ==
  /\ HoldOf(l, r, i)
  /\ ~EndedBy(l, r, "charge") /\ ~EndedBy(l, r, "release")
  /\ m = Append(l, Entry(kind, l[i].account, l[i].amount, r, None))
  /\ kind = "charge" => c = b
  /\ kind = "release" => c = [b EXCEPT ![l[i].account] = @ + l[i].amount]

Advances(l, b, m, c) ==
  \/ m = l /\ c = b
  \/ \E a \in Accounts, n \in Amounts :
       \/ Opens(l, b, m, c, a, n)
       \/ \E k \in Keys : TopsUp(l, b, m, c, a, n, k)
       \/ \E r \in Refs : Holds(l, b, m, c, a, n, r)
  \/ \E r \in Refs, i \in DOMAIN l, kind \in {"charge", "release"} :
       Ends(l, b, m, c, r, i, kind)

-----------------------------------------------------------------------------

(* A log with one more entry.                                              *)
LEMMA Grown ==
  ASSUME NEW l \in Seq(Entries), NEW e \in Entries
  PROVE  /\ Append(l, e) \in Seq(Entries)
         /\ DOMAIN Append(l, e) = DOMAIN l \cup {Len(l) + 1}
         /\ Len(l) + 1 \notin DOMAIN l
         /\ Append(l, e)[Len(l) + 1] = e
         /\ \A i \in DOMAIN l : Append(l, e)[i] = l[i]
OBVIOUS

(* Honest answers stay honest when the log grows.                          *)
LEMMA StaysHonest ==
  ASSUME NEW l \in Seq(Entries), NEW e \in Entries, NEW r, NEW c, Honest(l, r, c)
  PROVE  Honest(Append(l, e), r, c)
<1> SUFFICES ASSUME NEW m, m = Append(l, e) PROVE Honest(m, r, c)
  OBVIOUS
<1>1. \A i \in DOMAIN l : i \in DOMAIN m /\ m[i] = l[i]
  BY Grown
<1>2. Recorded(l, r) => Recorded(m, r)
  BY <1>1 DEF Recorded, Opened, ToppedUp, HeldFor, HoldOf, EndedBy
<1>3. \A kind : EndedBy(l, r.ref, kind) => EndedBy(m, r.ref, kind)
  BY <1>1 DEF EndedBy
<1> QED BY <1>2, <1>3 DEF Honest

(* An advance appends one entry or leaves the log alone.                   *)
LEMMA OneMore ==
  ASSUME NEW l \in Seq(Entries), NEW b, NEW m, NEW c, Advances(l, b, m, c)
  PROVE  m = l \/ \E e \in Entries : m = Append(l, e)
<1>1. ASSUME NEW a \in Accounts, NEW n \in Amounts, NEW r \in Refs \cup {None},
             NEW k \in Keys \cup {None}, NEW kind \in Kinds
      PROVE  Entry(kind, a, n, r, k) \in Entries
  BY DEF Entry, Entries
<1>2. ASSUME NEW i \in DOMAIN l
      PROVE  l[i].account \in Accounts /\ l[i].amount \in Amounts
  <2>1. l[i] \in Entries
    OBVIOUS
  <2> QED BY <2>1 DEF Entries
<1> QED BY <1>1, <1>2 DEF Advances, Opens, TopsUp, Holds, Ends, Kinds

-----------------------------------------------------------------------------
(* Replaying a log.  Replay is defined by recursion on the position; what  *)
(* it computes is shown by induction, in the form that a set of numbers    *)
(* which is not empty has a least one.                                     *)

LEMMA Least ==
  ASSUME NEW S \in SUBSET Nat, S # {}
  PROVE  \E m \in S : \A n \in S : m <= n
<1> DEFINE R == OpToRel(<, Nat)
<1>1. IsWellFoundedOn(R, Nat)
  BY NatLessThanWellFounded
<1>2. \A m, n \in Nat : n < m => <<n, m>> \in R
  BY DEF OpToRel
<1> HIDE DEF R
<1>3. PICK m \in S : \A n \in S : <<n, m>> \notin R
  BY ONLY <1>1, S \subseteq Nat, S # {}, WFMin
<1>4. m \in Nat /\ \A n \in S : n \in Nat /\ ~(n < m)
  BY <1>2, <1>3
<1> QED BY <1>4

(* What holds of 0, and of each number after one it holds of, up to b,     *)
(* holds of them all.                                                      *)
LEMMA UpTo ==
  ASSUME NEW b \in Nat, NEW S, 0 \in S, \A n \in 0..b : n \in S /\ n < b => n + 1 \in S
  PROVE  0..b \subseteq S
<1> SUFFICES ASSUME (0..b) \ S # {} PROVE FALSE
  OBVIOUS
<1>1. PICK m \in (0..b) \ S : \A n \in (0..b) \ S : m <= n
  <2>1. (0..b) \ S \in SUBSET Nat
    OBVIOUS
  <2> QED BY ONLY <2>1, (0..b) \ S # {}, Least
<1>2. m # 0 /\ m - 1 \in 0..b
  BY <1>1
<1>3. m - 1 \in S
  BY <1>1, <1>2
<1> QED BY <1>1, <1>2, <1>3

(* f[n] is the sum of the first n values of d.                             *)
Adds(f, d, k) == f = [n \in 0..k |-> IF n = 0 THEN 0 ELSE f[n - 1] + d[n]]

LEMMA AddsExists ==
  ASSUME NEW k \in Nat, NEW d
  PROVE  \E f : Adds(f, d, k)
<1> DEFINE S == {n \in Nat : \E f : Adds(f, d, n)}
<1>1. 0 \in S
  <2>1. Adds([n \in 0..0 |-> 0], d, 0)
    BY DEF Adds
  <2> QED BY <2>1
<1>2. ASSUME NEW n \in 0..k, n \in S, n < k PROVE n + 1 \in S
  <2>1. PICK f : Adds(f, d, n)
    BY <1>2
  <2> DEFINE g == [i \in 0..(n + 1) |-> IF i <= n THEN f[i] ELSE f[n] + d[i]]
  <2>2. f = [i \in 0..n |-> IF i = 0 THEN 0 ELSE f[i - 1] + d[i]]
    BY <2>1 DEF Adds
  <2>3. ASSUME NEW i \in 0..(n + 1)
        PROVE  g[i] = IF i = 0 THEN 0 ELSE g[i - 1] + d[i]
    <3>1. CASE i = 0
      <4>1. f[0] = 0
        BY <2>2
      <4> QED BY <3>1, <4>1
    <3>2. CASE i \in 1..n
      <4>1. i \in 0..n /\ i # 0 /\ i - 1 \in 0..n /\ i - 1 \in 0..(n + 1) /\ i - 1 <= n
        BY <3>2
      <4>2. f[i] = f[i - 1] + d[i]
        BY <2>2, <4>1
      <4>3. g[i] = f[i] /\ g[i - 1] = f[i - 1]
        BY <3>2, <4>1
      <4> QED BY <4>1, <4>2, <4>3
    <3>3. CASE i = n + 1
      <4>1. i - 1 = n /\ i # 0 /\ ~(i <= n) /\ n \in 0..(n + 1) /\ n <= n
        BY <3>3
      <4>2. g[i] = f[n] + d[i] /\ g[n] = f[n]
        BY <4>1
      <4> QED BY <4>1, <4>2
    <3> QED BY <3>1, <3>2, <3>3
  <2>4. g = [i \in 0..(n + 1) |-> g[i]]
    OBVIOUS
  <2> HIDE DEF g
  <2>5. g = [i \in 0..(n + 1) |-> IF i = 0 THEN 0 ELSE g[i - 1] + d[i]]
    BY ONLY <2>3, <2>4
  <2>6. Adds(g, d, n + 1)
    BY <2>5 DEF Adds
  <2> QED BY <2>6
<1> HIDE DEF S
<1>3. 0..k \subseteq S
  BY <1>1, <1>2, UpTo
<1> QED BY <1>3 DEF S

(* Sums of values that agree up to k agree up to k.                        *)
LEMMA AddsAgree ==
  ASSUME NEW k \in Nat, NEW j \in Nat, k <= j, NEW f, NEW g, NEW c, NEW d,
         Adds(f, c, k), Adds(g, d, j), \A n \in 1..k : c[n] = d[n]
  PROVE  \A n \in 0..k : g[n] = f[n]
<1> DEFINE S == {n \in 0..k : g[n] = f[n]}
<1>1. /\ f = [n \in 0..k |-> IF n = 0 THEN 0 ELSE f[n - 1] + c[n]]
      /\ g = [n \in 0..j |-> IF n = 0 THEN 0 ELSE g[n - 1] + d[n]]
  BY DEF Adds
<1>2. 0 \in S
  BY <1>1
<1>3. ASSUME NEW n \in 0..k, n \in S, n < k PROVE n + 1 \in S
  <2>1. n + 1 \in 0..k /\ n + 1 \in 0..j /\ n + 1 \in 1..k /\ (n + 1) - 1 = n /\ n + 1 # 0
    BY <1>3
  <2>2. f[n + 1] = f[n] + c[n + 1] /\ g[n + 1] = g[n] + d[n + 1]
    BY <1>1, <2>1
  <2>3. c[n + 1] = d[n + 1] /\ g[n] = f[n]
    BY <1>3, <2>1
  <2> QED BY <2>1, <2>2, <2>3
<1> HIDE DEF S
<1>4. 0..k \subseteq S
  BY <1>2, <1>3, UpTo
<1> QED BY <1>4 DEF S

(* What an entry adds for account a, and what each entry of a log does.    *)
AvailableShare(e, a)  == IF e.account = a THEN AvailableDelta(e) ELSE 0
BalanceShare(e, a)    == IF e.account = a THEN BalanceDelta(e) ELSE 0
AvailableShares(l, a) == [n \in DOMAIN l |-> AvailableShare(l[n], a)]
BalanceShares(l, a)   == [n \in DOMAIN l |-> BalanceShare(l[n], a)]

ReplayedAvailable(l, a) == Replay(l, a, AvailableDelta)
ReplayedBalance(l, a)   == Replay(l, a, BalanceDelta)

(* Replay adds up the shares.                                              *)
LEMMA ReplayAvailable ==
  ASSUME NEW l \in Seq(Entries), NEW a
  PROVE  Adds(ReplayedAvailable(l, a), AvailableShares(l, a), Len(l))
<1> DEFINE P(f) == f = [n \in 0..Len(l) |->
                          IF n = 0 THEN 0
                          ELSE f[n - 1] + (IF l[n].account = a THEN AvailableDelta(l[n]) ELSE 0)]
<1>1. ASSUME NEW f PROVE P(f) <=> Adds(f, AvailableShares(l, a), Len(l))
  <2>1. \A n \in 0..Len(l) : n # 0 => n \in DOMAIN l
    OBVIOUS
  <2> QED BY <2>1 DEF Adds, AvailableShares, AvailableShare
<1>2. ReplayedAvailable(l, a) = CHOOSE f : P(f)
  BY Zenon DEF ReplayedAvailable, Replay
<1>3. Len(l) \in Nat
  OBVIOUS
<1> HIDE DEF P
<1>4. \E f : P(f)
  BY <1>1, <1>3, AddsExists
<1>5. P(CHOOSE f : P(f))
  BY Zenon, <1>4
<1> QED BY <1>1, <1>2, <1>5

LEMMA ReplayBalance ==
  ASSUME NEW l \in Seq(Entries), NEW a
  PROVE  Adds(ReplayedBalance(l, a), BalanceShares(l, a), Len(l))
<1> DEFINE P(f) == f = [n \in 0..Len(l) |->
                          IF n = 0 THEN 0
                          ELSE f[n - 1] + (IF l[n].account = a THEN BalanceDelta(l[n]) ELSE 0)]
<1>1. ASSUME NEW f PROVE P(f) <=> Adds(f, BalanceShares(l, a), Len(l))
  <2>1. \A n \in 0..Len(l) : n # 0 => n \in DOMAIN l
    OBVIOUS
  <2> QED BY <2>1 DEF Adds, BalanceShares, BalanceShare
<1>2. ReplayedBalance(l, a) = CHOOSE f : P(f)
  BY Zenon DEF ReplayedBalance, Replay
<1>3. Len(l) \in Nat
  OBVIOUS
<1> HIDE DEF P
<1>4. \E f : P(f)
  BY <1>1, <1>3, AddsExists
<1>5. P(CHOOSE f : P(f))
  BY Zenon, <1>4
<1> QED BY <1>1, <1>2, <1>5

(* The sums over a log with one more entry: those of the log, and one more.*)
LEMMA AddsOneMore ==
  ASSUME NEW k \in Nat, NEW f, NEW g, NEW c, NEW d, Adds(f, c, k), Adds(g, d, k + 1),
         \A n \in 1..k : c[n] = d[n]
  PROVE  /\ \A n \in 0..k : g[n] = f[n]
         /\ g[k + 1] = f[k] + d[k + 1]
<1>1. \A n \in 0..k : g[n] = f[n]
  <2>1. k + 1 \in Nat /\ k <= k + 1
    OBVIOUS
  <2> QED BY <2>1, AddsAgree
<1>2. g[k + 1] = g[k] + d[k + 1]
  <2>1. k + 1 \in 0..(k + 1) /\ k + 1 # 0 /\ (k + 1) - 1 = k
    OBVIOUS
  <2> QED BY <2>1 DEF Adds
<1> QED BY <1>1, <1>2

LEMMA ReplayKept ==
  ASSUME NEW l \in Seq(Entries), NEW e \in Entries, NEW a
  PROVE  \A n \in 0..Len(l) : ReplayedAvailable(Append(l, e), a)[n] = ReplayedAvailable(l, a)[n]
<1> DEFINE m == Append(l, e)
<1>1. /\ Len(l) \in Nat /\ m \in Seq(Entries) /\ Len(m) = Len(l) + 1
      /\ \A n \in 1..Len(l) : n \in DOMAIN l /\ n \in DOMAIN m /\ m[n] = l[n]
  OBVIOUS
<1> HIDE DEF m
<1>2. \A n \in 1..Len(l) : AvailableShares(l, a)[n] = AvailableShares(m, a)[n]
  BY <1>1 DEF AvailableShares
<1>3. /\ Adds(ReplayedAvailable(l, a), AvailableShares(l, a), Len(l))
      /\ Adds(ReplayedAvailable(m, a), AvailableShares(m, a), Len(l) + 1)
  BY <1>1, ReplayAvailable
<1>4. \A n \in 0..Len(l) : ReplayedAvailable(m, a)[n] = ReplayedAvailable(l, a)[n]
  BY ONLY <1>1, <1>2, <1>3, AddsOneMore
<1> QED BY <1>4 DEF m

LEMMA ReplayOneMore ==
  ASSUME NEW l \in Seq(Entries), NEW e \in Entries, NEW a, NEW m, m = Append(l, e)
  PROVE  /\ ReplayedAvailable(m, a)[Len(l) + 1] =
              ReplayedAvailable(l, a)[Len(l)] + AvailableShare(e, a)
         /\ ReplayedBalance(m, a)[Len(l) + 1] =
              ReplayedBalance(l, a)[Len(l)] + BalanceShare(e, a)
<1>1. /\ Len(l) \in Nat /\ m \in Seq(Entries) /\ Len(m) = Len(l) + 1
      /\ m[Len(l) + 1] = e
      /\ \A n \in 1..Len(l) : n \in DOMAIN l /\ n \in DOMAIN m /\ m[n] = l[n]
      /\ Len(l) + 1 \in DOMAIN m
  OBVIOUS
<1>2. /\ \A n \in 1..Len(l) : AvailableShares(l, a)[n] = AvailableShares(m, a)[n]
      /\ AvailableShares(m, a)[Len(l) + 1] = AvailableShare(e, a)
  BY <1>1 DEF AvailableShares
<1>3. /\ \A n \in 1..Len(l) : BalanceShares(l, a)[n] = BalanceShares(m, a)[n]
      /\ BalanceShares(m, a)[Len(l) + 1] = BalanceShare(e, a)
  BY <1>1 DEF BalanceShares
<1>4. /\ Adds(ReplayedAvailable(l, a), AvailableShares(l, a), Len(l))
      /\ Adds(ReplayedAvailable(m, a), AvailableShares(m, a), Len(l) + 1)
      /\ Adds(ReplayedBalance(l, a), BalanceShares(l, a), Len(l))
      /\ Adds(ReplayedBalance(m, a), BalanceShares(m, a), Len(l) + 1)
  BY <1>1, ReplayAvailable, ReplayBalance
<1>5. ReplayedAvailable(m, a)[Len(l) + 1] = ReplayedAvailable(l, a)[Len(l)] + AvailableShare(e, a)
  BY ONLY <1>1, <1>2, <1>4, AddsOneMore
<1>6. ReplayedBalance(m, a)[Len(l) + 1] = ReplayedBalance(l, a)[Len(l)] + BalanceShare(e, a)
  BY ONLY <1>1, <1>3, <1>4, AddsOneMore
<1> QED BY <1>5, <1>6

LEMMA ReplayNothing ==
  ASSUME NEW a
  PROVE  ReplayedAvailable(<<>>, a)[0] = 0 /\ ReplayedBalance(<<>>, a)[0] = 0
<1>1. <<>> \in Seq(Entries) /\ Len(<<>>) = 0
  OBVIOUS
<1>2. \A f, d : Adds(f, d, 0) => f[0] = 0
  BY DEF Adds
<1> QED BY <1>1, <1>2, ReplayAvailable, ReplayBalance

-----------------------------------------------------------------------------
(* What a step of the contract appends.                                    *)

(* What an entry that is next after log l has to respect.                  *)
Lawful(l, e) ==
  /\ e.kind = "account_open" => ~Opened(l, e.account)
  /\ e.kind = "topup" => ~ToppedUp(l, e.key)
  /\ e.kind = "hold" => ~Held(l, e.ref)
  /\ e.kind \in {"charge", "release"} =>
       /\ ~EndedBy(l, e.ref, "charge") /\ ~EndedBy(l, e.ref, "release")
       /\ \E h \in DOMAIN l : /\ HoldOf(l, e.ref, h)
                             /\ l[h].account = e.account
                             /\ l[h].amount = e.amount

(* What an advance appends, and what it makes of what is available.        *)
LEMMA AdvanceBy ==
  ASSUME NEW l \in Seq(Entries), NEW b \in [Accounts -> Int], NEW m, NEW c, Advances(l, b, m, c),
         \A a \in Accounts : ~Opened(l, a) => b[a] = 0
  PROVE  \/ m = l /\ c = b
         \/ \E e \in Entries :
              /\ m = Append(l, e) /\ Lawful(l, e)
              /\ \A a \in Accounts : c[a] = b[a] + AvailableShare(e, a)
              /\ e.kind = "hold" => c[e.account] >= 0
<1> DEFINE By(e) == /\ e \in Entries /\ m = Append(l, e) /\ Lawful(l, e)
                    /\ \A q \in Accounts : c[q] = b[q] + AvailableShare(e, q)
                    /\ e.kind = "hold" => c[e.account] >= 0
<1>0. \A n \in Amounts : n \in Int
  BY AmountsAssumption
<1>1. ASSUME NEW a \in Accounts, NEW n \in Amounts, Opens(l, b, m, c, a, n)
      PROVE  \E e : By(e)
  <2> DEFINE e == Entry("account_open", a, n, None, None)
  <2>1. /\ e \in Entries /\ m = Append(l, e) /\ Lawful(l, e)
        /\ e.kind = "account_open" /\ e.account = a /\ e.amount = n
    BY <1>1 DEF Opens, Lawful, Entry, Entries, Kinds
  <2> HIDE DEF e
  <2>2. ASSUME NEW q \in Accounts PROVE c[q] = b[q] + AvailableShare(e, q)
    BY <1>0, <1>1, <2>1 DEF Opens, AvailableShare, AvailableDelta
  <2> QED BY <2>1, <2>2
<1>2. ASSUME NEW a \in Accounts, NEW n \in Amounts, NEW k \in Keys, TopsUp(l, b, m, c, a, n, k)
      PROVE  \E e : By(e)
  <2> DEFINE e == Entry("topup", a, n, None, k)
  <2>1. /\ e \in Entries /\ m = Append(l, e) /\ Lawful(l, e)
        /\ e.kind = "topup" /\ e.account = a /\ e.amount = n
    BY <1>2 DEF TopsUp, Lawful, Entry, Entries, Kinds
  <2> HIDE DEF e
  <2>2. ASSUME NEW q \in Accounts PROVE c[q] = b[q] + AvailableShare(e, q)
    BY <1>0, <1>2, <2>1 DEF TopsUp, AvailableShare, AvailableDelta
  <2> QED BY <2>1, <2>2
<1>3. ASSUME NEW a \in Accounts, NEW n \in Amounts, NEW r \in Refs, Holds(l, b, m, c, a, n, r)
      PROVE  \E e : By(e)
  <2> DEFINE e == Entry("hold", a, n, r, None)
  <2>1. /\ e \in Entries /\ m = Append(l, e) /\ Lawful(l, e)
        /\ e.kind = "hold" /\ e.account = a /\ e.amount = n
    BY <1>3 DEF Holds, Lawful, Entry, Entries, Kinds
  <2> HIDE DEF e
  <2>2. ASSUME NEW q \in Accounts PROVE c[q] = b[q] + AvailableShare(e, q)
    BY <1>0, <1>3, <2>1 DEF Holds, AvailableShare, AvailableDelta
  <2>3. c[a] >= 0
    BY <1>0, <1>3 DEF Holds
  <2> QED BY <2>1, <2>2, <2>3
<1>4. ASSUME NEW r \in Refs, NEW i \in DOMAIN l, NEW kind \in {"charge", "release"},
             Ends(l, b, m, c, r, i, kind)
      PROVE  \E e : By(e)
  <2> DEFINE e == Entry(kind, l[i].account, l[i].amount, r, None)
  <2>0. l[i] \in Entries
    OBVIOUS
  <2>1. l[i].account \in Accounts /\ l[i].amount \in Amounts
    BY <2>0 DEF Entries
  <2>2. /\ e \in Entries /\ m = Append(l, e)
        /\ e.kind = kind /\ e.account = l[i].account /\ e.amount = l[i].amount /\ e.ref = r
    BY <1>4, <2>1 DEF Ends, Entry, Entries, Kinds
  <2> HIDE DEF e
  <2>3. Lawful(l, e)
    BY <1>4, <2>2 DEF Ends, Lawful
  <2>4. ASSUME NEW q \in Accounts PROVE c[q] = b[q] + AvailableShare(e, q)
    BY <1>0, <1>4, <2>1, <2>2 DEF Ends, AvailableShare, AvailableDelta
  <2> QED BY <2>2, <2>3, <2>4
<1> QED BY <1>1, <1>2, <1>3, <1>4 DEF Advances

-----------------------------------------------------------------------------
(* The rows.                                                               *)

(* Charge and release as the two kinds of one operation: the status they   *)
(* leave a hold in, and what they make of its account's row.               *)
Ended(kind) == IF kind = "charge" THEN "charged" ELSE "released"

Settled(row, n, kind) == IF kind = "charge" THEN [row EXCEPT !.balance = @ - n]
                         ELSE [row EXCEPT !.available = @ + n]

Terminal(t, kind) ==
  LET r == req[t].ref  h == tx.hold[r] IN
  /\ Doing(t, kind)
  /\ \/ h = None /\ Return(t, 404, tx)
     \/ h # None /\ h.status = Ended(kind) /\ Return(t, 200, tx)
     \/ h # None /\ h.status \notin {Ended(kind), "open"} /\ Return(t, 409, tx)
     \/ /\ h # None /\ h.status = "open"
        /\ Return(t, 200, [Appended(tx, kind, h.account, h.amount, r, None) EXCEPT
                             !.hold[r].status = Ended(kind),
                             !.account[h.account] = Settled(@, h.amount, kind)])

(* The row of reference r says what the log says of it.                    *)
HoldMatches(d, r) ==
  LET h == d.hold[r] IN
  /\ h = None => /\ ~Held(d.log, r)
                 /\ ~EndedBy(d.log, r, "charge") /\ ~EndedBy(d.log, r, "release")
  /\ h # None => /\ d.account[h.account] # None
                 /\ HeldFor(d.log, r, h.account, h.amount)
                 /\ EndedBy(d.log, r, "charge") <=> h.status = "charged"
                 /\ EndedBy(d.log, r, "release") <=> h.status = "released"

(* The tables say what the log says.                                       *)
Consistent(d) ==
  /\ \A a \in Accounts : d.account[a] # None <=> Opened(d.log, a)
  /\ \A k \in Keys : k \in d.topup <=> ToppedUp(d.log, k)
  /\ \A r \in Refs : HoldMatches(d, r)

(* The balances of v are those of d and what one more entry adds to them.  *)
Balance(d) == [a \in Accounts |-> IF d.account[a] = None THEN 0 ELSE d.account[a].balance]

Booked(d, v) ==
  \/ v.log = d.log /\ Balance(v) = Balance(d)
  \/ \E e \in Entries :
       /\ v.log = Append(d.log, e)
       /\ \A a \in Accounts : Balance(v)[a] = Balance(d)[a] + BalanceShare(e, a)

Served(d, v, r, c) ==
  /\ v \in Databases /\ Consistent(v)
  /\ Advances(d.log, Available(d), v.log, Available(v)) /\ Booked(d, v)
  /\ Honest(v.log, r, c)

(* A hold leaves account a with nothing overdrawn, and only an entry with  *)
(* a negative amount takes it below zero: of sums f of the prefixes of l.  *)
Covers(l, a, f) ==
  /\ \A n \in 0..Len(l) : f[n] \in Int
  /\ \A n \in 1..Len(l) : l[n].kind = "hold" /\ l[n].account = a => f[n] >= 0
  /\ \A n \in 0..Len(l) :
       f[n] < 0 => \E i \in 1..n : l[i].account = a /\ l[i].amount < 0

(* Replaying the log gives what the rows have, with 0 for an account there *)
(* is not, and overdraws no account but by a negative amount.              *)
Reconciled(d) ==
  \A a \in Accounts :
    /\ Covers(d.log, a, ReplayedAvailable(d.log, a))
    /\ ReplayedAvailable(d.log, a)[Len(d.log)] = Available(d)[a]
    /\ ReplayedBalance(d.log, a)[Len(d.log)] = Balance(d)[a]

(* The inductive invariant: the committed tables and those the transaction *)
(* is about to commit agree with their logs, and lie one step apart.       *)
IInv ==
  /\ TypeOK
  /\ Consistent(db)
  /\ \A t \in Threads :
       /\ pc[t] = "idle" => tries[t] = 0
       /\ pc[t] = "begin" => tries[t] < MaxTries
       /\ pc[t] = "work" => tx = db
       /\ pc[t] = "commit" => Served(db, tx, req[t], code[t])
       /\ pc[t] = "answer" => Honest(db.log, req[t], code[t])

-----------------------------------------------------------------------------

(* What a request of each kind carries.                                    *)
LEMMA RequestFields ==
  ASSUME NEW r \in Requests
  PROVE  /\ r.op \in {"account", "topup", "hold"} => r.account \in Accounts /\ r.amount \in Amounts
         /\ r.op = "topup" => r.key \in Keys
         /\ r.op \in {"hold", "charge", "release"} => r.ref \in Refs
BY RequestsAssumption DEF AllRequests, Request

(* What holds when an operation starts its work.                           *)
LEMMA AtWork ==
  ASSUME IInv, NEW t \in Threads, pc[t] = "work"
  PROVE  tx = db /\ db \in Databases /\ Consistent(db) /\ req[t] \in Requests
BY DEF IInv, TypeOK, ServerTypeOK

(* A database is the record of its four tables.                            *)
LEMMA Tables ==
  ASSUME NEW d \in Databases
  PROVE  /\ d.account \in [Accounts -> AccountRow \cup {None}]
         /\ d.hold \in [Refs -> HoldRow \cup {None}]
         /\ d.topup \in SUBSET Keys
         /\ d.log \in Seq(Entries)
         /\ d = [account |-> d.account, hold |-> d.hold, topup |-> d.topup, log |-> d.log]
BY DEF Databases

(* A database with one more entry in its log.                              *)
LEMMA Written ==
  ASSUME NEW d \in Databases, NEW kind, NEW a, NEW n, NEW r, NEW k
  PROVE  Appended(d, kind, a, n, r, k) =
           [account |-> d.account, hold |-> d.hold, topup |-> d.topup,
            log |-> Append(d.log, Entry(kind, a, n, r, k))]
<1>1. d = [account |-> d.account, hold |-> d.hold, topup |-> d.topup, log |-> d.log]
  BY Tables
<1>2. ASSUME NEW A, NEW H, NEW T, NEW L,
             d = [account |-> A, hold |-> H, topup |-> T, log |-> L]
      PROVE  Appended(d, kind, a, n, r, k) =
               [account |-> A, hold |-> H, topup |-> T, log |-> Append(L, Entry(kind, a, n, r, k))]
  BY ONLY SMTT(30), <1>2 DEF Appended
<1> QED BY <1>1, <1>2

(* An operation that changes nothing.                                      *)
LEMMA NothingNew ==
  ASSUME NEW d \in Databases, Consistent(d), NEW r, NEW c, Honest(d.log, r, c)
  PROVE  Served(d, d, r, c)
BY DEF Served, Advances, Booked

(* Balances are numbers.                                                   *)
LEMMA Numbers ==
  ASSUME NEW d \in Databases
  PROVE  Available(d) \in [Accounts -> Int] /\ Balance(d) \in [Accounts -> Int]
<1>1. ASSUME NEW a \in Accounts, d.account[a] # None
      PROVE  d.account[a].balance \in Int /\ d.account[a].available \in Int
  BY <1>1, Tables DEF AccountRow
<1> QED BY <1>1 DEF Available, Balance

(* An entry that is booked on the account it names.                        *)
LEMMA BookedBy ==
  ASSUME NEW d \in Databases, NEW v, NEW e \in Entries, v.log = Append(d.log, e),
         \A b \in Accounts : b # e.account => v.account[b] = d.account[b],
         e.account \in Accounts => Balance(v)[e.account] = Balance(d)[e.account] + BalanceDelta(e)
  PROVE  Booked(d, v)
<1> SUFFICES ASSUME NEW b \in Accounts PROVE Balance(v)[b] = Balance(d)[b] + BalanceShare(e, b)
  BY DEF Booked
<1>1. CASE b = e.account
  BY <1>1 DEF BalanceShare
<1>2. CASE b # e.account
  <2>1. Balance(v)[b] = Balance(d)[b]
    BY <1>2 DEF Balance
  <2>2. Balance(d)[b] \in Int
    BY Numbers
  <2> QED BY <1>2, <2>1, <2>2 DEF BalanceShare
<1> QED BY <1>1, <1>2

(* A reference the new entry is not about.                                 *)
LEMMA StillMatches ==
  ASSUME NEW d \in Databases, NEW v \in Databases, NEW r \in Refs, HoldMatches(d, r),
         NEW e \in Entries, v.log = Append(d.log, e), v.hold[r] = d.hold[r],
         ~(e.kind \in {"hold", "charge", "release"} /\ e.ref = r),
         \A a \in Accounts : d.account[a] # None => v.account[a] # None
  PROVE  HoldMatches(v, r)
<1>1. /\ DOMAIN v.log = DOMAIN d.log \cup {Len(d.log) + 1} /\ v.log[Len(d.log) + 1] = e
      /\ \A i \in DOMAIN d.log : v.log[i] = d.log[i]
  BY Tables, Grown
<1>2. d.hold[r] # None => d.hold[r].account \in Accounts
  BY Tables DEF HoldRow
<1> QED BY <1>1, <1>2 DEF HoldMatches, HeldFor, HoldOf, Held, EndedBy

(* What each operation writes, when it writes.                             *)
LEMMA Opening ==
  ASSUME NEW d \in Databases, Consistent(d), NEW a \in Accounts, NEW n \in Amounts,
         d.account[a] = None, NEW v,
         v = [account |-> [d.account EXCEPT ![a] = [balance |-> n, available |-> n]],
              hold |-> d.hold, topup |-> d.topup,
              log |-> Append(d.log, Entry("account_open", a, n, None, None))]
  PROVE  /\ v \in Databases /\ Consistent(v) /\ Opened(v.log, a)
         /\ Advances(d.log, Available(d), v.log, Available(v)) /\ Booked(d, v)
<1> DEFINE e == Entry("account_open", a, n, None, None)
<1>1. /\ v.account = [d.account EXCEPT ![a] = [balance |-> n, available |-> n]]
      /\ v.hold = d.hold /\ v.topup = d.topup /\ v.log = Append(d.log, e)
  OBVIOUS
<1>2. n \in Int
  BY AmountsAssumption
<1>3. e \in Entries /\ e.kind = "account_open" /\ e.account = a
  BY DEF Entries, Entry, Kinds
<1> HIDE DEF e
<1>4. /\ [balance |-> n, available |-> n] \in AccountRow
      /\ [balance |-> n, available |-> n] # None
  BY <1>2, RowsAssumption DEF AccountRow
<1>5. /\ d.account \in [Accounts -> AccountRow \cup {None}]
      /\ d.hold \in [Refs -> HoldRow \cup {None}]
      /\ d.topup \in SUBSET Keys /\ d.log \in Seq(Entries)
  BY Tables
<1>6. v \in Databases
  <2>1. v.account \in [Accounts -> AccountRow \cup {None}]
    BY <1>1, <1>4, <1>5
  <2>2. v.log \in Seq(Entries)
    BY <1>1, <1>3, <1>5
  <2> QED BY <1>1, <1>5, <2>1, <2>2 DEF Databases
<1>7. /\ DOMAIN v.log = DOMAIN d.log \cup {Len(d.log) + 1} /\ v.log[Len(d.log) + 1] = e
      /\ \A i \in DOMAIN d.log : v.log[i] = d.log[i]
  BY <1>1, <1>3, <1>5, Grown
<1>8. Consistent(v)
  <2>1. \A b \in Accounts : v.account[b] # None <=> Opened(v.log, b)
    BY <1>1, <1>3, <1>4, <1>5, <1>7 DEF Consistent, Opened
  <2>2. \A k \in Keys : k \in v.topup <=> ToppedUp(v.log, k)
    BY <1>1, <1>3, <1>7 DEF Consistent, ToppedUp
  <2>3. ASSUME NEW r \in Refs PROVE HoldMatches(v, r)
    <3>1. \A b \in Accounts : d.account[b] # None => v.account[b] # None
      BY <1>1, <1>4, <1>5
    <3>2. HoldMatches(d, r) /\ v.hold[r] = d.hold[r]
      BY <1>1 DEF Consistent
    <3>3. ~(e.kind \in {"hold", "charge", "release"} /\ e.ref = r)
      BY <1>3
    <3> HIDE DEF Databases, HoldMatches
    <3>4. v.log = Append(d.log, e) /\ e \in Entries
      BY <1>1, <1>3
    <3> QED BY ONLY <1>6, d \in Databases, r \in Refs, <3>1, <3>2, <3>3, <3>4, StillMatches
  <2> QED BY <2>1, <2>2, <2>3 DEF Consistent
<1>9. Opens(d.log, Available(d), v.log, Available(v), a, n)
  <2>1. ~Opened(d.log, a)
    BY DEF Consistent
  <2>2. Available(v) = [Available(d) EXCEPT ![a] = n]
    <3>1. v.account[a] = [balance |-> n, available |-> n] /\ Available(v)[a] = n
      BY <1>1, <1>2, <1>4, <1>5 DEF Available
    <3>2. ASSUME NEW b \in Accounts, b # a PROVE Available(v)[b] = Available(d)[b]
      BY <1>1, <1>5, <3>2 DEF Available
    <3>3. /\ Available(v) = [b \in Accounts |-> Available(v)[b]]
          /\ Available(d) = [b \in Accounts |-> Available(d)[b]]
      BY DEF Available
    <3> QED BY <3>1, <3>2, <3>3
  <2> QED BY <1>1, <2>1, <2>2 DEF Opens, e
<1>10. Opened(v.log, a)
  BY <1>3, <1>7 DEF Opened
<1>13. Booked(d, v)
  <2>1. e.amount = n
    BY DEF e, Entry
  <2>2. Balance(v)[a] = n /\ Balance(d)[a] = 0
    BY <1>1, <1>4, <1>5 DEF Balance
  <2>3. BalanceDelta(e) = n
    BY <1>3, <2>1 DEF BalanceDelta
  <2>4. \A b \in Accounts : b # e.account => v.account[b] = d.account[b]
    BY <1>1, <1>3, <1>5
  <2>5. Balance(v)[a] = Balance(d)[a] + BalanceDelta(e)
    BY <1>2, <2>2, <2>3
  <2>6. v.log = Append(d.log, e) /\ Balance(v)[e.account] = Balance(d)[e.account] + BalanceDelta(e)
    BY <1>1, <1>3, <2>5
  <2> QED BY ONLY d \in Databases, <1>3, <2>4, <2>6, BookedBy
<1> QED BY <1>6, <1>8, <1>9, <1>10, <1>13 DEF Advances

LEMMA ToppingUp ==
  ASSUME NEW d \in Databases, Consistent(d), NEW a \in Accounts, NEW n \in Amounts,
         NEW k \in Keys, d.account[a] # None, k \notin d.topup, NEW v,
         v = [account |-> [d.account EXCEPT ![a] = [balance |-> @.balance + n,
                                                available |-> @.available + n]],
              hold |-> d.hold, topup |-> d.topup \cup {k},
              log |-> Append(d.log, Entry("topup", a, n, None, k))]
  PROVE  /\ v \in Databases /\ Consistent(v) /\ ToppedUp(v.log, k)
         /\ Advances(d.log, Available(d), v.log, Available(v)) /\ Booked(d, v)
<1> DEFINE e == Entry("topup", a, n, None, k)
           row == [balance |-> d.account[a].balance + n,
                   available |-> d.account[a].available + n]
<1>1. /\ v.account = [d.account EXCEPT ![a] = row]
      /\ v.hold = d.hold /\ v.topup = d.topup \cup {k} /\ v.log = Append(d.log, e)
  OBVIOUS
<1>2. n \in Int
  BY AmountsAssumption
<1>3. e \in Entries /\ e.kind = "topup" /\ e.key = k
  BY DEF Entries, Entry, Kinds
<1>5. /\ d.account \in [Accounts -> AccountRow \cup {None}]
      /\ d.hold \in [Refs -> HoldRow \cup {None}]
      /\ d.topup \in SUBSET Keys /\ d.log \in Seq(Entries)
  BY Tables
<1>4. /\ row \in AccountRow /\ row # None
      /\ row.balance = d.account[a].balance + n
      /\ row.available = d.account[a].available + n
      /\ d.account[a].balance \in Int /\ d.account[a].available \in Int
  BY <1>2, <1>5, RowsAssumption DEF AccountRow
<1> HIDE DEF e, row
<1>6. v \in Databases
  <2>1. v.account \in [Accounts -> AccountRow \cup {None}]
    BY <1>1, <1>4, <1>5
  <2>2. v.log \in Seq(Entries)
    BY <1>1, <1>3, <1>5
  <2> QED BY <1>1, <1>5, <2>1, <2>2 DEF Databases
<1>7. /\ DOMAIN v.log = DOMAIN d.log \cup {Len(d.log) + 1} /\ v.log[Len(d.log) + 1] = e
      /\ \A i \in DOMAIN d.log : v.log[i] = d.log[i]
  BY <1>1, <1>3, <1>5, Grown
<1>8. Consistent(v)
  <2>1. \A b \in Accounts : v.account[b] # None <=> Opened(v.log, b)
    <3>1. \A b \in Accounts : v.account[b] # None <=> d.account[b] # None
      BY <1>1, <1>4, <1>5
    <3>2. \A b \in Accounts : Opened(v.log, b) <=> Opened(d.log, b)
      BY <1>3, <1>7 DEF Opened
    <3> QED BY <3>1, <3>2 DEF Consistent
  <2>2. \A q \in Keys : q \in v.topup <=> ToppedUp(v.log, q)
    BY <1>1, <1>3, <1>7 DEF Consistent, ToppedUp
  <2>3. ASSUME NEW r \in Refs PROVE HoldMatches(v, r)
    <3>1. \A b \in Accounts : d.account[b] # None => v.account[b] # None
      BY <1>1, <1>4, <1>5
    <3>2. HoldMatches(d, r) /\ v.hold[r] = d.hold[r]
      BY <1>1 DEF Consistent
    <3>3. ~(e.kind \in {"hold", "charge", "release"} /\ e.ref = r)
      BY <1>3
    <3>4. v.log = Append(d.log, e) /\ e \in Entries
      BY <1>1, <1>3
    <3> QED BY ONLY <1>6, d \in Databases, r \in Refs, <3>1, <3>2, <3>3, <3>4, StillMatches
  <2> QED BY <2>1, <2>2, <2>3 DEF Consistent
<1>9. TopsUp(d.log, Available(d), v.log, Available(v), a, n, k)
  <2>1. Opened(d.log, a) /\ ~ToppedUp(d.log, k)
    BY DEF Consistent
  <2>2. Available(v) = [Available(d) EXCEPT ![a] = @ + n]
    <3>1. Available(v)[a] = Available(d)[a] + n
      <4>1. v.account[a] = row
        BY <1>1, <1>5
      <4>2. /\ Available(v)[a] = row.available
            /\ Available(d)[a] = d.account[a].available
        BY <1>4, <4>1 DEF Available
      <4> QED BY <1>2, <1>4, <4>2
    <3>2. ASSUME NEW b \in Accounts, b # a PROVE Available(v)[b] = Available(d)[b]
      BY <1>1, <1>5, <3>2 DEF Available
    <3>3. /\ Available(v) = [b \in Accounts |-> Available(v)[b]]
          /\ Available(d) = [b \in Accounts |-> Available(d)[b]]
      BY DEF Available
    <3> QED BY <3>1, <3>2, <3>3
  <2> QED BY <1>1, <2>1, <2>2 DEF TopsUp, e
<1>10. ToppedUp(v.log, k)
  BY <1>3, <1>7 DEF ToppedUp
<1>13. Booked(d, v)
  <2>1. e.account = a /\ e.amount = n
    BY DEF e, Entry
  <2>2. Balance(v)[a] = row.balance /\ Balance(d)[a] = d.account[a].balance
    BY <1>1, <1>4, <1>5 DEF Balance
  <2>3. BalanceDelta(e) = n
    BY <1>3, <2>1 DEF BalanceDelta
  <2>4. \A b \in Accounts : b # e.account => v.account[b] = d.account[b]
    BY <1>1, <1>5, <2>1
  <2>5. Balance(v)[a] = Balance(d)[a] + BalanceDelta(e)
    BY <1>2, <1>4, <2>2, <2>3
  <2>6. v.log = Append(d.log, e) /\ Balance(v)[e.account] = Balance(d)[e.account] + BalanceDelta(e)
    BY <1>1, <2>1, <2>5
  <2> QED BY ONLY d \in Databases, <1>3, <2>4, <2>6, BookedBy
<1> QED BY <1>6, <1>8, <1>9, <1>10, <1>13 DEF Advances

LEMMA Holding ==
  ASSUME NEW d \in Databases, Consistent(d), NEW a \in Accounts, NEW n \in Amounts,
         NEW r \in Refs, d.account[a] # None, d.hold[r] = None,
         d.account[a].available >= n, NEW v,
         v = [account |-> [d.account EXCEPT ![a].available = @ - n],
              hold |-> [d.hold EXCEPT ![r] = [account |-> a, amount |-> n, status |-> "open"]],
              topup |-> d.topup, log |-> Append(d.log, Entry("hold", a, n, r, None))]
  PROVE  /\ v \in Databases /\ Consistent(v)
         /\ HeldFor(v.log, r, a, n)
         /\ Advances(d.log, Available(d), v.log, Available(v)) /\ Booked(d, v)
<1> DEFINE e == Entry("hold", a, n, r, None)
           row == [d.account[a] EXCEPT !.available = @ - n]
           h == [account |-> a, amount |-> n, status |-> "open"]
<1>1. /\ v.account = [d.account EXCEPT ![a] = row]
      /\ v.hold = [d.hold EXCEPT ![r] = h]
      /\ v.topup = d.topup /\ v.log = Append(d.log, e)
  OBVIOUS
<1>2. n \in Int
  BY AmountsAssumption
<1>3. e \in Entries /\ e.kind = "hold" /\ e.ref = r /\ e.account = a /\ e.amount = n
  BY DEF Entries, Entry, Kinds
<1>5. /\ d.account \in [Accounts -> AccountRow \cup {None}]
      /\ d.hold \in [Refs -> HoldRow \cup {None}]
      /\ d.topup \in SUBSET Keys /\ d.log \in Seq(Entries)
  BY Tables
<1>4. /\ row \in AccountRow /\ row # None
      /\ row.available = d.account[a].available - n /\ row.balance = d.account[a].balance
      /\ d.account[a].balance \in Int /\ d.account[a].available \in Int
  <2>1. d.account[a] \in AccountRow
    BY <1>5
  <2>2. /\ d.account[a].balance \in Int /\ d.account[a].available \in Int
        /\ row = [balance |-> d.account[a].balance, available |-> d.account[a].available - n]
    BY SMTT(30), <2>1 DEF AccountRow
  <2> HIDE DEF row
  <2> QED BY <1>2, <2>2, RowsAssumption DEF AccountRow
<1>11. /\ h \in HoldRow /\ h # None
       /\ h.account = a /\ h.amount = n /\ h.status = "open"
  BY RowsAssumption DEF HoldRow
<1> HIDE DEF e, row, h
<1>6. v \in Databases
  <2>1. v.account \in [Accounts -> AccountRow \cup {None}]
    BY <1>1, <1>4, <1>5
  <2>2. v.log \in Seq(Entries)
    BY <1>1, <1>3, <1>5
  <2>3. v.hold \in [Refs -> HoldRow \cup {None}]
    BY <1>1, <1>11, <1>5
  <2> QED BY <1>1, <1>5, <2>1, <2>2, <2>3 DEF Databases
<1>7. /\ DOMAIN v.log = DOMAIN d.log \cup {Len(d.log) + 1} /\ v.log[Len(d.log) + 1] = e
      /\ \A i \in DOMAIN d.log : v.log[i] = d.log[i]
  BY <1>1, <1>3, <1>5, Grown
<1>12. ~Held(d.log, r) /\ ~EndedBy(d.log, r, "charge") /\ ~EndedBy(d.log, r, "release")
  BY DEF Consistent, HoldMatches
<1>10. HeldFor(v.log, r, a, n)
  BY <1>3, <1>7 DEF HeldFor, HoldOf
<1>8. Consistent(v)
  <2>1. \A b \in Accounts : v.account[b] # None <=> Opened(v.log, b)
    <3>1. \A b \in Accounts : Opened(v.log, b) <=> Opened(d.log, b)
      BY <1>3, <1>7 DEF Opened
    <3>2. \A b \in Accounts : v.account[b] # None <=> d.account[b] # None
      BY <1>1, <1>4, <1>5
    <3> QED BY <3>1, <3>2 DEF Consistent
  <2>2. \A q \in Keys : q \in v.topup <=> ToppedUp(v.log, q)
    BY <1>1, <1>3, <1>7 DEF Consistent, ToppedUp
  <2>3. ASSUME NEW s \in Refs, s # r PROVE HoldMatches(v, s)
    <3>1. \A b \in Accounts : d.account[b] # None => v.account[b] # None
      BY <1>1, <1>4, <1>5
    <3>2. HoldMatches(d, s)
      BY DEF Consistent
    <3>5. v.hold[s] = d.hold[s]
      BY <1>1, <1>5, <2>3
    <3>3. ~(e.kind \in {"hold", "charge", "release"} /\ e.ref = s)
      BY <1>3, <2>3
    <3>4. v.log = Append(d.log, e) /\ e \in Entries
      BY <1>1, <1>3
    <3> QED
      BY ONLY <1>6, d \in Databases, s \in Refs, <3>1, <3>2, <3>3, <3>4, <3>5, StillMatches
  <2>4. HoldMatches(v, r)
    <3>1. v.hold[r] = h /\ v.account[a] # None
      BY <1>1, <1>4, <1>5
    <3>2. ~EndedBy(v.log, r, "charge") /\ ~EndedBy(v.log, r, "release")
      BY <1>3, <1>7, <1>12 DEF EndedBy
    <3> QED BY <1>10, <1>11, <3>1, <3>2 DEF HoldMatches
  <2> QED BY <2>1, <2>2, <2>3, <2>4 DEF Consistent
<1>9. Holds(d.log, Available(d), v.log, Available(v), a, n, r)
  <2>1. Opened(d.log, a) /\ n <= Available(d)[a]
    BY <1>2, <1>4 DEF Consistent, Available
  <2>2. Available(v) = [Available(d) EXCEPT ![a] = @ - n]
    <3>1. Available(v)[a] = Available(d)[a] - n
      <4>1. v.account[a] = row
        BY <1>1, <1>5
      <4>2. /\ Available(v)[a] = row.available
            /\ Available(d)[a] = d.account[a].available
        BY <1>4, <4>1 DEF Available
      <4> QED BY <1>2, <1>4, <4>2
    <3>2. ASSUME NEW b \in Accounts, b # a PROVE Available(v)[b] = Available(d)[b]
      BY <1>1, <1>5, <3>2 DEF Available
    <3>3. /\ Available(v) = [b \in Accounts |-> Available(v)[b]]
          /\ Available(d) = [b \in Accounts |-> Available(d)[b]]
      BY DEF Available
    <3> QED BY <3>1, <3>2, <3>3
  <2> QED BY <1>1, <1>12, <2>1, <2>2 DEF Holds, e
<1>13. Booked(d, v)
  <2>1. e.account = a /\ e.amount = n
    BY DEF e, Entry
  <2>2. Balance(v)[a] = row.balance /\ Balance(d)[a] = d.account[a].balance
    BY <1>1, <1>4, <1>5 DEF Balance
  <2>3. BalanceDelta(e) = 0
    BY <1>3, <2>1 DEF BalanceDelta
  <2>4. \A b \in Accounts : b # e.account => v.account[b] = d.account[b]
    BY <1>1, <1>5, <2>1
  <2>5. Balance(v)[a] = Balance(d)[a] + BalanceDelta(e)
    BY <1>2, <1>4, <2>2, <2>3
  <2>6. v.log = Append(d.log, e) /\ Balance(v)[e.account] = Balance(d)[e.account] + BalanceDelta(e)
    BY <1>1, <2>1, <2>5
  <2> QED BY ONLY d \in Databases, <1>3, <2>4, <2>6, BookedBy
<1> QED BY <1>6, <1>8, <1>9, <1>10, <1>13 DEF Advances

LEMMA Ending ==
  ASSUME NEW d \in Databases, Consistent(d), NEW r \in Refs, NEW kind \in {"charge", "release"},
         d.hold[r] # None, d.hold[r].status = "open", NEW v,
         v = [account |-> [d.account EXCEPT ![d.hold[r].account] =
                             Settled(@, d.hold[r].amount, kind)],
              hold |-> [d.hold EXCEPT ![r].status = Ended(kind)], topup |-> d.topup,
              log |-> Append(d.log, Entry(kind, d.hold[r].account, d.hold[r].amount, r, None))]
  PROVE  /\ v \in Databases /\ Consistent(v) /\ EndedBy(v.log, r, kind)
         /\ Advances(d.log, Available(d), v.log, Available(v)) /\ Booked(d, v)
<1> DEFINE a == d.hold[r].account
           n == d.hold[r].amount
           e == Entry(kind, a, n, r, None)
           row == Settled(d.account[a], n, kind)
           h == [d.hold[r] EXCEPT !.status = Ended(kind)]
<1>1. /\ v.account = [d.account EXCEPT ![a] = row]
      /\ v.hold = [d.hold EXCEPT ![r] = h]
      /\ v.topup = d.topup /\ v.log = Append(d.log, e)
  OBVIOUS
<1>5. /\ d.account \in [Accounts -> AccountRow \cup {None}]
      /\ d.hold \in [Refs -> HoldRow \cup {None}]
      /\ d.topup \in SUBSET Keys /\ d.log \in Seq(Entries)
  BY Tables
<1>2. a \in Accounts /\ n \in Amounts /\ n \in Int
  BY <1>5, AmountsAssumption DEF HoldRow
<1>3. e \in Entries /\ e.kind = kind /\ e.ref = r
  BY <1>2 DEF Entries, Entry, Kinds
<1>4. /\ row \in AccountRow /\ row # None /\ d.account[a] # None
      /\ row.available = d.account[a].available + (IF kind = "charge" THEN 0 ELSE n)
      /\ row.balance = (IF kind = "charge" THEN d.account[a].balance - n
                        ELSE d.account[a].balance)
      /\ d.account[a].balance \in Int /\ d.account[a].available \in Int
  <2>1. d.account[a] # None
    BY DEF Consistent, HoldMatches
  <2>2. /\ d.account[a].balance \in Int /\ d.account[a].available \in Int
        /\ row = [balance |-> IF kind = "charge" THEN d.account[a].balance - n
                              ELSE d.account[a].balance,
                  available |-> IF kind = "charge" THEN d.account[a].available
                                ELSE d.account[a].available + n]
    BY <1>2, <1>5, <2>1 DEF AccountRow, Settled
  <2> HIDE DEF row, a, n
  <2> QED BY SMTT(30), <1>2, <2>1, <2>2, RowsAssumption DEF AccountRow
<1>11. /\ h \in HoldRow /\ h # None /\ h.account = a /\ h.amount = n /\ h.status = Ended(kind)
  <2>1. d.hold[r] \in HoldRow
    BY <1>5
  <2>2. h = [account |-> a, amount |-> n, status |-> Ended(kind)]
    BY <2>1 DEF HoldRow
  <2> HIDE DEF h, a, n
  <2> QED BY <1>2, <2>2, RowsAssumption DEF HoldRow, Ended
<1>12. /\ ~EndedBy(d.log, r, "charge") /\ ~EndedBy(d.log, r, "release")
       /\ HeldFor(d.log, r, a, n)
  BY DEF Consistent, HoldMatches
<1> HIDE DEF e, row, h
<1>6. v \in Databases
  <2>1. v.account \in [Accounts -> AccountRow \cup {None}]
    BY <1>1, <1>4, <1>5
  <2>2. v.log \in Seq(Entries)
    BY <1>1, <1>3, <1>5
  <2>3. v.hold \in [Refs -> HoldRow \cup {None}]
    BY <1>1, <1>11, <1>5
  <2> QED BY <1>1, <1>5, <2>1, <2>2, <2>3 DEF Databases
<1>7. /\ DOMAIN v.log = DOMAIN d.log \cup {Len(d.log) + 1} /\ v.log[Len(d.log) + 1] = e
      /\ \A i \in DOMAIN d.log : v.log[i] = d.log[i]
  BY <1>1, <1>3, <1>5, Grown
<1>10. EndedBy(v.log, r, kind)
  BY <1>3, <1>7 DEF EndedBy
<1>8. Consistent(v)
  <2> HIDE DEF a, n
  <2>1. \A b \in Accounts : v.account[b] # None <=> Opened(v.log, b)
    <3>1. \A b \in Accounts : Opened(v.log, b) <=> Opened(d.log, b)
      BY <1>3, <1>7 DEF Opened
    <3>2. \A b \in Accounts : v.account[b] # None <=> d.account[b] # None
      BY <1>1, <1>4, <1>5
    <3> QED BY <3>1, <3>2 DEF Consistent
  <2>2. \A q \in Keys : q \in v.topup <=> ToppedUp(v.log, q)
    BY <1>1, <1>3, <1>7 DEF Consistent, ToppedUp
  <2>3. ASSUME NEW s \in Refs, s # r PROVE HoldMatches(v, s)
    <3>1. \A b \in Accounts : d.account[b] # None => v.account[b] # None
      BY <1>1, <1>4, <1>5
    <3>2. HoldMatches(d, s)
      BY DEF Consistent
    <3>5. v.hold[s] = d.hold[s]
      BY <1>1, <1>5, <2>3
    <3>3. ~(e.kind \in {"hold", "charge", "release"} /\ e.ref = s)
      BY <1>3, <2>3
    <3>4. v.log = Append(d.log, e) /\ e \in Entries
      BY <1>1, <1>3
    <3> QED
      BY ONLY <1>6, d \in Databases, s \in Refs, <3>1, <3>2, <3>3, <3>4, <3>5, StillMatches
  <2>4. HoldMatches(v, r)
    <3>1. v.hold[r] = h /\ v.account[a] # None
      BY <1>1, <1>2, <1>4, <1>5
    <3>2. \A k \in {"charge", "release"} : EndedBy(v.log, r, k) <=> k = kind
      BY <1>3, <1>7, <1>12 DEF EndedBy
    <3>3. HeldFor(v.log, r, a, n)
      BY <1>7, <1>12 DEF HeldFor, HoldOf
    <3>4. (h.status = "charged" <=> kind = "charge") /\ (h.status = "released" <=> kind = "release")
      BY <1>11 DEF Ended
    <3> QED BY <1>11, <3>1, <3>2, <3>3, <3>4 DEF HoldMatches
  <2> QED BY <2>1, <2>2, <2>3, <2>4 DEF Consistent
<1>9. Advances(d.log, Available(d), v.log, Available(v))
  <2> HIDE DEF a, n
  <2>1. PICK i \in DOMAIN d.log :
          HoldOf(d.log, r, i) /\ d.log[i].account = a /\ d.log[i].amount = n
    BY <1>12 DEF HeldFor
  <2>2. Available(v)[a] = Available(d)[a] + (IF kind = "charge" THEN 0 ELSE n)
    <3>1. v.account[a] = row
      BY <1>1, <1>2, <1>5
    <3>2. /\ Available(v)[a] = row.available
          /\ Available(d)[a] = d.account[a].available
      BY <1>2, <1>4, <3>1 DEF Available
    <3> QED BY <1>4, <3>2
  <2>3. ASSUME NEW b \in Accounts, b # a PROVE Available(v)[b] = Available(d)[b]
    BY <1>1, <1>5, <2>3 DEF Available
  <2>4. /\ Available(v) = [b \in Accounts |-> Available(v)[b]]
        /\ Available(d) = [b \in Accounts |-> Available(d)[b]]
    BY DEF Available
  <2>5. Available(d)[a] \in Int
    BY <1>2, <1>4 DEF Available
  <2>6. kind = "charge" => Available(v) = Available(d)
    <3>1. SUFFICES ASSUME kind = "charge" PROVE Available(v) = Available(d)
      OBVIOUS
    <3>2. \A b \in Accounts : Available(v)[b] = Available(d)[b]
      <4>1. Available(v)[a] = Available(d)[a]
        BY <2>2, <2>5, <3>1
      <4> QED BY <2>3, <4>1
    <3> QED BY <2>4, <3>2
  <2>7. kind = "release" => Available(v) = [Available(d) EXCEPT ![a] = @ + n]
    BY <1>2, <2>2, <2>3, <2>4
  <2>8. Ends(d.log, Available(d), v.log, Available(v), r, i, kind)
    BY <1>1, <1>12, <2>1, <2>6, <2>7 DEF Ends, e
  <2> QED BY <2>1, <2>8 DEF Advances
<1>13. Booked(d, v)
  <2> HIDE DEF a, n
  <2>1. e.account = a /\ e.amount = n
    BY DEF e, Entry
  <2>2. Balance(v)[a] = row.balance /\ Balance(d)[a] = d.account[a].balance
    BY <1>1, <1>2, <1>4, <1>5 DEF Balance
  <2>3. BalanceDelta(e) = IF kind = "charge" THEN -n ELSE 0
    BY <1>2, <1>3, <2>1 DEF BalanceDelta
  <2>4. \A b \in Accounts : b # e.account => v.account[b] = d.account[b]
    BY <1>1, <1>5, <2>1
  <2>5. Balance(v)[a] = Balance(d)[a] + BalanceDelta(e)
    <3>1. row.balance = IF kind = "charge" THEN d.account[a].balance - n
                        ELSE d.account[a].balance
      BY <1>4
    <3> QED BY <1>2, <1>4, <2>2, <2>3, <3>1
  <2>6. v.log = Append(d.log, e) /\ Balance(v)[e.account] = Balance(d)[e.account] + BalanceDelta(e)
    BY <1>1, <2>1, <2>5
  <2> QED BY ONLY d \in Databases, <1>3, <2>4, <2>6, BookedBy
<1> QED BY <1>6, <1>8, <1>9, <1>10, <1>13

-----------------------------------------------------------------------------

(* Each operation returns a status and a database that can be committed.   *)
Returns(t) ==
  \E v, c : /\ Return(t, c, v) /\ c \in {200, 404, 409}
            /\ Served(db, v, req[t], c)

LEMMA AccountReturns ==
  ASSUME IInv, NEW t \in Threads, CreateAccount(t)
  PROVE  Returns(t)
<1> DEFINE a == req[t].account  n == req[t].amount
           v == [Appended(tx, "account_open", a, n, None, None) EXCEPT
                   !.account[a] = [balance |-> n, available |-> n]]
<1>1. /\ pc[t] = "work" /\ req[t].op = "account" /\ tx = db /\ db \in Databases
      /\ Consistent(db) /\ req[t] \in Requests
  BY AtWork DEF CreateAccount, Doing
<1>2. a \in Accounts /\ n \in Amounts
  BY ONLY <1>1, RequestFields
<1>3. CASE tx.account[a] # None
  <2>1. Return(t, 200, db)
    BY <1>1, <1>3 DEF CreateAccount
  <2>2. Honest(db.log, req[t], 200)
    BY <1>1, <1>2, <1>3 DEF Honest, Recorded, Consistent
  <2> QED BY <1>1, <2>1, <2>2, NothingNew DEF Returns
<1>4. CASE tx.account[a] = None
  <2>1. Return(t, 200, v)
    BY <1>4 DEF CreateAccount
  <2>2. v = [account |-> [db.account EXCEPT ![a] = [balance |-> n, available |-> n]],
             hold |-> db.hold, topup |-> db.topup,
             log |-> Append(db.log, Entry("account_open", a, n, None, None))]
    <3>0. tx \in Databases /\ tx = db
      BY <1>1
    <3>a. Appended(tx, "account_open", a, n, None, None) =
            [account |-> tx.account, hold |-> tx.hold, topup |-> tx.topup,
             log |-> Append(tx.log, Entry("account_open", a, n, None, None))]
      <4> HIDE DEF a, n, v
      <4> QED BY ONLY <3>0, Written
    <3>1. Appended(tx, "account_open", a, n, None, None) =
            [account |-> db.account, hold |-> db.hold, topup |-> db.topup,
             log |-> Append(db.log, Entry("account_open", a, n, None, None))]
      BY ONLY <3>0, <3>a
    <3>2. v.topup = db.topup /\ v.log = Append(db.log, Entry("account_open", a, n, None, None))
      BY <1>1, <3>1
    <3>3. v.hold = db.hold
      BY <1>1, <3>1
    <3>4. v.account = [db.account EXCEPT ![a] = [balance |-> n, available |-> n]]
      BY <1>1, <3>1
    <3>5. v = [account |-> v.account, hold |-> v.hold, topup |-> v.topup, log |-> v.log]
      BY <3>1
    <3> HIDE DEF v
    <3> QED BY <3>2, <3>3, <3>4, <3>5
  <2> HIDE DEF v, a, n
  <2>3. /\ v \in Databases /\ Consistent(v) /\ Opened(v.log, a)
        /\ Advances(db.log, Available(db), v.log, Available(v)) /\ Booked(db, v)
    BY ONLY <1>1, <1>2, <1>4, <2>2, Opening
  <2>4. Honest(v.log, req[t], 200)
    BY <1>1, <2>3 DEF Honest, Recorded, a
  <2> QED BY <2>1, <2>3, <2>4 DEF Returns, Served
<1> QED BY <1>3, <1>4

LEMMA TopupReturns ==
  ASSUME IInv, NEW t \in Threads, Topup(t)
  PROVE  Returns(t)
<1> DEFINE a == req[t].account  n == req[t].amount  k == req[t].key
           v == [Appended(tx, "topup", a, n, None, k) EXCEPT
                   !.topup = @ \cup {k},
                   !.account[a] = [balance |-> @.balance + n, available |-> @.available + n]]
<1>1. /\ pc[t] = "work" /\ req[t].op = "topup" /\ tx = db /\ db \in Databases
      /\ Consistent(db) /\ req[t] \in Requests
  BY AtWork DEF Topup, Doing
<1>2. a \in Accounts /\ n \in Amounts /\ k \in Keys
  BY ONLY <1>1, RequestFields
<1>3. CASE tx.account[a] = None /\ Return(t, 404, tx)
  BY <1>1, <1>3, NothingNew DEF Returns, Honest
<1>4. CASE tx.account[a] # None /\ k \in tx.topup /\ Return(t, 200, tx)
  <2>1. Honest(db.log, req[t], 200)
    BY <1>1, <1>2, <1>4 DEF Honest, Recorded, Consistent
  <2> QED BY <1>1, <1>4, <2>1, NothingNew DEF Returns
<1>5. CASE tx.account[a] # None /\ k \notin tx.topup /\ Return(t, 200, v)
  <2>2. v = [account |-> [db.account EXCEPT ![a] = [balance |-> @.balance + n,
                                                    available |-> @.available + n]],
             hold |-> db.hold, topup |-> db.topup \cup {k},
             log |-> Append(db.log, Entry("topup", a, n, None, k))]
    <3>0. tx \in Databases /\ tx = db
      BY <1>1
    <3>a. Appended(tx, "topup", a, n, None, k) =
            [account |-> tx.account, hold |-> tx.hold, topup |-> tx.topup,
             log |-> Append(tx.log, Entry("topup", a, n, None, k))]
      <4> HIDE DEF a, n, k, v
      <4> QED BY ONLY <3>0, Written
    <3>1. Appended(tx, "topup", a, n, None, k) =
            [account |-> db.account, hold |-> db.hold, topup |-> db.topup,
             log |-> Append(db.log, Entry("topup", a, n, None, k))]
      BY ONLY <3>0, <3>a
    <3>2. v.topup = db.topup \cup {k} /\ v.log = Append(db.log, Entry("topup", a, n, None, k))
      BY <1>1, <3>1
    <3>3. v.hold = db.hold
      BY <1>1, <3>1
    <3>4. v.account = [db.account EXCEPT ![a] = [balance |-> @.balance + n,
                                                 available |-> @.available + n]]
      <4>1. ASSUME NEW B, B = Appended(tx, "topup", a, n, None, k)
            PROVE  [B EXCEPT !.topup = @ \cup {k},
                             !.account[a] = [balance |-> @.balance + n,
                                             available |-> @.available + n]].account =
                     [db.account EXCEPT ![a] = [balance |-> @.balance + n,
                                                available |-> @.available + n]]
        <5> HIDE DEF a, n, k
        <5> QED BY ONLY <3>1, <4>1
      <4> QED BY <4>1
    <3>5. v = [account |-> v.account, hold |-> v.hold, topup |-> v.topup, log |-> v.log]
      <4>1. ASSUME NEW B, B = Appended(tx, "topup", a, n, None, k),
                   NEW w, w = [B EXCEPT !.topup = @ \cup {k},
                             !.account[a] = [balance |-> @.balance + n,
                                             available |-> @.available + n]]
            PROVE  w = [account |-> w.account, hold |-> w.hold, topup |-> w.topup, log |-> w.log]
        BY <3>1, <4>1
      <4> QED BY <4>1
    <3> HIDE DEF v
    <3> QED BY <3>2, <3>3, <3>4, <3>5
  <2> HIDE DEF v, a, n, k
  <2>3. /\ v \in Databases /\ Consistent(v) /\ ToppedUp(v.log, k)
        /\ Advances(db.log, Available(db), v.log, Available(v)) /\ Booked(db, v)
    BY ONLY <1>1, <1>2, <1>5, <2>2, ToppingUp
  <2>4. Honest(v.log, req[t], 200)
    BY <1>1, <2>3 DEF Honest, Recorded, k
  <2> QED BY <1>5, <2>3, <2>4 DEF Returns, Served
<1> QED BY <1>3, <1>4, <1>5 DEF Topup

LEMMA HoldReturns ==
  ASSUME IInv, NEW t \in Threads, Hold(t)
  PROVE  Returns(t)
<1> DEFINE a == req[t].account  n == req[t].amount  r == req[t].ref
           h == tx.hold[r]  row == tx.account[a]
           v == [Appended(tx, "hold", a, n, r, None) EXCEPT
                   !.hold[r] = [account |-> a, amount |-> n, status |-> "open"],
                   !.account[a].available = @ - n]
<1>1. /\ pc[t] = "work" /\ req[t].op = "hold" /\ tx = db /\ db \in Databases
      /\ Consistent(db) /\ req[t] \in Requests
  BY AtWork DEF Hold, Doing
<1>2. a \in Accounts /\ n \in Amounts /\ r \in Refs
  BY ONLY <1>1, RequestFields
<1>3. ASSUME NEW c \in {404, 409}, Return(t, c, tx) PROVE Returns(t)
  BY <1>1, <1>3, NothingNew DEF Returns, Honest
<1>4. CASE h # None /\ h.account = a /\ h.amount = n /\ Return(t, 200, tx)
  <2>1. Honest(db.log, req[t], 200)
    BY <1>1, <1>2, <1>4 DEF Honest, Recorded, Consistent, HoldMatches
  <2> QED BY <1>1, <1>4, <2>1, NothingNew DEF Returns
<1>5. CASE /\ h = None /\ row # None /\ row.available >= n
           /\ Return(t, 200, v)
  <2>2. v = [account |-> [db.account EXCEPT ![a].available = @ - n],
             hold |-> [db.hold EXCEPT ![r] = [account |-> a, amount |-> n, status |-> "open"]],
             topup |-> db.topup, log |-> Append(db.log, Entry("hold", a, n, r, None))]
    <3>0. tx \in Databases /\ tx = db
      BY <1>1
    <3>a. Appended(tx, "hold", a, n, r, None) =
            [account |-> tx.account, hold |-> tx.hold, topup |-> tx.topup,
             log |-> Append(tx.log, Entry("hold", a, n, r, None))]
      <4> HIDE DEF a, n, r, v
      <4> QED BY ONLY <3>0, Written
    <3>1. Appended(tx, "hold", a, n, r, None) =
            [account |-> db.account, hold |-> db.hold, topup |-> db.topup,
             log |-> Append(db.log, Entry("hold", a, n, r, None))]
      BY ONLY <3>0, <3>a
    <3>2. v.topup = db.topup /\ v.log = Append(db.log, Entry("hold", a, n, r, None))
      BY <1>1, <3>1
    <3>3. v.hold = [db.hold EXCEPT ![r] = [account |-> a, amount |-> n, status |-> "open"]]
      BY <1>1, <3>1
    <3>4. v.account = [db.account EXCEPT ![a].available = @ - n]
      <4>1. ASSUME NEW B, B = Appended(tx, "hold", a, n, r, None)
            PROVE  [B EXCEPT !.hold[r] = [account |-> a, amount |-> n, status |-> "open"],
                             !.account[a].available = @ - n].account =
                     [db.account EXCEPT ![a].available = @ - n]
        <5> HIDE DEF a, n, r, h, row
        <5> QED BY ONLY <3>1, <4>1
      <4> QED BY <4>1
    <3>5. v = [account |-> v.account, hold |-> v.hold, topup |-> v.topup, log |-> v.log]
      <4>1. ASSUME NEW B, B = Appended(tx, "hold", a, n, r, None),
                   NEW w, w = [B EXCEPT !.hold[r] = [account |-> a, amount |-> n,
                                                     status |-> "open"],
                                        !.account[a].available = @ - n]
            PROVE  w = [account |-> w.account, hold |-> w.hold, topup |-> w.topup, log |-> w.log]
        BY <3>1, <4>1
      <4> QED BY <4>1
    <3> HIDE DEF v
    <3> QED BY <3>2, <3>3, <3>4, <3>5
  <2>3. /\ db.account[a] # None /\ db.hold[r] = None
        /\ db.account[a].available >= n
    BY <1>1, <1>5
  <2> HIDE DEF v, a, n, r
  <2>4. /\ v \in Databases /\ Consistent(v)
        /\ HeldFor(v.log, r, a, n)
        /\ Advances(db.log, Available(db), v.log, Available(v)) /\ Booked(db, v)
    BY ONLY <1>1, <1>2, <2>2, <2>3, Holding
  <2>5. Honest(v.log, req[t], 200)
    BY <1>1, <2>4 DEF Honest, Recorded, a, n, r
  <2> QED BY <1>5, <2>4, <2>5 DEF Returns, Served
<1> QED BY <1>3, <1>4, <1>5 DEF Hold

LEMMA ChargeOrRelease ==
  ASSUME NEW t \in Threads, Charge(t) \/ Release(t)
  PROVE  \E kind \in {"charge", "release"} : Terminal(t, kind)
<1>1. CASE Charge(t)
  <2>1. Terminal(t, "charge")
    BY <1>1 DEF Charge, Terminal, Ended, Settled
  <2> QED BY <2>1
<1>2. CASE Release(t)
  <2>1. Terminal(t, "release")
    BY <1>2 DEF Release, Terminal, Ended, Settled
  <2> QED BY <2>1
<1> QED BY <1>1, <1>2

LEMMA TerminalReturns ==
  ASSUME IInv, NEW t \in Threads, NEW kind \in {"charge", "release"}, Terminal(t, kind)
  PROVE  Returns(t)
<1> DEFINE r == req[t].ref  h == tx.hold[r]
           v == [Appended(tx, kind, h.account, h.amount, r, None) EXCEPT
                   !.hold[r].status = Ended(kind),
                   !.account[h.account] = Settled(@, h.amount, kind)]
<1>1. /\ pc[t] = "work" /\ req[t].op = kind /\ tx = db /\ db \in Databases
      /\ Consistent(db) /\ req[t] \in Requests
  BY AtWork DEF Terminal, Doing
<1>2. r \in Refs
  BY ONLY <1>1, RequestFields, kind \in {"charge", "release"}
<1>3. CASE h = None /\ Return(t, 404, tx)
  BY <1>1, <1>3, NothingNew DEF Returns, Honest
<1>4. CASE h # None /\ h.status = Ended(kind) /\ Return(t, 200, tx)
  <2>1. Honest(db.log, req[t], 200)
    BY <1>1, <1>2, <1>4 DEF Honest, Recorded, Consistent, HoldMatches, Ended
  <2> QED BY <1>1, <1>4, <2>1, NothingNew DEF Returns
<1>5. CASE h # None /\ h.status \notin {Ended(kind), "open"} /\ Return(t, 409, tx)
  <2>1. db.hold[r] \in HoldRow
    BY <1>1, <1>2, <1>5, Tables
  <2>2. h.status = Ended(Other(kind))
    BY <1>1, <1>5, <2>1 DEF HoldRow, Other, Ended
  <2>3. Honest(db.log, req[t], 409)
    BY <1>1, <1>2, <1>5, <2>2 DEF Honest, Consistent, HoldMatches, Other, Ended
  <2> QED BY <1>1, <1>5, <2>3, NothingNew DEF Returns
<1>6. CASE h # None /\ h.status = "open" /\ Return(t, 200, v)
  <2>2. v = [account |-> [db.account EXCEPT ![db.hold[r].account] =
                            Settled(@, db.hold[r].amount, kind)],
             hold |-> [db.hold EXCEPT ![r].status = Ended(kind)], topup |-> db.topup,
             log |-> Append(db.log, Entry(kind, db.hold[r].account, db.hold[r].amount, r, None))]
    <3>0. tx \in Databases /\ tx = db
      BY <1>1
    <3>a. Appended(tx, kind, h.account, h.amount, r, None) =
            [account |-> tx.account, hold |-> tx.hold, topup |-> tx.topup,
             log |-> Append(tx.log, Entry(kind, h.account, h.amount, r, None))]
      <4> HIDE DEF r, h, v
      <4> QED BY ONLY <3>0, Written
    <3>1. Appended(tx, kind, h.account, h.amount, r, None) =
            [account |-> db.account, hold |-> db.hold, topup |-> db.topup,
             log |-> Append(db.log, Entry(kind, h.account, h.amount, r, None))]
      BY ONLY <3>0, <3>a
    <3>2. /\ v.topup = db.topup
          /\ v.log = Append(db.log, Entry(kind, db.hold[r].account, db.hold[r].amount, r, None))
      BY <1>1, <3>1
    <3>3. v.hold = [db.hold EXCEPT ![r].status = Ended(kind)]
      BY <1>1, <3>1
    <3>4. v.account = [db.account EXCEPT ![db.hold[r].account] =
                          Settled(@, db.hold[r].amount, kind)]
      BY <1>1, <3>1
    <3>5. v = [account |-> v.account, hold |-> v.hold, topup |-> v.topup, log |-> v.log]
      <4>1. ASSUME NEW B, B = Appended(tx, kind, h.account, h.amount, r, None),
                   NEW w, w = [B EXCEPT !.hold[r].status = Ended(kind),
                              !.account[h.account] = Settled(@, h.amount, kind)]
            PROVE  w = [account |-> w.account, hold |-> w.hold, topup |-> w.topup, log |-> w.log]
        BY <3>1, <4>1
      <4> QED BY <4>1
    <3> HIDE DEF v
    <3> QED BY <3>2, <3>3, <3>4, <3>5
  <2>3. db.hold[r] # None /\ db.hold[r].status = "open"
    BY <1>1, <1>6
  <2> HIDE DEF v, r
  <2>4. /\ v \in Databases /\ Consistent(v) /\ EndedBy(v.log, r, kind)
        /\ Advances(db.log, Available(db), v.log, Available(v)) /\ Booked(db, v)
    BY ONLY <1>1, <1>2, <2>2, <2>3, kind \in {"charge", "release"}, Ending
  <2>5. Honest(v.log, req[t], 200)
    BY <1>1, <2>4 DEF Honest, Recorded, r
  <2> QED BY <1>6, <2>4, <2>5 DEF Returns, Served
<1> QED BY <1>3, <1>4, <1>5, <1>6 DEF Terminal

Operation(t) == CreateAccount(t) \/ Topup(t) \/ Hold(t) \/ Charge(t) \/ Release(t)

LEMMA OperationReturns ==
  ASSUME IInv, NEW t \in Threads, Operation(t)
  PROVE  Returns(t) /\ pc[t] = "work"
<1>1. Returns(t)
  BY AccountReturns, TopupReturns, HoldReturns, TerminalReturns, ChargeOrRelease DEF Operation
<1>2. pc[t] = "work"
  BY DEF Operation, CreateAccount, Topup, Hold, Charge, Release, Doing
<1> QED BY <1>1, <1>2

-----------------------------------------------------------------------------

(* Every step keeps the invariant and is a step of the contract or a       *)
(* stutter.                                                                *)
ContractStep == Advances(db.log, Available(db), db'.log, Available(db'))

LEMMA InitInv == Init => IInv
<1> SUFFICES ASSUME Init PROVE IInv
  OBVIOUS
<1>1. /\ db.account = [a \in Accounts |-> None] /\ db.hold = [r \in Refs |-> None]
      /\ db.topup = {} /\ db.log = <<>> /\ db \in Databases
  BY DEF Init, Databases
<1>2. TypeOK
  BY <1>1, ThreadsAssumption, BoundsAssumption DEF Init, TypeOK, ServerTypeOK
<1>3. Consistent(db)
  BY <1>1 DEF Consistent, HoldMatches, Opened, ToppedUp, Held, EndedBy
<1> QED BY <1>2, <1>3 DEF IInv, Init

LEMMA TypeStep == IInv /\ [Next]_vars => TypeOK'
<1> SUFFICES ASSUME IInv, [Next]_vars PROVE TypeOK'
  OBVIOUS
<1> USE DEF TypeOK, ServerTypeOK
<1>0. TypeOK /\ \A t \in Threads : pc[t] = "begin" => tries[t] < MaxTries
  BY DEF IInv
<1>1. ASSUME NEW t \in Threads, NEW r \in Requests, Receive(t, r) PROVE TypeOK'
  BY <1>0, <1>1, RequestsAssumption DEF Receive
<1>2. ASSUME NEW t \in Threads, Begin(t) PROVE TypeOK'
  BY <1>0, <1>2, ThreadsAssumption, BoundsAssumption DEF Begin
<1>3. ASSUME NEW t \in Threads, Operation(t) PROVE TypeOK'
  <2>1. Returns(t) /\ pc[t] = "work"
    BY <1>3, OperationReturns
  <2>2. PICK v, c : Return(t, c, v) /\ c \in {200, 404, 409} /\ v \in Databases
    BY <2>1 DEF Returns, Served
  <2> QED BY <1>0, <2>1, <2>2, ThreadsAssumption DEF Return
<1>4. ASSUME NEW t \in Threads, Commit(t) PROVE TypeOK'
  BY <1>0, <1>4, ThreadsAssumption DEF Commit
<1>5. ASSUME NEW t \in Threads, Answer(t) PROVE TypeOK'
  BY <1>0, <1>5, RequestsAssumption, BoundsAssumption DEF Answer, Done
<1>6. ASSUME NEW t \in Threads, Retry(t) PROVE TypeOK'
  BY <1>0, <1>6, ThreadsAssumption DEF Retry
<1>7. ASSUME NEW t \in Threads, Fail(t) PROVE TypeOK'
  BY <1>0, <1>7, ThreadsAssumption, RequestsAssumption, BoundsAssumption DEF Fail, Done
<1>8. CASE Crash
  BY <1>0, <1>8, ThreadsAssumption, RequestsAssumption, BoundsAssumption DEF Crash
<1>9. CASE UNCHANGED vars
  BY <1>0, <1>9 DEF vars
<1> QED BY <1>1, <1>2, <1>3, <1>4, <1>5, <1>6, <1>7, <1>8, <1>9 DEF Next, Step, Operation

LEMMA InvStep == IInv /\ [Next]_vars => IInv' /\ ContractStep /\ Booked(db, db')
<1> SUFFICES ASSUME IInv, [Next]_vars PROVE IInv' /\ ContractStep /\ Booked(db, db')
  OBVIOUS
<1>0. /\ TypeOK' /\ TypeOK /\ Consistent(db)
      /\ \A t \in Threads :
           /\ pc[t] = "idle" => tries[t] = 0
           /\ pc[t] = "begin" => tries[t] < MaxTries
           /\ pc[t] = "work" => tx = db /\ writer = t
           /\ pc[t] = "commit" => Served(db, tx, req[t], code[t]) /\ writer = t
           /\ pc[t] = "answer" => Honest(db.log, req[t], code[t])
           /\ writer = t => pc[t] \in {"work", "commit"}
  BY TypeStep DEF IInv, TypeOK, ServerTypeOK
<1>a. /\ pc \in [Threads -> {"idle", "begin", "work", "commit", "answer"}]
      /\ tries \in [Threads -> 0..MaxTries] /\ MaxTries \in Nat \ {0}
  BY <1>0, BoundsAssumption DEF TypeOK, ServerTypeOK
<1>b. db' = db => ContractStep /\ Booked(db, db')
  BY DEF ContractStep, Advances, Booked
<1> HIDE DEF Served, Honest, Consistent, TypeOK
<1>1. ASSUME NEW t \in Threads, NEW r \in Requests, Receive(t, r) PROVE IInv' /\ db' = db
  BY <1>0, <1>a, <1>1 DEF Receive, IInv
<1>2. ASSUME NEW t \in Threads, Begin(t) PROVE IInv' /\ db' = db
  BY <1>0, <1>a, <1>2, ThreadsAssumption DEF Begin, IInv
<1>3. ASSUME NEW t \in Threads, Operation(t) PROVE IInv' /\ db' = db
  <2>1. Returns(t) /\ pc[t] = "work"
    BY <1>3, OperationReturns
  <2>2. PICK v, c : Return(t, c, v) /\ Served(db, v, req[t], c)
    BY <2>1 DEF Returns
  <2>3. /\ db' = db /\ tx' = v /\ req' = req /\ code'[t] = c /\ tries' = tries
        /\ \A u \in Threads : u # t => code'[u] = code[u] /\ pc'[u] = pc[u]
        /\ pc'[t] = "commit"
    BY <1>0, <1>a, <2>2 DEF Return, TypeOK, ServerTypeOK
  <2> QED BY <1>0, <2>1, <2>2, <2>3 DEF IInv
<1>4. ASSUME NEW t \in Threads, Commit(t) PROVE IInv' /\ ContractStep /\ Booked(db, db')
  <2>1. /\ db' = tx /\ req' = req /\ code' = code /\ tries' = tries
        /\ pc[t] = "commit" /\ pc'[t] = "answer"
        /\ \A u \in Threads : u # t => pc'[u] = pc[u] /\ pc[u] \notin {"work", "commit"}
    BY <1>0, <1>a, <1>4 DEF Commit
  <2>2. Served(db, tx, req[t], code[t])
    BY <1>0, <2>1
  <2>3. /\ Consistent(db') /\ ContractStep /\ Booked(db, db')
        /\ Honest(db'.log, req'[t], code'[t])
    BY <2>1, <2>2 DEF Served, ContractStep
  <2>4. ASSUME NEW u \in Threads, pc'[u] = "answer" PROVE Honest(db'.log, req'[u], code'[u])
    <3>1. CASE u = t BY <2>3, <3>1
    <3>2. CASE u # t
      <4>1. Honest(db.log, req[u], code[u]) /\ req'[u] = req[u] /\ code'[u] = code[u]
        BY <1>0, <2>1, <2>4, <3>2
      <4>2. db.log \in Seq(Entries)
        BY <1>0, Tables DEF TypeOK, ServerTypeOK
      <4>3. db'.log = db.log \/ \E e \in Entries : db'.log = Append(db.log, e)
        BY <2>3, <4>2, OneMore DEF ContractStep
      <4> QED BY <4>1, <4>2, <4>3, StaysHonest
    <3> QED BY <3>1, <3>2
  <2> QED BY <1>0, <2>1, <2>3, <2>4 DEF IInv
<1>5. ASSUME NEW t \in Threads, Answer(t) PROVE IInv' /\ db' = db
  BY <1>0, <1>a, <1>5 DEF Answer, Done, IInv, TypeOK, ServerTypeOK
<1>6. ASSUME NEW t \in Threads, Retry(t) PROVE IInv' /\ db' = db
  BY <1>0, <1>a, <1>6 DEF Retry, IInv, TypeOK, ServerTypeOK
<1>7. ASSUME NEW t \in Threads, Fail(t) PROVE IInv' /\ db' = db
  BY <1>0, <1>a, <1>7 DEF Fail, Done, IInv, TypeOK, ServerTypeOK
<1>8. CASE Crash
  <2>1. db' = db /\ \A t \in Threads : pc'[t] = "idle" /\ tries'[t] = 0
    BY <1>8 DEF Crash
  <2> QED BY <1>0, <1>b, <2>1 DEF IInv
<1>9. CASE UNCHANGED vars
  BY <1>0, <1>b, <1>9 DEF vars, IInv
<1> QED BY <1>b, <1>1, <1>2, <1>3, <1>4, <1>5, <1>6, <1>7, <1>8, <1>9 DEF Next, Step, Operation

(* The variables of a model-2 server keep their types, and at most one     *)
(* handler thread is inside a transaction.                                 *)
THEOREM Invariance == Spec => []TypeOK
<1>1. IInv /\ [Next]_vars => IInv'
  BY InvStep
<1>2. IInv => TypeOK
  BY DEF IInv
<1> QED BY InitInv, <1>1, <1>2, PTL DEF Spec

(* No answer of a model-2 server, at the moment it can be sent, says       *)
(* something the committed log does not bear out.                          *)
THEOREM AnswersTruthful == Spec => []Truthful
<1>1. IInv /\ [Next]_vars => IInv'
  BY InvStep
<1>2. IInv => Truthful
  BY DEF IInv, Truthful
<1> QED BY InitInv, <1>1, <1>2, PTL DEF Spec

(* A model-2 server implements LedgerContract: whatever the threads,       *)
(* retries and SIGKILLs, the committed log only grows by what the contract *)
(* allows, and what is available follows it.                               *)
THEOREM Implements == Spec => ImplementsContract
<1>1. Init => Contract!Init
  BY DEF Init, Contract!Init, Available
<1>2. IInv /\ [Next]_vars => [Contract!Next]_(Contract!vars)
  <2> SUFFICES ASSUME ContractStep PROVE [Contract!Next]_(Contract!vars)
    BY InvStep
  <2>0. Available(db)' = Available(db')
    BY DEF Available
  <2>1. CASE db'.log = db.log /\ Available(db') = Available(db)
    BY <2>0, <2>1 DEF Contract!vars
  <2>2. ASSUME NEW a \in Accounts, NEW n \in Amounts,
               Opens(db.log, Available(db), db'.log, Available(db'), a, n)
        PROVE  Contract!Next
    BY <2>0, <2>2
    DEF Opens, Contract!Next, Contract!Open, Opened, Contract!Opened, Entry, Contract!Entry
  <2>3. ASSUME NEW a \in Accounts, NEW n \in Amounts, NEW k \in Keys,
               TopsUp(db.log, Available(db), db'.log, Available(db'), a, n, k)
        PROVE  Contract!Next
    BY <2>0, <2>3
    DEF TopsUp, Contract!Next, Contract!TopUp, Opened, Contract!Opened, ToppedUp,
        Contract!ToppedUp, Entry, Contract!Entry
  <2>4. ASSUME NEW a \in Accounts, NEW n \in Amounts, NEW r \in Refs,
               Holds(db.log, Available(db), db'.log, Available(db'), a, n, r)
        PROVE  Contract!Next
    BY <2>0, <2>4
    DEF Holds, Contract!Next, Contract!Hold, Opened, Contract!Opened, Held, Contract!Held,
        HoldOf, Contract!HoldOf, Entry, Contract!Entry
  <2>5. ASSUME NEW r \in Refs, NEW i \in DOMAIN db.log, NEW kind \in {"charge", "release"},
               Ends(db.log, Available(db), db'.log, Available(db'), r, i, kind)
        PROVE  Contract!Next
    <3>1. CASE kind = "charge"
      BY <2>0, <2>5, <3>1
      DEF Ends, Contract!Next, Contract!Charge, Contract!End, HoldOf, Contract!HoldOf,
          EndedBy, Contract!EndedBy, Entry, Contract!Entry
    <3>2. CASE kind = "release"
      BY <2>0, <2>5, <3>2
      DEF Ends, Contract!Next, Contract!Release, Contract!End, HoldOf, Contract!HoldOf,
          EndedBy, Contract!EndedBy, Entry, Contract!Entry
    <3> QED BY <3>1, <3>2
  <2> QED BY <2>1, <2>2, <2>3, <2>4, <2>5 DEF ContractStep, Advances
<1>3. IInv /\ [Next]_vars => IInv'
  BY InvStep
<1> QED BY InitInv, <1>1, <1>2, <1>3, PTL DEF Spec, ImplementsContract, Contract!Spec
-----------------------------------------------------------------------------
(* The rows against a replay of the log.                                   *)

LEMMA CoversOneMore ==
  ASSUME NEW l \in Seq(Entries), NEW e \in Entries, NEW a, NEW f, NEW g, Covers(l, a, f),
         \A n \in 0..Len(l) : g[n] = f[n], g[Len(l) + 1] = f[Len(l)] + AvailableShare(e, a),
         e.kind = "hold" /\ e.account = a => g[Len(l) + 1] >= 0
  PROVE  Covers(Append(l, e), a, g)
<1> DEFINE m == Append(l, e)  k == Len(l)
<1>1. /\ k \in Nat /\ Len(m) = k + 1 /\ m[k + 1] = e
      /\ \A n \in 1..k : n \in DOMAIN l /\ m[n] = l[n]
  BY Grown
<1>2. /\ e.amount \in Int
      /\ e.kind \in Kinds
  BY AmountsAssumption DEF Entries
<1> HIDE DEF m
<1>3. /\ \A n \in 0..k : f[n] \in Int
      /\ \A n \in 1..k : l[n].kind = "hold" /\ l[n].account = a => f[n] >= 0
      /\ \A n \in 0..k : f[n] < 0 => \E i \in 1..n : l[i].account = a /\ l[i].amount < 0
  BY DEF Covers
<1> HIDE DEF k
<1>4. AvailableShare(e, a) \in Int
  BY <1>2 DEF AvailableShare, AvailableDelta, Kinds
<1>5. \A n \in 0..(k + 1) : n \in 0..k \/ n = k + 1
  BY <1>1
<1>0. k \in 0..k /\ \A n \in 0..k : g[n] = f[n]
  BY <1>1 DEF k
<1>a. g[k + 1] = f[k] + AvailableShare(e, a)
  BY DEF k
<1>6. \A n \in 0..(k + 1) : g[n] \in Int
  BY <1>0, <1>a, <1>3, <1>4, <1>5
<1>7. \A n \in 1..(k + 1) : m[n].kind = "hold" /\ m[n].account = a => g[n] >= 0
  <2>1. \A n \in 1..(k + 1) : (n \in 1..k /\ n \in 0..k) \/ n = k + 1
    BY <1>1
  <2>2. m[k + 1].kind = "hold" /\ m[k + 1].account = a => g[k + 1] >= 0
    BY <1>1 DEF k
  <2>3. \A n \in 1..k : n \in 0..k => (m[n].kind = "hold" /\ m[n].account = a => g[n] >= 0)
    BY <1>0, <1>1, <1>3
  <2> QED BY <2>1, <2>2, <2>3
<1>8. ASSUME NEW n \in 0..(k + 1), g[n] < 0
      PROVE  \E i \in 1..n : m[i].account = a /\ m[i].amount < 0
  <2>1. CASE n \in 0..k
    <3>1. PICK i \in 1..n : l[i].account = a /\ l[i].amount < 0
      BY <1>0, <1>3, <1>8, <2>1
    <3>2. i \in 1..k
      BY <1>1, <2>1
    <3> QED BY <1>1, <3>1, <3>2
  <2>2. CASE n = k + 1 /\ e.account = a /\ e.amount < 0
    <3>1. k + 1 \in 1..n
      BY <1>1, <2>2
    <3> QED BY <1>1, <2>2, <3>1
  <2>3. CASE n = k + 1 /\ ~(e.account = a /\ e.amount < 0)
    <3>1. f[k] < 0
      <4>1. CASE e.account # a
        BY <1>0, <1>3, <1>8, <1>a, <2>3, <4>1 DEF AvailableShare
      <4>2. CASE e.account = a /\ e.kind = "hold"
        <5>1. g[k + 1] >= 0
          BY <4>2 DEF k
        <5> QED BY <1>6, <1>8, <2>3, <5>1
      <4>3. CASE e.account = a /\ e.kind # "hold"
        <5>1. AvailableShare(e, a) >= 0
          BY <1>2, <2>3, <4>3 DEF AvailableShare, AvailableDelta, Kinds
        <5> QED BY <1>0, <1>3, <1>4, <1>8, <1>a, <2>3, <5>1
      <4> QED BY <4>1, <4>2, <4>3
    <3>2. PICK i \in 1..k : l[i].account = a /\ l[i].amount < 0
      BY <1>0, <1>3, <3>1
    <3>3. i \in 1..n
      BY <1>1, <2>3
    <3> QED BY <1>1, <3>2, <3>3
  <2> QED BY <1>5, <2>1, <2>2, <2>3
<1>9. Covers(m, a, g)
  BY ONLY <1>1, <1>6, <1>7, <1>8 DEF Covers
<1> QED BY <1>9 DEF m

(* One more entry, with what it adds, keeps the rows what a replay of the  *)
(* log computes.                                                           *)
LEMMA StillReconciled ==
  ASSUME NEW d \in Databases, NEW v \in Databases, Reconciled(d), NEW e \in Entries,
         v.log = Append(d.log, e), e.kind = "hold" => Available(v)[e.account] >= 0,
         \A a \in Accounts : /\ Available(v)[a] = Available(d)[a] + AvailableShare(e, a)
                             /\ Balance(v)[a] = Balance(d)[a] + BalanceShare(e, a)
  PROVE  Reconciled(v)
<1> DEFINE l == d.log  m == v.log
<1>1. l \in Seq(Entries) /\ m = Append(l, e) /\ Len(l) \in Nat /\ Len(m) = Len(l) + 1
  BY Tables
<1>2. ASSUME NEW a \in Accounts
      PROVE  /\ Covers(m, a, ReplayedAvailable(m, a))
             /\ ReplayedAvailable(m, a)[Len(m)] = Available(v)[a]
             /\ ReplayedBalance(m, a)[Len(m)] = Balance(v)[a]
  <2> DEFINE f == ReplayedAvailable(l, a)  g == ReplayedAvailable(m, a)
             p == ReplayedBalance(l, a)  q == ReplayedBalance(m, a)
  <2>1. /\ \A n \in 0..Len(l) : g[n] = f[n]
        /\ g[Len(l) + 1] = f[Len(l)] + AvailableShare(e, a)
        /\ q[Len(l) + 1] = p[Len(l)] + BalanceShare(e, a)
    <3> HIDE DEF l, m
    <3>1. \A n \in 0..Len(l) : ReplayedAvailable(m, a)[n] = ReplayedAvailable(l, a)[n]
      BY <1>1, ReplayKept
    <3>2. /\ ReplayedAvailable(m, a)[Len(l) + 1] =
               ReplayedAvailable(l, a)[Len(l)] + AvailableShare(e, a)
          /\ ReplayedBalance(m, a)[Len(l) + 1] =
               ReplayedBalance(l, a)[Len(l)] + BalanceShare(e, a)
      BY <1>1, ReplayOneMore
    <3> QED BY <3>1, <3>2
  <2>2. /\ Covers(l, a, f)
        /\ f[Len(l)] = Available(d)[a] /\ p[Len(l)] = Balance(d)[a]
    BY DEF Reconciled
  <2>3. Available(v)[a] = Available(d)[a] + AvailableShare(e, a)
    OBVIOUS
  <2>4. Balance(v)[a] = Balance(d)[a] + BalanceShare(e, a)
    OBVIOUS
  <2>5. e.kind = "hold" => Available(v)[e.account] >= 0
    OBVIOUS
  <2> HIDE DEF f, g, p, q, l, m
  <2>6. g[Len(m)] = Available(v)[a] /\ q[Len(m)] = Balance(v)[a]
    BY ONLY <1>1, <2>1, <2>2, <2>3, <2>4
  <2>7. e.kind = "hold" /\ e.account = a => g[Len(l) + 1] >= 0
    BY ONLY <1>1, <2>5, <2>6
  <2>8. Covers(m, a, g)
    BY ONLY <1>1, <2>1, <2>2, <2>7, e \in Entries, CoversOneMore
  <2> QED BY <2>6, <2>8 DEF f, g, p, q, l, m
<1> QED BY <1>2 DEF Reconciled

LEMMA ReconcilesInit == Init => Reconciled(db)
<1> SUFFICES ASSUME Init, NEW a \in Accounts
             PROVE  /\ Covers(db.log, a, ReplayedAvailable(db.log, a))
                    /\ ReplayedAvailable(db.log, a)[Len(db.log)] = Available(db)[a]
                    /\ ReplayedBalance(db.log, a)[Len(db.log)] = Balance(db)[a]
  BY DEF Reconciled
<1>1. db.log = <<>> /\ Len(db.log) = 0 /\ db.account = [b \in Accounts |-> None]
  BY DEF Init
<1>2. Available(db)[a] = 0 /\ Balance(db)[a] = 0
  BY <1>1 DEF Available, Balance
<1>3. ReplayedAvailable(db.log, a)[0] = 0 /\ ReplayedBalance(db.log, a)[0] = 0
  BY <1>1, ReplayNothing
<1>4. Covers(db.log, a, ReplayedAvailable(db.log, a))
  BY <1>1, <1>3 DEF Covers
<1> QED BY <1>1, <1>2, <1>3, <1>4

(* What is available is a number, and zero for an account that is not open.*)
LEMMA Tally ==
  ASSUME IInv
  PROVE  /\ db \in Databases /\ db.log \in Seq(Entries) /\ Available(db) \in [Accounts -> Int]
         /\ \A a \in Accounts : ~Opened(db.log, a) => Available(db)[a] = 0
<1>1. db \in Databases /\ Consistent(db)
  BY DEF IInv, TypeOK, ServerTypeOK
<1>2. db.log \in Seq(Entries) /\ Available(db) \in [Accounts -> Int]
  BY <1>1, Tables, Numbers
<1>3. ASSUME NEW a \in Accounts, ~Opened(db.log, a) PROVE Available(db)[a] = 0
  BY <1>1, <1>3 DEF Consistent, Available
<1> QED BY <1>1, <1>2, <1>3

(* What a step appends.                                                    *)
LEMMA StepAppends ==
  ASSUME IInv, [Next]_vars
  PROVE  \/ db'.log = db.log /\ Available(db') = Available(db)
         \/ \E e \in Entries :
              /\ db'.log = Append(db.log, e) /\ Lawful(db.log, e)
              /\ \A a \in Accounts : Available(db')[a] = Available(db)[a] + AvailableShare(e, a)
              /\ e.kind = "hold" => Available(db')[e.account] >= 0
<1>1. Advances(db.log, Available(db), db'.log, Available(db'))
  BY InvStep DEF ContractStep
<1>2. /\ db.log \in Seq(Entries) /\ Available(db) \in [Accounts -> Int]
      /\ \A a \in Accounts : ~Opened(db.log, a) => Available(db)[a] = 0
  BY Tally
<1> QED BY ONLY <1>1, <1>2, AdvanceBy

LEMMA ReconcilesStep == IInv /\ Reconciled(db) /\ [Next]_vars => Reconciled(db')
<1> SUFFICES ASSUME IInv, Reconciled(db), [Next]_vars PROVE Reconciled(db')
  OBVIOUS
<1>1. /\ db \in Databases /\ db.log \in Seq(Entries) /\ db' \in Databases
      /\ Booked(db, db')
  <2>1. IInv'
    BY InvStep
  <2> QED BY <2>1, Tally, InvStep DEF IInv, TypeOK, ServerTypeOK
<1>2. CASE db'.log = db.log /\ Available(db') = Available(db)
  <2>1. Balance(db') = Balance(db)
    <3>1. \A e \in Entries : db'.log # Append(db.log, e)
      BY <1>1, <1>2, Grown
    <3> QED BY <1>1, <3>1 DEF Booked
  <2> QED BY <1>2, <2>1 DEF Reconciled
<1>3. ASSUME NEW e \in Entries, db'.log = Append(db.log, e),
             \A a \in Accounts : Available(db')[a] = Available(db)[a] + AvailableShare(e, a),
             e.kind = "hold" => Available(db')[e.account] >= 0
      PROVE  Reconciled(db')
  <2>1. \A a \in Accounts : Balance(db')[a] = Balance(db)[a] + BalanceShare(e, a)
    <3>1. \A f \in Entries : db'.log = Append(db.log, f) => f = e
      <4>1. \A f \in Entries : Append(db.log, f)[Len(db.log) + 1] = f
        BY <1>1, Grown
      <4> QED BY <1>3, <4>1
    <3>2. db'.log # db.log
      BY <1>1, <1>3, Grown
    <3> QED BY <1>1, <3>1, <3>2 DEF Booked
  <2> HIDE DEF Databases, Reconciled
  <2> QED BY ONLY <1>1, <1>3, <2>1, e \in Entries, Reconciled(db), StillReconciled
<1> QED BY <1>2, <1>3, StepAppends

LEMMA InvariantStep == IInv /\ Reconciled(db) /\ [Next]_vars => IInv' /\ Reconciled(db)'
<1>1. Reconciled(db)' <=> Reconciled(db')
  BY DEF Reconciled
<1> QED BY <1>1, InvStep, ReconcilesStep

(* Whatever the threads, retries and SIGKILLs, and whatever the amounts,   *)
(* the balance and what is available in an account's row are those a       *)
(* replay of the log computes; no hold leaves a prefix overdrawn, and only *)
(* an entry with a negative amount does.                                   *)
THEOREM Reconciliation == Spec => []Reconciles
<1>1. IInv /\ Reconciled(db) => Reconciles
  <2> SUFFICES ASSUME Reconciled(db), NEW a \in Accounts
               PROVE  /\ \A n \in 1..Len(db.log) :
                           db.log[n].kind = "hold" /\ db.log[n].account = a =>
                             ReplayedAvailable(db.log, a)[n] >= 0
                      /\ \A n \in 0..Len(db.log) :
                           ReplayedAvailable(db.log, a)[n] < 0 =>
                             \E i \in 1..n : db.log[i].account = a /\ db.log[i].amount < 0
                      /\ ReplayedAvailable(db.log, a)[Len(db.log)] = Available(db)[a]
                      /\ db.account[a] # None =>
                           ReplayedBalance(db.log, a)[Len(db.log)] = db.account[a].balance
    BY Zenon DEF Reconciles, ReplayedAvailable, ReplayedBalance
  <2> QED BY DEF Reconciled, Covers, Balance
<1>2. Init => IInv /\ Reconciled(db)
  BY InitInv, ReconcilesInit
<1>3. IInv /\ Reconciled(db) /\ [Next]_vars => IInv' /\ Reconciled(db)'
  BY InvariantStep
<1> QED BY <1>1, <1>2, <1>3, PTL DEF Spec
-----------------------------------------------------------------------------
(* What follows for the committed log from the steps the contract allows.  *)

LEMMA StepGrows ==
  ASSUME IInv, NEW e \in Entries, db'.log = Append(db.log, e)
  PROVE  /\ Len(db.log) + 1 \notin DOMAIN db.log /\ db'.log[Len(db.log) + 1] = e
         /\ DOMAIN db'.log = DOMAIN db.log \cup {Len(db.log) + 1}
         /\ \A i \in DOMAIN db.log : db'.log[i] = db.log[i] /\ i < Len(db.log) + 1
<1>1. db.log \in Seq(Entries)
  BY Tally
<1>2. \A i \in DOMAIN db.log : i < Len(db.log) + 1
  BY <1>1
<1> QED BY <1>1, <1>2, Grown

(* However many holds race for an account, only an entry with a negative  *)
(* amount has ever taken what is available below zero.                     *)
THEOREM NeverOverdrawn == Spec => []Contract!NeverOverdraws
<1>1. IInv /\ Reconciled(db) => Contract!NeverOverdraws
  <2> SUFFICES ASSUME IInv, Reconciled(db), NEW a \in Accounts, Available(db)[a] < 0
               PROVE  \E i \in DOMAIN db.log : db.log[i].account = a /\ db.log[i].amount < 0
    BY DEF Contract!NeverOverdraws
  <2>1. Len(db.log) \in 0..Len(db.log) /\ DOMAIN db.log = 1..Len(db.log)
    BY Tally
  <2> QED BY <2>1 DEF Reconciled, Covers
<1>2. Init => IInv /\ Reconciled(db)
  BY InitInv, ReconcilesInit
<1>3. IInv /\ Reconciled(db) /\ [Next]_vars => IInv' /\ Reconciled(db)'
  BY InvariantStep
<1> QED BY <1>1, <1>2, <1>3, PTL DEF Spec

(* Entries are never changed or removed, whatever crashes in between.      *)
THEOREM Appends == Spec => Contract!AppendOnly
<1>1. IInv /\ [Next]_vars =>
        [\A i \in DOMAIN db.log :
           i \in DOMAIN (db.log)' /\ (db.log)'[i] = db.log[i]]_(Contract!vars)
  <2> SUFFICES ASSUME IInv, [Next]_vars, ~UNCHANGED Contract!vars,
                      NEW i \in DOMAIN db.log
               PROVE  i \in DOMAIN db'.log /\ db'.log[i] = db.log[i]
    OBVIOUS
  <2>1. CASE db'.log = db.log
    BY <2>1
  <2>2. ASSUME NEW e \in Entries, db'.log = Append(db.log, e)
        PROVE  i \in DOMAIN db'.log /\ db'.log[i] = db.log[i]
    BY <2>2, StepGrows
  <2> QED BY <2>1, <2>2, StepAppends
<1>2. IInv /\ [Next]_vars => IInv'
  BY InvStep
<1> QED BY InitInv, <1>1, <1>2, PTL DEF Spec, Contract!AppendOnly

(* Per reference at most one hold and, after it, at most one charge or     *)
(* release of it, with its account and its amount.                         *)
THEOREM EndsOnce == Spec => []Contract!OneTerminal
<1>1. Init => Contract!OneTerminal
  BY DEF Init, Contract!OneTerminal
<1>2. IInv /\ Contract!OneTerminal /\ [Next]_vars => Contract!OneTerminal'
  <2> SUFFICES ASSUME IInv, Contract!OneTerminal, [Next]_vars
               PROVE  Contract!OneTerminal'
    OBVIOUS
  <2>1. CASE db'.log = db.log
    BY <2>1 DEF Contract!OneTerminal, Contract!HoldOf
  <2>2. ASSUME NEW e \in Entries, db'.log = Append(db.log, e), Lawful(db.log, e)
        PROVE  Contract!OneTerminal'
    <3>1. /\ Len(db.log) + 1 \notin DOMAIN db.log /\ db'.log[Len(db.log) + 1] = e
          /\ DOMAIN db'.log = DOMAIN db.log \cup {Len(db.log) + 1}
          /\ \A i \in DOMAIN db.log : db'.log[i] = db.log[i] /\ i < Len(db.log) + 1
      BY <2>2, StepGrows
    <3>2. ASSUME NEW i \in DOMAIN db'.log, NEW j \in DOMAIN db'.log, db'.log[i].kind = "hold",
                 db'.log[j].kind = "hold", db'.log[i].ref = db'.log[j].ref
          PROVE  i = j
      BY <2>2, <3>1, <3>2 DEF Contract!OneTerminal, Lawful, Held, HoldOf
    <3>3. ASSUME NEW i \in DOMAIN db'.log, NEW j \in DOMAIN db'.log,
                 db'.log[i].kind \in {"charge", "release"},
                 db'.log[j].kind \in {"charge", "release"}, db'.log[i].ref = db'.log[j].ref
          PROVE  i = j
      BY <2>2, <3>1, <3>3 DEF Contract!OneTerminal, Lawful, EndedBy
    <3>4. ASSUME NEW i \in DOMAIN db'.log, db'.log[i].kind \in {"charge", "release"}
          PROVE  \E h \in DOMAIN db'.log : /\ h < i /\ HoldOf(db'.log, db'.log[i].ref, h)
                                           /\ db'.log[h].account = db'.log[i].account
                                           /\ db'.log[h].amount = db'.log[i].amount
      <4>1. CASE i \in DOMAIN db.log
        BY <3>1, <3>4, <4>1 DEF Contract!OneTerminal, HoldOf, Contract!HoldOf
      <4>2. CASE i = Len(db.log) + 1
        BY <2>2, <3>1, <3>4, <4>2 DEF Lawful, HoldOf
      <4> QED BY <3>1, <4>1, <4>2
    <3> QED BY <3>2, <3>3, <3>4 DEF Contract!OneTerminal, HoldOf, Contract!HoldOf
  <2> QED BY <2>1, <2>2, StepAppends
<1>3. IInv /\ [Next]_vars => IInv'
  BY InvStep
<1> QED BY InitInv, <1>1, <1>2, <1>3, PTL DEF Spec

(* A repeated or retried request never applies twice: no account is opened *)
(* by two entries, and no key has two top-ups.                             *)
THEOREM AppliesOnce == Spec => []Contract!AppliedOnce
<1>1. Init => Contract!AppliedOnce
  BY DEF Init, Contract!AppliedOnce
<1>2. IInv /\ Contract!AppliedOnce /\ [Next]_vars => Contract!AppliedOnce'
  <2> SUFFICES ASSUME IInv, Contract!AppliedOnce, [Next]_vars
               PROVE  Contract!AppliedOnce'
    OBVIOUS
  <2>1. CASE db'.log = db.log
    BY <2>1 DEF Contract!AppliedOnce
  <2>2. ASSUME NEW e \in Entries, db'.log = Append(db.log, e), Lawful(db.log, e)
        PROVE  Contract!AppliedOnce'
    <3>1. /\ db'.log[Len(db.log) + 1] = e
          /\ DOMAIN db'.log = DOMAIN db.log \cup {Len(db.log) + 1}
          /\ \A i \in DOMAIN db.log : db'.log[i] = db.log[i]
      BY <2>2, StepGrows
    <3> QED BY <2>2, <3>1 DEF Contract!AppliedOnce, Lawful, Opened, ToppedUp
  <2> QED BY <2>1, <2>2, StepAppends
<1>3. IInv /\ [Next]_vars => IInv'
  BY InvStep
<1> QED BY InitInv, <1>1, <1>2, <1>3, PTL DEF Spec
=============================================================================

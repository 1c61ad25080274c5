------------------------------- MODULE Ledger2 ------------------------------
(***************************************************************************)
(* The operations of mini-ledger/submissions/model-2/ledger.  An account's *)
(* row keeps its balance and what is available, a hold ends as `charged'   *)
(* or `released', and nothing is tried twice (MaxTries = 1).  Amounts are  *)
(* not validated: zero and negative ones are taken as they come.           *)
(***************************************************************************)
EXTENDS LedgerServer

AccountRow == [balance : Int, available : Int]
HoldRow    == [account : Accounts, amount : Amounts, status : {"open", "charged", "released"}]
Databases  == [account : [Accounts -> AccountRow \cup {None}],
               hold : [Refs -> HoldRow \cup {None}], topup : SUBSET Keys, log : Seq(Entries)]

ASSUME RowsAssumption == None \notin AccountRow \cup HoldRow

CreateAccount(t) ==
  LET a == req[t].account  n == req[t].amount IN
  /\ Doing(t, "account")
  /\ IF tx.account[a] # None
     THEN Return(t, 200, tx)
     ELSE Return(t, 200, [Appended(tx, "account_open", a, n, None, None) EXCEPT
                            !.account[a] = [balance |-> n, available |-> n]])

(* Mutant: the key is not looked up, so a retried top-up counts again.     *)
TopupAgain(t) ==
  LET a == req[t].account  n == req[t].amount  k == req[t].key IN
  /\ Doing(t, "topup")
  /\ \/ tx.account[a] = None /\ Return(t, 404, tx)
     \/ /\ tx.account[a] # None
        /\ Return(t, 200, [Appended(tx, "topup", a, n, None, k) EXCEPT
                             !.topup = @ \cup {k},
                             !.account[a] = [balance |-> @.balance + n,
                                             available |-> @.available + n]])

Topup(t) ==
  LET a == req[t].account  n == req[t].amount  k == req[t].key IN
  /\ Doing(t, "topup")
  /\ \/ tx.account[a] = None /\ Return(t, 404, tx)
     \/ tx.account[a] # None /\ k \in tx.topup /\ Return(t, 200, tx)
     \/ /\ tx.account[a] # None /\ k \notin tx.topup
        /\ Return(t, 200, [Appended(tx, "topup", a, n, None, k) EXCEPT
                             !.topup = @ \cup {k},
                             !.account[a] = [balance |-> @.balance + n,
                                             available |-> @.available + n]])

Hold(t) ==
  LET a == req[t].account  n == req[t].amount  r == req[t].ref
      h == tx.hold[r]  row == tx.account[a]
  IN
  /\ Doing(t, "hold")
  /\ \/ h # None /\ h.account = a /\ h.amount = n /\ Return(t, 200, tx)
     \/ h # None /\ ~(h.account = a /\ h.amount = n) /\ Return(t, 409, tx)
     \/ h = None /\ row = None /\ Return(t, 404, tx)
     \/ h = None /\ row # None /\ row.available < n /\ Return(t, 409, tx)
     \/ /\ h = None /\ row # None /\ row.available >= n
        /\ Return(t, 200, [Appended(tx, "hold", a, n, r, None) EXCEPT
                             !.hold[r] = [account |-> a, amount |-> n, status |-> "open"],
                             !.account[a].available = @ - n])

(* Mutant: a charge gives what it charges back to the available credits.   *)
ChargeFrees(t) ==
  LET r == req[t].ref  h == tx.hold[r] IN
  /\ Doing(t, "charge")
  /\ \/ h = None /\ Return(t, 404, tx)
     \/ h # None /\ h.status = "charged" /\ Return(t, 200, tx)
     \/ h # None /\ h.status = "released" /\ Return(t, 409, tx)
     \/ /\ h # None /\ h.status = "open"
        /\ Return(t, 200, [Appended(tx, "charge", h.account, h.amount, r, None) EXCEPT
                             !.hold[r].status = "charged",
                             !.account[h.account] = [balance |-> @.balance - h.amount,
                                                     available |-> @.available + h.amount]])

Charge(t) ==
  LET r == req[t].ref  h == tx.hold[r] IN
  /\ Doing(t, "charge")
  /\ \/ h = None /\ Return(t, 404, tx)
     \/ h # None /\ h.status = "charged" /\ Return(t, 200, tx)
     \/ h # None /\ h.status = "released" /\ Return(t, 409, tx)
     \/ /\ h # None /\ h.status = "open"
        /\ Return(t, 200, [Appended(tx, "charge", h.account, h.amount, r, None) EXCEPT
                             !.hold[r].status = "charged",
                             !.account[h.account].balance = @ - h.amount])

(* Mutant: a release of a charged hold is answered like a replay.          *)
ReleaseCharged(t) ==
  LET r == req[t].ref  h == tx.hold[r] IN
  /\ Doing(t, "release")
  /\ \/ h = None /\ Return(t, 404, tx)
     \/ h # None /\ h.status # "open" /\ Return(t, 200, tx)
     \/ /\ h # None /\ h.status = "open"
        /\ Return(t, 200, [Appended(tx, "release", h.account, h.amount, r, None) EXCEPT
                             !.hold[r].status = "released",
                             !.account[h.account].available = @ + h.amount])

Release(t) ==
  LET r == req[t].ref  h == tx.hold[r] IN
  /\ Doing(t, "release")
  /\ \/ h = None /\ Return(t, 404, tx)
     \/ h # None /\ h.status = "released" /\ Return(t, 200, tx)
     \/ h # None /\ h.status = "charged" /\ Return(t, 409, tx)
     \/ /\ h # None /\ h.status = "open"
        /\ Return(t, 200, [Appended(tx, "release", h.account, h.amount, r, None) EXCEPT
                             !.hold[r].status = "released",
                             !.account[h.account].available = @ + h.amount])

Step(t) ==
  \/ Begin(t)
  \/ CreateAccount(t) \/ Topup(t) \/ Hold(t) \/ Charge(t) \/ Release(t)
  \/ Commit(t)
  \/ Answer(t)

Next ==
  \/ \E t \in Threads : Step(t) \/ Retry(t) \/ Fail(t) \/ \E r \in Requests : Receive(t, r)
  \/ Crash

Spec == Init /\ [][Next]_vars

(* A handler thread is scheduled, and gets the write lock in the end.      *)
FairSpec == Spec /\ \A t \in Threads : SF_vars(Step(t))

-----------------------------------------------------------------------------
(* Correctness                                                             *)

Available(d) == [a \in Accounts |-> IF d.account[a] = None THEN 0 ELSE d.account[a].available]

Contract == INSTANCE LedgerContract WITH log <- db.log, available <- Available(db)

(* Every variable has its type.                                            *)
TypeOK == ServerTypeOK(Databases)

(* GET /account agrees with GET /ledger: the balance and what is available *)
(* are those a replay of the log computes.  At every prefix, a hold left   *)
(* its account with nothing overdrawn, and only an entry with a negative   *)
(* amount takes one below zero.                                            *)
Reconciles ==
  \A a \in Accounts :
    LET available == Replay(db.log, a, AvailableDelta)
        balance   == Replay(db.log, a, BalanceDelta)
        last      == Len(db.log)
    IN /\ \A n \in 1..last :
            db.log[n].kind = "hold" /\ db.log[n].account = a => available[n] >= 0
       /\ \A n \in 0..last :
            available[n] < 0 =>
              \E i \in 1..n : db.log[i].account = a /\ db.log[i].amount < 0
       /\ available[last] = Available(db)[a]
       /\ db.account[a] # None => balance[last] = db.account[a].balance

(* The log only grows, and only by entries the log so far allows: no hold  *)
(* of more than is available, one hold and one terminal per reference,     *)
(* each key once.                                                          *)
ImplementsContract == Contract!Spec
=============================================================================

------------------------------- MODULE Ledger1 ------------------------------
(***************************************************************************)
(* The operations of mini-ledger/submissions/model-1/ledger.  An account's *)
(* row keeps its balance and what is held, and a hold ends as `charge' or  *)
(* `release'.  Amounts have to be positive.                                *)
(***************************************************************************)
EXTENDS LedgerServer

AccountRow == [balance : Int, held : Int]
HoldRow    == [account : Accounts, amount : Amounts, status : {"open", "charge", "release"}]
Databases  == [account : [Accounts -> AccountRow \cup {None}],
               hold : [Refs -> HoldRow \cup {None}], topup : SUBSET Keys, log : Seq(Entries)]

ASSUME RowsAssumption == None \notin AccountRow \cup HoldRow

(* Others are answered 400 before any transaction, and change nothing.     *)
WellFormed == {r \in Requests : r.op \in {"account", "topup", "hold"} => r.amount > 0}

OpAccount(t) ==
  LET a == req[t].account  n == req[t].amount IN
  /\ Doing(t, "account")
  /\ IF tx.account[a] # None
     THEN Return(t, 200, tx)
     ELSE Return(t, 200, [Appended(tx, "account_open", a, n, None, None) EXCEPT
                            !.account[a] = [balance |-> n, held |-> 0]])

OpTopup(t) ==
  LET a == req[t].account  n == req[t].amount  k == req[t].key IN
  /\ Doing(t, "topup")
  /\ \/ tx.account[a] = None /\ Return(t, 404, tx)
     \/ tx.account[a] # None /\ k \in tx.topup /\ Return(t, 200, tx)
     \/ /\ tx.account[a] # None /\ k \notin tx.topup
        /\ Return(t, 200, [Appended(tx, "topup", a, n, None, k) EXCEPT
                             !.topup = @ \cup {k}, !.account[a].balance = @ + n])

(* Mutant: funds on hold count as available.                               *)
OpHoldBalance(t) ==
  LET a == req[t].account  n == req[t].amount  r == req[t].ref  h == tx.hold[r] IN
  /\ Doing(t, "hold")
  /\ \/ h # None /\ h.account = a /\ h.amount = n /\ Return(t, 200, tx)
     \/ h # None /\ ~(h.account = a /\ h.amount = n) /\ Return(t, 409, tx)
     \/ h = None /\ tx.account[a] = None /\ Return(t, 404, tx)
     \/ h = None /\ tx.account[a] # None /\ tx.account[a].balance < n /\ Return(t, 409, tx)
     \/ /\ h = None /\ tx.account[a] # None /\ tx.account[a].balance >= n
        /\ Return(t, 200, [Appended(tx, "hold", a, n, r, None) EXCEPT
                             !.hold[r] = [account |-> a, amount |-> n, status |-> "open"],
                             !.account[a].held = @ + n])

OpHold(t) ==
  LET a == req[t].account  n == req[t].amount  r == req[t].ref
      h == tx.hold[r]  row == tx.account[a]
  IN
  /\ Doing(t, "hold")
  /\ \/ h # None /\ h.account = a /\ h.amount = n /\ Return(t, 200, tx)
     \/ h # None /\ ~(h.account = a /\ h.amount = n) /\ Return(t, 409, tx)
     \/ h = None /\ row = None /\ Return(t, 404, tx)
     \/ h = None /\ row # None /\ row.balance - row.held < n /\ Return(t, 409, tx)
     \/ /\ h = None /\ row # None /\ row.balance - row.held >= n
        /\ Return(t, 200, [Appended(tx, "hold", a, n, r, None) EXCEPT
                             !.hold[r] = [account |-> a, amount |-> n, status |-> "open"],
                             !.account[a].held = @ + n])

(* A charge takes the amount from the balance too, a release only lifts    *)
(* the hold.                                                               *)
Settled(row, n, kind) == [balance |-> IF kind = "charge" THEN row.balance - n ELSE row.balance,
                          held |-> row.held - n]

(* Mutant: a hold that ended the other way is ended again.                 *)
OpTerminalTwice(t, kind) ==
  LET r == req[t].ref  h == tx.hold[r] IN
  /\ Doing(t, kind)
  /\ \/ h = None /\ Return(t, 404, tx)
     \/ h # None /\ h.status = kind /\ Return(t, 200, tx)
     \/ /\ h # None /\ h.status # kind
        /\ Return(t, 200, [Appended(tx, kind, h.account, h.amount, r, None) EXCEPT
                             !.hold[r].status = kind,
                             !.account[h.account] = Settled(@, h.amount, kind)])

(* Mutant: whichever way the hold ended, the answer is that of a replay.   *)
OpTerminalAnyEnd(t, kind) ==
  LET r == req[t].ref  h == tx.hold[r] IN
  /\ Doing(t, kind)
  /\ \/ h = None /\ Return(t, 404, tx)
     \/ h # None /\ h.status # "open" /\ Return(t, 200, tx)
     \/ /\ h # None /\ h.status = "open"
        /\ Return(t, 200, [Appended(tx, kind, h.account, h.amount, r, None) EXCEPT
                             !.hold[r].status = kind,
                             !.account[h.account] = Settled(@, h.amount, kind)])

OpTerminal(t, kind) ==
  LET r == req[t].ref  h == tx.hold[r] IN
  /\ Doing(t, kind)
  /\ \/ h = None /\ Return(t, 404, tx)
     \/ h # None /\ h.status = kind /\ Return(t, 200, tx)
     \/ h # None /\ h.status \notin {kind, "open"} /\ Return(t, 409, tx)
     \/ /\ h # None /\ h.status = "open"
        /\ Return(t, 200, [Appended(tx, kind, h.account, h.amount, r, None) EXCEPT
                             !.hold[r].status = kind,
                             !.account[h.account] = Settled(@, h.amount, kind)])

Operation(t) ==
  \/ OpAccount(t)
  \/ OpTopup(t)
  \/ OpHold(t)
  \/ \E kind \in {"charge", "release"} : OpTerminal(t, kind)

Step(t) == Begin(t) \/ Operation(t) \/ Commit(t) \/ Answer(t)

Next ==
  \/ \E t \in Threads : Step(t) \/ Retry(t) \/ Fail(t) \/ \E r \in WellFormed : Receive(t, r)
  \/ Crash

Spec == Init /\ [][Next]_vars

(* A handler thread is scheduled, and gets the write lock in the end.      *)
FairSpec == Spec /\ \A t \in Threads : SF_vars(Step(t))

-----------------------------------------------------------------------------
(* Correctness                                                             *)

Available(d) == [a \in Accounts |-> IF d.account[a] = None THEN 0
                                    ELSE d.account[a].balance - d.account[a].held]

Contract == INSTANCE LedgerContract WITH log <- db.log, available <- Available(db)

(* Every variable has its type.                                            *)
TypeOK == ServerTypeOK(Databases)

(* GET /account agrees with GET /ledger: the balance and what is available *)
(* are those a replay of the log computes, and at no prefix of the log was *)
(* an account overdrawn.                                                   *)
Reconciles ==
  \A a \in Accounts :
    LET available == Replay(db.log, a, AvailableDelta)
        balance   == Replay(db.log, a, BalanceDelta)
        last      == Len(db.log)
    IN /\ \A n \in 0..last : available[n] >= 0
       /\ available[last] = Available(db)[a]
       /\ db.account[a] # None => balance[last] = db.account[a].balance

(* The log only grows, and only by entries the log so far allows: no hold  *)
(* of more than is available, one hold and one terminal per reference,     *)
(* each key once.                                                          *)
ImplementsContract == Contract!Spec
=============================================================================

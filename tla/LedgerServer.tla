---------------------------- MODULE LedgerServer ----------------------------
(***************************************************************************)
(* What the two submissions of mini-ledger have in common: handler threads *)
(* that each run an operation in a BEGIN IMMEDIATE transaction on a shared *)
(* SQLite database, for clients that repeat requests, race them and may    *)
(* lose an answer to a SIGKILL.                                            *)
(*                                                                         *)
(* A transaction reads and writes its own view `tx' of the database, which *)
(* its COMMIT makes the committed state `db'; whatever ends it before that *)
(* leaves `db' alone.  Ledger1 and Ledger2 define the tables' rows and the *)
(* operations.                                                             *)
(***************************************************************************)
EXTENDS LedgerLog

CONSTANTS
  Requests,   \* the requests clients send
  Threads,    \* handler threads of the ThreadingHTTPServer
  MaxTries,   \* transactions an operation may begin: 5 in model-1, 1 in model-2
  MaxCrashes  \* bound: SIGKILLs in a behaviour

Request(op, a, n, r, k) == [op |-> op, account |-> a, amount |-> n, ref |-> r, key |-> k]

AllRequests ==
  {Request("account", a, n, None, None) : a \in Accounts, n \in Amounts}
  \cup {Request("topup", a, n, None, k) : a \in Accounts, n \in Amounts, k \in Keys}
  \cup {Request("hold", a, n, r, None) : a \in Accounts, n \in Amounts, r \in Refs}
  \cup {Request(op, None, None, r, None) : op \in {"charge", "release"}, r \in Refs}

ASSUME RequestsAssumption == Requests \subseteq AllRequests /\ None \notin Requests
ASSUME ThreadsAssumption  == None \notin Threads
ASSUME BoundsAssumption   == MaxTries \in Nat \ {0} /\ MaxCrashes \in Nat

VARIABLES
  db,      \* committed: the tables account, hold, topup (keys used) and log
  tx,      \* what the open transaction sees, or None
  writer,  \* the thread inside a transaction, or None
  pc,      \* where each thread is
  req,     \* the request each thread handles
  code,    \* the status each thread will answer
  tries,   \* transactions each thread has begun for its request
  crashes  \* SIGKILLs so far

vars == <<db, tx, writer, pc, req, code, tries, crashes>>

Init ==
  /\ db = [account |-> [a \in Accounts |-> None], hold |-> [r \in Refs |-> None],
           topup |-> {}, log |-> <<>>]
  /\ tx = None
  /\ writer = None
  /\ pc = [t \in Threads |-> "idle"]
  /\ req = [t \in Threads |-> None]
  /\ code = [t \in Threads |-> None]
  /\ tries = [t \in Threads |-> 0]
  /\ crashes = 0

Receive(t, r) ==
  /\ pc[t] = "idle"
  /\ pc' = [pc EXCEPT ![t] = "begin"]
  /\ req' = [req EXCEPT ![t] = r]
  /\ UNCHANGED <<db, tx, writer, code, tries, crashes>>

(* Mutant: BEGIN without IMMEDIATE, writing back what an old read decided. *)
BeginDeferred(t) ==
  /\ pc[t] = "begin"
  /\ writer' = t
  /\ tx' = db
  /\ tries' = [tries EXCEPT ![t] = @ + 1]
  /\ pc' = [pc EXCEPT ![t] = "work"]
  /\ UNCHANGED <<db, req, code, crashes>>

(* BEGIN IMMEDIATE waits for the database's only writer.                   *)
Begin(t) ==
  /\ pc[t] = "begin" /\ writer = None
  /\ writer' = t
  /\ tx' = db
  /\ tries' = [tries EXCEPT ![t] = @ + 1]
  /\ pc' = [pc EXCEPT ![t] = "work"]
  /\ UNCHANGED <<db, req, code, crashes>>

Doing(t, op) == pc[t] = "work" /\ req[t].op = op

(* The operation's function returns status c and leaves the view as v.     *)
Return(t, c, v) ==
  /\ tx' = v
  /\ code' = [code EXCEPT ![t] = c]
  /\ pc' = [pc EXCEPT ![t] = "commit"]
  /\ UNCHANGED <<db, writer, req, tries, crashes>>

Commit(t) ==
  /\ pc[t] = "commit"
  /\ db' = tx
  /\ tx' = None
  /\ writer' = None
  /\ pc' = [pc EXCEPT ![t] = "answer"]
  /\ UNCHANGED <<req, code, tries, crashes>>

Done(t) ==
  /\ pc' = [pc EXCEPT ![t] = "idle"]
  /\ req' = [req EXCEPT ![t] = None]
  /\ code' = [code EXCEPT ![t] = None]
  /\ tries' = [tries EXCEPT ![t] = 0]

Answer(t) ==
  /\ pc[t] = "answer"
  /\ Done(t)
  /\ UNCHANGED <<db, tx, writer, crashes>>

(* A constraint is violated: rolled back and, in model-1, tried again.     *)
Retry(t) ==
  /\ pc[t] \in {"work", "commit"} /\ tries[t] < MaxTries
  /\ tx' = None
  /\ writer' = None
  /\ pc' = [pc EXCEPT ![t] = "begin"]
  /\ code' = [code EXCEPT ![t] = None]
  /\ UNCHANGED <<db, req, tries, crashes>>

(* Mutant: a failed operation is not rolled back.                          *)
FailOpen(t) ==
  /\ pc[t] \in {"begin", "work", "commit"}
  /\ Done(t)
  /\ UNCHANGED <<db, tx, writer, crashes>>

(* Any other error, or the database busy for 30 s: rolled back, 500.       *)
Fail(t) ==
  /\ pc[t] \in {"begin", "work", "commit"}
  /\ IF writer = t THEN tx' = None /\ writer' = None ELSE UNCHANGED <<tx, writer>>
  /\ Done(t)
  /\ UNCHANGED <<db, crashes>>

(* SIGKILL and restart: open transactions and unsent answers are gone.     *)
Crash ==
  /\ crashes < MaxCrashes
  /\ crashes' = crashes + 1
  /\ tx' = None
  /\ writer' = None
  /\ pc' = [t \in Threads |-> "idle"]
  /\ req' = [t \in Threads |-> None]
  /\ code' = [t \in Threads |-> None]
  /\ tries' = [t \in Threads |-> 0]
  /\ UNCHANGED db

(* v with one more entry in its log.                                       *)
Appended(v, kind, a, n, r, k) == [v EXCEPT !.log = Append(@, Entry(kind, a, n, r, k))]

-----------------------------------------------------------------------------
(* Correctness                                                             *)

(* The variables the two servers share have their types, with Databases    *)
(* what the tables may hold, and only the writer has a transaction.        *)
ServerTypeOK(Databases) ==
  /\ db \in Databases
  /\ writer \in Threads \cup {None}
  /\ IF writer = None THEN tx = None ELSE tx \in Databases
  /\ pc \in [Threads -> {"idle", "begin", "work", "commit", "answer"}]
  /\ req \in [Threads -> Requests \cup {None}]
  /\ code \in [Threads -> {None, 200, 404, 409}]
  /\ tries \in [Threads -> 0..MaxTries]
  /\ crashes \in Nat
  /\ \A t \in Threads : /\ pc[t] \in {"work", "commit"} <=> writer = t
                        /\ pc[t] = "idle" <=> req[t] = None

(* A 200 stands for an entry of the log, first time or replay, and a 409   *)
(* to a charge or release for the other one.                               *)
Truthful == \A t \in Threads : pc[t] = "answer" => Honest(db.log, req[t], code[t])

(* mini-ledger/spec.md, "A 200 on a state-changing request corresponds to  *)
(* a ledger entry (or is an exact replay)", for top-ups: an entry has the  *)
(* key, the account and the amount of the request.                         *)
TopupTruthful ==
  \A t \in Threads :
    pc[t] = "answer" /\ code[t] = 200 /\ req[t].op = "topup" =>
      \E i \in DOMAIN db.log :
        db.log[i] = Entry("topup", req[t].account, req[t].amount, None, req[t].key)

(* Every request is answered, failed or lost to a SIGKILL: none waits for  *)
(* ever behind a transaction that was left open.                           *)
RequestsEnd == \A t \in Threads : pc[t] # "idle" ~> pc[t] = "idle"
=============================================================================

------------------------------ MODULE Publisher ------------------------------
(***************************************************************************)
(* mini-publisher/submissions/model-1/publisher against receiver.py: one   *)
(* delivery daemon at a time (a file lock), a message table in SQLite, and *)
(* a receiver that accepts, rejects or hangs on each POST and never        *)
(* deduplicates.  Daemons are killed and started at any moment.            *)
(*                                                                         *)
(* A request whose client is gone may have reached the receiver's socket   *)
(* and be handled after that: a stray.  Strays is the messages whose       *)
(* requests may go astray when the daemon is killed, and Late those whose  *)
(* requests may also be handled after the daemon waited ten seconds for    *)
(* them; the requests of other messages die with their client.  Waiting    *)
(* between attempts is left out.                                           *)
(***************************************************************************)
EXTENDS Integers, Sequences

CONSTANTS
  Messages,       \* message ids
  Daemons,        \* processes running `publisher daemon'
  None,           \* no row, no daemon, no message, no request, no answer
  FailThreshold,  \* FAIL_THRESHOLD: attempts before a message may fail
  Strays,         \* the messages whose requests may outlive a killed client
  Late,           \* those whose requests may outlive a client that gave up too
  MaxKills        \* bound: SIGKILLs in a behaviour

ASSUME BoundsAssumption == FailThreshold \in Nat \ {0} /\ MaxKills \in Nat
ASSUME StraysAssumption == Late \subseteq Strays /\ Strays \subseteq Messages

VARIABLES
  row,       \* the row of each message: state, attempts, tried (last_attempt_at)
  queue,     \* the messages in the order of their rowid
  lock,      \* the daemon holding daemon.lock, or None
  pc,        \* where each daemon is
  mid,       \* the message each daemon works on
  count,     \* what its audit counted, or 0
  answer,    \* what its POST returned, or None
  request,   \* what the receiver has done with its POST
  stray,     \* requests without a client that the receiver has not handled
  accepted,  \* deliveries the receiver has recorded
  kills      \* SIGKILLs so far

dbVars       == <<row, queue>>
seen         == <<count, answer>>
receiverVars == <<stray, accepted>>
vars == <<row, queue, lock, pc, mid, count, answer, request, stray, accepted, kills>>

States  == {"pending", "delivering", "uncertain", "delivered", "failed"}
Row     == [state : States, attempts : 0..FailThreshold, tried : BOOLEAN]
Replies == {"accept", "reject", "hang"}

ASSUME NoneAssumption ==
  None \notin Messages \cup Daemons \cup Row \cup Replies \cup {"sent"}

Init ==
  /\ row = [m \in Messages |-> None]
  /\ queue = <<>>
  /\ lock = None
  /\ pc = [d \in Daemons |-> "down"]
  /\ mid = [d \in Daemons |-> None]
  /\ count = [d \in Daemons |-> 0]
  /\ answer = [d \in Daemons |-> None]
  /\ request = [d \in Daemons |-> None]
  /\ stray = [m \in Messages |-> 0]
  /\ accepted = [m \in Messages |-> 0]
  /\ kills = 0

InState(m, s) == row[m] # None /\ row[m].state = s

(* INSERT OR IGNORE: an id that exists is left as it is.                   *)
Enqueue(m) ==
  /\ row[m] = None
  /\ row' = [row EXCEPT ![m] = [state |-> "pending", attempts |-> 0, tried |-> FALSE]]
  /\ queue' = Append(queue, m)
  /\ UNCHANGED <<lock, pc, mid, seen, request, receiverVars, kills>>

(* Mutant: the daemon does not wait for the lock.                          *)
StartUnlocked(d) ==
  /\ pc[d] = "down"
  /\ lock' = d
  /\ pc' = [pc EXCEPT ![d] = "recover"]
  /\ UNCHANGED <<dbVars, mid, seen, request, receiverVars, kills>>

Start(d) ==
  /\ pc[d] = "down" /\ lock = None
  /\ lock' = d
  /\ pc' = [pc EXCEPT ![d] = "recover"]
  /\ UNCHANGED <<dbVars, mid, seen, request, receiverVars, kills>>

(* Mutant: nothing is recovered at the start.                              *)
RecoverNothing(d) ==
  /\ pc[d] = "recover"
  /\ pc' = [pc EXCEPT ![d] = "ready"]
  /\ UNCHANGED <<dbVars, lock, mid, seen, request, receiverVars, kills>>

Recover(d) ==
  /\ pc[d] = "recover"
  /\ row' = [m \in Messages |-> IF InState(m, "delivering")
                                THEN [row[m] EXCEPT !.state = "uncertain"] ELSE row[m]]
  /\ pc' = [pc EXCEPT ![d] = "ready"]
  /\ UNCHANGED <<queue, lock, mid, seen, request, receiverVars, kills>>

Uncertain == {i \in DOMAIN queue : InState(queue[i], "uncertain")}

(* The oldest uncertain message is audited before anything is sent; an     *)
(* audit that fails changes nothing and is made again.                     *)
Audit(d) ==
  \E i \in Uncertain :
    /\ pc[d] = "ready"
    /\ \A j \in Uncertain : i <= j
    /\ mid' = [mid EXCEPT ![d] = queue[i]]
    /\ count' = [count EXCEPT ![d] = accepted[queue[i]]]
    /\ pc' = [pc EXCEPT ![d] = "audited"]
    /\ UNCHANGED <<dbVars, lock, answer, request, receiverVars, kills>>

Finish(d) ==
  /\ mid' = [mid EXCEPT ![d] = None]
  /\ count' = [count EXCEPT ![d] = 0]
  /\ answer' = [answer EXCEPT ![d] = None]
  /\ pc' = [pc EXCEPT ![d] = "ready"]
  /\ UNCHANGED <<queue, lock, request, receiverVars, kills>>

(* Mutant: a message may fail one attempt later.                           *)
SettleLate(d) ==
  LET m == mid[d] IN
  /\ pc[d] = "audited"
  /\ row' = IF ~InState(m, "uncertain") THEN row
            ELSE [row EXCEPT ![m].state =
                    IF count[d] >= 1 THEN "delivered"
                    ELSE IF row[m].attempts > FailThreshold THEN "failed" ELSE "pending"]
  /\ Finish(d)

(* Mutant: a message that has been tried often enough fails.               *)
SettleFailedFirst(d) ==
  LET m == mid[d] IN
  /\ pc[d] = "audited"
  /\ row' = IF ~InState(m, "uncertain") THEN row
            ELSE [row EXCEPT ![m].state =
                    IF row[m].attempts >= FailThreshold THEN "failed"
                    ELSE IF count[d] >= 1 THEN "delivered" ELSE "pending"]
  /\ Finish(d)

Settle(d) ==
  LET m == mid[d] IN
  /\ pc[d] = "audited"
  /\ row' = IF ~InState(m, "uncertain") THEN row
            ELSE [row EXCEPT ![m].state =
                    IF count[d] >= 1 THEN "delivered"
                    ELSE IF row[m].attempts >= FailThreshold THEN "failed" ELSE "pending"]
  /\ Finish(d)

(* The oldest pending message whose wait is over: one never tried does not *)
(* wait.  `delivering' is committed before the POST.                       *)
Dispatch(d) ==
  \E i \in DOMAIN queue :
    /\ pc[d] = "ready" /\ Uncertain = {}
    /\ InState(queue[i], "pending")
    /\ \A j \in 1..(i - 1) : InState(queue[j], "pending") => row[queue[j]].tried
    /\ row' = [row EXCEPT ![queue[i]].state = "delivering", ![queue[i]].tried = TRUE]
    /\ mid' = [mid EXCEPT ![d] = queue[i]]
    /\ pc' = [pc EXCEPT ![d] = "send"]
    /\ UNCHANGED <<queue, lock, seen, request, receiverVars, kills>>

Send(d) ==
  /\ pc[d] = "send"
  /\ request' = [request EXCEPT ![d] = "sent"]
  /\ pc' = [pc EXCEPT ![d] = "wait"]
  /\ UNCHANGED <<dbVars, lock, mid, seen, receiverVars, kills>>

(* The receiver decides, and records what it accepts before it answers or  *)
(* hangs.                                                                  *)
Handle(d) ==
  \E reply \in Replies, accepts \in BOOLEAN :
    /\ request[d] = "sent"
    /\ reply = "accept" => accepts
    /\ reply = "reject" => ~accepts
    /\ request' = [request EXCEPT ![d] = reply]
    /\ accepted' = IF accepts THEN [accepted EXCEPT ![mid[d]] = @ + 1] ELSE accepted
    /\ UNCHANGED <<dbVars, lock, pc, mid, seen, stray, kills>>

HandleStray(m) ==
  \E accepts \in BOOLEAN :
    /\ stray[m] > 0
    /\ stray' = [stray EXCEPT ![m] = @ - 1]
    /\ accepted' = IF accepts THEN [accepted EXCEPT ![m] = @ + 1] ELSE accepted
    /\ UNCHANGED <<dbVars, lock, pc, mid, seen, request, kills>>

(* Daemon d is no longer the client of its request: one the receiver has   *)
(* not handled is lost or, for one of the messages S, still on its way.    *)
Abandon(d, S) ==
  /\ request' = [request EXCEPT ![d] = None]
  /\ \/ UNCHANGED stray
     \/ /\ request[d] = "sent" /\ mid[d] \in S
        /\ stray' = [stray EXCEPT ![mid[d]] = @ + 1]

(* post_deliver: the 200 or the 500 is read.                               *)
Hear(d) ==
  /\ pc[d] = "wait" /\ request[d] \in {"accept", "reject"}
  /\ answer' = [answer EXCEPT ![d] = request[d]]
  /\ request' = [request EXCEPT ![d] = None]
  /\ pc' = [pc EXCEPT ![d] = "record"]
  /\ UNCHANGED <<dbVars, lock, mid, count, receiverVars, kills>>

(* post_deliver: ten seconds pass, or the connection fails.                *)
GiveUp(d) ==
  /\ pc[d] = "wait"
  /\ answer' = [answer EXCEPT ![d] = "hang"]
  /\ Abandon(d, Late)
  /\ pc' = [pc EXCEPT ![d] = "record"]
  /\ UNCHANGED <<dbVars, lock, mid, count, accepted, kills>>

(* Only a 200 is taken at its word: a 500 is audited like a silence.        *)
Record(d) ==
  LET m == mid[d] IN
  /\ pc[d] = "record"
  /\ row' = IF ~InState(m, "delivering") THEN row
            ELSE IF answer[d] = "accept" THEN [row EXCEPT ![m].state = "delivered"]
            ELSE [row EXCEPT ![m].state = "uncertain", ![m].attempts = @ + 1]
  /\ Finish(d)

(* SIGKILL: the lock is released, the database stays.                      *)
Kill(d) ==
  /\ pc[d] # "down" /\ kills < MaxKills
  /\ kills' = kills + 1
  /\ lock' = IF lock = d THEN None ELSE lock
  /\ pc' = [pc EXCEPT ![d] = "down"]
  /\ mid' = [mid EXCEPT ![d] = None]
  /\ count' = [count EXCEPT ![d] = 0]
  /\ answer' = [answer EXCEPT ![d] = None]
  /\ Abandon(d, Strays)
  /\ UNCHANGED <<dbVars, accepted>>

Work(d) ==
  \/ Recover(d) \/ Audit(d) \/ Settle(d) \/ Dispatch(d) \/ Send(d) \/ Handle(d)
  \/ Hear(d) \/ GiveUp(d) \/ Record(d)

Next ==
  \/ \E m \in Messages : Enqueue(m) \/ HandleStray(m)
  \/ \E d \in Daemons : Start(d) \/ Work(d) \/ Kill(d)

Spec == Init /\ [][Next]_vars

(* Daemons are started again, run, and see every request end.              *)
FairSpec == Spec /\ \A d \in Daemons : WF_vars(Start(d)) /\ WF_vars(Work(d))

-----------------------------------------------------------------------------
(* Correctness                                                             *)

(* Every variable has its type.                                            *)
TypeOK ==
  /\ row \in [Messages -> Row \cup {None}]
  /\ queue \in Seq(Messages)
  /\ lock \in Daemons \cup {None}
  /\ pc \in [Daemons -> {"down", "recover", "ready", "audited", "send", "wait", "record"}]
  /\ mid \in [Daemons -> Messages \cup {None}]
  /\ count \in [Daemons -> Nat]
  /\ answer \in [Daemons -> Replies \cup {None}]
  /\ request \in [Daemons -> Replies \cup {"sent", None}]
  /\ stray \in [Messages -> Nat]
  /\ accepted \in [Messages -> Nat]
  /\ kills \in Nat

(* No message is accepted twice, whatever is killed and whatever hangs, if *)
(* its requests die with their clients.                                    *)
AtMostOnce == \A m \in Messages \ Strays : accepted[m] <= 1

(* The first promise of spec.md as it stands.                              *)
NoDuplicate == \A m \in Messages : accepted[m] <= 1

(* What `publisher status' reports: a message is `delivered' only if it    *)
(* was accepted, exactly once, and `failed' only if it never was in        *)
(* FailThreshold attempts; but a stray may still be accepted after either. *)
TruthfulStatus ==
  \A m \in Messages :
    /\ InState(m, "delivered") => accepted[m] >= 1
    /\ m \notin Strays /\ InState(m, "delivered") => accepted[m] = 1
    /\ m \notin Strays /\ InState(m, "failed") => accepted[m] = 0
    /\ InState(m, "failed") => row[m].attempts >= FailThreshold

(* Every message that is enqueued ends as delivered or failed.             *)
EveryMessageEnds ==
  \A m \in Messages : row[m] # None ~> InState(m, "delivered") \/ InState(m, "failed")
=============================================================================

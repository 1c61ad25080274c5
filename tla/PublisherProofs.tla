--------------------------- MODULE PublisherProofs ---------------------------
(***************************************************************************)
(* Publisher delivers no message twice and reports what happened, for any  *)
(* messages, daemons, threshold and number of kills: TypeOK, AtMostOnce    *)
(* and TruthfulStatus, from one inductive invariant.                       *)
(***************************************************************************)
EXTENDS Publisher, TLAPS

(* Only the daemon that holds the lock runs.                               *)
Alone == \A d \in Daemons : pc[d] # "down" => lock = d

(* The row of the message a daemon works on is as the daemon left it.      *)
Holding ==
  \A d \in Daemons :
    /\ pc[d] = "audited" => mid[d] \in Messages /\ InState(mid[d], "uncertain")
    /\ pc[d] \in {"send", "wait", "record"} =>
          mid[d] \in Messages /\ InState(mid[d], "delivering")
    /\ request[d] # None => pc[d] = "wait"

(* What a row says of the deliveries the receiver recorded.                *)
Outcomes ==
  \A m \in Messages :
    /\ InState(m, "delivered") => accepted[m] >= 1
    /\ InState(m, "pending") \/ InState(m, "delivering") =>
          row[m].attempts < FailThreshold
    /\ InState(m, "failed") => row[m].attempts >= FailThreshold
    /\ m \notin Strays =>
          /\ stray[m] = 0
          /\ accepted[m] <= 1
          /\ row[m] = None \/ InState(m, "pending") \/ InState(m, "failed") =>
                accepted[m] = 0

(* What a daemon knows: the audit is current, no POST is sent or handled   *)
(* for a message that was accepted, and a 200 is true.                     *)
InFlight ==
  \A d \in Daemons :
    /\ pc[d] = "audited" => count[d] <= accepted[mid[d]]
    /\ pc[d] = "audited" /\ mid[d] \notin Strays => count[d] = accepted[mid[d]]
    /\ request[d] = "accept" => accepted[mid[d]] >= 1
    /\ pc[d] = "record" /\ answer[d] = "accept" => accepted[mid[d]] >= 1
    /\ (pc[d] = "send" \/ request[d] = "sent") /\ mid[d] \notin Strays =>
          accepted[mid[d]] = 0

IInv == TypeOK /\ Alone /\ Holding /\ Outcomes /\ InFlight

(* The replies of the receiver, the states and the counters as sets.       *)
LEMMA Typed ==
  ASSUME TypeOK
  PROVE  /\ None \notin Messages /\ None \notin Daemons /\ None \notin Row
         /\ None \notin Replies /\ None # "sent"
         /\ FailThreshold \in Nat /\ FailThreshold >= 1
         /\ \A m \in Messages : row[m] # None => row[m] \in Row
         /\ \A m \in Messages : accepted[m] \in Nat /\ stray[m] \in Nat
BY NoneAssumption, BoundsAssumption DEF TypeOK

(* While a daemon runs, the others are down and have no request.           *)
LEMMA Others ==
  ASSUME IInv, NEW d \in Daemons, pc[d] # "down"
  PROVE  \A e \in Daemons : e # d => pc[e] = "down" /\ request[e] = None
BY Typed DEF IInv, Alone, Holding

(* At the start no message and no daemon is there.                         *)
LEMMA Start0 == Init => IInv
<1> SUFFICES ASSUME Init PROVE IInv
  OBVIOUS
<1> USE DEF Init
<1>1. TypeOK
  BY BoundsAssumption DEF TypeOK
<1>2. Alone /\ Holding
  BY DEF Alone, Holding
<1>3. Outcomes
  <2>1. \A m \in Messages : row[m] = None /\ accepted[m] = 0 /\ stray[m] = 0
    OBVIOUS
  <2>2. \A m \in Messages, s \in States : ~InState(m, s)
    BY <2>1 DEF InState
  <2>3. \A m \in Messages : /\ ~InState(m, "delivered") /\ ~InState(m, "pending")
                            /\ ~InState(m, "delivering") /\ ~InState(m, "failed")
    BY <2>2 DEF States
  <2>4. \A n \in Nat : n = 0 => n <= 1
    OBVIOUS
  <2> HIDE DEF Init
  <2> QED
    BY <2>1, <2>3, <2>4 DEF Outcomes
<1>4. InFlight
  BY <1>1, Typed DEF InFlight, Replies
<1> QED
  BY <1>1, <1>2, <1>3, <1>4 DEF IInv

(* The step Enqueue: a message that is enqueued was never sent.            *)
LEMMA EnqueueStep ==
  ASSUME IInv, NEW m \in Messages, Enqueue(m)
  PROVE  IInv'
<1> USE DEF IInv, Enqueue, dbVars, receiverVars, seen
<1>1. TypeOK'
  <2>1. [state |-> "pending", attempts |-> 0, tried |-> FALSE] \in Row
    BY BoundsAssumption DEF Row, States
  <2>2. row' \in [Messages -> Row \cup {None}]
    BY <2>1 DEF TypeOK
  <2>3. queue' \in Seq(Messages)
    BY DEF TypeOK
  <2> QED
    BY <2>2, <2>3 DEF TypeOK
<1>2. Alone'
  BY DEF TypeOK, Alone
<1>3. Holding'
  BY Typed DEF TypeOK, Alone, Holding, InState, Row, Replies
<1>4. Outcomes'
  BY Typed DEF TypeOK, Alone, Holding, Outcomes, InFlight, InState, Row
<1>5. InFlight'
  BY Typed DEF TypeOK, Alone, Holding, Outcomes, InFlight, InState, Row, Replies
<1> QED
  BY <1>1, <1>2, <1>3, <1>4, <1>5

(* The step HandleStray: a stray is accepted only for a message that may have one.*)
LEMMA HandleStrayStep ==
  ASSUME IInv, NEW m \in Messages, HandleStray(m)
  PROVE  IInv'
<1> USE DEF IInv, HandleStray, dbVars, receiverVars, seen
<1>1. TypeOK'
  <2>1. accepted' \in [Messages -> Nat]
    BY DEF TypeOK
  <2>2. stray' \in [Messages -> Nat]
    BY DEF TypeOK
  <2> QED
    BY <2>1, <2>2 DEF TypeOK
<1>2. Alone'
  BY DEF TypeOK, Alone
<1>3. Holding'
  BY Typed DEF TypeOK, Alone, Holding, InState, Row, Replies
<1>4. Outcomes'
  BY Typed DEF TypeOK, Alone, Holding, Outcomes, InFlight, InState, Row
<1>5. InFlight'
  BY Typed DEF TypeOK, Alone, Holding, Outcomes, InFlight, InState, Row, Replies
<1> QED
  BY <1>1, <1>2, <1>3, <1>4, <1>5

(* The step Start: a daemon that starts is alone.                          *)
LEMMA StartStep ==
  ASSUME IInv, NEW d \in Daemons, Start(d)
  PROVE  IInv'
<1> USE DEF IInv, Start, dbVars, receiverVars, seen
<1>1. TypeOK'
  BY Typed DEF TypeOK, Row, States, Replies, Holding, Outcomes, InState
<1>2. Alone'
  BY Typed DEF TypeOK, Alone
<1>3. Holding'
  BY Typed DEF TypeOK, Alone, Holding, InState, Row, Replies
<1>4. Outcomes'
  BY Typed DEF TypeOK, Alone, Holding, Outcomes, InFlight, InState, Row
<1>5. InFlight'
  BY Typed DEF TypeOK, Alone, Holding, Outcomes, InFlight, InState, Row, Replies
<1> QED
  BY <1>1, <1>2, <1>3, <1>4, <1>5

(* The step Recover: no daemon is at a message that was being delivered.   *)
LEMMA RecoverStep ==
  ASSUME IInv, NEW d \in Daemons, Recover(d)
  PROVE  IInv'
<1> USE DEF IInv, Recover, dbVars, receiverVars, seen
<1>1. TypeOK'
  <2>1. ASSUME NEW m \in Messages, InState(m, "delivering")
        PROVE  [row[m] EXCEPT !.state = "uncertain"] \in Row
    BY <2>1, Typed DEF InState, Row, States
  <2>2. row' \in [Messages -> Row \cup {None}]
    BY <2>1 DEF TypeOK
  <2> QED
    BY <2>2 DEF TypeOK
<1>2. Alone'
  BY DEF TypeOK, Alone
<1>3. Holding'
  BY Typed DEF TypeOK, Alone, Holding, InState, Row, Replies
<1>4. Outcomes'
  <2>1. ASSUME NEW m \in Messages, InState(m, "delivering")
        PROVE  /\ row'[m].state = "uncertain"
               /\ row'[m] # None
    BY <2>1, Typed DEF TypeOK, InState, Row, States
  <2>2. ASSUME NEW m \in Messages, ~InState(m, "delivering") PROVE row'[m] = row[m]
    BY <2>2 DEF TypeOK
  <2> QED
    BY <2>1, <2>2 DEF Outcomes, InState
<1>5. InFlight'
  BY Typed DEF TypeOK, Alone, Holding, Outcomes, InFlight, InState, Row, Replies
<1> QED
  BY <1>1, <1>2, <1>3, <1>4, <1>5

(* The step Audit: the count is the receiver's.                            *)
LEMMA AuditStep ==
  ASSUME IInv, NEW d \in Daemons, Audit(d)
  PROVE  IInv'
<1> USE DEF IInv, Audit, Uncertain, dbVars, receiverVars, seen
<1>a. PICK i \in Uncertain :
        /\ mid' = [mid EXCEPT ![d] = queue[i]]
        /\ count' = [count EXCEPT ![d] = accepted[queue[i]]]
        /\ pc' = [pc EXCEPT ![d] = "audited"]
  BY Zenon
<1>b. /\ queue[i] \in Messages /\ InState(queue[i], "uncertain")
      /\ accepted[queue[i]] \in Nat
  BY Typed DEF TypeOK
<1>c. \A e \in Daemons : e # d => pc'[e] = "down" /\ request[e] = None
  BY <1>a, Others DEF TypeOK
<1>d. pc'[d] = "audited" /\ mid'[d] = queue[i] /\ count'[d] = accepted[queue[i]]
  BY <1>a DEF TypeOK
<1>e. request[d] = None
  BY DEF Holding
<1>1. TypeOK'
  <2>1. /\ pc' \in [Daemons -> {"down", "recover", "ready", "audited", "send", "wait", "record"}]
        /\ mid' \in [Daemons -> Messages \cup {None}]
    BY <1>a, <1>b DEF TypeOK
  <2>2. count' \in [Daemons -> Nat]
    BY <1>a, <1>b DEF TypeOK
  <2>3. UNCHANGED <<row, queue, lock, answer, request, stray, accepted, kills>>
    OBVIOUS
  <2>4. TypeOK
    OBVIOUS
  <2> HIDE DEF IInv, Audit, Uncertain
  <2> QED
    BY <2>1, <2>2, <2>3, <2>4 DEF TypeOK
<1>2. Alone'
  BY DEF TypeOK, Alone
<1>3. Holding'
  <2>1. UNCHANGED <<row, request>>
    OBVIOUS
  <2> HIDE DEF IInv, Audit, Uncertain
  <2> QED
    BY <2>1, <1>b, <1>c, <1>d, <1>e DEF Holding, InState
<1>4. Outcomes'
  BY Typed DEF TypeOK, Alone, Holding, Outcomes, InFlight, InState, Row
<1>5. InFlight'
  <2>1. UNCHANGED <<accepted, request>> /\ None \notin Replies /\ None # "sent"
    BY Typed
  <2> HIDE DEF IInv, Audit, Uncertain
  <2> QED
    BY <2>1, <1>b, <1>c, <1>d, <1>e DEF InFlight, Replies
<1> QED
  BY <1>1, <1>2, <1>3, <1>4, <1>5

(* The step Settle: an audited message that was not accepted is pending or failed.*)
LEMMA SettleStep ==
  ASSUME IInv, NEW d \in Daemons, Settle(d)
  PROVE  IInv'
<1> USE DEF IInv, Settle, Finish, dbVars, receiverVars, seen
<1>a. mid[d] \in Messages /\ InState(mid[d], "uncertain") /\ row[mid[d]] \in Row
  BY Typed DEF Holding, InState
<1>b. PICK s \in {"delivered", "failed", "pending"} :
        /\ row' = [row EXCEPT ![mid[d]] = [row[mid[d]] EXCEPT !.state = s]]
        /\ s = "delivered" => count[d] >= 1
        /\ s # "delivered" => ~(count[d] >= 1)
        /\ s = "pending" => ~(row[mid[d]].attempts >= FailThreshold)
        /\ s = "failed" => row[mid[d]].attempts >= FailThreshold
  BY <1>a
<1>c. row'[mid[d]] \in Row /\ row'[mid[d]].state = s
      /\ row'[mid[d]].attempts = row[mid[d]].attempts
  <2>1. row'[mid[d]] = [row[mid[d]] EXCEPT !.state = s]
    BY <1>a, <1>b DEF TypeOK
  <2>2. s \in States
    BY DEF States
  <2> HIDE DEF IInv, Settle, Finish
  <2> QED
    BY <2>1, <2>2, <1>a DEF Row
<1>d. \A m \in Messages : m # mid[d] => row'[m] = row[m]
  BY <1>a, <1>b DEF TypeOK
<1>1. TypeOK'
  <2>1. row' \in [Messages -> Row \cup {None}]
    BY <1>a, <1>b, <1>c, <1>d DEF TypeOK
  <2> QED
    BY <2>1 DEF TypeOK
<1>2. Alone'
  BY DEF TypeOK, Alone
<1>3. Holding'
  BY Typed DEF TypeOK, Alone, Holding, InState, Row, Replies
<1>4. Outcomes'
  <2>1. /\ s = "delivered" => accepted[mid[d]] >= 1
        /\ mid[d] \notin Strays /\ s # "delivered" => accepted[mid[d]] = 0
        /\ s = "pending" => row'[mid[d]].attempts < FailThreshold
        /\ s = "failed" => row'[mid[d]].attempts >= FailThreshold
    BY <1>a, <1>b, <1>c, Typed DEF TypeOK, Row, InFlight
  <2> QED
    BY <2>1, <1>a, <1>c, <1>d, Typed DEF Outcomes, InState
<1>5. InFlight'
  BY Typed DEF TypeOK, Alone, Holding, Outcomes, InFlight, InState, Row, Replies
<1> QED
  BY <1>1, <1>2, <1>3, <1>4, <1>5

(* The step Dispatch: a pending message was not accepted.                  *)
LEMMA DispatchStep ==
  ASSUME IInv, NEW d \in Daemons, Dispatch(d)
  PROVE  IInv'
<1> USE DEF IInv, Dispatch, dbVars, receiverVars, seen
<1>a. PICK i \in DOMAIN queue :
        /\ InState(queue[i], "pending")
        /\ row' = [row EXCEPT ![queue[i]].state = "delivering", ![queue[i]].tried = TRUE]
        /\ mid' = [mid EXCEPT ![d] = queue[i]]
        /\ pc' = [pc EXCEPT ![d] = "send"]
  BY Zenon
<1>b. queue[i] \in Messages /\ row[queue[i]] \in Row
  BY <1>a, Typed DEF TypeOK, InState
<1>c. row'[queue[i]] \in Row /\ row'[queue[i]].state = "delivering"
      /\ row'[queue[i]].attempts = row[queue[i]].attempts
  <2>1. row'[queue[i]] = [[row[queue[i]] EXCEPT !.state = "delivering"] EXCEPT !.tried = TRUE]
    BY <1>a, <1>b DEF TypeOK
  <2>2. "delivering" \in States
    BY DEF States
  <2> HIDE DEF IInv, Dispatch
  <2> QED
    BY <2>1, <2>2, <1>b DEF Row
<1>d. \A m \in Messages : m # queue[i] => row'[m] = row[m]
  BY <1>a, <1>b DEF TypeOK
<1>1. TypeOK'
  <2>1. row' \in [Messages -> Row \cup {None}]
    BY <1>a, <1>b, <1>c, <1>d DEF TypeOK
  <2> QED
    BY <2>1, <1>a, <1>b DEF TypeOK
<1>2. Alone'
  BY DEF TypeOK, Alone
<1>3. Holding'
  <2>1. \A e \in Daemons : e # d => pc'[e] = "down" /\ request'[e] = None
    BY <1>a, Others DEF TypeOK
  <2>2. mid'[d] = queue[i] /\ pc'[d] = "send" /\ request'[d] = None
    BY <1>a DEF TypeOK, Holding
  <2>3. row'[queue[i]] # None /\ row'[queue[i]].state = "delivering"
    BY <1>b, <1>c, Typed
  <2> HIDE DEF IInv, Dispatch
  <2> QED
    <3>1. ASSUME NEW e \in Daemons, e = d
          PROVE  /\ pc'[e] = "send" /\ request'[e] = None
                 /\ mid'[e] \in Messages /\ row'[mid'[e]] # None
                 /\ row'[mid'[e]].state = "delivering"
      BY <3>1, <2>2, <2>3, <1>b
    <3> QED
      BY <3>1, <2>1 DEF Holding, InState
<1>4. Outcomes'
  <2>1. row[queue[i]].attempts < FailThreshold
        /\ (queue[i] \notin Strays => accepted[queue[i]] = 0)
    BY <1>a, <1>b DEF Outcomes
  <2>2. UNCHANGED <<accepted, stray>>
    OBVIOUS
  <2>3. None \notin Row /\ Outcomes
    BY Typed
  <2> HIDE DEF IInv, Dispatch
  <2> QED
    BY <2>1, <2>2, <2>3, <1>b, <1>c, <1>d DEF Outcomes, InState
<1>5. InFlight'
  <2>1. \A e \in Daemons : e # d => pc'[e] = "down" /\ request'[e] = None
    BY <1>a, Others DEF TypeOK
  <2>2. mid'[d] = queue[i] /\ pc'[d] = "send" /\ request'[d] = None
    BY <1>a DEF TypeOK, Holding
  <2>3. accepted' = accepted /\ (queue[i] \notin Strays => accepted[queue[i]] = 0)
    BY <1>a, <1>b DEF Outcomes
  <2>4. None \notin Replies /\ None # "sent"
    BY Typed
  <2> HIDE DEF IInv, Dispatch
  <2> QED
    BY <2>1, <2>2, <2>3, <2>4 DEF InFlight, Replies
<1> QED
  BY <1>1, <1>2, <1>3, <1>4, <1>5

(* The step Send: a POST leaves for a message that was not accepted.       *)
LEMMA SendStep ==
  ASSUME IInv, NEW d \in Daemons, Send(d)
  PROVE  IInv'
<1> USE DEF IInv, Send, dbVars, receiverVars, seen
<1>1. TypeOK'
  BY Typed DEF TypeOK, Row, States, Replies, Holding, Outcomes, InState
<1>2. Alone'
  BY DEF TypeOK, Alone
<1>3. Holding'
  BY Typed DEF TypeOK, Alone, Holding, InState, Row, Replies
<1>4. Outcomes'
  BY Typed DEF TypeOK, Alone, Holding, Outcomes, InFlight, InState, Row
<1>5. InFlight'
  BY Typed DEF TypeOK, Alone, Holding, Outcomes, InFlight, InState, Row, Replies
<1> QED
  BY <1>1, <1>2, <1>3, <1>4, <1>5

(* The step Handle: the receiver accepts at most one POST.                 *)
LEMMA HandleStep ==
  ASSUME IInv, NEW d \in Daemons, Handle(d)
  PROVE  IInv'
<1> USE DEF IInv, Handle, dbVars, receiverVars, seen
<1>a. pc[d] = "wait" /\ mid[d] \in Messages
  BY Typed DEF Holding
<1>b. PICK reply \in Replies :
        /\ request' = [request EXCEPT ![d] = reply]
        /\ \/ accepted' = accepted
           \/ accepted' = [accepted EXCEPT ![mid[d]] = accepted[mid[d]] + 1]
  BY Zenon
<1>c. UNCHANGED <<row, queue, lock, pc, mid, count, answer, stray, kills>>
  OBVIOUS
<1>1. TypeOK'
  <2>1. TypeOK
    OBVIOUS
  <2> HIDE DEF IInv, Handle
  <2>2. accepted' \in [Messages -> Nat]
    <3>1. accepted[mid[d]] + 1 \in Nat
      BY <2>1, <1>a DEF TypeOK
    <3> QED
      BY <2>1, <3>1, <1>a, <1>b DEF TypeOK
  <2>3. request' \in [Daemons -> Replies \cup {"sent", None}]
    BY <2>1, <1>b DEF TypeOK
  <2> QED
    BY <2>1, <2>2, <2>3, <1>c DEF TypeOK
<1>2. Alone'
  BY DEF TypeOK, Alone
<1>3. Holding'
  BY Typed DEF TypeOK, Alone, Holding, InState, Row, Replies
<1>4. Outcomes'
  BY Typed DEF TypeOK, Alone, Holding, Outcomes, InFlight, InState, Row
<1>5. InFlight'
  <2>1. pc[d] = "wait" /\ \A e \in Daemons : e # d => pc[e] = "down"
    BY Typed DEF Alone, Holding
  <2>2. \A e \in Daemons : e # d => request[e] = None
    BY <2>1 DEF Holding
  <2>3. mid[d] \in Messages /\ accepted[mid[d]] \in Nat
    BY <2>1, Typed DEF Holding
  <2>4. request'[d] # "sent" /\ (request'[d] = "accept" => accepted'[mid[d]] >= 1)
    BY <2>3 DEF TypeOK, Replies
  <2>5. \A e \in Daemons : e # d => request'[e] = None
    BY <2>2 DEF TypeOK
  <2> QED
    BY <2>1, <2>4, <2>5, Typed DEF InFlight, Replies
<1> QED
  BY <1>1, <1>2, <1>3, <1>4, <1>5

(* The step Hear: the answer is the receiver's.                            *)
LEMMA HearStep ==
  ASSUME IInv, NEW d \in Daemons, Hear(d)
  PROVE  IInv'
<1> USE DEF IInv, Hear, dbVars, receiverVars, seen
<1>1. TypeOK'
  BY Typed DEF TypeOK, Row, States, Replies, Holding, Outcomes, InState
<1>2. Alone'
  BY DEF TypeOK, Alone
<1>3. Holding'
  BY Typed DEF TypeOK, Alone, Holding, InState, Row, Replies
<1>4. Outcomes'
  BY Typed DEF TypeOK, Alone, Holding, Outcomes, InFlight, InState, Row
<1>5. InFlight'
  BY Typed DEF TypeOK, Alone, Holding, Outcomes, InFlight, InState, Row, Replies
<1> QED
  BY <1>1, <1>2, <1>3, <1>4, <1>5

(* The step GiveUp: a request given up is over, or may go astray.          *)
LEMMA GiveUpStep ==
  ASSUME IInv, NEW d \in Daemons, GiveUp(d)
  PROVE  IInv'
<1> USE DEF IInv, GiveUp, Abandon, dbVars, receiverVars, seen
<1>1. TypeOK'
  <2>1. stray' \in [Messages -> Nat]
    <3>1. CASE UNCHANGED stray
      BY <3>1 DEF TypeOK
    <3>2. CASE mid[d] \in Messages /\ stray' = [stray EXCEPT ![mid[d]] = stray[mid[d]] + 1]
      BY <3>2 DEF TypeOK
    <3> QED
      BY <3>1, <3>2, StraysAssumption
  <2>2. request' \in [Daemons -> Replies \cup {"sent", None}]
    BY DEF TypeOK
  <2> QED
    BY <2>1, <2>2 DEF TypeOK, Replies
<1>2. Alone'
  BY DEF TypeOK, Alone
<1>3. Holding'
  BY Typed DEF TypeOK, Alone, Holding, InState, Row, Replies
<1>4. Outcomes'
  BY Typed, StraysAssumption DEF TypeOK, Alone, Holding, Outcomes, InFlight, InState, Row
<1>5. InFlight'
  BY Typed DEF TypeOK, Alone, Holding, Outcomes, InFlight, InState, Row, Replies
<1> QED
  BY <1>1, <1>2, <1>3, <1>4, <1>5

(* The step Record: only an answer of 200 is taken as a delivery.          *)
LEMMA RecordStep ==
  ASSUME IInv, NEW d \in Daemons, Record(d)
  PROVE  IInv'
<1> USE DEF IInv, Record, Finish, dbVars, receiverVars, seen
<1>a. mid[d] \in Messages /\ InState(mid[d], "delivering") /\ row[mid[d]] \in Row
  BY Typed DEF Holding, InState
<1>b. row[mid[d]].attempts + 1 \in 0..FailThreshold
  BY <1>a, Typed DEF Outcomes, Row
<1>c. /\ row'[mid[d]] \in Row
      /\ row'[mid[d]].state \in {"delivered", "uncertain"}
      /\ row'[mid[d]].state = "delivered" => answer[d] = "accept"
  <2>1. CASE answer[d] = "accept"
    <3>1. row' = [row EXCEPT ![mid[d]] = [row[mid[d]] EXCEPT !.state = "delivered"]]
      BY <1>a, <2>1
    <3> QED
      <4>0. row \in [Messages -> Row \cup {None}]
        BY DEF TypeOK
      <4> HIDE DEF IInv, Record, Finish
      <4>1. row'[mid[d]] = [row[mid[d]] EXCEPT !.state = "delivered"]
        BY <3>1, <4>0, <1>a
      <4>2. "delivered" \in States
        BY DEF States
      <4> QED
        BY <4>1, <4>2, <1>a, <2>1 DEF Row
  <2>2. CASE answer[d] # "accept"
    <3>1. row' = [row EXCEPT ![mid[d]] = [[row[mid[d]] EXCEPT !.state = "uncertain"]
                                            EXCEPT !.attempts = @ + 1]]
      BY <1>a, <2>2
    <3> QED
      <4>0. row \in [Messages -> Row \cup {None}]
        BY DEF TypeOK
      <4> HIDE DEF IInv, Record, Finish
      <4>1. row'[mid[d]] = [[row[mid[d]] EXCEPT !.state = "uncertain"]
                              EXCEPT !.attempts = row[mid[d]].attempts + 1]
        BY <3>1, <4>0, <1>a
      <4>2. "uncertain" \in States
        BY DEF States
      <4> QED
        BY <4>1, <4>2, <1>a, <1>b DEF Row
  <2> QED
    BY <2>1, <2>2
<1>d. \A m \in Messages : m # mid[d] => row'[m] = row[m]
  BY <1>a DEF TypeOK
<1>1. TypeOK'
  <2>1. row' \in [Messages -> Row \cup {None}]
    BY <1>a, <1>c, <1>d DEF TypeOK
  <2> QED
    BY <2>1 DEF TypeOK
<1>2. Alone'
  BY DEF TypeOK, Alone
<1>3. Holding'
  BY Typed DEF TypeOK, Alone, Holding, InState, Row, Replies
<1>4. Outcomes'
  <2>1. row'[mid[d]].state = "delivered" => accepted[mid[d]] >= 1
    BY <1>c DEF InFlight
  <2>2. UNCHANGED <<accepted, stray>>
    OBVIOUS
  <2>3. None \notin Row /\ Outcomes
    BY Typed
  <2> HIDE DEF IInv, Record, Finish
  <2> QED
    BY <2>1, <2>2, <2>3, <1>a, <1>c, <1>d DEF Outcomes, InState
<1>5. InFlight'
  <2>1. \A e \in Daemons : e # d => pc'[e] = "down" /\ request'[e] = None
    BY Others DEF TypeOK
  <2>2. pc'[d] = "ready" /\ request'[d] = None
    BY DEF TypeOK, Holding
  <2>3. None \notin Replies /\ None # "sent"
    BY Typed
  <2> HIDE DEF IInv, Record, Finish
  <2> QED
    BY <2>1, <2>2, <2>3 DEF InFlight, Replies
<1> QED
  BY <1>1, <1>2, <1>3, <1>4, <1>5

(* The step Kill: what a killed daemon knew is gone.                       *)
LEMMA KillStep ==
  ASSUME IInv, NEW d \in Daemons, Kill(d)
  PROVE  IInv'
<1> USE DEF IInv, Kill, Abandon, dbVars, receiverVars, seen
<1>1. TypeOK'
  <2>1. stray' \in [Messages -> Nat]
    <3>1. CASE UNCHANGED stray
      BY <3>1 DEF TypeOK
    <3>2. CASE mid[d] \in Messages /\ stray' = [stray EXCEPT ![mid[d]] = stray[mid[d]] + 1]
      BY <3>2 DEF TypeOK
    <3> QED
      BY <3>1, <3>2, StraysAssumption
  <2>2. request' \in [Daemons -> Replies \cup {"sent", None}]
    BY DEF TypeOK
  <2>3. lock' \in Daemons \cup {None} /\ kills' \in Nat
    BY DEF TypeOK
  <2> QED
    BY <2>1, <2>2, <2>3 DEF TypeOK
<1>2. Alone'
  BY DEF TypeOK, Alone
<1>3. Holding'
  BY Typed DEF TypeOK, Alone, Holding, InState, Row, Replies
<1>4. Outcomes'
  BY Typed DEF TypeOK, Alone, Holding, Outcomes, InFlight, InState, Row
<1>5. InFlight'
  BY Typed DEF TypeOK, Alone, Holding, Outcomes, InFlight, InState, Row, Replies
<1> QED
  BY <1>1, <1>2, <1>3, <1>4, <1>5

(* Every step keeps the invariant.                                         *)
LEMMA Keeps == IInv /\ [Next]_vars => IInv'
<1> SUFFICES ASSUME IInv, [Next]_vars PROVE IInv'
  OBVIOUS
<1>1. CASE UNCHANGED vars
  BY <1>1 DEF vars, IInv, TypeOK, Alone, Holding, Outcomes, InFlight, InState
<1>2. ASSUME NEW m \in Messages, Enqueue(m) \/ HandleStray(m) PROVE IInv'
  BY <1>2, EnqueueStep, HandleStrayStep
<1>3. ASSUME NEW d \in Daemons, Start(d) \/ Kill(d) PROVE IInv'
  BY <1>3, StartStep, KillStep
<1>4. ASSUME NEW d \in Daemons, Work(d) PROVE IInv'
  BY <1>4, RecoverStep, AuditStep, SettleStep, DispatchStep, SendStep, HandleStep,
     HearStep, GiveUpStep, RecordStep DEF Work
<1> QED
  BY <1>1, <1>2, <1>3, <1>4 DEF Next

LEMMA Inductive == Spec => []IInv
BY Start0, Keeps, PTL DEF Spec

(* Every variable keeps its type: with it, that no message is tried more   *)
(* than FailThreshold times.                                               *)
THEOREM Types == Spec => []TypeOK
<1>1. IInv => TypeOK
  BY DEF IInv
<1> QED
  BY <1>1, Inductive, PTL

(* The receiver accepts no message twice, whenever daemons are killed and  *)
(* whatever it does with a POST, if requests die with their clients.       *)
THEOREM NeverTwice == Spec => []AtMostOnce
<1>1. IInv => AtMostOnce
  BY DEF IInv, Outcomes, AtMostOnce
<1> QED
  BY <1>1, Inductive, PTL

(* `delivered' and `failed' are what happened, and a message has failed    *)
(* only after FailThreshold attempts that were counted.                    *)
THEOREM ToldTruly == Spec => []TruthfulStatus
<1>1. IInv => TruthfulStatus
  <2> SUFFICES ASSUME IInv, NEW m \in Messages
               PROVE  /\ InState(m, "delivered") => accepted[m] >= 1
                      /\ m \notin Strays /\ InState(m, "delivered") => accepted[m] = 1
                      /\ m \notin Strays /\ InState(m, "failed") => accepted[m] = 0
                      /\ InState(m, "failed") => row[m].attempts >= FailThreshold
    BY DEF TruthfulStatus
  <2>1. accepted[m] \in Nat
    BY Typed DEF IInv
  <2> QED
    BY <2>1 DEF IInv, Outcomes
<1> QED
  BY <1>1, Inductive, PTL
=============================================================================

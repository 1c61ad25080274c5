-------------------------- MODULE QwenVaultCProofs --------------------------
(***************************************************************************)
(* Proofs about QwenVaultC for every set of uploads, chunks, contents and  *)
(* threads, every collision-free digest and any number of kills: references*)
(* do not leak, and only the two events that `raced' records can lose the  *)
(* bytes of a live artifact.                                               *)
(***************************************************************************)
EXTENDS QwenVaultC, FiniteSetTheorems, TLAPS

(* `None' is no row, state, hash, upload, chunk or content.                *)
LEMMA NoneFresh ==
  /\ None \notin Row /\ None \notin States /\ None \notin Hashes
  /\ None \notin {"active", "collecting"}
  /\ None \notin Uploads /\ None \notin Chunks /\ None \notin Data
BY RowAssumption, NoneAssumption

(* Only finitely many artifact rows refer to a hash.                       *)
LEMMA RefsCount ==
  ASSUME NEW h \in Hashes
  PROVE  /\ IsFiniteSet(Refs(h))
         /\ Cardinality(Refs(h)) \in Nat
         /\ Cardinality(Refs(h)) = 0 <=> Refs(h) = {}
<1>1. Refs(h) \subseteq Uploads BY DEF Refs
<1>2. IsFiniteSet(Refs(h)) BY <1>1, UploadsAssumption, FS_Subset
<1> QED BY <1>2, FS_CardinalityType, FS_EmptySet

(* What the invariant says of types and rows.                              *)
LEMMA Typed == Inv => TypeOK
BY DEF Inv, NoReferenceLeaks

LEMMA Rows ==
  ASSUME Inv, NEW h \in Hashes, blob[h] # None
  PROVE  /\ blob[h] \in Row /\ blob[h].refs \in Int
         /\ blob[h].state \in {"active", "collecting"} /\ RowState(h) = blob[h].state
         /\ blob[h].refs \in 0..Cardinality(Refs(h))
         /\ blob[h].state = "collecting" => blob[h].refs = 0
BY DEF Inv, NoReferenceLeaks, TypeOK, StateTypeOK, Row, RowState

LEMMA NoJobIsJob == NoJob \in Jobs({0, 1})
BY DEF Jobs, NoJob

-----------------------------------------------------------------------------
(* The threads.  A step moves one thread, or kills them all.               *)

(* What local variables j a thread at label l needs, given the chunks.     *)
Fits(l, j) ==
  /\ l \in {"putInsert", "putLink"} => j.u \in Uploads /\ j.i \in Chunks /\ j.d \in Data
  /\ l \in Owning \cup {"delete"} => j.u \in Uploads
  /\ l \in Hashed \cup {"delete", "valSet"} => j.h \in Hashes
  /\ l \in {"commit", "valSet"} => j.flag \in {0, 1}
  /\ l \in Hashed => Received(j.u) /\ Digest[chunkRow[j.u]] = j.h

(* A step of one thread: nobody else moves.                                *)
Moves(t) ==
  /\ \A r \in Threads \ {t} : pc'[r] = pc[r] /\ job'[r] = job[r]
  /\ pc' \in [Threads -> Labels] /\ job' \in [Threads -> Jobs({0, 1})]

(* Where it arrives it has what it needs.                                  *)
Arrives(t, l, j) == Moves(t) /\ pc'[t] = l /\ job'[t] = j /\ Fits(l, j)

LEMMA ThreadFits ==
  ASSUME Inv, NEW t \in Threads
  PROVE  /\ Fits(pc[t], job[t]) /\ job[t] \in Jobs({0, 1}) /\ pc[t] \in Labels
         /\ job[t].todo \subseteq Hashes
BY Typed DEF Inv, ThreadInv, JobSet, OwnsUpload, Fits, TypeOK, StateTypeOK, Jobs

LEMMA Begins ==
  ASSUME TypeOK, NEW t \in Threads, NEW l \in Labels, NEW j \in Jobs({0, 1}), Begin(t, l, j),
         Fits(l, j)
  PROVE  Arrives(t, l, j)
BY DEF TypeOK, StateTypeOK, Begin, Arrives, Moves

LEMMA GoesOn ==
  ASSUME Inv, NEW t \in Threads, NEW l \in Labels, Goto(t, l), Fits(l, job[t])
  PROVE  Arrives(t, l, job[t])
<1>1. job[t] \in Jobs({0, 1}) BY ThreadFits
<1>2. Begin(t, l, job[t]) BY Typed DEF Goto, Begin, TypeOK, StateTypeOK
<1> QED BY <1>1, <1>2, Begins, Typed

LEMMA Ends ==
  ASSUME Inv, NEW t \in Threads, Finish(t)
  PROVE  Arrives(t, "idle", NoJob)
<1>1. "idle" \in Labels /\ Fits("idle", NoJob) BY DEF Labels, Fits, Owning, Hashed
<1> QED BY <1>1, NoJobIsJob, Begins, Typed DEF Finish

(* The sets of labels, for provers that do not enumerate them.             *)
LEMMA LabelFacts ==
  /\ Hashed \subseteq Owning /\ Owning \subseteq Labels
  /\ {"idle", "putInsert", "putLink", "delete", "gcUnlink", "valRead", "valSet"} \subseteq Labels
  /\ {"idle", "putInsert", "putLink", "delete", "gcUnlink", "valRead", "valSet"} \cap Owning = {}
  /\ {"assemble", "rollback"} \subseteq Owning /\ {"assemble", "rollback"} \cap Hashed = {}
BY DEF Hashed, Owning, Labels

(* The requests, each with where it arrives.                               *)
LEMMA RequestMoves ==
  ASSUME Inv, NEW t \in Threads, Request(t)
  PROVE  \E l \in Labels, j \in Jobs({0, 1}) :
           /\ Arrives(t, l, j) /\ pc[t] = "idle"
           /\ l \in Owning => FinalizeBegin(t, j.u)
           /\ l = "delete" => DeleteRead(t, j.u) /\ j.h = artifact[j.u]
           /\ l = "gcUnlink" => GcMark(t) /\ j.todo = marked'[t]
           /\ l = "putInsert" => ustate[j.u] # None
           /\ l \notin {"putLink", "commit"}
<1>1. ASSUME NEW u \in Uploads, NEW i \in Chunks, NEW d \in Data, PutCheck(t, u, i, d)
      PROVE  \E j \in Jobs({0, 1}) :
               Arrives(t, "putInsert", j) /\ pc[t] = "idle" /\ ustate[j.u] # None
  <2> DEFINE j == [NoJob EXCEPT !.u = u, !.i = i, !.d = d]
  <2>1. j \in Jobs({0, 1}) /\ j.u = u /\ j.i = i /\ j.d = d BY DEF Jobs, NoJob
  <2>2. Begin(t, "putInsert", j) /\ pc[t] = "idle" BY <1>1 DEF PutCheck, Idle
  <2> HIDE DEF j
  <2>3. Fits("putInsert", j) BY <2>1, LabelFacts DEF Fits
  <2>4. ustate[j.u] # None BY <1>1, <2>1, NoneFresh DEF PutCheck, States
  <2> QED BY <2>1, <2>2, <2>3, <2>4, Begins, Typed, LabelFacts
<1>2. ASSUME NEW u \in Uploads, FinalizeBegin(t, u)
      PROVE  \E j \in Jobs({0, 1}) : Arrives(t, "assemble", j) /\ pc[t] = "idle" /\ j.u = u
  <2> DEFINE j == [NoJob EXCEPT !.u = u]
  <2>1. j \in Jobs({0, 1}) /\ j.u = u BY DEF Jobs, NoJob
  <2>2. Begin(t, "assemble", j) /\ pc[t] = "idle" BY <1>2 DEF FinalizeBegin, Idle
  <2> HIDE DEF j
  <2>3. Fits("assemble", j) BY <2>1, LabelFacts DEF Fits
  <2> QED BY <2>1, <2>2, <2>3, Begins, Typed, LabelFacts
<1>3. ASSUME NEW u \in Uploads, DeleteRead(t, u)
      PROVE  \E j \in Jobs({0, 1}) :
               Arrives(t, "delete", j) /\ pc[t] = "idle" /\ j.u = u /\ j.h = artifact[u]
  <2>1. PICK h \in Hashes : h = artifact[u]
    BY <1>3, Typed DEF DeleteRead, TypeOK, StateTypeOK
  <2> DEFINE j == [NoJob EXCEPT !.u = u, !.h = h]
  <2>2. j \in Jobs({0, 1}) /\ j.u = u /\ j.h = h BY DEF Jobs, NoJob
  <2>3. Begin(t, "delete", j) /\ pc[t] = "idle" BY <1>3, <2>1 DEF DeleteRead, Idle
  <2> HIDE DEF j
  <2>4. Fits("delete", j) BY <2>2, LabelFacts DEF Fits
  <2> QED BY <2>1, <2>2, <2>3, <2>4, Begins, Typed, LabelFacts
<1>4. CASE GcMark(t)
  <2>1. PICK T \in SUBSET Hashes : /\ Begin(t, "gcUnlink", [NoJob EXCEPT !.todo = T])
                                   /\ marked' = [marked EXCEPT ![t] = T]
    BY <1>4 DEF GcMark
  <2> DEFINE j == [NoJob EXCEPT !.todo = T]
  <2>2. j \in Jobs({0, 1}) /\ j.todo = T BY DEF Jobs, NoJob
  <2>3. Begin(t, "gcUnlink", j) /\ pc[t] = "idle" /\ marked'[t] = T
    BY <1>4, <2>1, Typed DEF GcMark, Idle, TypeOK
  <2> HIDE DEF j
  <2>4. Fits("gcUnlink", j) BY LabelFacts DEF Fits
  <2> QED BY <1>4, <2>2, <2>3, <2>4, Begins, Typed, LabelFacts
<1>5. CASE ValidateScan(t)
  <2>1. PICK T \in SUBSET Hashes : Begin(t, "valRead", [NoJob EXCEPT !.todo = T])
    BY <1>5 DEF ValidateScan
  <2> DEFINE j == [NoJob EXCEPT !.todo = T]
  <2>2. j \in Jobs({0, 1}) BY DEF Jobs, NoJob
  <2>3. Begin(t, "valRead", j) /\ pc[t] = "idle" BY <1>5, <2>1 DEF ValidateScan, Idle
  <2> HIDE DEF j
  <2>4. Fits("valRead", j) BY LabelFacts DEF Fits
  <2> QED BY <2>2, <2>3, <2>4, Begins, Typed, LabelFacts
<1>6. "commit" \in Owning /\ "commit" # "assemble" BY DEF Owning, Hashed
<1> QED BY <1>1, <1>2, <1>3, <1>4, <1>5, <1>6, LabelFacts DEF Request

(* The steps, each with where it arrives: a finalize keeps its upload, a   *)
(* pass goes through what it has left, and a file is about to get its row  *)
(* only after it was placed where there was none.                          *)
Advances(t, l, j) ==
  /\ Arrives(t, l, j)
  /\ l \in Owning => pc[t] \in Owning /\ j.u = job[t].u
  /\ l = "putLink" => PutInsert(t) /\ j = job[t]
  /\ l = "gcUnlink" => pc[t] = "gcUnlink" /\ j.todo \subseteq job[t].todo /\ marked' = marked
  /\ l \notin {"putInsert", "delete"}
  /\ l = "commit" /\ j.flag = 1 =>
       j.h \notin files /\ files' = files \cup {j.h} /\ UNCHANGED <<upVars, rowVars, marked, raced>>

LEMMA StepMoves ==
  ASSUME Inv, NEW t \in Threads, Step(t)
  PROVE  \E l \in Labels, j \in Jobs({0, 1}) : Advances(t, l, j)
<1> DEFINE Good == \E l \in Labels, j \in Jobs({0, 1}) : Advances(t, l, j)
<1>0. /\ Fits(pc[t], job[t]) /\ job[t] \in Jobs({0, 1}) /\ pc[t] \in Labels
      /\ job[t].todo \subseteq Hashes
  BY ThreadFits
<1>1. ASSUME Finish(t) PROVE Good
  <2>1. Arrives(t, "idle", NoJob) BY <1>1, Ends
  <2>2. "idle" \in Labels /\ "idle" \notin Owning BY LabelFacts
  <2>3. Advances(t, "idle", NoJob) BY <2>1, <2>2 DEF Advances
  <2> QED BY <2>2, <2>3, NoJobIsJob
<1>2. ASSUME NEW l \in Labels \ {"putInsert", "putLink", "gcUnlink", "delete"}, NEW j \in Jobs({0, 1}),
             Begin(t, l, j), Fits(l, j),
             l \in Owning => pc[t] \in Owning /\ j.u = job[t].u,
             l = "commit" => j.flag = 0
      PROVE  Good
  <2>1. Arrives(t, l, j) BY <1>2, Begins, Typed
  <2>2. Advances(t, l, j) BY <1>2, <2>1 DEF Advances
  <2> QED BY <2>2
<1>3. ASSUME NEW l \in Owning \ {"commit"}, Goto(t, l), pc[t] \in Owning,
             l \in Hashed => pc[t] \in Hashed
      PROVE  Good
  <2>1. Begin(t, l, job[t]) BY <1>3, Typed DEF Goto, Begin, TypeOK, StateTypeOK
  <2>2. l \in Labels \ {"putInsert", "putLink", "gcUnlink", "delete"} BY LabelFacts
  <2>3. Fits(l, job[t])
    <3>1. l \notin {"putInsert", "putLink", "delete", "valSet", "commit"} BY LabelFacts
    <3> QED BY <1>0, <1>3, <3>1 DEF Fits
  <2> QED BY <1>0, <1>2, <1>3, <2>1, <2>2, <2>3
<1>4. CASE PutInsert(t)
  <2>1. CASE Goto(t, "putLink")
    <3>1. pc[t] = "putInsert" BY <1>4 DEF PutInsert
    <3>2. Fits("putLink", job[t]) BY <1>0, <3>1, LabelFacts DEF Fits
    <3>3. Arrives(t, "putLink", job[t]) BY <2>1, <3>2, GoesOn, LabelFacts
    <3>4. Advances(t, "putLink", job[t]) BY <1>4, <3>3, LabelFacts DEF Advances
    <3> QED BY <1>0, <3>4, LabelFacts
  <2>2. CASE Finish(t) BY <1>1, <2>2
  <2> QED BY <1>4, <2>1, <2>2 DEF PutInsert
<1>5. CASE PutLink(t) \/ Rollback(t) \/ Delete(t) \/ GcDelete(t) \/ GcError(t) \/ ValidateEnd(t)
  BY <1>1, <1>5 DEF PutLink, Rollback, Delete, GcDelete, GcError, ValidateEnd
<1>6. CASE Assemble(t)
  <2>0. pc[t] \in Owning /\ job[t].u \in Uploads BY <1>0, <1>6, LabelFacts DEF Assemble, Fits
  <2>1. ASSUME NEW h \in Hashes, Assembled(job[t].u, h), Begin(t, "decide", [job[t] EXCEPT !.h = h])
        PROVE  Good
    <3> DEFINE j == [job[t] EXCEPT !.h = h]
    <3>1. j \in Jobs({0, 1}) /\ j.u = job[t].u /\ j.h = h BY <1>0 DEF Jobs
    <3>2. Begin(t, "decide", j) BY <2>1
    <3> HIDE DEF j
    <3>3. Received(job[t].u) /\ chunkRow[job[t].u] = chunkFile[job[t].u]
      <4>1. \A i \in Chunks : chunkRow[job[t].u][i] = chunkFile[job[t].u][i]
                              /\ chunkFile[job[t].u][i] # None
        BY <2>0, <2>1 DEF Assembled, Inv, FileIsRow
      <4>2. /\ chunkRow[job[t].u] \in [Chunks -> Data \cup {None}]
            /\ chunkFile[job[t].u] \in [Chunks -> Data \cup {None}]
        BY <2>0, Typed DEF TypeOK, StateTypeOK
      <4> QED BY <4>1, <4>2 DEF Received
    <3>4. Digest[chunkRow[job[t].u]] = h BY <2>1, <3>3 DEF Assembled
    <3>5. "decide" \in Hashed /\ "decide" # "commit" BY DEF Hashed
    <3>6. Fits("decide", j) BY <2>0, <3>1, <3>3, <3>4, <3>5 DEF Fits
    <3>7. "decide" \in Labels \ {"putInsert", "putLink", "gcUnlink", "delete"} BY <3>5, LabelFacts
    <3> QED BY <1>2, <2>0, <3>1, <3>2, <3>5, <3>6, <3>7
  <2>2. CASE Goto(t, "rollback")
    <3>1. "rollback" \in Owning \ {"commit"} /\ "rollback" \notin Hashed BY LabelFacts
    <3> QED BY <1>3, <2>0, <2>2, <3>1
  <2> QED BY <1>6, <2>1, <2>2 DEF Assemble
<1>7. ASSUME NEW f \in {0, 1}, Begin(t, "commit", [job[t] EXCEPT !.flag = f]), pc[t] \in Hashed,
             f = 1 => /\ job[t].h \notin files /\ files' = files \cup {job[t].h}
                      /\ UNCHANGED <<upVars, rowVars, marked, raced>>
      PROVE  Good
  <2> DEFINE j == [job[t] EXCEPT !.flag = f]
  <2>1. j \in Jobs({0, 1}) /\ j.u = job[t].u /\ j.h = job[t].h /\ j.flag = f BY <1>0 DEF Jobs
  <2>2. Begin(t, "commit", j) BY <1>7
  <2> HIDE DEF j
  <2>3. pc[t] \in Owning /\ "commit" \in Hashed BY <1>7, LabelFacts DEF Hashed
  <2>4. "commit" \in Labels \ {"putInsert", "putLink", "gcUnlink", "delete"} BY <2>3, LabelFacts
  <2>5. Fits("commit", j) BY <1>0, <1>7, <2>1, <2>3, LabelFacts DEF Fits
  <2>6. Arrives(t, "commit", j) BY <2>1, <2>2, <2>4, <2>5, Begins, Typed
  <2>7. Advances(t, "commit", j) BY <1>7, <2>1, <2>3, <2>4, <2>6 DEF Advances
  <2> QED BY <2>1, <2>4, <2>7
<1>8. CASE Decide(t) \/ WaitForGc(t) \/ Link(t) \/ Settle(t) \/ ReplaceUnlink(t) \/ ReplaceLink(t)
  <2>0. pc[t] \in Hashed /\ pc[t] \in Owning
    BY <1>8, LabelFacts DEF Decide, WaitForGc, Link, Settle, ReplaceUnlink, ReplaceLink, Hashed
  <2>1. ASSUME NEW l \in {"link", "waitGc", "rollback", "settle", "unlink", "relink"}, Goto(t, l)
        PROVE  Good
    <3>1. l \in Owning \ {"commit"} BY DEF Owning, Hashed
    <3> QED BY <1>3, <2>0, <2>1, <3>1
  <2>2. CASE Decide(t)
    <3>1. \/ Begin(t, "commit", [job[t] EXCEPT !.flag = 0])
          \/ \E l \in {"link", "waitGc"} : Goto(t, l)
      BY <2>2 DEF Decide
    <3> QED BY <1>7, <2>0, <2>1, <3>1
  <2>3. CASE WaitForGc(t) BY <2>1, <2>3 DEF WaitForGc
  <2>4. CASE Link(t)
    <3>1. CASE job[t].h \in files BY <2>1, <2>4, <3>1 DEF Link
    <3>2. CASE job[t].h \notin files BY <1>7, <2>0, <2>4, <3>2 DEF Link
    <3> QED BY <3>1, <3>2
  <2>5. CASE Settle(t)
    <3>1. Begin(t, "commit", [job[t] EXCEPT !.flag = 0]) \/ Goto(t, "unlink") BY <2>5 DEF Settle
    <3> QED BY <1>7, <2>0, <2>1, <3>1
  <2>6. CASE ReplaceUnlink(t) BY <2>1, <2>6 DEF ReplaceUnlink
  <2>7. CASE ReplaceLink(t)
    <3>1. CASE job[t].h \in files BY <2>1, <2>7, <3>1 DEF ReplaceLink
    <3>2. CASE job[t].h \notin files BY <1>7, <2>0, <2>7, <3>2 DEF ReplaceLink
    <3> QED BY <3>1, <3>2
  <2> QED BY <1>8, <2>2, <2>3, <2>4, <2>5, <2>6, <2>7
<1>9. CASE Commit(t) \/ FinalizeError(t)
  <2>1. Finish(t) \/ \E l \in {"rollback", "decide"} : Goto(t, l) /\ (l = "decide" => pc[t] = "commit")
    BY <1>9 DEF Commit, Publish, FinalizeError
  <2>2. pc[t] \in Owning BY <1>9 DEF Commit, FinalizeError, Owning, Hashed
  <2>3. ASSUME NEW l \in {"rollback", "decide"}, Goto(t, l), l = "decide" => pc[t] = "commit"
        PROVE  Good
    <3>1. l \in Owning \ {"commit"} /\ "commit" \in Hashed /\ "rollback" \notin Hashed
      BY DEF Owning, Hashed
    <3> QED BY <1>3, <2>2, <2>3, <3>1
  <2> QED BY <1>1, <2>1, <2>3
<1>10. ASSUME NEW h \in Hashes, GcUnlink(t, h) PROVE Good
  <2> DEFINE j == [job[t] EXCEPT !.todo = job[t].todo \ {h}]
  <2>1. j \in Jobs({0, 1}) /\ j.todo = job[t].todo \ {h} BY <1>0 DEF Jobs
  <2>2. Begin(t, "gcUnlink", j) /\ pc[t] = "gcUnlink" /\ marked' = marked BY <1>10 DEF GcUnlink
  <2> HIDE DEF j
  <2>3. Fits("gcUnlink", j) BY LabelFacts DEF Fits
  <2>4. Arrives(t, "gcUnlink", j) BY <2>1, <2>2, <2>3, Begins, Typed, LabelFacts
  <2>5. Advances(t, "gcUnlink", j) BY <2>1, <2>2, <2>4, LabelFacts DEF Advances
  <2> QED BY <2>1, <2>5, LabelFacts
<1>11. ASSUME NEW h \in Hashes, ValidateRead(t, h) PROVE Good
  <2> DEFINE j == [job[t] EXCEPT !.todo = job[t].todo \ {h}]
             f == IF h \in files THEN 1 ELSE 0
             k == [j EXCEPT !.h = h, !.flag = f]
  <2>1. f \in {0, 1} OBVIOUS
  <2> HIDE DEF f
  <2>2. j \in Jobs({0, 1}) /\ k \in Jobs({0, 1}) /\ k.h = h /\ k.flag = f BY <1>0, <2>1 DEF Jobs
  <2>3. Begin(t, "valSet", k) \/ Begin(t, "valRead", j) BY <1>11 DEF ValidateRead, f
  <2> HIDE DEF j, k
  <2>4. Fits("valSet", k) /\ Fits("valRead", j)
    <3>1. {"valSet", "valRead"} \cap Hashed = {} BY LabelFacts
    <3> QED BY <2>1, <2>2, <3>1, LabelFacts DEF Fits
  <2>5. CASE Begin(t, "valSet", k) BY <1>2, <2>2, <2>4, <2>5, LabelFacts
  <2>6. CASE Begin(t, "valRead", j) BY <1>2, <2>2, <2>4, <2>6, LabelFacts
  <2> QED BY <2>3, <2>5, <2>6
<1>12. CASE ValidateSet(t)
  <2>1. Begin(t, "valRead", job[t]) BY <1>12, Typed DEF ValidateSet, Goto, Begin, TypeOK, StateTypeOK
  <2>2. Fits("valRead", job[t]) BY LabelFacts DEF Fits
  <2> QED BY <1>0, <1>2, <2>1, <2>2, LabelFacts
<1> QED BY <1>4, <1>5, <1>6, <1>8, <1>9, <1>10, <1>11, <1>12 DEF Step

-----------------------------------------------------------------------------
(* The tables.  A commit adds a reference, a delete takes one, and passes  *)
(* and start-up change or remove rows without references.                  *)

Published(t) ==
  \E u \in Uploads, h \in Hashes, row \in Row :
    /\ u = job[t].u /\ h = job[t].h /\ pc[t] = "commit"
    /\ artifact[u] = None /\ ustate[u] = "finalizing"
    /\ row.state = "active" /\ row.refs \in 0..(Cardinality(Refs(h)) + 1)
    /\ RefcountExact => row.refs = Cardinality(Refs(h)) + 1
    /\ Received(u) /\ Digest[chunkRow[u]] = h
    /\ \/ Adding(t, h) /\ blob[h] = None
       \/ RowState(h) = "active"
    /\ Publish(t, row)

Relabelled ==
  /\ artifact' = artifact /\ raced' = raced
  /\ blob' \in [Hashes -> Row \cup {None}]
  /\ \A h \in Hashes :
       \/ blob'[h] = blob[h]
       \/ /\ blob[h] # None /\ blob'[h] # None /\ blob'[h].refs = blob[h].refs
          /\ blob'[h].state = "collecting" => blob[h].refs = 0
       \/ blob'[h] = None /\ Refs(h) = {}

Tables ==
  /\ artifact \in [Uploads -> Hashes \cup {None}]
  /\ blob \in [Hashes -> Row \cup {None}]
  /\ \A h \in Hashes : blob[h] # None =>
       /\ blob[h].refs \in 0..Cardinality(Refs(h))
       /\ blob[h].state = "collecting" => blob[h].refs = 0

LEMMA TablesHold == Inv => Tables
BY Rows, Typed DEF Tables, TypeOK, StateTypeOK

LEMMA RowFields ==
  ASSUME NEW r \in Row, NEW s \in {"active", "collecting"}
  PROVE  /\ [r EXCEPT !.state = s] \in Row /\ [r EXCEPT !.state = s].refs = r.refs
         /\ [r EXCEPT !.state = s].state = s
BY ONLY r \in Row, s \in {"active", "collecting"} DEF Row

(* A commit that succeeds publishes the digest of the recorded chunks.     *)
LEMMA CommitPublishes ==
  ASSUME Inv, NEW t \in Threads, Commit(t)
  PROVE  Published(t) \/ UNCHANGED <<upVars, rowVars>>
<1> USE DEF upVars, rowVars
<1>1. pc[t] = "commit" /\ "commit" \in Hashed /\ "commit" \in Owning
  BY DEF Commit, Owning, Hashed
<1>2. PICK u \in Uploads, h \in Hashes : u = job[t].u /\ h = job[t].h
  BY <1>1 DEF Inv, ThreadInv, JobSet
<1>3. /\ ustate[u] = "finalizing" /\ Received(u) /\ Digest[chunkRow[u]] = h
  BY <1>1, <1>2 DEF Inv, ThreadInv, OwnsUpload
<1>4. artifact[u] = None BY <1>3 DEF Inv, ArtifactFinalized
<1>5. CASE job[t].flag = 1 /\ blob[h] = None
  <2> DEFINE row == [refs |-> 1, state |-> "active", validated |-> 1]
  <2>1. row \in Row /\ row.refs = 1 /\ row.state = "active" BY DEF Row
  <2>2. Publish(t, row) BY <1>2, <1>5 DEF Commit
  <2> HIDE DEF row
  <2>3. row.refs \in 0..(Cardinality(Refs(h)) + 1) BY <2>1, RefsCount
  <2>4. RefcountExact => row.refs = Cardinality(Refs(h)) + 1
    BY <1>5, <2>1, RefsCount DEF RefcountExact
  <2>5. Adding(t, h) BY <1>1, <1>2, <1>5 DEF Adding
  <2> QED BY <1>1, <1>2, <1>3, <1>4, <1>5, <2>1, <2>2, <2>3, <2>4, <2>5 DEF Published
<1>6. CASE ~(job[t].flag = 1 /\ blob[h] = None) /\ job[t].flag = 0 /\ RowState(h) = "active"
  <2>1. blob[h] # None BY <1>6, NoneFresh DEF RowState
  <2>2. PICK r \in Row, n \in Int : r = blob[h] /\ n = blob[h].refs + 1 BY <2>1, Rows
  <2>3. /\ [r EXCEPT !.refs = n] \in Row /\ [r EXCEPT !.refs = n].refs = n
        /\ [r EXCEPT !.refs = n].state = r.state
    BY ONLY r \in Row, n \in Int DEF Row
  <2>4. Publish(t, [r EXCEPT !.refs = n]) BY <1>2, <1>6, <2>2 DEF Commit
  <2>5. r.state = "active" BY <1>6, <2>1, <2>2, Rows
  <2>6. n \in 0..(Cardinality(Refs(h)) + 1) BY <2>1, <2>2, Rows, RefsCount
  <2>7. RefcountExact => n = Cardinality(Refs(h)) + 1 BY <2>1, <2>2 DEF RefcountExact
  <2> QED BY <1>1, <1>2, <1>3, <1>4, <1>6, <2>3, <2>4, <2>5, <2>6, <2>7 DEF Published
<1> QED BY <1>2, <1>5, <1>6 DEF Commit

LEMMA PassesRelabel ==
  ASSUME Inv, NEW t \in Threads, GcMark(t) \/ ValidateSet(t) \/ GcDelete(t)
  PROVE  Relabelled
<1>0. blob \in [Hashes -> Row \cup {None}] BY Typed DEF TypeOK, StateTypeOK
<1>1. CASE GcMark(t)
  <2> DEFINE dead == {h \in Hashes : RowState(h) = "active" /\ blob[h].refs = 0}
  <2>1. blob' = [h \in Hashes |-> IF h \in dead THEN [blob[h] EXCEPT !.state = "collecting"] ELSE blob[h]]
    BY <1>1 DEF GcMark
  <2>2. ASSUME NEW h \in dead
        PROVE  /\ blob[h] # None /\ blob'[h] \in Row /\ blob'[h] # None
               /\ blob'[h].refs = blob[h].refs /\ blob[h].refs = 0
    <3>1. blob[h] # None BY <2>2, NoneFresh DEF RowState
    <3>2. blob[h] \in Row BY <1>0, <3>1
    <3>3. blob'[h] = [blob[h] EXCEPT !.state = "collecting"] BY <2>1, <2>2
    <3>4. /\ [blob[h] EXCEPT !.state = "collecting"] \in Row
          /\ [blob[h] EXCEPT !.state = "collecting"].refs = blob[h].refs
      BY ONLY <3>2, RowFields
    <3> QED BY <2>2, <3>1, <3>3, <3>4, NoneFresh
  <2>3. ASSUME NEW h \in Hashes \ dead PROVE blob'[h] = blob[h] BY <2>1, <2>3
  <2>4. artifact' = artifact /\ raced' = raced /\ blob' = [h \in Hashes |-> blob'[h]]
    BY <1>1, <2>1 DEF GcMark
  <2>5. dead \subseteq Hashes OBVIOUS
  <2> HIDE DEF dead
  <2>6. \A h \in Hashes : blob'[h] \in Row \cup {None} BY <1>0, <2>2, <2>3
  <2>7. blob' \in [Hashes -> Row \cup {None}] BY <2>4, <2>6
  <2> QED BY <2>2, <2>3, <2>4, <2>7 DEF Relabelled
<1>2. CASE GcDelete(t)
  <2>1. blob' = blob \/ \E D \in SUBSET Hashes :
          /\ \A h \in D : Refs(h) = {}
          /\ blob' = [h \in Hashes |-> IF h \in D THEN None ELSE blob[h]]
    <3> DEFINE dead == {h \in marked[t] : RowState(h) = "collecting" /\ blob[h].refs = 0}
    <3>1. dead \subseteq Hashes BY Typed DEF TypeOK
    <3>2. blob' = IF \E h \in dead : Refs(h) # {} THEN blob
                  ELSE [h \in Hashes |-> IF h \in dead THEN None ELSE blob[h]]
      BY <1>2 DEF GcDelete
    <3> HIDE DEF dead
    <3> QED BY <3>1, <3>2
  <2>2. artifact' = artifact /\ raced' = raced BY <1>2 DEF GcDelete
  <2>3. CASE blob' = blob BY <1>0, <2>2, <2>3 DEF Relabelled
  <2>4. ASSUME NEW D \in SUBSET Hashes, \A h \in D : Refs(h) = {},
               blob' = [h \in Hashes |-> IF h \in D THEN None ELSE blob[h]]
        PROVE  Relabelled
    BY <1>0, <2>2, <2>4 DEF Relabelled
  <2> QED BY <2>1, <2>3, <2>4
<1>3. CASE ValidateSet(t)
  <2>1. PICK h \in Hashes, f \in {0, 1} : h = job[t].h /\ f = job[t].flag
    BY <1>3 DEF ValidateSet, Inv, ThreadInv, JobSet
  <2>2. CASE blob[h] = None
    <3>1. blob' = blob BY <1>0, <1>3, <2>1, <2>2 DEF ValidateSet, SetRow
    <3> QED BY <1>0, <1>3, <3>1 DEF ValidateSet, Relabelled
  <2>3. CASE blob[h] # None
    <3>1. blob[h] \in Row /\ (blob[h].state = "collecting" => blob[h].refs = 0) BY <2>3, Rows
    <3>2. blob' = [blob EXCEPT ![h] = [blob[h] EXCEPT !.validated = f]]
      BY <1>3, <2>1, <2>3 DEF ValidateSet, SetRow
    <3>3. /\ [blob[h] EXCEPT !.validated = f] \in Row
          /\ [blob[h] EXCEPT !.validated = f].refs = blob[h].refs
          /\ [blob[h] EXCEPT !.validated = f].state = blob[h].state
      <4>1. PICK r \in Row : r = blob[h] BY <3>1
      <4>2. /\ [r EXCEPT !.validated = f] \in Row /\ [r EXCEPT !.validated = f].refs = r.refs
            /\ [r EXCEPT !.validated = f].state = r.state
        BY ONLY r \in Row, f \in {0, 1} DEF Row
      <4> QED BY <4>1, <4>2
    <3>4. /\ blob'[h] = [blob[h] EXCEPT !.validated = f]
          /\ \A g \in Hashes \ {h} : blob'[g] = blob[g]
          /\ blob' \in [Hashes -> Row \cup {None}]
      BY <1>0, <3>2, <3>3
    <3> QED BY <1>3, <2>3, <3>1, <3>3, <3>4, NoneFresh DEF ValidateSet, Relabelled
  <2> QED BY <2>2, <2>3
<1> QED BY <1>1, <1>2, <1>3

LEMMA RestartRelabels ==
  ASSUME Inv, Restart
  PROVE  /\ Relabelled
         /\ \A h \in Hashes : RowState(h)' # None =>
              blob[h] # None /\ (RowState(h) = "collecting" => h \in files)
<1>0. blob \in [Hashes -> Row \cup {None}] BY Typed DEF TypeOK, StateTypeOK
<1> DEFINE lost == {h \in Hashes : RowState(h) = "collecting" /\ h \notin files}
<1>1. /\ artifact' = artifact /\ raced' = raced /\ \A h \in lost : Refs(h) = {}
      /\ blob' = [h \in Hashes |-> IF h \in lost THEN None
                    ELSE IF blob[h] = None THEN None ELSE [blob[h] EXCEPT !.state = "active"]]
  BY DEF Restart
<1>2. ASSUME NEW h \in Hashes, RowState(h)' # None
      PROVE  blob[h] # None /\ (RowState(h) = "collecting" => h \in files)
  <2>1. blob'[h] # None BY <1>2 DEF RowState
  <2> QED BY <1>1, <2>1
<1>3. lost \subseteq Hashes OBVIOUS
<1> HIDE DEF lost
<1>4. ASSUME NEW h \in Hashes, h \notin lost, blob[h] # None
      PROVE  /\ blob'[h] \in Row /\ blob'[h] # None /\ blob'[h].refs = blob[h].refs
             /\ blob'[h].state = "active"
  <2>1. blob[h] \in Row BY <1>0, <1>4
  <2>2. blob'[h] = [blob[h] EXCEPT !.state = "active"] BY <1>1, <1>4
  <2>3. /\ [blob[h] EXCEPT !.state = "active"] \in Row
        /\ [blob[h] EXCEPT !.state = "active"].refs = blob[h].refs
        /\ [blob[h] EXCEPT !.state = "active"].state = "active"
    BY ONLY <2>1, RowFields
  <2> QED BY <2>2, <2>3, NoneFresh
<1>5. ASSUME NEW h \in Hashes, h \in lost \/ blob[h] = None
      PROVE  blob'[h] = None /\ (blob[h] = None \/ Refs(h) = {})
  BY <1>1, <1>5
<1>6. blob' = [h \in Hashes |-> blob'[h]] BY <1>1
<1>7. \A h \in Hashes : blob'[h] \in Row \cup {None} BY <1>4, <1>5
<1>8. blob' \in [Hashes -> Row \cup {None}] BY <1>6, <1>7
<1>9. Relabelled BY <1>1, <1>4, <1>5, <1>8 DEF Relabelled
<1> QED BY <1>2, <1>9

(* One row gets a new count.                                               *)
LEMMA OneRow ==
  ASSUME Tables, NEW h \in Hashes, NEW row \in Row, blob' = [blob EXCEPT ![h] = row],
         row.refs \in 0..Cardinality(Refs(h)'), row.state = "collecting" => row.refs = 0,
         artifact' \in [Uploads -> Hashes \cup {None}],
         \A g \in Hashes \ {h} : Refs(g)' = Refs(g)
  PROVE  /\ Tables'
         /\ RefcountExact /\ row.refs = Cardinality(Refs(h)') => RefcountExact'
<1>1. /\ blob'[h] = row /\ row # None
      /\ \A g \in Hashes \ {h} : blob'[g] = blob[g]
      /\ blob' \in [Hashes -> Row \cup {None}]
  BY NoneFresh DEF Tables
<1>2. ASSUME RefcountExact, row.refs = Cardinality(Refs(h)') PROVE RefcountExact'
  <2> SUFFICES ASSUME NEW g \in Hashes
               PROVE  IF blob'[g] = None THEN Refs(g)' = {}
                      ELSE blob'[g].refs = Cardinality(Refs(g)')
    BY DEF RefcountExact
  <2>1. CASE g = h BY <1>1, <1>2, <2>1
  <2>2. CASE g # h BY <1>1, <1>2, <2>2 DEF RefcountExact
  <2> QED BY <2>1, <2>2
<1>3. ASSUME NEW g \in Hashes, blob'[g] # None
      PROVE  /\ blob'[g].refs \in 0..Cardinality(Refs(g)')
             /\ blob'[g].state = "collecting" => blob'[g].refs = 0
  <2>1. CASE g = h BY <1>1, <2>1
  <2>2. CASE g # h BY <1>1, <1>3, <2>2 DEF Tables
  <2> QED BY <2>1, <2>2
<1> QED BY <1>1, <1>2, <1>3 DEF Tables

(* No step forgets a race.                                                 *)
LEMMA RacedStays ==
  ASSUME [Next]_vars
  PROVE  raced => raced'
<1>1. ASSUME NEW t \in Threads, Request(t) PROVE raced' = raced
  BY <1>1 DEF Request, PutCheck, FinalizeBegin, DeleteRead, GcMark, ValidateScan
<1>2. ASSUME NEW t \in Threads, Step(t) PROVE raced => raced'
  BY <1>2 DEF Step, PutInsert, PutLink, Assemble, Decide, WaitForGc, Link, Settle, ReplaceUnlink,
         ReplaceLink, Publish, Commit, FinalizeError, Rollback, Delete, GcDelete, GcError,
         GcUnlink, ValidateRead, ValidateSet, ValidateEnd
<1>3. CASE Restart \/ \E u \in Uploads : CreateUpload(u) BY <1>3 DEF Restart, CreateUpload
<1>4. CASE UNCHANGED vars BY <1>4 DEF vars
<1> QED BY <1>1, <1>2, <1>3, <1>4 DEF Next

(* Every step that changes the tables.                                     *)
LEMMA Changes ==
  ASSUME Inv, [Next]_vars
  PROVE  \/ UNCHANGED rowVars
         \/ \E t \in Threads : Published(t) \/ Delete(t)
         \/ Relabelled
<1> USE DEF upVars, rowVars
<1>1. ASSUME NEW t \in Threads, Request(t) PROVE UNCHANGED rowVars \/ Relabelled
  BY <1>1, PassesRelabel DEF Request, PutCheck, FinalizeBegin, DeleteRead, ValidateScan
<1>2. ASSUME NEW t \in Threads, Step(t)
      PROVE  UNCHANGED rowVars \/ Relabelled \/ Published(t) \/ Delete(t)
  BY <1>2, PassesRelabel, CommitPublishes
     DEF Step, PutInsert, PutLink, Assemble, Decide, WaitForGc, Link, Settle, ReplaceUnlink,
         ReplaceLink, FinalizeError, Rollback, GcError, GcUnlink, ValidateRead, ValidateEnd
<1>3. CASE UNCHANGED vars BY <1>3 DEF vars
<1>4. CASE Restart BY <1>4, RestartRelabels
<1> QED BY <1>1, <1>2, <1>3, <1>4 DEF Next, CreateUpload

(* The counts never exceed the artifact rows, and are exact until a race.  *)
LEMMA TablesStep ==
  ASSUME Inv, [Next]_vars
  PROVE  Tables' /\ (raced' \/ RefcountExact')
<1> USE DEF upVars, rowVars
<1>0. Tables /\ (raced \/ RefcountExact) BY TablesHold DEF Inv
<1>1. CASE UNCHANGED rowVars
  BY <1>0, <1>1, RacedStays DEF Tables, RefcountExact, Refs
<1>2. ASSUME NEW t \in Threads, Delete(t) PROVE Tables' /\ (raced' \/ RefcountExact')
  <2>1. PICK u \in Uploads, h \in Hashes : u = job[t].u /\ h = job[t].h
    BY <1>2, LabelFacts DEF Delete, Inv, ThreadInv, JobSet
  <2>2. artifact[u] \in {None, h}
    BY <1>2, <2>1 DEF Delete, Inv, ThreadInv, OwnsUpload
  <2>3. artifact' = [artifact EXCEPT ![u] = None] /\ (raced' <=> raced \/ artifact[u] = None)
    BY <1>2, <2>1 DEF Delete
  <2>4. /\ artifact' \in [Uploads -> Hashes \cup {None}]
        /\ \A v \in Uploads : artifact'[v] = IF v = u THEN None ELSE artifact[v]
    BY <1>0, <2>3 DEF Tables
  <2>5. Refs(h)' = Refs(h) \ {u} /\ \A g \in Hashes \ {h} : Refs(g)' = Refs(g)
    BY <2>2, <2>4, NoneFresh DEF Refs
  <2>6. /\ Cardinality(Refs(h)) \in Nat /\ Cardinality(Refs(h)') \in Nat
        /\ Cardinality(Refs(h)') >= Cardinality(Refs(h)) - 1
        /\ artifact[u] # None => Cardinality(Refs(h)') = Cardinality(Refs(h)) - 1
    <3>1. IsFiniteSet(Refs(h)) /\ Cardinality(Refs(h)) \in Nat BY RefsCount
    <3>2. Cardinality(Refs(h) \ {u}) = IF u \in Refs(h) THEN Cardinality(Refs(h)) - 1
                                       ELSE Cardinality(Refs(h))
      BY <3>1, FS_RemoveElement
    <3>3. IsFiniteSet(Refs(h) \ {u}) BY <3>1, FS_RemoveElement
    <3>4. Cardinality(Refs(h) \ {u}) \in Nat BY <3>3, FS_CardinalityType
    <3>5. artifact[u] # None => u \in Refs(h) BY <2>2 DEF Refs
    <3> QED BY <2>5, <3>1, <3>2, <3>4, <3>5
  <2>7. CASE blob[h] = None
    <3>1. blob' = blob BY <1>0, <1>2, <2>1, <2>7 DEF Delete, SetRow, Tables
    <3>2. Tables' BY <1>0, <2>4, <2>5, <2>7, <3>1 DEF Tables
    <3>3. RefcountExact => RefcountExact' BY <2>5, <2>7, <3>1 DEF RefcountExact
    <3> QED BY <1>0, <2>3, <3>2, <3>3
  <2>8. CASE blob[h] # None
    <3>1. PICK r \in Row, n \in Int : /\ r = blob[h]
                                      /\ n = IF blob[h].refs > 0 THEN blob[h].refs - 1 ELSE blob[h].refs
      BY <2>8, Rows
    <3>2. blob' = [blob EXCEPT ![h] = [r EXCEPT !.refs = n]]
      BY <1>2, <2>1, <2>8, <3>1 DEF Delete, SetRow
    <3>3. /\ [r EXCEPT !.refs = n] \in Row /\ [r EXCEPT !.refs = n].refs = n
          /\ [r EXCEPT !.refs = n].state = r.state
      BY ONLY r \in Row, n \in Int DEF Row
    <3>4. r.refs \in 0..Cardinality(Refs(h)) /\ (r.state = "collecting" => r.refs = 0)
      BY <1>0, <2>8, <3>1 DEF Tables
    <3>5. n \in 0..Cardinality(Refs(h)') /\ (r.state = "collecting" => n = 0)
      BY <2>6, <3>1, <3>4
    <3>6. /\ Tables'
          /\ RefcountExact /\ n = Cardinality(Refs(h)') => RefcountExact'
      <4> DEFINE row == [r EXCEPT !.refs = n]
      <4>1. row \in Row /\ row.refs = n /\ (row.state = "collecting" => row.refs = 0)
        BY <3>3, <3>5
      <4>2. blob' = [blob EXCEPT ![h] = row] BY <3>2
      <4> HIDE DEF row
      <4> QED BY <1>0, <2>4, <2>5, <3>5, <4>1, <4>2, OneRow
    <3>7. RefcountExact /\ artifact[u] # None => n = Cardinality(Refs(h)')
      <4> SUFFICES ASSUME RefcountExact, artifact[u] # None PROVE n = Cardinality(Refs(h)')
        OBVIOUS
      <4>1. r.refs = Cardinality(Refs(h)) BY <2>8, <3>1 DEF RefcountExact
      <4> QED BY <2>6, <3>1, <4>1
    <3> QED BY <1>0, <2>3, <3>6, <3>7
  <2> QED BY <2>7, <2>8
<1>3. ASSUME NEW t \in Threads, Published(t) PROVE Tables' /\ (raced' \/ RefcountExact')
  <2>1. PICK u \in Uploads, h \in Hashes, row \in Row :
          /\ u = job[t].u /\ h = job[t].h /\ artifact[u] = None /\ row.state = "active"
          /\ row.refs \in 0..(Cardinality(Refs(h)) + 1)
          /\ RefcountExact => row.refs = Cardinality(Refs(h)) + 1
          /\ Publish(t, row)
    BY <1>3 DEF Published
  <2>2. artifact' = [artifact EXCEPT ![u] = h] /\ blob' = [blob EXCEPT ![h] = row] /\ raced' = raced
    BY <2>1 DEF Publish, SetRow
  <2>3. /\ artifact' \in [Uploads -> Hashes \cup {None}]
        /\ \A v \in Uploads : artifact'[v] = IF v = u THEN h ELSE artifact[v]
    BY <1>0, <2>2 DEF Tables
  <2>4. /\ u \notin Refs(h) /\ Refs(h)' = Refs(h) \cup {u}
        /\ \A g \in Hashes \ {h} : Refs(g)' = Refs(g)
    BY <2>1, <2>3, NoneFresh DEF Refs
  <2>5. Cardinality(Refs(h)') = Cardinality(Refs(h)) + 1
    BY <2>4, RefsCount, FS_AddElement
  <2>6. row.state # "collecting" BY <2>1
  <2> QED BY <1>0, <2>1, <2>2, <2>3, <2>4, <2>5, <2>6, OneRow
<1>4. CASE Relabelled
  <2>1. \A h \in Hashes : Refs(h)' = Refs(h) BY <1>4 DEF Relabelled, Refs
  <2>2. RefcountExact => RefcountExact' BY <1>4, <2>1 DEF Relabelled, RefcountExact
  <2>3. ASSUME NEW h \in Hashes, blob'[h] # None
        PROVE  /\ blob'[h].refs \in 0..Cardinality(Refs(h)')
               /\ blob'[h].state = "collecting" => blob'[h].refs = 0
    <3>1. CASE blob'[h] = blob[h] BY <1>0, <2>1, <2>3, <3>1 DEF Tables
    <3>2. CASE blob'[h] # blob[h]
      <4>1. blob[h] # None /\ blob'[h].refs = blob[h].refs
            /\ (blob'[h].state = "collecting" => blob[h].refs = 0)
        BY <1>4, <2>3, <3>2 DEF Relabelled
      <4> QED BY <1>0, <2>1, <4>1 DEF Tables
    <3> QED BY <3>1, <3>2
  <2> QED BY <1>0, <1>4, <2>2, <2>3 DEF Relabelled, Tables
<1> QED BY <1>1, <1>2, <1>3, <1>4, Changes

-----------------------------------------------------------------------------
(* The chunks.  A row never changes, and a file is that of its row.        *)

LEMMA PutFacts ==
  ASSUME Inv, NEW t \in Threads, PutInsert(t) \/ PutLink(t)
  PROVE  \E u \in Uploads, i \in Chunks, d \in Data :
           /\ u = job[t].u /\ i = job[t].i /\ d = job[t].d
           /\ PutInsert(t) => /\ chunkFile' = chunkFile
                              /\ chunkRow' = [chunkRow EXCEPT ![u][i] = IF @ = None THEN d ELSE @]
                              /\ pc'[t] = "putLink" => chunkRow'[u][i] = d
           /\ PutLink(t) => /\ chunkRow' = chunkRow /\ chunkRow[u][i] = d
                            /\ \/ chunkFile' = chunkFile
                               \/ chunkFile' = [chunkFile EXCEPT ![u][i] = IF @ = None THEN d ELSE @]
<1>1. PICK u \in Uploads, i \in Chunks, d \in Data : u = job[t].u /\ i = job[t].i /\ d = job[t].d
  BY DEF PutInsert, PutLink, Inv, ThreadInv, JobSet
<1>2. CASE PutInsert(t)
  <2>1. pc'[t] = "putLink" => chunkRow'[u][i] = d
    <3>1. CASE Finish(t)
      <4>1. pc'[t] = "idle" BY <3>1, Ends DEF Arrives
      <4> QED BY <4>1
    <3>2. CASE ~Finish(t) BY <1>1, <1>2, <3>2 DEF PutInsert
    <3> QED BY <3>1, <3>2
  <2>2. ~PutLink(t) BY <1>2 DEF PutInsert, PutLink
  <2> QED BY <1>1, <1>2, <2>1, <2>2 DEF PutInsert
<1>3. CASE PutLink(t)
  <2>1. chunkRow[u][i] = d BY <1>1, <1>3 DEF PutLink, Inv, ThreadInv, JobSet
  <2>2. ~PutInsert(t) BY <1>3 DEF PutInsert, PutLink
  <2> QED BY <1>1, <1>3, <2>1, <2>2 DEF PutLink
<1> QED BY <1>2, <1>3

LEMMA ChunkChanges ==
  ASSUME Inv, [Next]_vars
  PROVE  \/ UNCHANGED <<chunkRow, chunkFile>>
         \/ \E t \in Threads : PutInsert(t) \/ PutLink(t)
         \/ Restart
<1> USE DEF upVars
<1>1. ASSUME NEW t \in Threads, Request(t) PROVE UNCHANGED <<chunkRow, chunkFile>>
  BY <1>1 DEF Request, PutCheck, FinalizeBegin, DeleteRead, GcMark, ValidateScan
<1>2. ASSUME NEW t \in Threads, Step(t)
      PROVE  UNCHANGED <<chunkRow, chunkFile>> \/ PutInsert(t) \/ PutLink(t)
  BY <1>2 DEF Step, Assemble, Decide, WaitForGc, Link, Settle, ReplaceUnlink, ReplaceLink,
         Publish, Commit, FinalizeError, Rollback, Delete, GcDelete, GcError, GcUnlink,
         ValidateRead, ValidateSet, ValidateEnd
<1>3. CASE \E u \in Uploads : CreateUpload(u) BY <1>3 DEF CreateUpload
<1>4. CASE UNCHANGED vars BY <1>4 DEF vars
<1> QED BY <1>1, <1>2, <1>3, <1>4 DEF Next

LEMMA ChunksStep ==
  ASSUME Inv, [Next]_vars
  PROVE  /\ FileIsRow'
         /\ \A u \in Uploads, i \in Chunks :
              chunkRow[u][i] # None => chunkRow'[u][i] = chunkRow[u][i]
         /\ chunkRow' \in [Uploads -> [Chunks -> Data \cup {None}]]
         /\ chunkFile' \in [Uploads -> [Chunks -> Data \cup {None}]]
<1>0. /\ chunkRow \in [Uploads -> [Chunks -> Data \cup {None}]]
      /\ chunkFile \in [Uploads -> [Chunks -> Data \cup {None}]]
      /\ FileIsRow
  BY Typed DEF Inv, TypeOK, StateTypeOK
<1>1. CASE UNCHANGED <<chunkRow, chunkFile>> BY <1>0, <1>1 DEF FileIsRow
<1>2. CASE Restart
  <2>1. /\ chunkRow' = chunkRow
        /\ chunkFile' = [u \in Uploads |-> [i \in Chunks |->
                           IF chunkRow[u][i] = None THEN None ELSE chunkFile[u][i]]]
    BY <1>2 DEF Restart
  <2> QED BY <1>0, <2>1 DEF FileIsRow
<1>3. ASSUME NEW t \in Threads, PutInsert(t) \/ PutLink(t)
      PROVE  /\ FileIsRow'
             /\ \A u \in Uploads, i \in Chunks :
                  chunkRow[u][i] # None => chunkRow'[u][i] = chunkRow[u][i]
             /\ chunkRow' \in [Uploads -> [Chunks -> Data \cup {None}]]
             /\ chunkFile' \in [Uploads -> [Chunks -> Data \cup {None}]]
  <2>1. PICK u \in Uploads, i \in Chunks, d \in Data :
           /\ PutInsert(t) => /\ chunkFile' = chunkFile
                              /\ chunkRow' = [chunkRow EXCEPT ![u][i] = IF @ = None THEN d ELSE @]
           /\ PutLink(t) => /\ chunkRow' = chunkRow /\ chunkRow[u][i] = d
                            /\ \/ chunkFile' = chunkFile
                               \/ chunkFile' = [chunkFile EXCEPT ![u][i] = IF @ = None THEN d ELSE @]
    BY <1>3, PutFacts
  <2>2. CASE PutInsert(t)
    <3>1. chunkFile' = chunkFile /\ chunkRow' = [chunkRow EXCEPT ![u][i] = IF @ = None THEN d ELSE @]
      BY <2>1, <2>2
    <3>2. /\ \A v \in Uploads, j \in Chunks :
               chunkRow'[v][j] = IF v = u /\ j = i /\ chunkRow[v][j] = None THEN d ELSE chunkRow[v][j]
          /\ chunkRow' \in [Uploads -> [Chunks -> Data \cup {None}]]
      BY ONLY <1>0, <3>1, u \in Uploads, i \in Chunks, d \in Data
    <3> QED BY <1>0, <3>1, <3>2 DEF FileIsRow
  <2>3. CASE PutLink(t) /\ chunkFile' = chunkFile BY <1>0, <2>1, <2>3 DEF FileIsRow
  <2>4. CASE PutLink(t) /\ chunkFile' # chunkFile
    <3>1. /\ chunkRow' = chunkRow /\ chunkRow[u][i] = d
          /\ chunkFile' = [chunkFile EXCEPT ![u][i] = IF @ = None THEN d ELSE @]
      BY <2>1, <2>4
    <3>2. /\ \A v \in Uploads, j \in Chunks :
               chunkFile'[v][j] = IF v = u /\ j = i /\ chunkFile[v][j] = None THEN d ELSE chunkFile[v][j]
          /\ chunkFile' \in [Uploads -> [Chunks -> Data \cup {None}]]
      BY ONLY <1>0, <3>1, u \in Uploads, i \in Chunks, d \in Data
    <3> QED BY <1>0, <3>1, <3>2 DEF FileIsRow
  <2> QED BY <1>3, <2>2, <2>3, <2>4
<1> QED BY <1>1, <1>2, <1>3, ChunkChanges

(* All of an upload's chunks, once recorded, stay as they are.             *)
LEMMA ReceivedStays ==
  ASSUME Inv, [Next]_vars, NEW u \in Uploads, Received(u)
  PROVE  Received(u)' /\ chunkRow'[u] = chunkRow[u]
<1>1. /\ chunkRow[u] \in [Chunks -> Data \cup {None}]
      /\ chunkRow'[u] \in [Chunks -> Data \cup {None}]
  BY Typed, ChunksStep DEF TypeOK, StateTypeOK
<1>2. \A i \in Chunks : chunkRow'[u][i] = chunkRow[u][i] BY ChunksStep DEF Received
<1> QED BY <1>1, <1>2 DEF Received

(* A commit publishes the digest of the recorded chunks.                   *)
LEMMA ArtifactsStep ==
  ASSUME Inv, [Next]_vars
  PROVE  ArtifactIsItsChunks'
<1>1. ASSUME \A u \in Uploads : artifact'[u] \in {artifact[u], None} PROVE ArtifactIsItsChunks'
  BY <1>1, ReceivedStays DEF Inv, ArtifactIsItsChunks
<1>2. ASSUME NEW t \in Threads, Published(t) PROVE ArtifactIsItsChunks'
  <2>1. PICK u \in Uploads, h \in Hashes, row \in Row :
          /\ u = job[t].u /\ h = job[t].h /\ Received(u) /\ Digest[chunkRow[u]] = h
          /\ Publish(t, row)
    BY <1>2 DEF Published
  <2>2. artifact' = [artifact EXCEPT ![u] = h] BY <2>1 DEF Publish
  <2>3. \A v \in Uploads : artifact'[v] = IF v = u THEN h ELSE artifact[v]
    BY <2>2, Typed DEF TypeOK, StateTypeOK
  <2> QED BY <2>1, <2>3, ReceivedStays DEF Inv, ArtifactIsItsChunks
<1>3. ASSUME NEW t \in Threads, Delete(t) PROVE ArtifactIsItsChunks'
  <2>1. PICK u \in Uploads : artifact' = [artifact EXCEPT ![u] = None]
    BY <1>3, LabelFacts DEF Delete, Inv, ThreadInv, JobSet
  <2> QED BY <1>1, <2>1, Typed DEF TypeOK, StateTypeOK
<1>4. CASE artifact' = artifact BY <1>1, <1>4
<1> QED BY <1>2, <1>3, <1>4, Changes DEF Relabelled, rowVars

-----------------------------------------------------------------------------
(* The steps of the threads, by what they do to the states of uploads, to  *)
(* the marks, to the states of rows and to the files.                      *)

LEMMA UploadChanges ==
  ASSUME Inv, NEW t \in Threads, Request(t) \/ Step(t)
  PROVE  \/ ustate' = ustate
         \/ \E u \in Uploads : FinalizeBegin(t, u)
         \/ /\ pc[t] \in Owning /\ pc'[t] = "idle"
            /\ \E x \in {"open", "finalized"} : ustate' = [ustate EXCEPT ![job[t].u] = x]
            /\ Published(t) \/ artifact' = artifact
<1> USE DEF upVars, rowVars
<1>1. CASE Request(t)
  BY <1>1 DEF Request, PutCheck, DeleteRead, GcMark, ValidateScan
<1>2. CASE Commit(t)
  <2>1. CASE UNCHANGED ustate BY <2>1
  <2>2. CASE Published(t)
    <3>1. pc[t] \in Owning /\ Finish(t) /\ ustate' = [ustate EXCEPT ![job[t].u] = "finalized"]
      BY <2>2 DEF Published, Publish, Owning, Hashed
    <3> QED BY <2>2, <3>1, Ends DEF Arrives
  <2> QED BY <1>2, <2>1, <2>2, CommitPublishes
<1>3. CASE Rollback(t)
  <2>1. /\ pc[t] \in Owning /\ Finish(t) /\ artifact' = artifact
        /\ ustate' = ustate \/ ustate' = [ustate EXCEPT ![job[t].u] = "open"]
    BY <1>3 DEF Rollback, Owning
  <2> QED BY <2>1, Ends DEF Arrives
<1>4. CASE Step(t) /\ ~Commit(t) /\ ~Rollback(t)
  BY <1>4 DEF Step, PutInsert, PutLink, Assemble, Decide, WaitForGc, Link, Settle, ReplaceUnlink,
         ReplaceLink, FinalizeError, Delete, GcDelete, GcError, GcUnlink, ValidateRead,
         ValidateSet, ValidateEnd
<1> QED BY <1>1, <1>2, <1>3, <1>4

LEMMA MarkChanges ==
  ASSUME Inv, NEW t \in Threads, Request(t) \/ Step(t)
  PROVE  \/ GcMark(t)
         \/ marked' = [marked EXCEPT ![t] = {}] /\ pc'[t] = "idle"
         \/ marked' = marked /\ (pc[t] = "gcUnlink" => pc'[t] = "gcUnlink")
<1>1. CASE Request(t)
  BY <1>1 DEF Request, PutCheck, FinalizeBegin, DeleteRead, ValidateScan, Idle
<1>2. CASE GcDelete(t) \/ GcError(t)
  BY <1>2, Ends DEF GcDelete, GcError, Arrives
<1>3. ASSUME NEW h \in Hashes, GcUnlink(t, h) PROVE marked' = marked /\ pc'[t] = "gcUnlink"
  BY <1>3, Typed DEF GcUnlink, Begin, TypeOK, StateTypeOK
<1>4. CASE Step(t) /\ ~GcDelete(t) /\ ~GcError(t) /\ ~\E h \in Hashes : GcUnlink(t, h)
  BY <1>4 DEF Step, PutInsert, PutLink, Assemble, Decide, WaitForGc, Link, Settle, ReplaceUnlink,
         ReplaceLink, Publish, Commit, FinalizeError, Rollback, Delete, ValidateRead,
         ValidateSet, ValidateEnd
<1> QED BY <1>1, <1>2, <1>3, <1>4

(* Of the row of h a step changes the state only by marking it, deleting   *)
(* it for a pass, or publishing into it.                                   *)
LEMMA RowChanges ==
  ASSUME Inv, NEW t \in Threads, Request(t) \/ Step(t), NEW h \in Hashes
  PROVE  \/ RowState(h)' = RowState(h)
         \/ /\ GcMark(t) /\ RowState(h) = "active" /\ RowState(h)' = "collecting"
            /\ h \in marked'[t]
         \/ /\ pc[t] = "gcUnlink" /\ h \in marked[t] /\ marked'[t] = {} /\ RowState(h)' = None
         \/ /\ pc[t] = "commit" /\ UNCHANGED <<files, marked>>
            /\ \/ Adding(t, h) /\ RowState(h) = None
               \/ RowState(h) = "active"
<1> USE DEF rowVars
<1>0. blob \in [Hashes -> Row \cup {None}] /\ marked \in [Threads -> SUBSET Hashes]
  BY Typed DEF TypeOK, StateTypeOK
<1>1. ASSUME blob'[h] = blob[h] PROVE RowState(h)' = RowState(h) BY <1>1 DEF RowState
<1>2. CASE GcMark(t)
  <2> DEFINE dead == {g \in Hashes : RowState(g) = "active" /\ blob[g].refs = 0}
  <2>1. /\ blob' = [g \in Hashes |-> IF g \in dead THEN [blob[g] EXCEPT !.state = "collecting"] ELSE blob[g]]
        /\ marked' = [marked EXCEPT ![t] = dead]
    BY <1>2 DEF GcMark
  <2>2. h \in dead => RowState(h) = "active" OBVIOUS
  <2>3. h \in dead => blob[h] # None BY NoneFresh DEF RowState
  <2> HIDE DEF dead
  <2>4. CASE h \in dead
    <3>1. blob[h] \in Row BY <1>0, <2>3, <2>4
    <3>2. blob'[h] = [blob[h] EXCEPT !.state = "collecting"] /\ marked'[t] = dead
      BY <1>0, <2>1, <2>4
    <3>3. /\ [blob[h] EXCEPT !.state = "collecting"] \in Row
          /\ [blob[h] EXCEPT !.state = "collecting"].state = "collecting"
      BY <3>1, RowFields
    <3>4. RowState(h)' = "collecting" BY <3>2, <3>3, NoneFresh DEF RowState
    <3> QED BY <1>2, <2>2, <2>4, <3>2, <3>4
  <2>5. CASE h \notin dead
    <3>1. blob'[h] = blob[h] BY <2>1, <2>5
    <3> QED BY <1>1, <3>1
  <2> QED BY <2>4, <2>5
<1>3. CASE Request(t) /\ ~GcMark(t)
  BY <1>1, <1>3 DEF Request, PutCheck, FinalizeBegin, DeleteRead, ValidateScan
<1>4. CASE GcDelete(t)
  <2> DEFINE dead == {g \in marked[t] : RowState(g) = "collecting" /\ blob[g].refs = 0}
  <2>1. /\ blob' = IF \E g \in dead : Refs(g) # {} THEN blob
                   ELSE [g \in Hashes |-> IF g \in dead THEN None ELSE blob[g]]
        /\ marked'[t] = {} /\ pc[t] = "gcUnlink"
    BY <1>0, <1>4 DEF GcDelete
  <2>2. dead \subseteq marked[t] OBVIOUS
  <2> HIDE DEF dead
  <2>3. blob'[h] = blob[h] \/ (h \in dead /\ blob'[h] = None) BY <2>1
  <2>4. CASE h \in dead /\ blob'[h] = None
    <3>1. RowState(h)' = None BY <2>4 DEF RowState
    <3> QED BY <2>1, <2>2, <2>4, <3>1
  <2> QED BY <1>1, <2>3, <2>4
<1>5. CASE Commit(t)
  <2>1. CASE UNCHANGED blob BY <1>1, <2>1
  <2>2. CASE Published(t)
    <3>1. PICK g \in Hashes, row \in Row :
            /\ g = job[t].h /\ pc[t] = "commit"
            /\ \/ Adding(t, g) /\ blob[g] = None
               \/ RowState(g) = "active"
            /\ Publish(t, row)
      BY <2>2 DEF Published
    <3>2. UNCHANGED <<files, marked>> /\ blob' = [blob EXCEPT ![g] = row]
      BY <3>1 DEF Publish, SetRow
    <3>3. CASE g = h BY <3>1, <3>2, <3>3 DEF RowState
    <3>4. CASE g # h BY <1>0, <1>1, <3>2, <3>4
    <3> QED BY <3>3, <3>4
  <2> QED BY <1>5, <2>1, <2>2, CommitPublishes
<1>6. CASE ValidateSet(t)
  <2>1. job[t].h \in Hashes BY <1>6 DEF ValidateSet, Inv, ThreadInv, JobSet
  <2>2. CASE h = job[t].h /\ blob[h] # None
    <3>1. blob[h] \in Row BY <1>0, <2>2
    <3>2. blob'[h] = [blob[h] EXCEPT !.validated = job[t].flag] BY <1>0, <1>6, <2>2 DEF ValidateSet, SetRow
    <3>3. PICK r \in Row, f \in {0, 1} : r = blob[h] /\ f = job[t].flag
      BY <1>6, <3>1 DEF ValidateSet, Inv, ThreadInv, JobSet
    <3>4. [r EXCEPT !.validated = f].state = r.state /\ [r EXCEPT !.validated = f] \in Row
      BY ONLY r \in Row, f \in {0, 1} DEF Row
    <3>5. blob'[h].state = blob[h].state /\ blob'[h] # None BY <3>2, <3>3, <3>4, NoneFresh
    <3> QED BY <2>2, <3>5 DEF RowState
  <2>3. CASE ~(h = job[t].h /\ blob[h] # None)
    BY <1>0, <1>1, <1>6, <2>1, <2>3 DEF ValidateSet, SetRow
  <2> QED BY <2>2, <2>3
<1>7. CASE Delete(t)
  <2>1. CASE h = job[t].h /\ blob[h] # None
    <3>1. PICK r \in Row, n \in Int : /\ r = blob[h]
                                      /\ n = IF blob[h].refs > 0 THEN blob[h].refs - 1 ELSE blob[h].refs
      BY <2>1, Rows
    <3>2. blob'[h] = [r EXCEPT !.refs = n] BY <1>0, <1>7, <2>1, <3>1 DEF Delete, SetRow
    <3>3. [r EXCEPT !.refs = n].state = r.state /\ [r EXCEPT !.refs = n] \in Row
      BY ONLY r \in Row, n \in Int DEF Row
    <3>4. blob'[h].state = blob[h].state /\ blob'[h] # None BY <3>1, <3>2, <3>3, NoneFresh
    <3> QED BY <2>1, <3>4 DEF RowState
  <2>2. CASE ~(h = job[t].h /\ blob[h] # None)
    <3>1. job[t].h \in Hashes BY <1>7 DEF Delete, Inv, ThreadInv, JobSet
    <3> QED BY <1>0, <1>1, <1>7, <2>2, <3>1 DEF Delete, SetRow
  <2> QED BY <2>1, <2>2
<1>8. CASE /\ Step(t)
           /\ ~(Commit(t) \/ GcDelete(t) \/ ValidateSet(t) \/ Delete(t))
  BY <1>1, <1>8 DEF Step, PutInsert, PutLink, Assemble, Decide, WaitForGc, Link, Settle,
         ReplaceUnlink, ReplaceLink, FinalizeError, Rollback, GcError, GcUnlink, ValidateRead,
         ValidateEnd
<1> QED BY <1>2, <1>3, <1>4, <1>5, <1>6, <1>7, <1>8

LEMMA FileChanges ==
  ASSUME Inv, NEW t \in Threads, Request(t) \/ Step(t)
  PROVE  \/ files' = files
         \/ \E g \in Hashes : GcUnlink(t, g)
         \/ \E g \in Hashes :
              g = job[t].h /\ (ReplaceUnlink(t) \/ Link(t) \/ ReplaceLink(t))
<1>1. CASE Request(t)
  BY <1>1 DEF Request, PutCheck, FinalizeBegin, DeleteRead, GcMark, ValidateScan
<1>2. CASE ReplaceUnlink(t) \/ Link(t) \/ ReplaceLink(t)
  BY <1>2 DEF ReplaceUnlink, Link, ReplaceLink, Inv, ThreadInv, JobSet, Hashed
<1>3. CASE /\ Step(t) /\ ~(ReplaceUnlink(t) \/ Link(t) \/ ReplaceLink(t))
           /\ ~\E g \in Hashes : GcUnlink(t, g)
  BY <1>3 DEF Step, PutInsert, PutLink, Assemble, Decide, WaitForGc, Settle, Publish, Commit,
         FinalizeError, Rollback, Delete, GcDelete, GcError, ValidateRead, ValidateSet, ValidateEnd
<1> QED BY <1>1, <1>2, <1>3

-----------------------------------------------------------------------------
(* What a step of thread t leaves to each thread s.                        *)

(* Where a thread is after a step of t, in one form for requests and steps.*)
LEMMA After ==
  ASSUME Inv, NEW t \in Threads, Request(t) \/ Step(t)
  PROVE  /\ Moves(t) /\ Fits(pc'[t], job'[t])
         /\ pc'[t] \in Owning => \/ FinalizeBegin(t, job'[t].u)
                                 \/ pc[t] \in Owning /\ job'[t].u = job[t].u
         /\ pc'[t] = "putInsert" => ustate[job'[t].u] # None
         /\ pc'[t] = "putLink" => PutInsert(t) /\ job'[t] = job[t]
         /\ pc'[t] = "gcUnlink" =>
              \/ GcMark(t) /\ job'[t].todo = marked'[t]
              \/ pc[t] = "gcUnlink" /\ job'[t].todo \subseteq job[t].todo /\ marked' = marked
         /\ pc'[t] = "delete" => DeleteRead(t, job'[t].u) /\ job'[t].h = artifact[job'[t].u]
         /\ pc'[t] = "commit" /\ job'[t].flag = 1 =>
              /\ job'[t].h \notin files /\ files' = files \cup {job'[t].h}
              /\ UNCHANGED <<upVars, rowVars, marked, raced>>
<1>1. CASE Request(t)
  <2>1. PICK l \in Labels, j \in Jobs({0, 1}) :
           /\ Arrives(t, l, j) /\ pc[t] = "idle"
           /\ l \in Owning => FinalizeBegin(t, j.u)
           /\ l = "delete" => DeleteRead(t, j.u) /\ j.h = artifact[j.u]
           /\ l = "gcUnlink" => GcMark(t) /\ j.todo = marked'[t]
           /\ l = "putInsert" => ustate[j.u] # None
           /\ l \notin {"putLink", "commit"}
    BY <1>1, RequestMoves
  <2>2. pc'[t] = l /\ job'[t] = j BY <2>1 DEF Arrives
  <2> QED BY <2>1, <2>2 DEF Arrives
<1>2. CASE Step(t)
  <2>1. PICK l \in Labels, j \in Jobs({0, 1}) : Advances(t, l, j) BY <1>2, StepMoves
  <2>2. pc'[t] = l /\ job'[t] = j BY <2>1 DEF Advances, Arrives
  <2> QED BY <2>1, <2>2 DEF Advances, Arrives
<1> QED BY <1>1, <1>2

LEMMA JobStep ==
  ASSUME Inv, [Next]_vars, NEW t \in Threads, Request(t) \/ Step(t), NEW s \in Threads
  PROVE  JobSet(s)'
<1>1. JobSet(s) BY DEF Inv, ThreadInv
<1>2. Moves(t) /\ Fits(pc'[t], job'[t]) BY After
<1>3. pc'[s] = "putLink" => chunkRow'[job'[s].u][job'[s].i] = job'[s].d
  <2> SUFFICES ASSUME pc'[s] = "putLink" PROVE chunkRow'[job'[s].u][job'[s].i] = job'[s].d
    OBVIOUS
  <2>1. CASE s = t
    <3>1. PutInsert(t) /\ job'[t] = job[t] BY <2>1, After
    <3>2. PICK u \in Uploads, i \in Chunks, d \in Data :
            /\ u = job[t].u /\ i = job[t].i /\ d = job[t].d
            /\ pc'[t] = "putLink" => chunkRow'[u][i] = d
      BY <3>1, PutFacts
    <3> QED BY <2>1, <3>1, <3>2
  <2>2. CASE s # t
    <3>1. pc[s] = "putLink" /\ job'[s] = job[s] BY <1>2, <2>2 DEF Moves
    <3>2. PICK u \in Uploads, i \in Chunks, d \in Data :
            u = job[s].u /\ i = job[s].i /\ d = job[s].d /\ chunkRow[u][i] = d
      BY <1>1, <3>1 DEF JobSet
    <3>3. chunkRow'[u][i] = d BY <3>2, ChunksStep, NoneFresh
    <3> QED BY <3>1, <3>2, <3>3
  <2> QED BY <2>1, <2>2
<1>4. CASE s = t BY <1>2, <1>3, <1>4 DEF JobSet, Fits
<1>5. CASE s # t
  <2>1. pc'[s] = pc[s] /\ job'[s] = job[s] BY <1>2, <1>5 DEF Moves
  <2> QED BY <1>1, <1>3, <2>1 DEF JobSet
<1> QED BY <1>4, <1>5

(* A finalized upload stays finalized, and its artifact can only go.       *)
LEMMA FinalizedStays ==
  ASSUME Inv, [Next]_vars, NEW u \in Uploads, ustate[u] = "finalized"
  PROVE  ustate'[u] = "finalized" /\ artifact'[u] \in {None, artifact[u]}
<1> USE DEF upVars, rowVars
<1>0. /\ \A r \in Threads : JobSet(r) /\ OwnsUpload(r)
      /\ ustate \in [Uploads -> States \cup {None}]
      /\ artifact \in [Uploads -> Hashes \cup {None}]
  BY Typed DEF Inv, ThreadInv, TypeOK, StateTypeOK
<1>1. ASSUME NEW t \in Threads, Request(t) \/ Step(t) PROVE ustate'[u] = "finalized"
  <2>1. ASSUME pc[t] \in Owning PROVE job[t].u # u BY <1>0, <2>1 DEF OwnsUpload
  <2>2. \A v \in Uploads : FinalizeBegin(t, v) => v # u /\ ustate' = [ustate EXCEPT ![v] = "finalizing"]
    BY DEF FinalizeBegin
  <2> QED BY <1>0, <1>1, <2>1, <2>2, UploadChanges
<1>2. ASSUME NEW v \in Uploads, CreateUpload(v) PROVE ustate'[u] = "finalized"
  <2>1. ustate[v] = None /\ ustate' = [ustate EXCEPT ![v] = "open"] BY <1>2 DEF CreateUpload
  <2> QED BY <1>0, <2>1, NoneFresh DEF States
<1>3. CASE Restart BY <1>3 DEF Restart
<1>4. ustate'[u] = "finalized" BY <1>1, <1>2, <1>3 DEF Next, vars
<1>5. ASSUME NEW r \in Threads, Published(r) PROVE artifact'[u] = artifact[u]
  <2>1. PICK v \in Uploads, h \in Hashes : /\ ustate[v] = "finalizing"
                                           /\ artifact' = [artifact EXCEPT ![v] = h]
    BY <1>5 DEF Published, Publish
  <2> QED BY <1>0, <2>1
<1>6. ASSUME NEW r \in Threads, Delete(r) PROVE artifact'[u] \in {None, artifact[u]}
  <2>1. PICK v \in Uploads : artifact' = [artifact EXCEPT ![v] = None]
    BY <1>0, <1>6 DEF Delete, JobSet
  <2> QED BY <1>0, <2>1
<1> QED BY <1>4, <1>5, <1>6, Changes DEF Relabelled

LEMMA UploadStep ==
  ASSUME Inv, [Next]_vars, NEW t \in Threads, Request(t) \/ Step(t), NEW s \in Threads
  PROVE  OwnsUpload(s)'
<1> USE DEF upVars, rowVars
<1>0. /\ \A r \in Threads : JobSet(r) /\ OwnsUpload(r)
      /\ ustate \in [Uploads -> States \cup {None}]
      /\ artifact \in [Uploads -> Hashes \cup {None}]
  BY Typed DEF Inv, ThreadInv, TypeOK, StateTypeOK
<1>1. Moves(t) /\ Fits(pc'[t], job'[t]) BY After
<1>2. ASSUME pc'[s] \in Owning
      PROVE  /\ ustate'[job'[s].u] = "finalizing"
             /\ \A r \in Threads \ {s} : ~(pc'[r] \in Owning /\ job'[r].u = job'[s].u)
  <2>1. PICK u \in Uploads : u = job'[s].u BY <1>2, JobStep DEF JobSet
  <2>2. ASSUME NEW r \in Threads, FinalizeBegin(t, u), r # t
        PROVE  ~(pc'[r] \in Owning /\ job'[r].u = u)
    <3>1. ustate[u] = "open" BY <2>2 DEF FinalizeBegin
    <3>2. pc'[r] = pc[r] /\ job'[r] = job[r] BY <1>1, <2>2 DEF Moves
    <3> QED BY <1>0, <3>1, <3>2 DEF OwnsUpload
  <2>3. ASSUME NEW v \in Uploads, FinalizeBegin(t, v)
        PROVE  ustate' = [ustate EXCEPT ![v] = "finalizing"] /\ pc[t] = "idle"
    BY <2>3 DEF FinalizeBegin, Idle
  <2>4. ASSUME NEW r \in Threads, pc[r] \in Owning, job[r].u = u,
               pc'[r] \in Owning, job'[r].u = u
        PROVE  ustate'[u] = "finalizing"
    <3>1. ustate[u] = "finalizing" BY <1>0, <2>4 DEF OwnsUpload
    <3>2. CASE ustate' = ustate BY <3>1, <3>2
    <3>3. CASE \E v \in Uploads : FinalizeBegin(t, v) BY <1>0, <2>3, <3>1, <3>3
    <3>4. ASSUME pc[t] \in Owning, pc'[t] = "idle", NEW x \in {"open", "finalized"},
                 ustate' = [ustate EXCEPT ![job[t].u] = x]
          PROVE  ustate'[u] = "finalizing"
      <4>1. r # t BY <2>4, <3>4, LabelFacts
      <4>2. job[t].u # u BY <1>0, <2>4, <3>4, <4>1 DEF OwnsUpload
      <4> QED BY <1>0, <3>1, <3>4, <4>2
    <3> QED BY <3>2, <3>3, <3>4, UploadChanges
  <2>5. CASE s = t
    <3>1. CASE FinalizeBegin(t, u) BY <1>0, <2>1, <2>2, <2>3, <2>5, <3>1
    <3>2. CASE pc[t] \in Owning /\ job[t].u = u
      <4>1. \A r \in Threads \ {t} : ~(pc'[r] \in Owning /\ job'[r].u = u)
        BY <1>0, <1>1, <3>2 DEF Moves, OwnsUpload
      <4> QED BY <1>2, <2>1, <2>4, <2>5, <3>2, <4>1
    <3> QED BY <1>2, <2>1, <2>5, <3>1, <3>2, After
  <2>6. CASE s # t
    <3>1. pc[s] \in Owning /\ job[s].u = u BY <1>1, <1>2, <2>1, <2>6 DEF Moves
    <3>2. ustate[u] = "finalizing" BY <1>0, <3>1 DEF OwnsUpload
    <3>3. ASSUME NEW r \in Threads \ {s}, pc'[r] \in Owning, job'[r].u = u PROVE FALSE
      <4>1. CASE r = t
        <5>1. pc[t] \in Owning /\ job[t].u = u
          BY <3>2, <3>3, <4>1, After DEF FinalizeBegin
        <5> QED BY <1>0, <2>6, <3>1, <5>1 DEF OwnsUpload
      <4>2. CASE r # t BY <1>0, <1>1, <3>1, <3>3, <4>2 DEF Moves, OwnsUpload
      <4> QED BY <4>1, <4>2
    <3> QED BY <1>2, <2>1, <2>4, <3>1, <3>3
  <2> QED BY <2>5, <2>6
<1>3. ASSUME pc'[s] \in Hashed
      PROVE  /\ \A i \in Chunks : chunkRow'[job'[s].u][i] # None
             /\ Digest[chunkRow'[job'[s].u]] = job'[s].h
  <2>1. PICK u \in Uploads : u = job'[s].u BY <1>3, JobStep, LabelFacts DEF JobSet
  <2>2. Received(u) /\ Digest[chunkRow[u]] = job'[s].h
    <3>1. CASE s = t BY <1>1, <1>3, <2>1, <3>1 DEF Fits
    <3>2. CASE s # t BY <1>0, <1>1, <1>3, <2>1, <3>2 DEF Moves, OwnsUpload
    <3> QED BY <3>1, <3>2
  <2>3. Received(u)' /\ chunkRow'[u] = chunkRow[u] BY <2>2, ReceivedStays
  <2> QED BY <2>1, <2>2, <2>3 DEF Received
<1>4. ASSUME pc'[s] = "delete"
      PROVE  ustate'[job'[s].u] = "finalized" /\ artifact'[job'[s].u] \in {None, job'[s].h}
  <2>1. PICK u \in Uploads : u = job'[s].u BY <1>4, JobStep DEF JobSet
  <2>2. ustate[u] = "finalized" /\ artifact[u] \in {None, job'[s].h}
    <3>1. CASE s = t
      <4>1. DeleteRead(t, u) /\ job'[t].h = artifact[u] BY <1>4, <2>1, <3>1, After
      <4> QED BY <3>1, <4>1 DEF DeleteRead, Inv, ArtifactFinalized
    <3>2. CASE s # t BY <1>0, <1>1, <1>4, <2>1, <3>2 DEF Moves, OwnsUpload
    <3> QED BY <3>1, <3>2
  <2>3. ustate'[u] = "finalized" /\ artifact'[u] \in {None, artifact[u]}
    BY <2>2, FinalizedStays
  <2> QED BY <2>1, <2>2, <2>3
<1> QED BY <1>2, <1>3, <1>4 DEF OwnsUpload, Received

LEMMA MarkStep ==
  ASSUME Inv, NEW t \in Threads, Request(t) \/ Step(t), NEW s \in Threads
  PROVE  OwnsMarked(s)'
<1>0. \A r \in Threads : OwnsMarked(r) BY DEF Inv, ThreadInv
<1>1. Moves(t) BY After
<1>2. marked \in [Threads -> SUBSET Hashes] BY Typed DEF TypeOK
<1>3. GcMark(t) => /\ \A r \in Threads \ {t} : marked'[r] = marked[r]
                   /\ \A h \in marked'[t] : h \in Hashes /\ RowState(h) = "active"
                   /\ pc[t] = "idle" /\ pc'[t] = "gcUnlink"
  <2> SUFFICES ASSUME GcMark(t)
               PROVE  /\ \A r \in Threads \ {t} : marked'[r] = marked[r]
                      /\ \A h \in marked'[t] : h \in Hashes /\ RowState(h) = "active"
                      /\ pc[t] = "idle" /\ pc'[t] = "gcUnlink"
    OBVIOUS
  <2>1. pc[t] = "idle" /\ pc'[t] = "gcUnlink" BY Typed DEF GcMark, Idle, Begin, TypeOK, StateTypeOK
  <2> QED BY <1>2, <2>1 DEF GcMark
<1>4. marked'[s] # {} => pc'[s] = "gcUnlink"
  <2>1. CASE s = t BY <1>0, <1>2, <1>3, <2>1, MarkChanges DEF OwnsMarked
  <2>2. CASE s # t
    <3>1. marked'[s] = marked[s] BY <1>2, <1>3, <2>2, MarkChanges
    <3> QED BY <1>0, <1>1, <2>2, <3>1 DEF OwnsMarked, Moves
  <2> QED BY <2>1, <2>2
<1>5. pc'[s] = "gcUnlink" => job'[s].todo \subseteq marked'[s]
  <2>1. CASE s = t BY <1>0, <2>1, After DEF OwnsMarked
  <2>2. CASE s # t
    <3>1. marked'[s] = marked[s] BY <1>2, <1>3, <2>2, MarkChanges
    <3> QED BY <1>0, <1>1, <2>2, <3>1 DEF OwnsMarked, Moves
  <2> QED BY <2>1, <2>2
<1>6. ASSUME NEW h \in marked'[s]
      PROVE  RowState(h)' = "collecting" /\ \A r \in Threads \ {s} : h \notin marked'[r]
  <2>1. CASE GcMark(t) /\ s = t
    <3>1. h \in Hashes /\ RowState(h) = "active" BY <1>3, <1>6, <2>1
    <3>2. pc[t] = "idle" BY <1>3, <2>1
    <3>3. \A r \in Threads \ {s} : h \notin marked'[r]
      BY <1>0, <1>3, <2>1, <3>1 DEF OwnsMarked
    <3>4. RowState(h)' = "collecting"
      <4> DEFINE dead == {g \in Hashes : RowState(g) = "active" /\ blob[g].refs = 0}
      <4>1. /\ blob' = [g \in Hashes |-> IF g \in dead THEN [blob[g] EXCEPT !.state = "collecting"] ELSE blob[g]]
            /\ marked' = [marked EXCEPT ![t] = dead]
        BY <2>1 DEF GcMark
      <4>2. dead \subseteq Hashes OBVIOUS
      <4> HIDE DEF dead
      <4>3. h \in dead BY <1>2, <1>6, <2>1, <4>1
      <4>4. blob[h] \in Row BY <3>1, Rows, NoneFresh DEF RowState
      <4>5. blob'[h] = [blob[h] EXCEPT !.state = "collecting"] BY <3>1, <4>1, <4>3
      <4>6. /\ [blob[h] EXCEPT !.state = "collecting"] \in Row
            /\ [blob[h] EXCEPT !.state = "collecting"].state = "collecting"
        BY <4>4, RowFields
      <4> QED BY <4>5, <4>6, NoneFresh DEF RowState
    <3> QED BY <3>3, <3>4
  <2>2. CASE ~(GcMark(t) /\ s = t)
    <3>1. h \in marked[s] /\ \A r \in Threads \ {t} : marked'[r] = marked[r]
      BY <1>2, <1>3, <1>6, <2>2, MarkChanges
    <3>2. h \in Hashes /\ RowState(h) = "collecting" BY <1>0, <1>2, <3>1 DEF OwnsMarked
    <3>3. \A r \in Threads \ {s} : h \notin marked[r] BY <1>0, <3>1 DEF OwnsMarked
    <3>4. \A r \in Threads \ {s} : h \notin marked'[r]
      <4>1. GcMark(t) => h \notin marked'[t] BY <1>3, <3>2
      <4>2. ~GcMark(t) => marked'[t] \in {{}, marked[t]} BY <1>2, MarkChanges
      <4> QED BY <2>2, <3>1, <3>3, <4>1, <4>2
    <3>5. RowState(h)' = "collecting"
      <4>1. ~(h \in marked[t] /\ marked'[t] = {}) BY <1>6, <3>1, <3>3
      <4> QED BY <3>2, <4>1, RowChanges, NoneFresh
    <3> QED BY <3>4, <3>5
  <2> QED BY <2>1, <2>2
<1> QED BY <1>4, <1>5, <1>6 DEF OwnsMarked

-----------------------------------------------------------------------------
(* The files, as long as nothing raced.                                    *)

(* A file goes only when a pass unlinks what it has marked, or a finalize  *)
(* takes it for residue.                                                   *)
LEMMA FileKept ==
  ASSUME Inv, NEW t \in Threads, Request(t) \/ Step(t), ~raced', ~raced,
         NEW h \in Hashes, h \in files, h \notin files'
  PROVE  \/ GcUnlink(t, h)
         \/ blob[h] = None /\ \A s \in Threads : ~Adding(s, h)
<1>1. ASSUME NEW g \in Hashes, GcUnlink(t, g) PROVE g = h BY <1>1 DEF GcUnlink
<1>2. ASSUME ReplaceUnlink(t) PROVE blob[h] = None /\ \A s \in Threads : ~Adding(s, h)
  <2>1. job[t].h = h BY <1>2 DEF ReplaceUnlink
  <2> QED BY <1>2, <2>1 DEF ReplaceUnlink, Adding
<1> QED BY <1>1, <1>2, FileChanges DEF Link, ReplaceLink

LEMMA FilesStep ==
  ASSUME Inv, [Next]_vars, ~raced', NEW t \in Threads, Request(t) \/ Step(t)
  PROVE  FilesKept'
<1>0. ~raced /\ FilesKept BY RacedStays DEF Inv
<1>1. Moves(t) BY After
<1>2. \A s \in Threads : OwnsMarked(s) BY DEF Inv, ThreadInv
<1>3. ASSUME NEW h \in Hashes, GcUnlink(t, h)
      PROVE  /\ RowState(h) = "collecting" /\ h \in job[t].todo /\ pc[t] = "gcUnlink"
             /\ h \notin job'[t].todo
             /\ \A s \in Threads \ {t} : pc[s] = "gcUnlink" => h \notin job[s].todo
  <2>1. h \in job[t].todo /\ pc[t] = "gcUnlink" BY <1>3 DEF GcUnlink
  <2>2. h \in marked[t] /\ RowState(h) = "collecting" BY <1>2, <2>1 DEF OwnsMarked
  <2>3. \A s \in Threads \ {t} : pc[s] = "gcUnlink" => h \notin job[s].todo
    BY <1>2, <2>2 DEF OwnsMarked
  <2>4. job'[t] = [job[t] EXCEPT !.todo = job[t].todo \ {h}] /\ job[t] \in Jobs({0, 1})
    BY <1>3, Typed DEF GcUnlink, Begin, TypeOK, StateTypeOK
  <2>5. h \notin job'[t].todo BY <2>4 DEF Jobs
  <2> QED BY <2>1, <2>2, <2>3, <2>5
<1>4. ASSUME NEW h \in Hashes, NEW s \in Threads, pc'[s] = "gcUnlink", h \in job'[s].todo
      PROVE  \/ GcMark(t) /\ RowState(h) = "active"
             \/ pc[s] = "gcUnlink" /\ h \in job[s].todo /\ RowState(h) = "collecting"
  <2>1. CASE s = t /\ GcMark(t) /\ job'[t].todo = marked'[t]
    <3>1. \A g \in marked'[t] : RowState(g) = "active" BY <2>1, Typed DEF GcMark, TypeOK
    <3> QED BY <1>4, <2>1, <3>1
  <2>2. CASE ~(s = t /\ GcMark(t) /\ job'[t].todo = marked'[t])
    <3>1. pc[s] = "gcUnlink" /\ h \in job[s].todo BY <1>1, <1>4, <2>2, After DEF Moves
    <3> QED BY <1>2, <3>1 DEF OwnsMarked
  <2> QED BY <2>1, <2>2
<1>5. ASSUME NEW h \in Hashes, NEW s \in Threads, Adding(s, h)'
      PROVE  \/ Adding(s, h) /\ s # t
             \/ /\ s = t /\ h \notin files /\ h \in files' /\ RowState(h)' = RowState(h)
  <2>1. CASE s = t
    <3>1. h \notin files /\ files' = files \cup {h} /\ UNCHANGED rowVars
      BY <1>5, <2>1, After DEF Adding
    <3> QED BY <2>1, <3>1 DEF rowVars, RowState
  <2>2. CASE s # t BY <1>1, <1>5, <2>2 DEF Adding, Moves
  <2> QED BY <2>1, <2>2
<1>6. ASSUME NEW h \in Hashes, RowState(h)' = "active" PROVE h \in files'
  <2>1. CASE RowState(h) = "active"
    <3>1. h \in files BY <1>0, <2>1 DEF FilesKept
    <3>2. blob[h] # None BY <2>1, NoneFresh DEF RowState
    <3> QED BY <1>0, <1>3, <2>1, <3>1, <3>2, FileKept
  <2>2. CASE RowState(h) # "active"
    <3>1. files' = files /\ Adding(t, h) BY <1>6, <2>2, RowChanges, NoneFresh
    <3> QED BY <1>0, <3>1 DEF FilesKept
  <2> QED BY <2>1, <2>2
<1>7. ASSUME NEW h \in Hashes, NEW s \in Threads, pc'[s] = "gcUnlink", h \in job'[s].todo
      PROVE  h \in files'
  <2>1. h \in files /\ blob[h] # None BY <1>0, <1>4, <1>7, NoneFresh DEF FilesKept, RowState
  <2>2. ~GcUnlink(t, h)
    <3> SUFFICES ASSUME GcUnlink(t, h) PROVE FALSE
      OBVIOUS
    <3>1. s # t BY <1>3, <1>7
    <3>2. pc[s] = "gcUnlink" /\ h \in job[s].todo BY <1>1, <1>7, <3>1 DEF Moves
    <3> QED BY <1>3, <3>1, <3>2
  <2> QED BY <1>0, <2>1, <2>2, FileKept
<1>8. ASSUME NEW h \in Hashes, NEW s \in Threads, Adding(s, h)'
      PROVE  /\ h \in files' /\ RowState(h)' # "active"
             /\ \A r \in Threads : /\ ~(pc'[r] = "gcUnlink" /\ h \in job'[r].todo)
                                   /\ r # s => ~Adding(r, h)'
  <2>1. CASE Adding(s, h) /\ s # t
    <3>1. /\ h \in files /\ RowState(h) # "active"
          /\ \A r \in Threads : /\ ~(pc[r] = "gcUnlink" /\ h \in job[r].todo)
                                /\ r # s => ~Adding(r, h)
      BY <1>0, <2>1 DEF FilesKept
    <3>2. h \in files'
      <4>1. ~GcUnlink(t, h) BY <1>3, <3>1
      <4> QED BY <1>0, <2>1, <3>1, <4>1, FileKept
    <3>3. RowState(h)' # "active" BY <2>1, <3>1, RowChanges, NoneFresh
    <3>4. ASSUME NEW r \in Threads, pc'[r] = "gcUnlink", h \in job'[r].todo PROVE FALSE
      BY <1>4, <3>1, <3>4
    <3>5. ASSUME NEW r \in Threads, r # s, Adding(r, h)' PROVE FALSE
      BY <1>5, <3>1, <3>5
    <3> QED BY <3>2, <3>3, <3>4, <3>5
  <2>2. CASE s = t /\ h \notin files /\ h \in files' /\ RowState(h)' = RowState(h)
    <3>1. RowState(h) # "active" BY <1>0, <2>2 DEF FilesKept
    <3>2. ASSUME NEW r \in Threads, pc'[r] = "gcUnlink", h \in job'[r].todo PROVE FALSE
      BY <1>0, <1>4, <2>2, <3>1, <3>2 DEF FilesKept
    <3>3. ASSUME NEW r \in Threads, r # s, Adding(r, h)' PROVE FALSE
      BY <1>0, <1>5, <2>2, <3>3 DEF FilesKept
    <3> QED BY <2>2, <3>1, <3>2, <3>3
  <2> QED BY <1>5, <1>8, <2>1, <2>2
<1> QED BY <1>6, <1>7, <1>8 DEF FilesKept

-----------------------------------------------------------------------------
(* The invariant.                                                          *)

LEMMA RestartStep ==
  ASSUME Inv, [Next]_vars, Restart
  PROVE  /\ \A s \in Threads : ThreadInv(s)'
         /\ raced' \/ FilesKept'
         /\ pc' \in [Threads -> Labels] /\ job' \in [Threads -> Jobs({0, 1})]
         /\ marked' \in [Threads -> SUBSET Hashes] /\ files' \subseteq Hashes
         /\ ustate' \in [Uploads -> States \cup {None}] /\ crashes' \in 0..MaxCrashes
         /\ \A u \in Uploads : artifact'[u] # None => ustate'[u] = "finalized"
<1>1. /\ \A s \in Threads : pc'[s] = "idle" /\ marked'[s] = {}
      /\ pc' \in [Threads -> Labels] /\ job' \in [Threads -> Jobs({0, 1})]
      /\ marked' \in [Threads -> SUBSET Hashes]
  BY NoJobIsJob, LabelFacts DEF Restart, Killed
<1>2. "idle" \notin Owning /\ "idle" \notin Hashed BY LabelFacts
<1>3. \A s \in Threads : ThreadInv(s)'
  BY <1>1, <1>2 DEF ThreadInv, JobSet, OwnsUpload, OwnsMarked
<1>4. crashes' \in 0..MaxCrashes BY Typed, CrashesAssumption DEF Restart, Killed, TypeOK, StateTypeOK
<1>5. /\ ustate' \in [Uploads -> States \cup {None}] /\ artifact' = artifact
      /\ \A u \in Uploads : ustate[u] = "finalized" => ustate'[u] = "finalized"
  BY Typed DEF Restart, TypeOK, StateTypeOK, States
<1>6. files' = {h \in files : blob[h] # None} /\ raced' = raced /\ files \subseteq Hashes
  BY Typed DEF Restart, TypeOK, StateTypeOK
<1>7. ASSUME ~raced, NEW h \in Hashes, RowState(h)' = "active" PROVE h \in files'
  <2>1. blob[h] # None /\ (RowState(h) = "collecting" => h \in files)
    BY <1>7, RestartRelabels, NoneFresh
  <2>2. RowState(h) \in {"active", "collecting"} BY <2>1, Rows
  <2>3. h \in files BY <1>7, <2>1, <2>2 DEF Inv, FilesKept
  <2> QED BY <1>6, <2>1, <2>3
<1>8. raced' \/ FilesKept' BY <1>1, <1>6, <1>7 DEF FilesKept, Adding
<1> QED BY <1>1, <1>3, <1>4, <1>5, <1>6, <1>8 DEF Inv, ArtifactFinalized

LEMMA ActStep ==
  ASSUME Inv, [Next]_vars, NEW t \in Threads, Request(t) \/ Step(t)
  PROVE  /\ \A s \in Threads : ThreadInv(s)'
         /\ raced' \/ FilesKept'
         /\ pc' \in [Threads -> Labels] /\ job' \in [Threads -> Jobs({0, 1})]
         /\ marked' \in [Threads -> SUBSET Hashes] /\ files' \subseteq Hashes
         /\ ustate' \in [Uploads -> States \cup {None}] /\ crashes' \in 0..MaxCrashes
         /\ \A u \in Uploads : artifact'[u] # None => ustate'[u] = "finalized"
<1> USE DEF upVars, rowVars
<1>0. /\ ustate \in [Uploads -> States \cup {None}]
      /\ artifact \in [Uploads -> Hashes \cup {None}]
      /\ marked \in [Threads -> SUBSET Hashes] /\ files \subseteq Hashes
      /\ crashes \in 0..MaxCrashes /\ ArtifactFinalized
      /\ \A s \in Threads : JobSet(s) /\ OwnsUpload(s)
  BY Typed DEF Inv, ThreadInv, TypeOK, StateTypeOK
<1>1. \A s \in Threads : ThreadInv(s)' BY JobStep, UploadStep, MarkStep DEF ThreadInv
<1>2. raced' \/ FilesKept' BY FilesStep
<1>3. pc' \in [Threads -> Labels] /\ job' \in [Threads -> Jobs({0, 1})] BY After DEF Moves
<1>4. marked' \in [Threads -> SUBSET Hashes]
  <2>1. CASE GcMark(t) BY <1>0, <2>1 DEF GcMark
  <2> QED BY <1>0, <2>1, MarkChanges
<1>5. files' \subseteq Hashes
  BY <1>0, FileChanges DEF GcUnlink, ReplaceUnlink, Link, ReplaceLink
<1>6. crashes' = crashes
  <2>1. CASE Request(t)
    BY <2>1 DEF Request, PutCheck, FinalizeBegin, DeleteRead, GcMark, ValidateScan
  <2>2. CASE Step(t)
    BY <2>2 DEF Step, PutInsert, PutLink, Assemble, Decide, WaitForGc, Link, Settle, ReplaceUnlink,
         ReplaceLink, Publish, Commit, FinalizeError, Rollback, Delete, GcDelete, GcError,
         GcUnlink, ValidateRead, ValidateSet, ValidateEnd
  <2> QED BY <2>1, <2>2
<1>7. /\ ustate' \in [Uploads -> States \cup {None}]
      /\ \A u \in Uploads : artifact'[u] # None => ustate'[u] = "finalized"
  <2>1. ASSUME NEW r \in Threads, Published(r)
        PROVE  /\ ustate' \in [Uploads -> States \cup {None}]
               /\ \A u \in Uploads : artifact'[u] # None => ustate'[u] = "finalized"
    <3>1. PICK v \in Uploads, h \in Hashes : /\ artifact' = [artifact EXCEPT ![v] = h]
                                             /\ ustate' = [ustate EXCEPT ![v] = "finalized"]
      BY <2>1 DEF Published, Publish
    <3> QED BY <1>0, <3>1 DEF ArtifactFinalized, States
  <2>2. ASSUME \A r \in Threads : ~Published(r) PROVE \A u \in Uploads : artifact'[u] \in {None, artifact[u]}
    <3>1. ASSUME NEW r \in Threads, Delete(r)
          PROVE  \A u \in Uploads : artifact'[u] \in {None, artifact[u]}
      <4>1. PICK v \in Uploads : artifact' = [artifact EXCEPT ![v] = None]
        BY <1>0, <3>1 DEF Delete, JobSet
      <4> QED BY <1>0, <4>1
    <3> QED BY <2>2, <3>1, Changes DEF Relabelled
  <2>3. CASE \A r \in Threads : ~Published(r)
    <3>1. CASE ustate' = ustate BY <1>0, <2>2, <2>3, <3>1 DEF ArtifactFinalized
    <3>2. ASSUME NEW v \in Uploads, FinalizeBegin(t, v)
          PROVE  /\ ustate' \in [Uploads -> States \cup {None}]
                 /\ \A u \in Uploads : artifact'[u] # None => ustate'[u] = "finalized"
      <4>1. ustate[v] = "open" /\ ustate' = [ustate EXCEPT ![v] = "finalizing"]
        BY <3>2 DEF FinalizeBegin
      <4> QED BY <1>0, <2>2, <2>3, <4>1 DEF ArtifactFinalized, States
    <3>3. ASSUME pc[t] \in Owning, NEW x \in {"open", "finalized"},
                 ustate' = [ustate EXCEPT ![job[t].u] = x]
          PROVE  /\ ustate' \in [Uploads -> States \cup {None}]
                 /\ \A u \in Uploads : artifact'[u] # None => ustate'[u] = "finalized"
      <4>1. PICK v \in Uploads : v = job[t].u /\ ustate[v] = "finalizing"
        BY <1>0, <3>3 DEF JobSet, OwnsUpload
      <4> QED BY <1>0, <2>2, <2>3, <3>3, <4>1 DEF ArtifactFinalized, States
    <3> QED BY <3>1, <3>2, <3>3, UploadChanges
  <2> QED BY <2>1, <2>3
<1> QED BY <1>0, <1>1, <1>2, <1>3, <1>4, <1>5, <1>6, <1>7

LEMMA StillStep ==
  ASSUME Inv, \/ \E u \in Uploads : CreateUpload(u)
              \/ UNCHANGED vars
  PROVE  /\ \A s \in Threads : ThreadInv(s)'
         /\ raced' \/ FilesKept'
         /\ pc' \in [Threads -> Labels] /\ job' \in [Threads -> Jobs({0, 1})]
         /\ marked' \in [Threads -> SUBSET Hashes] /\ files' \subseteq Hashes
         /\ ustate' \in [Uploads -> States \cup {None}] /\ crashes' \in 0..MaxCrashes
         /\ \A u \in Uploads : artifact'[u] # None => ustate'[u] = "finalized"
<1>1. /\ UNCHANGED <<chunkRow, chunkFile, artifact, blob, files, pc, job, crashes, marked, raced>>
      /\ ustate' \in [Uploads -> States \cup {None}]
      /\ \A u \in Uploads : ustate[u] \in {"finalizing", "finalized"} => ustate'[u] = ustate[u]
  <2>1. ASSUME NEW u \in Uploads, CreateUpload(u)
        PROVE  /\ UNCHANGED <<chunkRow, chunkFile, artifact, blob, files, pc, job, crashes, marked, raced>>
               /\ ustate[u] = None /\ ustate' = [ustate EXCEPT ![u] = "open"]
    BY <2>1 DEF CreateUpload, rowVars
  <2>2. CASE UNCHANGED vars BY <2>2, Typed DEF vars, upVars, rowVars, TypeOK, StateTypeOK
  <2> QED BY <2>1, <2>2, Typed, NoneFresh DEF TypeOK, StateTypeOK, States
<1>2. TypeOK /\ ArtifactFinalized /\ (raced \/ FilesKept) /\ \A s \in Threads : ThreadInv(s)
  BY Typed DEF Inv
<1>3. \A h \in Hashes : RowState(h)' = RowState(h) BY <1>1 DEF RowState
<1>4. raced' \/ FilesKept' BY <1>1, <1>2, <1>3 DEF FilesKept, Adding
<1>5. ASSUME NEW s \in Threads PROVE ThreadInv(s)'
  <2>1. JobSet(s)' BY <1>1, <1>2 DEF ThreadInv, JobSet
  <2>2. OwnsUpload(s)'
    <3>1. pc[s] \in Owning \cup {"delete"} => job[s].u \in Uploads BY <1>2 DEF ThreadInv, JobSet
    <3>2. OwnsUpload(s) BY <1>2 DEF ThreadInv
    <3> QED BY <1>1, <3>1, <3>2 DEF OwnsUpload, Received
  <2>3. OwnsMarked(s)'
    <3>1. OwnsMarked(s) /\ marked[s] \subseteq Hashes BY <1>2 DEF ThreadInv, TypeOK
    <3> QED BY <1>1, <1>3, <3>1 DEF OwnsMarked
  <2> QED BY <2>1, <2>2, <2>3 DEF ThreadInv
<1>6. \A u \in Uploads : artifact'[u] # None => ustate'[u] = "finalized"
  BY <1>1, <1>2 DEF ArtifactFinalized
<1> QED BY <1>1, <1>2, <1>4, <1>5, <1>6 DEF TypeOK, StateTypeOK

(* A late chunk cannot add to an upload that is finalized.                 *)
LEMMA ChunksFirstStep ==
  ASSUME Inv, [Next]_vars
  PROVE  ChunksFirst'
<1> USE DEF upVars, rowVars
<1>0. /\ ustate \in [Uploads -> States \cup {None}] /\ ChunksFirst
      /\ \A t \in Threads : JobSet(t)
  BY Typed DEF Inv, ThreadInv, TypeOK, StateTypeOK
<1>1. ASSUME NEW t \in Threads, Request(t) \/ Step(t), NEW u \in Uploads
      PROVE  /\ ustate'[u] = "finalized" => Received(u)
             /\ ustate[u] # None => ustate'[u] # None
  <2>1. CASE ustate' = ustate BY <1>0, <2>1 DEF ChunksFirst
  <2>2. ASSUME NEW v \in Uploads, FinalizeBegin(t, v)
        PROVE  /\ ustate'[u] = "finalized" => Received(u)
               /\ ustate[u] # None => ustate'[u] # None
    <3>1. ustate' = [ustate EXCEPT ![v] = "finalizing"] BY <2>2 DEF FinalizeBegin
    <3> QED BY <1>0, <3>1, NoneFresh DEF ChunksFirst, States
  <2>3. ASSUME Published(t)
        PROVE  /\ ustate'[u] = "finalized" => Received(u)
               /\ ustate[u] # None => ustate'[u] # None
    <3>1. PICK v \in Uploads : Received(v) /\ ustate' = [ustate EXCEPT ![v] = "finalized"]
      BY <2>3 DEF Published, Publish
    <3> QED BY <1>0, <3>1, NoneFresh DEF ChunksFirst, States
  <2>4. CASE Rollback(t)
    <3>1. job[t].u \in Uploads BY <1>0, <2>4, LabelFacts DEF Rollback, JobSet
    <3>2. PICK v \in Uploads : ustate' = ustate \/ ustate' = [ustate EXCEPT ![v] = "open"]
      BY <2>4, <3>1 DEF Rollback
    <3> QED BY <1>0, <3>2, NoneFresh DEF ChunksFirst, States
  <2>5. CASE Request(t) /\ ~\E v \in Uploads : FinalizeBegin(t, v)
    BY <2>1, <2>5 DEF Request, PutCheck, DeleteRead, GcMark, ValidateScan
  <2>6. CASE Step(t) /\ ~Rollback(t)
    BY <2>1, <2>3, <2>6, CommitPublishes
    DEF Step, PutInsert, PutLink, Assemble, Decide, WaitForGc, Link, Settle, ReplaceUnlink,
        ReplaceLink, FinalizeError, Delete, GcDelete, GcError, GcUnlink, ValidateRead,
        ValidateSet, ValidateEnd
  <2> QED BY <1>1, <2>2, <2>4, <2>5, <2>6
<1>2. ASSUME NEW u \in Uploads
      PROVE  /\ ustate'[u] = "finalized" => Received(u)
             /\ ustate[u] # None => ustate'[u] # None
  <2>1. CASE Restart
    <3>1. ustate'[u] = IF ustate[u] = "finalizing" THEN "open" ELSE ustate[u]
      BY <2>1 DEF Restart
    <3> QED BY <1>0, <3>1, NoneFresh DEF ChunksFirst, States
  <2>2. ASSUME NEW v \in Uploads, CreateUpload(v)
        PROVE  /\ ustate'[u] = "finalized" => Received(u)
               /\ ustate[u] # None => ustate'[u] # None
    <3>1. ustate' = [ustate EXCEPT ![v] = "open"] BY <2>2 DEF CreateUpload
    <3> QED BY <1>0, <3>1, NoneFresh DEF ChunksFirst, States
  <2>3. CASE UNCHANGED vars BY <1>0, <2>3 DEF vars, ChunksFirst
  <2> QED BY <1>1, <2>1, <2>2, <2>3 DEF Next
<1>3. ASSUME NEW s \in Threads, pc'[s] = "putInsert" PROVE ustate'[job'[s].u] # None
  <2>1. CASE Restart BY <1>3, <2>1 DEF Restart, Killed
  <2>2. ASSUME pc[s] = "putInsert", job'[s] = job[s] PROVE ustate'[job'[s].u] # None
    <3>1. PICK u \in Uploads : u = job[s].u BY <1>0, <2>2 DEF JobSet
    <3> QED BY <1>0, <1>2, <2>2, <3>1 DEF ChunksFirst
  <2>3. ASSUME NEW t \in Threads, Request(t) \/ Step(t) PROVE ustate'[job'[s].u] # None
    <3>1. CASE s = t
      <4>1. PICK u \in Uploads : u = job'[t].u /\ ustate[u] # None
        BY <1>3, <2>3, <3>1, After DEF Fits
      <4> QED BY <1>2, <3>1, <4>1
    <3>2. CASE s # t
      <4>1. pc'[s] = pc[s] /\ job'[s] = job[s] BY <2>3, <3>2, After DEF Moves
      <4> QED BY <1>3, <2>2, <4>1
    <3> QED BY <3>1, <3>2
  <2>4. CASE UNCHANGED vars \/ \E v \in Uploads : CreateUpload(v)
    BY <1>3, <2>2, <2>4 DEF vars, CreateUpload
  <2> QED BY <2>1, <2>3, <2>4 DEF Next
<1> QED BY <1>2, <1>3, ReceivedStays DEF ChunksFirst

(* Inv is inductive.                                                       *)
LEMMA InvStep ==
  ASSUME Inv, [Next]_vars
  PROVE  Inv'
<1>1. /\ \A s \in Threads : ThreadInv(s)'
      /\ raced' \/ FilesKept'
      /\ pc' \in [Threads -> Labels] /\ job' \in [Threads -> Jobs({0, 1})]
      /\ marked' \in [Threads -> SUBSET Hashes] /\ files' \subseteq Hashes
      /\ ustate' \in [Uploads -> States \cup {None}] /\ crashes' \in 0..MaxCrashes
      /\ \A u \in Uploads : artifact'[u] # None => ustate'[u] = "finalized"
  BY RestartStep, ActStep, StillStep DEF Next
<1>2. Tables' /\ (raced' \/ RefcountExact') BY TablesStep
<1>3. raced' \in BOOLEAN
  <2>1. ASSUME NEW t \in Threads, Request(t) PROVE raced' = raced
    BY <2>1 DEF Request, PutCheck, FinalizeBegin, DeleteRead, GcMark, ValidateScan
  <2>2. ASSUME NEW t \in Threads, Step(t) PROVE raced' = raced \/ raced' \in BOOLEAN
    <3>1. CASE ReplaceUnlink(t) \/ Delete(t)
      <4>1. raced \in BOOLEAN BY Typed DEF TypeOK
      <4>2. CASE ReplaceUnlink(t) BY <4>1, <4>2 DEF ReplaceUnlink
      <4>3. CASE Delete(t) BY <4>1, <4>3 DEF Delete
      <4> QED BY <3>1, <4>2, <4>3
    <3>2. CASE ~(ReplaceUnlink(t) \/ Delete(t))
      BY <2>2, <3>2
      DEF Step, PutInsert, PutLink, Assemble, Decide, WaitForGc, Link, Settle,
          ReplaceLink, Publish, Commit, FinalizeError, Rollback, GcDelete, GcError,
          GcUnlink, ValidateRead, ValidateSet, ValidateEnd
    <3> QED BY <3>1, <3>2
  <2>3. ASSUME Restart \/ \E u \in Uploads : CreateUpload(u) PROVE raced' = raced
    BY <2>3 DEF Restart, CreateUpload
  <2>4. ASSUME UNCHANGED vars PROVE raced' = raced BY <2>4 DEF vars
  <2>5. raced' = raced \/ raced' \in BOOLEAN BY <2>1, <2>2, <2>3, <2>4 DEF Next
  <2>6. raced \in BOOLEAN BY Typed DEF TypeOK
  <2> QED BY <2>5, <2>6
<1>4. TypeOK' BY <1>1, <1>2, <1>3, ChunksStep DEF TypeOK, StateTypeOK, Tables
<1>5. ASSUME NEW h \in Hashes, RowState(h)' = "collecting" PROVE blob'[h].refs = 0
  <2>1. blob'[h] # None /\ blob'[h].state = "collecting" BY <1>5, NoneFresh DEF RowState
  <2> QED BY <1>2, <2>1 DEF Tables
<1>6. NoReferenceLeaks' BY <1>2, <1>4, <1>5 DEF NoReferenceLeaks, Tables
<1> QED BY <1>1, <1>2, <1>6, ChunksStep, ChunksFirstStep, ArtifactsStep DEF Inv, ArtifactFinalized

LEMMA InvInit == Init => Inv
<1> SUFFICES ASSUME Init PROVE Inv
  OBVIOUS
<1> USE DEF Init, InitState
<1>1. TypeOK
  <2>1. pc \in [Threads -> Labels] /\ job \in [Threads -> Jobs({0, 1})]
    BY NoJobIsJob, LabelFacts
  <2>2. crashes \in 0..MaxCrashes BY CrashesAssumption
  <2> QED BY <2>1, <2>2 DEF TypeOK, StateTypeOK
<1>2. \A t \in Threads : ThreadInv(t)
  BY LabelFacts DEF ThreadInv, JobSet, OwnsUpload, OwnsMarked
<1>3. \A h \in Hashes : Refs(h) = {} /\ RowState(h) = None BY NoneFresh DEF Refs, RowState
<1>4. FilesKept BY <1>3, NoneFresh DEF FilesKept, Adding
<1>5. ChunksFirst
  <2>1. \A u \in Uploads : ustate[u] # "finalized" BY NoneFresh DEF States
  <2>2. \A t \in Threads : pc[t] # "putInsert" OBVIOUS
  <2> QED BY <2>1, <2>2 DEF ChunksFirst
<1> QED BY <1>1, <1>2, <1>3, <1>4, <1>5, NoneFresh
    DEF Inv, NoReferenceLeaks, ArtifactFinalized, ArtifactIsItsChunks, FileIsRow, RefcountExact

LEMMA Invariance == Spec => []Inv
BY InvInit, InvStep, PTL DEF Spec

(* No reference is left that nobody holds, and none on a row that is being *)
(* collected, although deletes and increments are not checked.             *)
THEOREM NoLeaks == Spec => []NoReferenceLeaks
<1>1. Inv => NoReferenceLeaks BY DEF Inv
<1> QED BY Invariance, <1>1, PTL

(* The reference wins: until two requests delete one artifact, or a        *)
(* finalize replaces a file that was no residue, every live artifact keeps *)
(* its row and its bytes, and the counts are exact.                        *)
THEOREM ReferencesWin == Spec => []ReferenceWins
<1>1. Inv => ReferenceWins
  <2> SUFFICES ASSUME Inv, ~raced PROVE ArtifactReadable
    BY DEF Inv, ReferenceWins
  <2>1. ASSUME NEW u \in Uploads, NEW h \in Hashes, artifact[u] = h
        PROVE  blob[h] # None /\ h \in files
    <3>1. RefcountExact /\ FilesKept BY DEF Inv
    <3>2. u \in Refs(h) BY <2>1 DEF Refs
    <3>3. Cardinality(Refs(h)) # 0 BY <3>2, RefsCount
    <3>4. blob[h] # None /\ blob[h].refs = Cardinality(Refs(h)) BY <3>1, <3>2 DEF RefcountExact
    <3>5. RowState(h) = "active" BY <3>3, <3>4, Rows
    <3> QED BY <3>1, <3>4, <3>5 DEF FilesKept
  <2> QED BY <2>1, Typed DEF ArtifactReadable, TypeOK, StateTypeOK
<1> QED BY Invariance, <1>1, PTL

(* An artifact is the digest of the bytes first recorded for its chunks.   *)
THEOREM ArtifactsExact == Spec => []ArtifactIsItsChunks
<1>1. Inv => ArtifactIsItsChunks BY DEF Inv
<1> QED BY Invariance, <1>1, PTL

-----------------------------------------------------------------------------
(* What a client of VaultContract sees.                                    *)

(* What the contract's status is mapped to.                                *)
Status == [u \in Uploads |->
             IF ustate[u] = None THEN "absent"
             ELSE IF artifact[u] # None THEN "live"
             ELSE IF ustate[u] = "finalized" THEN "gone" ELSE "open"]

LEMMA StateNotNone == \A s \in States : s # None
BY NoneFresh

(* Nothing is recorded late for a published upload, which is never         *)
(* published again, whatever races.                                        *)
LEMMA Final ==
  ASSUME Inv, [Next]_vars, NEW u \in Uploads
  PROVE  /\ \A i \in Chunks : chunkRow[u][i] # None => chunkRow'[u][i] = chunkRow[u][i]
         /\ Status[u] \in {"live", "gone"} =>
              chunkRow'[u] = chunkRow[u] /\ Status'[u] \in {Status[u], "gone"}
<1>1. ASSUME Status[u] \in {"live", "gone"}
      PROVE  chunkRow'[u] = chunkRow[u] /\ Status'[u] \in {Status[u], "gone"}
  <2>1. ustate[u] = "finalized" BY <1>1 DEF Status, Inv, ArtifactFinalized
  <2>2. Received(u) BY <2>1 DEF Inv, ChunksFirst
  <2>3. ustate'[u] = "finalized" /\ artifact'[u] \in {None, artifact[u]}
    BY <2>1, FinalizedStays
  <2>4. Status'[u] \in {Status[u], "gone"} BY <2>1, <2>3, StateNotNone DEF Status, States
  <2> QED BY <2>2, <2>4, ReceivedStays
<1> QED BY <1>1, ChunksStep

(* The bytes first recorded for a chunk are final, and an artifact never   *)
(* changes and is published once: no race of deletes, finalizes and passes *)
(* touches that.                                                           *)
THEOREM Immutable == Spec => Contract!FirstBytesFinal /\ Contract!PublishedOnce
<1>1. Inv /\ [Next]_vars =>
        [\A u \in Uploads, i \in Chunks :
           chunkRow[u][i] # None => chunkRow'[u][i] = chunkRow[u][i]]_(Contract!vars)
  BY Final
<1>2. Inv /\ [Next]_vars =>
        [\A u \in Uploads : Status[u] \in {"live", "gone"} =>
           chunkRow'[u] = chunkRow[u] /\ Status'[u] \in {Status[u], "gone"}]_(Contract!vars)
  BY Final
<1> QED
  BY <1>1, <1>2, Invariance, PTL
  DEF Spec, Contract!FirstBytesFinal, Contract!PublishedOnce, Status

-----------------------------------------------------------------------------
(* Until the first race the store implements VaultContract.                *)

LEMMA Invisible ==
  ASSUME Status' = Status, UNCHANGED <<chunkRow, files>>
  PROVE  [Contract!Next]_Contract!vars
BY DEF Contract!vars, Status

LEMMA InitImplements == Init => Contract!Init
BY DEF Init, InitState, Contract!Init

(* As long as nothing raced a live artifact has its bytes.                 *)
LEMMA LiveHeld ==
  ASSUME Inv, ~raced, NEW u \in Uploads, artifact[u] # None
  PROVE  /\ Received(u) /\ Digest[chunkRow[u]] \in files
         /\ Digest[chunkRow[u]] \in Hashes /\ RowState(Digest[chunkRow[u]]) = "active"
<1>1. PICK h \in Hashes : h = artifact[u] BY Typed DEF TypeOK, StateTypeOK
<1>2. Received(u) /\ Digest[chunkRow[u]] = h BY <1>1 DEF Inv, ArtifactIsItsChunks
<1>3. RefcountExact /\ FilesKept BY DEF Inv
<1>4. u \in Refs(h) BY <1>1 DEF Refs
<1>5. Cardinality(Refs(h)) # 0 BY <1>4, RefsCount
<1>6. blob[h] # None /\ blob[h].refs = Cardinality(Refs(h)) BY <1>3, <1>4 DEF RefcountExact
<1>7. RowState(h) = "active" BY <1>5, <1>6, Rows
<1> QED BY <1>2, <1>3, <1>7 DEF FilesKept

(* Whatever keeps the files of the active rows collects.                   *)
LEMMA KeepsRows ==
  ASSUME Inv, ~raced, Status' = Status, chunkRow' = chunkRow, files' \subseteq files,
         \A h \in Hashes : h \in files /\ RowState(h) = "active" => h \in files'
  PROVE  Contract!Next
<1>1. ASSUME NEW u \in Uploads, Status[u] = "live" PROVE Digest[chunkRow[u]] \in files'
  <2>1. artifact[u] # None BY <1>1 DEF Status
  <2> QED BY <2>1, LiveHeld
<1>2. Contract!Collect BY <1>1 DEF Contract!Collect, Contract!Live, Contract!HashOf, Status
<1> QED BY <1>2 DEF Contract!Next

(* A finalize that begins or is rolled back leaves its upload open.        *)
LEMMA StaysOpen ==
  ASSUME Inv, NEW u \in Uploads, ustate[u] \in {"open", "finalizing"},
         NEW x \in {"open", "finalizing"}, ustate' = [ustate EXCEPT ![u] = x],
         artifact' = artifact
  PROVE  Status' = Status
<1>1. artifact[u] = None BY DEF Inv, ArtifactFinalized
<1>2. \A v \in Uploads : ustate'[v] = IF v = u THEN x ELSE ustate[v]
  BY Typed DEF TypeOK, StateTypeOK
<1>3. ustate[u] # None /\ x # None BY StateNotNone DEF States
<1> QED BY <1>1, <1>2, <1>3 DEF Status

LEMMA CreateImplements ==
  ASSUME Inv, NEW u \in Uploads, CreateUpload(u)
  PROVE  Contract!Next
<1>1. ustate[u] = None /\ ustate' = [ustate EXCEPT ![u] = "open"]
  BY DEF CreateUpload
<1>2. UNCHANGED <<chunkRow, artifact, files>> BY DEF CreateUpload, rowVars
<1>3. artifact[u] = None BY <1>1, StateNotNone DEF Inv, ArtifactFinalized, States
<1>4. Status' = [Status EXCEPT ![u] = "open"] /\ Status[u] = "absent"
  BY <1>1, <1>2, <1>3, StateNotNone, Typed DEF Status, States, TypeOK, StateTypeOK
<1>5. Contract!Open(u) BY <1>2, <1>4 DEF Contract!Open, Status
<1> QED BY <1>5 DEF Contract!Next

(* The first bytes recorded for a chunk are received; others change        *)
(* nothing.                                                                *)
LEMMA InsertImplements ==
  ASSUME Inv, NEW t \in Threads, PutInsert(t)
  PROVE  [Contract!Next]_Contract!vars
<1>1. PICK u \in Uploads, i \in Chunks, d \in Data :
        /\ u = job[t].u
        /\ chunkRow' = [chunkRow EXCEPT ![u][i] = IF @ = None THEN d ELSE @]
  BY PutFacts
<1>2. UNCHANGED <<ustate, artifact, files>> BY DEF PutInsert, rowVars
<1>3. Status' = Status BY <1>2 DEF Status
<1>4. chunkRow \in [Uploads -> [Chunks -> Data \cup {None}]] BY Typed DEF TypeOK, StateTypeOK
<1>5. CASE chunkRow[u][i] # None
  <2>1. chunkRow' = chunkRow BY <1>1, <1>4, <1>5
  <2> QED BY <1>2, <1>3, <2>1, Invisible
<1>6. CASE chunkRow[u][i] = None
  <2>1. ustate[u] # None BY <1>1 DEF PutInsert, Inv, ChunksFirst
  <2>2. ustate[u] # "finalized" BY <1>6 DEF Inv, ChunksFirst, Received
  <2>3. artifact[u] = None BY <2>2 DEF Inv, ArtifactFinalized
  <2>4. Status[u] = "open" BY <2>1, <2>2, <2>3 DEF Status
  <2>5. chunkRow' = [chunkRow EXCEPT ![u][i] = d] BY <1>1, <1>4, <1>6
  <2>6. Contract!Receive(u, i, d) BY <1>2, <1>3, <1>6, <2>4, <2>5 DEF Contract!Receive, Status
  <2> QED BY <2>6 DEF Contract!Next
<1> QED BY <1>5, <1>6

(* A commit publishes a complete upload whose bytes are held.              *)
LEMMA CommitImplements ==
  ASSUME Inv, ~raced, NEW t \in Threads, Published(t)
  PROVE  Contract!Next
<1>1. PICK u \in Uploads, h \in Hashes, row \in Row :
        /\ u = job[t].u /\ h = job[t].h /\ artifact[u] = None /\ ustate[u] = "finalizing"
        /\ Received(u) /\ Digest[chunkRow[u]] = h
        /\ Adding(t, h) \/ RowState(h) = "active"
        /\ Publish(t, row)
  BY DEF Published
<1>2. /\ artifact' = [artifact EXCEPT ![u] = h] /\ ustate' = [ustate EXCEPT ![u] = "finalized"]
      /\ UNCHANGED <<chunkRow, files>>
  BY <1>1 DEF Publish
<1>3. h \in files BY <1>1 DEF Inv, FilesKept
<1>4. chunkRow[u] \in Contents BY <1>1, Typed DEF Received, TypeOK, StateTypeOK, Contents
<1>5. Status[u] = "open" BY <1>1, StateNotNone DEF Status, States
<1>6. \A v \in Uploads : /\ ustate'[v] = IF v = u THEN "finalized" ELSE ustate[v]
                         /\ artifact'[v] = IF v = u THEN h ELSE artifact[v]
  BY <1>2, Typed DEF TypeOK, StateTypeOK
<1>7. Status' = [Status EXCEPT ![u] = "live"] BY <1>6, NoneFresh, StateNotNone DEF Status, States
<1>8. Contract!Publish(u)
  BY <1>1, <1>2, <1>3, <1>4, <1>5, <1>7
  DEF Contract!Publish, Contract!HashOf, Contract!Contents, Contents, Status
<1> QED BY <1>8 DEF Contract!Next

(* A delete that has not lost the race removes an artifact.                *)
LEMMA DeleteImplements ==
  ASSUME Inv, ~raced', NEW t \in Threads, Delete(t)
  PROVE  Contract!Next
<1>1. PICK u \in Uploads : u = job[t].u BY DEF Delete, Inv, ThreadInv, JobSet
<1>2. ustate[u] = "finalized" BY <1>1 DEF Delete, Inv, ThreadInv, OwnsUpload
<1>3. /\ artifact[u] # None /\ artifact' = [artifact EXCEPT ![u] = None]
      /\ UNCHANGED <<ustate, chunkRow, files>>
  BY <1>1 DEF Delete, upVars
<1>4. \A v \in Uploads : artifact'[v] = IF v = u THEN None ELSE artifact[v]
  BY <1>3, Typed DEF TypeOK, StateTypeOK
<1>5. Status[u] = "live" /\ Status' = [Status EXCEPT ![u] = "gone"]
  BY <1>2, <1>3, <1>4, StateNotNone DEF Status, States
<1>6. Contract!Remove(u) BY <1>3, <1>5 DEF Contract!Remove, Status
<1> QED BY <1>6 DEF Contract!Next

LEMMA ThreadImplements ==
  ASSUME Inv, ~raced, ~raced', NEW t \in Threads, Request(t) \/ Step(t)
  PROVE  [Contract!Next]_Contract!vars
<1> USE DEF upVars, rowVars
<1>1. ASSUME UNCHANGED <<ustate, chunkRow, artifact, files>> PROVE [Contract!Next]_Contract!vars
  BY <1>1, Invisible DEF Status
<1>2. ASSUME NEW u \in Uploads, FinalizeBegin(t, u) PROVE [Contract!Next]_Contract!vars
  <2>1. /\ ustate[u] = "open" /\ ustate' = [ustate EXCEPT ![u] = "finalizing"]
        /\ UNCHANGED <<chunkRow, artifact, files>>
    BY <1>2 DEF FinalizeBegin
  <2> QED BY <2>1, StaysOpen, Invisible
<1>3. CASE Rollback(t)
  <2>1. PICK u \in Uploads : u = job[t].u /\ ustate[u] = "finalizing"
    BY <1>3, LabelFacts DEF Rollback, Inv, ThreadInv, JobSet, OwnsUpload
  <2>2. /\ ustate' = ustate \/ ustate' = [ustate EXCEPT ![u] = "open"]
        /\ UNCHANGED <<chunkRow, artifact, files>>
    BY <1>3, <2>1 DEF Rollback
  <2>3. CASE ustate' = ustate BY <1>1, <2>2, <2>3
  <2>4. CASE ustate' = [ustate EXCEPT ![u] = "open"] BY <2>1, <2>2, <2>4, StaysOpen, Invisible
  <2> QED BY <2>2, <2>3, <2>4
<1>4. CASE Request(t) /\ ~\E u \in Uploads : FinalizeBegin(t, u)
  <2>1. UNCHANGED <<ustate, chunkRow, artifact, files>>
    BY <1>4 DEF Request, PutCheck, DeleteRead, GcMark, ValidateScan
  <2> QED BY <1>1, <2>1
<1>5. CASE \/ PutLink(t) \/ Assemble(t) \/ Decide(t) \/ WaitForGc(t) \/ Settle(t)
           \/ FinalizeError(t) \/ GcDelete(t) \/ GcError(t) \/ ValidateSet(t) \/ ValidateEnd(t)
           \/ \E h \in Hashes : ValidateRead(t, h)
  <2>1. UNCHANGED <<ustate, chunkRow, artifact, files>>
    BY <1>5 DEF PutLink, Assemble, Decide, WaitForGc, Settle, FinalizeError, GcDelete, GcError,
         ValidateSet, ValidateEnd, ValidateRead
  <2> QED BY <1>1, <2>1
<1>6. CASE Link(t) \/ ReplaceLink(t)
  <2>1. PICK h \in Hashes : h = job[t].h
    BY <1>6 DEF Link, ReplaceLink, Inv, ThreadInv, JobSet, Hashed
  <2>2. files' = files \cup {h} /\ UNCHANGED <<ustate, chunkRow, artifact>>
    BY <1>6, <2>1 DEF Link, ReplaceLink
  <2>3. files' \in SUBSET Contract!Hashes /\ files \subseteq files'
    BY <2>2, Typed DEF TypeOK, StateTypeOK, Hashes, Contents, Contract!Hashes, Contract!Contents
  <2>4. Status' = Status BY <2>2 DEF Status
  <2>5. Contract!Store BY <2>2, <2>3, <2>4 DEF Contract!Store, Status
  <2> QED BY <2>5 DEF Contract!Next
<1>7. ASSUME NEW h \in Hashes, files' = files \ {h}, RowState(h) # "active",
             UNCHANGED <<ustate, chunkRow, artifact>>
      PROVE  Contract!Next
  <2>1. Status' = Status BY <1>7 DEF Status
  <2> QED BY <1>7, <2>1, KeepsRows
<1>8. CASE ReplaceUnlink(t)
  <2>1. PICK h \in Hashes : h = job[t].h
    BY <1>8 DEF ReplaceUnlink, Inv, ThreadInv, JobSet, Hashed
  <2>2. blob[h] = None BY <1>8, <2>1 DEF ReplaceUnlink
  <2>3. RowState(h) # "active" BY <2>2, NoneFresh DEF RowState
  <2>4. files' = files \ {h} /\ UNCHANGED <<ustate, chunkRow, artifact>>
    BY <1>8, <2>1 DEF ReplaceUnlink
  <2> QED BY <1>7, <2>3, <2>4
<1>9. ASSUME NEW h \in Hashes, GcUnlink(t, h) PROVE Contract!Next
  <2>1. h \in job[t].todo /\ pc[t] = "gcUnlink" BY <1>9 DEF GcUnlink
  <2>2. RowState(h) = "collecting" BY <2>1 DEF Inv, ThreadInv, OwnsMarked
  <2>3. files' = files \ {h} /\ UNCHANGED <<ustate, chunkRow, artifact>> BY <1>9 DEF GcUnlink
  <2> QED BY <1>7, <2>2, <2>3
<1>10. CASE Commit(t)
  <2>1. files' = files BY <1>10 DEF Commit, Publish
  <2>2. CASE UNCHANGED <<upVars, rowVars>> BY <1>1, <2>1, <2>2
  <2> QED BY <1>10, <2>2, CommitPublishes, CommitImplements
<1> QED BY <1>2, <1>3, <1>4, <1>5, <1>6, <1>8, <1>9, <1>10, InsertImplements, DeleteImplements
        DEF Step

(* Start-up removes files without a row and rows without a file.           *)
LEMMA RestartImplements ==
  ASSUME Inv, ~raced, Restart
  PROVE  Contract!Next
<1>1. /\ ustate' = [u \in Uploads |-> IF ustate[u] = "finalizing" THEN "open" ELSE ustate[u]]
      /\ files' = {h \in files : blob[h] # None}
      /\ UNCHANGED <<chunkRow, artifact>>
  BY DEF Restart
<1>2. Status' = Status
  <2>1. ASSUME NEW u \in Uploads
        PROVE  \/ ustate'[u] = ustate[u]
               \/ ustate[u] = "finalizing" /\ ustate'[u] = "open" /\ artifact[u] = None
    BY <1>1 DEF Inv, ArtifactFinalized
  <2> QED BY <1>1, <2>1, StateNotNone DEF Status, States
<1>3. \A h \in Hashes : RowState(h) = "active" => blob[h] # None BY NoneFresh DEF RowState
<1> QED BY <1>1, <1>2, <1>3, KeepsRows

(* The first step that breaks the contract of vaultdrop/product.md is one  *)
(* of the two that `raced' records: up to it each upload becomes at most   *)
(* one artifact, complete, with its bytes held until it is removed.        *)
THEOREM ImplementsUntil == Spec => ImplementsUntilRaced
<1>1. Inv /\ [Next]_vars => [raced' \/ Contract!Next]_(Contract!vars)
  <2> SUFFICES ASSUME Inv, [Next]_vars, ~raced' PROVE [Contract!Next]_Contract!vars
    OBVIOUS
  <2>1. ~raced BY RacedStays
  <2>2. CASE UNCHANGED vars BY <2>2, Invisible DEF vars, upVars, rowVars, Status
  <2> QED BY <2>1, <2>2, CreateImplements, ThreadImplements, RestartImplements DEF Next
<1> QED BY <1>1, InitImplements, Invariance, PTL DEF Spec, ImplementsUntilRaced

(* Until then a live artifact is complete and its bytes are held.          *)
THEOREM HeldUntilRaced == Spec => [](raced \/ Contract!LiveKept)
<1>1. Inv => raced \/ Contract!LiveKept
  <2> SUFFICES ASSUME Inv, ~raced, NEW u \in Uploads, Status[u] = "live"
               PROVE  chunkRow[u] \in Contents /\ Digest[chunkRow[u]] \in files
    BY DEF Contract!LiveKept, Contract!Live, Contract!HashOf, Contract!Contents, Contents, Status
  <2>1. artifact[u] # None BY DEF Status
  <2>2. Received(u) /\ Digest[chunkRow[u]] \in files BY <2>1, LiveHeld
  <2> QED BY <2>2, Typed DEF Received, TypeOK, StateTypeOK, Contents
<1> QED BY <1>1, Invariance, PTL
=============================================================================

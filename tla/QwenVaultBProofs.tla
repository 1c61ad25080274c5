-------------------------- MODULE QwenVaultBProofs --------------------------
(***************************************************************************)
(* Proofs about QwenVaultB for every set of uploads, chunks, contents and  *)
(* threads, every collision-free digest and any number of kills: the       *)
(* tables of the claim and tombstone protocol stay coherent.  What happens *)
(* to the bytes is another matter (BytesKept, which does not hold).        *)
(***************************************************************************)
EXTENDS QwenVaultB, FiniteSetTheorems, TLAPS

(* `None' is no row, state, hash, upload, chunk or content.                *)
LEMMA NoneFresh ==
  /\ None \notin Row /\ None \notin States /\ None \notin Hashes
  /\ None \notin {"active", "pending", "deleted"}
  /\ None \notin Uploads /\ None \notin Chunks /\ None \notin Data
BY RowAssumption, NoneAssumption

(* Only finitely many artifact rows refer to a hash.                       *)
LEMMA RefsCount ==
  ASSUME NEW h \in Hashes
  PROVE  /\ IsFiniteSet(Refs(h))
         /\ Cardinality(Refs(h)) \in Nat
         /\ Cardinality(Refs(h)) = 0 <=> Refs(h) = {}
<1>1. Refs(h) \subseteq Uploads BY DEF Refs
<1>2. IsFiniteSet(Refs(h)) BY <1>1, UploadsAssumption, FS_Subset
<1> QED BY <1>2, FS_CardinalityType, FS_EmptySet

(* What changing a field of a blobs row makes of the row.                  *)
LEMMA RowFields ==
  ASSUME NEW r \in Row
  PROVE  /\ \A s \in {"active", "pending", "deleted"} :
              /\ [r EXCEPT !.state = s] \in Row
              /\ [r EXCEPT !.state = s].refs = r.refs
         /\ [r EXCEPT !.validated = 1] \in Row
         /\ [r EXCEPT !.validated = 1].refs = r.refs
         /\ [r EXCEPT !.validated = 1].state = r.state
BY DEF Row

LEMMA NewRowFields == NewRow \in Row /\ NewRow.refs = 1 /\ NewRow.state = "active"
BY DEF NewRow, Row

(* The rows as the type invariant has them.                                *)
LEMMA Rows ==
  ASSUME Inv, NEW h \in Hashes, blob[h] # None
  PROVE  blob[h] \in Row /\ blob[h].refs \in Int /\ blob[h].refs = Cardinality(Refs(h))
         /\ blob[h].state \in {"active", "pending", "deleted"} /\ RowState(h) = blob[h].state
BY DEF Inv, ClaimOrTombstone, TypeOK, StateTypeOK, Row, RefcountExact, RowState

LEMMA NoJobIsJob == NoJob \in Jobs({1})
BY DEF Jobs, NoJob

(* The program counters and local variables after a thread's step.         *)
LEMMA Went ==
  ASSUME TypeOK, NEW t \in Threads, NEW l, Goto(t, l)
  PROVE  /\ \A r \in Threads : pc'[r] = (IF r = t THEN l ELSE pc[r]) /\ job'[r] = job[r]
         /\ l \in Labels => pc' \in [Threads -> Labels] /\ job' \in [Threads -> Jobs({1})]
BY DEF TypeOK, StateTypeOK, Goto

LEMMA Began ==
  ASSUME TypeOK, NEW t \in Threads, NEW l, NEW j, Begin(t, l, j)
  PROVE  /\ \A r \in Threads : /\ pc'[r] = (IF r = t THEN l ELSE pc[r])
                               /\ job'[r] = (IF r = t THEN j ELSE job[r])
         /\ l \in Labels /\ j \in Jobs({1}) =>
              pc' \in [Threads -> Labels] /\ job' \in [Threads -> Jobs({1})]
BY DEF TypeOK, StateTypeOK, Begin

LEMMA Finished ==
  ASSUME TypeOK, NEW t \in Threads, Finish(t)
  PROVE  /\ \A r \in Threads : /\ pc'[r] = (IF r = t THEN "idle" ELSE pc[r])
                               /\ r # t => job'[r] = job[r]
         /\ pc' \in [Threads -> Labels] /\ job' \in [Threads -> Jobs({1})]
<1>1. Begin(t, "idle", NoJob) BY DEF Finish
<1>2. "idle" \in Labels BY DEF Labels
<1> QED BY <1>1, <1>2, Began, NoJobIsJob

-----------------------------------------------------------------------------
(* The threads.  A step moves one thread, or kills them all.               *)

(* Where a step leaves the thread that takes it: at a label, with the      *)
(* local variables that JobSet and ClaimsItsChunks ask for there.          *)
Arrives(t) ==
  /\ pc'[t] \in Labels /\ job'[t] \in Jobs({1})
  /\ JobSet(t)'
  /\ pc'[t] \in Claiming => Received(job'[t].u) /\ Digest[chunkRow[job'[t].u]] = job'[t].h

(* A step of one thread: nobody else moves, and where it arrives it has    *)
(* what it needs.                                                          *)
Moves(t) ==
  /\ \A r \in Threads \ {t} : pc'[r] = pc[r] /\ job'[r] = job[r]
  /\ pc' \in [Threads -> Labels] /\ job' \in [Threads -> Jobs({1})]
  /\ Arrives(t)

LEMMA GoesOn ==
  ASSUME TypeOK, NEW t \in Threads, JobSet(t), NEW l \in Labels, Goto(t, l),
         l \in Claiming => /\ pc[t] \in Claiming
                           /\ Received(job[t].u) /\ Digest[chunkRow[job[t].u]] = job[t].h,
         l \in {"gcDecide", "gcRestore", "gcUnlink"} => pc[t] \in {"gcRename", "gcDecide"},
         l \notin {"putLock", "assemble", "gcRename", "valSet"},
         l = "putInsert" => pc[t] = "putLock"
  PROVE  Moves(t)
<1>1. /\ pc'[t] = l /\ job'[t] = job[t]
      /\ \A r \in Threads \ {t} : pc'[r] = pc[r] /\ job'[r] = job[r]
      /\ pc' \in [Threads -> Labels] /\ job' \in [Threads -> Jobs({1})]
  BY Went
<1>2. job'[t] \in Jobs({1}) BY <1>1
<1>3. JobSet(t)' BY <1>1 DEF JobSet, Claiming
<1> QED BY <1>1, <1>2, <1>3 DEF Moves, Arrives

LEMMA Ends ==
  ASSUME TypeOK, NEW t \in Threads, Finish(t)
  PROVE  Moves(t) /\ pc'[t] = "idle"
<1>1. /\ pc'[t] = "idle"
      /\ \A r \in Threads \ {t} : pc'[r] = pc[r] /\ job'[r] = job[r]
      /\ pc' \in [Threads -> Labels] /\ job' \in [Threads -> Jobs({1})]
  BY Finished
<1>2. JobSet(t)' BY <1>1 DEF JobSet, Claiming
<1> QED BY <1>1, <1>2 DEF Moves, Arrives, Claiming

LEMMA StartsAt ==
  ASSUME TypeOK, NEW t \in Threads, NEW l \in Labels, NEW j \in Jobs({1}), Begin(t, l, j),
         l \in {"putLock", "putInsert"} => j.u \in Uploads /\ j.i \in Chunks /\ j.d \in Data,
         l \in Claiming \cup {"assemble"} => j.u \in Uploads,
         l \in Claiming \cup {"gcRename", "gcDecide", "gcRestore", "gcUnlink", "valSet"} =>
           j.h \in Hashes,
         l \in Claiming => Received(j.u) /\ Digest[chunkRow[j.u]] = j.h
  PROVE  Moves(t) /\ pc'[t] = l /\ job'[t] = j
<1>1. /\ pc'[t] = l /\ job'[t] = j
      /\ \A r \in Threads \ {t} : pc'[r] = pc[r] /\ job'[r] = job[r]
      /\ pc' \in [Threads -> Labels] /\ job' \in [Threads -> Jobs({1})]
  BY Began
<1>2. JobSet(t)' BY <1>1 DEF JobSet
<1> QED BY <1>1, <1>2 DEF Moves, Arrives

(* Every request and every step of a thread moves that thread.             *)
LEMMA RequestMoves ==
  ASSUME Inv, NEW t \in Threads, Request(t)
  PROVE  Moves(t) /\ pc'[t] # "putInsert"
<1>0. TypeOK BY DEF Inv, ClaimOrTombstone
<1>1. ASSUME NEW u \in Uploads, NEW i \in Chunks, NEW d \in Data, PutCheck(t, u, i, d)
      PROVE  Moves(t) /\ pc'[t] # "putInsert"
  <2> DEFINE j == [NoJob EXCEPT !.u = u, !.i = i, !.d = d]
  <2>1. j \in Jobs({1}) /\ j.u = u /\ j.i = i /\ j.d = d BY DEF Jobs, NoJob
  <2>2. Begin(t, "putLock", j) BY <1>1 DEF PutCheck
  <2> HIDE DEF j
  <2>3. "putLock" \in Labels /\ "putLock" \notin Claiming BY DEF Labels, Claiming
  <2> QED BY <1>0, <2>1, <2>2, <2>3, StartsAt
<1>2. ASSUME NEW u \in Uploads, FinalizeRead(t, u)
      PROVE  Moves(t) /\ pc'[t] # "putInsert"
  <2> DEFINE j == [NoJob EXCEPT !.u = u]
  <2>1. j \in Jobs({1}) /\ j.u = u BY DEF Jobs, NoJob
  <2>2. Begin(t, "assemble", j) BY <1>2 DEF FinalizeRead
  <2> HIDE DEF j
  <2>3. "assemble" \in Labels /\ "assemble" \notin Claiming BY DEF Labels, Claiming
  <2> QED BY <1>0, <2>1, <2>2, <2>3, StartsAt
<1>3. ASSUME GcMark(t) PROVE Moves(t) /\ pc'[t] # "putInsert"
  <2>1. PICK T \in SUBSET Hashes : Begin(t, "gcNext", [NoJob EXCEPT !.todo = T])
    BY <1>3 DEF GcMark
  <2>2. [NoJob EXCEPT !.todo = T] \in Jobs({1}) BY DEF Jobs, NoJob
  <2>3. "gcNext" \in Labels /\ "gcNext" \notin Claiming BY DEF Labels, Claiming
  <2> QED BY <1>0, <2>1, <2>2, <2>3, StartsAt
<1>4. ASSUME ValidateScan(t) PROVE Moves(t) /\ pc'[t] # "putInsert"
  <2>1. PICK T \in SUBSET Hashes : Begin(t, "valRead", [NoJob EXCEPT !.todo = T])
    BY <1>4 DEF ValidateScan
  <2>2. [NoJob EXCEPT !.todo = T] \in Jobs({1}) BY DEF Jobs, NoJob
  <2>3. "valRead" \in Labels /\ "valRead" \notin Claiming BY DEF Labels, Claiming
  <2> QED BY <1>0, <2>1, <2>2, <2>3, StartsAt
<1> QED BY <1>1, <1>2, <1>3, <1>4 DEF Request

LEMMA StepMoves ==
  ASSUME Inv, NEW t \in Threads, Step(t)
  PROVE  Moves(t) /\ (pc'[t] = "putInsert" => PutPlace(t))
<1> DEFINE Good == Moves(t) /\ (pc'[t] = "putInsert" => PutPlace(t))
<1>0. /\ TypeOK /\ JobSet(t) /\ job[t] \in Jobs({1}) /\ job[t].todo \subseteq Hashes
      /\ pc[t] \in Claiming => Received(job[t].u) /\ Digest[chunkRow[job[t].u]] = job[t].h
  BY DEF Inv, ClaimOrTombstone, ThreadInv, ClaimsItsChunks, TypeOK, StateTypeOK, Jobs
<1>1. CASE PutPlace(t)
  <2>1. CASE Finish(t) BY <1>0, <1>1, <2>1, Ends
  <2>2. CASE Goto(t, "putInsert")
    <3>1. pc[t] = "putLock" BY <1>1 DEF PutPlace
    <3>2. "putInsert" \in Labels /\ "putInsert" \notin Claiming BY DEF Labels, Claiming
    <3>3. Moves(t) BY <1>0, <2>2, <3>1, <3>2, GoesOn
    <3> QED BY <1>1, <3>3
  <2> QED BY <1>1, <2>1, <2>2 DEF PutPlace
<1>2. CASE \/ PutInsert(t) \/ ClaimError(t) \/ GcEnd(t) \/ ValidateEnd(t)
  <2>1. Finish(t) BY <1>2 DEF PutInsert, ClaimError, GcEnd, ValidateEnd
  <2> QED BY <1>0, <2>1, Ends
<1>3. CASE Assemble(t)
  <2>1. CASE Finish(t) BY <1>0, <2>1, Ends
  <2>2. ASSUME NEW h \in Hashes, Received(job[t].u), Assembled(job[t].u, h),
               Begin(t, "claim", [job[t] EXCEPT !.h = h, !.flag = 1])
        PROVE  Good
    <3> DEFINE j == [job[t] EXCEPT !.h = h, !.flag = 1]
    <3>1. j \in Jobs({1}) /\ j.u = job[t].u /\ j.h = h BY <1>0 DEF Jobs
    <3>2. Begin(t, "claim", j) BY <2>2
    <3> HIDE DEF j
    <3>3. job[t].u \in Uploads BY <1>0, <1>3 DEF Assemble, JobSet
    <3>4. chunkRow[job[t].u] = chunkFile[job[t].u]
      <4>1. \A i \in Chunks : chunkRow[job[t].u][i] = chunkFile[job[t].u][i]
        BY <2>2, <3>3 DEF Received, Inv, ChunkBytesKept
      <4>2. /\ chunkRow[job[t].u] \in [Chunks -> Data \cup {None}]
            /\ chunkFile[job[t].u] \in [Chunks -> Data \cup {None}]
        BY <1>0, <3>3 DEF TypeOK, StateTypeOK
      <4> QED BY <4>1, <4>2
    <3>5. Digest[chunkRow[job[t].u]] = h BY <2>2, <3>4 DEF Assembled
    <3>6. "claim" \in Labels BY DEF Labels
    <3>7. Moves(t) /\ pc'[t] = "claim"
      BY <1>0, <2>2, <3>1, <3>2, <3>3, <3>5, <3>6, StartsAt
    <3> QED BY <3>7
  <2> QED BY <1>3, <2>1, <2>2 DEF Assemble
<1>4. CASE \/ ClaimRead(t) \/ ClaimWinner(t) \/ GcRename(t) \/ GcDecide(t) \/ GcSettle(t)
           \/ ValidateSet(t)
  <2>1. ASSUME NEW l \in Labels, Goto(t, l),
               l \in Claiming => pc[t] \in Claiming,
               l \in {"gcDecide", "gcRestore", "gcUnlink"} => pc[t] \in {"gcRename", "gcDecide"},
               l \notin {"putLock", "putInsert", "assemble", "gcRename", "valSet"}
        PROVE  Good
    <3>1. Moves(t) BY <1>0, <2>1, GoesOn
    <3>2. pc'[t] = l BY <1>0, <2>1, Went
    <3> QED BY <2>1, <3>1, <3>2
  <2>2. CASE ClaimRead(t)
    BY <2>1, <2>2 DEF ClaimRead, Labels, Claiming
  <2>3. CASE ClaimWinner(t)
    <3>1. CASE Finish(t) BY <1>0, <3>1, Ends
    <3>2. CASE Goto(t, "claim") BY <2>1, <2>3, <3>2 DEF ClaimWinner, Labels, Claiming
    <3> QED BY <2>3, <3>1, <3>2 DEF ClaimWinner
  <2>4. CASE GcRename(t) BY <2>1, <2>4 DEF GcRename, Labels, Claiming
  <2>5. CASE GcDecide(t) BY <2>1, <2>5 DEF GcDecide, Labels, Claiming
  <2>6. CASE GcSettle(t) BY <2>1, <2>6 DEF GcSettle, Labels, Claiming
  <2>7. CASE ValidateSet(t) BY <2>1, <2>7 DEF ValidateSet, Labels, Claiming
  <2> QED BY <1>4, <2>2, <2>3, <2>4, <2>5, <2>6, <2>7
<1>5. CASE ClaimPlace(t)
  <2> DEFINE j == [job[t] EXCEPT !.flag = None]
  <2>1. j \in Jobs({1}) /\ j.u = job[t].u /\ j.h = job[t].h
    BY <1>0 DEF Jobs
  <2>2. PICK l \in {"insert", "resurrect"} : Begin(t, l, j) BY <1>5 DEF ClaimPlace
  <2> HIDE DEF j
  <2>3. pc[t] \in Claiming BY <1>5 DEF ClaimPlace, Claiming
  <2>4. l \in Labels /\ l \in Claiming BY DEF Labels, Claiming
  <2>5. job[t].u \in Uploads /\ job[t].h \in Hashes BY <1>0, <2>3 DEF JobSet
  <2>6. Moves(t) /\ pc'[t] = l BY <1>0, <2>1, <2>2, <2>3, <2>4, <2>5, StartsAt
  <2> QED BY <2>6
<1>6. CASE ClaimInsert(t) \/ ClaimRecover(t) \/ ClaimResurrect(t)
  <2>1. \/ Finish(t)
        \/ /\ pc[t] \in Claiming
           /\ \E l \in {"claim", "winner"} : Goto(t, l)
    BY <1>6 DEF ClaimInsert, ClaimRecover, ClaimResurrect, Publish, RolledBack, Claiming
  <2>2. CASE Finish(t) BY <1>0, <2>2, Ends
  <2>3. ASSUME NEW l \in {"claim", "winner"}, Goto(t, l), pc[t] \in Claiming PROVE Good
    <3>1. l \in Labels /\ l \in Claiming BY DEF Labels, Claiming
    <3>2. Moves(t) BY <1>0, <2>3, <3>1, GoesOn
    <3>3. pc'[t] = l BY <1>0, <2>3, Went
    <3> QED BY <3>2, <3>3
  <2> QED BY <2>1, <2>2, <2>3
<1>7. ASSUME NEW h \in Hashes, GcTombstone(t, h) PROVE Good
  <2> DEFINE j == [job[t] EXCEPT !.h = h, !.todo = job[t].todo \ {h}]
  <2>1. j \in Jobs({1}) /\ j.h = h BY <1>0 DEF Jobs
  <2>2. Begin(t, "gcRename", j) BY <1>7 DEF GcTombstone
  <2> HIDE DEF j
  <2>3. "gcRename" \in Labels /\ "gcRename" \notin Claiming BY DEF Labels, Claiming
  <2> QED BY <1>0, <2>1, <2>2, <2>3, StartsAt
<1>8. ASSUME NEW h \in Hashes, ValidateRead(t, h) PROVE Good
  <2> DEFINE j == [job[t] EXCEPT !.todo = job[t].todo \ {h}]
             k == [j EXCEPT !.h = h]
  <2>1. j \in Jobs({1}) /\ k \in Jobs({1}) /\ k.h = h BY <1>0 DEF Jobs
  <2>2. Begin(t, "valSet", k) \/ Begin(t, "valRead", j) \/ Finish(t) BY <1>8 DEF ValidateRead
  <2> HIDE DEF j, k
  <2>3. /\ {"valSet", "valRead"} \subseteq Labels
        /\ "valSet" \notin Claiming /\ "valRead" \notin Claiming
    BY DEF Labels, Claiming
  <2>4. CASE Begin(t, "valSet", k) BY <1>0, <2>1, <2>3, <2>4, StartsAt
  <2>5. CASE Begin(t, "valRead", j) BY <1>0, <2>1, <2>3, <2>5, StartsAt
  <2>6. CASE Finish(t) BY <1>0, <2>6, Ends
  <2> QED BY <2>2, <2>4, <2>5, <2>6
<1> QED BY <1>1, <1>2, <1>3, <1>4, <1>5, <1>6, <1>7, <1>8 DEF Step

-----------------------------------------------------------------------------
(* The tables.  Five kinds of steps change them.                           *)

(* A claim commits: one more reference, on an active row.                  *)
Published(t) ==
  /\ pc[t] \in Claiming /\ job[t].u \in Uploads /\ job[t].h \in Hashes
  /\ artifact[job[t].u] = None
  /\ \E row \in Row :
       /\ row.state = "active" /\ row.refs = Cardinality(Refs(job[t].h)) + 1
       /\ Publish(t, row)

(* gc and validation change rows without their counts, and take no row     *)
(* from active that has references.                                        *)
Relabelled ==
  /\ UNCHANGED <<upVars, artifact>>
  /\ blob' \in [Hashes -> Row \cup {None}]
  /\ \A h \in Hashes :
       \/ blob'[h] = blob[h]
       \/ /\ blob[h] # None /\ blob'[h] # None /\ blob'[h].refs = blob[h].refs
          /\ \/ blob'[h].state = blob[h].state
             \/ blob[h].refs = 0

LEMMA ClaimsPublish ==
  ASSUME Inv, NEW t \in Threads, ClaimInsert(t) \/ ClaimRecover(t) \/ ClaimResurrect(t)
  PROVE  Published(t) \/ UNCHANGED <<upVars, rowVars>>
<1> USE DEF upVars, rowVars
<1>1. pc[t] \in {"insert", "recover", "resurrect"}
  BY DEF ClaimInsert, ClaimRecover, ClaimResurrect
<1>2. PICK u \in Uploads, h \in Hashes : u = job[t].u /\ h = job[t].h
  BY <1>1 DEF Inv, ThreadInv, JobSet, Claiming
<1>3. ASSUME NEW row \in Row, row.state = "active", row.refs = Cardinality(Refs(h)) + 1,
             artifact[u] = None, Publish(t, row)
      PROVE  Published(t)
  BY <1>1, <1>2, <1>3 DEF Published, Claiming
<1>4. blob[h] = None => Cardinality(Refs(h)) = 0
  BY RefsCount DEF Inv, RefcountExact
<1>5. CASE ClaimInsert(t)
  BY <1>2, <1>3, <1>4, <1>5, NewRowFields DEF ClaimInsert, RolledBack
<1>6. CASE ClaimRecover(t)
  <2>1. CASE RolledBack(t, "claim") \/ RolledBack(t, "winner") BY <2>1 DEF RolledBack
  <2>2. CASE /\ RowState(h) \in {"active", "pending"} /\ artifact[u] = None
             /\ Publish(t, [blob[h] EXCEPT !.refs = blob[h].refs + 1, !.state = "active"])
    <3>1. blob[h] # None BY <2>2, NoneFresh DEF RowState
    <3>2. blob[h] \in Row /\ blob[h].refs + 1 \in Int /\ blob[h].refs = Cardinality(Refs(h))
      BY <3>1, Rows
    <3>3. /\ [blob[h] EXCEPT !.refs = blob[h].refs + 1, !.state = "active"] \in Row
          /\ [blob[h] EXCEPT !.refs = blob[h].refs + 1, !.state = "active"].refs = blob[h].refs + 1
          /\ [blob[h] EXCEPT !.refs = blob[h].refs + 1, !.state = "active"].state = "active"
      <4>1. blob[h] \in Row /\ blob[h].refs + 1 \in Int BY <3>2
      <4>2. PICK r \in Row, n \in Int : r = blob[h] /\ n = blob[h].refs + 1 BY <4>1
      <4>3. /\ [r EXCEPT !.refs = n, !.state = "active"] \in Row
            /\ [r EXCEPT !.refs = n, !.state = "active"].refs = n
            /\ [r EXCEPT !.refs = n, !.state = "active"].state = "active"
        BY ONLY r \in Row, n \in Int DEF Row
      <4> QED BY <4>2, <4>3
    <3> QED BY <1>3, <2>2, <3>2, <3>3
  <2> QED BY <1>2, <1>6, <2>1, <2>2 DEF ClaimRecover
<1>7. CASE ClaimResurrect(t)
  <2>1. CASE RolledBack(t, "claim") \/ RolledBack(t, "winner") BY <2>1 DEF RolledBack
  <2>2. CASE RowState(h) \notin {"active", "pending"} /\ artifact[u] = None /\ Publish(t, NewRow)
    <3>1. Cardinality(Refs(h)) = 0
      <4>1. CASE blob[h] = None BY <1>4, <4>1
      <4>2. CASE blob[h] # None
        <5>1. RowState(h) = "deleted" /\ blob[h].refs = Cardinality(Refs(h)) BY <2>2, <4>2, Rows
        <5> QED BY <5>1 DEF Inv, ClaimOrTombstone
      <4> QED BY <4>1, <4>2
    <3> QED BY <1>3, <2>2, <3>1, NewRowFields
  <2> QED BY <1>2, <1>7, <2>1, <2>2 DEF ClaimResurrect
<1> QED BY <1>5, <1>6, <1>7

LEMMA PassesRelabel ==
  ASSUME Inv, NEW t \in Threads,
         \/ GcMark(t) \/ ValidateSet(t) \/ \E h \in Hashes : GcTombstone(t, h)
  PROVE  Relabelled
<1> USE DEF upVars, rowVars
<1>0. blob \in [Hashes -> Row \cup {None}] BY DEF Inv, ClaimOrTombstone, TypeOK, StateTypeOK
<1>1. CASE GcMark(t)
  <2> DEFINE dead(h) == RowState(h) = "active" /\ blob[h].refs = 0
  <2>1. blob' = [h \in Hashes |-> IF dead(h) THEN [blob[h] EXCEPT !.state = "pending"] ELSE blob[h]]
    BY <1>1 DEF GcMark
  <2>2. ASSUME NEW h \in Hashes, dead(h)
        PROVE  /\ blob[h] # None /\ blob'[h] \in Row /\ blob'[h] # None
               /\ blob'[h].refs = blob[h].refs /\ blob[h].refs = 0
    <3>1. blob[h] # None BY <2>2, NoneFresh DEF RowState
    <3>2. blob[h] \in Row BY <1>0, <3>1
    <3>3. blob'[h] = [blob[h] EXCEPT !.state = "pending"] BY <2>1, <2>2
    <3>4. /\ [blob[h] EXCEPT !.state = "pending"] \in Row
          /\ [blob[h] EXCEPT !.state = "pending"].refs = blob[h].refs
      BY ONLY <3>2, RowFields
    <3> QED BY <2>2, <3>1, <3>3, <3>4, NoneFresh
  <2>3. ASSUME NEW h \in Hashes, ~dead(h) PROVE blob'[h] = blob[h] BY <2>1, <2>3
  <2>4. UNCHANGED <<upVars, artifact>> /\ DOMAIN blob' = Hashes
        /\ blob' = [h \in Hashes |-> blob'[h]]
    BY <1>1, <2>1 DEF GcMark
  <2> HIDE DEF dead
  <2>5. \A h \in Hashes : blob'[h] \in Row \cup {None} BY <1>0, <2>2, <2>3
  <2>6. blob' \in [Hashes -> Row \cup {None}] BY <2>4, <2>5
  <2> QED BY <2>2, <2>3, <2>4, <2>6 DEF Relabelled
<1>2. ASSUME NEW h \in Hashes, GcTombstone(t, h) PROVE Relabelled
  <2>1. CASE RowState(h) = "pending" /\ blob[h].refs = 0
    <3>1. blob[h] # None BY <2>1, NoneFresh DEF RowState
    <3>2. blob[h] \in Row BY <1>0, <3>1
    <3>3. blob' = [blob EXCEPT ![h] = [blob[h] EXCEPT !.state = "deleted"]]
      BY <1>2, <2>1 DEF GcTombstone, SetRow
    <3>4. /\ [blob[h] EXCEPT !.state = "deleted"] \in Row
          /\ [blob[h] EXCEPT !.state = "deleted"].refs = blob[h].refs
      BY <3>2, RowFields
    <3>5. /\ blob'[h] = [blob[h] EXCEPT !.state = "deleted"]
          /\ \A g \in Hashes \ {h} : blob'[g] = blob[g]
          /\ blob' \in [Hashes -> Row \cup {None}]
      BY <1>0, <3>3, <3>4
    <3> QED BY <1>2, <2>1, <3>1, <3>4, <3>5, NoneFresh DEF GcTombstone, Relabelled
  <2>2. CASE ~(RowState(h) = "pending" /\ blob[h].refs = 0)
    <3>1. blob' = blob BY <1>0, <1>2, <2>2 DEF GcTombstone, SetRow
    <3> QED BY <1>0, <1>2, <3>1 DEF GcTombstone, Relabelled
  <2> QED BY <2>1, <2>2
<1>3. CASE ValidateSet(t)
  <2>1. PICK h \in Hashes : h = job[t].h BY <1>3 DEF ValidateSet, Inv, ThreadInv, JobSet
  <2>2. CASE blob[h] = None
    <3>1. blob' = blob BY <1>0, <1>3, <2>1, <2>2 DEF ValidateSet, SetRow
    <3> QED BY <1>0, <1>3, <3>1 DEF ValidateSet, Relabelled
  <2>3. CASE blob[h] # None
    <3>1. blob[h] \in Row BY <1>0, <2>3
    <3>2. blob' = [blob EXCEPT ![h] = [blob[h] EXCEPT !.validated = 1]]
      BY <1>3, <2>1, <2>3 DEF ValidateSet, SetRow
    <3>3. /\ [blob[h] EXCEPT !.validated = 1] \in Row
          /\ [blob[h] EXCEPT !.validated = 1].refs = blob[h].refs
          /\ [blob[h] EXCEPT !.validated = 1].state = blob[h].state
      BY <3>1, RowFields
    <3>4. /\ blob'[h] = [blob[h] EXCEPT !.validated = 1]
          /\ \A g \in Hashes \ {h} : blob'[g] = blob[g]
          /\ blob' \in [Hashes -> Row \cup {None}]
      BY <1>0, <3>2, <3>3
    <3> QED BY <1>3, <2>3, <3>3, <3>4, NoneFresh DEF ValidateSet, Relabelled
  <2> QED BY <2>2, <2>3
<1> QED BY <1>1, <1>2, <1>3

LEMMA Changes ==
  ASSUME Inv, [Next]_vars
  PROVE  \/ UNCHANGED <<upVars, rowVars>>
         \/ \E u \in Uploads : CreateUpload(u) \/ DeleteArtifact(u)
         \/ \E t \in Threads : PutPlace(t) \/ PutInsert(t) \/ Published(t)
         \/ Relabelled
         \/ Restart
<1> USE DEF upVars, rowVars
<1>1. ASSUME NEW t \in Threads, Request(t)
      PROVE  UNCHANGED <<upVars, rowVars>> \/ Relabelled
  BY <1>1, PassesRelabel DEF Request, PutCheck, FinalizeRead, ValidateScan
<1>2. ASSUME NEW t \in Threads, Step(t)
      PROVE  \/ UNCHANGED <<upVars, rowVars>> \/ Relabelled
             \/ PutPlace(t) \/ PutInsert(t) \/ Published(t)
  BY <1>2, PassesRelabel, ClaimsPublish
     DEF Step, Assemble, ClaimRead, ClaimPlace, ClaimWinner, ClaimError, GcRename, GcDecide,
         GcSettle, GcEnd, ValidateEnd, ValidateRead
<1>3. CASE UNCHANGED vars BY <1>3 DEF vars
<1> QED BY <1>1, <1>2, <1>3 DEF Next

(* The tables after each kind of step, and the types of their fields.      *)
Tables ==
  /\ artifact \in [Uploads -> Hashes \cup {None}]
  /\ blob \in [Hashes -> Row \cup {None}]
  /\ \A u \in Uploads, h \in Hashes : artifact[u] = h => RowState(h) = "active"
  /\ \A h \in Hashes : RowState(h) \in {"pending", "deleted"} => blob[h].refs = 0
  /\ RefcountExact

LEMMA TablesHold == Inv => Tables
BY NoneFresh DEF Inv, ClaimOrTombstone, TypeOK, StateTypeOK, Tables

(* One row gets a new count, that of the artifacts which name its hash.    *)
LEMMA OneRow ==
  ASSUME Tables, NEW h \in Hashes, NEW row \in Row, blob' = [blob EXCEPT ![h] = row],
         row.state = "active", row.refs = Cardinality(Refs(h)'),
         artifact' \in [Uploads -> Hashes \cup {None}],
         \A u \in Uploads : artifact'[u] = artifact[u] \/ artifact'[u] \in {h, None},
         \A g \in Hashes \ {h} : Refs(g)' = Refs(g)
  PROVE  Tables'
<1>1. /\ blob'[h] = row /\ row # None
      /\ \A g \in Hashes \ {h} : blob'[g] = blob[g]
      /\ blob' \in [Hashes -> Row \cup {None}]
  BY NoneFresh DEF Tables
<1>2. RowState(h)' = "active" BY <1>1 DEF RowState
<1>3. \A g \in Hashes \ {h} : RowState(g)' = RowState(g) BY <1>1 DEF RowState
<1>4. \A u \in Uploads, g \in Hashes : artifact'[u] = g => RowState(g)' = "active"
  <2> SUFFICES ASSUME NEW u \in Uploads, NEW g \in Hashes, artifact'[u] = g
               PROVE  RowState(g)' = "active"
    OBVIOUS
  <2>1. CASE g = h BY <1>2, <2>1
  <2>2. CASE g # h
    <3>1. artifact[u] = g BY <2>2, NoneFresh
    <3> QED BY <1>3, <2>2, <3>1 DEF Tables
  <2> QED BY <2>1, <2>2
<1>5. \A g \in Hashes : RowState(g)' \in {"pending", "deleted"} => blob'[g].refs = 0
  BY <1>1, <1>2, <1>3 DEF Tables
<1>6. RefcountExact'
  <2> SUFFICES ASSUME NEW g \in Hashes
               PROVE  IF blob'[g] = None THEN Refs(g)' = {}
                      ELSE blob'[g].refs = Cardinality(Refs(g)')
    BY DEF RefcountExact
  <2>1. CASE g = h BY <1>1, <2>1
  <2>2. CASE g # h BY <1>1, <2>2 DEF Tables, RefcountExact
  <2> QED BY <2>1, <2>2
<1> QED BY <1>1, <1>4, <1>5, <1>6 DEF Tables

(* The tables stay coherent: a claim adds a reference to a row it has made *)
(* active, a delete takes one, and a pass touches rows without references. *)
LEMMA TablesStep ==
  ASSUME Inv, [Next]_vars
  PROVE  Tables'
<1> USE DEF upVars, rowVars
<1>0. Tables BY TablesHold
<1>1. ASSUME UNCHANGED <<artifact, blob>> PROVE Tables'
  BY <1>0, <1>1 DEF Tables, RefcountExact, Refs, RowState
<1>2. ASSUME NEW u \in Uploads, DeleteArtifact(u) PROVE Tables'
  <2>1. PICK h \in Hashes : h = artifact[u] BY <1>0, <1>2 DEF DeleteArtifact, Tables
  <2>2. artifact' = [artifact EXCEPT ![u] = None] BY <1>2 DEF DeleteArtifact
  <2>3. /\ artifact' \in [Uploads -> Hashes \cup {None}]
        /\ \A v \in Uploads : artifact'[v] = IF v = u THEN None ELSE artifact[v]
    BY <1>0, <2>2 DEF Tables
  <2>4. /\ u \in Refs(h) /\ Refs(h)' = Refs(h) \ {u}
        /\ \A g \in Hashes \ {h} : Refs(g)' = Refs(g)
    BY <2>1, <2>3, NoneFresh DEF Refs
  <2>5. Cardinality(Refs(h)') = Cardinality(Refs(h)) - 1
    BY <2>4, RefsCount, FS_RemoveElement
  <2>6. RowState(h) = "active" BY <1>0, <2>1, NoneFresh DEF Tables
  <2>7. blob[h] # None BY <2>6, NoneFresh DEF RowState
  <2>8. /\ blob[h] \in Row /\ blob[h].refs - 1 \in Int /\ blob[h].refs = Cardinality(Refs(h))
        /\ blob[h].state = "active"
    BY <2>6, <2>7, Rows
  <2> DEFINE row == [blob[h] EXCEPT !.refs = blob[h].refs - 1]
  <2>9. row \in Row /\ row.refs = blob[h].refs - 1 /\ row.state = "active"
    <3>1. blob[h] \in Row /\ blob[h].refs - 1 \in Int BY <2>8
    <3>2. PICK r \in Row, n \in Int : r = blob[h] /\ n = blob[h].refs - 1 BY <3>1
    <3>3. [r EXCEPT !.refs = n] \in Row /\ [r EXCEPT !.refs = n].refs = n
          /\ [r EXCEPT !.refs = n].state = r.state
      BY ONLY r \in Row, n \in Int DEF Row
    <3>4. row = [r EXCEPT !.refs = n] BY <3>2
    <3> QED BY <2>8, <3>2, <3>3, <3>4
  <2>10. blob' = [blob EXCEPT ![h] = row] BY <1>2, <2>1, <2>7 DEF DeleteArtifact, SetRow
  <2> HIDE DEF row
  <2>11. row.refs = Cardinality(Refs(h)') BY <2>5, <2>8, <2>9
  <2> QED BY <1>0, <2>3, <2>4, <2>9, <2>10, <2>11, OneRow
<1>3. ASSUME NEW t \in Threads, Published(t) PROVE Tables'
  <2>1. PICK u \in Uploads, h \in Hashes : u = job[t].u /\ h = job[t].h BY <1>3 DEF Published
  <2>2. PICK row \in Row : /\ row.state = "active" /\ row.refs = Cardinality(Refs(h)) + 1
                           /\ Publish(t, row)
    BY <1>3, <2>1 DEF Published
  <2>3. artifact[u] = None BY <1>3, <2>1 DEF Published
  <2>4. artifact' = [artifact EXCEPT ![u] = h] /\ blob' = [blob EXCEPT ![h] = row]
    BY <2>1, <2>2 DEF Publish, SetRow
  <2>5. /\ artifact' \in [Uploads -> Hashes \cup {None}]
        /\ \A v \in Uploads : artifact'[v] = IF v = u THEN h ELSE artifact[v]
    BY <1>0, <2>4 DEF Tables
  <2>6. /\ u \notin Refs(h) /\ Refs(h)' = Refs(h) \cup {u}
        /\ \A g \in Hashes \ {h} : Refs(g)' = Refs(g)
    BY <2>3, <2>5, NoneFresh DEF Refs
  <2>7. Cardinality(Refs(h)') = Cardinality(Refs(h)) + 1
    BY <2>6, RefsCount, FS_AddElement
  <2> QED BY <1>0, <2>2, <2>4, <2>5, <2>6, <2>7, OneRow
<1>4. CASE Relabelled
  <2>1. \A h \in Hashes : Refs(h)' = Refs(h) BY <1>4 DEF Relabelled, Refs
  <2>2. RefcountExact' BY <1>0, <1>4, <2>1 DEF Relabelled, Tables, RefcountExact
  <2>3. ASSUME NEW u \in Uploads, NEW h \in Hashes, artifact'[u] = h
        PROVE  RowState(h)' = "active"
    <3>1. artifact[u] = h BY <1>4, <2>3 DEF Relabelled
    <3>2. RowState(h) = "active" BY <1>0, <3>1 DEF Tables
    <3>3. blob[h] # None BY <3>2, NoneFresh DEF RowState
    <3>4. blob[h].refs = Cardinality(Refs(h)) /\ u \in Refs(h) BY <3>1, <3>3, Rows DEF Refs
    <3>5. blob[h].refs # 0 BY <3>4, RefsCount
    <3>6. blob'[h] # None /\ blob'[h].state = blob[h].state BY <1>4, <3>3, <3>5 DEF Relabelled
    <3> QED BY <3>2, <3>3, <3>6 DEF RowState
  <2>4. ASSUME NEW h \in Hashes, RowState(h)' \in {"pending", "deleted"} PROVE blob'[h].refs = 0
    <3>1. blob'[h] # None BY <2>4, NoneFresh DEF RowState
    <3>2. CASE blob'[h] = blob[h] BY <1>0, <2>4, <3>2 DEF Tables, RowState
    <3>3. CASE blob'[h] # blob[h]
      <4>1. blob[h] # None /\ blob'[h].refs = blob[h].refs
            /\ (blob'[h].state = blob[h].state \/ blob[h].refs = 0)
        BY <1>4, <3>3 DEF Relabelled
      <4>2. RowState(h)' = blob'[h].state BY <3>1 DEF RowState
      <4>3. RowState(h) = blob[h].state BY <4>1 DEF RowState
      <4> QED BY <1>0, <2>4, <4>1, <4>2, <4>3 DEF Tables
    <3> QED BY <3>2, <3>3
  <2> QED BY <1>0, <1>4, <2>2, <2>3, <2>4 DEF Relabelled, Tables
<1>5. CASE Restart
  <2>1. /\ artifact' = artifact
        /\ blob' = [h \in Hashes |-> IF RowState(h) = "deleted" THEN None ELSE blob[h]]
    BY <1>5 DEF Restart
  <2>2. blob' \in [Hashes -> Row \cup {None}] BY <1>0, <2>1 DEF Tables
  <2>3. \A h \in Hashes : /\ Refs(h)' = Refs(h)
                          /\ blob'[h] = IF RowState(h) = "deleted" THEN None ELSE blob[h]
    BY <2>1 DEF Refs
  <2>4. ASSUME NEW h \in Hashes, RowState(h) = "deleted" PROVE Refs(h) = {}
    <3>1. blob[h] # None BY <2>4, NoneFresh DEF RowState
    <3>2. blob[h].refs = Cardinality(Refs(h)) /\ blob[h].refs = 0
      BY <1>0, <2>4, <3>1 DEF Tables, RefcountExact
    <3> QED BY <3>2, RefsCount
  <2>5. RefcountExact' BY <1>0, <2>3, <2>4 DEF Tables, RefcountExact
  <2>6. \A h \in Hashes : RowState(h)' = IF RowState(h) = "deleted" THEN None ELSE RowState(h)
    BY <2>3 DEF RowState
  <2>7. \A h \in Hashes : RowState(h)' \in {"pending", "deleted"} => blob'[h].refs = 0
    BY <1>0, <2>3, <2>6, NoneFresh DEF Tables
  <2>8. \A u \in Uploads, h \in Hashes : artifact'[u] = h => RowState(h)' = "active"
    BY <1>0, <2>1, <2>6 DEF Tables
  <2> QED BY <1>0, <2>1, <2>2, <2>5, <2>7, <2>8 DEF Tables
<1>6. ASSUME NEW t \in Threads, PutPlace(t) \/ PutInsert(t) PROVE Tables'
  BY <1>1, <1>6 DEF PutPlace, PutInsert
<1>7. ASSUME NEW u \in Uploads, CreateUpload(u) PROVE Tables' BY <1>1, <1>7 DEF CreateUpload
<1> QED BY <1>1, <1>2, <1>3, <1>4, <1>5, <1>6, <1>7, Changes

-----------------------------------------------------------------------------
(* Chunks, artifacts and types.                                            *)

(* What a step does to the chunks.                                         *)
LEMMA ChunkChanges ==
  ASSUME [Next]_vars
  PROVE  \/ UNCHANGED <<chunkRow, chunkFile>>
         \/ \E t \in Threads : PutPlace(t) \/ PutInsert(t)
         \/ Restart
<1> USE DEF upVars, rowVars
<1>1. ASSUME NEW t \in Threads, Request(t) PROVE UNCHANGED <<chunkRow, chunkFile>>
  BY <1>1 DEF Request, PutCheck, FinalizeRead, GcMark, ValidateScan
<1>2. ASSUME NEW t \in Threads, Step(t)
      PROVE  UNCHANGED <<chunkRow, chunkFile>> \/ PutPlace(t) \/ PutInsert(t)
  BY <1>2 DEF Step, Assemble, ClaimRead, ClaimPlace, ClaimInsert, ClaimRecover, ClaimResurrect,
       Publish, RolledBack, ClaimWinner, ClaimError, GcTombstone, GcRename, GcDecide, GcSettle,
       GcEnd, ValidateRead, ValidateSet, ValidateEnd
<1>3. CASE UNCHANGED vars BY <1>3 DEF vars
<1> QED BY <1>1, <1>2, <1>3 DEF Next, CreateUpload, DeleteArtifact

(* PutPlace writes a file that has no row, PutInsert records the file that *)
(* is there; start-up finds nothing of a recorded chunk to remove.         *)
LEMMA PutFacts ==
  ASSUME Inv, NEW t \in Threads, PutPlace(t) \/ PutInsert(t)
  PROVE  /\ job[t].u \in Uploads /\ job[t].i \in Chunks /\ job[t].d \in Data
         /\ PutPlace(t) =>
              /\ chunkRow' = chunkRow
              /\ \/ chunkFile' = chunkFile /\ pc'[t] = "idle"
                 \/ /\ chunkRow[job[t].u][job[t].i] = None
                    /\ ~ChunkLocked(job[t].u, job[t].i)
                    /\ chunkFile' = [chunkFile EXCEPT ![job[t].u][job[t].i] = job[t].d]
                    /\ pc'[t] = "putInsert" /\ job' = job
         /\ PutInsert(t) =>
              /\ chunkFile' = chunkFile /\ pc[t] = "putInsert" /\ pc'[t] = "idle"
              /\ chunkRow[job[t].u][job[t].i] = None
              /\ chunkFile[job[t].u][job[t].i] = job[t].d
              /\ \/ chunkRow' = chunkRow
                 \/ chunkRow' = [chunkRow EXCEPT ![job[t].u][job[t].i] = job[t].d]
<1>1. pc[t] \in {"putLock", "putInsert"} BY DEF PutPlace, PutInsert
<1>2. job[t].u \in Uploads /\ job[t].i \in Chunks /\ job[t].d \in Data
  BY <1>1 DEF Inv, ThreadInv, JobSet
<1>3. pc \in [Threads -> Labels] BY DEF Inv, ClaimOrTombstone, TypeOK, StateTypeOK
<1>4. CASE PutPlace(t)
  <2>1. CASE chunkRow[job[t].u][job[t].i] # None
    BY <1>2, <1>3, <1>4, <2>1 DEF PutPlace, PutInsert, Finish, Begin
  <2>2. CASE chunkRow[job[t].u][job[t].i] = None
    BY <1>2, <1>3, <1>4, <2>2 DEF PutPlace, PutInsert, Goto
  <2> QED BY <2>1, <2>2
<1>5. CASE PutInsert(t)
  <2>1. pc[t] = "putInsert" /\ chunkFile' = chunkFile /\ pc'[t] = "idle"
    BY <1>3, <1>5 DEF PutInsert, Finish, Begin
  <2>2. chunkRow[job[t].u][job[t].i] = None /\ chunkFile[job[t].u][job[t].i] = job[t].d
    BY <2>1 DEF Inv, ThreadInv, OwnsChunk
  <2>3. \/ chunkRow' = chunkRow
        \/ chunkRow' = [chunkRow EXCEPT ![job[t].u][job[t].i] = job[t].d]
    BY <1>5 DEF PutInsert
  <2>4. ~PutPlace(t) BY <2>1 DEF PutPlace
  <2> QED BY <1>2, <2>1, <2>2, <2>3, <2>4
<1> QED BY <1>4, <1>5

LEMMA RestartFacts ==
  ASSUME Inv, Restart
  PROVE  /\ chunkRow' = chunkRow
         /\ chunkFile' \in [Uploads -> [Chunks -> Data \cup {None}]]
         /\ \A u \in Uploads, i \in Chunks :
              chunkRow[u][i] # None => chunkFile'[u][i] = chunkFile[u][i]
<1>1. /\ chunkRow \in [Uploads -> [Chunks -> Data \cup {None}]]
      /\ chunkFile \in [Uploads -> [Chunks -> Data \cup {None}]]
  BY DEF Inv, ClaimOrTombstone, TypeOK, StateTypeOK
<1>2. \A u \in Uploads, i \in Chunks : chunkFile[u][i] = None => chunkRow[u][i] = None
  BY DEF Inv, ChunkBytesKept
<1>3. chunkRow' = [u \in Uploads |-> [i \in Chunks |->
                    IF chunkFile[u][i] = None THEN None ELSE chunkRow[u][i]]]
  BY DEF Restart
<1>4. chunkRow' = [u \in Uploads |-> [i \in Chunks |-> chunkRow[u][i]]] BY <1>2, <1>3
<1>5. chunkRow' = chunkRow BY <1>1, <1>4
<1>6. chunkFile' = [u \in Uploads |-> [i \in Chunks |->
                     IF chunkRow[u][i] = None THEN None ELSE chunkFile[u][i]]]
  BY DEF Restart
<1> QED BY <1>1, <1>5, <1>6

(* Recorded chunks keep their rows and their files.                        *)
LEMMA ChunksStep ==
  ASSUME Inv, [Next]_vars
  PROVE  /\ ChunkBytesKept'
         /\ \A u \in Uploads, i \in Chunks :
              chunkRow[u][i] # None => chunkRow'[u][i] = chunkRow[u][i]
         /\ chunkRow' \in [Uploads -> [Chunks -> Data \cup {None}]]
         /\ chunkFile' \in [Uploads -> [Chunks -> Data \cup {None}]]
<1>0. /\ chunkRow \in [Uploads -> [Chunks -> Data \cup {None}]]
      /\ chunkFile \in [Uploads -> [Chunks -> Data \cup {None}]]
      /\ ChunkBytesKept
  BY DEF Inv, ClaimOrTombstone, TypeOK, StateTypeOK
<1>1. CASE UNCHANGED <<chunkRow, chunkFile>> BY <1>0, <1>1 DEF ChunkBytesKept
<1>2. CASE Restart BY <1>0, <1>2, RestartFacts DEF ChunkBytesKept
<1>3. ASSUME NEW t \in Threads, PutPlace(t) \/ PutInsert(t)
      PROVE  /\ ChunkBytesKept'
             /\ \A u \in Uploads, i \in Chunks :
                  chunkRow[u][i] # None => chunkRow'[u][i] = chunkRow[u][i]
             /\ chunkRow' \in [Uploads -> [Chunks -> Data \cup {None}]]
             /\ chunkFile' \in [Uploads -> [Chunks -> Data \cup {None}]]
  <2>1. PICK u \in Uploads, i \in Chunks, d \in Data :
          u = job[t].u /\ i = job[t].i /\ d = job[t].d
    BY <1>3, PutFacts
  <2>2. CASE UNCHANGED <<chunkRow, chunkFile>> BY <1>0, <2>2 DEF ChunkBytesKept
  <2>3. CASE /\ chunkRow' = chunkRow /\ chunkRow[u][i] = None
             /\ chunkFile' = [chunkFile EXCEPT ![u][i] = d]
    <3>1. \A v \in Uploads, j \in Chunks :
            chunkFile'[v][j] = IF v = u /\ j = i THEN d ELSE chunkFile[v][j]
      BY <1>0, <2>3
    <3> QED BY <1>0, <2>3, <3>1 DEF ChunkBytesKept
  <2>4. CASE /\ chunkFile' = chunkFile /\ chunkRow[u][i] = None /\ chunkFile[u][i] = d
             /\ chunkRow' = [chunkRow EXCEPT ![u][i] = d]
    <3>1. \A v \in Uploads, j \in Chunks :
            chunkRow'[v][j] = IF v = u /\ j = i THEN d ELSE chunkRow[v][j]
      BY <1>0, <2>4
    <3> QED BY <1>0, <2>4, <3>1 DEF ChunkBytesKept
  <2> QED BY <1>3, <2>1, <2>2, <2>3, <2>4, PutFacts
<1> QED BY <1>1, <1>2, <1>3, ChunkChanges

(* All of an upload's chunks, once recorded, stay as they are.             *)
LEMMA ReceivedStays ==
  ASSUME Inv, [Next]_vars, NEW u \in Uploads, Received(u)
  PROVE  Received(u)' /\ chunkRow'[u] = chunkRow[u]
<1>1. /\ chunkRow[u] \in [Chunks -> Data \cup {None}]
      /\ chunkRow'[u] \in [Chunks -> Data \cup {None}]
  BY ChunksStep DEF Inv, ClaimOrTombstone, TypeOK, StateTypeOK
<1>2. \A i \in Chunks : chunkRow'[u][i] = chunkRow[u][i] BY ChunksStep DEF Received
<1> QED BY <1>1, <1>2 DEF Received

(* A claim publishes the digest of the recorded chunks.                    *)
LEMMA ArtifactsStep ==
  ASSUME Inv, [Next]_vars
  PROVE  ArtifactIsItsChunks'
<1>1. ASSUME \A u \in Uploads : artifact'[u] \in {artifact[u], None} PROVE ArtifactIsItsChunks'
  BY <1>1, ReceivedStays DEF Inv, ArtifactIsItsChunks
<1>2. ASSUME NEW t \in Threads, Published(t) PROVE ArtifactIsItsChunks'
  <2>1. PICK u \in Uploads, h \in Hashes : u = job[t].u /\ h = job[t].h BY <1>2 DEF Published
  <2>2. Received(u) /\ Digest[chunkRow[u]] = h
    BY <1>2, <2>1 DEF Published, Inv, ThreadInv, ClaimsItsChunks
  <2>3. artifact' = [artifact EXCEPT ![u] = h] BY <1>2, <2>1 DEF Published, Publish
  <2>4. \A v \in Uploads : artifact'[v] = IF v = u THEN h ELSE artifact[v]
    BY <2>3 DEF Inv, ClaimOrTombstone, TypeOK, StateTypeOK
  <2> QED BY <2>2, <2>4, ReceivedStays DEF Inv, ArtifactIsItsChunks
<1>3. ASSUME NEW u \in Uploads, DeleteArtifact(u) PROVE ArtifactIsItsChunks'
  BY <1>1, <1>3 DEF DeleteArtifact, Inv, ClaimOrTombstone, TypeOK, StateTypeOK
<1>4. CASE UNCHANGED artifact BY <1>1, <1>4
<1> QED BY <1>2, <1>3, <1>4, Changes
         DEF CreateUpload, PutPlace, PutInsert, Relabelled, Restart, rowVars

(* What each thread relies on stays, wherever it is.                       *)
LEMMA ThreadStep ==
  ASSUME Inv, [Next]_vars
  PROVE  /\ \A s \in Threads : ThreadInv(s)'
         /\ pc' \in [Threads -> Labels] /\ job' \in [Threads -> Jobs({1})]
<1> USE DEF upVars, rowVars
<1>0. pc \in [Threads -> Labels] /\ job \in [Threads -> Jobs({1})]
      /\ \A s \in Threads : ThreadInv(s)
  BY DEF Inv, ClaimOrTombstone, TypeOK, StateTypeOK
<1>1. ASSUME UNCHANGED <<pc, job, chunkRow, chunkFile>>
      PROVE  \A s \in Threads : ThreadInv(s)'
  BY <1>0, <1>1 DEF ThreadInv, JobSet, OwnsChunk, ClaimsItsChunks, Received
<1>2. ASSUME NEW t \in Threads, Moves(t),
             \/ UNCHANGED <<chunkRow, chunkFile>> /\ pc'[t] # "putInsert"
             \/ PutPlace(t) \/ PutInsert(t)
      PROVE  \A s \in Threads : ThreadInv(s)'
  <2> SUFFICES ASSUME NEW s \in Threads PROVE ThreadInv(s)'
    OBVIOUS
  <2>0. \A r \in Threads \ {t} : pc'[r] = pc[r] /\ job'[r] = job[r] BY <1>2 DEF Moves
  <2>1. JobSet(s)'
    <3>1. CASE s = t BY <1>2, <3>1 DEF Moves, Arrives
    <3>2. CASE s # t BY <1>0, <2>0, <3>2 DEF ThreadInv, JobSet
    <3> QED BY <3>1, <3>2
  <2>2. ClaimsItsChunks(s)'
    <3>1. CASE pc'[s] \notin Claiming BY <3>1 DEF ClaimsItsChunks
    <3>2. CASE pc'[s] \in Claiming
      <4>1. PICK u \in Uploads : u = job'[s].u BY <2>1, <3>2 DEF JobSet
      <4>2. Received(u) /\ Digest[chunkRow[u]] = job'[s].h
        <5>1. CASE s = t BY <1>2, <3>2, <4>1, <5>1 DEF Moves, Arrives
        <5>2. CASE s # t BY <1>0, <2>0, <3>2, <4>1, <5>2 DEF ThreadInv, ClaimsItsChunks
        <5> QED BY <5>1, <5>2
      <4>3. Received(u)' /\ chunkRow'[u] = chunkRow[u] BY <4>2, ReceivedStays
      <4> QED BY <4>1, <4>2, <4>3 DEF ClaimsItsChunks, Received
    <3> QED BY <3>1, <3>2
  <2>3. OwnsChunk(s)'
    <3>1. OwnsChunk(s) BY <1>0 DEF ThreadInv
    <3>2. CASE UNCHANGED <<chunkRow, chunkFile>> /\ pc'[t] # "putInsert"
      BY <2>0, <3>1, <3>2 DEF OwnsChunk
    <3>3. CASE PutPlace(t)
      <4>1. CASE chunkFile' = chunkFile /\ pc'[t] = "idle" /\ chunkRow' = chunkRow
        BY <2>0, <3>1, <4>1 DEF OwnsChunk
      <4>2. CASE /\ chunkRow' = chunkRow /\ chunkRow[job[t].u][job[t].i] = None
                 /\ ~ChunkLocked(job[t].u, job[t].i)
                 /\ chunkFile' = [chunkFile EXCEPT ![job[t].u][job[t].i] = job[t].d]
                 /\ pc'[t] = "putInsert" /\ job' = job
        <5>1. PICK u \in Uploads, i \in Chunks, d \in Data :
                u = job[t].u /\ i = job[t].i /\ d = job[t].d
          BY <3>3, PutFacts
        <5>2. \A r \in Threads : ~(pc[r] = "putInsert" /\ job[r].u = u /\ job[r].i = i)
          BY <4>2, <5>1 DEF ChunkLocked
        <5>3. \A v \in Uploads, j \in Chunks :
                chunkFile'[v][j] = IF v = u /\ j = i THEN d ELSE chunkFile[v][j]
          BY <4>2, <5>1 DEF Inv, ClaimOrTombstone, TypeOK, StateTypeOK
        <5>4. CASE s = t BY <2>0, <4>2, <5>1, <5>2, <5>3, <5>4 DEF OwnsChunk
        <5>5. CASE s # t
          <6>1. pc'[s] = "putInsert" => job[s].u \in Uploads /\ job[s].i \in Chunks
            BY <1>0, <2>0, <5>5 DEF ThreadInv, JobSet
          <6> QED BY <2>0, <3>1, <4>2, <5>1, <5>2, <5>3, <5>5, <6>1 DEF OwnsChunk
        <5> QED BY <5>4, <5>5
      <4> QED BY <3>3, <4>1, <4>2, PutFacts
    <3>4. CASE PutInsert(t)
      <4>1. PICK u \in Uploads, i \in Chunks : u = job[t].u /\ i = job[t].i BY <3>4, PutFacts
      <4>2. /\ chunkFile' = chunkFile /\ pc[t] = "putInsert" /\ pc'[t] = "idle"
            /\ chunkRow' = chunkRow \/ chunkRow' = [chunkRow EXCEPT ![u][i] = job[t].d]
        BY <3>4, <4>1, PutFacts
      <4>5. \A v \in Uploads, j \in Chunks : v # u \/ j # i => chunkRow'[v][j] = chunkRow[v][j]
        BY <4>2 DEF Inv, ClaimOrTombstone, TypeOK, StateTypeOK
      <4>3. CASE s = t BY <4>2, <4>3 DEF OwnsChunk
      <4>4. CASE s # t
        <5>1. pc'[s] = "putInsert" =>
                 /\ job[s].u \in Uploads /\ job[s].i \in Chunks
                 /\ job[s].u # u \/ job[s].i # i
          BY <1>0, <2>0, <3>1, <4>1, <4>2, <4>4 DEF ThreadInv, JobSet, OwnsChunk
        <5> QED BY <2>0, <3>1, <4>2, <4>4, <4>5, <5>1 DEF OwnsChunk
      <4> QED BY <4>3, <4>4
    <3> QED BY <1>2, <3>2, <3>3, <3>4
  <2> QED BY <2>1, <2>2, <2>3 DEF ThreadInv
<1>3. ASSUME NEW t \in Threads, Request(t) \/ Step(t)
      PROVE  /\ \A s \in Threads : ThreadInv(s)'
             /\ pc' \in [Threads -> Labels] /\ job' \in [Threads -> Jobs({1})]
  <2>1. Moves(t) /\ (pc'[t] = "putInsert" => PutPlace(t))
    BY <1>3, RequestMoves, StepMoves
  <2>2. UNCHANGED <<chunkRow, chunkFile>> \/ PutPlace(t) \/ PutInsert(t)
    BY <1>3 DEF Request, PutCheck, FinalizeRead, GcMark, ValidateScan, Step, Assemble, ClaimRead,
         ClaimPlace, ClaimInsert, ClaimRecover, ClaimResurrect, Publish, RolledBack, ClaimWinner,
         ClaimError, GcTombstone, GcRename, GcDecide, GcSettle, GcEnd, ValidateRead, ValidateSet,
         ValidateEnd
  <2> QED BY <1>2, <2>1, <2>2 DEF Moves
<1>4. CASE Restart
  <2>1. /\ \A s \in Threads : pc'[s] = "idle"
        /\ pc' \in [Threads -> Labels] /\ job' \in [Threads -> Jobs({1})]
    BY <1>4, NoJobIsJob DEF Restart, Killed, Labels
  <2> QED BY <2>1 DEF ThreadInv, JobSet, OwnsChunk, ClaimsItsChunks, Claiming
<1>5. CASE \E u \in Uploads : CreateUpload(u) \/ DeleteArtifact(u)
  BY <1>0, <1>1, <1>5 DEF CreateUpload, DeleteArtifact
<1>6. CASE UNCHANGED vars BY <1>0, <1>1, <1>6 DEF vars
<1> QED BY <1>3, <1>4, <1>5, <1>6 DEF Next

(* The remaining types.                                                    *)
LEMMA TypeStep ==
  ASSUME Inv, [Next]_vars
  PROVE  TypeOK'
<1> USE DEF upVars, rowVars
<1>0. TypeOK BY DEF Inv, ClaimOrTombstone
<1>1. ustate' \in [Uploads -> States \cup {None}]
  <2>1. ASSUME NEW t \in Threads, Published(t) PROVE ustate' \in [Uploads -> States \cup {None}]
    BY <1>0, <2>1 DEF Published, Publish, TypeOK, StateTypeOK, States
  <2>2. ASSUME NEW u \in Uploads, CreateUpload(u) PROVE ustate' \in [Uploads -> States \cup {None}]
    BY <1>0, <2>2 DEF CreateUpload, TypeOK, StateTypeOK, States
  <2>3. CASE UNCHANGED ustate BY <1>0, <2>3 DEF TypeOK, StateTypeOK
  <2> QED BY <2>1, <2>2, <2>3, Changes DEF DeleteArtifact, PutPlace, PutInsert, Relabelled, Restart
<1>2. files' \subseteq Hashes /\ quarantine' \subseteq Hashes /\ crashes' \in 0..MaxCrashes
  <2>0. /\ files \subseteq Hashes /\ quarantine \subseteq Hashes /\ crashes \in 0..MaxCrashes
        /\ \A t \in Threads : JobSet(t)
    BY <1>0 DEF TypeOK, StateTypeOK, Inv, ThreadInv
  <2>1. ASSUME NEW t \in Threads, Request(t) PROVE UNCHANGED <<files, quarantine, crashes>>
    BY <2>1 DEF Request, PutCheck, FinalizeRead, GcMark, ValidateScan
  <2>2. ASSUME NEW t \in Threads, Step(t)
        PROVE  /\ crashes' = crashes
               /\ \/ UNCHANGED <<files, quarantine>>
                  \/ ClaimPlace(t) \/ GcRename(t) \/ GcSettle(t)
    BY <2>2 DEF Step, PutPlace, PutInsert, Assemble, ClaimRead, ClaimPlace, ClaimInsert,
         ClaimRecover, ClaimResurrect, Publish, RolledBack, ClaimWinner, ClaimError, GcTombstone,
         GcRename, GcDecide, GcSettle, GcEnd, ValidateRead, ValidateSet, ValidateEnd
  <2>3. ASSUME NEW t \in Threads, ClaimPlace(t) \/ GcRename(t) \/ GcSettle(t)
        PROVE  files' \subseteq Hashes /\ quarantine' \subseteq Hashes
    <3>1. job[t].h \in Hashes
      BY <2>0, <2>3 DEF ClaimPlace, GcRename, GcSettle, JobSet, Claiming
    <3> QED BY <2>0, <2>3, <3>1 DEF ClaimPlace, GcRename, GcSettle, Released
  <2>4. CASE Restart BY <2>0, <2>4, CrashesAssumption DEF Restart, Killed
  <2>5. CASE \E u \in Uploads : CreateUpload(u) \/ DeleteArtifact(u)
    BY <2>0, <2>5 DEF CreateUpload, DeleteArtifact
  <2>6. CASE UNCHANGED vars BY <2>0, <2>6 DEF vars
  <2> QED BY <2>0, <2>1, <2>2, <2>3, <2>4, <2>5, <2>6 DEF Next
<1>3. pc' \in [Threads -> Labels] /\ job' \in [Threads -> Jobs({1})] BY ThreadStep
<1>4. /\ artifact' \in [Uploads -> Hashes \cup {None}]
      /\ blob' \in [Hashes -> Row \cup {None}]
  BY TablesStep DEF Tables
<1> QED BY <1>1, <1>2, <1>3, <1>4, ChunksStep DEF TypeOK, StateTypeOK

-----------------------------------------------------------------------------
LEMMA InvInit == Init => Inv
<1> SUFFICES ASSUME Init PROVE Inv
  OBVIOUS
<1> USE DEF Init, InitState
<1>1. TypeOK
  <2>1. pc \in [Threads -> Labels] /\ job \in [Threads -> Jobs({1})]
    BY NoJobIsJob DEF Labels
  <2>2. crashes \in 0..MaxCrashes BY CrashesAssumption
  <2> QED BY <2>1, <2>2 DEF TypeOK, StateTypeOK
<1>2. \A t \in Threads : ThreadInv(t)
  BY DEF ThreadInv, JobSet, OwnsChunk, ClaimsItsChunks, Claiming
<1>3. \A h \in Hashes : Refs(h) = {} /\ RowState(h) = None BY NoneFresh DEF Refs, RowState
<1> QED BY <1>1, <1>2, <1>3, NoneFresh
    DEF Inv, ClaimOrTombstone, ChunkBytesKept, ArtifactIsItsChunks, RefcountExact

(* Inv is inductive.                                                       *)
LEMMA InvStep ==
  ASSUME Inv, [Next]_vars
  PROVE  Inv'
<1>1. TypeOK' /\ Tables' BY TypeStep, TablesStep
<1>2. ClaimOrTombstone'
  BY <1>1 DEF ClaimOrTombstone, Tables, TypeOK, StateTypeOK
<1>3. RefcountExact' BY <1>1 DEF Tables
<1> QED BY <1>2, <1>3, ThreadStep, ChunksStep, ArtifactsStep DEF Inv

(* Threads and tables agree in every reachable state.                      *)
LEMMA Invariance == Spec => []Inv
BY InvInit, InvStep, PTL DEF Spec

(* Claims and gc passes win or lose a blob's row as a whole: the row of a  *)
(* live artifact is active, and a row that gc has marked or condemned has  *)
(* no reference, whichever finalizes, deletes, passes and kills overlap.   *)
THEOREM ClaimsOrTombstones == Spec => []ClaimOrTombstone
<1>1. Inv => ClaimOrTombstone BY DEF Inv
<1> QED BY Invariance, <1>1, PTL

(* A refcount is the number of artifact rows of its hash, although no lock *)
(* stands between the statements that change it.                           *)
THEOREM RefcountsExact == Spec => []RefcountExact
<1>1. Inv => RefcountExact BY DEF Inv
<1> QED BY Invariance, <1>1, PTL

(* An artifact is the digest of the bytes first recorded for its chunks.   *)
THEOREM ArtifactsExact == Spec => []ArtifactIsItsChunks
<1>1. Inv => ArtifactIsItsChunks BY DEF Inv
<1> QED BY Invariance, <1>1, PTL

(* The file of a recorded chunk holds its bytes, finalized or not: a       *)
(* finalize that follows a delete assembles what the first one assembled.  *)
THEOREM ChunksKept == Spec => []ChunkBytesKept
<1>1. Inv => ChunkBytesKept BY DEF Inv
<1> QED BY Invariance, <1>1, PTL

(* The bytes first recorded for a chunk are final, as the contract says.   *)
(* What it says of the artifact does not hold here: an upload whose        *)
(* artifact was deleted is published again.                                *)
THEOREM FirstBytes == Spec => Contract!FirstBytesFinal
<1>1. Inv /\ [Next]_vars =>
        [\A u \in Uploads, i \in Chunks :
           chunkRow[u][i] # None => chunkRow'[u][i] = chunkRow[u][i]]_(Contract!vars)
  BY ChunksStep
<1> QED BY <1>1, Invariance, PTL DEF Spec, Contract!FirstBytesFinal
=============================================================================

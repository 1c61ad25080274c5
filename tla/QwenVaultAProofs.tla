-------------------------- MODULE QwenVaultAProofs --------------------------
(***************************************************************************)
(* Proofs about QwenVaultA for every set of uploads, chunks, contents and  *)
(* threads, every collision-free digest and any number of kills: the       *)
(* registry of dropped locks and the gc_lock keep chunks, rows and files   *)
(* together, and the store implements VaultContract.                       *)
(***************************************************************************)
EXTENDS QwenVaultA, FiniteSetTheorems, TLAPS

(* `None' is no row, state, hash, upload, chunk or content.                *)
LEMMA NoneFresh ==
  /\ None \notin Row /\ None \notin States /\ None \notin Hashes
  /\ None \notin Uploads /\ None \notin Chunks /\ None \notin Data
BY RowAssumption, NoneAssumption

(* Only finitely many artifact rows refer to a hash.                       *)
LEMMA RefsCount ==
  ASSUME NEW h \in Hashes
  PROVE  /\ IsFiniteSet(Refs(h))
         /\ Cardinality(Refs(h)) \in Nat
         /\ Cardinality(Refs(h)) = 0 <=> Refs(h) = {}
<1>1. Refs(h) \subseteq Uploads BY DEF Refs
<1>2. IsFiniteSet(Refs(h)) BY <1>1, UploadsAssumption, FS_Subset
<1> QED BY <1>2, FS_CardinalityType, FS_EmptySet

LEMMA Typed == Inv => TypeOK
BY DEF Inv

(* What the invariant says of a row.                                       *)
LEMMA Rows ==
  ASSUME Inv, NEW h \in Hashes, blob[h] # None
  PROVE  /\ blob[h] \in Row /\ blob[h].refs \in Int /\ blob[h].refs = Cardinality(Refs(h))
         /\ blob[h].validated # 3 /\ h \in files
BY DEF Inv, TypeOK, StateTypeOK, Row, RefcountExact, RowHasFile

LEMMA NoJobIsJob == NoJob \in Jobs({0, 1, 3})
BY DEF Jobs, NoJob

-----------------------------------------------------------------------------
(* The threads.  A step moves one thread, or kills them all.               *)

(* What local variables j a thread at label l needs.                       *)
Fits(l, j) ==
  /\ l \in {"putLock", "putInsert"} =>
       j.u \in Uploads /\ j.i \in Chunks /\ j.d \in Data /\ ustate[j.u] # None
  /\ l \in Hashed \cup {"assemble", "dropLock"} => j.u \in Uploads
  /\ l \in Hashed \cup {"valSet"} => j.h \in Hashes
  /\ l \in Hashed => Received(j.u) /\ Digest[chunkRow[j.u]] = j.h
  /\ l = "putLock" /\ j.flag # 0 => Received(j.u)

(* A step of one thread: nobody else moves.                                *)
Moves(t) ==
  /\ \A r \in Threads \ {t} : pc'[r] = pc[r] /\ job'[r] = job[r]
  /\ pc' \in [Threads -> Labels] /\ job' \in [Threads -> Jobs({0, 1, 3})]

(* Where it arrives it has what it needs.                                  *)
Arrives(t, l, j) == Moves(t) /\ pc'[t] = l /\ job'[t] = j /\ Fits(l, j)

LEMMA ThreadFits ==
  ASSUME Inv, NEW t \in Threads
  PROVE  /\ Fits(pc[t], job[t]) /\ job[t] \in Jobs({0, 1, 3}) /\ pc[t] \in Labels
         /\ job[t].todo \subseteq Hashes
BY DEF Inv, ThreadInv, JobSet, OwnsChunk, OwnsUpload, Fits, TypeOK, StateTypeOK, Jobs

LEMMA Begins ==
  ASSUME TypeOK, NEW t \in Threads, NEW l \in Labels, NEW j \in Jobs({0, 1, 3}), Begin(t, l, j),
         Fits(l, j)
  PROVE  Arrives(t, l, j)
BY DEF TypeOK, StateTypeOK, Begin, Arrives, Moves

LEMMA GoesOn ==
  ASSUME Inv, NEW t \in Threads, NEW l \in Labels, Goto(t, l), Fits(l, job[t])
  PROVE  Arrives(t, l, job[t])
<1>1. job[t] \in Jobs({0, 1, 3}) BY ThreadFits
<1>2. Begin(t, l, job[t]) BY Typed DEF Goto, Begin, TypeOK, StateTypeOK
<1> QED BY <1>1, <1>2, Begins, Typed

LEMMA Ends ==
  ASSUME Inv, NEW t \in Threads, Finish(t)
  PROVE  Arrives(t, "idle", NoJob)
<1>1. "idle" \in Labels /\ Fits("idle", NoJob) BY DEF Labels, Fits, Hashed
<1> QED BY <1>1, NoJobIsJob, Begins, Typed DEF Finish

(* The sets of labels, for provers that do not enumerate them.             *)
LEMMA LabelFacts ==
  /\ Hashed \subseteq Labels /\ Exclude \subseteq Labels
  /\ {"idle", "putLock", "putInsert", "assemble", "dropLock"} \subseteq Labels
  /\ {"idle", "putLock", "putInsert", "assemble", "dropLock", "gcTx", "gcUnlink", "valRead", "valSet"}
       \cap Hashed = {}
  /\ {"idle", "putLock", "putInsert", "assemble", "dropLock", "lockUpload", "lockGc"} \cap Exclude = {}
  /\ {"lockUpload", "lockGc", "claim", "acquire", "commit"} \subseteq Hashed
  /\ {"claim", "acquire", "commit", "gcTx", "gcUnlink", "valRead", "valSet"} \subseteq Exclude
BY DEF Hashed, Exclude, Labels

LEMMA LockedIsExclude == GcLocked <=> \E s \in Threads : pc[s] \in Exclude
BY DEF GcLocked, Exclude

(* The requests and steps, each with where it arrives.                     *)
Advances(t, l, j) ==
  /\ Arrives(t, l, j)
  /\ l = "putInsert" => PutPlace(t) /\ j = job[t]
  /\ l \in {"acquire", "commit"} => pc[t] \in {"claim", "acquire"} /\ ustate[j.u] = "open" /\ ustate' = ustate
  /\ l = "commit" => j.h \in files'
  /\ l = "dropLock" => Commit(t) /\ j = job[t]
  /\ l \in Exclude => pc[t] \in Exclude \/ \A s \in Threads : pc[s] \notin Exclude
  /\ l = "gcUnlink" => \A h \in j.todo : blob'[h] = None
  /\ l \in {"valRead", "valSet"} => \A h \in j.todo : blob'[h] # None
  /\ l = "valSet" => j.flag = 1

LEMMA RequestAdvances ==
  ASSUME Inv, NEW t \in Threads, Request(t)
  PROVE  \E l \in Labels, j \in Jobs({0, 1, 3}) : Advances(t, l, j)
<1> DEFINE Good == \E l \in Labels, j \in Jobs({0, 1, 3}) : Advances(t, l, j)
<1>1. ASSUME NEW u \in Uploads, NEW i \in Chunks, NEW d \in Data, PutCheck(t, u, i, d) PROVE Good
  <2>1. gen[u] \in {0, 1} BY Typed DEF TypeOK
  <2>2. PICK g \in {0, 1} : g = gen[u] BY <2>1
  <2> DEFINE j == [NoJob EXCEPT !.u = u, !.i = i, !.d = d, !.flag = g]
  <2>3. j \in Jobs({0, 1, 3}) /\ j.u = u /\ j.i = i /\ j.d = d /\ j.flag = g BY DEF Jobs, NoJob
  <2>4. Begin(t, "putLock", j) /\ ustate[u] # None BY <1>1, <2>2 DEF PutCheck
  <2> HIDE DEF j
  <2>5. gen[u] # 0 => Received(u) BY DEF Inv, UploadInv
  <2>6. Fits("putLock", j) BY <2>2, <2>3, <2>4, <2>5, LabelFacts DEF Fits
  <2>7. Arrives(t, "putLock", j) BY <2>3, <2>4, <2>6, Begins, Typed, LabelFacts
  <2>8. Advances(t, "putLock", j) BY <2>7, LabelFacts DEF Advances
  <2> QED BY <2>3, <2>8, LabelFacts
<1>2. ASSUME NEW u \in Uploads, FinalizeRead(t, u) PROVE Good
  <2> DEFINE j == [NoJob EXCEPT !.u = u]
  <2>1. j \in Jobs({0, 1, 3}) /\ j.u = u BY DEF Jobs, NoJob
  <2>2. Begin(t, "assemble", j) BY <1>2 DEF FinalizeRead
  <2> HIDE DEF j
  <2>3. Fits("assemble", j) BY <2>1, LabelFacts DEF Fits
  <2>4. Arrives(t, "assemble", j) BY <2>1, <2>2, <2>3, Begins, Typed, LabelFacts
  <2>5. Advances(t, "assemble", j) BY <2>4, LabelFacts DEF Advances
  <2> QED BY <2>1, <2>5, LabelFacts
<1>3. CASE GcLock(t)
  <2>1. Begin(t, "gcTx", NoJob) /\ \A s \in Threads : pc[s] \notin Exclude
    BY <1>3, LockedIsExclude DEF GcLock
  <2>2. Fits("gcTx", NoJob) /\ "gcTx" \in Labels BY LabelFacts DEF Fits
  <2>3. Arrives(t, "gcTx", NoJob) BY <2>1, <2>2, NoJobIsJob, Begins, Typed
  <2>4. Advances(t, "gcTx", NoJob) BY <2>1, <2>3 DEF Advances
  <2> QED BY <2>2, <2>4, NoJobIsJob
<1>4. CASE ValidateLock(t)
  <2> DEFINE T == {h \in Hashes : blob[h] # None}
  <2>1. /\ Begin(t, "valRead", [NoJob EXCEPT !.todo = T]) /\ blob' = blob
        /\ \A s \in Threads : pc[s] \notin Exclude
    BY <1>4, LockedIsExclude DEF ValidateLock, rowVars
  <2>0. T \subseteq Hashes /\ \A h \in T : blob[h] # None OBVIOUS
  <2> HIDE DEF T
  <2> DEFINE j == [NoJob EXCEPT !.todo = T]
  <2>2. j \in Jobs({0, 1, 3}) /\ j.todo = T BY <2>0 DEF Jobs, NoJob
  <2>3. Begin(t, "valRead", j) BY <2>1
  <2> HIDE DEF j
  <2>4. Fits("valRead", j) /\ "valRead" \in Labels BY LabelFacts DEF Fits
  <2>5. Arrives(t, "valRead", j) BY <2>2, <2>3, <2>4, Begins, Typed
  <2>6. Advances(t, "valRead", j) BY <2>0, <2>1, <2>2, <2>5 DEF Advances
  <2> QED BY <2>2, <2>4, <2>6
<1> QED BY <1>1, <1>2, <1>3, <1>4 DEF Request

LEMMA StepAdvances ==
  ASSUME Inv, NEW t \in Threads, Step(t) \/ RequestError(t)
  PROVE  \E l \in Labels, j \in Jobs({0, 1, 3}) : Advances(t, l, j)
<1> DEFINE Good == \E l \in Labels, j \in Jobs({0, 1, 3}) : Advances(t, l, j)
<1>0. /\ Fits(pc[t], job[t]) /\ job[t] \in Jobs({0, 1, 3}) /\ pc[t] \in Labels
      /\ job[t].todo \subseteq Hashes
  BY ThreadFits
<1>1. ASSUME Finish(t) PROVE Good
  <2>1. Arrives(t, "idle", NoJob) BY <1>1, Ends
  <2>2. Advances(t, "idle", NoJob) BY <2>1, LabelFacts DEF Advances
  <2> QED BY <2>2, NoJobIsJob, LabelFacts
<1>2. CASE PutInsert(t) \/ DropLock(t) \/ PassEnd(t) \/ RequestError(t)
  BY <1>1, <1>2 DEF PutInsert, DropLock, PassEnd, RequestError
<1>3. CASE PutPlace(t)
  <2>1. CASE Goto(t, "putInsert")
    <3>1. pc[t] = "putLock" BY <1>3 DEF PutPlace
    <3>2. Fits("putInsert", job[t]) BY <1>0, <3>1, LabelFacts DEF Fits
    <3>3. Arrives(t, "putInsert", job[t]) BY <2>1, <3>2, GoesOn, LabelFacts
    <3>4. Advances(t, "putInsert", job[t]) BY <1>3, <3>3, LabelFacts DEF Advances
    <3> QED BY <1>0, <3>4, LabelFacts
  <2> QED BY <1>1, <1>3, <2>1 DEF PutPlace
<1>4. CASE Assemble(t)
  <2>0. job[t].u \in Uploads BY <1>0, <1>4, LabelFacts DEF Assemble, Fits
  <2>1. ASSUME NEW h \in Hashes, Received(job[t].u), Assembled(job[t].u, h),
               Begin(t, "lockUpload", [job[t] EXCEPT !.h = h, !.flag = gen[job[t].u]])
        PROVE  Good
    <3>1. PICK u \in Uploads, g \in {0, 1} : u = job[t].u /\ g = gen[u]
      BY <2>0, Typed DEF TypeOK
    <3> DEFINE j == [job[t] EXCEPT !.h = h, !.flag = g]
    <3>2. j \in Jobs({0, 1, 3}) /\ j.u = u /\ j.h = h BY <1>0, <3>1 DEF Jobs
    <3>3. Begin(t, "lockUpload", j) BY <2>1, <3>1
    <3> HIDE DEF j
    <3>4. Received(u) /\ chunkRow[u] = chunkFile[u]
      <4>1. \A i \in Chunks : chunkFile[u][i] = chunkRow[u][i]
        BY <2>1, <3>1 DEF Received, Inv, ChunkBytesKept
      <4>2. /\ chunkRow[u] \in [Chunks -> Data \cup {None}]
            /\ chunkFile[u] \in [Chunks -> Data \cup {None}]
        BY Typed DEF TypeOK, StateTypeOK
      <4> QED BY <2>1, <3>1, <4>1, <4>2
    <3>5. Digest[chunkRow[u]] = h BY <2>1, <3>1, <3>4 DEF Assembled
    <3>6. Fits("lockUpload", j) BY <3>2, <3>4, <3>5, LabelFacts DEF Fits
    <3>7. Arrives(t, "lockUpload", j) BY <3>2, <3>3, <3>6, Begins, Typed, LabelFacts
    <3>8. Advances(t, "lockUpload", j) BY <3>7, LabelFacts DEF Advances
    <3> QED BY <3>2, <3>8, LabelFacts
  <2> QED BY <1>1, <1>4, <2>1 DEF Assemble
<1>5. ASSUME NEW l \in {"lockGc", "claim", "acquire", "commit"}, pc[t] \in Hashed, Goto(t, l),
             l \in {"acquire", "commit"} =>
               pc[t] \in {"claim", "acquire"} /\ ustate[job[t].u] = "open" /\ ustate' = ustate,
             l = "commit" => job[t].h \in files',
             l \in Exclude => pc[t] \in Exclude \/ \A s \in Threads : pc[s] \notin Exclude
      PROVE  Good
  <2>1. l \in Hashed /\ l \in Labels BY LabelFacts
  <2>2. Fits(l, job[t]) BY <1>0, <1>5, <2>1, LabelFacts DEF Fits
  <2>3. Arrives(t, l, job[t]) BY <1>5, <2>1, <2>2, GoesOn
  <2>4. Advances(t, l, job[t]) BY <1>5, <2>3 DEF Advances
  <2> QED BY <1>0, <2>1, <2>4
<1>6. CASE LockUpload(t) BY <1>5, <1>6, LabelFacts DEF LockUpload
<1>7. CASE LockGc(t) BY <1>5, <1>7, LabelFacts, LockedIsExclude DEF LockGc
<1>8. CASE Claim(t) BY <1>1, <1>5, <1>8, LabelFacts DEF Claim, upVars
<1>9. CASE Acquire(t)
  <2>1. /\ pc[t] = "acquire" /\ ustate[job[t].u] = "open" /\ job[t].h \in files' /\ ustate' = ustate
        /\ Goto(t, "commit")
    BY <1>9 DEF Acquire, Inv, ThreadInv, OwnsUpload, upVars
  <2> QED BY <1>5, <2>1, LabelFacts
<1>10. CASE Commit(t)
  <2>1. pc[t] = "commit" /\ Goto(t, "dropLock") BY <1>10 DEF Commit
  <2>2. Fits("dropLock", job[t]) BY <1>0, <2>1, LabelFacts DEF Fits
  <2>3. Arrives(t, "dropLock", job[t]) BY <2>1, <2>2, GoesOn, LabelFacts
  <2>4. Advances(t, "dropLock", job[t]) BY <1>10, <2>3, LabelFacts DEF Advances
  <2> QED BY <1>0, <2>4, LabelFacts
<1>11. ASSUME NEW l \in {"gcUnlink", "valRead", "valSet"}, NEW j \in Jobs({0, 1, 3}),
              Begin(t, l, j), pc[t] \in Exclude,
              l = "gcUnlink" => \A h \in j.todo : blob'[h] = None,
              l \in {"valRead", "valSet"} => \A h \in j.todo : blob'[h] # None,
              l = "valSet" => j.flag = 1 /\ j.h \in Hashes
       PROVE  Good
  <2>1. l \in Labels /\ l \notin Hashed BY LabelFacts
  <2>2. Fits(l, j) BY <1>11, <2>1 DEF Fits
  <2>3. Arrives(t, l, j) BY <1>11, <2>1, <2>2, Begins, Typed
  <2>4. Advances(t, l, j) BY <1>11, <2>3 DEF Advances
  <2> QED BY <2>1, <2>4
<1>12. CASE GcTx(t)
  <2> DEFINE dead == {h \in Hashes : blob[h] # None /\ blob[h].refs = 0}
  <2>1. /\ blob' = [h \in Hashes |-> IF h \in dead THEN None ELSE blob[h]]
        /\ Begin(t, "gcUnlink", [NoJob EXCEPT !.todo = dead]) /\ pc[t] = "gcTx"
    BY <1>12 DEF GcTx
  <2>2. dead \subseteq Hashes OBVIOUS
  <2> HIDE DEF dead
  <2> DEFINE j == [NoJob EXCEPT !.todo = dead]
  <2>3. j \in Jobs({0, 1, 3}) /\ j.todo = dead BY <2>2 DEF Jobs, NoJob
  <2>4. \A h \in dead : blob'[h] = None BY <2>1, <2>2
  <2>5. Begin(t, "gcUnlink", j) BY <2>1
  <2> HIDE DEF j
  <2> QED BY <1>11, <2>1, <2>3, <2>4, <2>5, LabelFacts
<1>13. ASSUME NEW h \in Hashes, GcUnlink(t, h) PROVE Good
  <2> DEFINE j == [job[t] EXCEPT !.todo = job[t].todo \ {h}]
  <2>1. j \in Jobs({0, 1, 3}) /\ j.todo = job[t].todo \ {h} BY <1>0 DEF Jobs
  <2>2. Begin(t, "gcUnlink", j) /\ pc[t] = "gcUnlink" /\ blob' = blob BY <1>13 DEF GcUnlink, rowVars
  <2> HIDE DEF j
  <2>3. \A g \in job[t].todo : blob[g] = None BY <2>2 DEF Inv, ThreadInv, OwnsGcLock
  <2> QED BY <1>11, <2>1, <2>2, <2>3, LabelFacts
<1>14. ASSUME NEW h \in Hashes, ValidateRead(t, h) PROVE Good
  <2>1. /\ pc[t] = "valRead" /\ h \in job[t].todo /\ blob' = blob
        /\ \A g \in job[t].todo : blob[g] # None
    BY <1>14 DEF ValidateRead, rowVars, Inv, ThreadInv, OwnsGcLock
  <2>2. h \in files BY <2>1, Rows
  <2> DEFINE j == [job[t] EXCEPT !.h = h, !.todo = job[t].todo \ {h}, !.flag = 1]
  <2>3. j \in Jobs({0, 1, 3}) /\ j.todo = job[t].todo \ {h} /\ j.h = h /\ j.flag = 1
    BY <1>0 DEF Jobs
  <2>4. Begin(t, "valSet", j) BY <1>14, <2>2 DEF ValidateRead
  <2> HIDE DEF j
  <2> QED BY <1>11, <2>1, <2>3, <2>4, LabelFacts
<1>15. CASE ValidateSet(t)
  <2>1. /\ pc[t] = "valSet" /\ Begin(t, "valRead", job[t])
        /\ \A g \in job[t].todo : blob[g] # None
    BY <1>15, Typed DEF ValidateSet, Goto, Begin, TypeOK, StateTypeOK, Inv, ThreadInv, OwnsGcLock
  <2>2. PICK h \in Hashes : h = job[t].h BY <1>0, <2>1 DEF Fits
  <2>3. \A g \in Hashes : blob[g] # None => blob'[g] # None
    <3>1. blob \in [Hashes -> Row \cup {None}] BY Typed DEF TypeOK, StateTypeOK
    <3>2. CASE blob[h] = None BY <1>15, <2>2, <3>1, <3>2 DEF ValidateSet, SetRow
    <3>3. CASE blob[h] # None
      <4>1. PICK r \in Row : r = blob[h] BY <3>1, <3>3
      <4>2. job[t].flag = 1 BY <2>1 DEF Inv, ThreadInv, OwnsGcLock
      <4>3. blob' = [blob EXCEPT ![h] = [r EXCEPT !.validated = 1]]
        BY <1>15, <2>2, <3>3, <4>1, <4>2 DEF ValidateSet, SetRow
      <4>4. [r EXCEPT !.validated = 1] \in Row BY ONLY r \in Row DEF Row
      <4> QED BY <3>1, <4>3, <4>4, NoneFresh
    <3> QED BY <3>2, <3>3
  <2>4. \A g \in job[t].todo : blob'[g] # None BY <1>0, <2>1, <2>3
  <2> QED BY <1>0, <1>11, <2>1, <2>4, LabelFacts
<1> QED BY <1>2, <1>3, <1>4, <1>6, <1>7, <1>8, <1>9, <1>10, <1>12, <1>13, <1>14, <1>15 DEF Step

-----------------------------------------------------------------------------
(* The chunks.                                                             *)

(* Whoever writes a chunk finds its row missing and is alone with the      *)
(* upload.                                                                 *)
LEMMA PutFacts ==
  ASSUME Inv, NEW t \in Threads, PutPlace(t) \/ PutInsert(t)
  PROVE  \E u \in Uploads, i \in Chunks, d \in Data :
           /\ u = job[t].u /\ i = job[t].i /\ d = job[t].d
           /\ PutPlace(t) => /\ chunkRow' = chunkRow
                             /\ \/ chunkFile' = chunkFile /\ pc'[t] = "idle"
                                \/ /\ chunkFile' = [chunkFile EXCEPT ![u][i] = d]
                                   /\ chunkRow[u][i] = None /\ job[t].flag = 0
                                   /\ \A s \in Threads : ~(pc[s] = "putInsert" /\ job[s].u = u)
           /\ PutInsert(t) => /\ chunkFile' = chunkFile /\ chunkRow' = [chunkRow EXCEPT ![u][i] = d]
                              /\ chunkRow[u][i] = None /\ chunkFile[u][i] = d /\ ustate[u] # None
                              /\ pc[t] = "putInsert" /\ pc'[t] = "idle"
<1>1. PICK u \in Uploads, i \in Chunks, d \in Data : u = job[t].u /\ i = job[t].i /\ d = job[t].d
  BY DEF PutPlace, PutInsert, Inv, ThreadInv, JobSet
<1>2. CASE PutPlace(t)
  <2>0. ~PutInsert(t) BY <1>2 DEF PutPlace, PutInsert
  <2>1. CASE Finish(t) /\ chunkFile' = chunkFile
    <3>1. pc'[t] = "idle" BY <2>1, Ends DEF Arrives
    <3> QED BY <1>1, <1>2, <2>0, <2>1, <3>1 DEF PutPlace
  <2>2. CASE chunkRow[u][i] = None /\ chunkFile' = [chunkFile EXCEPT ![u][i] = d]
    <3>1. job[t].flag = 0
      <4>1. ~Received(u) BY <2>2 DEF Received
      <4> QED BY <1>1, <1>2, <4>1 DEF PutPlace, Inv, ThreadInv, OwnsChunk
    <3>2. \A s \in Threads : pc[s] = "putInsert" => job[s].flag = 0
      BY DEF Inv, ThreadInv, OwnsChunk
    <3>3. \A s \in Threads : ~(pc[s] = "putInsert" /\ job[s].u = u)
      BY <1>1, <1>2, <3>1, <3>2 DEF PutPlace, UploadLocked
    <3> QED BY <1>1, <1>2, <2>0, <2>2, <3>1, <3>3 DEF PutPlace
  <2> QED BY <1>1, <1>2, <2>1, <2>2 DEF PutPlace
<1>3. CASE PutInsert(t)
  <2>1. chunkRow[u][i] = None /\ chunkFile[u][i] = d /\ pc[t] = "putInsert" /\ ustate[u] # None
    BY <1>1, <1>3 DEF PutInsert, Inv, ThreadInv, OwnsChunk
  <2>2. pc'[t] = "idle" BY <1>3, Ends DEF PutInsert, Arrives
  <2> QED BY <1>1, <1>3, <2>1, <2>2 DEF PutInsert, PutPlace
<1> QED BY <1>2, <1>3

LEMMA ThreadChunks ==
  ASSUME Inv, NEW t \in Threads, Request(t) \/ Step(t) \/ RequestError(t)
  PROVE  UNCHANGED <<chunkRow, chunkFile>> \/ PutPlace(t) \/ PutInsert(t)
<1> USE DEF upVars
<1>1. CASE Request(t) \/ RequestError(t)
  BY <1>1 DEF Request, PutCheck, FinalizeRead, GcLock, ValidateLock, RequestError
<1>2. CASE Step(t)
  BY <1>2 DEF Step, Assemble, LockUpload, LockGc, Claim, Acquire, Commit, DropLock, GcTx,
         ValidateSet, PassEnd, GcUnlink, ValidateRead
<1> QED BY <1>1, <1>2

LEMMA ChunkChanges ==
  ASSUME Inv, [Next]_vars
  PROVE  \/ UNCHANGED <<chunkRow, chunkFile>>
         \/ \E t \in Threads : PutPlace(t) \/ PutInsert(t)
         \/ Restart
<1>1. CASE \E u \in Uploads : CreateUpload(u) \/ DeleteArtifact(u)
  BY <1>1 DEF CreateUpload, DeleteArtifact, upVars
<1>2. CASE UNCHANGED vars BY <1>2 DEF vars, upVars
<1> QED BY <1>1, <1>2, ThreadChunks DEF Next

(* Recorded chunks keep their rows and their files.                        *)
LEMMA ChunksStep ==
  ASSUME Inv, [Next]_vars
  PROVE  /\ ChunkBytesKept'
         /\ \A u \in Uploads, i \in Chunks :
              chunkRow[u][i] # None => chunkRow'[u][i] = chunkRow[u][i]
         /\ chunkRow' \in [Uploads -> [Chunks -> Data \cup {None}]]
         /\ chunkFile' \in [Uploads -> [Chunks -> Data \cup {None}]]
<1>0. /\ chunkRow \in [Uploads -> [Chunks -> Data \cup {None}]]
      /\ chunkFile \in [Uploads -> [Chunks -> Data \cup {None}]]
      /\ ChunkBytesKept
  BY DEF Inv, TypeOK, StateTypeOK
<1>1. CASE UNCHANGED <<chunkRow, chunkFile>> BY <1>0, <1>1 DEF ChunkBytesKept
<1>2. CASE Restart
  <2>1. /\ chunkRow' = chunkRow
        /\ chunkFile' = [u \in Uploads |-> [i \in Chunks |->
                           IF chunkRow[u][i] = None THEN None ELSE chunkFile[u][i]]]
    BY <1>2 DEF Restart, upVars
  <2> QED BY <1>0, <2>1 DEF ChunkBytesKept
<1>3. ASSUME NEW t \in Threads, PutPlace(t) \/ PutInsert(t)
      PROVE  /\ ChunkBytesKept'
             /\ \A u \in Uploads, i \in Chunks :
                  chunkRow[u][i] # None => chunkRow'[u][i] = chunkRow[u][i]
             /\ chunkRow' \in [Uploads -> [Chunks -> Data \cup {None}]]
             /\ chunkFile' \in [Uploads -> [Chunks -> Data \cup {None}]]
  <2>1. PICK u \in Uploads, i \in Chunks, d \in Data :
          \/ UNCHANGED <<chunkRow, chunkFile>>
          \/ /\ chunkRow' = chunkRow /\ chunkRow[u][i] = None
             /\ chunkFile' = [chunkFile EXCEPT ![u][i] = d]
          \/ /\ chunkFile' = chunkFile /\ chunkRow[u][i] = None /\ chunkFile[u][i] = d
             /\ chunkRow' = [chunkRow EXCEPT ![u][i] = d]
    BY <1>3, PutFacts
  <2>2. CASE /\ chunkRow' = chunkRow /\ chunkRow[u][i] = None
             /\ chunkFile' = [chunkFile EXCEPT ![u][i] = d]
    <3>1. \A v \in Uploads, j \in Chunks :
            chunkFile'[v][j] = IF v = u /\ j = i THEN d ELSE chunkFile[v][j]
      BY <1>0, <2>2
    <3> QED BY <1>0, <2>2, <3>1 DEF ChunkBytesKept
  <2>3. CASE /\ chunkFile' = chunkFile /\ chunkRow[u][i] = None /\ chunkFile[u][i] = d
             /\ chunkRow' = [chunkRow EXCEPT ![u][i] = d]
    <3>1. \A v \in Uploads, j \in Chunks :
            chunkRow'[v][j] = IF v = u /\ j = i THEN d ELSE chunkRow[v][j]
      BY <1>0, <2>3
    <3> QED BY <1>0, <2>3, <3>1 DEF ChunkBytesKept
  <2> QED BY <1>1, <2>1, <2>2, <2>3
<1> QED BY <1>1, <1>2, <1>3, ChunkChanges

(* All of an upload's chunks, once recorded, stay as they are.             *)
LEMMA ReceivedStays ==
  ASSUME Inv, [Next]_vars, NEW u \in Uploads, Received(u)
  PROVE  Received(u)' /\ chunkRow'[u] = chunkRow[u]
<1>1. /\ chunkRow[u] \in [Chunks -> Data \cup {None}]
      /\ chunkRow'[u] \in [Chunks -> Data \cup {None}]
  BY Typed, ChunksStep DEF TypeOK, StateTypeOK
<1>2. \A i \in Chunks : chunkRow'[u][i] = chunkRow[u][i] BY ChunksStep DEF Received
<1> QED BY <1>1, <1>2 DEF Received

-----------------------------------------------------------------------------
(* The tables.                                                             *)

(* What passes do: no artifact changes, and rows without artifacts go.     *)
Relabelled ==
  /\ artifact' = artifact
  /\ blob' \in [Hashes -> Row \cup {None}]
  /\ \A h \in Hashes :
       \/ blob'[h] = blob[h]
       \/ /\ blob[h] # None /\ blob'[h] # None
          /\ blob'[h].refs = blob[h].refs /\ blob'[h].validated # 3
       \/ blob'[h] = None /\ Refs(h) = {}

Tables ==
  /\ artifact \in [Uploads -> Hashes \cup {None}]
  /\ blob \in [Hashes -> Row \cup {None}]
  /\ \A h \in Hashes : blob[h] # None => blob[h].validated # 3
  /\ RefcountExact

LEMMA TablesHold == Inv => Tables
BY DEF Inv, TypeOK, StateTypeOK, RowHasFile, Tables

LEMMA PassesRelabel ==
  ASSUME Inv, NEW t \in Threads, GcTx(t) \/ ValidateSet(t)
  PROVE  Relabelled
<1>0. blob \in [Hashes -> Row \cup {None}] BY Typed DEF TypeOK, StateTypeOK
<1>1. CASE GcTx(t)
  <2> DEFINE dead == {h \in Hashes : blob[h] # None /\ blob[h].refs = 0}
  <2>1. artifact' = artifact /\ blob' = [h \in Hashes |-> IF h \in dead THEN None ELSE blob[h]]
    BY <1>1 DEF GcTx
  <2>2. dead \subseteq Hashes /\ \A h \in dead : Refs(h) = {} BY Rows, RefsCount
  <2> HIDE DEF dead
  <2> QED BY <1>0, <2>1, <2>2 DEF Relabelled
<1>2. CASE ValidateSet(t)
  <2>1. PICK h \in Hashes : h = job[t].h BY <1>2 DEF ValidateSet, Inv, ThreadInv, JobSet
  <2>2. job[t].flag = 1 BY <1>2 DEF ValidateSet, Inv, ThreadInv, OwnsGcLock
  <2>3. CASE blob[h] = None
    <3>1. blob' = blob BY <1>0, <1>2, <2>1, <2>3 DEF ValidateSet, SetRow
    <3> QED BY <1>0, <1>2, <3>1 DEF ValidateSet, Relabelled
  <2>4. CASE blob[h] # None
    <3>1. PICK r \in Row : r = blob[h] BY <1>0, <2>4
    <3>2. blob' = [blob EXCEPT ![h] = [r EXCEPT !.validated = 1]]
      BY <1>2, <2>1, <2>2, <2>4, <3>1 DEF ValidateSet, SetRow
    <3>3. /\ [r EXCEPT !.validated = 1] \in Row /\ [r EXCEPT !.validated = 1].refs = r.refs
          /\ [r EXCEPT !.validated = 1].validated = 1
      BY ONLY r \in Row DEF Row
    <3>4. /\ blob'[h] = [r EXCEPT !.validated = 1]
          /\ \A g \in Hashes \ {h} : blob'[g] = blob[g]
          /\ blob' \in [Hashes -> Row \cup {None}]
      BY <1>0, <3>2, <3>3
    <3>5. blob'[h] # None /\ blob'[h].refs = blob[h].refs /\ blob'[h].validated # 3
      <4> DEFINE new == [r EXCEPT !.validated = 1]
      <4>1. new # None /\ new.refs = blob[h].refs /\ new.validated # 3 BY <3>1, <3>3, NoneFresh
      <4>2. blob'[h] = new BY <3>4
      <4> HIDE DEF new
      <4> QED BY <4>1, <4>2
    <3>6. artifact' = artifact BY <1>2 DEF ValidateSet
    <3>7. \A g \in Hashes : g = h \/ blob'[g] = blob[g] BY <3>4
    <3> QED BY <2>4, <3>4, <3>5, <3>6, <3>7 DEF Relabelled
  <2> QED BY <2>3, <2>4
<1> QED BY <1>1, <1>2

(* Every step that changes the tables.                                     *)
LEMMA Changes ==
  ASSUME Inv, [Next]_vars
  PROVE  \/ UNCHANGED rowVars
         \/ \E u \in Uploads : DeleteArtifact(u)
         \/ \E t \in Threads : Commit(t)
         \/ Relabelled
<1>1. ASSUME NEW t \in Threads, Request(t) \/ RequestError(t) PROVE UNCHANGED rowVars
  BY <1>1 DEF Request, PutCheck, FinalizeRead, GcLock, ValidateLock, RequestError
<1>2. ASSUME NEW t \in Threads, Step(t) PROVE UNCHANGED rowVars \/ Relabelled \/ Commit(t)
  BY <1>2, PassesRelabel
     DEF Step, PutPlace, PutInsert, Assemble, LockUpload, LockGc, Claim, Acquire, DropLock,
         PassEnd, GcUnlink, ValidateRead
<1>3. CASE UNCHANGED vars BY <1>3 DEF vars
<1> QED BY <1>1, <1>2, <1>3 DEF Next, CreateUpload, Restart

(* One row gets a new count, that of the artifacts which name its hash.    *)
LEMMA OneRow ==
  ASSUME Tables, NEW h \in Hashes, NEW row \in Row, blob' = [blob EXCEPT ![h] = row],
         row.validated # 3, row.refs = Cardinality(Refs(h)'),
         artifact' \in [Uploads -> Hashes \cup {None}],
         \A g \in Hashes \ {h} : Refs(g)' = Refs(g)
  PROVE  Tables'
<1>1. /\ blob'[h] = row /\ row # None
      /\ \A g \in Hashes \ {h} : blob'[g] = blob[g]
      /\ blob' \in [Hashes -> Row \cup {None}]
  BY NoneFresh DEF Tables
<1>2. RefcountExact'
  <2> SUFFICES ASSUME NEW g \in Hashes
               PROVE  IF blob'[g] = None THEN Refs(g)' = {}
                      ELSE blob'[g].refs = Cardinality(Refs(g)')
    BY DEF RefcountExact
  <2>1. CASE g = h BY <1>1, <2>1
  <2>2. CASE g # h BY <1>1, <2>2 DEF Tables, RefcountExact
  <2> QED BY <2>1, <2>2
<1>3. \A g \in Hashes : blob'[g] # None => blob'[g].validated # 3 BY <1>1 DEF Tables
<1> QED BY <1>1, <1>2, <1>3 DEF Tables

(* A commit adds one artifact and one reference, a delete takes both.      *)
LEMMA CommitFacts ==
  ASSUME Inv, NEW t \in Threads, Commit(t)
  PROVE  \E u \in Uploads, h \in Hashes :
           /\ u = job[t].u /\ h = job[t].h /\ pc[t] = "commit"
           /\ ustate[u] = "open" /\ artifact[u] = None
           /\ Received(u) /\ Digest[chunkRow[u]] = h /\ h \in files
           /\ artifact' = [artifact EXCEPT ![u] = h] /\ ustate' = [ustate EXCEPT ![u] = "finalized"]
<1>1. pc[t] = "commit" /\ "commit" \in Hashed BY LabelFacts DEF Commit
<1>2. PICK u \in Uploads, h \in Hashes : u = job[t].u /\ h = job[t].h
  BY <1>1 DEF Inv, ThreadInv, JobSet
<1>3. ustate[u] = "open" /\ Received(u) /\ Digest[chunkRow[u]] = h /\ h \in files
  BY <1>1, <1>2 DEF Inv, ThreadInv, OwnsUpload, OwnsGcLock
<1>4. artifact[u] = None BY <1>3 DEF Inv, UploadInv
<1> QED BY <1>1, <1>2, <1>3, <1>4 DEF Commit

LEMMA TablesStep ==
  ASSUME Inv, [Next]_vars
  PROVE  Tables'
<1>0. Tables BY TablesHold
<1>1. CASE UNCHANGED rowVars BY <1>0, <1>1 DEF rowVars, Tables, RefcountExact, Refs
<1>2. ASSUME NEW u \in Uploads, DeleteArtifact(u) PROVE Tables'
  <2>1. PICK h \in Hashes : h = artifact[u] BY <1>0, <1>2 DEF DeleteArtifact, Tables
  <2>2. artifact' = [artifact EXCEPT ![u] = None] BY <1>2 DEF DeleteArtifact
  <2>3. /\ artifact' \in [Uploads -> Hashes \cup {None}]
        /\ \A v \in Uploads : artifact'[v] = IF v = u THEN None ELSE artifact[v]
    BY <1>0, <2>2 DEF Tables
  <2>4. /\ u \in Refs(h) /\ Refs(h)' = Refs(h) \ {u}
        /\ \A g \in Hashes \ {h} : Refs(g)' = Refs(g)
    BY <2>1, <2>3, NoneFresh DEF Refs
  <2>5. Cardinality(Refs(h)') = Cardinality(Refs(h)) - 1
    BY <2>4, RefsCount, FS_RemoveElement
  <2>6. blob[h] # None BY <1>0, <2>4 DEF Tables, RefcountExact
  <2>7. PICK r \in Row, n \in Int : r = blob[h] /\ n = blob[h].refs - 1
    <3>1. blob[h].refs - 1 \in Int BY <2>6, Rows
    <3> QED BY <2>6, <3>1, Rows
  <2>8. /\ [r EXCEPT !.refs = n] \in Row /\ [r EXCEPT !.refs = n].refs = n
        /\ [r EXCEPT !.refs = n].validated = r.validated
    BY ONLY r \in Row, n \in Int DEF Row
  <2>9. n = Cardinality(Refs(h)') /\ r.validated # 3 BY <2>5, <2>6, <2>7, Rows
  <2> DEFINE row == [r EXCEPT !.refs = n]
  <2>10. blob' = [blob EXCEPT ![h] = row] BY <1>2, <2>1, <2>6, <2>7 DEF DeleteArtifact, SetRow
  <2>11. row \in Row /\ row.refs = n /\ row.validated # 3 BY <2>8, <2>9
  <2> HIDE DEF row
  <2> QED BY <1>0, <2>3, <2>4, <2>9, <2>10, <2>11, OneRow
<1>3. ASSUME NEW t \in Threads, Commit(t) PROVE Tables'
  <2>1. PICK u \in Uploads, h \in Hashes :
          /\ u = job[t].u /\ h = job[t].h /\ artifact[u] = None
          /\ artifact' = [artifact EXCEPT ![u] = h]
    BY <1>3, CommitFacts
  <2>2. /\ artifact' \in [Uploads -> Hashes \cup {None}]
        /\ \A v \in Uploads : artifact'[v] = IF v = u THEN h ELSE artifact[v]
    BY <1>0, <2>1 DEF Tables
  <2>3. /\ u \notin Refs(h) /\ Refs(h)' = Refs(h) \cup {u}
        /\ \A g \in Hashes \ {h} : Refs(g)' = Refs(g)
    BY <2>1, <2>2, NoneFresh DEF Refs
  <2>4. Cardinality(Refs(h)') = Cardinality(Refs(h)) + 1 BY <2>3, RefsCount, FS_AddElement
  <2>5. PICK row \in Row : /\ blob' = [blob EXCEPT ![h] = row] /\ row.validated # 3
                           /\ row.refs = Cardinality(Refs(h)) + 1
    <3>1. CASE blob[h] = None
      <4> DEFINE new == [refs |-> 1, validated |-> 0]
      <4>1. new \in Row /\ new.refs = 1 /\ new.validated # 3 BY DEF Row
      <4>2. blob' = [blob EXCEPT ![h] = new] BY <1>3, <2>1, <3>1 DEF Commit, SetRow
      <4>3. Cardinality(Refs(h)) = 0 BY <1>0, <3>1, RefsCount DEF Tables, RefcountExact
      <4>4. new.refs = Cardinality(Refs(h)) + 1 BY <4>1, <4>3
      <4> HIDE DEF new
      <4> QED BY <4>1, <4>2, <4>4
    <3>2. CASE blob[h] # None
      <4>1. PICK r \in Row, n \in Int : r = blob[h] /\ n = blob[h].refs + 1 BY <3>2, Rows
      <4> DEFINE new == [r EXCEPT !.refs = n]
      <4>2. new \in Row /\ new.refs = n /\ new.validated = r.validated
        BY ONLY r \in Row, n \in Int DEF Row
      <4>3. blob' = [blob EXCEPT ![h] = new] BY <1>3, <2>1, <3>2, <4>1 DEF Commit, SetRow
      <4>4. r.validated # 3 /\ n = Cardinality(Refs(h)) + 1 BY <3>2, <4>1, Rows
      <4> HIDE DEF new
      <4> QED BY <4>2, <4>3, <4>4
    <3> QED BY <3>1, <3>2
  <2> QED BY <1>0, <2>2, <2>3, <2>4, <2>5, OneRow
<1>4. CASE Relabelled
  <2>1. \A h \in Hashes : Refs(h)' = Refs(h) BY <1>4 DEF Relabelled, Refs
  <2>2. RefcountExact' BY <1>0, <1>4, <2>1 DEF Relabelled, Tables, RefcountExact
  <2>3. \A h \in Hashes : blob'[h] # None => blob'[h].validated # 3
    BY <1>0, <1>4 DEF Relabelled, Tables
  <2> QED BY <1>0, <1>4, <2>2, <2>3 DEF Relabelled, Tables
<1> QED BY <1>1, <1>2, <1>3, <1>4, Changes

(* A commit publishes the digest of the recorded chunks.                   *)
LEMMA ArtifactsStep ==
  ASSUME Inv, [Next]_vars
  PROVE  ArtifactIsItsChunks'
<1>1. ASSUME \A u \in Uploads : artifact'[u] \in {artifact[u], None} PROVE ArtifactIsItsChunks'
  BY <1>1, ReceivedStays DEF Inv, ArtifactIsItsChunks
<1>2. ASSUME NEW t \in Threads, Commit(t) PROVE ArtifactIsItsChunks'
  <2>1. PICK u \in Uploads, h \in Hashes :
          /\ Received(u) /\ Digest[chunkRow[u]] = h /\ artifact' = [artifact EXCEPT ![u] = h]
    BY <1>2, CommitFacts
  <2>2. \A v \in Uploads : artifact'[v] = IF v = u THEN h ELSE artifact[v]
    BY <2>1, Typed DEF TypeOK, StateTypeOK
  <2> QED BY <2>1, <2>2, ReceivedStays DEF Inv, ArtifactIsItsChunks
<1>3. ASSUME NEW u \in Uploads, DeleteArtifact(u) PROVE ArtifactIsItsChunks'
  BY <1>1, <1>3, Typed DEF DeleteArtifact, TypeOK, StateTypeOK
<1>4. CASE artifact' = artifact BY <1>1, <1>4
<1> QED BY <1>2, <1>3, <1>4, Changes DEF Relabelled, rowVars

-----------------------------------------------------------------------------
(* The uploads, their locks and the files.                                 *)

LEMMA Advance ==
  ASSUME Inv, NEW t \in Threads, Request(t) \/ Step(t) \/ RequestError(t)
  PROVE  \E l \in Labels, j \in Jobs({0, 1, 3}) : Advances(t, l, j)
BY RequestAdvances, StepAdvances

(* Without gc_lock a thread changes no row, no file and no upload's state. *)
LEMMA Quiet ==
  ASSUME Inv, NEW t \in Threads, Request(t) \/ Step(t) \/ RequestError(t), pc[t] \notin Exclude
  PROVE  UNCHANGED <<ustate, artifact, blob, files>>
<1> USE DEF upVars, rowVars
<1>1. CASE Request(t) \/ RequestError(t)
  BY <1>1 DEF Request, PutCheck, FinalizeRead, GcLock, ValidateLock, RequestError
<1>2. CASE Step(t)
  <2>1. ~(Acquire(t) \/ Commit(t) \/ GcTx(t) \/ ValidateSet(t) \/ \E h \in Hashes : GcUnlink(t, h))
    BY LabelFacts DEF Acquire, Commit, GcTx, ValidateSet, GcUnlink
  <2> QED BY <1>2, <2>1 DEF Step, PutPlace, PutInsert, Assemble, LockUpload, LockGc, Claim,
                 DropLock, PassEnd, ValidateRead
<1> QED BY <1>1, <1>2

LEMMA UploadChanges ==
  ASSUME Inv, [Next]_vars
  PROVE  \/ ustate' = ustate
         \/ \E u \in Uploads : CreateUpload(u)
         \/ \E t \in Threads : Commit(t)
<1> USE DEF upVars
<1>1. ASSUME NEW t \in Threads, Request(t) \/ RequestError(t) PROVE ustate' = ustate
  BY <1>1 DEF Request, PutCheck, FinalizeRead, GcLock, ValidateLock, RequestError
<1>2. ASSUME NEW t \in Threads, Step(t) PROVE ustate' = ustate \/ Commit(t)
  BY <1>2 DEF Step, PutPlace, PutInsert, Assemble, LockUpload, LockGc, Claim, Acquire, DropLock,
         GcTx, ValidateSet, PassEnd, GcUnlink, ValidateRead
<1>3. CASE UNCHANGED vars BY <1>3 DEF vars
<1> QED BY <1>1, <1>2, <1>3 DEF Next, DeleteArtifact, Restart

LEMMA ThreadGen ==
  ASSUME Inv, NEW t \in Threads, Request(t) \/ Step(t) \/ RequestError(t)
  PROVE  gen' = gen \/ DropLock(t)
<1>1. CASE Request(t) \/ RequestError(t)
  BY <1>1 DEF Request, PutCheck, FinalizeRead, GcLock, ValidateLock, RequestError
<1>2. CASE Step(t)
  BY <1>2 DEF Step, PutPlace, PutInsert, Assemble, LockUpload, LockGc, Claim, Acquire, Commit,
         GcTx, ValidateSet, PassEnd, GcUnlink, ValidateRead
<1> QED BY <1>1, <1>2

LEMMA GenChanges ==
  ASSUME Inv, [Next]_vars
  PROVE  gen' = gen \/ (\E t \in Threads : DropLock(t)) \/ Restart
<1>1. CASE UNCHANGED vars BY <1>1 DEF vars
<1> QED BY <1>1, ThreadGen DEF Next, CreateUpload, DeleteArtifact

(* An upload is created once and finalized once, its first lock is dropped *)
(* after that, and a finalized upload is complete.                         *)
LEMMA UploadsStep ==
  ASSUME Inv, [Next]_vars
  PROVE  /\ ustate' \in [Uploads -> States \cup {None}]
         /\ gen' \in [Uploads -> {0, 1}]
         /\ \A u \in Uploads : ustate[u] # None => ustate'[u] # None
         /\ \A u \in Uploads : ustate[u] = "finalized" => ustate'[u] = "finalized"
         /\ \A u \in Uploads : UploadInv(u)'
<1>0. ustate \in [Uploads -> States \cup {None}] /\ gen \in [Uploads -> {0, 1}]
  BY Typed DEF TypeOK, StateTypeOK
<1>1. /\ ustate' \in [Uploads -> States \cup {None}]
      /\ \A u \in Uploads : ustate[u] # None => ustate'[u] # None
      /\ \A u \in Uploads : ustate[u] = "finalized" => ustate'[u] = "finalized"
      /\ \A u \in Uploads : ustate'[u] = "finalized" => ustate[u] = "finalized" \/ Received(u)
  <2>1. CASE ustate' = ustate BY <1>0, <2>1
  <2>2. ASSUME NEW v \in Uploads, CreateUpload(v)
        PROVE  \A u \in Uploads : ustate'[u] = IF u = v THEN "open" ELSE ustate[u]
    BY <1>0, <2>2 DEF CreateUpload
  <2>3. ASSUME NEW v \in Uploads, CreateUpload(v)
        PROVE  ustate[v] = None /\ ustate' \in [Uploads -> States \cup {None}]
    BY <1>0, <2>3 DEF CreateUpload, States
  <2>4. ASSUME NEW t \in Threads, Commit(t)
        PROVE  \E v \in Uploads : Received(v) /\ ustate' = [ustate EXCEPT ![v] = "finalized"]
    BY <2>4, CommitFacts
  <2> QED BY <1>0, <2>1, <2>2, <2>3, <2>4, NoneFresh, UploadChanges DEF States
<1>2. /\ gen' \in [Uploads -> {0, 1}]
      /\ \A u \in Uploads : gen'[u] # 0 => gen[u] # 0 \/ ustate[u] = "finalized"
  <2>1. CASE gen' = gen BY <1>0, <2>1
  <2>2. ASSUME NEW t \in Threads, DropLock(t)
        PROVE  \E u \in Uploads : ustate[u] = "finalized" /\ gen' = [gen EXCEPT ![u] = 1]
    <3>1. pc[t] = "dropLock" BY <2>2 DEF DropLock
    <3>2. PICK u \in Uploads : u = job[t].u BY <3>1, LabelFacts, ThreadFits DEF Fits
    <3>3. ustate[u] = "finalized" /\ gen[u] = 0 BY <3>1, <3>2 DEF Inv, ThreadInv, OwnsUpload
    <3>4. gen' = [gen EXCEPT ![u] = gen[u] + 1] BY <2>2, <3>2 DEF DropLock
    <3>5. gen[u] + 1 = 1 BY <3>3
    <3>6. gen' = [gen EXCEPT ![u] = 1] BY <3>4, <3>5
    <3> QED BY <3>3, <3>6
  <2>3. CASE Restart BY <2>3 DEF Restart
  <2> QED BY <1>0, <2>1, <2>2, <2>3, GenChanges
<1>3. \A u \in Uploads : artifact'[u] # None => artifact[u] # None \/ ustate'[u] = "finalized"
  <2>1. ASSUME NEW t \in Threads, Commit(t)
        PROVE  \A u \in Uploads : artifact'[u] # None => artifact[u] # None \/ ustate'[u] = "finalized"
    BY <1>0, <2>1, CommitFacts, Typed DEF TypeOK, StateTypeOK
  <2>2. ASSUME NEW v \in Uploads, DeleteArtifact(v)
        PROVE  \A u \in Uploads : artifact'[u] # None => artifact[u] # None
    BY <2>2, Typed DEF DeleteArtifact, TypeOK, StateTypeOK
  <2> QED BY <2>1, <2>2, Changes DEF Relabelled, rowVars
<1>4. ASSUME NEW u \in Uploads PROVE UploadInv(u)'
  <2>1. UploadInv(u) BY DEF Inv
  <2>2. ustate'[u] = "finalized" => Received(u)' BY <1>1, <2>1, ReceivedStays DEF UploadInv
  <2>3. artifact'[u] # None \/ gen'[u] # 0 => ustate'[u] = "finalized"
    BY <1>1, <1>2, <1>3, <2>1 DEF UploadInv
  <2> QED BY <2>2, <2>3 DEF UploadInv
<1> QED BY <1>1, <1>2, <1>4

LEMMA FileChanges ==
  ASSUME Inv, [Next]_vars
  PROVE  \/ files' = files
         \/ \E t \in Threads : Acquire(t)
         \/ \E t \in Threads, h \in Hashes : GcUnlink(t, h)
         \/ Restart
<1>1. ASSUME NEW t \in Threads, Request(t) \/ RequestError(t) PROVE files' = files
  BY <1>1 DEF Request, PutCheck, FinalizeRead, GcLock, ValidateLock, RequestError
<1>2. ASSUME NEW t \in Threads, Step(t)
      PROVE  files' = files \/ Acquire(t) \/ \E h \in Hashes : GcUnlink(t, h)
  BY <1>2 DEF Step, PutPlace, PutInsert, Assemble, LockUpload, LockGc, Claim, Commit, DropLock,
         GcTx, ValidateSet, PassEnd, ValidateRead
<1>3. CASE UNCHANGED vars BY <1>3 DEF vars
<1> QED BY <1>1, <1>2, <1>3 DEF Next, CreateUpload, DeleteArtifact

(* A gc pass unlinks the file of a hash that has no row.                   *)
LEMMA UnlinkFacts ==
  ASSUME Inv, NEW t \in Threads, NEW h \in Hashes, GcUnlink(t, h)
  PROVE  blob[h] = None /\ artifact' = artifact /\ blob' = blob /\ files' = files \ {h}
BY DEF GcUnlink, Inv, ThreadInv, OwnsGcLock, rowVars

(* A row keeps its file, and comes with one.                               *)
LEMMA FilesStep ==
  ASSUME Inv, [Next]_vars
  PROVE  files' \subseteq Hashes /\ RowHasFile'
<1>0. files \subseteq Hashes /\ blob \in [Hashes -> Row \cup {None}] BY Typed DEF TypeOK, StateTypeOK
<1>1. \A h \in Hashes : blob'[h] # None => blob'[h].validated # 3 BY TablesStep DEF Tables
<1>2. \A h \in Hashes : blob'[h] # None => h \in files
  <2>1. ASSUME NEW t \in Threads, Commit(t) PROVE \A h \in Hashes : blob'[h] # None => h \in files
    <3>1. PICK h \in Hashes : h = job[t].h /\ h \in files BY <2>1, CommitFacts
    <3>2. \A g \in Hashes \ {h} : blob'[g] = blob[g] BY <1>0, <2>1, <3>1 DEF Commit, SetRow
    <3> QED BY <3>1, <3>2, Rows
  <2>2. ASSUME NEW u \in Uploads, DeleteArtifact(u) PROVE \A h \in Hashes : blob'[h] # None => h \in files
    <3>1. PICK h \in Hashes : h = artifact[u]
      BY <2>2, Typed DEF DeleteArtifact, TypeOK, StateTypeOK
    <3>2. \A g \in Hashes \ {h} : blob'[g] = blob[g] BY <1>0, <2>2, <3>1 DEF DeleteArtifact, SetRow
    <3>3. blob[h] # None BY <2>2, <3>1, TablesHold DEF DeleteArtifact, Tables, RefcountExact, Refs
    <3> QED BY <3>2, <3>3, Rows
  <2>3. CASE Relabelled BY <2>3, Rows DEF Relabelled
  <2> QED BY <2>1, <2>2, <2>3, Rows, Changes DEF rowVars
<1>3. CASE files' = files BY <1>0, <1>1, <1>2, <1>3 DEF RowHasFile
<1>4. ASSUME NEW t \in Threads, Acquire(t) PROVE files' \subseteq Hashes /\ RowHasFile'
  <2>1. job[t].h \in Hashes BY <1>4, LabelFacts, ThreadFits DEF Fits, Acquire
  <2>2. files' = files \cup {job[t].h} BY <1>4 DEF Acquire
  <2> QED BY <1>0, <1>1, <1>2, <2>1, <2>2 DEF RowHasFile
<1>5. ASSUME NEW t \in Threads, NEW h \in Hashes, GcUnlink(t, h)
      PROVE  files' \subseteq Hashes /\ RowHasFile'
  BY <1>0, <1>1, <1>2, <1>5, UnlinkFacts DEF RowHasFile
<1>6. CASE Restart
  <2>1. blob' = blob /\ files' = {h \in files : blob[h] # None} BY <1>6 DEF Restart, rowVars
  <2> QED BY <1>0, <1>1, <1>2, <2>1 DEF RowHasFile
<1> QED BY <1>3, <1>4, <1>5, <1>6, FileChanges

-----------------------------------------------------------------------------
(* Each thread keeps what it relies on.                                    *)

LEMMA JobsStep ==
  ASSUME Inv, NEW t \in Threads, Request(t) \/ Step(t) \/ RequestError(t), NEW s \in Threads
  PROVE  JobSet(s)'
<1>1. PICK l \in Labels, j \in Jobs({0, 1, 3}) : Advances(t, l, j) BY Advance
<1>2. CASE s = t BY <1>1, <1>2 DEF Advances, Arrives, Fits, JobSet
<1>3. CASE s # t BY <1>1, <1>3 DEF Advances, Arrives, Moves, Inv, ThreadInv, JobSet
<1> QED BY <1>2, <1>3

LEMMA ChunkOwnersStep ==
  ASSUME Inv, NEW t \in Threads, Request(t) \/ Step(t) \/ RequestError(t), NEW s \in Threads
  PROVE  OwnsChunk(s)'
<1>0. Next /\ [Next]_vars BY DEF Next
<1>1. PICK l \in Labels, j \in Jobs({0, 1, 3}) : Advances(t, l, j) BY Advance
<1>2. /\ \A r \in Threads \ {t} : pc'[r] = pc[r] /\ job'[r] = job[r]
      /\ pc'[t] = l /\ job'[t] = j /\ Fits(l, j)
  BY <1>1 DEF Advances, Arrives, Moves
<1>3. Fits(pc'[s], job'[s])
  <2>1. CASE s = t BY <1>2, <2>1
  <2>2. CASE s # t BY <1>2, <2>2, ThreadFits
  <2> QED BY <2>1, <2>2
<1>4. CASE pc'[s] \notin {"putLock", "putInsert"} BY <1>4 DEF OwnsChunk
<1>5. CASE pc'[s] = "putLock"
  <2>1. PICK u \in Uploads : u = job'[s].u BY <1>3, <1>5 DEF Fits
  <2>2. ustate'[u] # None BY <1>0, <1>3, <1>5, <2>1, UploadsStep DEF Fits
  <2>3. job'[s].flag # 0 => Received(u)' BY <1>0, <1>3, <1>5, <2>1, ReceivedStays DEF Fits
  <2> QED BY <1>5, <2>1, <2>2, <2>3 DEF OwnsChunk, Received
<1>6. CASE pc'[s] = "putInsert"
  <2>1. PICK u \in Uploads, i \in Chunks, d \in Data :
          u = job'[s].u /\ i = job'[s].i /\ d = job'[s].d
    BY <1>3, <1>6 DEF Fits
  <2>2. ustate'[u] # None BY <1>0, <1>3, <1>6, <2>1, UploadsStep DEF Fits
  <2>3. /\ job'[s].flag = 0 /\ chunkRow'[u][i] = None /\ chunkFile'[u][i] = d
        /\ \A r \in Threads \ {s} : ~(pc'[r] = "putInsert" /\ job'[r].u = u)
    <3>1. CASE s = t
      <4>1. PutPlace(t) /\ job'[t] = job[t] /\ pc'[t] # "idle"
        BY <1>1, <1>2, <1>6, <3>1 DEF Advances
      <4>2. /\ chunkRow' = chunkRow /\ chunkFile' = [chunkFile EXCEPT ![u][i] = d]
            /\ chunkRow[u][i] = None /\ job[t].flag = 0
            /\ \A r \in Threads : ~(pc[r] = "putInsert" /\ job[r].u = u)
        <5>1. PICK v \in Uploads, k \in Chunks, e \in Data :
                /\ v = job[t].u /\ k = job[t].i /\ e = job[t].d
                /\ chunkRow' = chunkRow /\ chunkFile' = [chunkFile EXCEPT ![v][k] = e]
                /\ chunkRow[v][k] = None /\ job[t].flag = 0
                /\ \A r \in Threads : ~(pc[r] = "putInsert" /\ job[r].u = v)
          BY <4>1, PutFacts
        <5>2. v = u /\ k = i /\ e = d BY <2>1, <3>1, <4>1, <5>1
        <5> QED BY <5>1, <5>2
      <4>3. chunkFile'[u][i] = d BY <4>2, Typed DEF TypeOK, StateTypeOK
      <4> QED BY <1>2, <3>1, <4>1, <4>2, <4>3
    <3>2. CASE s # t
      <4>1. /\ pc[s] = "putInsert" /\ u = job[s].u /\ i = job[s].i /\ d = job[s].d
            /\ job'[s] = job[s]
        BY <1>2, <1>6, <2>1, <3>2
      <4>2. /\ job[s].flag = 0 /\ chunkRow[u][i] = None /\ chunkFile[u][i] = d
            /\ \A r \in Threads \ {s} : ~(pc[r] = "putInsert" /\ job[r].u = u)
        BY <4>1 DEF Inv, ThreadInv, OwnsChunk
      <4>3. pc'[t] = "putInsert" => job'[t].u # u
        <5>1. SUFFICES ASSUME pc'[t] = "putInsert" PROVE job'[t].u # u OBVIOUS
        <5>2. PutPlace(t) /\ job'[t] = job[t] /\ pc'[t] # "idle" BY <1>1, <1>2, <5>1 DEF Advances
        <5>3. ~(pc[s] = "putInsert" /\ job[s].u = job[t].u) BY <5>2, PutFacts
        <5> QED BY <4>1, <5>2, <5>3
      <4>4. chunkRow'[u] = chunkRow[u] /\ chunkFile'[u] = chunkFile[u]
        <5>1. CASE UNCHANGED <<chunkRow, chunkFile>> BY <5>1
        <5>2. CASE PutPlace(t)
          <6>1. PICK v \in Uploads, k \in Chunks, e \in Data :
                  /\ chunkRow' = chunkRow
                  /\ \/ chunkFile' = chunkFile
                     \/ /\ chunkFile' = [chunkFile EXCEPT ![v][k] = e]
                        /\ \A r \in Threads : ~(pc[r] = "putInsert" /\ job[r].u = v)
            BY <5>2, PutFacts
          <6>2. chunkFile' = [chunkFile EXCEPT ![v][k] = e] /\ v # u => chunkFile'[u] = chunkFile[u]
            BY Typed DEF TypeOK, StateTypeOK
          <6> QED BY <4>1, <6>1, <6>2
        <5>3. CASE PutInsert(t)
          <6>1. PICK v \in Uploads, k \in Chunks, e \in Data :
                  /\ v = job[t].u /\ pc[t] = "putInsert"
                  /\ chunkFile' = chunkFile /\ chunkRow' = [chunkRow EXCEPT ![v][k] = e]
            BY <5>3, PutFacts
          <6>2. v # u BY <3>2, <4>2, <6>1
          <6> QED BY <6>1, <6>2, Typed DEF TypeOK, StateTypeOK
        <5> QED BY <5>1, <5>2, <5>3, ThreadChunks
      <4>5. \A r \in Threads \ {s} : ~(pc'[r] = "putInsert" /\ job'[r].u = u)
        BY <1>2, <4>2, <4>3
      <4> QED BY <4>1, <4>2, <4>4, <4>5
    <3> QED BY <3>1, <3>2
  <2> QED BY <1>6, <2>1, <2>2, <2>3 DEF OwnsChunk
<1> QED BY <1>4, <1>5, <1>6

LEMMA UploadOwnersStep ==
  ASSUME Inv, NEW t \in Threads, Request(t) \/ Step(t) \/ RequestError(t), NEW s \in Threads
  PROVE  OwnsUpload(s)'
<1>0. Next /\ [Next]_vars BY DEF Next
<1>1. PICK l \in Labels, j \in Jobs({0, 1, 3}) : Advances(t, l, j) BY Advance
<1>2. /\ \A r \in Threads \ {t} : pc'[r] = pc[r] /\ job'[r] = job[r]
      /\ pc'[t] = l /\ job'[t] = j /\ Fits(l, j)
  BY <1>1 DEF Advances, Arrives, Moves
<1>3. Fits(pc'[s], job'[s])
  <2>1. CASE s = t BY <1>2, <2>1
  <2>2. CASE s # t BY <1>2, <2>2, ThreadFits
  <2> QED BY <2>1, <2>2
<1>4. CASE pc'[s] \notin Hashed \cup {"dropLock"} BY <1>4, LabelFacts DEF OwnsUpload
<1>5. CASE pc'[s] \in Hashed
  <2>1. PICK u \in Uploads : u = job'[s].u BY <1>3, <1>5 DEF Fits
  <2>2. Received(u) /\ Digest[chunkRow[u]] = job'[s].h BY <1>3, <1>5, <2>1 DEF Fits
  <2>3. Received(u)' /\ chunkRow'[u] = chunkRow[u] BY <1>0, <2>2, ReceivedStays
  <2>4. pc'[s] \in {"acquire", "commit"} => ustate'[u] = "open"
    <3>1. CASE s = t BY <1>1, <1>2, <2>1, <3>1 DEF Advances
    <3>2. CASE s # t /\ pc'[s] \in {"acquire", "commit"}
      <4>1. pc[s] \in {"acquire", "commit"} /\ job[s].u = u BY <1>2, <2>1, <3>2
      <4>2. ustate[u] = "open" /\ pc[t] \notin Exclude
        BY <3>2, <4>1, LabelFacts DEF Inv, ThreadInv, OwnsUpload, OwnsGcLock
      <4> QED BY <4>2, Quiet
    <3> QED BY <3>1, <3>2
  <2>5. pc'[s] # "dropLock" BY <1>5, LabelFacts
  <2> QED BY <2>1, <2>2, <2>3, <2>4, <2>5 DEF OwnsUpload, Received
<1>6. CASE pc'[s] = "dropLock"
  <2>1. PICK u \in Uploads : u = job'[s].u BY <1>3, <1>6, LabelFacts DEF Fits
  <2>2. pc'[t] = "dropLock" => ustate[job'[t].u] = "open"
    BY <1>1, <1>2, CommitFacts DEF Advances
  <2>3. /\ ustate'[u] = "finalized" /\ gen'[u] = 0
        /\ \A r \in Threads \ {s} : ~(pc'[r] = "dropLock" /\ job'[r].u = u)
    <3>1. CASE s = t
      <4>1. Commit(t) /\ job'[t] = job[t] BY <1>1, <1>2, <1>6, <3>1 DEF Advances
      <4>2. ustate[u] = "open" /\ ustate' = [ustate EXCEPT ![u] = "finalized"]
        BY <2>1, <3>1, <4>1, CommitFacts
      <4>3. ustate'[u] = "finalized" BY <4>2, Typed DEF TypeOK, StateTypeOK
      <4>4. gen'[u] = 0 BY <4>1, <4>2 DEF Commit, Inv, UploadInv
      <4>5. \A r \in Threads : pc[r] = "dropLock" => ustate[job[r].u] = "finalized"
        BY DEF Inv, ThreadInv, OwnsUpload
      <4>6. \A r \in Threads \ {s} : ~(pc'[r] = "dropLock" /\ job'[r].u = u)
        BY <1>2, <3>1, <4>2, <4>5
      <4> QED BY <4>3, <4>4, <4>6
    <3>2. CASE s # t
      <4>1. pc[s] = "dropLock" /\ job[s].u = u BY <1>2, <1>6, <2>1, <3>2
      <4>2. /\ ustate[u] = "finalized" /\ gen[u] = 0
            /\ \A r \in Threads \ {s} : ~(pc[r] = "dropLock" /\ job[r].u = u)
        BY <4>1 DEF Inv, ThreadInv, OwnsUpload
      <4>3. ustate'[u] = "finalized" BY <1>0, <4>2, UploadsStep
      <4>4. gen'[u] = gen[u]
        <5>1. CASE DropLock(t)
          <6>1. pc[t] = "dropLock" /\ gen' = [gen EXCEPT ![job[t].u] = gen[job[t].u] + 1]
            BY <5>1 DEF DropLock
          <6>2. job[t].u # u BY <3>2, <4>2, <6>1
          <6> QED BY <6>1, <6>2, Typed DEF TypeOK
        <5>2. CASE ~DropLock(t) BY <5>2, ThreadGen
        <5> QED BY <5>1, <5>2
      <4>5. \A r \in Threads \ {s} : ~(pc'[r] = "dropLock" /\ job'[r].u = u)
        BY <1>2, <2>2, <4>2
      <4> QED BY <4>2, <4>3, <4>4, <4>5
    <3> QED BY <3>1, <3>2
  <2> QED BY <1>6, <2>1, <2>3, LabelFacts DEF OwnsUpload
<1> QED BY <1>4, <1>5, <1>6

LEMMA GcLockOwnersStep ==
  ASSUME Inv, NEW t \in Threads, Request(t) \/ Step(t) \/ RequestError(t), NEW s \in Threads
  PROVE  OwnsGcLock(s)'
<1>1. PICK l \in Labels, j \in Jobs({0, 1, 3}) : Advances(t, l, j) BY Advance
<1>2. /\ \A r \in Threads \ {t} : pc'[r] = pc[r] /\ job'[r] = job[r]
      /\ pc'[t] = l /\ job'[t] = j
  BY <1>1 DEF Advances, Arrives, Moves
<1>3. CASE s = t
  <2>1. pc'[s] \in Exclude => \A r \in Threads \ {s} : pc'[r] \notin Exclude
    <3>1. pc[t] \in Exclude => \A r \in Threads \ {t} : pc[r] \notin Exclude
      BY DEF Inv, ThreadInv, OwnsGcLock
    <3> QED BY <1>1, <1>2, <1>3, <3>1 DEF Advances
  <2> QED BY <1>1, <1>2, <1>3, <2>1 DEF Advances, OwnsGcLock
<1>4. CASE s # t /\ pc[s] \in Exclude
  <2>1. OwnsGcLock(s) /\ \A r \in Threads \ {s} : pc[r] \notin Exclude
    BY <1>4 DEF Inv, ThreadInv, OwnsGcLock
  <2>2. UNCHANGED <<blob, files>> BY <1>4, <2>1, Quiet
  <2>3. \A r \in Threads \ {s} : pc'[r] \notin Exclude BY <1>1, <1>2, <1>4, <2>1 DEF Advances
  <2> QED BY <1>2, <1>4, <2>1, <2>2, <2>3 DEF OwnsGcLock
<1>5. CASE s # t /\ pc[s] \notin Exclude BY <1>2, <1>5, LabelFacts DEF OwnsGcLock
<1> QED BY <1>3, <1>4, <1>5

(* What creating and deleting leave alone.                                 *)
LEMMA Undisturbed ==
  ASSUME Inv, NEW u \in Uploads, CreateUpload(u) \/ DeleteArtifact(u)
  PROVE  /\ UNCHANGED <<pc, job, chunkRow, chunkFile, files, gen, crashes>>
         /\ \A v \in Uploads : ustate[v] # None => ustate'[v] = ustate[v]
         /\ \A h \in Hashes : blob'[h] = None <=> blob[h] = None
<1> USE DEF upVars, rowVars
<1>1. CASE CreateUpload(u) BY <1>1, Typed DEF CreateUpload, TypeOK, StateTypeOK
<1>2. CASE DeleteArtifact(u)
  <2>1. PICK h \in Hashes : h = artifact[u]
    BY <1>2, Typed DEF DeleteArtifact, TypeOK, StateTypeOK
  <2>2. blob[h] # None BY <1>2, <2>1, TablesHold DEF DeleteArtifact, Tables, RefcountExact, Refs
  <2>3. PICK r \in Row, n \in Int : r = blob[h] /\ n = blob[h].refs - 1
    <3>1. blob[h].refs - 1 \in Int BY <2>2, Rows
    <3> QED BY <2>2, <3>1, Rows
  <2>4. [r EXCEPT !.refs = n] \in Row BY ONLY r \in Row, n \in Int DEF Row
  <2>5. blob' = [blob EXCEPT ![h] = [r EXCEPT !.refs = n]]
    BY <1>2, <2>1, <2>2, <2>3 DEF DeleteArtifact, SetRow
  <2> DEFINE new == [r EXCEPT !.refs = n]
  <2>6. new # None /\ blob' = [blob EXCEPT ![h] = new] BY <2>4, <2>5, NoneFresh
  <2> HIDE DEF new
  <2>7. \A g \in Hashes : blob'[g] = IF g = h THEN new ELSE blob[g]
    BY <2>6, TablesHold DEF Tables
  <2>8. \A g \in Hashes : blob'[g] = None <=> blob[g] = None BY <2>2, <2>6, <2>7
  <2> QED BY <1>2, <2>8 DEF DeleteArtifact
<1> QED BY <1>1, <1>2

LEMMA ThreadStep ==
  ASSUME Inv, [Next]_vars
  PROVE  /\ \A s \in Threads : ThreadInv(s)'
         /\ pc' \in [Threads -> Labels] /\ job' \in [Threads -> Jobs({0, 1, 3})]
<1>0. /\ pc \in [Threads -> Labels] /\ job \in [Threads -> Jobs({0, 1, 3})]
      /\ \A s \in Threads : ThreadInv(s)
  BY DEF Inv, TypeOK, StateTypeOK
<1>1. ASSUME NEW t \in Threads, Request(t) \/ Step(t) \/ RequestError(t)
      PROVE  /\ \A s \in Threads : ThreadInv(s)'
             /\ pc' \in [Threads -> Labels] /\ job' \in [Threads -> Jobs({0, 1, 3})]
  <2>1. PICK l \in Labels, j \in Jobs({0, 1, 3}) : Advances(t, l, j) BY <1>1, Advance
  <2>2. pc' \in [Threads -> Labels] /\ job' \in [Threads -> Jobs({0, 1, 3})]
    BY <2>1 DEF Advances, Arrives, Moves
  <2>3. \A s \in Threads : ThreadInv(s)'
    BY <1>1, JobsStep, ChunkOwnersStep, UploadOwnersStep, GcLockOwnersStep DEF ThreadInv
  <2> QED BY <2>2, <2>3
<1>2. ASSUME UNCHANGED <<pc, job, chunkRow, chunkFile, files, gen>>,
             \A v \in Uploads : ustate[v] # None => ustate'[v] = ustate[v],
             \A h \in Hashes : blob'[h] = None <=> blob[h] = None
      PROVE  \A s \in Threads : ThreadInv(s)'
  <2> SUFFICES ASSUME NEW s \in Threads PROVE ThreadInv(s)' OBVIOUS
  <2>1. JobSet(s)' BY <1>0, <1>2 DEF ThreadInv, JobSet
  <2>2. OwnsChunk(s)' BY <1>0, <1>2 DEF ThreadInv, OwnsChunk, JobSet, Received
  <2>3. OwnsUpload(s)'
    <3>1. JobSet(s) /\ OwnsUpload(s) BY <1>0 DEF ThreadInv
    <3>2. "open" # None /\ "finalized" # None BY NoneFresh DEF States
    <3>3. pc[s] \in Hashed \cup {"dropLock"} => job[s].u \in Uploads BY <3>1 DEF JobSet
    <3> QED BY <1>2, <3>1, <3>2, <3>3, LabelFacts DEF OwnsUpload, Received
  <2>4. OwnsGcLock(s)'
    <3>1. job[s].todo \subseteq Hashes BY ThreadFits
    <3> QED BY <1>0, <1>2, <3>1 DEF ThreadInv, OwnsGcLock
  <2> QED BY <2>1, <2>2, <2>3, <2>4 DEF ThreadInv
<1>3. CASE Restart
  <2>1. /\ \A s \in Threads : pc'[s] = "idle"
        /\ pc' \in [Threads -> Labels] /\ job' \in [Threads -> Jobs({0, 1, 3})]
    BY <1>3, NoJobIsJob DEF Restart, Killed, Labels
  <2> QED BY <2>1, LabelFacts DEF ThreadInv, JobSet, OwnsChunk, OwnsUpload, OwnsGcLock
<1>4. CASE \E u \in Uploads : CreateUpload(u) \/ DeleteArtifact(u)
  BY <1>0, <1>2, <1>4, Undisturbed
<1>5. CASE UNCHANGED vars BY <1>0, <1>2, <1>5 DEF vars, upVars, rowVars
<1> QED BY <1>1, <1>3, <1>4, <1>5 DEF Next

-----------------------------------------------------------------------------
(* The invariant.                                                          *)

LEMMA CrashesStep ==
  ASSUME Inv, [Next]_vars
  PROVE  crashes' \in 0..MaxCrashes
<1>0. crashes \in 0..MaxCrashes /\ MaxCrashes \in Nat
  BY Typed, CrashesAssumption DEF TypeOK, StateTypeOK
<1>1. ASSUME NEW t \in Threads, Request(t) \/ RequestError(t) PROVE crashes' = crashes
  BY <1>1 DEF Request, PutCheck, FinalizeRead, GcLock, ValidateLock, RequestError
<1>2. ASSUME NEW t \in Threads, Step(t) PROVE crashes' = crashes
  BY <1>2 DEF Step, PutPlace, PutInsert, Assemble, LockUpload, LockGc, Claim, Acquire, Commit,
         DropLock, GcTx, ValidateSet, PassEnd, GcUnlink, ValidateRead
<1>3. CASE Restart
  <2>1. crashes < MaxCrashes /\ crashes' = crashes + 1 BY <1>3 DEF Restart, Killed
  <2> QED BY <1>0, <2>1
<1>4. CASE UNCHANGED vars BY <1>0, <1>4 DEF vars
<1>5. CASE \E u \in Uploads : CreateUpload(u) \/ DeleteArtifact(u)
  BY <1>0, <1>5, Undisturbed
<1> QED BY <1>0, <1>1, <1>2, <1>3, <1>4, <1>5 DEF Next

LEMMA InvInit == Init => Inv
<1> SUFFICES ASSUME Init PROVE Inv OBVIOUS
<1> USE DEF Init, InitState
<1>1. TypeOK
  BY CrashesAssumption, NoJobIsJob DEF TypeOK, StateTypeOK, Labels
<1>2. \A t \in Threads : ThreadInv(t)
  BY LabelFacts DEF ThreadInv, JobSet, OwnsChunk, OwnsUpload, OwnsGcLock
<1>3. \A u \in Uploads : UploadInv(u) BY NoneFresh DEF UploadInv, States
<1>4. ChunkBytesKept /\ ArtifactIsItsChunks /\ RowHasFile
  BY DEF ChunkBytesKept, ArtifactIsItsChunks, RowHasFile
<1>5. RefcountExact
  <2>1. \A h \in Hashes : Refs(h) = {} BY NoneFresh DEF Refs
  <2> QED BY <2>1 DEF RefcountExact
<1> QED BY <1>1, <1>2, <1>3, <1>4, <1>5 DEF Inv

LEMMA InvStep == Inv /\ [Next]_vars => Inv'
<1> SUFFICES ASSUME Inv, [Next]_vars PROVE Inv' OBVIOUS
<1>1. TypeOK'
  BY UploadsStep, ChunksStep, TablesStep, FilesStep, ThreadStep, CrashesStep
     DEF TypeOK, StateTypeOK, Tables
<1> QED BY <1>1, UploadsStep, ChunksStep, ArtifactsStep, TablesStep, FilesStep, ThreadStep
        DEF Inv, Tables

(* The inductive invariant of QwenVaultA.tla holds throughout.             *)
THEOREM Invariance == Spec => []Inv
BY InvInit, InvStep, PTL DEF Spec

(* Every variable keeps its type; an upload's lock is dropped from the     *)
(* registry of locks.py once at most between two starts.                   *)
THEOREM TypeCorrect == Spec => []TypeOK
<1>1. Inv => TypeOK BY Typed
<1> QED BY <1>1, Invariance, PTL

(* A recorded chunk's file holds its bytes although finalize drops the     *)
(* lock a PUT may still wait for.                                          *)
THEOREM ChunksKept == Spec => []ChunkBytesKept
<1>1. Inv => ChunkBytesKept BY DEF Inv
<1> QED BY <1>1, Invariance, PTL

(* validate marks no row missing whose file is there.                      *)
THEOREM NoFalseAlarms == Spec => []NoFalseAlarm
<1>1. Inv => NoFalseAlarm BY DEF Inv, RowHasFile, NoFalseAlarm
<1> QED BY <1>1, Invariance, PTL

-----------------------------------------------------------------------------
(* The store implements VaultContract: each step is a step of the contract *)
(* or changes nothing a client of the contract sees.                       *)

(* What ImplementsContract maps to the contract's status.                  *)
Status == [u \in Uploads |->
             IF ustate[u] = None THEN "absent"
             ELSE IF artifact[u] # None THEN "live"
             ELSE IF ustate[u] = "finalized" THEN "gone" ELSE "open"]

LEMMA StateNotNone == \A s \in States : s # None
BY NoneFresh

LEMMA Invisible ==
  ASSUME UNCHANGED <<ustate, chunkRow, artifact, files>>
  PROVE  [Contract!Next]_Contract!vars
BY DEF Contract!vars

LEMMA InitImplements == Init => Contract!Init
BY DEF Init, InitState, Contract!Init

(* Creating an upload opens it, deleting an artifact removes it.           *)
LEMMA UploadImplements ==
  ASSUME Inv, NEW u \in Uploads, CreateUpload(u) \/ DeleteArtifact(u)
  PROVE  Contract!Next
<1> USE DEF upVars, rowVars
<1>1. CASE CreateUpload(u)
  <2>1. artifact[u] = None BY <1>1, StateNotNone DEF CreateUpload, Inv, UploadInv, States
  <2>2. Status' = [Status EXCEPT ![u] = "open"] /\ Status[u] = "absent"
    BY <1>1, <2>1, StateNotNone, Typed DEF CreateUpload, Status, States, TypeOK, StateTypeOK
  <2>3. Contract!Open(u) BY <1>1, <2>2 DEF Contract!Open, CreateUpload, Status
  <2> QED BY <2>3 DEF Contract!Next
<1>2. CASE DeleteArtifact(u)
  <2>1. \A v \in Uploads : artifact'[v] = IF v = u THEN None ELSE artifact[v]
    BY <1>2, Typed DEF DeleteArtifact, TypeOK, StateTypeOK
  <2>2. ustate[u] = "finalized" /\ artifact[u] # None BY <1>2 DEF DeleteArtifact, Inv, UploadInv
  <2>3. Status[u] = "live" /\ Status' = [Status EXCEPT ![u] = "gone"]
    BY <1>2, <2>1, <2>2, StateNotNone DEF DeleteArtifact, Status, States
  <2>4. Contract!Remove(u) BY <1>2, <2>3 DEF DeleteArtifact, Contract!Remove, Status
  <2> QED BY <2>4 DEF Contract!Next
<1> QED BY <1>1, <1>2

(* The first bytes recorded for a chunk are received.                      *)
LEMMA InsertImplements ==
  ASSUME Inv, NEW t \in Threads, PutInsert(t)
  PROVE  Contract!Next
<1>1. PICK u \in Uploads, i \in Chunks, d \in Data :
        /\ chunkRow' = [chunkRow EXCEPT ![u][i] = d] /\ chunkRow[u][i] = None /\ ustate[u] # None
  BY PutFacts
<1>2. UNCHANGED <<ustate, artifact, files>> BY DEF PutInsert, rowVars
<1>3. ustate[u] # "finalized" BY <1>1 DEF Inv, UploadInv, Received
<1>4. artifact[u] = None BY <1>3 DEF Inv, UploadInv
<1>5. Status[u] = "open" /\ Status' = Status BY <1>1, <1>2, <1>3, <1>4 DEF Status
<1>6. Contract!Receive(u, i, d) BY <1>1, <1>2, <1>5 DEF Contract!Receive, Status
<1> QED BY <1>6 DEF Contract!Next

(* A commit publishes a complete upload whose bytes are held.              *)
LEMMA CommitImplements ==
  ASSUME Inv, NEW t \in Threads, Commit(t)
  PROVE  Contract!Next
<1>1. PICK u \in Uploads, h \in Hashes :
        /\ ustate[u] = "open" /\ artifact[u] = None
        /\ Received(u) /\ Digest[chunkRow[u]] = h /\ h \in files
        /\ artifact' = [artifact EXCEPT ![u] = h] /\ ustate' = [ustate EXCEPT ![u] = "finalized"]
  BY CommitFacts
<1>2. UNCHANGED <<chunkRow, files>> BY DEF Commit
<1>3. chunkRow[u] \in Contents BY <1>1, Typed DEF Received, TypeOK, StateTypeOK, Contents
<1>4. Status[u] = "open" BY <1>1, StateNotNone DEF Status, States
<1>5. \A v \in Uploads : /\ ustate'[v] = IF v = u THEN "finalized" ELSE ustate[v]
                         /\ artifact'[v] = IF v = u THEN h ELSE artifact[v]
  BY <1>1, Typed DEF TypeOK, StateTypeOK
<1>6. Status' = [Status EXCEPT ![u] = "live"] BY <1>5, NoneFresh, StateNotNone DEF Status, States
<1>7. Contract!Publish(u)
  BY <1>1, <1>2, <1>3, <1>4, <1>6
  DEF Contract!Publish, Contract!HashOf, Contract!Contents, Contents, Status
<1> QED BY <1>7 DEF Contract!Next

(* Whatever keeps the files of the rows collects.                          *)
LEMMA KeepsRows ==
  ASSUME Inv, UNCHANGED <<ustate, chunkRow, artifact>>, files' \subseteq files,
         \A h \in files : blob[h] # None => h \in files'
  PROVE  Contract!Next
<1>1. ASSUME NEW u \in Uploads, Status[u] = "live" PROVE Digest[chunkRow[u]] \in files'
  <2>1. artifact[u] # None BY <1>1 DEF Status
  <2>2. PICK h \in Hashes : h = artifact[u] BY <2>1, Typed DEF TypeOK, StateTypeOK
  <2>3. h = Digest[chunkRow[u]] BY <2>1, <2>2 DEF Inv, ArtifactIsItsChunks
  <2>4. blob[h] # None BY <2>2, TablesHold DEF Tables, RefcountExact, Refs
  <2> QED BY <2>3, <2>4, Rows
<1>2. Contract!Collect BY <1>1 DEF Contract!Collect, Contract!Live, Contract!HashOf, Status
<1> QED BY <1>2 DEF Contract!Next

LEMMA ThreadImplements ==
  ASSUME Inv, NEW t \in Threads, Request(t) \/ Step(t) \/ RequestError(t)
  PROVE  [Contract!Next]_Contract!vars
<1> USE DEF upVars, rowVars
<1>1. CASE Request(t) \/ RequestError(t)
  <2>1. UNCHANGED <<ustate, chunkRow, artifact, files>>
    BY <1>1 DEF Request, PutCheck, FinalizeRead, GcLock, ValidateLock, RequestError
  <2> QED BY <2>1, Invisible
<1>2. CASE \/ PutPlace(t) \/ Assemble(t) \/ LockUpload(t) \/ LockGc(t) \/ Claim(t)
           \/ DropLock(t) \/ GcTx(t) \/ ValidateSet(t) \/ PassEnd(t)
           \/ \E h \in Hashes : ValidateRead(t, h)
  <2>1. UNCHANGED <<ustate, chunkRow, artifact, files>>
    BY <1>2 DEF PutPlace, Assemble, LockUpload, LockGc, Claim, DropLock, GcTx, ValidateSet,
           PassEnd, ValidateRead
  <2> QED BY <2>1, Invisible
<1>3. CASE Acquire(t)
  <2>1. job[t].h \in Hashes BY <1>3, LabelFacts, ThreadFits DEF Fits, Acquire
  <2>2. files' \in SUBSET Contract!Hashes /\ files \subseteq files'
    BY <1>3, <2>1, Typed
    DEF Acquire, TypeOK, StateTypeOK, Hashes, Contents, Contract!Hashes, Contract!Contents
  <2>3. Contract!Store BY <1>3, <2>2 DEF Acquire, Contract!Store
  <2> QED BY <2>3 DEF Contract!Next
<1>4. ASSUME NEW h \in Hashes, GcUnlink(t, h) PROVE Contract!Next
  <2>1. UNCHANGED <<ustate, chunkRow, artifact>> BY <1>4 DEF GcUnlink
  <2> QED BY <1>4, <2>1, UnlinkFacts, KeepsRows
<1> QED BY <1>1, <1>2, <1>3, <1>4, InsertImplements, CommitImplements DEF Step

(* The store implements the contract of vaultdrop/product.md: at most one  *)
(* artifact per upload, made of the first bytes recorded for each chunk,   *)
(* published only once its bytes are held, and held until it is removed.   *)
THEOREM Implements == Spec => ImplementsContract
<1>1. Init => Contract!Init BY InitImplements
<1>2. Inv /\ [Next]_vars => [Contract!Next]_Contract!vars
  <2> SUFFICES ASSUME Inv, [Next]_vars PROVE [Contract!Next]_Contract!vars
    OBVIOUS
  <2>1. CASE UNCHANGED vars BY <2>1, Invisible DEF vars, upVars, rowVars
  <2>2. CASE Restart
    <3>1. /\ UNCHANGED <<ustate, chunkRow, artifact>>
          /\ files' = {h \in files : blob[h] # None}
      BY <2>2 DEF Restart, rowVars
    <3> QED BY <3>1, KeepsRows
  <2> QED BY <2>1, <2>2, UploadImplements, ThreadImplements DEF Next
<1> QED BY <1>1, <1>2, Invariance, PTL DEF Spec, ImplementsContract, Contract!Spec
-----------------------------------------------------------------------------
(* What the contract promises of an upload and of its artifact holds from  *)
(* one step to the next.                                                   *)
LEMMA Promises ==
  ASSUME chunkRow \in [Uploads -> [Chunks -> Data \cup {None}]], [Contract!Next]_Contract!vars,
         NEW u \in Uploads
  PROVE  /\ \A i \in Chunks : chunkRow[u][i] # None => chunkRow'[u][i] = chunkRow[u][i]
         /\ Status[u] \in {"live", "gone"} =>
              chunkRow'[u] = chunkRow[u] /\ Status'[u] \in {Status[u], "gone"}
<1> DEFINE Kept == /\ \A i \in Chunks : chunkRow[u][i] # None => chunkRow'[u][i] = chunkRow[u][i]
                   /\ Status[u] \in {"live", "gone"} =>
                        chunkRow'[u] = chunkRow[u] /\ Status'[u] \in {Status[u], "gone"}
<1>1. Status \in [Uploads -> {"absent", "open", "live", "gone"}] BY DEF Status
<1>2. ASSUME NEW v \in Uploads, Contract!Open(v) PROVE Kept
  <2>1. /\ Status[v] = "absent" /\ Status' = [Status EXCEPT ![v] = "open"]
        /\ chunkRow' = chunkRow
    BY <1>2 DEF Contract!Open, Status
  <2> QED BY <1>1, <2>1
<1>3. ASSUME NEW v \in Uploads, Contract!Publish(v) PROVE Kept
  <2>1. /\ Status[v] = "open" /\ Status' = [Status EXCEPT ![v] = "live"]
        /\ chunkRow' = chunkRow
    BY <1>3 DEF Contract!Publish, Status
  <2> QED BY <1>1, <2>1
<1>4. ASSUME NEW v \in Uploads, Contract!Remove(v) PROVE Kept
  <2>1. Status' = [Status EXCEPT ![v] = "gone"] /\ chunkRow' = chunkRow
    BY <1>4 DEF Contract!Remove, Status
  <2> QED BY <1>1, <2>1
<1>5. ASSUME NEW v \in Uploads, NEW j \in Chunks, NEW d \in Data, Contract!Receive(v, j, d)
      PROVE  Kept
  <2>1. /\ Status[v] = "open" /\ Status' = Status
        /\ chunkRow[v][j] = None /\ chunkRow' = [chunkRow EXCEPT ![v][j] = d]
    BY <1>5 DEF Contract!Receive, Status
  <2> QED BY <1>1, <2>1
<1>6. CASE Contract!Store \/ Contract!Collect \/ UNCHANGED Contract!vars
  <2>1. Status' = Status /\ chunkRow' = chunkRow
    BY <1>6 DEF Contract!Store, Contract!Collect, Contract!vars, Status
  <2> QED BY <2>1
<1> QED BY <1>2, <1>3, <1>4, <1>5, <1>6 DEF Contract!Next

(* The bytes first accepted for a chunk are final, and an artifact never   *)
(* changes and is published once: by the contract, whatever the store does *)
(* beneath it.                                                             *)
THEOREM Immutable == Spec => Contract!FirstBytesFinal /\ Contract!PublishedOnce
<1>1. Inv /\ [Contract!Next]_Contract!vars =>
        [\A u \in Uploads, i \in Chunks :
           chunkRow[u][i] # None => chunkRow'[u][i] = chunkRow[u][i]]_(Contract!vars)
  BY Promises DEF Inv, TypeOK, StateTypeOK
<1>2. Inv /\ [Contract!Next]_Contract!vars =>
        [\A u \in Uploads : Status[u] \in {"live", "gone"} =>
           chunkRow'[u] = chunkRow[u] /\ Status'[u] \in {Status[u], "gone"}]_(Contract!vars)
  BY Promises DEF Inv, TypeOK, StateTypeOK
<1> QED
  BY <1>1, <1>2, Implements, Invariance, PTL
  DEF ImplementsContract, Contract!Spec, Contract!FirstBytesFinal, Contract!PublishedOnce, Status

(* A step of the contract leaves every live artifact with its bytes.       *)
LEMMA KeepsLive ==
  ASSUME chunkRow \in [Uploads -> [Chunks -> Data \cup {None}]], [Contract!Next]_Contract!vars,
         Contract!LiveKept
  PROVE  Contract!LiveKept'
<1> DEFINE Kept(u) == chunkRow[u] \in Contents /\ Digest[chunkRow[u]] \in files
<1>1. \A u \in Uploads : Status[u] = "live" => Kept(u)
  BY DEF Contract!LiveKept, Contract!Live, Contract!HashOf, Contract!Contents, Contents, Status
<1>2. ASSUME NEW u \in Uploads, Status'[u] = "live"
      PROVE  chunkRow'[u] \in Contents /\ Digest[chunkRow'[u]] \in files'
  <2>1. CASE Status[u] = "live"
    <3>1. chunkRow'[u] = chunkRow[u] BY <2>1, Promises
    <3>2. CASE Contract!Collect
      BY <2>1, <1>1, <3>1, <3>2 DEF Contract!Collect, Contract!Live, Contract!HashOf, Status
    <3>3. CASE ~Contract!Collect
      <4>1. files \subseteq files'
        BY <3>3 DEF Contract!Next, Contract!Open, Contract!Publish, Contract!Remove,
             Contract!Receive, Contract!Store, Contract!vars
      <4> QED BY <2>1, <1>1, <3>1, <4>1
    <3> QED BY <3>2, <3>3
  <2>2. CASE Status[u] # "live"
    <3>1. Contract!Publish(u)
      <4>1. Status'[u] # Status[u] /\ Status' # Status BY <1>2, <2>2
      <4>2. ~(Contract!Store \/ Contract!Collect \/ UNCHANGED Contract!vars)
        BY <4>1 DEF Contract!Store, Contract!Collect, Contract!vars, Status
      <4>3. ASSUME NEW v \in Uploads, NEW j \in Chunks, NEW d \in Data
            PROVE  ~Contract!Receive(v, j, d)
        BY <4>1 DEF Contract!Receive, Status
      <4>4. Status \in [Uploads -> {"absent", "open", "live", "gone"}] BY DEF Status
      <4>5. ASSUME NEW v \in Uploads, Contract!Open(v) PROVE FALSE
        <5>1. Status' = [Status EXCEPT ![v] = "open"] BY <4>5 DEF Contract!Open, Status
        <5> QED BY <1>2, <2>2, <4>4, <5>1
      <4>6. ASSUME NEW v \in Uploads, Contract!Remove(v) PROVE FALSE
        <5>1. Status' = [Status EXCEPT ![v] = "gone"] BY <4>6 DEF Contract!Remove, Status
        <5> QED BY <1>2, <2>2, <4>4, <5>1
      <4>7. ASSUME NEW v \in Uploads, v # u, Contract!Publish(v) PROVE FALSE
        <5>1. Status' = [Status EXCEPT ![v] = "live"] BY <4>7 DEF Contract!Publish, Status
        <5> QED BY <1>2, <2>2, <4>4, <4>7, <5>1
      <4> QED BY <4>2, <4>3, <4>5, <4>6, <4>7 DEF Contract!Next
    <3> QED
      BY <3>1 DEF Contract!Publish, Contract!HashOf, Contract!Contents, Contents, Status
  <2> QED BY <2>1, <2>2
<1> QED
  BY <1>2
  DEF Contract!LiveKept, Contract!Live, Contract!HashOf, Contract!Contents, Contents, Status

(* A live artifact is complete and its bytes are held until it is removed. *)
THEOREM HeldWhileLive == Spec => []Contract!LiveKept
<1>1. Contract!Init => Contract!LiveKept
  BY DEF Contract!Init, Contract!LiveKept, Contract!Live
<1>2. Inv /\ Contract!LiveKept /\ [Contract!Next]_Contract!vars => Contract!LiveKept'
  BY KeepsLive DEF Inv, TypeOK, StateTypeOK
<1> QED BY <1>1, <1>2, Implements, Invariance, PTL DEF ImplementsContract, Contract!Spec
=============================================================================

--------------------------- MODULE OpusVaultProofs ---------------------------
(***************************************************************************)
(* Proofs about OpusVault for every set of uploads, chunks, contents and   *)
(* threads, every collision-free digest and any number of kills: Inv is    *)
(* inductive, and the safety properties follow from it.                    *)
(***************************************************************************)
EXTENDS OpusVault, FiniteSetTheorems, TLAPS

(* `None' is no row, hash, state, upload, chunk or content.                *)
LEMMA NoneFresh ==
  /\ None \notin Row /\ None \notin States /\ None \notin Hashes
  /\ None \notin Uploads /\ None \notin Chunks /\ None \notin Data
BY RowAssumption, NoneAssumption

(* Only finitely many artifact rows refer to a hash.                       *)
LEMMA RefsCount ==
  ASSUME NEW h \in Hashes
  PROVE  /\ IsFiniteSet(Refs(h))
         /\ Cardinality(Refs(h)) \in Nat
         /\ Cardinality(Refs(h)) = 0 <=> Refs(h) = {}
<1>1. Refs(h) \subseteq Uploads BY DEF Refs
<1>2. IsFiniteSet(Refs(h)) BY <1>1, UploadsAssumption, FS_Subset
<1> QED BY <1>2, FS_CardinalityType, FS_EmptySet

(* An idle thread relies on nothing.                                       *)
LEMMA IdleNext ==
  ASSUME NEW s \in Threads, pc'[s] = "idle"
  PROVE  ThreadInv(s)'
BY DEF ThreadInv, JobSet, OwnsChunk, OwnsUpload, OwnsBlob, Owning, Verified, Getting, BlobLocked

(* What changing one field of a blobs row makes of the row.                *)
LEMMA RowFields ==
  ASSUME NEW r \in Row
  PROVE  /\ \A n \in Int : [r EXCEPT !.refs = n] \in Row /\ [r EXCEPT !.refs = n].refs = n
         /\ \A v \in {0, 1, -1} : /\ [r EXCEPT !.validated = v] \in Row
                                  /\ [r EXCEPT !.validated = v].refs = r.refs
BY DEF Row

(* What a pass does to its local variables.                                *)
LEMMA FieldsOfJob ==
  ASSUME NEW F, NEW r \in Jobs(F), NEW h \in Hashes, NEW T \in SUBSET Hashes, NEW f \in F
  PROVE  /\ [r EXCEPT !.h = h, !.todo = T] \in Jobs(F)
         /\ [r EXCEPT !.h = h, !.todo = T, !.flag = f] \in Jobs(F)
         /\ [r EXCEPT !.h = h, !.todo = T].h = h
         /\ [r EXCEPT !.h = h, !.todo = T, !.flag = f].h = h
         /\ [r EXCEPT !.h = h, !.todo = T, !.flag = f].flag = f
<1>1. [r EXCEPT !.h = h, !.todo = T] \in Jobs(F) BY DEF Jobs
<1>2. [r EXCEPT !.h = h, !.todo = T, !.flag = f] \in Jobs(F)
  <2> DEFINE q == [r EXCEPT !.h = h, !.todo = T]
  <2>1. [q EXCEPT !.flag = f] \in Jobs(F) BY <1>1 DEF Jobs
  <2>2. [q EXCEPT !.flag = f] = [r EXCEPT !.h = h, !.todo = T, !.flag = f] BY DEF Jobs
  <2> QED BY <2>1, <2>2
<1> QED BY <1>1, <1>2 DEF Jobs

LEMMA NoJobIsJob == NoJob \in Jobs({1, -1})
BY DEF Jobs, NoJob

(* The program counters and local variables after a thread's step.         *)
LEMMA Went ==
  ASSUME TypeOK, NEW t \in Threads, NEW l, Goto(t, l)
  PROVE  /\ \A r \in Threads : pc'[r] = (IF r = t THEN l ELSE pc[r]) /\ job'[r] = job[r]
         /\ job' = job
         /\ l \in Labels => pc' \in [Threads -> Labels] /\ job' \in [Threads -> Jobs({1, -1})]
BY DEF TypeOK, StateTypeOK, Goto

LEMMA Began ==
  ASSUME TypeOK, NEW t \in Threads, NEW l, NEW j, Begin(t, l, j)
  PROVE  /\ \A r \in Threads : /\ pc'[r] = (IF r = t THEN l ELSE pc[r])
                               /\ job'[r] = (IF r = t THEN j ELSE job[r])
         /\ l \in Labels /\ j \in Jobs({1, -1}) =>
              pc' \in [Threads -> Labels] /\ job' \in [Threads -> Jobs({1, -1})]
BY DEF TypeOK, StateTypeOK, Begin

LEMMA Finished ==
  ASSUME TypeOK, NEW t \in Threads, Finish(t)
  PROVE  /\ \A r \in Threads : /\ pc'[r] = (IF r = t THEN "idle" ELSE pc[r])
                               /\ r # t => job'[r] = job[r]
         /\ pc' \in [Threads -> Labels] /\ job' \in [Threads -> Jobs({1, -1})]
<1>1. Begin(t, "idle", NoJob) BY DEF Finish
<1>2. "idle" \in Labels BY DEF Labels
<1> QED BY <1>1, <1>2, Began, NoJobIsJob

-----------------------------------------------------------------------------
(* Every step keeps the types.                                             *)
LEMMA TypeStep ==
  ASSUME Inv, [Next]_vars
  PROVE  TypeOK'
<1> USE DEF Goto, Begin, Finish, Idle, SetRow, upVars, rowVars
<1>1. ASSUME NEW t \in Threads, Request(t) PROVE TypeOK'
  <2>1. ASSUME NEW u \in Uploads, NEW i \in Chunks, NEW d \in Data, PutCheck(t, u, i, d)
       PROVE  TypeOK'
    BY <2>1, NoneFresh DEF Inv, TypeOK, StateTypeOK, Labels, States, Jobs, NoJob, PutCheck
  <2>2. ASSUME NEW u \in Uploads, NEW h \in Hashes, FinalizeBegin(t, u, h)
       PROVE  TypeOK'
    BY <2>2, NoneFresh DEF Inv, TypeOK, StateTypeOK, Labels, States, Jobs, NoJob, FinalizeBegin
  <2>3. ASSUME NEW u \in Uploads, GetRow(t, u) PROVE TypeOK'
    BY <2>3, NoneFresh DEF Inv, TypeOK, StateTypeOK, Labels, States, Jobs, NoJob, GetRow
  <2>4. CASE GcScan(t)
    BY <2>4, NoneFresh DEF Inv, TypeOK, StateTypeOK, Labels, States, Jobs, NoJob, GcScan
  <2>5. CASE ValidateScan(t)
    BY <2>5, NoneFresh DEF Inv, TypeOK, StateTypeOK, Labels, States, Jobs, NoJob, ValidateScan
  <2> QED BY <1>1, <2>1, <2>2, <2>3, <2>4, <2>5 DEF Request
<1>2. ASSUME NEW t \in Threads, Step(t) PROVE TypeOK'
  <2>1. CASE PutPlace(t)
    <3>1. job[t].u \in Uploads /\ job[t].i \in Chunks /\ job[t].d \in Data
      BY <2>1 DEF PutPlace, Inv, ThreadInv, JobSet
    <3>2. TypeOK BY DEF Inv
    <3>3. CASE chunkRow[job[t].u][job[t].i] # None
      <4>1. Finish(t) /\ chunkFile' = chunkFile BY <2>1, <3>3 DEF PutPlace
      <4>2. pc' \in [Threads -> Labels] /\ job' \in [Threads -> Jobs({1, -1})]
        BY ONLY <3>2, <4>1, Finished
      <4> QED BY <2>1, <3>2, <4>1, <4>2 DEF PutPlace, TypeOK, StateTypeOK
    <3>4. CASE chunkRow[job[t].u][job[t].i] = None
      <4>1. Goto(t, "putInsert") BY <2>1, <3>4 DEF PutPlace
      <4>2. "putInsert" \in Labels BY DEF Labels
      <4>3. pc' \in [Threads -> Labels] /\ job' \in [Threads -> Jobs({1, -1})]
        BY ONLY <3>2, <4>1, <4>2, Went
      <4>4. chunkFile' \in [Uploads -> [Chunks -> Data \cup {None}]]
        <5>1. chunkFile' = [chunkFile EXCEPT ![job[t].u][job[t].i] = job[t].d]
          BY <2>1, <3>4 DEF PutPlace
        <5>2. chunkFile \in [Uploads -> [Chunks -> Data \cup {None}]]
          BY <3>2 DEF TypeOK, StateTypeOK
        <5> QED BY <3>1, <5>1, <5>2
      <4> QED BY <2>1, <3>2, <4>3, <4>4 DEF PutPlace, TypeOK, StateTypeOK
    <3> QED BY <3>3, <3>4
  <2>2. CASE PutInsert(t)
    BY <2>2, NoneFresh DEF Inv, TypeOK, StateTypeOK, Labels, Jobs, NoJob, Row, States, ThreadInv,
         JobSet, Owning, Getting, PutInsert
  <2>3. CASE PutError(t)
    BY <2>3, NoJobIsJob DEF Inv, TypeOK, StateTypeOK, Labels, PutError
  <2>4. CASE CountChunks(t)
    BY <2>4 DEF Inv, TypeOK, StateTypeOK, Labels, CountChunks
  <2>5. CASE Assemble(t)
    BY <2>5 DEF Inv, TypeOK, StateTypeOK, Labels, Assemble
  <2>6. CASE LockBlob(t)
    BY <2>6 DEF Inv, TypeOK, StateTypeOK, Labels, LockBlob
  <2>7. CASE Place(t)
    BY <2>7, NoneFresh DEF Inv, TypeOK, StateTypeOK, Labels, Jobs, NoJob, Row, States, ThreadInv,
         JobSet, Owning, Getting, Place
  <2>8. CASE Commit(t)
    <3>1. PICK u \in Uploads, h \in Hashes : u = job[t].u /\ h = job[t].h
      BY <2>8 DEF Commit, Inv, ThreadInv, JobSet, Owning
    <3>2. blob[h] # None => [blob[h] EXCEPT !.refs = blob[h].refs + 1] \in Row
      <4>1. SUFFICES ASSUME blob[h] # None
                   PROVE  [blob[h] EXCEPT !.refs = blob[h].refs + 1] \in Row
        OBVIOUS
      <4>2. blob[h] \in Row BY <4>1 DEF Inv, TypeOK, StateTypeOK
      <4>3. blob[h].refs + 1 \in Int BY <4>2 DEF Row
      <4> QED BY <4>2, <4>3, RowFields
    <3>3. [refs |-> 1, validated |-> 0] \in Row BY DEF Row
    <3>4. blob \in [Hashes -> Row \cup {None}] BY DEF Inv, TypeOK, StateTypeOK
    <3>5. blob' = [blob EXCEPT ![h] = IF blob[h] = None THEN [refs |-> 1, validated |-> 0]
                                      ELSE [blob[h] EXCEPT !.refs = blob[h].refs + 1]]
      BY <2>8, <3>1 DEF Commit
    <3>6. blob' \in [Hashes -> Row \cup {None}] BY <3>2, <3>3, <3>4, <3>5
    <3>7. /\ artifact' \in [Uploads -> Hashes \cup {None}]
          /\ ustate' \in [Uploads -> States \cup {None}]
      BY <2>8, <3>1 DEF Commit, Inv, TypeOK, StateTypeOK, States
    <3> QED BY <2>8, <3>6, <3>7 DEF Commit, Inv, TypeOK, StateTypeOK, Labels
  <2>9. CASE CheckFile(t)
    BY <2>9 DEF Inv, TypeOK, StateTypeOK, Labels, CheckFile
  <2>10. CASE CleanupChunks(t)
    BY <2>10, NoneFresh DEF Inv, TypeOK, StateTypeOK, Labels, Jobs, NoJob, Row, States, ThreadInv,
         JobSet, Owning, Getting, CleanupChunks
  <2>11. CASE FinalizeError(t)
    BY <2>11 DEF Inv, TypeOK, StateTypeOK, Labels, FinalizeError
  <2>12. CASE Rollback(t)
    BY <2>12, NoneFresh DEF Inv, TypeOK, StateTypeOK, Labels, States, Jobs, NoJob, Rollback
  <2>13. CASE Abandon(t)
    BY <2>13, NoJobIsJob DEF Inv, TypeOK, StateTypeOK, Labels, Abandon
  <2>14. CASE GetStat(t)
    <3>1. TypeOK BY DEF Inv
    <3>2. Goto(t, "getOpen") \/ Finish(t) BY <2>14 DEF GetStat
    <3>3. "getOpen" \in Labels BY DEF Labels
    <3>4. pc' \in [Threads -> Labels] /\ job' \in [Threads -> Jobs({1, -1})]
      BY ONLY <3>1, <3>2, <3>3, Went, Finished
    <3> QED BY <2>14, <3>1, <3>4 DEF GetStat, TypeOK, StateTypeOK
  <2>15. CASE GetOpen(t)
    <3>1. TypeOK BY DEF Inv
    <3>2. Goto(t, "cut") \/ Finish(t) BY <2>15 DEF GetOpen
    <3>3. "cut" \in Labels BY DEF Labels
    <3>4. pc' \in [Threads -> Labels] /\ job' \in [Threads -> Jobs({1, -1})]
      BY ONLY <3>1, <3>2, <3>3, Went, Finished
    <3> QED BY <2>15, <3>1, <3>4 DEF GetOpen, TypeOK, StateTypeOK
  <2>16. CASE GetCut(t)
    BY <2>16, NoJobIsJob DEF Inv, TypeOK, StateTypeOK, Labels, GetCut
  <2>17. CASE GcDelete(t)
    BY <2>17 DEF Inv, TypeOK, StateTypeOK, Labels, GcDelete
  <2>18. CASE GcUnlink(t)
    BY <2>18 DEF Inv, TypeOK, StateTypeOK, Labels, GcUnlink
  <2>19. CASE GcEnd(t)
    BY <2>19, NoJobIsJob DEF Inv, TypeOK, StateTypeOK, Labels, GcEnd
  <2>20. CASE ValidateSet(t)
    <3>1. PICK h \in Hashes : h = job[t].h BY <2>20 DEF ValidateSet, Inv, ThreadInv, JobSet
    <3>2. job[t].flag \in {0, 1, -1} BY <2>20 DEF ValidateSet, Inv, ThreadInv, JobSet
    <3>3. blob[h] # None => [blob[h] EXCEPT !.validated = job[t].flag] \in Row
      <4>1. SUFFICES ASSUME blob[h] # None
                   PROVE  [blob[h] EXCEPT !.validated = job[t].flag] \in Row
        OBVIOUS
      <4>2. blob[h] \in Row BY <4>1 DEF Inv, TypeOK, StateTypeOK
      <4> QED BY ONLY <3>2, <4>2, RowFields
    <3>4. blob \in [Hashes -> Row \cup {None}] BY DEF Inv, TypeOK, StateTypeOK
    <3>5. blob' = [blob EXCEPT ![h] = IF blob[h] = None THEN None
                                      ELSE [blob[h] EXCEPT !.validated = job[t].flag]]
      BY <2>20, <3>1 DEF ValidateSet
    <3>6. blob' \in [Hashes -> Row \cup {None}] BY <3>3, <3>4, <3>5
    <3> QED BY <2>20, <3>6 DEF ValidateSet, Inv, TypeOK, StateTypeOK, Labels
  <2>21. CASE ValidateEnd(t)
    BY <2>21, NoJobIsJob DEF Inv, TypeOK, StateTypeOK, Labels, ValidateEnd
  <2>22. ASSUME NEW h \in Hashes, GcLock(t, h) PROVE TypeOK'
    <3>1. TypeOK /\ job[t] \in Jobs({1, -1}) BY DEF Inv, TypeOK, StateTypeOK
    <3>2. job[t].todo \ {h} \in SUBSET Hashes BY <3>1 DEF Jobs
    <3>3. [job[t] EXCEPT !.h = h, !.todo = job[t].todo \ {h}] \in Jobs({1, -1})
      BY ONLY <3>1, <3>2, h \in Hashes, FieldsOfJob
    <3>4. Begin(t, "gcDelete", [job[t] EXCEPT !.h = h, !.todo = job[t].todo \ {h}])
      BY <2>22 DEF GcLock
    <3>5. "gcDelete" \in Labels BY DEF Labels
    <3>6. pc' \in [Threads -> Labels] /\ job' \in [Threads -> Jobs({1, -1})]
      BY ONLY <3>1, <3>3, <3>4, <3>5, Began
    <3> QED BY <2>22, <3>1, <3>6 DEF GcLock, TypeOK, StateTypeOK
  <2>23. ASSUME NEW h \in Hashes, ValidateRead(t, h) PROVE TypeOK'
    <3> DEFINE f == IF h \in files THEN 1 ELSE -1
    <3>1. TypeOK /\ job[t] \in Jobs({1, -1}) /\ f \in {1, -1} BY DEF Inv, TypeOK, StateTypeOK
    <3>2. job[t].todo \ {h} \in SUBSET Hashes BY <3>1 DEF Jobs
    <3>3. Begin(t, "valSet", [job[t] EXCEPT !.h = h, !.todo = job[t].todo \ {h}, !.flag = f])
      BY <2>23 DEF ValidateRead
    <3> HIDE DEF f
    <3>4. [job[t] EXCEPT !.h = h, !.todo = job[t].todo \ {h}, !.flag = f] \in Jobs({1, -1})
      BY ONLY <3>1, <3>2, h \in Hashes, FieldsOfJob
    <3>5. "valSet" \in Labels BY DEF Labels
    <3>6. pc' \in [Threads -> Labels] /\ job' \in [Threads -> Jobs({1, -1})]
      BY ONLY <3>1, <3>3, <3>4, <3>5, Began
    <3> QED BY <2>23, <3>1, <3>6 DEF ValidateRead, TypeOK, StateTypeOK
  <2> QED BY <1>2, <2>1, <2>2, <2>3, <2>4, <2>5, <2>6, <2>7, <2>8, <2>9, <2>10, <2>11, <2>12,
       <2>13, <2>14, <2>15, <2>16, <2>17, <2>18, <2>19, <2>20, <2>21, <2>22, <2>23 DEF Step
<1>3. ASSUME NEW u \in Uploads, CreateUpload(u) PROVE TypeOK'
  BY <1>3, NoneFresh DEF Inv, TypeOK, StateTypeOK, Labels, States, Jobs, NoJob, CreateUpload
<1>4. ASSUME NEW u \in Uploads, DeleteArtifact(u) PROVE TypeOK'
  <2>1. artifact[u] \in Hashes BY <1>4 DEF DeleteArtifact, Inv, TypeOK, StateTypeOK
  <2>2. blob[artifact[u]] # None =>
         [blob[artifact[u]] EXCEPT !.refs = blob[artifact[u]].refs - 1] \in Row
    BY <2>1, RowFields DEF Inv, TypeOK, StateTypeOK, Row
  <2>3. blob' \in [Hashes -> Row \cup {None}]
    BY <1>4, <2>1, <2>2 DEF DeleteArtifact, Inv, TypeOK, StateTypeOK
  <2> QED BY <1>4, <2>3 DEF DeleteArtifact, Inv, TypeOK, StateTypeOK
<1>5. CASE Restart
  <2>1. pc' \in [Threads -> Labels] /\ job' \in [Threads -> Jobs({1, -1})]
    BY <1>5, NoJobIsJob DEF Restart, Killed, Labels
  <2>2. ustate' \in [Uploads -> States \cup {None}] /\ crashes' \in 0..MaxCrashes
    BY <1>5, CrashesAssumption DEF Restart, Killed, Inv, TypeOK, StateTypeOK, States
  <2> QED BY <1>5, <2>1, <2>2 DEF Restart, Inv, TypeOK, StateTypeOK
<1>6. CASE UNCHANGED vars
  BY <1>6 DEF Inv, TypeOK, StateTypeOK, Labels, Jobs, NoJob, Row, States, ThreadInv, JobSet,
       Owning, Getting, vars
<1> QED BY <1>1, <1>2, <1>3, <1>4, <1>5, <1>6 DEF Next

(* Every step of a thread, and of the others around it, keeps what each    *)
(* thread relies on where it is.                                           *)
LEMMA ThreadStep ==
  ASSUME Inv, [Next]_vars
  PROVE  \A s \in Threads : ThreadInv(s)'
<1> SUFFICES ASSUME NEW s \in Threads PROVE ThreadInv(s)'
  OBVIOUS
<1> USE DEF Goto, Begin, Finish, Idle, SetRow, upVars, rowVars
<1>1. ASSUME NEW t \in Threads, Request(t) PROVE ThreadInv(s)'
  <2>1. ASSUME NEW u \in Uploads, NEW i \in Chunks, NEW d \in Data, PutCheck(t, u, i, d)
       PROVE  ThreadInv(s)'
    <3>1. ThreadInv(s) BY DEF Inv
    <3>2. \A r \in Threads \ {t} : pc'[r] = pc[r] /\ job'[r] = job[r]
      BY <2>1 DEF PutCheck, Inv, TypeOK, StateTypeOK
    <3>3. pc'[t] = "putLock" /\ job'[t].u = u /\ job'[t].i = i /\ job'[t].d = d
      BY <2>1 DEF PutCheck, NoJob, Inv, TypeOK, StateTypeOK
    <3>4. ustate[u] # None /\ UNCHANGED <<upVars, rowVars, files>>
      BY <2>1, NoneFresh DEF PutCheck, States
    <3> QED BY <3>1, <3>2, <3>3, <3>4 DEF ThreadInv, JobSet, OwnsChunk, OwnsUpload, OwnsBlob,
         Owning, Verified, Getting, BlobLocked, Received
  <2>2. ASSUME NEW u \in Uploads, NEW h \in Hashes, FinalizeBegin(t, u, h)
       PROVE  ThreadInv(s)'
    <3>1. ThreadInv(s) BY DEF Inv
    <3>2. \A r \in Threads \ {t} : pc'[r] = pc[r] /\ job'[r] = job[r]
      BY <2>2 DEF FinalizeBegin, Inv, TypeOK, StateTypeOK
    <3>3. pc'[t] = "count" /\ job'[t].u = u /\ job'[t].h = h
      BY <2>2 DEF FinalizeBegin, NoJob, Inv, TypeOK, StateTypeOK
    <3>4. \A v \in Uploads : ustate'[v] = IF v = u THEN "finalizing" ELSE ustate[v]
      BY <2>2 DEF FinalizeBegin, Inv, TypeOK, StateTypeOK
    <3>5. ustate[u] = "uploading" /\ "finalizing" # None
          /\ UNCHANGED <<chunkRow, chunkFile, rowVars, files>>
      BY <2>2, NoneFresh DEF FinalizeBegin, States
    <3>6. CASE s = t
      <4>1. \A r \in Threads \ {t} : ThreadInv(r) BY DEF Inv
      <4> QED BY <3>2, <3>3, <3>4, <3>5, <3>6, <4>1 DEF ThreadInv, JobSet, OwnsChunk, OwnsUpload,
           OwnsBlob, Owning, Verified, Getting, BlobLocked, Received
    <3>7. CASE s # t
      <4>1. JobSet(s)' BY <3>1, <3>2, <3>4, <3>5, <3>7 DEF ThreadInv, JobSet
      <4>2. OwnsChunk(s)' BY <3>1, <3>2, <3>3, <3>5, <3>7 DEF ThreadInv, OwnsChunk
      <4>3. OwnsUpload(s)'
        BY <3>1, <3>2, <3>3, <3>4, <3>5, <3>7
        DEF ThreadInv, JobSet, OwnsUpload, Owning, Verified, Getting, Received
      <4>4. OwnsBlob(s)' BY <3>1, <3>2, <3>3, <3>5, <3>7 DEF ThreadInv, OwnsBlob, BlobLocked
      <4> QED BY <4>1, <4>2, <4>3, <4>4 DEF ThreadInv
    <3> QED BY <3>6, <3>7
  <2>3. ASSUME NEW u \in Uploads, GetRow(t, u) PROVE ThreadInv(s)'
    <3>1. ThreadInv(s) BY DEF Inv
    <3>2. artifact[u] \in Hashes /\ ustate[u] = "finalized"
      BY <2>3 DEF GetRow, Inv, TypeOK, StateTypeOK, ArtifactFinalized
    <3>3. \A r \in Threads \ {t} : pc'[r] = pc[r] /\ job'[r] = job[r]
      BY <2>3 DEF GetRow, Inv, TypeOK, StateTypeOK
    <3>4. pc'[t] = "getStat" /\ job'[t].u = u /\ job'[t].h = artifact[u]
      BY <2>3 DEF GetRow, NoJob, Inv, TypeOK, StateTypeOK
    <3>5. UNCHANGED <<upVars, rowVars, files>> BY <2>3 DEF GetRow
    <3> QED BY <3>1, <3>2, <3>3, <3>4, <3>5 DEF ThreadInv, JobSet, OwnsChunk, OwnsUpload,
         OwnsBlob, Owning, Verified, Getting, BlobLocked, Received
  <2>4. CASE GcScan(t)
    BY <2>4 DEF Inv, ThreadInv, JobSet, OwnsChunk, OwnsUpload, OwnsBlob, Owning, Verified,
         Getting, BlobLocked, Received, GcScan
  <2>5. CASE ValidateScan(t)
    BY <2>5 DEF Inv, ThreadInv, JobSet, OwnsChunk, OwnsUpload, OwnsBlob, Owning, Verified,
         Getting, BlobLocked, Received, ValidateScan
  <2> QED BY <1>1, <2>1, <2>2, <2>3, <2>4, <2>5 DEF Request
<1>2. ASSUME NEW t \in Threads, Step(t) PROVE ThreadInv(s)'
  <2>1. CASE PutPlace(t)
    <3>1. ThreadInv(s) /\ ThreadInv(t) BY DEF Inv
    <3>2. CASE chunkRow[job[t].u][job[t].i] # None
      <4>1. /\ \A r \in Threads \ {t} : pc'[r] = pc[r] /\ job'[r] = job[r]
            /\ pc'[t] = "idle"
        BY <2>1, <3>2 DEF PutPlace, Inv, TypeOK, StateTypeOK
      <4>2. UNCHANGED <<upVars, rowVars, files>> BY <2>1, <3>2 DEF PutPlace
      <4> QED BY <3>1, <4>1, <4>2 DEF ThreadInv, JobSet, OwnsChunk, OwnsUpload, OwnsBlob, Owning,
           Verified, Getting, BlobLocked, Received
    <3>3. CASE chunkRow[job[t].u][job[t].i] = None
      <4> DEFINE u == job[t].u  i == job[t].i
      <4>1. /\ u \in Uploads /\ i \in Chunks /\ chunkRow[u][i] = None /\ ~ChunkLocked(u, i)
            /\ UNCHANGED <<ustate, chunkRow, rowVars, files, job>>
            /\ pc[t] = "putLock"
        BY <2>1, <3>1, <3>3 DEF PutPlace, ThreadInv, JobSet
      <4>2. \A r \in Threads : pc'[r] = IF r = t THEN "putInsert" ELSE pc[r]
        BY <2>1, <3>3 DEF PutPlace, Inv, TypeOK, StateTypeOK
      <4>3. /\ chunkFile'[u][i] = job[t].d
            /\ \A v \in Uploads, j \in Chunks : v # u \/ j # i => chunkFile'[v][j] = chunkFile[v][j]
        BY <2>1, <3>3, <4>1 DEF PutPlace, Inv, TypeOK, StateTypeOK
      <4>4. OwnsChunk(s)'
        <5>1. CASE s = t BY <4>1, <4>2, <4>3, <5>1 DEF OwnsChunk, ChunkLocked
        <5>2. CASE s # t /\ pc[s] = "putInsert"
          <6>1. job[s].u # u \/ job[s].i # i BY <4>1, <5>2 DEF ChunkLocked
          <6>2. job[s].u \in Uploads /\ job[s].i \in Chunks BY <3>1, <5>2 DEF ThreadInv, JobSet
          <6> QED BY <3>1, <4>1, <4>2, <4>3, <5>2, <6>1, <6>2 DEF ThreadInv, OwnsChunk
        <5> QED BY <4>2, <5>1, <5>2 DEF OwnsChunk
      <4> QED BY <3>1, <4>1, <4>2, <4>4 DEF ThreadInv, JobSet, OwnsChunk, OwnsUpload, OwnsBlob,
           Owning, Verified, Getting, BlobLocked, Received
    <3> QED BY <3>2, <3>3
  <2>2. CASE PutInsert(t)
    <3>1. ThreadInv(s) /\ ThreadInv(t) BY DEF Inv
    <3> DEFINE u == job[t].u  i == job[t].i
    <3>2. /\ u \in Uploads /\ i \in Chunks /\ pc[t] = "putInsert" /\ chunkRow[u][i] = None
          /\ job[t].d \in Data
      BY <2>2, <3>1 DEF PutInsert, ThreadInv, JobSet, OwnsChunk
    <3>3. \A v \in Uploads, j \in Chunks :
            chunkRow'[v][j] = IF v = u /\ j = i THEN job[t].d ELSE chunkRow[v][j]
      BY <2>2, <3>2 DEF PutInsert, Inv, TypeOK, StateTypeOK
    <3>4. \A r \in Threads \ {t} : pc'[r] = pc[r] /\ job'[r] = job[r]
      BY <2>2 DEF PutInsert, Inv, TypeOK, StateTypeOK
    <3>5. pc'[t] = "idle" BY <2>2 DEF PutInsert, Inv, TypeOK, StateTypeOK
    <3>6. UNCHANGED <<ustate, chunkFile, rowVars, files>> BY <2>2 DEF PutInsert
    <3>7. CASE s = t BY <3>5, <3>7, IdleNext
    <3>8. CASE s # t
      <4>1. OwnsChunk(s)'
        BY <3>1, <3>2, <3>3, <3>4, <3>5, <3>6, <3>8 DEF ThreadInv, JobSet, OwnsChunk
      <4>2. \A v \in Uploads : Received(v) => chunkRow'[v] = chunkRow[v] /\ Received(v)'
        <5> SUFFICES ASSUME NEW v \in Uploads, Received(v)
                     PROVE  chunkRow'[v] = chunkRow[v] /\ Received(v)'
          OBVIOUS
        <5>1. v # u BY <3>2 DEF Received
        <5>2. chunkRow'[v] = chunkRow[v] BY <2>2, <3>2, <5>1 DEF PutInsert, Inv, TypeOK,
             StateTypeOK
        <5> QED BY <5>2 DEF Received
      <4> QED BY <3>1, <3>4, <3>5, <3>6, <3>8, <4>1, <4>2
              DEF ThreadInv, JobSet, OwnsUpload, OwnsBlob, Owning, Verified, Getting, BlobLocked
    <3> QED BY <3>7, <3>8
  <2>3. CASE PutError(t)
    BY <2>3 DEF Inv, TypeOK, StateTypeOK, ThreadInv, JobSet, OwnsChunk, OwnsUpload, OwnsBlob,
         Owning, Verified, Getting, BlobLocked, Received, PutError
  <2>4. CASE CountChunks(t)
    BY <2>4 DEF Inv, ThreadInv, JobSet, OwnsChunk, OwnsUpload, OwnsBlob, Owning, Verified,
         Getting, BlobLocked, Received, CountChunks
  <2>5. CASE Assemble(t)
    <3>1. ThreadInv(s) /\ ThreadInv(t) BY DEF Inv
    <3>2. job[t].u \in Uploads /\ Received(job[t].u) /\ ustate[job[t].u] = "finalizing"
      BY <2>5, <3>1 DEF Assemble, ThreadInv, JobSet, OwnsUpload, Owning
    <3>3. /\ \A r \in Threads \ {t} : pc'[r] = pc[r]
          /\ pc[t] = "assemble" /\ pc'[t] \in {"lockBlob", "rollback"}
          /\ UNCHANGED <<upVars, rowVars, files, job>>
      BY <2>5 DEF Assemble, Inv, TypeOK, StateTypeOK
    <3>4. ASSUME pc'[t] = "lockBlob" PROVE Digest[chunkRow[job[t].u]] = job[t].h
      <4>1. Digest[chunkFile[job[t].u]] = job[t].h
        BY <2>5, <3>4 DEF Assemble, Assembled, Inv, TypeOK, StateTypeOK
      <4>2. \A i \in Chunks : chunkFile[job[t].u][i] = chunkRow[job[t].u][i]
        BY <3>2 DEF Inv, ChunkBytesKept, Received
      <4>3. chunkFile[job[t].u] = chunkRow[job[t].u] BY <3>2, <4>2 DEF Inv, TypeOK, StateTypeOK
      <4> QED BY <4>1, <4>3
    <3> QED BY <3>1, <3>2, <3>3, <3>4 DEF ThreadInv, JobSet, OwnsChunk, OwnsUpload, OwnsBlob,
         Owning, Verified, Getting, BlobLocked, Received
  <2>6. CASE LockBlob(t)
    <3>1. ThreadInv(s) /\ ThreadInv(t) BY DEF Inv
    <3>2. pc[t] = "lockBlob" /\ UNCHANGED <<upVars, rowVars, files, job>> /\ ~HashLocked(job[t].h)
      BY <2>6 DEF LockBlob
    <3>3. \A r \in Threads : pc'[r] = IF r = t THEN "place" ELSE pc[r]
      BY <2>6 DEF LockBlob, Inv, TypeOK, StateTypeOK
    <3>4. OwnsBlob(s)' BY <3>1, <3>2, <3>3 DEF ThreadInv, OwnsBlob, HashLocked, BlobLocked
    <3> QED BY <3>1, <3>2, <3>3, <3>4
            DEF ThreadInv, JobSet, OwnsChunk, OwnsUpload, Owning, Verified, Getting, Received
  <2>7. CASE Place(t)
    BY <2>7 DEF Inv, ThreadInv, JobSet, OwnsChunk, OwnsUpload, OwnsBlob, Owning, Verified,
         Getting, BlobLocked, Received, Place
  <2>8. CASE Commit(t)
    <3>1. ThreadInv(s) /\ ThreadInv(t) BY DEF Inv
    <3>2. /\ \A r \in Threads : pc'[r] = IF r = t THEN "check" ELSE pc[r]
          /\ pc[t] = "commit" /\ UNCHANGED <<chunkRow, chunkFile, files, job>>
      BY <2>8 DEF Commit, Inv, TypeOK, StateTypeOK
    <3>3. job[t].u \in Uploads /\ job[t].h \in Hashes
      BY <3>1, <3>2 DEF ThreadInv, JobSet, Owning
    <3>4. /\ \A v \in Uploads : /\ ustate'[v] = IF v = job[t].u THEN "finalized" ELSE ustate[v]
                                /\ artifact'[v] = IF v = job[t].u THEN job[t].h ELSE artifact[v]
          /\ \A h \in Hashes \ {job[t].h} : blob'[h] = blob[h]
      BY <2>8, <3>3 DEF Commit, Inv, TypeOK, StateTypeOK
    <3>5. "finalized" # None BY NoneFresh DEF States
    <3> QED BY <3>1, <3>2, <3>3, <3>4, <3>5 DEF ThreadInv, JobSet, OwnsChunk, OwnsUpload,
         OwnsBlob, Owning, Verified, Getting, BlobLocked, Received
  <2>9. CASE CheckFile(t)
    <3>1. ThreadInv(s) /\ ThreadInv(t) BY DEF Inv
    <3>2. pc[t] = "check" /\ UNCHANGED <<upVars, rowVars, files, job>> BY <2>9 DEF CheckFile
    <3>3. job[t].h \in files BY <3>1, <3>2 DEF ThreadInv, OwnsBlob
    <3>4. \A r \in Threads : pc'[r] = IF r = t THEN "cleanup" ELSE pc[r]
      BY <2>9, <3>3 DEF CheckFile, Inv, TypeOK, StateTypeOK
    <3> QED BY <3>1, <3>2, <3>4 DEF ThreadInv, JobSet, OwnsChunk, OwnsUpload, OwnsBlob, Owning,
         Verified, Getting, BlobLocked, Received
  <2>10. CASE CleanupChunks(t)
    <3>1. ThreadInv(s) /\ ThreadInv(t) BY DEF Inv
    <3>2. job[t].u \in Uploads /\ ustate[job[t].u] = "finalized" /\ Received(job[t].u)
      BY <2>10, <3>1 DEF CleanupChunks, ThreadInv, JobSet, OwnsUpload, Inv, FinalizedReceived
    <3>3. /\ \A r \in Threads \ {t} : pc'[r] = pc[r] /\ job'[r] = job[r]
          /\ pc'[t] = "idle" /\ UNCHANGED <<ustate, chunkRow, rowVars, files>>
      BY <2>10 DEF CleanupChunks, Inv, TypeOK, StateTypeOK
    <3>4. \A v \in Uploads \ {job[t].u} : chunkFile'[v] = chunkFile[v]
      BY <2>10, <3>2 DEF CleanupChunks, Inv, TypeOK, StateTypeOK
    <3>5. OwnsChunk(s)'
      BY <3>1, <3>2, <3>3, <3>4 DEF ThreadInv, JobSet, OwnsChunk, Received
    <3> QED BY <3>1, <3>3, <3>5
            DEF ThreadInv, JobSet, OwnsUpload, OwnsBlob, Owning, Verified, Getting, BlobLocked, Received
  <2>11. CASE FinalizeError(t)
    <3>1. ThreadInv(s) /\ ThreadInv(t) BY DEF Inv
    <3>2. /\ \A r \in Threads \ {t} : pc'[r] = pc[r]
          /\ \/ pc[t] = "assemble" /\ pc'[t] = "rollback"
             \/ pc[t] \in {"place", "commit"} /\ pc'[t] = "undo"
          /\ UNCHANGED <<upVars, rowVars, files, job>>
      BY <2>11 DEF FinalizeError, Inv, TypeOK, StateTypeOK
    <3> QED BY <3>1, <3>2 DEF ThreadInv, JobSet, OwnsChunk, OwnsUpload, OwnsBlob, Owning,
         Verified, Getting, BlobLocked, Received
  <2>12. CASE Rollback(t)
    <3>1. ThreadInv(s) /\ ThreadInv(t) BY DEF Inv
    <3>2. /\ \A r \in Threads \ {t} : pc'[r] = pc[r] /\ job'[r] = job[r]
          /\ pc'[t] = "idle" /\ pc[t] \in {"rollback", "undo"}
          /\ UNCHANGED <<chunkRow, chunkFile, rowVars, files>>
      BY <2>12 DEF Rollback, Inv, TypeOK, StateTypeOK
    <3>3. job[t].u \in Uploads BY <3>1, <3>2 DEF ThreadInv, JobSet, Owning
    <3>4. \A v \in Uploads : ustate'[v] = IF v = job[t].u /\ ustate[v] = "finalizing"
                                          THEN "uploading" ELSE ustate[v]
      BY <2>12, <3>3 DEF Rollback, Inv, TypeOK, StateTypeOK
    <3>5. "uploading" # None BY NoneFresh DEF States
    <3> QED BY <3>1, <3>2, <3>3, <3>4, <3>5 DEF ThreadInv, JobSet, OwnsChunk, OwnsUpload,
         OwnsBlob, Owning, Verified, Getting, BlobLocked, Received
  <2>13. CASE Abandon(t)
    BY <2>13 DEF Inv, TypeOK, StateTypeOK, ThreadInv, JobSet, OwnsChunk, OwnsUpload, OwnsBlob,
         Owning, Verified, Getting, BlobLocked, Received, Abandon
  <2>14. CASE GetStat(t)
    <3>1. ThreadInv(s) /\ ThreadInv(t) BY DEF Inv
    <3>2. /\ \A r \in Threads \ {t} : pc'[r] = pc[r] /\ job'[r] = job[r]
          /\ pc'[t] = "idle" \/ (pc'[t] = "getOpen" /\ job'[t] = job[t])
          /\ pc[t] = "getStat" /\ UNCHANGED <<upVars, rowVars, files>>
      BY <2>14 DEF GetStat, Inv, TypeOK, StateTypeOK
    <3> QED BY <3>1, <3>2 DEF ThreadInv, JobSet, OwnsChunk, OwnsUpload, OwnsBlob, Owning,
         Verified, Getting, BlobLocked, Received
  <2>15. CASE GetOpen(t)
    <3>1. ThreadInv(s) /\ ThreadInv(t) BY DEF Inv
    <3>2. /\ \A r \in Threads \ {t} : pc'[r] = pc[r] /\ job'[r] = job[r]
          /\ pc'[t] = "idle" \/ (pc'[t] = "cut" /\ job'[t] = job[t])
          /\ pc[t] = "getOpen" /\ UNCHANGED <<upVars, rowVars, files>>
      BY <2>15 DEF GetOpen, Inv, TypeOK, StateTypeOK
    <3> QED BY <3>1, <3>2 DEF ThreadInv, JobSet, OwnsChunk, OwnsUpload, OwnsBlob, Owning,
         Verified, Getting, BlobLocked, Received
  <2>16. CASE GetCut(t)
    BY <2>16 DEF Inv, TypeOK, StateTypeOK, ThreadInv, JobSet, OwnsChunk, OwnsUpload, OwnsBlob,
         Owning, Verified, Getting, BlobLocked, Received, GetCut
  <2>17. CASE GcDelete(t)
    <3>1. ThreadInv(s) /\ ThreadInv(t) BY DEF Inv
    <3>2. /\ \A r \in Threads \ {t} : pc'[r] = pc[r]
          /\ pc[t] = "gcDelete" /\ job[t].h \in Hashes
          /\ \/ pc'[t] = "gcNext" /\ blob' = blob
             \/ pc'[t] = "gcUnlink" /\ blob'[job[t].h] = None
          /\ UNCHANGED <<upVars, artifact, files, job>>
      BY <2>17, <3>1 DEF GcDelete, ThreadInv, JobSet, Inv, TypeOK, StateTypeOK
    <3>3. \A h \in Hashes : h # job[t].h => blob'[h] = blob[h]
      BY <2>17 DEF GcDelete, Inv, TypeOK, StateTypeOK
    <3> QED BY <3>1, <3>2, <3>3 DEF ThreadInv, JobSet, OwnsChunk, OwnsUpload, OwnsBlob, Owning,
         Verified, Getting, BlobLocked, Received
  <2>18. CASE GcUnlink(t)
    BY <2>18 DEF Inv, ThreadInv, JobSet, OwnsChunk, OwnsUpload, OwnsBlob, Owning, Verified,
         Getting, BlobLocked, Received, GcUnlink
  <2>19. CASE GcEnd(t)
    BY <2>19 DEF Inv, TypeOK, StateTypeOK, ThreadInv, JobSet, OwnsChunk, OwnsUpload, OwnsBlob,
         Owning, Verified, Getting, BlobLocked, Received, GcEnd
  <2>20. CASE ValidateSet(t)
    BY <2>20 DEF Inv, ThreadInv, JobSet, OwnsChunk, OwnsUpload, OwnsBlob, Owning, Verified,
         Getting, BlobLocked, Received, ValidateSet
  <2>21. CASE ValidateEnd(t)
    BY <2>21 DEF Inv, TypeOK, StateTypeOK, ThreadInv, JobSet, OwnsChunk, OwnsUpload, OwnsBlob,
         Owning, Verified, Getting, BlobLocked, Received, ValidateEnd
  <2>22. ASSUME NEW h \in Hashes, GcLock(t, h) PROVE ThreadInv(s)'
    <3>1. ThreadInv(s) BY DEF Inv
    <3>2. \A r \in Threads \ {t} : pc'[r] = pc[r] /\ job'[r] = job[r]
      BY <2>22 DEF GcLock, Inv, TypeOK, StateTypeOK
    <3>3. pc[t] = "gcNext" /\ pc'[t] = "gcDelete" /\ job'[t].h = h /\ ~HashLocked(h)
      <4>1. TypeOK /\ job[t] \in Jobs({1, -1}) BY DEF Inv, TypeOK, StateTypeOK
      <4>2. job[t].todo \ {h} \in SUBSET Hashes BY <4>1 DEF Jobs
      <4>3. [job[t] EXCEPT !.h = h, !.todo = job[t].todo \ {h}].h = h
        BY <4>2, h \in Hashes DEF Jobs
      <4>4. pc[t] = "gcNext" /\ ~HashLocked(h)
            /\ Begin(t, "gcDelete", [job[t] EXCEPT !.h = h, !.todo = job[t].todo \ {h}])
        BY <2>22 DEF GcLock
      <4>5. pc'[t] = "gcDelete" /\ job'[t] = [job[t] EXCEPT !.h = h, !.todo = job[t].todo \ {h}]
        BY <4>1, <4>4 DEF TypeOK, StateTypeOK
      <4> QED BY <4>3, <4>4, <4>5
    <3>4. UNCHANGED <<upVars, rowVars, files>> BY <2>22 DEF GcLock
    <3>5. OwnsBlob(s)' BY <3>1, <3>2, <3>3, <3>4 DEF ThreadInv, OwnsBlob, HashLocked, BlobLocked
    <3> QED BY <3>1, <3>2, <3>3, <3>4, <3>5
            DEF ThreadInv, JobSet, OwnsChunk, OwnsUpload, Owning, Verified, Getting, Received
  <2>23. ASSUME NEW h \in Hashes, ValidateRead(t, h) PROVE ThreadInv(s)'
    BY <2>23 DEF Inv, TypeOK, StateTypeOK, ThreadInv, JobSet, OwnsChunk, OwnsUpload, OwnsBlob,
         Owning, Verified, Getting, BlobLocked, Received, ValidateRead
  <2> QED BY <1>2, <2>1, <2>2, <2>3, <2>4, <2>5, <2>6, <2>7, <2>8, <2>9, <2>10, <2>11, <2>12,
       <2>13, <2>14, <2>15, <2>16, <2>17, <2>18, <2>19, <2>20, <2>21, <2>22, <2>23 DEF Step
<1>3. ASSUME NEW u \in Uploads, CreateUpload(u) PROVE ThreadInv(s)'
  <2>1. ThreadInv(s) BY DEF Inv
  <2>2. \A v \in Uploads : ustate[v] # None => ustate'[v] = ustate[v]
    BY <1>3 DEF CreateUpload, Inv, TypeOK, StateTypeOK
  <2>3. None \notin {"uploading", "finalizing", "finalized"} BY NoneFresh DEF States
  <2> QED BY <1>3, <2>1, <2>2, <2>3 DEF CreateUpload, ThreadInv, JobSet, OwnsChunk, OwnsUpload,
       OwnsBlob, Owning, Verified, Getting, BlobLocked, Received
<1>4. ASSUME NEW u \in Uploads, DeleteArtifact(u) PROVE ThreadInv(s)'
  BY <1>4 DEF Inv, ThreadInv, JobSet, OwnsChunk, OwnsUpload, OwnsBlob, Owning, Verified, Getting,
       BlobLocked, Received, DeleteArtifact
<1>5. CASE Restart
  BY <1>5, IdleNext DEF Restart, Killed
<1>6. CASE UNCHANGED vars
  BY <1>6 DEF Inv, TypeOK, StateTypeOK, NoJob, Jobs, ThreadInv, JobSet, OwnsChunk, OwnsUpload,
       OwnsBlob, Owning, Verified, Getting, BlobLocked, Received, vars
<1> QED BY <1>1, <1>2, <1>3, <1>4, <1>5, <1>6 DEF Next

-----------------------------------------------------------------------------
(* What each step does to the tables and files, locks and threads aside.   *)
LEMMA Changes ==
  ASSUME [Next]_vars
  PROVE  \/ UNCHANGED <<upVars, rowVars, files>>
         \/ \E u \in Uploads : CreateUpload(u) \/ DeleteArtifact(u)
         \/ \E t \in Threads, u \in Uploads, h \in Hashes : FinalizeBegin(t, u, h)
         \/ \E t \in Threads :
              \/ PutPlace(t) \/ PutInsert(t) \/ Place(t) \/ Commit(t) \/ CleanupChunks(t)
              \/ Rollback(t) \/ GcDelete(t) \/ GcUnlink(t) \/ ValidateSet(t)
         \/ Restart
<1> USE DEF upVars, rowVars
<1>1. ASSUME NEW t \in Threads, Request(t)
      PROVE  \/ UNCHANGED <<upVars, rowVars, files>>
             \/ \E u \in Uploads, h \in Hashes : FinalizeBegin(t, u, h)
  BY <1>1 DEF Request, PutCheck, GetRow, GcScan, ValidateScan
<1>2. ASSUME NEW t \in Threads, Step(t)
      PROVE  \/ UNCHANGED <<upVars, rowVars, files>>
             \/ PutPlace(t) \/ PutInsert(t) \/ Place(t) \/ Commit(t) \/ CleanupChunks(t)
             \/ Rollback(t) \/ GcDelete(t) \/ GcUnlink(t) \/ ValidateSet(t)
  BY <1>2 DEF Step, PutError, CountChunks, Assemble, LockBlob, CheckFile, FinalizeError, Abandon,
       GetStat, GetOpen, GetCut, GcEnd, ValidateEnd, GcLock, ValidateRead
<1>3. CASE UNCHANGED vars BY <1>3 DEF vars
<1> QED BY <1>1, <1>2, <1>3 DEF Next

(* Recorded chunks keep their files until the upload is finalized.         *)
LEMMA ChunksStep ==
  ASSUME Inv, [Next]_vars
  PROVE  ChunkBytesKept'
<1> USE DEF upVars, rowVars
<1>1. CASE UNCHANGED <<upVars, rowVars, files>> BY <1>1 DEF Inv, ChunkBytesKept
<1>2. ASSUME NEW u \in Uploads, CreateUpload(u) PROVE ChunkBytesKept'
  <2>1. ustate[u] = None /\ UNCHANGED <<chunkRow, chunkFile>>
        /\ \A v \in Uploads \ {u} : ustate'[v] = ustate[v]
    BY <1>2 DEF CreateUpload, Inv, TypeOK, StateTypeOK
  <2>2. ustate[u] # "finalized" BY <2>1, NoneFresh DEF States
  <2> QED BY <2>1, <2>2 DEF Inv, ChunkBytesKept
<1>3. ASSUME NEW u \in Uploads, DeleteArtifact(u) PROVE ChunkBytesKept'
  BY <1>3 DEF DeleteArtifact, Inv, ChunkBytesKept
<1>4. ASSUME NEW t \in Threads, NEW u \in Uploads, NEW h \in Hashes, FinalizeBegin(t, u, h)
      PROVE  ChunkBytesKept'
  BY <1>4 DEF FinalizeBegin, Inv, TypeOK, StateTypeOK, ChunkBytesKept
<1>5. ASSUME NEW t \in Threads, PutPlace(t) PROVE ChunkBytesKept'
  <2>1. job[t].u \in Uploads /\ job[t].i \in Chunks
    BY <1>5 DEF PutPlace, Inv, ThreadInv, JobSet
  <2>2. \A v \in Uploads, j \in Chunks :
          chunkRow[v][j] # None => chunkFile'[v][j] = chunkFile[v][j]
    <3>1. CASE chunkRow[job[t].u][job[t].i] # None BY <1>5, <3>1 DEF PutPlace
    <3>2. CASE chunkRow[job[t].u][job[t].i] = None
      <4>1. chunkFile' = [chunkFile EXCEPT ![job[t].u][job[t].i] = job[t].d]
        BY <1>5, <3>2 DEF PutPlace
      <4> QED BY <2>1, <3>2, <4>1 DEF Inv, TypeOK, StateTypeOK
    <3> QED BY <3>1, <3>2
  <2> QED BY <1>5, <2>2 DEF PutPlace, Inv, ChunkBytesKept
<1>6. ASSUME NEW t \in Threads, PutInsert(t) PROVE ChunkBytesKept'
  <2>1. /\ job[t].u \in Uploads /\ job[t].i \in Chunks
        /\ chunkRow[job[t].u][job[t].i] = None /\ chunkFile[job[t].u][job[t].i] = job[t].d
    BY <1>6 DEF PutInsert, Inv, ThreadInv, JobSet, OwnsChunk
  <2>2. \A v \in Uploads, j \in Chunks :
          chunkRow'[v][j] = IF v = job[t].u /\ j = job[t].i THEN job[t].d ELSE chunkRow[v][j]
    BY <1>6, <2>1 DEF PutInsert, Inv, TypeOK, StateTypeOK
  <2> QED BY <1>6, <2>1, <2>2 DEF PutInsert, Inv, ChunkBytesKept
<1>7. ASSUME NEW t \in Threads, Place(t) \/ GcDelete(t) \/ GcUnlink(t) \/ ValidateSet(t)
      PROVE  ChunkBytesKept'
  BY <1>7 DEF Place, GcDelete, GcUnlink, ValidateSet, Inv, ChunkBytesKept
<1>8. ASSUME NEW t \in Threads, Commit(t) PROVE ChunkBytesKept'
  BY <1>8 DEF Commit, Inv, TypeOK, StateTypeOK, ChunkBytesKept
<1>9. ASSUME NEW t \in Threads, CleanupChunks(t) PROVE ChunkBytesKept'
  <2>1. job[t].u \in Uploads /\ ustate[job[t].u] = "finalized"
    BY <1>9 DEF CleanupChunks, Inv, ThreadInv, JobSet, OwnsUpload
  <2>2. \A v \in Uploads \ {job[t].u} : chunkFile'[v] = chunkFile[v]
    BY <1>9, <2>1 DEF CleanupChunks, Inv, TypeOK, StateTypeOK
  <2> QED BY <1>9, <2>1, <2>2 DEF CleanupChunks, Inv, ChunkBytesKept
<1>10. ASSUME NEW t \in Threads, Rollback(t) PROVE ChunkBytesKept'
  BY <1>10 DEF Rollback, Inv, TypeOK, StateTypeOK, ChunkBytesKept
<1>11. CASE Restart
  BY <1>11 DEF Restart, Inv, TypeOK, StateTypeOK, ChunkBytesKept
<1> QED BY <1>1, <1>2, <1>3, <1>4, <1>5, <1>6, <1>7, <1>8, <1>9, <1>10, <1>11, Changes

(* Artifacts belong to finalized uploads, which have all their chunks, and *)
(* name the digest of those.                                               *)
LEMMA ArtifactsStep ==
  ASSUME Inv, [Next]_vars
  PROVE  ArtifactFinalized' /\ FinalizedReceived' /\ ArtifactIsItsChunks'
<1> USE DEF upVars, rowVars
<1> DEFINE Good == ArtifactFinalized /\ FinalizedReceived /\ ArtifactIsItsChunks
<1>1. ASSUME UNCHANGED <<artifact, chunkRow>>,
             \A v \in Uploads : ustate'[v] = "finalized" <=> ustate[v] = "finalized"
      PROVE  Good'
  BY <1>1 DEF Inv, ArtifactFinalized, FinalizedReceived, ArtifactIsItsChunks, Received
<1>2. ASSUME NEW u \in Uploads, CreateUpload(u) PROVE Good'
  <2>1. None # "finalized" BY NoneFresh DEF States
  <2> QED BY <1>1, <1>2, <2>1 DEF CreateUpload, Inv, TypeOK, StateTypeOK
<1>3. ASSUME NEW u \in Uploads, DeleteArtifact(u) PROVE Good'
  <2>1. \A v \in Uploads : artifact'[v] = IF v = u THEN None ELSE artifact[v]
    BY <1>3 DEF DeleteArtifact, Inv, TypeOK, StateTypeOK
  <2>2. UNCHANGED <<ustate, chunkRow>> BY <1>3 DEF DeleteArtifact
  <2> QED BY <2>1, <2>2
          DEF Inv, ArtifactFinalized, FinalizedReceived, ArtifactIsItsChunks, Received
<1>4. ASSUME NEW t \in Threads, NEW u \in Uploads, NEW h \in Hashes, FinalizeBegin(t, u, h)
      PROVE  Good'
  BY <1>1, <1>4 DEF FinalizeBegin, Inv, TypeOK, StateTypeOK
<1>5. ASSUME NEW t \in Threads, PutInsert(t) PROVE Good'
  <2>1. /\ job[t].u \in Uploads /\ job[t].i \in Chunks
        /\ chunkRow[job[t].u][job[t].i] = None
    BY <1>5 DEF PutInsert, Inv, ThreadInv, JobSet, OwnsChunk
  <2>2. \A v \in Uploads : Received(v) => chunkRow'[v] = chunkRow[v]
    BY <1>5, <2>1 DEF PutInsert, Received, Inv, TypeOK, StateTypeOK
  <2>3. \A v \in Uploads : Received(v) => Received(v)' BY <2>2 DEF Received
  <2>4. UNCHANGED <<ustate, artifact>> BY <1>5 DEF PutInsert
  <2> QED BY <2>2, <2>3, <2>4 DEF Inv, ArtifactFinalized, FinalizedReceived, ArtifactIsItsChunks
<1>6. ASSUME NEW t \in Threads, Commit(t) PROVE Good'
  <2>1. /\ job[t].u \in Uploads /\ job[t].h \in Hashes /\ Received(job[t].u)
        /\ Digest[chunkRow[job[t].u]] = job[t].h
    BY <1>6 DEF Commit, Inv, ThreadInv, JobSet, OwnsUpload, Owning, Verified
  <2>2. \A v \in Uploads :
          /\ artifact'[v] = (IF v = job[t].u THEN job[t].h ELSE artifact[v])
          /\ ustate'[v] = (IF v = job[t].u THEN "finalized" ELSE ustate[v])
    BY <1>6, <2>1 DEF Commit, Inv, TypeOK, StateTypeOK
  <2>3. chunkRow' = chunkRow BY <1>6 DEF Commit
  <2> QED BY <2>1, <2>2, <2>3
          DEF Inv, ArtifactFinalized, FinalizedReceived, ArtifactIsItsChunks, Received
<1>7. ASSUME NEW t \in Threads,
             \/ PutPlace(t) \/ Place(t) \/ GcDelete(t) \/ GcUnlink(t) \/ ValidateSet(t)
             \/ CleanupChunks(t)
      PROVE  Good'
  <2>1. UNCHANGED <<ustate, artifact, chunkRow>>
    BY <1>7 DEF PutPlace, Place, GcDelete, GcUnlink, ValidateSet, CleanupChunks
  <2> QED BY <1>1, <2>1
<1>8. ASSUME NEW t \in Threads, Rollback(t) PROVE Good'
  BY <1>1, <1>8 DEF Rollback, Inv, TypeOK, StateTypeOK
<1>9. CASE Restart
  BY <1>1, <1>9 DEF Restart
<1>10. CASE UNCHANGED <<upVars, rowVars, files>> BY <1>1, <1>10
<1>11. Good' BY <1>2, <1>3, <1>4, <1>5, <1>6, <1>7, <1>8, <1>9, <1>10, Changes
<1> QED BY <1>11

(* Counts follow the artifact rows: a commit adds one of each, a delete    *)
(* takes one of each, and gc deletes a row only at a count of zero.        *)
LEMMA CountsStep ==
  ASSUME Inv, [Next]_vars
  PROVE  RefcountExact'
<1> USE DEF upVars, rowVars
<1>1. ASSUME artifact' = artifact,
             \A h \in Hashes : \/ blob'[h] = blob[h]
                               \/ blob'[h] = None /\ Refs(h) = {}
                               \/ blob[h] # None /\ blob'[h] # None /\ blob'[h].refs = blob[h].refs
      PROVE  RefcountExact'
  <2>1. \A h \in Hashes : Refs(h)' = Refs(h) BY <1>1 DEF Refs
  <2> QED BY <1>1, <2>1 DEF Inv, RefcountExact
<1>2. ASSUME NEW g \in Hashes,
             \A h \in Hashes \ {g} : blob'[h] = blob[h] /\ Refs(h)' = Refs(h),
             blob'[g] # None, blob'[g].refs = Cardinality(Refs(g)')
      PROVE  RefcountExact'
  <2>1. ASSUME NEW h \in Hashes
        PROVE  IF blob'[h] = None THEN Refs(h)' = {} ELSE blob'[h].refs = Cardinality(Refs(h)')
    <3>1. CASE h = g BY <1>2, <3>1
    <3>2. CASE h # g BY <1>2, <3>2 DEF Inv, RefcountExact
    <3> QED BY <3>1, <3>2
  <2> QED BY <2>1 DEF RefcountExact
<1>3. ASSUME NEW u \in Uploads, DeleteArtifact(u) PROVE RefcountExact'
  <2>1. PICK g \in Hashes : g = artifact[u]
    BY <1>3 DEF DeleteArtifact, Inv, TypeOK, StateTypeOK
  <2>2. \A v \in Uploads : artifact'[v] = IF v = u THEN None ELSE artifact[v]
    BY <1>3 DEF DeleteArtifact, Inv, TypeOK, StateTypeOK
  <2>3. /\ u \in Refs(g) /\ Refs(g)' = Refs(g) \ {u}
        /\ \A h \in Hashes \ {g} : Refs(h)' = Refs(h)
    BY <2>1, <2>2, NoneFresh DEF Refs
  <2>4. Cardinality(Refs(g)') = Cardinality(Refs(g)) - 1
    BY <2>3, RefsCount, FS_RemoveElement
  <2>5. blob[g] # None /\ blob[g] \in Row /\ blob[g].refs = Cardinality(Refs(g))
    BY <2>3 DEF Inv, RefcountExact, TypeOK, StateTypeOK
  <2>6. blob' = [blob EXCEPT ![g] = [blob[g] EXCEPT !.refs = blob[g].refs - 1]]
    BY <1>3, <2>1, <2>5 DEF DeleteArtifact, SetRow
  <2>7. blob[g].refs - 1 \in Int BY <2>5 DEF Row
  <2>8. /\ [blob[g] EXCEPT !.refs = blob[g].refs - 1] \in Row
        /\ [blob[g] EXCEPT !.refs = blob[g].refs - 1].refs = blob[g].refs - 1
    BY ONLY <2>5, <2>7, RowFields
  <2>9. /\ blob'[g] = [blob[g] EXCEPT !.refs = blob[g].refs - 1]
        /\ \A h \in Hashes \ {g} : blob'[h] = blob[h]
    BY <2>6 DEF Inv, TypeOK, StateTypeOK
  <2>10. blob'[g] # None /\ blob'[g].refs = Cardinality(Refs(g)')
    BY <2>4, <2>5, <2>8, <2>9, NoneFresh
  <2> QED BY <1>2, <2>3, <2>9, <2>10
<1>8. ASSUME NEW t \in Threads, Commit(t) PROVE RefcountExact'
  <2>1. PICK u \in Uploads, g \in Hashes : u = job[t].u /\ g = job[t].h
    BY <1>8 DEF Commit, Inv, ThreadInv, JobSet, Owning
  <2>2. ustate[u] = "finalizing" /\ artifact[u] = None
    BY <1>8, <2>1 DEF Commit, Inv, ThreadInv, OwnsUpload, Owning, ArtifactFinalized
  <2>3. \A v \in Uploads : artifact'[v] = IF v = u THEN g ELSE artifact[v]
    BY <1>8, <2>1 DEF Commit, Inv, TypeOK, StateTypeOK
  <2>4. /\ u \notin Refs(g) /\ Refs(g)' = Refs(g) \cup {u}
        /\ \A h \in Hashes \ {g} : Refs(h)' = Refs(h)
    BY <2>2, <2>3, NoneFresh DEF Refs
  <2>5. Cardinality(Refs(g)') = Cardinality(Refs(g)) + 1
    BY <2>4, RefsCount, FS_AddElement
  <2>6. CASE blob[g] = None
    <3>1. blob' = [blob EXCEPT ![g] = [refs |-> 1, validated |-> 0]]
      BY <1>8, <2>1, <2>6 DEF Commit, SetRow
    <3>2. /\ blob'[g] = [refs |-> 1, validated |-> 0]
          /\ \A h \in Hashes \ {g} : blob'[h] = blob[h]
      BY <3>1 DEF Inv, TypeOK, StateTypeOK
    <3>3. [refs |-> 1, validated |-> 0] \in Row BY DEF Row
    <3>4. Cardinality(Refs(g)) = 0 BY <2>6, RefsCount DEF Inv, RefcountExact
    <3>5. blob'[g] # None /\ blob'[g].refs = Cardinality(Refs(g)')
      BY <2>5, <3>2, <3>3, <3>4, NoneFresh
    <3> QED BY <1>2, <2>4, <3>2, <3>5
  <2>7. CASE blob[g] # None
    <3>1. blob[g] \in Row /\ blob[g].refs = Cardinality(Refs(g))
      BY <2>7 DEF Inv, RefcountExact, TypeOK, StateTypeOK
    <3>2. blob' = [blob EXCEPT ![g] = [blob[g] EXCEPT !.refs = blob[g].refs + 1]]
      BY <1>8, <2>1, <2>7 DEF Commit, SetRow
    <3>3. blob[g].refs + 1 \in Int BY <3>1 DEF Row
    <3>4. /\ [blob[g] EXCEPT !.refs = blob[g].refs + 1] \in Row
          /\ [blob[g] EXCEPT !.refs = blob[g].refs + 1].refs = blob[g].refs + 1
      BY ONLY <3>1, <3>3, RowFields
    <3>5. /\ blob'[g] = [blob[g] EXCEPT !.refs = blob[g].refs + 1]
          /\ \A h \in Hashes \ {g} : blob'[h] = blob[h]
      BY <3>2 DEF Inv, TypeOK, StateTypeOK
    <3>6. blob'[g] # None /\ blob'[g].refs = Cardinality(Refs(g)')
      BY <2>5, <3>1, <3>4, <3>5, NoneFresh
    <3> QED BY <1>2, <2>4, <3>5, <3>6
  <2> QED BY <2>6, <2>7
<1>4. ASSUME NEW t \in Threads, GcDelete(t) PROVE RefcountExact'
  <2>1. job[t].h \in Hashes BY <1>4 DEF GcDelete, Inv, ThreadInv, JobSet
  <2>2. ASSUME blob[job[t].h] # None, blob[job[t].h].refs <= 0 PROVE Refs(job[t].h) = {}
    <3>1. PICK h \in Hashes : h = job[t].h BY <2>1
    <3> QED BY <2>2, <3>1, RefsCount DEF Inv, RefcountExact
  <2>3. \A h \in Hashes : \/ blob'[h] = blob[h]
                          \/ blob'[h] = None /\ Refs(h) = {}
    BY <1>4, <2>1, <2>2 DEF GcDelete, SetRow, Inv, TypeOK, StateTypeOK
  <2>4. artifact' = artifact BY <1>4 DEF GcDelete
  <2> QED BY <1>1, <2>3, <2>4
<1>5. ASSUME NEW t \in Threads, ValidateSet(t) PROVE RefcountExact'
  <2>1. job[t].h \in Hashes /\ job[t].flag \in {1, -1}
    BY <1>5 DEF ValidateSet, Inv, ThreadInv, JobSet
  <2>2. blob[job[t].h] # None => blob[job[t].h] \in Row BY <2>1 DEF Inv, TypeOK, StateTypeOK
  <2>3. \A h \in Hashes : \/ blob'[h] = blob[h]
                          \/ blob[h] # None /\ blob'[h] = [blob[h] EXCEPT !.validated = job[t].flag]
    BY <1>5, <2>1 DEF ValidateSet, SetRow, Inv, TypeOK, StateTypeOK
  <2>4. \A h \in Hashes : blob[h] # None => blob[h] \in Row BY DEF Inv, TypeOK, StateTypeOK
  <2>5. \A h \in Hashes : \/ blob'[h] = blob[h]
                          \/ blob[h] # None /\ blob'[h] # None /\ blob'[h].refs = blob[h].refs
    <3>1. TAKE h \in Hashes
    <3>2. CASE blob'[h] = blob[h] BY <3>2
    <3>3. CASE blob'[h] # blob[h]
      <4>1. blob[h] \in Row /\ blob[h] # None /\ job[t].flag \in {0, 1, -1}
            /\ blob'[h] = [blob[h] EXCEPT !.validated = job[t].flag]
        BY <2>1, <2>3, <2>4, <3>3
      <4>2. /\ [blob[h] EXCEPT !.validated = job[t].flag] \in Row
            /\ [blob[h] EXCEPT !.validated = job[t].flag].refs = blob[h].refs
        BY ONLY <4>1, RowFields
      <4> QED BY ONLY <4>1, <4>2, NoneFresh
    <3> QED BY <3>2, <3>3
  <2>6. artifact' = artifact BY <1>5 DEF ValidateSet
  <2> QED BY <1>1, <2>5, <2>6
<1>6. ASSUME UNCHANGED <<artifact, blob>> PROVE RefcountExact' BY <1>1, <1>6
<1>7. CASE \/ UNCHANGED <<upVars, rowVars, files>>
           \/ \E u \in Uploads : CreateUpload(u)
           \/ \E t \in Threads, u \in Uploads, h \in Hashes : FinalizeBegin(t, u, h)
           \/ \E t \in Threads : \/ PutPlace(t) \/ PutInsert(t) \/ Place(t)
                                 \/ CleanupChunks(t) \/ Rollback(t) \/ GcUnlink(t)
           \/ Restart
  <2>1. UNCHANGED <<artifact, blob>>
    BY <1>7 DEF CreateUpload, FinalizeBegin, PutPlace, PutInsert, Place, CleanupChunks, Rollback,
         GcUnlink, Restart
  <2> QED BY <1>6, <2>1
<1> QED BY <1>3, <1>4, <1>5, <1>7, <1>8, Changes

(* A row has its file: commits come after placing, unlinks after deleting, *)
(* and nobody else commits or unlinks the hash meanwhile.                  *)
LEMMA FilesStep ==
  ASSUME Inv, [Next]_vars
  PROVE  RowHasFile'
<1> USE DEF upVars, rowVars
<1>1. ASSUME files \subseteq files',
             \A h \in Hashes : blob'[h] # None => blob[h] # None
      PROVE  RowHasFile'
  BY <1>1 DEF Inv, RowHasFile
<1>2. ASSUME NEW u \in Uploads, DeleteArtifact(u) PROVE RowHasFile'
  <2>1. artifact[u] \in Hashes /\ files' = files
    BY <1>2 DEF DeleteArtifact, Inv, TypeOK, StateTypeOK
  <2>2. \A h \in Hashes : blob'[h] # None => blob[h] # None
    BY <1>2, <2>1 DEF DeleteArtifact, SetRow, Inv, TypeOK, StateTypeOK
  <2> QED BY <1>1, <2>1, <2>2
<1>3. ASSUME NEW t \in Threads, Commit(t) PROVE RowHasFile'
  <2>1. job[t].h \in Hashes /\ job[t].h \in files
    BY <1>3 DEF Commit, Inv, ThreadInv, JobSet, Owning, OwnsBlob
  <2>2. \A h \in Hashes \ {job[t].h} : blob'[h] = blob[h]
    BY <1>3, <2>1 DEF Commit, SetRow, Inv, TypeOK, StateTypeOK
  <2> QED BY <1>3, <2>1, <2>2 DEF Commit, Inv, RowHasFile
<1>4. ASSUME NEW t \in Threads, GcUnlink(t) PROVE RowHasFile'
  BY <1>4 DEF GcUnlink, Inv, RowHasFile
<1>5. ASSUME NEW t \in Threads, GcDelete(t) \/ ValidateSet(t) PROVE RowHasFile'
  <2>1. job[t].h \in Hashes BY <1>5 DEF GcDelete, ValidateSet, Inv, ThreadInv, JobSet
  <2>2. \A h \in Hashes : blob'[h] # None => blob[h] # None
    BY <1>5, <2>1 DEF GcDelete, ValidateSet, SetRow, Inv, TypeOK, StateTypeOK
  <2>3. files' = files BY <1>5 DEF GcDelete, ValidateSet
  <2> QED BY <1>1, <2>2, <2>3
<1>6. ASSUME blob' = blob, files \subseteq files' PROVE RowHasFile' BY <1>1, <1>6
<1> QED
  BY <1>2, <1>3, <1>4, <1>5, <1>6, Changes
  DEF CreateUpload, FinalizeBegin, PutPlace, PutInsert, Place, CleanupChunks, Rollback, Restart

-----------------------------------------------------------------------------
(* Inv holds initially.                                                    *)
LEMMA InvInit == Init => Inv
<1> SUFFICES ASSUME Init PROVE Inv
  OBVIOUS
<1> USE DEF Init, InitState
<1>1. TypeOK
  <2>1. pc \in [Threads -> Labels] /\ job \in [Threads -> Jobs({1, -1})]
    BY NoJobIsJob DEF Labels
  <2>2. crashes \in 0..MaxCrashes BY CrashesAssumption
  <2> QED BY <2>1, <2>2 DEF TypeOK, StateTypeOK
<1>2. \A t \in Threads : ThreadInv(t)
  BY DEF ThreadInv, JobSet, OwnsChunk, OwnsUpload, OwnsBlob, Owning, Verified, Getting, BlobLocked
<1>3. \A h \in Hashes : Refs(h) = {} BY NoneFresh DEF Refs
<1>4. None # "finalized" BY NoneFresh DEF States
<1> QED BY <1>1, <1>2, <1>3, <1>4
    DEF Inv, ChunkBytesKept, ArtifactIsItsChunks, RefcountExact, ArtifactFinalized,
        FinalizedReceived, RowHasFile

(* Inv is inductive.                                                       *)
LEMMA InvStep ==
  ASSUME Inv, [Next]_vars
  PROVE  Inv'
BY TypeStep, ThreadStep, ChunksStep, ArtifactsStep, CountsStep, FilesStep DEF Inv

(* The rows of a live artifact's hash, and its file, are there.            *)
LEMMA LiveStored ==
  ASSUME Inv, NEW u \in Uploads, artifact[u] # None
  PROVE  artifact[u] \in Hashes /\ blob[artifact[u]] # None /\ artifact[u] \in files
<1>1. artifact[u] \in Hashes /\ u \in Refs(artifact[u]) BY DEF Inv, TypeOK, StateTypeOK, Refs
<1>2. blob[artifact[u]] # None BY <1>1 DEF Inv, RefcountExact
<1> QED BY <1>1, <1>2 DEF Inv, RowHasFile

(* Threads own the chunks, uploads and hashes they work on, and the tables *)
(* and files agree, in every reachable state of the store.                 *)
THEOREM Invariance == Spec => []Inv
BY InvInit, InvStep, PTL DEF Spec

(* The bytes of a live artifact are there: placing, committing, deleting,  *)
(* collecting and rolling back never interleave into a loss.               *)
THEOREM ArtifactsReadable == Spec => []ArtifactReadable
<1>1. Inv => ArtifactReadable BY LiveStored DEF ArtifactReadable
<1> QED BY Invariance, <1>1, PTL

(* A refcount is the number of artifact rows of its hash.                  *)
THEOREM RefcountsExact == Spec => []RefcountExact
<1>1. Inv => RefcountExact BY DEF Inv
<1> QED BY Invariance, <1>1, PTL

(* A download that has answered 200 fails only for a deleted artifact.     *)
THEOREM CutsOnlyDeleted == Spec => CutOnlyIfDeleted
<1>1. ASSUME Inv, [Next]_vars, NEW t \in Threads, pc[t] = "getOpen", pc'[t] = "cut"
      PROVE  artifact[job[t].u] = None
  <2>1. GetOpen(t)
    <3> USE DEF Goto, Begin, Finish, Idle, TypeOK, StateTypeOK
    <3>1. TypeOK BY <1>1 DEF Inv
    <3>2. ASSUME NEW r \in Threads, Request(r) PROVE FALSE
      BY <1>1, <3>1, <3>2 DEF Request, PutCheck, FinalizeBegin, GetRow, GcScan, ValidateScan
    <3>3. ASSUME NEW r \in Threads, Step(r) PROVE GetOpen(t)
      <4>1. CASE r = t
        BY <1>1, <3>1, <3>3, <4>1 DEF Step, PutPlace, PutInsert, PutError, CountChunks, Assemble,
             LockBlob, Place, Commit, CheckFile, CleanupChunks, FinalizeError, Rollback, Abandon,
             GetStat, GetCut, GcDelete, GcUnlink, GcEnd, ValidateSet, ValidateEnd, GcLock,
             ValidateRead
      <4>2. CASE r # t
        BY <1>1, <3>1, <3>3, <4>2 DEF Step, PutPlace, PutInsert, PutError, CountChunks, Assemble,
             LockBlob, Place, Commit, CheckFile, CleanupChunks, FinalizeError, Rollback, Abandon,
             GetStat, GetOpen, GetCut, GcDelete, GcUnlink, GcEnd, ValidateSet, ValidateEnd,
             GcLock, ValidateRead
      <4> QED BY <4>1, <4>2
    <3>4. ~UNCHANGED pc BY <1>1
    <3> QED BY <1>1, <3>2, <3>3, <3>4 DEF Next, CreateUpload, DeleteArtifact, Restart, Killed,
         vars
  <2>2. job[t].h \notin files
    BY <1>1, <2>1 DEF GetOpen, Finish, Begin, Inv, TypeOK, StateTypeOK
  <2>3. job[t].u \in Uploads /\ artifact[job[t].u] \in {None, job[t].h}
    BY <1>1 DEF Inv, ThreadInv, JobSet, OwnsUpload, Getting
  <2> QED BY <1>1, <2>2, <2>3, LiveStored
<1>2. Inv /\ [Next]_vars =>
        [\A t \in Threads : pc[t] = "getOpen" /\ pc'[t] = "cut" => artifact[job[t].u] = None]_vars
  BY <1>1
<1> QED BY <1>2, Invariance, PTL DEF Spec, CutOnlyIfDeleted

-----------------------------------------------------------------------------
(***************************************************************************)
(* OpusVault implements VaultContract, for every value of the constants:   *)
(* under the mapping of ImplementsContract each step of the store is a     *)
(* step of the contract or changes nothing a client of the contract sees.  *)
(***************************************************************************)
(* What ImplementsContract maps to the contract's status; `stored' is      *)
(* files and `received' is chunkRow.                                       *)
Status == [u \in Uploads |->
             IF ustate[u] = None THEN "absent"
             ELSE IF artifact[u] # None THEN "live"
             ELSE IF ustate[u] = "finalized" THEN "gone" ELSE "open"]

(* A state of an upload is not `None'.                                     *)
LEMMA StateNotNone == \A s \in States : s # None
BY NoneFresh

(* A step that leaves the mapped state alone is a stutter of the contract. *)
LEMMA Invisible ==
  ASSUME Status' = Status, chunkRow' = chunkRow, files' = files
  PROVE  [Contract!Next]_Contract!vars
BY DEF Status, Contract!vars

(* Moving between `uploading' and `finalizing' shows in no mapped state.   *)
LEMMA Undecided ==
  ASSUME Inv, artifact' = artifact, chunkRow' = chunkRow, files' = files,
         \A u \in Uploads : \/ ustate'[u] = ustate[u]
                            \/ {ustate[u], ustate'[u]} \subseteq {"uploading", "finalizing"}
  PROVE  [Contract!Next]_Contract!vars
<1>1. ASSUME NEW u \in Uploads PROVE Status'[u] = Status[u]
  <2>1. CASE ustate'[u] = ustate[u] BY <2>1, artifact' = artifact DEF Status
  <2>2. CASE ustate'[u] # ustate[u]
    BY <2>2, artifact' = artifact, StateNotNone DEF Status, States
  <2> QED BY <2>1, <2>2
<1>2. Status' = Status BY <1>1 DEF Status
<1> QED BY <1>2, Invisible

(* The initial states map to initial states of the contract.               *)
LEMMA InitImplements == Init => Contract!Init
BY DEF Init, InitState, Contract!Init

(* Creating an upload opens it, deleting an artifact removes it.           *)
LEMMA UploadImplements ==
  ASSUME Inv, NEW u \in Uploads, CreateUpload(u) \/ DeleteArtifact(u)
  PROVE  [Contract!Next]_Contract!vars
<1> USE DEF upVars, rowVars
<1>1. CASE CreateUpload(u)
  <2>1. artifact[u] = None
    BY <1>1, StateNotNone DEF CreateUpload, Inv, ArtifactFinalized, States
  <2>2. Status' = [Status EXCEPT ![u] = "open"] /\ Status[u] = "absent"
    BY <1>1, <2>1, StateNotNone DEF CreateUpload, Status, States, Inv, TypeOK, StateTypeOK
  <2>3. Contract!Open(u) BY <1>1, <2>2 DEF Contract!Open, CreateUpload, Status
  <2> QED BY <2>3 DEF Contract!Next
<1>2. CASE DeleteArtifact(u)
  <2>1. \A v \in Uploads : artifact'[v] = IF v = u THEN None ELSE artifact[v]
    BY <1>2 DEF DeleteArtifact, Inv, TypeOK, StateTypeOK
  <2>2. ustate[u] = "finalized" /\ artifact[u] # None
    BY <1>2 DEF DeleteArtifact, Inv, ArtifactFinalized
  <2>3. Status[u] = "live" /\ Status' = [Status EXCEPT ![u] = "gone"]
    BY <1>2, <2>1, <2>2, StateNotNone DEF DeleteArtifact, Status, States
  <2>4. Contract!Remove(u) BY <1>2, <2>3 DEF DeleteArtifact, Contract!Remove, Status
  <2> QED BY <2>4 DEF Contract!Next
<1> QED BY <1>1, <1>2

(* A thread's step receives a chunk, stores, publishes or collects.        *)
LEMMA StepImplements ==
  ASSUME Inv, NEW t \in Threads,
         \/ PutInsert(t) \/ Place(t) \/ Commit(t) \/ Rollback(t) \/ GcUnlink(t)
         \/ PutPlace(t) \/ CleanupChunks(t) \/ GcDelete(t) \/ ValidateSet(t)
  PROVE  [Contract!Next]_Contract!vars
<1> USE DEF upVars, rowVars
<1>1. CASE PutInsert(t)
  <2>1. PICK u \in Uploads, i \in Chunks, d \in Data :
          u = job[t].u /\ i = job[t].i /\ d = job[t].d
    BY <1>1 DEF PutInsert, Inv, ThreadInv, JobSet
  <2>2. ustate[u] # None /\ chunkRow[u][i] = None
    BY <1>1, <2>1 DEF PutInsert, Inv, ThreadInv, JobSet, OwnsChunk
  <2>3. ustate[u] # "finalized" BY <2>2 DEF Inv, FinalizedReceived, Received
  <2>4. Status[u] = "open" /\ Status' = Status
    BY <1>1, <2>2, <2>3 DEF PutInsert, Status, Inv, ArtifactFinalized
  <2>5. chunkRow' = [chunkRow EXCEPT ![u][i] = d]
    BY <1>1, <2>1, <2>2 DEF PutInsert, Inv, TypeOK, StateTypeOK
  <2>6. Contract!Receive(u, i, d)
    BY <1>1, <2>2, <2>4, <2>5 DEF PutInsert, Contract!Receive, Status
  <2> QED BY <2>6 DEF Contract!Next
<1>2. CASE Place(t)
  <2>1. job[t].h \in Hashes BY <1>2 DEF Place, Inv, ThreadInv, JobSet, Owning
  <2>2. files' \in SUBSET Contract!Hashes /\ files \subseteq files'
    BY <1>2, <2>1
    DEF Place, Inv, TypeOK, StateTypeOK, Hashes, Contents, Contract!Hashes, Contract!Contents
  <2>3. Contract!Store BY <1>2, <2>2 DEF Place, Contract!Store, Status
  <2> QED BY <2>3 DEF Contract!Next
<1>3. CASE Commit(t)
  <2>1. PICK u \in Uploads, h \in Hashes : u = job[t].u /\ h = job[t].h
    BY <1>3 DEF Commit, Inv, ThreadInv, JobSet, Owning
  <2>2. ustate[u] = "finalizing" /\ Received(u) /\ Digest[chunkRow[u]] = h /\ h \in files
    BY <1>3, <2>1 DEF Commit, Inv, ThreadInv, OwnsUpload, OwnsBlob, Owning, Verified
  <2>3. artifact[u] = None BY <2>2 DEF Inv, ArtifactFinalized
  <2>4. chunkRow[u] \in Contents BY <2>2 DEF Received, Inv, TypeOK, StateTypeOK, Contents
  <2>5. Status[u] = "open" BY <2>2, <2>3, StateNotNone DEF Status, States
  <2>6. \A v \in Uploads : /\ ustate'[v] = IF v = u THEN "finalized" ELSE ustate[v]
                           /\ artifact'[v] = IF v = u THEN h ELSE artifact[v]
    BY <1>3, <2>1 DEF Commit, Inv, TypeOK, StateTypeOK
  <2>7. Status' = [Status EXCEPT ![u] = "live"]
    BY <2>6, NoneFresh, StateNotNone DEF Status, States
  <2>8. Contract!Publish(u)
    BY <1>3, <2>2, <2>4, <2>5, <2>7
    DEF Commit, Contract!Publish, Contract!HashOf, Contract!Contents, Contents, Status
  <2> QED BY <2>8 DEF Contract!Next
<1>4. CASE Rollback(t)
  <2>1. \A u \in Uploads : \/ ustate'[u] = ustate[u]
                           \/ {ustate[u], ustate'[u]} \subseteq {"uploading", "finalizing"}
    BY <1>4 DEF Rollback, Inv, TypeOK, StateTypeOK
  <2> QED BY <1>4, <2>1, Undecided DEF Rollback
<1>5. CASE GcUnlink(t)
  <2>1. PICK h \in Hashes : h = job[t].h BY <1>5 DEF GcUnlink, Inv, ThreadInv, JobSet
  <2>2. blob[h] = None /\ files' = files \ {h}
    BY <1>5, <2>1 DEF GcUnlink, Inv, ThreadInv, OwnsBlob
  <2>3. UNCHANGED <<ustate, chunkRow, artifact, blob>> BY <1>5 DEF GcUnlink
  <2>4. ASSUME NEW u \in Uploads, Status[u] = "live" PROVE Digest[chunkRow[u]] \in files'
    <3>1. artifact[u] # None BY <2>4 DEF Status
    <3>2. artifact[u] = Digest[chunkRow[u]] BY <3>1 DEF Inv, ArtifactIsItsChunks
    <3>3. blob[artifact[u]] # None /\ artifact[u] \in files BY <3>1, LiveStored
    <3> QED BY <2>2, <3>2, <3>3
  <2>5. Contract!Collect
    BY <2>2, <2>3, <2>4
    DEF Contract!Collect, Contract!Live, Contract!HashOf, Status
  <2> QED BY <2>5 DEF Contract!Next
<1>6. CASE PutPlace(t) \/ CleanupChunks(t) \/ GcDelete(t) \/ ValidateSet(t)
  <2>1. UNCHANGED <<ustate, chunkRow, artifact, files>>
    BY <1>6 DEF PutPlace, CleanupChunks, GcDelete, ValidateSet
  <2> QED BY <2>1, Invisible DEF Status
<1> QED BY <1>1, <1>2, <1>3, <1>4, <1>5, <1>6

(* The store implements the contract of vaultdrop/product.md: at most one  *)
(* artifact per upload, made of the first bytes recorded for each chunk,   *)
(* published only once its bytes are held, and held until it is removed.   *)
THEOREM Implements == Spec => ImplementsContract
<1>1. Init => Contract!Init BY InitImplements
<1>2. Inv /\ [Next]_vars => [Contract!Next]_Contract!vars
  <2> SUFFICES ASSUME Inv, [Next]_vars PROVE [Contract!Next]_Contract!vars
    OBVIOUS
  <2>1. CASE UNCHANGED <<upVars, rowVars, files>>
    BY <2>1, Invisible DEF upVars, rowVars, Status
  <2>2. ASSUME NEW t \in Threads, NEW u \in Uploads, NEW h \in Hashes, FinalizeBegin(t, u, h)
        PROVE  [Contract!Next]_Contract!vars
    <3>1. \A v \in Uploads : \/ ustate'[v] = ustate[v]
                             \/ {ustate[v], ustate'[v]} \subseteq {"uploading", "finalizing"}
      BY <2>2 DEF FinalizeBegin, Inv, TypeOK, StateTypeOK
    <3> QED BY <2>2, <3>1, Undecided DEF FinalizeBegin, rowVars
  <2>3. CASE Restart
    <3>1. \A v \in Uploads : \/ ustate'[v] = ustate[v]
                             \/ {ustate[v], ustate'[v]} \subseteq {"uploading", "finalizing"}
      BY <2>3 DEF Restart
    <3> QED BY <2>3, <3>1, Undecided DEF Restart, rowVars
  <2> QED BY <2>1, <2>2, <2>3, UploadImplements, StepImplements, Changes
<1> QED BY <1>1, <1>2, Invariance, PTL DEF Spec, ImplementsContract, Contract!Spec
-----------------------------------------------------------------------------
(* What the contract promises of an upload and of its artifact holds from  *)
(* one step to the next.                                                   *)
LEMMA Promises ==
  ASSUME chunkRow \in [Uploads -> [Chunks -> Data \cup {None}]], [Contract!Next]_Contract!vars,
         NEW u \in Uploads
  PROVE  /\ \A i \in Chunks : chunkRow[u][i] # None => chunkRow'[u][i] = chunkRow[u][i]
         /\ Status[u] \in {"live", "gone"} =>
              chunkRow'[u] = chunkRow[u] /\ Status'[u] \in {Status[u], "gone"}
<1> DEFINE Kept == /\ \A i \in Chunks : chunkRow[u][i] # None => chunkRow'[u][i] = chunkRow[u][i]
                   /\ Status[u] \in {"live", "gone"} =>
                        chunkRow'[u] = chunkRow[u] /\ Status'[u] \in {Status[u], "gone"}
<1>1. Status \in [Uploads -> {"absent", "open", "live", "gone"}] BY DEF Status
<1>2. ASSUME NEW v \in Uploads, Contract!Open(v) PROVE Kept
  <2>1. /\ Status[v] = "absent" /\ Status' = [Status EXCEPT ![v] = "open"]
        /\ chunkRow' = chunkRow
    BY <1>2 DEF Contract!Open, Status
  <2> QED BY <1>1, <2>1
<1>3. ASSUME NEW v \in Uploads, Contract!Publish(v) PROVE Kept
  <2>1. /\ Status[v] = "open" /\ Status' = [Status EXCEPT ![v] = "live"]
        /\ chunkRow' = chunkRow
    BY <1>3 DEF Contract!Publish, Status
  <2> QED BY <1>1, <2>1
<1>4. ASSUME NEW v \in Uploads, Contract!Remove(v) PROVE Kept
  <2>1. Status' = [Status EXCEPT ![v] = "gone"] /\ chunkRow' = chunkRow
    BY <1>4 DEF Contract!Remove, Status
  <2> QED BY <1>1, <2>1
<1>5. ASSUME NEW v \in Uploads, NEW j \in Chunks, NEW d \in Data, Contract!Receive(v, j, d)
      PROVE  Kept
  <2>1. /\ Status[v] = "open" /\ Status' = Status
        /\ chunkRow[v][j] = None /\ chunkRow' = [chunkRow EXCEPT ![v][j] = d]
    BY <1>5 DEF Contract!Receive, Status
  <2> QED BY <1>1, <2>1
<1>6. CASE Contract!Store \/ Contract!Collect \/ UNCHANGED Contract!vars
  <2>1. Status' = Status /\ chunkRow' = chunkRow
    BY <1>6 DEF Contract!Store, Contract!Collect, Contract!vars, Status
  <2> QED BY <2>1
<1> QED BY <1>2, <1>3, <1>4, <1>5, <1>6 DEF Contract!Next

(* The bytes first accepted for a chunk are final, and an artifact never   *)
(* changes and is published once: by the contract, whatever the store does *)
(* beneath it.                                                             *)
THEOREM Immutable == Spec => Contract!FirstBytesFinal /\ Contract!PublishedOnce
<1>1. Inv /\ [Contract!Next]_Contract!vars =>
        [\A u \in Uploads, i \in Chunks :
           chunkRow[u][i] # None => chunkRow'[u][i] = chunkRow[u][i]]_(Contract!vars)
  BY Promises DEF Inv, TypeOK, StateTypeOK
<1>2. Inv /\ [Contract!Next]_Contract!vars =>
        [\A u \in Uploads : Status[u] \in {"live", "gone"} =>
           chunkRow'[u] = chunkRow[u] /\ Status'[u] \in {Status[u], "gone"}]_(Contract!vars)
  BY Promises DEF Inv, TypeOK, StateTypeOK
<1> QED
  BY <1>1, <1>2, Implements, Invariance, PTL
  DEF ImplementsContract, Contract!Spec, Contract!FirstBytesFinal, Contract!PublishedOnce, Status

(* A step of the contract leaves every live artifact with its bytes.       *)
LEMMA KeepsLive ==
  ASSUME chunkRow \in [Uploads -> [Chunks -> Data \cup {None}]], [Contract!Next]_Contract!vars,
         Contract!LiveKept
  PROVE  Contract!LiveKept'
<1> DEFINE Kept(u) == chunkRow[u] \in Contents /\ Digest[chunkRow[u]] \in files
<1>1. \A u \in Uploads : Status[u] = "live" => Kept(u)
  BY DEF Contract!LiveKept, Contract!Live, Contract!HashOf, Contract!Contents, Contents, Status
<1>2. ASSUME NEW u \in Uploads, Status'[u] = "live"
      PROVE  chunkRow'[u] \in Contents /\ Digest[chunkRow'[u]] \in files'
  <2>1. CASE Status[u] = "live"
    <3>1. chunkRow'[u] = chunkRow[u] BY <2>1, Promises
    <3>2. CASE Contract!Collect
      BY <2>1, <1>1, <3>1, <3>2 DEF Contract!Collect, Contract!Live, Contract!HashOf, Status
    <3>3. CASE ~Contract!Collect
      <4>1. files \subseteq files'
        BY <3>3 DEF Contract!Next, Contract!Open, Contract!Publish, Contract!Remove,
             Contract!Receive, Contract!Store, Contract!vars
      <4> QED BY <2>1, <1>1, <3>1, <4>1
    <3> QED BY <3>2, <3>3
  <2>2. CASE Status[u] # "live"
    <3>1. Contract!Publish(u)
      <4>1. Status'[u] # Status[u] /\ Status' # Status BY <1>2, <2>2
      <4>2. ~(Contract!Store \/ Contract!Collect \/ UNCHANGED Contract!vars)
        BY <4>1 DEF Contract!Store, Contract!Collect, Contract!vars, Status
      <4>3. ASSUME NEW v \in Uploads, NEW j \in Chunks, NEW d \in Data
            PROVE  ~Contract!Receive(v, j, d)
        BY <4>1 DEF Contract!Receive, Status
      <4>4. Status \in [Uploads -> {"absent", "open", "live", "gone"}] BY DEF Status
      <4>5. ASSUME NEW v \in Uploads, Contract!Open(v) PROVE FALSE
        <5>1. Status' = [Status EXCEPT ![v] = "open"] BY <4>5 DEF Contract!Open, Status
        <5> QED BY <1>2, <2>2, <4>4, <5>1
      <4>6. ASSUME NEW v \in Uploads, Contract!Remove(v) PROVE FALSE
        <5>1. Status' = [Status EXCEPT ![v] = "gone"] BY <4>6 DEF Contract!Remove, Status
        <5> QED BY <1>2, <2>2, <4>4, <5>1
      <4>7. ASSUME NEW v \in Uploads, v # u, Contract!Publish(v) PROVE FALSE
        <5>1. Status' = [Status EXCEPT ![v] = "live"] BY <4>7 DEF Contract!Publish, Status
        <5> QED BY <1>2, <2>2, <4>4, <4>7, <5>1
      <4> QED BY <4>2, <4>3, <4>5, <4>6, <4>7 DEF Contract!Next
    <3> QED
      BY <3>1 DEF Contract!Publish, Contract!HashOf, Contract!Contents, Contents, Status
  <2> QED BY <2>1, <2>2
<1> QED
  BY <1>2
  DEF Contract!LiveKept, Contract!Live, Contract!HashOf, Contract!Contents, Contents, Status

(* A live artifact is complete and its bytes are held until it is removed. *)
THEOREM HeldWhileLive == Spec => []Contract!LiveKept
<1>1. Contract!Init => Contract!LiveKept
  BY DEF Contract!Init, Contract!LiveKept, Contract!Live
<1>2. Inv /\ Contract!LiveKept /\ [Contract!Next]_Contract!vars => Contract!LiveKept'
  BY KeepsLive DEF Inv, TypeOK, StateTypeOK
<1> QED BY <1>1, <1>2, Implements, Invariance, PTL DEF ImplementsContract, Contract!Spec
=============================================================================

--------------------------- MODULE SolVaultProofs ---------------------------
(***************************************************************************)
(* Proofs about SolVault for every set of uploads, chunks, contents and    *)
(* threads, every collision-free digest and any number of crashes: Inv is  *)
(* inductive (one lemma per group of its conjuncts, one step per action),  *)
(* and the safety properties follow from it.                               *)
(***************************************************************************)
EXTENDS SolVault, FiniteSetTheorems, TLAPS

(* `None' is no file, no row, no hash and no state of an upload.           *)
LEMMA NoneFresh ==
  None \notin File /\ None \notin Row /\ None \notin Hashes /\ None \notin States
BY DigestAssumption, UploadsAssumption DEF File, Row, Hashes

(* Only finitely many artifact rows refer to a hash.                       *)
LEMMA RefsCount ==
  ASSUME NEW h \in Hashes
  PROVE  /\ IsFiniteSet(Refs(h))
         /\ Cardinality(Refs(h)) \in Nat
         /\ Cardinality(Refs(h)) = 0 <=> Refs(h) = {}
<1>1. Refs(h) \subseteq Uploads BY DEF Refs
<1>2. IsFiniteSet(Refs(h)) BY <1>1, UploadsAssumption, FS_Subset
<1> QED BY <1>2, FS_CardinalityType, FS_EmptySet

(* What changing one field of a blob row leaves of the row.                *)
LEMMA RowFields ==
  ASSUME NEW r \in Row
  PROVE  /\ \A b \in BOOLEAN : /\ [r EXCEPT !.validated = b] \in Row
                               /\ [r EXCEPT !.validated = b].refs = r.refs
         /\ \A n \in Nat : [r EXCEPT !.refs = n] \in Row /\ [r EXCEPT !.refs = n].refs = n
BY DEF Row

(* The updates of a thread's local variables keep their types.             *)
LEMMA JobFields ==
  /\ NoJob \in Jobs
  /\ \A h \in Hashes, f \in File : [NoJob EXCEPT !.h = h, !.file = f] \in Jobs
  /\ \A B, T \in SUBSET Hashes : [NoJob EXCEPT !.batch = B, !.todo = T] \in Jobs
  /\ \A r \in Jobs, f \in File : [r EXCEPT !.file = f] \in Jobs
  /\ \A r \in Jobs, B \in SUBSET Hashes : [r EXCEPT !.batch = B] \in Jobs
  /\ \A r \in Jobs, B, D, M \in SUBSET Hashes :
       [r EXCEPT !.batch = B, !.dead = D, !.moved = M] \in Jobs
<1>1. NoJob \in Jobs BY DEF Jobs, NoJob
<1>2. \A h \in Hashes, f \in File : [NoJob EXCEPT !.h = h, !.file = f] \in Jobs
  BY DEF Jobs, NoJob
<1>3. \A B, T \in SUBSET Hashes : [NoJob EXCEPT !.batch = B, !.todo = T] \in Jobs
  BY DEF Jobs, NoJob
<1>4. \A r \in Jobs, f \in File : [r EXCEPT !.file = f] \in Jobs BY DEF Jobs
<1>5. \A r \in Jobs, B \in SUBSET Hashes : [r EXCEPT !.batch = B] \in Jobs BY DEF Jobs
<1>6. \A r \in Jobs, B, D, M \in SUBSET Hashes :
        [r EXCEPT !.batch = B, !.dead = D, !.moved = M] \in Jobs
  BY DEF Jobs
<1> QED BY <1>1, <1>2, <1>3, <1>4, <1>5, <1>6

(* A delete that finds its artifact row also finds its blob row counted.   *)
LEMMA DeleteCounted ==
  ASSUME Inv, NEW t \in Threads, pc[t] = "deleteTx", artifact[job[t].u] # None,
         NEW h \in Hashes, h = job[t].h
  PROVE  /\ job[t].u \in Refs(h)
         /\ blob[h] \in Row /\ blob[h].refs = Cardinality(Refs(h))
         /\ blob[h].refs - 1 \in Nat /\ Referenced(h)
<1>1. job[t].u \in Uploads /\ artifact[job[t].u] = h
  BY DEF Inv, ThreadInv, JobSet, DeletesItsHash
<1>2. job[t].u \in Refs(h) BY <1>1 DEF Refs
<1>3. blob[h] \in Row /\ blob[h].refs = Cardinality(Refs(h))
  BY <1>2 DEF Inv, RefcountExact, TypeOK
<1>4. Cardinality(Refs(h)) \in Nat \ {0} BY <1>2, RefsCount
<1>5. blob[h] # None BY <1>3, NoneFresh DEF Row
<1> QED BY <1>2, <1>3, <1>4, <1>5 DEF Referenced

(* Flags and verdicts leave every count as it is.                          *)
LEMMA SameCounts ==
  ASSUME RefcountExact, artifact' = artifact,
         \A h \in Hashes : IF blob[h] = None THEN blob'[h] = None
                           ELSE blob'[h] # None /\ blob'[h].refs = blob[h].refs
  PROVE  RefcountExact'
BY DEF RefcountExact, Refs

(* What the flags of GetVerify, the verdicts of ValidateCommit and the     *)
(* recount of RecoverDb make of a row.                                     *)
LEMMA RowsAfter ==
  ASSUME Inv,
         \/ \E t \in Threads : GetVerify(t) \/ ValidateCommit(t)
         \/ RecoverDb
  PROVE  /\ blob' \in [Hashes -> Row \cup {None}]
         /\ \A h \in Hashes : IF blob[h] = None THEN blob'[h] = None
                              ELSE blob'[h] # None /\ blob'[h].refs = blob[h].refs
<1>1. ASSUME NEW h \in Hashes, blob[h] # None PROVE blob[h] \in Row
  BY <1>1 DEF Inv, TypeOK
<1>2. ASSUME NEW t \in Threads, GetVerify(t),
             blob' = [blob EXCEPT ![job[t].h] = IF @ = None THEN None
                                                ELSE [@ EXCEPT !.validated = FALSE]],
             NEW h \in Hashes
      PROVE  IF blob[h] = None THEN blob'[h] = None
             ELSE blob'[h] \in Row /\ blob'[h].refs = blob[h].refs
  <2>1. job[t].h \in Hashes /\ blob \in [Hashes -> Row \cup {None}]
    BY <1>2 DEF Inv, ThreadInv, JobSet, GetVerify, TypeOK
  <2>2. blob'[h] \in {blob[h], [blob[h] EXCEPT !.validated = FALSE]}
        /\ (blob[h] = None => blob'[h] = None)
    BY <1>2, <2>1
  <2>3. blob[h] # None => /\ [blob[h] EXCEPT !.validated = FALSE] \in Row
                          /\ [blob[h] EXCEPT !.validated = FALSE].refs = blob[h].refs
    BY <1>1 DEF Row
  <2> QED BY <1>1, <2>2, <2>3
<1>3. ASSUME NEW h \in Hashes
      PROVE  IF blob[h] = None THEN Verdict(h) = None
             ELSE Verdict(h) \in Row /\ Verdict(h).refs = blob[h].refs
  <2> DEFINE good == h \notin val.bad
  <2>1. Verdict(h) \in {blob[h], [blob[h] EXCEPT !.validated = good]}
        /\ (blob[h] = None => Verdict(h) = None)
    BY DEF Verdict
  <2>2. good \in BOOLEAN OBVIOUS
  <2>3. blob[h] # None => /\ [blob[h] EXCEPT !.validated = good] \in Row
                          /\ [blob[h] EXCEPT !.validated = good].refs = blob[h].refs
    BY <1>1, <2>2, RowFields
  <2> QED BY <1>1, <2>1, <2>3
<1>4. ASSUME RecoverDb, NEW h \in Hashes
      PROVE  IF blob[h] = None THEN blob'[h] = None
             ELSE blob'[h] \in Row /\ blob'[h].refs = blob[h].refs
  <2>1. blob[h] # None => blob[h].refs = Cardinality(Refs(h)) BY DEF Inv, RefcountExact
  <2>2. blob'[h] = IF blob[h] = None THEN None
                   ELSE [blob[h] EXCEPT !.refs = Cardinality(Refs(h))]
    BY <1>4 DEF RecoverDb
  <2> QED BY <1>1, <2>1, <2>2, RowFields, RefsCount
<1>5. ASSUME NEW t \in Threads, GetVerify(t) \/ ValidateCommit(t)
      PROVE  /\ blob' \in [Hashes -> Row \cup {None}]
             /\ \A h \in Hashes : IF blob[h] = None THEN blob'[h] = None
                                  ELSE blob'[h] # None /\ blob'[h].refs = blob[h].refs
  <2>1. CASE ValidateCommit(t)
    <3>1. blob' = [h \in Hashes |-> Verdict(h)] BY <2>1 DEF ValidateCommit
    <3> QED BY <1>3, <3>1, NoneFresh
  <2>2. CASE GetVerify(t)
    <3>1. CASE blob' = blob BY <3>1 DEF Inv, TypeOK
    <3>2. CASE blob' # blob
      <4>1. blob' = [blob EXCEPT ![job[t].h] = IF @ = None THEN None
                                               ELSE [@ EXCEPT !.validated = FALSE]]
        BY <2>2, <3>2 DEF GetVerify
      <4>2. DOMAIN blob' = Hashes /\ blob' = [h \in Hashes |-> blob'[h]]
        BY <4>1 DEF Inv, TypeOK
      <4> QED BY <1>2, <2>2, <4>1, <4>2, NoneFresh
    <3> QED BY <3>1, <3>2
  <2> QED BY <1>5, <2>1, <2>2
<1>6. CASE RecoverDb
  <2>1. blob' = [h \in Hashes |-> blob'[h]] BY <1>6 DEF RecoverDb
  <2> QED BY <1>4, <1>6, <2>1, NoneFresh
<1> QED BY <1>5, <1>6

(* An idle thread relies on nothing.                                       *)
LEMMA IdleNext ==
  ASSUME NEW s \in Threads, pc'[s] = "idle"
  PROVE  ThreadInv(s)'
BY DEF ThreadInv, JobSet, InTransaction, OwnsUpload, HoldsLocks, DeletesItsHash, Finalizing,
       Verified


-----------------------------------------------------------------------------
(* Every step keeps the types; a delete leaves no count below zero because *)
(* the row it removes is one of those the count stands for.                *)
LEMMA TypeStep ==
  ASSUME Inv, [Next]_vars
  PROVE  TypeOK'
<1> USE DEF Goto, Finish, ReleaseBy, Idle, dbVars, fileVars, memVars, envVars
<1>1. ASSUME NEW t \in Threads, Request(t) PROVE TypeOK'
  <2>1. ASSUME NEW u \in Uploads, CreateUpload(t, u) PROVE TypeOK'
    BY <2>1, NoneFresh DEF Inv, TypeOK, Labels, Jobs, NoJob, CreateUpload, States
  <2>2. ASSUME NEW u \in Uploads, GetRow(t, u) PROVE TypeOK'
    BY <2>2, NoneFresh DEF Inv, TypeOK, Labels, Jobs, NoJob, GetRow
  <2>3. ASSUME NEW u \in Uploads, DeleteRow(t, u) PROVE TypeOK'
    BY <2>3, NoneFresh DEF Inv, TypeOK, Labels, Jobs, NoJob, DeleteRow
  <2>4. ASSUME NEW u \in Uploads, NEW i \in Chunks, NEW d \in Data, PutCheck(t, u, i, d)
       PROVE TypeOK'
    BY <2>4, NoneFresh DEF Inv, TypeOK, Labels, Jobs, NoJob, PutCheck
  <2>5. ASSUME NEW u \in Uploads, NEW h \in Hashes, Freeze(t, u, h) PROVE TypeOK'
    BY <2>5, NoneFresh DEF Inv, TypeOK, Labels, Jobs, NoJob, Freeze, States
  <2>6. CASE GcScan(t)
    <3>1. FirstN({h \in Hashes : blob[h] # None /\ blob[h].refs = 0}, BatchSize) \subseteq Hashes
      BY DEF FirstN
    <3>2. job' \in [Threads -> Jobs] /\ pc' \in [Threads -> Labels]
      BY <2>6, <3>1, JobFields DEF GcScan, NextBatch, Inv, TypeOK, Labels
    <3> QED BY <2>6, <3>2 DEF GcScan, Inv, TypeOK
  <2>7. CASE ValidateStart(t)
    <3>1. val' \in [owner : Threads \cup {None}, snap : [Hashes -> Nat \cup {None}],
                    todo : SUBSET Hashes, bad : SUBSET Hashes]
      BY <2>7 DEF ValidateStart, Inv, TypeOK, Row
    <3> QED BY <2>7, <3>1 DEF ValidateStart, Inv, TypeOK, Labels
  <2> QED BY <1>1, <2>1, <2>2, <2>3, <2>4, <2>5, <2>6, <2>7 DEF Request
<1>2. ASSUME NEW t \in Threads, Step(t) PROVE TypeOK'
  <2>1. CASE PutRefused(t)
    BY <2>1, NoneFresh DEF Inv, TypeOK, Labels, Jobs, NoJob, PutRefused
  <2>2. CASE PutRename(t)
    BY <2>2, NoneFresh DEF Inv, TypeOK, Labels, Jobs, NoJob, PutRename
  <2>3. CASE PutCommit(t)
    BY <2>3, NoneFresh DEF Inv, TypeOK, Labels, Jobs, NoJob, PutCommit
  <2>4. CASE Assemble(t)
    BY <2>4, NoneFresh DEF Inv, TypeOK, Labels, Jobs, NoJob, Assemble
  <2>5. CASE LockBlob(t)
    BY <2>5, NoneFresh DEF Inv, TypeOK, Labels, Jobs, NoJob, LockBlob
  <2>6. CASE Place(t)
    <3>1. job[t].h \in Hashes BY <2>6 DEF Place, Inv, ThreadInv, JobSet, Finalizing
    <3>2. blobFile' \in [Hashes -> File \cup {None}]
      BY <2>6, <3>1, DigestAssumption DEF Place, Inv, TypeOK, File
    <3> QED BY <2>6, <3>2 DEF Place, Inv, TypeOK, Labels
  <2>7. CASE Commit(t)
    <3>1. job[t].u \in Uploads /\ job[t].h \in Hashes
      BY <2>7 DEF Commit, Inv, ThreadInv, JobSet, Finalizing
    <3>2. blob' \in [Hashes -> Row \cup {None}]
      BY <2>7, <3>1, DigestAssumption DEF Commit, Inv, TypeOK, Row
    <3>3. ustate' \in [Uploads -> States \cup {None}] /\ artifact' \in [Uploads -> Hashes \cup {None}]
      BY <2>7, <3>1 DEF Commit, Inv, TypeOK, States
    <3> QED BY <2>7, <3>2, <3>3 DEF Commit, Inv, TypeOK, Labels
  <2>8. CASE CleanupChunks(t)
    <3>1. PICK S \in SUBSET Chunks :
            chunkFile' = [chunkFile EXCEPT ![job[t].u] =
                            [i \in Chunks |-> IF i \in S THEN None ELSE chunkFile[job[t].u][i]]]
      BY <2>8 DEF CleanupChunks
    <3>2. job[t].u \in Uploads BY <2>8 DEF CleanupChunks, Inv, ThreadInv, JobSet
    <3>3. [i \in Chunks |-> IF i \in S THEN None ELSE chunkFile[job[t].u][i]]
            \in [Chunks -> Data \cup {None}]
      BY <3>2 DEF Inv, TypeOK
    <3>4. chunkFile' \in [Uploads -> [Chunks -> Data \cup {None}]] BY <3>1, <3>3 DEF Inv, TypeOK
    <3> QED BY <2>8, <3>4, JobFields DEF CleanupChunks, Inv, TypeOK, Labels
  <2>9. CASE Unfreeze(t)
    BY <2>9, NoneFresh DEF Inv, TypeOK, Labels, Jobs, NoJob, Unfreeze, States
  <2>10. CASE GetOpen(t)
    <3>1. job[t].h \in Hashes /\ job[t] \in Jobs BY <2>10 DEF GetOpen, Inv, ThreadInv, JobSet, TypeOK
    <3>2. CASE Finish(t) BY <2>10, <3>2, JobFields DEF GetOpen, Inv, TypeOK, Labels
    <3>3. CASE ~Finish(t)
      <4>1. blobFile[job[t].h] \in File BY <2>10, <3>1, <3>3 DEF GetOpen, Inv, TypeOK
      <4>2. [job[t] EXCEPT !.file = blobFile[job[t].h]] \in Jobs BY <3>1, <4>1, JobFields
      <4>3. job' \in [Threads -> Jobs] BY <2>10, <3>3, <4>2 DEF GetOpen, Inv, TypeOK
      <4> QED BY <2>10, <3>3, <4>3 DEF GetOpen, Inv, TypeOK, Labels
    <3> QED BY <3>2, <3>3
  <2>11. CASE GetVerify(t)
    <3>1. blob' \in [Hashes -> Row \cup {None}] BY <2>11, RowsAfter
    <3> QED BY <2>11, <3>1, JobFields DEF GetVerify, Inv, TypeOK, Labels
  <2>12. CASE DeleteLock(t)
    BY <2>12, NoneFresh DEF Inv, TypeOK, Labels, Jobs, NoJob, DeleteLock
  <2>13. CASE DeleteTx(t)
    <3>1. job[t].u \in Uploads /\ job[t].h \in Hashes /\ pc[t] = "deleteTx"
      BY <2>13 DEF DeleteTx, Inv, ThreadInv, JobSet
    <3>2. artifact[job[t].u] # None => [blob[job[t].h] EXCEPT !.refs = @ - 1] \in Row
      BY <3>1, DeleteCounted, RowFields
    <3>3. artifact' \in [Uploads -> Hashes \cup {None}] /\ blob' \in [Hashes -> Row \cup {None}]
      BY <2>13, <3>1, <3>2 DEF DeleteTx, Inv, TypeOK
    <3> QED BY <2>13, <3>3, JobFields DEF DeleteTx, Inv, TypeOK, Labels
  <2>14. CASE GcLock(t)
    BY <2>14, NoneFresh DEF Inv, TypeOK, Labels, Jobs, NoJob, GcLock
  <2>15. CASE GcBegin(t)
    BY <2>15, NoneFresh DEF Inv, TypeOK, Labels, Jobs, NoJob, GcBegin
  <2>16. CASE GcCommit(t)
    BY <2>16, NoneFresh DEF Inv, TypeOK, Labels, Jobs, NoJob, GcCommit
  <2>17. CASE GcUnlink(t)
    <3>1. job[t].todo \subseteq Hashes BY DEF Inv, TypeOK, Jobs
    <3>2. FirstN(job[t].todo, BatchSize) \subseteq Hashes BY <3>1 DEF FirstN
    <3>3. [NoJob EXCEPT !.batch = FirstN(job[t].todo, BatchSize),
                        !.todo = job[t].todo \ FirstN(job[t].todo, BatchSize)] \in Jobs
      BY <3>1, <3>2, JobFields
    <3>4. job' \in [Threads -> Jobs] /\ pc' \in [Threads -> Labels]
      <4>1. CASE job[t].todo = {}
        BY <2>17, <4>1, JobFields DEF GcUnlink, Inv, TypeOK, Labels
      <4>2. CASE job[t].todo # {}
        <5>1. job' \in [Threads -> Jobs]
          BY <2>17, <4>2, <3>3 DEF GcUnlink, NextBatch, Inv, TypeOK
        <5>2. pc' \in [Threads -> Labels]
          BY <2>17, <4>2 DEF GcUnlink, NextBatch, Inv, TypeOK, Labels
        <5> QED BY <5>1, <5>2
      <4> QED BY <4>1, <4>2
    <3> QED BY <2>17, <3>4 DEF GcUnlink, Inv, TypeOK
  <2>18. ASSUME NEW h \in Hashes, GcMove(t, h) PROVE TypeOK'
    <3> DEFINE M == IF blobFile[h] = None THEN job[t].moved ELSE job[t].moved \cup {h}
    <3>1. /\ job[t] \in Jobs /\ job[t].batch \subseteq Hashes /\ job[t].dead \subseteq Hashes
          /\ M \subseteq Hashes
      BY DEF Inv, TypeOK, Jobs
    <3>2. /\ [job[t] EXCEPT !.batch = job[t].batch \ {h}] \in Jobs
          /\ [job[t] EXCEPT !.batch = job[t].batch \ {h}, !.dead = job[t].dead \cup {h},
                            !.moved = M] \in Jobs
      BY <3>1, JobFields
    <3>3. \/ job' = [job EXCEPT ![t] = [job[t] EXCEPT !.batch = job[t].batch \ {h}]]
          \/ job' = [job EXCEPT ![t] = [job[t] EXCEPT !.batch = job[t].batch \ {h},
                                         !.dead = job[t].dead \cup {h}, !.moved = M]]
      BY <2>18 DEF GcMove
    <3>4. job' \in [Threads -> Jobs] BY <3>2, <3>3 DEF Inv, TypeOK
    <3> QED BY <2>18, <3>4 DEF GcMove, Inv, TypeOK
  <2>19. ASSUME NEW h \in Hashes, ValidateOpen(t, h) PROVE TypeOK'
    <3>1. val \in [owner : Threads \cup {None}, snap : [Hashes -> Nat \cup {None}],
                   todo : SUBSET Hashes, bad : SUBSET Hashes]
      BY DEF Inv, TypeOK
    <3>2. CASE blobFile[h] = None
      <4>1. val' = [val EXCEPT !.todo = val.todo \ {h}, !.bad = val.bad \cup {h}]
        BY <2>19, <3>2 DEF ValidateOpen
      <4>2. val' \in [owner : Threads \cup {None}, snap : [Hashes -> Nat \cup {None}],
                      todo : SUBSET Hashes, bad : SUBSET Hashes]
        BY <3>1, <4>1
      <4> QED BY <2>19, <3>2, <4>2 DEF ValidateOpen, Inv, TypeOK
    <3>3. CASE blobFile[h] # None
      <4>1. blobFile[h] \in File BY <3>3 DEF Inv, TypeOK
      <4>2. [NoJob EXCEPT !.h = h, !.file = blobFile[h]] \in Jobs BY <4>1, JobFields
      <4> QED BY <2>19, <3>3, <4>2 DEF ValidateOpen, Inv, TypeOK, Labels
    <3> QED BY <3>2, <3>3
  <2>20. CASE ValidateRead(t)
    <3>1. job[t].h \in Hashes BY <2>20 DEF ValidateRead, Inv, ThreadInv, JobSet
    <3>2. val' \in [owner : Threads \cup {None}, snap : [Hashes -> Nat \cup {None}],
                    todo : SUBSET Hashes, bad : SUBSET Hashes]
      BY <2>20, <3>1 DEF ValidateRead, Inv, TypeOK
    <3>3. job' \in [Threads -> Jobs] BY <2>20, JobFields DEF ValidateRead, Inv, TypeOK
    <3> QED BY <2>20, <3>2, <3>3 DEF ValidateRead, Inv, TypeOK, Labels
  <2>21. CASE ValidateCommit(t)
    <3>1. blob' \in [Hashes -> Row \cup {None}] BY <2>21, RowsAfter
    <3>2. val' \in [owner : Threads \cup {None}, snap : [Hashes -> Nat \cup {None}],
                    todo : SUBSET Hashes, bad : SUBSET Hashes]
      BY <2>21 DEF ValidateCommit, NoVal
    <3> QED BY <2>21, <3>1, <3>2, JobFields DEF ValidateCommit, Inv, TypeOK, Labels
  <2> QED BY <1>2, <2>1, <2>2, <2>3, <2>4, <2>5, <2>6, <2>7, <2>8, <2>9, <2>10, <2>11,
       <2>12, <2>13, <2>14, <2>15, <2>16, <2>17, <2>18, <2>19, <2>20, <2>21 DEF Step
<1>3. ASSUME NEW t \in Threads, Error(t) PROVE TypeOK'
  <2>1. CASE PutError(t)
    BY <2>1, NoneFresh DEF Inv, TypeOK, Labels, Jobs, NoJob, PutError
  <2>2. CASE FinalizeError(t)
    BY <2>2, NoneFresh DEF Inv, TypeOK, Labels, Jobs, NoJob, FinalizeError
  <2>3. CASE Abandon(t)
    BY <2>3, NoneFresh DEF Inv, TypeOK, Labels, Jobs, NoJob, Abandon
  <2>4. CASE GcError(t)
    BY <2>4, NoneFresh DEF Inv, TypeOK, Labels, Jobs, NoJob, GcError
  <2> QED BY <1>3, <2>1, <2>2, <2>3, <2>4 DEF Error
<1>4. CASE Crash
  <2>1. val' \in [owner : Threads \cup {None}, snap : [Hashes -> Nat \cup {None}],
                  todo : SUBSET Hashes, bad : SUBSET Hashes]
    BY <1>4 DEF Crash, NoVal
  <2>2. job' \in [Threads -> Jobs] BY <1>4, JobFields DEF Crash
  <2>3. pc' \in [Threads -> Labels] /\ lock' \in [Hashes -> Threads \cup {None}]
    BY <1>4 DEF Crash, Labels
  <2> QED BY <1>4, <2>1, <2>2, <2>3 DEF Crash, Inv, TypeOK, Phases
<1>5. CASE Recover
  <2>1. CASE RecoverDb
    <3>1. blob' \in [Hashes -> Row \cup {None}] BY <2>1, RowsAfter
    <3> QED BY <2>1, <3>1 DEF RecoverDb, Inv, TypeOK, Phases, States
  <2>2. CASE RecoverTrash
    <3>1. \A b \in BOOLEAN, n \in Stamps : [good |-> b, ino |-> n] \in File
      BY DigestAssumption DEF File
    <3>2. \A h \in Hashes : [good |-> h \notin rotted, ino |-> CHOOSE n \in Stamps : TRUE] \in File
      BY <3>1, BoundsAssumption
    <3>3. blobFile' \in [Hashes -> File \cup {None}] BY <2>2, <3>2 DEF RecoverTrash, Inv, TypeOK
    <3> QED BY <2>2, <3>3 DEF RecoverTrash, Inv, TypeOK, Phases
  <2>3. CASE RecoverChunks
    BY <2>3 DEF RecoverChunks, Inv, TypeOK, Phases
  <2>4. CASE RecoverBlobs
    BY <2>4 DEF RecoverBlobs, Inv, TypeOK, Phases
  <2> QED BY <1>5, <2>1, <2>2, <2>3, <2>4 DEF Recover
<1>6. ASSUME NEW h \in Hashes, BitRot(h) PROVE TypeOK'
  BY <1>6 DEF BitRot, Inv, TypeOK, File
<1>7. CASE UNCHANGED vars
  BY <1>7 DEF Inv, TypeOK, vars
<1> QED BY <1>1, <1>2, <1>3, <1>4, <1>5, <1>6, <1>7 DEF Next

(* Every step of a thread, and of the others around it, keeps what each     *)
(* thread relies on where it is.                                           *)
LEMMA ThreadStep ==
  ASSUME Inv, [Next]_vars
  PROVE  \A s \in Threads : ThreadInv(s)'
<1> SUFFICES ASSUME NEW s \in Threads PROVE ThreadInv(s)'
  OBVIOUS
<1> USE DEF Goto, Finish, ReleaseBy, Idle, dbVars, fileVars, memVars, envVars
<1>1. ASSUME NEW t \in Threads, Request(t) PROVE ThreadInv(s)'
  <2>1. ASSUME NEW u \in Uploads, CreateUpload(t, u) PROVE ThreadInv(s)'
    <3>1. ThreadInv(s) BY DEF Inv
    <3>2. \A v \in Uploads : ustate[v] # None => ustate'[v] = ustate[v]
      BY <2>1 DEF CreateUpload, Inv, TypeOK
    <3>3. None \notin {"uploading", "finalizing", "finalized"} BY NoneFresh DEF States
    <3> QED BY <2>1, <3>1, <3>2, <3>3 DEF CreateUpload, ThreadInv, JobSet, InTransaction, OwnsUpload, HoldsLocks, DeletesItsHash,
           Received, Finalizing, Verified
  <2>2. ASSUME NEW u \in Uploads, GetRow(t, u) PROVE ThreadInv(s)'
    BY <2>2, NoneFresh, ThreadsAssumption DEF Inv, TypeOK, NoJob, Jobs, ThreadInv, JobSet,
         InTransaction, OwnsUpload, HoldsLocks, DeletesItsHash, Received, Finalizing, Verified,
         GetRow
  <2>3. ASSUME NEW u \in Uploads, DeleteRow(t, u) PROVE ThreadInv(s)'
    <3>1. ThreadInv(s) BY DEF Inv
    <3>2. \A r \in Threads \ {t} : pc'[r] = pc[r] /\ job'[r] = job[r]
      BY <2>3 DEF DeleteRow, Inv, TypeOK
    <3>3. pc'[t] = "deleteLock" /\ job'[t].u = u /\ job'[t].h = artifact[u]
      BY <2>3 DEF DeleteRow, NoJob, Inv, TypeOK
    <3>4. artifact[u] \in Hashes /\ ustate[u] = "finalized"
      BY <2>3 DEF DeleteRow, Inv, TypeOK, ArtifactFinalized
    <3>5. UNCHANGED <<dbVars, fileVars, dbWriter, lock>> BY <2>3 DEF DeleteRow
    <3> QED BY <3>1, <3>2, <3>3, <3>4, <3>5 DEF ThreadInv, JobSet, InTransaction, OwnsUpload, HoldsLocks, DeletesItsHash,
           Received, Finalizing, Verified
  <2>4. ASSUME NEW u \in Uploads, NEW i \in Chunks, NEW d \in Data, PutCheck(t, u, i, d)
       PROVE ThreadInv(s)'
    BY <2>4, NoneFresh, ThreadsAssumption DEF Inv, TypeOK, NoJob, Jobs, ThreadInv, JobSet,
         InTransaction, OwnsUpload, HoldsLocks, DeletesItsHash, Received, Finalizing, Verified,
         PutCheck
  <2>5. ASSUME NEW u \in Uploads, NEW h \in Hashes, Freeze(t, u, h) PROVE ThreadInv(s)'
    BY <2>5, NoneFresh, ThreadsAssumption DEF Inv, TypeOK, NoJob, Jobs, ThreadInv, JobSet,
         InTransaction, OwnsUpload, HoldsLocks, DeletesItsHash, Received, Finalizing, Verified,
         Freeze
  <2>6. CASE GcScan(t)
    <3>1. ThreadInv(s) BY DEF Inv
    <3>2. \A r \in Threads \ {t} : pc'[r] = pc[r] /\ job'[r] = job[r]
      BY <2>6 DEF GcScan, NextBatch, Inv, TypeOK
    <3>3. pc'[t] = "gcLock" /\ job'[t].dead = {} BY <2>6 DEF GcScan, NextBatch, NoJob, Inv, TypeOK
    <3>4. UNCHANGED <<dbVars, fileVars, dbWriter, lock>> BY <2>6 DEF GcScan
    <3> QED BY <3>1, <3>2, <3>3, <3>4 DEF ThreadInv, JobSet, InTransaction, OwnsUpload, HoldsLocks, DeletesItsHash,
           Received, Finalizing, Verified
  <2>7. CASE ValidateStart(t)
    BY <2>7, NoneFresh, ThreadsAssumption DEF Inv, TypeOK, NoJob, Jobs, ThreadInv, JobSet,
         InTransaction, OwnsUpload, HoldsLocks, DeletesItsHash, Received, Finalizing, Verified,
         ValidateStart
  <2> QED BY <1>1, <2>1, <2>2, <2>3, <2>4, <2>5, <2>6, <2>7 DEF Request
<1>2. ASSUME NEW t \in Threads, Step(t) PROVE ThreadInv(s)'
  <2>1. CASE PutRefused(t)
    BY <2>1, NoneFresh, ThreadsAssumption DEF Inv, TypeOK, NoJob, Jobs, ThreadInv, JobSet,
         InTransaction, OwnsUpload, HoldsLocks, DeletesItsHash, Received, Finalizing, Verified,
         PutRefused
  <2>2. CASE PutRename(t)
    BY <2>2, NoneFresh, ThreadsAssumption DEF Inv, TypeOK, NoJob, Jobs, ThreadInv, JobSet,
         InTransaction, OwnsUpload, HoldsLocks, DeletesItsHash, Received, Finalizing, Verified,
         PutRename
  <2>3. CASE PutCommit(t)
    BY <2>3, NoneFresh, ThreadsAssumption DEF Inv, TypeOK, NoJob, Jobs, ThreadInv, JobSet,
         InTransaction, OwnsUpload, HoldsLocks, DeletesItsHash, Received, Finalizing, Verified,
         PutCommit
  <2>4. CASE Assemble(t)
    <3>1. ThreadInv(s) /\ ThreadInv(t) BY DEF Inv
    <3>2. job[t].u \in Uploads /\ Received(job[t].u) /\ ustate[job[t].u] = "finalizing"
      BY <2>4, <3>1 DEF Assemble, ThreadInv, JobSet, OwnsUpload, Finalizing
    <3>3. /\ \A r \in Threads \ {t} : pc'[r] = pc[r]
          /\ pc[t] = "assemble" /\ pc'[t] \in {"lockBlob", "unfreeze"}
          /\ UNCHANGED <<dbVars, fileVars, dbWriter, lock, job>>
      BY <2>4 DEF Assemble, Inv, TypeOK
    <3>4. ASSUME pc'[t] = "lockBlob" PROVE Digest[chunkRow[job[t].u]] = job[t].h
      <4>1. Digest[chunkFile[job[t].u]] = job[t].h BY <2>4, <3>4 DEF Assemble, Inv, TypeOK
      <4>2. \A i \in Chunks : chunkFile[job[t].u][i] = chunkRow[job[t].u][i]
        BY <3>2 DEF Inv, ChunkBytesKept, Received
      <4>3. chunkFile[job[t].u] = chunkRow[job[t].u] BY <3>2, <4>2 DEF Inv, TypeOK
      <4> QED BY <4>1, <4>3
    <3> QED BY <3>1, <3>2, <3>3, <3>4 DEF ThreadInv, JobSet, InTransaction, OwnsUpload, HoldsLocks, DeletesItsHash,
           Received, Finalizing, Verified
  <2>5. CASE LockBlob(t)
    BY <2>5, NoneFresh, ThreadsAssumption DEF Inv, TypeOK, NoJob, Jobs, ThreadInv, JobSet,
         InTransaction, OwnsUpload, HoldsLocks, DeletesItsHash, Received, Finalizing, Verified,
         LockBlob
  <2>6. CASE Place(t)
    <3>1. ThreadInv(s) /\ ThreadInv(t) BY DEF Inv
    <3>2. job[t].h \in Hashes BY <2>6, <3>1 DEF Place, ThreadInv, JobSet, Finalizing
    <3>3. PICK n \in Stamps : blobFile' = [blobFile EXCEPT ![job[t].h] = [good |-> TRUE, ino |-> n]]
      BY <2>6 DEF Place
    <3>4. [good |-> TRUE, ino |-> n] \in File BY DigestAssumption DEF File
    <3>5. /\ \A g \in Hashes : blobFile[g] # None => blobFile'[g] # None
          /\ blobFile'[job[t].h] # None
      BY <3>2, <3>3, <3>4, NoneFresh DEF Inv, TypeOK
    <3>6. /\ \A r \in Threads : pc'[r] = IF r = t THEN "commit" ELSE pc[r]
          /\ pc[t] = "place" /\ UNCHANGED <<dbVars, chunkFile, dbWriter, lock, job>>
      BY <2>6 DEF Place, Inv, TypeOK
    <3> QED BY <3>1, <3>2, <3>5, <3>6 DEF ThreadInv, JobSet, InTransaction, OwnsUpload, HoldsLocks, DeletesItsHash,
           Received, Finalizing, Verified
  <2>7. CASE Commit(t)
    BY <2>7, NoneFresh, ThreadsAssumption DEF Inv, TypeOK, NoJob, Jobs, ThreadInv, JobSet,
         InTransaction, OwnsUpload, HoldsLocks, DeletesItsHash, Received, Finalizing, Verified,
         Commit
  <2>8. CASE CleanupChunks(t)
    BY <2>8, NoneFresh, ThreadsAssumption DEF Inv, TypeOK, NoJob, Jobs, ThreadInv, JobSet,
         InTransaction, OwnsUpload, HoldsLocks, DeletesItsHash, Received, Finalizing, Verified,
         CleanupChunks
  <2>9. CASE Unfreeze(t)
    BY <2>9, NoneFresh, ThreadsAssumption DEF Inv, TypeOK, NoJob, Jobs, ThreadInv, JobSet,
         InTransaction, OwnsUpload, HoldsLocks, DeletesItsHash, Received, Finalizing, Verified,
         Unfreeze
  <2>10. CASE GetOpen(t)
    <3>1. ThreadInv(s) BY DEF Inv
    <3>2. \A r \in Threads \ {t} : pc'[r] = pc[r] /\ job'[r] = job[r]
      BY <2>10 DEF GetOpen, Inv, TypeOK
    <3>3. \/ pc'[t] = "idle"
          \/ pc'[t] = "getVerify" /\ job'[t].h \in Hashes /\ job'[t].file \in File
      <4>1. CASE pc' = [pc EXCEPT ![t] = "idle"] BY <4>1 DEF Inv, TypeOK
      <4>2. CASE pc' # [pc EXCEPT ![t] = "idle"]
        <5>1. job[t].h \in Hashes /\ job[t] \in Jobs
          BY <2>10 DEF GetOpen, Inv, ThreadInv, JobSet, TypeOK
        <5>2. blobFile[job[t].h] \in File BY <2>10, <4>2, <5>1 DEF GetOpen, Inv, TypeOK
        <5>3. job'[t].h = job[t].h /\ job'[t].file = blobFile[job[t].h] /\ pc'[t] = "getVerify"
          BY <2>10, <4>2 DEF GetOpen, Inv, TypeOK, Jobs
        <5> QED BY <5>1, <5>2, <5>3
      <4> QED BY <4>1, <4>2
    <3>4. UNCHANGED <<dbVars, fileVars, dbWriter, lock>> BY <2>10 DEF GetOpen
    <3> QED BY <3>1, <3>2, <3>3, <3>4 DEF ThreadInv, JobSet, InTransaction, OwnsUpload, HoldsLocks, DeletesItsHash,
           Received, Finalizing, Verified
  <2>11. CASE GetVerify(t)
    BY <2>11, NoneFresh, ThreadsAssumption DEF Inv, TypeOK, NoJob, Jobs, ThreadInv,
         JobSet, InTransaction, OwnsUpload, HoldsLocks, DeletesItsHash, Received, Finalizing,
         Verified, GetVerify
  <2>12. CASE DeleteLock(t)
    BY <2>12, NoneFresh, ThreadsAssumption DEF Inv, TypeOK, NoJob, Jobs, ThreadInv,
         JobSet, InTransaction, OwnsUpload, HoldsLocks, DeletesItsHash, Received, Finalizing,
         Verified, DeleteLock
  <2>13. CASE DeleteTx(t)
    BY <2>13, NoneFresh, ThreadsAssumption DEF Inv, TypeOK, NoJob, Jobs, ThreadInv,
         JobSet, InTransaction, OwnsUpload, HoldsLocks, DeletesItsHash, Received, Finalizing,
         Verified, DeleteTx
  <2>14. CASE GcLock(t)
    BY <2>14, NoneFresh, ThreadsAssumption DEF Inv, TypeOK, NoJob, Jobs, ThreadInv,
         JobSet, InTransaction, OwnsUpload, HoldsLocks, DeletesItsHash, Received, Finalizing,
         Verified, GcLock
  <2>15. CASE GcBegin(t)
    BY <2>15, NoneFresh, ThreadsAssumption DEF Inv, TypeOK, NoJob, Jobs, ThreadInv,
         JobSet, InTransaction, OwnsUpload, HoldsLocks, DeletesItsHash, Received, Finalizing,
         Verified, GcBegin
  <2>16. CASE GcCommit(t)
    BY <2>16, NoneFresh, ThreadsAssumption DEF Inv, TypeOK, NoJob, Jobs, ThreadInv,
         JobSet, InTransaction, OwnsUpload, HoldsLocks, DeletesItsHash, Received, Finalizing,
         Verified, GcCommit
  <2>17. CASE GcUnlink(t)
    <3>1. ThreadInv(s) BY DEF Inv
    <3>2. \A r \in Threads \ {t} : pc'[r] = pc[r] /\ job'[r] = job[r]
      BY <2>17 DEF GcUnlink, NextBatch, Inv, TypeOK
    <3>3. pc'[t] \in {"idle", "gcLock"} /\ job'[t].dead = {}
      <4>1. CASE Finish(t) BY <4>1 DEF NoJob, Inv, TypeOK
      <4>2. CASE NextBatch(t, job[t].todo) BY <4>2 DEF NextBatch, NoJob, Inv, TypeOK
      <4> QED BY <2>17, <4>1, <4>2 DEF GcUnlink
    <3>4. \A r \in Threads \ {t}, h \in Hashes : lock[h] = r => lock'[h] = r BY <2>17 DEF GcUnlink
    <3>5. job[s].batch \subseteq Hashes BY DEF Inv, TypeOK, Jobs
    <3>6. UNCHANGED <<dbVars, chunkFile, blobFile, dbWriter>> BY <2>17 DEF GcUnlink
    <3> QED BY <3>1, <3>2, <3>3, <3>4, <3>5, <3>6 DEF ThreadInv, JobSet, InTransaction, OwnsUpload, HoldsLocks, DeletesItsHash,
           Received, Finalizing, Verified
  <2>18. ASSUME NEW h \in Hashes, GcMove(t, h) PROVE ThreadInv(s)'
    <3>1. ThreadInv(s) /\ ThreadInv(t) BY DEF Inv
    <3>2. /\ pc[t] = "gcMove" /\ h \in job[t].batch
          /\ UNCHANGED <<dbVars, chunkFile, dbWriter, lock, pc>>
      BY <2>18 DEF GcMove, Least
    <3>3. \A r \in Threads \ {t} : job'[r] = job[r] BY <2>18 DEF GcMove, Inv, TypeOK
    <3>4. /\ job'[t].batch = job[t].batch \ {h}
          /\ job'[t].dead \in {job[t].dead, job[t].dead \cup {h}}
          /\ job'[t].dead # job[t].dead => blob[h] # None /\ blob[h].refs = 0
      BY <2>18 DEF GcMove, Inv, TypeOK, Jobs
    <3>5. lock[h] = t BY <3>1, <3>2 DEF ThreadInv, HoldsLocks
    <3>6. \A g \in Hashes : lock[g] # t => blobFile'[g] = blobFile[g]
      BY <2>18, <3>5 DEF GcMove, Inv, TypeOK
    <3> QED BY <3>1, <3>2, <3>3, <3>4, <3>5, <3>6 DEF ThreadInv, JobSet, InTransaction, OwnsUpload, HoldsLocks, DeletesItsHash,
           Received, Finalizing, Verified
  <2>19. ASSUME NEW h \in Hashes, ValidateOpen(t, h) PROVE ThreadInv(s)'
    <3>1. ThreadInv(s) BY DEF Inv
    <3>2. \A r \in Threads \ {t} : pc'[r] = pc[r] /\ job'[r] = job[r]
      BY <2>19 DEF ValidateOpen, Inv, TypeOK
    <3>3. \/ pc'[t] = "valNext"
          \/ pc'[t] = "valRead" /\ job'[t].h \in Hashes /\ job'[t].file \in File
      <4>1. CASE blobFile[h] = None BY <2>19, <4>1 DEF ValidateOpen
      <4>2. CASE blobFile[h] # None
        <5>1. blobFile[h] \in File BY <4>2 DEF Inv, TypeOK
        <5>2. job'[t] = [NoJob EXCEPT !.h = h, !.file = blobFile[h]] /\ pc'[t] = "valRead"
          BY <2>19, <4>2 DEF ValidateOpen, Inv, TypeOK
        <5>3. job'[t].h = h /\ job'[t].file = blobFile[h] BY <5>2 DEF NoJob
        <5> QED BY <5>1, <5>2, <5>3
      <4> QED BY <4>1, <4>2
    <3>4. UNCHANGED <<dbVars, fileVars, dbWriter, lock>> BY <2>19 DEF ValidateOpen
    <3> QED BY <3>1, <3>2, <3>3, <3>4 DEF ThreadInv, JobSet, InTransaction, OwnsUpload, HoldsLocks, DeletesItsHash,
           Received, Finalizing, Verified
  <2>20. CASE ValidateRead(t)
    BY <2>20, NoneFresh, ThreadsAssumption DEF Inv, TypeOK, NoJob, Jobs, ThreadInv,
         JobSet, InTransaction, OwnsUpload, HoldsLocks, DeletesItsHash, Received, Finalizing,
         Verified, ValidateRead
  <2>21. CASE ValidateCommit(t)
    BY <2>21, NoneFresh, ThreadsAssumption DEF Inv, TypeOK, NoJob, Jobs, ThreadInv,
         JobSet, InTransaction, OwnsUpload, HoldsLocks, DeletesItsHash, Received, Finalizing,
         Verified, ValidateCommit
  <2> QED BY <1>2, <2>1, <2>2, <2>3, <2>4, <2>5, <2>6, <2>7, <2>8, <2>9, <2>10, <2>11,
       <2>12, <2>13, <2>14, <2>15, <2>16, <2>17, <2>18, <2>19, <2>20, <2>21 DEF Step
<1>3. ASSUME NEW t \in Threads, Error(t) PROVE ThreadInv(s)'
  <2>1. CASE PutError(t)
    BY <2>1, NoneFresh, ThreadsAssumption DEF Inv, TypeOK, NoJob, Jobs, ThreadInv, JobSet,
         InTransaction, OwnsUpload, HoldsLocks, DeletesItsHash, Received, Finalizing, Verified,
         PutError
  <2>2. CASE FinalizeError(t)
    BY <2>2, NoneFresh, ThreadsAssumption DEF Inv, TypeOK, NoJob, Jobs, ThreadInv, JobSet,
         InTransaction, OwnsUpload, HoldsLocks, DeletesItsHash, Received, Finalizing, Verified,
         FinalizeError
  <2>3. CASE Abandon(t)
    BY <2>3, NoneFresh, ThreadsAssumption DEF Inv, TypeOK, NoJob, Jobs, ThreadInv, JobSet,
         InTransaction, OwnsUpload, HoldsLocks, DeletesItsHash, Received, Finalizing, Verified,
         Abandon
  <2>4. CASE GcError(t)
    BY <2>4, NoneFresh, ThreadsAssumption DEF Inv, TypeOK, NoJob, Jobs, ThreadInv, JobSet,
         InTransaction, OwnsUpload, HoldsLocks, DeletesItsHash, Received, Finalizing, Verified,
         GcError
  <2> QED BY <1>3, <2>1, <2>2, <2>3, <2>4 DEF Error
<1>4. CASE Crash
  BY <1>4, IdleNext DEF Crash
<1>5. CASE Recover
  <2>1. CASE RecoverDb
    BY <2>1, IdleNext DEF Inv, QuietRecovery, RecoverDb
  <2>2. CASE RecoverTrash
    BY <2>2, IdleNext DEF Inv, QuietRecovery, RecoverTrash
  <2>3. CASE RecoverChunks
    BY <2>3, IdleNext DEF Inv, QuietRecovery, RecoverChunks
  <2>4. CASE RecoverBlobs
    BY <2>4, IdleNext DEF Inv, QuietRecovery, RecoverBlobs
  <2> QED BY <1>5, <2>1, <2>2, <2>3, <2>4 DEF Recover
<1>6. ASSUME NEW h \in Hashes, BitRot(h) PROVE ThreadInv(s)'
  <2>1. ThreadInv(s) BY DEF Inv
  <2>2. \A g \in Hashes : blobFile[g] # None => blobFile'[g] # None
    BY <1>6, NoneFresh DEF BitRot, Inv, TypeOK, File
  <2> QED BY <1>6, <2>1, <2>2 DEF BitRot, ThreadInv, JobSet, InTransaction, OwnsUpload, HoldsLocks, DeletesItsHash,
         Received, Finalizing, Verified
<1>7. CASE UNCHANGED vars
  BY <1>7 DEF Inv, vars, ThreadInv, JobSet, InTransaction, OwnsUpload, HoldsLocks,
       DeletesItsHash, Received, Finalizing, Verified
<1> QED BY <1>1, <1>2, <1>3, <1>4, <1>5, <1>6, <1>7 DEF Next

(* Requests run only while the server is up, so recovery stays alone.      *)
LEMMA QuietStep ==
  ASSUME Inv, [Next]_vars
  PROVE  QuietRecovery'
<1> USE DEF Goto, Finish, Idle, dbVars, fileVars, memVars, envVars
<1>1. ASSUME NEW t \in Threads, Request(t) PROVE QuietRecovery'
  <2>1. ASSUME NEW u \in Uploads, CreateUpload(t, u) PROVE QuietRecovery'
    BY <2>1 DEF Inv, QuietRecovery, ChunksTidy, CreateUpload
  <2>2. ASSUME NEW u \in Uploads, GetRow(t, u) PROVE QuietRecovery'
    BY <2>2 DEF Inv, QuietRecovery, ChunksTidy, GetRow
  <2>3. ASSUME NEW u \in Uploads, DeleteRow(t, u) PROVE QuietRecovery'
    BY <2>3 DEF Inv, QuietRecovery, ChunksTidy, DeleteRow
  <2>4. ASSUME NEW u \in Uploads, NEW i \in Chunks, NEW d \in Data, PutCheck(t, u, i, d)
       PROVE QuietRecovery'
    BY <2>4 DEF Inv, QuietRecovery, ChunksTidy, PutCheck
  <2>5. ASSUME NEW u \in Uploads, NEW h \in Hashes, Freeze(t, u, h) PROVE QuietRecovery'
    BY <2>5 DEF Inv, QuietRecovery, ChunksTidy, Freeze
  <2>6. CASE GcScan(t)
    BY <2>6 DEF Inv, QuietRecovery, ChunksTidy, GcScan
  <2>7. CASE ValidateStart(t)
    BY <2>7 DEF Inv, QuietRecovery, ChunksTidy, ValidateStart
  <2> QED BY <1>1, <2>1, <2>2, <2>3, <2>4, <2>5, <2>6, <2>7 DEF Request
<1>2. ASSUME NEW t \in Threads, Step(t) PROVE QuietRecovery'
  <2>1. CASE PutRefused(t)
    BY <2>1 DEF Inv, QuietRecovery, ChunksTidy, PutRefused
  <2>2. CASE PutRename(t)
    BY <2>2 DEF Inv, QuietRecovery, ChunksTidy, PutRename
  <2>3. CASE PutCommit(t)
    BY <2>3 DEF Inv, QuietRecovery, ChunksTidy, PutCommit
  <2>4. CASE Assemble(t)
    BY <2>4 DEF Inv, QuietRecovery, ChunksTidy, Assemble
  <2>5. CASE LockBlob(t)
    BY <2>5 DEF Inv, QuietRecovery, ChunksTidy, LockBlob
  <2>6. CASE Place(t)
    BY <2>6 DEF Inv, QuietRecovery, ChunksTidy, Place
  <2>7. CASE Commit(t)
    BY <2>7 DEF Inv, QuietRecovery, ChunksTidy, Commit
  <2>8. CASE CleanupChunks(t)
    BY <2>8 DEF Inv, QuietRecovery, ChunksTidy, CleanupChunks
  <2>9. CASE Unfreeze(t)
    BY <2>9 DEF Inv, QuietRecovery, ChunksTidy, Unfreeze
  <2>10. CASE GetOpen(t)
    BY <2>10 DEF Inv, QuietRecovery, ChunksTidy, GetOpen
  <2>11. CASE GetVerify(t)
    BY <2>11 DEF Inv, QuietRecovery, ChunksTidy, GetVerify
  <2>12. CASE DeleteLock(t)
    BY <2>12 DEF Inv, QuietRecovery, ChunksTidy, DeleteLock
  <2>13. CASE DeleteTx(t)
    BY <2>13 DEF Inv, QuietRecovery, ChunksTidy, DeleteTx
  <2>14. CASE GcLock(t)
    BY <2>14 DEF Inv, QuietRecovery, ChunksTidy, GcLock
  <2>15. CASE GcBegin(t)
    BY <2>15 DEF Inv, QuietRecovery, ChunksTidy, GcBegin
  <2>16. CASE GcCommit(t)
    BY <2>16 DEF Inv, QuietRecovery, ChunksTidy, GcCommit
  <2>17. CASE GcUnlink(t)
    BY <2>17 DEF Inv, QuietRecovery, ChunksTidy, GcUnlink
  <2>18. ASSUME NEW h \in Hashes, GcMove(t, h) PROVE QuietRecovery'
    BY <2>18 DEF Inv, QuietRecovery, ChunksTidy, GcMove
  <2>19. ASSUME NEW h \in Hashes, ValidateOpen(t, h) PROVE QuietRecovery'
    BY <2>19 DEF Inv, QuietRecovery, ChunksTidy, ValidateOpen
  <2>20. CASE ValidateRead(t)
    BY <2>20 DEF Inv, QuietRecovery, ChunksTidy, ValidateRead
  <2>21. CASE ValidateCommit(t)
    BY <2>21 DEF Inv, QuietRecovery, ChunksTidy, ValidateCommit
  <2> QED BY <1>2, <2>1, <2>2, <2>3, <2>4, <2>5, <2>6, <2>7, <2>8, <2>9, <2>10, <2>11,
       <2>12, <2>13, <2>14, <2>15, <2>16, <2>17, <2>18, <2>19, <2>20, <2>21 DEF Step
<1>3. ASSUME NEW t \in Threads, Error(t) PROVE QuietRecovery'
  <2>1. CASE PutError(t)
    BY <2>1 DEF Inv, QuietRecovery, ChunksTidy, PutError
  <2>2. CASE FinalizeError(t)
    BY <2>2 DEF Inv, QuietRecovery, ChunksTidy, FinalizeError
  <2>3. CASE Abandon(t)
    BY <2>3 DEF Inv, QuietRecovery, ChunksTidy, Abandon
  <2>4. CASE GcError(t)
    BY <2>4 DEF Inv, QuietRecovery, ChunksTidy, GcError
  <2> QED BY <1>3, <2>1, <2>2, <2>3, <2>4 DEF Error
<1>4. CASE Crash
  BY <1>4 DEF Inv, QuietRecovery, ChunksTidy, Crash
<1>5. CASE Recover
  <2>1. CASE RecoverDb
    BY <2>1 DEF Inv, QuietRecovery, ChunksTidy, RecoverDb
  <2>2. CASE RecoverTrash
    BY <2>2 DEF Inv, QuietRecovery, ChunksTidy, RecoverTrash
  <2>3. CASE RecoverChunks
    BY <2>3 DEF Inv, QuietRecovery, ChunksTidy, RecoverChunks
  <2>4. CASE RecoverBlobs
    BY <2>4 DEF Inv, QuietRecovery, ChunksTidy, RecoverBlobs
  <2> QED BY <1>5, <2>1, <2>2, <2>3, <2>4 DEF Recover
<1>6. ASSUME NEW h \in Hashes, BitRot(h) PROVE QuietRecovery'
  BY <1>6 DEF Inv, QuietRecovery, ChunksTidy, BitRot
<1>7. CASE UNCHANGED vars
  BY <1>7 DEF Inv, QuietRecovery, ChunksTidy, vars
<1> QED BY <1>1, <1>2, <1>3, <1>4, <1>5, <1>6, <1>7 DEF Next

(* Chunk files and rows agree until the upload is finalized, and what was   *)
(* finalized is the digest of its rows.                                    *)
LEMMA ChunkStep ==
  ASSUME Inv, [Next]_vars
  PROVE  ArtifactFinalized' /\ ArtifactIsItsChunks' /\ ChunkBytesKept'
<1> DEFINE ChunkInv == ArtifactFinalized /\ ArtifactIsItsChunks /\ ChunkBytesKept
<1> USE DEF Idle, dbVars, fileVars, memVars, envVars
<1>1. ASSUME NEW t \in Threads, Request(t) PROVE ChunkInv'
  <2>1. ASSUME NEW u \in Uploads, CreateUpload(t, u) PROVE ChunkInv'
    <3>1. \A v \in Uploads : ustate'[v] = IF v = u THEN "uploading" ELSE ustate[v]
      BY <2>1 DEF CreateUpload, Inv, TypeOK
    <3>2. artifact[u] = None /\ ustate[u] # "finalized"
      BY <2>1, NoneFresh DEF CreateUpload, Inv, ArtifactFinalized, States
    <3> QED
      BY <2>1, <3>1, <3>2 DEF CreateUpload, Inv, ArtifactFinalized, ArtifactIsItsChunks, ChunkBytesKept
  <2>2. ASSUME NEW u \in Uploads, GetRow(t, u) PROVE ChunkInv'
    BY <2>2, NoneFresh, DataAssumption DEF Inv, TypeOK, ThreadInv, JobSet, InTransaction,
         OwnsUpload, Finalizing, ArtifactFinalized, ArtifactIsItsChunks, ChunkBytesKept, GetRow
  <2>3. ASSUME NEW u \in Uploads, DeleteRow(t, u) PROVE ChunkInv'
    BY <2>3, NoneFresh, DataAssumption DEF Inv, TypeOK, ThreadInv, JobSet, InTransaction,
         OwnsUpload, Finalizing, ArtifactFinalized, ArtifactIsItsChunks, ChunkBytesKept,
         DeleteRow
  <2>4. ASSUME NEW u \in Uploads, NEW i \in Chunks, NEW d \in Data, PutCheck(t, u, i, d)
       PROVE ChunkInv'
    BY <2>4, NoneFresh, DataAssumption DEF Inv, TypeOK, ThreadInv, JobSet, InTransaction,
         OwnsUpload, Finalizing, ArtifactFinalized, ArtifactIsItsChunks, ChunkBytesKept,
         PutCheck
  <2>5. ASSUME NEW u \in Uploads, NEW h \in Hashes, Freeze(t, u, h) PROVE ChunkInv'
    BY <2>5, NoneFresh, DataAssumption DEF Inv, TypeOK, ThreadInv, JobSet, InTransaction,
         OwnsUpload, Finalizing, ArtifactFinalized, ArtifactIsItsChunks, ChunkBytesKept, Freeze
  <2>6. CASE GcScan(t)
    BY <2>6, NoneFresh, DataAssumption DEF Inv, TypeOK, ThreadInv, JobSet, InTransaction,
         OwnsUpload, Finalizing, ArtifactFinalized, ArtifactIsItsChunks, ChunkBytesKept, GcScan
  <2>7. CASE ValidateStart(t)
    BY <2>7, NoneFresh, DataAssumption DEF Inv, TypeOK, ThreadInv, JobSet, InTransaction,
         OwnsUpload, Finalizing, ArtifactFinalized, ArtifactIsItsChunks, ChunkBytesKept,
         ValidateStart
  <2> QED BY <1>1, <2>1, <2>2, <2>3, <2>4, <2>5, <2>6, <2>7 DEF Request
<1>2. ASSUME NEW t \in Threads, Step(t) PROVE ChunkInv'
  <2>1. CASE PutRefused(t)
    BY <2>1, NoneFresh, DataAssumption DEF Inv, TypeOK, ThreadInv, JobSet, InTransaction,
         OwnsUpload, Finalizing, ArtifactFinalized, ArtifactIsItsChunks, ChunkBytesKept,
         PutRefused
  <2>2. CASE PutRename(t)
    BY <2>2, NoneFresh, DataAssumption DEF Inv, TypeOK, ThreadInv, JobSet, InTransaction,
         OwnsUpload, Finalizing, ArtifactFinalized, ArtifactIsItsChunks, ChunkBytesKept,
         PutRename
  <2>3. CASE PutCommit(t)
    BY <2>3, NoneFresh, DataAssumption DEF Inv, TypeOK, ThreadInv, JobSet, InTransaction,
         OwnsUpload, Finalizing, ArtifactFinalized, ArtifactIsItsChunks, ChunkBytesKept,
         PutCommit
  <2>4. CASE Assemble(t)
    BY <2>4, NoneFresh, DataAssumption DEF Inv, TypeOK, ThreadInv, JobSet, InTransaction,
         OwnsUpload, Finalizing, ArtifactFinalized, ArtifactIsItsChunks, ChunkBytesKept,
         Assemble
  <2>5. CASE LockBlob(t)
    BY <2>5, NoneFresh, DataAssumption DEF Inv, TypeOK, ThreadInv, JobSet, InTransaction,
         OwnsUpload, Finalizing, ArtifactFinalized, ArtifactIsItsChunks, ChunkBytesKept,
         LockBlob
  <2>6. CASE Place(t)
    BY <2>6, NoneFresh, DataAssumption DEF Inv, TypeOK, ThreadInv, JobSet, InTransaction,
         OwnsUpload, Finalizing, ArtifactFinalized, ArtifactIsItsChunks, ChunkBytesKept, Place
  <2>7. CASE Commit(t)
    <3>1. PICK u \in Uploads, h \in Hashes : u = job[t].u /\ h = job[t].h
      BY <2>7 DEF Commit, Inv, ThreadInv, JobSet, Finalizing
    <3>2. Received(u) /\ Digest[chunkRow[u]] = h
      BY <2>7, <3>1 DEF Commit, Inv, ThreadInv, OwnsUpload, Finalizing, Verified
    <3>3. chunkRow[u] \in Contents BY <3>2 DEF Received, Inv, TypeOK, Contents
    <3>4. \A v \in Uploads : /\ ustate'[v] = IF v = u THEN "finalized" ELSE ustate[v]
                             /\ artifact'[v] = IF v = u THEN h ELSE artifact[v]
      BY <2>7, <3>1 DEF Commit, Inv, TypeOK
    <3> QED
      BY <2>7, <3>2, <3>3, <3>4
      DEF Commit, Inv, ArtifactFinalized, ArtifactIsItsChunks, ChunkBytesKept
  <2>8. CASE CleanupChunks(t)
    BY <2>8, NoneFresh, DataAssumption DEF Inv, TypeOK, ThreadInv, JobSet, InTransaction,
         OwnsUpload, Finalizing, ArtifactFinalized, ArtifactIsItsChunks, ChunkBytesKept,
         CleanupChunks
  <2>9. CASE Unfreeze(t)
    BY <2>9, NoneFresh, DataAssumption DEF Inv, TypeOK, ThreadInv, JobSet, InTransaction,
         OwnsUpload, Finalizing, ArtifactFinalized, ArtifactIsItsChunks, ChunkBytesKept,
         Unfreeze
  <2>10. CASE GetOpen(t)
    BY <2>10, NoneFresh, DataAssumption DEF Inv, TypeOK, ThreadInv, JobSet, InTransaction,
         OwnsUpload, Finalizing, ArtifactFinalized, ArtifactIsItsChunks, ChunkBytesKept,
         GetOpen
  <2>11. CASE GetVerify(t)
    BY <2>11, NoneFresh, DataAssumption DEF Inv, TypeOK, ThreadInv, JobSet, InTransaction,
         OwnsUpload, Finalizing, ArtifactFinalized, ArtifactIsItsChunks, ChunkBytesKept,
         GetVerify
  <2>12. CASE DeleteLock(t)
    BY <2>12, NoneFresh, DataAssumption DEF Inv, TypeOK, ThreadInv, JobSet, InTransaction,
         OwnsUpload, Finalizing, ArtifactFinalized, ArtifactIsItsChunks, ChunkBytesKept,
         DeleteLock
  <2>13. CASE DeleteTx(t)
    BY <2>13, NoneFresh, DataAssumption DEF Inv, TypeOK, ThreadInv, JobSet, InTransaction,
         OwnsUpload, Finalizing, ArtifactFinalized, ArtifactIsItsChunks, ChunkBytesKept,
         DeleteTx
  <2>14. CASE GcLock(t)
    BY <2>14, NoneFresh, DataAssumption DEF Inv, TypeOK, ThreadInv, JobSet, InTransaction,
         OwnsUpload, Finalizing, ArtifactFinalized, ArtifactIsItsChunks, ChunkBytesKept, GcLock
  <2>15. CASE GcBegin(t)
    BY <2>15, NoneFresh, DataAssumption DEF Inv, TypeOK, ThreadInv, JobSet, InTransaction,
         OwnsUpload, Finalizing, ArtifactFinalized, ArtifactIsItsChunks, ChunkBytesKept,
         GcBegin
  <2>16. CASE GcCommit(t)
    BY <2>16, NoneFresh, DataAssumption DEF Inv, TypeOK, ThreadInv, JobSet, InTransaction,
         OwnsUpload, Finalizing, ArtifactFinalized, ArtifactIsItsChunks, ChunkBytesKept,
         GcCommit
  <2>17. CASE GcUnlink(t)
    BY <2>17, NoneFresh, DataAssumption DEF Inv, TypeOK, ThreadInv, JobSet, InTransaction,
         OwnsUpload, Finalizing, ArtifactFinalized, ArtifactIsItsChunks, ChunkBytesKept,
         GcUnlink
  <2>18. ASSUME NEW h \in Hashes, GcMove(t, h) PROVE ChunkInv'
    BY <2>18, NoneFresh, DataAssumption DEF Inv, TypeOK, ThreadInv, JobSet, InTransaction,
         OwnsUpload, Finalizing, ArtifactFinalized, ArtifactIsItsChunks, ChunkBytesKept, GcMove
  <2>19. ASSUME NEW h \in Hashes, ValidateOpen(t, h) PROVE ChunkInv'
    BY <2>19, NoneFresh, DataAssumption DEF Inv, TypeOK, ThreadInv, JobSet, InTransaction,
         OwnsUpload, Finalizing, ArtifactFinalized, ArtifactIsItsChunks, ChunkBytesKept,
         ValidateOpen
  <2>20. CASE ValidateRead(t)
    BY <2>20, NoneFresh, DataAssumption DEF Inv, TypeOK, ThreadInv, JobSet, InTransaction,
         OwnsUpload, Finalizing, ArtifactFinalized, ArtifactIsItsChunks, ChunkBytesKept,
         ValidateRead
  <2>21. CASE ValidateCommit(t)
    BY <2>21, NoneFresh, DataAssumption DEF Inv, TypeOK, ThreadInv, JobSet, InTransaction,
         OwnsUpload, Finalizing, ArtifactFinalized, ArtifactIsItsChunks, ChunkBytesKept,
         ValidateCommit
  <2> QED BY <1>2, <2>1, <2>2, <2>3, <2>4, <2>5, <2>6, <2>7, <2>8, <2>9, <2>10, <2>11,
       <2>12, <2>13, <2>14, <2>15, <2>16, <2>17, <2>18, <2>19, <2>20, <2>21 DEF Step
<1>3. ASSUME NEW t \in Threads, Error(t) PROVE ChunkInv'
  <2>1. CASE PutError(t)
    BY <2>1, NoneFresh, DataAssumption DEF Inv, TypeOK, ThreadInv, JobSet, InTransaction,
         OwnsUpload, Finalizing, ArtifactFinalized, ArtifactIsItsChunks, ChunkBytesKept,
         PutError
  <2>2. CASE FinalizeError(t)
    BY <2>2, NoneFresh, DataAssumption DEF Inv, TypeOK, ThreadInv, JobSet, InTransaction,
         OwnsUpload, Finalizing, ArtifactFinalized, ArtifactIsItsChunks, ChunkBytesKept,
         FinalizeError
  <2>3. CASE Abandon(t)
    BY <2>3, NoneFresh, DataAssumption DEF Inv, TypeOK, ThreadInv, JobSet, InTransaction,
         OwnsUpload, Finalizing, ArtifactFinalized, ArtifactIsItsChunks, ChunkBytesKept,
         Abandon
  <2>4. CASE GcError(t)
    BY <2>4, NoneFresh, DataAssumption DEF Inv, TypeOK, ThreadInv, JobSet, InTransaction,
         OwnsUpload, Finalizing, ArtifactFinalized, ArtifactIsItsChunks, ChunkBytesKept,
         GcError
  <2> QED BY <1>3, <2>1, <2>2, <2>3, <2>4 DEF Error
<1>4. CASE Crash
  BY <1>4, NoneFresh, DataAssumption DEF Inv, TypeOK, ThreadInv, JobSet, InTransaction,
       OwnsUpload, Finalizing, ArtifactFinalized, ArtifactIsItsChunks, ChunkBytesKept, Crash
<1>5. CASE Recover
  <2>1. CASE RecoverDb
    BY <2>1, NoneFresh, DataAssumption DEF Inv, TypeOK, ThreadInv, JobSet, InTransaction,
         OwnsUpload, Finalizing, ArtifactFinalized, ArtifactIsItsChunks, ChunkBytesKept,
         RecoverDb
  <2>2. CASE RecoverTrash
    BY <2>2, NoneFresh, DataAssumption DEF Inv, TypeOK, ThreadInv, JobSet, InTransaction,
         OwnsUpload, Finalizing, ArtifactFinalized, ArtifactIsItsChunks, ChunkBytesKept,
         RecoverTrash
  <2>3. CASE RecoverChunks
    BY <2>3, NoneFresh, DataAssumption DEF Inv, TypeOK, ThreadInv, JobSet, InTransaction,
         OwnsUpload, Finalizing, ArtifactFinalized, ArtifactIsItsChunks, ChunkBytesKept,
         RecoverChunks
  <2>4. CASE RecoverBlobs
    BY <2>4, NoneFresh, DataAssumption DEF Inv, TypeOK, ThreadInv, JobSet, InTransaction,
         OwnsUpload, Finalizing, ArtifactFinalized, ArtifactIsItsChunks, ChunkBytesKept,
         RecoverBlobs
  <2> QED BY <1>5, <2>1, <2>2, <2>3, <2>4 DEF Recover
<1>6. ASSUME NEW h \in Hashes, BitRot(h) PROVE ChunkInv'
  BY <1>6, NoneFresh, DataAssumption DEF Inv, TypeOK, ThreadInv, JobSet, InTransaction,
       OwnsUpload, Finalizing, ArtifactFinalized, ArtifactIsItsChunks, ChunkBytesKept, BitRot
<1>7. CASE UNCHANGED vars
  BY <1>7 DEF Inv, ArtifactFinalized, ArtifactIsItsChunks, ChunkBytesKept, vars
<1> QED BY <1>1, <1>2, <1>3, <1>4, <1>5, <1>6, <1>7 DEF Next

(* Commit and delete change one artifact row and the count of its hash     *)
(* together, gc deletes rows nothing refers to, recovery recounts.         *)
LEMMA CountStep ==
  ASSUME Inv, [Next]_vars
  PROVE  RefcountExact'
<1> USE DEF dbVars, fileVars, memVars, envVars
<1>1. ASSUME NEW t \in Threads, Request(t) PROVE RefcountExact'
  <2>1. ASSUME NEW u \in Uploads, CreateUpload(t, u) PROVE RefcountExact'
    BY <2>1 DEF Inv, RefcountExact, Refs, CreateUpload
  <2>2. ASSUME NEW u \in Uploads, GetRow(t, u) PROVE RefcountExact'
    BY <2>2 DEF Inv, RefcountExact, Refs, GetRow
  <2>3. ASSUME NEW u \in Uploads, DeleteRow(t, u) PROVE RefcountExact'
    BY <2>3 DEF Inv, RefcountExact, Refs, DeleteRow
  <2>4. ASSUME NEW u \in Uploads, NEW i \in Chunks, NEW d \in Data, PutCheck(t, u, i, d)
       PROVE RefcountExact'
    BY <2>4 DEF Inv, RefcountExact, Refs, PutCheck
  <2>5. ASSUME NEW u \in Uploads, NEW h \in Hashes, Freeze(t, u, h) PROVE RefcountExact'
    BY <2>5 DEF Inv, RefcountExact, Refs, Freeze
  <2>6. CASE GcScan(t)
    BY <2>6 DEF Inv, RefcountExact, Refs, GcScan
  <2>7. CASE ValidateStart(t)
    BY <2>7 DEF Inv, RefcountExact, Refs, ValidateStart
  <2> QED BY <1>1, <2>1, <2>2, <2>3, <2>4, <2>5, <2>6, <2>7 DEF Request
<1>2. ASSUME NEW t \in Threads, Step(t) PROVE RefcountExact'
  <2>1. CASE PutRefused(t)
    BY <2>1 DEF Inv, RefcountExact, Refs, PutRefused
  <2>2. CASE PutRename(t)
    BY <2>2 DEF Inv, RefcountExact, Refs, PutRename
  <2>3. CASE PutCommit(t)
    BY <2>3 DEF Inv, RefcountExact, Refs, PutCommit
  <2>4. CASE Assemble(t)
    BY <2>4 DEF Inv, RefcountExact, Refs, Assemble
  <2>5. CASE LockBlob(t)
    BY <2>5 DEF Inv, RefcountExact, Refs, LockBlob
  <2>6. CASE Place(t)
    BY <2>6 DEF Inv, RefcountExact, Refs, Place
  <2>7. CASE Commit(t)
    <3>1. PICK u \in Uploads, h \in Hashes : u = job[t].u /\ h = job[t].h
      BY <2>7 DEF Commit, Inv, ThreadInv, JobSet, Finalizing
    <3> DEFINE old == IF blob[h] = None THEN 0 ELSE blob[h].refs
    <3>2. artifact[u] = None
      BY <2>7, <3>1 DEF Commit, Inv, ThreadInv, OwnsUpload, Finalizing, ArtifactFinalized
    <3>3. \A v \in Uploads : artifact'[v] = IF v = u THEN h ELSE artifact[v]
      BY <2>7, <3>1 DEF Commit, Inv, TypeOK
    <3>4. /\ Refs(h)' = Refs(h) \cup {u} /\ u \notin Refs(h)
          /\ \A g \in Hashes \ {h} : Refs(g)' = Refs(g)
      BY <3>2, <3>3, NoneFresh DEF Refs
    <3>5. Cardinality(Refs(h)') = Cardinality(Refs(h)) + 1 BY <3>4, RefsCount, FS_AddElement
    <3>6. PICK n \in Stamps :
            blob' = [blob EXCEPT ![h] = [refs |-> old + 1, validated |-> TRUE, created |-> n]]
      BY <2>7, <3>1 DEF Commit
    <3>7. old = Cardinality(Refs(h)) BY RefsCount DEF Inv, RefcountExact
    <3>8. blob'[h].refs = Cardinality(Refs(h)') /\ blob'[h] \in Row
      BY <3>5, <3>6, <3>7, RefsCount, DigestAssumption DEF Inv, TypeOK, Row
    <3>9. \A g \in Hashes \ {h} : blob'[g] = blob[g] BY <3>6 DEF Inv, TypeOK
    <3>10. ASSUME NEW g \in Hashes
           PROVE  IF blob'[g] = None THEN Refs(g)' = {} ELSE blob'[g].refs = Cardinality(Refs(g)')
      <4>1. CASE g = h BY <4>1, <3>8, NoneFresh
      <4>2. CASE g # h BY <4>2, <3>4, <3>9 DEF Inv, RefcountExact
      <4> QED BY <4>1, <4>2
    <3> QED BY <3>10 DEF RefcountExact
  <2>8. CASE CleanupChunks(t)
    BY <2>8 DEF Inv, RefcountExact, Refs, CleanupChunks
  <2>9. CASE Unfreeze(t)
    BY <2>9 DEF Inv, RefcountExact, Refs, Unfreeze
  <2>10. CASE GetOpen(t)
    BY <2>10 DEF Inv, RefcountExact, Refs, GetOpen
  <2>11. CASE GetVerify(t)
    BY <2>11, RowsAfter, SameCounts DEF GetVerify, Inv
  <2>12. CASE DeleteLock(t)
    BY <2>12 DEF Inv, RefcountExact, Refs, DeleteLock
  <2>13. CASE DeleteTx(t)
    <3>1. PICK u \in Uploads, h \in Hashes : u = job[t].u /\ h = job[t].h
      BY <2>13 DEF DeleteTx, Inv, ThreadInv, JobSet
    <3>2. CASE artifact[u] = None BY <2>13, <3>1, <3>2 DEF DeleteTx, Inv, RefcountExact, Refs
    <3>3. CASE artifact[u] # None
      <4>1. /\ u \in Refs(h) /\ blob[h] \in Row /\ blob[h].refs = Cardinality(Refs(h))
            /\ blob[h].refs - 1 \in Nat /\ Referenced(h)
        BY <2>13, <3>1, <3>3, DeleteCounted DEF DeleteTx
      <4>2. \A v \in Uploads : artifact'[v] = IF v = u THEN None ELSE artifact[v]
        BY <2>13, <3>1, <3>3, <4>1 DEF DeleteTx, Inv, TypeOK
      <4>3. /\ Refs(h)' = Refs(h) \ {u}
            /\ \A g \in Hashes \ {h} : Refs(g)' = Refs(g)
        <5>1. artifact[u] = h BY <4>1 DEF Refs
        <5> QED BY <4>2, <5>1, NoneFresh DEF Refs
      <4>4. Cardinality(Refs(h)') = Cardinality(Refs(h)) - 1
        <5>1. IsFiniteSet(Refs(h)) BY RefsCount
        <5>2. Cardinality(Refs(h) \ {u}) = Cardinality(Refs(h)) - 1
          BY <4>1, <5>1, FS_RemoveElement
        <5> QED BY <4>3, <5>2
      <4>5. blob' = [blob EXCEPT ![h] = [blob[h] EXCEPT !.refs = blob[h].refs - 1]]
        BY <2>13, <3>1, <3>3, <4>1 DEF DeleteTx
      <4>6. /\ [blob[h] EXCEPT !.refs = blob[h].refs - 1] \in Row
            /\ [blob[h] EXCEPT !.refs = blob[h].refs - 1].refs = blob[h].refs - 1
        BY <4>1, RowFields
      <4>7. \A g \in Hashes : blob'[g] = IF g = h THEN [blob[h] EXCEPT !.refs = blob[h].refs - 1]
                                         ELSE blob[g]
        BY <4>5 DEF Inv, TypeOK
      <4>8. ASSUME NEW g \in Hashes
            PROVE  IF blob'[g] = None THEN Refs(g)' = {} ELSE blob'[g].refs = Cardinality(Refs(g)')
        <5>1. CASE g = h BY <5>1, <4>1, <4>4, <4>6, <4>7, NoneFresh
        <5>2. CASE g # h BY <5>2, <4>3, <4>7 DEF Inv, RefcountExact
        <5> QED BY <5>1, <5>2
      <4> QED BY <4>8 DEF RefcountExact
    <3> QED BY <3>2, <3>3
  <2>14. CASE GcLock(t)
    BY <2>14 DEF Inv, RefcountExact, Refs, GcLock
  <2>15. CASE GcBegin(t)
    BY <2>15 DEF Inv, RefcountExact, Refs, GcBegin
  <2>16. CASE GcCommit(t)
    <3>1. \A h \in job[t].dead : blob[h] # None /\ blob[h].refs = 0
      BY <2>16 DEF GcCommit, Inv, ThreadInv, InTransaction
    <3>2. \A h \in Hashes : h \in job[t].dead => Refs(h) = {} BY <3>1, RefsCount DEF Inv, RefcountExact
    <3> QED BY <2>16, <3>2 DEF GcCommit, Inv, RefcountExact, Refs
  <2>17. CASE GcUnlink(t)
    BY <2>17 DEF Inv, RefcountExact, Refs, GcUnlink
  <2>18. ASSUME NEW h \in Hashes, GcMove(t, h) PROVE RefcountExact'
    BY <2>18 DEF Inv, RefcountExact, Refs, GcMove
  <2>19. ASSUME NEW h \in Hashes, ValidateOpen(t, h) PROVE RefcountExact'
    BY <2>19 DEF Inv, RefcountExact, Refs, ValidateOpen
  <2>20. CASE ValidateRead(t)
    BY <2>20 DEF Inv, RefcountExact, Refs, ValidateRead
  <2>21. CASE ValidateCommit(t)
    BY <2>21, RowsAfter, SameCounts DEF ValidateCommit, Inv
  <2> QED BY <1>2, <2>1, <2>2, <2>3, <2>4, <2>5, <2>6, <2>7, <2>8, <2>9, <2>10, <2>11,
       <2>12, <2>13, <2>14, <2>15, <2>16, <2>17, <2>18, <2>19, <2>20, <2>21 DEF Step
<1>3. ASSUME NEW t \in Threads, Error(t) PROVE RefcountExact'
  <2>1. CASE PutError(t)
    BY <2>1 DEF Inv, RefcountExact, Refs, PutError
  <2>2. CASE FinalizeError(t)
    BY <2>2 DEF Inv, RefcountExact, Refs, FinalizeError
  <2>3. CASE Abandon(t)
    BY <2>3 DEF Inv, RefcountExact, Refs, Abandon
  <2>4. CASE GcError(t)
    BY <2>4 DEF Inv, RefcountExact, Refs, GcError
  <2> QED BY <1>3, <2>1, <2>2, <2>3, <2>4 DEF Error
<1>4. CASE Crash
  BY <1>4 DEF Inv, RefcountExact, Refs, Crash
<1>5. CASE Recover
  <2>1. CASE RecoverDb
    BY <2>1, RowsAfter, SameCounts DEF RecoverDb, Inv
  <2>2. CASE RecoverTrash
    BY <2>2 DEF Inv, RefcountExact, Refs, RecoverTrash
  <2>3. CASE RecoverChunks
    BY <2>3 DEF Inv, RefcountExact, Refs, RecoverChunks
  <2>4. CASE RecoverBlobs
    BY <2>4 DEF Inv, RefcountExact, Refs, RecoverBlobs
  <2> QED BY <1>5, <2>1, <2>2, <2>3, <2>4 DEF Recover
<1>6. ASSUME NEW h \in Hashes, BitRot(h) PROVE RefcountExact'
  BY <1>6 DEF Inv, RefcountExact, Refs, BitRot
<1>7. CASE UNCHANGED vars
  BY <1>7 DEF Inv, RefcountExact, Refs, vars
<1> QED BY <1>1, <1>2, <1>3, <1>4, <1>5, <1>6, <1>7 DEF Next

(* A file goes only while the count of its hash is zero or it has no row.  *)
LEMMA FileStep ==
  ASSUME Inv, [Next]_vars
  PROVE  FileKept'
<1> USE DEF dbVars, fileVars, memVars, envVars
<1>1. ASSUME NEW t \in Threads, Request(t) PROVE FileKept'
  <2>1. ASSUME NEW u \in Uploads, CreateUpload(t, u) PROVE FileKept'
    BY <2>1, NoneFresh DEF Inv, TypeOK, FileKept, ThreadInv, JobSet, HoldsLocks,
         QuietRecovery, Finalizing, CreateUpload
  <2>2. ASSUME NEW u \in Uploads, GetRow(t, u) PROVE FileKept'
    BY <2>2, NoneFresh DEF Inv, TypeOK, FileKept, ThreadInv, JobSet, HoldsLocks,
         QuietRecovery, Finalizing, GetRow
  <2>3. ASSUME NEW u \in Uploads, DeleteRow(t, u) PROVE FileKept'
    BY <2>3, NoneFresh DEF Inv, TypeOK, FileKept, ThreadInv, JobSet, HoldsLocks,
         QuietRecovery, Finalizing, DeleteRow
  <2>4. ASSUME NEW u \in Uploads, NEW i \in Chunks, NEW d \in Data, PutCheck(t, u, i, d)
       PROVE FileKept'
    BY <2>4, NoneFresh DEF Inv, TypeOK, FileKept, ThreadInv, JobSet, HoldsLocks,
         QuietRecovery, Finalizing, PutCheck
  <2>5. ASSUME NEW u \in Uploads, NEW h \in Hashes, Freeze(t, u, h) PROVE FileKept'
    BY <2>5, NoneFresh DEF Inv, TypeOK, FileKept, ThreadInv, JobSet, HoldsLocks,
         QuietRecovery, Finalizing, Freeze
  <2>6. CASE GcScan(t)
    BY <2>6, NoneFresh DEF Inv, TypeOK, FileKept, ThreadInv, JobSet, HoldsLocks,
         QuietRecovery, Finalizing, GcScan
  <2>7. CASE ValidateStart(t)
    BY <2>7, NoneFresh DEF Inv, TypeOK, FileKept, ThreadInv, JobSet, HoldsLocks,
         QuietRecovery, Finalizing, ValidateStart
  <2> QED BY <1>1, <2>1, <2>2, <2>3, <2>4, <2>5, <2>6, <2>7 DEF Request
<1>2. ASSUME NEW t \in Threads, Step(t) PROVE FileKept'
  <2>1. CASE PutRefused(t)
    BY <2>1, NoneFresh DEF Inv, TypeOK, FileKept, ThreadInv, JobSet, HoldsLocks,
         QuietRecovery, Finalizing, PutRefused
  <2>2. CASE PutRename(t)
    BY <2>2, NoneFresh DEF Inv, TypeOK, FileKept, ThreadInv, JobSet, HoldsLocks,
         QuietRecovery, Finalizing, PutRename
  <2>3. CASE PutCommit(t)
    BY <2>3, NoneFresh DEF Inv, TypeOK, FileKept, ThreadInv, JobSet, HoldsLocks,
         QuietRecovery, Finalizing, PutCommit
  <2>4. CASE Assemble(t)
    BY <2>4, NoneFresh DEF Inv, TypeOK, FileKept, ThreadInv, JobSet, HoldsLocks,
         QuietRecovery, Finalizing, Assemble
  <2>5. CASE LockBlob(t)
    BY <2>5, NoneFresh DEF Inv, TypeOK, FileKept, ThreadInv, JobSet, HoldsLocks,
         QuietRecovery, Finalizing, LockBlob
  <2>6. CASE Place(t)
    <3>1. job[t].h \in Hashes BY <2>6 DEF Place, Inv, ThreadInv, JobSet, Finalizing
    <3>2. PICK n \in Stamps : blobFile' = [blobFile EXCEPT ![job[t].h] = [good |-> TRUE, ino |-> n]]
      BY <2>6 DEF Place
    <3>3. [good |-> TRUE, ino |-> n] \in File BY DigestAssumption DEF File
    <3>4. blobFile'[job[t].h].good /\ blobFile'[job[t].h] # None
      BY <3>1, <3>2, <3>3, NoneFresh DEF Inv, TypeOK
    <3>5. \A h \in Hashes : h # job[t].h => blobFile'[h] = blobFile[h]
      BY <3>1, <3>2 DEF Inv, TypeOK
    <3>6. UNCHANGED <<blob, rotted>> /\ FileKept
      BY <2>6 DEF Place, Inv
    <3> QED BY <3>4, <3>5, <3>6 DEF FileKept
  <2>7. CASE Commit(t)
    BY <2>7, NoneFresh DEF Inv, TypeOK, FileKept, ThreadInv, JobSet, HoldsLocks,
         QuietRecovery, Finalizing, Commit
  <2>8. CASE CleanupChunks(t)
    BY <2>8, NoneFresh DEF Inv, TypeOK, FileKept, ThreadInv, JobSet, HoldsLocks,
         QuietRecovery, Finalizing, CleanupChunks
  <2>9. CASE Unfreeze(t)
    BY <2>9, NoneFresh DEF Inv, TypeOK, FileKept, ThreadInv, JobSet, HoldsLocks,
         QuietRecovery, Finalizing, Unfreeze
  <2>10. CASE GetOpen(t)
    BY <2>10, NoneFresh DEF Inv, TypeOK, FileKept, ThreadInv, JobSet, HoldsLocks,
         QuietRecovery, Finalizing, GetOpen
  <2>11. CASE GetVerify(t)
    BY <2>11, RowsAfter DEF GetVerify, Inv, FileKept
  <2>12. CASE DeleteLock(t)
    BY <2>12, NoneFresh DEF Inv, TypeOK, FileKept, ThreadInv, JobSet, HoldsLocks,
         QuietRecovery, Finalizing, DeleteLock
  <2>13. CASE DeleteTx(t)
    <3>1. CASE artifact[job[t].u] = None BY <2>13, <3>1 DEF DeleteTx, Inv, FileKept
    <3>2. CASE artifact[job[t].u] # None
      <4>1. PICK h \in Hashes : h = job[t].h BY <2>13 DEF DeleteTx, Inv, ThreadInv, JobSet
      <4>2. blob[h] \in Row /\ blob[h].refs - 1 \in Nat
        BY <2>13, <3>2, <4>1, DeleteCounted DEF DeleteTx
      <4>3. blobFile[h] # None BY <4>2, NoneFresh DEF Inv, FileKept, Row
      <4>4. \A g \in Hashes : g = h \/ blob'[g] = blob[g] BY <2>13, <3>2, <4>1 DEF DeleteTx, Inv, TypeOK
      <4> QED BY <2>13, <4>3, <4>4 DEF DeleteTx, Inv, FileKept
    <3> QED BY <3>1, <3>2
  <2>14. CASE GcLock(t)
    BY <2>14, NoneFresh DEF Inv, TypeOK, FileKept, ThreadInv, JobSet, HoldsLocks,
         QuietRecovery, Finalizing, GcLock
  <2>15. CASE GcBegin(t)
    BY <2>15, NoneFresh DEF Inv, TypeOK, FileKept, ThreadInv, JobSet, HoldsLocks,
         QuietRecovery, Finalizing, GcBegin
  <2>16. CASE GcCommit(t)
    BY <2>16, NoneFresh DEF Inv, TypeOK, FileKept, ThreadInv, JobSet, HoldsLocks,
         QuietRecovery, Finalizing, GcCommit
  <2>17. CASE GcUnlink(t)
    BY <2>17, NoneFresh DEF Inv, TypeOK, FileKept, ThreadInv, JobSet, HoldsLocks,
         QuietRecovery, Finalizing, GcUnlink
  <2>18. ASSUME NEW h \in Hashes, GcMove(t, h) PROVE FileKept'
    BY <2>18, NoneFresh DEF Inv, TypeOK, FileKept, ThreadInv, JobSet, HoldsLocks,
         QuietRecovery, Finalizing, GcMove
  <2>19. ASSUME NEW h \in Hashes, ValidateOpen(t, h) PROVE FileKept'
    BY <2>19, NoneFresh DEF Inv, TypeOK, FileKept, ThreadInv, JobSet, HoldsLocks,
         QuietRecovery, Finalizing, ValidateOpen
  <2>20. CASE ValidateRead(t)
    BY <2>20, NoneFresh DEF Inv, TypeOK, FileKept, ThreadInv, JobSet, HoldsLocks,
         QuietRecovery, Finalizing, ValidateRead
  <2>21. CASE ValidateCommit(t)
    BY <2>21, RowsAfter DEF ValidateCommit, Inv, FileKept
  <2> QED BY <1>2, <2>1, <2>2, <2>3, <2>4, <2>5, <2>6, <2>7, <2>8, <2>9, <2>10, <2>11,
       <2>12, <2>13, <2>14, <2>15, <2>16, <2>17, <2>18, <2>19, <2>20, <2>21 DEF Step
<1>3. ASSUME NEW t \in Threads, Error(t) PROVE FileKept'
  <2>1. CASE PutError(t)
    BY <2>1, NoneFresh DEF Inv, TypeOK, FileKept, ThreadInv, JobSet, HoldsLocks,
         QuietRecovery, Finalizing, PutError
  <2>2. CASE FinalizeError(t)
    BY <2>2, NoneFresh DEF Inv, TypeOK, FileKept, ThreadInv, JobSet, HoldsLocks,
         QuietRecovery, Finalizing, FinalizeError
  <2>3. CASE Abandon(t)
    BY <2>3, NoneFresh DEF Inv, TypeOK, FileKept, ThreadInv, JobSet, HoldsLocks,
         QuietRecovery, Finalizing, Abandon
  <2>4. CASE GcError(t)
    BY <2>4, NoneFresh DEF Inv, TypeOK, FileKept, ThreadInv, JobSet, HoldsLocks,
         QuietRecovery, Finalizing, GcError
  <2> QED BY <1>3, <2>1, <2>2, <2>3, <2>4 DEF Error
<1>4. CASE Crash
  BY <1>4, NoneFresh DEF Inv, TypeOK, FileKept, ThreadInv, JobSet, HoldsLocks,
       QuietRecovery, Finalizing, Crash
<1>5. CASE Recover
  <2>1. CASE RecoverDb
    BY <2>1, RowsAfter DEF RecoverDb, Inv, FileKept
  <2>2. CASE RecoverTrash
    BY <2>2, NoneFresh DEF Inv, TypeOK, FileKept, ThreadInv, JobSet, HoldsLocks,
         QuietRecovery, Finalizing, RecoverTrash
  <2>3. CASE RecoverChunks
    BY <2>3, NoneFresh DEF Inv, TypeOK, FileKept, ThreadInv, JobSet, HoldsLocks,
         QuietRecovery, Finalizing, RecoverChunks
  <2>4. CASE RecoverBlobs
    BY <2>4, NoneFresh DEF Inv, TypeOK, FileKept, ThreadInv, JobSet, HoldsLocks,
         QuietRecovery, Finalizing, RecoverBlobs
  <2> QED BY <1>5, <2>1, <2>2, <2>3, <2>4 DEF Recover
<1>6. ASSUME NEW h \in Hashes, BitRot(h) PROVE FileKept'
  <2>1. blobFile[h] \in File BY <1>6 DEF Inv, TypeOK, BitRot
  <2>2. [blobFile[h] EXCEPT !.good = FALSE] \in File BY <2>1 DEF File
  <2> QED BY <1>6, <2>1, <2>2, NoneFresh DEF BitRot, Inv, TypeOK, FileKept
<1>7. CASE UNCHANGED vars
  BY <1>7 DEF Inv, FileKept, vars
<1> QED BY <1>1, <1>2, <1>3, <1>4, <1>5, <1>6, <1>7 DEF Next

-----------------------------------------------------------------------------
(* A step that opens no descriptor keeps those there are: at most one      *)
(* thread moves, and not to where an open file is read.                    *)
LEMMA ReadersLeft ==
  ASSUME Inv, rotted \subseteq rotted',
         \A s \in Threads :
           \/ pc'[s] \notin {"getVerify", "valRead"}
           \/ pc'[s] = pc[s] /\ job'[s] = job[s]
  PROVE  ReadsReal'
BY DEF Inv, ReadsReal

(* When all threads are idle nobody reads a file.                          *)
LEMMA IdleReads ==
  ASSUME \A s \in Threads : pc'[s] = "idle"
  PROVE  ReadsReal'
BY DEF ReadsReal

(* A descriptor is opened on the file the hash has, which is whole unless  *)
(* its bytes rotted.                                                       *)
LEMMA ReadsStep ==
  ASSUME Inv, [Next]_vars
  PROVE  ReadsReal'
<1> USE DEF Goto, Finish, ReleaseBy, Idle, dbVars, fileVars, memVars, envVars
<1>1. ASSUME NEW t \in Threads, Request(t) PROVE ReadsReal'
  <2>1. ASSUME NEW u \in Uploads, CreateUpload(t, u) PROVE ReadsReal'
    BY <2>1, ReadersLeft DEF CreateUpload, Inv, TypeOK
  <2>2. ASSUME NEW u \in Uploads, GetRow(t, u) PROVE ReadsReal'
    BY <2>2, ReadersLeft DEF GetRow, Inv, TypeOK
  <2>3. ASSUME NEW u \in Uploads, DeleteRow(t, u) PROVE ReadsReal'
    BY <2>3, ReadersLeft DEF DeleteRow, Inv, TypeOK
  <2>4. ASSUME NEW u \in Uploads, NEW i \in Chunks, NEW d \in Data, PutCheck(t, u, i, d) PROVE ReadsReal'
    BY <2>4, ReadersLeft DEF PutCheck, Inv, TypeOK
  <2>5. ASSUME NEW u \in Uploads, NEW h \in Hashes, Freeze(t, u, h) PROVE ReadsReal'
    BY <2>5, ReadersLeft DEF Freeze, Inv, TypeOK
  <2>6. CASE GcScan(t)
    BY <2>6, ReadersLeft DEF GcScan, NextBatch, Inv, TypeOK
  <2>7. CASE ValidateStart(t)
    BY <2>7, ReadersLeft DEF ValidateStart, Inv, TypeOK
  <2> QED BY <1>1, <2>1, <2>2, <2>3, <2>4, <2>5, <2>6, <2>7 DEF Request
<1>2. ASSUME NEW t \in Threads, Step(t) PROVE ReadsReal'
  <2>1. CASE PutRefused(t)
    BY <2>1, ReadersLeft DEF PutRefused, Inv, TypeOK
  <2>2. CASE PutRename(t)
    BY <2>2, ReadersLeft DEF PutRename, Inv, TypeOK
  <2>3. CASE PutCommit(t)
    BY <2>3, ReadersLeft DEF PutCommit, Inv, TypeOK
  <2>4. CASE Assemble(t)
    BY <2>4, ReadersLeft DEF Assemble, Inv, TypeOK
  <2>5. CASE LockBlob(t)
    BY <2>5, ReadersLeft DEF LockBlob, Inv, TypeOK
  <2>6. CASE Place(t)
    BY <2>6, ReadersLeft DEF Place, Inv, TypeOK
  <2>7. CASE Commit(t)
    BY <2>7, ReadersLeft DEF Commit, Inv, TypeOK
  <2>8. CASE CleanupChunks(t)
    BY <2>8, ReadersLeft DEF CleanupChunks, Inv, TypeOK
  <2>9. CASE Unfreeze(t)
    BY <2>9, ReadersLeft DEF Unfreeze, Inv, TypeOK
  <2>10. CASE GetOpen(t)
    <3>1. job[t].h \in Hashes BY <2>10 DEF GetOpen, Inv, ThreadInv, JobSet
    <3>2. CASE Finish(t) BY <2>10, <3>2, ReadersLeft DEF GetOpen, Inv, TypeOK
    <3>3. CASE ~Finish(t)
      <4>1. /\ job' = [job EXCEPT ![t] = [job[t] EXCEPT !.file = blobFile[job[t].h]]]
            /\ blobFile[job[t].h].good \/ job[t].h \in rotted
        BY <2>10, <3>1, <3>3 DEF GetOpen, Inv, FileKept
      <4>2. [job[t] EXCEPT !.file = blobFile[job[t].h]].file = blobFile[job[t].h]
            /\ [job[t] EXCEPT !.file = blobFile[job[t].h]].h = job[t].h
        BY DEF Inv, TypeOK, Jobs
      <4> QED BY <2>10, <3>3, <4>1, <4>2 DEF GetOpen, Inv, TypeOK, ReadsReal
    <3> QED BY <3>2, <3>3
  <2>11. CASE GetVerify(t)
    BY <2>11, ReadersLeft DEF GetVerify, Inv, TypeOK
  <2>12. CASE DeleteLock(t)
    BY <2>12, ReadersLeft DEF DeleteLock, Inv, TypeOK
  <2>13. CASE DeleteTx(t)
    BY <2>13, ReadersLeft DEF DeleteTx, Inv, TypeOK
  <2>14. CASE GcLock(t)
    BY <2>14, ReadersLeft DEF GcLock, Inv, TypeOK
  <2>15. CASE GcBegin(t)
    BY <2>15, ReadersLeft DEF GcBegin, Inv, TypeOK
  <2>16. CASE GcCommit(t)
    BY <2>16, ReadersLeft DEF GcCommit, Inv, TypeOK
  <2>17. CASE GcUnlink(t)
    BY <2>17, ReadersLeft DEF GcUnlink, NextBatch, Inv, TypeOK
  <2>18. ASSUME NEW h \in Hashes, GcMove(t, h) PROVE ReadsReal'
    BY <2>18, ReadersLeft DEF GcMove, Inv, TypeOK
  <2>19. ASSUME NEW h \in Hashes, ValidateOpen(t, h) PROVE ReadsReal'
    <3>1. CASE blobFile[h] = None BY <2>19, <3>1, ReadersLeft DEF ValidateOpen, Inv, TypeOK
    <3>2. CASE blobFile[h] # None
      <4>1. /\ job' = [job EXCEPT ![t] = [NoJob EXCEPT !.h = h, !.file = blobFile[h]]]
            /\ blobFile[h].good \/ h \in rotted
        BY <2>19, <3>2 DEF ValidateOpen, Inv, FileKept
      <4>2. [NoJob EXCEPT !.h = h, !.file = blobFile[h]].file = blobFile[h]
            /\ [NoJob EXCEPT !.h = h, !.file = blobFile[h]].h = h
        BY DEF NoJob
      <4> QED BY <2>19, <3>2, <4>1, <4>2 DEF ValidateOpen, Inv, TypeOK, ReadsReal
    <3> QED BY <3>1, <3>2
  <2>20. CASE ValidateRead(t)
    BY <2>20, ReadersLeft DEF ValidateRead, Inv, TypeOK
  <2>21. CASE ValidateCommit(t)
    BY <2>21, ReadersLeft DEF ValidateCommit, Inv, TypeOK
  <2> QED BY <1>2, <2>1, <2>2, <2>3, <2>4, <2>5, <2>6, <2>7, <2>8, <2>9, <2>10, <2>11,
       <2>12, <2>13, <2>14, <2>15, <2>16, <2>17, <2>18, <2>19, <2>20, <2>21 DEF Step
<1>3. ASSUME NEW t \in Threads, Error(t) PROVE ReadsReal'
  <2>1. CASE PutError(t)
    BY <2>1, ReadersLeft DEF PutError, Inv, TypeOK
  <2>2. CASE FinalizeError(t)
    BY <2>2, ReadersLeft DEF FinalizeError, Inv, TypeOK
  <2>3. CASE Abandon(t)
    BY <2>3, ReadersLeft DEF Abandon, Inv, TypeOK
  <2>4. CASE GcError(t)
    BY <2>4, ReadersLeft DEF GcError, Inv, TypeOK
  <2> QED BY <1>3, <2>1, <2>2, <2>3, <2>4 DEF Error
<1>4. CASE Crash
  BY <1>4, IdleReads DEF Crash, Inv, QuietRecovery
<1>5. CASE Recover
  <2>1. CASE RecoverDb
    BY <2>1, IdleReads DEF RecoverDb, Inv, QuietRecovery
  <2>2. CASE RecoverTrash
    BY <2>2, IdleReads DEF RecoverTrash, Inv, QuietRecovery
  <2>3. CASE RecoverChunks
    BY <2>3, IdleReads DEF RecoverChunks, Inv, QuietRecovery
  <2>4. CASE RecoverBlobs
    BY <2>4, IdleReads DEF RecoverBlobs, Inv, QuietRecovery
  <2> QED BY <1>5, <2>1, <2>2, <2>3, <2>4 DEF Recover
<1>6. ASSUME NEW h \in Hashes, BitRot(h) PROVE ReadsReal'
  BY <1>6, ReadersLeft DEF BitRot, Inv, TypeOK
<1>7. CASE UNCHANGED vars
  BY <1>7, ReadersLeft DEF vars, Inv, TypeOK
<1> QED BY <1>1, <1>2, <1>3, <1>4, <1>5, <1>6, <1>7 DEF Next

(* A step that leaves the rows and the verdicts alone raises no alarm.     *)
LEMMA AlarmKept ==
  ASSUME Inv, UNCHANGED <<blob, val>>, rotted \subseteq rotted'
  PROVE  VerdictsReal' /\ NoFalseAlarm'
BY DEF Inv, VerdictsReal, NoFalseAlarm

(* Whatever a step flags has rotted or has no reference: a missing file is *)
(* the file of a row without references, and a commit since the snapshot   *)
(* gave the row a created_at the verdict does not match.                   *)
LEMMA AlarmStep ==
  ASSUME Inv, [Next]_vars
  PROVE  VerdictsReal' /\ NoFalseAlarm'
<1> USE DEF dbVars, fileVars, memVars, envVars
<1>1. ASSUME NEW t \in Threads, Request(t) PROVE VerdictsReal' /\ NoFalseAlarm'
  <2>1. ASSUME NEW u \in Uploads, CreateUpload(t, u) PROVE VerdictsReal' /\ NoFalseAlarm'
    BY <2>1, AlarmKept DEF CreateUpload
  <2>2. ASSUME NEW u \in Uploads, GetRow(t, u) PROVE VerdictsReal' /\ NoFalseAlarm'
    BY <2>2, AlarmKept DEF GetRow
  <2>3. ASSUME NEW u \in Uploads, DeleteRow(t, u) PROVE VerdictsReal' /\ NoFalseAlarm'
    BY <2>3, AlarmKept DEF DeleteRow
  <2>4. ASSUME NEW u \in Uploads, NEW i \in Chunks, NEW d \in Data, PutCheck(t, u, i, d) PROVE VerdictsReal' /\ NoFalseAlarm'
    BY <2>4, AlarmKept DEF PutCheck
  <2>5. ASSUME NEW u \in Uploads, NEW h \in Hashes, Freeze(t, u, h) PROVE VerdictsReal' /\ NoFalseAlarm'
    BY <2>5, AlarmKept DEF Freeze
  <2>6. CASE GcScan(t)
    BY <2>6, AlarmKept DEF GcScan
  <2>7. CASE ValidateStart(t)
    <3>1. val'.bad = {} /\ UNCHANGED <<blob, rotted>> BY <2>7 DEF ValidateStart
    <3> QED BY <3>1 DEF VerdictsReal, Inv, NoFalseAlarm
  <2> QED BY <1>1, <2>1, <2>2, <2>3, <2>4, <2>5, <2>6, <2>7 DEF Request
<1>2. ASSUME NEW t \in Threads, Step(t) PROVE VerdictsReal' /\ NoFalseAlarm'
  <2>1. CASE PutRefused(t)
    BY <2>1, AlarmKept DEF PutRefused
  <2>2. CASE PutRename(t)
    BY <2>2, AlarmKept DEF PutRename
  <2>3. CASE PutCommit(t)
    BY <2>3, AlarmKept DEF PutCommit
  <2>4. CASE Assemble(t)
    BY <2>4, AlarmKept DEF Assemble
  <2>5. CASE LockBlob(t)
    BY <2>5, AlarmKept DEF LockBlob
  <2>6. CASE Place(t)
    BY <2>6, AlarmKept DEF Place
  <2>7. CASE Commit(t)
    <3>1. PICK g \in Hashes : g = job[t].h
      BY <2>7 DEF Commit, Inv, ThreadInv, JobSet, Finalizing
    <3>2. PICK r \in Nat, n \in Stamps :
            Fresh(n, Times) /\ blob' = [blob EXCEPT ![g] = [refs |-> r, validated |-> TRUE,
                                                          created |-> n]]
      <4> DEFINE old == IF blob[g] = None THEN 0 ELSE blob[g].refs
      <4>1. old + 1 \in Nat BY <3>1 DEF Inv, TypeOK, Row
      <4> QED BY <2>7, <3>1, <4>1 DEF Commit
    <3>3. /\ \A h \in Hashes \ {g} : blob'[h] = blob[h]
          /\ blob'[g].validated /\ blob'[g].created = n
      BY <3>1, <3>2 DEF Inv, TypeOK
    <3>4. val.snap[g] # n BY <3>1, <3>2 DEF Fresh, Times
    <3>5. UNCHANGED <<val, rotted>> BY <2>7 DEF Commit
    <3>6. val.bad \subseteq Hashes BY DEF Inv, TypeOK
    <3> QED BY <3>3, <3>4, <3>5, <3>6 DEF Inv, VerdictsReal, NoFalseAlarm
  <2>8. CASE CleanupChunks(t)
    BY <2>8, AlarmKept DEF CleanupChunks
  <2>9. CASE Unfreeze(t)
    BY <2>9, AlarmKept DEF Unfreeze
  <2>10. CASE GetOpen(t)
    BY <2>10, AlarmKept DEF GetOpen
  <2>11. CASE GetVerify(t)
    <3>1. PICK g \in Hashes : g = job[t].h BY <2>11 DEF GetVerify, Inv, ThreadInv, JobSet
    <3>2. UNCHANGED <<val, rotted>> BY <2>11 DEF GetVerify
    <3>3. CASE blob' = blob BY <3>2, <3>3, AlarmKept
    <3>4. CASE blob' # blob
      <4>1. ~Reads(g, job[t].file) BY <2>11, <3>1, <3>4 DEF GetVerify
      <4>2. g \in rotted
        BY <2>11, <3>1, <4>1 DEF GetVerify, Reads, Inv, ReadsReal, FileKept
      <4>3. \A h \in Hashes : h # g => blob'[h] = blob[h]
        BY <2>11, <3>1, <3>4 DEF GetVerify, Inv, TypeOK
      <4>4. val.bad \subseteq Hashes BY DEF Inv, TypeOK
      <4> QED BY <3>2, <4>2, <4>3, <4>4 DEF Inv, VerdictsReal, NoFalseAlarm
    <3> QED BY <3>3, <3>4
  <2>12. CASE DeleteLock(t)
    BY <2>12, AlarmKept DEF DeleteLock
  <2>13. CASE DeleteTx(t)
    <3>1. UNCHANGED <<val, rotted>> BY <2>13 DEF DeleteTx
    <3>2. CASE blob' = blob BY <3>1, <3>2, AlarmKept
    <3>3. CASE blob' # blob
      <4>1. PICK g \in Hashes : g = job[t].h BY <2>13 DEF DeleteTx, Inv, ThreadInv, JobSet
      <4>2. Referenced(g) /\ blob' = [blob EXCEPT ![g] = [blob[g] EXCEPT !.refs = blob[g].refs - 1]]
        BY <2>13, <3>3, <4>1 DEF DeleteTx
      <4>3. blob[g] \in Row BY <4>2 DEF Referenced, Inv, TypeOK
      <4>4. PICK r \in Row : r = blob[g] /\ r.refs > 0 BY <4>2, <4>3 DEF Referenced
      <4>5. /\ [r EXCEPT !.refs = r.refs - 1].created = r.created
            /\ [r EXCEPT !.refs = r.refs - 1].validated = r.validated
        BY DEF Row
      <4>6. /\ blob'[g].created = blob[g].created /\ blob'[g].validated = blob[g].validated
            /\ \A h \in Hashes \ {g} : blob'[h] = blob[h]
        BY <4>2, <4>4, <4>5 DEF Inv, TypeOK
      <4>7. blob[g] # None /\ blob[g].refs > 0 /\ blob[g].refs # 0
        BY <4>2 , <4>3 DEF Referenced, Row
      <4>8. val.bad \subseteq Hashes BY DEF Inv, TypeOK
      <4>9. VerdictsReal' BY <3>1, <4>6, <4>7, <4>8 DEF Inv, VerdictsReal
      <4>10. NoFalseAlarm' BY <3>1, <4>6, <4>7 DEF Inv, NoFalseAlarm
      <4> QED BY <4>9, <4>10
    <3> QED BY <3>2, <3>3
  <2>14. CASE GcLock(t)
    BY <2>14, AlarmKept DEF GcLock
  <2>15. CASE GcBegin(t)
    BY <2>15, AlarmKept DEF GcBegin
  <2>16. CASE GcCommit(t)
    <3>1. \A h \in Hashes : blob'[h] \in {None, blob[h]} BY <2>16 DEF GcCommit
    <3>2. UNCHANGED <<val, rotted>> /\ val.bad \subseteq Hashes
      BY <2>16 DEF GcCommit, Inv, TypeOK
    <3> QED BY <3>1, <3>2 DEF Inv, VerdictsReal, NoFalseAlarm
  <2>17. CASE GcUnlink(t)
    BY <2>17, AlarmKept DEF GcUnlink
  <2>18. ASSUME NEW h \in Hashes, GcMove(t, h) PROVE VerdictsReal' /\ NoFalseAlarm'
    BY <2>18, AlarmKept DEF GcMove
  <2>19. ASSUME NEW h \in Hashes, ValidateOpen(t, h) PROVE VerdictsReal' /\ NoFalseAlarm'
    <3>1. UNCHANGED <<blob, rotted>> BY <2>19 DEF ValidateOpen
    <3>2. CASE blobFile[h] = None
      <4>1. val'.bad = val.bad \cup {h} /\ val'.snap = val.snap
        BY <2>19, <3>2 DEF ValidateOpen, Inv, TypeOK
      <4>2. blob[h] # None => blob[h].refs = 0
        BY <3>2 DEF Inv, FileKept, TypeOK, Row
      <4> QED BY <3>1, <4>1, <4>2 DEF Inv, VerdictsReal, NoFalseAlarm
    <3>3. CASE blobFile[h] # None BY <2>19, <3>1, <3>3, AlarmKept DEF ValidateOpen
    <3> QED BY <3>2, <3>3
  <2>20. CASE ValidateRead(t)
    <3>1. UNCHANGED <<blob, rotted>> BY <2>20 DEF ValidateRead
    <3>2. PICK g \in Hashes : g = job[t].h BY <2>20 DEF ValidateRead, Inv, ThreadInv, JobSet
    <3>3. /\ val'.snap = val.snap
          /\ \/ val'.bad = val.bad
             \/ val'.bad = val.bad \cup {g} /\ ~Reads(g, job[t].file)
      BY <2>20, <3>2 DEF ValidateRead, Inv, TypeOK
    <3>4. ~Reads(g, job[t].file) => g \in rotted
      BY <2>20, <3>2 DEF ValidateRead, Reads, Inv, ReadsReal, FileKept
    <3> QED BY <3>1, <3>3, <3>4 DEF Inv, VerdictsReal, NoFalseAlarm
  <2>21. CASE ValidateCommit(t)
    <3>1. /\ \A h \in Hashes : blob'[h] = Verdict(h)
          /\ val'.bad = {} /\ UNCHANGED rotted
      BY <2>21 DEF ValidateCommit, NoVal
    <3>2. VerdictsReal' BY <3>1 DEF VerdictsReal
    <3>3. ASSUME NEW h \in Hashes, blob'[h] # None, blob'[h].refs > 0, ~blob'[h].validated
          PROVE  h \in rotted
      <4>1. blob[h] # None /\ blob[h].refs = blob'[h].refs BY <2>21, <3>3, RowsAfter
      <4>2. CASE blob[h].created = val.snap[h]
        <5>1. PICK r \in Row : r = blob[h] BY <4>1 DEF Inv, TypeOK
        <5> DEFINE good == h \notin val.bad
        <5>2. blob'[h] = [r EXCEPT !.validated = good]
          BY <3>1, <4>1, <4>2, <5>1 DEF Verdict
        <5>3. blob'[h].validated = good BY <5>2 DEF Row
        <5>4. h \in val.bad BY <3>3, <5>3
        <5>5. blob[h].refs # 0 BY <3>3, <4>1
        <5> QED BY <4>1, <4>2, <5>4, <5>5 DEF Inv, VerdictsReal
      <4>3. CASE blob[h].created # val.snap[h]
        <5>1. blob'[h] = blob[h] BY <3>1, <4>3 DEF Verdict
        <5> QED BY <3>3, <5>1 DEF Inv, NoFalseAlarm
      <4> QED BY <4>2, <4>3
    <3>4. NoFalseAlarm' BY <3>1, <3>3 DEF NoFalseAlarm
    <3> QED BY <3>2, <3>4
  <2> QED BY <1>2, <2>1, <2>2, <2>3, <2>4, <2>5, <2>6, <2>7, <2>8, <2>9, <2>10, <2>11,
       <2>12, <2>13, <2>14, <2>15, <2>16, <2>17, <2>18, <2>19, <2>20, <2>21 DEF Step
<1>3. ASSUME NEW t \in Threads, Error(t) PROVE VerdictsReal' /\ NoFalseAlarm'
  <2>1. CASE PutError(t)
    BY <2>1, AlarmKept DEF PutError
  <2>2. CASE FinalizeError(t)
    BY <2>2, AlarmKept DEF FinalizeError
  <2>3. CASE Abandon(t)
    BY <2>3, AlarmKept DEF Abandon
  <2>4. CASE GcError(t)
    BY <2>4, AlarmKept DEF GcError
  <2> QED BY <1>3, <2>1, <2>2, <2>3, <2>4 DEF Error
<1>4. CASE Crash
  <2>1. val'.bad = {} /\ UNCHANGED <<blob, rotted>> BY <1>4 DEF Crash, NoVal
  <2> QED BY <2>1 DEF VerdictsReal, Inv, NoFalseAlarm
<1>5. CASE Recover
  <2>1. CASE RecoverDb
    <3>1. UNCHANGED <<val, rotted>> /\ val.bad \subseteq Hashes
      BY <2>1 DEF RecoverDb, Inv, TypeOK
    <3>2. ASSUME NEW h \in Hashes, blob'[h] # None
          PROVE  /\ blob[h] # None /\ blob'[h].refs = blob[h].refs
                 /\ blob'[h].created = blob[h].created
                 /\ blob'[h].validated = blob[h].validated
      <4>1. blob[h] # None /\ blob'[h].refs = blob[h].refs BY <2>1, <3>2, RowsAfter
      <4>2. PICK r \in Row : r = blob[h] BY <4>1 DEF Inv, TypeOK
      <4>3. blob'[h] = [r EXCEPT !.refs = Cardinality(Refs(h))]
        BY <2>1, <4>1, <4>2 DEF RecoverDb
      <4> QED BY <4>1, <4>2, <4>3 DEF Row
    <3> QED BY <3>1, <3>2 DEF Inv, VerdictsReal, NoFalseAlarm
  <2>2. CASE RecoverTrash
    BY <2>2, AlarmKept DEF RecoverTrash
  <2>3. CASE RecoverChunks
    BY <2>3, AlarmKept DEF RecoverChunks
  <2>4. CASE RecoverBlobs
    BY <2>4, AlarmKept DEF RecoverBlobs
  <2> QED BY <1>5, <2>1, <2>2, <2>3, <2>4 DEF Recover
<1>6. ASSUME NEW h \in Hashes, BitRot(h) PROVE VerdictsReal' /\ NoFalseAlarm'
  BY <1>6, AlarmKept DEF BitRot
<1>7. CASE UNCHANGED vars
  BY <1>7, AlarmKept DEF vars
<1> QED BY <1>1, <1>2, <1>3, <1>4, <1>5, <1>6, <1>7 DEF Next

-----------------------------------------------------------------------------
(* The invariant holds at the start.                                       *)
LEMMA InvInit == Init => Inv
<1> SUFFICES ASSUME Init PROVE Inv
  OBVIOUS
<1>1. TypeOK
  BY JobFields DEF Init, TypeOK, NoVal, Labels, Phases
<1>2. \A t \in Threads : ThreadInv(t)
  BY DEF Init, ThreadInv, JobSet, InTransaction, OwnsUpload, HoldsLocks, DeletesItsHash,
         Finalizing, Verified
<1>3. QuietRecovery /\ ArtifactFinalized /\ ArtifactIsItsChunks /\ ChunkBytesKept /\ FileKept
  BY DEF Init, QuietRecovery, ArtifactFinalized, ArtifactIsItsChunks, ChunkBytesKept, FileKept
<1>4. RefcountExact
  BY NoneFresh DEF Init, RefcountExact, Refs
<1>5. ReadsReal /\ VerdictsReal /\ NoFalseAlarm
  BY DEF Init, ReadsReal, VerdictsReal, NoFalseAlarm, NoVal
<1> QED BY <1>1, <1>2, <1>3, <1>4, <1>5 DEF Inv

(* Every step keeps the invariant.                                         *)
LEMMA InvStep == Inv /\ [Next]_vars => Inv'
BY TypeStep, ThreadStep, QuietStep, ChunkStep, CountStep, FileStep, ReadsStep, AlarmStep
   DEF Inv

(* The inductive invariant of the store holds in every reachable state.    *)
THEOREM Invariance == Spec => []Inv
<1>1. Init => Inv BY InvInit
<1>2. Inv /\ [Next]_vars => Inv' BY InvStep
<1> QED BY <1>1, <1>2, PTL DEF Spec

(* Every variable keeps its type; no refcount goes below zero.             *)
THEOREM TypeCorrect == Spec => []TypeOK
<1>1. Inv => TypeOK BY DEF Inv
<1> QED BY <1>1, Invariance, PTL

(* The refcount of a blob is the number of artifact rows naming its hash.  *)
THEOREM Counts == Spec => []RefcountExact
<1>1. Inv => RefcountExact BY DEF Inv
<1> QED BY <1>1, Invariance, PTL

(* Recorded chunks keep their bytes until the upload is finalized.         *)
THEOREM ChunksKept == Spec => []ChunkBytesKept
<1>1. Inv => ChunkBytesKept BY DEF Inv
<1> QED BY <1>1, Invariance, PTL

(* An artifact is the digest of the chunks recorded for its upload.        *)
THEOREM ArtifactsExact == Spec => []ArtifactIsItsChunks
<1>1. Inv => ArtifactIsItsChunks BY DEF Inv
<1> QED BY <1>1, Invariance, PTL

(* A live artifact has its row and its file: its count is not zero, and a  *)
(* file goes only while its count is zero.                                 *)
THEOREM Readable == Spec => []ArtifactReadable
<1>1. Inv => ArtifactReadable
  <2> SUFFICES ASSUME Inv, NEW u \in Uploads, artifact[u] # None
               PROVE  /\ blob[artifact[u]] # None
                      /\ blobFile[artifact[u]] # None
                      /\ blobFile[artifact[u]].good \/ artifact[u] \in rotted
    BY DEF ArtifactReadable
  <2>1. PICK h \in Hashes : h = artifact[u] BY DEF Inv, TypeOK
  <2>2. u \in Refs(h) BY <2>1 DEF Refs
  <2>3. blob[h] # None /\ blob[h].refs = Cardinality(Refs(h)) BY <2>2 DEF Inv, RefcountExact
  <2>4. blob[h].refs > 0 BY <2>2, <2>3, RefsCount
  <2> QED BY <2>1, <2>3, <2>4 DEF Inv, FileKept
<1> QED BY <1>1, Invariance, PTL

(* No referenced blob is flagged invalid unless its bytes rotted, whatever *)
(* commits, collections and replacements overlap a validation pass or a    *)
(* download that verifies what it read.                                    *)
THEOREM NoFalseAlarms == Spec => []NoFalseAlarm
<1>1. Inv => NoFalseAlarm BY DEF Inv
<1> QED BY <1>1, Invariance, PTL

(* The chunk files of an upload stand still while it is being finalized:   *)
(* a late chunk is refused by the transaction that would rename it.        *)
THEOREM ChunksFrozen == Spec => FrozenChunks
<1> DEFINE Frozen == \A u \in Uploads :
                       ustate[u] = "finalizing" /\ ustate'[u] = "finalizing" =>
                         chunkFile'[u] = chunkFile[u]
<1>1. Inv /\ [Next]_vars => [Frozen]_vars
  <2> SUFFICES ASSUME Inv, [Next]_vars, NEW u \in Uploads, ustate[u] = "finalizing",
                      chunkFile'[u] # chunkFile[u]
               PROVE  FALSE
    OBVIOUS
  <2> USE DEF fileVars, dbVars
  <2>1. ASSUME NEW t \in Threads, Request(t) PROVE FALSE
    BY <2>1 DEF Request, CreateUpload, GetRow, DeleteRow, PutCheck, Freeze, GcScan, ValidateStart
  <2>2. ASSUME NEW t \in Threads, Step(t) PROVE FALSE
    <3>1. PutRename(t) \/ CleanupChunks(t)
      BY <2>2 DEF Step, PutRefused, PutCommit, Assemble, LockBlob, Place, Commit, Unfreeze,
           GetOpen, GetVerify, DeleteLock, DeleteTx, GcLock, GcBegin, GcMove, GcCommit, GcUnlink,
           ValidateOpen, ValidateRead, ValidateCommit
    <3>2. ustate[job[t].u] \in {"uploading", "finalized"}
      BY <3>1 DEF PutRename, CleanupChunks, Inv, ThreadInv, OwnsUpload
    <3>3. \A v \in Uploads : v # job[t].u => chunkFile'[v] = chunkFile[v]
      BY <3>1 DEF PutRename, CleanupChunks, Inv, TypeOK
    <3> QED BY <3>2, <3>3
  <2>3. ASSUME NEW t \in Threads, Error(t) PROVE FALSE
    BY <2>3 DEF Error, PutError, FinalizeError, Abandon, GcError
  <2>4. CASE Crash BY <2>4 DEF Crash
  <2>5. CASE Recover
    BY <2>5 DEF Recover, RecoverDb, RecoverTrash, RecoverChunks, RecoverBlobs, Inv, QuietRecovery
  <2>6. ASSUME NEW h \in Hashes, BitRot(h) PROVE FALSE
    BY <2>6 DEF BitRot
  <2>7. CASE UNCHANGED vars BY <2>7 DEF vars
  <2> QED BY <2>1, <2>2, <2>3, <2>4, <2>5, <2>6, <2>7 DEF Next
<1> QED BY <1>1, Invariance, PTL DEF Spec, FrozenChunks

(* Start-up recovery ends tidy, whatever the crash interrupted.            *)
THEOREM RecoveryTidies == Spec => StartsTidy
<1>1. Inv /\ [Next]_vars => [phase # "up" /\ phase' = "up" => Tidy']_vars
  <2> SUFFICES ASSUME Inv, [Next]_vars, phase # "up", phase' = "up"
               PROVE  Tidy'
    OBVIOUS
  <2>1. \A t \in Threads : pc[t] = "idle" BY DEF Inv, QuietRecovery
  <2>2. ASSUME NEW t \in Threads, Request(t) PROVE FALSE
    BY <2>2 DEF Request, CreateUpload, GetRow, DeleteRow, PutCheck, Freeze, GcScan,
         ValidateStart, Idle
  <2>3. ASSUME NEW t \in Threads, Step(t) PROVE FALSE
    BY <2>1, <2>3 DEF Step, PutRefused, PutRename, PutCommit, Assemble, LockBlob, Place, Commit,
         CleanupChunks, Unfreeze, GetOpen, GetVerify, DeleteLock, DeleteTx, GcLock, GcBegin,
         GcMove, GcCommit, GcUnlink, ValidateOpen, ValidateRead, ValidateCommit
  <2>4. ASSUME NEW t \in Threads, Error(t) PROVE FALSE
    BY <2>1, <2>4 DEF Error, PutError, FinalizeError, Abandon, GcError
  <2>5. RecoverBlobs
    BY <2>2, <2>3, <2>4 DEF Next, Crash, Recover, RecoverDb, RecoverTrash, RecoverChunks, BitRot,
         memVars, vars
  <2> QED
    BY <2>5 DEF RecoverBlobs, Inv, QuietRecovery, Tidy, ChunksTidy, dbVars
<1> QED BY <1>1, Invariance, PTL DEF Spec, StartsTidy

-----------------------------------------------------------------------------
(***************************************************************************)
(* SolVault implements VaultContract, for every value of the constants:    *)
(* under the mapping of ImplementsContract each step of the store is a     *)
(* step of the contract or changes nothing a client of the contract sees.  *)
(***************************************************************************)
(* What ImplementsContract maps to the contract's status and stored.       *)
Status == [u \in Uploads |->
             IF ustate[u] = None THEN "absent"
             ELSE IF artifact[u] # None THEN "live"
             ELSE IF ustate[u] = "finalized" THEN "gone" ELSE "open"]
Stored == {h \in Hashes : blobFile[h] # None}

(* A step that leaves the mapped state alone is a stutter of the contract. *)
LEMMA Invisible ==
  ASSUME Status' = Status, chunkRow' = chunkRow, Stored' = Stored
  PROVE  [Contract!Next]_Contract!vars
BY DEF Status, Stored, Contract!vars

(* Steps that change no upload, artifact or chunk row but may store bytes. *)
LEMMA Stores ==
  ASSUME Status' = Status, chunkRow' = chunkRow, Stored \subseteq Stored'
  PROVE  [Contract!Next]_Contract!vars
<1>1. Stored' \in SUBSET Contract!Hashes
  BY DEF Stored, Hashes, Contents, Contract!Hashes, Contract!Contents
<1>2. Contract!Store BY <1>1 DEF Contract!Store, Status, Stored
<1> QED BY <1>2 DEF Contract!Next

(* Steps that drop bytes drop only those of hashes nothing refers to.      *)
LEMMA Collects ==
  ASSUME Inv, artifact' = artifact, Status' = Status, chunkRow' = chunkRow,
         Stored' \subseteq Stored,
         \A h \in Hashes : h \in Stored \ Stored' => Refs(h) = {}
  PROVE  [Contract!Next]_Contract!vars
<1>1. ASSUME NEW u \in Uploads, Status[u] = "live" PROVE Digest[chunkRow[u]] \in Stored'
  <2>1. artifact[u] \in Hashes /\ artifact[u] = Digest[chunkRow[u]] /\ u \in Refs(artifact[u])
    BY <1>1 DEF Status, Inv, TypeOK, ArtifactIsItsChunks, Refs
  <2>2. artifact[u] \in Stored
    <3>1. PICK h \in Hashes : h = artifact[u] BY <2>1
    <3>2. blob[h] # None /\ blob[h].refs = Cardinality(Refs(h))
      BY <2>1, <3>1 DEF Inv, RefcountExact
    <3>3. blob[h].refs > 0 BY <2>1, <3>1, <3>2, RefsCount
    <3> QED BY <3>1, <3>2, <3>3 DEF Inv, FileKept, Stored
  <2> QED BY <2>1, <2>2
<1>2. Contract!Collect BY <1>1 DEF Contract!Collect, Contract!Live, Contract!HashOf, Status, Stored
<1> QED BY <1>2 DEF Contract!Next

(* The initial states map to initial states of the contract.               *)
LEMMA InitImplements == Init => Contract!Init
BY DEF Init, Contract!Init

(* What a client or the admin asks opens an upload or is invisible.        *)
LEMMA RequestImplements ==
  ASSUME Inv, NEW t \in Threads, Request(t)
  PROVE  [Contract!Next]_Contract!vars
<1> USE DEF dbVars, fileVars
<1>1. ASSUME NEW u \in Uploads, CreateUpload(t, u) PROVE [Contract!Next]_Contract!vars
  <2>1. artifact[u] = None BY <1>1, NoneFresh DEF CreateUpload, Inv, ArtifactFinalized, States
  <2>2. Status' = [Status EXCEPT ![u] = "open"] /\ Status[u] = "absent"
    BY <1>1, <2>1, NoneFresh DEF CreateUpload, Status, States, Inv, TypeOK
  <2>3. Contract!Open(u) BY <1>1, <2>2 DEF Contract!Open, CreateUpload, Status
  <2> QED BY <2>3 DEF Contract!Next
<1>2. ASSUME NEW u \in Uploads, NEW h \in Hashes, Freeze(t, u, h)
      PROVE  [Contract!Next]_Contract!vars
  <2>1. \A v \in Uploads : ustate'[v] = IF v = u THEN "finalizing" ELSE ustate[v]
    BY <1>2 DEF Freeze, Inv, TypeOK
  <2>2. Status' = Status BY <1>2, <2>1, NoneFresh DEF Freeze, Status, States
  <2> QED BY <1>2, <2>2, Invisible DEF Freeze, Stored
<1>3. ASSUME UNCHANGED <<dbVars, fileVars>> PROVE [Contract!Next]_Contract!vars
  BY <1>3, Invisible DEF Status, Stored
<1> QED
  BY <1>1, <1>2, <1>3 DEF Request, GetRow, DeleteRow, PutCheck, GcScan, ValidateStart

(* A step of a request receives a chunk, stores, publishes, removes,       *)
(* collects or is invisible.                                               *)
LEMMA StepImplements ==
  ASSUME Inv, NEW t \in Threads, Step(t)
  PROVE  [Contract!Next]_Contract!vars
<1> USE DEF dbVars, fileVars
<1>1. CASE PutCommit(t)
  <2>1. PICK u \in Uploads, i \in Chunks, d \in Data :
          u = job[t].u /\ i = job[t].i /\ d = job[t].d
    BY <1>1 DEF PutCommit, Inv, ThreadInv, JobSet
  <2>2. ustate[u] = "uploading" /\ chunkRow[u][i] = None
    BY <1>1, <2>1 DEF PutCommit, Inv, ThreadInv, InTransaction
  <2>3. Status[u] = "open" /\ Status' = Status /\ Stored' = Stored
    BY <1>1, <2>2, NoneFresh DEF PutCommit, Status, Stored, States, Inv, ArtifactFinalized
  <2>4. Contract!Receive(u, i, d)
    BY <1>1, <2>1, <2>2, <2>3 DEF PutCommit, Contract!Receive, Status, Stored
  <2> QED BY <2>4 DEF Contract!Next
<1>2. CASE Place(t)
  <2>1. PICK n \in Stamps : blobFile' = [blobFile EXCEPT ![job[t].h] = [good |-> TRUE, ino |-> n]]
    BY <1>2 DEF Place
  <2>2. [good |-> TRUE, ino |-> n] \in File BY DigestAssumption DEF File
  <2>3. Stored \subseteq Stored' BY <2>1, <2>2, NoneFresh DEF Stored, Inv, TypeOK
  <2> QED BY <1>2, <2>3, Stores DEF Place, Status
<1>3. CASE Commit(t)
  <2>1. PICK u \in Uploads, h \in Hashes : u = job[t].u /\ h = job[t].h
    BY <1>3 DEF Commit, Inv, ThreadInv, JobSet, Finalizing
  <2>2. /\ ustate[u] = "finalizing" /\ Received(u)
        /\ Digest[chunkRow[u]] = h /\ blobFile[h] # None
    BY <1>3, <2>1 DEF Commit, Inv, ThreadInv, OwnsUpload, HoldsLocks, Finalizing, Verified
  <2>3. artifact[u] = None BY <2>2 DEF Inv, ArtifactFinalized
  <2>4. chunkRow[u] \in Contents BY <2>2 DEF Received, Inv, TypeOK, Contents
  <2>5. Status[u] = "open" BY <2>2, <2>3, NoneFresh DEF Status, States
  <2>6. \A v \in Uploads : /\ ustate'[v] = IF v = u THEN "finalized" ELSE ustate[v]
                           /\ artifact'[v] = IF v = u THEN h ELSE artifact[v]
    BY <1>3, <2>1 DEF Commit, Inv, TypeOK
  <2>7. Status' = [Status EXCEPT ![u] = "live"] BY <2>6, NoneFresh DEF Status, States
  <2>8. Contract!Publish(u)
    BY <1>3, <2>2, <2>4, <2>5, <2>7
    DEF Commit, Contract!Publish, Contract!HashOf, Contract!Contents, Contents, Status, Stored
  <2> QED BY <2>8 DEF Contract!Next
<1>4. CASE Unfreeze(t)
  <2>1. PICK u \in Uploads : u = job[t].u
    BY <1>4 DEF Unfreeze, Inv, ThreadInv, JobSet, Finalizing
  <2>2. ustate[u] = "finalizing"
    BY <1>4, <2>1 DEF Unfreeze, Inv, ThreadInv, OwnsUpload, Finalizing
  <2>3. ustate' = [ustate EXCEPT ![u] = "uploading"]
    BY <1>4, <2>1, <2>2 DEF Unfreeze
  <2>4. artifact[u] = None BY <2>2 DEF Inv, ArtifactFinalized
  <2>5. \A v \in Uploads : ustate'[v] = IF v = u THEN "uploading" ELSE ustate[v]
    BY <2>3 DEF Inv, TypeOK
  <2>6. Status' = Status BY <1>4, <2>2, <2>4, <2>5, NoneFresh DEF Unfreeze, Status, States
  <2> QED BY <1>4, <2>6, Invisible DEF Unfreeze, Stored
<1>5. CASE DeleteTx(t)
  <2>1. PICK u \in Uploads, h \in Hashes : u = job[t].u /\ h = job[t].h
    BY <1>5 DEF DeleteTx, Inv, ThreadInv, JobSet
  <2>2. CASE artifact[u] = None
    BY <1>5, <2>1, <2>2, Invisible DEF DeleteTx, Status, Stored
  <2>3. CASE artifact[u] # None
    <3>0. Referenced(h) BY <1>5, <2>1, <2>3, DeleteCounted DEF DeleteTx
    <3>1. \A v \in Uploads : artifact'[v] = IF v = u THEN None ELSE artifact[v]
      BY <1>5, <2>1, <2>3, <3>0 DEF DeleteTx, Inv, TypeOK
    <3>2. ustate[u] = "finalized" BY <2>3 DEF Inv, ArtifactFinalized
    <3>3. Status[u] = "live" /\ Status' = [Status EXCEPT ![u] = "gone"]
      BY <1>5, <2>1, <2>3, <3>0, <3>1, <3>2, NoneFresh DEF DeleteTx, Status, States
    <3>4. Contract!Remove(u) BY <1>5, <3>3 DEF DeleteTx, Contract!Remove, Status, Stored
    <3> QED BY <3>4 DEF Contract!Next
  <2> QED BY <2>2, <2>3
<1>6. ASSUME NEW h \in Hashes, GcMove(t, h) PROVE [Contract!Next]_Contract!vars
  <2>1. CASE ~(blob[h] # None /\ blob[h].refs = 0)
    BY <1>6, <2>1, Invisible DEF GcMove, Status, Stored
  <2>2. CASE blob[h] # None /\ blob[h].refs = 0
    <3>1. Refs(h) = {} BY <2>2, RefsCount DEF Inv, RefcountExact
    <3>2. Stored' = Stored \ {h} BY <1>6, <2>2 DEF GcMove, Stored, Inv, TypeOK
    <3>3. Status' = Status /\ chunkRow' = chunkRow /\ artifact' = artifact
      BY <1>6 DEF GcMove, Status
    <3> QED BY <3>1, <3>2, <3>3, Collects
  <2> QED BY <2>1, <2>2
<1>7. ASSUME UNCHANGED <<ustate, chunkRow, artifact, blobFile>>
      PROVE  [Contract!Next]_Contract!vars
  BY <1>7, Invisible DEF Status, Stored
<1> QED
  BY <1>1, <1>2, <1>3, <1>4, <1>5, <1>6, <1>7
  DEF Step, PutRefused, PutRename, Assemble, LockBlob, CleanupChunks, GetOpen, GetVerify,
      DeleteLock, GcLock, GcBegin, GcCommit, GcUnlink, ValidateOpen, ValidateRead, ValidateCommit

(* A crash is invisible; recovery restores or collects bytes.              *)
LEMMA RecoveryImplements ==
  ASSUME Inv, Crash \/ Recover
  PROVE  [Contract!Next]_Contract!vars
<1> USE DEF dbVars, fileVars
<1>1. CASE Crash BY <1>1, Invisible DEF Crash, Status, Stored
<1>2. CASE RecoverDb
  <2>1. ASSUME NEW v \in Uploads
        PROVE  ustate'[v] = ustate[v] \/ (ustate[v] = "finalizing" /\ ustate'[v] = "uploading")
    <3>1. ustate'[v] = IF artifact[v] # None THEN "finalized"
                       ELSE IF ustate[v] = "finalizing" THEN "uploading" ELSE ustate[v]
      BY <1>2 DEF RecoverDb
    <3>2. artifact[v] # None => ustate[v] = "finalized" BY DEF Inv, ArtifactFinalized
    <3>3. CASE artifact[v] # None BY <3>1, <3>2, <3>3
    <3>4. CASE artifact[v] = None BY <3>1, <3>4
    <3> QED BY <3>3, <3>4
  <2>2. Status' = Status BY <1>2, <2>1, NoneFresh DEF RecoverDb, Status, States
  <2> QED BY <1>2, <2>2, Invisible DEF RecoverDb, Stored
<1>3. CASE RecoverTrash
  <2>1. Stored \subseteq Stored' BY <1>3 DEF RecoverTrash, Stored
  <2> QED BY <1>3, <2>1, Stores DEF RecoverTrash, Status
<1>4. CASE RecoverChunks BY <1>4, Invisible DEF RecoverChunks, Status, Stored
<1>5. CASE RecoverBlobs
  <2>1. Stored' \subseteq Stored /\ \A h \in Hashes : h \in Stored \ Stored' => blob[h] = None
    BY <1>5 DEF RecoverBlobs, Stored
  <2>2. \A h \in Hashes : h \in Stored \ Stored' => Refs(h) = {}
    BY <2>1 DEF Inv, RefcountExact
  <2>3. Status' = Status /\ chunkRow' = chunkRow /\ artifact' = artifact
    BY <1>5 DEF RecoverBlobs, Status
  <2> QED BY <2>1, <2>2, <2>3, Collects
<1> QED BY <1>1, <1>2, <1>3, <1>4, <1>5 DEF Recover

(* The store implements the contract of vaultdrop/product.md: at most one  *)
(* artifact per upload, made of the first bytes recorded for each chunk,   *)
(* published only once its bytes are held, and held until it is removed.   *)
THEOREM Implements == Spec => ImplementsContract
<1>1. Init => Contract!Init BY InitImplements
<1>2. Inv /\ [Next]_vars => [Contract!Next]_Contract!vars
  <2> SUFFICES ASSUME Inv, [Next]_vars PROVE [Contract!Next]_Contract!vars
    OBVIOUS
  <2>1. ASSUME NEW t \in Threads, Error(t) PROVE [Contract!Next]_Contract!vars
    BY <2>1, Invisible
    DEF Error, PutError, FinalizeError, Abandon, GcError, Status, Stored, dbVars, fileVars
  <2>2. ASSUME NEW h \in Hashes, BitRot(h) PROVE [Contract!Next]_Contract!vars
    <3>1. blobFile[h] \in File /\ [blobFile[h] EXCEPT !.good = FALSE] \in File
      BY <2>2 DEF BitRot, Inv, TypeOK, File
    <3>2. Stored' = Stored BY <2>2, <3>1, NoneFresh DEF BitRot, Inv, TypeOK, Stored
    <3> QED BY <2>2, <3>2, Invisible DEF BitRot, Status, dbVars
  <2>3. CASE UNCHANGED vars
    BY <2>3, Invisible DEF vars, dbVars, fileVars, Status, Stored
  <2> QED
    BY <2>1, <2>2, <2>3, RequestImplements, StepImplements, RecoveryImplements DEF Next
<1> QED BY <1>1, <1>2, Invariance, PTL DEF Spec, ImplementsContract, Contract!Spec
-----------------------------------------------------------------------------
(* What the contract promises of an upload and of its artifact holds from  *)
(* one step to the next.                                                   *)
LEMMA Promises ==
  ASSUME chunkRow \in [Uploads -> [Chunks -> Data \cup {None}]], [Contract!Next]_Contract!vars,
         NEW u \in Uploads
  PROVE  /\ \A i \in Chunks : chunkRow[u][i] # None => chunkRow'[u][i] = chunkRow[u][i]
         /\ Status[u] \in {"live", "gone"} =>
              chunkRow'[u] = chunkRow[u] /\ Status'[u] \in {Status[u], "gone"}
<1> DEFINE Kept == /\ \A i \in Chunks : chunkRow[u][i] # None => chunkRow'[u][i] = chunkRow[u][i]
                   /\ Status[u] \in {"live", "gone"} =>
                        chunkRow'[u] = chunkRow[u] /\ Status'[u] \in {Status[u], "gone"}
<1>1. Status \in [Uploads -> {"absent", "open", "live", "gone"}] BY DEF Status
<1>2. ASSUME NEW v \in Uploads, Contract!Open(v) PROVE Kept
  <2>1. /\ Status[v] = "absent" /\ Status' = [Status EXCEPT ![v] = "open"]
        /\ chunkRow' = chunkRow
    BY <1>2 DEF Contract!Open, Status
  <2> QED BY <1>1, <2>1
<1>3. ASSUME NEW v \in Uploads, Contract!Publish(v) PROVE Kept
  <2>1. /\ Status[v] = "open" /\ Status' = [Status EXCEPT ![v] = "live"]
        /\ chunkRow' = chunkRow
    BY <1>3 DEF Contract!Publish, Status
  <2> QED BY <1>1, <2>1
<1>4. ASSUME NEW v \in Uploads, Contract!Remove(v) PROVE Kept
  <2>1. Status' = [Status EXCEPT ![v] = "gone"] /\ chunkRow' = chunkRow
    BY <1>4 DEF Contract!Remove, Status
  <2> QED BY <1>1, <2>1
<1>5. ASSUME NEW v \in Uploads, NEW j \in Chunks, NEW d \in Data, Contract!Receive(v, j, d)
      PROVE  Kept
  <2>1. /\ Status[v] = "open" /\ Status' = Status
        /\ chunkRow[v][j] = None /\ chunkRow' = [chunkRow EXCEPT ![v][j] = d]
    BY <1>5 DEF Contract!Receive, Status
  <2> QED BY <1>1, <2>1
<1>6. CASE Contract!Store \/ Contract!Collect \/ UNCHANGED Contract!vars
  <2>1. Status' = Status /\ chunkRow' = chunkRow
    BY <1>6 DEF Contract!Store, Contract!Collect, Contract!vars, Status
  <2> QED BY <2>1
<1> QED BY <1>2, <1>3, <1>4, <1>5, <1>6 DEF Contract!Next

(* The bytes first accepted for a chunk are final, and an artifact never   *)
(* changes and is published once: by the contract, whatever the store does *)
(* beneath it.                                                             *)
THEOREM Immutable == Spec => Contract!FirstBytesFinal /\ Contract!PublishedOnce
<1>1. Inv /\ [Contract!Next]_Contract!vars =>
        [\A u \in Uploads, i \in Chunks :
           chunkRow[u][i] # None => chunkRow'[u][i] = chunkRow[u][i]]_(Contract!vars)
  BY Promises DEF Inv, TypeOK
<1>2. Inv /\ [Contract!Next]_Contract!vars =>
        [\A u \in Uploads : Status[u] \in {"live", "gone"} =>
           chunkRow'[u] = chunkRow[u] /\ Status'[u] \in {Status[u], "gone"}]_(Contract!vars)
  BY Promises DEF Inv, TypeOK
<1> QED
  BY <1>1, <1>2, Implements, Invariance, PTL
  DEF ImplementsContract, Contract!Spec, Contract!FirstBytesFinal, Contract!PublishedOnce, Status

(* A step of the contract leaves every live artifact with its bytes.       *)
LEMMA KeepsLive ==
  ASSUME chunkRow \in [Uploads -> [Chunks -> Data \cup {None}]], [Contract!Next]_Contract!vars,
         Contract!LiveKept
  PROVE  Contract!LiveKept'
<1> DEFINE Kept(u) == chunkRow[u] \in Contents /\ Digest[chunkRow[u]] \in Stored
<1>1. \A u \in Uploads : Status[u] = "live" => Kept(u)
  BY DEF Contract!LiveKept, Contract!Live, Contract!HashOf, Contract!Contents, Contents,
      Status, Stored
<1>2. ASSUME NEW u \in Uploads, Status'[u] = "live"
      PROVE  chunkRow'[u] \in Contents /\ Digest[chunkRow'[u]] \in Stored'
  <2>1. CASE Status[u] = "live"
    <3>1. chunkRow'[u] = chunkRow[u] BY <2>1, Promises
    <3>2. CASE Contract!Collect
      BY <2>1, <1>1, <3>1, <3>2 DEF Contract!Collect, Contract!Live, Contract!HashOf, Status, Stored
    <3>3. CASE ~Contract!Collect
      <4>1. Stored \subseteq Stored'
        BY <3>3 DEF Contract!Next, Contract!Open, Contract!Publish, Contract!Remove,
             Contract!Receive, Contract!Store, Contract!vars, Stored
      <4> QED BY <2>1, <1>1, <3>1, <4>1
    <3> QED BY <3>2, <3>3
  <2>2. CASE Status[u] # "live"
    <3>1. Contract!Publish(u)
      <4>1. Status'[u] # Status[u] /\ Status' # Status BY <1>2, <2>2
      <4>2. ~(Contract!Store \/ Contract!Collect \/ UNCHANGED Contract!vars)
        BY <4>1 DEF Contract!Store, Contract!Collect, Contract!vars, Status
      <4>3. ASSUME NEW v \in Uploads, NEW j \in Chunks, NEW d \in Data
            PROVE  ~Contract!Receive(v, j, d)
        BY <4>1 DEF Contract!Receive, Status
      <4>4. Status \in [Uploads -> {"absent", "open", "live", "gone"}] BY DEF Status
      <4>5. ASSUME NEW v \in Uploads, Contract!Open(v) PROVE FALSE
        <5>1. Status' = [Status EXCEPT ![v] = "open"] BY <4>5 DEF Contract!Open, Status
        <5> QED BY <1>2, <2>2, <4>4, <5>1
      <4>6. ASSUME NEW v \in Uploads, Contract!Remove(v) PROVE FALSE
        <5>1. Status' = [Status EXCEPT ![v] = "gone"] BY <4>6 DEF Contract!Remove, Status
        <5> QED BY <1>2, <2>2, <4>4, <5>1
      <4>7. ASSUME NEW v \in Uploads, v # u, Contract!Publish(v) PROVE FALSE
        <5>1. Status' = [Status EXCEPT ![v] = "live"] BY <4>7 DEF Contract!Publish, Status
        <5> QED BY <1>2, <2>2, <4>4, <4>7, <5>1
      <4> QED BY <4>2, <4>3, <4>5, <4>6, <4>7 DEF Contract!Next
    <3> QED
      BY <3>1 DEF Contract!Publish, Contract!HashOf, Contract!Contents, Contents,
      Status, Stored
  <2> QED BY <2>1, <2>2
<1> QED
  BY <1>2
  DEF Contract!LiveKept, Contract!Live, Contract!HashOf, Contract!Contents, Contents,
      Status, Stored

(* A live artifact is complete and its bytes are held until it is removed. *)
THEOREM HeldWhileLive == Spec => []Contract!LiveKept
<1>1. Contract!Init => Contract!LiveKept
  BY DEF Contract!Init, Contract!LiveKept, Contract!Live
<1>2. Inv /\ Contract!LiveKept /\ [Contract!Next]_Contract!vars => Contract!LiveKept'
  BY KeepsLive DEF Inv, TypeOK
<1> QED BY <1>1, <1>2, Implements, Invariance, PTL DEF ImplementsContract, Contract!Spec
=============================================================================

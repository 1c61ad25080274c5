------------------------------ MODULE QwenVaultB ------------------------------
(***************************************************************************)
(* vaultdrop/qwen-3-8-27b-v2: store.py, db.py and core.py.  No lock stands *)
(* between finalize and gc: a blobs row goes active -> pending -> deleted, *)
(* each change a transaction that tests what it replaces, and gc renames a *)
(* file aside before it looks once more and unlinks it.  Chunk writes have *)
(* a lock per (upload, index); the finalizes of an upload meet at a UNIQUE *)
(* constraint.  An upload whose artifact was deleted is finalized again.   *)
(***************************************************************************)
EXTENDS VaultState

States == {"active", "finalized"}
Row    == [refs : Int, state : {"active", "pending", "deleted"}, validated : {0, 1}]

ASSUME RowAssumption ==
  None \notin Row /\ None \notin States \cup {"active", "pending", "deleted"}

VARIABLE quarantine  \* the hashes with a file that gc has renamed aside

vars == <<upVars, rowVars, files, pc, job, crashes, quarantine>>

(* What a blob's row says of its content; no row is None.                  *)
RowState(h) == IF blob[h] = None THEN None ELSE blob[h].state

ChunkLocked(u, i) == \E t \in Threads : pc[t] = "putInsert" /\ job[t].u = u /\ job[t].i = i

Init == InitState /\ quarantine = {}

CreateUpload(u) ==
  /\ ustate[u] = None
  /\ ustate' = [ustate EXCEPT ![u] = "active"]
  /\ UNCHANGED <<chunkRow, chunkFile, rowVars, files, pc, job, crashes, quarantine>>

(* The upload's state is read before the body is streamed.                 *)
PutCheck(t, u, i, d) ==
  /\ Idle(t) /\ ustate[u] = "active"
  /\ Begin(t, "putLock", [NoJob EXCEPT !.u = u, !.i = i, !.d = d])
  /\ UNCHANGED <<upVars, rowVars, files, crashes, quarantine>>

(* Mutant: the chunk's lock is not taken.                                  *)
PutUnlocked(t) ==
  LET u == job[t].u  i == job[t].i IN
  /\ pc[t] = "putLock"
  /\ \/ chunkRow[u][i] # None /\ Finish(t) /\ UNCHANGED chunkFile
     \/ /\ chunkRow[u][i] = None
        /\ chunkFile' = [chunkFile EXCEPT ![u][i] = job[t].d]
        /\ Goto(t, "putInsert")
  /\ UNCHANGED <<ustate, chunkRow, rowVars, files, crashes, quarantine>>

(* A recorded chunk answers the replay; else the file is renamed in place. *)
PutPlace(t) ==
  LET u == job[t].u  i == job[t].i IN
  /\ pc[t] = "putLock" /\ ~ChunkLocked(u, i)
  /\ \/ chunkRow[u][i] # None /\ Finish(t) /\ UNCHANGED chunkFile
     \/ /\ chunkRow[u][i] = None
        /\ chunkFile' = [chunkFile EXCEPT ![u][i] = job[t].d]
        /\ Goto(t, "putInsert")
  /\ UNCHANGED <<ustate, chunkRow, rowVars, files, crashes, quarantine>>

(* The INSERT; one that raises leaves the file without a row.              *)
PutInsert(t) ==
  LET u == job[t].u  i == job[t].i IN
  /\ pc[t] = "putInsert"
  /\ \/ chunkRow[u][i] = None /\ chunkRow' = [chunkRow EXCEPT ![u][i] = job[t].d]
     \/ UNCHANGED chunkRow
  /\ Finish(t)
  /\ UNCHANGED <<ustate, chunkFile, rowVars, files, crashes, quarantine>>

-----------------------------------------------------------------------------
(* A finalized upload with an artifact answers with it.                    *)
FinalizeRead(t, u) ==
  /\ Idle(t) /\ ustate[u] # None
  /\ ustate[u] = "finalized" => artifact[u] = None
  /\ Begin(t, "assemble", [NoJob EXCEPT !.u = u])
  /\ UNCHANGED <<upVars, rowVars, files, crashes, quarantine>>

(* The rows are counted, the files assembled and compared with the         *)
(* declared digest; flag is 1 while the assembled file is still in hand.*)
Assemble(t) ==
  LET u == job[t].u IN
  /\ pc[t] = "assemble"
  /\ \/ \E h \in Hashes :
          /\ Received(u) /\ Assembled(u, h)
          /\ Begin(t, "claim", [job[t] EXCEPT !.h = h, !.flag = 1])
     \/ Finish(t)
  /\ UNCHANGED <<upVars, rowVars, files, crashes, quarantine>>

(* An attempt of _claim reads the row's state and takes one of three ways. *)
ClaimRead(t) ==
  LET s == RowState(job[t].h) IN
  /\ pc[t] = "claim"
  /\ Goto(t, IF s = None THEN "placeNew" ELSE IF s = "deleted" THEN "placeAgain" ELSE "recover")
  /\ UNCHANGED <<upVars, rowVars, files, crashes, quarantine>>

(* The file is moved, not copied: a later attempt has none to place.       *)
ClaimPlace(t) ==
  /\ pc[t] \in {"placeNew", "placeAgain"}
  /\ files' = IF job[t].flag = 1 THEN files \cup {job[t].h} ELSE files
  /\ Begin(t, IF pc[t] = "placeNew" THEN "insert" ELSE "resurrect", [job[t] EXCEPT !.flag = None])
  /\ UNCHANGED <<upVars, rowVars, crashes, quarantine>>

NewRow == [refs |-> 1, state |-> "active", validated |-> 1]

(* The transaction commits: the row, and what _insert_artifact adds.       *)
Publish(t, row) ==
  /\ SetRow(job[t].h, row)
  /\ artifact' = [artifact EXCEPT ![job[t].u] = job[t].h]
  /\ ustate' = [ustate EXCEPT ![job[t].u] = "finalized"]
  /\ Finish(t)
  /\ UNCHANGED <<chunkRow, chunkFile, files, crashes, quarantine>>

(* It rolls back: the claim is tried again, or the artifact that was there *)
(* first is read.                                                          *)
RolledBack(t, next) ==
  /\ Goto(t, next)
  /\ UNCHANGED <<upVars, rowVars, files, crashes, quarantine>>

(* Two INSERTs that must not find their key.                               *)
ClaimInsert(t) ==
  /\ pc[t] = "insert"
  /\ IF blob[job[t].h] = None /\ artifact[job[t].u] = None
     THEN Publish(t, NewRow) ELSE RolledBack(t, "claim")

(* UPDATE ... WHERE state IN ('active', 'pending'), then the artifact.     *)
ClaimRecover(t) ==
  LET h == job[t].h IN
  /\ pc[t] = "recover"
  /\ IF RowState(h) \notin {"active", "pending"} THEN RolledBack(t, "claim")
     ELSE IF artifact[job[t].u] # None THEN RolledBack(t, "winner")
     ELSE Publish(t, [blob[h] EXCEPT !.refs = @ + 1, !.state = "active"])

(* Mutant: the row is replaced whatever its state.                         *)
ResurrectAnything(t) ==
  /\ pc[t] = "resurrect"
  /\ IF artifact[job[t].u] # None THEN RolledBack(t, "winner") ELSE Publish(t, NewRow)

(* DELETE ... WHERE state='deleted', then the two INSERTs.                 *)
ClaimResurrect(t) ==
  /\ pc[t] = "resurrect"
  /\ IF RowState(job[t].h) \in {"active", "pending"} THEN RolledBack(t, "claim")
     ELSE IF artifact[job[t].u] # None THEN RolledBack(t, "winner")
     ELSE Publish(t, NewRow)

(* The other finalize's artifact answers, unless it is deleted already.    *)
ClaimWinner(t) ==
  /\ pc[t] = "winner"
  /\ IF artifact[job[t].u] # None THEN Finish(t) ELSE Goto(t, "claim")
  /\ UNCHANGED <<upVars, rowVars, files, crashes, quarantine>>

(* An exception, or the fifth attempt has failed: 500.  The number of      *)
(* attempts is left out, so that an attempt may end the request or not.    *)
ClaimError(t) ==
  /\ pc[t] \in {"claim", "placeNew", "placeAgain", "insert", "recover", "resurrect"}
  /\ Finish(t)
  /\ UNCHANGED <<upVars, rowVars, files, crashes, quarantine>>

DeleteArtifact(u) ==
  /\ artifact[u] # None
  /\ artifact' = [artifact EXCEPT ![u] = None]
  /\ SetRow(artifact[u], IF blob[artifact[u]] = None THEN None
                         ELSE [blob[artifact[u]] EXCEPT !.refs = @ - 1])
  /\ UNCHANGED <<upVars, files, pc, job, crashes, quarantine>>

-----------------------------------------------------------------------------
(* active -> pending, and the cursor over the pending rows without         *)
(* references, those of other passes among them.                           *)
GcMark(t) ==
  LET marked == [h \in Hashes |-> IF RowState(h) = "active" /\ blob[h].refs = 0
                                  THEN [blob[h] EXCEPT !.state = "pending"] ELSE blob[h]]
  IN
  /\ Idle(t)
  /\ blob' = marked
  /\ Begin(t, "gcNext", [NoJob EXCEPT !.todo =
       {h \in Hashes : marked[h] # None /\ marked[h].state = "pending" /\ marked[h].refs = 0}])
  /\ UNCHANGED <<upVars, artifact, files, crashes, quarantine>>

(* Mutant: the tombstone is set on whatever row the hash has now.          *)
GcTombstoneScanned(t, h) ==
  /\ pc[t] = "gcNext" /\ h \in job[t].todo
  /\ SetRow(h, IF blob[h] = None THEN None ELSE [blob[h] EXCEPT !.state = "deleted"])
  /\ Begin(t, "gcRename", [job[t] EXCEPT !.h = h, !.todo = @ \ {h}])
  /\ UNCHANGED <<upVars, artifact, files, crashes, quarantine>>

(* pending -> deleted, if the row still is and has no reference.  `changed'*)
(* is a cursor, which is never false: gc goes on to the file in any case.  *)
GcTombstone(t, h) ==
  /\ pc[t] = "gcNext" /\ h \in job[t].todo
  /\ SetRow(h, IF RowState(h) = "pending" /\ blob[h].refs = 0
               THEN [blob[h] EXCEPT !.state = "deleted"] ELSE blob[h])
  /\ Begin(t, "gcRename", [job[t] EXCEPT !.h = h, !.todo = @ \ {h}])
  /\ UNCHANGED <<upVars, artifact, files, crashes, quarantine>>

GcRename(t) ==
  LET h == job[t].h IN
  /\ pc[t] = "gcRename"
  /\ \/ h \notin files /\ Goto(t, "gcNext") /\ UNCHANGED <<files, quarantine>>
     \/ /\ h \in files
        /\ files' = files \ {h} /\ quarantine' = quarantine \cup {h}
        /\ Goto(t, "gcDecide")
  /\ UNCHANGED <<upVars, rowVars, crashes>>

GcDecide(t) ==
  /\ pc[t] = "gcDecide"
  /\ Goto(t, IF RowState(job[t].h) = "active" THEN "gcRestore" ELSE "gcUnlink")
  /\ UNCHANGED <<upVars, rowVars, files, crashes, quarantine>>

(* Quarantine names are unique; another pass may hold the same content.    *)
Released(t) ==
  IF \E s \in Threads \ {t} :
       pc[s] \in {"gcDecide", "gcRestore", "gcUnlink"} /\ job[s].h = job[t].h
  THEN quarantine ELSE quarantine \ {job[t].h}

GcSettle(t) ==
  /\ pc[t] \in {"gcRestore", "gcUnlink"}
  /\ files' = IF pc[t] = "gcRestore" THEN files \cup {job[t].h} ELSE files
  /\ quarantine' = Released(t)
  /\ Goto(t, "gcNext")
  /\ UNCHANGED <<upVars, rowVars, crashes>>

(* The pass is over, or ends with an error: with more than one candidate   *)
(* the open cursor's snapshot may be too old for a transaction to begin.   *)
GcEnd(t) ==
  /\ pc[t] = "gcNext"
  /\ Finish(t)
  /\ UNCHANGED <<upVars, rowVars, files, crashes, quarantine>>

ValidateScan(t) ==
  /\ Idle(t)
  /\ Begin(t, "valRead", [NoJob EXCEPT !.todo = {h \in Hashes : RowState(h) \notin {None, "deleted"}}])
  /\ UNCHANGED <<upVars, rowVars, files, crashes, quarantine>>

(* A match is not written where the scanned row had it already.  A file    *)
(* that is missing ends the pass: streaming_hash_files turns the error     *)
(* into an ApiError, which validate_pass does not catch.                   *)
ValidateRead(t, h) ==
  LET rest == [job[t] EXCEPT !.todo = @ \ {h}] IN
  /\ pc[t] = "valRead" /\ h \in job[t].todo
  /\ \/ h \in files /\ Begin(t, "valSet", [rest EXCEPT !.h = h])
     \/ h \in files /\ Begin(t, "valRead", rest)
     \/ h \notin files /\ Finish(t)
  /\ UNCHANGED <<upVars, rowVars, files, crashes, quarantine>>

(* The verdict goes to whatever row the hash has now.                      *)
ValidateSet(t) ==
  LET h == job[t].h IN
  /\ pc[t] = "valSet"
  /\ SetRow(h, IF blob[h] = None THEN None ELSE [blob[h] EXCEPT !.validated = 1])
  /\ Goto(t, "valRead")
  /\ UNCHANGED <<upVars, artifact, files, crashes, quarantine>>

(* The pass is over, or an exception ends it.                              *)
ValidateEnd(t) ==
  /\ pc[t] \in {"valRead", "valSet"}
  /\ Finish(t)
  /\ UNCHANGED <<upVars, rowVars, files, crashes, quarantine>>

(* db.recover: quarantined files go, whatever their row says, with the     *)
(* tombstones, the files they or no row name, and the chunks half recorded.*)
Restart ==
  /\ Killed
  /\ blob' = [h \in Hashes |-> IF RowState(h) = "deleted" THEN None ELSE blob[h]]
  /\ files' = {h \in files : RowState(h) \notin {None, "deleted"}}
  /\ quarantine' = {}
  /\ chunkFile' = [u \in Uploads |-> [i \in Chunks |->
                     IF chunkRow[u][i] = None THEN None ELSE chunkFile[u][i]]]
  /\ chunkRow' = [u \in Uploads |-> [i \in Chunks |->
                    IF chunkFile[u][i] = None THEN None ELSE chunkRow[u][i]]]
  /\ UNCHANGED <<ustate, artifact>>

-----------------------------------------------------------------------------
Request(t) ==
  \/ \E u \in Uploads, i \in Chunks, d \in Data : PutCheck(t, u, i, d)
  \/ \E u \in Uploads : FinalizeRead(t, u)
  \/ GcMark(t) \/ ValidateScan(t)

Step(t) ==
  \/ PutPlace(t) \/ PutInsert(t)
  \/ Assemble(t) \/ ClaimRead(t) \/ ClaimPlace(t)
  \/ ClaimInsert(t) \/ ClaimRecover(t) \/ ClaimResurrect(t) \/ ClaimWinner(t) \/ ClaimError(t)
  \/ GcRename(t) \/ GcDecide(t) \/ GcSettle(t) \/ GcEnd(t)
  \/ ValidateSet(t) \/ ValidateEnd(t)
  \/ \E h \in Hashes : GcTombstone(t, h) \/ ValidateRead(t, h)

Next ==
  \/ \E u \in Uploads : CreateUpload(u) \/ DeleteArtifact(u)
  \/ \E t \in Threads : Request(t) \/ Step(t)
  \/ Restart

Spec == Init /\ [][Next]_vars

-----------------------------------------------------------------------------
Labels == {"idle", "putLock", "putInsert", "assemble", "claim", "placeNew", "placeAgain",
           "insert", "recover", "resurrect", "winner", "gcNext", "gcRename", "gcDecide", "gcRestore",
           "gcUnlink", "valRead", "valSet"}

TypeOK == StateTypeOK(States, Row, Labels, {1}) /\ quarantine \subseteq Hashes

(* The tombstone protocol of the tables: the row of a live artifact is     *)
(* active, and a row gc has marked or condemned has no reference.  Claim   *)
(* and gc win or lose a blob atomically, as gc_pass's docstring says; of   *)
(* the file it says more (BytesKept).                                      *)
ClaimOrTombstone ==
  /\ TypeOK
  /\ \A u \in Uploads : artifact[u] # None => RowState(artifact[u]) = "active"
  /\ \A h \in Hashes : RowState(h) \in {"pending", "deleted"} => blob[h].refs = 0

Claiming == {"claim", "placeNew", "placeAgain", "insert", "recover", "resurrect", "winner"}

(* The local variables a step reads have been set.                         *)
JobSet(t) ==
  /\ pc[t] \in {"putLock", "putInsert"} =>
       job[t].u \in Uploads /\ job[t].i \in Chunks /\ job[t].d \in Data
  /\ pc[t] \in Claiming \cup {"assemble"} => job[t].u \in Uploads
  /\ pc[t] \in Claiming \cup {"gcRename", "gcDecide", "gcRestore", "gcUnlink", "valSet"} =>
       job[t].h \in Hashes

(* A chunk writer in its lock is alone with the file it has placed.        *)
OwnsChunk(t) ==
  LET u == job[t].u  i == job[t].i IN
  pc[t] = "putInsert" =>
    /\ chunkRow[u][i] = None /\ chunkFile[u][i] = job[t].d
    /\ \A s \in Threads \ {t} : ~(pc[s] = "putInsert" /\ job[s].u = u /\ job[s].i = i)

(* What a claim publishes is the digest of chunks that are all recorded.   *)
ClaimsItsChunks(t) ==
  pc[t] \in Claiming => Received(job[t].u) /\ Digest[chunkRow[job[t].u]] = job[t].h

ThreadInv(t) == JobSet(t) /\ OwnsChunk(t) /\ ClaimsItsChunks(t)

(* The file of a recorded chunk holds its bytes, finalized or not.         *)
ChunkBytesKept ==
  \A u \in Uploads, i \in Chunks : chunkRow[u][i] # None => chunkFile[u][i] = chunkRow[u][i]

(* The inductive invariant.                                                *)
Inv ==
  /\ ClaimOrTombstone
  /\ \A t \in Threads : ThreadInv(t)
  /\ ChunkBytesKept
  /\ ArtifactIsItsChunks
  /\ RefcountExact

(* gc_pass's docstring (store.py:338-340): a resurrect that lands between  *)
(* the tombstone commit and the unlink is restored.  That is, a live       *)
(* artifact has its bytes, in their place or in quarantine.                *)
BytesKept ==
  \A u \in Uploads : artifact[u] # None => artifact[u] \in files \cup quarantine
=============================================================================

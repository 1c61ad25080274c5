------------------------------ MODULE OpusVault ------------------------------
(***************************************************************************)
(* vaultdrop/opus-4-6-v2: server.py's handlers over store.py and db.py.    *)
(* Finalize owns an upload through its `finalizing' state; a lock per      *)
(* content hash stands between placing and committing a blob on one side   *)
(* and gc's delete and unlink on the other; chunk writes have a lock each. *)
(***************************************************************************)
EXTENDS VaultState

States == {"uploading", "finalizing", "finalized"}
Row    == [refs : Int, validated : {0, 1, -1}]

ASSUME RowAssumption == None \notin Row /\ None \notin States

vars == <<upVars, rowVars, files, pc, job, crashes>>

(* blob_locks and chunk_locks: the labels between acquire and release.     *)
BlobLocked == {"place", "commit", "check", "undo", "gcDelete", "gcUnlink"}

HashLocked(h)     == \E t \in Threads : pc[t] \in BlobLocked /\ job[t].h = h
ChunkLocked(u, i) == \E t \in Threads : pc[t] = "putInsert" /\ job[t].u = u /\ job[t].i = i

Init == InitState

CreateUpload(u) ==
  /\ ustate[u] = None
  /\ ustate' = [ustate EXCEPT ![u] = "uploading"]
  /\ UNCHANGED <<chunkRow, chunkFile, rowVars, files, pc, job, crashes>>

(* The state is checked before the body is streamed to a temporary file.   *)
PutCheck(t, u, i, d) ==
  /\ Idle(t) /\ ustate[u] = "uploading"
  /\ Begin(t, "putLock", [NoJob EXCEPT !.u = u, !.i = i, !.d = d])
  /\ UNCHANGED <<upVars, rowVars, files, crashes>>

(* Mutant: the chunk's lock is not taken.                                  *)
PutUnlocked(t) ==
  LET u == job[t].u  i == job[t].i IN
  /\ pc[t] = "putLock"
  /\ \/ chunkRow[u][i] # None /\ Finish(t) /\ UNCHANGED chunkFile
     \/ /\ chunkRow[u][i] = None
        /\ chunkFile' = [chunkFile EXCEPT ![u][i] = job[t].d]
        /\ Goto(t, "putInsert")
  /\ UNCHANGED <<ustate, chunkRow, rowVars, files, crashes>>

(* Under the chunk's lock: a recorded chunk answers the replay, identical  *)
(* or not; else the temporary file is renamed into place.                  *)
PutPlace(t) ==
  LET u == job[t].u  i == job[t].i IN
  /\ pc[t] = "putLock" /\ ~ChunkLocked(u, i)
  /\ \/ chunkRow[u][i] # None /\ Finish(t) /\ UNCHANGED chunkFile
     \/ /\ chunkRow[u][i] = None
        /\ chunkFile' = [chunkFile EXCEPT ![u][i] = job[t].d]
        /\ Goto(t, "putInsert")
  /\ UNCHANGED <<ustate, chunkRow, rowVars, files, crashes>>

(* A key that exists after all makes insert_chunk return False.            *)
PutInsert(t) ==
  /\ pc[t] = "putInsert"
  /\ chunkRow' = [chunkRow EXCEPT ![job[t].u][job[t].i] = IF @ = None THEN job[t].d ELSE @]
  /\ Finish(t)
  /\ UNCHANGED <<ustate, chunkFile, rowVars, files, crashes>>

(* The INSERT raises: the file stays without a row.                        *)
PutError(t) ==
  /\ pc[t] = "putInsert"
  /\ Finish(t)
  /\ UNCHANGED <<upVars, rowVars, files, crashes>>

-----------------------------------------------------------------------------
(* Mutant: try_set_finalizing does not test the state it replaces.         *)
FinalizeAgain(t, u, h) ==
  /\ Idle(t) /\ ustate[u] \in {"uploading", "finalizing"}
  /\ ustate' = [ustate EXCEPT ![u] = "finalizing"]
  /\ Begin(t, "count", [NoJob EXCEPT !.u = u, !.h = h])
  /\ UNCHANGED <<chunkRow, chunkFile, rowVars, files, crashes>>

(* try_set_finalizing; its refusals change nothing.                        *)
FinalizeBegin(t, u, h) ==
  /\ Idle(t) /\ ustate[u] = "uploading"
  /\ ustate' = [ustate EXCEPT ![u] = "finalizing"]
  /\ Begin(t, "count", [NoJob EXCEPT !.u = u, !.h = h])
  /\ UNCHANGED <<chunkRow, chunkFile, rowVars, files, crashes>>

CountChunks(t) ==
  /\ pc[t] = "count"
  /\ Goto(t, IF Received(job[t].u) THEN "assemble" ELSE "rollback")
  /\ UNCHANGED <<upVars, rowVars, files, crashes>>

Assemble(t) ==
  /\ pc[t] = "assemble"
  /\ Goto(t, IF Assembled(job[t].u, job[t].h) THEN "lockBlob" ELSE "rollback")
  /\ UNCHANGED <<upVars, rowVars, files, crashes>>

(* Mutant: finalize does not take the hash's lock.                         *)
LockBlobSkipped(t) ==
  /\ pc[t] = "lockBlob"
  /\ Goto(t, "place")
  /\ UNCHANGED <<upVars, rowVars, files, crashes>>

LockBlob(t) ==
  /\ pc[t] = "lockBlob" /\ ~HashLocked(job[t].h)
  /\ Goto(t, "place")
  /\ UNCHANGED <<upVars, rowVars, files, crashes>>

(* ensure_blob_file: a file that exists already is kept.                   *)
Place(t) ==
  /\ pc[t] = "place"
  /\ files' = files \cup {job[t].h}
  /\ Goto(t, "commit")
  /\ UNCHANGED <<upVars, rowVars, crashes>>

(* Mutant: the upsert of the blobs row sets the refcount to one.           *)
CommitOverwrites(t) ==
  LET u == job[t].u  h == job[t].h IN
  /\ pc[t] = "commit"
  /\ SetRow(h, [refs |-> 1, validated |-> 0])
  /\ artifact' = [artifact EXCEPT ![u] = h]
  /\ ustate' = [ustate EXCEPT ![u] = "finalized"]
  /\ Goto(t, "check")
  /\ UNCHANGED <<chunkRow, chunkFile, files, crashes>>

(* commit_finalize: the upsert, the artifact row and the upload's state.   *)
Commit(t) ==
  LET u == job[t].u  h == job[t].h IN
  /\ pc[t] = "commit"
  /\ SetRow(h, IF blob[h] = None THEN [refs |-> 1, validated |-> 0]
               ELSE [blob[h] EXCEPT !.refs = @ + 1])
  /\ artifact' = [artifact EXCEPT ![u] = h]
  /\ ustate' = [ustate EXCEPT ![u] = "finalized"]
  /\ Goto(t, "check")
  /\ UNCHANGED <<chunkRow, chunkFile, files, crashes>>

(* Still under the lock: a missing file would be reported, nothing undone. *)
CheckFile(t) ==
  /\ pc[t] = "check"
  /\ IF job[t].h \in files THEN Goto(t, "cleanup") ELSE Goto(t, "undo")
  /\ UNCHANGED <<upVars, rowVars, files, crashes>>

(* cleanup_chunks ignores the files it cannot unlink.                      *)
CleanupChunks(t) ==
  /\ pc[t] = "cleanup"
  /\ \E S \in SUBSET Chunks : chunkFile' = [chunkFile EXCEPT ![job[t].u] =
                                [i \in Chunks |-> IF i \in S THEN None ELSE @[i]]]
  /\ Finish(t)
  /\ UNCHANGED <<ustate, chunkRow, rowVars, files, crashes>>

(* An exception while assembling, or between the lock and the commit.      *)
FinalizeError(t) ==
  /\ \/ pc[t] = "assemble" /\ Goto(t, "rollback")
     \/ pc[t] \in {"place", "commit"} /\ Goto(t, "undo")
  /\ UNCHANGED <<upVars, rowVars, files, crashes>>

(* rollback_finalizing, before the `finally' that releases a held lock.    *)
Rollback(t) ==
  /\ pc[t] \in {"rollback", "undo"}
  /\ ustate' = [ustate EXCEPT ![job[t].u] = IF @ = "finalizing" THEN "uploading" ELSE @]
  /\ Finish(t)
  /\ UNCHANGED <<chunkRow, chunkFile, rowVars, files, crashes>>

(* A database error in the reads or in the rollback itself: the upload is  *)
(* left in `finalizing' until the next start.                              *)
Abandon(t) ==
  /\ pc[t] \in {"count", "rollback", "undo"}
  /\ Finish(t)
  /\ UNCHANGED <<upVars, rowVars, files, crashes>>

-----------------------------------------------------------------------------
GetRow(t, u) ==
  /\ Idle(t) /\ artifact[u] # None
  /\ Begin(t, "getStat", [NoJob EXCEPT !.u = u, !.h = artifact[u]])
  /\ UNCHANGED <<upVars, rowVars, files, crashes>>

(* A file that is there answers 200 with its length before it is opened.   *)
GetStat(t) ==
  /\ pc[t] = "getStat"
  /\ IF job[t].h \in files THEN Goto(t, "getOpen") ELSE Finish(t)
  /\ UNCHANGED <<upVars, rowVars, files, crashes>>

(* open fails when gc unlinked the file since: the reply is cut, an error  *)
(* text where the bytes were announced.                                    *)
GetOpen(t) ==
  /\ pc[t] = "getOpen"
  /\ IF job[t].h \in files THEN Finish(t) ELSE Goto(t, "cut")
  /\ UNCHANGED <<upVars, rowVars, files, crashes>>

GetCut(t) ==
  /\ pc[t] = "cut"
  /\ Finish(t)
  /\ UNCHANGED <<upVars, rowVars, files, crashes>>

DeleteArtifact(u) ==
  /\ artifact[u] # None
  /\ artifact' = [artifact EXCEPT ![u] = None]
  /\ SetRow(artifact[u], IF blob[artifact[u]] = None THEN None
                         ELSE [blob[artifact[u]] EXCEPT !.refs = @ - 1])
  /\ UNCHANGED <<upVars, files, pc, job, crashes>>

-----------------------------------------------------------------------------
GcScan(t) ==
  /\ Idle(t)
  /\ Begin(t, "gcNext", [NoJob EXCEPT !.todo = {h \in Hashes : blob[h] # None /\ blob[h].refs <= 0}])
  /\ UNCHANGED <<upVars, rowVars, files, crashes>>

GcLock(t, h) ==
  /\ pc[t] = "gcNext" /\ h \in job[t].todo /\ ~HashLocked(h)
  /\ Begin(t, "gcDelete", [job[t] EXCEPT !.h = h, !.todo = @ \ {h}])
  /\ UNCHANGED <<upVars, rowVars, files, crashes>>

(* Mutant: gc deletes the row its scan saw, without testing it again.      *)
GcDeleteScanned(t) ==
  /\ pc[t] = "gcDelete"
  /\ SetRow(job[t].h, None) /\ Goto(t, "gcUnlink")
  /\ UNCHANGED <<upVars, artifact, files, crashes>>

(* gc_delete_blob tests the refcount again; without it nothing is removed. *)
GcDelete(t) ==
  LET h == job[t].h IN
  /\ pc[t] = "gcDelete"
  /\ IF blob[h] # None /\ blob[h].refs <= 0
     THEN SetRow(h, None) /\ Goto(t, "gcUnlink")
     ELSE Goto(t, "gcNext") /\ UNCHANGED blob
  /\ UNCHANGED <<upVars, artifact, files, crashes>>

GcUnlink(t) ==
  /\ pc[t] = "gcUnlink"
  /\ files' = IF blob[job[t].h] = None THEN files \ {job[t].h} ELSE files
  /\ Goto(t, "gcNext")
  /\ UNCHANGED <<upVars, rowVars, crashes>>

(* The pass is over, or an exception ends it; the lock is released.        *)
GcEnd(t) ==
  /\ pc[t] \in {"gcNext", "gcDelete", "gcUnlink"}
  /\ Finish(t)
  /\ UNCHANGED <<upVars, rowVars, files, crashes>>

ValidateScan(t) ==
  /\ Idle(t)
  /\ Begin(t, "valRead", [NoJob EXCEPT !.todo = {h \in Hashes : blob[h] # None}])
  /\ UNCHANGED <<upVars, rowVars, files, crashes>>

ValidateRead(t, h) ==
  /\ pc[t] = "valRead" /\ h \in job[t].todo
  /\ Begin(t, "valSet", [job[t] EXCEPT !.h = h, !.todo = @ \ {h}, !.flag = IF h \in files THEN 1 ELSE -1])
  /\ UNCHANGED <<upVars, rowVars, files, crashes>>

(* The verdict goes to whatever row the hash has now.                      *)
ValidateSet(t) ==
  LET h == job[t].h IN
  /\ pc[t] = "valSet"
  /\ SetRow(h, IF blob[h] = None THEN None ELSE [blob[h] EXCEPT !.validated = job[t].flag])
  /\ Goto(t, "valRead")
  /\ UNCHANGED <<upVars, artifact, files, crashes>>

(* The pass is over, or an exception ends it.                              *)
ValidateEnd(t) ==
  /\ pc[t] \in {"valRead", "valSet"}
  /\ Finish(t)
  /\ UNCHANGED <<upVars, rowVars, files, crashes>>

(* db.recover; no file but the temporary ones is swept.                    *)
Restart ==
  /\ Killed
  /\ ustate' = [u \in Uploads |-> IF ustate[u] = "finalizing" THEN "uploading" ELSE ustate[u]]
  /\ UNCHANGED <<chunkRow, chunkFile, rowVars, files>>

-----------------------------------------------------------------------------
Request(t) ==
  \/ \E u \in Uploads, i \in Chunks, d \in Data : PutCheck(t, u, i, d)
  \/ \E u \in Uploads, h \in Hashes : FinalizeBegin(t, u, h)
  \/ \E u \in Uploads : GetRow(t, u)
  \/ GcScan(t) \/ ValidateScan(t)

Step(t) ==
  \/ PutPlace(t) \/ PutInsert(t) \/ PutError(t)
  \/ CountChunks(t) \/ Assemble(t) \/ LockBlob(t) \/ Place(t) \/ Commit(t) \/ CheckFile(t)
  \/ CleanupChunks(t) \/ FinalizeError(t) \/ Rollback(t) \/ Abandon(t)
  \/ GetStat(t) \/ GetOpen(t) \/ GetCut(t)
  \/ GcDelete(t) \/ GcUnlink(t) \/ GcEnd(t) \/ ValidateSet(t) \/ ValidateEnd(t)
  \/ \E h \in Hashes : GcLock(t, h) \/ ValidateRead(t, h)

Next ==
  \/ \E u \in Uploads : CreateUpload(u) \/ DeleteArtifact(u)
  \/ \E t \in Threads : Request(t) \/ Step(t)
  \/ Restart

Spec == Init /\ [][Next]_vars

-----------------------------------------------------------------------------
Labels == {"idle", "putLock", "putInsert", "count", "assemble", "lockBlob", "place",
           "commit", "check", "cleanup", "rollback", "undo", "getStat", "getOpen", "cut",
           "gcNext", "gcDelete", "gcUnlink", "valRead", "valSet"}

TypeOK == StateTypeOK(States, Row, Labels, {1, -1})

Owning   == {"count", "assemble", "lockBlob", "place", "commit", "rollback", "undo"}
Verified == {"lockBlob", "place", "commit"}
Getting  == {"getStat", "getOpen", "cut"}

(* The local variables a step reads have been set, of uploads that exist.  *)
JobSet(t) ==
  /\ pc[t] \in {"putLock", "putInsert"} =>
       /\ job[t].u \in Uploads /\ job[t].i \in Chunks /\ job[t].d \in Data
       /\ ustate[job[t].u] # None
  /\ pc[t] \in Owning \cup Getting \cup {"check", "cleanup"} =>
       job[t].u \in Uploads /\ job[t].h \in Hashes
  /\ pc[t] \in {"gcDelete", "gcUnlink", "valSet"} => job[t].h \in Hashes
  /\ pc[t] = "valSet" => job[t].flag \in {1, -1}

(* A chunk writer in its lock is alone with the file it has placed.        *)
OwnsChunk(t) ==
  LET u == job[t].u  i == job[t].i IN
  pc[t] = "putInsert" =>
    /\ chunkRow[u][i] = None /\ chunkFile[u][i] = job[t].d
    /\ \A s \in Threads \ {t} : ~(pc[s] = "putInsert" /\ job[s].u = u /\ job[s].i = i)

(* A finalizing thread owns its upload; what it counted and hashed stays.  *)
OwnsUpload(t) ==
  LET u == job[t].u IN
  /\ pc[t] \in Owning =>
       /\ ustate[u] = "finalizing"
       /\ \A s \in Threads \ {t} : ~(pc[s] \in Owning /\ job[s].u = u)
  /\ pc[t] \in Verified \cup {"assemble"} => Received(u)
  /\ pc[t] \in Verified => Digest[chunkRow[u]] = job[t].h
  /\ pc[t] \in {"check", "cleanup"} \cup Getting => ustate[u] = "finalized"
  /\ pc[t] \in Getting => artifact[u] \in {None, job[t].h}

(* The blob lock: one holder, and what it has placed or deleted stays.     *)
OwnsBlob(t) ==
  LET h == job[t].h IN
  /\ pc[t] \in BlobLocked =>
       \A s \in Threads \ {t} : ~(pc[s] \in BlobLocked /\ job[s].h = h)
  /\ pc[t] \in {"commit", "check"} => h \in files
  /\ pc[t] = "gcUnlink" => blob[h] = None

ThreadInv(t) == JobSet(t) /\ OwnsChunk(t) /\ OwnsUpload(t) /\ OwnsBlob(t)

(* Until the upload is finalized a recorded chunk's file holds its bytes.  *)
ChunkBytesKept ==
  \A u \in Uploads, i \in Chunks :
    chunkRow[u][i] # None /\ ustate[u] # "finalized" => chunkFile[u][i] = chunkRow[u][i]

ArtifactFinalized == \A u \in Uploads : artifact[u] # None => ustate[u] = "finalized"
FinalizedReceived == \A u \in Uploads : ustate[u] = "finalized" => Received(u)
RowHasFile        == \A h \in Hashes : blob[h] # None => h \in files

(* The inductive invariant, under which the others follow: ownership of    *)
(* chunks, uploads and hashes by the threads at work, and, of the tables,  *)
(* that every blobs row has its file and every artifact a finalized upload.*)
Inv ==
  /\ TypeOK
  /\ \A t \in Threads : ThreadInv(t)
  /\ ChunkBytesKept
  /\ ArtifactIsItsChunks
  /\ RefcountExact
  /\ ArtifactFinalized /\ FinalizedReceived /\ RowHasFile

(* A download that answered 200 is cut short only when its artifact has    *)
(* been deleted since: no gc pass and no finalize takes the bytes of a     *)
(* live artifact from under its reader.                                    *)
CutOnlyIfDeleted ==
  [][\A t \in Threads : pc[t] = "getOpen" /\ pc'[t] = "cut" => artifact[job[t].u] = None]_vars
=============================================================================

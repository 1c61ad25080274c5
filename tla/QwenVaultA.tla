------------------------------ MODULE QwenVaultA ------------------------------
(***************************************************************************)
(* vaultdrop/qwen-3-8-27b: uploads.py, store.py and locks.py.  One process-*)
(* wide gc_lock covers a finalize's transaction and file, a gc pass and a  *)
(* validation pass; under it, and before it, each upload has a lock in a   *)
(* registry, from which finalize drops the lock it used.  There is no      *)
(* finalizing state: the transaction that claims the upload also commits.  *)
(***************************************************************************)
EXTENDS VaultState

States == {"open", "finalized"}
Row    == [refs : Int, validated : {0, 1, 3}]

ASSUME RowAssumption == None \notin Row /\ None \notin States

VARIABLE gen  \* gen[u]: how often the registry's lock of u has been dropped

vars == <<upVars, rowVars, files, pc, job, crashes, gen>>

(* A lock object is a generation of the upload's registry entry: requests  *)
(* that fetched different ones do not exclude each other.                  *)
UploadLocked(u, g) ==
  \E t \in Threads : /\ pc[t] \in {"putInsert", "lockGc", "claim", "acquire", "commit"}
                     /\ job[t].u = u /\ job[t].flag = g

(* Mutant: validation lets go of gc_lock once it has read the rows.        *)
GcLockedBriefly == \E t \in Threads :
  pc[t] \in {"claim", "acquire", "commit", "gcTx", "gcUnlink"}

GcLocked == \E t \in Threads :
  pc[t] \in {"claim", "acquire", "commit", "gcTx", "gcUnlink", "valRead", "valSet"}

(* The claiming UPDATE makes the transaction SQLite's writer until COMMIT. *)
DbBusy == \E t \in Threads : pc[t] \in {"acquire", "commit"}

Init == InitState /\ gen = [u \in Uploads |-> 0]

CreateUpload(u) ==
  /\ ustate[u] = None /\ ~DbBusy
  /\ ustate' = [ustate EXCEPT ![u] = "open"]
  /\ UNCHANGED <<chunkRow, chunkFile, rowVars, files, pc, job, crashes, gen>>

(* put_chunk asks only that the upload exists, and fetches its lock.       *)
PutCheck(t, u, i, d) ==
  /\ Idle(t) /\ ustate[u] # None
  /\ Begin(t, "putLock", [NoJob EXCEPT !.u = u, !.i = i, !.d = d, !.flag = gen[u]])
  /\ UNCHANGED <<upVars, rowVars, files, crashes, gen>>

(* Mutant: put_chunk does not wait for the upload's lock.                  *)
PutUnlocked(t) ==
  LET u == job[t].u  i == job[t].i IN
  /\ pc[t] = "putLock"
  /\ \/ chunkRow[u][i] # None /\ Finish(t) /\ UNCHANGED chunkFile
     \/ /\ chunkRow[u][i] = None
        /\ chunkFile' = [chunkFile EXCEPT ![u][i] = job[t].d]
        /\ Goto(t, "putInsert")
  /\ UNCHANGED <<ustate, chunkRow, rowVars, files, crashes, gen>>

(* A recorded chunk answers the replay; else the file is replaced.         *)
PutPlace(t) ==
  LET u == job[t].u  i == job[t].i IN
  /\ pc[t] = "putLock" /\ ~UploadLocked(u, job[t].flag)
  /\ \/ chunkRow[u][i] # None /\ Finish(t) /\ UNCHANGED chunkFile
     \/ /\ chunkRow[u][i] = None
        /\ chunkFile' = [chunkFile EXCEPT ![u][i] = job[t].d]
        /\ Goto(t, "putInsert")
  /\ UNCHANGED <<ustate, chunkRow, rowVars, files, crashes, gen>>

(* On a key that exists after all, the handler unlinks the chunk's file.   *)
PutInsert(t) ==
  LET u == job[t].u  i == job[t].i IN
  /\ pc[t] = "putInsert" /\ ~DbBusy
  /\ IF chunkRow[u][i] = None
     THEN chunkRow' = [chunkRow EXCEPT ![u][i] = job[t].d] /\ UNCHANGED chunkFile
     ELSE chunkFile' = [chunkFile EXCEPT ![u][i] = None] /\ UNCHANGED chunkRow
  /\ Finish(t)
  /\ UNCHANGED <<ustate, rowVars, files, crashes, gen>>

-----------------------------------------------------------------------------
(* The upload's state is read first, before any lock is taken.             *)
FinalizeRead(t, u) ==
  /\ Idle(t) /\ ustate[u] = "open"
  /\ Begin(t, "assemble", [NoJob EXCEPT !.u = u])
  /\ UNCHANGED <<upVars, rowVars, files, crashes, gen>>

(* The rows are counted, the files hashed and compared with the declared   *)
(* digest, and the upload's lock fetched; or the request is refused.       *)
Assemble(t) ==
  LET u == job[t].u IN
  /\ pc[t] = "assemble"
  /\ \/ \E h \in Hashes :
          /\ Received(u) /\ Assembled(u, h)
          /\ Begin(t, "lockUpload", [job[t] EXCEPT !.h = h, !.flag = gen[u]])
     \/ Finish(t)
  /\ UNCHANGED <<upVars, rowVars, files, crashes, gen>>

LockUpload(t) ==
  /\ pc[t] = "lockUpload" /\ ~UploadLocked(job[t].u, job[t].flag)
  /\ Goto(t, "lockGc")
  /\ UNCHANGED <<upVars, rowVars, files, crashes, gen>>

LockGc(t) ==
  /\ pc[t] = "lockGc" /\ ~GcLocked
  /\ Goto(t, "claim")
  /\ UNCHANGED <<upVars, rowVars, files, crashes, gen>>

(* Mutant: the claim does not test the upload's state.                     *)
ClaimAgain(t) ==
  /\ pc[t] = "claim" /\ ~DbBusy
  /\ Goto(t, "acquire")
  /\ UNCHANGED <<upVars, rowVars, files, crashes, gen>>

(* Mutant: the loser of the claim waits, in its locks, for the upload.     *)
ClaimWaits(t) ==
  /\ pc[t] = "claim" /\ ~DbBusy /\ ustate[job[t].u] = "open"
  /\ Goto(t, "acquire")
  /\ UNCHANGED <<upVars, rowVars, files, crashes, gen>>

(* UPDATE ... WHERE state='open'; the loser rolls back and answers 200.    *)
Claim(t) ==
  /\ pc[t] = "claim" /\ ~DbBusy
  /\ IF ustate[job[t].u] = "open" THEN Goto(t, "acquire") ELSE Finish(t)
  /\ UNCHANGED <<upVars, rowVars, files, crashes, gen>>

(* acquire_blob's file: kept where the row has one, else renamed in place. *)
Acquire(t) ==
  /\ pc[t] = "acquire"
  /\ files' = files \cup {job[t].h}
  /\ Goto(t, "commit")
  /\ UNCHANGED <<upVars, rowVars, crashes, gen>>

(* Its row, the artifact and the upload become visible; both locks go.     *)
Commit(t) ==
  LET u == job[t].u  h == job[t].h IN
  /\ pc[t] = "commit"
  /\ SetRow(h, IF blob[h] = None THEN [refs |-> 1, validated |-> 0]
               ELSE [blob[h] EXCEPT !.refs = @ + 1])
  /\ artifact' = [artifact EXCEPT ![u] = h]
  /\ ustate' = [ustate EXCEPT ![u] = "finalized"]
  /\ Goto(t, "dropLock")
  /\ UNCHANGED <<chunkRow, chunkFile, files, crashes, gen>>

DropLock(t) ==
  /\ pc[t] = "dropLock"
  /\ gen' = [gen EXCEPT ![job[t].u] = @ + 1]
  /\ Finish(t)
  /\ UNCHANGED <<upVars, rowVars, files, crashes>>

(* Any exception in the locks: rolled back, placed files stay.             *)
RequestError(t) ==
  /\ pc[t] \in {"putInsert", "claim", "acquire", "commit", "gcTx", "gcUnlink", "valSet"}
  /\ Finish(t)
  /\ UNCHANGED <<upVars, rowVars, files, crashes, gen>>

-----------------------------------------------------------------------------
(* delete_artifact takes no lock but the database's.                       *)
DeleteArtifact(u) ==
  /\ artifact[u] # None /\ ~DbBusy
  /\ artifact' = [artifact EXCEPT ![u] = None]
  /\ SetRow(artifact[u], IF blob[artifact[u]] = None THEN None
                         ELSE [blob[artifact[u]] EXCEPT !.refs = @ - 1])
  /\ UNCHANGED <<upVars, files, pc, job, crashes, gen>>

(* Mutant: gc does not take gc_lock.                                       *)
GcUnlocked(t) ==
  /\ Idle(t)
  /\ Begin(t, "gcTx", NoJob)
  /\ UNCHANGED <<upVars, rowVars, files, crashes, gen>>

GcLock(t) ==
  /\ Idle(t) /\ ~GcLocked
  /\ Begin(t, "gcTx", NoJob)
  /\ UNCHANGED <<upVars, rowVars, files, crashes, gen>>

(* All the rows go in one transaction, the files one by one after it.      *)
GcTx(t) ==
  LET dead == {h \in Hashes : blob[h] # None /\ blob[h].refs = 0} IN
  /\ pc[t] = "gcTx" /\ ~DbBusy
  /\ blob' = [h \in Hashes |-> IF h \in dead THEN None ELSE blob[h]]
  /\ Begin(t, "gcUnlink", [NoJob EXCEPT !.todo = dead])
  /\ UNCHANGED <<upVars, artifact, files, crashes, gen>>

GcUnlink(t, h) ==
  /\ pc[t] = "gcUnlink" /\ h \in job[t].todo
  /\ files' = files \ {h}
  /\ Begin(t, "gcUnlink", [job[t] EXCEPT !.todo = @ \ {h}])
  /\ UNCHANGED <<upVars, rowVars, crashes, gen>>

ValidateLock(t) ==
  /\ Idle(t) /\ ~GcLocked
  /\ Begin(t, "valRead", [NoJob EXCEPT !.todo = {h \in Hashes : blob[h] # None}])
  /\ UNCHANGED <<upVars, rowVars, files, crashes, gen>>

ValidateRead(t, h) ==
  /\ pc[t] = "valRead" /\ h \in job[t].todo
  /\ Begin(t, "valSet", [job[t] EXCEPT !.h = h, !.todo = @ \ {h}, !.flag = IF h \in files THEN 1 ELSE 3])
  /\ UNCHANGED <<upVars, rowVars, files, crashes, gen>>

ValidateSet(t) ==
  LET h == job[t].h IN
  /\ pc[t] = "valSet" /\ ~DbBusy
  /\ SetRow(h, IF blob[h] = None THEN None ELSE [blob[h] EXCEPT !.validated = job[t].flag])
  /\ Goto(t, "valRead")
  /\ UNCHANGED <<upVars, artifact, files, crashes, gen>>

PassEnd(t) ==
  /\ pc[t] \in {"gcUnlink", "valRead"} /\ job[t].todo = {}
  /\ Finish(t)
  /\ UNCHANGED <<upVars, rowVars, files, crashes, gen>>

(* cleanup_orphans; the registry of locks is the process's.                *)
Restart ==
  /\ Killed
  /\ files' = {h \in files : blob[h] # None}
  /\ chunkFile' = [u \in Uploads |-> [i \in Chunks |->
                     IF chunkRow[u][i] = None THEN None ELSE chunkFile[u][i]]]
  /\ gen' = [u \in Uploads |-> 0]
  /\ UNCHANGED <<ustate, chunkRow, rowVars>>

-----------------------------------------------------------------------------
Request(t) ==
  \/ \E u \in Uploads, i \in Chunks, d \in Data : PutCheck(t, u, i, d)
  \/ \E u \in Uploads : FinalizeRead(t, u)
  \/ GcLock(t) \/ ValidateLock(t)

Step(t) ==
  \/ PutPlace(t) \/ PutInsert(t)
  \/ Assemble(t) \/ LockUpload(t) \/ LockGc(t) \/ Claim(t)
  \/ Acquire(t) \/ Commit(t) \/ DropLock(t)
  \/ GcTx(t) \/ ValidateSet(t) \/ PassEnd(t)
  \/ \E h \in Hashes : GcUnlink(t, h) \/ ValidateRead(t, h)

Next ==
  \/ \E u \in Uploads : CreateUpload(u) \/ DeleteArtifact(u)
  \/ \E t \in Threads : Request(t) \/ Step(t) \/ RequestError(t)
  \/ Restart

Spec == Init /\ [][Next]_vars

(* A request under way is scheduled, and one that finds its lock or the    *)
(* database free again and again gets it in the end (threading locks;      *)
(* SQLite's 10 s busy handler, which otherwise ends the request).          *)
FairSpec == Spec /\ \A t \in Threads : SF_vars(Step(t))

-----------------------------------------------------------------------------
Labels == {"idle", "putLock", "putInsert", "assemble", "lockUpload", "lockGc",
           "claim", "acquire", "commit", "dropLock", "gcTx", "gcUnlink", "valRead", "valSet"}

(* Every variable has its type; in particular an upload's lock is dropped  *)
(* from the registry once at most while the process lives.                 *)
TypeOK ==
  /\ StateTypeOK(States, Row, Labels, {0, 1, 3})
  /\ gen \in [Uploads -> {0, 1}]

(* The file of a recorded chunk holds its bytes, finalized or not: two     *)
(* writers with different lock objects never meet on a chunk.              *)
ChunkBytesKept ==
  \A u \in Uploads, i \in Chunks : chunkRow[u][i] # None => chunkFile[u][i] = chunkRow[u][i]

(* validate marks a row missing only when its file is: gc_lock keeps a     *)
(* verdict from being recorded on a blob that was collected and stored     *)
(* again since.                                                            *)
NoFalseAlarm ==
  \A h \in Hashes : blob[h] # None /\ blob[h].validated = 3 => h \notin files

(* Every request ends: the order of the locks admits no cycle, and nobody  *)
(* waits in one for what only another request can do.                      *)
RequestsEnd == \A t \in Threads : pc[t] # "idle" ~> pc[t] = "idle"

-----------------------------------------------------------------------------
(* Why: what each thread relies on, and what the tables and files keep.    *)
Hashed  == {"lockUpload", "lockGc", "claim", "acquire", "commit"}
Exclude == {"claim", "acquire", "commit", "gcTx", "gcUnlink", "valRead", "valSet"}

(* The local variables a step reads have been set.                         *)
JobSet(t) ==
  /\ pc[t] \in {"putLock", "putInsert"} =>
       job[t].u \in Uploads /\ job[t].i \in Chunks /\ job[t].d \in Data
  /\ pc[t] \in Hashed \cup {"assemble", "dropLock"} => job[t].u \in Uploads
  /\ pc[t] \in Hashed \cup {"valSet"} => job[t].h \in Hashes

(* A later lock of an upload finds its chunks all received; so whoever     *)
(* writes a chunk holds the first one, and is alone with the upload.       *)
OwnsChunk(t) ==
  LET u == job[t].u  i == job[t].i IN
  /\ pc[t] \in {"putLock", "putInsert"} => ustate[u] # None
  /\ pc[t] = "putLock" /\ job[t].flag # 0 => Received(u)
  /\ pc[t] = "putInsert" =>
       /\ job[t].flag = 0
       /\ chunkRow[u][i] = None /\ chunkFile[u][i] = job[t].d
       /\ \A s \in Threads \ {t} : ~(pc[s] = "putInsert" /\ job[s].u = u)

(* A finalize has hashed the recorded chunks; the one that has claimed the *)
(* upload publishes it and drops its lock, once.                           *)
OwnsUpload(t) ==
  LET u == job[t].u IN
  /\ pc[t] \in Hashed => Received(u) /\ Digest[chunkRow[u]] = job[t].h
  /\ pc[t] \in {"acquire", "commit"} => ustate[u] = "open"
  /\ pc[t] = "dropLock" =>
       /\ ustate[u] = "finalized" /\ gen[u] = 0
       /\ \A s \in Threads \ {t} : ~(pc[s] = "dropLock" /\ job[s].u = u)

(* gc_lock has one holder, for which rows and files stay as it left them.  *)
OwnsGcLock(t) ==
  /\ pc[t] \in Exclude => \A s \in Threads \ {t} : pc[s] \notin Exclude
  /\ pc[t] = "commit" => job[t].h \in files
  /\ pc[t] = "gcUnlink" => \A h \in job[t].todo : blob[h] = None
  /\ pc[t] \in {"valRead", "valSet"} => \A h \in job[t].todo : blob[h] # None
  /\ pc[t] = "valSet" => job[t].flag = 1

ThreadInv(t) == JobSet(t) /\ OwnsChunk(t) /\ OwnsUpload(t) /\ OwnsGcLock(t)

(* Artifacts and dropped locks belong to finalized uploads, and these are  *)
(* complete.                                                               *)
UploadInv(u) ==
  /\ artifact[u] # None \/ gen[u] # 0 => ustate[u] = "finalized"
  /\ ustate[u] = "finalized" => Received(u)

(* A blobs row has its file, and no verdict to the contrary.               *)
RowHasFile ==
  \A h \in Hashes : blob[h] # None => h \in files /\ blob[h].validated # 3

(* The inductive invariant.                                                *)
Inv ==
  /\ TypeOK
  /\ \A t \in Threads : ThreadInv(t)
  /\ \A u \in Uploads : UploadInv(u)
  /\ ChunkBytesKept /\ ArtifactIsItsChunks
  /\ RefcountExact /\ RowHasFile
=============================================================================
